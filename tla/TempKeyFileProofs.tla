------------------------- MODULE TempKeyFileProofs -------------------------
(***************************************************************************)
(* What TLAPS proves of TempKeyFile for any number of processes, keys of   *)
(* any length, any file system and any failures.                           *)
(***************************************************************************)
EXTENDS TempKeyFile, SequenceTheorems, TLAPS

-----------------------------------------------------------------------------
(* The inductive invariant *)

\* A stream is open exactly where the function uses one, and there is no error
\* before the text is read.
Streams ==
    \A p \in Procs :
       /\ fp[p] # {} <=> pc[p] \in {"write", "size", "read"}
       /\ pc[p] # "remove" => err[p] = "OK"

\* The two names never have one inode, and no process has the other one's open.
Separate ==
    /\ name["public"] \cap name["private"] = {}
    /\ \A p \in Procs, k \in Kinds : k # kind[p] => fp[p] \cap name[k] = {}

\* A process that was not disturbed is alone in its function.
Alone ==
    \A p, q \in Procs :
       Inside(p) /\ ~disturbed[p] /\ Inside(q) /\ kind[q] = kind[p] => q = p

Holds(p, s) == \A i \in File(p) : content[i] = s

\* What such a process knows of its file at each point.
Progress(p) ==
    /\ pc[p] = "write"  => fp[p] = File(p) /\ Holds(p, <<>>)
    /\ pc[p] = "open r" => File(p) # {} /\ Holds(p, WholeKey(p))
    /\ pc[p] = "size"   => fp[p] = File(p) /\ Holds(p, WholeKey(p))
    /\ pc[p] = "read"   => fp[p] = File(p) /\ Holds(p, WholeKey(p)) /\ fz[p] = PemLen[p]
    /\ pc[p] = "remove" => err[p] = "OK" /\ text[p] = WholeKey(p)

Own == \A p \in Procs : Inside(p) /\ ~disturbed[p] => Progress(p)

TempInv == TempTypeOK /\ Streams /\ Separate /\ Alone /\ Own /\ NothingLeft

-----------------------------------------------------------------------------
(* Keys as sequences *)

LEMMA WholeKeyProperties ==
  ASSUME NEW p \in Procs
  PROVE  /\ WholeKey(p) \in Seq(Procs) /\ Len(WholeKey(p)) = PemLen[p]
         /\ PemLen[p] \in Nat \ {0}
<1>1. PemLen[p] \in Nat \ {0}
  BY PemLenAssumption
<1> QED
  BY <1>1 DEF WholeKey

LEMMA EmptySeqOfProcs == <<>> \in Seq(Procs) /\ Len(<<>>) = 0
<1> QED
  BY EmptySeq

LEMMA FirstOfAll ==
  ASSUME NEW s \in Seq(Procs)
  PROVE  FirstOf(s, Len(s)) = s
<1>1. SubSeq(s, 1, Len(s)) = s
  BY SubSeqFull
<1> QED
  BY <1>1 DEF FirstOf

LEMMA FirstOfTyped ==
  ASSUME NEW s \in Seq(Procs), NEW n \in Nat
  PROVE  FirstOf(s, n) \in Seq(Procs)
<1>1. Len(s) \in Nat
  BY LenProperties
<1>2. \A m \in 0 .. Len(s) : SubSeq(s, 1, m) \in Seq(Procs)
  BY SubSeqProperties
<1> QED
  BY <1>1, <1>2 DEF FirstOf


LEMMA WrittenProperties ==
  ASSUME NEW p \in Procs, NEW s \in Seq(Procs)
  PROVE  /\ Written(p, s) \in Seq(Procs)
         /\ Len(s) <= PemLen[p] => Written(p, s) = WholeKey(p)
<1> DEFINE rest == SubSeq(s, PemLen[p] + 1, Len(s))
<1>1. /\ WholeKey(p) \in Seq(Procs) /\ PemLen[p] \in Nat /\ Len(s) \in Nat
  BY WholeKeyProperties, LenProperties
<1>2. rest \in Seq(Procs)
  <2>1. \A i \in PemLen[p] + 1 .. Len(s) : s[i] \in Procs
    BY <1>1, ElementOfSeq
  <2> QED
    BY <1>1, <2>1, SubSeqProperties
<1>3. Len(s) <= PemLen[p] => rest = <<>>
  <2> SUFFICES ASSUME Len(s) <= PemLen[p] PROVE rest = <<>>
    OBVIOUS
  <2>1. Len(s) < PemLen[p] + 1 /\ PemLen[p] + 1 \in Int /\ Len(s) \in Int
    BY <1>1
  <2> QED
    BY <2>1, SubSeqEmpty
<1>4. Written(p, s) = WholeKey(p) \o rest
  BY DEF Written, WholeKey
<1>5. WholeKey(p) \o rest \in Seq(Procs)
  BY <1>1, <1>2, ConcatProperties
<1>6. WholeKey(p) \o <<>> = WholeKey(p)
  BY <1>1, ConcatEmptySeq
<1> QED
  BY <1>3, <1>4, <1>5, <1>6

-----------------------------------------------------------------------------
(* What a step of one process leaves alone *)

\* Everything that belongs to another process.
Others(p) ==
    \A q \in Procs : q # p =>
       /\ pc'[q] = pc[q] /\ kind'[q] = kind[q] /\ fp'[q] = fp[q] /\ fz'[q] = fz[q]
       /\ text'[q] = text[q] /\ err'[q] = err[q] /\ disturbed'[q] = disturbed[q]

\* The file of the other function.
Apart(p) ==
    \A k \in Kinds : k # kind[p] =>
       name'[k] = name[k] /\ \A i \in name[k] : content'[i] = content[i]

\* A stream and a name have one inode at most.
LEMMA Singletons ==
  ASSUME TempTypeOK
  PROVE  /\ \A q \in Procs : fp[q] \subseteq Inodes /\ \A i \in fp[q] : fp[q] = {i}
         /\ \A k \in Kinds : name[k] \subseteq Inodes /\ \A i \in name[k] : name[k] = {i}
<1>1. \A q \in Procs : fp[q] \in {{}} \cup {{i} : i \in Inodes}
  BY DEF TempTypeOK
<1>2. \A k \in Kinds : name[k] \in {{}} \cup {{i} : i \in Inodes}
  BY DEF TempTypeOK
<1> QED
  BY <1>1, <1>2

\* An export that has opened its file and will remove it.
Removes(p) == p \in InsideOf("public") /\ pc[p] # "open w"

LEMMA OtherLeft ==
  ASSUME TempInv, NEW p \in Procs, Others(p), left => left',
         name'["public"] # {} =>
           \/ Removes(p)'
           \/ name["public"] # {} /\ (Removes(p) => left')
  PROVE  NothingLeft'
<1> SUFFICES ASSUME name'["public"] # {}, ~left'
             PROVE  \E q \in Procs : Removes(q)'
  BY DEF NothingLeft, Removes, InsideOf
<1>1. CASE Removes(p)'
  BY <1>1
<1>2. CASE name["public"] # {} /\ ~Removes(p)
  <2>1. PICK q \in Procs : Removes(q)
    BY <1>2 DEF TempInv, NothingLeft, Removes, InsideOf
  <2>2. q # p /\ pc'[q] = pc[q] /\ kind'[q] = kind[q]
    BY <1>2, <2>1 DEF Others
  <2> QED
    BY <2>1, <2>2 DEF Removes, InsideOf, Inside
<1> QED
  BY <1>1, <1>2

LEMMA OtherStreams ==
  ASSUME TempInv, NEW p \in Procs, Others(p),
         fp'[p] # {} <=> pc'[p] \in {"write", "size", "read"},
         pc'[p] # "remove" => err'[p] = "OK"
  PROVE  Streams'
<1> QED
  BY DEF TempInv, Streams, Others

LEMMA OtherAlone ==
  ASSUME TempInv, NEW p \in Procs, Others(p),
         Inside(p)' => /\ Inside(p) /\ kind'[p] = kind[p]
                       /\ disturbed[p] => disturbed'[p]
  PROVE  Alone'
<1> SUFFICES ASSUME NEW q \in Procs, NEW r \in Procs,
                    (Inside(q) /\ ~disturbed[q] /\ Inside(r) /\ kind[r] = kind[q])'
             PROVE  r = q
  BY DEF Alone
<1>1. \A x \in Procs : Inside(x)' => /\ Inside(x) /\ kind'[x] = kind[x]
                                     /\ disturbed[x] => disturbed'[x]
  BY DEF Others, Inside
<1>2. Inside(q) /\ ~disturbed[q] /\ Inside(r) /\ kind[r] = kind[q]
  BY <1>1
<1> QED
  BY <1>2 DEF TempInv, Alone

LEMMA OtherOwn ==
  ASSUME TempInv, NEW p \in Procs, Others(p), Apart(p),
         Inside(p) \/ UNCHANGED <<name, content>>,
         (Inside(p) /\ ~disturbed[p])' => Progress(p)'
  PROVE  Own'
<1> SUFFICES ASSUME NEW q \in Procs, (Inside(q) /\ ~disturbed[q])', q # p
             PROVE  Progress(q)'
  BY DEF Own
<1>1. /\ pc'[q] = pc[q] /\ kind'[q] = kind[q] /\ fp'[q] = fp[q] /\ fz'[q] = fz[q]
      /\ text'[q] = text[q] /\ err'[q] = err[q] /\ disturbed'[q] = disturbed[q]
  BY DEF Others
<1>2. Inside(q) /\ ~disturbed[q] /\ Progress(q)
  BY <1>1 DEF Inside, TempInv, Own
<1>3. kind[q] \in Kinds
  BY DEF TempInv, TempTypeOK
<1>4. Inside(p) => kind[p] # kind[q]
  BY <1>2 DEF TempInv, Alone
<1>5. name'[kind[q]] = name[kind[q]] /\ \A i \in name[kind[q]] : content'[i] = content[i]
  BY <1>3, <1>4 DEF Apart
<1>6. File(q)' = File(q) /\ \A i \in File(q) : content'[i] = content[i]
  BY <1>1, <1>5 DEF File
<1>7. \A s : Holds(q, s) => Holds(q, s)'
  BY <1>6 DEF Holds
<1>8. WholeKey(q)' = WholeKey(q)
  BY DEF WholeKey
<1>9. pc'[q] = "write" => (fp[q] = File(q) /\ Holds(q, <<>>))'
  BY <1>1, <1>2, <1>6, <1>7 DEF Progress
<1>10. pc'[q] = "open r" => (File(q) # {} /\ Holds(q, WholeKey(q)))'
  BY <1>1, <1>2, <1>6, <1>7, <1>8 DEF Progress
<1>11. pc'[q] = "size" => (fp[q] = File(q) /\ Holds(q, WholeKey(q)))'
  BY <1>1, <1>2, <1>6, <1>7, <1>8 DEF Progress
<1>12. pc'[q] = "read" => (fp[q] = File(q) /\ Holds(q, WholeKey(q)) /\ fz[q] = PemLen[q])'
  BY <1>1, <1>2, <1>6, <1>7, <1>8 DEF Progress
<1>13. pc'[q] = "remove" => (err[q] = "OK" /\ text[q] = WholeKey(q))'
  BY <1>1, <1>2, <1>8 DEF Progress
<1> QED
  BY <1>9, <1>10, <1>11, <1>12, <1>13 DEF Progress

-----------------------------------------------------------------------------
(* Every step keeps the invariant *)

LEMMA TempInit == Init => TempInv
<1> SUFFICES ASSUME Init PROVE TempInv
  OBVIOUS
<1>1. <<>> \in Seq(Procs)
  OBVIOUS
<1>2. TempTypeOK
  BY <1>1 DEF Init, TempTypeOK, Kinds
<1>3. Streams /\ Separate /\ Alone /\ Own /\ NothingLeft
  BY DEF Init, Streams, Separate, Alone, Own, NothingLeft, Inside, Kinds
<1> QED
  BY <1>2, <1>3 DEF TempInv

LEMMA WriteFailsStep ==
  ASSUME TempInv, NEW p \in Procs, WriteFails(p)
  PROVE  TempInv'
<1>1. Others(p)
  BY DEF TempInv, TempTypeOK, Others, WriteFails, At, Leave
<1>2. /\ pc'[p] = "idle" /\ kind'[p] = "public" /\ fp'[p] = {} /\ err'[p] = "OK"
      /\ name' = name /\ content' = content /\ pc[p] = "write" /\ left' = (left \/ kind[p] = "public")
  BY DEF TempInv, TempTypeOK, WriteFails, Leave, Kinds
<1>3. TempTypeOK'
  BY EmptySeqOfProcs DEF TempInv, TempTypeOK, WriteFails, Leave, Kinds
<1>4. Streams'
  BY <1>1, <1>2, OtherStreams DEF TempInv, Streams
<1>5. Separate'
  BY <1>1, <1>2 DEF TempInv, TempTypeOK, Separate, Others, Kinds
<1>6. Alone'
  BY <1>1, <1>2, OtherAlone DEF Inside
<1>7. Apart(p)
  BY <1>2 DEF Apart
<1>8. (Inside(p) /\ ~disturbed[p])' => Progress(p)'
  BY <1>2 DEF Inside
<1>9. Own'
  BY <1>1, <1>2, <1>7, <1>8, OtherOwn DEF Inside
<1>10. NothingLeft'
  BY <1>1, <1>2, OtherLeft DEF Removes, InsideOf, Inside, Kinds
<1> QED
  BY <1>3, <1>4, <1>5, <1>6, <1>9, <1>10 DEF TempInv

LEMMA KillStep ==
  ASSUME TempInv, NEW p \in Procs, Kill(p)
  PROVE  TempInv'
<1>1. Others(p)
  BY DEF TempInv, TempTypeOK, Others, Kill, At, Leave
<1>2. /\ pc'[p] = "idle" /\ kind'[p] = "public" /\ fp'[p] = {} /\ err'[p] = "OK"
      /\ name' = name /\ content' = content /\ Inside(p) /\ left' = (left \/ kind[p] = "public")
  BY DEF TempInv, TempTypeOK, Kill, Leave, Kinds
<1>3. TempTypeOK'
  BY EmptySeqOfProcs DEF TempInv, TempTypeOK, Kill, Leave, Kinds
<1>4. Streams'
  BY <1>1, <1>2, OtherStreams DEF TempInv, Streams
<1>5. Separate'
  BY <1>1, <1>2 DEF TempInv, TempTypeOK, Separate, Others, Kinds
<1>6. Alone'
  BY <1>1, <1>2, OtherAlone DEF Inside
<1>7. Apart(p)
  BY <1>2 DEF Apart
<1>8. (Inside(p) /\ ~disturbed[p])' => Progress(p)'
  BY <1>2 DEF Inside
<1>9. Own'
  BY <1>1, <1>2, <1>7, <1>8, OtherOwn DEF Inside
<1>10. NothingLeft'
  BY <1>1, <1>2, OtherLeft DEF Removes, InsideOf, Inside, Kinds
<1> QED
  BY <1>3, <1>4, <1>5, <1>6, <1>9, <1>10 DEF TempInv

LEMMA RestartStep ==
  ASSUME TempInv, NEW p \in Procs, Restart(p)
  PROVE  TempInv'
<1>1. Others(p)
  BY DEF TempInv, TempTypeOK, Others, Restart, At, Leave
<1>2. /\ pc'[p] = "idle" /\ kind'[p] = "public" /\ fp'[p] = {} /\ err'[p] = "OK"
      /\ name' = name /\ content' = content /\ pc[p] = "crashed" /\ left' = left
  BY DEF TempInv, TempTypeOK, Restart, Leave, Kinds
<1>3. TempTypeOK'
  BY EmptySeqOfProcs DEF TempInv, TempTypeOK, Restart, Leave, Kinds
<1>4. Streams'
  BY <1>1, <1>2, OtherStreams DEF TempInv, Streams
<1>5. Separate'
  BY <1>1, <1>2 DEF TempInv, TempTypeOK, Separate, Others, Kinds
<1>6. Alone'
  BY <1>1, <1>2, OtherAlone DEF Inside
<1>7. Apart(p)
  BY <1>2 DEF Apart
<1>8. (Inside(p) /\ ~disturbed[p])' => Progress(p)'
  BY <1>2 DEF Inside
<1>9. Own'
  BY <1>1, <1>2, <1>7, <1>8, OtherOwn DEF Inside
<1>10. NothingLeft'
  BY <1>1, <1>2, OtherLeft DEF Removes, InsideOf, Inside, Kinds
<1> QED
  BY <1>3, <1>4, <1>5, <1>6, <1>9, <1>10 DEF TempInv

LEMMA RemoveStep ==
  ASSUME TempInv, NEW p \in Procs, Remove(p)
  PROVE  TempInv'
<1>1. Others(p)
  BY DEF TempInv, TempTypeOK, Others, Remove, At, Leave
<1>2. /\ pc'[p] = "idle" /\ kind'[p] = "public" /\ fp'[p] = {} /\ err'[p] = "OK"
      /\ pc[p] = "remove" /\ content' = content /\ left' = left
      /\ \A k \in Kinds : name'[k] = IF k = "public" /\ kind[p] = "public" THEN {} ELSE name[k]
  BY DEF TempInv, TempTypeOK, Remove, Leave, Named, Kinds
<1>3. TempTypeOK'
  BY EmptySeqOfProcs DEF TempInv, TempTypeOK, Remove, Leave, Named, Kinds
<1>4. Streams'
  BY <1>1, <1>2, OtherStreams DEF TempInv, Streams
<1>5. Separate'
  BY <1>1, <1>2 DEF TempInv, TempTypeOK, Separate, Others, Kinds
<1>6. Alone'
  BY <1>1, <1>2, OtherAlone DEF Inside
<1>7. Apart(p)
  BY <1>2 DEF Apart
<1>8. (Inside(p) /\ ~disturbed[p])' => Progress(p)'
  BY <1>2 DEF Inside
<1>9. Own'
  BY <1>1, <1>2, <1>7, <1>8, OtherOwn DEF Inside
<1>10. NothingLeft'
  BY <1>1, <1>2, OtherLeft DEF Removes, InsideOf, Inside, Kinds
<1> QED
  BY <1>3, <1>4, <1>5, <1>6, <1>9, <1>10 DEF TempInv

LEMMA OpenReadStep ==
  ASSUME TempInv, NEW p \in Procs, OpenRead(p)
  PROVE  TempInv'
<1>1. Others(p)
  BY DEF TempInv, TempTypeOK, Others, OpenRead, At, Leave
<1>2. /\ pc[p] = "open r" /\ name' = name /\ content' = content /\ left' = left
      /\ kind'[p] = kind[p] /\ err'[p] = err[p] /\ disturbed'[p] = disturbed[p]
      /\ File(p) # {} /\ pc'[p] = "size" /\ fp'[p] = File(p)
  BY DEF TempInv, TempTypeOK, OpenRead, At
<1>3. TempTypeOK'
  <2>1. File(p) \in {{}} \cup {{i} : i \in Inodes}
    BY DEF TempInv, TempTypeOK, File
  <2> QED
    BY <2>1 DEF TempInv, TempTypeOK, OpenRead, At
<1>4. Streams'
  BY <1>1, <1>2, OtherStreams DEF TempInv, Streams
<1>5. Separate'
  <2>1. kind[p] \in Kinds
    BY DEF TempInv, TempTypeOK
  <2>2. \A k \in Kinds : k # kind[p] => fp'[p] \cap name[k] = {}
    BY <1>2, <2>1 DEF TempInv, Separate, File, Kinds
  <2> QED
    BY <1>1, <1>2, <2>2 DEF TempInv, Separate, Others
<1>6. Alone'
  BY <1>1, <1>2, OtherAlone DEF Inside
<1>7. Apart(p)
  BY <1>2 DEF Apart
<1>8. (Inside(p) /\ ~disturbed[p])' => Progress(p)'
  <2> SUFFICES ASSUME (Inside(p) /\ ~disturbed[p])' PROVE Progress(p)'
    OBVIOUS
  <2>1. pc'[p] = "size" /\ fp'[p] = File(p) /\ Progress(p)
    BY <1>2 DEF Inside, TempInv, Own
  <2>2. Holds(p, WholeKey(p))' /\ File(p)' = File(p)
    BY <1>2, <2>1 DEF Progress, Holds, File, WholeKey
  <2> QED
    BY <2>1, <2>2 DEF Progress
<1>9. Own'
  BY <1>1, <1>2, <1>7, <1>8, OtherOwn DEF Inside
<1>10. NothingLeft'
  BY <1>1, <1>2, OtherLeft DEF Removes, InsideOf, Inside, File
<1> QED
  BY <1>3, <1>4, <1>5, <1>6, <1>9, <1>10 DEF TempInv

\* A call of fopen that fails ends the process before it touches the file.
LEMMA OpenFailsStep ==
  ASSUME TempInv, NEW p \in Procs, OpenWriteFails(p) \/ OpenReadFails(p)
  PROVE  TempInv'
<1>1. Others(p)
  BY DEF TempInv, TempTypeOK, Others, OpenWriteFails, OpenReadFails, At
<1>2. /\ pc[p] \in {"open w", "open r"} /\ pc'[p] = "crashed"
      /\ name' = name /\ kind' = kind /\ content' = content /\ fp' = fp /\ err' = err
      /\ disturbed' = disturbed /\ (left => left')
      /\ pc[p] = "open r" /\ kind[p] = "public" /\ File(p) # {} => left'
  BY DEF TempInv, TempTypeOK, OpenWriteFails, OpenReadFails, At
<1>3. TempTypeOK'
  BY DEF TempInv, TempTypeOK, OpenWriteFails, OpenReadFails, At
<1>4. Streams'
  BY <1>1, <1>2, OtherStreams DEF TempInv, Streams
<1>5. Separate'
  BY <1>2 DEF TempInv, Separate
<1>6. Alone'
  BY <1>1, <1>2, OtherAlone DEF Inside
<1>7. Apart(p)
  BY <1>2 DEF Apart
<1>8. (Inside(p) /\ ~disturbed[p])' => Progress(p)'
  BY <1>2 DEF Inside
<1>9. Own'
  BY <1>1, <1>2, <1>7, <1>8, OtherOwn DEF Inside
<1>10. NothingLeft'
  BY <1>1, <1>2, OtherLeft DEF Removes, InsideOf, Inside, File
<1> QED
  BY <1>3, <1>4, <1>5, <1>6, <1>9, <1>10 DEF TempInv

LEMMA SizeStep ==
  ASSUME TempInv, NEW p \in Procs, Size(p)
  PROVE  TempInv'
<1>1. Others(p)
  BY DEF TempInv, TempTypeOK, Others, Size, At, Leave
<1>2. /\ pc[p] = "size" /\ pc'[p] = "read" /\ name' = name /\ content' = content /\ left' = left
      /\ kind'[p] = kind[p] /\ err'[p] = err[p] /\ disturbed'[p] = disturbed[p] /\ fp'[p] = fp[p]
      /\ \E i \in fp[p] : fz'[p] = Len(content[i])
  BY DEF TempInv, TempTypeOK, Size, At
<1>3. TempTypeOK'
  <2>1. PICK i \in fp[p] : fz' = [fz EXCEPT ![p] = Len(content[i])]
    BY DEF Size
  <2>2. content[i] \in Seq(Procs)
    BY Singletons DEF TempInv, TempTypeOK
  <2>3. Len(content[i]) \in Nat
    BY <2>2, LenProperties
  <2> QED
    BY <2>1, <2>3 DEF TempInv, TempTypeOK, Size, At
<1>4. Streams'
  BY <1>1, <1>2, OtherStreams DEF TempInv, Streams
<1>5. Separate'
  BY <1>1, <1>2 DEF TempInv, TempTypeOK, Separate, Others, Kinds
<1>6. Alone'
  BY <1>1, <1>2, OtherAlone DEF Inside
<1>7. Apart(p)
  BY <1>2 DEF Apart
<1>8. (Inside(p) /\ ~disturbed[p])' => Progress(p)'
  <2> SUFFICES ASSUME ~disturbed[p] PROVE Progress(p)'
    BY <1>2
  <2>1. fp[p] = File(p) /\ Holds(p, WholeKey(p))
    BY <1>2 DEF TempInv, Own, Progress, Inside
  <2>2. Holds(p, WholeKey(p))' /\ File(p)' = File(p)
    BY <1>2, <2>1 DEF Holds, File, WholeKey
  <2>3. fz'[p] = PemLen[p]
    BY <1>2, <2>1, WholeKeyProperties DEF Holds
  <2> QED
    BY <1>2, <2>1, <2>2, <2>3 DEF Progress
<1>9. Own'
  BY <1>1, <1>2, <1>7, <1>8, OtherOwn DEF Inside
<1>10. NothingLeft'
  BY <1>1, <1>2, OtherLeft DEF Removes, InsideOf, Inside, Kinds
<1> QED
  BY <1>3, <1>4, <1>5, <1>6, <1>9, <1>10 DEF TempInv

LEMMA ReadStep ==
  ASSUME TempInv, NEW p \in Procs, Read(p)
  PROVE  TempInv'
<1>1. Others(p)
  BY DEF TempInv, TempTypeOK, Others, Read, At, Leave
<1>2. /\ pc[p] = "read" /\ pc'[p] = "remove" /\ name' = name /\ content' = content /\ left' = left
      /\ kind'[p] = kind[p] /\ disturbed'[p] = disturbed[p] /\ fp'[p] = {}
      /\ \E i \in fp[p] :
            /\ text'[p] = FirstOf(content[i], fz[p])
            /\ err'[p] = IF Len(content[i]) < fz[p] THEN "OTE" ELSE err[p]
  BY DEF TempInv, TempTypeOK, Read, At
<1>3. TempTypeOK'
  <2>1. PICK i \in fp[p] :
           /\ text' = [text EXCEPT ![p] = FirstOf(content[i], fz[p])]
           /\ err' = [err EXCEPT ![p] = IF Len(content[i]) < fz[p] THEN "OTE" ELSE @]
    BY DEF Read
  <2>2. content[i] \in Seq(Procs) /\ fz[p] \in Nat
    BY Singletons DEF TempInv, TempTypeOK
  <2>3. FirstOf(content[i], fz[p]) \in Seq(Procs)
    BY <2>2, FirstOfTyped
  <2> QED
    BY <2>1, <2>3 DEF TempInv, TempTypeOK, Read, At
<1>4. Streams'
  BY <1>1, <1>2, OtherStreams DEF TempInv, Streams
<1>5. Separate'
  BY <1>1, <1>2 DEF TempInv, TempTypeOK, Separate, Others, Kinds
<1>6. Alone'
  BY <1>1, <1>2, OtherAlone DEF Inside
<1>7. Apart(p)
  BY <1>2 DEF Apart
<1>8. (Inside(p) /\ ~disturbed[p])' => Progress(p)'
  <2> SUFFICES ASSUME ~disturbed[p] PROVE Progress(p)'
    BY <1>2
  <2>1. /\ fp[p] = File(p) /\ Holds(p, WholeKey(p)) /\ fz[p] = PemLen[p] /\ err[p] = "OK"
    BY <1>2 DEF TempInv, Streams, Own, Progress, Inside
  <2>2. PICK i \in fp[p] : /\ text'[p] = FirstOf(content[i], fz[p])
                           /\ err'[p] = IF Len(content[i]) < fz[p] THEN "OTE" ELSE err[p]
    BY <1>2
  <2>3. content[i] = WholeKey(p)
    BY <2>1, <2>2 DEF Holds
  <2>4. text'[p] = WholeKey(p)
    BY <2>1, <2>2, <2>3, WholeKeyProperties, FirstOfAll
  <2>5. ~(Len(content[i]) < fz[p])
    BY <2>1, <2>3, WholeKeyProperties
  <2> QED
    BY <1>2, <2>1, <2>2, <2>4, <2>5 DEF Progress, WholeKey
<1>9. Own'
  BY <1>1, <1>2, <1>7, <1>8, OtherOwn DEF Inside
<1>10. NothingLeft'
  BY <1>1, <1>2, OtherLeft DEF Removes, InsideOf, Inside, Kinds
<1> QED
  BY <1>3, <1>4, <1>5, <1>6, <1>9, <1>10 DEF TempInv

LEMMA WriteStep ==
  ASSUME TempInv, NEW p \in Procs, Write(p)
  PROVE  TempInv'
<1>1. Others(p)
  BY DEF TempInv, TempTypeOK, Others, Write, At, Leave
<1>2. /\ pc[p] = "write" /\ pc'[p] = "open r" /\ name' = name /\ left' = left
      /\ kind'[p] = kind[p] /\ fp'[p] = {} /\ err'[p] = err[p]
      /\ disturbed[p] => disturbed'[p]
      /\ \A i \in Inodes : i \notin fp[p] => content'[i] = content[i]
  BY DEF TempInv, TempTypeOK, Write, At
<1>3. TempTypeOK'
  <2>1. \A i \in fp[p] : Written(p, content[i]) \in Seq(Procs)
    BY WrittenProperties, Singletons DEF TempInv, TempTypeOK
  <2>2. content' \in [Inodes -> Seq(Procs)]
    BY <2>1 DEF TempInv, TempTypeOK, Write
  <2> QED
    BY <2>2 DEF TempInv, TempTypeOK, Write, At
<1>4. Streams'
  BY <1>1, <1>2, OtherStreams DEF TempInv, Streams
<1>5. Separate'
  BY <1>1, <1>2 DEF TempInv, TempTypeOK, Separate, Others, Kinds
<1>6. Alone'
  BY <1>1, <1>2, OtherAlone DEF Inside
<1>7. Apart(p)
  <2>1. \A k \in Kinds : k # kind[p] => fp[p] \cap name[k] = {} /\ name[k] \subseteq Inodes
    BY Singletons DEF TempInv, Separate
  <2> QED
    BY <1>2, <2>1 DEF Apart
<1>8. (Inside(p) /\ ~disturbed[p])' => Progress(p)'
  <2> SUFFICES ASSUME ~disturbed'[p] PROVE Progress(p)'
    BY <1>2
  <2>1. fp[p] = File(p) /\ Holds(p, <<>>) /\ fp[p] # {}
    BY <1>2 DEF TempInv, Streams, Own, Progress, Inside
  <2>2. PICK i \in fp[p] : content' = [content EXCEPT ![i] = Written(p, @)]
    BY DEF TempInv, TempTypeOK, Write
  <2>3. File(p) = {i} /\ i \in Inodes /\ content[i] = <<>>
    BY <2>1, <2>2, Singletons DEF TempInv, TempTypeOK, Holds
  <2>4. content'[i] = Written(p, <<>>)
    BY <2>2, <2>3 DEF TempInv, TempTypeOK
  <2>5. Written(p, <<>>) = WholeKey(p)
    <3>1. Len(<<>>) <= PemLen[p]
      BY EmptySeqOfProcs, WholeKeyProperties
    <3> QED
      BY <3>1, EmptySeqOfProcs, WrittenProperties
  <2>6. File(p)' = {i} /\ Holds(p, WholeKey(p))'
    BY <1>2, <2>3, <2>4, <2>5 DEF Holds, File, WholeKey
  <2> QED
    BY <1>2, <2>6 DEF Progress
<1>9. Own'
  BY <1>1, <1>2, <1>7, <1>8, OtherOwn DEF Inside
<1>10. NothingLeft'
  BY <1>1, <1>2, OtherLeft DEF Removes, InsideOf, Inside, Kinds
<1> QED
  BY <1>3, <1>4, <1>5, <1>6, <1>9, <1>10 DEF TempInv

LEMMA OpenWriteStep ==
  ASSUME TempInv, NEW p \in Procs, OpenWrite(p)
  PROVE  TempInv'
<1>1. Others(p)
  BY DEF TempInv, TempTypeOK, Others, OpenWrite, At
<1>2. PICK i \in (IF File(p) = {} THEN Unused ELSE File(p)) :
        /\ name' = [name EXCEPT ![kind[p]] = {i}]
        /\ content' = [content EXCEPT ![i] = <<>>]
        /\ fp' = [fp EXCEPT ![p] = {i}]
  BY DEF OpenWrite, Named
<1>3. kind[p] \in Kinds /\ i \in Inodes
  BY Singletons DEF TempInv, TempTypeOK, File, Unused
<1>4. /\ pc[p] = "open w" /\ pc'[p] = "write" /\ left' = left
      /\ kind'[p] = kind[p] /\ err'[p] = err[p] /\ disturbed'[p] = disturbed[p]
  BY DEF TempInv, TempTypeOK, OpenWrite, At
<1>5. /\ fp'[p] = {i} /\ name'[kind[p]] = {i}
      /\ \A k \in Kinds : k # kind[p] => name'[k] = name[k]
      /\ content'[i] = <<>> /\ \A j \in Inodes : j # i => content'[j] = content[j]
  BY <1>2, <1>3 DEF TempInv, TempTypeOK
<1>6. /\ \A k \in Kinds : k # kind[p] => i \notin name[k]
      /\ \A q \in Procs : kind[q] # kind[p] => i \notin fp[q]
  <2>1. CASE File(p) = {}
    <3>1. i \in Unused
      BY <1>2, <2>1
    <3>2. \A k \in Kinds : i \notin name[k]
      <4> SUFFICES ASSUME NEW k \in Kinds, i \in name[k] PROVE FALSE
        OBVIOUS
      <4>1. i \in UNION {name[x] : x \in Kinds}
        OBVIOUS
      <4> QED
        BY <3>1, <4>1 DEF Unused
    <3>3. i \notin UNION {fp[q] : q \in Procs}
      BY <3>1 DEF Unused
    <3>4. \A q \in Procs : i \notin fp[q]
      BY <3>3
    <3> QED
      BY <3>2, <3>4
  <2>2. CASE File(p) # {}
    BY <1>2, <1>3, <2>2 DEF TempInv, TempTypeOK, Separate, File, Kinds
  <2> QED
    BY <2>1, <2>2
<1>7. TempTypeOK'
  <2>1. name' \in [Kinds -> {{}} \cup {{j} : j \in Inodes}]
    BY <1>2, <1>3 DEF TempInv, TempTypeOK
  <2>2. fp' \in [Procs -> {{}} \cup {{j} : j \in Inodes}]
    BY <1>2, <1>3 DEF TempInv, TempTypeOK
  <2>3. content' \in [Inodes -> Seq(Procs)]
    BY <1>2, <1>3, EmptySeqOfProcs DEF TempInv, TempTypeOK
  <2> QED
    BY <2>1, <2>2, <2>3 DEF TempInv, TempTypeOK, OpenWrite, At
<1>8. Streams'
  BY <1>1, <1>4, <1>5, OtherStreams DEF TempInv, Streams
<1>9. Separate'
  <2>1. (name["public"] \cap name["private"] = {})'
    BY <1>3, <1>5, <1>6 DEF TempInv, Separate, Kinds
  <2>2. ASSUME NEW q \in Procs, NEW k \in Kinds, k # kind[q]
        PROVE  fp'[q] \cap name'[k] = {}
    <3>1. fp[q] \cap name[k] = {}
      BY <2>2 DEF TempInv, Separate
    <3>2. CASE q = p
      BY <1>5, <1>6, <2>2, <3>2
    <3>3. CASE q # p /\ k = kind[p]
      BY <1>1, <1>5, <1>6, <2>2, <3>3 DEF Others
    <3>4. CASE q # p /\ k # kind[p]
      BY <1>1, <1>5, <3>1, <3>4 DEF Others
    <3> QED
      BY <3>2, <3>3, <3>4
  <2>3. \A q \in Procs : kind'[q] = kind[q]
    BY <1>1, <1>4 DEF Others
  <2> QED
    BY <2>1, <2>2, <2>3 DEF Separate
<1>10. Alone'
  BY <1>1, <1>4, OtherAlone DEF Inside
<1>11. Apart(p)
  <2>1. \A k \in Kinds : name[k] \subseteq Inodes
    BY Singletons DEF TempInv
  <2> QED
    BY <1>5, <1>6, <2>1 DEF Apart
<1>12. (Inside(p) /\ ~disturbed[p])' => Progress(p)'
  <2>1. (File(p) = {i} /\ Holds(p, <<>>))'
    BY <1>4, <1>5 DEF File, Holds
  <2> QED
    BY <1>4, <1>5, <2>1 DEF Progress
<1>13. Own'
  BY <1>1, <1>4, <1>11, <1>12, OtherOwn DEF Inside
<1>14. NothingLeft'
  BY <1>1, <1>3, <1>4, <1>5, OtherLeft DEF Removes, InsideOf, Inside, Kinds
<1> QED
  BY <1>7, <1>8, <1>9, <1>10, <1>13, <1>14 DEF TempInv

\* A start disturbs those in the same function, or finds nobody there.
LEMMA StartStep ==
  ASSUME TempInv, NEW p \in Procs, NEW k \in Kinds, Start(p, k)
  PROVE  TempInv'
<1>1. /\ pc[p] = "idle" /\ pc'[p] = "open w" /\ kind'[p] = k
      /\ UNCHANGED <<name, content, fp, fz, text, err, left>>
      /\ \A q \in Procs : q # p => pc'[q] = pc[q] /\ kind'[q] = kind[q]
  BY DEF TempInv, TempTypeOK, Start, At
<1>2. /\ disturbed'[p] <=> \E q \in Procs : Inside(q) /\ kind[q] = k
      /\ \A q \in Procs : q # p =>
           (disturbed'[q] <=> disturbed[q] \/ (Inside(q) /\ kind[q] = k))
  BY DEF Start, InsideOf
<1>3. ~Inside(p) /\ Inside(p)' /\ \A q \in Procs : q # p => Inside(q)' = Inside(q)
  BY <1>1 DEF Inside
<1>4. TempTypeOK'
  <2>1. disturbed' \in [Procs -> BOOLEAN]
    <3>1. \A q \in Procs : (IF q = p THEN InsideOf(k) # {}
                                     ELSE disturbed[q] \/ q \in InsideOf(k)) \in BOOLEAN
      BY DEF TempInv, TempTypeOK
    <3> QED
      BY <3>1 DEF Start
  <2> QED
    BY <2>1 DEF TempInv, TempTypeOK, Start, At
<1>5. Streams'
  BY <1>1 DEF TempInv, Streams
<1>6. Separate'
  <2>1. fp[p] = {}
    BY <1>1 DEF TempInv, Streams
  <2> QED
    BY <1>1, <2>1 DEF TempInv, Separate
<1>7. Alone'
  <2> SUFFICES ASSUME NEW q \in Procs, NEW r \in Procs,
                      (Inside(q) /\ ~disturbed[q] /\ Inside(r) /\ kind[r] = kind[q])'
               PROVE  r = q
    BY DEF Alone
  <2>1. CASE q = p
    BY <1>1, <1>2, <1>3, <2>1
  <2>2. CASE q # p /\ r = p
    BY <1>1, <1>2, <1>3, <2>2
  <2>3. CASE q # p /\ r # p
    BY <1>1, <1>2, <1>3, <2>3 DEF TempInv, Alone
  <2> QED
    BY <2>1, <2>2, <2>3
<1>8. Own'
  <2> SUFFICES ASSUME NEW q \in Procs, (Inside(q) /\ ~disturbed[q])'
               PROVE  Progress(q)'
    BY DEF Own
  <2>1. CASE q = p
    BY <1>1, <2>1 DEF Progress
  <2>2. CASE q # p
    <3>1. Progress(q)
      BY <1>2, <1>3, <2>2 DEF TempInv, Own
    <3>2. File(q)' = File(q) /\ pc'[q] = pc[q]
      BY <1>1, <2>2 DEF File
    <3> QED
      BY <1>1, <3>1, <3>2 DEF Progress, Holds, WholeKey
  <2> QED
    BY <2>1, <2>2
<1>9. NothingLeft'
  <2>1. \A q \in Procs : Removes(q) => Removes(q)'
    BY <1>1, <1>3 DEF Removes, InsideOf, Inside
  <2> QED
    BY <1>1, <2>1 DEF TempInv, NothingLeft, Removes, InsideOf
<1> QED
  BY <1>4, <1>5, <1>6, <1>7, <1>8, <1>9 DEF TempInv

LEMMA TempNext == TempInv /\ [Next]_vars => TempInv'
<1> SUFFICES ASSUME TempInv, [Next]_vars PROVE TempInv'
  OBVIOUS
<1>1. CASE Next
  <2>1. PICK p \in Procs :
           (\E k \in Kinds : Start(p, k)) \/ Export(p) \/ Kill(p) \/ Restart(p)
    BY <1>1 DEF Next
  <2>2. CASE \E k \in Kinds : Start(p, k)
    BY <2>2, StartStep
  <2>3. CASE Export(p)
    BY <2>3, OpenWriteStep, WriteStep, WriteFailsStep, OpenReadStep, SizeStep, ReadStep,
       RemoveStep, OpenFailsStep DEF Export
  <2>4. CASE Kill(p) \/ Restart(p)
    BY <2>4, KillStep, RestartStep
  <2> QED
    BY <2>1, <2>2, <2>3, <2>4
<1>2. CASE UNCHANGED vars
  <2>1. TempTypeOK'
    BY <1>2 DEF TempInv, TempTypeOK, vars
  <2>2. Streams' /\ Separate'
    BY <1>2 DEF TempInv, Streams, Separate, vars
  <2>3. Alone' /\ NothingLeft'
    BY <1>2 DEF TempInv, Alone, NothingLeft, Inside, InsideOf, vars
  <2>4. Own'
    BY <1>2 DEF TempInv, Own, Progress, Holds, WholeKey, File, Inside, vars
  <2> QED
    BY <2>1, <2>2, <2>3, <2>4 DEF TempInv
<1> QED
  BY <1>1, <1>2

\* Streams, inodes and what an undisturbed export has written or read so far.
THEOREM TempInvHolds == Spec => []TempInv
<1> QED
  BY TempInit, TempNext, PTL DEF Spec

-----------------------------------------------------------------------------
(* The theorems *)

\* The variables keep their types: a name has one inode at most, a process one
\* stream (get_public_key, get_private_key).
THEOREM TempTypeCorrect == Spec => []TempTypeOK
<1>1. TempInv => TempTypeOK
  BY DEF TempInv
<1> QED
  BY <1>1, TempInvHolds, PTL

\* For any number of processes, of which any may fail or be killed at any point,
\* one that was alone in its function with the disk not full returns its own key.
THEOREM AloneReadsOwnHolds == Spec => []AloneReadsOwn
<1>1. TempInv => AloneReadsOwn
  BY DEF TempInv, Own, Progress, AloneReadsOwn, Inside
<1> QED
  BY <1>1, TempInvHolds, PTL

\* The file of a public key is there only while an export that will remove it is
\* under way, or by an export that failed or was killed (novinlib.c:613), for any
\* number of processes racing over the name.
THEOREM NothingLeftHolds == Spec => []NothingLeft
<1>1. TempInv => NothingLeft
  BY DEF TempInv
<1> QED
  BY <1>1, TempInvHolds, PTL

=============================================================================
