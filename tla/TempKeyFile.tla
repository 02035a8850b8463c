---------------------------- MODULE TempKeyFile -----------------------------
(***************************************************************************)
(* The way get_public_key and get_private_key turn a key into text         *)
(* (token-DLL/lib/novinlib.c): they write the PEM to /tmp/public.txt or    *)
(* /tmp/private.txt, open the file again, measure it and read it;          *)
(* get_public_key removes it.  Every process with the library uses these   *)
(* two names, each for the token it talks to.                              *)
(***************************************************************************)
EXTENDS Naturals, Sequences

CONSTANTS
    Procs,         \* processes with the library loaded
    PemLen,        \* length of each one's PEM, in units of a few bytes
    Inodes,        \* file identities: enough for every name and open stream
    Failures       \* which failures happen: a subset of FailureKinds

\* The functions, each with a file of its own.
Kinds == {"public", "private"}

\* fopen fails (no descriptors, another user's file); PEM_write_RSAPublicKey fails;
\* the disk is full when the stream is flushed.
FailureKinds == {"open", "pem", "disk"}

ASSUME PemLenAssumption == PemLen \in [Procs -> Nat \ {0}]
ASSUME FailuresAssumption == Failures \subseteq FailureKinds

VARIABLES
    name,          \* the inode each of the two names has, or {} without one
    kind,          \* which function each process is in, or was in last
    content,       \* of every inode: who wrote each unit
    pc,            \* where each process is in it
    fp,            \* the inode of its open stream, or {}
    fz,            \* the size it measured
    text,          \* what it read
    err,           \* "OK" or "OTE"
    disturbed,     \* history: another process was in the same function with it,
                   \* or the disk was full
    left           \* history: an export of a public key ended without its remove,
                   \* the file being there

vars == <<name, kind, content, pc, fp, fz, text, err, disturbed, left>>

Init ==
    /\ name = [k \in Kinds |-> {}] /\ kind = [p \in Procs |-> "public"]
    /\ content = [i \in Inodes |-> <<>>]
    /\ pc = [p \in Procs |-> "idle"] /\ fp = [p \in Procs |-> {}]
    /\ fz = [p \in Procs |-> 0] /\ text = [p \in Procs |-> <<>>]
    /\ err = [p \in Procs |-> "OK"] /\ disturbed = [p \in Procs |-> FALSE]
    /\ left = FALSE

Inside(p) == pc[p] \notin {"idle", "crashed"}
Unused == Inodes \ ((UNION {name[k] : k \in Kinds}) \cup (UNION {fp[p] : p \in Procs}))

\* The file a process works on.
File(p) == name[kind[p]]
Named(p, i) == name' = [name EXCEPT ![kind[p]] = i]

\* Processes in the function of that kind.
InsideOf(k) == {p \in Procs : Inside(p) /\ kind[p] = k}

At(p, from, to) == pc[p] = from /\ pc' = [pc EXCEPT ![p] = to]

\* The key has come from the token: the file is opened next.
Start(p, k) ==
    /\ At(p, "idle", "open w")
    /\ kind' = [kind EXCEPT ![p] = k]
    /\ disturbed' = [q \in Procs |-> IF q = p THEN InsideOf(k) # {}
                                        ELSE disturbed[q] \/ q \in InsideOf(k)]
    /\ UNCHANGED <<name, content, fp, fz, text, err, left>>

\* The function is left: its variables are gone.
Leave(p) ==
    /\ pc' = [pc EXCEPT ![p] = "idle"] /\ kind' = [kind EXCEPT ![p] = "public"]
    /\ fp' = [fp EXCEPT ![p] = {}] /\ fz' = [fz EXCEPT ![p] = 0]
    /\ text' = [text EXCEPT ![p] = <<>>] /\ err' = [err EXCEPT ![p] = "OK"]
    /\ disturbed' = [disturbed EXCEPT ![p] = FALSE]

\* A file is created whether or not there is one.
Fault_Create(p) ==
    /\ At(p, "open w", "write")
    /\ \E i \in Unused :
          /\ Named(p, File(p) \cup {i})
          /\ content' = [content EXCEPT ![i] = <<>>]
          /\ fp' = [fp EXCEPT ![p] = {i}]
    /\ UNCHANGED <<kind, fz, text, err, disturbed, left>>

\* fopen(ftmp, "wr") creates the file or empties the one that is there.
OpenWrite(p) ==
    /\ At(p, "open w", "write")
    /\ \E i \in (IF File(p) = {} THEN Unused ELSE File(p)) :
          /\ Named(p, {i})
          /\ content' = [content EXCEPT ![i] = <<>>]
          /\ fp' = [fp EXCEPT ![p] = {i}]
    /\ UNCHANGED <<kind, fz, text, err, disturbed, left>>

\* It returns NULL, at which nobody looks: writing the PEM ends the process.
OpenWriteFails(p) ==
    /\ "open" \in Failures
    /\ At(p, "open w", "crashed")
    /\ UNCHANGED <<name, kind, content, fp, fz, text, err, disturbed, left>>

\* The whole PEM is written at offset 0 of the file.
Written(p, s) ==
    [i \in 1 .. PemLen[p] |-> p] \o SubSeq(s, PemLen[p] + 1, Len(s))

\* The text stays in the stream's buffer.
Fault_Write(p) ==
    /\ At(p, "write", "open r")
    /\ fp' = [fp EXCEPT ![p] = {}]
    /\ UNCHANGED <<name, kind, content, fz, text, err, disturbed, left>>

\* PEM_write_RSAPublicKey, fflush and fclose; nobody looks at fflush.
Write(p) ==
    /\ At(p, "write", "open r")
    /\ \/ /\ \E i \in fp[p] : content' = [content EXCEPT ![i] = Written(p, @)]
          /\ UNCHANGED disturbed
       \/ /\ "disk" \in Failures
          /\ disturbed' = [disturbed EXCEPT ![p] = TRUE]
          /\ UNCHANGED content
    /\ fp' = [fp EXCEPT ![p] = {}]
    /\ UNCHANGED <<name, kind, fz, text, err, left>>

\* It fails: the call ends with nErr_OTE, the file stays and the stream stays open.
WriteFails(p) ==
    /\ "pem" \in Failures
    /\ pc[p] = "write" /\ Leave(p)
    /\ left' = (left \/ kind[p] = "public")
    /\ UNCHANGED <<name, content>>

\* fopen(ftmp, "r").
OpenRead(p) ==
    /\ File(p) # {} /\ At(p, "open r", "size")
    /\ fp' = [fp EXCEPT ![p] = File(p)]
    /\ UNCHANGED <<name, kind, content, fz, text, err, disturbed, left>>

\* The name is gone, or the call fails: fseek on a null stream ends the process.
OpenReadFails(p) ==
    /\ File(p) = {} \/ "open" \in Failures
    /\ At(p, "open r", "crashed")
    /\ left' = (left \/ (kind[p] = "public" /\ File(p) # {}))
    /\ UNCHANGED <<name, kind, content, fp, fz, text, err, disturbed>>

\* fseek and ftell.
Size(p) ==
    /\ At(p, "size", "read")
    /\ \E i \in fp[p] : fz' = [fz EXCEPT ![p] = Len(content[i])]
    /\ UNCHANGED <<name, kind, content, fp, text, err, disturbed, left>>

FirstOf(s, n) == SubSeq(s, 1, IF n < Len(s) THEN n ELSE Len(s))

\* fread of that many bytes; fewer are an error.
Read(p) ==
    /\ At(p, "read", "remove")
    /\ \E i \in fp[p] :
          /\ text' = [text EXCEPT ![p] = FirstOf(content[i], fz[p])]
          /\ err' = [err EXCEPT ![p] = IF Len(content[i]) < fz[p] THEN "OTE" ELSE @]
    /\ fp' = [fp EXCEPT ![p] = {}]
    /\ UNCHANGED <<name, kind, content, fz, disturbed, left>>

\* get_public_key does not remove its file either.
Fault_Remove(p) ==
    /\ pc[p] = "remove" /\ Leave(p)
    /\ UNCHANGED <<name, content, left>>

\* get_public_key calls remove(ftmp), whoever made the file now of that name; the
\* call is a comment in get_private_key.  Then the function returns.
Remove(p) ==
    /\ pc[p] = "remove" /\ Leave(p)
    /\ IF kind[p] = "public" THEN Named(p, {}) ELSE UNCHANGED name
    /\ UNCHANGED <<content, left>>

Export(p) ==
    OpenWrite(p) \/ OpenWriteFails(p) \/ Write(p) \/ WriteFails(p) \/ OpenRead(p)
    \/ OpenReadFails(p) \/ Size(p) \/ Read(p) \/ Remove(p)

\* The browser is killed in the middle of an export: what it wrote stays.
Kill(p) ==
    /\ Inside(p) /\ Leave(p)
    /\ left' = (left \/ kind[p] = "public")
    /\ UNCHANGED <<name, content>>

\* A process that crashed is started again.
Restart(p) ==
    /\ pc[p] = "crashed" /\ Leave(p)
    /\ UNCHANGED <<name, content, left>>

Next ==
    \E p \in Procs :
       (\E k \in Kinds : Start(p, k)) \/ Export(p) \/ Kill(p) \/ Restart(p)

Spec == Init /\ [][Next]_vars

-----------------------------------------------------------------------------
(* Properties *)

WholeKey(p) == [i \in 1 .. PemLen[p] |-> p]

TempTypeOK ==
    /\ name \in [Kinds -> {{}} \cup {{i} : i \in Inodes}] /\ kind \in [Procs -> Kinds]
    /\ content \in [Inodes -> Seq(Procs)]
    /\ pc \in [Procs -> {"idle", "open w", "write", "open r", "size", "read",
                         "remove", "crashed"}]
    /\ fp \in [Procs -> {{}} \cup {{i} : i \in Inodes}]
    /\ fz \in [Procs -> Nat] /\ text \in [Procs -> Seq(Procs)]
    /\ err \in [Procs -> {"OK", "OTE"}] /\ disturbed \in [Procs -> BOOLEAN]
    /\ left \in BOOLEAN

\* A process that was not disturbed in its function returns its own key whole,
\* whatever earlier exports, failed or killed, its own or another's, left in the
\* file.
AloneReadsOwn ==
    \A p \in Procs :
       pc[p] = "remove" /\ ~disturbed[p] => err[p] = "OK" /\ text[p] = WholeKey(p)

\* The file of a public key is there only while an export that will remove it is
\* under way, whichever of several made it and whoever removed it in between, or
\* when an export failed or was killed over it (novinlib.c:613).
NothingLeft ==
    name["public"] # {} =>
       \/ left
       \/ \E p \in InsideOf("public") : pc[p] # "open w"

(* What the documentation says and the code does not do. *)

\* "GetPublicKey() -> string.  Description: return public key of token"
\* (deprecated/pluginManuall.txt:11): a call without error returns the key of
\* the token it read, and the process lives.
OwnKey ==
    \A p \in Procs :
       /\ pc[p] # "crashed"
       /\ pc[p] = "remove" /\ err[p] = "OK" => text[p] = WholeKey(p)

=============================================================================
