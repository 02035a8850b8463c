-------------------------- MODULE ConversionsProofs --------------------------
(***************************************************************************)
(* What TLAPS proves of SerialText, for all strings and all a stack may    *)
(* hold, of HexText, for all messages, blobs and edits, and of the four    *)
(* conversions together.                                                   *)
(***************************************************************************)
EXTENDS MCConversions, PacketCodecProofs, KeyBufferProofs, SequenceTheorems,
        WellFoundedInduction, TLAPS

-----------------------------------------------------------------------------
(* SerialText *)

\* The length, a name that the arithmetic provers take as a number.
TextLen == Len(text)

\* Below pos the characters were digits and are values, from pos on the buffer is
\* as it was; the loop ends at the first character that is no digit.
SerialInv ==
    /\ text \in Texts
    /\ ser \in [0 .. 16 -> Codes] /\ pos \in 0 .. TextLen + 1
    /\ spc \in {"loop", "pack", "done"} /\ dest \in [0 .. 3 -> 0 .. 255]
    /\ \A k \in 0 .. TextLen - 1 :
         /\ k < pos => IsHex(text[k + 1]) /\ ser[k] = HexValue(text[k + 1])
         /\ k >= pos => ser[k] = text[k + 1]
    /\ spc # "loop" => pos > TextLen \/ ~IsHex(ser[pos])
    /\ spc = "done" => dest = [k \in 0 .. 3 |-> (16 * ser[2 * k] + ser[2 * k + 1]) % 256]

LEMMA TextTyped ==
  ASSUME text \in Texts
  PROVE  TextLen \in 0 .. 16 /\ \A k \in 1 .. TextLen : text[k] \in Codes
<1>1. text \in Seq(Codes) /\ TextLen <= 16
  BY TextsAssumption DEF TextLen, BufLen
<1>2. TextLen \in Nat /\ text \in [1 .. TextLen -> Codes]
  BY <1>1, LenProperties DEF TextLen
<1> QED
  BY <1>1, <1>2

LEMMA HexValues ==
  ASSUME NEW c \in Codes, IsHex(c)
  PROVE  HexValue(c) \in 0 .. 15
BY DEF Codes, IsHex, IsDigit, IsUpper, IsLower, HexValue

LEMMA SerialStart == SerialInit => SerialInv
<1> SUFFICES ASSUME SerialInit PROVE SerialInv
  OBVIOUS
<1>1. text \in Texts /\ TextLen \in 0 .. 16 /\ \A k \in 1 .. TextLen : text[k] \in Codes
  BY TextTyped DEF SerialInit, TextLen, BufLen
<1>2. PICK c \in Leftovers :
        ser = [k \in 0 .. 16 |-> IF k < TextLen THEN text[k + 1] ELSE c]
  BY DEF SerialInit, TextLen, BufLen
<1>3. c \in Codes
  BY <1>2, LeftoversAssumption
<1>4. ser \in [0 .. 16 -> Codes]
  <2> SUFFICES ASSUME NEW k \in 0 .. 16
               PROVE  (IF k < TextLen THEN text[k + 1] ELSE c) \in Codes
    BY <1>2
  <2> QED
    BY <1>1, <1>3 DEF BufLen
<1>5. \A k \in 0 .. TextLen - 1 : ser[k] = text[k + 1]
  BY <1>1, <1>2 DEF BufLen
<1>6. pos = 0 /\ spc = "loop" /\ dest \in [0 .. 3 -> 0 .. 255]
  BY DEF SerialInit, TextLen, BufLen
<1> QED
  BY <1>1, <1>4, <1>5, <1>6 DEF SerialInv

LEMMA SerialStep == SerialInv /\ [SerialNext]_serialVars => SerialInv'
<1> SUFFICES ASSUME SerialInv, [SerialNext]_serialVars PROVE SerialInv'
  OBVIOUS
<1> USE DEF SerialInv
<1>1. TextLen \in 0 .. 16 /\ \A k \in 1 .. TextLen : text[k] \in Codes
  BY TextTyped
<1>2. CASE ConvertChar
  <2>0. UNCHANGED <<text, dest, TextLen>> /\ pos <= TextLen /\ spc = "loop"
    BY <1>2 DEF ConvertChar, TextLen
  <2>1. pos \in 0 .. 16 /\ ser[pos] \in Codes
    BY <1>1, <2>0
  <2>2. CASE IsHex(ser[pos])
    <3>1. ser' = [ser EXCEPT ![pos] = HexValue(ser[pos])] /\ pos' = pos + 1 /\ spc' = "loop"
      BY <1>2, <2>2 DEF ConvertChar, TextLen
    <3>2. HexValue(ser[pos]) \in Codes
      BY <2>1, <2>2, HexValues DEF Codes
    <3>3. ser' \in [0 .. 16 -> Codes] /\ pos' \in 0 .. TextLen + 1
      BY <1>1, <1>2, <2>1, <3>1, <3>2 DEF ConvertChar, TextLen
    <3>4. \A k \in 0 .. TextLen - 1 :
            /\ k < pos' => IsHex(text[k + 1]) /\ ser'[k] = HexValue(text[k + 1])
            /\ k >= pos' => ser'[k] = text[k + 1]
      <4> SUFFICES ASSUME NEW k \in 0 .. TextLen - 1
                   PROVE  /\ k < pos' => IsHex(text[k + 1]) /\ ser'[k] = HexValue(text[k + 1])
                          /\ k >= pos' => ser'[k] = text[k + 1]
        OBVIOUS
      <4>1. k \in 0 .. 16
        BY <1>1 DEF BufLen
      <4>2. CASE k = pos
        BY <2>0, <2>1, <2>2, <3>1, <4>1, <4>2
      <4>3. CASE k # pos
        <5>1. ser'[k] = ser[k] /\ (k < pos' <=> k < pos) /\ (k >= pos' => k >= pos)
          BY <1>1, <2>0, <2>1, <3>1, <4>1, <4>3
        <5> QED
          BY <5>1
      <4> QED
        BY <4>2, <4>3
    <3> QED
      BY <2>0, <3>1, <3>3, <3>4
  <2>3. CASE ~IsHex(ser[pos])
    BY <1>2, <2>0, <2>1, <2>3 DEF ConvertChar, TextLen
  <2> QED
    BY <2>2, <2>3
<1>3. CASE LoopEnds
  BY <1>3 DEF LoopEnds, TextLen
<1>4. CASE Pack
  <2>1. dest' \in [0 .. 3 -> 0 .. 255]
    <3>1. ASSUME NEW k \in 0 .. 3 PROVE (16 * ser[2 * k] + ser[2 * k + 1]) % 256 \in 0 .. 255
      <4>1. 2 * k \in 0 .. 16 /\ 2 * k + 1 \in 0 .. 16
        OBVIOUS
      <4> DEFINE a == ser[2 * k]
                 b == ser[2 * k + 1]
      <4>2. a \in Int /\ b \in Int
        BY <4>1 DEF Codes
      <4> HIDE DEF a, b
      <4>3. (16 * a + b) % 256 \in 0 .. 255
        BY <4>2
      <4> QED
        BY <4>3 DEF a, b
    <3> QED
      BY <1>4, <3>1 DEF Pack
  <2>2. UNCHANGED <<text, ser, pos, TextLen>> /\ spc = "pack" /\ spc' = "done"
    BY <1>4 DEF Pack, TextLen
  <2> QED
    BY <1>4, <2>1, <2>2 DEF Pack
<1>5. CASE UNCHANGED serialVars
  BY <1>5 DEF serialVars, TextLen
<1> QED
  BY <1>2, <1>3, <1>4, <1>5 DEF SerialNext

\* The loop turns digits into values from the first character on, and stops at the
\* first that is no digit (_cnv_hex_to_decimal_serial).
THEOREM SerialInvHolds == SerialSpec => []SerialInv
<1> QED
  BY SerialStart, SerialStep, PTL DEF SerialSpec

\* The loop reads one character beyond the string and writes beyond the buffer only
\* where sixteen digits are followed by one more (novintools.c:49).
THEOREM SerialTypeCorrect == SerialSpec => []SerialTypeOK
<1>1. SerialInv => SerialTypeOK
  <2> SUFFICES ASSUME SerialInv PROVE SerialTypeOK
    OBVIOUS
  <2>1. TextLen \in 0 .. 16
    BY TextTyped DEF SerialInv, BufLen
  <2>2. pos \in 0 .. 16 + 1
    BY <2>1 DEF SerialInv, BufLen
  <2>3. pos > BufLen => TextLen = BufLen /\ HexUpTo(BufLen)
    <3> SUFFICES ASSUME pos > BufLen PROVE TextLen = BufLen /\ HexUpTo(BufLen)
      OBVIOUS
    <3>1. TextLen = 16 /\ pos = 17
      BY <2>1 DEF SerialInv, BufLen
    <3>2. ASSUME NEW k \in 1 .. 16 PROVE IsHex(text[k])
      <4>1. k - 1 \in 0 .. TextLen - 1 /\ k - 1 < pos /\ (k - 1) + 1 = k
        BY <3>1
      <4> QED
        BY <4>1 DEF SerialInv
    <3> QED
      BY <3>1, <3>2 DEF BufLen, HexUpTo
  <2> QED
    BY <2>2, <2>3 DEF SerialInv, SerialTypeOK, BufLen, TextLen
<1> QED
  BY <1>1, SerialInvHolds, PTL

\* The four bytes depend on the first eight characters alone, and tell tokens apart
\* that differ in one of eight digits (_cnv_hex_to_decimal_serial).
THEOREM FirstEightHolds == SerialSpec => []FirstEight
<1>1. SerialInv => FirstEight
  <2> SUFFICES ASSUME SerialInv, spc = "done", TextLen >= 8
               PROVE  /\ dest = [k \in 0 .. 3 |->
                                   (16 * Converted(2 * k + 1) + Converted(2 * k + 2)) % 256]
                      /\ HexUpTo(8) => \A k \in 0 .. 3 :
                           /\ HexValue(text[2 * k + 1]) = dest[k] \div 16
                           /\ HexValue(text[2 * k + 2]) = dest[k] % 16
    BY DEF FirstEight, TextLen
  <2>1. TextLen \in 8 .. 16 /\ \A k \in 1 .. TextLen : text[k] \in Codes
    BY TextTyped DEF SerialInv, BufLen
  <2>2. ASSUME NEW j \in 0 .. 7 PROVE ser[j] = Converted(j + 1)
    <3>1. j \in 0 .. TextLen - 1 /\ pos \in Nat
      BY <2>1 DEF SerialInv
    <3>2. CASE j < pos
      <4>1. ASSUME NEW k \in 1 .. j + 1 PROVE IsHex(text[k])
        <5>1. k - 1 \in 0 .. TextLen - 1 /\ k - 1 < pos /\ (k - 1) + 1 = k
          BY <2>1, <3>1, <3>2
        <5> QED
          BY <5>1 DEF SerialInv
      <4> QED
        BY <3>1, <3>2, <4>1 DEF SerialInv, Converted, HexUpTo
    <3>3. CASE j >= pos
      <4>1. pos \in 0 .. TextLen - 1 /\ pos + 1 \in 1 .. j + 1 /\ ~(pos > TextLen)
        BY <2>1, <3>1, <3>3
      <4>2. ser[pos] = text[pos + 1] /\ ~IsHex(ser[pos])
        BY <4>1 DEF SerialInv
      <4>3. ~HexUpTo(j + 1)
        BY <4>1, <4>2 DEF HexUpTo
      <4> QED
        BY <3>1, <3>3, <4>3 DEF SerialInv, Converted
    <3> QED
      BY <3>1, <3>2, <3>3
  <2>3. ASSUME NEW k \in 0 .. 3
        PROVE  ser[2 * k] = Converted(2 * k + 1) /\ ser[2 * k + 1] = Converted(2 * k + 2)
    <3>1. 2 * k \in 0 .. 7 /\ 2 * k + 1 \in 0 .. 7 /\ (2 * k + 1) + 1 = 2 * k + 2
      OBVIOUS
    <3> QED
      BY <2>2, <3>1
  <2>4. dest = [k \in 0 .. 3 |-> (16 * Converted(2 * k + 1) + Converted(2 * k + 2)) % 256]
    BY <2>3 DEF SerialInv
  <2>5. ASSUME HexUpTo(8), NEW k \in 0 .. 3
        PROVE  /\ HexValue(text[2 * k + 1]) = dest[k] \div 16
               /\ HexValue(text[2 * k + 2]) = dest[k] % 16
    <3> DEFINE a == HexValue(text[2 * k + 1])
               b == HexValue(text[2 * k + 2])
    <3>1. 2 * k + 1 \in 1 .. 8 /\ 2 * k + 2 \in 1 .. 8
      OBVIOUS
    <3>2. a \in 0 .. 15 /\ b \in 0 .. 15
      BY <2>1, <2>5, <3>1, HexValues DEF HexUpTo
    <3>3. HexUpTo(2 * k + 1) /\ HexUpTo(2 * k + 2)
      BY <2>5 DEF HexUpTo
    <3>4. dest[k] = (16 * a + b) % 256
      BY <2>4, <3>3 DEF Converted
    <3> HIDE DEF a, b
    <3>5. a = dest[k] \div 16 /\ b = dest[k] % 16
      BY <3>2, <3>4
    <3> QED
      BY <3>5 DEF a, b
  <2> QED
    BY <2>4, <2>5
<1> QED
  BY <1>1, SerialInvHolds, PTL

-----------------------------------------------------------------------------
(* Sequences, and where a C string ends *)

\* Sequences are functions on 1 .. n.
LEMMA SeqOf ==
  ASSUME NEW S, NEW n \in Nat, NEW f \in [1 .. n -> S]
  PROVE  f \in Seq(S) /\ Len(f) = n
<1>1. f \in Seq(S)
  BY SeqDef
<1> DEFINE m == Len(f)
<1>2. m \in Nat /\ DOMAIN f = 1 .. m
  BY <1>1, LenProperties
<1>3. DOMAIN f = 1 .. n
  OBVIOUS
<1> HIDE DEF m
<1>4. m = n
  <2>1. \A k \in Int : k \in 1 .. m <=> k \in 1 .. n
    BY <1>2, <1>3
  <2> QED
    BY <1>2, <2>1
<1> QED
  BY <1>1, <1>4 DEF m

LEMMA SeqAs ==
  ASSUME NEW S, NEW s \in Seq(S)
  PROVE  \E n \in Nat : n = Len(s) /\ s \in [1 .. n -> S]
BY LenProperties

Less == OpToRel(<, Nat)

LEMMA MinimumIs ==
  ASSUME NEW S, S \subseteq Nat, S # {}
  PROVE  Minimum(S) \in S /\ \A k \in S : Minimum(S) <= k
<1>1. IsWellFoundedOn(Less, Nat)
  BY NatLessThanWellFounded DEF Less
<1>2. \A k, m \in Nat : k < m => <<k, m>> \in Less
  BY DEF OpToRel, Less
<1>3. PICK n \in S : \A k \in S : <<k, n>> \notin Less
  BY <1>1, WFMin
<1>4. \A k \in S : ~(k < n)
  BY <1>2, <1>3
<1>5. \E m \in S : \A k \in S : m <= k
  BY <1>4
<1> QED
  BY <1>5 DEF Minimum

\* CLen is where the first NUL stands, or the whole length.
LEMMA CLenIs ==
  ASSUME NEW s, NEW nul, NEW n \in Nat, n = Len(s)
  PROVE  /\ CLen(s, nul) \in 0 .. n
         /\ \A k \in 1 .. n : k <= CLen(s, nul) => s[k] # nul
         /\ CLen(s, nul) < n => s[CLen(s, nul) + 1] = nul
<1> DEFINE Ends == {k - 1 : k \in {j \in 1 .. n : s[j] = nul}}
           c == Minimum(Ends \cup {n})
<1>1. Ends \cup {n} \subseteq Nat /\ Ends \cup {n} # {}
  OBVIOUS
<1>2. c \in Ends \cup {n} /\ \A k \in Ends \cup {n} : c <= k
  BY <1>1, MinimumIs
<1>3. c = CLen(s, nul)
  BY DEF CLen
<1> HIDE DEF c
<1>4. c \in 0 .. n
  BY <1>2
<1>5. ASSUME NEW k \in 1 .. n, k <= c, s[k] = nul PROVE FALSE
  <2>1. k - 1 \in Ends
    BY <1>5
  <2>2. c <= k - 1
    BY <1>2, <2>1
  <2> QED
    BY <1>4, <1>5, <2>2
<1>6. ASSUME c < n PROVE s[c + 1] = nul
  <2>1. PICK k \in 1 .. n : s[k] = nul /\ c = k - 1
    BY <1>2, <1>6
  <2>2. k = c + 1
    BY <2>1
  <2> QED
    BY <2>1, <2>2
<1> QED
  BY <1>3, <1>4, <1>5, <1>6

LEMMA CLenUnique ==
  ASSUME NEW s, NEW nul, NEW n \in Nat, n = Len(s), NEW c \in 0 .. n,
         \A k \in 1 .. n : k <= c => s[k] # nul, c < n => s[c + 1] = nul
  PROVE  CLen(s, nul) = c
<1> DEFINE d == CLen(s, nul)
<1>1. /\ d \in 0 .. n
      /\ \A k \in 1 .. n : k <= d => s[k] # nul
      /\ d < n => s[d + 1] = nul
  BY CLenIs
<1> HIDE DEF d
<1>2. ~(d < c)
  BY <1>1
<1>3. ~(c < d)
  BY <1>1
<1> QED
  BY <1>1, <1>2, <1>3 DEF d

\* A buffer is a sequence as long as what is copied into it, and ends where it ends.
LEMMA BufferIs ==
  ASSUME NEW D, NEW s \in Seq(D), NEW nul, NEW rest \in D
  PROVE  /\ Buffer(s, nul, rest) \in Seq(D) /\ Len(Buffer(s, nul, rest)) = Len(s)
         /\ CLen(Buffer(s, nul, rest), nul) = CLen(s, nul)
         /\ CString(Buffer(s, nul, rest), nul) = CString(s, nul)
<1>1. PICK n \in Nat : n = Len(s) /\ s \in [1 .. n -> D]
  BY SeqAs
<1> DEFINE c == CLen(s, nul)
           b == Buffer(s, nul, rest)
<1>2. /\ c \in 0 .. n
      /\ \A k \in 1 .. n : k <= c => s[k] # nul
      /\ c < n => s[c + 1] = nul
  BY <1>1, CLenIs
<1>3. b = [k \in 1 .. n |-> IF k <= c + 1 THEN s[k] ELSE rest]
  BY <1>1 DEF Buffer
<1> HIDE DEF b, c
<1>4. b \in [1 .. n -> D]
  BY <1>1, <1>3
<1>5. b \in Seq(D) /\ Len(b) = n
  BY <1>4, SeqOf
<1>6. \A k \in 1 .. n : k <= c => b[k] # nul
  BY <1>2, <1>3
<1>7. c < n => b[c + 1] = nul
  BY <1>2, <1>3
<1>8. CLen(b, nul) = c
  BY <1>2, <1>5, <1>6, <1>7, CLenUnique
<1>9. SubSeq(b, 1, c) = SubSeq(s, 1, c)
  <2>1. c \in Int /\ 1 \in Int
    BY <1>2
  <2>2. \A k \in 1 .. c : s[k] \in D /\ b[k] \in D /\ b[k] = s[k]
    BY <1>1, <1>2, <1>3
  <2> DEFINE x == SubSeq(b, 1, c)
             y == SubSeq(s, 1, c)
             m == IF 1 <= c THEN c - 1 + 1 ELSE 0
  <2>3. x \in Seq(D) /\ Len(x) = m /\ \A k \in 1 .. c - 1 + 1 : x[k] = b[1 + k - 1]
    BY <2>1, <2>2, SubSeqProperties
  <2>4. y \in Seq(D) /\ Len(y) = m /\ \A k \in 1 .. c - 1 + 1 : y[k] = s[1 + k - 1]
    BY <2>1, <2>2, SubSeqProperties
  <2>5. \A k \in 1 .. m : x[k] = y[k]
    <3> HIDE DEF x, y
    <3> QED
      BY <1>2, <2>2, <2>3, <2>4
  <2> HIDE DEF x, y, m
  <2>6. Len(x) = Len(y) /\ \A k \in 1 .. Len(x) : x[k] = y[k]
    BY <2>3, <2>4, <2>5
  <2>7. x = y
    BY <2>3, <2>4, <2>6, SeqEqual
  <2> QED
    BY <2>7 DEF x, y
<1> QED
  BY <1>1, <1>5, <1>8, <1>9 DEF b, c, CString

\* What has no NUL fills its buffer.
LEMMA BufferWhole ==
  ASSUME NEW D, NEW s \in Seq(D), NEW nul, NEW rest, CLen(s, nul) = Len(s)
  PROVE  Buffer(s, nul, rest) = s
<1>1. PICK n \in Nat : n = Len(s) /\ s \in [1 .. n -> D]
  BY SeqAs
<1>2. Buffer(s, nul, rest) = [k \in 1 .. n |-> IF k <= n + 1 THEN s[k] ELSE rest]
  BY <1>1 DEF Buffer
<1>3. [k \in 1 .. n |-> IF k <= n + 1 THEN s[k] ELSE rest] = s
  BY <1>1
<1> QED
  BY <1>2, <1>3

LEMMA BytesAre ==
  ASSUME NEW x \in Bytes
  PROVE  x = <<x[1], x[2]>> /\ x[1] \in Nibbles /\ x[2] \in Nibbles
BY DEF Bytes

\* A text of hexadecimal digits has no NUL.
LEMMA HexHasNoNul ==
  ASSUME NEW t \in Seq(Chars), AllHex(t)
  PROVE  CLen(t, NulChar) = Len(t)
<1>1. PICK n \in Nat : n = Len(t) /\ t \in [1 .. n -> Chars]
  BY SeqAs
<1>2. \A k \in 1 .. n : t[k][1] < 16
  BY <1>1 DEF AllHex
<1>3. \A k \in 1 .. n : t[k] # NulChar
  <2>1. NulChar[1] = 16
    BY DEF NulChar
  <2> QED
    BY <1>2, <2>1
<1>4. n \in 0 .. n /\ ~(n < n)
  BY <1>1
<1>5. CLen(t, NulChar) = n
  BY <1>1, <1>3, <1>4, CLenUnique
<1> QED
  BY <1>1, <1>5

LEMMA Half == \A n \in Nat : (2 * n) \div 2 = n
OBVIOUS

LEMMA NibbleIs ==
  ASSUME NEW n \in Nat, NEW b \in [1 .. n -> Bytes]
  PROVE  /\ \A k \in 1 .. 2 * n : Nibble(b, k) \in Nibbles
         /\ \A j \in 1 .. n : /\ 2 * j - 1 \in 1 .. 2 * n /\ 2 * j \in 1 .. 2 * n
                              /\ b[j] = <<Nibble(b, 2 * j - 1), Nibble(b, 2 * j)>>
<1>1. ASSUME NEW k \in 1 .. 2 * n PROVE Nibble(b, k) \in Nibbles
  <2>1. (k + 1) \div 2 \in 1 .. n
    OBVIOUS
  <2>2. b[(k + 1) \div 2] \in Bytes
    BY <2>1
  <2> QED
    BY <2>2, BytesAre DEF Nibble
<1>2. ASSUME NEW j \in 1 .. n
      PROVE  /\ 2 * j - 1 \in 1 .. 2 * n /\ 2 * j \in 1 .. 2 * n
             /\ b[j] = <<Nibble(b, 2 * j - 1), Nibble(b, 2 * j)>>
  <2>1. 2 * j - 1 \in 1 .. 2 * n /\ 2 * j \in 1 .. 2 * n
    OBVIOUS
  <2>2. (2 * j - 1 + 1) \div 2 = j /\ (2 * j + 1) \div 2 = j
    OBVIOUS
  <2>3. (2 * j - 1) % 2 = 1 /\ (2 * j) % 2 = 0
    OBVIOUS
  <2>4. Nibble(b, 2 * j - 1) = b[j][1] /\ Nibble(b, 2 * j) = b[j][2]
    BY <2>2, <2>3 DEF Nibble
  <2> QED
    BY <2>1, <2>4, BytesAre
<1> QED
  BY <1>1, <1>2

LEMMA Bin2hexIs ==
  ASSUME NEW n \in Nat, NEW b \in [1 .. n -> Bytes], n = Len(b)
  PROVE  /\ bin2hex(b) \in Seq(Nibbles \X {FALSE}) /\ Len(bin2hex(b)) = 2 * n
         /\ \A k \in 1 .. 2 * n : bin2hex(b)[k] = <<Nibble(b, k), FALSE>>
<1>1. bin2hex(b) = [k \in 1 .. 2 * n |-> <<Nibble(b, k), FALSE>>]
  BY DEF bin2hex
<1>2. \A k \in 1 .. 2 * n : <<Nibble(b, k), FALSE>> \in Nibbles \X {FALSE}
  BY NibbleIs
<1>3. bin2hex(b) \in [1 .. 2 * n -> Nibbles \X {FALSE}]
  BY <1>1, <1>2, Zenon
<1>4. 2 * n \in Nat
  OBVIOUS
<1>5. bin2hex(b) \in Seq(Nibbles \X {FALSE}) /\ Len(bin2hex(b)) = 2 * n
  BY <1>3, <1>4, SeqOf
<1>6. \A k \in 1 .. 2 * n : bin2hex(b)[k] = <<Nibble(b, k), FALSE>>
  BY <1>1, Zenon
<1> QED
  BY <1>5, <1>6

\* In capitals a text has the same digits.
LEMMA UpperIs ==
  ASSUME NEW n \in Nat, NEW t \in [1 .. n -> Chars], n = Len(t)
  PROVE  /\ Upper(t) \in Seq(Chars) /\ Len(Upper(t)) = n
         /\ \A k \in 1 .. n : Upper(t)[k][1] = t[k][1]
<1>1. Upper(t) = [k \in 1 .. n |-> IF t[k][1] \in 10 .. 15 THEN <<t[k][1], TRUE>> ELSE t[k]]
  BY DEF Upper
<1>2. \A k \in 1 .. n : t[k] \in Chars /\ t[k][1] \in Nat
  BY DEF Chars
<1>3. \A k \in 1 .. n : <<t[k][1], TRUE>> \in Chars
  BY <1>2 DEF Chars
<1>4. Upper(t) \in [1 .. n -> Chars]
  BY <1>1, <1>2, <1>3
<1>5. \A k \in 1 .. n : Upper(t)[k][1] = t[k][1]
  BY <1>1
<1> QED
  BY <1>4, <1>5, SeqOf

\* A text of the digits of a blob converts to the blob and to nothing else.
LEMMA Hex2binExact ==
  ASSUME NEW n \in Nat, NEW c \in [1 .. n -> Bytes], n = Len(c), NEW b \in Seq(Bytes),
         NEW t, Len(t) = 2 * n, \A k \in 1 .. 2 * n : t[k][1] = Nibble(c, k)
  PROVE  hex2bin(t, b) <=> b = c
<1>1. \A k \in 1 .. 2 * n : t[k][1] < 16
  <2>1. \A k \in 1 .. 2 * n : Nibble(c, k) \in 0 .. 15
    BY NibbleIs DEF Nibbles
  <2> QED
    BY <2>1
<1>2. (2 * n) \div 2 = n
  BY Half
<1>3. ASSUME hex2bin(t, b) PROVE b = c
  <2>1. PICK m \in Nat : m = Len(b) /\ b \in [1 .. m -> Bytes]
    BY SeqAs
  <2>2. m = n
    BY <1>2, <1>3, <2>1 DEF hex2bin
  <2>3. \A k \in 1 .. 2 * n : Nibble(b, k) = Nibble(c, k)
    BY <1>1, <1>3, <2>1, <2>2 DEF hex2bin
  <2>4. ASSUME NEW j \in 1 .. n PROVE b[j] = c[j]
    <3>1. /\ 2 * j - 1 \in 1 .. 2 * n /\ 2 * j \in 1 .. 2 * n
          /\ b[j] = <<Nibble(b, 2 * j - 1), Nibble(b, 2 * j)>>
      BY <2>1, <2>2, NibbleIs
    <3>2. c[j] = <<Nibble(c, 2 * j - 1), Nibble(c, 2 * j)>>
      BY NibbleIs
    <3> QED
      BY <2>3, <3>1, <3>2
  <2> QED
    BY <2>1, <2>2, <2>4
<1>4. hex2bin(t, c)
  BY <1>2 DEF hex2bin
<1> QED
  BY <1>3, <1>4

\* A text of digits that converts to a blob has the blob's digits.
LEMMA Hex2binDigits ==
  ASSUME NEW c \in Seq(Bytes), NEW t \in Seq(Chars), AllHex(t), NEW rest \in Chars,
         hex2bin(Buffer(t, NulChar, rest), c)
  PROVE  SameDigits(t, bin2hex(c))
<1>1. PICK n \in Nat : n = Len(c) /\ c \in [1 .. n -> Bytes]
  BY SeqAs
<1>2. PICK m \in Nat : m = Len(t) /\ t \in [1 .. m -> Chars]
  BY SeqAs
<1>3. Buffer(t, NulChar, rest) = t
  BY HexHasNoNul, BufferWhole
<1>4. n = m \div 2
  BY <1>1, <1>2, <1>3 DEF hex2bin
<1>5. ASSUME NEW k \in 1 .. 2 * n PROVE t[k][1] = Nibble(c, k)
  <2>1. k \in 1 .. m
    BY <1>4
  <2>2. t[k][1] < 16
    BY <1>2, <2>1 DEF AllHex
  <2> QED
    BY <1>1, <1>3, <2>2 DEF hex2bin
<1> DEFINE u == bin2hex(c)
<1>6. Len(u) = 2 * n /\ \A k \in 1 .. 2 * n : u[k] = <<Nibble(c, k), FALSE>>
  BY <1>1, Bin2hexIs
<1> HIDE DEF u
<1>7. ASSUME NEW k \in 1 .. 2 * n PROVE t[k][1] = u[k][1]
  <2>1. u[k] = <<Nibble(c, k), FALSE>>
    BY <1>6
  <2>2. u[k][1] = Nibble(c, k)
    BY <2>1
  <2> QED
    BY <1>5, <2>2
<1>8. (2 * n) \div 2 = n
  BY Half
<1>9. Len(t) \div 2 = n /\ Len(u) \div 2 = n
  BY <1>2, <1>4, <1>6, <1>8
<1>10. SameDigits(t, u)
  BY <1>7, <1>9 DEF SameDigits
<1> QED
  BY <1>10 DEF u

-----------------------------------------------------------------------------
(* HexText *)

\* A record of what the library made: its text is the digits of its blob, and its
\* plaintext is the message as a buffer keeps it.
Made(x) ==
    /\ x \in Records
    /\ x.message \in Messages /\ x.blob \in Blobs /\ x.text = bin2hex(x.blob)
    /\ \E b \in Bytes : x.plain = Buffer(x.message, NulByte, b)

AnswerDecrypts ==
    call.fn = "RsaDecrypt" /\ call.result # Failed =>
      \E x \in cipher :
         /\ call.result = CString(x.message, NulByte)
         /\ AllHex(call.text) => SameDigits(call.text, x.text)

AnswerVerifies ==
    call.fn = "VerifySignature" /\ call.result # Failed /\ NoNul(call.message) =>
      \E x \in signed :
         /\ x.message = call.message
         /\ AllHex(call.text) => SameDigits(call.text, x.text)

TextInv ==
    /\ \A x \in cipher \cup signed : Made(x)
    /\ call.text \in Seq(Chars) /\ call.message \in Seq(Bytes)
    /\ err \in BOOLEAN /\ loads \in 1 .. MaxLoads
    /\ AnswerDecrypts /\ AnswerVerifies

LEMMA MadeRecord ==
  ASSUME NEW m \in Messages, NEW c \in Blobs, NEW b \in Bytes
  PROVE  Made([message |-> m, blob |-> c, text |-> bin2hex(c), plain |-> Buffer(m, NulByte, b)])
<1>1. m \in Seq(Bytes) /\ c \in Seq(Bytes)
  BY MessagesAssumption, BlobsAssumption
<1>2. Buffer(m, NulByte, b) \in Seq(Bytes)
  BY <1>1, BufferIs
<1>3. bin2hex(c) \in Seq(Nibbles \X {FALSE})
  BY <1>1, SeqAs, Bin2hexIs
<1> DEFINE t == bin2hex(c)
           p == Buffer(m, NulByte, b)
           x == [message |-> m, blob |-> c, text |-> t, plain |-> p]
<1>4. p = Buffer(m, NulByte, b) /\ t = bin2hex(c)
  OBVIOUS
<1> HIDE DEF t, p
<1>5. x \in Records
  BY <1>1, <1>2, <1>3, <1>4 DEF Records
<1>6. x.message = m /\ x.blob = c /\ x.text = t /\ x.plain = p
  OBVIOUS
<1> HIDE DEF x
<1>7. Made(x)
  BY <1>4, <1>5, <1>6 DEF Made
<1> QED
  BY <1>7 DEF x, t, p

LEMMA TextOfHex == Seq(Nibbles \X {FALSE}) \subseteq Seq(Chars)
<1>1. Nibbles \X {FALSE} \subseteq Chars
  <2>1. Nibbles \subseteq Nat
    BY DEF Nibbles
  <2>2. {FALSE} \subseteq BOOLEAN
    OBVIOUS
  <2> QED
    BY <2>1, <2>2, Zenon DEF Chars
<1> QED
  BY <1>1, SeqMonotonic

\* What a page gives the plugin is a text.
LEMMA PageTextsTyped ==
  ASSUME NEW had, \A x \in had : Made(x), NEW t \in PageTexts(had)
  PROVE  t \in Seq(Chars)
<1>1. CASE t = <<>>
  BY <1>1, EmptySeq
<1>2. ASSUME NEW x \in had, t \in Altered(x.text) PROVE t \in Seq(Chars)
  <2> DEFINE u == x.text
  <2>1. u \in Seq(Chars)
    BY TextOfHex DEF Made, Records
  <2>2. Edits \subseteq Chars
    BY EditsAssumption
  <2>3. PICK n \in Nat : n = Len(u) /\ u \in [1 .. n -> Chars]
    BY <2>1, SeqAs
  <2>4. t \in Altered(u)
    BY <1>2
  <2> HIDE DEF u
  <2>5. Upper(u) \in Seq(Chars)
    BY <2>3, UpperIs
  <2>6. \A c \in Edits : Append(u, c) \in Seq(Chars)
    BY <2>1, <2>2, AppendProperties
  <2>7. ASSUME u # <<>> PROVE SubSeq(u, 1, Len(u) - 1) \in Seq(Chars)
    <3>1. 1 \in Int /\ n - 1 \in Int /\ \A k \in 1 .. n - 1 : u[k] \in Chars
      BY <2>3
    <3> QED
      BY <2>3, <3>1, SubSeqProperties
  <2>8. \A k \in 1 .. Len(u), c \in Edits : [u EXCEPT ![k] = c] \in Seq(Chars)
    BY <2>1, <2>2, ExceptSeq
  <2>9. \/ t \in {u, Upper(u)}
        \/ \E c \in Edits : t = Append(u, c)
        \/ u # <<>> /\ t = SubSeq(u, 1, Len(u) - 1)
        \/ \E k \in 1 .. Len(u), c \in Edits : t = [u EXCEPT ![k] = c]
    BY <2>4 DEF Altered
  <2> QED
    BY <2>1, <2>5, <2>6, <2>7, <2>8, <2>9, Zenon
<1> QED
  BY <1>1, <1>2, Zenon DEF PageTexts

\* A page that decrypts gets a message up to its first NUL.
LEMMA DecryptsTo ==
  ASSUME NEW x, Made(x), NEW t \in Seq(Chars), hex2bin(Buffer(t, NulChar, NulChar), x.blob)
  PROVE  /\ CString(x.plain, NulByte) = CString(x.message, NulByte)
         /\ AllHex(t) => SameDigits(t, x.text)
<1>1. NulChar \in Chars
  BY DEF NulChar, Chars
<1>2. x.message \in Seq(Bytes) /\ x.blob \in Seq(Bytes)
  BY MessagesAssumption, BlobsAssumption DEF Made
<1>3. CString(x.plain, NulByte) = CString(x.message, NulByte)
  BY <1>2, BufferIs DEF Made
<1>4. AllHex(t) => SameDigits(t, bin2hex(x.blob))
  BY <1>1, <1>2, Hex2binDigits
<1> QED
  BY <1>3, <1>4 DEF Made

\* A message without a NUL is found in a buffer only if it was put there.
LEMMA VerifiesAs ==
  ASSUME NEW x, Made(x), NEW m \in Seq(Bytes), NoNul(m), NEW b, NEW c \in Chars,
         NEW t \in Seq(Chars),
         Buffer(m, NulByte, b) = x.plain, hex2bin(Buffer(t, NulChar, c), x.blob)
  PROVE  /\ x.message = m
         /\ AllHex(t) => SameDigits(t, x.text)
<1>1. x.message \in Seq(Bytes) /\ x.blob \in Seq(Bytes)
  BY MessagesAssumption, BlobsAssumption DEF Made
<1>2. PICK d \in Bytes : x.plain = Buffer(x.message, NulByte, d)
  BY DEF Made
<1>3. Buffer(m, NulByte, b) = m /\ CLen(m, NulByte) = Len(m)
  BY BufferWhole DEF NoNul
<1>4. m = Buffer(x.message, NulByte, d)
  BY <1>2, <1>3
<1>5. Len(m) = Len(x.message) /\ CLen(m, NulByte) = CLen(x.message, NulByte)
  BY <1>1, <1>4, BufferIs
<1>6. CLen(x.message, NulByte) = Len(x.message)
  BY <1>3, <1>5
<1>7. Buffer(x.message, NulByte, d) = x.message
  BY <1>1, <1>6, BufferWhole
<1>8. AllHex(t) => SameDigits(t, bin2hex(x.blob))
  BY <1>1, Hex2binDigits
<1> QED
  BY <1>4, <1>7, <1>8 DEF Made

LEMMA TextStart == TextInit => TextInv
<1> SUFFICES ASSUME TextInit PROVE TextInv
  OBVIOUS
<1>1. cipher = {} /\ signed = {} /\ err = FALSE /\ loads \in 1 .. MaxLoads
  BY MaxLoadsAssumption DEF TextInit
<1>2. call.fn = "none" /\ call.text = <<>> /\ call.message = <<>>
  BY DEF TextInit, NoCall
<1>3. call.text \in Seq(Chars) /\ call.message \in Seq(Bytes)
  BY <1>2, EmptySeq
<1>4. AnswerDecrypts /\ AnswerVerifies
  BY <1>2 DEF AnswerDecrypts, AnswerVerifies
<1>5. err \in BOOLEAN
  BY <1>1, Zenon
<1> QED
  BY <1>1, <1>3, <1>4, <1>5 DEF TextInv

\* A call's record, whatever the call was.
LEMMA CallIs ==
  ASSUME NEW fn, NEW m, NEW t, NEW res, Returned(fn, m, t, res)
  PROVE  call'.fn = fn /\ call'.message = m /\ call'.text = t /\ call'.result = res
BY DEF Returned

LEMMA FailsKeeps ==
  ASSUME TextInv, NEW fn, NEW m \in Seq(Bytes), NEW t \in Seq(Chars), Fails(fn, m, t)
  PROVE  TextInv'
<1>1. UNCHANGED <<cipher, signed, loads>> /\ err' = TRUE
  BY DEF Fails
<1>2. call'.message = m /\ call'.text = t /\ call'.result = Failed
  BY CallIs DEF Fails
<1>3. AnswerDecrypts' /\ AnswerVerifies'
  BY <1>2 DEF AnswerDecrypts, AnswerVerifies, Failed
<1>4. err' \in BOOLEAN
  BY <1>1, Zenon
<1>5. \A x \in cipher' \cup signed' : Made(x)
  BY <1>1 DEF TextInv
<1>6. loads' \in 1 .. MaxLoads
  BY <1>1 DEF TextInv
<1> QED
  BY <1>2, <1>3, <1>4, <1>5, <1>6 DEF TextInv

\* A call that leaves an answer of another method.
LEMMA OtherAnswer ==
  ASSUME TextInv, NEW fn, fn \notin {"RsaDecrypt", "VerifySignature"},
         NEW m \in Seq(Bytes), NEW t \in Seq(Chars), NEW res, Returned(fn, m, t, res),
         UNCHANGED <<err, loads>>, \A x \in cipher' \cup signed' : Made(x)
  PROVE  TextInv'
<1>1. call'.fn = fn /\ call'.message = m /\ call'.text = t
  BY CallIs
<1>2. AnswerDecrypts' /\ AnswerVerifies'
  BY <1>1 DEF AnswerDecrypts, AnswerVerifies
<1>3. err' \in BOOLEAN /\ loads' \in 1 .. MaxLoads
  BY Zenon DEF TextInv
<1> QED
  BY <1>1, <1>2, <1>3 DEF TextInv

LEMMA TextStep == TextInv /\ [TextNext]_textVars => TextInv'
<1> SUFFICES ASSUME TextInv, [TextNext]_textVars PROVE TextInv'
  OBVIOUS
<1>1. <<>> \in Seq(Chars) /\ <<>> \in Seq(Bytes) /\ NulByte \in Bytes
  BY EmptySeq DEF NulByte, Bytes, Nibbles
<1>2. ASSUME NEW m \in Messages, RsaEncrypt(m) PROVE TextInv'
  <2>1. m \in Seq(Bytes)
    BY MessagesAssumption
  <2>2. CASE Fails("RsaEncrypt", m, <<>>)
    BY <1>1, <2>1, <2>2, FailsKeeps
  <2>3. ASSUME NEW c \in Blobs,
               cipher' = {[message |-> m, blob |-> c, text |-> bin2hex(c),
                           plain |-> Buffer(m, NulByte, NulByte)]},
               Returned("RsaEncrypt", m, bin2hex(c), <<>>), UNCHANGED <<signed, err, loads>>
        PROVE  TextInv'
    <3>1. \A x \in cipher' \cup signed' : Made(x)
      BY <1>1, <2>3, MadeRecord DEF TextInv
    <3>2. bin2hex(c) \in Seq(Chars)
      BY BlobsAssumption, SeqAs, Bin2hexIs, TextOfHex
    <3> QED
      BY <2>1, <2>3, <3>1, <3>2, OtherAnswer
  <2> QED
    BY <1>2, <2>2, <2>3 DEF RsaEncrypt
<1>3. ASSUME NEW m \in Messages, GetSignature(m) PROVE TextInv'
  <2>1. m \in Seq(Bytes)
    BY MessagesAssumption
  <2>2. CASE Fails("GetSignature", m, <<>>)
    BY <1>1, <2>1, <2>2, FailsKeeps
  <2>3. ASSUME NEW b \in HeapBytes, NEW c \in Blobs,
               signed' = {[message |-> m, blob |-> c, text |-> bin2hex(c),
                           plain |-> Buffer(m, NulByte, b)]},
               Returned("GetSignature", m, bin2hex(c), <<>>), UNCHANGED <<cipher, err, loads>>
        PROVE  TextInv'
    <3>1. b \in Bytes
      BY HeapBytesAssumption
    <3>2. \A x \in cipher' \cup signed' : Made(x)
      BY <2>3, <3>1, MadeRecord DEF TextInv
    <3>3. bin2hex(c) \in Seq(Chars)
      BY BlobsAssumption, SeqAs, Bin2hexIs, TextOfHex
    <3> QED
      BY <2>1, <2>3, <3>2, <3>3, OtherAnswer
  <2> QED
    BY <1>3, <2>2, <2>3 DEF GetSignature
<1>4. ASSUME NEW t \in PageTexts(cipher), RsaDecrypt(t) PROVE TextInv'
  <2>1. t \in Seq(Chars)
    BY PageTextsTyped DEF TextInv
  <2>2. CASE Fails("RsaDecrypt", <<>>, t)
    BY <1>1, <2>1, <2>2, FailsKeeps
  <2>3. ASSUME NEW x \in cipher, hex2bin(Buffer(t, NulChar, NulChar), x.blob),
               Returned("RsaDecrypt", <<>>, t, CString(x.plain, NulByte)),
               UNCHANGED <<cipher, signed, err, loads>>
        PROVE  TextInv'
    <3>1. /\ call'.fn = "RsaDecrypt" /\ call'.message = <<>> /\ call'.text = t
          /\ call'.result = CString(x.plain, NulByte)
      BY <2>3, CallIs
    <3>2. /\ CString(x.plain, NulByte) = CString(x.message, NulByte)
          /\ AllHex(t) => SameDigits(t, x.text)
      BY <2>1, <2>3, DecryptsTo DEF TextInv
    <3>3. AnswerDecrypts'
      BY <2>3, <3>1, <3>2 DEF AnswerDecrypts
    <3>4. AnswerVerifies'
      BY <3>1 DEF AnswerVerifies
    <3>5. err' \in BOOLEAN /\ loads' \in 1 .. MaxLoads
      BY <2>3, Zenon DEF TextInv
    <3>6. \A y \in cipher' \cup signed' : Made(y)
      BY <2>3 DEF TextInv
    <3> QED
      BY <1>1, <2>1, <3>1, <3>3, <3>4, <3>5, <3>6 DEF TextInv
  <2> QED
    BY <1>4, <2>2, <2>3 DEF RsaDecrypt
<1>5. ASSUME NEW t \in PageTexts(signed), NEW m \in Messages, VerifySignature(m, t)
      PROVE  TextInv'
  <2>1. t \in Seq(Chars) /\ m \in Seq(Bytes)
    BY PageTextsTyped, MessagesAssumption DEF TextInv
  <2>2. CASE Fails("VerifySignature", m, t)
    BY <2>1, <2>2, FailsKeeps
  <2>3. ASSUME NEW x \in signed, NEW b \in HeapBytes, Buffer(m, NulByte, b) = x.plain,
               NEW c \in Edits, hex2bin(Buffer(t, NulChar, c), x.blob),
               Returned("VerifySignature", m, t, <<"OK">>),
               UNCHANGED <<cipher, signed, err, loads>>
        PROVE  TextInv'
    <3>1. call'.fn = "VerifySignature" /\ call'.message = m /\ call'.text = t
      BY <2>3, CallIs
    <3>2. c \in Chars /\ Made(x)
      BY EditsAssumption DEF TextInv
    <3>3. NoNul(m) => x.message = m /\ (AllHex(t) => SameDigits(t, x.text))
      BY <2>1, <2>3, <3>2, VerifiesAs
    <3>4. AnswerVerifies'
      BY <2>3, <3>1, <3>3 DEF AnswerVerifies
    <3>5. AnswerDecrypts'
      BY <3>1 DEF AnswerDecrypts
    <3>6. err' \in BOOLEAN /\ loads' \in 1 .. MaxLoads
      BY <2>3, Zenon DEF TextInv
    <3>7. \A y \in cipher' \cup signed' : Made(y)
      BY <2>3 DEF TextInv
    <3> QED
      BY <2>1, <3>1, <3>4, <3>5, <3>6, <3>7 DEF TextInv
  <2> QED
    BY <1>5, <2>2, <2>3 DEF VerifySignature
<1>6. CASE Reload
  <2>1. /\ UNCHANGED <<cipher, signed>> /\ err' = FALSE
        /\ loads < MaxLoads /\ loads' = loads + 1
    BY <1>6 DEF Reload
  <2>2. call'.fn = "none" /\ call'.text = <<>> /\ call'.message = <<>>
    BY <1>6 DEF Reload, NoCall
  <2>3. AnswerDecrypts' /\ AnswerVerifies'
    BY <2>2 DEF AnswerDecrypts, AnswerVerifies
  <2>4. err' \in BOOLEAN
    BY <2>1, Zenon
  <2>5. loads' \in 1 .. MaxLoads
    BY <2>1, MaxLoadsAssumption DEF TextInv
  <2>6. \A x \in cipher' \cup signed' : Made(x)
    BY <2>1 DEF TextInv
  <2> QED
    BY <1>1, <2>2, <2>3, <2>4, <2>5, <2>6 DEF TextInv
<1>7. CASE UNCHANGED textVars
  BY <1>7 DEF textVars, TextInv, AnswerDecrypts, AnswerVerifies
<1> QED
  BY <1>2, <1>3, <1>4, <1>5, <1>6, <1>7 DEF TextNext

\* Every record was made by the library, and the last answer is about one of them.
THEOREM TextInvHolds == TextSpec => []TextInv
<1> QED
  BY TextStart, TextStep, PTL DEF TextSpec

\* Texts and messages keep their types, and a text for the page has small digits only
\* (bin2hex and the methods of fumPluginAPI.cpp).
THEOREM TextTypeCorrect == TextSpec => []TextTypeOK
<1>1. TextInv => TextTypeOK
  BY DEF TextInv, TextTypeOK, Made
<1> QED
  BY <1>1, TextInvHolds, PTL

\* A text converts back to what the library made and to nothing else, in either case,
\* and a page that decrypts gets its message up to the first NUL (hex2bin and
\* rsaDecrypt), for messages and blobs of any length.
THEOREM UpToTheNulHolds == TextSpec => []UpToTheNul
<1>1. TextInv => UpToTheNul
  <2> SUFFICES ASSUME TextInv PROVE UpToTheNul
    OBVIOUS
  <2>1. ASSUME NEW x \in cipher \cup signed, NEW b \in Blobs
        PROVE  /\ hex2bin(x.text, b) <=> b = x.blob
               /\ hex2bin(Upper(x.text), b) <=> b = x.blob
    <3> DEFINE c == x.blob
               t == x.text
    <3>1. c \in Seq(Bytes) /\ b \in Seq(Bytes) /\ t = bin2hex(c)
      BY BlobsAssumption DEF TextInv, Made
    <3> HIDE DEF c, t
    <3>2. PICK n \in Nat : n = Len(c) /\ c \in [1 .. n -> Bytes]
      BY <3>1, SeqAs
    <3>3. t \in Seq(Nibbles \X {FALSE}) /\ Len(t) = 2 * n
      BY <3>1, <3>2, Bin2hexIs
    <3>4. ASSUME NEW k \in 1 .. 2 * n PROVE t[k][1] = Nibble(c, k)
      <4>1. t[k] = <<Nibble(c, k), FALSE>>
        BY <3>1, <3>2, Bin2hexIs
      <4> QED
        BY <4>1
    <3>5. 2 * n \in Nat /\ t \in [1 .. 2 * n -> Chars]
      <4>1. t \in Seq(Chars)
        BY <3>3, TextOfHex
      <4> QED
        BY <3>3, <4>1, LenProperties
    <3>6. Len(Upper(t)) = 2 * n /\ \A k \in 1 .. 2 * n : Upper(t)[k][1] = t[k][1]
      BY <3>3, <3>5, UpperIs
    <3>7. hex2bin(t, b) <=> b = c
      BY <3>1, <3>2, <3>3, <3>4, Hex2binExact
    <3>8. hex2bin(Upper(t), b) <=> b = c
      BY <3>1, <3>2, <3>4, <3>6, Hex2binExact
    <3> QED
      BY <3>7, <3>8 DEF c, t
  <2>2. AnswerDecrypts
    BY DEF TextInv
  <2> QED
    BY <2>1, <2>2 DEF UpToTheNul, AnswerDecrypts
<1> QED
  BY <1>1, TextInvHolds, PTL

\* A message without a NUL is signed as it is and verified with its own signature only
\* (getSignature and verifySignature), for messages and signatures of any length.
THEOREM SignatureBindsHolds == TextSpec => []SignatureBinds
<1>1. TextInv => SignatureBinds
  <2> SUFFICES ASSUME TextInv PROVE SignatureBinds
    OBVIOUS
  <2>1. ASSUME NEW x \in signed, NoNul(x.message) PROVE x.plain = x.message
    <3>1. x.message \in Seq(Bytes) /\ CLen(x.message, NulByte) = Len(x.message)
      BY <2>1, MessagesAssumption DEF TextInv, Made, NoNul
    <3> QED
      BY <3>1, BufferWhole DEF TextInv, Made
  <2>2. AnswerVerifies
    BY DEF TextInv
  <2> QED
    BY <2>1, <2>2 DEF SignatureBinds, AnswerVerifies
<1> QED
  BY <1>1, TextInvHolds, PTL

-----------------------------------------------------------------------------
(* The four conversions together *)

partVars == <<part, codecVars, bufferVars, serialVars, textVars>>

\* Whichever part moves, the composition behaves as each of the four: what is proved
\* of one of them holds in the run that checks them together.
THEOREM FourTogether == MCSpec => CodecSpec /\ KeySpec /\ SerialSpec /\ TextSpec
<1>1. MCInit => CodecInit /\ KeyInit /\ SerialInit /\ TextInit
  BY DEF MCInit
<1>2. [MCNext]_partVars => /\ [CodecNext]_codecVars /\ [KeyNext]_bufferVars
                           /\ [SerialNext]_serialVars /\ [TextNext]_textVars
  <2>1. ASSUME MCNext
        PROVE  /\ [CodecNext]_codecVars /\ [KeyNext]_bufferVars
               /\ [SerialNext]_serialVars /\ [TextNext]_textVars
    BY <2>1, Zenon DEF MCNext
  <2>2. ASSUME UNCHANGED partVars
        PROVE  UNCHANGED codecVars /\ UNCHANGED bufferVars
               /\ UNCHANGED serialVars /\ UNCHANGED textVars
    BY <2>2, Zenon DEF partVars
  <2> QED
    BY <2>1, <2>2, Zenon
<1> QED
  BY <1>1, <1>2, PTL DEF MCSpec, CodecSpec, KeySpec, SerialSpec, TextSpec, partVars

\* The type invariants of the four conversions hold of their composition.
THEOREM ConversionsTypeCorrect == MCSpec => []ConversionsTypeOK
<1>1. CodecTypeOK /\ KeyTypeOK /\ SerialTypeOK /\ TextTypeOK => ConversionsTypeOK
  BY DEF ConversionsTypeOK
<1> QED
  BY <1>1, FourTogether, CodecTypeCorrect, KeyTypeCorrect, SerialTypeCorrect,
     TextTypeCorrect, PTL

=============================================================================
