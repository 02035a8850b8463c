-------------------------- MODULE KeyBufferProofs ---------------------------
(***************************************************************************)
(* What TLAPS proves of KeyBuffer: any number of blocks, any lengths of    *)
(* answers up to a report's.                                               *)
(***************************************************************************)
EXTENDS KeyBuffer, TLAPS

-----------------------------------------------------------------------------
(* The inductive invariant *)

\* What has been read of the part is in its place, or garbled after a short answer.
Prefix ==
    key_part # 0 => \A c \in 0 .. Window(key_block) - 1 :
       /\ mem[c] \in {Right(key_part, c), Junk}
       /\ ~short => mem[c] = Right(key_part, c)

\* Behind the two bytes that the last move spilled no byte is out of its place: it
\* is as the stack left it, or as the part before left it.
Ahead ==
    key_part # 0 => \A c \in Window(key_block) + 2 .. KeyLen + 3 :
       mem[c] \in {Junk, Frame} \cup {Right(p, c) : p \in KeyParts}

Copies == [bytes : [0 .. KeyLen - 1 -> CellValues], short : BOOLEAN]

KeyInv ==
    /\ KeyTypeOK /\ Prefix /\ Ahead /\ BytesInPlace
    /\ copied \in [KeyParts -> SUBSET Copies]

-----------------------------------------------------------------------------
(* Bytes and windows *)

LEMMA BlockOf ==
  ASSUME NEW k \in Nat, NEW o \in 0 .. 15
  PROVE  (16 * k + o) \div 16 = k /\ (16 * k + o) % 16 = o
OBVIOUS

LEMMA RightOf ==
  ASSUME NEW p, NEW k \in Nat, NEW o \in 0 .. 15
  PROVE  Right(p, 16 * k + o) = Byte(p, k, o + 1, FALSE)
<1>1. (16 * k + o) \div 16 = k /\ (16 * k + o) % 16 = o
  BY BlockOf
<1> QED
  BY <1>1 DEF Right, BlockLen

LEMMA RightTyped ==
  ASSUME NEW p \in KeyParts, NEW c \in 0 .. KeyLen - 1
  PROVE  Right(p, c) \in CellValues
<1>1. c \div 16 \in 0 .. KeyBlocks - 1 /\ c % 16 \in 0 .. 15
  BY KeyBlocksAssumption DEF KeyLen, BlockLen
<1> QED
  BY <1>1 DEF Right, Byte, CellValues, BlockLen

\* Two bytes further down a byte is out of its place.
LEMMA SpilledIsWrong ==
  ASSUME NEW p, NEW q, NEW c \in Nat
  PROVE  Right(p, c + 2) # Right(q, c)
<1>1. c % 16 # (c + 2) % 16
  OBVIOUS
<1> QED
  BY <1>1 DEF Right, Byte, BlockLen

LEMMA RightApart ==
  ASSUME NEW p \in KeyParts, NEW q, NEW c, NEW b
  PROVE  /\ Right(p, c) # Junk /\ Right(p, c) # Frame
         /\ Right(p, c) = Right(q, b) => p = q
BY DEF Right, Byte, Junk, Frame, KeyParts

-----------------------------------------------------------------------------
(* One answer *)

\* Below the window nothing changes, in it each byte is in its place or garbled,
\* the two cells behind it take what was two cells further, and the rest stays.
LEMMA AnswerCells ==
  ASSUME KeyTypeOK, key_part \in KeyParts, NEW n \in 0 .. ReportLen, NEW c \in Cells
  PROVE  /\ c < 16 * key_block => After(n)[c] = mem[c]
         /\ c \in 16 * key_block .. 16 * key_block + 15 =>
              /\ After(n)[c] \in {Right(key_part, c), Junk}
              /\ n = ReportLen => After(n)[c] = Right(key_part, c)
         /\ c \in 16 * key_block + 16 .. 16 * key_block + 17 => After(n)[c] = mem[c + 2]
         /\ c >= 16 * key_block + 18 => After(n)[c] = mem[c]
<1> DEFINE w == 16 * key_block
           r == Received(mem, key_block, n)
           d == Decrypted(r, key_block)
<1>1. /\ key_block \in Nat /\ w \in Nat /\ KeyLen \in Nat /\ w + 16 <= KeyLen
      /\ Window(key_block) = w /\ c \in Nat /\ n \in 0 .. 18 /\ Cells = 0 .. KeyLen + 3
  BY KeyBlocksAssumption DEF KeyTypeOK, Cells, KeyLen, BlockLen, Window, ReportLen
<1> HIDE DEF w
<1>2. After(n)[c] = IF c >= w /\ c < w + 18 THEN d[c + 2] ELSE d[c]
  BY <1>1 DEF After, Moved, ReportLen
<1>3. \A b \in Cells : r[b] =
        IF b = w THEN Junk
        ELSE IF b > w /\ b < w + n THEN Byte(key_part, key_block, b - w - 1, TRUE)
        ELSE mem[b]
  BY <1>1 DEF Received
<1>4. \A b \in Cells : d[b] =
        IF b <= w \/ b >= w + 18 THEN r[b]
        ELSE IF \A a \in b .. w + LastOf(b - w) :
                  r[a] = Byte(key_part, key_block, a - w - 1, TRUE)
        THEN Byte(key_part, key_block, b - w - 1, FALSE) ELSE Junk
  BY <1>1 DEF Decrypted, ReportLen
<1>5. ASSUME c \in w .. w + 15
      PROVE  /\ After(n)[c] \in {Right(key_part, c), Junk}
             /\ n = ReportLen => After(n)[c] = Right(key_part, c)
  <2> DEFINE b == c + 2
  <2>1. b \in Cells /\ ~(b <= w \/ b >= w + 18) /\ b - w \in 2 .. 17
    BY <1>1, <1>5 DEF Cells
  <2>2. After(n)[c] = d[b]
    BY <1>1, <1>2, <1>5
  <2>3. Right(key_part, c) = Byte(key_part, key_block, b - w - 1, FALSE)
    <3>1. c - w \in 0 .. 15 /\ c = w + (c - w) /\ b - w - 1 = (c - w) + 1
      BY <1>1, <1>5
    <3> QED
      BY <1>1, <3>1, RightOf DEF w
  <2>4. n = ReportLen =>
          \A a \in b .. w + LastOf(b - w) : r[a] = Byte(key_part, key_block, a - w - 1, TRUE)
    <3>1. LastOf(b - w) \in 0 .. 17
      BY <2>1 DEF LastOf
    <3>2. ASSUME n = ReportLen, NEW a \in b .. w + LastOf(b - w)
          PROVE  r[a] = Byte(key_part, key_block, a - w - 1, TRUE)
      <4>1. a \in Cells /\ a > w /\ a < w + n
        BY <1>1, <2>1, <3>1, <3>2 DEF ReportLen
      <4>2. a # w
        BY <1>1, <4>1
      <4> QED
        BY <1>3, <4>1, <4>2
    <3> QED
      BY <3>2
  <2> QED
    BY <1>4, <2>1, <2>2, <2>3, <2>4
<1>6. ASSUME NEW b \in Cells, b < w \/ b >= w + 18 PROVE d[b] = mem[b]
  <2>1. b <= w \/ b >= w + 18
    BY <1>1, <1>6
  <2>2. b # w /\ ~(b > w /\ b < w + n)
    BY <1>1, <1>6
  <2> QED
    BY <1>3, <1>4, <2>1, <2>2
<1>7. c \in w + 16 .. w + 17 => After(n)[c] = mem[c + 2]
  BY <1>1, <1>2, <1>6 DEF Cells
<1>8. c < w \/ c >= w + 18 => After(n)[c] = mem[c]
  BY <1>1, <1>2, <1>6 DEF Cells
<1> QED
  BY <1>5, <1>7, <1>8 DEF w

\* What AnswerCells says of the whole buffer, in terms of the invariant.
LEMMA AnswerMem ==
  ASSUME KeyInv, NEW n \in 0 .. ReportLen, AnswerStored(n)
  PROVE  /\ key_part \in KeyParts /\ key_block \in Nat /\ 16 * key_block + 16 <= KeyLen
         /\ mem' \in [Cells -> CellValues]
         /\ \A c \in 0 .. 16 * key_block + 15 :
              /\ mem'[c] \in {Right(key_part, c), Junk}
              /\ ~short' => mem'[c] = Right(key_part, c)
         /\ \A c \in 16 * key_block + 16 .. 16 * key_block + 17 : mem'[c] = mem[c + 2]
         /\ \A c \in 16 * key_block + 18 .. KeyLen + 3 :
              /\ mem'[c] = mem[c]
              /\ mem'[c] \in {Junk, Frame} \cup {Right(p, c) : p \in KeyParts}
<1> USE DEF KeyInv
<1>1. /\ key_part \in KeyParts /\ key_block \in Nat /\ KeyLen \in Nat
      /\ 16 * key_block + 16 <= KeyLen /\ Cells = 0 .. KeyLen + 3
      /\ Window(key_block) = 16 * key_block
  BY KeyBlocksAssumption
     DEF KeyTypeOK, AnswerStored, KeyParts, Cells, KeyLen, BlockLen, Window
<1>2. mem' = After(n) /\ mem' = [c \in Cells |-> mem'[c]]
  BY DEF AnswerStored, After, Moved
<1>3. \A c \in Cells : c < 16 * key_block => mem'[c] = mem[c]
  BY <1>1, <1>2, AnswerCells
<1>4. \A c \in 16 * key_block .. 16 * key_block + 15 :
        /\ mem'[c] \in {Right(key_part, c), Junk}
        /\ n = ReportLen => mem'[c] = Right(key_part, c)
  BY <1>1, <1>2, AnswerCells
<1>5. \A c \in 16 * key_block + 16 .. 16 * key_block + 17 : mem'[c] = mem[c + 2]
  BY <1>1, <1>2, AnswerCells
<1>6. \A c \in 16 * key_block + 18 .. KeyLen + 3 : mem'[c] = mem[c]
  BY <1>1, <1>2, AnswerCells
<1>7. \A c \in 0 .. 16 * key_block + 15 :
        /\ mem'[c] \in {Right(key_part, c), Junk}
        /\ ~short' => mem'[c] = Right(key_part, c)
  <2> SUFFICES ASSUME NEW c \in 0 .. 16 * key_block + 15
               PROVE  /\ mem'[c] \in {Right(key_part, c), Junk}
                      /\ ~short' => mem'[c] = Right(key_part, c)
    OBVIOUS
  <2>1. CASE c < 16 * key_block
    <3>1. c \in 0 .. 16 * key_block - 1 /\ c \in Cells /\ key_block # 0
      BY <1>1, <2>1
    <3>2. ~short' => ~short
      BY <3>1 DEF AnswerStored, KeyTypeOK
    <3> QED
      BY <1>1, <1>3, <2>1, <3>1, <3>2 DEF Prefix, KeyParts
  <2>2. CASE c >= 16 * key_block
    <3>1. ~short' => ~(n < ReportLen)
      BY DEF AnswerStored
    <3>2. ~(n < ReportLen) => n = ReportLen
      BY DEF ReportLen
    <3> QED
      BY <1>1, <1>4, <2>2, <3>1, <3>2
  <2> QED
    BY <1>1, <2>1, <2>2
<1>8. \A c \in 16 * key_block + 18 .. KeyLen + 3 :
        mem[c] \in {Junk, Frame} \cup {Right(p, c) : p \in KeyParts}
  BY <1>1 DEF Ahead, KeyParts
<1>9. \A c \in Cells : mem'[c] \in CellValues
  <2> SUFFICES ASSUME NEW c \in Cells PROVE mem'[c] \in CellValues
    OBVIOUS
  <2>1. mem \in [Cells -> CellValues] /\ Junk \in CellValues
    BY DEF KeyTypeOK, CellValues
  <2>2. CASE c \in 0 .. 16 * key_block + 15
    BY <1>1, <1>7, <2>1, <2>2, RightTyped
  <2>3. CASE c \in 16 * key_block + 16 .. 16 * key_block + 17
    <3>1. c + 2 \in Cells
      BY <1>1, <2>3
    <3> QED
      BY <1>5, <2>1, <2>3, <3>1
  <2>4. CASE c \in 16 * key_block + 18 .. KeyLen + 3
    BY <1>6, <2>1, <2>4
  <2> QED
    BY <1>1, <2>2, <2>3, <2>4
<1> QED
  BY <1>1, <1>2, <1>5, <1>6, <1>7, <1>8, <1>9

LEMMA AnswerKeeps ==
  ASSUME KeyInv, NEW n \in 0 .. ReportLen, AnswerStored(n)
  PROVE  KeyInv'
<1> USE DEF KeyInv
<1>1. /\ key_part \in KeyParts /\ key_block \in Nat /\ KeyLen \in Nat
      /\ 16 * key_block + 16 <= KeyLen /\ Cells = 0 .. KeyLen + 3
      /\ KeyLen = 16 * KeyBlocks
  BY AnswerMem, KeyBlocksAssumption DEF Cells, KeyLen, BlockLen
<1>2. \A c \in 0 .. 16 * key_block + 15 :
        /\ mem'[c] \in {Right(key_part, c), Junk}
        /\ ~short' => mem'[c] = Right(key_part, c)
  BY AnswerMem
<1>3. \A c \in 16 * key_block + 16 .. 16 * key_block + 17 : mem'[c] = mem[c + 2]
  BY AnswerMem
<1>4. \A c \in 16 * key_block + 18 .. KeyLen + 3 :
        /\ mem'[c] = mem[c]
        /\ mem'[c] \in {Junk, Frame} \cup {Right(p, c) : p \in KeyParts}
  BY AnswerMem
<1>5. mem' \in [Cells -> CellValues] /\ short' \in BOOLEAN
  <2>1. (n < ReportLen) \in BOOLEAN /\ (short \/ n < ReportLen) \in BOOLEAN
    OBVIOUS
  <2>2. short' \in {n < ReportLen, short \/ n < ReportLen}
    BY DEF AnswerStored
  <2> QED
    BY <2>1, <2>2, AnswerMem
<1>6. CASE key_block + 1 < KeyBlocks
  <2>1. key_block' = key_block + 1 /\ key_part' = key_part /\ copied' = copied
    BY <1>1, <1>6, KeyBlocksAssumption DEF AnswerStored, Advance
  <2>2. 16 * key_block + 32 <= KeyLen /\ Window(key_block') = 16 * key_block + 16
    BY <1>1, <1>6, <2>1, KeyBlocksAssumption DEF Window
  <2>3. \A c \in {KeyLen + 2, KeyLen + 3} : mem'[c] = Frame
    BY <1>1, <1>4, <2>2 DEF KeyTypeOK
  <2>4. KeyTypeOK'
    BY <1>1, <1>5, <1>6, <2>1, <2>3, KeyBlocksAssumption DEF KeyTypeOK
  <2>5. Prefix'
    BY <1>1, <1>2, <2>1, <2>2 DEF Prefix
  <2>6. Ahead'
    BY <1>1, <1>4, <2>1, <2>2 DEF Ahead
  <2> QED
    BY <2>1, <2>4, <2>5, <2>6 DEF BytesInPlace
<1>7. CASE ~(key_block + 1 < KeyBlocks)
  <2>1. /\ key_block + 1 = KeyBlocks /\ KeyLen = 16 * key_block + 16
        /\ key_block' = 0 /\ key_part' = (key_part + 1) % 3
    BY <1>1, <1>7, KeyBlocksAssumption DEF AnswerStored, Advance, KeyTypeOK
  <2>2. key_part' = 0 \/ (key_part = 1 /\ key_part' = 2)
    BY <1>1, <2>1 DEF KeyParts
  <2> DEFINE copy == [bytes |-> [j \in 0 .. KeyLen - 1 |-> mem'[j]], short |-> short']
  <2>3. copied' = [copied EXCEPT ![key_part] = {copy}]
    BY <2>1 DEF AnswerStored
  <2>4. copy \in Copies
    BY <1>1, <1>5 DEF Copies
  <2>5. \A j \in 0 .. KeyLen - 1 : /\ ~copy.short => copy.bytes[j] = Right(key_part, j)
                                  /\ copy.bytes[j] \in {Right(key_part, j), Junk}
    BY <1>1, <1>2, <2>1
  <2> HIDE DEF copy
  <2>6. copied' \in [KeyParts -> SUBSET Copies]
    BY <2>3, <2>4
  <2>7. BytesInPlace'
    BY <1>1, <2>3, <2>5 DEF BytesInPlace
  <2>8. \A c \in KeyLen .. KeyLen + 3 : mem'[c] = Frame
    <3>1. mem[KeyLen + 2] = Frame /\ mem[KeyLen + 3] = Frame
      BY DEF KeyTypeOK
    <3>2. mem'[KeyLen] = mem[KeyLen + 2] /\ mem'[KeyLen + 1] = mem[KeyLen + 3]
      BY <1>1, <1>3, <2>1
    <3>3. mem'[KeyLen + 2] = mem[KeyLen + 2] /\ mem'[KeyLen + 3] = mem[KeyLen + 3]
      BY <1>1, <1>4, <2>1
    <3> QED
      BY <1>1, <3>1, <3>2, <3>3
  <2>9. Prefix'
    BY <2>1 DEF Prefix, Window
  <2>10. Ahead'
    <3> SUFFICES ASSUME NEW c \in 2 .. KeyLen + 3
                 PROVE  mem'[c] \in {Junk, Frame} \cup {Right(p, c) : p \in KeyParts}
      BY <2>1 DEF Ahead, Window
    <3>1. CASE c < KeyLen
      BY <1>1, <1>2, <2>1, <3>1
    <3>2. CASE c >= KeyLen
      BY <1>1, <2>8, <3>2
    <3> QED
      BY <1>1, <3>1, <3>2
  <2>11. KeyTypeOK'
    <3>1. \A c \in {KeyLen + 2, KeyLen + 3} : mem'[c] = Frame
      BY <1>1, <2>8
    <3>2. \A p \in KeyParts : \A x \in copied'[p] : x.short \in BOOLEAN
      BY <2>6 DEF Copies
    <3>3. key_part' \in {0} \cup KeyParts /\ key_block' \in 0 .. KeyBlocks - 1
      BY <2>1, <2>2, KeyBlocksAssumption DEF KeyParts
    <3> QED
      BY <1>5, <3>1, <3>2, <3>3 DEF KeyTypeOK
  <2> QED
    BY <2>6, <2>7, <2>9, <2>10, <2>11
<1> QED
  BY <1>6, <1>7

-----------------------------------------------------------------------------
(* Every step *)

LEMMA FreshMem ==
  /\ KeyLen \in Nat \ {0} /\ Cells = 0 .. KeyLen + 3
  /\ Fresh \in [Cells -> CellValues]
  /\ \A c \in Cells : Fresh[c] \in {Junk, Frame}
  /\ \A c \in {KeyLen + 2, KeyLen + 3} : Fresh[c] = Frame
BY KeyBlocksAssumption DEF Fresh, KeyLen, BlockLen, Cells, CellValues

LEMMA KeyStart == KeyInit => KeyInv
<1> SUFFICES ASSUME KeyInit PROVE KeyInv
  OBVIOUS
<1>1. KeyTypeOK
  <2>1. 0 \in 0 .. KeyBlocks - 1
    BY KeyBlocksAssumption
  <2> QED
    BY <2>1, FreshMem DEF KeyInit, KeyTypeOK
<1>2. copied \in [KeyParts -> SUBSET Copies]
  BY DEF KeyInit
<1> QED
  BY <1>1, <1>2 DEF KeyInit, KeyInv, Prefix, Ahead, BytesInPlace

LEMMA KeyStep == KeyInv /\ [KeyNext]_bufferVars => KeyInv'
<1> SUFFICES ASSUME KeyInv, [KeyNext]_bufferVars PROVE KeyInv'
  OBVIOUS
<1>1. CASE StartKey
  <2>1. mem' = Fresh /\ key_part' = 1 /\ key_block' = 0 /\ short' = FALSE
        /\ copied' = [p \in KeyParts |-> {}]
    BY <1>1 DEF StartKey
  <2>2. KeyTypeOK'
    <3>1. key_part' \in {0} \cup KeyParts /\ key_block' \in 0 .. KeyBlocks - 1
      BY <2>1, KeyBlocksAssumption DEF KeyParts
    <3> QED
      BY <2>1, <3>1, FreshMem DEF KeyTypeOK
  <2>3. Prefix'
    BY <2>1 DEF Prefix, Window
  <2>4. Ahead'
    BY <2>1, FreshMem DEF Ahead, Window
  <2> QED
    BY <2>1, <2>2, <2>3, <2>4 DEF KeyInv, BytesInPlace
<1>2. ASSUME NEW n \in AnswerLens, AnswerStored(n) PROVE KeyInv'
  BY <1>2, AnswerKeeps, AnswerLensAssumption
<1>3. CASE PacketFails
  BY <1>3, KeyBlocksAssumption
     DEF PacketFails, KeyInv, KeyTypeOK, Prefix, Ahead, BytesInPlace
<1>4. CASE UNCHANGED bufferVars
  BY <1>4 DEF bufferVars, KeyInv, KeyTypeOK, Prefix, Ahead, BytesInPlace
<1> QED
  BY <1>1, <1>2, <1>3, <1>4 DEF KeyNext

\* While a part is read, what lies below the window is in its place and nothing above
\* it is taken for a byte of another one (_get_public_key, _get_private_key).
THEOREM KeyInvHolds == KeySpec => []KeyInv
<1> QED
  BY KeyStart, KeyStep, PTL DEF KeySpec

-----------------------------------------------------------------------------
(* The theorems *)

\* Reading a key part writes two bytes behind result[128] at most, and those two are
\* read from behind it (_get_public_key, novintools.c:308).
THEOREM KeyTypeCorrect == KeySpec => []KeyTypeOK
<1>1. KeyInv => KeyTypeOK
  BY DEF KeyInv
<1> QED
  BY <1>1, KeyInvHolds, PTL

\* The windows of a key part, each written, decrypted and moved down over the next
\* one, leave every byte in its place, for any number of blocks.
THEOREM BytesInPlaceHolds == KeySpec => []BytesInPlace
<1>1. KeyInv => BytesInPlace
  BY DEF KeyInv
<1> QED
  BY <1>1, KeyInvHolds, PTL

-----------------------------------------------------------------------------
(* Blocks *)

\* The last byte of an answer that came short is decrypted from what was there before,
\* which is no byte of an answer still encrypted.
LEMMA ShortIsGarbled ==
  ASSUME KeyInv, key_part \in KeyParts, NEW n \in 0 .. ReportLen, n # ReportLen
  PROVE  After(n)[16 * key_block + 15] = Junk
<1> DEFINE w == 16 * key_block
           r == Received(mem, key_block, n)
           d == Decrypted(r, key_block)
<1>1. /\ w \in Nat /\ KeyLen \in Nat /\ w + 16 <= KeyLen /\ n \in 0 .. 17
      /\ Window(key_block) = w /\ Cells = 0 .. KeyLen + 3
  BY KeyBlocksAssumption
     DEF KeyInv, KeyTypeOK, Cells, KeyLen, BlockLen, Window, ReportLen
<1> HIDE DEF w
<1> DEFINE last == w + 17
<1>2. /\ last \in Cells /\ last = w + 17 /\ last # w /\ ~(last < w + n)
      /\ ~(last <= w \/ last >= w + 18) /\ last - w = 17 /\ last - w - 1 = 16
      /\ last \in last .. w + LastOf(last - w)
  BY <1>1 DEF LastOf
<1>3. \A b \in Cells : r[b] =
        IF b = w THEN Junk
        ELSE IF b > w /\ b < w + n THEN Byte(key_part, key_block, b - w - 1, TRUE)
        ELSE mem[b]
  BY <1>1 DEF Received
<1>4. \A b \in Cells : d[b] =
        IF b <= w \/ b >= w + 18 THEN r[b]
        ELSE IF \A a \in b .. w + LastOf(b - w) :
                  r[a] = Byte(key_part, key_block, a - w - 1, TRUE)
        THEN Byte(key_part, key_block, b - w - 1, FALSE) ELSE Junk
  BY <1>1 DEF Decrypted, ReportLen
<1>5. After(n)[w + 15] = d[last]
  <2>1. w + 15 >= w /\ w + 15 < w + 18 /\ (w + 15) + 2 = last /\ w + 15 \in Cells
    BY <1>1
  <2> QED
    BY <1>1, <2>1 DEF After, Moved, ReportLen
<1>6. mem[last] \in {Junk, Frame} \cup {Right(p, last) : p \in KeyParts}
  <2>1. last \in Window(key_block) + 2 .. KeyLen + 3 /\ key_part # 0
    BY <1>1 DEF KeyParts
  <2> QED
    BY <2>1 DEF KeyInv, Ahead
<1>7. mem[last].enc = FALSE
  <2>1. \A p, k, a : Byte(p, k, a, FALSE).enc = FALSE
    BY DEF Byte
  <2>2. Junk.enc = FALSE /\ Frame.enc = FALSE /\ \A p, j : Right(p, j).enc = FALSE
    BY <2>1 DEF Junk, Frame, Right
  <2> QED
    BY <1>6, <2>2
<1> HIDE DEF r, d, last
<1>8. r[last] = mem[last]
  BY <1>2, <1>3
<1>9. r[last] # Byte(key_part, key_block, last - w - 1, TRUE)
  <2>1. Byte(key_part, key_block, last - w - 1, TRUE).enc = TRUE
    BY DEF Byte
  <2> QED
    BY <1>7, <1>8, <2>1
<1>10. d[last] = Junk
  BY <1>2, <1>4, <1>9
<1> QED
  BY <1>5, <1>10 DEF w

LEMMA BlocksChange ==
  ASSUME KeyInv, NEW n \in 0 .. ReportLen, AnswerStored(n)
  PROVE  WholeBlocks' = [k \in 0 .. KeyBlocks - 1 |->
                          IF k = key_block THEN (IF n = ReportLen THEN {key_part} ELSE {})
                          ELSE IF k = key_block + 1 THEN {} ELSE WholeBlocks[k]]
<1> DEFINE Whole(k) ==
      {p \in KeyParts :
         \A j \in BlockLen * k .. BlockLen * k + BlockLen - 1 : mem'[j] = Right(p, j)}
<1> USE DEF BlockLen
<1>1. /\ key_part \in KeyParts /\ key_block \in Nat /\ KeyLen \in Nat
      /\ KeyLen = 16 * KeyBlocks /\ 16 * key_block + 16 <= KeyLen
      /\ Cells = 0 .. KeyLen + 3 /\ KeyTypeOK /\ mem' = After(n)
  <2>1. key_part \in KeyParts /\ key_block \in Nat /\ 16 * key_block + 16 <= KeyLen
    BY AnswerMem
  <2>2. KeyLen \in Nat /\ KeyLen = 16 * KeyBlocks /\ Cells = 0 .. KeyLen + 3
    BY KeyBlocksAssumption DEF Cells, KeyLen
  <2> QED
    BY <2>1, <2>2 DEF KeyInv, AnswerStored
<1>2. Whole(key_block) = IF n = ReportLen THEN {key_part} ELSE {}
  <2>1. \A j \in 16 * key_block .. 16 * key_block + 15 :
          /\ mem'[j] \in {Right(key_part, j), Junk}
          /\ n = ReportLen => mem'[j] = Right(key_part, j)
    BY <1>1, AnswerCells
  <2>2. 16 * key_block + 15 \in 16 * key_block .. 16 * key_block + 15
    BY <1>1
  <2>3. ASSUME NEW p \in Whole(key_block)
        PROVE  p = key_part /\ mem'[16 * key_block + 15] # Junk
    <3>1. mem'[16 * key_block + 15] = Right(p, 16 * key_block + 15) /\ p \in KeyParts
      BY <2>2, <2>3
    <3> QED
      BY <2>1, <2>2, <3>1, RightApart
  <2>4. CASE n = ReportLen
    <3>1. key_part \in Whole(key_block)
      BY <1>1, <2>1, <2>4
    <3> QED
      BY <2>3, <2>4, <3>1
  <2>5. CASE n # ReportLen
    BY <1>1, <2>3, <2>5, ShortIsGarbled
  <2> QED
    BY <2>4, <2>5
<1>3. ASSUME key_block + 1 < KeyBlocks PROVE Whole(key_block + 1) = {}
  <2> DEFINE c == 16 * key_block + 16
  <2>1. c \in Nat /\ c \in Cells /\ c \in 16 * key_block + 16 .. 16 * key_block + 17
    BY <1>1
  <2>2. mem'[c] = mem[c + 2]
    BY <1>1, <2>1, AnswerCells
  <2>3. mem[c + 2] \in {Junk, Frame} \cup {Right(q, c + 2) : q \in KeyParts}
    <3>1. c + 2 \in Window(key_block) + 2 .. KeyLen + 3 /\ key_part # 0
      BY <1>1 DEF Window, KeyParts
    <3> QED
      BY <3>1 DEF KeyInv, Ahead
  <2>4. \A p \in KeyParts : mem'[c] # Right(p, c)
    BY <2>1, <2>2, <2>3, RightApart, SpilledIsWrong
  <2>5. c \in BlockLen * (key_block + 1) .. BlockLen * (key_block + 1) + BlockLen - 1
    BY <1>1
  <2> QED
    BY <2>4, <2>5
<1>4. ASSUME NEW k \in 0 .. KeyBlocks - 1, k # key_block, k # key_block + 1
      PROVE  Whole(k) = WholeBlocks[k]
  <2>1. \A j \in BlockLen * k .. BlockLen * k + BlockLen - 1 : mem'[j] = mem[j]
    <3> SUFFICES ASSUME NEW j \in 16 * k .. 16 * k + 15 PROVE mem'[j] = mem[j]
      OBVIOUS
    <3>1. j \in Cells /\ (j < 16 * key_block \/ j >= 16 * key_block + 18)
      BY <1>1, <1>4, KeyBlocksAssumption
    <3> QED
      BY <1>1, <3>1, AnswerCells
  <2> QED
    BY <2>1 DEF WholeBlocks
<1>5. WholeBlocks' = [k \in 0 .. KeyBlocks - 1 |-> Whole(k)]
  BY DEF WholeBlocks
<1> HIDE DEF Whole
<1>6. ASSUME NEW k \in 0 .. KeyBlocks - 1
      PROVE  Whole(k) = IF k = key_block THEN (IF n = ReportLen THEN {key_part} ELSE {})
                        ELSE IF k = key_block + 1 THEN {} ELSE WholeBlocks[k]
  <2>1. CASE k = key_block
    BY <1>2, <2>1
  <2>2. CASE k = key_block + 1
    <3>1. k # key_block /\ key_block + 1 < KeyBlocks
      BY <1>1, <2>2, KeyBlocksAssumption
    <3> QED
      BY <1>3, <2>2, <3>1
  <2>3. CASE k # key_block /\ k # key_block + 1
    BY <1>4, <2>3
  <2> QED
    BY <2>1, <2>2, <2>3
<1> QED
  BY <1>5, <1>6

\* What NovinLib takes for granted of its blocks: a whole answer makes one block
\* whole, a short one leaves it garbled, and either spoils the block after it and
\* touches no other (NovinLib!StoreChunk).
THEOREM StoresChunkHolds == KeySpec => StoresChunk
<1>1. KeyInv /\ [KeyNext]_bufferVars =>
        [\A n \in AnswerLens : AnswerStored(n) =>
           WholeBlocks' = [k \in 0 .. KeyBlocks - 1 |->
                             IF k = key_block THEN (IF n = ReportLen THEN {key_part} ELSE {})
                             ELSE IF k = key_block + 1 THEN {} ELSE WholeBlocks[k]]]_bufferVars
  BY BlocksChange, AnswerLensAssumption
<1> QED
  BY <1>1, KeyInvHolds, PTL DEF KeySpec, StoresChunk

=============================================================================
