----------------------------- MODULE KeyBuffer ------------------------------
(***************************************************************************)
(* The bytes of result[128] in _get_public_key and _get_private_key        *)
(* (token-DLL/lib/novintools.c): _send_packet has each answer written at    *)
(* result + 16 * key_index, decrypts it there and moves it two bytes down. *)
(* What NovinLib says of whole blocks is shown here byte by byte.          *)
(***************************************************************************)
EXTENDS Integers

CONSTANTS
    KeyBlocks,     \* blocks of a key part (8)
    AnswerLens     \* lengths a token's answer may have

BlockLen  == 16
ReportLen == 18    \* ReportLength[ReportID_GetLarge]

ASSUME KeyBlocksAssumption == KeyBlocks \in Nat \ {0}
ASSUME AnswerLensAssumption == AnswerLens \subseteq 0 .. ReportLen

KeyParts == {1, 2}         \* the first part read, then the exponent
KeyLen   == BlockLen * KeyBlocks
Cells    == 0 .. KeyLen + 3

\* A byte is known by where it belongs: part, block and place in the answer (0
\* is the error code, 1 to 16 the data).  Junk is everything else; Frame is what
\* the stack has behind the buffer.
Byte(p, k, a, e) == [part |-> p, block |-> k, at |-> a, enc |-> e]
Junk  == Byte(0, 0, 0, FALSE)
Frame == Byte(-1, 0, 0, FALSE)
Right(p, j) == Byte(p, j \div BlockLen, (j % BlockLen) + 1, FALSE)
CellValues ==
    {Junk, Frame} \cup [part : KeyParts, block : 0 .. KeyBlocks - 1,
                        at : 0 .. BlockLen, enc : BOOLEAN]

VARIABLES
    mem,           \* result[0 .. KeyLen - 1] and the four bytes behind it
    key_part,      \* the part being read, 0 outside the functions
    key_block,     \* key_index
    short,         \* history: an answer of this part was short
    copied         \* of each part: the bytes copied out, or none

bufferVars == <<mem, key_part, key_block, short, copied>>

\* The buffer as the stack left it, without a byte of this key.
Fresh == [c \in Cells |-> IF c < KeyLen THEN Junk ELSE Frame]

KeyInit ==
    /\ mem = Fresh
    /\ key_part = 0 /\ key_block = 0 /\ short = FALSE
    /\ copied = [p \in KeyParts |-> {}]

StartKey ==
    /\ key_part = 0
    /\ mem' = Fresh
    /\ key_part' = 1 /\ key_block' = 0 /\ short' = FALSE
    /\ copied' = [p \in KeyParts |-> {}]

\* The windows overlap too much.
Fault_Window(k) == 15 * k

Window(k) == 16 * k

\* hid_get_feature_report: the report id is there already, n bytes are written.
Received(m, k, n) ==
    LET w == Window(k)
    IN [c \in Cells |->
          IF c = w THEN Junk
          ELSE IF c > w /\ c < w + n THEN Byte(key_part, k, c - w - 1, TRUE)
          ELSE m[c]]

\* The last byte that byte o of an answer takes in when it is decrypted: the
\* first two stand alone, the others come in threes.
LastOf(o) == IF o < 3 THEN o ELSE o + 2 - (o % 3)

\* _decrypt_packet(result + 1): a byte comes out right if it and those it takes in
\* came with this answer.
Decrypted(m, k) ==
    LET w == Window(k)
    IN [c \in Cells |->
          IF c <= w \/ c >= w + ReportLen THEN m[c]
          ELSE IF \A b \in c .. w + LastOf(c - w) :
                    m[b] = Byte(key_part, k, b - w - 1, TRUE)
          THEN Byte(key_part, k, c - w - 1, FALSE) ELSE Junk]

\* Only the report id is dropped.
Fault_MovedByOne(m, k) ==
    [c \in Cells |-> IF c >= Window(k) /\ c < Window(k) + ReportLen THEN m[c + 1] ELSE m[c]]

\* memmove(result, result + 2, 18): two bytes more than the data.
Moved(m, k) ==
    [c \in Cells |-> IF c >= Window(k) /\ c < Window(k) + ReportLen THEN m[c + 2] ELSE m[c]]

After(n) == Moved(Decrypted(Received(mem, key_block, n), key_block), key_block)

\* The two loops.
Advance ==
    IF key_block + 1 < KeyBlocks
    THEN key_block' = key_block + 1 /\ UNCHANGED key_part
    ELSE key_block' = 0 /\ key_part' = (key_part + 1) % 3

\* _send_packet with an answer of n bytes and code 128: only a negative length is
\* an error.  After the last block of a part the buffer is copied out.
AnswerStored(n) ==
    /\ key_part # 0
    /\ mem' = After(n)
    /\ short' = IF key_block = 0 THEN n < ReportLen ELSE short \/ n < ReportLen
    /\ copied' = IF key_block + 1 = KeyBlocks
                 THEN [copied EXCEPT ![key_part] =
                         {[bytes |-> [j \in 0 .. KeyLen - 1 |-> After(n)[j]], short |-> short']}]
                 ELSE copied
    /\ Advance

\* An error, of the transfer or in the code: the function returns.
PacketFails ==
    /\ key_part # 0
    /\ key_part' = 0 /\ key_block' = 0
    /\ UNCHANGED <<mem, short, copied>>

KeyNext == StartKey \/ (\E n \in AnswerLens : AnswerStored(n)) \/ PacketFails

KeySpec == KeyInit /\ [][KeyNext]_bufferVars

-----------------------------------------------------------------------------
(* Properties *)

\* The last window reaches beyond result[128], and two bytes there are lost; the
\* two behind them, which memmove reads, are kept.
KeyTypeOK ==
    /\ mem \in [Cells -> CellValues]
    /\ \A c \in {KeyLen + 2, KeyLen + 3} : mem[c] = Frame
    /\ key_part \in {0} \cup KeyParts /\ key_block \in 0 .. KeyBlocks - 1
    /\ short \in BOOLEAN
    /\ \A p \in KeyParts : \A r \in copied[p] : r.short \in BOOLEAN

\* The windows overlap and each move spills two bytes into the next block, and
\* still a part copied after whole answers has all its bytes in their places
\* (novintools.c:308, 334).  After a short answer, which is not an error for
\* _send_packet, the bytes that are not right are garbled: no byte of another
\* place, of the other part or from behind the buffer is taken for one of the key.
BytesInPlace ==
    \A p \in KeyParts : \A r \in copied[p] : \A j \in 0 .. KeyLen - 1 :
       /\ ~r.short => r.bytes[j] = Right(p, j)
       /\ r.bytes[j] \in {Right(p, j), Junk}

\* The whole blocks of the buffer, by their part.
WholeBlocks ==
    [k \in 0 .. KeyBlocks - 1 |->
       {p \in KeyParts : \A j \in BlockLen * k .. BlockLen * k + BlockLen - 1 : mem[j] = Right(p, j)}]

\* Seen by blocks the buffer changes as NovinLib!StoreChunk says: an answer makes
\* its block whole if it came whole, and no whole block if it was short; it spoils
\* the next one and touches no other.
StoresChunk ==
    [][\A n \in AnswerLens : AnswerStored(n) =>
         WholeBlocks' = [k \in 0 .. KeyBlocks - 1 |->
                           IF k = key_block THEN (IF n = ReportLen THEN {key_part} ELSE {})
                           ELSE IF k = key_block + 1 THEN {} ELSE WholeBlocks[k]]]_bufferVars

=============================================================================
