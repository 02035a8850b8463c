----------------------------- MODULE SerialText -----------------------------
(***************************************************************************)
(* _cnv_hex_to_decimal_serial (token-DLL/lib/novintools.c): the serial     *)
(* string of a token, as hidapi read it, becomes the four bytes that name  *)
(* the token in the table and key its packets.  A character is its code.   *)
(***************************************************************************)
EXTENDS Integers, Sequences

CONSTANTS
    Texts,         \* serial strings
    Leftovers      \* what the stack may hold behind a string

BufLen == 16       \* char ser[16]
Codes  == 0 .. 127

ASSUME TextsAssumption == Texts \subseteq Seq(Codes) /\ \A t \in Texts : Len(t) <= BufLen
ASSUME LeftoversAssumption == Leftovers \subseteq Codes

VARIABLES
    text,          \* the string
    ser,           \* the buffer, and the byte behind it
    pos,           \* the loop index
    spc,           \* "loop", "pack" or "done"
    dest           \* the four bytes

serialVars == <<text, ser, pos, spc, dest>>

\* wcstombs is given the length of the string, so it writes no terminator.
SerialInit ==
    /\ text \in Texts
    /\ \E c \in Leftovers :
          ser = [k \in 0 .. BufLen |-> IF k < Len(text) THEN text[k + 1] ELSE c]
    /\ pos = 0 /\ spc = "loop"
    /\ dest = [k \in 0 .. 3 |-> 0]

IsDigit(c) == c \in 48 .. 57
IsUpper(c) == c \in 65 .. 70
IsLower(c) == c \in 97 .. 102
IsHex(c)   == IsDigit(c) \/ IsUpper(c) \/ IsLower(c)

\* Small letters are counted from 'A'.
Fault_HexValue(c) ==
    IF IsDigit(c) THEN c - 48 ELSE IF IsUpper(c) THEN c - 65 + 10 ELSE c - 65 + 10

HexValue(c) ==
    IF IsDigit(c) THEN c - 48 ELSE IF IsUpper(c) THEN c - 65 + 10 ELSE c - 97 + 10

\* One round of the loop, which goes one character beyond the string and stops at
\* the first that is no digit.
ConvertChar ==
    /\ spc = "loop" /\ pos <= Len(text)
    /\ IF IsHex(ser[pos])
       THEN /\ ser' = [ser EXCEPT ![pos] = HexValue(ser[pos])]
            /\ pos' = pos + 1 /\ UNCHANGED spc
       ELSE spc' = "pack" /\ UNCHANGED <<ser, pos>>
    /\ UNCHANGED <<text, dest>>

LoopEnds ==
    /\ spc = "loop" /\ pos > Len(text)
    /\ spc' = "pack"
    /\ UNCHANGED <<text, ser, pos, dest>>

\* Two digits make a byte, whether they were converted or not.
Pack ==
    /\ spc = "pack" /\ spc' = "done"
    /\ dest' = [k \in 0 .. 3 |-> (16 * ser[2 * k] + ser[2 * k + 1]) % 256]
    /\ UNCHANGED <<text, ser, pos>>

SerialNext == ConvertChar \/ LoopEnds \/ Pack

SerialSpec == SerialInit /\ [][SerialNext]_serialVars

-----------------------------------------------------------------------------
(* Properties *)

HexUpTo(n) == \A k \in 1 .. n : IsHex(text[k])

\* The byte behind the buffer is changed only by a string of sixteen digits with a
\* seventeenth digit left on the stack (novintools.c:49).
SerialTypeOK ==
    /\ text \in Texts
    /\ ser \in [0 .. BufLen -> Codes] /\ pos \in 0 .. BufLen + 1
    /\ pos > BufLen => Len(text) = BufLen /\ HexUpTo(BufLen)
    /\ spc \in {"loop", "pack", "done"}
    /\ dest \in [0 .. 3 -> 0 .. 255]

\* What the buffer should hold for a character of the string: its value if it and
\* all before it are digits, its code if not.
Converted(k) == IF HexUpTo(k) THEN HexValue(text[k]) ELSE text[k]

\* The serial depends on the first eight characters of the string only, in either
\* case, if there are eight: not on what the stack held, which the loop reads.
\* Tokens that agree in these digits are one token for the library, and tokens
\* that differ in one of them are told apart.
FirstEight ==
    spc = "done" /\ Len(text) >= 8 =>
      /\ dest = [k \in 0 .. 3 |-> (16 * Converted(2 * k + 1) + Converted(2 * k + 2)) % 256]
      /\ HexUpTo(8) => \A k \in 0 .. 3 : /\ HexValue(text[2 * k + 1]) = dest[k] \div 16
                                        /\ HexValue(text[2 * k + 2]) = dest[k] % 16

=============================================================================
