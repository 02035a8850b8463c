---------------------------- MODULE PacketCodec -----------------------------
(***************************************************************************)
(* The packet cipher (token-DLL/lib/novintools.c): a packet is encrypted   *)
(* in place with the four bytes of a serial before it is sent, a report is *)
(* decrypted in place when it comes back.  Both only exclusive-or whole    *)
(* bytes, so the eight bits of a byte never meet: one bit of every byte    *)
(* shows all there is, and a byte is a BOOLEAN here.                       *)
(***************************************************************************)
EXTENDS Integers, Sequences

CONSTANTS Packets      \* the packets that are tried

Size == 38             \* bytes after the report id, all of them encrypted
PacketBytes == [0 .. Size - 1 -> BOOLEAN]
Serial == [0 .. 3 -> BOOLEAN]

ASSUME PacketsAssumption == Packets \subseteq PacketBytes

Xor(a, b) == a # b

\* SecretIndex[SecretAt[i]] selects the byte of the serial for block i, by a
\* formula whose last term, Offset, differs from block to block.
SecretIndex ==
    <<1, 3, 1, 6, 2, 3, 4, 4, 5, 6, 7, 8, 9, 8, 7, 7, 6, 5, 4, 3, 2, 1, 0, 1, 2, 3,
      4, 5, 6, 7, 8, 9, 7, 9, 1, 11, 2, 3, 4, 11, 5, 6, 7, 8, 9, 0, 1, 11, 2, 3, 4,
      5, 6, 7, 8, 9, 0, 1, 2, 3, 4, 5, 6, 14>>
SecretAt == <<0, 1, 3, 7, 15, 31, 32, 33, 35, 39, 47, 63>>
Fault_Offset == <<1, 2, 3, 1, 3, 4, 1, 2, 3, 2, 1, 3>>
Offset == <<1, 2, 4, 1, 3, 4, 1, 2, 3, 2, 1, 3>>

\* The breaks of the switch are missing: the last case counts.
Fault_KeyByte(n) == (SecretIndex[SecretAt[12] + 1] - 12) * 2 + 1 - Offset[12]

KeyByte(n) == (SecretIndex[SecretAt[n + 1] + 1] - (n + 1)) * 2 + 1 - Offset[n + 1]

\* ReportLength: bytes of each report, its id included.
ReportLength == [GetSmall |-> 3, GetLarge |-> 18, GetRSAKEY |-> 27]

EncryptedBlocks == 12
DecryptedBlocks == 5

-----------------------------------------------------------------------------
VARIABLES
    packet,     \* what was to be sent
    serial,     \* the serial it is encrypted for
    buff,       \* the buffer both functions work in
    i,          \* the loop index
    pc          \* "encrypt", "sent", "decrypt", "done"

codecVars == <<packet, serial, buff, i, pc>>

\* The first two bytes are combined with the serial outside the loop.
EncryptHead(b, s) ==
    [b EXCEPT ![0] = Xor(@, ~Xor(s[2], s[3])), ![1] = Xor(@, Xor(s[0], s[1]))]

DecryptHead(b, s) ==
    [b EXCEPT ![0] = Xor(@, ~Xor(s[0], s[2])), ![1] = Xor(@, ~Xor(s[1], s[3]))]

\* The key is taken in before the neighbours are.
Fault_EncryptBlock(b, s, n) ==
    LET k == 3 * n + 2
        last == Xor(b[k + 2], ~s[KeyByte(n)])
        mid == Xor(b[k + 1], last)
    IN [b EXCEPT ![k] = Xor(@, mid), ![k + 1] = mid, ![k + 2] = last]

\* Block n: each byte takes in the one after it, the last the key.
EncryptBlock(b, s, n) ==
    LET k == 3 * n + 2
    IN [b EXCEPT ![k] = Xor(@, b[k + 1]), ![k + 1] = Xor(@, b[k + 2]),
                 ![k + 2] = Xor(@, ~s[KeyByte(n)])]

\* Decryption works forwards too.
Fault_DecryptBlock(b, s, n) == EncryptBlock(b, s, n)

\* In decryption the key goes first and each byte takes in the new next one.
DecryptBlock(b, s, n) ==
    LET k == 3 * n + 2
        last == Xor(b[k + 2], ~s[KeyByte(n)])
        mid == Xor(b[k + 1], last)
    IN [b EXCEPT ![k] = Xor(@, mid), ![k + 1] = mid, ![k + 2] = last]

CodecInit ==
    /\ packet \in Packets /\ serial \in Serial
    /\ buff = EncryptHead(packet, serial)
    /\ i = 0 /\ pc = "encrypt"

\* One round of the loop of _encrypt_packet.
EncryptRound ==
    /\ pc = "encrypt"
    /\ buff' = EncryptBlock(buff, serial, i)
    /\ i' = i + 1
    /\ pc' = IF i' = EncryptedBlocks THEN "sent" ELSE pc
    /\ UNCHANGED <<packet, serial>>

\* The other side echoes the packet: _decrypt_packet begins.
Echo ==
    /\ pc = "sent"
    /\ buff' = DecryptHead(buff, serial)
    /\ i' = 0 /\ pc' = "decrypt"
    /\ UNCHANGED <<packet, serial>>

DecryptRound ==
    /\ pc = "decrypt"
    /\ buff' = DecryptBlock(buff, serial, i)
    /\ i' = i + 1
    /\ pc' = IF i' = DecryptedBlocks THEN "done" ELSE pc
    /\ UNCHANGED <<packet, serial>>

CodecNext == EncryptRound \/ Echo \/ DecryptRound

CodecSpec == CodecInit /\ [][CodecNext]_codecVars

-----------------------------------------------------------------------------
(* What the loops compute *)

Block(k) == (k - 2) \div 3
Place(k) == (k - 2) % 3

\* Byte k of an encrypted packet.
Encrypted(b, s, k) ==
    CASE k = 0 -> Xor(b[0], ~Xor(s[2], s[3]))
      [] k = 1 -> Xor(b[1], Xor(s[0], s[1]))
      [] k > 1 /\ Place(k) < 2 -> Xor(b[k], b[k + 1])
      [] k > 1 /\ Place(k) = 2 -> Xor(b[k], ~s[KeyByte(Block(k))])

\* Bytes of a packet that go over the wire, for a report of this length.
OnWire(report) == 0 .. ReportLength[report] - 2

\* Two tokens read the same bytes for a packet.
SameOnWire(report, s, t) ==
    \A k \in OnWire(report) : Encrypted(packet, s, k) = Encrypted(packet, t, k)

(* Properties *)

\* The last conjunct: no block reads outside the serial.
CodecTypeOK ==
    /\ packet \in PacketBytes /\ serial \in Serial /\ buff \in PacketBytes
    /\ i \in 0 .. EncryptedBlocks
    /\ pc \in {"encrypt", "sent", "decrypt", "done"}
    /\ pc \in {"encrypt", "decrypt"} => KeyByte(i) \in 0 .. 3

\* The loop of _encrypt_packet computes its closed form, although it works in
\* place and each round reads bytes the round changes.
LoopEncrypts == pc = "sent" => \A k \in 0 .. Size - 1 : buff[k] = Encrypted(packet, serial, k)

\* _decrypt_packet undoes _encrypt_packet in the data bytes of its five blocks.
RoundTrip == pc = "done" => \A k \in 2 .. 3 * DecryptedBlocks + 1 : buff[k] = packet[k]

\* A request for a key block is keyed by the whole serial: no other token than
\* the selected one takes the bytes for the same request (novintools.c:262).  A
\* status request is three bytes long, two of them encrypted, and is not.
RequestKeyed == \A t \in Serial : SameOnWire("GetRSAKEY", serial, t) => t = serial

=============================================================================
