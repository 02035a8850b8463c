-------------------------- MODULE PacketCodecProofs --------------------------
(***************************************************************************)
(* What TLAPS proves of PacketCodec, for all packets: the closed form of   *)
(* _encrypt_packet, that _decrypt_packet undoes it, and which tokens tell  *)
(* a request apart.                                                        *)
(***************************************************************************)
EXTENDS PacketCodec, TLAPS

-----------------------------------------------------------------------------
(* The bytes of the serial and of the blocks *)

\* The byte of the serial that keys each block.
LEMMA KeyBytes ==
  /\ KeyByte(0) = 0 /\ KeyByte(1) = 1 /\ KeyByte(2) = 3 /\ KeyByte(3) = 0
  /\ KeyByte(4) = 2 /\ KeyByte(5) = 3 /\ KeyByte(6) = 0 /\ KeyByte(7) = 1
  /\ KeyByte(8) = 2 /\ KeyByte(9) = 1 /\ KeyByte(10) = 0 /\ KeyByte(11) = 2
<1>1. /\ SecretAt[1] = 0 /\ SecretAt[2] = 1 /\ SecretAt[3] = 3 /\ SecretAt[4] = 7
      /\ SecretAt[5] = 15 /\ SecretAt[6] = 31 /\ SecretAt[7] = 32 /\ SecretAt[8] = 33
      /\ SecretAt[9] = 35 /\ SecretAt[10] = 39 /\ SecretAt[11] = 47 /\ SecretAt[12] = 63
  BY DEF SecretAt
<1>2. /\ Offset[1] = 1 /\ Offset[2] = 2 /\ Offset[3] = 4 /\ Offset[4] = 1
      /\ Offset[5] = 3 /\ Offset[6] = 4 /\ Offset[7] = 1 /\ Offset[8] = 2
      /\ Offset[9] = 3 /\ Offset[10] = 2 /\ Offset[11] = 1 /\ Offset[12] = 3
  BY DEF Offset
<1>3. /\ SecretIndex[1] = 1 /\ SecretIndex[2] = 3 /\ SecretIndex[4] = 6
      /\ SecretIndex[8] = 4 /\ SecretIndex[16] = 7 /\ SecretIndex[32] = 9
      /\ SecretIndex[33] = 7 /\ SecretIndex[34] = 9 /\ SecretIndex[36] = 11
      /\ SecretIndex[40] = 11 /\ SecretIndex[48] = 11 /\ SecretIndex[64] = 14
  BY DEF SecretIndex
<1> QED
  BY <1>1, <1>2, <1>3 DEF KeyByte

LEMMA KeyByteIn == \A n \in 0 .. 11 : KeyByte(n) \in 0 .. 3
<1> SUFFICES ASSUME NEW n \in 0 .. 11 PROVE KeyByte(n) \in 0 .. 3
  OBVIOUS
<1>1. n \in {0, 1, 2, 3, 4, 5, 6, 7, 8, 9, 10, 11}
  OBVIOUS
<1> QED
  BY <1>1, KeyBytes

LEMMA XorIs ==
  ASSUME NEW a \in BOOLEAN, NEW b \in BOOLEAN
  PROVE  Xor(a, b) \in BOOLEAN /\ Xor(Xor(a, b), b) = a
BY DEF Xor

LEMMA XorTells ==
  ASSUME NEW a \in BOOLEAN, NEW b \in BOOLEAN, NEW c \in BOOLEAN, Xor(a, ~b) = Xor(a, ~c)
  PROVE  b = c
BY DEF Xor

KeyBit(s, n) == ~s[KeyByte(n)]

LEMMA KeyIs == ASSUME NEW s \in Serial, NEW n \in 0 .. 11 PROVE KeyBit(s, n) \in BOOLEAN
BY DEF KeyBit

Places == 0 .. 37

LEMMA Bits ==
  /\ PacketBytes = [Places -> BOOLEAN]
  /\ \A b \in PacketBytes, k \in Places : b[k] \in BOOLEAN
  /\ \A s \in Serial, j \in 0 .. 3 : s[j] \in BOOLEAN
BY DEF PacketBytes, Size, Places, Serial

\* The three bytes of block n.
LEMMA BlockCells ==
  ASSUME NEW n \in 0 .. 11
  PROVE  /\ 3 * n + 2 \in 2 .. 37 /\ 3 * n + 3 \in 2 .. 37 /\ 3 * n + 4 \in 2 .. 37
         /\ Place(3 * n + 2) = 0 /\ Place(3 * n + 3) = 1 /\ Place(3 * n + 4) = 2
         /\ Block(3 * n + 4) = n
BY DEF Place, Block

LEMMA EncryptedCells ==
  ASSUME NEW b \in PacketBytes, NEW s \in Serial, NEW n \in 0 .. 11
  PROVE  /\ Encrypted(b, s, 3 * n + 2) = Xor(b[3 * n + 2], b[3 * n + 3])
         /\ Encrypted(b, s, 3 * n + 3) = Xor(b[3 * n + 3], b[3 * n + 4])
         /\ Encrypted(b, s, 3 * n + 4) = Xor(b[3 * n + 4], KeyBit(s, n))
<1>1. /\ 3 * n + 2 \in 2 .. 37 /\ 3 * n + 3 \in 2 .. 37 /\ 3 * n + 4 \in 2 .. 37
      /\ Place(3 * n + 2) = 0 /\ Place(3 * n + 3) = 1 /\ Place(3 * n + 4) = 2
      /\ Block(3 * n + 4) = n
  BY BlockCells
<1>2. ASSUME NEW k \in 2 .. 37, Place(k) \in {0, 1}
      PROVE  Encrypted(b, s, k) = Xor(b[k], b[k + 1])
  BY <1>2 DEF Encrypted
<1>3. ASSUME NEW k \in 2 .. 37, Place(k) = 2
      PROVE  Encrypted(b, s, k) = Xor(b[k], ~s[KeyByte(Block(k))])
  BY <1>3 DEF Encrypted
<1>4. Encrypted(b, s, 3 * n + 2) = Xor(b[3 * n + 2], b[(3 * n + 2) + 1])
  BY <1>1, <1>2
<1>5. Encrypted(b, s, 3 * n + 3) = Xor(b[3 * n + 3], b[(3 * n + 3) + 1])
  BY <1>1, <1>2
<1>6. Encrypted(b, s, 3 * n + 4) = Xor(b[3 * n + 4], ~s[KeyByte(Block(3 * n + 4))])
  BY <1>1, <1>3
<1>7. (3 * n + 2) + 1 = 3 * n + 3 /\ (3 * n + 3) + 1 = 3 * n + 4
  OBVIOUS
<1> QED
  BY <1>1, <1>4, <1>5, <1>6, <1>7 DEF KeyBit

\* A round of _encrypt_packet encrypts its block and leaves the others.
LEMMA EncryptBlockIs ==
  ASSUME NEW b \in PacketBytes, NEW s \in Serial, NEW n \in 0 .. 11
  PROVE  /\ EncryptBlock(b, s, n) \in PacketBytes
         /\ \A k \in {3 * n + 2, 3 * n + 3, 3 * n + 4} :
               EncryptBlock(b, s, n)[k] = Encrypted(b, s, k)
         /\ \A k \in Places : k \notin 3 * n + 2 .. 3 * n + 4 => EncryptBlock(b, s, n)[k] = b[k]
<1> DEFINE k0 == 3 * n + 2
           k1 == 3 * n + 3
           k2 == 3 * n + 4
           e == EncryptBlock(b, s, n)
<1>1. k0 \in Places /\ k1 \in Places /\ k2 \in Places /\ k0 # k1 /\ k0 # k2 /\ k1 # k2
  BY DEF Places
<1>2. k0 + 1 = k1 /\ k0 + 2 = k2 /\ k0 = 3 * n + 2
  OBVIOUS
<1>3. \A k \in Int : k \notin 3 * n + 2 .. 3 * n + 4 <=> k \notin {k0, k1, k2}
  OBVIOUS
<1>4. b \in [Places -> BOOLEAN] /\ KeyBit(s, n) \in BOOLEAN
  BY Bits, KeyIs
<1>5. e = [b EXCEPT ![k0] = Xor(@, b[k0 + 1]), ![k0 + 1] = Xor(@, b[k0 + 2]),
                    ![k0 + 2] = Xor(@, KeyBit(s, n))]
  BY DEF EncryptBlock, KeyBit
<1>6. /\ Encrypted(b, s, k0) = Xor(b[k0], b[k1])
      /\ Encrypted(b, s, k1) = Xor(b[k1], b[k2])
      /\ Encrypted(b, s, k2) = Xor(b[k2], KeyBit(s, n))
  BY EncryptedCells
<1>7. \A k \in Places : k \in Int
  BY DEF Places
<1> HIDE DEF k0, k1, k2, e
<1>8. e = [b EXCEPT ![k0] = Xor(@, b[k1]), ![k1] = Xor(@, b[k2]), ![k2] = Xor(@, KeyBit(s, n))]
  BY <1>2, <1>5
<1>9. /\ Xor(b[k0], b[k1]) \in BOOLEAN /\ Xor(b[k1], b[k2]) \in BOOLEAN
      /\ Xor(b[k2], KeyBit(s, n)) \in BOOLEAN
  BY <1>1, <1>4, XorIs
<1>10. /\ e[k0] = Xor(b[k0], b[k1]) /\ e[k1] = Xor(b[k1], b[k2])
       /\ e[k2] = Xor(b[k2], KeyBit(s, n))
       /\ \A k \in Places : k \notin {k0, k1, k2} => e[k] = b[k]
  BY <1>1, <1>4, <1>8
<1>11. e \in [Places -> BOOLEAN]
  BY <1>1, <1>4, <1>8, <1>9
<1>12. \A k \in {k0, k1, k2} : e[k] = Encrypted(b, s, k)
  BY <1>6, <1>10
<1>13. \A k \in Places : k \notin 3 * n + 2 .. 3 * n + 4 => e[k] = b[k]
  BY <1>3, <1>7, <1>10
<1> QED
  BY <1>11, <1>12, <1>13, Bits DEF e, k0, k1, k2

\* A round of _decrypt_packet undoes it.
LEMMA DecryptBlockIs ==
  ASSUME NEW b \in PacketBytes, NEW p \in PacketBytes, NEW s \in Serial, NEW n \in 0 .. 11,
         \A k \in {3 * n + 2, 3 * n + 3, 3 * n + 4} : b[k] = Encrypted(p, s, k)
  PROVE  /\ DecryptBlock(b, s, n) \in PacketBytes
         /\ \A k \in {3 * n + 2, 3 * n + 3, 3 * n + 4} : DecryptBlock(b, s, n)[k] = p[k]
         /\ \A k \in Places : k \notin 3 * n + 2 .. 3 * n + 4 => DecryptBlock(b, s, n)[k] = b[k]
<1> DEFINE k0 == 3 * n + 2
           k1 == 3 * n + 3
           k2 == 3 * n + 4
           d == DecryptBlock(b, s, n)
           last == Xor(b[k2], KeyBit(s, n))
           mid == Xor(b[k1], last)
<1>1. k0 \in Places /\ k1 \in Places /\ k2 \in Places /\ k0 # k1 /\ k0 # k2 /\ k1 # k2
  BY DEF Places
<1>2. k0 + 1 = k1 /\ k0 + 2 = k2 /\ k0 = 3 * n + 2
  OBVIOUS
<1>3. \A k \in Int : k \notin 3 * n + 2 .. 3 * n + 4 <=> k \notin {k0, k1, k2}
  OBVIOUS
<1>4. b \in [Places -> BOOLEAN] /\ p \in [Places -> BOOLEAN] /\ KeyBit(s, n) \in BOOLEAN
  BY Bits, KeyIs
<1>5. d = [b EXCEPT ![k0] = Xor(@, Xor(b[k0 + 1], Xor(b[k0 + 2], KeyBit(s, n)))),
                    ![k0 + 1] = Xor(b[k0 + 1], Xor(b[k0 + 2], KeyBit(s, n))),
                    ![k0 + 2] = Xor(b[k0 + 2], KeyBit(s, n))]
  BY DEF DecryptBlock, KeyBit
<1>6. /\ b[k0] = Xor(p[k0], p[k1]) /\ b[k1] = Xor(p[k1], p[k2])
      /\ b[k2] = Xor(p[k2], KeyBit(s, n))
  BY EncryptedCells
<1>7. \A k \in Places : k \in Int
  BY DEF Places
<1> HIDE DEF k0, k1, k2, d
<1>8. d = [b EXCEPT ![k0] = Xor(@, mid), ![k1] = mid, ![k2] = last]
  BY <1>2, <1>5
<1>9. p[k0] \in BOOLEAN /\ p[k1] \in BOOLEAN /\ p[k2] \in BOOLEAN
  BY <1>1, <1>4
<1>10. last = p[k2]
  BY <1>4, <1>6, <1>9, XorIs
<1>11. mid = p[k1]
  BY <1>6, <1>9, <1>10, XorIs
<1> HIDE DEF last, mid
<1>12. Xor(b[k0], mid) = p[k0]
  BY <1>6, <1>9, <1>11, XorIs
<1>13. d = [b EXCEPT ![k0] = p[k0], ![k1] = p[k1], ![k2] = p[k2]]
  <2>1. d = [b EXCEPT ![k0] = Xor(b[k0], mid), ![k1] = mid, ![k2] = last]
    BY <1>8
  <2> QED
    BY <1>10, <1>11, <1>12, <2>1
<1>14. /\ d[k0] = p[k0] /\ d[k1] = p[k1] /\ d[k2] = p[k2]
       /\ \A k \in Places : k \notin {k0, k1, k2} => d[k] = b[k]
  BY <1>1, <1>4, <1>13
<1>15. d \in [Places -> BOOLEAN]
  BY <1>1, <1>4, <1>9, <1>13
<1>16. \A k \in Places : k \notin 3 * n + 2 .. 3 * n + 4 => d[k] = b[k]
  BY <1>3, <1>7, <1>14
<1> QED
  BY <1>14, <1>15, <1>16, Bits DEF d, k0, k1, k2

\* Bytes 0 and 1 are combined with the serial, before and after.
LEMMA HeadIs ==
  ASSUME NEW b \in PacketBytes, NEW s \in Serial
  PROVE  /\ EncryptHead(b, s) \in PacketBytes
         /\ EncryptHead(b, s)[0] = Encrypted(b, s, 0)
         /\ EncryptHead(b, s)[1] = Encrypted(b, s, 1)
         /\ \A k \in 2 .. 37 : EncryptHead(b, s)[k] = b[k]
         /\ DecryptHead(b, s) \in PacketBytes
         /\ \A k \in 2 .. 37 : DecryptHead(b, s)[k] = b[k]
<1> DEFINE x == Xor(b[0], ~Xor(s[2], s[3]))
           y == Xor(b[1], Xor(s[0], s[1]))
           z == Xor(b[0], ~Xor(s[0], s[2]))
           w == Xor(b[1], ~Xor(s[1], s[3]))
<1>1. EncryptHead(b, s) = [b EXCEPT ![0] = x, ![1] = y]
  BY DEF EncryptHead
<1>2. DecryptHead(b, s) = [b EXCEPT ![0] = z, ![1] = w]
  BY DEF DecryptHead
<1>3. x \in BOOLEAN /\ y \in BOOLEAN /\ z \in BOOLEAN /\ w \in BOOLEAN
  BY DEF Xor
<1>4. Encrypted(b, s, 0) = x /\ Encrypted(b, s, 1) = y
  BY DEF Encrypted
<1>5. b \in [Places -> BOOLEAN] /\ 0 \in Places /\ 1 \in Places /\ 2 .. 37 \subseteq Places
  BY Bits DEF Places
<1> HIDE DEF x, y, z, w
<1> QED
  BY <1>1, <1>2, <1>3, <1>4, <1>5, Bits

-----------------------------------------------------------------------------
(* The inductive invariant *)

\* The blocks below i are encrypted, those from i on are as they were.
Encrypting ==
    /\ i \in 0 .. 11
    /\ \A k \in Places : buff[k] = IF k < 3 * i + 2 THEN Encrypted(packet, serial, k)
                                  ELSE packet[k]

\* The blocks below i are decrypted, those from i on are not yet.
Decrypting ==
    /\ i \in 0 .. 4
    /\ \A k \in 2 .. 37 : buff[k] = IF k < 3 * i + 2 THEN packet[k]
                                    ELSE Encrypted(packet, serial, k)

CodecInv ==
    /\ packet \in PacketBytes /\ serial \in Serial /\ buff \in PacketBytes
    /\ pc \in {"encrypt", "sent", "decrypt", "done"}
    /\ pc = "encrypt" => Encrypting
    /\ pc = "sent" => i = 12 /\ \A k \in Places : buff[k] = Encrypted(packet, serial, k)
    /\ pc = "decrypt" => Decrypting
    /\ pc = "done" => i = 5 /\ \A k \in 2 .. 16 : buff[k] = packet[k]

LEMMA CodecStart == CodecInit => CodecInv
<1> SUFFICES ASSUME CodecInit PROVE CodecInv
  OBVIOUS
<1>1. packet \in PacketBytes /\ serial \in Serial /\ i = 0 /\ pc = "encrypt"
  BY PacketsAssumption DEF CodecInit
<1>2. buff = EncryptHead(packet, serial)
  BY DEF CodecInit
<1>3. /\ buff \in PacketBytes
      /\ buff[0] = Encrypted(packet, serial, 0) /\ buff[1] = Encrypted(packet, serial, 1)
      /\ \A k \in 2 .. 37 : buff[k] = packet[k]
  BY <1>1, <1>2, HeadIs
<1>4. ASSUME NEW k \in Places
      PROVE  buff[k] = IF k < 3 * i + 2 THEN Encrypted(packet, serial, k) ELSE packet[k]
  <2>1. CASE k = 0
    BY <1>1, <1>3, <2>1
  <2>2. CASE k = 1
    BY <1>1, <1>3, <2>2
  <2>3. CASE k \in 2 .. 37
    BY <1>1, <1>3, <2>3
  <2> QED
    BY <2>1, <2>2, <2>3 DEF Places
<1> QED
  BY <1>1, <1>3, <1>4 DEF CodecInv, Encrypting

\* Encryption of a block looks at that block only.
LEMMA SameBlock ==
  ASSUME NEW b \in PacketBytes, NEW p \in PacketBytes, NEW s \in Serial, NEW n \in 0 .. 11,
         \A k \in 3 * n + 2 .. 3 * n + 4 : b[k] = p[k],
         NEW k \in {3 * n + 2, 3 * n + 3, 3 * n + 4}
  PROVE  Encrypted(b, s, k) = Encrypted(p, s, k)
<1>1. /\ b[3 * n + 2] = p[3 * n + 2] /\ b[3 * n + 3] = p[3 * n + 3]
      /\ b[3 * n + 4] = p[3 * n + 4]
  OBVIOUS
<1> QED
  BY <1>1, EncryptedCells

LEMMA CodecStep == CodecInv /\ [CodecNext]_codecVars => CodecInv'
<1> SUFFICES ASSUME CodecInv, [CodecNext]_codecVars PROVE CodecInv'
  OBVIOUS
<1>1. packet \in PacketBytes /\ serial \in Serial /\ buff \in PacketBytes
  BY DEF CodecInv
<1>2. CASE EncryptRound
  <2>1. /\ i \in 0 .. 11 /\ buff' = EncryptBlock(buff, serial, i) /\ i' = i + 1
        /\ UNCHANGED <<packet, serial>>
        /\ pc' = IF i' = 12 THEN "sent" ELSE "encrypt"
    BY <1>2 DEF EncryptRound, EncryptedBlocks, CodecInv, Encrypting
  <2>2. \A k \in Places :
          buff[k] = IF k < 3 * i + 2 THEN Encrypted(packet, serial, k) ELSE packet[k]
    BY <1>2 DEF EncryptRound, CodecInv, Encrypting
  <2>3. /\ buff' \in PacketBytes
        /\ \A k \in {3 * i + 2, 3 * i + 3, 3 * i + 4} : buff'[k] = Encrypted(buff, serial, k)
        /\ \A k \in Places : k \notin 3 * i + 2 .. 3 * i + 4 => buff'[k] = buff[k]
    BY <1>1, <2>1, EncryptBlockIs
  <2>4. \A k \in 3 * i + 2 .. 3 * i + 4 : buff[k] = packet[k]
    BY <2>1, <2>2 DEF Places
  <2>5. \A k \in {3 * i + 2, 3 * i + 3, 3 * i + 4} :
          Encrypted(buff, serial, k) = Encrypted(packet, serial, k)
    BY <1>1, <2>1, <2>4, SameBlock
  <2>6. ASSUME NEW k \in Places
        PROVE  buff'[k] = IF k < 3 * i' + 2 THEN Encrypted(packet, serial, k) ELSE packet[k]
    <3>1. CASE k \in 3 * i + 2 .. 3 * i + 4
      <4>1. k \in {3 * i + 2, 3 * i + 3, 3 * i + 4} /\ k < 3 * i' + 2
        BY <2>1, <3>1
      <4> QED
        BY <2>3, <2>5, <4>1
    <3>2. CASE k \notin 3 * i + 2 .. 3 * i + 4
      <4>1. buff'[k] = buff[k]
        BY <2>3, <3>2
      <4>2. k < 3 * i' + 2 <=> k < 3 * i + 2
        BY <2>1, <3>2 DEF Places
      <4> QED
        BY <2>2, <4>1, <4>2
    <3> QED
      BY <3>1, <3>2
  <2>7. CASE i = 11
    <3>1. pc' = "sent" /\ i' = 12
      BY <2>1, <2>7
    <3>2. \A k \in Places : buff'[k] = Encrypted(packet, serial, k)
      BY <2>6, <3>1 DEF Places
    <3> QED
      BY <1>1, <2>1, <2>3, <3>1, <3>2 DEF CodecInv
  <2>8. CASE i # 11
    <3>1. pc' = "encrypt" /\ i' \in 0 .. 11
      BY <2>1, <2>8
    <3> QED
      BY <1>1, <2>1, <2>3, <2>6, <3>1 DEF CodecInv, Encrypting
  <2> QED
    BY <2>7, <2>8
<1>3. CASE Echo
  <2>1. /\ buff' = DecryptHead(buff, serial) /\ i' = 0 /\ pc' = "decrypt"
        /\ UNCHANGED <<packet, serial>>
        /\ \A k \in Places : buff[k] = Encrypted(packet, serial, k)
    BY <1>3 DEF Echo, CodecInv
  <2>2. buff' \in PacketBytes /\ \A k \in 2 .. 37 : buff'[k] = buff[k]
    BY <1>1, <2>1, HeadIs
  <2>3. \A k \in 2 .. 37 : buff'[k] = IF k < 3 * i' + 2 THEN packet[k]
                                      ELSE Encrypted(packet, serial, k)
    BY <2>1, <2>2 DEF Places
  <2> QED
    BY <1>1, <2>1, <2>2, <2>3 DEF CodecInv, Decrypting
<1>4. CASE DecryptRound
  <2>1. /\ i \in 0 .. 4 /\ buff' = DecryptBlock(buff, serial, i) /\ i' = i + 1
        /\ UNCHANGED <<packet, serial>>
        /\ pc' = IF i' = 5 THEN "done" ELSE "decrypt"
    BY <1>4 DEF DecryptRound, DecryptedBlocks, CodecInv, Decrypting
  <2>2. \A k \in 2 .. 37 :
          buff[k] = IF k < 3 * i + 2 THEN packet[k] ELSE Encrypted(packet, serial, k)
    BY <1>4 DEF DecryptRound, CodecInv, Decrypting
  <2>3. \A k \in {3 * i + 2, 3 * i + 3, 3 * i + 4} : buff[k] = Encrypted(packet, serial, k)
    BY <2>1, <2>2
  <2>4. /\ buff' \in PacketBytes
        /\ \A k \in {3 * i + 2, 3 * i + 3, 3 * i + 4} : buff'[k] = packet[k]
        /\ \A k \in Places : k \notin 3 * i + 2 .. 3 * i + 4 => buff'[k] = buff[k]
    <3>1. i \in 0 .. 11
      BY <2>1
    <3> QED
      BY <1>1, <2>1, <2>3, <3>1, DecryptBlockIs
  <2>5. ASSUME NEW k \in 2 .. 37
        PROVE  buff'[k] = IF k < 3 * i' + 2 THEN packet[k] ELSE Encrypted(packet, serial, k)
    <3>1. CASE k \in 3 * i + 2 .. 3 * i + 4
      <4>1. k \in {3 * i + 2, 3 * i + 3, 3 * i + 4} /\ k < 3 * i' + 2
        BY <2>1, <3>1
      <4> QED
        BY <2>4, <4>1
    <3>2. CASE k \notin 3 * i + 2 .. 3 * i + 4
      <4>1. buff'[k] = buff[k]
        BY <2>4, <3>2 DEF Places
      <4>2. k < 3 * i' + 2 <=> k < 3 * i + 2
        BY <2>1, <3>2
      <4> QED
        BY <2>2, <4>1, <4>2
    <3> QED
      BY <3>1, <3>2
  <2>6. CASE i = 4
    <3>1. pc' = "done" /\ i' = 5
      BY <2>1, <2>6
    <3>2. \A k \in 2 .. 16 : buff'[k] = packet[k]
      BY <2>5, <3>1
    <3> QED
      BY <1>1, <2>1, <2>4, <3>1, <3>2 DEF CodecInv
  <2>7. CASE i # 4
    <3>1. pc' = "decrypt" /\ i' \in 0 .. 4
      BY <2>1, <2>7
    <3> QED
      BY <1>1, <2>1, <2>4, <2>5, <3>1 DEF CodecInv, Decrypting
  <2> QED
    BY <2>6, <2>7
<1>5. CASE UNCHANGED codecVars
  BY <1>5 DEF codecVars, CodecInv, Encrypting, Decrypting
<1> QED
  BY <1>2, <1>3, <1>4, <1>5 DEF CodecNext

\* Block by block the packet is encrypted, and block by block it comes back.
THEOREM CodecInvHolds == CodecSpec => []CodecInv
<1> QED
  BY CodecStart, CodecStep, PTL DEF CodecSpec

-----------------------------------------------------------------------------
(* What follows from it *)

\* No round of either loop reads outside the serial.
THEOREM CodecTypeCorrect == CodecSpec => []CodecTypeOK
<1>1. CodecInv => CodecTypeOK
  <2> SUFFICES ASSUME CodecInv PROVE CodecTypeOK
    OBVIOUS
  <2>1. pc \in {"encrypt", "decrypt"} => i \in 0 .. 11
    BY DEF CodecInv, Encrypting, Decrypting
  <2>2. i \in 0 .. 12
    BY DEF CodecInv, Encrypting, Decrypting
  <2> QED
    BY <2>1, <2>2, KeyByteIn DEF CodecInv, CodecTypeOK, EncryptedBlocks
<1> QED
  BY <1>1, CodecInvHolds, PTL

\* The loop of _encrypt_packet computes its closed form, for every packet.
THEOREM LoopEncryptsHolds == CodecSpec => []LoopEncrypts
<1>1. CodecInv => LoopEncrypts
  BY DEF CodecInv, LoopEncrypts, Places, Size
<1> QED
  BY <1>1, CodecInvHolds, PTL

\* _decrypt_packet gives back the data bytes of every packet.
THEOREM RoundTripHolds == CodecSpec => []RoundTrip
<1>1. CodecInv => RoundTrip
  BY DEF CodecInv, RoundTrip, DecryptedBlocks
<1> QED
  BY <1>1, CodecInvHolds, PTL

\* No two tokens read the same request for a key block: its eight blocks on the wire
\* are keyed by all four bytes of the serial.
THEOREM RequestKeyedHolds == CodecSpec => []RequestKeyed
<1>1. CodecInv => RequestKeyed
  <2> SUFFICES ASSUME CodecInv, NEW t \in Serial, SameOnWire("GetRSAKEY", serial, t)
               PROVE  t = serial
    BY DEF RequestKeyed
  <2>1. packet \in PacketBytes /\ serial \in Serial
    BY DEF CodecInv
  <2>2. \A k \in 0 .. 25 : Encrypted(packet, serial, k) = Encrypted(packet, t, k)
    BY DEF SameOnWire, OnWire, ReportLength
  <2>3. ASSUME NEW n \in 0 .. 7 PROVE serial[KeyByte(n)] = t[KeyByte(n)]
    <3>1. 3 * n + 4 \in 0 .. 25 /\ 3 * n + 4 \in Places /\ n \in 0 .. 11
      BY DEF Places
    <3>2. Xor(packet[3 * n + 4], KeyBit(serial, n)) = Xor(packet[3 * n + 4], KeyBit(t, n))
      BY <2>1, <2>2, <3>1, EncryptedCells
    <3>3. /\ packet[3 * n + 4] \in BOOLEAN
          /\ serial[KeyByte(n)] \in BOOLEAN /\ t[KeyByte(n)] \in BOOLEAN
      BY <2>1, <3>1, Bits, KeyByteIn
    <3> QED
      BY <3>2, <3>3, XorTells DEF KeyBit
  <2>4. /\ serial[0] = t[0] /\ serial[1] = t[1] /\ serial[2] = t[2] /\ serial[3] = t[3]
    BY <2>3, KeyBytes
  <2>5. \A j \in 0 .. 3 : serial[j] = t[j]
    BY <2>4
  <2> QED
    BY <2>1, <2>5 DEF Serial
<1> QED
  BY <1>1, CodecInvHolds, PTL

=============================================================================
