------------------------------ MODULE HexText -------------------------------
(***************************************************************************)
(* The texts of a page on their way through the plugin                     *)
(* (fumPlugin/fumPluginAPI.cpp): messages are copied as C strings,         *)
(* ciphertexts and signatures travel in hexadecimal, by bin2hex and        *)
(* hex2bin.  RSA is ideal: a ciphertext stands for one plaintext, a        *)
(* signature for one message.                                              *)
(***************************************************************************)
EXTENDS Integers, Sequences

CONSTANTS
    Messages,      \* what a page encrypts or signs: strings, NUL included
    Blobs,         \* ciphertexts and signatures: sequences of bytes
    Edits,         \* characters a page puts into a hexadecimal text
    HeapBytes,     \* what fresh memory may hold
    MaxLoads       \* bound: how often the library is loaded

\* A byte is a pair of nibbles.  A character is <<n, upper>>: a digit for n < 16,
\* any other character else; 16 is the NUL.
Nibbles == 0 .. 15
Bytes   == Nibbles \X Nibbles
Chars   == Nat \X BOOLEAN
NulByte == <<0, 0>>
NulChar == <<16, FALSE>>
Failed  == <<"failed">>

ASSUME MessagesAssumption == Messages \subseteq Seq(Bytes)
ASSUME BlobsAssumption == Blobs \subseteq Seq(Bytes)
ASSUME EditsAssumption == Edits \subseteq Chars
ASSUME HeapBytesAssumption == HeapBytes \subseteq Bytes /\ HeapBytes # {}
ASSUME MaxLoadsAssumption == MaxLoads \in Nat \ {0}

VARIABLES
    cipher,        \* the last encryption: message, text given to the page and
                   \* what the library knows of it; or {}
    signed,        \* the last signature, likewise
    call,          \* the last method, its arguments and its result
    err,           \* LAST_ERR_NO is not nErr_OK
    loads          \* how often the library has been loaded

textVars == <<cipher, signed, call, err, loads>>

NoCall == [fn |-> "none", message |-> <<>>, text |-> <<>>, result |-> <<>>]

TextInit ==
    /\ cipher = {} /\ signed = {} /\ call = NoCall
    /\ err = FALSE /\ loads = 1

-----------------------------------------------------------------------------
(* Strings and conversions *)

Minimum(S) == CHOOSE n \in S : \A k \in S : n <= k

\* Where a C string ends.
CLen(s, nul) == Minimum({k - 1 : k \in {j \in 1 .. Len(s) : s[j] = nul}} \cup {Len(s)})

CString(s, nul) == SubSeq(s, 1, CLen(s, nul))

\* A buffer as long as s after strcpy of s: what follows the NUL stays.
Buffer(s, nul, rest) ==
    [k \in 1 .. Len(s) |-> IF k <= CLen(s, nul) + 1 THEN s[k] ELSE rest]

\* The two digits of each byte, one after the other.
Nibble(b, k) == b[(k + 1) \div 2][IF k % 2 = 1 THEN 1 ELSE 2]

bin2hex(b) == [k \in 1 .. 2 * Len(b) |-> <<Nibble(b, k), FALSE>>]

\* A text may become these bytes: two digits make one, a last odd one is ignored.
\* bin_map has both cases of the digits; for any other character it is not
\* initialised, and gives whatever is there.
hex2bin(t, b) ==
    /\ Len(b) = Len(t) \div 2
    /\ \A k \in 1 .. 2 * Len(b) : t[k][1] < 16 => Nibble(b, k) = t[k][1]
    /\ \A j, k \in 1 .. 2 * Len(b) : t[j] = t[k] => Nibble(b, j) = Nibble(b, k)

-----------------------------------------------------------------------------
(* The methods.  After an error get_TkErr refuses everything. *)

Returned(fn, m, t, res) == call' = [fn |-> fn, message |-> m, text |-> t, result |-> res]

\* The library's call fails: there is an error from now on.
Fails(fn, m, t) ==
    /\ Returned(fn, m, t, Failed) /\ err' = TRUE
    /\ UNCHANGED <<cipher, signed, loads>>

\* The message goes through a buffer of zeroes; the library gets its full length.
RsaEncrypt(m) ==
    /\ ~err
    /\ \/ /\ \E c \in Blobs :
                /\ cipher' = {[message |-> m, blob |-> c, text |-> bin2hex(c),
                               plain |-> Buffer(m, NulByte, NulByte)]}
                /\ Returned("RsaEncrypt", m, bin2hex(c), <<>>)
          /\ UNCHANGED <<signed, err, loads>>
       \/ Fails("RsaEncrypt", m, <<>>)

\* The result is not ended by a NUL of its own.
Fault_RsaDecrypt(t) ==
    /\ ~err
    /\ \/ /\ \E x \in cipher :
                /\ hex2bin(Buffer(t, NulChar, NulChar), x.blob)
                /\ Returned("RsaDecrypt", <<>>, t, x.plain)
          /\ UNCHANGED <<cipher, signed, err, loads>>
       \/ Fails("RsaDecrypt", <<>>, t)

\* The plaintext comes back as a C string.
RsaDecrypt(t) ==
    /\ ~err
    /\ \/ /\ \E x \in cipher :
                /\ hex2bin(Buffer(t, NulChar, NulChar), x.blob)
                /\ Returned("RsaDecrypt", <<>>, t, CString(x.plain, NulByte))
          /\ UNCHANGED <<cipher, signed, err, loads>>
       \/ Fails("RsaDecrypt", <<>>, t)

\* The message goes through a buffer of its length without a place for the
\* terminator.
GetSignature(m) ==
    /\ ~err
    /\ \E b \in HeapBytes :
       \/ /\ \E s \in Blobs :
                /\ signed' = {[message |-> m, blob |-> s, text |-> bin2hex(s),
                               plain |-> Buffer(m, NulByte, b)]}
                /\ Returned("GetSignature", m, bin2hex(s), <<>>)
          /\ UNCHANGED <<cipher, err, loads>>
       \/ Fails("GetSignature", m, <<>>)

\* Messages are compared as C strings.
Fault_VerifySignature(m, t) ==
    /\ ~err
    /\ \/ /\ \E x \in signed :
                /\ CString(m, NulByte) = CString(x.plain, NulByte)
                /\ hex2bin(t, x.blob)
          /\ Returned("VerifySignature", m, t, <<"OK">>)
          /\ UNCHANGED <<cipher, signed, err, loads>>
       \/ Fails("VerifySignature", m, t)

\* Message and signature go through such buffers; a signature that does not match
\* is an error like another.
VerifySignature(m, t) ==
    /\ ~err
    /\ \/ /\ \E x \in signed :
                /\ \E b \in HeapBytes : Buffer(m, NulByte, b) = x.plain
                /\ \E c \in Edits : hex2bin(Buffer(t, NulChar, c), x.blob)
          /\ Returned("VerifySignature", m, t, <<"OK">>)
          /\ UNCHANGED <<cipher, signed, err, loads>>
       \/ Fails("VerifySignature", m, t)

\* The page drops its objects and makes new ones; its texts stay.
Reload ==
    /\ err /\ loads < MaxLoads
    /\ err' = FALSE /\ loads' = loads + 1
    /\ call' = NoCall
    /\ UNCHANGED <<cipher, signed>>

Upper(t) == [k \in 1 .. Len(t) |-> IF t[k][1] \in 10 .. 15 THEN <<t[k][1], TRUE>> ELSE t[k]]

\* What a page may give for a text it was given: the text itself, in capitals,
\* without its last character, with one more, or with one replaced.
Altered(t) ==
    {t, Upper(t)} \cup {Append(t, c) : c \in Edits}
      \cup (IF t = <<>> THEN {} ELSE {SubSeq(t, 1, Len(t) - 1)})
      \cup {[t EXCEPT ![k] = c] : k \in 1 .. Len(t), c \in Edits}

PageTexts(had) == {<<>>} \cup UNION {Altered(x.text) : x \in had}

TextNext ==
    \/ \E m \in Messages : RsaEncrypt(m) \/ GetSignature(m)
    \/ \E t \in PageTexts(cipher) : RsaDecrypt(t)
    \/ \E t \in PageTexts(signed), m \in Messages : VerifySignature(m, t)
    \/ Reload

TextSpec == TextInit /\ [][TextNext]_textVars

-----------------------------------------------------------------------------
(* Properties *)

Records ==
    [message : Seq(Bytes), blob : Seq(Bytes), text : Seq(Nibbles \X {FALSE}), plain : Seq(Bytes)]

\* The variables keep their types; a text for the page has small digits only.
TextTypeOK ==
    /\ cipher \subseteq Records /\ signed \subseteq Records
    /\ call.text \in Seq(Chars) /\ call.message \in Seq(Bytes)
    /\ err \in BOOLEAN /\ loads \in 1 .. MaxLoads

AllHex(t) == \A k \in 1 .. Len(t) : t[k][1] < 16
NoNul(m)  == CLen(m, NulByte) = Len(m)

\* Two texts of the same digits, up to their case and a last odd digit.
SameDigits(t, u) ==
    /\ Len(t) \div 2 = Len(u) \div 2
    /\ \A k \in 1 .. 2 * (Len(t) \div 2) : t[k][1] = u[k][1]

\* A text the plugin gave to the page converts back to what the library made, in
\* small letters and in capitals, whatever the uninitialised part of bin_map
\* holds.  A page that decrypts what it encrypted gets its message up to the first
\* NUL, and nothing that stood in a buffer before; a text of hexadecimal digits
\* decrypts only if its digits are those of a ciphertext.
UpToTheNul ==
    /\ \A x \in cipher \cup signed, b \in Blobs :
          /\ hex2bin(x.text, b) <=> b = x.blob
          /\ hex2bin(Upper(x.text), b) <=> b = x.blob
    /\ call.fn = "RsaDecrypt" /\ call.result # Failed =>
         \E x \in cipher :
            /\ call.result = CString(x.message, NulByte)
            /\ AllHex(call.text) => SameDigits(call.text, x.text)

\* A message without a NUL is signed as it is, and is verified only with its own
\* signature.  With a NUL, what the heap held behind it is signed too
\* (fumPluginAPI.cpp:298).
SignatureBinds ==
    /\ \A x \in signed : NoNul(x.message) => x.plain = x.message
    /\ call.fn = "VerifySignature" /\ call.result # Failed /\ NoNul(call.message) =>
         \E x \in signed :
            /\ x.message = call.message
            /\ AllHex(call.text) => SameDigits(call.text, x.text)

=============================================================================
