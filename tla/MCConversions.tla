---------------------------- MODULE MCConversions ----------------------------
(***************************************************************************)
(* Values for TLC of the constants of the four conversions.  They share no *)
(* state: a behaviour is one of PacketCodec, KeyBuffer, SerialText or      *)
(* HexText, and part says which.                                           *)
(***************************************************************************)
EXTENDS PacketCodec, KeyBuffer, SerialText, HexText

VARIABLE part

\* Encryption is affine in the packet: the zero packet and those with one bit
\* tell any two of these maps apart.
MCPackets == {[k \in 0 .. Size - 1 |-> k = n] : n \in 0 .. Size}

\* Strings of the given lengths of these characters, of which one may be 'G', 'Z'
\* or a grave accent: beside the digits and letters in the table of codes.
Digits16 == <<48, 57, 65, 70, 97, 102, 49, 66, 99, 50, 51, 67, 52, 53, 100, 54>>
MCTexts ==
    {SubSeq(d, 1, n) : n \in {0, 5, 7, 8, 9, 16},
       d \in {Digits16} \cup {[Digits16 EXCEPT ![k] = c] : k \in 1 .. 16, c \in {71, 90, 96}}}

\* With and without a NUL, at the end and inside; prefixes of each other.
MCMessages == {<<>>, <<<<6, 1>>>>, <<<<6, 1>>, <<0, 0>>>>, <<<<6, 1>>, <<0, 0>>, <<6, 2>>>>,
               <<<<6, 1>>, <<6, 2>>>>}
\* Digits and letters in either nibble.
MCBlobs == {<<<<1, 10>>, <<15, 0>>>>, <<<<1, 10>>, <<15, 9>>>>}
\* A digit, the NUL and another character.
MCEdits == {<<15, FALSE>>, <<16, FALSE>>, <<17, FALSE>>}
MCHeap  == {<<0, 0>>, <<6, 2>>}

-----------------------------------------------------------------------------
(* A component that is not chosen stays at one initial state. *)

Idle(x) == part # x

MCInit ==
    /\ part \in {"codec", "buffer", "serial", "text"}
    /\ CodecInit /\ KeyInit /\ SerialInit /\ TextInit
    /\ Idle("codec") => /\ packet = [k \in 0 .. Size - 1 |-> FALSE]
                        /\ serial = [k \in 0 .. 3 |-> FALSE]
    /\ Idle("serial") => text = <<>> /\ \A k \in 0 .. BufLen : ser[k] = ser[0] /\ ser[0] = 0

MCNext ==
    /\ UNCHANGED part
    /\ \/ ~Idle("codec") /\ CodecNext /\ UNCHANGED <<bufferVars, serialVars, textVars>>
       \/ ~Idle("buffer") /\ KeyNext /\ UNCHANGED <<codecVars, serialVars, textVars>>
       \/ ~Idle("serial") /\ SerialNext /\ UNCHANGED <<codecVars, bufferVars, textVars>>
       \/ ~Idle("text") /\ TextNext /\ UNCHANGED <<codecVars, bufferVars, serialVars>>

MCSpec == MCInit /\ [][MCNext]_<<part, codecVars, bufferVars, serialVars, textVars>>
-----------------------------------------------------------------------------
\* The type invariants of the four.
ConversionsTypeOK == CodecTypeOK /\ KeyTypeOK /\ SerialTypeOK /\ TextTypeOK
=============================================================================
