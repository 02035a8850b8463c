------------------------------ MODULE NovinLib ------------------------------
(***************************************************************************)
(* libnovin.so (token-DLL/lib/novinlib.c and novintools.c): the token      *)
(* table tk, the global LAST_ERR_NO, and every exported function, over a   *)
(* USB bus on which tokens come and go at any moment.                      *)
(*                                                                         *)
(* The library has one caller at a time.  A function that enumerates the   *)
(* bus once is one action.  A function that exchanges packets is split at  *)
(* every packet: each packet re-enumerates the bus and opens the first     *)
(* token again (novintools.c:262), so the bus may differ from packet to    *)
(* packet.  What a token answers is not in the code and is left open.      *)
(***************************************************************************)
EXTENDS Integers, Sequences, FiniteSets, SequencesExt

CONSTANTS
    Devices,      \* the tokens that may be plugged in, named by their serials
    ZeroSerial,   \* the serial of a zeroed table entry or buffer
    MaxToken,     \* MAX_TOKEN_SUPPORT, the entries of tk: 8 in the code
    KeyChunks,    \* the 16-byte blocks a part of a key is read in: 8
    StatusWords,  \* the 16-bit status words a token may report
    DevCodes,     \* the codes other than 0 and 128 a token may answer
    RsaLens       \* the lengths a successful OpenSSL operation may return

ASSUME DevicesAssumption == ZeroSerial \notin Devices
ASSUME SizeAssumption == MaxToken \in Nat \ {0} /\ KeyChunks \in Nat \ {0}
ASSUME ReplyAssumption == /\ StatusWords \subseteq Nat
                          /\ DevCodes \subseteq (1 .. 255) \ {128}
                          /\ RsaLens \subseteq Nat

-----------------------------------------------------------------------------
(* Error numbers and status bits (novin-error.h), key parts (novin-op-code.h) *)

nErr_OK    == 0
nErr_DNF   == 1
nErr_IOE   == 3
nErr_DIS   == 13
nErr_BLK   == 14
nErr_OTE   == 16
nErr_CAT   == 19
nErr_RSANS == 60
nErr_INVKT == 64
nErr_INSGN == 65
nErr_DNS   == 132

CS_Disabled  == 256
CS_Suspended == 512
CS_Blocked   == 1024
CS_RSA1024   == 2048

\* Definitions named Fault_ are plausible bugs in the code the next definition
\* models: no definition uses them, they show what the properties rule out.
Fault_HasFlag(word, bit) == word # 0

HasFlag(word, bit) == (word \div bit) % 2 = 1

KT_Private  == 1
KT_Public   == 2
KT_Exponent == 3

Parts    == {KT_Private, KT_Public, KT_Exponent}
Slots    == 0 .. MaxToken - 1
Chunks   == 0 .. KeyChunks - 1
Serials  == Devices \cup {ZeroSerial}

RsaCalls  == {"rsa_encrypt", "rsa_decrypt"}
FileCalls == {"get_public_key", "get_private_key"}
Calls     == RsaCalls \cup FileCalls \cup
             {"get_device_status", "get_signature", "verify_signature"}
ShortCalls == {"none", "get_first_device", "get_curr_dev_serial",
               "select_device", "get_serial", "get_device_count"}

-----------------------------------------------------------------------------
VARIABLES
    bus,          \* the plugged tokens in the order hid_enumerate lists them
    tk,           \* the table of tokens
    overrun,      \* get_first_device wrote past the end of tk
    LAST_ERR_NO,  \* the error of the last call
    pc,           \* where the running call is; "idle" between calls
    fn,           \* the running call, or the last one
    key_type,     \* its key_type argument: 1 public, 2 private, 3 any other
    routine,      \* the key routine being run: "public", "private" or "none"
    kt,           \* the part of the key being read
    key_index,    \* the block of that part to be read next
    result,       \* the routine's result buffer, block by block
    key,          \* the parts copied out of result
    stat,         \* the last status acted upon, and whether a token sent it
    ret,          \* what the last call returned
    buff,         \* the pointer a FileCall returned
    out,          \* the caller's serial buffer
    sent          \* the last packet sent: who received it, whose serial keyed it

busVars   == <<bus>>
tableVars == <<tk, overrun>>
keyVars   == <<routine, kt, key_index, result, key>>
callVars  == <<pc, fn, key_type, stat, ret, buff>>
vars == <<bus, tk, overrun, LAST_ERR_NO, pc, fn, key_type, routine, kt,
          key_index, result, key, stat, ret, buff, out, sent>>

Entry    == [serial : Serials, inUse : BOOLEAN, selected : BOOLEAN]
ZeroEntry == [serial |-> ZeroSerial, inUse |-> FALSE, selected |-> FALSE]

\* A block of a key buffer: the part whose request it was last filled by the answer
\* to, and whether that answer came whole.
Chunk    == [part : Parts \cup {0}, whole : BOOLEAN]
Junk     == [part |-> 0, whole |-> FALSE]
JunkBuffer == [c \in Chunks |-> Junk]
NoPacket == [to |-> ZeroSerial, serial |-> ZeroSerial]
NoStat   == [word |-> 0, real |-> FALSE]

ZeroTable == [i \in Slots |-> ZeroEntry]

-----------------------------------------------------------------------------
(* The table lookups *)

\* GET_ACTIVE_TOKEN: the first entry in use; with none it reads tk[MaxToken],
\* zero in the shipped build, and yields -nErr_DNF.
ActiveToken ==
    LET active == {i \in Slots : tk[i].inUse}
    IN  IF active = {} THEN -nErr_DNF ELSE Min(active)

\* _check_dev_connected: one enumeration of the bus.
Connected(serial) == \E i \in 1 .. Len(bus) : bus[i] = serial

\* _check_dev_selected: any selected entry with that serial.
Selected(serial) == \E i \in Slots : tk[i].selected /\ tk[i].serial = serial

\* The selection is not tested.
Fault_ActiveSelected == ActiveToken \in Slots

\* tk[tkNo].selected in _send_packet; tk[-1] reads the zero padding before tk.
ActiveSelected == ActiveToken \in Slots /\ tk[ActiveToken].selected

-----------------------------------------------------------------------------
Init ==
    /\ bus = <<>>
    /\ tk = ZeroTable
    /\ overrun = FALSE
    /\ LAST_ERR_NO = nErr_OK
    /\ pc = "idle" /\ fn = "none" /\ key_type = 0
    /\ routine = "none" /\ kt = 0 /\ key_index = 0
    /\ result = JunkBuffer /\ key = [p \in Parts |-> JunkBuffer]
    /\ stat = NoStat /\ ret = 0 /\ buff = "none"
    /\ out = ZeroSerial /\ sent = NoPacket

-----------------------------------------------------------------------------
(* The bus: a token is plugged in at any place of the list, or pulled out. *)

Plug(d, i) ==
    /\ ~Connected(d)
    /\ bus' = InsertAt(bus, i, d)
    /\ UNCHANGED <<tableVars, LAST_ERR_NO, callVars, keyVars, out, sent>>

Unplug(i) ==
    /\ bus' = RemoveAt(bus, i)
    /\ UNCHANGED <<tableVars, LAST_ERR_NO, callVars, keyVars, out, sent>>

\* The last dlclose and the next dlopen: a fresh image of the library's data.
Reload ==
    /\ pc = "idle"
    /\ tk' = ZeroTable /\ overrun' = FALSE /\ LAST_ERR_NO' = nErr_OK
    /\ fn' = "none" /\ key_type' = 0 /\ stat' = NoStat
    /\ ret' = 0 /\ buff' = "none" /\ sent' = NoPacket
    /\ UNCHANGED <<bus, pc, keyVars, out>>

-----------------------------------------------------------------------------
(* The functions that enumerate the bus at most once *)

Short(f, err) ==
    /\ pc = "idle"
    /\ fn' = f /\ key_type' = 0 /\ stat' = NoStat /\ buff' = "none"
    /\ LAST_ERR_NO' = err /\ sent' = NoPacket
    /\ UNCHANGED <<bus, pc, keyVars>>

\* Every token found is activated.
Fault_get_first_device ==
    /\ tk' = [i \in Slots |->
                IF i < Len(bus)
                THEN [serial |-> bus[i + 1], inUse |-> TRUE, selected |-> FALSE]
                ELSE ZeroEntry]
    /\ overrun' = (overrun \/ Len(bus) > MaxToken)
    /\ Short("get_first_device", IF bus = <<>> THEN nErr_DNF ELSE nErr_OK)
    /\ ret' = 0
    /\ UNCHANGED out

\* Nothing stops the loop over the tokens at the end of the table: what the entries
\* written behind it overwrite is not modelled, only that it has happened.
get_first_device ==
    /\ tk' = [i \in Slots |->
                IF i < Len(bus)
                THEN [serial |-> bus[i + 1], inUse |-> i = 0, selected |-> FALSE]
                ELSE ZeroEntry]
    /\ overrun' = (overrun \/ Len(bus) > MaxToken)
    /\ Short("get_first_device", IF bus = <<>> THEN nErr_DNF ELSE nErr_OK)
    /\ ret' = 0
    /\ UNCHANGED out

\* The error of get_curr_dev_serial: the active entry exists and is plugged in.
ActiveError ==
    IF ActiveToken = -nErr_DNF \/ ~Connected(tk[ActiveToken].serial)
    THEN nErr_DNF ELSE nErr_OK

\* That of get_serial and get_device_status, which want it selected as well.
SessionError ==
    IF ActiveError # nErr_OK THEN ActiveError
    ELSE IF ~Selected(tk[ActiveToken].serial) THEN nErr_DNS
    ELSE nErr_OK

get_curr_dev_serial ==
    /\ Short("get_curr_dev_serial", ActiveError)
    /\ out' = IF ActiveError = nErr_OK THEN tk[ActiveToken].serial ELSE out
    /\ ret' = 0
    /\ UNCHANGED tableVars

\* The serial passed in is only looked up on the bus: the entry marked is the
\* active one, whatever its serial.
select_device(serial) ==
    LET err == IF ActiveToken = -nErr_DNF \/ ~Connected(serial)
               THEN nErr_DNF ELSE nErr_OK
    IN  /\ Short("select_device", err)
        /\ tk' = IF err = nErr_OK
                 THEN [tk EXCEPT ![ActiveToken].selected = TRUE] ELSE tk
        /\ ret' = 0
        /\ UNCHANGED <<overrun, out>>

get_serial ==
    /\ Short("get_serial", SessionError)
    /\ out' = IF SessionError = nErr_OK
              THEN tk[ActiveToken].serial ELSE ZeroSerial
    /\ ret' = 0
    /\ UNCHANGED tableVars

get_device_count ==
    /\ Short("get_device_count", nErr_OK)
    /\ ret' = Len(bus)
    /\ UNCHANGED <<tableVars, out>>

-----------------------------------------------------------------------------
(* The functions that exchange packets *)

\* What a call needs: the public routine, the private one, or both.
NeedsPublic(f, k) == \/ f \in RsaCalls /\ k \in {1, 2}
                     \/ f \in {"get_signature", "verify_signature",
                               "get_public_key"}
NeedsPrivate(f, k) == \/ f \in RsaCalls /\ k = 2
                      \/ f \in {"get_signature", "get_private_key"}

FirstPart(r) == IF r = "public" THEN KT_Public ELSE KT_Private

\* The block loop starts at 1.
Fault_StartRoutine(r) ==
    /\ routine' = r
    /\ kt' = FirstPart(r)
    /\ key_index' = IF KeyChunks > 1 THEN 1 ELSE 0
    /\ result' = JunkBuffer

\* Entering a key routine: the loop variables start, the buffer is the stack's.
StartRoutine(r) ==
    /\ routine' = r
    /\ kt' = FirstPart(r)
    /\ key_index' = 0
    /\ result' = JunkBuffer

Begin(f, k) ==
    /\ pc = "idle"
    /\ fn' = f /\ key_type' = k
    /\ stat' = NoStat /\ ret' = 0 /\ buff' = "none" /\ sent' = NoPacket
    /\ IF f \in FileCalls
       THEN /\ pc' = "key"
            /\ StartRoutine(IF f = "get_public_key" THEN "public" ELSE "private")
            /\ UNCHANGED key
       ELSE pc' = "check" /\ UNCHANGED keyVars
    /\ UNCHANGED <<bus, tableVars, LAST_ERR_NO, out>>

\* tlen starts at 0.
Fault_FailRet(err) == IF fn \in RsaCalls \cup FileCalls THEN 0 ELSE err

\* The value a call returns when it stops with err: rsa_encrypt and rsa_decrypt
\* return tlen = -1, the pointer functions an uninitialised pointer.
FailRet(err)  == IF fn \in RsaCalls THEN -1
                 ELSE IF fn \in FileCalls THEN 0 ELSE err
FailBuff      == IF fn \in FileCalls THEN "wild" ELSE "none"

Return(err, r, b) ==
    /\ pc' = "idle"
    /\ LAST_ERR_NO' = err
    /\ ret' = r /\ buff' = b
    /\ routine' = "none" /\ kt' = 0 /\ key_index' = 0
    /\ result' = JunkBuffer /\ key' = [p \in Parts |-> JunkBuffer]
    /\ UNCHANGED <<bus, tableVars, fn, key_type, out>>

\* An error is stored as _send_packet returned it.
Fault_Fail(err) == Return(-err, FailRet(err), FailBuff)

Fail(err) == Return(err, FailRet(err), FailBuff)

\* _send_packet: res is what it returns.  The token that gets the packet is the
\* first on the bus; the serial that keys it is the active entry's.
SendPacket(res) ==
    \/ /\ res = -nErr_DNF
       /\ sent' = NoPacket
    \/ /\ bus # <<>> /\ ~ActiveSelected
       /\ res = -nErr_DNS
       /\ sent' = NoPacket
    \/ /\ bus # <<>> /\ ActiveSelected
       /\ res \in {nErr_OK, -nErr_IOE} \cup {-c : c \in DevCodes}
       /\ sent' = [to |-> Head(bus), serial |-> tk[ActiveToken].serial]

PacketErrors == {-nErr_DNF, -nErr_DNS, -nErr_IOE} \cup {-c : c \in DevCodes}

\* _get_dev_status_internal: the error of _send_packet is negated, so it comes
\* back as a positive number like a status word.
GetDevStatusInternal(s) ==
    \/ /\ SendPacket(nErr_OK)
       /\ \E w \in StatusWords : s = [word |-> w, real |-> TRUE]
    \/ \E res \in PacketErrors :
          SendPacket(res) /\ s = [word |-> res * (-1), real |-> FALSE]

\* The suspended state is not tested.
Fault_StatusError(word) ==
    IF word < 0 THEN word
    ELSE IF HasFlag(word, CS_Blocked) THEN nErr_BLK
    ELSE IF HasFlag(word, CS_Disabled) THEN nErr_DIS
    ELSE nErr_OK

StatusError(word) ==
    IF word < 0 THEN word
    ELSE IF HasFlag(word, CS_Suspended) THEN nErr_CAT
    ELSE IF HasFlag(word, CS_Blocked) THEN nErr_BLK
    ELSE IF HasFlag(word, CS_Disabled) THEN nErr_DIS
    ELSE nErr_OK

Statuses == {[word |-> w, real |-> TRUE] : w \in StatusWords} \cup
            {[word |-> res * (-1), real |-> FALSE] : res \in PacketErrors}

\* get_device_status up to its packet.
CheckSession ==
    /\ pc = "check"
    /\ IF SessionError # nErr_OK
       THEN Fail(SessionError) /\ UNCHANGED <<stat, sent>>
       ELSE /\ pc' = "status"
            /\ UNCHANGED <<bus, tableVars, LAST_ERR_NO, fn, key_type, stat,
                           ret, buff, keyVars, out, sent>>

\* The packet of get_device_status, its tests, and the caller's test of its
\* result; get_device_status itself ends here.
DeviceStatus(s) ==
    /\ pc = "status"
    /\ GetDevStatusInternal(s)
    /\ stat' = s
    /\ \/ /\ StatusError(s.word) # nErr_OK
          /\ Fail(StatusError(s.word))
       \/ /\ StatusError(s.word) = nErr_OK
          /\ fn = "get_device_status"
          /\ Return(nErr_OK, nErr_OK, "none")
       \/ /\ StatusError(s.word) = nErr_OK
          /\ fn # "get_device_status"
          /\ LAST_ERR_NO' = nErr_OK
          /\ IF fn \in RsaCalls
             THEN pc' = "status2" /\ UNCHANGED <<routine, kt, key_index, result>>
             ELSE pc' = "key" /\ StartRoutine("public")
          /\ UNCHANGED <<bus, tableVars, fn, key_type, ret, buff, key, out>>

\* rsa_encrypt and rsa_decrypt read the status a second time for CS_RSA1024,
\* call RSA_new and switch on key_type.
RsaStatus(s) ==
    /\ pc = "status2"
    /\ GetDevStatusInternal(s)
    /\ stat' = s
    /\ \/ s.word < 0 /\ Fail(s.word)
       \/ s.word >= 0 /\ ~HasFlag(s.word, CS_RSA1024) /\ Fail(nErr_RSANS)
       \/ s.word >= 0 /\ HasFlag(s.word, CS_RSA1024) /\ Fail(nErr_OTE)
       \/ /\ s.word >= 0 /\ HasFlag(s.word, CS_RSA1024)
          /\ ~NeedsPublic(fn, key_type)
          /\ Fail(nErr_INVKT)
       \/ /\ s.word >= 0 /\ HasFlag(s.word, CS_RSA1024)
          /\ NeedsPublic(fn, key_type)
          /\ pc' = "key" /\ StartRoutine("public")
          /\ UNCHANGED <<bus, tableVars, LAST_ERR_NO, fn, key_type, ret, buff,
                         key, out>>

\* The 18 bytes of an answer are moved onto block key_index and spill two bytes
\* into the next block, which is junk until it is read in its turn.  An answer that
\* came short is taken like a whole one, with what the buffer held for the rest.
StoreChunk(whole) ==
    [c \in Chunks |-> IF c = key_index THEN [part |-> kt, whole |-> whole]
                      ELSE IF c = key_index + 1 THEN Junk ELSE result[c]]

\* A block that could not be read is asked for again.
Fault_KeyFail(res) ==
    /\ pc = "key"
    /\ SendPacket(res)
    /\ UNCHANGED <<bus, tableVars, LAST_ERR_NO, callVars, keyVars, out>>

KeyFail(res) ==
    /\ pc = "key"
    /\ SendPacket(res)
    /\ Fail(res * (-1))
    /\ UNCHANGED stat

KeyChunk(whole) ==
    /\ pc = "key"
    /\ key_index < KeyChunks - 1
    /\ SendPacket(nErr_OK)
    /\ result' = StoreChunk(whole)
    /\ key_index' = key_index + 1
    /\ UNCHANGED <<bus, tableVars, LAST_ERR_NO, callVars, routine, kt, key, out>>

\* The last block of the first part: it is copied out, the exponent follows.
KeyPart(whole) ==
    /\ pc = "key"
    /\ key_index = KeyChunks - 1 /\ kt # KT_Exponent
    /\ SendPacket(nErr_OK)
    /\ result' = StoreChunk(whole)
    /\ key' = [key EXCEPT ![kt] = StoreChunk(whole)]
    /\ key_index' = 0
    /\ kt' = KT_Exponent
    /\ UNCHANGED <<bus, tableVars, LAST_ERR_NO, callVars, routine, out>>

\* The last block of the exponent ends the routine; the caller goes on with the
\* private routine if it needs it, with the RSA operation if not.
KeyEnd(whole) ==
    /\ pc = "key"
    /\ key_index = KeyChunks - 1 /\ kt = KT_Exponent
    /\ SendPacket(nErr_OK)
    /\ key' = [key EXCEPT ![kt] = StoreChunk(whole)]
    /\ IF routine = "public" /\ NeedsPrivate(fn, key_type)
       THEN StartRoutine("private") /\ UNCHANGED pc
       ELSE /\ pc' = "rsa"
            /\ routine' = "none" /\ kt' = 0 /\ key_index' = 0
            /\ result' = JunkBuffer
    /\ UNCHANGED <<bus, tableVars, LAST_ERR_NO, fn, key_type, stat, ret, buff,
                   out>>

\* OpenSSL: the numbers may not be allocated, the operation may fail; what it
\* encrypts is never empty.
RsaOperation ==
    /\ pc = "rsa"
    /\ \/ fn = "rsa_encrypt" /\ \E len \in RsaLens \ {0} : Return(nErr_OK, len, "none")
       \/ fn = "rsa_decrypt" /\ \E len \in RsaLens : Return(nErr_OK, len, "none")
       \/ fn \in RsaCalls /\ \E err \in {nErr_OTE, nErr_INVKT} : Fail(err)
       \/ fn = "get_signature" /\ \E err \in {nErr_OK, nErr_OTE} :
             Return(err, err, "none")
       \/ fn = "verify_signature" /\ \E err \in {nErr_OK, nErr_OTE, nErr_INSGN} :
             Return(err, err, "none")
    /\ UNCHANGED <<stat, sent>>

\* get_public_key, get_private_key: the key goes through a file in /tmp; a
\* failure before malloc leaves the pointer uninitialised, a short read does not.
ExportKey ==
    /\ pc = "rsa" /\ fn \in FileCalls
    /\ \/ Fail(nErr_OTE)
       \/ \E err \in {nErr_OK, nErr_OTE} : Return(err, 0, "malloc")
    /\ UNCHANGED <<stat, sent>>

-----------------------------------------------------------------------------
Step ==
    \/ CheckSession
    \/ \E s \in Statuses : DeviceStatus(s) \/ RsaStatus(s)
    \/ \E res \in PacketErrors : KeyFail(res)
    \/ \E whole \in BOOLEAN : KeyChunk(whole) \/ KeyPart(whole) \/ KeyEnd(whole)
    \/ RsaOperation \/ ExportKey

Call ==
    \/ get_first_device \/ get_curr_dev_serial
    \/ get_serial \/ get_device_count
    \/ \E serial \in Devices : select_device(serial)
    \/ \E f \in RsaCalls, k \in 1 .. 3 : Begin(f, k)
    \/ \E f \in Calls \ RsaCalls : Begin(f, 0)

Environment ==
    \/ \E d \in Devices, i \in 1 .. Len(bus) + 1 : Plug(d, i)
    \/ \E i \in 1 .. Len(bus) : Unplug(i)
    \/ Reload

Next == Step \/ Call \/ Environment

Spec == Init /\ [][Next]_vars

\* The caller's thread keeps running and every transfer ends within its
\* 1000 ms (hid-libusb.c:1093, 1125), so a started call always takes its next
\* step; nothing makes the page call again or anyone plug a token in.
FairSpec == Spec /\ WF_vars(Step)

-----------------------------------------------------------------------------
(* Properties *)

ErrorNumbers == {nErr_OK, nErr_DNF, nErr_IOE, nErr_DIS, nErr_BLK, nErr_OTE,
                 nErr_CAT, nErr_RSANS, nErr_INVKT, nErr_INSGN, nErr_DNS}
                \cup DevCodes

\* Every variable has its type.  LAST_ERR_NO in particular is never negative
\* and never a value outside novin-error.h and the token's own codes, although
\* errors travel negated between _send_packet and its callers.
TypeOK ==
    /\ bus \in Seq(Devices)
    /\ tk \in [Slots -> Entry]
    /\ overrun \in BOOLEAN
    /\ LAST_ERR_NO \in ErrorNumbers
    /\ pc \in {"idle", "check", "status", "status2", "key", "rsa"}
    /\ fn \in Calls \cup ShortCalls
    /\ key_type \in 0 .. 3
    /\ routine \in {"none", "public", "private"}
    /\ kt \in Parts \cup {0}
    /\ key_index \in Chunks
    /\ result \in [Chunks -> Chunk]
    /\ key \in [Parts -> [Chunks -> Chunk]]
    /\ stat \in [word : Nat, real : BOOLEAN]
    /\ ret \in Int
    /\ buff \in {"none", "malloc", "wild"}
    /\ out \in Serials
    /\ sent \in [to : Serials, serial : Serials]

\* The table never holds more than one session: only the first entry is ever
\* active or selected, a selected entry is active, and an active one names a
\* token.  get_serial and get_device_status look for the selection by serial
\* over all entries, _send_packet by index: they agree only because of this.
OneSession ==
    \A i \in Slots : /\ tk[i].selected => tk[i].inUse
                     /\ tk[i].inUse => (i = 0 /\ tk[i].serial \in Devices)

\* When OpenSSL is handed a key, every block of every part it uses is as the answer
\* to the request for that part left it, whatever happened on the bus: no block was
\* left out, taken from another part or spilled over by a neighbour, although
\* _get_public_key and _get_private_key reuse one buffer for two parts and move 18
\* bytes onto blocks of 16.  (Which token answered, and whether the answer came
\* whole, the code does not look at.)
PartsUsed == (IF NeedsPublic(fn, key_type) THEN {KT_Public, KT_Exponent} ELSE {})
             \cup
             (IF NeedsPrivate(fn, key_type) THEN {KT_Private, KT_Exponent} ELSE {})

InPlace(block, p) == \A c \in Chunks : block[c].part = p

KeyInPlace == pc = "rsa" => \A p \in PartsUsed : InPlace(key[p], p)

\* rsa_encrypt and rsa_decrypt read key material, and succeed, only after a
\* token itself reported CS_RSA1024.  The errors of _get_dev_status_internal
\* come back positive and pass the test for a negative status, so this rests on
\* no error number having the bit of CS_RSA1024.
RsaGate ==
    /\ fn \in RsaCalls
    /\ pc \in {"key", "rsa"} \/ (pc = "idle" /\ LAST_ERR_NO = nErr_OK)
    => stat.real /\ HasFlag(stat.word, CS_RSA1024)

\* get_signature and verify_signature never go on to the key of a token that
\* answered that it is suspended, blocked or disabled.
HealthyToken ==
    fn \in {"get_signature", "verify_signature"} /\ pc \in {"key", "rsa"} /\ stat.real
    => \A bit \in {CS_Suspended, CS_Blocked, CS_Disabled} : ~HasFlag(stat.word, bit)

\* A packet is only sent keyed by the serial of an entry that is active and
\* selected, also when the exported key functions are called before
\* get_first_device, with nothing but the memory before tk to look at.
PacketKeyed ==
    sent # NoPacket =>
      \E i \in Slots : tk[i].inUse /\ tk[i].selected /\ tk[i].serial = sent.serial

\* Between calls the return value and LAST_ERR_NO tell the same story: the
\* plugin looks at the return value of the RSA and signature functions only, the
\* page at the error number only.
ReturnMatchesError ==
    pc = "idle" =>
      /\ fn \in RsaCalls => (ret = -1 <=> LAST_ERR_NO # nErr_OK)
      /\ fn \in {"get_device_status", "get_signature", "verify_signature"}
         => ret = LAST_ERR_NO
      /\ fn \in FileCalls /\ LAST_ERR_NO = nErr_OK => buff = "malloc"

\* Every call returns, whatever is plugged in or pulled out meanwhile.
CallReturns == []<>(pc = "idle")

(* What comments of the source say and the code does not do. *)

\* "negative should be returned as error to Differentiate it from result"
\* (novintools.c:402): a get_device_status that reports OK has had a status
\* word from a token.
StatusFromToken ==
    pc = "idle" /\ fn = "get_device_status" /\ LAST_ERR_NO = nErr_OK => stat.real

\* "selects currently activated device as selected device to work with"
\* (novinlib.c:110): a packet goes to the selected token.
PacketToSelected == sent # NoPacket => sent.to = sent.serial

=============================================================================
