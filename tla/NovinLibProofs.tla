--------------------------- MODULE NovinLibProofs ---------------------------
(***************************************************************************)
(* What TLAPS proves of NovinLib for every set of tokens, table size, key  *)
(* size, status word and error code.  The only assumptions are the three   *)
(* that NovinLib states of its constants.                                  *)
(***************************************************************************)
EXTENDS NovinLib, SequenceTheorems, TLAPS

-----------------------------------------------------------------------------
(* Lemmas on the operators *)

\* Plugging a token in leaves a sequence of tokens.
LEMMA InsertType ==
  ASSUME NEW s \in Seq(Devices), NEW d \in Devices, NEW i \in 1 .. Len(s) + 1
  PROVE  InsertAt(s, i, d) \in Seq(Devices)
<1>1. SubSeq(s, 1, i - 1) \in Seq(Devices)
  BY SubSeqProperties, \A j \in 1 .. i - 1 : s[j] \in Devices
<1>2. SubSeq(s, i, Len(s)) \in Seq(Devices)
  BY SubSeqProperties, \A j \in i .. Len(s) : s[j] \in Devices
<1>3. <<d>> \in Seq(Devices)
  OBVIOUS
<1>4. SubSeq(s, 1, i - 1) \o <<d>> \in Seq(Devices)
  BY <1>1, <1>3, ConcatProperties
<1> QED
  BY <1>2, <1>4, ConcatProperties DEF InsertAt

\* So does pulling one out.
LEMMA RemoveType ==
  ASSUME NEW s \in Seq(Devices), NEW i \in 1 .. Len(s)
  PROVE  RemoveAt(s, i) \in Seq(Devices)
<1>1. SubSeq(s, 1, i - 1) \in Seq(Devices)
  BY SubSeqProperties, \A j \in 1 .. i - 1 : s[j] \in Devices
<1>2. SubSeq(s, i + 1, Len(s)) \in Seq(Devices)
  BY SubSeqProperties, \A j \in i + 1 .. Len(s) : s[j] \in Devices
<1> QED
  BY <1>1, <1>2, ConcatProperties DEF RemoveAt

\* GET_ACTIVE_TOKEN finds entry 0 or nothing, as long as no other is active.
LEMMA ActiveValue ==
  ASSUME TypeOK, OneSession
  PROVE  ActiveToken = IF tk[0].inUse THEN 0 ELSE -nErr_DNF
<1> DEFINE active == {i \in Slots : tk[i].inUse}
<1>1. 0 \in Slots
  BY SizeAssumption DEF Slots
<1>2. active = IF tk[0].inUse THEN {0} ELSE {}
  BY <1>1 DEF OneSession
<1>3. Min({0}) = 0
  BY DEF Min
<1> QED
  BY <1>2, <1>3 DEF ActiveToken

\* The error of a status word is an error number.
LEMMA StatusErrorType ==
  ASSUME NEW w \in Nat
  PROVE  StatusError(w) \in ErrorNumbers
<1>1. ~(w < 0)
  OBVIOUS
<1>2. {nErr_CAT, nErr_BLK, nErr_DIS, nErr_OK} \subseteq ErrorNumbers
  BY DEF ErrorNumbers
<1> QED
  BY <1>1, <1>2, Zenon DEF StatusError

\* The error of a packet, negated, is an error number and a byte.
LEMMA PacketErrorType ==
  ASSUME NEW res \in PacketErrors
  PROVE  res * (-1) \in ErrorNumbers \cap (1 .. 255)
<1>1. CASE res \in {-nErr_DNF, -nErr_DNS, -nErr_IOE}
  BY <1>1 DEF nErr_DNF, nErr_DNS, nErr_IOE, ErrorNumbers
<1>2. CASE res \in {-c : c \in DevCodes}
  <2>1. PICK c \in DevCodes : res = -c
    BY <1>2
  <2>2. c \in 1 .. 255
    BY ReplyAssumption
  <2>3. res * (-1) = c
    BY <2>1, <2>2
  <2> QED
    BY <2>2, <2>3 DEF ErrorNumbers
<1> QED
  BY <1>1, <1>2 DEF PacketErrors

\* What _get_dev_status_internal returns is never negative: a status word, or
\* an error that fits a byte.
LEMMA StatusType ==
  ASSUME NEW s \in Statuses
  PROVE  /\ s \in [word : Nat, real : BOOLEAN]
         /\ s.real \/ s.word < 256
<1>1. CASE \E w \in StatusWords : s = [word |-> w, real |-> TRUE]
  BY <1>1, ReplyAssumption
<1>2. CASE \E res \in PacketErrors : s = [word |-> res * (-1), real |-> FALSE]
  <2>1. PICK res \in PacketErrors : s = [word |-> res * (-1), real |-> FALSE]
    BY <1>2
  <2>2. res * (-1) \in 1 .. 255
    BY PacketErrorType
  <2> QED
    BY <2>1, <2>2
<1> QED
  BY <1>1, <1>2 DEF Statuses

\* A packet that was answered went to a token on the bus; the record of what
\* was sent stays well typed.
LEMMA SendType ==
  ASSUME TypeOK, OneSession, NEW res, SendPacket(res)
  PROVE  /\ sent' \in [to : Serials, serial : Serials]
         /\ res = nErr_OK => bus # <<>> /\ Head(bus) \in Devices
<1>1. bus \in Seq(Devices) /\ tk \in [Slots -> Entry]
  BY DEF TypeOK
<1>2. CASE sent' = NoPacket /\ res \in {-nErr_DNF, -nErr_DNS}
  <2>1. res # nErr_OK
    BY <1>2 DEF nErr_OK, nErr_DNF, nErr_DNS
  <2> QED
    BY <1>2, <2>1 DEF NoPacket, Serials
<1>3. CASE /\ bus # <<>> /\ ActiveSelected
           /\ sent' = [to |-> Head(bus), serial |-> tk[ActiveToken].serial]
  <2>1. Head(bus) \in Devices
    BY <1>1, <1>3, HeadTailProperties
  <2>2. tk[ActiveToken].serial \in Serials
    BY <1>1, <1>3 DEF ActiveSelected, Entry
  <2> QED
    BY <1>3, <2>1, <2>2 DEF Serials
<1> QED
  BY <1>2, <1>3 DEF SendPacket

\* The constant buffers and errors have their types.
LEMMA ConstantTypes ==
  /\ ErrorNumbers \subseteq Int /\ nErr_OK \in ErrorNumbers
  /\ 0 \in Chunks /\ 0 \in Slots
  /\ JunkBuffer \in [Chunks -> Chunk]
  /\ [p \in Parts |-> JunkBuffer] \in [Parts -> [Chunks -> Chunk]]
  /\ NoPacket \in [to : Serials, serial : Serials]
  /\ NoStat \in [word : Nat, real : BOOLEAN]
  /\ ZeroTable \in [Slots -> Entry]
<1>1. ErrorNumbers \subseteq Int /\ nErr_OK \in ErrorNumbers
  BY ReplyAssumption DEF ErrorNumbers, nErr_OK, nErr_DNF, nErr_IOE, nErr_DIS,
     nErr_BLK, nErr_OTE, nErr_CAT, nErr_RSANS, nErr_INVKT, nErr_INSGN, nErr_DNS
<1>2. 0 \in Chunks /\ 0 \in Slots
  BY SizeAssumption DEF Chunks, Slots
<1>3. JunkBuffer \in [Chunks -> Chunk]
  BY DEF JunkBuffer, Junk, Chunk
<1>4. NoPacket \in [to : Serials, serial : Serials]
  BY DEF NoPacket, Serials
<1>5. NoStat \in [word : Nat, real : BOOLEAN]
  BY DEF NoStat
<1>6. ZeroTable \in [Slots -> Entry]
  BY DEF ZeroTable, ZeroEntry, Entry, Serials
<1> QED
  BY <1>1, <1>2, <1>3, <1>4, <1>5, <1>6

\* Storing a block yields a buffer.
LEMMA StoreType ==
  ASSUME TypeOK, NEW whole \in BOOLEAN
  PROVE  StoreChunk(whole) \in [Chunks -> Chunk]
<1>1. kt \in Parts \cup {0} /\ result \in [Chunks -> Chunk]
  BY DEF TypeOK
<1>2. [part |-> kt, whole |-> whole] \in Chunk
  BY <1>1 DEF Chunk
<1>3. Junk \in Chunk
  BY DEF Junk, Chunk
<1> QED
  BY <1>1, <1>2, <1>3 DEF StoreChunk

-----------------------------------------------------------------------------
(* The table and the types: one inductive invariant *)

TableInv == TypeOK /\ OneSession

\* Ending a call preserves it.
LEMMA ReturnTyped ==
  ASSUME TableInv, NEW err \in ErrorNumbers, NEW r \in Int,
         NEW b \in {"none", "malloc", "wild"}, Return(err, r, b),
         stat' \in [word : Nat, real : BOOLEAN],
         sent' \in [to : Serials, serial : Serials]
  PROVE  TableInv'
<1>1. OneSession'
  BY DEF TableInv, OneSession, Return, tableVars
<1>2. TypeOK'
  BY ConstantTypes DEF TableInv, TypeOK, Return, tableVars
<1> QED
  BY <1>1, <1>2 DEF TableInv

LEMMA FailTyped ==
  ASSUME TableInv, NEW err \in ErrorNumbers, Fail(err),
         stat' \in [word : Nat, real : BOOLEAN],
         sent' \in [to : Serials, serial : Serials]
  PROVE  TableInv'
<1>1. FailRet(err) \in Int
  BY ConstantTypes DEF FailRet
<1>2. FailBuff \in {"none", "malloc", "wild"}
  BY DEF FailBuff
<1> QED
  BY <1>1, <1>2, ReturnTyped DEF Fail

\* Entering a key routine sets its variables to values of their types.
LEMMA RoutineTyped ==
  ASSUME NEW r \in {"public", "private"}, StartRoutine(r)
  PROVE  /\ routine' \in {"none", "public", "private"}
         /\ kt' \in Parts \cup {0}
         /\ key_index' \in Chunks
         /\ result' \in [Chunks -> Chunk]
BY ConstantTypes DEF StartRoutine, FirstPart, Parts

LEMMA TableInit == Init => TableInv
<1> SUFFICES ASSUME Init PROVE TableInv
  OBVIOUS
<1>1. bus \in Seq(Devices) /\ tk \in [Slots -> Entry] /\ overrun \in BOOLEAN
  BY ConstantTypes DEF Init
<1>2. LAST_ERR_NO \in ErrorNumbers /\ fn \in Calls \cup ShortCalls
  BY ConstantTypes DEF Init, ShortCalls
<1>3. TypeOK
  BY <1>1, <1>2, ConstantTypes DEF Init, TypeOK, Serials
<1>4. OneSession
  BY DEF Init, OneSession, ZeroTable, ZeroEntry
<1> QED
  BY <1>3, <1>4 DEF TableInv

\* The bus and the reload of the library.
LEMMA TableEnvironment == TableInv /\ Environment => TableInv'
<1> SUFFICES ASSUME TableInv, Environment PROVE TableInv'
  OBVIOUS
<1> USE DEF TableInv
<1>1. ASSUME NEW d \in Devices, NEW i \in 1 .. Len(bus) + 1, Plug(d, i)
      PROVE  TableInv'
  <2>1. bus' \in Seq(Devices)
    BY <1>1, InsertType DEF Plug, TypeOK
  <2>2. TypeOK'
    BY <1>1, <2>1 DEF Plug, TypeOK, tableVars, callVars, keyVars
  <2>3. OneSession'
    BY <1>1 DEF Plug, OneSession, tableVars
  <2> QED
    BY <2>2, <2>3
<1>2. ASSUME NEW i \in 1 .. Len(bus), Unplug(i)
      PROVE  TableInv'
  <2>1. bus' \in Seq(Devices)
    BY <1>2, RemoveType DEF Unplug, TypeOK
  <2>2. TypeOK'
    BY <1>2, <2>1 DEF Unplug, TypeOK, tableVars, callVars, keyVars
  <2>3. OneSession'
    BY <1>2 DEF Unplug, OneSession, tableVars
  <2> QED
    BY <2>2, <2>3
<1>3. ASSUME Reload PROVE TableInv'
  <2>1. LAST_ERR_NO' \in ErrorNumbers /\ fn' \in Calls \cup ShortCalls
    BY <1>3, ConstantTypes DEF Reload, ShortCalls
  <2>2. tk' \in [Slots -> Entry] /\ overrun' \in BOOLEAN
    BY <1>3, ConstantTypes DEF Reload
  <2>3. TypeOK'
    BY <1>3, <2>1, <2>2, ConstantTypes DEF Reload, TypeOK, keyVars
  <2>4. OneSession'
    BY <1>3 DEF Reload, OneSession, ZeroTable, ZeroEntry
  <2> QED
    BY <2>3, <2>4
<1> QED
  BY <1>1, <1>2, <1>3 DEF Environment

\* A short function leaves the variables of a running call alone.
LEMMA ShortTyped ==
  ASSUME TypeOK, NEW f \in ShortCalls, NEW err \in ErrorNumbers, Short(f, err),
         tk' \in [Slots -> Entry], overrun' \in BOOLEAN, ret' \in Int,
         out' \in Serials
  PROVE  TypeOK'
BY ConstantTypes DEF Short, TypeOK, keyVars

\* The functions that enumerate the bus at most once.
LEMMA TableCall == TableInv /\ Call => TableInv'
<1> SUFFICES ASSUME TableInv, Call PROVE TableInv'
  OBVIOUS
<1> USE DEF TableInv
<1>0. ActiveToken = IF tk[0].inUse THEN 0 ELSE -nErr_DNF
  BY ActiveValue
<1>e. nErr_OK \in ErrorNumbers /\ nErr_DNF \in ErrorNumbers /\ nErr_DNS \in ErrorNumbers
  BY DEF ErrorNumbers
<1>n. -nErr_DNF # 0
  BY DEF nErr_DNF
<1>t. bus \in Seq(Devices) /\ tk \in [Slots -> Entry] /\ out \in Serials
  BY DEF TypeOK
<1>s. 0 \in Slots
  BY ConstantTypes
<1>a. ActiveError = nErr_OK => ActiveToken = 0 /\ tk[0].inUse /\ tk[0].serial \in Serials
  BY <1>0, <1>n, <1>t, <1>s DEF ActiveError, nErr_OK, nErr_DNF, Entry
<1>b. SessionError = nErr_OK => ActiveError = nErr_OK
  BY DEF SessionError
<1>c. ActiveError \in ErrorNumbers /\ SessionError \in ErrorNumbers
  BY <1>e DEF ActiveError, SessionError
<1>1. CASE get_first_device
  <2>1. tk' \in [Slots -> Entry]
    <3>1. \A i \in Slots : i < Len(bus) => bus[i + 1] \in Serials
      BY <1>t DEF Slots, Serials
    <3> QED
      BY <1>1, <3>1 DEF get_first_device, Entry, ZeroEntry, Serials
  <2>2. OneSession'
    <3>1. \A i \in Slots : i < Len(bus) => bus[i + 1] \in Devices
      BY <1>t DEF Slots
    <3> QED
      BY <1>1, <3>1 DEF get_first_device, OneSession, ZeroEntry
  <2>3. TypeOK'
    <3>1. (IF bus = <<>> THEN nErr_DNF ELSE nErr_OK) \in ErrorNumbers
      BY <1>e
    <3>2. overrun' \in BOOLEAN
      BY <1>1 DEF get_first_device, TypeOK
    <3>3. "get_first_device" \in ShortCalls
      BY DEF ShortCalls
    <3>4. ret' \in Int /\ out' \in Serials
      BY <1>1, <1>t DEF get_first_device
    <3> QED
      BY <1>1, <2>1, <3>1, <3>2, <3>3, <3>4, ShortTyped DEF get_first_device
  <2> QED
    BY <2>2, <2>3
<1>2. CASE get_curr_dev_serial
  <2>1. out' \in Serials
    BY <1>2, <1>a, <1>t DEF get_curr_dev_serial
  <2>2. "get_curr_dev_serial" \in ShortCalls
    BY DEF ShortCalls
  <2>3. tk' \in [Slots -> Entry] /\ overrun' \in BOOLEAN /\ ret' \in Int
    BY <1>2 DEF get_curr_dev_serial, tableVars, TypeOK
  <2>4. TypeOK'
    BY <1>2, <1>c, <2>1, <2>2, <2>3, ShortTyped DEF get_curr_dev_serial
  <2>5. OneSession'
    BY <1>2 DEF get_curr_dev_serial, tableVars, OneSession
  <2> QED
    BY <2>4, <2>5
<1>3. CASE get_serial
  <2>1. out' \in Serials
    BY <1>3, <1>a, <1>b DEF get_serial, Serials
  <2>2. "get_serial" \in ShortCalls
    BY DEF ShortCalls
  <2>3. tk' \in [Slots -> Entry] /\ overrun' \in BOOLEAN /\ ret' \in Int
    BY <1>3 DEF get_serial, tableVars, TypeOK
  <2>4. TypeOK'
    BY <1>3, <1>c, <2>1, <2>2, <2>3, ShortTyped DEF get_serial
  <2>5. OneSession'
    BY <1>3 DEF get_serial, tableVars, OneSession
  <2> QED
    BY <2>4, <2>5
<1>4. CASE get_device_count
  <2>1. "get_device_count" \in ShortCalls
    BY DEF ShortCalls
  <2>2. tk' \in [Slots -> Entry] /\ overrun' \in BOOLEAN /\ out' \in Serials
    BY <1>4, <1>t DEF get_device_count, tableVars, TypeOK
  <2>3. ret' \in Int
    BY <1>4, <1>t DEF get_device_count
  <2>4. TypeOK'
    BY <1>4, <1>e, <2>1, <2>2, <2>3, ShortTyped DEF get_device_count
  <2>5. OneSession'
    BY <1>4 DEF get_device_count, tableVars, OneSession
  <2> QED
    BY <2>4, <2>5
<1>5. ASSUME NEW serial \in Devices, select_device(serial)
      PROVE  TableInv'
  <2> DEFINE err == IF ActiveToken = -nErr_DNF \/ ~Connected(serial)
                    THEN nErr_DNF ELSE nErr_OK
  <2>1. /\ Short("select_device", err) /\ ret' = 0
        /\ overrun' = overrun /\ out' = out
        /\ tk' = IF err = nErr_OK
                 THEN [tk EXCEPT ![ActiveToken].selected = TRUE] ELSE tk
    BY <1>5 DEF select_device
  <2>4. err \in ErrorNumbers /\ "select_device" \in ShortCalls
    BY <1>e DEF ShortCalls
  <2>5. overrun' \in BOOLEAN /\ ret' \in Int /\ out' \in Serials
    BY <2>1, <1>t DEF TypeOK
  <2> HIDE DEF err
  <2>2. CASE err = nErr_OK
    <3>1. ActiveToken = 0 /\ tk[0].inUse
      BY <1>0, <1>n, <2>2 DEF nErr_OK, nErr_DNF, err
    <3>2. tk' = [tk EXCEPT ![0].selected = TRUE]
      BY <2>1, <2>2, <3>1
    <3>3. tk' \in [Slots -> Entry]
      BY <3>2, <1>t, <1>s DEF Entry
    <3>4. OneSession'
      BY <3>1, <3>2, <1>t, <1>s DEF OneSession, Entry
    <3>5. TypeOK'
      BY <2>1, <2>4, <2>5, <3>3, ShortTyped
    <3> QED
      BY <3>4, <3>5
  <2>3. CASE err # nErr_OK
    <3>1. tk' = tk
      BY <2>1, <2>3
    <3>2. TypeOK'
      BY <2>1, <2>4, <2>5, <3>1, <1>t, ShortTyped
    <3>3. OneSession'
      BY <3>1 DEF OneSession
    <3> QED
      BY <3>2, <3>3
  <2> QED
    BY <2>2, <2>3
<1>6. ASSUME NEW f \in Calls, NEW k \in 0 .. 3, Begin(f, k)
      PROVE  TableInv'
  <2>1. OneSession'
    BY <1>6 DEF Begin, tableVars, OneSession
  <2>2. CASE f \in FileCalls
    <3>1. PICK r \in {"public", "private"} : StartRoutine(r)
      BY <1>6, <2>2 DEF Begin
    <3>2. TypeOK'
      BY <1>6, <2>2, <3>1, RoutineTyped, ConstantTypes DEF Begin, tableVars, TypeOK
    <3> QED
      BY <2>1, <3>2
  <2>3. CASE f \notin FileCalls
    BY <1>6, <2>1, <2>3, ConstantTypes DEF Begin, tableVars, keyVars, TypeOK
  <2> QED
    BY <2>2, <2>3
<1>7. RsaCalls \subseteq Calls
  BY DEF Calls
<1> QED
  BY <1>1, <1>2, <1>3, <1>4, <1>5, <1>6, <1>7 DEF Call

\* The steps of the functions that exchange packets: none touches the table.
LEMMA TableStep == TableInv /\ Step => TableInv'
<1> SUFFICES ASSUME TableInv, Step PROVE TableInv'
  OBVIOUS
<1> USE DEF TableInv
<1>e. {nErr_OK, nErr_DNF, nErr_DNS, nErr_OTE, nErr_INVKT, nErr_INSGN, nErr_RSANS}
      \subseteq ErrorNumbers
  BY DEF ErrorNumbers
<1>i. ErrorNumbers \subseteq Int
  BY ConstantTypes
<1>t. stat \in [word : Nat, real : BOOLEAN] /\ sent \in [to : Serials, serial : Serials]
  BY DEF TypeOK
<1>1. CASE CheckSession
  <2>1. CASE SessionError # nErr_OK
    <3>1. SessionError \in ErrorNumbers
      BY <1>e DEF SessionError, ActiveError
    <3>2. Fail(SessionError) /\ stat' = stat /\ sent' = sent
      BY <1>1, <2>1 DEF CheckSession
    <3> QED
      BY <1>t, <3>1, <3>2, FailTyped
  <2>2. CASE SessionError = nErr_OK
    <3>1. TypeOK'
      BY <1>1, <2>2 DEF CheckSession, TypeOK, tableVars, keyVars
    <3>2. OneSession'
      BY <1>1, <2>2 DEF CheckSession, OneSession, tableVars
    <3> QED
      BY <3>1, <3>2
  <2> QED
    BY <2>1, <2>2
<1>2. ASSUME NEW s \in Statuses, GetDevStatusInternal(s), stat' = s
      PROVE  stat' \in [word : Nat, real : BOOLEAN] /\ sent' \in [to : Serials, serial : Serials]
  BY <1>2, StatusType, SendType DEF GetDevStatusInternal
<1>3. ASSUME NEW s \in Statuses, DeviceStatus(s)
      PROVE  TableInv'
  <2>1. /\ stat' \in [word : Nat, real : BOOLEAN]
        /\ sent' \in [to : Serials, serial : Serials]
    BY <1>2, <1>3 DEF DeviceStatus
  <2>2. StatusError(s.word) \in ErrorNumbers
    BY StatusType, StatusErrorType
  <2>3. CASE Fail(StatusError(s.word))
    BY <2>1, <2>2, <2>3, FailTyped
  <2>4. CASE Return(nErr_OK, nErr_OK, "none")
    BY <1>e, <1>i, <2>1, <2>4, ReturnTyped
  <2>5. CASE /\ LAST_ERR_NO' = nErr_OK
             /\ IF fn \in RsaCalls
                THEN pc' = "status2" /\ UNCHANGED <<routine, kt, key_index, result>>
                ELSE pc' = "key" /\ StartRoutine("public")
             /\ UNCHANGED <<bus, tableVars, fn, key_type, ret, buff, key, out>>
    <3>1. OneSession'
      BY <2>5 DEF OneSession, tableVars
    <3>2. CASE fn \in RsaCalls
      BY <1>e, <2>1, <2>5, <3>1, <3>2 DEF TypeOK, tableVars
    <3>3. CASE fn \notin RsaCalls
      BY <1>e, <2>1, <2>5, <3>1, <3>3, RoutineTyped DEF TypeOK, tableVars
    <3> QED
      BY <3>2, <3>3
  <2> QED
    BY <1>3, <2>3, <2>4, <2>5 DEF DeviceStatus
<1>4. ASSUME NEW s \in Statuses, RsaStatus(s)
      PROVE  TableInv'
  <2>1. /\ stat' \in [word : Nat, real : BOOLEAN]
        /\ sent' \in [to : Serials, serial : Serials]
    BY <1>2, <1>4 DEF RsaStatus
  <2>2. ~(s.word < 0)
    BY StatusType
  <2>3. CASE Fail(nErr_RSANS) \/ Fail(nErr_OTE) \/ Fail(nErr_INVKT)
    BY <1>e, <2>1, <2>3, FailTyped
  <2>4. CASE /\ pc' = "key" /\ StartRoutine("public")
             /\ UNCHANGED <<bus, tableVars, LAST_ERR_NO, fn, key_type, ret, buff,
                            key, out>>
    <3>1. OneSession'
      BY <2>4 DEF OneSession, tableVars
    <3> QED
      BY <2>1, <2>4, <3>1, RoutineTyped DEF TypeOK, tableVars
  <2> QED
    BY <1>4, <2>2, <2>3, <2>4 DEF RsaStatus
<1>5. ASSUME NEW res \in PacketErrors, KeyFail(res)
      PROVE  TableInv'
  <2>1. res * (-1) \in ErrorNumbers
    BY PacketErrorType
  <2>2. sent' \in [to : Serials, serial : Serials]
    BY <1>5, SendType DEF KeyFail
  <2> QED
    BY <1>5, <1>t, <2>1, <2>2, FailTyped DEF KeyFail
<1>6. ASSUME SendPacket(nErr_OK)
      PROVE  /\ sent' \in [to : Serials, serial : Serials]
             /\ \A whole \in BOOLEAN : StoreChunk(whole) \in [Chunks -> Chunk]
  BY <1>6, SendType, StoreType
<1>7. CASE \E whole \in BOOLEAN : KeyChunk(whole)
  <2>0. PICK whole \in BOOLEAN : KeyChunk(whole)
    BY <1>7
  <2>1. key_index' \in Chunks
    BY <2>0, SizeAssumption DEF KeyChunk, Chunks, TypeOK
  <2>2. TypeOK'
    BY <1>6, <2>0, <2>1 DEF KeyChunk, TypeOK, tableVars, callVars
  <2>3. OneSession'
    BY <2>0 DEF KeyChunk, OneSession, tableVars
  <2> QED
    BY <2>2, <2>3
<1>8. CASE \E whole \in BOOLEAN : KeyPart(whole)
  <2>0. PICK whole \in BOOLEAN : KeyPart(whole)
    BY <1>8
  <2>1. key' \in [Parts -> [Chunks -> Chunk]]
    BY <1>6, <2>0 DEF KeyPart, TypeOK
  <2>2. key_index' \in Chunks /\ kt' \in Parts \cup {0}
    BY <2>0, ConstantTypes DEF KeyPart, Parts
  <2>3. TypeOK'
    BY <1>6, <2>0, <2>1, <2>2 DEF KeyPart, TypeOK, tableVars, callVars
  <2>4. OneSession'
    BY <2>0 DEF KeyPart, OneSession, tableVars
  <2> QED
    BY <2>3, <2>4
<1>9. CASE \E whole \in BOOLEAN : KeyEnd(whole)
  <2>0. PICK whole \in BOOLEAN : KeyEnd(whole)
    BY <1>9
  <2>1. key' \in [Parts -> [Chunks -> Chunk]]
    BY <1>6, <2>0 DEF KeyEnd, TypeOK
  <2>2. /\ routine' \in {"none", "public", "private"} /\ kt' \in Parts \cup {0}
        /\ key_index' \in Chunks /\ result' \in [Chunks -> Chunk]
        /\ pc' \in {"idle", "check", "status", "status2", "key", "rsa"}
    BY <2>0, ConstantTypes, RoutineTyped DEF KeyEnd, TypeOK
  <2>3. TypeOK'
    BY <1>6, <2>0, <2>1, <2>2 DEF KeyEnd, TypeOK, tableVars
  <2>4. OneSession'
    BY <2>0 DEF KeyEnd, OneSession, tableVars
  <2> QED
    BY <2>3, <2>4
<1>10. CASE RsaOperation
  <2>1. stat' = stat /\ sent' = sent
    BY <1>10 DEF RsaOperation
  <2>2. CASE \E len \in RsaLens : Return(nErr_OK, len, "none")
    BY <1>e, <1>t, <2>1, <2>2, ReplyAssumption, ReturnTyped
  <2>3. CASE \E err \in {nErr_OTE, nErr_INVKT} : Fail(err)
    BY <1>e, <1>t, <2>1, <2>3, FailTyped
  <2>4. CASE \E err \in {nErr_OK, nErr_OTE, nErr_INSGN} : Return(err, err, "none")
    BY <1>e, <1>i, <1>t, <2>1, <2>4, ReturnTyped
  <2> QED
    BY <1>10, <2>2, <2>3, <2>4 DEF RsaOperation
<1>11. CASE ExportKey
  <2>1. stat' = stat /\ sent' = sent
    BY <1>11 DEF ExportKey
  <2>2. CASE Fail(nErr_OTE)
    BY <1>e, <1>t, <2>1, <2>2, FailTyped
  <2>3. CASE \E err \in {nErr_OK, nErr_OTE} : Return(err, 0, "malloc")
    BY <1>e, <1>t, <2>1, <2>3, ReturnTyped
  <2> QED
    BY <1>11, <2>2, <2>3 DEF ExportKey
<1> QED
  BY <1>1, <1>3, <1>4, <1>5, <1>7, <1>8, <1>9, <1>10, <1>11 DEF Step

\* Nothing happens to the table or the types while nothing happens.
LEMMA TableStutter == TableInv /\ UNCHANGED vars => TableInv'
BY DEF TableInv, TypeOK, OneSession, vars

LEMMA TableNext == TableInv /\ [Next]_vars => TableInv'
BY TableStep, TableCall, TableEnvironment, TableStutter DEF Next

LEMMA TableInvariant == Spec => []TableInv
BY TableInit, TableNext, PTL DEF Spec

\* The types hold in every state the library can reach.
THEOREM TypeCorrect == Spec => []TypeOK
<1>1. TableInv => TypeOK
  BY DEF TableInv
<1> QED
  BY TableInvariant, <1>1, PTL

\* Of the whole table only entry 0 is ever active or selected, for any number
\* of tokens, any table size and any order of calls.
THEOREM OneSessionHolds == Spec => []OneSession
<1>1. TableInv => OneSession
  BY DEF TableInv
<1> QED
  BY TableInvariant, <1>1, PTL

-----------------------------------------------------------------------------
(* The key handed to OpenSSL.  The routine's buffer is reused for two           *)
(* parts and a block spills into the next, so the invariant says how far the    *)
(* loop has got (every block before key_index is the current part's), which     *)
(* parts were already copied out, and that the running routine is one the call  *)
(* needs.                                                                        *)

Prefix(n) == \A c \in Chunks : c < n => result[c].part = kt

Reading ==
  /\ routine \in {"public", "private"}
  /\ kt \in {FirstPart(routine), KT_Exponent}
  /\ routine = "public"  => NeedsPublic(fn, key_type)
  /\ routine = "private" => NeedsPrivate(fn, key_type)
  /\ routine = "private" /\ NeedsPublic(fn, key_type) => InPlace(key[KT_Public], KT_Public)
  /\ kt = KT_Exponent => InPlace(key[FirstPart(routine)], FirstPart(routine))
  /\ Prefix(key_index)

\* The functions that ask for the status first are the calls without a file.
Asking == pc \in {"check", "status"} => fn \in Calls \ FileCalls

KeyInv == Asking /\ (pc = "key" => Reading) /\ KeyInPlace

\* A stored block extends the part read so far; the last one completes it.
LEMMA StorePrefix ==
  ASSUME TableInv, Prefix(key_index), NEW whole \in BOOLEAN
  PROVE  /\ \A c \in Chunks : c < key_index + 1 => StoreChunk(whole)[c].part = kt
         /\ key_index = KeyChunks - 1 => InPlace(StoreChunk(whole), kt)
<1>1. key_index \in Chunks
  BY DEF TableInv, TypeOK
<1>2. \A c \in Chunks : c < key_index + 1 => StoreChunk(whole)[c].part = kt
  BY <1>1, SizeAssumption DEF StoreChunk, Prefix, Chunks
<1>3. key_index = KeyChunks - 1 => \A c \in Chunks : c < key_index + 1
  BY SizeAssumption DEF Chunks
<1> QED
  BY <1>2, <1>3 DEF InPlace

\* A routine starts with nothing read.
LEMMA RoutineStarts ==
  ASSUME NEW r \in {"public", "private"}, StartRoutine(r)
  PROVE  /\ routine' = r /\ kt' = FirstPart(r)
         /\ kt' # KT_Exponent
         /\ Prefix(key_index)'
<1>1. \A c \in Chunks : ~(c < 0)
  BY SizeAssumption DEF Chunks
<1> QED
  BY <1>1 DEF StartRoutine, Prefix, FirstPart, KT_Public, KT_Private, KT_Exponent

\* A call that returns reads no key.
LEMMA ReturnReadsNothing ==
  ASSUME NEW err, NEW r, NEW b, Return(err, r, b)
  PROVE  KeyInv'
BY DEF Return, KeyInv, KeyInPlace, Asking

LEMMA FailReadsNothing ==
  ASSUME NEW err, Fail(err)
  PROVE  KeyInv'
BY ReturnReadsNothing DEF Fail

\* The steps that neither read a key nor start to.
LEMMA KeyUnmoved ==
  ASSUME KeyInv, UNCHANGED <<pc, fn, key_type, routine, kt, key_index, result, key>>
  PROVE  KeyInv'
BY DEF KeyInv, Asking, KeyInPlace, Reading, Prefix, InPlace, PartsUsed, NeedsPublic,
       NeedsPrivate, FirstPart

\* Starting the public routine for a call that needs it.
LEMMA PublicStarts ==
  ASSUME StartRoutine("public"), pc' = "key",
         fn' = fn, key_type' = key_type, NeedsPublic(fn, key_type)
  PROVE  KeyInv'
<1>1. Prefix(key_index)' /\ routine' = "public" /\ kt' = FirstPart("public") /\ kt' # KT_Exponent
  BY RoutineStarts
<1>2. NeedsPublic(fn', key_type')
  OBVIOUS
<1> QED
  BY <1>1, <1>2 DEF KeyInv, Asking, KeyInPlace, Reading

LEMMA KeyStep == TableInv /\ KeyInv /\ Step => KeyInv'
<1> SUFFICES ASSUME TableInv, KeyInv, Step PROVE KeyInv'
  OBVIOUS
<1>1. CASE CheckSession
  <2>1. CASE Fail(SessionError)
    BY <2>1, FailReadsNothing
  <2>2. CASE pc' = "status" /\ pc = "check" /\ fn' = fn
    BY <2>2 DEF KeyInv, KeyInPlace, Asking
  <2> QED
    BY <1>1, <2>1, <2>2 DEF CheckSession
<1>2. ASSUME NEW s \in Statuses, DeviceStatus(s)
      PROVE  KeyInv'
  <2>1. CASE Fail(StatusError(s.word))
    BY <2>1, FailReadsNothing
  <2>2. CASE Return(nErr_OK, nErr_OK, "none")
    BY <2>2, ReturnReadsNothing
  <2>3. CASE pc' = "status2"
    BY <2>3 DEF KeyInv, KeyInPlace, Asking
  <2>4. CASE /\ pc' = "key" /\ StartRoutine("public")
             /\ fn \notin RsaCalls /\ fn # "get_device_status"
             /\ fn' = fn /\ key_type' = key_type
    <3>1. fn \in {"get_signature", "verify_signature"}
      BY <1>2, <2>4 DEF DeviceStatus, KeyInv, Asking, Calls
    <3> QED
      BY <2>4, <3>1, PublicStarts DEF NeedsPublic
  <2> QED
    BY <1>2, <2>1, <2>2, <2>3, <2>4 DEF DeviceStatus
<1>3. ASSUME NEW s \in Statuses, RsaStatus(s)
      PROVE  KeyInv'
  <2>1. CASE Fail(s.word) \/ Fail(nErr_RSANS) \/ Fail(nErr_OTE) \/ Fail(nErr_INVKT)
    BY <2>1, FailReadsNothing
  <2>2. CASE /\ NeedsPublic(fn, key_type) /\ pc' = "key" /\ StartRoutine("public")
             /\ fn' = fn /\ key_type' = key_type
    BY <2>2, PublicStarts
  <2> QED
    BY <1>3, <2>1, <2>2 DEF RsaStatus
<1>4. ASSUME NEW res \in PacketErrors, KeyFail(res)
      PROVE  KeyInv'
  BY <1>4, FailReadsNothing DEF KeyFail
<1>5. pc = "key" /\ SendPacket(nErr_OK) =>
        /\ Reading /\ Prefix(key_index)
        /\ \A whole \in BOOLEAN :
              /\ \A c \in Chunks : c < key_index + 1 => StoreChunk(whole)[c].part = kt
              /\ key_index = KeyChunks - 1 => InPlace(StoreChunk(whole), kt)
  BY StorePrefix DEF KeyInv, Reading
<1>6. CASE \E whole \in BOOLEAN : KeyChunk(whole)
  <2>0. PICK whole \in BOOLEAN : KeyChunk(whole)
    BY <1>6
  <2>1. /\ pc' = "key" /\ routine' = routine /\ kt' = kt /\ key' = key
        /\ fn' = fn /\ key_type' = key_type
        /\ result' = StoreChunk(whole) /\ key_index' = key_index + 1
    BY <2>0 DEF KeyChunk, callVars
  <2>2. Reading /\ Prefix(key_index)'
    BY <1>5, <2>0, <2>1 DEF KeyChunk, Prefix
  <2> QED
    BY <2>1, <2>2 DEF KeyInv, Asking, KeyInPlace, Reading, InPlace
<1>7. CASE \E whole \in BOOLEAN : KeyPart(whole)
  <2>0. PICK whole \in BOOLEAN : KeyPart(whole)
    BY <1>7
  <2>1. /\ pc' = "key" /\ routine' = routine /\ kt' = KT_Exponent
        /\ fn' = fn /\ key_type' = key_type /\ key_index' = 0
        /\ key' = [key EXCEPT ![kt] = StoreChunk(whole)]
    BY <2>0 DEF KeyPart, callVars
  <2>2. Reading /\ InPlace(StoreChunk(whole), kt) /\ kt = FirstPart(routine) /\ kt \in Parts
    BY <1>5, <2>0 DEF KeyPart, Reading, FirstPart, Parts
  <2>3. \A p \in Parts : key'[p] = IF p = kt THEN StoreChunk(whole) ELSE key[p]
    BY <2>1 DEF TableInv, TypeOK
  <2>4. Prefix(key_index)'
    BY <2>1, SizeAssumption DEF Prefix, Chunks
  <2>5. InPlace(key'[FirstPart(routine')], FirstPart(routine'))
    BY <2>1, <2>2, <2>3
  <2>6. routine' = "private" /\ NeedsPublic(fn', key_type') => InPlace(key'[KT_Public], KT_Public)
    BY <2>1, <2>2, <2>3 DEF Reading, FirstPart, KT_Private, KT_Public, Parts
  <2> QED
    BY <2>1, <2>2, <2>4, <2>5, <2>6 DEF KeyInv, Asking, KeyInPlace, Reading
<1>8. CASE \E whole \in BOOLEAN : KeyEnd(whole)
  <2>0. PICK whole \in BOOLEAN : KeyEnd(whole)
    BY <1>8
  <2>1. /\ fn' = fn /\ key_type' = key_type
        /\ key' = [key EXCEPT ![KT_Exponent] = StoreChunk(whole)]
    BY <2>0 DEF KeyEnd
  <2>2. Reading /\ InPlace(StoreChunk(whole), KT_Exponent) /\ kt = KT_Exponent
    BY <1>5, <2>0 DEF KeyEnd
  <2>3. \A p \in Parts : key'[p] = IF p = KT_Exponent THEN StoreChunk(whole) ELSE key[p]
    BY <2>1 DEF TableInv, TypeOK
  <2>4. KT_Private # KT_Exponent /\ KT_Public # KT_Exponent
        /\ {KT_Private, KT_Public, KT_Exponent} \subseteq Parts
    BY DEF KT_Private, KT_Public, KT_Exponent, Parts
  <2>5. CASE routine = "public" /\ NeedsPrivate(fn, key_type)
    <3>1. pc' = "key" /\ StartRoutine("private")
      BY <2>0, <2>5 DEF KeyEnd
    <3>2. /\ routine' = "private" /\ kt' = FirstPart("private")
          /\ kt' # KT_Exponent /\ Prefix(key_index)'
      BY <3>1, RoutineStarts
    <3>3. InPlace(key'[KT_Public], KT_Public)
      BY <2>2, <2>3, <2>4, <2>5 DEF Reading, FirstPart
    <3>4. NeedsPrivate(fn', key_type')
      BY <2>1, <2>5
    <3> QED
      BY <3>1, <3>2, <3>3, <3>4 DEF KeyInv, Asking, KeyInPlace, Reading
  <2>6. CASE ~(routine = "public" /\ NeedsPrivate(fn, key_type))
    <3>1. pc' = "rsa"
      BY <2>0, <2>6 DEF KeyEnd
    <3>2. InPlace(key'[KT_Exponent], KT_Exponent)
      BY <2>2, <2>3, <2>4
    <3>3. NeedsPublic(fn, key_type) => InPlace(key'[KT_Public], KT_Public)
      BY <2>2, <2>3, <2>4 DEF Reading, FirstPart
    <3>4. NeedsPrivate(fn, key_type) => InPlace(key'[KT_Private], KT_Private)
      BY <2>2, <2>3, <2>4, <2>6 DEF Reading, FirstPart
    <3>5. ASSUME NEW p \in PartsUsed'
          PROVE  InPlace(key'[p], p)
      <4>1. p \in PartsUsed
        BY <2>1, <3>5 DEF PartsUsed, NeedsPublic, NeedsPrivate
      <4> QED
        BY <3>2, <3>3, <3>4, <4>1 DEF PartsUsed
    <3> QED
      BY <3>1, <3>5 DEF KeyInv, Asking, KeyInPlace, InPlace
  <2> QED
    BY <2>5, <2>6
<1>9. CASE RsaOperation
  BY <1>9, ReturnReadsNothing, FailReadsNothing DEF RsaOperation
<1>10. CASE ExportKey
  BY <1>10, ReturnReadsNothing, FailReadsNothing DEF ExportKey
<1> QED
  BY <1>1, <1>2, <1>3, <1>4, <1>6, <1>7, <1>8, <1>9, <1>10 DEF Step

LEMMA KeyCall == KeyInv /\ Call => KeyInv'
<1> SUFFICES ASSUME KeyInv, Call PROVE KeyInv'
  OBVIOUS
<1>1. ASSUME NEW f, NEW err, Short(f, err)
      PROVE  KeyInv'
  BY <1>1 DEF Short, KeyInv, Asking, KeyInPlace
<1>2. ASSUME NEW f \in Calls, NEW k \in 0 .. 3, Begin(f, k)
      PROVE  KeyInv'
  <2>1. CASE f \notin FileCalls
    BY <1>2, <2>1 DEF Begin, KeyInv, Asking, KeyInPlace
  <2>2. CASE f \in FileCalls
    <3> DEFINE r == IF f = "get_public_key" THEN "public" ELSE "private"
    <3>1. StartRoutine(r) /\ pc' = "key" /\ fn' = f
      BY <1>2, <2>2 DEF Begin
    <3>2. /\ routine' = r /\ kt' = FirstPart(r) /\ kt' # KT_Exponent
          /\ Prefix(key_index)'
      BY <3>1, RoutineStarts
    <3>3. /\ r = "public" => NeedsPublic(fn', key_type')
          /\ r = "private" => NeedsPrivate(fn', key_type')
          /\ r = "private" => ~NeedsPublic(fn', key_type')
      BY <2>2, <3>1 DEF FileCalls, RsaCalls, NeedsPublic, NeedsPrivate
    <3> QED
      BY <3>1, <3>2, <3>3 DEF KeyInv, Asking, KeyInPlace, Reading
  <2> QED
    BY <2>1, <2>2
<1> QED
  BY <1>1, <1>2 DEF Call, get_first_device, get_curr_dev_serial, get_serial,
     get_device_count, select_device, Calls, RsaCalls

LEMMA KeyEnvironment == KeyInv /\ Environment => KeyInv'
<1> SUFFICES ASSUME KeyInv, Environment PROVE KeyInv'
  OBVIOUS
<1>1. CASE Reload
  BY <1>1 DEF Reload, KeyInv, Asking, KeyInPlace
<1>2. CASE UNCHANGED <<callVars, keyVars>>
  BY <1>2, KeyUnmoved DEF callVars, keyVars
<1> QED
  BY <1>1, <1>2 DEF Environment, Plug, Unplug

LEMMA KeyInit == Init => KeyInv
BY DEF Init, KeyInv, Asking, KeyInPlace

LEMMA KeyStutter == KeyInv /\ UNCHANGED vars => KeyInv'
BY KeyUnmoved DEF vars

\* Whatever is plugged in or out while a key is read, a part OpenSSL is given
\* consists of all its blocks, each as the answer to its own request left it
\* (novintools.c:308, novinlib.c: _get_public_key, _get_private_key).
THEOREM KeyIsInPlace == Spec => []KeyInPlace
<1>1. TableInv /\ KeyInv /\ [Next]_vars => KeyInv'
  BY KeyStep, KeyCall, KeyEnvironment, KeyStutter DEF Next
<1>2. KeyInv => KeyInPlace
  BY DEF KeyInv
<1> QED
  BY TableInvariant, KeyInit, <1>1, <1>2, PTL DEF Spec

-----------------------------------------------------------------------------
(* The gate of rsa_encrypt and rsa_decrypt *)

\* An error number fits a byte, so it never has the bit of CS_RSA1024.
LEMMA SmallHasNoFlag ==
  ASSUME NEW w \in Nat, w < 256
  PROVE  ~HasFlag(w, CS_RSA1024)
<1>1. w \div 2048 = 0
  OBVIOUS
<1> QED
  BY <1>1 DEF HasFlag, CS_RSA1024

LEMMA GateStep == TableInv /\ RsaGate /\ Step => RsaGate'
<1> SUFFICES ASSUME TableInv, RsaGate, Step PROVE RsaGate'
  OBVIOUS
<1>1. ASSUME NEW err, err # nErr_OK, Fail(err)
      PROVE  RsaGate'
  BY <1>1 DEF Fail, Return, RsaGate
<1>2. /\ nErr_RSANS # nErr_OK /\ nErr_OTE # nErr_OK /\ nErr_INVKT # nErr_OK
      /\ "get_device_status" \notin RsaCalls
      /\ FileCalls \cap RsaCalls = {}
  BY DEF nErr_RSANS, nErr_OTE, nErr_INVKT, nErr_OK, RsaCalls, FileCalls
<1>3. CASE CheckSession
  <2>1. CASE pc' = "status"
    BY <2>1 DEF RsaGate
  <2> QED
    BY <1>1, <1>3, <2>1 DEF CheckSession
<1>4. ASSUME NEW s \in Statuses, DeviceStatus(s)
      PROVE  RsaGate'
  <2>1. CASE Return(nErr_OK, nErr_OK, "none") /\ fn = "get_device_status"
    BY <1>2, <2>1 DEF Return, RsaGate
  <2>2. CASE pc' = "status2"
    BY <2>2 DEF RsaGate
  <2>3. CASE fn \notin RsaCalls /\ fn' = fn
    BY <2>3 DEF RsaGate
  <2> QED
    BY <1>1, <1>4, <2>1, <2>2, <2>3 DEF DeviceStatus
<1>5. ASSUME NEW s \in Statuses, RsaStatus(s)
      PROVE  RsaGate'
  <2>1. ~(s.word < 0)
    BY StatusType
  <2>2. HasFlag(s.word, CS_RSA1024) => s.real
    BY StatusType, SmallHasNoFlag
  <2>3. CASE stat' = s /\ HasFlag(s.word, CS_RSA1024)
    BY <2>2, <2>3 DEF RsaGate
  <2> QED
    BY <1>1, <1>2, <1>5, <2>1, <2>3 DEF RsaStatus
<1>6. ASSUME NEW res \in PacketErrors, KeyFail(res)
      PROVE  RsaGate'
  <2>1. res * (-1) # nErr_OK
    BY PacketErrorType DEF nErr_OK
  <2> QED
    BY <1>1, <1>6, <2>1 DEF KeyFail
<1>7. CASE \E whole \in BOOLEAN : KeyChunk(whole) \/ KeyPart(whole) \/ KeyEnd(whole)
  BY <1>7 DEF KeyChunk, KeyPart, KeyEnd, callVars, RsaGate
<1>8. CASE RsaOperation
  BY <1>8 DEF RsaOperation, Fail, Return, RsaGate
<1>9. CASE ExportKey
  BY <1>2, <1>9 DEF ExportKey, Fail, Return, RsaGate
<1> QED
  BY <1>3, <1>4, <1>5, <1>6, <1>7, <1>8, <1>9 DEF Step

LEMMA GateCall == RsaGate /\ Call => RsaGate'
<1>1. ASSUME NEW f \in ShortCalls, NEW err, Short(f, err)
      PROVE  RsaGate'
  BY <1>1 DEF Short, RsaGate, ShortCalls, RsaCalls
<1>2. ASSUME NEW f \in Calls, NEW k, Begin(f, k)
      PROVE  RsaGate'
  <2>1. pc' = "check" \/ f \in FileCalls
    BY <1>2 DEF Begin
  <2>2. FileCalls \cap RsaCalls = {}
    BY DEF FileCalls, RsaCalls
  <2> QED
    BY <1>2, <2>1, <2>2 DEF Begin, RsaGate
<1>3. {"get_first_device", "get_curr_dev_serial", "select_device", "get_serial",
       "get_device_count"} \subseteq ShortCalls
  BY DEF ShortCalls
<1>4. RsaCalls \subseteq Calls
  BY DEF Calls
<1> QED
  BY <1>1, <1>2, <1>3, <1>4 DEF Call, get_first_device, get_curr_dev_serial,
     get_serial, get_device_count, select_device

LEMMA GateEnvironment == RsaGate /\ Environment => RsaGate'
<1>1. ASSUME RsaGate, UNCHANGED <<callVars, LAST_ERR_NO>>
      PROVE  RsaGate'
  BY <1>1 DEF callVars, RsaGate
<1>2. Reload => RsaGate'
  BY DEF Reload, RsaGate, RsaCalls
<1> QED
  BY <1>1, <1>2 DEF Environment, Plug, Unplug

\* For every set of status words and device codes: no error taken for a status
\* word ever opens the key to rsa_encrypt or rsa_decrypt, and neither succeeds
\* unless a token reported CS_RSA1024.
THEOREM RsaGateHolds == Spec => []RsaGate
<1>1. Init => RsaGate
  BY DEF Init, RsaGate, RsaCalls
<1>2. RsaGate /\ UNCHANGED vars => RsaGate'
  BY DEF RsaGate, vars
<1>3. TableInv /\ RsaGate /\ [Next]_vars => RsaGate'
  BY <1>2, GateStep, GateCall, GateEnvironment DEF Next
<1> QED
  BY TableInvariant, <1>1, <1>3, PTL DEF Spec

-----------------------------------------------------------------------------
(* Packets are keyed by the selected serial *)

\* Sending a packet records the serial of an active, selected entry.
LEMMA SendKeyed ==
  ASSUME TableInv, NEW res, SendPacket(res), UNCHANGED tk
  PROVE  PacketKeyed'
<1>1. ActiveToken = IF tk[0].inUse THEN 0 ELSE -nErr_DNF
  BY ActiveValue DEF TableInv
<1>2. 0 \in Slots /\ -nErr_DNF \notin Slots
  BY ConstantTypes DEF Slots, nErr_DNF
<1>3. ActiveSelected => ActiveToken = 0 /\ tk[0].inUse /\ tk[0].selected
  BY <1>1, <1>2 DEF ActiveSelected
<1> QED
  BY <1>2, <1>3 DEF SendPacket, PacketKeyed

\* Whatever the order of calls, also when a key is asked for before any token
\* was looked for, no packet goes out under a serial nobody selected.
THEOREM PacketKeyedHolds == Spec => []PacketKeyed
<1>1. Init => PacketKeyed
  BY DEF Init, PacketKeyed
<1>2. ASSUME PacketKeyed, UNCHANGED <<tk, sent>>
      PROVE  PacketKeyed'
  BY <1>2 DEF PacketKeyed
<1>3. ASSUME sent' = NoPacket
      PROVE  PacketKeyed'
  BY <1>3 DEF PacketKeyed
<1>4. TableInv /\ PacketKeyed /\ Step => PacketKeyed'
  <2> SUFFICES ASSUME TableInv, PacketKeyed, Step PROVE PacketKeyed'
    OBVIOUS
  <2>1. tk' = tk
    BY DEF Step, CheckSession, DeviceStatus, RsaStatus, KeyFail, KeyChunk, KeyPart,
       KeyEnd, RsaOperation, ExportKey, Fail, Return, tableVars
  <2>2. sent' = sent \/ \E res : SendPacket(res)
    BY DEF Step, CheckSession, DeviceStatus, RsaStatus, KeyFail, KeyChunk, KeyPart,
       KeyEnd, RsaOperation, ExportKey, GetDevStatusInternal
  <2> QED
    BY <1>2, <2>1, <2>2, SendKeyed
<1>5. Call => sent' = NoPacket
  BY DEF Call, get_first_device, get_curr_dev_serial, get_serial,
     get_device_count, select_device, Short, Begin
<1>6. Environment => sent' = NoPacket \/ UNCHANGED <<tk, sent>>
  BY DEF Environment, Plug, Unplug, Reload, tableVars
<1>7. UNCHANGED vars => UNCHANGED <<tk, sent>>
  BY DEF vars
<1>8. TableInv /\ PacketKeyed /\ [Next]_vars => PacketKeyed'
  BY <1>2, <1>3, <1>4, <1>5, <1>6, <1>7 DEF Next
<1> QED
  BY TableInvariant, <1>1, <1>8, PTL DEF Spec

-----------------------------------------------------------------------------
(* The signature functions stop at a token that is not healthy: only            *)
(* rsa_encrypt and rsa_decrypt read the status again once it was accepted.      *)

SignCalls == {"get_signature", "verify_signature"}

HealthInv ==
  /\ pc = "status2" => fn \in RsaCalls
  /\ fn \in SignCalls /\ pc \in {"key", "rsa"} =>
       \A bit \in {CS_Suspended, CS_Blocked, CS_Disabled} : ~HasFlag(stat.word, bit)

\* A status word that yields no error has none of the three bits.
LEMMA StatusHealthy ==
  ASSUME NEW w \in Nat, StatusError(w) = nErr_OK
  PROVE  \A bit \in {CS_Suspended, CS_Blocked, CS_Disabled} : ~HasFlag(w, bit)
<1>1. ~(w < 0)
  OBVIOUS
<1>2. nErr_CAT # nErr_OK /\ nErr_BLK # nErr_OK /\ nErr_DIS # nErr_OK
  BY DEF nErr_CAT, nErr_BLK, nErr_DIS, nErr_OK
<1>3. /\ ~HasFlag(w, CS_Suspended) /\ ~HasFlag(w, CS_Blocked)
      /\ ~HasFlag(w, CS_Disabled)
  BY <1>1, <1>2, Zenon DEF StatusError
<1> QED
  BY <1>3, Zenon

LEMMA HealthStep == HealthInv /\ Step => HealthInv'
<1> SUFFICES ASSUME HealthInv, Step PROVE HealthInv'
  OBVIOUS
<1>0. SignCalls \cap RsaCalls = {}
  BY DEF SignCalls, RsaCalls
<1>1. ASSUME NEW err, NEW r, NEW b, Return(err, r, b)
      PROVE  HealthInv'
  BY <1>1 DEF Return, HealthInv
<1>2. CASE CheckSession
  <2>1. CASE pc' = "status"
    BY <2>1 DEF HealthInv
  <2> QED
    BY <1>1, <1>2, <2>1 DEF CheckSession, Fail
<1>3. ASSUME NEW s \in Statuses, DeviceStatus(s)
      PROVE  HealthInv'
  <2>1. CASE StatusError(s.word) = nErr_OK /\ stat' = s /\ pc' = "key"
    <3>1. s.word \in Nat
      BY StatusType
    <3> QED
      BY <2>1, <3>1, StatusHealthy DEF HealthInv
  <2>2. CASE fn \in RsaCalls /\ fn' = fn /\ pc' = "status2"
    BY <2>2 DEF HealthInv
  <2> QED
    BY <1>1, <1>3, <2>1, <2>2 DEF DeviceStatus, Fail
<1>4. ASSUME NEW s \in Statuses, RsaStatus(s)
      PROVE  HealthInv'
  <2>1. fn \notin SignCalls
    BY <1>0, <1>4 DEF RsaStatus, HealthInv
  <2>2. CASE fn' = fn /\ pc' = "key"
    BY <2>1, <2>2 DEF HealthInv
  <2> QED
    BY <1>1, <1>4, <2>2 DEF RsaStatus, Fail
<1>5. ASSUME NEW res \in PacketErrors, KeyFail(res)
      PROVE  HealthInv'
  BY <1>1, <1>5 DEF KeyFail, Fail
<1>6. CASE \E whole \in BOOLEAN : KeyChunk(whole) \/ KeyPart(whole) \/ KeyEnd(whole)
  BY <1>6 DEF KeyChunk, KeyPart, KeyEnd, callVars, HealthInv
<1>7. CASE RsaOperation \/ ExportKey
  BY <1>1, <1>7 DEF RsaOperation, ExportKey, Fail
<1> QED
  BY <1>2, <1>3, <1>4, <1>5, <1>6, <1>7 DEF Step

\* get_signature and verify_signature never read the key of a token that
\* answered that it is suspended, blocked or disabled.
THEOREM HealthyTokenHolds == Spec => []HealthyToken
<1>1. Init => HealthInv
  BY DEF Init, HealthInv
<1>2. Call => HealthInv'
  <2>1. ASSUME NEW f, NEW err, Short(f, err)
        PROVE  pc' = "idle"
    BY <2>1 DEF Short
  <2>2. ASSUME NEW f, NEW k, Begin(f, k)
        PROVE  HealthInv'
    <3>1. pc' = "check" \/ (pc' = "key" /\ fn' \in FileCalls)
      BY <2>2 DEF Begin
    <3>2. FileCalls \cap SignCalls = {}
      BY DEF FileCalls, SignCalls
    <3> QED
      BY <3>1, <3>2 DEF HealthInv
  <2>3. pc' = "idle" => HealthInv'
    BY DEF HealthInv
  <2> QED
    BY <2>1, <2>2, <2>3 DEF Call, get_first_device, get_curr_dev_serial, get_serial,
       get_device_count, select_device
<1>3. HealthInv /\ Environment => HealthInv'
  BY DEF Environment, Plug, Unplug, Reload, callVars, HealthInv
<1>4. HealthInv /\ UNCHANGED vars => HealthInv'
  BY DEF vars, HealthInv
<1>5. HealthInv /\ [Next]_vars => HealthInv'
  BY <1>2, <1>3, <1>4, HealthStep DEF Next
<1>6. HealthInv => HealthyToken
  BY DEF HealthInv, HealthyToken, SignCalls
<1> QED
  BY <1>1, <1>5, <1>6, PTL DEF Spec

-----------------------------------------------------------------------------
(* The return value and the error number of a finished call agree *)

\* A call that stops with an error.
LEMMA FailMatches ==
  ASSUME NEW err, err # nErr_OK, Fail(err)
  PROVE  ReturnMatchesError'
<1>1. /\ RsaCalls \cap FileCalls = {}
      /\ {"get_device_status", "get_signature", "verify_signature"}
         \cap (RsaCalls \cup FileCalls) = {}
  BY DEF RsaCalls, FileCalls
<1> QED
  BY <1>1 DEF Fail, FailRet, Return, ReturnMatchesError

LEMMA MatchStep == TableInv /\ ReturnMatchesError /\ Step => ReturnMatchesError'
<1> SUFFICES ASSUME TableInv, ReturnMatchesError, Step PROVE ReturnMatchesError'
  OBVIOUS
<1>0. /\ nErr_OTE # nErr_OK /\ nErr_INVKT # nErr_OK /\ nErr_RSANS # nErr_OK
      /\ RsaCalls \cap FileCalls = {}
      /\ {"get_device_status", "get_signature", "verify_signature"}
         \cap (RsaCalls \cup FileCalls) = {}
  BY DEF nErr_OTE, nErr_INVKT, nErr_RSANS, nErr_OK, RsaCalls, FileCalls
<1>1. pc' # "idle" => ReturnMatchesError'
  BY DEF ReturnMatchesError
<1>2. CASE CheckSession
  BY <1>1, <1>2, FailMatches DEF CheckSession
<1>3. ASSUME NEW s \in Statuses, DeviceStatus(s)
      PROVE  ReturnMatchesError'
  <2>1. CASE fn = "get_device_status" /\ Return(nErr_OK, nErr_OK, "none")
    BY <1>0, <2>1 DEF Return, ReturnMatchesError
  <2> QED
    BY <1>1, <1>3, <2>1, FailMatches DEF DeviceStatus
<1>4. ASSUME NEW s \in Statuses, RsaStatus(s)
      PROVE  ReturnMatchesError'
  <2>1. ~(s.word < 0)
    BY StatusType
  <2> QED
    BY <1>0, <1>1, <1>4, <2>1, FailMatches DEF RsaStatus
<1>5. ASSUME NEW res \in PacketErrors, KeyFail(res)
      PROVE  ReturnMatchesError'
  <2>1. res * (-1) # nErr_OK
    BY PacketErrorType DEF nErr_OK
  <2> QED
    BY <1>5, <2>1, FailMatches DEF KeyFail
<1>6. CASE \E whole \in BOOLEAN : KeyChunk(whole) \/ KeyPart(whole) \/ KeyEnd(whole)
  BY <1>1, <1>6 DEF KeyChunk, KeyPart, KeyEnd, callVars
<1>7. CASE RsaOperation
  <2>1. CASE fn \in RsaCalls /\ \E len \in RsaLens : Return(nErr_OK, len, "none")
    <3>1. \A len \in RsaLens : len # -1
      BY ReplyAssumption
    <3> QED
      BY <1>0, <2>1, <3>1 DEF Return, ReturnMatchesError
  <2>2. CASE \E err \in {nErr_OTE, nErr_INVKT} : Fail(err)
    BY <1>0, <2>2, FailMatches
  <2>3. CASE /\ fn \in {"get_signature", "verify_signature"}
             /\ \E err \in {nErr_OK, nErr_OTE, nErr_INSGN} : Return(err, err, "none")
    BY <1>0, <2>3 DEF Return, ReturnMatchesError
  <2> QED
    BY <1>7, <2>1, <2>2, <2>3 DEF RsaOperation, RsaCalls
<1>8. CASE ExportKey
  <2>1. CASE fn \in FileCalls /\ \E err \in {nErr_OK, nErr_OTE} : Return(err, 0, "malloc")
    BY <1>0, <2>1 DEF Return, ReturnMatchesError
  <2> QED
    BY <1>0, <1>8, <2>1, FailMatches DEF ExportKey
<1> QED
  BY <1>2, <1>3, <1>4, <1>5, <1>6, <1>7, <1>8 DEF Step

\* For every call: -1 exactly with an error from the RSA functions, the error
\* itself from the signature functions, a pointer to be read whenever the file
\* functions report none.
THEOREM ReturnMatches == Spec => []ReturnMatchesError
<1>1. Init => ReturnMatchesError
  BY DEF Init, ReturnMatchesError, RsaCalls, FileCalls
<1>2. ReturnMatchesError /\ Call => ReturnMatchesError'
  <2>1. ASSUME NEW f \in ShortCalls, NEW err, Short(f, err)
        PROVE  ReturnMatchesError'
    BY <2>1 DEF Short, ReturnMatchesError, ShortCalls, RsaCalls, FileCalls
  <2>2. ASSUME NEW f, NEW k, Begin(f, k)
        PROVE  ReturnMatchesError'
    BY <2>2 DEF Begin, ReturnMatchesError
  <2>3. {"get_first_device", "get_curr_dev_serial", "select_device", "get_serial",
         "get_device_count"} \subseteq ShortCalls
    BY DEF ShortCalls
  <2> QED
    BY <2>1, <2>2, <2>3 DEF Call, get_first_device, get_curr_dev_serial, get_serial,
       get_device_count, select_device
<1>3. ReturnMatchesError /\ Environment => ReturnMatchesError'
  <2>1. Reload => ReturnMatchesError'
    BY DEF Reload, ReturnMatchesError, RsaCalls, FileCalls
  <2> QED
    BY <2>1 DEF Environment, Plug, Unplug, callVars, ReturnMatchesError
<1>4. ReturnMatchesError /\ UNCHANGED vars => ReturnMatchesError'
  BY DEF vars, ReturnMatchesError
<1>5. TableInv /\ ReturnMatchesError /\ [Next]_vars => ReturnMatchesError'
  BY <1>2, <1>3, <1>4, MatchStep DEF Next
<1> QED
  BY TableInvariant, <1>1, <1>5, PTL DEF Spec

-----------------------------------------------------------------------------
(* Every call ends *)

\* The blocks of key parts that the running routine has still to read, and those of
\* the private routine if that comes after it.
BlocksLeft ==
    (KeyChunks - key_index) + (IF kt = KT_Exponent THEN 0 ELSE KeyChunks)
      + (IF routine = "public" /\ NeedsPrivate(fn, key_type) THEN 2 * KeyChunks ELSE 0)

\* The steps a call may still take, at most.
StepsLeft ==
    CASE pc = "idle" -> 0
      [] pc = "rsa" -> 1
      [] pc = "key" -> BlocksLeft + 1
      [] pc = "status2" -> 4 * KeyChunks + 2
      [] pc = "status" -> 4 * KeyChunks + 3
      [] pc = "check" -> 4 * KeyChunks + 4

\* A step of a call brings it closer to its end, and what happens on the bus
\* meanwhile takes it no further from it.
CallShrinks ==
    [][IF pc = "idle" THEN StepsLeft' <= 4 * KeyChunks + 4
       ELSE StepsLeft' < StepsLeft \/ (Environment /\ StepsLeft' = StepsLeft)]_vars

LeftOK ==
    /\ BlocksLeft \in 1 .. 4 * KeyChunks
    /\ StepsLeft \in 0 .. 4 * KeyChunks + 4

LEMMA LeftTyped == TypeOK => LeftOK
<1> SUFFICES ASSUME TypeOK PROVE LeftOK
  OBVIOUS
<1>1. key_index \in 0 .. KeyChunks - 1 /\ KeyChunks \in Nat \ {0}
  BY SizeAssumption DEF TypeOK, Chunks
<1>2. BlocksLeft \in 1 .. 4 * KeyChunks
  BY <1>1 DEF BlocksLeft
<1>3. pc \in {"idle", "check", "status", "status2", "key", "rsa"}
  BY DEF TypeOK
<1>4. StepsLeft \in 0 .. 4 * KeyChunks + 4
  BY <1>1, <1>2, <1>3 DEF StepsLeft
<1> QED
  BY <1>2, <1>4 DEF LeftOK

LEMMA LeftTypedNext == TypeOK' => LeftOK'
BY LeftTyped, PTL

LEMMA StepShrinks ==
  ASSUME TypeOK, TypeOK', Step
  PROVE  StepsLeft' < StepsLeft
<1>1. KeyChunks \in Nat \ {0} /\ key_index \in 0 .. KeyChunks - 1
  BY SizeAssumption DEF TypeOK, Chunks
<1>2. BlocksLeft \in 1 .. 4 * KeyChunks /\ BlocksLeft' \in 1 .. 4 * KeyChunks
  BY LeftTyped, LeftTypedNext DEF LeftOK
\* Whatever ends the call takes it below every other point.
<1>3. ASSUME pc # "idle", pc' = "idle" PROVE StepsLeft' < StepsLeft
  <2>1. StepsLeft' = 0
    BY <1>3 DEF StepsLeft
  <2>2. pc \in {"check", "status", "status2", "key", "rsa"}
    BY <1>3 DEF TypeOK
  <2>3. StepsLeft \in Nat \ {0}
    BY <1>1, <1>2, <2>2 DEF StepsLeft
  <2> QED
    BY <2>1, <2>3
<1>4. \A err : Fail(err) => pc' = "idle"
  BY DEF Fail, Return
<1>5. CASE CheckSession
  <2>1. pc = "check" /\ pc' \in {"idle", "status"}
    BY <1>4, <1>5 DEF CheckSession
  <2>2. CASE pc' = "status"
    BY <1>1, <2>1, <2>2 DEF StepsLeft
  <2> QED
    BY <1>3, <2>1, <2>2
<1>6. ASSUME NEW s \in Statuses, DeviceStatus(s) PROVE StepsLeft' < StepsLeft
  <2>1. pc = "status" /\ pc' \in {"idle", "status2", "key"}
    BY <1>4, <1>6 DEF DeviceStatus, Return
  <2>2. CASE pc' = "status2"
    BY <1>1, <2>1, <2>2 DEF StepsLeft
  <2>3. CASE pc' = "key"
    BY <1>1, <1>2, <2>1, <2>3 DEF StepsLeft
  <2> QED
    BY <1>3, <2>1, <2>2, <2>3
<1>7. ASSUME NEW s \in Statuses, RsaStatus(s) PROVE StepsLeft' < StepsLeft
  <2>1. pc = "status2" /\ pc' \in {"idle", "key"}
    BY <1>4, <1>7 DEF RsaStatus
  <2>2. CASE pc' = "key"
    BY <1>1, <1>2, <2>1, <2>2 DEF StepsLeft
  <2> QED
    BY <1>3, <2>1, <2>2
<1>8. ASSUME NEW res \in PacketErrors, KeyFail(res) PROVE StepsLeft' < StepsLeft
  BY <1>3, <1>4, <1>8 DEF KeyFail
\* Within the key routines the blocks are counted.
<1>9. ASSUME pc = "key", pc' = "key", BlocksLeft' < BlocksLeft PROVE StepsLeft' < StepsLeft
  <2>1. StepsLeft = BlocksLeft + 1 /\ StepsLeft' = BlocksLeft' + 1
    BY <1>9 DEF StepsLeft
  <2>2. \A m, n \in Int : m < n => m + 1 < n + 1
    OBVIOUS
  <2>3. BlocksLeft \in Int /\ BlocksLeft' \in Int
    BY <1>2
  <2> QED
    BY <1>9, <2>1, <2>2, <2>3
<1>10. CASE \E whole \in BOOLEAN : KeyChunk(whole)
  <2>0. PICK whole \in BOOLEAN : KeyChunk(whole)
    BY <1>10
  <2>1. /\ pc = "key" /\ pc' = "key" /\ key_index' = key_index + 1
        /\ UNCHANGED <<kt, routine, fn, key_type>>
    BY <2>0 DEF KeyChunk, callVars
  <2>2. NeedsPrivate(fn, key_type)' <=> NeedsPrivate(fn, key_type)
    BY <2>1 DEF NeedsPrivate
  <2>3. BlocksLeft' < BlocksLeft
    BY <1>1, <2>1, <2>2 DEF BlocksLeft
  <2> QED
    BY <1>9, <2>1, <2>3
<1>11. CASE \E whole \in BOOLEAN : KeyPart(whole)
  <2>0. PICK whole \in BOOLEAN : KeyPart(whole)
    BY <1>11
  <2>1. /\ pc = "key" /\ pc' = "key" /\ key_index = KeyChunks - 1 /\ key_index' = 0
        /\ kt # KT_Exponent /\ kt' = KT_Exponent /\ UNCHANGED <<routine, fn, key_type>>
    BY <2>0 DEF KeyPart, callVars
  <2>2. NeedsPrivate(fn, key_type)' <=> NeedsPrivate(fn, key_type)
    BY <2>1 DEF NeedsPrivate
  <2>3. BlocksLeft' < BlocksLeft
    BY <1>1, <2>1, <2>2 DEF BlocksLeft
  <2> QED
    BY <1>9, <2>1, <2>3
<1>12. CASE \E whole \in BOOLEAN : KeyEnd(whole)
  <2>0. PICK whole \in BOOLEAN : KeyEnd(whole)
    BY <1>12
  <2>1. CASE routine = "public" /\ NeedsPrivate(fn, key_type)
    <3>1. /\ pc = "key" /\ pc' = "key" /\ key_index = KeyChunks - 1 /\ key_index' = 0
          /\ kt = KT_Exponent /\ routine' = "private"
      BY <2>0, <2>1 DEF KeyEnd, StartRoutine
    <3>2. BlocksLeft = 1 + 2 * KeyChunks
      BY <1>1, <2>1, <3>1 DEF BlocksLeft
    <3>3. BlocksLeft' <= 2 * KeyChunks
      BY <1>1, <3>1 DEF BlocksLeft
    <3> QED
      BY <1>1, <1>2, <1>9, <3>1, <3>2, <3>3
  <2>2. CASE ~(routine = "public" /\ NeedsPrivate(fn, key_type))
    <3>1. pc = "key" /\ pc' = "rsa"
      BY <2>0, <2>2 DEF KeyEnd
    <3>2. StepsLeft' = 1 /\ StepsLeft = BlocksLeft + 1
      BY <3>1 DEF StepsLeft
    <3> QED
      BY <1>2, <3>2
  <2> QED
    BY <2>1, <2>2
<1>13. CASE RsaOperation \/ ExportKey
  BY <1>3, <1>4, <1>13 DEF RsaOperation, ExportKey, Return
<1> QED
  BY <1>5, <1>6, <1>7, <1>8, <1>10, <1>11, <1>12, <1>13 DEF Step

\* No call loops: between two calls the library takes 4 * KeyChunks + 4 steps at most,
\* whatever the tokens answer and whenever they come and go (_get_public_key,
\* _get_private_key and their callers in novinlib.c).
THEOREM CallShrinksHolds == Spec => CallShrinks
<1> DEFINE Shrinks ==
             IF pc = "idle" THEN StepsLeft' <= 4 * KeyChunks + 4
             ELSE StepsLeft' < StepsLeft \/ (Environment /\ StepsLeft' = StepsLeft)
<1>1. ASSUME TypeOK, TypeOK', Next PROVE Shrinks
  <2>1. CASE pc = "idle"
    BY <1>1, <2>1, SizeAssumption, LeftTypedNext DEF LeftOK
  <2>2. CASE pc # "idle"
    <3>1. CASE Step
      BY <1>1, <2>2, <3>1, StepShrinks
    <3>2. ~Call
      BY <2>2 DEF Call, get_first_device, get_curr_dev_serial, get_serial, get_device_count,
                  select_device, Short, Begin
    <3>3. CASE Environment
      <4>1. UNCHANGED <<pc, kt, key_index, routine, fn, key_type>>
        BY <2>2, <3>3 DEF Environment, Plug, Unplug, Reload, keyVars, callVars
      <4>2. StepsLeft' = StepsLeft
        BY <4>1 DEF StepsLeft, BlocksLeft, NeedsPrivate
      <4> QED
        BY <2>2, <3>3, <4>2
    <3> QED
      BY <1>1, <3>1, <3>2, <3>3 DEF Next
  <2> QED
    BY <2>1, <2>2
<1>2. ASSUME TypeOK, TypeOK', [Next]_vars PROVE [Shrinks]_vars
  BY <1>1, <1>2
<1> QED
  BY <1>2, TypeCorrect, PTL DEF Spec, CallShrinks

=============================================================================
