--------------------------- MODULE FumPluginProofs ---------------------------
(***************************************************************************)
(* What TLAPS proves of the plugin objects for every number of objects and *)
(* tokens: the objects use the library as NovinLib allows, so what is      *)
(* proved of the library holds of the composition, and the composition     *)
(* implements TokenSession.                                                *)
(***************************************************************************)
EXTENDS FumPlugin, NovinLibProofs

-----------------------------------------------------------------------------
(* The inductive invariant.  Running relates where a method is to where the     *)
(* library is: between the library calls of GetToken there is no error, a token *)
(* is active and none is selected.  Loaded relates the objects to the handles   *)
(* they hold.                                                                   *)

Running ==
  /\ who = NoInstance <=> mpc = "none"
  /\ mpc # "lib" => pc = "idle"
  /\ mpc \in {"first", "curr", "select", "count"} \/ pc # "idle" => LAST_ERR_NO = nErr_OK
  /\ mpc = "lib" => method \in LibMethods /\ fn = LibFunction(method)
  /\ mpc \in {"curr", "select"} =>
       tk[0].inUse /\ ~tk[0].selected /\ owner = NoInstance
  /\ mpc = "select" => serials[who] = tk[0].serial

Loaded ==
  /\ \A p \in alive : dll[p] = nErr_OK => p \in users
  /\ LoadedWhileUsed

PluginInv == TableInv /\ PluginTypeOK /\ Running /\ Loaded /\ SerialOfSelection

\* The library functions behind the methods.
LEMMA LibFunctions ==
  ASSUME NEW m \in LibMethods
  PROVE  /\ m \in {"RsaEncrypt", "RsaDecrypt"} => LibFunction(m) \in RsaCalls
         /\ m \in {"GetPublicKey", "GetSignature", "VerifySignature"} =>
              LibFunction(m) \in Calls \ RsaCalls
         /\ m = "GetSignature" => LibFunction(m) = "get_signature"
         /\ m = "VerifySignature" => LibFunction(m) = "verify_signature"
         /\ m = "GetPublicKey" => LibFunction(m) = "get_public_key"
BY DEF LibMethods, LibFunction, RsaCalls, FileCalls, Calls

\* Only GET_ACTIVE_TOKEN's first entry matters to the three calls of GetToken.
LEMMA FirstEntry ==
  ASSUME TableInv
  PROVE  /\ 0 \in Slots
         /\ ActiveToken = IF tk[0].inUse THEN 0 ELSE -nErr_DNF
         /\ -nErr_DNF # 0 /\ nErr_DNF # nErr_OK /\ -nErr_DNF \notin Slots
         /\ tk[0].inUse => tk[0].serial \in Devices
         /\ tk[0] \in Entry
<1>1. 0 \in Slots /\ TypeOK /\ OneSession
  BY ConstantTypes DEF TableInv
<1>2. ActiveToken = IF tk[0].inUse THEN 0 ELSE -nErr_DNF
  BY <1>1, ActiveValue
<1>3. -nErr_DNF # 0 /\ nErr_DNF # nErr_OK /\ -nErr_DNF \notin Slots
  BY DEF nErr_DNF, nErr_OK, Slots
<1> QED
  BY <1>1, <1>2, <1>3 DEF OneSession, TypeOK

-----------------------------------------------------------------------------
(* Every step of the plugin is a step of the library or leaves it alone *)

LEMMA PluginUsesLibrary ==
  ASSUME PluginInv, [PluginNext]_allVars
  PROVE  [Next]_vars
<1>1. ASSUME NEW p \in Instances, Construct(p) \/ Destroy(p)
      PROVE  [Next]_vars
  BY <1>1 DEF Construct, Destroy, Close, Next, Environment
<1>2. ASSUME NEW p \in Instances, NEW m \in Methods, Refuse(p, m)
      PROVE  [Next]_vars
  BY <1>2 DEF Refuse
<1>3. ASSUME NEW p \in Instances, GetToken(p) \/ GetDeviceCount(p)
      PROVE  [Next]_vars
  BY <1>3 DEF GetToken, GetDeviceCount, Next, Call
<1>4. ASSUME NEW p \in Instances, NEW m \in {"RsaEncrypt", "RsaDecrypt"},
             NEW k \in 1 .. 3, CallLibrary(p, m, k)
      PROVE  [Next]_vars
  <2>1. m \in LibMethods
    BY DEF LibMethods
  <2> QED
    BY <1>4, <2>1, LibFunctions DEF CallLibrary, Next, Call
<1>5. ASSUME NEW p \in Instances,
             NEW m \in {"GetPublicKey", "GetSignature", "VerifySignature"},
             CallLibrary(p, m, 0)
      PROVE  [Next]_vars
  <2>1. m \in LibMethods
    BY DEF LibMethods
  <2> QED
    BY <1>5, <2>1, LibFunctions DEF CallLibrary, Next, Call
<1>6. CASE GetTokenFirst \/ GetTokenCurr \/ GetDeviceCountReturns
  BY <1>6 DEF GetTokenFirst, GetTokenCurr, GetDeviceCountReturns, Next, Call
<1>7. CASE GetTokenSelect
  <2>1. serials[who] \in Devices
    BY <1>7, FirstEntry DEF GetTokenSelect, PluginInv, Running
  <2> QED
    BY <1>7, <2>1 DEF GetTokenSelect, Next, Call
<1>8. CASE LibraryStep \/ LibraryReturned
  BY <1>8 DEF LibraryStep, LibraryReturned, Next
<1>9. CASE Hotplug
  BY <1>9 DEF Hotplug, Next, Environment
<1>10. CASE UNCHANGED allVars
  BY <1>10 DEF allVars
<1> QED
  BY <1>1, <1>2, <1>3, <1>4, <1>5, <1>6, <1>7, <1>8, <1>9, <1>10
     DEF PluginNext, Page, MethodStep

LEMMA PluginTable ==
  ASSUME PluginInv, [PluginNext]_allVars
  PROVE  TableInv'
BY PluginUsesLibrary, TableNext DEF PluginInv

-----------------------------------------------------------------------------
(* The rest of the invariant, action by action *)

\* What the plugin's own part of the invariant is.
ObjectInv == PluginTypeOK /\ Running /\ Loaded /\ SerialOfSelection

LEMMA LoadErrors == nErr_DLL # nErr_OK /\ {nErr_OK, nErr_DLL} \subseteq Nat
BY DEF nErr_DLL, nErr_OK

\* A step of the library that leaves the table and the objects alone, outside a
\* method or inside its library call.
LEMMA ObjectKept ==
  ASSUME PluginInv, UNCHANGED <<pluginVars, tk>>,
         mpc # "lib" => UNCHANGED <<pc, LAST_ERR_NO>>,
         mpc = "lib" => fn' = fn /\ (pc' # "idle" => LAST_ERR_NO' = nErr_OK)
  PROVE  ObjectInv'
BY DEF PluginInv, ObjectInv, PluginTypeOK, Running, Loaded, LoadedWhileUsed,
       SerialOfSelection, pluginVars

LEMMA ObjectConstruct ==
  ASSUME PluginInv, NEW p \in Instances, Construct(p)
  PROVE  ObjectInv'
<1>1. /\ p \notin alive /\ alive' = alive \cup {p} /\ p # who /\ p # owner
      /\ UNCHANGED <<vars, who, mpc, method, answer, crashed, owner>>
  BY InstancesAssumption DEF Construct, PageIdle, PluginInv, PluginTypeOK
<1>2. /\ dll \in [Instances -> {nErr_OK, nErr_DLL}]
      /\ serials \in [Instances -> Serials \cup {Garbage}]
      /\ users \subseteq alive /\ alive \subseteq Instances
  BY DEF PluginInv, PluginTypeOK
<1>3. /\ dll' \in [Instances -> {nErr_OK, nErr_DLL}]
      /\ \A q \in Instances : q # p => dll'[q] = dll[q]
      /\ users' \subseteq alive' /\ users \subseteq users'
      /\ dll'[p] = nErr_OK => p \in users'
  BY <1>1, <1>2, LoadErrors DEF Construct
<1>4. /\ serials' \in [Instances -> Serials \cup {Garbage}]
      /\ \A q \in Instances : q # p => serials'[q] = serials[q]
  BY <1>2 DEF Construct
<1>5. UNCHANGED <<tk, pc, fn, LAST_ERR_NO>>
  BY <1>1 DEF vars
<1>6. PluginTypeOK'
  BY <1>1, <1>2, <1>3, <1>4 DEF PluginInv, PluginTypeOK
<1>7. who = NoInstance
  BY DEF Construct, PageIdle
<1>8. Running'
  BY <1>1, <1>5, <1>7 DEF PluginInv, Running
<1>9. Loaded'
  BY <1>1, <1>2, <1>3, <1>7 DEF PluginInv, Loaded, LoadedWhileUsed
<1>10. SerialOfSelection'
  <2>1. owner # NoInstance => owner \in Instances
    BY <1>2 DEF PluginInv, PluginTypeOK
  <2> QED
    BY <1>1, <1>4, <1>5, <2>1 DEF PluginInv, SerialOfSelection
<1> QED
  BY <1>6, <1>8, <1>9, <1>10 DEF ObjectInv

LEMMA ObjectDestroy ==
  ASSUME PluginInv, NEW p \in Instances, Destroy(p)
  PROVE  ObjectInv'
<1>1. /\ who = NoInstance /\ mpc = "none" /\ pc = "idle"
      /\ alive' = alive \ {p} /\ users' = users \ {p}
      /\ UNCHANGED <<dll, serials, who, mpc, method>>
      /\ answer' = "none"
      /\ owner' = IF owner = p \/ users' = {} THEN NoInstance ELSE owner
  BY DEF Destroy, PageIdle, Close, PluginInv, Running
<1>2. crashed' \in BOOLEAN
  BY DEF Destroy
<1>3. PluginTypeOK'
  BY <1>1, <1>2, LoadErrors DEF PluginInv, PluginTypeOK
<1>4. users' # {} => UNCHANGED vars
  BY DEF Destroy, Close
<1>5. pc' = "idle"
  BY <1>1 DEF Destroy, Close, Reload, vars
<1>6. Running'
  BY <1>1, <1>5 DEF Running
<1>7. Loaded'
  BY <1>1 DEF PluginInv, Loaded, LoadedWhileUsed
<1>8. SerialOfSelection'
  BY <1>1, <1>4 DEF PluginInv, SerialOfSelection, vars
<1> QED
  BY <1>3, <1>6, <1>7, <1>8 DEF ObjectInv

\* A method that passes the test of the error is run by an object that holds a
\* handle.
LEMMA ObjectEnter ==
  ASSUME PluginInv, NEW p \in Instances, NEW m \in Methods,
         NEW at \in {"first", "count", "lib"}, Enter(p, m, at), owner' = owner,
         UNCHANGED <<tk, LAST_ERR_NO>>,
         at # "lib" => pc' = pc,
         at = "lib" => m \in LibMethods /\ fn' = LibFunction(m)
  PROVE  ObjectInv'
<1>1. /\ p \in alive /\ who = NoInstance /\ mpc = "none" /\ pc = "idle"
      /\ dll[p] = nErr_OK /\ LAST_ERR_NO = nErr_OK
  BY LoadErrors DEF Enter, PageIdle, get_TkErr, PluginInv, Running
<1>2. p # NoInstance /\ p \in users
  BY <1>1, InstancesAssumption DEF PluginInv, Loaded
<1>3. /\ who' = p /\ mpc' = at /\ method' = m /\ answer' = "none"
      /\ UNCHANGED <<alive, users, dll, serials, crashed>>
  BY DEF Enter
<1>4. PluginTypeOK'
  BY <1>1, <1>3 DEF PluginInv, PluginTypeOK
<1>5. Running'
  BY <1>1, <1>2, <1>3 DEF Running
<1>6. Loaded'
  BY <1>1, <1>2, <1>3 DEF PluginInv, Loaded, LoadedWhileUsed
<1>7. SerialOfSelection'
  BY <1>3 DEF PluginInv, SerialOfSelection
<1> QED
  BY <1>4, <1>5, <1>6, <1>7 DEF ObjectInv

LEMMA ObjectCall ==
  ASSUME PluginInv, NEW p \in Instances
  PROVE  /\ \A m \in Methods : Refuse(p, m) => ObjectInv'
         /\ GetToken(p) => ObjectInv'
         /\ GetDeviceCount(p) => ObjectInv'
         /\ \A m \in LibMethods, k \in 0 .. 3 : CallLibrary(p, m, k) => ObjectInv'
<1>1. ASSUME NEW m \in Methods, Refuse(p, m)
      PROVE  ObjectInv'
  BY <1>1 DEF Refuse, PageIdle, vars, PluginInv, ObjectInv, PluginTypeOK, Running,
     Loaded, LoadedWhileUsed, SerialOfSelection
<1>2. ASSUME GetToken(p)
      PROVE  ObjectInv'
  <2>1. "GetToken" \in Methods
    BY DEF Methods
  <2> QED
    BY <1>2, <2>1, ObjectEnter DEF GetToken, vars
<1>3. ASSUME GetDeviceCount(p)
      PROVE  ObjectInv'
  <2>1. "GetDeviceCount" \in Methods
    BY DEF Methods
  <2> QED
    BY <1>3, <2>1, ObjectEnter DEF GetDeviceCount, vars
<1>4. ASSUME NEW m \in LibMethods, NEW k \in 0 .. 3, CallLibrary(p, m, k)
      PROVE  ObjectInv'
  <2>1. m \in Methods
    BY DEF Methods
  <2> QED
    BY <1>4, <2>1, ObjectEnter DEF CallLibrary, Begin, tableVars
<1> QED
  BY <1>1, <1>2, <1>3, <1>4

\* The three library calls of GetToken.
LEMMA ObjectGetToken ==
  ASSUME PluginInv, GetTokenFirst \/ GetTokenCurr \/ GetTokenSelect
  PROVE  ObjectInv'
<1>0. /\ 0 \in Slots /\ tk \in [Slots -> Entry] /\ out \in Serials
      /\ bus \in Seq(Devices)
      /\ serials \in [Instances -> Serials \cup {Garbage}]
      /\ who \in alive \cup {NoInstance} /\ alive \subseteq Instances
  BY FirstEntry DEF PluginInv, TableInv, TypeOK, PluginTypeOK
<1>1. /\ who # NoInstance /\ who \in Instances /\ pc = "idle"
      /\ UNCHANGED <<alive, users, dll, method, crashed>>
  BY <1>0 DEF GetTokenFirst, GetTokenCurr, GetTokenSelect, PluginInv, Running
<1>2. pc' = "idle"
  BY <1>1 DEF GetTokenFirst, GetTokenCurr, GetTokenSelect, get_first_device,
     get_curr_dev_serial, select_device, Short
<1>3. CASE GetTokenFirst
  <2>1. LAST_ERR_NO' = nErr_OK => tk'[0].inUse /\ ~tk'[0].selected
    <3>1. LAST_ERR_NO' = nErr_OK => bus # <<>>
      BY <1>3, FirstEntry DEF GetTokenFirst, get_first_device, Short, PluginInv
    <3>2. bus # <<>> => 0 < Len(bus)
      BY <1>0, EmptySeq
    <3> QED
      BY <1>0, <1>3, <3>1, <3>2 DEF GetTokenFirst, get_first_device
  <2>2. /\ owner' = NoInstance /\ UNCHANGED serials
        /\ GetTokenNext("curr")
    BY <1>3 DEF GetTokenFirst
  <2>3. PluginTypeOK'
    BY <1>1, <2>2 DEF PluginInv, PluginTypeOK, GetTokenNext, MethodReturns
  <2>4. Running'
    BY <1>1, <1>2, <2>1, <2>2 DEF GetTokenNext, MethodReturns, Running
  <2>5. Loaded' /\ SerialOfSelection'
    BY <1>1, <2>2 DEF PluginInv, Loaded, LoadedWhileUsed, GetTokenNext, MethodReturns,
       SerialOfSelection
  <2> QED
    BY <2>3, <2>4, <2>5 DEF ObjectInv
<1>4. CASE GetTokenCurr
  <2>1. /\ tk[0].inUse /\ ~tk[0].selected /\ owner = NoInstance
        /\ UNCHANGED <<tk, owner>>
    BY <1>4 DEF GetTokenCurr, get_curr_dev_serial, tableVars, PluginInv, Running
  <2>2. /\ LAST_ERR_NO' = ActiveError
        /\ out' = IF ActiveError = nErr_OK THEN tk[0].serial ELSE out
        /\ serials' = [serials EXCEPT ![who] = IF ActiveError = nErr_OK THEN out' ELSE @]
        /\ GetTokenNext("select")
    BY <1>4, <2>1, FirstEntry DEF GetTokenCurr, get_curr_dev_serial, Short, PluginInv
  <2>3. LAST_ERR_NO' = nErr_OK => serials'[who] = tk[0].serial
    BY <1>0, <1>1, <2>2
  <2>4. PluginTypeOK'
    <3>1. serials' \in [Instances -> Serials \cup {Garbage}]
      BY <1>0, <2>1, <2>2, FirstEntry DEF PluginInv, Serials
    <3> QED
      BY <1>1, <2>1, <2>2, <3>1 DEF PluginInv, PluginTypeOK, GetTokenNext, MethodReturns
  <2>5. Running'
    BY <1>1, <1>2, <2>1, <2>2, <2>3 DEF GetTokenNext, MethodReturns, Running
  <2>6. Loaded' /\ SerialOfSelection'
    BY <1>1, <2>1, <2>2 DEF PluginInv, Loaded, LoadedWhileUsed, GetTokenNext,
       MethodReturns, SerialOfSelection
  <2> QED
    BY <2>4, <2>5, <2>6 DEF ObjectInv
<1>5. CASE GetTokenSelect
  <2>1. /\ tk[0].inUse /\ owner = NoInstance /\ serials[who] = tk[0].serial
        /\ UNCHANGED serials
        /\ who' = NoInstance /\ mpc' = "none" /\ answer' = "void"
        /\ owner' = IF LAST_ERR_NO' = nErr_OK THEN who ELSE owner
    BY <1>5 DEF GetTokenSelect, MethodReturns, PluginInv, Running
  <2>2. LAST_ERR_NO' = nErr_OK => tk' = [tk EXCEPT ![0].selected = TRUE]
    BY <1>5, <2>1, FirstEntry DEF GetTokenSelect, select_device, Short, PluginInv
  <2>3. LAST_ERR_NO' = nErr_OK =>
           tk'[0].inUse /\ tk'[0].selected /\ tk'[0].serial = serials'[who]
    BY <1>0, <2>1, <2>2 DEF Entry
  <2>4. PluginTypeOK'
    BY <1>1, <2>1, <1>0 DEF PluginInv, PluginTypeOK
  <2>5. Running'
    BY <1>2, <2>1 DEF Running
  <2>6. Loaded' /\ SerialOfSelection'
    BY <1>1, <2>1, <2>3 DEF PluginInv, Loaded, LoadedWhileUsed, SerialOfSelection
  <2> QED
    BY <2>4, <2>5, <2>6 DEF ObjectInv
<1> QED
  BY <1>3, <1>4, <1>5

LEMMA ObjectCount ==
  ASSUME PluginInv, GetDeviceCountReturns
  PROVE  ObjectInv'
<1>1. /\ UNCHANGED <<pc, tk, alive, users, dll, serials, crashed, owner, method>>
      /\ who' = NoInstance /\ mpc' = "none" /\ answer' = "text" /\ pc = "idle"
  BY DEF GetDeviceCountReturns, MethodReturns, get_device_count, Short, tableVars
<1>2. PluginTypeOK'
  BY <1>1 DEF PluginInv, PluginTypeOK
<1>3. Running'
  BY <1>1 DEF Running
<1>4. Loaded' /\ SerialOfSelection'
  BY <1>1 DEF PluginInv, Loaded, LoadedWhileUsed, SerialOfSelection
<1> QED
  BY <1>2, <1>3, <1>4 DEF ObjectInv

\* No step of a library call touches the table, and none but the last leaves an
\* error.
LEMMA StepKeepsTable ==
  ASSUME Step
  PROVE  /\ pc # "idle" /\ UNCHANGED <<tk, fn>>
         /\ pc' # "idle" => LAST_ERR_NO' = LAST_ERR_NO \/ LAST_ERR_NO' = nErr_OK
BY DEF Step, CheckSession, DeviceStatus, RsaStatus, KeyFail, KeyChunk, KeyPart, KeyEnd,
       RsaOperation, ExportKey, Fail, Return, tableVars, callVars

LEMMA ObjectLibrary ==
  ASSUME PluginInv, LibraryStep \/ LibraryReturned
  PROVE  ObjectInv'
<1>1. CASE LibraryStep
  <2>1. /\ mpc = "lib" /\ UNCHANGED <<pluginVars, tk, fn>>
        /\ pc' # "idle" => LAST_ERR_NO' = nErr_OK
    BY <1>1, StepKeepsTable DEF LibraryStep, PluginInv, Running
  <2> QED
    BY <2>1, ObjectKept
<1>2. CASE LibraryReturned
  <2>1. /\ pc = "idle" /\ UNCHANGED <<vars, alive, users, dll, serials, method, owner>>
        /\ who' = NoInstance /\ mpc' = "none" /\ crashed' \in BOOLEAN
        /\ answer' \in {"text", "empty", "match", "no match", "garbage"}
    BY <1>2 DEF LibraryReturned, MethodReturns, PluginInv, PluginTypeOK
  <2>2. UNCHANGED <<pc, tk, LAST_ERR_NO>>
    BY <2>1 DEF vars
  <2>3. PluginTypeOK'
    BY <2>1 DEF PluginInv, PluginTypeOK
  <2>4. Running'
    BY <2>1, <2>2 DEF Running
  <2>5. Loaded' /\ SerialOfSelection'
    BY <2>1, <2>2 DEF PluginInv, Loaded, LoadedWhileUsed, SerialOfSelection
  <2> QED
    BY <2>3, <2>4, <2>5 DEF ObjectInv
<1> QED
  BY <1>1, <1>2

LEMMA PluginStep ==
  ASSUME PluginInv, [PluginNext]_allVars
  PROVE  PluginInv'
<1>1. ObjectInv'
  <2>1. CASE Page
    <3>1. PICK p \in Instances :
             \/ Construct(p) \/ Destroy(p)
             \/ \E m \in Methods : Refuse(p, m)
             \/ GetToken(p) \/ GetDeviceCount(p)
             \/ \E m \in LibMethods, k \in 0 .. 3 : CallLibrary(p, m, k)
      BY <2>1 DEF Page, LibMethods
    <3> QED
      BY <3>1, ObjectConstruct, ObjectDestroy, ObjectCall
  <2>2. CASE MethodStep
    BY <2>2, ObjectGetToken, ObjectCount, ObjectLibrary DEF MethodStep
  <2>3. CASE Hotplug
    <3>1. UNCHANGED <<pluginVars, tk, pc, fn, LAST_ERR_NO>>
      BY <2>3 DEF Hotplug, Plug, Unplug, tableVars, callVars
    <3> QED
      BY <3>1, ObjectKept DEF PluginInv, Running
  <2>4. CASE UNCHANGED allVars
    BY <2>4, ObjectKept DEF allVars, vars, PluginInv, Running
  <2> QED
    BY <2>1, <2>2, <2>3, <2>4 DEF PluginNext
<1> QED
  BY <1>1, PluginTable DEF PluginInv, ObjectInv

LEMMA PluginInvariant == PluginSpec => []PluginInv
<1>1. ASSUME PluginInit
      PROVE  PluginInv
  <2>1. TableInv
    BY <1>1, TableInit DEF PluginInit
  <2>2. PluginTypeOK
    BY <1>1 DEF PluginInit, PluginTypeOK
  <2>3. Running /\ Loaded /\ SerialOfSelection
    BY <1>1 DEF PluginInit, Init, Running, Loaded, LoadedWhileUsed, SerialOfSelection
  <2> QED
    BY <2>1, <2>2, <2>3 DEF PluginInv
<1> QED
  BY <1>1, PluginStep, PTL DEF PluginSpec

-----------------------------------------------------------------------------
(* The theorems *)

\* The plugin calls the library only as NovinLib allows it to be called: whatever
\* is proved of NovinLib holds under the plugin.
THEOREM PluginIsACaller == PluginSpec => Spec
<1>1. PluginInit => Init
  BY DEF PluginInit
<1> QED
  BY PluginInvariant, PluginUsesLibrary, <1>1, PTL DEF PluginSpec, Spec

\* The variables of any number of objects keep their types; a handle is held by
\* objects that exist only.
THEOREM PluginTypeCorrect == PluginSpec => []PluginTypeOK
<1>1. PluginInv => PluginTypeOK
  BY DEF PluginInv
<1> QED
  BY PluginInvariant, <1>1, PTL

\* For any number of objects: library code runs only in an object that holds a
\* handle and found every symbol.
THEOREM LoadedWhileUsedHolds == PluginSpec => []LoadedWhileUsed
<1>1. PluginInv => LoadedWhileUsed
  BY DEF PluginInv, Loaded
<1> QED
  BY PluginInvariant, <1>1, PTL

\* A GetToken without error leaves the object with the serial of the entry that
\* it selected, for any tokens that come and go between its library calls.
THEOREM SerialOfSelectionHolds == PluginSpec => []SerialOfSelection
<1>1. PluginInv => SerialOfSelection
  BY DEF PluginInv
<1> QED
  BY PluginInvariant, <1>1, PTL

\* An error stays until the last object that loaded the library is gone: a
\* method that would clear it is not entered, and GetToken stops at its first.
THEOREM ErrorLatchesHolds == PluginSpec => ErrorLatches
<1> DEFINE Latch == LAST_ERR_NO # nErr_OK => LAST_ERR_NO' = LAST_ERR_NO \/ users' = {}
<1>1. ASSUME PluginInv, PluginNext
      PROVE  Latch
  <2>1. ASSUME NEW p \in Instances,
               \/ Construct(p) \/ Destroy(p)
               \/ \E m \in Methods : Refuse(p, m)
        PROVE  Latch
    BY <2>1 DEF Construct, Destroy, Close, Refuse, vars
  <2>2. ASSUME NEW p \in Instances, get_TkErr(p) = nErr_OK
        PROVE  LAST_ERR_NO = nErr_OK
    BY <2>2, LoadErrors DEF get_TkErr
  <2>3. CASE Page
    BY <2>1, <2>2, <2>3 DEF Page, GetToken, GetDeviceCount, CallLibrary, Enter
  <2>4. CASE GetTokenFirst \/ GetTokenCurr \/ GetTokenSelect \/ GetDeviceCountReturns
    BY <1>1, <2>4 DEF GetTokenFirst, GetTokenCurr, GetTokenSelect, GetDeviceCountReturns,
       PluginInv, Running
  <2>5. CASE LibraryStep
    BY <1>1, <2>5, StepKeepsTable DEF LibraryStep, PluginInv, Running
  <2>6. CASE LibraryReturned \/ Hotplug
    BY <2>6 DEF LibraryReturned, Hotplug, Plug, Unplug, vars
  <2> QED
    BY <1>1, <2>3, <2>4, <2>5, <2>6 DEF PluginNext, MethodStep
<1>2. ASSUME PluginInv, [PluginNext]_allVars
      PROVE  [Latch]_allVars
  BY <1>1, <1>2
<1> QED
  BY PluginInvariant, <1>2, PTL DEF PluginSpec, ErrorLatches

-----------------------------------------------------------------------------
(* What the page is told.  While a method runs there is no answer; when it       *)
(* returns, the library's return value and its error number agree.              *)

AnswerInv == (who # NoInstance => answer = "none") /\ PageCanTell

LEMMA AnswerStep ==
  ASSUME PluginInv, ReturnMatchesError, AnswerInv, [PluginNext]_allVars
  PROVE  AnswerInv'
<1>1. ASSUME UNCHANGED <<who, answer, method, LAST_ERR_NO>>
      PROVE  AnswerInv'
  BY <1>1 DEF AnswerInv, PageCanTell
<1>2. ASSUME answer' = "none" \/ (answer' \in {"refused", "void"} /\ who' = NoInstance)
      PROVE  AnswerInv'
  BY <1>2 DEF AnswerInv, PageCanTell
<1>3. CASE Page
  <2>1. PICK p \in Instances :
           \/ Construct(p) \/ Destroy(p)
           \/ \E m \in Methods : Refuse(p, m)
           \/ GetToken(p) \/ GetDeviceCount(p)
           \/ \E m \in LibMethods, k \in 0 .. 3 : CallLibrary(p, m, k)
    BY <1>3 DEF Page, LibMethods
  <2>2. CASE Construct(p)
    BY <1>1, <2>2 DEF Construct, vars
  <2>3. CASE \/ Destroy(p) \/ GetToken(p) \/ GetDeviceCount(p)
             \/ \E m \in LibMethods, k \in 0 .. 3 : CallLibrary(p, m, k)
    BY <1>2, <2>3 DEF Destroy, GetToken, GetDeviceCount, CallLibrary, Enter
  <2>4. CASE \E m \in Methods : Refuse(p, m)
    BY <1>2, <2>4 DEF Refuse, PageIdle
  <2> QED
    BY <2>1, <2>2, <2>3, <2>4
<1>4. CASE GetTokenFirst \/ GetTokenCurr \/ GetTokenSelect
  <2>1. who # NoInstance /\ answer = "none"
    BY <1>4 DEF GetTokenFirst, GetTokenCurr, GetTokenSelect, PluginInv, Running, AnswerInv
  <2> QED
    BY <1>2, <1>4, <2>1 DEF GetTokenFirst, GetTokenCurr, GetTokenSelect, GetTokenNext,
       MethodReturns
<1>5. CASE LibraryStep
  <2>1. answer' = "none"
    BY <1>5 DEF LibraryStep, pluginVars, PluginInv, Running, AnswerInv
  <2> QED
    BY <1>2, <2>1
<1>6. CASE LibraryReturned
  <2>1. /\ pc = "idle" /\ method \in LibMethods /\ fn = LibFunction(method)
        /\ who' = NoInstance /\ UNCHANGED <<method, LAST_ERR_NO>>
    BY <1>6 DEF LibraryReturned, MethodReturns, PluginInv, Running, vars
  <2>2. CASE /\ method = "RsaEncrypt"
             /\ answer' = IF ret = -1 THEN "empty" ELSE "text"
    <3>1. ret = -1 <=> LAST_ERR_NO # nErr_OK
      BY <2>1, <2>2, LibFunctions DEF ReturnMatchesError
    <3> QED
      BY <2>1, <2>2, <3>1 DEF AnswerInv, PageCanTell
  <2>3. CASE /\ method = "RsaDecrypt"
             /\ (ret > 0 /\ answer' = "text") \/ answer' = "empty"
    <3>1. ret = -1 <=> LAST_ERR_NO # nErr_OK
      BY <2>1, <2>3, LibFunctions DEF ReturnMatchesError
    <3>2. ret > 0 => ret # -1
      OBVIOUS
    <3> QED
      BY <2>1, <2>3, <3>1, <3>2 DEF AnswerInv, PageCanTell
  <2>4. CASE /\ method = "GetSignature"
             /\ answer' = IF ret # nErr_OK THEN "empty" ELSE "text"
    <3>1. ret = LAST_ERR_NO
      BY <2>1, <2>4, LibFunctions DEF ReturnMatchesError
    <3> QED
      BY <2>1, <2>4, <3>1 DEF AnswerInv, PageCanTell
  <2>5. CASE /\ method = "VerifySignature"
             /\ answer' = IF ret = nErr_OK THEN "match" ELSE "no match"
    <3>1. ret = LAST_ERR_NO
      BY <2>1, <2>5, LibFunctions DEF ReturnMatchesError
    <3> QED
      BY <2>1, <2>5, <3>1 DEF AnswerInv, PageCanTell
  <2>6. CASE /\ method = "GetPublicKey"
             /\ answer' = "text" \/ (buff = "wild" /\ answer' = "garbage")
    <3>1. buff = "wild" => LAST_ERR_NO # nErr_OK
      BY <2>1, <2>6, LibFunctions DEF ReturnMatchesError, FileCalls
    <3> QED
      BY <2>1, <2>6, <3>1 DEF AnswerInv, PageCanTell
  <2>7. \/ /\ method = "RsaEncrypt"
           /\ answer' = IF ret = -1 THEN "empty" ELSE "text"
        \/ /\ method = "RsaDecrypt"
           /\ (ret > 0 /\ answer' = "text") \/ answer' = "empty"
        \/ /\ method = "GetSignature"
           /\ answer' = IF ret # nErr_OK THEN "empty" ELSE "text"
        \/ /\ method = "VerifySignature"
           /\ answer' = IF ret = nErr_OK THEN "match" ELSE "no match"
        \/ /\ method = "GetPublicKey"
           /\ answer' = "text" \/ (buff = "wild" /\ answer' = "garbage")
    BY <1>6 DEF LibraryReturned, MethodReturns
  <2> QED
    BY <2>2, <2>3, <2>4, <2>5, <2>6, <2>7
<1>7. CASE GetDeviceCountReturns
  <2>1. who' = NoInstance /\ answer' = "text" /\ LAST_ERR_NO' = nErr_OK
    BY <1>7 DEF GetDeviceCountReturns, MethodReturns, get_device_count, Short
  <2> QED
    BY <2>1 DEF AnswerInv, PageCanTell
<1>8. CASE Hotplug
  BY <1>1, <1>8 DEF Hotplug, Plug, Unplug, pluginVars
<1>9. CASE UNCHANGED allVars
  BY <1>1, <1>9 DEF allVars, vars, pluginVars
<1> QED
  BY <1>3, <1>4, <1>5, <1>6, <1>7, <1>8, <1>9 DEF PluginNext, MethodStep

\* Every answer of every method, for any number of objects: an error is hidden by a
\* text of GetPublicKey only, a success by an empty text of RsaDecrypt only, and
\* garbage comes with an error.
THEOREM PageCanTellHolds == PluginSpec => []PageCanTell
<1>1. PluginInit => AnswerInv
  BY DEF PluginInit, AnswerInv, PageCanTell
<1>2. AnswerInv => PageCanTell
  BY DEF AnswerInv
<1> QED
  BY PluginInvariant, PluginIsACaller, ReturnMatches, <1>1, <1>2, AnswerStep, PTL
     DEF PluginSpec

-----------------------------------------------------------------------------
(* The plugin implements TokenSession *)

TheSession == IF ActiveSelected THEN tk[ActiveToken].serial ELSE ZeroSerial

LEMMA SessionValue ==
  ASSUME TableInv
  PROVE  TheSession = IF tk[0].inUse /\ tk[0].selected THEN tk[0].serial ELSE ZeroSerial
BY FirstEntry DEF TheSession, ActiveSelected

LEMMA SessionStep ==
  ASSUME PluginInv, [PluginNext]_allVars
  PROVE  [Session!SessionNext]_Session!sessionVars
<1>0. TableInv /\ TableInv'
  BY PluginTable DEF PluginInv
<1>1. TheSession' = IF tk'[0].inUse /\ tk'[0].selected THEN tk'[0].serial ELSE ZeroSerial
  <2>1. (TableInv => TheSession = IF tk[0].inUse /\ tk[0].selected
                                  THEN tk[0].serial ELSE ZeroSerial)'
    BY SessionValue, PTL
  <2> QED
    BY <1>0, <2>1
<1>2. LAST_ERR_NO \in ErrorNumbers /\ LAST_ERR_NO' \in ErrorNumbers
  BY <1>0 DEF TableInv, TypeOK
<1>3. ASSUME UNCHANGED tk, LAST_ERR_NO = nErr_OK
      PROVE  [Session!SessionNext]_Session!sessionVars
  <2>1. TheSession' = TheSession
    BY <1>0, <1>1, <1>3, SessionValue
  <2>2. CASE LAST_ERR_NO' # nErr_OK
    <3>1. Session!FailWith(LAST_ERR_NO')
      BY <1>3, <2>1 DEF Session!FailWith, TheSession
    <3>2. LAST_ERR_NO' \in ErrorNumbers \ {nErr_OK}
      BY <1>2, <2>2
    <3> QED
      BY <3>1, <3>2 DEF Session!SessionNext
  <2>3. CASE LAST_ERR_NO' = nErr_OK
    BY <1>3, <2>1, <2>3 DEF Session!sessionVars, TheSession
  <2> QED
    BY <2>2, <2>3
<1>4. ASSUME UNCHANGED <<tk, LAST_ERR_NO>>
      PROVE  [Session!SessionNext]_Session!sessionVars
  <2>1. TheSession' = TheSession
    BY <1>0, <1>1, <1>4, SessionValue
  <2> QED
    BY <1>4, <2>1 DEF Session!sessionVars, TheSession
<1>5. CASE Page
  <2>1. PICK p \in Instances :
           \/ Construct(p) \/ Destroy(p)
           \/ \E m \in Methods : Refuse(p, m)
           \/ GetToken(p) \/ GetDeviceCount(p)
           \/ \E m \in LibMethods, k \in 0 .. 3 : CallLibrary(p, m, k)
    BY <1>5 DEF Page, LibMethods
  <2>2. CASE \/ Construct(p) \/ GetToken(p) \/ GetDeviceCount(p)
             \/ \E m \in Methods : Refuse(p, m)
    BY <1>4, <2>2 DEF Construct, GetToken, GetDeviceCount, Refuse, vars
  <2>3. CASE \E m \in LibMethods, k \in 0 .. 3 : CallLibrary(p, m, k)
    BY <1>4, <2>3 DEF CallLibrary, Begin, tableVars
  <2>5. CASE Destroy(p)
    <3>1. CASE Reload
      <4>1. tk'[0] = ZeroEntry
        BY <1>0, <3>1, FirstEntry DEF Reload, ZeroTable
      <4>2. TheSession' = ZeroSerial /\ LAST_ERR_NO' = nErr_OK
        BY <1>1, <3>1, <4>1 DEF Reload, ZeroEntry
      <4>3. Session!Unload
        BY <4>2 DEF Session!Unload, TheSession
      <4> QED
        BY <4>3 DEF Session!SessionNext
    <3>2. CASE UNCHANGED vars
      BY <1>4, <3>2 DEF vars
    <3> QED
      BY <2>5, <3>1, <3>2 DEF Destroy, Close
  <2> QED
    BY <2>1, <2>2, <2>3, <2>5
<1>6. CASE GetTokenFirst
  <2>1. LAST_ERR_NO = nErr_OK
    BY <1>6 DEF GetTokenFirst, PluginInv, Running
  <2>2. ~tk'[0].selected
    BY <1>0, <1>6, FirstEntry DEF GetTokenFirst, get_first_device, ZeroEntry
  <2>3. TheSession' = ZeroSerial
    BY <1>1, <2>2
  <2>4. Session!Drop
    BY <1>2, <2>1, <2>3 DEF Session!Drop, TheSession
  <2> QED
    BY <2>4 DEF Session!SessionNext
<1>7. CASE GetTokenCurr \/ GetDeviceCountReturns
  BY <1>3, <1>7 DEF GetTokenCurr, get_curr_dev_serial, GetDeviceCountReturns,
     get_device_count, tableVars, PluginInv, Running
<1>8. CASE GetTokenSelect
  <2>1. LAST_ERR_NO = nErr_OK /\ tk[0].inUse /\ ~tk[0].selected
    BY <1>8 DEF GetTokenSelect, PluginInv, Running
  <2>2. CASE LAST_ERR_NO' = nErr_OK
    <3>1. tk' = [tk EXCEPT ![0].selected = TRUE]
      BY <1>0, <1>8, <2>1, <2>2, FirstEntry DEF GetTokenSelect, select_device, Short
    <3>2. tk'[0].inUse /\ tk'[0].selected /\ tk'[0].serial = tk[0].serial
      BY <1>0, <2>1, <3>1, FirstEntry DEF TableInv, TypeOK, Entry
    <3>3. TheSession = ZeroSerial /\ TheSession' = tk[0].serial
      BY <1>0, <1>1, <2>1, <3>2, SessionValue
    <3>4. Session!Select(tk[0].serial)
      BY <2>1, <2>2, <3>3 DEF Session!Select, TheSession
    <3>5. tk[0].serial \in Devices
      BY <1>0, <2>1, FirstEntry
    <3> QED
      BY <3>4, <3>5 DEF Session!SessionNext
  <2>3. CASE LAST_ERR_NO' # nErr_OK
    <3>1. UNCHANGED tk
      BY <1>8, <2>3 DEF GetTokenSelect, select_device, Short
    <3> QED
      BY <1>3, <2>1, <3>1
  <2> QED
    BY <2>2, <2>3
<1>9. CASE LibraryStep
  <2>1. UNCHANGED tk /\ LAST_ERR_NO = nErr_OK
    BY <1>9, StepKeepsTable DEF LibraryStep, PluginInv, Running
  <2> QED
    BY <1>3, <2>1
<1>10. CASE LibraryReturned
  BY <1>4, <1>10 DEF LibraryReturned, vars
<1>11. CASE Hotplug
  BY <1>4, <1>11 DEF Hotplug, Plug, Unplug, tableVars
<1>12. CASE UNCHANGED allVars
  BY <1>4, <1>12 DEF allVars, vars
<1> QED
  BY <1>5, <1>6, <1>7, <1>8, <1>9, <1>10, <1>11, <1>12 DEF PluginNext, MethodStep

\* Seen from the page the objects, the library and the bus together are one
\* session: one token at a time, dropped before another is made, and an error
\* that is final.
THEOREM SessionIsImplemented == PluginSpec => ImplementsSession
<1>1. ASSUME PluginInit
      PROVE  Session!SessionInit
  <2>1. TableInv /\ tk[0] = ZeroEntry /\ LAST_ERR_NO = nErr_OK
    BY <1>1, TableInit, ConstantTypes DEF PluginInit, Init, ZeroTable
  <2>2. TheSession = ZeroSerial
    BY <2>1, SessionValue DEF ZeroEntry
  <2> QED
    BY <2>1, <2>2 DEF Session!SessionInit, TheSession
<1> QED
  BY PluginInvariant, <1>1, SessionStep, PTL
     DEF PluginSpec, ImplementsSession, Session!SessionSpec

=============================================================================
