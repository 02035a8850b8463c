----------------------------- MODULE FumPlugin ------------------------------
(***************************************************************************)
(* The plugin objects (fumPlugin/fumPluginAPI.cpp, .h) composed with the   *)
(* library they load.  A page creates and destroys objects and calls their *)
(* methods; every call comes in on the browser's main thread, so one       *)
(* method runs at a time, in any object, while tokens come and go.  All    *)
(* objects of a process share one image of libnovin.so, hence one table    *)
(* and one LAST_ERR_NO, until the last of them closes it.                  *)
(***************************************************************************)
EXTENDS NovinLib

CONSTANTS
    Instances,     \* the plugin objects a page may create
    NoInstance,    \* nobody
    Garbage        \* what an uninitialised serial holds

ASSUME InstancesAssumption == NoInstance \notin Instances
ASSUME GarbageAssumption == Garbage \notin Serials

nErr_DLL == 133

\* The methods that run one exported function of the library.
LibMethods == {"GetPublicKey", "RsaEncrypt", "RsaDecrypt", "GetSignature",
               "VerifySignature"}
Methods == LibMethods \cup {"GetToken", "GetDeviceCount"}

\* The function behind a method.
LibFunction(m) ==
    CASE m = "GetPublicKey"    -> "get_public_key"
      [] m = "RsaEncrypt"      -> "rsa_encrypt"
      [] m = "RsaDecrypt"      -> "rsa_decrypt"
      [] m = "GetSignature"    -> "get_signature"
      [] m = "VerifySignature" -> "verify_signature"

VARIABLES
    alive,     \* the objects that exist
    users,     \* those that hold a handle from dlopen
    dll,       \* dll_load_stat of each object
    serials,   \* the member serial of each object
    who,       \* the object whose method is running
    mpc,       \* where it is: "none", "first", "curr", "select", "count" or "lib"
    method,    \* the method that is running, or the last one
    answer,    \* what the last method gave the page
    crashed,   \* the plugin process has died
    owner      \* history: the object whose GetToken made the current selection

pluginVars == <<alive, users, dll, serials, who, mpc, method, answer, crashed,
                owner>>
allVars == <<vars, pluginVars>>

-----------------------------------------------------------------------------
PluginInit ==
    /\ Init
    /\ alive = {} /\ users = {}
    /\ dll = [p \in Instances |-> nErr_OK]
    /\ serials = [p \in Instances |-> Garbage]
    /\ who = NoInstance /\ mpc = "none" /\ method = "none" /\ answer = "none"
    /\ crashed = FALSE
    /\ owner = NoInstance

\* The page is idle: no method of any object is running.
PageIdle == ~crashed /\ who = NoInstance

\* The load status is not tested.
Fault_get_TkErr(p) == LAST_ERR_NO

get_TkErr(p) == IF dll[p] # nErr_OK THEN nErr_DLL ELSE LAST_ERR_NO

-----------------------------------------------------------------------------
(* Life of an object *)

\* The constructor: dlopen may fail, or one of the dlsym calls after it, which
\* leaves the handle open.
Construct(p) ==
    /\ PageIdle /\ p \notin alive
    /\ alive' = alive \cup {p}
    /\ \/ users' = users \cup {p} /\ dll' = [dll EXCEPT ![p] = nErr_OK]
       \/ users' = users \cup {p} /\ dll' = [dll EXCEPT ![p] = nErr_DLL]
       \/ users' = users          /\ dll' = [dll EXCEPT ![p] = nErr_DLL]
    /\ serials' = [serials EXCEPT ![p] = Garbage]
    /\ UNCHANGED <<vars, who, mpc, method, answer, crashed, owner>>

\* The handle is not closed.
Fault_Close(p) == UNCHANGED <<users, vars>>

\* dlclose: the last user unloads the library.
Close(p) ==
    /\ users' = users \ {p}
    /\ IF users = {p} THEN Reload ELSE UNCHANGED vars

\* The destructor: the last handle closed unloads the library.  Without a
\* handle it is dlclose(NULL), which may kill the process.
Destroy(p) ==
    /\ PageIdle /\ p \in alive
    /\ alive' = alive \ {p}
    /\ Close(p)
    /\ owner' = IF owner = p \/ users' = {} THEN NoInstance ELSE owner
    /\ crashed' \in (IF p \in users THEN {FALSE} ELSE BOOLEAN)
    /\ answer' = "none"
    /\ UNCHANGED <<dll, serials, who, mpc, method>>

-----------------------------------------------------------------------------
(* Methods *)

\* Every method first looks at the error left by the call before it.
Refuse(p, m) ==
    /\ PageIdle /\ p \in alive
    /\ get_TkErr(p) # nErr_OK
    /\ method' = m /\ answer' = "refused"
    /\ UNCHANGED <<vars, alive, users, dll, serials, who, mpc, crashed, owner>>

\* The method goes on whatever the error.
Fault_Enter(p, m, at) ==
    /\ PageIdle /\ p \in alive /\ dll[p] = nErr_OK
    /\ who' = p /\ mpc' = at /\ method' = m /\ answer' = "none"
    /\ UNCHANGED <<alive, users, dll, serials, crashed>>

\* A method passes that test: it enters its first library call.
Enter(p, m, at) ==
    /\ PageIdle /\ p \in alive
    /\ get_TkErr(p) = nErr_OK
    /\ who' = p /\ mpc' = at /\ method' = m /\ answer' = "none"
    /\ UNCHANGED <<alive, users, dll, serials, crashed>>

CallLibrary(p, m, k) ==
    /\ Enter(p, m, "lib")
    /\ Begin(LibFunction(m), k)
    /\ UNCHANGED owner

GetDeviceCount(p) ==
    /\ Enter(p, "GetDeviceCount", "count")
    /\ UNCHANGED <<vars, owner>>

\* GetToken calls three library functions and returns after the first failure.
GetToken(p) ==
    /\ Enter(p, "GetToken", "first")
    /\ UNCHANGED <<vars, owner>>

\* The end of a method, with what it gives the page.
MethodReturns(a) ==
    /\ who' = NoInstance /\ mpc' = "none" /\ answer' = a

\* The error is not tested between the library calls of GetToken.
Fault_GetTokenNext(at) == mpc' = at /\ UNCHANGED <<who, answer>>

\* After a library call of GetToken: on to the next, or return on an error.
GetTokenNext(at) ==
    IF LAST_ERR_NO' = nErr_OK
    THEN mpc' = at /\ UNCHANGED <<who, answer>>
    ELSE MethodReturns("void")

GetTokenFirst ==
    /\ mpc = "first"
    /\ get_first_device
    /\ GetTokenNext("curr")
    /\ owner' = NoInstance
    /\ UNCHANGED <<alive, users, dll, serials, method, crashed>>

\* get_curr_dev_serial writes into the object's serial, unless it fails.
GetTokenCurr ==
    /\ mpc = "curr"
    /\ get_curr_dev_serial
    /\ serials' = [serials EXCEPT ![who] = IF ActiveError = nErr_OK THEN out' ELSE @]
    /\ GetTokenNext("select")
    /\ UNCHANGED <<alive, users, dll, method, crashed, owner>>

GetTokenSelect ==
    /\ mpc = "select"
    /\ select_device(serials[who])
    /\ MethodReturns("void")
    /\ owner' = IF LAST_ERR_NO' = nErr_OK THEN who ELSE owner
    /\ UNCHANGED <<alive, users, dll, serials, method, crashed>>

GetDeviceCountReturns ==
    /\ mpc = "count"
    /\ get_device_count
    /\ MethodReturns("text")
    /\ UNCHANGED <<alive, users, dll, serials, method, crashed, owner>>

\* A step of the library function a method is in.
LibraryStep ==
    /\ mpc = "lib"
    /\ Step
    /\ UNCHANGED pluginVars

\* The library call returned: the method looks at what it returned.
\* What RsaDecrypt decrypted ends at its first NUL byte, so the text may be empty.
\* GetPublicKey makes a string of the pointer whatever happened: reading an
\* uninitialised one yields garbage or kills the process.
LibraryReturned ==
    /\ mpc = "lib" /\ pc = "idle"
    /\ \/ /\ method = "RsaEncrypt"
          /\ MethodReturns(IF ret = -1 THEN "empty" ELSE "text")
          /\ UNCHANGED crashed
       \/ /\ method = "RsaDecrypt"
          /\ \/ ret > 0 /\ MethodReturns("text")
             \/ MethodReturns("empty")
          /\ UNCHANGED crashed
       \/ /\ method = "GetSignature"
          /\ MethodReturns(IF ret # nErr_OK THEN "empty" ELSE "text")
          /\ UNCHANGED crashed
       \/ /\ method = "VerifySignature"
          /\ MethodReturns(IF ret = nErr_OK THEN "match" ELSE "no match")
          /\ UNCHANGED crashed
       \/ /\ method = "GetPublicKey" /\ buff = "malloc"
          /\ MethodReturns("text")
          /\ UNCHANGED crashed
       \/ /\ method = "GetPublicKey" /\ buff = "wild"
          /\ MethodReturns("garbage")
          /\ crashed' \in BOOLEAN
    /\ UNCHANGED <<vars, alive, users, dll, serials, method, owner>>

Hotplug ==
    /\ \/ \E d \in Devices, i \in 1 .. Len(bus) + 1 : Plug(d, i)
       \/ \E i \in 1 .. Len(bus) : Unplug(i)
    /\ UNCHANGED pluginVars

Page ==
    \E p \in Instances :
       \/ Construct(p) \/ Destroy(p)
       \/ \E m \in Methods : Refuse(p, m)
       \/ GetToken(p) \/ GetDeviceCount(p)
       \/ \E m \in {"RsaEncrypt", "RsaDecrypt"}, k \in 1 .. 3 : CallLibrary(p, m, k)
       \/ \E m \in {"GetPublicKey", "GetSignature", "VerifySignature"} :
             CallLibrary(p, m, 0)

MethodStep ==
    \/ GetTokenFirst \/ GetTokenCurr \/ GetTokenSelect
    \/ GetDeviceCountReturns
    \/ LibraryStep \/ LibraryReturned

PluginNext == Page \/ MethodStep \/ Hotplug

PluginSpec == PluginInit /\ [][PluginNext]_allVars

-----------------------------------------------------------------------------
(* Properties *)

PluginTypeOK ==
    /\ alive \in SUBSET Instances /\ users \in SUBSET alive
    /\ dll \in [Instances -> {nErr_OK, nErr_DLL}]
    /\ serials \in [Instances -> Serials \cup {Garbage}]
    /\ who \in alive \cup {NoInstance}
    /\ mpc \in {"none", "first", "curr", "select", "count", "lib"}
    /\ method \in Methods \cup {"none"}
    /\ answer \in {"none", "refused", "void", "text", "empty", "match",
                   "no match", "garbage"}
    /\ crashed \in BOOLEAN
    /\ owner \in alive \cup {NoInstance}

\* Library code runs only while it is loaded: the object in a call holds a
\* handle, all its symbols were found, and objects that failed to load the
\* library have not unloaded it under the others.
LoadedWhileUsed == who # NoInstance => who \in users /\ dll[who] = nErr_OK

\* After a GetToken without error the object's serial is that of the selected
\* entry, although the token may be pulled out and another plugged in between
\* any two of the three library calls and select_device does not compare the
\* serial it is given with the entry it marks.
SerialOfSelection ==
    owner # NoInstance =>
      tk[0].inUse /\ tk[0].selected /\ serials[owner] = tk[0].serial

\* An error stays until the last object that loaded the library is gone: no
\* method of any object, and no token coming or going, clears it.
ErrorLatches ==
    [][LAST_ERR_NO # nErr_OK => LAST_ERR_NO' = LAST_ERR_NO \/ users' = {}]_allVars

\* What an answer and the error number tell the page together.  An answer with an
\* error can look like a result for GetPublicKey only, which makes a text of whatever
\* it got; without an error an answer can look like a failure for RsaDecrypt only,
\* whose plaintext may be empty or start with a NUL (fumPluginAPI.cpp:276); and the
\* garbage of an uninitialised pointer never comes without an error.  The RSA methods
\* test a length, the signature methods an error, the page the error number.
PageCanTell ==
    /\ answer \in {"text", "match"} /\ LAST_ERR_NO # nErr_OK => method = "GetPublicKey"
    /\ answer \in {"empty", "no match"} /\ LAST_ERR_NO = nErr_OK =>
         method = "RsaDecrypt" /\ answer = "empty"
    /\ answer = "garbage" => LAST_ERR_NO # nErr_OK

\* The plugin keeps the promises of TokenSession: seen from the page, GetToken
\* never replaces one selection by another in one step, no failing method loses
\* the selection, and the first error is final.
Session == INSTANCE TokenSession WITH
             Tokens <- Devices, NoToken <- ZeroSerial,
             Errors <- ErrorNumbers \ {nErr_OK}, OK <- nErr_OK,
             session <- IF ActiveSelected THEN tk[ActiveToken].serial ELSE ZeroSerial,
             error <- LAST_ERR_NO

ImplementsSession == Session!SessionSpec

(* What the documentation says and the code does not do. *)

\* The example page calls GetPublicKey and then looks at TkErr
\* (doc/FBControl.htm:70): the call returns, and returns a text of the plugin.
PublicKeyReturns == answer # "garbage"

=============================================================================
