--------------------------- MODULE PacketExchange ---------------------------
(***************************************************************************)
(* How a process of the machine reaches a token: the enumerations of       *)
(* libnovin (token-DLL/lib/novinlib.c, novintools.c) and _send_packet, at  *)
(* the level of the hidapi functions they call (hid-libusb.c) and of what  *)
(* these ask of libusb.  Several processes share the bus and the claims;   *)
(* each has its own image of the library, with one libusb context.         *)
(***************************************************************************)
EXTENDS Naturals, FiniteSets

CONSTANTS
    Procs,         \* processes with the library loaded, one thread calling it
    Uses,          \* the functions each of them calls
    Devices,       \* attachments of tokens to the bus: a new one at each plug-in
    Failures       \* which failures happen: a subset of FailureKinds

\* hid_init; the device list; reading a configuration, opening and reading strings
\* while enumerating; opening the device; detaching its driver; a control transfer.
FailureKinds == {"init", "list", "config", "string", "open", "detach", "transfer"}

Scans == {"get_first_device", "_check_dev_connected", "get_device_count"}
Calls == Scans \cup {"_send_packet"}

ASSUME UsesAssumption == Uses \in [Procs -> SUBSET Calls]
ASSUME FailuresKnown == Failures \subseteq FailureKinds

VARIABLES
    plugged,       \* the attachments on the bus
    driver,        \* those the kernel's HID driver is bound to
    claim,         \* of each: the process that has claimed its interface, if any
    heard,         \* of each: the process whose request it took last, while that
                   \* process is in the call that sent it
    ctx,           \* the processes whose usb_context is not null
    pc, call,      \* where each process is, in which function
    devs,          \* libusb devices hid_enumerate has yet to describe
    infos,         \* the list hid_enumerate builds
    nameless,      \* its records whose serial_number is null
    found,         \* the records whose serial has been converted
    target,        \* the serial _check_dev_connected looks for
    handle,        \* the open device
    result,        \* what the call came to
    source,        \* whose request the answer read was for
    stock,         \* history: the bus when the call began
    noise          \* history: what happened to the call that it could fail from

busVars  == <<plugged, driver, claim, heard>>
listVars == <<devs, infos, nameless, found>>
endVars  == <<result, source>>
pastVars == <<call, target, stock>>
vars == <<busVars, ctx, pc, listVars, handle, endVars, pastVars, noise>>

Init ==
    /\ plugged = {} /\ driver = {}
    /\ claim = [d \in Devices |-> {}] /\ heard = [d \in Devices |-> {}]
    /\ ctx = {}
    /\ pc = [p \in Procs |-> "idle"] /\ call = [p \in Procs |-> "none"]
    /\ devs = [p \in Procs |-> {}] /\ infos = [p \in Procs |-> {}]
    /\ nameless = [p \in Procs |-> {}] /\ found = [p \in Procs |-> {}]
    /\ target = [p \in Procs |-> {}] /\ handle = [p \in Procs |-> {}]
    /\ result = [p \in Procs |-> "none"] /\ source = [p \in Procs |-> {}]
    /\ stock = [p \in Procs |-> {}] /\ noise = [p \in Procs |-> {}]

Inside(p) == pc[p] \notin {"idle", "returned", "crashed"}
InPacket(p) == Inside(p) /\ call[p] = "_send_packet"

At(p, from, to) == pc[p] = from /\ pc' = [pc EXCEPT ![p] = to]
Set(f, p, v) == f' = [f EXCEPT ![p] = v]

\* What a call remembers of its disturbances: for a packet, that there was one it
\* could fail from; a scan can tell them apart.
Felt(p, kind) ==
    CASE call[p] # "_send_packet" -> {kind}
      [] call[p] = "_send_packet" /\ kind = "string" -> {}
      [] call[p] = "_send_packet" /\ kind # "string" -> {"failure"}

Suffer(p, kind) == kind \in Failures /\ Set(noise, p, noise[p] \cup Felt(p, kind))

-----------------------------------------------------------------------------
(* The bus *)

\* A path names bus and device address, which no list or handle still in use has.
Plug(d) ==
    /\ d \notin plugged
    /\ \A p \in Procs : d \notin devs[p] \cup infos[p] \cup handle[p]
    /\ plugged' = plugged \cup {d} /\ driver' = driver \cup {d}
    /\ UNCHANGED <<claim, heard, ctx, pc, listVars, handle, endVars, pastVars, noise>>

Unplug(d) ==
    /\ d \in plugged
    /\ plugged' = plugged \ {d} /\ driver' = driver \ {d}
    /\ Set(claim, d, {}) /\ Set(heard, d, {})
    /\ noise' = [p \in Procs |-> noise[p] \cup (IF Inside(p) THEN Felt(p, "unplug") ELSE {})]
    /\ UNCHANGED <<ctx, pc, listVars, handle, endVars, pastVars>>

-----------------------------------------------------------------------------
(* hid_enumerate *)

\* A function is called: get_first_device and get_device_count want every token,
\* _check_dev_connected one, _send_packet the first that comes.
Begin(p, f, t) ==
    /\ At(p, "idle", "init")
    /\ (t # {}) = (f = "_check_dev_connected")
    /\ Set(call, p, f) /\ Set(target, p, t) /\ Set(stock, p, plugged)
    /\ noise' = [q \in Procs |->
                   IF f = "_send_packet" /\ (InPacket(q) \/ (q = p /\ \E r \in Procs : InPacket(r)))
                   THEN noise[q] \cup {"failure"} ELSE noise[q]]
    /\ UNCHANGED <<busVars, ctx, listVars, handle, endVars>>

\* No list comes back: _send_packet closes a null handle, the scans return.
NoList(p) ==
    /\ pc' = [pc EXCEPT ![p] = IF call[p] = "_send_packet" THEN "close" ELSE "returned"]
    /\ Set(result, p, IF call[p] = "get_device_count" THEN "OK" ELSE "DNF")
    /\ UNCHANGED source

hid_init(p) ==
    /\ At(p, "init", "list")
    /\ ctx' = ctx \cup {p}
    /\ UNCHANGED <<busVars, listVars, handle, endVars, pastVars, noise>>

\* libusb_init is called only without a context.
hid_init_fails(p) ==
    /\ pc[p] = "init" /\ p \notin ctx
    /\ Suffer(p, "init")
    /\ NoList(p)
    /\ UNCHANGED <<busVars, ctx, listVars, handle, pastVars>>

GetDeviceList(p) ==
    /\ At(p, "list", "describe")
    /\ Set(devs, p, plugged)
    /\ UNCHANGED <<busVars, ctx, infos, nameless, found, handle, endVars, pastVars, noise>>

GetDeviceListFails(p) ==
    /\ pc[p] = "list"
    /\ Suffer(p, "list")
    /\ NoList(p)
    /\ UNCHANGED <<busVars, ctx, listVars, handle, pastVars>>

\* A record whose strings cannot be read is left out of the list.
Fault_Describe(p, d) ==
    /\ pc[p] = "describe" /\ d \in devs[p]
    /\ Set(devs, p, devs[p] \ {d})
    /\ \/ /\ d \in plugged /\ Set(infos, p, infos[p] \cup {d})
          /\ UNCHANGED <<nameless, noise>>
       \/ /\ \/ d \notin plugged /\ UNCHANGED noise
             \/ Suffer(p, "string")
          /\ UNCHANGED <<infos, nameless>>
    /\ UNCHANGED <<busVars, ctx, pc, found, handle, endVars, pastVars>>

\* The cause of trouble with a device: it is gone, or something fails.
Trouble(p, d, failure) == (d \notin plugged /\ UNCHANGED noise) \/ Suffer(p, failure)

\* One device's record.  It joins the list first; then the device is opened and
\* its strings are read, and if either fails its serial number stays null.
Describe(p, d) ==
    /\ pc[p] = "describe" /\ d \in devs[p]
    /\ Set(devs, p, devs[p] \ {d}) /\ Set(infos, p, infos[p] \cup {d})
    /\ \/ d \in plugged /\ UNCHANGED <<nameless, noise>>
       \/ Set(nameless, p, nameless[p] \cup {d}) /\ Trouble(p, d, "string")
    /\ UNCHANGED <<busVars, ctx, pc, found, handle, endVars, pastVars>>

\* A device whose configuration cannot be read gets no record.
Skip(p, d) ==
    /\ pc[p] = "describe" /\ d \in devs[p]
    /\ Set(devs, p, devs[p] \ {d})
    /\ Trouble(p, d, "config")
    /\ UNCHANGED <<busVars, ctx, pc, infos, nameless, found, handle, endVars, pastVars>>

\* An empty list is asked for again.
Fault_Enumerated(p) ==
    /\ pc[p] = "describe" /\ devs[p] = {}
    /\ pc' = [pc EXCEPT ![p] = IF infos[p] = {} THEN "list"
                              ELSE IF call[p] = "_send_packet" THEN "open" ELSE "convert"]
    /\ UNCHANGED <<busVars, ctx, listVars, handle, endVars, pastVars, noise>>

\* The device list is freed; an empty list is a null pointer.
Enumerated(p) ==
    /\ pc[p] = "describe" /\ devs[p] = {}
    /\ \/ infos[p] = {} /\ NoList(p)
       \/ /\ infos[p] # {}
          /\ pc' = [pc EXCEPT ![p] = IF call[p] = "_send_packet" THEN "open" ELSE "convert"]
          /\ UNCHANGED endVars
    /\ UNCHANGED <<busVars, ctx, listVars, handle, pastVars, noise>>

-----------------------------------------------------------------------------
(* The scans *)

\* The loop over the records goes on: get_device_count only counts them.
Searching(p) ==
    /\ call[p] # "get_device_count"
    /\ IF target[p] = {} THEN found[p] # infos[p] ELSE ~(target[p] \subseteq found[p])

\* _cnv_hex_to_decimal_serial of one record: wcslen of a null serial ends the
\* process, and with it all it holds.
Convert(p, d) ==
    /\ pc[p] = "convert" /\ Searching(p) /\ d \in infos[p] \ found[p]
    /\ \/ /\ d \notin nameless[p]
          /\ Set(found, p, found[p] \cup {d})
          /\ UNCHANGED <<pc, ctx, infos, nameless>>
       \/ /\ d \in nameless[p]
          /\ Set(pc, p, "crashed")
          /\ ctx' = ctx \ {p} /\ Set(infos, p, {}) /\ Set(nameless, p, {})
          /\ UNCHANGED found
    /\ UNCHANGED <<busVars, devs, handle, endVars, pastVars, noise>>

\* The list is used up, or the serial was found: it is freed, the call returns.
ScanEnds(p) ==
    /\ At(p, "convert", "returned")
    /\ ~Searching(p) \/ infos[p] = found[p]
    /\ Set(result, p, IF target[p] \subseteq found[p] THEN "OK" ELSE "DNF")
    /\ Set(infos, p, {}) /\ Set(nameless, p, {})
    /\ UNCHANGED <<busVars, ctx, devs, found, handle, source, pastVars, noise>>

-----------------------------------------------------------------------------
(* _send_packet: hid_open *)

\* hid_open_path found no device to open: the new device and the enumeration are
\* freed and the handle is null.
Unopened(p) ==
    /\ pc' = [pc EXCEPT ![p] = "close"]
    /\ Set(result, p, "DNF") /\ Set(handle, p, {})
    /\ Set(infos, p, {}) /\ Set(nameless, p, {})
    /\ UNCHANGED <<ctx, devs, found, source, pastVars>>

\* The search goes on after a device was opened.
Fault_OpenPath(p, d) ==
    /\ pc[p] = "open" /\ d \in infos[p] \cap plugged
    /\ Set(handle, p, handle[p] \cup {d})
    /\ Set(pc, p, IF handle[p] = {} THEN "open" ELSE "detach")
    /\ UNCHANGED <<busVars, ctx, listVars, endVars, pastVars, noise>>

\* hid_open_path takes the path of the first record, which is on the bus again
\* or not when the devices are listed a second time.
OpenPath(p, d) ==
    /\ d \in infos[p] \cap plugged
    /\ At(p, "open", "detach")
    /\ Set(handle, p, {d})
    /\ UNCHANGED <<busVars, ctx, listVars, endVars, pastVars, noise>>

OpenPathFails(p, d) ==
    /\ pc[p] = "open" /\ d \in infos[p]
    /\ Trouble(p, d, "open")
    /\ Unopened(p)
    /\ UNCHANGED busVars

\* hid_open_path does not look at what libusb_get_device_list returns.
OpenPathCrashes(p) ==
    /\ At(p, "open", "crashed")
    /\ Suffer(p, "list")
    /\ ctx' = ctx \ {p} /\ Set(infos, p, {}) /\ Set(nameless, p, {})
    /\ UNCHANGED <<busVars, devs, found, handle, endVars, pastVars>>

\* libusb_kernel_driver_active finds the HID driver, or the claim of another
\* process, which some libusb take for a driver.
DriverActive(d) == d \in driver \/ claim[d] # {}

\* Detaching "will unclaim interfaces (if another app has them claimed)"
\* (hid-libusb.c:516).
Unclaim(d) ==
    /\ claim[d] # {}
    /\ Set(claim, d, {})
    /\ noise' = [q \in Procs |-> noise[q] \cup (IF q \in claim[d] THEN {"stolen"} ELSE {})]

\* The driver, if there is one, is detached.
DetachDriver(p, d) ==
    /\ handle[p] = {d} /\ d \in plugged
    /\ At(p, "detach", "claim")
    /\ driver' = driver \ {d}
    /\ Unclaim(d) \/ UNCHANGED <<claim, noise>>
    /\ UNCHANGED <<plugged, heard, ctx, listVars, handle, endVars, pastVars>>

\* Detaching fails, or the device is gone and no driver is found.
DetachDriverFails(p, d) ==
    /\ pc[p] = "detach" /\ handle[p] = {d}
    /\ \/ d \notin plugged /\ UNCHANGED noise
       \/ DriverActive(d) /\ Suffer(p, "detach")
    /\ Unopened(p)
    /\ UNCHANGED busVars

\* The interface is used without the claim.
Fault_Claim(p, d) ==
    /\ handle[p] = {d} /\ d \in plugged
    /\ At(p, "claim", "send")
    /\ Set(claim, d, {p})
    /\ Set(infos, p, {}) /\ Set(nameless, p, {})
    /\ UNCHANGED <<plugged, driver, heard, ctx, devs, found, handle, endVars, pastVars, noise>>

\* The read thread is started, hid_open frees its enumeration and returns.
Claim(p, d) ==
    /\ handle[p] = {d} /\ d \in plugged /\ claim[d] = {}
    /\ At(p, "claim", "send")
    /\ Set(claim, d, {p})
    /\ Set(infos, p, {}) /\ Set(nameless, p, {})
    /\ UNCHANGED <<plugged, driver, heard, ctx, devs, found, handle, endVars, pastVars, noise>>

\* The handle stays open.
Fault_ClaimFails(p, d) ==
    /\ handle[p] = {d} /\ At(p, "claim", "exit")
    /\ d \notin plugged \/ claim[d] # {}
    /\ Set(result, p, "DNF") /\ Set(infos, p, {}) /\ Set(nameless, p, {})
    /\ UNCHANGED <<busVars, ctx, devs, found, handle, source, pastVars, noise>>

\* Another process has the interface: the device is closed again.
ClaimFails(p, d) ==
    /\ pc[p] = "claim" /\ handle[p] = {d}
    /\ d \notin plugged \/ claim[d] # {}
    /\ Unopened(p)
    /\ UNCHANGED <<busVars, noise>>

-----------------------------------------------------------------------------
(* _send_packet: the two transfers *)

\* The library has no selected entry: found out only now.
NotSelected(p) ==
    /\ At(p, "send", "close")
    /\ Set(result, p, "DNS")
    /\ UNCHANGED <<busVars, ctx, listVars, handle, source, pastVars, noise>>

\* A control transfer to the interface: without a claim, lost to another process's
\* detaching, the kernel makes one.
Reaches(p, d) == d \in plugged /\ claim[d] \subseteq {p}

hid_send_feature_report(p, d) ==
    /\ handle[p] = {d} /\ Reaches(p, d)
    /\ At(p, "send", "get")
    /\ Set(heard, d, {p}) /\ Set(claim, d, {p})
    /\ UNCHANGED <<plugged, driver, ctx, listVars, handle, endVars, pastVars, noise>>

IOError(p) ==
    /\ Set(result, p, "IOE")
    /\ UNCHANGED <<plugged, driver, ctx, listVars, handle, source, pastVars>>

\* A transfer that reaches the interface times out or fails; one that does not, fails.
TransferFails(p, d) ==
    \/ ~Reaches(p, d) /\ UNCHANGED <<claim, noise>>
    \/ Reaches(p, d) /\ Set(claim, d, {p}) /\ Suffer(p, "transfer")

\* The token may have taken the request that failed all the same.
SendFails(p, d) ==
    /\ handle[p] = {d}
    /\ At(p, "send", "close")
    /\ TransferFails(p, d)
    /\ \E h \in {heard[d]} \cup (IF Reaches(p, d) THEN {{p}} ELSE {}) : Set(heard, d, h)
    /\ IOError(p)

\* The token answers the request it took last, with success or with an error.
hid_get_feature_report(p, d) ==
    /\ handle[p] = {d} /\ Reaches(p, d)
    /\ At(p, "get", "close")
    /\ Set(source, p, heard[d]) /\ Set(claim, d, {p})
    /\ \E res \in {"OK", "code"} : Set(result, p, res)
    /\ UNCHANGED <<plugged, driver, heard, ctx, listVars, handle, pastVars, noise>>

GetFails(p, d) ==
    /\ handle[p] = {d}
    /\ At(p, "get", "close")
    /\ TransferFails(p, d)
    /\ IOError(p)
    /\ UNCHANGED heard

-----------------------------------------------------------------------------
(* _send_packet: the end *)

\* The interface is not released.
Fault_hid_close(p) ==
    /\ At(p, "close", "exit")
    /\ Set(handle, p, {})
    /\ UNCHANGED <<busVars, ctx, listVars, endVars, pastVars, noise>>

\* hid_close: nothing for a null handle; else the thread is joined, the interface
\* released and the device closed.
hid_close(p) ==
    /\ At(p, "close", "exit")
    /\ claim' = [d \in Devices |-> IF d \in handle[p] THEN claim[d] \ {p} ELSE claim[d]]
    /\ Set(handle, p, {})
    /\ UNCHANGED <<plugged, driver, heard, ctx, listVars, endVars, pastVars, noise>>

hid_exit(p) ==
    /\ At(p, "exit", "returned")
    /\ ctx' = ctx \ {p}
    /\ UNCHANGED <<busVars, listVars, handle, endVars, pastVars, noise>>

Forgotten(p) ==
    /\ Set(pc, p, "idle") /\ Set(call, p, "none")
    /\ Set(target, p, {}) /\ Set(stock, p, {}) /\ Set(noise, p, {})
    /\ Set(found, p, {}) /\ Set(result, p, "none") /\ Set(source, p, {})
    /\ heard' = [d \in Devices |-> heard[d] \ {p}]

\* The caller has the result.
Return(p) ==
    /\ pc[p] = "returned" /\ Forgotten(p)
    /\ UNCHANGED <<plugged, driver, claim, ctx, devs, infos, nameless, handle>>

\* The process ends, by a signal or after a crash, and a new one takes its
\* place; the kernel closes what it had open.
Kill(p) ==
    /\ pc[p] # "idle" /\ Forgotten(p)
    /\ ctx' = ctx \ {p}
    /\ Set(devs, p, {}) /\ Set(infos, p, {}) /\ Set(nameless, p, {}) /\ Set(handle, p, {})
    /\ claim' = [d \in Devices |-> claim[d] \ {p}]
    /\ UNCHANGED <<plugged, driver>>

-----------------------------------------------------------------------------
Enumerate(p) ==
    \/ hid_init(p) \/ hid_init_fails(p) \/ GetDeviceList(p) \/ GetDeviceListFails(p)
    \/ (\E d \in Devices : Describe(p, d) \/ Skip(p, d)) \/ Enumerated(p)

Scan(p) == (\E d \in Devices : Convert(p, d)) \/ ScanEnds(p)

Open(p, d) ==
    \/ OpenPath(p, d) \/ OpenPathFails(p, d) \/ DetachDriver(p, d)
    \/ DetachDriverFails(p, d) \/ Claim(p, d) \/ ClaimFails(p, d)

Transfer(p, d) ==
    \/ hid_send_feature_report(p, d) \/ SendFails(p, d)
    \/ hid_get_feature_report(p, d) \/ GetFails(p, d)

Step(p) ==
    \/ Enumerate(p) \/ Scan(p)
    \/ (\E d \in Devices : Open(p, d) \/ Transfer(p, d))
    \/ OpenPathCrashes(p) \/ NotSelected(p) \/ hid_close(p) \/ hid_exit(p)

Next ==
    \/ \E d \in Devices : Plug(d) \/ Unplug(d)
    \/ \E p \in Procs :
          \/ \E f \in Uses[p], t \in {{}} \cup {{d} : d \in Devices} : Begin(p, f, t)
          \/ Step(p) \/ Return(p) \/ Kill(p)

Spec == Init /\ [][Next]_vars

-----------------------------------------------------------------------------
(* Properties *)

Optional(S) == {{}} \cup {{x} : x \in S}

ExchangeTypeOK ==
    /\ plugged \subseteq Devices /\ driver \subseteq plugged
    /\ claim \in [Devices -> Optional(Procs)] /\ heard \in [Devices -> Optional(Procs)]
    /\ ctx \subseteq Procs
    /\ pc \in [Procs -> {"idle", "init", "list", "describe", "convert", "open", "detach",
                        "claim", "send", "get", "close", "exit", "returned", "crashed"}]
    /\ call \in [Procs -> Calls \cup {"none"}]
    /\ devs \in [Procs -> SUBSET Devices] /\ infos \in [Procs -> SUBSET Devices]
    /\ nameless \in [Procs -> SUBSET Devices] /\ found \in [Procs -> SUBSET Devices]
    /\ stock \in [Procs -> SUBSET Devices]
    /\ target \in [Procs -> Optional(Devices)] /\ handle \in [Procs -> Optional(Devices)]
    /\ result \in [Procs -> {"none", "OK", "code", "DNF", "DNS", "IOE"}]
    /\ source \in [Procs -> Optional(Procs)]
    /\ noise \in [Procs -> SUBSET (FailureKinds \cup {"failure", "unplug", "stolen"})]

\* Whichever way a call ends, it leaves no device list, no record, no open device
\* and no claim behind, and a packet no libusb context either (a scan does:
\* nothing in novinlib.c calls hid_exit but _send_packet).  libusb's devices and
\* handles live within its context, which goes only after the last of them.
NothingHeld ==
    \A p \in Procs :
       /\ devs[p] # {} \/ handle[p] # {} => p \in ctx
       /\ ~Inside(p) =>
            /\ devs[p] = {} /\ infos[p] = {} /\ handle[p] = {}
            /\ \A d \in Devices : p \notin claim[d]
            /\ call[p] = "_send_packet" => p \notin ctx

\* A packet that comes back with an answer has the token's answer to it, unless
\* another process's detaching took the claim from under it.  It fails
\* with nErr_DNF or nErr_IOE, with a token on the bus, only if a token was pulled
\* out, a transfer or another libusb call failed or another process was sending
\* too: nothing an earlier call, or a process that was killed, has left behind
\* makes it fail, nor do unreadable strings.
PacketOutcome ==
    \A p \in Procs : call[p] = "_send_packet" =>
      /\ result[p] \in {"OK", "code"} /\ "stolen" \notin noise[p] => source[p] = {p}
      /\ pc[p] = "returned" /\ stock[p] # {} /\ noise[p] = {} =>
           result[p] \notin {"DNF", "IOE"}

\* A scan that returns has seen every token that stayed plugged in, whatever the
\* other processes were doing, with or without a claim of theirs.  It ends the
\* browser, by a null serial, only if a token was pulled out or its strings could
\* not be read meanwhile, and counting tokens never does (novintools.c:46).
QuietScans ==
    \A p \in Procs : call[p] \in Scans =>
      /\ pc[p] = "returned" /\ noise[p] \subseteq {"string"} =>
           /\ call[p] = "get_first_device" => stock[p] \subseteq found[p]
           /\ target[p] \subseteq stock[p] /\ stock[p] # {} => result[p] = "OK"
      /\ pc[p] = "crashed" =>
           call[p] # "get_device_count" /\ noise[p] \cap {"unplug", "string"} # {}

\* The processes and the tokens together are a TokenServer: the claim is what
\* makes a token serve one process at a time and answer it alone, although a
\* request that timed out may have arrived (novintools.c:276); and a process whose
\* claim was taken by another's detaching can take the answer to that one's
\* request for its own.
Server == INSTANCE TokenServer WITH
            user <- claim, asked <- heard, served <- source,
            robbed <- {p \in Procs : "stolen" \in noise[p]}

ImplementsServer == Server!ServerSpec

Rank ==
    [idle |-> 0, init |-> 1, list |-> 2, describe |-> 3, convert |-> 4, open |-> 4,
     detach |-> 5, claim |-> 6, send |-> 7, get |-> 8, close |-> 9, exit |-> 10,
     returned |-> 11, crashed |-> 11]

Local(p) ==
    <<p \in ctx, pc[p], devs[p], infos[p], nameless[p], found[p], handle[p], result[p]>>

\* Whatever a process does in a call brings the call nearer to its end: nothing is
\* tried again and no loop waits for a token, so every call ends after finitely
\* many of its own steps, whatever the bus and the other processes do.
CallAdvances ==
    [][\A p \in Procs :
         Inside(p) /\ Local(p)' # Local(p) =>
           \/ pc'[p] = "idle" \/ Rank[pc'[p]] > Rank[pc[p]]
           \/ /\ pc'[p] = pc[p]
              /\ \/ devs'[p] \subseteq devs[p] /\ devs'[p] # devs[p]
                 \/ found[p] \subseteq found'[p] /\ found'[p] # found[p]
      ]_vars

=============================================================================
