------------------------ MODULE PacketExchangeProofs ------------------------
(***************************************************************************)
(* What TLAPS proves of PacketExchange for any number of processes and     *)
(* tokens, any functions called, and any failures.                         *)
(***************************************************************************)
EXTENDS PacketExchange, TLAPS

-----------------------------------------------------------------------------
(* What one process does, and what it leaves alone *)

Moves(p) ==
    \/ \E f \in Calls, t \in Optional(Devices) : Begin(p, f, t)
    \/ Step(p) \/ Return(p) \/ Kill(p)

Others(p) ==
    \A q \in Procs : q # p =>
       /\ pc'[q] = pc[q] /\ call'[q] = call[q] /\ devs'[q] = devs[q]
       /\ infos'[q] = infos[q] /\ nameless'[q] = nameless[q] /\ found'[q] = found[q]
       /\ target'[q] = target[q] /\ handle'[q] = handle[q] /\ result'[q] = result[q]
       /\ source'[q] = source[q] /\ stock'[q] = stock[q]
       /\ q \in ctx' <=> q \in ctx

\* A step is one of a process, or a token comes or goes.
LEMMA NextSplit ==
  ASSUME Next
  PROVE  (\E p \in Procs : Moves(p)) \/ (\E d \in Devices : Plug(d) \/ Unplug(d))
<1>1. \A p \in Procs : Uses[p] \subseteq Calls
  BY UsesAssumption
<1>2. {{}} \cup {{d} : d \in Devices} = Optional(Devices)
  BY DEF Optional
<1> QED
  BY <1>1, <1>2 DEF Next, Moves

LEMMA OthersKept ==
  ASSUME ExchangeTypeOK, NEW p \in Procs, Moves(p)
  PROVE  Others(p)
<1> USE DEF Others, At, Set, busVars, listVars, endVars, pastVars
<1>1. CASE hid_init(p)
  BY <1>1 DEF ExchangeTypeOK, hid_init
<1>2. CASE hid_init_fails(p)
  BY <1>2 DEF ExchangeTypeOK, hid_init_fails, Suffer, NoList
<1>3. CASE GetDeviceList(p)
  BY <1>3 DEF ExchangeTypeOK, GetDeviceList
<1>4. CASE GetDeviceListFails(p)
  BY <1>4 DEF ExchangeTypeOK, GetDeviceListFails, Suffer, NoList
<1>5. CASE Enumerated(p)
  BY <1>5 DEF ExchangeTypeOK, Enumerated, NoList
<1>6. CASE ScanEnds(p)
  BY <1>6 DEF ExchangeTypeOK, ScanEnds, Searching
<1>7. CASE OpenPathCrashes(p)
  BY <1>7 DEF ExchangeTypeOK, OpenPathCrashes, Suffer
<1>8. CASE NotSelected(p)
  BY <1>8 DEF ExchangeTypeOK, NotSelected
<1>9. CASE hid_close(p)
  BY <1>9 DEF ExchangeTypeOK, hid_close
<1>10. CASE hid_exit(p)
  BY <1>10 DEF ExchangeTypeOK, hid_exit
<1>11. CASE Return(p)
  BY <1>11 DEF ExchangeTypeOK, Return, Forgotten
<1>12. CASE Kill(p)
  BY <1>12 DEF ExchangeTypeOK, Kill, Forgotten
<1>13. CASE \E d \in Devices : Describe(p, d)
  BY <1>13 DEF ExchangeTypeOK, Describe, Trouble, Suffer
<1>14. CASE \E d \in Devices : Convert(p, d)
  BY <1>14 DEF ExchangeTypeOK, Convert, Searching
<1>15. CASE \E d \in Devices : OpenPath(p, d)
  BY <1>15 DEF ExchangeTypeOK, OpenPath
<1>16. CASE \E d \in Devices : OpenPathFails(p, d)
  BY <1>16 DEF ExchangeTypeOK, OpenPathFails, Trouble, Suffer, Unopened
<1>17. CASE \E d \in Devices : DetachDriver(p, d)
  BY <1>17 DEF ExchangeTypeOK, DetachDriver, Unclaim
<1>18. CASE \E d \in Devices : DetachDriverFails(p, d)
  BY <1>18 DEF ExchangeTypeOK, DetachDriverFails, Suffer, Unopened, DriverActive
<1>19. CASE \E d \in Devices : Claim(p, d)
  BY <1>19 DEF ExchangeTypeOK, Claim
<1>20. CASE \E d \in Devices : ClaimFails(p, d)
  BY <1>20 DEF ExchangeTypeOK, ClaimFails, Unopened
<1>21. CASE \E d \in Devices : hid_send_feature_report(p, d)
  BY <1>21 DEF ExchangeTypeOK, hid_send_feature_report, Reaches
<1>22. CASE \E d \in Devices : SendFails(p, d)
  BY <1>22 DEF ExchangeTypeOK, SendFails, TransferFails, Suffer, IOError, Reaches
<1>23. CASE \E d \in Devices : hid_get_feature_report(p, d)
  BY <1>23 DEF ExchangeTypeOK, hid_get_feature_report, Reaches
<1>24. CASE \E d \in Devices : GetFails(p, d)
  BY <1>24 DEF ExchangeTypeOK, GetFails, TransferFails, Suffer, IOError, Reaches
<1>25. CASE \E f \in Calls, t \in Optional(Devices) : Begin(p, f, t)
  BY <1>25 DEF ExchangeTypeOK, Begin, InPacket, Inside
<1>26. CASE \E d \in Devices : Skip(p, d)
  BY <1>26 DEF ExchangeTypeOK, Skip, Trouble, Suffer
<1> QED
  BY <1>1, <1>2, <1>3, <1>4, <1>5, <1>6, <1>7, <1>8, <1>9, <1>10, <1>11, <1>12, <1>13,
     <1>14, <1>15, <1>16, <1>17, <1>18, <1>19, <1>20, <1>21, <1>22, <1>23, <1>24, <1>25,
     <1>26 DEF Moves, Step, Enumerate, Scan, Open, Transfer

-----------------------------------------------------------------------------
(* Types *)

LEMMA LessOne ==
  ASSUME NEW S \in Optional(Procs), NEW p
  PROVE  S \ {p} \in Optional(Procs)
<1> QED
  BY DEF Optional

LEMMA TypeStep ==
  ASSUME ExchangeTypeOK, NEW p \in Procs, Moves(p)
  PROVE  ExchangeTypeOK'
<1> USE DEF Optional, Calls, Scans, Felt, FailureKinds, At, Set, busVars, listVars,
   endVars, pastVars
<1>1. CASE hid_init(p)
  BY <1>1, SMTT(60) DEF ExchangeTypeOK, hid_init
<1>2. CASE hid_init_fails(p)
  BY <1>2, SMTT(60) DEF ExchangeTypeOK, hid_init_fails, Suffer, NoList
<1>3. CASE GetDeviceList(p)
  BY <1>3, SMTT(60) DEF ExchangeTypeOK, GetDeviceList
<1>4. CASE GetDeviceListFails(p)
  BY <1>4, SMTT(60) DEF ExchangeTypeOK, GetDeviceListFails, Suffer, NoList
<1>5. CASE Enumerated(p)
  BY <1>5, SMTT(60) DEF ExchangeTypeOK, Enumerated, NoList
<1>6. CASE ScanEnds(p)
  BY <1>6, SMTT(60) DEF ExchangeTypeOK, ScanEnds, Searching
<1>7. CASE OpenPathCrashes(p)
  BY <1>7, SMTT(60) DEF ExchangeTypeOK, OpenPathCrashes, Suffer
<1>8. CASE NotSelected(p)
  BY <1>8, SMTT(60) DEF ExchangeTypeOK, NotSelected
<1>9. CASE hid_close(p)
  <2>1. \A d \in Devices : claim[d] \ {p} \in Optional(Procs)
    BY LessOne DEF ExchangeTypeOK
  <2>2. claim' \in [Devices -> Optional(Procs)]
    BY <1>9, <2>1 DEF ExchangeTypeOK, hid_close
  <2> QED
    BY <1>9, <2>2 DEF ExchangeTypeOK, hid_close
<1>10. CASE hid_exit(p)
  BY <1>10, SMTT(60) DEF ExchangeTypeOK, hid_exit
<1>11. CASE Return(p)
  <2>1. \A d \in Devices : heard[d] \ {p} \in Optional(Procs)
    BY LessOne DEF ExchangeTypeOK
  <2>2. heard' \in [Devices -> Optional(Procs)]
    BY <1>11, <2>1 DEF ExchangeTypeOK, Return, Forgotten
  <2> QED
    BY <1>11, <2>2 DEF ExchangeTypeOK, Return, Forgotten
<1>12. CASE Kill(p)
  <2>1. \A d \in Devices : claim[d] \ {p} \in Optional(Procs)
    BY LessOne DEF ExchangeTypeOK
  <2>2. \A d \in Devices : heard[d] \ {p} \in Optional(Procs)
    BY LessOne DEF ExchangeTypeOK
  <2>3. claim' \in [Devices -> Optional(Procs)] /\ heard' \in [Devices -> Optional(Procs)]
    BY <1>12, <2>1, <2>2 DEF ExchangeTypeOK, Kill, Forgotten
  <2> QED
    BY <1>12, <2>3 DEF ExchangeTypeOK, Kill, Forgotten
<1>13. CASE \E d \in Devices : Describe(p, d)
  BY <1>13, SMTT(60) DEF ExchangeTypeOK, Describe, Trouble, Suffer
<1>14. CASE \E d \in Devices : Convert(p, d)
  BY <1>14, SMTT(60) DEF ExchangeTypeOK, Convert, Searching
<1>15. CASE \E d \in Devices : OpenPath(p, d)
  BY <1>15, SMTT(60) DEF ExchangeTypeOK, OpenPath
<1>16. CASE \E d \in Devices : OpenPathFails(p, d)
  BY <1>16, SMTT(60) DEF ExchangeTypeOK, OpenPathFails, Trouble, Suffer, Unopened
<1>17. CASE \E d \in Devices : DetachDriver(p, d)
  BY <1>17, SMTT(60) DEF ExchangeTypeOK, DetachDriver, Unclaim
<1>18. CASE \E d \in Devices : DetachDriverFails(p, d)
  BY <1>18, SMTT(60) DEF ExchangeTypeOK, DetachDriverFails, Suffer, Unopened, DriverActive
<1>19. CASE \E d \in Devices : Claim(p, d)
  BY <1>19, SMTT(60) DEF ExchangeTypeOK, Claim
<1>20. CASE \E d \in Devices : ClaimFails(p, d)
  BY <1>20, SMTT(60) DEF ExchangeTypeOK, ClaimFails, Unopened
<1>21. CASE \E d \in Devices : hid_send_feature_report(p, d)
  BY <1>21, SMTT(60) DEF ExchangeTypeOK, hid_send_feature_report, Reaches
<1>22. CASE \E d \in Devices : SendFails(p, d)
  BY <1>22, SMTT(60) DEF ExchangeTypeOK, SendFails, TransferFails, Suffer, IOError, Reaches
<1>23. CASE \E d \in Devices : hid_get_feature_report(p, d)
  BY <1>23, SMTT(60) DEF ExchangeTypeOK, hid_get_feature_report, Reaches
<1>24. CASE \E d \in Devices : GetFails(p, d)
  BY <1>24, SMTT(60) DEF ExchangeTypeOK, GetFails, TransferFails, Suffer, IOError, Reaches
<1>25. CASE \E f \in Calls, t \in Optional(Devices) : Begin(p, f, t)
  BY <1>25, SMTT(60) DEF ExchangeTypeOK, Begin, InPacket, Inside
<1>26. CASE \E d \in Devices : Skip(p, d)
  BY <1>26, SMTT(60) DEF ExchangeTypeOK, Skip, Trouble, Suffer
<1> QED
  BY <1>1, <1>2, <1>3, <1>4, <1>5, <1>6, <1>7, <1>8, <1>9, <1>10, <1>11, <1>12, <1>13,
     <1>14, <1>15, <1>16, <1>17, <1>18, <1>19, <1>20, <1>21, <1>22, <1>23, <1>24, <1>25,
     <1>26 DEF Moves, Step, Enumerate, Scan, Open, Transfer

LEMMA TypeBus ==
  ASSUME ExchangeTypeOK, NEW d \in Devices, Plug(d) \/ Unplug(d)
  PROVE  ExchangeTypeOK'
<1>1. CASE Plug(d)
  BY <1>1 DEF ExchangeTypeOK, Plug, listVars, endVars, pastVars
<1>2. CASE Unplug(d)
  <2>1. claim' \in [Devices -> Optional(Procs)] /\ heard' \in [Devices -> Optional(Procs)]
    BY <1>2 DEF ExchangeTypeOK, Unplug, Set, Optional
  <2>2. \A p \in Procs : noise[p] \cup (IF Inside(p) THEN Felt(p, "unplug") ELSE {})
                           \in SUBSET (FailureKinds \cup {"failure", "unplug", "stolen"})
    BY DEF ExchangeTypeOK, Felt
  <2>3. noise' \in [Procs -> SUBSET (FailureKinds \cup {"failure", "unplug", "stolen"})]
    BY <1>2, <2>2 DEF Unplug
  <2>4. plugged' \subseteq Devices /\ driver' \subseteq plugged'
    BY <1>2 DEF ExchangeTypeOK, Unplug
  <2> QED
    BY <1>2, <2>1, <2>3, <2>4 DEF ExchangeTypeOK, Unplug, listVars, endVars, pastVars
<1> QED
  BY <1>1, <1>2

\* The variables keep their types: an interface has one claim and a call one open
\* device at most (hid-libusb.c:835, 890).
THEOREM ExchangeTypeCorrect == Spec => []ExchangeTypeOK
<1>1. Init => ExchangeTypeOK
  BY DEF Init, ExchangeTypeOK, Optional
<1>2. ExchangeTypeOK /\ [Next]_vars => ExchangeTypeOK'
  <2> SUFFICES ASSUME ExchangeTypeOK, [Next]_vars PROVE ExchangeTypeOK'
    OBVIOUS
  <2>1. CASE Next
    BY <2>1, NextSplit, TypeStep, TypeBus
  <2>2. CASE UNCHANGED vars
    BY <2>2 DEF ExchangeTypeOK, vars, busVars, listVars, endVars, pastVars
  <2> QED
    BY <2>1, <2>2
<1> QED
  BY <1>1, <1>2, PTL DEF Spec

-----------------------------------------------------------------------------
(* What a call holds *)

\* At each point of a call: which of libusb's list, its own list and an open device
\* it has, that it has a context then, and which function it can be in.
HeldOf(p) ==
    /\ pc[p] = "idle" => call[p] = "none" /\ result[p] = "none"
    /\ devs[p] # {} => pc[p] = "describe"
    /\ infos[p] # {} => pc[p] \in {"describe", "convert", "open", "detach", "claim"}
    /\ handle[p] # {} => pc[p] \in {"detach", "claim", "send", "get", "close"}
    /\ pc[p] \in {"detach", "claim", "send", "get"} => handle[p] # {}
    /\ pc[p] \in {"list", "describe", "convert", "open"} \/ handle[p] # {} => p \in ctx
    /\ pc[p] = "convert" => call[p] # "_send_packet"
    /\ pc[p] \in {"open", "detach", "claim", "send", "get", "close", "exit"} =>
         call[p] = "_send_packet"
    /\ pc[p] = "crashed" \/ (pc[p] = "returned" /\ call[p] = "_send_packet") => p \notin ctx

Held == \A p \in Procs : HeldOf(p)

\* A process that has an interface claimed is using its token.
Claims ==
    \A d \in Devices, p \in Procs :
       p \in claim[d] => handle[p] = {d} /\ pc[p] \in {"send", "get", "close"}

LEMMA HeldStep ==
  ASSUME ExchangeTypeOK, Held, NEW p \in Procs, Moves(p)
  PROVE  HeldOf(p)'
<1> USE DEF Held, HeldOf, Calls, Scans, At, Set, busVars, listVars, endVars, pastVars
<1>1. CASE hid_init(p)
  BY <1>1 DEF ExchangeTypeOK, hid_init
<1>2. CASE hid_init_fails(p)
  BY <1>2 DEF ExchangeTypeOK, hid_init_fails, Suffer, NoList
<1>3. CASE GetDeviceList(p)
  BY <1>3 DEF ExchangeTypeOK, GetDeviceList
<1>4. CASE GetDeviceListFails(p)
  BY <1>4 DEF ExchangeTypeOK, GetDeviceListFails, Suffer, NoList
<1>5. CASE Enumerated(p)
  BY <1>5 DEF ExchangeTypeOK, Enumerated, NoList
<1>6. CASE ScanEnds(p)
  BY <1>6 DEF ExchangeTypeOK, ScanEnds, Searching
<1>7. CASE OpenPathCrashes(p)
  BY <1>7 DEF ExchangeTypeOK, OpenPathCrashes, Suffer
<1>8. CASE NotSelected(p)
  BY <1>8 DEF ExchangeTypeOK, NotSelected
<1>9. CASE hid_close(p)
  BY <1>9 DEF ExchangeTypeOK, hid_close
<1>10. CASE hid_exit(p)
  BY <1>10 DEF ExchangeTypeOK, hid_exit
<1>11. CASE Return(p)
  BY <1>11 DEF ExchangeTypeOK, Return, Forgotten
<1>12. CASE Kill(p)
  BY <1>12 DEF ExchangeTypeOK, Kill, Forgotten
<1>13. CASE \E d \in Devices : Describe(p, d)
  BY <1>13 DEF ExchangeTypeOK, Describe, Trouble, Suffer
<1>14. CASE \E d \in Devices : Convert(p, d)
  BY <1>14 DEF ExchangeTypeOK, Convert, Searching
<1>15. CASE \E d \in Devices : OpenPath(p, d)
  BY <1>15 DEF ExchangeTypeOK, OpenPath
<1>16. CASE \E d \in Devices : OpenPathFails(p, d)
  BY <1>16 DEF ExchangeTypeOK, OpenPathFails, Trouble, Suffer, Unopened
<1>17. CASE \E d \in Devices : DetachDriver(p, d)
  BY <1>17 DEF ExchangeTypeOK, DetachDriver, Unclaim
<1>18. CASE \E d \in Devices : DetachDriverFails(p, d)
  BY <1>18 DEF ExchangeTypeOK, DetachDriverFails, Suffer, Unopened, DriverActive
<1>19. CASE \E d \in Devices : Claim(p, d)
  BY <1>19 DEF ExchangeTypeOK, Claim
<1>20. CASE \E d \in Devices : ClaimFails(p, d)
  BY <1>20 DEF ExchangeTypeOK, ClaimFails, Unopened
<1>21. CASE \E d \in Devices : hid_send_feature_report(p, d)
  BY <1>21 DEF ExchangeTypeOK, hid_send_feature_report, Reaches
<1>22. CASE \E d \in Devices : SendFails(p, d)
  BY <1>22 DEF ExchangeTypeOK, SendFails, TransferFails, Suffer, IOError, Reaches
<1>23. CASE \E d \in Devices : hid_get_feature_report(p, d)
  BY <1>23 DEF ExchangeTypeOK, hid_get_feature_report, Reaches
<1>24. CASE \E d \in Devices : GetFails(p, d)
  BY <1>24 DEF ExchangeTypeOK, GetFails, TransferFails, Suffer, IOError, Reaches
<1>25. CASE \E f \in Calls, t \in Optional(Devices) : Begin(p, f, t)
  BY <1>25 DEF ExchangeTypeOK, Begin, InPacket, Inside
<1>26. CASE \E d \in Devices : Skip(p, d)
  BY <1>26 DEF ExchangeTypeOK, Skip, Trouble, Suffer
<1> QED
  BY <1>1, <1>2, <1>3, <1>4, <1>5, <1>6, <1>7, <1>8, <1>9, <1>10, <1>11, <1>12, <1>13,
     <1>14, <1>15, <1>16, <1>17, <1>18, <1>19, <1>20, <1>21, <1>22, <1>23, <1>24, <1>25,
     <1>26 DEF Moves, Step, Enumerate, Scan, Open, Transfer

LEMMA HeldOther ==
  ASSUME Held, NEW p \in Procs, Others(p), HeldOf(p)'
  PROVE  Held'
<1> SUFFICES ASSUME NEW q \in Procs, q # p PROVE HeldOf(q)'
  BY DEF Held
<1> QED
  BY DEF Held, HeldOf, Others

LEMMA ClaimsStep ==
  ASSUME ExchangeTypeOK, Held, Claims, NEW p \in Procs, Moves(p), Others(p)
  PROVE  Claims'
<1> USE DEF Held, HeldOf, Claims, Others, Optional, At, Set, busVars, listVars, endVars,
   pastVars
<1>1. CASE hid_init(p)
  BY <1>1 DEF ExchangeTypeOK, hid_init
<1>2. CASE hid_init_fails(p)
  BY <1>2 DEF ExchangeTypeOK, hid_init_fails, Suffer, NoList
<1>3. CASE GetDeviceList(p)
  BY <1>3 DEF ExchangeTypeOK, GetDeviceList
<1>4. CASE GetDeviceListFails(p)
  BY <1>4 DEF ExchangeTypeOK, GetDeviceListFails, Suffer, NoList
<1>5. CASE Enumerated(p)
  BY <1>5 DEF ExchangeTypeOK, Enumerated, NoList
<1>6. CASE ScanEnds(p)
  BY <1>6 DEF ExchangeTypeOK, ScanEnds, Searching
<1>7. CASE OpenPathCrashes(p)
  BY <1>7 DEF ExchangeTypeOK, OpenPathCrashes, Suffer
<1>8. CASE NotSelected(p)
  BY <1>8 DEF ExchangeTypeOK, NotSelected
<1>9. CASE hid_close(p)
  BY <1>9 DEF ExchangeTypeOK, hid_close
<1>10. CASE hid_exit(p)
  BY <1>10 DEF ExchangeTypeOK, hid_exit
<1>11. CASE Return(p)
  BY <1>11 DEF ExchangeTypeOK, Return, Forgotten
<1>12. CASE Kill(p)
  BY <1>12 DEF ExchangeTypeOK, Kill, Forgotten
<1>13. CASE \E d \in Devices : Describe(p, d)
  BY <1>13 DEF ExchangeTypeOK, Describe, Trouble, Suffer
<1>14. CASE \E d \in Devices : Convert(p, d)
  BY <1>14 DEF ExchangeTypeOK, Convert, Searching
<1>15. CASE \E d \in Devices : OpenPath(p, d)
  BY <1>15 DEF ExchangeTypeOK, OpenPath
<1>16. CASE \E d \in Devices : OpenPathFails(p, d)
  BY <1>16 DEF ExchangeTypeOK, OpenPathFails, Trouble, Suffer, Unopened
<1>17. CASE \E d \in Devices : DetachDriver(p, d)
  BY <1>17 DEF ExchangeTypeOK, DetachDriver, Unclaim
<1>18. CASE \E d \in Devices : DetachDriverFails(p, d)
  BY <1>18 DEF ExchangeTypeOK, DetachDriverFails, Suffer, Unopened, DriverActive
<1>19. CASE \E d \in Devices : Claim(p, d)
  BY <1>19 DEF ExchangeTypeOK, Claim
<1>20. CASE \E d \in Devices : ClaimFails(p, d)
  BY <1>20 DEF ExchangeTypeOK, ClaimFails, Unopened
<1>21. CASE \E d \in Devices : hid_send_feature_report(p, d)
  BY <1>21 DEF ExchangeTypeOK, hid_send_feature_report, Reaches
<1>22. CASE \E d \in Devices : SendFails(p, d)
  <2> PICK d \in Devices : SendFails(p, d)
    BY <1>22
  <2>1. \A x \in Devices : claim'[x] = claim[x] \/ (x = d /\ claim'[x] = {p})
    BY DEF ExchangeTypeOK, SendFails, TransferFails
  <2>2. handle' = handle /\ handle[p] = {d} /\ pc'[p] = "close"
    BY DEF ExchangeTypeOK, SendFails, IOError
  <2>3. \A q \in Procs : q # p => pc'[q] = pc[q]
    OBVIOUS
  <2> QED
    BY <2>1, <2>2, <2>3
<1>23. CASE \E d \in Devices : hid_get_feature_report(p, d)
  BY <1>23 DEF ExchangeTypeOK, hid_get_feature_report, Reaches
<1>24. CASE \E d \in Devices : GetFails(p, d)
  <2> PICK d \in Devices : GetFails(p, d)
    BY <1>24
  <2>1. \A x \in Devices : claim'[x] = claim[x] \/ (x = d /\ claim'[x] = {p})
    BY DEF ExchangeTypeOK, GetFails, TransferFails
  <2>2. handle' = handle /\ handle[p] = {d} /\ pc'[p] = "close"
    BY DEF ExchangeTypeOK, GetFails, IOError
  <2>3. \A q \in Procs : q # p => pc'[q] = pc[q]
    OBVIOUS
  <2> QED
    BY <2>1, <2>2, <2>3
<1>25. CASE \E f \in Calls, t \in Optional(Devices) : Begin(p, f, t)
  BY <1>25 DEF ExchangeTypeOK, Begin, InPacket, Inside
<1>26. CASE \E d \in Devices : Skip(p, d)
  BY <1>26 DEF ExchangeTypeOK, Skip, Trouble, Suffer
<1> QED
  BY <1>1, <1>2, <1>3, <1>4, <1>5, <1>6, <1>7, <1>8, <1>9, <1>10, <1>11, <1>12, <1>13,
     <1>14, <1>15, <1>16, <1>17, <1>18, <1>19, <1>20, <1>21, <1>22, <1>23, <1>24, <1>25,
     <1>26 DEF Moves, Step, Enumerate, Scan, Open, Transfer

\* A token comes or goes: what the calls hold stays.
LEMMA HeldBus ==
  ASSUME ExchangeTypeOK, Held, Claims, NEW d \in Devices, Plug(d) \/ Unplug(d)
  PROVE  Held' /\ Claims'
<1>1. UNCHANGED <<ctx, pc, devs, infos, handle, result, call>>
  BY DEF Plug, Unplug, listVars, endVars, pastVars
<1>2. \A e \in Devices : claim'[e] \subseteq claim[e]
  BY DEF Plug, Unplug, Set, ExchangeTypeOK
<1>3. Held'
  BY <1>1 DEF Held, HeldOf
<1> QED
  BY <1>1, <1>2, <1>3 DEF Claims

HoldInv == ExchangeTypeOK /\ Held /\ Claims

LEMMA HoldNext == HoldInv /\ [Next]_vars => HoldInv'
<1> SUFFICES ASSUME HoldInv, [Next]_vars PROVE HoldInv'
  OBVIOUS
<1>1. ASSUME NEW p \in Procs, Moves(p) PROVE HoldInv'
  BY <1>1, TypeStep, OthersKept, HeldStep, HeldOther, ClaimsStep DEF HoldInv
<1>2. ASSUME NEW d \in Devices, Plug(d) \/ Unplug(d) PROVE HoldInv'
  BY <1>2, TypeBus, HeldBus DEF HoldInv
<1>3. CASE UNCHANGED vars
  <2>1. ExchangeTypeOK'
    BY <1>3 DEF HoldInv, ExchangeTypeOK, vars, busVars, listVars, endVars, pastVars
  <2>2. Held' /\ Claims'
    BY <1>3 DEF HoldInv, Held, HeldOf, Claims, vars, busVars, listVars, endVars, pastVars
  <2> QED
    BY <2>1, <2>2 DEF HoldInv
<1> QED
  BY <1>1, <1>2, <1>3, NextSplit

\* What a call holds at each of its points, through enumeration, opening, transfers,
\* closing and every failure.
THEOREM HoldInvHolds == Spec => []HoldInv
<1>1. Init => HoldInv
  BY DEF Init, HoldInv, ExchangeTypeOK, Optional, Held, HeldOf, Claims
<1> QED
  BY <1>1, HoldNext, PTL DEF Spec

\* Whichever way a call ends, by success, failure, crash or kill, nothing of it
\* stays: lists, open device, claim, and a packet's context (hid-libusb.c:424, 1161).
THEOREM NothingHeldHolds == Spec => []NothingHeld
<1>1. HoldInv => NothingHeld
  BY DEF HoldInv, Held, HeldOf, Claims, NothingHeld, Inside
<1> QED
  BY <1>1, HoldInvHolds, PTL

-----------------------------------------------------------------------------
(* Every step brings the call nearer to its end *)

LEMMA AdvanceStep ==
  ASSUME ExchangeTypeOK, NEW p \in Procs, Moves(p), Inside(p), Local(p)' # Local(p)
  PROVE  \/ pc'[p] = "idle" \/ Rank[pc'[p]] > Rank[pc[p]]
         \/ /\ pc'[p] = pc[p]
            /\ \/ devs'[p] \subseteq devs[p] /\ devs'[p] # devs[p]
               \/ found[p] \subseteq found'[p] /\ found'[p] # found[p]
<1> USE DEF Rank, Inside, At, Set, busVars, listVars, endVars, pastVars
<1> DEFINE Nearer == \/ pc'[p] = "idle" \/ Rank[pc'[p]] > Rank[pc[p]]
                     \/ /\ pc'[p] = pc[p]
                        /\ \/ devs'[p] \subseteq devs[p] /\ devs'[p] # devs[p]
                           \/ found[p] \subseteq found'[p] /\ found'[p] # found[p]
<1> SUFFICES Nearer
  OBVIOUS
<1>1. CASE hid_init(p)
  BY <1>1 DEF ExchangeTypeOK, hid_init
<1>2. CASE hid_init_fails(p)
  BY <1>2 DEF ExchangeTypeOK, hid_init_fails, Suffer, NoList
<1>3. CASE GetDeviceList(p)
  BY <1>3 DEF ExchangeTypeOK, GetDeviceList
<1>4. CASE GetDeviceListFails(p)
  BY <1>4 DEF ExchangeTypeOK, GetDeviceListFails, Suffer, NoList
<1>5. CASE Enumerated(p)
  BY <1>5 DEF ExchangeTypeOK, Enumerated, NoList
<1>6. CASE ScanEnds(p)
  BY <1>6 DEF ExchangeTypeOK, ScanEnds, Searching
<1>7. CASE OpenPathCrashes(p)
  BY <1>7 DEF ExchangeTypeOK, OpenPathCrashes, Suffer
<1>8. CASE NotSelected(p)
  BY <1>8 DEF ExchangeTypeOK, NotSelected
<1>9. CASE hid_close(p)
  BY <1>9 DEF ExchangeTypeOK, hid_close
<1>10. CASE hid_exit(p)
  BY <1>10 DEF ExchangeTypeOK, hid_exit
<1>11. CASE Return(p)
  BY <1>11 DEF ExchangeTypeOK, Return, Forgotten
<1>12. CASE Kill(p)
  BY <1>12 DEF ExchangeTypeOK, Kill, Forgotten
<1>13. CASE \E d \in Devices : Describe(p, d)
  BY <1>13 DEF ExchangeTypeOK, Describe, Trouble, Suffer
<1>14. CASE \E d \in Devices : Convert(p, d)
  BY <1>14 DEF ExchangeTypeOK, Convert, Searching
<1>15. CASE \E d \in Devices : OpenPath(p, d)
  BY <1>15 DEF ExchangeTypeOK, OpenPath
<1>16. CASE \E d \in Devices : OpenPathFails(p, d)
  BY <1>16 DEF ExchangeTypeOK, OpenPathFails, Trouble, Suffer, Unopened
<1>17. CASE \E d \in Devices : DetachDriver(p, d)
  BY <1>17 DEF ExchangeTypeOK, DetachDriver, Unclaim
<1>18. CASE \E d \in Devices : DetachDriverFails(p, d)
  BY <1>18 DEF ExchangeTypeOK, DetachDriverFails, Suffer, Unopened, DriverActive
<1>19. CASE \E d \in Devices : Claim(p, d)
  BY <1>19 DEF ExchangeTypeOK, Claim
<1>20. CASE \E d \in Devices : ClaimFails(p, d)
  BY <1>20 DEF ExchangeTypeOK, ClaimFails, Unopened
<1>21. CASE \E d \in Devices : hid_send_feature_report(p, d)
  BY <1>21 DEF ExchangeTypeOK, hid_send_feature_report, Reaches
<1>22. CASE \E d \in Devices : SendFails(p, d)
  BY <1>22 DEF ExchangeTypeOK, SendFails, TransferFails, Suffer, IOError, Reaches
<1>23. CASE \E d \in Devices : hid_get_feature_report(p, d)
  BY <1>23 DEF ExchangeTypeOK, hid_get_feature_report, Reaches
<1>24. CASE \E d \in Devices : GetFails(p, d)
  BY <1>24 DEF ExchangeTypeOK, GetFails, TransferFails, Suffer, IOError, Reaches
<1>25. CASE \E f \in Calls, t \in Optional(Devices) : Begin(p, f, t)
  BY <1>25 DEF ExchangeTypeOK, Begin, InPacket
<1>26. CASE \E d \in Devices : Skip(p, d)
  BY <1>26 DEF ExchangeTypeOK, Skip, Trouble, Suffer
<1> QED
  BY <1>1, <1>2, <1>3, <1>4, <1>5, <1>6, <1>7, <1>8, <1>9, <1>10, <1>11, <1>12, <1>13,
     <1>14, <1>15, <1>16, <1>17, <1>18, <1>19, <1>20, <1>21, <1>22, <1>23, <1>24, <1>25,
     <1>26 DEF Moves, Step, Enumerate, Scan, Open, Transfer

\* In any call, whatever the other processes and the bus do, no step repeats what
\* was done: the functions of hidapi and of libnovin retry nothing (novintools.c:262).
THEOREM CallAdvancesHolds == Spec => CallAdvances
<1>1. ExchangeTypeOK /\ [Next]_vars =>
        [\A p \in Procs :
           Inside(p) /\ Local(p)' # Local(p) =>
             \/ pc'[p] = "idle" \/ Rank[pc'[p]] > Rank[pc[p]]
             \/ /\ pc'[p] = pc[p]
                /\ \/ devs'[p] \subseteq devs[p] /\ devs'[p] # devs[p]
                   \/ found[p] \subseteq found'[p] /\ found'[p] # found[p]]_vars
  <2> SUFFICES ASSUME ExchangeTypeOK, Next, NEW p \in Procs, Inside(p), Local(p)' # Local(p)
               PROVE  \/ pc'[p] = "idle" \/ Rank[pc'[p]] > Rank[pc[p]]
                      \/ /\ pc'[p] = pc[p]
                         /\ \/ devs'[p] \subseteq devs[p] /\ devs'[p] # devs[p]
                            \/ found[p] \subseteq found'[p] /\ found'[p] # found[p]
    OBVIOUS
  <2>1. CASE Moves(p)
    BY <2>1, AdvanceStep
  <2>2. ASSUME NEW q \in Procs, q # p, Moves(q) PROVE FALSE
    BY <2>2, OthersKept DEF Others, Local
  <2>3. ASSUME NEW d \in Devices, Plug(d) \/ Unplug(d) PROVE FALSE
    BY <2>3 DEF Plug, Unplug, Local, listVars, endVars, pastVars
  <2> QED
    BY <2>1, <2>2, <2>3, NextSplit
<1> QED
  BY <1>1, ExchangeTypeCorrect, PTL DEF Spec, CallAdvances

-----------------------------------------------------------------------------
(* What a process does to the others *)

\* What a process leaves alone of the bus and of what the others remember: only a
\* packet that begins adds to it, in all packets there are and in itself, and one that
\* takes the claim of another.
Noticed(p) ==
    /\ plugged' = plugged
    /\ \A q \in Procs : q # p =>
         \/ noise'[q] = noise[q]
         \/ /\ InPacket(q)
            /\ noise'[q] \in {noise[q] \cup {"failure"}, noise[q] \cup {"stolen"}}
    /\ InPacket(p)' =>
         \/ InPacket(p) /\ noise[p] \subseteq noise'[p]
         \/ \A q \in Procs : q # p /\ InPacket(q) => noise'[p] # {} /\ noise'[q] # {}

LEMMA NoticedStep ==
  ASSUME HoldInv, NEW p \in Procs, Moves(p)
  PROVE  Noticed(p)
<1> USE DEF HoldInv, Noticed, InPacket, Inside, At, Set, busVars, listVars, endVars, pastVars
<1>1. CASE hid_init(p)
  BY <1>1 DEF ExchangeTypeOK, hid_init
<1>2. CASE hid_init_fails(p)
  BY <1>2 DEF ExchangeTypeOK, hid_init_fails, Suffer, NoList
<1>3. CASE GetDeviceList(p)
  BY <1>3 DEF ExchangeTypeOK, GetDeviceList
<1>4. CASE GetDeviceListFails(p)
  BY <1>4 DEF ExchangeTypeOK, GetDeviceListFails, Suffer, NoList
<1>5. CASE Enumerated(p)
  BY <1>5 DEF ExchangeTypeOK, Enumerated, NoList
<1>6. CASE ScanEnds(p)
  BY <1>6 DEF ExchangeTypeOK, ScanEnds, Searching
<1>7. CASE OpenPathCrashes(p)
  BY <1>7 DEF ExchangeTypeOK, OpenPathCrashes, Suffer
<1>8. CASE NotSelected(p)
  BY <1>8 DEF ExchangeTypeOK, NotSelected
<1>9. CASE hid_close(p)
  BY <1>9 DEF ExchangeTypeOK, hid_close
<1>10. CASE hid_exit(p)
  BY <1>10 DEF ExchangeTypeOK, hid_exit
<1>11. CASE Return(p)
  BY <1>11 DEF ExchangeTypeOK, Return, Forgotten
<1>12. CASE Kill(p)
  BY <1>12 DEF ExchangeTypeOK, Kill, Forgotten
<1>13. CASE \E d \in Devices : Describe(p, d)
  BY <1>13 DEF ExchangeTypeOK, Describe, Trouble, Suffer
<1>14. CASE \E d \in Devices : Convert(p, d)
  BY <1>14 DEF ExchangeTypeOK, Convert, Searching
<1>15. CASE \E d \in Devices : OpenPath(p, d)
  BY <1>15 DEF ExchangeTypeOK, OpenPath
<1>16. CASE \E d \in Devices : OpenPathFails(p, d)
  BY <1>16 DEF ExchangeTypeOK, OpenPathFails, Trouble, Suffer, Unopened
<1>17. CASE \E d \in Devices : DetachDriver(p, d)
  <2> PICK d \in Devices : DetachDriver(p, d)
    BY <1>17
  <2>1. \A q \in Procs : noise'[q] = noise[q] \/ (q \in claim[d] /\ noise'[q] = noise[q] \cup {"stolen"})
    <3>1. CASE Unclaim(d)
      <4>1. \A q \in Procs : noise'[q] = noise[q] \cup (IF q \in claim[d] THEN {"stolen"} ELSE {})
        BY <3>1 DEF Unclaim
      <4> QED
        BY <4>1
    <3>2. CASE noise' = noise
      BY <3>2
    <3> QED
      BY <3>1, <3>2 DEF DetachDriver
  <2>2. \A q \in Procs : q \in claim[d] => q # p /\ InPacket(q)
    BY DEF ExchangeTypeOK, DetachDriver, Claims, Held, HeldOf
  <2>3. plugged' = plugged /\ call' = call /\ InPacket(p)
    BY DEF ExchangeTypeOK, DetachDriver, Held, HeldOf
  <2> QED
    BY <2>1, <2>2, <2>3
<1>18. CASE \E d \in Devices : DetachDriverFails(p, d)
  BY <1>18 DEF ExchangeTypeOK, DetachDriverFails, Suffer, Unopened, DriverActive
<1>19. CASE \E d \in Devices : Claim(p, d)
  BY <1>19 DEF ExchangeTypeOK, Claim
<1>20. CASE \E d \in Devices : ClaimFails(p, d)
  BY <1>20 DEF ExchangeTypeOK, ClaimFails, Unopened
<1>21. CASE \E d \in Devices : hid_send_feature_report(p, d)
  BY <1>21 DEF ExchangeTypeOK, hid_send_feature_report, Reaches
<1>22. CASE \E d \in Devices : SendFails(p, d)
  BY <1>22 DEF ExchangeTypeOK, SendFails, TransferFails, Suffer, IOError, Reaches
<1>23. CASE \E d \in Devices : hid_get_feature_report(p, d)
  BY <1>23 DEF ExchangeTypeOK, hid_get_feature_report, Reaches
<1>24. CASE \E d \in Devices : GetFails(p, d)
  BY <1>24 DEF ExchangeTypeOK, GetFails, TransferFails, Suffer, IOError, Reaches
<1>25. CASE \E f \in Calls, t \in Optional(Devices) : Begin(p, f, t)
  <2> PICK f \in Calls, t \in Optional(Devices) : Begin(p, f, t)
    BY <1>25
  <2>1. plugged' = plugged /\ pc'[p] = "init" /\ call'[p] = f /\ pc[p] = "idle"
    BY DEF ExchangeTypeOK, Begin
  <2>2. \A q \in Procs : noise'[q] =
          IF f = "_send_packet" /\ (InPacket(q) \/ (q = p /\ \E r \in Procs : InPacket(r)))
          THEN noise[q] \cup {"failure"} ELSE noise[q]
    BY DEF Begin
  <2>3. \A q \in Procs : q # p =>
          noise'[q] = noise[q] \/ (InPacket(q) /\ noise'[q] = noise[q] \cup {"failure"})
    BY <2>2
  <2>4. ASSUME f = "_send_packet", NEW q \in Procs, q # p, InPacket(q)
        PROVE  noise'[p] # {} /\ noise'[q] # {}
    BY <2>2, <2>4
  <2> QED
    BY <2>1, <2>3, <2>4
<1>26. CASE \E d \in Devices : Skip(p, d)
  BY <1>26 DEF ExchangeTypeOK, Skip, Trouble, Suffer
<1> QED
  BY <1>1, <1>2, <1>3, <1>4, <1>5, <1>6, <1>7, <1>8, <1>9, <1>10, <1>11, <1>12, <1>13,
     <1>14, <1>15, <1>16, <1>17, <1>18, <1>19, <1>20, <1>21, <1>22, <1>23, <1>24, <1>25,
     <1>26 DEF Moves, Step, Enumerate, Scan, Open, Transfer

-----------------------------------------------------------------------------
(* One process at a time *)

\* An interface whose driver is the kernel's is not claimed, and its device is open
\* only where the driver is about to be detached.  A process between its transfers has
\* the claim, unless it was stolen, and a token it sent to has heard nobody since.
Serving ==
    /\ \A d \in driver : claim[d] = {} /\ \A p \in Procs : d \in handle[p] => pc[p] = "detach"
    /\ \A p \in Procs : \A d \in handle[p] :
          d \in plugged /\ pc[p] \in {"send", "get"} /\ "stolen" \notin noise[p] =>
            claim[d] = {p} /\ (pc[p] = "get" => heard[d] = {p})

\* An answer taken for a packet's is the answer to it.
Answers ==
    \A p \in Procs :
       call[p] = "_send_packet" /\ result[p] \in {"OK", "code"} /\ "stolen" \notin noise[p] =>
         source[p] = {p}

\* What the step does to the one token whose driver or claim it touches keeps Serving.
LEMMA ServingAtOne ==
  ASSUME HoldInv, Serving, NEW p \in Procs, Others(p), Noticed(p),
         NEW d \in Devices, handle[p] = {d}, claim[d] \subseteq {p}, d \notin driver,
         driver' = driver, handle' = handle,
         \A x \in Devices : x # d => claim'[x] = claim[x] /\ heard'[x] = heard[x],
         pc'[p] \in {"send", "get"} =>
           claim'[d] = {p} /\ (pc'[p] = "get" => heard'[d] = {p})
  PROVE  Serving'
<1>1. ASSUME NEW x \in driver'
      PROVE  claim'[x] = {} /\ \A q \in Procs : x \in handle'[q] => pc'[q] = "detach"
  <2>1. x \in Devices /\ x # d /\ x \in driver
    BY DEF HoldInv, ExchangeTypeOK
  <2> QED
    BY <2>1 DEF Serving, Others
<1>2. ASSUME NEW q \in Procs, NEW x \in handle'[q], x \in plugged', "stolen" \notin noise'[q],
             pc'[q] \in {"send", "get"}
      PROVE  claim'[x] = {q} /\ (pc'[q] = "get" => heard'[x] = {q})
  <2>1. CASE q = p
    BY <1>2, <2>1
  <2>2. CASE q # p
    <3>1. x \in handle[q] /\ pc'[q] = pc[q] /\ x \in plugged /\ "stolen" \notin noise[q]
      BY <1>2, <2>2 DEF Others, Noticed
    <3>2. claim[x] = {q} /\ (pc[q] = "get" => heard[x] = {q})
      BY <1>2, <3>1 DEF Serving
    <3>3. x \in Devices
      BY <3>1 DEF HoldInv, ExchangeTypeOK, Optional
    <3>4. x # d
      BY <2>2, <3>2
    <3> QED
      BY <3>1, <3>2, <3>3, <3>4
  <2> QED
    BY <2>1, <2>2
<1> QED
  BY <1>1, <1>2 DEF Serving

LEMMA ServingStep ==
  ASSUME HoldInv, Serving, NEW p \in Procs, Moves(p)
  PROVE  Serving'
<1> USE DEF HoldInv, Serving
<1>0. Others(p) /\ Noticed(p)
  BY OthersKept, NoticedStep
<1>1. CASE hid_init(p)
  BY <1>1, <1>0 DEF ExchangeTypeOK, Noticed, Held, HeldOf, Claims, Others, Optional,
     hid_init, At, Set, busVars, listVars, endVars, pastVars
<1>2. CASE hid_init_fails(p)
  BY <1>2, <1>0 DEF ExchangeTypeOK, Noticed, Held, HeldOf, Claims, Others, Optional,
     hid_init_fails, Suffer, NoList, At, Set, busVars, listVars, endVars, pastVars
<1>3. CASE GetDeviceList(p)
  BY <1>3, <1>0 DEF ExchangeTypeOK, Noticed, Held, HeldOf, Claims, Others, Optional,
     GetDeviceList, At, Set, busVars, listVars, endVars, pastVars
<1>4. CASE GetDeviceListFails(p)
  BY <1>4, <1>0 DEF ExchangeTypeOK, Noticed, Held, HeldOf, Claims, Others, Optional,
     GetDeviceListFails, Suffer, NoList, At, Set, busVars, listVars, endVars, pastVars
<1>5. CASE Enumerated(p)
  BY <1>5, <1>0 DEF ExchangeTypeOK, Noticed, Held, HeldOf, Claims, Others, Optional,
     Enumerated, NoList, At, Set, busVars, listVars, endVars, pastVars
<1>6. CASE ScanEnds(p)
  BY <1>6, <1>0 DEF ExchangeTypeOK, Noticed, Held, HeldOf, Claims, Others, Optional,
     ScanEnds, Searching, At, Set, busVars, listVars, endVars, pastVars
<1>7. CASE OpenPathCrashes(p)
  BY <1>7, <1>0 DEF ExchangeTypeOK, Noticed, Held, HeldOf, Claims, Others, Optional,
     OpenPathCrashes, Suffer, At, Set, busVars, listVars, endVars, pastVars
<1>8. CASE NotSelected(p)
  BY <1>8, <1>0 DEF ExchangeTypeOK, Noticed, Held, HeldOf, Claims, Others, Optional,
     NotSelected, At, Set, busVars, listVars, endVars, pastVars
<1>9. CASE hid_close(p)
  BY <1>9, <1>0 DEF ExchangeTypeOK, Noticed, Held, HeldOf, Claims, Others, Optional,
     hid_close, At, Set, busVars, listVars, endVars, pastVars
<1>10. CASE hid_exit(p)
  BY <1>10, <1>0 DEF ExchangeTypeOK, Noticed, Held, HeldOf, Claims, Others, Optional,
     hid_exit, At, Set, busVars, listVars, endVars, pastVars
<1>11. CASE Return(p)
  BY <1>11, <1>0 DEF ExchangeTypeOK, Noticed, Held, HeldOf, Claims, Others, Optional,
     Return, Forgotten, At, Set, busVars, listVars, endVars, pastVars
<1>12. CASE Kill(p)
  BY <1>12, <1>0 DEF ExchangeTypeOK, Noticed, Held, HeldOf, Claims, Others, Optional, Kill,
     Forgotten, At, Set, busVars, listVars, endVars, pastVars
<1>13. CASE \E d \in Devices : Describe(p, d)
  BY <1>13, <1>0 DEF ExchangeTypeOK, Noticed, Held, HeldOf, Claims, Others, Optional,
     Describe, Trouble, Suffer, At, Set, busVars, listVars, endVars, pastVars
<1>14. CASE \E d \in Devices : Convert(p, d)
  BY <1>14, <1>0 DEF ExchangeTypeOK, Noticed, Held, HeldOf, Claims, Others, Optional,
     Convert, Searching, At, Set, busVars, listVars, endVars, pastVars
<1>15. CASE \E d \in Devices : OpenPath(p, d)
  BY <1>15, <1>0 DEF ExchangeTypeOK, Noticed, Held, HeldOf, Claims, Others, Optional,
     OpenPath, At, Set, busVars, listVars, endVars, pastVars
<1>16. CASE \E d \in Devices : OpenPathFails(p, d)
  BY <1>16, <1>0 DEF ExchangeTypeOK, Noticed, Held, HeldOf, Claims, Others, Optional,
     OpenPathFails, Trouble, Suffer, Unopened, At, Set, busVars, listVars, endVars,
     pastVars
<1>17. CASE \E d \in Devices : DetachDriver(p, d)
  <2>1. PICK d \in Devices : DetachDriver(p, d)
    BY <1>17
  <2>2. /\ handle[p] = {d} /\ pc'[p] = "claim" /\ driver' = driver \ {d}
        /\ handle' = handle /\ plugged' = plugged /\ heard' = heard
        /\ \A x \in Devices : x # d => claim'[x] = claim[x]
    BY <2>1 DEF ExchangeTypeOK, DetachDriver, Unclaim, At, Set, listVars, endVars, pastVars
  <2>3. \A q \in Procs : claim[d] = {q} => "stolen" \in noise'[q] \/ claim' = claim
    BY <2>1 DEF DetachDriver, Unclaim
  <2>4. ASSUME NEW q \in Procs, NEW x \in handle'[q], x \in plugged', "stolen" \notin noise'[q],
               pc'[q] \in {"send", "get"}
        PROVE  claim'[x] = {q} /\ (pc'[q] = "get" => heard'[x] = {q})
    <3>1. q # p /\ x \in Devices
      BY <2>2, <2>4 DEF ExchangeTypeOK, Optional
    <3>2. /\ x \in handle[q] /\ pc'[q] = pc[q] /\ x \in plugged /\ "stolen" \notin noise[q]
          /\ heard'[x] = heard[x]
      BY <1>0, <2>2, <2>4, <3>1 DEF Others, Noticed
    <3>3. claim[x] = {q} /\ (pc[q] = "get" => heard[x] = {q})
      BY <2>4, <3>1, <3>2
    <3> QED
      BY <2>2, <2>3, <2>4, <3>1, <3>2, <3>3
  <2>5. ASSUME NEW x \in driver'
        PROVE  claim'[x] = {} /\ \A q \in Procs : x \in handle'[q] => pc'[q] = "detach"
    <3>1. x \in driver /\ x # d /\ x \in Devices
      BY <2>2, <2>5 DEF ExchangeTypeOK
    <3>2. \A q \in Procs : x \in handle'[q] => q # p
      BY <2>2, <3>1
    <3> QED
      BY <1>0, <2>2, <3>1, <3>2 DEF Others
  <2> QED
    BY <2>4, <2>5
<1>18. CASE \E d \in Devices : DetachDriverFails(p, d)
  BY <1>18, <1>0 DEF ExchangeTypeOK, Noticed, Held, HeldOf, Claims, Others, Optional,
     DetachDriverFails, Suffer, Unopened, DriverActive, At, Set, busVars, listVars,
     endVars, pastVars
<1>19. CASE \E d \in Devices : Claim(p, d)
  <2>1. PICK d \in Devices : Claim(p, d)
    BY <1>19
  <2>2. handle[p] = {d} /\ claim[d] \subseteq {p} /\ d \notin driver
    BY <2>1 DEF ExchangeTypeOK, Claim, At, Set,
       busVars, listVars, endVars, pastVars
  <2>3. /\ driver' = driver /\ handle' = handle /\ claim'[d] = {p}
        /\ \A x \in Devices : x # d => claim'[x] = claim[x] /\ heard'[x] = heard[x]
        /\ pc'[p] = "get" => heard'[d] = {p}
    BY <2>1 DEF ExchangeTypeOK, Claim, At, Set,
       busVars, listVars, endVars, pastVars
  <2> QED
    BY <1>0, <2>2, <2>3, ServingAtOne
<1>20. CASE \E d \in Devices : ClaimFails(p, d)
  BY <1>20, <1>0 DEF ExchangeTypeOK, Noticed, Held, HeldOf, Claims, Others, Optional,
     ClaimFails, Unopened, At, Set, busVars, listVars, endVars, pastVars
<1>21. CASE \E d \in Devices : hid_send_feature_report(p, d)
  <2>1. PICK d \in Devices : hid_send_feature_report(p, d)
    BY <1>21
  <2>2. handle[p] = {d} /\ claim[d] \subseteq {p} /\ d \notin driver
    BY <2>1 DEF ExchangeTypeOK, hid_send_feature_report, Reaches, At, Set,
       busVars, listVars, endVars, pastVars
  <2>3. /\ driver' = driver /\ handle' = handle /\ claim'[d] = {p}
        /\ \A x \in Devices : x # d => claim'[x] = claim[x] /\ heard'[x] = heard[x]
        /\ pc'[p] = "get" => heard'[d] = {p}
    BY <2>1 DEF ExchangeTypeOK, hid_send_feature_report, Reaches, At, Set,
       busVars, listVars, endVars, pastVars
  <2> QED
    BY <1>0, <2>2, <2>3, ServingAtOne
<1>22. CASE \E d \in Devices : SendFails(p, d)
  <2>1. PICK d \in Devices : SendFails(p, d)
    BY <1>22
  <2>2. handle[p] = {d} /\ d \notin driver /\ pc'[p] = "close"
        /\ driver' = driver /\ handle' = handle /\ plugged' = plugged
    BY <2>1 DEF ExchangeTypeOK, SendFails, TransferFails, Reaches, IOError,
       At, Set, busVars, listVars, endVars, pastVars
  <2>3. CASE Reaches(p, d)
    <3>1. \A x \in Devices : x # d => claim'[x] = claim[x] /\ heard'[x] = heard[x]
      BY <2>1, <2>3 DEF ExchangeTypeOK, SendFails, TransferFails, Reaches, IOError,
       At, Set, busVars, listVars, endVars, pastVars
    <3> QED
      BY <1>0, <2>2, <2>3, <3>1, ServingAtOne DEF Reaches
  <2>4. CASE ~Reaches(p, d)
    <3>1. claim' = claim /\ heard' = heard
      BY <2>1, <2>4 DEF ExchangeTypeOK, SendFails, TransferFails, Reaches, IOError,
       At, Set, busVars, listVars, endVars, pastVars
    <3> QED
      BY <1>0, <2>2, <3>1 DEF Others, Noticed, ExchangeTypeOK
  <2> QED
    BY <2>3, <2>4
<1>23. CASE \E d \in Devices : hid_get_feature_report(p, d)
  <2>1. PICK d \in Devices : hid_get_feature_report(p, d)
    BY <1>23
  <2>2. handle[p] = {d} /\ claim[d] \subseteq {p} /\ d \notin driver
    BY <2>1 DEF ExchangeTypeOK, hid_get_feature_report, Reaches, At, Set,
       busVars, listVars, endVars, pastVars
  <2>3. /\ driver' = driver /\ handle' = handle /\ claim'[d] = {p}
        /\ \A x \in Devices : x # d => claim'[x] = claim[x] /\ heard'[x] = heard[x]
        /\ pc'[p] = "get" => heard'[d] = {p}
    BY <2>1 DEF ExchangeTypeOK, hid_get_feature_report, Reaches, At, Set,
       busVars, listVars, endVars, pastVars
  <2> QED
    BY <1>0, <2>2, <2>3, ServingAtOne
<1>24. CASE \E d \in Devices : GetFails(p, d)
  <2>1. PICK d \in Devices : GetFails(p, d)
    BY <1>24
  <2>2. handle[p] = {d} /\ d \notin driver /\ pc'[p] = "close"
        /\ driver' = driver /\ handle' = handle /\ plugged' = plugged
    BY <2>1 DEF ExchangeTypeOK, GetFails, TransferFails, Reaches, IOError,
       At, Set, busVars, listVars, endVars, pastVars
  <2>3. CASE Reaches(p, d)
    <3>1. \A x \in Devices : x # d => claim'[x] = claim[x] /\ heard'[x] = heard[x]
      BY <2>1, <2>3 DEF ExchangeTypeOK, GetFails, TransferFails, Reaches, IOError,
       At, Set, busVars, listVars, endVars, pastVars
    <3> QED
      BY <1>0, <2>2, <2>3, <3>1, ServingAtOne DEF Reaches
  <2>4. CASE ~Reaches(p, d)
    <3>1. claim' = claim /\ heard' = heard
      BY <2>1, <2>4 DEF ExchangeTypeOK, GetFails, TransferFails, Reaches, IOError,
       At, Set, busVars, listVars, endVars, pastVars
    <3> QED
      BY <1>0, <2>2, <3>1 DEF Others, Noticed, ExchangeTypeOK
  <2> QED
    BY <2>3, <2>4
<1>25. CASE \E f \in Calls, t \in Optional(Devices) : Begin(p, f, t)
  BY <1>25, <1>0 DEF ExchangeTypeOK, Noticed, Held, HeldOf, Claims, Others, Optional, Begin,
     InPacket, Inside, At, Set, busVars, listVars, endVars, pastVars
<1>26. CASE \E d \in Devices : Skip(p, d)
  <2>1. /\ driver' = driver /\ plugged' = plugged /\ claim' = claim /\ heard' = heard
        /\ handle' = handle /\ pc' = pc
    BY <1>26 DEF Skip, At, Set, busVars, listVars, endVars, pastVars
  <2>2. pc[p] = "describe"
    BY <1>26 DEF Skip
  <2> QED
    BY <1>0, <2>1, <2>2 DEF Others, Noticed, ExchangeTypeOK
<1> QED
  BY <1>1, <1>2, <1>3, <1>4, <1>5, <1>6, <1>7, <1>8, <1>9, <1>10, <1>11, <1>12, <1>13,
     <1>14, <1>15, <1>16, <1>17, <1>18, <1>19, <1>20, <1>21, <1>22, <1>23, <1>24, <1>25,
     <1>26 DEF Moves, Step, Enumerate, Scan, Open, Transfer

LEMMA ServingBus ==
  ASSUME HoldInv, Serving, NEW d \in Devices, Plug(d) \/ Unplug(d)
  PROVE  Serving'
<1>1. CASE Plug(d)
  <2>1. \A p \in Procs : d \notin handle[p]
    BY <1>1 DEF Plug
  <2>2. claim[d] = {}
    BY <2>1 DEF HoldInv, ExchangeTypeOK, Claims, Optional
  <2>3. /\ driver' = driver \cup {d} /\ plugged' = plugged \cup {d}
        /\ UNCHANGED <<claim, heard, pc, handle, noise>>
    BY <1>1 DEF Plug
  <2> QED
    BY <2>1, <2>2, <2>3 DEF Serving
<1>2. CASE Unplug(d)
  BY <1>2 DEF Unplug, Set, HoldInv, ExchangeTypeOK, Serving, listVars, endVars, pastVars
<1> QED
  BY <1>1, <1>2

LEMMA AnswersStep ==
  ASSUME HoldInv, Serving, Answers, NEW p \in Procs, Moves(p)
  PROVE  Answers'
<1> USE DEF HoldInv, Held, HeldOf, Answers, Others, Noticed, Optional, At, Set, busVars,
   listVars, endVars, pastVars
<1>0. Others(p) /\ Noticed(p)
  BY OthersKept, NoticedStep
<1>1. CASE hid_init(p)
  BY <1>1, <1>0 DEF ExchangeTypeOK, hid_init
<1>2. CASE hid_init_fails(p)
  BY <1>2, <1>0 DEF ExchangeTypeOK, hid_init_fails, Suffer, NoList
<1>3. CASE GetDeviceList(p)
  BY <1>3, <1>0 DEF ExchangeTypeOK, GetDeviceList
<1>4. CASE GetDeviceListFails(p)
  BY <1>4, <1>0 DEF ExchangeTypeOK, GetDeviceListFails, Suffer, NoList
<1>5. CASE Enumerated(p)
  BY <1>5, <1>0 DEF ExchangeTypeOK, Enumerated, NoList
<1>6. CASE ScanEnds(p)
  BY <1>6, <1>0 DEF ExchangeTypeOK, ScanEnds, Searching
<1>7. CASE OpenPathCrashes(p)
  BY <1>7, <1>0 DEF ExchangeTypeOK, OpenPathCrashes, Suffer
<1>8. CASE NotSelected(p)
  BY <1>8, <1>0 DEF ExchangeTypeOK, NotSelected
<1>9. CASE hid_close(p)
  BY <1>9, <1>0 DEF ExchangeTypeOK, hid_close
<1>10. CASE hid_exit(p)
  BY <1>10, <1>0 DEF ExchangeTypeOK, hid_exit
<1>11. CASE Return(p)
  BY <1>11, <1>0 DEF ExchangeTypeOK, Return, Forgotten
<1>12. CASE Kill(p)
  BY <1>12, <1>0 DEF ExchangeTypeOK, Kill, Forgotten
<1>13. CASE \E d \in Devices : Describe(p, d)
  BY <1>13, <1>0 DEF ExchangeTypeOK, Describe, Trouble, Suffer
<1>14. CASE \E d \in Devices : Convert(p, d)
  BY <1>14, <1>0 DEF ExchangeTypeOK, Convert, Searching
<1>15. CASE \E d \in Devices : OpenPath(p, d)
  BY <1>15, <1>0 DEF ExchangeTypeOK, OpenPath
<1>16. CASE \E d \in Devices : OpenPathFails(p, d)
  BY <1>16, <1>0 DEF ExchangeTypeOK, OpenPathFails, Trouble, Suffer, Unopened
<1>17. CASE \E d \in Devices : DetachDriver(p, d)
  BY <1>17, <1>0 DEF ExchangeTypeOK, DetachDriver, Unclaim
<1>18. CASE \E d \in Devices : DetachDriverFails(p, d)
  BY <1>18, <1>0 DEF ExchangeTypeOK, DetachDriverFails, Suffer, Unopened, DriverActive
<1>19. CASE \E d \in Devices : Claim(p, d)
  BY <1>19, <1>0 DEF ExchangeTypeOK, Claim
<1>20. CASE \E d \in Devices : ClaimFails(p, d)
  BY <1>20, <1>0 DEF ExchangeTypeOK, ClaimFails, Unopened
<1>21. CASE \E d \in Devices : hid_send_feature_report(p, d)
  BY <1>21, <1>0 DEF ExchangeTypeOK, hid_send_feature_report, Reaches
<1>22. CASE \E d \in Devices : SendFails(p, d)
  BY <1>22, <1>0 DEF ExchangeTypeOK, SendFails, TransferFails, Suffer, IOError, Reaches
<1>23. CASE \E d \in Devices : hid_get_feature_report(p, d)
  BY <1>23, <1>0 DEF ExchangeTypeOK, Serving, hid_get_feature_report, Reaches
<1>24. CASE \E d \in Devices : GetFails(p, d)
  BY <1>24, <1>0 DEF ExchangeTypeOK, GetFails, TransferFails, Suffer, IOError, Reaches
<1>25. CASE \E f \in Calls, t \in Optional(Devices) : Begin(p, f, t)
  BY <1>25, <1>0 DEF ExchangeTypeOK, Begin, InPacket, Inside
<1>26. CASE \E d \in Devices : Skip(p, d)
  BY <1>26, <1>0 DEF ExchangeTypeOK, Skip, Trouble, Suffer
<1> QED
  BY <1>1, <1>2, <1>3, <1>4, <1>5, <1>6, <1>7, <1>8, <1>9, <1>10, <1>11, <1>12, <1>13,
     <1>14, <1>15, <1>16, <1>17, <1>18, <1>19, <1>20, <1>21, <1>22, <1>23, <1>24, <1>25,
     <1>26 DEF Moves, Step, Enumerate, Scan, Open, Transfer

\* The processes a claim was taken from.
Robbed == {p \in Procs : "stolen" \in noise[p]}

\* A call that suffers is not robbed by it.
LEMMA SufferRobs ==
  ASSUME ExchangeTypeOK, NEW p \in Procs, NEW kind, kind # "stolen", Suffer(p, kind)
  PROVE  Robbed' = Robbed
<1>1. \A q \in Procs : "stolen" \in noise'[q] <=> "stolen" \in noise[q]
  BY DEF ExchangeTypeOK, Suffer, Felt, Set
<1> QED
  BY <1>1 DEF Robbed

\* Reaching a token is being served by it, for one that has been robbed coming back.
LEMMA ReachIsServing ==
  ASSUME HoldInv, Serving, NEW p \in Procs, NEW d \in Devices, handle[p] = {d},
         pc[p] \in {"send", "get"}, Reaches(p, d), claim' = [claim EXCEPT ![d] = {p}]
  PROVE  /\ Server!Serving(p, d)
         /\ pc[p] = "get" => heard[d] = {p} \/ p \in Robbed
         /\ claim[d] = {} \/ claim' = claim
<1>1. claim[d] = {} \/ claim[d] = {p}
  BY DEF Reaches
<1>2. "stolen" \notin noise[p] => claim[d] = {p} /\ (pc[p] = "get" => heard[d] = {p})
  BY DEF Serving, Reaches
<1>3. Server!Serving(p, d)
  BY <1>1, <1>2 DEF Server!Serving
<1> QED
  BY <1>1, <1>2, <1>3 DEF HoldInv, ExchangeTypeOK, Robbed

LEMMA ServerStep ==
  ASSUME HoldInv, Serving, NEW p \in Procs, Moves(p)
  PROVE  [Server!ServerNext]_Server!serverVars
<1> USE DEF At, Set, busVars, listVars, endVars, pastVars
<1>1. CASE hid_init(p)
  BY <1>1 DEF hid_init, Server!serverVars, Robbed
<1>2. CASE hid_init_fails(p)
  BY <1>2, SufferRobs DEF HoldInv, hid_init_fails, NoList, Server!serverVars, Robbed
<1>3. CASE GetDeviceList(p)
  BY <1>3 DEF GetDeviceList, Server!serverVars, Robbed
<1>4. CASE GetDeviceListFails(p)
  BY <1>4, SufferRobs DEF HoldInv, GetDeviceListFails, NoList, Server!serverVars, Robbed
<1>5. CASE Enumerated(p)
  BY <1>5 DEF Enumerated, NoList, Server!serverVars, Robbed
<1>6. CASE ScanEnds(p)
  BY <1>6 DEF ScanEnds, Searching, Server!serverVars, Robbed
<1>7. CASE OpenPathCrashes(p)
  BY <1>7, SufferRobs DEF HoldInv, OpenPathCrashes, Server!serverVars, Robbed
<1>8. CASE NotSelected(p)
  BY <1>8 DEF NotSelected, Server!serverVars, Robbed
<1>9. CASE hid_close(p)
  <2>1. \A d \in Devices : (IF d \in handle[p] THEN claim[d] \ {p} ELSE claim[d]) = claim[d] \ {p}
    BY DEF HoldInv, Claims
  <2>2. Server!Leave(p)
    BY <1>9, <2>1 DEF hid_close, Server!Leave
  <2> QED
    BY <2>2 DEF Server!ServerNext, Server!Serve
<1>10. CASE hid_exit(p)
  BY <1>10 DEF hid_exit, Server!serverVars, Robbed
<1>11. CASE Return(p)
  <2>1. Robbed' = Robbed \ {p}
    BY <1>11 DEF HoldInv, ExchangeTypeOK, Return, Forgotten, Robbed
  <2>2. Server!Forget(p)
    BY <1>11, <2>1 DEF Return, Forgotten, Server!Forget, Robbed
  <2> QED
    BY <2>2 DEF Server!ServerNext, Server!Serve
<1>12. CASE Kill(p)
  <2>1. Robbed' = Robbed \ {p}
    BY <1>12 DEF HoldInv, ExchangeTypeOK, Kill, Forgotten, Robbed
  <2>2. Server!Forget(p)
    BY <1>12, <2>1 DEF Kill, Forgotten, Server!Forget, Robbed
  <2> QED
    BY <2>2 DEF Server!ServerNext, Server!Serve
<1>13. CASE \E d \in Devices : Describe(p, d)
  BY <1>13, SufferRobs DEF HoldInv, Describe, Trouble, Server!serverVars, Robbed
<1>14. CASE \E d \in Devices : Convert(p, d)
  BY <1>14 DEF Convert, Searching, Server!serverVars, Robbed
<1>15. CASE \E d \in Devices : OpenPath(p, d)
  BY <1>15 DEF OpenPath, Server!serverVars, Robbed
<1>16. CASE \E d \in Devices : OpenPathFails(p, d)
  BY <1>16, SufferRobs DEF HoldInv, OpenPathFails, Trouble, Unopened, Server!serverVars,
     Robbed
<1>17. CASE \E d \in Devices : DetachDriver(p, d)
  <2>1. PICK d \in Devices : DetachDriver(p, d)
    BY <1>17
  <2>2. CASE Unclaim(d)
    <3>1. \A q \in Procs : "stolen" \in noise'[q] <=> "stolen" \in noise[q] \/ q \in claim[d]
      BY <2>2 DEF Unclaim
    <3>2. claim[d] \subseteq Procs
      BY DEF HoldInv, ExchangeTypeOK, Optional
    <3>3. Robbed' = Robbed \cup claim[d]
      BY <3>1, <3>2 DEF Robbed
    <3>4. Server!Steal(d)
      BY <2>1, <2>2, <3>3 DEF DetachDriver, Unclaim, Server!Steal, Robbed
    <3> QED
      BY <3>4 DEF Server!ServerNext
  <2>3. CASE UNCHANGED <<claim, noise>>
    BY <2>1, <2>3 DEF DetachDriver, Server!serverVars
  <2> QED
    BY <2>1, <2>2, <2>3 DEF DetachDriver
<1>18. CASE \E d \in Devices : DetachDriverFails(p, d)
  BY <1>18, SufferRobs DEF HoldInv, DetachDriverFails, Unopened, DriverActive,
     Server!serverVars, Robbed
<1>19. CASE \E d \in Devices : Claim(p, d)
  <2>1. PICK d \in Devices : Claim(p, d)
    BY <1>19
  <2>2. Server!Take(p, d)
    BY <2>1 DEF Claim, Server!Take
  <2> QED
    BY <2>2 DEF Server!ServerNext, Server!Serve
<1>20. CASE \E d \in Devices : ClaimFails(p, d)
  BY <1>20 DEF ClaimFails, Unopened, Server!serverVars, Robbed
<1>21. CASE \E d \in Devices : hid_send_feature_report(p, d)
  <2>1. PICK d \in Devices : hid_send_feature_report(p, d)
    BY <1>21
  <2>2. Server!Serving(p, d)
    BY <2>1, ReachIsServing DEF hid_send_feature_report
  <2>3. Server!Ask(p, d)
    BY <2>1, <2>2 DEF hid_send_feature_report, Server!Ask
  <2> QED
    BY <2>3 DEF Server!ServerNext, Server!Serve
<1>22. CASE \E d \in Devices : SendFails(p, d)
  <2>1. PICK d \in Devices : SendFails(p, d)
    BY <1>22
  <2>2. Robbed' = Robbed /\ source' = source
    BY <2>1, SufferRobs DEF HoldInv, SendFails, TransferFails, IOError, Robbed
  <2>3. CASE ~Reaches(p, d)
    <3>1. claim' = claim /\ heard' = heard
      BY <2>1, <2>3 DEF HoldInv, ExchangeTypeOK, SendFails, TransferFails, Set
    <3> QED
      BY <2>2, <3>1 DEF Server!serverVars, Robbed
  <2>4. CASE Reaches(p, d)
    <3>1. claim' = [claim EXCEPT ![d] = {p}]
      BY <2>1, <2>4 DEF SendFails, TransferFails
    <3>2. Server!Serving(p, d) /\ (claim[d] = {} \/ claim' = claim)
      BY <2>1, <2>4, <3>1, ReachIsServing DEF SendFails
    <3>3. CASE heard' = heard
      <4>1. claim' = claim \/ Server!Take(p, d)
        BY <2>2, <3>1, <3>2, <3>3 DEF Server!Take, Robbed
      <4> QED
        BY <2>2, <3>3, <4>1 DEF Server!ServerNext, Server!Serve, Server!serverVars, Robbed
    <3>4. CASE heard' # heard
      <4>0. PICK h \in {heard[d], {p}} : heard' = [heard EXCEPT ![d] = h]
        BY <2>1, <2>4 DEF SendFails, Set
      <4>1. heard' = [heard EXCEPT ![d] = {p}]
        BY <3>4, <4>0 DEF HoldInv, ExchangeTypeOK
      <4>2. Server!Ask(p, d)
        BY <2>2, <3>2, <4>1 DEF Server!Ask, Robbed
      <4> QED
        BY <4>2 DEF Server!ServerNext, Server!Serve
    <3> QED
      BY <3>3, <3>4
  <2> QED
    BY <2>3, <2>4
<1>23. CASE \E d \in Devices : hid_get_feature_report(p, d)
  <2>1. PICK d \in Devices : hid_get_feature_report(p, d)
    BY <1>23
  <2>2. Server!Serving(p, d) /\ (heard[d] = {p} \/ p \in Robbed)
    BY <2>1, ReachIsServing DEF hid_get_feature_report
  <2>3. Server!Answer(p, d)
    BY <2>1, <2>2 DEF hid_get_feature_report, Server!Answer, Robbed
  <2> QED
    BY <2>3 DEF Server!ServerNext, Server!Serve
<1>24. CASE \E d \in Devices : GetFails(p, d)
  <2>1. PICK d \in Devices : GetFails(p, d)
    BY <1>24
  <2>2. Robbed' = Robbed /\ source' = source
    BY <2>1, SufferRobs DEF HoldInv, GetFails, TransferFails, IOError, Robbed
  <2>3. CASE ~Reaches(p, d)
    <3>1. claim' = claim /\ heard' = heard
      BY <2>1, <2>3 DEF HoldInv, ExchangeTypeOK, GetFails, TransferFails, Set
    <3> QED
      BY <2>2, <3>1 DEF Server!serverVars, Robbed
  <2>4. CASE Reaches(p, d)
    <3>1. claim' = [claim EXCEPT ![d] = {p}]
      BY <2>1, <2>4 DEF GetFails, TransferFails
    <3>2. Server!Serving(p, d) /\ (claim[d] = {} \/ claim' = claim)
      BY <2>1, <2>4, <3>1, ReachIsServing DEF GetFails
    <3>3. CASE heard' = heard
      <4>1. claim' = claim \/ Server!Take(p, d)
        BY <2>2, <3>1, <3>2, <3>3 DEF Server!Take, Robbed
      <4> QED
        BY <2>2, <3>3, <4>1 DEF Server!ServerNext, Server!Serve, Server!serverVars, Robbed
    <3> QED
      BY <2>1, <3>3 DEF GetFails
  <2> QED
    BY <2>3, <2>4
<1>25. CASE \E f \in Calls, t \in Optional(Devices) : Begin(p, f, t)
  <2>1. Robbed' = Robbed
    BY <1>25 DEF Begin, Robbed
  <2> QED
    BY <1>25, <2>1 DEF Begin, Server!serverVars, Robbed
<1>26. CASE \E d \in Devices : Skip(p, d)
  BY <1>26, SufferRobs DEF HoldInv, Skip, Trouble, Server!serverVars, Robbed
<1> QED
  BY <1>1, <1>2, <1>3, <1>4, <1>5, <1>6, <1>7, <1>8, <1>9, <1>10, <1>11, <1>12, <1>13,
     <1>14, <1>15, <1>16, <1>17, <1>18, <1>19, <1>20, <1>21, <1>22, <1>23, <1>24, <1>25,
     <1>26 DEF Moves, Step, Enumerate, Scan, Open, Transfer

ServeInv == HoldInv /\ Serving /\ Answers

LEMMA ServeNext == ServeInv /\ [Next]_vars => ServeInv'
<1> SUFFICES ASSUME ServeInv, [Next]_vars PROVE ServeInv'
  OBVIOUS
<1>1. HoldInv'
  BY HoldNext DEF ServeInv
<1>2. ASSUME NEW p \in Procs, Moves(p) PROVE Serving' /\ Answers'
  BY <1>2, ServingStep, AnswersStep DEF ServeInv
<1>3. ASSUME NEW d \in Devices, Plug(d) \/ Unplug(d) PROVE Serving' /\ Answers'
  <2>1. \A p \in Procs : noise[p] \subseteq noise'[p]
    BY <1>3 DEF Plug, Unplug
  <2>2. Answers'
    BY <1>3, <2>1 DEF ServeInv, Answers, Plug, Unplug, endVars, pastVars
  <2> QED
    BY <1>3, <2>2, ServingBus DEF ServeInv
<1>4. CASE UNCHANGED vars
  <2>1. Serving'
    BY <1>4 DEF ServeInv, Serving, vars, busVars
  <2>2. Answers'
    BY <1>4 DEF ServeInv, Answers, vars, endVars, pastVars
  <2> QED
    BY <1>1, <2>1, <2>2 DEF ServeInv
<1> QED
  BY <1>1, <1>2, <1>3, <1>4, NextSplit DEF ServeInv

\* A claimed token serves its process, and the answer read from it belongs to the last
\* request, until the claim is stolen (hid-libusb.c:818).
THEOREM ServeInvHolds == Spec => []ServeInv
<1>1. Init => ServeInv
  <2>1. Init => HoldInv
    BY DEF Init, HoldInv, ExchangeTypeOK, Optional, Held, HeldOf, Claims
  <2> QED
    BY <2>1 DEF Init, ServeInv, Serving, Answers
<1> QED
  BY <1>1, ServeNext, PTL DEF Spec

\* The claim makes a token serve one process at a time, and each answer is the answer to
\* the own request, until the claim is taken away by another process's detaching:
\* enumeration, opening, both transfers, closing, failures, kills and unplugging
\* implement TokenServer, for any number of processes and tokens.
THEOREM ServerIsImplemented == Spec => ImplementsServer
<1>1. Init => Server!ServerInit
  BY DEF Init, Server!ServerInit
<1>2. ServeInv /\ [Next]_vars => [Server!ServerNext]_Server!serverVars
  <2> SUFFICES ASSUME ServeInv, [Next]_vars
               PROVE  [Server!ServerNext]_Server!serverVars
    OBVIOUS
  <2>1. ASSUME NEW p \in Procs, Moves(p) PROVE [Server!ServerNext]_Server!serverVars
    BY <2>1, ServerStep DEF ServeInv
  <2>2. ASSUME NEW d \in Devices, Plug(d) PROVE [Server!ServerNext]_Server!serverVars
    BY <2>2 DEF Plug, endVars, Server!serverVars
  <2>3. ASSUME NEW d \in Devices, Unplug(d) PROVE [Server!ServerNext]_Server!serverVars
    <3>0. \A p \in Procs : "stolen" \in noise'[p] <=> "stolen" \in noise[p]
      BY <2>3 DEF Unplug, Felt
    <3>1. Server!Go(d)
      BY <2>3, <3>0 DEF Unplug, Set, endVars, Server!Go
    <3> QED
      BY <3>1 DEF Server!ServerNext
  <2>4. CASE UNCHANGED vars
    BY <2>4 DEF vars, busVars, endVars, Server!serverVars
  <2> QED
    BY <2>1, <2>2, <2>3, <2>4, NextSplit
<1> QED
  BY <1>1, <1>2, ServeInvHolds, PTL DEF Spec, ImplementsServer, Server!ServerSpec

-----------------------------------------------------------------------------
(* What a call ends with when nothing has happened to it *)

\* Nothing has happened that a call must fail from.
Calm(p) == noise[p] \cap {"unplug", "failure"} = {}

\* Undisturbed, a call has on its lists what was on the bus when it began, but for
\* devices it could not describe, and all it has is still there.
Seen(p) ==
    Calm(p) =>
      /\ Inside(p) => stock[p] \cup devs[p] \cup infos[p] \cup handle[p] \subseteq plugged
      /\ "config" \notin noise[p] =>
           /\ pc[p] = "describe" => stock[p] \subseteq devs[p] \cup infos[p]
           /\ pc[p] \in {"convert", "open"} => stock[p] \subseteq infos[p]

\* A serial number is null for a cause; packets mean nothing to a scan.
Unread(p) ==
    /\ nameless[p] \subseteq infos[p]
    /\ call[p] \in Scans =>
         /\ "failure" \notin noise[p]
         /\ nameless[p] # {} => noise[p] \cap {"unplug", "string"} # {}

\* What a call remembers when it begins, and what it ends with.
Ended(p) ==
    /\ pc[p] = "idle" => noise[p] = {} /\ target[p] = {}
    /\ target[p] # {} <=> call[p] = "_check_dev_connected"
    /\ call[p] \in Scans =>
         /\ pc[p] = "returned" /\ noise[p] \subseteq {"string"} =>
              /\ call[p] = "get_first_device" => stock[p] \subseteq found[p]
              /\ target[p] \subseteq stock[p] /\ stock[p] # {} => result[p] = "OK"
         /\ pc[p] = "crashed" =>
              call[p] # "get_device_count" /\ noise[p] \cap {"unplug", "string"} # {}
    /\ /\ call[p] = "_send_packet" /\ pc[p] \in {"close", "exit", "returned"}
       /\ stock[p] # {} /\ noise[p] = {}
       => result[p] \notin {"DNF", "IOE"}

\* A packet that was not disturbed is the only one.
Alone(p) == (InPacket(p) /\ noise[p] = {}) => \A q \in Procs : q # p => ~InPacket(q)

Quiet(p) == Seen(p) /\ Unread(p) /\ Ended(p) /\ Alone(p)

QuietInv == HoldInv /\ \A p \in Procs : Quiet(p)

LEMMA SeenStep ==
  ASSUME ExchangeTypeOK, Held, NEW p \in Procs, Moves(p), Seen(p)
  PROVE  Seen(p)'
<1> USE DEF HeldOf, Held, Seen, Calm, Felt, Inside, At, Set, busVars, listVars, endVars,
   pastVars
<1>1. CASE hid_init(p)
  BY <1>1 DEF ExchangeTypeOK, hid_init
<1>2. CASE hid_init_fails(p)
  BY <1>2 DEF ExchangeTypeOK, hid_init_fails, Suffer, NoList
<1>3. CASE GetDeviceList(p)
  BY <1>3 DEF ExchangeTypeOK, GetDeviceList
<1>4. CASE GetDeviceListFails(p)
  BY <1>4 DEF ExchangeTypeOK, GetDeviceListFails, Suffer, NoList
<1>5. CASE Enumerated(p)
  BY <1>5 DEF ExchangeTypeOK, Enumerated, NoList
<1>6. CASE ScanEnds(p)
  BY <1>6 DEF ExchangeTypeOK, ScanEnds, Searching
<1>7. CASE OpenPathCrashes(p)
  BY <1>7 DEF ExchangeTypeOK, OpenPathCrashes, Suffer
<1>8. CASE NotSelected(p)
  BY <1>8 DEF ExchangeTypeOK, NotSelected
<1>9. CASE hid_close(p)
  BY <1>9 DEF ExchangeTypeOK, hid_close
<1>10. CASE hid_exit(p)
  BY <1>10 DEF ExchangeTypeOK, hid_exit
<1>11. CASE Return(p)
  BY <1>11 DEF ExchangeTypeOK, Return, Forgotten
<1>12. CASE Kill(p)
  BY <1>12 DEF ExchangeTypeOK, Kill, Forgotten
<1>13. CASE \E d \in Devices : Describe(p, d)
  BY <1>13 DEF ExchangeTypeOK, Describe, Trouble, Suffer
<1>14. CASE \E d \in Devices : Convert(p, d)
  BY <1>14 DEF ExchangeTypeOK, Convert, Searching
<1>15. CASE \E d \in Devices : OpenPath(p, d)
  BY <1>15 DEF ExchangeTypeOK, OpenPath
<1>16. CASE \E d \in Devices : OpenPathFails(p, d)
  BY <1>16 DEF ExchangeTypeOK, OpenPathFails, Trouble, Suffer, Unopened
<1>17. CASE \E d \in Devices : DetachDriver(p, d)
  BY <1>17 DEF ExchangeTypeOK, DetachDriver, Unclaim
<1>18. CASE \E d \in Devices : DetachDriverFails(p, d)
  BY <1>18 DEF ExchangeTypeOK, DetachDriverFails, Suffer, Unopened, DriverActive
<1>19. CASE \E d \in Devices : Claim(p, d)
  BY <1>19 DEF ExchangeTypeOK, Claim
<1>20. CASE \E d \in Devices : ClaimFails(p, d)
  BY <1>20 DEF ExchangeTypeOK, ClaimFails, Unopened
<1>21. CASE \E d \in Devices : hid_send_feature_report(p, d)
  BY <1>21 DEF ExchangeTypeOK, hid_send_feature_report, Reaches
<1>22. CASE \E d \in Devices : SendFails(p, d)
  BY <1>22 DEF ExchangeTypeOK, SendFails, TransferFails, Suffer, IOError, Reaches
<1>23. CASE \E d \in Devices : hid_get_feature_report(p, d)
  BY <1>23 DEF ExchangeTypeOK, hid_get_feature_report, Reaches
<1>24. CASE \E d \in Devices : GetFails(p, d)
  BY <1>24 DEF ExchangeTypeOK, GetFails, TransferFails, Suffer, IOError, Reaches
<1>25. CASE \E f \in Calls, t \in Optional(Devices) : Begin(p, f, t)
  BY <1>25 DEF ExchangeTypeOK, Begin, InPacket
<1>26. CASE \E d \in Devices : Skip(p, d)
  <2> PICK d \in Devices : Skip(p, d)
    BY <1>26
  <2>1. /\ pc' = pc /\ stock' = stock /\ infos' = infos /\ handle' = handle
        /\ plugged' = plugged /\ devs'[p] \subseteq devs[p] /\ pc[p] = "describe"
    BY DEF ExchangeTypeOK, Skip
  <2>2. CASE d \notin plugged /\ noise' = noise
    BY <2>1, <2>2 DEF Skip
  <2>3. CASE Suffer(p, "config")
    <3>1. noise[p] \subseteq noise'[p] /\ noise'[p] \cap {"failure", "config"} # {}
      BY <2>3 DEF ExchangeTypeOK, Suffer
    <3> QED
      BY <2>1, <3>1
  <2> QED
    BY <2>2, <2>3 DEF Skip, Trouble
<1> QED
  BY <1>1, <1>2, <1>3, <1>4, <1>5, <1>6, <1>7, <1>8, <1>9, <1>10, <1>11, <1>12, <1>13,
     <1>14, <1>15, <1>16, <1>17, <1>18, <1>19, <1>20, <1>21, <1>22, <1>23, <1>24, <1>25,
     <1>26 DEF Moves, Step, Enumerate, Scan, Open, Transfer

LEMMA UnreadStep ==
  ASSUME ExchangeTypeOK, Held, NEW p \in Procs, Moves(p), Unread(p), Seen(p), Ended(p)
  PROVE  Unread(p)'
<1> USE DEF HeldOf, Held, Unread, Seen, Calm, Felt, Scans, Inside, At, Set, busVars,
   listVars, endVars, pastVars
<1>1. CASE hid_init(p)
  BY <1>1 DEF ExchangeTypeOK, hid_init
<1>2. CASE hid_init_fails(p)
  BY <1>2 DEF ExchangeTypeOK, hid_init_fails, Suffer, NoList
<1>3. CASE GetDeviceList(p)
  BY <1>3 DEF ExchangeTypeOK, GetDeviceList
<1>4. CASE GetDeviceListFails(p)
  BY <1>4 DEF ExchangeTypeOK, GetDeviceListFails, Suffer, NoList
<1>5. CASE Enumerated(p)
  BY <1>5 DEF ExchangeTypeOK, Enumerated, NoList
<1>6. CASE ScanEnds(p)
  BY <1>6 DEF ExchangeTypeOK, ScanEnds, Searching
<1>7. CASE OpenPathCrashes(p)
  BY <1>7 DEF ExchangeTypeOK, OpenPathCrashes, Suffer
<1>8. CASE NotSelected(p)
  BY <1>8 DEF ExchangeTypeOK, NotSelected
<1>9. CASE hid_close(p)
  BY <1>9 DEF ExchangeTypeOK, hid_close
<1>10. CASE hid_exit(p)
  BY <1>10 DEF ExchangeTypeOK, hid_exit
<1>11. CASE Return(p)
  BY <1>11 DEF ExchangeTypeOK, Return, Forgotten
<1>12. CASE Kill(p)
  BY <1>12 DEF ExchangeTypeOK, Kill, Forgotten
<1>13. CASE \E d \in Devices : Describe(p, d)
  <2> PICK d \in Devices : Describe(p, d)
    BY <1>13
  <2>1. noise'[p] \in {noise[p], noise[p] \cup {"string"}} \/ call[p] \notin Scans
    BY DEF ExchangeTypeOK, Describe, Trouble, Suffer
  <2>2. CASE nameless'[p] = nameless[p]
    BY <2>1, <2>2 DEF ExchangeTypeOK, Describe
  <2>3. CASE nameless'[p] # nameless[p] /\ call[p] \in Scans
    <3>1. d \notin plugged => "unplug" \in noise[p]
      BY <2>3 DEF Describe
    <3>2. d \notin plugged \/ "string" \in noise'[p]
      BY <2>3 DEF ExchangeTypeOK, Describe, Trouble, Suffer
    <3> QED
      BY <2>1, <2>3, <3>1, <3>2 DEF ExchangeTypeOK, Describe
  <2> QED
    BY <2>1, <2>2, <2>3 DEF ExchangeTypeOK, Describe
<1>14. CASE \E d \in Devices : Convert(p, d)
  BY <1>14 DEF ExchangeTypeOK, Convert, Searching
<1>15. CASE \E d \in Devices : OpenPath(p, d)
  BY <1>15 DEF ExchangeTypeOK, OpenPath
<1>16. CASE \E d \in Devices : OpenPathFails(p, d)
  BY <1>16 DEF ExchangeTypeOK, OpenPathFails, Trouble, Suffer, Unopened
<1>17. CASE \E d \in Devices : DetachDriver(p, d)
  BY <1>17 DEF ExchangeTypeOK, DetachDriver, Unclaim
<1>18. CASE \E d \in Devices : DetachDriverFails(p, d)
  BY <1>18 DEF ExchangeTypeOK, DetachDriverFails, Suffer, Unopened, DriverActive
<1>19. CASE \E d \in Devices : Claim(p, d)
  BY <1>19 DEF ExchangeTypeOK, Claim
<1>20. CASE \E d \in Devices : ClaimFails(p, d)
  BY <1>20 DEF ExchangeTypeOK, ClaimFails, Unopened
<1>21. CASE \E d \in Devices : hid_send_feature_report(p, d)
  BY <1>21 DEF ExchangeTypeOK, hid_send_feature_report, Reaches
<1>22. CASE \E d \in Devices : SendFails(p, d)
  BY <1>22 DEF ExchangeTypeOK, SendFails, TransferFails, Suffer, IOError, Reaches
<1>23. CASE \E d \in Devices : hid_get_feature_report(p, d)
  BY <1>23 DEF ExchangeTypeOK, hid_get_feature_report, Reaches
<1>24. CASE \E d \in Devices : GetFails(p, d)
  BY <1>24 DEF ExchangeTypeOK, GetFails, TransferFails, Suffer, IOError, Reaches
<1>25. CASE \E f \in Calls, t \in Optional(Devices) : Begin(p, f, t)
  BY <1>25 DEF ExchangeTypeOK, Ended, Begin, InPacket
<1>26. CASE \E d \in Devices : Skip(p, d)
  BY <1>26 DEF ExchangeTypeOK, Skip, Trouble, Suffer
<1> QED
  BY <1>1, <1>2, <1>3, <1>4, <1>5, <1>6, <1>7, <1>8, <1>9, <1>10, <1>11, <1>12, <1>13,
     <1>14, <1>15, <1>16, <1>17, <1>18, <1>19, <1>20, <1>21, <1>22, <1>23, <1>24, <1>25,
     <1>26 DEF Moves, Step, Enumerate, Scan, Open, Transfer

LEMMA PacketSuffers ==
  ASSUME ExchangeTypeOK, NEW p \in Procs, call[p] = "_send_packet",
         NEW kind, kind # "string", Suffer(p, kind)
  PROVE  noise'[p] # {}
<1>1. Felt(p, kind) = {"failure"}
  BY DEF Felt
<1> QED
  BY <1>1 DEF ExchangeTypeOK, Suffer, Set

LEMMA OwnToken ==
  ASSUME HoldInv, NEW p \in Procs, Quiet(p), InPacket(p), noise[p] = {},
         NEW d \in infos[p] \cup handle[p]
  PROVE  d \in plugged /\ claim[d] \subseteq {p}
<1>1. d \in plugged
  BY DEF Quiet, Seen, Calm, InPacket
<1>2. ASSUME NEW q \in claim[d] PROVE q = p
  <2>1. q \in Procs /\ d \in Devices
    BY <1>2 DEF HoldInv, ExchangeTypeOK, Optional
  <2>2. pc[q] \in {"send", "get", "close"} /\ call[q] = "_send_packet"
    BY <1>2, <2>1 DEF HoldInv, Claims, Held, HeldOf
  <2> QED
    BY <2>1, <2>2 DEF Quiet, Alone, InPacket, Inside
<1> QED
  BY <1>1, <1>2

LEMMA EndedStep ==
  ASSUME HoldInv, NEW p \in Procs, Moves(p), Quiet(p)
  PROVE  Ended(p)'
<1> USE DEF HoldInv, HeldOf, Held, Quiet, Ended, Felt, Scans, Inside, At, Set, busVars,
   listVars, endVars, pastVars
<1>1. CASE hid_init(p)
  BY <1>1 DEF ExchangeTypeOK, Seen, Calm, Unread, hid_init
<1>2. CASE hid_init_fails(p)
  BY <1>2 DEF ExchangeTypeOK, Seen, Calm, Unread, hid_init_fails, Suffer, NoList
<1>3. CASE GetDeviceList(p)
  BY <1>3 DEF ExchangeTypeOK, Seen, Calm, Unread, GetDeviceList
<1>4. CASE GetDeviceListFails(p)
  BY <1>4 DEF ExchangeTypeOK, Seen, Calm, Unread, GetDeviceListFails, Suffer, NoList
<1>5. CASE Enumerated(p)
  BY <1>5 DEF ExchangeTypeOK, Seen, Calm, Unread, Enumerated, NoList
<1>6. CASE ScanEnds(p)
  BY <1>6 DEF ExchangeTypeOK, Seen, Calm, Unread, ScanEnds, Searching
<1>7. CASE OpenPathCrashes(p)
  BY <1>7 DEF ExchangeTypeOK, Seen, Calm, Unread, OpenPathCrashes, Suffer
<1>8. CASE NotSelected(p)
  BY <1>8 DEF ExchangeTypeOK, Seen, Calm, Unread, NotSelected
<1>9. CASE hid_close(p)
  BY <1>9 DEF ExchangeTypeOK, Seen, Calm, Unread, hid_close
<1>10. CASE hid_exit(p)
  BY <1>10 DEF ExchangeTypeOK, Seen, Calm, Unread, hid_exit
<1>11. CASE Return(p)
  BY <1>11 DEF ExchangeTypeOK, Seen, Calm, Unread, Return, Forgotten
<1>12. CASE Kill(p)
  BY <1>12 DEF ExchangeTypeOK, Seen, Calm, Unread, Kill, Forgotten
<1>13. CASE \E d \in Devices : Describe(p, d)
  BY <1>13 DEF ExchangeTypeOK, Seen, Calm, Unread, Describe, Trouble, Suffer
<1>14. CASE \E d \in Devices : Convert(p, d)
  BY <1>14 DEF ExchangeTypeOK, Seen, Calm, Unread, Convert, Searching
<1>15. CASE \E d \in Devices : OpenPath(p, d)
  BY <1>15 DEF ExchangeTypeOK, Seen, Calm, Unread, OpenPath
<1>16. CASE \E d \in Devices : OpenPathFails(p, d)
  <2> PICK d \in Devices : OpenPathFails(p, d)
    BY <1>16
  <2>1. call[p] = "_send_packet" /\ InPacket(p) /\ d \in infos[p] \cup handle[p]
    BY DEF OpenPathFails, InPacket
  <2>2. noise[p] = {} => d \in plugged /\ claim[d] \subseteq {p}
    BY <2>1, OwnToken
  <2>3. p \in claim[d] => pc[p] \in {"send", "get", "close"}
    BY DEF Claims
  <2>4. noise'[p] # {}
    BY <2>1, <2>2, <2>3, PacketSuffers DEF ExchangeTypeOK, OpenPathFails, Trouble, Unopened
  <2> QED
    BY <2>1, <2>4 DEF ExchangeTypeOK, OpenPathFails, Trouble, Suffer, Unopened
<1>17. CASE \E d \in Devices : DetachDriver(p, d)
  BY <1>17 DEF ExchangeTypeOK, Seen, Calm, Unread, DetachDriver, Unclaim
<1>18. CASE \E d \in Devices : DetachDriverFails(p, d)
  <2> PICK d \in Devices : DetachDriverFails(p, d)
    BY <1>18
  <2>1. call[p] = "_send_packet" /\ InPacket(p) /\ d \in infos[p] \cup handle[p]
    BY DEF DetachDriverFails, InPacket
  <2>2. noise[p] = {} => d \in plugged /\ claim[d] \subseteq {p}
    BY <2>1, OwnToken
  <2>3. p \in claim[d] => pc[p] \in {"send", "get", "close"}
    BY DEF Claims
  <2>4. noise'[p] # {}
    BY <2>1, <2>2, <2>3, PacketSuffers DEF ExchangeTypeOK, DetachDriverFails, Unopened,
       DriverActive
  <2> QED
    BY <2>1, <2>4 DEF ExchangeTypeOK, DetachDriverFails, Suffer, Unopened, DriverActive
<1>19. CASE \E d \in Devices : Claim(p, d)
  BY <1>19 DEF ExchangeTypeOK, Seen, Calm, Unread, Claim
<1>20. CASE \E d \in Devices : ClaimFails(p, d)
  <2> PICK d \in Devices : ClaimFails(p, d)
    BY <1>20
  <2>1. call[p] = "_send_packet" /\ InPacket(p) /\ d \in infos[p] \cup handle[p]
    BY DEF ClaimFails, InPacket
  <2>2. noise[p] = {} => d \in plugged /\ claim[d] \subseteq {p}
    BY <2>1, OwnToken
  <2>3. p \in claim[d] => pc[p] \in {"send", "get", "close"}
    BY DEF Claims
  <2>4. noise'[p] # {}
    BY <2>1, <2>2, <2>3, PacketSuffers DEF ExchangeTypeOK, ClaimFails, Unopened
  <2> QED
    BY <2>1, <2>4 DEF ExchangeTypeOK, ClaimFails, Unopened
<1>21. CASE \E d \in Devices : hid_send_feature_report(p, d)
  BY <1>21 DEF ExchangeTypeOK, Seen, Calm, Unread, hid_send_feature_report, Reaches
<1>22. CASE \E d \in Devices : SendFails(p, d)
  <2> PICK d \in Devices : SendFails(p, d)
    BY <1>22
  <2>1. call[p] = "_send_packet" /\ InPacket(p) /\ d \in infos[p] \cup handle[p]
    BY DEF SendFails, InPacket
  <2>2. noise[p] = {} => d \in plugged /\ claim[d] \subseteq {p}
    BY <2>1, OwnToken
  <2>3. p \in claim[d] => pc[p] \in {"send", "get", "close"}
    BY DEF Claims
  <2>4. noise'[p] # {}
    BY <2>1, <2>2, <2>3, PacketSuffers DEF ExchangeTypeOK, SendFails, TransferFails,
       IOError, Reaches
  <2> QED
    BY <2>1, <2>4 DEF ExchangeTypeOK, SendFails, TransferFails, Suffer, IOError, Reaches
<1>23. CASE \E d \in Devices : hid_get_feature_report(p, d)
  BY <1>23 DEF ExchangeTypeOK, Seen, Calm, Unread, hid_get_feature_report, Reaches
<1>24. CASE \E d \in Devices : GetFails(p, d)
  <2> PICK d \in Devices : GetFails(p, d)
    BY <1>24
  <2>1. call[p] = "_send_packet" /\ InPacket(p) /\ d \in infos[p] \cup handle[p]
    BY DEF GetFails, InPacket
  <2>2. noise[p] = {} => d \in plugged /\ claim[d] \subseteq {p}
    BY <2>1, OwnToken
  <2>3. p \in claim[d] => pc[p] \in {"send", "get", "close"}
    BY DEF Claims
  <2>4. noise'[p] # {}
    BY <2>1, <2>2, <2>3, PacketSuffers DEF ExchangeTypeOK, GetFails, TransferFails, IOError,
       Reaches
  <2> QED
    BY <2>1, <2>4 DEF ExchangeTypeOK, GetFails, TransferFails, Suffer, IOError, Reaches
<1>25. CASE \E f \in Calls, t \in Optional(Devices) : Begin(p, f, t)
  BY <1>25 DEF ExchangeTypeOK, Seen, Calm, Unread, Begin, InPacket
<1>26. CASE \E d \in Devices : Skip(p, d)
  BY <1>26 DEF ExchangeTypeOK, Seen, Calm, Unread, Skip, Trouble, Suffer
<1> QED
  BY <1>1, <1>2, <1>3, <1>4, <1>5, <1>6, <1>7, <1>8, <1>9, <1>10, <1>11, <1>12, <1>13,
     <1>14, <1>15, <1>16, <1>17, <1>18, <1>19, <1>20, <1>21, <1>22, <1>23, <1>24, <1>25,
     <1>26 DEF Moves, Step, Enumerate, Scan, Open, Transfer

\* What a process does leaves the others' calls quiet.
LEMMA QuietOther ==
  ASSUME HoldInv, NEW p \in Procs, Moves(p), NEW q \in Procs, q # p, Quiet(q)
  PROVE  Quiet(q)'
<1> USE DEF HoldInv
<1>1. Others(p) /\ Noticed(p)
  BY OthersKept, NoticedStep
<1>2. /\ pc'[q] = pc[q] /\ call'[q] = call[q] /\ devs'[q] = devs[q] /\ infos'[q] = infos[q]
      /\ nameless'[q] = nameless[q] /\ found'[q] = found[q] /\ target'[q] = target[q]
      /\ handle'[q] = handle[q] /\ result'[q] = result[q] /\ stock'[q] = stock[q]
      /\ plugged' = plugged
  BY <1>1 DEF Others, Noticed
<1>3. \/ noise'[q] = noise[q]
      \/ /\ InPacket(q)
         /\ noise'[q] \in {noise[q] \cup {"failure"}, noise[q] \cup {"stolen"}}
  BY <1>1 DEF Noticed
<1>4. Seen(q)' /\ Unread(q)' /\ Ended(q)'
  <2>1. CASE noise'[q] = noise[q]
    BY <1>2, <2>1 DEF Quiet, Seen, Unread, Ended, Calm, Inside
  <2>2. CASE /\ InPacket(q)
             /\ noise'[q] \in {noise[q] \cup {"failure"}, noise[q] \cup {"stolen"}}
    BY <1>2, <2>2 DEF Quiet, Seen, Unread, Ended, Calm, Inside, InPacket, Scans
  <2> QED
    BY <1>3, <2>1, <2>2
<1>5. Alone(q)'
  <2> SUFFICES ASSUME InPacket(q)', noise'[q] = {}
               PROVE  \A r \in Procs : r # q => ~InPacket(r)'
    BY DEF Alone
  <2>1. InPacket(q) /\ noise[q] = {}
    BY <1>2, <1>3 DEF InPacket, Inside
  <2>2. \A r \in Procs : r # q => ~InPacket(r)
    BY <2>1 DEF Quiet, Alone
  <2>3. \A r \in Procs : r # q /\ r # p => ~InPacket(r)'
    BY <1>1, <2>2 DEF Others, InPacket, Inside
  <2>4. ~InPacket(p)'
    BY <1>1, <2>1, <2>2 DEF Noticed
  <2> QED
    BY <2>3, <2>4
<1> QED
  BY <1>4, <1>5 DEF Quiet

LEMMA AloneStep ==
  ASSUME HoldInv, NEW p \in Procs, Moves(p), Quiet(p)
  PROVE  Alone(p)'
<1>1. Others(p) /\ Noticed(p)
  BY OthersKept, NoticedStep DEF HoldInv
<1> SUFFICES ASSUME InPacket(p)', noise'[p] = {}, NEW r \in Procs, r # p PROVE ~InPacket(r)'
  BY DEF Alone
<1>2. ~InPacket(r)
  BY <1>1 DEF Noticed, Quiet, Alone
<1> QED
  BY <1>1, <1>2 DEF Others, InPacket, Inside

LEMMA QuietBus ==
  ASSUME HoldInv, NEW d \in Devices, Plug(d) \/ Unplug(d), NEW p \in Procs, Quiet(p)
  PROVE  Quiet(p)'
<1> USE DEF HoldInv, ExchangeTypeOK, listVars, endVars, pastVars
<1>1. CASE Plug(d)
  BY <1>1 DEF Plug, Quiet, Seen, Unread, Ended, Alone, Calm, InPacket, Inside
<1>2. CASE Unplug(d)
  <2>1. noise'[p] = noise[p] \cup (IF Inside(p) THEN Felt(p, "unplug") ELSE {})
    BY <1>2 DEF Unplug
  <2>2. \A q \in Procs : InPacket(q)' <=> InPacket(q)
    BY <1>2 DEF Unplug, InPacket, Inside
  <2>3. Alone(p)'
    BY <2>1, <2>2 DEF Quiet, Alone
  <2>4. Inside(p) => /\ ~Calm(p)'
                     /\ call[p] \in Scans => noise'[p] = noise[p] \cup {"unplug"}
                     /\ noise'[p] # {}
    BY <2>1 DEF Felt, Calm, Scans
  <2>5. ~Inside(p) => noise'[p] = noise[p]
    BY <2>1
  <2>6. Seen(p)'
    BY <1>2, <2>4, <2>5 DEF Unplug, Quiet, Seen, Calm, Inside
  <2>7. Unread(p)' /\ Ended(p)'
    BY <1>2, <2>4, <2>5 DEF Unplug, Quiet, Unread, Ended, Inside
  <2> QED
    BY <2>3, <2>6, <2>7 DEF Quiet
<1> QED
  BY <1>1, <1>2

LEMMA QuietNext == QuietInv /\ [Next]_vars => QuietInv'
<1> SUFFICES ASSUME QuietInv, [Next]_vars PROVE QuietInv'
  OBVIOUS
<1>1. HoldInv'
  BY HoldNext DEF QuietInv
<1>2. ASSUME NEW p \in Procs, Moves(p), NEW q \in Procs PROVE Quiet(q)'
  <2>1. CASE q = p
    BY <1>2, <2>1, SeenStep, UnreadStep, EndedStep, AloneStep DEF QuietInv, HoldInv, Quiet
  <2>2. CASE q # p
    BY <1>2, <2>2, QuietOther DEF QuietInv
  <2> QED
    BY <2>1, <2>2
<1>3. ASSUME NEW d \in Devices, Plug(d) \/ Unplug(d), NEW p \in Procs PROVE Quiet(p)'
  BY <1>3, QuietBus DEF QuietInv
<1>4. CASE UNCHANGED vars
  <2> SUFFICES ASSUME NEW p \in Procs PROVE Quiet(p)'
    BY <1>1 DEF QuietInv
  <2> QED
    BY <1>4 DEF QuietInv, Quiet, Seen, Unread, Ended, Alone, Calm, InPacket, Inside, vars,
       busVars, listVars, endVars, pastVars
<1> QED
  BY <1>1, <1>2, <1>3, <1>4, NextSplit DEF QuietInv

\* What a call has seen, and has not yet seen, of the tokens that stayed since it
\* began, and what has disturbed it.
THEOREM QuietInvHolds == Spec => []QuietInv
<1>1. Init => QuietInv
  <2>1. Init => HoldInv
    BY DEF Init, HoldInv, ExchangeTypeOK, Optional, Held, HeldOf, Claims
  <2> QED
    BY <2>1 DEF Init, QuietInv, Quiet, Seen, Unread, Ended, Alone, Calm, InPacket, Inside,
       Scans
<1> QED
  BY <1>1, QuietNext, PTL DEF Spec

\* A scan that returns, undisturbed but for unreadable strings, has seen every token
\* that was on the bus, and only a null serial, for which there was a cause, ends
\* the process (get_first_device, _check_dev_connected, get_device_count).
THEOREM QuietScansHolds == Spec => []QuietScans
<1>1. QuietInv => QuietScans
  BY DEF QuietInv, Quiet, Ended, QuietScans
<1> QED
  BY <1>1, QuietInvHolds, PTL

\* An answer is the answer to the own packet, unless the claim was stolen, and a packet
\* that nothing happened to fails only because nothing is on the bus or selected
\* (_send_packet).
THEOREM PacketOutcomeHolds == Spec => []PacketOutcome
<1>1. ServeInv /\ QuietInv => PacketOutcome
  BY DEF ServeInv, Answers, QuietInv, Quiet, Ended, PacketOutcome
<1> QED
  BY <1>1, QuietInvHolds, ServeInvHolds, PTL

=============================================================================
