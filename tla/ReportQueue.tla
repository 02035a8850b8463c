---------------------------- MODULE ReportQueue -----------------------------
(***************************************************************************)
(* What an open HID device promises its readers, without threads, locks or *)
(* transfers: a bounded queue of input reports that drops its oldest       *)
(* report when full and hands every report out at most once, in the order  *)
(* the device sent them.                                                   *)
(***************************************************************************)
EXTENDS Naturals, Sequences

CONSTANTS Capacity     \* reports the queue holds

VARIABLES
    queue,             \* the reports, by their number
    arrived,           \* the number of the last one that arrived
    last               \* the number of the last one handed out

queueVars == <<queue, arrived, last>>

QueueInit == queue = <<>> /\ arrived = 0 /\ last = 0

\* The next report of the device; in a full queue it replaces the oldest.
Arrive ==
    /\ arrived' = arrived + 1
    /\ queue' = Append(IF Len(queue) = Capacity THEN Tail(queue) ELSE queue, arrived')
    /\ UNCHANGED last

Deliver ==
    /\ queue # <<>>
    /\ last' = Head(queue)
    /\ queue' = Tail(queue)
    /\ UNCHANGED arrived

\* The device is closed, then opened again.
Discard == queue' = <<>> /\ UNCHANGED <<arrived, last>>
Reopen == queue = <<>> /\ queue' = <<>> /\ arrived' = 0 /\ last' = 0

QueueNext == Arrive \/ Deliver \/ Discard \/ Reopen

QueueSpec == QueueInit /\ [][QueueNext]_queueVars

=============================================================================
