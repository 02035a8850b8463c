----------------------------- MODULE HidDevice ------------------------------
(***************************************************************************)
(* An open HID device (token-DLL/lib/hid-libusb.c).  hid_open_path starts  *)
(* a read thread that keeps one interrupt transfer submitted; its          *)
(* completions run read_callback, which queues the report and submits      *)
(* again; hid_read_timeout takes reports from the queue under a mutex and  *)
(* a condition; hid_close stops the thread and frees everything.  A        *)
(* callback runs in whichever thread handles libusb's events: the read     *)
(* thread, or the application inside a synchronous control transfer.       *)
(* libnovin opens and closes a device for every packet it sends.           *)
(***************************************************************************)
EXTENDS Naturals, Sequences

CONSTANTS
    Readers,       \* threads that call hid_read_timeout
    QueueLimit,    \* 30 in the code
    MaxReports     \* bound: reports the device sends while open

ASSUME QueueLimitAssumption == QueueLimit \in Nat
ASSUME MaxReportsAssumption == MaxReports \in Nat

VARIABLES
    app,             \* where the thread that opens and closes the device is
    rt,              \* where the read thread is
    xfer,            \* dev->transfer: idle, pending, or completed with a status
    cb,              \* where read_callback is
    cbBy,            \* the thread that runs it: "read" or "app"
    shutdown_thread, \* dev->shutdown_thread
    input_reports,   \* dev->input_reports, the numbers of the reports
    plugged,         \* the device is there
    sent,            \* reports the device has sent
    queued,          \* history: reports that were put into the queue
    last,            \* history: the last report handed to a reader
    rd,              \* where each reader is
    mode,            \* what each reader asked for: to block, to wait a while, or not
    fatal,           \* history: an error of libusb ended the thread's loop
    dangling         \* history: the transfer was freed while libusb owned it

vars == <<app, rt, xfer, cb, cbBy, shutdown_thread, input_reports, plugged, sent,
          queued, last, rd, mode, fatal, dangling>>

Modes == {"blocking", "timed", "nonblocking"}
Statuses == {"COMPLETED", "CANCELLED", "NO_DEVICE", "TIMED_OUT", "ERROR"}

\* The kernel is done with the transfer; its callback has not run.
Completed == xfer \in Statuses

\* The mutex is held across two steps only by a reader about to go to sleep.
MutexFree == \A r \in Readers : rd[r] # "sleep"

ReadersOut == \A r \in Readers : rd[r] = "out"

-----------------------------------------------------------------------------
(* The device and the kernel *)

\* A pending transfer completes with a report.
Report ==
    /\ xfer = "pending" /\ sent < MaxReports
    /\ xfer' = "COMPLETED" /\ sent' = sent + 1
    /\ UNCHANGED <<app, rt, cb, cbBy, shutdown_thread, input_reports, plugged,
                   queued, last, rd, mode, fatal, dangling>>

\* It times out after 5000 ms, or fails.
Expire ==
    /\ xfer = "pending"
    /\ xfer' \in {"TIMED_OUT", "ERROR"}
    /\ UNCHANGED <<app, rt, cb, cbBy, shutdown_thread, input_reports, plugged, sent,
                   queued, last, rd, mode, fatal, dangling>>

\* The device is pulled out.
Disconnect ==
    /\ plugged /\ app \notin {"closed", "freed"}
    /\ plugged' = FALSE
    /\ xfer' = IF xfer = "pending" THEN "NO_DEVICE" ELSE xfer
    /\ UNCHANGED <<app, rt, cb, cbBy, shutdown_thread, input_reports, sent,
                   queued, last, rd, mode, fatal, dangling>>

\* libusb_submit_transfer: it may fail, and fails without a device.
Submitted == {xfer} \cup (IF plugged THEN {"pending"} ELSE {})

\* libusb_cancel_transfer finds only a transfer that is still pending.
CancelTransfer == xfer' = IF xfer = "pending" THEN "CANCELLED" ELSE xfer

-----------------------------------------------------------------------------
(* read_callback *)

\* The end of the device does not stop the thread.
Fault_Reap(thread) ==
    /\ Completed /\ cb = "none"
    /\ xfer' = "idle" /\ cbBy' = thread
    /\ cb' = CASE xfer = "COMPLETED"               -> "queue"
               [] xfer \in {"TIMED_OUT", "ERROR"}  -> "resubmit"
               [] OTHER                            -> "none"
    /\ UNCHANGED shutdown_thread

\* A thread that handles events takes a completed transfer to its callback.
Reap(thread) ==
    /\ Completed /\ cb = "none"
    /\ xfer' = "idle" /\ cbBy' = thread
    /\ cb' = CASE xfer = "COMPLETED"               -> "queue"
               [] xfer \in {"TIMED_OUT", "ERROR"}  -> "resubmit"
               [] OTHER                            -> "none"
    /\ shutdown_thread' = (shutdown_thread \/ xfer \in {"CANCELLED", "NO_DEVICE"})

\* pthread_cond_signal: one sleeping reader, if there is one.
Signal ==
    IF \E r \in Readers : rd[r] = "waiting"
    THEN \E r \in Readers : rd[r] = "waiting" /\ rd' = [rd EXCEPT ![r] = "woken"]
    ELSE UNCHANGED rd

\* The newest report is put at the root.
Fault_Queued(q, n) == <<n>> \o q

\* The list after a new report.  num_queued counts the steps to the old end of
\* the list, one less than its length, and the list is cut when that exceeds
\* the limit: it holds up to two reports more than the limit.
Queued(q, n) ==
    IF Len(q) > QueueLimit + 1 THEN Append(Tail(q), n) ELSE Append(q, n)

\* Under the mutex the report is queued; only the first report signals.
QueueReport ==
    /\ cb = "queue" /\ MutexFree
    /\ input_reports' = Queued(input_reports, sent)
    /\ IF input_reports = <<>> THEN Signal ELSE UNCHANGED rd
    /\ queued' = queued + 1
    /\ cb' = "resubmit"
    /\ UNCHANGED <<app, rt, xfer, cbBy, shutdown_thread, plugged, sent, last, mode,
                   fatal, dangling>>

Resubmit ==
    /\ cb = "resubmit"
    /\ xfer' \in Submitted
    /\ shutdown_thread' = (shutdown_thread \/ xfer' # "pending")
    /\ cb' = "none"
    /\ UNCHANGED <<app, rt, cbBy, input_reports, plugged, sent, queued, last, rd,
                   mode, fatal, dangling>>

Callback == QueueReport \/ Resubmit

-----------------------------------------------------------------------------
(* read_thread *)

\* The read thread moves on unless it is inside a callback.
ReadMoves(from, to) ==
    /\ rt = from /\ ~(cb # "none" /\ cbBy = "read")
    /\ rt' = to
    /\ UNCHANGED <<app, input_reports, plugged, sent, queued, last, mode, dangling>>

\* The result of the first submission is not looked at.
FirstSubmit ==
    /\ ReadMoves("submit", "barrier")
    /\ xfer' \in Submitted
    /\ UNCHANGED <<cb, cbBy, shutdown_thread, rd, fatal>>

TestShutdown ==
    /\ ReadMoves("test", IF shutdown_thread THEN "cancel" ELSE "handle")
    /\ UNCHANGED <<xfer, cb, cbBy, shutdown_thread, rd, fatal>>

\* libusb_handle_events runs a callback, or returns after 60 seconds with
\* nothing done, or fails; a fatal error ends the loop and is recorded nowhere.
HandleEvents ==
    \/ ReadMoves("handle", "test") /\ Reap("read") /\ UNCHANGED <<rd, fatal>>
    \/ /\ ~Completed
       /\ ReadMoves("handle", "test")
       /\ UNCHANGED <<xfer, cb, cbBy, shutdown_thread, rd, fatal>>
    \/ /\ ReadMoves("handle", "cancel")
       /\ fatal' = TRUE
       /\ UNCHANGED <<xfer, cb, cbBy, shutdown_thread, rd>>

\* The thread waits for the transfer only if this call cancelled it.
CancelLast ==
    /\ ReadMoves("cancel", IF xfer = "pending" THEN "drain" ELSE "broadcast")
    /\ CancelTransfer
    /\ UNCHANGED <<cb, cbBy, shutdown_thread, rd, fatal>>

\* Events are handled once more, whatever comes of it.
Drain ==
    /\ ReadMoves("drain", "broadcast")
    /\ Reap("read") \/ UNCHANGED <<xfer, cb, cbBy, shutdown_thread>>
    /\ UNCHANGED <<rd, fatal>>

\* The mutex is not taken.
Fault_Broadcast ==
    /\ ReadMoves("broadcast", "done")
    /\ rd' = [r \in Readers |-> IF rd[r] = "waiting" THEN "woken" ELSE rd[r]]
    /\ UNCHANGED <<xfer, cb, cbBy, shutdown_thread, fatal>>

\* Under the mutex, all sleeping readers are woken.
Broadcast ==
    /\ MutexFree
    /\ ReadMoves("broadcast", "done")
    /\ rd' = [r \in Readers |-> IF rd[r] = "waiting" THEN "woken" ELSE rd[r]]
    /\ UNCHANGED <<xfer, cb, cbBy, shutdown_thread, fatal>>

ReadThread ==
    FirstSubmit \/ TestShutdown \/ HandleEvents \/ CancelLast \/ Drain \/ Broadcast

-----------------------------------------------------------------------------
(* The application: hid_open_path, control transfers, hid_close *)

Init ==
    /\ app = "closed" /\ rt = "done" /\ xfer = "idle" /\ cb = "none" /\ cbBy = "read"
    /\ shutdown_thread = FALSE /\ input_reports = <<>> /\ plugged = FALSE
    /\ sent = 0 /\ queued = 0 /\ last = 0
    /\ rd = [r \in Readers |-> "out"] /\ mode = [r \in Readers |-> "blocking"]
    /\ fatal = FALSE /\ dangling = FALSE

\* hid_open_path makes a device and starts its read thread.
OpenPath ==
    /\ app = "closed" /\ ReadersOut
    /\ app' = "barrier" /\ rt' = "submit"
    /\ xfer' = "idle" /\ cb' = "none" /\ cbBy' = "read"
    /\ shutdown_thread' = FALSE /\ input_reports' = <<>> /\ plugged' = TRUE
    /\ sent' = 0 /\ queued' = 0 /\ last' = 0
    /\ fatal' = FALSE /\ dangling' = FALSE
    /\ UNCHANGED <<rd, mode>>

\* hid_open_path does not wait for the read thread.
Fault_Barrier ==
    /\ app = "barrier"
    /\ app' = "open" /\ UNCHANGED rt
    /\ UNCHANGED <<xfer, cb, cbBy, shutdown_thread, input_reports, plugged, sent,
                   queued, last, rd, mode, fatal, dangling>>

\* Both threads pass the barrier together.
Barrier ==
    /\ app = "barrier" /\ rt = "barrier"
    /\ app' = "open" /\ rt' = "test"
    /\ UNCHANGED <<xfer, cb, cbBy, shutdown_thread, input_reports, plugged, sent,
                   queued, last, rd, mode, fatal, dangling>>

\* hid_send_feature_report or hid_get_feature_report begins and, within
\* 1000 ms, ends.
StartTransfer ==
    /\ app = "open"
    /\ app' = "transfer"
    /\ UNCHANGED <<rt, xfer, cb, cbBy, shutdown_thread, input_reports, plugged, sent,
                   queued, last, rd, mode, fatal, dangling>>

EndTransfer ==
    /\ app = "transfer" /\ ~(cb # "none" /\ cbBy = "app")
    /\ app' = "open"
    /\ UNCHANGED <<rt, xfer, cb, cbBy, shutdown_thread, input_reports, plugged, sent,
                   queued, last, rd, mode, fatal, dangling>>

\* While it lasts the application's thread handles events too.
TransferReaps ==
    /\ app = "transfer" /\ Reap("app")
    /\ UNCHANGED <<app, rt, input_reports, plugged, sent, queued, last, rd, mode,
                   fatal, dangling>>

\* hid_close only cancels the transfer.
Fault_Close ==
    /\ app = "open"
    /\ ReadersOut
    /\ app' = "cancel"
    /\ UNCHANGED <<rt, xfer, cb, cbBy, shutdown_thread, input_reports, plugged, sent,
                   queued, last, rd, mode, fatal, dangling>>

\* hid_close; the caller does not close a device it is reading.
Close ==
    /\ app = "open"
    /\ ReadersOut
    /\ app' = "cancel"
    /\ shutdown_thread' = TRUE
    /\ UNCHANGED <<rt, xfer, cb, cbBy, input_reports, plugged, sent, queued, last,
                   rd, mode, fatal, dangling>>

CloseCancel ==
    /\ app = "cancel"
    /\ app' = "join"
    /\ CancelTransfer
    /\ UNCHANGED <<rt, cb, cbBy, shutdown_thread, input_reports, plugged, sent,
                   queued, last, rd, mode, fatal, dangling>>

\* pthread_join, then the transfer is freed and the handle closed.
Join ==
    /\ app = "join" /\ rt = "done"
    /\ app' = "freed"
    /\ dangling' = (xfer # "idle")
    /\ UNCHANGED <<rt, xfer, cb, cbBy, shutdown_thread, input_reports, plugged, sent,
                   queued, last, rd, mode, fatal>>

\* The queue is emptied under the mutex and the device freed.
FreeDevice ==
    /\ app = "freed" /\ MutexFree
    /\ app' = "closed"
    /\ input_reports' = <<>>
    /\ UNCHANGED <<rt, xfer, cb, cbBy, shutdown_thread, plugged, sent, queued, last,
                   rd, mode, fatal, dangling>>

Closing == CloseCancel \/ Join \/ FreeDevice

-----------------------------------------------------------------------------
(* hid_read_timeout *)

readerElse == <<app, rt, xfer, cb, cbBy, shutdown_thread, plugged, sent, queued,
                fatal, dangling>>

HidRead(r, m) ==
    /\ app \in {"open", "transfer"} /\ rd[r] = "out"
    /\ rd' = [rd EXCEPT ![r] = "lock"] /\ mode' = [mode EXCEPT ![r] = m]
    /\ UNCHANGED <<input_reports, last>> /\ UNCHANGED readerElse

\* The call returns past the unlock.
Fault_ReadReturns(r) ==
    /\ rd' = [rd EXCEPT ![r] = "returned locked"]
    /\ mode' = [mode EXCEPT ![r] = "blocking"]

\* The call unlocks the mutex and returns; mode means nothing until the next call.
ReadReturns(r) ==
    /\ rd' = [rd EXCEPT ![r] = "out"] /\ mode' = [mode EXCEPT ![r] = "blocking"]

\* With the mutex, at first or after a wake-up: a report is returned before the
\* end (-1) is, and a call that may wait goes to sleep only when there is
\* neither; one that may not wait returns 0.
Check(r) ==
    /\ rd[r] \in {"lock", "woken"} /\ MutexFree /\ app # "closed"
    /\ \/ /\ input_reports # <<>>
          /\ input_reports' = Tail(input_reports) /\ last' = Head(input_reports)
          /\ ReadReturns(r)
       \/ /\ input_reports = <<>> /\ (shutdown_thread \/ mode[r] = "nonblocking")
          /\ ReadReturns(r)
          /\ UNCHANGED <<input_reports, last>>
       \/ /\ input_reports = <<>> /\ ~shutdown_thread /\ mode[r] # "nonblocking"
          /\ rd' = [rd EXCEPT ![r] = "sleep"]
          /\ UNCHANGED <<input_reports, last, mode>>
    /\ UNCHANGED readerElse

\* pthread_cond_wait gives the mutex back and sleeps in one step.
Sleep(r) ==
    /\ rd[r] = "sleep"
    /\ rd' = [rd EXCEPT ![r] = "waiting"]
    /\ UNCHANGED <<input_reports, last, mode>> /\ UNCHANGED readerElse

\* A wake-up nobody sent, or the end of a timed wait.
WakeUp(r) ==
    /\ rd[r] = "waiting"
    /\ \/ rd' = [rd EXCEPT ![r] = "woken"]
       \/ mode[r] = "timed" /\ rd' = [rd EXCEPT ![r] = "expired"]
    /\ UNCHANGED <<input_reports, last, mode>> /\ UNCHANGED readerElse

\* ETIMEDOUT: the call returns 0 with the mutex back, a report queued or not.
TimedOut(r) ==
    /\ rd[r] = "expired" /\ MutexFree /\ app # "closed"
    /\ ReadReturns(r)
    /\ UNCHANGED <<input_reports, last>> /\ UNCHANGED readerElse

Reading(r) == Check(r) \/ Sleep(r) \/ TimedOut(r)

-----------------------------------------------------------------------------
Environment == Report \/ Expire \/ Disconnect

Application ==
    OpenPath \/ Barrier \/ StartTransfer \/ EndTransfer \/ TransferReaps \/ Close
    \/ Closing

Next ==
    \/ Environment \/ Callback \/ ReadThread \/ Application
    \/ \E r \in Readers : Reading(r) \/ WakeUp(r) \/ \E m \in Modes : HidRead(r, m)

Spec == Init /\ [][Next]_vars

\* Threads that can move do; nothing is asked of the device, of the callers or
\* of spurious wake-ups.  A timed wait ends.
FairSpec ==
    /\ Spec
    /\ WF_vars(Callback) /\ WF_vars(ReadThread)
    /\ WF_vars(Barrier) /\ WF_vars(EndTransfer) /\ WF_vars(Closing)
    /\ \A r \in Readers : WF_vars(Reading(r))

-----------------------------------------------------------------------------
(* Properties *)

HidTypeOK ==
    /\ app \in {"closed", "barrier", "open", "transfer", "cancel", "join", "freed"}
    /\ rt \in {"submit", "barrier", "test", "handle", "cancel", "drain", "broadcast",
               "done"}
    /\ xfer \in Statuses \cup {"idle", "pending"}
    /\ cb \in {"none", "queue", "resubmit"} /\ cbBy \in {"read", "app"}
    /\ shutdown_thread \in BOOLEAN /\ plugged \in BOOLEAN
    /\ fatal \in BOOLEAN /\ dangling \in BOOLEAN
    /\ sent \in Nat /\ queued \in Nat /\ last \in Nat
    /\ input_reports \in Seq(Nat)
    /\ rd \in [Readers -> {"out", "lock", "sleep", "waiting", "woken", "expired"}]
    /\ mode \in [Readers -> Modes]

\* A device nobody reads from does not grow: the queue never holds more than
\* two reports above the limit (hid-libusb.c:666).
QueueBound == Len(input_reports) <= QueueLimit + 2

\* The read thread lives inside the open device: the transfer exists before
\* hid_open returns and is freed only when thread and callback are gone, in
\* whichever thread the callback runs.
ThreadScope ==
    /\ app \in {"open", "transfer", "cancel", "join"} => rt \notin {"submit", "barrier"}
    /\ app = "freed" => rt = "done" /\ cb = "none"

\* When the read thread has ended no reader sleeps: "Now that the read thread is
\* stopping, Wake any threads which are waiting on data ... to make sure that a
\* thread which is about to go to sleep ... will go to sleep before the
\* condition is signaled" (hid-libusb.c:758).  After a fatal error, which leaves
\* shutdown_thread as it was, a woken reader goes to sleep again.
SleepersWoken ==
    rt = "done" /\ ~fatal => \A r \in Readers : rd[r] \notin {"sleep", "waiting"}

\* Threads, locks, the callback's two threads and the close together implement
\* the bounded first-in first-out queue of ReportQueue.
Reports == INSTANCE ReportQueue WITH
             Capacity <- QueueLimit + 2, queue <- input_reports,
             arrived <- queued

ImplementsQueue == Reports!QueueSpec

\* hid_close returns, at whatever point it finds the read thread and the
\* transfer; libnovin calls it after every packet.
CloseReturns == (app = "cancel") ~> (app = "closed")

\* When the kernel reports the device gone, every read in progress returns,
\* unless a fatal error of libusb ends the thread that would say so.
UnplugEndsReads ==
    \A r \in Readers :
       (xfer = "NO_DEVICE" /\ rd[r] # "out") ~> (rd[r] = "out" \/ fatal)

(* What comments of the code say and the code does not do. *)

\* "In both cases the objects can be safely cleaned up after the call to
\* pthread_join() (in hid_close())" (hid-libusb.c:770): libusb no longer owns
\* the transfer when it is freed.
FreedAfterUse == ~dangling

\* "In blocking mode, hid_read() will wait (block) until there is data to read
\* before returning" (hidapi.h:248), and no longer: no blocking reader sleeps over
\* a report unless another reader is awake to take one.  Only the report that
\* finds the queue empty signals, and it wakes one reader (hid-libusb.c:660).
NoLostWakeup ==
    /\ input_reports # <<>>
    /\ \E r \in Readers : rd[r] = "waiting" /\ mode[r] = "blocking"
    => \E s \in Readers : rd[s] \in {"lock", "woken"}

=============================================================================
