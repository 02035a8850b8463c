--------------------------- MODULE HidDeviceProofs ---------------------------
(***************************************************************************)
(* What TLAPS proves of HidDevice for every set of readers, every queue    *)
(* limit and any number of reports, and that HidDevice implements          *)
(* ReportQueue.  The assumptions are those HidDevice states of its         *)
(* constants.                                                              *)
(***************************************************************************)
EXTENDS HidDevice, SequenceTheorems, TLAPS

-----------------------------------------------------------------------------
(* Lemmas on the operators *)

\* A cut or extended list of reports is a list of reports, one longer unless
\* it was full, and never longer than the limit allows.
LEMMA QueuedProperties ==
  ASSUME NEW q \in Seq(Nat), NEW n \in Nat, Len(q) <= QueueLimit + 2
  PROVE  /\ Queued(q, n) \in Seq(Nat)
         /\ Len(Queued(q, n)) <= QueueLimit + 2
         /\ Queued(q, n) # <<>>
         /\ Queued(q, n) = Append(IF Len(q) = QueueLimit + 2 THEN Tail(q) ELSE q, n)
<1>1. Len(q) \in Nat /\ QueueLimit \in Nat
  BY QueueLimitAssumption, LenProperties
<1>2. CASE Len(q) > QueueLimit + 1
  <2>1. q # <<>>
    BY <1>1, <1>2, EmptySeq
  <2>2. Tail(q) \in Seq(Nat) /\ Len(Tail(q)) = Len(q) - 1
    BY <2>1, HeadTailProperties
  <2>3. /\ Append(Tail(q), n) \in Seq(Nat) /\ Append(Tail(q), n) # <<>>
        /\ Len(Append(Tail(q), n)) = Len(Tail(q)) + 1
    BY <2>2, AppendProperties
  <2>4. Queued(q, n) = Append(Tail(q), n) /\ Len(q) = QueueLimit + 2
    BY <1>1, <1>2 DEF Queued
  <2> QED
    BY <1>1, <2>2, <2>3, <2>4
<1>3. CASE ~(Len(q) > QueueLimit + 1)
  <2>1. /\ Append(q, n) \in Seq(Nat) /\ Append(q, n) # <<>>
        /\ Len(Append(q, n)) = Len(q) + 1
    BY AppendProperties
  <2>2. Queued(q, n) = Append(q, n) /\ Len(q) # QueueLimit + 2
    BY <1>1, <1>3 DEF Queued
  <2> QED
    BY <1>1, <1>3, <2>1, <2>2
<1> QED
  BY <1>2, <1>3

-----------------------------------------------------------------------------
(* Types and the bound of the queue *)

QueueInv == HidTypeOK /\ QueueBound

LEMMA QueueInit == Init => QueueInv
<1> SUFFICES ASSUME Init PROVE QueueInv
  OBVIOUS
<1>1. <<>> \in Seq(Nat) /\ Len(<<>>) = 0
  BY EmptySeq
<1>2. HidTypeOK
  BY <1>1 DEF Init, HidTypeOK, Statuses, Modes
<1>3. QueueBound
  BY <1>1, QueueLimitAssumption DEF Init, QueueBound
<1> QED
  BY <1>2, <1>3 DEF QueueInv

\* Taking a completed transfer to its callback, and cancelling or submitting
\* one, keep to the states a transfer has.
LEMMA ReapTyped ==
  ASSUME HidTypeOK, NEW thread \in {"read", "app"}, Reap(thread)
  PROVE  /\ xfer' \in Statuses \cup {"idle", "pending"}
         /\ cb' \in {"none", "queue", "resubmit"} /\ cbBy' \in {"read", "app"}
         /\ shutdown_thread' \in BOOLEAN
BY DEF HidTypeOK, Reap, Completed, Statuses

LEMMA TransferTyped ==
  ASSUME HidTypeOK
  PROVE  /\ Submitted \subseteq Statuses \cup {"idle", "pending"}
         /\ CancelTransfer => xfer' \in Statuses \cup {"idle", "pending"}
BY DEF HidTypeOK, Submitted, CancelTransfer, Statuses

\* A report handed out leaves a shorter list.
LEMMA TakenTyped ==
  ASSUME QueueInv, input_reports # <<>>
  PROVE  /\ Head(input_reports) \in Nat /\ Tail(input_reports) \in Seq(Nat)
         /\ Len(Tail(input_reports)) <= QueueLimit + 2
<1>1. input_reports \in Seq(Nat) /\ Len(input_reports) <= QueueLimit + 2
  BY DEF QueueInv, HidTypeOK, QueueBound
<1>2. /\ Head(input_reports) \in Nat /\ Tail(input_reports) \in Seq(Nat)
      /\ Len(Tail(input_reports)) = Len(input_reports) - 1
  BY <1>1, HeadTailProperties
<1>3. Len(input_reports) \in Nat /\ QueueLimit + 2 \in Nat
  BY <1>1, LenProperties, QueueLimitAssumption
<1> QED
  BY <1>1, <1>2, <1>3

LEMMA QueueEnvironment == QueueInv /\ Environment => QueueInv'
<1> SUFFICES ASSUME QueueInv, Environment PROVE QueueInv'
  OBVIOUS
<1>1. CASE Report
  BY <1>1 DEF Report, QueueInv, HidTypeOK, QueueBound, Statuses
<1>2. CASE Expire
  BY <1>2 DEF Expire, QueueInv, HidTypeOK, QueueBound, Statuses
<1>3. CASE Disconnect
  BY <1>3 DEF Disconnect, QueueInv, HidTypeOK, QueueBound, Statuses
<1> QED
  BY <1>1, <1>2, <1>3 DEF Environment

LEMMA QueueCallback == QueueInv /\ Callback => QueueInv'
<1> SUFFICES ASSUME QueueInv, Callback PROVE QueueInv'
  OBVIOUS
<1>1. CASE QueueReport
  <2>1. /\ input_reports' \in Seq(Nat)
        /\ Len(input_reports') <= QueueLimit + 2
    BY <1>1, QueuedProperties DEF QueueReport, QueueInv, HidTypeOK, QueueBound
  <2>2. rd' \in [Readers -> {"out", "lock", "sleep", "waiting", "woken", "expired"}]
    BY <1>1 DEF QueueReport, Signal, QueueInv, HidTypeOK
  <2>3. queued' \in Nat /\ cb' \in {"none", "queue", "resubmit"}
    BY <1>1 DEF QueueReport, QueueInv, HidTypeOK
  <2> QED
    BY <1>1, <2>1, <2>2, <2>3 DEF QueueReport, QueueInv, HidTypeOK, QueueBound
<1>2. CASE Resubmit
  BY <1>2, TransferTyped DEF Resubmit, QueueInv, HidTypeOK, QueueBound
<1> QED
  BY <1>1, <1>2 DEF Callback

LEMMA QueueReadThread == QueueInv /\ ReadThread => QueueInv'
<1> SUFFICES ASSUME QueueInv, ReadThread PROVE QueueInv'
  OBVIOUS
<1> USE DEF ReadMoves
<1>1. CASE FirstSubmit
  BY <1>1, TransferTyped DEF FirstSubmit, QueueInv, HidTypeOK, QueueBound
<1>2. CASE TestShutdown
  BY <1>2 DEF TestShutdown, QueueInv, HidTypeOK, QueueBound
<1>3. CASE HandleEvents
  <2>1. CASE ReadMoves("handle", "test") /\ Reap("read") /\ UNCHANGED <<rd, fatal>>
    BY <2>1, ReapTyped DEF QueueInv, HidTypeOK, QueueBound
  <2> QED
    BY <1>3, <2>1 DEF HandleEvents, QueueInv, HidTypeOK, QueueBound
<1>4. CASE CancelLast
  BY <1>4, TransferTyped DEF CancelLast, QueueInv, HidTypeOK, QueueBound
<1>5. CASE Drain
  <2>1. CASE ReadMoves("drain", "broadcast") /\ Reap("read") /\ UNCHANGED <<rd, fatal>>
    BY <2>1, ReapTyped DEF QueueInv, HidTypeOK, QueueBound
  <2> QED
    BY <1>5, <2>1 DEF Drain, QueueInv, HidTypeOK, QueueBound
<1>6. CASE Broadcast
  BY <1>6 DEF Broadcast, QueueInv, HidTypeOK, QueueBound
<1> QED
  BY <1>1, <1>2, <1>3, <1>4, <1>5, <1>6 DEF ReadThread

LEMMA QueueApplication == QueueInv /\ Application => QueueInv'
<1> SUFFICES ASSUME QueueInv, Application PROVE QueueInv'
  OBVIOUS
<1>0. <<>> \in Seq(Nat) /\ Len(<<>>) <= QueueLimit + 2
  BY EmptySeq, QueueLimitAssumption
<1>1. CASE OpenPath
  BY <1>0, <1>1 DEF OpenPath, QueueInv, HidTypeOK, QueueBound
<1>2. CASE Barrier \/ StartTransfer \/ EndTransfer
  BY <1>2 DEF Barrier, StartTransfer, EndTransfer, QueueInv, HidTypeOK, QueueBound
<1>3. CASE TransferReaps
  BY <1>3, ReapTyped DEF TransferReaps, QueueInv, HidTypeOK, QueueBound
<1>4. CASE Close
  BY <1>4 DEF Close, QueueInv, HidTypeOK, QueueBound
<1>5. CASE CloseCancel
  BY <1>5, TransferTyped DEF CloseCancel, QueueInv, HidTypeOK, QueueBound
<1>6. CASE Join
  BY <1>6 DEF Join, QueueInv, HidTypeOK, QueueBound
<1>7. CASE FreeDevice
  BY <1>0, <1>7 DEF FreeDevice, QueueInv, HidTypeOK, QueueBound
<1> QED
  BY <1>1, <1>2, <1>3, <1>4, <1>5, <1>6, <1>7 DEF Application, Closing

\* What a reader does.
ReaderStep ==
  \E r \in Readers : Reading(r) \/ WakeUp(r) \/ \E m \in Modes : HidRead(r, m)

LEMMA QueueReader == QueueInv /\ ReaderStep => QueueInv'
<1> SUFFICES ASSUME QueueInv, NEW r \in Readers,
                    Reading(r) \/ WakeUp(r) \/ \E m \in Modes : HidRead(r, m)
             PROVE  QueueInv'
  BY DEF ReaderStep
<1>1. CASE Check(r)
  <2>1. /\ input_reports' \in Seq(Nat) /\ last' \in Nat
        /\ Len(input_reports') <= QueueLimit + 2
    BY <1>1, TakenTyped DEF Check, ReadReturns, QueueInv, HidTypeOK, QueueBound
  <2>2. /\ rd' \in [Readers -> {"out", "lock", "sleep", "waiting", "woken", "expired"}]
        /\ mode' \in [Readers -> Modes]
    BY <1>1 DEF Check, ReadReturns, QueueInv, HidTypeOK, Modes
  <2> QED
    BY <1>1, <2>1, <2>2 DEF Check, readerElse, QueueInv, HidTypeOK, QueueBound
<1>2. CASE Sleep(r)
  BY <1>2 DEF Sleep, readerElse, QueueInv, HidTypeOK, QueueBound
<1>3. CASE TimedOut(r)
  BY <1>3 DEF TimedOut, ReadReturns, readerElse, QueueInv, HidTypeOK, QueueBound, Modes
<1>4. CASE WakeUp(r)
  BY <1>4 DEF WakeUp, readerElse, QueueInv, HidTypeOK, QueueBound
<1>5. ASSUME NEW m \in Modes, HidRead(r, m)
      PROVE  QueueInv'
  BY <1>5 DEF HidRead, readerElse, QueueInv, HidTypeOK, QueueBound
<1> QED
  BY <1>1, <1>2, <1>3, <1>4, <1>5 DEF Reading

LEMMA QueueStutter == QueueInv /\ UNCHANGED vars => QueueInv'
BY DEF QueueInv, HidTypeOK, QueueBound, vars

LEMMA QueueInvariant == Spec => []QueueInv
<1>1. QueueInv /\ [Next]_vars => QueueInv'
  BY QueueEnvironment, QueueCallback, QueueReadThread, QueueApplication, QueueReader,
     QueueStutter DEF Next, ReaderStep
<1> QED
  BY QueueInit, <1>1, PTL DEF Spec

\* Every variable keeps its type.
THEOREM HidTypeCorrect == Spec => []HidTypeOK
<1>1. QueueInv => HidTypeOK
  BY DEF QueueInv
<1> QED
  BY QueueInvariant, <1>1, PTL

\* A device nobody reads from does not grow, whatever the limit and however
\* many reports arrive.
THEOREM QueueStaysBounded == Spec => []QueueBound
<1>1. QueueInv => QueueBound
  BY DEF QueueInv
<1> QED
  BY QueueInvariant, <1>1, PTL

-----------------------------------------------------------------------------
(* The life of the read thread.  A callback in the read thread keeps it from    *)
(* ending, one in the application's thread keeps that in its control transfer:  *)
(* when the thread is gone and the application is closing, no callback runs.    *)

ScopeInv ==
  /\ app \in {"closed", "freed"} => rt = "done" /\ cb = "none"
  /\ app = "barrier" => rt \in {"submit", "barrier"} /\ cb = "none"
  /\ app \in {"open", "transfer", "cancel", "join"} => rt \notin {"submit", "barrier"}
  /\ cb # "none" /\ cbBy = "app" => app = "transfer"
  /\ cb # "none" /\ cbBy = "read" => rt # "done"
  /\ app \notin {"open", "transfer"} => ReadersOut

\* Reaping happens only inside an open device.
LEMMA ScopeReap ==
  ASSUME NEW thread \in {"read", "app"}, Reap(thread), ScopeInv, HidTypeOK,
         UNCHANGED <<app, rd>>,
         thread = "app" => app = "transfer" /\ rt' = rt,
         thread = "read" => rt \in {"handle", "drain"} /\ rt' \in {"test", "broadcast"}
  PROVE  ScopeInv'
BY DEF Reap, ScopeInv, ReadersOut, HidTypeOK

LEMMA ScopeReadThread == HidTypeOK /\ ScopeInv /\ ReadThread => ScopeInv'
<1> SUFFICES ASSUME HidTypeOK, ScopeInv, ReadThread PROVE ScopeInv'
  OBVIOUS
<1>1. CASE FirstSubmit
  BY <1>1 DEF FirstSubmit, ReadMoves, ScopeInv, ReadersOut, HidTypeOK
<1>2. CASE TestShutdown
  BY <1>2 DEF TestShutdown, ReadMoves, ScopeInv, ReadersOut, HidTypeOK
<1>3. CASE HandleEvents
  <2>1. CASE ReadMoves("handle", "test") /\ Reap("read") /\ UNCHANGED rd
    BY <2>1, ScopeReap DEF ReadMoves
  <2>2. CASE UNCHANGED <<cb, cbBy, rd>>
    BY <1>3, <2>2 DEF HandleEvents, ReadMoves, ScopeInv, ReadersOut, HidTypeOK
  <2> QED
    BY <1>3, <2>1, <2>2 DEF HandleEvents
<1>4. CASE CancelLast
  BY <1>4 DEF CancelLast, ReadMoves, ScopeInv, ReadersOut, HidTypeOK
<1>5. CASE Drain
  <2>1. CASE ReadMoves("drain", "broadcast") /\ Reap("read") /\ UNCHANGED rd
    BY <2>1, ScopeReap DEF ReadMoves
  <2>2. CASE UNCHANGED <<cb, cbBy, rd>>
    BY <1>5, <2>2 DEF Drain, ReadMoves, ScopeInv, ReadersOut, HidTypeOK
  <2> QED
    BY <1>5, <2>1, <2>2 DEF Drain
<1>6. CASE Broadcast
  BY <1>6 DEF Broadcast, ReadMoves, ScopeInv, ReadersOut, HidTypeOK
<1> QED
  BY <1>1, <1>2, <1>3, <1>4, <1>5, <1>6 DEF ReadThread

LEMMA ScopeApplication == HidTypeOK /\ ScopeInv /\ Application => ScopeInv'
<1> SUFFICES ASSUME HidTypeOK, ScopeInv, Application PROVE ScopeInv'
  OBVIOUS
<1>1. CASE TransferReaps
  BY <1>1, ScopeReap DEF TransferReaps
<1>2. CASE OpenPath \/ Barrier \/ StartTransfer \/ EndTransfer
  BY <1>2 DEF OpenPath, Barrier, StartTransfer, EndTransfer, ScopeInv, ReadersOut, HidTypeOK
<1>3. CASE Close \/ CloseCancel \/ FreeDevice
  BY <1>3 DEF Close, CloseCancel, FreeDevice, ScopeInv, ReadersOut, HidTypeOK
<1>4. CASE Join
  BY <1>4 DEF Join, ScopeInv, ReadersOut, HidTypeOK
<1> QED
  BY <1>1, <1>2, <1>3, <1>4 DEF Application, Closing

LEMMA ScopeReader == HidTypeOK /\ ScopeInv /\ ReaderStep => ScopeInv'
<1> SUFFICES ASSUME HidTypeOK, ScopeInv, NEW r \in Readers,
                    Reading(r) \/ WakeUp(r) \/ \E m \in Modes : HidRead(r, m)
             PROVE  ScopeInv'
  BY DEF ReaderStep
<1>1. UNCHANGED <<app, rt, cb, cbBy>>
  BY DEF Reading, Check, Sleep, TimedOut, WakeUp, HidRead, readerElse
<1>2. app \in {"open", "transfer"}
  <2>1. CASE app \notin {"open", "transfer"}
    <3>1. rd[r] = "out"
      BY <2>1 DEF ScopeInv, ReadersOut
    <3> QED
      BY <2>1, <3>1 DEF Reading, Check, Sleep, TimedOut, WakeUp, HidRead
  <2> QED
    BY <2>1
<1> QED
  BY <1>1, <1>2 DEF ScopeInv

LEMMA ScopeInvariant == Spec => []ScopeInv
<1>1. Init => ScopeInv
  BY DEF Init, ScopeInv, ReadersOut
<1>2. ASSUME HidTypeOK, ScopeInv, Environment
      PROVE  ScopeInv'
  BY <1>2 DEF Environment, Report, Expire, Disconnect, ScopeInv, ReadersOut
<1>3. ASSUME HidTypeOK, ScopeInv, Callback
      PROVE  ScopeInv'
  <2>1. UNCHANGED <<app, rt, cbBy>> /\ cb # "none"
    BY <1>3 DEF Callback, QueueReport, Resubmit
  <2>2. app \notin {"open", "transfer"} => UNCHANGED rd
    <3>1. CASE Resubmit
      BY <3>1 DEF Resubmit
    <3>2. CASE QueueReport /\ ReadersOut
      BY <3>2 DEF QueueReport, Signal, ReadersOut
    <3> QED
      BY <1>3, <3>1, <3>2 DEF Callback, ScopeInv
  <2> QED
    BY <1>3, <2>1, <2>2 DEF ScopeInv, ReadersOut
<1>4. ScopeInv /\ UNCHANGED vars => ScopeInv'
  BY DEF ScopeInv, ReadersOut, vars
<1>5. HidTypeOK /\ ScopeInv /\ [Next]_vars => ScopeInv'
  BY <1>2, <1>3, <1>4, ScopeReadThread, ScopeApplication, ScopeReader
     DEF Next, ReaderStep
<1> QED
  BY HidTypeCorrect, <1>1, <1>5, PTL DEF Spec

\* The transfer exists before hid_open returns, and thread and callback are gone
\* when it is freed, whichever of the two threads runs the callback.
THEOREM ThreadScopeHolds == Spec => []ThreadScope
<1>1. ScopeInv => ThreadScope
  BY DEF ScopeInv, ThreadScope
<1> QED
  BY ScopeInvariant, <1>1, PTL

-----------------------------------------------------------------------------
(* Wake-ups.  The read thread leaves its loop after shutdown_thread was set, or *)
(* by a fatal error: without one a reader that looks at the queue after the     *)
(* broadcast sees the flag and does not go to sleep.                            *)

Ending == {"cancel", "drain", "broadcast", "done"}

WakeInv ==
  /\ rt \in Ending /\ app # "closed" => shutdown_thread \/ fatal
  /\ SleepersWoken

\* Steps that open no device, take no shutdown back and move neither the read
\* thread nor a reader.
LEMMA WakeKept ==
  ASSUME WakeInv, UNCHANGED <<rt, rd, fatal>>, shutdown_thread => shutdown_thread',
         app = "closed" => app' = "closed"
  PROVE  WakeInv'
BY DEF WakeInv, SleepersWoken

LEMMA WakeReadThread ==
  ASSUME HidTypeOK, ScopeInv, WakeInv, ReadThread
  PROVE  WakeInv'
<1> USE DEF ReadMoves, Ending
<1>1. CASE FirstSubmit
  BY <1>1 DEF FirstSubmit, WakeInv, SleepersWoken
<1>2. CASE TestShutdown
  BY <1>2 DEF TestShutdown, WakeInv, SleepersWoken
<1>3. CASE HandleEvents
  BY <1>3 DEF HandleEvents, WakeInv, SleepersWoken
<1>4. CASE CancelLast
  BY <1>4 DEF CancelLast, WakeInv, SleepersWoken
<1>5. CASE Drain
  <2>1. shutdown_thread => shutdown_thread'
    BY <1>5 DEF Drain, Reap
  <2> QED
    BY <1>5, <2>1 DEF Drain, WakeInv, SleepersWoken
<1>6. CASE Broadcast
  <2>1. \A r \in Readers : rd'[r] \notin {"sleep", "waiting"}
    BY <1>6 DEF Broadcast, MutexFree
  <2> QED
    BY <1>6, <2>1 DEF Broadcast, WakeInv, SleepersWoken
<1> QED
  BY <1>1, <1>2, <1>3, <1>4, <1>5, <1>6 DEF ReadThread

\* When every reader is out there is nobody to wake.
LEMMA NobodySleeps ==
  ASSUME ScopeInv, app \notin {"open", "transfer"}
  PROVE  \A r \in Readers : rd[r] \notin {"sleep", "waiting"}
BY DEF ScopeInv, ReadersOut

LEMMA WakeApplication ==
  ASSUME HidTypeOK, ScopeInv, WakeInv, Application
  PROVE  WakeInv'
<1>1. CASE OpenPath
  BY <1>1 DEF OpenPath, WakeInv, SleepersWoken, Ending
<1>2. CASE Barrier
  BY <1>2 DEF Barrier, WakeInv, SleepersWoken, Ending
<1>3. CASE StartTransfer \/ EndTransfer \/ Close \/ Closing
  BY <1>3, WakeKept DEF StartTransfer, EndTransfer, Close, Closing, CloseCancel, Join,
     FreeDevice
<1>4. CASE TransferReaps
  BY <1>4, WakeKept DEF TransferReaps, Reap
<1> QED
  BY <1>1, <1>2, <1>3, <1>4 DEF Application

LEMMA WakeReader ==
  ASSUME HidTypeOK, ScopeInv, WakeInv, ReaderStep
  PROVE  WakeInv'
<1>1. PICK r \in Readers : Reading(r) \/ WakeUp(r) \/ \E m \in Modes : HidRead(r, m)
  BY DEF ReaderStep
<1>2. UNCHANGED <<app, rt, shutdown_thread, fatal>>
  BY <1>1 DEF Reading, Check, Sleep, TimedOut, WakeUp, HidRead, readerElse
<1>3. rd \in [Readers -> {"out", "lock", "sleep", "waiting", "woken", "expired"}]
  BY DEF HidTypeOK
<1>4. ASSUME rt = "done", ~fatal, NEW s \in Readers
      PROVE  rd'[s] \notin {"sleep", "waiting"}
  <2>1. rd[s] \notin {"sleep", "waiting"} /\ rd[r] \notin {"sleep", "waiting"}
    BY <1>4 DEF WakeInv, SleepersWoken
  <2>2. CASE Check(r)
    <3>1. shutdown_thread
      BY <1>4, <2>2 DEF Check, WakeInv, Ending
    <3> QED
      BY <1>3, <2>1, <2>2, <3>1 DEF Check, ReadReturns
  <2>3. CASE TimedOut(r) \/ \E m \in Modes : HidRead(r, m)
    BY <1>3, <2>1, <2>3 DEF TimedOut, ReadReturns, HidRead
  <2>4. CASE Sleep(r) \/ WakeUp(r)
    BY <2>1, <2>4 DEF Sleep, WakeUp
  <2> QED
    BY <1>1, <2>2, <2>3, <2>4 DEF Reading
<1> QED
  BY <1>2, <1>4 DEF WakeInv, SleepersWoken

\* Unless a fatal error of libusb ended its loop, no reader sleeps once the read
\* thread has ended, whatever number of them was testing the queue when it woke
\* them.
THEOREM SleepersAreWoken == Spec => []SleepersWoken
<1>1. Init => WakeInv
  BY DEF Init, WakeInv, SleepersWoken
<1>2. ASSUME WakeInv, Environment
      PROVE  WakeInv'
  BY <1>2, WakeKept DEF Environment, Report, Expire, Disconnect
<1>3. ASSUME HidTypeOK, WakeInv, Callback
      PROVE  WakeInv'
  <2>1. CASE QueueReport
    <3>1. UNCHANGED <<app, rt, shutdown_thread, fatal>>
      BY <2>1 DEF QueueReport
    <3>2. \A s \in Readers : rd'[s] = rd[s] \/ rd'[s] = "woken"
      BY <1>3, <2>1 DEF QueueReport, Signal, HidTypeOK
    <3> QED
      BY <1>3, <3>1, <3>2 DEF WakeInv, SleepersWoken
  <2>2. CASE Resubmit
    BY <1>3, <2>2, WakeKept DEF Resubmit
  <2> QED
    BY <1>3, <2>1, <2>2 DEF Callback
<1>4. WakeInv /\ UNCHANGED vars => WakeInv'
  BY DEF WakeInv, SleepersWoken, vars
<1>5. HidTypeOK /\ ScopeInv /\ WakeInv /\ [Next]_vars => WakeInv'
  BY <1>2, <1>3, <1>4, WakeReadThread, WakeApplication, WakeReader DEF Next, ReaderStep
<1>6. WakeInv => SleepersWoken
  BY DEF WakeInv
<1> QED
  BY HidTypeCorrect, ScopeInvariant, <1>1, <1>5, <1>6, PTL DEF Spec

-----------------------------------------------------------------------------
(* HidDevice implements ReportQueue.  The number a report gets in the queue is  *)
(* the number it was sent with, because at most one report is between the       *)
(* kernel and the queue; a closed device has an empty queue, so reopening it    *)
(* is a Reopen.                                                                 *)

CountInv ==
  /\ sent = queued + (IF xfer = "COMPLETED" \/ cb = "queue" THEN 1 ELSE 0)
  /\ cb # "none" => xfer = "idle"
  /\ rt = "submit" => xfer = "idle" /\ cb = "none"
  /\ app = "closed" => input_reports = <<>>

\* Steps that only move threads.
LEMMA CountKept ==
  ASSUME CountInv, UNCHANGED <<sent, queued, xfer, cb>>,
         rt' = "submit" => rt = "submit",
         app' = "closed" => input_reports' = <<>>
  PROVE  CountInv'
BY DEF CountInv

\* Reaping moves a report from the kernel to the callback.
LEMMA CountReap ==
  ASSUME HidTypeOK, CountInv, NEW thread, Reap(thread),
         UNCHANGED <<sent, queued, input_reports, app>>,
         rt # "submit", rt' # "submit"
  PROVE  CountInv'
BY DEF HidTypeOK, CountInv, Reap, Completed, Statuses

\* A transfer that is cancelled was pending: no report is lost with it.
LEMMA CountCancel ==
  ASSUME CountInv, CancelTransfer, UNCHANGED <<sent, queued, cb, input_reports>>,
         rt' = "submit" => rt = "submit",
         app' = "closed" => app = "closed"
  PROVE  CountInv'
BY DEF CountInv, CancelTransfer

LEMMA CountReadThread == HidTypeOK /\ CountInv /\ ReadThread => CountInv'
<1> SUFFICES ASSUME HidTypeOK, CountInv, ReadThread PROVE CountInv'
  OBVIOUS
<1>1. CASE FirstSubmit
  BY <1>1 DEF FirstSubmit, ReadMoves, Submitted, CountInv
<1>2. CASE TestShutdown \/ Broadcast
  BY <1>2, CountKept DEF TestShutdown, Broadcast, ReadMoves, CountInv
<1>3. CASE HandleEvents
  <2>1. CASE ReadMoves("handle", "test") /\ Reap("read")
    BY <2>1, CountReap DEF ReadMoves
  <2> QED
    BY <1>3, <2>1, CountKept DEF HandleEvents, ReadMoves, CountInv
<1>4. CASE CancelLast
  BY <1>4, CountCancel DEF CancelLast, ReadMoves
<1>5. CASE Drain
  <2>1. CASE ReadMoves("drain", "broadcast") /\ Reap("read")
    BY <2>1, CountReap DEF ReadMoves
  <2> QED
    BY <1>5, <2>1, CountKept DEF Drain, ReadMoves, CountInv
<1> QED
  BY <1>1, <1>2, <1>3, <1>4, <1>5 DEF ReadThread

LEMMA CountApplication ==
  HidTypeOK /\ ScopeInv /\ CountInv /\ Application => CountInv'
<1> SUFFICES ASSUME HidTypeOK, ScopeInv, CountInv, Application PROVE CountInv'
  OBVIOUS
<1>1. CASE OpenPath
  BY <1>1 DEF OpenPath, CountInv
<1>2. CASE Barrier \/ StartTransfer \/ EndTransfer \/ Close \/ Join
  BY <1>2, CountKept DEF Barrier, StartTransfer, EndTransfer, Close, Join
<1>3. CASE TransferReaps
  BY <1>3, CountReap DEF TransferReaps, ScopeInv
<1>4. CASE CloseCancel
  BY <1>4, CountCancel DEF CloseCancel
<1>5. CASE FreeDevice
  BY <1>5, CountKept DEF FreeDevice
<1> QED
  BY <1>1, <1>2, <1>3, <1>4, <1>5 DEF Application, Closing

LEMMA CountInvariant == Spec => []CountInv
<1>1. Init => CountInv
  BY DEF Init, CountInv
<1>2. ASSUME HidTypeOK, CountInv, Environment
      PROVE  CountInv'
  BY <1>2 DEF Environment, Report, Expire, Disconnect, CountInv, HidTypeOK
<1>3. ASSUME HidTypeOK, ScopeInv, CountInv, Callback
      PROVE  CountInv'
  <2>1. app # "closed" /\ rt # "submit"
    BY <1>3 DEF Callback, QueueReport, Resubmit, ScopeInv, CountInv
  <2>2. CASE QueueReport
    BY <1>3, <2>1, <2>2 DEF QueueReport, CountInv, HidTypeOK
  <2>3. CASE Resubmit
    BY <1>3, <2>1, <2>3 DEF Resubmit, Submitted, CountInv
  <2> QED
    BY <1>3, <2>2, <2>3 DEF Callback
<1>4. ASSUME ScopeInv, CountInv, ReaderStep
      PROVE  CountInv'
  <2>1. UNCHANGED <<app, rt, xfer, cb, sent, queued>>
    BY <1>4 DEF ReaderStep, Reading, Check, Sleep, TimedOut, WakeUp, HidRead,
       readerElse
  <2>2. app = "closed" => UNCHANGED input_reports
    BY <1>4 DEF ReaderStep, Reading, Check, Sleep, TimedOut, WakeUp, HidRead
  <2> QED
    BY <1>4, <2>1, <2>2, CountKept DEF CountInv
<1>5. CountInv /\ UNCHANGED vars => CountInv'
  BY DEF CountInv, vars
<1>6. HidTypeOK /\ ScopeInv /\ CountInv /\ [Next]_vars => CountInv'
  BY <1>2, <1>3, <1>4, <1>5, CountReadThread, CountApplication DEF Next, ReaderStep
<1> QED
  BY HidTypeCorrect, ScopeInvariant, <1>1, <1>6, PTL DEF Spec

LEMMA QueueSteps ==
  ASSUME QueueInv, ScopeInv, CountInv, [Next]_vars
  PROVE  [Reports!QueueNext]_Reports!queueVars
<1> USE DEF Reports!queueVars
<1>1. CASE UNCHANGED <<input_reports, queued, last>>
  BY <1>1
<1>2. CASE Environment \/ ReadThread
  <2>1. UNCHANGED <<input_reports, queued, last>>
    BY <1>2 DEF Environment, Report, Expire, Disconnect, ReadThread, FirstSubmit,
       TestShutdown, HandleEvents, CancelLast, Drain, Broadcast, ReadMoves
  <2> QED
    BY <2>1
<1>3. CASE QueueReport
  <2>1. sent = queued + 1 /\ queued' = queued + 1
    BY <1>3 DEF QueueReport, CountInv
  <2>2. input_reports' =
           Append(IF Len(input_reports) = QueueLimit + 2 THEN Tail(input_reports)
                  ELSE input_reports, sent)
    BY <1>3, QueuedProperties DEF QueueReport, QueueInv, HidTypeOK, QueueBound
  <2>3. Reports!Arrive
    BY <1>3, <2>1, <2>2 DEF QueueReport, Reports!Arrive
  <2> QED
    BY <2>3 DEF Reports!QueueNext
<1>4. CASE Resubmit
  BY <1>4 DEF Resubmit
<1>5. CASE OpenPath
  <2>1. Reports!Reopen
    BY <1>5 DEF OpenPath, CountInv, Reports!Reopen
  <2> QED
    BY <2>1 DEF Reports!QueueNext
<1>6. CASE FreeDevice
  <2>1. Reports!Discard
    BY <1>6 DEF FreeDevice, Reports!Discard
  <2> QED
    BY <2>1 DEF Reports!QueueNext
<1>7. CASE Barrier \/ StartTransfer \/ EndTransfer \/ TransferReaps \/ Close
           \/ CloseCancel \/ Join
  BY <1>7 DEF Barrier, StartTransfer, EndTransfer, TransferReaps, Close, CloseCancel,
     Join
<1>8. ASSUME NEW r \in Readers, Check(r)
      PROVE  [Reports!QueueNext]_Reports!queueVars
  <2>1. queued' = queued
    BY <1>8 DEF Check, readerElse
  <2>2. CASE input_reports # <<>>
    <3>1. Reports!Deliver
      BY <1>8, <2>1, <2>2 DEF Check, Reports!Deliver
    <3> QED
      BY <3>1 DEF Reports!QueueNext
  <2>3. CASE input_reports = <<>>
    BY <1>8, <2>1, <2>3 DEF Check
  <2> QED
    BY <2>2, <2>3
<1>9. ASSUME NEW r \in Readers, Sleep(r) \/ TimedOut(r) \/ WakeUp(r)
                                \/ \E m \in Modes : HidRead(r, m)
      PROVE  [Reports!QueueNext]_Reports!queueVars
  BY <1>9 DEF Sleep, TimedOut, WakeUp, HidRead, readerElse
<1>10. CASE UNCHANGED vars
  BY <1>1, <1>10 DEF vars
<1> QED
  BY <1>2, <1>3, <1>4, <1>5, <1>6, <1>7, <1>8, <1>9, <1>10
     DEF Next, Callback, Application, Closing, Reading

\* The threads, the lock, the callback's two threads and the close together are
\* a bounded first-in first-out queue, for any limit and any number of readers.
THEOREM QueueIsImplemented == Spec => ImplementsQueue
<1>1. Init => Reports!QueueInit
  BY DEF Init, Reports!QueueInit
<1> QED
  BY QueueInvariant, ScopeInvariant, CountInvariant, <1>1, QueueSteps, PTL
     DEF Spec, ImplementsQueue, Reports!QueueSpec

=============================================================================
