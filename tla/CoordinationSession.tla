------------------------ MODULE CoordinationSession ------------------------
(***************************************************************************)
(* TSessionContext of src/src/client/coordination/coordination.cpp: a      *)
(* coordination session that outlives its gRPC streams.  One chain of      *)
(* callbacks connects, reads, and on a failure sleeps and connects again   *)
(* ("at" is its place); beside it run three timers, the driver's Stop and  *)
(* the user's calls.  A section under TSessionContext::Lock is one step.   *)
(*                                                                         *)
(* The server and the network are external: a connection attempt succeeds  *)
(* or fails, a stream breaks, a server answers requests in any order or    *)
(* falls silent.  Spontaneous faults are bounded by MaxFaults.             *)
(***************************************************************************)
EXTENDS SemaphoreOps, FiniteSets

CONSTANTS Ops,        \* requests sent once: ping, describe, create, update, delete
          Watches,    \* those of them that are a describe with a watch
          Subs,       \* users of SubscribeSessionLost
          MaxFaults,  \* failures of the network and of the server
          MaxReconnects, \* calls of Reconnect
          Timeouts       \* whether the settings have a timeout: {TRUE}, {FALSE} or both

ASSUME SessionAssumption == Watches \subseteq Ops /\ {MaxFaults, MaxReconnects} \subseteq Nat
                            /\ Timeouts \subseteq BOOLEAN

VARIABLES
  at,         \* where the chain of callbacks is
  finite,     \* Settings_.Timeout_ # TDuration::Max()
  session,    \* the session: state, connection, flags
  promises,   \* SessionPromise, ClosedPromise, ReconnectPromise
  timer,      \* the contexts of the timers that are current
  stream,     \* the gRPC stream of the present connection
  ops,        \* PendingRequests, SentRequests and what was answered
  lost,       \* SessionLostCallbacks, by user
  settling,   \* what OnProcessorStatus answers after it released the lock
  sem, slot,  \* one semaphore: the client's record and the server's
  driver,     \* whether the driver was stopped, whether Stop has run
  used        \* faults and Reconnect calls so far, and the user's TSession gone

vars == <<at, finite, session, promises, timer, stream, ops, lost, settling, sem, slot, driver, used>>

NoSettling == [stopped |-> FALSE, session |-> FALSE, simple |-> {}, aborted |-> {}, failed |-> {}, lost |-> {}]
NoStream == [up |-> FALSE, cancelled |-> FALSE, started |-> FALSE, silent |-> FALSE, stopSent |-> FALSE]

SessionInit ==
  /\ at = "new"
  /\ finite \in Timeouts
  /\ session = [state |-> "DETACHED", connection |-> "DISCONNECTED", stopping |-> FALSE,
                timeout |-> FALSE, deadline |-> "none", known |-> FALSE]
  /\ promises = [session |-> "waiting", closed |-> "none", reconnect |-> "none"]
  /\ timer = [connect |-> FALSE, connectContext |-> FALSE, start |-> FALSE, ping |-> "off",
              pinged |-> FALSE, sleep |-> FALSE]
  /\ stream = NoStream
  /\ ops = [idle |-> Ops \cup SemOps, pending |-> {}, sent |-> {}, watching |-> {}, answers |-> [o \in Ops |-> 0],
            changed |-> [o \in Ops |-> 0]]
  /\ lost = [notified |-> FALSE, at |-> [l \in Subs |-> "new"], calls |-> [l \in Subs |-> 0]]
  /\ settling = NoSettling
  /\ sem = EmptySemaphore
  /\ slot = FreeSlot
  /\ driver = [stopped |-> FALSE, stopRan |-> FALSE]
  /\ used = [faults |-> 0, reconnects |-> 0, dropped |-> FALSE]

IsClosed == session.stopping \/ promises.closed # "none"
IsWriteAllowed == stream.up /\ session.state = "ATTACHED" /\ session.connection = "CONNECTED"

Fault ==
  /\ used.faults < MaxFaults
  /\ used' = [used EXCEPT !.faults = @ + 1]

CancelStream == stream' = [stream EXCEPT !.cancelled = stream.up]

-----------------------------------------------------------------------------
(* The chain of callbacks.                                                  *)

(* Start.  Without a context the client is stopped and nothing begins.      *)
Start ==
  /\ at = "new"
  /\ IF driver.stopped
       THEN /\ at' = "refused"
            /\ promises' = [promises EXCEPT !.session = "failed"]
            /\ UNCHANGED session
       ELSE /\ at' = "connect"
            /\ session' = [session EXCEPT !.connection = "CONNECTING"]
            /\ UNCHANGED promises
  /\ UNCHANGED <<finite, timer, stream, ops, lost, settling, sem, slot, driver, used>>

DoConnectRequest ==
  /\ at = "connect"
  /\ at' = "connecting"
  /\ timer' = [timer EXCEPT !.connectContext = TRUE, !.connect = finite]
  /\ UNCHANGED <<finite, session, promises, stream, ops, lost, settling, sem, slot, driver, used>>

(* OnConnect, its first section under the lock.  ok is whether there is a   *)
(* processor; both are possible whatever has been cancelled meanwhile.      *)
OnConnect(ok) ==
  /\ at = "connecting"
  /\ at' = IF ok /\ ~session.timeout THEN "connected" ELSE "status"
  /\ timer' = [timer EXCEPT !.connect = FALSE, !.connectContext = FALSE]
  /\ UNCHANGED <<finite, session, promises, stream, ops, lost, settling, sem, slot, driver>>

ConnectSucceeds == OnConnect(TRUE) /\ UNCHANGED used
ConnectFails == OnConnect(FALSE) /\ Fault
ConnectCancelled == ~(timer.connectContext /\ ~driver.stopped) /\ OnConnect(FALSE) /\ UNCHANGED used

(* OnConnect, its second section, the promise of Reconnect, the start       *)
(* request and the first read.                                              *)
OnConnected ==
  /\ at = "connected"
  /\ at' = "reading"
  /\ stream' = [NoStream EXCEPT !.up = TRUE, !.cancelled = driver.stopped]
  /\ session' = [session EXCEPT !.connection = "ATTACHING"]
  /\ promises' = [promises EXCEPT !.reconnect = IF @ = "waiting" THEN "none" ELSE @]
  /\ timer' = [timer EXCEPT !.start = finite]
  /\ UNCHANGED <<finite, ops, lost, settling, sem, slot, driver, used>>

(* OnRead with an error: HandleSessionDetach.                               *)
OnReadError ==
  /\ at = "reading"
  /\ at' = "status"
  /\ session' = [session EXCEPT !.state = IF @ = "ATTACHED" THEN "DETACHED" ELSE @]
  /\ timer' = [timer EXCEPT !.start = FALSE, !.ping = "off"]
  /\ UNCHANGED <<finite, promises, stream, ops, lost, settling, sem, slot, driver>>

StreamBreaks == OnReadError /\ Fault
StreamCancelled == stream.cancelled /\ OnReadError /\ UNCHANGED used

(* A response arrives: the server has read the start request and has not    *)
(* fallen silent.                                                           *)
Responds == at = "reading" /\ ~stream.silent

(* Mutant: a close that came while there was no connection is not sent.     *)
NoDelayedClose == FALSE

(* SessionAttached sends the delayed close request.                         *)
DelayedClose == promises.closed # "none"

(* Mutant: the requests that were sent stay in PendingRequests.             *)
KeptPending == ops.pending

(* PendingRequests after SessionAttached has sent them.                     *)
PendingAfterSend == {}

(* Mutant: the timer is created with the session, not with a connection.    *)
PingOnce == IF finite /\ ~session.known THEN "created" ELSE timer.ping

(* kSessionStarted creates the ping timer unless there is one.              *)
PingAfterStart == IF finite /\ timer.ping = "off" THEN "created" ELSE timer.ping

(* kSessionStarted and SessionAttached, under the lock.                     *)
SessionStarted ==
  /\ Responds /\ ~stream.started /\ slot.alive
  /\ at' = "announcing"
  /\ session' = [session EXCEPT !.known = TRUE, !.state = "ATTACHED",
                                !.connection = "CONNECTED", !.deadline = "none"]
  /\ promises' = [promises EXCEPT !.session = IF @ = "waiting" THEN "taken" ELSE @]
  /\ stream' = [stream EXCEPT !.started = TRUE, !.stopSent = DelayedClose]
  /\ timer' = [timer EXCEPT !.start = FALSE, !.ping = PingAfterStart]
  /\ sem' = IF session.stopping THEN sem ELSE Reattach(sem)
  /\ slot' = Unplugged(slot)
  /\ ops' = IF session.stopping THEN ops
            ELSE [ops EXCEPT !.sent = @ \cup ops.pending, !.pending = PendingAfterSend]
  /\ UNCHANGED <<finite, lost, settling, driver, used>>

(* kSessionStarted after the lock: the user gets the session, the ping      *)
(* timer is scheduled, the next read begins.                                *)
Announced ==
  /\ at = "announcing"
  /\ at' = "reading"
  /\ promises' = [promises EXCEPT !.session = IF @ = "taken" THEN "ok" ELSE @]
  /\ timer' = [timer EXCEPT !.ping = IF @ = "created" THEN "armed" ELSE @]
  /\ UNCHANGED <<finite, session, stream, ops, lost, settling, sem, slot, driver, used>>

(* kPong and the results of describe, create, update and delete.  A watch   *)
(* that was added stays among the sent requests, without its promise.       *)
OpResult(o, watchAdded) ==
  /\ Responds
  /\ o \in ops.sent \ ops.watching
  /\ watchAdded => o \in Watches
  /\ ops' = [ops EXCEPT !.answers[o] = @ + 1,
                        !.sent = IF watchAdded THEN @ ELSE @ \ {o},
                        !.watching = IF watchAdded THEN @ \cup {o} ELSE @]
  /\ UNCHANGED <<at, finite, session, promises, timer, stream, lost, settling, sem, slot, driver, used>>

(* kDescribeSemaphoreChanged.                                               *)
WatchFires(o) ==
  /\ Responds
  /\ o \in ops.watching
  /\ ops' = [ops EXCEPT !.changed[o] = @ + 1, !.sent = @ \ {o}, !.watching = @ \ {o}]
  /\ UNCHANGED <<at, finite, session, promises, timer, stream, lost, settling, sem, slot, driver, used>>

(* kPong for the ping of the timer.                                         *)
SelfPong ==
  /\ Responds /\ timer.pinged
  /\ timer' = [timer EXCEPT !.pinged = FALSE]
  /\ UNCHANGED <<at, finite, session, promises, stream, ops, lost, settling, sem, slot, driver, used>>

(* kAcquireSemaphorePending, kAcquireSemaphoreResult and                    *)
(* kReleaseSemaphoreResult.                                                 *)
SemaphoreReply ==
  /\ Responds /\ stream.started /\ slot.replies # <<>>
  /\ LET r == Head(slot.replies)
     IN sem' = IF r.type = "pending" THEN ProcessPending(sem, r.op, IsWriteAllowed)
                                     ELSE ProcessResult(sem, r.op, r.value, IsWriteAllowed)
  /\ slot' = [slot EXCEPT !.replies = Tail(@)]
  /\ UNCHANGED <<at, finite, session, promises, timer, stream, ops, lost, settling, driver, used>>

(* Mutant: a failure that is not fatal leaves the session attached.         *)
NotDetached(fatal) == IF fatal /\ session.known THEN "EXPIRED" ELSE session.state

(* SessionState after kFailure.                                             *)
StateAfterFailure(fatal) ==
  IF fatal /\ session.known THEN "EXPIRED"
  ELSE IF session.state = "ATTACHED" THEN "DETACHED" ELSE session.state

(* IsStopping after kFailure.                                               *)
StopsOn(fatal) == session.stopping \/ fatal

(* kFailure.  fatal: SESSION_EXPIRED, UNAUTHORIZED or NOT_FOUND.            *)
OnFailure(fatal) ==
  /\ Responds
  /\ at' = "finishing"
  /\ session' = [session EXCEPT !.stopping = StopsOn(fatal), !.state = StateAfterFailure(fatal)]
  /\ slot' = IF fatal THEN DeadSlot ELSE slot
  /\ UNCHANGED <<finite, promises, timer, stream, ops, lost, settling, sem, driver>>

ServerFails(fatal) == OnFailure(fatal) /\ Fault
SessionRefused == ~slot.alive /\ OnFailure(TRUE) /\ UNCHANGED used

(* kSessionStopped, the answer to session_stop.                             *)
SessionStopped ==
  /\ Responds /\ stream.stopSent
  /\ at' = "finishing"
  /\ session' = [session EXCEPT !.stopping = TRUE,
                                !.state = IF session.known THEN "EXPIRED" ELSE @]
  /\ promises' = [promises EXCEPT !.closed = IF @ = "none" THEN "waiting" ELSE @]
  /\ slot' = DeadSlot
  /\ UNCHANGED <<finite, timer, stream, ops, lost, settling, sem, driver, used>>

OnFinish ==
  /\ at = "finishing"
  /\ at' = "status"
  /\ UNCHANGED <<finite, session, promises, timer, stream, ops, lost, settling, sem, slot, driver, used>>

(* OnProcessorStatus decides whether the session goes on.                   *)
GivesUp ==
  \/ session.stopping
  \/ promises.session = "waiting"
  \/ session.timeout
  \/ session.deadline = "passed"

(* TakeSessionLostCallbacksLocked.                                          *)
TakenCallbacks == IF lost.notified THEN {} ELSE {l \in Subs : lost.at[l] = "registered"}

(* The requests OnProcessorStatus fails.                                    *)
FailedRequests(stopped) == IF stopped THEN ops.sent \cup ops.pending ELSE ops.sent

(* SessionState of a session that stops.                                    *)
StateAtStop(timeout) == IF session.known /\ timeout THEN "EXPIRED" ELSE session.state

(* Processor.Reset().                                                       *)
ResetProcessor == NoStream

(* OnProcessorStatus under the lock, when it gives up.                      *)
StopSession ==
  /\ at = "status" /\ GivesUp
  /\ at' = "settling"
  /\ settling' = [stopped |-> TRUE, session |-> promises.session = "waiting",
                  simple |-> FailedRequests(TRUE), aborted |-> {}, failed |-> OpenOps(sem),
                  lost |-> TakenCallbacks]
  /\ LET expires == ~session.stopping /\ promises.session # "waiting"
         timeout == session.timeout \/ expires
     IN session' = [session EXCEPT
          !.stopping = TRUE, !.connection = "STOPPED", !.timeout = timeout,
          !.state = StateAtStop(timeout)]
  /\ promises' = [promises EXCEPT
       !.session = IF @ = "waiting" THEN "taken" ELSE @,
       !.closed = IF @ = "none" THEN "waiting" ELSE @,
       !.reconnect = IF @ = "waiting" THEN "dropped" ELSE @]
  /\ lost' = [lost EXCEPT !.notified = TRUE,
                          !.at = [l \in Subs |-> IF l \in TakenCallbacks THEN "taken" ELSE @[l]]]
  /\ ops' = [ops EXCEPT !.sent = {}, !.pending = {}]
  /\ sem' = Cleared(sem)
  /\ stream' = ResetProcessor
  /\ timer' = [timer EXCEPT !.pinged = FALSE]
  /\ UNCHANGED <<finite, slot, driver, used>>

(* OnProcessorStatus under the lock, when the session goes on.              *)
KeepSession ==
  /\ at = "status" /\ ~GivesUp
  /\ at' = "settling"
  /\ settling' = [NoSettling EXCEPT !.simple = FailedRequests(FALSE), !.aborted = LostOps(sem)]
  /\ session' = [session EXCEPT
       !.connection = "DISCONNECTED",
       !.deadline = IF @ = "none" THEN "set" ELSE @]
  /\ ops' = [ops EXCEPT !.sent = {}]
  /\ sem' = Disconnected(sem)
  /\ stream' = ResetProcessor
  /\ timer' = [timer EXCEPT !.pinged = FALSE]
  /\ UNCHANGED <<finite, promises, lost, slot, driver, used>>

(* OnProcessorStatus after the lock: the promises and callbacks it took,    *)
(* and the sleep before the next attempt.                                   *)
Settle ==
  /\ at = "settling"
  /\ at' = IF settling.stopped THEN "stopped" ELSE "sleeping"
  /\ promises' = [promises EXCEPT !.session = IF settling.session THEN "failed" ELSE @,
                                  !.closed = IF settling.stopped THEN "done" ELSE @]
  /\ ops' = [ops EXCEPT
       !.answers = [o \in Ops |-> IF o \in settling.simple \ ops.watching THEN @[o] + 1 ELSE @[o]],
       !.changed = [o \in Ops |-> IF o \in settling.simple \cap ops.watching THEN @[o] + 1 ELSE @[o]],
       !.watching = @ \ settling.simple]
  /\ lost' = [lost EXCEPT
       !.at = [l \in Subs |-> IF l \in settling.lost THEN "called" ELSE @[l]],
       !.calls = [l \in Subs |-> IF l \in settling.lost THEN @[l] + 1 ELSE @[l]]]
  /\ sem' = Answer(Answer(sem, settling.aborted, "aborted"), settling.failed, "failed")
  /\ timer' = [timer EXCEPT !.sleep = ~settling.stopped]
  /\ settling' = NoSettling
  /\ UNCHANGED <<finite, session, stream, slot, driver, used>>

(* OnSleepFinished.                                                         *)
OnSleepFinished ==
  /\ at = "sleeping"
  /\ timer' = [timer EXCEPT !.sleep = FALSE]
  /\ IF session.stopping
       THEN at' = "status" /\ UNCHANGED session
       ELSE at' = "connect" /\ session' = [session EXCEPT !.connection = "CONNECTING"]
  /\ UNCHANGED <<finite, promises, stream, ops, lost, settling, sem, slot, driver, used>>

-----------------------------------------------------------------------------
(* The timers.  A timer whose context is no longer the current one does     *)
(* nothing and is left out, and so is a self ping timer that finds the      *)
(* session busy and waits again.                                            *)

OnConnectTimeout ==
  /\ timer.connect
  /\ timer' = [timer EXCEPT !.connect = FALSE, !.connectContext = FALSE]
  /\ session' = [session EXCEPT !.timeout = TRUE]
  /\ UNCHANGED <<at, finite, promises, stream, ops, lost, settling, sem, slot, driver, used>>

(* OnSessionStartTimeout ends the read that waits for the answer.           *)
CancelLateStart == CancelStream

OnSessionStartTimeout ==
  /\ timer.start
  /\ timer' = [timer EXCEPT !.start = FALSE]
  /\ session' = [session EXCEPT !.timeout = TRUE]
  /\ CancelLateStart
  /\ UNCHANGED <<at, finite, promises, ops, lost, settling, sem, slot, driver, used>>

(* OnSelfPingTimer, in the order of its conditions.                         *)
PingStops ==
  /\ timer.ping = "armed" /\ ~IsWriteAllowed
  /\ timer' = [timer EXCEPT !.ping = "off"]
  /\ UNCHANGED <<at, finite, session, promises, stream, ops, lost, settling, sem, slot, driver, used>>

(* Mutant: an unanswered ping is not noticed.                               *)
NeverOverdue == FALSE

(* FindSentRequest finds the last self ping.                                *)
PingOverdue == timer.pinged

PingTimesOut ==
  /\ timer.ping = "armed" /\ IsWriteAllowed /\ PingOverdue
  /\ timer' = [timer EXCEPT !.ping = "off"]
  /\ session' = [session EXCEPT !.timeout = TRUE]
  /\ CancelStream
  /\ UNCHANGED <<at, finite, promises, ops, lost, settling, sem, slot, driver, used>>

SelfPing ==
  /\ timer.ping = "armed" /\ IsWriteAllowed /\ ~timer.pinged
  /\ timer' = [timer EXCEPT !.pinged = TRUE]
  /\ UNCHANGED <<at, finite, session, promises, stream, ops, lost, settling, sem, slot, driver, used>>

(* SessionExpireDeadline goes by.                                           *)
DeadlinePasses ==
  /\ finite /\ session.deadline = "set"
  /\ session' = [session EXCEPT !.deadline = "passed"]
  /\ UNCHANGED <<at, finite, promises, timer, stream, ops, lost, settling, sem, slot, driver, used>>

-----------------------------------------------------------------------------
(* The driver.  Stopping it cancels every context, and the callback Start   *)
(* has left with SubscribeStop runs.                                        *)

DriverStops ==
  /\ ~driver.stopped
  /\ driver' = [driver EXCEPT !.stopped = TRUE]
  /\ CancelStream
  /\ UNCHANGED <<at, finite, session, promises, timer, ops, lost, settling, sem, slot, used>>

Stop ==
  /\ driver.stopped /\ ~driver.stopRan
  /\ at \notin {"new", "refused"} /\ ~(at = "connect" /\ promises.session = "waiting")
  /\ driver' = [driver EXCEPT !.stopRan = TRUE]
  /\ session' = [session EXCEPT !.stopping = TRUE]
  /\ CancelStream
  /\ UNCHANGED <<at, finite, promises, timer, ops, lost, settling, sem, slot, used>>

-----------------------------------------------------------------------------
(* The user's calls, from the answer of SessionPromise until the last copy  *)
(* of TSession is gone.                                                     *)
HasSession == promises.session = "ok" /\ ~used.dropped

(* DoClose; abort is the call of ~TImpl.                                    *)
DoClose(abort) ==
  /\ promises' = [promises EXCEPT !.closed = IF @ = "none" THEN "waiting" ELSE @]
  /\ stream' = [stream EXCEPT !.stopSent = @ \/ (promises.closed = "none" /\ IsWriteAllowed)]
  /\ session' = [session EXCEPT !.stopping = @ \/ abort]
  /\ UNCHANGED <<at, finite, timer, ops, lost, settling, sem, slot, driver>>

Close == HasSession /\ DoClose(FALSE) /\ UNCHANGED used
Drop == HasSession /\ DoClose(TRUE) /\ used' = [used EXCEPT !.dropped = TRUE]

(* DoPing, DoDescribeSemaphore, DoCreateSemaphore, DoUpdateSemaphore and    *)
(* DoDeleteSemaphore.                                                       *)
Request(o) ==
  /\ HasSession /\ o \in ops.idle
  /\ ops' = [ops EXCEPT
       !.idle = @ \ {o},
       !.answers[o] = IF IsClosed THEN @ + 1 ELSE @,
       !.sent = IF ~IsClosed /\ IsWriteAllowed THEN @ \cup {o} ELSE @,
       !.pending = IF ~IsClosed /\ ~IsWriteAllowed THEN @ \cup {o} ELSE @]
  /\ UNCHANGED <<at, finite, session, promises, timer, stream, lost, settling, sem, slot, driver, used>>

(* DoAcquireSemaphore and DoReleaseSemaphore.                               *)
SemaphoreCall(o) ==
  /\ HasSession /\ o \in ops.idle
  /\ ops' = [ops EXCEPT !.idle = @ \ {o}]
  /\ sem' = IF IsClosed THEN Answer(sem, {o}, "failed") ELSE EnqueueOp(sem, o, IsWriteAllowed)
  /\ UNCHANGED <<at, finite, session, promises, timer, stream, lost, settling, slot, driver, used>>

DoReconnect ==
  /\ HasSession /\ used.reconnects < MaxReconnects
  /\ used' = [used EXCEPT !.reconnects = @ + 1]
  /\ CancelStream
  /\ promises' = [promises EXCEPT !.reconnect = IF IsClosed THEN @ ELSE "waiting"]
  /\ UNCHANGED <<at, finite, session, timer, ops, lost, settling, sem, slot, driver>>

(* Mutant: only an expired session is taken for lost.                       *)
OnlyExpired == session.state = "EXPIRED"

(* DoSubscribeSessionLost finds the session lost or about to be.            *)
AlreadyLost ==
  lost.notified \/ IsClosed \/ session.state = "EXPIRED" \/ session.connection = "STOPPED"

(* DoSubscribeSessionLost calls back at once when the session is lost.      *)
Subscribe(l) ==
  /\ HasSession /\ lost.at[l] = "new"
  /\ lost' = IF AlreadyLost
               THEN [lost EXCEPT !.at[l] = "called", !.calls[l] = @ + 1]
               ELSE [lost EXCEPT !.at[l] = "registered"]
  /\ UNCHANGED <<at, finite, session, promises, timer, stream, ops, settling, sem, slot, driver, used>>

(* DoUnsubscribeSessionLost.                                                *)
Unsubscribe(l) ==
  /\ lost.at[l] = "registered"
  /\ lost' = [lost EXCEPT !.at[l] = "dropped"]
  /\ UNCHANGED <<at, finite, session, promises, timer, stream, ops, settling, sem, slot, driver, used>>

-----------------------------------------------------------------------------
(* The server (external).                                                   *)

(* It stops answering on this connection and does not close it.  Only with  *)
(* a finite Timeout does the session look for that: under TDuration::Max it *)
(* would wait for such a server until the user reconnects or closes it, and *)
(* what is checked assumes that the server does answer then.                *)
ServerHangs ==
  /\ Responds /\ finite /\ Fault
  /\ stream' = [stream EXCEPT !.silent = TRUE]
  /\ UNCHANGED <<at, finite, session, promises, timer, ops, lost, settling, sem, slot, driver>>

(* It gives up a session it has no connection with.                         *)
ServerExpires ==
  /\ session.known /\ session.state # "ATTACHED" /\ slot.alive /\ Fault
  /\ slot' = DeadSlot
  /\ UNCHANGED <<at, finite, session, promises, timer, stream, ops, lost, settling, sem, driver>>

ServeRequest ==
  /\ slot.alive /\ sem.requests # <<>>
  /\ slot' \in Serve(slot, Head(sem.requests))
  /\ sem' = [sem EXCEPT !.requests = Tail(@)]
  /\ UNCHANGED <<at, finite, session, promises, timer, stream, ops, lost, settling, driver, used>>

(* A release is answered with an error.                                     *)
RefuseRelease ==
  /\ slot.alive /\ sem.requests # <<>> /\ Head(sem.requests) \notin Acquires /\ Fault
  /\ slot' = Refuse(slot, Head(sem.requests))
  /\ sem' = [sem EXCEPT !.requests = Tail(@)]
  /\ UNCHANGED <<at, finite, session, promises, timer, stream, ops, lost, settling, driver>>

ServeWaiter(v) ==
  /\ slot.waiter # None
  /\ slot' = Grant(slot, v)
  /\ UNCHANGED <<at, finite, session, promises, timer, stream, ops, lost, settling, sem, driver, used>>

-----------------------------------------------------------------------------
ChainStep ==
  \/ Start \/ DoConnectRequest \/ ConnectSucceeds \/ ConnectFails \/ ConnectCancelled \/ OnConnected
  \/ StreamBreaks \/ StreamCancelled \/ SessionStarted \/ Announced
  \/ \E o \in Ops : OpResult(o, FALSE) \/ OpResult(o, TRUE) \/ WatchFires(o)
  \/ SelfPong
  \/ ServerFails(TRUE) \/ ServerFails(FALSE) \/ SessionRefused \/ SessionStopped \/ OnFinish
  \/ StopSession \/ KeepSession \/ Settle \/ OnSleepFinished

TimerStep ==
  \/ OnConnectTimeout \/ OnSessionStartTimeout \/ PingStops \/ PingTimesOut \/ SelfPing
  \/ DeadlinePasses

(* The calls but those on the semaphore.                                    *)
UserStep ==
  \/ Close \/ Drop \/ DoReconnect
  \/ \E o \in Ops : Request(o)
  \/ \E l \in Subs : Subscribe(l) \/ Unsubscribe(l)

ServerStep == ServerHangs \/ ServerExpires

(* Requests and replies of the semaphore, which DistributedLock composes    *)
(* with their users.                                                        *)
SemaphoreStep ==
  \/ SemaphoreReply \/ ServeRequest \/ RefuseRelease
  \/ \E v \in {"true", "false"} : ServeWaiter(v)

SessionStep == ChainStep \/ TimerStep \/ UserStep \/ ServerStep \/ DriverStops \/ Stop

(* The session by itself, with no semaphore in use.                         *)
SessionSpec == SessionInit /\ [][SessionStep]_vars

(* The client's callbacks and timers run when they are due.  gRPC completes *)
(* what was cancelled, and without a timeout in the settings it completes   *)
(* every connection attempt.  A server that has not fallen silent answers.  *)
SessionFairness ==
  /\ WF_vars(Start) /\ WF_vars(DoConnectRequest) /\ WF_vars(ConnectCancelled) /\ WF_vars(OnConnected)
  /\ WF_vars(~finite /\ ConnectSucceeds)
  /\ WF_vars(StreamCancelled) /\ WF_vars(Announced) /\ WF_vars(OnFinish)
  /\ WF_vars(StopSession) /\ WF_vars(KeepSession) /\ WF_vars(Settle) /\ WF_vars(OnSleepFinished)
  /\ WF_vars(OnConnectTimeout) /\ WF_vars(OnSessionStartTimeout)
  /\ WF_vars(PingTimesOut) /\ WF_vars(SelfPing) /\ WF_vars(Stop)
  /\ WF_vars(SessionStarted) /\ WF_vars(SessionRefused) /\ WF_vars(SessionStopped)
  /\ \A o \in Ops : WF_vars(OpResult(o, FALSE))

FairSpec == SessionSpec /\ SessionFairness

-----------------------------------------------------------------------------
(* The values of the variables.                                             *)
TypeOK ==
  /\ at \in {"new", "refused", "connect", "connecting", "connected", "reading", "announcing",
            "finishing", "status", "settling", "sleeping", "stopped"}
  /\ session.state \in {"ATTACHED", "DETACHED", "EXPIRED"}
  /\ session.connection \in {"DISCONNECTED", "CONNECTING", "ATTACHING", "CONNECTED", "STOPPED"}
  /\ session.deadline \in {"none", "set", "passed"}
  /\ promises.session \in {"waiting", "taken", "ok", "failed"}
  /\ promises.closed \in {"none", "waiting", "done"}
  /\ promises.reconnect \in {"none", "waiting", "dropped"}
  /\ timer.ping \in {"off", "created", "armed"}
  /\ timer.ping = "created" => at = "announcing"
  /\ stream # NoStream => at \in {"reading", "announcing", "finishing", "status"}
  /\ settling # NoSettling => at = "settling"
  /\ ops.watching \subseteq Watches
  /\ {sem.lastSent, sem.lastAcked, slot.waiter} \subseteq SemOps \cup {None}

(* None of the Y_ABORT_UNLESS of the class fails: SessionAttached finds the *)
(* session detached on an attaching connection, OnProcessorStatus finds it  *)
(* not attached, there is one sleep at a time and OnSleepFinished finds it, *)
(* OnConnectTimeout finds the connection's context and OnRead its           *)
(* processor.  (Those of the semaphores are in AnsweredOnce.)               *)
NeverAborts ==
  /\ TypeOK
  /\ at = "reading" => stream.up
  /\ at = "reading" /\ ~stream.started =>
       session.state # "ATTACHED" /\ session.connection = "ATTACHING"
  /\ at = "status" => session.state # "ATTACHED"
  /\ timer.sleep <=> at = "sleeping"
  /\ timer.connect => timer.connectContext

(* A request that was started and not answered is still held: waiting to be *)
(* sent, sent, or about to be failed.  A reconnect forgets none.            *)
NothingForgotten ==
  /\ \A o \in Ops \ ops.idle :
       ops.answers[o] = 0 => o \in ops.pending \cup ops.sent \cup settling.simple
  /\ \A o \in SemOps \ ops.idle :
       sem.answers[o] = <<>> => o \in OpenOps(sem) \cup settling.aborted \cup settling.failed

(* No request is forgotten and none is answered twice, whichever of a       *)
(* result, a reconnect, a stop and a close comes first; a semaphore's reply *)
(* finds the operation it expects; a watch and a session lost callback are  *)
(* called once at most.                                                     *)
AnsweredOnce ==
  /\ NothingForgotten
  /\ \A o \in Ops : ops.answers[o] <= 1 /\ ops.changed[o] <= 1
  /\ \A o \in SemOps : Len(sem.answers[o]) <= 1
  /\ \A l \in Subs : lost.calls[l] <= 1
  /\ ~sem.broken

(* A session that has stopped owes nothing: all requests are answered, all  *)
(* watches and session lost callbacks called, the close promise set.        *)
StoppedOwesNothing ==
  at = "stopped" =>
    /\ promises.closed = "done" /\ promises.session # "taken"
    /\ \A o \in Ops \ ops.idle : ops.answers[o] = 1
    /\ \A o \in SemOps \ ops.idle : sem.answers[o] # <<>>
    /\ ops.watching = {}
    /\ \A l \in Subs : lost.at[l] \notin {"registered", "taken"}

(* While the session is attached and has a timeout, a self ping timer is on *)
(* its way that will notice a dead server, also after a reconnect that kept *)
(* or dropped the earlier timer.                                            *)
PingKeepsWatch == finite /\ IsWriteAllowed /\ ~session.timeout => timer.ping # "off"

(* An acquire that is queued on the server is one the client waits for, and *)
(* its result will come on the present connection: otherwise it would get   *)
(* the semaphore with nobody to release it.                                 *)
WaiterIsWatched ==
  /\ session.state = "ATTACHED" /\ ~session.stopping
  /\ sem.requests = <<>> /\ slot.replies = <<>> /\ slot.waiter # None
  => slot.waiter = sem.lastAcked /\ slot.here

(* Close is answered, with a silent server too, and a session that expires  *)
(* stops and tells its users.                                               *)
CloseCompletes ==
  /\ promises.closed = "waiting" ~> promises.closed = "done"
  /\ session.state = "EXPIRED" ~> at = "stopped"

(* The session's promise and every request are answered, whatever becomes   *)
(* of the connections.                                                      *)
RequestsComplete ==
  /\ at = "connect" ~> promises.session \in {"ok", "failed"}
  /\ \A o \in Ops : (o \notin ops.idle) ~> (ops.answers[o] = 1)
=============================================================================
