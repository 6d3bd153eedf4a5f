# Formal model of the YDB C++ SDK

TLA+ specifications of the stateful parts of the client library, the TLC runs
that check them on small instances, and TLAPS proofs of the main invariants for
every instance.  `PROJECT.json` maps every definition to the lines it models;
paths below are relative to the repository's `src/client` unless they say
otherwise.

Contents: [the system](#the-system), [the modules](#the-modules),
[runs](#runs), [fairness](#fairness), [proofs](#proofs),
[findings](#findings), [observations](#observations),
[limits of the model](#limits-of-the-model), [not modelled](#not-modelled).

## The system

The SDK is a client library.  A `TDriver` owns network threads, a cache of
per-database states and the gRPC channels; service clients (Table, Query, Topic,
Coordination and a dozen request/response clients) are built on it.  What makes
it hard is the same in every part: callbacks run on any network thread, objects
are kept alive by chains of `shared_ptr`/`weak_ptr` and hand-made holders, and
the server may close, move or forget anything at any time.

| part | state | operations | hard behaviour | module |
|---|---|---|---|---|
| session pool `impl/session/session_pool.*`, session state `kqp_session_common.*` | idle sessions, active counter, waiters, closed flag; state and close request of a session | get, return, delete, eviction, keep-alive, drain, server close | two critical sections per delete; return against shutdown | `SessionPool` |
| attach stream `query/impl/client_session.cpp` | processor flags, holder semaphore and owner | connect, read, cancel, finish, destroy | callback on a raw pointer against destructor | `AttachStream` |
| driver state cache `impl/internal/db_driver_state/state.cpp` | map of weak pointers, lock, condition variable | get or build, deleter, notification, periodic discovery | lock released while building; exceptions | `DriverStateTracker` |
| endpoints `impl/endpoints`, `db_driver_state/endpoint_pool.cpp` | list, two indexes, best prefix, ratio, registries, shared promise | refresh, ban, choose, link, unlink | three copies of a record | `EndpointElector` |
| bidirectional stream `library/grpc/client/grpc_client_low.h` | read side, write side, write queue, callbacks | start, read, write, half-close, finish, cancel | three completions and a cancel decide who finishes | `StreamProcessor`, `StreamCall` |
| client contexts `library/grpc/client/grpc_client_low.cpp` | tree of contexts, subscriptions, queue state | create, subscribe, cancel, forget, stop | cancel against creation and subscription | `GrpcContexts`, `GrpcStream` |
| coordination session `coordination/coordination.cpp` | connection phase, queued requests, semaphores, timers | connect, attach, detach, request, acquire, release, ping, close | a session outlives its connections | `SemaphoreOps`, `CoordinationSession` |
| distributed lock `coordination/distributed_lock.cpp` | hold, stop source, loss flag | lock, try_lock, unlock, lost session | cancelled acquire, loss while acquiring | `DistributedLock` |
| topic write session `topic/impl/write_session_impl.*` | batch, blocks, two queues, memory, tokens, sequence numbers | write, compress, send, ack, flush, close, reconnect | resend after reconnect | `WriteSession`, `WriteLog` |

How they meet: the pool's sessions are Query or Table sessions; a Query session
owns an attach stream, whose shutdown message reaches the pool as a server close;
a Table session is an object linked to an endpoint.  Every stream runs under a context of
the client in the driver's state.  `GrpcStream` composes a stream with the
contexts, `DistributedLock` a lock with its coordination session.

## The modules

Each component module is extended by an `MC...` module that gives its constants
small values, and by a `...Proofs` module where there are theorems.

### `SessionPool.tla`

One record per session object.  The thread that owns the object is a program
counter in the record (`loc`); the attach stream reader of a Query session is a
second one (`stream`).  `Service` selects the client: only Table sessions have
keep-alive, retried creation and `Drain`; only Query sessions have a stream.

| model | code |
|---|---|
| `active`, `closed`, `waiters` | `ActiveSessions_`, `Closed_`, `WaitersQueue_` |
| sessions with `loc = "pool"` | `Sessions_` |
| `mtx` | `Mtx_` while `ReturnSession` holds it |
| `state`, `closeRequested`, `needUpdate` | `State_`, `CloseRequested_`, `NeedUpdateActiveCounter_` |
| `handler` | `CloseHandler_` points to the pool |
| `server`, `reports` | ghosts: open on the server; calls of `RecordSessionClosed` |
| `GetSession`, `ReplySessionToUser` | the critical section, and what runs after it |
| `ReturnSessionRegister`, `ReturnSessionFinish` | handler registration, then eligibility and the decision |
| `CheckAndFeedWaiterNewSession`, `DeleteSession` | the two critical sections of `DeleteSession` |
| `PeriodicTask`, `CloseAndDeleteSession`, `Drain` | the timer and `TTableClient::TImpl::Drain` |
| `CreateSession*`, `InterceptStatus`, `SmartDeleter` | answers of CreateSession, status interceptor, last `shared_ptr` |
| `StreamShutdown`, `StreamBroken`, `CloseFromServer`, `OnCloseSession` | the stream thread |

A critical section of `Mtx_` is one step, except `ReturnSession`: the stream
thread reads the handler without that lock, so the order inside matters.

### `AttachStream.tla`

The gRPC read processor of one Query session, the asynchronous construction of
the session on the first message, the read loop and the semaphore
(`TSafeTSessionImplHolder`) that keeps `~TImpl` away from a running callback.
Workers share one completion queue, so two operations of a stream can complete
on two workers at once.  Atomic operations of the holder are single steps;
`Release` is two.  gRPC itself is external: an operation completes at any time,
with or without success.

### `DriverStateTracker.tla`

The entry of one key in `TDbDriverStateTracker`, threads that request and drop
the state, its deleter (which runs in the thread that drops the last owner),
discoveries and the periodic task that own the state while they run, and
`SendNotification`.  Credentials may throw up to `MaxThrows` times.  An access to
an entry that is no longer in the map is undefined behaviour: the thread goes to
`"undefined"` and nothing more is claimed of the process.

### `EndpointElector.tla`

`TEndpointElectorSafe` and `TEndpointPool`.  `Records_` is a function of the
endpoint; the sorted prefix `[0, BestK_]` is the set `best`.  `KnownEndpoints_`
and `KnownEndpointsByNodeId_` are kept as separate copies because the code
updates them separately.  When a node has several records of one priority, which
of them its entry names depends on the unstable sort: any of them.

### `StreamProcessor.tla`, `StreamCall.tla`

`TStreamRequestReadWriteProcessor`.  The variables are the class's flags, the
current item and the queue; calls of `Write` and `WritesDone` are numbered and
`answers` counts how often each callback ran.  `ops` is what gRPC owes
the processor, `finishes` how often `Stream->Finish` was called.  One critical section
of `Mutex`, with the callbacks after it, is one step.  `StreamCall` is what the
users of the class rely on: the stream connects or ends, a read that was asked
for is answered, an item is answered once, and when the stream is over nothing is
left.  `CallSpec` is the refinement: `Phase` and `ItemStatus` are the mapping.

### `GrpcContexts.tla`, `GrpcStream.tla`

The tree of `TContextImpl` under a `TGRpcClientLow`.  `held` says whether users
still point to a context; a context nobody points to is in its destructor until
`Forget`.  `Cancel` is three kinds of step: the critical section that sets the
flag and collects the children and callbacks (`cancelling`, `collected`), a step
per child, and the return.  `GrpcStream` is the conjunction with one stream:
`Start` makes a context and subscribes `Cancel` to it in separate steps,
`OnFinished` lets it go.

### `SemaphoreOps.tla`, `CoordinationSession.tla`, `DistributedLock.tla`

`SemaphoreOps` has the client's record of one semaphore (`TSemaphoreState`), the
functions on it, and the server's record (external).  `CoordinationSession` is
`TSessionContext`: one chain of callbacks (`at` is its place), three timers, the
user's calls and the driver's stop; each section under `Lock` is one step, so
`OnProcessorStatus` and `OnConnect` are several.  `settling` holds what
`OnProcessorStatus` took out under the lock and answers after it.  Requests that
are sent once (describe, create, ping, ...) share one path and are the set `Ops`.
`DistributedLock` adds a thread inside `lock`, `try_lock` and `unlock`, with waits
that give up at any time, and the session lost callback as part of the session's
step that calls it.

Assumed of the server: it reads nothing more of an older connection once it has
taken the `session_start` of a newer one; a repeated acquire that it has already
queued or granted is answered as the first one would be; a release that finds
nothing to release answers `false`.  Any release may be refused with an error, as
the mock of the unit tests does (`UnlockFailureNotifiesStopToken`); it costs a
fault and leaves the semaphore as it was (`RefuseRelease`).  A server that falls
silent is injected only with a finite `Timeout`: under `TDuration::Max` the session
has no timer to notice it, and `RequestsComplete` and `CloseCompletes` assume that
such a server answers.

### `WriteSession.tla`, `WriteLog.tla`

`w` is the object under `Lock`.  `batch`, `compressing`, `packed`, `sentPacked`,
`toSend` and `sent` are `CurrentBatch`, the blocks on the compression executor,
`PackedMessagesToSend`, `SentPackedMessage`, `OriginalMessagesToSend` and
`SentOriginalMessages`; `scheduled`/`sending` are `SendImplScheduled` and the posted
tasks.  A block has a first message, a count, and one of two sizes, which is all
that memory accounting needs.  `failing` and `restarting` count threads between
two critical sections of one callback.  `WriteLog` is the promise to the user;
`ImplementsLog` the refinement (accepted, stored and acknowledged messages, the
flush and the verdict of Close).  `Close` is two steps, and `Write`, `Flush` and
the timer go on between them.

The code has ways to fail, and the model has them too: a failed assertion, an
exception out of `SendImpl` and the use of an empty queue set `w.failed` and end
the behaviour.  `KnownFailure` describes the four of them, `NeverAborts` says that
there is no other (they are described under [observations](#observations)).  One of
them is an overlap of restarts: a thread that is on its way to restart the
connection (`failing`, `restarting`) arrives when another thread has already opened
the next one.  The history variable `overtaken` records it; after it nothing is
claimed of the log, and every other property holds up to that moment.

Assumed of the server: it drops a message whose sequence number it has, it
acknowledges a message under the sequence number it came with (`seq_no` of
`WriteAck` in `ydb_topic.proto`), which for a block of several is that of its last
message, and it says in its init response whether it knows such blocks.

## Runs

All runs end in under five minutes with two workers.

| run | instance | checks | result |
|---|---|---|---|
| `pool_query` | 2 sessions, 2 waiting callers, limit 1 | `ActiveCounterExact`, `ShutdownSeesPool`, `WithinLimit`, `ShutdownCompletes` | hold |
| `pool_table` | 3 sessions, 2 callers, limit 2, Table client | `ActiveCounterExact`, `DrainedPoolStaysEmpty` | hold |
| `pool_lost_wakeup` | limit 1 | `WaiterHasProvider` | violated, finding 1 |
| `attach_stream` | 3 workers and a destroying thread | `NoUseAfterFree`, `GrpcContract`, `DestructorReturns`, `CancelledStreamFinishes` | hold |
| `attach_stream_lost` | 2 workers | `SessionIsWatched` | violated, finding 2 |
| `driver_state` | 3 callers, one also notifies, 2 objects, 1 throw | `OneStatePerKey`, `NoUseAfterFree`, `CallsReturn` | hold |
| `driver_state_throw` | the same | `ReservationKept` | violated, finding 3 |
| `elector` | 3 addresses, nodes 0..2, 6 lists, 2 objects, 2 callers | `IndexesAgree`, `BestAreHealthy`, `DroppedAreTold`, `UpdatesComplete` | hold |
| `grpc_stream` | 2 contexts, 1 stream, 2 writes or half-closes | `FinishIsLast`, `AnsweredOnce`, `CancelReachesSubtree`, `QueueOutlivesStream`, `CallSpec`, `StopShutsDown` | hold |
| `coordination_session` | 1 watched describe, 1 lost callback, 2 faults, 1 Reconnect | `NeverAborts`, `AnsweredOnce`, `StoppedOwesNothing`, `PingKeepsWatch`, `CloseCompletes`, `RequestsComplete` | hold |
| `distributed_lock` | 2 acquires, 1 release, 1 fault, 1 Reconnect | `AnsweredOnce`, `StoppedOwesNothing`, `WaiterIsWatched`, `HeldIsOwned`, `LossIsSignalled`, `NothingLeaks` | hold |
| `write_session` | 2 messages, plain or encoded, blocks of up to 2, 1 fault | `NeverAborts`, `StoredOnceInOrder`, `MemoryAccounted`, `ImplementsLog`, `WritesComplete` | hold |

What the less obvious ones say:

* `ShutdownSeesPool` and `ShutdownCompletes`: a session the server asks to close is
  idle, handed out, being returned or evicted; the stream thread reaches it or
  its holder destroys it.
* `CancelReachesSubtree`: a context that can still be used under a cancelled parent
  is cancelled or about to be, also when it was made during the cancel, and no
  subscription sleeps on a cancelled context.  `QueueOutlivesStream`: an operation
  gRPC owes has its queue and its context, although contexts die by reference count.
* `AnsweredOnce` of the coordination session: what is sent again after a reconnect,
  what is declared aborted and what a later result settles add up to every
  open operation, once.  `WaiterIsWatched`: no acquire is left queued on the server
  with nobody to release it.
* `HeldIsOwned`, `LossIsSignalled`, `NothingLeaks`: a thread inside the lock owns
  the semaphore as long as the server has the session, is told of the loss
  and of nothing else, and a thread outside leaves nothing behind, through
  cancelled acquires and repeated requests, unless the server refused a release.
* `NeverAborts` of the write session: the originals and the blocks stay in step,
  the acknowledgement of a block of one names the front of the sent messages and
  memory is never released twice, except in the four cases of `KnownFailure`.
* `StoredOnceInOrder`: whatever is lost, repeated or compressed out of order, the
  log is the sequence of `Write` calls without gap or duplicate, and the user is
  told of each message once and in order, as long as restarts do not overlap.
* `ImplementsLog`: a true `Flush` or `Close` covers what was accepted before the call.
  The comment of `Close` promises more; see the observations.
* `WritesComplete`: what was accepted is acknowledged and the token comes back,
  unless the session is aborted or has failed.
* `MemoryAccounted`: five events change `MemoryUsage`, and none loses the user's
  right to write.

Bounds.  *Pool*: with a limit of two, three session objects and two callers there
are at once a session in use, one in the pool or on its way, one being created
and a queue; the run with liveness has a limit of one and two objects, so that an
object is free whenever a waiter is to be fed.  `QueueFactor` 1 (10 in the code)
makes the queue overflow, `BatchSize` 2 (10) makes a batch end early, `RetryLimit`
1 gives one retried and one final attempt.  *Attach stream*: at most two completions of a stream
are processed at once; a third worker shows that a further one changes nothing.
*Driver state*: one caller builds, one sleeps, one drops or notifies; two objects
allow a dying state beside a new one; one throw is enough for finding 3.
*Elector*: the six lists contain an empty one, nodes with two addresses, an
address that changes its node and endpoints without node id.  *Stream*: two
contexts are the stream's own and a parent or a sibling; two items are one being
written and one queued.  The proofs cover any number of items.  *Coordination*:
two faults are a break and a break during the recovery from it; the semaphore is left
to the second run, where one fault, two acquires and one release produce every
combination of last sent, last acknowledged, waiting and queued operation.
*Write session*: two messages, each plain or encoded as the user likes, give
a block of two, two blocks in either order of compression, an encoded message
before, behind or in an open batch; the memory limit is one message; one
fault is a break, a failed connect or describe, a fatal status, a change of partition
or a missing client context; the server already has one sequence number of the
producer.

Symmetry is used only in safety runs (`pool_table`, `distributed_lock`), over
objects no definition tells apart.  Deadlock checking is off where the system may
come to rest: a finished stream has no further step, a writer may pause, and
undefined behaviour ends a trace.

## Fairness

* Pool: a thread that is past its last wait for input goes on, an outstanding
  CreateSession is answered (it has a client timeout), and users let go of their
  sessions.  Steps that need `Mtx_` get strong fairness: the mutex is not
  handed over in order, but a thread that asks again and again gets it in the end.
  Nothing is assumed of new requests, server messages, deadlines or the timer.
* Attach stream: workers run callbacks to their end, the destructor keeps spinning;
  connecting ends, reads of a *cancelled* call complete, `Finish` completes.
* Driver state: threads inside the tracker go on and a discovery ends (an RPC with
  a deadline).  `CallsReturn` has a premise: others that build and drop the state
  for ever may starve a sleeping caller, so it speaks of runs in which clients
  eventually stop being destroyed and credentials stop throwing.
* Elector: a discovery ends and its handler runs to the end.
* Stream: gRPC completes every operation of a *cancelled* call; threads inside
  `Start`, `Cancel` and destructors go on; users let go of a cancelled context.
* Coordination: callbacks and timers run when they are due; gRPC completes what was
  cancelled; a server that has not fallen silent answers.  A silent server
  is one of the faults, and the session has to notice it by its own timers.
* Write session: weak fairness of everything that runs in the background (network,
  executor, timers, server) and of `Close` as a whole.  One condition for all of
  them is enough because nothing in the background is enabled for ever
  without changing anything.

## Proofs

TLAPS proves the following for every value of the constants, from the named
assumptions of the modules: finite sets of sessions, requests, threads or
workers, natural limits, priorities below that of a banned endpoint, and marker
values that are not members of those sets.

| theorem | statement |
|---|---|
| `SessionPoolProofs!CounterIsExact` | `ActiveSessions_` is the number of sessions that hold a slot |
| `NoAbort` | the pool's `Y_ABORT_UNLESS` conditions hold |
| `ShutdownNeverMissesPool` | a pooled session the server closes has the stream thread on its way |
| `QueryWithinLimit` | with the Query client, used and idle sessions stay within the limit |
| `CloseRecordedOnce`, `DrainIsFinal` | a close is recorded once; nothing enters a drained pool |
| `AttachStreamProofs!SessionOutlivesCallbacks` | no callback uses a freed session, and one at a time uses it |
| `StreamUsedProperly`, `ProcessorNeverAborts` | `Finish` once and not beside a read; aborts unreachable |
| `DriverStateTrackerProofs!StateOutlivesItsUsers` | no thread uses a state whose deleter has started |
| `KeyInvariance`, `ClientsShareState` | until credentials throw, the builder's entry stays in the map and one state is in use |
| `EndpointElectorProofs!IndexesInStep`, `BestIsHealthy` | the list and its indexes agree; a choice exists and is healthy if any endpoint is |
| `ObjectLinkedOnce`, `NoDropForgotten` | an object is in one registry; a dropped one was told or is about to be |
| `StreamProcessorProofs!StreamNeverAborts`, `FinishComesLast` | the processor's assertions hold; `Stream->Finish` once and after both sides |
| `CallbacksRunOnce`, `StreamWritesInOrder` | no callback runs twice; items go out in order and nothing after a half-close |
| `StreamImplementsCall` | the processor implements `StreamCall`, for any number of writes |
| `GrpcStreamProofs!CancelReaches` | a cancel reaches the whole subtree and its subscriptions |
| `QueueOutlives` | the queue is shut down after the last context and the last operation |
| `StreamOnClient` | on its client the stream is used as `StreamSpec` allows |

Type correctness is a theorem of each module.

*Pool.*  None of the properties is inductive alone.  The counter is exact only
because the flag `needUpdate` agrees with the place of the session, so `IInv` adds
for every place of the owning thread what it implies for the fields
(`SessionOK`), how the two clients differ (`ServiceOK`), that a terminal event
leaves a mark (`ReportsOK`), who holds `Mtx_` (`MutexOK`), and drain and limit.
Nearly every action changes one session; `StepTo` says what such a step must
satisfy, one lemma shows that it keeps `IInv` (with the library's facts on
cardinality of finite sets), and one lemma per action shows that the action is
such a step.  The actions on many sessions (`PeriodicTask`, `Drain`) have proofs
of their own.

*Attach stream.*  There is one right to issue the next read; it is with one
worker, with an active read, with the connect operation, or gone (`RightOK`).
Together with the processor's flags (`ProcOK`), the semaphore (`LockOK`) and what a
freed session implies (`FreedOK`: either the right is gone or the semaphore is
locked for good) this is inductive, although `Release` resets the semaphore to 0
without looking at it.

*Driver state.*  `IInv` says that a thread is among the owners of an object
exactly at the places where the code holds `strongState`; it holds with throwing
credentials too.  `KeyInv` adds, until the first throw, that the entry belongs
to the builder or to the one object that is alive or whose deleter has not locked
yet.

*Elector.*  The invariant adds that `best` is computed from the current records,
that the registries of an object are those of one node or none, and that the list
of objects to notify exists only between the refresh and the notification.  That
a non-empty list has a best endpoint is the well-foundedness of `<`.

*Stream.*  `StreamInv` has four parts: which phase allows which flags
(`Lifecycle`), which flags stand for which outstanding operation (`SidesAndOps`:
`Finish` was called exactly when both sides have ended), what the queue contains
(`QueueOrder`: increasing numbers behind the current one, the half-close last) and
who was answered (`AnswersCount`: everyone but the current, the queued and the
future items).  The refinement is shown action by action, each mapping to one
step of `StreamCall` or to a stutter.

*Contexts.*  That the queue may be shut down when the client has no children left
needs the shape of the tree: a live context has a live parent up to a root that the
client knows (`Forest`, by a rank that grows from parent to child; that a non-empty
set of live contexts has a root is the well-foundedness of `<`).  `ContextInv` adds
that users point to live contexts and that a cancel under way has collected what
it has to reach; `ContextIsHeld` connects the stream with its context.

Only model-checked: all liveness properties (fairness and `ENABLED` are outside
the proof system's reach), the coordination session, the lock and the write
session; the percentage of banned endpoints, which is a fold.

## Findings

Runs marked *violated* show where the code differs from a comment, a test or a
documented contract.  TLC's traces are short; in words:

1. `pool_lost_wakeup`: `DeleteSession` looks for a waiter and releases the slot in
   two critical sections.  A caller queued in between sees the limit reached,
   and with no other session in use nobody serves it before its deadline.
2. `attach_stream_lost`: the read callback starts the next read before it releases
   the holder; a message completed on another worker in between is dropped and
   reading stops for the life of that session.
3. `driver_state_throw`: when credentials throw, the key is erased by the handler
   and a second time by the deleter of the failed state; another caller may have
   reserved the key in between.

## Observations

Behaviours met while modelling that no run is about.  Where a definition is named,
adding it to a configuration as an invariant reproduces the trace.

Pool

* A Table session that returns from keep-alive while a caller waits is handed over
  with a counter increment and no look at the limit (`session_pool.cpp:286`): the
  callers hold one session more than `MaxActiveSessions_`
  (`SessionPool!ActiveWithinLimit`, Table client, limit 1), which the test in
  `tests/integration/sessions_pool/main.cpp:101` and the comment in `table.h:1608`
  exclude.
* At the limit `GetSession` extracts an idle session also for a caller it queues or
  turns away, and drops it; a Table session then stays open on the server.
* The broken session of a retried CreateSession has no slot and never was in the
  pool, and its deletion turns a waiter away in the branch whose comment speaks of
  sessions that were idle.

Endpoints

* An address that comes back with another node id leaves its old node entry behind
  (`endpoints.cpp:96`); after the address is gone `GetEndpoint` still returns it,
  against "Returns preferred (if presents) or best endpoint" (`endpoints.h:97`;
  `EndpointElector!ReturnsPresent`).
* The ratio of banned endpoints is a sum of rounded steps (`endpoints.cpp:184`): 7
  of 13 banned endpoints make 49 % and do not trigger the recheck
  (`HalfPessimizedIsSeen` with `MCMany`, `MCNoNodes`, `MCManyList`, `MCNoObjects`).

Streams

* `Finish` of the read-only processor (`grpc_client_low.h:699`) calls `Stream->Finish`
  without looking whether a failed read already did; the read-write processor has
  the guard.  Nothing in the SDK calls it.

Coordination

* `kFailure` does not clear `SessionStartTimeoutContext` as `HandleSessionDetach`
  does (comment at `coordination.cpp:1172`).  A start timer left by a refused attach
  can fire while the session sleeps or connects, and marks as timed out a session
  that is about to be restored; everything is still settled in the end.
* `CancelAcquire` does not look at the result of its release
  (`distributed_lock.cpp:118`), and `unlock` does not try again: when the server refuses
  the release the session keeps the semaphore, or its place in the queue.
* A `Reconnect` that waits when the session stops is never completed: its promise is
  swapped out and not set (line 981).
* In `TDistributedLock::TryBeginHold` the flag `SessionLost` and the second look at
  the session cover the same window; either alone keeps `LossIsSignalled`.

Topic writing

* A block of several messages is sent under the number of its last message
  (`write_session_impl.cpp:1983`; "Max sequence number for batch messages",
  `ydb_topic.proto:161`), and the acknowledgement, which repeats that number
  (`ydb_topic.proto:200`), is taken for the number of the first (1415, 1482): it
  matches no block, and the assertion in line 1521 fails.  Blocks of one, which is
  what the default `BatchFlushMessageCount` of 1 gives, are not affected.
* When the server does not know blocks of several, `SendBatchBlock` throws (1965)
  out of a posted task, a timer or the user's `Write`.
* Three threads may restart one connection: a failed read, a failed init write,
  which is reported through `ScheduleCallback` (1130), and the init response that
  only tells the partition (1376).  `OnReadDone` compares the generation in one critical
  section (1214) and restarts in another (1238), and `RestartImpl` does not change
  the generation.  The later one may reset the queues under a connection in
  use, whose acknowledgements then meet the assertion in line 1521; or its `Start`
  cancels a connection without `ResetForRetryImpl`, and what that carried is not
  sent again.  The thread has to be held up for a whole reconnect.
* `CancelTransactions` takes `txInfo->Lock` under `Lock` (2264), and the precommit
  callback calls `DeleteTx`, which takes `Lock`, under `txInfo->Lock` (706, 783):
  `Close` in one thread and a commit in another can wait for each other.
* `WriteEncoded` behind a batch that is not full joins it, and the assertion in line
  1803 fails.
* A `Write` concurrent with the wait of `Close` stays in `CurrentBatch`, which
  the tests for completion (2133, 2147) do not look at: `Close` returns true with a
  message that is not acknowledged, against "Return true if all writes were
  completed and acked" (`write_session.h:484`).
* `MaxInflightCount` (`write_session.h:114`) promises a limit on the number of
  unacknowledged messages; the session never looks at it.
* A `Write` in a transaction after the session was aborted leaves the commit waiting.
* `UpdateTokenInProgress` (1920) is not reset on a reconnect; when the connection that
  carried the update broke, no later connection updates its token.
* A write completion scheduled with failure during driver shutdown does not release
  its memory.

## Limits of the model

* Time is nondeterminism: any timer may fire, any deadline may pass.  The order of
  idle sessions by `TimeToTouch` and of waiters by deadline is therefore arbitrary.
* Memory order: atomics are sequentially consistent, which is the default order
  the code uses for the holder and the close handler.  `TimeToTouch_` is relaxed;
  its value is arbitrary here anyway.
* Replies to callers that run under a lock (`ClearOldWaiters`) are instantaneous; a
  continuation that calls back into the pool is not modelled (listed as a
  hazard).
* Session objects, state objects and linked objects are drawn from finite pools
  and reused after destruction.
* A callback of a stream is part of the step that calls it; what its owner calls
  next is a step of its own.
* The write session has automatic sequence numbers, deduplication and an asynchronous
  executor.

## Not modelled

* Topic reading, direct reading, the producer, deferred publications, federated
  topics and the older `persqueue` API.  They are the largest part of the stateful
  code: the read session alone is 5600 lines of partition streams, event queue,
  decompression and commits, and a model says something only with several
  partition streams at once.  The streams they run on and the abstract log they
  write to are here.
* Transactions and token updates of the write session.
* Retries (`impl/internal/retry`): one sequential loop per operation over the calls
  `SessionPool` has as actions.
* The streaming result iterators of Query and Table: one caller and one stream.
* Request dispatch, delayed tasks and the construction of the driver; its stop is
  modelled where it reaches states, contexts and sessions.
* Values, parameters, results, request/response clients, credentials parsing,
  codecs, metrics and logging keep no protocol state between calls.
* `PROJECT.json` lists every component with its status.
