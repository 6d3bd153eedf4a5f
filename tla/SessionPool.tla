---------------------------- MODULE SessionPool ----------------------------
(***************************************************************************)
(* The client-side session pool shared by the Table and the Query client:  *)
(* TSessionPool, the per-session state machine TKqpSessionCommon, the      *)
(* smart deleter that decides between pool and destruction, and what each  *)
(* client adds (keep-alive and retried creation for Table, the attach      *)
(* stream for Query).                                                      *)
(*                                                                         *)
(* Every session object is owned by one thread at a time, so the program   *)
(* counter of that thread is kept in the session as field loc.  The attach *)
(* stream reader is a second thread on the same object: field stream.      *)
(* Critical sections of Mtx_ are single steps, except ReturnSession, whose *)
(* order of handler registration and eligibility check can be observed by  *)
(* the stream reader without taking Mtx_.                                  *)
(*                                                                         *)
(* Sessions_ is ordered by TimeToTouch and the waiters by deadline.  Both  *)
(* are the sum of a clock reading and a randomised or user given interval, *)
(* so any member may come first: both are sets here.                       *)
(***************************************************************************)
EXTENDS Integers, FiniteSets

CONSTANTS
    Sessions,      \* session objects; an object is reused after destruction
    Requests,      \* callers of GetSession that can be waiting
    MaxActive,     \* MaxActiveSessions_; 0 means no limit
    QueueFactor,   \* waiters allowed per active session (10 in the code)
    MinPoolSize,   \* idle sessions protected from eviction
    BatchSize,     \* sessions one periodic run looks at (10 in the code)
    RetryLimit,    \* retries of CreateSession (Table)
    Service        \* "table" or "query"

ASSUME SessionsFinite == IsFiniteSet(Sessions)
ASSUME RequestsFinite == IsFiniteSet(Requests)
ASSUME LimitsNat == /\ MaxActive \in Nat /\ QueueFactor \in Nat
                    /\ MinPoolSize \in Nat /\ BatchSize \in Nat
                    /\ RetryLimit \in Nat
ASSUME ServiceKnown == Service \in {"table", "query"}
ASSUME FreeNotSession == "free" \notin Sessions

VARIABLES
    sess,      \* the session objects
    active,    \* ActiveSessions_
    closed,    \* Closed_
    waiters,   \* WaitersQueue_
    mtx        \* the session whose return holds Mtx_, or "free"

vars == <<sess, active, closed, waiters, mtx>>

----------------------------------------------------------------------------
\* Session objects.

States == {"S_STANDALONE", "S_IDLE", "S_BROKEN", "S_ACTIVE", "S_CLOSING"}

\* Where the owning thread stands.
\*   none       no such object
\*   creating   a CreateSession call is outstanding
\*   pool       in Sessions_
\*   checkout   chosen for a caller, ReplySessionToUser not yet run
\*   user       a shared_ptr is held by the caller or by its requests
\*   keepalive  a shared_ptr is held by the keep-alive command
\*   evict      taken out of the pool to be closed
\*   returning  MarkIdle done, before TSessionPool::ReturnSession
\*   checking   inside ReturnSession, handler registered, Mtx_ held
\*   deleting   in DeleteSession, before CheckAndFeedWaiterNewSession
\*   releasing  in DeleteSession, after it
Locs == {"none", "creating", "pool", "checkout", "user", "keepalive", "evict",
         "returning", "checking", "deleting", "releasing"}

\* The attach stream reader.
\*   off      not reading (Table sessions never read)
\*   reading  a read is outstanding
\*   loading  in CloseFromServer, before the handler is loaded
\*   closing  the pool handler was loaded, before OnCloseSession locks Mtx_
\*   owner    OnCloseSession took the session: the reader is the owner
Streams == {"off", "reading", "loading", "closing", "owner"}

Session == [loc : Locs, state : States, closeRequested : BOOLEAN,
            needUpdate : BOOLEAN, handler : BOOLEAN, stream : Streams,
            wasActive : BOOLEAN, attempt : 0..RetryLimit, server : BOOLEAN,
            reports : Nat]

\* The constructor leaves the object standalone and without a handler.
\* wasActive is the local needUpdateCounter of the clients' ReturnSession,
\* server tells whether the session exists on the server, reports counts the
\* RecordSessionClosed calls made for the object.
NewSession == [loc |-> "none", state |-> "S_STANDALONE",
               closeRequested |-> FALSE, needUpdate |-> FALSE,
               handler |-> FALSE, stream |-> "off", wasActive |-> FALSE,
               attempt |-> 0, server |-> FALSE, reports |-> 0]

\* MarkBroken and MarkAsClosing return TRUE for the first terminal event.
FirstTerminal(x) == ~x.closeRequested /\ x.state # "S_BROKEN"

MarkBroken(x) ==
    [x EXCEPT !.state = "S_BROKEN",
              !.needUpdate = @ \/ x.state = "S_ACTIVE"]

MarkAsClosing(x) ==
    IF x.closeRequested \/ x.state = "S_BROKEN" THEN x
    ELSE IF x.state = "S_IDLE" THEN [x EXCEPT !.closeRequested = TRUE]
    ELSE [x EXCEPT !.closeRequested = TRUE,
                   !.needUpdate = @ \/ x.state = "S_ACTIVE",
                   !.state = "S_CLOSING"]

\* TSessionCloseCommand::Execute: y is x after the transition.
Execute(x, y) ==
    IF FirstTerminal(x) THEN [y EXCEPT !.reports = @ + 1] ELSE y

MarkActive(x) ==
    IF x.state \in {"S_BROKEN", "S_CLOSING"} THEN x
    ELSE [x EXCEPT !.state = "S_ACTIVE", !.needUpdate = FALSE]

CanMarkIdle(x) == ~x.closeRequested /\ x.state # "S_BROKEN"

MarkIdle(x) ==
    IF CanMarkIdle(x) THEN [x EXCEPT !.state = "S_IDLE", !.needUpdate = FALSE]
    ELSE x

\* Mutant: only the state is looked at.
CanReturnToPoolIdle(x) == x.state = "S_IDLE"

CanReturnToPool(x) == x.state = "S_IDLE" /\ ~x.closeRequested

\* Destroying the object.  ~TImpl of a Query session cancels the attach
\* stream, which ends the session on the server; a Table session is ended
\* there only by an explicit DeleteSession call.
Destroyed(x) == [NewSession EXCEPT !.server = x.server /\ Service = "table"]

----------------------------------------------------------------------------
At(l) == {s \in Sessions : sess[s].loc = l}

Pool == At("pool")

\* Objects available for a new session.
Unused == {s \in Sessions : sess[s].loc = "none" /\ ~sess[s].server}

MaxWaiters == QueueFactor * MaxActive

\* Mutant: off by one.
BelowLimitPlusOne == MaxActive = 0 \/ active <= MaxActive

BelowLimit == MaxActive = 0 \/ active < MaxActive

\* ReplyNewSession: a CreateSession call is under way for this object.
Creating(n) == [NewSession EXCEPT !.loc = "creating", !.attempt = n]

\* Mutant: the slot given to a waiter is released as well.
HandOverTwice(x) == [x EXCEPT !.loc = "releasing"]

\* A waiter was given the slot of the session being deleted.
HandOver(x) == [x EXCEPT !.needUpdate = FALSE, !.loc = "releasing"]

MayRetry(x) == x.attempt < RetryLimit

\* Mutant: a drained pool takes sessions back.
ClosedIgnored == FALSE

RefusesReturns == closed

Init ==
    /\ sess = [s \in Sessions |-> NewSession]
    /\ active = 0
    /\ closed = FALSE
    /\ waiters = {}
    /\ mtx = "free"

----------------------------------------------------------------------------
\* TSessionPool.

\* The slot is taken, or the caller is queued, or it is turned away; in every
\* case a pooled session is extracted if there is one.
GetSession(c) ==
    /\ mtx = "free"
    /\ c \notin waiters
    /\ \/ /\ BelowLimit
          /\ active' = active + 1
          /\ UNCHANGED waiters
          /\ \/ \E s \in Pool :
                    sess' = [sess EXCEPT ![s] = [@ EXCEPT
                                !.loc = "checkout", !.handler = FALSE]]
             \/ /\ Pool = {}
                /\ \E s \in Unused : sess' = [sess EXCEPT ![s] = Creating(0)]
       \/ /\ ~BelowLimit
          /\ waiters' = IF Cardinality(waiters) < MaxWaiters
                        THEN waiters \cup {c} ELSE waiters
          /\ UNCHANGED active
          /\ \/ \E s \in Pool : sess' = [sess EXCEPT ![s] = Destroyed(@)]
             \/ Pool = {} /\ UNCHANGED sess
    /\ UNCHANGED <<closed, mtx>>

\* Outside the lock; the code aborts unless the session is idle.
ReplySessionToUser(s) ==
    /\ sess[s].loc = "checkout"
    /\ sess' = [sess EXCEPT ![s] = [MarkActive(@) EXCEPT
                                        !.needUpdate = TRUE, !.loc = "user"]]
    /\ UNCHANGED <<active, closed, waiters, mtx>>

\* First half of TSessionPool::ReturnSession: lock and register the handler.
ReturnSessionRegister(s) ==
    /\ sess[s].loc = "returning"
    /\ mtx = "free"
    /\ IF RefusesReturns
       THEN /\ sess' = [sess EXCEPT ![s] = [@ EXCEPT
                            !.needUpdate = sess[s].wasActive,
                            !.loc = "deleting"]]
            /\ UNCHANGED mtx
       ELSE /\ sess' = [sess EXCEPT ![s] = [@ EXCEPT
                            !.handler = TRUE, !.loc = "checking"]]
            /\ mtx' = s
    /\ UNCHANGED <<active, closed, waiters>>

\* Second half: a session that was broken or asked to close is refused,
ReturnRefused(s) ==
    /\ sess[s].loc = "checking"
    /\ ~CanReturnToPool(sess[s])
    /\ sess' = [sess EXCEPT ![s] = [@ EXCEPT
                    !.handler = FALSE, !.needUpdate = sess[s].wasActive,
                    !.loc = "deleting"]]
    /\ mtx' = "free"
    /\ UNCHANGED <<active, closed, waiters>>

\* another one goes to a waiter if there is one, together with its slot or
\* with a new one,
ReturnToWaiter(s) ==
    /\ sess[s].loc = "checking"
    /\ CanReturnToPool(sess[s])
    /\ \E c \in waiters : waiters' = waiters \ {c}
    /\ sess' = [sess EXCEPT ![s] = [@ EXCEPT
                    !.handler = FALSE, !.loc = "checkout"]]
    /\ active' = IF sess[s].wasActive THEN active ELSE active + 1
    /\ mtx' = "free"
    /\ UNCHANGED closed

\* and into Sessions_ otherwise.
ReturnToPool(s) ==
    /\ sess[s].loc = "checking"
    /\ CanReturnToPool(sess[s])
    /\ waiters = {}
    /\ sess' = [sess EXCEPT ![s] = [@ EXCEPT
                    !.needUpdate = sess[s].needUpdate /\ ~sess[s].wasActive,
                    !.loc = "pool"]]
    /\ active' = IF sess[s].wasActive THEN active - 1 ELSE active
    /\ mtx' = "free"
    /\ UNCHANGED <<closed, waiters>>

ReturnSessionFinish(s) ==
    ReturnRefused(s) \/ ReturnToWaiter(s) \/ ReturnToPool(s)

\* A waiter, if any, takes over the slot of the session being deleted; a
\* session that held no slot only turns a waiter away.
CheckAndFeedWaiterNewSession(s) ==
    /\ sess[s].loc = "deleting"
    /\ mtx = "free"
    /\ \/ /\ closed \/ waiters = {}
          /\ sess' = [sess EXCEPT ![s] = [@ EXCEPT !.loc = "releasing"]]
          /\ UNCHANGED waiters
       \/ /\ ~closed
          /\ \E c \in waiters : waiters' = waiters \ {c}
          /\ \/ /\ ~sess[s].needUpdate
                /\ sess' = [sess EXCEPT ![s] = [@ EXCEPT !.loc = "releasing"]]
             \/ /\ sess[s].needUpdate
                /\ \E t \in Unused :
                      sess' = [sess EXCEPT ![s] = HandOver(@),
                                           ![t] = Creating(0)]
    /\ UNCHANGED <<active, closed, mtx>>

\* The rest of DeleteSession: DecrementActiveCounter, the DeleteSession call of
\* the Table client, and the destructor, which waits for a stream callback that
\* is using the object unless it runs inside that very callback.
DeleteSession(s) ==
    /\ sess[s].loc = "releasing"
    /\ sess[s].stream \notin {"loading", "closing"}
    /\ \/ /\ sess[s].needUpdate
          /\ mtx = "free"
          /\ active' = active - 1
       \/ /\ ~sess[s].needUpdate
          /\ UNCHANGED active
    /\ sess' = [sess EXCEPT ![s] = NewSession]
    /\ UNCHANGED <<closed, waiters, mtx>>

ClearOldWaiters ==
    /\ mtx = "free"
    /\ \E old \in SUBSET waiters : waiters' = waiters \ old
    /\ UNCHANGED <<sess, active, closed, mtx>>

\* Idle sessions whose time has come are closed while the pool is larger than
\* MinPoolSize; the Table client touches the others.  Old waiters are rejected.
PeriodicTask ==
    /\ mtx = "free"
    /\ \E evicted, touched \in SUBSET Pool :
          /\ evicted \cap touched = {}
          /\ Cardinality(evicted) + Cardinality(touched) <= BatchSize
          /\ evicted = {} \/ Cardinality(Pool \ evicted) >= MinPoolSize
          /\ touched = {} \/ Service = "table"
          /\ sess' = [s \in Sessions |->
                IF s \in evicted
                THEN [sess[s] EXCEPT !.loc = "evict", !.handler = FALSE]
                ELSE IF s \in touched
                THEN [sess[s] EXCEPT !.loc = "keepalive", !.handler = FALSE]
                ELSE sess[s]]
    /\ \E old \in SUBSET waiters : waiters' = waiters \ old
    /\ UNCHANGED <<active, closed, mtx>>

\* CloseAndDeleteSession, after PoolIdleTimeout or the reason of the stream
\* was recorded; the code aborts unless the session is idle.
CloseAndDeleteSession(s) ==
    /\ sess[s].loc = "evict"
    /\ sess' = [sess EXCEPT ![s] = [Execute(@, MarkBroken(@)) EXCEPT
                                        !.loc = "deleting"]]
    /\ UNCHANGED <<active, closed, waiters, mtx>>

\* Drain(cb, true) and the DeleteSession calls of the Table client.
Drain ==
    /\ Service = "table"
    /\ mtx = "free"
    /\ closed' = TRUE
    /\ waiters' = {}
    /\ sess' = [s \in Sessions |-> IF s \in Pool THEN NewSession ELSE sess[s]]
    /\ UNCHANGED <<active, mtx>>

----------------------------------------------------------------------------
\* The clients.

CreateSessionSucceeded(s) ==
    /\ sess[s].loc = "creating"
    /\ sess' = [sess EXCEPT ![s] =
            [MarkActive(NewSession) EXCEPT
                !.loc = "user", !.needUpdate = TRUE, !.server = TRUE,
                !.stream = IF Service = "query" THEN "reading" ELSE "off"]]
    /\ UNCHANGED <<active, closed, waiters, mtx>>

\* The caller receives the error together with a broken session, which still
\* holds the slot.
CreateSessionFailed(s) ==
    /\ sess[s].loc = "creating"
    /\ sess' = [sess EXCEPT ![s] =
            [MarkBroken(NewSession) EXCEPT !.loc = "user", !.needUpdate = TRUE]]
    /\ UNCHANGED <<active, closed, waiters, mtx>>

\* GetSessionInspector: a retriable failure starts another call and drops the
\* broken session of this one.
CreateSessionRetried(s) ==
    /\ Service = "table"
    /\ sess[s].loc = "creating"
    /\ MayRetry(sess[s])
    /\ \E t \in Unused :
          sess' = [sess EXCEPT
              ![t] = Creating(sess[s].attempt + 1),
              ![s] = [MarkBroken(NewSession) EXCEPT !.loc = "deleting"]]
    /\ UNCHANGED <<active, closed, waiters, mtx>>

\* The answer to a call on the session carries a status that ends it.
InterceptStatus(s) ==
    /\ sess[s].loc \in {"user", "keepalive"}
    /\ \/ sess' = [sess EXCEPT ![s] = Execute(@, MarkBroken(@))]
       \/ sess' = [sess EXCEPT ![s] = Execute(@, MarkAsClosing(@))]
    /\ UNCHANGED <<active, closed, waiters, mtx>>

\* The last shared_ptr is gone: the smart deleter and the client's
\* ReturnSession up to the call of the pool.  The Table client also refuses a
\* session that the balancer wants to move.
SmartDeleter(s) ==
    /\ sess[s].loc \in {"user", "keepalive"}
    /\ \/ /\ sess[s].state \in {"S_IDLE", "S_ACTIVE"}
          /\ Service = "table" \/ CanMarkIdle(sess[s])
          /\ sess' = [sess EXCEPT ![s] =
                [MarkIdle(@) EXCEPT !.wasActive = sess[s].needUpdate,
                                    !.loc = "returning"]]
       \/ /\ \/ sess[s].state \notin {"S_IDLE", "S_ACTIVE"}
             \/ Service = "table" \/ ~CanMarkIdle(sess[s])
          /\ sess' = [sess EXCEPT ![s] = [@ EXCEPT !.loc = "deleting"]]
    /\ UNCHANGED <<active, closed, waiters, mtx>>

----------------------------------------------------------------------------
\* The attach stream reader of a Query session.

\* A session or node shutdown message.
StreamShutdown(s) ==
    /\ sess[s].stream = "reading"
    /\ sess' = [sess EXCEPT ![s] = [Execute(@, MarkAsClosing(@)) EXCEPT
                                        !.stream = "loading"]]
    /\ UNCHANGED <<active, closed, waiters, mtx>>

\* The stream ends or fails: the session is not marked.
StreamBroken(s) ==
    /\ sess[s].stream = "reading"
    /\ sess' = [sess EXCEPT ![s] = [@ EXCEPT !.stream = "loading"]]
    /\ UNCHANGED <<active, closed, waiters, mtx>>

CloseFromServer(s) ==
    /\ sess[s].stream = "loading"
    /\ sess' = [sess EXCEPT ![s] = [@ EXCEPT !.stream =
                    IF sess[s].handler THEN "closing" ELSE "off"]]
    /\ UNCHANGED <<active, closed, waiters, mtx>>

\* The pool gives the session up if it still has it.
OnCloseSession(s) ==
    /\ sess[s].stream = "closing"
    /\ mtx = "free"
    /\ sess' = [sess EXCEPT ![s] =
                  IF sess[s].loc = "pool"
                  THEN [@ EXCEPT !.loc = "evict", !.stream = "owner"]
                  ELSE [@ EXCEPT !.stream = "off"]]
    /\ UNCHANGED <<active, closed, waiters, mtx>>

----------------------------------------------------------------------------
Next ==
    \/ \E c \in Requests : GetSession(c)
    \/ ClearOldWaiters
    \/ PeriodicTask
    \/ Drain
    \/ \E s \in Sessions :
          \/ ReplySessionToUser(s)
          \/ ReturnSessionRegister(s)
          \/ ReturnSessionFinish(s)
          \/ CheckAndFeedWaiterNewSession(s)
          \/ DeleteSession(s)
          \/ CloseAndDeleteSession(s)
          \/ CreateSessionSucceeded(s)
          \/ CreateSessionFailed(s)
          \/ CreateSessionRetried(s)
          \/ InterceptStatus(s)
          \/ SmartDeleter(s)
          \/ StreamShutdown(s)
          \/ StreamBroken(s)
          \/ CloseFromServer(s)
          \/ OnCloseSession(s)

Spec == Init /\ [][Next]_vars

\* Threads run: every step of a thread that is past its last wait for input is
\* taken, an outstanding call is answered, and callers let go of their
\* sessions.  Mtx_ is acquired by a thread that keeps asking for it.  Nothing
\* is assumed of new requests, server messages, deadlines or the timer.
ThreadFairness(s) ==
    /\ WF_vars(ReplySessionToUser(s))
    /\ SF_vars(ReturnSessionRegister(s))
    /\ WF_vars(ReturnSessionFinish(s))
    /\ SF_vars(CheckAndFeedWaiterNewSession(s))
    /\ SF_vars(DeleteSession(s))
    /\ WF_vars(CloseAndDeleteSession(s))
    /\ WF_vars(CreateSessionSucceeded(s) \/ CreateSessionFailed(s))
    /\ WF_vars(SmartDeleter(s))
    /\ WF_vars(CloseFromServer(s))
    /\ SF_vars(OnCloseSession(s))

FairSpec == Spec /\ \A s \in Sessions : ThreadFairness(s)

----------------------------------------------------------------------------
\* Properties.

\* Every variable has its type.
TypeOK ==
    /\ sess \in [Sessions -> Session]
    /\ active \in Int
    /\ closed \in BOOLEAN
    /\ waiters \subseteq Requests
    /\ mtx \in Sessions \cup {"free"}

\* Sessions that occupy one of the MaxActive slots.
HoldsSlot(x) ==
    \/ x.loc \in {"creating", "checkout"}
    \/ x.loc \in {"user", "deleting", "releasing"} /\ x.needUpdate
    \/ x.loc \in {"returning", "checking"} /\ x.wasActive

SlotHolders == {s \in Sessions : HoldsSlot(sess[s])}

\* ActiveSessions_ is the number of sessions that hold a slot, whatever mix of
\* returns, hand-overs, failed creations, evictions and shutdowns happened: no
\* slot leaks and none is released twice.
ActiveCounterExact == active = Cardinality(SlotHolders)

\* What the Y_ABORT_UNLESS lines of the pool require: a session about to be
\* handed out or evicted is idle, and a slot to be given back was counted.
AssertsHold ==
    \A s \in Sessions :
        /\ sess[s].loc \in {"checkout", "evict"} => sess[s].state = "S_IDLE"
        /\ sess[s].loc = "releasing" /\ sess[s].needUpdate => active > 0
        /\ sess[s].loc = "checking" /\ sess[s].wasActive => active > 0

\* Shutdown never misses the pool: a pooled session is idle, and when the
\* server asked to close it the stream reader is already on its way to take it
\* out.  (UpdateServerCloseHandler comes before CanReturnToPool.)
ShutdownSeesPool ==
    \A s \in Pool :
        /\ sess[s].state = "S_IDLE" /\ sess[s].handler
        /\ sess[s].closeRequested => sess[s].stream \in {"loading", "closing"}

\* With the Query client, sessions in use and idle sessions together never
\* exceed the limit on active sessions.
WithinLimit == MaxActive = 0 \/ active + Cardinality(Pool) <= MaxActive

\* The close of a session is recorded at most once: "Count each session once;
\* the first close reason wins."
ClosedOnce == \A s \in Sessions : sess[s].reports <= 1

\* "Sessions returned to the session pool after this call will be closed":
\* nothing enters a drained pool.
DrainedPoolStaysEmpty == closed => Pool = {}

\* A session the server asked to close is destroyed, wherever the request
\* found it.
ShutdownCompletes ==
    \A s \in Sessions : sess[s].closeRequested ~> sess[s].loc = "none"

\* GetActiveSessionCount() <= GetActiveSessionsLimit().
ActiveWithinLimit == MaxActive = 0 \/ active <= MaxActive

\* "But we must feed waiters if we have some otherwise deadlock is possible":
\* while someone waits there is a session whose end will serve it.
WaiterHasProvider == waiters # {} => active > 0
=============================================================================
