---------------------------- MODULE AttachStream ----------------------------
(***************************************************************************)
(* The attach stream of one Query session: the gRPC read processor, the    *)
(* asynchronous construction of the session on its first message, the read *)
(* loop, and TSafeTSessionImplHolder, the hand-made lock that keeps        *)
(* ~TImpl from running under a read callback.                              *)
(*                                                                         *)
(* All worker threads pull from one completion queue (the driver leaves    *)
(* useCompletionQueuePerThread off), so two operations of the stream can   *)
(* complete on two threads at once.  Atomic operations of the holder and   *)
(* critical sections of the processor's Mutex are single steps.            *)
(***************************************************************************)
EXTENDS Naturals, FiniteSets

CONSTANTS
    Workers,    \* threads that pull the completion queue
    Destroyer   \* the thread that drops the session outside a callback

ASSUME WorkersFinite == IsFiniteSet(Workers)
ASSUME ThreadsDistinct == Destroyer \notin Workers /\ "none" \notin Workers

VARIABLES
    proc,      \* the flags of TStreamRequestReadProcessor
    ops,       \* gRPC operations in flight
    finishes,  \* calls of Stream->Finish so far
    pc,        \* what each worker is doing
    impl,      \* the session object: "none", "alive" or "freed"
    sem,       \* Semaphore of the holder
    owner,     \* OwnerThread of the holder
    dtor,      \* ~TImpl on the Destroyer thread
    told       \* ghost: the end of the session was handled by a callback

vars == <<proc, ops, finishes, pc, impl, sem, owner, dtor, told>>

----------------------------------------------------------------------------
\* callback is the connect callback not yet called, readCb says which read
\* callback is stored: the one of MakeImplAsync or the one of StartAsyncRead.
Proc == [callback : BOOLEAN, readCb : {"none", "make", "session"},
         started : BOOLEAN, readActive : BOOLEAN, readFinished : BOOLEAN,
         finished : BOOLEAN, cancelled : BOOLEAN]

\* A worker's place:
\*   idle     waiting on the completion queue
\*   connect  in the connect callback
\*   make     in the read callback of MakeImplAsync
\*   build    in the constructor of TImpl, StartAsyncRead comes next
\*   publish  after it, the promise of the creation is about to be set
\*   try      in the read callback of the session, before TrySharedOwning
\*   owning   Semaphore was 0, OwnerThread not yet stored
\*   own      the callback uses the session
\*   next     the message is handled, StartAsyncRead comes next
\*   release  before Release
\*   unlock   in Release, between its two stores
Places == {"idle", "connect", "make", "build", "publish", "try", "owning",
           "own", "next", "release", "unlock"}

\* What the callback was called with: a session state without news, one that
\* announces a shutdown, an unsuccessful first state, or a failed read.
Events == {"state", "shutdown", "refused", "error"}

At(p, e) == [at |-> p, ev |-> e]
Idle == At("idle", "state")

Init ==
    /\ proc = [callback |-> TRUE, readCb |-> "none", started |-> FALSE,
               readActive |-> FALSE, readFinished |-> FALSE,
               finished |-> FALSE, cancelled |-> FALSE]
    /\ ops = {"start"}
    /\ finishes = 0
    /\ pc = [t \in Workers |-> Idle]
    /\ impl = "none"
    /\ sem = 0
    /\ owner = "none"
    /\ dtor = "none"
    /\ told = FALSE

----------------------------------------------------------------------------
\* TStreamRequestReadProcessor.

Finish == /\ ops' = ops \cup {"finish"} /\ finishes' = finishes + 1

NoFinish == UNCHANGED <<ops, finishes>>

\* Mutant: a cancelled stream is finished although a read is in flight.
CancelEagerly == proc.started /\ ~proc.readFinished

\* Mutant: Cancel leaves an idle stream alone.
CancelLazily == FALSE

\* Cancel has to finish the stream itself.
CancelFinishes == proc.started /\ ~proc.readFinished /\ ~proc.readActive

Cancel ==
    /\ proc' = [proc EXCEPT !.cancelled = TRUE,
                            !.readFinished = @ \/ CancelFinishes]
    /\ IF CancelFinishes THEN Finish ELSE NoFinish

\* Read on a stream that is not finished.
StartRead(cb) ==
    /\ ~proc.finished
    /\ proc' = [proc EXCEPT !.readActive = TRUE, !.readCb = cb]
    /\ ops' = IF proc.readFinished THEN ops ELSE ops \cup {"read"}
    /\ UNCHANGED finishes

\* Read on a finished stream: the callback is called in place.
ReadOfFinished ==
    /\ proc.finished
    /\ UNCHANGED <<proc, ops, finishes>>

OnStartDone(t) ==
    /\ "start" \in ops
    /\ pc[t].at = "idle"
    /\ ~proc.cancelled
    /\ proc' = [proc EXCEPT !.started = TRUE, !.callback = FALSE]
    /\ ops' = ops \ {"start"}
    /\ pc' = [pc EXCEPT ![t] = At("connect", "state")]
    /\ UNCHANGED <<finishes, impl, sem, owner, dtor, told>>

\* Connecting failed or was cancelled meanwhile.
OnStartFailed(t) ==
    /\ "start" \in ops
    /\ pc[t].at = "idle"
    /\ proc' = [proc EXCEPT !.started = TRUE, !.readFinished = TRUE]
    /\ ops' = (ops \ {"start"}) \cup {"finish"}
    /\ finishes' = finishes + 1
    /\ UNCHANGED <<pc, impl, sem, owner, dtor, told>>

\* The callback of a read: the one stored last.
ReadCallback(e) ==
    IF proc.readCb = "make" THEN At("make", e) ELSE At("try", e)

\* A read completes with a message; when the stream was cancelled meanwhile the
\* message is still passed on.
OnReadDone(t, e) ==
    /\ "read" \in ops
    /\ pc[t].at = "idle"
    /\ e = "refused" => proc.readCb = "make"
    /\ proc' = [proc EXCEPT !.readActive = FALSE, !.readCb = "none",
                            !.readFinished = @ \/ proc.cancelled]
    /\ ops' = (ops \ {"read"}) \cup (IF proc.cancelled THEN {"finish"} ELSE {})
    /\ finishes' = IF proc.cancelled THEN finishes + 1 ELSE finishes
    /\ pc' = [pc EXCEPT ![t] = ReadCallback(e)]
    /\ UNCHANGED <<impl, sem, owner, dtor, told>>

\* A read completes without a message: the callback waits for OnFinished.
OnReadFailed(t) ==
    /\ "read" \in ops
    /\ pc[t].at = "idle"
    /\ proc' = [proc EXCEPT !.readFinished = TRUE]
    /\ ops' = (ops \ {"read"}) \cup {"finish"}
    /\ finishes' = finishes + 1
    /\ UNCHANGED <<pc, impl, sem, owner, dtor, told>>

\* A connect callback that was never called ends the attempt; nothing but the
\* creation's result depends on it.
OnFinished(t) ==
    /\ "finish" \in ops
    /\ pc[t].at = "idle"
    /\ ops' = ops \ {"finish"}
    /\ proc' = [proc EXCEPT !.finished = TRUE, !.callback = FALSE,
                            !.readActive = FALSE, !.readCb = "none"]
    /\ pc' = IF proc.readActive
             THEN [pc EXCEPT ![t] = ReadCallback("error")] ELSE pc
    /\ UNCHANGED <<finishes, impl, sem, owner, dtor, told>>

\* The queue context is stopped with the driver.
ContextStop ==
    /\ ~proc.finished
    /\ Cancel
    /\ UNCHANGED <<pc, impl, sem, owner, dtor, told>>

----------------------------------------------------------------------------
\* Construction of the session.

Step(t, p) == pc' = [pc EXCEPT ![t] = At(p, pc[t].ev)]

\* Start of MakeImplAsync.
Connected(t) ==
    /\ pc[t].at = "connect"
    /\ \/ StartRead("make") /\ pc' = [pc EXCEPT ![t] = Idle]
       \/ ReadOfFinished /\ pc' = [pc EXCEPT ![t] = At("make", "error")]
    /\ UNCHANGED <<impl, sem, owner, dtor, told>>

\* Its callback: only a successful first message makes a session.
MakeImplAsync(t) ==
    /\ pc[t].at = "make"
    /\ IF pc[t].ev \in {"refused", "error"}
       THEN /\ pc' = [pc EXCEPT ![t] = Idle]
            /\ UNCHANGED impl
       ELSE /\ impl' = "alive"
            /\ Step(t, "build")
    /\ UNCHANGED <<proc, ops, finishes, sem, owner, dtor, told>>

\* The constructor's StartAsyncRead; the callback may run elsewhere before the
\* object is published.  A callback called in place finds no close handler and
\* gives the session back before anyone else knows it.
Build(t) ==
    /\ pc[t].at = "build"
    /\ \/ StartRead("session") /\ UNCHANGED told
       \/ ReadOfFinished /\ told' = TRUE
    /\ Step(t, "publish")
    /\ UNCHANGED <<impl, sem, owner, dtor>>

NewSmartShared(t) ==
    /\ pc[t].at = "publish"
    /\ pc' = [pc EXCEPT ![t] = Idle]
    /\ UNCHANGED <<proc, ops, finishes, impl, sem, owner, dtor, told>>

\* The session is published once NewSmartShared is through.
Published ==
    impl = "alive" /\ \A t \in Workers : pc[t].at \notin {"build", "publish"}

----------------------------------------------------------------------------
\* The read callback of the session.

\* Mutant: the result of fetch_add is ignored.
MayOwnAlways == TRUE

MayOwn == sem = 0

\* A callback that does not get the session ends without reading on.
TrySharedOwning(t) ==
    /\ pc[t].at = "try"
    /\ sem' = sem + 1
    /\ IF MayOwn THEN Step(t, "owning") ELSE pc' = [pc EXCEPT ![t] = Idle]
    /\ UNCHANGED <<proc, ops, finishes, impl, owner, dtor, told>>

StoreOwner(t) ==
    /\ pc[t].at = "owning"
    /\ owner' = t
    /\ Step(t, "own")
    /\ UNCHANGED <<proc, ops, finishes, impl, sem, dtor, told>>

ReadsOn(e) == e = "state"

\* HandleAttachSessionState and the default branch.  CloseFromServer destroys
\* the session in this very callback when the pool has it; a session in use is
\* left to its user.
Handle(t) ==
    /\ pc[t].at = "own"
    /\ \/ UNCHANGED <<proc, ops, finishes, impl, dtor>>
       \/ /\ pc[t].ev # "state"
          /\ Published /\ dtor = "none"
          /\ Cancel
          /\ owner = t        \* WaitAndLock lets its own thread pass
          /\ impl' = "freed"
          /\ dtor' = "done"
    /\ told' = (told \/ pc[t].ev # "state")
    /\ Step(t, IF ReadsOn(pc[t].ev) THEN "next" ELSE "release")
    /\ UNCHANGED <<sem, owner>>

\* On a finished stream the nested callback fails to own and is dropped.
StartAsyncRead(t) ==
    /\ pc[t].at = "next"
    /\ \/ StartRead("session") /\ UNCHANGED sem
       \/ ReadOfFinished /\ sem' = sem + 1
    /\ Step(t, "release")
    /\ UNCHANGED <<impl, owner, dtor, told>>

ReleaseOwner(t) ==
    /\ pc[t].at = "release"
    /\ owner' = "none"
    /\ Step(t, "unlock")
    /\ UNCHANGED <<proc, ops, finishes, impl, sem, dtor, told>>

\* Mutant: Release does not reset the semaphore.
KeepLocked == sem

Unlocked == 0

ReleaseSemaphore(t) ==
    /\ pc[t].at = "unlock"
    /\ sem' = Unlocked
    /\ pc' = [pc EXCEPT ![t] = Idle]
    /\ UNCHANGED <<proc, ops, finishes, impl, owner, dtor, told>>

----------------------------------------------------------------------------
\* ~TImpl on another thread: the user or the pool drops the session.

DestroyCancel ==
    /\ Published
    /\ dtor = "none"
    /\ Cancel
    /\ dtor' = "wait"
    /\ UNCHANGED <<pc, impl, sem, owner, told>>

LockFree == sem = 0

\* WaitAndLock: the spinning compare_exchange from 0 to 1.
WaitAndLock ==
    /\ dtor = "wait"
    /\ owner # Destroyer
    /\ LockFree
    /\ sem' = 1
    /\ impl' = "freed"
    /\ dtor' = "done"
    /\ UNCHANGED <<proc, ops, finishes, pc, owner, told>>

----------------------------------------------------------------------------
Worker(t) ==
    \/ OnStartDone(t)
    \/ OnStartFailed(t)
    \/ \E e \in {"state", "shutdown", "refused"} : OnReadDone(t, e)
    \/ OnReadFailed(t)
    \/ OnFinished(t)
    \/ Connected(t)
    \/ MakeImplAsync(t)
    \/ Build(t)
    \/ NewSmartShared(t)
    \/ TrySharedOwning(t)
    \/ StoreOwner(t)
    \/ Handle(t)
    \/ StartAsyncRead(t)
    \/ ReleaseOwner(t)
    \/ ReleaseSemaphore(t)

Next ==
    \/ ContextStop
    \/ DestroyCancel
    \/ WaitAndLock
    \/ \E t \in Workers : Worker(t)

Spec == Init /\ [][Next]_vars

\* Workers run their callbacks to the end and the destructor keeps spinning.
\* Of gRPC only this is assumed: connecting ends, the operations of a cancelled
\* call complete, and so does Finish.
FairSpec ==
    /\ Spec
    /\ \A t \in Workers :
          WF_vars(Connected(t) \/ MakeImplAsync(t) \/ Build(t)
                  \/ NewSmartShared(t) \/ TrySharedOwning(t) \/ StoreOwner(t)
                  \/ Handle(t) \/ StartAsyncRead(t) \/ ReleaseOwner(t)
                  \/ ReleaseSemaphore(t))
    /\ WF_vars(WaitAndLock)
    /\ WF_vars(\E t \in Workers : OnStartDone(t) \/ OnStartFailed(t))
    /\ WF_vars(proc.cancelled /\ \E t \in Workers : OnReadFailed(t))
    /\ WF_vars(\E t \in Workers : OnFinished(t))

----------------------------------------------------------------------------
\* Properties.

\* Every variable has its type, and Stream->Finish is called at most once
\* whichever of Cancel, OnReadDone and OnStartDone comes first.
TypeOK ==
    /\ proc \in Proc
    /\ ops \subseteq {"start", "read", "finish"}
    /\ finishes \in 0..1
    /\ pc \in [Workers -> [at : Places, ev : Events]]
    /\ impl \in {"none", "alive", "freed"}
    /\ sem \in Nat
    /\ owner \in Workers \cup {"none"}
    /\ dtor \in {"none", "wait", "done"}
    /\ told \in BOOLEAN

\* "Custom lock primitive to protect session from destroying during async read
\* execution": the raw pointer that TrySharedOwning returned is used only while
\* the session exists, and by one callback.
NoUseAfterFree ==
    /\ \A t \in Workers : pc[t].at \in {"owning", "own"} => impl = "alive"
    /\ \A t, u \in Workers :
          pc[t].at \in {"owning", "own"} /\ pc[u].at \in {"owning", "own"} => t = u

\* What gRPC asks of its user: no Finish while a read is in flight, and no read
\* after Finish.
GrpcContract ==
    /\ ~({"read", "finish"} \subseteq ops)
    /\ "read" \in ops => finishes = 0

\* The Y_ABORT_UNLESS lines of the processor: no second read, a completed read
\* was active and not finished, a pending connect callback excludes a read.
AssertsHold ==
    /\ \A t \in Workers :
          pc[t].at \in {"connect", "build", "next"} => ~proc.readActive
    /\ "read" \in ops => proc.readActive /\ ~proc.readFinished
    /\ proc.callback => ~proc.readActive

\* The spinning destructor gets the lock: the callbacks cannot keep it busy.
DestructorReturns == dtor = "wait" ~> impl = "freed"

\* A cancelled stream runs down, so that its queue context is released and the
\* completion queue of a stopping driver can be shut down.
CancelledStreamFinishes == proc.cancelled ~> proc.finished

\* An attach state without news "continues reading": while the session lives,
\* uncancelled, and nobody told it of its end, a read is outstanding.
SessionIsWatched ==
    impl = "alive" /\ ~proc.cancelled /\ (\A t \in Workers : pc[t].at = "idle")
        => proc.readActive \/ told
=============================================================================
