-------------------------- MODULE DistributedLock --------------------------
(***************************************************************************)
(* TDistributedLock of src/src/client/coordination/distributed_lock.cpp,   *)
(* on a coordination session: one thread that locks and unlocks, and the   *)
(* session lost callback, which runs in the session's chain of callbacks.  *)
(* Without a lock the same semaphore is used by direct calls of            *)
(* AcquireSemaphore and ReleaseSemaphore ("direct").                       *)
(***************************************************************************)
EXTENDS CoordinationSession, Functions

CONSTANT LockSub  \* the lock's subscription

ASSUME LockAssumption == LockSub \in Subs

VARIABLE lock     \* TLockState, the place of its thread and the operation it waits for

lvars == <<vars, lock>>

(* No TLockState yet, or no longer.                                         *)
NoLock(pc) == [pc |-> pc, op |-> None, holding |-> FALSE, sessionLost |-> FALSE, stop |-> FALSE]

LockInit ==
  /\ SessionInit
  /\ lock \in {NoLock("new"), NoLock("direct")}

(* Mutant: a hold that is under way is not told.                            *)
NotesLoss(s) == [s EXCEPT !.sessionLost = TRUE]

(* TLockState::NotifySessionLost.                                           *)
NotifySessionLost(s) == [s EXCEPT !.sessionLost = TRUE, !.stop = @ \/ s.holding]

EndHold(s) == [s EXCEPT !.holding = FALSE]

RequestStopIfHolding(s) == [s EXCEPT !.stop = @ \/ s.holding]

(* TImpl::IsSessionLost.  EXPIRED and STOPPED are final, so that the two    *)
(* getters can be read as one.                                              *)
IsSessionLost == session.state = "EXPIRED" \/ session.connection = "STOPPED"

LockStep(from, l) ==
  /\ lock.pc \in from
  /\ lock' = l
  /\ UNCHANGED vars

(* The constructor subscribes.  A callback that comes at once is the        *)
(* conjunct of LockNext.                                                    *)
NewLock ==
  /\ lock.pc = "new"
  /\ Subscribe(LockSub)
  /\ lock' = [IF lost.calls # lost'.calls THEN NotifySessionLost(lock) ELSE lock EXCEPT !.pc = "idle"]

(* A call of AcquireSemaphore or ReleaseSemaphore; the thread waits at pc.  *)
StartOp(from, kind, pc) ==
  /\ lock.pc = from
  /\ \E o \in kind : SemaphoreCall(o) /\ lock' = [lock EXCEPT !.pc = pc, !.op = o]

Ready == lock.op # None /\ sem.answers[lock.op] # <<>>
Value == Head(sem.answers[lock.op])

(* lock and try_lock: they differ in how they report a failure.             *)
Lock == StartOp("idle", Acquires, "acquiring")

(* Mutant: a successful status is taken for an acquired semaphore.          *)
SuccessIsEnough(v) == v \in {"true", "false"}

(* result.IsSuccess() and result.GetResult().                               *)
Succeeds(v) == v = "true"

Acquired ==
  /\ Ready
  /\ LockStep({"acquiring"}, [lock EXCEPT !.pc = IF Succeeds(Value) THEN "granted" ELSE "idle", !.op = None])

(* Mutant: the acquire is left behind.                                      *)
GivesUpQuietly == ~Ready /\ LockStep({"acquiring"}, [lock EXCEPT !.pc = "idle", !.op = None])

(* acquireFuture.Wait(Timeout) gives up: CancelAcquire.                     *)
CancelAcquire == ~Ready /\ StartOp("acquiring", SemOps \ Acquires, "cancelling")

(* The release has an answer, or its Wait gives up too.                     *)
Cancelled == LockStep({"cancelling"}, [lock EXCEPT !.pc = "idle", !.op = None])

(* TLockState::TryBeginHold, and the place where the thread goes on.        *)
BeginHold(s) ==
  IF s.sessionLost THEN [s EXCEPT !.pc = "idle"]
  ELSE [s EXCEPT !.pc = "recheck", !.holding = TRUE, !.stop = FALSE]

(* TImpl::TryBeginHold: the session is looked at before and after.          *)
CheckBefore ==
  LockStep({"granted"},
           IF IsSessionLost THEN [NotifySessionLost(lock) EXCEPT !.pc = "idle"]
                            ELSE [lock EXCEPT !.pc = "begin"])

TryBeginHold == LockStep({"begin"}, BeginHold(lock))

CheckAfter ==
  LockStep({"recheck"},
           IF IsSessionLost THEN [EndHold(NotifySessionLost(lock)) EXCEPT !.pc = "idle"]
                            ELSE [lock EXCEPT !.pc = "held"])

Unlock == StartOp("held", SemOps \ Acquires, "releasing")

(* unlock goes on: released, or not known to be.                            *)
Unlocked ==
  /\ Ready /\ Succeeds(Value)
  /\ LockStep({"releasing"}, [EndHold(lock) EXCEPT !.pc = "idle", !.op = None])

UnlockFails ==
  /\ ~(Ready /\ Succeeds(Value))
  /\ LockStep({"releasing"}, [EndHold(RequestStopIfHolding(lock)) EXCEPT !.pc = "idle", !.op = None])

(* The destructor drops the subscription; the callback holds a weak_ptr.    *)
DestroyLock ==
  /\ lock.pc = "idle"
  /\ lock' = NoLock("gone")
  /\ IF lost.at[LockSub] = "registered" THEN Unsubscribe(LockSub) ELSE UNCHANGED vars

(* A step of the session.  The lock holds a TSession, which is not dropped  *)
(* before the lock is; when the session calls the lost callbacks the lock   *)
(* is told.                                                                 *)
SessionSide ==
  /\ ChainStep \/ TimerStep \/ ServerStep \/ SemaphoreStep \/ DriverStops \/ Stop
     \/ Close \/ DoReconnect \/ (lock.pc \in {"direct", "gone"} /\ Drop)
  /\ lock' = IF lost'.calls # lost.calls /\ lock.pc \notin {"new", "direct", "gone"} THEN NotifySessionLost(lock) ELSE lock

DirectCall(o) == lock.pc = "direct" /\ SemaphoreCall(o) /\ UNCHANGED lock

LockNext ==
  \/ SessionSide
  \/ \E o \in SemOps : DirectCall(o)
  \/ NewLock \/ Lock \/ Acquired \/ CancelAcquire \/ Cancelled
  \/ CheckBefore \/ TryBeginHold \/ CheckAfter \/ Unlock \/ Unlocked \/ UnlockFails \/ DestroyLock

LockSpec == LockInit /\ [][LockNext]_lvars

-----------------------------------------------------------------------------
(* A thread that is inside the lock owns the semaphore on the server, as    *)
(* long as the server has the session: through cancelled acquires, repeated *)
(* requests and reconnects.                                                 *)
HeldIsOwned == lock.pc = "held" /\ slot.alive => slot.owner

(* A holder is told of the session's loss and of nothing else.  A hold that *)
(* the loss meets has its stop token signalled, and no hold begins that     *)
(* would miss the signal; a connection that is restored does not interrupt  *)
(* the holder.                                                              *)
LossIsSignalled ==
  lock.pc = "held" =>
    /\ lock.sessionLost \/ at = "stopped" => lock.stop
    /\ lock.stop => session.connection = "STOPPED"

(* The server answered a release with an error.                             *)
ReleaseRefused == \E o \in SemOps \ Acquires : "error" \in Range(sem.answers[o])

(* Once the operations of a thread outside the lock are answered, the       *)
(* session neither owns the semaphore nor waits for it, unless the server   *)
(* refused a release: neither unlock nor CancelAcquire tries again.         *)
NothingLeaks ==
  /\ lock.pc = "idle" /\ OpenOps(sem) = {} /\ ~ReleaseRefused
  /\ session.state = "ATTACHED" /\ ~IsClosed
  => ~slot.owner /\ slot.waiter = None
=============================================================================
