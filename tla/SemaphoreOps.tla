---------------------------- MODULE SemaphoreOps ----------------------------
(***************************************************************************)
(* What a coordination session keeps about one semaphore: TSemaphoreState  *)
(* of src/src/client/coordination/coordination.cpp, its acquire and        *)
(* release operations, and the retries after a reconnect.  An operation    *)
(* stands for its request id too: it takes a fresh one when it leaves the  *)
(* queue and keeps it when it is sent again.  The state is the record      *)
(*                                                                         *)
(*   lastSent   the operation sent and not acknowledged    (LastSentOp)    *)
(*   lastAcked  the acquire the server has queued          (LastAckedOp)   *)
(*   waiting    sent on this connection, no result yet     (WaitingOps)    *)
(*   queue      not sent yet                               (OpQueue)       *)
(*   restoring  the first result after a reconnect is due  (Restoring)     *)
(*   requests   written to the stream, not read by the server              *)
(*   answers    per operation, the values its promise was given            *)
(*   broken     a Y_ABORT_UNLESS of these functions has failed             *)
(*                                                                         *)
(* The entry of the map Semaphores disappears when it is empty; an absent  *)
(* entry is the record EmptySemaphore.                                     *)
(***************************************************************************)
EXTENDS Naturals, Sequences

CONSTANTS SemOps,    \* operations a user may start, each at most once
          Acquires,  \* those of them that are SEM_OP_ACQUIRE
          None

ASSUME SemOpsAssumption == Acquires \subseteq SemOps /\ None \notin SemOps

Results == {"true", "false", "error"}        \* what the server answers
Outcomes == Results \cup {"aborted", "failed"}

EmptySemaphore ==
  [lastSent |-> None, lastAcked |-> None, waiting |-> {}, queue |-> <<>>, restoring |-> FALSE,
   requests |-> <<>>, answers |-> [o \in SemOps |-> <<>>], broken |-> FALSE]

Answer(s, ops, v) ==
  [s EXCEPT !.answers = [o \in SemOps |-> IF o \in ops THEN Append(@[o], v) ELSE @[o]]]

SendOp(s, o) ==
  [s EXCEPT !.broken = @ \/ o \in s.waiting,
            !.waiting = @ \cup {o},
            !.lastSent = o,
            !.requests = Append(@, o)]

ProcessQueue(s, writeAllowed) ==
  IF s.queue # <<>> /\ s.lastSent = None /\ writeAllowed
    THEN SendOp([s EXCEPT !.queue = Tail(@)], Head(s.queue))
    ELSE s

EnqueueOp(s, o, writeAllowed) == ProcessQueue([s EXCEPT !.queue = Append(@, o)], writeAllowed)

(* Mutant: an acknowledged acquire is left to the server.                   *)
RepeatSent(s) == s.lastSent

(* The operation SessionAttached sends again, None when there is none.      *)
Repeated(s) == IF s.lastSent # None THEN s.lastSent ELSE s.lastAcked

(* SessionAttached, for this semaphore.  The server reads nothing more of   *)
(* an older connection once it has taken the session_start of a newer one.  *)
Reattach(s) ==
  LET fresh == [s EXCEPT !.requests = <<>>]
  IN IF Repeated(s) # None THEN [SendOp(fresh, Repeated(s)) EXCEPT !.restoring = TRUE]
                           ELSE ProcessQueue([fresh EXCEPT !.restoring = FALSE], TRUE)

(* The acknowledged acquire that a first answer to o after a reconnect      *)
(* shows to be superseded: it has not been sent on this connection, and     *)
(* nothing but this answer will settle its promise.                         *)
Superseded(s, o) == IF s.restoring THEN {s.lastAcked} \ {None, o} ELSE {}

(* kAcquireSemaphorePending.                                                *)
ProcessPending(s, o, writeAllowed) ==
  IF o \notin s.waiting THEN s
  ELSE ProcessQueue(
         [Answer(s, Superseded(s, o), "aborted")
            EXCEPT !.broken = @ \/ s.lastSent # o \/ o \notin Acquires,
                   !.lastAcked = o, !.lastSent = None, !.restoring = FALSE],
         writeAllowed)

(* What DoSemaphoreProcessResult sends once lastSent is free.               *)
SendNext(s, writeAllowed) ==
  IF s.restoring /\ s.lastAcked # None
    THEN IF writeAllowed THEN SendOp(s, s.lastAcked) ELSE s
    ELSE ProcessQueue(s, writeAllowed)

(* The promise DoSemaphoreProcessResult settles beside the one of o.        *)
SupersededByResult(s, o) == Superseded(s, o)

(* kAcquireSemaphoreResult and kReleaseSemaphoreResult.                     *)
ProcessResult(s, o, v, writeAllowed) ==
  LET settles == s.lastAcked = o \/ v # "error"
      arrived == [s EXCEPT !.waiting = @ \ {o}]
      next == IF s.lastSent = o
                THEN SendNext(
                       [Answer(arrived, IF settles THEN SupersededByResult(s, o) ELSE {}, "aborted")
                          EXCEPT !.lastSent = None,
                                 !.lastAcked = IF settles THEN None ELSE @],
                       writeAllowed)
                ELSE [arrived EXCEPT !.lastAcked = IF @ = o THEN None ELSE @]
  IN IF o \notin s.waiting THEN s
     ELSE [Answer(next, {o}, v) EXCEPT !.restoring = FALSE]

(* Mutant: the operations that will be sent again are settled too.          *)
AllWaiting(s) == s.waiting

(* What OnProcessorStatus settles when the session goes on: the operations  *)
(* that will not be sent again.                                             *)
LostOps(s) == s.waiting \ {s.lastSent, s.lastAcked}

(* Mutant: the operations that were never sent are not settled.             *)
SentOps(s) == (s.waiting \cup {s.lastSent, s.lastAcked}) \ {None}

(* What it settles when the session stops.                                  *)
OpenOps(s) ==
  (s.waiting \cup {s.lastSent, s.lastAcked} \cup {s.queue[i] : i \in DOMAIN s.queue}) \ {None}

(* The record OnProcessorStatus leaves behind.  The promises it took are    *)
(* settled after the lock is released.                                      *)
Disconnected(s) == [s EXCEPT !.waiting = {}]
Cleared(s) == [EmptySemaphore EXCEPT !.answers = s.answers, !.broken = s.broken]

-----------------------------------------------------------------------------
(* The server's side of one session and one semaphore, as far as the        *)
(* replies tell (external): a session owns the semaphore or not, and has    *)
(* at most one queued acquire.  "here" says that the queued acquire was     *)
(* sent on the present connection, so that its result goes there; "alive"   *)
(* that the server still has the session.                                   *)
FreeSlot == [alive |-> TRUE, owner |-> FALSE, waiter |-> None, here |-> FALSE, replies |-> <<>>]

Result(o, v) == [type |-> "result", op |-> o, value |-> v]
Pending(o) == [type |-> "pending", op |-> o, value |-> "true"]

Reply(k, msgs) == [k EXCEPT !.replies = @ \o msgs]

(* The queued acquire is replaced or dropped by a later operation.          *)
AbortsWaiter(k, o) ==
  IF k.waiter \notin {None, o} /\ k.here THEN <<Result(k.waiter, "error")>> ELSE <<>>

(* A request it refuses: the session keeps what it has.                     *)
Refuse(k, o) == Reply(k, <<Result(o, "error")>>)

(* What the server may do with a request it reads.  An acquire it has       *)
(* already taken is not refused when it is repeated, and a release that     *)
(* finds nothing to release is not an error.                                *)
Serve(k, o) ==
  CASE o \in Acquires /\ k.owner -> {Reply(k, <<Result(o, "true")>>)}
    [] o \in Acquires /\ ~k.owner ->
         {Reply([k EXCEPT !.waiter = o, !.here = TRUE], AbortsWaiter(k, o) \o <<Pending(o)>>)}
         \cup {Reply([k EXCEPT !.waiter = None, !.owner = (v = "true")],
                     AbortsWaiter(k, o) \o <<Result(o, v)>>) : v \in {"true", "false"}}
         \cup {Refuse(k, o) : w \in {k.waiter} \ {o}}
    [] OTHER ->
         {Reply([k EXCEPT !.waiter = None, !.owner = FALSE],
                AbortsWaiter(k, o) \o
                <<Result(o, IF k.owner \/ k.waiter # None THEN "true" ELSE "false")>>)}

(* The queued acquire gets the semaphore or its time runs out.              *)
Grant(k, v) ==
  Reply([k EXCEPT !.waiter = None, !.owner = (v = "true")],
        IF k.here THEN <<Result(k.waiter, v)>> ELSE <<>>)

Unplugged(k) == [k EXCEPT !.here = FALSE, !.replies = <<>>]
DeadSlot == [FreeSlot EXCEPT !.alive = FALSE]
=============================================================================
