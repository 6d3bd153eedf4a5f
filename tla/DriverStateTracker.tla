------------------------- MODULE DriverStateTracker -------------------------
(***************************************************************************)
(* TDbDriverStateTracker: the cache that gives all clients of one database *)
(* the same TDbDriverState.  The map holds weak pointers; a caller that    *)
(* finds none builds the state with the lock released, behind an empty     *)
(* entry that makes the others wait; the last owner's deleter removes the  *)
(* entry.  Entries of different keys do not interact, so one key is        *)
(* modelled.                                                               *)
(*                                                                         *)
(* Critical sections of Lock_ are single steps.  The condition variable is *)
(* explicit: a caller sleeps until the next notify_all.                    *)
(***************************************************************************)
EXTENDS Naturals, FiniteSets

CONSTANTS
    Callers,       \* threads that call GetDriverState
    Notifiers,     \* threads that call SendNotification, callers or not
    Objects,       \* TDbDriverState objects
    MaxThrows      \* bound on the exceptions credentials throw

Threads == Callers \cup Notifiers

ASSUME ThreadsFinite == IsFiniteSet(Threads) /\ IsFiniteSet(Objects)
ASSUME NoneIsNobody == "none" \notin Threads \cup Objects
ASSUME MaxThrowsNat == MaxThrows \in Nat
ASSUME DiscoveryIsNoThread == "discovery" \notin Threads

VARIABLES
    pc,      \* what each thread is doing
    state,   \* strongState of each thread
    entry,   \* the map's entry for the key
    refs,    \* owners of each object
    life,    \* life of each object
    throws   \* how often credentials threw

vars == <<pc, state, entry, refs, life, throws>>

----------------------------------------------------------------------------
\* A thread's place:
\*   idle      not in the tracker
\*   lookup    before the first, shared lookup
\*   recheck   in the wait loop, about to test the predicate
\*   sleep     waiting on Notify_
\*   build     the entry is reserved, the lock released
\*   init      the object exists, before InitCredentials
\*   catch     InitCredentials threw, before the handler locks
\*   unwind    the handler is through, strongState is about to go
\*   publish   before the lock is taken again
\*   update    before UpdateAsync
\*   holding   the call returned and its client keeps the state
\*   notify    in SendNotification, the weak pointer copied
\*   notified  in SendNotification, running the callbacks
\*   deleter   let go of the last pointer and runs the deleter
\*   undefined used a dangling reference
Places == {"idle", "lookup", "recheck", "sleep", "build", "init", "catch",
           "unwind", "publish", "update", "holding", "notify",
           "notified", "deleter", "undefined"}

\* The map's entry: absent, or a weak pointer (empty while the state is being
\* built) in a node made by one caller.
Absent == [node |-> "none", weak |-> "none"]
Entry == [node : Threads \cup {"none"}, weak : Objects \cup {"none"}]

\* An object: not allocated, alive, expired (no owner, deleter about to lock),
\* or being deleted after the deleter's critical section.  Its name is free
\* for another object when no weak pointer to it is left.
Lives == {"none", "alive", "expired", "deleting"}

Init ==
    /\ pc = [c \in Threads |-> "idle"]
    /\ state = [c \in Threads |-> "none"]
    /\ entry = Absent
    /\ refs = [o \in Objects |-> {}]
    /\ life = [o \in Objects |-> "none"]
    /\ throws = 0

Go(c, p) == pc' = [pc EXCEPT ![c] = p]

\* weak_ptr::lock would succeed.
Lockable(o) == o # "none" /\ refs[o] # {}

\* Notify_.notify_all, with one caller going to p.
WakeAll(c, p) ==
    pc' = [x \in Threads |-> IF x = c THEN p
                             ELSE IF pc[x] = "sleep" THEN "recheck" ELSE pc[x]]

\* An owner lets go of o; the last one starts the deleter.
Drop(o, who) ==
    /\ refs' = [refs EXCEPT ![o] = @ \ {who}]
    /\ life' = IF refs[o] = {who} THEN [life EXCEPT ![o] = "expired"] ELSE life

\* A thread's strongState goes; the deleter runs in the thread of the last one.
LetGo(c) ==
    /\ Drop(state[c], c)
    /\ \/ refs[state[c]] = {c} /\ Go(c, "deleter") /\ UNCHANGED state
       \/ /\ refs[state[c]] # {c}
          /\ Go(c, "idle")
          /\ state' = [state EXCEPT ![c] = "none"]

----------------------------------------------------------------------------
\* GetDriverState.

Call(c) ==
    /\ pc[c] = "idle"
    /\ Go(c, "lookup")
    /\ UNCHANGED <<state, entry, refs, life, throws>>

\* A live state is returned at once.
Return(c) ==
    /\ Lockable(entry.weak)
    /\ refs' = [refs EXCEPT ![entry.weak] = @ \cup {c}]
    /\ state' = [state EXCEPT ![c] = entry.weak]
    /\ Go(c, "holding")
    /\ UNCHANGED <<entry, life, throws>>

Lookup(c) ==
    /\ pc[c] = "lookup"
    /\ \/ Return(c)
       \/ /\ ~Lockable(entry.weak)
          /\ Go(c, "recheck")
          /\ UNCHANGED <<state, entry, refs, life, throws>>

\* Mutant: an expired entry is taken over instead of waited for.
VacantWhenExpired == ~Lockable(entry.weak)

Vacant == entry = Absent

\* The predicate of Notify_.wait and, without an entry, its reservation.
Recheck(c) ==
    /\ pc[c] = "recheck"
    /\ \/ Return(c)
       \/ /\ Vacant
          /\ entry' = [node |-> c, weak |-> "none"]
          /\ Go(c, "build")
          /\ UNCHANGED <<state, refs, life, throws>>
       \/ /\ ~Vacant /\ ~Lockable(entry.weak)
          /\ Go(c, "sleep")
          /\ UNCHANGED <<state, entry, refs, life, throws>>

\* Objects whose name may be given to a new one.
Free ==
    {o \in Objects : life[o] = "none"
                     /\ \A c \in Threads : pc[c] = "notify" => state[c] # o}

NewState(c) ==
    /\ pc[c] = "build"
    /\ \E o \in Free :
          /\ life' = [life EXCEPT ![o] = "alive"]
          /\ refs' = [refs EXCEPT ![o] = {c}]
          /\ state' = [state EXCEPT ![c] = o]
    /\ Go(c, "init")
    /\ UNCHANGED <<entry, throws>>

\* InitCredentials and AddPeriodicTask; the periodic task holds a weak pointer.
InitCredentials(c) ==
    /\ pc[c] = "init"
    /\ \/ Go(c, "publish") /\ UNCHANGED throws
       \/ throws < MaxThrows /\ Go(c, "catch") /\ throws' = throws + 1
    /\ UNCHANGED <<state, entry, refs, life>>

\* The handler erases the entry by its key and rethrows.
Catch(c) ==
    /\ pc[c] = "catch"
    /\ entry.node = c
    /\ entry' = Absent
    /\ WakeAll(c, "unwind")
    /\ UNCHANGED <<state, refs, life, throws>>

\* Unwinding releases the lock first and strongState after it.
Unwind(c) ==
    /\ pc[c] = "unwind"
    /\ LetGo(c)
    /\ UNCHANGED <<entry, throws>>

PublishWakes(c) == WakeAll(c, "update")

\* The weak pointer is assigned through the reference taken at the reservation.
Publish(c) ==
    /\ pc[c] = "publish"
    /\ entry.node = c
    /\ entry' = [entry EXCEPT !.weak = state[c]]
    /\ PublishWakes(c)
    /\ UNCHANGED <<state, refs, life, throws>>

\* The reference dangles: what a thread does after using it is undefined.
UseDangling(c) ==
    /\ pc[c] \in {"publish", "catch"}
    /\ entry.node # c
    /\ Go(c, "undefined")
    /\ UNCHANGED <<state, entry, refs, life, throws>>

\* The creator starts the first discovery, whose callback owns the state too.
UpdateAsync(c) ==
    /\ pc[c] = "update"
    /\ refs' = [refs EXCEPT ![state[c]] = @ \cup {"discovery"}]
    /\ Go(c, "holding")
    /\ UNCHANGED <<state, entry, life, throws>>

\* The periodic task promotes its weak pointer and may start a discovery, of
\* which one is in flight at a time.
PeriodicDiscovery(o) ==
    /\ Lockable(o) /\ "discovery" \notin refs[o]
    /\ \A c \in Threads : state[c] = o => pc[c] \notin {"init", "catch", "unwind"}
    /\ refs' = [refs EXCEPT ![o] = @ \cup {"discovery"}]
    /\ UNCHANGED <<pc, state, entry, life, throws>>

DiscoveryDone(o) ==
    /\ "discovery" \in refs[o]
    /\ Drop(o, "discovery")
    /\ UNCHANGED <<pc, state, entry, throws>>

\* The client is destroyed.
Release(c) ==
    /\ pc[c] = "holding"
    /\ LetGo(c)
    /\ UNCHANGED <<entry, throws>>

----------------------------------------------------------------------------
\* The deleter.

\* Mutant: waiters are not told that the entry is gone.
DeleterQuietly == UNCHANGED pc

DeleterWakes ==
    pc' = [x \in Threads |-> IF pc[x] = "sleep" THEN "recheck" ELSE pc[x]]

\* States_.erase(key), whoever made the entry.
DeleterErase(o) ==
    /\ life[o] = "expired"
    /\ entry' = Absent
    /\ DeleterWakes
    /\ life' = [life EXCEPT ![o] = "deleting"]
    /\ UNCHANGED <<state, refs, throws>>

Delete(o) ==
    /\ life[o] = "deleting"
    /\ life' = [life EXCEPT ![o] = "none"]
    /\ LET runner == {c \in Threads : pc[c] = "deleter" /\ state[c] = o}
       IN  /\ pc' = [c \in Threads |-> IF c \in runner THEN "idle" ELSE pc[c]]
           /\ state' = [c \in Threads |-> IF c \in runner THEN "none" ELSE state[c]]
    /\ UNCHANGED <<entry, refs, throws>>

----------------------------------------------------------------------------
\* SendNotification: the weak pointers are copied under the lock and promoted
\* without it.  strong is released after the callbacks ran.

CopyWeak(c) ==
    /\ pc[c] = "idle"
    /\ entry.weak # "none"
    /\ state' = [state EXCEPT ![c] = entry.weak]
    /\ Go(c, "notify")
    /\ UNCHANGED <<entry, refs, life, throws>>

\* Mutant: the copied pointer is used without promoting it.
PromotesBlindly(o) == TRUE

Promotes(o) == refs[o] # {}

SendNotification(c) ==
    /\ pc[c] = "notify"
    /\ \/ /\ Promotes(state[c])
          /\ refs' = [refs EXCEPT ![state[c]] = @ \cup {c}]
          /\ Go(c, "notified")
          /\ UNCHANGED <<state, life>>
       \/ /\ ~Promotes(state[c])
          /\ state' = [state EXCEPT ![c] = "none"]
          /\ Go(c, "idle")
          /\ UNCHANGED <<refs, life>>
    /\ UNCHANGED <<entry, throws>>

EndNotification(c) ==
    /\ pc[c] = "notified"
    /\ LetGo(c)
    /\ UNCHANGED <<entry, throws>>

----------------------------------------------------------------------------
\* Undefined behaviour of a thread ends what the model says of the process.
Defined == \A c \in Threads : pc[c] # "undefined"

Inside(c) ==
    /\ Defined
    /\ \/ Lookup(c) \/ Recheck(c) \/ NewState(c) \/ InitCredentials(c)
       \/ Catch(c) \/ Unwind(c) \/ Publish(c) \/ UseDangling(c)
       \/ UpdateAsync(c) \/ SendNotification(c) \/ EndNotification(c)

Deleter(o) == Defined /\ (DeleterErase(o) \/ Delete(o))

Background(o) == Defined /\ (DiscoveryDone(o) \/ PeriodicDiscovery(o))

Next ==
    \/ \E c \in Callers : Defined /\ (Call(c) \/ Release(c))
    \/ \E c \in Notifiers : Defined /\ CopyWeak(c)
    \/ \E c \in Threads : Inside(c)
    \/ \E o \in Objects : Deleter(o) \/ Background(o)

Spec == Init /\ [][Next]_vars

\* Threads inside the tracker and deleters go on, and discoveries end (an RPC
\* with a deadline).  Nobody has to call the tracker or to drop a client.
FairSpec ==
    /\ Spec
    /\ \A c \in Threads : WF_vars(Inside(c))
    /\ \A o \in Objects : WF_vars(Deleter(o)) /\ WF_vars(Defined /\ DiscoveryDone(o))

----------------------------------------------------------------------------
\* Properties.

\* Every variable has its type, and an object is alive exactly while somebody
\* owns it.
TypeOK ==
    /\ pc \in [Threads -> Places]
    /\ state \in [Threads -> Objects \cup {"none"}]
    /\ entry \in Entry
    /\ refs \in [Objects -> SUBSET (Threads \cup {"discovery"})]
    /\ life \in [Objects -> Lives]
    /\ throws \in 0 .. MaxThrows
    /\ \A o \in Objects : life[o] = "alive" <=> refs[o] # {}

\* Threads that made an object and have not published it.
Builders == {c \in Threads : pc[c] \in {"build", "init", "catch", "publish"}}

\* All clients of one database share one state, as long as no credentials have
\* thrown: two states of one key are never in use together, none is being built
\* next to one in use, and the builder's reservation is in the map.
OneStatePerKey ==
    throws = 0 =>
        /\ \A o, p \in Objects : refs[o] # {} /\ refs[p] # {} => o = p
        /\ \A c, d \in Builders : c = d
        /\ \A c \in Builders, o \in Objects : refs[o] # {} => o = state[c]
        /\ \A c \in Builders : entry.node = c

\* "reference remains valid", Y_ABORT_UNLESS(States_.erase(key)): the node a
\* builder reserved is in the map until it publishes or gives up.
ReservationKept == \A c \in Builders : entry.node = c

\* An object is promoted, handed out and used only while it is alive.
NoUseAfterFree ==
    \A c \in Threads :
        pc[c] \in {"init", "catch", "unwind", "publish", "update", "holding",
                  "notified"}
            => life[state[c]] = "alive"

\* Once clients stop being destroyed and credentials stop throwing every call
\* ends: no wake-up is lost between the builder, the deleter and the sleeping
\* callers.  (Others that build and drop the state without end may starve a
\* caller.)
CallsReturn ==
    <>[][\A c \in Callers : ~Release(c) /\ ~Unwind(c)]_vars
        => \A c \in Callers :
               pc[c] = "lookup" ~> (pc[c] \in {"holding", "unwind"} \/ ~Defined)
=============================================================================
