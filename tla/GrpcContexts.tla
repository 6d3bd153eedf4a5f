---------------------------- MODULE GrpcContexts ----------------------------
(***************************************************************************)
(* TGRpcClientLow and its tree of TContextImpl: every stream, timer and    *)
(* request of the driver runs under a context, a context dies with its     *)
(* last pointer, cancelling one cancels its subtree, and the completion    *)
(* queue is shut down when the client is stopping and its last context is  *)
(* gone.                                                                   *)
(*                                                                         *)
(* Critical sections of a context's Mutex and of Mtx_ are single steps.    *)
(* cq->Shutdown() after Mtx_ is released is part of the step that decided  *)
(* it: a stopping client makes no context in between.  A context nobody    *)
(* points to is in its destructor until Forget removes it from its parent; *)
(* weak_from_this().lock() fails on it from then on.                       *)
(***************************************************************************)
EXTENDS Naturals, FiniteSets

CONSTANTS
    Contexts,        \* TContextImpl objects
    Client,          \* the TGRpcClientLow, parent of the root contexts
    Subscriptions    \* calls of SubscribeCancel

ASSUME ClientIsNoContext == Client \notin Contexts

VARIABLES
    state,           \* the client's cq state
    shutdown,        \* was Shutdown called on the completion queues?
    life,            \* of each context: "none", "alive" or "gone"
    parent,          \* Parent, or the client
    held,            \* do the context's users still point to it?
    flag,            \* Cancelled
    cancelling,      \* contexts whose Cancel took the lock and is not through
    collected,       \* children a Cancel or Stop collected and did not cancel yet
    subOf,           \* the context each subscription is for
    sub              \* "new", "kept", "due", "late", "ran" or "dropped"

contextVars == <<state, shutdown, life, parent, held, flag, cancelling,
                 collected, subOf, sub>>

----------------------------------------------------------------------------
ContextInit ==
    /\ state = "WORKING"
    /\ shutdown = FALSE
    /\ life = [c \in Contexts |-> "none"]
    /\ parent = [c \in Contexts |-> Client]
    /\ held = [c \in Contexts |-> FALSE]
    /\ flag = [c \in Contexts |-> FALSE]
    /\ cancelling = {}
    /\ collected = {}
    /\ subOf = [s \in Subscriptions |-> Client]
    /\ sub = [s \in Subscriptions |-> "new"]

Alive(c) == life[c] = "alive"

\* InlineChildren and Children of a context, Contexts_ of the client.
ChildrenOf(p) == {c \in Contexts : Alive(c) /\ parent[c] = p}

\* Some shared pointer to the context exists: a user's, a child's, or the one
\* a Cancel in progress holds.
Referenced(c) ==
    \/ held[c]
    \/ c \in cancelling \cup collected
    \/ ChildrenOf(c) # {}

\* LockChildPtr over the children.
Lockable(p) == {c \in ChildrenOf(p) : Referenced(c)}

----------------------------------------------------------------------------
\* CreateContext of the client (refused once it stops) or of a context that is
\* still held; the child of a cancelled context is born cancelled.
MayCreate(p) == IF p = Client THEN state = "WORKING" ELSE Alive(p) /\ held[p]

\* Mutant: CreateContext does not look at Cancelled.
BornFree(p) == FALSE

BornCancelled(p) == p # Client /\ flag[p]

CreateContext(p, c) ==
    /\ MayCreate(p)
    /\ life[c] = "none"
    /\ life' = [life EXCEPT ![c] = "alive"]
    /\ parent' = [parent EXCEPT ![c] = p]
    /\ held' = [held EXCEPT ![c] = TRUE]
    /\ flag' = [flag EXCEPT ![c] = BornCancelled(p)]
    /\ UNCHANGED <<state, shutdown, cancelling, collected, subOf, sub>>

\* The last user lets go; the destructor is Forget.
Release(c) ==
    /\ held[c]
    /\ held' = [held EXCEPT ![c] = FALSE]
    /\ UNCHANGED <<state, shutdown, life, parent, flag, cancelling,
                   collected, subOf, sub>>

LastContext(c) == ChildrenOf(Client) = {c} /\ state # "WORKING"

\* ~TContextImpl and ForgetContext of the parent: the client whose last context
\* it was shuts the queues down if it is stopping.
Forget(c) ==
    /\ Alive(c)
    /\ ~Referenced(c)
    /\ life' = [life EXCEPT ![c] = "gone"]
    /\ sub' = [s \in Subscriptions |->
                   IF subOf[s] = c /\ sub[s] = "kept" THEN "dropped" ELSE sub[s]]
    /\ shutdown' = (shutdown \/ LastContext(c))
    /\ UNCHANGED <<state, parent, held, flag, cancelling, collected, subOf>>

\* Mutant: a subscription to a cancelled context is kept.
SubscribedFor(c) == "kept"

SubscribesAs(c) == IF flag[c] THEN "late" ELSE "kept"

SubscribeCancel(s, c) ==
    /\ sub[s] = "new"
    /\ Alive(c) /\ held[c]
    /\ subOf' = [subOf EXCEPT ![s] = c]
    /\ sub' = [sub EXCEPT ![s] = SubscribesAs(c)]
    /\ UNCHANGED <<state, shutdown, life, parent, held, flag, cancelling,
                   collected>>

\* A callback runs without the lock: in Cancel, or in the SubscribeCancel that
\* came late.
RunCallback(s) ==
    /\ sub[s] \in {"due", "late"}
    /\ sub' = [sub EXCEPT ![s] = "ran"]
    /\ UNCHANGED <<state, shutdown, life, parent, held, flag, cancelling,
                   collected, subOf>>

\* The critical section of Cancel; waiting is what other calls collected.
LockAndCancel(c, waiting) ==
    /\ flag' = [flag EXCEPT ![c] = TRUE]
    /\ collected' = waiting \cup (IF flag[c] THEN {} ELSE Lockable(c))
    /\ cancelling' = IF flag[c] THEN cancelling ELSE cancelling \cup {c}
    /\ sub' = [s \in Subscriptions |->
                   IF subOf[s] = c /\ sub[s] = "kept" THEN "due" ELSE sub[s]]
    /\ UNCHANGED <<state, shutdown, life, parent, held, subOf>>

\* Called by a user (a second call returns false and changes nothing).
CancelContext(c) ==
    /\ held[c]
    /\ ~flag[c]
    /\ LockAndCancel(c, collected)

\* Called for a collected context.  A parent runs its own callbacks first.
CancelChild(c) ==
    /\ c \in collected
    /\ \A s \in Subscriptions : subOf[s] = parent[c] => sub[s] # "due"
    /\ LockAndCancel(c, collected \ {c})

\* Cancel returns: its callbacks ran and its children were cancelled.
CancelReturns(c) ==
    /\ c \in cancelling
    /\ \A s \in Subscriptions : subOf[s] = c => sub[s] # "due"
    /\ \A d \in collected : parent[d] # c
    /\ cancelling' = cancelling \ {c}
    /\ UNCHANGED <<state, shutdown, life, parent, held, flag, collected,
                   subOf, sub>>

\* StopInternal: silent from the destructor, explicit from Stop.
StopInternal(silent) ==
    /\ state = "WORKING" \/ (state = "STOP_SILENT" /\ ~silent)
    /\ state' = IF silent THEN "STOP_SILENT" ELSE "STOP_EXPLICIT"
    /\ collected' = IF silent THEN collected
                    ELSE collected \cup Lockable(Client)
    /\ shutdown' = (shutdown \/ ChildrenOf(Client) = {})
    /\ UNCHANGED <<life, parent, held, flag, cancelling, subOf, sub>>

----------------------------------------------------------------------------
\* What the client's own code does once a call is on its way.
ContextRuns ==
    \/ \E c \in Contexts : Forget(c) \/ CancelChild(c) \/ CancelReturns(c)

\* Every variable has its type.
ContextTypeOK ==
    /\ state \in {"WORKING", "STOP_SILENT", "STOP_EXPLICIT"}
    /\ shutdown \in BOOLEAN
    /\ life \in [Contexts -> {"none", "alive", "gone"}]
    /\ parent \in [Contexts -> Contexts \cup {Client}]
    /\ held \in [Contexts -> BOOLEAN]
    /\ flag \in [Contexts -> BOOLEAN]
    /\ cancelling \subseteq Contexts
    /\ collected \subseteq Contexts
    /\ subOf \in [Subscriptions -> Contexts \cup {Client}]
    /\ sub \in [Subscriptions -> {"new", "kept", "due", "late", "ran",
                                "dropped"}]

\* No operation can be started on a queue that was shut down: Shutdown comes
\* when no context is left and none can be made any more.
ShutdownIsLast ==
    shutdown => /\ state # "WORKING"
                /\ \A c \in Contexts : ~Alive(c)

\* Cancellation reaches everything below: a context that can still be used
\* under a cancelled parent is cancelled or about to be, whether it was there
\* first or was made during the Cancel; and no subscription sleeps on a
\* cancelled context.
CancelReachesSubtree ==
    /\ \A c \in Contexts :
           Alive(c) /\ held[c] /\ parent[c] # Client /\ flag[parent[c]]
               => flag[c] \/ c \in collected
    /\ \A s \in Subscriptions : sub[s] = "kept" => ~flag[subOf[s]]
=============================================================================
