-------------------------- MODULE GrpcStreamProofs --------------------------
(***************************************************************************)
(* The tree of contexts and a stream on it, for any number of contexts,    *)
(* subscriptions and writes.  Contexts are only ever made under a live     *)
(* parent, and a parent outlives its children, so that the live contexts   *)
(* form a forest whose roots the client knows: that is what the client     *)
(* relies on when it shuts the queue down after its last child.  A rank    *)
(* that grows from parent to child stands for "forest".                    *)
(***************************************************************************)
EXTENDS GrpcStream, StreamProcessorProofs, WellFoundedInduction

Ranked(rank) ==
    /\ rank \in [Contexts -> Nat]
    /\ \A c \in Contexts : Alive(c) /\ parent[c] # Client => rank[parent[c]] < rank[c]

Forest ==
    /\ \A c \in Contexts : Alive(c) /\ parent[c] # Client => Alive(parent[c])
    /\ \E rank : Ranked(rank)

PointersOK ==
    /\ \A c \in Contexts : held[c] \/ c \in cancelling \cup collected => Alive(c)
    /\ \A s \in Subscriptions : sub[s] = "kept" => subOf[s] \in Contexts /\ Alive(subOf[s])

ContextInv ==
    /\ ContextTypeOK /\ Forest /\ PointersOK
    /\ ShutdownIsLast /\ CancelReachesSubtree

\* A stream that was started holds its context until it has finished, and Start
\* holds it until it returns.
ContextIsHeld ==
    (conn \in {"pending", "ok"} /\ ~finished) \/ starting # "no"
        => streamCtx \in Contexts /\ held[streamCtx]

ClientInv == TypeOK /\ StreamInv /\ ContextInv /\ ContextIsHeld

----------------------------------------------------------------------------
\* A forest with a live context has a live root: the one of the least rank.
LEMMA RootExists ==
    ASSUME NEW L, NEW P \in [Contexts -> Contexts \cup {Client}],
           NEW rank \in [Contexts -> Nat],
           \A c \in Contexts : L[c] = "alive" /\ P[c] # Client
                => L[P[c]] = "alive" /\ rank[P[c]] < rank[c],
           NEW d \in Contexts, L[d] = "alive"
    PROVE  \E c \in Contexts : L[c] = "alive" /\ P[c] = Client
<1> DEFINE R == {rank[c] : c \in {x \in Contexts : L[x] = "alive"}}
<1>1. R \subseteq Nat /\ R # {}
  OBVIOUS
<1> HIDE DEF R
<1>2. \E x \in R : \A y \in R : ~ (<<y, x>> \in OpToRel(<, Nat))
  BY Zenon, <1>1, NatLessThanWellFounded, WFMin
<1>3. PICK x \in R : \A y \in R : ~ (<<y, x>> \in OpToRel(<, Nat))
  BY Zenon, <1>2
<1>4. PICK c \in Contexts : L[c] = "alive" /\ rank[c] = x
  BY Zenon, <1>3 DEF R
<1>5. CASE P[c] # Client
  <2>1. P[c] \in Contexts /\ L[P[c]] = "alive" /\ rank[P[c]] < rank[c]
    BY <1>4, <1>5
  <2>2. rank[P[c]] \in R
    BY <2>1 DEF R
  <2>3. ~ (<<rank[P[c]], x>> \in {ss \in Nat \X Nat : ss[1] < ss[2]})
    BY <1>3, <2>2 DEF OpToRel
  <2>4. rank[P[c]] \in Nat /\ x \in Nat
    BY Zenon, <1>1, <1>3, <2>2
  <2> QED
    BY <1>4, <2>1, <2>3, <2>4
<1> QED
  BY <1>4, <1>5

\* A client without children has no live context at all, now and after a step.
LEMMA NoRootNoContext ==
    ASSUME ContextTypeOK, Forest, ChildrenOf(Client) = {}
    PROVE  \A d \in Contexts : ~Alive(d)
<1>1. PICK rank : Ranked(rank)
  BY DEF Forest
<1>2. \A c \in Contexts : life[c] = "alive" /\ parent[c] # Client
          => life[parent[c]] = "alive" /\ rank[parent[c]] < rank[c]
  BY <1>1 DEF Forest, Ranked, Alive
<1>3. ~ \E c \in Contexts : life[c] = "alive" /\ parent[c] = Client
  BY DEF ChildrenOf, Alive
<1>4. parent \in [Contexts -> Contexts \cup {Client}] /\ rank \in [Contexts -> Nat]
  BY <1>1 DEF Ranked, ContextTypeOK
<1> QED
  BY <1>2, <1>3, <1>4, RootExists DEF Alive

LEMMA NoRootNoContextNext ==
    ASSUME ContextTypeOK', Forest', ChildrenOf(Client)' = {}
    PROVE  \A d \in Contexts : ~Alive(d)'
<1>1. PICK rank : rank \in [Contexts -> Nat]
          /\ \A c \in Contexts : life'[c] = "alive" /\ parent'[c] # Client
                 => rank[parent'[c]] < rank[c]
  BY DEF Forest, Ranked, Alive
<1>2. \A c \in Contexts : life'[c] = "alive" /\ parent'[c] # Client
          => life'[parent'[c]] = "alive" /\ rank[parent'[c]] < rank[c]
  BY <1>1 DEF Forest, Alive
<1>3. ~ \E c \in Contexts : life'[c] = "alive" /\ parent'[c] = Client
  BY DEF ChildrenOf, Alive
<1>4. parent' \in [Contexts -> Contexts \cup {Client}]
  BY DEF ContextTypeOK
<1> QED
  BY <1>1, <1>2, <1>3, <1>4, RootExists DEF Alive

----------------------------------------------------------------------------
\* Steps that change neither life nor parents keep the forest.
LEMMA SameForest ==
    ASSUME Forest, UNCHANGED <<life, parent>>
    PROVE  Forest'
  BY DEF Forest, Ranked, Alive

LEMMA CreateKeeps ==
    ASSUME ContextInv, NEW p \in Contexts \cup {Client}, NEW c \in Contexts,
           CreateContext(p, c)
    PROVE  ContextInv'
<1> USE DEF ContextInv
<1>1. /\ MayCreate(p) /\ life[c] = "none"
      /\ life' = [life EXCEPT ![c] = "alive"]
      /\ parent' = [parent EXCEPT ![c] = p]
      /\ held' = [held EXCEPT ![c] = TRUE]
      /\ flag' = [flag EXCEPT ![c] = BornCancelled(p)]
      /\ UNCHANGED <<state, shutdown, cancelling, collected, subOf, sub>>
  BY DEF CreateContext
<1>2. BornCancelled(p) \in BOOLEAN
  BY DEF BornCancelled, ContextTypeOK
<1>3. ContextTypeOK'
  BY <1>1, <1>2 DEF ContextTypeOK
<1>4. /\ life'[c] = "alive" /\ parent'[c] = p
      /\ held'[c] = TRUE /\ flag'[c] = BornCancelled(p)
      /\ \A d \in Contexts \ {c} :
            /\ life'[d] = life[d] /\ parent'[d] = parent[d]
            /\ held'[d] = held[d] /\ flag'[d] = flag[d]
  BY <1>1 DEF ContextTypeOK
<1>5. ~Alive(c) /\ (p # Client => p \in Contexts /\ Alive(p) /\ p # c)
  BY <1>1, ClientIsNoContext DEF MayCreate, Alive
<1>6. \A d \in Contexts : Alive(d) => d # c /\ parent[d] # c
  BY <1>5, ClientIsNoContext DEF Forest
<1>7. Forest'
  <2>1. \A d \in Contexts : Alive(d)' /\ parent'[d] # Client => life'[parent'[d]] = "alive"
    <3> SUFFICES ASSUME NEW d \in Contexts, Alive(d)', parent'[d] # Client
                 PROVE  life'[parent'[d]] = "alive"
      OBVIOUS
    <3>1. CASE d = c
      BY <1>4, <1>5, <3>1 DEF Alive
    <3>2. CASE d # c
      <4>1. Alive(d) /\ parent'[d] = parent[d]
        BY <1>4, <3>2 DEF Alive
      <4>2. parent[d] \in Contexts \ {c} /\ Alive(parent[d])
        BY <1>6, <4>1 DEF Forest, ContextTypeOK
      <4> QED
        BY <1>4, <4>1, <4>2 DEF Alive
    <3> QED
      BY <3>1, <3>2
  <2>2. PICK rank : Ranked(rank)
    BY DEF Forest
  <2> DEFINE new == [rank EXCEPT ![c] = IF p = Client THEN 0 ELSE rank[p] + 1]
  <2>3. new \in [Contexts -> Nat]
    BY <1>5, <2>2 DEF Ranked
  <2>4. ASSUME NEW d \in Contexts, Alive(d)', parent'[d] # Client
        PROVE  new[parent'[d]] < new[d]
    <3>1. CASE d = c
      <4>1. new[c] = rank[p] + 1 /\ new[p] = rank[p] /\ rank[p] \in Nat
        BY SMTT(30), <1>4, <1>5, <2>2, <2>4, <3>1 DEF Ranked
      <4> QED
        BY SMTT(30), <1>4, <3>1, <4>1
    <3>2. CASE d # c
      <4>1. Alive(d) /\ parent'[d] = parent[d]
        BY <1>4, <2>4, <3>2 DEF Alive
      <4>2. parent[d] \in Contexts \ {c} /\ rank[parent[d]] < rank[d]
        BY <1>6, <2>2, <2>4, <4>1 DEF Ranked, ContextTypeOK
      <4> QED
        BY SMTT(30), <2>2, <3>2, <4>1, <4>2 DEF Ranked
    <3> QED
      BY <3>1, <3>2
  <2> HIDE DEF new
  <2>5. Ranked(new)'
    BY <2>3, <2>4 DEF Ranked
  <2> QED
    BY <2>1, <2>5 DEF Forest, Alive
<1>8. PointersOK'
  BY <1>1, <1>4, <1>6 DEF PointersOK, Alive
<1>9. ShutdownIsLast'
  BY <1>1, <1>5 DEF ShutdownIsLast, MayCreate
<1>10. CancelReachesSubtree'
  <2>1. ASSUME NEW d \in Contexts, Alive(d)', held'[d], parent'[d] # Client, flag'[parent'[d]]
        PROVE  flag'[d] \/ d \in collected'
    <3>1. CASE d = c
      BY Zenon, <1>4, <1>5, <2>1, <3>1 DEF BornCancelled
    <3>2. CASE d # c
      <4>1. Alive(d) /\ held[d] /\ parent'[d] = parent[d]
        BY <1>4, <2>1, <3>2 DEF Alive
      <4>2. parent[d] \in Contexts \ {c}
        BY SMTT(30), <1>6, <2>1, <4>1 DEF ContextTypeOK
      <4>3. flag[parent[d]]
        BY SMTT(30), <1>4, <2>1, <4>1, <4>2
      <4> QED
        BY <1>1, <1>4, <2>1, <3>2, <4>1, <4>3 DEF CancelReachesSubtree
    <3> QED
      BY <3>1, <3>2
  <2>2. ASSUME NEW s \in Subscriptions, sub'[s] = "kept" PROVE ~flag'[subOf'[s]]
    <3>1. subOf[s] \in Contexts \ {c} /\ ~flag[subOf[s]]
      BY <1>1, <1>5, <2>2 DEF PointersOK, CancelReachesSubtree
    <3> QED
      BY SMTT(30), <1>1, <1>4, <3>1
  <2> QED
    BY <2>1, <2>2 DEF CancelReachesSubtree
<1> QED
  BY <1>3, <1>7, <1>8, <1>9, <1>10

LEMMA ReleaseKeeps ==
    ASSUME ContextInv, NEW c \in Contexts, Release(c)
    PROVE  ContextInv'
<1> USE DEF ContextInv
<1>1. /\ held' = [held EXCEPT ![c] = FALSE]
      /\ UNCHANGED <<state, shutdown, life, parent, flag, cancelling,
                     collected, subOf, sub>>
  BY DEF Release
<1>2. ContextTypeOK'
  BY <1>1 DEF ContextTypeOK
<1>3. \A d \in Contexts : held'[d] => held[d]
  BY <1>1 DEF ContextTypeOK
<1>4. Forest'
  BY <1>1, SameForest
<1>5. PointersOK'
  BY <1>1, <1>3 DEF PointersOK, Alive
<1>6. ShutdownIsLast'
  BY <1>1 DEF ShutdownIsLast, Alive
<1>7. CancelReachesSubtree'
  BY SMTT(30), <1>1, <1>3 DEF CancelReachesSubtree, Alive
<1> QED
  BY <1>2, <1>4, <1>5, <1>6, <1>7

LEMMA ForgetKeeps ==
    ASSUME ContextInv, NEW c \in Contexts, Forget(c)
    PROVE  ContextInv'
<1> USE DEF ContextInv
<1>1. /\ Alive(c) /\ ~Referenced(c)
      /\ life' = [life EXCEPT ![c] = "gone"]
      /\ sub' = [s \in Subscriptions |->
                     IF subOf[s] = c /\ sub[s] = "kept" THEN "dropped" ELSE sub[s]]
      /\ shutdown' = (shutdown \/ LastContext(c))
      /\ UNCHANGED <<state, parent, held, flag, cancelling, collected, subOf>>
  BY DEF Forget
<1>2. ContextTypeOK'
  <2>1. shutdown' \in BOOLEAN
    BY <1>1
  <2>2. sub' \in [Subscriptions -> {"new", "kept", "due", "late", "ran", "dropped"}]
    BY <1>1 DEF ContextTypeOK
  <2> QED
    BY SMTT(30), <1>1, <2>1, <2>2 DEF ContextTypeOK
<1>3. /\ life'[c] = "gone"
      /\ \A d \in Contexts \ {c} : life'[d] = life[d]
      /\ \A d \in Contexts : Alive(d)' => Alive(d) /\ d # c
  BY <1>1 DEF ContextTypeOK, Alive
<1>4. /\ \A d \in Contexts : Alive(d) => parent[d] # c
      /\ ~held[c] /\ c \notin cancelling \cup collected
  BY <1>1 DEF Referenced, ChildrenOf
<1>5. \A s \in Subscriptions : sub'[s] = "kept" => sub[s] = "kept" /\ subOf[s] # c
  BY <1>1
<1>6. Forest'
  <2>1. ASSUME NEW d \in Contexts, Alive(d)', parent'[d] # Client
        PROVE  life'[parent'[d]] = "alive"
    <3>1. Alive(d) /\ parent'[d] = parent[d]
      BY SMTT(30), <1>1, <1>3, <2>1
    <3>2. parent[d] \in Contexts \ {c} /\ Alive(parent[d])
      BY <1>4, <2>1, <3>1 DEF Forest, ContextTypeOK
    <3> QED
      BY SMTT(30), <1>3, <3>1, <3>2 DEF Alive
  <2>2. PICK rank : Ranked(rank)
    BY DEF Forest
  <2>3. Ranked(rank)'
    BY SMTT(30), <1>1, <1>3, <2>2 DEF Ranked
  <2> QED
    BY <2>1, <2>3 DEF Forest, Alive
<1>7. PointersOK'
  BY <1>1, <1>3, <1>4, <1>5 DEF PointersOK, Alive
<1>8. ShutdownIsLast'
  <2>1. CASE shutdown
    BY <1>1, <2>1 DEF ShutdownIsLast
  <2>2. CASE LastContext(c)
    <3>1. ChildrenOf(Client)' = {}
      BY <1>1, <1>3, <2>2 DEF LastContext, ChildrenOf
    <3>2. \A d \in Contexts : ~Alive(d)'
      BY SMTT(30), <1>2, <1>6, <3>1, NoRootNoContextNext
    <3> QED
      BY <1>1, <2>2, <3>2 DEF ShutdownIsLast, LastContext
  <2>3. CASE ~shutdown /\ ~LastContext(c)
    BY Zenon, <1>1, <2>3 DEF ShutdownIsLast
  <2> QED
    BY SMTT(30), <2>1, <2>2, <2>3
<1>9. CancelReachesSubtree'
  BY <1>1, <1>3, <1>5 DEF CancelReachesSubtree
<1> QED
  BY <1>2, <1>6, <1>7, <1>8, <1>9

LEMMA SubscribeKeeps ==
    ASSUME ContextInv, NEW s \in Subscriptions, NEW c \in Contexts,
           SubscribeCancel(s, c)
    PROVE  ContextInv'
<1> USE DEF ContextInv
<1>1. /\ Alive(c)
      /\ subOf' = [subOf EXCEPT ![s] = c]
      /\ sub' = [sub EXCEPT ![s] = SubscribesAs(c)]
      /\ UNCHANGED <<state, shutdown, life, parent, held, flag, cancelling,
                     collected>>
  BY DEF SubscribeCancel
<1>2. SubscribesAs(c) \in {"late", "kept"} /\ (SubscribesAs(c) = "kept" => ~flag[c])
  BY DEF SubscribesAs
<1>3. ContextTypeOK'
  BY <1>1, <1>2 DEF ContextTypeOK
<1>4. /\ subOf'[s] = c /\ sub'[s] = SubscribesAs(c)
      /\ \A t \in Subscriptions \ {s} : subOf'[t] = subOf[t] /\ sub'[t] = sub[t]
  BY <1>1 DEF ContextTypeOK
<1>5. Forest'
  BY <1>1, SameForest
<1>6. PointersOK'
  BY <1>1, <1>4 DEF PointersOK, Alive
<1>7. ShutdownIsLast'
  BY SMTT(30), <1>1 DEF ShutdownIsLast, Alive
<1>8. CancelReachesSubtree'
  BY SMTT(30), <1>1, <1>2, <1>4 DEF CancelReachesSubtree, Alive
<1> QED
  BY <1>3, <1>5, <1>6, <1>7, <1>8

LEMMA CallbackKeeps ==
    ASSUME ContextInv, NEW s \in Subscriptions, RunCallback(s)
    PROVE  ContextInv'
<1> USE DEF ContextInv
<1>1. /\ sub' = [sub EXCEPT ![s] = "ran"]
      /\ UNCHANGED <<state, shutdown, life, parent, held, flag, cancelling,
                     collected, subOf>>
  BY DEF RunCallback
<1>2. ContextTypeOK'
  BY <1>1 DEF ContextTypeOK
<1>3. \A t \in Subscriptions : sub'[t] = "kept" => sub[t] = "kept"
  BY <1>1 DEF ContextTypeOK
<1>4. Forest'
  BY <1>1, SameForest
<1>5. PointersOK'
  BY <1>1, <1>3 DEF PointersOK, Alive
<1>6. ShutdownIsLast'
  BY <1>1 DEF ShutdownIsLast, Alive
<1>7. CancelReachesSubtree'
  BY <1>1, <1>3 DEF CancelReachesSubtree, Alive
<1> QED
  BY <1>2, <1>4, <1>5, <1>6, <1>7

LEMMA CancelKeeps ==
    ASSUME ContextInv, NEW c \in Contexts, Alive(c),
           NEW waiting \in SUBSET collected, collected \ {c} \subseteq waiting,
           LockAndCancel(c, waiting)
    PROVE  ContextInv'
<1> USE DEF ContextInv
<1>1. /\ flag' = [flag EXCEPT ![c] = TRUE]
      /\ collected' = waiting \cup (IF flag[c] THEN {} ELSE Lockable(c))
      /\ cancelling' = IF flag[c] THEN cancelling ELSE cancelling \cup {c}
      /\ sub' = [s \in Subscriptions |->
                     IF subOf[s] = c /\ sub[s] = "kept" THEN "due" ELSE sub[s]]
      /\ UNCHANGED <<state, shutdown, life, parent, held, subOf>>
  BY DEF LockAndCancel
<1>2. \A d \in Lockable(c) : d \in Contexts /\ Alive(d)
  BY DEF Lockable, ChildrenOf
<1>3. ContextTypeOK'
  <2>1. collected' \subseteq Contexts /\ cancelling' \subseteq Contexts
    BY <1>1, <1>2 DEF ContextTypeOK
  <2>2. sub' \in [Subscriptions -> {"new", "kept", "due", "late", "ran", "dropped"}]
    BY <1>1 DEF ContextTypeOK
  <2> QED
    BY SMTT(30), <1>1, <2>1, <2>2 DEF ContextTypeOK
<1>4. flag'[c] = TRUE /\ \A d \in Contexts \ {c} : flag'[d] = flag[d]
  BY <1>1 DEF ContextTypeOK
<1>5. \A s \in Subscriptions : sub'[s] = "kept" => sub[s] = "kept" /\ subOf[s] # c
  BY <1>1
<1>6. Forest'
  BY SMTT(30), <1>1, SameForest
<1>7. PointersOK'
  BY <1>1, <1>2, <1>5 DEF PointersOK, Alive
<1>8. ShutdownIsLast'
  BY SMTT(30), <1>1 DEF ShutdownIsLast, Alive
<1>9. CancelReachesSubtree'
  <2>1. ASSUME NEW d \in Contexts, Alive(d)', held'[d], parent'[d] # Client, flag'[parent'[d]]
        PROVE  flag'[d] \/ d \in collected'
    <3>1. Alive(d) /\ held[d] /\ parent[d] # Client /\ parent[d] \in Contexts
      BY <1>1, <2>1 DEF Alive, ContextTypeOK
    <3>2. CASE d = c
      BY SMTT(30), <1>4, <3>2
    <3>3. CASE d # c /\ flag[parent[d]]
      BY SMTT(30), <1>1, <1>4, <3>1, <3>3 DEF CancelReachesSubtree
    <3>4. CASE ~flag[parent[d]]
      <4>1. parent[d] = c
        BY SMTT(30), <1>1, <1>4, <2>1, <3>1, <3>4
      <4>2. d \in Lockable(c)
        BY SMTT(30), <3>1, <4>1 DEF Lockable, ChildrenOf, Referenced
      <4> QED
        BY SMTT(30), <1>1, <3>4, <4>1, <4>2
    <3> QED
      BY SMTT(30), <3>2, <3>3, <3>4
  <2>2. ASSUME NEW s \in Subscriptions, sub'[s] = "kept" PROVE ~flag'[subOf'[s]]
    <3>1. subOf[s] \in Contexts \ {c} /\ ~flag[subOf[s]]
      BY SMTT(30), <1>5, <2>2 DEF PointersOK, CancelReachesSubtree
    <3> QED
      BY SMTT(30), <1>1, <1>4, <3>1
  <2> QED
    BY SMTT(30), <2>1, <2>2 DEF CancelReachesSubtree
<1> QED
  BY SMTT(30), <1>3, <1>6, <1>7, <1>8, <1>9

LEMMA CancelReturnsKeeps ==
    ASSUME ContextInv, NEW c \in Contexts, CancelReturns(c)
    PROVE  ContextInv'
<1> USE DEF ContextInv
<1>1. /\ cancelling' = cancelling \ {c}
      /\ UNCHANGED <<state, shutdown, life, parent, held, flag, collected,
                     subOf, sub>>
  BY DEF CancelReturns
<1>2. ContextTypeOK'
  BY <1>1 DEF ContextTypeOK
<1>3. Forest'
  BY <1>1, SameForest
<1>4. PointersOK'
  BY <1>1 DEF PointersOK, Alive
<1>5. ShutdownIsLast'
  BY <1>1 DEF ShutdownIsLast, Alive
<1>6. CancelReachesSubtree'
  BY <1>1 DEF CancelReachesSubtree, Alive
<1> QED
  BY <1>2, <1>3, <1>4, <1>5, <1>6

LEMMA StopKeeps ==
    ASSUME ContextInv, NEW silent \in BOOLEAN, StopInternal(silent)
    PROVE  ContextInv'
<1> USE DEF ContextInv
<1>1. /\ state' = IF silent THEN "STOP_SILENT" ELSE "STOP_EXPLICIT"
      /\ collected' = IF silent THEN collected
                      ELSE collected \cup Lockable(Client)
      /\ shutdown' = (shutdown \/ ChildrenOf(Client) = {})
      /\ UNCHANGED <<life, parent, held, flag, cancelling, subOf, sub>>
  BY DEF StopInternal
<1>2. \A d \in Lockable(Client) : d \in Contexts /\ Alive(d)
  BY DEF Lockable, ChildrenOf
<1>3. collected \subseteq collected' /\ \A d \in collected' : d \in Contexts /\ Alive(d)
  BY SMTT(30), <1>1, <1>2 DEF PointersOK, ContextTypeOK
<1>4. ContextTypeOK'
  BY <1>1, <1>3 DEF ContextTypeOK
<1>5. Forest'
  BY SMTT(30), <1>1, SameForest
<1>6. PointersOK'
  BY <1>1, <1>3 DEF PointersOK, Alive
<1>7. ShutdownIsLast'
  <2>1. shutdown' => \A d \in Contexts : ~Alive(d)
    BY Zenon, <1>1, NoRootNoContext DEF ShutdownIsLast
  <2> QED
    BY <1>1, <2>1 DEF ShutdownIsLast, Alive
<1>8. CancelReachesSubtree'
  BY <1>1, <1>3 DEF CancelReachesSubtree, Alive
<1> QED
  BY <1>4, <1>5, <1>6, <1>7, <1>8

LEMMA UnchangedKeeps ==
    ASSUME ContextInv, UNCHANGED contextVars
    PROVE  ContextInv'
<1> USE DEF ContextInv, contextVars
<1>1. ContextTypeOK' /\ PointersOK'
  BY DEF ContextTypeOK, PointersOK, Alive
<1>2. Forest'
  BY SameForest
<1>3. ShutdownIsLast' /\ CancelReachesSubtree'
  BY SMTT(30) DEF ShutdownIsLast, CancelReachesSubtree, Alive
<1> QED
  BY <1>1, <1>2, <1>3

----------------------------------------------------------------------------
\* What a context's users and the client itself do.
LEMMA ContextStepKeeps ==
    ASSUME ContextInv, ContextStep
    PROVE  ContextInv' /\ (streamCtx \in Contexts /\ held[streamCtx] => held'[streamCtx])
<1> USE DEF ContextInv
<1>1. ASSUME NEW c \in Contexts, c # streamCtx,
             NEW p \in (Contexts \ {streamCtx}) \cup {Client}, CreateContext(p, c)
      PROVE  ContextInv' /\ (streamCtx \in Contexts /\ held[streamCtx] => held'[streamCtx])
  <2>1. ContextInv'
    BY <1>1, CreateKeeps
  <2>2. held' = [held EXCEPT ![c] = TRUE]
    BY <1>1 DEF CreateContext
  <2> QED
    BY <1>1, <2>1, <2>2 DEF ContextTypeOK
<1>2. ASSUME NEW c \in Contexts, c # streamCtx, Release(c)
      PROVE  ContextInv' /\ (streamCtx \in Contexts /\ held[streamCtx] => held'[streamCtx])
  <2>1. ContextInv'
    BY <1>2, ReleaseKeeps
  <2>2. held' = [held EXCEPT ![c] = FALSE]
    BY <1>2 DEF Release
  <2> QED
    BY <1>2, <2>1, <2>2 DEF ContextTypeOK
<1>3. ASSUME NEW c \in Contexts, CancelContext(c)
      PROVE  ContextInv' /\ held' = held
  <2>1. Alive(c) /\ LockAndCancel(c, collected)
    BY <1>3 DEF CancelContext, PointersOK
  <2>2. held' = held
    BY <2>1 DEF LockAndCancel
  <2> QED
    BY <2>1, <2>2, CancelKeeps
<1>4. ASSUME NEW silent \in BOOLEAN, StopInternal(silent)
      PROVE  ContextInv' /\ held' = held
  BY SMTT(30), <1>4, StopKeeps DEF StopInternal
<1>5. ASSUME NEW c \in Contexts, Forget(c)
      PROVE  ContextInv' /\ held' = held
  BY Zenon, <1>5, ForgetKeeps DEF Forget
<1>6. ASSUME NEW c \in Contexts, CancelChild(c)
      PROVE  ContextInv' /\ held' = held
  <2>1. Alive(c) /\ LockAndCancel(c, collected \ {c})
    BY <1>6 DEF CancelChild, PointersOK
  <2>2. held' = held
    BY <2>1 DEF LockAndCancel
  <2>3. (collected \ {c}) \in SUBSET collected
    OBVIOUS
  <2> QED
    BY <2>1, <2>2, <2>3, CancelKeeps
<1>7. ASSUME NEW c \in Contexts, CancelReturns(c)
      PROVE  ContextInv' /\ held' = held
  BY <1>7, CancelReturnsKeeps DEF CancelReturns
<1> HIDE DEF ContextInv
<1> QED
  BY SMTT(30), <1>1, <1>2, <1>3, <1>4, <1>5, <1>6, <1>7 DEF ContextStep, UserStep, ContextRuns

\* A step of the composition is one of the stream, or leaves it alone.
LEMMA StreamSteps ==
    ASSUME [Next]_vars
    PROVE  [StreamNext]_streamVars
<1>1. CASE Next
  <2>1. (\E p \in Contexts \cup {Client}, c \in Contexts : StartStream(p, c)) => Start
    BY DEF StartStream
  <2>2. StartStreamRefused => StartRefused
    BY DEF StartStreamRefused
  <2>3. SubscribeStream \/ StartReturns \/ ContextStep => UNCHANGED streamVars
    BY DEF SubscribeStream, StartReturns, ContextStep
  <2>4. ContextCancelsStream => CancelStream \/ UNCHANGED streamVars
    BY DEF ContextCancelsStream
  <2>5. StreamFinishes => OnFinished
    BY DEF StreamFinishes
  <2>6. StreamStep => CancelStream \/ ClientStep \/ Completion
    BY DEF StreamStep, Completion
  <2> QED
    BY SMTT(30), <1>1, <2>1, <2>2, <2>3, <2>4, <2>5, <2>6 DEF Next, StreamNext, Completion
<1>2. CASE UNCHANGED vars
  BY <1>2 DEF vars
<1> QED
  BY <1>1, <1>2

\* Only Start opens a stream, and a finished one stays finished.
LEMMA OnlyStartOpens ==
    ASSUME TypeOK, StreamInv, CancelStream \/ StreamStep,
           conn' \in {"pending", "ok"} /\ ~finished'
    PROVE  conn \in {"pending", "ok"} /\ ~finished
<1>1. CASE CancelStream
  BY <1>1 DEF CancelStream
<1>2. ASSUME NEW ok \in BOOLEAN, OnConnected(ok)
      PROVE  conn = "pending" /\ finished' = finished
  BY SMTT(30), <1>2 DEF OnConnected, StreamInv, Lifecycle
<1>3. ASSUME NEW ok \in BOOLEAN, OnReadDone(ok) \/ OnWriteDone(ok)
      PROVE  UNCHANGED <<conn, finished>>
  BY Zenon, <1>3 DEF OnReadDone, OnWriteDone
<1>4. ASSUME ClientStep PROVE UNCHANGED <<conn, finished>>
  BY Zenon, <1>4 DEF ClientStep, Read, Finish, Write, AddFinishedCallback
<1> QED
  BY SMTT(30), <1>1, <1>2, <1>3, <1>4 DEF StreamStep

\* gRPC owes nothing to a stream that is not open.
LEMMA OpsAreOpen ==
    ASSUME TypeOK, StreamInv, ops # {}
    PROVE  conn \in {"pending", "ok"} /\ ~finished
<1>1. conn \in {"pending", "ok"}
  BY Zenon DEF TypeOK, StreamInv, Lifecycle
<1>2. PICK o \in {"connect", "read", "write", "finish"} : o \in ops
  BY Zenon DEF TypeOK
<1>3. ~finished
  BY <1>2 DEF TypeOK, StreamInv, Lifecycle, SidesAndOps
<1> QED
  BY <1>1, <1>3

LEMMA ClientInitInv == Init => ClientInv
<1> SUFFICES ASSUME Init PROVE ClientInv
  OBVIOUS
<1> USE DEF Init, ContextInit
<1>1. TypeOK /\ StreamInv
  BY StreamInitInv
<1>2. ContextTypeOK
  BY Zenon DEF ContextTypeOK
<1>3. \A c \in Contexts : ~Alive(c)
  BY DEF Alive
<1>4. Forest
  <2>1. Ranked([c \in Contexts |-> 0])
    BY <1>3 DEF Ranked
  <2> QED
    BY <1>3, <2>1 DEF Forest
<1>5. PointersOK /\ ShutdownIsLast /\ CancelReachesSubtree
  BY <1>3 DEF PointersOK, ShutdownIsLast, CancelReachesSubtree
<1>6. ContextIsHeld
  BY DEF ContextIsHeld, StreamInit
<1> QED
  BY <1>1, <1>2, <1>4, <1>5, <1>6 DEF ClientInv, ContextInv

LEMMA ClientStepKeeps == ClientInv /\ [Next]_vars => ClientInv'
<1> SUFFICES ASSUME ClientInv, [Next]_vars PROVE ContextInv' /\ ContextIsHeld'
  BY StreamSteps, StreamStepKeeps DEF ClientInv
<1>0. TypeOK /\ StreamInv /\ ContextInv /\ ContextIsHeld
  BY DEF ClientInv
<1>1. ASSUME NEW p \in Contexts \cup {Client}, NEW c \in Contexts, StartStream(p, c)
      PROVE  ContextInv' /\ ContextIsHeld'
  <2>1. CreateContext(p, c) /\ streamCtx' = c
    BY <1>1 DEF StartStream
  <2>2. held'[c] = TRUE
    BY <1>0, <2>1 DEF CreateContext, ContextInv, ContextTypeOK
  <2> QED
    BY <1>0, <2>1, <2>2, CreateKeeps DEF ContextIsHeld
<1>2. CASE StartStreamRefused
  <2>1. ContextInv'
    BY <1>0, <1>2, UnchangedKeeps DEF StartStreamRefused
  <2>2. conn' = "failed" /\ UNCHANGED <<held, streamCtx, starting>>
    BY <1>2 DEF StartStreamRefused, StartRefused, contextVars
  <2> QED
    BY <1>0, <2>1, <2>2 DEF ContextIsHeld
<1>3. CASE SubscribeStream
  <2>1. streamCtx \in Contexts /\ held[streamCtx]
    BY <1>0, <1>3 DEF SubscribeStream, ContextIsHeld
  <2>2. ContextInv'
    BY SMTT(30), <1>0, <1>3, <2>1, SubscribeKeeps, StreamSubscribes DEF SubscribeStream
  <2>3. UNCHANGED <<held, streamCtx>>
    BY <1>3 DEF SubscribeStream, SubscribeCancel
  <2> QED
    BY <2>1, <2>2, <2>3 DEF ContextIsHeld
<1>4. CASE StartReturns
  <2>1. /\ streamCtx \in Contexts /\ held[streamCtx]
        /\ starting' = "no" /\ streamCtx' = streamCtx /\ finished' = finished
    BY <1>0, <1>4 DEF StartReturns, ContextIsHeld, streamVars
  <2>2. CASE finished
    BY <1>0, <1>4, <2>1, <2>2, ReleaseKeeps DEF StartReturns, ContextIsHeld
  <2>3. CASE ~finished
    <3>1. UNCHANGED contextVars
      BY <1>4, <2>3 DEF StartReturns
    <3>2. held' = held
      BY <3>1 DEF contextVars
    <3> QED
      BY <1>0, <2>1, <3>1, <3>2, UnchangedKeeps DEF ContextIsHeld
  <2> QED
    BY <2>2, <2>3
<1>5. CASE ContextCancelsStream
  <2>1. ContextInv'
    BY <1>0, <1>5, CallbackKeeps, StreamSubscribes DEF ContextCancelsStream
  <2>2. UNCHANGED <<held, streamCtx, starting>>
    BY <1>5 DEF ContextCancelsStream, RunCallback
  <2>3. UNCHANGED <<conn, finished>>
    BY <1>5 DEF ContextCancelsStream, CancelStream, streamVars
  <2> QED
    BY <1>0, <2>1, <2>2, <2>3 DEF ContextIsHeld
<1>6. CASE StreamFinishes
  <2>1. finished' /\ "finish" \in ops /\ UNCHANGED <<streamCtx, starting>>
    BY <1>6 DEF StreamFinishes, OnFinished
  <2>2. streamCtx \in Contexts /\ held[streamCtx]
    BY SMTT(30), <1>0, <2>1, OpsAreOpen DEF ContextIsHeld
  <2>3. CASE starting = "no"
    BY SMTT(30), <1>0, <1>6, <2>1, <2>2, <2>3, ReleaseKeeps DEF StreamFinishes, ContextIsHeld
  <2>4. CASE starting # "no"
    <3>1. UNCHANGED contextVars
      BY <1>6, <2>4 DEF StreamFinishes
    <3>2. held' = held
      BY <3>1 DEF contextVars
    <3> QED
      BY <1>0, <2>1, <2>2, <3>1, <3>2, UnchangedKeeps DEF ContextIsHeld
  <2> QED
    BY <2>3, <2>4
<1>7. CASE StreamStep
  <2>1. UNCHANGED <<contextVars, streamCtx, starting>>
    BY <1>7 DEF StreamStep
  <2>2. held' = held
    BY <2>1 DEF contextVars
  <2> QED
    BY <1>0, <1>7, <2>1, <2>2, UnchangedKeeps, OnlyStartOpens DEF ContextIsHeld
<1>8. CASE ContextStep
  <2>1. UNCHANGED <<conn, finished, streamCtx, starting>>
    BY <1>8 DEF ContextStep, streamVars
  <2> QED
    BY SMTT(30), <1>0, <1>8, <2>1, ContextStepKeeps DEF ContextIsHeld
<1>9. CASE UNCHANGED vars
  <2>1. UNCHANGED <<contextVars, held, conn, finished, streamCtx, starting>>
    BY <1>9 DEF vars, contextVars, streamVars
  <2> QED
    BY SMTT(30), <1>0, <2>1, UnchangedKeeps DEF ContextIsHeld
<1> QED
  BY <1>1, <1>2, <1>3, <1>4, <1>5, <1>6, <1>7, <1>8, <1>9 DEF Next

----------------------------------------------------------------------------
\* ClientInv is inductive: it holds whatever contexts, streams and stops do.
THEOREM ClientInvariant == Spec => []ClientInv
BY ClientInitInv, ClientStepKeeps, PTL DEF Spec

\* Start, OnFinished and the callback of the context use the processor as its
\* users may: what is proved of StreamSpec holds of a stream on its client.
THEOREM StreamOnClient == Spec => StreamSpec
<1>1. Init => StreamInit
  BY DEF Init
<1>2. [Next]_vars => [StreamNext]_streamVars
  BY StreamSteps
<1> QED
  BY <1>1, <1>2, PTL DEF Spec, StreamSpec

\* Cancel reaches the subtree of a context and every subscription to it,
\* whatever is created, released or subscribed meanwhile.
THEOREM CancelReaches == Spec => []CancelReachesSubtree
<1>1. ClientInv => CancelReachesSubtree
  BY DEF ClientInv, ContextInv
<1> QED
  BY <1>1, ClientInvariant, PTL

\* The queue is shut down after the last context and the last operation of
\* the stream: ForgetContext may rely on the client's own children.
THEOREM QueueOutlives == Spec => []QueueOutlivesStream
<1>1. ClientInv => QueueOutlivesStream
  <2> SUFFICES ASSUME ClientInv PROVE QueueOutlivesStream
    OBVIOUS
  <2>1. TypeOK /\ StreamInv /\ ContextInv /\ ContextIsHeld
    BY DEF ClientInv
  <2>2. ASSUME ops # {} PROVE ~shutdown /\ Alive(streamCtx) /\ held[streamCtx]
    <3>1. streamCtx \in Contexts /\ held[streamCtx]
      BY <2>1, <2>2, OpsAreOpen DEF ContextIsHeld
    <3>2. Alive(streamCtx)
      BY <2>1, <3>1 DEF ContextInv, PointersOK
    <3> QED
      BY <2>1, <3>1, <3>2 DEF ContextInv, ShutdownIsLast
  <2> QED
    BY <2>1, <2>2 DEF ContextInv, QueueOutlivesStream
<1> QED
  BY <1>1, ClientInvariant, PTL
=============================================================================
