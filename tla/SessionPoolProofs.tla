-------------------------- MODULE SessionPoolProofs --------------------------
(***************************************************************************)
(* Proofs, for any number of sessions, callers and limits, of the safety    *)
(* properties of SessionPool.                                              *)
(***************************************************************************)
EXTENDS SessionPool, FiniteSetTheorems, TLAPS

\* What holds of each session object: which fields may take which values at
\* each place of the owning thread, and what the stream reader may still do.
SessionOK(x) ==
    /\ x.loc \in {"pool", "checkout", "evict"} => x.state = "S_IDLE"
    /\ x.loc = "pool" => x.handler
    /\ x.loc = "pool" /\ x.closeRequested => x.stream \in {"loading", "closing"}
    /\ x.loc = "checking" => x.handler
    /\ x.loc \in {"pool", "evict", "keepalive"} => ~x.needUpdate
    /\ x.loc = "user" => x.needUpdate
    /\ x.loc = "keepalive" => x.state \in {"S_IDLE", "S_BROKEN"}
    /\ x.loc \in {"returning", "checking"} /\ ~x.closeRequested
          => x.state = "S_IDLE" /\ ~x.needUpdate
    /\ x.loc \in {"deleting", "releasing"} /\ x.state = "S_ACTIVE"
          => x.closeRequested \/ x.stream # "reading"

\* How the two clients differ: only Query sessions have a stream reader, only
\* Table sessions leave the pool without taking a slot.
ServiceOK(x) ==
    /\ Service = "table" => x.stream = "off"
    /\ Service = "query" => x.loc # "keepalive"
    /\ Service = "query" /\ x.loc \in {"returning", "checking"} => x.wasActive

\* A terminal event leaves a mark, so that only the first one is reported.
ReportsOK(x) == x.reports <= 1 /\ (FirstTerminal(x) => x.reports = 0)

SessionsOK == \A s \in Sessions :
    SessionOK(sess[s]) /\ ServiceOK(sess[s]) /\ ReportsOK(sess[s])

\* Mtx_ is held across steps exactly by a session being returned.
MutexOK == \A s \in Sessions : sess[s].loc = "checking" <=> mtx = s

DrainOK == closed => \A s \in Sessions : sess[s].loc \notin {"pool", "checking"}

LimitOK == Service = "query" => WithinLimit

IInv == /\ TypeOK /\ SessionsOK /\ MutexOK /\ DrainOK
        /\ ActiveCounterExact /\ LimitOK

----------------------------------------------------------------------------
\* The operations on a session object keep its type.
LEMMA SessionOpsType ==
    /\ NewSession \in Session
    /\ \A x \in Session : Destroyed(x) \in Session
    /\ \A n \in 0..RetryLimit : Creating(n) \in Session
    /\ MarkBroken(NewSession) \in Session
    /\ MarkActive(NewSession) \in Session
<1>1. NewSession \in Session
  BY LimitsNat DEF NewSession, Session, Locs, States, Streams
<1>2. \A x \in Session : Destroyed(x) \in Session
  BY Zenon, <1>1 DEF Destroyed, Session
<1>3. \A n \in 0..RetryLimit : Creating(n) \in Session
  BY Zenon, <1>1 DEF Creating, Session, Locs
<1>4. MarkBroken(NewSession) \in Session
  BY Zenon, <1>1 DEF MarkBroken, Session, States
<1>5. MarkActive(NewSession) \in Session
  BY Zenon, <1>1 DEF MarkActive, Session, States
<1>6. QED
  BY <1>1, <1>2, <1>3, <1>4, <1>5

\* Replacing or not replacing one element in a finite set.
LEMMA CardinalityOfUpdate ==
    ASSUME NEW S, NEW T, NEW s, IsFiniteSet(S), T \ {s} = S \ {s}
    PROVE  /\ IsFiniteSet(T)
           /\ Cardinality(S) \in Nat
           /\ Cardinality(T) = Cardinality(S) + (IF s \in T THEN 1 ELSE 0)
                                              - (IF s \in S THEN 1 ELSE 0)
<1>1. Cardinality(S) \in Nat
  BY FS_CardinalityType
<1>2. CASE s \in S /\ s \notin T
  <2>1. T = S \ {s}
    BY <1>2
  <2>2. QED
    BY <2>1, <1>1, <1>2, FS_RemoveElement
<1>3. CASE s \notin S /\ s \in T
  <2>1. T = S \cup {s}
    BY <1>3
  <2>2. QED
    BY <2>1, <1>1, <1>3, FS_AddElement
<1>4. CASE (s \in S) <=> (s \in T)
  <2>1. T = S
    BY <1>4
  <2>2. QED
    BY <2>1, <1>1, <1>4
<1>5. QED
  BY <1>2, <1>3, <1>4

Slot(x) == IF HoldsSlot(x) THEN 1 ELSE 0

Idle(x) == IF x.loc = "pool" THEN 1 ELSE 0

\* The step turns session s into y: the new object satisfies the per-session
\* invariant, ActiveSessions_ moves with the slot of the object, and the limit
\* is respected.
StepTo(s, y) ==
    /\ y \in Session
    /\ sess' = [sess EXCEPT ![s] = y]
    /\ SessionOK(y) /\ ServiceOK(y) /\ ReportsOK(y)
    /\ waiters' \subseteq Requests
    /\ closed' = closed
    /\ closed => y.loc \notin {"pool", "checking"}
    /\ \/ y.loc = "checking" /\ mtx' = s /\ mtx \in {"free", s}
       \/ y.loc # "checking" /\ mtx' = "free" /\ mtx = s
       \/ y.loc # "checking" /\ mtx' = mtx /\ mtx # s
    /\ active' = active + Slot(y) - Slot(sess[s])
    /\ Service = "query" =>
          \/ active' + Idle(y) <= active + Idle(sess[s])
          \/ Pool = {} /\ y.loc # "pool" /\ BelowLimit /\ active' = active + 1

\* Such a step preserves the invariant.
LEMMA OneSessionStep ==
    ASSUME IInv, NEW s \in Sessions, NEW y, StepTo(s, y)
    PROVE  IInv'
<1> USE DEF IInv, StepTo
<1>1. /\ sess' \in [Sessions -> Session]
      /\ sess'[s] = y
      /\ \A r \in Sessions \ {s} : sess'[r] = sess[r]
  BY DEF TypeOK
<1>2. TypeOK'
  <2>1. active' \in Int
    BY DEF TypeOK, Slot
  <2>2. QED
    BY <1>1, <2>1 DEF TypeOK
<1>3. SessionsOK'
  BY <1>1 DEF SessionsOK, SessionOK, ServiceOK, ReportsOK, FirstTerminal
<1>4. MutexOK'
  BY <1>1, FreeNotSession DEF MutexOK
<1>5. DrainOK'
  BY <1>1 DEF DrainOK
<1>6. IsFiniteSet(SlotHolders) /\ IsFiniteSet(Pool)
  BY SessionsFinite, FS_Subset DEF SlotHolders, Pool, At
<1>7. ActiveCounterExact'
  <2>1. SlotHolders' \ {s} = SlotHolders \ {s}
    BY <1>1 DEF SlotHolders, HoldsSlot
  <2>2. /\ (s \in SlotHolders') <=> HoldsSlot(y)
        /\ (s \in SlotHolders) <=> HoldsSlot(sess[s])
    BY <1>1 DEF SlotHolders, HoldsSlot
  <2>3. /\ Cardinality(SlotHolders) \in Nat
        /\ Cardinality(SlotHolders') = Cardinality(SlotHolders)
              + (IF s \in SlotHolders' THEN 1 ELSE 0)
              - (IF s \in SlotHolders THEN 1 ELSE 0)
    BY <1>6, <2>1, CardinalityOfUpdate
  <2>4. QED
    BY <2>2, <2>3 DEF ActiveCounterExact, Slot
<1>8. LimitOK'
  <2>1. Pool' \ {s} = Pool \ {s}
    BY <1>1 DEF Pool, At
  <2>2. /\ (s \in Pool') <=> (y.loc = "pool")
        /\ (s \in Pool) <=> (sess[s].loc = "pool")
    BY <1>1 DEF Pool, At
  <2>3. /\ Cardinality(Pool) \in Nat
        /\ Cardinality(Pool') = Cardinality(Pool)
              + (IF s \in Pool' THEN 1 ELSE 0)
              - (IF s \in Pool THEN 1 ELSE 0)
    BY <1>6, <2>1, CardinalityOfUpdate
  <2>4. Cardinality({}) = 0
    BY FS_EmptySet
  <2>5. active \in Int /\ active' \in Int
    BY <1>2 DEF TypeOK
  <2>6. SUFFICES ASSUME Service = "query", MaxActive # 0
                 PROVE  active' + Cardinality(Pool') <= MaxActive
    BY DEF LimitOK, WithinLimit
  <2>7. active + Cardinality(Pool) <= MaxActive
    BY <2>6 DEF LimitOK, WithinLimit
  <2>8. Cardinality(Pool') = Cardinality(Pool) + Idle(y) - Idle(sess[s])
    BY <2>2, <2>3 DEF Idle
  <2>9. CASE active' + Idle(y) <= active + Idle(sess[s])
    <3>1. Idle(y) \in Int /\ Idle(sess[s]) \in Int
      BY DEF Idle
    <3>2. QED
      BY <2>3, <2>5, <2>7, <2>8, <2>9, <3>1, LimitsNat
  <2>10. CASE Pool = {} /\ y.loc # "pool" /\ BelowLimit /\ active' = active + 1
    <3>1. Cardinality(Pool') = 0
      BY <2>2, <2>3, <2>4, <2>10
    <3>2. QED
      BY <2>5, <2>6, <2>10, <3>1, LimitsNat DEF BelowLimit
  <2>11. QED
    BY <2>6, <2>9, <2>10
<1>9. QED
  BY <1>2, <1>3, <1>4, <1>5, <1>7, <1>8


\* What the invariant says about one session.
Facts(s) ==
    /\ sess[s] \in Session
    /\ SessionOK(sess[s]) /\ ServiceOK(sess[s]) /\ ReportsOK(sess[s])
    /\ active \in Int /\ waiters \subseteq Requests
    /\ (sess[s].loc = "checking") <=> (mtx = s)
    /\ closed => sess[s].loc \notin {"pool", "checking"}

\* The facts about a session follow from the invariant.
LEMMA SessionFacts ==
    ASSUME IInv, NEW s \in Sessions
    PROVE  Facts(s)
BY DEF Facts, IInv, TypeOK, SessionsOK, MutexOK, DrainOK

\* Recording the close of a broken session.
LEMMA ExecuteMarkBroken ==
    ASSUME NEW x \in Session, NEW z, z = Execute(x, MarkBroken(x))
    PROVE  /\ z \in Session /\ z.state = "S_BROKEN"
           /\ z.needUpdate <=> (x.needUpdate \/ x.state = "S_ACTIVE")
           /\ z.loc = x.loc /\ z.closeRequested = x.closeRequested
           /\ z.handler = x.handler /\ z.stream = x.stream
           /\ z.wasActive = x.wasActive
           /\ ReportsOK(x) => ReportsOK(z)
<1> DEFINE b == MarkBroken(x)
<1>1. /\ b \in Session /\ b.state = "S_BROKEN"
      /\ b.needUpdate = (x.needUpdate \/ x.state = "S_ACTIVE")
      /\ b.loc = x.loc /\ b.closeRequested = x.closeRequested
      /\ b.handler = x.handler /\ b.stream = x.stream
      /\ b.wasActive = x.wasActive /\ b.reports = x.reports
  BY Zenon DEF MarkBroken, Session, States
<1> HIDE DEF b
<1>2. CASE FirstTerminal(x)
  <2>1. z = [b EXCEPT !.reports = @ + 1]
    BY <1>2 DEF Execute, b
  <2>2. QED
    BY <1>1, <1>2, <2>1 DEF Session, ReportsOK, FirstTerminal
<1>3. CASE ~FirstTerminal(x)
  <2>1. z = b
    BY <1>3 DEF Execute, b
  <2>2. QED
    BY Zenon, <1>1, <1>3, <2>1 DEF ReportsOK, FirstTerminal
<1>4. QED
  BY <1>2, <1>3

\* Recording a requested close.
LEMMA ExecuteMarkAsClosing ==
    ASSUME NEW x \in Session, NEW z, z = Execute(x, MarkAsClosing(x))
    PROVE  /\ z \in Session
           /\ z.loc = x.loc /\ z.handler = x.handler /\ z.stream = x.stream
           /\ z.wasActive = x.wasActive
           /\ z.closeRequested <=> (x.closeRequested \/ x.state # "S_BROKEN")
           /\ z.needUpdate <=>
                 (x.needUpdate \/ (x.state = "S_ACTIVE" /\ ~x.closeRequested))
           /\ z.state = IF x.closeRequested \/ x.state \in {"S_BROKEN", "S_IDLE"}
                        THEN x.state ELSE "S_CLOSING"
           /\ ReportsOK(x) => ReportsOK(z)
<1> USE DEF FirstTerminal
<1>1. CASE x.closeRequested \/ x.state = "S_BROKEN"
  <2>1. z = x
    BY <1>1 DEF Execute, MarkAsClosing
  <2>2. x.needUpdate \in BOOLEAN /\ x.closeRequested \in BOOLEAN
    BY DEF Session
  <2>3. QED
    BY <1>1, <2>1, <2>2
<1>2. CASE ~x.closeRequested /\ x.state = "S_IDLE"
  <2> DEFINE b == [x EXCEPT !.closeRequested = TRUE]
  <2>1. z = [b EXCEPT !.reports = @ + 1]
    BY <1>2 DEF Execute, MarkAsClosing
  <2>2. /\ b \in Session /\ b.closeRequested = TRUE
        /\ b.loc = x.loc /\ b.handler = x.handler /\ b.stream = x.stream
        /\ b.wasActive = x.wasActive /\ b.needUpdate = x.needUpdate
        /\ b.state = x.state /\ b.reports = x.reports
    BY Zenon DEF Session
  <2> HIDE DEF b
  <2>3. /\ z \in Session /\ z.closeRequested = TRUE
        /\ z.loc = x.loc /\ z.handler = x.handler /\ z.stream = x.stream
        /\ z.wasActive = x.wasActive /\ z.needUpdate = x.needUpdate
        /\ z.state = x.state /\ z.reports = x.reports + 1
    BY <2>1, <2>2 DEF Session
  <2>4. x.needUpdate \in BOOLEAN /\ x.reports \in Nat
    BY DEF Session
  <2>5. QED
    BY <1>2, <2>3, <2>4 DEF ReportsOK
<1>3. CASE ~x.closeRequested /\ x.state \notin {"S_BROKEN", "S_IDLE"}
  <2> DEFINE b == [x EXCEPT !.closeRequested = TRUE,
                            !.needUpdate = @ \/ x.state = "S_ACTIVE",
                            !.state = "S_CLOSING"]
  <2>1. z = [b EXCEPT !.reports = @ + 1]
    BY Zenon, <1>3 DEF Execute, MarkAsClosing
  <2>2. /\ b \in Session /\ b.closeRequested = TRUE
        /\ b.loc = x.loc /\ b.handler = x.handler /\ b.stream = x.stream
        /\ b.wasActive = x.wasActive
        /\ b.needUpdate <=> (x.needUpdate \/ x.state = "S_ACTIVE")
        /\ b.state = "S_CLOSING" /\ b.reports = x.reports
    BY Zenon DEF Session, States
  <2> HIDE DEF b
  <2>3. /\ z \in Session /\ z.closeRequested = TRUE
        /\ z.loc = x.loc /\ z.handler = x.handler /\ z.stream = x.stream
        /\ z.wasActive = x.wasActive
        /\ z.needUpdate <=> (x.needUpdate \/ x.state = "S_ACTIVE")
        /\ z.state = "S_CLOSING" /\ z.reports = x.reports + 1
    BY <2>1, <2>2 DEF Session
  <2>4. x.needUpdate \in BOOLEAN /\ x.reports \in Nat
    BY DEF Session
  <2>5. QED
    BY <1>3, <2>3, <2>4 DEF ReportsOK
<1>4. QED
  BY <1>1, <1>2, <1>3

\* A session handed to the caller keeps the slot taken for it.
LEMMA ReplySessionToUserStep ==
    ASSUME IInv, NEW s \in Sessions, ReplySessionToUser(s)
    PROVE  IInv'
<1>1. Facts(s)
  BY SessionFacts
<1>2. sess[s].loc = "checkout" /\ UNCHANGED <<active, closed, waiters, mtx>>
  BY DEF ReplySessionToUser
<1> DEFINE y == [MarkActive(sess[s]) EXCEPT !.needUpdate = TRUE, !.loc = "user"]
<1>3. sess' = [sess EXCEPT ![s] = y]
  BY DEF ReplySessionToUser
<1>4. y \in Session /\ y.loc = "user" /\ y.needUpdate
  BY Zenon, <1>1 DEF Facts, MarkActive, Session, Locs, States
<1>5. SessionOK(y) /\ ServiceOK(y) /\ ReportsOK(y)
  BY <1>1, <1>2 DEF Facts, MarkActive, Session, SessionOK, ServiceOK,
     ReportsOK, FirstTerminal
<1> HIDE DEF y
<1>6. StepTo(s, y)
  BY <1>1, <1>2, <1>3, <1>4, <1>5
  DEF Facts, StepTo, Slot, HoldsSlot, Idle
<1>7. QED
  BY <1>6, OneSessionStep

\* The handler is registered, or the drained pool gives the slot back.
LEMMA ReturnSessionRegisterStep ==
    ASSUME IInv, NEW s \in Sessions, ReturnSessionRegister(s)
    PROVE  IInv'
<1>1. Facts(s)
  BY SessionFacts
<1>2. /\ sess[s].loc = "returning" /\ mtx = "free"
      /\ UNCHANGED <<active, closed, waiters>>
  BY DEF ReturnSessionRegister
<1>3. ASSUME closed, UNCHANGED mtx
     PROVE  IInv'
  <2> DEFINE y == [sess[s] EXCEPT !.needUpdate = sess[s].wasActive,
                              !.loc = "deleting"]
  <2>1. sess' = [sess EXCEPT ![s] = y]
    BY <1>3 DEF ReturnSessionRegister, RefusesReturns
  <2>2. y \in Session /\ y.loc = "deleting" /\ y.needUpdate = sess[s].wasActive
    BY Zenon, <1>1 DEF Facts, Session, Locs
  <2>3. SessionOK(y) /\ ServiceOK(y) /\ ReportsOK(y)
    BY <1>1, <1>2, <1>3 DEF Facts, Session, SessionOK, ServiceOK,
       ReportsOK, FirstTerminal
  <2> HIDE DEF y
  <2>4. StepTo(s, y)
    BY <1>1, <1>2, <1>3, <2>1, <2>2, <2>3
    DEF Facts, StepTo, Slot, HoldsSlot, Idle
  <2>5. QED
    BY <2>4, OneSessionStep
<1>4. ASSUME ~closed, mtx' = s
     PROVE  IInv'
  <2> DEFINE y == [sess[s] EXCEPT !.handler = TRUE, !.loc = "checking"]
  <2>1. sess' = [sess EXCEPT ![s] = y]
    BY <1>4 DEF ReturnSessionRegister, RefusesReturns
  <2>2. y \in Session /\ y.loc = "checking" /\ y.wasActive = sess[s].wasActive
    BY Zenon, <1>1 DEF Facts, Session, Locs
  <2>3. SessionOK(y) /\ ServiceOK(y) /\ ReportsOK(y)
    BY <1>1, <1>2, <1>4 DEF Facts, Session, SessionOK, ServiceOK,
       ReportsOK, FirstTerminal
  <2> HIDE DEF y
  <2>4. StepTo(s, y)
    BY <1>1, <1>2, <1>4, <2>1, <2>2, <2>3
    DEF Facts, StepTo, Slot, HoldsSlot, Idle
  <2>5. QED
    BY <2>4, OneSessionStep
<1>5. QED
  BY <1>3, <1>4 DEF ReturnSessionRegister, RefusesReturns

\* A refused session keeps its slot until it is deleted.
LEMMA ReturnRefusedStep ==
    ASSUME IInv, NEW s \in Sessions, ReturnRefused(s)
    PROVE  IInv'
<1>1. Facts(s)
  BY SessionFacts
<1>2. /\ sess[s].loc = "checking" /\ mtx' = "free"
      /\ UNCHANGED <<active, closed, waiters>>
  BY DEF ReturnRefused
<1> DEFINE y == [sess[s] EXCEPT !.handler = FALSE,
                          !.needUpdate = sess[s].wasActive,
                          !.loc = "deleting"]
<1>3. sess' = [sess EXCEPT ![s] = y]
  BY DEF ReturnRefused
<1>4. y \in Session /\ y.loc = "deleting" /\ y.needUpdate = sess[s].wasActive
  BY Zenon, <1>1 DEF Facts, Session, Locs
<1>5. SessionOK(y) /\ ServiceOK(y) /\ ReportsOK(y)
  BY <1>1, <1>2 DEF Facts, Session, SessionOK, ServiceOK,
     ReportsOK, FirstTerminal
<1> HIDE DEF y
<1>6. StepTo(s, y)
  BY <1>1, <1>2, <1>3, <1>4, <1>5
  DEF Facts, StepTo, Slot, HoldsSlot, Idle
<1>7. QED
  BY <1>6, OneSessionStep

\* A session handed to a waiter brings its slot along or takes a new one.
LEMMA ReturnToWaiterStep ==
    ASSUME IInv, NEW s \in Sessions, ReturnToWaiter(s)
    PROVE  IInv'
<1>1. Facts(s)
  BY SessionFacts
<1>2. /\ sess[s].loc = "checking" /\ mtx' = "free"
      /\ CanReturnToPool(sess[s]) /\ waiters' \subseteq waiters
      /\ active' = IF sess[s].wasActive THEN active ELSE active + 1
      /\ UNCHANGED closed
  BY DEF ReturnToWaiter
<1> DEFINE y == [sess[s] EXCEPT !.handler = FALSE, !.loc = "checkout"]
<1>3. sess' = [sess EXCEPT ![s] = y]
  BY DEF ReturnToWaiter
<1>4. y \in Session /\ y.loc = "checkout"
  BY Zenon, <1>1 DEF Facts, Session, Locs
<1>5. SessionOK(y) /\ ServiceOK(y) /\ ReportsOK(y)
  BY <1>1, <1>2 DEF Facts, CanReturnToPool, Session, SessionOK, ServiceOK,
     ReportsOK, FirstTerminal
<1> HIDE DEF y
<1>6. Service = "query" => sess[s].wasActive
  BY <1>1, <1>2 DEF Facts, ServiceOK, SessionOK
<1>7. StepTo(s, y)
  BY <1>1, <1>2, <1>3, <1>4, <1>5, <1>6
  DEF Facts, StepTo, Slot, HoldsSlot, Idle
<1>8. QED
  BY <1>7, OneSessionStep

\* A pooled session has given its slot back.
LEMMA ReturnToPoolStep ==
    ASSUME IInv, NEW s \in Sessions, ReturnToPool(s)
    PROVE  IInv'
<1>1. Facts(s)
  BY SessionFacts
<1>2. /\ sess[s].loc = "checking" /\ mtx' = "free"
      /\ CanReturnToPool(sess[s]) /\ UNCHANGED <<closed, waiters>>
      /\ active' = IF sess[s].wasActive THEN active - 1 ELSE active
  BY DEF ReturnToPool
<1> DEFINE y == [sess[s] EXCEPT !.needUpdate = sess[s].needUpdate
                                          /\ ~sess[s].wasActive,
                          !.loc = "pool"]
<1>3. sess' = [sess EXCEPT ![s] = y]
  BY DEF ReturnToPool
<1>4. y \in Session /\ y.loc = "pool"
  BY Zenon, <1>1 DEF Facts, Session, Locs
<1>5. SessionOK(y) /\ ServiceOK(y) /\ ReportsOK(y)
  BY <1>1, <1>2 DEF Facts, CanReturnToPool, Session, SessionOK, ServiceOK,
     ReportsOK, FirstTerminal
<1> HIDE DEF y
<1>6. Service = "query" => sess[s].wasActive
  BY <1>1, <1>2 DEF Facts, ServiceOK, SessionOK
<1>7. StepTo(s, y)
  BY <1>1, <1>2, <1>3, <1>4, <1>5, <1>6
  DEF Facts, StepTo, Slot, HoldsSlot, Idle
<1>8. QED
  BY <1>7, OneSessionStep

\* A deleted session gives its slot back if it still had one.
LEMMA DeleteSessionStep ==
    ASSUME IInv, NEW s \in Sessions, DeleteSession(s)
    PROVE  IInv'
<1>1. Facts(s)
  BY SessionFacts
<1>2. /\ sess[s].loc = "releasing" /\ UNCHANGED <<closed, waiters, mtx>>
      /\ active' = IF sess[s].needUpdate THEN active - 1 ELSE active
  BY DEF DeleteSession
<1> DEFINE y == NewSession
<1>3. sess' = [sess EXCEPT ![s] = y]
  BY DEF DeleteSession
<1>4. y \in Session /\ y.loc = "none"
  BY <1>1, LimitsNat, SessionOpsType DEF Facts, NewSession
<1>5. SessionOK(y) /\ ServiceOK(y) /\ ReportsOK(y)
  BY <1>1, <1>2 DEF Facts, NewSession, Session, SessionOK, ServiceOK,
     ReportsOK, FirstTerminal
<1> HIDE DEF y
<1>6. StepTo(s, y)
  BY <1>1, <1>2, <1>3, <1>4, <1>5
  DEF Facts, StepTo, Slot, HoldsSlot, Idle
<1>7. QED
  BY <1>6, OneSessionStep

\* An evicted session has no slot.
LEMMA CloseAndDeleteSessionStep ==
    ASSUME IInv, NEW s \in Sessions, CloseAndDeleteSession(s)
    PROVE  IInv'
<1>1. Facts(s)
  BY SessionFacts
<1>2. sess[s].loc = "evict" /\ UNCHANGED <<active, closed, waiters, mtx>>
  BY DEF CloseAndDeleteSession
<1> DEFINE z == Execute(sess[s], MarkBroken(sess[s]))
<1> DEFINE y == [z EXCEPT !.loc = "deleting"]
<1>3. sess' = [sess EXCEPT ![s] = y]
  BY DEF CloseAndDeleteSession
<1>4. /\ z \in Session /\ z.state = "S_BROKEN"
      /\ z.needUpdate <=> (sess[s].needUpdate \/ sess[s].state = "S_ACTIVE")
      /\ z.loc = sess[s].loc /\ z.closeRequested = sess[s].closeRequested
      /\ z.handler = sess[s].handler /\ z.stream = sess[s].stream
      /\ z.wasActive = sess[s].wasActive /\ ReportsOK(z)
  BY <1>1, ExecuteMarkBroken DEF Facts
<1> HIDE DEF z
<1>5. y \in Session /\ y.loc = "deleting" /\ y.needUpdate = z.needUpdate
  BY <1>1, <1>4 DEF Facts, Session, Locs
<1>6. SessionOK(y) /\ ServiceOK(y) /\ ReportsOK(y)
  BY <1>1, <1>2, <1>4 DEF Facts, Session, SessionOK, ServiceOK,
     ReportsOK, FirstTerminal
<1> HIDE DEF y
<1>7. sess[s].state = "S_IDLE" /\ ~sess[s].needUpdate
  BY <1>1, <1>2 DEF Facts, ServiceOK, SessionOK
<1>8. Slot(y) = Slot(sess[s]) /\ Idle(y) = 0 /\ Idle(sess[s]) = 0
  BY <1>2, <1>5, <1>4, <1>7 DEF Slot, HoldsSlot, Idle
<1>9. StepTo(s, y)
  BY <1>1, <1>2, <1>3, <1>5, <1>6, <1>8, <1>4 DEF Facts, StepTo, Slot
<1>10. QED
  BY <1>9, OneSessionStep

\* A new session holds the slot of its creation.
LEMMA CreateSessionSucceededStep ==
    ASSUME IInv, NEW s \in Sessions, CreateSessionSucceeded(s)
    PROVE  IInv'
<1>1. Facts(s)
  BY SessionFacts
<1>2. sess[s].loc = "creating" /\ UNCHANGED <<active, closed, waiters, mtx>>
  BY DEF CreateSessionSucceeded
<1> DEFINE y == [MarkActive(NewSession) EXCEPT
                    !.loc = "user", !.needUpdate = TRUE, !.server = TRUE,
                    !.stream = IF Service = "query" THEN "reading" ELSE "off"]
<1>3. sess' = [sess EXCEPT ![s] = y]
  BY DEF CreateSessionSucceeded
<1>4. MarkActive(NewSession) \in Session
  BY SessionOpsType
<1>5. y \in Session /\ y.loc = "user" /\ y.needUpdate
  BY Zenon, <1>1, <1>4 DEF Facts, Session, Locs, Streams
<1>6. SessionOK(y) /\ ServiceOK(y) /\ ReportsOK(y)
  BY <1>1, <1>2, <1>4 DEF Facts, MarkActive, NewSession, Session, SessionOK, ServiceOK,
     ReportsOK, FirstTerminal
<1> HIDE DEF y
<1>7. StepTo(s, y)
  BY <1>1, <1>2, <1>3, <1>5, <1>6
  DEF Facts, StepTo, Slot, HoldsSlot, Idle
<1>8. QED
  BY <1>7, OneSessionStep

\* So does the broken session of a failed creation.
LEMMA CreateSessionFailedStep ==
    ASSUME IInv, NEW s \in Sessions, CreateSessionFailed(s)
    PROVE  IInv'
<1>1. Facts(s)
  BY SessionFacts
<1>2. sess[s].loc = "creating" /\ UNCHANGED <<active, closed, waiters, mtx>>
  BY DEF CreateSessionFailed
<1> DEFINE y == [MarkBroken(NewSession) EXCEPT !.loc = "user",
                                         !.needUpdate = TRUE]
<1>3. sess' = [sess EXCEPT ![s] = y]
  BY DEF CreateSessionFailed
<1>4. MarkBroken(NewSession) \in Session
  BY SessionOpsType
<1>5. y \in Session /\ y.loc = "user" /\ y.needUpdate
  BY Zenon, <1>1, <1>4 DEF Facts, Session, Locs
<1>6. SessionOK(y) /\ ServiceOK(y) /\ ReportsOK(y)
  BY <1>1, <1>2, <1>4 DEF Facts, MarkBroken, NewSession, Session, SessionOK, ServiceOK,
     ReportsOK, FirstTerminal
<1> HIDE DEF y
<1>7. StepTo(s, y)
  BY <1>1, <1>2, <1>3, <1>5, <1>6
  DEF Facts, StepTo, Slot, HoldsSlot, Idle
<1>8. QED
  BY <1>7, OneSessionStep

\* A status that ends the session does not change its slot.
LEMMA InterceptStatusStep ==
    ASSUME IInv, NEW s \in Sessions, InterceptStatus(s)
    PROVE  IInv'
<1>1. Facts(s)
  BY SessionFacts
<1>2. sess[s].loc \in {"user", "keepalive"} /\ UNCHANGED <<active, closed, waiters, mtx>>
  BY DEF InterceptStatus
<1>3. ASSUME sess' = [sess EXCEPT ![s] = Execute(@, MarkBroken(@))]
     PROVE  IInv'
  <2> DEFINE z == Execute(sess[s], MarkBroken(sess[s]))
  <2> DEFINE y == z
  <2>1. sess' = [sess EXCEPT ![s] = y]
    BY <1>3
  <2>2. /\ z \in Session /\ z.state = "S_BROKEN"
        /\ z.needUpdate <=> (sess[s].needUpdate \/ sess[s].state = "S_ACTIVE")
        /\ z.loc = sess[s].loc /\ z.closeRequested = sess[s].closeRequested
        /\ z.handler = sess[s].handler /\ z.stream = sess[s].stream
        /\ z.wasActive = sess[s].wasActive /\ ReportsOK(z)
    BY <1>1, ExecuteMarkBroken DEF Facts
  <2> HIDE DEF z
  <2>3. y \in Session /\ y.loc = sess[s].loc /\ y.needUpdate = z.needUpdate
    BY <1>1, <2>2 DEF Facts, Session
  <2>4. SessionOK(y) /\ ServiceOK(y) /\ ReportsOK(y)
    BY <1>1, <1>2, <1>3, <2>2 DEF Facts, Session, SessionOK, ServiceOK,
       ReportsOK, FirstTerminal
  <2> HIDE DEF y
  <2>5. /\ sess[s].loc = "user" => sess[s].needUpdate
        /\ sess[s].loc = "keepalive" => ~sess[s].needUpdate /\ sess[s].state # "S_ACTIVE"
    BY <1>1, <1>2, <1>3 DEF Facts, ServiceOK, SessionOK
  <2>6. Slot(y) = Slot(sess[s]) /\ Idle(y) = 0 /\ Idle(sess[s]) = 0
    BY <1>2, <2>3, <2>2, <2>5 DEF Slot, HoldsSlot, Idle
  <2>7. StepTo(s, y)
    BY SMTT(30), <1>1, <1>2, <2>1, <2>3, <2>4, <2>6, <2>2 DEF Facts, StepTo, Slot
  <2>8. QED
    BY <2>7, OneSessionStep
<1>4. ASSUME sess' = [sess EXCEPT ![s] = Execute(@, MarkAsClosing(@))]
     PROVE  IInv'
  <2> DEFINE z == Execute(sess[s], MarkAsClosing(sess[s]))
  <2> DEFINE y == z
  <2>1. sess' = [sess EXCEPT ![s] = y]
    BY <1>4
  <2>2. /\ z \in Session /\ z.loc = sess[s].loc
        /\ z.handler = sess[s].handler /\ z.stream = sess[s].stream
        /\ z.wasActive = sess[s].wasActive
        /\ z.closeRequested <=>
              (sess[s].closeRequested \/ sess[s].state # "S_BROKEN")
        /\ z.needUpdate <=> (sess[s].needUpdate
              \/ (sess[s].state = "S_ACTIVE" /\ ~sess[s].closeRequested))
        /\ z.state = IF \/ sess[s].closeRequested
                        \/ sess[s].state \in {"S_BROKEN", "S_IDLE"}
                     THEN sess[s].state ELSE "S_CLOSING"
        /\ ReportsOK(z)
    BY <1>1, ExecuteMarkAsClosing DEF Facts
  <2> HIDE DEF z
  <2>3. y \in Session /\ y.loc = sess[s].loc /\ y.needUpdate = z.needUpdate
    BY SMTT(30), <1>1, <2>2 DEF Facts, Session
  <2>4. SessionOK(y) /\ ServiceOK(y) /\ ReportsOK(y)
    BY SMTT(30), <1>1, <1>2, <1>4, <2>2 DEF Facts, Session, SessionOK, ServiceOK,
       ReportsOK, FirstTerminal
  <2> HIDE DEF y
  <2>5. /\ sess[s].loc = "user" => sess[s].needUpdate
        /\ sess[s].loc = "keepalive" => ~sess[s].needUpdate /\ sess[s].state # "S_ACTIVE"
    BY <1>1, <1>2, <1>4 DEF Facts, ServiceOK, SessionOK
  <2>6. Slot(y) = Slot(sess[s]) /\ Idle(y) = 0 /\ Idle(sess[s]) = 0
    BY SMTT(30), <1>2, <2>3, <2>2, <2>5 DEF Slot, HoldsSlot, Idle
  <2>7. StepTo(s, y)
    BY <1>1, <1>2, <2>1, <2>3, <2>4, <2>6, <2>2 DEF Facts, StepTo, Slot
  <2>8. QED
    BY <2>7, OneSessionStep
<1>5. QED
  BY <1>3, <1>4 DEF InterceptStatus

\* A session let go by its holder keeps its slot, on the way back or to deletion.
LEMMA SmartDeleterStep ==
    ASSUME IInv, NEW s \in Sessions, SmartDeleter(s)
    PROVE  IInv'
<1>1. Facts(s)
  BY SessionFacts
<1>2. sess[s].loc \in {"user", "keepalive"} /\ UNCHANGED <<active, closed, waiters, mtx>>
  BY DEF SmartDeleter
<1>3. ASSUME sess[s].state \in {"S_IDLE", "S_ACTIVE"},
            Service = "table" \/ CanMarkIdle(sess[s]),
            sess' = [sess EXCEPT ![s] =
                [MarkIdle(@) EXCEPT !.wasActive = sess[s].needUpdate,
                                    !.loc = "returning"]]
     PROVE  IInv'
  <2> DEFINE y == [MarkIdle(sess[s]) EXCEPT
                          !.wasActive = sess[s].needUpdate, !.loc = "returning"]
  <2>1. sess' = [sess EXCEPT ![s] = y]
    BY <1>3
  <2>2. y \in Session /\ y.loc = "returning" /\ y.wasActive = sess[s].needUpdate
    BY Zenon, <1>1 DEF Facts, MarkIdle, Session, Locs, States
  <2>3. SessionOK(y) /\ ServiceOK(y) /\ ReportsOK(y)
    BY <1>1, <1>2, <1>3 DEF Facts, MarkIdle, CanMarkIdle, Session, SessionOK, ServiceOK,
       ReportsOK, FirstTerminal
  <2> HIDE DEF y
  <2>4. /\ sess[s].loc = "user" => sess[s].needUpdate
        /\ sess[s].loc = "keepalive" => ~sess[s].needUpdate
    BY <1>1, <1>2, <1>3 DEF Facts, ServiceOK, SessionOK
  <2>5. Slot(y) = Slot(sess[s]) /\ Idle(y) = 0 /\ Idle(sess[s]) = 0
    BY <1>2, <2>2, <2>4 DEF Slot, HoldsSlot, Idle
  <2>6. StepTo(s, y)
    BY <1>1, <1>2, <2>1, <2>2, <2>3, <2>5 DEF Facts, StepTo, Slot
  <2>7. QED
    BY <2>6, OneSessionStep
<1>4. ASSUME \/ sess[s].state \notin {"S_IDLE", "S_ACTIVE"}
            \/ Service = "table" \/ ~CanMarkIdle(sess[s]),
            sess' = [sess EXCEPT ![s] = [@ EXCEPT !.loc = "deleting"]]
     PROVE  IInv'
  <2> DEFINE y == [sess[s] EXCEPT !.loc = "deleting"]
  <2>1. sess' = [sess EXCEPT ![s] = y]
    BY <1>4
  <2>2. y \in Session /\ y.loc = "deleting" /\ y.needUpdate = sess[s].needUpdate
    BY <1>1 DEF Facts, Session, Locs
  <2>3. SessionOK(y) /\ ServiceOK(y) /\ ReportsOK(y)
    BY <1>1, <1>2, <1>4 DEF Facts, CanMarkIdle, Session, SessionOK, ServiceOK,
       ReportsOK, FirstTerminal
  <2> HIDE DEF y
  <2>4. /\ sess[s].loc = "user" => sess[s].needUpdate
        /\ sess[s].loc = "keepalive" => ~sess[s].needUpdate
    BY <1>1, <1>2, <1>4 DEF Facts, ServiceOK, SessionOK
  <2>5. Slot(y) = Slot(sess[s]) /\ Idle(y) = 0 /\ Idle(sess[s]) = 0
    BY <1>2, <2>2, <2>4 DEF Slot, HoldsSlot, Idle
  <2>6. StepTo(s, y)
    BY <1>1, <1>2, <2>1, <2>2, <2>3, <2>5 DEF Facts, StepTo, Slot
  <2>7. QED
    BY <2>6, OneSessionStep
<1>5. QED
  BY <1>2, <1>3, <1>4 DEF SmartDeleter

\* A shutdown message changes no slot, and is on its way to the pool.
LEMMA StreamShutdownStep ==
    ASSUME IInv, NEW s \in Sessions, StreamShutdown(s)
    PROVE  IInv'
<1>1. Facts(s)
  BY SessionFacts
<1>2. sess[s].stream = "reading" /\ UNCHANGED <<active, closed, waiters, mtx>>
  BY DEF StreamShutdown
<1> DEFINE z == Execute(sess[s], MarkAsClosing(sess[s]))
<1> DEFINE y == [z EXCEPT !.stream = "loading"]
<1>3. sess' = [sess EXCEPT ![s] = y]
  BY DEF StreamShutdown
<1>4. /\ z \in Session /\ z.loc = sess[s].loc
      /\ z.handler = sess[s].handler /\ z.stream = sess[s].stream
      /\ z.wasActive = sess[s].wasActive
      /\ z.closeRequested <=>
            (sess[s].closeRequested \/ sess[s].state # "S_BROKEN")
      /\ z.needUpdate <=> (sess[s].needUpdate
            \/ (sess[s].state = "S_ACTIVE" /\ ~sess[s].closeRequested))
      /\ z.state = IF \/ sess[s].closeRequested
                      \/ sess[s].state \in {"S_BROKEN", "S_IDLE"}
                   THEN sess[s].state ELSE "S_CLOSING"
      /\ ReportsOK(z)
  BY <1>1, ExecuteMarkAsClosing DEF Facts
<1> HIDE DEF z
<1>5. y \in Session
      /\ y.loc = z.loc /\ y.needUpdate = z.needUpdate /\ y.wasActive = z.wasActive
  BY <1>1, <1>4 DEF Facts, Session, Streams
<1>6. SessionOK(y) /\ ServiceOK(y) /\ ReportsOK(y)
  BY <1>1, <1>2, <1>4 DEF Facts, Session, SessionOK, ServiceOK,
     ReportsOK, FirstTerminal
<1> HIDE DEF y
<1>7. /\ sess[s].loc = "user" => sess[s].needUpdate
      /\ sess[s].loc \in {"deleting", "releasing"} /\ sess[s].state = "S_ACTIVE"
            => sess[s].closeRequested
  BY <1>1, <1>2 DEF Facts, ServiceOK, SessionOK
<1>8. Slot(y) = Slot(sess[s]) /\ Idle(y) = Idle(sess[s])
  BY <1>2, <1>5, <1>4, <1>7 DEF Slot, HoldsSlot, Idle
<1>9. StepTo(s, y)
  BY <1>1, <1>2, <1>3, <1>5, <1>6, <1>8, <1>4 DEF Facts, StepTo, Slot, Idle
<1>10. QED
  BY <1>9, OneSessionStep

\* The end of the stream changes nothing but the reader.
LEMMA StreamBrokenStep ==
    ASSUME IInv, NEW s \in Sessions, StreamBroken(s)
    PROVE  IInv'
<1>1. Facts(s)
  BY SessionFacts
<1>2. sess[s].stream = "reading" /\ UNCHANGED <<active, closed, waiters, mtx>>
  BY DEF StreamBroken
<1> DEFINE y == [sess[s] EXCEPT !.stream = "loading"]
<1>3. sess' = [sess EXCEPT ![s] = y]
  BY DEF StreamBroken
<1>4. y \in Session
      /\ y.loc = sess[s].loc /\ y.needUpdate = sess[s].needUpdate
      /\ y.wasActive = sess[s].wasActive
  BY <1>1 DEF Facts, Session, Streams
<1>5. SessionOK(y) /\ ServiceOK(y) /\ ReportsOK(y)
  BY <1>1, <1>2 DEF Facts, Session, SessionOK, ServiceOK,
     ReportsOK, FirstTerminal
<1> HIDE DEF y
<1>6. Slot(y) = Slot(sess[s]) /\ Idle(y) = Idle(sess[s])
  BY <1>2, <1>4 DEF Slot, HoldsSlot, Idle
<1>7. StepTo(s, y)
  BY <1>1, <1>2, <1>3, <1>4, <1>5, <1>6 DEF Facts, StepTo, Slot, Idle
<1>8. QED
  BY <1>7, OneSessionStep

\* A pooled session has a handler, so the reader goes on to the pool.
LEMMA CloseFromServerStep ==
    ASSUME IInv, NEW s \in Sessions, CloseFromServer(s)
    PROVE  IInv'
<1>1. Facts(s)
  BY SessionFacts
<1>2. sess[s].stream = "loading" /\ UNCHANGED <<active, closed, waiters, mtx>>
  BY DEF CloseFromServer
<1> DEFINE y == [sess[s] EXCEPT !.stream =
                    IF sess[s].handler THEN "closing" ELSE "off"]
<1>3. sess' = [sess EXCEPT ![s] = y]
  BY DEF CloseFromServer
<1>4. y \in Session
      /\ y.loc = sess[s].loc /\ y.needUpdate = sess[s].needUpdate
      /\ y.wasActive = sess[s].wasActive
  BY <1>1 DEF Facts, Session, Streams
<1>5. SessionOK(y) /\ ServiceOK(y) /\ ReportsOK(y)
  BY <1>1, <1>2 DEF Facts, Session, SessionOK, ServiceOK,
     ReportsOK, FirstTerminal
<1> HIDE DEF y
<1>6. Slot(y) = Slot(sess[s]) /\ Idle(y) = Idle(sess[s])
  BY <1>2, <1>4 DEF Slot, HoldsSlot, Idle
<1>7. StepTo(s, y)
  BY <1>1, <1>2, <1>3, <1>4, <1>5, <1>6 DEF Facts, StepTo, Slot, Idle
<1>8. QED
  BY <1>7, OneSessionStep

\* The reader takes the session out of the pool, or leaves it to its owner.
LEMMA OnCloseSessionStep ==
    ASSUME IInv, NEW s \in Sessions, OnCloseSession(s)
    PROVE  IInv'
<1>1. Facts(s)
  BY SessionFacts
<1>2. sess[s].stream = "closing" /\ mtx = "free" /\ UNCHANGED <<active, closed, waiters, mtx>>
  BY DEF OnCloseSession
<1>3. ASSUME sess[s].loc = "pool"
     PROVE  IInv'
  <2> DEFINE y == [sess[s] EXCEPT !.loc = "evict", !.stream = "owner"]
  <2>1. sess' = [sess EXCEPT ![s] = y]
    BY <1>3 DEF OnCloseSession
  <2>2. y \in Session /\ y.loc = "evict"
    BY Zenon, <1>1 DEF Facts, Session, Locs, Streams
  <2>3. SessionOK(y) /\ ServiceOK(y) /\ ReportsOK(y)
    BY <1>1, <1>2, <1>3 DEF Facts, Session, SessionOK, ServiceOK,
       ReportsOK, FirstTerminal
  <2> HIDE DEF y
  <2>4. Slot(y) = Slot(sess[s]) /\ Idle(y) = 0 /\ Idle(sess[s]) = 1
    BY <1>2, <1>3, <2>2 DEF Slot, HoldsSlot, Idle
  <2>5. StepTo(s, y)
    BY <1>1, <1>2, <2>1, <2>2, <2>3, <2>4 DEF Facts, StepTo, Slot
  <2>6. QED
    BY <2>5, OneSessionStep
<1>4. ASSUME sess[s].loc # "pool"
     PROVE  IInv'
  <2> DEFINE y == [sess[s] EXCEPT !.stream = "off"]
  <2>1. sess' = [sess EXCEPT ![s] = y]
    BY <1>4 DEF OnCloseSession
  <2>2. y \in Session
        /\ y.loc = sess[s].loc /\ y.needUpdate = sess[s].needUpdate
        /\ y.wasActive = sess[s].wasActive
    BY <1>1 DEF Facts, Session, Streams
  <2>3. SessionOK(y) /\ ServiceOK(y) /\ ReportsOK(y)
    BY <1>1, <1>2, <1>4 DEF Facts, Session, SessionOK, ServiceOK,
       ReportsOK, FirstTerminal
  <2> HIDE DEF y
  <2>4. Slot(y) = Slot(sess[s]) /\ Idle(y) = Idle(sess[s])
    BY <1>2, <2>2 DEF Slot, HoldsSlot, Idle
  <2>5. StepTo(s, y)
    BY <1>1, <1>2, <2>1, <2>2, <2>3, <2>4 DEF Facts, StepTo, Slot, Idle
  <2>6. QED
    BY <2>5, OneSessionStep
<1>5. QED
  BY <1>3, <1>4

\* The slot of s passes to t, and neither was or is in the pool.
TransferTo(s, t, y, z) ==
    /\ s # t /\ y \in Session /\ z \in Session
    /\ sess' = [sess EXCEPT ![s] = y, ![t] = z]
    /\ SessionOK(y) /\ ServiceOK(y) /\ ReportsOK(y)
    /\ SessionOK(z) /\ ServiceOK(z) /\ ReportsOK(z)
    /\ {sess[s].loc, sess[t].loc, y.loc, z.loc} \cap {"pool", "checking"} = {}
    /\ HoldsSlot(sess[s]) /\ ~HoldsSlot(y)
    /\ ~HoldsSlot(sess[t]) /\ HoldsSlot(z)
    /\ waiters' \subseteq Requests
    /\ UNCHANGED <<active, closed, mtx>>

\* Such a step preserves the invariant.
LEMMA TransferStep ==
    ASSUME IInv, NEW s \in Sessions, NEW t \in Sessions, NEW y, NEW z,
           TransferTo(s, t, y, z)
    PROVE  IInv'
<1> USE DEF IInv, TransferTo
<1>1. /\ sess' \in [Sessions -> Session]
      /\ sess'[s] = y /\ sess'[t] = z
      /\ \A r \in Sessions \ {s, t} : sess'[r] = sess[r]
  BY DEF TypeOK
<1>2. TypeOK'
  BY SMTT(30), <1>1 DEF TypeOK
<1>3. SessionsOK'
  BY <1>1 DEF SessionsOK, SessionOK, ServiceOK, ReportsOK, FirstTerminal
<1>4. MutexOK'
  BY Zenon, <1>1 DEF MutexOK
<1>5. DrainOK'
  BY Zenon, <1>1 DEF DrainOK
<1>6. ActiveCounterExact'
  <2>1. IsFiniteSet(SlotHolders)
    BY SessionsFinite, FS_Subset DEF SlotHolders
  <2>2. /\ s \in SlotHolders /\ t \notin SlotHolders
        /\ SlotHolders' = (SlotHolders \ {s}) \cup {t}
    BY SMTT(30), <1>1 DEF SlotHolders, HoldsSlot
  <2>3. /\ IsFiniteSet(SlotHolders \ {s})
        /\ Cardinality(SlotHolders \ {s}) = Cardinality(SlotHolders) - 1
    BY <2>1, <2>2, FS_RemoveElement
  <2>4. Cardinality(SlotHolders') = Cardinality(SlotHolders \ {s}) + 1
    BY Zenon, <2>2, <2>3, FS_AddElement
  <2>5. Cardinality(SlotHolders) \in Nat
    BY <2>1, FS_CardinalityType
  <2>6. QED
    BY <2>3, <2>4, <2>5 DEF ActiveCounterExact
<1>7. Pool' = Pool
  BY Zenon, <1>1 DEF Pool, At
<1>8. LimitOK'
  BY <1>7 DEF LimitOK, WithinLimit
<1>9. QED
  BY <1>2, <1>3, <1>4, <1>5, <1>6, <1>8

\* A new object under creation satisfies the per-session invariant.
LEMMA CreatingOK ==
    ASSUME NEW n \in 0..RetryLimit
    PROVE  /\ Creating(n) \in Session /\ HoldsSlot(Creating(n))
           /\ Creating(n).loc = "creating"
           /\ SessionOK(Creating(n)) /\ ServiceOK(Creating(n))
           /\ ReportsOK(Creating(n))
<1>1. Creating(n) \in Session
  BY SessionOpsType
<1>2. QED
  BY <1>1 DEF Creating, NewSession, HoldsSlot, SessionOK, ServiceOK, ReportsOK,
     FirstTerminal

\* The slot of a deleted session stays with it or passes to the waiter's session.
LEMMA CheckAndFeedWaiterNewSessionStep ==
    ASSUME IInv, NEW s \in Sessions, CheckAndFeedWaiterNewSession(s)
    PROVE  IInv'
<1>1. Facts(s)
  BY SessionFacts
<1>2. /\ sess[s].loc = "deleting" /\ waiters' \subseteq waiters
      /\ UNCHANGED <<active, closed, mtx>>
  BY DEF CheckAndFeedWaiterNewSession
<1>3. ASSUME sess' = [sess EXCEPT ![s] = [@ EXCEPT !.loc = "releasing"]]
     PROVE  IInv'
  <2> DEFINE y == [sess[s] EXCEPT !.loc = "releasing"]
  <2>1. sess' = [sess EXCEPT ![s] = y]
    BY <1>3
  <2>2. y \in Session /\ y.loc = "releasing" /\ y.needUpdate = sess[s].needUpdate
    BY <1>1 DEF Facts, Session, Locs
  <2>3. SessionOK(y) /\ ServiceOK(y) /\ ReportsOK(y)
    BY <1>1, <1>2, <1>3 DEF Facts, Session, SessionOK, ServiceOK,
       ReportsOK, FirstTerminal
  <2> HIDE DEF y
  <2>4. Slot(y) = Slot(sess[s]) /\ Idle(y) = 0 /\ Idle(sess[s]) = 0
    BY <1>2, <2>2 DEF Slot, HoldsSlot, Idle
  <2>5. StepTo(s, y)
    BY <1>1, <1>2, <2>1, <2>2, <2>3, <2>4 DEF Facts, StepTo, Slot
  <2>6. QED
    BY <2>5, OneSessionStep
<1>4. ASSUME sess[s].needUpdate, NEW t \in Unused,
             sess' = [sess EXCEPT ![s] = HandOver(@), ![t] = Creating(0)]
      PROVE  IInv'
  <2> DEFINE y == HandOver(sess[s])
  <2>1. Facts(t) /\ t \in Sessions /\ sess[t].loc = "none"
    BY <1>4, SessionFacts DEF Unused
  <2>2. s # t
    BY <1>2, <2>1
  <2>3. sess' = [sess EXCEPT ![s] = y, ![t] = Creating(0)]
    BY <1>4
  <2>4. y \in Session /\ y.loc = "releasing" /\ ~y.needUpdate
    BY Zenon, <1>1 DEF Facts, HandOver, Session, Locs
  <2>5. SessionOK(y) /\ ServiceOK(y) /\ ReportsOK(y)
    BY <1>1, <1>2 DEF Facts, HandOver, Session, SessionOK, ServiceOK,
       ReportsOK, FirstTerminal
  <2> HIDE DEF y
  <2>6. 0 \in 0..RetryLimit
    BY LimitsNat
  <2>7. /\ Creating(0) \in Session /\ HoldsSlot(Creating(0))
        /\ Creating(0).loc = "creating" /\ SessionOK(Creating(0))
        /\ ServiceOK(Creating(0)) /\ ReportsOK(Creating(0))
    BY <2>6, CreatingOK
  <2>8. HoldsSlot(sess[s]) /\ ~HoldsSlot(y) /\ ~HoldsSlot(sess[t])
    BY <1>2, <1>4, <2>1, <2>4 DEF HoldsSlot
  <2>9. TransferTo(s, t, y, Creating(0))
    BY <1>1, <1>2, <2>1, <2>2, <2>3, <2>4, <2>5, <2>7, <2>8
    DEF Facts, TransferTo
  <2>10. QED
    BY <2>1, <2>9, TransferStep
<1>5. QED
  BY <1>3, <1>4 DEF CheckAndFeedWaiterNewSession

\* A retried creation passes its slot to the next attempt.
LEMMA CreateSessionRetriedStep ==
    ASSUME IInv, NEW s \in Sessions, CreateSessionRetried(s)
    PROVE  IInv'
<1>1. Facts(s)
  BY SessionFacts
<1>2. /\ sess[s].loc = "creating" /\ sess[s].attempt < RetryLimit
      /\ UNCHANGED <<active, closed, waiters, mtx>>
  BY DEF CreateSessionRetried, MayRetry
<1> DEFINE y == [MarkBroken(NewSession) EXCEPT !.loc = "deleting"]
           n == sess[s].attempt + 1
<1>3. PICK t \in Unused : sess' = [sess EXCEPT ![t] = Creating(n), ![s] = y]
  BY Zenon DEF CreateSessionRetried
<1>4. Facts(t) /\ t \in Sessions /\ sess[t].loc = "none"
  BY <1>3, SessionFacts DEF Unused
<1>5. s # t
  BY <1>2, <1>4
<1>6. sess' = [sess EXCEPT ![s] = y, ![t] = Creating(n)]
  BY Zenon, <1>3, <1>5
<1>7. MarkBroken(NewSession) \in Session
  BY SessionOpsType
<1>8. y \in Session /\ y.loc = "deleting" /\ ~y.needUpdate
  BY ZenonT(40), <1>7 DEF Session, Locs, MarkBroken, NewSession
<1>9. SessionOK(y) /\ ServiceOK(y) /\ ReportsOK(y)
  BY DEF MarkBroken, NewSession, SessionOK, ServiceOK, ReportsOK, FirstTerminal
<1> HIDE DEF y
<1>10. n \in 0..RetryLimit
  BY <1>1, <1>2, LimitsNat DEF Facts, Session
<1> HIDE DEF n
<1>11. /\ Creating(n) \in Session /\ HoldsSlot(Creating(n))
       /\ Creating(n).loc = "creating" /\ SessionOK(Creating(n))
       /\ ServiceOK(Creating(n)) /\ ReportsOK(Creating(n))
  BY <1>10, CreatingOK
<1>12. HoldsSlot(sess[s]) /\ ~HoldsSlot(y) /\ ~HoldsSlot(sess[t])
  BY <1>2, <1>4, <1>8 DEF HoldsSlot
<1>13. TransferTo(s, t, y, Creating(n))
  BY <1>1, <1>2, <1>4, <1>5, <1>6, <1>8, <1>9, <1>11, <1>12
  DEF Facts, TransferTo
<1>14. QED
  BY <1>4, <1>13, TransferStep

\* A caller takes a slot together with an idle or a new session; a caller that
\* is queued or turned away may only remove an idle session.
LEMMA GetSessionStep ==
    ASSUME IInv, NEW c \in Requests, GetSession(c)
    PROVE  IInv'
<1>1. /\ mtx = "free" /\ UNCHANGED <<closed, mtx>>
      /\ active \in Int /\ waiters \subseteq Requests
      /\ waiters' \subseteq Requests
  BY Zenon DEF GetSession, IInv, TypeOK
<1>2. ASSUME NEW s \in Pool, active' = active + 1,
             sess' = [sess EXCEPT ![s] = [@ EXCEPT
                          !.loc = "checkout", !.handler = FALSE]]
      PROVE  IInv'
  <2> DEFINE y == [sess[s] EXCEPT !.loc = "checkout", !.handler = FALSE]
  <2>1. s \in Sessions /\ sess[s].loc = "pool" /\ Facts(s)
    BY <1>2, SessionFacts DEF Pool, At
  <2>2. sess' = [sess EXCEPT ![s] = y]
    BY <1>2
  <2>3. y \in Session /\ y.loc = "checkout"
    BY Zenon, <2>1 DEF Facts, Session, Locs
  <2>4. SessionOK(y) /\ ServiceOK(y) /\ ReportsOK(y)
    BY <2>1 DEF Facts, Session, SessionOK, ServiceOK, ReportsOK, FirstTerminal
  <2> HIDE DEF y
  <2>5. /\ active' = active + 1 /\ Slot(y) = 1 /\ Slot(sess[s]) = 0
        /\ Idle(y) = 0 /\ Idle(sess[s]) = 1
    BY <1>2, <2>1, <2>3 DEF Slot, HoldsSlot, Idle
  <2>6. StepTo(s, y)
    BY <1>1, <2>1, <2>2, <2>3, <2>4, <2>5 DEF Facts, StepTo
  <2>7. QED
    BY <2>1, <2>6, OneSessionStep
<1>3. ASSUME Pool = {}, BelowLimit, active' = active + 1, NEW s \in Unused,
             sess' = [sess EXCEPT ![s] = Creating(0)]
      PROVE  IInv'
  <2>1. s \in Sessions /\ sess[s].loc = "none" /\ Facts(s)
    BY <1>3, SessionFacts DEF Unused
  <2>2. 0 \in 0..RetryLimit
    BY LimitsNat
  <2>3. /\ Creating(0) \in Session /\ HoldsSlot(Creating(0))
        /\ Creating(0).loc = "creating" /\ SessionOK(Creating(0))
        /\ ServiceOK(Creating(0)) /\ ReportsOK(Creating(0))
    BY <2>2, CreatingOK
  <2>4. Slot(Creating(0)) = 1 /\ Slot(sess[s]) = 0
    BY <2>1, <2>3 DEF Slot, HoldsSlot
  <2>5. StepTo(s, Creating(0))
    BY <1>1, <1>3, <2>1, <2>3, <2>4 DEF Facts, StepTo
  <2>6. QED
    BY <2>1, <2>5, OneSessionStep
<1>4. ASSUME NEW s \in Pool, UNCHANGED active,
             sess' = [sess EXCEPT ![s] = Destroyed(@)]
      PROVE  IInv'
  <2> DEFINE y == Destroyed(sess[s])
  <2>1. s \in Sessions /\ sess[s].loc = "pool" /\ Facts(s)
    BY <1>4, SessionFacts DEF Pool, At
  <2>2. sess' = [sess EXCEPT ![s] = y]
    BY <1>4
  <2>3. y \in Session
    BY <2>1, SessionOpsType DEF Facts
  <2>4. y.loc = "none" /\ SessionOK(y) /\ ServiceOK(y) /\ ReportsOK(y)
    BY DEF Destroyed, NewSession, SessionOK, ServiceOK, ReportsOK, FirstTerminal
  <2> HIDE DEF y
  <2>5. /\ active' = active /\ Slot(y) = 0 /\ Slot(sess[s]) = 0
        /\ Idle(y) = 0 /\ Idle(sess[s]) = 1
    BY <1>4, <2>1, <2>4 DEF Slot, HoldsSlot, Idle
  <2>6. StepTo(s, y)
    BY SMTT(30), <1>1, <2>1, <2>2, <2>3, <2>4, <2>5 DEF Facts, StepTo
  <2>7. QED
    BY <2>1, <2>6, OneSessionStep
<1>5. ASSUME UNCHANGED <<sess, active>>
      PROVE  IInv'
  BY SMTT(30), <1>1, <1>5 DEF IInv, TypeOK, SessionsOK, MutexOK, DrainOK,
     ActiveCounterExact, SlotHolders, LimitOK, WithinLimit, Pool, At
<1>6. QED
  BY ZenonT(40), <1>2, <1>3, <1>4, <1>5 DEF GetSession

\* A step in which no session takes or gives up a slot and sessions only leave
\* the pool preserves the invariant.
LEMMA PoolOnlyShrinks ==
    ASSUME IInv, sess' \in [Sessions -> Session],
           \A s \in Sessions :
              /\ SessionOK(sess'[s]) /\ ServiceOK(sess'[s]) /\ ReportsOK(sess'[s])
              /\ HoldsSlot(sess'[s]) <=> HoldsSlot(sess[s])
              /\ sess'[s].loc = "pool" => sess[s].loc = "pool"
              /\ sess'[s].loc = "checking" <=> sess[s].loc = "checking"
              /\ closed' => sess'[s].loc \notin {"pool", "checking"},
           closed' \in BOOLEAN, UNCHANGED <<active, mtx>>, waiters' \subseteq Requests
    PROVE  IInv'
<1> USE DEF IInv
<1>1. TypeOK'
  BY SMTT(30) DEF TypeOK
<1>2. SessionsOK'
  BY DEF SessionsOK, SessionOK, ServiceOK, ReportsOK, FirstTerminal
<1>3. MutexOK'
  BY DEF MutexOK
<1>4. DrainOK'
  BY DEF DrainOK
<1>5. SlotHolders' = SlotHolders
  BY SMTT(30) DEF SlotHolders, HoldsSlot
<1>6. ActiveCounterExact'
  BY <1>5 DEF ActiveCounterExact
<1>7. Pool' \subseteq Pool
  BY DEF Pool, At
<1>8. IsFiniteSet(Pool)
  BY SessionsFinite, FS_Subset DEF Pool, At
<1>9. /\ Cardinality(Pool') \in Nat /\ Cardinality(Pool) \in Nat
      /\ Cardinality(Pool') <= Cardinality(Pool)
  BY <1>7, <1>8, FS_Subset, FS_CardinalityType
<1>10. LimitOK'
  BY <1>9, LimitsNat DEF LimitOK, WithinLimit, TypeOK
<1>11. QED
  BY <1>1, <1>2, <1>3, <1>4, <1>6, <1>10

\* Rejecting waiters touches nothing else.
LEMMA ClearOldWaitersStep ==
    ASSUME IInv, ClearOldWaiters
    PROVE  IInv'
BY DEF ClearOldWaiters, IInv, TypeOK, SessionsOK, MutexOK, DrainOK,
   ActiveCounterExact, SlotHolders, LimitOK, WithinLimit, Pool, At

\* Sessions that leave the pool for the periodic task hold no slot.
LEMMA PeriodicTaskStep ==
    ASSUME IInv, PeriodicTask
    PROVE  IInv'
<1>1. /\ mtx = "free" /\ UNCHANGED <<active, closed, mtx>>
      /\ waiters' \subseteq Requests /\ closed' \in BOOLEAN
  BY ZenonT(40) DEF PeriodicTask, IInv, TypeOK
<1>2. PICK evicted \in SUBSET Pool, touched \in SUBSET Pool :
        /\ touched = {} \/ Service = "table"
        /\ sess' = [s \in Sessions |->
                IF s \in evicted
                THEN [sess[s] EXCEPT !.loc = "evict", !.handler = FALSE]
                ELSE IF s \in touched
                THEN [sess[s] EXCEPT !.loc = "keepalive", !.handler = FALSE]
                ELSE sess[s]]
  BY Zenon DEF PeriodicTask
<1>3. ASSUME NEW s \in Sessions
      PROVE  /\ sess'[s] \in Session
             /\ SessionOK(sess'[s]) /\ ServiceOK(sess'[s]) /\ ReportsOK(sess'[s])
             /\ HoldsSlot(sess'[s]) <=> HoldsSlot(sess[s])
             /\ sess'[s].loc = "pool" => sess[s].loc = "pool"
             /\ sess'[s].loc = "checking" <=> sess[s].loc = "checking"
             /\ closed' => sess'[s].loc \notin {"pool", "checking"}
  <2>1. Facts(s) /\ closed' = closed
    BY <1>1, SessionFacts
  <2>2. CASE s \in evicted
    <3>1. /\ sess'[s] = [sess[s] EXCEPT !.loc = "evict", !.handler = FALSE]
          /\ sess[s].loc = "pool"
      BY Zenon, <1>2, <2>2 DEF Pool, At
    <3>2. QED
      BY Zenon, <2>1, <3>1 DEF Facts, Session, Locs, SessionOK, ServiceOK, ReportsOK,
         FirstTerminal, HoldsSlot
  <2>3. CASE s \notin evicted /\ s \in touched
    <3>1. /\ sess'[s] = [sess[s] EXCEPT !.loc = "keepalive", !.handler = FALSE]
          /\ sess[s].loc = "pool" /\ Service = "table"
      BY Zenon, <1>2, <2>3 DEF Pool, At
    <3>2. QED
      BY ZenonT(40), <2>1, <3>1 DEF Facts, Session, Locs, SessionOK, ServiceOK, ReportsOK,
         FirstTerminal, HoldsSlot
  <2>4. CASE s \notin evicted /\ s \notin touched
    <3>1. sess'[s] = sess[s]
      BY Zenon, <1>2, <2>4
    <3>2. QED
      BY <2>1, <3>1 DEF Facts
  <2>5. QED
    BY <2>2, <2>3, <2>4
<1>4. sess' \in [Sessions -> Session]
  <2>1. sess' = [s \in Sessions |-> sess'[s]]
    BY Zenon, <1>2
  <2>2. QED
    BY SMTT(30), <1>3, <2>1
<1>5. QED
  BY SMTT(30), <1>1, <1>3, <1>4, PoolOnlyShrinks

\* Nobody inside ReturnSession sees Drain, and pooled sessions hold no slot.
LEMMA DrainStep ==
    ASSUME IInv, Drain
    PROVE  IInv'
<1>1. /\ mtx = "free" /\ closed' = TRUE /\ UNCHANGED <<active, mtx>>
      /\ waiters' \subseteq Requests
      /\ sess' = [s \in Sessions |-> IF s \in Pool THEN NewSession ELSE sess[s]]
  BY DEF Drain
<1>2. ASSUME NEW s \in Sessions
      PROVE  /\ sess'[s] \in Session
             /\ SessionOK(sess'[s]) /\ ServiceOK(sess'[s]) /\ ReportsOK(sess'[s])
             /\ HoldsSlot(sess'[s]) <=> HoldsSlot(sess[s])
             /\ sess'[s].loc \notin {"pool", "checking"}
             /\ sess[s].loc # "checking"
  <2>1. Facts(s) /\ sess[s].loc # "checking"
    BY SMTT(30), <1>1, SessionFacts, FreeNotSession DEF Facts
  <2>2. CASE s \in Pool
    <3>1. sess'[s] = NewSession /\ sess[s].loc = "pool"
      BY <1>1, <2>2 DEF Pool, At
    <3>2. NewSession \in Session
      BY SessionOpsType
    <3>3. QED
      BY <2>1, <3>1, <3>2 DEF NewSession, SessionOK, ServiceOK, ReportsOK,
         FirstTerminal, HoldsSlot
  <2>3. CASE s \notin Pool
    <3>1. sess'[s] = sess[s] /\ sess[s].loc # "pool"
      BY <1>1, <2>3 DEF Pool, At
    <3>2. QED
      BY <2>1, <3>1 DEF Facts
  <2>4. QED
    BY <2>2, <2>3
<1>3. sess' \in [Sessions -> Session]
  <2>1. sess' = [s \in Sessions |-> sess'[s]]
    BY <1>1
  <2>2. QED
    BY <1>2, <2>1
<1>4. QED
  BY <1>1, <1>2, <1>3, PoolOnlyShrinks

----------------------------------------------------------------------------
\* The initial state satisfies the invariant.
LEMMA InitInv == Init => IInv
<1> SUFFICES ASSUME Init PROVE IInv
  OBVIOUS
<1>1. TypeOK
  <2>1. NewSession \in Session
    BY SessionOpsType
  <2>2. sess \in [Sessions -> Session]
    BY <2>1 DEF Init
  <2>3. active \in Int
    BY DEF Init
  <2>4. closed \in BOOLEAN
    BY Zenon DEF Init
  <2>5. waiters \subseteq Requests /\ mtx \in Sessions \cup {"free"}
    BY DEF Init
  <2>6. QED
    BY <2>2, <2>3, <2>4, <2>5 DEF TypeOK
<1>2. SessionsOK
  BY DEF Init, SessionsOK, NewSession, SessionOK, ServiceOK, ReportsOK,
     FirstTerminal
<1>3. MutexOK /\ DrainOK
  BY FreeNotSession DEF Init, MutexOK, DrainOK, NewSession
<1>4. SlotHolders = {} /\ Pool = {}
  BY DEF Init, SlotHolders, HoldsSlot, Pool, At, NewSession
<1>5. ActiveCounterExact /\ LimitOK
  BY <1>4, FS_EmptySet, LimitsNat
  DEF Init, ActiveCounterExact, LimitOK, WithinLimit
<1>6. QED
  BY <1>1, <1>2, <1>3, <1>5 DEF IInv

\* Every step preserves the invariant.
LEMMA NextInv == IInv /\ [Next]_vars => IInv'
<1> SUFFICES ASSUME IInv, [Next]_vars PROVE IInv'
  OBVIOUS
<1>1. CASE UNCHANGED vars
  BY <1>1 DEF vars, IInv, TypeOK, SessionsOK, MutexOK, DrainOK,
     ActiveCounterExact, SlotHolders, LimitOK, WithinLimit, Pool, At
<1>2. ASSUME NEW c \in Requests, GetSession(c) PROVE IInv'
  BY <1>2, GetSessionStep
<1>3. CASE ClearOldWaiters
  BY <1>3, ClearOldWaitersStep
<1>4. CASE PeriodicTask
  BY <1>4, PeriodicTaskStep
<1>5. CASE Drain
  BY <1>5, DrainStep
<1>6. ASSUME NEW s \in Sessions, ReplySessionToUser(s) PROVE IInv'
  BY <1>6, ReplySessionToUserStep
<1>7. ASSUME NEW s \in Sessions, ReturnSessionRegister(s) PROVE IInv'
  BY <1>7, ReturnSessionRegisterStep
<1>8. ASSUME NEW s \in Sessions, ReturnSessionFinish(s) PROVE IInv'
  BY SMTT(30), <1>8, ReturnRefusedStep, ReturnToWaiterStep, ReturnToPoolStep
  DEF ReturnSessionFinish
<1>9. ASSUME NEW s \in Sessions, CheckAndFeedWaiterNewSession(s) PROVE IInv'
  BY <1>9, CheckAndFeedWaiterNewSessionStep
<1>10. ASSUME NEW s \in Sessions, DeleteSession(s) PROVE IInv'
  BY <1>10, DeleteSessionStep
<1>11. ASSUME NEW s \in Sessions, CloseAndDeleteSession(s) PROVE IInv'
  BY <1>11, CloseAndDeleteSessionStep
<1>12. ASSUME NEW s \in Sessions, CreateSessionSucceeded(s) PROVE IInv'
  BY <1>12, CreateSessionSucceededStep
<1>13. ASSUME NEW s \in Sessions, CreateSessionFailed(s) PROVE IInv'
  BY <1>13, CreateSessionFailedStep
<1>14. ASSUME NEW s \in Sessions, CreateSessionRetried(s) PROVE IInv'
  BY <1>14, CreateSessionRetriedStep
<1>15. ASSUME NEW s \in Sessions, InterceptStatus(s) PROVE IInv'
  BY <1>15, InterceptStatusStep
<1>16. ASSUME NEW s \in Sessions, SmartDeleter(s) PROVE IInv'
  BY <1>16, SmartDeleterStep
<1>17. ASSUME NEW s \in Sessions, StreamShutdown(s) PROVE IInv'
  BY <1>17, StreamShutdownStep
<1>18. ASSUME NEW s \in Sessions, StreamBroken(s) PROVE IInv'
  BY <1>18, StreamBrokenStep
<1>19. ASSUME NEW s \in Sessions, CloseFromServer(s) PROVE IInv'
  BY <1>19, CloseFromServerStep
<1>20. ASSUME NEW s \in Sessions, OnCloseSession(s) PROVE IInv'
  BY <1>20, OnCloseSessionStep
<1>21. QED
  BY SMTT(30), <1>1, <1>2, <1>3, <1>4, <1>5, <1>6, <1>7, <1>8, <1>9, <1>10, <1>11,
     <1>12, <1>13, <1>14, <1>15, <1>16, <1>17, <1>18, <1>19, <1>20 DEF Next

\* The inductive invariant holds in every reachable state.
THEOREM Invariance == Spec => []IInv
BY InitInv, NextInv, PTL DEF Spec

\* Every variable of the pool keeps its type.
THEOREM TypeCorrect == Spec => []TypeOK
<1>1. IInv => TypeOK
  BY DEF IInv
<1>2. QED
  BY <1>1, Invariance, PTL

\* ActiveSessions_ counts the sessions that hold a slot, for both clients and
\* any number of sessions, callers and slots.
THEOREM CounterIsExact == Spec => []ActiveCounterExact
<1>1. IInv => ActiveCounterExact
  BY DEF IInv
<1>2. QED
  BY <1>1, Invariance, PTL

\* No Y_ABORT_UNLESS of the pool can fire.
THEOREM NoAbort == Spec => []AssertsHold
<1>1. ASSUME IInv PROVE AssertsHold
  <2>1. ASSUME NEW s \in SlotHolders PROVE active > 0
    <3>1. IsFiniteSet(SlotHolders) /\ SlotHolders # {}
      BY <2>1, SessionsFinite, FS_Subset DEF SlotHolders
    <3>2. Cardinality(SlotHolders) \in Nat /\ Cardinality(SlotHolders) # 0
      BY <3>1, FS_CardinalityType, FS_EmptySet
    <3>3. QED
      BY <1>1, <3>2 DEF IInv, ActiveCounterExact
  <2>2. ASSUME NEW s \in Sessions, HoldsSlot(sess[s]) PROVE active > 0
    BY SMTT(30), <2>1, <2>2 DEF SlotHolders
  <2>3. ASSUME NEW s \in Sessions
        PROVE  /\ sess[s].loc \in {"checkout", "evict"} => sess[s].state = "S_IDLE"
               /\ sess[s].loc = "releasing" /\ sess[s].needUpdate => HoldsSlot(sess[s])
               /\ sess[s].loc = "checking" /\ sess[s].wasActive => HoldsSlot(sess[s])
    BY SMTT(30), <1>1 DEF IInv, SessionsOK, SessionOK, HoldsSlot
  <2>4. QED
    BY <2>2, <2>3 DEF AssertsHold
<1>2. QED
  BY <1>1, Invariance, PTL

\* A shutdown request never leaves a session behind in the pool.
THEOREM ShutdownNeverMissesPool == Spec => []ShutdownSeesPool
<1>1. IInv => ShutdownSeesPool
  BY DEF IInv, SessionsOK, SessionOK, ShutdownSeesPool, Pool, At
<1>2. QED
  BY <1>1, Invariance, PTL

\* With the Query client, used and idle sessions stay within MaxActive.
THEOREM QueryWithinLimit ==
    ASSUME Service = "query"
    PROVE  Spec => []WithinLimit
<1>1. IInv => WithinLimit
  BY DEF IInv, LimitOK
<1>2. QED
  BY <1>1, Invariance, PTL

\* The close of a session is recorded at most once.
THEOREM CloseRecordedOnce == Spec => []ClosedOnce
<1>1. IInv => ClosedOnce
  BY DEF IInv, SessionsOK, ReportsOK, ClosedOnce
<1>2. QED
  BY <1>1, Invariance, PTL

\* A drained pool stays empty.
THEOREM DrainIsFinal == Spec => []DrainedPoolStaysEmpty
<1>1. IInv => DrainedPoolStaysEmpty
  BY DEF IInv, DrainOK, DrainedPoolStaysEmpty, Pool, At
<1>2. QED
  BY <1>1, Invariance, PTL

=============================================================================
