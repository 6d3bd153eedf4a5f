---------------------- MODULE DriverStateTrackerProofs ----------------------
(***************************************************************************)
(* Theorems about the driver state cache, for any number of threads.       *)
(***************************************************************************)
EXTENDS DriverStateTracker, TLAPS

\* Places where a thread owns the object in strongState.
Owning == {"init", "catch", "unwind", "publish", "update", "holding", "notified",
           "undefined"}

\* A thread is among the owners of an object exactly while it is at such a place.
OwnOK ==
    \A c \in Threads :
        /\ pc[c] \in Owning => state[c] \in Objects /\ c \in refs[state[c]]
        /\ \A o \in Objects : c \in refs[o] => state[c] = o /\ pc[c] \in Owning

\* A weak copy and the object of a deleter name objects.
NamesOK ==
    \A c \in Threads : pc[c] \in {"notify", "deleter"} => state[c] \in Objects

\* What holds whether or not credentials throw.
IInv == TypeOK /\ OwnOK /\ NamesOK

\* No exception is under way.
NoThrow == \A c \in Threads : pc[c] \notin {"catch", "unwind"}

\* The entry belongs to the builder, or to the one object that is alive or
\* whose deleter has not locked yet.
EntryOK ==
    /\ \A c \in Builders : entry.node = c /\ entry.weak = "none"
    /\ \A o \in Objects : life[o] \in {"alive", "expired"} =>
          \/ entry.weak = o
          \/ \E c \in Builders : state[c] = o /\ c \in refs[o]
    /\ \A o \in Objects : entry.weak = o => life[o] \in {"alive", "expired"}

\* Both, the second as long as credentials have not thrown.
KeyInv == IInv /\ (throws = 0 => NoThrow /\ EntryOK)

----------------------------------------------------------------------------
\* Initially no object exists and no thread is inside.
LEMMA InitInv == Init => IInv /\ NoThrow /\ EntryOK
BY NoneIsNobody, MaxThrowsNat DEF Init, IInv, TypeOK, OwnOK, NamesOK, NoThrow, EntryOK, Absent, Entry,
   Places, Lives, Owning, Builders

\* Call preserves the ownership invariant.
LEMMA CallStep ==
    ASSUME IInv, NEW c \in Callers, Call(c) PROVE IInv'
<1>0. c \in Threads
  BY DEF Threads
<1> USE <1>0, NoneIsNobody, DiscoveryIsNoThread, MaxThrowsNat
    DEF IInv, TypeOK, OwnOK, NamesOK, Owning, Places, Lives, Call, Go
<1>1. TypeOK'
  OBVIOUS
<1>2. OwnOK' /\ NamesOK'
  OBVIOUS
<1>3. QED
  BY <1>1, <1>2

\* Release preserves the ownership invariant.
LEMMA ReleaseStep ==
    ASSUME IInv, NEW c \in Callers, Release(c) PROVE IInv'
<1>0. c \in Threads
  BY DEF Threads
<1> USE <1>0, NoneIsNobody, DiscoveryIsNoThread, MaxThrowsNat
    DEF IInv, TypeOK, OwnOK, NamesOK, Owning, Places, Lives, Release, LetGo, Drop, Go
<1>1. TypeOK'
  OBVIOUS
<1>2. OwnOK' /\ NamesOK'
  OBVIOUS
<1>3. QED
  BY <1>1, <1>2

\* CopyWeak preserves the ownership invariant.
LEMMA CopyWeakStep ==
    ASSUME IInv, NEW c \in Notifiers, CopyWeak(c) PROVE IInv'
<1>0. c \in Threads
  BY DEF Threads
<1> USE <1>0, NoneIsNobody, DiscoveryIsNoThread, MaxThrowsNat
    DEF IInv, TypeOK, OwnOK, NamesOK, Owning, Places, Lives, CopyWeak, Go, Entry
<1>1. TypeOK'
  OBVIOUS
<1>2. OwnOK' /\ NamesOK'
  OBVIOUS
<1>3. QED
  BY <1>1, <1>2

\* Lookup preserves the ownership invariant.
LEMMA LookupStep ==
    ASSUME IInv, NEW c \in Threads, Lookup(c) PROVE IInv'
<1> USE NoneIsNobody, DiscoveryIsNoThread, MaxThrowsNat
    DEF IInv, TypeOK, OwnOK, NamesOK, Owning, Places, Lives, Lookup, Return, Lockable, Go, Entry
<1>1. TypeOK'
  OBVIOUS
<1>2. OwnOK' /\ NamesOK'
  OBVIOUS
<1>3. QED
  BY <1>1, <1>2

\* Recheck preserves the ownership invariant.
LEMMA RecheckStep ==
    ASSUME IInv, NEW c \in Threads, Recheck(c) PROVE IInv'
<1> USE NoneIsNobody, DiscoveryIsNoThread, MaxThrowsNat
    DEF IInv, TypeOK, OwnOK, NamesOK, Owning, Places, Lives, Recheck, Return, Lockable, Go, Vacant, Absent, Entry
<1>1. TypeOK'
  OBVIOUS
<1>2. OwnOK' /\ NamesOK'
  OBVIOUS
<1>3. QED
  BY <1>1, <1>2

\* NewState preserves the ownership invariant.
LEMMA NewStateStep ==
    ASSUME IInv, NEW c \in Threads, NewState(c) PROVE IInv'
<1> USE NoneIsNobody, DiscoveryIsNoThread, MaxThrowsNat
    DEF IInv, TypeOK, OwnOK, NamesOK, Owning, Places, Lives, NewState, Go, Free
<1>1. TypeOK'
  OBVIOUS
<1>2. OwnOK' /\ NamesOK'
  OBVIOUS
<1>3. QED
  BY <1>1, <1>2

\* InitCredentials preserves the ownership invariant.
LEMMA InitCredentialsStep ==
    ASSUME IInv, NEW c \in Threads, InitCredentials(c) PROVE IInv'
<1> USE NoneIsNobody, DiscoveryIsNoThread, MaxThrowsNat
    DEF IInv, TypeOK, OwnOK, NamesOK, Owning, Places, Lives, InitCredentials, Go
<1>1. TypeOK'
  OBVIOUS
<1>2. OwnOK' /\ NamesOK'
  OBVIOUS
<1>3. QED
  BY <1>1, <1>2

\* Catch preserves the ownership invariant.
LEMMA CatchStep ==
    ASSUME IInv, NEW c \in Threads, Catch(c) PROVE IInv'
<1> USE NoneIsNobody, DiscoveryIsNoThread, MaxThrowsNat
    DEF IInv, TypeOK, OwnOK, NamesOK, Owning, Places, Lives, Catch, WakeAll, Absent, Entry
<1>1. TypeOK'
  OBVIOUS
<1>2. OwnOK' /\ NamesOK'
  OBVIOUS
<1>3. QED
  BY <1>1, <1>2

\* Unwind preserves the ownership invariant.
LEMMA UnwindStep ==
    ASSUME IInv, NEW c \in Threads, Unwind(c) PROVE IInv'
<1> USE NoneIsNobody, DiscoveryIsNoThread, MaxThrowsNat
    DEF IInv, TypeOK, OwnOK, NamesOK, Owning, Places, Lives, Unwind, LetGo, Drop, Go
<1>1. TypeOK'
  OBVIOUS
<1>2. OwnOK' /\ NamesOK'
  OBVIOUS
<1>3. QED
  BY <1>1, <1>2

\* Publish preserves the ownership invariant.
LEMMA PublishStep ==
    ASSUME IInv, NEW c \in Threads, Publish(c) PROVE IInv'
<1> USE NoneIsNobody, DiscoveryIsNoThread, MaxThrowsNat
    DEF IInv, TypeOK, OwnOK, NamesOK, Owning, Places, Lives, Publish, PublishWakes, WakeAll, Entry
<1>1. TypeOK'
  OBVIOUS
<1>2. OwnOK' /\ NamesOK'
  OBVIOUS
<1>3. QED
  BY <1>1, <1>2

\* UseDangling preserves the ownership invariant.
LEMMA UseDanglingStep ==
    ASSUME IInv, NEW c \in Threads, UseDangling(c) PROVE IInv'
<1> USE NoneIsNobody, DiscoveryIsNoThread, MaxThrowsNat
    DEF IInv, TypeOK, OwnOK, NamesOK, Owning, Places, Lives, UseDangling, Go
<1>1. TypeOK'
  OBVIOUS
<1>2. OwnOK' /\ NamesOK'
  OBVIOUS
<1>3. QED
  BY <1>1, <1>2

\* UpdateAsync preserves the ownership invariant.
LEMMA UpdateAsyncStep ==
    ASSUME IInv, NEW c \in Threads, UpdateAsync(c) PROVE IInv'
<1> USE NoneIsNobody, DiscoveryIsNoThread, MaxThrowsNat
    DEF IInv, TypeOK, OwnOK, NamesOK, Owning, Places, Lives, UpdateAsync, Go
<1>1. TypeOK'
  OBVIOUS
<1>2. OwnOK' /\ NamesOK'
  OBVIOUS
<1>3. QED
  BY <1>1, <1>2

\* SendNotification preserves the ownership invariant.
LEMMA SendNotificationStep ==
    ASSUME IInv, NEW c \in Threads, SendNotification(c) PROVE IInv'
<1> USE NoneIsNobody, DiscoveryIsNoThread, MaxThrowsNat
    DEF IInv, TypeOK, OwnOK, NamesOK, Owning, Places, Lives, SendNotification, Promotes, Go
<1>1. TypeOK'
  OBVIOUS
<1>2. OwnOK' /\ NamesOK'
  OBVIOUS
<1>3. QED
  BY <1>1, <1>2

\* EndNotification preserves the ownership invariant.
LEMMA EndNotificationStep ==
    ASSUME IInv, NEW c \in Threads, EndNotification(c) PROVE IInv'
<1> USE NoneIsNobody, DiscoveryIsNoThread, MaxThrowsNat
    DEF IInv, TypeOK, OwnOK, NamesOK, Owning, Places, Lives, EndNotification, LetGo, Drop, Go
<1>1. TypeOK'
  OBVIOUS
<1>2. OwnOK' /\ NamesOK'
  OBVIOUS
<1>3. QED
  BY <1>1, <1>2

\* DeleterErase preserves the ownership invariant.
LEMMA DeleterEraseStep ==
    ASSUME IInv, NEW o \in Objects, DeleterErase(o) PROVE IInv'
<1> USE NoneIsNobody, DiscoveryIsNoThread, MaxThrowsNat
    DEF IInv, TypeOK, OwnOK, NamesOK, Owning, Places, Lives, DeleterErase, DeleterWakes, Absent, Entry
<1>1. TypeOK'
  OBVIOUS
<1>2. OwnOK' /\ NamesOK'
  OBVIOUS
<1>3. QED
  BY <1>1, <1>2

\* Delete preserves the ownership invariant.
LEMMA DeleteStep ==
    ASSUME IInv, NEW o \in Objects, Delete(o) PROVE IInv'
<1> USE NoneIsNobody, DiscoveryIsNoThread, MaxThrowsNat
    DEF IInv, TypeOK, OwnOK, NamesOK, Owning, Places, Lives, Delete
<1>1. TypeOK'
  OBVIOUS
<1>2. OwnOK' /\ NamesOK'
  OBVIOUS
<1>3. QED
  BY <1>1, <1>2

\* DiscoveryDone preserves the ownership invariant.
LEMMA DiscoveryDoneStep ==
    ASSUME IInv, NEW o \in Objects, DiscoveryDone(o) PROVE IInv'
<1> USE NoneIsNobody, DiscoveryIsNoThread, MaxThrowsNat
    DEF IInv, TypeOK, OwnOK, NamesOK, Owning, Places, Lives, DiscoveryDone, Drop
<1>1. TypeOK'
  OBVIOUS
<1>2. OwnOK' /\ NamesOK'
  OBVIOUS
<1>3. QED
  BY <1>1, <1>2

\* PeriodicDiscovery preserves the ownership invariant.
LEMMA PeriodicDiscoveryStep ==
    ASSUME IInv, NEW o \in Objects, PeriodicDiscovery(o) PROVE IInv'
<1> USE NoneIsNobody, DiscoveryIsNoThread, MaxThrowsNat
    DEF IInv, TypeOK, OwnOK, NamesOK, Owning, Places, Lives, PeriodicDiscovery, Lockable
<1>1. TypeOK'
  OBVIOUS
<1>2. OwnOK' /\ NamesOK'
  OBVIOUS
<1>3. QED
  BY <1>1, <1>2

\* Every step preserves it.
LEMMA NextInv == IInv /\ [Next]_vars => IInv'
<1> SUFFICES ASSUME IInv, [Next]_vars PROVE IInv'
  OBVIOUS
<1>1. ASSUME NEW c \in Callers, Call(c) \/ Release(c) PROVE IInv'
  BY <1>1, CallStep, ReleaseStep
<1>2. ASSUME NEW c \in Notifiers, CopyWeak(c) PROVE IInv'
  BY <1>2, CopyWeakStep
<1>3. ASSUME NEW c \in Threads, Inside(c) PROVE IInv'
  BY <1>3, LookupStep, RecheckStep, NewStateStep, InitCredentialsStep, CatchStep,
     UnwindStep, PublishStep, UseDanglingStep, UpdateAsyncStep, SendNotificationStep,
     EndNotificationStep DEF Inside
<1>4. ASSUME NEW o \in Objects, Deleter(o) \/ Background(o)
      PROVE IInv'
  BY <1>4, DeleterEraseStep, DeleteStep, DiscoveryDoneStep, PeriodicDiscoveryStep
     DEF Deleter, Background
<1>5. CASE UNCHANGED vars
  BY <1>5 DEF vars, IInv, TypeOK, OwnOK, NamesOK
<1>6. QED
  BY <1>1, <1>2, <1>3, <1>4, <1>5 DEF Next

\* The ownership invariant holds always, throwing credentials or not.
THEOREM Invariance == Spec => []IInv
<1>1. Init => IInv
  BY InitInv
<1>2. QED
  BY <1>1, NextInv, PTL DEF Spec

\* TypeOK holds always: an object is alive exactly while somebody owns it.
THEOREM TypeCorrect == Spec => []TypeOK
<1>1. IInv => TypeOK
  BY DEF IInv
<1>2. QED
  BY <1>1, Invariance, PTL

\* No thread uses a state whose deleter has started, whatever the interleaving
\* of callers, notifications, discoveries and throwing credentials.
THEOREM StateOutlivesItsUsers == Spec => []NoUseAfterFree
<1>1. IInv => NoUseAfterFree
  BY DEF IInv, TypeOK, OwnOK, Owning, NoUseAfterFree
<1>2. QED
  BY <1>1, Invariance, PTL

----------------------------------------------------------------------------
\* The entry, as long as no credentials have thrown.

\* Call keeps the entry with its builder or its object.
LEMMA CallKeeps ==
    ASSUME KeyInv, NEW c \in Callers, Call(c) PROVE KeyInv'
<1>0. c \in Threads
  BY DEF Threads
<1>1. IInv'
  BY CallStep DEF KeyInv
<1> USE <1>0, NoneIsNobody, DiscoveryIsNoThread, MaxThrowsNat
    DEF KeyInv, EntryOK, NoThrow, Builders, IInv, TypeOK, OwnOK, Owning, Call, Go
<1> SUFFICES ASSUME throws' = 0 PROVE NoThrow' /\ EntryOK'
  BY <1>1
<1>2. throws = 0
  OBVIOUS
<1>3. NoThrow'
  BY <1>2
<1>4. EntryOK'
  BY <1>2
<1>5. QED
  BY <1>3, <1>4

\* Release keeps the entry with its builder or its object.
LEMMA ReleaseKeeps ==
    ASSUME KeyInv, NEW c \in Callers, Release(c) PROVE KeyInv'
<1>0. c \in Threads
  BY DEF Threads
<1>1. IInv'
  BY ReleaseStep DEF KeyInv
<1> USE <1>0, NoneIsNobody, DiscoveryIsNoThread, MaxThrowsNat
    DEF KeyInv, EntryOK, NoThrow, Builders, IInv, TypeOK, OwnOK, Owning, Release, LetGo, Drop, Go
<1> SUFFICES ASSUME throws' = 0 PROVE NoThrow' /\ EntryOK'
  BY <1>1
<1>2. throws = 0
  OBVIOUS
<1>3. NoThrow'
  BY <1>2
<1>4. EntryOK'
  BY <1>2
<1>5. QED
  BY <1>3, <1>4

\* CopyWeak keeps the entry with its builder or its object.
LEMMA CopyWeakKeeps ==
    ASSUME KeyInv, NEW c \in Notifiers, CopyWeak(c) PROVE KeyInv'
<1>0. c \in Threads
  BY DEF Threads
<1>1. IInv'
  BY CopyWeakStep DEF KeyInv
<1> USE <1>0, NoneIsNobody, DiscoveryIsNoThread, MaxThrowsNat
    DEF KeyInv, EntryOK, NoThrow, Builders, IInv, TypeOK, OwnOK, Owning, CopyWeak, Go, Entry
<1> SUFFICES ASSUME throws' = 0 PROVE NoThrow' /\ EntryOK'
  BY <1>1
<1>2. throws = 0
  OBVIOUS
<1>3. NoThrow'
  BY <1>2
<1>4. EntryOK'
  BY <1>2
<1>5. QED
  BY <1>3, <1>4

\* Lookup keeps the entry with its builder or its object.
LEMMA LookupKeeps ==
    ASSUME KeyInv, NEW c \in Threads, Lookup(c) PROVE KeyInv'
<1>1. IInv'
  BY LookupStep DEF KeyInv
<1> USE NoneIsNobody, DiscoveryIsNoThread, MaxThrowsNat
    DEF KeyInv, EntryOK, NoThrow, Builders, IInv, TypeOK, OwnOK, Owning, Lookup, Return, Lockable, Go, Entry
<1> SUFFICES ASSUME throws' = 0 PROVE NoThrow' /\ EntryOK'
  BY <1>1
<1>2. throws = 0
  OBVIOUS
<1>3. NoThrow'
  BY <1>2
<1>4. EntryOK'
  BY <1>2
<1>5. QED
  BY <1>3, <1>4

\* Recheck keeps the entry with its builder or its object.
LEMMA RecheckKeeps ==
    ASSUME KeyInv, NEW c \in Threads, Recheck(c) PROVE KeyInv'
<1>1. IInv'
  BY RecheckStep DEF KeyInv
<1> USE NoneIsNobody, DiscoveryIsNoThread, MaxThrowsNat
    DEF KeyInv, EntryOK, NoThrow, Builders, IInv, TypeOK, OwnOK, Owning, Recheck, Return, Lockable, Go, Vacant, Absent, Entry
<1> SUFFICES ASSUME throws' = 0 PROVE NoThrow' /\ EntryOK'
  BY <1>1
<1>2. throws = 0
  OBVIOUS
<1>3. NoThrow'
  BY <1>2
<1>4. EntryOK'
  BY <1>2
<1>5. QED
  BY <1>3, <1>4

\* NewState keeps the entry with its builder or its object.
LEMMA NewStateKeeps ==
    ASSUME KeyInv, NEW c \in Threads, NewState(c) PROVE KeyInv'
<1>1. IInv'
  BY NewStateStep DEF KeyInv
<1> USE NoneIsNobody, DiscoveryIsNoThread, MaxThrowsNat
    DEF KeyInv, EntryOK, NoThrow, Builders, IInv, TypeOK, OwnOK, Owning, NewState, Go, Free
<1> SUFFICES ASSUME throws' = 0 PROVE NoThrow' /\ EntryOK'
  BY <1>1
<1>2. throws = 0
  OBVIOUS
<1>3. NoThrow'
  BY <1>2
<1>4. EntryOK'
  BY <1>2
<1>5. QED
  BY <1>3, <1>4

\* InitCredentials keeps the entry with its builder or its object.
LEMMA InitCredentialsKeeps ==
    ASSUME KeyInv, NEW c \in Threads, InitCredentials(c) PROVE KeyInv'
<1>1. IInv'
  BY InitCredentialsStep DEF KeyInv
<1> USE NoneIsNobody, DiscoveryIsNoThread, MaxThrowsNat
    DEF KeyInv, EntryOK, NoThrow, Builders, IInv, TypeOK, OwnOK, Owning, InitCredentials, Go
<1> SUFFICES ASSUME throws' = 0 PROVE NoThrow' /\ EntryOK'
  BY <1>1
<1>2. throws = 0
  OBVIOUS
<1>3. NoThrow'
  BY <1>2
<1>4. EntryOK'
  BY <1>2
<1>5. QED
  BY <1>3, <1>4

\* Catch keeps the entry with its builder or its object.
LEMMA CatchKeeps ==
    ASSUME KeyInv, NEW c \in Threads, Catch(c) PROVE KeyInv'
<1>1. IInv'
  BY CatchStep DEF KeyInv
<1> USE NoneIsNobody, DiscoveryIsNoThread, MaxThrowsNat
    DEF KeyInv, EntryOK, NoThrow, Builders, IInv, TypeOK, OwnOK, Owning, Catch, WakeAll, Absent, Entry
<1> SUFFICES ASSUME throws' = 0 PROVE NoThrow' /\ EntryOK'
  BY <1>1
<1>2. throws = 0
  OBVIOUS
<1>3. NoThrow'
  BY <1>2
<1>4. EntryOK'
  BY <1>2
<1>5. QED
  BY <1>3, <1>4

\* Unwind keeps the entry with its builder or its object.
LEMMA UnwindKeeps ==
    ASSUME KeyInv, NEW c \in Threads, Unwind(c) PROVE KeyInv'
<1>1. IInv'
  BY UnwindStep DEF KeyInv
<1> USE NoneIsNobody, DiscoveryIsNoThread, MaxThrowsNat
    DEF KeyInv, EntryOK, NoThrow, Builders, IInv, TypeOK, OwnOK, Owning, Unwind, LetGo, Drop, Go
<1> SUFFICES ASSUME throws' = 0 PROVE NoThrow' /\ EntryOK'
  BY <1>1
<1>2. throws = 0
  OBVIOUS
<1>3. NoThrow'
  BY <1>2
<1>4. EntryOK'
  BY <1>2
<1>5. QED
  BY <1>3, <1>4

\* Publish keeps the entry with its builder or its object.
LEMMA PublishKeeps ==
    ASSUME KeyInv, NEW c \in Threads, Publish(c) PROVE KeyInv'
<1>1. IInv'
  BY PublishStep DEF KeyInv
<1> USE NoneIsNobody, DiscoveryIsNoThread, MaxThrowsNat
    DEF KeyInv, EntryOK, NoThrow, Builders, IInv, TypeOK, OwnOK, Owning, Publish, PublishWakes, WakeAll, Entry
<1> SUFFICES ASSUME throws' = 0 PROVE NoThrow' /\ EntryOK'
  BY Zenon, <1>1
<1>2. throws = 0
  OBVIOUS
<1>3. NoThrow'
  BY <1>2
<1>4. EntryOK'
  <2>1. Builders' = {}
    BY <1>2
  <2>2. entry'.weak = state[c] /\ life'[state[c]] = "alive"
    BY <1>2
  <2>3. \A x \in Objects : life'[x] \in {"alive", "expired"} => x = state[c]
    BY <1>2
  <2>4. QED
    BY <2>1, <2>2, <2>3
<1>5. QED
  BY Zenon, <1>3, <1>4

\* UseDangling keeps the entry with its builder or its object.
LEMMA UseDanglingKeeps ==
    ASSUME KeyInv, NEW c \in Threads, UseDangling(c) PROVE KeyInv'
<1>1. IInv'
  BY UseDanglingStep DEF KeyInv
<1> USE NoneIsNobody, DiscoveryIsNoThread, MaxThrowsNat
    DEF KeyInv, EntryOK, NoThrow, Builders, IInv, TypeOK, OwnOK, Owning, UseDangling, Go
<1> SUFFICES ASSUME throws' = 0 PROVE NoThrow' /\ EntryOK'
  BY <1>1
<1>2. throws = 0
  OBVIOUS
<1>3. NoThrow'
  BY <1>2
<1>4. EntryOK'
  BY <1>2
<1>5. QED
  BY <1>3, <1>4

\* UpdateAsync keeps the entry with its builder or its object.
LEMMA UpdateAsyncKeeps ==
    ASSUME KeyInv, NEW c \in Threads, UpdateAsync(c) PROVE KeyInv'
<1>1. IInv'
  BY UpdateAsyncStep DEF KeyInv
<1> USE NoneIsNobody, DiscoveryIsNoThread, MaxThrowsNat
    DEF KeyInv, EntryOK, NoThrow, Builders, IInv, TypeOK, OwnOK, Owning, UpdateAsync, Go
<1> SUFFICES ASSUME throws' = 0 PROVE NoThrow' /\ EntryOK'
  BY <1>1
<1>2. throws = 0
  OBVIOUS
<1>3. NoThrow'
  BY <1>2
<1>4. EntryOK'
  BY <1>2
<1>5. QED
  BY <1>3, <1>4

\* SendNotification keeps the entry with its builder or its object.
LEMMA SendNotificationKeeps ==
    ASSUME KeyInv, NEW c \in Threads, SendNotification(c) PROVE KeyInv'
<1>1. IInv'
  BY SendNotificationStep DEF KeyInv
<1> USE NoneIsNobody, DiscoveryIsNoThread, MaxThrowsNat
    DEF KeyInv, EntryOK, NoThrow, Builders, IInv, TypeOK, OwnOK, Owning, SendNotification, Promotes, Go
<1> SUFFICES ASSUME throws' = 0 PROVE NoThrow' /\ EntryOK'
  BY <1>1
<1>2. throws = 0
  OBVIOUS
<1>3. NoThrow'
  BY <1>2
<1>4. EntryOK'
  BY <1>2
<1>5. QED
  BY <1>3, <1>4

\* EndNotification keeps the entry with its builder or its object.
LEMMA EndNotificationKeeps ==
    ASSUME KeyInv, NEW c \in Threads, EndNotification(c) PROVE KeyInv'
<1>1. IInv'
  BY EndNotificationStep DEF KeyInv
<1> USE NoneIsNobody, DiscoveryIsNoThread, MaxThrowsNat
    DEF KeyInv, EntryOK, NoThrow, Builders, IInv, TypeOK, OwnOK, Owning, EndNotification, LetGo, Drop, Go
<1> SUFFICES ASSUME throws' = 0 PROVE NoThrow' /\ EntryOK'
  BY <1>1
<1>2. throws = 0
  OBVIOUS
<1>3. NoThrow'
  BY <1>2
<1>4. EntryOK'
  BY <1>2
<1>5. QED
  BY SMTT(30), <1>3, <1>4

\* DeleterErase keeps the entry with its builder or its object.
LEMMA DeleterEraseKeeps ==
    ASSUME KeyInv, NEW o \in Objects, DeleterErase(o) PROVE KeyInv'
<1>1. IInv'
  BY DeleterEraseStep DEF KeyInv
<1> USE NoneIsNobody, DiscoveryIsNoThread, MaxThrowsNat
    DEF KeyInv, EntryOK, NoThrow, Builders, IInv, TypeOK, OwnOK, Owning, DeleterErase, DeleterWakes, Absent, Entry
<1> SUFFICES ASSUME throws' = 0 PROVE NoThrow' /\ EntryOK'
  BY <1>1
<1>2. throws = 0
  OBVIOUS
<1>3. NoThrow'
  BY <1>2
<1>4. EntryOK'
  <2>1. entry.weak = o /\ Builders = {}
    BY <1>2
  <2>2. \A x \in Objects \ {o} : life[x] \notin {"alive", "expired"}
    BY <1>2, <2>1
  <2>3. QED
    BY <2>2
<1>5. QED
  BY SMTT(30), <1>3, <1>4

\* Delete keeps the entry with its builder or its object.
LEMMA DeleteKeeps ==
    ASSUME KeyInv, NEW o \in Objects, Delete(o) PROVE KeyInv'
<1>1. IInv'
  BY DeleteStep DEF KeyInv
<1> USE NoneIsNobody, DiscoveryIsNoThread, MaxThrowsNat
    DEF KeyInv, EntryOK, NoThrow, Builders, IInv, TypeOK, OwnOK, Owning, Delete
<1> SUFFICES ASSUME throws' = 0 PROVE NoThrow' /\ EntryOK'
  BY <1>1
<1>2. throws = 0
  OBVIOUS
<1>3. NoThrow'
  BY <1>2
<1>4. EntryOK'
  BY <1>2
<1>5. QED
  BY SMTT(30), <1>3, <1>4

\* DiscoveryDone keeps the entry with its builder or its object.
LEMMA DiscoveryDoneKeeps ==
    ASSUME KeyInv, NEW o \in Objects, DiscoveryDone(o) PROVE KeyInv'
<1>1. IInv'
  BY DiscoveryDoneStep DEF KeyInv
<1> USE NoneIsNobody, DiscoveryIsNoThread, MaxThrowsNat
    DEF KeyInv, EntryOK, NoThrow, Builders, IInv, TypeOK, OwnOK, Owning, DiscoveryDone, Drop
<1> SUFFICES ASSUME throws' = 0 PROVE NoThrow' /\ EntryOK'
  BY <1>1
<1>2. throws = 0
  OBVIOUS
<1>3. NoThrow'
  BY <1>2
<1>4. EntryOK'
  BY <1>2
<1>5. QED
  BY SMTT(30), <1>3, <1>4

\* PeriodicDiscovery keeps the entry with its builder or its object.
LEMMA PeriodicDiscoveryKeeps ==
    ASSUME KeyInv, NEW o \in Objects, PeriodicDiscovery(o) PROVE KeyInv'
<1>1. IInv'
  BY PeriodicDiscoveryStep DEF KeyInv
<1> USE NoneIsNobody, DiscoveryIsNoThread, MaxThrowsNat
    DEF KeyInv, EntryOK, NoThrow, Builders, IInv, TypeOK, OwnOK, Owning, PeriodicDiscovery, Lockable
<1> SUFFICES ASSUME throws' = 0 PROVE NoThrow' /\ EntryOK'
  BY <1>1
<1>2. throws = 0
  OBVIOUS
<1>3. NoThrow'
  BY <1>2
<1>4. EntryOK'
  BY SMTT(30), <1>2
<1>5. QED
  BY SMTT(30), <1>3, <1>4

\* Every step keeps it.
LEMMA NextKeeps == KeyInv /\ [Next]_vars => KeyInv'
<1> SUFFICES ASSUME KeyInv, [Next]_vars PROVE KeyInv'
  OBVIOUS
<1>1. ASSUME NEW c \in Callers, Call(c) \/ Release(c) PROVE KeyInv'
  BY <1>1, CallKeeps, ReleaseKeeps
<1>2. ASSUME NEW c \in Notifiers, CopyWeak(c) PROVE KeyInv'
  BY <1>2, CopyWeakKeeps
<1>3. ASSUME NEW c \in Threads, Inside(c) PROVE KeyInv'
  BY <1>3, LookupKeeps, RecheckKeeps, NewStateKeeps, InitCredentialsKeeps, CatchKeeps,
     UnwindKeeps, PublishKeeps, UseDanglingKeeps, UpdateAsyncKeeps, SendNotificationKeeps,
     EndNotificationKeeps DEF Inside
<1>4. ASSUME NEW o \in Objects, Deleter(o) \/ Background(o)
      PROVE KeyInv'
  BY <1>4, DeleterEraseKeeps, DeleteKeeps, DiscoveryDoneKeeps, PeriodicDiscoveryKeeps
     DEF Deleter, Background
<1>5. CASE UNCHANGED vars
  BY <1>5 DEF vars, KeyInv, NoThrow, EntryOK, Builders, IInv, TypeOK, OwnOK, NamesOK
<1>6. QED
  BY <1>1, <1>2, <1>3, <1>4, <1>5 DEF Next

\* The entry is its builder's or its object's until credentials throw.
THEOREM KeyInvariance == Spec => []KeyInv
<1>1. Init => KeyInv
  BY InitInv DEF KeyInv
<1>2. QED
  BY <1>1, NextKeeps, PTL DEF Spec

\* Until credentials throw the clients of one key share one state, and the
\* entry that GetDriverState reserved is in the map when it publishes.
THEOREM ClientsShareState == Spec => []OneStatePerKey
<1>1. KeyInv => OneStatePerKey
  BY NoneIsNobody DEF KeyInv, IInv, TypeOK, EntryOK, OneStatePerKey, Builders
<1>2. QED
  BY <1>1, KeyInvariance, PTL
=============================================================================
