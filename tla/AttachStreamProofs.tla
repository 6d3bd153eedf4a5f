------------------------- MODULE AttachStreamProofs -------------------------
(***************************************************************************)
(* Proofs for the attach stream, for any number of network threads: the    *)
(* session is never used after it was destroyed, the gRPC stream is used   *)
(* as gRPC asks, and the processor's aborts are unreachable.               *)
(***************************************************************************)
EXTENDS AttachStream, TLAPS

\* Workers that are inside the holder's lock.
Holding == {"owning", "own", "next", "release", "unlock"}

\* Workers that carry the right to issue the next read: between a completed
\* operation and the read, or the end of the loop.
Carrying == {"connect", "make", "build", "try", "owning", "own", "next"}

\* There is one read right: it is with one worker, or with an active read, or
\* with the connect operation, or gone.
RightOK ==
    /\ \A t, u \in Workers :
          pc[t].at \in Carrying /\ pc[u].at \in Carrying => t = u
    /\ \A t \in Workers : pc[t].at \in Carrying => ~proc.readActive
    /\ proc.callback =>
          /\ impl = "none" /\ ~proc.readActive
          /\ \A t \in Workers : pc[t].at = "idle"
    /\ "start" \in ops => proc.callback /\ ~proc.started

\* The processor's flags: a read in flight is active, Finish was called exactly
\* when ReadFinished was set, and Finish in flight means not finished.
ProcOK ==
    /\ "read" \in ops => proc.readActive /\ ~proc.readFinished
    /\ (finishes = 1) <=> proc.readFinished
    /\ "finish" \in ops => proc.readFinished /\ ~proc.finished
    /\ proc.finished => proc.readFinished
    /\ ~proc.started => "start" \in ops /\ ~proc.readFinished

\* The lock: one worker holds it, and while it is held the semaphore is not 0;
\* a worker that uses the session stored its thread id.
LockOK ==
    /\ \A t, u \in Workers :
          pc[t].at \in Holding /\ pc[u].at \in Holding => t = u
    /\ \A t \in Workers : pc[t].at \in Holding => sem # 0
    /\ \A t \in Workers : pc[t].at \in {"own", "next"} => owner = t

\* A destroyed session: either the read right is gone for good, or the
\* destructor locked the semaphore and nobody is left to unlock it.
FreedOK ==
    /\ impl = "freed" =>
          \/ /\ \A t \in Workers : pc[t].at \notin Carrying
             /\ ~proc.readActive
          \/ /\ sem # 0
             /\ \A t \in Workers : pc[t].at \notin Holding
    /\ impl = "none" => \A t \in Workers : pc[t].at \notin Holding
    /\ \A t \in Workers : pc[t].at \in {"build", "publish"} => impl = "alive"
    /\ dtor = "done" <=> impl = "freed"
    /\ dtor = "wait" => Published
    /\ proc.readCb # "none" <=> proc.readActive
    /\ proc.readCb = "make" => impl = "none"
    /\ proc.readCb = "session" => impl # "none"
    /\ \A t \in Workers :
          /\ pc[t].at \in {"connect", "make"} => impl = "none"
          /\ pc[t].at = "try" => impl # "none"

IInv == TypeOK /\ RightOK /\ ProcOK /\ LockOK /\ FreedOK

\* The invariant holds initially: connecting is in flight, nothing else is.
LEMMA InitInv == Init => IInv
  <1> SUFFICES ASSUME Init PROVE IInv
    OBVIOUS
  <1>1. TypeOK
    <2>1. proc \in Proc
      BY DEF Init, Proc
    <2>2. pc \in [Workers -> [at : Places, ev : Events]]
      BY DEF Init, Idle, At, Places, Events
    <2>3. /\ finishes \in 0..1 /\ sem \in Nat
      BY DEF Init
    <2>4. /\ ops \subseteq {"start", "read", "finish"}
          /\ impl \in {"none", "alive", "freed"}
          /\ owner \in Workers \cup {"none"}
          /\ dtor \in {"none", "wait", "done"}
          /\ told \in BOOLEAN
      BY Zenon DEF Init
    <2> QED BY <2>1, <2>2, <2>3, <2>4 DEF TypeOK
  <1>2. RightOK /\ ProcOK
    BY DEF Init, RightOK, ProcOK, Idle, At, Carrying
  <1>3. LockOK /\ FreedOK
    BY DEF Init, LockOK, FreedOK, Published, Idle, At, Carrying, Holding
  <1> QED BY <1>1, <1>2, <1>3 DEF IInv

\* The types of the processor's part of the state.
ProcType ==
    /\ proc \in Proc
    /\ ops \subseteq {"start", "read", "finish"}
    /\ finishes \in 0..1

\* Finish is called only where it was not called before.
LEMMA NotFinishedYet ==
  ASSUME IInv, ~proc.readFinished
  PROVE  finishes = 0
  BY DEF IInv, TypeOK, ProcOK

\* What Cancel does to the processor: only the two flags change, and Finish is
\* called where it was not called before.
LEMMA CancelFacts ==
  ASSUME IInv, Cancel
  PROVE  /\ ProcType' /\ ProcOK'
         /\ "start" \in ops' <=> "start" \in ops
         /\ proc'.callback <=> proc.callback
         /\ proc'.started <=> proc.started
         /\ proc'.readActive <=> proc.readActive
         /\ proc'.readCb = proc.readCb
  <1>1. CASE CancelFinishes
    <2>1. finishes = 0
      BY <1>1, NotFinishedYet DEF CancelFinishes
    <2>2. finishes' = 1 /\ finishes' \in 0..1
      BY <1>1, <2>1 DEF Cancel, Finish
    <2>3. proc' = [proc EXCEPT !.cancelled = TRUE, !.readFinished = TRUE]
      BY Zenon, <1>1 DEF Cancel, IInv, TypeOK, Proc
    <2>4. ProcType'
      BY Zenon, <2>2, <2>3, <1>1 DEF IInv, TypeOK, ProcType, Proc, Cancel, Finish
    <2>5. /\ proc'.readFinished /\ ops' = ops \cup {"finish"}
          /\ proc'.callback = proc.callback
          /\ proc'.started = proc.started
          /\ proc'.readActive = proc.readActive
          /\ proc'.finished = proc.finished
          /\ proc'.readCb = proc.readCb
      BY Zenon, <2>3, <1>1 DEF IInv, TypeOK, Proc, Cancel, Finish
    <2>6. proc.started /\ ~proc.readFinished /\ ~proc.readActive
      BY <1>1 DEF CancelFinishes
    <2>7. ProcOK'
      BY <2>2, <2>5, <2>6 DEF IInv, ProcOK
    <2> QED BY <2>4, <2>5, <2>7
  <1>2. CASE ~CancelFinishes
    <2>1. proc' = [proc EXCEPT !.cancelled = TRUE,
                               !.readFinished = proc.readFinished]
      BY Zenon, <1>2 DEF Cancel, IInv, TypeOK, Proc
    <2> QED
      BY ZenonT(40), <1>2, <2>1 DEF IInv, TypeOK, ProcType, ProcOK, Proc, Cancel, NoFinish
  <1> QED BY <1>1, <1>2

\* What a read does to the processor.
LEMMA StartReadFacts ==
  ASSUME IInv, NEW cb \in {"make", "session"}, StartRead(cb),
         ~proc.readActive, "start" \notin ops
  PROVE  /\ ProcType' /\ ProcOK'
         /\ "start" \notin ops'
         /\ proc'.callback <=> proc.callback
         /\ proc'.readActive
         /\ proc'.readCb = cb
  BY Zenon DEF IInv, TypeOK, ProcType, ProcOK, Proc, StartRead

\* OnStartDone preserves the invariant.
LEMMA OnStartDoneStep ==
  ASSUME IInv, NEW t \in Workers, OnStartDone(t)
  PROVE  IInv'
  <1>1. ProcType'
    BY Zenon DEF IInv, TypeOK, ProcType, Proc, ProcOK, RightOK, OnStartDone, Idle,
           At
  <1>2. pc' \in [Workers -> [at : Places, ev : Events]]
    BY DEF IInv, TypeOK, Proc, ProcOK, Places, Events, OnStartDone, Idle, At
  <1>3. /\ impl' \in {"none", "alive", "freed"}
        /\ sem' \in Nat
        /\ owner' \in Workers \cup {"none"}
        /\ dtor' \in {"none", "wait", "done"}
        /\ told' \in BOOLEAN
    BY DEF IInv, TypeOK, OnStartDone, Idle, At
  <1>4. TypeOK'
    BY <1>1, <1>2, <1>3 DEF TypeOK, ProcType
  <1>5. RightOK'
    BY DEF IInv, TypeOK, Proc, RightOK, ProcOK, FreedOK, Carrying, Published,
           OnStartDone, Idle, At
  <1>6. ProcOK'
    BY DEF IInv, TypeOK, Proc, RightOK, ProcOK, FreedOK, Carrying, Published,
           OnStartDone, Idle, At
  <1>7. LockOK'
    BY DEF IInv, TypeOK, LockOK, FreedOK, Holding, Carrying, OnStartDone,
           Idle, At
  <1>8. FreedOK'
    BY DEF IInv, TypeOK, Proc, RightOK, ProcOK, LockOK, FreedOK, Carrying,
           Holding, Published, OnStartDone, Idle, At
  <1> QED BY <1>4, <1>5, <1>6, <1>7, <1>8 DEF IInv

\* OnStartFailed preserves the invariant.
LEMMA OnStartFailedStep ==
  ASSUME IInv, NEW t \in Workers, OnStartFailed(t)
  PROVE  IInv'
  <1>z. finishes = 0
    BY NotFinishedYet DEF IInv, RightOK, ProcOK, OnStartFailed
  <1>n. finishes' \in 0..1
    BY <1>z DEF OnStartFailed
  <1>1. ProcType'
    BY Zenon, <1>z, <1>n DEF IInv, TypeOK, ProcType, Proc, ProcOK, RightOK,
           OnStartFailed, Idle, At
  <1>2. pc' \in [Workers -> [at : Places, ev : Events]]
    BY <1>z, <1>n DEF IInv, TypeOK, Proc, ProcOK, Places, Events,
           OnStartFailed, Idle, At
  <1>3. /\ impl' \in {"none", "alive", "freed"}
        /\ sem' \in Nat
        /\ owner' \in Workers \cup {"none"}
        /\ dtor' \in {"none", "wait", "done"}
        /\ told' \in BOOLEAN
    BY <1>z, <1>n DEF IInv, TypeOK, OnStartFailed, Idle, At
  <1>4. TypeOK'
    BY <1>1, <1>2, <1>3 DEF TypeOK, ProcType
  <1>5. RightOK'
    BY <1>z, <1>n DEF IInv, TypeOK, Proc, RightOK, ProcOK, FreedOK, Carrying,
           Published, OnStartFailed, Idle, At
  <1>6. ProcOK'
    BY <1>z, <1>n DEF IInv, TypeOK, Proc, RightOK, ProcOK, FreedOK, Carrying,
           Published, OnStartFailed, Idle, At
  <1>7. LockOK'
    BY <1>z, <1>n DEF IInv, TypeOK, LockOK, FreedOK, Holding, Carrying,
           OnStartFailed, Idle, At
  <1>8. FreedOK'
    BY <1>z, <1>n DEF IInv, TypeOK, Proc, RightOK, ProcOK, LockOK, FreedOK,
           Carrying, Holding, Published, OnStartFailed, Idle, At
  <1> QED BY <1>4, <1>5, <1>6, <1>7, <1>8 DEF IInv

\* OnReadDone preserves the invariant.
LEMMA OnReadDoneStep ==
  ASSUME IInv, NEW t \in Workers,
         NEW e \in {"state", "shutdown", "refused"}, OnReadDone(t, e)
  PROVE  IInv'
  <1>z. finishes = 0
    BY NotFinishedYet DEF IInv, RightOK, ProcOK, OnReadDone
  <1>n. finishes' \in 0..1
    BY <1>z DEF OnReadDone
  <1>1. ProcType'
    BY Zenon, <1>z, <1>n DEF IInv, TypeOK, ProcType, Proc, ProcOK, RightOK,
           OnReadDone, ReadCallback, Idle, At
  <1>2. pc' \in [Workers -> [at : Places, ev : Events]]
    BY <1>z, <1>n DEF IInv, TypeOK, Proc, ProcOK, Places, Events, OnReadDone,
           ReadCallback, Idle, At
  <1>3. /\ impl' \in {"none", "alive", "freed"}
        /\ sem' \in Nat
        /\ owner' \in Workers \cup {"none"}
        /\ dtor' \in {"none", "wait", "done"}
        /\ told' \in BOOLEAN
    BY <1>z, <1>n DEF IInv, TypeOK, OnReadDone, ReadCallback, Idle, At
  <1>4. TypeOK'
    BY <1>1, <1>2, <1>3 DEF TypeOK, ProcType
  <1>5. RightOK'
    BY <1>z, <1>n DEF IInv, TypeOK, Proc, RightOK, ProcOK, FreedOK, Carrying,
           Published, OnReadDone, ReadCallback, Idle, At
  <1>6. ProcOK'
    BY <1>z, <1>n DEF IInv, TypeOK, Proc, RightOK, ProcOK, FreedOK, Carrying,
           Published, OnReadDone, ReadCallback, Idle, At
  <1>7. LockOK'
    BY <1>z, <1>n DEF IInv, TypeOK, LockOK, FreedOK, Holding, Carrying,
           OnReadDone, ReadCallback, Idle, At
  <1>8. FreedOK'
    BY <1>z, <1>n DEF IInv, TypeOK, Proc, RightOK, ProcOK, LockOK, FreedOK,
           Carrying, Holding, Published, OnReadDone, ReadCallback, Idle, At
  <1> QED BY <1>4, <1>5, <1>6, <1>7, <1>8 DEF IInv

\* OnReadFailed preserves the invariant.
LEMMA OnReadFailedStep ==
  ASSUME IInv, NEW t \in Workers, OnReadFailed(t)
  PROVE  IInv'
  <1>z. finishes = 0
    BY NotFinishedYet DEF IInv, RightOK, ProcOK, OnReadFailed
  <1>n. finishes' \in 0..1
    BY <1>z DEF OnReadFailed
  <1>1. ProcType'
    BY Zenon, <1>z, <1>n DEF IInv, TypeOK, ProcType, Proc, ProcOK, RightOK,
           OnReadFailed, Idle, At
  <1>2. pc' \in [Workers -> [at : Places, ev : Events]]
    BY <1>z, <1>n DEF IInv, TypeOK, Proc, ProcOK, Places, Events,
           OnReadFailed, Idle, At
  <1>3. /\ impl' \in {"none", "alive", "freed"}
        /\ sem' \in Nat
        /\ owner' \in Workers \cup {"none"}
        /\ dtor' \in {"none", "wait", "done"}
        /\ told' \in BOOLEAN
    BY <1>z, <1>n DEF IInv, TypeOK, OnReadFailed, Idle, At
  <1>4. TypeOK'
    BY <1>1, <1>2, <1>3 DEF TypeOK, ProcType
  <1>5. RightOK'
    BY <1>z, <1>n DEF IInv, TypeOK, Proc, RightOK, ProcOK, FreedOK, Carrying,
           Published, OnReadFailed, Idle, At
  <1>6. ProcOK'
    BY <1>z, <1>n DEF IInv, TypeOK, Proc, RightOK, ProcOK, FreedOK, Carrying,
           Published, OnReadFailed, Idle, At
  <1>7. LockOK'
    BY <1>z, <1>n DEF IInv, TypeOK, LockOK, FreedOK, Holding, Carrying,
           OnReadFailed, Idle, At
  <1>8. FreedOK'
    BY <1>z, <1>n DEF IInv, TypeOK, Proc, RightOK, ProcOK, LockOK, FreedOK,
           Carrying, Holding, Published, OnReadFailed, Idle, At
  <1> QED BY <1>4, <1>5, <1>6, <1>7, <1>8 DEF IInv

\* OnFinished preserves the invariant.
LEMMA OnFinishedStep ==
  ASSUME IInv, NEW t \in Workers, OnFinished(t)
  PROVE  IInv'
  <1>1. ProcType'
    BY Zenon DEF IInv, TypeOK, ProcType, Proc, ProcOK, RightOK, OnFinished,
           ReadCallback, Idle, At
  <1>2. pc' \in [Workers -> [at : Places, ev : Events]]
    BY DEF IInv, TypeOK, Proc, ProcOK, Places, Events, OnFinished,
           ReadCallback, Idle, At
  <1>3. /\ impl' \in {"none", "alive", "freed"}
        /\ sem' \in Nat
        /\ owner' \in Workers \cup {"none"}
        /\ dtor' \in {"none", "wait", "done"}
        /\ told' \in BOOLEAN
    BY DEF IInv, TypeOK, OnFinished, ReadCallback, Idle, At
  <1>4. TypeOK'
    BY <1>1, <1>2, <1>3 DEF TypeOK, ProcType
  <1>5. RightOK'
    BY DEF IInv, TypeOK, Proc, RightOK, ProcOK, FreedOK, Carrying, Published,
           OnFinished, ReadCallback, Idle, At
  <1>6. ProcOK'
    BY DEF IInv, TypeOK, Proc, RightOK, ProcOK, FreedOK, Carrying, Published,
           OnFinished, ReadCallback, Idle, At
  <1>7. LockOK'
    BY DEF IInv, TypeOK, LockOK, FreedOK, Holding, Carrying, OnFinished,
           ReadCallback, Idle, At
  <1>8. FreedOK'
    BY DEF IInv, TypeOK, Proc, RightOK, ProcOK, LockOK, FreedOK, Carrying,
           Holding, Published, OnFinished, ReadCallback, Idle, At
  <1> QED BY <1>4, <1>5, <1>6, <1>7, <1>8 DEF IInv

\* ContextStop preserves the invariant.
LEMMA ContextStopStep ==
  ASSUME IInv, ContextStop
  PROVE  IInv'
  <1>0. Cancel /\ UNCHANGED <<pc, impl, sem, owner, told>>
    BY DEF ContextStop
  <1>c. /\ ProcType' /\ ProcOK'
        /\ "start" \in ops' <=> "start" \in ops
        /\ proc'.callback <=> proc.callback
        /\ proc'.started <=> proc.started
        /\ proc'.readActive <=> proc.readActive
        /\ proc'.readCb = proc.readCb
    BY <1>0, CancelFacts
  <1>1. ProcType'
    BY <1>0, <1>c DEF IInv, TypeOK, ProcType, Proc, ProcOK, RightOK,
           ContextStop, Idle, At
  <1>2. pc' \in [Workers -> [at : Places, ev : Events]]
    BY <1>0, <1>c DEF IInv, TypeOK, Proc, ProcOK, Places, Events, ContextStop,
           Idle, At
  <1>3. /\ impl' \in {"none", "alive", "freed"}
        /\ sem' \in Nat
        /\ owner' \in Workers \cup {"none"}
        /\ dtor' \in {"none", "wait", "done"}
        /\ told' \in BOOLEAN
    BY <1>0, <1>c DEF IInv, TypeOK, ContextStop, Idle, At
  <1>4. TypeOK'
    BY <1>1, <1>2, <1>3 DEF TypeOK, ProcType
  <1>5. RightOK'
    BY <1>0, <1>c DEF IInv, TypeOK, Proc, RightOK, ProcOK, FreedOK, Carrying,
           Published, ContextStop, Idle, At
  <1>6. ProcOK'
    BY <1>0, <1>c DEF IInv, TypeOK, Proc, RightOK, ProcOK, FreedOK, Carrying,
           Published, ContextStop, Idle, At
  <1>7. LockOK'
    BY <1>0, <1>c DEF IInv, TypeOK, LockOK, FreedOK, Holding, Carrying,
           ContextStop, Idle, At
  <1>8. FreedOK'
    BY <1>0, <1>c DEF IInv, TypeOK, Proc, RightOK, ProcOK, LockOK, FreedOK,
           Carrying, Holding, Published, ContextStop, Idle, At
  <1> QED BY <1>4, <1>5, <1>6, <1>7, <1>8 DEF IInv

\* Connected preserves the invariant.
LEMMA ConnectedStep ==
  ASSUME IInv, NEW t \in Workers, Connected(t)
  PROVE  IInv'
  <1>0. ~proc.readActive /\ "start" \notin ops
    BY DEF IInv, TypeOK, RightOK, Carrying, Connected
  <1>r. CASE StartRead("make")
    <2>0. /\ ProcType' /\ ProcOK'
          /\ "start" \notin ops'
          /\ proc'.callback <=> proc.callback
          /\ proc'.readActive
          /\ proc'.readCb = "make"
      BY <1>0, <1>r, StartReadFacts
    <2>1. ProcType'
      BY <1>r, <2>0 DEF IInv, TypeOK, ProcType, Proc, ProcOK, RightOK,
             Connected, ReadOfFinished, Idle, At, ReadOfFinished, StartRead
    <2>2. pc' \in [Workers -> [at : Places, ev : Events]]
      BY <1>r, <2>0 DEF IInv, TypeOK, Proc, ProcOK, Places, Events, Connected,
             ReadOfFinished, Idle, At, ReadOfFinished, StartRead
    <2>3. /\ impl' \in {"none", "alive", "freed"}
          /\ sem' \in Nat
          /\ owner' \in Workers \cup {"none"}
          /\ dtor' \in {"none", "wait", "done"}
          /\ told' \in BOOLEAN
      BY <1>r, <2>0 DEF IInv, TypeOK, Connected, ReadOfFinished, Idle, At,
             ReadOfFinished, StartRead
    <2>4. TypeOK'
      BY <2>1, <2>2, <2>3 DEF TypeOK, ProcType
    <2>5. RightOK'
      BY <1>r, <2>0 DEF IInv, TypeOK, Proc, RightOK, ProcOK, FreedOK,
             Carrying, Published, Connected, ReadOfFinished, Idle, At,
             ReadOfFinished, StartRead
    <2>6. ProcOK'
      BY <1>r, <2>0 DEF IInv, TypeOK, Proc, RightOK, ProcOK, FreedOK,
             Carrying, Published, Connected, ReadOfFinished, Idle, At,
             ReadOfFinished, StartRead
    <2>7. LockOK'
      BY <1>r, <2>0 DEF IInv, TypeOK, LockOK, FreedOK, Holding, Carrying,
             Connected, ReadOfFinished, Idle, At, ReadOfFinished, StartRead
    <2>8. FreedOK'
      BY SMTT(30), <1>r, <2>0 DEF IInv, TypeOK, Proc, RightOK, ProcOK, LockOK, FreedOK,
             Carrying, Holding, Published, Connected, ReadOfFinished, Idle,
             At, ReadOfFinished, StartRead
    <2> QED BY <2>4, <2>5, <2>6, <2>7, <2>8 DEF IInv
  <1>f. CASE ReadOfFinished
    <2>1. ProcType'
      BY <1>f DEF IInv, TypeOK, ProcType, Proc, ProcOK, RightOK, Connected,
             ReadOfFinished, Idle, At, StartRead
    <2>2. pc' \in [Workers -> [at : Places, ev : Events]]
      BY <1>f DEF IInv, TypeOK, Proc, ProcOK, Places, Events, Connected,
             ReadOfFinished, Idle, At, StartRead
    <2>3. /\ impl' \in {"none", "alive", "freed"}
          /\ sem' \in Nat
          /\ owner' \in Workers \cup {"none"}
          /\ dtor' \in {"none", "wait", "done"}
          /\ told' \in BOOLEAN
      BY <1>f DEF IInv, TypeOK, Connected, ReadOfFinished, Idle, At, StartRead
    <2>4. TypeOK'
      BY <2>1, <2>2, <2>3 DEF TypeOK, ProcType
    <2>5. RightOK'
      BY <1>f DEF IInv, TypeOK, Proc, RightOK, ProcOK, FreedOK, Carrying,
             Published, Connected, ReadOfFinished, Idle, At, StartRead
    <2>6. ProcOK'
      BY <1>f DEF IInv, TypeOK, Proc, RightOK, ProcOK, FreedOK, Carrying,
             Published, Connected, ReadOfFinished, Idle, At, StartRead
    <2>7. LockOK'
      BY <1>f DEF IInv, TypeOK, LockOK, FreedOK, Holding, Carrying, Connected,
             ReadOfFinished, Idle, At, StartRead
    <2>8. FreedOK'
      BY <1>f DEF IInv, TypeOK, Proc, RightOK, ProcOK, LockOK, FreedOK,
             Carrying, Holding, Published, Connected, ReadOfFinished, Idle,
             At, StartRead
    <2> QED BY <2>4, <2>5, <2>6, <2>7, <2>8 DEF IInv
  <1> QED BY <1>r, <1>f DEF Connected

\* MakeImplAsync preserves the invariant.
LEMMA MakeImplAsyncStep ==
  ASSUME IInv, NEW t \in Workers, MakeImplAsync(t)
  PROVE  IInv'
  <1>1. ProcType'
    BY DEF IInv, TypeOK, ProcType, Proc, ProcOK, RightOK, MakeImplAsync, Step,
           Idle, At
  <1>2. pc' \in [Workers -> [at : Places, ev : Events]]
    BY DEF IInv, TypeOK, Proc, ProcOK, Places, Events, MakeImplAsync, Step,
           Idle, At
  <1>3. /\ impl' \in {"none", "alive", "freed"}
        /\ sem' \in Nat
        /\ owner' \in Workers \cup {"none"}
        /\ dtor' \in {"none", "wait", "done"}
        /\ told' \in BOOLEAN
    BY DEF IInv, TypeOK, MakeImplAsync, Step, Idle, At
  <1>4. TypeOK'
    BY <1>1, <1>2, <1>3 DEF TypeOK, ProcType
  <1>5. RightOK'
    BY DEF IInv, TypeOK, Proc, RightOK, ProcOK, FreedOK, Carrying, Published,
           MakeImplAsync, Step, Idle, At
  <1>6. ProcOK'
    BY DEF IInv, TypeOK, Proc, RightOK, ProcOK, FreedOK, Carrying, Published,
           MakeImplAsync, Step, Idle, At
  <1>7. LockOK'
    BY DEF IInv, TypeOK, LockOK, FreedOK, Holding, Carrying, MakeImplAsync,
           Step, Idle, At
  <1>8. FreedOK'
    BY DEF IInv, TypeOK, Proc, RightOK, ProcOK, LockOK, FreedOK, Carrying,
           Holding, Published, MakeImplAsync, Step, Idle, At
  <1> QED BY <1>4, <1>5, <1>6, <1>7, <1>8 DEF IInv

\* Build preserves the invariant.
LEMMA BuildStep ==
  ASSUME IInv, NEW t \in Workers, Build(t)
  PROVE  IInv'
  <1>0. ~proc.readActive /\ "start" \notin ops
    BY DEF IInv, TypeOK, RightOK, Carrying, Build
  <1>r. CASE StartRead("session")
    <2>0. /\ ProcType' /\ ProcOK'
          /\ "start" \notin ops'
          /\ proc'.callback <=> proc.callback
          /\ proc'.readActive
          /\ proc'.readCb = "session"
      BY <1>0, <1>r, StartReadFacts
    <2>1. ProcType'
      BY <1>r, <2>0 DEF IInv, TypeOK, ProcType, Proc, ProcOK, RightOK, Build,
             ReadOfFinished, Step, Idle, At, ReadOfFinished, StartRead
    <2>2. pc' \in [Workers -> [at : Places, ev : Events]]
      BY <1>r, <2>0 DEF IInv, TypeOK, Proc, ProcOK, Places, Events, Build,
             ReadOfFinished, Step, Idle, At, ReadOfFinished, StartRead
    <2>3. /\ impl' \in {"none", "alive", "freed"}
          /\ sem' \in Nat
          /\ owner' \in Workers \cup {"none"}
          /\ dtor' \in {"none", "wait", "done"}
          /\ told' \in BOOLEAN
      BY <1>r, <2>0 DEF IInv, TypeOK, Build, ReadOfFinished, Step, Idle, At,
             ReadOfFinished, StartRead
    <2>4. TypeOK'
      BY <2>1, <2>2, <2>3 DEF TypeOK, ProcType
    <2>5. RightOK'
      BY <1>r, <2>0 DEF IInv, TypeOK, Proc, RightOK, ProcOK, FreedOK,
             Carrying, Published, Build, ReadOfFinished, Step, Idle, At,
             ReadOfFinished, StartRead
    <2>6. ProcOK'
      BY <1>r, <2>0 DEF IInv, TypeOK, Proc, RightOK, ProcOK, FreedOK,
             Carrying, Published, Build, ReadOfFinished, Step, Idle, At,
             ReadOfFinished, StartRead
    <2>7. LockOK'
      BY <1>r, <2>0 DEF IInv, TypeOK, LockOK, FreedOK, Holding, Carrying,
             Build, ReadOfFinished, Step, Idle, At, ReadOfFinished, StartRead
    <2>8. FreedOK'
      BY <1>r, <2>0 DEF IInv, TypeOK, Proc, RightOK, ProcOK, LockOK, FreedOK,
             Carrying, Holding, Published, Build, ReadOfFinished, Step, Idle,
             At, ReadOfFinished, StartRead
    <2> QED BY <2>4, <2>5, <2>6, <2>7, <2>8 DEF IInv
  <1>f. CASE ReadOfFinished
    <2>1. ProcType'
      BY <1>f DEF IInv, TypeOK, ProcType, Proc, ProcOK, RightOK, Build,
             ReadOfFinished, Step, Idle, At, StartRead
    <2>2. pc' \in [Workers -> [at : Places, ev : Events]]
      BY <1>f DEF IInv, TypeOK, Proc, ProcOK, Places, Events, Build,
             ReadOfFinished, Step, Idle, At, StartRead
    <2>3. /\ impl' \in {"none", "alive", "freed"}
          /\ sem' \in Nat
          /\ owner' \in Workers \cup {"none"}
          /\ dtor' \in {"none", "wait", "done"}
          /\ told' \in BOOLEAN
      BY <1>f DEF IInv, TypeOK, Build, ReadOfFinished, Step, Idle, At,
             StartRead
    <2>4. TypeOK'
      BY <2>1, <2>2, <2>3 DEF TypeOK, ProcType
    <2>5. RightOK'
      BY <1>f DEF IInv, TypeOK, Proc, RightOK, ProcOK, FreedOK, Carrying,
             Published, Build, ReadOfFinished, Step, Idle, At, StartRead
    <2>6. ProcOK'
      BY <1>f DEF IInv, TypeOK, Proc, RightOK, ProcOK, FreedOK, Carrying,
             Published, Build, ReadOfFinished, Step, Idle, At, StartRead
    <2>7. LockOK'
      BY <1>f DEF IInv, TypeOK, LockOK, FreedOK, Holding, Carrying, Build,
             ReadOfFinished, Step, Idle, At, StartRead
    <2>8. FreedOK'
      BY <1>f DEF IInv, TypeOK, Proc, RightOK, ProcOK, LockOK, FreedOK,
             Carrying, Holding, Published, Build, ReadOfFinished, Step, Idle,
             At, StartRead
    <2> QED BY <2>4, <2>5, <2>6, <2>7, <2>8 DEF IInv
  <1> QED BY <1>r, <1>f DEF Build

\* NewSmartShared preserves the invariant.
LEMMA NewSmartSharedStep ==
  ASSUME IInv, NEW t \in Workers, NewSmartShared(t)
  PROVE  IInv'
  <1>1. ProcType'
    BY DEF IInv, TypeOK, ProcType, Proc, ProcOK, RightOK, NewSmartShared,
           Idle, At
  <1>2. pc' \in [Workers -> [at : Places, ev : Events]]
    BY DEF IInv, TypeOK, Proc, ProcOK, Places, Events, NewSmartShared, Idle,
           At
  <1>3. /\ impl' \in {"none", "alive", "freed"}
        /\ sem' \in Nat
        /\ owner' \in Workers \cup {"none"}
        /\ dtor' \in {"none", "wait", "done"}
        /\ told' \in BOOLEAN
    BY DEF IInv, TypeOK, NewSmartShared, Idle, At
  <1>4. TypeOK'
    BY <1>1, <1>2, <1>3 DEF TypeOK, ProcType
  <1>5. RightOK'
    BY DEF IInv, TypeOK, Proc, RightOK, ProcOK, FreedOK, Carrying, Published,
           NewSmartShared, Idle, At
  <1>6. ProcOK'
    BY DEF IInv, TypeOK, Proc, RightOK, ProcOK, FreedOK, Carrying, Published,
           NewSmartShared, Idle, At
  <1>7. LockOK'
    BY DEF IInv, TypeOK, LockOK, FreedOK, Holding, Carrying, NewSmartShared,
           Idle, At
  <1>8. FreedOK'
    BY DEF IInv, TypeOK, Proc, RightOK, ProcOK, LockOK, FreedOK, Carrying,
           Holding, Published, NewSmartShared, Idle, At
  <1> QED BY <1>4, <1>5, <1>6, <1>7, <1>8 DEF IInv

\* TrySharedOwning preserves the invariant.
LEMMA TrySharedOwningStep ==
  ASSUME IInv, NEW t \in Workers, TrySharedOwning(t)
  PROVE  IInv'
  <1>1. ProcType'
    BY DEF IInv, TypeOK, ProcType, Proc, ProcOK, RightOK, TrySharedOwning,
           MayOwn, Step, Idle, At
  <1>2. pc' \in [Workers -> [at : Places, ev : Events]]
    BY DEF IInv, TypeOK, Proc, ProcOK, Places, Events, TrySharedOwning,
           MayOwn, Step, Idle, At
  <1>3. /\ impl' \in {"none", "alive", "freed"}
        /\ sem' \in Nat
        /\ owner' \in Workers \cup {"none"}
        /\ dtor' \in {"none", "wait", "done"}
        /\ told' \in BOOLEAN
    BY DEF IInv, TypeOK, TrySharedOwning, MayOwn, Step, Idle, At
  <1>4. TypeOK'
    BY <1>1, <1>2, <1>3 DEF TypeOK, ProcType
  <1>5. RightOK'
    BY DEF IInv, TypeOK, Proc, RightOK, ProcOK, FreedOK, Carrying, Published,
           TrySharedOwning, MayOwn, Step, Idle, At
  <1>6. ProcOK'
    BY DEF IInv, TypeOK, Proc, RightOK, ProcOK, FreedOK, Carrying, Published,
           TrySharedOwning, MayOwn, Step, Idle, At
  <1>7. LockOK'
    BY DEF IInv, TypeOK, LockOK, FreedOK, Holding, Carrying, TrySharedOwning,
           MayOwn, Step, Idle, At
  <1>8. FreedOK'
    BY DEF IInv, TypeOK, Proc, RightOK, ProcOK, LockOK, FreedOK, Carrying,
           Holding, Published, TrySharedOwning, MayOwn, Step, Idle, At
  <1> QED BY <1>4, <1>5, <1>6, <1>7, <1>8 DEF IInv

\* StoreOwner preserves the invariant.
LEMMA StoreOwnerStep ==
  ASSUME IInv, NEW t \in Workers, StoreOwner(t)
  PROVE  IInv'
  <1>1. ProcType'
    BY DEF IInv, TypeOK, ProcType, Proc, ProcOK, RightOK, StoreOwner, Step,
           Idle, At
  <1>2. pc' \in [Workers -> [at : Places, ev : Events]]
    BY DEF IInv, TypeOK, Proc, ProcOK, Places, Events, StoreOwner, Step, Idle,
           At
  <1>3. /\ impl' \in {"none", "alive", "freed"}
        /\ sem' \in Nat
        /\ owner' \in Workers \cup {"none"}
        /\ dtor' \in {"none", "wait", "done"}
        /\ told' \in BOOLEAN
    BY DEF IInv, TypeOK, StoreOwner, Step, Idle, At
  <1>4. TypeOK'
    BY <1>1, <1>2, <1>3 DEF TypeOK, ProcType
  <1>5. RightOK'
    BY DEF IInv, TypeOK, Proc, RightOK, ProcOK, FreedOK, Carrying, Published,
           StoreOwner, Step, Idle, At
  <1>6. ProcOK'
    BY DEF IInv, TypeOK, Proc, RightOK, ProcOK, FreedOK, Carrying, Published,
           StoreOwner, Step, Idle, At
  <1>7. LockOK'
    BY DEF IInv, TypeOK, LockOK, FreedOK, Holding, Carrying, StoreOwner, Step,
           Idle, At
  <1>8. FreedOK'
    BY DEF IInv, TypeOK, Proc, RightOK, ProcOK, LockOK, FreedOK, Carrying,
           Holding, Published, StoreOwner, Step, Idle, At
  <1> QED BY <1>4, <1>5, <1>6, <1>7, <1>8 DEF IInv

\* Handle preserves the invariant.
LEMMA HandleStep ==
  ASSUME IInv, NEW t \in Workers, Handle(t)
  PROVE  IInv'
  <1>u. CASE UNCHANGED <<proc, ops, finishes, impl, dtor>>
    <2>1. ProcType'
      BY <1>u DEF IInv, TypeOK, ProcType, Proc, ProcOK, RightOK, Handle, Step,
             ReadsOn, Published, Idle, At
    <2>2. pc' \in [Workers -> [at : Places, ev : Events]]
      BY <1>u DEF IInv, TypeOK, Proc, ProcOK, Places, Events, Handle, Step,
             ReadsOn, Published, Idle, At
    <2>3. /\ impl' \in {"none", "alive", "freed"}
          /\ sem' \in Nat
          /\ owner' \in Workers \cup {"none"}
          /\ dtor' \in {"none", "wait", "done"}
          /\ told' \in BOOLEAN
      BY <1>u DEF IInv, TypeOK, Handle, Step, ReadsOn, Published, Idle, At
    <2>4. TypeOK'
      BY <2>1, <2>2, <2>3 DEF TypeOK, ProcType
    <2>5. RightOK'
      BY <1>u DEF IInv, TypeOK, Proc, RightOK, ProcOK, FreedOK, Carrying,
             Published, Handle, Step, ReadsOn, Idle, At
    <2>6. ProcOK'
      BY <1>u DEF IInv, TypeOK, Proc, RightOK, ProcOK, FreedOK, Carrying,
             Published, Handle, Step, ReadsOn, Idle, At
    <2>7. LockOK'
      BY <1>u DEF IInv, TypeOK, LockOK, FreedOK, Holding, Carrying, Handle,
             Step, ReadsOn, Published, Idle, At
    <2>8. FreedOK'
      BY <1>u DEF IInv, TypeOK, Proc, RightOK, ProcOK, LockOK, FreedOK,
             Carrying, Holding, Published, Handle, Step, ReadsOn, Idle, At
    <2> QED BY <2>4, <2>5, <2>6, <2>7, <2>8 DEF IInv
  <1>c. CASE /\ pc[t].ev # "state" /\ Published /\ dtor = "none"
             /\ Cancel /\ owner = t /\ impl' = "freed" /\ dtor' = "done"
    <2>0. /\ ProcType' /\ ProcOK'
          /\ "start" \in ops' <=> "start" \in ops
          /\ proc'.callback <=> proc.callback
          /\ proc'.started <=> proc.started
          /\ proc'.readActive <=> proc.readActive
          /\ proc'.readCb = proc.readCb
      BY <1>c, CancelFacts
    <2>1. ProcType'
      BY <1>c, <2>0 DEF IInv, TypeOK, ProcType, Proc, ProcOK, RightOK, Handle,
             Step, ReadsOn, Published, Idle, At
    <2>2. pc' \in [Workers -> [at : Places, ev : Events]]
      BY <1>c, <2>0 DEF IInv, TypeOK, Proc, ProcOK, Places, Events, Handle,
             Step, ReadsOn, Published, Idle, At
    <2>3. /\ impl' \in {"none", "alive", "freed"}
          /\ sem' \in Nat
          /\ owner' \in Workers \cup {"none"}
          /\ dtor' \in {"none", "wait", "done"}
          /\ told' \in BOOLEAN
      BY <1>c, <2>0 DEF IInv, TypeOK, Handle, Step, ReadsOn, Published, Idle,
             At
    <2>4. TypeOK'
      BY <2>1, <2>2, <2>3 DEF TypeOK, ProcType
    <2>5. RightOK'
      BY <1>c, <2>0 DEF IInv, TypeOK, Proc, RightOK, ProcOK, FreedOK,
             Carrying, Published, Handle, Step, ReadsOn, Idle, At
    <2>6. ProcOK'
      BY <1>c, <2>0 DEF IInv, TypeOK, Proc, RightOK, ProcOK, FreedOK,
             Carrying, Published, Handle, Step, ReadsOn, Idle, At
    <2>7. LockOK'
      BY <1>c, <2>0 DEF IInv, TypeOK, LockOK, FreedOK, Holding, Carrying,
             Handle, Step, ReadsOn, Published, Idle, At
    <2>8. FreedOK'
      BY <1>c, <2>0 DEF IInv, TypeOK, Proc, RightOK, ProcOK, LockOK, FreedOK,
             Carrying, Holding, Published, Handle, Step, ReadsOn, Idle, At
    <2> QED BY <2>4, <2>5, <2>6, <2>7, <2>8 DEF IInv
  <1> QED BY <1>u, <1>c DEF Handle

\* StartAsyncRead preserves the invariant.
LEMMA StartAsyncReadStep ==
  ASSUME IInv, NEW t \in Workers, StartAsyncRead(t)
  PROVE  IInv'
  <1>0. ~proc.readActive /\ "start" \notin ops
    BY DEF IInv, TypeOK, RightOK, Carrying, StartAsyncRead
  <1>r. CASE StartRead("session")
    <2>0. /\ ProcType' /\ ProcOK'
          /\ "start" \notin ops'
          /\ proc'.callback <=> proc.callback
          /\ proc'.readActive
          /\ proc'.readCb = "session"
      BY <1>0, <1>r, StartReadFacts
    <2>1. ProcType'
      BY <1>r, <2>0 DEF IInv, TypeOK, ProcType, Proc, ProcOK, RightOK,
             StartAsyncRead, ReadOfFinished, Step, Idle, At, ReadOfFinished,
             StartRead
    <2>2. pc' \in [Workers -> [at : Places, ev : Events]]
      BY <1>r, <2>0 DEF IInv, TypeOK, Proc, ProcOK, Places, Events,
             StartAsyncRead, ReadOfFinished, Step, Idle, At, ReadOfFinished,
             StartRead
    <2>3. /\ impl' \in {"none", "alive", "freed"}
          /\ sem' \in Nat
          /\ owner' \in Workers \cup {"none"}
          /\ dtor' \in {"none", "wait", "done"}
          /\ told' \in BOOLEAN
      BY <1>r, <2>0 DEF IInv, TypeOK, StartAsyncRead, ReadOfFinished, Step,
             Idle, At, ReadOfFinished, StartRead
    <2>4. TypeOK'
      BY <2>1, <2>2, <2>3 DEF TypeOK, ProcType
    <2>5. RightOK'
      BY <1>r, <2>0 DEF IInv, TypeOK, Proc, RightOK, ProcOK, FreedOK,
             Carrying, Published, StartAsyncRead, ReadOfFinished, Step, Idle,
             At, ReadOfFinished, StartRead
    <2>6. ProcOK'
      BY <1>r, <2>0 DEF IInv, TypeOK, Proc, RightOK, ProcOK, FreedOK,
             Carrying, Published, StartAsyncRead, ReadOfFinished, Step, Idle,
             At, ReadOfFinished, StartRead
    <2>7. LockOK'
      BY <1>r, <2>0 DEF IInv, TypeOK, LockOK, FreedOK, Holding, Carrying,
             StartAsyncRead, ReadOfFinished, Step, Idle, At, ReadOfFinished,
             StartRead
    <2>8. FreedOK'
      BY <1>r, <2>0 DEF IInv, TypeOK, Proc, RightOK, ProcOK, LockOK, FreedOK,
             Carrying, Holding, Published, StartAsyncRead, ReadOfFinished,
             Step, Idle, At, ReadOfFinished, StartRead
    <2> QED BY <2>4, <2>5, <2>6, <2>7, <2>8 DEF IInv
  <1>f. CASE ReadOfFinished
    <2>1. ProcType'
      BY <1>f DEF IInv, TypeOK, ProcType, Proc, ProcOK, RightOK,
             StartAsyncRead, ReadOfFinished, Step, Idle, At, StartRead
    <2>2. pc' \in [Workers -> [at : Places, ev : Events]]
      BY <1>f DEF IInv, TypeOK, Proc, ProcOK, Places, Events, StartAsyncRead,
             ReadOfFinished, Step, Idle, At, StartRead
    <2>3. /\ impl' \in {"none", "alive", "freed"}
          /\ sem' \in Nat
          /\ owner' \in Workers \cup {"none"}
          /\ dtor' \in {"none", "wait", "done"}
          /\ told' \in BOOLEAN
      BY <1>f DEF IInv, TypeOK, StartAsyncRead, ReadOfFinished, Step, Idle,
             At, StartRead
    <2>4. TypeOK'
      BY <2>1, <2>2, <2>3 DEF TypeOK, ProcType
    <2>5. RightOK'
      BY <1>f DEF IInv, TypeOK, Proc, RightOK, ProcOK, FreedOK, Carrying,
             Published, StartAsyncRead, ReadOfFinished, Step, Idle, At,
             StartRead
    <2>6. ProcOK'
      BY <1>f DEF IInv, TypeOK, Proc, RightOK, ProcOK, FreedOK, Carrying,
             Published, StartAsyncRead, ReadOfFinished, Step, Idle, At,
             StartRead
    <2>7. LockOK'
      BY <1>f DEF IInv, TypeOK, LockOK, FreedOK, Holding, Carrying,
             StartAsyncRead, ReadOfFinished, Step, Idle, At, StartRead
    <2>8. FreedOK'
      BY <1>f DEF IInv, TypeOK, Proc, RightOK, ProcOK, LockOK, FreedOK,
             Carrying, Holding, Published, StartAsyncRead, ReadOfFinished,
             Step, Idle, At, StartRead
    <2> QED BY <2>4, <2>5, <2>6, <2>7, <2>8 DEF IInv
  <1> QED BY <1>r, <1>f DEF StartAsyncRead

\* ReleaseOwner preserves the invariant.
LEMMA ReleaseOwnerStep ==
  ASSUME IInv, NEW t \in Workers, ReleaseOwner(t)
  PROVE  IInv'
  <1>1. ProcType'
    BY DEF IInv, TypeOK, ProcType, Proc, ProcOK, RightOK, ReleaseOwner, Step,
           Idle, At
  <1>2. pc' \in [Workers -> [at : Places, ev : Events]]
    BY DEF IInv, TypeOK, Proc, ProcOK, Places, Events, ReleaseOwner, Step,
           Idle, At
  <1>3. /\ impl' \in {"none", "alive", "freed"}
        /\ sem' \in Nat
        /\ owner' \in Workers \cup {"none"}
        /\ dtor' \in {"none", "wait", "done"}
        /\ told' \in BOOLEAN
    BY DEF IInv, TypeOK, ReleaseOwner, Step, Idle, At
  <1>4. TypeOK'
    BY <1>1, <1>2, <1>3 DEF TypeOK, ProcType
  <1>5. RightOK'
    BY DEF IInv, TypeOK, Proc, RightOK, ProcOK, FreedOK, Carrying, Published,
           ReleaseOwner, Step, Idle, At
  <1>6. ProcOK'
    BY DEF IInv, TypeOK, Proc, RightOK, ProcOK, FreedOK, Carrying, Published,
           ReleaseOwner, Step, Idle, At
  <1>7. LockOK'
    BY DEF IInv, TypeOK, LockOK, FreedOK, Holding, Carrying, ReleaseOwner,
           Step, Idle, At
  <1>8. FreedOK'
    BY DEF IInv, TypeOK, Proc, RightOK, ProcOK, LockOK, FreedOK, Carrying,
           Holding, Published, ReleaseOwner, Step, Idle, At
  <1> QED BY <1>4, <1>5, <1>6, <1>7, <1>8 DEF IInv

\* ReleaseSemaphore preserves the invariant.
LEMMA ReleaseSemaphoreStep ==
  ASSUME IInv, NEW t \in Workers, ReleaseSemaphore(t)
  PROVE  IInv'
  <1>1. ProcType'
    BY DEF IInv, TypeOK, ProcType, Proc, ProcOK, RightOK, ReleaseSemaphore,
           Unlocked, Idle, At
  <1>2. pc' \in [Workers -> [at : Places, ev : Events]]
    BY DEF IInv, TypeOK, Proc, ProcOK, Places, Events, ReleaseSemaphore,
           Unlocked, Idle, At
  <1>3. /\ impl' \in {"none", "alive", "freed"}
        /\ sem' \in Nat
        /\ owner' \in Workers \cup {"none"}
        /\ dtor' \in {"none", "wait", "done"}
        /\ told' \in BOOLEAN
    BY DEF IInv, TypeOK, ReleaseSemaphore, Unlocked, Idle, At
  <1>4. TypeOK'
    BY <1>1, <1>2, <1>3 DEF TypeOK, ProcType
  <1>5. RightOK'
    BY DEF IInv, TypeOK, Proc, RightOK, ProcOK, FreedOK, Carrying, Published,
           ReleaseSemaphore, Unlocked, Idle, At
  <1>6. ProcOK'
    BY DEF IInv, TypeOK, Proc, RightOK, ProcOK, FreedOK, Carrying, Published,
           ReleaseSemaphore, Unlocked, Idle, At
  <1>7. LockOK'
    BY DEF IInv, TypeOK, LockOK, FreedOK, Holding, Carrying, ReleaseSemaphore,
           Unlocked, Idle, At
  <1>8. FreedOK'
    BY DEF IInv, TypeOK, Proc, RightOK, ProcOK, LockOK, FreedOK, Carrying,
           Holding, Published, ReleaseSemaphore, Unlocked, Idle, At
  <1> QED BY <1>4, <1>5, <1>6, <1>7, <1>8 DEF IInv

\* DestroyCancel preserves the invariant.
LEMMA DestroyCancelStep ==
  ASSUME IInv, DestroyCancel
  PROVE  IInv'
  <1>0. Cancel /\ UNCHANGED <<pc, impl, sem, owner, told>>
    BY DEF DestroyCancel
  <1>c. /\ ProcType' /\ ProcOK'
        /\ "start" \in ops' <=> "start" \in ops
        /\ proc'.callback <=> proc.callback
        /\ proc'.started <=> proc.started
        /\ proc'.readActive <=> proc.readActive
        /\ proc'.readCb = proc.readCb
    BY <1>0, CancelFacts
  <1>1. ProcType'
    BY <1>0, <1>c DEF IInv, TypeOK, ProcType, Proc, ProcOK, RightOK,
           DestroyCancel, Published, Idle, At
  <1>2. pc' \in [Workers -> [at : Places, ev : Events]]
    BY <1>0, <1>c DEF IInv, TypeOK, Proc, ProcOK, Places, Events,
           DestroyCancel, Published, Idle, At
  <1>3. /\ impl' \in {"none", "alive", "freed"}
        /\ sem' \in Nat
        /\ owner' \in Workers \cup {"none"}
        /\ dtor' \in {"none", "wait", "done"}
        /\ told' \in BOOLEAN
    BY <1>0, <1>c DEF IInv, TypeOK, DestroyCancel, Published, Idle, At
  <1>4. TypeOK'
    BY <1>1, <1>2, <1>3 DEF TypeOK, ProcType
  <1>5. RightOK'
    BY <1>0, <1>c DEF IInv, TypeOK, Proc, RightOK, ProcOK, FreedOK, Carrying,
           Published, DestroyCancel, Idle, At
  <1>6. ProcOK'
    BY <1>0, <1>c DEF IInv, TypeOK, Proc, RightOK, ProcOK, FreedOK, Carrying,
           Published, DestroyCancel, Idle, At
  <1>7. LockOK'
    BY <1>0, <1>c DEF IInv, TypeOK, LockOK, FreedOK, Holding, Carrying,
           DestroyCancel, Published, Idle, At
  <1>8. FreedOK'
    BY <1>0, <1>c DEF IInv, TypeOK, Proc, RightOK, ProcOK, LockOK, FreedOK,
           Carrying, Holding, Published, DestroyCancel, Idle, At
  <1> QED BY <1>4, <1>5, <1>6, <1>7, <1>8 DEF IInv

\* WaitAndLock preserves the invariant.
LEMMA WaitAndLockStep ==
  ASSUME IInv, WaitAndLock
  PROVE  IInv'
  <1>1. ProcType'
    BY DEF IInv, TypeOK, ProcType, Proc, ProcOK, RightOK, WaitAndLock,
           LockFree, Idle, At
  <1>2. pc' \in [Workers -> [at : Places, ev : Events]]
    BY DEF IInv, TypeOK, Proc, ProcOK, Places, Events, WaitAndLock, LockFree,
           Idle, At
  <1>3. /\ impl' \in {"none", "alive", "freed"}
        /\ sem' \in Nat
        /\ owner' \in Workers \cup {"none"}
        /\ dtor' \in {"none", "wait", "done"}
        /\ told' \in BOOLEAN
    BY DEF IInv, TypeOK, WaitAndLock, LockFree, Idle, At
  <1>4. TypeOK'
    BY <1>1, <1>2, <1>3 DEF TypeOK, ProcType
  <1>5. RightOK'
    BY DEF IInv, TypeOK, Proc, RightOK, ProcOK, FreedOK, Carrying, Published,
           WaitAndLock, LockFree, Idle, At
  <1>6. ProcOK'
    BY DEF IInv, TypeOK, Proc, RightOK, ProcOK, FreedOK, Carrying, Published,
           WaitAndLock, LockFree, Idle, At
  <1>7. LockOK'
    BY DEF IInv, TypeOK, LockOK, FreedOK, Holding, Carrying, WaitAndLock,
           LockFree, Idle, At
  <1>8. FreedOK'
    BY DEF IInv, TypeOK, Proc, RightOK, ProcOK, LockOK, FreedOK, Carrying,
           Holding, Published, WaitAndLock, LockFree, Idle, At
  <1> QED BY <1>4, <1>5, <1>6, <1>7, <1>8 DEF IInv

\* Every step preserves the invariant.
LEMMA NextInv == IInv /\ [Next]_vars => IInv'
  <1> SUFFICES ASSUME IInv, [Next]_vars PROVE IInv'
    OBVIOUS
  <1>1. CASE UNCHANGED vars
    BY <1>1 DEF vars, IInv, TypeOK, RightOK, ProcOK, LockOK, FreedOK, Published
  <1>2. CASE ContextStop
    BY <1>2, ContextStopStep
  <1>3. CASE DestroyCancel
    BY <1>3, DestroyCancelStep
  <1>4. CASE WaitAndLock
    BY <1>4, WaitAndLockStep
  <1>5. CASE \E t \in Workers : Worker(t)
    <2> PICK t \in Workers : Worker(t)
      BY <1>5
    <2>1. CASE OnStartDone(t)
      BY <2>1, OnStartDoneStep
    <2>2. CASE OnStartFailed(t)
      BY <2>2, OnStartFailedStep
    <2>3. CASE \E e \in {"state", "shutdown", "refused"} : OnReadDone(t, e)
      BY <2>3, OnReadDoneStep
    <2>4. CASE OnReadFailed(t)
      BY <2>4, OnReadFailedStep
    <2>5. CASE OnFinished(t)
      BY <2>5, OnFinishedStep
    <2>6. CASE Connected(t)
      BY <2>6, ConnectedStep
    <2>7. CASE MakeImplAsync(t)
      BY <2>7, MakeImplAsyncStep
    <2>8. CASE Build(t)
      BY <2>8, BuildStep
    <2>9. CASE NewSmartShared(t)
      BY <2>9, NewSmartSharedStep
    <2>10. CASE TrySharedOwning(t)
      BY <2>10, TrySharedOwningStep
    <2>11. CASE StoreOwner(t)
      BY <2>11, StoreOwnerStep
    <2>12. CASE Handle(t)
      BY <2>12, HandleStep
    <2>13. CASE StartAsyncRead(t)
      BY <2>13, StartAsyncReadStep
    <2>14. CASE ReleaseOwner(t)
      BY <2>14, ReleaseOwnerStep
    <2>15. CASE ReleaseSemaphore(t)
      BY <2>15, ReleaseSemaphoreStep
    <2> QED BY <2>1, <2>2, <2>3, <2>4, <2>5, <2>6, <2>7, <2>8, <2>9, <2>10,
           <2>11, <2>12, <2>13, <2>14, <2>15 DEF Worker
  <1> QED BY <1>1, <1>2, <1>3, <1>4, <1>5 DEF Next

\* The invariant holds in every reachable state.
THEOREM Invariance == Spec => []IInv
  BY InitInv, NextInv, PTL DEF Spec

\* The state is well typed, and Stream->Finish is called at most once.
THEOREM TypeCorrect == Spec => []TypeOK
  <1>1. IInv => TypeOK
    BY DEF IInv
  <1> QED BY <1>1, Invariance, PTL

\* TSafeTSessionImplHolder does its job: no read callback uses a destroyed
\* session, and no two callbacks use it together, however many network threads
\* there are.
THEOREM SessionOutlivesCallbacks == Spec => []NoUseAfterFree
  <1>1. IInv => NoUseAfterFree
    BY DEF IInv, TypeOK, LockOK, FreedOK, NoUseAfterFree, Carrying, Holding
  <1> QED BY <1>1, Invariance, PTL

\* Cancel, OnReadDone and OnStartDone use the stream as gRPC asks.
THEOREM StreamUsedProperly == Spec => []GrpcContract
  <1>1. IInv => GrpcContract
    BY DEF IInv, TypeOK, ProcOK, GrpcContract
  <1> QED BY <1>1, Invariance, PTL

\* The Y_ABORT_UNLESS lines of TStreamRequestReadProcessor never fire.
THEOREM ProcessorNeverAborts == Spec => []AssertsHold
  <1>1. IInv => AssertsHold
    BY DEF IInv, RightOK, ProcOK, AssertsHold, Carrying
  <1> QED BY <1>1, Invariance, PTL

=============================================================================
