------------------------ MODULE StreamProcessorProofs ------------------------
(***************************************************************************)
(* StreamProcessor for every number of calls.  StreamInv (with TypeOK) is  *)
(* inductive: one lemma per action shows that it is kept.  The properties, *)
(* and that the processor implements StreamCall, follow from it.           *)
(***************************************************************************)
EXTENDS StreamProcessor, SequenceTheorems, TLAPS

\* What a step that answers calls does to the counts.
LEMMA AnsweredIs ==
    ASSUME answers \in [0..MaxCalls -> Nat], NEW S, Answered(S)
    PROVE  /\ answers' \in [0..MaxCalls -> Nat]
           /\ \A c \in 0..MaxCalls :
                  answers'[c] = IF c \in S THEN answers[c] + 1 ELSE answers[c]
BY DEF Answered

\* Sequences: what Append, Tail and putting back at the head do.
LEMMA AppendIs ==
    ASSUME NEW q \in Seq(Items), NEW x \in Items
    PROVE  /\ Append(q, x) \in Seq(Items)
           /\ Len(q) \in Nat
           /\ Len(Append(q, x)) = Len(q) + 1
           /\ \A n \in 1..Len(q) : Append(q, x)[n] = q[n]
           /\ Append(q, x)[Len(q) + 1] = x
OBVIOUS

\* The head is the first item, the tail the others.
LEMMA TailIs ==
    ASSUME NEW q \in Seq(Items), q # <<>>
    PROVE  /\ Tail(q) \in Seq(Items)
           /\ Head(q) \in Items
           /\ Head(q) = q[1]
           /\ Len(q) \in Nat \ {0}
           /\ Len(Tail(q)) = Len(q) - 1
           /\ \A n \in 1..Len(Tail(q)) : Tail(q)[n] = q[n + 1]
<1>1. Len(q) \in Nat \ {0}
  BY EmptySeq
<1> QED  BY <1>1, HeadTailProperties

\* An item put back at the head moves the others by one.
LEMMA ConsIs ==
    ASSUME NEW q \in Seq(Items), NEW x \in Items
    PROVE  /\ <<x>> \o q \in Seq(Items)
           /\ Len(q) \in Nat
           /\ Len(<<x>> \o q) = Len(q) + 1
           /\ (<<x>> \o q)[1] = x
           /\ \A n \in 2..(Len(q) + 1) : (<<x>> \o q)[n] = q[n - 1]
<1>1. <<x>> \in Seq(Items) /\ Len(<<x>>) = 1
  OBVIOUS
<1> QED  BY <1>1, ConcatProperties

\* The items of a queue are what its positions hold.
LEMMA InRange ==
    ASSUME NEW q \in Seq(Items), NEW k
    PROVE  k \in Range(q) <=> \E n \in 1..Len(q) : q[n] = k
BY DEF Range

\* A stream that gets no context keeps the invariant.
LEMMA StartRefusedKeeps ==
    ASSUME TypeOK, Lifecycle, SidesAndOps, QueueOrder, AnswersCount,
           StartRefused
    PROVE  TypeOK' /\ StreamInv'
<1> USE MaxCallsNat DEF Items, Watcher
<1>1. TypeOK'
  BY DEF TypeOK, StartRefused, readVars, writeVars
<1>2. Lifecycle'
  BY DEF TypeOK, StartRefused, readVars, writeVars, Lifecycle, SidesAndOps
<1>3. SidesAndOps'
  BY DEF TypeOK, StartRefused, readVars, writeVars, Lifecycle, SidesAndOps
<1>4. QueueOrder'
  BY DEF TypeOK, StartRefused, readVars, writeVars, QueueOrder, SidesAndOps,
     Lifecycle
<1>5. AnswersCount'
  BY DEF TypeOK, StartRefused, readVars, writeVars, AnswersCount, QueueOrder,
     SidesAndOps, Lifecycle, Range
<1> QED  BY <1>1, <1>2, <1>3, <1>4, <1>5 DEF StreamInv

\* Start does.
LEMMA StartKeeps ==
    ASSUME TypeOK, Lifecycle, SidesAndOps, QueueOrder, AnswersCount,
           Start
    PROVE  TypeOK' /\ StreamInv'
<1> USE MaxCallsNat DEF Items, Watcher
<1>1. TypeOK'
  BY DEF TypeOK, Start, readVars, writeVars
<1>2. Lifecycle'
  BY DEF TypeOK, Start, readVars, writeVars, Lifecycle, SidesAndOps
<1>3. SidesAndOps'
  BY DEF TypeOK, Start, readVars, writeVars, Lifecycle, SidesAndOps
<1>4. QueueOrder'
  BY DEF TypeOK, Start, readVars, writeVars, QueueOrder, SidesAndOps, Lifecycle
<1>5. AnswersCount'
  BY DEF TypeOK, Start, readVars, writeVars, AnswersCount, QueueOrder,
     SidesAndOps, Lifecycle, Range
<1> QED  BY <1>1, <1>2, <1>3, <1>4, <1>5 DEF StreamInv

\* Read does.
LEMMA ReadKeeps ==
    ASSUME TypeOK, Lifecycle, SidesAndOps, QueueOrder, AnswersCount,
           Read
    PROVE  TypeOK' /\ StreamInv'
<1> USE MaxCallsNat DEF Items, Watcher
<1>1. TypeOK'
  BY DEF TypeOK, Read, FinishIf, MayAsk, Connected, readVars, writeVars
<1>2. Lifecycle'
  BY DEF TypeOK, Read, FinishIf, MayAsk, Connected, readVars, writeVars,
     Lifecycle, SidesAndOps
<1>3. SidesAndOps'
  BY DEF TypeOK, Read, FinishIf, MayAsk, Connected, readVars, writeVars,
     Lifecycle, SidesAndOps
<1>4. QueueOrder'
  BY DEF TypeOK, Read, FinishIf, MayAsk, Connected, readVars, writeVars,
     QueueOrder, SidesAndOps, Lifecycle
<1>5. AnswersCount'
  BY DEF TypeOK, Read, FinishIf, MayAsk, Connected, readVars, writeVars,
     AnswersCount, QueueOrder, SidesAndOps, Lifecycle, Range
<1> QED  BY <1>1, <1>2, <1>3, <1>4, <1>5 DEF StreamInv

\* AddFinishedCallback does, on a running and on a finished stream.
LEMMA AddFinishedCallbackKeeps ==
    ASSUME TypeOK, Lifecycle, SidesAndOps, QueueOrder, AnswersCount,
           AddFinishedCallback
    PROVE  TypeOK' /\ StreamInv'
<1> USE MaxCallsNat DEF Items, Watcher
<1>1. TypeOK'
  BY DEF TypeOK, AddFinishedCallback, Answered, Connected, readVars, writeVars
<1>2. Lifecycle'
  BY DEF TypeOK, AddFinishedCallback, Answered, Connected, readVars,
     writeVars, Lifecycle, SidesAndOps
<1>3. SidesAndOps'
  BY DEF TypeOK, AddFinishedCallback, Answered, Connected, readVars,
     writeVars, Lifecycle, SidesAndOps
<1>4. QueueOrder'
  BY DEF TypeOK, AddFinishedCallback, Answered, Connected, readVars,
     writeVars, QueueOrder, SidesAndOps, Lifecycle
<1>5. AnswersCount'
  BY SMTT(30) DEF TypeOK, AddFinishedCallback, Answered, Connected, readVars,
     writeVars, AnswersCount, QueueOrder, SidesAndOps, Lifecycle, Range
<1> QED  BY <1>1, <1>2, <1>3, <1>4, <1>5 DEF StreamInv

\* Write and WritesDone do, whether they drop, send or queue the item.
LEMMA WriteKeeps ==
    ASSUME NEW close \in BOOLEAN, TypeOK, Lifecycle, SidesAndOps, QueueOrder,
           AnswersCount, Write(close)
    PROVE  TypeOK' /\ StreamInv'
<1> DEFINE i == calls + 1
<1> USE MaxCallsNat DEF Items, Watcher
<1>1. i \in Items /\ calls' = i /\ i \notin closes /\ calls \in 0..MaxCalls
  BY DEF TypeOK, Write, QueueOrder
<1>2. closes' = IF close THEN closes \cup {i} ELSE closes
  BY DEF Write
<1>3. /\ UNCHANGED <<conn, started, cancelled, finished, readActive,
                     readFinished, reader, writeFinished, watching, finishes>>
      /\ conn = "ok"
  BY DEF Write, Connected, readVars
<1>4. CASE Drops(close)
  <2>1. /\ Answered({i})
        /\ UNCHANGED <<writeActive, halfClosed, current, queue, ops, lastSent>>
    BY <1>4 DEF Write
  <2>2. /\ answers' \in [0..MaxCalls -> Nat]
        /\ \A c \in 0..MaxCalls :
               answers'[c] = IF c \in {i} THEN answers[c] + 1 ELSE answers[c]
    BY <2>1, AnsweredIs DEF TypeOK
  <2>3. TypeOK'
    BY <1>1, <1>2, <1>3, <2>1, <2>2 DEF TypeOK
  <2>4. Lifecycle' /\ SidesAndOps'
    BY <1>1, <1>3, <2>1, <2>2 DEF Lifecycle, SidesAndOps
  <2>5. QueueOrder'
    <3>1. \A n \in 1..Len(queue) : queue[n] # i
      BY SMTT(30), <1>1 DEF TypeOK, QueueOrder
    <3>2. lastSent # i /\ lastSent' = lastSent
      BY <1>1, <2>1 DEF TypeOK, QueueOrder
    <3>3. lastSent' <= calls' /\ closes' \subseteq 1..calls'
      BY SMTT(30), <1>1, <1>2, <3>2 DEF TypeOK, QueueOrder
    <3>4. \A n \in 1..Len(queue') : queue'[n] <= calls'
      <4> SUFFICES ASSUME NEW n \in 1..Len(queue') PROVE queue'[n] <= calls'
        OBVIOUS
      <4>1. n \in 1..Len(queue) /\ queue'[n] = queue[n]
        BY <2>1
      <4>2. queue[n] <= calls
        BY <4>1 DEF QueueOrder
      <4>3. queue[n] \in Nat /\ calls \in Nat /\ calls' = calls + 1
        BY SMTT(30), <1>1, <4>1 DEF TypeOK
      <4> QED  BY <4>1, <4>2, <4>3
    <3>5. /\ lastSent' \in closes' <=> lastSent \in closes
          /\ \A n \in 1..Len(queue') : queue'[n] \in closes' <=> queue[n] \in closes
      BY <1>2, <2>1, <3>1, <3>2
    <3> QED  BY <1>3, <2>1, <3>2, <3>3, <3>4, <3>5 DEF QueueOrder
  <2>6. AnswersCount'
    <3>1. \A n \in 1..Len(queue) : queue[n] # i
      BY <1>1 DEF TypeOK, QueueOrder
    <3>2. current # i /\ answers[i] = 0
      BY <1>1 DEF TypeOK, QueueOrder, SidesAndOps, AnswersCount
    <3>3. i \notin Range(queue) /\ queue' = queue /\ current' = current
      BY <2>1, <3>1 DEF TypeOK, Range
    <3>4. \A k \in Items : k # i => (k > calls' <=> k > calls)
      BY <1>1
    <3>5. \A k \in Items :
              answers'[k] = IF k > calls' \/ k = current' \/ k \in Range(queue')
                            THEN 0 ELSE 1
      BY <1>1, <2>2, <3>2, <3>3, <3>4 DEF AnswersCount
    <3> QED  BY <1>1, <1>3, <2>1, <2>2, <3>5 DEF AnswersCount, TypeOK
  <2> QED  BY <2>3, <2>4, <2>5, <2>6 DEF StreamInv
<1>5. CASE ~Drops(close) /\ writeActive
  <2>1. /\ halfClosed' = (halfClosed \/ close)
        /\ queue' = Append(queue, i)
        /\ writeActive' = TRUE
        /\ ~halfClosed
        /\ UNCHANGED <<current, ops, lastSent, answers>>
    BY <1>5 DEF Write, Drops
  <2>2. /\ queue' \in Seq(Items)
        /\ Len(queue) \in Nat
        /\ Len(queue') = Len(queue) + 1
        /\ \A n \in 1..Len(queue) : queue'[n] = queue[n]
        /\ queue'[Len(queue) + 1] = i
    BY <1>1, <2>1, AppendIs DEF TypeOK
  <2>3. TypeOK'
    BY <1>1, <1>2, <1>3, <2>1, <2>2 DEF TypeOK
  <2>4. Lifecycle' /\ SidesAndOps'
    BY <1>1, <1>3, <1>5, <2>1 DEF Lifecycle, SidesAndOps
  <2>5. \A n \in 1..Len(queue) : queue[n] <= calls /\ queue[n] \in Items
    <3>1. \A n \in 1..Len(queue) : queue[n] \in Items
      BY SMTT(30), ElementOfSeq DEF TypeOK
    <3> QED  BY <3>1 DEF QueueOrder
  <2>6. \A n \in 1..Len(queue') : n = Len(queue) + 1 \/ n \in 1..Len(queue)
    BY <2>2
  <2>7. QueueOrder'
    <3>1. \A n \in 1..Len(queue') : queue'[n] <= calls'
      BY SMTT(30), <1>1, <2>2, <2>5, <2>6
    <3>2. \A m, n \in 1..Len(queue') : m < n => queue'[m] < queue'[n]
      <4> SUFFICES ASSUME NEW m \in 1..Len(queue'), NEW n \in 1..Len(queue'),
                          m < n
                   PROVE  queue'[m] < queue'[n]
        OBVIOUS
      <4>1. m \in 1..Len(queue)
        BY <2>2, <2>6
      <4>2. CASE n = Len(queue) + 1
        BY SMTT(30), <1>1, <2>2, <2>5, <4>1, <4>2
      <4>3. CASE n \in 1..Len(queue)
        BY <2>2, <4>1, <4>3 DEF QueueOrder
      <4> QED  BY <2>6, <4>2, <4>3
    <3>3. \A n \in 1..Len(queue') : lastSent' < queue'[n]
      BY <1>1, <1>5, <2>1, <2>2, <2>6 DEF QueueOrder, TypeOK
    <3>4. \A n \in 1..Len(queue') : queue'[n] \in closes' =>
              halfClosed' /\ n = Len(queue')
      BY <1>1, <1>2, <2>1, <2>2, <2>5, <2>6 DEF QueueOrder
    <3>5. lastSent' \notin closes'
      BY <1>1, <1>2, <2>1 DEF QueueOrder, TypeOK
    <3>6. lastSent' <= calls' /\ closes' \subseteq 1..calls'
      BY SMTT(30), <1>1, <1>2, <2>1 DEF TypeOK, QueueOrder
    <3>7. (writeActive' <=> current' # 0) /\ current' = lastSent'
      BY <1>5, <2>1 DEF QueueOrder
    <3> QED  BY <2>1, <3>1, <3>2, <3>3, <3>4, <3>5, <3>6, <3>7 DEF QueueOrder
  <2>8. AnswersCount'
    <3>1. \A k \in Items : k \in Range(queue') <=> k = i \/ k \in Range(queue)
      <4>1. queue \in Seq(Items)
        BY DEF TypeOK
      <4>2. \A k \in Items :
                /\ k \in Range(queue') <=> \E n \in 1..Len(queue') : queue'[n] = k
                /\ k \in Range(queue) <=> \E n \in 1..Len(queue) : queue[n] = k
        BY SMTT(30), <2>2, <4>1, InRange
      <4>3. Len(queue) + 1 \in 1..Len(queue')
        BY <2>2
      <4>4. \A n \in 1..Len(queue) : n \in 1..Len(queue')
        BY <2>2
      <4> QED  BY Zenon, <2>2, <2>6, <4>2, <4>3, <4>4
    <3>2. \A k \in Items : k > calls' \/ k = i <=> k > calls
      BY <1>1
    <3> QED  BY <1>1, <1>3, <1>5, <2>1, <3>1, <3>2
             DEF AnswersCount, Lifecycle, SidesAndOps
  <2> QED  BY <2>3, <2>4, <2>7, <2>8 DEF StreamInv
<1>6. CASE ~Drops(close) /\ ~writeActive
  <2>1. /\ halfClosed' = (halfClosed \/ close)
        /\ current' = i
        /\ ops' = ops \cup {"write"}
        /\ lastSent' = i
        /\ writeActive' = TRUE
        /\ ~halfClosed /\ ~writeFinished
        /\ UNCHANGED <<queue, answers>>
    BY <1>6 DEF Write, Drops
  <2>2. queue = <<>> /\ current = 0
    BY <1>6, <2>1 DEF QueueOrder
  <2>3. TypeOK'
    BY <1>1, <1>2, <1>3, <2>1 DEF TypeOK
  <2>4. Lifecycle' /\ SidesAndOps'
    BY <1>1, <1>3, <1>6, <2>1 DEF Lifecycle, SidesAndOps
  <2>5. QueueOrder'
    BY <1>1, <1>2, <2>1, <2>2 DEF QueueOrder, TypeOK
  <2>6. AnswersCount'
    <3>1. \A k \in Items : k > calls' \/ k = i <=> k > calls
      BY <1>1
    <3> QED  BY <1>1, <1>3, <1>6, <2>1, <2>2, <3>1
             DEF AnswersCount, Lifecycle, SidesAndOps, Range
  <2> QED  BY <2>3, <2>4, <2>5, <2>6 DEF StreamInv
<1> QED  BY <1>4, <1>5, <1>6

\* OnWriteDone does: it sends the next item, or the write side ends and the
\* item that failed goes back to the head of the queue.
LEMMA OnWriteDoneKeeps ==
    ASSUME NEW ok \in BOOLEAN, TypeOK, Lifecycle, SidesAndOps, QueueOrder,
           AnswersCount, OnWriteDone(ok)
    PROVE  TypeOK' /\ StreamInv'
<1> USE MaxCallsNat DEF Items, Watcher
<1>1. /\ UNCHANGED <<conn, started, cancelled, finished, readActive,
                     readFinished, reader, halfClosed, watching, calls, closes>>
      /\ "write" \in ops
  BY DEF OnWriteDone, readVars
<1>2. /\ writeActive /\ ~writeFinished /\ ~finished /\ conn = "ok" /\ started
      /\ current \in Items /\ current = lastSent /\ current <= calls
      /\ answers[current] = 0
      /\ \A n \in 1..Len(queue) : queue[n] # current
  <2>1. writeActive /\ ~writeFinished /\ ~finished /\ conn = "ok" /\ started
    BY <1>1 DEF SidesAndOps, Lifecycle, TypeOK
  <2>2. current \in Items /\ current = lastSent /\ current <= calls
    BY <2>1 DEF TypeOK, QueueOrder
  <2>3. \A n \in 1..Len(queue) : queue[n] # current
    BY SMTT(30), <2>1, <2>2 DEF TypeOK, QueueOrder
  <2> QED  BY <2>1, <2>2, <2>3 DEF AnswersCount
<1>3. queue \in Seq(Items) /\ current \notin Range(queue)
  <2>1. queue \in Seq(Items)
    BY DEF TypeOK
  <2> QED  BY SMTT(30), <1>2, <2>1, InRange
<1>4. ok => /\ answers' \in [0..MaxCalls -> Nat]
            /\ \A c \in 0..MaxCalls :
                   answers'[c] = IF c = current THEN answers[c] + 1 ELSE answers[c]
  BY SMTT(30), AnsweredIs DEF OnWriteDone, TypeOK
<1>5. ~ok => answers' = answers
  BY DEF OnWriteDone
<1>6. answers' \in [0..MaxCalls -> Nat]
  BY <1>4, <1>5 DEF TypeOK
<1>7. CASE ~WriteEnds(ok) /\ queue # <<>>
  <2>1. /\ current' = Head(queue) /\ queue' = Tail(queue)
        /\ lastSent' = Head(queue)
        /\ UNCHANGED <<writeActive, writeFinished>>
        /\ ok /\ current \notin closes
    BY <1>7 DEF OnWriteDone, WriteEnds
  <2>2. ops' = ops /\ finishes' = finishes
    BY Zenon, <1>1, <1>7 DEF OnWriteDone, FinishIf
  <2>3. /\ queue' \in Seq(Items)
        /\ Head(queue) \in Items
        /\ Head(queue) = queue[1]
        /\ Len(queue) \in Nat \ {0}
        /\ Len(queue') = Len(queue) - 1
        /\ \A n \in 1..Len(queue') : queue'[n] = queue[n + 1]
    BY <1>3, <1>7, <2>1, TailIs
  <2>4. \A n \in 1..Len(queue') : n + 1 \in 1..Len(queue) /\ 1 \in 1..Len(queue)
    BY <2>3
  <2>5. TypeOK'
    <3>1. current' \in 0..MaxCalls /\ lastSent' \in 0..MaxCalls
      BY <2>1, <2>3
    <3>2. queue' \in Seq(Items) /\ writeActive' \in BOOLEAN
              /\ writeFinished' \in BOOLEAN
      BY <2>1, <2>3 DEF TypeOK
    <3> QED  BY SMTT(30), <1>1, <1>6, <2>2, <3>1, <3>2 DEF TypeOK
  <2>6. Lifecycle' /\ SidesAndOps'
    BY <1>1, <1>2, <2>1, <2>2 DEF Lifecycle, SidesAndOps
  <2>7. QueueOrder'
    <3>1. /\ lastSent' <= calls' /\ (writeActive' <=> current' # 0)
          /\ current' = lastSent'
      <4>1. 1 \in 1..Len(queue)
        BY <2>3
      <4>2. queue[1] <= calls
        BY <4>1 DEF QueueOrder
      <4>3. lastSent' <= calls'
        BY <1>1, <2>1, <2>3, <4>2
      <4>4. Head(queue) # 0
        BY <2>3
      <4> QED  BY <1>2, <2>1, <4>3, <4>4
    <3>2. \A n \in 1..Len(queue') : queue'[n] <= calls'
      BY SMTT(30), <1>1, <2>3, <2>4 DEF QueueOrder
    <3>3. \A m, n \in 1..Len(queue') : m < n => queue'[m] < queue'[n]
      <4> SUFFICES ASSUME NEW m \in 1..Len(queue'), NEW n \in 1..Len(queue'),
                          m < n
                   PROVE  queue'[m] < queue'[n]
        OBVIOUS
      <4>1. m + 1 \in 1..Len(queue) /\ n + 1 \in 1..Len(queue) /\ m + 1 < n + 1
        BY <2>3, <2>4
      <4>2. queue[m + 1] < queue[n + 1]
        BY <4>1 DEF QueueOrder
      <4> QED  BY <2>3, <4>2
    <3>4. \A n \in 1..Len(queue') : lastSent' < queue'[n]
      <4> SUFFICES ASSUME NEW n \in 1..Len(queue') PROVE lastSent' < queue'[n]
        OBVIOUS
      <4>1. n + 1 \in 1..Len(queue) /\ 1 \in 1..Len(queue) /\ 1 < n + 1
        BY <2>3, <2>4
      <4>2. queue[1] < queue[n + 1]
        BY <4>1 DEF QueueOrder
      <4> QED  BY <2>1, <2>3, <4>2
    <3>5. \A n \in 1..Len(queue') : queue'[n] \in closes' =>
              halfClosed' /\ n = Len(queue')
      <4> SUFFICES ASSUME NEW n \in 1..Len(queue'), queue'[n] \in closes'
                   PROVE  halfClosed' /\ n = Len(queue')
        OBVIOUS
      <4>1. n + 1 \in 1..Len(queue) /\ queue[n + 1] \in closes
        BY <1>1, <2>3, <2>4
      <4>2. halfClosed /\ n + 1 = Len(queue)
        BY <4>1 DEF QueueOrder
      <4> QED  BY <1>1, <2>3, <4>2
    <3>6. lastSent' \in closes' => halfClosed' /\ queue' = <<>>
      <4>1. lastSent' \in closes' => halfClosed /\ 1 = Len(queue)
        <5>1. 1 \in 1..Len(queue)
          BY <2>3
        <5>2. queue[1] \in closes => halfClosed /\ 1 = Len(queue)
          BY Zenon, <5>1 DEF QueueOrder
        <5> QED  BY <1>1, <2>1, <2>3, <5>2
      <4>2. Len(queue') = 0 => queue' = <<>>
        BY <2>3
      <4> QED  BY <1>1, <2>3, <4>1, <4>2
    <3> QED  BY <1>1, <1>2, <2>1, <3>1, <3>2, <3>3, <3>4, <3>5, <3>6
             DEF QueueOrder
  <2>8. AnswersCount'
    <3>1. \A k \in Items :
              k \in Range(queue) <=> k = current' \/ k \in Range(queue')
      <4>1. \A k \in Items :
                /\ k \in Range(queue') <=> \E n \in 1..Len(queue') : queue'[n] = k
                /\ k \in Range(queue) <=> \E n \in 1..Len(queue) : queue[n] = k
        BY ZenonT(40), <1>3, <2>3, InRange
      <4>2. \A n \in 1..Len(queue) : n = 1 \/ n - 1 \in 1..Len(queue')
        BY <2>3
      <4>3. \A n \in 1..Len(queue) : n # 1 => queue'[n - 1] = queue[n]
        BY <2>3, <4>2
      <4>4. queue[1] = current' /\ 1 \in 1..Len(queue)
        BY <2>1, <2>3
      <4> QED  BY ZenonT(40), <2>3, <2>4, <4>1, <4>2, <4>3, <4>4
    <3>2. \A k \in Items :
              answers'[k] = IF k > calls' \/ k = current' \/ k \in Range(queue')
                            THEN 0 ELSE 1
      <4> SUFFICES ASSUME NEW k \in Items
                   PROVE  answers'[k] = IF \/ k > calls' \/ k = current'
                                           \/ k \in Range(queue')
                                        THEN 0 ELSE 1
        OBVIOUS
      <4>1. answers[k] = IF k > calls \/ k = current \/ k \in Range(queue)
                         THEN 0 ELSE 1
        BY DEF AnswersCount
      <4>2. answers'[k] = IF k = current THEN answers[k] + 1 ELSE answers[k]
        BY <1>4, <2>1
      <4>3. k \in Range(queue) <=> k = current' \/ k \in Range(queue')
        BY <3>1
      <4>4. CASE k = current
        <5>1. answers'[k] = 1
          BY <1>2, <4>2, <4>4
        <5>2. ~(k > calls') /\ k # current' /\ k \notin Range(queue')
          BY <1>1, <1>2, <1>3, <4>3, <4>4 DEF TypeOK
        <5> QED  BY <5>1, <5>2
      <4>5. CASE k # current
        BY <1>1, <4>1, <4>2, <4>3, <4>5
      <4> QED  BY <4>4, <4>5
    <3>3. answers'[Watcher] = answers[Watcher]
      BY <1>2, <1>4, <2>1
    <3> QED  BY <1>1, <1>2, <3>2, <3>3 DEF AnswersCount
  <2> QED  BY <2>5, <2>6, <2>7, <2>8 DEF StreamInv
<1>8. CASE ~(~WriteEnds(ok) /\ queue # <<>>)
  <2>1. /\ writeActive' = FALSE /\ current' = 0 /\ lastSent' = lastSent
        /\ writeFinished' = (WriteEnds(ok) \/ readFinished)
        /\ queue' = IF ok THEN queue ELSE <<current>> \o queue
        /\ FinishIf(readFinished, {"write"}, {})
    BY Zenon, <1>8 DEF OnWriteDone, PutBack
  <2>2. /\ writeFinished' \in BOOLEAN
        /\ ~ok => writeFinished'
        /\ readFinished => writeFinished'
        /\ ok /\ ~writeFinished' => queue = <<>>
    BY Zenon, <1>8, <2>1 DEF WriteEnds, TypeOK
  <2>3. ASSUME readFinished
        PROVE  /\ ops' \subseteq {"connect", "read", "write", "finish"}
               /\ finishes' \in Nat
               /\ Lifecycle' /\ SidesAndOps'
    <3>1. ops' = (ops \ {"write"}) \cup {"finish"} /\ finishes' = finishes + 1
      BY <2>1, <2>3 DEF FinishIf
    <3>2. ops' \subseteq {"connect", "read", "write", "finish"}
              /\ finishes' \in Nat
      BY <3>1 DEF TypeOK
    <3>3. Lifecycle' /\ SidesAndOps'
      BY <1>1, <1>2, <2>1, <2>2, <2>3, <3>1 DEF Lifecycle, SidesAndOps, TypeOK
    <3> QED  BY <3>2, <3>3
  <2>4. ASSUME ~readFinished
        PROVE  /\ ops' \subseteq {"connect", "read", "write", "finish"}
               /\ finishes' \in Nat
               /\ Lifecycle' /\ SidesAndOps'
    <3>1. ops' = ops \ {"write"} /\ finishes' = finishes
      BY <2>1, <2>4 DEF FinishIf
    <3>2. ops' \subseteq {"connect", "read", "write", "finish"}
              /\ finishes' \in Nat
      BY <3>1 DEF TypeOK
    <3>3. Lifecycle' /\ SidesAndOps'
      BY <1>1, <1>2, <2>1, <2>2, <2>4, <3>1 DEF Lifecycle, SidesAndOps, TypeOK
    <3> QED  BY <3>2, <3>3
  <2>5. /\ ops' \subseteq {"connect", "read", "write", "finish"}
        /\ finishes' \in Nat
        /\ Lifecycle' /\ SidesAndOps'
    BY <2>3, <2>4 DEF TypeOK
  <2>0. /\ writeActive' \in BOOLEAN /\ writeFinished' \in BOOLEAN
        /\ current' \in 0..MaxCalls /\ lastSent' \in 0..MaxCalls
    <3>1. current' = 0 /\ lastSent' = lastSent
      BY <2>1
    <3>2. writeFinished' \in BOOLEAN /\ writeActive' \in BOOLEAN
      BY Zenon, <2>1, <2>2
    <3>3. current' \in 0..MaxCalls
      BY <3>1
    <3>4. lastSent' \in 0..MaxCalls
      BY <3>1 DEF TypeOK
    <3> QED  BY <3>2, <3>3, <3>4
  <2>6. CASE ok
    <3>1. queue' = queue
      BY <2>1, <2>6
    <3>2. TypeOK'
      BY SMTT(30), <1>1, <1>6, <2>0, <2>5, <3>1 DEF TypeOK
    <3>3. QueueOrder'
      BY Zenon, <1>1, <1>2, <2>1, <2>2, <2>6, <3>1 DEF QueueOrder
    <3>4. AnswersCount'
      <4>1. \A k \in Items :
              answers'[k] = IF k > calls' \/ k = current' \/ k \in Range(queue')
                            THEN 0 ELSE 1
        <5> SUFFICES ASSUME NEW k \in Items
                     PROVE  answers'[k] = IF \/ k > calls' \/ k = current'
                                             \/ k \in Range(queue')
                                          THEN 0 ELSE 1
          OBVIOUS
        <5>1. answers[k] = IF k > calls \/ k = current \/ k \in Range(queue)
                           THEN 0 ELSE 1
          BY DEF AnswersCount
        <5>2. answers'[k] = IF k = current THEN answers[k] + 1 ELSE answers[k]
          BY <1>4, <2>6
        <5>3. k # current' /\ calls' = calls /\ queue' = queue
          BY <1>1, <2>1, <3>1
        <5>4. CASE k = current
          <6>1. answers'[k] = 1
            BY <1>2, <5>2, <5>4
          <6>2. ~(k > calls') /\ k # current' /\ k \notin Range(queue')
            BY <1>2, <1>3, <5>3, <5>4 DEF TypeOK
          <6> QED  BY <6>1, <6>2
        <5>5. CASE k # current
          BY <5>1, <5>2, <5>3, <5>5
        <5> QED  BY <5>4, <5>5
      <4>2. answers'[Watcher] = answers[Watcher]
        BY <1>2, <1>4, <2>6
      <4> QED  BY <1>1, <1>2, <4>1, <4>2 DEF AnswersCount
    <3> QED  BY <2>5, <3>2, <3>3, <3>4 DEF StreamInv
  <2>7. CASE ~ok
    <3>1. queue' = <<current>> \o queue
      BY <2>1, <2>7
    <3>2. /\ queue' \in Seq(Items)
          /\ Len(queue) \in Nat
          /\ Len(queue') = Len(queue) + 1
          /\ queue'[1] = current
          /\ \A n \in 2..(Len(queue) + 1) : queue'[n] = queue[n - 1]
      BY <1>2, <1>3, <3>1, ConsIs
    <3>3. \A n \in 1..Len(queue') :
              n = 1 \/ (n \in 2..(Len(queue) + 1) /\ n - 1 \in 1..Len(queue))
      BY <3>2
    <3>4. TypeOK'
      <4>1. queue' \in Seq(Items)
        BY <3>2
      <4> QED  BY SMTT(30), <1>1, <1>6, <2>0, <2>5, <4>1 DEF TypeOK
    <3>5. QueueOrder'
      <4>1. \A n \in 1..Len(queue') : queue'[n] <= calls'
        <5> SUFFICES ASSUME NEW n \in 1..Len(queue') PROVE queue'[n] <= calls'
          OBVIOUS
        <5>1. CASE n = 1
          BY <1>1, <1>2, <3>2, <5>1
        <5>2. CASE n \in 2..(Len(queue) + 1) /\ n - 1 \in 1..Len(queue)
          <6>1. queue'[n] = queue[n - 1]
            BY <3>2, <5>2
          <6>2. queue[n - 1] <= calls
            BY <5>2 DEF QueueOrder
          <6> QED  BY <1>1, <6>1, <6>2
        <5> QED  BY <3>3, <5>1, <5>2
      <4>2. \A m, n \in 1..Len(queue') : m < n => queue'[m] < queue'[n]
        <5> SUFFICES ASSUME NEW m \in 1..Len(queue'), NEW n \in 1..Len(queue'),
                            m < n
                     PROVE  queue'[m] < queue'[n]
          OBVIOUS
        <5>1. n \in 2..(Len(queue) + 1) /\ n - 1 \in 1..Len(queue)
          BY <3>3
        <5>2. CASE m = 1
          BY SMTT(30), <1>2, <3>2, <5>1, <5>2 DEF QueueOrder
        <5>3. CASE m \in 2..(Len(queue) + 1) /\ m - 1 \in 1..Len(queue)
          <6>1. m - 1 < n - 1
            BY <3>2, <5>1, <5>3
          <6>2. queue[m - 1] < queue[n - 1]
            BY <5>1, <5>3, <6>1 DEF QueueOrder
          <6> QED  BY <3>2, <5>1, <5>3, <6>2
        <5> QED  BY <3>3, <5>2, <5>3
      <4>3. \A n \in 1..Len(queue') : queue'[n] \in closes' =>
                halfClosed' /\ n = Len(queue')
        <5> SUFFICES ASSUME NEW n \in 1..Len(queue'), queue'[n] \in closes'
                     PROVE  halfClosed' /\ n = Len(queue')
          OBVIOUS
        <5>1. CASE n = 1
          <6>1. lastSent \in closes
            BY <1>1, <1>2, <3>2, <5>1
          <6>2. halfClosed /\ queue = <<>>
            BY <1>2, <6>1 DEF QueueOrder
          <6> QED  BY <1>1, <3>2, <5>1, <6>2
        <5>2. CASE n \in 2..(Len(queue) + 1) /\ n - 1 \in 1..Len(queue)
          BY SMTT(30), <1>1, <3>2, <5>2 DEF QueueOrder
        <5> QED  BY <3>3, <5>1, <5>2
      <4> QED  BY <1>1, <2>1, <2>2, <2>7, <4>1, <4>2, <4>3 DEF QueueOrder
    <3>6. AnswersCount'
      <4>1. \A k \in Items :
                k \in Range(queue') <=> k = current \/ k \in Range(queue)
        <5>1. \A k \in Items :
                /\ k \in Range(queue') <=> \E n \in 1..Len(queue') : queue'[n] = k
                /\ k \in Range(queue) <=> \E n \in 1..Len(queue) : queue[n] = k
          BY SMTT(30), <1>3, <3>2, InRange
        <5>2. \A n \in 1..Len(queue) :
                  n + 1 \in 1..Len(queue') /\ queue'[n + 1] = queue[n]
          <6> SUFFICES ASSUME NEW n \in 1..Len(queue)
                       PROVE  n + 1 \in 1..Len(queue') /\ queue'[n + 1] = queue[n]
            OBVIOUS
          <6>1. n + 1 \in 2..(Len(queue) + 1) /\ (n + 1) - 1 = n
            BY <3>2
          <6>2. queue'[n + 1] = queue[(n + 1) - 1]
            BY <3>2, <6>1
          <6> QED  BY <3>2, <6>1, <6>2
        <5>3. 1 \in 1..Len(queue')
          BY <3>2
        <5> QED  BY Zenon, <3>2, <3>3, <5>1, <5>2, <5>3
      <4> QED  BY <1>1, <1>2, <1>5, <2>1, <2>7, <4>1 DEF AnswersCount
    <3> QED  BY <2>5, <3>4, <3>5, <3>6 DEF StreamInv
  <2> QED  BY <2>6, <2>7
<1> QED  BY <1>7, <1>8

\* OnFinished does: it answers what is queued and whoever watches.
LEMMA OnFinishedKeeps ==
    ASSUME TypeOK, Lifecycle, SidesAndOps, QueueOrder, AnswersCount, OnFinished
    PROVE  TypeOK' /\ StreamInv'
<1> DEFINE S == Range(queue) \cup (IF watching THEN {Watcher} ELSE {})
<1> USE MaxCallsNat DEF Items, Watcher
<1>1. /\ finished' = TRUE /\ queue' = <<>> /\ watching' = FALSE
      /\ ops' = ops \ {"finish"} /\ "finish" \in ops
      /\ UNCHANGED <<started, cancelled, readFinished, writeActive,
                     writeFinished, halfClosed, current, lastSent, finishes,
                     calls, closes>>
  BY DEF OnFinished
<1>2. readFinished /\ writeFinished /\ ~writeActive /\ ~finished /\ current = 0
  BY <1>1 DEF SidesAndOps, QueueOrder
<1>3. /\ answers' \in [0..MaxCalls -> Nat]
      /\ \A c \in 0..MaxCalls :
             answers'[c] = IF c \in S THEN answers[c] + 1 ELSE answers[c]
  BY AnsweredIs DEF OnFinished, TypeOK
<1>4. \A k \in Range(queue) : k \in Items /\ k <= calls
  <2>1. queue \in Seq(Items)
    BY DEF TypeOK
  <2> QED  BY <2>1, InRange DEF QueueOrder
<1>5. Watcher \in S <=> watching
  BY <1>4 DEF TypeOK
<1>6. answers'[Watcher] <= 1
  BY <1>3, <1>5 DEF AnswersCount, TypeOK
<1>7. QueueOrder'
  BY <1>1, <1>2 DEF QueueOrder, TypeOK
<1>8. AnswersCount'
  <2>1. \A k \in Items : answers'[k] = IF k > calls THEN 0 ELSE 1
    <3> SUFFICES ASSUME NEW k \in Items
                 PROVE  answers'[k] = IF k > calls THEN 0 ELSE 1
      OBVIOUS
    <3>1. /\ answers[k] = IF k > calls \/ k \in Range(queue) THEN 0 ELSE 1
          /\ k \in Range(queue) => k <= calls
      BY <1>2, <1>4 DEF AnswersCount
    <3>2. answers'[k] = IF k \in Range(queue) THEN answers[k] + 1 ELSE answers[k]
      BY <1>3
    <3> QED  BY <3>1, <3>2 DEF TypeOK
  <2> QED  BY <1>1, <1>2, <1>6, <2>1 DEF AnswersCount, Range
<1>9. CASE conn = "pending"
  <2>1. /\ conn' = "failed" /\ UNCHANGED <<readActive, reader>>
        /\ calls = 0 /\ ~readActive /\ ~watching /\ answers[Watcher] = 0
    BY <1>9 DEF OnFinished, Lifecycle
  <2>2. answers'[Watcher] = 0
    BY <1>3, <1>5, <2>1
  <2>3. ops' = {}
    BY Zenon, <1>1, <1>2, <1>9, <2>1 DEF TypeOK, SidesAndOps, Lifecycle
  <2>4. TypeOK'
    BY Zenon, <1>1, <1>3, <2>1, EmptySeq DEF TypeOK
  <2>5. Lifecycle'
    BY <1>1, <1>2, <2>1, <2>2, <2>3 DEF Lifecycle, SidesAndOps
  <2>6. SidesAndOps'
    BY <1>1, <1>2, <2>1, <2>3 DEF SidesAndOps
  <2> QED  BY <1>7, <1>8, <2>4, <2>5, <2>6 DEF StreamInv
<1>10. CASE conn # "pending"
  <2>1. readActive' = FALSE /\ reader' = "none" /\ conn' = conn
    BY <1>10 DEF OnFinished
  <2>2. conn = "ok"
    BY <1>1, <1>10 DEF Lifecycle, TypeOK
  <2>3. TypeOK'
    BY Zenon, <1>1, <1>3, <2>1, EmptySeq DEF TypeOK
  <2>4. Lifecycle'
    BY <1>1, <1>2, <2>1, <2>2 DEF Lifecycle, SidesAndOps
  <2>5. SidesAndOps'
    BY <1>1, <1>2, <2>1 DEF SidesAndOps
  <2> QED  BY <1>7, <1>8, <2>3, <2>4, <2>5 DEF StreamInv
<1> QED  BY <1>9, <1>10

\* OnConnected does.
LEMMA OnConnectedKeeps ==
    ASSUME NEW ok \in BOOLEAN, TypeOK, Lifecycle, SidesAndOps, QueueOrder,
           AnswersCount, OnConnected(ok)
    PROVE  TypeOK' /\ StreamInv'
<1> USE MaxCallsNat DEF Items, Watcher
<1>1. /\ "connect" \in ops /\ started' = TRUE
      /\ UNCHANGED <<cancelled, finished, readActive, reader, writeActive,
                     halfClosed, current, queue, watching, lastSent, calls,
                     closes, answers>>
  BY DEF OnConnected
<1>2. /\ conn = "pending" /\ ~started /\ ~readFinished /\ ~writeFinished
      /\ ~readActive /\ ~writeActive /\ ~finished /\ finishes = 0
      /\ ops = {"connect"}
  <2>1. /\ conn = "pending" /\ ~started /\ ~readFinished /\ ~writeFinished
        /\ ~readActive /\ ~writeActive
    BY <1>1 DEF Lifecycle
  <2> QED  BY Zenon, <1>1, <2>1 DEF SidesAndOps, TypeOK
<1>3. CASE ~ok \/ cancelled
  <2>1. /\ readFinished' = TRUE /\ writeFinished' = TRUE /\ conn' = conn
        /\ finishes' = finishes + 1
    BY Zenon, <1>3 DEF OnConnected, FinishIf
  <2>2. ops' = {"finish"}
    BY SMTT(30), <1>2, <1>3 DEF OnConnected, FinishIf
  <2>3. TypeOK' /\ Lifecycle' /\ SidesAndOps'
    BY SMTT(30), <1>1, <1>2, <2>1, <2>2 DEF TypeOK, Lifecycle, SidesAndOps
  <2>4. QueueOrder' /\ AnswersCount'
    BY <1>1, <1>2, <2>1 DEF QueueOrder, AnswersCount
  <2> QED  BY <2>3, <2>4 DEF StreamInv
<1>4. CASE ~(~ok \/ cancelled)
  <2>1. /\ readFinished' = FALSE /\ writeFinished' = FALSE /\ conn' = "ok"
        /\ finishes' = finishes
    BY Zenon, <1>2, <1>4 DEF OnConnected, FinishIf
  <2>2. ops' = {}
    BY <1>2, <1>4 DEF OnConnected, FinishIf
  <2>3. TypeOK' /\ Lifecycle' /\ SidesAndOps'
    BY Zenon, <1>1, <1>2, <2>1, <2>2 DEF TypeOK, Lifecycle, SidesAndOps
  <2>4. QueueOrder' /\ AnswersCount'
    BY <1>1, <1>2, <2>1 DEF QueueOrder, AnswersCount
  <2> QED  BY <2>3, <2>4 DEF StreamInv
<1> QED  BY <1>3, <1>4

\* Cancel does.
LEMMA CancelStreamKeeps ==
    ASSUME TypeOK, Lifecycle, SidesAndOps, QueueOrder, AnswersCount,
           CancelStream
    PROVE  TypeOK' /\ StreamInv'
<1> USE MaxCallsNat DEF Items, Watcher
<1>1. /\ cancelled' = TRUE /\ conn \in {"pending", "ok"}
      /\ UNCHANGED <<conn, started, finished, readActive, reader, writeActive,
                     halfClosed, current, queue, watching, lastSent, calls,
                     closes, answers>>
  BY DEF CancelStream
<1>2. AnswersCount'
  BY <1>1 DEF AnswersCount
<1>3. CASE started /\ ~(readFinished /\ writeFinished)
  <2>1. /\ readFinished' = (readFinished \/ ~readActive)
        /\ writeFinished' = (writeFinished \/ ~writeActive)
        /\ FinishIf(readFinished' /\ writeFinished', {}, {})
    BY <1>3 DEF CancelStream, CancelEnds, WriteSideEnds
  <2>2. readFinished' \in BOOLEAN /\ writeFinished' \in BOOLEAN
    BY <2>1
  <2>3. /\ ops' = IF readFinished' /\ writeFinished' THEN ops \cup {"finish"}
                  ELSE ops
        /\ finishes' = IF readFinished' /\ writeFinished' THEN finishes + 1
                       ELSE finishes
    BY <2>1 DEF FinishIf
  <2>4. TypeOK'
    BY <1>1, <2>2, <2>3 DEF TypeOK
  <2>5. Lifecycle'
    BY <1>1, <1>3, <2>1, <2>3 DEF Lifecycle, SidesAndOps
  <2>6. SidesAndOps'
    <3>1. CASE readFinished' /\ writeFinished'
      <4>1. ops' = ops \cup {"finish"} /\ finishes' = finishes + 1
        BY <2>3, <3>1
      <4>2. finishes = 0 /\ ~finished /\ (writeActive => ~writeFinished)
        BY <1>3 DEF SidesAndOps
      <4>3. finishes' = 1
        BY <4>1, <4>2
      <4>4. ~writeActive /\ readFinished' /\ writeFinished' /\ ~finished'
        BY Zenon, <1>1, <2>1, <3>1, <4>2
      <4>5. "write" \notin ops'
        BY <4>1, <4>4 DEF SidesAndOps
      <4>6. "finish" \in ops' /\ "read" \notin ops'
        BY Zenon, <1>1, <1>3, <2>1, <4>1, <4>4 DEF SidesAndOps
      <4> QED  BY <1>1, <4>3, <4>4, <4>5, <4>6 DEF SidesAndOps
    <3>2. CASE ~(readFinished' /\ writeFinished')
      <4>1. ops' = ops /\ finishes' = finishes
        BY <2>3, <3>2
      <4> QED  BY Zenon, <1>1, <1>3, <2>1, <3>2, <4>1 DEF SidesAndOps
    <3> QED  BY <3>1, <3>2
  <2>7. QueueOrder'
    BY Zenon, <1>1, <2>1 DEF QueueOrder
  <2> QED  BY <1>2, <2>4, <2>5, <2>6, <2>7 DEF StreamInv
<1>4. CASE ~(started /\ ~(readFinished /\ writeFinished))
  <2>1. UNCHANGED <<readFinished, writeFinished, ops, finishes>>
    BY <1>4 DEF CancelStream, CancelEnds
  <2>2. TypeOK' /\ QueueOrder'
    BY <1>1, <2>1 DEF TypeOK, QueueOrder
  <2>3. Lifecycle' /\ SidesAndOps'
    BY <1>1, <2>1 DEF Lifecycle, SidesAndOps
  <2> QED  BY <1>2, <2>2, <2>3 DEF StreamInv
<1> QED  BY <1>3, <1>4

\* Finish does.
LEMMA FinishKeeps ==
    ASSUME TypeOK, Lifecycle, SidesAndOps, QueueOrder, AnswersCount, Finish
    PROVE  TypeOK' /\ StreamInv'
<1> USE MaxCallsNat DEF Items, Watcher
<1>1. /\ readActive' = TRUE /\ reader' = "finish" /\ readFinished' = TRUE
      /\ conn = "ok" /\ ~readActive /\ ~finished
      /\ UNCHANGED <<conn, started, cancelled, finished, writeActive, halfClosed,
                     current, queue, watching, lastSent, calls, closes, answers>>
  BY DEF Finish, MayAsk, Connected
<1>2. AnswersCount'
  BY <1>1 DEF AnswersCount
<1>3. CASE readFinished
  <2>1. UNCHANGED <<writeFinished, ops, finishes>>
    BY SMTT(30), <1>3 DEF Finish
  <2>2. TypeOK' /\ QueueOrder'
    BY SMTT(30), <1>1, <2>1 DEF TypeOK, QueueOrder
  <2>3. Lifecycle' /\ SidesAndOps'
    BY <1>1, <1>3, <2>1 DEF Lifecycle, SidesAndOps
  <2> QED  BY <1>2, <2>2, <2>3 DEF StreamInv
<1>4. CASE ~readFinished
  <2>1. /\ writeFinished' = (writeFinished \/ ~writeActive)
        /\ FinishIf(writeFinished', {}, {})
    BY <1>4 DEF Finish, WriteSideEnds
  <2>2. writeFinished' \in BOOLEAN
    BY <2>1
  <2>3. /\ ops' = IF writeFinished' THEN ops \cup {"finish"} ELSE ops
        /\ finishes' = IF writeFinished' THEN finishes + 1 ELSE finishes
    BY <2>1 DEF FinishIf
  <2>4. TypeOK'
    BY <1>1, <2>2, <2>3 DEF TypeOK
  <2>5. Lifecycle'
    BY <1>1, <1>4, <2>1, <2>3 DEF Lifecycle, SidesAndOps
  <2>6. SidesAndOps'
    <3>1. CASE writeFinished'
      <4>1. ops' = ops \cup {"finish"} /\ finishes' = finishes + 1
        BY <2>3, <3>1
      <4>2. finishes = 0 /\ ~finished /\ (writeActive => ~writeFinished)
        BY <1>4 DEF SidesAndOps
      <4>3. finishes' = 1
        BY <4>1, <4>2
      <4>4. ~writeActive /\ readFinished' /\ writeFinished' /\ ~finished'
        BY Zenon, <1>1, <2>1, <3>1, <4>2
      <4>5. "write" \notin ops'
        BY <4>1, <4>4 DEF SidesAndOps
      <4>6. "finish" \in ops' /\ "read" \notin ops'
        BY <1>1, <1>4, <2>1, <4>1, <4>4 DEF SidesAndOps
      <4> QED  BY <1>1, <4>3, <4>4, <4>5, <4>6 DEF SidesAndOps
    <3>2. CASE ~writeFinished'
      <4>1. ops' = ops /\ finishes' = finishes
        BY <2>3, <3>2
      <4> QED  BY Zenon, <1>1, <1>4, <2>1, <3>2, <4>1 DEF SidesAndOps
    <3> QED  BY <3>1, <3>2
  <2>7. QueueOrder'
    BY Zenon, <1>1, <2>1 DEF QueueOrder
  <2> QED  BY <1>2, <2>4, <2>5, <2>6, <2>7 DEF StreamInv
<1> QED  BY <1>3, <1>4

\* OnReadDone does.
LEMMA OnReadDoneKeeps ==
    ASSUME NEW ok \in BOOLEAN, TypeOK, Lifecycle, SidesAndOps, QueueOrder,
           AnswersCount, OnReadDone(ok)
    PROVE  TypeOK' /\ StreamInv'
<1> USE MaxCallsNat DEF Items, Watcher
<1>1. /\ "read" \in ops /\ readActive' = ~ok
      /\ reader' = IF ok THEN "none" ELSE reader
      /\ UNCHANGED <<conn, started, cancelled, finished, writeActive, halfClosed,
                     current, queue, watching, lastSent, calls, closes, answers>>
  BY DEF OnReadDone
<1>2. readActive' \in BOOLEAN /\ reader' \in {"none", "read", "finish"}
  BY <1>1 DEF TypeOK
<1>3. readActive /\ ~readFinished /\ ~finished /\ conn = "ok" /\ started
  BY <1>1 DEF SidesAndOps, Lifecycle, TypeOK
<1>4. AnswersCount'
  BY <1>1 DEF AnswersCount
<1>5. CASE ~ok \/ cancelled
  <2>1. /\ readFinished' = TRUE
        /\ writeFinished' = (writeFinished \/ ~writeActive)
        /\ FinishIf(writeFinished', {"read"}, {})
    BY Zenon, <1>5 DEF OnReadDone, WriteSideEnds
  <2>2. writeFinished' \in BOOLEAN
    BY <2>1
  <2>3. /\ ops' = IF writeFinished' THEN (ops \ {"read"}) \cup {"finish"}
                  ELSE ops \ {"read"}
        /\ finishes' = IF writeFinished' THEN finishes + 1 ELSE finishes
    BY <2>1 DEF FinishIf
  <2>4. TypeOK'
    BY SMTT(30), <1>1, <1>2, <2>1, <2>2, <2>3 DEF TypeOK
  <2>5. Lifecycle'
    BY <1>1, <1>3, <2>1, <2>3 DEF Lifecycle, SidesAndOps
  <2>6. SidesAndOps'
    <3>1. CASE writeFinished'
      <4>1. ops' = (ops \ {"read"}) \cup {"finish"} /\ finishes' = finishes + 1
        BY <2>3, <3>1
      <4>2. finishes = 0 /\ ~finished /\ (writeActive => ~writeFinished)
        BY <1>3 DEF SidesAndOps
      <4>3. finishes' = 1
        BY <4>1, <4>2
      <4>4. ~writeActive /\ readFinished' /\ writeFinished' /\ ~finished'
        BY Zenon, <1>1, <2>1, <3>1, <4>2
      <4>5. "write" \notin ops'
        BY <4>1, <4>4 DEF SidesAndOps
      <4>6. "finish" \in ops' /\ "read" \notin ops'
        BY <1>1, <1>3, <2>1, <4>1, <4>4 DEF SidesAndOps
      <4> QED  BY <1>1, <4>3, <4>4, <4>5, <4>6 DEF SidesAndOps
    <3>2. CASE ~writeFinished'
      <4>1. ops' = ops \ {"read"} /\ finishes' = finishes
        BY <2>3, <3>2
      <4> QED  BY Zenon, <1>1, <1>3, <2>1, <3>2, <4>1 DEF SidesAndOps
    <3> QED  BY <3>1, <3>2
  <2>7. QueueOrder'
    BY Zenon, <1>1, <2>1 DEF QueueOrder
  <2> QED  BY <1>4, <2>4, <2>5, <2>6, <2>7 DEF StreamInv
<1>6. CASE ~(~ok \/ cancelled)
  <2>1. /\ UNCHANGED <<readFinished, writeFinished>> /\ finishes' = finishes
        /\ ops' = ops \ {"read"} /\ readActive' = FALSE
    BY Zenon, <1>1, <1>6 DEF OnReadDone, FinishIf
  <2>2. TypeOK' /\ QueueOrder'
    BY SMTT(30), <1>1, <1>2, <2>1 DEF TypeOK, QueueOrder
  <2>3. Lifecycle' /\ SidesAndOps'
    BY SMTT(30), <1>1, <1>3, <2>1 DEF Lifecycle, SidesAndOps
  <2> QED  BY <1>4, <2>2, <2>3 DEF StreamInv
<1> QED  BY <1>5, <1>6

\* Every step of the stream, and no step, keeps the inductive invariant.
LEMMA StreamStepKeeps ==
    ASSUME TypeOK, StreamInv, [StreamNext]_streamVars
    PROVE  TypeOK' /\ StreamInv'
<1> USE DEF StreamInv
<1>1. CASE StartRefused
  BY <1>1, StartRefusedKeeps
<1>2. CASE Start
  BY <1>2, StartKeeps
<1>3. CASE CancelStream
  BY <1>3, CancelStreamKeeps
<1>4. CASE Read
  BY <1>4, ReadKeeps
<1>5. CASE Finish
  BY <1>5, FinishKeeps
<1>6. ASSUME NEW close \in BOOLEAN, Write(close)
      PROVE  TypeOK' /\ StreamInv'
  BY <1>6, WriteKeeps
<1>7. CASE AddFinishedCallback
  BY <1>7, AddFinishedCallbackKeeps
<1>8. ASSUME NEW ok \in BOOLEAN, OnConnected(ok)
      PROVE  TypeOK' /\ StreamInv'
  BY <1>8, OnConnectedKeeps
<1>9. ASSUME NEW ok \in BOOLEAN, OnReadDone(ok)
      PROVE  TypeOK' /\ StreamInv'
  BY <1>9, OnReadDoneKeeps
<1>10. ASSUME NEW ok \in BOOLEAN, OnWriteDone(ok)
       PROVE  TypeOK' /\ StreamInv'
  BY <1>10, OnWriteDoneKeeps
<1>11. CASE OnFinished
  BY <1>11, OnFinishedKeeps
<1>12. CASE UNCHANGED streamVars
  <2>1. TypeOK'
    BY SMTT(30), <1>12 DEF TypeOK, streamVars, readVars, writeVars
  <2>2. Lifecycle' /\ SidesAndOps'
    BY SMTT(30), <1>12 DEF Lifecycle, SidesAndOps, streamVars, readVars, writeVars
  <2>3. QueueOrder'
    BY <1>12 DEF QueueOrder, streamVars, readVars, writeVars
  <2>4. AnswersCount'
    BY <1>12 DEF AnswersCount, streamVars, readVars, writeVars
  <2> QED  BY SMTT(30), <2>1, <2>2, <2>3, <2>4
<1> QED
  BY <1>1, <1>2, <1>3, <1>4, <1>5, <1>6, <1>7, <1>8, <1>9, <1>10, <1>11, <1>12
  DEF StreamNext, ClientStep, Completion

\* A stream that has not been started satisfies it.
LEMMA StreamInitInv == StreamInit => TypeOK /\ StreamInv
<1> SUFFICES ASSUME StreamInit PROVE TypeOK /\ StreamInv
  OBVIOUS
<1> USE MaxCallsNat DEF StreamInit, Items, Watcher
<1>1. TypeOK
  <2>1. queue \in Seq(Items)
    BY EmptySeq
  <2>2. answers \in [0..MaxCalls -> Nat]
    OBVIOUS
  <2>3. /\ current \in 0..MaxCalls /\ lastSent \in 0..MaxCalls
        /\ calls \in 0..MaxCalls /\ finishes \in Nat
    <3>1. current = 0 /\ lastSent = 0 /\ calls = 0 /\ finishes = 0
      OBVIOUS
    <3> HIDE DEF StreamInit
    <3> QED  BY <3>1
  <2> QED  BY Zenon, <2>1, <2>2, <2>3 DEF TypeOK
<1>2. Lifecycle /\ SidesAndOps
  BY DEF Lifecycle, SidesAndOps
<1>3. QueueOrder
  <2>1. Len(queue) = 0
    OBVIOUS
  <2> QED  BY <2>1 DEF QueueOrder
<1>4. AnswersCount
  BY DEF AnswersCount
<1> QED  BY <1>1, <1>2, <1>3, <1>4 DEF StreamInv

\* Every reachable state of a stream is well-typed, and its flags, its queue
\* and the operations gRPC owes it agree.
THEOREM StreamInvariant == StreamSpec => [](TypeOK /\ StreamInv)
<1>1. StreamInit => TypeOK /\ StreamInv
  BY StreamInitInv
<1>2. TypeOK /\ StreamInv /\ [StreamNext]_streamVars => (TypeOK /\ StreamInv)'
  BY StreamStepKeeps
<1> QED  BY <1>1, <1>2, PTL DEF StreamSpec

\* The processor's fields stay in their types.
THEOREM StreamTypeCorrect == StreamSpec => []TypeOK
BY StreamInvariant, PTL

\* No Y_ABORT_UNLESS of the completion handlers ever fails.
THEOREM StreamNeverAborts == StreamSpec => []NoAbort
<1>1. TypeOK /\ StreamInv => NoAbort
  BY DEF TypeOK, StreamInv, SidesAndOps, Lifecycle, NoAbort
<1> QED  BY <1>1, StreamInvariant, PTL

\* gRPC's Finish is called at most once, with nothing else outstanding.
THEOREM FinishComesLast == StreamSpec => []FinishIsLast
<1>1. TypeOK /\ StreamInv => FinishIsLast
  <2> SUFFICES ASSUME TypeOK, StreamInv PROVE FinishIsLast
    OBVIOUS
  <2>1. finishes <= 1
    BY DEF StreamInv, SidesAndOps
  <2>2. ASSUME "finish" \in ops \/ finished
        PROVE  ops \subseteq {"finish"}
    <3>1. readFinished /\ writeFinished
      BY <2>2 DEF StreamInv, SidesAndOps
    <3>2. "read" \notin ops /\ "write" \notin ops
      BY <3>1 DEF StreamInv, SidesAndOps
    <3>3. "connect" \notin ops
      BY <3>1 DEF StreamInv, Lifecycle
    <3> QED  BY <3>2, <3>3 DEF TypeOK
  <2> QED  BY <2>1, <2>2 DEF FinishIsLast
<1> QED  BY <1>1, StreamInvariant, PTL

\* Every callback runs at most once, and all have run when the stream is over.
THEOREM CallbacksRunOnce == StreamSpec => []AnsweredOnce
<1>1. TypeOK /\ StreamInv => AnsweredOnce
  <2> SUFFICES ASSUME TypeOK, StreamInv PROVE AnsweredOnce
    OBVIOUS
  <2> USE MaxCallsNat DEF Items, Watcher
  <2>1. \A c \in 0..MaxCalls : c = 0 \/ c \in Items
    OBVIOUS
  <2>2. \A c \in 0..MaxCalls : answers[c] <= 1
    BY <2>1 DEF StreamInv, AnswersCount
  <2>3. ASSUME finished
        PROVE  (\A i \in 1..calls : answers[i] = 1) /\ ~watching
    <3>1. queue = <<>> /\ ~watching
      BY <2>3 DEF StreamInv, AnswersCount
    <3>2. current = 0
      BY <2>3 DEF StreamInv, SidesAndOps, QueueOrder
    <3>3. \A i \in 1..calls : i \in Items /\ i # current /\ ~(i > calls)
      BY <3>2 DEF TypeOK
    <3>4. \A i \in Items : i \notin Range(queue)
      BY <3>1 DEF Range
    <3> QED  BY <3>1, <3>3, <3>4 DEF StreamInv, AnswersCount
  <2> QED  BY <2>2, <2>3 DEF AnsweredOnce
<1> QED  BY <1>1, StreamInvariant, PTL

\* Requests reach gRPC in the order of the calls, none twice, none after a
\* half-close.
THEOREM StreamWritesInOrder == StreamSpec => WritesInOrder
<1> USE MaxCallsNat DEF Items, Watcher
<1>1. ASSUME TypeOK, StreamInv, [StreamNext]_streamVars, lastSent' # lastSent
      PROVE  lastSent' > lastSent /\ lastSent \notin closes
  <2>1. ASSUME NEW close \in BOOLEAN, Write(close)
        PROVE  lastSent' > lastSent /\ lastSent \notin closes
    <3>1. ~halfClosed /\ lastSent' = calls + 1
      BY <1>1, <2>1 DEF Write, Drops
    <3> QED  BY <1>1, <3>1 DEF StreamInv, QueueOrder, TypeOK
  <2>2. ASSUME NEW ok \in BOOLEAN, OnWriteDone(ok)
        PROVE  lastSent' > lastSent /\ lastSent \notin closes
    <3>1. queue # <<>> /\ lastSent' = Head(queue)
      BY Zenon, <1>1, <2>2 DEF OnWriteDone
    <3>2. writeActive
      BY <1>1, <2>2 DEF OnWriteDone, StreamInv, SidesAndOps
    <3>3. Head(queue) = queue[1] /\ 1 \in 1..Len(queue) /\ Head(queue) \in Items
      BY <1>1, <3>1, TailIs DEF TypeOK
    <3>4. lastSent < queue[1] /\ lastSent \notin closes
      BY <1>1, <3>1, <3>2, <3>3 DEF StreamInv, QueueOrder
    <3>5. lastSent \in Nat /\ lastSent' \in Nat /\ lastSent < lastSent'
      BY SMTT(30), <1>1, <3>1, <3>3, <3>4 DEF TypeOK
    <3> QED  BY <3>4, <3>5
  <2>3. CASE \/ StartRefused \/ Start \/ CancelStream \/ Read \/ Finish
             \/ AddFinishedCallback \/ OnFinished
             \/ \E ok \in BOOLEAN : OnConnected(ok) \/ OnReadDone(ok)
    BY Zenon, <1>1, <2>3 DEF StartRefused, Start, CancelStream, Read, Finish,
       AddFinishedCallback, OnFinished, OnConnected, OnReadDone
  <2>4. CASE UNCHANGED streamVars
    BY <1>1, <2>4 DEF streamVars
  <2> QED
    BY SMTT(30), <1>1, <2>1, <2>2, <2>3, <2>4 DEF StreamNext, ClientStep, Completion
<1>2. TypeOK /\ StreamInv /\ [StreamNext]_streamVars
        => [lastSent' # lastSent => /\ lastSent' > lastSent
                                    /\ lastSent \notin closes]_streamVars
  BY <1>1
<1> QED  BY <1>2, StreamInvariant, PTL DEF StreamSpec, WritesInOrder

\* What a step that leaves the calls and their answers alone does to them.
LEMMA SameStatus ==
    ASSUME UNCHANGED <<answers, calls>>
    PROVE  ItemStatus' = ItemStatus
BY DEF ItemStatus, Items

\* Phase does not change unless conn or finished does.
LEMMA SamePhase ==
    ASSUME UNCHANGED <<conn, finished>>
    PROVE  Phase' = Phase
BY DEF Phase

\* The phases, read off conn and finished.
LEMMA PhaseIs ==
    ASSUME TypeOK, Lifecycle, SidesAndOps
    PROVE  /\ conn = "new" => Phase = "idle"
           /\ conn = "failed" => Phase = "over"
           /\ conn = "ok" /\ finished => Phase = "over"
           /\ conn = "ok" /\ ~finished => Phase = "open"
           /\ conn = "pending" => Phase = "connecting"
<1>1. conn \in {"new", "pending"} => ~finished
  BY DEF Lifecycle, SidesAndOps
<1> QED  BY <1>1 DEF Phase

\* Each step of the processor is a step of StreamCall, or none of its
\* business.
LEMMA StepImplements ==
    ASSUME TypeOK, StreamInv, TypeOK', StreamInv', [StreamNext]_streamVars
    PROVE  [Call!Next]_(Call!callVars)
<1> USE MaxCallsNat DEF StreamInv
<1>p. /\ conn = "new" => Phase = "idle"
      /\ conn = "failed" => Phase = "over"
      /\ conn = "ok" /\ finished => Phase = "over"
      /\ conn = "ok" /\ ~finished => Phase = "open"
      /\ conn = "pending" => Phase = "connecting"
  BY PhaseIs
<1>q. /\ conn' = "failed" => Phase' = "over"
      /\ conn' = "ok" /\ finished' => Phase' = "over"
      /\ conn' = "ok" /\ ~finished' => Phase' = "open"
      /\ conn' = "pending" => Phase' = "connecting"
  <2>1. /\ conn' = "pending" => ~finished'
    BY DEF Lifecycle, SidesAndOps
  <2> QED  BY SMTT(30), <2>1 DEF Phase
<1>1. CASE StartRefused
  <2>1. Call!Dial
    BY <1>1, <1>p, <1>q, SameStatus DEF StartRefused, readVars, Call!Dial
  <2> QED  BY <2>1 DEF Call!Next
<1>2. CASE Start
  <2>1. Call!Dial
    BY <1>2, <1>p, <1>q, SameStatus DEF Start, readVars, Call!Dial
  <2> QED  BY <2>1 DEF Call!Next
<1>3. CASE CancelStream
  <2>1. UNCHANGED <<conn, finished, answers, calls, readActive>>
    BY <1>3 DEF CancelStream
  <2> QED  BY <2>1, SameStatus, SamePhase DEF Call!callVars
<1>4. CASE Read \/ Finish
  <2>1. /\ conn = "ok" /\ ~finished /\ ~readActive /\ readActive' = TRUE
        /\ UNCHANGED <<conn, finished, answers, calls>>
    BY Zenon, <1>4 DEF Read, Finish, MayAsk, Connected
  <2>2. Call!Ask
    BY <1>p, <2>1, SameStatus, SamePhase DEF Call!Ask
  <2> QED  BY <2>2 DEF Call!Next
<1>5. ASSUME NEW close \in BOOLEAN, Write(close)
      PROVE  [Call!Next]_(Call!callVars)
  <2> DEFINE i == calls + 1
  <2>1. /\ conn = "ok" /\ calls < MaxCalls /\ calls' = calls + 1
        /\ UNCHANGED <<conn, finished, readActive>>
    BY SMTT(30), <1>5 DEF Write, Connected, readVars
  <2>2. i \in Items /\ i > calls /\ ~(i > calls')
    BY SMTT(30), <2>1 DEF Items, TypeOK
  <2>3. Phase' = Phase /\ Phase \in {"open", "over"}
    BY SMTT(30), <1>p, <2>1, SamePhase DEF TypeOK
  <2>4. \A k \in Items : answers[k] \in Nat
    BY SMTT(30) DEF TypeOK, Items
  <2>5. answers[i] = 0
    BY <2>2 DEF AnswersCount
  <2>6. ItemStatus[i] = "new"
    BY <2>2, <2>5 DEF ItemStatus, TypeOK, Items
  <2>7. \A k \in Items : k # i => ItemStatus'[k] = ItemStatus[k]
    <3>1. \A k \in Items : k # i => answers'[k] = answers[k]
      <4>1. CASE Drops(close)
        <5>1. Answered({i})
          BY <1>5, <4>1 DEF Write
        <5>2. \A c \in 0..MaxCalls :
                  answers'[c] = IF c \in {i} THEN answers[c] + 1 ELSE answers[c]
          BY Zenon, <5>1, AnsweredIs DEF TypeOK
        <5> QED  BY <5>2 DEF Items
      <4>2. CASE ~Drops(close)
        BY <1>5, <4>2 DEF Write
      <4> QED  BY <4>1, <4>2
    <3>2. \A k \in Items : k # i => (k <= calls' <=> k <= calls)
      BY SMTT(30), <2>1 DEF TypeOK, Items
    <3> QED  BY <3>1, <3>2 DEF ItemStatus
  <2>8. ItemStatus'[i] \in {"held", "answered"}
    BY <2>2 DEF ItemStatus, Items, TypeOK
  <2>9. Phase = "over" => ItemStatus'[i] = "answered"
    <3>1. Phase = "over" => finished
      BY <1>p, <2>1
    <3>2. finished => Drops(close)
      BY DEF Drops, SidesAndOps
    <3>3. Drops(close) => Answered({i})
      BY <1>5 DEF Write
    <3>4. Answered({i}) => answers'[i] = 1
      <4>1. i \in 0..MaxCalls
        BY <2>2 DEF Items
      <4>2. Answered({i}) =>
                \A c \in 0..MaxCalls :
                  answers'[c] = IF c \in {i} THEN answers[c] + 1 ELSE answers[c]
        BY Zenon, AnsweredIs DEF TypeOK
      <4> QED  BY <2>5, <4>1, <4>2
    <3>5. answers'[i] = 1 => ItemStatus'[i] = "answered"
      BY <2>2 DEF ItemStatus
    <3> QED  BY <3>1, <3>2, <3>3, <3>4, <3>5
  <2>10. ItemStatus' = [ItemStatus EXCEPT ![i] = ItemStatus'[i]]
    BY Zenon, <2>2, <2>7 DEF ItemStatus
  <2>11. Call!Submit(i)
    <3> HIDE DEF i
    <3>1. ItemStatus'[i] \in IF Phase = "open" THEN {"held", "answered"}
                             ELSE {"answered"}
      BY <2>3, <2>8, <2>9
    <3> QED  BY <2>1, <2>3, <2>6, <2>10, <3>1 DEF Call!Submit
  <2> QED  BY SMTT(30), <2>2, <2>11 DEF Call!Next
<1>6. CASE AddFinishedCallback
  <2>1. UNCHANGED <<conn, finished, calls, readActive>>
    BY <1>6 DEF AddFinishedCallback, readVars
  <2>2. \A k \in Items : answers'[k] = answers[k]
    <3>1. CASE finished
      <4>1. Answered({0})
        BY <1>6, <3>1 DEF AddFinishedCallback, Watcher
      <4>2. \A c \in 0..MaxCalls :
                answers'[c] = IF c \in {0} THEN answers[c] + 1 ELSE answers[c]
        BY Zenon, <4>1, AnsweredIs DEF TypeOK
      <4> QED  BY <4>2 DEF Items
    <3>2. CASE ~finished
      BY <1>6, <3>2 DEF AddFinishedCallback
    <3> QED  BY <3>1, <3>2
  <2>3. ItemStatus' = ItemStatus
    BY <2>1, <2>2 DEF ItemStatus
  <2> QED  BY SMTT(30), <2>1, <2>3, SamePhase DEF Call!callVars
<1>7. ASSUME NEW ok \in BOOLEAN, OnConnected(ok)
      PROVE  [Call!Next]_(Call!callVars)
  <2>1. UNCHANGED <<finished, answers, calls, readActive>> /\ conn = "pending"
    BY <1>7 DEF OnConnected, Lifecycle
  <2>2. conn' \in {conn, "ok"}
    BY SMTT(30), <1>7 DEF OnConnected
  <2>3. ~finished
    BY <1>7 DEF OnConnected, Lifecycle, SidesAndOps
  <2>4. CASE conn' = conn
    BY <2>1, <2>4, SameStatus, SamePhase DEF Call!callVars
  <2>5. CASE conn' = "ok"
    <3>1. Call!Open
      BY <1>p, <1>q, <2>1, <2>3, <2>5, SameStatus DEF Call!Open
    <3> QED  BY <3>1 DEF Call!Next
  <2> QED  BY SMTT(30), <2>2, <2>4, <2>5
<1>8. ASSUME NEW ok \in BOOLEAN, OnReadDone(ok)
      PROVE  [Call!Next]_(Call!callVars)
  <2>1. /\ UNCHANGED <<conn, finished, answers, calls>>
        /\ readActive' = ~ok /\ "read" \in ops
    BY SMTT(30), <1>8 DEF OnReadDone
  <2>2. readActive /\ ~finished /\ conn = "ok"
    BY <2>1 DEF SidesAndOps, Lifecycle, TypeOK
  <2>3. CASE ok
    <3>1. Call!Reply
      BY Zenon, <1>p, <2>1, <2>2, <2>3, SameStatus, SamePhase DEF Call!Reply
    <3> QED  BY <3>1 DEF Call!Next
  <2>4. CASE ~ok
    <3>1. readActive' = readActive
      BY Zenon, <2>1, <2>2, <2>4 DEF TypeOK
    <3> QED  BY <2>1, <3>1, SameStatus, SamePhase DEF Call!callVars
  <2> QED  BY <2>3, <2>4
<1>9. ASSUME NEW ok \in BOOLEAN, OnWriteDone(ok)
      PROVE  [Call!Next]_(Call!callVars)
  <2>1. UNCHANGED <<conn, finished, calls, readActive>> /\ "write" \in ops
    BY SMTT(30), <1>9 DEF OnWriteDone, readVars
  <2>2. writeActive /\ ~writeFinished /\ ~finished /\ conn = "ok"
    BY <2>1 DEF SidesAndOps, Lifecycle, TypeOK
  <2>3. CASE ok
    <3>1. Answered({current})
      BY SMTT(30), <1>9, <2>3 DEF OnWriteDone
    <3>2. current \in Items /\ current <= calls
      BY SMTT(30), <2>2 DEF QueueOrder, TypeOK, Items
    <3>3. answers[current] = 0
      BY <3>2 DEF AnswersCount
    <3>4. ItemStatus[current] = "held"
      BY <3>2, <3>3 DEF ItemStatus
    <3>5. \A c \in 0..MaxCalls :
            answers'[c] = IF c \in {current} THEN answers[c] + 1 ELSE answers[c]
      BY Zenon, <3>1, AnsweredIs DEF TypeOK
    <3>6. answers'[current] = 1
      BY <3>2, <3>3, <3>5 DEF Items
    <3>7. \A k \in Items : k # current => answers'[k] = answers[k]
      BY <3>5 DEF Items
    <3>8. ItemStatus'[current] = "answered"
      BY <3>2, <3>6 DEF ItemStatus
    <3>9. \A k \in Items : k # current => ItemStatus'[k] = ItemStatus[k]
      BY <2>1, <3>7 DEF ItemStatus
    <3>10. ItemStatus' = [ItemStatus EXCEPT ![current] = "answered"]
      BY Zenon, <3>2, <3>8, <3>9 DEF ItemStatus
    <3>11. Call!Answer(current)
      BY <1>p, <2>1, <2>2, <3>4, <3>10, SamePhase DEF Call!Answer
    <3> QED  BY <3>2, <3>11 DEF Call!Next
  <2>4. CASE ~ok
    <3>1. answers' = answers
      BY <1>9, <2>4 DEF OnWriteDone
    <3> QED  BY <2>1, <3>1, SameStatus, SamePhase DEF Call!callVars
  <2> QED  BY <2>3, <2>4
<1>10. CASE OnFinished
  <2>1. /\ finished' = TRUE /\ calls' = calls /\ "finish" \in ops
        /\ IF conn = "pending"
           THEN conn' = "failed" /\ UNCHANGED readActive
           ELSE readActive' = FALSE /\ conn' = conn
    BY SMTT(30), <1>10 DEF OnFinished
  <2>2. ~finished /\ conn \in {"pending", "ok"}
    BY <2>1 DEF SidesAndOps, Lifecycle, TypeOK
  <2>3. Phase \in {"connecting", "open"} /\ Phase' = "over"
    BY SMTT(30), <1>p, <1>q, <2>1, <2>2
  <2>4. readActive' = FALSE
    BY SMTT(30), <2>1, <2>2 DEF Lifecycle, TypeOK
  <2>5. \A k \in Items : ItemStatus'[k] = IF ItemStatus[k] = "held"
                                          THEN "answered" ELSE ItemStatus[k]
    <3> SUFFICES ASSUME NEW k \in Items
                 PROVE  ItemStatus'[k] = IF ItemStatus[k] = "held"
                                         THEN "answered" ELSE ItemStatus[k]
      OBVIOUS
    <3>1. ItemStatus[k] = IF answers[k] > 0 THEN "answered"
                          ELSE IF k <= calls THEN "held" ELSE "new"
      BY DEF ItemStatus
    <3>2. ItemStatus'[k] = IF answers'[k] > 0 THEN "answered"
                           ELSE IF k <= calls' THEN "held" ELSE "new"
      BY DEF ItemStatus
    <3>3. answers'[k] = IF k > calls THEN 0 ELSE 1
      <4>1. current' = 0 /\ queue' = <<>>
        BY <1>10 DEF OnFinished, SidesAndOps, QueueOrder
      <4>2. k # current' /\ k \notin Range(queue') /\ calls' = calls
        BY <2>1, <4>1 DEF Range, Items
      <4> QED  BY SMTT(30), <4>2 DEF AnswersCount
    <3>4. k > calls => answers[k] = 0
      BY DEF AnswersCount
    <3>5. k \in Nat /\ calls \in Nat
      BY DEF Items, TypeOK
    <3> QED  BY <2>1, <3>1, <3>2, <3>3, <3>4, <3>5
  <2>6. ItemStatus' = [k \in Items |-> IF ItemStatus[k] = "held"
                                       THEN "answered" ELSE ItemStatus[k]]
    BY <2>5 DEF ItemStatus
  <2>7. Call!End
    BY <2>3, <2>4, <2>6 DEF Call!End
  <2> QED  BY <2>7 DEF Call!Next
<1>11. CASE UNCHANGED streamVars
  <2>1. UNCHANGED <<conn, finished, answers, calls, readActive>>
    BY <1>11 DEF streamVars, readVars
  <2> QED  BY <2>1, SameStatus, SamePhase DEF Call!callVars
<1> QED
  BY <1>1, <1>2, <1>3, <1>4, <1>5, <1>6, <1>7, <1>8, <1>9, <1>10, <1>11
  DEF StreamNext, ClientStep, Completion

\* The processor implements StreamCall: it never drops an answer, never gives
\* one twice, and holds nothing once the stream is over.
THEOREM StreamImplementsCall == StreamSpec => CallSpec
<1>1. StreamInit => Call!Init
  <2> SUFFICES ASSUME StreamInit PROVE Call!Init
    OBVIOUS
  <2>1. ItemStatus = [i \in Items |-> "new"]
    <3>1. \A i \in Items : answers[i] = 0 /\ ~(i <= calls)
      BY MaxCallsNat DEF StreamInit, Items
    <3> QED  BY <3>1 DEF ItemStatus
  <2>2. Phase = "idle" /\ readActive = FALSE
    BY DEF StreamInit, Phase
  <2> QED  BY <2>1, <2>2 DEF Call!Init
<1>2. /\ TypeOK /\ StreamInv /\ (TypeOK /\ StreamInv)'
      /\ [StreamNext]_streamVars
      => [Call!Next]_(Call!callVars)
  BY StepImplements
<1> QED  BY <1>1, <1>2, StreamInvariant, PTL DEF StreamSpec, CallSpec,
   Call!Spec
==============================================================================
