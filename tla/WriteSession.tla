---------------------------- MODULE WriteSession ----------------------------
(***************************************************************************)
(* TWriteSessionImpl, the topic write session: messages are batched,       *)
(* compressed on an executor, sent in the order they were accepted, kept   *)
(* until the server acknowledges them, and sent again after a reconnect.   *)
(* The server's side of the stream is external; it drops what its last     *)
(* sequence number already covers.                                         *)
(*                                                                         *)
(* Variable w is the object under Lock, so one critical section is one     *)
(* step.  The threads that stand between two critical sections of one      *)
(* callback are counted in failing and restarting.  Sequence numbers are   *)
(* automatic and deduplication is on; the executor is asynchronous.        *)
(*                                                                         *)
(* A failed assertion, an exception out of SendImpl and the use of an      *)
(* empty queue end the model: w.failed.                                    *)
(*                                                                         *)
(* Sizes stand for bytes: a message has DataSize raw and one compressed, a *)
(* write request takes one per block.                                      *)
(***************************************************************************)
EXTENDS Integers, FiniteSets, SequencesExt

CONSTANTS
    MaxMessages,   \* messages the user writes
    Encoded,       \* whether a message is written with WriteEncoded
    BatchCount,    \* MaxBlockMessageCount
    MaxMemory,     \* Settings.MaxMemoryUsage_
    MaxFaults,     \* broken streams, failed calls and fatal statuses
    LastSeqNo,     \* what the server has of this producer beforehand
    Batching       \* what servers say of is_batching_supported

ASSUME WriteAssumption ==
    /\ {MaxMessages, BatchCount} \subseteq Nat \ {0}
    /\ {MaxMemory, MaxFaults, LastSeqNo} \subseteq Nat
    /\ Encoded \subseteq BOOLEAN /\ Batching \subseteq BOOLEAN

VARIABLES
    w,          \* the members of TWriteSessionImpl
    stream,     \* the bidirectional stream of the current Processor
    reading,    \* a read callback with the current generation is outstanding
    initWrite,  \* the write callback of the init request, current generation
    failing,    \* threads between the two critical sections of OnReadDone
    restarting, \* threads between RestartImpl and Start
    server,     \* what the server stored
    close,      \* the user's call of Close
    overtaken,  \* history: a thread that is to restart was overtaken by Start
    faults

vars == <<w, stream, reading, initWrite, failing, restarting, server,
          close, overtaken, faults>>

Ids == 1..MaxMessages
DataSize == 2
NoSeqNo == -1

----------------------------------------------------------------------------
\* Blocks, and the memory each stands for.

Message == [id : Ids, raw : BOOLEAN]
Block == [offset : Ids, count : 1..BatchCount, raw : BOOLEAN]

\* An encoded message is not compressed again.
OriginalMemoryUsage(b) == DataSize * b.count
Held(b) == IF b.raw THEN OriginalMemoryUsage(b) ELSE b.count

\* Op(x), with x evaluated once.
Value(Op(_), x) == CHOOSE v \in {Op(y) : y \in {x}} : TRUE

Fail(x) == [x EXCEPT !.failed = TRUE]

OnMemoryUsageChangedImpl(x, diff) ==
    IF x.memory + diff < 0 THEN Fail(x) ELSE [x EXCEPT !.memory = @ + diff]

TryIssueContinuationTokenImpl(x) ==
    IF x.aborting \/ x.issued \/ x.memory > MaxMemory THEN x
    ELSE [x EXCEPT !.issued = TRUE, !.tokens = @ + 1]

----------------------------------------------------------------------------
\* Sending.

Top(S) == CHOOSE b \in S : \A c \in S : b.offset <= c.offset

\* Mutant: blocks go out as they leave the compressor.
AnyOrder(x) == SetToSortSeq(x.packed, LAMBDA b, c : b.offset < c.offset)

\* The blocks the loops of SendImpl take: from the first original message on,
\* as long as the next block is there.
ReadyBlocks(x) ==
    LET Covered(i) == \E b \in x.packed : i \in b.offset .. b.offset + b.count - 1
        first == Head(x.toSend)
    IN  SetToSortSeq({b \in x.packed : \A i \in first .. b.offset : Covered(i)},
                     LAMBDA b, c : b.offset < c.offset)

\* A request carries blocks of one codec, each under the sequence number of
\* its last message.
Requests(x, blocks) ==
    LET add(rs, b) ==
          LET m == [seqNo |-> b.offset + b.count - 1 + x.initSeqNo, id |-> b.offset,
                    count |-> b.count, raw |-> b.raw]
          IN  IF rs = <<>> \/ Last(rs)[1].raw # b.raw THEN Append(rs, <<m>>)
              ELSE [rs EXCEPT ![Len(rs)] = Append(@, m)]
    IN  FoldLeft(add, <<>>, blocks)

\* The assertions of IsReadyToSendNextImpl, made before every block.
Consistent(x) ==
    x.packed # {} => /\ x.toSend # <<>>
                     /\ Head(x.toSend) <= Top(x.packed).offset

\* SendBatchBlock throws when the server does not know blocks of several.
Unsupported(x, blocks) == ~x.batching /\ \E b \in Range(blocks) : b.count > 1

\* The loops of SendImpl have taken blocks; out collects the requests of
\* WriteToProcessorImpl.
SentBlocks(x, blocks) ==
    LET n == FoldLeft(LAMBDA s, b : s + b.count, 0, blocks)
        Written(requests) ==
          [x EXCEPT !.packed = @ \ Range(blocks),
                    !.toSend = SubSeq(@, n + 1, Len(@)),
                    !.sentPacked = @ \o blocks,
                    !.sent = @ \o SubSeq(x.toSend, 1, n),
                    !.memory = @ + Len(blocks),
                    !.completing = @ \o [i \in DOMAIN requests |-> Len(requests[i])],
                    !.out = @ \o requests]
    IN  Value(Written, Requests(x, blocks))

SendImpl(object) ==
    LET Send(x) ==
          IF ~x.established \/ x.aborting \/ x.packed = {} THEN x
          ELSE IF ~Consistent(x) \/ Unsupported(x, ReadyBlocks(x)) THEN Fail(x)
          ELSE Value(LAMBDA y : IF Consistent(y) THEN y ELSE Fail(y),
                     Value(LAMBDA blocks : SentBlocks(x, blocks), ReadyBlocks(x)))
    IN  Value(Send, object)

\* The posted task clears SendImplScheduled before it takes the lock.
SendTask(x) == [x EXCEPT !.scheduled = FALSE, !.sending = @ + 1]

----------------------------------------------------------------------------
\* Batching and compression.

\* Mutant: a batch larger than one block is cut.
FirstBlock(ms) == [offset |-> Head(ms).id, count |-> 1, raw |-> Head(ms).raw]

\* The block of a batch.
Blocked(ms) == [offset |-> Head(ms).id, count |-> Len(ms), raw |-> Head(ms).raw]

\* An encoded message is not alone in its batch.
Mixed(x) == Len(x.batch) > 1 /\ \E i \in DOMAIN x.batch : x.batch[i].raw

\* WriteBatchImpl with CompressImpl, which drops the block of a session that
\* is aborting.
WriteBatchImpl(x) ==
    IF x.batch = <<>> THEN x
    ELSE IF Mixed(x) THEN Fail(x)
    ELSE LET b == Blocked(x.batch)
             y == [x EXCEPT
                     !.batch = <<>>,
                     !.toSend = @ \o [i \in DOMAIN x.batch |-> x.batch[i].id]]
         IN  IF b.raw THEN SendImpl([y EXCEPT !.packed = @ \cup {b}])
             ELSE IF x.aborting THEN y
             ELSE [y EXCEPT !.compressing = @ \cup {b}]

\* FlushWriteIfRequiredImpl but for the interval, which HandleWakeUp covers.
FlushWriteIfRequiredImpl(x) ==
    IF Len(x.batch) >= BatchCount \/ (x.batch # <<>> /\ Head(x.batch).raw)
    THEN WriteBatchImpl(x) ELSE x

\* OnCompressedImpl; a send task is posted unless one is waiting to run.
OnCompressedImpl(x, b) ==
    [OnMemoryUsageChangedImpl(x, Held(b) - OriginalMemoryUsage(b)) EXCEPT
       !.compressing = @ \ {b}, !.packed = @ \cup {b}, !.scheduled = TRUE]

----------------------------------------------------------------------------
\* Acknowledgements.

\* The future of Flush is completed.
Flushed(result) == [on |-> 0, asked |-> 0, done |-> result]

Popped(x, n) == Range(SubSeq(x.sent, 1, n))

\* How many messages an ack stands for.
AckCount(x, id) ==
    IF x.sentPacked # <<>> /\ Head(x.sentPacked).offset = id
    THEN Head(x.sentPacked).count ELSE 1

\* CleanupOnAcknowledgedImpl.  Destroying a message completes its flush.
CleanupOnAcknowledgedImpl(x, id) ==
    LET match == x.sentPacked # <<>> /\ Head(x.sentPacked).offset = id
        n == AckCount(x, id)
        y == IF match
             THEN TryIssueContinuationTokenImpl(
                    OnMemoryUsageChangedImpl([x EXCEPT !.sentPacked = Tail(@)],
                                             -Held(Head(x.sentPacked))))
             ELSE x
    IN  IF \/ Len(x.sent) < n
           \/ \E i \in 1..n : x.sent[i] # id + i - 1
        THEN Fail(y)
        ELSE [y EXCEPT
                !.sent = SubSeq(@, n + 1, Len(@)),
                !.flush = IF @.done = "pending" /\ @.on \in Popped(x, n)
                          THEN Flushed("true") ELSE @]

----------------------------------------------------------------------------
\* Closing and restarting.

\* AbortFlushPromisesImpl
Unflushed(x) == x.flush.on \in Range(x.toSend) \cup Range(x.sent)

AbortImpl(x) ==
    IF x.aborting THEN x
    ELSE [x EXCEPT !.aborting = TRUE, !.describing = FALSE, !.connecting = FALSE,
                   !.flush = IF @.done = "pending" /\ Unflushed(x)
                             THEN Flushed("false") ELSE @]

ResetForRetryImpl(x) ==
    [x EXCEPT !.packed = @ \cup Range(x.sentPacked), !.sentPacked = <<>>,
              !.toSend = x.sent \o @, !.sent = <<>>]

\* Outcomes of a status: retried, retried in another partition, fatal.
Verdicts == {"retry", "switch", "fatal"}

\* RestartImpl with the CloseImpl its callers add to a fatal status.
RestartImpl(x, verdict) ==
    IF x.aborting THEN x
    ELSE LET y == [x EXCEPT !.established = FALSE,
                            !.partition = @ /\ verdict = "retry"]
         IN  IF verdict = "fatal" THEN AbortImpl(y) ELSE ResetForRetryImpl(y)

DoRestart(x, verdict) == ~x.aborting /\ verdict # "fatal"

----------------------------------------------------------------------------
\* Frames.

\* The new object; what it wrote goes to stream s if that is alive.
BecomesOn(s, object) ==
    \E x \in {object} :
      /\ w' = [x EXCEPT !.out = <<>>]
      /\ stream' = [s EXCEPT
           !.alive = @ /\ ~x.aborting,
           !.up = IF s.alive /\ ~x.aborting
                  THEN @ \o [i \in DOMAIN x.out |->
                               [type |-> "write", messages |-> x.out[i]]]
                  ELSE <<>>]

Becomes(x) == BecomesOn(stream, x)

Callbacks == <<reading, initWrite, failing, restarting>>

\* ConnectionGeneration grows: callbacks that carry the old one return at
\* once, so they are dropped here.  A thread past that test goes on to restart
\* the connection that this one opens.
NewGeneration ==
    /\ reading' = FALSE
    /\ initWrite' = "none"
    /\ overtaken' = (overtaken \/ failing' + restarting' > 0)

\* A pipeline step: the connection is left alone.
PipelineOnly == UNCHANGED <<Callbacks, server, overtaken, faults>>

Fault == faults < MaxFaults /\ faults' = faults + 1

\* A verdict other than retry counts as a fault.
Costs(verdict) ==
    IF verdict = "retry" THEN UNCHANGED faults ELSE Fault

----------------------------------------------------------------------------
\* The user.

\* WriteInternal; the user has a token.
Write ==
    /\ w.tokens > 0 /\ w.next < MaxMessages
    /\ \E raw \in Encoded :
         LET m == [id |-> w.next + 1, raw |-> raw]
             x == [w EXCEPT !.next = @ + 1, !.tokens = @ - 1, !.issued = FALSE,
                            !.memory = @ + DataSize, !.batch = Append(@, m)]
         IN  Becomes(FlushWriteIfRequiredImpl(TryIssueContinuationTokenImpl(x)))
    /\ UNCHANGED close
    /\ PipelineOnly

\* The message whose acknowledgement completes a flush.
FlushMessage(x) == IF x.toSend # <<>> THEN Last(x.toSend) ELSE Last(x.sent)

Flush ==
    /\ w.flush.done = "none"
    /\ LET x == WriteBatchImpl(w)
           none == x.toSend = <<>> /\ x.sent = <<>>
       IN  Becomes(IF w.aborting THEN [w EXCEPT !.flush = Flushed("false")]
                   ELSE IF x.failed THEN x
                   ELSE IF none THEN [x EXCEPT !.flush = Flushed("true")]
                   ELSE [x EXCEPT !.flush = [on |-> FlushMessage(x), asked |-> w.next,
                                             done |-> "pending"]])
    /\ UNCHANGED close
    /\ PipelineOnly

\* Mutant: the batch is left behind.
CloseKeepsBatch ==
    /\ close.verdict = "no"
    /\ close' = IF w.aborting THEN [asked |-> 0, verdict |-> "false"]
                ELSE [asked |-> w.next, verdict |-> "waiting"]
    /\ UNCHANGED <<w, stream>>
    /\ PipelineOnly

\* Close up to its wait loop.
CloseBegins ==
    /\ close.verdict = "no"
    /\ IF w.aborting
       THEN close' = [asked |-> 0, verdict |-> "false"] /\ UNCHANGED <<w, stream>>
       ELSE close' = [asked |-> w.next, verdict |-> "waiting"] /\ Becomes(WriteBatchImpl(w))
    /\ PipelineOnly

\* Everything is acknowledged, the session aborts or the time is over.  What
\* was written in the meantime may still be in the batch.
CloseReturns ==
    /\ close.verdict = "waiting"
    /\ close' = [asked |-> 0,
                 verdict |-> IF w.toSend = <<>> /\ w.sent = <<>> /\ ~w.aborting
                             THEN "true" ELSE "false"]
    /\ Becomes(AbortImpl(w))
    /\ PipelineOnly

----------------------------------------------------------------------------
\* The executor, the timer and the write completions.

\* FlushWriteIfRequiredImpl when the interval has passed, also once more after
\* the session was aborted.
HandleWakeUp ==
    /\ w.batch # <<>>
    /\ Becomes(WriteBatchImpl(w))
    /\ UNCHANGED close
    /\ PipelineOnly

OnCompressed ==
    /\ \E b \in w.compressing :
         Becomes(TryIssueContinuationTokenImpl(OnCompressedImpl(w, b)))
    /\ UNCHANGED close
    /\ PipelineOnly

SendTaskStarts ==
    /\ w.scheduled
    /\ Becomes(SendTask(w))
    /\ UNCHANGED close
    /\ PipelineOnly

SendTaskRuns ==
    /\ w.sending > 0
    /\ Becomes(SendImpl([w EXCEPT !.sending = @ - 1]))
    /\ UNCHANGED close
    /\ PipelineOnly

\* Mutant: a request is released without looking for room.
ReleasesQuietly(x) ==
    OnMemoryUsageChangedImpl([x EXCEPT !.completing = Tail(@)], -Head(x.completing))

RequestDone(x) ==
    TryIssueContinuationTokenImpl(
      OnMemoryUsageChangedImpl([x EXCEPT !.completing = Tail(@)],
                               -Head(x.completing)))

\* The status of a data request is not looked at.
OnWriteRequestDone ==
    /\ w.completing # <<>>
    /\ Becomes(RequestDone(w))
    /\ UNCHANGED close
    /\ PipelineOnly

----------------------------------------------------------------------------
\* The connection.

\* Connect; without a client context the session aborts instead.
Connected(x, context) ==
    IF x.aborting THEN x
    ELSE IF ~context THEN AbortImpl(x)
    ELSE [x EXCEPT !.connecting = TRUE]

\* ConnectToPreferredPartitionLocation
Described(x, context) ==
    IF x.aborting THEN x
    ELSE IF ~context THEN AbortImpl(x)
    ELSE [x EXCEPT !.describing = TRUE]

\* The previous Processor is cancelled with what was on its way.
NoStream == [alive |-> FALSE, up |-> <<>>, down |-> <<>>]

\* Start after the first time: ask for the location of a known partition, or
\* connect.
Start ==
    /\ restarting > 0
    /\ restarting' = restarting - 1
    /\ \E context \in BOOLEAN :
         /\ IF context THEN UNCHANGED faults ELSE Fault
         /\ IF w.direct /\ w.partition
            THEN /\ w' = Described(w, context)
                 /\ stream' = IF w'.aborting THEN [stream EXCEPT !.alive = FALSE]
                              ELSE stream
            ELSE /\ w' = Connected(w, context)
                 /\ stream' = IF w.aborting THEN stream ELSE NoStream
    /\ UNCHANGED <<failing, server, close>>
    /\ IF w.aborting THEN UNCHANGED <<reading, initWrite, overtaken>> ELSE NewGeneration

\* Answers of a call: good, or an error with its verdict.  An unimplemented
\* DescribePartition turns direct writing off.
OnDescribePartition ==
    /\ w.describing
    /\ LET x == [w EXCEPT !.describing = FALSE]
       IN  \/ \E context \in BOOLEAN :
                /\ IF context THEN UNCHANGED faults ELSE Fault
                /\ w' = Connected(x, context)
                /\ stream' = NoStream
                /\ UNCHANGED <<failing, restarting>>
                /\ NewGeneration
           \/ \E verdict \in Verdicts, direct \in BOOLEAN :
                /\ Fault
                /\ Becomes(RestartImpl([x EXCEPT !.direct = direct], verdict))
                /\ restarting' = restarting + IF DoRestart(x, verdict) THEN 1 ELSE 0
                /\ UNCHANGED <<reading, initWrite, failing, overtaken>>
    /\ UNCHANGED <<server, close>>

\* OnConnect sends the init request and reads; OnConnectTimeout and a failed
\* connect restart.
OnConnect ==
    /\ w.connecting
    /\ LET x == [w EXCEPT !.connecting = FALSE]
       IN  \/ /\ w' = x
              /\ stream' = [alive |-> TRUE, up |-> <<[type |-> "init"]>>, down |-> <<>>]
              /\ reading' = TRUE
              /\ initWrite' = "pending"
              /\ UNCHANGED <<restarting, faults>>
           \/ \E verdict \in Verdicts :
                /\ Fault
                /\ Becomes(RestartImpl(x, verdict))
                /\ restarting' = restarting + IF DoRestart(x, verdict) THEN 1 ELSE 0
                /\ UNCHANGED <<reading, initWrite>>
    /\ UNCHANGED <<failing, server, close, overtaken>>

\* Mutant: every init response sets the base of the sequence numbers.
BaseEveryTime(x, last) == last

\* The base of the sequence numbers is the first answer.
InitSeqNo(x, last) == IF x.initSeqNo = NoSeqNo THEN last ELSE x.initSeqNo

\* Send what the last connection left.
Kickstart(x) == SendImpl(x)

\* Direct writing without a known partition: learn it and start again.
LearnsPartition(x) == x.direct /\ ~x.partition

\* The init response; the first one brings the first token.
OnInitResponse(x, last, batching) ==
    LET y == [x EXCEPT !.initSeqNo = InitSeqNo(x, last), !.partition = @ \/ x.direct,
                       !.batching = batching]
    IN  IF LearnsPartition(x) THEN y
        ELSE Kickstart([y EXCEPT !.established = TRUE, !.first = TRUE,
                                 !.issued = @ \/ ~x.first,
                                 !.tokens = @ + IF x.first THEN 0 ELSE 1])

\* ProcessServerMessageImpl for a write response, one ack after the other.
\* The user is told after the last one.
OnAcks(x, seqNos) ==
    LET ack(z, s) ==
          LET id == s - z.initSeqNo   \* GetIdImpl
              ids == [i \in 1 .. AckCount(z, id) |-> id + i - 1]
              told == [z EXCEPT !.acks = @ \o ids]
          IN  IF z.failed \/ id <= 0 THEN Fail(z)
              ELSE Value(LAMBDA y : CleanupOnAcknowledgedImpl(y, id), told)
        step(y, s) == Value(LAMBDA z : ack(z, s), y)
    IN  Value(LAMBDA z : IF z.failed THEN [z EXCEPT !.acks = x.acks] ELSE z,
              FoldLeft(step, x, seqNos))

\* OnReadDone with a message, then the next read unless
\* the session is aborting.
OnReadDone ==
    /\ reading /\ stream.down # <<>>
    /\ reading' = ~w.aborting
    /\ UNCHANGED <<initWrite, failing, server, close, overtaken, faults>>
    /\ LET m == Head(stream.down)
           rest == [stream EXCEPT !.down = Tail(@)]
       IN  IF m.type = "init"
           THEN /\ BecomesOn(rest, OnInitResponse(w, m.last, m.batching))
                /\ restarting' = restarting + IF LearnsPartition(w) THEN 1 ELSE 0
           ELSE /\ BecomesOn(rest, OnAcks(w, m.seqNos))
                /\ UNCHANGED restarting

\* OnReadDone with an error: the generation is compared in the first critical
\* section, the restart happens in the second.
OnReadError ==
    /\ reading /\ ~stream.alive
    /\ reading' = FALSE
    /\ failing' = failing + 1
    /\ UNCHANGED <<w, stream, initWrite, restarting, server, close, overtaken, faults>>

ReadErrorRestarts ==
    /\ failing > 0
    /\ failing' = failing - 1
    /\ \E verdict \in Verdicts :
         /\ Costs(verdict)
         /\ Becomes(RestartImpl(w, verdict))
         /\ restarting' = restarting + IF DoRestart(w, verdict) THEN 1 ELSE 0
    /\ UNCHANGED <<reading, initWrite, server, close, overtaken>>

\* OnWriteDone for the init request, on another thread than the failed read.
OnWriteDone ==
    /\ initWrite = "failed"
    /\ initWrite' = "none"
    /\ \E verdict \in Verdicts :
         /\ Costs(verdict)
         /\ Becomes(RestartImpl(w, verdict))
         /\ restarting' = restarting + IF DoRestart(w, verdict) THEN 1 ELSE 0
    /\ UNCHANGED <<reading, failing, server, close, overtaken>>

\* The stream breaks: requests on the way are lost, answers may still be read.
StreamBreaks ==
    /\ stream.alive /\ Fault
    /\ stream' = [stream EXCEPT !.alive = FALSE, !.up = <<>>]
    /\ initWrite' \in IF initWrite = "pending" THEN {"none", "failed"}
                      ELSE {initWrite}
    /\ UNCHANGED <<w, reading, failing, restarting, server, close, overtaken>>

----------------------------------------------------------------------------
\* The server (external).

\* A message whose sequence number is known is skipped.
Stored(s, m) ==
    IF m.seqNo <= s.last THEN s
    ELSE [s EXCEPT !.last = m.seqNo,
                   !.log = @ \o [i \in 1 .. m.count |-> m.id + i - 1]]

\* An ack carries the sequence number of the message in the request.
ServerTakes ==
    /\ stream.alive /\ stream.up # <<>>
    /\ LET r == Head(stream.up)
           reply == IF r.type = "init" THEN [type |-> "init", last |-> server.last,
                                              batching |-> server.batching]
                    ELSE [type |-> "acks",
                          seqNos |-> [i \in DOMAIN r.messages |-> r.messages[i].seqNo]]
       IN  /\ server' = IF r.type = "init" THEN server
                        ELSE FoldLeft(Stored, server, r.messages)
           /\ stream' = [stream EXCEPT !.up = Tail(@), !.down = Append(@, reply)]
           /\ initWrite' = IF r.type = "init" THEN "none" ELSE initWrite
    /\ UNCHANGED <<w, reading, failing, restarting, close, overtaken, faults>>

----------------------------------------------------------------------------
\* Start has been called once: the first Connect is on its way.
Init ==
    /\ \E direct \in BOOLEAN :
         w = [next |-> 0, batch |-> <<>>, compressing |-> {}, packed |-> {},
              toSend |-> <<>>, sentPacked |-> <<>>, sent |-> <<>>,
              memory |-> 0, completing |-> <<>>, out |-> <<>>,
              first |-> FALSE, issued |-> FALSE, tokens |-> 0,
              scheduled |-> FALSE, sending |-> 0, acks |-> <<>>,
              flush |-> [on |-> 0, asked |-> 0, done |-> "none"],
              established |-> FALSE, aborting |-> FALSE, failed |-> FALSE,
              initSeqNo |-> NoSeqNo, batching |-> FALSE,
              direct |-> direct, partition |-> FALSE,
              describing |-> FALSE, connecting |-> TRUE]
    /\ stream = NoStream
    /\ reading = FALSE /\ initWrite = "none"
    /\ failing = 0 /\ restarting = 0
    /\ server \in [last : {LastSeqNo}, log : {<<>>}, batching : Batching]
    /\ close = [asked |-> 0, verdict |-> "no"]
    /\ overtaken = FALSE /\ faults = 0

Background ==
    \/ OnReadError \/ SendTaskStarts \/ ServerTakes \/ OnWriteRequestDone
    \/ OnCompressed \/ OnConnect \/ Start \/ OnDescribePartition
    \/ ReadErrorRestarts \/ OnWriteDone \/ HandleWakeUp \/ SendTaskRuns
    \/ OnReadDone

Next == /\ ~w.failed
        /\ \/ Write \/ Flush \/ CloseBegins \/ CloseReturns \/ StreamBreaks
           \/ Background

Spec == Init /\ [][Next]_vars

FairSpec == Spec /\ WF_vars(~w.failed /\ (Background \/ CloseReturns))

----------------------------------------------------------------------------
Upto(n) == [i \in 1..n |-> i]

Sum(S) == FoldSet(LAMBDA b, s : Held(b) + s, 0, S)

\* Every variable has its type.
TypeOK ==
    /\ w.next \in 0..MaxMessages /\ w.batch \in Seq(Message)
    /\ w.compressing \subseteq Block /\ w.packed \subseteq Block
    /\ w.sentPacked \in Seq(Block)
    /\ {w.toSend, w.sent, w.acks} \subseteq Seq(Ids)
    /\ w.memory \in Nat /\ w.completing \in Seq(Nat \ {0}) /\ w.out = <<>>
    /\ w.tokens \in 0..1 /\ w.sending \in Nat
    /\ w.flush.done \in {"none", "pending", "true", "false"}
    /\ initWrite \in {"none", "pending", "failed"}
    /\ {failing, restarting} \subseteq Nat /\ reading \in BOOLEAN
    /\ close \in [asked : Nat, verdict : {"no", "waiting", "true", "false"}]

\* The ways to fail that the code leaves open.  A thread restarts the
\* connection that another one has opened.  WriteEncoded comes while a batch is
\* open.  A block of several is acknowledged under its last number, and looked
\* up under its first; or the server does not know such blocks.
KnownFailure ==
    \/ overtaken
    \/ Mixed(w)
    \/ w.sentPacked # <<>> /\ Head(w.sentPacked).count > 1
    \/ Unsupported(w, SetToSeq(w.packed))

\* No Y_ABORT_UNLESS of the session fails in another way: the originals and the
\* blocks stay in step (1854, 1855), the ack of a block of one always names the
\* front of the sent messages (1516, 1521), and memory is never released twice
\* (1561).
NeverAborts == TypeOK /\ (w.failed => KnownFailure)

\* Whatever is lost, repeated or reordered on the way, the server stores the
\* accepted messages in the order of Write, each once and with no gap, and the
\* user is told of each once, in that order; until a thread restarts the
\* connection that another one has opened.
StoredOnceInOrder ==
    ~overtaken => /\ server.log = Upto(Len(server.log))
                  /\ w.acks = Upto(Len(w.acks))

\* MemoryUsage is what the session holds: the batch, the blocks being
\* compressed, waiting or sent, and the requests the transport still has.  So
\* the right to write is not lost: once there was a token, there is one
\* whenever that memory is below the limit.
MemoryAccounted ==
    ~w.aborting =>
      /\ w.memory = DataSize * Len(w.batch)
                    + FoldSet(LAMBDA b, n : OriginalMemoryUsage(b) + n, 0, w.compressing)
                    + Sum(w.packed) + Sum(Range(w.sentPacked))
                    + FoldLeft(+, 0, w.completing)
      /\ w.first => /\ w.issued \/ w.memory > MaxMemory
                    /\ w.issued <=> w.tokens = 1

Log == INSTANCE WriteLog WITH
    accepted <- w.next, stored <- Len(server.log), acked <- Len(w.acks),
    flush <- [asked |-> w.flush.asked, done |-> w.flush.done]

\* The session keeps WriteLog's promise: nothing that was stored, acknowledged,
\* flushed or answered is ever taken back, Flush and Close answer true only for
\* what was acknowledged, and each step of the session is one step of the log
\* or none; until a thread restarts the connection that another one has opened.
ImplementsLog == Log!Init /\ [][Log!Next \/ overtaken']_Log!logVars

\* When the writer pauses, every accepted message comes to be acknowledged and
\* the right to write comes back, and the future of Flush is completed, unless
\* the session ends or fails in one of the ways of NeverAborts.
WritesComplete ==
    /\ []<>(w.aborting \/ w.failed \/ overtaken \/ (Len(w.acks) = w.next /\ w.issued))
    /\ w.flush.done = "pending" ~> w.flush.done # "pending" \/ w.failed \/ overtaken
=============================================================================
