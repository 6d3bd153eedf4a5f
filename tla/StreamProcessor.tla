--------------------------- MODULE StreamProcessor ---------------------------
(***************************************************************************)
(* TStreamRequestReadWriteProcessor: one bidirectional gRPC stream.  The   *)
(* client reads, writes, half-closes, finishes and cancels it; gRPC        *)
(* completes the operations the processor starts, in any order, with ok or *)
(* not.  Every critical section of Mutex is one step, with the callbacks   *)
(* that follow it: all a callback can change is what its owner calls next. *)
(*                                                                         *)
(* A callback is always given (a call without one has nothing to answer).  *)
(* A Read or Finish that finds the stream finished is answered on the spot *)
(* and changes nothing: it is no step.  ReadInitialMetadata, which the SDK *)
(* does not call, is left out.                                             *)
(***************************************************************************)
EXTENDS Naturals, Sequences, Functions

CONSTANTS
    MaxCalls       \* bound on the calls of Write and WritesDone

ASSUME MaxCallsNat == MaxCalls \in Nat

\* The calls of Write and WritesDone, by number.
Items == 1..MaxCalls

\* The call of AddFinishedCallback, made when the stream has connected.
Watcher == 0

VARIABLES
    conn,            \* ConnectedCallback: "new", "pending", "ok" or "failed"
    started,         \* Started
    cancelled,       \* Cancelled
    finished,        \* Finished
    readActive,      \* ReadActive
    readFinished,    \* ReadFinished
    reader,          \* whose callback is kept: "none", "read" or "finish"
    writeActive,     \* WriteActive
    writeFinished,   \* WriteFinished
    halfClosed,      \* HalfCloseRequested
    current,         \* the item being written (WriteCallback), or 0
    queue,           \* WriteQueue
    watching,        \* is FinishedCallbacks non-empty?
    ops,             \* what gRPC has not completed yet (external)
    lastSent,        \* the last item handed to gRPC, or 0 (external)
    finishes,        \* how often Stream->Finish was called (external)
    calls,           \* how many items there were
    closes,          \* which of them are WritesDone
    answers          \* how often each call's callback ran

readVars == <<readActive, readFinished, reader>>
writeVars == <<writeActive, writeFinished, halfClosed, current, queue>>
streamVars == <<conn, started, cancelled, finished, readVars, writeVars,
                watching, ops, lastSent, finishes, calls, closes, answers>>

----------------------------------------------------------------------------
StreamInit ==
    /\ conn = "new"
    /\ started = FALSE /\ cancelled = FALSE /\ finished = FALSE
    /\ readActive = FALSE /\ readFinished = FALSE
    /\ reader = "none"
    /\ writeActive = FALSE /\ writeFinished = FALSE /\ halfClosed = FALSE
    /\ current = 0 /\ queue = <<>>
    /\ watching = FALSE
    /\ ops = {} /\ lastSent = 0 /\ finishes = 0
    /\ calls = 0 /\ closes = {}
    /\ answers = [c \in 0..MaxCalls |-> 0]

\* Stream->Finish, once the operations that just completed (gone) and those
\* that are started again (again) are accounted for.
FinishIf(cond, gone, again) ==
    /\ ops' = (ops \ gone) \cup again
                  \cup (IF cond THEN {"finish"} ELSE {})
    /\ finishes' = IF cond THEN finishes + 1 ELSE finishes

Answered(S) ==
    answers' = [c \in DOMAIN answers |->
                    IF c \in S THEN answers[c] + 1 ELSE answers[c]]

----------------------------------------------------------------------------
\* The context provider gives no context: the client is shutting down.
StartRefused ==
    /\ conn = "new"
    /\ conn' = "failed"
    /\ UNCHANGED <<started, cancelled, finished, readVars, writeVars, watching,
                   ops, lastSent, finishes, calls,
                   closes, answers>>

Start ==
    /\ conn = "new"
    /\ conn' = "pending"
    /\ ops' = {"connect"}
    /\ UNCHANGED <<started, cancelled, finished, readVars, writeVars, watching,
                   lastSent, finishes, calls, closes,
                   answers>>

OnConnected(ok) ==
    /\ "connect" \in ops
    /\ started' = TRUE
    /\ LET failing == ~ok \/ cancelled IN
       /\ readFinished' = (readFinished \/ failing)
       /\ writeFinished' = (writeFinished \/ failing)
       /\ conn' = IF failing THEN conn ELSE "ok"
       /\ FinishIf(failing, {"connect"}, {})
    /\ UNCHANGED <<cancelled, finished, readActive, reader,
                   writeActive, halfClosed, current, queue, watching,
                   lastSent, calls, closes, answers>>

\* Mutants: cancelling or reading ends the write side at once; Cancel finishes
\* a stream that is finishing; Cancel leaves an idle stream alone.
EndsWriteSideAtOnce == TRUE
CancelEndsAgain == started
CancelEndsNothing == FALSE

\* The write side has nothing more to do, unless a write is on its way.
WriteSideEnds == writeFinished \/ ~writeActive

\* Cancel has something to end: the stream is up, and not on its way down.
CancelEnds == started /\ ~(readFinished /\ writeFinished)

\* From the client, or from the context the stream was started under.
CancelStream ==
    /\ conn \in {"pending", "ok"}
    /\ cancelled' = TRUE
    /\ IF CancelEnds
       THEN /\ readFinished' = (readFinished \/ ~readActive)
            /\ writeFinished' = WriteSideEnds
            /\ FinishIf(readFinished' /\ writeFinished', {}, {})
       ELSE UNCHANGED <<readFinished, writeFinished, ops, finishes>>
    /\ UNCHANGED <<conn, started, finished, readActive, reader,
                   writeActive, halfClosed, current, queue, watching,
                   lastSent, calls, closes, answers>>

\* The connected callback subscribes to the end of the stream before it hands
\* the processor to the client.
Connected == conn = "ok" /\ (watching \/ answers[Watcher] > 0)

\* Only one Read or Finish may be active at a time: the client's duty.
MayAsk == Connected /\ ~readActive /\ ~finished

Read ==
    /\ MayAsk
    /\ readActive' = TRUE
    /\ reader' = "read"
    /\ FinishIf(FALSE, {}, IF readFinished THEN {} ELSE {"read"})
    /\ UNCHANGED <<conn, started, cancelled, finished, readFinished, writeVars,
                   watching, lastSent, calls, closes, answers>>

Finish ==
    /\ MayAsk
    /\ readActive' = TRUE
    /\ reader' = "finish"
    /\ readFinished' = TRUE
    /\ IF readFinished
       THEN UNCHANGED <<writeFinished, ops, finishes>>
       ELSE /\ writeFinished' = WriteSideEnds
            /\ FinishIf(writeFinished', {}, {})
    /\ UNCHANGED <<conn, started, cancelled, finished, writeActive,
                   halfClosed, current, queue, watching, lastSent, calls,
                   closes, answers>>

OnReadDone(ok) ==
    /\ "read" \in ops
    /\ IF ~ok \/ cancelled
       THEN /\ readFinished' = TRUE
            /\ writeFinished' = WriteSideEnds
            /\ FinishIf(writeFinished', {"read"}, {})
       ELSE /\ FinishIf(FALSE, {"read"}, {})
            /\ UNCHANGED <<readFinished, writeFinished>>
    \* A read that failed is answered when the stream has finished.
    /\ readActive' = ~ok
    /\ reader' = IF ok THEN "none" ELSE reader
    /\ UNCHANGED <<conn, started, cancelled, finished, writeActive, halfClosed,
                   current, queue, watching, lastSent, calls, closes, answers>>

----------------------------------------------------------------------------
\* Write drops a request on a stream that reads no more, WritesDone does not.
Drops(close) ==
    \/ cancelled
    \/ halfClosed
    \/ writeFinished
    \/ ~close /\ readFinished

\* Write, and WritesDone if close.  WritesDone starts the half-close after it
\* has unlocked Mutex; WriteActive keeps the other handlers away until then.
Write(close) ==
    /\ Connected
    /\ calls < MaxCalls
    /\ LET i == calls + 1 IN
       /\ calls' = i
       /\ closes' = IF close THEN closes \cup {i} ELSE closes
       /\ IF Drops(close)
          THEN /\ Answered({i})
               /\ UNCHANGED <<writeActive, halfClosed, current, queue, ops,
                              lastSent>>
          ELSE /\ halfClosed' = (halfClosed \/ close)
               /\ writeActive' = TRUE
               /\ IF writeActive
                  THEN /\ queue' = Append(queue, i)
                       /\ UNCHANGED <<current, ops, lastSent>>
                  ELSE /\ current' = i
                       /\ ops' = ops \cup {"write"}
                       /\ lastSent' = i
                       /\ UNCHANGED queue
               /\ UNCHANGED answers
    /\ UNCHANGED <<conn, started, cancelled, finished, readVars, writeFinished,
                   watching, finishes>>

\* The write side ends: the last operation failed, the stream is cancelled,
\* or the half-close went through.
WriteEnds(ok) == ~ok \/ cancelled \/ current \in closes

\* Mutants: the item is reset before it is put back; a failed item is dropped;
\* an item that went through is put back, too.
PutBackReset(ok) == IF ok THEN queue ELSE <<0>> \o queue
PutBackNothing(ok) == queue
PutBackAlways(ok) == <<current>> \o queue

\* The failed one waits at the head of the queue for OnFinished.
PutBack(ok) == IF ok THEN queue ELSE <<current>> \o queue

OnWriteDone(ok) ==
    /\ "write" \in ops
    /\ IF ok THEN Answered({current}) ELSE UNCHANGED answers
    /\ IF ~WriteEnds(ok) /\ queue # <<>>
       THEN /\ current' = Head(queue)
            /\ queue' = Tail(queue)
            /\ lastSent' = Head(queue)
            /\ FinishIf(FALSE, {"write"}, {"write"})
            /\ UNCHANGED <<writeActive, writeFinished>>
       ELSE /\ writeActive' = FALSE
            /\ writeFinished' = (WriteEnds(ok) \/ readFinished)
            /\ current' = 0
            /\ queue' = PutBack(ok)
            /\ FinishIf(readFinished, {"write"}, {})
            /\ UNCHANGED lastSent
    /\ UNCHANGED <<conn, started, cancelled, finished, readVars, halfClosed,
                   watching, calls, closes>>

AddFinishedCallback ==
    /\ conn = "ok"
    /\ ~Connected
    /\ watching' = ~finished
    /\ IF finished THEN Answered({Watcher}) ELSE UNCHANGED answers
    /\ UNCHANGED <<conn, started, cancelled, finished, readVars, writeVars, ops,
                   lastSent, finishes, calls, closes>>

OnFinished ==
    /\ "finish" \in ops
    /\ ops' = ops \ {"finish"}
    /\ finished' = TRUE
    /\ Answered(Range(queue) \cup (IF watching THEN {Watcher} ELSE {}))
    /\ queue' = <<>>
    /\ watching' = FALSE
    /\ IF conn = "pending"
       THEN conn' = "failed" /\ UNCHANGED <<readActive, reader>>
       ELSE readActive' = FALSE /\ reader' = "none" /\ UNCHANGED conn
    /\ UNCHANGED <<started, cancelled, readFinished, writeActive,
                   writeFinished, halfClosed, current, lastSent, finishes,
                   calls, closes>>

----------------------------------------------------------------------------
ClientStep ==
    \/ Read
    \/ Finish
    \/ \E close \in BOOLEAN : Write(close)
    \/ AddFinishedCallback

\* What gRPC completes.
Completion ==
    \/ \E ok \in BOOLEAN : OnConnected(ok) \/ OnReadDone(ok) \/ OnWriteDone(ok)
    \/ OnFinished

StreamNext ==
    \/ StartRefused
    \/ Start
    \/ CancelStream
    \/ ClientStep
    \/ Completion

StreamSpec == StreamInit /\ [][StreamNext]_streamVars

----------------------------------------------------------------------------
TypeOK ==
    /\ conn \in {"new", "pending", "ok", "failed"}
    /\ started \in BOOLEAN /\ cancelled \in BOOLEAN /\ finished \in BOOLEAN
    /\ readActive \in BOOLEAN /\ readFinished \in BOOLEAN
    /\ reader \in {"none", "read", "finish"}
    /\ writeActive \in BOOLEAN /\ writeFinished \in BOOLEAN
    /\ halfClosed \in BOOLEAN
    /\ current \in 0..MaxCalls
    /\ queue \in Seq(Items)
    /\ watching \in BOOLEAN
    /\ ops \subseteq {"connect", "read", "write", "finish"}
    /\ lastSent \in 0..MaxCalls
    /\ finishes \in Nat
    /\ calls \in 0..MaxCalls
    /\ closes \subseteq Items
    /\ answers \in [0..MaxCalls -> Nat]

\* No Y_ABORT_UNLESS of the completion handlers fails: a read completes only
\* while one is active and the read side is open, a write likewise, and the
\* stream that finishes before it connected has no read to answer.
NoAbort ==
    /\ "read" \in ops => readActive /\ ~readFinished
    /\ "write" \in ops => writeActive /\ ~writeFinished
    /\ "finish" \in ops /\ conn = "pending" => ~readActive

\* gRPC's rule for the stream: Finish is called once, and with no other
\* operation of the processor outstanding.
FinishIsLast ==
    /\ finishes <= 1
    /\ "finish" \in ops \/ finished => ops \subseteq {"finish"}

\* Every callback runs at most once, and on a finished stream every call has
\* had its answer: a write that failed, was queued, or came too late, too.
AnsweredOnce ==
    /\ \A c \in 0..MaxCalls : answers[c] <= 1
    /\ finished => /\ \A i \in 1..calls : answers[i] = 1
                   /\ ~watching

\* The requests reach gRPC in the order of the calls, each at most once, and
\* nothing follows a half-close.
WritesInOrder ==
    [][lastSent' # lastSent => /\ lastSent' > lastSent
                               /\ lastSent \notin closes]_streamVars

\* A cancelled stream finishes, and whoever waits for a read is answered.
CancelFinishes == cancelled ~> finished

----------------------------------------------------------------------------
\* Why they hold: how the processor's flags, its queue and what gRPC owes it
\* hang together.
Lifecycle ==
    /\ "connect" \in ops <=> conn = "pending" /\ ~started
    /\ conn = "ok" => started
    /\ ~started => ~readFinished /\ ~writeFinished
    /\ conn \in {"new", "failed"} => ops = {}
    /\ conn = "new" => ~started
    /\ conn = "pending" /\ started => readFinished /\ writeFinished /\ ~finished
    /\ conn # "ok" => /\ ~readActive /\ ~writeActive /\ ~watching
                     /\ calls = 0
                     /\ answers[Watcher] = 0

SidesAndOps ==
    /\ "read" \in ops <=> readActive /\ ~readFinished
    /\ "write" \in ops <=> writeActive
    /\ writeActive => ~writeFinished
    /\ readFinished /\ ~writeActive => writeFinished
    /\ "finish" \in ops <=> readFinished /\ writeFinished /\ ~finished
    /\ finished => readFinished /\ writeFinished /\ ~readActive
    /\ finishes = IF readFinished /\ writeFinished THEN 1 ELSE 0

QueueOrder ==
    /\ writeActive <=> current # 0
    /\ writeActive => current = lastSent
    /\ lastSent <= calls
    /\ closes \subseteq 1..calls
    /\ \A n \in 1..Len(queue) : queue[n] <= calls
    /\ \A m, n \in 1..Len(queue) : m < n => queue[m] < queue[n]
    /\ writeActive => \A n \in 1..Len(queue) : lastSent < queue[n]
    /\ queue # <<>> /\ ~writeActive => writeFinished
    /\ lastSent \in closes => halfClosed
    /\ \A n \in 1..Len(queue) : queue[n] \in closes =>
           halfClosed /\ n = Len(queue)
    /\ writeActive /\ lastSent \in closes => queue = <<>>

AnswersCount ==
    /\ \A i \in Items :
           answers[i] = IF i > calls \/ i = current \/ i \in Range(queue)
                        THEN 0 ELSE 1
    /\ finished => queue = <<>> /\ ~watching
    /\ answers[Watcher] <= 1
    /\ watching => answers[Watcher] = 0

StreamInv == Lifecycle /\ SidesAndOps /\ QueueOrder /\ AnswersCount

----------------------------------------------------------------------------
\* The stream as its user sees it.
Phase ==
    CASE conn = "new" -> "idle"
      [] conn = "failed" \/ finished -> "over"
      [] conn = "pending" -> "connecting"
      [] OTHER -> "open"

ItemStatus ==
    [i \in Items |-> IF answers[i] > 0 THEN "answered"
                     ELSE IF i <= calls THEN "held" ELSE "new"]

Call == INSTANCE StreamCall WITH
            phase <- Phase, reading <- readActive, status <- ItemStatus

\* The processor keeps StreamCall's promise.
CallSpec == Call!Spec
=============================================================================
