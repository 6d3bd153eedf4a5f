----------------------------- MODULE GrpcStream -----------------------------
(***************************************************************************)
(* A stream and the client it runs on: StreamProcessor composed with the   *)
(* contexts of GrpcContexts.  Start makes a context for the stream and     *)
(* subscribes Cancel to it; OnFinished lets it go.  Stopping the client    *)
(* must cancel the stream through its context, and the completion queue    *)
(* must outlive the stream's last operation.                               *)
(***************************************************************************)
EXTENDS GrpcContexts, StreamProcessor

CONSTANTS
    StreamSub      \* the stream's SubscribeStop

ASSUME StreamSubscribes == StreamSub \in Subscriptions

VARIABLES
    streamCtx,     \* the context made for the stream, or the client (none yet)
    starting       \* Start: "no", or about to "subscribe" or "return"

vars == <<contextVars, streamVars, streamCtx, starting>>

----------------------------------------------------------------------------
Init ==
    /\ ContextInit
    /\ StreamInit
    /\ streamCtx = Client
    /\ starting = "no"

StartStream(p, c) ==
    /\ Start
    /\ CreateContext(p, c)
    /\ streamCtx' = c
    /\ starting' = "subscribe"

\* The provider is the client, and gives no context.
StartStreamRefused ==
    /\ ~MayCreate(Client)
    /\ StartRefused
    /\ UNCHANGED <<contextVars, streamCtx, starting>>

SubscribeStream ==
    /\ starting = "subscribe"
    /\ SubscribeCancel(StreamSub, streamCtx)
    /\ starting' = "return"
    /\ UNCHANGED <<streamVars, streamCtx>>

\* Mutant: LocalContext does not keep the context.
StartLetsGo ==
    /\ starting = "return"
    /\ starting' = "no"
    /\ Release(streamCtx)
    /\ UNCHANGED <<streamVars, streamCtx>>

\* Start's own pointer goes; LocalContext may be gone already.
StartReturns ==
    /\ starting = "return"
    /\ starting' = "no"
    /\ IF finished THEN Release(streamCtx) ELSE UNCHANGED contextVars
    /\ UNCHANGED <<streamVars, streamCtx>>

\* The stream's callback runs: self->Cancel().
ContextCancelsStream ==
    /\ RunCallback(StreamSub)
    /\ IF conn = "failed" THEN UNCHANGED streamVars ELSE CancelStream
    /\ UNCHANGED <<streamCtx, starting>>

StreamFinishes ==
    /\ OnFinished
    /\ IF starting = "no" THEN Release(streamCtx) ELSE UNCHANGED contextVars
    /\ UNCHANGED <<streamCtx, starting>>

\* The rest of the stream has nothing to do with contexts...
StreamStep ==
    /\ \/ CancelStream
       \/ ClientStep
       \/ \E ok \in BOOLEAN :
              OnConnected(ok) \/ OnReadDone(ok) \/ OnWriteDone(ok)
    /\ UNCHANGED <<contextVars, streamCtx, starting>>

\* ... and the rest of the driver has nothing to do with the stream.  (The
\* other subscriptions to a context behave as the stream's does.)
UserStep(c) ==
    /\ c # streamCtx
    /\ \/ \E p \in (Contexts \ {streamCtx}) \cup {Client} : CreateContext(p, c)
       \/ Release(c)
       \/ CancelContext(c)

ContextStep ==
    /\ \/ \E c \in Contexts : UserStep(c)
       \/ \E silent \in BOOLEAN : StopInternal(silent)
       \/ ContextRuns
    /\ UNCHANGED <<streamVars, streamCtx, starting>>

Next ==
    \/ \E p \in Contexts \cup {Client}, c \in Contexts : StartStream(p, c)
    \/ StartStreamRefused
    \/ SubscribeStream
    \/ StartReturns
    \/ ContextCancelsStream
    \/ StreamFinishes
    \/ StreamStep
    \/ ContextStep

\* gRPC completes every operation of a cancelled call.
CancelledCompletes ==
    /\ cancelled
    /\ \E ok \in BOOLEAN : OnConnected(ok) \/ OnReadDone(ok) \/ OnWriteDone(ok)
    /\ UNCHANGED <<contextVars, streamCtx, starting>>

\* Threads run on, and users let go of what was cancelled.
Fairness ==
    /\ WF_vars(SubscribeStream \/ StartReturns)
    /\ WF_vars(ContextCancelsStream)
    /\ WF_vars(CancelledCompletes)
    /\ WF_vars(StreamFinishes)
    /\ WF_vars(ContextRuns /\ UNCHANGED <<streamVars, streamCtx, starting>>)
    /\ \A c \in Contexts :
           WF_vars(/\ c # streamCtx /\ flag[c] /\ Release(c)
                   /\ UNCHANGED <<streamVars, streamCtx, starting>>)

Spec == Init /\ [][Next]_vars

FairSpec == Spec /\ Fairness

----------------------------------------------------------------------------
\* An operation gRPC still owes the stream has its completion queue and its
\* context: OnFinished, the last completion, lets go of the context, and the
\* queue is shut down when no context is left.
QueueOutlivesStream ==
    /\ ContextTypeOK /\ ShutdownIsLast
    /\ ops # {} => /\ ~shutdown
                   /\ Alive(streamCtx)
                   /\ held[streamCtx]

\* A cancelled stream finishes, and Stop brings the client down: the streams
\* and contexts under it are cancelled, they let go, and the completion queue
\* is shut down.
StopShutsDown ==
    /\ CancelFinishes
    /\ (state = "STOP_EXPLICIT") ~> shutdown
=============================================================================
