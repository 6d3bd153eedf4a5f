------------------------------ MODULE WriteLog ------------------------------
(***************************************************************************)
(* What a topic write session promises the user, whatever happens to its   *)
(* connections: accepted messages reach the log once and in order, an      *)
(* acknowledgement comes after its message is stored and is never taken    *)
(* back, a flush succeeds only when everything accepted before it was      *)
(* acknowledged, and Close returns true only when everything accepted      *)
(* before it was.  WriteSession implements it.                             *)
(***************************************************************************)
EXTENDS Naturals

VARIABLES
    accepted,      \* messages taken from the user
    stored,        \* messages in the log
    acked,         \* messages the user was told of
    flush,         \* the user's Flush: what it must cover, and its result
    close          \* the user's Close: what it must cover, and its verdict

logVars == <<accepted, stored, acked, flush, close>>

----------------------------------------------------------------------------
Init ==
    /\ accepted = 0 /\ stored = 0 /\ acked = 0
    /\ flush = [asked |-> 0, done |-> "none"]
    /\ close = [asked |-> 0, verdict |-> "no"]

Accept ==
    /\ accepted' = accepted + 1
    /\ UNCHANGED <<stored, acked, flush, close>>

Store ==
    /\ \E n \in 1 .. accepted - stored : stored' = stored + n
    /\ UNCHANGED <<accepted, acked, flush, close>>

Flushed(result) == [asked |-> 0, done |-> result]

\* A pending flush succeeds with the last acknowledgement it waits for.
Acknowledge ==
    /\ \E n \in 1 .. stored - acked : acked' = acked + n
    /\ flush' = IF flush.done = "pending" /\ acked' >= flush.asked
                THEN Flushed("true") ELSE flush
    /\ UNCHANGED <<accepted, stored, close>>

AskFlush ==
    /\ flush.done = "none"
    /\ flush' \in {[asked |-> accepted, done |-> "pending"], Flushed("false")}
                  \cup IF acked = accepted THEN {Flushed("true")} ELSE {}
    /\ UNCHANGED <<accepted, stored, acked, close>>

GiveUp == flush' = IF flush.done = "pending" THEN Flushed("false") ELSE flush

\* The session ends by itself.
End ==
    /\ GiveUp
    /\ UNCHANGED <<accepted, stored, acked, close>>

Closed(result) == [asked |-> 0, verdict |-> result]

AskClose ==
    /\ close.verdict = "no"
    /\ close' \in {[asked |-> accepted, verdict |-> "waiting"], Closed("false")}
    /\ UNCHANGED <<accepted, stored, acked, flush>>

Close ==
    /\ close.verdict = "waiting"
    /\ \E v \in {"false"} \cup IF acked >= close.asked THEN {"true"} ELSE {} :
         close' = Closed(v)
    /\ GiveUp
    /\ UNCHANGED <<accepted, stored, acked>>

Next == Accept \/ Store \/ Acknowledge \/ AskFlush \/ End \/ AskClose \/ Close

Spec == Init /\ [][Next]_logVars
=============================================================================
