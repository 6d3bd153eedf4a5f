----------------------------- MODULE StreamCall -----------------------------
(***************************************************************************)
(* What a bidirectional stream promises the code that uses it, whatever    *)
(* gRPC does: it connects or ends; a read that was asked for is answered;  *)
(* a write that was submitted is answered once; and when the stream ends,  *)
(* nothing is left unanswered and nothing is kept any more.                *)
(* StreamProcessor implements it.                                          *)
(***************************************************************************)
CONSTANTS
    Items          \* calls of Write and WritesDone

VARIABLES
    phase,         \* "idle", "connecting", "open" or "over"
    reading,       \* is a Read or a Finish unanswered?
    status         \* of each item: "new", "held" or "answered"

callVars == <<phase, reading, status>>

----------------------------------------------------------------------------
Init ==
    /\ phase = "idle"
    /\ reading = FALSE
    /\ status = [i \in Items |-> "new"]

Dial ==
    /\ phase = "idle"
    /\ phase' \in {"connecting", "over"}
    /\ UNCHANGED <<reading, status>>

Open ==
    /\ phase = "connecting"
    /\ phase' = "open"
    /\ UNCHANGED <<reading, status>>

\* A stream that is over answers on the spot, which is no step.
Ask ==
    /\ phase = "open"
    /\ ~reading
    /\ reading' = TRUE
    /\ UNCHANGED <<phase, status>>

Reply ==
    /\ phase = "open"
    /\ reading
    /\ reading' = FALSE
    /\ UNCHANGED <<phase, status>>

\* Only an open stream keeps an item; it may also refuse it at once.
Submit(i) ==
    /\ phase \in {"open", "over"}
    /\ status[i] = "new"
    /\ \E s \in IF phase = "open" THEN {"held", "answered"} ELSE {"answered"} :
           status' = [status EXCEPT ![i] = s]
    /\ UNCHANGED <<phase, reading>>

Answer(i) ==
    /\ phase = "open"
    /\ status[i] = "held"
    /\ status' = [status EXCEPT ![i] = "answered"]
    /\ UNCHANGED <<phase, reading>>

End ==
    /\ phase \in {"connecting", "open"}
    /\ phase' = "over"
    /\ reading' = FALSE
    /\ status' = [i \in Items |->
                      IF status[i] = "held" THEN "answered" ELSE status[i]]

Next ==
    \/ Dial
    \/ Open
    \/ Ask
    \/ Reply
    \/ \E i \in Items : Submit(i) \/ Answer(i)
    \/ End

Spec == Init /\ [][Next]_callVars
=============================================================================
