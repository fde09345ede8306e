--------------------------- MODULE RequestService ---------------------------
(***************************************************************************)
(* What the HTTP/2 network promises those who hand it requests: a request  *)
(* is accepted or refused; an accepted one completes exactly once, or is   *)
(* dropped, which only happens when the service ends.                      *)
(***************************************************************************)
CONSTANTS Reqs

VARIABLES on,       \* the service has not been asked to end
          status    \* of every request

vars == <<on, status>>

Init == on = TRUE /\ status = [r \in Reqs |-> "idle"]

Accept(r) ==
    /\ status[r] = "idle"
    /\ status' = [status EXCEPT ![r] = "pending"] /\ UNCHANGED on

Refuse(r) ==
    /\ status[r] = "idle"
    /\ status' = [status EXCEPT ![r] = "refused"] /\ UNCHANGED on

Complete(r) ==
    /\ status[r] = "pending"
    /\ status' = [status EXCEPT ![r] = "done"] /\ UNCHANGED on

End == on /\ on' = FALSE /\ UNCHANGED status

\* Any number of pending requests is dropped at once.
Drop ==
    /\ ~on
    /\ \E S \in SUBSET {r \in Reqs : status[r] = "pending"} :
          status' = [r \in Reqs |-> IF r \in S THEN "dropped" ELSE status[r]]
    /\ UNCHANGED on

Next == End \/ Drop \/ \E r \in Reqs : Accept(r) \/ Refuse(r) \/ Complete(r)

\* No accepted request is forgotten.
Settled == \A r \in Reqs : status[r] = "pending" ~> status[r] \in {"done", "dropped"}

Spec == Init /\ [][Next]_vars /\ Settled

============================================================================
