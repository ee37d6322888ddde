-------------------------- MODULE ConnectionContract --------------------------
(***************************************************************************)
(* What ClientConnection promises a caller of Connect, with no threads, no *)
(* C library and no callback contexts: attempts are served one at a time,  *)
(* each Connect future gets one value, and the value says success only of  *)
(* an attempt the server accepted.                                         *)
(***************************************************************************)
CONSTANT Attempts

VARIABLES
    phase,  \* none, connecting, open, or over: failed before, closed after open
    result  \* what the future of an attempt says

vars == <<phase, result>>

Init ==
    /\ phase = [k \in Attempts |-> "none"]
    /\ result = [k \in Attempts |-> "none"]

Live == {k \in Attempts : phase[k] \in {"connecting", "open"}}

(* Connect is answered at once.                                            *)
Refuse(k) ==
    /\ phase[k] = "none"
    /\ phase' = [phase EXCEPT ![k] = "failed"]
    /\ result' = [result EXCEPT ![k] = "failure"]

Begin(k) ==
    /\ phase[k] = "none"
    /\ Live = {}
    /\ phase' = [phase EXCEPT ![k] = "connecting"]
    /\ result' = [result EXCEPT ![k] = "pending"]

(* The server accepts.  An attempt already reported as failed never opens. *)
Establish(k) ==
    /\ phase[k] = "connecting"
    /\ result[k] = "pending"
    /\ phase' = [phase EXCEPT ![k] = "open"]
    /\ UNCHANGED result

Finish(k) ==
    /\ k \in Live
    /\ phase' = [phase EXCEPT ![k] = IF @ = "open" THEN "closed" ELSE "failed"]
    /\ UNCHANGED result

Resolve(k) ==
    /\ result[k] = "pending"
    /\ result' = [result EXCEPT ![k] =
                    IF phase[k] \in {"open", "closed"} THEN "success" ELSE "failure"]
    /\ UNCHANGED phase

Next == \E k \in Attempts :
            Refuse(k) \/ Begin(k) \/ Establish(k) \/ Finish(k) \/ Resolve(k)

Spec == Init /\ [][Next]_vars
=============================================================================
