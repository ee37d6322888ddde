--------------------------- MODULE OperationContract ---------------------------
(***************************************************************************)
(* What ClientOperation promises its caller, with no threads, no C library *)
(* and no flush containers: each Activate, SendStreamMessage and Close is  *)
(* answered at most once; one activation opens the stream, while it is     *)
(* still waiting for its answer; its result is reported once, before the   *)
(* operation is freed; and a stream that is open is not freed.  Answers    *)
(* and results are counted: a second one is no step of this contract.      *)
(***************************************************************************)
EXTENDS Naturals

CONSTANT Ops    \* the calls of the application

VARIABLES
    stream,         \* fresh, open, or over: closed or given up unopened
    calls,          \* the calls made
    answers,        \* how often the future of each was completed
    activations,    \* the calls that opened the stream
    results,        \* how often the result callback of each was called
    freed

vars == <<stream, calls, answers, activations, results, freed>>

Init ==
    /\ stream \in {"fresh", "over"}
    /\ calls = {} /\ activations = {}
    /\ answers = [o \in Ops |-> 0]
    /\ results = [o \in Ops |-> 0]
    /\ freed = FALSE

Call(o) ==
    /\ ~freed
    /\ o \notin calls
    /\ calls' = calls \cup {o}
    /\ UNCHANGED <<stream, answers, activations, results, freed>>

(* The service has the activation.  One already answered opens nothing.    *)
Open(o) ==
    /\ stream = "fresh"
    /\ o \in calls \ activations /\ answers[o] = 0
    /\ stream' = "open"
    /\ activations' = activations \cup {o}
    /\ UNCHANGED <<calls, answers, results, freed>>

End ==
    /\ stream # "over"
    /\ stream' = "over"
    /\ UNCHANGED <<calls, answers, activations, results, freed>>

Answer(o) ==
    /\ o \in calls /\ answers[o] = 0
    /\ answers' = [answers EXCEPT ![o] = @ + 1]
    /\ UNCHANGED <<stream, calls, activations, results, freed>>

Report(o) ==
    /\ o \in activations /\ results[o] = 0
    /\ results' = [results EXCEPT ![o] = @ + 1]
    /\ UNCHANGED <<stream, calls, answers, activations, freed>>

Free ==
    /\ ~freed
    /\ stream = "over"
    /\ \A o \in activations : results[o] = 1
    /\ freed' = TRUE
    /\ UNCHANGED <<stream, calls, answers, activations, results>>

Next ==
    \/ \E o \in Ops : Call(o) \/ Open(o) \/ Answer(o) \/ Report(o)
    \/ End \/ Free

Spec == Init /\ [][Next]_vars
=============================================================================
