------------------------------- MODULE Collect -------------------------------
(***************************************************************************)
(* The promise poll() takes from source.collect (main.go:117-124), for one *)
(* source: what it answers describes the upstream at some instant between  *)
(* the call and the return, or it is an error.  FindingsExporter builds on *)
(* this promise; the source modules are checked against it.                *)
(***************************************************************************)
EXTENDS Integers

CONSTANT MaxTruth

VARIABLES
    truth,      \* the instant of the upstream's latest change, 0: never
    asking,     \* a collect is under way
    asked,      \* truth when it was called
    answer,     \* the instant the latest answer describes, 0: none yet
    outcome     \* how the latest collect ended: "none", "ok" or "err"

collectVars == <<truth, asking, asked, answer, outcome>>

Init == truth = 0 /\ ~asking /\ asked = 0 /\ answer = 0 /\ outcome = "none"

Change ==
    /\ \E t \in 1 .. MaxTruth : t > truth /\ truth' = t
    /\ UNCHANGED <<asking, asked, answer, outcome>>

Ask ==
    /\ ~asking
    /\ asking' = TRUE
    /\ asked' = truth
    /\ outcome' = "none"
    /\ UNCHANGED <<truth, answer>>

Answer ==
    /\ asking
    /\ \E v \in 1 .. MaxTruth : asked <= v /\ v <= truth /\ answer' = v
    /\ asking' = FALSE
    /\ outcome' = "ok"
    /\ UNCHANGED <<truth, asked>>

Fail ==
    /\ asking
    /\ asking' = FALSE
    /\ outcome' = "err"
    /\ UNCHANGED <<truth, asked, answer>>

Next == Change \/ Ask \/ Answer \/ Fail

Spec == Init /\ [][Next]_collectVars
=============================================================================
