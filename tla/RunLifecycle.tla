----------------------------- MODULE RunLifecycle -----------------------------
(***************************************************************************)
(* What the analysis-job service promises of each run, whatever rows,      *)
(* leases, clocks and ORM sessions it keeps the promise with: a run waits, *)
(* is held by one worker at a time and at most as often as was allowed     *)
(* when it was submitted, and ends once, with one outcome.  Only a run     *)
(* somebody asked to cancel is cancelled; a held run is given up, and      *)
(* waits again, or is exhausted when it may not be held once more.         *)
(***************************************************************************)
EXTENDS Naturals

CONSTANTS Runs, Workers, NoWorker

VARIABLES
    stage,    \* "absent", "waiting", "held" or "over"
    claims,   \* how often the run may still be taken
    holder,   \* the worker it is held by
    asked,    \* somebody asked to cancel it
    outcome   \* how it ended, "none" before

vars == <<stage, claims, holder, asked, outcome>>

End(r, how) ==
    /\ stage' = [stage EXCEPT ![r] = "over"]
    /\ holder' = [holder EXCEPT ![r] = NoWorker]
    /\ outcome' = [outcome EXCEPT ![r] = how]

Submit(r) ==
    /\ stage[r] = "absent"
    /\ stage' = [stage EXCEPT ![r] = "waiting"]
    /\ claims'[r] \in Nat \ {0}
    /\ claims' = [claims EXCEPT ![r] = claims'[r]]
    /\ UNCHANGED <<holder, asked, outcome>>

Take(r) ==
    /\ stage[r] = "waiting"
    /\ claims[r] > 0
    /\ stage' = [stage EXCEPT ![r] = "held"]
    /\ claims' = [claims EXCEPT ![r] = @ - 1]
    /\ \E w \in Workers : holder' = [holder EXCEPT ![r] = w]
    /\ UNCHANGED <<asked, outcome>>

Finish(r) ==
    /\ stage[r] = "held"
    /\ \E how \in {"COMPLETE", "PARTIAL", "FAILED"} : End(r, how)
    /\ UNCHANGED <<claims, asked>>

Acknowledge(r) ==
    /\ stage[r] = "held"
    /\ asked[r]
    /\ End(r, "CANCELLED")
    /\ UNCHANGED <<claims, asked>>

\* Several runs may be given up at once.
GiveUp(given) ==
    LET spent == {r \in given : claims[r] = 0} IN
    /\ \A r \in given : stage[r] = "held"
    /\ stage' = [r \in Runs |-> IF r \in spent THEN "over"
                                ELSE IF r \in given THEN "waiting" ELSE stage[r]]
    /\ holder' = [r \in Runs |-> IF r \in given THEN NoWorker ELSE holder[r]]
    /\ outcome' = [r \in Runs |-> IF r \in spent THEN "EXHAUSTED" ELSE outcome[r]]
    /\ UNCHANGED <<claims, asked>>

CancelWaiting(r) ==
    /\ stage[r] = "waiting"
    /\ asked' = [asked EXCEPT ![r] = TRUE]
    /\ End(r, "CANCELLED")
    /\ UNCHANGED claims

AskToCancel(r) ==
    /\ stage[r] = "held"
    /\ asked' = [asked EXCEPT ![r] = TRUE]
    /\ UNCHANGED <<stage, claims, holder, outcome>>

Init ==
    /\ stage = [r \in Runs |-> "absent"]
    /\ claims = [r \in Runs |-> 0]
    /\ holder = [r \in Runs |-> NoWorker]
    /\ asked = [r \in Runs |-> FALSE]
    /\ outcome = [r \in Runs |-> "none"]

Next ==
    \/ \E r \in Runs :
        \/ Submit(r) \/ Take(r) \/ Finish(r) \/ Acknowledge(r)
        \/ CancelWaiting(r) \/ AskToCancel(r)
    \/ \E given \in SUBSET Runs : GiveUp(given)

Spec == Init /\ [][Next]_vars
===============================================================================
