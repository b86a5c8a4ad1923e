---------------------------- MODULE JobsLifecycle ----------------------------
(***************************************************************************)
(* AnalysisJobs implements RunLifecycle: what each row, through its        *)
(* columns, says of its run.                                               *)
(***************************************************************************)
EXTENDS AnalysisJobs

StageOf(r) ==
    CASE status[r] = "ABSENT" -> "absent"
      [] status[r] \in {"PENDING", "QUEUED"} -> "waiting"
      [] status[r] = "RUNNING" -> "held"
      [] OTHER -> "over"

\* error_code tells the run that failed in a worker from the one given up.
OutcomeOf(r) ==
    CASE status[r] \notin Terminal -> "none"
      [] status[r] = "FAILED" /\ errorCode[r] = "MAX_ATTEMPTS_EXCEEDED" -> "EXHAUSTED"
      [] OTHER -> status[r]

Stage == [r \in Runs |-> StageOf(r)]
Claims == [r \in Runs |-> request[r].limit - attempt[r]]
Ending == [r \in Runs |-> OutcomeOf(r)]

Lifecycle == INSTANCE RunLifecycle WITH
    stage <- Stage, claims <- Claims, holder <- leaseOwner,
    asked <- cancelRequested, outcome <- Ending

\* Every transaction of the service, by whichever caller or worker and over however
\* stale a read, moves each run as the life cycle allows or not at all: it is taken
\* at most max_attempts times, ends once, and nothing changes it afterwards.
LifecycleRefined == Lifecycle!Spec
===============================================================================
