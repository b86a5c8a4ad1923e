------------------------- MODULE JobsLifecycle_proofs -------------------------
(***************************************************************************)
(* AnalysisJobs implements RunLifecycle.  The mapping needs the invariant  *)
(* of AnalysisJobs_proofs, for the guards of a worker that looks at a row  *)
(* it loaded earlier, and one more fact: a cancellation such a worker sees *)
(* is still asked for.                                                     *)
(***************************************************************************)
EXTENDS AnalysisJobs_proofs, JobsLifecycle

SeesCancel(w) ==
    client[w].stale /\ loaded[w].cancel => cancelRequested[client[w].run]
CancelsSeen == \A w \in Workers : SeesCancel(w)

LEMMA CancelsInit == NoRuns => CancelsSeen
  BY DEF NoRuns, CancelsSeen, SeesCancel, IdleClient

\* cancel_requested_at is never cleared, and a claim copies it.
LEMMA CancelsNext == JobsInv /\ CancelsSeen /\ [Next]_vars => CancelsSeen'
  <1> SUFFICES ASSUME JobsInv, CancelsSeen, [Next]_vars, NEW w \in Workers
               PROVE  SeesCancel(w)'
    BY DEF CancelsSeen
  <1>0. TypeOK /\ SeesCancel(w) /\ Follows(w) /\ HeldRuns
    BY DEF JobsInv, CancelsSeen, LoadedFollows
  <1>a. client[w].stale => client[w].run \in Runs
    BY <1>0 DEF Follows, HeldRuns
  <1>same. UNCHANGED <<cancelRequested, client, loaded>> => SeesCancel(w)'
    BY <1>0 DEF SeesCancel
  <1>fresh. ASSUME NEW v \in Workers, UNCHANGED cancelRequested,
                   \/ client' = [client EXCEPT ![v] = IdleClient]
                   \/ client' = [client EXCEPT ![v].stale = FALSE],
                   loaded' = [loaded EXCEPT ![v] = NoRow] \/ loaded' = loaded
            PROVE  SeesCancel(w)'
    <2>1. CASE v = w
      BY <1>0, <1>fresh, <2>1 DEF SeesCancel, IdleClient, TypeOK, Client
    <2>2. CASE v # w
      BY <1>0, <1>fresh, <2>2 DEF SeesCancel, TypeOK
    <2> QED
      BY <2>1, <2>2
  <1>1. ASSUME NEW c \in Callers, NEW q \in Request, BeginCreate(c, q) PROVE SeesCancel(w)'
    BY <1>1, <1>same DEF BeginCreate, clientVars
  <1>2. ASSUME NEW c \in Callers, CheckCreate(c) PROVE SeesCancel(w)'
    BY <1>2, <1>same DEF CheckCreate, clientVars
  <1>3. ASSUME NEW c \in Callers, NEW r \in Runs, InsertRun(c, r) PROVE SeesCancel(w)'
    BY <1>3, <1>same DEF InsertRun, clientVars
  <1>4. ASSUME NEW c \in Callers, InsertConflict(c) \/ ResolveConflict(c) PROVE SeesCancel(w)'
    BY <1>4, <1>same DEF InsertConflict, ResolveConflict, clientVars
  <1>5. ASSUME NEW v \in Workers, NEW taken \in SUBSET Expired, Reclaim(v, taken)
        PROVE  SeesCancel(w)'
    <2>1. /\ client'[w].stale = client[w].stale /\ client'[w].run = client[w].run
          /\ UNCHANGED <<cancelRequested, loaded>>
      BY <1>0, <1>5 DEF Reclaim, TypeOK, Client
    <2> QED
      BY <1>0, <2>1 DEF SeesCancel
  <1>6. ASSUME NEW v \in Workers, NoJob(v) \/ Refresh(v) \/ Drop(v) PROVE SeesCancel(w)'
    BY <1>6, <1>fresh DEF NoJob, Refresh, Drop
  <1>6a. ASSUME NEW v \in Workers, Reload(v) PROVE SeesCancel(w)'
    <2>1. CASE v = w
      BY <1>0, <1>6a, <2>1 DEF Reload, SeesCancel, Seen, RowOf, TypeOK, Client
    <2>2. CASE v # w
      BY <1>0, <1>6a, <2>2 DEF Reload, SeesCancel, TypeOK
    <2> QED
      BY <2>1, <2>2
  <1>7. ASSUME NEW v \in Workers, NEW r \in Runs, Claim(v, r) PROVE SeesCancel(w)'
    <2>1. CASE v = w
      BY <1>0, <1>7, <2>1 DEF Claim, SeesCancel, TypeOK
    <2>2. CASE v # w
      BY <1>0, <1>7, <2>2 DEF Claim, SeesCancel, TypeOK
    <2> QED
      BY <2>1, <2>2
  <1>8. ASSUME NEW v \in Workers, NEW r \in Runs, Heartbeat(v, r, leaseToken[r])
        PROVE  SeesCancel(w)'
    BY <1>8, <1>same DEF Heartbeat, clientVars
  <1>9. ASSUME NEW v \in Workers, NEW r, NEW how, EndRun(v, r, how) PROVE SeesCancel(w)'
    BY <1>9, <1>fresh DEF EndRun
  <1>10. ASSUME NEW r \in Runs, CancelQueued(r) \/ CancelRunning(r) PROVE SeesCancel(w)'
    BY <1>0, <1>a, <1>10 DEF CancelQueued, CancelRunning, SeesCancel, TypeOK, clientVars
  <1>11. CASE Tick
    <2>1. UNCHANGED <<cancelRequested, client>> /\ loaded'[w].cancel = loaded[w].cancel
      BY <1>0, <1>11 DEF Tick, TypeOK, Row
    <2> QED
      BY <1>0, <2>1 DEF SeesCancel
  <1>12. CASE UNCHANGED vars
    BY <1>12, <1>same DEF vars, clientVars
  <1>13. \A v \in Workers : \A target \in {"COMPLETE", "PARTIAL"} :
            Finalize(v, target) => SeesCancel(w)'
    BY <1>9 DEF Finalize
  <1>14. \A v \in Workers : Fail(v) \/ Acknowledge(v) => SeesCancel(w)'
    BY <1>9 DEF Fail, Acknowledge
  <1> QED
    BY StepCases, <1>1, <1>2, <1>3, <1>4, <1>5, <1>6, <1>6a, <1>7, <1>8, <1>10, <1>11, <1>12,
       <1>13, <1>14

-----------------------------------------------------------------------------
(* Every step of the service is a step of the life cycle, or none.         *)

\* The columns the mapping reads.
lifeVars == <<status, request, attempt, leaseOwner, cancelRequested, errorCode>>

LEMMA Unmoved == UNCHANGED lifeVars => UNCHANGED Lifecycle!vars
  BY DEF lifeVars, Lifecycle!vars, Stage, Claims, Ending, StageOf, OutcomeOf

\* A step that writes the status and the error of one row only.
LEMMA OneRow ==
    ASSUME NEW x \in Runs,
           \A r \in Runs \ {x} : status'[r] = status[r] /\ errorCode'[r] = errorCode[r]
    PROVE  /\ Stage' = [Stage EXCEPT ![x] = StageOf(x)']
           /\ Ending' = [Ending EXCEPT ![x] = OutcomeOf(x)']
  <1>1. \A r \in Runs \ {x} : StageOf(r)' = StageOf(r) /\ OutcomeOf(r)' = OutcomeOf(r)
    BY DEF StageOf, OutcomeOf
  <1> QED
    BY <1>1 DEF Stage, Ending

LEMMA SubmitStep ==
    ASSUME JobsInv, NEW c \in Callers, NEW r \in Runs, InsertRun(c, r)
    PROVE  Lifecycle!Submit(r)
  <1>0. TypeOK /\ RowShape /\ PostedRequests
    BY DEF JobsInv
  <1>1. call[c].req \in Request
    BY <1>0 DEF InsertRun, PostedRequests
  <1>2. /\ Stage[r] = "absent"
        /\ StageOf(r)' = "waiting" /\ OutcomeOf(r)' = OutcomeOf(r)
        /\ \A x \in Runs \ {r} : status'[x] = status[x] /\ errorCode'[x] = errorCode[x]
    BY <1>0 DEF InsertRun, TypeOK, Stage, StageOf, OutcomeOf, Terminal
  <1>3. Stage' = [Stage EXCEPT ![r] = "waiting"] /\ Ending' = Ending
    BY <1>2, OneRow DEF Ending
  <1>4. Claims' = [Claims EXCEPT ![r] = call[c].req.limit]
    <2>1. attempt[r] = 0 /\ call[c].req.limit \in Nat
      BY <1>0, <1>1, JobsAssumption DEF InsertRun, RowShape, Request
    <2>2. request'[r].limit - attempt'[r] = call[c].req.limit
      BY <1>0, <2>1 DEF InsertRun, TypeOK
    <2>3. \A x \in Runs \ {r} : request'[x] = request[x] /\ attempt'[x] = attempt[x]
      BY <1>0 DEF InsertRun, TypeOK
    <2> QED
      BY <2>2, <2>3 DEF Claims
  <1>5. call[c].req.limit \in Nat \ {0}
    BY <1>1, JobsAssumption DEF Request
  <1> QED
    BY <1>2, <1>3, <1>4, <1>5 DEF Lifecycle!Submit, InsertRun, leaseVars, Claims

LEMMA TakeStep ==
    ASSUME JobsInv, NEW w \in Workers, NEW r \in Runs, Claim(w, r)
    PROVE  Lifecycle!Take(r)
  <1>0. TypeOK /\ RowShape
    BY DEF JobsInv
  <1>1. attempt[r] \in Nat /\ request[r].limit \in Nat
    BY <1>0, JobsAssumption DEF Claim, TypeOK, RowShape, Request
  <1>2. /\ Stage[r] = "waiting"
        /\ StageOf(r)' = "held" /\ OutcomeOf(r)' = OutcomeOf(r)
        /\ \A x \in Runs \ {r} : status'[x] = status[x] /\ errorCode'[x] = errorCode[x]
    BY <1>0 DEF Claim, TypeOK, Stage, StageOf, OutcomeOf, Terminal
  <1>3. Stage' = [Stage EXCEPT ![r] = "held"] /\ Ending' = Ending
    BY <1>2, OneRow DEF Ending
  <1>4. Claims[r] > 0 /\ Claims' = [Claims EXCEPT ![r] = @ - 1]
    <2>1. Claims[r] = request[r].limit - attempt[r] /\ attempt[r] + 1 <= request[r].limit
      BY DEF Claims, Claim, NextAttempt
    <2>2. request'[r].limit - attempt'[r] = request[r].limit - (attempt[r] + 1)
      BY <1>0 DEF Claim, NextAttempt, TypeOK
    <2>3. \A x \in Runs \ {r} : request'[x] = request[x] /\ attempt'[x] = attempt[x]
      BY <1>0 DEF Claim, TypeOK
    <2>4. Claims[r] > 0 /\ request'[r].limit - attempt'[r] = Claims[r] - 1
      BY <1>1, <2>1, <2>2
    <2> QED
      BY <2>3, <2>4 DEF Claims
  <1> QED
    BY <1>2, <1>3, <1>4 DEF Lifecycle!Take, Claim

\* A worker's own transition: the row it ends is held, and it is the only one.
LEMMA EndStep ==
    ASSUME JobsInv, NEW w \in Workers, client[w].pc = "held",
           LeaseHeld(Seen(w), w, client[w].token),
           NEW how \in {"COMPLETE", "PARTIAL", "FAILED", "CANCELLED"},
           NEW r, r = client[w].run, EndRun(w, r, how),
           errorCode' = errorCode \/ errorCode' = [errorCode EXCEPT ![r] = "WORKER_FAILED"],
           how = "FAILED" => errorCode'[r] = "WORKER_FAILED"
    PROVE  /\ r \in Runs
           /\ Stage[r] = "held"
           /\ Lifecycle!End(r, how)
           /\ UNCHANGED Claims
  <1>0. TypeOK
    BY DEF JobsInv
  <1>1. r \in Runs /\ status[r] = "RUNNING"
    BY SeenIsCurrent
  <1>2. /\ status' = [status EXCEPT ![r] = how] /\ ClearLease({r})
        /\ UNCHANGED <<request, attempt>>
    BY DEF EndRun
  <1>3. Stage[r] = "held" /\ StageOf(r)' = "over" /\ OutcomeOf(r)' = how
    <2>1. status'[r] = how
      BY <1>0, <1>1, <1>2 DEF TypeOK
    <2> QED
      BY <1>1, <2>1 DEF Stage, StageOf, OutcomeOf, Terminal
  <1>4. \A x \in Runs \ {r} : status'[x] = status[x] /\ errorCode'[x] = errorCode[x]
    BY <1>0, <1>1, <1>2 DEF TypeOK
  <1>5. /\ Stage' = [Stage EXCEPT ![r] = "over"]
        /\ Ending' = [Ending EXCEPT ![r] = how]
    BY <1>1, <1>3, <1>4, OneRow
  <1>6. leaseOwner' = [leaseOwner EXCEPT ![r] = NoWorker]
    BY <1>0, <1>1, <1>2 DEF ClearLease, TypeOK
  <1>7. UNCHANGED Claims
    BY <1>2 DEF Claims
  <1> QED
    BY <1>1, <1>3, <1>5, <1>6, <1>7 DEF Lifecycle!End

LEMMA FinishStep ==
    ASSUME JobsInv, NEW w \in Workers,
           Fail(w) \/ \E target \in {"COMPLETE", "PARTIAL"} : Finalize(w, target)
    PROVE  \E r \in Runs : Lifecycle!Finish(r)
  <1>0. TypeOK /\ HeldRuns
    BY DEF JobsInv
  <1>r. PICK r : r = client[w].run
    OBVIOUS
  <1>1. ASSUME NEW target \in {"COMPLETE", "PARTIAL"}, Finalize(w, target)
        PROVE  r \in Runs /\ Lifecycle!Finish(r)
    <2>1. /\ client[w].pc = "held" /\ LeaseHeld(Seen(w), w, client[w].token)
          /\ EndRun(w, r, target) /\ errorCode' = errorCode
      BY <1>1, <1>r DEF Finalize, RequireLease
    <2>2. r \in Runs /\ Stage[r] = "held" /\ Lifecycle!End(r, target) /\ UNCHANGED Claims
      BY <1>r, <2>1, EndStep
    <2> QED
      BY <2>1, <2>2 DEF Lifecycle!Finish, EndRun
  <1>2. ASSUME Fail(w)
        PROVE  r \in Runs /\ Lifecycle!Finish(r)
    <2>1. /\ client[w].pc = "held" /\ LeaseHeld(Seen(w), w, client[w].token)
          /\ EndRun(w, r, "FAILED")
          /\ errorCode' = [errorCode EXCEPT ![r] = "WORKER_FAILED"]
      BY <1>2, <1>r DEF Fail, RequireLease
    <2>2. errorCode'[r] = "WORKER_FAILED"
      BY <1>0, <1>r, <2>1 DEF TypeOK, HeldRuns
    <2>3. r \in Runs /\ Stage[r] = "held" /\ Lifecycle!End(r, "FAILED") /\ UNCHANGED Claims
      BY <1>r, <2>1, <2>2, EndStep
    <2> QED
      BY <2>1, <2>3 DEF Lifecycle!Finish, EndRun
  <1> QED
    BY <1>1, <1>2

LEMMA AcknowledgeStep ==
    ASSUME JobsInv, CancelsSeen, NEW w \in Workers, Acknowledge(w)
    PROVE  \E r \in Runs : Lifecycle!Acknowledge(r)
  <1>r. PICK r : r = client[w].run
    OBVIOUS
  <1>1. /\ client[w].pc = "held" /\ LeaseHeld(Seen(w), w, client[w].token)
        /\ EndRun(w, r, "CANCELLED") /\ errorCode' = errorCode
        /\ Seen(w).cancel
    BY <1>r DEF Acknowledge
  <1>2. r \in Runs /\ Stage[r] = "held" /\ Lifecycle!End(r, "CANCELLED") /\ UNCHANGED Claims
    BY <1>r, <1>1, EndStep
  <1>3. cancelRequested[r]
    BY <1>r, <1>1 DEF Seen, RowOf, CancelsSeen, SeesCancel
  <1> QED
    BY <1>1, <1>2, <1>3 DEF Lifecycle!Acknowledge, EndRun

LEMMA GiveUpStep ==
    ASSUME JobsInv, NEW w \in Workers, NEW taken \in SUBSET Expired, Reclaim(w, taken)
    PROVE  taken \in SUBSET Runs /\ Lifecycle!GiveUp(taken)
  <1>0. TypeOK /\ RowShape /\ AttemptsBounded
    BY DEF JobsInv
  <1>1. taken \in SUBSET Runs /\ \A r \in taken : status[r] = "RUNNING"
    BY DEF Expired
  <1>2. \A r \in taken : Exhausted(r) <=> Claims[r] = 0
    <2> TAKE r \in taken
    <2>1. attempt[r] \in Nat /\ request[r].limit \in Nat /\ attempt[r] <= request[r].limit
      BY <1>0, <1>1, JobsAssumption DEF TypeOK, RowShape, AttemptsBounded, Request
    <2> QED
      BY <1>1, <2>1 DEF Exhausted, Claims
  <1>3. \A r \in taken : Stage[r] = "held"
    BY <1>1 DEF Stage, StageOf
  <1>4. ASSUME NEW r \in Runs
        PROVE  /\ StageOf(r)' = IF r \in taken /\ Claims[r] = 0 THEN "over"
                                ELSE IF r \in taken THEN "waiting" ELSE StageOf(r)
               /\ OutcomeOf(r)' = IF r \in taken /\ Claims[r] = 0 THEN "EXHAUSTED"
                                  ELSE OutcomeOf(r)
    <2>1. CASE r \in taken /\ Claims[r] = 0
      <3>1. status'[r] = "FAILED" /\ errorCode'[r] = "MAX_ATTEMPTS_EXCEEDED"
        BY <1>2, <2>1 DEF Reclaim
      <3> QED
        BY <2>1, <3>1 DEF StageOf, OutcomeOf, Terminal
    <2>2. CASE r \in taken /\ Claims[r] # 0
      <3>1. status'[r] = "QUEUED" /\ status[r] = "RUNNING"
        BY <1>1, <1>2, <2>2 DEF Reclaim
      <3> QED
        BY <2>2, <3>1 DEF StageOf, OutcomeOf, Terminal
    <2>3. CASE r \notin taken
      <3>1. status'[r] = status[r] /\ errorCode'[r] = errorCode[r]
        BY <2>3 DEF Reclaim
      <3> QED
        BY <2>3, <3>1 DEF StageOf, OutcomeOf
    <2> QED
      BY <2>1, <2>2, <2>3
  <1>5. /\ Stage' = [r \in Runs |-> IF r \in taken /\ Claims[r] = 0 THEN "over"
                                    ELSE IF r \in taken THEN "waiting" ELSE Stage[r]]
        /\ Ending' = [r \in Runs |-> IF r \in taken /\ Claims[r] = 0 THEN "EXHAUSTED"
                                      ELSE Ending[r]]
    BY <1>4 DEF Stage, Ending
  <1>6. /\ leaseOwner' = [r \in Runs |-> IF r \in taken THEN NoWorker ELSE leaseOwner[r]]
        /\ UNCHANGED <<Claims, cancelRequested>>
    BY DEF Reclaim, ClearLease, Claims
  <1> QED
    BY <1>1, <1>3, <1>5, <1>6 DEF Lifecycle!GiveUp

LEMMA CancelWaitingStep ==
    ASSUME JobsInv, NEW r \in Runs, CancelQueued(r)
    PROVE  Lifecycle!CancelWaiting(r)
  <1>0. TypeOK
    BY DEF JobsInv
  <1>1. /\ Stage[r] = "waiting"
        /\ StageOf(r)' = "over" /\ OutcomeOf(r)' = "CANCELLED"
        /\ \A x \in Runs \ {r} : status'[x] = status[x] /\ errorCode'[x] = errorCode[x]
    BY <1>0 DEF CancelQueued, TypeOK, Stage, StageOf, OutcomeOf, Terminal
  <1>2. /\ Stage' = [Stage EXCEPT ![r] = "over"]
        /\ Ending' = [Ending EXCEPT ![r] = "CANCELLED"]
    BY <1>1, OneRow
  <1>3. leaseOwner' = [leaseOwner EXCEPT ![r] = NoWorker]
    BY <1>0 DEF CancelQueued, ClearLease, TypeOK
  <1>4. UNCHANGED Claims
    BY DEF CancelQueued, Claims
  <1> QED
    BY <1>1, <1>2, <1>3, <1>4 DEF Lifecycle!CancelWaiting, Lifecycle!End, CancelQueued

LEMMA AskStep ==
    ASSUME NEW r \in Runs, CancelRunning(r)
    PROVE  Lifecycle!AskToCancel(r)
  <1>1. Stage[r] = "held"
    BY DEF CancelRunning, Stage, StageOf
  <1>2. UNCHANGED <<Stage, Claims, Ending>>
    BY DEF CancelRunning, Stage, StageOf, Claims, Ending, OutcomeOf
  <1> QED
    BY <1>1, <1>2 DEF Lifecycle!AskToCancel, CancelRunning, leaseVars

LEMMA LifecycleInit == NoRuns => Lifecycle!Init
  <1> SUFFICES ASSUME NoRuns PROVE Lifecycle!Init
    OBVIOUS
  <1>1. \A r \in Runs : StageOf(r) = "absent" /\ OutcomeOf(r) = "none"
    BY DEF NoRuns, StageOf, OutcomeOf, Terminal
  <1>2. \A r \in Runs : request[r].limit - attempt[r] = 0
    <2> TAKE r \in Runs
    <2>1. request[r].limit = 0 /\ attempt[r] = 0
      BY DEF NoRuns, NoRequest
    <2> QED
      BY <2>1
  <1> QED
    BY <1>1, <1>2 DEF NoRuns, Lifecycle!Init, Stage, Claims, Ending

LEMMA LifecycleStep ==
    ASSUME JobsInv, CancelsSeen, [Next]_vars
    PROVE  [Lifecycle!Next]_Lifecycle!vars
  <1>1. ASSUME NEW c \in Callers, NEW q \in Request, BeginCreate(c, q) PROVE UNCHANGED lifeVars
    BY <1>1 DEF BeginCreate, lifeVars, leaseVars
  <1>2. ASSUME NEW c \in Callers, CheckCreate(c) PROVE UNCHANGED lifeVars
    BY <1>2 DEF CheckCreate, lifeVars, leaseVars
  <1>3. ASSUME NEW c \in Callers, NEW r \in Runs, InsertRun(c, r) PROVE Lifecycle!Next
    BY <1>3, SubmitStep DEF Lifecycle!Next
  <1>4. ASSUME NEW c \in Callers, InsertConflict(c) \/ ResolveConflict(c)
        PROVE  UNCHANGED lifeVars
    BY <1>4 DEF InsertConflict, ResolveConflict, lifeVars, leaseVars
  <1>5. ASSUME NEW w \in Workers, NEW taken \in SUBSET Expired, Reclaim(w, taken)
        PROVE  Lifecycle!Next
    BY <1>5, GiveUpStep DEF Lifecycle!Next
  <1>6. ASSUME NEW w \in Workers, NoJob(w) \/ Refresh(w) \/ Reload(w) \/ Drop(w)
        PROVE  UNCHANGED lifeVars
    BY <1>6 DEF NoJob, Refresh, Reload, Drop, lifeVars, leaseVars
  <1>7. ASSUME NEW w \in Workers, NEW r \in Runs, Claim(w, r) PROVE Lifecycle!Next
    BY <1>7, TakeStep DEF Lifecycle!Next
  <1>8. ASSUME NEW w \in Workers, NEW r \in Runs, Heartbeat(w, r, leaseToken[r])
        PROVE  UNCHANGED lifeVars
    BY <1>8 DEF Heartbeat, lifeVars
  <1>9. ASSUME NEW w \in Workers,
               Fail(w) \/ \E target \in {"COMPLETE", "PARTIAL"} : Finalize(w, target)
        PROVE  Lifecycle!Next
    BY <1>9, FinishStep DEF Lifecycle!Next
  <1>10. ASSUME NEW w \in Workers, Acknowledge(w) PROVE Lifecycle!Next
    BY <1>10, AcknowledgeStep DEF Lifecycle!Next
  <1>11. ASSUME NEW r \in Runs, CancelQueued(r) PROVE Lifecycle!Next
    BY <1>11, CancelWaitingStep DEF Lifecycle!Next
  <1>12. ASSUME NEW r \in Runs, CancelRunning(r) PROVE Lifecycle!Next
    BY <1>12, AskStep DEF Lifecycle!Next
  <1>13. CASE Tick
    BY <1>13, Unmoved DEF Tick, lifeVars
  <1>14. CASE UNCHANGED vars
    BY <1>14, Unmoved DEF vars, lifeVars, leaseVars
  <1> QED
    BY StepCases, Unmoved, <1>1, <1>2, <1>3, <1>4, <1>5, <1>6, <1>7, <1>8, <1>9, <1>10,
       <1>11, <1>12, <1>13, <1>14

\* The service implements the life cycle: for every number of runs, workers, requests
\* and ticks, each run is taken at most as often as its request allowed, is held by one
\* worker at a time, and ends once.
THEOREM JobsImplementLifecycle == Spec => LifecycleRefined
  <1>1. Init => NoRuns
    BY DEF Init
  <1>2. Spec => []CancelsSeen
    BY <1>1, CancelsInit, CancelsNext, JobsInvariant, PTL DEF Spec
  <1> QED
    BY <1>1, <1>2, LifecycleInit, LifecycleStep, JobsInvariant, PTL
       DEF Spec, LifecycleRefined, Lifecycle!Spec
===============================================================================
