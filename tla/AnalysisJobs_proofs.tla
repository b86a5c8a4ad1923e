-------------------------- MODULE AnalysisJobs_proofs --------------------------
(***************************************************************************)
(* Theorems about the analysis-job service, for any number of rows,        *)
(* workers and requests, any lease and any limits on attempts.             *)
(***************************************************************************)
EXTENDS AnalysisJobs, TLAPS

\* The case analysis every invariance proof below follows: a step of the service
\* is one of its actions or leaves every variable alone.
LEMMA StepCases ==
    ASSUME [Next]_vars
    PROVE  \/ \E c \in Callers, q \in Request : BeginCreate(c, q)
           \/ \E c \in Callers : CheckCreate(c)
           \/ \E c \in Callers, r \in Runs : InsertRun(c, r)
           \/ \E c \in Callers : InsertConflict(c)
           \/ \E c \in Callers : ResolveConflict(c)
           \/ \E w \in Workers : \E taken \in SUBSET Expired : Reclaim(w, taken)
           \/ \E w \in Workers : NoJob(w)
           \/ \E w \in Workers, r \in Runs : Claim(w, r)
           \/ \E w \in Workers : Refresh(w)
           \/ \E w \in Workers : Reload(w)
           \/ \E w \in Workers, r \in Runs : Heartbeat(w, r, leaseToken[r])
           \/ \E w \in Workers, target \in {"COMPLETE", "PARTIAL"} : Finalize(w, target)
           \/ \E w \in Workers : Fail(w)
           \/ \E w \in Workers : Acknowledge(w)
           \/ \E w \in Workers : Drop(w)
           \/ \E r \in Runs : CancelQueued(r)
           \/ \E r \in Runs : CancelRunning(r)
           \/ Tick
           \/ UNCHANGED vars
  BY Zenon DEF Next, CreateNext, ClientNext

-----------------------------------------------------------------------------
\* Replies name rows: the CHOOSE in ExistingReply picks from a nonempty set.
LEMMA ReplyType ==
    ASSUME TypeOK, NEW q
    PROVE  ExistingReply(q) \in Reply
  <1> DEFINE keyed == KeyedRunsOf(q.session, q.key)
             same == {r \in ActiveRunsOf(q.session) : request[r].profile = q.profile}
  <1>1. keyed \subseteq Runs /\ same \subseteq Runs
    BY DEF KeyedRunsOf, ActiveRunsOf, RunsOf
  <1>2. keyed # {} => (CHOOSE x \in keyed : TRUE) \in Runs
    BY <1>1
  <1>3. same # {} => (CHOOSE x \in same : TRUE) \in Runs
    BY <1>1
  <1>4. \A r \in Runs : Ok(r) \in Reply
    BY DEF Ok, Reply
  <1>5. \A code \in {"NONE", "IDEMPOTENCY_KEY_REUSED", "ACTIVE_ANALYSIS_RUN_EXISTS",
                     "SESSION_NOT_READY_FOR_ANALYSIS"} : Reject(code) \in Reply
    BY DEF Reject, Reply
  <1>6. ExistingReply(q) =
          IF keyed # {}
          THEN LET r == CHOOSE x \in keyed : TRUE
               IN  IF Fingerprint(request[r]) = Fingerprint(q)
                   THEN Ok(r) ELSE Reject("IDEMPOTENCY_KEY_REUSED")
          ELSE IF same = {} THEN NoReply
          ELSE IF q.key = NoKey THEN Ok(CHOOSE x \in same : TRUE)
          ELSE Reject("ACTIVE_ANALYSIS_RUN_EXISTS")
    BY DEF ExistingReply
  <1> HIDE DEF keyed, same
  <1> QED
    BY <1>2, <1>3, <1>4, <1>5, <1>6 DEF NoReply

\* A client that holds a claim names a row.
HeldRuns == \A w \in Workers : client[w].pc = "held" => client[w].run \in Runs

\* Every column keeps its type.
LEMMA EmptyType ==
    ASSUME NoRuns, sessionStatus \in [Sessions -> SessionStatus]
    PROVE  TypeOK
  BY JobsAssumption DEF NoRuns, TypeOK, RunStatus, Active, Terminal, Request, Row, Client,
     Reply, Call, IdleClient, IdleCall, NoRow, NoReply, Reject, SessionStatus

LEMMA TypeInit == Init => TypeOK
  BY EmptyType DEF Init, SessionStatus

LEMMA TypeNext == TypeOK /\ HeldRuns /\ [Next]_vars => TypeOK'
  <1> SUFFICES ASSUME TypeOK, HeldRuns, [Next]_vars PROVE TypeOK'
    OBVIOUS
  <1> USE JobsAssumption
  <1>0. /\ {"QUEUED", "RUNNING", "COMPLETE", "PARTIAL", "FAILED", "CANCELLED"} \subseteq RunStatus
        /\ {"QUEUED", "PROCESSING", "COMPLETE", "PARTIAL", "FAILED"} \subseteq SessionStatus
        /\ "ABSENT" \in RunStatus
    BY DEF RunStatus, Active, Terminal, SessionStatus
  <1>row. NoRow \in Row
    BY <1>0 DEF NoRow, Row
  <1>answer. ASSUME NEW c \in Callers, NEW reply \in Reply, Answer(c, reply)
             PROVE  call' \in [Callers -> Call]
    BY <1>answer DEF Answer, TypeOK, Call
  <1>goto. ASSUME NEW c \in Callers, NEW l \in {"insert", "conflict"},
                  call' = [call EXCEPT ![c].pc = l]
           PROVE  call' \in [Callers -> Call]
    BY <1>goto DEF TypeOK, Call
  <1>reject. \A code \in {"SESSION_NOT_READY_FOR_ANALYSIS", "ACTIVE_ANALYSIS_RUN_EXISTS"} :
               Reject(code) \in Reply
    BY DEF Reject, Reply
  <1>clear. ASSUME NEW S, ClearLease(S)
            PROVE  /\ leaseOwner' \in [Runs -> Workers \cup {NoWorker}]
                   /\ leaseToken' \in [Runs -> Nat]
                   /\ leaseLeft' \in [Runs -> 0..LeaseTicks]
    BY <1>clear DEF ClearLease, TypeOK
  <1>stale. ASSUME NEW w \in Workers, client' = [client EXCEPT ![w].stale = FALSE],
                   loaded' = [loaded EXCEPT ![w] = NoRow]
            PROVE  client' \in [Workers -> Client] /\ loaded' \in [Workers -> Row]
    BY <1>stale, <1>row DEF TypeOK, Client
  <1>end. ASSUME NEW w \in Workers, NEW r, NEW outcome \in Terminal, EndRun(w, r, outcome)
          PROVE  /\ status' \in [Runs -> RunStatus]
                 /\ leaseOwner' \in [Runs -> Workers \cup {NoWorker}]
                 /\ leaseToken' \in [Runs -> Nat]
                 /\ leaseLeft' \in [Runs -> 0..LeaseTicks]
                 /\ client' \in [Workers -> Client] /\ loaded' \in [Workers -> Row]
    <2>1. status' \in [Runs -> RunStatus]
      BY <1>end DEF EndRun, TypeOK, RunStatus
    <2> QED
      BY <1>end, <2>1, <1>clear, <1>stale DEF EndRun
  <1>1. ASSUME NEW c \in Callers, NEW q \in Request, BeginCreate(c, q) PROVE TypeOK'
    <2>1. sessionStatus[q.session] \in SessionStatus
      BY DEF TypeOK, Request
    <2>2. NoReply \in Reply
      BY DEF NoReply, Reject, Reply
    <2>3. [pc |-> "session", req |-> q, seen |-> sessionStatus[q.session],
           reply |-> NoReply] \in Call
      BY <2>1, <2>2 DEF Call
    <2> QED
      BY <1>1, <2>3 DEF BeginCreate, TypeOK, leaseVars, sessionVars, clientVars
  <1>2. ASSUME NEW c \in Callers, CheckCreate(c) PROVE TypeOK'
    <2>1. ExistingReply(call[c].req) \in Reply
      BY ReplyType
    <2>2. call' \in [Callers -> Call]
      BY <1>2, <2>1, <1>answer, <1>goto, <1>reject DEF CheckCreate
    <2> QED
      BY <1>2, <2>2 DEF CheckCreate, TypeOK, leaseVars, sessionVars, clientVars
  <1>3. ASSUME NEW c \in Callers, NEW r \in Runs, InsertRun(c, r) PROVE TypeOK'
    <2>1. call' \in [Callers -> Call]
      <3>1. Ok(r) \in Reply
        BY DEF Ok, Reply
      <3> QED
        BY <1>3, <3>1, <1>answer DEF InsertRun
    <2>2. call[c].req \in Request \cup {NoRequest}
      BY DEF TypeOK, Call
    <2>3. sessionStatus' \in [Sessions -> SessionStatus]
      BY <1>3, <1>0 DEF InsertRun, QueuedSession, TypeOK
    <2>4. /\ status' \in [Runs -> RunStatus]
          /\ request' \in [Runs -> Request \cup {NoRequest}]
          /\ latestRun' \in [Sessions -> Runs \cup {NoRun}]
      BY <1>3, <1>0, <2>2 DEF InsertRun, TypeOK
    <2> QED
      BY <1>3, <2>1, <2>3, <2>4 DEF InsertRun, TypeOK, leaseVars, clientVars
  <1>4. ASSUME NEW c \in Callers, InsertConflict(c) PROVE TypeOK'
    BY <1>4, <1>goto DEF InsertConflict, TypeOK, leaseVars, sessionVars, clientVars
  <1>5. ASSUME NEW c \in Callers, ResolveConflict(c) PROVE TypeOK'
    <2>1. ExistingReply(call[c].req) \in Reply
      BY ReplyType
    <2>2. call' \in [Callers -> Call]
      BY <1>5, <2>1, <1>answer, <1>reject DEF ResolveConflict
    <2> QED
      BY <1>5, <2>2 DEF ResolveConflict, TypeOK, leaseVars, sessionVars, clientVars
  <1>6. ASSUME NEW w \in Workers, NEW taken \in SUBSET Expired, Reclaim(w, taken) PROVE TypeOK'
    <2>1. client' \in [Workers -> Client]
      BY <1>6 DEF Reclaim, TypeOK, Client
    <2>2. /\ status' \in [Runs -> RunStatus]
          /\ errorCode' \in [Runs -> {"NONE", "WORKER_FAILED", "MAX_ATTEMPTS_EXCEEDED"}]
      BY <1>6, <1>0 DEF Reclaim, TypeOK
    <2>3. sessionStatus' \in [Sessions -> SessionStatus]
      BY <1>6, <1>0 DEF Reclaim, SessionAfter, TypeOK
    <2> QED
      BY <1>6, <2>1, <2>2, <2>3, <1>clear DEF Reclaim, TypeOK
  <1>7. ASSUME NEW w \in Workers, NoJob(w) PROVE TypeOK'
    <2>1. IdleClient \in Client
      BY DEF IdleClient, Client
    <2> QED
      BY <1>7, <2>1 DEF NoJob, TypeOK, leaseVars, sessionVars
  <1>8. ASSUME NEW w \in Workers, NEW r \in Runs, Claim(w, r) PROVE TypeOK'
    <2>1. issued[r] + 1 \in Nat /\ attempt[r] + 1 \in Nat /\ cancelRequested[r] \in BOOLEAN
      BY DEF TypeOK
    <2>2. /\ [pc |-> "held", run |-> r, token |-> issued[r] + 1, stale |-> TRUE] \in Client
          /\ [status |-> "RUNNING", owner |-> w, token |-> issued[r] + 1,
              left |-> LeaseTicks, cancel |-> cancelRequested[r]] \in Row
      BY <1>0, <2>1 DEF Client, Row
    <2>3. /\ client' \in [Workers -> Client] /\ loaded' \in [Workers -> Row]
      BY <1>8, <2>2 DEF Claim, TypeOK
    <2>4. sessionStatus' \in [Sessions -> SessionStatus]
      BY <1>8, <1>0 DEF Claim, ClaimedSession, TypeOK
    <2>5. /\ status' \in [Runs -> RunStatus] /\ attempt' \in [Runs -> Nat]
          /\ issued' \in [Runs -> Nat] /\ leaseToken' \in [Runs -> Nat]
          /\ leaseOwner' \in [Runs -> Workers \cup {NoWorker}]
          /\ leaseLeft' \in [Runs -> 0..LeaseTicks]
      BY <1>8, <1>0, <2>1 DEF Claim, NextAttempt, TypeOK
    <2> QED
      BY <1>8, <2>3, <2>4, <2>5 DEF Claim, TypeOK
  <1>9. ASSUME NEW w \in Workers, Refresh(w) PROVE TypeOK'
    BY <1>9, <1>stale DEF Refresh, TypeOK, leaseVars, sessionVars
  <1>9a. ASSUME NEW w \in Workers, Reload(w) PROVE TypeOK'
    <2>1. client[w].run \in Runs => RowOf(client[w].run) \in Row
      BY DEF TypeOK, RowOf, Row
    <2>2. loaded[w] \in Row /\ client[w].run \in Runs
      BY <1>9a DEF Reload, HeldRuns, TypeOK
    <2>3. loaded' \in [Workers -> Row]
      BY <1>9a, <2>1, <2>2 DEF Reload, Seen, TypeOK
    <2>4. client' \in [Workers -> Client]
      <3>1. client[w] \in Client
        BY DEF TypeOK
      <3>2. [client[w] EXCEPT !.stale = TRUE] \in Client
        BY <3>1 DEF Client
      <3> QED
        BY <1>9a, <3>2 DEF Reload, TypeOK
    <2> QED
      BY <1>9a, <2>3, <2>4 DEF Reload, TypeOK, leaseVars, sessionVars
  <1>10. ASSUME NEW w \in Workers, NEW r \in Runs, Heartbeat(w, r, leaseToken[r]) PROVE TypeOK'
    BY <1>10 DEF Heartbeat, TypeOK, sessionVars, clientVars
  <1>11. ASSUME NEW w \in Workers, NEW target \in {"COMPLETE", "PARTIAL"}, Finalize(w, target)
         PROVE TypeOK'
    <2>1. EndRun(w, client[w].run, target) /\ target \in Terminal
      BY <1>11 DEF Finalize, Terminal
    <2>2. sessionStatus' \in [Sessions -> SessionStatus]
      BY <1>11, <1>0 DEF Finalize, SessionAfter, TypeOK
    <2>3. client[w].run \in Runs \cup {NoRun}
      BY DEF TypeOK, Client
    <2>4. bundleOf' \in [Sessions -> Runs \cup {NoRun}]
      BY <1>11, <2>3 DEF Finalize, TypeOK
    <2> QED
      BY <1>11, <2>1, <2>2, <2>4, <1>end DEF Finalize, EndRun, TypeOK
  <1>12. ASSUME NEW w \in Workers, Fail(w) PROVE TypeOK'
    <2>1. EndRun(w, client[w].run, "FAILED") /\ "FAILED" \in Terminal
      BY <1>12 DEF Fail, Terminal
    <2>2. sessionStatus' \in [Sessions -> SessionStatus]
      BY <1>12, <1>0 DEF Fail, SessionAfter, TypeOK
    <2>3. errorCode' \in [Runs -> {"NONE", "WORKER_FAILED", "MAX_ATTEMPTS_EXCEEDED"}]
      BY <1>12 DEF Fail, TypeOK
    <2> QED
      BY <1>12, <2>1, <2>2, <2>3, <1>end DEF Fail, EndRun, TypeOK
  <1>13. ASSUME NEW w \in Workers, Acknowledge(w) PROVE TypeOK'
    <2>1. EndRun(w, client[w].run, "CANCELLED") /\ "CANCELLED" \in Terminal
      BY <1>13 DEF Acknowledge, Terminal
    <2> QED
      BY <1>13, <2>1, <1>end DEF Acknowledge, EndRun, TypeOK
  <1>14. ASSUME NEW w \in Workers, Drop(w) PROVE TypeOK'
    <2>1. IdleClient \in Client
      BY DEF IdleClient, Client
    <2> QED
      BY <1>14, <2>1, <1>row DEF Drop, TypeOK, leaseVars, sessionVars
  <1>15. ASSUME NEW r \in Runs, CancelQueued(r) PROVE TypeOK'
    BY <1>15, <1>0, <1>clear DEF CancelQueued, TypeOK, sessionVars, clientVars
  <1>16. ASSUME NEW r \in Runs, CancelRunning(r) PROVE TypeOK'
    BY <1>16 DEF CancelRunning, TypeOK, leaseVars, sessionVars, clientVars
  <1>17. ASSUME Tick PROVE TypeOK'
    <2>1. \A n \in 0..LeaseTicks : Countdown(n) \in 0..LeaseTicks
      BY DEF Countdown
    <2>2. leaseLeft' \in [Runs -> 0..LeaseTicks]
      BY <1>17, <2>1 DEF Tick, TypeOK
    <2>3. loaded' \in [Workers -> Row]
      BY <1>17, <2>1 DEF Tick, TypeOK, Row
    <2> QED
      BY <1>17, <2>2, <2>3 DEF Tick, TypeOK, sessionVars
  <1>18. ASSUME UNCHANGED vars PROVE TypeOK'
    BY <1>18 DEF vars, TypeOK, leaseVars, sessionVars, clientVars
  <1> QED
    BY StepCases, <1>1, <1>2, <1>3, <1>4, <1>5, <1>6, <1>7, <1>8, <1>9, <1>9a, <1>10, <1>11,
       <1>12, <1>13, <1>14, <1>15, <1>16, <1>17, <1>18

-----------------------------------------------------------------------------
(***************************************************************************)
(* The inductive invariant.  LeaseOnlyWhileRunning, AttemptsBounded and    *)
(* ActiveRunIsLatest are invariants of the runs checked by TLC; they are   *)
(* inductive only together with what is known of unused rows, of clients   *)
(* and of the row objects the clients have loaded.                         *)
(***************************************************************************)
RowShape ==
    \A r \in Runs : IF status[r] = "ABSENT"
                    THEN attempt[r] = 0 /\ issued[r] = 0
                    ELSE request[r] \in Request
PostedRequests == \A c \in Callers : call[c].pc # "idle" => call[c].req \in Request

\* A loaded object is the row as this client claimed or last read it; while it
\* shows this client's lease running, nobody else has taken the row.
Follows(w) ==
    client[w].stale =>
        /\ client[w].pc = "held"
        /\ LeaseHeld(loaded[w], w, client[w].token) =>
              /\ status[client[w].run] = "RUNNING"
              /\ leaseOwner[client[w].run] = w
              /\ leaseToken[client[w].run] = client[w].token
              /\ leaseLeft[client[w].run] >= loaded[w].left
LoadedFollows == \A w \in Workers : Follows(w)

JobsInv ==
    /\ TypeOK
    /\ RowShape
    /\ HeldRuns
    /\ PostedRequests
    /\ LeaseOnlyWhileRunning
    /\ AttemptsBounded
    /\ ActiveRunIsLatest
    /\ LoadedFollows

\* A worker's own transition to a terminal status.
Ends(w) ==
    /\ client[w].pc = "held"
    /\ LeaseHeld(Seen(w), w, client[w].token)
    /\ \E outcome \in Terminal : EndRun(w, client[w].run, outcome)

\* The columns of analysis_runs that the row invariants read, and latestRun.
rowVars == <<status, request, attempt, leaseVars, issued, latestRun>>

\* The steps as the rows see them.
LEMMA RowCases ==
    ASSUME [Next]_vars
    PROVE  \/ UNCHANGED rowVars
           \/ \E c \in Callers, r \in Runs : InsertRun(c, r)
           \/ \E w \in Workers : \E taken \in SUBSET Expired : Reclaim(w, taken)
           \/ \E w \in Workers, r \in Runs : Claim(w, r)
           \/ \E w \in Workers, r \in Runs : Heartbeat(w, r, leaseToken[r])
           \/ \E w \in Workers : Ends(w)
           \/ \E r \in Runs : CancelQueued(r)
           \/ Tick
  <1>1. ASSUME NEW c \in Callers, NEW q \in Request, BeginCreate(c, q) PROVE UNCHANGED rowVars
    BY <1>1 DEF BeginCreate, rowVars, sessionVars
  <1>2. ASSUME NEW c \in Callers, CheckCreate(c) PROVE UNCHANGED rowVars
    BY <1>2 DEF CheckCreate, rowVars, sessionVars
  <1>3. ASSUME NEW c \in Callers, InsertConflict(c) PROVE UNCHANGED rowVars
    BY <1>3 DEF InsertConflict, rowVars, sessionVars
  <1>4. ASSUME NEW c \in Callers, ResolveConflict(c) PROVE UNCHANGED rowVars
    BY <1>4 DEF ResolveConflict, rowVars, sessionVars
  <1>5. ASSUME NEW w \in Workers, NoJob(w) PROVE UNCHANGED rowVars
    BY <1>5 DEF NoJob, rowVars, sessionVars
  <1>6. ASSUME NEW w \in Workers, Refresh(w) \/ Reload(w) PROVE UNCHANGED rowVars
    BY <1>6 DEF Refresh, Reload, rowVars, sessionVars
  <1>7. ASSUME NEW w \in Workers, Drop(w) PROVE UNCHANGED rowVars
    BY <1>7 DEF Drop, rowVars, sessionVars
  <1>8. ASSUME NEW r \in Runs, CancelRunning(r) PROVE UNCHANGED rowVars
    BY <1>8 DEF CancelRunning, rowVars, sessionVars
  <1>9. ASSUME UNCHANGED vars PROVE UNCHANGED rowVars
    BY <1>9 DEF vars, rowVars, sessionVars
  <1>10. ASSUME NEW w \in Workers, NEW target \in {"COMPLETE", "PARTIAL"}, Finalize(w, target)
         PROVE  Ends(w)
    BY <1>10 DEF Finalize, Ends, RequireLease, Terminal
  <1>11. ASSUME NEW w \in Workers, Fail(w) PROVE Ends(w)
    BY <1>11 DEF Fail, Ends, RequireLease, Terminal
  <1>12. ASSUME NEW w \in Workers, Acknowledge(w) PROVE Ends(w)
    BY <1>12 DEF Acknowledge, Ends, Terminal
  <1> QED
    BY StepCases, <1>1, <1>2, <1>3, <1>4, <1>5, <1>6, <1>7, <1>8, <1>9, <1>10, <1>11, <1>12

\* The guard of every worker transition, on a fresh row or on a loaded one, holds
\* only of a row that is RUNNING under that worker's token.
LEMMA SeenIsCurrent ==
    ASSUME JobsInv, NEW w \in Workers, client[w].pc = "held",
           LeaseHeld(Seen(w), w, client[w].token)
    PROVE  /\ client[w].run \in Runs
           /\ status[client[w].run] = "RUNNING"
           /\ leaseOwner[client[w].run] = w
           /\ leaseToken[client[w].run] = client[w].token
           /\ leaseLeft[client[w].run] > 0
           /\ leaseLeft[client[w].run] >= Seen(w).left
  <1>1. client[w].run \in Runs
    BY DEF JobsInv, HeldRuns
  <1>2. leaseLeft[client[w].run] \in Nat /\ loaded[w].left \in Nat
    BY <1>1, JobsAssumption DEF JobsInv, TypeOK, Row
  <1>3. CASE client[w].stale
    BY <1>1, <1>2, <1>3 DEF Seen, LeaseHeld, JobsInv, LoadedFollows, Follows
  <1>4. CASE ~client[w].stale
    BY <1>1, <1>2, <1>4 DEF Seen, LeaseHeld, RowOf
  <1> QED
    BY <1>3, <1>4


-----------------------------------------------------------------------------
LEMMA EmptyJobs ==
    ASSUME NoRuns, sessionStatus \in [Sessions -> SessionStatus]
    PROVE  JobsInv
  <1>1. TypeOK
    BY EmptyType
  <1>2. RowShape /\ HeldRuns /\ PostedRequests
    BY DEF NoRuns, RowShape, HeldRuns, PostedRequests, IdleClient, IdleCall
  <1>3. LeaseOnlyWhileRunning /\ AttemptsBounded /\ ActiveRunIsLatest
    BY DEF NoRuns, LeaseOnlyWhileRunning, AttemptsBounded, ActiveRunIsLatest, Active
  <1>4. LoadedFollows
    BY DEF NoRuns, LoadedFollows, Follows, IdleClient
  <1> QED
    BY <1>1, <1>2, <1>3, <1>4 DEF JobsInv

LEMMA JobsInit == Init => JobsInv
  BY EmptyJobs DEF Init, SessionStatus

\* A row is made only for a request and never unmade.
LEMMA RowShapeNext == JobsInv /\ [Next]_vars => RowShape'
  <1> SUFFICES ASSUME JobsInv, [Next]_vars PROVE RowShape'
    OBVIOUS
  <1>0. TypeOK /\ RowShape /\ PostedRequests
    BY DEF JobsInv
  <1>1. CASE UNCHANGED rowVars
    BY <1>0, <1>1 DEF rowVars, RowShape
  <1>2. ASSUME NEW c \in Callers, NEW r \in Runs, InsertRun(c, r) PROVE RowShape'
    <2>1. call[c].req \in Request
      BY <1>0, <1>2 DEF InsertRun, PostedRequests
    <2> QED
      BY <1>0, <1>2, <2>1 DEF InsertRun, RowShape, TypeOK
  <1>3. ASSUME NEW w \in Workers, NEW taken \in SUBSET Expired, Reclaim(w, taken) PROVE RowShape'
    BY <1>0, <1>3 DEF Reclaim, Expired, RowShape, TypeOK
  <1>4. ASSUME NEW w \in Workers, NEW r \in Runs, Claim(w, r) PROVE RowShape'
    BY <1>0, <1>4 DEF Claim, RowShape, TypeOK
  <1>5. ASSUME NEW w \in Workers, NEW r \in Runs, Heartbeat(w, r, leaseToken[r]) PROVE RowShape'
    BY <1>0, <1>5 DEF Heartbeat, RowShape
  <1>6. ASSUME NEW w \in Workers, Ends(w) PROVE RowShape'
    <2>1. status[client[w].run] = "RUNNING"
      BY <1>6, SeenIsCurrent DEF Ends
    <2> QED
      BY <1>0, <1>6, <2>1 DEF Ends, EndRun, Terminal, RowShape, TypeOK
  <1>7. ASSUME NEW r \in Runs, CancelQueued(r) PROVE RowShape'
    BY <1>0, <1>7 DEF CancelQueued, RowShape, TypeOK
  <1>8. CASE Tick
    BY <1>0, <1>8 DEF Tick, RowShape
  <1> QED
    BY RowCases, <1>1, <1>2, <1>3, <1>4, <1>5, <1>6, <1>7, <1>8

\* Every exit from RUNNING clears the lease; only Claim writes a token.
LEMMA LeaseNext == JobsInv /\ [Next]_vars => LeaseOnlyWhileRunning'
  <1> SUFFICES ASSUME JobsInv, [Next]_vars PROVE LeaseOnlyWhileRunning'
    OBVIOUS
  <1>0. TypeOK /\ LeaseOnlyWhileRunning
    BY DEF JobsInv
  <1>1. CASE UNCHANGED rowVars
    BY <1>0, <1>1 DEF rowVars, leaseVars, LeaseOnlyWhileRunning
  <1>2. ASSUME NEW c \in Callers, NEW r \in Runs, InsertRun(c, r) PROVE LeaseOnlyWhileRunning'
    BY <1>0, <1>2 DEF InsertRun, leaseVars, LeaseOnlyWhileRunning, TypeOK
  <1>3. ASSUME NEW w \in Workers, NEW taken \in SUBSET Expired, Reclaim(w, taken)
        PROVE  LeaseOnlyWhileRunning'
    BY <1>0, <1>3 DEF Reclaim, Expired, ClearLease, LeaseOnlyWhileRunning, TypeOK
  <1>4. ASSUME NEW w \in Workers, NEW r \in Runs, Claim(w, r) PROVE LeaseOnlyWhileRunning'
    BY <1>0, <1>4 DEF Claim, LeaseOnlyWhileRunning, TypeOK
  <1>5. ASSUME NEW w \in Workers, NEW r \in Runs, Heartbeat(w, r, leaseToken[r])
        PROVE  LeaseOnlyWhileRunning'
    BY <1>0, <1>5 DEF Heartbeat, RequireLease, LeaseHeld, RowOf, LeaseOnlyWhileRunning, TypeOK
  <1>6. ASSUME NEW w \in Workers, Ends(w) PROVE LeaseOnlyWhileRunning'
    BY <1>0, <1>6 DEF Ends, EndRun, ClearLease, Terminal, LeaseOnlyWhileRunning, TypeOK
  <1>7. ASSUME NEW r \in Runs, CancelQueued(r) PROVE LeaseOnlyWhileRunning'
    BY <1>0, <1>7 DEF CancelQueued, ClearLease, LeaseOnlyWhileRunning, TypeOK
  <1>8. CASE Tick
    BY <1>0, <1>8 DEF Tick, Countdown, LeaseOnlyWhileRunning, TypeOK
  <1> QED
    BY RowCases, <1>1, <1>2, <1>3, <1>4, <1>5, <1>6, <1>7, <1>8

\* A claim spends an attempt; a reclaim requeues only what has one left.
LEMMA AttemptsNext == JobsInv /\ [Next]_vars => AttemptsBounded'
  <1> SUFFICES ASSUME JobsInv, [Next]_vars PROVE AttemptsBounded'
    OBVIOUS
  <1> USE JobsAssumption
  <1>0. TypeOK /\ RowShape /\ PostedRequests /\ AttemptsBounded
    BY DEF JobsInv
  <1>a. \A q \in Request : q.limit \in Nat \ {0}
    BY DEF Request
  <1>b. \A r \in Runs : attempt[r] \in Nat /\ issued[r] \in Nat
    BY <1>0 DEF TypeOK
  <1>1. CASE UNCHANGED rowVars
    BY <1>0, <1>1 DEF rowVars, AttemptsBounded
  <1>2. ASSUME NEW c \in Callers, NEW r \in Runs, InsertRun(c, r) PROVE AttemptsBounded'
    <2>1. call[c].req \in Request
      BY <1>0, <1>2 DEF InsertRun, PostedRequests
    <2>2. attempt[r] = 0 /\ issued[r] = 0
      BY <1>0, <1>2 DEF InsertRun, RowShape
    <2> QED
      BY <1>0, <1>2, <1>a, <2>1, <2>2 DEF InsertRun, AttemptsBounded, TypeOK
  <1>3. ASSUME NEW w \in Workers, NEW taken \in SUBSET Expired, Reclaim(w, taken)
        PROVE  AttemptsBounded'
    <2>1. UNCHANGED <<request, attempt, issued>>
      BY <1>3 DEF Reclaim
    <2>2. \A r \in Runs : status'[r] # "ABSENT" => status[r] # "ABSENT"
      BY <1>0, <1>3 DEF Reclaim, Expired, TypeOK
    <2>3. ASSUME NEW r \in Runs, status'[r] = "QUEUED", status[r] # "QUEUED"
          PROVE  attempt[r] < request[r].limit
      <3>1. r \in taken /\ ~Exhausted(r)
        BY <1>0, <1>3, <2>3 DEF Reclaim, TypeOK
      <3>2. request[r] \in Request
        BY <1>0, <1>3, <3>1 DEF Expired, RowShape
      <3> QED
        BY <1>a, <1>b, <3>1, <3>2 DEF Exhausted
    <2> QED
      BY <1>0, <2>1, <2>2, <2>3 DEF AttemptsBounded
  <1>4. ASSUME NEW w \in Workers, NEW r \in Runs, Claim(w, r) PROVE AttemptsBounded'
    BY <1>0, <1>4, <1>b DEF Claim, NextAttempt, AttemptsBounded, TypeOK
  <1>5. ASSUME NEW w \in Workers, NEW r \in Runs, Heartbeat(w, r, leaseToken[r])
        PROVE  AttemptsBounded'
    BY <1>0, <1>5 DEF Heartbeat, AttemptsBounded
  <1>6. ASSUME NEW w \in Workers, Ends(w) PROVE AttemptsBounded'
    <2>1. status[client[w].run] = "RUNNING"
      BY <1>6, SeenIsCurrent DEF Ends
    <2> QED
      BY <1>0, <1>6, <2>1 DEF Ends, EndRun, Terminal, AttemptsBounded, TypeOK
  <1>7. ASSUME NEW r \in Runs, CancelQueued(r) PROVE AttemptsBounded'
    BY <1>0, <1>7 DEF CancelQueued, AttemptsBounded, TypeOK
  <1>8. CASE Tick
    BY <1>0, <1>8 DEF Tick, AttemptsBounded
  <1> QED
    BY RowCases, <1>1, <1>2, <1>3, <1>4, <1>5, <1>6, <1>7, <1>8

\* A new run finds no active one in its session, and becomes the latest.
LEMMA LatestNext == JobsInv /\ [Next]_vars => ActiveRunIsLatest'
  <1> SUFFICES ASSUME JobsInv, [Next]_vars PROVE ActiveRunIsLatest'
    OBVIOUS
  <1>0. TypeOK /\ PostedRequests /\ ActiveRunIsLatest
    BY DEF JobsInv
  <1>a. ASSUME UNCHANGED <<request, latestRun>>,
               \A r \in Runs : status'[r] \in Active => status[r] \in Active
        PROVE  ActiveRunIsLatest'
    BY <1>0, <1>a DEF ActiveRunIsLatest
  <1>1. CASE UNCHANGED rowVars
    BY <1>a, <1>1 DEF rowVars
  <1>2. ASSUME NEW c \in Callers, NEW n \in Runs, InsertRun(c, n) PROVE ActiveRunIsLatest'
    <2> DEFINE q == call[c].req
    <2>1. q \in Request /\ q.session \in Sessions
      BY <1>0, <1>2 DEF InsertRun, PostedRequests, Request
    <2>2. request'[n] = q /\ latestRun'[q.session] = n
      BY <1>0, <1>2, <2>1 DEF InsertRun, TypeOK
    <2>3. ASSUME NEW r \in Runs, r # n, status'[r] \in Active
          PROVE  latestRun'[request'[r].session] = r
      <3>1. status[r] \in Active /\ request'[r] = request[r]
        BY <1>0, <1>2, <2>3 DEF InsertRun, TypeOK
      <3>2. request[r].session # q.session
        BY <1>2, <3>1 DEF InsertRun, UniqueViolation, ActiveRunsOf, RunsOf, Active
      <3>3. latestRun'[request[r].session] = latestRun[request[r].session]
        BY <1>2, <3>2 DEF InsertRun
      <3> QED
        BY <1>0, <3>1, <3>3 DEF ActiveRunIsLatest
    <2> QED
      BY <2>2, <2>3 DEF ActiveRunIsLatest
  <1>3. ASSUME NEW w \in Workers, NEW taken \in SUBSET Expired, Reclaim(w, taken)
        PROVE  ActiveRunIsLatest'
    BY <1>0, <1>a, <1>3 DEF Reclaim, Expired, Active, TypeOK
  <1>4. ASSUME NEW w \in Workers, NEW r \in Runs, Claim(w, r) PROVE ActiveRunIsLatest'
    BY <1>0, <1>a, <1>4 DEF Claim, Active, TypeOK
  <1>5. ASSUME NEW w \in Workers, NEW r \in Runs, Heartbeat(w, r, leaseToken[r])
        PROVE  ActiveRunIsLatest'
    BY <1>a, <1>5 DEF Heartbeat, sessionVars
  <1>6. ASSUME NEW w \in Workers, Ends(w) PROVE ActiveRunIsLatest'
    BY <1>0, <1>a, <1>6 DEF Ends, EndRun, Active, Terminal, TypeOK
  <1>7. ASSUME NEW r \in Runs, CancelQueued(r) PROVE ActiveRunIsLatest'
    BY <1>0, <1>a, <1>7 DEF CancelQueued, Active, sessionVars, TypeOK
  <1>8. CASE Tick
    BY <1>a, <1>8 DEF Tick, sessionVars
  <1> QED
    BY RowCases, <1>1, <1>2, <1>3, <1>4, <1>5, <1>6, <1>7, <1>8

\* The steps as the clients and requests see them.
LEMMA HeldRunsNext == JobsInv /\ [Next]_vars => HeldRuns' /\ PostedRequests'
  <1> SUFFICES ASSUME JobsInv, [Next]_vars PROVE HeldRuns' /\ PostedRequests'
    OBVIOUS
  <1>0. TypeOK /\ HeldRuns /\ PostedRequests
    BY DEF JobsInv
  <1>same. UNCHANGED clientVars => HeldRuns'
    BY <1>0 DEF clientVars, HeldRuns
  <1>calls. UNCHANGED call => PostedRequests'
    BY <1>0 DEF PostedRequests
  <1>answer. \A reply : \A c \in Callers : Answer(c, reply) /\ call[c].pc # "idle" => PostedRequests'
    BY <1>0 DEF Answer, PostedRequests, TypeOK, Call
  <1>goto. \A l : \A c \in Callers : call' = [call EXCEPT ![c].pc = l] /\ call[c].pc # "idle"
             => PostedRequests'
    BY <1>0 DEF PostedRequests, TypeOK, Call
  <1>end. ASSUME NEW w \in Workers, NEW outcome, EndRun(w, client[w].run, outcome)
          PROVE  HeldRuns' /\ PostedRequests'
    <2>1. HeldRuns'
      BY <1>0, <1>end DEF EndRun, HeldRuns, TypeOK, Client
    <2> QED
      BY <2>1, <1>calls, <1>end DEF EndRun
  <1>1. ASSUME NEW c \in Callers, NEW q \in Request, BeginCreate(c, q)
        PROVE  HeldRuns' /\ PostedRequests'
    BY <1>0, <1>1, <1>same DEF BeginCreate, PostedRequests, TypeOK
  <1>2. ASSUME NEW c \in Callers, CheckCreate(c) PROVE HeldRuns' /\ PostedRequests'
    BY <1>2, <1>same, <1>answer, <1>goto DEF CheckCreate
  <1>3. ASSUME NEW c \in Callers, NEW r \in Runs, InsertRun(c, r) PROVE HeldRuns' /\ PostedRequests'
    BY <1>3, <1>same, <1>answer DEF InsertRun
  <1>4. ASSUME NEW c \in Callers, InsertConflict(c) PROVE HeldRuns' /\ PostedRequests'
    BY <1>4, <1>same, <1>goto DEF InsertConflict
  <1>5. ASSUME NEW c \in Callers, ResolveConflict(c) PROVE HeldRuns' /\ PostedRequests'
    BY <1>5, <1>same, <1>answer DEF ResolveConflict
  <1>6. ASSUME NEW w \in Workers, NEW taken \in SUBSET Expired, Reclaim(w, taken)
        PROVE  HeldRuns' /\ PostedRequests'
    BY <1>0, <1>6, <1>calls DEF Reclaim, HeldRuns, TypeOK, Client
  <1>7. ASSUME NEW w \in Workers, NoJob(w) PROVE HeldRuns' /\ PostedRequests'
    BY <1>0, <1>7, <1>calls DEF NoJob, HeldRuns, TypeOK, IdleClient
  <1>8. ASSUME NEW w \in Workers, NEW r \in Runs, Claim(w, r) PROVE HeldRuns' /\ PostedRequests'
    BY <1>0, <1>8, <1>calls DEF Claim, HeldRuns, TypeOK
  <1>9. ASSUME NEW w \in Workers, Refresh(w) \/ Reload(w) PROVE HeldRuns' /\ PostedRequests'
    <2>1. \A v \in Workers : client'[v].pc = client[v].pc /\ client'[v].run = client[v].run
      BY <1>0, <1>9 DEF Refresh, Reload, TypeOK, Client
    <2> QED
      BY <1>0, <1>9, <1>calls, <2>1 DEF Refresh, Reload, HeldRuns
  <1>10. ASSUME NEW w \in Workers, NEW r \in Runs, Heartbeat(w, r, leaseToken[r])
         PROVE  HeldRuns' /\ PostedRequests'
    BY <1>10, <1>same, <1>calls DEF Heartbeat
  <1>11. ASSUME NEW w \in Workers, NEW target \in {"COMPLETE", "PARTIAL"}, Finalize(w, target)
         PROVE  HeldRuns' /\ PostedRequests'
    BY <1>11, <1>end DEF Finalize
  <1>12. ASSUME NEW w \in Workers, Fail(w) PROVE HeldRuns' /\ PostedRequests'
    BY <1>12, <1>end DEF Fail
  <1>13. ASSUME NEW w \in Workers, Acknowledge(w) PROVE HeldRuns' /\ PostedRequests'
    BY <1>13, <1>end DEF Acknowledge
  <1>14. ASSUME NEW w \in Workers, Drop(w) PROVE HeldRuns' /\ PostedRequests'
    BY <1>0, <1>14, <1>calls DEF Drop, HeldRuns, TypeOK, IdleClient
  <1>15. ASSUME NEW r \in Runs, CancelQueued(r) PROVE HeldRuns' /\ PostedRequests'
    BY <1>15, <1>same, <1>calls DEF CancelQueued
  <1>16. ASSUME NEW r \in Runs, CancelRunning(r) PROVE HeldRuns' /\ PostedRequests'
    BY <1>16, <1>same, <1>calls DEF CancelRunning
  <1>17. CASE Tick
    BY <1>0, <1>17, <1>calls DEF Tick, HeldRuns
  <1>18. CASE UNCHANGED vars
    BY <1>18, <1>same, <1>calls DEF vars
  <1> QED
    BY StepCases, <1>1, <1>2, <1>3, <1>4, <1>5, <1>6, <1>7, <1>8, <1>9, <1>10, <1>11,
       <1>12, <1>13, <1>14, <1>15, <1>16, <1>17, <1>18

\* While a loaded object's lease runs, no step takes the row from its client:
\* reclaim needs the row's lease to have passed, a claim needs the row QUEUED,
\* and another worker's transition needs the row's own owner.
LEMMA LoadedNext == JobsInv /\ [Next]_vars => LoadedFollows'
  <1> SUFFICES ASSUME JobsInv, [Next]_vars, NEW w \in Workers PROVE Follows(w)'
    BY DEF LoadedFollows
  <1> DEFINE rowOfClient == <<status, leaseOwner, leaseToken, leaseLeft>>
  <1>0. TypeOK /\ HeldRuns /\ Follows(w)
    BY DEF JobsInv, LoadedFollows
  <1>a. /\ client[w].stale => client[w].run \in Runs
        /\ loaded[w].left \in 0..LeaseTicks
        /\ \A r \in Runs : leaseLeft[r] \in 0..LeaseTicks
    BY <1>0 DEF TypeOK, HeldRuns, Follows, Row
  <1>b. LeaseTicks \in Nat
    BY JobsAssumption
  <1>fresh. client'[w].stale = FALSE => Follows(w)'
    BY DEF Follows
  <1>same. UNCHANGED <<rowOfClient, client[w], loaded[w]>> => Follows(w)'
    BY <1>0 DEF Follows
  <1>end. ASSUME NEW v \in Workers, Ends(v) PROVE Follows(w)'
    <2>1. CASE v = w
      BY <1>0, <1>end, <1>fresh, <2>1 DEF Ends, EndRun, TypeOK, Client
    <2>2. CASE v # w
      <3>1. client'[w] = client[w] /\ loaded'[w] = loaded[w]
        BY <1>0, <1>end, <2>2 DEF Ends, EndRun, TypeOK
      <3>2. client[v].run \in Runs /\ leaseOwner[client[v].run] = v
        BY <1>end, SeenIsCurrent DEF Ends
      <3>3. \A r \in Runs : r # client[v].run =>
               /\ status'[r] = status[r] /\ leaseOwner'[r] = leaseOwner[r]
               /\ leaseToken'[r] = leaseToken[r] /\ leaseLeft'[r] = leaseLeft[r]
        BY <1>0, <1>end, <3>2 DEF Ends, EndRun, ClearLease, TypeOK
      <3> QED
        BY <1>0, <1>a, <2>2, <3>1, <3>2, <3>3 DEF Follows
    <2> QED
      BY <2>1, <2>2
  <1>1. ASSUME NEW c \in Callers, NEW q \in Request, BeginCreate(c, q) PROVE Follows(w)'
    BY <1>1, <1>same DEF BeginCreate, leaseVars, clientVars
  <1>2. ASSUME NEW c \in Callers, CheckCreate(c) PROVE Follows(w)'
    BY <1>2, <1>same DEF CheckCreate, leaseVars, clientVars
  <1>3. ASSUME NEW c \in Callers, NEW r \in Runs, InsertRun(c, r) PROVE Follows(w)'
    BY <1>0, <1>a, <1>3 DEF InsertRun, Follows, TypeOK, leaseVars, clientVars
  <1>4. ASSUME NEW c \in Callers, InsertConflict(c) PROVE Follows(w)'
    BY <1>4, <1>same DEF InsertConflict, leaseVars, clientVars
  <1>5. ASSUME NEW c \in Callers, ResolveConflict(c) PROVE Follows(w)'
    BY <1>5, <1>same DEF ResolveConflict, leaseVars, clientVars
  <1>6. ASSUME NEW v \in Workers, NEW taken \in SUBSET Expired, Reclaim(v, taken)
        PROVE  Follows(w)'
    <2>1. client'[w].stale = client[w].stale /\ client'[w].run = client[w].run
          /\ client'[w].token = client[w].token /\ loaded'[w] = loaded[w]
      BY <1>0, <1>6 DEF Reclaim, TypeOK, Client
    <2>2. client[w].stale => client'[w].pc = "held"
      BY <1>0, <1>6 DEF Reclaim, Follows, TypeOK, Client
    <2>3. \A r \in Runs : leaseLeft[r] > 0 =>
             /\ status'[r] = status[r] /\ leaseOwner'[r] = leaseOwner[r]
             /\ leaseToken'[r] = leaseToken[r] /\ leaseLeft'[r] = leaseLeft[r]
      BY <1>0, <1>6 DEF Reclaim, Expired, ClearLease, TypeOK
    <2> QED
      BY <1>0, <1>a, <1>b, <2>1, <2>2, <2>3 DEF Follows, LeaseHeld
  <1>7. ASSUME NEW v \in Workers, NoJob(v) PROVE Follows(w)'
    BY <1>0, <1>7, <1>same, <1>fresh DEF NoJob, IdleClient, TypeOK, leaseVars
  <1>8. ASSUME NEW v \in Workers, NEW r \in Runs, Claim(v, r) PROVE Follows(w)'
    <2>1. CASE v = w
      BY <1>0, <1>b, <1>8, <2>1 DEF Claim, Follows, TypeOK
    <2>2. CASE v # w
      <3>1. client'[w] = client[w] /\ loaded'[w] = loaded[w] /\ status[r] = "QUEUED"
        BY <1>0, <1>8, <2>2 DEF Claim, TypeOK
      <3>2. \A x \in Runs : x # r =>
               /\ status'[x] = status[x] /\ leaseOwner'[x] = leaseOwner[x]
               /\ leaseToken'[x] = leaseToken[x] /\ leaseLeft'[x] = leaseLeft[x]
        BY <1>0, <1>8 DEF Claim, TypeOK
      <3> QED
        BY <1>0, <1>a, <3>1, <3>2 DEF Follows
    <2> QED
      BY <2>1, <2>2
  <1>9. ASSUME NEW v \in Workers, Refresh(v) PROVE Follows(w)'
    BY <1>0, <1>9, <1>same, <1>fresh DEF Refresh, TypeOK, Client, leaseVars
  <1>9a. ASSUME NEW v \in Workers, Reload(v) PROVE Follows(w)'
    <2>1. CASE v = w
      <3>1. /\ client'[w].pc = "held" /\ client'[w].run = client[w].run
            /\ client'[w].token = client[w].token /\ loaded'[w] = Seen(w)
            /\ UNCHANGED rowOfClient /\ client[w].run \in Runs
        BY <1>0, <1>9a, <2>1 DEF Reload, HeldRuns, TypeOK, Client, leaseVars
      <3>2. LeaseHeld(Seen(w), w, client[w].token) =>
               /\ status[client[w].run] = "RUNNING"
               /\ leaseOwner[client[w].run] = w
               /\ leaseToken[client[w].run] = client[w].token
               /\ leaseLeft[client[w].run] >= Seen(w).left
        BY <1>9a, <2>1, SeenIsCurrent DEF Reload
      <3> QED
        BY <3>1, <3>2 DEF Follows
    <2>2. CASE v # w
      BY <1>0, <1>9a, <1>same, <2>2 DEF Reload, TypeOK, leaseVars
    <2> QED
      BY <2>1, <2>2
  <1>10. ASSUME NEW v \in Workers, NEW r \in Runs, Heartbeat(v, r, leaseToken[r])
         PROVE  Follows(w)'
    BY <1>0, <1>a, <1>b, <1>10 DEF Heartbeat, Follows, TypeOK, clientVars
  <1>11. ASSUME NEW v \in Workers, Drop(v) PROVE Follows(w)'
    BY <1>0, <1>11, <1>same, <1>fresh DEF Drop, IdleClient, TypeOK, leaseVars
  <1>12. ASSUME NEW r \in Runs, CancelQueued(r) PROVE Follows(w)'
    BY <1>0, <1>a, <1>12 DEF CancelQueued, ClearLease, Follows, TypeOK, clientVars
  <1>13. ASSUME NEW r \in Runs, CancelRunning(r) PROVE Follows(w)'
    BY <1>13, <1>same DEF CancelRunning, leaseVars, clientVars
  <1>14. CASE Tick
    <2>1. /\ UNCHANGED <<status, leaseOwner, leaseToken, client>>
          /\ \A r \in Runs : leaseLeft'[r] = Countdown(leaseLeft[r])
          /\ loaded'[w].left = Countdown(loaded[w].left)
          /\ loaded'[w].status = loaded[w].status /\ loaded'[w].owner = loaded[w].owner
          /\ loaded'[w].token = loaded[w].token
      BY <1>0, <1>14 DEF Tick, TypeOK, Row
    <2>2. \A m, n \in 0..LeaseTicks : Countdown(m) > 0 =>
             m > 0 /\ (n >= m => Countdown(n) >= Countdown(m))
      BY <1>b DEF Countdown
    <2> QED
      BY <1>0, <1>a, <2>1, <2>2 DEF Follows, LeaseHeld
  <1>15. CASE UNCHANGED vars
    BY <1>15, <1>same DEF vars, leaseVars, clientVars
  <1>16. \A v \in Workers, target \in {"COMPLETE", "PARTIAL"} : Finalize(v, target) => Ends(v)
    BY DEF Finalize, Ends, RequireLease, Terminal
  <1>17. \A v \in Workers : Fail(v) \/ Acknowledge(v) => Ends(v)
    BY DEF Fail, Acknowledge, Ends, RequireLease, Terminal
  <1> QED
    BY StepCases, <1>end, <1>1, <1>2, <1>3, <1>4, <1>5, <1>6, <1>7, <1>8, <1>9, <1>9a, <1>10,
       <1>11, <1>12, <1>13, <1>14, <1>15, <1>16, <1>17

LEMMA JobsNext == JobsInv /\ [Next]_vars => JobsInv'
  BY TypeNext, RowShapeNext, HeldRunsNext, LeaseNext, AttemptsNext, LatestNext, LoadedNext
     DEF JobsInv

\* The invariant holds in every reachable state.
THEOREM JobsInvariant == Spec => []JobsInv
  BY JobsInit, JobsNext, PTL DEF Spec

\* The columns of every table keep their types in every reachable state.
THEOREM TypeCorrect == Spec => []TypeOK
  <1>1. JobsInv => TypeOK
    BY DEF JobsInv
  <1> QED
    BY <1>1, JobsInvariant, PTL

\* Rows outside RUNNING carry no lease, and a RUNNING row the last token issued.
THEOREM LeaseColumns == Spec => []LeaseOnlyWhileRunning
  <1>1. JobsInv => LeaseOnlyWhileRunning
    BY DEF JobsInv
  <1> QED
    BY <1>1, JobsInvariant, PTL

\* No run is claimed more often than its max_attempts, and none is queued when it
\* has no attempt left.
THEOREM Attempts == Spec => []AttemptsBounded
  <1>1. JobsInv => AttemptsBounded
    BY DEF JobsInv
  <1> QED
    BY <1>1, JobsInvariant, PTL

\* latest_analysis_run_id names the session's active run.
THEOREM LatestIsActive == Spec => []ActiveRunIsLatest
  <1>1. JobsInv => ActiveRunIsLatest
    BY DEF JobsInv
  <1> QED
    BY <1>1, JobsInvariant, PTL

\* A session never has two active runs: both would have to be its latest.
THEOREM SingleActiveRun == Spec => []OneActiveRun
  <1>1. JobsInv => OneActiveRun
    <2> SUFFICES ASSUME ActiveRunIsLatest, NEW r1 \in Runs, NEW r2 \in Runs,
                        status[r1] \in Active, status[r2] \in Active,
                        request[r1].session = request[r2].session
                 PROVE  r1 = r2
      BY DEF JobsInv, OneActiveRun
    <2>1. latestRun[request[r1].session] = r1 /\ latestRun[request[r2].session] = r2
      BY DEF ActiveRunIsLatest
    <2> QED
      BY <2>1
  <1> QED
    BY <1>1, JobsInvariant, PTL

\* A worker whose session shows the lease as held does hold it, however old the
\* object it looks at: the fencing of attempts survives the stale ORM row.
THEOREM FencedByLoadedRow == Spec => []LoadedLeaseIsCurrent
  <1>1. JobsInv => LoadedLeaseIsCurrent
    <2> SUFFICES ASSUME JobsInv, NEW w \in Workers, client[w].pc = "held",
                        LeaseHeld(Seen(w), w, client[w].token)
                 PROVE  /\ LeaseHeld(RowOf(client[w].run), w, client[w].token)
                        /\ leaseLeft[client[w].run] >= Seen(w).left
      BY DEF LoadedLeaseIsCurrent
    <2>1. /\ status[client[w].run] = "RUNNING" /\ leaseOwner[client[w].run] = w
          /\ leaseToken[client[w].run] = client[w].token
          /\ leaseLeft[client[w].run] > 0 /\ leaseLeft[client[w].run] >= Seen(w).left
      BY SeenIsCurrent
    <2> QED
      BY <2>1 DEF LeaseHeld, RowOf
  <1> QED
    BY <1>1, JobsInvariant, PTL

\* No step touches a row that has ended.
LEMMA TerminalStep ==
    ASSUME JobsInv, [Next]_vars, NEW x \in Runs, status[x] \in Terminal
    PROVE  /\ status'[x] = status[x] /\ attempt'[x] = attempt[x]
           /\ errorCode'[x] = errorCode[x] /\ cancelRequested'[x] = cancelRequested[x]
  <1> DEFINE Same == /\ status'[x] = status[x] /\ attempt'[x] = attempt[x]
                     /\ errorCode'[x] = errorCode[x] /\ cancelRequested'[x] = cancelRequested[x]
  <1>0. TypeOK
    BY DEF JobsInv
  <1>a. status[x] \notin {"ABSENT", "PENDING", "QUEUED", "RUNNING"}
    BY DEF Terminal
  <1>same. UNCHANGED <<status, attempt, errorCode, cancelRequested>> => Same
    OBVIOUS
  <1>end. ASSUME NEW w \in Workers, Ends(w), errorCode'[x] = errorCode[x] \/ x = client[w].run
          PROVE  Same
    <2>1. x # client[w].run
      BY <1>a, <1>end, SeenIsCurrent DEF Ends
    <2> QED
      BY <1>0, <1>end, <2>1 DEF Ends, EndRun, TypeOK
  <1>1. ASSUME NEW c \in Callers, NEW q \in Request, BeginCreate(c, q) PROVE Same
    BY <1>1 DEF BeginCreate
  <1>2. ASSUME NEW c \in Callers, CheckCreate(c) PROVE Same
    BY <1>2 DEF CheckCreate
  <1>3. ASSUME NEW c \in Callers, NEW r \in Runs, InsertRun(c, r) PROVE Same
    BY <1>0, <1>3, <1>a DEF InsertRun, TypeOK
  <1>4. ASSUME NEW c \in Callers, InsertConflict(c) \/ ResolveConflict(c) PROVE Same
    BY <1>4 DEF InsertConflict, ResolveConflict
  <1>5. ASSUME NEW w \in Workers, NEW taken \in SUBSET Expired, Reclaim(w, taken) PROVE Same
    BY <1>0, <1>5, <1>a DEF Reclaim, Expired, TypeOK
  <1>6. ASSUME NEW w \in Workers, NoJob(w) \/ Refresh(w) \/ Reload(w) \/ Drop(w) PROVE Same
    BY <1>6 DEF NoJob, Refresh, Reload, Drop
  <1>7. ASSUME NEW w \in Workers, NEW r \in Runs, Claim(w, r) PROVE Same
    BY <1>0, <1>7, <1>a DEF Claim, TypeOK
  <1>8. ASSUME NEW w \in Workers, NEW r \in Runs, Heartbeat(w, r, leaseToken[r]) PROVE Same
    BY <1>8 DEF Heartbeat
  <1>9. ASSUME NEW w \in Workers, NEW target \in {"COMPLETE", "PARTIAL"}, Finalize(w, target)
        PROVE  Same
    BY <1>9, <1>end DEF Finalize, Ends, RequireLease, Terminal
  <1>10. ASSUME NEW w \in Workers, Fail(w) PROVE Same
    <2>1. Ends(w)
      BY <1>10 DEF Fail, Ends, RequireLease, Terminal
    <2>2. errorCode'[x] = errorCode[x] \/ x = client[w].run
      BY <1>0, <1>10 DEF Fail, TypeOK
    <2> QED
      BY <1>end, <2>1, <2>2
  <1>11. ASSUME NEW w \in Workers, Acknowledge(w) PROVE Same
    BY <1>11, <1>end DEF Acknowledge, Ends, Terminal
  <1>12. ASSUME NEW r \in Runs, CancelQueued(r) PROVE Same
    BY <1>0, <1>12, <1>a DEF CancelQueued, TypeOK
  <1>13. ASSUME NEW r \in Runs, CancelRunning(r) PROVE Same
    BY <1>0, <1>13, <1>a DEF CancelRunning, TypeOK
  <1>14. CASE Tick
    BY <1>14 DEF Tick
  <1>15. CASE UNCHANGED vars
    BY <1>15 DEF vars
  <1> QED
    BY StepCases, <1>1, <1>2, <1>3, <1>4, <1>5, <1>6, <1>7, <1>8, <1>9, <1>10, <1>11,
       <1>12, <1>13, <1>14, <1>15

\* The outcome of a run is final.
THEOREM OutcomeIsFinal == Spec => TerminalIsFinal
  <1>1. JobsInv /\ [Next]_vars =>
          [\A r \in Runs : status[r] \in Terminal =>
             /\ status'[r] = status[r] /\ attempt'[r] = attempt[r]
             /\ errorCode'[r] = errorCode[r] /\ cancelRequested'[r] = cancelRequested[r]]_vars
    BY TerminalStep
  <1> QED
    BY <1>1, JobsInvariant, PTL DEF Spec, TerminalIsFinal

\* An expired lease is past saving: whichever worker is late, its guard looks at a
\* lease no longer than the row's.
LEMMA ExpiredStep ==
    ASSUME JobsInv, [Next]_vars, NEW x \in Runs, status[x] = "RUNNING", leaseLeft[x] = 0
    PROVE  \/ status'[x] = "RUNNING" /\ leaseLeft'[x] = 0
           \/ status'[x] = "QUEUED"
           \/ status'[x] = "FAILED" /\ errorCode'[x] = "MAX_ATTEMPTS_EXCEEDED"
  <1> DEFINE Held == status'[x] = "RUNNING" /\ leaseLeft'[x] = 0
  <1>0. TypeOK
    BY DEF JobsInv
  <1>1. CASE UNCHANGED rowVars
    BY <1>1 DEF rowVars, leaseVars
  <1>2. ASSUME NEW c \in Callers, NEW r \in Runs, InsertRun(c, r) PROVE Held
    BY <1>0, <1>2 DEF InsertRun, leaseVars, TypeOK
  <1>3. ASSUME NEW w \in Workers, NEW taken \in SUBSET Expired, Reclaim(w, taken)
        PROVE  \/ Held \/ status'[x] = "QUEUED"
               \/ status'[x] = "FAILED" /\ errorCode'[x] = "MAX_ATTEMPTS_EXCEEDED"
    BY <1>0, <1>3 DEF Reclaim, ClearLease, TypeOK
  <1>4. ASSUME NEW w \in Workers, NEW r \in Runs, Claim(w, r) PROVE Held
    BY <1>0, <1>4 DEF Claim, TypeOK
  <1>5. ASSUME NEW w \in Workers, NEW r \in Runs, Heartbeat(w, r, leaseToken[r]) PROVE Held
    BY <1>0, <1>5 DEF Heartbeat, RequireLease, LeaseHeld, RowOf, TypeOK
  <1>6. ASSUME NEW w \in Workers, Ends(w) PROVE Held
    <2>1. x # client[w].run
      BY <1>6, SeenIsCurrent DEF Ends
    <2> QED
      BY <1>0, <1>6, <2>1 DEF Ends, EndRun, ClearLease, TypeOK
  <1>7. ASSUME NEW r \in Runs, CancelQueued(r) PROVE Held
    BY <1>0, <1>7 DEF CancelQueued, ClearLease, TypeOK
  <1>8. CASE Tick
    BY <1>0, <1>8 DEF Tick, Countdown, TypeOK
  <1> QED
    BY RowCases, <1>1, <1>2, <1>3, <1>4, <1>5, <1>6, <1>7, <1>8

\* Only reclaim moves a run whose lease has passed.
THEOREM ExpiryIsFinal == Spec => ExpiredLeaseIsDead
  <1>1. JobsInv /\ [Next]_vars =>
          [\A r \in Runs : status[r] = "RUNNING" /\ leaseLeft[r] = 0 =>
             \/ status'[r] = "RUNNING" /\ leaseLeft'[r] = 0
             \/ status'[r] = "QUEUED"
             \/ status'[r] = "FAILED" /\ errorCode'[r] = "MAX_ATTEMPTS_EXCEEDED"]_vars
    BY ExpiredStep
  <1> QED
    BY <1>1, JobsInvariant, PTL DEF Spec, ExpiredLeaseIsDead

-----------------------------------------------------------------------------
(***************************************************************************)
(* Idempotent requests.  OneRunPerKey speaks of replies only, so it is not *)
(* inductive: a reply read long ago must still name the one row with its   *)
(* key.  KeyUnique is what the unique index on (session, idempotency_key)  *)
(* keeps, and RepliesNameRuns ties every reply with a key to such a row.   *)
(***************************************************************************)
Keyed(r, q) == /\ status[r] # "ABSENT"
               /\ request[r].session = q.session
               /\ request[r].key = q.key

KeyUnique ==
    \A r1, r2 \in Runs :
        /\ request[r1].key # NoKey
        /\ status[r1] # "ABSENT" /\ Keyed(r2, request[r1])
        => r1 = r2

\* The reply `a` to the request `q` is an error or names a row made for q's key.
NamesRow(a, q) ==
    a.code = "OK" /\ q.key # NoKey =>
        a.run \in Runs /\ Keyed(a.run, q) /\ Fingerprint(request[a.run]) = Fingerprint(q)
RepliesNameRuns == \A c \in Callers : NamesRow(call[c].reply, call[c].req)
\* The same, of the rows as a step leaves them.
NamesRowThen(a, q) ==
    a.code = "OK" /\ q.key # NoKey =>
        /\ a.run \in Runs /\ status'[a.run] # "ABSENT"
        /\ request'[a.run].session = q.session /\ request'[a.run].key = q.key
        /\ Fingerprint(request'[a.run]) = Fingerprint(q)

KeyInv == JobsInv /\ KeyUnique /\ RepliesNameRuns

\* A row that exists keeps the request it was made for, and only the INSERT of a
\* request makes a row.
LEMMA RowsKept ==
    ASSUME JobsInv, [Next]_vars, NEW x \in Runs
    PROVE  /\ status[x] # "ABSENT" => status'[x] # "ABSENT" /\ request'[x] = request[x]
           /\ status[x] = "ABSENT" /\ status'[x] # "ABSENT"
                => \E c \in Callers : InsertRun(c, x)
  <1> DEFINE Kept == /\ (status[x] = "ABSENT") <=> (status'[x] = "ABSENT")
                     /\ request'[x] = request[x]
  <1>0. TypeOK
    BY DEF JobsInv
  <1>1. CASE UNCHANGED rowVars
    BY <1>1 DEF rowVars
  <1>2. ASSUME NEW c \in Callers, NEW r \in Runs, InsertRun(c, r) PROVE r = x \/ Kept
    BY <1>0, <1>2 DEF InsertRun, TypeOK
  <1>3. ASSUME NEW w \in Workers, NEW taken \in SUBSET Expired, Reclaim(w, taken) PROVE Kept
    BY <1>0, <1>3 DEF Reclaim, Expired, TypeOK
  <1>4. ASSUME NEW w \in Workers, NEW r \in Runs, Claim(w, r) PROVE Kept
    BY <1>0, <1>4 DEF Claim, TypeOK
  <1>5. ASSUME NEW w \in Workers, NEW r \in Runs, Heartbeat(w, r, leaseToken[r]) PROVE Kept
    BY <1>5 DEF Heartbeat
  <1>6. ASSUME NEW w \in Workers, Ends(w) PROVE Kept
    <2>1. status[client[w].run] = "RUNNING"
      BY <1>6, SeenIsCurrent DEF Ends
    <2> QED
      BY <1>0, <1>6, <2>1 DEF Ends, EndRun, Terminal, TypeOK
  <1>7. ASSUME NEW r \in Runs, CancelQueued(r) PROVE Kept
    BY <1>0, <1>7 DEF CancelQueued, TypeOK
  <1>8. CASE Tick
    BY <1>8 DEF Tick
  <1>9. ASSUME NEW c \in Callers, InsertRun(c, x) PROVE status[x] = "ABSENT"
    BY <1>9 DEF InsertRun
  <1> QED
    BY RowCases, <1>1, <1>2, <1>3, <1>4, <1>5, <1>6, <1>7, <1>8, <1>9

\* The INSERT passes the index on the key, so the new row is the only one with it.
LEMMA KeyUniqueNext == JobsInv /\ KeyUnique /\ [Next]_vars => KeyUnique'
  <1> SUFFICES ASSUME JobsInv, KeyUnique, [Next]_vars,
                      NEW r1 \in Runs, NEW r2 \in Runs,
                      (request[r1].key)' # NoKey, (status[r1])' # "ABSENT",
                      Keyed(r2, request[r1])'
               PROVE  r1 = r2
    BY DEF KeyUnique
  <1>0. TypeOK
    BY DEF JobsInv
  <1>1. /\ status'[r1] # "ABSENT" /\ status'[r2] # "ABSENT" /\ request'[r1].key # NoKey
        /\ request'[r2].session = request'[r1].session /\ request'[r2].key = request'[r1].key
    BY DEF Keyed
  <1>2. CASE status[r1] # "ABSENT" /\ status[r2] # "ABSENT"
    <2>1. request'[r1] = request[r1] /\ request'[r2] = request[r2]
      BY <1>2, RowsKept
    <2> QED
      BY <1>1, <1>2, <2>1 DEF KeyUnique, Keyed
  <1>3. ASSUME NEW x \in Runs, NEW y \in Runs, {x, y} = {r1, r2}, x # y,
               status[x] = "ABSENT"
        PROVE  FALSE
    <2>1. status'[x] # "ABSENT" /\ status'[y] # "ABSENT"
      BY <1>1, <1>3
    <2>2. PICK c \in Callers : InsertRun(c, x)
      BY <1>3, <2>1, RowsKept
    <2>3. /\ ~UniqueViolation(call[c].req) /\ request'[x] = call[c].req
          /\ request'[y] = request[y] /\ status'[y] = status[y]
      BY <1>0, <1>3, <2>2 DEF InsertRun, TypeOK
    <2>4. /\ request'[y].session = request'[x].session /\ request'[y].key = request'[x].key
          /\ request'[x].key # NoKey
      BY <1>1, <1>3
    <2>5. y \in KeyedRunsOf(call[c].req.session, call[c].req.key)
      BY <2>1, <2>3, <2>4 DEF KeyedRunsOf, RunsOf
    <2> QED
      BY <2>3, <2>5 DEF UniqueViolation
  <1> QED
    BY <1>2, <1>3

\* What the lookups find for a key is a row with that key and that fingerprint.
LEMMA FoundIsKeyed ==
    ASSUME NEW q
    PROVE  NamesRow(ExistingReply(q), q)
  <1> DEFINE keyed == KeyedRunsOf(q.session, q.key)
             found == CHOOSE x \in keyed : TRUE
  <1> SUFFICES ASSUME ExistingReply(q).code = "OK", q.key # NoKey
               PROVE  LET a == ExistingReply(q) IN
                        /\ a.run \in Runs /\ Keyed(a.run, q)
                        /\ Fingerprint(request[a.run]) = Fingerprint(q)
    BY DEF NamesRow
  <1>1. keyed # {} /\ Fingerprint(request[found]) = Fingerprint(q)
        /\ ExistingReply(q) = Ok(found)
    BY DEF ExistingReply, Reject, NoReply, Ok
  <1>2. found \in keyed
    BY <1>1
  <1>3. found \in Runs /\ Keyed(found, q)
    BY <1>2 DEF KeyedRunsOf, RunsOf, Keyed
  <1>4. ExistingReply(q).run = found
    BY <1>1 DEF Ok
  <1> HIDE DEF found
  <1> QED
    BY <1>1, <1>3, <1>4

\* The steps as the calls see them.
LEMMA CallCases ==
    ASSUME [Next]_vars
    PROVE  \/ UNCHANGED call
           \/ \E c \in Callers, q \in Request : BeginCreate(c, q)
           \/ \E c \in Callers : CheckCreate(c) \/ InsertConflict(c) \/ ResolveConflict(c)
           \/ \E c \in Callers, r \in Runs : InsertRun(c, r)
  <1>1. ASSUME NEW w \in Workers, NEW taken \in SUBSET Expired, Reclaim(w, taken)
        PROVE  UNCHANGED call
    BY <1>1 DEF Reclaim
  <1>2. ASSUME NEW w \in Workers, NoJob(w) \/ Refresh(w) \/ Reload(w) \/ Drop(w) PROVE UNCHANGED call
    BY <1>2 DEF NoJob, Refresh, Reload, Drop
  <1>3. ASSUME NEW w \in Workers, NEW r \in Runs,
               Claim(w, r) \/ Heartbeat(w, r, leaseToken[r])
        PROVE  UNCHANGED call
    BY <1>3 DEF Claim, Heartbeat
  <1>4. ASSUME NEW w \in Workers, NEW target \in {"COMPLETE", "PARTIAL"}, Finalize(w, target)
        PROVE  UNCHANGED call
    BY <1>4 DEF Finalize, EndRun
  <1>5. ASSUME NEW w \in Workers, Fail(w) \/ Acknowledge(w) PROVE UNCHANGED call
    BY <1>5 DEF Fail, Acknowledge, EndRun
  <1>6. ASSUME NEW r \in Runs, CancelQueued(r) \/ CancelRunning(r) PROVE UNCHANGED call
    BY <1>6 DEF CancelQueued, CancelRunning
  <1>7. Tick \/ UNCHANGED vars => UNCHANGED call
    BY DEF Tick, vars
  <1> QED
    BY StepCases, <1>1, <1>2, <1>3, <1>4, <1>5, <1>6, <1>7

\* A reply, once given, is not changed, and the row it names stays what it was.
LEMMA RepliesNext == JobsInv /\ RepliesNameRuns /\ [Next]_vars => RepliesNameRuns'
  <1> SUFFICES ASSUME JobsInv, RepliesNameRuns, [Next]_vars, NEW d \in Callers
               PROVE  NamesRowThen(call'[d].reply, call'[d].req)
    BY DEF RepliesNameRuns, NamesRow, NamesRowThen, Keyed, Fingerprint
  <1>0. TypeOK /\ call \in [Callers -> Call]
    BY DEF JobsInv, TypeOK
  <1>kept. ASSUME NEW c \in Callers, NEW a, NamesRow(a, call[c].req)
           PROVE  NamesRowThen(a, call[c].req)
    BY <1>kept, RowsKept DEF NamesRow, NamesRowThen, Keyed
  <1>old. NamesRowThen(call[d].reply, call[d].req)
    BY <1>kept DEF RepliesNameRuns
  <1>same. ASSUME call'[d].reply = call[d].reply, call'[d].req = call[d].req
           PROVE  NamesRowThen(call'[d].reply, call'[d].req)
    BY <1>old, <1>same
  <1>none. \A q, code : code # "OK" => NamesRow(Reject(code), q)
    BY DEF NamesRow, Reject
  <1>answer. ASSUME NEW c \in Callers, NEW reply, Answer(c, reply),
                    NamesRowThen(reply, call[c].req)
             PROVE  NamesRowThen(call'[d].reply, call'[d].req)
    <2>1. CASE d = c
      <3>1. call'[d].reply = reply /\ call'[d].req = call[c].req
        BY <1>0, <1>answer, <2>1 DEF Answer, Call
      <3> QED
        BY <3>1, <1>answer
    <2>2. CASE d # c
      BY <1>0, <1>answer, <1>same, <2>2 DEF Answer
    <2> QED
      BY <2>1, <2>2
  <1>1. CASE UNCHANGED call
    BY <1>1, <1>same
  <1>2. ASSUME NEW c \in Callers, NEW q \in Request, BeginCreate(c, q)
        PROVE  NamesRowThen(call'[d].reply, call'[d].req)
    <2>1. CASE d = c
      <3>1. call'[d].reply.code # "OK"
        BY <1>0, <1>2, <2>1 DEF BeginCreate, NoReply, Reject
      <3> QED
        BY <3>1 DEF NamesRowThen
    <2>2. CASE d # c
      BY <1>0, <1>2, <1>same, <2>2 DEF BeginCreate
    <2> QED
      BY <2>1, <2>2
  <1>3. ASSUME NEW c \in Callers, CheckCreate(c)
        PROVE  NamesRowThen(call'[d].reply, call'[d].req)
    <2> DEFINE q == call[c].req
    <2>1. CASE Answer(c, ExistingReply(q))
      BY <2>1, <1>kept, <1>answer, FoundIsKeyed
    <2>2. CASE Answer(c, Reject("SESSION_NOT_READY_FOR_ANALYSIS"))
      BY <2>2, <1>kept, <1>answer, <1>none
    <2>3. CASE call' = [call EXCEPT ![c].pc = "insert"]
      BY <1>0, <2>3, <1>same DEF Call
    <2> QED
      BY <1>3, <2>1, <2>2, <2>3 DEF CheckCreate
  <1>4. ASSUME NEW c \in Callers, InsertConflict(c)
        PROVE  NamesRowThen(call'[d].reply, call'[d].req)
    BY <1>0, <1>4, <1>same DEF InsertConflict, Call
  <1>5. ASSUME NEW c \in Callers, ResolveConflict(c)
        PROVE  NamesRowThen(call'[d].reply, call'[d].req)
    <2> DEFINE q == call[c].req
    <2>1. CASE Answer(c, ExistingReply(q))
      BY <2>1, <1>kept, <1>answer, FoundIsKeyed
    <2>2. CASE Answer(c, Reject("ACTIVE_ANALYSIS_RUN_EXISTS"))
      BY <2>2, <1>kept, <1>answer, <1>none
    <2> QED
      BY <1>5, <2>1, <2>2 DEF ResolveConflict
  <1>6. ASSUME NEW c \in Callers, NEW r \in Runs, InsertRun(c, r)
        PROVE  NamesRowThen(call'[d].reply, call'[d].req)
    <2>1. status'[r] = "QUEUED" /\ request'[r] = call[c].req
      BY <1>0, <1>6 DEF InsertRun, TypeOK
    <2>2. NamesRowThen(Ok(r), call[c].req)
      BY <2>1 DEF NamesRowThen, Ok, Fingerprint
    <2> QED
      BY <1>6, <1>answer, <2>2 DEF InsertRun
  <1> QED
    BY CallCases, <1>1, <1>2, <1>3, <1>4, <1>5, <1>6

LEMMA KeyInit == Init => KeyInv
  <1> SUFFICES ASSUME Init PROVE KeyUnique /\ RepliesNameRuns
    BY JobsInit DEF KeyInv
  <1>1. KeyUnique
    BY DEF Init, NoRuns, KeyUnique
  <1>2. RepliesNameRuns
    BY DEF Init, NoRuns, RepliesNameRuns, NamesRow, IdleCall, NoReply, Reject
  <1> QED
    BY <1>1, <1>2

\* A client that repeats a request under its idempotency key is answered with the
\* run the first of them made, however lookups, inserts and conflicts interleave.
THEOREM RetriesMeetOneRun == Spec => []OneRunPerKey
  <1>1. KeyInv /\ [Next]_vars => KeyInv'
    BY JobsNext, KeyUniqueNext, RepliesNext DEF KeyInv
  <1>2. KeyInv => OneRunPerKey
    <2> SUFFICES ASSUME KeyInv, NEW c \in Callers, NEW d \in Callers,
                        call[c].reply.code = "OK", call[d].reply.code = "OK",
                        call[c].req.key # NoKey, call[c].req.key = call[d].req.key,
                        call[c].req.session = call[d].req.session
                 PROVE  /\ call[c].reply.run = call[d].reply.run
                        /\ Fingerprint(call[c].req) = Fingerprint(call[d].req)
      BY DEF OneRunPerKey
    <2>1. NamesRow(call[c].reply, call[c].req) /\ NamesRow(call[d].reply, call[d].req)
      BY DEF KeyInv, RepliesNameRuns
    <2>2. call[c].reply.run = call[d].reply.run
      BY <2>1 DEF NamesRow, Keyed, KeyInv, KeyUnique
    <2> QED
      BY <2>1, <2>2 DEF NamesRow
  <1> QED
    BY <1>1, <1>2, KeyInit, PTL DEF Spec

-----------------------------------------------------------------------------
\* An invariant, as the sessions of this module start with their video uploaded.
AllReady == \A s \in Sessions : sessionStatus[s] \in Analysable

ShownInv == JobsInv /\ AllReady /\ ShownBundleMatches

\* How one step moves a session: the INSERT queues it, a claim starts it, and its
\* run's end, by a worker or by reclaim, finishes it while it says PROCESSING.
SessionMove(s) ==
    \/ sessionStatus'[s] = sessionStatus[s] /\ bundleOf'[s] = bundleOf[s]
    \/ sessionStatus'[s] = "QUEUED" /\ bundleOf'[s] = bundleOf[s]
    \/ /\ sessionStatus[s] = "QUEUED" /\ sessionStatus'[s] = "PROCESSING"
       /\ bundleOf'[s] = bundleOf[s]
    \/ /\ sessionStatus[s] = "PROCESSING" /\ sessionStatus'[s] = "FAILED"
       /\ bundleOf'[s] = bundleOf[s]
    \/ /\ sessionStatus[s] = "PROCESSING" /\ sessionStatus'[s] \in {"COMPLETE", "PARTIAL"}
       /\ bundleOf'[s] \in Runs /\ status'[bundleOf'[s]] = sessionStatus'[s]

LEMMA SessionMoves ==
    ASSUME JobsInv, [Next]_vars, NEW s \in Sessions
    PROVE  SessionMove(s)
  <1>0. TypeOK
    BY DEF JobsInv
  <1>same. UNCHANGED <<sessionStatus, bundleOf>> => SessionMove(s)
    BY DEF SessionMove
  <1>1. ASSUME NEW c \in Callers, NEW q \in Request, BeginCreate(c, q) PROVE SessionMove(s)
    BY <1>1, <1>same DEF BeginCreate, sessionVars
  <1>2. ASSUME NEW c \in Callers, CheckCreate(c) \/ InsertConflict(c) \/ ResolveConflict(c)
        PROVE  SessionMove(s)
    BY <1>2, <1>same DEF CheckCreate, InsertConflict, ResolveConflict, sessionVars
  <1>3. ASSUME NEW c \in Callers, NEW r \in Runs, InsertRun(c, r) PROVE SessionMove(s)
    BY <1>0, <1>3 DEF InsertRun, QueuedSession, SessionMove, TypeOK
  <1>4. ASSUME NEW w \in Workers, NEW taken \in SUBSET Expired, Reclaim(w, taken)
        PROVE  SessionMove(s)
    BY <1>0, <1>4 DEF Reclaim, SessionAfter, SessionMove, TypeOK
  <1>5. ASSUME NEW w \in Workers, NoJob(w) \/ Refresh(w) \/ Reload(w) \/ Drop(w) PROVE SessionMove(s)
    BY <1>5, <1>same DEF NoJob, Refresh, Reload, Drop, sessionVars
  <1>6. ASSUME NEW w \in Workers, NEW r \in Runs, Claim(w, r) PROVE SessionMove(s)
    BY <1>0, <1>6 DEF Claim, ClaimedSession, SessionMove, TypeOK
  <1>7. ASSUME NEW w \in Workers, NEW r \in Runs, Heartbeat(w, r, leaseToken[r])
        PROVE  SessionMove(s)
    BY <1>7, <1>same DEF Heartbeat, sessionVars
  <1>8. ASSUME NEW w \in Workers, NEW target \in {"COMPLETE", "PARTIAL"}, Finalize(w, target)
        PROVE  SessionMove(s)
    <2> DEFINE r == client[w].run
               t == request[r].session
    <2>1. r \in Runs /\ status' = [status EXCEPT ![r] = target]
      BY <1>8 DEF Finalize, EndRun, JobsInv, HeldRuns
    <2>2. status'[r] = target
      BY <1>0, <2>1 DEF TypeOK
    <2>3. /\ sessionStatus' = [sessionStatus EXCEPT ![t] = SessionAfter(t, target)]
          /\ bundleOf' = IF sessionStatus[t] = "PROCESSING"
                         THEN [bundleOf EXCEPT ![t] = r] ELSE bundleOf
      BY <1>8 DEF Finalize
    <2> HIDE DEF r, t
    <2>4. CASE s = t /\ sessionStatus[s] = "PROCESSING"
      <3>1. sessionStatus'[s] = target /\ bundleOf'[s] = r
        BY <1>0, <2>3, <2>4 DEF SessionAfter, TypeOK
      <3> QED
        BY <2>1, <2>2, <2>4, <3>1 DEF SessionMove
    <2>5. CASE ~(s = t /\ sessionStatus[s] = "PROCESSING")
      <3>1. sessionStatus'[s] = sessionStatus[s] /\ bundleOf'[s] = bundleOf[s]
        BY <1>0, <2>3, <2>5 DEF SessionAfter, TypeOK
      <3> QED
        BY <3>1 DEF SessionMove
    <2> QED
      BY <2>4, <2>5
  <1>9. ASSUME NEW w \in Workers, Fail(w) PROVE SessionMove(s)
    BY <1>0, <1>9 DEF Fail, SessionAfter, SessionMove, TypeOK
  <1>10. ASSUME NEW w \in Workers, Acknowledge(w) PROVE SessionMove(s)
    BY <1>10, <1>same DEF Acknowledge
  <1>11. ASSUME NEW r \in Runs, CancelQueued(r) \/ CancelRunning(r) PROVE SessionMove(s)
    BY <1>11, <1>same DEF CancelQueued, CancelRunning, sessionVars
  <1>12. Tick \/ UNCHANGED vars => SessionMove(s)
    BY <1>same DEF Tick, vars, sessionVars
  <1> QED
    BY StepCases, <1>1, <1>2, <1>3, <1>4, <1>5, <1>6, <1>7, <1>8, <1>9, <1>10, <1>11, <1>12

LEMMA ShownInit == Init => ShownInv
  <1> SUFFICES ASSUME Init PROVE AllReady /\ ShownBundleMatches
    BY JobsInit DEF ShownInv
  <1> QED
    BY DEF Init, AllReady, ShownBundleMatches, Analysable, SessionStatus

LEMMA ShownNext == ShownInv /\ [Next]_vars => ShownInv'
  <1> SUFFICES ASSUME ShownInv, [Next]_vars PROVE ShownInv'
    OBVIOUS
  <1>1. JobsInv' /\ JobsInv
    BY JobsNext DEF ShownInv
  <1>2. AllReady'
    BY <1>1, SessionMoves DEF ShownInv, AllReady, SessionMove, Analysable, SessionStatus
  <1>3. ASSUME NEW s \in Sessions, sessionStatus'[s] \in {"COMPLETE", "PARTIAL"}
        PROVE  bundleOf'[s] # NoRun /\ status'[bundleOf'[s]] = sessionStatus'[s]
    <2>1. SessionMove(s)
      BY <1>1, SessionMoves
    <2>2. CASE /\ sessionStatus[s] = "PROCESSING" /\ bundleOf'[s] \in Runs
               /\ status'[bundleOf'[s]] = sessionStatus'[s]
      BY <2>2, JobsAssumption
    <2>3. CASE sessionStatus'[s] = sessionStatus[s] /\ bundleOf'[s] = bundleOf[s]
      <3>1. bundleOf[s] # NoRun /\ status[bundleOf[s]] = sessionStatus[s]
        BY <1>3, <2>3 DEF ShownInv, ShownBundleMatches
      <3>2. bundleOf[s] \in Runs /\ status[bundleOf[s]] \in Terminal
        BY <1>1, <1>3, <2>3, <3>1 DEF JobsInv, TypeOK, Terminal
      <3>3. status'[bundleOf[s]] = status[bundleOf[s]]
        BY <1>1, <3>2, TerminalStep
      <3> QED
        BY <2>3, <3>1, <3>3
    <2> QED
      BY <1>3, <2>1, <2>2, <2>3 DEF SessionMove
  <1> QED
    BY <1>1, <1>2, <1>3 DEF ShownInv, ShownBundleMatches

\* A session that says COMPLETE or PARTIAL shows the bundle of a run that ended so:
\* the run it shows is over, and the status leaves those two only for QUEUED.
THEOREM ShownBundles == Spec => []ShownBundleMatches
  <1>1. ShownInv => ShownBundleMatches
    BY DEF ShownInv
  <1> QED
    BY <1>1, ShownInit, ShownNext, PTL DEF Spec

\* The status of a session moves along domain/transitions.py, although the check
\* runs on the status a transaction read before it.
THEOREM SessionsFollowTable == Spec => SessionFollowsTable
  <1>1. ShownInv /\ [Next]_vars =>
          [\A s \in Sessions : sessionStatus'[s] # sessionStatus[s] =>
             sessionStatus'[s] \in SessionTransitions[sessionStatus[s]]]_vars
    <2> SUFFICES ASSUME ShownInv, [Next]_vars, NEW s \in Sessions,
                        sessionStatus'[s] # sessionStatus[s]
                 PROVE  sessionStatus'[s] \in SessionTransitions[sessionStatus[s]]
      OBVIOUS
    <2>1. SessionMove(s)
      BY SessionMoves DEF ShownInv
    <2>2. sessionStatus[s] \in Analysable
      BY DEF ShownInv, AllReady
    <2> QED
      BY <2>1, <2>2 DEF SessionMove, SessionTransitions, Analysable, SessionStatus
  <1> QED
    BY <1>1, ShownInit, ShownNext, PTL DEF Spec, SessionFollowsTable
===============================================================================
