----------------------------- MODULE AnalysisJobs -----------------------------
(***************************************************************************)
(* The analysis-job service: the rows of `analysis_runs` and the columns   *)
(* of `sessions` it owns, one action per committed transaction of          *)
(* services/analysis_jobs.py.  API callers request and cancel runs;        *)
(* workers claim, renew, finish and acknowledge them through a             *)
(* WorkerContractClient whose ORM session may still hold the row as it was *)
(* when it was claimed (the session factory has expire_on_commit=False and *)
(* SELECT ... FOR UPDATE does not overwrite a loaded object).              *)
(*                                                                         *)
(* Transactions take row locks and are READ COMMITTED, so each is one step *)
(* of the model; what a call read in an earlier statement it keeps in      *)
(* `call` (request handlers) or `loaded` (worker clients).                 *)
(***************************************************************************)
EXTENDS Integers

CONSTANTS
    Runs,        \* identifiers of analysis_runs rows (uuid4), used or not yet
    Sessions,    \* rows of `sessions`; here their source video is uploaded
    Workers,     \* worker identities
    Callers,     \* requests for a run received by the API, one each
    Profiles,    \* processing profiles
    Keys,        \* idempotency keys
    Limits,      \* values of max_attempts a request may carry
    LeaseTicks,  \* LEASE_SECONDS, in ticks of the clock
    NoRun, NoKey, NoWorker   \* NULL in the columns of each type

ASSUME JobsAssumption ==
    /\ Limits \subseteq Nat \ {0}
    /\ LeaseTicks \in Nat \ {0}
    /\ NoRun \notin Runs
    /\ NoKey \notin Keys
    /\ NoWorker \notin Workers

VARIABLES
    status,           \* AnalysisRun.status, "ABSENT" before the row exists
    request,          \* the columns a row keeps from the request that made it
    attempt,          \* AnalysisRun.attempt
    cancelRequested,  \* cancel_requested_at is not NULL
    leaseOwner,       \* lease_owner
    leaseToken,       \* lease_token, 0 for NULL
    leaseLeft,        \* ticks until lease_expires_at, 0 when it has passed
    errorCode,        \* error_code, "NONE" for NULL
    issued,           \* how many tokens uuid4 has produced for the run
    sessionStatus,    \* SessionRecord.status
    latestRun,        \* SessionRecord.latest_analysis_run_id
    bundleOf,         \* the run whose fingerprint is SessionRecord.bundle_fingerprint
    call,             \* create_and_queue_run calls in progress, and their replies
    client,           \* the WorkerContractClient of each worker
    loaded            \* the AnalysisRun object in that client's ORM session

leaseVars   == <<leaseOwner, leaseToken, leaseLeft>>
sessionVars == <<sessionStatus, latestRun, bundleOf>>
clientVars  == <<client, loaded>>
vars == <<status, request, attempt, cancelRequested, leaseVars, errorCode,
          issued, sessionVars, call, clientVars>>

-----------------------------------------------------------------------------
Active   == {"PENDING", "QUEUED", "RUNNING"}
Terminal == {"COMPLETE", "PARTIAL", "FAILED", "CANCELLED"}
RunStatus == Active \cup Terminal \cup {"ABSENT"}
SessionStatus == {"DRAFT", "AWAITING_UPLOAD", "UPLOADING", "UPLOADED", "QUEUED",
                  "PROCESSING", "COMPLETE", "PARTIAL", "FAILED"}
\* Mutant: an upload in progress is enough.
Analysable_Uploading == SessionStatus \ {"DRAFT", "AWAITING_UPLOAD"}
\* The statuses in which a run may be requested.
Analysable == SessionStatus \ {"DRAFT", "AWAITING_UPLOAD", "UPLOADING"}

Request == [session : Sessions, profile : Profiles, limit : Limits,
            key : Keys \cup {NoKey}]
NoRequest == [session |-> NoRun, profile |-> NoRun, limit |-> 0, key |-> NoKey]

Fingerprint(q) == <<q.profile, q.limit>>

Row == [status : RunStatus, owner : Workers \cup {NoWorker}, token : Nat,
        left : 0..LeaseTicks, cancel : BOOLEAN]

\* What a SELECT of the lease columns of run r returns now.
RowOf(r) == [status |-> status[r], owner |-> leaseOwner[r],
             token |-> leaseToken[r], left |-> leaseLeft[r],
             cancel |-> cancelRequested[r]]
NoRow == [status |-> "ABSENT", owner |-> NoWorker, token |-> 0, left |-> 0,
          cancel |-> FALSE]

Client == [pc : {"idle", "reclaimed", "held"}, run : Runs \cup {NoRun},
           token : Nat, stale : BOOLEAN]
IdleClient == [pc |-> "idle", run |-> NoRun, token |-> 0, stale |-> FALSE]

Reply == [code : {"NONE", "OK", "IDEMPOTENCY_KEY_REUSED", "ACTIVE_ANALYSIS_RUN_EXISTS",
                  "SESSION_NOT_READY_FOR_ANALYSIS"},
          run : Runs \cup {NoRun}]
Ok(r) == [code |-> "OK", run |-> r]
Reject(code) == [code |-> code, run |-> NoRun]
NoReply == Reject("NONE")

Call == [pc : {"idle", "session", "insert", "conflict", "done"},
         req : Request \cup {NoRequest},
         seen : SessionStatus, reply : Reply]
IdleCall == [pc |-> "idle", req |-> NoRequest, seen |-> "UPLOADED", reply |-> NoReply]

-----------------------------------------------------------------------------
RunsOf(s) == {r \in Runs : status[r] # "ABSENT" /\ request[r].session = s}
ActiveRunsOf(s) == {r \in RunsOf(s) : status[r] \in Active}
KeyedRunsOf(s, k) == IF k = NoKey THEN {} ELSE {r \in RunsOf(s) : request[r].key = k}

\* The early returns of create_and_queue_run: what an existing row answers, or
\* NoReply when none does.
ExistingReply(q) ==
    LET keyed == KeyedRunsOf(q.session, q.key)
        same  == {r \in ActiveRunsOf(q.session) : request[r].profile = q.profile}
    IN  IF keyed # {}
        THEN LET r == CHOOSE x \in keyed : TRUE
             IN  IF Fingerprint(request[r]) = Fingerprint(q)
                 THEN Ok(r) ELSE Reject("IDEMPOTENCY_KEY_REUSED")
        ELSE IF same = {} THEN NoReply
        ELSE IF q.key = NoKey THEN Ok(CHOOSE x \in same : TRUE)
        ELSE Reject("ACTIVE_ANALYSIS_RUN_EXISTS")

Answer(c, reply) == call' = [call EXCEPT ![c].pc = "done", ![c].reply = reply]

\* get_session: the handler's ORM session keeps this status until it commits.
BeginCreate(c, q) ==
    /\ call[c].pc = "idle"
    /\ call' = [call EXCEPT ![c] = [pc |-> "session", req |-> q,
                                    seen |-> sessionStatus[q.session],
                                    reply |-> NoReply]]
    /\ UNCHANGED <<status, request, attempt, cancelRequested, leaseVars,
                   errorCode, issued, sessionVars, clientVars>>

\* The lookups before the INSERT.  An analysable session has a source video
\* (SessionUpload), so the check of source_video_id is subsumed.
CheckCreate(c) ==
    /\ call[c].pc = "session"
    /\ LET q == call[c].req IN
         IF ExistingReply(q) # NoReply THEN Answer(c, ExistingReply(q))
         ELSE IF ActiveRunsOf(q.session) # {} \/ call[c].seen \notin Analysable
         THEN Answer(c, Reject("SESSION_NOT_READY_FOR_ANALYSIS"))
         ELSE call' = [call EXCEPT ![c].pc = "insert"]
    /\ UNCHANGED <<status, request, attempt, cancelRequested, leaseVars,
                   errorCode, issued, sessionVars, clientVars>>

\* Mutants of the unique indexes: only the per-profile index; no key index.
UniqueViolation_ProfileOnly(q) ==
    \/ \E r \in ActiveRunsOf(q.session) : request[r].profile = q.profile
    \/ KeyedRunsOf(q.session, q.key) # {}
UniqueViolation_NoIndex(q) == KeyedRunsOf(q.session, q.key) # {}
UniqueViolation_NoKeyIndex(q) == ActiveRunsOf(q.session) # {}

\* The partial unique indexes on the active session and on the idempotency key.
UniqueViolation(q) ==
    \/ ActiveRunsOf(q.session) # {}
    \/ KeyedRunsOf(q.session, q.key) # {}

\* The status the commit writes to the session: none if the handler saw QUEUED.
QueuedSession(s, seen) == IF seen # "QUEUED" THEN "QUEUED" ELSE sessionStatus[s]

\* INSERT as PENDING, then QUEUED, committed together with the session's columns.
InsertRun(c, r) ==
    LET q == call[c].req IN
    /\ call[c].pc = "insert"
    /\ status[r] = "ABSENT"
    /\ ~UniqueViolation(q)
    /\ status' = [status EXCEPT ![r] = "QUEUED"]
    /\ request' = [request EXCEPT ![r] = q]
    /\ latestRun' = [latestRun EXCEPT ![q.session] = r]
    /\ sessionStatus' = [sessionStatus EXCEPT ![q.session] = QueuedSession(q.session, call[c].seen)]
    /\ Answer(c, Ok(r))
    /\ UNCHANGED <<attempt, cancelRequested, leaseVars, errorCode, issued,
                   bundleOf, clientVars>>

\* IntegrityError: the transaction is rolled back and the lookups are repeated.
InsertConflict(c) ==
    /\ call[c].pc = "insert"
    /\ UniqueViolation(call[c].req)
    /\ call' = [call EXCEPT ![c].pc = "conflict"]
    /\ UNCHANGED <<status, request, attempt, cancelRequested, leaseVars,
                   errorCode, issued, sessionVars, clientVars>>

ResolveConflict(c) ==
    /\ call[c].pc = "conflict"
    /\ LET found == ExistingReply(call[c].req) IN
         Answer(c, IF found # NoReply THEN found ELSE Reject("ACTIVE_ANALYSIS_RUN_EXISTS"))
    /\ UNCHANGED <<status, request, attempt, cancelRequested, leaseVars,
                   errorCode, issued, sessionVars, clientVars>>

-----------------------------------------------------------------------------
\* Mutant: the token survives.
ClearLease_KeepToken(S) ==
    /\ leaseOwner' = [r \in Runs |-> IF r \in S THEN NoWorker ELSE leaseOwner[r]]
    /\ leaseLeft' = [r \in Runs |-> IF r \in S THEN 0 ELSE leaseLeft[r]]
    /\ UNCHANGED leaseToken

ClearLease(S) ==
    /\ leaseOwner' = [r \in Runs |-> IF r \in S THEN NoWorker ELSE leaseOwner[r]]
    /\ leaseToken' = [r \in Runs |-> IF r \in S THEN 0 ELSE leaseToken[r]]
    /\ leaseLeft' = [r \in Runs |-> IF r \in S THEN 0 ELSE leaseLeft[r]]

\* Mutant: whatever the session says.
SessionAfter_Always(s, outcome) == outcome

\* A session follows its run's outcome only while it says PROCESSING.
SessionAfter(s, outcome) ==
    IF sessionStatus[s] = "PROCESSING" THEN outcome ELSE sessionStatus[s]

\* Mutants: the lease is taken a tick early; one attempt too many.
Expired_Early == {r \in Runs : status[r] = "RUNNING" /\ leaseLeft[r] <= 1}
Exhausted_OffByOne(r) == attempt[r] > request[r].limit

Expired == {r \in Runs : status[r] = "RUNNING" /\ leaseLeft[r] = 0}
Exhausted(r) == attempt[r] >= request[r].limit

\* reclaim_expired_jobs, the first transaction of a claim.  `taken` leaves out
\* rows that SKIP LOCKED passed over.
Reclaim(w, taken) ==
    LET spent == {r \in taken : Exhausted(r)} IN
    /\ client[w].pc = "idle"
    /\ taken \subseteq Expired
    /\ status' = [r \in Runs |-> IF r \in spent THEN "FAILED"
                                 ELSE IF r \in taken THEN "QUEUED" ELSE status[r]]
    /\ errorCode' = [r \in Runs |-> IF r \in spent THEN "MAX_ATTEMPTS_EXCEEDED"
                                    ELSE errorCode[r]]
    /\ ClearLease(taken)
    /\ sessionStatus' = [s \in Sessions |->
                           IF \E r \in spent : request[r].session = s
                           THEN SessionAfter(s, "FAILED") ELSE sessionStatus[s]]
    /\ client' = [client EXCEPT ![w].pc = "reclaimed"]
    /\ UNCHANGED <<request, attempt, cancelRequested, issued, latestRun,
                   bundleOf, call, loaded>>

\* get_next_queued is empty: every queued row is locked by another claim.
NoJob(w) ==
    /\ client[w].pc = "reclaimed"
    /\ client' = [client EXCEPT ![w] = IdleClient]
    /\ UNCHANGED <<status, request, attempt, cancelRequested, leaseVars,
                   errorCode, issued, sessionVars, call, loaded>>

\* Mutant: without the check for QUEUED.
ClaimedSession_Always(s) == "PROCESSING"

ClaimedSession(s) == IF sessionStatus[s] = "QUEUED" THEN "PROCESSING" ELSE sessionStatus[s]

\* Mutant: only the first claim is counted.
NextAttempt_FirstOnly(r) == IF attempt[r] = 0 THEN 1 ELSE attempt[r]
NextAttempt(r) == attempt[r] + 1

\* The second transaction of a claim.  The oldest queued row may be locked and
\* skipped, so any queued row can be taken.  The branch for attempt > max_attempts
\* is dead: AttemptsBounded.
Claim(w, r) ==
    /\ client[w].pc = "reclaimed"
    /\ status[r] = "QUEUED"
    /\ NextAttempt(r) <= request[r].limit
    /\ attempt' = [attempt EXCEPT ![r] = NextAttempt(r)]
    /\ sessionStatus' = [sessionStatus EXCEPT ![request[r].session] =
                           ClaimedSession(request[r].session)]
    /\ issued' = [issued EXCEPT ![r] = @ + 1]
    /\ status' = [status EXCEPT ![r] = "RUNNING"]
    /\ leaseOwner' = [leaseOwner EXCEPT ![r] = w]
    /\ leaseToken' = [leaseToken EXCEPT ![r] = issued[r] + 1]
    /\ leaseLeft' = [leaseLeft EXCEPT ![r] = LeaseTicks]
    /\ client' = [client EXCEPT ![w] = [pc |-> "held", run |-> r,
                                        token |-> issued[r] + 1, stale |-> TRUE]]
    /\ loaded' = [loaded EXCEPT ![w] = [status |-> "RUNNING", owner |-> w,
                                        token |-> issued[r] + 1, left |-> LeaseTicks,
                                        cancel |-> cancelRequested[r]]]
    /\ UNCHANGED <<request, cancelRequested, errorCode, latestRun, bundleOf, call>>

-----------------------------------------------------------------------------
\* Mutants: the expiry is not checked; neither owner nor token is.
LeaseHeld_NoExpiry(row, w, t) == row.status = "RUNNING" /\ row.owner = w /\ row.token = t
LeaseHeld_AnyHolder(row, w, t) == row.status = "RUNNING" /\ row.left > 0

\* _require_lease, on a row as the caller's ORM session shows it.
LeaseHeld(row, w, t) ==
    /\ row.status = "RUNNING"
    /\ row.owner = w
    /\ row.token = t
    /\ row.left > 0
RequireLease(row, w, t) == LeaseHeld(row, w, t) /\ ~row.cancel

\* The row the client's session shows: the loaded object until it is expired.
Seen(w) == IF client[w].stale THEN loaded[w] ELSE RowOf(client[w].run)

\* Mutant: the loaded object is kept.
Refresh_KeepLoaded(w) == client[w].pc = "held" /\ UNCHANGED vars

\* db.expire_all(), db.rollback(): the next access reads the row again.
Refresh(w) ==
    /\ client[w].pc = "held"
    /\ client' = [client EXCEPT ![w].stale = FALSE]
    /\ loaded' = [loaded EXCEPT ![w] = NoRow]
    /\ UNCHANGED <<status, request, attempt, cancelRequested, leaseVars,
                   errorCode, issued, sessionVars, call>>

\* run.id on an expired object: the row is read, without a lock, and the object
\* keeps what it read.
Reload(w) ==
    /\ client[w].pc = "held"
    /\ client' = [client EXCEPT ![w].stale = TRUE]
    /\ loaded' = [loaded EXCEPT ![w] = Seen(w)]
    /\ UNCHANGED <<status, request, attempt, cancelRequested, leaseVars,
                   errorCode, issued, sessionVars, call>>

\* Mutant: a renewal extends the old expiry instead of starting from now.
Heartbeat_Extends(w, r, t) ==
    /\ RequireLease(RowOf(r), w, t)
    /\ leaseLeft' = [leaseLeft EXCEPT ![r] = @ + LeaseTicks]
    /\ UNCHANGED <<status, request, attempt, cancelRequested, leaseOwner,
                   leaseToken, errorCode, issued, sessionVars, call, clientVars>>

\* heartbeat: its own session, so always the current row.
Heartbeat(w, r, t) ==
    /\ RequireLease(RowOf(r), w, t)
    /\ leaseLeft' = [leaseLeft EXCEPT ![r] = LeaseTicks]
    /\ UNCHANGED <<status, request, attempt, cancelRequested, leaseOwner,
                   leaseToken, errorCode, issued, sessionVars, call, clientVars>>

\* What every transition to a terminal status by a worker does to the row; the
\* service refreshes the object afterwards.
EndRun(w, r, outcome) ==
    /\ status' = [status EXCEPT ![r] = outcome]
    /\ ClearLease({r})
    /\ client' = [client EXCEPT ![w].stale = FALSE]
    /\ loaded' = [loaded EXCEPT ![w] = NoRow]
    /\ UNCHANGED <<request, attempt, cancelRequested, issued, latestRun, call>>

\* complete_run and partial_run, with artifacts that pass _validate_artifacts.
Finalize(w, target) ==
    LET r == client[w].run  s == request[r].session IN
    /\ client[w].pc = "held"
    /\ RequireLease(Seen(w), w, client[w].token)
    /\ EndRun(w, r, target)
    /\ sessionStatus' = [sessionStatus EXCEPT ![s] = SessionAfter(s, target)]
    /\ bundleOf' = IF sessionStatus[s] = "PROCESSING"
                   THEN [bundleOf EXCEPT ![s] = r] ELSE bundleOf
    /\ UNCHANGED errorCode

Fail(w) ==
    LET r == client[w].run  s == request[r].session IN
    /\ client[w].pc = "held"
    /\ RequireLease(Seen(w), w, client[w].token)
    /\ EndRun(w, r, "FAILED")
    /\ errorCode' = [errorCode EXCEPT ![r] = "WORKER_FAILED"]
    /\ sessionStatus' = [sessionStatus EXCEPT ![s] = SessionAfter(s, "FAILED")]
    /\ UNCHANGED bundleOf

\* acknowledge_cancellation leaves the session alone.
Acknowledge(w) ==
    /\ client[w].pc = "held"
    /\ LeaseHeld(Seen(w), w, client[w].token)
    /\ Seen(w).cancel
    /\ EndRun(w, client[w].run, "CANCELLED")
    /\ UNCHANGED <<errorCode, sessionStatus, bundleOf>>

\* run_once returns, or the worker process dies.
Drop(w) ==
    /\ client[w].pc # "idle"
    /\ client' = [client EXCEPT ![w] = IdleClient]
    /\ loaded' = [loaded EXCEPT ![w] = NoRow]
    /\ UNCHANGED <<status, request, attempt, cancelRequested, leaseVars,
                   errorCode, issued, sessionVars, call>>

-----------------------------------------------------------------------------
\* request_cancellation: at once while nobody works on the run, else a request.
CancelQueued(r) ==
    /\ status[r] \in {"PENDING", "QUEUED"}
    /\ status' = [status EXCEPT ![r] = "CANCELLED"]
    /\ cancelRequested' = [cancelRequested EXCEPT ![r] = TRUE]
    /\ ClearLease({r})
    /\ UNCHANGED <<request, attempt, errorCode, issued, sessionVars, call, clientVars>>

\* Mutant: the last raise of request_cancellation is missing.
CancelRunning_AnyStatus(r) ==
    /\ status[r] \notin {"ABSENT", "QUEUED"}
    /\ cancelRequested' = [cancelRequested EXCEPT ![r] = TRUE]
    /\ UNCHANGED <<status, request, attempt, leaseVars, errorCode, issued,
                   sessionVars, call, clientVars>>

CancelRunning(r) ==
    /\ status[r] = "RUNNING"
    /\ cancelRequested' = [cancelRequested EXCEPT ![r] = TRUE]
    /\ UNCHANGED <<status, request, attempt, leaseVars, errorCode, issued,
                   sessionVars, call, clientVars>>

\* Time passes for every deadline, the ones in loaded objects included.
Countdown(n) == IF n > 0 THEN n - 1 ELSE 0
Tick ==
    /\ \E r \in Runs : leaseLeft[r] > 0
    /\ leaseLeft' = [r \in Runs |-> Countdown(leaseLeft[r])]
    /\ loaded' = [w \in Workers |-> [loaded[w] EXCEPT !.left = Countdown(@)]]
    /\ UNCHANGED <<status, request, attempt, cancelRequested, leaseOwner,
                   leaseToken, errorCode, issued, sessionVars, call, client>>

-----------------------------------------------------------------------------
\* No run, no call in progress.
NoRuns ==
    /\ status = [r \in Runs |-> "ABSENT"]
    /\ request = [r \in Runs |-> NoRequest]
    /\ attempt = [r \in Runs |-> 0]
    /\ cancelRequested = [r \in Runs |-> FALSE]
    /\ leaseOwner = [r \in Runs |-> NoWorker]
    /\ leaseToken = [r \in Runs |-> 0]
    /\ leaseLeft = [r \in Runs |-> 0]
    /\ errorCode = [r \in Runs |-> "NONE"]
    /\ issued = [r \in Runs |-> 0]
    /\ latestRun = [s \in Sessions |-> NoRun]
    /\ bundleOf = [s \in Sessions |-> NoRun]
    /\ call = [c \in Callers |-> IdleCall]
    /\ client = [w \in Workers |-> IdleClient]
    /\ loaded = [w \in Workers |-> NoRow]

Init == NoRuns /\ sessionStatus = [s \in Sessions |-> "UPLOADED"]

CreateNext(c) ==
    \/ \E q \in Request : BeginCreate(c, q)
    \/ CheckCreate(c)
    \/ \E r \in Runs : InsertRun(c, r)
    \/ InsertConflict(c)
    \/ ResolveConflict(c)

ClientNext(w) ==
    \/ \E taken \in SUBSET Expired : Reclaim(w, taken)
    \/ NoJob(w)
    \/ \E r \in Runs : Claim(w, r)
    \/ Refresh(w)
    \/ Reload(w)
    \/ \E r \in Runs : Heartbeat(w, r, leaseToken[r])
    \/ \E target \in {"COMPLETE", "PARTIAL"} : Finalize(w, target)
    \/ Fail(w)
    \/ Acknowledge(w)
    \/ Drop(w)

Next ==
    \/ \E c \in Callers : CreateNext(c)
    \/ \E w \in Workers : ClientNext(w)
    \/ \E r \in Runs : CancelQueued(r) \/ CancelRunning(r)
    \/ Tick

Spec == Init /\ [][Next]_vars

-----------------------------------------------------------------------------
(***************************************************************************)
(* Properties                                                              *)
(***************************************************************************)

\* Every column holds a value of its type; in particular no lease ends more than
\* LEASE_SECONDS ahead, however often it is renewed.
TypeOK ==
    /\ status \in [Runs -> RunStatus]
    /\ request \in [Runs -> Request \cup {NoRequest}]
    /\ attempt \in [Runs -> Nat]
    /\ cancelRequested \in [Runs -> BOOLEAN]
    /\ leaseOwner \in [Runs -> Workers \cup {NoWorker}]
    /\ leaseToken \in [Runs -> Nat]
    /\ leaseLeft \in [Runs -> 0..LeaseTicks]
    /\ errorCode \in [Runs -> {"NONE", "WORKER_FAILED", "MAX_ATTEMPTS_EXCEEDED"}]
    /\ issued \in [Runs -> Nat]
    /\ sessionStatus \in [Sessions -> SessionStatus]
    /\ latestRun \in [Sessions -> Runs \cup {NoRun}]
    /\ bundleOf \in [Sessions -> Runs \cup {NoRun}]
    /\ call \in [Callers -> Call]
    /\ client \in [Workers -> Client]
    /\ loaded \in [Workers -> Row]

\* A row carries lease columns exactly while it is RUNNING, and then the token
\* is the last one issued for it: every way out of RUNNING, reclaim, cancel and
\* the worker's own, has to clear them.
LeaseOnlyWhileRunning ==
    \A r \in Runs :
        IF status[r] = "RUNNING"
        THEN leaseOwner[r] \in Workers /\ leaseToken[r] = issued[r] /\ issued[r] > 0
        ELSE leaseOwner[r] = NoWorker /\ leaseToken[r] = 0 /\ leaseLeft[r] = 0

\* `attempt` counts the tokens issued and stays within max_attempts, and a row is
\* requeued only with an attempt left, so the attempt > max_attempts branch of
\* claim_next_job, whose commit the check constraint would refuse, is never taken.
AttemptsBounded ==
    \A r \in Runs : status[r] # "ABSENT" =>
        /\ attempt[r] = issued[r]
        /\ attempt[r] <= request[r].limit
        /\ status[r] = "QUEUED" => attempt[r] < request[r].limit

\* A session has at most one active run whatever requests, retries and requeues do.
OneActiveRun ==
    \A r1, r2 \in Runs :
        /\ status[r1] \in Active /\ status[r2] \in Active
        /\ request[r1].session = request[r2].session
        => r1 = r2

\* The active run of a session is the one latest_analysis_run_id names.
ActiveRunIsLatest ==
    \A r \in Runs : status[r] \in Active => latestRun[request[r].session] = r

\* The guard of a transition may look at a row loaded when the run was claimed:
\* as long as that object's lease has not passed, the row is still RUNNING under
\* the same owner and token, so a superseded worker cannot end another's attempt.
LoadedLeaseIsCurrent ==
    \A w \in Workers :
        client[w].pc = "held" /\ LeaseHeld(Seen(w), w, client[w].token) =>
            /\ LeaseHeld(RowOf(client[w].run), w, client[w].token)
            /\ leaseLeft[client[w].run] >= Seen(w).left

\* Calls that carry one idempotency key for one session and are answered with a
\* run are answered with the same run, made for the same fingerprint, whichever
\* of them inserted it and however their lookups and inserts interleaved.
OneRunPerKey ==
    \A c, d \in Callers :
        /\ call[c].reply.code = "OK" /\ call[d].reply.code = "OK"
        /\ call[c].req.key # NoKey /\ call[c].req.key = call[d].req.key
        /\ call[c].req.session = call[d].req.session
        => /\ call[c].reply.run = call[d].reply.run
           /\ Fingerprint(call[c].req) = Fingerprint(call[d].req)

\* A session that says COMPLETE or PARTIAL shows the bundle of a run that ended
\* that way, even when the run that is active now was queued over a stale read.
ShownBundleMatches ==
    \A s \in Sessions :
        sessionStatus[s] \in {"COMPLETE", "PARTIAL"} =>
            bundleOf[s] # NoRun /\ status[bundleOf[s]] = sessionStatus[s]

\* A terminal row is never written again: no late cancel, reclaim or worker
\* call changes its outcome.
TerminalIsFinal ==
    [][\A r \in Runs : status[r] \in Terminal =>
          /\ status'[r] = status[r] /\ attempt'[r] = attempt[r]
          /\ errorCode'[r] = errorCode[r] /\ cancelRequested'[r] = cancelRequested[r]]_vars

\* Once the lease in the row has passed, only reclaim moves the run: back to the
\* queue, or to FAILED with MAX_ATTEMPTS_EXCEEDED.  No heartbeat revives it.
ExpiredLeaseIsDead ==
    [][\A r \in Runs : status[r] = "RUNNING" /\ leaseLeft[r] = 0 =>
          \/ status'[r] = "RUNNING" /\ leaseLeft'[r] = 0
          \/ status'[r] = "QUEUED"
          \/ status'[r] = "FAILED" /\ errorCode'[r] = "MAX_ATTEMPTS_EXCEEDED"]_vars

\* The session's status only moves along domain/transitions.py, although the
\* check that enforces it runs on the status the transaction read, not the row.
SessionTransitions ==
    [s \in SessionStatus |->
        CASE s = "DRAFT" -> {"AWAITING_UPLOAD"}
          [] s = "AWAITING_UPLOAD" -> {"UPLOADING"}
          [] s = "UPLOADING" -> {"UPLOADED"}
          [] s = "UPLOADED" -> {"QUEUED"}
          [] s = "QUEUED" -> {"PROCESSING"}
          [] s = "PROCESSING" -> {"COMPLETE", "PARTIAL", "FAILED", "QUEUED"}
          [] OTHER -> {"QUEUED"}]
SessionFollowsTable ==
    [][\A s \in Sessions : sessionStatus'[s] # sessionStatus[s] =>
          sessionStatus'[s] \in SessionTransitions[sessionStatus[s]]]_vars

\* "claiming moves QUEUED -> PROCESSING" (STAGE2B): a session whose run is being
\* worked on says so.
RunningShowsProcessing ==
    \A r \in Runs : status[r] = "RUNNING" => sessionStatus[request[r].session] = "PROCESSING"
===============================================================================
