---------------------------- MODULE WorkerRuntime ----------------------------
(***************************************************************************)
(* The worker process around the analysis-job service: run_once of         *)
(* worker/runtime.py with its heartbeat and cancellation-watch threads,    *)
(* the publication of a processor's artifacts to object storage, and what  *)
(* shutdown, crashes, database errors and storage errors do to them.       *)
(*                                                                         *)
(* A worker calls the service through the actions of AnalysisJobs; its own *)
(* steps are the points where run_once reads an Event, calls the processor *)
(* or the storage, or unwinds through one of its except clauses.           *)
(***************************************************************************)
EXTENDS AnalysisJobs

CONSTANTS
    Artifacts,  \* relative paths of the artifacts a processor returns
    Outcomes,   \* the statuses the configured processor may return
    Faults      \* which faults the environment may inject

Outcome == {"COMPLETE", "PARTIAL", "FAILED", "CANCELLED", "INVALID"}

ASSUME RuntimeAssumption ==
    /\ Outcomes \subseteq Outcome
    /\ Faults \subseteq {"crash", "signal", "put", "delete", "commit", "outage"}

VARIABLES
    worker,   \* the frame of run_once in each worker process, and its Events
    objects,  \* keys of the bundle objects in the bucket
    bundle    \* Artifact rows of each run: the object keys they name

runtimeVars == <<worker, objects, bundle>>
allVars == <<vars, runtimeVars>>

-----------------------------------------------------------------------------
Idle == {"down", "poll"}

\* Mutant: keys are not scoped by attempt.
ObjectKey_Shared(r, n, a) == [run |-> r, attempt |-> 0, name |-> a]
\* bundle_artifact_key(run_id, f"attempt-{attempt}/{relative}")
ObjectKey(r, n, a) == [run |-> r, attempt |-> n, name |-> a]
Keyspace == [run : Runs, attempt : Nat, name : Artifacts]

Worker == [pc : Idle \cup {"work", "returned", "branch", "publish", "published",
                           "finalize", "ack", "fail", "discard", "raised", "leave",
                           "escape"},
           then : {"leave", "raised"},    \* where the discard loop goes on
           attempt : Nat,                 \* claimed_attempt
           outcome : Outcome,             \* result.status
           staged : SUBSET Keyspace,      \* keys the frame knows it has put
           cancelEvent : BOOLEAN, leaseLost : BOOLEAN, shutdown : BOOLEAN]
NewProcess == [pc |-> "poll", then |-> "leave", attempt |-> 0, outcome |-> "INVALID",
               staged |-> {}, cancelEvent |-> FALSE, leaseLost |-> FALSE,
               shutdown |-> FALSE]

At(w, l) == worker[w].pc = l
Goto(w, l) == worker' = [worker EXCEPT ![w].pc = l]
Busy(w) == worker[w].pc \notin Idle
\* Mutant: nothing is discarded.
DiscardThen_Skip(w, l) == worker' = [worker EXCEPT ![w].pc = l]
DiscardThen(w, l) == worker' = [worker EXCEPT ![w].pc = "discard", ![w].then = l]

KeyOf(w, a) == ObjectKey(client[w].run, worker[w].attempt, a)
\* The attempt must not go on: the lease is gone, or the process is stopping.
MustAbandon(w) == worker[w].leaseLost \/ worker[w].shutdown

-----------------------------------------------------------------------------
\* run, run_once: poll for a job.
Poll(w, taken) ==
    /\ At(w, "poll") /\ ~worker[w].shutdown
    /\ Reclaim(w, taken)
    /\ UNCHANGED runtimeVars

NothingQueued(w) ==
    /\ At(w, "poll")
    /\ NoJob(w)
    /\ UNCHANGED runtimeVars

\* The claim commits, the two threads start, the processor is called.
StartRun(w, r) ==
    /\ At(w, "poll")
    /\ Claim(w, r)
    /\ worker' = [worker EXCEPT ![w] =
                    [NewProcess EXCEPT !.pc = "work", !.attempt = NextAttempt(r),
                                       !.shutdown = worker[w].shutdown]]
    /\ UNCHANGED <<objects, bundle>>

ProcessorReturns(w, o) ==
    /\ At(w, "work")
    /\ worker' = [worker EXCEPT ![w].pc = "returned", ![w].outcome = o]
    /\ UNCHANGED <<vars, objects, bundle>>

\* process() raises, or the workspace was replaced: the row object is still the
\* one loaded by the claim.
ProcessorRaises(w) ==
    /\ At(w, "work")
    /\ DiscardThen(w, "raised")
    /\ UNCHANGED <<vars, objects, bundle>>

AbandonReturned(w) ==
    /\ At(w, "returned") /\ MustAbandon(w)
    /\ DiscardThen(w, "leave")
    /\ UNCHANGED <<vars, objects, bundle>>

\* db.expire_all() before any transition.
ReloadRun(w) ==
    /\ At(w, "returned") /\ ~MustAbandon(w)
    /\ Refresh(w)
    /\ Goto(w, "branch")
    /\ UNCHANGED <<objects, bundle>>

\* What run_once does next with the outcome and the Events.
NextStep(w) ==
    LET o == worker[w].outcome IN
    CASE o = "INVALID" -> IF MustAbandon(w) \/ worker[w].cancelEvent
                          THEN "leave" ELSE "fail"
      [] o # "INVALID" /\ (o = "CANCELLED" \/ worker[w].cancelEvent) -> "ack"
      [] o = "FAILED" /\ ~worker[w].cancelEvent -> "fail"
      [] OTHER -> "publish"

\* _publish is called with run.id, which reads the expired row.
Branch(w) ==
    /\ At(w, "branch")
    /\ IF NextStep(w) = "publish" THEN Reload(w) ELSE UNCHANGED vars
    /\ Goto(w, NextStep(w))
    /\ UNCHANGED <<objects, bundle>>

-----------------------------------------------------------------------------
\* _publish_impl, one artifact.
MayPut(w) == ~worker[w].cancelEvent /\ ~worker[w].shutdown

PutArtifact(w, a) ==
    /\ At(w, "publish") /\ MayPut(w)
    /\ KeyOf(w, a) \notin worker[w].staged
    /\ objects' = objects \cup {KeyOf(w, a)}
    /\ worker' = [worker EXCEPT ![w].staged = @ \cup {KeyOf(w, a)}]
    /\ UNCHANGED <<vars, bundle>>

\* PublicationError: an event is set, the artifact is rejected, or put_bytes
\* raises; with the "put" fault the object may be there all the same.  Any other
\* exception of _publish_impl goes on to the last except clause of run_once.
PublicationFails(w) ==
    /\ At(w, "publish")
    /\ \/ DiscardThen(w, "leave") /\ UNCHANGED objects
       \/ DiscardThen(w, "raised") /\ UNCHANGED objects
       \/ /\ "put" \in Faults /\ MayPut(w)
          /\ DiscardThen(w, "leave")
          /\ \E a \in Artifacts : objects' = objects \cup {KeyOf(w, a)}
    /\ UNCHANGED <<vars, bundle>>

AllPut(w) ==
    /\ At(w, "publish")
    /\ worker[w].staged = {KeyOf(w, a) : a \in Artifacts}
    /\ Goto(w, "published")
    /\ UNCHANGED <<vars, objects, bundle>>

AbandonPublished(w) ==
    /\ At(w, "published") /\ (MustAbandon(w) \/ worker[w].cancelEvent)
    /\ DiscardThen(w, "leave")
    /\ UNCHANGED <<vars, objects, bundle>>

\* db.rollback(): the finalization reads the row again.
BeginFinalize(w) ==
    /\ At(w, "published") /\ ~MustAbandon(w) /\ ~worker[w].cancelEvent
    /\ Refresh(w)
    /\ Goto(w, "finalize")
    /\ UNCHANGED <<objects, bundle>>

\* The last except clause of run_once when the row object is expired: run.id, an
\* argument of _discard_published, is a SELECT.  If the database answers, the row
\* is loaded and the keys are discarded; if it does not, that SELECT raises in the
\* handler and run_once is left without discarding anything.
HandleExpired(w) ==
    \/ Reload(w) /\ DiscardThen(w, "raised")
    \/ "outage" \in Faults /\ Goto(w, "escape") /\ UNCHANGED vars

\* The processor named a manifest it did not publish: ValueError.
UnsafeManifest(w) ==
    /\ At(w, "finalize")
    /\ HandleExpired(w)
    /\ UNCHANGED <<objects, bundle>>

\* What the transaction of complete_run or partial_run commits.
CommitBundle(w) ==
    /\ At(w, "finalize")
    /\ Finalize(w, worker[w].outcome)
    /\ bundle' = [bundle EXCEPT ![client[w].run] = @ \cup worker[w].staged]

FinalizeRun(w) ==
    /\ CommitBundle(w)
    /\ Goto(w, "leave")
    /\ UNCHANGED objects

\* The transaction commits and the reply is lost: db.commit() raises.
CommitReplyLost(w) ==
    /\ "commit" \in Faults
    /\ CommitBundle(w)
    /\ \/ DiscardThen(w, "raised")
       \/ "outage" \in Faults /\ Goto(w, "escape")
    /\ UNCHANGED objects

\* A service call raises PlatformError: the lease, the cancellation or the
\* artifact metadata (an empty file) is refused.
FinalizeRejected(w) ==
    /\ At(w, "finalize")
    /\ DiscardThen(w, "leave")
    /\ UNCHANGED <<vars, objects, bundle>>

\* A statement of the service call, or the SELECT for run.id before publication,
\* raises a database error: nothing is committed and the row object is expired.
\* ("raised" in `then` marks the call of client.fail whose errors are swallowed.)
DatabaseFails(w) ==
    /\ \/ worker[w].pc \in {"finalize", "ack"}
       \/ At(w, "branch") /\ NextStep(w) = "publish"
       \/ At(w, "fail") /\ worker[w].then = "leave"
    /\ HandleExpired(w)
    /\ UNCHANGED <<objects, bundle>>

-----------------------------------------------------------------------------
AcknowledgeCancel(w) ==
    /\ At(w, "ack")
    /\ Acknowledge(w)
    /\ Goto(w, "leave")
    /\ UNCHANGED <<objects, bundle>>

\* The except clause for any other exception: client.fail unless an Event says
\* that the lease is lost or the run is being cancelled.
Unwind(w) ==
    /\ At(w, "raised")
    /\ Goto(w, IF worker[w].leaseLost \/ worker[w].cancelEvent THEN "leave" ELSE "fail")
    /\ UNCHANGED <<vars, objects, bundle>>

FailRun(w) ==
    /\ At(w, "fail")
    /\ Fail(w)
    /\ Goto(w, "leave")
    /\ UNCHANGED <<objects, bundle>>

\* fail_run or acknowledge_cancellation is refused, or fail_run meets a database
\* error that the last except clause swallows.
TransitionRejected(w) ==
    /\ \/ At(w, "fail")
       \/ At(w, "ack") /\ ~(LeaseHeld(Seen(w), w, client[w].token) /\ Seen(w).cancel)
    /\ Goto(w, "leave")
    /\ UNCHANGED <<vars, objects, bundle>>

\* _discard_published skips keys outside this attempt; a delete can fail.
OwnKey(w, k) == k = KeyOf(w, k.name)

DiscardOne(w, k) ==
    /\ At(w, "discard") /\ k \in worker[w].staged
    /\ worker' = [worker EXCEPT ![w].staged = @ \ {k}]
    /\ \/ objects' = IF OwnKey(w, k) THEN objects \ {k} ELSE objects
       \/ "delete" \in Faults /\ UNCHANGED objects
    /\ UNCHANGED <<vars, bundle>>

\* Mutant: returns without the finally clause.
Discarded_NoFinally(w) ==
    /\ At(w, "discard") /\ worker[w].staged = {}
    /\ Goto(w, "poll")
    /\ UNCHANGED <<vars, objects, bundle>>
Discarded(w) ==
    /\ At(w, "discard") /\ worker[w].staged = {}
    /\ Goto(w, worker[w].then)
    /\ UNCHANGED <<vars, objects, bundle>>

\* Mutant: the stop request is forgotten with the frame.
Leave_ForgetShutdown(w) ==
    /\ At(w, "leave")
    /\ Drop(w)
    /\ worker' = [worker EXCEPT ![w] = NewProcess]
    /\ UNCHANGED <<objects, bundle>>

\* finally: stop the threads, remove the workspace, close the session.
Leave(w) ==
    /\ At(w, "leave")
    /\ Drop(w)
    /\ worker' = [worker EXCEPT ![w] = [NewProcess EXCEPT !.shutdown = worker[w].shutdown]]
    /\ UNCHANGED <<objects, bundle>>

\* The exception goes through the finally clause and out of `run`, which has no
\* handler: the process ends, and nothing has discarded the attempt's objects.
EndProcess(w) ==
    /\ At(w, "escape")
    /\ Drop(w)
    /\ worker' = [worker EXCEPT ![w] = [NewProcess EXCEPT !.pc = "down"]]
    /\ UNCHANGED <<objects, bundle>>

-----------------------------------------------------------------------------
\* _heartbeat_loop: renew, and give up for good when the renewal is refused or
\* the database cannot be reached.
Renew(w) ==
    /\ Busy(w) /\ ~worker[w].leaseLost
    /\ Heartbeat(w, client[w].run, client[w].token)
    /\ UNCHANGED runtimeVars

RenewFails(w) ==
    /\ Busy(w) /\ ~worker[w].leaseLost
    /\ worker' = [worker EXCEPT ![w].leaseLost = TRUE]
    /\ UNCHANGED <<vars, objects, bundle>>

\* _cancellation_loop; a database error after the lease is lost sets it too.
WatchCancel(w) ==
    /\ Busy(w) /\ ~worker[w].cancelEvent
    /\ cancelRequested[client[w].run] \/ worker[w].leaseLost
    /\ worker' = [worker EXCEPT ![w].cancelEvent = TRUE]
    /\ UNCHANGED <<vars, objects, bundle>>

\* SIGTERM, and the end of `run`.
RequestShutdown(w) ==
    /\ "signal" \in Faults
    /\ worker[w].pc # "down" /\ ~worker[w].shutdown
    /\ worker' = [worker EXCEPT ![w].shutdown = TRUE]
    /\ UNCHANGED <<vars, objects, bundle>>

Stop(w) ==
    /\ At(w, "poll") /\ worker[w].shutdown /\ client[w].pc = "idle"
    /\ Goto(w, "down")
    /\ UNCHANGED <<vars, objects, bundle>>

Crash(w) ==
    /\ "crash" \in Faults
    /\ Drop(w)
    /\ worker' = [worker EXCEPT ![w] = [NewProcess EXCEPT !.pc = "down"]]
    /\ UNCHANGED <<objects, bundle>>

Restart(w) ==
    /\ At(w, "down")
    /\ worker' = [worker EXCEPT ![w] = NewProcess]
    /\ UNCHANGED <<vars, objects, bundle>>

-----------------------------------------------------------------------------
WorkerInit ==
    /\ Init
    /\ worker = [w \in Workers |-> NewProcess]
    /\ objects = {}
    /\ bundle = [r \in Runs |-> {}]

\* One step of run_once after a claim.
Advance(w) ==
    \/ \E o \in Outcomes : ProcessorReturns(w, o)
    \/ ProcessorRaises(w)
    \/ AbandonReturned(w)
    \/ ReloadRun(w)
    \/ Branch(w)
    \/ \E a \in Artifacts : PutArtifact(w, a)
    \/ PublicationFails(w)
    \/ AllPut(w)
    \/ AbandonPublished(w)
    \/ BeginFinalize(w)
    \/ UnsafeManifest(w)
    \/ FinalizeRun(w)
    \/ CommitReplyLost(w)
    \/ FinalizeRejected(w)
    \/ DatabaseFails(w)
    \/ AcknowledgeCancel(w)
    \/ Unwind(w)
    \/ FailRun(w)
    \/ TransitionRejected(w)
    \/ \E k \in worker[w].staged : DiscardOne(w, k)
    \/ Discarded(w)
    \/ Leave(w)
    \/ EndProcess(w)

Threads(w) == Renew(w) \/ RenewFails(w) \/ WatchCancel(w)

WorkerNext(w) ==
    \/ \E taken \in SUBSET Expired : Poll(w, taken)
    \/ NothingQueued(w)
    \/ \E r \in Runs : StartRun(w, r)
    \/ Advance(w)
    \/ Threads(w)
    \/ RequestShutdown(w)
    \/ Stop(w)
    \/ Crash(w)
    \/ Restart(w)

\* API requests and the clock do not touch the worker processes.
ServiceNext ==
    /\ \/ \E c \in Callers : CreateNext(c)
       \/ \E r \in Runs : CancelQueued(r) \/ CancelRunning(r)
       \/ Tick
    /\ UNCHANGED runtimeVars

RuntimeNext == ServiceNext \/ \E w \in Workers : WorkerNext(w)

RuntimeSpec == WorkerInit /\ [][RuntimeNext]_allVars

\* The processor returns, the process scheduler runs every thread, a stopped
\* worker is started again; a claim that finds work is not for ever beaten to it
\* by locks, crashes or signals; clocks advance.  Renewals need no fairness.
WorkerFairness(w) ==
    /\ WF_allVars(Advance(w))
    /\ WF_allVars(NothingQueued(w))
    /\ WF_allVars(Stop(w))
    /\ WF_allVars(Restart(w))
    /\ SF_allVars(Poll(w, Expired))
    /\ SF_allVars(\E r \in Runs : StartRun(w, r))
FairRuntimeSpec ==
    /\ RuntimeSpec
    /\ \A w \in Workers : WorkerFairness(w)
    /\ WF_allVars(Tick /\ UNCHANGED runtimeVars)

-----------------------------------------------------------------------------
(***************************************************************************)
(* Properties                                                              *)
(***************************************************************************)

\* The frames, keys and Artifact rows are well formed, and a worker is inside
\* the try block of run_once exactly while its client holds a claim.
RuntimeTypeOK ==
    /\ TypeOK
    /\ worker \in [Workers -> Worker]
    /\ objects \subseteq Keyspace
    /\ bundle \in [Runs -> SUBSET Keyspace]
    /\ \A w \in Workers : Busy(w) <=> client[w].pc = "held"

Finished == {"COMPLETE", "PARTIAL"}

\* Every artifact row of a run names an object of the attempt that ended it: what
\* an attempt that lost its lease had published never reaches a bundle.
BundleFromFinalAttempt ==
    \A r \in Runs : \A k \in bundle[r] :
        status[r] \in Finished /\ k.run = r /\ k.attempt = attempt[r]

\* The objects a COMPLETE or PARTIAL run lists are in storage and stay there: no
\* other attempt's clean-up, and no late unwinding of the worker, deletes them.
FinishedRunHasObjects ==
    \A r \in Runs : status[r] \in Finished =>
        bundle[r] # {} /\ bundle[r] \subseteq objects

\* Without crashes, storage errors and a database that is still away when the
\* worker unwinds, every object in the bucket belongs to a finished run or to a
\* frame that will still publish or discard it.
NoOrphanObjects ==
    \A k \in objects :
        k \in bundle[k.run] \/ \E w \in Workers : k \in worker[w].staged

\* Two workers never run the same attempt, so its workspace directory, whose
\* existence would stop a worker with FileExistsError, is used once.
AttemptsDisjoint ==
    \A v, w \in Workers :
        /\ Busy(v) /\ Busy(w)
        /\ client[v].run = client[w].run
        /\ worker[v].attempt = worker[w].attempt
        => v = w

\* A run whose cancellation was committed before is never finished with a bundle.
CancelBlocksCompletion ==
    [][\A r \in Runs : cancelRequested[r] => status'[r] \notin Finished]_allVars

\* "subsequent complete, partial, and fail operations reject": a run whose
\* cancellation was committed before is not failed by its worker.
CancelBlocksFailure ==
    [][\A r \in Runs : cancelRequested[r] /\ errorCode[r] = "NONE" =>
          errorCode'[r] # "WORKER_FAILED"]_allVars

\* A queued run reaches a terminal status whatever happens to the workers that
\* take it: each attempt ends or its lease passes, and attempts are bounded.
RunsTerminate ==
    \A r \in Runs : status[r] = "QUEUED" ~> status[r] \in Terminal

\* A worker that is told to stop stops: the flag survives the run it is in, and
\* no poll starts another.
ShutdownStops ==
    \A w \in Workers : worker[w].shutdown ~> At(w, "down")
===============================================================================
