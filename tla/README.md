# TennisAI: a verification project

TLA+ modules for TennisAI: its session platform, the offline stages between a clip
and a bundle, and its browser tools. TLC configurations model-check them on small
instances, and TLAPS proves every safety property of the passing runs for all values of the
constants.

- [The system](#the-system): its parts, their state, how they interact.
- [The modules](#the-modules): which module models which part, and how.
- [The runs](#the-runs): what is checked, the bounds, what was found.
- [Fairness](#fairness)
- [The proofs](#the-proofs): what is proved, from what, and how.
- [Limits](#limits): what is only model-checked, what is not modelled.
- [Plan](#plan)

## The system

TennisAI turns the video of a rally into an analysis bundle. A **session
platform** (`src/platform`) takes uploads and hands analysis runs to workers; a
set of offline **pipelines** (`src/tracker`, `src/player_perception`,
`src/events`, `src/court`, `src/reconstruction3d*`, `src/analytics`,
`src/product`) computes; two small web **tools** (`tools/`) collect manual
annotations.

| part | state it keeps | operations | talks to |
|---|---|---|---|
| session lifecycle, `services/sessions.py`, `domain/transitions.py` | `sessions`: status, source video, latest run, bundle fingerprint | create, list, get, transition | called by every service below, inside their transactions |
| upload service, `services/uploads.py` | `videos`; the session's status and pointer | initiate, complete | object storage (presign, HEAD); the client's PUT goes around it |
| analysis-job service, `services/analysis_jobs.py` | `analysis_runs`: status, attempt, lease, cancellation, outcome; `artifacts` | request, cancel (API); claim with reclaim, heartbeat, complete, partial, fail, acknowledge (worker) | the session row |
| worker runtime, `worker/runtime.py` | one frame of `run_once`, its events and threads; objects it has put | poll, process, publish, finalize, unwind, clean up; heartbeat and cancellation threads; signals | the job service, object storage, the processor |
| object storage, `storage/` | objects by key | presign, head, put, delete | external (MinIO/S3) |
| attempt workspace, `worker/workspace.py` | one directory per attempt | create, check identity, remove | the worker |
| HTTP API, `api/` | none | routing, error envelopes | the services |
| event annotator, `tools/event_annotator_app` | event list, undo stack, draft file, export | create, update, delete, undo, export, restore | the browser; several threads |
| vertical reference app, `tools/vertical_reference_app` | four points, draft, reference, refined camera model, readiness | click, undo, reset, save and evaluate | the browser; several threads without a lock; the outputs of Stage 5A |
| court calibration, `court/calibrate_web.py`, `calibrate_interactive.py` | eight points, the corners file | click, submit, shut down; confirm | the browser; read by `court/homography.py` |
| frame timing, `video`, `project/clip_manifest.py` | manifest, timestamp sidecar, overlay | probe, pair frames with times, turn, encode, verify | ffprobe, OpenCV, ffmpeg |
| smoothing, `tracker/trajectory_smoothing.py` | one row per frame, trajectory and report | classify, reject, fill, average, write | files |
| player perception, `player_perception` | tracks, feet, identities, last choice | link boxes, assign sides, audit contacts, select | files; detector and pose networks |
| reconstruction, `scripts/stage5b_a2.py`, `stage5b_v2_a2.py` | fits of the combinations, seven or nine files | fit, select, write, render what exists | files |
| product, `product`, `scripts/build_stage1b_real_candidate.py` | bundle directory, versioned fixture | import, validate, publish by rename | files |
| events, analytics, camera geometry | files | batch jobs | files |

The platform is where processes meet: API handlers in their own transactions,
several workers with three threads each, a clock that expires leases, storage
that is not transactional, and clients that retry. There is no broker and no
lock service; the database row is the only thing they share.

The stages and tools share no memory with the platform or each other. They meet in
files, which they replace in place or by renames of directories, and which a later
stage reads as it finds them; every stage is started by hand, again and again, and may
die between two files.

What is hard in it:

- **Reads that are old when they are used.** Handlers read a session without a
  lock and write from that read several statements later. A worker's ORM session
  keeps the row object of its claim (`expire_on_commit=False`, and
  `SELECT ... FOR UPDATE` does not overwrite a loaded object), so a guard like
  `_require_lease` may look at the row as it was minutes ago.
- **Leases.** A claim is good for a minute. A worker can lose its run to a
  reclaim at any point, also between publishing and finalizing.
- **Two stores.** Objects are put before the row that names them is committed
  and deleted when the commit is believed to have failed.
- **Requests that overlap.** Two requests for a run, or two upload calls, pass
  the same checks; only unique indexes decide between them.
- **Files as the only record.** Threads of one server, two imports, or a new run beside
  the remains of a dead one write the same paths; checks are made on one reading of a
  file and the work on another.
- **The same rule written twice.** The alignment gate and the import, the import and
  the bundle's validation, the calibration page and the homography judge the same data
  by different code.
- **Passes over the rows they change.** Smoothing and tracking judge each row or box
  by what the previous ones left, over a whole clip.
- **Stopping.** Signals, crashes, cancellation, a lost lease and exceptions all
  unwind `run_once` through different clauses.

What makes each part correct:

- job service: one active run per session; one run per idempotency key;
  attempts within the limit; lease columns set exactly while RUNNING; a
  terminal run never changes; an expired lease is dead; the session's row
  follows its runs;
- worker: bundles come only from the attempt that ended the run; their objects
  stay; no completion after a committed cancellation; nothing published is left
  behind; every run ends; a signalled worker stops;
- uploads: one source video per session; a session is analysable exactly when
  its video is verified; no run without input;
- event store: the draft is the list on the screen unless a save failed; every
  draft can be restored; every list can be exported; neighbours on the undo stack
  differ by one change;
- the other tools: a reference that is saved is complete, and the model refined from it
  names it; a page that says "saved" is right, and what it saved is not refused later;
- smoothing and perception: a plausible track loses nothing; a gap is filled exactly when
  it is short; a track is one thing followed; a selection does not jump without cause;
- timing: a verified overlay shows each frame at its own time;
- reconstruction: a usable fit is found if there is one, and what a finished run left
  belongs together;
- product: what is published was validated, names one video, and is never lost; what
  the gate lets through can be imported.

`PROJECT.json` lists the components, and under `hazards` each place in the code
where one of these could go wrong, with the property that would show it.

## The modules

| module | models | extends |
|---|---|---|
| `AnalysisJobs` | `services/analysis_jobs.py` over its rows | |
| `WorkerRuntime` | `worker/runtime.py`: workers, threads, objects | `AnalysisJobs` |
| `SessionUpload` | `services/uploads.py` beside the job service | `AnalysisJobs` |
| `RunLifecycle` | what the job service promises of a run | |
| `JobsLifecycle` | the rows seen as that promise (the refinement mapping) | `AnalysisJobs` |
| `EventStore` | the annotator's event store and its write handlers | |
| `VerticalReference` | `tools/vertical_reference_app` | |
| `CourtCalibration` | `court/calibrate_web.py`, `calibrate_interactive.py` and the check of `homography.py` | |
| `VideoTiming` | `video`, `project/clip_manifest.py` | |
| `TrajectorySmoothing` | `tracker/trajectory_smoothing.py` | |
| `PlayerTracks` | `player_perception`, `scripts/run_player_selection_audit.py` | |
| `Stage5B` | `scripts/stage5b_a2.py`, `stage5b_v2_a2.py` | |
| `RallyImport` | `product/single_rally`: adapters and checks, operators only | |
| `SingleRally` | `product/analysis_bundle`: the publication of a bundle | `RallyImport` |
| `ReferenceFixture` | `scripts/build_stage1b_real_candidate.py` | `RallyImport` |
| `MCTools` | the three tools on small instances | the tools' modules |
| `MCPipeline` | the six stages on small instances | the stages' modules |
| other `MC...` | symmetry sets for TLC | one of the above |
| `AnalysisJobs_proofs`, `JobsLifecycle_proofs`, `WorkerRuntime_proofs`, `SessionUpload_proofs` | theorems about the platform | their module, TLAPS |
| `LocalTools_proofs` | theorems about the three tools | the tools' modules, TLAPS |
| `Publication_proofs` | theorems about `SingleRally` and `ReferenceFixture` | both, TLAPS |
| `Stages_proofs` | theorems about `Stage5B` and `VideoTiming` | both, `Publication_proofs` |
| `Tracks_proofs` | theorems about `TrajectorySmoothing` and `PlayerTracks` | both, `Stages_proofs` |

### AnalysisJobs

One action per committed transaction, since each takes its rows' locks under
READ COMMITTED. The columns of `analysis_runs` are functions on `Runs` (`status`,
`request`, `attempt`, `cancelRequested`, `leaseOwner`, `leaseToken`, `leaseLeft`,
`errorCode`), the session's are functions on `Sessions` (`sessionStatus`,
`latestRun`, `bundleOf`). A run that is not inserted yet has status `ABSENT`.

- `create_and_queue_run` is four steps, because it reads before it writes:
  `BeginCreate` (the session is loaded), `CheckCreate` (the lookups and early
  returns), `InsertRun` or `InsertConflict` (the flush meets the unique
  indexes), `ResolveConflict` (the lookups after the rollback). What was read is
  kept in `call[c].seen`.
- `claim_next_job` is `Reclaim` and then `Claim` or `NoJob`, its two
  transactions. `SKIP LOCKED` makes both choose among the rows others have not
  locked.
- `Finalize`, `Fail` and `Acknowledge` check the row *as the client's session
  shows it*: `Seen(w)` is the object loaded by the claim until `Refresh`
  (`expire_all`, `rollback`), after which the object is expired and the next use of
  one of its columns, be it only `run.id`, loads the row (`Reload`). `Heartbeat` has a
  session of its own and checks the row.
- Time is `Tick`: every deadline comes one closer, the copies in loaded objects
  included. `leaseLeft = 0` means that `lease_expires_at` has passed. The
  token of a claim is the number of the claim (`uuid4` never repeats).
- `PENDING` is never committed: the insert and the transition to `QUEUED` are in
  one transaction.

`Init` starts sessions at `UPLOADED`; `SessionUpload` starts them at `DRAFT`.

### RunLifecycle, JobsLifecycle

`RunLifecycle` is the promise without rows, leases, clocks or sessions: a run waits,
is held by one worker at a time, is taken at most as often as its submission allowed,
and ends once, with one outcome; only a run somebody asked to cancel is cancelled.
`JobsLifecycle` reads this off the columns: `Stage` from `status`, `Claims` as
`max_attempts - attempt`, `Outcome` from the status of a terminal row and
`error_code` (a run given up by the reclaim is `EXHAUSTED`); the holder is
`lease_owner`. `Claim` is `Take`, `Reclaim` of a batch is `GiveUp`, `Finalize` and
`Fail` are `Finish`; heartbeats, refusals and the clock are stutters.

### WorkerRuntime

`worker[w]` is the frame of `run_once`: `pc` names the point it has reached, with
`outcome` (what the processor returned), `staged` (keys it knows it has put) and
the three Events. Each step is the code between two points where another
process can act. Service calls are the actions of `AnalysisJobs`, so the
composition is by conjunction: `FinalizeRun` is `Finalize` plus the artifact
rows. The clauses of the `try` are `AbandonReturned`/`AbandonPublished`
(LeaseLost), `FinalizeRejected`/`TransitionRejected` (PlatformError),
`PublicationFails` (PublicationError, or another exception out of `_publish`) and
`Unwind` (Exception); all but a success pass through the discard loop, one object per
step, and through `Leave` (the `finally` clause). One way leads past the loop:
after the rollback before the finalization, or `expire_all`, the claim's row is expired,
and the clause of `Exception` reads `run.id` from it before it discards
(`HandleExpired`). If the database is away the clause raises too, `run_once` and `run`
end with the exception and with them the process (`EndProcess`), and what was
published stays. `Renew`/`RenewFails` are the heartbeat thread, `WatchCancel` the
cancellation thread.

`Faults` says what may go wrong in an instance: `crash` (the process dies),
`signal`, `put` and `delete` (storage errors, after which the object may be
there or not), `commit` (the database commits and the reply is lost), `outage` (the
database is still away when the clause of an exception reads the row). A database error
that is over by then is possible in every instance (`DatabaseFails`). The
processor is external: it returns any status of `Outcomes`, or raises.

### SessionUpload

`video`, `sourceVideo` and `stored` are the rows, the session's pointer and what a
HEAD would say; `upload[u]` is the frame of a handler with what it read. Both
handlers read (`Begin`, `CheckInitiate`, `CheckComplete`), go to the storage, and
commit (`InsertVideo`, `CommitComplete`) from what they read. `CommitComplete`
writes only the columns that differ from the loaded object, as the unit of work
does. `PutVideo` is the client: any time after the row exists, of any size and
type, again and again, because the URL cannot be revoked. The job service runs
beside the handlers (`JobService`).

Sizes and content types are one value, `Metas`; checksums are `Sums`. The requests
enumerated are those that pass `validate_upload`.

### EventStore

`events`, `undo` and `lock` are the fields of the same names; `disk` and `temporary`
are the draft and the exported annotation with the `.tmp` file beside each. An
operation enters the lock, changes memory and leaves a payload in `saving[t]`;
`_write_atomic` is three more steps (`OpenTemporary`, `WriteTemporary`, `Replace`),
at each of which it may raise (`SaveFails`) or the process may die (`Crash`).
`Start` is a new process: `_restore` accepts the draft or the tool does not start.
`Refuse` is a create or update whose frames `_derive_event` rejects, after the
snapshot was taken. `Sorted` is Python's stable sort, defined by rank. `Lists` and
`MaxEvents` bound the list; ids need no bound of their own, since the smallest
unused one is at most one more than the length. An event is its id and frames;
the other fields are validated one by one and change nothing here, and an
exported annotation is one value, `Exported`, because `Export` has checked what is
in it. Requests that change nothing (unknown ids, presets or fields, an empty
stack) are left out.

### VerticalReference

`vPoints` is `session.points`, which the threads of the server share without a lock;
`vThread[t]` is where a request is and what it holds of the list. `add_click` reads the
length and appends later (`Click`, `AppendPoint`); `save` validates the list and reads
it again (`Validate`, `MapPoints`), then writes the reference, the refined model and
the readiness report (`WriteFinal`, `EvaluateSelected`, `WriteReadiness`), or ends in
one of the two ways an evaluation fails. Files are written in place: two threads may
tear one, and so may a killed process (`StopVertical`). `RerunStage5A` and
`EvaluateOffline` are the other two programs that write these files.

### CourtCalibration

The page keeps its own list (`cPage`) and submits at the eighth click. The server has
threads (`CheckSubmission`, `WriteCorners`, `AnswerSaved`), a timer per accepted
submission (`ShutdownServer`), and daemon threads that die with the process
(`EndServer`). `OpenWindow` to `ConfirmWindow` are the interactive window, which
checks only the number of points; `ExtractFrame` replaces the frame under both.
`ValidCalibration` and `OrientationPasses` are the two checks, over pairs of numbers.

### VideoTiming

`SidecarTimes`, `ProbedTimes` and `DecodedTimes` are the three sources of timestamps;
`StartOverlay` to `EndFrames` are the generator `iter_canonical_frames` as its consumer
pulls it; `EncodeOverlay` and `VerifyOverlay` are ffmpeg, which may lose a frame, and
the count afterwards. A frame is its number, a time a small number, a size a pair.

### TrajectorySmoothing

`xRows` are the rows, with one action per stage of `smooth_trajectory` and one per file
of `run_stage_3`. `WithoutOutliers` and `WithoutBreaks` go through the rows one by one
(`PassSteps`, a recursive function), because both passes look at rows they have already
changed. A point is its place on one axis, and
speeds are compared by products, so no real number is needed; thresholds are constants.

### PlayerTracks

`ProcessFrame` is one call of the pipeline: the tracker, greedy in the order of ids
(`LinkSteps`, a recursive function over the ids given out so far), the new tracks
(`Started`), the foot history, the court side and the remembered identity. `pStates` is
the tracker's list of states as a function of the id, which is also its order, and a
frame of the report is the set of its rows, one per track.
`WritePerceptionOutputs` is the contact audit, which looks for the player in the middle
frame of an event and files what it finds under the first; `SelectPlayers` scores the
candidates of one frame against the players chosen before. `Presence` counts over
the frames of the report, which are taken to be the frames selected: the script divides
by ten, and the report of the smoke flow has exactly those ten frames
(`docs/ops/P1_RUNPOD_3090_SMOKE_REPORT.md`), but nothing in the script checks it. Boxes are places on a line, an overlap is
what is left of `BoxWidth`, and of the court only the side of the net is told apart.

### Stage5B

`bRecords` are the results of the combinations so far; `Fits` are the ways a fit can
end; `Candidates5B` and `Cheapest` the selection; `bTodo` the files still to be written
and `bFiles` which run wrote each. `Die5B` is possible anywhere, `Abort5B` where the
scripts raise because nothing was solved. `RenderExisting` draws from whatever is there.

### RallyImport, SingleRally, ReferenceFixture

`RallyImport` translates the adapters, the checks of `import_single_rally` and those of
`validate_single_rally_bundle`; the other two use the same operators. `SingleRally`
has one record per importing process and one action per rename or removal, with no lock
between processes. `ReferenceFixture` is one process that may die anywhere;
`fStaging`, `fBackup` and `fFixture` are the directories, each with the marker file or
without it, and `fAssets` is what is on disk when the audit and the two imports read it.

## The runs

Every bound is a constant of the `.cfg`. Deadlock is not checked: run identifiers,
requests, upload calls, builds and submissions are finite in every instance, which
stops when they are used up.

| run | cfg | instance | shows |
|---|---|---|---|
| `jobs` | `MCAnalysisJobs` | 1 session, 2 runs, 2 workers, 2 requests, 2 profiles, 1 key, limits 1 and 2, lease of 2 ticks | the service's safety properties, and that it implements `RunLifecycle` |
| `uploads` | `MCSessionUpload` | 2 sessions, 2 videos, 3 upload calls, 2 metas, 2 checksums, 1 request for a run | the upload properties |
| `runtime_faults` | `MCRuntimeFaults` | 2 workers, 1 run with 2 attempts, 2 artifacts, crashes, storage errors, outages | bundles, objects, attempts, cancellation |
| `runtime_live` | `MCRuntimeLive` | 2 workers that may crash, or be ended by an outage, for ever, 1 run with 2 attempts, processor completes or raises | every queued run ends |
| `runtime_shutdown` | `MCRuntimeShutdown` | 1 worker, signals, lost commit replies, 2 artifacts, all outcomes | a signalled worker stops; no orphan objects |
| `tools` | `MCTools` | 2 threads each; 2 frames, 4 ranges, 2 events, 2 snapshots; 4 reference points, 2 saves or runs of Stage 5A; 1 page, 2 submissions, 2 layouts, 2 frame sizes | the tools' properties |
| `pipeline` | `MCPipeline` | one stage at a time, see below | the stages' properties |
| `fail_after_cancel` | `MCFailAfterCancel` | 1 worker, 1 run | violation, below |
| `stale_session` | `MCStaleSession` | 2 runs, 2 workers, 2 requests | violation, below |
| `commit_reply_lost` | `MCCommitReplyLost` | 1 worker, 1 run | violation, below |
| `late_complete` | `MCLateComplete` | 1 session, 3 upload calls, 1 worker | violation, below |
| `selection_anchored` | `MCSelectionAnchored` | as `pipeline` | violation, below |

`MCTools` and `MCPipeline` put several modules in one run. Their parts share no file that
both write, so there is nothing to interleave: the initial state picks one `component`,
its actions are the only ones, and what the others hold does not move. A stage reads
what an earlier one wrote as an input enumerated by the instance.

Why the bounds are enough to be interesting. Two runs of one session make
requests, indexes and session columns collide; two workers make a lease change
hands; a limit of 2 has a last attempt and one before it; a lease of 2 ticks
lets a renewal and a copy of the row differ in age. Three upload calls are an
initiation and two completions, or two initiations and a completion. The upload
run has no worker and the shortest lease: its properties are about what is
true when a run comes into being, and `late_complete` and the proofs, which have
no bound, put workers beside it.

In the event store two events can be out of order, equal, or exchange their order by an
update, and three changes overflow a stack of two; two threads are enough for one to
save the other's list if the lock let them. Two threads of the reference tool add one
step twice; two saves leave two references. Two submissions of one page are the double
one a person makes; of the two layouts one is valid and one is refused only by the
comparison of far and near points.

In the pipeline the trajectory of Stage 5B has five frames and any subset of pixels, one
uncertain event of one or two frames and two executions, enough for a run to leave what
the next finds. Two importers with three builds and a replaced video meet in every order
of their renames. The fixture has four executions, so that one may die on the remains of
others, with one replacement of assets out of thirteen variants: sound, or off in one
thing some check looks at. Videos have up to three frames with any subset decoded and
any time missing. Tracks are all those of five frames out of six kinds of point: none,
slow, fast and far ones, low or insufficient confidence; the windows are smaller than
the track and the longest gap is two. Clips for the players have three frames of up to
two boxes out of five: near, near without a pose, far, on the line of the net, and a
spectator; a track may miss one frame and comes back in the third.

In the runtime the kinds of faults are spread over the runs: signals and lost replies
are in `runtime_shutdown`, where one worker is enough for them, crashes, storage errors
and outages in `runtime_faults`, where two workers can meet on what they leave behind.
The proofs cover all kinds together, up to the hypotheses they name.

Liveness runs use no symmetry.

### Properties

Over the rows: `TypeOK`, `LeaseOnlyWhileRunning`, `OneActiveRun`, `ActiveRunIsLatest`,
`OneRunPerKey`, `ShownBundleMatches` (the fingerprint a session shows is that of the run
whose outcome it shows), `LoadedLeaseIsCurrent` (an old row object whose lease looks good
is not wrong about who holds the run). As behaviour: `LifecycleRefined` (the rows
implement `RunLifecycle`), `ExpiredLeaseIsDead`, `SessionFollowsTable` (with no uploads,
the session's status moves only along `domain/transitions.py`, although the check runs
on an old status).

Over the worker: `RuntimeTypeOK`, `BundleFromFinalAttempt`, `FinishedRunHasObjects`,
`AttemptsDisjoint`, `NoOrphanObjects`, `CancelBlocksCompletion`; liveness:
`RunsTerminate`, `ShutdownStops`.

Over uploads: `OneSourceVideo`, `SessionMatchesVideo`, `RunsHaveInput`.

Over the tools: `SavedUnlessFailed`, `DraftRestarts`, `ExportNeverRefused`, `UndoChain`;
`ReferenceComplete`, `RefinedFromReference`; `SavedCornersFit`, `SavedIsSaved`.

Over the pipeline:

| property | says |
|---|---|
| `SelectionSound` | whatever the solver fails on or answers with an infinite cost, v1 selects the cheapest valid fit if there is one, and a solved one if any has a finite cost; a v2 report that says READY is of the cheapest fit that was not rejected |
| `ExistingOfOneRun` | after a completed v2 run the files `--render-existing` reads are all of that run |
| `PublishedBundleSound` | a bundle in place names one video, and the validation that runs after publication refuses it exactly when its input has one of the flaws that `OnlyValidatorRefuses` lists: what the schemas and the validation ask for and the import hands on unchecked |
| `NewestBundleKept` | whatever dies or meets, the last bundle put in place is at the output or in a backup |
| `FixtureKept` | the fixture is whole, passed the gate and is what two imports agreed on; it is not lost, unless a run died with the marker still in a published fixture |
| `GateFitsImport` | of what the gate passes, each event has a row of its own; if the records are readable one by one, have one reading under both kinds of keys, and carry the times of the timestamps file, it imports; and it validates unless it has a flaw of `OnlyValidatorRefuses` |
| `FramesAtTheirTimes` | a verified overlay pairs every frame with its own time, and turns a frame exactly when it turns the points |
| `PlausibleTrackKept` | a track within the limits loses no point to either pass |
| `GapsAsReported` | a gap is filled exactly when it is short in frames and in time, and the report counts it |
| `TracksFollowed` | a track is one thing, within the match and the misses allowed, with the identity of the side it appeared on |
| `SelectionSteady` | a ready selection names two tracks, one per side, and leaves one only for a better one |

Some of these carry a hypothesis that the code does not guarantee, because without it
they are false: database outages between a rollback and the discard, crashes and storage
errors (`NoOrphanObjects`, whose run has none), times that ffprobe does not know while OpenCV or a shorter list supplies
them (`FramesAtTheirTimes`), two evaluations at once (`RefinedFromReference`), a death
between the last rename of the fixture and the removal of its marker (`FixtureKept`),
corners that the window saved (`SavedCornersFit`), what the gate does not look at
(`GateFitsImport`: ids, confidences and pixels of records; the import prefers
`event_id`, `frame_id` and `timestamp_seconds`, the gate `id`, `frame_start` and
`time_start_seconds`), and only solves of infinite cost beside a failed first one
(`SelectionSound`: the stable sort then selects the failed one, and the script ends with
an exception when it writes the trajectory).

### What the violations show

1. **`fail_after_cancel`.** The orchestration document says that after a committed
   cancellation `fail` is rejected. When the processor raises, `fail_run` is called
   before the worker's session has reloaded the row, sees no cancellation, and
   the run ends `FAILED` instead of being acknowledged.
2. **`stale_session`.** A request that read the session as `QUEUED` before the
   earlier run was claimed and ended queues its run without moving the session.
   The new run is worked on, and ends, behind a session that shows the outcome
   of the earlier one.
3. **`commit_reply_lost`.** If the reply to the finalizing COMMIT is lost, the worker
   takes it for a failure and deletes the objects that the COMPLETE run lists.
   Without lost replies they are never deleted: proved below.
4. **`late_complete`.** A completion that read `UPLOADING`, and commits after another
   completion and a request for a run, moves the session from `QUEUED` back to
   `UPLOADED`. The claim and the finalization then leave it there, and the
   bundle is not shown.
5. **`selection_anchored`.** In Stage 5B v2 a combination without a pixel for one of
   its events has the status `REJECTED`, while the selection leaves out only
   `ANCHORED_FIT_REJECTED`. When every solved combination was rejected by the
   constraints, the one without a fit is the only candidate, and the script ends with an
   exception although there were points to report.

## Fairness

`FairRuntimeSpec` adds, for each worker,

- weak fairness of the steps of `run_once`, of giving up an empty poll, of stopping
  and of restarting: threads are scheduled, the processor returns, and the
  process is started again by its supervisor;
- strong fairness of polling and of the claim: a worker polls for ever, and
  `SKIP LOCKED`, crashes or signals do not beat it to the row every time;
- weak fairness of `Tick`: the clock runs.

Nothing is assumed of heartbeats, requests, cancellations, signals, crashes or
faults. `RunsTerminate` depends on the strong part: with weak fairness alone a
worker that crashes between poll and claim for ever never starts the run.

## The proofs

Every invariant and every action property a run checks is the conclusion of a theorem:
for all finite or infinite sets of runs, sessions, workers, requests and processes, clips
and tracks of any length, any limits and thresholds. The assumptions are those of the
modules: limits, windows and the lease are natural numbers, the NULLs are not values, the
inputs are of the type the readers accept (`JobsAssumption`, `RuntimeAssumption`,
`UploadAssumption`, `StoreAssumption`, `VerticalAssumption`, `CalibrationAssumption`,
`RallyAssumption`, `FixtureAssumption`, `FiveBAssumption`, `TimingAssumption`,
`SmoothingAssumption`, `PlayersAssumption`). The bounds that keep the instances finite
(`MaxBuilds` and the like) are constants too, and the theorems hold for each value.

| theorem | says |
|---|---|
| `TypeCorrect`, `RuntimeTypeCorrect`, `UploadTypeCorrect` | the type invariants |
| `LeaseColumns`, `Attempts`, `LatestIsActive`, `SingleActiveRun` | `LeaseOnlyWhileRunning`, `AttemptsBounded`, `ActiveRunIsLatest`, `OneActiveRun` |
| `FencedByLoadedRow` | `LoadedLeaseIsCurrent` |
| `JobsImplementLifecycle`, `RuntimeImplementsLifecycle`, `PlatformImplementsLifecycle` | `LifecycleRefined`: of the service alone, under the workers, beside the uploads |
| `OutcomeIsFinal`, `ExpiryIsFinal` | `TerminalIsFinal`, `ExpiredLeaseIsDead` |
| `RetriesMeetOneRun`, `ShownBundles`, `SessionsFollowTable` | `OneRunPerKey`, `ShownBundleMatches`, `SessionFollowsTable` |
| `RuntimeImplementsJobs` | `RuntimeSpec => Spec`: a worker only ever does what the service allows |
| `AttemptsAreDisjoint`, `BundlesAreFinal`, `CancellationHolds` | `AttemptsDisjoint`, `BundleFromFinalAttempt`, `CancelBlocksCompletion` |
| `ObjectsOutliveAttempts` | `FinishedRunHasObjects`, if replies to commits are not lost and there is an artifact |
| `NothingLeftBehind` | `NoOrphanObjects`, if no process crashes, no put or delete fails, and the database is not away when the clause of an exception reads the expired row |
| `OneSource`, `SessionsMatch`, `RunsInput` | `OneSourceVideo`, `SessionMatchesVideo`, `RunsHaveInput` |
| `DraftsAreSaved`, `DraftsRestart`, `ExportsAccepted`, `UndoSteps` | `SavedUnlessFailed`, `DraftRestarts`, `ExportNeverRefused`, `UndoChain` |
| `ReferencesComplete`, `RefinedNamesReference` | `ReferenceComplete`, `RefinedFromReference` |
| `SavedFits`, `SavedIsWritten` | `SavedCornersFit`, `SavedIsSaved` |
| `ChecksAgree` | what the import accepts, the validation refuses exactly for a flaw of `OnlyValidatorRefuses` |
| `BundlesSound`, `NewestOnDisk` | `PublishedBundleSound`, `NewestBundleKept` |
| `FixtureStays`, `GateFits` | `FixtureKept`, `GateFitsImport` |
| `ExistingOfLastRun`, `BestFitSelected` | `ExistingOfOneRun`, `SelectionSound` |
| `OverlaysOnTime` | `FramesAtTheirTimes` |
| `TracksKept`, `GapsReported` | `PlausibleTrackKept`, `GapsAsReported` |
| `TracksAreFollowed`, `SelectionIsSteady` | `TracksFollowed`, `SelectionSteady` |

**The job service.** `JobsInv` is inductive. Beside the invariants above it says
that unused rows have no attempts (`RowShape`), that a client that holds a run
holds one that exists, and `LoadedFollows`: while the lease in a loaded object
has time left, the row is RUNNING under that client and token and its own lease
has at least as much time. That is why an old object is a safe guard. A renewal
only lengthens the row's lease, reclaim only takes rows whose lease has passed,
and `Tick` moves both. `ActiveRunIsLatest` makes `OneActiveRun` immediate: two
active runs of a session would both be its latest.

`OneRunPerKey` is about answers as well as rows, so `KeyInv` adds that no two rows of a
session have one key (the unique index) and that an answer to a request with a key names
the row that carries it, with the same fingerprint: between the lookup of a create and
its flush another request may insert that row, and then `ResolveConflict` finds it.
`ShownInv` adds `AllReady`: the sessions of this module start with an uploaded video, so
their status is always one from which a run may be queued. `SessionMove` lists how a step
can move a session, and from that follow both `ShownBundleMatches` and
`SessionFollowsTable`, although the code checks the transition on the status it loaded.

**The life cycle.** `JobsImplementLifecycle` is a step simulation: one lemma per action
of the service says which action of `RunLifecycle` it is, or that it is a stutter. It needs
two facts of reachable states: `JobsInv` (a claimed row has attempts left, a held row
its lease columns), and `CancelsSeen`, that a cancellation a stale row object shows is
still asked for, since `Acknowledge` looks only at that object. `AttemptsBounded` and
`TerminalIsFinal`, which it contains, are also proved directly, over the columns. The
workers' version follows from `RuntimeImplementsJobs`; the uploads' from
`UploadsMoveNoRun`, since what a handler writes is no column of a run.

**The worker.** `RuntimeImplementsJobs` is a step simulation with the identity
mapping, so `JobsInv` holds in the composition. `AttemptInv` adds that the tokens of
two busy workers on one run differ and equal their attempts, which separates
their keys, and that a finished run was not cancelled before. `ObjectInv` adds that
what a frame has put and not discarded is in storage until the frame's own
discard loop, and that a frame that reaches `finalize` has put every artifact.
The discard loop only touches keys of its own attempt, and once the run is
finished by that attempt the loop is not entered; this last part is what a lost
reply breaks, hence the hypothesis. The opposite direction, `NothingLeftBehind`, rests on
`OrphanInv`: a frame outside its publishing steps holds no staged object, and one that
leaves has everything it staged listed by its run. A crash, a put that fails after it
stored, a failed delete, and an outage that ends the process before the discard break
this in the code too; that none happens is its hypothesis.

**Uploads.** `UploadInv` joins `JobsInv` with what each handler's frame may rely on
although the session has moved on (`FrameOk`: the row it loaded still exists, is of
its session, and once HEAD succeeded has bytes), with "verified videos have
bytes", and with "requests that passed the check, and runs, belong to sessions
that are analysable". The key lemma is `StaysAnalysable`: no step of any process
takes an analysable session back, not even the late completion of
`late_complete`, which writes the wrong status but an analysable one.

**The event store.** `Neat` are the lists with each id once and in order. The lemmas say
that sorting by rank gives the same events in order, that a neat list is its own sorting
(so a restart restores what was saved, and an export is accepted), and that adding,
replacing or deleting one event and sorting is one change. `StoreInv` adds what the one
lock buys: only its holder has an unfinished save, of the list as it is (`OneSaver`), and
otherwise the draft is the list unless the last save raised (`DraftFollows`).

**The other tools.** `VerticalInv` says that what a thread maps and saves has all steps
(`MappedComplete`); that one request saves at a time and the reference is its own, unless
two evaluations met (`OneEvaluation`); and that all know one camera, unless Stage 5A ran
again (`OneCamera`). `CourtInv` says that what a server writes passed its check and that a
page is told "saved" only when its points are written, until another writes. `SavedFits`
then needs that, on a landscape frame, the page's check implies the homography's.

**Publication.** `ChecksAgree` compares the import's checks with those of the validation,
element by element, for tracks and event lists of any length, and shows that both
directions hold: without a flaw of `OnlyValidatorRefuses` the bundle is accepted, with one
it is refused. In `RallyInv` a bundle that
is not yet published has a build number no directory has (`Fresh`), everything ever put
in place was accepted by the import (`AllSound`), and a process removes only what its own
publication superseded (`Superseded`); the last gives `NewestBundleKept` whoever renames
between. `FixtureInv` says which of the three directories exist at each point of the
publication (`PublicationOrder`), that one with all its files holds what one execution
audited and compared (`DirectoriesSound`), and that no whole directory but the one about
to be unmarked carries the marker unless a death left it there (`MarkersOut`).
`GateFits` shows, with the lemmas of `ChecksAgree`, that for readable records with one
reading the gate's own comparison of stamps, rows and events is as strict as the import's.

**Reconstruction and overlays.** `FilesInv`: a v2 run that has selected wrote, or has still
to write, each file a later rendering reads; a v1 run touches none. `SelectionInv`:
in v1 the first record is solved and the others borrow its cost, or it failed at the
infinite cost that no finite one exceeds; in v2 a READY record is one the constraints accept; what is
chosen is the cheapest candidate of the complete list.
`TimingInv` says that the k-th frame drawn carries the k-th time of the list the overlay was
opened with, up to the number of frames decoded. That this is the frame's own time is
`AllInOrder`: a strictly increasing sequence of as many numbers as there are is the
identity.

**Smoothing.** Both passes read rows they have already changed, so what a pass does to row
i depends on what it did before i. `PassStaysIn` carries a property of the rows through
all steps; with it a pass of a plausible track leaves subtracks only, in which the
neighbours that judge a point are points of the track, in increasing time, and no
point of it is far or fast enough to go. `SmoothInv` then says of each program point
which rows there are (broken, filled, averaged), and `GapsOfFills` that the report's
gaps, the maximal runs without a point, are the ones that were filled or not by
`InShortGap`, which looks at the two ends of a gap. Averaging moves points and neither
makes nor removes one.

**Players.** `LinksUpTo` is the loop invariant of the greedy match: after the tracks up
to k, each has taken at most one box, no box twice, and one that took none matches no
box that is left. From it `TracksOfFrame`: tracks of a frame have different ids and
boxes, and a new one matches no track that was passed over. `StatesOfRows` ties the
tracker to the report: the states alive are exactly the ids seen at most `MaxMissed`
frames ago, each where it was then. It is what turns `TracksFollowed`, a property of the
report alone, into one of a single frame; `IdentitiesOfLast` does the same for the
remembered identities. `PlayersInv` adds for the selection that the player remembered is
that of the last frame and that each choice was made well: what other frames add to a
score is at most `Full`, and exactly that for the player chosen before, so a change
must be justified by the frame's own terms.

**Induction.** The library's induction theorems have an operator as parameter, which the
provers cannot instantiate. Where a loop or an order over numbers had to be followed,
the proofs use instead that a set of naturals has a least element (`LeastNumber`, from
the well-foundedness of strict inclusion on finite sets), and the existence of a
recursive function by a set of partial ones (`StepByStep`).

## Limits

Only model-checked: the liveness properties `RunsTerminate` and `ShutdownStops`, since
liveness under fairness and `ENABLED` are beyond this prover. The five violations are
traces of TLC. No theorem says what is not in the properties: of the values of filled
and averaged points, for example, only where they are.

Abstractions to keep in mind:

- a transaction is one step; deadlocks between row locks and the isolation
  levels of other databases are not represented;
- the clock is one clock: skew between API, workers and database is not;
- threads end with `run_once`: a heartbeat that outlives the `join` timeout can
  only renew a lease that is still held, which `Renew` allows anyway while the
  run is held;
- artifact metadata, keys and manifests are checked by pure functions that the
  models take as passed, except that a refusal may come at any time
  (`FinalizeRejected`, `UnsafeManifest`);
- the tools' and the stages' processes die, the machine does not: a rename that returned
  is there at the next start (the code does not call `fsync`);
- pixels, points and times are small whole numbers, boxes and points lie on one axis,
  solvers and networks return any result of their kind: the models show what the
  control does with the numbers, not that the numbers are right;
- of the cells of an events or track file that cannot be parsed at all, one stands for
  all where the import and the validation treat them alike;
- a write in place that is not interleaved with another of the same file and not cut
  by a death is one step.

Known and without a property: a signal between the loop's test and the claim
(`worker/runtime.py:86`) does not stop the claim, and the attempt is processed and thrown
away; row locks may deadlock between a reclaim of several runs and other transactions; a
second completion with another checksum replaces the first; a refused create or update
of the annotator leaves its snapshot on the undo stack; a second browser tab may
edit an event whose id was reused; the annotator hashes its inputs before it exports;
`identity_switch` (`player_perception/identity.py:35`) is never set, since it compares an
identity with its own copy; a square clip is never turned; two backups of a reference
within a second are one.

Not modelled: the HTTP layer, settings, seed and doctor, migrations (the models
of the tables carry the same constraints), deployment and evidence scripts, analytics and
camera geometry, whose correctness is about real numbers, the networks (WASB, detector,
pose) and all drawing, the listing of sessions with its cursor, and the tools' self-tests.

## Plan

1. Proofs: `FinishedRunHasObjects` and `NoOrphanObjects` with their hypotheses weakened
   from all runs to the faults of one frame.
2. `SessionPages`: the listing cursor while sessions are created.
3. The event schema beyond ids, order and frames; the readiness gating of the analytics.
4. Contact selection and biomechanics after `PlayerTracks`.
