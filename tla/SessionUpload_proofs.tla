------------------------- MODULE SessionUpload_proofs -------------------------
(***************************************************************************)
(* Theorems about uploads beside the job service, for any number of        *)
(* sessions, videos, upload requests, runs and workers.                    *)
(***************************************************************************)
EXTENDS SessionUpload, JobsLifecycle_proofs

\* A step of the platform is a step of one handler, a PUT, a step of the job
\* service, or it leaves every variable alone.
LEMMA PlatformCases ==
    ASSUME [PlatformNext]_platformVars
    PROVE  \/ \E u \in Handlers, e \in {"initiate", "complete"}, s \in Sessions,
                 v \in Videos \cup {NoVideo}, m \in Metas, h \in Sums \cup {NoSum} :
                 (e = "complete" => v \in Videos) /\ Begin(u, e, s, v, m, h)
           \/ \E u \in Handlers : CheckInitiate(u)
           \/ \E u \in Handlers, v \in Videos : InsertVideo(u, v)
           \/ \E u \in Handlers : InsertVideoConflict(u)
           \/ \E u \in Handlers : CheckComplete(u)
           \/ \E u \in Handlers : HeadObject(u)
           \/ \E u \in Handlers : CommitComplete(u)
           \/ \E v \in Videos, m \in Metas : PutVideo(v, m)
           \/ JobService
           \/ UNCHANGED platformVars
  <1>1. CASE \E u \in Handlers : UploadNext(u)
    <2> PICK u \in Handlers : UploadNext(u)
      BY <1>1
    <2>1. CASE \E s \in Sessions, m \in Metas, h \in Sums \cup {NoSum} :
                 \/ Begin(u, "initiate", s, NoVideo, m, h)
                 \/ \E v \in Videos : Begin(u, "complete", s, v, m, h)
      <3> PICK s \in Sessions, m \in Metas, h \in Sums \cup {NoSum} :
                 \/ Begin(u, "initiate", s, NoVideo, m, h)
                 \/ \E v \in Videos : Begin(u, "complete", s, v, m, h)
        BY <2>1
      <3>1. CASE Begin(u, "initiate", s, NoVideo, m, h)
        <4>1. "initiate" # "complete"
          OBVIOUS
        <4> QED
          BY <3>1, <4>1, Zenon
      <3>2. ASSUME NEW v \in Videos, Begin(u, "complete", s, v, m, h)
            PROVE  \E e \in {"initiate", "complete"}, x \in Videos \cup {NoVideo} :
                      (e = "complete" => x \in Videos) /\ Begin(u, e, s, x, m, h)
        BY <3>2, Zenon
      <3> QED
        BY <3>1, <3>2, Zenon
    <2> QED
      BY <2>1, Zenon DEF UploadNext
  <1> QED
    BY <1>1, Zenon DEF PlatformNext

\* The sessions' statuses are columns of the job service too: its invariant does not
\* depend on them beyond their type.
LEMMA JobsFrame ==
    ASSUME JobsInv, sessionStatus' \in [Sessions -> SessionStatus],
           UNCHANGED <<status, request, attempt, cancelRequested, leaseVars, errorCode,
                       issued, latestRun, bundleOf, call, clientVars>>
    PROVE  JobsInv'
  <1>1. TypeOK'
    BY DEF JobsInv, TypeOK, leaseVars, clientVars
  <1>2. RowShape' /\ HeldRuns' /\ PostedRequests'
    BY DEF JobsInv, RowShape, HeldRuns, PostedRequests, leaseVars, clientVars
  <1>3. LeaseOnlyWhileRunning' /\ AttemptsBounded' /\ ActiveRunIsLatest'
    BY DEF JobsInv, LeaseOnlyWhileRunning, AttemptsBounded, ActiveRunIsLatest, leaseVars
  <1>4. LoadedFollows'
    BY DEF JobsInv, LoadedFollows, Follows, leaseVars, clientVars
  <1> QED
    BY <1>1, <1>2, <1>3, <1>4 DEF JobsInv

-----------------------------------------------------------------------------
(***************************************************************************)
(* What the handlers know of a row they read earlier stays true until they *)
(* commit, although the session they read may have moved on.               *)
(***************************************************************************)
FrameOk(u) ==
    LET f == upload[u] IN
    /\ f.pc # "idle" => f.session \in Sessions /\ f.meta \in Metas
    /\ f.pc \in {"complete", "head", "verify"} => f.video \in Videos
    /\ f.pc \in {"head", "verify"} =>
          Exists(f.video) /\ video[f.video].session = f.session
    /\ f.pc = "verify" => stored[f.video] # NoMeta
    /\ f.pc = "complete" /\ f.seen \in Analysable => sessionStatus[f.session] \in Analysable
FramesOk == \A u \in Handlers : FrameOk(u)

VerifiedIsStored ==
    \A v \in Videos : video[v].integrity = "STORAGE_VERIFIED" => stored[v] # NoMeta

\* A request for a run that goes on has seen an analysable session, and a session
\* never stops being analysable.
CallsSawAnalysable ==
    \A c \in Callers :
        /\ call[c].pc \in {"session", "insert"} /\ call[c].seen \in Analysable
              => sessionStatus[call[c].req.session] \in Analysable
        /\ call[c].pc = "insert" => call[c].seen \in Analysable

RunsAreAnalysable ==
    \A r \in Runs : status[r] # "ABSENT" => sessionStatus[request[r].session] \in Analysable

UploadInv ==
    /\ JobsInv
    /\ UploadTypeOK
    /\ OneSourceVideo
    /\ SessionMatchesVideo
    /\ FramesOk
    /\ VerifiedIsStored
    /\ CallsSawAnalysable
    /\ RunsAreAnalysable

LEMMA UploadInitInv == UploadInit => UploadInv
  <1> SUFFICES ASSUME UploadInit PROVE UploadInv
    OBVIOUS
  <1>1. sessionStatus = [s \in Sessions |-> "DRAFT"]
        /\ sessionStatus \in [Sessions -> SessionStatus]
    BY DEF UploadInit, SessionStatus
  <1>2. JobsInv
    BY <1>1, EmptyJobs DEF UploadInit
  <1>3. UploadTypeOK
    BY <1>2 DEF UploadInit, JobsInv, UploadTypeOK, Frame, IdleFrame, SessionStatus, Answers
  <1>4. OneSourceVideo
    BY DEF UploadInit, OneSourceVideo, VideosOf, Exists
  <1>5. SessionMatchesVideo
    BY <1>1 DEF UploadInit, SessionMatchesVideo, VideosOf, Exists, Analysable, IdleFrame
  <1>6. FramesOk /\ VerifiedIsStored
    BY DEF UploadInit, FramesOk, FrameOk, VerifiedIsStored, IdleFrame, NoRecord
  <1>7. CallsSawAnalysable /\ RunsAreAnalysable
    BY DEF UploadInit, NoRuns, CallsSawAnalysable, RunsAreAnalysable, IdleCall
  <1> QED
    BY <1>2, <1>3, <1>4, <1>5, <1>6, <1>7 DEF UploadInv

-----------------------------------------------------------------------------
\* The job service moves only analysable sessions, and keeps them analysable.
LEMMA SessionSteps ==
    ASSUME UploadInv, [Next]_vars, NEW s \in Sessions
    PROVE  \/ sessionStatus'[s] = sessionStatus[s]
           \/ sessionStatus[s] \in Analysable /\ sessionStatus'[s] \in Analysable
  <1> DEFINE Goal == \/ sessionStatus'[s] = sessionStatus[s]
                     \/ sessionStatus[s] \in Analysable /\ sessionStatus'[s] \in Analysable
  <1>0. TypeOK /\ CallsSawAnalysable
    BY DEF UploadInv, JobsInv
  <1>a. {"QUEUED", "PROCESSING", "COMPLETE", "PARTIAL", "FAILED"} \subseteq Analysable
    BY DEF Analysable, SessionStatus
  <1>b. sessionStatus \in [Sessions -> SessionStatus]
    BY <1>0 DEF TypeOK
  <1>1. ASSUME NEW c \in Callers, NEW r \in Runs, InsertRun(c, r) PROVE Goal
    <2>1. sessionStatus[call[c].req.session] \in Analysable
      BY <1>0, <1>1 DEF CallsSawAnalysable, InsertRun
    <2>2. QueuedSession(call[c].req.session, call[c].seen) \in Analysable
      BY <2>1, <1>a DEF QueuedSession
    <2>3. sessionStatus' = [sessionStatus EXCEPT ![call[c].req.session] =
                              QueuedSession(call[c].req.session, call[c].seen)]
      BY <1>1 DEF InsertRun
    <2> QED
      BY <1>b, <2>1, <2>2, <2>3
  <1>2. ASSUME NEW w \in Workers, NEW taken \in SUBSET Expired, Reclaim(w, taken) PROVE Goal
    <2>1. sessionStatus'[s] = sessionStatus[s] \/ sessionStatus'[s] = SessionAfter(s, "FAILED")
      BY <1>2 DEF Reclaim
    <2> QED
      BY <1>a, <2>1 DEF SessionAfter
  <1>3. ASSUME NEW w \in Workers, NEW r \in Runs, Claim(w, r) PROVE Goal
    BY <1>3, <1>a, <1>b DEF Claim, ClaimedSession
  <1>4. ASSUME NEW w \in Workers, NEW target \in {"COMPLETE", "PARTIAL"}, Finalize(w, target)
        PROVE  Goal
    BY <1>4, <1>a, <1>b DEF Finalize, SessionAfter
  <1>5. ASSUME NEW w \in Workers, Fail(w) PROVE Goal
    BY <1>5, <1>a, <1>b DEF Fail, SessionAfter
  <1>6. UNCHANGED sessionStatus => Goal
    OBVIOUS
  <1> HIDE DEF Goal
  <1>7. Goal
    <2> USE <1>6 DEF sessionVars, vars
    <2>1. ASSUME NEW c \in Callers, NEW q \in Request, BeginCreate(c, q) PROVE Goal
      BY <2>1 DEF BeginCreate
    <2>2. ASSUME NEW c \in Callers, CheckCreate(c) PROVE Goal
      BY <2>2 DEF CheckCreate
    <2>3. ASSUME NEW c \in Callers, InsertConflict(c) \/ ResolveConflict(c) PROVE Goal
      BY <2>3 DEF InsertConflict, ResolveConflict
    <2>4. ASSUME NEW w \in Workers, NoJob(w) \/ Refresh(w) \/ Reload(w) \/ Acknowledge(w) \/ Drop(w)
          PROVE  Goal
      BY <2>4 DEF NoJob, Refresh, Reload, Acknowledge, Drop
    <2>5. ASSUME NEW w \in Workers, NEW r \in Runs, Heartbeat(w, r, leaseToken[r]) PROVE Goal
      BY <2>5 DEF Heartbeat
    <2>6. ASSUME NEW r \in Runs, CancelQueued(r) \/ CancelRunning(r) PROVE Goal
      BY <2>6 DEF CancelQueued, CancelRunning
    <2>7. CASE Tick \/ UNCHANGED vars
      BY <2>7 DEF Tick
    <2> QED
      BY StepCases, <1>1, <1>2, <1>3, <1>4, <1>5, <2>1, <2>2, <2>3, <2>4, <2>5, <2>6, <2>7, Zenon
  <1> QED
    BY <1>7 DEF Goal

\* No step of the platform takes an analysable session back.
LEMMA StaysAnalysable ==
    ASSUME UploadInv, [PlatformNext]_platformVars, NEW s \in Sessions,
           sessionStatus[s] \in Analysable
    PROVE  sessionStatus'[s] \in Analysable
  <1>0. /\ sessionStatus \in [Sessions -> SessionStatus]
        /\ \A x \in Sessions : sessionStatus[x] \in Analysable => VideosOf(x) # {}
    BY DEF UploadInv, JobsInv, TypeOK, SessionMatchesVideo
  <1>1. ASSUME NEW u \in Handlers, NEW v \in Videos, InsertVideo(u, v)
        PROVE  sessionStatus'[s] \in Analysable
    <2>1. upload[u].session # s
      BY <1>0, <1>1 DEF InsertVideo, SecondSource
    <2> QED
      BY <1>0, <1>1, <2>1 DEF InsertVideo
  <1>2. ASSUME NEW u \in Handlers, CommitComplete(u) PROVE sessionStatus'[s] \in Analysable
    BY <1>0, <1>2 DEF CommitComplete, Analysable, SessionStatus
  <1>3. CASE JobService
    BY <1>3, SessionSteps DEF JobService
  <1>4. CASE UNCHANGED sessionStatus
    BY <1>4
  <1> USE <1>4 DEF vars, sessionVars
  <1>5. ASSUME NEW u \in Handlers, NEW e, NEW x, NEW v, NEW m, NEW h, Begin(u, e, x, v, m, h)
        PROVE  sessionStatus'[s] \in Analysable
    BY <1>5 DEF Begin
  <1>6. ASSUME NEW u \in Handlers,
               CheckInitiate(u) \/ InsertVideoConflict(u) \/ CheckComplete(u) \/ HeadObject(u)
        PROVE  sessionStatus'[s] \in Analysable
    BY <1>6 DEF CheckInitiate, InsertVideoConflict, CheckComplete, HeadObject
  <1>7. ASSUME NEW v \in Videos, NEW m \in Metas, PutVideo(v, m)
        PROVE  sessionStatus'[s] \in Analysable
    BY <1>7 DEF PutVideo
  <1>8. CASE UNCHANGED platformVars
    BY <1>8 DEF platformVars
  <1> QED
    BY PlatformCases, <1>1, <1>2, <1>3, <1>5, <1>6, <1>7, <1>8, Zenon

-----------------------------------------------------------------------------
LEMMA JobsPart == UploadInv /\ [PlatformNext]_platformVars => JobsInv'
  <1> SUFFICES ASSUME UploadInv, [PlatformNext]_platformVars PROVE JobsInv'
    OBVIOUS
  <1>0. JobsInv /\ sessionStatus \in [Sessions -> SessionStatus]
    BY DEF UploadInv, JobsInv, TypeOK
  <1>1. ASSUME NEW u \in Handlers, NEW v \in Videos, InsertVideo(u, v) PROVE JobsInv'
    <2>1. sessionStatus' \in [Sessions -> SessionStatus]
      BY <1>0, <1>1 DEF InsertVideo, SessionStatus
    <2> QED
      BY <1>0, <1>1, <2>1, JobsFrame DEF InsertVideo
  <1>2. ASSUME NEW u \in Handlers, CommitComplete(u) PROVE JobsInv'
    <2>1. sessionStatus' \in [Sessions -> SessionStatus]
      BY <1>0, <1>2 DEF CommitComplete, SessionStatus
    <2> QED
      BY <1>0, <1>2, <2>1, JobsFrame DEF CommitComplete
  <1>3. CASE JobService
    BY <1>0, <1>3, JobsNext DEF JobService
  <1>4. UNCHANGED vars => JobsInv'
    BY <1>0, JobsNext
  <1>5. ASSUME NEW u \in Handlers, NEW e, NEW x, NEW v, NEW m, NEW h, Begin(u, e, x, v, m, h)
        PROVE  JobsInv'
    BY <1>4, <1>5 DEF Begin
  <1>6. ASSUME NEW u \in Handlers,
               CheckInitiate(u) \/ InsertVideoConflict(u) \/ CheckComplete(u) \/ HeadObject(u)
        PROVE  JobsInv'
    BY <1>4, <1>6 DEF CheckInitiate, InsertVideoConflict, CheckComplete, HeadObject
  <1>7. ASSUME NEW v \in Videos, NEW m \in Metas, PutVideo(v, m) PROVE JobsInv'
    BY <1>4, <1>7 DEF PutVideo
  <1>8. CASE UNCHANGED platformVars
    BY <1>4, <1>8 DEF platformVars
  <1> QED
    BY PlatformCases, <1>1, <1>2, <1>3, <1>5, <1>6, <1>7, <1>8, Zenon

\* The steps of the handlers that only read.
LocalStep(u) ==
    /\ upload' \in [Handlers -> Frame]
    /\ \A x \in Handlers \ {u} : upload'[x] = upload[x]
    /\ UNCHANGED <<vars, video, sourceVideo, stored>>

LEMMA Types ==
    ASSUME UploadInv
    PROVE  /\ TypeOK
           /\ video \in [Videos -> Video \cup {NoRecord}]
           /\ sourceVideo \in [Sessions -> Videos \cup {NoVideo}]
           /\ stored \in [Videos -> Metas \cup {NoMeta}]
           /\ upload \in [Handlers -> Frame]
           /\ \A u \in Handlers : upload[u].pc \in {"head", "verify"} =>
                 upload[u].row.session = upload[u].session /\ upload[u].row.meta = upload[u].meta
           /\ sessionStatus \in [Sessions -> SessionStatus]
  BY DEF UploadInv, UploadTypeOK, TypeOK

LEMMA BeginLocal ==
    ASSUME UploadInv, NEW u \in Handlers, NEW e \in {"initiate", "complete"},
           NEW s \in Sessions, NEW v \in Videos \cup {NoVideo}, NEW m \in Metas,
           NEW h \in Sums \cup {NoSum}, Begin(u, e, s, v, m, h)
    PROVE  /\ LocalStep(u)
           /\ upload'[u].pc = e /\ upload'[u].session = s /\ upload'[u].video = v
           /\ upload'[u].meta = m /\ upload'[u].seen = sessionStatus[s]
           /\ upload'[u].answer = "NONE"
  <1> DEFINE f == [pc |-> e, session |-> s, video |-> v, meta |-> m, sha |-> h,
                   seen |-> sessionStatus[s], source |-> sourceVideo[s],
                   row |-> NoRecord, answer |-> "NONE"]
  <1>2. f \in Frame
    <2>1. sessionStatus[s] \in SessionStatus /\ sourceVideo[s] \in Videos \cup {NoVideo}
      BY Types
    <2>2. "NONE" \in Answers
      BY DEF Answers
    <2> QED
      BY <2>1, <2>2 DEF Frame
  <1>3. upload' = [upload EXCEPT ![u] = f]
    BY DEF Begin
  <1> HIDE DEF f
  <1>4. upload'[u] = f /\ upload' \in [Handlers -> Frame]
        /\ \A x \in Handlers \ {u} : upload'[x] = upload[x]
    BY <1>2, <1>3, Types
  <1>5. UNCHANGED <<vars, video, sourceVideo, stored>>
    BY DEF Begin
  <1>6. LocalStep(u)
    BY <1>4, <1>5 DEF LocalStep
  <1>7. f.pc = e /\ f.session = s /\ f.video = v /\ f.meta = m
        /\ f.seen = sessionStatus[s] /\ f.answer = "NONE"
    BY DEF f
  <1> QED
    BY <1>4, <1>6, <1>7

LEMMA CompleteAnswerType ==
    ASSUME NEW f, NEW row
    PROVE  CompleteAnswer(f, row) \in Answers
  BY DEF CompleteAnswer, Answers

\* An answer ends a call.
LEMMA Responds ==
    ASSUME UploadInv, NEW u \in Handlers, NEW a \in Answers, Respond(u, a)
    PROVE  /\ upload' \in [Handlers -> Frame]
           /\ \A x \in Handlers \ {u} : upload'[x] = upload[x]
           /\ upload'[u].pc = "done" /\ upload'[u].answer = a
           /\ upload'[u].session = upload[u].session /\ upload'[u].meta = upload[u].meta
  <1>1. upload[u] \in Frame /\ upload \in [Handlers -> Frame]
    BY Types
  <1>2. upload' = [upload EXCEPT ![u] = [upload[u] EXCEPT !.pc = "done", !.answer = a]]
    BY DEF Respond
  <1>3. [upload[u] EXCEPT !.pc = "done", !.answer = a] \in Frame
    BY <1>1 DEF Frame
  <1> QED
    BY <1>1, <1>2, <1>3 DEF Frame

LEMMA Goes ==
    ASSUME UploadInv, NEW u \in Handlers, NEW l \in {"insert", "verify"}, Goto(u, l)
    PROVE  /\ upload' \in [Handlers -> Frame]
           /\ \A x \in Handlers \ {u} : upload'[x] = upload[x]
           /\ upload'[u] = [upload[u] EXCEPT !.pc = l]
  <1>1. upload[u] \in Frame /\ upload \in [Handlers -> Frame]
    BY Types
  <1>2. [upload[u] EXCEPT !.pc = l] \in Frame
    BY <1>1 DEF Frame
  <1> QED
    BY <1>1, <1>2 DEF Goto

\* Two videos of one session are one.
LEMMA SameVideo ==
    ASSUME OneSourceVideo, NEW s \in Sessions, NEW v \in VideosOf(s), NEW x \in VideosOf(s)
    PROVE  v = x
  BY DEF OneSourceVideo

\* complete_upload never meets an UPLOADED session whose video is not verified.
LEMMA Consistent ==
    ASSUME UploadInv, NEW u \in Handlers, At(u, "complete")
    PROVE  /\ upload[u].video \in Videos /\ upload[u].session \in Sessions
           /\ CompleteAnswer(upload[u], video[upload[u].video]) # "INCONSISTENT_UPLOAD_STATE"
           /\ CompleteAnswer(upload[u], video[upload[u].video]) = "NONE" =>
                 /\ Exists(upload[u].video)
                 /\ video[upload[u].video].session = upload[u].session
                 /\ video[upload[u].video].meta = upload[u].meta
  <1> DEFINE v == upload[u].video
             s == upload[u].session
             row == video[v]
  <1>1. v \in Videos /\ s \in Sessions /\ upload[u].meta \in Metas
    BY DEF UploadInv, FramesOk, FrameOk, At
  <1>2. row.session = s /\ row.meta = upload[u].meta => Exists(v)
    BY <1>1, UploadAssumption DEF Exists, NoRecord
  <1>3. CompleteAnswer(upload[u], row) = "NONE" =>
           row.session = s /\ row.meta = upload[u].meta
    BY DEF CompleteAnswer
  <1>4. ASSUME CompleteAnswer(upload[u], row) = "INCONSISTENT_UPLOAD_STATE" PROVE FALSE
    <2>1. /\ row.session = s /\ row.meta = upload[u].meta /\ upload[u].seen = "UPLOADED"
          /\ row.integrity # "STORAGE_VERIFIED"
      BY <1>4 DEF CompleteAnswer
    <2>2. sessionStatus[s] \in Analysable
      BY <2>1 DEF UploadInv, FramesOk, FrameOk, At, Analysable, SessionStatus
    <2>3. PICK x \in VideosOf(s) : video[x].integrity = "STORAGE_VERIFIED"
      BY <1>1, <2>2 DEF UploadInv, SessionMatchesVideo
    <2>4. v \in VideosOf(s)
      BY <1>1, <1>2, <2>1 DEF VideosOf
    <2>5. v = x
      BY <1>1, <2>3, <2>4, SameVideo DEF UploadInv
    <2> QED
      BY <2>1, <2>3, <2>5
  <1> QED
    BY <1>1, <1>2, <1>3, <1>4

\* A handler that only reads keeps what its frame relies on.
ReadsWell(u) ==
    /\ LocalStep(u)
    /\ FrameOk(u)'
    /\ upload'[u].answer # "INCONSISTENT_UPLOAD_STATE"
    /\ upload'[u].pc \in {"head", "verify"} =>
          upload'[u].row.session = upload'[u].session /\ upload'[u].row.meta = upload'[u].meta

LEMMA Answered ==
    ASSUME UploadInv, NEW u \in Handlers, upload[u].pc # "idle",
           NEW a \in Answers \ {"INCONSISTENT_UPLOAD_STATE"},
           Respond(u, a), UNCHANGED <<vars, video, sourceVideo, stored>>
    PROVE  ReadsWell(u)
  <1>1. LocalStep(u) /\ upload'[u].pc = "done" /\ upload'[u].answer = a
        /\ upload'[u].session = upload[u].session /\ upload'[u].meta = upload[u].meta
    BY Responds DEF LocalStep
  <1>2. upload[u].session \in Sessions /\ upload[u].meta \in Metas
    BY DEF UploadInv, FramesOk, FrameOk
  <1>3. FrameOk(u)'
    BY <1>1, <1>2 DEF FrameOk
  <1> QED
    BY <1>1, <1>3 DEF ReadsWell

LEMMA ReadSteps ==
    ASSUME UploadInv, NEW u \in Handlers,
           CheckInitiate(u) \/ InsertVideoConflict(u) \/ CheckComplete(u) \/ HeadObject(u)
    PROVE  ReadsWell(u)
  <1>0. FrameOk(u) /\ upload[u] \in Frame /\ upload \in [Handlers -> Frame]
        /\ video \in [Videos -> Video \cup {NoRecord}]
        /\ upload[u].answer # "INCONSISTENT_UPLOAD_STATE"
    BY Types DEF UploadInv, FramesOk, SessionMatchesVideo
  <1>a. {"OK", "SOURCE_VIDEO_ALREADY_EXISTS", "INVALID_SESSION_STATE", "STORAGE_SIGNING_FAILED",
         "STORAGE_OBJECT_MISSING", "STORAGE_OBJECT_MISMATCH", "INTERNAL_ERROR"}
           \subseteq Answers \ {"INCONSISTENT_UPLOAD_STATE"}
    BY DEF Answers
  <1>1. CASE CheckInitiate(u)
    <2>1. upload[u].pc = "initiate" /\ UNCHANGED <<vars, video, sourceVideo, stored>>
      BY <1>1 DEF CheckInitiate, At
    <2>2. \/ Goto(u, "insert")
          \/ \E a \in {"SOURCE_VIDEO_ALREADY_EXISTS", "INVALID_SESSION_STATE",
                       "STORAGE_SIGNING_FAILED"} : Respond(u, a)
      BY <1>1, Zenon DEF CheckInitiate
    <2>3. CASE Goto(u, "insert")
      <3>1. LocalStep(u) /\ upload'[u] = [upload[u] EXCEPT !.pc = "insert"]
        BY <2>1, <2>3, Goes DEF LocalStep
      <3> QED
        BY <1>0, <2>1, <3>1 DEF ReadsWell, FrameOk, Frame
    <2> QED
      BY <1>a, <2>1, <2>2, <2>3, Answered
  <1>2. CASE InsertVideoConflict(u)
    <2>1. /\ upload[u].pc = "insert" /\ UNCHANGED <<vars, video, sourceVideo, stored>>
          /\ Respond(u, "SOURCE_VIDEO_ALREADY_EXISTS")
      BY <1>2 DEF InsertVideoConflict, At
    <2> QED
      BY <1>a, <2>1, Answered
  <1>3. CASE CheckComplete(u)
    <2> DEFINE row == video[upload[u].video]
               a == CompleteAnswer(upload[u], row)
    <2>1. /\ upload[u].pc = "complete" /\ At(u, "complete")
          /\ UNCHANGED <<vars, video, sourceVideo, stored>>
          /\ IF a # "NONE" THEN Respond(u, a)
             ELSE upload' = [upload EXCEPT ![u].pc = "head", ![u].row = row]
      BY <1>3 DEF CheckComplete, At
    <2>2. CASE a # "NONE"
      <3>1. a \in Answers /\ a # "INCONSISTENT_UPLOAD_STATE"
        BY <2>1, CompleteAnswerType, Consistent
      <3> QED
        BY <2>1, <2>2, <3>1, Answered
    <2>3. CASE a = "NONE"
      <3>1. /\ upload[u].video \in Videos /\ upload[u].session \in Sessions
            /\ Exists(upload[u].video)
            /\ row.session = upload[u].session /\ row.meta = upload[u].meta
        BY <2>1, <2>3, Consistent
      <3>2. upload' = [upload EXCEPT ![u] = [upload[u] EXCEPT !.pc = "head", !.row = row]]
        BY <2>1, <2>3
      <3>3. row \in Video \cup {NoRecord}
        BY <1>0, <3>1
      <3> HIDE DEF row, a
      <3>4. [upload[u] EXCEPT !.pc = "head", !.row = row] \in Frame
        BY <1>0, <3>3 DEF Frame
      <3>5. /\ upload'[u] = [upload[u] EXCEPT !.pc = "head", !.row = row]
            /\ upload' \in [Handlers -> Frame]
            /\ \A x \in Handlers \ {u} : upload'[x] = upload[x]
        BY <1>0, <3>2, <3>4
      <3>6. /\ upload'[u].pc = "head" /\ upload'[u].row = row
            /\ upload'[u].session = upload[u].session /\ upload'[u].meta = upload[u].meta
            /\ upload'[u].video = upload[u].video /\ upload'[u].answer = upload[u].answer
        BY <1>0, <3>5 DEF Frame
      <3>7. LocalStep(u)
        BY <2>1, <3>5 DEF LocalStep
      <3>8. FrameOk(u)'
        BY <1>0, <2>1, <3>1, <3>6 DEF FrameOk, Exists, row
      <3> QED
        BY <1>0, <3>1, <3>6, <3>7, <3>8 DEF ReadsWell
    <2> QED
      BY <2>2, <2>3
  <1>4. CASE HeadObject(u)
    <2>1. upload[u].pc = "head" /\ UNCHANGED <<vars, video, sourceVideo, stored>>
      BY <1>4 DEF HeadObject, At
    <2>2. \/ Goto(u, "verify") /\ stored[upload[u].video] # NoMeta
          \/ \E a \in {"STORAGE_OBJECT_MISSING", "STORAGE_OBJECT_MISMATCH", "INTERNAL_ERROR"} :
                Respond(u, a)
      BY <1>4 DEF HeadObject, HeadAnswer
    <2>3. CASE Goto(u, "verify") /\ stored[upload[u].video] # NoMeta
      <3>1. LocalStep(u) /\ upload'[u] = [upload[u] EXCEPT !.pc = "verify"]
        BY <2>1, <2>3, Goes DEF LocalStep
      <3>2. /\ upload'[u].pc = "verify" /\ upload'[u].row = upload[u].row
            /\ upload'[u].session = upload[u].session /\ upload'[u].meta = upload[u].meta
            /\ upload'[u].video = upload[u].video /\ upload'[u].answer = upload[u].answer
        BY <1>0, <3>1 DEF Frame
      <3>3. FrameOk(u)'
        BY <1>0, <2>1, <2>3, <3>2 DEF FrameOk, Exists
      <3>4. upload[u].row.session = upload[u].session /\ upload[u].row.meta = upload[u].meta
        BY <2>1, Types
      <3> QED
        BY <1>0, <3>1, <3>2, <3>3, <3>4 DEF ReadsWell
    <2> QED
      BY <1>a, <2>1, <2>2, <2>3, Answered
  <1> QED
    BY <1>1, <1>2, <1>3, <1>4

-----------------------------------------------------------------------------
\* What the requests for runs have seen, and the runs they made, stay covered.
LEMMA CoveredFrame ==
    ASSUME UploadInv, [PlatformNext]_platformVars, UNCHANGED <<status, request, call>>
    PROVE  CallsSawAnalysable' /\ RunsAreAnalysable'
  <1>1. ASSUME NEW c \in Callers
        PROVE  /\ call[c].pc \in {"session", "insert"} /\ call[c].seen \in Analysable
                     => sessionStatus'[call[c].req.session] \in Analysable
               /\ call[c].pc = "insert" => call[c].seen \in Analysable
    <2>1. call[c].pc # "idle" => call[c].req.session \in Sessions
      BY DEF UploadInv, JobsInv, PostedRequests, Request
    <2> QED
      BY <2>1, StaysAnalysable DEF UploadInv, CallsSawAnalysable
  <1>2. ASSUME NEW r \in Runs, status[r] # "ABSENT"
        PROVE  sessionStatus'[request[r].session] \in Analysable
    <2>1. request[r].session \in Sessions
      BY <1>2 DEF UploadInv, JobsInv, RowShape, Request
    <2> QED
      BY <1>2, <2>1, StaysAnalysable DEF UploadInv, RunsAreAnalysable
  <1> QED
    BY <1>1, <1>2 DEF CallsSawAnalysable, RunsAreAnalysable

\* A step of the job service, as the requests for runs see it.
LEMMA CallSteps ==
    ASSUME UploadInv, [Next]_vars, NEW c \in Callers
    PROVE  \/ call'[c] = call[c]
           \/ /\ call'[c].pc = "session" /\ call'[c].req \in Request
              /\ call'[c].seen = sessionStatus[call'[c].req.session]
           \/ /\ call[c].pc = "session" /\ call[c].seen \in Analysable
              /\ call'[c].pc = "insert" /\ call'[c].seen = call[c].seen
              /\ call'[c].req = call[c].req
           \/ call'[c].pc \in {"conflict", "done"}
  <1> DEFINE Goal == \/ call'[c] = call[c]
                     \/ /\ call'[c].pc = "session" /\ call'[c].req \in Request
                        /\ call'[c].seen = sessionStatus[call'[c].req.session]
                     \/ /\ call[c].pc = "session" /\ call[c].seen \in Analysable
                        /\ call'[c].pc = "insert" /\ call'[c].seen = call[c].seen
                        /\ call'[c].req = call[c].req
                     \/ call'[c].pc \in {"conflict", "done"}
  <1>0. call \in [Callers -> Call]
    BY DEF UploadInv, JobsInv, TypeOK
  <1>1. ASSUME NEW d \in Callers, NEW q \in Request, BeginCreate(d, q) PROVE Goal
    BY <1>0, <1>1 DEF BeginCreate, Call
  <1>2. ASSUME NEW d \in Callers, CheckCreate(d) PROVE Goal
    <2>1. \/ \E a : Answer(d, a)
          \/ /\ call[d].pc = "session" /\ call[d].seen \in Analysable
             /\ call' = [call EXCEPT ![d].pc = "insert"]
      BY <1>2, Zenon DEF CheckCreate
    <2> QED
      BY <1>0, <2>1 DEF Answer, Call
  <1>3. ASSUME NEW d \in Callers, NEW r \in Runs, InsertRun(d, r) PROVE Goal
    BY <1>0, <1>3 DEF InsertRun, Answer, Call
  <1>4. ASSUME NEW d \in Callers, InsertConflict(d) \/ ResolveConflict(d) PROVE Goal
    BY <1>0, <1>4 DEF InsertConflict, ResolveConflict, Answer, Call
  <1>5. UNCHANGED call => Goal
    OBVIOUS
  <1> HIDE DEF Goal
  <1>6. Goal
    <2> USE <1>5 DEF vars
    <2>1. ASSUME NEW w \in Workers, NEW taken \in SUBSET Expired, Reclaim(w, taken) PROVE Goal
      BY <2>1 DEF Reclaim
    <2>2. ASSUME NEW w \in Workers, NEW r \in Runs,
                 Claim(w, r) \/ Heartbeat(w, r, leaseToken[r])
          PROVE  Goal
      BY <2>2 DEF Claim, Heartbeat
    <2>3. ASSUME NEW w \in Workers, NoJob(w) \/ Refresh(w) \/ Reload(w) \/ Drop(w) PROVE Goal
      BY <2>3 DEF NoJob, Refresh, Reload, Drop
    <2>4. ASSUME NEW w \in Workers, NEW target \in {"COMPLETE", "PARTIAL"}, Finalize(w, target)
          PROVE  Goal
      BY <2>4 DEF Finalize, EndRun
    <2>5. ASSUME NEW w \in Workers, Fail(w) \/ Acknowledge(w) PROVE Goal
      BY <2>5 DEF Fail, Acknowledge, EndRun
    <2>6. ASSUME NEW r \in Runs, CancelQueued(r) \/ CancelRunning(r) PROVE Goal
      BY <2>6 DEF CancelQueued, CancelRunning
    <2>7. CASE Tick \/ UNCHANGED vars
      BY <2>7 DEF Tick
    <2> QED
      BY StepCases, <1>1, <1>2, <1>3, <1>4, <2>1, <2>2, <2>3, <2>4, <2>5, <2>6, <2>7, Zenon
  <1> QED
    BY <1>6 DEF Goal

\* A run is made for a session that is analysable; a row's request never changes.
LEMMA RunSteps ==
    ASSUME UploadInv, [Next]_vars, NEW r \in Runs, status'[r] # "ABSENT"
    PROVE  /\ request'[r].session \in Sessions
           /\ sessionStatus[request'[r].session] \in Analysable
  <1> DEFINE Old == status[r] # "ABSENT" /\ request'[r] = request[r]
  <1>0. /\ status \in [Runs -> RunStatus] /\ request \in [Runs -> Request \cup {NoRequest}]
        /\ RowShape /\ PostedRequests
    BY DEF UploadInv, JobsInv, TypeOK
  <1>1. CASE Old
    BY <1>0, <1>1 DEF UploadInv, RunsAreAnalysable, RowShape, Request
  <1>2. ASSUME NEW c \in Callers, NEW x \in Runs, InsertRun(c, x), ~Old
        PROVE  /\ request'[r].session \in Sessions
               /\ sessionStatus[request'[r].session] \in Analysable
    <2>1. r = x /\ request'[r] = call[c].req /\ call[c].pc = "insert"
      BY <1>0, <1>2 DEF InsertRun
    <2>2. call[c].req.session \in Sessions
      BY <1>0, <2>1 DEF PostedRequests, Request
    <2>3. sessionStatus[call[c].req.session] \in Analysable
      BY <2>1 DEF UploadInv, CallsSawAnalysable
    <2> QED
      BY <2>1, <2>2, <2>3
  <1>3. (\A c \in Callers, x \in Runs : ~InsertRun(c, x)) => Old
    <2> SUFFICES ASSUME \A c \in Callers, x \in Runs : ~InsertRun(c, x) PROVE Old
      OBVIOUS
    <2>1. UNCHANGED <<status, request>> => Old
      OBVIOUS
    <2>2. ASSUME NEW w \in Workers, NEW taken \in SUBSET Expired, Reclaim(w, taken) PROVE Old
      BY <1>0, <2>2 DEF Reclaim, Expired
    <2>3. ASSUME NEW w \in Workers, NEW x \in Runs, Claim(w, x) PROVE Old
      BY <1>0, <2>3 DEF Claim
    <2>4. ASSUME NEW w \in Workers, NEW target \in {"COMPLETE", "PARTIAL"}, Finalize(w, target)
          PROVE  Old
      <3>1. client[w].run \in Runs /\ status[client[w].run] = "RUNNING"
        BY <2>4, SeenIsCurrent DEF Finalize, RequireLease, UploadInv
      <3> QED
        BY <1>0, <2>4, <3>1 DEF Finalize, EndRun
    <2>5. ASSUME NEW w \in Workers, Fail(w) \/ Acknowledge(w) PROVE Old
      <3>1. client[w].run \in Runs /\ status[client[w].run] = "RUNNING"
        BY <2>5, SeenIsCurrent DEF Fail, Acknowledge, RequireLease, UploadInv
      <3> QED
        BY <1>0, <2>5, <3>1 DEF Fail, Acknowledge, EndRun
    <2>6. ASSUME NEW x \in Runs, CancelQueued(x) PROVE Old
      BY <1>0, <2>6 DEF CancelQueued
    <2> HIDE DEF Old
    <2> USE <2>1 DEF vars
    <2>7. ASSUME NEW c \in Callers, NEW q \in Request, BeginCreate(c, q) PROVE Old
      BY <2>7 DEF BeginCreate
    <2>8. ASSUME NEW c \in Callers, CheckCreate(c) \/ InsertConflict(c) \/ ResolveConflict(c)
          PROVE  Old
      BY <2>8 DEF CheckCreate, InsertConflict, ResolveConflict
    <2>9. ASSUME NEW w \in Workers, NoJob(w) \/ Refresh(w) \/ Reload(w) \/ Drop(w) PROVE Old
      BY <2>9 DEF NoJob, Refresh, Reload, Drop
    <2>10. ASSUME NEW w \in Workers, NEW x \in Runs, Heartbeat(w, x, leaseToken[x]) PROVE Old
      BY <2>10 DEF Heartbeat
    <2>11. ASSUME NEW x \in Runs, CancelRunning(x) PROVE Old
      BY <2>11 DEF CancelRunning
    <2>12. CASE Tick \/ UNCHANGED vars
      BY <2>12 DEF Tick
    <2> QED
      BY StepCases, <2>2, <2>3, <2>4, <2>5, <2>6, <2>7, <2>8, <2>9, <2>10, <2>11, <2>12, Zenon
  <1> QED
    BY <1>1, <1>2, <1>3

LEMMA CoveredByJobs ==
    ASSUME UploadInv, JobService
    PROVE  CallsSawAnalysable' /\ RunsAreAnalysable'
  <1>0. [Next]_vars /\ [PlatformNext]_platformVars
    BY DEF JobService, PlatformNext
  <1>1. ASSUME NEW c \in Callers
        PROVE  /\ call'[c].pc \in {"session", "insert"} /\ call'[c].seen \in Analysable
                     => sessionStatus'[call'[c].req.session] \in Analysable
               /\ call'[c].pc = "insert" => call'[c].seen \in Analysable
    <2>1. call[c].pc # "idle" => call[c].req.session \in Sessions
      BY DEF UploadInv, JobsInv, PostedRequests, Request
    <2>2. call'[c].req \in Request => call'[c].req.session \in Sessions
      BY DEF Request
    <2> QED
      BY <1>0, <2>1, <2>2, CallSteps, StaysAnalysable DEF UploadInv, CallsSawAnalysable
  <1>2. ASSUME NEW r \in Runs, status'[r] # "ABSENT"
        PROVE  sessionStatus'[request'[r].session] \in Analysable
    BY <1>0, <1>2, RunSteps, StaysAnalysable
  <1> QED
    BY <1>1, <1>2 DEF CallsSawAnalysable, RunsAreAnalysable

-----------------------------------------------------------------------------
\* A step that leaves the videos and the frames of the other handlers alone.
LEMMA OtherFrames ==
    ASSUME UploadInv, [PlatformNext]_platformVars, NEW x \in Handlers,
           upload'[x] = upload[x],
           \A v \in Videos : Exists(v) => Exists(v)' /\ video'[v].session = video[v].session,
           \A v \in Videos : stored[v] # NoMeta => stored'[v] # NoMeta
    PROVE  FrameOk(x)'
  <1>1. FrameOk(x)
    BY DEF UploadInv, FramesOk
  <1>2. upload[x].pc = "complete" /\ upload[x].seen \in Analysable =>
           sessionStatus'[upload[x].session] \in Analysable
    BY <1>1, StaysAnalysable DEF FrameOk
  <1> QED
    BY <1>1, <1>2 DEF FrameOk

LEMMA ReadsKeep ==
    ASSUME UploadInv, [PlatformNext]_platformVars, NEW u \in Handlers, ReadsWell(u)
    PROVE  UploadInv'
  <1>0. LocalStep(u) /\ UNCHANGED <<vars, video, sourceVideo, stored>>
    BY DEF ReadsWell, LocalStep
  <1>1. JobsInv'
    BY JobsPart
  <1>2. UploadTypeOK'
    <2>1. \A x \in Handlers : upload'[x].pc \in {"head", "verify"} =>
             upload'[x].row.session = upload'[x].session /\ upload'[x].row.meta = upload'[x].meta
      BY <1>0, Types DEF LocalStep, ReadsWell
    <2> QED
      BY <1>0, <1>1, <2>1, Types DEF UploadTypeOK, JobsInv, LocalStep
  <1>3. OneSourceVideo' /\ VerifiedIsStored'
    BY <1>0 DEF UploadInv, OneSourceVideo, VideosOf, Exists, VerifiedIsStored
  <1>4. SessionMatchesVideo'
    <2>1. \A x \in Handlers : upload'[x].answer # "INCONSISTENT_UPLOAD_STATE"
      BY <1>0 DEF UploadInv, SessionMatchesVideo, LocalStep, ReadsWell
    <2> QED
      BY <1>0, <2>1 DEF UploadInv, SessionMatchesVideo, VideosOf, Exists, vars, sessionVars
  <1>5. FramesOk'
    <2>1. ASSUME NEW x \in Handlers, x # u PROVE FrameOk(x)'
      BY <1>0, <2>1, OtherFrames DEF LocalStep, Exists
    <2> QED
      BY <2>1 DEF FramesOk, ReadsWell
  <1>6. CallsSawAnalysable' /\ RunsAreAnalysable'
    BY <1>0, CoveredFrame DEF vars
  <1> QED
    BY <1>1, <1>2, <1>3, <1>4, <1>5, <1>6 DEF UploadInv

LEMMA InsertKeeps ==
    ASSUME UploadInv, [PlatformNext]_platformVars, NEW u \in Handlers, NEW v \in Videos,
           InsertVideo(u, v)
    PROVE  UploadInv'
  <1>b. upload[u].session \in Sessions /\ upload[u].meta \in Metas
    BY DEF InsertVideo, UploadInv, FramesOk, FrameOk, At
  <1> PICK s \in Sessions : s = upload[u].session
    BY <1>b
  <1> DEFINE row == [session |-> s, meta |-> upload[u].meta, sha |-> upload[u].sha,
                    integrity |-> "CLIENT_DECLARED"]
  <1>0. /\ At(u, "insert") /\ ~Exists(v) /\ VideosOf(s) = {}
        /\ video' = [video EXCEPT ![v] = row]
        /\ sourceVideo' = [sourceVideo EXCEPT ![s] = v]
        /\ sessionStatus' = [sessionStatus EXCEPT ![s] = "UPLOADING"]
        /\ Respond(u, "OK")
        /\ UNCHANGED <<status, request, call, stored>>
    BY DEF InsertVideo, SecondSource
  <1>a. /\ video \in [Videos -> Video \cup {NoRecord}]
        /\ sourceVideo \in [Sessions -> Videos \cup {NoVideo}]
        /\ stored \in [Videos -> Metas \cup {NoMeta}]
        /\ sessionStatus \in [Sessions -> SessionStatus]
        /\ upload[u] \in Frame
    BY Types
  <1>c. row \in Video
    BY <1>a, <1>b DEF Video, Frame
  <1>d. row # NoRecord /\ row.integrity # "STORAGE_VERIFIED" /\ row.session = s
    BY <1>b, UploadAssumption DEF NoRecord
  <1> HIDE DEF row
  <1>e. video'[v] = row /\ \A x \in Videos \ {v} : video'[x] = video[x]
    BY <1>0, <1>a
  <1>f. /\ VideosOf(s)' = {v}
        /\ \A t \in Sessions \ {s} : VideosOf(t)' = VideosOf(t) /\ v \notin VideosOf(t)
    <2>1. \A x \in Videos \ {v} : Exists(x)' = Exists(x) /\ (Exists(x) => video[x].session # s)
      BY <1>0, <1>e DEF VideosOf, Exists
    <2>2. Exists(v)' /\ video'[v].session = s
      BY <1>d, <1>e DEF Exists
    <2>3. VideosOf(s)' = {v}
      BY <1>e, <2>1, <2>2 DEF VideosOf
    <2>4. ASSUME NEW t \in Sessions \ {s}
          PROVE  VideosOf(t)' = VideosOf(t) /\ v \notin VideosOf(t)
      BY <1>0, <1>e, <2>1, <2>2 DEF VideosOf
    <2> QED
      BY <2>3, <2>4
  <1>g. /\ upload' \in [Handlers -> Frame] /\ \A x \in Handlers \ {u} : upload'[x] = upload[x]
        /\ upload'[u].pc = "done" /\ upload'[u].answer = "OK"
        /\ upload'[u].session = s /\ upload'[u].meta = upload[u].meta
    BY <1>0, Responds DEF Answers
  <1>1. JobsInv'
    BY JobsPart
  <1>2. UploadTypeOK'
    <2>1. video' \in [Videos -> Video \cup {NoRecord}]
      BY <1>0, <1>a, <1>c
    <2>2. sourceVideo' \in [Sessions -> Videos \cup {NoVideo}]
      BY <1>0, <1>a
    <2>3. \A x \in Handlers : upload'[x].pc \in {"head", "verify"} =>
             upload'[x].row.session = upload'[x].session /\ upload'[x].row.meta = upload'[x].meta
      BY <1>g, Types
    <2> QED
      BY <1>0, <1>1, <1>a, <1>g, <2>1, <2>2, <2>3 DEF UploadTypeOK, JobsInv
  <1>3. OneSourceVideo'
    <2>1. sourceVideo'[s] = v /\ v # NoVideo /\ \A t \in Sessions \ {s} : sourceVideo'[t] = sourceVideo[t]
      BY <1>0, <1>a, <1>b, UploadAssumption
    <2>2. ASSUME NEW t \in Sessions
          PROVE  VideosOf(t)' = IF sourceVideo'[t] = NoVideo THEN {} ELSE {sourceVideo'[t]}
      <3>1. CASE t = s
        BY <1>f, <2>1, <3>1
      <3>2. CASE t # s
        BY <1>f, <2>1, <3>2 DEF UploadInv, OneSourceVideo
      <3> QED
        BY <3>1, <3>2
    <2> QED
      BY <2>2 DEF OneSourceVideo
  <1>4. SessionMatchesVideo'
    <2>1. sessionStatus'[s] \notin Analysable
          /\ \A t \in Sessions \ {s} : sessionStatus'[t] = sessionStatus[t]
      BY <1>0, <1>a, <1>b DEF Analysable
    <2>2. ASSUME NEW t \in Sessions
          PROVE  sessionStatus'[t] \in Analysable <=>
                   \E x \in VideosOf(t)' : video'[x].integrity = "STORAGE_VERIFIED"
      <3>1. CASE t = s
        <4>1. VideosOf(t)' = {v} /\ video'[v].integrity # "STORAGE_VERIFIED"
          BY <1>d, <1>e, <1>f, <3>1
        <4> QED
          BY <2>1, <3>1, <4>1
      <3>2. CASE t # s
        <4>1. \A x \in VideosOf(t) : video'[x] = video[x]
          BY <1>e, <1>f, <3>2 DEF VideosOf
        <4> QED
          BY <1>f, <2>1, <3>2, <4>1 DEF UploadInv, SessionMatchesVideo
      <3> QED
        BY <3>1, <3>2
    <2>3. \A x \in Handlers : upload'[x].answer # "INCONSISTENT_UPLOAD_STATE"
      BY <1>g DEF UploadInv, SessionMatchesVideo
    <2> QED
      BY <2>2, <2>3 DEF SessionMatchesVideo
  <1>5. FramesOk'
    <2>1. ASSUME NEW x \in Handlers, x # u PROVE FrameOk(x)'
      <3>1. \A y \in Videos : Exists(y) => Exists(y)' /\ video'[y].session = video[y].session
        BY <1>0, <1>e DEF Exists
      <3> QED
        BY <1>0, <1>g, <2>1, <3>1, OtherFrames
    <2>2. FrameOk(u)'
      BY <1>b, <1>g DEF FrameOk
    <2> QED
      BY <2>1, <2>2 DEF FramesOk
  <1>6. VerifiedIsStored'
    BY <1>0, <1>d, <1>e DEF UploadInv, VerifiedIsStored
  <1>7. CallsSawAnalysable' /\ RunsAreAnalysable'
    BY <1>0, CoveredFrame
  <1> QED
    BY <1>1, <1>2, <1>3, <1>4, <1>5, <1>6, <1>7 DEF UploadInv

LEMMA CommitKeeps ==
    ASSUME UploadInv, [PlatformNext]_platformVars, NEW u \in Handlers, CommitComplete(u)
    PROVE  UploadInv'
  <1> DEFINE v == upload[u].video
             s == upload[u].session
  <1>0. /\ At(u, "verify") /\ Respond(u, "OK")
        /\ video' = [video EXCEPT ![v] = Verified(u)]
        /\ sessionStatus' = [sessionStatus EXCEPT ![s] = "UPLOADED"]
        /\ UNCHANGED <<status, request, call, sourceVideo, stored>>
    BY DEF CommitComplete
  <1>a. /\ video \in [Videos -> Video \cup {NoRecord}]
        /\ sourceVideo \in [Sessions -> Videos \cup {NoVideo}]
        /\ stored \in [Videos -> Metas \cup {NoMeta}]
        /\ sessionStatus \in [Sessions -> SessionStatus]
        /\ upload[u] \in Frame
    BY Types
  <1>b. /\ s \in Sessions /\ v \in Videos /\ upload[u].meta \in Metas
        /\ Exists(v) /\ video[v].session = s /\ stored[v] # NoMeta
    BY <1>0 DEF UploadInv, FramesOk, FrameOk, At
  <1>c. Verified(u) \in Video /\ Verified(u).session = s
        /\ Verified(u).integrity = "STORAGE_VERIFIED"
    <2>1. video[v] \in Video
      BY <1>a, <1>b DEF Exists
    <2>2. upload[u].sha \in Sums \cup {NoSum}
      BY <1>a DEF Frame
    <2> QED
      BY <1>b, <2>1, <2>2 DEF Verified, Video
  <1>d. Verified(u) # NoRecord
    BY <1>c DEF NoRecord
  <1>e. video'[v] = Verified(u) /\ \A x \in Videos \ {v} : video'[x] = video[x]
    BY <1>0, <1>a, <1>b
  <1>f. \A t \in Sessions : VideosOf(t)' = VideosOf(t)
    BY <1>b, <1>c, <1>d, <1>e DEF VideosOf, Exists
  <1>g. /\ upload' \in [Handlers -> Frame] /\ \A x \in Handlers \ {u} : upload'[x] = upload[x]
        /\ upload'[u].pc = "done" /\ upload'[u].answer = "OK"
        /\ upload'[u].session = s /\ upload'[u].meta = upload[u].meta
    BY <1>0, Responds DEF Answers
  <1> HIDE DEF s, v
  <1>1. JobsInv'
    BY JobsPart
  <1>2. UploadTypeOK'
    <2>1. video' \in [Videos -> Video \cup {NoRecord}]
      BY <1>0, <1>a, <1>c
    <2>3. \A x \in Handlers : upload'[x].pc \in {"head", "verify"} =>
             upload'[x].row.session = upload'[x].session /\ upload'[x].row.meta = upload'[x].meta
      BY <1>g, Types
    <2> QED
      BY <1>0, <1>1, <1>a, <1>g, <2>1, <2>3 DEF UploadTypeOK, JobsInv
  <1>3. OneSourceVideo'
    BY <1>0, <1>f DEF UploadInv, OneSourceVideo
  <1>4. SessionMatchesVideo'
    <2>1. sessionStatus'[s] \in Analysable
          /\ \A t \in Sessions \ {s} : sessionStatus'[t] = sessionStatus[t]
      BY <1>0, <1>a, <1>b DEF Analysable, SessionStatus
    <2>2. ASSUME NEW t \in Sessions
          PROVE  sessionStatus'[t] \in Analysable <=>
                   \E x \in VideosOf(t)' : video'[x].integrity = "STORAGE_VERIFIED"
      <3>1. CASE t = s
        <4>1. v \in VideosOf(s)
          BY <1>b DEF VideosOf
        <4> QED
          BY <1>b, <1>c, <1>e, <1>f, <2>1, <3>1, <4>1
      <3>2. CASE t # s
        <4>1. \A x \in VideosOf(t) : video'[x] = video[x]
          BY <1>b, <1>e, <3>2 DEF VideosOf
        <4> QED
          BY <1>f, <2>1, <3>2, <4>1 DEF UploadInv, SessionMatchesVideo
      <3> QED
        BY <3>1, <3>2
    <2>3. \A x \in Handlers : upload'[x].answer # "INCONSISTENT_UPLOAD_STATE"
      BY <1>g DEF UploadInv, SessionMatchesVideo
    <2> QED
      BY <2>2, <2>3 DEF SessionMatchesVideo
  <1>5. FramesOk'
    <2>1. ASSUME NEW x \in Handlers, x # u PROVE FrameOk(x)'
      <3>1. \A y \in Videos : Exists(y) => Exists(y)' /\ video'[y].session = video[y].session
        BY <1>b, <1>c, <1>d, <1>e DEF Exists
      <3> QED
        BY <1>0, <1>g, <2>1, <3>1, OtherFrames
    <2>2. FrameOk(u)'
      BY <1>b, <1>g DEF FrameOk
    <2> QED
      BY <2>1, <2>2 DEF FramesOk
  <1>6. VerifiedIsStored'
    BY <1>0, <1>b, <1>e DEF UploadInv, VerifiedIsStored
  <1>7. CallsSawAnalysable' /\ RunsAreAnalysable'
    BY <1>0, CoveredFrame
  <1> QED
    BY <1>1, <1>2, <1>3, <1>4, <1>5, <1>6, <1>7 DEF UploadInv

LEMMA PutKeeps ==
    ASSUME UploadInv, [PlatformNext]_platformVars, NEW v \in Videos, NEW m \in Metas,
           PutVideo(v, m)
    PROVE  UploadInv'
  <1>0. stored' = [stored EXCEPT ![v] = m] /\ UNCHANGED <<vars, video, sourceVideo, upload>>
    BY DEF PutVideo
  <1>a. stored \in [Videos -> Metas \cup {NoMeta}]
    BY Types
  <1>b. \A x \in Videos : stored[x] # NoMeta => stored'[x] # NoMeta
    BY <1>0, <1>a, UploadAssumption
  <1>1. JobsInv'
    BY JobsPart
  <1>2. UploadTypeOK'
    BY <1>0, <1>1, <1>a, Types DEF UploadTypeOK, JobsInv
  <1>3. OneSourceVideo' /\ SessionMatchesVideo'
    BY <1>0 DEF UploadInv, OneSourceVideo, SessionMatchesVideo, VideosOf, Exists, vars, sessionVars
  <1>4. VerifiedIsStored'
    BY <1>0, <1>b DEF UploadInv, VerifiedIsStored
  <1>5. FramesOk'
    <2>1. \A y \in Videos : Exists(y) => Exists(y)' /\ video'[y].session = video[y].session
      BY <1>0 DEF Exists
    <2>2. ASSUME NEW x \in Handlers PROVE FrameOk(x)'
      BY <1>0, <1>b, <2>1, OtherFrames
    <2> QED
      BY <2>2 DEF FramesOk
  <1>6. CallsSawAnalysable' /\ RunsAreAnalysable'
    BY <1>0, CoveredFrame DEF vars
  <1> QED
    BY <1>1, <1>2, <1>3, <1>4, <1>5, <1>6 DEF UploadInv

LEMMA JobsKeep ==
    ASSUME UploadInv, JobService
    PROVE  UploadInv'
  <1>0. /\ [Next]_vars /\ [PlatformNext]_platformVars
        /\ UNCHANGED <<video, sourceVideo, stored, upload>>
    BY DEF JobService, PlatformNext, uploadVars
  <1>1. JobsInv'
    BY <1>0, JobsPart
  <1>2. UploadTypeOK'
    BY <1>0, <1>1, Types DEF UploadTypeOK, JobsInv
  <1>3. OneSourceVideo' /\ VerifiedIsStored'
    BY <1>0 DEF UploadInv, OneSourceVideo, VerifiedIsStored, VideosOf, Exists
  <1>4. SessionMatchesVideo'
    <2>1. ASSUME NEW s \in Sessions
          PROVE  sessionStatus'[s] \in Analysable <=> sessionStatus[s] \in Analysable
      BY <1>0, SessionSteps
    <2> QED
      BY <1>0, <2>1 DEF UploadInv, SessionMatchesVideo, VideosOf, Exists
  <1>5. FramesOk'
    <2>1. \A v \in Videos : Exists(v) => Exists(v)' /\ video'[v].session = video[v].session
      BY <1>0 DEF Exists
    <2>2. ASSUME NEW x \in Handlers PROVE FrameOk(x)'
      BY <1>0, <2>1, OtherFrames
    <2> QED
      BY <2>2 DEF FramesOk
  <1>6. CallsSawAnalysable' /\ RunsAreAnalysable'
    BY CoveredByJobs
  <1> QED
    BY <1>1, <1>2, <1>3, <1>4, <1>5, <1>6 DEF UploadInv

LEMMA BeginReads ==
    ASSUME UploadInv, NEW u \in Handlers, NEW e \in {"initiate", "complete"},
           NEW s \in Sessions, NEW v \in Videos \cup {NoVideo}, NEW m \in Metas,
           NEW h \in Sums \cup {NoSum}, e = "complete" => v \in Videos, Begin(u, e, s, v, m, h)
    PROVE  ReadsWell(u)
  <1>1. /\ LocalStep(u)
        /\ upload'[u].pc = e /\ upload'[u].session = s /\ upload'[u].video = v
        /\ upload'[u].meta = m /\ upload'[u].seen = sessionStatus[s]
        /\ upload'[u].answer = "NONE"
    BY BeginLocal
  <1>2. sessionStatus' = sessionStatus
    BY <1>1 DEF LocalStep, vars, sessionVars
  <1>3. FrameOk(u)'
    BY <1>1, <1>2 DEF FrameOk
  <1> QED
    BY <1>1, <1>3 DEF ReadsWell

LEMMA UploadStep == UploadInv /\ [PlatformNext]_platformVars => UploadInv'
  <1> SUFFICES ASSUME UploadInv, [PlatformNext]_platformVars PROVE UploadInv'
    OBVIOUS
  <1>1. ASSUME NEW u \in Handlers, NEW e \in {"initiate", "complete"}, NEW s \in Sessions,
               NEW v \in Videos \cup {NoVideo}, NEW m \in Metas, NEW h \in Sums \cup {NoSum},
               e = "complete" => v \in Videos, Begin(u, e, s, v, m, h)
        PROVE  UploadInv'
    BY <1>1, BeginReads, ReadsKeep
  <1>2. ASSUME NEW u \in Handlers,
               CheckInitiate(u) \/ InsertVideoConflict(u) \/ CheckComplete(u) \/ HeadObject(u)
        PROVE  UploadInv'
    BY <1>2, ReadSteps, ReadsKeep
  <1>3. ASSUME NEW u \in Handlers, NEW v \in Videos, InsertVideo(u, v) PROVE UploadInv'
    BY <1>3, InsertKeeps
  <1>4. ASSUME NEW u \in Handlers, CommitComplete(u) PROVE UploadInv'
    BY <1>4, CommitKeeps
  <1>5. ASSUME NEW v \in Videos, NEW m \in Metas, PutVideo(v, m) PROVE UploadInv'
    BY <1>5, PutKeeps
  <1>6. CASE JobService
    BY <1>6, JobsKeep
  <1>7. CASE UNCHANGED platformVars
    <2>1. UNCHANGED <<vars, video, sourceVideo, stored, upload>>
      BY <1>7 DEF platformVars, uploadVars
    <2>2. JobsInv' /\ CallsSawAnalysable' /\ RunsAreAnalysable'
      BY <2>1, JobsPart, CoveredFrame DEF vars
    <2>3. UploadTypeOK'
      BY <2>1, <2>2, Types DEF UploadTypeOK, JobsInv
    <2>4. OneSourceVideo' /\ SessionMatchesVideo' /\ VerifiedIsStored' /\ FramesOk'
      BY <2>1 DEF UploadInv, OneSourceVideo, SessionMatchesVideo, VerifiedIsStored, FramesOk,
                  FrameOk, VideosOf, Exists, vars, sessionVars
    <2> QED
      BY <2>2, <2>3, <2>4 DEF UploadInv
  <1> QED
    BY PlatformCases, <1>1, <1>2, <1>3, <1>4, <1>5, <1>6, <1>7, Zenon

\* The platform's inductive invariant holds in every state.
THEOREM UploadInvariant == PlatformSpec => []UploadInv
  <1>1. UploadInit => UploadInv
    BY UploadInitInv
  <1>2. UploadInv /\ [PlatformNext]_platformVars => UploadInv'
    BY UploadStep
  <1> QED
    BY <1>1, <1>2, PTL DEF PlatformSpec

\* Rows, pointers and frames keep their shape, and a completion that goes to the
\* storage holds a video of its own session, whatever the handlers interleave with.
THEOREM UploadTypeCorrect == PlatformSpec => []UploadTypeOK
  <1>1. UploadInv => UploadTypeOK
    BY DEF UploadInv
  <1> QED
    BY <1>1, UploadInvariant, PTL

\* However many initiations overlap, a session has at most one source video, and
\* source_video_id names it.
THEOREM OneSource == PlatformSpec => []OneSourceVideo
  <1>1. UploadInv => OneSourceVideo
    BY DEF UploadInv
  <1> QED
    BY <1>1, UploadInvariant, PTL

\* The session's status and its video's integrity never contradict each other, and
\* no completion answers that they do.
THEOREM SessionsMatch == PlatformSpec => []SessionMatchesVideo
  <1>1. UploadInv => SessionMatchesVideo
    BY DEF UploadInv
  <1> QED
    BY <1>1, UploadInvariant, PTL

\* Every run the job service holds has a verified video with bytes in storage.
THEOREM RunsInput == PlatformSpec => []RunsHaveInput
  <1>1. UploadInv => RunsHaveInput
    <2> SUFFICES ASSUME UploadInv, NEW r \in Runs, status[r] # "ABSENT"
                 PROVE  LET v == sourceVideo[request[r].session] IN
                        /\ v # NoVideo
                        /\ video[v].integrity = "STORAGE_VERIFIED"
                        /\ stored[v] # NoMeta
      BY DEF RunsHaveInput
    <2>1. PICK s \in Sessions : s = request[r].session
      BY DEF UploadInv, JobsInv, RowShape, Request
    <2>2. PICK v \in VideosOf(s) : video[v].integrity = "STORAGE_VERIFIED"
      BY <2>1 DEF UploadInv, RunsAreAnalysable, SessionMatchesVideo
    <2>3. sourceVideo[s] = v /\ sourceVideo[s] # NoVideo
      BY <2>2 DEF UploadInv, OneSourceVideo
    <2>4. stored[v] # NoMeta
      BY <2>2 DEF UploadInv, VerifiedIsStored, VideosOf
    <2> QED
      BY <2>1, <2>2, <2>3, <2>4
  <1> QED
    BY <1>1, UploadInvariant, PTL

\* What an upload writes, no column of a run or a client is.
LEMMA UploadsMoveNoRun ==
    ASSUME [PlatformNext]_platformVars
    PROVE  [Next]_vars \/ UNCHANGED <<status, request, attempt, cancelRequested, leaseVars,
                                      errorCode, clientVars>>
  <1>1. ASSUME NEW u \in Handlers, NEW v \in Videos, InsertVideo(u, v)
        PROVE  UNCHANGED <<status, request, attempt, cancelRequested, leaseVars, errorCode,
                           clientVars>>
    BY <1>1 DEF InsertVideo
  <1>2. ASSUME NEW u \in Handlers, CommitComplete(u)
        PROVE  UNCHANGED <<status, request, attempt, cancelRequested, leaseVars, errorCode,
                           clientVars>>
    BY <1>2 DEF CommitComplete
  <1>3. ASSUME NEW u \in Handlers,
               CheckInitiate(u) \/ InsertVideoConflict(u) \/ CheckComplete(u) \/ HeadObject(u)
        PROVE  UNCHANGED vars
    BY <1>3 DEF CheckInitiate, InsertVideoConflict, CheckComplete, HeadObject
  <1>4. ASSUME NEW u, NEW e, NEW s, NEW v, NEW m, NEW h, Begin(u, e, s, v, m, h)
        PROVE  UNCHANGED vars
    BY <1>4 DEF Begin
  <1>5. ASSUME NEW v \in Videos, NEW m \in Metas, PutVideo(v, m) PROVE UNCHANGED vars
    BY <1>5 DEF PutVideo
  <1>6. CASE JobService
    BY <1>6 DEF JobService
  <1>7. CASE UNCHANGED platformVars
    BY <1>7 DEF platformVars
  <1> QED
    BY PlatformCases, <1>1, <1>2, <1>3, <1>4, <1>5, <1>6, <1>7, Zenon

\* Whatever upload handlers interleave with it, and however often a late completion
\* takes a session back under its run, each run lives as the life cycle allows.
THEOREM PlatformImplementsLifecycle == PlatformSpec => LifecycleRefined
  <1>1. UploadInit => NoRuns
    BY DEF UploadInit
  <1>2. UploadInv => JobsInv
    BY DEF UploadInv
  <1>3. JobsInv /\ CancelsSeen /\ [PlatformNext]_platformVars => CancelsSeen'
    <2> SUFFICES ASSUME JobsInv, CancelsSeen, [PlatformNext]_platformVars PROVE CancelsSeen'
      OBVIOUS
    <2>1. CASE [Next]_vars
      BY <2>1, CancelsNext
    <2>2. CASE UNCHANGED <<status, request, attempt, cancelRequested, leaseVars, errorCode,
                           clientVars>>
      BY <2>2 DEF CancelsSeen, SeesCancel, clientVars
    <2> QED
      BY <2>1, <2>2, UploadsMoveNoRun
  <1>4. JobsInv /\ CancelsSeen /\ [PlatformNext]_platformVars =>
           [Lifecycle!Next]_Lifecycle!vars
    <2> SUFFICES ASSUME JobsInv, CancelsSeen, [PlatformNext]_platformVars
                 PROVE  [Lifecycle!Next]_Lifecycle!vars
      OBVIOUS
    <2>1. CASE [Next]_vars
      BY <2>1, LifecycleStep
    <2>2. CASE UNCHANGED <<status, request, attempt, cancelRequested, leaseVars, errorCode,
                           clientVars>>
      BY <2>2, Unmoved DEF lifeVars, leaseVars
    <2> QED
      BY <2>1, <2>2, UploadsMoveNoRun
  <1>5. PlatformSpec => []CancelsSeen
    BY <1>1, <1>2, <1>3, CancelsInit, UploadInvariant, PTL DEF PlatformSpec
  <1> QED
    BY <1>1, <1>2, <1>4, <1>5, LifecycleInit, UploadInvariant, PTL
       DEF PlatformSpec, LifecycleRefined, Lifecycle!Spec

===============================================================================
