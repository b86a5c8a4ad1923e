---------------------------- MODULE SessionUpload ----------------------------
(***************************************************************************)
(* The life of a session before its first run: the API handlers of         *)
(* services/uploads.py, the `videos` rows they keep and the client's PUT   *)
(* to a presigned URL, beside the job service that takes over at UPLOADED. *)
(*                                                                         *)
(* Both handlers read the session without a lock, call the object storage, *)
(* and commit what follows from that read.  An upload request keeps what   *)
(* it read in its frame; every commit is one step, and any number of       *)
(* requests, retries included, may be between their read and their commit. *)
(***************************************************************************)
EXTENDS AnalysisJobs

CONSTANTS
    Videos,    \* identifiers of videos rows (uuid4)
    Handlers,  \* calls of the two upload endpoints, one each
    Metas,     \* declared metadata that passes validate_upload: size and content type
    Sums,      \* declared sha256 values
    NoVideo, NoMeta, NoSum

ASSUME UploadAssumption ==
    /\ NoVideo \notin Videos
    /\ NoMeta \notin Metas
    /\ NoSum \notin Sums

VARIABLES
    video,        \* the videos table
    sourceVideo,  \* SessionRecord.source_video_id
    stored,       \* size and content type of the object at a video's key
    upload        \* frames of the handlers, and their replies

uploadVars == <<video, sourceVideo, stored, upload>>
platformVars == <<vars, uploadVars>>

-----------------------------------------------------------------------------
Video == [session : Sessions, meta : Metas, sha : Sums \cup {NoSum},
          integrity : {"CLIENT_DECLARED", "STORAGE_VERIFIED"}]
NoRecord == [session |-> NoVideo, meta |-> NoMeta, sha |-> NoSum, integrity |-> "ABSENT"]

Answers == {"NONE", "OK", "SOURCE_VIDEO_ALREADY_EXISTS", "INVALID_SESSION_STATE",
            "INCONSISTENT_UPLOAD_STATE", "STORAGE_SIGNING_FAILED", "VIDEO_NOT_FOUND",
            "UPLOAD_METADATA_MISMATCH", "UPLOAD_SHA_MISMATCH", "STORAGE_OBJECT_MISSING",
            "STORAGE_OBJECT_MISMATCH", "INTERNAL_ERROR"}

Frame == [pc : {"idle", "initiate", "insert", "complete", "head", "verify", "done"},
          session : Sessions \cup {NoVideo}, video : Videos \cup {NoVideo},
          meta : Metas \cup {NoMeta}, sha : Sums \cup {NoSum},
          seen : SessionStatus,          \* session.status
          source : Videos \cup {NoVideo}, \* session.source_video_id
          row : Video \cup {NoRecord},   \* the Video object of complete_upload
          answer : Answers]
IdleFrame == [pc |-> "idle", session |-> NoVideo, video |-> NoVideo, meta |-> NoMeta,
              sha |-> NoSum, seen |-> "DRAFT", source |-> NoVideo, row |-> NoRecord,
              answer |-> "NONE"]

Exists(v) == video[v] # NoRecord
VideosOf(s) == {v \in Videos : Exists(v) /\ video[v].session = s}

At(u, l) == upload[u].pc = l
Goto(u, l) == upload' = [upload EXCEPT ![u].pc = l]
Respond(u, a) == upload' = [upload EXCEPT ![u].pc = "done", ![u].answer = a]

-----------------------------------------------------------------------------
\* The route handlers load the session; its columns stay as they were read.
Begin(u, endpoint, s, v, m, h) ==
    /\ At(u, "idle")
    /\ upload' = [upload EXCEPT ![u] =
                    [pc |-> endpoint, session |-> s, video |-> v, meta |-> m, sha |-> h,
                     seen |-> sessionStatus[s], source |-> sourceVideo[s],
                     row |-> NoRecord, answer |-> "NONE"]]
    /\ UNCHANGED <<vars, video, sourceVideo, stored>>

\* initiate_upload up to the signature.
HasSource(u) == VideosOf(upload[u].session) # {} \/ upload[u].source # NoVideo

CheckInitiate(u) ==
    LET seen == upload[u].seen IN
    /\ At(u, "initiate")
    /\ IF HasSource(u) /\ seen \in {"DRAFT", "AWAITING_UPLOAD", "UPLOADING"}
       THEN Respond(u, "SOURCE_VIDEO_ALREADY_EXISTS")
       ELSE IF seen \notin {"DRAFT", "AWAITING_UPLOAD"}
       THEN Respond(u, "INVALID_SESSION_STATE")
       ELSE Goto(u, "insert") \/ Respond(u, "STORAGE_SIGNING_FAILED")
    /\ UNCHANGED <<vars, video, sourceVideo, stored>>

\* Mutant: without uq_videos_session_role.
SecondSource_Allowed(s) == FALSE
\* uq_videos_session_role; SOURCE is the only role.
SecondSource(s) == VideosOf(s) # {}

\* One commit takes the session through AWAITING_UPLOAD to UPLOADING.
InsertVideo(u, v) ==
    LET s == upload[u].session IN
    /\ At(u, "insert")
    /\ ~Exists(v)
    /\ ~SecondSource(s)
    /\ video' = [video EXCEPT ![v] = [session |-> s, meta |-> upload[u].meta,
                                      sha |-> upload[u].sha,
                                      integrity |-> "CLIENT_DECLARED"]]
    /\ sourceVideo' = [sourceVideo EXCEPT ![s] = v]
    /\ sessionStatus' = [sessionStatus EXCEPT ![s] = "UPLOADING"]
    /\ Respond(u, "OK")
    /\ UNCHANGED <<status, request, attempt, cancelRequested, leaseVars, errorCode,
                   issued, latestRun, bundleOf, call, clientVars, stored>>

\* IntegrityError at the flush.
InsertVideoConflict(u) ==
    /\ At(u, "insert")
    /\ SecondSource(upload[u].session)
    /\ Respond(u, "SOURCE_VIDEO_ALREADY_EXISTS")
    /\ UNCHANGED <<vars, video, sourceVideo, stored>>

-----------------------------------------------------------------------------
\* A PUT to the presigned URL, of the right file or of another, once or again.
PutVideo(v, m) ==
    /\ Exists(v)
    /\ stored' = [stored EXCEPT ![v] = m]
    /\ UNCHANGED <<vars, video, sourceVideo, upload>>

\* What complete_upload answers from the rows it read, "NONE" to go on.  The code
\* also says INVALID_SESSION_STATE for an UPLOADED session whose video is not
\* verified ("session upload state is inconsistent").
CompleteAnswer(f, row) ==
    CASE row.session # f.session -> "VIDEO_NOT_FOUND"
      [] row.meta # f.meta -> "UPLOAD_METADATA_MISMATCH"
      [] row.sha # NoSum /\ f.sha # NoSum /\ row.sha # f.sha -> "UPLOAD_SHA_MISMATCH"
      [] f.seen = "UPLOADED" -> IF row.integrity = "STORAGE_VERIFIED"
                                THEN "OK" ELSE "INCONSISTENT_UPLOAD_STATE"
      [] f.seen # "UPLOADING" -> "INVALID_SESSION_STATE"
      [] OTHER -> "NONE"

\* get_video: the object keeps what it was loaded with.
CheckComplete(u) ==
    LET row == video[upload[u].video]
        a   == CompleteAnswer(upload[u], row)
    IN  /\ At(u, "complete")
        /\ IF a # "NONE" THEN Respond(u, a)
           ELSE upload' = [upload EXCEPT ![u].pc = "head", ![u].row = row]
        /\ UNCHANGED <<vars, video, sourceVideo, stored>>

\* Mutant: a missing object is not noticed.
HeadAnswer_AnyObject(u) == "NONE"
\* head_object at the object's key, compared with the declaration.
HeadAnswer(u) ==
    LET head == stored[upload[u].video] IN
    IF head = NoMeta THEN "STORAGE_OBJECT_MISSING"
    ELSE IF head # upload[u].meta THEN "STORAGE_OBJECT_MISMATCH" ELSE "NONE"

HeadObject(u) ==
    /\ At(u, "head")
    /\ \/ HeadAnswer(u) = "NONE" /\ Goto(u, "verify")
       \/ HeadAnswer(u) # "NONE" /\ Respond(u, HeadAnswer(u))
       \/ Respond(u, "INTERNAL_ERROR")   \* the storage cannot be reached
    /\ UNCHANGED <<vars, video, sourceVideo, stored>>

\* Mutant: the integrity status is left as it was declared.
Verified_NoFlag(u) == [video[upload[u].video] EXCEPT !.sha = upload[u].sha]
\* The commit writes the columns whose value differs from the loaded one; a
\* declared checksum is new only if the loaded row had none.
Verified(u) ==
    [video[upload[u].video] EXCEPT
        !.integrity = "STORAGE_VERIFIED",
        !.sha = IF upload[u].row.sha = NoSum /\ upload[u].sha # NoSum
                THEN upload[u].sha ELSE @]

CommitComplete(u) ==
    /\ At(u, "verify")
    /\ video' = [video EXCEPT ![upload[u].video] = Verified(u)]
    /\ sessionStatus' = [sessionStatus EXCEPT ![upload[u].session] = "UPLOADED"]
    /\ Respond(u, "OK")
    /\ UNCHANGED <<status, request, attempt, cancelRequested, leaseVars, errorCode,
                   issued, latestRun, bundleOf, call, clientVars, sourceVideo, stored>>

-----------------------------------------------------------------------------
\* create_session makes a DRAFT row.
UploadInit ==
    /\ NoRuns
    /\ sessionStatus = [s \in Sessions |-> "DRAFT"]
    /\ video = [v \in Videos |-> NoRecord]
    /\ sourceVideo = [s \in Sessions |-> NoVideo]
    /\ stored = [v \in Videos |-> NoMeta]
    /\ upload = [u \in Handlers |-> IdleFrame]

UploadNext(u) ==
    \/ \E s \in Sessions, m \in Metas, h \in Sums \cup {NoSum} :
          \/ Begin(u, "initiate", s, NoVideo, m, h)
          \/ \E v \in Videos : Begin(u, "complete", s, v, m, h)
    \/ CheckInitiate(u)
    \/ \E v \in Videos : InsertVideo(u, v)
    \/ InsertVideoConflict(u)
    \/ CheckComplete(u)
    \/ HeadObject(u)
    \/ CommitComplete(u)

JobService == Next /\ UNCHANGED uploadVars

PlatformNext ==
    \/ \E u \in Handlers : UploadNext(u)
    \/ \E v \in Videos, m \in Metas : PutVideo(v, m)
    \/ JobService

PlatformSpec == UploadInit /\ [][PlatformNext]_platformVars

-----------------------------------------------------------------------------
(***************************************************************************)
(* Properties                                                              *)
(***************************************************************************)

\* The rows, pointers and frames are well formed, and a completion that goes on to
\* the storage holds a video of its session with the metadata it was called with.
UploadTypeOK ==
    /\ TypeOK
    /\ video \in [Videos -> Video \cup {NoRecord}]
    /\ sourceVideo \in [Sessions -> Videos \cup {NoVideo}]
    /\ stored \in [Videos -> Metas \cup {NoMeta}]
    /\ upload \in [Handlers -> Frame]
    /\ \A u \in Handlers : upload[u].pc \in {"head", "verify"} =>
          upload[u].row.session = upload[u].session /\ upload[u].row.meta = upload[u].meta

\* However many initiations read the session before one commits, a session has
\* no video, or one, and then source_video_id names it.
OneSourceVideo ==
    \A s \in Sessions : VideosOf(s) =
        IF sourceVideo[s] = NoVideo THEN {} ELSE {sourceVideo[s]}

\* A run exists only for a session whose source video was verified, and its bytes
\* are in storage, whatever the requests that read the session earlier commit.
RunsHaveInput ==
    \A r \in Runs : status[r] # "ABSENT" =>
        LET v == sourceVideo[request[r].session] IN
        /\ v # NoVideo
        /\ video[v].integrity = "STORAGE_VERIFIED"
        /\ stored[v] # NoMeta

\* The session and its video agree: analysable exactly when the video is verified.
\* A completion that reads them one after the other never finds the upload
\* "inconsistent".
SessionMatchesVideo ==
    /\ \A s \in Sessions : sessionStatus[s] \in Analysable <=>
          \E v \in VideosOf(s) : video[v].integrity = "STORAGE_VERIFIED"
    /\ \A u \in Handlers : upload[u].answer # "INCONSISTENT_UPLOAD_STATE"

\* "Legal transitions are explicit in domain/transitions.py" (DATA_MODEL): there a
\* session becomes UPLOADED only from UPLOADING.
UploadedOnlyFromUploading ==
    [][\A s \in Sessions :
          sessionStatus'[s] = "UPLOADED" /\ sessionStatus[s] # "UPLOADED"
          => sessionStatus[s] = "UPLOADING"]_platformVars
=============================================================================
