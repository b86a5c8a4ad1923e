-------------------------- MODULE VerticalReference --------------------------
(***************************************************************************)
(* The vertical reference tool (tools/vertical_reference_app): four clicks *)
(* on a frame, kept in a list and in a draft, then validated, saved and    *)
(* evaluated against the camera of Stage 5A.  The server is a              *)
(* ThreadingHTTPServer whose session has no lock: requests interleave at   *)
(* every read and write of the list and of the files, and the page sends a *)
(* second request when a button is pressed twice.  Stage 5A may be run     *)
(* again, and the server killed, at any time.                              *)
(*                                                                         *)
(* A pixel is a small number; which pixels look like the base of a post,   *)
(* and which four are coherent, are constants.  The numerical evaluation   *)
(* ends in one of the ways the code tells apart.                           *)
(***************************************************************************)
EXTENDS Naturals, SequencesExt

CONSTANTS
    VThreads,       \* request threads
    Offered,        \* pixels the person may click at each of the four steps
    Posts,          \* pixels classify_post accepts
    Coherent,       \* pixel sequences validate accepts
    MaxChanges,     \* bound of the model: saves and runs of Stage 5A together
    VNoFile, VTorn

VARIABLES
    vUp,        \* the server runs
    vPoints,    \* session.points
    vThread,    \* where each request is
    vDraft,     \* vertical_reference_draft.json
    vFinal,     \* vertical_reference.json
    vRefined,   \* camera_model_refined.json and the files written with it
    vReadiness, \* readiness_report.json
    vCamera,    \* version of Stage 5A's camera_model.json
    vLoaded,    \* the version the session loaded when it started
    vRerun,     \* history: Stage 5A ran over a loaded camera or a saved reference
    vOverlap,   \* history: two evaluations ran at once
    vSaves      \* saves begun

vVars == <<vUp, vPoints, vThread, vDraft, vFinal, vRefined, vReadiness, vCamera,
           vLoaded, vRerun, vOverlap, vSaves>>

-----------------------------------------------------------------------------
\* REFERENCE_ORDER: centre base, centre top, post base, post top.
Steps == 1..4
Pixels == UNION Range(Offered)

Point(step, pixel) == [id |-> step, pixel |-> pixel]
Points == Seq([id : Nat, pixel : Pixels])
Reference == [points : Points, camera : Nat]

ASSUME VerticalAssumption ==
    /\ DOMAIN Offered = Steps
    /\ MaxChanges \in Nat
    /\ VNoFile # VTorn
    /\ {VNoFile, VTorn} \cap (Points \cup Reference) = {}

VIdle == [pc |-> "idle", payload |-> <<>>]

Session == <<vUp, vCamera, vLoaded, vRerun>>
Saves == <<vSaves, vOverlap>>
Saving(t) == vThread[t].pc \in {"map", "final", "evaluate", "readiness"}
Outputs5A1 == <<vFinal, vRefined, vReadiness>>

At(t, pc) == vUp /\ vThread[t].pc = pc
MoveTo(t, pc) == vThread' = [vThread EXCEPT ![t].pc = pc]
Carry(t, pc, payload) ==
    vThread' = [vThread EXCEPT ![t].pc = pc, ![t].payload = payload]
Answer(t) == vThread' = [vThread EXCEPT ![t] = VIdle]

-----------------------------------------------------------------------------
(* Clicks                                                                  *)

\* add_click up to `self.points.append`: a click too near another is refused, and
\* so is a third one that is no post.
Click(t, pixel) ==
    /\ At(t, "idle")
    /\ Len(vPoints) < 4
    /\ \A i \in DOMAIN vPoints : vPoints[i].pixel # pixel
    /\ Len(vPoints) = 2 => pixel \in Posts
    /\ Carry(t, "append", <<Point(Len(vPoints) + 1, pixel)>>)
    /\ UNCHANGED <<vPoints, vDraft, Saves, Session, Outputs5A1>>

AppendPoint(t) ==
    /\ At(t, "append")
    /\ vPoints' = Append(vPoints, vThread[t].payload[1])
    /\ MoveTo(t, "draft")
    /\ UNCHANGED <<vDraft, Saves, Session, Outputs5A1>>

UndoPoint(t) ==
    /\ At(t, "idle")
    /\ vPoints # <<>>
    /\ vPoints' = Front(vPoints)
    /\ MoveTo(t, "draft")
    /\ UNCHANGED <<vDraft, Saves, Session, Outputs5A1>>

ResetPoints(t) ==
    /\ At(t, "idle")
    /\ vPoints' = <<>>
    /\ MoveTo(t, "draft")
    /\ UNCHANGED <<vDraft, Saves, Session, Outputs5A1>>

\* Another request is inside the write of the same file.
Contended(t, pc) == \E u \in VThreads \ {t} : At(u, pc)

\* _save_draft writes the list as it is now, over the old file; two writes at once
\* may leave the end of the longer text behind the shorter one.
WriteDraft(t) ==
    /\ At(t, "draft")
    /\ \/ vDraft' = vPoints
       \/ Contended(t, "draft") /\ vDraft' = VTorn
    /\ Answer(t)
    /\ UNCHANGED <<vPoints, Saves, Session, Outputs5A1>>

-----------------------------------------------------------------------------
(* Saving                                                                  *)

PixelsOf(points) == [i \in DOMAIN points |-> points[i].pixel]
HasAllSteps(points) == \A s \in Steps : \E i \in DOMAIN points : points[i].id = s

\* validate: four points, one of each id (a KeyError otherwise), coherent.
Validate(t) ==
    /\ At(t, "idle")
    /\ vSaves + vCamera <= MaxChanges
    /\ Len(vPoints) = 4
    /\ HasAllSteps(vPoints)
    /\ PixelsOf(vPoints) \in Coherent
    /\ vSaves' = vSaves + 1
    /\ vOverlap' = (vOverlap \/ \E u \in VThreads : Saving(u))
    /\ MoveTo(t, "map")
    /\ UNCHANGED <<vPoints, vDraft, Session, Outputs5A1>>

\* Mutant: whatever points there are now are saved.
MapPoints_Any(t) ==
    /\ At(t, "map")
    /\ Carry(t, "final", vPoints)
    /\ UNCHANGED <<vPoints, vDraft, Saves, Session, Outputs5A1>>

\* point_map reads the list a second time; a missing id is a KeyError, answered
\* with 400 before anything is written.
MapPoints(t) ==
    /\ At(t, "map")
    /\ IF HasAllSteps(vPoints) THEN Carry(t, "final", vPoints) ELSE Answer(t)
    /\ UNCHANGED <<vPoints, vDraft, Saves, Session, Outputs5A1>>

\* The reference, with the hash the camera file has now, and its backup.
WriteFinal(t) ==
    /\ At(t, "final")
    /\ \/ vFinal' = [points |-> vThread[t].payload, camera |-> vCamera]
       \/ Contended(t, "final") /\ vFinal' = VTorn
    /\ MoveTo(t, "evaluate")
    /\ UNCHANGED <<vPoints, vDraft, Saves, vRefined, vReadiness, Session>>

\* Mutant: the model is refined from the points of the list.
EvaluateSelected_List(t) ==
    /\ At(t, "evaluate")
    /\ vRefined' = [points |-> vPoints, reference |-> vFinal, camera |-> vLoaded]
    /\ MoveTo(t, "readiness")
    /\ UNCHANGED <<vPoints, vDraft, Saves, vFinal, vReadiness, Session>>

\* The model is refined from the points that were saved and the camera that was
\* loaded, and carries the hash the reference file has now; then the reports, and
\* the readiness last.
EvaluateSelected(t) ==
    /\ At(t, "evaluate")
    /\ vRefined' = [points |-> vThread[t].payload, reference |-> vFinal, camera |-> vLoaded]
    /\ MoveTo(t, "readiness")
    /\ UNCHANGED <<vPoints, vDraft, Saves, vFinal, vReadiness, Session>>

WriteReadiness(t) ==
    /\ At(t, "readiness")
    /\ vReadiness' = "evaluated"
    /\ Answer(t)
    /\ UNCHANGED <<vPoints, vDraft, Saves, vFinal, vRefined, Session>>

\* The solver or the jitter analysis raises: only the readiness report says so.
EvaluateInvalid(t) ==
    /\ At(t, "evaluate") \/ At(t, "readiness")
    /\ vReadiness' = "INVALID_HUMAN_REFERENCE"
    /\ Answer(t)
    /\ UNCHANGED <<vPoints, vDraft, Saves, vFinal, vRefined, Session>>

\* No candidate could be refined: the result has no "selected_model", and the
\* KeyError is answered with 400 although the reference was saved.
EvaluateNoCandidate(t) ==
    /\ At(t, "evaluate")
    /\ Answer(t)
    /\ UNCHANGED <<vPoints, vDraft, Saves, Session, Outputs5A1>>

-----------------------------------------------------------------------------
\* scripts/stage5a_a2.py writes another camera_model.json.
RerunStage5A ==
    /\ vSaves + vCamera <= MaxChanges
    /\ vCamera' = vCamera + 1
    /\ vRerun' = (vRerun \/ vUp \/ vFinal # VNoFile)
    /\ UNCHANGED <<vUp, vLoaded, vPoints, vThread, vDraft, Saves, Outputs5A1>>

\* scripts/evaluate_vertical_reference_a2.py evaluates the saved reference again,
\* with the camera Stage 5A has left now.
EvaluateOffline ==
    /\ vFinal \notin {VNoFile, VTorn}
    /\ vOverlap' = (vOverlap \/ \E t \in VThreads : Saving(t))
    /\ vRefined' = [points |-> vFinal.points, reference |-> vFinal, camera |-> vCamera]
    /\ vReadiness' = "evaluated"
    /\ UNCHANGED <<vPoints, vThread, vDraft, vFinal, vSaves, Session>>

\* The process is killed: a file it is writing may stay cut.
Cut(file, pc) == {file} \cup {VTorn : t \in {u \in VThreads : At(u, pc)}}

StopVertical ==
    /\ vUp
    /\ vDraft' \in Cut(vDraft, "draft")
    /\ vFinal' \in Cut(vFinal, "final")
    /\ vUp' = FALSE
    /\ vPoints' = <<>>
    /\ vThread' = [t \in VThreads |-> VIdle]
    /\ UNCHANGED <<vCamera, vLoaded, vRerun, Saves, vRefined, vReadiness>>

\* _restore_draft: a draft that is no JSON, or has more than four points, is as
\* none; the points are not looked at.
StartVertical ==
    /\ ~vUp
    /\ vUp' = TRUE
    /\ vLoaded' = vCamera
    /\ vPoints' = IF vDraft \in {VNoFile, VTorn} \/ Len(vDraft) > 4 THEN <<>> ELSE vDraft
    /\ UNCHANGED <<vThread, vDraft, vCamera, vRerun, Saves, Outputs5A1>>

V_Init ==
    /\ vUp = FALSE
    /\ vPoints = <<>>
    /\ vThread = [t \in VThreads |-> VIdle]
    /\ vDraft = VNoFile
    /\ vFinal = VNoFile
    /\ vRefined = VNoFile
    /\ vReadiness = VNoFile
    /\ vCamera = 1
    /\ vLoaded = 0
    /\ vRerun = FALSE
    /\ vOverlap = FALSE
    /\ vSaves = 0

V_Next ==
    \/ \E t \in VThreads :
        \/ \E pixel \in Offered[Min({4, Len(vPoints) + 1})] : Click(t, pixel)
        \/ AppendPoint(t) \/ UndoPoint(t) \/ ResetPoints(t)
        \/ WriteDraft(t)
        \/ Validate(t) \/ MapPoints(t) \/ WriteFinal(t)
        \/ EvaluateSelected(t) \/ WriteReadiness(t)
        \/ EvaluateInvalid(t) \/ EvaluateNoCandidate(t)
    \/ RerunStage5A
    \/ EvaluateOffline
    \/ StopVertical
    \/ StartVertical

V_Spec == V_Init /\ [][V_Next]_vVars

-----------------------------------------------------------------------------
(***************************************************************************)
(* Properties                                                              *)
(***************************************************************************)
\* However clicks, undos, resets and saves interleave, and wherever the server
\* dies, a reference file that can be read holds each of the four steps, and no
\* model or readiness report exists without a reference.
ReferenceComplete ==
    /\ vFinal \notin {VNoFile, VTorn} => HasAllSteps(vFinal.points)
    /\ vRefined # VNoFile \/ vReadiness # VNoFile => vFinal # VNoFile

\* The refined model names, by the hash it carries, the reference whose points it
\* was refined from, whatever was clicked meanwhile, unless two evaluations ran at
\* once; and that reference names the camera, unless Stage 5A ran over it.
RefinedFromReference ==
    vRefined # VNoFile /\ ~vOverlap =>
        /\ vRefined.reference \notin {VNoFile, VTorn}
        /\ vRefined.reference.points = vRefined.points
        /\ ~vRerun => vRefined.reference.camera = vRefined.camera
=============================================================================
