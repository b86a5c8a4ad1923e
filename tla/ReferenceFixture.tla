--------------------------- MODULE ReferenceFixture ---------------------------
(***************************************************************************)
(* scripts/build_stage1b_real_candidate.py: existing outputs of a clip are *)
(* audited against each other, imported twice, compared, and the result is *)
(* published as the one versioned fixture.  The publication is made of     *)
(* renames of directories: staging becomes the fixture, the old fixture    *)
(* becomes the backup; a marker file inside a directory says that the      *)
(* script made it and may remove it, and is taken out of a published       *)
(* fixture.  The assets may be replaced between two reads, and the script  *)
(* dies anywhere.                                                          *)
(***************************************************************************)
EXTENDS RallyImport

CONSTANTS
    AssetSets,      \* what the five input files and the clip manifest may hold
    Slack,          \* largest distance of the last timestamp from the duration
    NoDir, NoAssets,
    MaxCandidates, MaxReplaced  \* bounds of the model

\* A line of the timestamps file; a directory of the publication.
Stamp == [frame : Int, time : Int]
Dir == [marker : BOOLEAN, full : BOOLEAN, audit : AssetSets \cup {NoAssets},
        a : AssetSets \cup {NoAssets}, b : AssetSets \cup {NoAssets}]

ASSUME FixtureAssumption ==
    /\ \A a \in AssetSets :
          /\ a.stamps \in Seq(Stamp) /\ a.track \in Seq(RawRow) /\ a.events \in Seq(RawEvent)
          /\ a.court.homography \in Homographies
    /\ NoDir \notin Dir

VARIABLES
    fAssets,    \* the input files
    fRun,       \* the running script
    fOutput,    \* the --output directory: "absent", "owned" or "unowned"
    fStaging, fBackup, fFixture,
    fCandidates, fReplaced, \* executions begun, replacements made
    fPublished, \* history: a fixture was put in its place
    fMarked     \* history: a fixture was left with the marker in it

fVars == <<fAssets, fRun, fOutput, fStaging, fBackup, fFixture, fCandidates,
           fReplaced, fPublished, fMarked>>

-----------------------------------------------------------------------------
(* Audits and the alignment gate                                           *)

Ids(rows) == [k \in DOMAIN rows |-> rows[k].frame]
NonDecreasing(values) == \A k \in 1..(Len(values) - 1) : values[k] <= values[k + 1]
Times(rows) == [k \in DOMAIN rows |-> rows[k].time]

\* _timestamp_audit and its checks: the identifiers are 0, 1, 2, ... up to the
\* last frame of the video, the times in order, not negative and about as long as
\* the video.  The median interval must exist and divides 1.0: a single frame, or
\* more than half the intervals empty, ends the script.
TimestampsPass(a) ==
    LET last == a.stamps[Len(a.stamps)].time
        empty == {k \in 1..(Len(a.stamps) - 1) : a.stamps[k].time = a.stamps[k + 1].time}
    IN  /\ Len(a.stamps) = a.frames
        /\ Len(a.stamps) > 1 /\ 2 * Cardinality(empty) <= Len(a.stamps) - 1
        /\ \A k \in DOMAIN a.stamps : a.stamps[k].frame = k - 1 /\ a.stamps[k].time >= 0
        /\ NonDecreasing(Times(a.stamps))
        /\ last - a.duration <= Slack /\ a.duration - last <= Slack

\* _track_audit: the same identifiers, in the canonical dimensions, with a point in
\* every visible row; float() of an empty timestamp ends the script.  The times are
\* not compared with the timestamps.
TrackPasses(a) ==
    /\ Ids(a.track) = Ids(a.stamps)
    /\ \A k \in DOMAIN a.track : a.track[k].time # NoTime
    /\ a.trackDimensions

\* The events under the keys that _event_audit prefers.
StageEvents(a) == [k \in DOMAIN a.events |-> a.events[k].stage]

\* Mutant: two events may have the same id.
EventsPass_AnyIds(a) ==
    /\ NonDecreasing(Ids(StageEvents(a)))
    /\ \A k \in DOMAIN a.events :
          LET e == a.events[k].stage
          IN  /\ e.frame \in 0..(a.frames - 1)
              /\ e.time \in 0..a.duration
              /\ \E j \in DOMAIN a.track : a.track[j].frame = e.frame

\* _event_audit: every event has a row of the track.
EventsPass(a) ==
    /\ DistinctIds(StageEvents(a))
    /\ NonDecreasing(Ids(StageEvents(a)))
    /\ \A k \in DOMAIN a.events :
          LET e == a.events[k].stage
          IN  /\ e.frame \in 0..(a.frames - 1)
              /\ e.time \in 0..a.duration
              /\ \E j \in DOMAIN a.track : a.track[j].frame = e.frame

\* _event_alignment: the row of the event's frame, or the nearest one.
EventQuality(a, event) ==
    LET e == event.stage
        rows == {j \in DOMAIN a.track : a.track[j].frame = e.frame}
        distance(j) == IF a.track[j].frame < e.frame THEN e.frame - a.track[j].frame
                       ELSE a.track[j].frame - e.frame
        nearest == CHOOSE j \in DOMAIN a.track :
                      \A k \in DOMAIN a.track :
                          \/ distance(j) < distance(k)
                          \/ distance(j) = distance(k) /\ j <= k
        exact == a.track[CHOOSE j \in rows : \A k \in rows : k <= j]
        kind(row) == CASE row.source = "detected" -> "detected_exact"
                       [] row.source = "interpolated" -> "interpolated_exact"
                       [] OTHER -> "missing_exact"
    IN  IF rows # {} THEN kind(exact)
        ELSE IF kind(a.track[nearest]) = "detected_exact" THEN "nearest_detected"
        ELSE "invalid"

\* _calibration_audit: an empty provenance is replaced by the default; texts cannot
\* be multiplied and end the script, booleans can.
CalibrationPasses(a) ==
    /\ a.courtDimensions
    /\ a.court.corner = "inside"
    /\ a.court.homography \in {"numbers", "booleans"}
    /\ a.court.provenance # "synthetic"

\* evaluate_asset_alignment; identity stands for the hashes and the clip's name.
AlignmentPassed(a) ==
    /\ a.identity
    /\ TimestampsPass(a)
    /\ TrackPasses(a)
    /\ EventsPass(a)
    /\ CalibrationPasses(a)

\* The descriptor the script writes takes the interval from the audited track; the
\* import reads the files again.
CandidateInput(audit, now) ==
    [start |-> audit.track[1].time, end |-> audit.track[Len(audit.track)].time,
     index |-> 0, events |-> now.events, track |-> now.track, court |-> now.court,
     stamps |-> [f \in {now.stamps[k].frame : k \in DOMAIN now.stamps} |->
                    now.stamps[CHOOSE k \in DOMAIN now.stamps :
                                  now.stamps[k].frame = f].time]]

CandidateFiles(audit, now) == RallyFiles(CandidateInput(audit, now))

\* One import and its validation succeed.
CandidateBuilds(audit, now) ==
    LET in == CandidateInput(audit, now)
    IN  ImportAccepts(in) /\ Packable(in) /\ RallyAccepts(RallyFiles(in))

-----------------------------------------------------------------------------
(* The script up to the publication                                        *)

FIdle == [pc |-> "idle", audit |-> NoAssets, a |-> NoAssets, b |-> NoAssets]

RunAt(pc) == fRun.pc = pc
Proceed(pc) == fRun' = [fRun EXCEPT !.pc = pc]
Quit == fRun' = FIdle

Directories == <<fStaging, fBackup, fFixture>>
Histories == <<fPublished, fMarked>>
Counters == <<fCandidates, fReplaced>>

\* main up to _require_publishable_alignment, which ends it when the gate failed.
AuditAssets ==
    /\ RunAt("idle")
    /\ fCandidates < MaxCandidates
    /\ AlignmentPassed(fAssets)
    /\ fRun' = [FIdle EXCEPT !.pc = "output", !.audit = fAssets]
    /\ fCandidates' = fCandidates + 1
    /\ UNCHANGED <<fAssets, fOutput, fReplaced, Directories, Histories>>

\* _protected_output removes only what carries its marker, makes the directory ...
RemakeOutput ==
    /\ RunAt("output")
    /\ IF fOutput = "unowned"
       THEN Quit /\ UNCHANGED fOutput
       ELSE Proceed("mark") /\ fOutput' = "unowned"
    /\ UNCHANGED <<fAssets, Counters, Directories, Histories>>

\* ... and writes the marker into it.
MarkOutput ==
    /\ RunAt("mark")
    /\ fOutput' = "owned"
    /\ Proceed("build")
    /\ UNCHANGED <<fAssets, Counters, Directories, Histories>>

BuildFirst ==
    /\ RunAt("build")
    /\ IF CandidateBuilds(fRun.audit, fAssets)
       THEN fRun' = [fRun EXCEPT !.pc = "again", !.a = fAssets] ELSE Quit
    /\ UNCHANGED <<fAssets, fOutput, Counters, Directories, Histories>>

BuildSecond ==
    /\ RunAt("again")
    /\ IF CandidateBuilds(fRun.audit, fAssets)
       THEN fRun' = [fRun EXCEPT !.pc = "compare", !.b = fAssets] ELSE Quit
    /\ UNCHANGED <<fAssets, fOutput, Counters, Directories, Histories>>

\* Mutant: the two builds are not compared.
CompareBuilds_Skipped ==
    /\ RunAt("compare")
    /\ Proceed("reports")
    /\ UNCHANGED <<fAssets, fOutput, Counters, Directories, Histories>>

\* Same fingerprint and files.
CompareBuilds ==
    /\ RunAt("compare")
    /\ IF CandidateFiles(fRun.audit, fRun.a) = CandidateFiles(fRun.audit, fRun.b)
       THEN Proceed("reports") ELSE Quit
    /\ UNCHANGED <<fAssets, fOutput, Counters, Directories, Histories>>

\* The previews and reports go to the output directory; the fixture is published
\* when --fixture-output asks for it.
WriteFixtureReports ==
    /\ RunAt("reports")
    /\ Proceed("staging") \/ Quit
    /\ UNCHANGED <<fAssets, fOutput, Counters, Directories, Histories>>

-----------------------------------------------------------------------------
(* _publish_fixture                                                        *)

\* _remove_owned_tree
Removable(dir) == dir = NoDir \/ dir.marker

RemoveOldStaging ==
    /\ RunAt("staging")
    /\ IF Removable(fStaging)
       THEN Proceed("backup") /\ fStaging' = NoDir
       ELSE Quit /\ UNCHANGED fStaging
    /\ UNCHANGED <<fAssets, fOutput, fBackup, fFixture, Counters, Histories>>

RemoveOldBackup ==
    /\ RunAt("backup")
    /\ IF Removable(fBackup)
       THEN Proceed("mkdir") /\ fBackup' = NoDir
       ELSE Quit /\ UNCHANGED fBackup
    /\ UNCHANGED <<fAssets, fOutput, fStaging, fFixture, Counters, Histories>>

MakeStaging ==
    /\ RunAt("mkdir")
    /\ fStaging' = [marker |-> FALSE, full |-> FALSE, audit |-> NoAssets,
                    a |-> NoAssets, b |-> NoAssets]
    /\ Proceed("marker")
    /\ UNCHANGED <<fAssets, fOutput, fBackup, fFixture, Counters, Histories>>

MarkStaging ==
    /\ RunAt("marker")
    /\ fStaging' = [fStaging EXCEPT !.marker = TRUE]
    /\ Proceed("copy")
    /\ UNCHANGED <<fAssets, fOutput, fBackup, fFixture, Counters, Histories>>

\* Seven files of the bundle and eleven reports; all are looked for at the end.
CopyFiles ==
    /\ RunAt("copy")
    /\ fStaging' = [fStaging EXCEPT !.full = TRUE, !.audit = fRun.audit,
                                    !.a = fRun.a, !.b = fRun.b]
    /\ Proceed("aside")
    /\ UNCHANGED <<fAssets, fOutput, fBackup, fFixture, Counters, Histories>>

\* A copy or a rename fails: staging is removed, and the backup goes back to an
\* empty place.
PublicationFails ==
    /\ fRun.pc \in {"copy", "aside", "rename"}
    /\ fStaging' = NoDir
    /\ IF RunAt("rename") /\ fBackup # NoDir /\ fFixture = NoDir
       THEN fFixture' = fBackup /\ fBackup' = NoDir
       ELSE UNCHANGED <<fFixture, fBackup>>
    /\ Quit
    /\ UNCHANGED <<fAssets, fOutput, Counters, Histories>>

SetAside ==
    /\ RunAt("aside")
    /\ fBackup' = IF fFixture = NoDir THEN fBackup ELSE fFixture
    /\ fFixture' = NoDir
    /\ Proceed("rename")
    /\ UNCHANGED <<fAssets, fOutput, fStaging, Counters, Histories>>

RenameStaging ==
    /\ RunAt("rename")
    /\ fFixture' = fStaging
    /\ fStaging' = NoDir
    /\ fPublished' = TRUE
    /\ Proceed("unmark")
    /\ UNCHANGED <<fAssets, fOutput, fBackup, Counters, fMarked>>

UnmarkFixture ==
    /\ RunAt("unmark")
    /\ fFixture' = [fFixture EXCEPT !.marker = FALSE]
    /\ Proceed("drop")
    /\ UNCHANGED <<fAssets, fOutput, fStaging, fBackup, Counters, Histories>>

DropBackup ==
    /\ RunAt("drop")
    /\ fBackup' = NoDir
    /\ Quit
    /\ UNCHANGED <<fAssets, fOutput, fStaging, fFixture, Counters, Histories>>

\* What a removal that was cut may leave: any part of the files.
CutShort(dir) ==
    IF dir = NoDir THEN {NoDir}
    ELSE {dir, [dir EXCEPT !.full = FALSE], [dir EXCEPT !.full = FALSE, !.marker = FALSE]}

\* The process dies, or the marker cannot be unlinked.
CandidateDies ==
    /\ ~RunAt("idle")
    /\ Quit
    /\ fStaging' \in IF RunAt("staging") /\ Removable(fStaging)
                     THEN CutShort(fStaging) ELSE {fStaging}
    /\ fBackup' \in IF RunAt("drop") \/ (RunAt("backup") /\ Removable(fBackup))
                    THEN CutShort(fBackup) ELSE {fBackup}
    /\ fMarked' = (fMarked \/ RunAt("unmark"))
    /\ UNCHANGED <<fAssets, fOutput, fFixture, Counters, fPublished>>

ReplaceAssets ==
    /\ fReplaced < MaxReplaced
    /\ fReplaced' = fReplaced + 1
    /\ fAssets' \in AssetSets
    /\ UNCHANGED <<fRun, fOutput, fCandidates, Directories, Histories>>

F_Init ==
    /\ fAssets \in AssetSets
    /\ fRun = FIdle
    /\ fOutput = "absent"
    /\ fStaging = NoDir
    /\ fBackup = NoDir
    /\ fFixture = NoDir
    /\ fCandidates = 0
    /\ fReplaced = 0
    /\ fPublished = FALSE
    /\ fMarked = FALSE

F_Next ==
    \/ AuditAssets \/ RemakeOutput \/ MarkOutput
    \/ BuildFirst \/ BuildSecond \/ CompareBuilds \/ WriteFixtureReports
    \/ RemoveOldStaging \/ RemoveOldBackup \/ MakeStaging \/ MarkStaging
    \/ CopyFiles \/ PublicationFails \/ SetAside \/ RenameStaging
    \/ UnmarkFixture \/ DropBackup
    \/ CandidateDies \/ ReplaceAssets

F_Spec == F_Init /\ [][F_Next]_fVars

-----------------------------------------------------------------------------
(***************************************************************************)
(* Properties                                                              *)
(***************************************************************************)

WholeFixtures == {d \in {fFixture, fBackup} \ {NoDir} : d.full}

\* A directory at the fixture's place has all its files, its audits passed the
\* gate, and its bundle is what two imports made of the same files, though assets
\* were replaced and earlier runs died in the middle of a copy or a removal.  Once
\* published, a whole fixture is at its place or under the backup's name, as long
\* as no run died between the last rename and the removal of the marker.
FixtureKept ==
    /\ fFixture # NoDir =>
        /\ fFixture.full
        /\ AlignmentPassed(fFixture.audit)
        /\ CandidateFiles(fFixture.audit, fFixture.a) = CandidateFiles(fFixture.audit, fFixture.b)
    /\ fPublished /\ ~fMarked => WholeFixtures # {}

\* The gate judges how the files fit each other, the import also each record of them.
\* Of the files the gate let through, every event has a row of its own in the track;
\* and when each record is one the import can read, no event says another thing
\* under its other keys, the track carries the timestamps of its frames and the
\* events lie in order within it, then the files fit for the import too: it accepts
\* them, and so does the single-rally validation unless they have a flaw of
\* OnlyValidatorRefuses.  None of these conditions is looked at by the gate.
GateFitsImport ==
    LET a == fRun.audit
        readable == /\ \A k \in DOMAIN a.events : EventReadable(a.events[k])
                    /\ \A k \in DOMAIN a.track : a.track[k].confidence = "ok"
        oneReading == \A k \in DOMAIN a.events :
                         a.events[k].stage = [id |-> a.events[k].id, frame |-> a.events[k].frame,
                                              time |-> a.events[k].time]
        timed == /\ Times(a.track) = Times(a.stamps)
                 /\ InInterval(a.events, a.track[1].time, a.track[Len(a.track)].time)
                 /\ NonDecreasing(Times(a.events)) /\ a.events # <<>>
    IN  a # NoAssets =>
        /\ \A k \in DOMAIN a.events :
              EventQuality(a, a.events[k]) \notin {"nearest_detected", "invalid"}
        /\ readable /\ oneReading /\ timed =>
              /\ ImportAccepts(CandidateInput(a, a))
              /\ ~OnlyValidatorRefuses(CandidateInput(a, a)) => CandidateBuilds(a, a)
=============================================================================
