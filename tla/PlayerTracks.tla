---------------------------- MODULE PlayerTracks ----------------------------
(***************************************************************************)
(* Player perception (src/player_perception): the boxes found in each      *)
(* frame are linked to tracks, each track gets an identity from the side   *)
(* of the net it stands on, the report is written, and a second program    *)
(* (scripts/run_player_selection_audit.py) reads it and picks one near and *)
(* one far player per frame, remembering its choice from frame to frame.   *)
(*                                                                         *)
(* A box is [place, foot, bottom, score, worth, sound]: where it is along  *)
(* the image; the court y of its feet as the pose shows them (NoPose when  *)
(* it does not) and as the bottom of the box does; the detector's score;   *)
(* and, for the selection, the terms of its score that no other frame      *)
(* changes, and whether it has no reason of its own to be rejected.        *)
(* Tracks are sorted by name; below ten thousand names sort as numbers.    *)
(***************************************************************************)
EXTENDS Integers, FiniteSetsExt, SequencesExt

CONSTANTS
    Footage,         \* a frame is a sequence of boxes, a clip of frames
    PlayerEvents,    \* sets of contacts [start, mid, player]: frame_start, frame_mid
    BoxWidth,
    MatchThreshold, LowThreshold, MaxMissed,
    FootWindow,      \* foot_smoothing_window
    Diagonal, Full,  \* the unit of distances and of temporal scores
    ContactBonus, MinimumScore,
    NoPose, NoTrack

ASSUME PlayersAssumption ==
    /\ {BoxWidth, MatchThreshold, LowThreshold, FootWindow, MinimumScore} \subseteq Int
    /\ {MaxMissed, Full, ContactBonus} \subseteq Nat /\ Diagonal \in Nat \ {0}
    /\ NoTrack \notin Nat \ {0}
    /\ \A clip \in Footage :
          clip \in Seq(Seq([place : Int, foot : Int \cup {NoPose}, bottom : Int, score : Int,
                           worth : Nat, sound : BOOLEAN]))

VARIABLES
    pClip, pEvents,
    pPc,
    pStates, pNext,  \* SimpleIoUTracker: _states by id, _next_id
    pFeet,           \* FootAnchorSmoother._history
    pPrevious,       \* PerceptionPipeline.previous
    pFrames,         \* the frames of the report so far: the rows of each, one per track
    pContacts,       \* contact_audit.json
    pChosen,         \* SelectionState
    pSelections

pVars == <<pClip, pEvents, pPc, pStates, pNext, pFeet, pPrevious, pFrames,
           pContacts, pChosen, pSelections>>

Tracking == <<pStates, pNext, pFeet, pPrevious, pFrames>>
Selecting == <<pChosen, pSelections>>

Identities == {"near", "far"}
Distance(a, b) == IF a < b THEN b - a ELSE a - b

-----------------------------------------------------------------------------
(* SimpleIoUTracker.update                                                 *)

Overlap(a, b) == Max({0, BoxWidth - Distance(a, b)})
Matches(state, box) == Overlap(state.place, box.place) >= MatchThreshold

\* The eligible boxes that no track has taken yet; a link is [id, at].
Free(boxes, links) ==
    {i \in DOMAIN boxes : boxes[i].score >= LowThreshold /\ \A t \in links : t.at # i}

\* The track takes the free box that overlaps it most.
TakeBox(boxes, links, id) ==
    LET place == pStates[id].place
        near == {i \in Free(boxes, links) : Matches(pStates[id], boxes[i])}
        best == CHOOSE i \in near : \A j \in near :
                    LET a == Overlap(place, boxes[i].place)
                        b == Overlap(place, boxes[j].place)
                    IN  a > b \/ (a = b /\ i <= j)
    IN  IF near = {} THEN links ELSE links \cup {[id |-> id, at |-> best]}

\* The tracks take their boxes in the order of their ids.
LinkSteps(boxes) ==
    LET links[k \in 0..(pNext - 1)] ==
            IF k = 0 THEN {}
            ELSE IF k \in DOMAIN pStates THEN TakeBox(boxes, links[k - 1], k) ELSE links[k - 1]
    IN  links

\* Mutant: a track is dropped one frame early.
Alive_OffByOne(state) == state.missed < MaxMissed

Alive(state) == state.missed <= MaxMissed

Linked(boxes) == LinkSteps(boxes)[pNext - 1]
LinkOf(boxes, id) == {t \in Linked(boxes) : t.id = id}

\* A box that no track took starts one, and gets the next id.
NewId(boxes, i) == pNext + Cardinality({j \in Free(boxes, Linked(boxes)) : j < i})
Started(boxes) == {[id |-> NewId(boxes, i), at |-> i] : i \in Free(boxes, Linked(boxes))}

StateAfter(boxes, id) ==
    IF LinkOf(boxes, id) = {}
    THEN [place |-> pStates[id].place, missed |-> pStates[id].missed + 1]
    ELSE [place |-> boxes[(CHOOSE t \in LinkOf(boxes, id) : TRUE).at].place, missed |-> 0]

StatesAfter(boxes) ==
    [id \in {old \in DOMAIN pStates : Alive(StateAfter(boxes, old))} \cup {t.id : t \in Started(boxes)} |->
        IF id \in DOMAIN pStates THEN StateAfter(boxes, id)
        ELSE [place |-> boxes[(CHOOSE t \in Started(boxes) : t.id = id).at].place, missed |-> 0]]

-----------------------------------------------------------------------------
(* PerceptionPipeline.process_frame                                        *)

\* foot_anchor: the pose before the bottom of the box.
FootAnchor(box) == IF box.foot # NoPose THEN box.foot ELSE box.bottom

\* FootAnchorSmoother.update keeps the last FootWindow anchors of a track.
FeetOf(id) == IF id \in DOMAIN pFeet THEN pFeet[id] ELSE <<>>
FeetAfter(track) ==
    LET all == Append(FeetOf(track.id), FootAnchor(track.box))
    IN  SubSeq(all, Max({1, Len(all) - FootWindow + 1}), Len(all))

\* CourtProjector.project, of which only the side of the net is told apart.
CourtY(track) == FoldLeft(+, 0, FeetAfter(track))

SideOf(y) == IF y < 0 THEN "near" ELSE IF y > 0 THEN "far" ELSE "unknown"

\* assign_near_far: what the previous frame said of the track, "unknown" included.
AssignNearFar(track) ==
    IF track.id \in DOMAIN pPrevious THEN pPrevious[track.id] ELSE SideOf(CourtY(track))

ProcessFrame ==
    LET boxes == pClip[Len(pFrames) + 1]
        tracks == {[id |-> t.id, at |-> t.at, box |-> boxes[t.at]] :
                        t \in Linked(boxes) \cup Started(boxes)}
        rows == {[id |-> t.id, at |-> t.at, box |-> t.box, y |-> CourtY(t),
                  identity |-> AssignNearFar(t)] : t \in tracks}
        ids == {row.id : row \in rows}
        rowOf(id) == CHOOSE row \in rows : row.id = id
    IN  /\ pPc = "perceive"
        /\ Len(pFrames) < Len(pClip)
        /\ pStates' = StatesAfter(boxes)
        /\ pNext' = pNext + Cardinality(Free(boxes, Linked(boxes)))
        /\ pFeet' = [id \in DOMAIN pFeet \cup ids |->
                        IF id \in ids THEN FeetAfter(rowOf(id)) ELSE pFeet[id]]
        /\ pPrevious' = [id \in ids |-> rowOf(id).identity]
        /\ pFrames' = Append(pFrames, rows)
        /\ UNCHANGED <<pClip, pEvents, pPc, pContacts, Selecting>>

\* OpenMMLabBackend.process: poses that do not match the tracks end the run.
PerceptionFails ==
    /\ pPc = "perceive"
    /\ Len(pFrames) < Len(pClip)
    /\ pPc' = "failed"
    /\ UNCHANGED <<pClip, pEvents, Tracking, pContacts, Selecting>>

-----------------------------------------------------------------------------
(* write_perception_outputs                                                *)

\* build_contact_audit: the track of the expected identity in the frame in the middle
\* of the event, or the first one, or none; audit_contact records it under the frame
\* the event starts in.
ContactOf(event) ==
    LET rows == IF event.mid \in DOMAIN pFrames THEN pFrames[event.mid] ELSE {}
        matching == {row \in rows : row.identity = event.player}
        ids == {row.id : row \in IF matching # {} THEN matching ELSE rows}
    IN  [frame |-> IF rows = {} THEN 0 ELSE event.start,
         player |-> event.player,
         id |-> IF rows = {} THEN NoTrack ELSE Min(ids)]

WritePerceptionOutputs ==
    /\ pPc = "perceive"
    /\ Len(pFrames) = Len(pClip)
    /\ pContacts' = {ContactOf(e) : e \in pEvents}
    /\ pPc' = "select"
    /\ UNCHANGED <<pClip, pEvents, Tracking, Selecting>>

-----------------------------------------------------------------------------
(* run_player_selection_audit, select_court_players                        *)

\* Share of the frames the track is seen in, in units of Full.  The report has
\* exactly the frames of FRAME_IDS: the script looks each of them up, and divides what
\* it counts in all of the report by their number.
Presence(id) ==
    (Full * Cardinality({f \in DOMAIN pFrames : \E row \in pFrames[f] : row.id = id}))
        \div Len(pFrames)

TemporalScore(row, identity) ==
    LET last == pChosen[identity]
        spatial == (Full * Max({0, Diagonal - Distance(row.box.place, last.place)})) \div Diagonal
    IN  IF last.id = row.id THEN Full
        ELSE IF last.id = NoTrack THEN Presence(row.id)
        ELSE (2 * spatial + Presence(row.id)) \div 3

\* A candidate on the line of the net is far, here.
CandidateSide(row) == IF row.y < 0 THEN "near" ELSE "far"

SelectionScore(row, frame) ==
    row.box.worth + TemporalScore(row, CandidateSide(row))
        + IF \E c \in pContacts : c.frame = frame /\ c.id = row.id THEN ContactBonus ELSE 0

\* Mutant: the side of the track is the one the pipeline remembers.
Options_ByIdentity(frame, identity) ==
    {row \in pFrames[frame] :
        /\ row.identity = identity
        /\ row.box.sound
        /\ SelectionScore(row, frame) >= MinimumScore}

Options(frame, identity) ==
    {row \in pFrames[frame] :
        /\ CandidateSide(row) = identity
        /\ row.box.sound
        /\ SelectionScore(row, frame) >= MinimumScore}

Selected(frame, identity) ==
    LET options == Options(frame, identity)
        score(r) == SelectionScore(r, frame)
    IN  IF options = {} THEN [id |-> NoTrack, place |-> 0]
        ELSE LET best == CHOOSE r \in options : \A s \in options :
                            score(r) > score(s) \/ (score(r) = score(s) /\ r.id <= s.id)
             IN  [id |-> best.id, place |-> best.box.place]

\* A contact without a track has no frame_id, and the script ends before it selects.
SelectPlayers ==
    LET frame == Len(pSelections) + 1
        now == [i \in Identities |-> Selected(frame, i)]
    IN  /\ pPc = "select"
        /\ frame <= Len(pFrames)
        /\ \A c \in pContacts : c.frame # 0
        /\ pSelections' = Append(pSelections, [i \in Identities |-> now[i].id])
        /\ pChosen' = [i \in Identities |-> IF now[i].id = NoTrack THEN pChosen[i] ELSE now[i]]
        /\ UNCHANGED <<pClip, pEvents, pPc, Tracking, pContacts>>

FrameStatus(s) ==
    IF \A i \in Identities : s[i] # NoTrack THEN "PASS"
    ELSE IF \E i \in Identities : s[i] # NoTrack THEN "PARTIAL"
    ELSE "FAIL"

\* list(selected_tracks[0]): the script also ends when no player was ever selected,
\* and when a contact starts in a frame without a selection.  A selected pose that is
\* not whole (133 keypoints) makes its frame PARTIAL.
WriteSelectionReport(whole) ==
    /\ pPc = "select"
    /\ Len(pSelections) = Len(pFrames)
    /\ \E k \in DOMAIN pSelections : FrameStatus(pSelections[k]) # "FAIL"
    /\ \A c \in pContacts : c.frame \in DOMAIN pSelections
    /\ pPc' = IF whole /\ \A k \in DOMAIN pSelections : FrameStatus(pSelections[k]) = "PASS"
              THEN "ready" ELSE "partial"
    /\ UNCHANGED <<pClip, pEvents, Tracking, pContacts, Selecting>>

P_Init ==
    /\ pClip \in Footage
    /\ pEvents \in PlayerEvents
    /\ pPc = "perceive"
    /\ pStates = <<>>
    /\ pNext = 1
    /\ pFeet = <<>>
    /\ pPrevious = <<>>
    /\ pFrames = <<>>
    /\ pContacts = {}
    /\ pChosen = [i \in Identities |-> [id |-> NoTrack, place |-> 0]]
    /\ pSelections = <<>>

P_Next == ProcessFrame \/ PerceptionFails \/ WritePerceptionOutputs
          \/ SelectPlayers \/ \E whole \in BOOLEAN : WriteSelectionReport(whole)

P_Spec == P_Init /\ [][P_Next]_pVars

-----------------------------------------------------------------------------
(***************************************************************************)
(* Properties                                                              *)
(***************************************************************************)

RowsOf(f, id) == {row \in pFrames[f] : row.id = id}
SeenIn(f) == {row.id : row \in pFrames[f]}
LastBefore(g, f, id) ==
    g \in 1..(f - 1) /\ id \in SeenIn(g) /\ \A h \in (g + 1)..(f - 1) : id \notin SeenIn(h)

\* A track is one thing followed: it has one box of a frame, and a box one track;
\* between two sightings it moves no farther than the match allows and is missing at
\* most MaxMissed frames; a box starts a new track only if every track it could
\* continue is seen elsewhere in the frame; and in successive frames its identity is
\* the same, taken from the side it was on when the view began.
TracksFollowed ==
    \A f \in DOMAIN pFrames :
        /\ \A r, s \in pFrames[f] : r.id = s.id \/ r.at = s.at => r = s
        /\ \A row \in pFrames[f] :
            /\ \A g \in 1..(f - 1) : LastBefore(g, f, row.id) =>
                /\ f - g <= MaxMissed + 1
                /\ \A last \in RowsOf(g, row.id) :
                    /\ Overlap(last.box.place, row.box.place) >= MatchThreshold
                    /\ row.identity = IF g = f - 1 THEN last.identity ELSE SideOf(row.y)
            /\ (\A g \in 1..(f - 1) : row.id \notin SeenIn(g)) =>
                /\ row.identity = SideOf(row.y)
                /\ \A g \in 1..(f - 1) : \A old \in pFrames[g] :
                    LastBefore(g, f, old.id) /\ f - g <= MaxMissed + 1
                        /\ Overlap(old.box.place, row.box.place) >= MatchThreshold
                            => old.id \in SeenIn(f)

\* A selection that is ready for the next stage names in every frame two different
\* tracks of that frame, one on each side of the net, both plausible; and it changes
\* its near or far player only for a track whose own worth in the frame, with the
\* contact, is higher than that of the one it leaves, if that one is still an option.
SelectionSteady ==
    pPc = "ready" => \A f \in DOMAIN pFrames :
        LET s == pSelections[f]
            worth(row) == row.box.worth + IF \E c \in pContacts : c.frame = f /\ c.id = row.id
                                          THEN ContactBonus ELSE 0
        IN  /\ s["near"] # s["far"]
            /\ \A i \in Identities : \E row \in RowsOf(f, s[i]) :
                /\ row.box.sound
                /\ row.y < 0 <=> i = "near"
                /\ f > 1 /\ pSelections[f - 1][i] # s[i] =>
                    \A old \in RowsOf(f, pSelections[f - 1][i]) :
                        old.box.sound /\ (old.y < 0 <=> i = "near") /\ old.box.worth + Full >= MinimumScore
                            => worth(row) >= worth(old)
=============================================================================
