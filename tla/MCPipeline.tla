------------------------------ MODULE MCPipeline ------------------------------
(***************************************************************************)
(* The stages between a clip and the bundle, each on a small instance of   *)
(* its own: they meet only in files, whose contents the instance           *)
(* enumerates, so a behaviour is one of any of them.                       *)
(***************************************************************************)
EXTENDS Stage5B, SingleRally, ReferenceFixture, VideoTiming, TrajectorySmoothing,
        PlayerTracks, TLC

VARIABLE component

-----------------------------------------------------------------------------
(* Stage 5B: one uncertain event, of one frame or two                      *)
MCRanges == {<<1, 2>>, <<3, 3>>}

-----------------------------------------------------------------------------
(* Imports: three frames, two events, and one part of the input wrong at a *)
(* time; the last rally is sound, with a time to look up and other types,  *)
(* sources and court status                                                *)
MCEvent(id, f, t, type) ==
    [id |-> id, frame |-> f, time |-> t, type |-> type, pixel |-> "pair",
     position |-> "none", confidence |-> "ok", stage |-> [id |-> id, frame |-> f, time |-> t]]
MCRow(f, t, source) ==
    [frame |-> f, time |-> t, source |-> source, visible |-> source = "detected",
     confidence |-> "ok"]
MCStamps == <<[frame |-> 0, time |-> 0], [frame |-> 1, time |-> 2], [frame |-> 2, time |-> 4]>>
MCTrack == <<MCRow(0, 0, "detected"), MCRow(1, 2, "interpolated"), MCRow(2, 4, "missing")>>
MCEvents == <<MCEvent(1, 0, 0, "serve"), MCEvent(2, 2, 4, "hit")>>
MCCourt == [corner |-> "inside", homography |-> "numbers", passed |-> TRUE, provenance |-> "human"]

GoodAssets ==
    [identity |-> TRUE, frames |-> 3, duration |-> 5, stamps |-> MCStamps,
     track |-> MCTrack, trackDimensions |-> TRUE, events |-> MCEvents,
     courtDimensions |-> TRUE, court |-> MCCourt]

MCAssets ==
    {GoodAssets,
     [GoodAssets EXCEPT !.events[2].type = "bounce"],
     [GoodAssets EXCEPT !.events[2].id = 1, !.events[2].stage.id = 1],
     [GoodAssets EXCEPT !.stamps[2].time = 5, !.track[2].time = 5],
     [GoodAssets EXCEPT !.events[2].frame = 3, !.events[2].stage.frame = 3],
     [GoodAssets EXCEPT !.events[2].stage.frame = 1],
     [GoodAssets EXCEPT !.events[1].confidence = "outside"],
     [GoodAssets EXCEPT !.track[2].confidence = "outside"],
     [GoodAssets EXCEPT !.track[2].time = NoTime],
     [GoodAssets EXCEPT !.court.provenance = "empty"],
     [GoodAssets EXCEPT !.court.provenance = "synthetic"],
     [GoodAssets EXCEPT !.court.homography = "booleans"],
     [GoodAssets EXCEPT !.events[1].position = "other"]}

GoodRally ==
    [start |-> 0, end |-> 4, index |-> 0, events |-> MCEvents, track |-> MCTrack,
     court |-> MCCourt, stamps |-> [f \in 0..2 |-> 2 * f]]

MCRallies ==
    {GoodRally,
     [GoodRally EXCEPT !.index = 1],
     [GoodRally EXCEPT !.end = 3],
     [GoodRally EXCEPT !.court.corner = "edge", !.court.provenance = "empty"],
     [GoodRally EXCEPT !.court.homography = "texts"],
     [GoodRally EXCEPT !.events[1].pixel = "text", !.events[2].position = "other"],
     [GoodRally EXCEPT !.track[2].source = "detected", !.track[3].time = NoTime,
                       !.events[2].type = "bounce", !.court.passed = FALSE]}

-----------------------------------------------------------------------------
(* Timing: up to three frames, a time of which may be missing              *)
MCVideos ==
    {[pts |-> p, last |-> 1, decoded |-> SetToSortSeq(d, <), size |-> z] :
        p \in UNION {[1..n -> {5, 6, 8, NA}] : n \in 1..3},
        d \in SUBSET (1..3), z \in {<<2, 3>>, <<3, 2>>}}
MCTimedVideos == {v \in MCVideos : Range(v.decoded) \subseteq DOMAIN v.pts}
MCManifests ==
    {[frames |-> n, duration |-> d, decoded |-> <<2, 3>>, canonical |-> c, transform |-> t] :
        n \in 2..3, d \in {2, 4}, c \in {<<2, 3>>, <<3, 2>>}, t \in {"none", "rotate_90_ccw"}}

-----------------------------------------------------------------------------
(* Smoothing: five frames; the points make slow, fast and far pairs        *)
MCRaws == {[has |-> FALSE, x |-> 0, conf |-> "below"]}
          \cup {[has |-> TRUE, x |-> x, conf |-> "high"] : x \in {0, 2, 7}}
          \cup {[has |-> TRUE, x |-> 3, conf |-> c] : c \in {"low", "below"}}
MCTracks == [timed : BOOLEAN, times : {<<1, 2, 4, 5, 6>>}, rows : [1..5 -> MCRaws]]

-----------------------------------------------------------------------------
(* Players: three frames of at most two boxes; the third place overlaps    *)
(* both ends, the last box is a spectator                                  *)
MCBox(place, foot, bottom, score, worth, sound) ==
    [place |-> place, foot |-> foot, bottom |-> bottom, score |-> score,
     worth |-> worth, sound |-> sound]
MCBoxes ==
    {MCBox(0, -1, -1, 2, 3, TRUE), MCBox(1, NoPose, 1, 2, 2, TRUE),
     MCBox(3, 1, 0, 1, 3, TRUE), MCBox(2, 0, 0, 0, 2, TRUE), MCBox(4, 2, 2, 1, 4, FALSE)}
MCFrames == {<<>>} \cup {<<a>> : a \in MCBoxes}
            \cup {b \in MCBoxes \X MCBoxes : b[1] # b[2]}
MCFootage == [1..3 -> MCFrames]
\* In the last frame the order of the boxes decides nothing that a later one sees.
MCLastFrames == {f \in MCFrames : Len(f) = 2 => f[1].place < f[2].place}
MCPlayerEvents == {{}, {[start |-> 2, mid |-> 3, player |-> "near"]}}

-----------------------------------------------------------------------------
(* The input of a stage that is not the one under way does not matter.     *)

Symmetry == Permutations(Importers)

PipelineInit ==
    /\ component \in {"reconstruction", "import", "fixture", "timing", "smoothing", "players"}
    /\ fAssets \in IF component = "fixture" THEN AssetSets ELSE {GoodAssets}
    /\ tVideo \in IF component = "timing" THEN TVideos ELSE {CHOOSE v \in TVideos : TRUE}
    /\ tManifest \in IF component = "timing" THEN TManifests ELSE {CHOOSE m \in TManifests : TRUE}
    /\ xRaw \in IF component = "smoothing" THEN RawTracks ELSE {[timed |-> FALSE, times |-> <<1, 2, 4, 5, 6>>,
                                                           rows |-> [i \in 1..5 |-> CHOOSE r \in MCRaws : TRUE]]}
    /\ xClip \in IF component = "smoothing" /\ xRaw.timed THEN BOOLEAN ELSE {FALSE}
    /\ pClip \in IF component = "players" THEN Footage ELSE {<<<<>>, <<>>, <<>>>>}
    /\ component = "players" => pClip[3] \in MCLastFrames
    /\ pEvents \in IF component = "players" THEN PlayerEvents ELSE {{}}
    /\ B_Init /\ S_Init /\ F_Init /\ T_Init /\ X_Init /\ P_Init

PipelineNext ==
    /\ UNCHANGED component
    /\ \/ component = "reconstruction" /\ B_Next
             /\ UNCHANGED <<sVars, fVars, tVars, xVars, pVars>>
       \/ component = "import" /\ S_Next
             /\ UNCHANGED <<bVars, fVars, tVars, xVars, pVars>>
       \/ component = "fixture" /\ F_Next
             /\ UNCHANGED <<bVars, sVars, tVars, xVars, pVars>>
       \/ component = "timing" /\ T_Next
             /\ UNCHANGED <<bVars, sVars, fVars, xVars, pVars>>
       \/ component = "smoothing" /\ X_Next
             /\ UNCHANGED <<bVars, sVars, fVars, tVars, pVars>>
       \/ component = "players" /\ P_Next
             /\ UNCHANGED <<bVars, sVars, fVars, tVars, xVars>>

PipelineSpec ==
    PipelineInit /\ [][PipelineNext]_<<component, bVars, sVars, fVars, tVars, xVars, pVars>>
===============================================================================
