----------------------------- MODULE VideoTiming -----------------------------
(***************************************************************************)
(* Frames and times of a clip with a variable frame rate (src/video,       *)
(* src/project/clip_manifest).  A manifest states how many frames the clip *)
(* has and in which space they are decoded; a sidecar keeps the            *)
(* presentation time of every frame; iter_canonical_frames pairs the k-th  *)
(* decoded frame with the k-th timestamp and turns it into the canonical   *)
(* space; an overlay is drawn frame by frame and encoded with those times. *)
(* Timestamps and frames come from different programs: ffprobe may know no *)
(* time for a frame, the decoder may drop frames, the encoder too.         *)
(***************************************************************************)
EXTENDS Integers, SequencesExt

CONSTANTS
    TVideos,    \* [pts, last, decoded, size]: times, last duration, decoded frames
    TManifests, \* [frames, duration, decoded, canonical, transform]
    NA,         \* ffprobe's N/A
    TNothing

VARIABLES
    tVideo, tManifest,
    tSidecar,   \* frame_timestamps.json: the timestamps
    tRun,       \* the overlay being made
    tOverlay    \* the overlay on disk

tVars == <<tVideo, tManifest, tSidecar, tRun, tOverlay>>

-----------------------------------------------------------------------------
(* Timestamps                                                              *)

FromOrigin(times) == [k \in DOMAIN times |-> times[k] - times[1]]
StrictlyIncreasing(times) == \A k \in 1..(Len(times) - 1) : times[k] < times[k + 1]

\* The decoder delivers frames of the video in their order, perhaps not all.
Sizes == (Nat \ {0}) \X (Nat \ {0})

ASSUME TimingAssumption ==
    /\ NA \notin Int
    /\ \A v \in TVideos :
          /\ v.pts \in Seq(Int \cup {NA})
          /\ v.decoded \in Seq(DOMAIN v.pts)
          /\ StrictlyIncreasing(v.decoded)
          /\ v.size \in Sizes
    /\ \A m \in TManifests :
          /\ m.frames \in Nat
          /\ {m.decoded, m.canonical} \subseteq Sizes
          /\ m.transform \in {"none", "rotate_90_ccw"}

\* Mutant: frames without a time are left out instead of refused.
SidecarTimes_Dropped(video, m) ==
    LET known == SelectSeq(video.pts, LAMBDA t : t # NA)
    IN  IF Len(known) = m.frames /\ known # <<>> /\ StrictlyIncreasing(known)
        THEN FromOrigin(known) ELSE TNothing

\* build_frame_timestamp_sidecar and the checks of FrameTimestampSidecar: every
\* frame has a time and a duration, and the end agrees with the manifest.
SidecarTimes(video, m) ==
    LET times == FromOrigin(video.pts)
    IN  IF /\ Len(video.pts) = m.frames
           /\ NA \notin Range(video.pts) \cup {video.last}
           /\ StrictlyIncreasing(times)
           /\ times[Len(times)] + video.last = m.duration
        THEN times ELSE TNothing

\* probe_frame_timestamps leaves out what has no time; without ffprobe the times
\* are those OpenCV gives for the frames it decodes.
ProbedTimes(video) ==
    LET known == IF NA \in Range(video.pts) THEN SelectSeq(video.pts, LAMBDA t : t # NA)
                 ELSE video.pts
    IN  IF known # <<>> THEN FromOrigin(known) ELSE <<>>

DecodedTimes(video) ==
    FromOrigin([k \in DOMAIN video.decoded |->
        IF video.pts[video.decoded[k]] = NA THEN video.decoded[k]
        ELSE video.pts[video.decoded[k]]])

\* validate_timestamps
TimesValid(times, m) == Len(times) = m.frames /\ StrictlyIncreasing(times)

-----------------------------------------------------------------------------
(* Canonical space                                                         *)

Swapped(size) == <<size[2], size[1]>>

\* ClipManifest.__post_init__, as far as the geometry goes.
ManifestConsistent(m) ==
    m.canonical = IF m.transform = "none" THEN m.decoded ELSE Swapped(m.decoded)

\* apply_canonical_transform: a frame that already has the canonical size is kept,
\* one of the decoded size is turned; "error" for any other.
Turn(size, m) ==
    IF size = m.canonical THEN "kept"
    ELSE IF size = m.decoded /\ m.transform = "rotate_90_ccw" THEN "turned"
    ELSE "error"

\* transform_point_to_canonical
CanonicalPoint(p, m) ==
    IF m.transform = "rotate_90_ccw" THEN <<p[2], (m.decoded[1] - 1) - p[1]>> ELSE p

-----------------------------------------------------------------------------
(* Actions                                                                 *)

TIdle == [pc |-> "idle", source |-> "", times |-> <<>>, shown |-> <<>>]

\* scripts/generate_frame_timestamps.py
GenerateSidecar ==
    /\ ManifestConsistent(tManifest)
    /\ SidecarTimes(tVideo, tManifest) # TNothing
    /\ tSidecar' = SidecarTimes(tVideo, tManifest)
    /\ UNCHANGED <<tVideo, tManifest, tRun, tOverlay>>

\* iter_canonical_frames up to the first frame; a sidecar that was read back is
\* compared with the manifest by its count.
StartOverlay(source, times) ==
    /\ tRun.pc = "idle"
    /\ ManifestConsistent(tManifest)
    /\ TimesValid(times, tManifest)
    /\ tRun' = [pc |-> "frames", source |-> source, times |-> times, shown |-> <<>>]
    /\ UNCHANGED <<tVideo, tManifest, tSidecar, tOverlay>>

StartWithSidecar == tSidecar # TNothing /\ StartOverlay("sidecar", tSidecar)
StartWithProbe == StartOverlay("ffprobe", ProbedTimes(tVideo))
StartWithOpenCV == tVideo.decoded # <<>> /\ StartOverlay("opencv", DecodedTimes(tVideo))

\* One frame is decoded, turned, drawn and written as a PNG.
DrawFrame ==
    LET k == Len(tRun.shown) + 1
        turn == Turn(tVideo.size, tManifest)
    IN  /\ tRun.pc = "frames"
        /\ k <= Len(tVideo.decoded)
        /\ tRun' = IF k > Len(tRun.times) \/ turn = "error" THEN TIdle
                   ELSE [tRun EXCEPT !.shown = Append(@,
                            [frame |-> tVideo.decoded[k], time |-> tRun.times[k],
                             turn |-> turn])]
        /\ UNCHANGED <<tVideo, tManifest, tSidecar, tOverlay>>

\* The decoder has no more frames: their number is checked only now.
EndFrames ==
    /\ tRun.pc = "frames"
    /\ Len(tRun.shown) = Len(tVideo.decoded)
    /\ tRun' = IF Len(tRun.shown) = tManifest.frames
               THEN [tRun EXCEPT !.pc = "encode"] ELSE TIdle
    /\ UNCHANGED <<tVideo, tManifest, tSidecar, tOverlay>>

\* encode_vfr_png_sequence: ffmpeg writes the output, perhaps with a frame less,
\* and only then is it looked at; what is refused stays on disk.
EncodeOverlay(lost) ==
    /\ tRun.pc = "encode"
    /\ tOverlay' = [frames |-> Len(tRun.shown) - lost, verified |-> FALSE,
                    source |-> tRun.source, shown |-> tRun.shown]
    /\ tRun' = [tRun EXCEPT !.pc = "verify"]
    /\ UNCHANGED <<tVideo, tManifest, tSidecar>>

VerifyOverlay ==
    /\ tRun.pc = "verify"
    /\ tOverlay' = [tOverlay EXCEPT !.verified = tOverlay.frames = tManifest.frames]
    /\ tRun' = TIdle
    /\ UNCHANGED <<tVideo, tManifest, tSidecar>>

T_Init ==
    /\ tVideo \in TVideos
    /\ tManifest \in TManifests
    /\ tSidecar = TNothing
    /\ tRun = TIdle
    /\ tOverlay = TNothing

T_Next ==
    \/ GenerateSidecar
    \/ StartWithSidecar \/ StartWithProbe \/ StartWithOpenCV
    \/ DrawFrame \/ EndFrames
    \/ \E lost \in {0, 1} : EncodeOverlay(lost)
    \/ VerifyOverlay

T_Spec == T_Init /\ [][T_Next]_tVars

-----------------------------------------------------------------------------
(***************************************************************************)
(* Properties                                                              *)
(***************************************************************************)

\* A verified overlay shows each frame at its own presentation time, however the
\* counts of ffprobe, the decoder, the manifest and the encoder disagree (with the
\* times ffprobe or OpenCV gives directly, only if ffprobe knows the time of every
\* frame); and when the decoder delivers the decoded space of the manifest, it turns
\* a frame exactly if it moves the points, unless the clip is square.
FramesAtTheirTimes ==
    tOverlay # TNothing =>
        /\ tOverlay.verified
              /\ (tOverlay.source \in {"ffprobe", "opencv"} => NA \notin Range(tVideo.pts))
              => \A k \in DOMAIN tOverlay.shown :
                    LET frame(j) == tOverlay.shown[j].frame
                    IN  /\ NA \notin {tVideo.pts[frame(k)], tVideo.pts[frame(1)]}
                        /\ tOverlay.shown[k].time - tOverlay.shown[1].time
                              = tVideo.pts[frame(k)] - tVideo.pts[frame(1)]
        /\ tVideo.size = tManifest.decoded /\ tManifest.decoded[1] # tManifest.decoded[2]
              => \A k \in DOMAIN tOverlay.shown :
                    (tOverlay.shown[k].turn = "turned")
                      <=> (\E p \in (0..(tManifest.decoded[1] - 1)) \X
                                    (0..(tManifest.decoded[2] - 1)) :
                              CanonicalPoint(p, tManifest) # p)
=============================================================================
