------------------------- MODULE TrajectorySmoothing -------------------------
(***************************************************************************)
(* Stage 3 (src/tracker/trajectory_smoothing.py): the detections of the    *)
(* ball, one row per frame, are classified; two passes reject points that  *)
(* break the track; short gaps are filled; the rest is averaged; and the   *)
(* trajectory, two overlays, a contact sheet and a report are written one  *)
(* after the other.  Both passes change the rows they are still reading: a *)
(* point is judged by earlier rows already judged and later ones not yet.  *)
(*                                                                         *)
(* A point is its place on a line, in pixels of the reference clip; times  *)
(* are whole units; speeds are compared without division.                  *)
(***************************************************************************)
EXTENDS Integers, FiniteSetsExt, SequencesExt

CONSTANTS
    RawTracks,      \* [timed, times, rows]; a row is [has, x, conf]
    MaxSpeed,       \* _effective_max_speed
    SpikeDistance,  \* isolated_outlier_px
    BreakDistance,  \* residual_prediction_px
    BreakJump,      \* residual_neighbor_jump_px
    LowDistance, LowJump,       \* the same for a low confidence
    LocalWindow, LocalTime,     \* local_window(_seconds)
    MaxGap, MaxGapTime,         \* max_gap_frames, max_gap_seconds
    AverageRadius, AverageTime, \* smoothing_window // 2, half smoothing_window_seconds
    NoPoint

\* _validate_rows: the times of the detections, when they have any, are increasing.
ASSUME SmoothingAssumption ==
    /\ NoPoint \notin Int
    /\ {MaxSpeed, SpikeDistance, BreakDistance, BreakJump, LowDistance, LowJump, LocalWindow,
        LocalTime, MaxGap, MaxGapTime, AverageRadius, AverageTime} \subseteq Nat
    /\ \A raw \in RawTracks :
          /\ raw.timed \in BOOLEAN
          /\ raw.rows \in Seq([has : BOOLEAN, x : Int, conf : {"high", "low", "below"}])
          /\ raw.times \in Seq(Int) /\ Len(raw.times) = Len(raw.rows)
          /\ \A i, j \in DOMAIN raw.times : i < j => raw.times[i] < raw.times[j]

VARIABLES
    xRaw,       \* wasb_detections.csv
    xClip,      \* whether a manifest and timestamps are given
    xPc, xRows,
    xFiles,     \* smoothed_trajectory.csv and the report on disk
    xClassified \* history: the rows as they were classified

xVars == <<xRaw, xClip, xPc, xRows, xFiles, xClassified>>

-----------------------------------------------------------------------------
Has(rows, i) == rows[i].x # NoPoint
Detected(rows) == {i \in DOMAIN rows : rows[i].source = "detected"}

\* initialize_rows
Classified(raw) ==
    [i \in DOMAIN raw.rows |->
        LET row == raw.rows[i]
            candidate == row.has /\ row.conf # "below"
        IN  [source |-> IF candidate THEN "detected" ELSE "missing",
             x |-> IF candidate THEN row.x ELSE NoPoint,
             conf |-> row.conf,
             timed |-> raw.timed,
             time |-> IF raw.timed THEN raw.times[i] ELSE i]]

\* _has_timestamps: a time limit counts only for rows with timestamps.
WithinTime(rows, i, j, limit) ==
    \/ ~rows[i].timed
    \/ rows[j].time - rows[i].time \in (-limit)..limit

\* _nearest_candidate: 0 when there is none.
NearestBefore(rows, i, steps, limit) ==
    Max({0} \cup {j \in Detected(rows) : j < i /\ i - j <= steps /\ WithinTime(rows, i, j, limit)})

NearestAfter(rows, i, steps, limit) ==
    LET found == {j \in Detected(rows) : i < j /\ j - i <= steps /\ WithinTime(rows, i, j, limit)}
    IN  IF found = {} THEN 0 ELSE Min(found)

Magnitude(n) == IF n < 0 THEN -n ELSE n
Apart(rows, i, j) == Magnitude(rows[i].x - rows[j].x)
Span(rows, i, j) == rows[j].time - rows[i].time

TooFast(rows, i, j) == Apart(rows, i, j) > MaxSpeed * Span(rows, i, j)

\* Distance of the point from the straight line between its neighbours, times span.
Deviation(rows, p, i, n) ==
    Magnitude((rows[i].x - rows[p].x) * Span(rows, p, n)
              - Span(rows, p, i) * (rows[n].x - rows[p].x))

-----------------------------------------------------------------------------
(* The two passes                                                          *)

IsolatedSpike(rows, i) ==
    LET p == NearestBefore(rows, i, LocalWindow, LocalTime)
        n == NearestAfter(rows, i, LocalWindow, LocalTime)
    IN  /\ p # 0 /\ n # 0
        /\ ~TooFast(rows, p, n)
        /\ TooFast(rows, p, i) /\ TooFast(rows, i, n)
        /\ Deviation(rows, p, i, n) > SpikeDistance * Span(rows, p, n)

ImpossibleJump(rows, i) ==
    LET p == NearestBefore(rows, i, MaxGap + 1, MaxGapTime)
        n == NearestAfter(rows, i, MaxGap + 1, MaxGapTime)
    IN  /\ p # 0
        /\ TooFast(rows, p, i)
        /\ n = 0 \/ (~TooFast(rows, p, n) /\ TooFast(rows, i, n))

\* Mutant: one fast or far neighbour is enough.
PredictionBreak_Either(rows, i) ==
    LET p == NearestBefore(rows, i, LocalWindow, LocalTime)
        n == NearestAfter(rows, i, LocalWindow, LocalTime)
    IN  /\ p # 0 /\ n # 0
        /\ 2 * Apart(rows, p, n) <= MaxSpeed * Span(rows, p, n)
        /\ \/ Deviation(rows, p, i, n) >= LowDistance * Span(rows, p, n)
           \/ Apart(rows, p, i) >= LowJump /\ Apart(rows, i, n) >= LowJump

PredictionBreak(rows, i) ==
    LET p == NearestBefore(rows, i, LocalWindow, LocalTime)
        n == NearestAfter(rows, i, LocalWindow, LocalTime)
        breaks(distance, jump) ==
            /\ Deviation(rows, p, i, n) >= distance * Span(rows, p, n)
            /\ Apart(rows, p, i) >= jump /\ Apart(rows, i, n) >= jump
    IN  /\ p # 0 /\ n # 0
        /\ 2 * Apart(rows, p, n) <= MaxSpeed * Span(rows, p, n)
        /\ \/ breaks(BreakDistance, BreakJump)
           \/ rows[i].conf = "low" /\ breaks(LowDistance, LowJump)

Lost(row) ==
    [source |-> "rejected", x |-> NoPoint, conf |-> row.conf, timed |-> row.timed, time |-> row.time]
Reject(rows, i) == [rows EXCEPT ![i] = Lost(rows[i])]

Breaks(pass, rows, i) ==
    \/ pass = "outliers" /\ (IsolatedSpike(rows, i) \/ ImpossibleJump(rows, i))
    \/ pass = "breaks" /\ PredictionBreak(rows, i)

Judged(pass, rows, i) ==
    IF rows[i].source = "detected" /\ Breaks(pass, rows, i) THEN Reject(rows, i) ELSE rows

\* One pass over the rows in their order, each judged on what the pass left.
PassSteps(pass, rows) ==
    LET left[k \in 0..Len(rows)] == IF k = 0 THEN rows ELSE Judged(pass, left[k - 1], k)
    IN  left

WithoutOutliers(rows) == PassSteps("outliers", rows)[Len(rows)]
WithoutBreaks(rows) == PassSteps("breaks", rows)[Len(rows)]

-----------------------------------------------------------------------------
(* Gaps and averages                                                       *)

\* Mutant: the frames of the gap are counted with its ends.
ShortGap_Ends(rows, s, e) ==
    /\ e - s + 1 <= MaxGap
    /\ WithinTime(rows, s, e, MaxGapTime)

ShortGap(rows, s, e) ==
    /\ e - s - 1 <= MaxGap
    /\ WithinTime(rows, s, e, MaxGapTime)

\* The neighbours of row i among the detected ones; 0 when it has none.
Left(rows, i) == Max({0} \cup {j \in Detected(rows) : j < i})
Right(rows, i) ==
    LET after == {j \in Detected(rows) : i < j} IN IF after = {} THEN 0 ELSE Min(after)

InShortGap(rows, i) ==
    /\ rows[i].source # "detected"
    /\ Left(rows, i) # 0 /\ Right(rows, i) # 0
    /\ ShortGap(rows, Left(rows, i), Right(rows, i))

\* The place at row i on the straight line from row s to row e.
OnLine(rows, s, e, i) ==
    rows[s].x + (Span(rows, s, i) * (rows[e].x - rows[s].x)) \div Span(rows, s, e)

\* interpolate_short_gaps: a rejected row keeps its source, and gets a point.
Filled(rows) ==
    [i \in DOMAIN rows |->
        IF InShortGap(rows, i)
        THEN [source |-> IF rows[i].source = "missing" THEN "interpolated" ELSE rows[i].source,
              x |-> OnLine(rows, Left(rows, i), Right(rows, i), i),
              conf |-> rows[i].conf, timed |-> rows[i].timed, time |-> rows[i].time]
        ELSE rows[i]]

\* The rows of the _valid_segments around row i.
SegmentOf(rows, i) ==
    {j \in DOMAIN rows : \A k \in Min({i, j})..Max({i, j}) : Has(rows, k)}

\* The frames averaged at row i: by time, or by number when there are no times.
Window(rows, i) ==
    {j \in SegmentOf(rows, i) : IF rows[i].timed THEN WithinTime(rows, i, j, AverageTime)
                                ELSE j - i \in (-AverageRadius)..AverageRadius}

\* The sums of the first points of the window.
Sums(rows, window) ==
    LET sum[k \in 0..Len(rows)] ==
            IF k = 0 THEN 0 ELSE sum[k - 1] + (IF k \in window THEN rows[k].x ELSE 0)
    IN  sum

Mean(rows, window) == Sums(rows, window)[Len(rows)] \div Cardinality(window)

\* smooth_segments: the mean of the window, within segments of three points or more.
Averaged(rows) ==
    [i \in DOMAIN rows |->
        IF Has(rows, i) /\ Cardinality(SegmentOf(rows, i)) >= 3
        THEN [source |-> rows[i].source, x |-> Mean(rows, Window(rows, i)),
              conf |-> rows[i].conf, timed |-> rows[i].timed, time |-> rows[i].time]
        ELSE rows[i]]

\* build_quality_report: sources, coverage, and the longest run without a point.
CountSource(rows, source) == Cardinality({i \in DOMAIN rows : rows[i].source = source})
EmptyRuns(rows) ==
    {run \in {a..b : a \in DOMAIN rows, b \in DOMAIN rows} :
        run # {} /\ \A i \in run : ~Has(rows, i)}

QualityReport(rows) ==
    [detected |-> CountSource(rows, "detected"),
     rejected |-> CountSource(rows, "rejected"),
     interpolated |-> CountSource(rows, "interpolated"),
     missing |-> CountSource(rows, "missing"),
     covered |-> Cardinality({i \in DOMAIN rows : Has(rows, i)}),
     longest |-> Max({0} \cup {Cardinality(run) : run \in EmptyRuns(rows)})]

-----------------------------------------------------------------------------
(* run_stage_3                                                             *)

At3(pc) == xPc = pc
Stage(pc, next, rows) ==
    /\ xPc = pc
    /\ xPc' = next
    /\ xRows' = rows
    /\ UNCHANGED <<xRaw, xClip, xFiles>>

\* read_wasb_detections; with a clip, its sidecar gives every row a time.
ReadDetections ==
    /\ xClip => xRaw.timed
    /\ Stage("idle", "read", <<>>)
    /\ UNCHANGED xClassified

InitializeRows == Stage("read", "rows", Classified(xRaw)) /\ xClassified' = Classified(xRaw)
RejectOutliers == Stage("rows", "outliers", WithoutOutliers(xRows)) /\ UNCHANGED xClassified
RejectBreaks == Stage("outliers", "breaks", WithoutBreaks(xRows)) /\ UNCHANGED xClassified
InterpolateGaps == Stage("breaks", "gaps", Filled(xRows)) /\ UNCHANGED xClassified
SmoothSegments == Stage("gaps", "csv", Averaged(xRows)) /\ UNCHANGED xClassified

WriteTrajectory ==
    /\ At3("csv")
    /\ xFiles' = [xFiles EXCEPT !.rows = xRows]
    /\ xPc' = "render"
    /\ UNCHANGED <<xRaw, xClip, xRows, xClassified>>

\* The two overlays; the contact sheet, when asked for, needs the clip's manifest.
\* A failure ends the run, and the report of an earlier one stays.
RenderTrajectory(sheet) ==
    /\ At3("render")
    /\ xPc' \in {"over"} \cup {pc \in {"report"} : sheet => xClip}
    /\ UNCHANGED <<xRaw, xClip, xRows, xFiles, xClassified>>

WriteQualityReport ==
    /\ At3("report")
    /\ xFiles' = [xFiles EXCEPT !.report = QualityReport(xRows)]
    /\ xPc' = "over"
    /\ UNCHANGED <<xRaw, xClip, xRows, xClassified>>

X_Init ==
    /\ xRaw \in RawTracks
    /\ xClip \in BOOLEAN
    /\ xPc = "idle"
    /\ xRows = <<>>
    /\ xFiles = [rows |-> <<>>, report |-> NoPoint]
    /\ xClassified = <<>>

X_Next ==
    \/ ReadDetections \/ InitializeRows \/ RejectOutliers \/ RejectBreaks
    \/ InterpolateGaps \/ SmoothSegments \/ WriteTrajectory
    \/ \E sheet \in BOOLEAN : RenderTrajectory(sheet)
    \/ WriteQualityReport

X_Spec == X_Init /\ [][X_Next]_xVars

-----------------------------------------------------------------------------
(***************************************************************************)
(* Properties                                                              *)
(***************************************************************************)

\* The first point of the detections always survives, and a track whose successive
\* points are no faster than the limit and no farther apart than the jumps keeps
\* all of them, although each pass reads rows it has changed.
PlausibleTrackKept ==
    LET candidates == Detected(xClassified)
        next(i) == Min({j \in candidates : i < j})
        plausible == \A i \in candidates \ {Max(candidates)} :
            /\ ~TooFast(xClassified, i, next(i))
            /\ Apart(xClassified, i, next(i)) < BreakJump
            /\ xClassified[i].conf = "high" \/ Apart(xClassified, i, next(i)) < LowJump
    IN  xRows # <<>> /\ candidates # {} =>
            /\ xRows[Min(candidates)].source = "detected"
            /\ plausible => Detected(xRows) = candidates

\* What the file lacks and what was added: a run of frames without a point lies at an
\* end of the clip, or is longer than the limits allow between the points that
\* survived; every added point lies between two of them; and the report counts it.
GapsAsReported ==
    LET rows == xFiles.rows
        report == xFiles.report
        kept == Detected(rows)
        \* frames and time between the surviving neighbours of row i
        inner(i) == Left(rows, i) # 0 /\ Right(rows, i) # 0
        short(i) == /\ Right(rows, i) - Left(rows, i) <= MaxGap + 1
                    /\ xRaw.timed => rows[Right(rows, i)].time - rows[Left(rows, i)].time
                                        <= MaxGapTime
    IN  /\ \A i \in DOMAIN rows : Has(rows, i) <=> (i \in kept \/ (inner(i) /\ short(i)))
        /\ report # NoPoint =>
            /\ report.covered = Len(rows) - report.missing
                    - Cardinality({i \in DOMAIN rows : rows[i].source = "rejected" /\ ~Has(rows, i)})
            /\ report.longest = 0 <=> report.covered = Len(rows)
=============================================================================
