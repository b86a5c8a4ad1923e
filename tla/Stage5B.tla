------------------------------- MODULE Stage5B -------------------------------
(***************************************************************************)
(* The two 3-D reconstructions of a clip (scripts/stage5b_a2.py, "v1", and *)
(* scripts/stage5b_v2_a2.py, "v2").  An annotated event may span several   *)
(* frames; a combination gives it one of them.  Each combination is fitted *)
(* by a numerical solver, the best one is selected, and the results are    *)
(* written one file after the other.  The scripts are run again and again  *)
(* by hand, on inputs that changed, and may die between two files;         *)
(* `--render-existing` draws from the files an earlier run left.           *)
(*                                                                         *)
(* Of a trajectory the model keeps which frames have a ball pixel; of a    *)
(* solver run whether it ends, converges and satisfies the checks, and its *)
(* cost.  Three events, the middle one uncertain, delimit two segments.    *)
(***************************************************************************)
EXTENDS Naturals, FiniteSetsExt, SequencesExt

CONSTANTS
    LastRow,     \* last frame of the trajectory (526 in the code)
    Costs,       \* finite costs of the solver
    BRanges,     \* <<frame_start, frame_end>> of the uncertain event
    Needed,      \* accepted segments v1 asks for (6 of 9 in the code)
    MaxRuns      \* bound of the model: executions of the scripts

ASSUME FiveBAssumption ==
    /\ {LastRow, Needed, MaxRuns} \subseteq Nat \ {0}
    /\ Costs \subseteq Nat /\ IsFiniteSet(Costs) /\ Costs # {}
    /\ \A r \in BRanges : r \in (1..(LastRow - 1)) \X (1..(LastRow - 1)) /\ r[1] <= r[2]

VARIABLES
    bVersion,    \* the script that runs, "none" when no process does
    bRun,        \* executions so far
    bObserved,   \* frames with x_smooth, y_smooth
    bRange,      \* frame_start and frame_end of the uncertain event
    bRecords,    \* records / all_results
    bChosen,     \* the selected record: its place, 0 before the selection
    bTodo,       \* files still to be written
    bFiles,      \* the run that wrote each file, 0 when absent
    bComplete    \* history: the last run of each script wrote every file

bVars == <<bVersion, bRun, bObserved, bRange, bRecords, bChosen, bTodo,
           bFiles, bComplete>>

-----------------------------------------------------------------------------
Infinite == Max(Costs) + 1     \* float("inf")
Rows == 0..LastRow

\* The files of each run, in the order in which they are written; --skip-render
\* drops the rendering.
WritesV1(render) ==
    <<"selection1", "trajectory1">> \o (IF render THEN <<"render1", "sheets1">> ELSE <<>>)
        \o <<"fits1", "joint1", "quality1">>

\* Mutant: the selection is not written again.
WritesV2_NoSelection(render) ==
    <<"audit", "positions", "trajectory", "png", "fits", "quality", "uncertainty">>
        \o (IF render THEN <<"render">> ELSE <<>>)

WritesV2(render) ==
    <<"audit", "positions", "trajectory", "png", "selection", "fits", "quality",
      "uncertainty">> \o (IF render THEN <<"render">> ELSE <<>>)

Writes(v, render) == IF v = "v1" THEN WritesV1(render) ELSE WritesV2(render)

\* What --render-existing reads.
Existing == {"selection", "fits", "positions", "quality"}

BFiles == Range(WritesV1(TRUE)) \cup Range(WritesV2(TRUE)) \cup Existing

Combinations == bRange[1]..bRange[2]

\* The frames of the segments when the uncertain event is at frame f.
SegmentRows(f) == {0..f, f..LastRow}

\* observe_event: the frame itself, or neighbours on both sides within two frames.
Observable(f) ==
    \/ f \in bObserved
    \/ /\ \E g \in bObserved : g < f /\ f <= g + 2
       /\ \E g \in bObserved : f < g /\ g <= f + 2

EventsObservable(f) == \A e \in {0, f, LastRow} : Observable(e)

-----------------------------------------------------------------------------
(* Fits                                                                    *)

BRecord(f, status, cost, solved, ready) ==
    [frame |-> f, status |-> status, cost |-> cost, solved |-> solved, ready |-> ready]

\* A segment without an observation is FIT_REJECTED; of the others the solver
\* decides which are FIT_ACCEPTED.
Accepted5B(f, close) == {s \in SegmentRows(f) : s \cap bObserved # {} /\ close}

\* Mutant: a failed solve is a candidate like another.
FitJoint_ErrorIsFinite(f) ==
    {BRecord(f, "REJECTED_ERROR", Min(Costs), FALSE, FALSE)}
    \cup {BRecord(f, s, c, TRUE, FALSE) : s \in {"VALID", "REJECTED_PHYSICAL"}, c \in Costs}

\* The total cost of a solve that ended: infinite when the solution puts an observed
\* point behind the camera, and when there is no observation at all.
JointCosts(f) ==
    IF \A s \in SegmentRows(f) : s \cap bObserved = {} THEN {Infinite}
    ELSE Costs \cup {Infinite}

\* fit_joint and the record _fit_combinations makes of it: the solver may raise,
\* or end with or without convergence; v1 is ready when it converged, enough
\* segments are accepted and the limits hold.
FitJoint(f) ==
    {BRecord(f, "REJECTED_ERROR", Infinite, FALSE, FALSE)}
    \cup {LET unseen == \E s \in SegmentRows(f) : s \cap bObserved = {}
              enough == Cardinality(Accepted5B(f, close)) >= Needed
          IN  BRecord(f, IF unseen \/ ~success THEN "REJECTED_PHYSICAL" ELSE "VALID",
                      cost, TRUE, success /\ enough /\ limits) :
          success \in BOOLEAN, close \in BOOLEAN, limits \in BOOLEAN, cost \in JointCosts(f)}

\* Once the first combination has a result, the others borrow it.
Coarse(f) ==
    {BRecord(f, "VALID", bRecords[1].cost, FALSE, FALSE)}

FitsV1(f) ==
    IF bRecords # <<>> /\ bRecords[1].solved THEN Coarse(f) ELSE FitJoint(f)

\* fit_combination: no pixel for an event, no fit; the semantic and physical
\* constraints reject, the errors tell accepted from marginal.  The report is
\* ready when the fit is not rejected, clears the net and stays within 25 px,
\* whatever its median.
FitCombination(f) ==
    IF ~EventsObservable(f)
    THEN {BRecord(f, "REJECTED", Infinite, FALSE, FALSE)}
    ELSE {BRecord(f, IF ~constraints THEN "ANCHORED_FIT_REJECTED"
                     ELSE IF close /\ within THEN "ANCHORED_FIT_ACCEPTED"
                     ELSE "ANCHORED_FIT_MARGINAL",
                  cost, TRUE, constraints /\ within /\ clear) :
          constraints \in BOOLEAN, close \in BOOLEAN, within \in BOOLEAN,
          clear \in BOOLEAN, cost \in Costs}

Fits(f) == IF bVersion = "v1" THEN FitsV1(f) ELSE FitCombination(f)

-----------------------------------------------------------------------------
(* Selection                                                               *)

Where(P(_)) == {i \in DOMAIN bRecords : P(bRecords[i])}

Candidates5B ==
    LET valid == IF bVersion = "v1"
                 THEN Where(LAMBDA r : r.status = "VALID" /\ r.solved)
                 ELSE Where(LAMBDA r : r.status # "ANCHORED_FIT_REJECTED")
    IN  IF valid = {} THEN DOMAIN bRecords ELSE valid

\* sorted(..., key=cost)[0]; the sort is stable.
Cheapest(places) ==
    CHOOSE i \in places : \A j \in places :
        \/ bRecords[i].cost < bRecords[j].cost
        \/ bRecords[i].cost = bRecords[j].cost /\ i <= j

-----------------------------------------------------------------------------
(* Actions                                                                 *)

\* main() up to the first fit: the trajectory and the events are read once.
Run5B(v, observed, range) ==
    /\ bVersion = "none"
    /\ bRun < MaxRuns
    /\ bVersion' = v
    /\ bRun' = bRun + 1
    /\ bObserved' = observed
    /\ bRange' = range
    /\ bComplete' = [bComplete EXCEPT ![v] = FALSE]
    /\ UNCHANGED <<bRecords, bChosen, bTodo, bFiles>>

Fit5B ==
    /\ bVersion # "none"
    /\ Len(bRecords) < Cardinality(Combinations)
    /\ \E r \in Fits(bRange[1] + Len(bRecords)) : bRecords' = Append(bRecords, r)
    /\ UNCHANGED <<bVersion, bRun, bObserved, bRange, bChosen, bTodo, bFiles,
                   bComplete>>

Select5B(render) ==
    /\ bVersion # "none"
    /\ bChosen = 0
    /\ Len(bRecords) = Cardinality(Combinations)
    /\ bChosen' = Cheapest(Candidates5B)
    /\ bTodo' = Writes(bVersion, render)
    /\ UNCHANGED <<bVersion, bRun, bObserved, bRange, bRecords, bFiles,
                   bComplete>>

Exit5B ==
    /\ bVersion' = "none"
    /\ bRecords' = <<>>
    /\ bChosen' = 0
    /\ bTodo' = <<>>
    /\ bObserved' = {}
    /\ bRange' = <<1, 1>>
    /\ UNCHANGED <<bRun>>

\* The file f, the next in order, is written over what an earlier run left.
WriteNext(f) ==
    /\ bTodo # <<>>
    /\ Head(bTodo) = f
    /\ bFiles' = [bFiles EXCEPT ![f] = bRun]
    /\ bTodo' = Tail(bTodo)
    /\ UNCHANGED <<bVersion, bRun, bObserved, bRange, bRecords, bChosen, bComplete>>

\* The trajectories of v1 and the positions of v2 are computed from the points of
\* a solved fit.
Solved == bRecords[bChosen].solved

WriteSelection1 == WriteNext("selection1")
TrajectoryOutputs == bTodo # <<>> /\ Solved /\ WriteNext("trajectory1")
RenderOutputs == WriteNext("render1")
ContactSheets == WriteNext("sheets1")
WriteReports1 == \E f \in {"fits1", "joint1", "quality1"} : WriteNext(f)

EventAudit == WriteNext("audit")
WorldEventRows == bTodo # <<>> /\ Solved /\ WriteNext("positions")
OutputTrajectories == WriteNext("trajectory")
AuditPng == WriteNext("png")
WriteReports2 == \E f \in {"selection", "fits", "quality", "uncertainty"} : WriteNext(f)
RenderAll == WriteNext("render")

\* Without such a fit the script ends there with an exception.
Abort5B ==
    /\ bTodo # <<>>
    /\ Head(bTodo) \in {"positions", "trajectory1"}
    /\ ~Solved
    /\ Exit5B
    /\ UNCHANGED <<bFiles, bComplete>>

Finish5B ==
    /\ bChosen # 0
    /\ bTodo = <<>>
    /\ bComplete' = [bComplete EXCEPT ![bVersion] = TRUE]
    /\ Exit5B
    /\ UNCHANGED bFiles

\* The process is killed, or the encoder fails.
Die5B ==
    /\ bVersion # "none"
    /\ Exit5B
    /\ UNCHANGED <<bFiles, bComplete>>

\* The run a rendering of the existing files shows; Mixed when they disagree.
Mixed == MaxRuns + 1
Drawn == IF Cardinality({bFiles[f] : f \in Existing}) = 1
         THEN bFiles["selection"] ELSE Mixed

\* v2 --render-existing: every file it reads must be there.
RenderExisting ==
    /\ bVersion = "none"
    /\ \A f \in Existing : bFiles[f] # 0
    /\ bFiles' = [bFiles EXCEPT !["render"] = Drawn]
    /\ UNCHANGED <<bVersion, bRun, bObserved, bRange, bRecords, bChosen, bTodo,
                   bComplete>>

B_Init ==
    /\ bVersion = "none"
    /\ bRun = 0
    /\ bObserved = {}
    /\ bRange = <<1, 1>>
    /\ bRecords = <<>>
    /\ bChosen = 0
    /\ bTodo = <<>>
    /\ bFiles = [f \in BFiles |-> 0]
    /\ bComplete = [v \in {"v1", "v2"} |-> FALSE]

B_Next ==
    \/ \E v \in {"v1", "v2"}, observed \in SUBSET Rows, range \in BRanges :
          Run5B(v, observed, range)
    \/ Fit5B
    \/ \E render \in BOOLEAN : Select5B(render)
    \/ WriteSelection1 \/ TrajectoryOutputs \/ RenderOutputs \/ ContactSheets \/ WriteReports1
    \/ EventAudit \/ WorldEventRows \/ OutputTrajectories \/ AuditPng \/ WriteReports2
    \/ RenderAll
    \/ Abort5B
    \/ Finish5B
    \/ Die5B
    \/ RenderExisting

B_Spec == B_Init /\ [][B_Next]_bVars

-----------------------------------------------------------------------------
(***************************************************************************)
(* Properties                                                              *)
(***************************************************************************)

\* Although the solver may fail, diverge or reject any subset of the combinations:
\* when v1 has a valid solve it writes the cheapest of them, when it only has
\* rejected ones it still never writes a fit without points as long as one of them
\* has a finite cost (with none it may, and then ends with an exception); and a v2
\* report that says READY is of the cheapest fit among all the constraints accept.
SelectionSound ==
    LET r == bRecords[bChosen]
        valid == {i \in DOMAIN bRecords : bRecords[i].status = "VALID" /\ bRecords[i].solved}
        finite == {i \in DOMAIN bRecords : bRecords[i].cost \in Costs /\ bRecords[i].solved}
    IN  bChosen # 0 =>
        /\ bVersion = "v1" /\ valid # {} =>
            bChosen \in valid /\ \A i \in valid : r.cost <= bRecords[i].cost
        /\ bVersion = "v1" /\ finite # {} => r.solved
        /\ bVersion = "v2" /\ r.ready =>
            /\ r.status \in {"ANCHORED_FIT_ACCEPTED", "ANCHORED_FIT_MARGINAL"}
            /\ \A i \in DOMAIN bRecords :
                  bRecords[i].status \in {"ANCHORED_FIT_ACCEPTED", "ANCHORED_FIT_MARGINAL"}
                      => r.cost <= bRecords[i].cost

\* When the last v2 run came to its end, all it left for --render-existing is of
\* that run, however many runs died, skipped the rendering or selected something
\* else before it: a video drawn then never mixes the frames of one fit with the
\* points of another.
ExistingOfOneRun ==
    bComplete["v2"] => \A f, g \in Existing : bFiles[f] = bFiles[g] /\ bFiles[f] # 0

\* "each event uses the pixel of the candidate frame and stays on its camera ray"
\* (stage_5b_v2_anchored_reconstruction): v2 selects a fit that has points as soon
\* as one combination has them.
SelectionAnchored ==
    bVersion = "v2" /\ bChosen # 0 /\ (\E i \in DOMAIN bRecords : bRecords[i].solved)
        => bRecords[bChosen].solved
=============================================================================
