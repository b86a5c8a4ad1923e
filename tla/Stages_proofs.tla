--------------------------- MODULE Stages_proofs ----------------------------
(***************************************************************************)
(* Theorems about two stages between a clip and its bundle.  Stage 5B:     *)
(* what is left for a rendering by scripts that die anywhere and are run   *)
(* again, and which of the fits of a solver that may fail is written, for  *)
(* any number of runs and any costs.  Overlays: which times and turns the  *)
(* frames of an overlay get, whatever the tools report of the clip.        *)
(***************************************************************************)
EXTENDS Stage5B, VideoTiming, Publication_proofs

-----------------------------------------------------------------------------
(* Order                                                                   *)

\* A finite set of natural numbers has a greatest element, the one Max chooses: of
\* the finite sets of the elements that are no less than a given one, some one
\* includes no other.
LEMMA MaxOfFinite ==
    ASSUME NEW T \in SUBSET Nat, T # {}, IsFiniteSet(T)
    PROVE  Max(T) \in T /\ \A m \in T : m <= Max(T)
  <1> DEFINE Above(n) == {m \in T : n <= m}
             F == {Above(n) : n \in T}
             R == StrictSubsetOrdering(T)
  <1>1. F # {} /\ F \subseteq FiniteSubsetsOf(T)
    <2>1. \A n \in T : Above(n) \in SUBSET T /\ IsFiniteSet(Above(n))
      BY FS_Subset
    <2> QED
      BY <2>1 DEF FiniteSubsetsOf
  <1>2. \E x \in F : \A y \in F : ~(<<y, x>> \in R)
    <2>1. IsWellFoundedOn(R, FiniteSubsetsOf(T))
      BY FS_StrictSubsetOrderingWellFounded
    <2> HIDE DEF F, R
    <2> QED
      BY <1>1, <2>1, WFMin
  <1>3. PICK n \in T : \A m \in T : ~(<<Above(m), Above(n)>> \in R)
    BY <1>2
  <1>4. \A m \in T : n < m => Above(m) \subseteq Above(n) /\ Above(m) # Above(n)
    <2> SUFFICES ASSUME NEW m \in T, n < m PROVE Above(m) \subseteq Above(n) /\ n \notin Above(m)
      BY DEF Above
    <2>1. n \in Nat /\ m \in Nat /\ \A k \in T : k \in Nat
      OBVIOUS
    <2>2. \A k \in T : m <= k => n <= k
      BY <2>1
    <2>3. ~(m <= n)
      BY <2>1
    <2> QED
      BY <2>2, <2>3
  <1>5. \A m \in T : Above(m) \in SUBSET T
    OBVIOUS
  <1>6. \A m \in T : n < m => <<Above(m), Above(n)>> \in R
    BY <1>4, <1>5 DEF StrictSubsetOrdering
  <1> HIDE DEF F, R, Above
  <1>7. \A m \in T : n >= m
    <2>1. \A m \in T : ~(n < m)
      BY <1>3, <1>6
    <2> QED
      BY <2>1
  <1> QED
    BY <1>7 DEF Max

-----------------------------------------------------------------------------
(* Stage 5B                                                                *)

\* v2 writes every file that a rendering of the existing ones reads, v1 none.
LEMMA WritesOfV2 ==
    /\ "render" \in BFiles
    /\ \A render \in BOOLEAN :
          /\ Writes("v2", render) \in Seq(BFiles)
          /\ Existing \subseteq Range(Writes("v2", render))
  <1> DEFINE S == {"audit", "positions", "trajectory", "png", "selection", "fits",
                   "quality", "uncertainty", "render"}
             start == <<"audit", "positions", "trajectory", "png", "selection", "fits",
                        "quality", "uncertainty">>
             rest(render) == IF render THEN <<"render">> ELSE <<>>
  <1>1. start \in Seq(S) /\ start[2] = "positions" /\ start[5] = "selection"
        /\ start[6] = "fits" /\ start[7] = "quality" /\ DOMAIN start = 1..8
    OBVIOUS
  <1>2. Existing \subseteq Range(start)
    <2> HIDE DEF start, S
    <2>1. 2 \in 1..8 /\ 5 \in 1..8 /\ 6 \in 1..8 /\ 7 \in 1..8
      OBVIOUS
    <2> QED
      BY <1>1, <2>1 DEF Existing, Range
  <1>3. \A render \in BOOLEAN : rest(render) \in Seq(S) /\ Range(rest(TRUE)) = {"render"}
    <2>1. <<"render">> \in Seq(S) /\ <<>> \in Seq(S)
      OBVIOUS
    <2>2. Range(<<"render">>) = {"render"}
      BY DEF Range
    <2> QED
      BY <2>1, <2>2
  <1>4. \A render \in BOOLEAN : Writes("v2", render) = start \o rest(render)
    BY DEF Writes, WritesV2
  <1>5. Range(start) \in SUBSET S /\ S \ {"render"} \subseteq Range(start)
    <2>1. start[1] = "audit" /\ start[3] = "trajectory" /\ start[4] = "png"
          /\ start[8] = "uncertainty"
      OBVIOUS
    <2> HIDE DEF start
    <2>2. \A k \in {1, 3, 4, 8} : k \in 1..8
      OBVIOUS
    <2>3. {"audit", "trajectory", "png", "uncertainty"} \subseteq Range(start)
      BY <1>1, <2>1, <2>2 DEF Range
    <2>4. Range(start) \in SUBSET S
      <3> HIDE DEF S
      <3> QED
        BY <1>1, RangeOfSeq
    <2> QED
      BY <1>2, <2>3, <2>4 DEF Existing
  <1> HIDE DEF start, rest
  <1>6. \A render \in BOOLEAN :
            /\ start \o rest(render) \in Seq(S)
            /\ Range(start \o rest(render)) = Range(start) \cup Range(rest(render))
    <2> HIDE DEF S
    <2> QED
      BY <1>1, <1>3, ConcatProperties, RangeConcatenation
  <1>7. S \subseteq BFiles
    BY <1>3, <1>4, <1>5, <1>6 DEF BFiles, Writes
  <1>8. \A render \in BOOLEAN : start \o rest(render) \in Seq(BFiles)
    <2> HIDE DEF S
    <2> QED
      BY <1>6, <1>7, SeqMonotonic
  <1>9. "render" \in BFiles
    BY <1>7
  <1> QED
    BY <1>2, <1>4, <1>6, <1>8, <1>9

LEMMA WritesOfV1 ==
    \A render \in BOOLEAN : /\ Writes("v1", render) \in Seq(BFiles)
                            /\ Range(Writes("v1", render)) \cap Existing = {}
  <1> DEFINE S == {"selection1", "trajectory1", "render1", "sheets1", "fits1", "joint1",
                   "quality1"}
             start == <<"selection1", "trajectory1">>
             drawn(render) == IF render THEN <<"render1", "sheets1">> ELSE <<>>
             reports == <<"fits1", "joint1", "quality1">>
  <1>1. start \in Seq(S) /\ reports \in Seq(S)
    OBVIOUS
  <1>2. \A render \in BOOLEAN : drawn(render) \in Seq(S)
    <2>1. <<"render1", "sheets1">> \in Seq(S) /\ <<>> \in Seq(S)
      OBVIOUS
    <2> QED
      BY <2>1
  <1>3. \A render \in BOOLEAN : Writes("v1", render) = (start \o drawn(render)) \o reports
    BY DEF Writes, WritesV1
  <1>4. S \subseteq Range(Writes("v1", TRUE))
    <2>1. /\ Range(start) = {"selection1", "trajectory1"}
          /\ Range(drawn(TRUE)) = {"render1", "sheets1"}
          /\ Range(reports) = {"fits1", "joint1", "quality1"}
      <3>1. Range(<<"selection1", "trajectory1">>) = {"selection1", "trajectory1"}
        BY DEF Range
      <3>2. Range(<<"render1", "sheets1">>) = {"render1", "sheets1"}
        BY DEF Range
      <3>3. Range(<<"fits1", "joint1", "quality1">>) = {"fits1", "joint1", "quality1"}
        BY DEF Range
      <3> QED
        BY <3>1, <3>2, <3>3
    <2> HIDE DEF start, drawn, reports
    <2>2. Range(Writes("v1", TRUE)) = (Range(start) \cup Range(drawn(TRUE))) \cup Range(reports)
      <3> HIDE DEF S
      <3>1. start \o drawn(TRUE) \in Seq(S)
        BY <1>1, <1>2, ConcatProperties
      <3>2. Range(start \o drawn(TRUE)) = Range(start) \cup Range(drawn(TRUE))
        BY <1>1, <1>2, RangeConcatenation
      <3>3. Range((start \o drawn(TRUE)) \o reports)
              = Range(start \o drawn(TRUE)) \cup Range(reports)
        BY <1>1, <3>1, RangeConcatenation
      <3> QED
        BY <1>3, <3>2, <3>3
    <2> QED
      BY <2>1, <2>2
  <1>5. S \subseteq BFiles
    BY <1>4 DEF BFiles, Writes
  <1> HIDE DEF start, drawn, reports
  <1>6. \A render \in BOOLEAN : Writes("v1", render) \in Seq(S)
    <2> HIDE DEF S
    <2>1. \A render \in BOOLEAN : start \o drawn(render) \in Seq(S)
      BY <1>1, <1>2, ConcatProperties
    <2> QED
      BY <1>1, <1>3, <2>1, ConcatProperties
  <1>7. \A render \in BOOLEAN : /\ Writes("v1", render) \in Seq(BFiles)
                                /\ Range(Writes("v1", render)) \in SUBSET S
    <2> HIDE DEF S
    <2> QED
      BY <1>5, <1>6, SeqMonotonic, RangeOfSeq
  <1> QED
    BY <1>7 DEF Existing

\* What is left after the first of a list.
LEMMA RestOfList ==
    ASSUME NEW S, NEW s \in Seq(S), s # <<>>
    PROVE  /\ Head(s) \in S /\ Tail(s) \in Seq(S)
           /\ Range(s) = {Head(s)} \cup Range(Tail(s))
  <1> DEFINE n == Len(s)
             t == Tail(s)
  <1>1. Head(s) = s[1] /\ n \in Nat /\ n # 0 /\ DOMAIN s = 1..n
    BY EmptySeq, LenProperties
  <1>2. /\ Head(s) \in S /\ t \in Seq(S) /\ Len(t) = n - 1
        /\ \A i \in 1..Len(t) : t[i] = s[i + 1]
    BY HeadTailProperties
  <1>3. DOMAIN t = 1..(n - 1)
    BY <1>2, LenProperties
  <1> HIDE DEF n, t
  <1>4. \A i \in 1..n : i = 1 \/ (i - 1 \in 1..(n - 1) /\ i = (i - 1) + 1)
    BY <1>1
  <1>5. \A i \in 1..(n - 1) : i + 1 \in 1..n
    BY <1>1
  <1>6. 1 \in 1..n
    BY <1>1
  <1>7. Range(s) \subseteq {Head(s)} \cup Range(t)
    <2> SUFFICES ASSUME NEW x \in Range(s) PROVE x \in {Head(s)} \cup Range(t)
      OBVIOUS
    <2>1. PICK i \in 1..n : x = s[i]
      BY <1>1 DEF Range
    <2>2. CASE i = 1
      BY <1>1, <2>1, <2>2
    <2>3. CASE i # 1
      <3>1. i - 1 \in 1..(n - 1) /\ t[i - 1] = s[(i - 1) + 1] /\ (i - 1) + 1 = i
        BY <1>2, <1>4, <2>3
      <3> QED
        BY <1>3, <2>1, <3>1 DEF Range
    <2> QED
      BY <2>2, <2>3
  <1>8. {Head(s)} \cup Range(t) \subseteq Range(s)
    BY <1>1, <1>2, <1>3, <1>5, <1>6 DEF Range
  <1> QED
    BY <1>2, <1>7, <1>8 DEF t

(***************************************************************************)
(* What the files and the lists of files have to do with each other: a v2  *)
(* run that has selected either wrote or will write each file the          *)
(* rendering reads, a v1 run touches none of them, and a script counts as  *)
(* unfinished from its start on.                                           *)
(***************************************************************************)
ScriptTyped ==
    /\ bVersion \in {"none", "v1", "v2"}
    /\ bRun \in Nat
    /\ bTodo \in Seq(BFiles)
    /\ bFiles \in [BFiles -> Nat]
    /\ bComplete \in [{"v1", "v2"} -> BOOLEAN]

ScriptRuns ==
    /\ bVersion = "none" => bTodo = <<>> /\ bChosen = 0
    /\ bVersion # "none" => bRun # 0 /\ ~bComplete[bVersion]

WritesPending ==
    /\ bVersion = "v1" => Range(bTodo) \cap Existing = {}
    /\ bVersion = "v2" /\ bChosen # 0 =>
          \A f \in Existing : bFiles[f] = bRun \/ f \in Range(bTodo)

FilesInv == ScriptTyped /\ ScriptRuns /\ WritesPending /\ ExistingOfOneRun

LEMMA FilesInit == B_Init => FilesInv
  BY DEF B_Init, FilesInv, ScriptTyped, ScriptRuns, WritesPending, ExistingOfOneRun

\* A script that ends or dies leaves its files.
LEMMA ExitFiles ==
    ASSUME FilesInv, Exit5B, UNCHANGED bFiles,
           bVersion # "none",
           bComplete' \in {bComplete, [bComplete EXCEPT ![bVersion] = TRUE]},
           bComplete' # bComplete => bTodo = <<>> /\ bChosen # 0
    PROVE  FilesInv'
  <1> USE DEF FilesInv, ScriptTyped, ScriptRuns, WritesPending
  <1>1. bTodo' = <<>> /\ bVersion' = "none" /\ bRun' = bRun /\ bChosen' = 0
    BY DEF Exit5B
  <1>2. <<>> \in Seq(BFiles)
    OBVIOUS
  <1>3. ScriptTyped'
    BY <1>1, <1>2
  <1>4. ScriptRuns' /\ WritesPending'
    BY <1>1
  <1>5. ExistingOfOneRun'
    <2>1. CASE bComplete' = bComplete
      BY <2>1 DEF ExistingOfOneRun
    <2>2. CASE bComplete' # bComplete /\ bVersion = "v2"
      <3>1. Range(bTodo) = {}
        BY <2>2 DEF Range
      <3>2. \A f \in Existing : bFiles[f] = bRun
        BY <2>2, <3>1
      <3> QED
        BY <2>2, <3>2 DEF ExistingOfOneRun
    <2>3. CASE bComplete' # bComplete /\ bVersion = "v1"
      BY <2>3 DEF ExistingOfOneRun
    <2> QED
      BY <2>1, <2>2, <2>3
  <1> QED
    BY <1>3, <1>4, <1>5

\* The next file is written, whichever it is.
LEMMA WriteFiles ==
    ASSUME FilesInv, NEW f, WriteNext(f)
    PROVE  FilesInv'
  <1> USE DEF FilesInv, ScriptTyped, ScriptRuns
  <1>1. /\ f \in BFiles /\ bTodo' \in Seq(BFiles) /\ bVersion # "none" /\ bRun # 0
        /\ Range(bTodo) = {f} \cup Range(bTodo')
    <2>1. bTodo # <<>> /\ f = Head(bTodo) /\ bTodo' = Tail(bTodo)
      BY DEF WriteNext
    <2> QED
      BY <2>1, RestOfList
  <1>2. /\ UNCHANGED <<bVersion, bRun, bChosen, bComplete>>
        /\ bFiles' = [bFiles EXCEPT ![f] = bRun]
    BY DEF WriteNext
  <1>3. ScriptTyped' /\ ScriptRuns'
    BY <1>1, <1>2
  <1>4. \A g \in Existing : g \in BFiles
    BY DEF BFiles
  <1>5. WritesPending'
    BY <1>1, <1>2, <1>4 DEF WritesPending
  <1>6. ExistingOfOneRun'
    <2>1. CASE bVersion = "v1"
      <3>1. f \notin Existing
        BY <1>1, <2>1 DEF WritesPending
      <3>2. \A g \in Existing : bFiles'[g] = bFiles[g]
        BY <1>2, <1>4, <3>1
      <3> QED
        BY <1>2, <3>2 DEF ExistingOfOneRun
    <2>2. CASE bVersion = "v2"
      BY <1>2, <2>2 DEF ExistingOfOneRun
    <2> QED
      BY <1>1, <2>1, <2>2
  <1> QED
    BY <1>3, <1>5, <1>6

LEMMA FilesStep == FilesInv /\ [B_Next]_bVars => FilesInv'
  <1> SUFFICES ASSUME FilesInv, [B_Next]_bVars PROVE FilesInv'
    OBVIOUS
  <1> USE DEF FilesInv, ScriptTyped, ScriptRuns, WritesPending, ExistingOfOneRun
  <1>1. ASSUME NEW v \in {"v1", "v2"}, NEW observed, NEW range, Run5B(v, observed, range)
        PROVE  FilesInv'
    <2>1. /\ bVersion' = v /\ bRun' = bRun + 1 /\ bTodo' = <<>> /\ bFiles' = bFiles
          /\ bComplete' = [bComplete EXCEPT ![v] = FALSE] /\ bChosen' = 0
      BY <1>1 DEF Run5B
    <2>2. Range(<<>>) = {}
      BY DEF Range
    <2>3. bComplete'["v2"] => bComplete["v2"] /\ v = "v1"
      BY <2>1
    <2>4. bVersion = "none"
      BY <1>1 DEF Run5B
    <2> QED
      BY <2>1, <2>2, <2>3, <2>4
  <1>2. CASE Fit5B
    BY <1>2 DEF Fit5B
  <1>3. ASSUME NEW render \in BOOLEAN, Select5B(render)
        PROVE  FilesInv'
    <2>1. /\ bVersion \in {"v1", "v2"} /\ bTodo' = Writes(bVersion, render)
          /\ UNCHANGED <<bVersion, bRun, bFiles, bComplete>>
      BY <1>3 DEF Select5B
    <2>2. CASE bVersion = "v1"
      BY <2>1, <2>2, WritesOfV1
    <2>3. CASE bVersion = "v2"
      BY <2>1, <2>3, WritesOfV2
    <2> QED
      BY <2>1, <2>2, <2>3
  <1>4. ASSUME NEW f, WriteNext(f)
        PROVE  FilesInv'
    BY <1>4, WriteFiles
  <1>5. CASE Abort5B
    BY <1>5, ExitFiles DEF Abort5B
  <1>6. CASE Finish5B
    <2>1. bVersion # "none" /\ bTodo = <<>> /\ bChosen # 0
      BY <1>6 DEF Finish5B
    <2> QED
      BY <1>6, <2>1, ExitFiles DEF Finish5B
  <1>7. CASE Die5B
    BY <1>7, ExitFiles DEF Die5B
  <1>8. CASE RenderExisting
    <2>1. "render" \in BFiles /\ "render" \notin Existing /\ Existing \subseteq BFiles
      BY WritesOfV2 DEF BFiles, Existing
    <2>2. Drawn \in Nat
      <3>1. MaxRuns + 1 \in Nat
        BY FiveBAssumption
      <3>2. "selection" \in BFiles
        BY DEF BFiles, Existing
      <3> QED
        BY <3>1, <3>2 DEF Drawn, Mixed
    <2>3. /\ bFiles' = [bFiles EXCEPT !["render"] = Drawn]
          /\ UNCHANGED <<bVersion, bRun, bTodo, bChosen, bComplete>>
      BY <1>8 DEF RenderExisting
    <2>4. bFiles' \in [BFiles -> Nat] /\ \A f \in Existing : bFiles'[f] = bFiles[f]
      BY <2>1, <2>2, <2>3
    <2> QED
      BY <2>3, <2>4
  <1>9. CASE UNCHANGED bVars
    BY <1>9 DEF bVars
  <1> QED
    BY <1>1, <1>2, <1>3, <1>4, <1>5, <1>6, <1>7, <1>8, <1>9
       DEF B_Next, WriteSelection1, TrajectoryOutputs, RenderOutputs, ContactSheets,
           WriteReports1, EventAudit, WorldEventRows, OutputTrajectories, AuditPng,
           WriteReports2, RenderAll

\* What the last finished v2 run left for a rendering of the existing files is of
\* that run alone, whatever died or was skipped before it.
THEOREM ExistingOfLastRun == B_Spec => []ExistingOfOneRun
  <1>1. FilesInv => ExistingOfOneRun
    BY DEF FilesInv
  <1> QED
    BY <1>1, FilesInit, FilesStep, PTL DEF B_Spec

\* The selection has a record to choose, of all that cost least the first.
LEMMA CheapestIsFirst ==
    ASSUME NEW places \in SUBSET (DOMAIN bRecords), places # {},
           DOMAIN bRecords \subseteq Nat,
           \A i \in DOMAIN bRecords : bRecords[i].cost \in Nat
    PROVE  /\ Cheapest(places) \in places
           /\ \A j \in places :
                 \/ bRecords[Cheapest(places)].cost < bRecords[j].cost
                 \/ bRecords[Cheapest(places)].cost = bRecords[j].cost /\ Cheapest(places) <= j
  <1> DEFINE C == {bRecords[i].cost : i \in places}
             First(i) == \A j \in places :
                            \/ bRecords[i].cost < bRecords[j].cost
                            \/ bRecords[i].cost = bRecords[j].cost /\ i <= j
  <1>1. C \in SUBSET Nat /\ C # {}
    OBVIOUS
  <1>2. PICK c \in C : \A d \in C : c <= d
    BY <1>1, LeastNumber
  <1> DEFINE I == {i \in places : bRecords[i].cost = c}
  <1>3. I \in SUBSET Nat /\ I # {}
    OBVIOUS
  <1>4. PICK i \in I : \A j \in I : i <= j
    BY <1>3, LeastNumber
  <1>5. \A j \in places : bRecords[j].cost \in Nat /\ c <= bRecords[j].cost /\ c \in Nat
    BY <1>1, <1>2
  <1>6. i \in places /\ First(i)
    <2>1. i \in places /\ bRecords[i].cost = c
      BY <1>4
    <2>2. \A j \in places : bRecords[j].cost = c => i <= j
      BY <1>4
    <2> HIDE DEF C, I
    <2> QED
      BY <1>5, <2>1, <2>2
  <1>7. Cheapest(places) = CHOOSE k \in places : First(k)
    BY DEF Cheapest
  <1>8. Cheapest(places) \in places /\ First(Cheapest(places))
    <2> HIDE DEF First
    <2> QED
      BY <1>6, <1>7
  <1> QED
    BY <1>8

LEMMA CostsBounded == Infinite \in Nat /\ \A c \in Costs : c \in Nat /\ c < Infinite
  <1>1. Max(Costs) \in Costs /\ \A m \in Costs : m <= Max(Costs)
    BY MaxOfFinite, FiveBAssumption
  <1> DEFINE top == Max(Costs)
  <1>2. top \in Nat /\ \A m \in Costs : m \in Nat /\ m <= top
    BY <1>1, FiveBAssumption
  <1> HIDE DEF top
  <1>3. top + 1 \in Nat /\ \A m \in Costs : m \in Nat /\ m < top + 1
    BY <1>2
  <1> QED
    BY <1>3 DEF top, Infinite

(***************************************************************************)
(* What the records of each script can be.  In v1 the first record is      *)
(* either solved, and then all others borrow its cost and no point, or     *)
(* failed, and then a solve with a finite cost is cheaper than any that    *)
(* failed.  In v2 a record that says ready is one the constraints accept.  *)
(***************************************************************************)
Anchored == {"ANCHORED_FIT_ACCEPTED", "ANCHORED_FIT_MARGINAL"}

RecordOfV1(k, records) ==
    LET r == records[k]
    IN  IF records[1].solved /\ k # 1
        THEN ~r.solved /\ r.cost = records[1].cost
        ELSE ~r.solved => r.cost = Infinite /\ r.status = "REJECTED_ERROR"

RecordOfV2(r) ==
    /\ r.status \in Anchored \cup {"REJECTED", "ANCHORED_FIT_REJECTED"}
    /\ r.ready => r.status \in Anchored

Statuses == {"VALID", "REJECTED_PHYSICAL", "REJECTED_ERROR", "REJECTED"}
            \cup Anchored \cup {"ANCHORED_FIT_REJECTED"}
BRecords == [frame : Nat, status : Statuses, cost : Nat, solved : BOOLEAN, ready : BOOLEAN]

RecordsTyped ==
    /\ bVersion \in {"none", "v1", "v2"}
    /\ bRecords \in Seq(BRecords)

RecordsOfScript ==
    /\ bVersion = "v1" => \A k \in DOMAIN bRecords : RecordOfV1(k, bRecords)
    /\ bVersion = "v2" => \A k \in DOMAIN bRecords : RecordOfV2(bRecords[k])

CheapestChosen ==
    /\ bVersion = "none" => bRecords = <<>> /\ bChosen = 0
    /\ bVersion # "none" => bRange \in BRanges
    /\ bChosen # 0 => /\ DOMAIN bRecords # {}
                      /\ Len(bRecords) = Cardinality(Combinations)
                      /\ bChosen = Cheapest(Candidates5B)

SelectionInv == RecordsTyped /\ RecordsOfScript /\ CheapestChosen

LEMMA SelectionInit == B_Init => SelectionInv
  BY DEF B_Init, SelectionInv, RecordsTyped, RecordsOfScript, CheapestChosen

\* An event has at least one frame, so there is something to select from.
LEMMA SomeCombination ==
    ASSUME bRange \in BRanges
    PROVE  Cardinality(Combinations) \in Nat \ {0}
  <1>1. bRange[1] \in Int /\ bRange[2] \in Int /\ bRange[1] <= bRange[2]
    <2>1. LastRow \in Nat
      BY FiveBAssumption
    <2>2. bRange \in (1..(LastRow - 1)) \X (1..(LastRow - 1)) /\ bRange[1] <= bRange[2]
      BY FiveBAssumption
    <2> QED
      BY <2>1, <2>2
  <1> DEFINE a == bRange[1]
             b == bRange[2]
  <1>2. a \in Int /\ b \in Int /\ a <= b
    BY <1>1
  <1>3. Combinations = a..b
    BY DEF Combinations
  <1> HIDE DEF a, b
  <1>4. Cardinality(a..b) = IF a > b THEN 0 ELSE (b - a) + 1
    BY <1>2, FS_Interval
  <1>5. (b - a) + 1 \in Nat \ {0} /\ ~(a > b)
    BY <1>2
  <1> QED
    BY <1>3, <1>4, <1>5

LEMMA FitOfV2 ==
    ASSUME NEW f \in Nat, NEW r \in FitCombination(f)
    PROVE  r \in BRecords /\ RecordOfV2(r)
  <1>1. CASE ~EventsObservable(f)
    <2>1. r = BRecord(f, "REJECTED", Infinite, FALSE, FALSE)
      BY <1>1 DEF FitCombination
    <2> QED
      BY <2>1, CostsBounded DEF BRecord, BRecords, Statuses, RecordOfV2, Anchored
  <1>2. CASE EventsObservable(f)
    <2>1. PICK constraints \in BOOLEAN, close \in BOOLEAN, within \in BOOLEAN,
               clear \in BOOLEAN, cost \in Costs :
            r = BRecord(f, IF ~constraints THEN "ANCHORED_FIT_REJECTED"
                           ELSE IF close /\ within THEN "ANCHORED_FIT_ACCEPTED"
                           ELSE "ANCHORED_FIT_MARGINAL",
                        cost, TRUE, constraints /\ within /\ clear)
      <3> DEFINE fit(constraints, close, within, clear, cost) ==
                    BRecord(f, IF ~constraints THEN "ANCHORED_FIT_REJECTED"
                               ELSE IF close /\ within THEN "ANCHORED_FIT_ACCEPTED"
                               ELSE "ANCHORED_FIT_MARGINAL",
                            cost, TRUE, constraints /\ within /\ clear)
      <3>1. FitCombination(f) = {fit(constraints, close, within, clear, cost) :
              constraints \in BOOLEAN, close \in BOOLEAN, within \in BOOLEAN,
              clear \in BOOLEAN, cost \in Costs}
        BY <1>2 DEF FitCombination
      <3>2. \E constraints \in BOOLEAN, close \in BOOLEAN, within \in BOOLEAN,
               clear \in BOOLEAN, cost \in Costs :
              r = fit(constraints, close, within, clear, cost)
        <4> HIDE DEF fit
        <4> QED
          BY <3>1
      <3> QED
        BY <3>2
    <2> DEFINE status == IF ~constraints THEN "ANCHORED_FIT_REJECTED"
                         ELSE IF close /\ within THEN "ANCHORED_FIT_ACCEPTED"
                         ELSE "ANCHORED_FIT_MARGINAL"
               ready == constraints /\ within /\ clear
    <2>2. /\ status \in Anchored \cup {"ANCHORED_FIT_REJECTED"} /\ status \in Statuses
          /\ ready \in BOOLEAN /\ (ready => status \in Anchored)
      BY DEF Anchored, Statuses
    <2>3. r = BRecord(f, status, cost, TRUE, ready) /\ cost \in Nat
      BY <2>1, CostsBounded
    <2> HIDE DEF status, ready
    <2> QED
      BY <2>2, <2>3 DEF BRecord, BRecords, Statuses, RecordOfV2
  <1> QED
    BY <1>1, <1>2

LEMMA FitOfV1 ==
    ASSUME NEW f \in Nat, NEW r \in FitJoint(f)
    PROVE  /\ r \in BRecords
           /\ ~r.solved => r.cost = Infinite /\ r.status = "REJECTED_ERROR"
  <1>1. CASE r = BRecord(f, "REJECTED_ERROR", Infinite, FALSE, FALSE)
    BY <1>1, CostsBounded DEF BRecord, BRecords, Statuses
  <1>2. CASE r # BRecord(f, "REJECTED_ERROR", Infinite, FALSE, FALSE)
    <2>2. JointCosts(f) \subseteq Nat
      BY CostsBounded DEF JointCosts
    <2>1. PICK status \in Statuses, cost \in JointCosts(f), ready \in BOOLEAN :
            r = BRecord(f, status, cost, TRUE, ready)
      <3> DEFINE unseen == \E s \in SegmentRows(f) : s \cap bObserved = {}
                 enough(close) == Cardinality(Accepted5B(f, close)) >= Needed
                 status(success) == IF unseen \/ ~success THEN "REJECTED_PHYSICAL" ELSE "VALID"
                 ready(success, close, limits) == success /\ enough(close) /\ limits
      <3>1. PICK success \in BOOLEAN, close \in BOOLEAN, limits \in BOOLEAN,
                 cost \in JointCosts(f) :
              r = BRecord(f, status(success), cost, TRUE, ready(success, close, limits))
        <4> DEFINE fit(success, close, limits, cost) ==
                      BRecord(f, status(success), cost, TRUE, ready(success, close, limits))
        <4> DEFINE Ended == {fit(success, close, limits, cost) : success \in BOOLEAN,
                               close \in BOOLEAN, limits \in BOOLEAN, cost \in JointCosts(f)}
                   raised == BRecord(f, "REJECTED_ERROR", Infinite, FALSE, FALSE)
        <4>1. FitJoint(f) = {raised} \cup Ended
          BY DEF FitJoint
        <4>2. \E success \in BOOLEAN, close \in BOOLEAN, limits \in BOOLEAN,
                 cost \in JointCosts(f) :
                r = fit(success, close, limits, cost)
          <5>1. r # raised
            BY <1>2
          <5> HIDE DEF raised, Ended
          <5>2. r \in Ended
            BY <4>1, <5>1
          <5> HIDE DEF fit
          <5> QED
            BY <5>2 DEF Ended
        <4> QED
          BY <4>2
      <3>2. status(success) \in Statuses /\ ready(success, close, limits) \in BOOLEAN
        BY DEF Statuses
      <3> HIDE DEF status, ready
      <3> QED
        BY <3>1, <3>2
    <2>3. cost \in Nat
      BY <2>1, <2>2
    <2> QED
      BY <2>1, <2>3 DEF BRecord, BRecords
  <1> QED
    BY <1>1, <1>2

\* A fit added at the end is a record of its script.
LEMMA FitStep ==
    ASSUME SelectionInv, Fit5B
    PROVE  SelectionInv'
  <1> USE DEF SelectionInv
  <1> DEFINE n == Len(bRecords)
  <1>1. PICK r \in Fits(bRange[1] + n) : bRecords' = Append(bRecords, r)
    BY DEF Fit5B
  <1>2. /\ bVersion \in {"v1", "v2"} /\ n \in Nat /\ DOMAIN bRecords = 1..n
        /\ UNCHANGED <<bVersion, bRange, bChosen>> /\ n < Cardinality(Combinations)
    BY LenProperties DEF Fit5B, RecordsTyped
  <1>3. /\ r \in BRecords
        /\ bVersion = "v2" => RecordOfV2(r)
        /\ bVersion = "v1" =>
              IF n # 0 /\ bRecords[1].solved
              THEN ~r.solved /\ r.cost = bRecords[1].cost
              ELSE ~r.solved => r.cost = Infinite /\ r.status = "REJECTED_ERROR"
    <2> DEFINE f == bRange[1] + n
    <2>1. f \in Nat
      <3>1. bRange \in (1..(LastRow - 1)) \X (1..(LastRow - 1)) /\ LastRow \in Nat
        BY <1>2, FiveBAssumption DEF CheapestChosen
      <3> QED
        BY <1>2, <3>1
    <2> HIDE DEF f
    <2>2. CASE bVersion = "v2"
      BY <1>1, <2>1, <2>2, FitOfV2 DEF Fits, f
    <2>3. CASE bVersion = "v1" /\ ~(n # 0 /\ bRecords[1].solved)
      <3>1. ~(bRecords # <<>> /\ bRecords[1].solved)
        BY <2>3, EmptySeq DEF RecordsTyped
      <3> QED
        BY <1>1, <2>1, <2>3, <3>1, FitOfV1 DEF Fits, FitsV1, f
    <2>4. CASE bVersion = "v1" /\ n # 0 /\ bRecords[1].solved
      <3>1. bRecords # <<>> /\ bRecords[1] \in BRecords
        <4>1. 1 \in 1..n
          BY <1>2, <2>4
        <4> QED
          BY <2>4, <4>1, ElementOfSeq, EmptySeq DEF RecordsTyped
      <3>2. r = BRecord(f, "VALID", bRecords[1].cost, FALSE, FALSE)
        BY <1>1, <2>4, <3>1 DEF Fits, FitsV1, Coarse, f
      <3> QED
        BY <2>1, <2>4, <3>1, <3>2 DEF BRecord, BRecords, Statuses
    <2> QED
      BY <1>2, <2>2, <2>3, <2>4
  <1>5. /\ bRecords' \in Seq(BRecords) /\ Len(bRecords') = n + 1 /\ DOMAIN bRecords' = 1..(n + 1)
        /\ bRecords'[n + 1] = r /\ \A k \in 1..n : bRecords'[k] = bRecords[k]
    BY <1>1, <1>3, AppendProperties, LenProperties DEF RecordsTyped
  <1>4. bChosen = 0
    <2>1. Cardinality(Combinations) # n
      BY <1>2, SomeCombination DEF CheapestChosen
    <2> QED
      BY <2>1 DEF CheapestChosen
  <1> HIDE DEF n
  <1>6. RecordsTyped'
    BY <1>2, <1>5 DEF RecordsTyped
  <1>7. RecordsOfScript'
    <2>1. CASE bVersion = "v2"
      BY <1>2, <1>3, <1>5, <2>1 DEF RecordsOfScript
    <2>2. CASE bVersion = "v1"
      BY <1>2, <1>3, <1>5, <2>2 DEF RecordsOfScript, RecordOfV1
    <2> QED
      BY <1>2, <2>1, <2>2
  <1>8. CheapestChosen'
    BY <1>2, <1>4 DEF CheapestChosen
  <1> QED
    BY <1>6, <1>7, <1>8

LEMMA SelectionStep == SelectionInv /\ [B_Next]_bVars => SelectionInv'
  <1> SUFFICES ASSUME SelectionInv, [B_Next]_bVars PROVE SelectionInv'
    OBVIOUS
  <1>1. ASSUME NEW v \in {"v1", "v2"}, NEW observed, NEW range \in BRanges,
               Run5B(v, observed, range)
        PROVE  SelectionInv'
    BY <1>1 DEF SelectionInv, RecordsTyped, RecordsOfScript, CheapestChosen, Run5B
  <1>2. CASE Fit5B
    BY <1>2, FitStep
  <1>3. ASSUME NEW render \in BOOLEAN, Select5B(render)
        PROVE  SelectionInv'
    <2>1. /\ bChosen' = Cheapest(Candidates5B) /\ bVersion # "none"
          /\ Len(bRecords) = Cardinality(Combinations)
          /\ UNCHANGED <<bVersion, bRange, bRecords>>
      BY <1>3 DEF Select5B
    <2>2. DOMAIN bRecords # {}
      <3>1. Len(bRecords) \in Nat \ {0}
        BY <2>1, SomeCombination DEF SelectionInv, CheapestChosen
      <3> QED
        BY <3>1, LenProperties DEF SelectionInv, RecordsTyped
    <2>3. Cheapest(Candidates5B)' = Cheapest(Candidates5B) /\ Combinations' = Combinations
      BY <2>1 DEF Cheapest, Candidates5B, Where, Combinations
    <2> QED
      BY <2>1, <2>2, <2>3 DEF SelectionInv, RecordsTyped, RecordsOfScript, CheapestChosen
  <1>4. ASSUME UNCHANGED <<bVersion, bRange, bRecords, bChosen>>
        PROVE  SelectionInv'
    <2>1. Cheapest(Candidates5B)' = Cheapest(Candidates5B) /\ Combinations' = Combinations
      BY <1>4 DEF Cheapest, Candidates5B, Where, Combinations
    <2> QED
      BY <1>4, <2>1 DEF SelectionInv, RecordsTyped, RecordsOfScript, CheapestChosen
  <1>5. ASSUME Exit5B
        PROVE  SelectionInv'
    BY <1>5 DEF Exit5B, SelectionInv, RecordsTyped, RecordsOfScript, CheapestChosen
  <1>6. ASSUME NEW f, WriteNext(f)
        PROVE  SelectionInv'
    BY <1>4, <1>6 DEF WriteNext
  <1>7. CASE RenderExisting
    BY <1>4, <1>7 DEF RenderExisting
  <1>8. CASE UNCHANGED bVars
    BY <1>4, <1>8 DEF bVars
  <1> QED
    BY <1>1, <1>2, <1>3, <1>5, <1>6, <1>7, <1>8
       DEF B_Next, WriteSelection1, TrajectoryOutputs, RenderOutputs, ContactSheets,
           WriteReports1, EventAudit, WorldEventRows, OutputTrajectories, AuditPng,
           WriteReports2, RenderAll, Abort5B, Finish5B, Die5B

LEMMA SelectionSafe == SelectionInv => SelectionSound
  <1> SUFFICES ASSUME SelectionInv, bChosen # 0 PROVE SelectionSound
    BY DEF SelectionSound
  <1> DEFINE r == bRecords[bChosen]
             costs(i) == bRecords[i].cost
  <1>1. /\ DOMAIN bRecords = 1..Len(bRecords) /\ Len(bRecords) \in Nat
        /\ DOMAIN bRecords # {} /\ DOMAIN bRecords \subseteq Nat
        /\ \A k \in DOMAIN bRecords : costs(k) \in Nat /\ bRecords[k].solved \in BOOLEAN
        /\ bChosen = Cheapest(Candidates5B) /\ bVersion \in {"v1", "v2"}
    <2>1. /\ DOMAIN bRecords = 1..Len(bRecords) /\ Len(bRecords) \in Nat
          /\ \A k \in 1..Len(bRecords) : bRecords[k] \in BRecords
      BY LenProperties, ElementOfSeq DEF SelectionInv, RecordsTyped
    <2>2. \A k \in DOMAIN bRecords : costs(k) \in Nat /\ bRecords[k].solved \in BOOLEAN
      BY <2>1 DEF BRecords
    <2>3. bVersion \in {"v1", "v2"} /\ DOMAIN bRecords # {} /\ bChosen = Cheapest(Candidates5B)
      BY DEF SelectionInv, RecordsTyped, CheapestChosen
    <2> HIDE DEF costs
    <2> QED
      BY <2>1, <2>2, <2>3
  <1>2. Candidates5B \in SUBSET (DOMAIN bRecords) /\ Candidates5B # {}
    BY <1>1 DEF Candidates5B, Where
  <1>3. /\ bChosen \in Candidates5B /\ bChosen \in DOMAIN bRecords
        /\ \A j \in Candidates5B : costs(bChosen) < costs(j)
                                   \/ (costs(bChosen) = costs(j) /\ bChosen <= j)
    BY <1>1, <1>2, CheapestIsFirst
  <1> DEFINE valid == {k \in DOMAIN bRecords : bRecords[k].status = "VALID" /\ bRecords[k].solved}
             finite == {k \in DOMAIN bRecords : bRecords[k].cost \in Costs /\ bRecords[k].solved}
  <1>6. ASSUME bVersion = "v1", valid # {}
        PROVE  bChosen \in valid /\ \A i \in valid : costs(bChosen) <= costs(i)
    <2>1. Candidates5B = valid
      BY <1>6 DEF Candidates5B, Where
    <2>2. \A i \in valid : costs(i) \in Nat
      BY <1>1
    <2> HIDE DEF valid, costs
    <2> QED
      BY <1>3, <2>1, <2>2
  <1>4. ASSUME bVersion = "v1", NEW i \in finite
        PROVE  r.solved
    <2>1. Candidates5B = IF valid = {} THEN DOMAIN bRecords ELSE valid
      BY <1>4 DEF Candidates5B, Where
    <2>2. CASE valid # {}
      BY <1>3, <2>1, <2>2
    <2>3. CASE valid = {} /\ bRecords[1].solved
      <3>1. \A k \in DOMAIN bRecords : k # 1 => costs(k) = costs(1)
        BY <1>4, <2>3 DEF SelectionInv, RecordsOfScript, RecordOfV1
      <3>2. 1 \in DOMAIN bRecords
        BY <1>1
      <3>3. costs(bChosen) = costs(1) /\ costs(1) \in Nat
        BY <1>1, <1>3, <3>1, <3>2
      <3>4. bChosen <= 1 /\ bChosen \in 1..Len(bRecords)
        <4>1. costs(bChosen) < costs(1) \/ (costs(bChosen) = costs(1) /\ bChosen <= 1)
          BY <1>3, <2>1, <2>3, <3>2
        <4> HIDE DEF costs
        <4> QED
          BY <1>1, <1>3, <3>3, <4>1
      <3>5. bChosen = 1
        BY <1>1, <3>4
      <3> QED
        BY <2>3, <3>5
    <2>4. CASE valid = {} /\ ~bRecords[1].solved
      <3>1. \A k \in DOMAIN bRecords : ~bRecords[k].solved => costs(k) = Infinite
        BY <1>4, <2>4 DEF SelectionInv, RecordsOfScript, RecordOfV1
      <3>2. costs(bChosen) <= costs(i)
        <4>1. costs(bChosen) < costs(i) \/ costs(bChosen) = costs(i)
          BY <1>3, <1>4, <2>1, <2>4
        <4>2. costs(bChosen) \in Nat /\ costs(i) \in Nat
          BY <1>1, <1>3, <1>4
        <4> HIDE DEF costs
        <4> QED
          BY <4>1, <4>2
      <3>3. costs(i) < Infinite /\ costs(i) \in Nat /\ Infinite \in Nat
        BY <1>4, <3>1, CostsBounded
      <3>4. costs(bChosen) # Infinite
        BY <1>1, <1>3, <3>2, <3>3
      <3> QED
        BY <1>3, <3>1, <3>4
    <2> QED
      BY <2>2, <2>3, <2>4
  <1>5. ASSUME bVersion = "v2", r.ready
        PROVE  /\ r.status \in Anchored
               /\ \A i \in DOMAIN bRecords : bRecords[i].status \in Anchored => costs(bChosen) <= costs(i)
    <2>1. r.status \in Anchored
      BY <1>3, <1>5 DEF SelectionInv, RecordsOfScript, RecordOfV2
    <2>2. \A i \in DOMAIN bRecords : bRecords[i].status \in Anchored => i \in Candidates5B
      BY <1>3, <1>5 DEF Candidates5B, Where, Anchored
    <2> QED
      BY <1>1, <1>3, <2>1, <2>2
  <1> QED
    BY <1>1, <1>4, <1>5, <1>6 DEF SelectionSound, Anchored

\* Which fit is written: v1 writes the cheapest of its valid solves, and never one
\* without points when a rejected one has a finite cost; v2 never reports ready of a
\* fit that a cheaper accepted one should have replaced.
THEOREM BestFitSelected == B_Spec => []SelectionSound
  <1> QED
    BY SelectionInit, SelectionStep, SelectionSafe, PTL DEF B_Spec

-----------------------------------------------------------------------------
(* Video timing                                                            *)

\* As many frames as there are, in their order, are all of them.
LEMMA AllInOrder ==
    ASSUME NEW n \in Nat, NEW d \in Seq(1..n), Len(d) = n, StrictlyIncreasing(d)
    PROVE  \A k \in 1..n : d[k] = k
  <1>1. \A k \in 1..n : d[k] \in 1..n /\ d[k] \in Nat
    <2>1. \A k \in 1..n : d[k] \in 1..n
      BY ElementOfSeq
    <2> QED
      BY <2>1
  <1>2. \A k \in 1..n : k > 1 => k - 1 \in 1..n /\ d[k - 1] < d[k]
    <2> TAKE k \in 1..n
    <2> HAVE k > 1
    <2>1. k - 1 \in 1..(n - 1) /\ (k - 1) + 1 = k
      OBVIOUS
    <2> QED
      BY <2>1 DEF StrictlyIncreasing
  <1>3. \A k \in 1..n : d[k] >= k
    <2> DEFINE T == {k \in 1..n : d[k] < k}
    <2> SUFFICES ASSUME T # {} PROVE FALSE
      BY <1>1
    <2>1. T \in SUBSET Nat
      OBVIOUS
    <2>2. PICK k \in T : \A m \in T : k <= m
      BY <2>1, LeastNumber
    <2>3. k \in 1..n /\ d[k] < k /\ d[k] \in Nat /\ d[k] >= 1
      BY <1>1
    <2>4. k > 1
      BY <2>3
    <2>5. k - 1 \in 1..n /\ d[k - 1] < d[k] /\ d[k - 1] \in Nat
      BY <1>1, <1>2, <2>3, <2>4
    <2>6. ~(d[k - 1] < k - 1)
      <3>1. k - 1 \in T => k <= k - 1
        BY <2>2
      <3> QED
        BY <2>3, <2>5, <3>1
    <2> QED
      BY <2>3, <2>5, <2>6
  <1>4. \A k \in 1..n : d[k] <= k
    <2> DEFINE T == {j \in 0..(n - 1) : d[n - j] > n - j}
    <2> SUFFICES ASSUME T # {} PROVE FALSE
      <3>1. SUFFICES ASSUME NEW k \in 1..n, d[k] > k PROVE FALSE
        BY <1>1
      <3>2. n - k \in 0..(n - 1) /\ n - (n - k) = k
        OBVIOUS
      <3>3. n - k \in T
        BY <3>1, <3>2
      <3> QED
        BY <3>3
    <2>1. T \in SUBSET Nat
      OBVIOUS
    <2>2. PICK j \in T : \A m \in T : j <= m
      BY <2>1, LeastNumber
    <2>3. j \in 0..(n - 1) /\ n - j \in 1..n /\ d[n - j] > n - j
      OBVIOUS
    <2>4. d[n - j] \in Nat /\ d[n - j] <= n
      BY <1>1, <2>3
    <2>5. j # 0
      BY <2>3, <2>4
    <2>6. j - 1 \in 0..(n - 1) /\ n - (j - 1) = (n - j) + 1 /\ (n - j) + 1 \in 1..n
          /\ (n - j) + 1 > 1 /\ ((n - j) + 1) - 1 = n - j
      BY <2>3, <2>5
    <2>7. d[n - j] < d[(n - j) + 1] /\ d[(n - j) + 1] \in Nat
      BY <1>1, <1>2, <2>6
    <2>8. ~(d[(n - j) + 1] > (n - j) + 1)
      <3>1. j - 1 \in T => j <= j - 1
        BY <2>2
      <3> QED
        BY <2>3, <2>6, <3>1
    <2> QED
      BY <2>3, <2>4, <2>7, <2>8
  <1> QED
    BY <1>1, <1>3, <1>4

TimesOf(source) ==
    IF source = "sidecar" THEN SidecarTimes(tVideo, tManifest)
    ELSE IF source = "ffprobe" THEN ProbedTimes(tVideo)
    ELSE DecodedTimes(tVideo)

Paired(times, k) ==
    [frame |-> tVideo.decoded[k], time |-> times[k], turn |-> Turn(tVideo.size, tManifest)]
PairedUpTo(times, n) == [k \in 1..n |-> Paired(times, k)]

\* What a run pairs with the frames, and what an overlay shows: the times of its
\* source, the frames of the decoder, a turn that was possible.
TimesMatch(source, times) ==
    /\ ManifestConsistent(tManifest)
    /\ source \in {"sidecar", "ffprobe", "opencv"}
    /\ times = TimesOf(source)
    /\ source = "sidecar" => times # TNothing
    /\ Len(times) = tManifest.frames

Clips == tVideo \in TVideos /\ tManifest \in TManifests

SidecarMatches == tSidecar \in {TNothing, SidecarTimes(tVideo, tManifest)}

RunMatches ==
    /\ tRun = [pc |-> tRun.pc, source |-> tRun.source, times |-> tRun.times, shown |-> tRun.shown]
    /\ tRun.pc \in {"idle", "frames", "encode", "verify"}
    /\ tRun.pc # "idle" =>
        /\ TimesMatch(tRun.source, tRun.times)
        /\ \E n \in 0..Len(tVideo.decoded) :
            /\ tRun.shown = PairedUpTo(tRun.times, n)
            /\ tRun.pc # "frames" => n = Len(tVideo.decoded) /\ n = tManifest.frames

OverlayMatches ==
    tOverlay # TNothing \/ tRun.pc = "verify" =>
        /\ tOverlay = [frames |-> tOverlay.frames, verified |-> tOverlay.verified,
                       source |-> tOverlay.source, shown |-> tOverlay.shown]
        /\ TimesMatch(tOverlay.source, TimesOf(tOverlay.source))
        /\ Len(tVideo.decoded) = tManifest.frames
        /\ tOverlay.shown = PairedUpTo(TimesOf(tOverlay.source), tManifest.frames)

TimingInv == Clips /\ SidecarMatches /\ RunMatches /\ OverlayMatches

\* The lists the runs are made of.
LEMMA PairedLonger ==
    ASSUME NEW times, NEW n \in Nat
    PROVE  /\ Len(PairedUpTo(times, n)) = n
           /\ Append(PairedUpTo(times, n), Paired(times, n + 1)) = PairedUpTo(times, n + 1)
  <1> DEFINE S == {Paired(times, k) : k \in 1..(n + 1)}
             s == PairedUpTo(times, n)
             t == PairedUpTo(times, n + 1)
  <1>1. s \in [1..n -> S] /\ t \in [1..(n + 1) -> S] /\ Paired(times, n + 1) \in S
    <2>1. \A k \in 1..n : k \in 1..(n + 1)
      OBVIOUS
    <2>2. n + 1 \in 1..(n + 1)
      OBVIOUS
    <2> QED
      BY <2>1, <2>2 DEF PairedUpTo
  <1>2. \A k \in 1..n : s[k] = Paired(times, k)
    BY DEF PairedUpTo
  <1>3. \A k \in 1..(n + 1) : t[k] = Paired(times, k)
    BY DEF PairedUpTo
  <1> HIDE DEF S, s, t
  <1>4. s \in Seq(S) /\ t \in Seq(S)
    <2>1. n + 1 \in Nat
      OBVIOUS
    <2> QED
      BY <1>1, <2>1, SeqDef
  <1>5. Len(s) = n /\ Len(t) = n + 1
    <2>1. DOMAIN s = 1..n /\ DOMAIN s = 1..Len(s) /\ Len(s) \in Nat
      BY <1>1, <1>4, LenProperties
    <2>2. DOMAIN t = 1..(n + 1) /\ DOMAIN t = 1..Len(t) /\ Len(t) \in Nat
      BY <1>1, <1>4, LenProperties
    <2> QED
      BY <2>1, <2>2
  <1>6. Append(s, Paired(times, n + 1)) = t
    <2> DEFINE a == Append(s, Paired(times, n + 1))
    <2>1. /\ a \in Seq(S) /\ Len(a) = n + 1 /\ a[n + 1] = Paired(times, n + 1)
          /\ \A i \in 1..n : a[i] = s[i]
      BY <1>1, <1>4, <1>5, AppendProperties
    <2> HIDE DEF a
    <2>2. \A i \in 1..(n + 1) : a[i] = t[i]
      BY <1>2, <1>3, <2>1
    <2>3. a = t
      BY <1>4, <1>5, <2>1, <2>2, SeqEqual
    <2> QED
      BY <2>3 DEF a
  <1> QED
    BY <1>5, <1>6 DEF s, t

LEMMA TimingInit == T_Init => TimingInv
  <1> SUFFICES ASSUME T_Init PROVE TimingInv
    OBVIOUS
  <1>1. /\ tVideo \in TVideos /\ tManifest \in TManifests /\ tSidecar = TNothing
        /\ tRun = [pc |-> "idle", source |-> "", times |-> <<>>, shown |-> <<>>]
        /\ tOverlay = TNothing
    BY DEF T_Init, TIdle
  <1>2. tRun.pc = "idle" /\ tRun.source = "" /\ tRun.times = <<>> /\ tRun.shown = <<>>
    BY <1>1
  <1> QED
    BY <1>1, <1>2 DEF TimingInv, Clips, SidecarMatches, RunMatches, OverlayMatches

\* A run that is given up, and the overlays of earlier ones that stay.
LEMMA RunGivenUp ==
    ASSUME tRun' = TIdle
    PROVE  RunMatches' /\ tRun'.pc = "idle"
  <1>1. TIdle = [pc |-> TIdle.pc, source |-> TIdle.source, times |-> TIdle.times,
                 shown |-> TIdle.shown] /\ TIdle.pc = "idle"
    BY DEF TIdle
  <1>2. tRun'.pc = "idle" /\ tRun' = [pc |-> tRun'.pc, source |-> tRun'.source,
                                      times |-> tRun'.times, shown |-> tRun'.shown]
    BY <1>1
  <1> QED
    BY <1>1, <1>2 DEF RunMatches

LEMMA ClipStays ==
    ASSUME UNCHANGED <<tVideo, tManifest>>
    PROVE  /\ \A source : TimesOf(source)' = TimesOf(source)
           /\ \A source, times : TimesMatch(source, times)' = TimesMatch(source, times)
           /\ \A times, n : PairedUpTo(times, n)' = PairedUpTo(times, n)
  <1>1. \A source : TimesOf(source)' = TimesOf(source)
    BY DEF TimesOf
  <1>2. \A source, times : TimesMatch(source, times)' = TimesMatch(source, times)
    BY DEF TimesMatch, TimesOf
  <1>3. \A times, n : PairedUpTo(times, n)' = PairedUpTo(times, n)
    BY DEF PairedUpTo, Paired
  <1> QED
    BY <1>1, <1>2, <1>3

LEMMA OverlayStays ==
    ASSUME TimingInv, UNCHANGED <<tVideo, tManifest, tOverlay>>, tRun'.pc # "verify"
    PROVE  OverlayMatches'
  BY ClipStays DEF TimingInv, OverlayMatches

LEMMA StartedRun ==
    ASSUME TimingInv, NEW source \in {"sidecar", "ffprobe", "opencv"},
           StartOverlay(source, TimesOf(source)),
           source = "sidecar" => TimesOf(source) # TNothing
    PROVE  RunMatches' /\ OverlayMatches'
  <1> DEFINE times == TimesOf(source)
  <1>1. /\ tRun' = [pc |-> "frames", source |-> source, times |-> times, shown |-> <<>>]
        /\ ManifestConsistent(tManifest) /\ Len(times) = tManifest.frames
        /\ UNCHANGED <<tVideo, tManifest, tOverlay>>
    BY DEF StartOverlay, TimesValid
  <1> HIDE DEF times
  <1>2. tRun'.pc = "frames" /\ tRun'.source = source /\ tRun'.times = times /\ tRun'.shown = <<>>
    BY <1>1
  <1>3. TimesMatch(source, times)
    BY <1>1 DEF TimesMatch, times
  <1>4. <<>> = PairedUpTo(times, 0) /\ 0 \in 0..Len(tVideo.decoded)
    <2>1. <<>> = PairedUpTo(times, 0)
      BY DEF PairedUpTo
    <2>2. Len(tVideo.decoded) \in Nat
      BY TimingAssumption, LenProperties DEF TimingInv, Clips
    <2> QED
      BY <2>1, <2>2
  <1>5. RunMatches'
    BY <1>1, <1>2, <1>3, <1>4, ClipStays DEF RunMatches
  <1> QED
    BY <1>1, <1>2, <1>5, OverlayStays

LEMMA DrawnFrame ==
    ASSUME TimingInv, DrawFrame
    PROVE  RunMatches' /\ OverlayMatches'
  <1> DEFINE k == Len(tRun.shown) + 1
             longer == Append(tRun.shown, [frame |-> tVideo.decoded[k], time |-> tRun.times[k],
                                           turn |-> Turn(tVideo.size, tManifest)])
  <1>1. /\ tRun.pc = "frames" /\ k <= Len(tVideo.decoded)
        /\ UNCHANGED <<tVideo, tManifest, tOverlay>>
        /\ tRun' = TIdle \/ tRun' = [tRun EXCEPT !.shown = longer]
    BY DEF DrawFrame
  <1>2. CASE tRun' = TIdle
    BY <1>1, <1>2, RunGivenUp, OverlayStays
  <1>3. CASE tRun' = [tRun EXCEPT !.shown = longer]
    <2>1. PICK n \in 0..Len(tVideo.decoded) : tRun.shown = PairedUpTo(tRun.times, n)
      BY <1>1 DEF TimingInv, RunMatches
    <2>2. k = n + 1 /\ n \in Nat
      BY <2>1, PairedLonger
    <2>3. longer = PairedUpTo(tRun.times, n + 1)
      BY <2>1, <2>2, PairedLonger DEF Paired
    <2>4. n + 1 \in 0..Len(tVideo.decoded)
      <3>1. Len(tVideo.decoded) \in Nat
        BY TimingAssumption, LenProperties DEF TimingInv, Clips
      <3> HIDE DEF k
      <3> QED
        BY <1>1, <2>2, <3>1
    <2> HIDE DEF k, longer
    <2>5. tRun' = [pc |-> "frames", source |-> tRun.source, times |-> tRun.times, shown |-> longer]
      <3>1. tRun = [pc |-> tRun.pc, source |-> tRun.source, times |-> tRun.times, shown |-> tRun.shown]
        BY DEF TimingInv, RunMatches
      <3> QED
        BY <1>1, <1>3, <3>1
    <2>6. tRun'.pc = "frames" /\ tRun'.source = tRun.source /\ tRun'.times = tRun.times
          /\ tRun'.shown = longer
      BY <2>5
    <2>7. RunMatches'
      BY <1>1, <2>3, <2>4, <2>5, <2>6, ClipStays DEF TimingInv, RunMatches
    <2> QED
      BY <1>1, <2>6, <2>7, OverlayStays
  <1> QED
    BY <1>1, <1>2, <1>3

LEMMA EndedFrames ==
    ASSUME TimingInv, EndFrames
    PROVE  RunMatches' /\ OverlayMatches'
  <1>1. /\ tRun.pc = "frames" /\ Len(tRun.shown) = Len(tVideo.decoded)
        /\ UNCHANGED <<tVideo, tManifest, tOverlay>>
        /\ \/ tRun' = TIdle
           \/ tRun' = [tRun EXCEPT !.pc = "encode"] /\ Len(tRun.shown) = tManifest.frames
    BY DEF EndFrames
  <1>2. CASE tRun' = TIdle
    BY <1>1, <1>2, RunGivenUp, OverlayStays
  <1>3. CASE tRun' = [tRun EXCEPT !.pc = "encode"] /\ Len(tRun.shown) = tManifest.frames
    <2>1. PICK n \in 0..Len(tVideo.decoded) : tRun.shown = PairedUpTo(tRun.times, n)
      BY <1>1 DEF TimingInv, RunMatches
    <2>2. Len(tRun.shown) = n /\ n = Len(tVideo.decoded) /\ n = tManifest.frames
      BY <1>1, <1>3, <2>1, PairedLonger
    <2>3. tRun' = [pc |-> "encode", source |-> tRun.source, times |-> tRun.times, shown |-> tRun.shown]
      <3>1. tRun = [pc |-> tRun.pc, source |-> tRun.source, times |-> tRun.times, shown |-> tRun.shown]
        BY DEF TimingInv, RunMatches
      <3> QED
        BY <1>3, <3>1
    <2>4. tRun'.pc = "encode" /\ tRun'.source = tRun.source /\ tRun'.times = tRun.times
          /\ tRun'.shown = tRun.shown
      BY <2>3
    <2>5. RunMatches'
      BY <1>1, <2>1, <2>2, <2>3, <2>4, ClipStays DEF TimingInv, RunMatches
    <2> QED
      BY <1>1, <2>4, <2>5, OverlayStays
  <1> QED
    BY <1>1, <1>2, <1>3

LEMMA EncodedOverlay ==
    ASSUME TimingInv, NEW lost \in {0, 1}, EncodeOverlay(lost)
    PROVE  RunMatches' /\ OverlayMatches'
  <1>1. /\ tRun.pc = "encode" /\ UNCHANGED <<tVideo, tManifest>>
        /\ tRun' = [tRun EXCEPT !.pc = "verify"]
    BY DEF EncodeOverlay
  <1>2. PICK frames : tOverlay' = [frames |-> frames, verified |-> FALSE,
                                   source |-> tRun.source, shown |-> tRun.shown]
    BY DEF EncodeOverlay
  <1>3. /\ TimesMatch(tRun.source, tRun.times) /\ Len(tVideo.decoded) = tManifest.frames
        /\ Len(tVideo.decoded) \in 0..Len(tVideo.decoded)
        /\ tRun.shown = PairedUpTo(tRun.times, tManifest.frames)
    BY <1>1 DEF TimingInv, RunMatches
  <1>4. tRun' = [pc |-> "verify", source |-> tRun.source, times |-> tRun.times, shown |-> tRun.shown]
    <2>1. tRun = [pc |-> tRun.pc, source |-> tRun.source, times |-> tRun.times, shown |-> tRun.shown]
      BY DEF TimingInv, RunMatches
    <2> QED
      BY <1>1, <2>1
  <1>5. tRun'.pc = "verify" /\ tRun'.source = tRun.source /\ tRun'.times = tRun.times
        /\ tRun'.shown = tRun.shown
    BY <1>4
  <1>6. RunMatches'
    BY <1>1, <1>3, <1>4, <1>5, ClipStays DEF RunMatches
  <1>7. /\ tOverlay'.frames = frames /\ tOverlay'.verified = FALSE
        /\ tOverlay'.source = tRun.source /\ tOverlay'.shown = tRun.shown
    BY <1>2
  <1>8. tRun.times = TimesOf(tRun.source)
    BY <1>3 DEF TimesMatch
  <1>9. OverlayMatches'
    BY <1>1, <1>2, <1>3, <1>7, <1>8, ClipStays DEF OverlayMatches
  <1> QED
    BY <1>6, <1>9

LEMMA VerifiedOverlay ==
    ASSUME TimingInv, VerifyOverlay
    PROVE  RunMatches' /\ OverlayMatches'
  <1>1. /\ tRun.pc = "verify" /\ UNCHANGED <<tVideo, tManifest>> /\ tRun' = TIdle
    BY DEF VerifyOverlay
  <1>2. PICK verified : tOverlay' = [tOverlay EXCEPT !.verified = verified]
    BY DEF VerifyOverlay
  <1>3. tOverlay = [frames |-> tOverlay.frames, verified |-> tOverlay.verified,
                    source |-> tOverlay.source, shown |-> tOverlay.shown]
    BY <1>1 DEF TimingInv, OverlayMatches
  <1>4. tOverlay' = [frames |-> tOverlay.frames, verified |-> verified,
                     source |-> tOverlay.source, shown |-> tOverlay.shown]
    BY <1>2, <1>3
  <1>5. /\ tOverlay'.frames = tOverlay.frames /\ tOverlay'.verified = verified
        /\ tOverlay'.source = tOverlay.source /\ tOverlay'.shown = tOverlay.shown
    BY <1>4
  <1>6. OverlayMatches'
    BY <1>1, <1>4, <1>5, ClipStays DEF TimingInv, OverlayMatches
  <1> QED
    BY <1>1, <1>6, RunGivenUp

LEMMA TimingStep == TimingInv /\ [T_Next]_tVars => TimingInv'
  <1> SUFFICES ASSUME TimingInv, [T_Next]_tVars PROVE TimingInv'
    OBVIOUS
  <1>1. UNCHANGED <<tVideo, tManifest>>
    BY DEF T_Next, tVars, GenerateSidecar, StartWithSidecar, StartWithProbe, StartWithOpenCV,
           StartOverlay, DrawFrame, EndFrames, EncodeOverlay, VerifyOverlay
  <1>2. Clips'
    BY <1>1 DEF TimingInv, Clips
  <1>3. SidecarMatches'
    <2>1. tSidecar' \in {tSidecar, SidecarTimes(tVideo, tManifest)}
      BY DEF T_Next, tVars, GenerateSidecar, StartWithSidecar, StartWithProbe, StartWithOpenCV,
             StartOverlay, DrawFrame, EndFrames, EncodeOverlay, VerifyOverlay
    <2> QED
      BY <1>1, <2>1 DEF TimingInv, SidecarMatches
  <1>4. CASE StartWithSidecar
    <2>1. tSidecar = TimesOf("sidecar") /\ tSidecar # TNothing
      BY <1>4 DEF TimingInv, SidecarMatches, StartWithSidecar, TimesOf
    <2>2. RunMatches' /\ OverlayMatches'
      BY <1>4, <2>1, StartedRun DEF StartWithSidecar
    <2> QED
      BY <1>2, <1>3, <2>2 DEF TimingInv
  <1>5. CASE StartWithProbe
    <2>1. ProbedTimes(tVideo) = TimesOf("ffprobe")
      BY DEF TimesOf
    <2>2. RunMatches' /\ OverlayMatches'
      BY <1>5, <2>1, StartedRun DEF StartWithProbe
    <2> QED
      BY <1>2, <1>3, <2>2 DEF TimingInv
  <1>6. CASE StartWithOpenCV
    <2>1. DecodedTimes(tVideo) = TimesOf("opencv")
      BY DEF TimesOf
    <2>2. RunMatches' /\ OverlayMatches'
      BY <1>6, <2>1, StartedRun DEF StartWithOpenCV
    <2> QED
      BY <1>2, <1>3, <2>2 DEF TimingInv
  <1>7. CASE DrawFrame
    BY <1>2, <1>3, <1>7, DrawnFrame DEF TimingInv
  <1>8. CASE EndFrames
    BY <1>2, <1>3, <1>8, EndedFrames DEF TimingInv
  <1>9. ASSUME NEW lost \in {0, 1}, EncodeOverlay(lost)
        PROVE  TimingInv'
    BY <1>2, <1>3, <1>9, EncodedOverlay DEF TimingInv
  <1>10. CASE VerifyOverlay
    BY <1>2, <1>3, <1>10, VerifiedOverlay DEF TimingInv
  <1>11. CASE UNCHANGED <<tRun, tOverlay>>
    <2>1. RunMatches' /\ OverlayMatches'
      BY <1>1, <1>11, ClipStays DEF TimingInv, RunMatches, OverlayMatches
    <2> QED
      BY <1>2, <1>3, <2>1 DEF TimingInv
  <1> QED
    BY <1>4, <1>5, <1>6, <1>7, <1>8, <1>9, <1>10, <1>11 DEF T_Next, tVars, GenerateSidecar

\* Only with all its frames known to ffprobe is the k-th time the one of the k-th
\* frame shown: the sidecar requires it, and ends with as many frames as times.
LEMMA ShownTimes ==
    ASSUME Clips, NEW source, TimesMatch(source, TimesOf(source)),
           Len(tVideo.decoded) = tManifest.frames,
           source \in {"ffprobe", "opencv"} => NA \notin Range(tVideo.pts),
           NEW k \in 1..tManifest.frames
    PROVE  /\ 1 \in 1..tManifest.frames
           /\ NA \notin {tVideo.pts[tVideo.decoded[k]], tVideo.pts[tVideo.decoded[1]]}
           /\ TimesOf(source)[k] - TimesOf(source)[1]
                 = tVideo.pts[tVideo.decoded[k]] - tVideo.pts[tVideo.decoded[1]]
  <1> DEFINE n == tManifest.frames
             pts == tVideo.pts
             d == tVideo.decoded
             times == TimesOf(source)
  <1>1. /\ n \in Nat /\ pts \in Seq(Int \cup {NA}) /\ d \in Seq(DOMAIN pts) /\ Len(d) = n
        /\ StrictlyIncreasing(d) /\ NA \notin Int /\ Len(times) = n
        /\ DOMAIN pts = 1..Len(pts)
    BY TimingAssumption, LenProperties DEF Clips, TimesMatch
  <1>2. 1 \in 1..n /\ k \in 1..n
    BY <1>1
  <1>3. d[1] \in DOMAIN pts /\ d[k] \in DOMAIN pts
    BY <1>1, <1>2, ElementOfSeq
  <1>4. \A i \in DOMAIN pts : pts[i] \in Int \cup {NA}
    BY <1>1, ElementOfSeq
  <1>5. NA \notin Range(pts)
    <2>1. CASE source = "sidecar"
      BY <2>1 DEF TimesMatch, TimesOf, SidecarTimes
    <2> QED
      BY <2>1 DEF TimesMatch
  <1>6. \A i \in DOMAIN pts : pts[i] \in Int /\ pts[i] # NA
    BY <1>4, <1>5 DEF Range
  <1>7. CASE source = "opencv"
    <2> DEFINE seen == [i \in DOMAIN d |-> IF pts[d[i]] = NA THEN d[i] ELSE pts[d[i]]]
    <2>1. DOMAIN d = 1..n
      BY <1>1, LenProperties
    <2>2. seen[1] = pts[d[1]] /\ seen[k] = pts[d[k]] /\ 1 \in DOMAIN seen /\ k \in DOMAIN seen
      BY <1>2, <1>3, <1>6, <2>1
    <2>3. times = FromOrigin(seen)
      BY <1>7 DEF TimesOf, DecodedTimes
    <2> HIDE DEF seen
    <2>4. times[1] = pts[d[1]] - pts[d[1]] /\ times[k] = pts[d[k]] - pts[d[1]]
      BY <2>2, <2>3 DEF FromOrigin
    <2>5. pts[d[1]] \in Int /\ pts[d[k]] \in Int /\ pts[d[1]] # NA /\ pts[d[k]] # NA
      BY <1>3, <1>6
    <2>6. times[k] - times[1] = pts[d[k]] - pts[d[1]]
      <3> DEFINE a == pts[d[1]]
                 b == pts[d[k]]
      <3>1. a \in Int /\ b \in Int /\ times[1] = a - a /\ times[k] = b - a
        BY <2>4, <2>5
      <3> HIDE DEF a, b, times
      <3>2. times[k] - times[1] = b - a
        BY <3>1
      <3> QED
        BY <3>2 DEF a, b
    <2> QED
      BY <1>2, <2>5, <2>6
  <1>8. CASE source \in {"sidecar", "ffprobe"}
    <2>1. times = FromOrigin(pts)
      <3>1. CASE source = "sidecar"
        BY <3>1 DEF TimesMatch, TimesOf, SidecarTimes
      <3>2. CASE source = "ffprobe"
        <4>1. times = IF pts # <<>> THEN FromOrigin(pts) ELSE <<>>
          BY <1>5, <3>2 DEF TimesOf, ProbedTimes
        <4>2. pts # <<>>
          BY <1>3
        <4> QED
          BY <4>1, <4>2
      <3> QED
        BY <1>8, <3>1, <3>2
    <2>2. DOMAIN times = 1..Len(pts) /\ Len(pts) \in Nat
      BY <1>1, <2>1, LenProperties DEF FromOrigin
    <2>3. Len(pts) = n
      <3>1. times \in Seq(Int)
        <4>1. \A i \in 1..Len(pts) : times[i] \in Int
          <5>1. 1 \in DOMAIN pts
            BY <1>1, <1>3
          <5>2. \A i \in 1..Len(pts) : times[i] = pts[i] - pts[1] /\ pts[i] \in Int /\ pts[1] \in Int
            BY <1>1, <1>6, <2>1, <5>1 DEF FromOrigin
          <5> HIDE DEF times, pts
          <5> QED
            BY <5>2
        <4>2. times \in [1..Len(pts) -> Int]
          <5>1. times = [i \in 1..Len(pts) |-> times[i]]
            BY <1>1, <2>1 DEF FromOrigin
          <5> HIDE DEF times, pts
          <5> QED
            BY <4>1, <5>1
        <4> HIDE DEF times, pts
        <4> QED
          BY <2>2, <4>2, SeqDef
      <3>2. DOMAIN times = 1..Len(times)
        BY <3>1, LenProperties
      <3> DEFINE len == Len(pts)
      <3>3. len \in Nat /\ n \in Nat /\ 1..len = 1..n
        BY <1>1, <2>2, <3>2
      <3>4. len = n
        <4> HIDE DEF len, n
        <4> QED
          BY <3>3
      <3> QED
        BY <3>4
    <2>4. d[1] = 1 /\ d[k] = k
      <3>1. d \in Seq(1..n)
        BY <1>1, <2>3
      <3> HIDE DEF d, n
      <3> QED
        BY <1>1, <1>2, <3>1, AllInOrder
    <2>5. times[1] = pts[1] - pts[1] /\ times[k] = pts[k] - pts[1]
      BY <1>3, <2>1, <2>4 DEF FromOrigin
    <2>6. pts[1] \in Int /\ pts[k] \in Int /\ pts[1] # NA /\ pts[k] # NA
      BY <1>3, <1>6, <2>4
    <2>7. times[k] - times[1] = pts[k] - pts[1]
      <3> DEFINE a == pts[1]
                 b == pts[k]
      <3>1. a \in Int /\ b \in Int /\ times[1] = a - a /\ times[k] = b - a
        BY <2>5, <2>6
      <3> HIDE DEF a, b, times
      <3>2. times[k] - times[1] = b - a
        BY <3>1
      <3> QED
        BY <3>2 DEF a, b
    <2> QED
      BY <1>2, <2>4, <2>6, <2>7
  <1> QED
    BY <1>7, <1>8 DEF TimesMatch

\* A frame of the decoded space is turned exactly if the points are moved.
LEMMA TurnedAsMoved ==
    ASSUME tManifest \in TManifests, ManifestConsistent(tManifest),
           tVideo.size = tManifest.decoded, tManifest.decoded[1] # tManifest.decoded[2]
    PROVE  (Turn(tVideo.size, tManifest) = "turned")
              <=> (\E p \in (0..(tManifest.decoded[1] - 1)) \X (0..(tManifest.decoded[2] - 1)) :
                      CanonicalPoint(p, tManifest) # p)
  <1> DEFINE m == tManifest
             w == m.decoded[1]
             h == m.decoded[2]
  <1>1. /\ m.decoded \in Sizes /\ m.transform \in {"none", "rotate_90_ccw"}
        /\ m.canonical = IF m.transform = "none" THEN m.decoded ELSE Swapped(m.decoded)
    BY TimingAssumption DEF ManifestConsistent
  <1>2. w \in Nat \ {0} /\ h \in Nat \ {0} /\ w # h
    BY <1>1 DEF Sizes
  <1>3. CASE m.transform = "none"
    BY <1>1, <1>3 DEF Turn, CanonicalPoint
  <1>4. CASE m.transform = "rotate_90_ccw"
    <2>1. Swapped(m.decoded) # m.decoded
      BY <1>1, <1>2 DEF Swapped
    <2>2. Turn(tVideo.size, m) = "turned"
      BY <1>1, <1>4, <2>1 DEF Turn
    <2>3. \A p \in (0..(w - 1)) \X (0..(h - 1)) : CanonicalPoint(p, m) = <<p[2], (w - 1) - p[1]>>
      BY <1>4 DEF CanonicalPoint
    <2>4. CASE w # 1
      <3>1. <<0, 0>> \in (0..(w - 1)) \X (0..(h - 1)) /\ (w - 1) - 0 # 0
        BY <1>2, <2>4
      <3>2. CanonicalPoint(<<0, 0>>, m) = <<0, (w - 1) - 0>> /\ <<0, 0>>[2] # <<0, (w - 1) - 0>>[2]
        BY <2>3, <3>1
      <3>3. <<0, 0>> # <<0, (w - 1) - 0>>
        BY <3>2
      <3>4. \E p \in (0..(w - 1)) \X (0..(h - 1)) : CanonicalPoint(p, m) # p
        BY <3>1, <3>2, <3>3
      <3> QED
        BY <2>2, <3>4
    <2>5. CASE w = 1
      <3>1. <<0, 1>> \in (0..(w - 1)) \X (0..(h - 1))
        BY <1>2, <2>5
      <3>2. CanonicalPoint(<<0, 1>>, m) = <<1, (w - 1) - 0>> /\ <<0, 1>>[1] # <<1, (w - 1) - 0>>[1]
        BY <2>3, <3>1
      <3>3. <<0, 1>> # <<1, (w - 1) - 0>>
        BY <3>2
      <3>4. \E p \in (0..(w - 1)) \X (0..(h - 1)) : CanonicalPoint(p, m) # p
        BY <3>1, <3>2, <3>3
      <3> QED
        BY <2>2, <3>4
    <2> QED
      BY <2>4, <2>5
  <1> QED
    BY <1>1, <1>3, <1>4

LEMMA TimingSafe == TimingInv => FramesAtTheirTimes
  <1> SUFFICES ASSUME TimingInv, tOverlay # TNothing PROVE FramesAtTheirTimes
    BY DEF FramesAtTheirTimes
  <1> DEFINE n == tManifest.frames
             source == tOverlay.source
             shown == tOverlay.shown
  <1>1. /\ Clips /\ TimesMatch(source, TimesOf(source)) /\ Len(tVideo.decoded) = n
        /\ shown = PairedUpTo(TimesOf(source), n)
    BY DEF TimingInv, OverlayMatches
  <1>2. DOMAIN shown = 1..n /\ \A k \in 1..n : shown[k] = Paired(TimesOf(source), k)
    BY <1>1 DEF PairedUpTo
  <1>3. \A k \in 1..n : /\ shown[k].frame = tVideo.decoded[k]
                        /\ shown[k].time = TimesOf(source)[k]
                        /\ shown[k].turn = Turn(tVideo.size, tManifest)
    <2>1. \A k \in 1..n : shown[k] = [frame |-> tVideo.decoded[k], time |-> TimesOf(source)[k],
                                      turn |-> Turn(tVideo.size, tManifest)]
      BY <1>2 DEF Paired
    <2> TAKE k \in 1..n
    <2> DEFINE frame == tVideo.decoded[k]
               time == TimesOf(source)[k]
               turn == Turn(tVideo.size, tManifest)
    <2>2. shown[k] = [frame |-> frame, time |-> time, turn |-> turn]
      BY <2>1
    <2> HIDE DEF shown, frame, time, turn
    <2>3. shown[k].frame = frame /\ shown[k].time = time /\ shown[k].turn = turn
      BY <2>2
    <2> QED
      BY <2>3 DEF frame, time, turn
  <1>4. ASSUME source \in {"ffprobe", "opencv"} => NA \notin Range(tVideo.pts),
               NEW k \in DOMAIN shown
        PROVE  /\ NA \notin {tVideo.pts[shown[k].frame], tVideo.pts[shown[1].frame]}
               /\ shown[k].time - shown[1].time
                     = tVideo.pts[shown[k].frame] - tVideo.pts[shown[1].frame]
    BY <1>1, <1>2, <1>3, <1>4, ShownTimes
  <1>5. ASSUME tVideo.size = tManifest.decoded, tManifest.decoded[1] # tManifest.decoded[2],
               NEW k \in DOMAIN shown
        PROVE  (shown[k].turn = "turned")
                  <=> (\E p \in (0..(tManifest.decoded[1] - 1)) \X (0..(tManifest.decoded[2] - 1)) :
                          CanonicalPoint(p, tManifest) # p)
    BY <1>1, <1>2, <1>3, <1>5, TurnedAsMoved DEF Clips, TimesMatch
  <1> QED
    BY <1>4, <1>5 DEF FramesAtTheirTimes

\* Overlays show every frame at its own presentation time, and turned exactly as the
\* points drawn on them.
THEOREM OverlaysOnTime == T_Spec => []FramesAtTheirTimes
  <1> QED
    BY TimingInit, TimingStep, TimingSafe, PTL DEF T_Spec

=============================================================================
