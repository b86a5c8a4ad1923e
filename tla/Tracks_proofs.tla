--------------------------- MODULE Tracks_proofs ----------------------------
(***************************************************************************)
(* Theorems about the tracks of ball and players.  The smoothing of the    *)
(* ball's trajectory: which points two passes over rows they change leave, *)
(* and that the report counts the gaps of what was written.  The players:  *)
(* that a track is one thing followed, and that the selection keeps its    *)
(* players.  For clips of any length and all limits.                       *)
(***************************************************************************)
EXTENDS TrajectorySmoothing, PlayerTracks, Stages_proofs

-----------------------------------------------------------------------------
(* Trajectory smoothing                                                    *)

\* What is computed from one number to the next exists up to every number.
FollowsSteps(g, n, base, step) ==
    \A k \in 0..n : g[k] = IF k = 0 THEN base ELSE step[<<g[k - 1], k>>]

LEMMA StepByStep ==
    ASSUME NEW S, NEW n \in Nat, NEW base \in S, NEW step \in [S \X (1..n) -> S]
    PROVE  \E g \in [0..n -> S] : FollowsSteps(g, n, base, step)
  <1> USE DEF FollowsSteps
  <1> DEFINE Reaches(m) == \E g \in [0..m -> S] :
                 \A k \in 0..m : g[k] = IF k = 0 THEN base ELSE step[<<g[k - 1], k>>]
             T == {m \in 0..n : ~Reaches(m)}
  <1> SUFFICES ASSUME T # {} PROVE FALSE
    <2>1. n \in 0..n
      OBVIOUS
    <2> QED
      BY <2>1
  <1>1. PICK m \in T : \A j \in T : m <= j
    <2>1. T \in SUBSET Nat
      OBVIOUS
    <2> HIDE DEF T
    <2> QED
      BY <2>1, LeastNumber
  <1>2. m \in 0..n /\ ~Reaches(m)
    OBVIOUS
  <1>3. m # 0
    <2> SUFFICES ASSUME m = 0 PROVE Reaches(m)
      BY <1>2
    <2> DEFINE g == [k \in 0..0 |-> base]
    <2>1. g \in [0..m -> S] /\ \A k \in 0..m : k = 0 /\ g[k] = base
      OBVIOUS
    <2> HIDE DEF g
    <2> QED
      BY <2>1
  <1>4. m - 1 \in 0..n /\ m - 1 < m
    BY <1>2, <1>3
  <1>5. Reaches(m - 1)
    <2>1. m - 1 \in T => m <= m - 1
      BY <1>1
    <2> HIDE DEF Reaches
    <2> QED
      BY <1>2, <1>4, <2>1
  <1>6. PICK g \in [0..(m - 1) -> S] :
          \A k \in 0..(m - 1) : g[k] = IF k = 0 THEN base ELSE step[<<g[k - 1], k>>]
    BY <1>5
  <1> DEFINE h == [k \in 0..m |-> IF k = m THEN step[<<g[m - 1], m>>] ELSE g[k]]
  <1>7. g[m - 1] \in S /\ <<g[m - 1], m>> \in S \X (1..n)
    <2>1. m - 1 \in 0..(m - 1) /\ m \in 1..n
      BY <1>2, <1>3
    <2> QED
      BY <2>1
  <1>8. h \in [0..m -> S]
    <2>1. step[<<g[m - 1], m>>] \in S
      BY <1>7
    <2>2. \A k \in 0..m : k = m \/ k \in 0..(m - 1)
      BY <1>2, <1>3
    <2> QED
      BY <2>1, <2>2
  <1>9. \A k \in 0..m : h[k] = IF k = 0 THEN base ELSE step[<<h[k - 1], k>>]
    <2> TAKE k \in 0..m
    <2>1. CASE k = m
      <3>1. m - 1 \in 0..m /\ m - 1 # m
        BY <1>2, <1>3
      <3>2. h[m - 1] = g[m - 1] /\ h[m] = step[<<g[m - 1], m>>]
        BY <1>2, <3>1
      <3> HIDE DEF h
      <3> QED
        BY <1>3, <2>1, <3>2
    <2>2. CASE k # m
      <3>1. k \in 0..(m - 1) /\ (k = 0 \/ (k - 1 \in 0..m /\ k - 1 # m))
        BY <1>2, <2>2
      <3>2. h[k] = g[k] /\ (k = 0 \/ h[k - 1] = g[k - 1])
        BY <2>2, <3>1
      <3> HIDE DEF h
      <3> QED
        BY <1>6, <3>1, <3>2
    <2> QED
      BY <2>1, <2>2
  <1>10. Reaches(m)
    <2> HIDE DEF h
    <2> QED
      BY <1>8, <1>9
  <1> QED
    BY <1>2, <1>10

Count == Len(xRaw.rows)
Begin == Classified(xRaw)

\* What the passes leave: of each row itself, or a rejected one if it was detected.
Subtracks ==
    {rows \in [1..Count -> {Begin[i] : i \in 1..Count} \cup {Lost(Begin[i]) : i \in 1..Count}] :
        \A i \in 1..Count : \/ rows[i] = Begin[i]
                            \/ Begin[i].source = "detected" /\ rows[i] = Lost(Begin[i])}

\* The rows before the passes: a point exactly where one is detected, later frames at
\* later times.
LEMMA BeginRows ==
    ASSUME xRaw \in RawTracks
    PROVE  /\ Count \in Nat /\ DOMAIN Begin = 1..Count
           /\ \A i \in 1..Count :
                 /\ Begin[i] = [source |-> Begin[i].source, x |-> Begin[i].x,
                                conf |-> Begin[i].conf, timed |-> Begin[i].timed,
                                time |-> Begin[i].time]
                 /\ Begin[i].time \in Int /\ Begin[i].timed = xRaw.timed
                 /\ Begin[i].conf \in {"high", "low", "below"}
                 /\ \/ Begin[i].source = "detected" /\ Begin[i].x \in Int
                    \/ Begin[i].source = "missing" /\ Begin[i].x = NoPoint
           /\ \A i, j \in 1..Count : i < j => Begin[i].time < Begin[j].time
  <1>1. /\ Count \in Nat /\ DOMAIN xRaw.rows = 1..Count /\ DOMAIN xRaw.times = 1..Count
        /\ xRaw.timed \in BOOLEAN
    BY SmoothingAssumption, LenProperties DEF Count
  <1>2. \A i \in 1..Count : /\ xRaw.rows[i] \in [has : BOOLEAN, x : Int, conf : {"high", "low", "below"}]
                            /\ xRaw.times[i] \in Int
    BY <1>1, SmoothingAssumption, ElementOfSeq DEF Count
  <1>3. \A i, j \in 1..Count : i < j => xRaw.times[i] < xRaw.times[j]
    BY <1>1, SmoothingAssumption
  <1> DEFINE candidate(i) == xRaw.rows[i].has /\ xRaw.rows[i].conf # "below"
             source(i) == IF candidate(i) THEN "detected" ELSE "missing"
             x(i) == IF candidate(i) THEN xRaw.rows[i].x ELSE NoPoint
             time(i) == IF xRaw.timed THEN xRaw.times[i] ELSE i
  <1>4. /\ DOMAIN Begin = 1..Count
        /\ \A i \in 1..Count : Begin[i] = [source |-> source(i), x |-> x(i),
                                           conf |-> xRaw.rows[i].conf, timed |-> xRaw.timed,
                                           time |-> time(i)]
    BY <1>1 DEF Begin, Classified
  <1>5. \A i \in 1..Count : /\ xRaw.rows[i].conf \in {"high", "low", "below"} /\ time(i) \in Int
                            /\ \/ source(i) = "detected" /\ x(i) \in Int
                               \/ source(i) = "missing" /\ x(i) = NoPoint
    BY <1>1, <1>2
  <1>6. \A i, j \in 1..Count : i < j => time(i) < time(j)
    BY <1>1, <1>3
  <1> HIDE DEF source, x, time
  <1>7. \A i \in 1..Count : /\ Begin[i].source = source(i) /\ Begin[i].x = x(i)
                            /\ Begin[i].conf = xRaw.rows[i].conf /\ Begin[i].time = time(i)
                            /\ Begin[i].timed = xRaw.timed
    BY <1>4
  <1> QED
    BY <1>1, <1>4, <1>5, <1>6, <1>7

LEMMA SubtrackRows ==
    ASSUME xRaw \in RawTracks, NEW rows \in Subtracks
    PROVE  /\ DOMAIN rows = 1..Count /\ Len(rows) = Count
           /\ \A i \in 1..Count :
                 /\ rows[i].time = Begin[i].time /\ rows[i].conf = Begin[i].conf
                 /\ rows[i].timed = xRaw.timed
                 /\ rows[i] = [source |-> rows[i].source, x |-> rows[i].x,
                               conf |-> rows[i].conf, timed |-> rows[i].timed,
                               time |-> rows[i].time]
                 /\ \/ rows[i].source = "detected" /\ rows[i].x \in Int /\ rows[i] = Begin[i]
                    \/ rows[i].source \in {"missing", "rejected"} /\ rows[i].x = NoPoint
           /\ Detected(rows) \subseteq Detected(Begin)
  <1>1. Count \in Nat /\ rows \in [1..Count -> {Begin[i] : i \in 1..Count} \cup {Lost(Begin[i]) : i \in 1..Count}]
    BY BeginRows DEF Subtracks
  <1>2. DOMAIN rows = 1..Count /\ Len(rows) = Count
    <2> DEFINE S == {Begin[i] : i \in 1..Count} \cup {Lost(Begin[i]) : i \in 1..Count}
               n == Count
    <2>1. rows \in [1..n -> S] /\ n \in Nat
      BY <1>1
    <2> HIDE DEF S, n
    <2>2. rows \in Seq(S) /\ DOMAIN rows = 1..n
      BY <2>1, SeqDef
    <2>3. DOMAIN rows = 1..Len(rows) /\ Len(rows) \in Nat
      BY <2>2, LenProperties
    <2>4. Len(rows) = n
      BY <2>1, <2>2, <2>3
    <2> QED
      BY <2>2, <2>4 DEF n
  <1>3. \A i \in 1..Count :
           /\ rows[i].time = Begin[i].time /\ rows[i].conf = Begin[i].conf
           /\ rows[i].timed = xRaw.timed
           /\ rows[i] = [source |-> rows[i].source, x |-> rows[i].x,
                         conf |-> rows[i].conf, timed |-> rows[i].timed,
                         time |-> rows[i].time]
           /\ \/ rows[i].source = "detected" /\ rows[i].x \in Int /\ rows[i] = Begin[i]
              \/ rows[i].source \in {"missing", "rejected"} /\ rows[i].x = NoPoint
    <2> TAKE i \in 1..Count
    <2>1. CASE rows[i] = Begin[i]
      BY <2>1, BeginRows
    <2>2. CASE rows[i] = Lost(Begin[i])
      <3>1. rows[i].source = "rejected" /\ rows[i].x = NoPoint /\ rows[i].conf = Begin[i].conf
            /\ rows[i].time = Begin[i].time /\ rows[i].timed = Begin[i].timed
        BY <2>2 DEF Lost
      <3> QED
        BY <2>2, <3>1, BeginRows DEF Lost
    <2> QED
      BY <2>1, <2>2 DEF Subtracks
  <1>4. Detected(rows) \subseteq Detected(Begin)
    BY <1>2, <1>3, BeginRows DEF Detected
  <1> QED
    BY <1>2, <1>3, <1>4

LEMMA BeginIsSubtrack == xRaw \in RawTracks => Begin \in Subtracks
  <1> SUFFICES ASSUME xRaw \in RawTracks PROVE Begin \in Subtracks
    OBVIOUS
  <1>1. Begin = [i \in 1..Count |-> Begin[i]]
    BY BeginRows DEF Begin, Classified
  <1> QED
    BY <1>1, BeginRows DEF Subtracks

LEMMA JudgedIsSubtrack ==
    ASSUME xRaw \in RawTracks, NEW pass, NEW rows \in Subtracks, NEW i \in 1..Count
    PROVE  /\ Judged(pass, rows, i) \in Subtracks
           /\ Judged(pass, rows, i) = rows \/ (rows[i].source = "detected" /\ Breaks(pass, rows, i))
           /\ \A j \in 1..Count : j # i => Judged(pass, rows, i)[j] = rows[j]
  <1>1. CASE Judged(pass, rows, i) = rows
    BY <1>1
  <1>2. CASE rows[i].source = "detected" /\ Breaks(pass, rows, i)
    <2> DEFINE lost == Lost(Begin[i])
    <2>1. rows[i] = Begin[i] /\ DOMAIN rows = 1..Count
      BY <1>2, SubtrackRows
    <2>2. Judged(pass, rows, i) = [rows EXCEPT ![i] = lost]
      <3>1. Reject(rows, i) = [rows EXCEPT ![i] = lost]
        BY <2>1 DEF Reject
      <3> QED
        BY <1>2, <3>1 DEF Judged
    <2>3. \A j \in 1..Count : [rows EXCEPT ![i] = lost][j] = IF j = i THEN lost ELSE rows[j]
      BY <2>1
    <2>4. [rows EXCEPT ![i] = lost] \in [1..Count -> {Begin[j] : j \in 1..Count}
                                                     \cup {Lost(Begin[j]) : j \in 1..Count}]
      BY <2>1 DEF Subtracks
    <2>5. [rows EXCEPT ![i] = lost] \in Subtracks
      BY <1>2, <2>1, <2>3, <2>4 DEF Subtracks
    <2> QED
      BY <1>2, <2>2, <2>3, <2>5
  <1> QED
    BY <1>1, <1>2 DEF Judged

\* A pass leads from a set of rows to the same set if every judgement does.
LEMMA PassStaysIn ==
    ASSUME xRaw \in RawTracks, NEW pass, NEW T \in SUBSET Subtracks, NEW rows \in T,
           \A left \in T : \A k \in 1..Count : Judged(pass, left, k) \in T
    PROVE  PassSteps(pass, rows)[Len(rows)] \in T
  <1> DEFINE n == Count
             Steps(h) == h = [k \in 0..n |-> IF k = 0 THEN rows ELSE Judged(pass, h[k - 1], k)]
             step == [p \in T \X (1..n) |-> Judged(pass, p[1], p[2])]
             L == PassSteps(pass, rows)
  <1>1. n \in Nat /\ Len(rows) = n
    BY BeginRows, SubtrackRows
  <1>2. step \in [T \X (1..n) -> T]
    OBVIOUS
  <1>3. \A left \in T : \A k \in 1..n : step[<<left, k>>] = Judged(pass, left, k)
    OBVIOUS
  <1>4. \E g : Steps(g)
    <2> HIDE DEF step, n
    <2>1. PICK g \in [0..n -> T] :
             \A k \in 0..n : g[k] = IF k = 0 THEN rows ELSE step[<<g[k - 1], k>>]
      <3>1. \E g \in [0..n -> T] : FollowsSteps(g, n, rows, step)
        BY <1>1, <1>2, StepByStep
      <3> QED
        BY <3>1 DEF FollowsSteps
    <2>2. \A k \in 0..n : k # 0 => k \in 1..n /\ k - 1 \in 0..n
      BY <1>1
    <2>3. \A k \in 0..n : g[k] = IF k = 0 THEN rows ELSE Judged(pass, g[k - 1], k)
      BY <1>3, <2>1, <2>2
    <2>4. Steps(g)
      BY <2>1, <2>3
    <2> QED
      BY <2>4
  <1>5. L = CHOOSE h : Steps(h)
    BY <1>1 DEF PassSteps
  <1>6. Steps(L)
    <2> HIDE DEF Steps, L
    <2> QED
      BY <1>4, <1>5
  <1> HIDE DEF L, n
  <1>7. \A k \in 0..n : L[k] = IF k = 0 THEN rows ELSE Judged(pass, L[k - 1], k)
    BY <1>6
  <1>8. \A k \in 0..n : L[k] \in T
    <2> DEFINE Out == {k \in 0..n : L[k] \notin T}
    <2> SUFFICES ASSUME Out # {} PROVE FALSE
      OBVIOUS
    <2>1. PICK k \in Out : \A j \in Out : k <= j
      <3>1. Out \in SUBSET Nat
        OBVIOUS
      <3> HIDE DEF Out
      <3> QED
        BY <3>1, LeastNumber
    <2>2. k \in 0..n /\ L[k] \notin T /\ k # 0
      BY <1>7
    <2>3. k - 1 \in 0..n /\ k \in 1..n /\ k - 1 < k
      BY <1>1, <2>2
    <2>4. L[k - 1] \in T
      <3>1. k - 1 \in Out => k <= k - 1
        BY <2>1
      <3> QED
        BY <2>2, <2>3, <3>1
    <2>5. L[k] = Judged(pass, L[k - 1], k)
      BY <1>7, <2>2
    <2> QED
      BY <2>2, <2>3, <2>4, <2>5 DEF n
  <1>9. n \in 0..n
    BY <1>1
  <1> QED
    BY <1>1, <1>8, <1>9 DEF L

LEMMA MinOfNumbers ==
    ASSUME NEW T \in SUBSET Nat, T # {}
    PROVE  Min(T) \in T /\ \A m \in T : Min(T) <= m
  <1>1. PICK n \in T : \A m \in T : n <= m
    BY LeastNumber
  <1>2. \A m \in T : n =< m
    BY <1>1
  <1> QED
    BY <1>1, <1>2 DEF Min

LEMMA PlacesOfRows ==
    ASSUME xRaw \in RawTracks, NEW T \in SUBSET (1..Count)
    PROVE  /\ T \in SUBSET Nat /\ IsFiniteSet(T)
           /\ T # {} => /\ Max(T) \in T /\ \A m \in T : m <= Max(T)
                        /\ Min(T) \in T /\ \A m \in T : Min(T) <= m
           /\ Max({0} \cup T) \in {0} \cup T /\ \A m \in T : m <= Max({0} \cup T)
  <1>1. Count \in Nat /\ IsFiniteSet(1..Count)
    <2>1. Count \in Nat
      BY BeginRows
    <2> DEFINE n == Count
    <2>2. n \in Int /\ 1 \in Int
      BY <2>1
    <2> HIDE DEF n
    <2>3. IsFiniteSet(1..n)
      BY <2>2, FS_Interval
    <2> QED
      BY <2>1, <2>3 DEF n
  <1>2. T \in SUBSET Nat /\ IsFiniteSet(T)
    <2>1. 1..Count \subseteq Nat
      BY <1>1
    <2> QED
      BY <1>1, <2>1, FS_Subset
  <1>3. {0} \cup T \in SUBSET Nat /\ {0} \cup T # {} /\ IsFiniteSet({0} \cup T)
    BY <1>2, FS_AddElement
  <1>4. T # {} => /\ Max(T) \in T /\ \A m \in T : m <= Max(T)
                  /\ Min(T) \in T /\ \A m \in T : Min(T) <= m
    BY <1>2, MaxOfFinite, MinOfNumbers
  <1>5. Max({0} \cup T) \in {0} \cup T /\ \A m \in {0} \cup T : m <= Max({0} \cup T)
    BY <1>3, MaxOfFinite
  <1> QED
    BY <1>2, <1>4, <1>5

LEMMA NearestOnes ==
    ASSUME xRaw \in RawTracks, NEW rows \in Subtracks, NEW i \in 1..Count, NEW steps, NEW limit
    PROVE  LET p == NearestBefore(rows, i, steps, limit)
               n == NearestAfter(rows, i, steps, limit)
           IN  /\ p # 0 => p \in Detected(rows) /\ p < i /\ i - p <= steps
                           /\ WithinTime(rows, i, p, limit)
               /\ \A j \in Detected(rows) :
                     j < i /\ i - j <= steps /\ WithinTime(rows, i, j, limit) => j <= p
               /\ n # 0 => n \in Detected(rows) /\ i < n /\ n - i <= steps
                           /\ WithinTime(rows, i, n, limit)
               /\ n # 0 => \A j \in Detected(rows) :
                     i < j /\ j - i <= steps /\ WithinTime(rows, i, j, limit) => n <= j
  <1> DEFINE before == {j \in Detected(rows) : j < i /\ i - j <= steps /\ WithinTime(rows, i, j, limit)}
             after == {j \in Detected(rows) : i < j /\ j - i <= steps /\ WithinTime(rows, i, j, limit)}
             p == NearestBefore(rows, i, steps, limit)
             n == NearestAfter(rows, i, steps, limit)
  <1>1. Detected(rows) \subseteq 1..Count
    BY SubtrackRows DEF Detected
  <1>2. before \in SUBSET (1..Count) /\ after \in SUBSET (1..Count)
    BY <1>1
  <1>3. p = Max({0} \cup before) /\ n = IF after = {} THEN 0 ELSE Min(after)
    BY DEF NearestBefore, NearestAfter
  <1>4. /\ p # 0 => p \in before
        /\ \A j \in before : j <= p
        /\ n # 0 => n \in after /\ \A j \in after : n <= j
    <2> HIDE DEF before, after, p, n
    <2> QED
      BY <1>2, <1>3, PlacesOfRows
  <1> HIDE DEF p, n
  <1> QED
    BY <1>4 DEF p, n

\* The first detection has no earlier one to be judged by, in either pass.
LEMMA FirstKept ==
    ASSUME xRaw \in RawTracks, NEW pass, NEW rows \in Subtracks, Detected(Begin) # {},
           rows[Min(Detected(Begin))] = Begin[Min(Detected(Begin))]
    PROVE  /\ PassSteps(pass, rows)[Len(rows)] \in Subtracks
           /\ PassSteps(pass, rows)[Len(rows)][Min(Detected(Begin))] = Begin[Min(Detected(Begin))]
  <1> DEFINE first == Min(Detected(Begin))
             T == {left \in Subtracks : left[first] = Begin[first]}
  <1>1. first \in Detected(Begin) /\ \A j \in Detected(Begin) : first <= j
    <2>1. Detected(Begin) \in SUBSET (1..Count)
      BY BeginRows DEF Detected
    <2> QED
      BY <2>1, PlacesOfRows
  <1>2. first \in 1..Count /\ Count \in Nat
    BY <1>1, BeginRows DEF Detected
  <1>3. \A left \in Subtracks : ~Breaks(pass, left, first)
    <2> TAKE left \in Subtracks
    <2>1. \A j \in Detected(left) : ~(j < first) /\ j \in Nat
      <3>1. Detected(left) \subseteq Detected(Begin) /\ Detected(left) \subseteq 1..Count
        BY SubtrackRows DEF Detected
      <3> HIDE DEF first
      <3> QED
        BY <1>1, <1>2, <3>1
    <2>2. \A steps, limit : NearestBefore(left, first, steps, limit) = 0
      BY <1>2, <2>1, NearestOnes
    <2> HIDE DEF first
    <2> QED
      BY <2>2 DEF Breaks, IsolatedSpike, ImpossibleJump, PredictionBreak
  <1>4. \A left \in T : \A k \in 1..Count : Judged(pass, left, k) \in T
    <2> SUFFICES ASSUME NEW left \in T, NEW k \in 1..Count PROVE Judged(pass, left, k) \in T
      OBVIOUS
    <2>1. CASE k = first
      BY <1>2, <1>3, <2>1, JudgedIsSubtrack
    <2>2. CASE k # first
      BY <1>2, <2>2, JudgedIsSubtrack
    <2> QED
      BY <2>1, <2>2
  <1>5. rows \in T
    OBVIOUS
  <1>6. T \in SUBSET Subtracks
    OBVIOUS
  <1>7. PassSteps(pass, rows)[Len(rows)] \in T
    <2> HIDE DEF T
    <2> QED
      BY <1>4, <1>5, <1>6, PassStaysIn
  <1> QED
    BY <1>7

LEMMA PassGivesSubtrack ==
    ASSUME xRaw \in RawTracks, NEW pass, NEW rows \in Subtracks
    PROVE  PassSteps(pass, rows)[Len(rows)] \in Subtracks
  BY JudgedIsSubtrack, PassStaysIn

NextOf(i) == Min({j \in Detected(Begin) : i < j})
PlausibleTrack ==
    \A i \in Detected(Begin) \ {Max(Detected(Begin))} :
        /\ ~TooFast(Begin, i, NextOf(i))
        /\ Apart(Begin, i, NextOf(i)) < BreakJump
        /\ Begin[i].conf = "high" \/ Apart(Begin, i, NextOf(i)) < LowJump

\* The neighbours that judge a point are its neighbours in the track, because times
\* increase with the frames: none between them is out of reach.
LEMMA NeighboursOfTrack ==
    ASSUME xRaw \in RawTracks, NEW i \in Detected(Begin), NEW steps \in Nat, NEW limit \in Nat
    PROVE  LET p == NearestBefore(Begin, i, steps, limit)
               n == NearestAfter(Begin, i, steps, limit)
           IN  /\ p # 0 => /\ p \in Detected(Begin) \ {Max(Detected(Begin))}
                           /\ NextOf(p) = i
               /\ n # 0 => /\ i \in Detected(Begin) \ {Max(Detected(Begin))}
                           /\ NextOf(i) = n
  <1> DEFINE D == Detected(Begin)
             p == NearestBefore(Begin, i, steps, limit)
             n == NearestAfter(Begin, i, steps, limit)
             time(k) == Begin[k].time
  <1>1. /\ D \in SUBSET (1..Count) /\ i \in 1..Count /\ Count \in Nat
        /\ \A k \in D : k \in Nat /\ k \in 1..Count
    BY BeginRows DEF Detected
  <1>2. /\ \A k \in 1..Count : time(k) \in Int
        /\ \A k, l \in 1..Count : k < l => time(k) < time(l)
    BY BeginRows
  <1>3. \A k \in D : k <= Max(D)
    <2>1. D # {}
      OBVIOUS
    <2> QED
      BY <1>1, <2>1, PlacesOfRows
  <1>4. \A k : WithinTime(Begin, i, k, limit)
                  <=> (~xRaw.timed \/ time(k) - time(i) \in (-limit)..limit)
    BY <1>1, BeginRows DEF WithinTime
  <1>5. /\ p # 0 => p \in D /\ p < i /\ i - p <= steps /\ WithinTime(Begin, i, p, limit)
        /\ \A j \in D : j < i /\ i - j <= steps /\ WithinTime(Begin, i, j, limit) => j <= p
        /\ n # 0 => n \in D /\ i < n /\ n - i <= steps /\ WithinTime(Begin, i, n, limit)
        /\ n # 0 => \A j \in D : i < j /\ j - i <= steps /\ WithinTime(Begin, i, j, limit) => n <= j
    BY <1>1, BeginIsSubtrack, NearestOnes
  <1> HIDE DEF D, p, n, time
  <1>6. ASSUME p # 0
        PROVE  p \in D \ {Max(D)} /\ NextOf(p) = i
    <2> DEFINE after == {j \in D : p < j}
    <2>1. i \in D /\ p \in D /\ p < i
      BY <1>5, <1>6 DEF D
    <2>2. \A j \in D : p < j => i <= j
      <3> SUFFICES ASSUME NEW j \in D, p < j, j < i PROVE FALSE
        BY <1>1
      <3>1. time(p) < time(j) /\ time(j) < time(i)
        BY <1>1, <1>2, <2>1
      <3>2. time(p) \in Int /\ time(j) \in Int /\ time(i) \in Int
        BY <1>1, <1>2, <2>1
      <3>3. WithinTime(Begin, i, j, limit)
        <4>1. CASE ~xRaw.timed
          BY <1>4, <4>1
        <4>2. CASE xRaw.timed
          <5>1. time(p) - time(i) \in (-limit)..limit
            BY <1>4, <1>5, <1>6, <4>2
          <5>2. time(j) - time(i) \in (-limit)..limit
            BY <3>1, <3>2, <5>1
          <5> QED
            BY <1>4, <5>2
        <4> QED
          BY <4>1, <4>2
      <3>4. i - j <= steps
        BY <1>1, <1>5, <1>6, <2>1
      <3>5. j <= p
        BY <1>5, <3>3, <3>4
      <3> QED
        BY <1>1, <2>1, <3>5
    <2>3. after \in SUBSET (1..Count) /\ after # {} /\ i \in after
      BY <1>1, <2>1
    <2>4. Min(after) \in after /\ Min(after) <= i
      BY <2>3, PlacesOfRows
    <2>5. Min(after) = i
      <3> DEFINE m == Min(after)
      <3>1. m \in Nat /\ m <= i /\ i <= m
        BY <1>1, <2>2, <2>4
      <3> HIDE DEF m
      <3>2. m = i
        BY <1>1, <3>1
      <3> QED
        BY <3>2 DEF m
    <2>6. p # Max(D)
      BY <1>1, <1>3, <2>1
    <2> QED
      BY <2>1, <2>5, <2>6 DEF NextOf, D
  <1>7. ASSUME n # 0
        PROVE  i \in D \ {Max(D)} /\ NextOf(i) = n
    <2> DEFINE after == {j \in D : i < j}
    <2>1. i \in D /\ n \in D /\ i < n
      BY <1>5, <1>7 DEF D
    <2>2. \A j \in D : i < j => n <= j
      <3> SUFFICES ASSUME NEW j \in D, i < j, j < n PROVE FALSE
        BY <1>1, <2>1
      <3>1. time(i) < time(j) /\ time(j) < time(n)
        BY <1>1, <1>2, <2>1
      <3>2. time(i) \in Int /\ time(j) \in Int /\ time(n) \in Int
        BY <1>1, <1>2, <2>1
      <3>3. WithinTime(Begin, i, j, limit)
        <4>1. CASE ~xRaw.timed
          BY <1>4, <4>1
        <4>2. CASE xRaw.timed
          <5>1. time(n) - time(i) \in (-limit)..limit
            BY <1>4, <1>5, <1>7, <4>2
          <5>2. time(j) - time(i) \in (-limit)..limit
            BY <3>1, <3>2, <5>1
          <5> QED
            BY <1>4, <5>2
        <4> QED
          BY <4>1, <4>2
      <3>4. j - i <= steps
        BY <1>1, <1>5, <1>7, <2>1
      <3>5. n <= j
        BY <1>5, <1>7, <3>3, <3>4
      <3> QED
        BY <1>1, <2>1, <3>5
    <2>3. after \in SUBSET (1..Count) /\ after # {} /\ n \in after
      BY <1>1, <2>1
    <2>4. Min(after) \in after /\ Min(after) <= n
      BY <2>3, PlacesOfRows
    <2>5. Min(after) = n
      <3> DEFINE m == Min(after)
      <3>1. m \in Nat /\ m <= n /\ n <= m
        BY <1>1, <2>2, <2>4
      <3> HIDE DEF m
      <3>2. m = n
        BY <1>1, <2>1, <3>1
      <3> QED
        BY <3>2 DEF m
    <2>6. i # Max(D)
      BY <1>1, <1>3, <2>1
    <2> QED
      BY <2>1, <2>5, <2>6 DEF NextOf, D
  <1> QED
    BY <1>6, <1>7 DEF D, p, n

LEMMA PlausiblePointKept ==
    ASSUME xRaw \in RawTracks, PlausibleTrack, NEW pass, NEW i \in Detected(Begin)
    PROVE  ~Breaks(pass, Begin, i)
  <1>1. \A j \in Detected(Begin), k \in Detected(Begin) : Apart(Begin, j, k) \in Int
    <2>1. \A j \in Detected(Begin) : Begin[j].x \in Int
      BY BeginRows DEF Detected
    <2> QED
      BY <2>1 DEF Apart, Magnitude
  <1>2. {LocalWindow, LocalTime, MaxGap + 1, MaxGapTime, BreakJump, LowJump} \subseteq Nat
    BY SmoothingAssumption
  <1>3. ASSUME NEW steps \in Nat, NEW limit \in Nat, NearestBefore(Begin, i, steps, limit) # 0
        PROVE  LET p == NearestBefore(Begin, i, steps, limit)
               IN  ~TooFast(Begin, p, i) /\ ~(Apart(Begin, p, i) >= BreakJump)
    <2> DEFINE p == NearestBefore(Begin, i, steps, limit)
    <2>1. p \in Detected(Begin) \ {Max(Detected(Begin))} /\ NextOf(p) = i
      BY <1>3, NeighboursOfTrack
    <2> HIDE DEF p
    <2>2. ~TooFast(Begin, p, i) /\ Apart(Begin, p, i) < BreakJump /\ Apart(Begin, p, i) \in Int
      BY <1>1, <2>1 DEF PlausibleTrack
    <2> QED
      BY <1>2, <2>2 DEF p
  <1>4. ASSUME Begin[i].conf = "low", NearestAfter(Begin, i, LocalWindow, LocalTime) # 0
        PROVE  ~(Apart(Begin, i, NearestAfter(Begin, i, LocalWindow, LocalTime)) >= LowJump)
    <2> DEFINE n == NearestAfter(Begin, i, LocalWindow, LocalTime)
    <2>1. i \in Detected(Begin) \ {Max(Detected(Begin))} /\ NextOf(i) = n
      BY <1>2, <1>4, NeighboursOfTrack
    <2>2. n \in Detected(Begin)
      <3>1. i \in 1..Count
        BY BeginRows DEF Detected
      <3> QED
        BY <1>4, <3>1, BeginIsSubtrack, NearestOnes
    <2> HIDE DEF n
    <2>3. Apart(Begin, i, n) < LowJump /\ Apart(Begin, i, n) \in Int
      BY <1>1, <1>4, <2>1, <2>2 DEF PlausibleTrack
    <2> QED
      BY <1>2, <2>3 DEF n
  <1>5. ~IsolatedSpike(Begin, i)
    BY <1>2, <1>3 DEF IsolatedSpike
  <1>6. ~ImpossibleJump(Begin, i)
    BY <1>2, <1>3 DEF ImpossibleJump
  <1>7. ~PredictionBreak(Begin, i)
    BY <1>2, <1>3, <1>4 DEF PredictionBreak
  <1> QED
    BY <1>5, <1>6, <1>7 DEF Breaks

LEMMA PlausibleKept ==
    ASSUME xRaw \in RawTracks, PlausibleTrack, NEW pass
    PROVE  PassSteps(pass, Begin)[Len(Begin)] = Begin
  <1>1. \A k \in 1..Count : Judged(pass, Begin, k) = Begin
    BY BeginIsSubtrack, BeginRows, PlausiblePointKept DEF Judged, Detected
  <1>2. {Begin} \in SUBSET Subtracks
    BY BeginIsSubtrack
  <1> DEFINE T == {Begin}
  <1>3. Begin \in T /\ \A left \in T : \A k \in 1..Count : Judged(pass, left, k) \in T
    BY <1>1
  <1>4. PassSteps(pass, Begin)[Len(Begin)] \in T
    <2> HIDE DEF T
    <2>1. T \in SUBSET Subtracks
      BY <1>2 DEF T
    <2> QED
      BY <1>3, <2>1, PassStaysIn
  <1> QED
    BY <1>4

LEMMA WholeQuotient ==
    ASSUME NEW a \in Int, NEW b \in Nat, b > 0
    PROVE  a \div b \in Int
  OBVIOUS

\* Between which points row i lies after the passes.
LEMMA Neighbours ==
    ASSUME xRaw \in RawTracks, NEW rows \in Subtracks, NEW i \in 1..Count
    PROVE  /\ Left(rows, i) # 0 => Left(rows, i) \in Detected(rows) /\ Left(rows, i) < i
           /\ Right(rows, i) # 0 => Right(rows, i) \in Detected(rows) /\ i < Right(rows, i)
           /\ Detected(rows) \subseteq 1..Count
  <1> DEFINE before == {j \in Detected(rows) : j < i}
             after == {j \in Detected(rows) : i < j}
             l == Left(rows, i)
             r == Right(rows, i)
  <1>1. Detected(rows) \subseteq 1..Count
    BY SubtrackRows DEF Detected
  <1>2. before \in SUBSET (1..Count) /\ after \in SUBSET (1..Count)
    BY <1>1
  <1>3. l = Max({0} \cup before) /\ r = IF after = {} THEN 0 ELSE Min(after)
    BY DEF Left, Right
  <1>4. (l # 0 => l \in before) /\ (r # 0 => r \in after)
    <2> HIDE DEF before, after, l, r
    <2> QED
      BY <1>2, <1>3, PlacesOfRows
  <1> HIDE DEF l, r
  <1> QED
    BY <1>1, <1>4 DEF l, r

\* A short gap lies between two points whose times are known to increase.
LEMMA GapOfRow ==
    ASSUME xRaw \in RawTracks, NEW rows \in Subtracks, NEW i \in 1..Count
    PROVE  /\ InShortGap(rows, i) => OnLine(rows, Left(rows, i), Right(rows, i), i) \in Int
           /\ InShortGap(rows, i) <=>
                 /\ i \notin Detected(rows)
                 /\ Left(rows, i) # 0 /\ Right(rows, i) # 0
                 /\ Right(rows, i) - Left(rows, i) <= MaxGap + 1
                 /\ xRaw.timed => rows[Right(rows, i)].time - rows[Left(rows, i)].time <= MaxGapTime
  <1> DEFINE l == Left(rows, i)
             r == Right(rows, i)
  <1>1. /\ l # 0 => l \in Detected(rows) /\ l < i
        /\ r # 0 => r \in Detected(rows) /\ i < r
        /\ Detected(rows) \subseteq 1..Count
    BY Neighbours
  <1>2. /\ Count \in Nat /\ MaxGap \in Nat /\ MaxGapTime \in Nat
        /\ DOMAIN rows = 1..Count
    BY BeginRows, SubtrackRows, SmoothingAssumption
  <1>3. ASSUME l # 0, r # 0
        PROVE  /\ l \in 1..Count /\ r \in 1..Count /\ l < r
               /\ rows[l].x \in Int /\ rows[r].x \in Int
               /\ rows[l].time \in Int /\ rows[r].time \in Int /\ rows[i].time \in Int
               /\ rows[l].time < rows[r].time
    <2>1. l \in 1..Count /\ r \in 1..Count /\ l < r
      <3> HIDE DEF l, r
      <3> QED
        BY <1>1, <1>2, <1>3
    <2>2. l \in Detected(rows) /\ r \in Detected(rows)
      BY <1>1, <1>3
    <2> HIDE DEF l, r
    <2>3. \A k \in Detected(rows) : rows[k].x \in Int
      BY <1>1, SubtrackRows DEF Detected
    <2>4. \A k \in 1..Count : rows[k].time = Begin[k].time /\ Begin[k].time \in Int
      BY SubtrackRows, BeginRows
    <2>5. Begin[l].time < Begin[r].time
      BY <2>1, BeginRows
    <2> QED
      BY <2>1, <2>2, <2>3, <2>4, <2>5
  <1>4. (l # 0 /\ r # 0) => OnLine(rows, l, r, i) \in Int
    <2> SUFFICES ASSUME l # 0, r # 0 PROVE OnLine(rows, l, r, i) \in Int
      OBVIOUS
    <2> DEFINE across == (rows[i].time - rows[l].time) * (rows[r].x - rows[l].x)
               all == rows[r].time - rows[l].time
    <2>1. OnLine(rows, l, r, i) = rows[l].x + across \div all
      BY DEF OnLine, Span
    <2>2. across \in Int /\ all \in Nat /\ all > 0 /\ rows[l].x \in Int
      <3> HIDE DEF l, r
      <3> QED
        BY <1>3
    <2> HIDE DEF across, all, l, r
    <2>3. across \div all \in Int
      BY <2>2, WholeQuotient
    <2> QED
      BY <2>1, <2>2, <2>3
  <1>5. i \in Detected(rows) <=> rows[i].source = "detected"
    BY <1>2 DEF Detected
  <1>6. (l # 0 /\ r # 0) =>
           (ShortGap(rows, l, r) <=> /\ r - l <= MaxGap + 1
                                     /\ xRaw.timed => rows[r].time - rows[l].time <= MaxGapTime)
    <2> SUFFICES ASSUME l # 0, r # 0
                 PROVE  ShortGap(rows, l, r) <=>
                            /\ r - l <= MaxGap + 1
                            /\ xRaw.timed => rows[r].time - rows[l].time <= MaxGapTime
      OBVIOUS
    <2> DEFINE span == rows[r].time - rows[l].time
    <2> HIDE DEF l, r
    <2>1. span \in Nat /\ l \in Nat /\ r \in Nat
      BY <1>2, <1>3
    <2>2. ShortGap(rows, l, r) <=>
              r - l - 1 <= MaxGap /\ (~xRaw.timed \/ span \in (-MaxGapTime)..MaxGapTime)
      <3>1. rows[l].timed = xRaw.timed
        BY <1>3, SubtrackRows
      <3> QED
        BY <3>1 DEF ShortGap, WithinTime
    <2> HIDE DEF span
    <2>3. r - l - 1 <= MaxGap <=> r - l <= MaxGap + 1
      BY <1>2, <2>1
    <2>4. span \in (-MaxGapTime)..MaxGapTime <=> span <= MaxGapTime
      BY <1>2, <2>1
    <2> QED
      BY <2>2, <2>3, <2>4 DEF span
  <1>7. InShortGap(rows, i) <=> /\ rows[i].source # "detected" /\ l # 0 /\ r # 0
                                /\ ShortGap(rows, l, r)
    BY DEF InShortGap
  <1> HIDE DEF l, r
  <1>8. /\ InShortGap(rows, i) => OnLine(rows, l, r, i) \in Int
        /\ InShortGap(rows, i) <=>
              /\ i \notin Detected(rows)
              /\ l # 0 /\ r # 0
              /\ r - l <= MaxGap + 1
              /\ xRaw.timed => rows[r].time - rows[l].time <= MaxGapTime
    BY <1>4, <1>5, <1>6, <1>7
  <1> QED
    BY <1>8 DEF l, r

\* What filling and averaging make of the rows the passes left: points and sources
\* change only where a short gap is filled, and a point where it is averaged.
FillsOf(left, rows) ==
    /\ DOMAIN rows = 1..Count /\ Len(rows) = Count
    /\ \A i \in 1..Count :
          /\ rows[i].time = left[i].time
          /\ rows[i].x \in Int \cup {NoPoint}
          /\ Has(rows, i) <=> (i \in Detected(left) \/ InShortGap(left, i))
          /\ rows[i].source = "detected" <=> i \in Detected(left)
          /\ rows[i].source \in {"detected", "missing", "rejected", "interpolated"}
          /\ rows[i].source = "missing" => ~Has(rows, i)
          /\ ~Has(rows, i) => rows[i].source \in {"missing", "rejected"}

LEMMA LengthOfRows ==
    ASSUME NEW n \in Nat, NEW S, NEW rows \in [1..n -> S]
    PROVE  DOMAIN rows = 1..n /\ Len(rows) = n
  <1>1. rows \in Seq(S) /\ DOMAIN rows = 1..n
    BY SeqDef
  <1>2. DOMAIN rows = 1..Len(rows) /\ Len(rows) \in Nat
    BY <1>1, LenProperties
  <1>3. Len(rows) = n
    BY <1>1, <1>2
  <1> QED
    BY <1>1, <1>3

LEMMA FilledRows ==
    ASSUME xRaw \in RawTracks, NEW left \in Subtracks
    PROVE  FillsOf(left, Filled(left))
  <1> DEFINE point(i) == OnLine(left, Left(left, i), Right(left, i), i)
             filled(i) == [source |-> IF left[i].source = "missing" THEN "interpolated"
                                      ELSE left[i].source,
                           x |-> point(i), conf |-> left[i].conf, timed |-> left[i].timed,
                           time |-> left[i].time]
             rows == Filled(left)
  <1>1. Count \in Nat /\ DOMAIN left = 1..Count
    BY BeginRows, SubtrackRows
  <1>2. rows = [i \in 1..Count |-> IF InShortGap(left, i) THEN filled(i) ELSE left[i]]
    BY <1>1 DEF Filled
  <1>3. DOMAIN rows = 1..Count /\ Len(rows) = Count
    <2> DEFINE n == Count
               S == {rows[i] : i \in 1..n}
    <2>1. rows \in [1..n -> S] /\ n \in Nat
      <3>1. rows = [i \in 1..n |-> rows[i]]
        BY <1>2
      <3> HIDE DEF rows
      <3> QED
        BY <1>1, <3>1
    <2> HIDE DEF rows, n, S
    <2>2. DOMAIN rows = 1..n /\ Len(rows) = n
      BY <2>1, LengthOfRows
    <2> QED
      BY <2>2 DEF n
  <1>4. \A i \in 1..Count : rows[i] = IF InShortGap(left, i) THEN filled(i) ELSE left[i]
    BY <1>2
  <1> HIDE DEF rows
  <1>5. ASSUME NEW i \in 1..Count
        PROVE  /\ rows[i].time = left[i].time
               /\ rows[i].x \in Int \cup {NoPoint}
               /\ rows[i].x # NoPoint <=> (i \in Detected(left) \/ InShortGap(left, i))
               /\ rows[i].source = "detected" <=> i \in Detected(left)
               /\ rows[i].source \in {"detected", "missing", "rejected", "interpolated"}
               /\ rows[i].source = "missing" => rows[i].x = NoPoint
               /\ rows[i].x = NoPoint => rows[i].source \in {"missing", "rejected"}
    <2>1. /\ i \in Detected(left) <=> left[i].source = "detected"
          /\ \/ left[i].source = "detected" /\ left[i].x \in Int
             \/ left[i].source \in {"missing", "rejected"} /\ left[i].x = NoPoint
          /\ NoPoint \notin Int
      BY <1>1, SubtrackRows, SmoothingAssumption DEF Detected
    <2>2. CASE InShortGap(left, i)
      <3>1. point(i) \in Int /\ i \notin Detected(left)
        BY <2>2, GapOfRow
      <3>2. /\ rows[i].source = IF left[i].source = "missing" THEN "interpolated" ELSE left[i].source
            /\ rows[i].x = point(i) /\ rows[i].time = left[i].time
        <4> DEFINE source == IF left[i].source = "missing" THEN "interpolated" ELSE left[i].source
        <4>1. rows[i] = [source |-> source, x |-> point(i), conf |-> left[i].conf,
                         timed |-> left[i].timed, time |-> left[i].time]
          BY <1>4, <2>2
        <4> HIDE DEF source, point
        <4>2. rows[i].source = source /\ rows[i].x = point(i) /\ rows[i].time = left[i].time
          BY <4>1
        <4> QED
          BY <4>2 DEF source
      <3> HIDE DEF point
      <3> QED
        BY <2>1, <2>2, <3>1, <3>2
    <2>3. CASE ~InShortGap(left, i)
      <3>1. rows[i] = left[i]
        BY <1>4, <2>3
      <3> QED
        BY <2>1, <2>3, <3>1
    <2> QED
      BY <2>2, <2>3
  <1> QED
    BY <1>3, <1>5 DEF FillsOf, Has, rows

\* The sums of whole numbers are whole numbers.
LEMMA SumsOfPoints ==
    ASSUME NEW n \in Nat, NEW rows, Len(rows) = n, NEW window,
           \A k \in 1..n : k \in window => rows[k].x \in Int
    PROVE  Sums(rows, window)[Len(rows)] \in Int
  <1> DEFINE add(k) == IF k \in window THEN rows[k].x ELSE 0
             Steps(h) == h = [k \in 0..n |-> IF k = 0 THEN 0 ELSE h[k - 1] + add(k)]
             step == [p \in Int \X (1..n) |-> p[1] + add(p[2])]
             L == Sums(rows, window)
  <1>1. \A k \in 1..n : add(k) \in Int
    OBVIOUS
  <1>2. L = CHOOSE h : Steps(h)
    BY DEF Sums
  <1> HIDE DEF add, L
  <1>3. step \in [Int \X (1..n) -> Int] /\ \A s \in Int : \A k \in 1..n : step[<<s, k>>] = s + add(k)
    BY <1>1
  <1>4. \E h : Steps(h)
    <2> HIDE DEF step
    <2>1. PICK g \in [0..n -> Int] :
             \A k \in 0..n : g[k] = IF k = 0 THEN 0 ELSE step[<<g[k - 1], k>>]
      <3>1. \E g \in [0..n -> Int] : FollowsSteps(g, n, 0, step)
        <4>1. 0 \in Int
          OBVIOUS
        <4> QED
          BY <1>3, <4>1, StepByStep
      <3> QED
        BY <3>1 DEF FollowsSteps
    <2>2. \A k \in 0..n : k # 0 => k \in 1..n /\ k - 1 \in 0..n
      OBVIOUS
    <2>3. \A k \in 0..n : g[k] = IF k = 0 THEN 0 ELSE g[k - 1] + add(k)
      BY <1>3, <2>1, <2>2
    <2>4. Steps(g)
      BY <2>1, <2>3
    <2> QED
      BY <2>4
  <1>5. Steps(L)
    <2> HIDE DEF Steps
    <2> QED
      BY <1>2, <1>4
  <1>6. \A k \in 0..n : L[k] = IF k = 0 THEN 0 ELSE L[k - 1] + add(k)
    BY <1>5
  <1>7. \A k \in 0..n : L[k] \in Int
    <2> DEFINE Out == {k \in 0..n : L[k] \notin Int}
    <2> SUFFICES ASSUME Out # {} PROVE FALSE
      OBVIOUS
    <2>1. PICK k \in Out : \A j \in Out : k <= j
      <3>1. Out \in SUBSET Nat
        OBVIOUS
      <3> HIDE DEF Out
      <3> QED
        BY <3>1, LeastNumber
    <2>2. k \in 0..n /\ L[k] \notin Int /\ k # 0
      BY <1>6
    <2>3. k - 1 \in 0..n /\ k \in 1..n /\ k - 1 < k
      BY <2>2
    <2>4. L[k - 1] \in Int
      <3>1. k - 1 \in Out => k <= k - 1
        BY <2>1
      <3> QED
        BY <2>2, <2>3, <3>1
    <2>5. L[k] = L[k - 1] + add(k) /\ add(k) \in Int
      BY <1>1, <1>6, <2>2, <2>3
    <2> QED
      BY <2>2, <2>4, <2>5
  <1>8. n \in 0..n
    OBVIOUS
  <1> QED
    BY <1>7, <1>8 DEF L

\* A mean is taken over a row with a point and others of its segment, so it is a point.
LEMMA MeanOfWindow ==
    ASSUME xRaw \in RawTracks, NEW left \in Subtracks, NEW rows, FillsOf(left, rows),
           NEW i \in 1..Count, Has(rows, i)
    PROVE  Mean(rows, Window(rows, i)) \in Int
  <1> DEFINE window == Window(rows, i)
             total == Sums(rows, window)[Len(rows)]
  <1>1. /\ Count \in Nat /\ DOMAIN rows = 1..Count /\ Len(rows) = Count
        /\ \A k \in 1..Count : rows[k].x \in Int \cup {NoPoint}
    BY BeginRows DEF FillsOf
  <1>2. window \subseteq SegmentOf(rows, i) /\ SegmentOf(rows, i) \subseteq 1..Count
    BY <1>1 DEF Window, SegmentOf
  <1>3. \A k \in SegmentOf(rows, i) : Has(rows, k)
    <2> SUFFICES ASSUME NEW k \in SegmentOf(rows, i) PROVE Has(rows, k)
      OBVIOUS
    <2> DEFINE T == {i, k}
    <2>1. k \in 1..Count /\ T \in SUBSET (1..Count) /\ T # {}
      BY <1>2
    <2>2. /\ Min(T) \in T /\ Max(T) \in T
          /\ \A m \in T : Min(T) <= m /\ m <= Max(T)
      BY <2>1, PlacesOfRows
    <2>3. k \in Min(T)..Max(T)
      <3> DEFINE least == Min(T)
                 most == Max(T)
      <3>1. least \in Nat /\ most \in Nat /\ k \in Nat /\ least <= k /\ k <= most
        BY <1>1, <2>1, <2>2
      <3> HIDE DEF least, most
      <3>2. k \in least..most
        BY <3>1
      <3> QED
        BY <3>2 DEF least, most
    <2> QED
      BY <2>3 DEF SegmentOf
  <1>4. i \in window
    <2>1. i \in SegmentOf(rows, i)
      <3>1. Min({i, i}) = i /\ Max({i, i}) = i
        <4> DEFINE T == {i, i}
        <4>1. T \in SUBSET (1..Count) /\ T # {} /\ \A m \in T : m = i
          OBVIOUS
        <4> HIDE DEF T
        <4>2. Min(T) \in T /\ Max(T) \in T
          BY <4>1, PlacesOfRows
        <4> QED
          BY <4>1, <4>2 DEF T
      <3>2. \A k \in i..i : k = i
        OBVIOUS
      <3> QED
        BY <1>1, <3>1, <3>2 DEF SegmentOf
    <2>2. WithinTime(rows, i, i, AverageTime)
      <3>1. rows[i].time \in Int
        <4>1. rows[i].time = left[i].time
          BY DEF FillsOf
        <4>2. left[i].time = Begin[i].time /\ Begin[i].time \in Int
          BY SubtrackRows, BeginRows
        <4> QED
          BY <4>1, <4>2
      <3>2. AverageTime \in Nat
        BY SmoothingAssumption
      <3>3. rows[i].time - rows[i].time \in (-AverageTime)..AverageTime
        BY <3>1, <3>2
      <3> QED
        BY <3>3 DEF WithinTime
    <2>3. i - i \in (-AverageRadius)..AverageRadius
      BY <1>1, SmoothingAssumption
    <2> QED
      BY <2>1, <2>2, <2>3 DEF Window
  <1>5. Cardinality(window) \in Nat /\ Cardinality(window) > 0
    <2>1. window \in SUBSET (1..Count)
      BY <1>2
    <2>2. IsFiniteSet(window)
      BY <2>1, PlacesOfRows
    <2> HIDE DEF window
    <2>3. Cardinality(window) \in Nat /\ (Cardinality(window) = 0 <=> window = {})
      BY <2>2, FS_CardinalityType, FS_EmptySet
    <2> QED
      BY <1>4, <2>3
  <1>6. total \in Int
    <2> DEFINE n == Count
    <2>1. n \in Nat /\ Len(rows) = n
      BY <1>1
    <2>2. \A k \in 1..n : k \in window => rows[k].x \in Int
      BY <1>1, <1>2, <1>3 DEF Has
    <2> HIDE DEF n, window
    <2> QED
      BY <2>1, <2>2, SumsOfPoints
  <1> HIDE DEF window, total
  <1>7. Mean(rows, window) = total \div Cardinality(window)
    BY DEF Mean, total
  <1>8. total \div Cardinality(window) \in Int
    BY <1>5, <1>6, WholeQuotient
  <1> QED
    BY <1>7, <1>8 DEF window

LEMMA AveragedRows ==
    ASSUME xRaw \in RawTracks, NEW left \in Subtracks, NEW rows, FillsOf(left, rows)
    PROVE  FillsOf(left, Averaged(rows))
  <1> DEFINE smooth == Averaged(rows)
             averaged(i) == Has(rows, i) /\ Cardinality(SegmentOf(rows, i)) >= 3
             mean(i) == Mean(rows, Window(rows, i))
             row(i) == [source |-> rows[i].source, x |-> mean(i),
                        conf |-> rows[i].conf, timed |-> rows[i].timed, time |-> rows[i].time]
  <1>1. Count \in Nat /\ DOMAIN rows = 1..Count /\ NoPoint \notin Int
    BY BeginRows, SmoothingAssumption DEF FillsOf
  <1>2. smooth = [i \in 1..Count |-> IF averaged(i) THEN row(i) ELSE rows[i]]
    BY <1>1 DEF Averaged
  <1>3. DOMAIN smooth = 1..Count /\ Len(smooth) = Count
    <2> DEFINE n == Count
               S == {smooth[i] : i \in 1..n}
    <2>1. smooth \in [1..n -> S] /\ n \in Nat
      <3>1. smooth = [i \in 1..n |-> smooth[i]]
        BY <1>2
      <3> HIDE DEF smooth
      <3> QED
        BY <1>1, <3>1
    <2> HIDE DEF smooth, n, S
    <2>2. DOMAIN smooth = 1..n /\ Len(smooth) = n
      BY <2>1, LengthOfRows
    <2> QED
      BY <2>2 DEF n
  <1>4. \A i \in 1..Count : smooth[i] = IF averaged(i) THEN row(i) ELSE rows[i]
    BY <1>2
  <1>5. \A i \in 1..Count : averaged(i) => mean(i) \in Int /\ Has(rows, i)
    BY MeanOfWindow
  <1> HIDE DEF smooth, averaged, mean
  <1>6. ASSUME NEW i \in 1..Count
        PROVE  /\ smooth[i].time = rows[i].time /\ smooth[i].source = rows[i].source
               /\ smooth[i].x = rows[i].x \/ (smooth[i].x \in Int /\ Has(rows, i))
    <2>1. CASE averaged(i)
      <3>1. smooth[i] = row(i)
        BY <1>4, <2>1
      <3>2. smooth[i].time = rows[i].time /\ smooth[i].source = rows[i].source /\ smooth[i].x = mean(i)
        BY <3>1
      <3> QED
        BY <1>5, <2>1, <3>2
    <2>2. CASE ~averaged(i)
      BY <1>4, <2>2
    <2> QED
      BY <2>1, <2>2
  <1>7. ASSUME NEW i \in 1..Count
        PROVE  Has(smooth, i) <=> Has(rows, i)
    BY <1>1, <1>6 DEF Has
  <1>8. ASSUME NEW i \in 1..Count
        PROVE  smooth[i].x \in Int \cup {NoPoint}
    BY <1>6 DEF FillsOf
  <1> QED
    BY <1>3, <1>6, <1>7, <1>8 DEF FillsOf, smooth

\* The report counts the frames without a point by their two sources, and its longest
\* run without one is empty only if there is no such frame.
LEMMA ReportOfRows ==
    ASSUME xRaw \in RawTracks, NEW left, NEW rows, FillsOf(left, rows)
    PROVE  LET lost == {i \in DOMAIN rows : rows[i].source = "rejected" /\ ~Has(rows, i)}
           IN  /\ QualityReport(rows).covered
                    = Len(rows) - QualityReport(rows).missing - Cardinality(lost)
               /\ QualityReport(rows).longest = 0 <=> QualityReport(rows).covered = Len(rows)
  <1> DEFINE n == Count
             all == 1..n
             with == {i \in DOMAIN rows : Has(rows, i)}
             missing == {i \in DOMAIN rows : rows[i].source = "missing"}
             lost == {i \in DOMAIN rows : rows[i].source = "rejected" /\ ~Has(rows, i)}
             runs == {Cardinality(run) : run \in EmptyRuns(rows)}
             longest == Max({0} \cup runs)
  <1>1. n \in Nat /\ DOMAIN rows = all /\ Len(rows) = n
    BY BeginRows DEF FillsOf
  <1>2. /\ QualityReport(rows).covered = Cardinality(with)
        /\ QualityReport(rows).missing = Cardinality(missing)
        /\ QualityReport(rows).longest = longest
    BY DEF QualityReport, CountSource
  <1>3. IsFiniteSet(all) /\ Cardinality(all) = n /\ all \subseteq Nat
    <2>1. n \in Int /\ 1 \in Int /\ n \in Nat
      BY <1>1
    <2>2. all \subseteq Nat
      BY <2>1
    <2> HIDE DEF n
    <2>3. IsFiniteSet(all) /\ Cardinality(all) = IF 1 > n THEN 0 ELSE (n - 1) + 1
      BY <2>1, FS_Interval
    <2> QED
      BY <2>1, <2>2, <2>3
  <1>4. /\ with \in SUBSET all /\ missing \in SUBSET all /\ lost \in SUBSET all
        /\ all \ with = missing \cup lost /\ missing \cap lost = {}
    BY <1>1 DEF FillsOf
  <1>5. \A k \in all : k \notin with <=> ~Has(rows, k)
    BY <1>1
  <1> HIDE DEF n, all, with, missing, lost, runs, longest
  <1>6. /\ IsFiniteSet(with) /\ IsFiniteSet(missing) /\ IsFiniteSet(lost)
        /\ Cardinality(with) \in Nat /\ Cardinality(missing) \in Nat /\ Cardinality(lost) \in Nat
        /\ Cardinality(with) = n => with = all
    BY <1>3, <1>4, FS_Subset, FS_CardinalityType
  <1>7. Cardinality(all \ with) = n - Cardinality(with)
    <2>1. all \cap with = with
      BY <1>4
    <2> QED
      BY <1>3, <2>1, FS_Difference
  <1>8. Cardinality(missing \cup lost) = Cardinality(missing) + Cardinality(lost)
    <2>1. Cardinality(missing \cup lost)
             = Cardinality(missing) + Cardinality(lost) - Cardinality(missing \cap lost)
      BY <1>6, FS_Union
    <2>2. Cardinality(missing \cap lost) = 0
      BY <1>4, FS_EmptySet
    <2> QED
      BY <1>6, <2>1, <2>2
  <1>9. Cardinality(with) = n - Cardinality(missing) - Cardinality(lost)
    <2> DEFINE w == Cardinality(with)
               m == Cardinality(missing)
               l == Cardinality(lost)
    <2>1. w \in Nat /\ m \in Nat /\ l \in Nat
      BY <1>6
    <2>2. n - w = m + l
      BY <1>4, <1>7, <1>8
    <2> HIDE DEF w, m, l
    <2>3. w = n - m - l
      BY <1>1, <2>1, <2>2
    <2> QED
      BY <2>3 DEF w, m, l
  <1>10. runs \in SUBSET Nat /\ IsFiniteSet(runs)
    <2>1. \A run \in EmptyRuns(rows) : run \in SUBSET all
      <3>1. \A a, b \in all : a..b \in SUBSET all
        BY <1>1 DEF all
      <3> QED
        BY <1>1, <3>1 DEF EmptyRuns
    <2>2. \A run \in SUBSET all : Cardinality(run) \in Nat /\ Cardinality(run) <= n
      BY <1>3, FS_Subset, FS_CardinalityType
    <2>3. runs \in SUBSET Nat /\ \A c \in runs : c <= n
      BY <2>1, <2>2 DEF runs
    <2> QED
      BY <1>1, <2>3, FS_BoundedSetOfNaturals
  <1>11. longest \in {0} \cup runs /\ \A c \in runs : c <= longest
    <2>1. {0} \cup runs \in SUBSET Nat /\ {0} \cup runs # {} /\ IsFiniteSet({0} \cup runs)
      BY <1>10, FS_AddElement
    <2>2. longest \in {0} \cup runs /\ \A c \in {0} \cup runs : c <= longest
      BY <2>1, MaxOfFinite DEF longest
    <2> QED
      BY <2>2
  <1>12. with = all => longest = 0
    <2> SUFFICES ASSUME with = all PROVE runs = {}
      BY <1>11
    <2>1. \A run \in EmptyRuns(rows) : FALSE
      <3>1. \A a, b \in all : a..b \subseteq all
        BY <1>1 DEF all
      <3> QED
        BY <1>1, <1>5, <3>1 DEF EmptyRuns
    <2> QED
      BY <2>1 DEF runs
  <1>13. ASSUME with # all
         PROVE  longest # 0
    <2>1. PICK k \in all : ~Has(rows, k)
      BY <1>4, <1>5, <1>13
    <2>2. k..k = {k}
      BY <1>3
    <2>3. {k} \in EmptyRuns(rows)
      <3> DEFINE intervals == {a..b : a \in DOMAIN rows, b \in DOMAIN rows}
      <3>1. {k} \in intervals
        BY <1>1, <2>2
      <3> QED
        BY <2>1, <3>1 DEF EmptyRuns
    <2>4. Cardinality({k}) = 1
      BY FS_Singleton
    <2>5. 1 \in runs
      BY <2>3, <2>4 DEF runs
    <2> QED
      BY <1>11, <2>5
  <1>14. longest = 0 <=> Cardinality(with) = n
    BY <1>3, <1>6, <1>12, <1>13
  <1> QED
    BY <1>1, <1>2, <1>9, <1>14 DEF lost

LEMMA GapsOfFills ==
    ASSUME xRaw \in RawTracks, NEW left \in Subtracks, NEW rows, FillsOf(left, rows),
           xFiles.rows = rows, xFiles.report \in {NoPoint, QualityReport(rows)}
    PROVE  GapsAsReported
  <1>1. /\ DOMAIN rows = 1..Count /\ DOMAIN left = 1..Count
        /\ Detected(rows) = Detected(left)
    BY SubtrackRows DEF FillsOf, Detected
  <1>2. \A i : Left(rows, i) = Left(left, i) /\ Right(rows, i) = Right(left, i)
    BY <1>1 DEF Left, Right
  <1>3. ASSUME NEW i \in 1..Count
        PROVE  Has(rows, i) <=>
                  \/ i \in Detected(rows)
                  \/ /\ Left(rows, i) # 0 /\ Right(rows, i) # 0
                     /\ Right(rows, i) - Left(rows, i) <= MaxGap + 1
                     /\ xRaw.timed => rows[Right(rows, i)].time - rows[Left(rows, i)].time
                                         <= MaxGapTime
    <2> DEFINE l == Left(left, i)
               r == Right(left, i)
    <2>1. l # 0 => l \in 1..Count
      BY Neighbours
    <2>2. r # 0 => r \in 1..Count
      BY Neighbours
    <2>3. Has(rows, i) <=> (i \in Detected(left) \/ InShortGap(left, i))
      BY DEF FillsOf
    <2>4. InShortGap(left, i) <=>
             /\ i \notin Detected(left)
             /\ l # 0 /\ r # 0
             /\ r - l <= MaxGap + 1
             /\ xRaw.timed => left[r].time - left[l].time <= MaxGapTime
      BY GapOfRow
    <2> HIDE DEF l, r
    <2>5. l # 0 => rows[l].time = left[l].time
      BY <2>1 DEF FillsOf
    <2>6. r # 0 => rows[r].time = left[r].time
      BY <2>2 DEF FillsOf
    <2>7. Has(rows, i) <=>
             \/ i \in Detected(rows)
             \/ /\ l # 0 /\ r # 0
                /\ r - l <= MaxGap + 1
                /\ xRaw.timed => rows[r].time - rows[l].time <= MaxGapTime
      BY <1>1, <2>3, <2>4, <2>5, <2>6
    <2> QED
      BY <1>2, <2>7 DEF l, r
  <1>4. xFiles.report # NoPoint =>
           LET lost == {i \in DOMAIN rows : rows[i].source = "rejected" /\ ~Has(rows, i)}
           IN  /\ xFiles.report.covered
                    = Len(rows) - xFiles.report.missing - Cardinality(lost)
               /\ xFiles.report.longest = 0 <=> xFiles.report.covered = Len(rows)
    BY ReportOfRows
  <1> QED
    BY <1>1, <1>3, <1>4 DEF GapsAsReported

-----------------------------------------------------------------------------
\* What each step of stage 3 leaves, from the detections alone.
Outliered == WithoutOutliers(Begin)
Broken == WithoutBreaks(Outliered)
Gapless == Filled(Broken)
Done == Averaged(Gapless)

LeftAt(pc) ==
    CASE pc \in {"idle", "read"} -> <<>>
      [] pc = "rows" -> Begin
      [] pc = "outliers" -> Outliered
      [] pc = "breaks" -> Broken
      [] pc = "gaps" -> Gapless
      [] pc \in {"csv", "render", "report", "over"} -> Done

SmoothTyped ==
    /\ xRaw \in RawTracks
    /\ xPc \in {"idle", "read", "rows", "outliers", "breaks", "gaps", "csv", "render",
                "report", "over"}
    /\ xFiles = [rows |-> xFiles.rows, report |-> xFiles.report]
RowsLeft ==
    /\ xRows = LeftAt(xPc)
    /\ xClassified = IF xPc \in {"idle", "read"} THEN <<>> ELSE Begin
FilesLeft ==
    /\ xFiles.rows = IF xPc \in {"render", "report", "over"} THEN Done ELSE <<>>
    /\ xFiles.report \in {NoPoint} \cup {report \in {QualityReport(Done)} : xPc = "over"}

SmoothInv == SmoothTyped /\ RowsLeft /\ FilesLeft

LEMMA SmoothInit == X_Init => SmoothInv
  BY DEF X_Init, SmoothInv, SmoothTyped, RowsLeft, FilesLeft, LeftAt

LEMMA SmoothStep == SmoothInv /\ [X_Next]_xVars => SmoothInv'
  <1> SUFFICES ASSUME SmoothInv, [X_Next]_xVars PROVE SmoothInv'
    OBVIOUS
  <1> USE DEF SmoothInv, SmoothTyped, RowsLeft, FilesLeft, LeftAt
  <1>1. xRaw' = xRaw
    BY DEF X_Next, xVars, Stage, ReadDetections, InitializeRows, RejectOutliers, RejectBreaks,
           InterpolateGaps, SmoothSegments, WriteTrajectory, RenderTrajectory, WriteQualityReport
  <1>2. /\ Begin' = Begin /\ Outliered' = Outliered /\ Broken' = Broken
        /\ Gapless' = Gapless /\ Done' = Done
    BY <1>1 DEF Begin, Outliered, Broken, Gapless, Done
  <1>3. CASE UNCHANGED xVars
    BY <1>2, <1>3 DEF xVars
  <1>4. CASE ReadDetections
    BY <1>1, <1>2, <1>4 DEF ReadDetections, Stage
  <1>5. CASE InitializeRows
    BY <1>1, <1>2, <1>5 DEF InitializeRows, Stage, Begin
  <1>6. CASE RejectOutliers
    BY <1>1, <1>2, <1>6 DEF RejectOutliers, Stage, Outliered
  <1>7. CASE RejectBreaks
    BY <1>1, <1>2, <1>7 DEF RejectBreaks, Stage, Broken
  <1>8. CASE InterpolateGaps
    BY <1>1, <1>2, <1>8 DEF InterpolateGaps, Stage, Gapless
  <1>9. CASE SmoothSegments
    BY <1>1, <1>2, <1>9 DEF SmoothSegments, Stage, Done
  <1>10. CASE WriteTrajectory
    BY <1>1, <1>2, <1>10 DEF WriteTrajectory, At3
  <1>11. CASE \E sheet \in BOOLEAN : RenderTrajectory(sheet)
    BY <1>1, <1>2, <1>11 DEF RenderTrajectory, At3
  <1>12. CASE WriteQualityReport
    BY <1>1, <1>2, <1>12 DEF WriteQualityReport, At3
  <1> QED
    BY <1>3, <1>4, <1>5, <1>6, <1>7, <1>8, <1>9, <1>10, <1>11, <1>12 DEF X_Next

\* The final rows keep of the track what the passes left of it.
LEMMA FinalRows ==
    ASSUME xRaw \in RawTracks
    PROVE  /\ Outliered \in Subtracks /\ Broken \in Subtracks
           /\ FillsOf(Broken, Gapless) /\ FillsOf(Broken, Done)
  <1>1. Outliered \in Subtracks
    BY BeginIsSubtrack, PassGivesSubtrack DEF Outliered, WithoutOutliers
  <1>2. Broken \in Subtracks
    BY <1>1, PassGivesSubtrack DEF Broken, WithoutBreaks
  <1>3. FillsOf(Broken, Gapless)
    BY <1>2, FilledRows DEF Gapless
  <1> QED
    BY <1>1, <1>2, <1>3, AveragedRows DEF Done

\* A point is detected in the final rows exactly if both passes left it, and then the
\* first one is, and all of a plausible track.
LEMMA TrackSafe == SmoothInv => PlausibleTrackKept
  <1> SUFFICES ASSUME SmoothInv PROVE PlausibleTrackKept
    OBVIOUS
  <1> DEFINE first == Min(Detected(Begin))
             Lefts == {Begin, Outliered, Broken, Gapless, Done}
  <1>1. xRaw \in RawTracks
    BY DEF SmoothInv, SmoothTyped
  <1>2. xRows # <<>> => xRows \in Lefts /\ xClassified = Begin
    BY DEF SmoothInv, SmoothTyped, RowsLeft, LeftAt
  <1> SUFFICES ASSUME Detected(Begin) # {}, NEW rows \in Lefts
               PROVE  /\ rows[first].source = "detected"
                      /\ PlausibleTrack => Detected(rows) = Detected(Begin)
    BY <1>2 DEF PlausibleTrackKept, PlausibleTrack, NextOf
  <1>3. first \in Detected(Begin) /\ first \in 1..Count /\ Detected(Begin) \subseteq 1..Count
    <2>1. Detected(Begin) \in SUBSET (1..Count)
      BY <1>1, BeginRows DEF Detected
    <2> QED
      BY <1>1, <2>1, PlacesOfRows
  <1>4. Begin[first].source = "detected"
    BY <1>3 DEF Detected
  <1>5. Outliered[first] = Begin[first]
    BY <1>1, BeginIsSubtrack, FirstKept DEF Outliered, WithoutOutliers
  <1>6. Broken[first] = Begin[first]
    BY <1>1, <1>5, FinalRows, FirstKept DEF Broken, WithoutBreaks
  <1>7. PlausibleTrack => Outliered = Begin /\ Broken = Begin
    BY <1>1, PlausibleKept DEF Outliered, Broken, WithoutOutliers, WithoutBreaks
  <1>8. \A filled : FillsOf(Broken, filled) =>
           filled[first].source = "detected" /\ Detected(filled) = Detected(Broken)
    <2> SUFFICES ASSUME NEW filled, FillsOf(Broken, filled)
                 PROVE  filled[first].source = "detected" /\ Detected(filled) = Detected(Broken)
      OBVIOUS
    <2>1. DOMAIN Broken = 1..Count
      BY <1>1, FinalRows, SubtrackRows
    <2>2. first \in Detected(Broken)
      BY <1>3, <1>4, <1>6, <2>1 DEF Detected
    <2> HIDE DEF first
    <2> QED
      BY <1>3, <2>1, <2>2 DEF FillsOf, Detected
  <1>9. FillsOf(Broken, Gapless) /\ FillsOf(Broken, Done)
    BY <1>1, FinalRows
  <1> HIDE DEF first
  <1> QED
    BY <1>4, <1>5, <1>6, <1>7, <1>8, <1>9

LEMMA GapsSafe == SmoothInv => GapsAsReported
  <1> SUFFICES ASSUME SmoothInv PROVE GapsAsReported
    OBVIOUS
  <1>1. xRaw \in RawTracks
    BY DEF SmoothInv, SmoothTyped
  <1>2. CASE xPc \in {"render", "report", "over"}
    <2>1. xFiles.rows = Done /\ xFiles.report \in {NoPoint, QualityReport(Done)}
      BY <1>2 DEF SmoothInv, FilesLeft
    <2> QED
      BY <1>1, <2>1, FinalRows, GapsOfFills
  <1>3. CASE xPc \notin {"render", "report", "over"}
    <2>1. xFiles.rows = <<>> /\ xFiles.report = NoPoint
      BY <1>3 DEF SmoothInv, FilesLeft
    <2>2. DOMAIN xFiles.rows = {}
      BY <2>1
    <2> QED
      BY <2>1, <2>2 DEF GapsAsReported
  <1> QED
    BY <1>2, <1>3

\* Both passes read rows they have already changed, and yet the first detection always
\* survives them and a plausible track loses none of its points.
THEOREM TracksKept == X_Spec => []PlausibleTrackKept
  <1> QED
    BY SmoothInit, SmoothStep, TrackSafe, PTL DEF X_Spec

\* The trajectory file has a point exactly where one survived or a gap was short enough,
\* and the report counts the rest.
THEOREM GapsReported == X_Spec => []GapsAsReported
  <1> QED
    BY SmoothInit, SmoothStep, GapsSafe, PTL DEF X_Spec

-----------------------------------------------------------------------------
(* Player tracks                                                           *)

\* What holds of the base and is kept by each step holds of all steps.
LEMMA StepsReach ==
    ASSUME NEW n \in Nat, NEW g, NEW base, NEW step, FollowsSteps(g, n, base, step),
           NEW Good, <<0, base>> \in Good,
           \A k \in 1..n : \A x : <<k - 1, x>> \in Good => <<k, step[<<x, k>>]>> \in Good
    PROVE  \A k \in 0..n : <<k, g[k]>> \in Good
  <1> DEFINE Out == {k \in 0..n : <<k, g[k]>> \notin Good}
  <1> SUFFICES ASSUME Out # {} PROVE FALSE
    OBVIOUS
  <1>1. PICK k \in Out : \A j \in Out : k <= j
    <2>1. Out \in SUBSET Nat
      OBVIOUS
    <2> HIDE DEF Out
    <2> QED
      BY <2>1, LeastNumber
  <1>2. k \in 0..n /\ <<k, g[k]>> \notin Good
    OBVIOUS
  <1>3. k # 0
    <2> SUFFICES ASSUME k = 0 PROVE FALSE
      OBVIOUS
    <2>1. g[k] = base
      BY <1>2 DEF FollowsSteps
    <2> QED
      BY <1>2, <2>1
  <1>4. k - 1 \in 0..n /\ k \in 1..n /\ k - 1 < k
    BY <1>2, <1>3
  <1>5. <<k - 1, g[k - 1]>> \in Good
    <2>1. k - 1 \in Out => k <= k - 1
      BY <1>1
    <2> QED
      BY <1>2, <1>4, <2>1
  <1>6. g[k] = step[<<g[k - 1], k>>]
    BY <1>2, <1>3 DEF FollowsSteps
  <1> QED
    BY <1>2, <1>4, <1>5, <1>6

\* Of finitely many things with a score and a rank, one has the highest score and among
\* those the lowest rank.
LEMMA BestOf ==
    ASSUME NEW S, S # {}, IsFiniteSet(S), NEW score \in [S -> Nat], NEW rank \in [S -> Nat]
    PROVE  \E r \in S : \A s \in S : score[r] > score[s] \/ (score[r] = score[s] /\ rank[r] <= rank[s])
  <1> DEFINE scores == {score[s] : s \in S}
             most == Max(scores)
             first == {rank[s] : s \in {r \in S : score[r] = most}}
  <1>1. scores \in SUBSET Nat /\ scores # {}
    OBVIOUS
  <1>2. IsFiniteSet(scores)
    <2>1. score \in [S -> scores] /\ \A m \in scores : \E s \in S : score[s] = m
      OBVIOUS
    <2> HIDE DEF scores
    <2>2. score \in Surjection(S, scores)
      BY <2>1 DEF Surjection
    <2> QED
      BY <2>2, FS_Surjection
  <1>3. most \in scores /\ \A m \in scores : m <= most
    <2> HIDE DEF scores
    <2> QED
      BY <1>1, <1>2, MaxOfFinite
  <1> HIDE DEF most
  <1>4. first \in SUBSET Nat /\ first # {}
    BY <1>3
  <1>5. PICK least \in first : \A m \in first : least <= m
    <2> HIDE DEF first
    <2> QED
      BY <1>4, LeastNumber
  <1>6. PICK r \in S : score[r] = most /\ rank[r] = least
    BY <1>5
  <1>7. \A s \in S : score[s] <= most /\ (score[s] = most => least <= rank[s])
    BY <1>3, <1>5
  <1>8. \A s \in S : score[r] > score[s] \/ (score[r] = score[s] /\ rank[r] <= rank[s])
    BY <1>6, <1>7
  <1> QED
    BY <1>8

TrackBox == [place : Int, foot : Int \cup {NoPose}, bottom : Int, score : Int,
             worth : Nat, sound : BOOLEAN]

StatesTyped ==
    /\ pNext \in Nat \ {0}
    /\ DOMAIN pStates \subseteq 1..(pNext - 1)
    /\ \A id \in DOMAIN pStates : pStates[id].place \in Int /\ pStates[id].missed \in Nat

\* What the tracks up to k took: each at most one box, no box twice, and a track that
\* took none matches none that is left.
LinksUpTo(boxes, k, links) ==
    /\ links \subseteq [id : 1..k, at : DOMAIN boxes]
    /\ \A t \in links : t.id \in DOMAIN pStates /\ Matches(pStates[t.id], boxes[t.at])
    /\ \A t, u \in links : t.id = u.id \/ t.at = u.at => t = u
    /\ \A id \in DOMAIN pStates : id <= k /\ (\A t \in links : t.id # id) =>
          \A i \in Free(boxes, links) : ~Matches(pStates[id], boxes[i])

LEMMA BoxesOfFrame ==
    ASSUME NEW boxes \in Seq(TrackBox)
    PROVE  /\ Len(boxes) \in Nat /\ DOMAIN boxes = 1..Len(boxes) /\ IsFiniteSet(DOMAIN boxes)
           /\ \A i \in DOMAIN boxes : i \in Nat /\ boxes[i] \in TrackBox /\ boxes[i].place \in Int
  <1>1. Len(boxes) \in Nat /\ DOMAIN boxes = 1..Len(boxes)
    BY LenProperties
  <1>2. IsFiniteSet(DOMAIN boxes)
    <2> DEFINE n == Len(boxes)
    <2>1. n \in Int /\ 1 \in Int
      BY <1>1
    <2> HIDE DEF n
    <2>2. IsFiniteSet(1..n)
      BY <2>1, FS_Interval
    <2> QED
      BY <1>1, <2>2 DEF n
  <1>3. \A i \in DOMAIN boxes : i \in Nat /\ boxes[i] \in TrackBox
    BY <1>1, ElementOfSeq
  <1> QED
    BY <1>1, <1>2, <1>3 DEF TrackBox

LEMMA OverlapIsNumber == \A a, b \in Int : Overlap(a, b) \in Nat
  <1> SUFFICES ASSUME NEW a \in Int, NEW b \in Int PROVE Overlap(a, b) \in Nat
    OBVIOUS
  <1> DEFINE common == BoxWidth - Distance(a, b)
  <1>1. common \in Int
    BY PlayersAssumption DEF Distance
  <1>2. Overlap(a, b) = Max({0, common})
    BY DEF Overlap
  <1> HIDE DEF common
  <1>3. \E x \in {0, common} : \A y \in {0, common} : x >= y
    BY <1>1
  <1>4. Max({0, common}) \in {0, common} /\ \A y \in {0, common} : Max({0, common}) >= y
    <2> DEFINE S == {0, common}
    <2>1. Max(S) = CHOOSE x \in S : \A y \in S : x >= y
      BY DEF Max
    <2>2. \E x \in S : \A y \in S : x >= y
      BY <1>3
    <2> HIDE DEF S
    <2>3. Max(S) \in S /\ \A y \in S : Max(S) >= y
      BY <2>1, <2>2
    <2> QED
      BY <2>3 DEF S
  <1> QED
    BY <1>1, <1>2, <1>4

LEMMA TakesBest ==
    ASSUME NEW boxes \in Seq(TrackBox), StatesTyped, NEW k \in Nat \ {0}, k \in DOMAIN pStates,
           NEW links, LinksUpTo(boxes, k - 1, links)
    PROVE  LinksUpTo(boxes, k, TakeBox(boxes, links, k))
  <1> DEFINE place == pStates[k].place
             near == {i \in Free(boxes, links) : Matches(pStates[k], boxes[i])}
             Best(i) == \A j \in near :
                           LET a == Overlap(place, boxes[i].place)
                               b == Overlap(place, boxes[j].place)
                           IN  a > b \/ (a = b /\ i <= j)
             best == CHOOSE i \in near : Best(i)
             after == TakeBox(boxes, links, k)
  <1>1. near \subseteq DOMAIN boxes /\ near \subseteq Free(boxes, links)
    BY DEF Free
  <1>2. near # {} => \E i \in near : Best(i)
    <2> SUFFICES ASSUME near # {} PROVE \E i \in near : Best(i)
      OBVIOUS
    <2> DEFINE score == [i \in near |-> Overlap(place, boxes[i].place)]
               rank == [i \in near |-> i]
    <2>1. IsFiniteSet(near)
      BY <1>1, BoxesOfFrame, FS_Subset
    <2>2. score \in [near -> Nat] /\ rank \in [near -> Nat]
      <3>1. place \in Int
        BY DEF StatesTyped
      <3>2. \A i \in near : i \in Nat /\ boxes[i].place \in Int
        BY <1>1, BoxesOfFrame
      <3> HIDE DEF near, place
      <3> QED
        BY <3>1, <3>2, OverlapIsNumber
    <2>3. \A i \in near : score[i] = Overlap(place, boxes[i].place) /\ rank[i] = i
      OBVIOUS
    <2> HIDE DEF near, place, score, rank
    <2>4. PICK r \in near : \A s \in near :
             score[r] > score[s] \/ (score[r] = score[s] /\ rank[r] <= rank[s])
      BY <2>1, <2>2, BestOf
    <2>5. Best(r)
      BY <2>3, <2>4
    <2> QED
      BY <2>5
  <1>3. near # {} => best \in near
    <2> HIDE DEF near, Best
    <2> QED
      BY <1>2
  <1>4. after = IF near = {} THEN links ELSE links \cup {[id |-> k, at |-> best]}
    BY DEF TakeBox
  <1> HIDE DEF best, after
  <1>5. \A t \in links : t.id \in 1..(k - 1) /\ t.at \in DOMAIN boxes /\ t.id # k /\ t.id \in 1..k
                         /\ t \in [id : 1..k, at : DOMAIN boxes]
    BY DEF LinksUpTo
  <1>6. \A id \in DOMAIN pStates : id \in Nat /\ (id <= k => id <= k - 1 \/ id = k)
    BY DEF StatesTyped
  <1>7. CASE near = {}
    <2>1. after = links
      BY <1>4, <1>7
    <2>2. \A i \in Free(boxes, links) : ~Matches(pStates[k], boxes[i])
      BY <1>7
    <2> HIDE DEF near
    <2> QED
      BY <1>5, <1>6, <2>1, <2>2 DEF LinksUpTo, after
  <1>8. CASE near # {}
    <2> DEFINE new == [id |-> k, at |-> best]
    <2>1. after = links \cup {new} /\ new.id = k /\ new.at = best
      BY <1>4, <1>8
    <2>2. best \in Free(boxes, links) /\ Matches(pStates[k], boxes[best]) /\ best \in DOMAIN boxes
      BY <1>1, <1>3, <1>8
    <2>3. \A t \in links : t.at # best
      BY <2>2 DEF Free
    <2>4. new \in [id : 1..k, at : DOMAIN boxes]
      BY <2>2
    <2>5. Free(boxes, after) \subseteq Free(boxes, links)
      BY <2>1 DEF Free
    <2> HIDE DEF near, new
    <2>6. after \subseteq [id : 1..k, at : DOMAIN boxes]
      BY <1>5, <2>1, <2>4
    <2>7. \A t \in after : t.id \in DOMAIN pStates /\ Matches(pStates[t.id], boxes[t.at])
      BY <2>1, <2>2 DEF LinksUpTo
    <2>8. \A t, u \in after : t.id = u.id \/ t.at = u.at => t = u
      BY <1>5, <2>1, <2>3 DEF LinksUpTo
    <2>9. ASSUME NEW id \in DOMAIN pStates, id <= k, \A t \in after : t.id # id
          PROVE  \A i \in Free(boxes, after) : ~Matches(pStates[id], boxes[i])
      <3>1. id # k /\ id <= k - 1
        BY <1>6, <2>1, <2>9
      <3> QED
        BY <2>1, <2>5, <2>9, <3>1 DEF LinksUpTo
    <2> QED
      BY <2>6, <2>7, <2>8, <2>9 DEF LinksUpTo, after
  <1> QED
    BY <1>7, <1>8

LEMMA TracksLinked ==
    ASSUME NEW boxes \in Seq(TrackBox), StatesTyped
    PROVE  LinksUpTo(boxes, pNext - 1, Linked(boxes))
  <1> DEFINE n == pNext - 1
             take(links, k) == IF k \in DOMAIN pStates THEN TakeBox(boxes, links, k) ELSE links
             S == SUBSET [id : 1..n, at : DOMAIN boxes]
             Good == {p \in (0..n) \X S : LinksUpTo(boxes, p[1], p[2])}
             step == [p \in S \X (1..n) |-> IF <<p[2] - 1, p[1]>> \in Good THEN take(p[1], p[2]) ELSE {}]
             Steps(h) == h = [k \in 0..n |-> IF k = 0 THEN {} ELSE take(h[k - 1], k)]
             L == LinkSteps(boxes)
  <1>1. n \in Nat
    BY DEF StatesTyped
  <1>2. \A k \in 0..n : \A links : <<k, links>> \in Good <=> LinksUpTo(boxes, k, links)
    <2> SUFFICES ASSUME NEW k \in 0..n, NEW links, LinksUpTo(boxes, k, links)
                 PROVE  links \in S
      OBVIOUS
    <2>1. links \subseteq [id : 1..k, at : DOMAIN boxes]
      BY DEF LinksUpTo
    <2>2. 1..k \subseteq 1..n
      BY <1>1
    <2> QED
      BY <2>1, <2>2
  <1>3. ASSUME NEW k \in 1..n, NEW links, <<k - 1, links>> \in Good
        PROVE  <<k, take(links, k)>> \in Good
    <2>1. k - 1 \in 0..n /\ k \in 0..n /\ k \in Nat \ {0}
      BY <1>1
    <2>2. LinksUpTo(boxes, k - 1, links)
      BY <1>2, <1>3, <2>1
    <2>3. LinksUpTo(boxes, k, take(links, k))
      <3>1. CASE k \in DOMAIN pStates
        BY <2>1, <2>2, <3>1, TakesBest
      <3>2. CASE k \notin DOMAIN pStates
        <4>1. take(links, k) = links
          BY <3>2
        <4>2. \A t \in links : t \in [id : 1..k, at : DOMAIN boxes]
          <5>1. 1..(k - 1) \subseteq 1..k
            BY <2>1
          <5> QED
            BY <2>2, <5>1 DEF LinksUpTo
        <4>3. \A id \in DOMAIN pStates : id <= k => id <= k - 1
          BY <2>1, <3>2 DEF StatesTyped
        <4> HIDE DEF take
        <4> QED
          BY <2>2, <4>1, <4>2, <4>3 DEF LinksUpTo
      <3> QED
        BY <3>1, <3>2
    <2> HIDE DEF take, Good
    <2> QED
      BY <1>2, <2>1, <2>3
  <1>4. \A k \in 0..n : \A links : <<k, links>> \in Good => links \in S
    OBVIOUS
  <1>5. <<0, {}>> \in Good
    <2>1. LinksUpTo(boxes, 0, {})
      BY DEF LinksUpTo, StatesTyped
    <2>2. 0 \in 0..n
      BY <1>1
    <2> HIDE DEF Good, n
    <2> QED
      BY <1>2, <2>1, <2>2
  <1> HIDE DEF take, Good
  <1>6. step \in [S \X (1..n) -> S]
    <2> SUFFICES ASSUME NEW links \in S, NEW k \in 1..n, <<k - 1, links>> \in Good
                 PROVE  take(links, k) \in S
      OBVIOUS
    <2>1. k \in 0..n
      BY <1>1
    <2> HIDE DEF S
    <2> QED
      BY <1>3, <1>4, <2>1
  <1>7. \A k \in 1..n : \A links : <<k - 1, links>> \in Good => step[<<links, k>>] = take(links, k)
    <2> SUFFICES ASSUME NEW k \in 1..n, NEW links, <<k - 1, links>> \in Good
                 PROVE  step[<<links, k>>] = take(links, k)
      OBVIOUS
    <2>1. links \in S
      <3>1. k - 1 \in 0..n
        BY <1>1
      <3> HIDE DEF S
      <3> QED
        BY <1>4, <3>1
    <2> HIDE DEF S
    <2> QED
      BY <2>1
  <1>8. {} \in S
    OBVIOUS
  <1> HIDE DEF step, S, n
  <1>9. PICK g \in [0..n -> S] : FollowsSteps(g, n, {}, step)
    BY <1>1, <1>6, <1>8, StepByStep
  <1>10. \A k \in 0..n : <<k, g[k]>> \in Good
    <2>1. \A k \in 1..n : \A x : <<k - 1, x>> \in Good => <<k, step[<<x, k>>]>> \in Good
      BY <1>3, <1>7
    <2> QED
      BY <1>1, <1>5, <1>9, <2>1, StepsReach
  <1>11. Steps(g)
    <2>1. \A k \in 0..n : k # 0 => k \in 1..n /\ k - 1 \in 0..n
      BY <1>1
    <2>2. \A k \in 0..n : g[k] = IF k = 0 THEN {} ELSE take(g[k - 1], k)
      BY <1>7, <1>9, <1>10, <2>1 DEF FollowsSteps
    <2> QED
      BY <1>9, <2>2
  <1>12. L = CHOOSE h : Steps(h)
    BY DEF LinkSteps, take, n
  <1>13. Steps(L)
    <2> HIDE DEF Steps, L
    <2> QED
      BY <1>11, <1>12
  <1> HIDE DEF L
  <1>14. FollowsSteps(L, n, {}, step) /\ \A k \in 0..n : <<k, L[k]>> \in Good
    <2> DEFINE Reached == {p \in {<<k, L[k]>> : k \in 0..n} : p \in Good}
               Out == {k \in 0..n : <<k, L[k]>> \notin Good}
    <2>1. \A k \in 0..n : L[k] = IF k = 0 THEN {} ELSE take(L[k - 1], k)
      BY <1>13
    <2>2. \A k \in 0..n : k # 0 => k \in 1..n /\ k - 1 \in 0..n /\ k - 1 < k
      BY <1>1
    <2>3. Out = {}
      <3> SUFFICES ASSUME Out # {} PROVE FALSE
        OBVIOUS
      <3>1. PICK k \in Out : \A j \in Out : k <= j
        <4>1. Out \in SUBSET Nat
          BY <1>1
        <4> HIDE DEF Out
        <4> QED
          BY <4>1, LeastNumber
      <3>2. k \in 0..n /\ <<k, L[k]>> \notin Good
        OBVIOUS
      <3>3. k # 0
        BY <1>5, <2>1, <3>2
      <3>4. <<k - 1, L[k - 1]>> \in Good
        <4>1. k - 1 \in Out => k <= k - 1
          BY <3>1
        <4> QED
          BY <1>1, <2>2, <3>2, <3>3, <4>1
      <3> QED
        BY <1>3, <2>1, <2>2, <3>2, <3>3, <3>4
    <2>4. \A k \in 0..n : <<k, L[k]>> \in Good
      BY <2>3
    <2> QED
      BY <1>7, <2>1, <2>2, <2>4 DEF FollowsSteps
  <1>15. n \in 0..n /\ Linked(boxes) = L[n]
    BY <1>1 DEF Linked, L, n
  <1>16. LinksUpTo(boxes, n, L[n])
    BY <1>2, <1>14, <1>15
  <1> QED
    BY <1>15, <1>16 DEF n

TracksOf(boxes) == Linked(boxes) \cup Started(boxes)

\* New tracks are numbered from the next id on, in the order of their boxes.
LEMMA TracksStarted ==
    ASSUME NEW boxes \in Seq(TrackBox), StatesTyped
    PROVE  LET free == Free(boxes, Linked(boxes))
           IN  /\ Cardinality(free) \in Nat /\ free \subseteq DOMAIN boxes
               /\ \A i \in free : /\ NewId(boxes, i) \in pNext..(pNext + Cardinality(free) - 1)
                                  /\ NewId(boxes, i) \in Nat /\ NewId(boxes, i) >= pNext
               /\ \A i, j \in free : i # j => NewId(boxes, i) # NewId(boxes, j)
  <1> DEFINE free == Free(boxes, Linked(boxes))
             below(i) == {j \in free : j < i}
             rank(i) == Cardinality(below(i))
  <1>1. free \subseteq DOMAIN boxes /\ IsFiniteSet(free) /\ \A i \in free : i \in Nat
    <2>1. free \subseteq DOMAIN boxes
      BY DEF Free
    <2> HIDE DEF free
    <2> QED
      BY <2>1, BoxesOfFrame, FS_Subset
  <1>2. \A i : NewId(boxes, i) = pNext + rank(i)
    BY DEF NewId
  <1>3. \A i \in free : below(i) \in SUBSET free /\ i \notin below(i)
    <2> HIDE DEF free
    <2> QED
      BY <1>1
  <1>4. \A i, j \in free : i < j => below(i) \subseteq below(j) /\ i \in below(j)
    <2> HIDE DEF free
    <2> QED
      BY <1>1
  <1> HIDE DEF free, below
  <1>5. \A i \in free : IsFiniteSet(below(i)) /\ rank(i) \in Nat /\ rank(i) < Cardinality(free)
    <2> SUFFICES ASSUME NEW i \in free
                 PROVE  IsFiniteSet(below(i)) /\ rank(i) \in Nat /\ rank(i) < Cardinality(free)
      OBVIOUS
    <2>1. below(i) \in SUBSET free /\ below(i) # free
      BY <1>3
    <2>2. /\ IsFiniteSet(below(i)) /\ Cardinality(below(i)) <= Cardinality(free)
          /\ Cardinality(free) = Cardinality(below(i)) => free = below(i)
      BY <1>1, <2>1, FS_Subset
    <2>3. Cardinality(free) \in Nat /\ Cardinality(below(i)) \in Nat
      BY <1>1, <2>2, FS_CardinalityType
    <2> QED
      BY <2>1, <2>2, <2>3
  <1>6. \A i, j \in free : i < j => rank(i) < rank(j)
    <2> SUFFICES ASSUME NEW i \in free, NEW j \in free, i < j PROVE rank(i) < rank(j)
      OBVIOUS
    <2>1. below(i) \in SUBSET below(j) /\ below(i) # below(j)
      BY <1>3, <1>4
    <2>2. /\ Cardinality(below(i)) <= Cardinality(below(j))
          /\ Cardinality(below(j)) = Cardinality(below(i)) => below(j) = below(i)
      BY <1>5, <2>1, FS_Subset
    <2> QED
      BY <1>5, <2>1, <2>2
  <1>7. Cardinality(free) \in Nat
    BY <1>1, FS_CardinalityType
  <1> HIDE DEF rank
  <1>8. pNext \in Nat
    BY DEF StatesTyped
  <1>9. \A i \in free : /\ NewId(boxes, i) \in pNext..(pNext + Cardinality(free) - 1)
                        /\ NewId(boxes, i) \in Nat /\ NewId(boxes, i) >= pNext
    <2> DEFINE c == Cardinality(free)
    <2>1. c \in Nat
      BY <1>7
    <2>2. \A i \in free : rank(i) \in Nat /\ rank(i) < c
      BY <1>5
    <2> HIDE DEF c
    <2>3. \A i \in free : /\ pNext + rank(i) \in pNext..(pNext + c - 1)
                          /\ pNext + rank(i) \in Nat /\ pNext + rank(i) >= pNext
      BY <1>8, <2>1, <2>2
    <2> QED
      BY <1>2, <2>3 DEF c
  <1>10. \A i, j \in free : i # j => NewId(boxes, i) # NewId(boxes, j)
    <2>1. \A i, j \in free : i # j => rank(i) # rank(j)
      BY <1>1, <1>5, <1>6
    <2> QED
      BY <1>2, <1>5, <1>8, <2>1
  <1> QED
    BY <1>1, <1>7, <1>9, <1>10 DEF free

LEMMA TracksOfFrame ==
    ASSUME NEW boxes \in Seq(TrackBox), StatesTyped
    PROVE  /\ \A t \in Linked(boxes) : /\ t.id \in DOMAIN pStates /\ t.at \in DOMAIN boxes
                                       /\ Matches(pStates[t.id], boxes[t.at])
           /\ \A t \in Started(boxes) : /\ t.id \in Nat /\ t.id >= pNext /\ t.id \notin DOMAIN pStates
                                        /\ t.id < pNext + Cardinality(Free(boxes, Linked(boxes)))
                                        /\ t.at \in DOMAIN boxes
           /\ \A t, u \in TracksOf(boxes) : t.id = u.id \/ t.at = u.at => t = u
           /\ \A id \in DOMAIN pStates : (\A t \in Linked(boxes) : t.id # id) =>
                 \A t \in Started(boxes) : ~Matches(pStates[id], boxes[t.at])
  <1> DEFINE free == Free(boxes, Linked(boxes))
             n == pNext - 1
  <1>1. LinksUpTo(boxes, n, Linked(boxes))
    BY TracksLinked
  <1>2. /\ pNext \in Nat \ {0} /\ \A id \in DOMAIN pStates : id \in Nat /\ id < pNext /\ id <= n
    BY DEF StatesTyped
  <1>3. \A t \in Linked(boxes) : /\ t.id \in DOMAIN pStates /\ t.at \in DOMAIN boxes
                                 /\ Matches(pStates[t.id], boxes[t.at])
    BY <1>1 DEF LinksUpTo
  <1>4. \A t \in Started(boxes) : \E i \in free : t = [id |-> NewId(boxes, i), at |-> i]
    BY DEF Started
  <1>5. \A t \in Started(boxes) : t.at \in free /\ t.id = NewId(boxes, t.at)
                                  /\ t = [id |-> NewId(boxes, t.at), at |-> t.at]
    BY <1>4
  <1>6. /\ Cardinality(free) \in Nat /\ free \subseteq DOMAIN boxes
        /\ \A i \in free : /\ NewId(boxes, i) \in pNext..(pNext + Cardinality(free) - 1)
                           /\ NewId(boxes, i) \in Nat /\ NewId(boxes, i) >= pNext
        /\ \A i, j \in free : i # j => NewId(boxes, i) # NewId(boxes, j)
    BY TracksStarted
  <1>7. \A t \in Linked(boxes) : t.at \notin free
    BY DEF Free
  <1> HIDE DEF free, n
  <1>8. \A t \in Started(boxes) : /\ t.id \in Nat /\ t.id >= pNext /\ t.id \notin DOMAIN pStates
                                  /\ t.id < pNext + Cardinality(free)
                                  /\ t.at \in DOMAIN boxes
    <2> SUFFICES ASSUME NEW t \in Started(boxes)
                 PROVE  /\ t.id \in Nat /\ t.id >= pNext /\ t.id \notin DOMAIN pStates
                        /\ t.id < pNext + Cardinality(free)
                        /\ t.at \in DOMAIN boxes
      OBVIOUS
    <2> DEFINE c == Cardinality(free)
               id == t.id
    <2>1. id \in pNext..(pNext + c - 1) /\ id \in Nat /\ id >= pNext /\ c \in Nat /\ t.at \in DOMAIN boxes
      BY <1>5, <1>6
    <2> HIDE DEF c, id
    <2>2. id < pNext + c /\ id \notin DOMAIN pStates
      BY <1>2, <2>1
    <2> QED
      BY <2>1, <2>2 DEF c, id
  <1>9. \A t, u \in TracksOf(boxes) : t.id = u.id \/ t.at = u.at => t = u
    <2> SUFFICES ASSUME NEW t \in TracksOf(boxes), NEW u \in TracksOf(boxes),
                        t.id = u.id \/ t.at = u.at
                 PROVE  t = u
      OBVIOUS
    <2>1. CASE t \in Linked(boxes) /\ u \in Linked(boxes)
      BY <1>1, <2>1 DEF LinksUpTo
    <2>2. CASE t \in Started(boxes) /\ u \in Started(boxes)
      <3>1. t.at = u.at
        BY <1>5, <1>6, <2>2
      <3> QED
        BY <1>5, <2>2, <3>1
    <2>3. CASE t \in Linked(boxes) /\ u \in Started(boxes)
      BY <1>3, <1>5, <1>7, <1>8, <2>3
    <2>4. CASE t \in Started(boxes) /\ u \in Linked(boxes)
      BY <1>3, <1>5, <1>7, <1>8, <2>4
    <2> QED
      BY <2>1, <2>2, <2>3, <2>4 DEF TracksOf
  <1>10. \A id \in DOMAIN pStates : (\A t \in Linked(boxes) : t.id # id) =>
            \A t \in Started(boxes) : ~Matches(pStates[id], boxes[t.at])
    <2>1. \A id \in DOMAIN pStates : (\A t \in Linked(boxes) : t.id # id) =>
             \A i \in free : ~Matches(pStates[id], boxes[i])
      BY <1>1, <1>2 DEF LinksUpTo, free
    <2> QED
      BY <1>5, <2>1
  <1> QED
    BY <1>3, <1>8, <1>9, <1>10 DEF free

LEMMA StatesOfFrame ==
    ASSUME NEW boxes \in Seq(TrackBox), StatesTyped
    PROVE  LET after == StatesAfter(boxes)
               seen(id) == \E t \in TracksOf(boxes) : t.id = id
           IN  /\ \A t \in TracksOf(boxes) : /\ t.id \in DOMAIN after
                                             /\ after[t.id].place = boxes[t.at].place
                                             /\ after[t.id].missed = 0
               /\ \A id \in DOMAIN pStates : ~seen(id) =>
                     /\ id \in DOMAIN after <=> pStates[id].missed + 1 <= MaxMissed
                     /\ id \in DOMAIN after => /\ after[id].place = pStates[id].place
                                               /\ after[id].missed = pStates[id].missed + 1
               /\ \A id \in DOMAIN after : id \in DOMAIN pStates \/ seen(id)
  <1> DEFINE after == StatesAfter(boxes)
             kept == {old \in DOMAIN pStates : Alive(StateAfter(boxes, old))}
             begun == {t.id : t \in Started(boxes)}
             place(id) == boxes[(CHOOSE t \in Started(boxes) : t.id = id).at].place
  <1>1. /\ \A t \in Linked(boxes) : t.id \in DOMAIN pStates
        /\ \A t \in Started(boxes) : t.id \notin DOMAIN pStates
        /\ \A t, u \in TracksOf(boxes) : t.id = u.id => t = u
        /\ MaxMissed \in Nat
    BY TracksOfFrame, PlayersAssumption
  <1>2. after = [id \in kept \cup begun |-> IF id \in DOMAIN pStates THEN StateAfter(boxes, id)
                                            ELSE [place |-> place(id), missed |-> 0]]
    BY DEF StatesAfter
  <1>3. \A t \in Linked(boxes) :
           StateAfter(boxes, t.id) = [place |-> boxes[t.at].place, missed |-> 0]
    <2> SUFFICES ASSUME NEW t \in Linked(boxes)
                 PROVE  StateAfter(boxes, t.id) = [place |-> boxes[t.at].place, missed |-> 0]
      OBVIOUS
    <2>1. LinkOf(boxes, t.id) = {t}
      BY <1>1 DEF LinkOf, TracksOf
    <2>2. (CHOOSE u \in LinkOf(boxes, t.id) : TRUE) = t
      BY <2>1
    <2> QED
      BY <2>1, <2>2 DEF StateAfter
  <1>4. \A id \in DOMAIN pStates : (\A t \in Linked(boxes) : t.id # id) =>
           StateAfter(boxes, id) = [place |-> pStates[id].place, missed |-> pStates[id].missed + 1]
    BY DEF StateAfter, LinkOf
  <1>5. \A t \in Started(boxes) : place(t.id) = boxes[t.at].place
    <2> SUFFICES ASSUME NEW t \in Started(boxes) PROVE place(t.id) = boxes[t.at].place
      OBVIOUS
    <2>1. \A u \in Started(boxes) : u.id = t.id => u = t
      BY <1>1 DEF TracksOf
    <2>2. (CHOOSE u \in Started(boxes) : u.id = t.id) = t
      BY <2>1
    <2> QED
      BY <2>2
  <1>6. DOMAIN after = kept \cup begun
    BY <1>2
  <1>7. \A id \in kept \cup begun :
           after[id] = IF id \in DOMAIN pStates THEN StateAfter(boxes, id)
                       ELSE [place |-> place(id), missed |-> 0]
    BY <1>2
  <1> HIDE DEF after, place
  <1>8. \A t \in TracksOf(boxes) : /\ t.id \in DOMAIN after
                                   /\ after[t.id].place = boxes[t.at].place
                                   /\ after[t.id].missed = 0
    <2> SUFFICES ASSUME NEW t \in TracksOf(boxes)
                 PROVE  /\ t.id \in DOMAIN after
                        /\ after[t.id].place = boxes[t.at].place
                        /\ after[t.id].missed = 0
      OBVIOUS
    <2>1. t.id \in DOMAIN after /\ after[t.id] = [place |-> boxes[t.at].place, missed |-> 0]
      <3>1. CASE t \in Linked(boxes)
        <4>1. StateAfter(boxes, t.id).missed = 0 /\ t.id \in DOMAIN pStates
          <5> HIDE DEF kept, begun
          <5>1. StateAfter(boxes, t.id) = [place |-> boxes[t.at].place, missed |-> 0]
            BY <1>3, <3>1
          <5> QED
            BY <1>1, <3>1, <5>1
        <4>2. t.id \in kept
          BY <1>1, <4>1 DEF Alive
        <4> HIDE DEF kept, begun
        <4> QED
          BY <1>3, <1>6, <1>7, <3>1, <4>1, <4>2
      <3>2. CASE t \in Started(boxes)
        BY <1>1, <1>5, <1>6, <1>7, <3>2
      <3> QED
        BY <3>1, <3>2 DEF TracksOf
    <2> QED
      BY <2>1
  <1>9. ASSUME NEW id \in DOMAIN pStates, ~ \E t \in TracksOf(boxes) : t.id = id
        PROVE  /\ id \in DOMAIN after <=> pStates[id].missed + 1 <= MaxMissed
               /\ id \in DOMAIN after => /\ after[id].place = pStates[id].place
                                         /\ after[id].missed = pStates[id].missed + 1
    <2>1. StateAfter(boxes, id) = [place |-> pStates[id].place, missed |-> pStates[id].missed + 1]
      BY <1>4, <1>9 DEF TracksOf
    <2>2. id \notin begun
      BY <1>1
    <2>3. id \in kept <=> pStates[id].missed + 1 <= MaxMissed
      BY <2>1 DEF Alive
    <2> HIDE DEF kept, begun
    <2>4. id \in DOMAIN after =>
             after[id] = [place |-> pStates[id].place, missed |-> pStates[id].missed + 1]
      BY <1>6, <1>7, <2>1, <2>2
    <2> QED
      BY <1>6, <2>2, <2>3, <2>4
  <1>10. \A id \in DOMAIN after : id \in DOMAIN pStates \/ \E t \in TracksOf(boxes) : t.id = id
    BY <1>6 DEF TracksOf
  <1> QED
    BY <1>8, <1>9, <1>10 DEF after

FollowedIn(f) ==
    /\ \A r, s \in pFrames[f] : r.id = s.id \/ r.at = s.at => r = s
    /\ \A row \in pFrames[f] :
        /\ \A g \in 1..(f - 1) : LastBefore(g, f, row.id) =>
            /\ f - g <= MaxMissed + 1
            /\ \A last \in RowsOf(g, row.id) :
                /\ Overlap(last.box.place, row.box.place) >= MatchThreshold
                /\ row.identity = IF g = f - 1 THEN last.identity ELSE SideOf(row.y)
        /\ (\A g \in 1..(f - 1) : row.id \notin SeenIn(g)) =>
            /\ row.identity = SideOf(row.y)
            /\ \A g \in 1..(f - 1) : \A old \in pFrames[g] :
                LastBefore(g, f, old.id) /\ f - g <= MaxMissed + 1
                    /\ Overlap(old.box.place, row.box.place) >= MatchThreshold
                        => old.id \in SeenIn(f)

ClipTyped == pClip \in Footage /\ pClip \in Seq(Seq(TrackBox)) /\ \E S : pFrames \in Seq(S)

\* The tracks alive are those seen at most MaxMissed frames ago, where they were then.
Now == Len(pFrames) + 1
StatesOfRows ==
    /\ \A f \in DOMAIN pFrames : \A row \in pFrames[f] : row.id \in Nat /\ row.id < pNext
    /\ \A id \in DOMAIN pStates : \E g \in 1..(Now - 1) : LastBefore(g, Now, id)
    /\ \A g \in 1..(Now - 1) : \A row \in pFrames[g] : LastBefore(g, Now, row.id) =>
          /\ row.id \in DOMAIN pStates <=> Now - g <= MaxMissed + 1
          /\ row.id \in DOMAIN pStates => /\ pStates[row.id].place = row.box.place
                                          /\ pStates[row.id].missed = Now - 1 - g

\* What the pipeline remembers of the identities is the last frame.
IdentitiesOfLast ==
    /\ Len(pFrames) = 0 => DOMAIN pPrevious = {}
    /\ Len(pFrames) # 0 => /\ DOMAIN pPrevious = SeenIn(Len(pFrames))
                           /\ \A row \in pFrames[Len(pFrames)] : pPrevious[row.id] = row.identity

TracksInv ==
    /\ ClipTyped
    /\ StatesTyped
    /\ StatesOfRows
    /\ IdentitiesOfLast
    /\ \A f \in DOMAIN pFrames : FollowedIn(f)

LEMMA TracksInit == P_Init => TracksInv
  <1> SUFFICES ASSUME P_Init PROVE TracksInv
    OBVIOUS
  <1>1. pFrames = <<>> /\ pStates = <<>> /\ pPrevious = <<>> /\ pNext = 1 /\ pClip \in Footage
    BY DEF P_Init
  <1>2. Len(pFrames) = 0 /\ DOMAIN pFrames = {} /\ DOMAIN pStates = {} /\ DOMAIN pPrevious = {}
    BY <1>1
  <1>3. ClipTyped
    <2>1. pFrames \in Seq({})
      BY <1>1
    <2> QED
      BY <1>1, <2>1, PlayersAssumption DEF ClipTyped, TrackBox
  <1>4. StatesTyped
    BY <1>1, <1>2 DEF StatesTyped
  <1>5. StatesOfRows
    <2>1. 1..(Now - 1) = {}
      BY <1>2 DEF Now
    <2> QED
      BY <1>2, <2>1 DEF StatesOfRows
  <1>6. IdentitiesOfLast
    BY <1>2 DEF IdentitiesOfLast
  <1> QED
    BY <1>2, <1>3, <1>4, <1>5, <1>6 DEF TracksInv

\* Frames do not change once they are processed.
LEMMA FramesStay ==
    ASSUME NEW m \in Nat, NEW f \in 1..m, \A h \in 1..m : pFrames'[h] = pFrames[h],
           FollowedIn(f)
    PROVE  FollowedIn(f)'
  <1>1. \A g \in 1..f : /\ g \in 1..m /\ pFrames'[g] = pFrames[g]
    OBVIOUS
  <1>2. f \in 1..f /\ \A g \in 1..(f - 1) : g \in 1..f
    OBVIOUS
  <1>3. \A g \in 1..f : /\ SeenIn(g)' = SeenIn(g)
                        /\ \A id : RowsOf(g, id)' = RowsOf(g, id)
    BY <1>1 DEF SeenIn, RowsOf
  <1>4. \A g \in 1..(f - 1) : \A id : LastBefore(g, f, id)' <=> LastBefore(g, f, id)
    <2> SUFFICES ASSUME NEW g \in 1..(f - 1), NEW id
                 PROVE  LastBefore(g, f, id)' <=> LastBefore(g, f, id)
      OBVIOUS
    <2>1. SeenIn(g)' = SeenIn(g)
      BY <1>2, <1>3
    <2>2. \A h \in (g + 1)..(f - 1) : SeenIn(h)' = SeenIn(h)
      <3>1. \A h \in (g + 1)..(f - 1) : h \in 1..f
        OBVIOUS
      <3> QED
        BY <1>3, <3>1
    <2> QED
      BY <2>1, <2>2 DEF LastBefore
  <1>5. \A g \in 1..(f - 1) : /\ pFrames'[g] = pFrames[g] /\ SeenIn(g)' = SeenIn(g)
                              /\ \A id : RowsOf(g, id)' = RowsOf(g, id)
    BY <1>1, <1>2, <1>3
  <1>6. pFrames'[f] = pFrames[f] /\ SeenIn(f)' = SeenIn(f)
    BY <1>1, <1>2, <1>3
  <1> QED
    BY <1>4, <1>5, <1>6 DEF FollowedIn

\* What a frame adds to the report, in terms of its tracks.
RowsAdded(boxes, rows) ==
    /\ \A row \in rows : \E t \in TracksOf(boxes) :
          row.id = t.id /\ row.at = t.at /\ row.box = boxes[t.at]
    /\ \A t \in TracksOf(boxes) : \E row \in rows :
          row.id = t.id /\ row.at = t.at /\ row.box = boxes[t.at]
    /\ \A r, s \in rows : r.id = s.id \/ r.at = s.at => r = s
    /\ \A row \in rows : row.identity = IF row.id \in DOMAIN pPrevious THEN pPrevious[row.id]
                                        ELSE SideOf(row.y)

LEMMA RowsOfFrame ==
    ASSUME TracksInv, ProcessFrame
    PROVE  \E boxes \in Seq(TrackBox) : \E rows :
              /\ RowsAdded(boxes, rows)
              /\ pStates' = StatesAfter(boxes)
              /\ pNext' = pNext + Cardinality(Free(boxes, Linked(boxes)))
              /\ pFrames' = Append(pFrames, rows)
              /\ DOMAIN pPrevious' = {row.id : row \in rows}
              /\ \A row \in rows : pPrevious'[row.id] = row.identity
  <1> DEFINE boxes == pClip[Len(pFrames) + 1]
             track(t) == [id |-> t.id, at |-> t.at, box |-> boxes[t.at]]
             row(u) == [id |-> u.id, at |-> u.at, box |-> u.box, y |-> CourtY(u),
                        identity |-> AssignNearFar(u)]
             tracks == {track(t) : t \in TracksOf(boxes)}
             rows == {row(u) : u \in tracks}
             ids == {r.id : r \in rows}
             rowOf(id) == CHOOSE r \in rows : r.id = id
  <1>1. boxes \in Seq(TrackBox)
    <2> DEFINE n == Len(pFrames)
    <2>1. pClip \in Seq(Seq(TrackBox)) /\ n \in Nat /\ n < Len(pClip)
      BY LenProperties DEF TracksInv, ClipTyped, ProcessFrame
    <2> DEFINE S == Seq(TrackBox)
    <2> HIDE DEF S, n
    <2>2. pClip \in Seq(S) /\ Len(pClip) \in Nat
      BY <2>1, LenProperties DEF S
    <2>3. n + 1 \in 1..Len(pClip)
      BY <2>1, <2>2
    <2>4. pClip[n + 1] \in S
      BY <2>2, <2>3, ElementOfSeq
    <2> QED
      BY <2>4 DEF S, n
  <1>2. /\ pStates' = StatesAfter(boxes)
        /\ pNext' = pNext + Cardinality(Free(boxes, Linked(boxes)))
        /\ pFrames' = Append(pFrames, rows)
        /\ pPrevious' = [id \in ids |-> rowOf(id).identity]
    BY DEF ProcessFrame, TracksOf
  <1> HIDE DEF boxes
  <1>3. \A t \in TracksOf(boxes) : /\ row(track(t)).id = t.id /\ row(track(t)).at = t.at
                                   /\ row(track(t)).box = boxes[t.at] /\ row(track(t)) \in rows
    OBVIOUS
  <1>4. \A r \in rows : \E t \in TracksOf(boxes) : r = row(track(t))
    OBVIOUS
  <1>5. \A r \in rows : r.identity = IF r.id \in DOMAIN pPrevious THEN pPrevious[r.id]
                                     ELSE SideOf(r.y)
    <2> SUFFICES ASSUME NEW u \in tracks
                 PROVE  row(u).identity = IF row(u).id \in DOMAIN pPrevious THEN pPrevious[row(u).id]
                                          ELSE SideOf(row(u).y)
      OBVIOUS
    <2> HIDE DEF tracks
    <2> QED
      BY DEF AssignNearFar
  <1> HIDE DEF rows, row, track
  <1>6. \A r \in rows : \E t \in TracksOf(boxes) :
           r = row(track(t)) /\ r.id = t.id /\ r.at = t.at /\ r.box = boxes[t.at]
    BY <1>3, <1>4
  <1>7. \A r, s \in rows : r.id = s.id \/ r.at = s.at => r = s
    <2> SUFFICES ASSUME NEW r \in rows, NEW s \in rows, r.id = s.id \/ r.at = s.at PROVE r = s
      OBVIOUS
    <2>1. PICK t \in TracksOf(boxes) : r = row(track(t)) /\ r.id = t.id /\ r.at = t.at
      BY <1>6
    <2>2. PICK u \in TracksOf(boxes) : s = row(track(u)) /\ s.id = u.id /\ s.at = u.at
      BY <1>6
    <2>3. t = u
      BY <1>1, <2>1, <2>2, TracksOfFrame DEF TracksInv
    <2> QED
      BY <2>1, <2>2, <2>3
  <1>8. RowsAdded(boxes, rows)
    BY <1>3, <1>5, <1>6, <1>7 DEF RowsAdded
  <1>9. DOMAIN pPrevious' = ids /\ \A r \in rows : pPrevious'[r.id] = r.identity
    <2>1. DOMAIN pPrevious' = ids
      BY <1>2
    <2>2. ASSUME NEW r \in rows PROVE pPrevious'[r.id] = r.identity
      <3>1. \A s \in rows : s.id = r.id <=> s = r
        BY <1>7
      <3>2. rowOf(r.id) = r
        BY <3>1
      <3>3. r.id \in ids
        OBVIOUS
      <3> HIDE DEF rowOf, ids
      <3> QED
        BY <1>2, <3>2, <3>3
    <2> QED
      BY <2>1, <2>2
  <1> QED
    BY <1>1, <1>2, <1>8, <1>9

LEMMA FrameFollowed ==
    ASSUME TracksInv, ProcessFrame
    PROVE  TracksInv'
  <1>1. PICK boxes \in Seq(TrackBox) : \E rows :
           /\ RowsAdded(boxes, rows)
           /\ pStates' = StatesAfter(boxes)
           /\ pNext' = pNext + Cardinality(Free(boxes, Linked(boxes)))
           /\ pFrames' = Append(pFrames, rows)
           /\ DOMAIN pPrevious' = {row.id : row \in rows}
           /\ \A row \in rows : pPrevious'[row.id] = row.identity
    BY RowsOfFrame
  <1>2. PICK rows :
           /\ RowsAdded(boxes, rows)
           /\ pStates' = StatesAfter(boxes)
           /\ pNext' = pNext + Cardinality(Free(boxes, Linked(boxes)))
           /\ pFrames' = Append(pFrames, rows)
           /\ DOMAIN pPrevious' = {row.id : row \in rows}
           /\ \A row \in rows : pPrevious'[row.id] = row.identity
    BY <1>1
  <1>0. PICK n : n = Len(pFrames)
    OBVIOUS
  <1> DEFINE ids == {row.id : row \in rows}
             seen(id) == \E t \in TracksOf(boxes) : t.id = id
  <1>3. /\ n \in Nat /\ DOMAIN pFrames = 1..n /\ Len(pFrames') = n + 1
        /\ DOMAIN pFrames' = 1..(n + 1)
        /\ \A h \in 1..n : pFrames'[h] = pFrames[h]
        /\ pFrames'[n + 1] = rows
        /\ \E S : pFrames' \in Seq(S)
    <2>0. n = Len(pFrames)
      BY <1>0
    <2>1. PICK S : pFrames \in Seq(S)
      BY DEF TracksInv, ClipTyped
    <2> DEFINE U == S \cup {rows}
    <2>2. pFrames \in Seq(U) /\ rows \in U
      BY <2>1, SeqDef
    <2> HIDE DEF U
    <2>3. /\ Append(pFrames, rows) \in Seq(U) /\ Len(Append(pFrames, rows)) = Len(pFrames) + 1
          /\ \A i \in 1..Len(pFrames) : Append(pFrames, rows)[i] = pFrames[i]
          /\ Append(pFrames, rows)[Len(pFrames) + 1] = rows
      BY <2>2, AppendProperties
    <2>4. Len(pFrames) \in Nat /\ DOMAIN pFrames = 1..Len(pFrames)
      BY <2>1, LenProperties
    <2>5. DOMAIN pFrames' = 1..(n + 1)
      BY <1>2, <2>0, <2>3, LenProperties
    <2> QED
      BY <1>2, <2>0, <2>3, <2>4, <2>5
  <1>4. /\ \A t \in Linked(boxes) : /\ t.id \in DOMAIN pStates /\ t.at \in DOMAIN boxes
                                    /\ Matches(pStates[t.id], boxes[t.at])
        /\ \A t \in Started(boxes) : /\ t.id \in Nat /\ t.id >= pNext /\ t.id \notin DOMAIN pStates
                                     /\ t.id < pNext + Cardinality(Free(boxes, Linked(boxes)))
                                     /\ t.at \in DOMAIN boxes
        /\ \A id \in DOMAIN pStates : (\A t \in Linked(boxes) : t.id # id) =>
              \A t \in Started(boxes) : ~Matches(pStates[id], boxes[t.at])
    BY TracksOfFrame DEF TracksInv
  <1>5. /\ \A t \in TracksOf(boxes) : /\ t.id \in DOMAIN pStates'
                                      /\ pStates'[t.id].place = boxes[t.at].place
                                      /\ pStates'[t.id].missed = 0
        /\ \A id \in DOMAIN pStates : ~seen(id) =>
              /\ id \in DOMAIN pStates' <=> pStates[id].missed + 1 <= MaxMissed
              /\ id \in DOMAIN pStates' => /\ pStates'[id].place = pStates[id].place
                                           /\ pStates'[id].missed = pStates[id].missed + 1
        /\ \A id \in DOMAIN pStates' : id \in DOMAIN pStates \/ seen(id)
    BY <1>2, StatesOfFrame DEF TracksInv
  <1>6. \A id : id \in ids <=> seen(id)
    BY <1>2 DEF RowsAdded
  <1>7. /\ \A g \in 1..n : /\ SeenIn(g)' = SeenIn(g) /\ \A id : RowsOf(g, id)' = RowsOf(g, id)
        /\ SeenIn(n + 1)' = ids
    <2>1. n + 1 \notin 1..n
      BY <1>3
    <2> QED
      BY <1>3 DEF SeenIn, RowsOf
  <1>8. /\ pNext \in Nat /\ MaxMissed \in Nat /\ Cardinality(Free(boxes, Linked(boxes))) \in Nat
        /\ \A id \in DOMAIN pStates : id \in Nat /\ id < pNext /\ pStates[id].missed \in Nat
    BY PlayersAssumption, TracksStarted DEF TracksInv, StatesTyped
  <1>9. /\ \A f \in 1..n : \A row \in pFrames[f] : row.id \in Nat /\ row.id < pNext
        /\ \A id \in DOMAIN pStates : \E g \in 1..n : LastBefore(g, n + 1, id)
        /\ \A g \in 1..n : \A row \in pFrames[g] : LastBefore(g, n + 1, row.id) =>
              /\ row.id \in DOMAIN pStates <=> n + 1 - g <= MaxMissed + 1
              /\ row.id \in DOMAIN pStates => /\ pStates[row.id].place = row.box.place
                                              /\ pStates[row.id].missed = n + 1 - 1 - g
    <2>1. Now - 1 = n /\ Now = n + 1
      BY <1>0, <1>3 DEF Now
    <2> QED
      BY <1>3, <2>1 DEF TracksInv, StatesOfRows
  <1>10. /\ n = 0 => DOMAIN pPrevious = {}
         /\ n # 0 => /\ DOMAIN pPrevious = SeenIn(n)
                     /\ \A row \in pFrames[n] : pPrevious[row.id] = row.identity
    BY <1>0 DEF TracksInv, IdentitiesOfLast
  <1> HIDE DEF ids, seen
  <1>11. \A g \in 1..n : \A id : LastBefore(g, n + 1, id)' <=> LastBefore(g, n + 1, id)
    <2>1. (n + 1) - 1 = n /\ \A g \in 1..n : \A h \in (g + 1)..n : h \in 1..n
      BY <1>3
    <2> QED
      BY <1>7, <2>1 DEF LastBefore
  <1>12. \A g \in 1..n : \A id : LastBefore(g, n + 2, id)'
                                    <=> LastBefore(g, n + 1, id) /\ id \notin ids
    <2> SUFFICES ASSUME NEW g \in 1..n, NEW id
                 PROVE  LastBefore(g, n + 2, id)' <=> LastBefore(g, n + 1, id) /\ id \notin ids
      OBVIOUS
    <2>1. (n + 2) - 1 = n + 1 /\ (n + 1) - 1 = n /\ g \in 1..(n + 1)
      BY <1>3
    <2>2. \A h : h \in (g + 1)..(n + 1) <=> h \in (g + 1)..n \/ h = n + 1
      BY <1>3
    <2>3. \A h \in (g + 1)..n : SeenIn(h)' = SeenIn(h)
      BY <1>3, <1>7
    <2> QED
      BY <1>7, <2>1, <2>2, <2>3 DEF LastBefore
  <1>13. \A id : LastBefore(n + 1, n + 2, id)' <=> id \in ids
    <2>1. (n + 2) - 1 = n + 1 /\ n + 1 \in 1..(n + 1) /\ \A h : h \notin ((n + 1) + 1)..(n + 1)
      BY <1>3
    <2> QED
      BY <1>7, <2>1 DEF LastBefore
  <1>14. /\ \A row \in rows : row.id \in ids /\ row.id \in DOMAIN pStates' /\ row.id \in Nat
                              /\ pStates'[row.id].place = row.box.place
                              /\ pStates'[row.id].missed = 0
         /\ \A id \in ids : \E row \in rows : row.id = id
         /\ \A id \in DOMAIN pStates : id \notin ids =>
               /\ id \in DOMAIN pStates' <=> pStates[id].missed + 1 <= MaxMissed
               /\ id \in DOMAIN pStates' => /\ pStates'[id].place = pStates[id].place
                                            /\ pStates'[id].missed = pStates[id].missed + 1
         /\ \A id \in DOMAIN pStates' : id \in DOMAIN pStates \/ id \in ids
    <2>1. \A row \in rows : \E t \in TracksOf(boxes) : row.id = t.id /\ row.box = boxes[t.at]
      BY <1>2 DEF RowsAdded
    <2>2. \A t \in TracksOf(boxes) : t.id \in Nat
      BY <1>4, <1>8 DEF TracksOf
    <2> QED
      BY <1>5, <1>6, <2>1, <2>2 DEF ids
  <1>15. FollowedIn(n + 1)'
    <2> DEFINE seenBefore(id) == \E g \in 1..n : id \in SeenIn(g)
    <2>1. (n + 1) - 1 = n
      BY <1>3
    <2>2. \A r, s \in rows : r.id = s.id \/ r.at = s.at => r = s
      BY <1>2 DEF RowsAdded
    <2>3. \A row \in rows : \E t \in TracksOf(boxes) : row.id = t.id /\ row.box = boxes[t.at]
      BY <1>2 DEF RowsAdded
    <2>4. \A row \in rows : row.identity = IF row.id \in DOMAIN pPrevious THEN pPrevious[row.id]
                                           ELSE SideOf(row.y)
      BY <1>2 DEF RowsAdded
    <2>5. \A g \in 1..n : \A id : LastBefore(g, n + 1, id) =>
             /\ id \in SeenIn(g)
             /\ g # n => id \notin SeenIn(n)
      <3>1. \A g \in 1..n : g # n => n \in (g + 1)..n
        BY <1>3
      <3> QED
        BY <2>1, <3>1 DEF LastBefore
    <2>6. \A g \in 1..n : \A id : id \in SeenIn(g) <=> \E old \in pFrames[g] : old.id = id
      BY DEF SeenIn
    <2>7. ASSUME NEW row \in rows, NEW g \in 1..n, LastBefore(g, n + 1, row.id)
          PROVE  /\ (n + 1) - g <= MaxMissed + 1
                 /\ \A last \in RowsOf(g, row.id) :
                     /\ Overlap(last.box.place, row.box.place) >= MatchThreshold
                     /\ row.identity = IF g = n THEN last.identity ELSE SideOf(row.y)
      <3>1. PICK t \in TracksOf(boxes) : row.id = t.id /\ row.box = boxes[t.at]
        BY <2>3
      <3>2. PICK before \in pFrames[g] : before.id = row.id
        BY <2>5, <2>6, <2>7
      <3>3. row.id \in Nat /\ row.id < pNext
        BY <1>9, <3>2
      <3>4. t \in Linked(boxes)
        <4>1. t \in Started(boxes) => t.id \in Nat /\ t.id >= pNext
          BY <1>4
        <4> QED
          BY <1>8, <3>1, <3>3, <4>1 DEF TracksOf
      <3>5. row.id \in DOMAIN pStates /\ Matches(pStates[row.id], row.box)
        BY <1>4, <3>1, <3>4
      <3>6. ASSUME NEW last \in RowsOf(g, row.id)
            PROVE  /\ last \in pFrames[g] /\ last.id = row.id
                   /\ Overlap(last.box.place, row.box.place) >= MatchThreshold
                   /\ row.identity = IF g = n THEN last.identity ELSE SideOf(row.y)
        <4>1. last \in pFrames[g] /\ last.id = row.id
          BY DEF RowsOf
        <4>2. pStates[row.id].place = last.box.place
          BY <1>9, <2>7, <3>5, <4>1
        <4>3. Overlap(last.box.place, row.box.place) >= MatchThreshold
          BY <3>5, <4>2 DEF Matches
        <4>4. n # 0
          BY <1>3
        <4>5. CASE g = n
          <5>1. last \in pFrames[n] /\ row.id \in SeenIn(n)
            BY <2>6, <4>1, <4>5
          <5>2. row.id \in DOMAIN pPrevious /\ pPrevious[row.id] = last.identity
            <6>1. pPrevious[last.id] = last.identity
              BY <1>10, <4>4, <5>1
            <6> QED
              BY <1>10, <4>1, <4>4, <5>1, <6>1
          <5> QED
            BY <2>4, <4>1, <4>3, <4>5, <5>2
        <4>6. CASE g # n
          <5>1. row.id \notin DOMAIN pPrevious
            BY <1>10, <2>5, <2>7, <4>4, <4>6
          <5> QED
            BY <2>4, <4>1, <4>3, <4>6, <5>1
        <4> QED
          BY <4>1, <4>3, <4>5, <4>6
      <3>7. n + 1 - g <= MaxMissed + 1
        BY <1>9, <2>7, <3>2, <3>5
      <3> QED
        BY <1>3, <3>6, <3>7
    <2>8. ASSUME NEW row \in rows, \A g \in 1..n : row.id \notin SeenIn(g)
          PROVE  /\ row.identity = SideOf(row.y)
                 /\ \A g \in 1..n : \A old \in pFrames[g] :
                     LastBefore(g, n + 1, old.id) /\ (n + 1) - g <= MaxMissed + 1
                         /\ Overlap(old.box.place, row.box.place) >= MatchThreshold
                             => old.id \in ids
      <3>1. PICK t \in TracksOf(boxes) : row.id = t.id /\ row.box = boxes[t.at]
        BY <2>3
      <3>2. t \in Started(boxes)
        <4>1. \A id \in DOMAIN pStates : \E g \in 1..n : id \in SeenIn(g)
          BY <1>9, <2>5
        <4> QED
          BY <1>4, <2>8, <3>1, <4>1 DEF TracksOf
      <3>3. row.id \notin DOMAIN pPrevious
        <4>1. n # 0 => n \in 1..n
          BY <1>3
        <4> QED
          BY <1>10, <2>8, <4>1
      <3>4. ASSUME NEW g \in 1..n, NEW old \in pFrames[g], LastBefore(g, n + 1, old.id),
                   (n + 1) - g <= MaxMissed + 1,
                   Overlap(old.box.place, row.box.place) >= MatchThreshold, old.id \notin ids
            PROVE  FALSE
        <4>1. old.id \in DOMAIN pStates /\ pStates[old.id].place = old.box.place
          <5>1. n + 1 - g <= MaxMissed + 1
            BY <1>3, <3>4
          <5> QED
            BY <1>9, <3>4, <5>1
        <4>2. \A u \in Linked(boxes) : u.id # old.id
          BY <1>6, <3>4 DEF seen, TracksOf
        <4>3. ~Matches(pStates[old.id], row.box)
          BY <1>4, <3>1, <3>2, <4>1, <4>2
        <4> QED
          BY <3>4, <4>1, <4>3 DEF Matches
      <3> QED
        BY <2>4, <3>3, <3>4
    <2>9. /\ pFrames'[n + 1] = rows /\ SeenIn(n + 1)' = ids
          /\ \A g \in 1..n : /\ pFrames'[g] = pFrames[g] /\ SeenIn(g)' = SeenIn(g)
                             /\ \A id : RowsOf(g, id)' = RowsOf(g, id)
                             /\ \A id : LastBefore(g, n + 1, id)' <=> LastBefore(g, n + 1, id)
      BY <1>3, <1>7, <1>11
    <2> QED
      BY <2>1, <2>2, <2>7, <2>8, <2>9 DEF FollowedIn
  <1>16. StatesTyped'
    <2> DEFINE c == Cardinality(Free(boxes, Linked(boxes)))
    <2>1. pNext' \in Nat \ {0} /\ pNext' = pNext + c /\ c \in Nat /\ pNext \in Nat \ {0}
      BY <1>2, <1>8 DEF TracksInv, StatesTyped
    <2>2. \A t \in TracksOf(boxes) : /\ t.id \in Nat /\ t.id < pNext + c /\ t.id >= 1
                                     /\ boxes[t.at].place \in Int
      <3>1. \A t \in TracksOf(boxes) : t.at \in DOMAIN boxes
        BY <1>4 DEF TracksOf
      <3>2. \A i \in DOMAIN boxes : boxes[i].place \in Int
        BY BoxesOfFrame
      <3>3. \A id \in DOMAIN pStates : id >= 1
        BY DEF TracksInv, StatesTyped
      <3>4. \A t \in Linked(boxes) : t.id \in Nat /\ t.id < pNext /\ t.id >= 1
        BY <1>4, <1>8, <3>3
      <3>5. \A t \in Started(boxes) : t.id \in Nat /\ t.id >= pNext /\ t.id < pNext + c
        BY <1>4
      <3> HIDE DEF c
      <3> QED
        BY <2>1, <3>1, <3>2, <3>4, <3>5 DEF TracksOf
    <2> HIDE DEF c
    <2>3. \A id \in DOMAIN pStates' : id \in 1..(pNext' - 1)
      <3>1. \A id \in DOMAIN pStates : id \in Nat /\ id >= 1 /\ id < pNext
        BY <1>8 DEF TracksInv, StatesTyped
      <3>2. \A id \in DOMAIN pStates' : id \in Nat /\ id >= 1 /\ id < pNext + c
        BY <1>5, <2>1, <2>2, <3>1 DEF seen
      <3> QED
        BY <2>1, <3>2
    <2>4. \A id \in DOMAIN pStates' : pStates'[id].place \in Int /\ pStates'[id].missed \in Nat
      <3>1. \A id \in DOMAIN pStates : pStates[id].place \in Int /\ pStates[id].missed + 1 \in Nat
        BY DEF TracksInv, StatesTyped
      <3>2. \A id \in DOMAIN pStates' : seen(id) =>
               pStates'[id].place \in Int /\ pStates'[id].missed \in Nat
        BY <1>5, <2>2 DEF seen
      <3> QED
        BY <1>5, <3>1, <3>2
    <2> QED
      BY <2>1, <2>3, <2>4 DEF StatesTyped
  <1>17. StatesOfRows'
    <2>1. (Now - 1)' = n + 1 /\ Now' = n + 2 /\ (Now' - 1) = n + 1
      BY <1>3 DEF Now
    <2>2. pNext' \in Nat /\ pNext <= pNext' /\ \A row \in rows : row.id < pNext'
      BY <1>2, <1>8, <1>14, <1>16 DEF StatesTyped
    <2>3. \A f \in 1..(n + 1) : \A row \in pFrames'[f] : row.id \in Nat /\ row.id < pNext'
      <3>1. \A f \in 1..(n + 1) : f \in 1..n \/ f = n + 1
        BY <1>3
      <3> QED
        BY <1>3, <1>8, <1>9, <1>14, <2>2, <3>1
    <2>4. ASSUME NEW id \in DOMAIN pStates'
          PROVE  \E g \in 1..(n + 1) : LastBefore(g, n + 2, id)'
      <3>1. CASE id \in ids
        <4>1. n + 1 \in 1..(n + 1)
          BY <1>3
        <4> QED
          BY <1>13, <3>1, <4>1
      <3>2. CASE id \notin ids
        <4>1. PICK g \in 1..n : LastBefore(g, n + 1, id)
          BY <1>9, <1>14, <3>2
        <4>2. g \in 1..(n + 1)
          BY <1>3
        <4> QED
          BY <1>12, <3>2, <4>1, <4>2
      <3> QED
        BY <3>1, <3>2
    <2>5. ASSUME NEW g \in 1..(n + 1), NEW row \in pFrames'[g], LastBefore(g, n + 2, row.id)'
          PROVE  /\ row.id \in DOMAIN pStates' <=> (n + 2) - g <= MaxMissed + 1
                 /\ row.id \in DOMAIN pStates' => /\ pStates'[row.id].place = row.box.place
                                                  /\ pStates'[row.id].missed = (n + 1) - g
      <3>1. CASE g = n + 1
        <4>1. row \in rows /\ (n + 1) - g = 0 /\ (n + 2) - g <= MaxMissed + 1
          BY <1>3, <1>8, <3>1
        <4> QED
          BY <1>14, <4>1
      <3>2. CASE g # n + 1
        <4>1. g \in 1..n /\ row \in pFrames[g]
          BY <1>3, <3>2
        <4>2. LastBefore(g, n + 1, row.id) /\ row.id \notin ids
          BY <1>12, <2>5, <4>1
        <4>3. /\ row.id \in DOMAIN pStates <=> (n + 1) - g <= MaxMissed + 1
              /\ row.id \in DOMAIN pStates => /\ pStates[row.id].place = row.box.place
                                              /\ pStates[row.id].missed = n - g
          <5>1. n + 1 - g = (n + 1) - g /\ n + 1 - 1 - g = n - g
            BY <1>3
          <5> QED
            BY <1>9, <4>1, <4>2, <5>1
        <4>4. CASE row.id \in DOMAIN pStates
          <5>1. /\ row.id \in DOMAIN pStates' <=> (n - g) + 1 <= MaxMissed
                /\ row.id \in DOMAIN pStates' => /\ pStates'[row.id].place = row.box.place
                                                 /\ pStates'[row.id].missed = (n - g) + 1
            BY <1>14, <4>2, <4>3, <4>4
          <5>2. (n - g) + 1 = (n + 1) - g /\ ((n - g) + 1 <= MaxMissed <=> (n + 2) - g <= MaxMissed + 1)
            BY <1>3, <1>8, <4>1
          <5> QED
            BY <5>1, <5>2
        <4>5. CASE row.id \notin DOMAIN pStates
          <5>1. row.id \notin DOMAIN pStates'
            BY <1>14, <4>2, <4>5
          <5>2. ~((n + 2) - g <= MaxMissed + 1)
            BY <1>3, <1>8, <4>1, <4>3, <4>5
          <5> QED
            BY <5>1, <5>2
        <4> QED
          BY <4>4, <4>5
      <3> QED
        BY <3>1, <3>2
    <2>6. \A g \in 1..(n + 1) : Now' - g = (n + 2) - g /\ Now' - 1 - g = (n + 1) - g
      BY <1>3, <2>1
    <2> QED
      BY <1>3, <2>1, <2>3, <2>4, <2>5, <2>6 DEF StatesOfRows
  <1>18. IdentitiesOfLast'
    <2>1. Len(pFrames)' # 0 /\ SeenIn(Len(pFrames))' = ids /\ pFrames'[Len(pFrames)'] = rows
      BY <1>3 DEF SeenIn, ids
    <2> QED
      BY <1>2, <2>1 DEF IdentitiesOfLast, ids
  <1>19. \A f \in DOMAIN pFrames' : FollowedIn(f)'
    <2>1. ASSUME NEW f \in 1..n PROVE FollowedIn(f)'
      <3>1. FollowedIn(f)
        BY <1>3 DEF TracksInv
      <3> QED
        BY <1>3, <3>1, FramesStay
    <2>2. \A f \in 1..(n + 1) : f \in 1..n \/ f = n + 1
      BY <1>3
    <2> QED
      BY <1>3, <1>15, <2>1, <2>2
  <1> QED
    BY <1>3, <1>16, <1>17, <1>18, <1>19 DEF TracksInv, ClipTyped, ProcessFrame

LEMMA TracksStep == TracksInv /\ [P_Next]_pVars => TracksInv'
  <1> SUFFICES ASSUME TracksInv, [P_Next]_pVars PROVE TracksInv'
    OBVIOUS
  <1>1. CASE ProcessFrame
    BY <1>1, FrameFollowed
  <1>2. ASSUME UNCHANGED <<pClip, Tracking>> PROVE TracksInv'
    <2>1. /\ pClip' = pClip /\ pStates' = pStates /\ pNext' = pNext
          /\ pPrevious' = pPrevious /\ pFrames' = pFrames
      BY <1>2 DEF Tracking
    <2>2. StatesTyped' /\ ClipTyped' /\ IdentitiesOfLast'
      BY <2>1 DEF TracksInv, StatesTyped, ClipTyped, IdentitiesOfLast, SeenIn
    <2>3. \A g, f, id : LastBefore(g, f, id)' <=> LastBefore(g, f, id)
      BY <2>1 DEF LastBefore, SeenIn
    <2>4. StatesOfRows'
      BY <2>1, <2>3 DEF TracksInv, StatesOfRows, Now
    <2>5. \A f : FollowedIn(f)' <=> FollowedIn(f)
      BY <2>1, <2>3 DEF FollowedIn, SeenIn, RowsOf
    <2> QED
      BY <2>1, <2>2, <2>4, <2>5 DEF TracksInv
  <1>3. CASE PerceptionFails
    BY <1>2, <1>3 DEF PerceptionFails
  <1>4. CASE WritePerceptionOutputs
    BY <1>2, <1>4 DEF WritePerceptionOutputs
  <1>5. CASE SelectPlayers
    BY <1>2, <1>5 DEF SelectPlayers
  <1>6. ASSUME NEW whole \in BOOLEAN, WriteSelectionReport(whole)
        PROVE  TracksInv'
    BY <1>2, <1>6 DEF WriteSelectionReport
  <1>7. CASE UNCHANGED pVars
    BY <1>2, <1>7 DEF pVars, Tracking
  <1> QED
    BY <1>1, <1>3, <1>4, <1>5, <1>6, <1>7 DEF P_Next

LEMMA TracksSafe == TracksInv => TracksFollowed
  BY DEF TracksInv, FollowedIn, TracksFollowed

\* SimpleIoUTracker and assign_near_far follow one thing per track: one box of a frame,
\* never far from where it was last seen nor long out of sight, a new track only for a box
\* that no living track could continue, and the identity of the side where it came into view.
THEOREM TracksAreFollowed == P_Spec => []TracksFollowed
  <1>1. P_Init => TracksInv
    BY TracksInit
  <1>2. TracksInv /\ [P_Next]_pVars => TracksInv'
    BY TracksStep
  <1> QED
    BY <1>1, <1>2, TracksSafe, PTL DEF P_Spec


(***************************************************************************)
(* The selection: a score is at most Full for what a track was in other    *)
(* frames, so a choice that changes is one the frame itself justifies.     *)
(***************************************************************************)

LEMMA ShareOfFull ==
    ASSUME NEW c \in Nat, NEW n \in Nat \ {0}, c <= n
    PROVE  (Full * c) \div n \in Nat /\ (Full * c) \div n <= Full
  <1> DEFINE m == Full * c
             q == m \div n
  <1>1. Full \in Nat
    BY PlayersAssumption
  <1>2. m \in Nat /\ Full * n \in Nat /\ m <= Full * n
    BY <1>1
  <1> HIDE DEF m
  <1>3. q \in Int /\ n * q <= m /\ m < n * q + n /\ q >= 0
    BY <1>2
  <1>4. q <= Full
    <2> SUFFICES ASSUME q >= Full + 1 PROVE FALSE
      BY <1>1, <1>3
    <2> HIDE DEF q
    <2>1. n * q >= n * (Full + 1)
      BY <1>1, <1>3
    <2>2. n * (Full + 1) = Full * n + n
      BY <1>1
    <2> QED
      BY <1>2, <1>3, <2>1, <2>2
  <1> QED
    BY <1>3, <1>4 DEF m

LEMMA MeanOfThree ==
    \A a, b, c \in Nat : a <= c /\ b <= c => (2 * a + b) \div 3 \in Nat /\ (2 * a + b) \div 3 <= c
  OBVIOUS

RowsTyped ==
    \A f \in DOMAIN pFrames :
        /\ IsFiniteSet(pFrames[f])
        /\ \A row \in pFrames[f] : row.id \in Nat \ {0} /\ row.box \in TrackBox

ChosenTyped == pChosen \in [Identities -> [id : Nat \cup {NoTrack}, place : Int]]

LEMMA TemporalIsShare ==
    ASSUME ClipTyped, RowsTyped, ChosenTyped, NEW f \in DOMAIN pFrames, NEW row \in pFrames[f],
           NEW i \in Identities
    PROVE  /\ TemporalScore(row, i) \in Nat /\ TemporalScore(row, i) <= Full
           /\ pChosen[i].id = row.id => TemporalScore(row, i) = Full
  <1> DEFINE seen == {g \in DOMAIN pFrames : \E r \in pFrames[g] : r.id = row.id}
             gap == Distance(row.box.place, pChosen[i].place)
             close == Max({0, Diagonal - gap})
             spatial == (Full * close) \div Diagonal
  <1>1. Full \in Nat /\ Diagonal \in Nat \ {0}
    BY PlayersAssumption
  <1>2. Presence(row.id) \in Nat /\ Presence(row.id) <= Full
    <2> DEFINE n == Len(pFrames)
               c == Cardinality(seen)
    <2>1. n \in Nat \ {0} /\ DOMAIN pFrames = 1..n
      BY LenProperties DEF ClipTyped
    <2>2. Presence(row.id) = (Full * c) \div n
      BY DEF Presence
    <2>3. seen \in SUBSET (1..n)
      BY <2>1
    <2> HIDE DEF n, seen
    <2>4. IsFiniteSet(1..n) /\ Cardinality(1..n) = n
      <3>1. 1 \in Int /\ n \in Int
        BY <2>1
      <3>2. IsFiniteSet(1..n) /\ Cardinality(1..n) = IF 1 > n THEN 0 ELSE n - 1 + 1
        BY <3>1, FS_Interval
      <3> QED
        BY <2>1, <3>2
    <2>5. IsFiniteSet(seen) /\ c <= n
      BY <2>3, <2>4, FS_Subset
    <2>6. c \in Nat
      BY <2>5, FS_CardinalityType
    <2> HIDE DEF c
    <2> QED
      BY <2>1, <2>2, <2>5, <2>6, ShareOfFull
  <1>3. spatial \in Nat /\ spatial <= Full
    <2> DEFINE common == Diagonal - gap
    <2>1. gap \in Nat
      <3>1. row.box.place \in Int /\ pChosen[i].place \in Int
        BY DEF RowsTyped, ChosenTyped, TrackBox
      <3> HIDE DEF RowsTyped
      <3> QED
        BY <3>1 DEF Distance
    <2> HIDE DEF gap
    <2>2. common \in Int /\ common <= Diagonal
      BY <1>1, <2>1
    <2> HIDE DEF common
    <2>3. \E x \in {0, common} : \A y \in {0, common} : x >= y
      BY <2>2
    <2>4. close = CHOOSE x \in {0, common} : \A y \in {0, common} : x >= y
      BY DEF Max, common
    <2> HIDE DEF close
    <2>5. close \in {0, common} /\ \A y \in {0, common} : close >= y
      <3> DEFINE S == {0, common}
      <3>1. close = CHOOSE x \in S : \A y \in S : x >= y
        BY <2>4
      <3>2. \E x \in S : \A y \in S : x >= y
        BY <2>3
      <3> HIDE DEF S
      <3>3. close \in S /\ \A y \in S : close >= y
        BY <3>1, <3>2
      <3> QED
        BY <3>3 DEF S
    <2>6. close \in Nat /\ close <= Diagonal
      BY <1>1, <2>2, <2>5
    <2> QED
      BY <1>1, <2>6, ShareOfFull
  <1>4. TemporalScore(row, i) = IF pChosen[i].id = row.id THEN Full
                                ELSE IF pChosen[i].id = NoTrack THEN Presence(row.id)
                                ELSE (2 * spatial + Presence(row.id)) \div 3
    BY DEF TemporalScore
  <1> HIDE DEF spatial
  <1>5. (2 * spatial + Presence(row.id)) \div 3 \in Nat
        /\ (2 * spatial + Presence(row.id)) \div 3 <= Full
    BY <1>1, <1>2, <1>3, MeanOfThree
  <1> QED
    BY <1>1, <1>2, <1>4, <1>5

BonusOf(f, row) == IF \E c \in pContacts : c.frame = f /\ c.id = row.id THEN ContactBonus ELSE 0

LEMMA ScoreOfRow ==
    ASSUME ClipTyped, RowsTyped, ChosenTyped, NEW f \in DOMAIN pFrames, NEW row \in pFrames[f]
    PROVE  LET i == CandidateSide(row)
           IN  /\ i \in Identities
               /\ row.box.worth \in Nat /\ BonusOf(f, row) \in Nat
               /\ TemporalScore(row, i) \in Nat /\ TemporalScore(row, i) <= Full
               /\ pChosen[i].id = row.id => TemporalScore(row, i) = Full
               /\ SelectionScore(row, f) = row.box.worth + TemporalScore(row, i) + BonusOf(f, row)
               /\ SelectionScore(row, f) \in Nat
  <1> DEFINE i == CandidateSide(row)
  <1>1. i \in Identities
    BY DEF CandidateSide, Identities
  <1>2. row.box.worth \in Nat
    BY DEF RowsTyped, TrackBox
  <1>3. BonusOf(f, row) \in Nat
    BY PlayersAssumption DEF BonusOf
  <1>4. SelectionScore(row, f) = row.box.worth + TemporalScore(row, i) + BonusOf(f, row)
    BY DEF SelectionScore, BonusOf
  <1>5. /\ TemporalScore(row, i) \in Nat /\ TemporalScore(row, i) <= Full
        /\ pChosen[i].id = row.id => TemporalScore(row, i) = Full
    BY <1>1, TemporalIsShare
  <1> HIDE DEF i
  <1>6. SelectionScore(row, f) \in Nat
    BY <1>2, <1>3, <1>4, <1>5
  <1> QED
    BY <1>1, <1>2, <1>3, <1>4, <1>5, <1>6 DEF i

\* What a frame selects: none of the candidates, or the one with the highest score.
LEMMA SelectedIsBest ==
    ASSUME ClipTyped, RowsTyped, ChosenTyped, NEW f \in DOMAIN pFrames, NEW i \in Identities
    PROVE  \/ Selected(f, i) = [id |-> NoTrack, place |-> 0] /\ Options(f, i) = {}
           \/ \E r \in Options(f, i) :
                 /\ Selected(f, i) = [id |-> r.id, place |-> r.box.place]
                 /\ \A s \in Options(f, i) : SelectionScore(r, f) >= SelectionScore(s, f)
  <1> DEFINE options == Options(f, i)
             Best(r) == \A s \in options :
                           \/ SelectionScore(r, f) > SelectionScore(s, f)
                           \/ SelectionScore(r, f) = SelectionScore(s, f) /\ r.id <= s.id
             best == CHOOSE r \in options : Best(r)
  <1>1. Selected(f, i) = IF options = {} THEN [id |-> NoTrack, place |-> 0]
                         ELSE [id |-> best.id, place |-> best.box.place]
    BY DEF Selected
  <1>2. options \in SUBSET pFrames[f]
    BY DEF Options
  <1> HIDE DEF options
  <1>3. \A r \in options : SelectionScore(r, f) \in Nat /\ r.id \in Nat
    BY <1>2, ScoreOfRow DEF RowsTyped
  <1>4. CASE options # {}
    <2> DEFINE score == [r \in options |-> SelectionScore(r, f)]
               rank == [r \in options |-> r.id]
    <2>1. IsFiniteSet(options)
      BY <1>2, FS_Subset DEF RowsTyped
    <2>2. score \in [options -> Nat] /\ rank \in [options -> Nat]
      BY <1>3
    <2>3. \A r \in options : score[r] = SelectionScore(r, f) /\ rank[r] = r.id
      OBVIOUS
    <2> HIDE DEF score, rank
    <2>4. PICK r \in options : \A s \in options :
             score[r] > score[s] \/ (score[r] = score[s] /\ rank[r] <= rank[s])
      BY <1>4, <2>1, <2>2, BestOf
    <2>5. Best(r)
      BY <2>3, <2>4
    <2>6. best \in options /\ Best(best)
      <3> HIDE DEF Best
      <3> QED
        BY <2>5
    <2>7. \A s \in options : SelectionScore(best, f) >= SelectionScore(s, f)
      <3> HIDE DEF best
      <3> QED
        BY <1>3, <2>6
    <2> HIDE DEF best
    <2> QED
      BY <1>1, <1>4, <2>6, <2>7 DEF options
  <1> QED
    BY <1>1, <1>4 DEF options


LEMMA RowsTypedStep ==
    ASSUME TracksInv, RowsTyped, ProcessFrame
    PROVE  RowsTyped'
  <1>1. PICK boxes \in Seq(TrackBox) : \E rows :
           RowsAdded(boxes, rows) /\ pFrames' = Append(pFrames, rows)
    BY RowsOfFrame
  <1>2. PICK rows : RowsAdded(boxes, rows) /\ pFrames' = Append(pFrames, rows)
    BY <1>1
  <1>3. PICK n : n = Len(pFrames)
    OBVIOUS
  <1>4. /\ n \in Nat /\ DOMAIN pFrames = 1..n
        /\ DOMAIN pFrames' = 1..(n + 1)
        /\ \A h \in 1..n : pFrames'[h] = pFrames[h]
        /\ pFrames'[n + 1] = rows
    <2>1. PICK S : pFrames \in Seq(S)
      BY DEF TracksInv, ClipTyped
    <2> DEFINE U == S \cup {rows}
    <2>2. pFrames \in Seq(U) /\ rows \in U
      BY <2>1, SeqDef
    <2> HIDE DEF U
    <2>3. /\ Append(pFrames, rows) \in Seq(U) /\ Len(Append(pFrames, rows)) = Len(pFrames) + 1
          /\ \A j \in 1..Len(pFrames) : Append(pFrames, rows)[j] = pFrames[j]
          /\ Append(pFrames, rows)[Len(pFrames) + 1] = rows
      BY <2>2, AppendProperties
    <2>4. Len(pFrames) \in Nat /\ DOMAIN pFrames = 1..Len(pFrames)
      BY <2>1, LenProperties
    <2>5. DOMAIN pFrames' = 1..(n + 1)
      BY <1>2, <1>3, <2>3, LenProperties
    <2> QED
      BY <1>2, <1>3, <2>3, <2>4, <2>5
  <1>5. \A t \in TracksOf(boxes) : t.id \in Nat \ {0} /\ t.at \in DOMAIN boxes
    <2>1. \A id \in DOMAIN pStates : id \in Nat \ {0}
      BY DEF TracksInv, StatesTyped
    <2>2. pNext \in Nat \ {0}
      BY DEF TracksInv, StatesTyped
    <2>3. /\ \A t \in Linked(boxes) : t.id \in DOMAIN pStates /\ t.at \in DOMAIN boxes
          /\ \A t \in Started(boxes) : t.id \in Nat /\ t.id >= pNext /\ t.at \in DOMAIN boxes
      BY TracksOfFrame DEF TracksInv
    <2>4. \A t \in Started(boxes) : t.id # 0
      BY <2>2, <2>3
    <2> QED
      BY <2>1, <2>3, <2>4 DEF TracksOf
  <1>6. \A row \in rows : row.id \in Nat \ {0} /\ row.box \in TrackBox /\ row.at \in DOMAIN boxes
    <2>1. \A row \in rows : \E t \in TracksOf(boxes) :
             row.id = t.id /\ row.at = t.at /\ row.box = boxes[t.at]
      BY <1>2 DEF RowsAdded
    <2>2. \A j \in DOMAIN boxes : boxes[j] \in TrackBox
      BY BoxesOfFrame
    <2> QED
      BY <1>5, <2>1, <2>2
  <1>7. IsFiniteSet(rows)
    <2> DEFINE A == {row.at : row \in rows}
               at == [a \in A |-> CHOOSE row \in rows : row.at = a]
    <2>1. \A r, s \in rows : r.at = s.at => r = s
      BY <1>2 DEF RowsAdded
    <2>2. A \in SUBSET DOMAIN boxes
      BY <1>6
    <2>3. IsFiniteSet(A)
      <3> HIDE DEF A
      <3> QED
        BY <2>2, BoxesOfFrame, FS_Subset
    <2>4. \A r \in rows : r.at \in A /\ at[r.at] = r
      BY <2>1
    <2>5. at \in [A -> rows]
      OBVIOUS
    <2> HIDE DEF A, at
    <2>6. at \in Surjection(A, rows)
      BY <2>4, <2>5 DEF Surjection
    <2> QED
      BY <2>3, <2>6, FS_Surjection
  <1>8. \A f \in 1..(n + 1) : f \in 1..n \/ f = n + 1
    BY <1>4
  <1> QED
    BY <1>4, <1>6, <1>7, <1>8 DEF RowsTyped

\* Why row is the choice of frame f for identity i, if the frame before chose another.
ChosenWell(f, i, row) ==
    /\ row.box.sound
    /\ CandidateSide(row) = i
    /\ f > 1 /\ pSelections[f - 1][i] # pSelections[f][i] =>
          \A old \in RowsOf(f, pSelections[f - 1][i]) :
              old.box.sound /\ CandidateSide(old) = i /\ old.box.worth + Full >= MinimumScore
                  => row.box.worth + BonusOf(f, row) >= old.box.worth + BonusOf(f, old)

SelectedSoFar ==
    /\ \E S : pSelections \in Seq(S)
    /\ Len(pSelections) <= Len(pFrames)
    /\ \A f \in 1..Len(pSelections) : \A i \in Identities : pSelections[f][i] # NoTrack =>
          \E row \in RowsOf(f, pSelections[f][i]) : ChosenWell(f, i, row)

\* SelectionState: the player remembered is the one of the last frame, if that had one.
ChosenLast ==
    \A i \in Identities : Len(pSelections) # 0 /\ pSelections[Len(pSelections)][i] # NoTrack
        => pChosen[i].id = pSelections[Len(pSelections)][i]

PlayersInv ==
    /\ TracksInv
    /\ RowsTyped
    /\ ChosenTyped
    /\ pPc = "perceive" => pSelections = <<>>
    /\ SelectedSoFar
    /\ ChosenLast
    /\ pPc = "ready" => /\ Len(pSelections) = Len(pFrames)
                        /\ \A k \in DOMAIN pSelections : FrameStatus(pSelections[k]) = "PASS"

LEMMA PlayersInit == P_Init => PlayersInv
  <1> SUFFICES ASSUME P_Init PROVE PlayersInv
    OBVIOUS
  <1>1. /\ pFrames = <<>> /\ pSelections = <<>> /\ pPc = "perceive"
        /\ pChosen = [i \in Identities |-> [id |-> NoTrack, place |-> 0]]
    BY DEF P_Init
  <1>2. Len(pFrames) = 0 /\ DOMAIN pFrames = {} /\ Len(pSelections) = 0 /\ pSelections \in Seq({})
    BY <1>1
  <1>3. TracksInv
    BY TracksInit
  <1>4. RowsTyped
    BY <1>2 DEF RowsTyped
  <1>5. ChosenTyped
    BY <1>1 DEF ChosenTyped
  <1>6. SelectedSoFar /\ ChosenLast
    BY <1>2 DEF SelectedSoFar, ChosenLast
  <1> QED
    BY <1>1, <1>3, <1>4, <1>5, <1>6 DEF PlayersInv


LEMMA PlayersSelected ==
    ASSUME PlayersInv, SelectPlayers
    PROVE  SelectedSoFar' /\ ChosenTyped' /\ ChosenLast'
  <1>1. PICK n : n = Len(pSelections)
    OBVIOUS
  <1>2. PICK S : pSelections \in Seq(S)
    BY DEF PlayersInv, SelectedSoFar
  <1> DEFINE now(i) == Selected(n + 1, i)
             picks == [i \in Identities |-> now(i).id]
  <1>3. /\ pSelections' = Append(pSelections, picks)
        /\ pChosen' = [i \in Identities |-> IF now(i).id = NoTrack THEN pChosen[i] ELSE now(i)]
        /\ n + 1 <= Len(pFrames) /\ UNCHANGED <<pFrames, pContacts>>
    BY <1>1 DEF SelectPlayers, Tracking
  <1>4. \A i \in Identities : picks[i] = now(i).id
    OBVIOUS
  <1> HIDE DEF picks
  <1>5. /\ n \in Nat /\ Len(pSelections') = n + 1
        /\ \A k \in 1..n : pSelections'[k] = pSelections[k]
        /\ pSelections'[n + 1] = picks
        /\ \E U : pSelections' \in Seq(U)
    <2> DEFINE U == S \cup {picks}
    <2>1. pSelections \in Seq(U) /\ picks \in U
      BY <1>2, SeqDef
    <2> HIDE DEF U
    <2>2. /\ Append(pSelections, picks) \in Seq(U)
          /\ Len(Append(pSelections, picks)) = Len(pSelections) + 1
          /\ \A j \in 1..Len(pSelections) : Append(pSelections, picks)[j] = pSelections[j]
          /\ Append(pSelections, picks)[Len(pSelections) + 1] = picks
      BY <2>1, AppendProperties
    <2>3. Len(pSelections) \in Nat
      BY <1>2, LenProperties
    <2> QED
      BY <1>1, <1>3, <2>2, <2>3
  <1>6. n + 1 \in DOMAIN pFrames /\ ClipTyped /\ RowsTyped /\ ChosenTyped
    <2>1. ClipTyped /\ RowsTyped /\ ChosenTyped
      BY DEF PlayersInv, TracksInv
    <2>2. Len(pFrames) \in Nat /\ DOMAIN pFrames = 1..Len(pFrames)
      BY <2>1, LenProperties DEF ClipTyped
    <2> QED
      BY <1>3, <1>5, <2>1, <2>2
  <1>7. \A i \in Identities :
           \/ now(i) = [id |-> NoTrack, place |-> 0] /\ Options(n + 1, i) = {}
           \/ \E r \in Options(n + 1, i) :
                 /\ now(i) = [id |-> r.id, place |-> r.box.place]
                 /\ \A s \in Options(n + 1, i) :
                       SelectionScore(r, n + 1) >= SelectionScore(s, n + 1)
    BY <1>6, SelectedIsBest
  <1> HIDE DEF now
  <1>8. ChosenTyped'
    <2>1. \A i \in Identities : now(i) \in [id : Nat \cup {NoTrack}, place : Int]
      <3> SUFFICES ASSUME NEW i \in Identities
                   PROVE  now(i) \in [id : Nat \cup {NoTrack}, place : Int]
        OBVIOUS
      <3>1. \A r \in Options(n + 1, i) : r.id \in Nat /\ r.box.place \in Int
        BY <1>6 DEF Options, RowsTyped, TrackBox
      <3> QED
        BY <1>7, <3>1
    <2> QED
      BY <1>3, <1>6, <2>1 DEF ChosenTyped
  <1>9. ChosenLast'
    <2> SUFFICES ASSUME NEW i \in Identities, pSelections'[n + 1][i] # NoTrack
                 PROVE  pChosen'[i].id = pSelections'[n + 1][i]
      BY <1>5 DEF ChosenLast
    <2>1. now(i).id # NoTrack /\ pSelections'[n + 1][i] = now(i).id
      BY <1>4, <1>5
    <2> QED
      BY <1>3, <2>1
  <1>10. \A f, id : RowsOf(f, id)' = RowsOf(f, id)
    BY <1>3 DEF RowsOf
  <1>11. \A f, row : BonusOf(f, row)' = BonusOf(f, row)
    BY <1>3 DEF BonusOf
  <1>12. ASSUME NEW f \in 1..n, NEW i \in Identities, pSelections'[f][i] # NoTrack
         PROVE  (\E row \in RowsOf(f, pSelections[f][i]) : ChosenWell(f, i, row))'
    <2>1. f > 1 => f - 1 \in 1..n
      BY <1>5
    <2>2. pSelections'[f] = pSelections[f] /\ (f > 1 => pSelections'[f - 1] = pSelections[f - 1])
      BY <1>5, <2>1
    <2>3. PICK row \in RowsOf(f, pSelections[f][i]) : ChosenWell(f, i, row)
      BY <1>1, <1>12, <2>2 DEF PlayersInv, SelectedSoFar
    <2>4. ChosenWell(f, i, row)'
      BY <1>10, <1>11, <2>2, <2>3 DEF ChosenWell
    <2> QED
      BY <1>10, <2>2, <2>3, <2>4
  <1>13. ASSUME NEW i \in Identities, pSelections'[n + 1][i] # NoTrack
         PROVE  (\E row \in RowsOf(n + 1, pSelections[n + 1][i]) : ChosenWell(n + 1, i, row))'
    <2>1. pSelections'[n + 1][i] = now(i).id
      BY <1>4, <1>5
    <2>2. PICK r \in Options(n + 1, i) :
             /\ now(i) = [id |-> r.id, place |-> r.box.place]
             /\ \A s \in Options(n + 1, i) :
                   SelectionScore(r, n + 1) >= SelectionScore(s, n + 1)
      BY <1>7, <1>13, <2>1
    <2>3. /\ r \in pFrames[n + 1] /\ CandidateSide(r) = i /\ r.box.sound
          /\ SelectionScore(r, n + 1) >= MinimumScore /\ r.id = pSelections'[n + 1][i]
          /\ r \in RowsOf(n + 1, r.id)
      BY <2>1, <2>2 DEF Options, RowsOf
    <2>4. ASSUME n + 1 > 1, pSelections[n][i] # r.id,
                 NEW old \in RowsOf(n + 1, pSelections[n][i]),
                 old.box.sound, CandidateSide(old) = i, old.box.worth + Full >= MinimumScore
          PROVE  r.box.worth + BonusOf(n + 1, r) >= old.box.worth + BonusOf(n + 1, old)
      <3>1. old \in pFrames[n + 1] /\ old.id = pSelections[n][i]
        BY <2>4 DEF RowsOf
      <3>2. old.id # NoTrack
        BY <1>6, <3>1, PlayersAssumption DEF RowsTyped
      <3>3. pChosen[i].id = old.id
        <4>1. n # 0
          BY <1>5, <2>4
        <4> QED
          BY <1>1, <3>1, <3>2, <4>1 DEF PlayersInv, ChosenLast
      <3>4. /\ old.box.worth \in Nat /\ BonusOf(n + 1, old) \in Nat
            /\ TemporalScore(old, i) = Full /\ TemporalScore(old, i) \in Nat
            /\ SelectionScore(old, n + 1) = old.box.worth + TemporalScore(old, i) + BonusOf(n + 1, old)
        BY <1>6, <2>4, <3>1, <3>3, ScoreOfRow
      <3>5. /\ r.box.worth \in Nat /\ BonusOf(n + 1, r) \in Nat
            /\ TemporalScore(r, i) \in Nat /\ TemporalScore(r, i) <= Full
            /\ SelectionScore(r, n + 1) = r.box.worth + TemporalScore(r, i) + BonusOf(n + 1, r)
        BY <1>6, <2>3, ScoreOfRow
      <3>6. SelectionScore(old, n + 1) >= MinimumScore
        BY <2>4, <3>4, PlayersAssumption
      <3>7. old \in Options(n + 1, i)
        BY <2>4, <3>1, <3>6 DEF Options
      <3>8. SelectionScore(r, n + 1) >= SelectionScore(old, n + 1)
        BY <2>2, <3>7
      <3> DEFINE own == r.box.worth
                 bonus == BonusOf(n + 1, r)
                 share == TemporalScore(r, i)
                 ownOld == old.box.worth
                 bonusOld == BonusOf(n + 1, old)
      <3>9. /\ own \in Nat /\ bonus \in Nat /\ share \in Nat /\ share <= Full
            /\ ownOld \in Nat /\ bonusOld \in Nat /\ Full \in Nat
            /\ own + share + bonus >= ownOld + Full + bonusOld
        BY <3>4, <3>5, <3>8, PlayersAssumption
      <3> HIDE DEF own, bonus, share, ownOld, bonusOld
      <3>10. own + bonus >= ownOld + bonusOld
        BY <3>9
      <3> QED
        BY <3>10 DEF own, bonus, ownOld, bonusOld
    <2>5. ChosenWell(n + 1, i, r)'
      <3>1. (n + 1) - 1 = n /\ (n + 1 > 1 => pSelections'[n] = pSelections[n])
        BY <1>5
      <3> QED
        BY <1>10, <1>11, <2>3, <2>4, <3>1 DEF ChosenWell
    <2> QED
      BY <1>10, <2>3, <2>5
  <1>14. SelectedSoFar'
    <2>1. \A f \in 1..(n + 1) : f \in 1..n \/ f = n + 1
      BY <1>5
    <2> QED
      BY <1>3, <1>5, <1>12, <1>13, <2>1 DEF SelectedSoFar
  <1> QED
    BY <1>8, <1>9, <1>14

LEMMA PlayersStep == PlayersInv /\ [P_Next]_pVars => PlayersInv'
  <1> SUFFICES ASSUME PlayersInv, [P_Next]_pVars PROVE PlayersInv'
    OBVIOUS
  <1>1. TracksInv'
    BY TracksStep DEF PlayersInv
  <1>2. CASE ProcessFrame
    <2>1. /\ pPc = "perceive" /\ pPc' = pPc /\ pChosen' = pChosen
          /\ pSelections' = pSelections /\ pSelections = <<>>
      BY <1>2 DEF ProcessFrame, Selecting, PlayersInv
    <2>2. RowsTyped'
      BY <1>2, RowsTypedStep DEF PlayersInv
    <2>3. Len(pSelections) = 0 /\ Len(pFrames') \in Nat
      BY <1>1, <2>1, LenProperties DEF TracksInv, ClipTyped
    <2>4. SelectedSoFar' /\ ChosenLast' /\ ChosenTyped'
      BY <2>1, <2>3 DEF PlayersInv, SelectedSoFar, ChosenLast, ChosenTyped
    <2> QED
      BY <1>1, <2>1, <2>2, <2>4 DEF PlayersInv
  <1>3. CASE PerceptionFails
    <2>1. /\ pPc' = "failed" /\ pChosen' = pChosen /\ pFrames' = pFrames
          /\ pSelections' = pSelections /\ pContacts' = pContacts
      BY <1>3 DEF PerceptionFails, Tracking, Selecting
    <2>2. SelectedSoFar' /\ ChosenLast' /\ ChosenTyped' /\ RowsTyped'
      BY <2>1 DEF PlayersInv, RowsTyped, ChosenTyped, SelectedSoFar, ChosenLast, ChosenWell,
                  RowsOf, BonusOf
    <2> QED
      BY <1>1, <2>1, <2>2 DEF PlayersInv
  <1>4. CASE WritePerceptionOutputs
    <2>1. /\ pPc = "perceive" /\ pPc' = "select" /\ pChosen' = pChosen /\ pFrames' = pFrames
          /\ pSelections' = pSelections /\ pSelections = <<>>
      BY <1>4 DEF WritePerceptionOutputs, Tracking, Selecting, PlayersInv
    <2>2. Len(pSelections) = 0
      BY <2>1
    <2>3. SelectedSoFar'
      BY <2>1, <2>2 DEF PlayersInv, SelectedSoFar
    <2> QED
      BY <1>1, <2>1, <2>3 DEF PlayersInv, RowsTyped, ChosenTyped, ChosenLast
  <1>5. CASE SelectPlayers
    <2>1. pPc = "select" /\ pPc' = pPc /\ pFrames' = pFrames
      BY <1>5 DEF SelectPlayers, Tracking
    <2>2. SelectedSoFar' /\ ChosenTyped' /\ ChosenLast'
      BY <1>5, PlayersSelected
    <2>3. RowsTyped'
      BY <2>1 DEF PlayersInv, RowsTyped
    <2> QED
      BY <1>1, <2>1, <2>2, <2>3 DEF PlayersInv
  <1>6. ASSUME NEW whole \in BOOLEAN, WriteSelectionReport(whole)
        PROVE  PlayersInv'
    <2>1. /\ pPc' \in {"ready", "partial"} /\ pChosen' = pChosen /\ pFrames' = pFrames
          /\ pSelections' = pSelections /\ pContacts' = pContacts
          /\ pPc' = "ready" => /\ Len(pSelections) = Len(pFrames)
                               /\ \A k \in DOMAIN pSelections : FrameStatus(pSelections[k]) = "PASS"
      BY <1>6 DEF WriteSelectionReport, Tracking, Selecting
    <2>2. SelectedSoFar' /\ ChosenLast' /\ ChosenTyped' /\ RowsTyped'
      BY <2>1 DEF PlayersInv, RowsTyped, ChosenTyped, SelectedSoFar, ChosenLast, ChosenWell,
                  RowsOf, BonusOf
    <2> QED
      BY <1>1, <2>1, <2>2 DEF PlayersInv
  <1>7. CASE UNCHANGED pVars
    BY <1>1, <1>7 DEF pVars, PlayersInv, RowsTyped, ChosenTyped, SelectedSoFar, ChosenLast,
                      ChosenWell, RowsOf, BonusOf
  <1> QED
    BY <1>2, <1>3, <1>4, <1>5, <1>6, <1>7 DEF P_Next

LEMMA SteadySafe == PlayersInv => SelectionSteady
  <1> DEFINE worth(f, row) == row.box.worth + IF \E c \in pContacts : c.frame = f /\ c.id = row.id
                                              THEN ContactBonus ELSE 0
             steady(f, i, row) ==
                /\ row.box.sound
                /\ row.y < 0 <=> i = "near"
                /\ f > 1 /\ pSelections[f - 1][i] # pSelections[f][i] =>
                    \A old \in RowsOf(f, pSelections[f - 1][i]) :
                        old.box.sound /\ (old.y < 0 <=> i = "near") /\ old.box.worth + Full >= MinimumScore
                            => worth(f, row) >= worth(f, old)
             goal(f) == /\ pSelections[f]["near"] # pSelections[f]["far"]
                        /\ \A i \in Identities : \E row \in RowsOf(f, pSelections[f][i]) : steady(f, i, row)
  <1>0. SelectionSteady <=> (pPc = "ready" => \A f \in DOMAIN pFrames : goal(f))
    BY Zenon DEF SelectionSteady
  <1> HIDE DEF goal
  <1> SUFFICES ASSUME PlayersInv, pPc = "ready", NEW f \in DOMAIN pFrames PROVE goal(f)
    BY <1>0
  <1>1. f \in 1..Len(pSelections) /\ f \in DOMAIN pSelections
    <2>1. Len(pSelections) = Len(pFrames) /\ DOMAIN pFrames = 1..Len(pFrames)
      BY LenProperties DEF PlayersInv, TracksInv, ClipTyped
    <2>2. DOMAIN pSelections = 1..Len(pSelections)
      BY LenProperties DEF PlayersInv, SelectedSoFar
    <2> QED
      BY <2>1, <2>2
  <1>2. \A i \in Identities : pSelections[f][i] # NoTrack
    <2>1. FrameStatus(pSelections[f]) = "PASS"
      BY <1>1 DEF PlayersInv
    <2> QED
      BY <2>1 DEF FrameStatus
  <1>3. \A i \in Identities : \E row \in RowsOf(f, pSelections[f][i]) : ChosenWell(f, i, row)
    BY <1>1, <1>2 DEF PlayersInv, SelectedSoFar
  <1>4. \A row : \A i \in Identities : CandidateSide(row) = i <=> (row.y < 0 <=> i = "near")
    BY DEF CandidateSide, Identities
  <1>5. pSelections[f]["near"] # pSelections[f]["far"]
    <2>1. "near" \in Identities /\ "far" \in Identities
      BY DEF Identities
    <2>2. PICK r \in RowsOf(f, pSelections[f]["near"]) : ChosenWell(f, "near", r)
      BY <1>3, <2>1
    <2>3. PICK s \in RowsOf(f, pSelections[f]["far"]) : ChosenWell(f, "far", s)
      BY <1>3, <2>1
    <2>4. r # s
      BY <2>2, <2>3 DEF ChosenWell
    <2>5. r.id # s.id
      BY <2>2, <2>3, <2>4 DEF PlayersInv, TracksInv, FollowedIn, RowsOf
    <2> QED
      BY <2>2, <2>3, <2>5 DEF RowsOf
  <1> QED
    <2>1. \A row : worth(f, row) = row.box.worth + BonusOf(f, row)
      BY DEF BonusOf
    <2> HIDE DEF worth
    <2>2. \A i \in Identities : \A row : ChosenWell(f, i, row) => steady(f, i, row)
      BY <1>4, <2>1 DEF ChosenWell
    <2> QED
      BY <1>3, <1>5, <2>2 DEF goal

\* A selection ready for the next stage names two different players on their sides, and
\* SelectionState changes a player only for a track that is worth more in that frame.
THEOREM SelectionIsSteady == P_Spec => []SelectionSteady
  <1>1. P_Init => PlayersInv
    BY PlayersInit
  <1>2. PlayersInv /\ [P_Next]_pVars => PlayersInv'
    BY PlayersStep
  <1> QED
    BY <1>1, <1>2, SteadySafe, PTL DEF P_Spec


=============================================================================
