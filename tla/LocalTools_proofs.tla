-------------------------- MODULE LocalTools_proofs --------------------------
(***************************************************************************)
(* Theorems about the tools a person works with in a browser: the vertical *)
(* reference, the calibration of the court and the event store of the      *)
(* annotator, for any number of threads, pages, submissions and events.    *)
(***************************************************************************)
EXTENDS EventStore, VerticalReference, CourtCalibration, SequenceTheorems, FiniteSetTheorems,
        TLAPS

-----------------------------------------------------------------------------
(***************************************************************************)
(* The vertical reference.  A request carries the points it mapped from    *)
(* before the reference is written until the answer, so what it refines    *)
(* the model from is what it saved; only another evaluation can have       *)
(* written the reference since.                                            *)
(***************************************************************************)
Request5A1 == [pc : {"idle", "append", "draft", "map", "final", "evaluate", "readiness"},
               payload : Points]

VerticalTypeOK ==
    /\ {vUp, vRerun, vOverlap} \subseteq BOOLEAN
    /\ vPoints \in Points
    /\ vThread \in [VThreads -> Request5A1]
    /\ \A t \in VThreads : vThread[t].pc = "append" => vThread[t].payload # <<>>
    /\ vDraft \in Points \cup {VNoFile, VTorn}
    /\ vFinal \in Reference \cup {VNoFile, VTorn}
    /\ {vCamera, vLoaded, vSaves} \subseteq Nat

Readable == vFinal \notin {VNoFile, VTorn}

\* What was mapped has each step, and so has what was saved.
MappedComplete ==
    /\ \A t \in VThreads : vThread[t].pc \in {"final", "evaluate", "readiness"} =>
          HasAllSteps(vThread[t].payload)
    /\ \A t \in VThreads : vThread[t].pc \in {"evaluate", "readiness"} => vFinal # VNoFile

\* Unless two evaluations met, one request saves at a time, and the reference is its own.
OneEvaluation ==
    ~vOverlap =>
        /\ \A t, u \in VThreads : Saving(t) /\ Saving(u) => t = u
        /\ \A t \in VThreads : vThread[t].pc \in {"evaluate", "readiness"} =>
              Readable /\ vFinal.points = vThread[t].payload

\* Unless Stage 5A ran again, all know one camera.
OneCamera ==
    ~vRerun => (vUp => vLoaded = vCamera) /\ (Readable => vFinal.camera = vCamera)

VerticalInv ==
    /\ VerticalTypeOK /\ MappedComplete /\ OneEvaluation /\ OneCamera
    /\ ReferenceComplete /\ RefinedFromReference

LEMMA VerticalInit == V_Init => VerticalInv
  <1> SUFFICES ASSUME V_Init PROVE VerticalInv
    OBVIOUS
  <1>1. \A t \in VThreads : vThread[t] = VIdle
    BY DEF V_Init
  <1>2. VIdle \in Request5A1 /\ VIdle.pc = "idle" /\ <<>> \in Points
    BY DEF VIdle, Request5A1, Points
  <1>3. VerticalTypeOK
    <2>1. vThread \in [VThreads -> Request5A1]
      BY <1>2 DEF V_Init
    <2>2. {vUp, vRerun, vOverlap} \subseteq BOOLEAN
      BY DEF V_Init
    <2>3. vCamera \in Nat /\ vLoaded \in Nat /\ vSaves \in Nat
      BY DEF V_Init
    <2> QED
      BY <1>1, <1>2, <2>1, <2>2, <2>3 DEF V_Init, VerticalTypeOK
  <1>4. MappedComplete /\ OneEvaluation /\ OneCamera
    BY <1>1, <1>2 DEF V_Init, MappedComplete, OneEvaluation, OneCamera, Saving, Readable
  <1>5. ReferenceComplete /\ RefinedFromReference
    BY DEF V_Init, ReferenceComplete, RefinedFromReference
  <1> QED
    BY <1>3, <1>4, <1>5 DEF VerticalInv

\* One request goes on; the others are where they were.
LEMMA RequestMoves ==
    ASSUME VerticalTypeOK, NEW t \in VThreads, NEW pc, NEW payload,
           vThread' = [vThread EXCEPT ![t].pc = pc]
              \/ vThread' = [vThread EXCEPT ![t].pc = pc, ![t].payload = payload],
           pc \in {"idle", "append", "draft", "map", "final", "evaluate", "readiness"},
           payload \in Points
    PROVE  /\ vThread' \in [VThreads -> Request5A1]
           /\ vThread'[t].pc = pc
           /\ vThread'[t].payload \in {vThread[t].payload, payload}
           /\ (vThread' = [vThread EXCEPT ![t].pc = pc] =>
                 vThread'[t].payload = vThread[t].payload)
           /\ (vThread' = [vThread EXCEPT ![t].pc = pc, ![t].payload = payload] =>
                 vThread'[t].payload = payload)
           /\ \A u \in VThreads \ {t} : vThread'[u] = vThread[u]
  BY DEF VerticalTypeOK, Request5A1

\* The front of a list is one of the same things.
LEMMA FrontOfList ==
    ASSUME NEW S, NEW s \in Seq(S), s # <<>>
    PROVE  Front(s) \in Seq(S)
  <1>1. Len(s) \in Nat /\ Len(s) # 0
    OBVIOUS
  <1> QED
    BY <1>1 DEF Front

LEMMA RequestEnds ==
    ASSUME VerticalTypeOK, NEW t \in VThreads, Answer(t)
    PROVE  /\ vThread' \in [VThreads -> Request5A1] /\ vThread'[t].pc = "idle"
           /\ \A u \in VThreads \ {t} : vThread'[u] = vThread[u]
  <1>1. VIdle \in Request5A1 /\ VIdle.pc = "idle"
    BY DEF VIdle, Request5A1, Points
  <1> QED
    BY <1>1 DEF VerticalTypeOK, Answer

\* A step of a request before its reference is written, or at its end.
LEMMA RequestKeeps ==
    ASSUME VerticalInv, NEW t \in VThreads, vThread' \in [VThreads -> Request5A1],
           \A u \in VThreads \ {t} : vThread'[u] = vThread[u],
           vThread'[t].pc \in {"idle", "append", "draft", "final"},
           vThread'[t].pc = "append" => vThread'[t].payload # <<>>,
           vThread'[t].pc = "final" => HasAllSteps(vThread'[t].payload) /\ Saving(t),
           vPoints' \in Points, vDraft' \in Points \cup {VNoFile, VTorn},
           UNCHANGED <<vFinal, vRefined, Saves, Session>>,
           vReadiness' = vReadiness \/ vFinal # VNoFile
    PROVE  VerticalInv'
  <1>0. UNCHANGED <<vFinal, vRefined, vSaves, vOverlap, vUp, vCamera, vLoaded, vRerun>>
    BY DEF Saves, Session
  <1>1. VerticalTypeOK'
    BY <1>0 DEF VerticalInv, VerticalTypeOK
  <1>2. MappedComplete'
    BY <1>0 DEF VerticalInv, MappedComplete
  <1>3. OneEvaluation'
    <2>1. \A u \in VThreads : Saving(u)' => Saving(u)
      BY DEF Saving
    <2> QED
      BY <1>0, <2>1 DEF VerticalInv, OneEvaluation, Readable
  <1>4. OneCamera' /\ ReferenceComplete' /\ RefinedFromReference'
    BY <1>0 DEF VerticalInv, OneCamera, Readable, ReferenceComplete, RefinedFromReference
  <1> QED
    BY <1>1, <1>2, <1>3, <1>4 DEF VerticalInv

LEMMA ListSteps ==
    ASSUME VerticalInv, NEW t \in VThreads,
           \/ \E pixel \in Offered[Min({4, Len(vPoints) + 1})] : Click(t, pixel)
           \/ AppendPoint(t) \/ UndoPoint(t) \/ ResetPoints(t)
           \/ WriteDraft(t) \/ MapPoints(t)
    PROVE  VerticalInv'
  <1>0. /\ VerticalTypeOK /\ vPoints \in Points /\ vThread[t] \in Request5A1
        /\ vDraft \in Points \cup {VNoFile, VTorn}
    BY DEF VerticalInv, VerticalTypeOK
  <1>1. UNCHANGED <<vFinal, vRefined, vReadiness, Saves, Session>>
    BY DEF Click, AppendPoint, UndoPoint, ResetPoints, WriteDraft, MapPoints, Outputs5A1
  <1>2. vThread[t].payload \in Points
    BY <1>0 DEF Request5A1
  <1>3. ASSUME NEW pixel \in Offered[Min({4, Len(vPoints) + 1})], Click(t, pixel)
        PROVE  VerticalInv'
    <2>1. Len(vPoints) \in Nat /\ Len(vPoints) < 4
      BY <1>0, <1>3 DEF Click, Points
    <2>2. Min({4, Len(vPoints) + 1}) = Len(vPoints) + 1
      BY <2>1 DEF Min
    <2>3. Len(vPoints) + 1 \in DOMAIN Offered
      BY <2>1, VerticalAssumption DEF Steps
    <2>4. pixel \in Pixels
      BY <1>3, <2>2, <2>3 DEF Pixels, Range
    <2> DEFINE payload == <<Point(Len(vPoints) + 1, pixel)>>
    <2>5. payload \in Points /\ payload # <<>>
      BY <2>1, <2>4 DEF Points, Point
    <2>6. /\ vThread' = [vThread EXCEPT ![t].pc = "append", ![t].payload = payload]
          /\ UNCHANGED <<vPoints, vDraft>>
      BY <1>3 DEF Click, Carry
    <2> HIDE DEF payload
    <2>7. /\ vThread' \in [VThreads -> Request5A1] /\ vThread'[t].pc = "append"
          /\ vThread'[t].payload # <<>>
          /\ \A u \in VThreads \ {t} : vThread'[u] = vThread[u]
      BY <1>0, <2>5, <2>6, RequestMoves
    <2> QED
      BY <1>0, <1>1, <2>6, <2>7, RequestKeeps
  <1>4. CASE AppendPoint(t) \/ UndoPoint(t) \/ ResetPoints(t)
    <2>1. vPoints' \in Points
      <3>1. CASE AppendPoint(t)
        <4>1. vThread[t].payload # <<>>
          BY <1>0, <3>1 DEF VerticalTypeOK, AppendPoint, At
        <4>3. ASSUME NEW S, NEW s \in Seq(S), s # <<>> PROVE s[1] \in S
          <5>1. Len(s) \in Nat /\ Len(s) # 0
            BY <4>3
          <5> QED
            BY <5>1
        <4>4. vThread[t].payload[1] \in [id : Nat, pixel : Pixels]
          BY <1>2, <4>1, <4>3 DEF Points
        <4>2. vPoints' = Append(vPoints, vThread[t].payload[1])
          BY <3>1 DEF AppendPoint
        <4> QED
          BY <1>0, <4>2, <4>4 DEF Points
      <3>2. CASE UndoPoint(t)
        BY <1>0, <3>2, FrontOfList DEF UndoPoint, Points
      <3>3. CASE ResetPoints(t)
        BY <3>3 DEF ResetPoints, Points
      <3> QED
        BY <1>4, <3>1, <3>2, <3>3
    <2>2. vThread' = [vThread EXCEPT ![t].pc = "draft"] /\ vDraft' = vDraft
      BY <1>4 DEF AppendPoint, UndoPoint, ResetPoints, MoveTo
    <2>3. /\ vThread' \in [VThreads -> Request5A1] /\ vThread'[t].pc = "draft"
          /\ \A u \in VThreads \ {t} : vThread'[u] = vThread[u]
      BY <1>0, <1>2, <2>2, RequestMoves
    <2> QED
      BY <1>0, <1>1, <2>1, <2>2, <2>3, RequestKeeps
  <1>5. CASE WriteDraft(t)
    <2>1. Answer(t) /\ vPoints' = vPoints /\ vDraft' \in Points \cup {VNoFile, VTorn}
      BY <1>0, <1>5 DEF WriteDraft
    <2> QED
      BY <1>0, <1>1, <2>1, RequestEnds, RequestKeeps
  <1>6. CASE MapPoints(t)
    <2>1. UNCHANGED <<vPoints, vDraft>> /\ Saving(t)
      BY <1>6 DEF MapPoints, At, Saving
    <2>2. CASE HasAllSteps(vPoints)
      <3>1. vThread' = [vThread EXCEPT ![t].pc = "final", ![t].payload = vPoints]
        BY <1>6, <2>2 DEF MapPoints, Carry
      <3>2. /\ vThread' \in [VThreads -> Request5A1] /\ vThread'[t].pc = "final"
            /\ vThread'[t].payload = vPoints
            /\ \A u \in VThreads \ {t} : vThread'[u] = vThread[u]
        BY <1>0, <3>1, RequestMoves
      <3> QED
        BY <1>0, <1>1, <2>1, <2>2, <3>2, RequestKeeps
    <2>3. CASE Answer(t)
      BY <1>0, <1>1, <2>1, <2>3, RequestEnds, RequestKeeps
    <2> QED
      BY <1>6, <2>2, <2>3 DEF MapPoints
  <1> QED
    BY <1>3, <1>4, <1>5, <1>6

\* The ends of a request that saved: nothing but the readiness is written.
LEMMA EndSteps ==
    ASSUME VerticalInv, NEW t \in VThreads,
           WriteReadiness(t) \/ EvaluateInvalid(t) \/ EvaluateNoCandidate(t)
    PROVE  VerticalInv'
  <1>1. /\ UNCHANGED <<vPoints, vDraft, vFinal, vRefined, Saves, Session>> /\ Answer(t)
        /\ vThread[t].pc \in {"evaluate", "readiness"}
    BY DEF WriteReadiness, EvaluateInvalid, EvaluateNoCandidate, At, Outputs5A1
  <1>2. vFinal # VNoFile
    BY <1>1 DEF VerticalInv, MappedComplete
  <1>3. VerticalTypeOK /\ vPoints' \in Points /\ vDraft' \in Points \cup {VNoFile, VTorn}
    BY <1>1 DEF VerticalInv, VerticalTypeOK
  <1> QED
    BY <1>1, <1>2, <1>3, RequestEnds, RequestKeeps

LEMMA ValidateKeeps ==
    ASSUME VerticalInv, NEW t \in VThreads, Validate(t)
    PROVE  VerticalInv'
  <1>0. VerticalTypeOK
    BY DEF VerticalInv
  <1>1. /\ vThread[t].pc = "idle" /\ vThread' = [vThread EXCEPT ![t].pc = "map"]
        /\ vSaves' = vSaves + 1 /\ vOverlap' = (vOverlap \/ \E u \in VThreads : Saving(u))
        /\ UNCHANGED <<vPoints, vDraft, vFinal, vRefined, vReadiness, vUp, vCamera, vLoaded, vRerun>>
    BY DEF Validate, At, MoveTo, Session, Outputs5A1
  <1>2. /\ vThread' \in [VThreads -> Request5A1] /\ vThread'[t].pc = "map"
        /\ \A u \in VThreads \ {t} : vThread'[u] = vThread[u]
    BY <1>0, <1>1, RequestMoves DEF VerticalTypeOK
  <1>3. VerticalTypeOK'
    BY <1>0, <1>1, <1>2 DEF VerticalTypeOK
  <1>4. MappedComplete'
    BY <1>1, <1>2 DEF VerticalInv, MappedComplete
  <1>5. OneEvaluation'
    <2>1. \A u \in VThreads \ {t} : Saving(u)' => Saving(u)
      BY <1>2 DEF Saving
    <2> QED
      BY <1>1, <1>2, <2>1 DEF VerticalInv, OneEvaluation, Readable
  <1>6. OneCamera' /\ ReferenceComplete' /\ RefinedFromReference'
    BY <1>1 DEF VerticalInv, OneCamera, Readable, ReferenceComplete, RefinedFromReference
  <1> QED
    BY <1>3, <1>4, <1>5, <1>6 DEF VerticalInv

\* The reference becomes the request's own, or, beside another write, is torn.
LEMMA FinalKeeps ==
    ASSUME VerticalInv, NEW t \in VThreads, WriteFinal(t)
    PROVE  VerticalInv'
  <1> DEFINE file == [points |-> vThread[t].payload, camera |-> vCamera]
  <1>0. VerticalTypeOK /\ vThread[t] \in Request5A1 /\ vCamera \in Nat
    BY DEF VerticalInv, VerticalTypeOK
  <1>1. /\ vUp /\ vThread[t].pc = "final" /\ vThread' = [vThread EXCEPT ![t].pc = "evaluate"]
        /\ vFinal' = file \/ (Contended(t, "final") /\ vFinal' = VTorn)
        /\ UNCHANGED <<vPoints, vDraft, vRefined, vReadiness, vSaves, vOverlap,
                       vUp, vCamera, vLoaded, vRerun>>
    BY DEF WriteFinal, At, MoveTo, Session, Saves
  <1>2. file \in Reference /\ file.points = vThread[t].payload /\ file.camera = vCamera
    BY <1>0 DEF Reference, Request5A1
  <1>3. file \notin {VNoFile, VTorn}
    BY <1>2, VerticalAssumption
  <1> HIDE DEF file
  <1>4. /\ vThread' \in [VThreads -> Request5A1] /\ vThread'[t].pc = "evaluate"
        /\ vThread'[t].payload = vThread[t].payload
        /\ \A u \in VThreads \ {t} : vThread'[u] = vThread[u]
    BY <1>0, <1>1, RequestMoves DEF VerticalTypeOK
  <1>5. HasAllSteps(vThread[t].payload)
    BY <1>1 DEF VerticalInv, MappedComplete
  <1>6. VerticalTypeOK'
    BY <1>0, <1>1, <1>2, <1>4 DEF VerticalTypeOK
  <1>7. vFinal' # VNoFile
    BY <1>1, <1>3, VerticalAssumption
  <1>8. MappedComplete'
    BY <1>1, <1>4, <1>5, <1>7 DEF VerticalInv, MappedComplete
  <1>9. OneEvaluation'
    <2>1. SUFFICES ASSUME ~vOverlap PROVE OneEvaluation'
      BY <1>1 DEF OneEvaluation
    <2>2. \A u \in VThreads \ {t} : ~Saving(u)
      BY <1>1, <2>1 DEF VerticalInv, OneEvaluation, Saving
    <2>3. vFinal' = file
      BY <1>1, <2>2 DEF Contended, At, Saving
    <2>4. \A u \in VThreads \ {t} : ~Saving(u)' /\ vThread'[u].pc \notin {"evaluate", "readiness"}
      BY <1>4, <2>2 DEF Saving
    <2> QED
      BY <1>2, <1>3, <1>4, <2>3, <2>4 DEF OneEvaluation, Readable
  <1>10. OneCamera'
    BY <1>1, <1>2 DEF VerticalInv, OneCamera, Readable
  <1>11. ReferenceComplete'
    BY <1>1, <1>2, <1>3, <1>5, <1>7 DEF ReferenceComplete
  <1>12. RefinedFromReference'
    BY <1>1 DEF VerticalInv, RefinedFromReference
  <1> QED
    BY <1>6, <1>8, <1>9, <1>10, <1>11, <1>12 DEF VerticalInv

LEMMA EvaluateKeeps ==
    ASSUME VerticalInv, NEW t \in VThreads, EvaluateSelected(t)
    PROVE  VerticalInv'
  <1>0. VerticalTypeOK
    BY DEF VerticalInv
  <1>1. /\ vUp /\ vThread[t].pc = "evaluate" /\ vThread' = [vThread EXCEPT ![t].pc = "readiness"]
        /\ vRefined' = [points |-> vThread[t].payload, reference |-> vFinal, camera |-> vLoaded]
        /\ UNCHANGED <<vPoints, vDraft, vFinal, vReadiness, vSaves, vOverlap,
                       vUp, vCamera, vLoaded, vRerun>>
    BY DEF EvaluateSelected, At, MoveTo, Session, Saves
  <1>2. /\ vThread' \in [VThreads -> Request5A1] /\ vThread'[t].pc = "readiness"
        /\ vThread'[t].payload = vThread[t].payload
        /\ \A u \in VThreads \ {t} : vThread'[u] = vThread[u]
    BY <1>0, <1>1, RequestMoves DEF VerticalTypeOK
  <1>3. VerticalTypeOK'
    BY <1>0, <1>1, <1>2 DEF VerticalTypeOK
  <1>4. MappedComplete' /\ ReferenceComplete'
    BY <1>1, <1>2 DEF VerticalInv, MappedComplete, ReferenceComplete
  <1>5. OneEvaluation'
    <2>1. \A u \in VThreads : Saving(u)' => Saving(u)
      BY <1>1, <1>2 DEF Saving
    <2> QED
      BY <1>1, <1>2, <2>1 DEF VerticalInv, OneEvaluation, Readable
  <1>6. OneCamera'
    BY <1>1 DEF VerticalInv, OneCamera, Readable
  <1>7. RefinedFromReference'
    <2>1. ~vOverlap => Readable /\ vFinal.points = vThread[t].payload
      BY <1>1 DEF VerticalInv, OneEvaluation
    <2>2. ~vRerun /\ Readable => vFinal.camera = vLoaded
      BY <1>1 DEF VerticalInv, OneCamera
    <2> QED
      BY <1>1, <2>1, <2>2 DEF RefinedFromReference, Readable
  <1> QED
    BY <1>3, <1>4, <1>5, <1>6, <1>7 DEF VerticalInv

\* Stage 5A again, an evaluation without the server, and the server's end and start.
LEMMA OutsideSteps ==
    ASSUME VerticalInv, RerunStage5A \/ EvaluateOffline \/ StopVertical \/ StartVertical
    PROVE  VerticalInv'
  <1>0. VerticalTypeOK
    BY DEF VerticalInv
  <1>1. CASE RerunStage5A
    <2>1. /\ vCamera' = vCamera + 1 /\ vRerun' = (vRerun \/ vUp \/ vFinal # VNoFile)
          /\ UNCHANGED <<vUp, vLoaded, vPoints, vThread, vDraft, vSaves, vOverlap,
                         vFinal, vRefined, vReadiness>>
      BY <1>1 DEF RerunStage5A, Saves, Outputs5A1
    <2>2. VerticalTypeOK'
      BY <1>0, <2>1 DEF VerticalTypeOK
    <2>3. MappedComplete' /\ OneEvaluation' /\ ReferenceComplete'
      BY <2>1 DEF VerticalInv, MappedComplete, OneEvaluation, Readable, Saving, ReferenceComplete
    <2>4. OneCamera' /\ RefinedFromReference'
      BY <2>1 DEF VerticalInv, OneCamera, Readable, RefinedFromReference
    <2> QED
      BY <2>2, <2>3, <2>4 DEF VerticalInv
  <1>2. CASE EvaluateOffline
    <2>1. /\ Readable /\ vOverlap' = (vOverlap \/ \E t \in VThreads : Saving(t))
          /\ vRefined' = [points |-> vFinal.points, reference |-> vFinal, camera |-> vCamera]
          /\ UNCHANGED <<vPoints, vThread, vDraft, vFinal, vSaves, vUp, vCamera, vLoaded, vRerun>>
      BY <1>2 DEF EvaluateOffline, Readable, Session
    <2>2. VerticalTypeOK' /\ MappedComplete' /\ OneEvaluation' /\ OneCamera'
      BY <1>0, <2>1 DEF VerticalInv, VerticalTypeOK, MappedComplete, OneEvaluation, OneCamera,
                        Readable, Saving
    <2>3. ReferenceComplete' /\ RefinedFromReference'
      BY <2>1 DEF VerticalInv, OneCamera, Readable, ReferenceComplete, RefinedFromReference
    <2> QED
      BY <2>2, <2>3 DEF VerticalInv
  <1>3. CASE StopVertical
    <2>1. /\ ~vUp' /\ vPoints' = <<>> /\ vThread' = [t \in VThreads |-> VIdle]
          /\ vDraft' \in {vDraft, VTorn} /\ vFinal' \in {vFinal, VTorn}
          /\ UNCHANGED <<vCamera, vLoaded, vRerun, vSaves, vOverlap, vRefined, vReadiness>>
          /\ vUp' \in BOOLEAN
      BY <1>3 DEF StopVertical, Saves, Cut
    <2>2. VIdle \in Request5A1 /\ VIdle.pc = "idle" /\ <<>> \in Points
      BY DEF VIdle, Request5A1, Points
    <2>3. VerticalTypeOK' /\ MappedComplete'
      BY <1>0, <2>1, <2>2 DEF VerticalTypeOK, MappedComplete
    <2>4. OneEvaluation' /\ OneCamera' /\ ReferenceComplete' /\ RefinedFromReference'
      BY <2>1, <2>2, VerticalAssumption
         DEF VerticalInv, OneEvaluation, OneCamera, Readable, Saving, ReferenceComplete,
             RefinedFromReference
    <2> QED
      BY <2>3, <2>4 DEF VerticalInv
  <1>4. CASE StartVertical
    <2>1. /\ vUp' = TRUE /\ vLoaded' = vCamera /\ vPoints' \in Points
          /\ UNCHANGED <<vThread, vDraft, vCamera, vRerun, vSaves, vOverlap,
                         vFinal, vRefined, vReadiness>>
      BY <1>0, <1>4 DEF StartVertical, Saves, Outputs5A1, VerticalTypeOK, Points
    <2> QED
      BY <1>0, <2>1 DEF VerticalInv, VerticalTypeOK, MappedComplete, OneEvaluation, OneCamera,
                        Readable, Saving, ReferenceComplete, RefinedFromReference
  <1> QED
    BY <1>1, <1>2, <1>3, <1>4

LEMMA VerticalNext == VerticalInv /\ [V_Next]_vVars => VerticalInv'
  <1>1. VerticalInv /\ UNCHANGED vVars => VerticalInv'
    BY DEF vVars, VerticalInv, VerticalTypeOK, MappedComplete, OneEvaluation, OneCamera,
           Readable, Saving, ReferenceComplete, RefinedFromReference
  <1> QED
    BY <1>1, ListSteps, EndSteps, ValidateKeeps, FinalKeeps, EvaluateKeeps, OutsideSteps
       DEF V_Next

\* vertical_reference.json, when it can be read, holds the four steps, and nothing
\* that is made from a reference is on disk without one, for any number of request
\* threads and wherever the server is killed.
THEOREM ReferencesComplete == V_Spec => []ReferenceComplete
  <1>1. VerticalInv => ReferenceComplete
    BY DEF VerticalInv
  <1> QED
    BY <1>1, VerticalInit, VerticalNext, PTL DEF V_Spec

\* The refined camera names the reference it was refined from, with its points and
\* its camera, unless two evaluations met or Stage 5A ran over it.
THEOREM RefinedNamesReference == V_Spec => []RefinedFromReference
  <1>1. VerticalInv => RefinedFromReference
    BY DEF VerticalInv
  <1> QED
    BY <1>1, VerticalInit, VerticalNext, PTL DEF V_Spec

-----------------------------------------------------------------------------
(***************************************************************************)
(* The calibration.  The size a submission was checked against is that of  *)
(* the frame the server was started with, which the corners file names; it *)
(* cannot change under a submission, because no request outlives its       *)
(* server.                                                                 *)
(***************************************************************************)
CPoints == Seq(Int \X Int)
CourtPage == [clicked : CPoints, shown : {"", "saved"}]
Submission == [page : CPages, points : CPoints, pc : {"sent", "write", "reply", "over"}]

CourtTypeOK ==
    /\ cFrame \in 1..Len(FrameSizes) /\ cServed \in 1..Len(FrameSizes)
    /\ cServer \in {"down", "up", "stopping"}
    /\ cTimers \in Nat
    /\ cPage \in [CPages -> CourtPage]
    /\ cSubmits \in Seq(Submission)
    /\ cWindow \in CPoints \cup {CNoFile}
    /\ cCorners \in Corners \cup {CNoFile, CTorn}

\* What is being written passed the check, and the server that made it still runs.
AcceptedChecked ==
    \A i \in DOMAIN cSubmits : cSubmits[i].pc \in {"write", "reply"} =>
        /\ ValidCalibration(cSubmits[i].points, FrameSizes[cServed])
        /\ cServer # "down"

WebCornersChecked ==
    cCorners \notin {CNoFile, CTorn} /\ cCorners.by = "web" =>
        ValidCalibration(cCorners.points, FrameSizes[cCorners.frame])

SaysSaved(p) == cPage[p].shown = "saved"

\* No page says "saved" before the only submission is written; from then on its
\* points are in the file, unless the window wrote others.
OnlySubmission ==
    /\ Len(cSubmits) = 0 => \A p \in CPages : ~SaysSaved(p)
    /\ Len(cSubmits) = 1 =>
        /\ cSubmits[1].pc \in {"sent", "write"} => \A p \in CPages : ~SaysSaved(p)
        /\ cSubmits[1].pc = "reply" \/ (\E p \in CPages : SaysSaved(p)) =>
              /\ cCorners \notin {CNoFile, CTorn}
              /\ cCorners.by = "web" => cCorners.points = cSubmits[1].points

CourtInv == CourtTypeOK /\ AcceptedChecked /\ WebCornersChecked /\ OnlySubmission

LEMMA CourtInit == C_Init => CourtInv
  <1> SUFFICES ASSUME C_Init PROVE CourtInv
    OBVIOUS
  <1>1. /\ cPage = [p \in CPages |-> PageStart] /\ cSubmits = <<>> /\ cCorners = CNoFile
        /\ cFrame = 1 /\ cServed = 1 /\ cTimers = 0 /\ cServer = "down" /\ cWindow = CNoFile
    BY DEF C_Init
  <1>2. PageStart \in CourtPage /\ PageStart.shown = ""
    BY DEF PageStart, CourtPage, CPoints
  <1>3. 1 \in 1..Len(FrameSizes)
    BY CalibrationAssumption
  <1>4. CourtTypeOK
    <2>1. cPage \in [CPages -> CourtPage]
      BY <1>1, <1>2
    <2>2. cSubmits \in Seq(Submission)
      BY <1>1
    <2> QED
      BY <1>1, <1>3, <2>1, <2>2 DEF CourtTypeOK
  <1>5. AcceptedChecked /\ WebCornersChecked
    BY <1>1 DEF AcceptedChecked, WebCornersChecked
  <1>6. OnlySubmission
    <2>1. Len(cSubmits) = 0 /\ \A p \in CPages : ~SaysSaved(p)
      BY <1>1, <1>2 DEF SaysSaved
    <2> QED
      BY <2>1 DEF OnlySubmission
  <1> QED
    BY <1>4, <1>5, <1>6 DEF CourtInv

\* A point of a layout is a pair of numbers.
LEMMA ChoicesArePoints ==
    ASSUME NEW k \in 1..8, NEW point \in ClickChoices(k)
    PROVE  point \in Int \X Int
  <1>1. PICK l \in Layouts : point = l[k]
    BY DEF ClickChoices
  <1>2. l \in Seq(Int \X Int) /\ k \in 1..Len(l)
    BY CalibrationAssumption
  <1> QED
    BY <1>1, <1>2

\* What does not touch submissions, the file or the size the server took.
LEMMA CourtQuiet ==
    ASSUME CourtInv, UNCHANGED <<cSubmits, cCorners, cServed>>,
           cPage' \in [CPages -> CourtPage],
           \A p \in CPages : SaysSaved(p)' => SaysSaved(p),
           cFrame' \in 1..Len(FrameSizes), cTimers' \in Nat,
           cServer' \in {cServer, "stopping"}, cWindow' \in CPoints \cup {CNoFile}
    PROVE  CourtInv'
  <1>1. CourtTypeOK'
    BY DEF CourtInv, CourtTypeOK
  <1>2. AcceptedChecked' /\ WebCornersChecked'
    BY DEF CourtInv, AcceptedChecked, WebCornersChecked
  <1>3. OnlySubmission'
    BY DEF CourtInv, OnlySubmission
  <1> QED
    BY <1>1, <1>2, <1>3 DEF CourtInv

LEMMA WindowSteps ==
    ASSUME CourtInv,
           \/ OpenWindow \/ RetryLast \/ CancelWindow \/ ExtractFrame \/ ShutdownServer
           \/ \E k \in 1..8 : \E point \in ClickChoices(k) :
                 cWindow # CNoFile /\ k = Len(cWindow) + 1 /\ ClickWindow(point)
    PROVE  CourtInv'
  <1>0. CourtTypeOK
    BY DEF CourtInv
  <1>1. CASE OpenWindow \/ RetryLast \/ CancelWindow
    <2>1. cWindow' \in CPoints \cup {CNoFile}
      <3>1. RetryLast => cWindow' \in CPoints
        BY <1>0, FrontOfList DEF RetryLast, CourtTypeOK, CPoints
      <3>2. <<>> \in CPoints
        BY DEF CPoints
      <3> QED
        BY <1>1, <3>1, <3>2 DEF OpenWindow, CancelWindow
    <2>2. UNCHANGED <<cFrame, cServer, cServed, cTimers, cPage, cSubmits, cCorners>>
      BY <1>1 DEF OpenWindow, RetryLast, CancelWindow, Server1
    <2> QED
      BY <1>0, <2>1, <2>2, CourtQuiet DEF CourtTypeOK, SaysSaved
  <1>2. CASE ExtractFrame
    <2>1. /\ cFrame < Len(FrameSizes) /\ cFrame' = cFrame + 1
          /\ UNCHANGED <<cServer, cServed, cTimers, cPage, cSubmits, cWindow, cCorners>>
      BY <1>2 DEF ExtractFrame, Server1
    <2>2. Len(FrameSizes) \in Nat
      BY CalibrationAssumption
    <2> QED
      BY <1>0, <2>1, <2>2, CourtQuiet DEF CourtTypeOK, SaysSaved
  <1>3. CASE ShutdownServer
    <2>1. /\ cTimers > 0 /\ cTimers' = cTimers - 1 /\ cServer' = "stopping"
          /\ UNCHANGED <<cFrame, cServed, cPage, cSubmits, cWindow, cCorners>>
      BY <1>3 DEF ShutdownServer
    <2>2. cTimers' \in Nat
      BY <1>0, <2>1 DEF CourtTypeOK
    <2> QED
      BY <1>0, <2>1, <2>2, CourtQuiet DEF CourtTypeOK, SaysSaved
  <1>4. ASSUME NEW k \in 1..8, NEW point \in ClickChoices(k),
               cWindow # CNoFile, ClickWindow(point)
        PROVE  CourtInv'
    <2>1. cWindow' = Append(cWindow, point)
          /\ UNCHANGED <<cFrame, cServer, cServed, cTimers, cPage, cSubmits, cCorners>>
      BY <1>4 DEF ClickWindow, Server1
    <2>2. point \in Int \X Int
      BY ChoicesArePoints
    <2>3. cWindow' \in CPoints
      BY <1>0, <1>4, <2>1, <2>2 DEF CourtTypeOK, CPoints
    <2> QED
      BY <1>0, <2>1, <2>3, CourtQuiet DEF CourtTypeOK, SaysSaved
  <1> QED
    BY <1>1, <1>2, <1>3, <1>4

\* A click: the page shows nothing more, and the eighth sends the points.
LEMMA PageSteps ==
    ASSUME CourtInv, NEW p \in CPages,
           \/ \E point \in ClickChoices(Min({8, Len(cPage[p].clicked) + 1})) : ClickCorner(p, point)
           \/ UndoClick(p) \/ ResetClicks(p)
    PROVE  CourtInv'
  <1>0. CourtTypeOK /\ cPage[p] \in CourtPage /\ cPage[p].clicked \in CPoints
    BY DEF CourtInv, CourtTypeOK, CourtPage
  <1>1. ASSUME NEW new \in CPoints, cPage' = [cPage EXCEPT ![p] = [clicked |-> new, shown |-> ""]]
        PROVE  /\ cPage' \in [CPages -> CourtPage] /\ ~SaysSaved(p)'
               /\ \A q \in CPages : SaysSaved(q)' => SaysSaved(q)
    BY <1>0, <1>1 DEF CourtTypeOK, CourtPage, SaysSaved
  <1>2. CASE UndoClick(p) \/ ResetClicks(p)
    <2>1. UNCHANGED <<cFrame, cServer, cServed, cTimers, cSubmits, cWindow, cCorners>>
      BY <1>2 DEF UndoClick, ResetClicks, Server1
    <2>2. PICK new \in CPoints : cPage' = [cPage EXCEPT ![p] = [clicked |-> new, shown |-> ""]]
      <3>1. UndoClick(p) => Front(cPage[p].clicked) \in CPoints
        BY <1>0, FrontOfList DEF UndoClick, CPoints
      <3>2. UndoClick(p) =>
               cPage' = [cPage EXCEPT ![p] = [clicked |-> Front(cPage[p].clicked), shown |-> ""]]
        BY DEF UndoClick
      <3>3. ResetClicks(p) => cPage' = [cPage EXCEPT ![p] = [clicked |-> <<>>, shown |-> ""]]
        BY DEF ResetClicks, PageStart
      <3>4. <<>> \in CPoints
        BY DEF CPoints
      <3> QED
        BY <1>2, <3>1, <3>2, <3>3, <3>4
    <2>3. /\ cPage' \in [CPages -> CourtPage]
          /\ \A q \in CPages : SaysSaved(q)' => SaysSaved(q)
      BY <1>1, <2>2
    <2> QED
      BY <1>0, <2>1, <2>3, CourtQuiet DEF CourtTypeOK
  <1>3. ASSUME NEW point \in ClickChoices(Min({8, Len(cPage[p].clicked) + 1})),
               ClickCorner(p, point)
        PROVE  CourtInv'
    <2> DEFINE clicked == Append(cPage[p].clicked, point)
               sent == [page |-> p, points |-> clicked, pc |-> "sent"]
    <2>1. clicked \in CPoints
      <3>1. Len(cPage[p].clicked) \in Nat /\ Len(cPage[p].clicked) < 8
        <4>1. Len(cPage[p].clicked) \in Nat
          BY <1>0 DEF CPoints
        <4> HIDE DEF clicked, sent
        <4> QED
          BY <1>3, <4>1 DEF ClickCorner
      <3>2. Min({8, Len(cPage[p].clicked) + 1}) \in 1..8
        BY <3>1 DEF Min
      <3>3. point \in Int \X Int
        BY <1>3, <3>2, ChoicesArePoints
      <3> QED
        BY <1>0, <3>3 DEF CPoints
    <2>2. /\ cPage' = [cPage EXCEPT ![p] = [clicked |-> clicked, shown |-> ""]]
          /\ cSubmits' = cSubmits \/ cSubmits' = Append(cSubmits, sent)
          /\ UNCHANGED <<cFrame, cServer, cServed, cTimers, cWindow, cCorners>>
      BY <1>3 DEF ClickCorner, Server1
    <2>3. sent \in Submission /\ sent.pc = "sent"
      BY <2>1 DEF Submission
    <2>4. /\ cPage' \in [CPages -> CourtPage] /\ ~SaysSaved(p)'
          /\ \A q \in CPages : SaysSaved(q)' => SaysSaved(q)
      BY <1>1, <2>1, <2>2
    <2> HIDE DEF clicked, sent
    <2>5. CASE cSubmits' = cSubmits
      BY <1>0, <2>2, <2>4, <2>5, CourtQuiet DEF CourtTypeOK
    <2>6. CASE cSubmits' = Append(cSubmits, sent)
      <3>1. /\ cSubmits \in Seq(Submission) /\ cSubmits' \in Seq(Submission)
            /\ Len(cSubmits') = Len(cSubmits) + 1 /\ Len(cSubmits) \in Nat
            /\ DOMAIN cSubmits' = 1..(Len(cSubmits) + 1)
            /\ cSubmits'[Len(cSubmits) + 1] = sent
            /\ \A i \in DOMAIN cSubmits : cSubmits'[i] = cSubmits[i]
            /\ DOMAIN cSubmits = 1..Len(cSubmits)
        BY <1>0, <2>3, <2>6 DEF CourtTypeOK
      <3>2. CourtTypeOK'
        BY <1>0, <2>2, <2>4, <3>1 DEF CourtTypeOK
      <3>3. AcceptedChecked'
        <4>1. \A i \in DOMAIN cSubmits' : i \in DOMAIN cSubmits \/ cSubmits'[i] = sent
          BY <3>1
        <4> QED
          BY <2>2, <2>3, <3>1, <4>1 DEF CourtInv, AcceptedChecked
      <3>4. WebCornersChecked'
        BY <2>2 DEF CourtInv, WebCornersChecked
      <3>5. OnlySubmission'
        <4>1. Len(cSubmits') # 0 /\ (Len(cSubmits') = 1 => Len(cSubmits) = 0 /\ cSubmits'[1] = sent)
          BY <3>1
        <4>2. Len(cSubmits) = 0 => \A q \in CPages : ~SaysSaved(q)'
          BY <2>4 DEF CourtInv, OnlySubmission
        <4> QED
          BY <2>3, <4>1, <4>2 DEF OnlySubmission
      <3> QED
        BY <3>2, <3>3, <3>4, <3>5 DEF CourtInv
    <2> QED
      BY <2>2, <2>5, <2>6
  <1> QED
    BY <1>2, <1>3

\* A submission goes on; its points and the other submissions stay.
LEMMA SubmissionMoves ==
    ASSUME CourtTypeOK, NEW i \in DOMAIN cSubmits, NEW pc \in {"sent", "write", "reply", "over"},
           SubmitTo(i, pc)
    PROVE  /\ cSubmits' \in Seq(Submission) /\ Len(cSubmits') = Len(cSubmits)
           /\ DOMAIN cSubmits' = DOMAIN cSubmits
           /\ cSubmits'[i].pc = pc
           /\ \A j \in DOMAIN cSubmits : cSubmits'[j].points = cSubmits[j].points
           /\ \A j \in DOMAIN cSubmits \ {i} : cSubmits'[j] = cSubmits[j]
           /\ cSubmits[i] \in Submission
           /\ i = 1 \/ Len(cSubmits) # 1
           /\ (Len(cSubmits) # 0)
  <1> DEFINE new == [cSubmits[i] EXCEPT !.pc = pc]
  <1>1. /\ cSubmits \in Seq(Submission) /\ DOMAIN cSubmits = 1..Len(cSubmits)
        /\ Len(cSubmits) \in Nat /\ i \in 1..Len(cSubmits)
    BY DEF CourtTypeOK
  <1>2. cSubmits[i] \in Submission
    BY <1>1
  <1>3. new \in Submission /\ new.pc = pc /\ new.points = cSubmits[i].points
    BY <1>2 DEF Submission
  <1>4. cSubmits' = [cSubmits EXCEPT ![i] = new]
    BY DEF SubmitTo
  <1> HIDE DEF new
  <1>5. /\ cSubmits' \in Seq(Submission) /\ Len(cSubmits') = Len(cSubmits)
        /\ \A j \in 1..Len(cSubmits) : cSubmits'[j] = IF j = i THEN new ELSE cSubmits[j]
    BY <1>1, <1>3, <1>4, ExceptSeq
  <1>6. DOMAIN cSubmits' = DOMAIN cSubmits
    BY <1>4
  <1> QED
    BY <1>1, <1>2, <1>3, <1>5, <1>6

\* A refusal, or the end of a server, shows nothing on any page that was not there.
LEMMA PagesReset ==
    ASSUME CourtTypeOK, cPage' \in [CPages -> {PageStart} \cup CourtPage],
           \A p \in CPages : cPage'[p] \in {PageStart, cPage[p]}
    PROVE  /\ cPage' \in [CPages -> CourtPage]
           /\ \A p \in CPages : SaysSaved(p)' => SaysSaved(p)
  <1>0. <<>> \in CPoints
    BY DEF CPoints
  <1>1. PageStart \in CourtPage /\ PageStart.shown = ""
    BY <1>0 DEF PageStart, CourtPage
  <1> QED
    BY <1>1 DEF SaysSaved

LEMMA RefusedPage ==
    ASSUME CourtTypeOK, NEW i \in DOMAIN cSubmits, cPage' = Refusal(i)
    PROVE  /\ cPage' \in [CPages -> CourtPage]
           /\ \A p \in CPages : SaysSaved(p)' => SaysSaved(p)
  <1>1. PageStart \in CourtPage /\ PageStart.shown = ""
    BY DEF PageStart, CourtPage, CPoints
  <1>2. cPage' = [cPage EXCEPT ![cSubmits[i].page] = PageStart]
    BY DEF Refusal
  <1> QED
    BY <1>1, <1>2 DEF CourtTypeOK, SaysSaved

LEMMA CheckKeeps ==
    ASSUME CourtInv, NEW i \in DOMAIN cSubmits, CheckSubmission(i) \/ LoseSubmission(i)
    PROVE  CourtInv'
  <1>0. CourtTypeOK
    BY DEF CourtInv
  <1>1. /\ UNCHANGED <<cFrame, cServer, cServed, cTimers, cWindow, cCorners>>
        /\ cSubmits[i].pc = "sent"
    BY DEF CheckSubmission, LoseSubmission, SubmitAt, Server1
  <1>2. PICK pc \in {"write", "over"} :
           /\ SubmitTo(i, pc)
           /\ cPage' = cPage \/ cPage' = Refusal(i)
           /\ pc = "write" => /\ ValidCalibration(cSubmits[i].points, FrameSizes[cServed])
                              /\ cServer = "up"
    BY DEF CheckSubmission, LoseSubmission
  <1>3. /\ cPage' \in [CPages -> CourtPage]
        /\ \A p \in CPages : SaysSaved(p)' => SaysSaved(p)
    BY <1>0, <1>2, RefusedPage DEF CourtTypeOK, SaysSaved
  <1>4. /\ cSubmits' \in Seq(Submission) /\ Len(cSubmits') = Len(cSubmits)
        /\ DOMAIN cSubmits' = DOMAIN cSubmits
        /\ cSubmits'[i].pc = pc
        /\ \A j \in DOMAIN cSubmits : cSubmits'[j].points = cSubmits[j].points
        /\ \A j \in DOMAIN cSubmits \ {i} : cSubmits'[j] = cSubmits[j]
        /\ i = 1 \/ Len(cSubmits) # 1
        /\ (Len(cSubmits) # 0)
    BY <1>0, <1>2, SubmissionMoves
  <1>5. CourtTypeOK'
    BY <1>0, <1>1, <1>3, <1>4 DEF CourtTypeOK
  <1>6. AcceptedChecked'
    BY <1>1, <1>2, <1>4 DEF CourtInv, AcceptedChecked
  <1>7. WebCornersChecked'
    BY <1>1 DEF CourtInv, WebCornersChecked
  <1>8. OnlySubmission'
    BY <1>1, <1>2, <1>3, <1>4 DEF CourtInv, OnlySubmission
  <1> QED
    BY <1>5, <1>6, <1>7, <1>8 DEF CourtInv

\* Only two writes at once leave something else than the points that were checked.
LEMMA WriteKeeps ==
    ASSUME CourtInv, NEW i \in DOMAIN cSubmits, WriteCorners(i)
    PROVE  CourtInv'
  <1> DEFINE file == [points |-> cSubmits[i].points, by |-> "web", frame |-> cServed]
  <1>0. CourtTypeOK
    BY DEF CourtInv
  <1>1. /\ UNCHANGED <<cFrame, cServer, cServed, cTimers, cPage, cWindow>>
        /\ cSubmits[i].pc = "write" /\ SubmitTo(i, "reply")
        /\ cCorners' = file \/ (cCorners' = CTorn /\ \E j \in DOMAIN cSubmits \ {i} : TRUE)
    BY DEF WriteCorners, SubmitAt, Server1
  <1>2. /\ cSubmits' \in Seq(Submission) /\ Len(cSubmits') = Len(cSubmits)
        /\ DOMAIN cSubmits' = DOMAIN cSubmits
        /\ cSubmits'[i].pc = "reply"
        /\ \A j \in DOMAIN cSubmits : cSubmits'[j].points = cSubmits[j].points
        /\ \A j \in DOMAIN cSubmits \ {i} : cSubmits'[j] = cSubmits[j]
        /\ cSubmits[i] \in Submission
        /\ i = 1 \/ Len(cSubmits) # 1
        /\ (Len(cSubmits) # 0)
    BY <1>0, <1>1, SubmissionMoves
  <1>3. /\ file \in Corners /\ file.points = cSubmits[i].points /\ file.by = "web"
        /\ file.frame = cServed
    BY <1>0, <1>2 DEF Corners, Submission, CPoints, CourtTypeOK
  <1>4. file \notin {CNoFile, CTorn}
    BY <1>3, CalibrationAssumption
  <1> HIDE DEF file
  <1>5. CourtTypeOK'
    BY <1>0, <1>1, <1>2, <1>3 DEF CourtTypeOK
  <1>6. AcceptedChecked'
    BY <1>1, <1>2 DEF CourtInv, AcceptedChecked
  <1>7. WebCornersChecked'
    BY <1>1, <1>3 DEF CourtInv, AcceptedChecked, WebCornersChecked
  <1>8. OnlySubmission'
    <2>1. Len(cSubmits) = 1 => cCorners' = file
      <3>1. Len(cSubmits) = 1 => DOMAIN cSubmits = 1..1
        BY <1>0 DEF CourtTypeOK
      <3> QED
        BY <1>1, <3>1
    <2>2. \A p \in CPages : SaysSaved(p)' <=> SaysSaved(p)
      BY <1>1 DEF SaysSaved
    <2> QED
      BY <1>1, <1>2, <1>3, <1>4, <2>1, <2>2 DEF CourtInv, OnlySubmission
  <1> QED
    BY <1>5, <1>6, <1>7, <1>8 DEF CourtInv

LEMMA AnswerKeeps ==
    ASSUME CourtInv, NEW i \in DOMAIN cSubmits, AnswerSaved(i)
    PROVE  CourtInv'
  <1>0. CourtTypeOK
    BY DEF CourtInv
  <1>1. /\ UNCHANGED <<cFrame, cServer, cServed, cWindow, cCorners>> /\ cTimers' = cTimers + 1
        /\ cSubmits[i].pc = "reply" /\ SubmitTo(i, "over")
        /\ cPage' = [cPage EXCEPT ![cSubmits[i].page].shown = "saved"]
    BY DEF AnswerSaved, SubmitAt
  <1>2. /\ cSubmits' \in Seq(Submission) /\ Len(cSubmits') = Len(cSubmits)
        /\ DOMAIN cSubmits' = DOMAIN cSubmits
        /\ cSubmits'[i].pc = "over"
        /\ \A j \in DOMAIN cSubmits : cSubmits'[j].points = cSubmits[j].points
        /\ \A j \in DOMAIN cSubmits \ {i} : cSubmits'[j] = cSubmits[j]
        /\ cSubmits[i] \in Submission
        /\ i = 1 \/ Len(cSubmits) # 1
        /\ (Len(cSubmits) # 0)
    BY <1>0, <1>1, SubmissionMoves
  <1>3. cPage' \in [CPages -> CourtPage]
    <2>1. cSubmits[i].page \in CPages
      BY <1>2 DEF Submission
    <2> QED
      BY <1>0, <1>1, <2>1 DEF CourtTypeOK, CourtPage
  <1>4. CourtTypeOK'
    BY <1>0, <1>1, <1>2, <1>3 DEF CourtTypeOK
  <1>5. AcceptedChecked' /\ WebCornersChecked'
    BY <1>1, <1>2 DEF CourtInv, AcceptedChecked, WebCornersChecked
  <1>6. OnlySubmission'
    BY <1>1, <1>2 DEF CourtInv, OnlySubmission
  <1> QED
    BY <1>4, <1>5, <1>6 DEF CourtInv

\* The end of the server ends every request it accepted; the file is cut only
\* while one is writing it.
LEMMA EndKeeps ==
    ASSUME CourtInv, EndServer
    PROVE  CourtInv'
  <1> DEFINE cut(s) == [s EXCEPT !.pc = IF s.pc = "sent" THEN s.pc ELSE "over"]
  <1>0. /\ CourtTypeOK /\ cSubmits \in Seq(Submission) /\ DOMAIN cSubmits = 1..Len(cSubmits)
        /\ Len(cSubmits) \in Nat
    BY DEF CourtInv, CourtTypeOK
  <1>1. /\ cServer' = "down" /\ cTimers' = 0
        /\ UNCHANGED <<cFrame, cServed, cWindow>>
        /\ cSubmits' = [i \in DOMAIN cSubmits |-> cut(cSubmits[i])]
        /\ cCorners' = cCorners \/ (cCorners' = CTorn /\ \E j \in DOMAIN cSubmits : cSubmits[j].pc = "write")
    BY DEF EndServer, SubmitAt
  <1>2. \A s \in Submission : /\ cut(s) \in Submission /\ cut(s).points = s.points
                              /\ cut(s).pc \in {"sent", "over"}
                              /\ (cut(s).pc = "sent" => s.pc = "sent")
    BY DEF Submission
  <1> HIDE DEF cut
  <1>3. /\ cSubmits' \in Seq(Submission) /\ Len(cSubmits') = Len(cSubmits)
        /\ DOMAIN cSubmits' = DOMAIN cSubmits
        /\ \A j \in DOMAIN cSubmits : /\ cSubmits'[j].points = cSubmits[j].points
                                      /\ cSubmits'[j].pc \in {"sent", "over"}
                                      /\ (cSubmits'[j].pc = "sent" => cSubmits[j].pc = "sent")
    <2>1. \A j \in DOMAIN cSubmits : cSubmits[j] \in Submission /\ cSubmits'[j] = cut(cSubmits[j])
      BY <1>0, <1>1
    <2>2. cSubmits' \in [1..Len(cSubmits) -> Submission] /\ DOMAIN cSubmits' = DOMAIN cSubmits
      BY <1>0, <1>1, <1>2
    <2>3. cSubmits' \in Seq(Submission)
      BY <1>0, <2>2, SeqDef
    <2>4. Len(cSubmits') = Len(cSubmits)
      BY <1>0, <2>2, <2>3
    <2> QED
      BY <1>2, <2>1, <2>2, <2>3, <2>4
  <1>4. /\ cPage' \in [CPages -> CourtPage]
        /\ \A p \in CPages : SaysSaved(p)' => SaysSaved(p)
    <2>1. cPage' = [p \in CPages |->
                      IF \E i \in DOMAIN cSubmits :
                            cSubmits[i].page = p /\ cSubmits[i].pc \in {"write", "reply"}
                      THEN PageStart ELSE cPage[p]]
      BY DEF EndServer
    <2>2. /\ cPage' \in [CPages -> {PageStart} \cup CourtPage]
          /\ \A p \in CPages : cPage'[p] \in {PageStart, cPage[p]}
      BY <1>0, <2>1 DEF CourtTypeOK
    <2> QED
      BY <1>0, <2>2, PagesReset
  <1>5. CourtTypeOK'
    BY <1>0, <1>1, <1>3, <1>4 DEF CourtTypeOK
  <1>6. AcceptedChecked'
    BY <1>3 DEF AcceptedChecked
  <1>7. WebCornersChecked'
    BY <1>1 DEF CourtInv, WebCornersChecked
  <1>8. OnlySubmission'
    <2>1. Len(cSubmits') = 0 => \A p \in CPages : ~SaysSaved(p)'
      BY <1>3, <1>4 DEF CourtInv, OnlySubmission
    <2>2. ASSUME Len(cSubmits') = 1
          PROVE  /\ cSubmits'[1].pc \in {"sent", "write"} => \A p \in CPages : ~SaysSaved(p)'
                 /\ cSubmits'[1].pc = "reply" \/ (\E p \in CPages : SaysSaved(p)') =>
                       /\ cCorners' \notin {CNoFile, CTorn}
                       /\ cCorners'.by = "web" => cCorners'.points = cSubmits'[1].points
      <3>1. Len(cSubmits) = 1 /\ DOMAIN cSubmits = {1}
        BY <1>0, <1>3, <2>2
      <3>2. cSubmits'[1].pc \in {"sent", "over"}
        BY <1>3, <3>1
      <3>3. cSubmits'[1].pc = "sent" => \A p \in CPages : ~SaysSaved(p)'
        BY <1>3, <1>4, <3>1 DEF CourtInv, OnlySubmission
      <3>4. (\E p \in CPages : SaysSaved(p)') => cCorners' = cCorners
        BY <1>1, <1>4, <3>1 DEF CourtInv, OnlySubmission
      <3> QED
        BY <1>3, <1>4, <3>1, <3>2, <3>3, <3>4 DEF CourtInv, OnlySubmission
    <2> QED
      BY <2>1, <2>2 DEF OnlySubmission
  <1> QED
    BY <1>5, <1>6, <1>7, <1>8 DEF CourtInv

\* A server starts with the frame of now; a confirmed window writes its own points.
LEMMA StartOrConfirm ==
    ASSUME CourtInv, StartServer \/ ConfirmWindow
    PROVE  CourtInv'
  <1>0. CourtTypeOK
    BY DEF CourtInv
  <1>1. CASE StartServer
    <2>1. /\ cServer = "down" /\ cServer' = "up" /\ cServed' = cFrame
          /\ UNCHANGED <<cFrame, cTimers, cPage, cSubmits, cWindow, cCorners>>
      BY <1>1 DEF StartServer
    <2>2. CourtTypeOK'
      BY <1>0, <2>1 DEF CourtTypeOK
    <2>3. AcceptedChecked' /\ WebCornersChecked'
      BY <2>1 DEF CourtInv, AcceptedChecked, WebCornersChecked
    <2>4. OnlySubmission'
      BY <2>1 DEF CourtInv, OnlySubmission, SaysSaved
    <2> QED
      BY <2>2, <2>3, <2>4 DEF CourtInv
  <1>2. CASE ConfirmWindow
    <2> DEFINE file == [points |-> cWindow, by |-> "window", frame |-> cFrame]
    <2>1. /\ cWindow # CNoFile /\ cCorners' = file /\ cWindow' = CNoFile
          /\ UNCHANGED <<cFrame, cServer, cServed, cTimers, cPage, cSubmits>>
      BY <1>2 DEF ConfirmWindow, Server1
    <2>2. file \in Corners /\ file.by = "window"
      BY <1>0, <2>1 DEF Corners, CourtTypeOK, CPoints
    <2>3. file \notin {CNoFile, CTorn}
      BY <2>2, CalibrationAssumption
    <2> HIDE DEF file
    <2>4. CourtTypeOK'
      BY <1>0, <2>1, <2>2 DEF CourtTypeOK
    <2>5. AcceptedChecked' /\ WebCornersChecked'
      BY <2>1, <2>2 DEF CourtInv, AcceptedChecked, WebCornersChecked
    <2>6. OnlySubmission'
      BY <2>1, <2>2, <2>3 DEF CourtInv, OnlySubmission, SaysSaved
    <2> QED
      BY <2>4, <2>5, <2>6 DEF CourtInv
  <1> QED
    BY <1>1, <1>2

LEMMA CourtNext == CourtInv /\ [C_Next]_cVars => CourtInv'
  <1>1. CourtInv /\ UNCHANGED cVars => CourtInv'
    BY DEF cVars, CourtInv, CourtTypeOK, AcceptedChecked, WebCornersChecked, OnlySubmission,
           SaysSaved
  <1> QED
    BY <1>1, PageSteps, WindowSteps, CheckKeeps, WriteKeeps, AnswerKeeps, EndKeeps, StartOrConfirm
       DEF C_Next

\* homography does not refuse, for their order or their place, corners that
\* calibrate_web accepted on the landscape frame it was started with.
THEOREM SavedFits == C_Spec => []SavedCornersFit
  <1>1. CourtInv => SavedCornersFit
    <2> SUFFICES ASSUME CourtInv, cCorners \notin {CNoFile, CTorn}, cCorners.by = "web",
                        cCorners.frame = cFrame, FrameSizes[cFrame][1] > FrameSizes[cFrame][2]
                 PROVE  OrientationPasses(cCorners.points, FrameSizes[cFrame])
      BY DEF SavedCornersFit
    <2> DEFINE size == FrameSizes[cFrame]
    <2>1. ValidCalibration(cCorners.points, size)
      BY DEF CourtInv, WebCornersChecked
    <2>2. size \in Nat \X Nat /\ cCorners.points \in Seq(Int \X Int) /\ size[1] > size[2]
      BY CalibrationAssumption DEF CourtInv, CourtTypeOK, Corners
    <2> HIDE DEF size
    <2>3. \A k \in DOMAIN cCorners.points :
             /\ 0 <= cCorners.points[k][1] /\ cCorners.points[k][1] < size[1]
             /\ 0 <= cCorners.points[k][2] /\ cCorners.points[k][2] < size[2]
      BY <2>1, <2>2 DEF ValidCalibration, InFrame
    <2>4. OrientationPasses(cCorners.points, size)
      BY <2>1, <2>2, <2>3 DEF ValidCalibration, OrientationPasses
    <2> QED
      BY <2>4 DEF size
  <1> QED
    BY <1>1, CourtInit, CourtNext, PTL DEF C_Spec

\* A page that shows "saved" has its eight points in court_corners_pixel.json,
\* wherever the server ends, while only that submission was sent and the window
\* wrote nothing.
THEOREM SavedIsWritten == C_Spec => []SavedIsSaved
  <1>1. CourtInv => SavedIsSaved
    BY DEF CourtInv, OnlySubmission, SavedIsSaved, SaysSaved
  <1> QED
    BY <1>1, CourtInit, CourtNext, PTL DEF C_Spec

-----------------------------------------------------------------------------
(***************************************************************************)
(* The event store.  Sorting by rank: places are ranked without a tie, so  *)
(* the sorted list is a permutation of the list, in order, and a list in   *)
(* order is its own.                                                       *)
(***************************************************************************)
Places(list) == 1..Len(list)
Ahead(list, i) == {j \in Places(list) : Before(list, j, i)}

Ordered(list) ==
    \A i, j \in Places(list) : i < j => ~Later(list[i], list[j])

OneId(list) ==
    \A i, j \in Places(list) : list[i].id = list[j].id => i = j

\* The lists the operations build: each id once, in order.
Neat == {list \in Lists : OneId(list) /\ Ordered(list)}

LEMMA ListsAreSeqs ==
    /\ \A s \in Lists : /\ s \in Seq(Event) /\ Len(s) \in 0..MaxEvents
                        /\ DOMAIN s = Places(s)
                        /\ \A i \in Places(s) : s[i] \in Event
    /\ \A s \in Seq(Event) : Len(s) <= MaxEvents => s \in Lists
    /\ <<>> \in Lists
  <1>1. \A s \in Lists : \E m \in 0..MaxEvents : s \in [1..m -> Event]
    BY DEF Lists, BoundedSeq, SeqOf
  <1>2. \A m \in 0..MaxEvents : [1..m -> Event] \subseteq Lists
    BY DEF Lists, BoundedSeq, SeqOf
  <1>3. MaxEvents \in Nat
    BY StoreAssumption
  <1>4. \A m \in Nat : \A s \in [1..m -> Event] : s \in Seq(Event) /\ Len(s) = m
    OBVIOUS
  <1>5. \A s \in Lists : s \in Seq(Event) /\ Len(s) \in 0..MaxEvents
    BY <1>1, <1>3, <1>4
  <1>6. \A s \in Seq(Event) : /\ Len(s) \in Nat /\ DOMAIN s = 1..Len(s)
                              /\ s \in [1..Len(s) -> Event]
    OBVIOUS
  <1>7. \A s \in Seq(Event) : Len(s) <= MaxEvents => s \in Lists
    BY <1>2, <1>3, <1>6
  <1>8. <<>> \in Lists
    <2>1. <<>> \in Seq(Event) /\ Len(<<>>) = 0
      OBVIOUS
    <2>2. Len(<<>>) <= MaxEvents
      BY <1>3, <2>1
    <2> QED
      BY <1>7, <2>1, <2>2
  <1> QED
    BY <1>5, <1>6, <1>7, <1>8 DEF Places

LEMMA EventShape ==
    \A e \in Event : /\ e.id \in Ids /\ e.frame_start \in Frames /\ e.frame_end \in Frames
                     /\ e.frame_start \in Nat /\ e.frame_end \in Nat
                     /\ e.frame_start <= e.frame_end /\ e.frame_end <= LastFrame
  BY StoreAssumption DEF Event, Frames

\* Places are ranked by start, end and place: a strict total order.
LEMMA BeforeOrder ==
    ASSUME NEW list \in Lists, NEW i \in Places(list), NEW j \in Places(list),
           NEW k \in Places(list)
    PROVE  /\ ~Before(list, i, i)
           /\ Before(list, i, j) => ~Before(list, j, i) /\ ~Later(list[i], list[j])
           /\ i # j => Before(list, i, j) \/ Before(list, j, i)
           /\ Before(list, i, j) /\ Before(list, j, k) => Before(list, i, k)
  <1>1. {i, j, k} \subseteq Nat
    BY ListsAreSeqs DEF Places
  <1>2. /\ list[i].frame_start \in Nat /\ list[i].frame_end \in Nat
        /\ list[j].frame_start \in Nat /\ list[j].frame_end \in Nat
        /\ list[k].frame_start \in Nat /\ list[k].frame_end \in Nat
    BY ListsAreSeqs, EventShape
  <1> QED
    BY <1>1, <1>2 DEF Before, Later

LEMMA RankCounts ==
    ASSUME NEW list \in Lists, NEW i \in Places(list)
    PROVE  /\ Ahead(list, i) \subseteq Places(list) \ {i}
           /\ IsFiniteSet(Ahead(list, i)) /\ Cardinality(Ahead(list, i)) \in Nat
           /\ Rank(list, i) = 1 + Cardinality(Ahead(list, i))
           /\ Rank(list, i) \in Places(list)
  <1>1. Ahead(list, i) \subseteq Places(list) \ {i}
    BY BeforeOrder DEF Ahead
  <1>2. Len(list) \in Nat /\ DOMAIN list = Places(list)
    BY ListsAreSeqs
  <1>3. IsFiniteSet(Places(list)) /\ Cardinality(Places(list)) = Len(list)
    BY <1>2, FS_Interval DEF Places
  <1>4. /\ IsFiniteSet(Places(list) \ {i})
        /\ Cardinality(Places(list) \ {i}) = Len(list) - 1
    BY <1>3, FS_RemoveElement
  <1>5. IsFiniteSet(Ahead(list, i)) /\ Cardinality(Ahead(list, i)) <= Len(list) - 1
    BY <1>1, <1>4, FS_Subset
  <1>6. Cardinality(Ahead(list, i)) \in Nat
    BY <1>5, FS_CardinalityType
  <1>7. Rank(list, i) = 1 + Cardinality(Ahead(list, i))
    BY <1>2 DEF Rank, Ahead
  <1> QED
    BY <1>1, <1>2, <1>5, <1>6, <1>7 DEF Places

LEMMA RankOrders ==
    ASSUME NEW list \in Lists, NEW i \in Places(list), NEW j \in Places(list)
    PROVE  Before(list, i, j) => Rank(list, i) < Rank(list, j)
  <1> SUFFICES ASSUME Before(list, i, j) PROVE Rank(list, i) < Rank(list, j)
    OBVIOUS
  <1>1. Ahead(list, i) \subseteq Ahead(list, j)
    BY BeforeOrder DEF Ahead
  <1>2. i \in Ahead(list, j) /\ i \notin Ahead(list, i)
    BY BeforeOrder DEF Ahead
  <1>3. Cardinality(Ahead(list, i)) <= Cardinality(Ahead(list, j))
        /\ Cardinality(Ahead(list, i)) # Cardinality(Ahead(list, j))
    BY <1>1, <1>2, RankCounts, FS_Subset
  <1> QED
    BY <1>3, RankCounts

\* Each place of the sorted list comes from one place of the list.
LEMMA RankIsBijection ==
    ASSUME NEW list \in Lists
    PROVE  /\ \A i, j \in Places(list) : Rank(list, i) = Rank(list, j) => i = j
           /\ \A k \in Places(list) : \E i \in Places(list) : Rank(list, i) = k
  <1> DEFINE R == [i \in Places(list) |-> Rank(list, i)]
  <1>1. \A i \in Places(list) : Rank(list, i) \in Places(list)
    BY RankCounts
  <1>2. \A i, j \in Places(list) : Rank(list, i) = Rank(list, j) => i = j
    <2> SUFFICES ASSUME NEW i \in Places(list), NEW j \in Places(list),
                        Rank(list, i) = Rank(list, j), i # j
                 PROVE  FALSE
      OBVIOUS
    <2>1. Before(list, i, j) \/ Before(list, j, i)
      BY BeforeOrder
    <2>2. Rank(list, i) < Rank(list, j) \/ Rank(list, j) < Rank(list, i)
      BY <2>1, RankOrders
    <2>3. Rank(list, i) \in Nat /\ Rank(list, j) \in Nat
      BY <1>1, ListsAreSeqs DEF Places
    <2> QED
      BY <2>2, <2>3
  <1>3. R \in [Places(list) -> Places(list)]
    BY <1>1
  <1>4. R \in Injection(Places(list), Places(list))
    BY <1>2, <1>3 DEF Injection, IsInjective
  <1>5. IsFiniteSet(Places(list))
    BY FS_Interval, ListsAreSeqs DEF Places
  <1> HIDE DEF R
  <1>6. R \in Surjection(Places(list), Places(list))
    BY <1>4, <1>5, FS_Injection
  <1>7. \A k \in Places(list) : \E i \in Places(list) : R[i] = k
    BY <1>6 DEF Surjection
  <1> QED
    BY <1>2, <1>7 DEF R

\* The place of the list that the sorted list has at place k.
Origin(list, k) == CHOOSE i \in Places(list) : Rank(list, i) = k

LEMMA SortedPermutes ==
    ASSUME NEW list \in Lists
    PROVE  /\ Sorted(list) \in Lists /\ Len(Sorted(list)) = Len(list)
           /\ \A k \in Places(list) : /\ Origin(list, k) \in Places(list)
                                      /\ Rank(list, Origin(list, k)) = k
                                      /\ Sorted(list)[k] = list[Origin(list, k)]
           /\ Range(Sorted(list)) = Range(list)
           /\ OneId(list) => OneId(Sorted(list))
           /\ Ordered(Sorted(list))
  <1>1. DOMAIN list = Places(list) /\ \A i \in Places(list) : list[i] \in Event
    BY ListsAreSeqs
  <1>2. Sorted(list) = [k \in Places(list) |-> list[Origin(list, k)]]
    BY <1>1 DEF Sorted, Origin
  <1>3. \A k \in Places(list) : Origin(list, k) \in Places(list) /\ Rank(list, Origin(list, k)) = k
    BY RankIsBijection DEF Origin
  <1>4. \A k \in Places(list) : Sorted(list)[k] = list[Origin(list, k)]
    BY <1>2
  <1>5. Sorted(list) \in [1..Len(list) -> Event]
    BY <1>1, <1>2, <1>3 DEF Places
  <1>6. Len(list) \in Nat /\ Len(list) <= MaxEvents
    BY ListsAreSeqs, StoreAssumption
  <1>7. Sorted(list) \in Seq(Event) /\ Len(Sorted(list)) = Len(list)
    BY <1>5, <1>6
  <1>8. Sorted(list) \in Lists
    BY <1>6, <1>7, ListsAreSeqs
  <1>9. Places(Sorted(list)) = Places(list) /\ DOMAIN Sorted(list) = Places(list)
    BY <1>2, <1>7 DEF Places
  <1>10. \A i \in Places(list) : Rank(list, i) \in Places(list) /\ Origin(list, Rank(list, i)) = i
    BY <1>3, RankCounts, RankIsBijection
  <1>11. Range(Sorted(list)) = Range(list)
    <2>1. \A k \in Places(list) : Sorted(list)[k] \in Range(list)
      BY <1>1, <1>3, <1>4 DEF Range
    <2>2. \A i \in Places(list) : list[i] \in Range(Sorted(list))
      BY <1>4, <1>9, <1>10 DEF Range
    <2> QED
      BY <1>1, <1>9, <2>1, <2>2 DEF Range
  <1>12. OneId(list) => OneId(Sorted(list))
    BY <1>3, <1>4, <1>9 DEF OneId
  <1>13. Ordered(Sorted(list))
    <2> SUFFICES ASSUME NEW k \in Places(list), NEW l \in Places(list), k < l
                 PROVE  ~Later(Sorted(list)[k], Sorted(list)[l])
      BY <1>9 DEF Ordered
    <2>1. ~Before(list, Origin(list, l), Origin(list, k))
      <3>1. k \in Nat /\ l \in Nat
        BY <1>6 DEF Places
      <3>2. Origin(list, l) \in Places(list) /\ Origin(list, k) \in Places(list)
        BY <1>3
      <3>3. Rank(list, Origin(list, l)) = l /\ Rank(list, Origin(list, k)) = k
        BY <1>3
      <3>4. Before(list, Origin(list, l), Origin(list, k)) => l < k
        BY <3>2, <3>3, RankOrders
      <3> QED
        BY <3>1, <3>4
    <2>2. Origin(list, k) # Origin(list, l)
      <3>1. k # l
        BY <1>6 DEF Places
      <3> QED
        BY <1>3, <3>1
    <2>3. Before(list, Origin(list, k), Origin(list, l))
      BY <1>3, <2>1, <2>2, BeforeOrder
    <2> QED
      BY <1>3, <1>4, <2>3, BeforeOrder
  <1> QED
    BY <1>3, <1>4, <1>7, <1>8, <1>11, <1>12, <1>13

\* The sort leaves a list alone that is in order already.
LEMMA SortedKeepsOrder ==
    ASSUME NEW list \in Lists, Ordered(list)
    PROVE  Sorted(list) = list
  <1>1. DOMAIN list = Places(list) /\ Len(list) \in Nat
    BY ListsAreSeqs
  <1>2. \A i \in Places(list) : Ahead(list, i) = 1..(i - 1)
    <2> SUFFICES ASSUME NEW i \in Places(list), NEW j \in Places(list)
                 PROVE  Before(list, j, i) <=> j < i
      BY <1>1 DEF Ahead, Places
    <2>1. i \in Nat /\ j \in Nat
      BY <1>1 DEF Places
    <2>2. j < i => ~Later(list[j], list[i])
      BY DEF Ordered
    <2>3. i < j => ~Later(list[i], list[j])
      BY DEF Ordered
    <2>4. i = j \/ i < j \/ j < i
      BY <2>1
    <2>5. CASE j < i
      BY <2>2, <2>5 DEF Before
    <2>6. CASE i < j
      BY <2>1, <2>3, <2>6 DEF Before
    <2>7. CASE i = j
      BY <2>1, <2>7, BeforeOrder
    <2> QED
      BY <2>4, <2>5, <2>6, <2>7
  <1>3. \A i \in Places(list) : Rank(list, i) = i
    <2> TAKE i \in Places(list)
    <2>1. i \in Nat /\ i >= 1
      BY <1>1 DEF Places
    <2>2. Cardinality(1..(i - 1)) = i - 1
      BY <2>1, FS_Interval
    <2> QED
      BY <1>2, <2>1, <2>2, RankCounts
  <1>4. \A k \in Places(list) : Origin(list, k) = k
    BY <1>3, SortedPermutes
  <1>5. /\ Sorted(list) \in Seq(Event) /\ list \in Seq(Event)
        /\ Len(Sorted(list)) = Len(list)
        /\ \A k \in 1..Len(list) : Sorted(list)[k] = list[k]
    BY <1>4, SortedPermutes, ListsAreSeqs DEF Places
  <1> QED
    BY <1>5, SeqEqual

-----------------------------------------------------------------------------
(* What an operation makes of a neat list                                  *)

\* Counting the ids finds a double one.
LEMMA DistinctIsOneId ==
    ASSUME NEW list \in Lists
    PROVE  /\ Distinct(list) <=> OneId(list)
           /\ IsFiniteSet(IdsOf(list)) /\ Cardinality(IdsOf(list)) <= Len(list)
  <1> DEFINE N == [i \in Places(list) |-> list[i].id]
  <1>1. DOMAIN list = Places(list) /\ Len(list) \in Nat
    BY ListsAreSeqs
  <1>2. IsFiniteSet(Places(list)) /\ Cardinality(Places(list)) = Len(list)
    <2> HIDE DEF N
    <2>1. IsFiniteSet(1..Len(list)) /\ Cardinality(1..Len(list)) = Len(list)
      <3>1. 1 \in Int /\ Len(list) \in Int
        BY <1>1
      <3>2. /\ IsFiniteSet(1..Len(list))
            /\ Cardinality(1..Len(list)) = IF 1 > Len(list) THEN 0 ELSE Len(list) - 1 + 1
        BY <3>1, FS_Interval
      <3> QED
        BY <1>1, <3>2
    <2> QED
      BY <2>1 DEF Places
  <1>3. N \in Surjection(Places(list), IdsOf(list))
    BY <1>1 DEF Surjection, IdsOf
  <1>4. N \in Injection(Places(list), IdsOf(list)) <=> OneId(list)
    BY <1>1 DEF Injection, IsInjective, OneId, IdsOf
  <1> HIDE DEF N
  <1>5. /\ IsFiniteSet(IdsOf(list))
        /\ Cardinality(IdsOf(list)) <= Cardinality(Places(list))
        /\ Cardinality(IdsOf(list)) = Cardinality(Places(list))
              <=> N \in Injection(Places(list), IdsOf(list))
    BY <1>2, <1>3, FS_Surjection
  <1> QED
    BY <1>2, <1>4, <1>5 DEF Distinct

\* The loader of an annotation, and the restoring of a draft, accept a neat list.
LEMMA NeatAccepted ==
    ASSUME NEW list \in Neat
    PROVE  /\ Distinct(list) /\ Sorted(list) = list
           /\ \A i \in DOMAIN list : InIndex(RangeOf(list[i]))
           /\ list # <<>> => Accepted(list)
  <1>1. list \in Lists /\ OneId(list) /\ Ordered(list)
    BY DEF Neat
  <1>2. Distinct(list) /\ Sorted(list) = list
    BY <1>1, DistinctIsOneId, SortedKeepsOrder
  <1>3. /\ DOMAIN list = Places(list) /\ Len(list) \in Nat
        /\ \A i \in Places(list) : list[i] \in Event
    BY <1>1, ListsAreSeqs
  <1>4. \A i \in DOMAIN list : InIndex(RangeOf(list[i]))
    <2> TAKE i \in DOMAIN list
    <2>1. list[i].frame_start \in Frames /\ list[i].frame_end \in Frames
          /\ list[i].frame_start <= list[i].frame_end
      BY <1>3, EventShape
    <2> QED
      BY <2>1 DEF InIndex, RangeOf
  <1>5. \A i \in 1..(Len(list) - 1) : list[i].frame_start <= list[i + 1].frame_start
    <2> TAKE i \in 1..(Len(list) - 1)
    <2>1. i \in Places(list) /\ i + 1 \in Places(list) /\ i < i + 1
      BY <1>3 DEF Places
    <2>2. ~Later(list[i], list[i + 1])
      BY <1>1, <2>1 DEF Ordered
    <2>3. list[i].frame_start \in Nat /\ list[i + 1].frame_start \in Nat
      BY <1>3, <2>1, EventShape
    <2> QED
      BY <2>2, <2>3 DEF Later
  <1> QED
    BY <1>2, <1>4, <1>5 DEF Accepted

LEMMA SortedIsNeat ==
    ASSUME NEW list \in Lists, OneId(list)
    PROVE  Sorted(list) \in Neat /\ Range(Sorted(list)) = Range(list)
  BY SortedPermutes DEF Neat

\* A set of natural numbers has a least element.
LEMMA LeastId ==
    ASSUME NEW T \in SUBSET Nat, T # {}
    PROVE  Min(T) \in T
  <1> DEFINE F == {0..n : n \in T}
             R == StrictSubsetOrdering(Nat)
  <1>1. F # {} /\ F \subseteq FiniteSubsetsOf(Nat)
    <2>1. \A n \in T : IsFiniteSet(0..n) /\ 0..n \in SUBSET Nat
      BY FS_Interval
    <2> QED
      BY <2>1 DEF FiniteSubsetsOf
  <1>2. \E x \in F : \A y \in F : ~(<<y, x>> \in R)
    <2>1. IsWellFoundedOn(R, FiniteSubsetsOf(Nat))
      BY FS_StrictSubsetOrderingWellFounded
    <2> HIDE DEF F, R
    <2> QED
      BY <1>1, <2>1, WFMin
  <1>3. PICK n \in T : \A m \in T : ~(<<0..m, 0..n>> \in R)
    BY <1>2
  <1>4. \A m \in T : m < n => 0..m \subseteq 0..n /\ 0..m # 0..n
    OBVIOUS
  <1>5. \A m \in T : m < n => <<0..m, 0..n>> \in R
    BY <1>4 DEF StrictSubsetOrdering
  <1> HIDE DEF F, R
  <1>6. \A m \in T : ~(m < n)
    BY <1>3, <1>5
  <1>7. \A m \in T : n <= m
    BY <1>6
  <1> QED
    BY <1>7 DEF Min

\* _next_id always finds a number that no event of the list has.
LEMMA NextIdIsFree ==
    ASSUME events \in Lists, Len(events) < MaxEvents
    PROVE  NextId \in Ids /\ NextId \notin IdsOf(events)
  <1> DEFINE T == (1..(Len(events) + 1)) \ IdsOf(events)
  <1>1. Len(events) \in Nat /\ MaxEvents \in Nat
    BY ListsAreSeqs, StoreAssumption
  <1>2. IsFiniteSet(IdsOf(events)) /\ Cardinality(IdsOf(events)) <= Len(events)
        /\ Cardinality(IdsOf(events)) \in Nat
    BY DistinctIsOneId, FS_CardinalityType
  <1>3. T # {}
    <2> SUFFICES ASSUME 1..(Len(events) + 1) \subseteq IdsOf(events) PROVE FALSE
      OBVIOUS
    <2>1. Cardinality(1..(Len(events) + 1)) = Len(events) + 1
      BY <1>1, FS_Interval
    <2>2. Cardinality(1..(Len(events) + 1)) <= Cardinality(IdsOf(events))
      BY <1>2, FS_Subset
    <2> QED
      BY <1>1, <1>2, <2>1, <2>2
  <1>4. T \in SUBSET Nat
    BY <1>1
  <1>5. NextId = Min(T)
    BY DEF NextId
  <1>6. Min(T) \in T
    <2> HIDE DEF T
    <2> QED
      BY <1>3, <1>4, LeastId
  <1> QED
    BY <1>1, <1>5, <1>6 DEF Ids

\* create: the new event has an id of its own.
LEMMA CreateKeepsNeat ==
    ASSUME events \in Neat, Len(events) < MaxEvents, NEW r \in Ranges, InIndex(r),
           NEW list,
           list = Sorted(Append(events, [id |-> NextId, frame_start |-> r[1], frame_end |-> r[2]]))
    PROVE  list \in Neat /\ OneEdit(events, list)
  <1> DEFINE new == [id |-> NextId, frame_start |-> r[1], frame_end |-> r[2]]
             longer == Append(events, new)
  <1>1. /\ events \in Lists /\ events \in Seq(Event) /\ Len(events) \in Nat /\ OneId(events)
        /\ DOMAIN events = 1..Len(events) /\ \A i \in 1..Len(events) : events[i] \in Event
    BY ListsAreSeqs DEF Neat, Places
  <1>2. NextId \in Ids /\ NextId \notin IdsOf(events)
    BY <1>1, NextIdIsFree
  <1>3. new \in Event
    BY <1>2 DEF InIndex, Event
  <1>4. new.id = NextId
    OBVIOUS
  <1> HIDE DEF new
  <1>5. /\ longer \in Seq(Event) /\ Len(longer) = Len(events) + 1
        /\ \A i \in 1..Len(events) : longer[i] = events[i]
        /\ longer[Len(events) + 1] = new
    BY <1>1, <1>3, AppendProperties
  <1>6. MaxEvents \in Nat
    BY StoreAssumption
  <1> HIDE DEF longer
  <1>7. longer \in Lists
    <2>1. Len(longer) <= MaxEvents
      BY <1>1, <1>5, <1>6
    <2> QED
      BY <1>5, <2>1, ListsAreSeqs
  <1>8. DOMAIN longer = 1..(Len(events) + 1)
    BY <1>5, <1>7, ListsAreSeqs DEF Places
  <1>9. \A i \in 1..Len(events) : events[i].id # NextId
    BY <1>1, <1>2 DEF IdsOf
  <1>10. OneId(longer)
    <2> SUFFICES ASSUME NEW i \in 1..(Len(events) + 1), NEW j \in 1..(Len(events) + 1),
                        longer[i].id = longer[j].id
                 PROVE  i = j
      BY <1>5 DEF OneId, Places
    <2>1. i \in 1..Len(events) \/ i = Len(events) + 1
      BY <1>1
    <2>2. j \in 1..Len(events) \/ j = Len(events) + 1
      BY <1>1
    <2> QED
      BY <1>1, <1>4, <1>5, <1>9, <2>1, <2>2 DEF OneId, Places
  <1>11. list \in Neat /\ Range(list) = Range(longer)
    BY <1>7, <1>10, SortedIsNeat DEF longer, new
  <1>12. Range(longer) = Range(events) \cup {new}
    <2>1. \A i \in 1..(Len(events) + 1) : longer[i] \in Range(events) \cup {new}
      <3> TAKE i \in 1..(Len(events) + 1)
      <3>1. i \in 1..Len(events) \/ i = Len(events) + 1
        BY <1>1
      <3> QED
        BY <1>1, <1>5, <3>1 DEF Range
    <2>2. \A i \in 1..Len(events) : i \in 1..(Len(events) + 1) /\ events[i] = longer[i]
      BY <1>1, <1>5
    <2>3. Len(events) + 1 \in 1..(Len(events) + 1)
      BY <1>1
    <2>4. Range(longer) \subseteq Range(events) \cup {new}
      BY <1>8, <2>1 DEF Range
    <2>5. Range(events) \subseteq Range(longer)
      BY <1>1, <1>8, <2>2 DEF Range
    <2>6. new \in Range(longer)
      BY <1>5, <1>8, <2>3 DEF Range
    <2> QED
      BY <2>4, <2>5, <2>6
  <1>13. {e \in Range(events) : e.id # NextId} = {e \in Range(list) : e.id # NextId}
    BY <1>4, <1>11, <1>12
  <1> QED
    BY <1>2, <1>11, <1>13 DEF OneEdit

\* update: the event keeps its id.
LEMMA UpdateKeepsNeat ==
    ASSUME events \in Neat, NEW i \in DOMAIN events, NEW r \in Ranges, InIndex(r),
           NEW list,
           list = Sorted([events EXCEPT ![i].frame_start = r[1], ![i].frame_end = r[2]])
    PROVE  list \in Neat /\ OneEdit(events, list)
  <1> DEFINE new == [id |-> events[i].id, frame_start |-> r[1], frame_end |-> r[2]]
             changed == [events EXCEPT ![i] = new]
  <1>1. /\ events \in Lists /\ events \in Seq(Event) /\ Len(events) \in Nat /\ OneId(events)
        /\ DOMAIN events = 1..Len(events) /\ \A j \in 1..Len(events) : events[j] \in Event
    BY ListsAreSeqs DEF Neat, Places
  <1>2. events[i] \in [id : Ids, frame_start : Frames, frame_end : Frames]
    BY <1>1 DEF Event
  <1>3. [events EXCEPT ![i].frame_start = r[1], ![i].frame_end = r[2]] = changed
    <2>1. PICK a, b, c : events[i] = [id |-> a, frame_start |-> b, frame_end |-> c]
      BY <1>2
    <2> DEFINE e == events[i]
               first == [e EXCEPT !.frame_start = r[1]]
               both == [first EXCEPT !.frame_end = r[2]]
    <2>2. e.id = a /\ e = [id |-> a, frame_start |-> b, frame_end |-> c]
      BY <2>1
    <2> HIDE DEF e
    <2>3. first = [id |-> a, frame_start |-> r[1], frame_end |-> c]
      BY <2>2
    <2> HIDE DEF first
    <2>4. both = [id |-> a, frame_start |-> r[1], frame_end |-> r[2]]
      BY <2>3
    <2> HIDE DEF both
    <2>5. both = new
      BY <2>2, <2>4 DEF e
    <2>6. [events EXCEPT ![i].frame_start = r[1], ![i].frame_end = r[2]]
          = [events EXCEPT ![i] = both]
      <3>1. [events EXCEPT ![i].frame_start = r[1]] = [events EXCEPT ![i] = first]
        BY DEF first, e
      <3>2. [events EXCEPT ![i] = first][i] = first
        BY <1>1
      <3>3. [[events EXCEPT ![i] = first] EXCEPT ![i].frame_end = r[2]]
            = [[events EXCEPT ![i] = first] EXCEPT ![i] = both]
        BY <3>2 DEF both
      <3> QED
        BY <1>1, <3>1, <3>3
    <2> QED
      BY <2>5, <2>6
  <1>4. new \in Event /\ new.id = events[i].id
    BY <1>2 DEF InIndex, Event
  <1> HIDE DEF new
  <1>5. /\ changed \in Seq(Event) /\ Len(changed) = Len(events)
        /\ \A j \in 1..Len(events) : changed[j] = IF j = i THEN new ELSE events[j]
    BY <1>1, <1>4, ExceptSeq
  <1> HIDE DEF changed
  <1>6. changed \in Lists /\ DOMAIN changed = 1..Len(events)
    <2>1. Len(changed) <= MaxEvents
      BY <1>1, <1>5, StoreAssumption, ListsAreSeqs
    <2>2. changed \in Lists
      BY <1>5, <2>1, ListsAreSeqs
    <2> QED
      BY <1>5, <2>2, ListsAreSeqs DEF Places
  <1>7. OneId(changed)
    <2>1. \A j \in 1..Len(events) : changed[j].id = events[j].id
      BY <1>4, <1>5
    <2> QED
      BY <1>1, <1>5, <2>1 DEF OneId, Places
  <1>8. list \in Neat /\ Range(list) = Range(changed)
    BY <1>3, <1>6, <1>7, SortedIsNeat
  <1>9. {e \in Range(events) : e.id # events[i].id} = {e \in Range(changed) : e.id # events[i].id}
    <2>1. \A j \in 1..Len(events) : events[j].id # events[i].id => changed[j] = events[j]
      BY <1>5
    <2>2. \A j \in 1..Len(events) : changed[j].id # events[i].id => changed[j] = events[j]
      BY <1>4, <1>5
    <2>3. Range(events) = {events[j] : j \in 1..Len(events)}
      BY <1>1 DEF Range
    <2>4. Range(changed) = {changed[j] : j \in 1..Len(events)}
      BY <1>6 DEF Range
    <2> QED
      BY <2>1, <2>2, <2>3, <2>4
  <1>10. events[i].id \in Ids
    BY <1>1, EventShape
  <1> QED
    BY <1>8, <1>9, <1>10 DEF OneEdit

\* delete: the others stay, in their order.
LEMMA DeleteKeepsNeat ==
    ASSUME events \in Neat, NEW i \in DOMAIN events, NEW list, list = RemoveAt(events, i)
    PROVE  list \in Neat /\ OneEdit(events, list)
  <1> DEFINE n == Len(events)
             Taken(k) == IF k < i THEN k ELSE k + 1
  <1>1. /\ events \in Lists /\ events \in Seq(Event) /\ n \in 1..MaxEvents
        /\ OneId(events) /\ Ordered(events)
        /\ DOMAIN events = 1..n /\ \A j \in 1..n : events[j] \in Event
        /\ i \in 1..n
    BY ListsAreSeqs, StoreAssumption DEF Neat, Places
  <1>2. n \in Nat /\ i \in Nat /\ MaxEvents \in Nat
    BY <1>1, StoreAssumption
  <1>3. /\ SubSeq(events, 1, i - 1) \in Seq(Event) /\ Len(SubSeq(events, 1, i - 1)) = i - 1
        /\ \A k \in 1..(i - 1) : SubSeq(events, 1, i - 1)[k] = events[k]
    BY <1>1, <1>2, SubSeqProperties
  <1>4. /\ SubSeq(events, i + 1, n) \in Seq(Event) /\ Len(SubSeq(events, i + 1, n)) = n - i
        /\ \A k \in 1..(n - i) : SubSeq(events, i + 1, n)[k] = events[i + k]
    BY <1>1, <1>2, SubSeqProperties
  <1>5. /\ list \in Seq(Event) /\ Len(list) = n - 1
        /\ \A k \in 1..(n - 1) : list[k] = events[Taken(k)]
    <2> DEFINE s == SubSeq(events, 1, i - 1)
               t == SubSeq(events, i + 1, n)
    <2>1. list = s \o t
      BY DEF RemoveAt
    <2>2. /\ s \o t \in Seq(Event) /\ Len(s \o t) = Len(s) + Len(t)
          /\ \A k \in 1..(Len(s) + Len(t)) :
                (s \o t)[k] = IF k <= Len(s) THEN s[k] ELSE t[k - Len(s)]
      BY <1>3, <1>4, ConcatProperties
    <2> HIDE DEF s, t
    <2>3. Len(s) = i - 1 /\ Len(t) = n - i
      BY <1>3, <1>4 DEF s, t
    <2>4. \A k \in 1..(n - 1) : (s \o t)[k] = events[Taken(k)]
      <3> TAKE k \in 1..(n - 1)
      <3>1. CASE k < i
        <4>1. k \in 1..(i - 1) /\ k <= Len(s)
          BY <1>2, <2>3, <3>1
        <4>2. s[k] = events[k]
          BY <1>3, <4>1 DEF s
        <4>3. k \in 1..(Len(s) + Len(t))
          BY <1>2, <2>3
        <4>4. (s \o t)[k] = s[k]
          BY <2>2, <4>1, <4>3
        <4> QED
          BY <3>1, <4>2, <4>4
      <3>2. CASE ~(k < i)
        <4>1. k - (i - 1) \in 1..(n - i) /\ ~(k <= Len(s)) /\ i + (k - (i - 1)) = k + 1
          BY <1>2, <2>3, <3>2
        <4>2. t[k - (i - 1)] = events[i + (k - (i - 1))]
          BY <1>4, <4>1 DEF t
        <4>3. k \in 1..(Len(s) + Len(t))
          BY <1>2, <2>3
        <4>4. (s \o t)[k] = t[k - (i - 1)]
          BY <2>2, <2>3, <4>1, <4>3
        <4> QED
          BY <3>2, <4>1, <4>2, <4>4
      <3> QED
        BY <3>1, <3>2
    <2>5. Len(s \o t) = n - 1
      BY <1>2, <2>2, <2>3
    <2> HIDE DEF Taken, n
    <2> QED
      BY <2>1, <2>2, <2>4, <2>5
  <1>6. list \in Lists /\ DOMAIN list = 1..(n - 1) /\ Places(list) = 1..(n - 1)
    BY <1>1, <1>2, <1>5, ListsAreSeqs DEF Places
  <1>7. \A k \in 1..(n - 1) : Taken(k) \in 1..n
    BY <1>2
  <1>8. \A k, l \in 1..(n - 1) : /\ Taken(k) = Taken(l) => k = l
                                 /\ k < l => Taken(k) < Taken(l)
    BY <1>2
  <1>9. \A j \in 1..n : j # i => \E k \in 1..(n - 1) : Taken(k) = j
    <2> SUFFICES ASSUME NEW j \in 1..n, j # i PROVE \E k \in 1..(n - 1) : Taken(k) = j
      OBVIOUS
    <2>1. CASE j < i
      <3>1. j \in 1..(n - 1) /\ Taken(j) = j
        BY <1>1, <1>2, <2>1
      <3> QED
        BY <3>1
    <2>2. CASE j > i
      <3>1. j - 1 \in 1..(n - 1) /\ Taken(j - 1) = j
        BY <1>1, <1>2, <2>2
      <3> QED
        BY <3>1
    <2> QED
      BY <1>2, <2>1, <2>2
  <1> HIDE DEF Taken
  <1>10. list \in Neat
    <2>1. OneId(list)
      BY <1>1, <1>5, <1>6, <1>7, <1>8 DEF OneId, Places
    <2>2. Ordered(list)
      BY <1>1, <1>5, <1>6, <1>7, <1>8 DEF Ordered, Places
    <2> QED
      BY <1>6, <2>1, <2>2 DEF Neat
  <1>11. {e \in Range(events) : e.id # events[i].id} = {e \in Range(list) : e.id # events[i].id}
    <2>1. \A k \in 1..(n - 1) : list[k] \in Range(events)
      BY <1>1, <1>5, <1>7 DEF Range
    <2>2. \A j \in 1..n : events[j].id # events[i].id => events[j] \in Range(list)
      BY <1>5, <1>6, <1>9 DEF Range
    <2>3. Range(events) = {events[j] : j \in 1..n} /\ Range(list) = {list[k] : k \in 1..(n - 1)}
      BY <1>1, <1>6 DEF Range
    <2> QED
      BY <2>1, <2>2, <2>3
  <1>12. events[i].id \in Ids
    BY <1>1, EventShape
  <1> QED
    BY <1>10, <1>11, <1>12 DEF OneEdit

-----------------------------------------------------------------------------
(***************************************************************************)
(* The store as a whole.  One thread at a time is inside the store, and    *)
(* what it still has to write is the list in memory (or the annotation     *)
(* made from it); everything in memory, on the stack and in the draft is   *)
(* neat.                                                                   *)
(***************************************************************************)
OneSaver ==
    \A t \in Threads :
        IF lock = t
        THEN /\ saving[t].pc # "idle"
             /\ saving[t].payload = IF saving[t].file = "draft" THEN events ELSE Exported
             /\ saving[t].pc = "replace" => temporary[saving[t].file] = saving[t].payload
        ELSE saving[t] = Idle

\* Unless its last save raised, the draft is the list, but for the list now saved.
DraftFollows ==
    up /\ ~unsaved /\ (\A t \in Threads : lock = t => saving[t].file = "annotation") =>
        \/ disk["draft"] = events
        \/ disk["draft"] = NoFile /\ events = <<>>

StoreInv ==
    /\ TypeOK
    /\ events \in Neat /\ undo \in Seq(Neat)
    /\ disk["draft"] \in Neat \cup {NoFile} /\ disk["annotation"] \in {NoFile, Exported}
    /\ OneSaver /\ DraftFollows /\ UndoChain
    /\ lock # NoThread => up
    /\ ~up => undo = <<>>

LEMMA EmptyIsNeat == <<>> \in Neat
  <1>1. <<>> \in Lists
    BY ListsAreSeqs
  <1>2. Places(<<>>) = {}
    BY DEF Places
  <1> QED
    BY <1>1, <1>2 DEF Neat, OneId, Ordered

LEMMA StoreInit == Init => StoreInv
  <1> SUFFICES ASSUME Init PROVE StoreInv
    OBVIOUS
  <1>1. <<>> \in Neat /\ <<>> \in Lists /\ Neat \subseteq Lists
    BY EmptyIsNeat, ListsAreSeqs DEF Neat
  <1>2. <<>> \in Seq(Neat) /\ <<>> \in Seq(Lists) /\ Len(<<>>) = 0 /\ DOMAIN <<>> = {}
    OBVIOUS
  <1>3. UndoLimit \in Nat
    BY StoreAssumption
  <1>4. TypeOK
    <2>1. Idle \in [pc : {"idle", "open", "write", "replace"}, file : Files,
                    payload : Lists \cup {Exported}]
      BY <1>1 DEF Idle, Files
    <2>2. 0 <= UndoLimit
      BY <1>3
    <2>3. undo \in Seq(Lists) /\ Len(undo) <= UndoLimit
      BY <1>2, <2>2 DEF Init
    <2> QED
      BY <1>1, <2>1, <2>3 DEF Init, TypeOK, Contents
  <1>5. UndoChain
    BY <1>2 DEF UndoChain, Init
  <1>6. OneSaver
    BY StoreAssumption DEF OneSaver, Init
  <1> QED
    BY <1>1, <1>2, <1>4, <1>5, <1>6 DEF Init, StoreInv, DraftFollows, Files

\* A snapshot goes on top, and the bottom is cut off at the limit.
LEMMA RememberStacks ==
    ASSUME StoreInv, Remember
    PROVE  /\ undo' \in Seq(Neat) /\ Len(undo') <= UndoLimit
           /\ OneEdit(events, events') => UndoChain'
  <1> DEFINE n == Len(undo)
             all == Append(undo, events)
             d == Max({0, (n + 1) - UndoLimit})
  <1>1. /\ undo \in Seq(Neat) /\ events \in Neat /\ n \in Nat /\ n <= UndoLimit
        /\ UndoLimit \in Nat /\ UndoLimit >= 1 /\ DOMAIN undo = 1..n
    BY StoreAssumption DEF StoreInv, TypeOK
  <1>2. /\ all \in Seq(Neat) /\ Len(all) = n + 1
        /\ \A i \in 1..n : all[i] = undo[i]
        /\ all[n + 1] = events
    BY <1>1, AppendProperties
  <1>3. undo' = SubSeq(all, 1 + d, n + 1)
    <2>1. undo' = SubSeq(all, 1 + Max({0, Len(all) - UndoLimit}), Len(all))
      BY DEF Remember
    <2> DEFINE Kept(k) == SubSeq(all, 1 + Max({0, k - UndoLimit}), k)
    <2>2. undo' = Kept(Len(all)) /\ Len(all) = n + 1
      BY <1>2, <2>1
    <2> HIDE DEF all, Kept
    <2>3. undo' = Kept(n + 1)
      BY <2>2
    <2> QED
      BY <2>3 DEF Kept
  <1>4. d \in 0..n /\ n + 1 - d <= UndoLimit
    <2>1. (n + 1) - UndoLimit \in Int /\ (n + 1) - UndoLimit <= n
      BY <1>1
    <2> DEFINE m == (n + 1) - UndoLimit
               M == IF m > 0 THEN m ELSE 0
    <2>2. M \in {0, m} /\ \A y \in {0, m} : M >= y
      BY <2>1
    <2>3. d \in {0, m} /\ \A y \in {0, m} : d >= y
      <3> HIDE DEF m, M
      <3> QED
        BY <2>2 DEF Max, m
    <2> QED
      BY <1>1, <2>3
  <1> HIDE DEF d, all
  <1>5. /\ undo' \in Seq(Neat) /\ Len(undo') = n + 1 - d
        /\ \A i \in 1..(n + 1 - d) : undo'[i] = all[i + d]
    <2>1. 1 + d \in Int /\ n + 1 \in Int /\ 1 + d <= n + 1
      BY <1>1, <1>4
    <2>2. \A i \in (1 + d)..(n + 1) : all[i] \in Neat
      <3> TAKE i \in (1 + d)..(n + 1)
      <3>1. i \in 1..Len(all)
        BY <1>1, <1>2, <1>4
      <3> QED
        BY <1>2, <3>1, ElementOfSeq
    <2>3. /\ SubSeq(all, 1 + d, n + 1) \in Seq(Neat)
          /\ Len(SubSeq(all, 1 + d, n + 1)) =
                IF 1 + d <= n + 1 THEN (n + 1) - (1 + d) + 1 ELSE 0
          /\ \A i \in 1..((n + 1) - (1 + d) + 1) :
                SubSeq(all, 1 + d, n + 1)[i] = all[(1 + d) + i - 1]
      BY <2>1, <2>2, SubSeqProperties
    <2>4. (n + 1) - (1 + d) + 1 = n + 1 - d
      BY <1>1, <1>4
    <2>5. Len(undo') = n + 1 - d
      BY <1>3, <2>1, <2>3, <2>4
    <2>6. \A i \in 1..(n + 1 - d) : undo'[i] = all[i + d]
      <3> TAKE i \in 1..(n + 1 - d)
      <3>1. (1 + d) + i - 1 = i + d /\ i \in 1..((n + 1) - (1 + d) + 1)
        BY <1>1, <1>4, <2>4
      <3>2. SubSeq(all, 1 + d, n + 1)[i] = all[(1 + d) + i - 1]
        BY <2>3, <3>1
      <3> QED
        BY <1>3, <3>1, <3>2
    <2> QED
      BY <1>3, <2>3, <2>5, <2>6
  <1>6. Len(undo') <= UndoLimit
    BY <1>4, <1>5
  <1>7. ASSUME OneEdit(events, events') PROVE UndoChain'
    <2>1. DOMAIN undo' = 1..(n + 1 - d)
      BY <1>1, <1>4, <1>5
    <2>2. SUFFICES ASSUME NEW i \in 1..(n + 1 - d)
                   PROVE  OneEdit(undo'[i], IF i = n + 1 - d THEN events' ELSE undo'[i + 1])
      BY <1>5, <2>1 DEF UndoChain, OneEdit
    <2>3. CASE i = n + 1 - d
      <3>1. i + d = n + 1
        BY <1>1, <1>4, <2>3
      <3> QED
        BY <1>2, <1>5, <1>7, <2>3, <3>1
    <2>4. CASE i # n + 1 - d
      <3>1. i + d \in 1..n /\ i + 1 \in 1..(n + 1 - d) /\ (i + 1) + d = (i + d) + 1
        BY <1>1, <1>4, <2>4
      <3>2. undo'[i] = undo[i + d] /\ undo'[i + 1] = all[i + d + 1]
        BY <1>2, <1>5, <3>1
      <3>3. OneEdit(undo[i + d], IF i + d = n THEN events ELSE undo[i + d + 1])
        BY <1>1, <3>1 DEF StoreInv, UndoChain
      <3>4. all[i + d + 1] = IF i + d = n THEN events ELSE undo[i + d + 1]
        <4>1. i + d # n => i + d + 1 \in 1..n
          BY <1>1, <3>1
        <4> QED
          BY <1>2, <4>1
      <3> QED
        BY <2>4, <3>2, <3>3, <3>4
    <2> QED
      BY <2>3, <2>4
  <1> QED
    BY <1>5, <1>6, <1>7

LEMMA SameList == \A list : OneEdit(list, list)
  BY StoreAssumption DEF OneEdit, Ids

\* A request that changed the list, up to its save.
LEMMA ChangeKeepsInv ==
    ASSUME StoreInv, NEW t \in Threads, NEW list \in Neat, Change(t, list),
           undo' \in Seq(Neat), Len(undo') <= UndoLimit, UndoChain'
    PROVE  StoreInv'
  <1>1. /\ up /\ lock = NoThread /\ lock' = t /\ events' = list
        /\ saving' = [saving EXCEPT ![t] = [pc |-> "open", file |-> "draft", payload |-> list]]
        /\ UNCHANGED <<disk, temporary, unsaved, up>>
    BY DEF Change, Enter, Save
  <1>2. list \in Lists /\ Neat \subseteq Lists
    BY DEF Neat
  <1>3. saving' \in [Threads -> [pc : {"idle", "open", "write", "replace"},
                                 file : Files, payload : Lists \cup {Exported}]]
    <2>1. [pc |-> "open", file |-> "draft", payload |-> list]
             \in [pc : {"idle", "open", "write", "replace"},
                  file : Files, payload : Lists \cup {Exported}]
      BY <1>2 DEF Files
    <2> QED
      BY <1>1, <2>1 DEF StoreInv, TypeOK
  <1>4. undo' \in Seq(Lists)
    BY <1>2, SeqMonotonic
  <1>5. TypeOK'
    BY <1>1, <1>2, <1>3, <1>4 DEF StoreInv, TypeOK, Contents
  <1>6. \A u \in Threads : saving'[u] = IF u = t THEN [pc |-> "open", file |-> "draft", payload |-> list]
                                                 ELSE Idle
    BY <1>1, StoreAssumption DEF StoreInv, TypeOK, OneSaver
  <1>7. OneSaver'
    BY <1>1, <1>6 DEF OneSaver
  <1>8. DraftFollows'
    BY <1>1, <1>6 DEF DraftFollows
  <1> QED
    BY <1>1, <1>5, <1>7, <1>8 DEF StoreInv

LEMMA RequestKeepsInv ==
    ASSUME StoreInv, NEW t \in Threads, Request(t)
    PROVE  StoreInv'
  <1>1. /\ events \in Neat /\ events \in Lists /\ undo \in Seq(Neat) /\ Len(undo) \in Nat
        /\ DOMAIN undo = 1..Len(undo) /\ Len(undo) <= UndoLimit /\ UndoLimit \in Nat
    BY StoreAssumption DEF StoreInv, TypeOK
  <1>2. ASSUME NEW r \in Ranges, Create(t, r) PROVE StoreInv'
    <2> DEFINE list == Sorted(Append(events,
                  [id |-> NextId, frame_start |-> r[1], frame_end |-> r[2]]))
    <2>1. InIndex(r) /\ Len(events) < MaxEvents /\ Remember /\ Change(t, list)
      BY <1>2 DEF Create
    <2>2. list \in Neat /\ OneEdit(events, list)
      BY <1>1, <2>1, CreateKeepsNeat
    <2> HIDE DEF list
    <2>3. events' = list
      BY <2>1 DEF Change
    <2> QED
      BY <2>1, <2>2, <2>3, RememberStacks, ChangeKeepsInv
  <1>3. ASSUME NEW i \in DOMAIN events, NEW r \in Ranges, Update(t, i, r) PROVE StoreInv'
    <2> DEFINE list == Sorted([events EXCEPT ![i].frame_start = r[1], ![i].frame_end = r[2]])
    <2>1. InIndex(r) /\ Remember /\ Change(t, list)
      BY <1>3 DEF Update
    <2>2. list \in Neat /\ OneEdit(events, list)
      BY <1>1, <2>1, UpdateKeepsNeat
    <2> HIDE DEF list
    <2>3. events' = list
      BY <2>1 DEF Change
    <2> QED
      BY <2>1, <2>2, <2>3, RememberStacks, ChangeKeepsInv
  <1>4. ASSUME NEW i \in DOMAIN events, Delete(t, i) PROVE StoreInv'
    <2> DEFINE list == RemoveAt(events, i)
    <2>1. Remember /\ Change(t, list)
      BY <1>4 DEF Delete
    <2>2. list \in Neat /\ OneEdit(events, list)
      BY <1>1, DeleteKeepsNeat
    <2> HIDE DEF list
    <2>3. events' = list
      BY <2>1 DEF Change
    <2> QED
      BY <2>1, <2>2, <2>3, RememberStacks, ChangeKeepsInv
  <1>5. ASSUME Undo(t) PROVE StoreInv'
    <2> DEFINE n == Len(undo)
    <2>1. /\ n \in 1..UndoLimit /\ undo' = SubSeq(undo, 1, n - 1) /\ Change(t, undo[n])
          /\ events' = undo[n]
      BY <1>1, <1>5 DEF Undo, Front, Last, Change
    <2>2. \A i \in 1..n : undo[i] \in Neat
      BY <1>1
    <2>3. /\ undo' \in Seq(Neat) /\ Len(undo') = n - 1
          /\ \A i \in 1..(n - 1) : undo'[i] = undo[i]
      <3>1. /\ SubSeq(undo, 1, n - 1) \in Seq(Neat)
            /\ Len(SubSeq(undo, 1, n - 1)) = IF 1 <= n - 1 THEN (n - 1) - 1 + 1 ELSE 0
            /\ \A i \in 1..((n - 1) - 1 + 1) : SubSeq(undo, 1, n - 1)[i] = undo[1 + i - 1]
        BY <1>1, <2>1, <2>2, SubSeqProperties
      <3> HIDE DEF n
      <3>2. n \in Nat /\ n >= 1
        BY <1>1, <2>1
      <3>3. \A i \in 1..(n - 1) : undo'[i] = undo[i]
        <4> TAKE i \in 1..(n - 1)
        <4>1. 1 + i - 1 = i /\ i \in 1..((n - 1) - 1 + 1)
          BY <3>2
        <4> QED
          BY <2>1, <3>1, <4>1
      <3> QED
        BY <2>1, <3>1, <3>2, <3>3
    <2>4. UndoChain'
      <3>1. DOMAIN undo' = 1..(n - 1)
        BY <1>1, <2>3
      <3>2. SUFFICES ASSUME NEW i \in 1..(n - 1)
                     PROVE  OneEdit(undo'[i], IF i = n - 1 THEN events' ELSE undo'[i + 1])
        BY <2>3, <3>1 DEF UndoChain, OneEdit
      <3>3. /\ i \in 1..n /\ i # n /\ i \in Int /\ n \in Int
            /\ i # n - 1 => i + 1 \in 1..(n - 1)
            /\ i = n - 1 => i + 1 = n
        <4>1. n \in Nat /\ i \in 1..(n - 1)
          BY <1>1
        <4> HIDE DEF n
        <4> QED
          BY <4>1
      <3>4. OneEdit(undo[i], IF i = n THEN events ELSE undo[i + 1])
        BY <1>1, <3>3 DEF StoreInv, UndoChain
      <3>5. OneEdit(undo[i], undo[i + 1])
        BY <3>3, <3>4
      <3> QED
        BY <2>1, <2>3, <3>3, <3>4, <3>5
    <2>5. undo[n] \in Neat /\ Len(undo') <= UndoLimit
      BY <1>1, <2>1, <2>2, <2>3
    <2> HIDE DEF n
    <2> QED
      BY <2>1, <2>3, <2>4, <2>5, ChangeKeepsInv
  <1>6. ASSUME Export(t) PROVE StoreInv'
    <2>1. /\ up /\ lock = NoThread /\ lock' = t
          /\ saving' = [saving EXCEPT ![t] = [pc |-> "open", file |-> "annotation",
                                              payload |-> Exported]]
          /\ UNCHANGED <<events, undo, disk, temporary, unsaved, up>>
      BY <1>6 DEF Export, Enter, Save
    <2>2. saving' \in [Threads -> [pc : {"idle", "open", "write", "replace"},
                                   file : Files, payload : Lists \cup {Exported}]]
      <3>1. [pc |-> "open", file |-> "annotation", payload |-> Exported]
               \in [pc : {"idle", "open", "write", "replace"},
                    file : Files, payload : Lists \cup {Exported}]
        BY DEF Files
      <3> QED
        BY <2>1, <3>1 DEF StoreInv, TypeOK
    <2>3. \A u \in Threads : saving'[u] =
              IF u = t THEN [pc |-> "open", file |-> "annotation", payload |-> Exported] ELSE Idle
      BY <2>1, StoreAssumption DEF StoreInv, TypeOK, OneSaver
    <2>4. OneSaver'
      BY <2>1, <2>3 DEF OneSaver
    <2>5. DraftFollows'
      BY <2>1, StoreAssumption DEF StoreInv, DraftFollows
    <2>6. TypeOK'
      BY <2>1, <2>2 DEF StoreInv, TypeOK, Contents
    <2>7. UndoChain'
      BY <2>1 DEF StoreInv, UndoChain, OneEdit
    <2> QED
      BY <2>1, <2>4, <2>5, <2>6, <2>7 DEF StoreInv
  <1> QED
    BY <1>2, <1>3, <1>4, <1>5, <1>6 DEF Request

\* A step of _write_atomic: memory stays, and the file gets what it was to get.
LEMMA SaveKeepsInv ==
    ASSUME StoreInv, NEW t \in Threads, SaveStep(t)
    PROVE  StoreInv'
  <1> DEFINE mine == saving[t]
  <1>1. saving[t].pc # "idle"
    BY DEF SaveStep, OpenTemporary, WriteTemporary, Replace, SaveFails
  <1>2. /\ lock = t /\ lock # NoThread /\ up
        /\ mine.payload = IF mine.file = "draft" THEN events ELSE Exported
        /\ mine.pc = "replace" => temporary[mine.file] = mine.payload
    BY <1>1, StoreAssumption DEF StoreInv, OneSaver, Idle
  <1>3. /\ mine \in [pc : {"idle", "open", "write", "replace"}, file : Files,
                    payload : Lists \cup {Exported}]
        /\ mine.file \in Files /\ mine.payload \in Lists \cup {Exported}
        /\ mine.payload \in Contents /\ Torn \in Contents /\ NoFile \in Contents
    BY DEF StoreInv, TypeOK, Contents
  <1>4. \A u \in Threads : u # t => saving[u] = Idle
    BY <1>2 DEF StoreInv, OneSaver
  <1>5. events \in Neat /\ events \in Lists /\ <<>> \in Lists
    BY ListsAreSeqs DEF StoreInv, Neat
  <1>6. ASSUME OpenTemporary(t) PROVE StoreInv'
    <2>1. /\ temporary' = [temporary EXCEPT ![mine.file] = Torn]
          /\ saving' = [saving EXCEPT ![t].pc = "write"]
          /\ UNCHANGED <<events, undo, lock, disk, unsaved, up>>
      BY <1>6 DEF OpenTemporary, Goto
    <2>2. /\ saving' \in [Threads -> [pc : {"idle", "open", "write", "replace"}, file : Files,
                                      payload : Lists \cup {Exported}]]
          /\ temporary' \in [Files -> Contents]
      BY <1>3, <2>1 DEF StoreInv, TypeOK
    <2>3. /\ \A u \in Threads : u # t => saving'[u] = Idle
          /\ saving'[t].pc = "write" /\ saving'[t].file = mine.file
          /\ saving'[t].payload = mine.payload
      BY <1>3, <1>4, <2>1 DEF StoreInv, TypeOK
    <2>4. TypeOK'
      BY <2>1, <2>2 DEF StoreInv, TypeOK, Contents
    <2>5. OneSaver'
      BY <1>2, <2>1, <2>3 DEF OneSaver
    <2>6. DraftFollows'
      BY <1>2, <2>1, <2>3 DEF StoreInv, DraftFollows
    <2>7. UndoChain'
      BY <2>1 DEF StoreInv, UndoChain, OneEdit
    <2> QED
      BY <2>1, <2>4, <2>5, <2>6, <2>7 DEF StoreInv
  <1>7. ASSUME WriteTemporary(t) PROVE StoreInv'
    <2>1. /\ temporary' = [temporary EXCEPT ![mine.file] = mine.payload]
          /\ saving' = [saving EXCEPT ![t].pc = "replace"]
          /\ UNCHANGED <<events, undo, lock, disk, unsaved, up>>
      BY <1>7 DEF WriteTemporary, Goto
    <2>2. /\ saving' \in [Threads -> [pc : {"idle", "open", "write", "replace"}, file : Files,
                                      payload : Lists \cup {Exported}]]
          /\ temporary' \in [Files -> Contents]
      BY <1>3, <2>1 DEF StoreInv, TypeOK
    <2>3. /\ \A u \in Threads : u # t => saving'[u] = Idle
          /\ saving'[t].pc = "replace" /\ saving'[t].file = mine.file
          /\ saving'[t].payload = mine.payload
          /\ temporary'[mine.file] = mine.payload
      BY <1>3, <1>4, <2>1 DEF StoreInv, TypeOK
    <2>4. TypeOK'
      BY <2>1, <2>2 DEF StoreInv, TypeOK, Contents
    <2>5. OneSaver'
      BY <1>2, <2>1, <2>3 DEF OneSaver
    <2>6. DraftFollows'
      BY <1>2, <2>1, <2>3 DEF StoreInv, DraftFollows
    <2>7. UndoChain'
      BY <2>1 DEF StoreInv, UndoChain, OneEdit
    <2> QED
      BY <2>1, <2>4, <2>5, <2>6, <2>7 DEF StoreInv
  <1>8. ASSUME NEW failed \in BOOLEAN, Leave(t, failed),
               \/ failed /\ UNCHANGED <<disk, temporary>>
               \/ /\ ~failed
                  /\ disk' = [disk EXCEPT ![mine.file] = mine.payload]
                  /\ temporary' = [temporary EXCEPT ![mine.file] = NoFile]
        PROVE  StoreInv'
    <2>1. /\ saving' = [saving EXCEPT ![t] = Idle] /\ lock' = NoThread
          /\ unsaved' = IF mine.file = "draft" THEN failed ELSE unsaved
          /\ UNCHANGED <<events, undo, up>>
      BY <1>8 DEF Leave
    <2>2. \A u \in Threads : saving'[u] = Idle
      BY <1>4, <2>1 DEF StoreInv, TypeOK
    <2>3. TypeOK'
      <3>1. Idle \in [pc : {"idle", "open", "write", "replace"}, file : Files,
                      payload : Lists \cup {Exported}]
        BY <1>5 DEF Idle, Files
      <3>2. saving' \in [Threads -> [pc : {"idle", "open", "write", "replace"}, file : Files,
                                     payload : Lists \cup {Exported}]]
        BY <2>1, <3>1 DEF StoreInv, TypeOK
      <3>3. disk' \in [Files -> Contents] /\ temporary' \in [Files -> Contents]
        BY <1>3, <1>8 DEF StoreInv, TypeOK
      <3> QED
        BY <2>1, <3>2, <3>3, <1>8 DEF StoreInv, TypeOK, Contents
    <2>4. OneSaver'
      BY <2>1, <2>2, StoreAssumption DEF OneSaver
    <2>5. /\ disk["draft"] \in Neat \cup {NoFile} /\ disk["annotation"] \in {NoFile, Exported}
          /\ disk \in [Files -> Contents]
      BY DEF StoreInv, TypeOK
    <2>6. /\ disk'["draft"] = IF mine.file = "draft" /\ ~failed THEN events ELSE disk["draft"]
          /\ disk'["annotation"] = IF mine.file = "annotation" /\ ~failed THEN Exported
                                                                        ELSE disk["annotation"]
      BY <1>2, <1>3, <1>8, <2>5 DEF Files
    <2>7. DraftFollows'
      <3>1. CASE mine.file = "draft"
        BY <2>1, <2>6, <3>1 DEF DraftFollows
      <3>2. CASE mine.file = "annotation"
        BY <1>2, <2>1, <2>6, <3>2 DEF StoreInv, DraftFollows
      <3> QED
        BY <1>3, <3>1, <3>2 DEF Files
    <2>8. UndoChain'
      BY <2>1 DEF StoreInv, UndoChain, OneEdit
    <2> QED
      BY <1>2, <1>5, <2>1, <2>3, <2>4, <2>5, <2>6, <2>7, <2>8 DEF StoreInv
  <1>9. ASSUME Replace(t) PROVE StoreInv'
    BY <1>2, <1>8, <1>9 DEF Replace
  <1>10. ASSUME SaveFails(t) PROVE StoreInv'
    BY <1>8, <1>10 DEF SaveFails
  <1> QED
    BY <1>6, <1>7, <1>9, <1>10 DEF SaveStep

\* A request whose frames are refused leaves its snapshot on the stack.
LEMMA RefuseKeepsInv ==
    ASSUME StoreInv, NEW r \in Ranges, Refuse(r)
    PROVE  StoreInv'
  <1>1. Remember /\ up /\ UNCHANGED <<events, lock, saving, disk, temporary, unsaved, up>>
    BY DEF Refuse
  <1>2. OneEdit(events, events')
    BY <1>1, SameList
  <1>3. undo' \in Seq(Neat) /\ Len(undo') <= UndoLimit /\ UndoChain'
    BY <1>1, <1>2, RememberStacks
  <1>4. undo' \in Seq(Lists)
    <2>1. Neat \subseteq Lists
      BY DEF Neat
    <2> QED
      BY <1>3, <2>1, SeqMonotonic
  <1>5. TypeOK'
    BY <1>1, <1>3, <1>4 DEF StoreInv, TypeOK, Contents
  <1> QED
    BY <1>1, <1>3, <1>5 DEF StoreInv, OneSaver, DraftFollows

\* The process ends, and starts again from the draft.
LEMMA RestartKeepsInv ==
    ASSUME StoreInv, Crash \/ Start
    PROVE  StoreInv'
  <1>1. <<>> \in Neat /\ <<>> \in Lists /\ Neat \subseteq Lists
    BY EmptyIsNeat DEF Neat
  <1>2. CASE Crash
    <2>1. /\ up' = FALSE /\ events' = <<>> /\ undo' = <<>> /\ lock' = NoThread
          /\ saving' = [t \in Threads |-> Idle] /\ unsaved' = FALSE
          /\ UNCHANGED <<disk, temporary>>
      BY <1>2 DEF Crash
    <2>2. <<>> \in Seq(Neat) /\ <<>> \in Seq(Lists) /\ Len(<<>>) = 0 /\ DOMAIN <<>> = {}
      OBVIOUS
    <2>3. TypeOK'
      <3>1. Idle \in [pc : {"idle", "open", "write", "replace"}, file : Files,
                      payload : Lists \cup {Exported}]
        BY <1>1 DEF Idle, Files
      <3>2. Len(undo') <= UndoLimit
        BY <2>1, <2>2, StoreAssumption
      <3>3. undo' \in Seq(Lists) /\ events' \in Lists
        BY <1>1, <2>1, <2>2
      <3> QED
        BY <2>1, <3>1, <3>2, <3>3 DEF StoreInv, TypeOK, Contents
    <2>4. UndoChain'
      BY <2>1, <2>2 DEF UndoChain
    <2>5. OneSaver'
      BY <2>1, StoreAssumption DEF OneSaver
    <2> QED
      BY <1>1, <2>1, <2>2, <2>3, <2>4, <2>5 DEF StoreInv, DraftFollows
  <1>3. CASE Start
    <2>1. /\ ~up /\ up' = TRUE /\ events' = Restored(disk["draft"])
          /\ UNCHANGED <<undo, lock, saving, disk, temporary, unsaved>>
      BY <1>3 DEF Start
    <2>2. lock = NoThread /\ undo = <<>>
      BY <2>1 DEF StoreInv
    <2>3. disk["draft"] \in Neat => Sorted(disk["draft"]) = disk["draft"]
      BY NeatAccepted
    <2>4. \/ events' = disk["draft"] /\ disk["draft"] \in Neat
          \/ events' = <<>> /\ disk["draft"] = NoFile
      BY <2>1, <2>3 DEF StoreInv, Restored
    <2>5. events' \in Neat /\ events' \in Lists
      BY <1>1, <2>4
    <2>6. DOMAIN undo = {}
      BY <2>2
    <2>7. UndoChain'
      BY <2>1, <2>6 DEF UndoChain
    <2>8. OneSaver'
      BY <2>1, <2>2, StoreAssumption DEF StoreInv, OneSaver
    <2>9. TypeOK'
      BY <2>1, <2>5 DEF StoreInv, TypeOK, Contents
    <2>10. DraftFollows'
      BY <2>1, <2>4 DEF DraftFollows
    <2> QED
      BY <2>1, <2>2, <2>5, <2>7, <2>8, <2>9, <2>10 DEF StoreInv
  <1> QED
    BY <1>2, <1>3

LEMMA StoreNext == StoreInv /\ [Next]_vars => StoreInv'
  <1> SUFFICES ASSUME StoreInv, [Next]_vars PROVE StoreInv'
    OBVIOUS
  <1>1. CASE Next
    BY <1>1, RequestKeepsInv, SaveKeepsInv, RefuseKeepsInv, RestartKeepsInv DEF Next
  <1>2. CASE UNCHANGED vars
    BY <1>2 DEF vars, StoreInv, TypeOK, Contents, OneSaver, DraftFollows, UndoChain, OneEdit
  <1> QED
    BY <1>1, <1>2

\* The draft is the list in memory whenever no thread is inside the store, unless
\* the last save raised.
THEOREM DraftsAreSaved == Spec => []SavedUnlessFailed
  <1>1. StoreInv => SavedUnlessFailed
    BY StoreAssumption DEF StoreInv, DraftFollows, SavedUnlessFailed
  <1> QED
    BY <1>1, StoreInit, StoreNext, PTL DEF Spec

\* Every draft a process can leave is accepted by the next start, as it is.
THEOREM DraftsRestart == Spec => []DraftRestarts
  <1>1. StoreInv => DraftRestarts
    <2> SUFFICES ASSUME StoreInv PROVE DraftRestarts
      OBVIOUS
    <2>1. disk["draft"] \in Neat \cup {NoFile}
      BY DEF StoreInv
    <2>2. disk["draft"] # Torn
      BY <2>1, StoreAssumption DEF Neat
    <2>3. disk["draft"] # NoFile =>
            /\ Distinct(disk["draft"]) /\ Sorted(disk["draft"]) = disk["draft"]
            /\ \A i \in DOMAIN disk["draft"] : InIndex(RangeOf(disk["draft"][i]))
      BY <2>1, NeatAccepted
    <2> QED
      BY <2>2, <2>3 DEF DraftRestarts, Restorable, Restored
  <1> QED
    BY <1>1, StoreInit, StoreNext, PTL DEF Spec

\* What the operations build passes the loader of an annotation.
THEOREM ExportsAccepted == Spec => []ExportNeverRefused
  <1>1. StoreInv => ExportNeverRefused
    BY NeatAccepted, StoreAssumption DEF StoreInv, ExportNeverRefused
  <1> QED
    BY <1>1, StoreInit, StoreNext, PTL DEF Spec

\* Neighbours on the undo stack differ in one event, through refusals, failed
\* saves, undos and the limit of the stack.
THEOREM UndoSteps == Spec => []UndoChain
  <1>1. StoreInv => UndoChain
    BY DEF StoreInv
  <1> QED
    BY <1>1, StoreInit, StoreNext, PTL DEF Spec
=============================================================================
