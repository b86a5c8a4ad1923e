------------------------- MODULE Publication_proofs -------------------------
(***************************************************************************)
(* Theorems about the two ways a bundle is published: the import of a      *)
(* single rally, for any inputs and any number of processes, and the       *)
(* reference fixture, with the gate its assets have to pass, for any       *)
(* assets; both for any schedule of replaced inputs and of deaths.         *)
(***************************************************************************)
EXTENDS ReferenceFixture, SingleRally, SequenceTheorems, FiniteSetTheorems, TLAPS

-----------------------------------------------------------------------------
(* The checks of the import and of the validation                          *)

\* A sequence mapped element by element keeps its length.
LEMMA MappedLength ==
    ASSUME NEW S, NEW s \in Seq(S), NEW t, DOMAIN t = DOMAIN s,
           NEW T, \A k \in DOMAIN s : t[k] \in T, t = [k \in DOMAIN s |-> t[k]]
    PROVE  t \in Seq(T) /\ Len(t) = Len(s)
  <1>1. Len(s) \in Nat /\ DOMAIN s = 1..Len(s)
    OBVIOUS
  <1>2. t \in [1..Len(s) -> T]
    BY <1>1
  <1>3. t \in Seq(T)
    BY <1>1, <1>2, SeqDef
  <1>4. DOMAIN t = 1..Len(t) /\ Len(t) \in Nat
    BY <1>3
  <1> QED
    BY <1>1, <1>3, <1>4

\* The adapter of the events keeps everything but the type, for which it gives one
\* the schema knows, and the pixel, of which it only turns a pair into an object.
LEMMA AdaptedEvents ==
    ASSUME NEW in, in.events \in Seq(RawEvent)
    PROVE  /\ DOMAIN ImportedEvents(in) = DOMAIN in.events
           /\ Len(ImportedEvents(in)) = Len(in.events)
           /\ \A k \in DOMAIN in.events :
                 /\ ImportedEvents(in)[k].id = in.events[k].id
                 /\ ImportedEvents(in)[k].frame = in.events[k].frame
                 /\ ImportedEvents(in)[k].time = in.events[k].time
                 /\ ImportedEvents(in)[k].position = in.events[k].position
                 /\ ImportedEvents(in)[k].confidence = in.events[k].confidence
                 /\ in.events[k] \in RawEvent
                 /\ EventReadable(in.events[k]) =>
                       (ImportedEvents(in)[k].pixel \in {"none", "object"}
                           <=> in.events[k].pixel \notin {"extra", "text"})
                 /\ ImportedEvents(in)[k].type \in
                       {"contact", "bounce", "serve", "out", "unknown"}
  <1> DEFINE ev == ImportedEvents(in)
             s == in.events
  <1>1. \A k \in DOMAIN s : s[k] \in RawEvent
    OBVIOUS
  <1>2. ev = [k \in DOMAIN s |-> EventRecord(s[k])]
    BY DEF ImportedEvents
  <1>3. ASSUME NEW e \in RawEvent
        PROVE  /\ EventRecord(e).id = e.id /\ EventRecord(e).frame = e.frame
               /\ EventRecord(e).time = e.time
               /\ EventRecord(e).position = e.position
               /\ EventRecord(e).confidence = e.confidence
               /\ EventReadable(e) =>
                     (EventRecord(e).pixel \in {"none", "object"}
                         <=> e.pixel \notin {"extra", "text"})
               /\ EventRecord(e).type \in {"contact", "bounce", "serve", "out", "unknown"}
    <2>1. EventType(e.type) \in {"contact", "bounce", "serve", "out", "unknown"}
      BY DEF EventType
    <2>2. e.pixel \in Pixels
      BY DEF RawEvent
    <2>3. EventReadable(e) =>
             (EventRecord(e).pixel \in {"none", "object"} <=> e.pixel \notin {"extra", "text"})
      BY <2>2 DEF EventRecord, EventReadable, Pixels
    <2> QED
      BY <2>1, <2>3 DEF EventRecord
  <1>4. DOMAIN ev = DOMAIN s /\ \A k \in DOMAIN s : ev[k] = EventRecord(s[k])
    BY <1>2
  <1>5. Len(ev) = Len(s)
    <2> DEFINE T == {EventRecord(s[k]) : k \in DOMAIN s}
    <2>1. \A k \in DOMAIN s : ev[k] \in T
      BY <1>4
    <2>2. ev = [k \in DOMAIN s |-> ev[k]]
      BY <1>2
    <2> HIDE DEF ev, T
    <2> QED
      BY <1>4, <2>1, <2>2, MappedLength
  <1> HIDE DEF ev
  <1> QED
    BY <1>1, <1>3, <1>4, <1>5 DEF ev

\* The adapter of the track keeps the rows, and gives every row a known source and,
\* from its own cell or from the timestamps, a time.
LEMMA AdaptedTrack ==
    ASSUME NEW in, in.track \in Seq(RawRow)
    PROVE  /\ DOMAIN ImportedTrack(in) = DOMAIN in.track
           /\ Len(ImportedTrack(in)) = Len(in.track)
           /\ \A k \in DOMAIN in.track :
                 /\ ImportedTrack(in)[k].source \in {"raw", "smoothed", "interpolated"}
                 /\ ImportedTrack(in)[k].frame = in.track[k].frame
                 /\ ImportedTrack(in)[k].confidence = in.track[k].confidence
                 /\ TrackReadable(in.track[k], in.stamps)
                       /\ (\A f \in DOMAIN in.stamps : in.stamps[f] \in Int)
                    => ImportedTrack(in)[k].time \in Int
  <1> DEFINE tr == ImportedTrack(in)
             s == in.track
             T == {TrackPoint(s[k], in.stamps) : k \in DOMAIN s}
  <1>1. tr = [k \in DOMAIN s |-> TrackPoint(s[k], in.stamps)]
    BY DEF ImportedTrack
  <1>2. DOMAIN tr = DOMAIN s /\ \A k \in DOMAIN s : tr[k] = TrackPoint(s[k], in.stamps)
    BY <1>1
  <1>3. Len(tr) = Len(s)
    <2>1. \A k \in DOMAIN s : tr[k] \in T
      BY <1>2
    <2>2. tr = [k \in DOMAIN s |-> tr[k]]
      BY <1>1
    <2> HIDE DEF tr, T
    <2> QED
      BY <1>2, <2>1, <2>2, MappedLength
  <1>5. ASSUME NEW k \in DOMAIN s
        PROVE  /\ tr[k].frame = s[k].frame /\ tr[k].confidence = s[k].confidence
               /\ TrackReadable(s[k], in.stamps)
                     /\ (\A f \in DOMAIN in.stamps : in.stamps[f] \in Int)
                  => tr[k].time \in Int
    <2>1. s[k] \in RawRow
      OBVIOUS
    <2>2. s[k].time \in Int \cup {NoTime}
      BY <2>1 DEF RawRow
    <2> HIDE DEF s, tr
    <2>3. tr[k] = TrackPoint(s[k], in.stamps)
      BY <1>2
    <2> QED
      BY <2>2, <2>3 DEF TrackPoint, TrackTime, TrackReadable
  <1>4. \A k \in DOMAIN s : tr[k].source \in {"raw", "smoothed", "interpolated"}
    <2>1. \A declared : TrackSource(declared) \in {"raw", "smoothed", "interpolated"}
      BY DEF TrackSource
    <2>2. \A row, stamps : TrackPoint(row, stamps).source = TrackSource(row.source)
      BY DEF TrackPoint
    <2> HIDE DEF tr
    <2> QED
      BY <1>2, <2>1, <2>2
  <1> QED
    BY <1>2, <1>3, <1>4, <1>5

\* The map an accepted calibration becomes is refused for its corner alone.
LEMMA AdaptedCourt ==
    ASSUME NEW court, CourtReadable(court)
    PROVE  /\ CourtSemantics(CourtMap(court)) <=> court.corner # "edge"
           /\ CourtMap(court).provenance = court.provenance
           /\ CourtMap(court).homography = court.homography
  BY DEF CourtReadable, CourtMap, CourtSemantics

\* The two lists of checks, written apart on the raw and on the written form of the
\* data, agree: what the import accepts, the validation of its own files refuses
\* exactly for the flaws the import hands on (OnlyValidatorRefuses).
THEOREM ChecksAgree ==
    ASSUME NEW in, in.events \in Seq(RawEvent), in.track \in Seq(RawRow), in.start \in Int,
           \A f \in DOMAIN in.stamps : in.stamps[f] \in Int,
           in.court.homography \in Homographies, ImportAccepts(in)
    PROVE  RallyAccepts(RallyFiles(in)) <=> ~OnlyValidatorRefuses(in)
  <1> DEFINE b == RallyFiles(in)
             ev == ImportedEvents(in)
             tr == ImportedTrack(in)
  <1>1. /\ b.events = ev /\ b.track = tr /\ b.court = CourtMap(in.court)
        /\ b.rally = RallyRecord(in) /\ b.metrics = RallyMetrics(ev, tr)
    BY DEF RallyFiles
  <1>2. /\ b.rally.index = in.index /\ b.rally.start = in.start /\ b.rally.end = in.end
        /\ b.rally.event_count = Len(in.events) /\ b.rally.ball_count = Len(in.track)
        /\ b.rally.contact_count = CountOf(ev, IsContact)
        /\ b.rally.bounce_count = CountOf(ev, IsBounce)
    BY <1>1 DEF RallyRecord, CountOf
  <1>3. /\ b.metrics.balls = Len(tr) /\ b.metrics.contacts = CountOf(ev, IsContact)
        /\ b.metrics.bounces = CountOf(ev, IsBounce)
    BY <1>1 DEF RallyMetrics, CountOf
  <1>4. DistinctIds(ev) /\ InInterval(ev, in.start, in.end) /\ OrderedRecords(ev)
    <2>1. DistinctIds(ev)
      BY AdaptedEvents DEF ImportAccepts, DistinctIds
    <2>2. InInterval(ev, in.start, in.end)
      BY AdaptedEvents DEF ImportAccepts, InInterval
    <2>3. \A k \in 1..(Len(in.events) - 1) : k \in DOMAIN in.events /\ k + 1 \in DOMAIN in.events
      OBVIOUS
    <2>4. OrderedRecords(ev)
      BY <2>3, AdaptedEvents DEF ImportAccepts, OrderedRecords
    <2> QED
      BY <2>1, <2>2, <2>4
  <1>5. InInterval(tr, in.start, in.end) /\ OrderedRecords(tr) /\ in.start < in.end
    BY DEF ImportAccepts
  <1>10. \A k \in DOMAIN tr : LET p == tr[k]
                              IN  /\ p.frame >= 0 /\ p.time >= 0 /\ p.confidence = "ok"
                                  /\ p.source \in {"raw", "smoothed", "interpolated"}
    <2>1. \A k \in DOMAIN in.track : TrackReadable(in.track[k], in.stamps)
      BY DEF ImportAccepts
    <2>2. ASSUME NEW k \in DOMAIN in.track
          PROVE  tr[k].frame >= 0 /\ tr[k].confidence = "ok" /\ tr[k].time \in Int
                 /\ tr[k].source \in {"raw", "smoothed", "interpolated"}
      BY <2>1, AdaptedTrack DEF TrackReadable
    <2>3. ASSUME NEW k \in DOMAIN in.track PROVE tr[k].time >= 0
      <3>1. in.start <= tr[k].time /\ 0 <= in.start
        BY AdaptedTrack DEF ImportAccepts, InInterval
      <3>2. tr[k].time \in Int
        BY <2>2
      <3> HIDE DEF tr
      <3> QED
        BY <3>1, <3>2
    <2>4. DOMAIN tr = DOMAIN in.track
      BY AdaptedTrack
    <2> HIDE DEF tr
    <2> QED
      BY <2>2, <2>3, <2>4
  <1>11. \A k \in DOMAIN in.events :
            /\ ev[k].id # 0 /\ ev[k].frame >= 0 /\ ev[k].time >= 0 /\ ev[k].confidence = "ok"
            /\ ev[k].type \in {"contact", "bounce", "serve", "out", "unknown"}
            /\ ev[k].pixel \in {"none", "object"}
                  <=> in.events[k].pixel \notin {"extra", "text"}
            /\ ev[k].position \in {"none", "object"} <=> in.events[k].position # "other"
    <2>1. ASSUME NEW k \in DOMAIN in.events
          PROVE  EventReadable(in.events[k]) /\ in.events[k].position \in Positions
      <3>1. EventReadable(in.events[k])
        BY DEF ImportAccepts
      <3>2. in.events[k] \in RawEvent
        BY AdaptedEvents
      <3> QED
        BY <3>1, <3>2 DEF RawEvent
    <2> QED
      BY <2>1, AdaptedEvents DEF EventReadable, Positions
  <1>12. b.court.homography \in {"none", "numbers", "singular"}
            <=> in.court.homography \notin {"booleans", "texts"}
    BY <1>1, AdaptedCourt DEF ImportAccepts, CourtReadable, Homographies
  <1>13. DOMAIN b.events = DOMAIN in.events /\ 0 <= b.rally.start
    BY <1>1, <1>2, AdaptedEvents DEF ImportAccepts
  <1>14. b.court.provenance = in.court.provenance
    BY <1>1, AdaptedCourt DEF ImportAccepts
  <1> DEFINE clean == \A k \in DOMAIN in.events : /\ in.events[k].pixel \notin {"extra", "text"}
                                               /\ in.events[k].position # "other"
  <1>6. SchemasAccept(b) <=> /\ clean /\ in.court.provenance # "empty"
                             /\ in.court.homography \notin {"booleans", "texts"}
    <2> HIDE DEF b, ev, tr
    <2> QED
      BY <1>1, <1>10, <1>11, <1>12, <1>13, <1>14 DEF SchemasAccept
  <1>7. CourtSemantics(b.court) <=> in.court.corner # "edge"
    BY <1>1, AdaptedCourt DEF ImportAccepts
  <1>8. Len(ev) = Len(in.events) /\ Len(tr) = Len(in.track)
    BY AdaptedEvents, AdaptedTrack
  <1> HIDE DEF b, ev, tr
  <1>9. RallyAccepts(b) <=> SchemasAccept(b) /\ CourtSemantics(b.court) /\ in.index = 0
    BY <1>1, <1>2, <1>3, <1>4, <1>5, <1>8 DEF RallyAccepts, CountOf
  <1> QED
    BY <1>6, <1>7, <1>9 DEF OnlyValidatorRefuses, b

-----------------------------------------------------------------------------
(***************************************************************************)
(* The publication.  Every directory that was ever in place is sound, which*)
(* the temporary bundle is when it leaves its validation.  For the newest  *)
(* to survive, the one a process removes at the end must not be it: builds *)
(* are numbered, a bundle not yet in place has a number no other directory *)
(* has, so once a process has put its own in place, the one it had moved   *)
(* aside is never again the newest.                                        *)
(***************************************************************************)
Proc == [pc : {"idle", "build", "look", "aside", "replace", "clean", "check"},
         overwrite : BOOLEAN, temp : Bundle \cup {NoBundle}, backup : Bundle \cup {NoBundle}]

RallyTypeOK ==
    /\ sSource \in Nat /\ sBuilds \in Nat /\ sNewest \in Nat
    /\ sOutput \in Bundle \cup {NoBundle}
    /\ sBackups \subseteq Bundle
    /\ sProc \in [Importers -> Proc]
    /\ \A p \in Importers : ~PcIs(p, "idle") => sProc[p].temp \in Bundle

Sound(b) == b.session = b.manifest /\ ImportAccepts(b.input)

\* What was in place: the output, what lies aside, and what a process remembers of it.
Placed == (({sOutput} \cup {sProc[p].backup : p \in Importers}) \ {NoBundle}) \cup sBackups

AllSound ==
    /\ \A d \in Placed : Sound(d)
    /\ \A p \in Importers :
          /\ PcIs(p, "build") => ImportAccepts(sProc[p].temp.input)
          /\ sProc[p].pc \in {"look", "aside", "replace"} => Sound(sProc[p].temp)

Unpublished(p) == sProc[p].pc \in {"build", "look", "aside", "replace"}

\* No other directory has the build number of p's temporary bundle.
Fresh(p) ==
    Unpublished(p) =>
        /\ sProc[p].temp.build \in 1..sBuilds
        /\ sProc[p].temp.build # sNewest
        /\ \A d \in Placed : d.build # sProc[p].temp.build
        /\ \A q \in Importers \ {p} :
              Unpublished(q) => sProc[q].temp.build # sProc[p].temp.build

Numbered ==
    /\ sNewest <= sBuilds
    /\ \A d \in Placed : d.build <= sBuilds
    /\ \A p \in Importers : Fresh(p)

\* A process removes only what its own publication has superseded.
Superseded ==
    \A p \in Importers : PcIs(p, "clean") /\ sProc[p].backup # NoBundle =>
        sProc[p].backup.build # sNewest

RallyInv == RallyTypeOK /\ AllSound /\ Numbered /\ Superseded /\ NewestBundleKept

LEMMA RallyInit == S_Init => RallyInv
  <1> SUFFICES ASSUME S_Init PROVE RallyInv
    OBVIOUS
  <1>0. \A p \in Importers : sProc[p] = SIdle
    BY DEF S_Init
  <1>1. RallyTypeOK
    BY <1>0 DEF S_Init, RallyTypeOK, SIdle, PcIs, Proc
  <1>2. Placed = {}
    BY <1>0 DEF S_Init, Placed, SIdle
  <1>3. AllSound /\ Numbered /\ Superseded
    BY <1>0, <1>2 DEF S_Init, AllSound, Numbered, Fresh, Unpublished, Superseded, SIdle, PcIs
  <1> QED
    BY <1>1, <1>3 DEF S_Init, RallyInv, NewestBundleKept

\* A step that moves no directory and makes no temporary bundle, but where a
\* process goes on from one program point to another, or leaves.
LEMMA RallyMoves ==
    ASSUME RallyInv, UNCHANGED <<sOutput, sBackups, sBuilds, sNewest>>, sSource' \in Nat,
           NEW p \in Importers, sProc' \in [Importers -> Proc],
           \A q \in Importers \ {p} : sProc'[q] = sProc[q],
           sProc'[p].backup \in {NoBundle, sProc[p].backup},
           sProc'[p].pc # "idle" => sProc'[p].temp \in Bundle,
           sProc'[p].pc # "build" \/ sProc'[p] = sProc[p],
           sProc'[p].pc \in {"look", "aside", "replace"} =>
              /\ Sound(sProc'[p].temp) /\ Unpublished(p)
              /\ sProc'[p].temp.build = sProc[p].temp.build,
           sProc'[p].pc = "clean" => sProc'[p] = sProc[p]
    PROVE  RallyInv'
  <1>1. RallyTypeOK'
    BY DEF RallyInv, RallyTypeOK, PcIs
  <1>2. Placed' \subseteq Placed
    BY DEF Placed
  <1>3. AllSound'
    BY <1>2 DEF RallyInv, AllSound, PcIs
  <1>4. \A q \in Importers : Unpublished(q)' =>
           Unpublished(q) /\ sProc'[q].temp.build = sProc[q].temp.build
    BY DEF Unpublished
  <1>5. \A q \in Importers : Fresh(q)'
    BY <1>2, <1>4 DEF RallyInv, Numbered, Fresh
  <1>6. Numbered'
    BY <1>2, <1>5 DEF RallyInv, Numbered
  <1>7. Superseded' /\ NewestBundleKept'
    BY DEF RallyInv, Superseded, NewestBundleKept, PcIs
  <1> QED
    BY <1>1, <1>3, <1>6, <1>7 DEF RallyInv

LEMMA ImportKeeps ==
    ASSUME RallyInv, NEW p \in Importers, NEW in \in RallyInputs, NEW o \in BOOLEAN,
           ImportRally(p, in, o)
    PROVE  RallyInv'
  <1> DEFINE t == [build |-> sBuilds + 1, input |-> in, session |-> sSource, manifest |-> 0]
  <1>0. RallyTypeOK /\ sBuilds \in Nat
    BY DEF RallyInv, RallyTypeOK
  <1>1. t \in Bundle /\ t.build = sBuilds + 1 /\ t.input = in
    BY <1>0 DEF Bundle, RallyTypeOK
  <1>2. /\ sProc' = [sProc EXCEPT ![p] = [pc |-> "build", overwrite |-> o,
                                          backup |-> NoBundle, temp |-> t]]
        /\ ImportAccepts(in) /\ sBuilds' = sBuilds + 1
        /\ UNCHANGED <<sSource, sOutput, sBackups, sNewest>>
    BY DEF ImportRally
  <1> HIDE DEF t
  <1>3. /\ sProc'[p].pc = "build" /\ sProc'[p].temp = t /\ sProc'[p].backup = NoBundle
        /\ \A q \in Importers \ {p} : sProc'[q] = sProc[q]
    BY <1>0, <1>2 DEF RallyTypeOK
  <1>4. RallyTypeOK'
    <2>1. sProc' \in [Importers -> Proc]
      BY <1>0, <1>1, <1>2 DEF RallyTypeOK, Proc
    <2> QED
      BY <1>0, <1>1, <1>2, <1>3, <2>1 DEF RallyTypeOK, PcIs
  <1>5. Placed' \subseteq Placed
    BY <1>2, <1>3 DEF Placed
  <1>6. AllSound'
    BY <1>1, <1>2, <1>3, <1>5 DEF RallyInv, AllSound, PcIs
  <1>7. \A d \in Placed : d.build <= sBuilds /\ d.build \in Nat
    BY <1>0 DEF RallyInv, Numbered, Placed, RallyTypeOK, Bundle, Proc
  <1>8. ASSUME NEW q \in Importers, Unpublished(q)' PROVE Fresh(q)'
    <2>1. CASE q = p
      <3>1. sProc'[p].temp.build = sBuilds + 1
        BY <1>1, <1>3
      <3>2. \A r \in Importers \ {p} : Unpublished(r)' => sProc'[r].temp.build \in 1..sBuilds
        BY <1>3 DEF RallyInv, Numbered, Fresh, Unpublished
      <3>3. sNewest \in Nat /\ sNewest <= sBuilds
        BY <1>0 DEF RallyInv, Numbered, RallyTypeOK
      <3> QED
        BY <1>0, <1>2, <1>5, <1>7, <2>1, <3>1, <3>2, <3>3 DEF Fresh
    <2>2. CASE q # p
      <3>1. sProc'[q] = sProc[q] /\ Unpublished(q) /\ Fresh(q)
        BY <1>3, <1>8, <2>2 DEF RallyInv, Numbered, Unpublished
      <3>2. sProc[q].temp.build \in 1..sBuilds /\ sProc'[p].temp.build = sBuilds + 1
        BY <1>1, <1>3, <3>1 DEF Fresh
      <3>3. sProc'[q].temp.build \in 1..sBuilds'
        BY <1>0, <1>2, <3>1, <3>2
      <3>4. \A r \in Importers \ {q} : Unpublished(r)' =>
               sProc'[r].temp.build # sProc'[q].temp.build
        BY <1>0, <1>3, <3>1, <3>2 DEF Fresh, Unpublished
      <3> QED
        BY <1>2, <1>5, <3>1, <3>3, <3>4 DEF Fresh
    <2> QED
      BY <2>1, <2>2
  <1>9. Numbered'
    <2>1. sNewest' <= sBuilds'
      BY <1>0, <1>2 DEF RallyInv, Numbered, RallyTypeOK
    <2>2. \A d \in Placed' : d.build <= sBuilds'
      BY <1>0, <1>2, <1>5, <1>7
    <2> QED
      BY <1>8, <2>1, <2>2 DEF Numbered, Fresh
  <1>10. Superseded' /\ NewestBundleKept'
    BY <1>2, <1>3 DEF RallyInv, Superseded, NewestBundleKept, PcIs
  <1> QED
    BY <1>4, <1>6, <1>9, <1>10 DEF RallyInv

\* Steps that leave the directories alone.
LEMMA OtherSteps ==
    ASSUME RallyInv, NEW p \in Importers,
           \/ BuildTemp(p) \/ LookAtOutput(p) \/ CheckOutput(p) \/ ImporterDies(p)
           \/ MoveAside(p) /\ sOutput = NoBundle
    PROVE  RallyInv'
  <1>0. /\ sProc \in [Importers -> Proc] /\ sSource \in Nat
        /\ ~PcIs(p, "idle") => sProc[p].temp \in Bundle
    BY DEF RallyInv, RallyTypeOK
  <1>1. /\ UNCHANGED <<sOutput, sBackups, sBuilds, sNewest>> /\ sSource' = sSource
        /\ ~PcIs(p, "idle")
    BY DEF BuildTemp, LookAtOutput, CheckOutput, ImporterDies, MoveAside, PcIs
  <1>2. SIdle \in Proc /\ SIdle.pc = "idle" /\ SIdle.backup = NoBundle
    BY DEF SIdle, Proc
  <1>3. CASE Leave(p)
    <2>1. /\ sProc' \in [Importers -> Proc] /\ sProc'[p] = SIdle
          /\ \A q \in Importers \ {p} : sProc'[q] = sProc[q]
      BY <1>0, <1>2, <1>3 DEF Leave
    <2> QED
      BY <1>0, <1>1, <1>2, <2>1, RallyMoves
  <1>4. CASE ~Leave(p) /\ BuildTemp(p)
    <2> DEFINE t == [sProc[p].temp EXCEPT !.manifest = sSource]
               new == [sProc[p] EXCEPT !.pc = "look", !.temp.manifest = sSource]
    <2>1. TempAccepted(p) /\ PcIs(p, "build") /\ sProc' = [sProc EXCEPT ![p] = new]
      BY <1>0, <1>4 DEF BuildTemp
    <2>2. sProc[p].temp \in Bundle /\ sProc[p] \in Proc
      BY <1>0, <1>1
    <2>3. /\ t \in Bundle /\ t.build = sProc[p].temp.build /\ t.input = sProc[p].temp.input
          /\ t.session = sProc[p].temp.session /\ t.manifest = sSource
      BY <1>0, <2>2 DEF Bundle
    <2>4. /\ new.pc = "look" /\ new.temp = t /\ new.backup = sProc[p].backup
          /\ new.overwrite = sProc[p].overwrite
          /\ new = [pc |-> "look", overwrite |-> sProc[p].overwrite, temp |-> t,
                    backup |-> sProc[p].backup]
      <3> DEFINE old == sProc[p]
      <3>1. old = [pc |-> old.pc, overwrite |-> old.overwrite, temp |-> old.temp,
                   backup |-> old.backup]
        BY <2>2 DEF Proc
      <3>2. new = [old EXCEPT !.pc = "look", !.temp = t]
        BY <3>1
      <3> HIDE DEF t, old, new
      <3>3. new = [pc |-> "look", overwrite |-> old.overwrite, temp |-> t,
                   backup |-> old.backup]
        BY <3>1, <3>2
      <3> QED
        BY <3>3 DEF old
    <2>5. Sound(t)
      BY <2>1, <2>3 DEF Sound, TempAccepted, RallyInv, AllSound
    <2>6. Unpublished(p)
      BY <2>1 DEF Unpublished, PcIs
    <2> HIDE DEF t, new
    <2>7. new \in Proc
      BY <2>2, <2>3, <2>4 DEF Proc
    <2>8. /\ sProc' \in [Importers -> Proc] /\ sProc'[p] = new
          /\ \A q \in Importers \ {p} : sProc'[q] = sProc[q]
      BY <1>0, <2>1, <2>7
    <2> QED
      BY <1>0, <1>1, <2>3, <2>4, <2>5, <2>6, <2>8, RallyMoves
  <1>5. CASE ~Leave(p) /\ LookAtOutput(p)
    <2>1. PICK pc \in {"replace", "aside"} : sProc' = [sProc EXCEPT ![p].pc = pc]
      BY <1>5 DEF LookAtOutput, GoOn
    <2>2. /\ sProc' \in [Importers -> Proc] /\ sProc'[p].pc = pc
          /\ sProc'[p].temp = sProc[p].temp /\ sProc'[p].backup = sProc[p].backup
          /\ \A q \in Importers \ {p} : sProc'[q] = sProc[q]
      BY <1>0, <2>1 DEF Proc
    <2>3. Unpublished(p) /\ Sound(sProc[p].temp)
      BY <1>5 DEF LookAtOutput, PcIs, Unpublished, RallyInv, AllSound
    <2> QED
      BY <1>0, <1>1, <2>2, <2>3, RallyMoves
  <1> QED
    BY <1>3, <1>4, <1>5 DEF CheckOutput, ImporterDies, MoveAside

\* The directory moved aside stays on disk, and the process remembers it.
LEMMA MoveKeeps ==
    ASSUME RallyInv, NEW p \in Importers, MoveAside(p), sOutput # NoBundle
    PROVE  RallyInv'
  <1>0. RallyTypeOK /\ sOutput \in Bundle
    BY DEF RallyInv, RallyTypeOK
  <1>1. /\ PcIs(p, "aside") /\ sBackups' = sBackups \cup {sOutput} /\ sOutput' = NoBundle
        /\ UNCHANGED <<sSource, sBuilds, sNewest>>
        /\ sProc' = [sProc EXCEPT ![p].pc = "replace", ![p].backup = sOutput]
    BY DEF MoveAside
  <1>2. /\ sProc' \in [Importers -> Proc] /\ sProc'[p].pc = "replace"
        /\ sProc'[p].temp = sProc[p].temp /\ sProc'[p].backup = sOutput
        /\ \A q \in Importers \ {p} : sProc'[q] = sProc[q]
    BY <1>0, <1>1 DEF RallyTypeOK, Proc
  <1>3. RallyTypeOK'
    BY <1>0, <1>1, <1>2 DEF RallyTypeOK, PcIs
  <1>4. Placed' \subseteq Placed
    BY <1>0, <1>1, <1>2 DEF Placed
  <1>5. AllSound'
    BY <1>1, <1>2, <1>4 DEF RallyInv, AllSound, PcIs
  <1>6. \A q \in Importers : Unpublished(q)' =>
           Unpublished(q) /\ sProc'[q].temp.build = sProc[q].temp.build
    BY <1>1, <1>2 DEF Unpublished, PcIs
  <1>7. \A q \in Importers : Fresh(q)'
    BY <1>1, <1>4, <1>6 DEF RallyInv, Numbered, Fresh
  <1>8. Numbered'
    BY <1>1, <1>4, <1>7 DEF RallyInv, Numbered
  <1>9. Superseded'
    BY <1>1, <1>2 DEF RallyInv, Superseded, PcIs
  <1>10. NewestBundleKept'
    BY <1>0, <1>1, RallyAssumption DEF RallyInv, NewestBundleKept
  <1> QED
    BY <1>3, <1>5, <1>8, <1>9, <1>10 DEF RallyInv

\* The new directory supersedes every other: none has its number.
LEMMA ReplaceKeeps ==
    ASSUME RallyInv, NEW p \in Importers, ReplaceOutput(p)
    PROVE  RallyInv'
  <1> DEFINE t == sProc[p].temp
  <1>0. RallyTypeOK /\ sBuilds \in Nat
    BY DEF RallyInv, RallyTypeOK
  <1>1. /\ PcIs(p, "replace") /\ sOutput' = t /\ sNewest' = t.build
        /\ UNCHANGED <<sSource, sBackups, sBuilds>>
        /\ sProc' = [sProc EXCEPT ![p].pc = "clean"]
    BY DEF ReplaceOutput, GoOn
  <1>2. t \in Bundle /\ t.build \in Nat
    BY <1>0, <1>1 DEF RallyTypeOK, PcIs, Bundle
  <1>3. /\ sProc' \in [Importers -> Proc] /\ sProc'[p].pc = "clean"
        /\ sProc'[p].temp = sProc[p].temp /\ sProc'[p].backup = sProc[p].backup
        /\ \A q \in Importers \ {p} : sProc'[q] = sProc[q]
    BY <1>0, <1>1 DEF RallyTypeOK, Proc
  <1>4. Sound(t) /\ Unpublished(p)
    BY <1>1 DEF RallyInv, AllSound, PcIs, Unpublished
  <1>5. /\ t.build \in 1..sBuilds
        /\ \A d \in Placed : d.build # t.build
        /\ \A q \in Importers \ {p} : Unpublished(q) => sProc[q].temp.build # t.build
    BY <1>4 DEF RallyInv, Numbered, Fresh
  <1> HIDE DEF t
  <1>6. RallyTypeOK'
    BY <1>0, <1>1, <1>2, <1>3 DEF RallyTypeOK, PcIs
  <1>7. Placed' \subseteq Placed \cup {t}
    BY <1>1, <1>3 DEF Placed
  <1>8. AllSound'
    BY <1>1, <1>3, <1>4, <1>7 DEF RallyInv, AllSound, PcIs
  <1>9. ASSUME NEW q \in Importers, Unpublished(q)' PROVE Fresh(q)'
    <2>1. q # p /\ sProc'[q] = sProc[q] /\ Unpublished(q) /\ Fresh(q)
      BY <1>3, <1>9 DEF Unpublished, RallyInv, Numbered
    <2>2. sProc[q].temp.build # t.build
      BY <1>5, <2>1
    <2>3. \A r \in Importers : Unpublished(r)' => Unpublished(r) /\ sProc'[r] = sProc[r]
      BY <1>3 DEF Unpublished
    <2> QED
      BY <1>1, <1>7, <2>1, <2>2, <2>3 DEF Fresh
  <1>10. Numbered'
    <2>1. \A d \in Placed' : d.build <= sBuilds'
      BY <1>0, <1>1, <1>5, <1>7 DEF RallyInv, Numbered
    <2>2. sNewest' <= sBuilds'
      BY <1>0, <1>1, <1>5
    <2> QED
      BY <1>9, <2>1, <2>2 DEF Numbered, Fresh
  <1>11. Superseded'
    <2>1. \A q \in Importers : sProc[q].backup # NoBundle => sProc[q].backup \in Placed
      BY DEF Placed
    <2> QED
      BY <1>1, <1>3, <1>5, <2>1 DEF Superseded
  <1>12. NewestBundleKept'
    BY <1>1, <1>2, RallyAssumption DEF NewestBundleKept
  <1> QED
    BY <1>6, <1>8, <1>10, <1>11, <1>12 DEF RallyInv

\* Going back, or removed: the rest stays.
LEMMA BackupKeeps ==
    ASSUME RallyInv, NEW p \in Importers, ReplaceFails(p) \/ RemoveBackup(p)
    PROVE  RallyInv'
  <1>0. RallyTypeOK /\ sBackups \subseteq Bundle
    BY DEF RallyInv, RallyTypeOK
  <1>1. /\ UNCHANGED <<sSource, sBuilds, sNewest>>
        /\ sOutput' \in {sOutput, sProc[p].backup} /\ sBackups' \subseteq sBackups
    BY DEF ReplaceFails, RemoveBackup
  <1>2. sProc' \in [Importers -> Proc] /\ (~PcIs(p, "idle"))
        /\ sProc'[p].pc \in {"idle", "check"} /\ sProc'[p].backup \in {NoBundle, sProc[p].backup}
        /\ (sProc'[p].pc = "check" => sProc'[p].temp = sProc[p].temp)
        /\ \A q \in Importers \ {p} : sProc'[q] = sProc[q]
    <2>1. CASE Leave(p) /\ PcIs(p, "replace")
      <3>1. SIdle \in Proc /\ SIdle.pc = "idle" /\ SIdle.backup = NoBundle
        BY DEF SIdle, Proc
      <3> QED
        BY <1>0, <2>1, <3>1 DEF Leave, RallyTypeOK, PcIs
    <2>2. CASE PcIs(p, "clean") /\ GoOn(p, "check")
      BY <1>0, <2>2 DEF GoOn, RallyTypeOK, PcIs, Proc
    <2> QED
      BY <2>1, <2>2 DEF ReplaceFails, RemoveBackup
  <1>3. RallyTypeOK'
    BY <1>0, <1>1, <1>2 DEF RallyTypeOK, PcIs, Proc
  <1>4. Placed' \subseteq Placed
    BY <1>1, <1>2 DEF Placed
  <1>5. AllSound'
    BY <1>1, <1>2, <1>4 DEF RallyInv, AllSound, PcIs
  <1>6. \A q \in Importers : Unpublished(q)' => Unpublished(q) /\ sProc'[q] = sProc[q]
    BY <1>2 DEF Unpublished
  <1>7. \A q \in Importers : Fresh(q)'
    BY <1>1, <1>4, <1>6 DEF RallyInv, Numbered, Fresh
  <1>8. Numbered'
    BY <1>1, <1>4, <1>7 DEF RallyInv, Numbered
  <1>9. Superseded'
    BY <1>1, <1>2 DEF RallyInv, Superseded, PcIs
  <1>10. NewestBundleKept'
    <2>1. CASE ReplaceFails(p)
      BY <2>1, <1>0, RallyAssumption DEF RallyInv, NewestBundleKept, ReplaceFails
    <2>2. CASE RemoveBackup(p)
      <3>1. sProc[p].backup = NoBundle \/ sProc[p].backup.build # sNewest
        BY <2>2 DEF RallyInv, Superseded, RemoveBackup
      <3> QED
        BY <2>2, <3>1, <1>0, RallyAssumption DEF RallyInv, NewestBundleKept, RemoveBackup
    <2> QED
      BY <2>1, <2>2
  <1> QED
    BY <1>3, <1>5, <1>8, <1>9, <1>10 DEF RallyInv

LEMMA RallyNext == RallyInv /\ [S_Next]_sVars => RallyInv'
  <1> SUFFICES ASSUME RallyInv, [S_Next]_sVars PROVE RallyInv'
    OBVIOUS
  <1>1. ASSUME NEW p \in Importers, NEW in \in RallyInputs, NEW overwrite \in BOOLEAN,
               ImportRally(p, in, overwrite)
        PROVE  RallyInv'
    BY <1>1, ImportKeeps
  <1>2. ASSUME NEW p \in Importers,
               BuildTemp(p) \/ LookAtOutput(p) \/ CheckOutput(p) \/ ImporterDies(p)
        PROVE  RallyInv'
    BY <1>2, OtherSteps
  <1>3. ASSUME NEW p \in Importers, MoveAside(p) PROVE RallyInv'
    BY <1>3, OtherSteps, MoveKeeps
  <1>4. ASSUME NEW p \in Importers, ReplaceOutput(p) PROVE RallyInv'
    BY <1>4, ReplaceKeeps
  <1>5. ASSUME NEW p \in Importers, ReplaceFails(p) \/ RemoveBackup(p) PROVE RallyInv'
    BY <1>5, BackupKeeps
  <1>6. ASSUME UNCHANGED <<sOutput, sBackups, sProc, sBuilds, sNewest>>, sSource' \in Nat
        PROVE  RallyInv'
    <2>1. Placed' = Placed
      BY <1>6 DEF Placed
    <2> QED
      BY <1>6, <2>1 DEF RallyInv, RallyTypeOK, AllSound, Numbered, Fresh, Unpublished,
                        Superseded, NewestBundleKept, PcIs
  <1>7. CASE ReplaceVideo \/ UNCHANGED sVars
    BY <1>6, <1>7 DEF ReplaceVideo, sVars, RallyInv, RallyTypeOK
  <1> QED
    BY <1>1, <1>2, <1>3, <1>4, <1>5, <1>7 DEF S_Next

\* An Analysis Bundle in place names one source video in session.json and in the
\* manifest, and validate_single_rally_bundle can refuse it only for what the
\* import does not look at, whatever the files, however many imports of the
\* session run at once, and wherever they die.
THEOREM BundlesSound == S_Spec => []PublishedBundleSound
  <1>1. RallyInv => PublishedBundleSound
    <2> SUFFICES ASSUME RallyInv, sOutput # NoBundle PROVE PublishedBundleSound
      BY DEF PublishedBundleSound
    <2>1. Sound(sOutput) /\ sOutput \in Bundle
      BY DEF RallyInv, RallyTypeOK, AllSound, Placed
    <2>2. sOutput.input \in RallyInputs
      BY <2>1 DEF Bundle
    <2> QED
      BY <2>1, <2>2, ChecksAgree, RallyAssumption DEF Sound, PublishedBundleSound
  <1> QED
    BY <1>1, RallyInit, RallyNext, PTL DEF S_Spec

\* The last bundle any import moved into place is on disk, at the output or under
\* a backup's name.
THEOREM NewestOnDisk == S_Spec => []NewestBundleKept
  <1>1. RallyInv => NewestBundleKept
    BY DEF RallyInv
  <1> QED
    BY <1>1, RallyInit, RallyNext, PTL DEF S_Spec

-----------------------------------------------------------------------------
(* Order                                                                   *)

\* A set of natural numbers has a least element: the intervals from zero to its
\* elements are finite sets, and of those some one includes no other.
LEMMA LeastNumber ==
    ASSUME NEW T \in SUBSET Nat, T # {}
    PROVE  \E n \in T : \A m \in T : n <= m
  <1> DEFINE F == {0..n : n \in T}
             R == StrictSubsetOrdering(Nat)
  <1>1. F # {} /\ F \subseteq FiniteSubsetsOf(Nat)
    <2>1. \A n \in T : IsFiniteSet(0..n)
      BY FS_Interval
    <2>2. \A n \in T : 0..n \in SUBSET Nat
      OBVIOUS
    <2> QED
      BY <2>1, <2>2 DEF FiniteSubsetsOf
  <1>2. \E x \in F : \A y \in F : ~(<<y, x>> \in R)
    <2>1. IsWellFoundedOn(R, FiniteSubsetsOf(Nat))
      BY FS_StrictSubsetOrderingWellFounded
    <2> HIDE DEF F, R
    <2> QED
      BY <1>1, <2>1, WFMin
  <1>3. PICK n \in T : \A m \in T : ~(<<0..m, 0..n>> \in R)
    BY <1>2
  <1>4. \A m \in T : m < n => 0..m \subseteq 0..n /\ 0..m # 0..n
    OBVIOUS
  <1>5. \A m \in T : m < n => <<0..m, 0..n>> \in R
    BY <1>4 DEF StrictSubsetOrdering
  <1> HIDE DEF F, R
  <1>6. \A m \in T : ~(m < n)
    BY <1>3, <1>5
  <1>7. \A m \in T : n <= m
    BY <1>6
  <1> QED
    BY <1>7

\* What is compared neighbour by neighbour is in order altogether.
LEMMA OrderedThroughout ==
    ASSUME NEW s \in Seq(Int), NonDecreasing(s),
           NEW i \in 1..Len(s), NEW j \in 1..Len(s), i <= j
    PROVE  s[i] <= s[j]
  <1> DEFINE T == {n \in Nat : n \in i..Len(s) /\ s[n] < s[i]}
  <1>1. \A n \in 1..Len(s) : s[n] \in Int
    OBVIOUS
  <1>2. SUFFICES ASSUME T # {} PROVE FALSE
    BY <1>1
  <1>3. PICK n \in T : \A m \in T : n <= m
    BY <1>2, LeastNumber
  <1>4. n \in i..Len(s) /\ s[n] < s[i] /\ n # i
    BY <1>1
  <1>5. n - 1 \in i..Len(s) /\ n - 1 \in Nat /\ n - 1 \in 1..(Len(s) - 1)
    BY <1>4
  <1>6. s[n - 1] <= s[n]
    BY <1>5 DEF NonDecreasing
  <1>7. n - 1 \in T
    BY <1>1, <1>4, <1>5, <1>6
  <1> QED
    BY <1>3, <1>7

-----------------------------------------------------------------------------
(* The gate and the import                                                 *)

\* Every record is one the import can read by itself.
Readable(a) ==
    /\ \A k \in DOMAIN a.events : EventReadable(a.events[k])
    /\ \A k \in DOMAIN a.track : a.track[k].confidence = "ok"

\* Both orders of the keys give the same event.
OneReading(a) ==
    \A k \in DOMAIN a.events :
       a.events[k].stage = [id |-> a.events[k].id, frame |-> a.events[k].frame,
                            time |-> a.events[k].time]

\* The track carries the timestamps and the events lie within it.
Timed(a) ==
    /\ Times(a.track) = Times(a.stamps)
    /\ InInterval(a.events, a.track[1].time, a.track[Len(a.track)].time)
    /\ NonDecreasing(Times(a.events)) /\ a.events # <<>>

\* What the audits of the timestamps and of the track say together: row k is of
\* frame k - 1, and the adapter finds its time.
LEMMA AuditedTrack ==
    ASSUME NEW a \in AssetSets, TimestampsPass(a), TrackPasses(a),
           Times(a.track) = Times(a.stamps),
           \A k \in DOMAIN a.track : a.track[k].confidence = "ok"
    PROVE  LET in == CandidateInput(a, a)
               tr == ImportedTrack(in)
           IN  /\ in.start = a.track[1].time /\ in.end = a.track[Len(a.track)].time
               /\ in.events = a.events /\ in.track = a.track /\ in.court = a.court
               /\ in.index = 0 /\ in.start \in Int /\ 0 <= in.start /\ in.start < in.end
               /\ \A f \in DOMAIN in.stamps : in.stamps[f] \in Int
               /\ DOMAIN tr = DOMAIN a.track /\ Len(tr) = Len(a.track)
               /\ \A k \in DOMAIN a.track :
                     /\ TrackReadable(a.track[k], in.stamps)
                     /\ tr[k].frame = k - 1 /\ tr[k].time = a.track[k].time
                     /\ a.track[k].time \in Int
               /\ InInterval(tr, in.start, in.end)
               /\ OrderedRecords(tr)
  <1> DEFINE in == CandidateInput(a, a)
             tr == ImportedTrack(in)
             S == a.stamps
             R == a.track
             At(f) == CHOOSE k \in DOMAIN S : S[k].frame = f
  <1>1. S \in Seq(Stamp) /\ R \in Seq(RawRow)
    BY FixtureAssumption
  <1>2. DOMAIN R = DOMAIN S /\ \A k \in DOMAIN R : R[k].frame = S[k].frame /\ R[k].time = S[k].time
    <2>1. Ids(R) = Ids(S) /\ Times(R) = Times(S)
      BY DEF TrackPasses
    <2> QED
      BY <2>1 DEF Ids, Times
  <1>3. \A k \in DOMAIN S : S[k].frame = k - 1 /\ S[k].time \in Int /\ k \in Int
    <2>1. \A k \in DOMAIN S : S[k] \in Stamp /\ k \in Int
      BY <1>1
    <2>2. \A k \in DOMAIN S : S[k].time \in Int
      BY <2>1 DEF Stamp
    <2> QED
      BY <2>1, <2>2 DEF TimestampsPass
  <1>13. \A k \in DOMAIN S : S[k].time >= 0
    BY DEF TimestampsPass
  <1>14. \A k \in DOMAIN R : R[k].confidence = "ok"
    OBVIOUS
  <1>4. /\ in.start = R[1].time /\ in.end = R[Len(R)].time /\ in.events = a.events
        /\ in.track = R /\ in.court = a.court /\ in.index = 0
        /\ in.stamps = [f \in {S[k].frame : k \in DOMAIN S} |-> S[At(f)].time]
    BY DEF CandidateInput
  <1> HIDE DEF in
  <1>5. ASSUME NEW k \in DOMAIN R
        PROVE  R[k].frame \in DOMAIN in.stamps /\ in.stamps[R[k].frame] = R[k].time
    <2>1. k \in DOMAIN S /\ S[k].frame = k - 1 /\ R[k].frame = k - 1
      BY <1>2, <1>3
    <2>2. \A j \in DOMAIN S : S[j].frame = k - 1 => j = k
      BY <1>3, <2>1
    <2>3. At(k - 1) = k
      BY <2>1, <2>2
    <2> HIDE DEF At, S
    <2>4. k - 1 \in {S[j].frame : j \in DOMAIN S}
      BY <2>1
    <2>5. in.stamps[k - 1] = S[k].time
      BY <1>4, <2>3, <2>4
    <2> QED
      BY <1>2, <1>4, <2>1, <2>4, <2>5
  <1>6. /\ tr = [k \in DOMAIN R |-> TrackPoint(R[k], in.stamps)]
        /\ DOMAIN tr = DOMAIN R /\ Len(tr) = Len(R)
    BY <1>1, <1>4, AdaptedTrack DEF ImportedTrack
  <1>7. ASSUME NEW k \in DOMAIN R
        PROVE  /\ TrackReadable(R[k], in.stamps)
               /\ tr[k].frame = k - 1 /\ tr[k].time = R[k].time /\ R[k].time \in Int
    <2>1. R[k].frame = k - 1 /\ k - 1 >= 0
      BY <1>1, <1>2, <1>3
    <2>2. R[k].frame >= 0 /\ R[k].time \in Int /\ R[k].confidence = "ok"
          /\ R[k].frame \in DOMAIN in.stamps /\ in.stamps[R[k].frame] = R[k].time
      BY <2>1, <1>2, <1>3, <1>5, <1>14
    <2>3. tr[k] = TrackPoint(R[k], in.stamps)
      BY <1>6
    <2> HIDE DEF R, S, tr
    <2> QED
      BY <2>1, <2>2, <2>3 DEF TrackReadable, TrackPoint, TrackTime
  <1> HIDE DEF tr
  <1>8. /\ Len(R) \in Nat /\ DOMAIN R = 1..Len(R)
        /\ DOMAIN S = 1..Len(S) /\ Len(S) \in Nat /\ Len(S) = Len(R) /\ Len(R) > 1
    <2>1. Len(S) > 1
      BY DEF TimestampsPass
    <2> QED
      BY <1>1, <1>2, <2>1
  <1>9. NonDecreasing(Times(S)) /\ Times(S) \in Seq(Int) /\ Len(Times(S)) = Len(S)
    <2>1. NonDecreasing(Times(S))
      BY DEF TimestampsPass
    <2>2. DOMAIN Times(S) = DOMAIN S /\ \A k \in DOMAIN S : Times(S)[k] \in Int
      BY <1>3 DEF Times
    <2>3. Times(S) = [k \in DOMAIN S |-> Times(S)[k]]
      BY DEF Times
    <2> HIDE DEF S
    <2> QED
      BY <1>1, <2>1, <2>2, <2>3, MappedLength
  <1>10. ASSUME NEW i \in DOMAIN R, NEW j \in DOMAIN R, i <= j
         PROVE  tr[i].time <= tr[j].time
    <2>1. Times(S)[i] <= Times(S)[j]
      BY <1>8, <1>9, <1>10, OrderedThroughout
    <2> QED
      BY <1>2, <1>7, <2>1 DEF Times
  <1>11. InInterval(tr, in.start, in.end)
    <2>1. 1 \in DOMAIN R /\ Len(R) \in DOMAIN R
      BY <1>8
    <2>2. \A k \in DOMAIN R : 1 <= k /\ k <= Len(R)
      BY <1>8
    <2>3. in.start = tr[1].time /\ in.end = tr[Len(R)].time
      BY <1>4, <1>7, <2>1
    <2> QED
      BY <1>6, <1>10, <2>1, <2>2, <2>3 DEF InInterval
  <1>12. OrderedRecords(tr)
    <2>1. \A k \in 1..(Len(R) - 1) : k \in DOMAIN R /\ k + 1 \in DOMAIN R /\ k <= k + 1
      BY <1>8
    <2>2. \A k \in 1..(Len(R) - 1) :
             tr[k].frame = k - 1 /\ tr[k + 1].frame = k + 1 - 1 /\ k \in Int
      BY <1>7, <2>1
    <2>3. \A k \in 1..(Len(R) - 1) : tr[k].frame <= tr[k + 1].frame
      BY <2>2
    <2>4. \A k \in 1..(Len(R) - 1) : tr[k].time <= tr[k + 1].time
      BY <1>10, <2>1
    <2> QED
      BY <1>6, <2>3, <2>4 DEF OrderedRecords
  <1>15. \A f \in DOMAIN in.stamps : in.stamps[f] \in Int
    <2>1. ASSUME NEW f \in DOMAIN in.stamps PROVE in.stamps[f] \in Int
      <3>1. PICK k \in DOMAIN S : f = S[k].frame
        BY <1>4, <2>1
      <3>2. At(f) \in DOMAIN S
        BY <3>1
      <3>3. in.stamps[f] = S[At(f)].time
        BY <1>4, <2>1
      <3> QED
        BY <1>3, <3>2, <3>3
    <2> QED
      BY <2>1
  <1>16. /\ 1 \in DOMAIN R /\ Len(R) \in DOMAIN R /\ in.start = tr[1].time
         /\ in.end = tr[Len(R)].time /\ Len(R) > 1
    <2>1. 1 \in DOMAIN R /\ Len(R) \in DOMAIN R
      BY <1>8
    <2> QED
      BY <1>4, <1>7, <1>8, <2>1
  <1>17. in.start \in Int /\ 0 <= in.start
    BY <1>2, <1>3, <1>4, <1>13, <1>16
  <1>18. in.start < in.end
    <2>1. PICK k \in 1..(Len(R) - 1) : S[k].time # S[k + 1].time
      <3> DEFINE empty == {k \in 1..(Len(S) - 1) : S[k].time = S[k + 1].time}
      <3>1. 2 * Cardinality(empty) <= Len(S) - 1
        BY DEF TimestampsPass
      <3>2. SUFFICES ASSUME empty = 1..(Len(S) - 1) PROVE FALSE
        BY <1>8
      <3>3. PICK n \in Nat : n = Len(S) - 1 /\ n >= 1
        <4> DEFINE m == Len(S)
        <4>1. m \in Nat /\ m > 1
          BY <1>8
        <4> HIDE DEF m
        <4>2. m - 1 \in Nat /\ m - 1 >= 1
          BY <4>1
        <4> QED
          BY <4>2 DEF m
      <3>4. Cardinality(1..n) = n
        <4>1. 1 \in Int /\ n \in Int /\ ~(1 > n) /\ (n - 1) + 1 = n
          BY <3>3
        <4> QED
          BY <4>1, FS_Interval
      <3> HIDE DEF empty
      <3> QED
        BY <3>1, <3>2, <3>3, <3>4
    <2>2. /\ k \in DOMAIN R /\ k + 1 \in DOMAIN R /\ 1 <= k /\ k <= k + 1 /\ k + 1 <= Len(R)
      BY <1>8, <2>1
    <2>3. tr[1].time <= tr[k].time /\ tr[k].time <= tr[k + 1].time
          /\ tr[k + 1].time <= tr[Len(R)].time
      BY <1>8, <1>10, <1>16, <2>2
    <2>4. tr[k].time # tr[k + 1].time
      BY <1>2, <1>7, <2>1, <2>2
    <2>5. tr[1].time \in Int /\ tr[k].time \in Int /\ tr[k + 1].time \in Int
          /\ tr[Len(R)].time \in Int
      BY <1>7, <1>16, <2>2
    <2> QED
      BY <1>16, <2>3, <2>4, <2>5
  <1> QED
    BY <1>4, <1>6, <1>7, <1>11, <1>12, <1>15, <1>17, <1>18 DEF in, tr

\* An event of audited files has a row of its frame: no other row stands in for it.
LEMMA EventsHaveRows ==
    ASSUME NEW a, EventsPass(a), NEW k \in DOMAIN a.events
    PROVE  EventQuality(a, a.events[k]) \in
              {"detected_exact", "interpolated_exact", "missing_exact"}
  <1> DEFINE rows == {j \in DOMAIN a.track : a.track[j].frame = a.events[k].stage.frame}
  <1>1. rows # {}
    BY DEF EventsPass
  <1>2. \A row : (CASE row.source = "detected" -> "detected_exact"
                    [] row.source = "interpolated" -> "interpolated_exact"
                    [] OTHER -> "missing_exact")
                 \in {"detected_exact", "interpolated_exact", "missing_exact"}
    OBVIOUS
  <1> QED
    BY <1>1, <1>2 DEF EventQuality

\* Files that pass the gate, of readable records with one reading, with the
\* timestamps in the track, are imported, and the single-rally validation accepts
\* the bundle unless the import handed on what it does not check.
LEMMA GatedBuilds ==
    ASSUME NEW a \in AssetSets, AlignmentPassed(a), Readable(a), OneReading(a), Timed(a)
    PROVE  /\ ImportAccepts(CandidateInput(a, a))
           /\ ~OnlyValidatorRefuses(CandidateInput(a, a)) => CandidateBuilds(a, a)
  <1> DEFINE in == CandidateInput(a, a)
             tr == ImportedTrack(in)
  <1>0. /\ a.events \in Seq(RawEvent) /\ a.track \in Seq(RawRow)
        /\ TimestampsPass(a) /\ TrackPasses(a) /\ EventsPass(a) /\ CalibrationPasses(a)
    BY FixtureAssumption DEF AlignmentPassed
  <1>7. /\ a.court.homography \in Homographies
        /\ \A k \in DOMAIN a.track : a.track[k].confidence = "ok"
        /\ \A k \in DOMAIN a.events : EventReadable(a.events[k])
        /\ Times(a.track) = Times(a.stamps)
    BY FixtureAssumption DEF Readable, Timed
  <1>8. \A k \in DOMAIN a.events : /\ a.events[k].stage.id = a.events[k].id
                                 /\ a.events[k].stage.frame = a.events[k].frame
    <2>1. ASSUME NEW k \in DOMAIN a.events
          PROVE  LET s == a.events[k].stage
                 IN  s.id = a.events[k].id /\ s.frame = a.events[k].frame
      <3>1. PICK i, f, t : a.events[k].stage = [id |-> i, frame |-> f, time |-> t]
                           /\ i = a.events[k].id /\ f = a.events[k].frame
        BY DEF OneReading
      <3> QED
        BY <3>1
    <2> QED
      BY <2>1
  <1>1. /\ in.start = a.track[1].time /\ in.end = a.track[Len(a.track)].time
        /\ in.events = a.events /\ in.track = a.track /\ in.court = a.court
        /\ \A k \in DOMAIN a.track : TrackReadable(a.track[k], in.stamps)
        /\ InInterval(tr, in.start, in.end) /\ OrderedRecords(tr)
        /\ in.start \in Int /\ 0 <= in.start /\ in.start < in.end
        /\ \A f \in DOMAIN in.stamps : in.stamps[f] \in Int
    BY <1>0, <1>7, AuditedTrack
  <1> HIDE DEF in
  <1>2. OrderedRecords(a.events)
    <2>1. NonDecreasing(Times(a.events)) /\ NonDecreasing(Ids(a.events))
      <3>1. Ids(StageEvents(a)) = Ids(a.events)
        BY <1>8 DEF StageEvents, Ids
      <3> QED
        BY <1>0, <3>1 DEF Timed, EventsPass
    <2>2. \A k \in 1..(Len(a.events) - 1) : k \in DOMAIN a.events /\ k + 1 \in DOMAIN a.events
      BY <1>0
    <2>3. Len(Times(a.events)) = Len(a.events) /\ Len(Ids(a.events)) = Len(a.events)
      <3>1. Len(a.events) \in Nat /\ DOMAIN a.events = 1..Len(a.events)
        BY <1>0
      <3>2. /\ DOMAIN Times(a.events) = DOMAIN a.events /\ DOMAIN Ids(a.events) = DOMAIN a.events
            /\ Times(a.events) = [k \in 1..Len(a.events) |-> a.events[k].time]
            /\ Ids(a.events) = [k \in 1..Len(a.events) |-> a.events[k].frame]
        BY <3>1 DEF Times, Ids
      <3>3. \A k \in DOMAIN a.events : a.events[k].time \in Int /\ a.events[k].frame \in Int
        <4>1. \A k \in DOMAIN a.events : a.events[k] \in RawEvent
          BY <1>0
        <4> QED
          BY <4>1 DEF RawEvent
      <3>4. Times(a.events) \in [1..Len(a.events) -> Int] /\ Ids(a.events) \in [1..Len(a.events) -> Int]
        BY <3>1, <3>2, <3>3
      <3>5. Times(a.events) \in Seq(Int) /\ Ids(a.events) \in Seq(Int)
        BY <3>1, <3>4, SeqDef
      <3> QED
        BY <3>1, <3>2, <3>5
    <2> QED
      BY <2>1, <2>2, <2>3 DEF OrderedRecords, NonDecreasing, Times, Ids
  <1>3. CourtReadable(a.court)
    BY <1>0 DEF CalibrationPasses, CourtReadable
  <1>4. ImportAccepts(in)
    <2>1. a.track # <<>>
      <3>1. Len(a.stamps) > 1 /\ DOMAIN a.track = DOMAIN a.stamps /\ a.stamps \in Seq(Stamp)
        <4>1. DOMAIN Ids(a.track) = DOMAIN a.track /\ DOMAIN Ids(a.stamps) = DOMAIN a.stamps
          BY DEF Ids
        <4> QED
          BY <1>0, <4>1, FixtureAssumption DEF TimestampsPass, TrackPasses
      <3> QED
        BY <1>0, <3>1
    <2>2. DistinctIds(a.events)
      BY <1>0, <1>8 DEF EventsPass, StageEvents, DistinctIds
    <2> QED
      BY <1>0, <1>1, <1>2, <1>3, <1>7, <2>1, <2>2 DEF ImportAccepts, Timed
  <1>5. Packable(in)
    BY <1>1 DEF Packable, Timed
  <1>6. ~OnlyValidatorRefuses(in) => RallyAccepts(RallyFiles(in))
    BY <1>0, <1>1, <1>4, <1>7, ChecksAgree
  <1> QED
    BY <1>4, <1>5, <1>6 DEF CandidateBuilds, in

-----------------------------------------------------------------------------
(***************************************************************************)
(* The publication.  A whole directory that has no marker cannot be        *)
(* removed by the next script, so the fixture that was published is safe   *)
(* once its marker is out; until then the backup, whose marker went out    *)
(* when it was the fixture, is kept.                                       *)
(***************************************************************************)
BeforeCopies == {"output", "mark", "build", "again", "compare"}
AfterCompare == {"reports", "staging", "backup", "mkdir", "marker", "copy", "aside",
                 "rename", "unmark", "drop"}

Script == [pc : {"idle"} \cup BeforeCopies \cup AfterCompare,
           audit : AssetSets \cup {NoAssets}, a : AssetSets \cup {NoAssets},
           b : AssetSets \cup {NoAssets}]

FixtureTypeOK ==
    /\ fAssets \in AssetSets
    /\ fRun \in Script
    /\ fStaging \in Dir \cup {NoDir}
    /\ fBackup \in Dir \cup {NoDir}
    /\ fFixture \in Dir \cup {NoDir}

\* A script goes on with audits that passed the gate.
GatePassed ==
    \/ fRun = FIdle
    \/ ~RunAt("idle") /\ fRun.audit \in AssetSets /\ AlignmentPassed(fRun.audit)

BuildsAgree ==
    fRun.pc \in AfterCompare =>
        CandidateFiles(fRun.audit, fRun.a) = CandidateFiles(fRun.audit, fRun.b)

\* A directory with all its files holds what one run audited and compared.
WholeIsSound(d) ==
    d # NoDir /\ d.full =>
        /\ AlignmentPassed(d.audit)
        /\ CandidateFiles(d.audit, d.a) = CandidateFiles(d.audit, d.b)

DirectoriesSound ==
    /\ WholeIsSound(fStaging) /\ WholeIsSound(fBackup) /\ WholeIsSound(fFixture)
    /\ fFixture # NoDir => fFixture.full

\* What a script finds at each point of the publication.
PublicationOrder ==
    /\ fRun.pc \in {"marker", "copy", "aside", "rename"} => fStaging # NoDir
    /\ fRun.pc \in {"aside", "rename"} => fStaging.full
    /\ fRun.pc \in {"mkdir", "marker", "copy", "aside"} => fBackup = NoDir
    /\ RunAt("rename") => fFixture = NoDir /\ (fBackup # NoDir => fBackup.full)
    /\ fRun.pc \in {"unmark", "drop"} => fFixture # NoDir

\* Only the fixture whose marker is about to go is whole, in place and removable.
MarkersOut ==
    ~fMarked =>
        /\ fBackup # NoDir /\ fBackup.full => ~fBackup.marker
        /\ fFixture # NoDir /\ ~RunAt("unmark") => ~fFixture.marker

FixtureInv ==
    /\ FixtureTypeOK /\ GatePassed /\ BuildsAgree /\ DirectoriesSound
    /\ PublicationOrder /\ MarkersOut /\ FixtureKept

LEMMA FixtureInit == F_Init => FixtureInv
  <1> SUFFICES ASSUME F_Init PROVE FixtureInv
    OBVIOUS
  <1>1. FIdle \in Script /\ FIdle.pc = "idle"
    BY DEF FIdle, Script
  <1>2. FixtureTypeOK
    BY <1>1 DEF F_Init, FixtureTypeOK
  <1>3. GatePassed /\ BuildsAgree /\ PublicationOrder
    BY <1>1 DEF F_Init, GatePassed, BuildsAgree, AfterCompare, PublicationOrder, RunAt
  <1>4. DirectoriesSound /\ MarkersOut /\ FixtureKept
    BY DEF F_Init, DirectoriesSound, WholeIsSound, MarkersOut, FixtureKept
  <1> QED
    BY <1>2, <1>3, <1>4 DEF FixtureInv

\* A script that ends, or goes on to its next point.
LEMMA Quits ==
    ASSUME Quit
    PROVE  fRun' = FIdle /\ fRun' \in Script /\ fRun'.pc = "idle"
  BY DEF Quit, FIdle, Script

LEMMA Proceeds ==
    ASSUME fRun \in Script, NEW pc \in {"idle"} \cup BeforeCopies \cup AfterCompare, Proceed(pc)
    PROVE  /\ fRun' \in Script /\ fRun'.pc = pc /\ fRun'.audit = fRun.audit
           /\ fRun'.a = fRun.a /\ fRun'.b = fRun.b
  BY DEF Proceed, Script

\* The steps up to the publication, which leave the directories alone.
LEMMA ScriptKeeps ==
    ASSUME FixtureInv, UNCHANGED <<Directories, Histories>>, fAssets' \in AssetSets,
           fRun' \in Script, ~RunAt("unmark"), GatePassed',
           fRun'.pc \in {"idle", "reports", "staging"} \cup BeforeCopies,
           fRun'.pc \in {"reports", "staging"} =>
              CandidateFiles(fRun'.audit, fRun'.a) = CandidateFiles(fRun'.audit, fRun'.b)
    PROVE  FixtureInv'
  <1>0. UNCHANGED <<fStaging, fBackup, fFixture, fPublished, fMarked>>
    BY DEF Directories, Histories
  <1>1. FixtureTypeOK' /\ DirectoriesSound'
    BY <1>0 DEF FixtureInv, FixtureTypeOK, DirectoriesSound, WholeIsSound
  <1>2. BuildsAgree'
    BY DEF BuildsAgree, AfterCompare, BeforeCopies
  <1>3. PublicationOrder'
    BY <1>0 DEF PublicationOrder, RunAt, BeforeCopies
  <1>4. MarkersOut' /\ FixtureKept'
    BY <1>0 DEF FixtureInv, MarkersOut, FixtureKept, WholeFixtures
  <1> QED
    BY <1>1, <1>2, <1>3, <1>4 DEF FixtureInv

LEMMA ScriptSteps ==
    ASSUME FixtureInv,
           \/ AuditAssets \/ RemakeOutput \/ MarkOutput \/ BuildFirst \/ BuildSecond
           \/ CompareBuilds \/ WriteFixtureReports
    PROVE  FixtureInv'
  <1>0. /\ fRun \in Script /\ fAssets \in AssetSets
        /\ (~RunAt("idle") => fRun.audit \in AssetSets /\ AlignmentPassed(fRun.audit))
    BY DEF FixtureInv, FixtureTypeOK, GatePassed, RunAt, FIdle
  <1>1. /\ UNCHANGED <<Directories, Histories, fAssets>> /\ ~RunAt("unmark")
    BY DEF AuditAssets, RemakeOutput, MarkOutput, BuildFirst, BuildSecond, CompareBuilds,
           WriteFixtureReports, RunAt
  <1>2. CASE Quit
    <2>1. fRun' = FIdle /\ fRun' \in Script /\ fRun'.pc = "idle"
      BY <1>2, Quits
    <2>2. GatePassed'
      BY <2>1 DEF GatePassed
    <2> QED
      BY <1>0, <1>1, <2>1, <2>2, ScriptKeeps
  <1>3. ASSUME NEW pc \in {"reports", "staging"} \cup BeforeCopies, ~RunAt("idle"), Proceed(pc),
               pc = "reports" => CandidateFiles(fRun.audit, fRun.a) = CandidateFiles(fRun.audit, fRun.b),
               pc = "staging" => RunAt("reports")
        PROVE  FixtureInv'
    <2>1. pc \in {"idle"} \cup BeforeCopies \cup AfterCompare
      BY DEF AfterCompare
    <2>2. /\ fRun' \in Script /\ fRun'.pc = pc /\ fRun'.audit = fRun.audit
          /\ fRun'.a = fRun.a /\ fRun'.b = fRun.b
      BY <1>0, <1>3, <2>1, Proceeds
    <2>3. GatePassed'
      BY <1>0, <1>3, <2>2 DEF GatePassed, RunAt, BeforeCopies
    <2>4. pc = "staging" =>
             CandidateFiles(fRun.audit, fRun.a) = CandidateFiles(fRun.audit, fRun.b)
      BY <1>3 DEF FixtureInv, BuildsAgree, AfterCompare, RunAt
    <2> QED
      BY <1>0, <1>1, <1>3, <2>2, <2>3, <2>4, ScriptKeeps
  <1>4. CASE AuditAssets
    <2>1. /\ AlignmentPassed(fAssets)
          /\ fRun' = [pc |-> "output", audit |-> fAssets, a |-> NoAssets, b |-> NoAssets]
      BY <1>4 DEF AuditAssets, FIdle
    <2>2. fRun' \in Script /\ fRun'.pc = "output" /\ fRun'.audit = fAssets
      BY <1>0, <2>1 DEF Script, BeforeCopies
    <2>3. GatePassed'
      BY <1>0, <2>1, <2>2 DEF GatePassed, RunAt
    <2> QED
      BY <1>0, <1>1, <2>2, <2>3, ScriptKeeps DEF BeforeCopies
  <1>5. CASE (RemakeOutput \/ MarkOutput) /\ ~Quit
    <2>1. PICK pc \in {"mark", "build"} : Proceed(pc)
      BY <1>5 DEF RemakeOutput, MarkOutput
    <2> QED
      BY <1>3, <1>5, <2>1 DEF RemakeOutput, MarkOutput, RunAt, BeforeCopies
  <1>6. CASE (BuildFirst \/ BuildSecond) /\ ~Quit
    <2>1. /\ ~RunAt("idle") /\ \/ fRun' = [fRun EXCEPT !.pc = "again", !.a = fAssets]
                               \/ fRun' = [fRun EXCEPT !.pc = "compare", !.b = fAssets]
      BY <1>6 DEF BuildFirst, BuildSecond, RunAt
    <2>2. /\ fRun' \in Script /\ fRun'.pc \in {"again", "compare"} /\ fRun'.audit = fRun.audit
      BY <1>0, <2>1 DEF Script, BeforeCopies
    <2>3. GatePassed'
      BY <1>0, <2>1, <2>2 DEF GatePassed, RunAt
    <2> QED
      BY <1>0, <1>1, <2>2, <2>3, ScriptKeeps DEF BeforeCopies
  <1>7. CASE CompareBuilds /\ ~Quit
    BY <1>3, <1>7 DEF CompareBuilds, RunAt
  <1>8. CASE WriteFixtureReports /\ ~Quit
    BY <1>3, <1>8 DEF WriteFixtureReports, RunAt
  <1> QED
    BY <1>2, <1>4, <1>5, <1>6, <1>7, <1>8

\* What stays true of the script when the publication goes on, or ends.
LEMMA PublicationMoves ==
    ASSUME FixtureInv, fRun.pc \in AfterCompare, UNCHANGED fAssets,
           NEW pc \in AfterCompare, Proceed(pc) \/ Quit
    PROVE  /\ fRun' \in Script /\ fAssets' \in AssetSets /\ GatePassed' /\ BuildsAgree'
           /\ fRun'.pc \in {"idle", pc} /\ (Proceed(pc) => fRun'.pc = pc)
           /\ fRun.audit \in AssetSets /\ AlignmentPassed(fRun.audit)
           /\ CandidateFiles(fRun.audit, fRun.a) = CandidateFiles(fRun.audit, fRun.b)
  <1>0. /\ fRun \in Script /\ fAssets \in AssetSets /\ ~RunAt("idle")
        /\ fRun.audit \in AssetSets /\ AlignmentPassed(fRun.audit)
        /\ CandidateFiles(fRun.audit, fRun.a) = CandidateFiles(fRun.audit, fRun.b)
    BY DEF FixtureInv, FixtureTypeOK, GatePassed, BuildsAgree, RunAt, FIdle, AfterCompare
  <1>1. CASE Quit
    <2>1. fRun' = FIdle /\ fRun' \in Script /\ fRun'.pc = "idle"
      BY <1>1, Quits
    <2>2. Proceed(pc) => fRun'.pc = pc
      BY <1>0, Proceeds
    <2> QED
      BY <1>0, <2>1, <2>2 DEF GatePassed, BuildsAgree, AfterCompare
  <1>2. CASE Proceed(pc)
    <2>1. /\ fRun' \in Script /\ fRun'.pc = pc /\ fRun'.audit = fRun.audit
          /\ fRun'.a = fRun.a /\ fRun'.b = fRun.b
      BY <1>0, <1>2, Proceeds
    <2> QED
      BY <1>0, <2>1 DEF GatePassed, BuildsAgree, RunAt, AfterCompare
  <1> QED
    BY <1>1, <1>2

\* The parts of the invariant about the directories, for a step of the publication.
LEMMA PublicationKeeps ==
    ASSUME fRun' \in Script, fAssets' \in AssetSets, GatePassed', BuildsAgree',
           {fStaging', fBackup', fFixture'} \subseteq Dir \cup {NoDir},
           DirectoriesSound', PublicationOrder', MarkersOut',
           fPublished' /\ ~fMarked' =>
              \/ fFixture' # NoDir
              \/ fBackup' # NoDir /\ fBackup'.full
    PROVE  FixtureInv'
  <1>1. FixtureTypeOK'
    BY DEF FixtureTypeOK
  <1>2. FixtureKept'
    BY DEF DirectoriesSound, WholeIsSound, FixtureKept, WholeFixtures
  <1> QED
    BY <1>1, <1>2 DEF FixtureInv

\* What the invariant says of the directories.
LEMMA DirectoriesNow ==
    ASSUME FixtureInv
    PROVE  /\ {fStaging, fBackup, fFixture} \subseteq Dir \cup {NoDir}
           /\ DirectoriesSound /\ PublicationOrder /\ MarkersOut
           /\ fPublished /\ ~fMarked =>
                \/ fFixture # NoDir
                \/ fBackup # NoDir /\ fBackup.full
  BY DEF FixtureInv, FixtureTypeOK, FixtureKept, WholeFixtures

LEMMA StagingSteps ==
    ASSUME FixtureInv, RemoveOldStaging \/ MakeStaging \/ MarkStaging \/ CopyFiles
    PROVE  FixtureInv'
  <1> USE DirectoriesNow
  <1>0. UNCHANGED <<fAssets, fBackup, fFixture, fPublished, fMarked>> /\ fRun.pc \in AfterCompare
    BY DEF RemoveOldStaging, MakeStaging, MarkStaging, CopyFiles, RunAt, AfterCompare, Histories
  <1>1. PICK pc \in {"backup", "marker", "copy", "aside"} : Proceed(pc) \/ Quit
    BY DEF RemoveOldStaging, MakeStaging, MarkStaging, CopyFiles
  <1>2. pc \in AfterCompare
    BY DEF AfterCompare
  <1>3. /\ fRun' \in Script /\ fAssets' \in AssetSets /\ GatePassed' /\ BuildsAgree'
        /\ fRun'.pc \in {"idle", pc} /\ (Proceed(pc) => fRun'.pc = pc)
        /\ fRun.audit \in AssetSets /\ AlignmentPassed(fRun.audit)
        /\ CandidateFiles(fRun.audit, fRun.a) = CandidateFiles(fRun.audit, fRun.b)
        /\ fRun \in Script
    BY <1>0, <1>1, <1>2, PublicationMoves DEF FixtureInv, FixtureTypeOK
  <1>4. MarkersOut'
    BY <1>0, <1>3 DEF MarkersOut, RunAt, RemoveOldStaging, MakeStaging, MarkStaging, CopyFiles
  <1>5. CASE RemoveOldStaging
    <2>1. fStaging' \in {fStaging, NoDir} /\ fRun'.pc \in {"idle", "backup"}
      <3>1. Proceed("backup") \/ Quit
        BY <1>5 DEF RemoveOldStaging
      <3>2. "backup" \in AfterCompare
        BY DEF AfterCompare
      <3> QED
        BY <1>0, <1>5, <3>1, <3>2, PublicationMoves DEF RemoveOldStaging
    <2>2. DirectoriesSound' /\ PublicationOrder'
      BY <1>0, <2>1 DEF DirectoriesSound, WholeIsSound, PublicationOrder, RunAt
    <2> QED
      BY <1>0, <1>3, <1>4, <2>1, <2>2, PublicationKeeps
  <1>6. CASE MakeStaging
    <2>1. /\ RunAt("mkdir") /\ fRun'.pc = "marker" /\ fStaging' \in Dir /\ ~fStaging'.full
      <3>1. "marker" \in AfterCompare /\ Proceed("marker")
        BY <1>6 DEF MakeStaging, AfterCompare
      <3>2. fRun'.pc = "marker"
        BY <1>0, <3>1, PublicationMoves
      <3> QED
        BY <1>6, <3>2 DEF MakeStaging, Dir
    <2>2. DirectoriesSound' /\ PublicationOrder'
      BY <1>0, <2>1, FixtureAssumption DEF DirectoriesSound, WholeIsSound, PublicationOrder, RunAt
    <2> QED
      BY <1>0, <1>3, <1>4, <2>1, <2>2, PublicationKeeps
  <1>7. CASE MarkStaging
    <2>1. /\ RunAt("marker") /\ fRun'.pc = "copy" /\ fStaging \in Dir
          /\ fStaging' = [fStaging EXCEPT !.marker = TRUE]
      <3>1. "copy" \in AfterCompare /\ Proceed("copy")
        BY <1>7 DEF MarkStaging, AfterCompare
      <3>2. fRun'.pc = "copy"
        BY <1>0, <3>1, PublicationMoves
      <3> QED
        BY <1>7, <3>2 DEF MarkStaging, PublicationOrder, RunAt
    <2>2. /\ fStaging' \in Dir /\ fStaging'.full = fStaging.full /\ fStaging'.audit = fStaging.audit
          /\ fStaging'.a = fStaging.a /\ fStaging'.b = fStaging.b
      BY <2>1 DEF Dir
    <2>3. DirectoriesSound' /\ PublicationOrder'
      BY <1>0, <2>1, <2>2, FixtureAssumption DEF DirectoriesSound, WholeIsSound, PublicationOrder, RunAt
    <2> QED
      BY <1>0, <1>3, <1>4, <2>2, <2>3, PublicationKeeps
  <1>8. CASE CopyFiles
    <2>1. /\ fRun'.pc = "aside" /\ fStaging \in Dir /\ RunAt("copy")
          /\ fStaging' = [fStaging EXCEPT !.full = TRUE, !.audit = fRun.audit,
                                          !.a = fRun.a, !.b = fRun.b]
      <3>1. "aside" \in AfterCompare /\ Proceed("aside")
        BY <1>8 DEF CopyFiles, AfterCompare
      <3>2. fRun'.pc = "aside"
        BY <1>0, <3>1, PublicationMoves
      <3> QED
        BY <1>8, <3>2 DEF CopyFiles, PublicationOrder, RunAt
    <2>2. /\ fStaging' \in Dir /\ fStaging'.full /\ fStaging'.audit = fRun.audit
          /\ fStaging'.a = fRun.a /\ fStaging'.b = fRun.b
      BY <1>3, <2>1 DEF Dir, Script
    <2>3. DirectoriesSound'
      BY <1>0, <1>3, <2>2 DEF DirectoriesSound, WholeIsSound
    <2>4. PublicationOrder'
      BY <1>0, <2>1, <2>2, FixtureAssumption DEF PublicationOrder, RunAt
    <2> QED
      BY <1>0, <1>3, <1>4, <2>2, <2>3, <2>4, PublicationKeeps
  <1> QED
    BY <1>5, <1>6, <1>7, <1>8

\* The backup a script removes is not whole, or a run died over its marker; while
\* the fixture is moved aside it is in no other place.
LEMMA BackupSteps ==
    ASSUME FixtureInv, RemoveOldBackup \/ SetAside
    PROVE  FixtureInv'
  <1> USE DirectoriesNow
  <1>1. CASE RemoveOldBackup
    <2>1. /\ RunAt("backup") /\ fBackup' \in {fBackup, NoDir}
          /\ fBackup' = fBackup \/ fBackup = NoDir \/ fBackup.marker
          /\ UNCHANGED <<fAssets, fStaging, fFixture, fPublished, fMarked>>
          /\ Quit \/ (Proceed("mkdir") /\ fBackup' = NoDir)
      BY <1>1 DEF RemoveOldBackup, Removable, Histories
    <2>2. /\ fRun' \in Script /\ fAssets' \in AssetSets /\ GatePassed' /\ BuildsAgree'
          /\ fRun'.pc = "idle" \/ (fRun'.pc = "mkdir" /\ fBackup' = NoDir)
      <3>1. "mkdir" \in AfterCompare /\ fRun.pc \in AfterCompare
        BY <2>1 DEF RunAt, AfterCompare
      <3> QED
        BY <2>1, <3>1, PublicationMoves, Quits
    <2>3. DirectoriesSound' /\ PublicationOrder'
      BY <2>1, <2>2 DEF DirectoriesSound, WholeIsSound, PublicationOrder, RunAt
    <2>4. MarkersOut'
      BY <2>1, <2>2 DEF MarkersOut, RunAt
    <2>5. fPublished' /\ ~fMarked' =>
             \/ fFixture' # NoDir
             \/ fBackup' # NoDir /\ fBackup'.full
      BY <2>1 DEF MarkersOut
    <2> QED
      BY <2>1, <2>2, <2>3, <2>4, <2>5, PublicationKeeps
  <1>2. CASE SetAside
    <2>1. /\ RunAt("aside") /\ fFixture' = NoDir /\ Proceed("rename")
          /\ (fFixture = NoDir => fBackup' = fBackup) /\ (fFixture # NoDir => fBackup' = fFixture)
          /\ UNCHANGED <<fAssets, fStaging, fPublished, fMarked>>
      BY <1>2 DEF SetAside, Histories
    <2>2. /\ fRun' \in Script /\ fAssets' \in AssetSets /\ GatePassed' /\ BuildsAgree'
          /\ fRun'.pc = "rename"
      <3>1. "rename" \in AfterCompare /\ fRun.pc \in AfterCompare
        BY <2>1 DEF RunAt, AfterCompare
      <3> QED
        BY <2>1, <3>1, PublicationMoves
    <2>3. fBackup = NoDir
      BY <2>1 DEF PublicationOrder, RunAt
    <2>4. DirectoriesSound'
      BY <2>1, <2>3 DEF DirectoriesSound, WholeIsSound
    <2>5. PublicationOrder'
      BY <2>1, <2>2, <2>3 DEF PublicationOrder, DirectoriesSound, RunAt
    <2>6. MarkersOut'
      BY <2>1, <2>2, <2>3 DEF MarkersOut, RunAt
    <2>7. fPublished' /\ ~fMarked' =>
             \/ fFixture' # NoDir
             \/ fBackup' # NoDir /\ fBackup'.full
      BY <2>1, <2>3 DEF DirectoriesSound
    <2> QED
      BY <2>1, <2>2, <2>4, <2>5, <2>6, <2>7, PublicationKeeps
  <1> QED
    BY <1>1, <1>2

\* The new directory takes the place, and loses its marker before the backup goes.
LEMMA PlacingSteps ==
    ASSUME FixtureInv, RenameStaging \/ UnmarkFixture \/ DropBackup
    PROVE  FixtureInv'
  <1> USE DirectoriesNow
  <1>0. fRun \in Script
    BY DEF FixtureInv, FixtureTypeOK
  <1>1. CASE RenameStaging
    <2>1. /\ RunAt("rename") /\ fFixture' = fStaging /\ fStaging' = NoDir /\ Proceed("unmark")
          /\ UNCHANGED <<fAssets, fBackup, fMarked>>
      BY <1>1 DEF RenameStaging
    <2>2. /\ fRun' \in Script /\ fAssets' \in AssetSets /\ GatePassed' /\ BuildsAgree'
          /\ fRun'.pc = "unmark"
      <3>1. "unmark" \in AfterCompare /\ fRun.pc \in AfterCompare
        BY <2>1 DEF RunAt, AfterCompare
      <3> QED
        BY <2>1, <3>1, PublicationMoves
    <2>3. fStaging # NoDir /\ fStaging.full
      BY <2>1 DEF PublicationOrder, RunAt
    <2>4. DirectoriesSound'
      BY <2>1, <2>3 DEF DirectoriesSound, WholeIsSound
    <2>5. PublicationOrder' /\ MarkersOut'
      BY <2>1, <2>2, <2>3 DEF PublicationOrder, MarkersOut, RunAt
    <2> QED
      BY <2>1, <2>2, <2>3, <2>4, <2>5, PublicationKeeps
  <1>2. CASE UnmarkFixture
    <2>1. /\ RunAt("unmark") /\ fFixture' = [fFixture EXCEPT !.marker = FALSE]
          /\ Proceed("drop")
          /\ UNCHANGED <<fAssets, fStaging, fBackup, fPublished, fMarked>>
      BY <1>2 DEF UnmarkFixture, Histories
    <2>2. /\ fRun' \in Script /\ fAssets' \in AssetSets /\ GatePassed' /\ BuildsAgree'
          /\ fRun'.pc = "drop"
      <3>1. "drop" \in AfterCompare /\ fRun.pc \in AfterCompare
        BY <2>1 DEF RunAt, AfterCompare
      <3> QED
        BY <2>1, <3>1, PublicationMoves
    <2>3. fFixture \in Dir /\ fFixture # NoDir
      BY <2>1 DEF PublicationOrder, RunAt
    <2>4. /\ fFixture' \in Dir /\ fFixture'.full = fFixture.full /\ ~fFixture'.marker
          /\ fFixture'.audit = fFixture.audit
          /\ fFixture'.a = fFixture.a /\ fFixture'.b = fFixture.b
      BY <2>1, <2>3 DEF Dir
    <2>5. fFixture' # NoDir
      BY <2>4, FixtureAssumption
    <2>6. DirectoriesSound'
      BY <2>1, <2>3, <2>4 DEF DirectoriesSound, WholeIsSound
    <2>7. PublicationOrder' /\ MarkersOut'
      BY <2>1, <2>2, <2>4, <2>5 DEF PublicationOrder, MarkersOut, RunAt
    <2> QED
      BY <2>1, <2>2, <2>4, <2>5, <2>6, <2>7, PublicationKeeps
  <1>3. CASE DropBackup
    <2>1. /\ RunAt("drop") /\ fBackup' = NoDir /\ Quit
          /\ UNCHANGED <<fAssets, fStaging, fFixture, fPublished, fMarked>>
      BY <1>3 DEF DropBackup, Histories
    <2>2. /\ fRun' \in Script /\ fAssets' \in AssetSets /\ GatePassed' /\ BuildsAgree'
          /\ fRun'.pc = "idle"
      <3>1. "drop" \in AfterCompare /\ fRun.pc \in AfterCompare
        BY <2>1 DEF RunAt, AfterCompare
      <3> QED
        BY <2>1, <3>1, PublicationMoves, Quits
    <2>3. fFixture # NoDir
      BY <2>1 DEF PublicationOrder, RunAt
    <2>4. DirectoriesSound' /\ PublicationOrder' /\ MarkersOut'
      BY <2>1, <2>2 DEF DirectoriesSound, WholeIsSound, PublicationOrder, MarkersOut, RunAt
    <2> QED
      BY <2>1, <2>2, <2>3, <2>4, PublicationKeeps
  <1> QED
    BY <1>1, <1>2, <1>3

\* A copy or a rename fails: an empty place gets the backup again.
LEMMA FailureKeeps ==
    ASSUME FixtureInv, PublicationFails
    PROVE  FixtureInv'
  <1> USE DirectoriesNow
  <1>1. /\ fRun.pc \in {"copy", "aside", "rename"} /\ fStaging' = NoDir /\ Quit
        /\ \/ /\ RunAt("rename") /\ fBackup # NoDir /\ fFixture' = fBackup /\ fBackup' = NoDir
           \/ UNCHANGED <<fFixture, fBackup>>
        /\ UNCHANGED <<fAssets, fPublished, fMarked>>
    BY DEF PublicationFails, Histories
  <1>2. /\ fRun' \in Script /\ fAssets' \in AssetSets /\ GatePassed' /\ BuildsAgree'
        /\ fRun'.pc = "idle"
    <2>1. fRun.pc \in AfterCompare /\ "copy" \in AfterCompare
      BY <1>1 DEF AfterCompare
    <2> QED
      BY <1>1, <2>1, PublicationMoves, Quits
  <1>3. RunAt("rename") /\ fBackup # NoDir => fBackup.full
    BY DEF PublicationOrder
  <1>4. DirectoriesSound'
    BY <1>1, <1>3 DEF DirectoriesSound, WholeIsSound
  <1>5. PublicationOrder'
    BY <1>2 DEF PublicationOrder, RunAt
  <1>6. MarkersOut'
    BY <1>1, <1>2, <1>3 DEF MarkersOut, RunAt
  <1> QED
    BY <1>1, <1>2, <1>3, <1>4, <1>5, <1>6, PublicationKeeps

\* Wherever the script dies: what it was removing was not needed.
LEMMA DeathKeeps ==
    ASSUME FixtureInv, CandidateDies
    PROVE  FixtureInv'
  <1> USE DirectoriesNow
  <1>1. ASSUME NEW d \in Dir \cup {NoDir}, NEW c \in CutShort(d)
        PROVE  /\ c \in Dir \cup {NoDir} /\ (c # NoDir => d # NoDir)
               /\ c = d \/ ~c.full
    <2>1. CASE d = NoDir
      BY <1>1, <2>1 DEF CutShort
    <2>2. CASE d # NoDir
      <3>1. c \in {d, [d EXCEPT !.full = FALSE], [d EXCEPT !.full = FALSE, !.marker = FALSE]}
        BY <1>1, <2>2 DEF CutShort
      <3>2. d \in Dir
        BY <2>2
      <3>3. /\ [d EXCEPT !.full = FALSE] \in Dir /\ ~[d EXCEPT !.full = FALSE].full
            /\ [d EXCEPT !.full = FALSE, !.marker = FALSE] \in Dir
            /\ ~[d EXCEPT !.full = FALSE, !.marker = FALSE].full
        BY <3>2 DEF Dir
      <3>4. c \in Dir /\ (c = d \/ ~c.full)
        BY <3>1, <3>2, <3>3
      <3> QED
        BY <2>2, <3>4, FixtureAssumption
    <2> QED
      BY <2>1, <2>2
  <1>2. /\ ~RunAt("idle") /\ Quit
        /\ fStaging' = fStaging \/ fStaging' \in CutShort(fStaging)
        /\ \/ fBackup' = fBackup
           \/ fBackup' \in CutShort(fBackup) /\ \/ RunAt("drop")
                                                \/ fBackup = NoDir \/ fBackup.marker
        /\ fMarked' = (fMarked \/ RunAt("unmark"))
        /\ UNCHANGED <<fAssets, fFixture, fPublished>>
    BY DEF CandidateDies, Removable
  <1>3. /\ fRun' = FIdle /\ fRun' \in Script /\ fRun'.pc = "idle" /\ fAssets' \in AssetSets
        /\ GatePassed' /\ BuildsAgree'
    BY <1>2, Quits DEF GatePassed, BuildsAgree, AfterCompare, FixtureInv, FixtureTypeOK
  <1>4. /\ fStaging' \in Dir \cup {NoDir} /\ (fStaging' = fStaging \/ ~fStaging'.full)
        /\ fBackup' \in Dir \cup {NoDir} /\ (fBackup' = fBackup \/ ~fBackup'.full)
    BY <1>1, <1>2
  <1>5. DirectoriesSound'
    BY <1>2, <1>4 DEF DirectoriesSound, WholeIsSound
  <1>6. PublicationOrder'
    BY <1>3 DEF PublicationOrder, RunAt
  <1>7. MarkersOut'
    BY <1>2, <1>3, <1>4 DEF MarkersOut, RunAt
  <1>8. fPublished' /\ ~fMarked' =>
           \/ fFixture' # NoDir
           \/ fBackup' # NoDir /\ fBackup'.full
    <2>1. RunAt("drop") => fFixture # NoDir
      BY DEF PublicationOrder, RunAt
    <2>2. fBackup # NoDir /\ fBackup.full /\ fBackup.marker => fMarked
      BY DEF MarkersOut
    <2>3. fBackup = NoDir => fBackup' = NoDir
      BY <1>2 DEF CutShort
    <2> QED
      BY <1>2, <2>1, <2>2, <2>3
  <1> QED
    BY <1>2, <1>3, <1>4, <1>5, <1>6, <1>7, <1>8, PublicationKeeps

LEMMA FixtureNext == FixtureInv /\ [F_Next]_fVars => FixtureInv'
  <1> SUFFICES ASSUME FixtureInv, [F_Next]_fVars PROVE FixtureInv'
    OBVIOUS
  <1>1. CASE UNCHANGED fVars \/ ReplaceAssets
    <2>1. /\ UNCHANGED <<fRun, Directories, Histories>> /\ fAssets' \in AssetSets
      BY <1>1 DEF fVars, ReplaceAssets, Directories, Histories, FixtureInv, FixtureTypeOK
    <2>2. UNCHANGED <<fRun, fStaging, fBackup, fFixture, fPublished, fMarked>>
      BY <2>1 DEF Directories, Histories
    <2> QED
      BY <2>1, <2>2 DEF FixtureInv, FixtureTypeOK, GatePassed, BuildsAgree, DirectoriesSound,
                        WholeIsSound, PublicationOrder, MarkersOut, FixtureKept,
                        WholeFixtures, RunAt
  <1> QED
    BY <1>1, ScriptSteps, StagingSteps, BackupSteps, PlacingSteps, FailureKeeps, DeathKeeps
       DEF F_Next

\* _publish_fixture keeps a published fixture, whole and of one audited, twice built
\* set of assets, at its place or under the backup's name, whatever is replaced and
\* wherever scripts die, but for a death before the marker is out.
THEOREM FixtureStays == F_Spec => []FixtureKept
  <1>1. FixtureInv => FixtureKept
    BY DEF FixtureInv
  <1> QED
    BY <1>1, FixtureInit, FixtureNext, PTL DEF F_Spec

\* evaluate_asset_alignment lets through no event without a row of the track, and
\* the files it lets through fit for import_single_rally too, whenever each record is
\* readable by itself, no event has two readings, the track carries the timestamps
\* and the events lie in order within it: the import accepts them, and what it hands
\* on unchecked is all the single-rally validation can then refuse.
THEOREM GateFits == F_Spec => []GateFitsImport
  <1>1. FixtureInv => GateFitsImport
    <2> SUFFICES ASSUME FixtureInv, fRun.audit # NoAssets PROVE GateFitsImport
      BY DEF GateFitsImport
    <2>1. fRun.audit \in AssetSets /\ AlignmentPassed(fRun.audit)
      BY DEF FixtureInv, GatePassed, FIdle
    <2>2. EventsPass(fRun.audit)
      BY <2>1 DEF AlignmentPassed
    <2>3. \A k \in DOMAIN fRun.audit.events :
             EventQuality(fRun.audit, fRun.audit.events[k]) \notin {"nearest_detected", "invalid"}
      BY <2>2, EventsHaveRows
    <2>4. Readable(fRun.audit) /\ OneReading(fRun.audit) /\ Timed(fRun.audit) =>
             /\ ImportAccepts(CandidateInput(fRun.audit, fRun.audit))
             /\ ~OnlyValidatorRefuses(CandidateInput(fRun.audit, fRun.audit)) =>
                   CandidateBuilds(fRun.audit, fRun.audit)
      BY <2>1, GatedBuilds
    <2> QED
      BY <2>3, <2>4 DEF GateFitsImport, Readable, OneReading, Timed
  <1> QED
    BY <1>1, FixtureInit, FixtureNext, PTL DEF F_Spec

=============================================================================
