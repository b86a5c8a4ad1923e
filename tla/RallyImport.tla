----------------------------- MODULE RallyImport -----------------------------
(***************************************************************************)
(* What an import of a single rally computes                               *)
(* (src/product/single_rally): the adapters read the outputs of earlier    *)
(* stages, import_single_rally checks and joins them, and                  *)
(* validate_single_rally_bundle judges the files that were written.  The   *)
(* two sets of checks were written apart, on the raw and on the written    *)
(* form of the data.  Operators only; SingleRally and ReferenceFixture use *)
(* them.                                                                   *)
(*                                                                         *)
(* Times and frames are small numbers; an id 0 stands for anything but a    *)
(* non-empty text.  Of a calibration the model keeps where its outermost   *)
(* corner lies, what its homography is made of, whether the orientation    *)
(* check passed, and its provenance.  Cells that cannot be parsed as       *)
(* numbers, and the session's own names, are left out.                     *)
(***************************************************************************)
EXTENDS Integers, FiniteSets, Sequences

CONSTANT NoTime     \* an empty timestamp cell of the track

\* What an annotation may hold: a pixel is absent, a pair, an object {x, y}, one
\* with extra members or with texts for numbers, or none of these ("shape"); a court
\* position is an object, absent or something else; a homography is absent or 3x3,
\* singular or not, of booleans or of texts that read as numbers, or no 3x3 at all.
Pixels == {"none", "pair", "object", "extra", "text", "shape"}
Positions == {"none", "object", "other"}
Homographies == {"none", "numbers", "singular", "booleans", "texts", "shape"}
Confidences == {"ok", "outside"}   \* in [0,1] (of an event, or absent), or not

\* The rows of an events file and of a track file, as they are parsed.  An event may
\* carry its id, frame and time under two keys each: the import prefers event_id,
\* frame_id and timestamp_seconds; `stage` is what a reader finds who prefers id,
\* frame_start and time_start_seconds.
RawEvent == [id : Nat, frame : Int, time : Int, type : STRING, pixel : Pixels,
             position : Positions, confidence : Confidences,
             stage : [id : Nat, frame : Int, time : Int]]
RawRow == [frame : Int, time : Int \cup {NoTime}, source : STRING, visible : BOOLEAN,
           confidence : Confidences]

-----------------------------------------------------------------------------
\* Neighbours of a sequence are in order of time and of frame.
OrderedRecords(s) ==
    \A k \in 1..(Len(s) - 1) : s[k].time <= s[k + 1].time /\ s[k].frame <= s[k + 1].frame

CountOf(s, Test(_)) == Cardinality({k \in DOMAIN s : Test(s[k])})

InInterval(s, from, to) == \A k \in DOMAIN s : from <= s[k].time /\ s[k].time <= to

DistinctIds(s) == \A j, k \in DOMAIN s : s[j].id = s[k].id => j = k

-----------------------------------------------------------------------------
(* Adapters                                                                *)

EventType(raw) ==
    CASE raw \in {"hit", "contact"} -> "contact"
      [] raw \in {"serve", "bounce", "out"} -> raw
      [] OTHER -> "unknown"

\* _event_record raises unless ...
EventReadable(e) ==
    /\ e.id # 0
    /\ e.frame >= 0 /\ e.time >= 0
    /\ e.confidence = "ok"
    /\ e.pixel # "shape"

\* A pixel pair becomes {x, y}; an object is kept with whatever it holds, and so is
\* the court position.
EventRecord(e) ==
    [id |-> e.id, frame |-> e.frame, time |-> e.time, type |-> EventType(e.type),
     pixel |-> IF e.pixel = "pair" THEN "object" ELSE e.pixel,
     position |-> e.position, confidence |-> e.confidence]

\* _track_row: a missing timestamp is looked up by frame; an unknown source is raw.
TrackTime(row, stamps) == IF row.time = NoTime THEN stamps[row.frame] ELSE row.time
TrackReadable(row, stamps) ==
    /\ row.frame >= 0
    /\ row.time # NoTime \/ row.frame \in DOMAIN stamps
    /\ row.confidence = "ok"

TrackSource(declared) ==
    CASE declared = "detected" -> "smoothed"
      [] declared \in {"raw", "smoothed", "interpolated"} -> declared
      [] OTHER -> "raw"

TrackPoint(row, stamps) ==
    [frame |-> row.frame, time |-> TrackTime(row, stamps),
     source |-> TrackSource(row.source), visible |-> row.visible,
     confidence |-> row.confidence]

\* adapt_court_map: a corner may lie on the far edge of the image; whatever float()
\* takes for a number will do in the homography, which is kept as it is.
CourtReadable(court) ==
    /\ court.corner \in {"inside", "edge"}
    /\ court.homography # "shape"

CourtMap(court) ==
    LET synthetic == court.provenance = "synthetic"
    IN  [corner |-> court.corner, provenance |-> court.provenance,
         homography |-> court.homography, limited |-> synthetic,
         status |-> IF synthetic THEN "synthetic"
                    ELSE IF court.passed /\ court.homography # "none" THEN "approved"
                    ELSE "partial"]

-----------------------------------------------------------------------------
(* import_single_rally                                                     *)

ImportedTrack(in) == [k \in DOMAIN in.track |-> TrackPoint(in.track[k], in.stamps)]
ImportedEvents(in) == [k \in DOMAIN in.events |-> EventRecord(in.events[k])]

\* The checks up to the temporary directory, of the interval (the descriptor's schema
\* has no negative time), of each record, and of the records together.
ImportAccepts(in) ==
    /\ 0 <= in.start /\ in.start < in.end
    /\ in.track # <<>>
    /\ \A k \in DOMAIN in.track : TrackReadable(in.track[k], in.stamps)
    /\ \A k \in DOMAIN in.events : EventReadable(in.events[k])
    /\ InInterval(ImportedTrack(in), in.start, in.end)
    /\ DistinctIds(in.events)
    /\ InInterval(in.events, in.start, in.end)
    /\ OrderedRecords(in.events)
    /\ OrderedRecords(ImportedTrack(in))
    /\ CourtReadable(in.court)

IsContact(e) == e.type = "contact"
IsBounce(e) == e.type = "bounce"

RallyRecord(in) ==
    [index |-> in.index, start |-> in.start, end |-> in.end,
     event_count |-> Len(in.events), ball_count |-> Len(in.track),
     contact_count |-> CountOf(ImportedEvents(in), IsContact),
     bounce_count |-> CountOf(ImportedEvents(in), IsBounce)]

\* derive_metrics
RallyMetrics(events, track) ==
    [balls |-> Len(track), contacts |-> CountOf(events, IsContact),
     bounces |-> CountOf(events, IsBounce)]

\* The files of the bundle.
RallyFiles(in) ==
    [rally |-> RallyRecord(in), events |-> ImportedEvents(in),
     track |-> ImportedTrack(in), court |-> CourtMap(in.court),
     metrics |-> RallyMetrics(ImportedEvents(in), ImportedTrack(in))]

\* An empty list of events is written as one blank line, which _parse_file of the
\* bundle builder refuses.
Packable(in) == in.events # <<>>

-----------------------------------------------------------------------------
(* validate_single_rally_bundle                                            *)

CourtSemantics(court) ==
    /\ court.corner = "inside"
    /\ court.status = "approved" => court.provenance # "synthetic" /\ court.homography # "none"
    /\ court.provenance = "synthetic" => court.status = "synthetic"
    /\ court.status = "synthetic" => court.limited

\* The schemas of the rally, its events, its track and its court map.
SchemasAccept(b) ==
    /\ 0 <= b.rally.start
    /\ \A k \in DOMAIN b.events :
          LET e == b.events[k]
          IN  /\ e.id # 0 /\ e.frame >= 0 /\ e.time >= 0 /\ e.confidence = "ok"
              /\ e.type \in {"contact", "bounce", "serve", "out", "unknown"}
              /\ e.pixel \in {"none", "object"}
              /\ e.position \in {"none", "object"}
    /\ \A k \in DOMAIN b.track :
          LET p == b.track[k]
          IN  /\ p.frame >= 0 /\ p.time >= 0 /\ p.confidence = "ok"
              /\ p.source \in {"raw", "smoothed", "interpolated"}
    /\ b.court.homography \in {"none", "numbers", "singular"}
    /\ b.court.provenance # "empty"

RallyAccepts(b) ==
    /\ SchemasAccept(b)
    /\ CourtSemantics(b.court)
    /\ b.rally.index = 0
    /\ b.rally.start < b.rally.end
    /\ DistinctIds(b.events)
    /\ \A s \in {b.events, b.track} :
          InInterval(s, b.rally.start, b.rally.end) /\ OrderedRecords(s)
    /\ b.rally.event_count = Len(b.events)
    /\ b.rally.ball_count = Len(b.track)
    /\ b.rally.contact_count = CountOf(b.events, IsContact)
    /\ b.rally.bounce_count = CountOf(b.events, IsBounce)
    /\ b.metrics.balls = Len(b.track)
    /\ b.metrics.contacts = CountOf(b.events, IsContact)
    /\ b.metrics.bounces = CountOf(b.events, IsBounce)

\* What the import hands on without a check of its own: the edge of the image, an
\* empty provenance, a homography whose entries only float() takes for numbers, an
\* index other than 0, a pixel object with other members or with texts, a court
\* position that is no object.
OnlyValidatorRefuses(in) ==
    \/ in.court.corner = "edge"
    \/ in.court.provenance = "empty"
    \/ in.court.homography \in {"booleans", "texts"}
    \/ in.index # 0
    \/ \E k \in DOMAIN in.events :
          \/ in.events[k].pixel \in {"extra", "text"}
          \/ in.events[k].position = "other"
=============================================================================
