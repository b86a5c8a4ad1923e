------------------------------ MODULE EventStore ------------------------------
(***************************************************************************)
(* The event store of the annotator (tools/event_annotator_app/core.py):   *)
(* one list of manual events, edited by the threads of a                   *)
(* ThreadingHTTPServer, undone from a bounded stack of snapshots, and      *)
(* saved after every change to a draft which the next start reads back.    *)
(*                                                                         *)
(* A change in memory and the save that follows run under one RLock, but   *)
(* the process may die, or the disk refuse, between any two of their       *)
(* steps.  An event is its id and its frames; a request without effect     *)
(* (an unknown id or preset, nothing to undo) is a step that changes       *)
(* nothing and is left out.                                                *)
(***************************************************************************)
EXTENDS Naturals, SequencesExt

CONSTANTS
    Threads,    \* request threads
    LastFrame,  \* frame_count - 1
    Ranges,     \* <<frame_start, frame_end>> of the requests, valid or not
    UndoLimit,  \* snapshots kept (50 in the code)
    MaxEvents,  \* bound of the model: events in the list at once
    NoThread, NoFile, Torn,
    Exported    \* content of an annotation, whichever list it holds

Ids == 1..MaxEvents
Frames == 0..LastFrame
Event == {e \in [id : Ids, frame_start : Frames, frame_end : Frames] :
             e.frame_start <= e.frame_end}
Lists == BoundedSeq(Event, MaxEvents)

ASSUME StoreAssumption ==
    /\ LastFrame \in Nat
    /\ Ranges \subseteq Nat \X Nat
    /\ {UndoLimit, MaxEvents} \subseteq Nat \ {0}
    /\ NoThread \notin Threads
    /\ Exported \notin {NoFile, Torn} /\ NoFile # Torn
    /\ {NoFile, Torn, Exported} \cap Lists = {}

VARIABLES
    events,     \* EventStore._events
    undo,       \* EventStore._undo
    lock,       \* the thread inside `with self._lock`
    saving,     \* what each thread still has to write
    disk,       \* content of the draft and of the annotation
    temporary,  \* content of the .tmp file beside each
    unsaved,    \* history: the last save of the draft raised
    up          \* the server runs

vars == <<events, undo, lock, saving, disk, temporary, unsaved, up>>

-----------------------------------------------------------------------------
Files == {"draft", "annotation"}

Idle == [pc |-> "idle", file |-> "draft", payload |-> <<>>]

IdsOf(list) == {list[i].id : i \in DOMAIN list}
Distinct(list) == Cardinality(IdsOf(list)) = Len(list)

NextId == Min((1..(Len(events) + 1)) \ IdsOf(events))

RangeOf(e) == <<e.frame_start, e.frame_end>>

\* What _derive_event accepts: both frames in the index, in order.
InIndex(r) == r[1] \in Frames /\ r[2] \in Frames /\ r[1] <= r[2]

Later(e, f) ==
    \/ e.frame_start > f.frame_start
    \/ e.frame_start = f.frame_start /\ e.frame_end > f.frame_end

\* list.sort by (frame_start, frame_end), which is stable: the element at place k
\* is the one with k - 1 elements before it.
Before(list, j, i) ==
    \/ Later(list[i], list[j])
    \/ ~Later(list[j], list[i]) /\ j < i

Rank(list, i) == 1 + Cardinality({j \in DOMAIN list : Before(list, j, i)})

Sorted(list) ==
    [k \in DOMAIN list |-> list[CHOOSE i \in DOMAIN list : Rank(list, i) = k]]

Remember ==
    LET all == Append(undo, events)
    IN  undo' = SubSeq(all, 1 + Max({0, Len(all) - UndoLimit}), Len(all))

\* What normalize_annotation demands of the list of an annotation.
Accepted(list) ==
    /\ list # <<>>
    /\ Distinct(list)
    /\ \A i \in 1..(Len(list) - 1) : list[i].frame_start <= list[i + 1].frame_start
    /\ \A i \in DOMAIN list : InIndex(RangeOf(list[i]))

-----------------------------------------------------------------------------
(* The operations, up to the save                                          *)

\* Mutant: no lock.
Enter_NoLock(t) ==
    /\ up
    /\ saving[t].pc = "idle"
    /\ lock' = t

Enter(t) ==
    /\ up
    /\ lock = NoThread
    /\ lock' = t

Save(t, file, list) ==
    saving' = [saving EXCEPT ![t] = [pc |-> "open", file |-> file, payload |-> list]]

Change(t, list) ==
    /\ Enter(t)
    /\ events' = list
    /\ Save(t, "draft", list)
    /\ UNCHANGED <<disk, temporary, unsaved, up>>

Create(t, r) ==
    /\ InIndex(r)
    /\ Len(events) < MaxEvents
    /\ Remember
    /\ Change(t, Sorted(Append(events,
           [id |-> NextId, frame_start |-> r[1], frame_end |-> r[2]])))

\* Mutant: the list is not sorted again.
Update_NoSort(t, i, r) ==
    /\ InIndex(r)
    /\ Remember
    /\ Change(t, [events EXCEPT ![i].frame_start = r[1], ![i].frame_end = r[2]])

Update(t, i, r) ==
    /\ InIndex(r)
    /\ Remember
    /\ Change(t, Sorted([events EXCEPT ![i].frame_start = r[1], ![i].frame_end = r[2]]))

\* create and update take their snapshot before _derive_event raises.
Refuse(r) ==
    /\ up
    /\ lock = NoThread
    /\ ~InIndex(r)
    /\ Remember
    /\ UNCHANGED <<events, lock, saving, disk, temporary, unsaved, up>>

\* Mutant: no snapshot.
Delete_NoSnapshot(t, i) ==
    /\ UNCHANGED undo
    /\ Change(t, RemoveAt(events, i))

Delete(t, i) ==
    /\ Remember
    /\ Change(t, RemoveAt(events, i))

Undo(t) ==
    /\ undo # <<>>
    /\ undo' = Front(undo)
    /\ Change(t, Last(undo))

Export(t) ==
    /\ Accepted(events)
    /\ Enter(t)
    /\ Save(t, "annotation", Exported)
    /\ UNCHANGED <<events, undo, disk, temporary, unsaved, up>>

-----------------------------------------------------------------------------
(* _write_atomic, under the lock                                           *)

Goto(t, pc) == saving' = [saving EXCEPT ![t].pc = pc]

\* Mutant: the file itself is opened for writing.
OpenTemporary_InPlace(t) ==
    /\ saving[t].pc = "open"
    /\ disk' = [disk EXCEPT ![saving[t].file] = Torn]
    /\ temporary' = [temporary EXCEPT ![saving[t].file] = Torn]
    /\ Goto(t, "write")
    /\ UNCHANGED <<events, undo, lock, unsaved, up>>

OpenTemporary(t) ==
    /\ saving[t].pc = "open"
    /\ temporary' = [temporary EXCEPT ![saving[t].file] = Torn]
    /\ Goto(t, "write")
    /\ UNCHANGED <<events, undo, lock, disk, unsaved, up>>

WriteTemporary(t) ==
    /\ saving[t].pc = "write"
    /\ temporary' = [temporary EXCEPT ![saving[t].file] = saving[t].payload]
    /\ Goto(t, "replace")
    /\ UNCHANGED <<events, undo, lock, disk, unsaved, up>>

Leave(t, failed) ==
    /\ saving' = [saving EXCEPT ![t] = Idle]
    /\ lock' = NoThread
    /\ unsaved' = IF saving[t].file = "draft" THEN failed ELSE unsaved
    /\ UNCHANGED <<events, undo, up>>

Replace(t) ==
    /\ saving[t].pc = "replace"
    /\ temporary[saving[t].file] # NoFile
    /\ disk' = [disk EXCEPT ![saving[t].file] = temporary[saving[t].file]]
    /\ temporary' = [temporary EXCEPT ![saving[t].file] = NoFile]
    /\ Leave(t, FALSE)

\* OSError: the change stays in memory, and the handler does not catch it.
SaveFails(t) ==
    /\ saving[t].pc # "idle"
    /\ Leave(t, TRUE)
    /\ UNCHANGED <<disk, temporary>>

-----------------------------------------------------------------------------
Crash ==
    /\ up
    /\ up' = FALSE
    /\ events' = <<>>
    /\ undo' = <<>>
    /\ lock' = NoThread
    /\ saving' = [t \in Threads |-> Idle]
    /\ unsaved' = FALSE
    /\ UNCHANGED <<disk, temporary>>

\* What _restore accepts; it refuses to start with any other draft.
Restorable(content) ==
    /\ content # Torn
    /\ content # NoFile =>
        /\ Distinct(content)
        /\ \A i \in DOMAIN content : InIndex(RangeOf(content[i]))

Restored(content) == IF content = NoFile THEN <<>> ELSE Sorted(content)

Start ==
    /\ ~up
    /\ Restorable(disk["draft"])
    /\ up' = TRUE
    /\ events' = Restored(disk["draft"])
    /\ UNCHANGED <<undo, lock, saving, disk, temporary, unsaved>>

Init ==
    /\ events = <<>>
    /\ undo = <<>>
    /\ lock = NoThread
    /\ saving = [t \in Threads |-> Idle]
    /\ disk = [f \in Files |-> NoFile]
    /\ temporary = [f \in Files |-> NoFile]
    /\ unsaved = FALSE
    /\ up = FALSE

Request(t) ==
    \/ \E r \in Ranges : Create(t, r)
    \/ \E i \in DOMAIN events, r \in Ranges : Update(t, i, r)
    \/ \E i \in DOMAIN events : Delete(t, i)
    \/ Undo(t)
    \/ Export(t)

SaveStep(t) ==
    OpenTemporary(t) \/ WriteTemporary(t) \/ Replace(t) \/ SaveFails(t)

Next ==
    \/ \E t \in Threads : Request(t) \/ SaveStep(t)
    \/ \E r \in Ranges : Refuse(r)
    \/ Crash
    \/ Start

Spec == Init /\ [][Next]_vars

-----------------------------------------------------------------------------
(***************************************************************************)
(* Properties                                                              *)
(***************************************************************************)
Contents == Lists \cup {NoFile, Torn, Exported}

\* Lists hold events of the index, ids stay below the bound of the list, and the
\* stack keeps at most UndoLimit snapshots.
TypeOK ==
    /\ events \in Lists
    /\ undo \in Seq(Lists) /\ Len(undo) <= UndoLimit
    /\ lock \in Threads \cup {NoThread}
    /\ saving \in [Threads -> [pc : {"idle", "open", "write", "replace"},
                               file : Files, payload : Lists \cup {Exported}]]
    /\ disk \in [Files -> Contents]
    /\ temporary \in [Files -> Contents]
    /\ {unsaved, up} \subseteq BOOLEAN

\* Whenever no thread is inside the store, the draft is the list in memory, unless
\* the last save raised: threads never publish each other's lists or an older
\* one, and a start brings back what memory held, in its order.
SavedUnlessFailed ==
    up /\ lock = NoThread /\ ~unsaved =>
        \/ disk["draft"] = events
        \/ disk["draft"] = NoFile /\ events = <<>>

\* Wherever the process died, the next start accepts the draft, and restores it
\* element for element: _restore finds no torn file, double id or strange frame.
DraftRestarts ==
    LET content == disk["draft"]
    IN  Restorable(content) /\ (content # NoFile => Restored(content) = content)

\* Any list the operations can build, undone or restored ones included, passes the
\* loader's checks on ids, order and frames, so an export is never refused for
\* them; and no crash leaves the annotation half written.
ExportNeverRefused ==
    /\ events # <<>> => Accepted(events)
    /\ disk["annotation"] # Torn

OneEdit(old, new) ==
    \E id \in Ids :
        {e \in Range(old) : e.id # id} = {e \in Range(new) : e.id # id}

\* Each undo takes back at most one change of one event: neighbours on the stack
\* differ in one event, and so do its top and the list, also after the stack was
\* cut at its limit, after refusals, failed saves and undos.
UndoChain ==
    \A i \in DOMAIN undo :
        OneEdit(undo[i], IF i = Len(undo) THEN events ELSE undo[i + 1])
=============================================================================
