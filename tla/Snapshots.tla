------------------------------ MODULE Snapshots ------------------------------
(***************************************************************************)
(* Version history: the auto-snapshot scheduler, whose ticks may overlap,  *)
(* the requests that name a snapshot or restore one, retention, and the    *)
(* document they read while clients edit it and Hocuspocus stores it.      *)
(*                                                                         *)
(* server/src/snapshots/{scheduler,routes,yjs-access}.ts,                  *)
(* server/src/db/repositories/{snapshots,notes}.ts, and the first step of  *)
(* server/src/derived/hook.ts.                                             *)
(*                                                                         *)
(* Every change to a document gets a fresh revision number; the Yjs state  *)
(* of a document contains every change up to its revision, so a revision   *)
(* stands for a content.  A read of the document through a direct          *)
(* connection is a moment between two awaits, and so is each insert.       *)
(***************************************************************************)
EXTENDS Naturals, FiniteSets

CONSTANTS
    NumNotes,       \* notes are numbered in the order of created_at
    SnapIds,        \* uuids of snapshots that can exist at once
    Ticks,          \* scheduler ticks that can overlap
    Requests,       \* HTTP requests served at once
    Keep,           \* autoSnapshotRetention
    MaxClock,       \* bound: last instant of the run
    MaxRev          \* bound: changes made to the documents

ASSUME SnapshotsAssumption ==
    /\ NumNotes \in Nat \ {0}
    /\ Keep \in Nat \ {0}
    /\ MaxClock \in Nat
    /\ MaxRev \in Nat
    /\ IsFiniteSet(SnapIds)

NoteRows == 1..NumNotes
Times == 0..MaxClock
Revs == 0..MaxRev

VARIABLES
    note,       \* note[n]: "live", "trashed" or "gone"
    updated,    \* notes.updated_at
    exported,   \* the revision notes.markdown_export was made from
    doc,        \* the document in memory: its revision
    stored,     \* the revision in the `documents` table
    snaps,      \* rows of the snapshots table
    tick,       \* the scheduler ticks under way
    req,        \* the snapshot requests under way
    clock,
    lastRev     \* the last revision number given out (history)

vars == <<note, updated, exported, doc, stored, snaps, tick, req, clock, lastRev>>
noteVars == <<note, updated, exported>>
docVars == <<doc, stored, lastRev>>

------------------------------------------------------------------------------
(* State. *)

(* label is NULL unless kind is "named"; "tick" and "pre" tell the two     *)
(* makers of unlabeled rows apart, which the table does not.               *)
Snapshot ==
    [id: SnapIds, note: NoteRows, rev: Revs, created: Times,
     kind: {"tick", "pre", "named"}]

(* A tick: its `now`, the rows of listAll it has still to visit, with the  *)
(* updated_at they had when it began, the note it is at, the bytes read.   *)
Row == [note: NoteRows, updated: Times]
Tick ==
    [phase: {"idle", "reading", "encoded"}, now: Times, rows: SUBSET Row,
     at: NoteRows, rev: Revs]

Request ==
    [phase: {"idle", "reading", "encoded", "replacing"},
     kind: {"named", "restore"}, at: NoteRows, rev: Revs]

NoTick ==
    [phase |-> "idle", now |-> 0, rows |-> {}, at |-> 1, rev |-> 0]
NoRequest == [phase |-> "idle", kind |-> "named", at |-> 1, rev |-> 0]

TypeOK ==
    /\ note \in [NoteRows -> {"live", "trashed", "gone"}]
    /\ updated \in [NoteRows -> Times]
    /\ exported \in [NoteRows -> Revs]
    /\ doc \in [NoteRows -> Revs]
    /\ stored \in [NoteRows -> Revs]
    /\ snaps \in SUBSET Snapshot
    /\ tick \in [Ticks -> Tick]
    /\ req \in [Requests -> Request]
    /\ clock \in Times
    /\ lastRev \in Revs

Init ==
    /\ note = [n \in NoteRows |-> "live"]
    /\ updated = [n \in NoteRows |-> 0]
    /\ exported = [n \in NoteRows |-> 0]
    /\ doc = [n \in NoteRows |-> 0]
    /\ stored = [n \in NoteRows |-> 0]
    /\ snaps = {}
    /\ tick = [t \in Ticks |-> NoTick]
    /\ req = [r \in Requests |-> NoRequest]
    /\ clock = 0
    /\ lastRev = 0

Of(S, n) == {s \in S : s.note = n}
Autos(S, n) == {s \in Of(S, n) : s.kind # "named"}
FreeIds(S) == SnapIds \ {s.id : s \in S}

(* pruneAutoSnapshots: all but the `keep` newest unlabeled rows go; SQLite *)
(* breaks ties of created_at as it likes.                                  *)
Pruned(S, T, n) ==
    /\ T \subseteq S
    /\ S \ T \subseteq Autos(S, n)
    /\ Cardinality(Autos(T, n)) =
         IF Cardinality(Autos(S, n)) > Keep THEN Keep
                                            ELSE Cardinality(Autos(S, n))
    /\ \A d \in S \ T, k \in Autos(T, n) : k.created >= d.created

(* Faulty: the restore path forgets the prune.                             *)
InsertPrunesTicksOnly(n, rev, created, kind) ==
    \E i \in FreeIds(snaps) :
        LET s == [id |-> i, note |-> n, rev |-> rev, created |-> created,
                  kind |-> kind]
        IN  IF kind # "tick"
            THEN snaps' = snaps \cup {s}
            ELSE /\ snaps' \in SUBSET (snaps \cup {s})
                 /\ Pruned(snaps \cup {s}, snaps', n)

(* snapshots.insert, then the prune an unlabeled row is followed by.  The  *)
(* foreign key refuses the row of a note that is gone.                     *)
Insert(n, rev, created, kind) ==
    \E i \in FreeIds(snaps) :
        LET s == [id |-> i, note |-> n, rev |-> rev, created |-> created,
                  kind |-> kind]
        IN  IF kind = "named"
            THEN snaps' = snaps \cup {s}
            ELSE /\ snaps' \in SUBSET (snaps \cup {s})
                 /\ Pruned(snaps \cup {s}, snaps', n)

------------------------------------------------------------------------------
(* The scheduler. *)

(* The test of the loop body: the latest snapshot is older than the        *)
(* updated_at that listAll returned.                                       *)
Stale(S, n, updatedAt) == \A s \in Of(S, n) : s.created < updatedAt

(* The rows the loop will stop at: it skips on to the first without an     *)
(* await.                                                                  *)
ToRead(S, t) == {w \in t.rows : Stale(S, w.note, w.updated)}
FirstOf(W) == {w \in W : \A v \in W : w.note <= v.note}

(* Faulty: an off-by-one in the loop over the rows.                        *)
AdvancePastRow(S, t) ==
    IF ToRead(S, t) = {} THEN {NoTick}
    ELSE {[phase |-> "reading", now |-> t.now, at |-> w.note + 1, rev |-> 0,
           rows |-> {v \in t.rows : v.note > w.note}] :
            w \in FirstOf(ToRead(S, t))}

(* Where the tick t goes with the rows S in the table: to the await of the *)
(* next read, or to its end.                                               *)
Advance(S, t) ==
    IF ToRead(S, t) = {} THEN {NoTick}
    ELSE {[phase |-> "reading", now |-> t.now, at |-> w.note, rev |-> 0,
           rows |-> {v \in t.rows : v.note > w.note}] :
            w \in FirstOf(ToRead(S, t))}

(* setInterval fires, whether or not the previous tick is over.            *)
TickBegin(t) ==
    /\ tick[t] = NoTick
    /\ LET rows == {[note |-> n, updated |-> updated[n]] :
                       n \in {k \in NoteRows : note[k] = "live"}}
           begun == [NoTick EXCEPT !.now = clock, !.rows = rows]
       IN  \E u \in Advance(snaps, begun) : tick' = [tick EXCEPT ![t] = u]
    /\ UNCHANGED <<noteVars, docVars, snaps, req, clock>>

(* The transact callback of yjs.read.                                      *)
TickEncode(t) ==
    /\ tick[t].phase = "reading"
    /\ tick' = [tick EXCEPT ![t].phase = "encoded", ![t].rev = doc[tick[t].at]]
    /\ UNCHANGED <<noteVars, docVars, snaps, req, clock>>

(* Faulty: created_at is the time of the insert, as in the routes.         *)
TickInsertStampsLate(t) ==
    /\ tick[t].phase = "encoded"
    /\ IF note[tick[t].at] = "gone"
       THEN tick' = [tick EXCEPT ![t] = NoTick] /\ UNCHANGED snaps
       ELSE /\ Insert(tick[t].at, tick[t].rev, clock, "tick")
            /\ \E u \in Advance(snaps', tick[t]) :
                  tick' = [tick EXCEPT ![t] = u]
    /\ UNCHANGED <<noteVars, docVars, req, clock>>

(* Faulty: the error of the insert leaves the tick marked as running.      *)
TickInsertStuck(t) ==
    /\ tick[t].phase = "encoded"
    /\ note[tick[t].at] # "gone"
    /\ Insert(tick[t].at, tick[t].rev, tick[t].now, "tick")
    /\ \E u \in Advance(snaps', tick[t]) : tick' = [tick EXCEPT ![t] = u]
    /\ UNCHANGED <<noteVars, docVars, req, clock>>

(* After the read: insert with created_at = now, prune, next note.  A note *)
(* purged meanwhile makes the insert throw, which ends the tick.           *)
TickInsert(t) ==
    /\ tick[t].phase = "encoded"
    /\ IF note[tick[t].at] = "gone"
       THEN tick' = [tick EXCEPT ![t] = NoTick] /\ UNCHANGED snaps
       ELSE /\ Insert(tick[t].at, tick[t].rev, tick[t].now, "tick")
            /\ \E u \in Advance(snaps', tick[t]) :
                  tick' = [tick EXCEPT ![t] = u]
    /\ UNCHANGED <<noteVars, docVars, req, clock>>

------------------------------------------------------------------------------
(* Requests. *)

(* POST /notes/:id/snapshots, up to the await of the read.                 *)
NamedBegin(r, n) ==
    /\ req[r] = NoRequest
    /\ note[n] = "live"
    /\ req' = [req EXCEPT ![r] = [NoRequest EXCEPT !.phase = "reading", !.at = n]]
    /\ UNCHANGED <<noteVars, docVars, snaps, tick, clock>>

(* POST .../restore, up to the await of the read.  The target row is in    *)
(* memory from here on: what happens to it in the table does not matter.   *)
RestoreBegin(r, s) ==
    /\ req[r] = NoRequest
    /\ note[s.note] = "live"
    /\ req' = [req EXCEPT ![r] = [NoRequest EXCEPT !.phase = "reading",
                                                   !.kind = "restore",
                                                   !.at = s.note]]
    /\ UNCHANGED <<noteVars, docVars, snaps, tick, clock>>

RequestEncode(r) ==
    /\ req[r].phase = "reading"
    /\ req' = [req EXCEPT ![r].phase = "encoded", ![r].rev = doc[req[r].at]]
    /\ UNCHANGED <<noteVars, docVars, snaps, tick, clock>>

(* The insert throws: the request answers 500.                             *)
RequestFails(r) ==
    /\ req[r].phase = "encoded"
    /\ note[req[r].at] = "gone"
    /\ req' = [req EXCEPT ![r] = NoRequest]
    /\ UNCHANGED <<noteVars, docVars, snaps, tick, clock>>

(* created_at is the time of the insert, after the read.                   *)
NamedInsert(r) ==
    /\ req[r].phase = "encoded" /\ req[r].kind = "named"
    /\ note[req[r].at] # "gone"
    /\ Insert(req[r].at, req[r].rev, clock, "named")
    /\ req' = [req EXCEPT ![r] = NoRequest]
    /\ UNCHANGED <<noteVars, docVars, tick, clock>>

PreRestoreInsert(r) ==
    /\ req[r].phase = "encoded" /\ req[r].kind = "restore"
    /\ note[req[r].at] # "gone"
    /\ Insert(req[r].at, req[r].rev, clock, "pre")
    /\ req' = [req EXCEPT ![r].phase = "replacing"]
    /\ UNCHANGED <<noteVars, docVars, tick, clock>>

(* A change of the document, whoever makes it.                             *)
Change(n) ==
    /\ lastRev < MaxRev
    /\ lastRev' = lastRev + 1
    /\ doc' = [doc EXCEPT ![n] = lastRev + 1]
    /\ UNCHANGED stored

(* yjs.replace: the fragment is cleared and refilled in one transaction.   *)
Replace(r) ==
    /\ req[r].phase = "replacing"
    /\ Change(req[r].at)
    /\ req' = [req EXCEPT ![r] = NoRequest]
    /\ UNCHANGED <<noteVars, snaps, tick, clock>>

------------------------------------------------------------------------------
(* The document, its note, and the process. *)

(* A client's update reaches the server; nothing stops one on a trashed    *)
(* or purged note.                                                         *)
Edit(n) ==
    /\ Change(n)
    /\ UNCHANGED <<noteVars, snaps, tick, req, clock>>

(* A direct connection to n is open: it may make Hocuspocus store at once, *)
(* changed or not.                                                         *)
DirectOpen(n) ==
    \/ \E t \in Ticks : tick[t].phase = "encoded" /\ tick[t].at = n
    \/ \E r \in Requests : req[r].phase = "encoded" /\ req[r].at = n

(* Hocuspocus stores the document, and the derived-state hook exports it   *)
(* unless its note is trashed or gone.                                     *)
Store(n) ==
    /\ doc[n] # stored[n] \/ DirectOpen(n)
    /\ stored' = [stored EXCEPT ![n] = doc[n]]
    /\ IF note[n] = "live"
       THEN /\ exported' = [exported EXCEPT ![n] = doc[n]]
            /\ updated' = [updated EXCEPT ![n] = clock]
       ELSE UNCHANGED <<exported, updated>>
    /\ UNCHANGED <<note, doc, lastRev, snaps, tick, req, clock>>

(* PATCH /notes/:id with a new title.                                      *)
Rename(n) ==
    /\ note[n] # "gone"
    /\ updated' = [updated EXCEPT ![n] = clock]
    /\ UNCHANGED <<note, exported, docVars, snaps, tick, req, clock>>

TrashNote(n) ==
    /\ note[n] = "live"
    /\ note' = [note EXCEPT ![n] = "trashed"]
    /\ UNCHANGED <<updated, exported, docVars, snaps, tick, req, clock>>

RestoreNote(n) ==
    /\ note[n] = "trashed"
    /\ note' = [note EXCEPT ![n] = "live"]
    /\ UNCHANGED <<updated, exported, docVars, snaps, tick, req, clock>>

(* hardDelete or purgeOlderThan, with ON DELETE CASCADE.                   *)
PurgeNote(n) ==
    /\ note[n] = "trashed"
    /\ note' = [note EXCEPT ![n] = "gone"]
    /\ snaps' = snaps \ Of(snaps, n)
    /\ UNCHANGED <<updated, exported, docVars, tick, req, clock>>

TimePasses ==
    /\ clock < MaxClock
    /\ clock' = clock + 1
    /\ UNCHANGED <<noteVars, docVars, snaps, tick, req>>

(* The process dies and boots again: documents come back as stored.        *)
Crash ==
    /\ doc' = stored
    /\ tick' = [t \in Ticks |-> NoTick]
    /\ req' = [r \in Requests |-> NoRequest]
    /\ UNCHANGED <<noteVars, stored, lastRev, snaps, clock>>

TickStep(t) == TickBegin(t) \/ TickEncode(t) \/ TickInsert(t)

Next ==
    \/ \E t \in Ticks : TickStep(t)
    \/ \E r \in Requests :
        \/ \E n \in NoteRows : NamedBegin(r, n)
        \/ \E s \in snaps : RestoreBegin(r, s)
        \/ RequestEncode(r)
        \/ RequestFails(r)
        \/ NamedInsert(r)
        \/ PreRestoreInsert(r)
        \/ Replace(r)
    \/ \E n \in NoteRows :
        \/ Edit(n)
        \/ Store(n)
        \/ Rename(n)
        \/ TrashNote(n)
        \/ RestoreNote(n)
        \/ PurgeNote(n)
    \/ TimePasses
    \/ Crash

Spec == Init /\ [][Next]_vars

(* The interval fires again and again, and a read and an insert end: one   *)
(* condition for the three, as a tick is at one of them at a time.         *)
(* Requests, clients and the operator owe nothing.                         *)
TickFairness ==
    \A t \in Ticks : WF_vars(TickStep(t))

------------------------------------------------------------------------------
(* Properties. *)

(* Retention: however ticks and restores overlap, no note ever has more    *)
(* than Keep unlabeled snapshots, and snapshots only of notes that exist.  *)
AutosBounded ==
    /\ \A n \in NoteRows : Cardinality(Autos(snaps, n)) <= Keep
    /\ \A s \in snaps : note[s.note] # "gone"

(* created_at of a scheduled snapshot is the start of its tick, not the    *)
(* time of its insert.  So when the scheduler skips a note because of one  *)
(* that is newer than updated_at, that snapshot has every exported change. *)
ScheduledIsCurrent ==
    \A s \in snaps :
        s.kind = "tick" /\ s.created > updated[s.note]
            => s.rev >= exported[s.note]

(* PRD 8.3: an auto-snapshot is due whenever the document changed since    *)
(* the previous snapshot.  So a note the scheduler would skip, because     *)
(* some snapshot is newer than updated_at, has its exported changes in a   *)
(* snapshot.                                                               *)
SkipMeansCaptured ==
    \A n \in NoteRows :
        note[n] = "live" /\ (\E s \in Of(snaps, n) : s.created > updated[n])
            => \E s \in Of(snaps, n) : s.rev >= exported[n]

(* What the scheduler itself owes: unless the server goes on dying, every  *)
(* exported change of a note gets into a snapshot while the note is live,  *)
(* although a tick ends when one note it stopped at was purged and the     *)
(* notes after it are left for the next.  Excepted is a snapshot stamped   *)
(* in the same instant as the change, which counts as having it.  Stated   *)
(* where no request makes snapshots: what one of those can hide from the   *)
(* scheduler is the matter of SkipMeansCaptured.                           *)
ChangesCaptured ==
    <>[][~ Crash]_vars =>
        \A n \in NoteRows, v \in Revs \ {0} :
            (note[n] = "live" /\ exported[n] = v)
                ~> \/ note[n] # "live"
                   \/ \E s \in Of(snaps, n) : s.rev >= v \/ s.created = updated[n]

(* PRD 8.3 and routes.ts: the pre-restore snapshot makes a restore         *)
(* undoable, so what a restore replaces is what that snapshot holds.       *)
RestoreUndoable ==
    [][\A r \in Requests : Replace(r) => req[r].rev = doc[req[r].at]]_vars

------------------------------------------------------------------------------
(* The inductive invariant behind AutosBounded and ScheduledIsCurrent.     *)

(* Nothing is exported that is not in the document, before or after a      *)
(* crash, and the next change gets a higher number than all of it.         *)
RevInv ==
    \A n \in NoteRows :
        /\ exported[n] <= doc[n] /\ exported[n] <= stored[n]
        /\ doc[n] <= lastRev /\ stored[n] <= lastRev

TimeInv ==
    /\ \A n \in NoteRows : updated[n] <= clock
    /\ \A t \in Ticks : tick[t].now <= clock
    /\ \A s \in snaps : s.created <= clock

(* The bytes a tick holds are behind the export only if the note was       *)
(* stored after the tick began.                                            *)
TickInv ==
    \A t \in Ticks :
        tick[t].phase = "encoded" /\ tick[t].now > updated[tick[t].at]
            => tick[t].rev >= exported[tick[t].at]

IInv ==
    /\ TypeOK
    /\ IsFiniteSet(snaps)
    /\ AutosBounded
    /\ RevInv
    /\ TimeInv
    /\ TickInv
    /\ ScheduledIsCurrent

==============================================================================
