--------------------------- MODULE SnapshotsProofs ---------------------------
(***************************************************************************)
(* Machine-checked proofs about Snapshots, for any number of notes, ticks, *)
(* requests and snapshots, any retention, and any bounds of the run.       *)
(***************************************************************************)
EXTENDS Snapshots, FiniteSetTheorems, TLAPS

------------------------------------------------------------------------------
(* Lemmas. *)

(* The numbers of the model are naturals.                                  *)
LEMMA Naturalness ==
    /\ \A n \in NoteRows : n \in Nat
    /\ \A x \in Times : x \in Nat
    /\ \A x \in Revs : x \in Nat
    /\ 0 \in Times /\ 0 \in Revs /\ 1 \in NoteRows
BY SnapshotsAssumption, SMT DEF NoteRows, Times, Revs

(* The idle records are records of their types.                            *)
LEMMA IdleTyped == NoTick \in Tick /\ NoRequest \in Request
<1>1. NoTick \in Tick
  BY Naturalness DEF NoTick, Tick
<1>2. NoRequest \in Request
  BY Naturalness DEF NoRequest, Request
<1>. QED BY <1>1, <1>2

(* The unlabeled rows of a finite table are finitely many.                 *)
LEMMA AutosFinite ==
    ASSUME NEW S, IsFiniteSet(S), NEW n
    PROVE  IsFiniteSet(Autos(S, n)) /\ Cardinality(Autos(S, n)) \in Nat
<1>1. Autos(S, n) \subseteq S
  BY DEF Autos, Of
<1>2. IsFiniteSet(Autos(S, n))
  BY <1>1, FS_Subset
<1>. QED BY <1>2, FS_CardinalityType

(* What an insert leaves in the table: rows that were there and at most    *)
(* one that was not, never more than Keep unlabeled ones of a note.        *)
LEMMA InsertKeeps ==
    ASSUME TypeOK, IsFiniteSet(snaps), AutosBounded,
           NEW n \in NoteRows, NEW rev \in Revs, NEW created \in Times,
           NEW kind \in {"tick", "pre", "named"},
           Insert(n, rev, created, kind)
    PROVE  /\ snaps' \in SUBSET Snapshot
           /\ IsFiniteSet(snaps')
           /\ \A m \in NoteRows : Cardinality(Autos(snaps', m)) <= Keep
           /\ \A s \in snaps' :
                 \/ s \in snaps
                 \/ /\ s.note = n /\ s.rev = rev
                    /\ s.created = created /\ s.kind = kind
<1>. PICK i \in FreeIds(snaps) :
        LET s == [id |-> i, note |-> n, rev |-> rev, created |-> created,
                  kind |-> kind]
        IN  IF kind = "named"
            THEN snaps' = snaps \cup {s}
            ELSE /\ snaps' \in SUBSET (snaps \cup {s})
                 /\ Pruned(snaps \cup {s}, snaps', n)
  BY DEF Insert
<1>. DEFINE s0 == [id |-> i, note |-> n, rev |-> rev, created |-> created,
                   kind |-> kind]
            S0 == snaps \cup {s0}
<1>0. IF kind = "named" THEN snaps' = S0
      ELSE snaps' \in SUBSET S0 /\ Pruned(S0, snaps', n)
  OBVIOUS
<1>1. /\ s0 \in Snapshot
      /\ s0.note = n /\ s0.rev = rev /\ s0.created = created /\ s0.kind = kind
  BY DEF Snapshot, FreeIds
<1>2. IsFiniteSet(S0)
  BY FS_AddElement
<1>. HIDE DEF s0
<1>3. snaps' \subseteq S0
  BY <1>0
<1>4. snaps' \in SUBSET Snapshot
  BY <1>3, <1>1 DEF TypeOK
<1>5. IsFiniteSet(snaps')
  BY <1>3, <1>2, FS_Subset
<1>6. \A s \in snaps' :
         s \in snaps \/ ( /\ s.note = n /\ s.rev = rev
                          /\ s.created = created /\ s.kind = kind)
  BY <1>3, <1>1
<1>7. \A m \in NoteRows : Cardinality(Autos(snaps', m)) <= Keep
  <2>. SUFFICES ASSUME NEW m \in NoteRows
                PROVE  Cardinality(Autos(snaps', m)) <= Keep
    OBVIOUS
  <2>1. Cardinality(Autos(snaps, m)) <= Keep
    BY DEF AutosBounded
  <2>2. CASE kind = "named"
    <3>1. Autos(snaps', m) = Autos(snaps, m)
      BY <1>0, <1>1, <2>2 DEF Autos, Of
    <3>. QED BY <3>1, <2>1
  <2>3. CASE kind # "named" /\ m # n
    <3>1. S0 \ snaps' \subseteq Autos(S0, n)
      BY <1>0, <2>3 DEF Pruned
    <3>2. Autos(snaps', m) = Autos(snaps, m)
      BY <3>1, <1>3, <1>1, <2>3 DEF Autos, Of
    <3>. QED BY <3>2, <2>1
  <2>4. CASE kind # "named" /\ m = n
    <3>1. Cardinality(Autos(snaps', n)) =
            IF Cardinality(Autos(S0, n)) > Keep THEN Keep
                                                ELSE Cardinality(Autos(S0, n))
      BY <1>0, <2>4 DEF Pruned
    <3>2. Cardinality(Autos(S0, n)) \in Nat
      BY <1>2, AutosFinite
    <3>. HIDE DEF S0
    <3>. QED BY <3>1, <3>2, <2>4, SnapshotsAssumption
  <2>. QED BY <2>2, <2>3, <2>4
<1>. QED BY <1>4, <1>5, <1>6, <1>7

(* A tick that goes on holds no bytes yet, and keeps its `now`.            *)
LEMMA AdvanceKeeps ==
    ASSUME NEW S, NEW t \in Tick, NEW u \in Advance(S, t)
    PROVE  /\ u \in Tick
           /\ u.phase # "encoded"
           /\ u.now = 0 \/ u.now = t.now
<1>1. CASE u = NoTick
  BY <1>1, IdleTyped DEF NoTick
<1>2. CASE u # NoTick
  <2>1. PICK w \in FirstOf(ToRead(S, t)) :
          u = [phase |-> "reading", now |-> t.now, at |-> w.note, rev |-> 0,
               rows |-> {v \in t.rows : v.note > w.note}]
    BY <1>2 DEF Advance
  <2>2. w \in Row /\ t.rows \in SUBSET Row /\ t.now \in Times
    BY DEF FirstOf, ToRead, Tick
  <2>3. w.note \in NoteRows
    BY <2>2 DEF Row
  <2>4. {v \in t.rows : v.note > w.note} \in SUBSET Row
    BY <2>2
  <2>. QED BY <2>1, <2>2, <2>3, <2>4, Naturalness DEF Tick
<1>. QED BY <1>1, <1>2

------------------------------------------------------------------------------
(* The invariant. *)

LEMMA Initially == Init => IInv
<1>. SUFFICES ASSUME Init PROVE IInv
  OBVIOUS
<1>1. TypeOK
  BY Naturalness, IdleTyped DEF Init, TypeOK
<1>2. IsFiniteSet(snaps)
  BY FS_EmptySet DEF Init
<1>3. AutosBounded
  <2>1. \A n \in NoteRows : Autos(snaps, n) = {}
    BY DEF Init, Autos, Of
  <2>. QED BY <2>1, FS_EmptySet, SnapshotsAssumption DEF Init, AutosBounded
<1>4. RevInv /\ TimeInv
  BY DEF Init, RevInv, TimeInv, NoTick
<1>5. TickInv /\ ScheduledIsCurrent
  BY DEF Init, TickInv, ScheduledIsCurrent, NoTick
<1>. QED BY <1>1, <1>2, <1>3, <1>4, <1>5 DEF IInv

(* What the parts of the invariant that speak of the table need of a step  *)
(* that leaves the table and the notes' existence alone.                   *)
LEMMA TableUntouched ==
    ASSUME IInv, UNCHANGED <<note, snaps>>
    PROVE  IsFiniteSet(snaps') /\ AutosBounded'
BY DEF IInv, AutosBounded, Autos, Of

(* A step that leaves notes and documents alone, and the table or the      *)
(* ticks, keeps the parts about what it leaves.                            *)
LEMMA NumbersUntouched ==
    ASSUME IInv, UNCHANGED <<noteVars, docVars, clock>>
    PROVE  RevInv' /\ (\A n \in NoteRows : updated'[n] <= clock')
BY DEF IInv, RevInv, TimeInv, noteVars, docVars

LEMMA TickBeginKeeps ==
    ASSUME IInv, NEW t \in Ticks, TickBegin(t)
    PROVE  IInv'
<1>. DEFINE rows == {[note |-> n, updated |-> updated[n]] :
                       n \in {k \in NoteRows : note[k] = "live"}}
            begun == [NoTick EXCEPT !.now = clock, !.rows = rows]
<1>1. PICK u \in Advance(snaps, begun) : tick' = [tick EXCEPT ![t] = u]
  BY DEF TickBegin
<1>2. UNCHANGED <<note, updated, exported, doc, stored, lastRev, snaps, req, clock>>
  BY DEF TickBegin, noteVars, docVars
<1>3. begun \in Tick /\ begun.now = clock
  <2>1. rows \in SUBSET Row
    BY DEF IInv, TypeOK, Row
  <2>2. clock \in Times
    BY DEF IInv, TypeOK
  <2>. QED BY <2>1, <2>2, Naturalness DEF NoTick, Tick
<1>. HIDE DEF begun
<1>4. u \in Tick /\ u.phase # "encoded" /\ (u.now = 0 \/ u.now = clock)
  BY <1>1, <1>3, AdvanceKeeps
<1>5. TypeOK'
  BY <1>1, <1>2, <1>4 DEF IInv, TypeOK
<1>6. IsFiniteSet(snaps') /\ AutosBounded'
  BY <1>2, TableUntouched
<1>7. RevInv' /\ (\A n \in NoteRows : updated'[n] <= clock')
  BY <1>2, NumbersUntouched DEF noteVars, docVars
<1>8. TimeInv'
  <2>1. clock \in Nat
    BY Naturalness DEF IInv, TypeOK
  <2>. QED BY <1>1, <1>2, <1>4, <1>7, <2>1 DEF IInv, TypeOK, TimeInv
<1>9. TickInv'
  BY <1>1, <1>2, <1>4 DEF IInv, TypeOK, TickInv
<1>10. ScheduledIsCurrent'
  BY <1>2 DEF IInv, ScheduledIsCurrent
<1>. QED BY <1>5, <1>6, <1>7, <1>8, <1>9, <1>10 DEF IInv

LEMMA TickEncodeKeeps ==
    ASSUME IInv, NEW t \in Ticks, TickEncode(t)
    PROVE  IInv'
<1>1. UNCHANGED <<note, updated, exported, doc, stored, lastRev, snaps, req, clock>>
  BY DEF TickEncode, noteVars, docVars
<1>2. tick[t] \in Tick /\ tick[t].at \in NoteRows /\ doc[tick[t].at] \in Revs
  BY DEF IInv, TypeOK, Tick
<1>. DEFINE u == [tick[t] EXCEPT !.phase = "encoded", !.rev = doc[tick[t].at]]
<1>3. tick' = [tick EXCEPT ![t] = u]
  BY <1>2 DEF TickEncode, IInv, TypeOK, Tick
<1>4. /\ u \in Tick /\ u.now = tick[t].now /\ u.at = tick[t].at
      /\ u.rev = doc[tick[t].at]
  BY <1>2 DEF Tick
<1>. HIDE DEF u
<1>5. TypeOK'
  BY <1>1, <1>3, <1>4 DEF IInv, TypeOK
<1>6. IsFiniteSet(snaps') /\ AutosBounded'
  BY <1>1, TableUntouched
<1>7. RevInv' /\ (\A n \in NoteRows : updated'[n] <= clock')
  BY <1>1, NumbersUntouched DEF noteVars, docVars
<1>8. TimeInv'
  BY <1>1, <1>3, <1>4, <1>7 DEF IInv, TypeOK, TimeInv
<1>9. TickInv'
  <2>1. exported[tick[t].at] <= doc[tick[t].at]
    BY <1>2 DEF IInv, RevInv
  <2>. QED BY <1>1, <1>2, <1>3, <1>4, <2>1, Naturalness DEF IInv, TypeOK, TickInv
<1>10. ScheduledIsCurrent'
  BY <1>1 DEF IInv, ScheduledIsCurrent
<1>. QED BY <1>5, <1>6, <1>7, <1>8, <1>9, <1>10 DEF IInv

LEMMA TickInsertKeeps ==
    ASSUME IInv, NEW t \in Ticks, TickInsert(t)
    PROVE  IInv'
<1>1. UNCHANGED <<note, updated, exported, doc, stored, lastRev, req, clock>>
  BY DEF TickInsert, noteVars, docVars
<1>2. /\ tick[t] \in Tick /\ tick[t].at \in NoteRows /\ tick[t].rev \in Revs
      /\ tick[t].now \in Times /\ tick[t].phase = "encoded"
  BY DEF IInv, TypeOK, Tick, TickInsert
<1>3. RevInv' /\ (\A n \in NoteRows : updated'[n] <= clock')
  BY <1>1, NumbersUntouched DEF noteVars, docVars
<1>4. CASE note[tick[t].at] = "gone"
  <2>1. tick' = [tick EXCEPT ![t] = NoTick] /\ UNCHANGED snaps
    BY <1>4 DEF TickInsert
  <2>2. TypeOK'
    BY <1>1, <2>1, IdleTyped DEF IInv, TypeOK
  <2>3. IsFiniteSet(snaps') /\ AutosBounded'
    BY <1>1, <2>1, TableUntouched
  <2>4. TimeInv'
    <3>1. clock \in Nat
      BY Naturalness DEF IInv, TypeOK
    <3>. QED BY <1>1, <1>3, <2>1, <3>1 DEF IInv, TypeOK, TimeInv, NoTick
  <2>5. TickInv'
    BY <1>1, <2>1 DEF IInv, TypeOK, TickInv, NoTick
  <2>6. ScheduledIsCurrent'
    BY <1>1, <2>1 DEF IInv, ScheduledIsCurrent
  <2>. QED BY <1>3, <2>2, <2>3, <2>4, <2>5, <2>6 DEF IInv
<1>5. CASE note[tick[t].at] # "gone"
  <2>1. Insert(tick[t].at, tick[t].rev, tick[t].now, "tick")
    BY <1>5 DEF TickInsert
  <2>2. PICK u \in Advance(snaps', tick[t]) : tick' = [tick EXCEPT ![t] = u]
    BY <1>5 DEF TickInsert
  <2>3. u \in Tick /\ u.phase # "encoded" /\ (u.now = 0 \/ u.now = tick[t].now)
    BY <1>2, <2>2, AdvanceKeeps
  <2>. DEFINE n == tick[t].at
  <2>4. /\ snaps' \in SUBSET Snapshot
        /\ IsFiniteSet(snaps')
        /\ \A m \in NoteRows : Cardinality(Autos(snaps', m)) <= Keep
        /\ \A s \in snaps' :
              s \in snaps \/ ( /\ s.note = n /\ s.rev = tick[t].rev
                              /\ s.created = tick[t].now /\ s.kind = "tick")
    BY <1>2, <2>1, InsertKeeps DEF IInv
  <2>5. TypeOK'
    BY <1>1, <2>2, <2>3, <2>4 DEF IInv, TypeOK
  <2>6. AutosBounded'
    BY <1>1, <1>5, <2>4 DEF IInv, AutosBounded
  <2>7. TimeInv'
    <3>1. clock \in Nat
      BY Naturalness DEF IInv, TypeOK
    <3>2. \A k \in Ticks : tick'[k].now <= clock'
      BY <1>1, <2>2, <2>3, <3>1 DEF IInv, TypeOK, TimeInv
    <3>3. \A s \in snaps' : s.created <= clock'
      BY <1>1, <2>4 DEF IInv, TimeInv
    <3>. QED BY <1>3, <3>2, <3>3 DEF TimeInv
  <2>8. TickInv'
    BY <1>1, <2>2, <2>3 DEF IInv, TypeOK, TickInv
  <2>9. ScheduledIsCurrent'
    BY <1>1, <1>2, <2>4 DEF IInv, ScheduledIsCurrent, TickInv
  <2>. QED BY <1>3, <2>4, <2>5, <2>6, <2>7, <2>8, <2>9 DEF IInv
<1>. QED BY <1>4, <1>5

(* A step of a request that leaves the table and the documents alone.      *)
LEMMA RequestMoves ==
    ASSUME IInv, NEW r \in Requests, NEW q \in Request,
           req' = [req EXCEPT ![r] = q],
           UNCHANGED <<noteVars, docVars, snaps, tick, clock>>
    PROVE  IInv'
<1>1. UNCHANGED <<note, updated, exported, doc, stored, lastRev, snaps, tick, clock>>
  BY DEF noteVars, docVars
<1>2. TypeOK'
  BY <1>1 DEF IInv, TypeOK
<1>3. IsFiniteSet(snaps') /\ AutosBounded'
  BY <1>1, TableUntouched
<1>4. RevInv' /\ TimeInv' /\ TickInv' /\ ScheduledIsCurrent'
  BY <1>1 DEF IInv, RevInv, TimeInv, TickInv, ScheduledIsCurrent
<1>. QED BY <1>2, <1>3, <1>4 DEF IInv

(* A step of a request that inserts a row that no tick made.               *)
LEMMA RequestInserts ==
    ASSUME IInv, NEW r \in Requests, NEW q \in Request,
           req' = [req EXCEPT ![r] = q],
           NEW kind \in {"pre", "named"},
           note[req[r].at] # "gone",
           Insert(req[r].at, req[r].rev, clock, kind),
           UNCHANGED <<noteVars, docVars, tick, clock>>
    PROVE  IInv'
<1>1. UNCHANGED <<note, updated, exported, doc, stored, lastRev, tick, clock>>
  BY DEF noteVars, docVars
<1>2. req[r].at \in NoteRows /\ req[r].rev \in Revs /\ clock \in Times
  BY DEF IInv, TypeOK, Request
<1>3. /\ snaps' \in SUBSET Snapshot
      /\ IsFiniteSet(snaps')
      /\ \A m \in NoteRows : Cardinality(Autos(snaps', m)) <= Keep
      /\ \A s \in snaps' :
            \/ s \in snaps
            \/ s.note = req[r].at /\ s.created = clock /\ s.kind = kind
  BY <1>2, InsertKeeps DEF IInv
<1>4. TypeOK'
  BY <1>1, <1>3 DEF IInv, TypeOK
<1>5. AutosBounded'
  BY <1>1, <1>3 DEF IInv, AutosBounded
<1>6. RevInv' /\ TickInv'
  BY <1>1 DEF IInv, RevInv, TickInv
<1>7. TimeInv'
  <2>1. clock \in Nat
    BY Naturalness DEF IInv, TypeOK
  <2>. QED BY <1>1, <1>3, <2>1 DEF IInv, TimeInv
<1>8. ScheduledIsCurrent'
  BY <1>1, <1>3 DEF IInv, ScheduledIsCurrent
<1>. QED BY <1>3, <1>4, <1>5, <1>6, <1>7, <1>8 DEF IInv

LEMMA RequestKeeps ==
    ASSUME IInv, NEW r \in Requests,
           \/ \E n \in NoteRows : NamedBegin(r, n)
           \/ \E s \in snaps : RestoreBegin(r, s)
           \/ RequestEncode(r)
           \/ RequestFails(r)
           \/ NamedInsert(r)
           \/ PreRestoreInsert(r)
    PROVE  IInv'
<1>1. /\ req \in [Requests -> Request] /\ req[r].at \in NoteRows
      /\ req[r].rev \in Revs
  BY DEF IInv, TypeOK, Request
<1>2. ASSUME NEW n \in NoteRows, NamedBegin(r, n) PROVE IInv'
  <2>1. [NoRequest EXCEPT !.phase = "reading", !.at = n] \in Request
    BY Naturalness DEF NoRequest, Request
  <2>. QED BY <1>2, <2>1, RequestMoves DEF NamedBegin
<1>3. ASSUME NEW s \in snaps, RestoreBegin(r, s) PROVE IInv'
  <2>1. s.note \in NoteRows
    BY DEF IInv, TypeOK, Snapshot
  <2>2. [NoRequest EXCEPT !.phase = "reading", !.kind = "restore", !.at = s.note]
          \in Request
    BY <2>1, Naturalness DEF NoRequest, Request
  <2>. QED BY <1>3, <2>2, RequestMoves DEF RestoreBegin
<1>4. CASE RequestEncode(r)
  <2>. DEFINE q == [req[r] EXCEPT !.phase = "encoded", !.rev = doc[req[r].at]]
  <2>1. doc[req[r].at] \in Revs
    BY <1>1 DEF IInv, TypeOK
  <2>2. q \in Request
    BY <1>1, <2>1 DEF Request
  <2>3. req' = [req EXCEPT ![r] = q]
    BY <1>1, <1>4 DEF RequestEncode
  <2>. HIDE DEF q
  <2>. QED BY <1>4, <2>2, <2>3, RequestMoves DEF RequestEncode
<1>5. CASE RequestFails(r)
  BY <1>5, IdleTyped, RequestMoves DEF RequestFails
<1>6. CASE NamedInsert(r)
  BY <1>6, IdleTyped, RequestInserts DEF NamedInsert
<1>7. CASE PreRestoreInsert(r)
  <2>. DEFINE q == [req[r] EXCEPT !.phase = "replacing"]
  <2>1. q \in Request
    BY <1>1 DEF Request
  <2>2. req' = [req EXCEPT ![r] = q]
    BY <1>1, <1>7 DEF PreRestoreInsert
  <2>. HIDE DEF q
  <2>. QED BY <1>7, <2>1, <2>2, RequestInserts DEF PreRestoreInsert
<1>. QED BY <1>2, <1>3, <1>4, <1>5, <1>6, <1>7

(* A change of a document, by a client or by a restore.                    *)
LEMMA ChangeKeeps ==
    ASSUME IInv, NEW n \in NoteRows, Change(n),
           UNCHANGED <<noteVars, snaps, tick, clock>>,
           req' \in [Requests -> Request]
    PROVE  IInv'
<1>1. /\ UNCHANGED <<note, updated, exported, stored, snaps, tick, clock>>
      /\ lastRev \in Nat /\ lastRev' = lastRev + 1 /\ lastRev' \in Revs
      /\ doc' = [doc EXCEPT ![n] = lastRev']
  BY SnapshotsAssumption DEF Change, noteVars, IInv, TypeOK, Revs
<1>2. TypeOK'
  BY <1>1 DEF IInv, TypeOK
<1>3. IsFiniteSet(snaps') /\ AutosBounded'
  BY <1>1, TableUntouched
<1>4. RevInv'
  <2>. SUFFICES ASSUME NEW k \in NoteRows
                PROVE  /\ exported[k] <= doc'[k] /\ exported[k] <= stored[k]
                       /\ doc'[k] <= lastRev' /\ stored[k] <= lastRev'
    BY <1>1 DEF RevInv
  <2>1. /\ exported[k] <= doc[k] /\ exported[k] <= stored[k]
        /\ doc[k] <= lastRev /\ stored[k] <= lastRev
    BY DEF IInv, RevInv
  <2>2. exported[k] \in Nat /\ doc[k] \in Nat /\ stored[k] \in Nat
    BY Naturalness DEF IInv, TypeOK
  <2>3. doc'[k] = IF k = n THEN lastRev' ELSE doc[k]
    BY <1>1 DEF IInv, TypeOK
  <2>. QED BY <1>1, <2>1, <2>2, <2>3
<1>5. TimeInv' /\ TickInv' /\ ScheduledIsCurrent'
  BY <1>1 DEF IInv, TimeInv, TickInv, ScheduledIsCurrent
<1>. QED BY <1>1, <1>2, <1>3, <1>4, <1>5 DEF IInv

LEMMA StoreKeeps ==
    ASSUME IInv, NEW n \in NoteRows, Store(n)
    PROVE  IInv'
<1>1. /\ UNCHANGED <<note, doc, lastRev, snaps, tick, req, clock>>
      /\ stored' = [stored EXCEPT ![n] = doc[n]]
      /\ \/ /\ exported' = [exported EXCEPT ![n] = doc[n]]
            /\ updated' = [updated EXCEPT ![n] = clock]
         \/ UNCHANGED <<exported, updated>>
  BY DEF Store
<1>2. TypeOK'
  BY <1>1 DEF IInv, TypeOK
<1>3. IsFiniteSet(snaps') /\ AutosBounded'
  BY <1>1, TableUntouched
<1>4. RevInv'
  <2>. SUFFICES ASSUME NEW k \in NoteRows
                PROVE  /\ exported'[k] <= doc[k] /\ exported'[k] <= stored'[k]
                       /\ doc[k] <= lastRev /\ stored'[k] <= lastRev
    BY <1>1 DEF RevInv
  <2>1. /\ exported[k] <= doc[k] /\ exported[k] <= stored[k]
        /\ doc[k] <= lastRev /\ stored[k] <= lastRev
    BY DEF IInv, RevInv
  <2>2. doc[k] \in Nat
    BY Naturalness DEF IInv, TypeOK
  <2>. QED BY <1>1, <2>1, <2>2 DEF IInv, TypeOK
<1>5. TimeInv'
  <2>1. clock \in Nat
    BY Naturalness DEF IInv, TypeOK
  <2>. QED BY <1>1, <2>1 DEF IInv, TypeOK, TimeInv
<1>6. TickInv'
  <2>. SUFFICES ASSUME NEW t \in Ticks, tick[t].phase = "encoded",
                       tick[t].now > updated'[tick[t].at]
                PROVE  tick[t].rev >= exported'[tick[t].at]
    BY <1>1 DEF TickInv
  <2>1. tick[t].now \in Nat /\ clock \in Nat /\ tick[t].now <= clock
    BY Naturalness DEF IInv, TypeOK, TimeInv, Tick
  <2>2. /\ updated'[tick[t].at] = updated[tick[t].at]
        /\ exported'[tick[t].at] = exported[tick[t].at]
    BY <1>1, <2>1 DEF IInv, TypeOK, Tick
  <2>. QED BY <2>2 DEF IInv, TickInv
<1>7. ScheduledIsCurrent'
  <2>. SUFFICES ASSUME NEW s \in snaps, s.kind = "tick",
                       s.created > updated'[s.note]
                PROVE  s.rev >= exported'[s.note]
    BY <1>1 DEF ScheduledIsCurrent
  <2>1. s.created \in Nat /\ clock \in Nat /\ s.created <= clock
    BY Naturalness DEF IInv, TypeOK, TimeInv, Snapshot
  <2>2. /\ updated'[s.note] = updated[s.note]
        /\ exported'[s.note] = exported[s.note]
    BY <1>1, <2>1 DEF IInv, TypeOK, Snapshot
  <2>. QED BY <2>2 DEF IInv, ScheduledIsCurrent
<1>. QED BY <1>1, <1>2, <1>3, <1>4, <1>5, <1>6, <1>7 DEF IInv

LEMMA RenameKeeps ==
    ASSUME IInv, NEW n \in NoteRows, Rename(n)
    PROVE  IInv'
<1>1. /\ UNCHANGED <<note, exported, doc, stored, lastRev, snaps, tick, req, clock>>
      /\ updated' = [updated EXCEPT ![n] = clock]
  BY DEF Rename, docVars
<1>2. TypeOK'
  BY <1>1 DEF IInv, TypeOK
<1>3. IsFiniteSet(snaps') /\ AutosBounded'
  BY <1>1, TableUntouched
<1>4. RevInv'
  BY <1>1 DEF IInv, RevInv
<1>5. TimeInv'
  <2>1. clock \in Nat
    BY Naturalness DEF IInv, TypeOK
  <2>. QED BY <1>1, <2>1 DEF IInv, TypeOK, TimeInv
<1>6. TickInv'
  <2>. SUFFICES ASSUME NEW t \in Ticks, tick[t].phase = "encoded",
                       tick[t].now > updated'[tick[t].at]
                PROVE  tick[t].rev >= exported[tick[t].at]
    BY <1>1 DEF TickInv
  <2>1. tick[t].now \in Nat /\ clock \in Nat /\ tick[t].now <= clock
    BY Naturalness DEF IInv, TypeOK, TimeInv, Tick
  <2>2. updated'[tick[t].at] = updated[tick[t].at]
    BY <1>1, <2>1 DEF IInv, TypeOK, Tick
  <2>. QED BY <2>2 DEF IInv, TickInv
<1>7. ScheduledIsCurrent'
  <2>. SUFFICES ASSUME NEW s \in snaps, s.kind = "tick",
                       s.created > updated'[s.note]
                PROVE  s.rev >= exported[s.note]
    BY <1>1 DEF ScheduledIsCurrent
  <2>1. s.created \in Nat /\ clock \in Nat /\ s.created <= clock
    BY Naturalness DEF IInv, TypeOK, TimeInv, Snapshot
  <2>2. updated'[s.note] = updated[s.note]
    BY <1>1, <2>1 DEF IInv, TypeOK, Snapshot
  <2>. QED BY <2>2 DEF IInv, ScheduledIsCurrent
<1>. QED BY <1>1, <1>2, <1>3, <1>4, <1>5, <1>6, <1>7 DEF IInv

(* Trash and untrash: the note still exists.                               *)
LEMMA TrashingKeeps ==
    ASSUME IInv, NEW n \in NoteRows, TrashNote(n) \/ RestoreNote(n)
    PROVE  IInv'
<1>1. /\ UNCHANGED <<updated, exported, doc, stored, lastRev, snaps, tick, req, clock>>
      /\ \E v \in {"live", "trashed"} : note' = [note EXCEPT ![n] = v]
  BY DEF TrashNote, RestoreNote, docVars
<1>2. TypeOK'
  BY <1>1 DEF IInv, TypeOK
<1>3. AutosBounded'
  BY <1>1 DEF IInv, TypeOK, AutosBounded, Autos, Of
<1>4. IsFiniteSet(snaps') /\ RevInv' /\ TimeInv' /\ TickInv' /\ ScheduledIsCurrent'
  BY <1>1 DEF IInv, RevInv, TimeInv, TickInv, ScheduledIsCurrent
<1>. QED BY <1>2, <1>3, <1>4 DEF IInv

LEMMA PurgeKeeps ==
    ASSUME IInv, NEW n \in NoteRows, PurgeNote(n)
    PROVE  IInv'
<1>1. /\ UNCHANGED <<updated, exported, doc, stored, lastRev, tick, req, clock>>
      /\ note' = [note EXCEPT ![n] = "gone"]
      /\ snaps' = snaps \ Of(snaps, n)
  BY DEF PurgeNote, docVars
<1>2. snaps' \subseteq snaps
  BY <1>1
<1>3. TypeOK'
  BY <1>1, <1>2 DEF IInv, TypeOK
<1>4. IsFiniteSet(snaps')
  BY <1>2, FS_Subset DEF IInv
<1>5. AutosBounded'
  <2>1. \A s \in snaps' : note'[s.note] # "gone"
    BY <1>1 DEF IInv, TypeOK, AutosBounded, Of, Snapshot
  <2>2. ASSUME NEW m \in NoteRows PROVE Cardinality(Autos(snaps', m)) <= Keep
    <3>1. CASE m = n
      <4>1. Autos(snaps', m) = {}
        BY <1>1, <3>1 DEF Autos, Of
      <4>. QED BY <4>1, FS_EmptySet, SnapshotsAssumption
    <3>2. CASE m # n
      <4>1. Autos(snaps', m) = Autos(snaps, m)
        BY <1>1, <3>2 DEF Autos, Of
      <4>. QED BY <4>1 DEF IInv, AutosBounded
    <3>. QED BY <3>1, <3>2
  <2>. QED BY <2>1, <2>2 DEF AutosBounded
<1>6. RevInv' /\ TickInv'
  BY <1>1 DEF IInv, RevInv, TickInv
<1>7. TimeInv' /\ ScheduledIsCurrent'
  BY <1>1, <1>2 DEF IInv, TimeInv, ScheduledIsCurrent
<1>. QED BY <1>3, <1>4, <1>5, <1>6, <1>7 DEF IInv

LEMMA TimePassesKeeps ==
    ASSUME IInv, TimePasses
    PROVE  IInv'
<1>1. /\ UNCHANGED <<note, updated, exported, doc, stored, lastRev, snaps, tick, req>>
      /\ clock \in Nat /\ clock' = clock + 1 /\ clock' \in Times
  BY SnapshotsAssumption DEF TimePasses, noteVars, docVars, IInv, TypeOK, Times
<1>2. TypeOK'
  BY <1>1 DEF IInv, TypeOK
<1>3. IsFiniteSet(snaps') /\ AutosBounded'
  BY <1>1, TableUntouched
<1>4. RevInv' /\ TickInv' /\ ScheduledIsCurrent'
  BY <1>1 DEF IInv, RevInv, TickInv, ScheduledIsCurrent
<1>5. TimeInv'
  <2>1. \A n \in NoteRows : updated[n] \in Nat
    BY Naturalness DEF IInv, TypeOK
  <2>2. \A t \in Ticks : tick[t].now \in Nat
    BY Naturalness DEF IInv, TypeOK, Tick
  <2>3. \A s \in snaps : s.created \in Nat
    BY Naturalness DEF IInv, TypeOK, Snapshot
  <2>. QED BY <1>1, <2>1, <2>2, <2>3 DEF IInv, TimeInv
<1>. QED BY <1>2, <1>3, <1>4, <1>5 DEF IInv

LEMMA CrashKeeps ==
    ASSUME IInv, Crash
    PROVE  IInv'
<1>1. /\ UNCHANGED <<note, updated, exported, stored, lastRev, snaps, clock>>
      /\ doc' = stored
      /\ tick' = [t \in Ticks |-> NoTick]
      /\ req' = [r \in Requests |-> NoRequest]
  BY DEF Crash, noteVars
<1>2. TypeOK'
  BY <1>1, IdleTyped DEF IInv, TypeOK
<1>3. IsFiniteSet(snaps') /\ AutosBounded'
  BY <1>1, TableUntouched
<1>4. RevInv' /\ ScheduledIsCurrent'
  BY <1>1 DEF IInv, RevInv, ScheduledIsCurrent
<1>5. TickInv'
  BY <1>1 DEF TickInv, NoTick
<1>6. TimeInv'
  <2>1. clock \in Nat
    BY Naturalness DEF IInv, TypeOK
  <2>. QED BY <1>1, <2>1 DEF IInv, TimeInv, NoTick
<1>. QED BY <1>1, <1>2, <1>3, <1>4, <1>5, <1>6 DEF IInv

LEMMA StutterKeeps ==
    ASSUME IInv, UNCHANGED vars
    PROVE  IInv'
<1>1. UNCHANGED <<note, updated, exported, doc, stored, lastRev, snaps, tick, req, clock>>
  BY DEF vars
<1>2. TypeOK' /\ IsFiniteSet(snaps')
  BY <1>1 DEF IInv, TypeOK
<1>3. AutosBounded'
  BY <1>1, TableUntouched
<1>4. RevInv' /\ TimeInv' /\ TickInv' /\ ScheduledIsCurrent'
  BY <1>1 DEF IInv, RevInv, TimeInv, TickInv, ScheduledIsCurrent
<1>. QED BY <1>2, <1>3, <1>4 DEF IInv

LEMMA Inductive == IInv /\ [Next]_vars => IInv'
<1>. SUFFICES ASSUME IInv, [Next]_vars PROVE IInv'
  OBVIOUS
<1>1. ASSUME NEW t \in Ticks, TickStep(t) PROVE IInv'
  BY <1>1, TickBeginKeeps, TickEncodeKeeps, TickInsertKeeps DEF TickStep
<1>2. ASSUME NEW r \in Requests, Replace(r) PROVE IInv'
  <2>1. req[r].at \in NoteRows
    BY DEF IInv, TypeOK, Request
  <2>2. req' \in [Requests -> Request]
    BY <1>2, IdleTyped DEF Replace, IInv, TypeOK
  <2>. QED BY <1>2, <2>1, <2>2, ChangeKeeps DEF Replace
<1>3. ASSUME NEW n \in NoteRows, Edit(n) PROVE IInv'
  <2>1. req' \in [Requests -> Request]
    BY <1>3 DEF Edit, IInv, TypeOK
  <2>. QED BY <1>3, <2>1, ChangeKeeps DEF Edit
<1>4. ASSUME NEW n \in NoteRows,
             \/ Store(n) \/ Rename(n) \/ TrashNote(n)
             \/ RestoreNote(n) \/ PurgeNote(n)
      PROVE  IInv'
  BY <1>4, StoreKeeps, RenameKeeps, TrashingKeeps, PurgeKeeps
<1>. QED BY <1>1, <1>2, <1>3, <1>4, RequestKeeps, TimePassesKeeps, CrashKeeps,
            StutterKeeps DEF Next

------------------------------------------------------------------------------
(* Theorems. *)

(* The invariant holds throughout, whatever ticks, requests, clients and   *)
(* crashes do, and in whatever order.                                      *)
THEOREM Invariance == Spec => []IInv
BY Initially, Inductive, PTL DEF Spec

(* Every variable keeps its type.                                          *)
THEOREM TypeCorrect == Spec => []TypeOK
<1>1. IInv => TypeOK
  BY DEF IInv
<1>. QED BY <1>1, Invariance, PTL

(* Retention (pruneAutoSnapshots after every unlabeled insert): no note    *)
(* ever has more than Keep unlabeled snapshots, nor one after its purge.   *)
THEOREM SpecAutosBounded == Spec => []AutosBounded
<1>1. IInv => AutosBounded
  BY DEF IInv
<1>. QED BY <1>1, Invariance, PTL

(* A scheduled snapshot newer than its note's updated_at (the scheduler's  *)
(* reason to skip the note) has every change that was exported.            *)
THEOREM SpecScheduledIsCurrent == Spec => []ScheduledIsCurrent
<1>1. IInv => ScheduledIsCurrent
  BY DEF IInv
<1>. QED BY <1>1, Invariance, PTL

==============================================================================
