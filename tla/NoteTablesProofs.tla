-------------------------- MODULE NoteTablesProofs ---------------------------
(***************************************************************************)
(* Machine-checked proofs about NoteTables, for any notes, titles, tags,   *)
(* contents, files and requests, and any bound of the run.                 *)
(***************************************************************************)
EXTENDS NoteTables, TLAPS

------------------------------------------------------------------------------
(* The inductive invariant. *)

(* A uuid that was not drawn yet has an empty export and document.         *)
FreshInv ==
    \A n \in NoteIds : note[n] = "none" => export[n] = Empty /\ saved[n] = Empty

(* A request is at a note that was inserted.                               *)
ReqInv == \A r \in Requests : req[r] # NoRequest => note[req[r].at] # "none"

(* The history and tag rows of a note go with its row, by foreign key.     *)
GoneInv ==
    \A n \in NoteIds \ Existing : RowsOf(n) = {} /\ tags[n] = {}

IInv ==
    /\ TypeOK /\ FreshInv /\ ReqInv
    /\ HistoryAgrees /\ GoneInv
    /\ DerivedUnlessSkipped /\ BacklinksHonest

(* A step keeps every title in the history.                                *)
TitlesStay ==
    \A h \in history : \E k \in history' : k.note = h.note /\ k.title = h.title

(* A step takes no note away, and a note it adds is a fresh one.           *)
NotesStay ==
    /\ Existing \subseteq Existing'
    /\ \A n \in Existing' : n \in Existing \/ note[n] = "none"

------------------------------------------------------------------------------
(* Titles. *)

(* append keeps the rows of other notes and the titles of this one, and    *)
(* leaves one open row of it, the new one.                                 *)
LEMMA Appended ==
    ASSUME NEW H \in SUBSET HistoryRow, NEW n \in NoteIds, NEW t \in Titles
    PROVE  /\ Append(H, n, t) \in SUBSET HistoryRow
           /\ [note |-> n, title |-> t, open |-> TRUE] \in Append(H, n, t)
           /\ \A h \in H : \E k \in Append(H, n, t) :
                 k.note = h.note /\ k.title = h.title
           /\ \A k \in Append(H, n, t) : k.note = n /\ k.open =>
                 k = [note |-> n, title |-> t, open |-> TRUE]
           /\ \A k \in HistoryRow : k.note # n => (k \in Append(H, n, t) <=> k \in H)
<1>. DEFINE F(h) == IF h.note = n THEN [h EXCEPT !.open = FALSE] ELSE h
            new == [note |-> n, title |-> t, open |-> TRUE]
<1>1. \A h \in H : /\ F(h) \in HistoryRow
                   /\ F(h).note = h.note /\ F(h).title = h.title
                   /\ h.note = n => ~ F(h).open
                   /\ h.note # n => F(h) = h
  BY DEF HistoryRow
<1>2. new \in HistoryRow /\ new.note = n
  BY DEF HistoryRow
<1>3. Append(H, n, t) = {F(h) : h \in H} \cup {new}
  BY DEF Append
<1>. HIDE DEF F, new
<1>4. /\ Append(H, n, t) \in SUBSET HistoryRow
      /\ new \in Append(H, n, t)
      /\ \A h \in H : \E k \in Append(H, n, t) : k.note = h.note /\ k.title = h.title
      /\ \A k \in Append(H, n, t) : k.note = n /\ k.open => k = new
  BY <1>1, <1>2, <1>3
<1>5. \A k \in HistoryRow : k.note # n => (k \in Append(H, n, t) <=> k \in H)
  BY <1>1, <1>2, <1>3
<1>. QED BY <1>4, <1>5 DEF new

(* Steps that leave the titles alone.                                      *)
LEMMA TitlesAlone ==
    ASSUME IInv, UNCHANGED titleVars, Existing' = Existing
    PROVE  /\ HistoryAgrees' /\ TitlesStay
           /\ \A n \in NoteIds \ Existing' : RowsOf(n)' = {}
<1>1. HistoryAgrees'
  BY DEF IInv, HistoryAgrees, titleVars, RowsOf
<1>2. TitlesStay
  BY DEF TitlesStay, titleVars
<1>3. \A n \in NoteIds \ Existing' : RowsOf(n)' = {}
  BY DEF IInv, GoneInv, titleVars, RowsOf
<1>. QED BY <1>1, <1>2, <1>3

(* A title change that is appended: of a fresh note, or of another.        *)
LEMMA TitleAppended ==
    ASSUME IInv, NEW n \in NoteIds, NEW t \in Titles,
           n \in Existing',
           \A m \in NoteIds : m # n => (m \in Existing' <=> m \in Existing),
           title' = [title EXCEPT ![n] = t],
           history' = Append(history, n, t),
           \A m \in NoteIds : m # n => torn'[m] = torn[m]
    PROVE  /\ HistoryAgrees' /\ TitlesStay /\ history' \in SUBSET HistoryRow
           /\ \A m \in NoteIds \ Existing' : RowsOf(m)' = {}
<1>1. history \in SUBSET HistoryRow
  BY DEF IInv, TypeOK
<1>2. /\ history' \in SUBSET HistoryRow
      /\ [note |-> n, title |-> t, open |-> TRUE] \in history'
      /\ \A h \in history : \E k \in history' : k.note = h.note /\ k.title = h.title
      /\ \A k \in history' : k.note = n /\ k.open =>
            k = [note |-> n, title |-> t, open |-> TRUE]
      /\ \A k \in HistoryRow : k.note # n => (k \in history' <=> k \in history)
  BY <1>1, Appended
<1>3. TitlesStay
  BY <1>2 DEF TitlesStay
<1>4. HistoryAgrees'
  <2>. SUFFICES ASSUME NEW m \in Existing'
       PROVE  /\ \A h, k \in history' : h.note = m /\ k.note = m /\ h.open /\ k.open => h = k
              /\ ~ torn'[m] => [note |-> m, title |-> title'[m], open |-> TRUE] \in history'
    BY DEF HistoryAgrees, RowsOf
  <2>0. m \in NoteIds
    BY DEF Existing
  <2>1. CASE m = n
    BY <1>2, <2>1 DEF IInv, TypeOK
  <2>2. CASE m # n
    <3>1. m \in Existing /\ title'[m] = title[m] /\ torn'[m] = torn[m]
      BY <2>0, <2>2 DEF IInv, TypeOK
    <3>2. [note |-> m, title |-> title[m], open |-> TRUE] \in HistoryRow
      BY <2>0 DEF IInv, TypeOK, HistoryRow
    <3>3. \A h \in history' : h.note = m => h \in history
      BY <1>2, <2>2
    <3>4. \A h, k \in history' : h.note = m /\ k.note = m /\ h.open /\ k.open => h = k
      BY <3>1, <3>3 DEF IInv, HistoryAgrees, RowsOf
    <3>5. ~ torn'[m] => [note |-> m, title |-> title'[m], open |-> TRUE] \in history'
      BY <1>2, <2>2, <3>1, <3>2 DEF IInv, HistoryAgrees
    <3>. QED BY <3>4, <3>5
  <2>. QED BY <2>1, <2>2
<1>5. \A m \in NoteIds \ Existing' : RowsOf(m)' = {}
  <2>. SUFFICES ASSUME NEW m \in NoteIds, m \notin Existing', NEW h \in history', h.note = m
       PROVE  FALSE
    BY DEF RowsOf
  <2>1. h \in history /\ m \notin Existing
    BY <1>2
  <2>. QED BY <2>1 DEF IInv, GoneInv, RowsOf
<1>. QED BY <1>2, <1>3, <1>4, <1>5

------------------------------------------------------------------------------
(* What is derived. *)

(* Steps that leave it alone.                                              *)
LEMMA DerivedAlone ==
    ASSUME IInv, UNCHANGED <<derivedVars, saved>>, TitlesStay, NotesStay
    PROVE  /\ DerivedUnlessSkipped' /\ BacklinksHonest'
           /\ \A n \in NoteIds \ Existing' : tags'[n] = {}
<1>1. DerivedUnlessSkipped'
  <2>. SUFFICES ASSUME NEW n \in Existing', ~ lag[n]
       PROVE  /\ export[n] = saved[n]
              /\ ~ retagged[n] => tags[n] = TagsOf[saved[n]]
    BY DEF DerivedUnlessSkipped, derivedVars
  <2>1. CASE n \in Existing
    BY <2>1 DEF IInv, DerivedUnlessSkipped
  <2>2. CASE n \notin Existing
    <3>1. n \in NoteIds /\ note[n] = "none"
      BY <2>2 DEF NotesStay, Existing
    <3>2. export[n] = Empty /\ saved[n] = Empty /\ tags[n] = {}
      BY <2>2, <3>1 DEF IInv, FreshInv, GoneInv
    <3>. QED BY <3>2, NoteTablesAssumption
  <2>. QED BY <2>1, <2>2
<1>2. BacklinksHonest'
  <2>. SUFFICES ASSUME NEW l \in links
       PROVE  /\ {l.source, l.target} \subseteq Existing'
              /\ \E k \in history' : k.note = l.target /\ k.title = l.text
              /\ ~ lag[l.source] => l.text \in LinksOf[export[l.source]]
              /\ \A k \in links : k.source = l.source /\ k.text = l.text => k = l
    BY DEF BacklinksHonest, derivedVars, RowsOf
  <2>1. PICK h \in history : h.note = l.target /\ h.title = l.text
    BY DEF IInv, BacklinksHonest, RowsOf
  <2>. QED BY <2>1 DEF IInv, BacklinksHonest, TitlesStay, NotesStay
<1>3. \A n \in NoteIds \ Existing' : tags'[n] = {}
  BY DEF IInv, GoneInv, derivedVars, NotesStay
<1>. QED BY <1>1, <1>2, <1>3

(* Tags set by a request.                                                  *)
LEMMA TagsSet ==
    ASSUME IInv, NEW n \in NoteIds, NEW g \in SUBSET Tags, SetTags(n, g),
           saved' = saved, TitlesStay, Existing' = Existing
    PROVE  /\ DerivedUnlessSkipped' /\ BacklinksHonest'
           /\ \A m \in NoteIds \ Existing' : tags'[m] = {}
           /\ tags' \in [NoteIds -> SUBSET Tags] /\ retagged' \in [NoteIds -> BOOLEAN]
<1>0. UNCHANGED <<export, links, lag>>
  BY DEF SetTags
<1>1. /\ tags' \in [NoteIds -> SUBSET Tags] /\ retagged' \in [NoteIds -> BOOLEAN]
      /\ \A m \in NoteIds : m # n \/ m \notin Existing =>
            tags'[m] = tags[m] /\ retagged'[m] = retagged[m]
      /\ n \in Existing => retagged'[n]
  BY DEF SetTags, IInv, TypeOK
<1>2. DerivedUnlessSkipped'
  BY <1>0, <1>1 DEF IInv, DerivedUnlessSkipped, Existing
<1>3. BacklinksHonest'
  <2>. SUFFICES ASSUME NEW l \in links
       PROVE  \E k \in history' : k.note = l.target /\ k.title = l.text
    BY <1>0 DEF IInv, BacklinksHonest, RowsOf
  <2>1. PICK h \in history : h.note = l.target /\ h.title = l.text
    BY DEF IInv, BacklinksHonest, RowsOf
  <2>. QED BY <2>1 DEF TitlesStay
<1>4. \A m \in NoteIds \ Existing' : tags'[m] = {}
  BY <1>1 DEF IInv, GoneInv
<1>. QED BY <1>1, <1>2, <1>3, <1>4

(* The links a store makes are of their types, resolve to notes that exist *)
(* by a title those had, and no title twice.                               *)
LEMMA LinksResolve ==
    ASSUME IInv, NEW n \in NoteIds, NEW c \in Contents
    PROVE  /\ LinksFrom(n, c) \in SUBSET Link
           /\ \A l \in LinksFrom(n, c) :
                 /\ l.source = n /\ l.target \in Existing
                 /\ l.text \in LinksOf[c]
                 /\ \E h \in history : h.note = l.target /\ h.title = l.text
                 /\ \A k \in LinksFrom(n, c) : k.text = l.text => k = l
<1>1. \A t : \A m \in Resolve(t) :
         /\ \E h \in history : h.note = m /\ h.title = t
         /\ \A k \in Resolve(t) : k = m
  BY DEF Resolve
<1>2. \A t : Resolve(t) \subseteq Existing
  <2>. SUFFICES ASSUME NEW h \in history PROVE h.note \in Existing
    BY <1>1
  <2>1. h.note \in NoteIds
    BY DEF IInv, TypeOK, HistoryRow
  <2>. QED BY <2>1 DEF IInv, GoneInv, RowsOf
<1>3. LinksOf[c] \subseteq Titles
  BY NoteTablesAssumption
<1>4. \A l \in LinksFrom(n, c) : \E t \in LinksOf[c] : \E m \in Resolve(t) :
         l = [source |-> n, target |-> m, text |-> t]
  BY DEF LinksFrom
<1>5. LinksFrom(n, c) \in SUBSET Link
  BY <1>2, <1>3, <1>4 DEF Link, Existing
<1>6. ASSUME NEW l \in LinksFrom(n, c)
      PROVE  /\ l.source = n /\ l.target \in Existing
             /\ l.text \in LinksOf[c]
             /\ \E h \in history : h.note = l.target /\ h.title = l.text
             /\ \A k \in LinksFrom(n, c) : k.text = l.text => k = l
  <2>1. PICK t \in LinksOf[c] : \E m \in Resolve(t) :
           l = [source |-> n, target |-> m, text |-> t]
    BY <1>4
  <2>2. PICK m \in Resolve(t) : l = [source |-> n, target |-> m, text |-> t]
    BY <2>1
  <2>3. ASSUME NEW k \in LinksFrom(n, c), k.text = l.text PROVE k = l
    <3>1. PICK u \in LinksOf[c] : \E j \in Resolve(u) :
             k = [source |-> n, target |-> j, text |-> u]
      BY <1>4
    <3>2. PICK j \in Resolve(u) : k = [source |-> n, target |-> j, text |-> u]
      BY <3>1
    <3>3. u = t
      BY <2>2, <2>3, <3>2
    <3>. QED BY <1>1, <2>2, <3>2, <3>3
  <2>. QED BY <1>1, <1>2, <2>2, <2>3
<1>. QED BY <1>5, <1>6

------------------------------------------------------------------------------
(* One lemma per action. *)

LEMMA InitHolds == Init => IInv
<1>. SUFFICES ASSUME Init PROVE IInv
  OBVIOUS
<1>1. TypeOK
  BY NoteTablesAssumption DEF Init, TypeOK
<1>2. Existing = {}
  BY DEF Init, Existing
<1>3. FreshInv /\ ReqInv
  BY DEF Init, FreshInv, ReqInv
<1>4. HistoryAgrees /\ GoneInv /\ DerivedUnlessSkipped /\ BacklinksHonest
  BY <1>2 DEF Init, HistoryAgrees, GoneInv, DerivedUnlessSkipped,
              BacklinksHonest, RowsOf
<1>. QED BY <1>1, <1>3, <1>4 DEF IInv

LEMMA StutterKeeps == ASSUME IInv, UNCHANGED vars PROVE IInv' /\ TitlesStay
<1>. USE DEF vars, titleVars, derivedVars, docVars
<1>1. Existing' = Existing
  BY DEF Existing
<1>2. TypeOK' /\ FreshInv' /\ ReqInv'
  BY DEF IInv, TypeOK, FreshInv, ReqInv
<1>3. HistoryAgrees' /\ TitlesStay /\ \A n \in NoteIds \ Existing' : RowsOf(n)' = {}
  BY <1>1, TitlesAlone
<1>4. /\ DerivedUnlessSkipped' /\ BacklinksHonest'
      /\ \A n \in NoteIds \ Existing' : tags'[n] = {}
  BY <1>1, <1>3, DerivedAlone DEF NotesStay
<1>. QED BY <1>2, <1>3, <1>4 DEF IInv, GoneInv

(* The bound is respected.                                                 *)
LEMMA BoundKept == ASSUME TypeOK, Bounded PROVE changes' \in 0..MaxChanges
BY NoteTablesAssumption DEF TypeOK, Bounded

(* A request that ends.                                                    *)
LEMMA FinishKeeps ==
    ASSUME IInv, NEW r \in Requests, Finish(r), note' = note
    PROVE  req' \in [Requests -> Patch \cup Import \cup {NoRequest}] /\ ReqInv'
BY DEF IInv, TypeOK, ReqInv, Finish

(* A new note, whatever becomes of the requests.                           *)
LEMMA NewNoteKeeps ==
    ASSUME IInv, NEW n \in NoteIds, NEW t \in Titles, NewNote(n, t),
           UNCHANGED <<changes, derivedVars, docVars>>,
           req' \in [Requests -> Patch \cup Import \cup {NoRequest}], ReqInv'
    PROVE  IInv' /\ TitlesStay
<1>1. /\ note[n] = "none"
      /\ note' = [note EXCEPT ![n] = "live"]
      /\ title' = [title EXCEPT ![n] = t]
      /\ history' = Append(history, n, t)
      /\ torn' = torn
  BY DEF NewNote
<1>2. /\ n \in Existing'
      /\ \A m \in NoteIds : m # n => (m \in Existing' <=> m \in Existing)
  BY <1>1 DEF IInv, TypeOK, Existing
<1>3. /\ HistoryAgrees' /\ TitlesStay /\ history' \in SUBSET HistoryRow
      /\ \A m \in NoteIds \ Existing' : RowsOf(m)' = {}
  BY <1>1, <1>2, TitleAppended
<1>4. NotesStay
  BY <1>1, <1>2 DEF NotesStay, Existing
<1>5. /\ DerivedUnlessSkipped' /\ BacklinksHonest'
      /\ \A m \in NoteIds \ Existing' : tags'[m] = {}
  BY <1>3, <1>4, DerivedAlone DEF docVars
<1>6. TypeOK'
  <2>1. /\ note' \in [NoteIds -> {"none", "live", "trashed", "gone"}]
        /\ title' \in [NoteIds -> Titles]
    BY <1>1 DEF IInv, TypeOK
  <2>. QED BY <1>1, <1>3, <2>1 DEF IInv, TypeOK, derivedVars, docVars
<1>7. FreshInv'
  BY <1>1 DEF IInv, TypeOK, FreshInv, derivedVars, docVars
<1>. QED BY <1>3, <1>5, <1>6, <1>7 DEF IInv, GoneInv

LEMMA CreateKeeps ==
    ASSUME IInv, NEW n \in NoteIds, NEW t \in Titles, Create(n, t)
    PROVE  IInv' /\ TitlesStay
<1>1. NewNote(n, t) /\ UNCHANGED <<changes, derivedVars, docVars, req>>
  BY DEF Create
<1>2. req' \in [Requests -> Patch \cup Import \cup {NoRequest}]
  BY <1>1 DEF IInv, TypeOK
<1>3. ReqInv'
  BY <1>1 DEF IInv, TypeOK, ReqInv, NewNote
<1>. QED BY <1>1, <1>2, <1>3, NewNoteKeeps

LEMMA ImportBeginKeeps ==
    ASSUME IInv, NEW r \in Requests, NEW n \in NoteIds, NEW f \in Files,
           ImportBegin(r, n, f)
    PROVE  IInv' /\ TitlesStay
<1>. DEFINE q == [phase |-> "seeding", at |-> n, file |-> f]
<1>1. /\ NewNote(n, f.title) /\ UNCHANGED <<changes, derivedVars, docVars>>
      /\ req' = [req EXCEPT ![r] = q]
  BY DEF ImportBegin
<1>2. f.title \in Titles
  BY NoteTablesAssumption
<1>3. q \in Import /\ q.at = n
  BY DEF Import
<1>. HIDE DEF q
<1>4. req' \in [Requests -> Patch \cup Import \cup {NoRequest}]
  BY <1>1, <1>3 DEF IInv, TypeOK
<1>5. note' = [note EXCEPT ![n] = "live"]
  BY <1>1 DEF NewNote
<1>6. ReqInv'
  <2>. SUFFICES ASSUME NEW s \in Requests, req'[s] # NoRequest
       PROVE  note'[req'[s].at] # "none"
    BY DEF ReqInv
  <2>1. CASE s = r
    BY <1>1, <1>3, <1>5, <2>1 DEF IInv, TypeOK
  <2>2. CASE s # r
    BY <1>1, <1>5, <2>2 DEF IInv, TypeOK, ReqInv
  <2>. QED BY <2>1, <2>2
<1>. QED BY <1>1, <1>2, <1>4, <1>6, NewNoteKeeps

(* Steps that leave the notes and all rows alone, but for requests and the *)
(* document in memory.                                                     *)
LEMMA RowsAlone ==
    ASSUME IInv, UNCHANGED <<note, titleVars, derivedVars, saved>>,
           doc' \in [NoteIds -> Contents], changes' \in 0..MaxChanges,
           req' \in [Requests -> Patch \cup Import \cup {NoRequest}], ReqInv'
    PROVE  IInv' /\ TitlesStay
<1>1. Existing' = Existing
  BY DEF Existing
<1>2. HistoryAgrees' /\ TitlesStay /\ \A n \in NoteIds \ Existing' : RowsOf(n)' = {}
  BY <1>1, TitlesAlone
<1>3. /\ DerivedUnlessSkipped' /\ BacklinksHonest'
      /\ \A n \in NoteIds \ Existing' : tags'[n] = {}
  BY <1>1, <1>2, DerivedAlone DEF NotesStay
<1>4. TypeOK' /\ FreshInv'
  BY DEF IInv, TypeOK, FreshInv, titleVars, derivedVars
<1>. QED BY <1>2, <1>3, <1>4 DEF IInv, GoneInv

LEMMA PatchBeginKeeps ==
    ASSUME IInv, NEW r \in Requests, NEW n \in NoteIds, PatchBegin(r, n)
    PROVE  IInv' /\ TitlesStay
<1>. DEFINE q == [phase |-> "patching", at |-> n, old |-> title[n]]
<1>1. /\ UNCHANGED <<note, titleVars, derivedVars, docVars>>
      /\ req' = [req EXCEPT ![r] = q]
      /\ n \in Existing
  BY DEF PatchBegin
<1>2. q \in Patch /\ q.at = n
  BY DEF Patch, IInv, TypeOK
<1>. HIDE DEF q
<1>3. req' \in [Requests -> Patch \cup Import \cup {NoRequest}]
  BY <1>1, <1>2 DEF IInv, TypeOK
<1>4. ReqInv'
  BY <1>1, <1>2 DEF IInv, TypeOK, ReqInv, Existing
<1>5. changes' \in 0..MaxChanges
  BY BoundKept DEF IInv, PatchBegin
<1>6. doc' \in [NoteIds -> Contents] /\ saved' = saved
  BY <1>1 DEF IInv, TypeOK, docVars
<1>. QED BY <1>1, <1>3, <1>4, <1>5, <1>6, RowsAlone

LEMMA EditKeeps ==
    ASSUME IInv, NEW n \in NoteIds, NEW c \in Contents, Edit(n, c)
    PROVE  IInv' /\ TitlesStay
<1>1. /\ UNCHANGED <<note, titleVars, derivedVars, saved, req>>
      /\ doc' \in [NoteIds -> Contents]
  BY DEF Edit, IInv, TypeOK
<1>2. changes' \in 0..MaxChanges
  BY BoundKept DEF IInv, Edit
<1>3. req' \in [Requests -> Patch \cup Import \cup {NoRequest}] /\ ReqInv'
  BY <1>1 DEF IInv, TypeOK, ReqInv
<1>. QED BY <1>1, <1>2, <1>3, RowsAlone

LEMMA ImportSeedKeeps ==
    ASSUME IInv, NEW r \in Requests, ImportSeed(r) PROVE IInv' /\ TitlesStay
<1>. DEFINE q == [req[r] EXCEPT !.phase = "tagging"]
<1>1. /\ UNCHANGED <<changes, note, titleVars, derivedVars, saved>>
      /\ doc' = [doc EXCEPT ![req[r].at] = req[r].file.content]
      /\ req' = [req EXCEPT ![r] = q]
  BY DEF ImportSeed
<1>2. req[r] \in Import
  BY DEF ImportSeed, IInv, TypeOK, Patch, Import, NoRequest
<1>3. req[r].file.content \in Contents
  BY <1>2, NoteTablesAssumption DEF Import
<1>4. q \in Import /\ q.at = req[r].at
  BY <1>2 DEF Import
<1>. HIDE DEF q
<1>5. req[r] # NoRequest
  BY DEF ImportSeed, NoRequest
<1>6. req' \in [Requests -> Patch \cup Import \cup {NoRequest}] /\ ReqInv'
  BY <1>1, <1>4, <1>5 DEF IInv, TypeOK, ReqInv
<1>7. doc' \in [NoteIds -> Contents] /\ changes' \in 0..MaxChanges
  BY <1>1, <1>3 DEF IInv, TypeOK
<1>. QED BY <1>1, <1>6, <1>7, RowsAlone

(* Trash and restore.                                                      *)
LEMMA MoveKeeps ==
    ASSUME IInv, NEW n \in NoteIds, TrashNote(n) \/ RestoreNote(n)
    PROVE  IInv' /\ TitlesStay
<1>1. /\ UNCHANGED <<changes, titleVars, derivedVars, docVars, req>>
      /\ n \in Existing
      /\ note' \in [NoteIds -> {"none", "live", "trashed", "gone"}]
      /\ note'[n] \in {"live", "trashed"}
      /\ \A m \in NoteIds : m # n => note'[m] = note[m]
  BY DEF TrashNote, RestoreNote, IInv, TypeOK
<1>2. Existing' = Existing
  BY <1>1 DEF Existing
<1>3. HistoryAgrees' /\ TitlesStay /\ \A m \in NoteIds \ Existing' : RowsOf(m)' = {}
  BY <1>1, <1>2, TitlesAlone
<1>4. /\ DerivedUnlessSkipped' /\ BacklinksHonest'
      /\ \A m \in NoteIds \ Existing' : tags'[m] = {}
  BY <1>1, <1>2, <1>3, DerivedAlone DEF NotesStay, docVars
<1>5. TypeOK' /\ FreshInv'
  BY <1>1 DEF IInv, TypeOK, FreshInv, titleVars, derivedVars, docVars, Existing
<1>6. ReqInv'
  <2>. SUFFICES ASSUME NEW r \in Requests, req[r] # NoRequest
       PROVE  note'[req[r].at] # "none"
    BY <1>1 DEF ReqInv
  <2>1. req[r].at \in NoteIds
    BY DEF IInv, TypeOK, Patch, Import
  <2>. QED BY <1>1, <2>1 DEF IInv, ReqInv
<1>. QED BY <1>3, <1>4, <1>5, <1>6 DEF IInv, GoneInv

(* A rename appends, or finds the note purged and changes nothing.         *)
LEMMA RenameKeeps ==
    ASSUME IInv, NEW n \in NoteIds, NEW t \in Titles, Existing' = Existing,
           Rename(n, t) \/ UNCHANGED titleVars
    PROVE  /\ HistoryAgrees' /\ TitlesStay
           /\ \A m \in NoteIds \ Existing' : RowsOf(m)' = {}
           /\ title' \in [NoteIds -> Titles] /\ history' \in SUBSET HistoryRow
           /\ torn' \in [NoteIds -> BOOLEAN]
<1>1. CASE UNCHANGED titleVars
  <2>1. HistoryAgrees' /\ TitlesStay /\ \A m \in NoteIds \ Existing' : RowsOf(m)' = {}
    BY <1>1, TitlesAlone
  <2>. QED BY <1>1, <2>1 DEF IInv, TypeOK, titleVars
<1>2. CASE n \in Existing /\ Rename(n, t)
  <2>1. /\ title' = [title EXCEPT ![n] = t]
        /\ history' = Append(history, n, t)
        /\ torn' = [torn EXCEPT ![n] = FALSE]
    BY <1>2 DEF Rename
  <2>2. /\ title' \in [NoteIds -> Titles] /\ torn' \in [NoteIds -> BOOLEAN]
        /\ \A m \in NoteIds : m # n => torn'[m] = torn[m]
    BY <2>1 DEF IInv, TypeOK
  <2>3. /\ HistoryAgrees' /\ TitlesStay /\ history' \in SUBSET HistoryRow
        /\ \A m \in NoteIds \ Existing' : RowsOf(m)' = {}
    BY <1>2, <2>1, <2>2, TitleAppended
  <2>. QED BY <2>2, <2>3
<1>. QED BY <1>1, <1>2 DEF Rename

LEMMA PatchEndKeeps ==
    ASSUME IInv, NEW r \in Requests, PatchEnd(r) PROVE IInv' /\ TitlesStay
<1>. DEFINE n == req[r].at
<1>1. UNCHANGED <<changes, note, docVars>> /\ Finish(r)
  BY DEF PatchEnd
<1>2. n \in NoteIds
  BY DEF PatchEnd, IInv, TypeOK, Patch, Import, NoRequest
<1>3. Existing' = Existing
  BY <1>1 DEF Existing
<1>4. PICK t \in Titles : Rename(n, t) \/ UNCHANGED titleVars
  BY DEF PatchEnd
<1>. HIDE DEF n
<1>5. /\ HistoryAgrees' /\ TitlesStay
      /\ \A m \in NoteIds \ Existing' : RowsOf(m)' = {}
      /\ title' \in [NoteIds -> Titles] /\ history' \in SUBSET HistoryRow
      /\ torn' \in [NoteIds -> BOOLEAN]
  BY <1>2, <1>3, <1>4, RenameKeeps
<1>6. /\ DerivedUnlessSkipped' /\ BacklinksHonest'
      /\ \A m \in NoteIds \ Existing' : tags'[m] = {}
      /\ tags' \in [NoteIds -> SUBSET Tags] /\ retagged' \in [NoteIds -> BOOLEAN]
      /\ UNCHANGED <<export, links, lag>>
  <2>1. CASE UNCHANGED derivedVars
    <3>1. UNCHANGED <<derivedVars, saved>> /\ NotesStay
      BY <1>1, <1>3, <2>1 DEF NotesStay, docVars
    <3>2. /\ DerivedUnlessSkipped' /\ BacklinksHonest'
          /\ \A m \in NoteIds \ Existing' : tags'[m] = {}
      BY <1>5, <3>1, DerivedAlone
    <3>. QED BY <2>1, <3>2 DEF IInv, TypeOK, derivedVars
  <2>2. CASE \E g \in SUBSET Tags : SetTags(n, g)
    <3>1. PICK g \in SUBSET Tags : SetTags(n, g)
      BY <2>2
    <3>2. UNCHANGED <<export, links, lag>> /\ saved' = saved
      BY <1>1, <3>1 DEF SetTags, docVars
    <3>. QED BY <1>2, <1>3, <1>5, <3>1, <3>2, TagsSet
  <2>. QED BY <2>1, <2>2 DEF PatchEnd, n
<1>7. req' \in [Requests -> Patch \cup Import \cup {NoRequest}] /\ ReqInv'
  BY <1>1, FinishKeeps
<1>8. TypeOK' /\ FreshInv'
  BY <1>1, <1>5, <1>6, <1>7 DEF IInv, TypeOK, FreshInv, docVars
<1>. QED BY <1>5, <1>6, <1>7, <1>8 DEF IInv, GoneInv

LEMMA ImportTagKeeps ==
    ASSUME IInv, NEW r \in Requests, ImportTag(r) PROVE IInv' /\ TitlesStay
<1>. DEFINE n == req[r].at
            g == req[r].file.tags
<1>1. UNCHANGED <<changes, note, titleVars, docVars>> /\ Finish(r)
  BY DEF ImportTag
<1>2. req[r] \in Import
  BY DEF ImportTag, IInv, TypeOK, Patch, Import, NoRequest
<1>3. n \in NoteIds /\ g \in SUBSET Tags
  BY <1>2, NoteTablesAssumption DEF Import
<1>4. Existing' = Existing
  BY <1>1 DEF Existing
<1>5. req' \in [Requests -> Patch \cup Import \cup {NoRequest}] /\ ReqInv'
  BY <1>1, FinishKeeps
<1>6. CASE UNCHANGED derivedVars
  <2>1. /\ UNCHANGED <<note, titleVars, derivedVars, saved>>
        /\ doc' \in [NoteIds -> Contents] /\ changes' \in 0..MaxChanges
    BY <1>1, <1>6 DEF IInv, TypeOK, docVars
  <2>. QED BY <1>5, <2>1, RowsAlone
<1>7. CASE SetTags(n, g)
  <2>. HIDE DEF n, g
  <2>1. HistoryAgrees' /\ TitlesStay /\ \A m \in NoteIds \ Existing' : RowsOf(m)' = {}
    BY <1>1, <1>4, TitlesAlone
  <2>2. UNCHANGED <<export, links, lag>> /\ saved' = saved
    BY <1>1, <1>7 DEF SetTags, docVars
  <2>3. /\ DerivedUnlessSkipped' /\ BacklinksHonest'
        /\ \A m \in NoteIds \ Existing' : tags'[m] = {}
        /\ tags' \in [NoteIds -> SUBSET Tags] /\ retagged' \in [NoteIds -> BOOLEAN]
    BY <1>3, <1>4, <1>7, <2>1, <2>2, TagsSet
  <2>4. TypeOK' /\ FreshInv'
    BY <1>1, <1>5, <2>2, <2>3 DEF IInv, TypeOK, FreshInv, titleVars, docVars
  <2>. QED BY <1>5, <2>1, <2>3, <2>4 DEF IInv, GoneInv
<1>. QED BY <1>6, <1>7 DEF ImportTag

(* The hook makes everything of the note anew from the document stored.    *)
LEMMA StoreKeeps ==
    ASSUME IInv, NEW n \in NoteIds, Store(n) PROVE IInv' /\ TitlesStay
<1>1. /\ UNCHANGED <<changes, note, titleVars, doc, req>>
      /\ note[n] # "none"
      /\ saved' = [saved EXCEPT ![n] = doc[n]]
  BY DEF Store
<1>2. Existing' = Existing
  BY <1>1 DEF Existing
<1>3. HistoryAgrees' /\ TitlesStay /\ \A m \in NoteIds \ Existing' : RowsOf(m)' = {}
  BY <1>1, <1>2, TitlesAlone
<1>4. ReqInv' /\ saved' \in [NoteIds -> Contents] /\ doc[n] \in Contents
  BY <1>1 DEF IInv, TypeOK, ReqInv
<1>5. CASE note[n] = "live"
  <2>1. /\ export' = [export EXCEPT ![n] = doc[n]]
        /\ tags' = [tags EXCEPT ![n] = TagsOf[doc[n]]]
        /\ links' = {l \in links : l.source # n} \cup LinksFrom(n, doc[n])
        /\ lag' = [lag EXCEPT ![n] = FALSE]
        /\ retagged' = [retagged EXCEPT ![n] = FALSE]
    BY <1>5 DEF Store, Hook
  <2>2. /\ LinksFrom(n, doc[n]) \in SUBSET Link
        /\ \A l \in LinksFrom(n, doc[n]) :
              /\ l.source = n /\ l.target \in Existing
              /\ l.text \in LinksOf[doc[n]]
              /\ \E h \in history : h.note = l.target /\ h.title = l.text
              /\ \A k \in LinksFrom(n, doc[n]) : k.text = l.text => k = l
    BY <1>4, LinksResolve
  <2>3. n \in Existing
    BY <1>5 DEF Existing
  <2>4. /\ export' \in [NoteIds -> Contents]
        /\ tags' \in [NoteIds -> SUBSET Tags]
        /\ lag' \in [NoteIds -> BOOLEAN] /\ retagged' \in [NoteIds -> BOOLEAN]
        /\ links' \in SUBSET Link
    BY <1>4, <2>1, <2>2, NoteTablesAssumption DEF IInv, TypeOK
  <2>5. TypeOK'
    BY <1>1, <1>4, <2>4 DEF IInv, TypeOK, titleVars
  <2>6. FreshInv'
    BY <1>1, <2>1 DEF IInv, TypeOK, FreshInv
  <2>7. DerivedUnlessSkipped'
    <3>. SUFFICES ASSUME NEW m \in Existing, ~ lag'[m]
         PROVE  /\ export'[m] = saved'[m]
                /\ ~ retagged'[m] => tags'[m] = TagsOf[saved'[m]]
      BY <1>2 DEF DerivedUnlessSkipped
    <3>0. m \in NoteIds
      BY DEF Existing
    <3>1. CASE m = n
      BY <1>1, <2>1, <3>1 DEF IInv, TypeOK
    <3>2. CASE m # n
      BY <1>1, <2>1, <3>0, <3>2 DEF IInv, TypeOK, DerivedUnlessSkipped
    <3>. QED BY <3>1, <3>2
  <2>8. BacklinksHonest'
    <3>. SUFFICES ASSUME NEW l \in links'
         PROVE  /\ {l.source, l.target} \subseteq Existing
                /\ \E h \in history : h.note = l.target /\ h.title = l.text
                /\ ~ lag'[l.source] => l.text \in LinksOf[export'[l.source]]
                /\ \A k \in links' : k.source = l.source /\ k.text = l.text => k = l
      BY <1>1, <1>2 DEF BacklinksHonest, RowsOf, titleVars
    <3>1. CASE l \in LinksFrom(n, doc[n])
      <4>1. \A k \in links' : k.source = l.source /\ k.text = l.text => k = l
        BY <2>1, <2>2, <3>1
      <4>2. export'[n] = doc[n]
        BY <2>1 DEF IInv, TypeOK
      <4>. QED BY <2>2, <2>3, <3>1, <4>1, <4>2
    <3>2. CASE l \in links /\ l.source # n
      <4>1. l.source \in NoteIds
        BY <3>2 DEF IInv, TypeOK, Link
      <4>2. lag'[l.source] = lag[l.source] /\ export'[l.source] = export[l.source]
        BY <2>1, <3>2, <4>1 DEF IInv, TypeOK
      <4>3. \A k \in links' : k.source = l.source => k \in links
        BY <2>1, <2>2, <3>2
      <4>. QED BY <3>2, <4>2, <4>3 DEF IInv, BacklinksHonest, RowsOf
    <3>. QED BY <2>1, <3>1, <3>2
  <2>9. \A m \in NoteIds \ Existing' : tags'[m] = {}
    BY <1>2, <2>1, <2>3 DEF IInv, TypeOK, GoneInv
  <2>. QED BY <1>3, <1>4, <2>5, <2>6, <2>7, <2>8, <2>9 DEF IInv, GoneInv
<1>6. CASE note[n] # "live"
  <2>1. /\ UNCHANGED <<export, tags, links, retagged>>
        /\ lag' = [lag EXCEPT ![n] = n \in Existing /\ (lag[n] \/ doc[n] # export[n])]
    BY <1>6 DEF Store
  <2>2. lag' \in [NoteIds -> BOOLEAN]
    BY <2>1 DEF IInv, TypeOK
  <2>3. \A m \in Existing : ~ lag'[m] =>
           ~ lag[m] /\ (m = n => doc[n] = export[n])
    BY <2>1 DEF IInv, TypeOK, Existing
  <2>4. TypeOK' /\ FreshInv'
    BY <1>1, <1>4, <2>1, <2>2 DEF IInv, TypeOK, FreshInv, titleVars
  <2>5. DerivedUnlessSkipped'
    <3>. SUFFICES ASSUME NEW m \in Existing, ~ lag'[m]
         PROVE  /\ export[m] = saved'[m]
                /\ ~ retagged[m] => tags[m] = TagsOf[saved'[m]]
      BY <1>2, <2>1 DEF DerivedUnlessSkipped
    <3>1. m \in NoteIds
      BY DEF Existing
    <3>2. saved'[m] = saved[m]
      BY <1>1, <2>3, <3>1 DEF IInv, TypeOK, DerivedUnlessSkipped
    <3>. QED BY <2>3, <3>2 DEF IInv, DerivedUnlessSkipped
  <2>6. BacklinksHonest'
    <3>1. \A l \in links : ~ lag'[l.source] => ~ lag[l.source]
      BY <2>3 DEF IInv, BacklinksHonest
    <3>. QED BY <1>1, <1>2, <2>1, <3>1 DEF IInv, BacklinksHonest, RowsOf, titleVars
  <2>7. \A m \in NoteIds \ Existing' : tags'[m] = {}
    BY <1>2, <2>1 DEF IInv, GoneInv
  <2>. QED BY <1>3, <1>4, <2>4, <2>5, <2>6, <2>7 DEF IInv, GoneInv
<1>. QED BY <1>5, <1>6

(* A purge takes the rows of the note, and the titles of no other.         *)
LEMMA PurgeNoteKeeps ==
    ASSUME IInv, NEW n \in NoteIds, PurgeNote(n)
    PROVE  /\ IInv'
           /\ \A h \in history : note'[h.note] # "gone" => h \in history'
<1>1. /\ UNCHANGED <<changes, doc, saved, req>>
      /\ note' = [note EXCEPT ![n] = "gone"]
      /\ title' = [title EXCEPT ![n] = Untitled]
      /\ export' = [export EXCEPT ![n] = Empty]
      /\ history' = history \ RowsOf(n)
      /\ tags' = [tags EXCEPT ![n] = {}]
      /\ torn' = [torn EXCEPT ![n] = FALSE]
      /\ lag' = [lag EXCEPT ![n] = FALSE]
      /\ retagged' = [retagged EXCEPT ![n] = FALSE]
      /\ links' = {l \in links : l.source # n /\ l.target # n}
  BY DEF PurgeNote, DropRow, docVars
<1>2. Existing' = Existing \ {n}
  BY <1>1 DEF IInv, TypeOK, Existing
<1>3. \A m \in NoteIds : m # n =>
         /\ title'[m] = title[m] /\ export'[m] = export[m] /\ tags'[m] = tags[m]
         /\ torn'[m] = torn[m] /\ lag'[m] = lag[m] /\ retagged'[m] = retagged[m]
         /\ RowsOf(m)' = RowsOf(m)
  BY <1>1 DEF IInv, TypeOK, RowsOf
<1>4. TypeOK'
  <2>1. /\ note' \in [NoteIds -> {"none", "live", "trashed", "gone"}]
        /\ title' \in [NoteIds -> Titles] /\ export' \in [NoteIds -> Contents]
        /\ tags' \in [NoteIds -> SUBSET Tags] /\ torn' \in [NoteIds -> BOOLEAN]
        /\ lag' \in [NoteIds -> BOOLEAN] /\ retagged' \in [NoteIds -> BOOLEAN]
    BY <1>1, NoteTablesAssumption DEF IInv, TypeOK
  <2>2. history' \in SUBSET HistoryRow /\ links' \in SUBSET Link
    BY <1>1 DEF IInv, TypeOK
  <2>. QED BY <1>1, <2>1, <2>2 DEF IInv, TypeOK
<1>5. FreshInv'
  BY <1>1 DEF IInv, TypeOK, FreshInv
<1>6. ReqInv'
  <2>. SUFFICES ASSUME NEW r \in Requests, req[r] # NoRequest
       PROVE  note'[req[r].at] # "none"
    BY <1>1 DEF ReqInv
  <2>1. req[r].at \in NoteIds
    BY DEF IInv, TypeOK, Patch, Import
  <2>. QED BY <1>1, <2>1 DEF IInv, TypeOK, ReqInv
<1>7. \A m \in Existing' : m \in NoteIds /\ m # n /\ m \in Existing
  BY <1>2 DEF Existing
<1>8. HistoryAgrees'
  <2>. SUFFICES ASSUME NEW m \in Existing'
       PROVE  /\ \A h, k \in RowsOf(m)' : h.open /\ k.open => h = k
              /\ ~ torn'[m] => [note |-> m, title |-> title'[m], open |-> TRUE] \in history'
    BY DEF HistoryAgrees
  <2>1. \A h, k \in RowsOf(m)' : h.open /\ k.open => h = k
    BY <1>3, <1>7 DEF IInv, HistoryAgrees
  <2>2. ASSUME ~ torn'[m]
        PROVE  [note |-> m, title |-> title'[m], open |-> TRUE] \in history'
    <3>1. [note |-> m, title |-> title[m], open |-> TRUE] \in history
      BY <1>3, <1>7, <2>2 DEF IInv, HistoryAgrees
    <3>. QED BY <1>1, <1>3, <1>7, <3>1 DEF RowsOf
  <2>. QED BY <2>1, <2>2
<1>9. GoneInv'
  BY <1>1, <1>2, <1>3 DEF IInv, TypeOK, GoneInv, RowsOf
<1>10. DerivedUnlessSkipped'
  BY <1>1, <1>3, <1>7 DEF IInv, DerivedUnlessSkipped
<1>11. BacklinksHonest'
  <2>. SUFFICES ASSUME NEW l \in links'
       PROVE  /\ {l.source, l.target} \subseteq Existing'
              /\ \E h \in RowsOf(l.target)' : h.title = l.text
              /\ ~ lag'[l.source] => l.text \in LinksOf[export'[l.source]]
              /\ \A k \in links' : k.source = l.source /\ k.text = l.text => k = l
    BY DEF BacklinksHonest
  <2>1. l \in links /\ l.source # n /\ l.target # n
    BY <1>1
  <2>2. {l.source, l.target} \subseteq Existing'
    BY <1>2, <2>1 DEF IInv, BacklinksHonest
  <2>3. \E h \in RowsOf(l.target)' : h.title = l.text
    BY <1>3, <1>7, <2>1, <2>2 DEF IInv, BacklinksHonest
  <2>4. ~ lag'[l.source] => l.text \in LinksOf[export'[l.source]]
    BY <1>3, <1>7, <2>1, <2>2 DEF IInv, BacklinksHonest
  <2>5. \A k \in links' : k.source = l.source /\ k.text = l.text => k = l
    BY <1>1, <2>1 DEF IInv, BacklinksHonest
  <2>. QED BY <2>2, <2>3, <2>4, <2>5
<1>12. \A h \in history : note'[h.note] # "gone" => h \in history'
  BY <1>1 DEF IInv, TypeOK, RowsOf
<1>. QED BY <1>4, <1>5, <1>6, <1>8, <1>9, <1>10, <1>11, <1>12 DEF IInv

(* Requests are gone after a reboot.                                       *)
LEMMA RebootDrops ==
    ASSUME IInv, NEW T \in [NoteIds -> Contents], Reboot(T)
    PROVE  /\ saved' = T /\ doc' = T /\ ReqInv'
           /\ req' \in [Requests -> Patch \cup Import \cup {NoRequest}]
BY DEF Reboot, ReqInv

LEMMA CrashKeeps == ASSUME IInv, Crash PROVE IInv' /\ TitlesStay
<1>1. Reboot(saved) /\ UNCHANGED <<changes, note, titleVars, derivedVars>>
  BY DEF Crash
<1>2. saved \in [NoteIds -> Contents]
  BY DEF IInv, TypeOK
<1>3. /\ saved' = saved /\ doc' \in [NoteIds -> Contents] /\ ReqInv'
      /\ req' \in [Requests -> Patch \cup Import \cup {NoRequest}]
  BY <1>1, <1>2, RebootDrops
<1>4. changes' \in 0..MaxChanges
  BY <1>1 DEF IInv, TypeOK
<1>. QED BY <1>1, <1>3, <1>4, RowsAlone

(* A title that was changed but not appended: the note is marked torn.     *)
LEMMA CrashInTitleKeeps ==
    ASSUME IInv, NEW n \in NoteIds, NEW t \in Titles, CrashInTitle(n, t)
    PROVE  IInv' /\ TitlesStay
<1>1. /\ title' = [title EXCEPT ![n] = t]
      /\ torn' = [torn EXCEPT ![n] = TRUE]
      /\ Reboot(saved)
      /\ UNCHANGED <<history, derivedVars>>
      /\ \/ note[n] = "none" /\ note' = [note EXCEPT ![n] = "live"]
         \/ n \in Existing /\ note' = note
  BY DEF CrashInTitle
<1>2. saved \in [NoteIds -> Contents]
  BY DEF IInv, TypeOK
<1>3. /\ saved' = saved /\ doc' \in [NoteIds -> Contents] /\ ReqInv'
      /\ req' \in [Requests -> Patch \cup Import \cup {NoRequest}]
  BY <1>1, <1>2, RebootDrops
<1>4. changes' \in 0..MaxChanges
  BY BoundKept DEF IInv, CrashInTitle
<1>5. TitlesStay
  BY <1>1 DEF TitlesStay
<1>6. NotesStay /\ \A m \in NoteIds : m # n => (m \in Existing' <=> m \in Existing)
  BY <1>1 DEF IInv, TypeOK, NotesStay, Existing
<1>7. /\ DerivedUnlessSkipped' /\ BacklinksHonest'
      /\ \A m \in NoteIds \ Existing' : tags'[m] = {}
  BY <1>1, <1>3, <1>5, <1>6, DerivedAlone
<1>8. \A m \in NoteIds \ Existing' : RowsOf(m)' = {}
  BY <1>1, <1>6 DEF IInv, GoneInv, NotesStay, RowsOf
<1>9. HistoryAgrees'
  <2>. SUFFICES ASSUME NEW m \in Existing'
       PROVE  /\ \A h, k \in RowsOf(m) : h.open /\ k.open => h = k
              /\ ~ torn'[m] => [note |-> m, title |-> title'[m], open |-> TRUE] \in history
    BY <1>1 DEF HistoryAgrees, RowsOf
  <2>1. m \in NoteIds
    BY DEF Existing
  <2>2. \A h, k \in RowsOf(m) : h.open /\ k.open => h = k
    <3>1. CASE m \in Existing
      BY <3>1 DEF IInv, HistoryAgrees
    <3>2. CASE m \notin Existing
      BY <2>1, <3>2 DEF IInv, GoneInv
    <3>. QED BY <3>1, <3>2
  <2>3. CASE m = n
    <3>1. torn'[m]
      BY <1>1, <2>3 DEF IInv, TypeOK
    <3>. QED BY <2>2, <3>1
  <2>4. CASE m # n
    <3>1. m \in Existing /\ title'[m] = title[m] /\ torn'[m] = torn[m]
      BY <1>1, <1>6, <2>1, <2>4 DEF IInv, TypeOK
    <3>. QED BY <2>2, <3>1 DEF IInv, HistoryAgrees
  <2>. QED BY <2>3, <2>4
<1>10. FreshInv'
  BY <1>1, <1>3 DEF IInv, TypeOK, FreshInv, derivedVars
<1>11. TypeOK'
  <2>1. /\ note' \in [NoteIds -> {"none", "live", "trashed", "gone"}]
        /\ title' \in [NoteIds -> Titles] /\ torn' \in [NoteIds -> BOOLEAN]
    BY <1>1 DEF IInv, TypeOK
  <2>. QED BY <1>1, <1>3, <1>4, <2>1 DEF IInv, TypeOK, derivedVars
<1>. QED BY <1>3, <1>5, <1>7, <1>8, <1>9, <1>10, <1>11 DEF IInv, GoneInv

(* A store that was cut: the note is marked as lagging.                    *)
LEMMA CrashInStoreKeeps ==
    ASSUME IInv, NEW n \in NoteIds, CrashInStore(n) PROVE IInv' /\ TitlesStay
<1>1. /\ note[n] = "live"
      /\ Reboot([saved EXCEPT ![n] = doc[n]])
      /\ \/ UNCHANGED <<export, tags>>
         \/ export' = [export EXCEPT ![n] = doc[n]] /\ UNCHANGED tags
         \/ /\ export' = [export EXCEPT ![n] = doc[n]]
            /\ tags' = [tags EXCEPT ![n] = TagsOf[doc[n]]]
      /\ lag' = [lag EXCEPT ![n] = TRUE]
      /\ UNCHANGED <<note, titleVars, links, retagged>>
  BY DEF CrashInStore
<1>. DEFINE T == [saved EXCEPT ![n] = doc[n]]
<1>2. T \in [NoteIds -> Contents] /\ \A m \in NoteIds : m # n => T[m] = saved[m]
  BY DEF IInv, TypeOK
<1>3. Reboot(T)
  BY <1>1
<1>. HIDE DEF T
<1>4. /\ saved' = T /\ doc' = T /\ ReqInv'
      /\ req' \in [Requests -> Patch \cup Import \cup {NoRequest}]
  BY <1>2, <1>3, RebootDrops
<1>5. /\ export' \in [NoteIds -> Contents] /\ tags' \in [NoteIds -> SUBSET Tags]
      /\ lag' \in [NoteIds -> BOOLEAN] /\ lag'[n]
      /\ \A m \in NoteIds : m # n =>
            export'[m] = export[m] /\ tags'[m] = tags[m] /\ lag'[m] = lag[m]
  <2>1. doc[n] \in Contents /\ TagsOf[doc[n]] \in SUBSET Tags
    BY NoteTablesAssumption DEF IInv, TypeOK
  <2>2. /\ lag' \in [NoteIds -> BOOLEAN] /\ lag'[n]
        /\ \A m \in NoteIds : m # n => lag'[m] = lag[m]
    BY <1>1 DEF IInv, TypeOK
  <2>3. /\ export' \in [NoteIds -> Contents] /\ tags' \in [NoteIds -> SUBSET Tags]
        /\ \A m \in NoteIds : m # n => export'[m] = export[m] /\ tags'[m] = tags[m]
    BY <1>1, <2>1 DEF IInv, TypeOK
  <2>. QED BY <2>2, <2>3
<1>6. Existing' = Existing /\ n \in Existing
  BY <1>1 DEF Existing
<1>7. HistoryAgrees' /\ TitlesStay /\ \A m \in NoteIds \ Existing' : RowsOf(m)' = {}
  BY <1>1, <1>6, TitlesAlone
<1>8. changes' \in 0..MaxChanges
  BY BoundKept DEF IInv, CrashInStore
<1>9. TypeOK'
  BY <1>1, <1>2, <1>4, <1>5, <1>8 DEF IInv, TypeOK, titleVars
<1>10. FreshInv'
  BY <1>1, <1>2, <1>4, <1>5 DEF IInv, FreshInv
<1>11. DerivedUnlessSkipped'
  <2>1. \A m \in Existing : m \in NoteIds
    BY DEF Existing
  <2>. QED BY <1>1, <1>2, <1>4, <1>5, <1>6, <2>1 DEF IInv, DerivedUnlessSkipped
<1>12. BacklinksHonest'
  <2>1. \A l \in links : l.source \in NoteIds
    BY DEF IInv, TypeOK, Link
  <2>. QED BY <1>1, <1>5, <1>6, <2>1 DEF IInv, BacklinksHonest, RowsOf, titleVars
<1>13. \A m \in NoteIds \ Existing' : tags'[m] = {}
  BY <1>5, <1>6 DEF IInv, GoneInv
<1>. QED BY <1>4, <1>7, <1>9, <1>10, <1>11, <1>12, <1>13 DEF IInv, GoneInv

------------------------------------------------------------------------------
(* Theorems. *)

(* Every step keeps the invariant, and the titles of notes that stay.      *)
LEMMA StepKeeps ==
    ASSUME IInv, [Next]_vars
    PROVE  /\ IInv'
           /\ \A h \in history : note'[h.note] # "gone" =>
                 \E k \in history' : k.note = h.note /\ k.title = h.title
<1>0. TitlesStay => \A h \in history : note'[h.note] # "gone" =>
         \E k \in history' : k.note = h.note /\ k.title = h.title
  BY DEF TitlesStay
<1>1. CASE UNCHANGED vars
  BY <1>0, <1>1, StutterKeeps
<1>2. ASSUME NEW n \in NoteIds, NEW t \in Titles, Create(n, t)
      PROVE  IInv' /\ TitlesStay
  BY <1>2, CreateKeeps
<1>3. ASSUME NEW n \in NoteIds, NEW t \in Titles, CrashInTitle(n, t)
      PROVE  IInv' /\ TitlesStay
  BY <1>3, CrashInTitleKeeps
<1>4. ASSUME NEW r \in Requests, NEW n \in NoteIds, PatchBegin(r, n)
      PROVE  IInv' /\ TitlesStay
  BY <1>4, PatchBeginKeeps
<1>5. ASSUME NEW r \in Requests, NEW n \in NoteIds, NEW f \in Files, ImportBegin(r, n, f)
      PROVE  IInv' /\ TitlesStay
  BY <1>5, ImportBeginKeeps
<1>6. ASSUME NEW r \in Requests, PatchEnd(r) PROVE IInv' /\ TitlesStay
  BY <1>6, PatchEndKeeps
<1>7. ASSUME NEW r \in Requests, ImportSeed(r) PROVE IInv' /\ TitlesStay
  BY <1>7, ImportSeedKeeps
<1>8. ASSUME NEW r \in Requests, ImportTag(r) PROVE IInv' /\ TitlesStay
  BY <1>8, ImportTagKeeps
<1>9. ASSUME NEW n \in NoteIds, NEW c \in Contents, Edit(n, c)
      PROVE  IInv' /\ TitlesStay
  BY <1>9, EditKeeps
<1>10. ASSUME NEW n \in NoteIds, Store(n) PROVE IInv' /\ TitlesStay
  BY <1>10, StoreKeeps
<1>11. ASSUME NEW n \in NoteIds, TrashNote(n) \/ RestoreNote(n)
       PROVE  IInv' /\ TitlesStay
  BY <1>11, MoveKeeps
<1>12. ASSUME NEW n \in NoteIds, PurgeNote(n)
       PROVE  /\ IInv'
              /\ \A h \in history : note'[h.note] # "gone" =>
                    \E k \in history' : k.note = h.note /\ k.title = h.title
  BY <1>12, PurgeNoteKeeps
<1>13. ASSUME NEW n \in NoteIds, CrashInStore(n) PROVE IInv' /\ TitlesStay
  BY <1>13, CrashInStoreKeeps
<1>14. CASE Crash
  BY <1>0, <1>14, CrashKeeps
<1>. QED BY <1>0, <1>1, <1>2, <1>3, <1>4, <1>5, <1>6, <1>7, <1>8, <1>9, <1>10,
            <1>11, <1>12, <1>13, <1>14 DEF Next

(* The invariant holds of every behaviour of the routes, the hook, the     *)
(* purger and the crashes.                                                 *)
THEOREM Invariant == Spec => []IInv
<1>1. IInv /\ [Next]_vars => IInv'
  BY StepKeeps
<1>. QED BY <1>1, InitHolds, PTL DEF Spec

(* The tables hold rows of their types.                                    *)
THEOREM TypeCorrect == Spec => []TypeOK
<1>1. IInv => TypeOK
  BY DEF IInv
<1>. QED BY <1>1, Invariant, PTL

(* The alias table agrees with the notes rows, however the requests that   *)
(* rename interleave.                                                      *)
THEOREM HistoryStaysTrue == Spec => []HistoryAgrees
<1>1. IInv => HistoryAgrees
  BY DEF IInv
<1>. QED BY <1>1, Invariant, PTL

(* Old titles continue to resolve while their note exists.                 *)
THEOREM TitlesNeverLost == Spec => OldTitlesResolve
<1>1. IInv /\ [Next]_vars =>
        [\A h \in history : note'[h.note] # "gone" =>
            \E k \in history' : k.note = h.note /\ k.title = h.title]_vars
  BY StepKeeps
<1>. QED BY <1>1, Invariant, PTL DEF Spec, OldTitlesResolve

(* What the hook derives is that of the stored document, unless a store    *)
(* was skipped or cut.                                                     *)
THEOREM DerivedStaysTrue == Spec => []DerivedUnlessSkipped
<1>1. IInv => DerivedUnlessSkipped
  BY DEF IInv
<1>. QED BY <1>1, Invariant, PTL

(* Backlinks join existing notes by titles their targets had.              *)
THEOREM BacklinksStayHonest == Spec => []BacklinksHonest
<1>1. IInv => BacklinksHonest
  BY DEF IInv
<1>. QED BY <1>1, Invariant, PTL

==============================================================================
