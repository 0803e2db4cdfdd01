----------------------------- MODULE NoteTables ------------------------------
(***************************************************************************)
(* The notes of the server and what is derived from them: the notes rows,  *)
(* the history of their titles, their tags and backlinks, the markdown     *)
(* export, and the documents they are derived from, under requests that    *)
(* read a row before an await and write after it, an import, the purger,   *)
(* and crashes between two statements.                                     *)
(*                                                                         *)
(* server/src/notes/{routes,purge}.ts, server/src/import/routes.ts,        *)
(* server/src/derived/hook.ts without mentions and comments, and the       *)
(* repositories of notes, note_titles_history, tags and backlinks.         *)
(*                                                                         *)
(* A document's content is a model value: TagsOf and LinksOf say which     *)
(* tags and which linked titles its markdown shows.                        *)
(***************************************************************************)
EXTENDS Naturals

CONSTANTS
    NoteIds,        \* uuids of notes
    Titles,
    Untitled,       \* the title a note gets when none is given
    Tags,
    Contents,       \* what a document may say
    Empty,          \* a new document
    TagsOf,         \* extractTags of each content's markdown
    LinksOf,        \* extractBacklinks of each content's markdown
    Files,          \* markdown files that may be imported
    Requests,       \* requests served at once
    MayCrash,       \* whether the process may die
    MaxChanges      \* bound: edits, PATCH requests and crashes inside a
                    \* callback

ASSUME NoteTablesAssumption ==
    /\ Untitled \in Titles
    /\ Empty \in Contents
    /\ TagsOf \in [Contents -> SUBSET Tags] /\ TagsOf[Empty] = {}
    /\ LinksOf \in [Contents -> SUBSET Titles] /\ LinksOf[Empty] = {}
    /\ Files \subseteq [title: Titles, content: Contents, tags: SUBSET Tags]
    /\ MayCrash \in BOOLEAN
    /\ MaxChanges \in Nat

VARIABLES
    note,       \* note[n]: the notes row, "none" before it is inserted
    title,      \* notes.title
    export,     \* the content notes.markdown_export was made from
    history,    \* rows of note_titles_history
    tags,       \* rows of tags, by note
    links,      \* rows of backlinks
    doc,        \* the document in memory
    saved,      \* the document in the `documents` table
    req,        \* the requests under way
    torn,       \* torn[n]: a crash cut n's last title change (history)
    lag,        \* lag[n]: a store of n was not exported, or in part (history)
    changes,    \* how many of the bounded steps were taken
    retagged    \* retagged[n]: a request set n's tags since it was last
                \* exported (history)

vars == <<note, title, export, history, tags, links, doc, saved, req,
          torn, lag, changes, retagged>>
titleVars == <<title, history, torn>>
derivedVars == <<export, tags, links, lag, retagged>>
docVars == <<doc, saved>>

------------------------------------------------------------------------------
(* State. *)

HistoryRow == [note: NoteIds, title: Titles, open: BOOLEAN]
Link == [source: NoteIds, target: NoteIds, text: Titles]

(* A request after an await: a PATCH holds the title it read, an import    *)
(* the file it is at.                                                      *)
Patch == [phase: {"patching"}, at: NoteIds, old: Titles]
Import == [phase: {"seeding", "tagging"}, at: NoteIds, file: Files]
NoRequest == [phase |-> "idle"]

Finish(r) == req' = [req EXCEPT ![r] = NoRequest]

TypeOK ==
    /\ note \in [NoteIds -> {"none", "live", "trashed", "gone"}]
    /\ title \in [NoteIds -> Titles]
    /\ export \in [NoteIds -> Contents]
    /\ history \in SUBSET HistoryRow
    /\ tags \in [NoteIds -> SUBSET Tags]
    /\ links \in SUBSET Link
    /\ doc \in [NoteIds -> Contents]
    /\ saved \in [NoteIds -> Contents]
    /\ req \in [Requests -> Patch \cup Import \cup {NoRequest}]
    /\ torn \in [NoteIds -> BOOLEAN]
    /\ lag \in [NoteIds -> BOOLEAN]
    /\ changes \in 0..MaxChanges
    /\ retagged \in [NoteIds -> BOOLEAN]

Init ==
    /\ note = [n \in NoteIds |-> "none"]
    /\ title = [n \in NoteIds |-> Untitled]
    /\ export = [n \in NoteIds |-> Empty]
    /\ history = {}
    /\ tags = [n \in NoteIds |-> {}]
    /\ links = {}
    /\ doc = [n \in NoteIds |-> Empty]
    /\ saved = [n \in NoteIds |-> Empty]
    /\ req = [r \in Requests |-> NoRequest]
    /\ torn = [n \in NoteIds |-> FALSE]
    /\ lag = [n \in NoteIds |-> FALSE]
    /\ changes = 0
    /\ retagged = [n \in NoteIds |-> FALSE]

(* The bound on a run. *)
Bounded == changes < MaxChanges /\ changes' = changes + 1

Existing == {n \in NoteIds : note[n] \in {"live", "trashed"}}
RowsOf(n) == {h \in history : h.note = n}

------------------------------------------------------------------------------
(* Titles. *)

(* Faulty: the open row of the note is not closed.                         *)
AppendOnly(H, n, t) == H \cup {[note |-> n, title |-> t, open |-> TRUE]}

(* Faulty: the row of the old title is overwritten.                        *)
AppendReplaces(H, n, t) ==
    {h \in H : h.note # n} \cup {[note |-> n, title |-> t, open |-> TRUE]}

(* noteTitlesHistory.append: close the open row and insert the new one, in *)
(* one transaction.                                                        *)
Append(H, n, t) ==
    {IF h.note = n THEN [h EXCEPT !.open = FALSE] ELSE h : h \in H}
        \cup {[note |-> n, title |-> t, open |-> TRUE]}

(* The row of a new note and its first title: two statements.              *)
NewNote(n, t) ==
    /\ note[n] = "none"
    /\ note' = [note EXCEPT ![n] = "live"]
    /\ title' = [title EXCEPT ![n] = t]
    /\ history' = Append(history, n, t)
    /\ UNCHANGED torn

(* POST /notes.                                                            *)
Create(n, t) ==
    /\ NewNote(n, t)
    /\ UNCHANGED <<changes, derivedVars, docVars, req>>

(* PATCH /notes/:id, up to the await of its body.  Nothing asks whether    *)
(* the note is trashed.                                                    *)
PatchBegin(r, n) ==
    /\ Bounded
    /\ req[r] = NoRequest
    /\ n \in Existing
    /\ req' = [req EXCEPT ![r] = [phase |-> "patching", at |-> n,
                                  old |-> title[n]]]
    /\ UNCHANGED <<note, titleVars, derivedVars, docVars>>

(* updateTitle and append.  The foreign key refuses the row of a purged    *)
(* note, and its UPDATE finds none.                                        *)
Rename(n, t) ==
    IF n \in Existing
    THEN /\ title' = [title EXCEPT ![n] = t]
         /\ history' = Append(history, n, t)
         /\ torn' = [torn EXCEPT ![n] = FALSE]
    ELSE UNCHANGED titleVars

(* tags.replaceForNote, from a request.                                    *)
SetTags(n, g) ==
    /\ IF n \in Existing
       THEN /\ tags' = [tags EXCEPT ![n] = g]
            /\ retagged' = [retagged EXCEPT ![n] = TRUE]
       ELSE UNCHANGED <<tags, retagged>>
    /\ UNCHANGED <<export, links, lag>>

(* The rest of the PATCH: a title that differs from the one read before    *)
(* the await, and tags.  Either may be absent, and tags that are not valid *)
(* fail the request after the title was changed.                           *)
PatchEnd(r) ==
    /\ req[r].phase = "patching"
    /\ \E t \in Titles : IF t # req[r].old THEN Rename(req[r].at, t)
                                           ELSE UNCHANGED titleVars
    /\ \/ \E g \in SUBSET Tags : SetTags(req[r].at, g)
       \/ UNCHANGED derivedVars
    /\ Finish(r)
    /\ UNCHANGED <<changes, note, docVars>>

------------------------------------------------------------------------------
(* Deriving. *)

(* Faulty: an ambiguous title resolves to every note that had it.          *)
ResolveAny(t) == {h.note : h \in {k \in history : k.title = t}}

(* titleResolver: the note that ever had the title, when it is one.        *)
Resolve(t) ==
    LET had == {h.note : h \in {k \in history : k.title = t}}
    IN  {n \in had : had = {n}}

(* Faulty: a title that does not resolve is not dropped.                   *)
LinksFromMisses(n, c) ==
    {[source |-> n, target |-> IF Resolve(t) = {} THEN "null"
                               ELSE CHOOSE m \in Resolve(t) : TRUE, text |-> t] :
        t \in LinksOf[c]}

(* resolveBacklinks and the rows replaceForSource inserts.                 *)
LinksFrom(n, c) ==
    UNION {{[source |-> n, target |-> m, text |-> t] : m \in Resolve(t)} :
              t \in LinksOf[c]}

(* Faulty: tags are left alone when the markdown shows none.               *)
HookKeepsTags(n) ==
    /\ export' = [export EXCEPT ![n] = doc[n]]
    /\ tags' = IF TagsOf[doc[n]] = {} THEN tags
               ELSE [tags EXCEPT ![n] = TagsOf[doc[n]]]
    /\ links' = {l \in links : l.source # n} \cup LinksFrom(n, doc[n])
    /\ lag' = [lag EXCEPT ![n] = FALSE]
    /\ retagged' = [retagged EXCEPT ![n] = FALSE]

(* onStoreDocument of a live note: markdown_export, tags, backlinks.       *)
Hook(n) ==
    /\ export' = [export EXCEPT ![n] = doc[n]]
    /\ tags' = [tags EXCEPT ![n] = TagsOf[doc[n]]]
    /\ links' = {l \in links : l.source # n} \cup LinksFrom(n, doc[n])
    /\ lag' = [lag EXCEPT ![n] = FALSE]
    /\ retagged' = [retagged EXCEPT ![n] = FALSE]

(* A change of a client reaches the document.                              *)
Edit(n, c) ==
    /\ Bounded
    /\ note[n] # "none"
    /\ c # doc[n]
    /\ doc' = [doc EXCEPT ![n] = c]
    /\ UNCHANGED <<note, titleVars, derivedVars, saved, req>>

(* Hocuspocus stores the document, then runs the hook, which returns early *)
(* for a note that is trashed or gone.  The direct connection of a route   *)
(* may make it store an unchanged document too.                            *)
Store(n) ==
    /\ note[n] # "none"
    /\ saved' = [saved EXCEPT ![n] = doc[n]]
    /\ IF note[n] = "live"
       THEN Hook(n)
       ELSE /\ lag' = [lag EXCEPT ![n] = n \in Existing /\ (@ \/ doc[n] # export[n])]
            /\ UNCHANGED <<export, tags, links, retagged>>
    /\ UNCHANGED <<changes, note, titleVars, doc, req>>

------------------------------------------------------------------------------
(* Import of one file.  The loop of POST /notes/import goes on with the    *)
(* next file or ends, and leaves what it made when one fails.              *)

ImportBegin(r, n, f) ==
    /\ req[r] = NoRequest
    /\ NewNote(n, f.title)
    /\ req' = [req EXCEPT ![r] = [phase |-> "seeding", at |-> n, file |-> f]]
    /\ UNCHANGED <<changes, derivedVars, docVars>>

(* The transact callback of yjs.replace.                                   *)
ImportSeed(r) ==
    /\ req[r].phase = "seeding"
    /\ doc' = [doc EXCEPT ![req[r].at] = req[r].file.content]
    /\ req' = [req EXCEPT ![r].phase = "tagging"]
    /\ UNCHANGED <<changes, note, titleVars, derivedVars, saved>>

(* After the direct connection is closed: the frontmatter's tags.          *)
ImportTag(r) ==
    /\ req[r].phase = "tagging"
    /\ IF req[r].file.tags # {} THEN SetTags(req[r].at, req[r].file.tags)
                           ELSE UNCHANGED derivedVars
    /\ Finish(r)
    /\ UNCHANGED <<changes, note, titleVars, docVars>>

------------------------------------------------------------------------------
(* Trash and purge. *)

TrashNote(n) ==
    /\ n \in Existing
    /\ note' = [note EXCEPT ![n] = "trashed"]
    /\ UNCHANGED <<changes, titleVars, derivedVars, docVars, req>>

RestoreNote(n) ==
    /\ n \in Existing
    /\ note' = [note EXCEPT ![n] = "live"]
    /\ UNCHANGED <<changes, titleVars, derivedVars, docVars, req>>

(* The row, its history and its tags.                                      *)
DropRow(n) ==
    /\ note' = [note EXCEPT ![n] = "gone"]
    /\ title' = [title EXCEPT ![n] = Untitled]
    /\ export' = [export EXCEPT ![n] = Empty]
    /\ history' = history \ RowsOf(n)
    /\ tags' = [tags EXCEPT ![n] = {}]
    /\ torn' = [torn EXCEPT ![n] = FALSE]
    /\ lag' = [lag EXCEPT ![n] = FALSE]
    /\ retagged' = [retagged EXCEPT ![n] = FALSE]

(* hardDelete and purgeOlderThan, with what cascades from the row.  The    *)
(* `documents` table has no foreign key to notes and nothing deletes from  *)
(* it: the document stays (see PurgeTakesDocument).                        *)
PurgeNote(n) ==
    /\ note[n] = "trashed"
    /\ DropRow(n)
    /\ links' = {l \in links : l.source # n /\ l.target # n}
    /\ UNCHANGED <<changes, docVars, req>>

------------------------------------------------------------------------------
(* The process dies, between callbacks or between two statements of one.   *)

Reboot(table) ==
    /\ MayCrash
    /\ saved' = table
    /\ doc' = table
    /\ req' = [r \in Requests |-> NoRequest]

Crash ==
    /\ Reboot(saved)
    /\ UNCHANGED <<changes, note, titleVars, derivedVars>>

(* Between the insert or update of the notes row and append.               *)
CrashInTitle(n, t) ==
    /\ Bounded
    /\ \/ /\ note[n] = "none"
          /\ note' = [note EXCEPT ![n] = "live"]
       \/ /\ n \in Existing
          /\ \E r \in Requests : /\ req[r].phase = "patching"
                                 /\ req[r].at = n /\ req[r].old # t
          /\ UNCHANGED note
    /\ title' = [title EXCEPT ![n] = t]
    /\ torn' = [torn EXCEPT ![n] = TRUE]
    /\ Reboot(saved)
    /\ UNCHANGED <<history, derivedVars>>

(* Between the writes of a store: documents, markdown_export, tags, links. *)
CrashInStore(n) ==
    /\ Bounded
    /\ note[n] = "live"
    /\ Reboot([saved EXCEPT ![n] = doc[n]])
    /\ \/ UNCHANGED <<export, tags>>
       \/ export' = [export EXCEPT ![n] = doc[n]] /\ UNCHANGED tags
       \/ /\ export' = [export EXCEPT ![n] = doc[n]]
          /\ tags' = [tags EXCEPT ![n] = TagsOf[doc[n]]]
    /\ lag' = [lag EXCEPT ![n] = TRUE]
    /\ UNCHANGED <<note, titleVars, links, retagged>>

Next ==
    \/ \E n \in NoteIds, t \in Titles :
        \/ Create(n, t)
        \/ CrashInTitle(n, t)
    \/ \E r \in Requests :
        \/ \E n \in NoteIds : PatchBegin(r, n)
        \/ \E n \in NoteIds, f \in Files : ImportBegin(r, n, f)
        \/ PatchEnd(r)
        \/ ImportSeed(r)
        \/ ImportTag(r)
    \/ \E n \in NoteIds :
        \/ \E c \in Contents : Edit(n, c)
        \/ Store(n)
        \/ TrashNote(n)
        \/ RestoreNote(n)
        \/ PurgeNote(n)
        \/ CrashInStore(n)
    \/ Crash

Spec == Init /\ [][Next]_vars

------------------------------------------------------------------------------
(* Properties. *)

(* The alias table: a note has one open title, the one its row shows,      *)
(* however renames that read a stale title interleave.  Only a crash       *)
(* between the two statements of a title change breaks it, until the next  *)
(* change.                                                                 *)
HistoryAgrees ==
    \A n \in Existing :
        /\ \A h, k \in RowsOf(n) : h.open /\ k.open => h = k
        /\ ~ torn[n] => [note |-> n, title |-> title[n], open |-> TRUE] \in history

(* PRD 6.4: old titles continue to resolve.  While a note exists, a title  *)
(* that was given to it stays in the history.                              *)
OldTitlesResolve ==
    [][\A h \in history : note'[h.note] # "gone" =>
          \E k \in history' : k.note = h.note /\ k.title = h.title]_vars

(* The export follows the stored document, and the tags follow the export  *)
(* until a request sets others, unless a store of the note was skipped     *)
(* while it was trashed or cut by a crash.                                 *)
DerivedUnlessSkipped ==
    \A n \in Existing : ~ lag[n] =>
        /\ export[n] = saved[n]
        /\ ~ retagged[n] => tags[n] = TagsOf[saved[n]]

(* A backlink joins two notes that exist, by a title its target has or     *)
(* had, and a title is linked to one note at most from each source.        *)
BacklinksHonest ==
    \A l \in links :
        /\ {l.source, l.target} \subseteq Existing
        /\ \E h \in RowsOf(l.target) : h.title = l.text
        /\ ~ lag[l.source] => l.text \in LinksOf[export[l.source]]
        /\ \A k \in links : k.source = l.source /\ k.text = l.text => k = l

(* PRD 9.3: the purge of a note includes its Yjs state.  So the            *)
(* `documents` row does not outlive the notes row, and no store that comes *)
(* late writes it again.                                                   *)
PurgeTakesDocument ==
    \A n \in NoteIds : note[n] = "gone" => saved[n] = Empty

(* docs/ARCHITECTURE.md: search, tags and backlinks can never drift from   *)
(* the document.  So what a search of a live note finds is what its stored *)
(* document says.                                                          *)
SearchFollowsDocument ==
    \A n \in NoteIds : note[n] = "live" /\ doc[n] = saved[n] => export[n] = saved[n]

==============================================================================
