------------------------------- MODULE Comments ------------------------------
(***************************************************************************)
(* Comment threads: rows created by requests that look something up before *)
(* an await and insert after it, deletes that cascade through replies, and *)
(* the orphan flag the derived-state hook recomputes when a document is    *)
(* stored.                                                                 *)
(*                                                                         *)
(* server/src/comments/{routes,anchor}.ts,                                 *)
(* server/src/db/repositories/comments.ts with the foreign keys of         *)
(* migrations/006_comments.ts, and the orphan pass of derived/hook.ts.     *)
(*                                                                         *)
(* An anchor is a model value; a document is the set of anchors that both  *)
(* endpoints of resolve in it.  The text of comments and quotes, and the   *)
(* mentions in them (MentionPipeline), are left out.                       *)
(***************************************************************************)
EXTENDS Naturals

CONSTANTS
    CommentedNotes, \* uuids of notes
    CommentIds,     \* uuids of comments
    Anchors,        \* serialized anchors
    Requests,       \* requests served at once
    None,           \* NULL
    MaxChanges      \* bound: edits and changes of a note's place

ASSUME CommentsAssumption ==
    /\ None \notin CommentIds
    /\ MaxChanges \in Nat

VARIABLES
    place,      \* place[n]: the notes row: "live", "trashed" or "gone"
    doc,        \* doc[n]: the anchors that resolve in the document in memory
    saved,      \* the same of the stored document
    comments,   \* rows of the comments table
    req,        \* the requests under way
    used,       \* ids that were ever drawn (history)
    seen,       \* ids the last complete orphan pass went over (history)
    lag,        \* lag[n]: a store since had no complete pass (history)
    changes     \* how many of the bounded steps were taken

commentVars == <<place, doc, saved, comments, req, used, seen, lag, changes>>
docVars == <<doc, saved>>

------------------------------------------------------------------------------
(* State. *)

Comment ==
    [id: CommentIds, note: CommentedNotes, parent: CommentIds \cup {None},
     anchor: Anchors, resolved: BOOLEAN, orphan: BOOLEAN]

(* A request between its lookup and its insert, with what it looked up.    *)
Post == [at: CommentedNotes, parent: CommentIds \cup {None}, anchor: Anchors]
NoPost == [at |-> None]

CommentsTypeOK ==
    /\ place \in [CommentedNotes -> {"live", "trashed", "gone"}]
    /\ doc \in [CommentedNotes -> SUBSET Anchors]
    /\ saved \in [CommentedNotes -> SUBSET Anchors]
    /\ comments \in SUBSET Comment
    /\ \A c, d \in comments : c.id = d.id => c = d
    /\ req \in [Requests -> Post \cup {NoPost}]
    /\ used \in SUBSET CommentIds
    /\ seen \in SUBSET CommentIds
    /\ lag \in [CommentedNotes -> BOOLEAN]
    /\ changes \in 0..MaxChanges

CommentsInit ==
    /\ place = [n \in CommentedNotes |-> "live"]
    /\ doc = [n \in CommentedNotes |-> Anchors]
    /\ saved = [n \in CommentedNotes |-> Anchors]
    /\ comments = {}
    /\ req = [r \in Requests |-> NoPost]
    /\ used = {}
    /\ seen = {}
    /\ lag = [n \in CommentedNotes |-> FALSE]
    /\ changes = 0

(* The bound on a run. *)
Bounded == changes < MaxChanges /\ changes' = changes + 1

Ids(C) == {c.id : c \in C}
Of(n) == {c \in comments : c.note = n}

------------------------------------------------------------------------------
(* Creating.  A direct connection reads the quote in the gap; the document *)
(* may be stored and the note trashed or purged meanwhile.                 *)

PostBegin(r, n, a) ==
    /\ req[r] = NoPost
    /\ place[n] = "live"
    /\ req' = [req EXCEPT ![r] = [at |-> n, parent |-> None, anchor |-> a]]
    /\ UNCHANGED <<place, docVars, comments, used, seen, lag, changes>>

(* Any comment may be replied to, a reply too, on a trashed note too.      *)
ReplyBegin(r, c) ==
    /\ req[r] = NoPost
    /\ req' = [req EXCEPT ![r] = [at |-> c.note, parent |-> c.id,
                                  anchor |-> c.anchor]]
    /\ UNCHANGED <<place, docVars, comments, used, seen, lag, changes>>

(* Faulty: parent_comment_id is not a foreign key.                         *)
AcceptedOrphanReply(p) == place[p.at] # "gone"

(* The foreign keys of the row: its note, and its parent if it has one.    *)
Accepted(p) ==
    /\ place[p.at] # "gone"
    /\ p.parent # None => p.parent \in Ids(comments)

(* comments.insert; a refused row answers 500.                             *)
PostEnd(r) ==
    /\ req[r] # NoPost
    /\ IF Accepted(req[r])
       THEN \E i \in CommentIds \ used :
              /\ used' = used \cup {i}
              /\ comments' = comments \cup
                   {[id |-> i, note |-> req[r].at, parent |-> req[r].parent,
                     anchor |-> req[r].anchor, resolved |-> FALSE,
                     orphan |-> FALSE]}
       ELSE UNCHANGED <<comments, used>>
    /\ req' = [req EXCEPT ![r] = NoPost]
    /\ UNCHANGED <<place, docVars, seen, lag, changes>>

------------------------------------------------------------------------------
(* Resolving and deleting. *)

SetResolved(c, b) ==
    /\ comments' = (comments \ {c}) \cup {[c EXCEPT !.resolved = b]}
    /\ UNCHANGED <<place, docVars, req, used, seen, lag, changes>>

Resolve(c) == ~ c.resolved /\ SetResolved(c, TRUE)
Reopen(c) == c.resolved /\ SetResolved(c, FALSE)

(* Faulty: the cascade stops at the replies of the deleted comment.        *)
ThreadOneLevel(c) == {d \in comments : d = c \/ d.parent = c.id}

(* c and every reply below it: the rows in every set that has c and is     *)
(* closed under replies.                                                   *)
Thread(c) ==
    {d \in comments :
        \A S \in SUBSET comments :
            /\ c \in S
            /\ \A e \in comments : e.parent \in Ids(S) => e \in S
            => d \in S}

(* DELETE /comments/:id, with ON DELETE CASCADE of parent_comment_id.      *)
Delete(c) ==
    /\ comments' = comments \ Thread(c)
    /\ UNCHANGED <<place, docVars, req, used, seen, lag, changes>>

------------------------------------------------------------------------------
(* The orphan pass. *)

(* Faulty: the pass goes over the open comments only.                      *)
RecheckedOpen(C, n) ==
    {IF c \in C /\ ~ c.resolved THEN [c EXCEPT !.orphan = c.anchor \notin doc[n]]
                                ELSE c : c \in comments}

(* Faulty: a flag that changes is a new row.                               *)
RecheckedTwice(C, n) ==
    comments \cup {[c EXCEPT !.orphan = c.anchor \notin doc[n]] : c \in C}

(* The rows after setOrphaned went over those of C.                        *)
Rechecked(C, n) ==
    {IF c \in C THEN [c EXCEPT !.orphan = c.anchor \notin doc[n]] ELSE c :
        c \in comments}

(* A store of the document and the hook, which skips a note that is        *)
(* trashed or gone.                                                        *)
Store(n) ==
    /\ saved' = [saved EXCEPT ![n] = doc[n]]
    /\ IF place[n] = "live"
       THEN /\ comments' = Rechecked(Of(n), n)
            /\ seen' = seen \cup Ids(Of(n))
            /\ lag' = [lag EXCEPT ![n] = FALSE]
       ELSE /\ lag' = [lag EXCEPT ![n] = @ \/ saved[n] # doc[n]]
            /\ UNCHANGED <<comments, seen>>
    /\ UNCHANGED <<place, doc, req, used, changes>>

(* A change of the document: ranges are deleted, and an undo brings them   *)
(* back.                                                                   *)
Edit(n, A) ==
    /\ Bounded
    /\ A # doc[n]
    /\ doc' = [doc EXCEPT ![n] = A]
    /\ UNCHANGED <<place, saved, comments, req, used, seen, lag>>

------------------------------------------------------------------------------
(* The note, and the process. *)

Trash(n) ==
    /\ Bounded
    /\ place[n] = "live"
    /\ place' = [place EXCEPT ![n] = "trashed"]
    /\ UNCHANGED <<docVars, comments, req, used, seen, lag>>

Restore(n) ==
    /\ place[n] = "trashed"
    /\ place' = [place EXCEPT ![n] = "live"]
    /\ UNCHANGED <<docVars, comments, req, used, seen, lag, changes>>

(* The rows of a purged note go with it.                                   *)
Purge(n) ==
    /\ place[n] = "trashed"
    /\ place' = [place EXCEPT ![n] = "gone"]
    /\ comments' = comments \ Of(n)
    /\ UNCHANGED <<docVars, req, used, seen, lag, changes>>

Reboot(table) ==
    /\ saved' = table
    /\ doc' = table
    /\ req' = [r \in Requests |-> NoPost]

CommentsCrash ==
    /\ Reboot(saved)
    /\ UNCHANGED <<place, comments, used, seen, lag, changes>>

(* The process dies in a store: each flag is a statement of its own.       *)
CrashInStore(n) ==
    /\ place[n] = "live"
    /\ Reboot([saved EXCEPT ![n] = doc[n]])
    /\ \E C \in SUBSET Of(n) : comments' = Rechecked(C, n)
    /\ lag' = [lag EXCEPT ![n] = TRUE]
    /\ UNCHANGED <<place, used, seen, changes>>

CommentsNext ==
    \/ \E r \in Requests :
        \/ \E n \in CommentedNotes, a \in Anchors : PostBegin(r, n, a)
        \/ \E c \in comments : ReplyBegin(r, c)
        \/ PostEnd(r)
    \/ \E c \in comments : Resolve(c) \/ Reopen(c) \/ Delete(c)
    \/ \E n \in CommentedNotes :
        \/ Store(n)
        \/ \E A \in SUBSET Anchors : Edit(n, A)
        \/ Trash(n)
        \/ Restore(n)
        \/ Purge(n)
        \/ CrashInStore(n)
    \/ CommentsCrash

CommentsSpec == CommentsInit /\ [][CommentsNext]_commentVars

------------------------------------------------------------------------------
(* Properties. *)

(* A thread is of one piece: its note exists, and a reply's parent exists, *)
(* on the same note and the same anchor, whatever was deleted or purged    *)
(* between the lookup of a request and its insert.                         *)
ThreadsHonest ==
    \A c \in comments :
        /\ place[c.note] # "gone"
        /\ c.parent # None =>
              \E d \in comments :
                  d.id = c.parent /\ d.note = c.note /\ d.anchor = c.anchor

(* The flag of a comment that a complete pass has gone over says whether   *)
(* its anchor resolves in the stored document, resolved or not, unless a   *)
(* store was skipped while the note was trashed, or cut by a crash.        *)
OrphansFollow ==
    \A c \in comments :
        c.id \in seen /\ ~ lag[c.note] => (c.orphan <=> c.anchor \notin saved[c.note])

==============================================================================
