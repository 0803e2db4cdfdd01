-------------------------------- MODULE TuiApp --------------------------------
(***************************************************************************)
(* The terminal application: the notes list it polls, searches and filters *)
(* by tag, the note in its editor and the room it is connected to, the     *)
(* right pane, the dialogs, and every request these make.                  *)
(*                                                                         *)
(* tui/src/bartleby_tui/app.py, with notes_list.py, panes.py, modals.py    *)
(* and the requests of notes_api.py.                                       *)
(*                                                                         *)
(* What widgets post reaches one queue (inbox) that one task (pump) takes  *)
(* one message at a time, through every await of its handler; the timer of *)
(* the poll and the workers that dialogs start run beside it.  A handler   *)
(* is the sequence of its awaits (plan), each with the code that follows   *)
(* it.  Tags are one tag, a query is empty or not, and a note has at most  *)
(* one comment thread and one snapshot.  An exception that reaches a       *)
(* handler, the timer or a worker ends the application (Textual).          *)
(***************************************************************************)
EXTENDS Naturals, Sequences, FiniteSets

CONSTANTS
    Notes,
    Matches,        \* the notes the query finds
    Cited,          \* notes that link to the others and mention the user
    Acts,           \* the kinds of message the user sets off
    None,
    MaxInbox,       \* bound: messages waiting when the user acts
    MaxKeys,        \* bound: what the user does
    MaxWorkers,     \* bound: workers at a time
    MaxElsewhere    \* bound: changes by other clients

\* What the runs and the proofs assume of the constants.
AppAssumption == Cited \subseteq Notes /\ MaxKeys \in Nat /\ MaxElsewhere \in Nat

VARIABLES
    live, trash, tagged, elsewhere,     \* the server's notes
    doc, room,                          \* the editor's note; the room joined
    all, view, tag,                     \* the cached list, its rows, the filter
    searching, query,                   \* the search box
    picking, focus, modals,             \* the tag picker, the focus, dialogs
    pane, shown, preview,               \* the right pane, its rows, the preview
    lastDeleted,
    inbox, pump, poll, timer, workers,  \* tasks
    keys, exited

server == <<live, trash, tagged, elsewhere>>
place == <<doc, room>>
list == <<all, view, tag>>
search == <<searching, query>>
overlay == <<picking, focus, modals>>
side == <<pane, shown, preview>>
tasks == <<pump, poll, timer, workers>>
vars == <<server, place, list, search, overlay, side, lastDeleted, inbox,
          tasks, keys, exited>>

------------------------------------------------------------------------------
(* Rows, tasks and messages.                                               *)

Row == [note: Notes, tagged: BOOLEAN]
RowsOf(s) == {[note |-> n, tagged |-> n \in tagged] : n \in s}
NotesOf(rows) == {r.note : r \in rows}
Filtered(rows) == IF tag THEN {r \in rows : r.tagged} ELSE rows

Panes == {"backlinks", "trash", "inbox", "history", "comments"}
OfNote == {"backlinks", "history", "comments"}

Step == {"auth", "list", "first", "hits", "show", "refresh", "users", "create",
         "delete", "restore", "untrash", "purge", "mark", "rename", "post",
         "thread", "state", "revert", "export", "zip", "leave", "enter"}

\* back: the answer of the request under way has been given; of: the note of
\* the snapshot or thread the handler is about.
Task == [plan: Seq(Step), note: Notes \cup {None}, of: Notes \cup {None},
         pane: Panes \cup {None}, back: BOOLEAN, rows: SUBSET Row]
Idle == [plan |-> <<>>, note |-> None, of |-> None, pane |-> None,
         back |-> FALSE, rows |-> {}]
Busy(t) == t.plan # <<>>

\* A task at the await that heads its plan: a pane of the current note is
\* fetched for the note current now, and open_note of that note does nothing.
Begin(t, current) ==
    IF t.plan = <<>> \/ (Head(t.plan) = "leave" /\ t.note = current)
    THEN Idle
    ELSE [t EXCEPT !.back = FALSE, !.rows = {},
                   !.note = IF Head(t.plan) \in {"show", "refresh"} /\ t.pane \in OfNote
                            THEN current ELSE @]
Job(plan, n, o, p) == [Idle EXCEPT !.plan = plan, !.note = n, !.of = o, !.pane = p]
Start(plan, n, o, p) == pump' = Begin(Job(plan, n, o, p), doc)
Open(n) == Start(<<"leave", "enter">>, n, None, None)

Dialogs == {"help", "palette", "users", "links", "rename", "delete", "export",
            "zip", "revert", "comment", "reply"}
Message ==
    [kind: {"search", "cancel", "typed", "submitted", "tags", "tag", "untag",
            "open", "new", "undelete", "chord", "untrash", "purge", "mention",
            "highlight", "thread", "users", "ask", "answer"},
     what: {"", "q"} \cup Panes \cup Dialogs,
     note: Notes \cup {None}, of: Notes \cup {None}]
Msg(k, w, n) == [kind |-> k, what |-> w, note |-> n, of |-> n]
Dialog == [what: Dialogs, note: Notes \cup {None}, of: Notes \cup {None}]

TypeOK ==
    /\ live \in SUBSET Notes /\ trash \in SUBSET Notes /\ tagged \in SUBSET Notes
    /\ doc \in Notes \cup {None} /\ room \in Notes \cup {None, "closed"}
    /\ all \in SUBSET Row /\ view \in SUBSET Row /\ tag \in BOOLEAN
    /\ searching \in BOOLEAN /\ query \in {"", "q"}
    /\ picking \in BOOLEAN /\ focus \in {"editor", "search", "tags", "list", "pane"}
    /\ modals \in Seq(Dialog)
    /\ pane \in Panes \cup {None} /\ shown \in [Panes -> SUBSET Notes]
    /\ preview \in Notes \cup {None}
    /\ lastDeleted \in Notes \cup {None}
    /\ inbox \in Seq(Message)
    /\ pump \in Task /\ poll \in Task /\ workers \in SUBSET Task
    /\ timer \in BOOLEAN /\ exited \in BOOLEAN
    /\ keys \in 0 .. MaxKeys /\ elsewhere \in 0 .. MaxElsewhere

\* on_mount has started: the sign-in and the user's own record, the room, and
\* a first list; the client starts in the room that is no note.
Init ==
    /\ live \in SUBSET Notes /\ trash \in SUBSET (Notes \ live)
    /\ tagged \in SUBSET (live \cup trash)
    /\ elsewhere = 0
    /\ doc = None /\ room = "closed"
    /\ all = {} /\ view = {} /\ tag = FALSE
    /\ searching = FALSE /\ query = ""
    /\ picking = FALSE /\ focus = "editor" /\ modals = <<>>
    /\ pane = None /\ shown = [p \in Panes |-> {}] /\ preview = None
    /\ lastDeleted = None
    /\ inbox = <<>> /\ poll = Idle /\ timer = FALSE /\ workers = {}
    /\ pump = Job(<<"auth", "enter", "first">>, None, None, None)
    /\ keys = 0 /\ exited = FALSE

\* on_unmount, and the process is gone with all it held.
Exit ==
    /\ exited' = TRUE /\ room' = "closed" /\ timer' = FALSE
    /\ pump' = Idle /\ poll' = Idle /\ workers' = {}
    /\ doc' = None /\ all' = {} /\ view' = {} /\ tag' = FALSE
    /\ searching' = FALSE /\ query' = "" /\ picking' = FALSE /\ focus' = "editor"
    /\ pane' = None /\ shown' = [p \in Panes |-> {}] /\ preview' = None
    /\ lastDeleted' = None /\ inbox' = <<>> /\ modals' = <<>>
    /\ UNCHANGED keys

------------------------------------------------------------------------------
(* The user: keys reach the widget that has the focus, which posts.        *)

Press(m) ==
    /\ ~exited /\ keys < MaxKeys /\ Len(inbox) < MaxInbox
    /\ m.kind \in Acts
    /\ keys' = keys + 1
    /\ inbox' = Append(inbox, m)

\* Normal mode of the editor: one key or a chord posts a message.
EditorKey ==
    /\ modals = <<>> /\ focus = "editor"
    /\ \/ \E k \in {"search", "tags", "new", "undelete", "users"} : Press(Msg(k, "", None))
       \/ \E p \in Panes : Press(Msg("chord", p, None))
       \/ \E d \in {"help", "palette", "links", "rename", "delete"} : Press(Msg("ask", d, None))
       \/ \E n \in Cited : Press(Msg("open", "", n))           \* a [[backlink]]
    /\ UNCHANGED <<server, place, list, search, overlay, side, lastDeleted, tasks, exited>>

SearchKey ==
    /\ modals = <<>> /\ focus = "search" /\ searching
    /\ \/ /\ query' = (IF query = "" THEN "q" ELSE "")
          /\ Press(Msg("typed", query', None))
       \/ Press(Msg("cancel", "", None)) /\ UNCHANGED query
       \/ Press(Msg("submitted", "", None)) /\ UNCHANGED query
    /\ UNCHANGED <<server, place, list, searching, overlay, side, lastDeleted, tasks, exited>>

PickerKey ==
    /\ modals = <<>> /\ focus = "tags" /\ picking
    /\ \/ \E r \in all : r.tagged /\ Press(Msg("tag", "", None))
       \/ Press(Msg("untag", "", None))
    /\ UNCHANGED <<server, place, list, search, overlay, side, lastDeleted, tasks, exited>>

ListKey ==
    /\ modals = <<>> /\ focus = "list"
    /\ \E r \in view : Press(Msg("open", "", r.note))
    /\ UNCHANGED <<server, place, list, search, overlay, side, lastDeleted, tasks, exited>>

PaneKey ==
    /\ modals = <<>> /\ focus = "pane" /\ pane # None
    /\ \/ \E n \in shown[pane] :
           \/ pane = "backlinks" /\ Press(Msg("open", "", n))
           \/ pane = "trash" /\ \E k \in {"untrash", "purge"} : Press(Msg(k, "", n))
           \/ pane = "inbox" /\ Press(Msg("mention", "", n))
           \/ pane = "history" /\ (Press(Msg("highlight", "", n)) \/ Press(Msg("ask", "revert", n)))
           \/ pane = "comments" /\ (Press(Msg("thread", "", n)) \/ Press(Msg("ask", "reply", n)))
       \/ pane = "comments" /\ Press(Msg("ask", "comment", None))
    /\ UNCHANGED <<server, place, list, search, overlay, side, lastDeleted, tasks, exited>>

\* A click moves the focus.
Click(f) ==
    /\ ~exited /\ modals = <<>> /\ focus # f
    /\ keys < MaxKeys /\ keys' = keys + 1
    /\ f = "search" => searching
    /\ f = "pane" => pane # None
    /\ focus' = f
    /\ UNCHANGED <<server, place, list, search, picking, modals, side, lastDeleted,
                   inbox, tasks, exited>>

\* The dialog on top is answered or dismissed; its callback runs in the pump.
\* The palette offers commands and the notes of the list as it was.
AnswerDialog ==
    /\ modals # <<>>
    /\ LET d == Head(modals) IN
        \/ d.what \notin {"help", "palette", "users", "links"} /\ Press([Msg("answer", d.what, d.note) EXCEPT !.of = d.of])
        \/ d.what = "palette" /\ (\/ \E n \in NotesOf(all) : Press(Msg("open", "", n))
                                  \/ Press(Msg("new", "", None))
                                  \/ \E c \in {"export", "zip", "help"} : Press(Msg("ask", c, None)))
        \/ keys < MaxKeys /\ keys' = keys + 1 /\ UNCHANGED inbox    \* dismissed
    /\ modals' = Tail(modals)
    /\ UNCHANGED <<server, place, list, search, picking, focus, side, lastDeleted, tasks, exited>>

Quit ==
    /\ ~exited
    /\ Exit
    /\ UNCHANGED server

------------------------------------------------------------------------------
(* The pump: one message at a time, each handler to its end.               *)

Take(k) == pump = Idle /\ inbox # <<>> /\ Head(inbox).kind = k
Rest == Tail(inbox)
M == Head(inbox)

\* Clearing the search box posts that it changed, unless it was empty.
Cleared == query' = "" /\ inbox' = (IF query = "" THEN Rest ELSE Append(Rest, Msg("typed", "", None)))

OpenSearch ==
    /\ Take("search")
    /\ searching' = TRUE /\ Cleared /\ focus' = "search"
    /\ UNCHANGED <<server, place, list, picking, modals, side, lastDeleted, tasks, keys, exited>>

\* _close_search: the whole list is shown, whatever the tag filter.
CloseSearch ==
    /\ searching' = FALSE /\ Cleared /\ view' = all /\ focus' = "editor"
    /\ UNCHANGED <<all, tag, picking, modals>>

CancelSearch ==
    /\ Take("cancel")
    /\ CloseSearch
    /\ UNCHANGED <<server, place, side, lastDeleted, tasks, keys, exited>>

\* An empty query needs no request.
RunSearch ==
    /\ Take("typed")
    /\ inbox' = Rest
    /\ IF M.what = ""
       THEN view' = all /\ UNCHANGED pump
       ELSE Start(<<"hits">>, None, None, None) /\ UNCHANGED view
    /\ UNCHANGED <<server, place, all, tag, search, overlay, side, lastDeleted,
                   poll, timer, workers, keys, exited>>

\* Enter opens the top row, which is any row of the view here.
SubmitSearch ==
    /\ Take("submitted")
    /\ CloseSearch
    /\ \/ view = {} /\ UNCHANGED pump
       \/ \E r \in view : Open(r.note)
    /\ UNCHANGED <<server, place, side, lastDeleted, poll, timer, workers, keys, exited>>

OpenTags ==
    /\ Take("tags")
    /\ inbox' = Rest /\ picking' = TRUE /\ focus' = "tags"
    /\ UNCHANGED <<server, place, list, search, modals, side, lastDeleted, tasks, keys, exited>>

\* The tag in force is switched off.
ApplyTag ==
    /\ Take("tag")
    /\ inbox' = Rest
    /\ tag' = ~tag
    /\ view' = IF tag' THEN {r \in all : r.tagged} ELSE all
    /\ picking' = FALSE /\ focus' = "editor"
    /\ UNCHANGED <<server, place, all, search, modals, side, lastDeleted, tasks, keys, exited>>

CancelTags ==
    /\ Take("untag")
    /\ inbox' = Rest /\ picking' = FALSE /\ focus' = "editor"
    /\ UNCHANGED <<server, place, list, search, modals, side, lastDeleted, tasks, keys, exited>>

\* A dialog opens on the current note; the note of no room has none to offer.
Ask ==
    /\ Take("ask")
    /\ inbox' = Rest
    /\ IF M.what \in {"rename", "delete", "export", "revert", "comment"} /\ doc = None
       THEN UNCHANGED modals
       ELSE modals' = <<[what |-> M.what, note |-> doc, of |-> M.of]>> \o modals
    /\ UNCHANGED <<server, place, list, search, picking, focus, side, lastDeleted,
                   tasks, keys, exited>>

\* A message whose handler awaits at once.
Handler(k, plan, n, o, p) ==
    /\ Take(k)
    /\ inbox' = Rest
    /\ Start(plan, n, o, p)
    /\ UNCHANGED <<server, place, list, search, overlay, side, lastDeleted,
                   poll, timer, workers, keys, exited>>

\* Nothing to do: no note was deleted here, no note is open to preview, the
\* mention left the pane.
Ignored ==
    /\ pump = Idle /\ inbox # <<>>
    /\ \/ M.kind = "undelete" /\ lastDeleted = None
       \/ M.kind = "highlight" /\ doc = None
       \/ M.kind = "mention" /\ M.note \notin shown["inbox"]
    /\ inbox' = Rest
    /\ UNCHANGED <<server, place, list, search, overlay, side, lastDeleted,
                   tasks, keys, exited>>

HandleOpen == Handler("open", <<"leave", "enter">>, M.note, None, None)
HandleNew == Handler("new", <<"create", "list", "leave", "enter">>, None, None, None)
HandleUndelete ==
    /\ lastDeleted # None
    /\ Handler("undelete", <<"restore", "list", "leave", "enter">>, lastDeleted, None, None)
HandleUntrash == Handler("untrash", <<"untrash", "refresh", "list">>, M.note, None, "trash")
HandlePurge == Handler("purge", <<"purge", "refresh">>, M.note, None, "trash")
HandleMention ==
    /\ Take("mention") /\ M.note \in shown["inbox"]
    /\ Handler("mention", <<"mark", "refresh", "leave", "enter">>, M.note, M.note, "inbox")
HandleHighlight == doc # None /\ Handler("highlight", <<"state">>, doc, M.of, None)
HandleThread == Handler("thread", <<"thread", "refresh">>, None, M.of, "comments")
HandleUsers == Handler("users", <<"users">>, None, None, None)
ShowPane ==
    /\ Take("chord") /\ M.what # pane
    /\ Handler("chord", <<"show">>, None, None, M.what)

\* The chord of the pane on screen hides it.
HidePane ==
    /\ Take("chord") /\ M.what = pane
    /\ inbox' = Rest /\ pane' = None /\ focus' = "editor"
    /\ UNCHANGED <<server, place, list, search, picking, modals, shown, preview,
                   lastDeleted, tasks, keys, exited>>

\* What a dialog's answer sets off runs beside the pump.
PlanOf(what) ==
    CASE what = "delete" -> <<"delete", "list">>
      [] what = "rename" -> <<"rename", "list">>
      [] what = "comment" -> <<"post", "refresh">>
      [] what = "reply" -> <<"thread", "refresh">>
      [] OTHER -> <<what>>                        \* export, zip, revert

RunWorker ==
    /\ Take("answer")
    /\ Cardinality(workers) < MaxWorkers
    /\ inbox' = Rest
    /\ workers' = workers \cup {Begin(Job(PlanOf(M.what), M.note, M.of, "comments"), doc)}
    /\ UNCHANGED <<server, place, list, search, overlay, side, lastDeleted,
                   pump, poll, timer, keys, exited>>

Handle ==
    \/ OpenSearch \/ CancelSearch \/ RunSearch \/ SubmitSearch
    \/ OpenTags \/ ApplyTag \/ CancelTags \/ Ask \/ Ignored
    \/ HandleOpen \/ HandleNew \/ HandleUndelete \/ HandleUntrash \/ HandlePurge
    \/ HandleMention \/ HandleHighlight \/ HandleThread \/ HandleUsers
    \/ ShowPane \/ HidePane \/ RunWorker

\* set_interval: the next tick waits for the refresh of the last.
Tick ==
    /\ timer /\ poll = Idle
    /\ poll' = Job(<<"list">>, None, None, None)
    /\ UNCHANGED <<server, place, list, search, overlay, side, lastDeleted, inbox,
                   pump, timer, workers, keys, exited>>

------------------------------------------------------------------------------
(* Requests: the server takes one, later its answer is applied.            *)

Running == {t \in {pump, poll} \cup workers : Busy(t)}
At(t, steps) == Head(t.plan) \in steps

Becomes(t, u) ==
    \/ t = pump /\ pump' = u /\ UNCHANGED <<poll, workers>>
    \/ t = poll /\ poll' = u /\ UNCHANGED <<pump, workers>>
    \/ /\ t \in workers
       /\ workers' = (workers \ {t}) \cup (IF Busy(u) THEN {u} ELSE {})
       /\ UNCHANGED <<pump, poll>>
Answered(t, rows) == Becomes(t, [t EXCEPT !.back = TRUE, !.rows = rows])

\* The routes answer 404 to a note that is gone or, for most, in the trash,
\* and to a snapshot of another note; only a trashed note is hard-deleted.
Known == live \cup trash
Accepts(t) ==
    /\ At(t, {"delete", "restore", "untrash", "rename"}) => t.note \in Known
    /\ At(t, {"purge"}) => t.note \in trash
    /\ At(t, {"post", "export"}) => t.note \in live
    /\ At(t, {"state", "revert"}) => t.note \in live /\ t.of = t.note
    /\ At(t, {"thread", "mark"}) => t.of \in Known
    /\ At(t, {"show", "refresh"}) /\ t.note # None =>
           /\ t.pane \in {"history", "comments"} => t.note \in live
           /\ t.pane = "backlinks" => t.note \in Known

Asked(t) == t \in Running /\ ~t.back /\ Accepts(t)
App == <<place, list, search, overlay, side, lastDeleted, inbox, timer, keys, exited>>

ServeRead(t) ==
    /\ Asked(t) /\ ~At(t, {"create", "delete", "restore", "untrash", "purge"})
    /\ Answered(t,
           CASE At(t, {"list", "first"}) -> RowsOf(live)
             [] At(t, {"hits"}) -> RowsOf(live \cap Matches)
             [] At(t, {"show", "refresh"}) ->
                 RowsOf(CASE t.pane = "trash" -> trash
                          [] t.pane = "inbox" -> Known \cap Cited
                          [] t.pane = "backlinks" -> IF t.note = None THEN {} ELSE live \cap Cited
                          [] OTHER -> {t.note} \ {None})
             [] OTHER -> {})
    /\ UNCHANGED <<server, App>>

ServeCreate(t) ==
    /\ Asked(t) /\ At(t, {"create"})
    /\ \E n \in Notes \ Known :
        /\ live' = live \cup {n}
        /\ Becomes(t, [t EXCEPT !.back = TRUE, !.note = n])
    /\ UNCHANGED <<trash, tagged, elsewhere, App>>

ServeMove(t) ==
    /\ Asked(t) /\ At(t, {"delete", "restore", "untrash", "purge"})
    /\ live' = IF At(t, {"restore", "untrash"}) THEN live \cup {t.note} ELSE live \ {t.note}
    /\ trash' = IF At(t, {"delete"}) THEN trash \cup {t.note} ELSE trash \ {t.note}
    /\ tagged' = IF At(t, {"purge"}) THEN tagged \ {t.note} ELSE tagged
    /\ Answered(t, {})
    /\ UNCHANGED <<elsewhere, App>>

\* A refusal or a failure of the network is an exception.
Refused(t) == t \in Running /\ ~t.back /\ ~Accepts(t) /\ Exit /\ UNCHANGED server
Lost(t) == t \in Running /\ Exit /\ UNCHANGED server

\* The code after an await, up to the next one.
Resumes(t, steps) == t \in Running /\ t.back /\ At(t, steps)
Goes(t) == Becomes(t, Begin([t EXCEPT !.plan = Tail(@)], doc'))

\* Faulty: rows equal to the cached ones are not drawn again.
ListBackIfChanged(t) ==
    /\ Resumes(t, {"list", "first"})
    /\ all' = t.rows
    /\ view' = IF searching \/ all = t.rows THEN view ELSE Filtered(t.rows)
    /\ timer' = (timer \/ At(t, {"first"}))
    /\ UNCHANGED <<server, place, tag, search, overlay, side, lastDeleted, inbox, keys, exited>>
    /\ Goes(t)

\* _refresh_notes: the cache always, the rows unless a search shows its own.
ListBack(t) ==
    /\ Resumes(t, {"list", "first"})
    /\ all' = t.rows
    /\ view' = IF searching THEN view ELSE Filtered(t.rows)
    /\ timer' = (timer \/ At(t, {"first"}))
    /\ UNCHANGED <<server, place, tag, search, overlay, side, lastDeleted, inbox, keys, exited>>
    /\ Goes(t)

\* Hits without a row in the cache are dropped.
HitsBack(t) ==
    /\ Resumes(t, {"hits"})
    /\ view' = {r \in all : r.note \in NotesOf(t.rows)}
    /\ UNCHANGED <<server, place, all, tag, search, overlay, side, lastDeleted, inbox,
                   timer, keys, exited>>
    /\ Goes(t)

PaneBack(t) ==
    /\ Resumes(t, {"show", "refresh"})
    /\ shown' = [shown EXCEPT ![t.pane] = NotesOf(t.rows)]
    /\ IF At(t, {"show"})
       THEN /\ pane' = t.pane /\ focus' = "pane"
            /\ preview' = IF t.pane = "history" THEN None ELSE preview
       ELSE UNCHANGED <<pane, focus, preview>>
    /\ UNCHANGED <<server, place, list, search, picking, modals, lastDeleted, inbox,
                   timer, keys, exited>>
    /\ Goes(t)

\* Only the snapshot still highlighted is painted.
StateBack(t) ==
    /\ Resumes(t, {"state"})
    /\ preview' = IF t.of \in shown["history"] THEN t.of ELSE preview
    /\ UNCHANGED <<server, place, list, search, overlay, pane, shown, lastDeleted, inbox,
                   timer, keys, exited>>
    /\ Goes(t)

\* d remembers the note for R, and R forgets whatever is remembered.
DeleteBack(t) ==
    /\ Resumes(t, {"delete", "restore"})
    /\ lastDeleted' = IF At(t, {"delete"}) THEN t.note ELSE None
    /\ UNCHANGED <<server, place, list, search, overlay, side, inbox, timer, keys, exited>>
    /\ Goes(t)

\* open_note: the old room is left, the editor gets a new document, and the
\* new room is entered.
RoomBack(t) ==
    /\ Resumes(t, {"leave", "enter"})
    /\ doc' = t.note
    /\ room' = IF At(t, {"leave"}) THEN "closed" ELSE t.note
    /\ UNCHANGED <<server, list, search, overlay, side, lastDeleted, inbox, timer, keys, exited>>
    /\ Goes(t)

UsersBack(t) ==
    /\ Resumes(t, {"users"})
    /\ modals' = <<[what |-> "users", note |-> None, of |-> None]>> \o modals
    /\ UNCHANGED <<server, place, list, search, picking, focus, side, lastDeleted, inbox,
                   timer, keys, exited>>
    /\ Goes(t)

PlainBack(t) ==
    /\ Resumes(t, {"auth", "create", "untrash", "purge", "mark", "rename", "post",
                   "thread", "revert", "export", "zip"})
    /\ UNCHANGED <<server, App>>
    /\ Goes(t)

Serve(t) == ServeRead(t) \/ ServeCreate(t) \/ ServeMove(t)
Resume(t) ==
    \/ ListBack(t) \/ HitsBack(t) \/ PaneBack(t) \/ StateBack(t) \/ DeleteBack(t)
    \/ RoomBack(t) \/ UsersBack(t) \/ PlainBack(t)

\* Other clients create, trash, restore, purge and tag notes.
Elsewhere(n) ==
    /\ elsewhere < MaxElsewhere /\ ~exited
    /\ elsewhere' = elsewhere + 1
    /\ \/ n \notin live /\ live' = live \cup {n} /\ trash' = trash \ {n} /\ UNCHANGED tagged
       \/ n \in live /\ live' = live \ {n} /\ trash' = trash \cup {n} /\ UNCHANGED tagged
       \/ n \in live /\ tagged' = (tagged \cup {n}) \ (tagged \cap {n}) /\ UNCHANGED <<live, trash>>
       \/ n \in trash /\ trash' = trash \ {n} /\ tagged' = tagged \ {n} /\ UNCHANGED live
    /\ UNCHANGED <<App, pump, poll, workers>>

Next ==
    \/ EditorKey \/ SearchKey \/ PickerKey \/ ListKey \/ PaneKey \/ AnswerDialog \/ Quit
    \/ \E f \in {"editor", "search", "list", "pane"} : Click(f)
    \/ Handle \/ Tick
    \/ \E t \in Running : Serve(t) \/ Refused(t) \/ Lost(t) \/ Resume(t)
    \/ \E n \in Notes : Elsewhere(n)

Spec == Init /\ [][Next]_vars

\* The event loop runs what is ready, the timer goes on, and the server
\* answers every request.
Runs(t) == Serve(t) \/ Refused(t) \/ Resume(t)
Fairness ==
    /\ WF_vars(Handle) /\ WF_vars(Tick)
    /\ WF_vars(pump # Idle /\ Runs(pump))
    /\ WF_vars(poll # Idle /\ Runs(poll))
    /\ WF_vars(\E t \in workers : Runs(t))

FairSpec == Spec /\ Fairness

------------------------------------------------------------------------------
(* Properties.                                                             *)

\* Once the user and the others stop, the list settles on what the server
\* has, under the tag filter in force, unless the search box shows its hits:
\* whatever order the poll, a worker's refresh, a closed search and the tag
\* picker write the rows in.
ListSettles ==
    <>[](exited \/ searching
         \/ view = {r \in RowsOf(live) : tag => r.tagged})
==============================================================================
