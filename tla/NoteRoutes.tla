------------------------------ MODULE NoteRoutes ------------------------------
(***************************************************************************)
(* The routes of the web client: the page of a note with its title, tags   *)
(* and trash button, the trash, and the inbox of mentions.                 *)
(*                                                                         *)
(* web/src/routes (n/[id], trash, inbox, api/notes), TitleEditor,          *)
(* TagChipEditor, ConfirmDialog and AppShell of lib/components, api/notes  *)
(* and api/mentions of lib, and the routes of the server they call.        *)
(*                                                                         *)
(* A page shows what the load function of its route answered and what the  *)
(* user did since.  A navigation or invalidateAll() starts a load, which   *)
(* gives way to the next one (SvelteKit, external).  The title, the tags   *)
(* and a new note are forms: the document goes on until their answer       *)
(* replaces it.  A note has at most one mention of this user.  Copying a   *)
(* note as markdown, which changes nothing else, is left out.              *)
(***************************************************************************)
EXTENDS Naturals, Nothing

CONSTANTS
    NoteIds, Titles, Untitled, Tags,
    Handlers,       \* bound: the handlers under way at a time
    MaxOthers,      \* bound: what other sessions do
    UserActs        \* bound: what the user does in a behaviour, the sets to pick from

VARIABLES
    acts,                   \* bound: what the user does in this behaviour
    state, title, noteTags, named, read,    \* the server's rows
    others,
    at, broken, data,       \* the page, or an error in its place
    load,                   \* the load that will replace it
    stale,                  \* history: others changed rows since data was read
    hidden, dialog, busy,   \* the trash page, and the dialog of two pages
    again,                  \* history: notes trashed while the trash page is up
    marks, posts, unsaved,  \* the inbox: rows marked, POSTs under way, failed
    field, form,            \* the title's input, and the form under way
    handlers

rowsOfNotes == <<state, title, noteTags, named, read, others>>
route == <<at, broken, data, stale>>
trashPage == <<hidden, dialog, busy>>
inboxPage == <<marks, posts, unsaved>>
forms == <<field, form>>
routeVars == <<acts, rowsOfNotes, route, load, trashPage, again, inboxPage, forms, handlers>>

------------------------------------------------------------------------------
(* State.                                                                  *)

Routes == NoteIds \cup {"trash", "inbox"}
Text == Titles \cup {None}      \* None: blank
Data == [listed: SUBSET NoteIds, marked: SUBSET NoteIds, title: Text, tags: SUBSET Tags]
NoData == [listed |-> {}, marked |-> {}, title |-> None, tags |-> {}]

\* by: the handler that waits for it.
Load == [to: Routes, by: Handlers \cup {None}, served: BOOLEAN, stale: BOOLEAN, data: Data]
FormPost == [kind: {"rename", "retag", "new"}, note: NoteIds \cup {None}, title: Text,
             tags: SUBSET Tags, untyped: BOOLEAN]
Form == [step: {"sent", "served", "read"}, post: FormPost, stale: BOOLEAN, data: Data]

\* listener: whether the component it closes over is still there, only the
\* document, or neither.
Handler == [kind: {"restore", "delete", "trash", "open"}, note: NoteIds,
            step: {"sent", "served", "reloading"},
            listener: {"component", "document", "none"}]

RoutesAssumption ==
    /\ NoteIds \cap {None, "trash", "inbox"} = {}
    /\ Untitled \in Titles /\ None \notin Titles /\ None \notin Handlers
    /\ MaxOthers \in Nat
    /\ \A a \in UserActs : a \subseteq {"trash", "discard", "inbox", "title", "tags", "new"}
    \* The absent one is none of them.
    /\ None \notin Load /\ None \notin Form /\ None \notin Handler

NoDialog == [note |-> None, submitting |-> FALSE]
\* typed: the note in whose input the user typed the draft.
NoField == [draft |-> None, server |-> None, typed |-> None, submitting |-> FALSE]
FieldOf(t) == [draft |-> t, server |-> t, typed |-> None, submitting |-> FALSE]

RoutesTypeOK ==
    /\ acts \in UserActs
    /\ state \in [NoteIds -> {"none", "live", "trash", "gone"}]
    /\ title \in [NoteIds -> Titles] /\ noteTags \in [NoteIds -> SUBSET Tags]
    /\ named \in SUBSET NoteIds /\ read \in SUBSET NoteIds /\ others \in 0 .. MaxOthers
    /\ at \in Routes /\ broken \in BOOLEAN /\ data \in Data /\ stale \in BOOLEAN
    /\ load \in Load \cup {None}
    /\ hidden \in SUBSET NoteIds /\ again \in SUBSET NoteIds
    /\ dialog \in [note: NoteIds \cup {None}, submitting: BOOLEAN]
    /\ busy \in NoteIds \cup {None}
    /\ marks \in SUBSET NoteIds /\ posts \in SUBSET NoteIds /\ unsaved \in SUBSET NoteIds
    /\ field \in [draft: Text, server: Text, typed: NoteIds \cup {None}, submitting: BOOLEAN]
    /\ form \in Form \cup {None}
    /\ handlers \in [Handlers -> Handler \cup {None}]

------------------------------------------------------------------------------
(* What the server answers to a load.                                      *)

Trashed == {n \in NoteIds : state[n] = "trash"}

\* GET /notes/trash, GET /mentions, GET /notes/:id.
TrashListing == [NoData EXCEPT !.listed = Trashed]
Mentions == {n \in named : state[n] \in {"live", "trash"}}
MentionListing == [NoData EXCEPT !.listed = Mentions, !.marked = Mentions \cap read]
NoteAnswer(n) == [NoData EXCEPT !.title = title[n], !.tags = noteTags[n]]

\* A note in the trash is a 404.
Found(p) == p \in NoteIds => state[p] = "live"
Answer(p) ==
    IF p = "trash" THEN TrashListing ELSE IF p = "inbox" THEN MentionListing ELSE NoteAnswer(p)

------------------------------------------------------------------------------
(* Loads (SvelteKit).                                                      *)

LoadOf(p, h) == [to |-> p, by |-> h, served |-> FALSE, stale |-> FALSE, data |-> NoData]

\* goto() or a link.
Navigate(p) ==
    /\ load' = LoadOf(p, None)
    /\ UNCHANGED <<rowsOfNotes, route, trashPage, again, inboxPage, forms, handlers>>

ServeLoad ==
    /\ load # None /\ ~load.served /\ Found(load.to)
    /\ load' = [load EXCEPT !.served = TRUE, !.stale = FALSE, !.data = Answer(load.to)]
    /\ UNCHANGED <<rowsOfNotes, route, trashPage, again, inboxPage, forms, handlers>>

\* The component of a page: one per route, and one for all notes, in which
\* only the title's editor is keyed by the note.
Stays(p) == ~broken /\ (p = at \/ (p \in NoteIds /\ at \in NoteIds))

Parted ==
    [h \in Handlers |-> IF handlers[h] # None /\ handlers[h].listener = "component"
                        THEN [handlers[h] EXCEPT !.listener = "document"]
                        ELSE handlers[h]]

\* Nobody hears an answer any more; a request may still reach the server.
Orphaned ==
    [h \in Handlers |-> IF handlers[h] # None /\ handlers[h].step = "sent"
                        THEN [handlers[h] EXCEPT !.listener = "none"]
                        ELSE None]

Mounts ==
    /\ hidden' = {} /\ again' = {} /\ dialog' = NoDialog /\ busy' = None
    /\ marks' = {} /\ unsaved' = {}

LoadArrives ==
    /\ load # None /\ load.served
    /\ at' = load.to /\ data' = load.data /\ stale' = load.stale
    /\ broken' = FALSE /\ load' = None
    /\ IF Stays(load.to)
       THEN /\ dialog' = IF dialog.note = None \/ load.to \notin NoteIds
                         THEN dialog ELSE [dialog EXCEPT !.note = load.to]
            /\ busy' = IF busy = None \/ load.to \notin NoteIds THEN busy ELSE load.to
            /\ UNCHANGED <<hidden, again, marks, unsaved, handlers>>
       ELSE Mounts /\ handlers' = Parted
    /\ field' = IF load.to \in NoteIds /\ (broken \/ load.to # at)
                THEN FieldOf(load.data.title)
                ELSE IF load.to \in NoteIds THEN field ELSE NoField
    /\ UNCHANGED <<rowsOfNotes, posts, form>>

\* An error, a 404 of the note among them: the error page.
LoadFails ==
    /\ load # None
    /\ at' = load.to /\ data' = NoData /\ broken' = TRUE /\ load' = None
    /\ Mounts /\ handlers' = Parted /\ field' = NoField
    /\ UNCHANGED <<rowsOfNotes, stale, posts, form>>

------------------------------------------------------------------------------
(* Handlers that await a request and then a load.                          *)

On(p) == at = p /\ ~broken

HandlerBegins(h, kind, n) ==
    /\ handlers[h] = None
    /\ handlers' = [handlers EXCEPT ![h] =
            [kind |-> kind, note |-> n, step |-> "sent", listener |-> "component"]]

\* The trash: a row's buttons are disabled while it is the busy one.
TrashRows == data.listed \ hidden

RestoreNote(h, n) ==
    /\ "trash" \in acts /\ On("trash") /\ n \in TrashRows /\ busy # n
    /\ HandlerBegins(h, "restore", n)
    /\ busy' = n
    /\ UNCHANGED <<rowsOfNotes, route, load, hidden, dialog, again, inboxPage, forms>>

AskDelete(n) ==
    /\ "trash" \in acts /\ On("trash") /\ n \in TrashRows /\ busy # n
    /\ dialog' = [dialog EXCEPT !.note = n]
    /\ UNCHANGED <<rowsOfNotes, route, load, hidden, busy, again, inboxPage, forms, handlers>>

\* The page of a note: its trash button is disabled while deleting.
AskDiscard ==
    /\ "discard" \in acts /\ On(at) /\ at \in NoteIds /\ busy = None
    /\ dialog' = [dialog EXCEPT !.note = at]
    /\ UNCHANGED <<rowsOfNotes, route, load, hidden, busy, again, inboxPage, forms, handlers>>

\* The dialog confirms once; Escape and the backdrop close it even then.
ConfirmDelete(h) ==
    /\ On("trash") /\ dialog.note # None /\ ~dialog.submitting
    /\ HandlerBegins(h, "delete", dialog.note)
    /\ dialog' = [dialog EXCEPT !.submitting = TRUE]
    /\ busy' = dialog.note
    /\ UNCHANGED <<rowsOfNotes, route, load, hidden, again, inboxPage, forms>>

\* Without effect while another deletion is under way.
ConfirmDiscard(h) ==
    /\ On(at) /\ at \in NoteIds /\ dialog.note # None /\ ~dialog.submitting
    /\ dialog' = [dialog EXCEPT !.submitting = TRUE]
    /\ IF busy = None
       THEN HandlerBegins(h, "trash", at) /\ busy' = at
       ELSE UNCHANGED <<busy, handlers>>
    /\ UNCHANGED <<rowsOfNotes, route, load, hidden, again, inboxPage, forms>>

CancelDelete ==
    /\ dialog.note # None
    /\ dialog' = NoDialog
    /\ UNCHANGED <<rowsOfNotes, route, load, hidden, busy, again, inboxPage, forms, handlers>>

\* The row of a mention: marked at once, its POST awaited by nobody; then the
\* note, and whatever page is there is loaded once more.
Pick(h, n) ==
    /\ "inbox" \in acts /\ On("inbox") /\ n \in data.listed
    /\ handlers[h] = None
    /\ IF n \in data.marked \cup marks
       THEN UNCHANGED inboxPage
       ELSE marks' = marks \cup {n} /\ posts' = posts \cup {n} /\ UNCHANGED unsaved
    /\ handlers' = [handlers EXCEPT ![h] =
            [kind |-> "open", note |-> n, step |-> "reloading", listener |-> "component"]]
    /\ load' = LoadOf(n, h)
    /\ UNCHANGED <<rowsOfNotes, route, trashPage, again, forms>>

ServeRead(n) ==
    /\ n \in posts /\ n \in Mentions
    /\ read' = read \cup {n} /\ posts' = posts \ {n}
    /\ UNCHANGED <<state, title, noteTags, named, others, route, load, trashPage, again,
                   marks, unsaved, forms, handlers>>

ReadFails(n) ==
    /\ n \in posts
    /\ posts' = posts \ {n} /\ unsaved' = unsaved \cup ({n} \cap marks)
    /\ UNCHANGED <<rowsOfNotes, route, load, trashPage, again, marks, forms, handlers>>

\* A change nobody on this page will load again by itself.
Unseen ==
    /\ stale' = TRUE
    /\ load' = IF load = None THEN None ELSE [load EXCEPT !.stale = TRUE]
Again(n) == IF On("trash") THEN again \cup {n} ELSE again
Missed == IF form = None THEN None ELSE [form EXCEPT !.stale = TRUE]

\* The server: only a note in the trash is deleted for good.
Allowed(kind, n) ==
    IF kind = "delete" THEN state[n] = "trash" ELSE state[n] \in {"live", "trash"}
Becomes(kind) ==
    CASE kind = "restore" -> "live" [] kind = "delete" -> "gone" [] OTHER -> "trash"

Serve(h) ==
    /\ handlers[h] # None /\ handlers[h].step = "sent"
    /\ LET n == handlers[h].note
           kind == handlers[h].kind
       IN  /\ Allowed(kind, n)
           /\ state' = [state EXCEPT ![n] = Becomes(kind)]
           /\ again' = IF state'[n] = "trash" THEN Again(n) ELSE again
    /\ form' = Missed
    /\ IF handlers[h].listener = "none"
       THEN Unseen /\ handlers' = [handlers EXCEPT ![h] = None]
       ELSE /\ handlers' = [handlers EXCEPT ![h].step = "served"]
            /\ UNCHANGED <<stale, load>>
    /\ UNCHANGED <<title, noteTags, named, read, others, at, broken, data, trashPage,
                   inboxPage, field>>

\* Faulty: after the answer the page is not loaded again.
AnsweredOnly(h) ==
    /\ handlers[h] # None /\ handlers[h].step = "served"
    /\ LET here == handlers[h].listener = "component"
           kind == handlers[h].kind
       IN  /\ hidden' = IF here /\ kind \in {"restore", "delete"}
                        THEN hidden \cup {handlers[h].note} ELSE hidden
           /\ dialog' = IF here /\ kind \in {"delete", "trash"} THEN NoDialog ELSE dialog
           /\ IF kind = "trash" THEN load' = LoadOf("trash", h) ELSE UNCHANGED load
    /\ handlers' = [handlers EXCEPT ![h].step = "reloading"]
    /\ UNCHANGED <<rowsOfNotes, route, busy, again, inboxPage, forms>>

\* The answer: the row is hidden, the dialog closes, whichever is open by
\* now, and a load starts, of the page the user is on by now, or of the trash.
Answered(h) ==
    /\ handlers[h] # None /\ handlers[h].step = "served"
    /\ LET here == handlers[h].listener = "component"
           kind == handlers[h].kind
       IN  /\ hidden' = IF here /\ kind \in {"restore", "delete"}
                        THEN hidden \cup {handlers[h].note} ELSE hidden
           /\ dialog' = IF here /\ kind \in {"delete", "trash"} THEN NoDialog ELSE dialog
           /\ load' = LoadOf(IF kind = "trash" THEN "trash" ELSE at, h)
    /\ handlers' = [handlers EXCEPT ![h].step = "reloading"]
    /\ UNCHANGED <<rowsOfNotes, route, busy, again, inboxPage, forms>>

\* A refusal, or an answer that was lost.
HandlerFails(h) ==
    /\ handlers[h] # None /\ handlers[h].step \in {"sent", "served"}
    /\ IF handlers[h].step = "served" THEN Unseen ELSE UNCHANGED <<stale, load>>
    /\ busy' = IF handlers[h].listener = "component" THEN None ELSE busy
    /\ handlers' = [handlers EXCEPT ![h] = None]
    /\ UNCHANGED <<rowsOfNotes, at, broken, data, hidden, dialog, again, inboxPage, forms>>

\* finally: the load it waited for arrived, failed or gave way.
HandlerEnds(h) ==
    /\ handlers[h] # None /\ handlers[h].step = "reloading"
    /\ load # None => load.by # h
    /\ handlers' = [handlers EXCEPT ![h] = None]
    /\ busy' = IF handlers[h].listener = "component" /\ handlers[h].kind # "open"
               THEN None ELSE busy
    /\ load' = IF handlers[h].kind = "open" THEN LoadOf(at, None) ELSE load
    /\ UNCHANGED <<rowsOfNotes, route, hidden, dialog, again, inboxPage, forms>>

------------------------------------------------------------------------------
(* Forms.                                                                  *)

\* The browser gives up the form before; if its request still arrives, that
\* is as if another session made it.
Submit(post) ==
    /\ form' = [step |-> "sent", post |-> post, stale |-> FALSE, data |-> NoData]
    /\ UNCHANGED <<rowsOfNotes, route, load, trashPage, again, inboxPage, handlers>>

OnNote == On(at) /\ at \in NoteIds

TypeTitle(t) ==
    /\ "title" \in acts
    /\ OnNote
    /\ field' = [field EXCEPT !.draft = t, !.typed = at]
    /\ UNCHANGED <<rowsOfNotes, route, load, trashPage, again, inboxPage, form, handlers>>

EscapeTitle ==
    /\ "title" \in acts
    /\ OnNote
    /\ field' = [field EXCEPT !.draft = field.server, !.typed = None]
    /\ UNCHANGED <<rowsOfNotes, route, load, trashPage, again, inboxPage, form, handlers>>

TitlePost(blurred) ==
    [kind |-> "rename", note |-> at, title |-> field.draft, tags |-> {},
     untyped |-> field.typed # at /\ (blurred \/ field.typed # None)]

EnterTitle ==
    /\ "title" \in acts
    /\ OnNote
    /\ Submit(TitlePost(FALSE))
    /\ field' = [field EXCEPT !.submitting = TRUE]

\* Faulty: the input is compared with the title the page has by now.
BlurAgainstData ==
    /\ OnNote
    /\ ~field.submitting /\ field.draft # data.title
    /\ Submit(TitlePost(TRUE))
    /\ field' = [field EXCEPT !.submitting = TRUE]

\* Leaving the input saves what differs from the title it came up with.
BlurTitle ==
    /\ OnNote
    /\ ~field.submitting /\ field.draft # field.server
    /\ Submit(TitlePost(TRUE))
    /\ field' = [field EXCEPT !.submitting = TRUE]

\* Every form of the tags posts the whole list, as the page has it.
TagsPost(tags) ==
    [kind |-> "retag", note |-> at, title |-> None, tags |-> tags, untyped |-> FALSE]

SubmitTags(t) ==
    /\ "tags" \in acts
    /\ OnNote
    /\ \/ Submit(TagsPost(data.tags \cup {t}))
       \/ t \in data.tags /\ Submit(TagsPost(data.tags \ {t}))
    /\ UNCHANGED field

NewNoteForm ==
    /\ "new" \in acts
    /\ Submit([kind |-> "new", note |-> None, title |-> None, tags |-> {}, untyped |-> FALSE])
    /\ UNCHANGED field

\* The route's endpoint and the server: a blank title changes nothing.
Renames(post) ==
    /\ post.kind = "rename" /\ state[post.note] \in {"live", "trash"}
    /\ title' = IF post.title = None THEN title ELSE [title EXCEPT ![post.note] = post.title]
    /\ UNCHANGED <<state, noteTags>>

Retags(post) ==
    /\ post.kind = "retag" /\ state[post.note] \in {"live", "trash"}
    /\ noteTags' = [noteTags EXCEPT ![post.note] = post.tags]
    /\ UNCHANGED <<state, title>>

Creates(post, n) ==
    /\ post.kind = "new" /\ state[n] = "none"
    /\ state' = [state EXCEPT ![n] = "live"]
    /\ title' = [title EXCEPT ![n] = Untitled] /\ noteTags' = [noteTags EXCEPT ![n] = {}]

Accepts(post, n) == Renames(post) \/ Retags(post) \/ Creates(post, n)

ServeForm(n) ==
    /\ form # None /\ form.step = "sent"
    /\ Accepts(form.post, n)
    /\ form.post.kind # "new" => n = form.post.note
    /\ form' = [form EXCEPT !.step = "served", !.post.note = n]
    /\ UNCHANGED <<named, read, others, route, load, trashPage, again, inboxPage,
                   field, handlers>>

\* The redirect: the server runs the load function of the note's route.
Redirected ==
    /\ form # None /\ form.step = "served" /\ Found(form.post.note)
    /\ form' = [form EXCEPT !.step = "read", !.stale = FALSE, !.data = Answer(form.post.note)]
    /\ UNCHANGED <<rowsOfNotes, route, load, trashPage, again, inboxPage, field, handlers>>

\* A new document.
FormArrives ==
    /\ form # None /\ form.step = "read"
    /\ at' = form.post.note /\ data' = form.data /\ stale' = form.stale /\ broken' = FALSE
    /\ load' = None /\ form' = None
    /\ Mounts /\ handlers' = Orphaned /\ field' = FieldOf(form.data.title)
    /\ UNCHANGED <<rowsOfNotes, posts>>

\* An error is a document too.
FormFails ==
    /\ form # None
    /\ data' = NoData /\ broken' = TRUE
    /\ load' = None /\ form' = None
    /\ Mounts /\ handlers' = Orphaned /\ field' = NoField
    /\ UNCHANGED <<rowsOfNotes, at, stale, posts>>

------------------------------------------------------------------------------
(* Other sessions, and the purge.                                          *)

OthersDo(n) ==
    /\ others < MaxOthers
    /\ others' = others + 1
    /\ \/ /\ \/ state[n] = "live" /\ state' = [state EXCEPT ![n] = "trash"]
             \/ /\ state[n] = "trash"
                /\ \E s \in {"live", "gone"} : state' = [state EXCEPT ![n] = s]
          /\ UNCHANGED <<title, noteTags, named, read>>
       \/ /\ state[n] = "none" /\ state' = [state EXCEPT ![n] = "live"]
          /\ UNCHANGED <<title, noteTags, named, read>>
       \/ /\ state[n] \in {"live", "trash"}
          /\ \/ /\ \E t \in Titles : title' = [title EXCEPT ![n] = t]
                /\ UNCHANGED <<noteTags, named, read>>
             \/ /\ \E s \in SUBSET Tags : noteTags' = [noteTags EXCEPT ![n] = s]
                /\ UNCHANGED <<title, named, read>>
             \/ named' = named \cup {n} /\ UNCHANGED <<title, noteTags, read>>
             \/ n \in named /\ read' = read \cup {n} /\ UNCHANGED <<title, noteTags, named>>
          /\ UNCHANGED state
    /\ again' = IF state'[n] = "trash" THEN Again(n) ELSE again
    /\ Unseen /\ form' = Missed
    /\ UNCHANGED <<at, broken, data, trashPage, inboxPage, field, handlers>>

RoutesInit ==
    /\ acts \in UserActs
    /\ state \in [NoteIds -> {"none", "live", "trash"}]
    /\ title = [n \in NoteIds |-> Untitled] /\ noteTags = [n \in NoteIds |-> {}]
    /\ named = {} /\ read = {} /\ others = 0
    /\ at = "inbox" /\ broken = FALSE /\ data = NoData /\ load = None /\ stale = FALSE
    /\ hidden = {} /\ again = {} /\ dialog = NoDialog /\ busy = None
    /\ marks = {} /\ posts = {} /\ unsaved = {}
    /\ field = NoField /\ form = None
    /\ handlers = [h \in Handlers |-> None]

RoutesStep ==
    \/ \E p \in Routes : Navigate(p)
    \/ ServeLoad \/ LoadArrives \/ LoadFails
    \/ \E h \in Handlers, n \in NoteIds : RestoreNote(h, n) \/ Pick(h, n)
    \/ \E n \in NoteIds : AskDelete(n) \/ ServeRead(n) \/ ReadFails(n)
    \/ AskDiscard \/ CancelDelete
    \/ \E h \in Handlers : \/ ConfirmDelete(h) \/ ConfirmDiscard(h)
                           \/ Serve(h) \/ Answered(h) \/ HandlerFails(h) \/ HandlerEnds(h)
    \/ \E t \in Text : TypeTitle(t)
    \/ EscapeTitle \/ EnterTitle \/ BlurTitle \/ NewNoteForm
    \/ \E t \in Tags : SubmitTags(t)
    \/ \E n \in NoteIds : ServeForm(n)
    \/ Redirected \/ FormArrives \/ FormFails
    \/ \E n \in NoteIds : OthersDo(n)

RoutesNext == RoutesStep /\ UNCHANGED acts

RoutesSpec == RoutesInit /\ [][RoutesNext]_routeVars

------------------------------------------------------------------------------
(* Properties.                                                             *)

\* No load, no form and no handler of this page is under way, and nobody else
\* changed a row since the page was read.
Settled ==
    /\ load = None /\ form = None /\ ~broken /\ ~stale
    /\ \A h \in Handlers :
        handlers[h] # None => handlers[h].step # "served" \/ handlers[h].listener = "none"

\* A page that settled shows what the server has, though the user left and
\* came back while a request was under way, confirmed twice, or a load gave
\* way to another.  The trash hides no note but one that went back to it
\* since (rows once hidden stay so), the note of a note's page is a live one,
\* and the inbox marks nothing as read that is not, unless its POST is under
\* way or failed.
PagesAgree ==
    /\ Settled /\ at = "trash" =>
        TrashRows \subseteq Trashed /\ Trashed \ TrashRows \subseteq again
    /\ Settled /\ at \in NoteIds =>
        state[at] = "live" /\ data.title = title[at] /\ data.tags = noteTags[at]
    /\ (data.marked \cup marks) \ read \subseteq posts \cup unsaved

\* A title is saved only for the note in whose input the user typed it, though
\* the page goes from note to note with the input up: leaving an input nobody
\* typed into saves nothing, however often its page was loaded again with
\* another title since.  (Enter saves what is there, typed or not.)
RenamesAsTyped == form # None => ~form.post.untyped
==============================================================================
