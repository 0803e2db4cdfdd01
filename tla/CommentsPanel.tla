----------------------------- MODULE CommentsPanel -----------------------------
(***************************************************************************)
(* The comments of an open note in the browser: the store that the editor  *)
(* and the right pane share, the requests that change the server's rows    *)
(* and then the store, and the pane's comings and goings with its tab.     *)
(*                                                                         *)
(* web/src/lib/state/comments-store.svelte.ts, api/comments.ts,            *)
(* components/{CommentsPane,NoteRightPane}.svelte, and what Editor.svelte  *)
(* does to the store.                                                      *)
(*                                                                         *)
(* A comment is its identity: the text, the author and the anchor are left *)
(* out, and so are the comments other sessions post meanwhile, which the   *)
(* store does not follow.  The tab kept in localStorage is any tab: the    *)
(* comments tab is mounted first and may be left at once.  The server is   *)
(* modelled by its answers.                                                *)
(***************************************************************************)
EXTENDS Naturals, Nothing

CONSTANTS
    Comments, Parent,   \* rows; Parent[c] is None for the top of a thread
    Old,                \* the rows that are there when the note is opened
    MaxInFlight         \* bound: requests under way at a time

CommentsAssumption ==
    /\ None \notin Comments
    /\ Parent \in [Comments -> Comments \cup {None}]
    /\ \A c \in Comments : Parent[c] # None => Parent[Parent[c]] = None
    /\ Old \subseteq Comments
    /\ MaxInFlight \in Nat \ {0}

VARIABLES
    commentRows,               \* the server's rows
    paneOn,             \* the comments tab is the active one
    store,              \* the shared store
    editorOn,           \* the editor has attached to it
    reqs,               \* requests under way
    serial              \* since the last listing no two requests overlapped

panelVars == <<commentRows, paneOn, store, editorOn, reqs, serial>>

------------------------------------------------------------------------------
(* State.                                                                  *)

Slots == 1 .. MaxInFlight
Tops == {c \in Comments : Parent[c] = None}
Dto == [id: Comments, resolved: BOOLEAN]

\* by: the component that waits for the answer; dead: its store is evicted.
PanelRequest == [op: {"list", "post", "reply", "resolve", "reopen", "delete"},
            id: Comments \cup {None}, by: {"pane", "editor", "gone"},
            dead: BOOLEAN, served: BOOLEAN, include: BOOLEAN,
            answer: SUBSET Dto, alone: BOOLEAN]
IdleSlot == [op |-> "idle"]

\* The list says how often each row is in it: their order is not modelled.
NoRow == [d \in Dto |-> 0]
NewStore == [list |-> NoRow, include |-> FALSE, loading |-> TRUE, error |-> FALSE]

PanelTypeOK ==
    /\ commentRows \in [Comments -> {"none", "open", "resolved", "gone"}]
    /\ paneOn \in BOOLEAN /\ editorOn \in BOOLEAN
    /\ store \in [list: [Dto -> Nat], include: BOOLEAN, loading: BOOLEAN, error: BOOLEAN]
    /\ reqs \in [Slots -> PanelRequest \cup {IdleSlot}]
    /\ serial \in BOOLEAN

Busy == {s \in Slots : reqs[s] # IdleSlot}

\* A request made now; whatever is under way no longer runs alone.
NewRequest(op, c, by, include) ==
    [op |-> op, id |-> c, by |-> by, dead |-> FALSE, served |-> FALSE,
     include |-> include, answer |-> {}, alone |-> TRUE]

With(R, s, r) ==
    [t \in Slots |->
        IF t = s THEN [r EXCEPT !.alone = \A u \in Slots \ {s} : R[u] = IdleSlot]
        ELSE IF R[t] = IdleSlot THEN IdleSlot
        ELSE [R[t] EXCEPT !.alone = FALSE]]

\* Which slot a request takes says nothing.
FreeSlot == CHOOSE s \in Slots : reqs[s] = IdleSlot

Send(op, c, by, include) ==
    /\ Busy # Slots
    /\ reqs' = With(reqs, FreeSlot, NewRequest(op, c, by, include))

PanelInit ==
    /\ commentRows = [c \in Comments |-> IF c \in Old THEN "open" ELSE "none"]
    /\ paneOn = TRUE /\ editorOn = FALSE
    /\ store = NewStore
    /\ reqs = With([s \in Slots |-> IdleSlot], 1, NewRequest("list", None, "pane", FALSE))
    /\ serial = FALSE

------------------------------------------------------------------------------
(* Mounting.                                                               *)

\* The pane's component goes: its requests have nobody to tell, and with no
\* consumer left the store is evicted.
Unmounted(R) ==
    [s \in Slots |->
        IF R[s] = IdleSlot THEN IdleSlot
        ELSE [R[s] EXCEPT !.by = IF @ = "pane" THEN "gone" ELSE @,
                          !.dead = @ \/ ~editorOn]]

LeaveTab ==
    /\ paneOn
    /\ paneOn' = FALSE
    /\ reqs' = Unmounted(reqs)
    /\ store' = IF editorOn THEN store ELSE NewStore
    /\ UNCHANGED <<commentRows, editorOn, serial>>

\* The first consumer of a store fetches.
EnterTab ==
    /\ ~paneOn
    /\ paneOn' = TRUE
    /\ IF editorOn THEN UNCHANGED reqs ELSE Send("list", None, "pane", store.include)
    /\ UNCHANGED <<commentRows, store, editorOn, serial>>

\* The last step of the editor's mount.
EditorAttach ==
    /\ ~editorOn
    /\ editorOn' = TRUE
    /\ IF paneOn THEN UNCHANGED reqs ELSE Send("list", None, "editor", store.include)
    /\ UNCHANGED <<commentRows, store, serial, paneOn>>

\* Nobody is left to hear of the requests under way.
Forgotten ==
    [s \in Slots |->
        IF reqs[s] = IdleSlot THEN IdleSlot
        ELSE [reqs[s] EXCEPT !.by = "gone", !.dead = TRUE]]

\* Away from the note and back.
Reopen ==
    /\ paneOn' = TRUE /\ editorOn' = FALSE
    /\ store' = NewStore
    /\ Busy # Slots
    /\ reqs' = With(Forgotten, FreeSlot, NewRequest("list", None, "pane", FALSE))
    /\ UNCHANGED <<commentRows, serial>>

------------------------------------------------------------------------------
(* What the user asks for.                                                 *)

\* A comment nobody has made yet.
Fresh(c) == commentRows[c] = "none" /\ \A s \in Busy : reqs[s].id # c

Waiting(op, by) == \E s \in Busy : reqs[s].op = op /\ reqs[s].by = by

\* From the composer of the pane, or from the one over the selection.
Post(c, by) ==
    /\ c \in Tops /\ Fresh(c)
    /\ by = "pane" => paneOn
    /\ by = "editor" => editorOn
    /\ ~Waiting("post", by)
    /\ Send("post", c, by, FALSE)
    /\ UNCHANGED <<commentRows, store, editorOn, serial, paneOn>>

\* The threads are on the page unless a listing is awaited or an error shown.
Copies(d) == store.list[d]
Listed(c) == \E d \in Dto : d.id = c /\ Copies(d) > 0
OnPage(c) == paneOn /\ ~store.loading /\ ~store.error /\ c \in Tops /\ Listed(c)

\* One reply is under way at a time.
Reply(c) ==
    /\ Fresh(c)
    /\ c \notin Tops /\ OnPage(Parent[c])
    /\ ~Waiting("reply", "pane")
    /\ Send("reply", c, "pane", FALSE)
    /\ UNCHANGED <<commentRows, store, editorOn, serial, paneOn>>

\* Nothing disables these buttons while a request is under way.
ToggleResolve(d) ==
    /\ Copies(d) > 0 /\ OnPage(d.id)
    /\ Send(IF d.resolved THEN "reopen" ELSE "resolve", d.id, "pane", FALSE)
    /\ UNCHANGED <<commentRows, store, editorOn, serial, paneOn>>

DeleteThread(c) ==
    /\ OnPage(c)
    /\ Send("delete", c, "pane", FALSE)
    /\ UNCHANGED <<commentRows, store, editorOn, serial, paneOn>>

SetIncludeResolved ==
    /\ paneOn
    /\ store' = [store EXCEPT !.include = ~@, !.loading = TRUE]
    /\ Send("list", None, "pane", ~store.include)
    /\ UNCHANGED <<commentRows, editorOn, serial, paneOn>>

------------------------------------------------------------------------------
(* The server.                                                             *)

Exists(c) == commentRows[c] \in {"open", "resolved"}
Visible(include) ==
    {c \in Comments : commentRows[c] = "open" \/ (include /\ commentRows[c] = "resolved")}
DtoOf(c) == [id |-> c, resolved |-> commentRows[c] = "resolved"]

\* What a request does to the rows; a reply needs its parent, and a row that
\* is gone is a 404.
ServeRequest(s) ==
    /\ s \in Busy /\ ~reqs[s].served
    /\ LET r == reqs[s] IN
        /\ r.op = "reply" => Exists(Parent[r.id])
        /\ r.op \in {"resolve", "reopen", "delete"} => Exists(r.id)
        /\ commentRows' = CASE r.op = "list" -> commentRows
                     [] r.op \in {"post", "reply", "reopen"} -> [commentRows EXCEPT ![r.id] = "open"]
                     [] r.op = "resolve" -> [commentRows EXCEPT ![r.id] = "resolved"]
                     [] r.op = "delete" ->
                            [c \in Comments |->
                                IF (c = r.id \/ Parent[c] = r.id) /\ commentRows[c] # "none"
                                THEN "gone" ELSE commentRows[c]]
        /\ reqs' = [reqs EXCEPT ![s].served = TRUE,
                        ![s].answer = IF r.op = "list"
                                      THEN {DtoOf(c) : c \in Visible(r.include)} ELSE {}]
    /\ UNCHANGED <<store, editorOn, serial, paneOn>>

------------------------------------------------------------------------------
(* Answers.                                                                *)

Done(s) == reqs' = [reqs EXCEPT ![s] = IdleSlot]
Listening(s) == s \in Busy /\ ~reqs[s].dead

Listing(D) == [d \in Dto |-> IF d \in D THEN 1 ELSE 0]

\* The listing replaces the store's, whenever it was asked for.
ListAnswer(s) ==
    /\ Listening(s) /\ reqs[s].op = "list" /\ reqs[s].served
    /\ store' = [store EXCEPT !.list = Listing(reqs[s].answer), !.loading = FALSE, !.error = FALSE]
    /\ serial' = reqs[s].alone
    /\ Done(s)
    /\ UNCHANGED <<commentRows, editorOn, paneOn>>

InsertLocal(l, d) == [l EXCEPT ![d] = @ + 1]

PostAnswer(s) ==
    /\ Listening(s) /\ reqs[s].op \in {"post", "reply"} /\ reqs[s].served
    /\ store' = [store EXCEPT !.list = InsertLocal(@, [id |-> reqs[s].id, resolved |-> FALSE])]
    /\ serial' = (serial /\ reqs[s].alone)
    /\ Done(s)
    /\ UNCHANGED <<commentRows, editorOn, paneOn>>

\* The rows of a comment.
Count(l, c) == l[[id |-> c, resolved |-> FALSE]] + l[[id |-> c, resolved |-> TRUE]]

\* Every row of the comment becomes d.
UpdateLocal(l, d) ==
    [e \in Dto |->
        CASE e.id # d.id -> l[e]
          [] e = d       -> Count(l, d.id)
          [] OTHER       -> 0]

\* Faulty: a resolved thread is left to the next listing.
ResolveKeepsRow(s, d) ==
    /\ store' = [store EXCEPT !.list = UpdateLocal(@, d)]
    /\ Done(s)

\* updateLocal; a thread that should no longer be listed takes a listing.
Resolved(s, d) ==
    IF d.resolved /\ ~store.include
    THEN /\ store' = [store EXCEPT !.list = UpdateLocal(@, d), !.loading = TRUE]
         /\ reqs' = With(reqs, s, NewRequest("list", None, reqs[s].by, FALSE))
    ELSE /\ store' = [store EXCEPT !.list = UpdateLocal(@, d)]
         /\ Done(s)

ResolveAnswer(s) ==
    /\ Listening(s) /\ reqs[s].op \in {"resolve", "reopen"} /\ reqs[s].served
    /\ Resolved(s, [id |-> reqs[s].id, resolved |-> reqs[s].op = "resolve"])
    /\ serial' = (serial /\ reqs[s].alone)
    /\ UNCHANGED <<commentRows, editorOn, paneOn>>

\* The thread and its replies.
RemoveLocal(l, c) == [d \in Dto |-> IF d.id = c \/ Parent[d.id] = c THEN 0 ELSE l[d]]

RemoveAnswer(s) ==
    /\ Listening(s) /\ reqs[s].op = "delete" /\ reqs[s].served
    /\ store' = [store EXCEPT !.list = RemoveLocal(@, reqs[s].id)]
    /\ serial' = (serial /\ reqs[s].alone)
    /\ Done(s)
    /\ UNCHANGED <<commentRows, editorOn, paneOn>>

\* A refusal, or no answer, which leaves open whether the request was served:
\* the pane shows the error in place of the list, the editor logs it.
RequestFails(s) ==
    /\ Listening(s)
    /\ store' = [store EXCEPT !.error = @ \/ reqs[s].by # "editor" \/ reqs[s].op = "list",
                              !.loading = @ /\ reqs[s].op # "list"]
    /\ serial' = (serial /\ reqs[s].alone /\ ~reqs[s].served)
    /\ Done(s)
    /\ UNCHANGED <<commentRows, editorOn, paneOn>>

\* The answer to a store that was evicted.
Unheard(s) ==
    /\ s \in Busy /\ reqs[s].dead
    /\ Done(s)
    /\ UNCHANGED <<commentRows, store, editorOn, serial, paneOn>>

PanelNext ==
    \/ LeaveTab \/ EnterTab \/ EditorAttach \/ Reopen \/ SetIncludeResolved
    \/ \E c \in Comments :
        \/ Reply(c) \/ DeleteThread(c)
        \/ Post(c, "pane") \/ Post(c, "editor")
    \/ \E d \in Dto : ToggleResolve(d)
    \/ \E s \in Slots :
        \/ ServeRequest(s) \/ ListAnswer(s) \/ PostAnswer(s) \/ ResolveAnswer(s)
        \/ RemoveAnswer(s) \/ RequestFails(s) \/ Unheard(s)

PanelSpec == PanelInit /\ [][PanelNext]_panelVars

------------------------------------------------------------------------------
(* Properties.                                                             *)

\* How often a comment is on the page: a reply needs its thread.
Shown(c) ==
    IF Parent[c] # None /\ ~Listed(Parent[c]) THEN 0
    ELSE Count(store.list, c)

Expected(c) ==
    /\ c \in Visible(store.include)
    /\ Parent[c] # None => Parent[c] \in Visible(store.include)

Quiet == Busy = {} /\ ~store.loading /\ ~store.error

\* As long as no two requests overlap, a post, a reply, a resolution, a
\* deletion and a change of filter, each applied to the store in its own way,
\* leave exactly what a fresh listing would show, across tabs and reopenings.
LocalEditsAgree ==
    serial /\ Quiet =>
        \A c \in Comments :
            /\ Shown(c) = IF Expected(c) THEN 1 ELSE 0
            /\ Expected(c) => Copies(DtoOf(c)) > 0

==============================================================================
