------------------------------ MODULE NotesSidebar ------------------------------
(***************************************************************************)
(* The notes list of the web client: a store that polls the server and     *)
(* aborts the poll before it, the tag filter, moving a note to the trash   *)
(* and importing.                                                          *)
(*                                                                         *)
(* web/src/lib/state/notes-store.svelte.ts (mentions-store and users-store *)
(* are the same class over other rows), api/notes.ts,                      *)
(* components/Sidebar.svelte.                                              *)
(*                                                                         *)
(* The server's rows are the live notes, each tagged or not; titles are    *)
(* left out, one tag stands for all, and every change of the rows has a    *)
(* number, which the rows carry.                                           *)
(***************************************************************************)
EXTENDS Naturals, Nothing

CONSTANTS
    Notes,
    MaxPolls,       \* bound: polls whose answer is not in
    MaxVersion      \* bound: changes of the rows

SidebarAssumption ==
    /\ None \notin Notes
    /\ MaxPolls \in Nat /\ MaxVersion \in Nat

VARIABLES
    live, tagged,       \* the server's rows
    version,            \* changes so far
    running,            \* the store polls
    polls,              \* polls not settled
    current,            \* the poll the next one aborts
    rows,               \* the store's rows
    listLoading,
    filter,             \* a tag is active
    path,               \* the note on the page, or another page
    target,             \* the note of the confirmation dialog
    trashing, importing \* requests under way

sidebarVars == <<live, tagged, version, running, polls, current, rows, listLoading, filter,
          path, target, trashing, importing>>
notesServer == <<live, tagged, version>>
listStore == <<running, polls, current, rows, listLoading>>
sidebarPage == <<filter, path, target, trashing, importing>>

------------------------------------------------------------------------------
(* State.                                                                  *)

PollIds == 1 .. MaxPolls
Rows == [notes: SUBSET Notes, tagged: SUBSET Notes, version: 0 .. MaxVersion]
NoRows == [notes |-> {}, tagged |-> {}, version |-> 0]
ServerRows == [notes |-> live, tagged |-> live \cap tagged, version |-> version]
Poll == [id: PollIds, aborted: BOOLEAN, served: BOOLEAN, rows: Rows]

SidebarTypeOK ==
    /\ live \in SUBSET Notes /\ tagged \in SUBSET Notes
    /\ version \in 0 .. MaxVersion
    /\ running \in BOOLEAN
    /\ polls \in SUBSET Poll
    /\ current \in PollIds \cup {0}
    /\ rows \in Rows
    /\ listLoading \in BOOLEAN /\ filter \in BOOLEAN
    /\ path \in Notes \cup {None} /\ target \in Notes \cup {None}
    /\ trashing \in [step: {"idle", "sent", "served"}, note: Notes \cup {None}]
    /\ importing \in {"idle", "sent", "served"}

NotTrashing == [step |-> "idle", note |-> None]

SidebarInit ==
    /\ live \in SUBSET Notes /\ tagged = {} /\ version = 0
    /\ running = FALSE /\ polls = {} /\ current = 0
    /\ rows = NoRows /\ listLoading = TRUE
    /\ filter = FALSE /\ path = None /\ target = None
    /\ trashing = NotTrashing /\ importing = "idle"

\* The server's rows change.
Changed(l, t) ==
    /\ version < MaxVersion
    /\ version' = version + 1
    /\ live' = l /\ tagged' = t

------------------------------------------------------------------------------
(* The store.                                                              *)

AbortedPolls == {IF p.id = current THEN [p EXCEPT !.aborted = TRUE] ELSE p : p \in polls}

\* refresh(): the poll under way is aborted, and another one sent.
Refresh ==
    \E i \in {j \in PollIds : \A p \in polls : p.id # j} :
        /\ polls' = AbortedPolls \cup
                {[id |-> i, aborted |-> FALSE, served |-> FALSE, rows |-> NoRows]}
        /\ current' = i

Start ==
    /\ ~running
    /\ running' = TRUE
    /\ Refresh
    /\ UNCHANGED <<notesServer, rows, listLoading, sidebarPage>>

Tick ==
    /\ running
    /\ Refresh
    /\ UNCHANGED <<notesServer, running, rows, listLoading, sidebarPage>>

\* The sidebar goes with its layout.
Stop ==
    /\ running
    /\ running' = FALSE
    /\ polls' = AbortedPolls /\ current' = 0
    /\ UNCHANGED <<notesServer, rows, listLoading, sidebarPage>>

ServePoll(p) ==
    /\ p \in polls /\ ~p.served
    /\ polls' = (polls \ {p}) \cup {[p EXCEPT !.served = TRUE, !.rows = ServerRows]}
    /\ UNCHANGED <<notesServer, running, current, rows, listLoading, sidebarPage>>

\* Faulty: an answer that was aborted is still applied.
AppliesAborted(p) == TRUE

Applies(p) == ~p.aborted

\* The rows are replaced; an aborted poll only ends the loading.
PollArrives(p) ==
    /\ p \in polls /\ p.served
    /\ polls' = polls \ {p}
    /\ rows' = IF Applies(p) THEN p.rows ELSE rows
    /\ listLoading' = FALSE
    /\ UNCHANGED <<notesServer, running, current, sidebarPage>>

\* A failure leaves the rows.
PollFails(p) ==
    /\ p \in polls
    /\ polls' = polls \ {p}
    /\ listLoading' = FALSE
    /\ UNCHANGED <<notesServer, running, current, rows, sidebarPage>>

------------------------------------------------------------------------------
(* The page.                                                               *)

\* A chip is there for every tag of the rows.
ToggleTag ==
    /\ rows.tagged # {}
    /\ filter' = ~filter
    /\ UNCHANGED <<notesServer, listStore, path, target, trashing, importing>>

VisibleNotes == IF filter THEN rows.tagged ELSE rows.notes

Visit(n) ==
    /\ n = None \/ n \in VisibleNotes
    /\ path' = n
    /\ UNCHANGED <<notesServer, listStore, filter, target, trashing, importing>>

AskTrash(n) ==
    /\ n \in VisibleNotes
    /\ target' = n
    /\ UNCHANGED <<notesServer, listStore, filter, path, trashing, importing>>

CancelTrash ==
    /\ target # None
    /\ target' = None
    /\ UNCHANGED <<notesServer, listStore, filter, path, trashing, importing>>

ConfirmTrash ==
    /\ target # None /\ trashing = NotTrashing
    /\ trashing' = [step |-> "sent", note |-> target]
    /\ UNCHANGED <<notesServer, listStore, filter, path, target, importing>>

\* A note that is gone already is a 404: TrashFails.
ServeTrash ==
    /\ trashing.step = "sent" /\ trashing.note \in live
    /\ Changed(live \ {trashing.note}, tagged)
    /\ trashing' = [trashing EXCEPT !.step = "served"]
    /\ UNCHANGED <<listStore, filter, path, target, importing>>

\* Whatever dialog is open closes; a user who is on the note now is taken to
\* the trash.
TrashAnswer ==
    /\ trashing.step = "served"
    /\ path' = IF path = trashing.note THEN None ELSE path
    /\ target' = None
    /\ trashing' = NotTrashing
    /\ UNCHANGED <<notesServer, listStore, filter, importing>>

TrashFails ==
    /\ trashing.step # "idle"
    /\ trashing' = NotTrashing
    /\ UNCHANGED <<notesServer, listStore, filter, path, target, importing>>

\* Files are dropped or picked; a second import waits for nothing and is lost.
Import ==
    /\ importing = "idle"
    /\ importing' = "sent"
    /\ UNCHANGED <<notesServer, listStore, filter, path, target, trashing>>

ServeImport(n) ==
    /\ importing = "sent"
    /\ n \in Notes \ live
    /\ Changed(live \cup {n}, tagged)
    /\ importing' = "served"
    /\ UNCHANGED <<listStore, filter, path, target, trashing>>

ImportAnswer ==
    /\ importing = "served"
    /\ importing' = "idle"
    /\ Refresh
    /\ UNCHANGED <<notesServer, running, rows, listLoading, filter, path, target, trashing>>

ImportFails ==
    /\ importing # "idle"
    /\ importing' = "idle"
    /\ UNCHANGED <<notesServer, listStore, filter, path, target, trashing>>

\* Other sessions create, trash, restore and tag notes.
Elsewhere(n) ==
    /\ \/ Changed((live \cup {n}) \ (live \cap {n}), tagged)
       \/ Changed(live, (tagged \cup {n}) \ (tagged \cap {n}))
    /\ UNCHANGED <<listStore, sidebarPage>>

SidebarNext ==
    \/ Start \/ Tick \/ Stop \/ ToggleTag
    \/ CancelTrash \/ ConfirmTrash \/ ServeTrash \/ TrashAnswer \/ TrashFails
    \/ Import \/ ImportAnswer \/ ImportFails
    \/ \E p \in polls : ServePoll(p) \/ PollArrives(p) \/ PollFails(p)
    \/ \E n \in Notes : AskTrash(n) \/ ServeImport(n) \/ Elsewhere(n)
    \/ \E n \in Notes \cup {None} : Visit(n)

SidebarSpec == SidebarInit /\ [][SidebarNext]_sidebarVars

------------------------------------------------------------------------------
(* Properties.                                                             *)

\* Polls overlap and are answered in any order, an import asks once more and
\* a stopped store is started again, and the list never goes back to rows
\* older than those it shows.
ListNeverGoesBack == [][rows'.version >= rows.version]_sidebarVars

==============================================================================
