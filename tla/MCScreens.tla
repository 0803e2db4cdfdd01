------------------------------ MODULE MCScreens ------------------------------
(***************************************************************************)
(* The screens of the two clients, each on its own: the first state picks  *)
(* one of them, the part, and only that one moves.  The parts share no     *)
(* state in the code: each component of a screen talks to the server by    *)
(* itself.  The components of the browser's page are extended, and the cfg *)
(* gives their constants; the terminal is instantiated three times.        *)
(*                                                                         *)
(*   list      the terminal: the list under poll, search and tag filter    *)
(*   panes     the terminal: panes, dialogs and what they request          *)
(*   delete    the terminal: deleting, restoring and leaving a note        *)
(*   comments, history, search, notes, editor, routes                      *)
(*             the components of the browser's page                        *)
(***************************************************************************)
EXTENDS SearchOverlay, NotesSidebar, CommentsPanel, HistoryPanel, EditorView,
        NoteRoutes

CONSTANTS n1, n2, m1, r1

VARIABLES
    part,
    live_app, trash, tagged_app, elsewhere, doc, room, all, view, tag,
    searching, query_app, picking, focus, modals, pane, shown, preview,
    lastDeleted, inbox, pump, poll, timer_app, workers, keys, exited

\* The one comment that is a reply answers the other.
MCParent == [c \in {m1, r1} |-> IF c = r1 THEN m1 ELSE None]

AppList == INSTANCE TuiApp WITH
    Notes <- {n1, n2}, Matches <- {n1}, Cited <- {n2},
    Acts <- {"search", "cancel", "typed", "submitted", "tags", "tag", "untag"},
    MaxInbox <- 2, MaxKeys <- 4, MaxWorkers <- 1,
    MaxElsewhere <- 1, live <- live_app, tagged <- tagged_app,
    query <- query_app, timer <- timer_app

AppPanes == INSTANCE TuiApp WITH
    Notes <- {n1, n2}, Matches <- {n1}, Cited <- {n2},
    Acts <- {"new", "ask", "answer", "chord", "open", "untrash", "purge",
             "mention", "highlight", "thread", "users"},
    MaxInbox <- 1, MaxKeys <- 3, MaxWorkers <- 1,
    MaxElsewhere <- 0, live <- live_app, tagged <- tagged_app,
    query <- query_app, timer <- timer_app

AppDelete == INSTANCE TuiApp WITH
    Notes <- {n1}, Matches <- {}, Cited <- {n1},
    Acts <- {"new", "ask", "answer", "open", "undelete"},
    MaxInbox <- 1, MaxKeys <- 4, MaxWorkers <- 1, MaxElsewhere <- 0,
    live <- live_app, tagged <- tagged_app, query <- query_app,
    timer <- timer_app

app == <<live_app, trash, tagged_app, elsewhere, doc, room, all, view, tag,
         searching, query_app, picking, focus, modals, pane, shown, preview,
         lastDeleted, inbox, pump, poll, timer_app, workers, keys, exited>>
page == <<panelVars, historyVars, searchVars, sidebarVars, editorVars, routeVars>>
screenVars == <<part, app, page>>

ScreensInit ==
    /\ part \in {"list", "panes", "delete", "comments", "history", "search", "notes",
                 "editor", "routes"}
    /\ CASE part = "list" -> AppList!Init
         [] part = "panes" -> AppPanes!Init
         [] OTHER -> AppDelete!Init
    /\ PanelInit /\ HistoryInit /\ SearchInit /\ SidebarInit /\ EditorInit
    /\ RoutesInit
    \* A part that does not move starts in one state.
    /\ IF part = "list"
       THEN live_app = {n1, n2} /\ tagged_app = {n1}
       ELSE live_app = {n1} /\ tagged_app = {}
    /\ part \in {"panes", "delete"} \/ trash = {}
    /\ part # "notes" => live = {}
    /\ part # "routes" => acts = {"title"} /\ state = [n \in NoteIds |-> "none"]

ScreensNext ==
    \/ part = "list" /\ AppList!Next /\ UNCHANGED <<part, page>>
    \/ part = "panes" /\ AppPanes!Next /\ UNCHANGED <<part, page>>
    \/ part = "delete" /\ AppDelete!Next /\ UNCHANGED <<part, page>>
    \/ part = "comments" /\ PanelNext
       /\ UNCHANGED <<part, app, historyVars, searchVars, sidebarVars, editorVars, routeVars>>
    \/ part = "history" /\ HistoryNext
       /\ UNCHANGED <<part, app, panelVars, searchVars, sidebarVars, editorVars, routeVars>>
    \/ part = "search" /\ SearchNext
       /\ UNCHANGED <<part, app, panelVars, historyVars, sidebarVars, editorVars, routeVars>>
    \/ part = "notes" /\ SidebarNext
       /\ UNCHANGED <<part, app, panelVars, historyVars, searchVars, editorVars, routeVars>>
    \/ part = "editor" /\ EditorNext
       /\ UNCHANGED <<part, app, panelVars, historyVars, searchVars, sidebarVars, routeVars>>
    \/ part = "routes" /\ RoutesNext
       /\ UNCHANGED <<part, app, panelVars, historyVars, searchVars, sidebarVars, editorVars>>

\* TuiApp's Fairness, of the part that moves.
Moves == part \in {"list", "panes", "delete"}
AppFairness ==
    /\ WF_app(Moves /\ AppList!Handle) /\ WF_app(Moves /\ AppList!Tick)
    /\ WF_app(Moves /\ pump # AppList!Idle /\ AppList!Runs(pump))
    /\ WF_app(Moves /\ poll # AppList!Idle /\ AppList!Runs(poll))
    /\ WF_app(Moves /\ \E t \in workers : AppList!Runs(t))

ScreensSpec == ScreensInit /\ [][ScreensNext]_screenVars /\ AppFairness

ASSUME Instances ==
    CommentsAssumption /\ HistoryAssumption /\ SearchAssumption /\ SidebarAssumption
        /\ EditorAssumption /\ RoutesAssumption
        /\ AppList!AppAssumption /\ AppPanes!AppAssumption /\ AppDelete!AppAssumption

------------------------------------------------------------------------------
(* Properties: those of the components of the page as they stand, and      *)
(* those of the terminal while it moves.                                   *)

\* The type invariant of every part.
TypesOK ==
    CASE part = "list" -> AppList!TypeOK
      [] part = "panes" -> AppPanes!TypeOK
      [] part = "delete" -> AppDelete!TypeOK
      [] part = "comments" -> PanelTypeOK
      [] part = "history" -> HistoryTypeOK
      [] part = "search" -> SearchTypeOK
      [] part = "notes" -> SidebarTypeOK
      [] part = "editor" -> EditorTypeOK
      [] part = "routes" -> RoutesTypeOK

\* The terminal's list settles on what the server has.
ListSettles == Moves => AppList!ListSettles
==============================================================================
