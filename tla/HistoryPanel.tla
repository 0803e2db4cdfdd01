------------------------------ MODULE HistoryPanel ------------------------------
(***************************************************************************)
(* The history tab of an open note in the browser: the list of snapshots,  *)
(* the preview of the selected one, saving a named snapshot and restoring. *)
(* Nothing cancels or orders its requests.                                 *)
(*                                                                         *)
(* web/src/lib/components/SnapshotsPane.svelte, api/snapshots.ts.          *)
(*                                                                         *)
(* A snapshot is its identity; labels and previews are left out.  The      *)
(* server is modelled by its answers; its retention is left out.  A        *)
(* request of a pane that is gone is heard by nobody: what it may still do *)
(* on the server is TakenElsewhere.                                        *)
(***************************************************************************)
EXTENDS Naturals, FiniteSets, Nothing

CONSTANTS
    Snaps,          \* snapshots that can be taken
    First,          \* those there are at the beginning
    MaxPreviews     \* bound: previews under way at a time

HistoryAssumption ==
    /\ None \notin Snaps
    /\ First \subseteq Snaps
    /\ MaxPreviews \in Nat

VARIABLES
    taken,              \* the snapshots the server has
    list,               \* how often each snapshot is a row
    listing,            \* the listing under way
    historyError,
    selected, detail,   \* the selected row, the preview's
    previewing,         \* previewLoading
    previews,           \* previews under way
    saving,             \* the save under way
    restoring,          \* the restore under way
    undo                \* what the restores of this pane replaced

historyVars == <<taken, list, listing, historyError, selected, detail, previewing, previews,
          saving, restoring, undo>>
selection == <<selected, detail, previewing, previews>>

------------------------------------------------------------------------------
(* State.                                                                  *)

\* served: the rows as they were when the server answered.
NoRowsYet == [s \in Snaps |-> 0]
NoListing == [step |-> "idle", rows |-> {}]
Asked == [step |-> "sent", rows |-> {}]
IdleCall == [step |-> "idle", id |-> None]
Call == [step: {"idle", "sent", "served", "listing"}, id: Snaps \cup {None}]

HistoryTypeOK ==
    /\ taken \in SUBSET Snaps
    /\ list \in [Snaps -> Nat]
    /\ listing \in [step: {"idle", "sent", "served"}, rows: SUBSET Snaps]
    /\ historyError \in BOOLEAN
    /\ selected \in Snaps \cup {None} /\ detail \in Snaps \cup {None}
    /\ previewing \in BOOLEAN
    /\ previews \in SUBSET Snaps
    /\ saving \in Call /\ restoring \in Call
    /\ undo \in SUBSET Snaps

HistoryInit ==
    /\ taken = First
    /\ list = NoRowsYet /\ listing = Asked /\ historyError = FALSE
    /\ selected = None /\ detail = None /\ previewing = FALSE /\ previews = {}
    /\ saving = IdleCall /\ restoring = IdleCall /\ undo = {}

\* While the listing is awaited, or an error shown, there is no row to click.
RowsShown == listing.step = "idle" /\ ~historyError

------------------------------------------------------------------------------
(* The list.                                                               *)

ServeList ==
    /\ listing.step = "sent"
    /\ listing' = [step |-> "served", rows |-> taken]
    /\ UNCHANGED <<taken, list, historyError, selection, saving, restoring, undo>>

\* refresh() is over, well or badly; a restore that waited for it closes the
\* preview.
AfterListing ==
    IF restoring.step = "listing"
    THEN /\ selected' = None /\ detail' = None
         /\ restoring' = IdleCall
         /\ UNCHANGED <<previewing, previews>>
    ELSE UNCHANGED <<selection, restoring>>

ListArrives ==
    /\ listing.step = "served"
    /\ list' = [s \in Snaps |-> IF s \in listing.rows THEN 1 ELSE 0]
    /\ listing' = NoListing /\ historyError' = FALSE
    /\ AfterListing
    /\ UNCHANGED <<taken, saving, undo>>

ListFails ==
    /\ listing.step # "idle"
    /\ listing' = NoListing /\ historyError' = TRUE
    /\ AfterListing
    /\ UNCHANGED <<taken, list, saving, undo>>

------------------------------------------------------------------------------
(* Selecting.                                                              *)

Select(s) ==
    /\ RowsShown
    /\ list[s] > 0
    /\ selected # s
    /\ Cardinality(previews) < MaxPreviews
    /\ selected' = s /\ detail' = None /\ previewing' = TRUE
    /\ previews' = previews \cup {s}
    /\ UNCHANGED <<taken, list, listing, historyError, saving, restoring, undo>>

\* Whichever preview arrives is shown.
PreviewArrives(s) ==
    /\ s \in previews
    /\ previews' = previews \ {s}
    /\ detail' = s /\ previewing' = FALSE
    /\ UNCHANGED <<taken, list, listing, historyError, selected, saving, restoring, undo>>

PreviewFails(s) ==
    /\ s \in previews
    /\ previews' = previews \ {s}
    /\ previewing' = FALSE /\ historyError' = TRUE
    /\ UNCHANGED <<taken, list, listing, selected, detail, saving, restoring, undo>>

------------------------------------------------------------------------------
(* Saving.                                                                 *)

Save ==
    /\ saving = IdleCall
    /\ saving' = [step |-> "sent", id |-> None]
    /\ UNCHANGED <<taken, list, listing, historyError, selection, restoring, undo>>

ServeSave(s) ==
    /\ saving.step = "sent"
    /\ s \in Snaps \ taken
    /\ taken' = taken \cup {s}
    /\ saving' = [step |-> "served", id |-> s]
    /\ UNCHANGED <<list, listing, historyError, selection, restoring, undo>>

SaveArrives ==
    /\ saving.step = "served"
    /\ list' = [list EXCEPT ![saving.id] = @ + 1]
    /\ saving' = IdleCall
    /\ UNCHANGED <<taken, listing, historyError, selection, restoring, undo>>

SaveFails ==
    /\ saving # IdleCall
    /\ saving' = IdleCall /\ historyError' = TRUE
    /\ UNCHANGED <<taken, list, listing, selection, restoring, undo>>

------------------------------------------------------------------------------
(* Restoring.                                                              *)

\* The button is there once a preview is shown; it sends the selected row.
Restore ==
    /\ selected # None /\ detail # None /\ ~previewing
    /\ restoring = IdleCall
    /\ restoring' = [step |-> "sent", id |-> selected]
    /\ UNCHANGED <<taken, list, listing, historyError, selection, saving, undo>>

\* The server takes the state it replaces, p.
ServeRestore(p) ==
    /\ restoring.step = "sent"
    /\ p \in Snaps \ taken
    /\ taken' = taken \cup {p}
    /\ restoring' = [step |-> "served", id |-> p]
    /\ UNCHANGED <<list, listing, historyError, selection, saving, undo>>

\* Faulty: the list is not asked for again.
RestoredWithoutListing ==
    /\ listing' = listing
    /\ restoring' = IdleCall

\* The list is asked for again once the restore is answered.
Restored ==
    /\ listing' = Asked
    /\ restoring' = [step |-> "listing", id |-> None]

RestoreArrives ==
    /\ restoring.step = "served"
    /\ undo' = undo \cup {restoring.id}
    /\ Restored
    /\ UNCHANGED <<taken, list, historyError, selection, saving>>

RestoreFails ==
    /\ restoring.step \in {"sent", "served"}
    /\ restoring' = IdleCall /\ historyError' = TRUE
    /\ UNCHANGED <<taken, list, listing, selection, saving, undo>>

------------------------------------------------------------------------------
(* The rest of the world.                                                  *)

\* A snapshot of the scheduler, or of another session.
TakenElsewhere(s) ==
    /\ s \in Snaps \ taken
    /\ taken' = taken \cup {s}
    /\ UNCHANGED <<list, listing, historyError, selection, saving, restoring, undo>>

\* Away from the tab and back.
Remount ==
    /\ list' = NoRowsYet /\ listing' = Asked /\ historyError' = FALSE
    /\ selected' = None /\ detail' = None /\ previewing' = FALSE /\ previews' = {}
    /\ saving' = IdleCall /\ restoring' = IdleCall /\ undo' = {}
    /\ UNCHANGED taken

HistoryNext ==
    \/ ServeList \/ ListArrives \/ ListFails
    \/ Save \/ SaveArrives \/ SaveFails
    \/ Restore \/ RestoreArrives \/ RestoreFails \/ Remount
    \/ \E s \in Snaps :
        \/ Select(s) \/ PreviewArrives(s) \/ PreviewFails(s)
        \/ ServeSave(s) \/ ServeRestore(s) \/ TakenElsewhere(s)

HistorySpec == HistoryInit /\ [][HistoryNext]_historyVars

------------------------------------------------------------------------------
(* Properties.                                                             *)

\* A restore can be taken back from where it was made: the snapshot of what
\* it replaced is among the rows whenever rows are shown, whatever listings,
\* saves and previews were under way with it.
UndoOffered ==
    RowsShown /\ restoring.step \in {"idle", "sent"} =>
        \A s \in undo : list[s] > 0

==============================================================================
