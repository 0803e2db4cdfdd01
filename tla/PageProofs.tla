------------------------------ MODULE PageProofs ------------------------------
(***************************************************************************)
(* Machine-checked proofs about the components of the browser's page:      *)
(* NotesSidebar, SearchOverlay, HistoryPanel, CommentsPanel, NoteRoutes    *)
(* and EditorView, for any notes, queries, snapshots and comments, any     *)
(* number of requests under way, and any trigger, characters and length of *)
(* the text.  Each component has a part of its own: the inductive          *)
(* invariant, what keeps it, and the theorems.                             *)
(*                                                                         *)
(* In the editor, the anchor of a comment is an argument about which items *)
(* a transaction of this user or of another leaves where they were.  A     *)
(* pick needs what the letters of a text are, a recursion over the text: a *)
(* fact about every place of it is shown by its least counterexample,      *)
(* which LeastNat provides.                                                *)
(***************************************************************************)
EXTENDS NotesSidebar, SearchOverlay, HistoryPanel, CommentsPanel, NoteRoutes, EditorView,
        SequenceTheorems, WellFoundedInduction, TLAPS

------------------------------------------------------------------------------
(* NotesSidebar: the inductive invariant.                                *)

(* Polls have different numbers, and the only one that is not aborted is   *)
(* the one the next refresh aborts.                                        *)
PollInv ==
    /\ \A p, q \in polls : p.id = q.id => p = q
    /\ \A p \in polls : ~p.aborted => p.id = current

(* The rows are no newer than the server's, and what a live poll was       *)
(* answered is no older than the rows.                                     *)
AgeInv ==
    /\ rows.version <= version
    /\ \A p \in polls : p.served =>
          /\ p.rows.version <= version
          /\ ~p.aborted => p.rows.version >= rows.version

SidebarIInv == SidebarTypeOK /\ PollInv /\ AgeInv

------------------------------------------------------------------------------
(* Lemmas. *)

LEMMA SidebarInitHolds == SidebarAssumption /\ SidebarInit => SidebarIInv
<1>. SUFFICES ASSUME SidebarAssumption, SidebarInit PROVE SidebarIInv
  OBVIOUS
<1>1. 0 \in 0 .. MaxVersion
  BY DEF SidebarAssumption
<1>2. NoRows \in Rows
  BY <1>1 DEF NoRows, Rows
<1>3. NotTrashing \in [step: {"idle", "sent", "served"}, note: Notes \cup {None}]
  BY DEF NotTrashing
<1>4. SidebarTypeOK
  BY <1>1, <1>2, <1>3 DEF SidebarInit, SidebarTypeOK
<1>5. rows.version <= version
  BY DEF SidebarInit, NoRows
<1>. QED BY <1>4, <1>5 DEF SidebarInit, SidebarIInv, PollInv, AgeInv

(* Aborting the current poll leaves none that is not aborted.              *)
LEMMA AbortedArePolls ==
    ASSUME SidebarIInv
    PROVE  /\ AbortedPolls \in SUBSET Poll
           /\ \A p \in AbortedPolls : p.aborted /\ \E q \in polls : p.id = q.id
           /\ \A p, q \in AbortedPolls : p.id = q.id => p = q
           /\ \A p \in AbortedPolls : p.served => p.rows.version <= version
<1>. DEFINE F(p) == IF p.id = current THEN [p EXCEPT !.aborted = TRUE] ELSE p
<1>1. ASSUME NEW p \in polls
      PROVE  F(p) \in Poll /\ F(p).aborted /\ F(p).id = p.id
             /\ F(p).served = p.served /\ F(p).rows = p.rows
  <2>1. p \in Poll
    BY DEF SidebarIInv, SidebarTypeOK
  <2>2. CASE p.id = current
    BY <2>1, <2>2 DEF Poll
  <2>3. CASE p.id # current
    BY <2>1, <2>3 DEF SidebarIInv, PollInv
  <2>. QED BY <2>2, <2>3
<1>2. AbortedPolls = {F(p) : p \in polls}
  BY DEF AbortedPolls
<1>. HIDE DEF F
<1>3. ASSUME NEW p \in AbortedPolls, NEW q \in AbortedPolls, p.id = q.id PROVE p = q
  <2>1. PICK a \in polls, b \in polls : p = F(a) /\ q = F(b)
    BY <1>2
  <2>. QED BY <1>1, <1>3, <2>1 DEF SidebarIInv, PollInv
<1>. QED BY <1>1, <1>2, <1>3 DEF SidebarIInv, AgeInv

(* refresh() keeps the invariant, whoever calls it.                        *)
LEMMA RefreshKeeps ==
    ASSUME SidebarAssumption, SidebarIInv, Refresh, UNCHANGED <<notesServer, rows>>
    PROVE  /\ polls' \in SUBSET Poll /\ current' \in PollIds
           /\ PollInv' /\ AgeInv'
<1>1. PICK i \in PollIds :
        /\ \A p \in polls : p.id # i
        /\ polls' = AbortedPolls \cup
              {[id |-> i, aborted |-> FALSE, served |-> FALSE, rows |-> NoRows]}
        /\ current' = i
  BY DEF Refresh
<1>. DEFINE new == [id |-> i, aborted |-> FALSE, served |-> FALSE, rows |-> NoRows]
<1>2. NoRows \in Rows
  BY DEF SidebarAssumption, NoRows, Rows
<1>3. new \in Poll /\ new.id = i /\ ~new.served
  BY <1>2 DEF Poll
<1>4. polls' = AbortedPolls \cup {new} /\ version' = version /\ rows' = rows
  BY <1>1 DEF notesServer
<1>. HIDE DEF new
<1>5. \A p \in AbortedPolls : p.id # i
  BY <1>1, AbortedArePolls
<1>6. PollInv'
  BY <1>1, <1>3, <1>4, <1>5, AbortedArePolls DEF PollInv
<1>7. AgeInv'
  BY <1>3, <1>4, AbortedArePolls DEF SidebarIInv, AgeInv
<1>. QED BY <1>1, <1>3, <1>4, <1>6, <1>7, AbortedArePolls

LEMMA RefreshStepKeeps ==
    ASSUME SidebarAssumption, SidebarIInv, Start \/ Tick \/ ImportAnswer
    PROVE  SidebarIInv'
<1>1. Refresh /\ UNCHANGED <<notesServer, rows>>
  BY DEF Start, Tick, ImportAnswer
<1>2. current' \in PollIds \cup {0}
  BY <1>1, RefreshKeeps
<1>3. SidebarTypeOK'
  BY <1>1, <1>2, RefreshKeeps
     DEF SidebarIInv, SidebarTypeOK, Start, Tick, ImportAnswer, notesServer, sidebarPage
<1>. QED BY <1>1, <1>3, RefreshKeeps DEF SidebarIInv

LEMMA StopKeeps == ASSUME SidebarAssumption, SidebarIInv, Stop PROVE SidebarIInv'
<1>1. polls' = AbortedPolls /\ UNCHANGED <<notesServer, rows, sidebarPage>>
  BY DEF Stop
<1>2. SidebarTypeOK'
  BY <1>1, AbortedArePolls DEF SidebarIInv, SidebarTypeOK, Stop, notesServer, sidebarPage
<1>. QED BY <1>1, <1>2, AbortedArePolls DEF SidebarIInv, PollInv, AgeInv, notesServer

LEMMA ServePollKeeps ==
    ASSUME SidebarAssumption, SidebarIInv, NEW p \in polls, ServePoll(p) PROVE SidebarIInv'
<1>. DEFINE q == [p EXCEPT !.served = TRUE, !.rows = ServerRows]
<1>1. p \in Poll /\ version \in 0 .. MaxVersion /\ rows \in Rows
  BY DEF SidebarIInv, SidebarTypeOK
<1>2. ServerRows \in Rows /\ ServerRows.version = version
  BY DEF SidebarIInv, SidebarTypeOK, ServerRows, Rows
<1>3. q \in Poll /\ q.id = p.id /\ q.aborted = p.aborted /\ q.rows.version = version
  BY <1>1, <1>2 DEF Poll
<1>4. polls' = (polls \ {p}) \cup {q} /\ UNCHANGED <<notesServer, running, current, rows, listLoading, sidebarPage>>
  BY DEF ServePoll
<1>. HIDE DEF q
<1>5. SidebarTypeOK'
  BY <1>3, <1>4 DEF SidebarIInv, SidebarTypeOK, notesServer, sidebarPage
<1>6. PollInv'
  BY <1>3, <1>4 DEF SidebarIInv, PollInv
<1>7. version \in Nat /\ rows.version <= version
  BY <1>1 DEF SidebarIInv, AgeInv, SidebarAssumption
<1>8. AgeInv'
  BY <1>3, <1>4, <1>7 DEF SidebarIInv, AgeInv, notesServer
<1>. QED BY <1>5, <1>6, <1>8 DEF SidebarIInv

LEMMA PollArrivesKeeps ==
    ASSUME SidebarAssumption, SidebarIInv, NEW p \in polls, PollArrives(p) PROVE SidebarIInv'
<1>1. p \in Poll /\ p.rows \in Rows
  BY DEF SidebarIInv, SidebarTypeOK, Poll
<1>2. /\ polls' = polls \ {p}
      /\ rows' = IF ~p.aborted THEN p.rows ELSE rows
      /\ p.served
      /\ UNCHANGED <<notesServer, running, current, sidebarPage>>
  BY DEF PollArrives, Applies
<1>3. SidebarTypeOK'
  BY <1>1, <1>2 DEF SidebarIInv, SidebarTypeOK, PollArrives, notesServer, sidebarPage
<1>4. PollInv'
  BY <1>2 DEF SidebarIInv, PollInv
<1>5. AgeInv'
  <2>1. CASE p.aborted
    BY <1>2, <2>1 DEF SidebarIInv, AgeInv, notesServer
  <2>2. CASE ~p.aborted
    <3>1. \A q \in polls' : q.aborted
      BY <1>2, <2>2 DEF SidebarIInv, PollInv
    <3>. QED BY <1>2, <2>2, <3>1 DEF SidebarIInv, AgeInv, notesServer
  <2>. QED BY <2>1, <2>2
<1>. QED BY <1>3, <1>4, <1>5 DEF SidebarIInv

LEMMA PollFailsKeeps ==
    ASSUME SidebarAssumption, SidebarIInv, NEW p \in polls, PollFails(p) PROVE SidebarIInv'
<1>1. polls' \subseteq polls /\ UNCHANGED <<notesServer, running, current, rows, sidebarPage>>
  BY DEF PollFails
<1>2. SidebarTypeOK'
  BY <1>1 DEF SidebarIInv, SidebarTypeOK, PollFails, notesServer, sidebarPage
<1>. QED BY <1>1, <1>2 DEF SidebarIInv, PollInv, AgeInv, notesServer

(* A change of the server's rows makes no poll older.                      *)
LEMMA ChangedKeeps ==
    ASSUME SidebarAssumption, SidebarIInv, NEW l \in SUBSET Notes, NEW t \in SUBSET Notes,
           Changed(l, t), UNCHANGED listStore
    PROVE  /\ live' \in SUBSET Notes /\ tagged' \in SUBSET Notes
           /\ version' \in 0 .. MaxVersion
           /\ PollInv' /\ AgeInv'
<1>1. version \in 0 .. MaxVersion /\ version' = version + 1 /\ version < MaxVersion
  BY DEF SidebarIInv, SidebarTypeOK, Changed
<1>2. version \in Nat /\ version' \in 0 .. MaxVersion
  BY <1>1 DEF SidebarAssumption
<1>3. PollInv'
  BY DEF SidebarIInv, PollInv, listStore
<1>4. \A p \in polls : p.rows.version \in Nat
  BY DEF SidebarIInv, SidebarTypeOK, Poll, Rows
<1>5. rows.version \in Nat
  BY DEF SidebarIInv, SidebarTypeOK, Rows
<1>6. AgeInv'
  BY <1>1, <1>2, <1>4, <1>5 DEF SidebarIInv, AgeInv, listStore
<1>. QED BY <1>2, <1>3, <1>6 DEF Changed

LEMMA ServerStepKeeps ==
    ASSUME SidebarAssumption, SidebarIInv, NEW n \in Notes,
           ServeTrash \/ ServeImport(n) \/ Elsewhere(n)
    PROVE  SidebarIInv'
<1>1. live \in SUBSET Notes /\ tagged \in SUBSET Notes
  BY DEF SidebarIInv, SidebarTypeOK
<1>2. CASE ServeTrash
  <2>1. Changed(live \ {trashing.note}, tagged) /\ UNCHANGED listStore
    BY <1>2 DEF ServeTrash
  <2>2. live \ {trashing.note} \in SUBSET Notes
    BY <1>1
  <2>3. SidebarTypeOK'
    BY <1>1, <1>2, <2>1, <2>2, ChangedKeeps DEF SidebarIInv, SidebarTypeOK, ServeTrash, listStore
  <2>. QED BY <1>1, <2>1, <2>2, <2>3, ChangedKeeps DEF SidebarIInv
<1>3. CASE ServeImport(n)
  <2>1. Changed(live \cup {n}, tagged) /\ UNCHANGED listStore
    BY <1>3 DEF ServeImport
  <2>2. live \cup {n} \in SUBSET Notes
    BY <1>1
  <2>3. SidebarTypeOK'
    BY <1>1, <1>3, <2>1, <2>2, ChangedKeeps DEF SidebarIInv, SidebarTypeOK, ServeImport, listStore
  <2>. QED BY <1>1, <2>1, <2>2, <2>3, ChangedKeeps DEF SidebarIInv
<1>4. CASE Elsewhere(n)
  <2>1. PICK l \in SUBSET Notes, t \in SUBSET Notes : Changed(l, t)
    BY <1>1, <1>4 DEF Elsewhere
  <2>2. UNCHANGED <<listStore, sidebarPage>>
    BY <1>4 DEF Elsewhere
  <2>3. SidebarTypeOK'
    BY <2>1, <2>2, ChangedKeeps DEF SidebarIInv, SidebarTypeOK, listStore, sidebarPage
  <2>. QED BY <2>1, <2>2, <2>3, ChangedKeeps DEF SidebarIInv
<1>. QED BY <1>2, <1>3, <1>4

(* What the user does to the page touches neither store nor server.        *)
LEMMA PageStepKeeps ==
    ASSUME SidebarAssumption, SidebarIInv, NEW n \in Notes \cup {None},
           \/ ToggleTag \/ CancelTrash \/ ConfirmTrash \/ TrashAnswer
           \/ TrashFails \/ Import \/ ImportFails \/ Visit(n)
           \/ n \in Notes /\ AskTrash(n)
    PROVE  SidebarIInv'
<1>1. UNCHANGED <<notesServer, listStore>>
  BY DEF ToggleTag, CancelTrash, ConfirmTrash, TrashAnswer, TrashFails,
         Import, ImportFails, Visit, AskTrash
<1>2. /\ path' \in Notes \cup {None} /\ target' \in Notes \cup {None}
      /\ trashing' \in [step: {"idle", "sent", "served"}, note: Notes \cup {None}]
      /\ importing' \in {"idle", "sent", "served"}
  BY DEF SidebarIInv, SidebarTypeOK, ToggleTag, CancelTrash, ConfirmTrash,
         TrashAnswer, TrashFails, Import, ImportFails, Visit, AskTrash, NotTrashing
<1>3. filter' \in BOOLEAN
  <2>1. CASE ToggleTag
    <3>1. filter' = ~filter
      BY <2>1 DEF ToggleTag
    <3>. QED BY <3>1
  <2>2. CASE filter' = filter
    BY <2>2 DEF SidebarIInv, SidebarTypeOK
  <2>. QED BY <2>1, <2>2 DEF CancelTrash, ConfirmTrash, TrashAnswer, TrashFails,
              Import, ImportFails, Visit, AskTrash
<1>4. SidebarTypeOK'
  BY <1>1, <1>2, <1>3 DEF SidebarIInv, SidebarTypeOK, notesServer, listStore
<1>. QED BY <1>1, <1>4 DEF SidebarIInv, PollInv, AgeInv, notesServer, listStore

LEMMA SidebarStutterKeeps == ASSUME SidebarIInv, UNCHANGED sidebarVars PROVE SidebarIInv'
BY DEF SidebarIInv, SidebarTypeOK, PollInv, AgeInv, sidebarVars

------------------------------------------------------------------------------
(* Theorems. *)

(* Every step keeps the invariant.                                         *)
LEMMA SidebarStepKeeps == SidebarAssumption /\ SidebarIInv /\ [SidebarNext]_sidebarVars => SidebarIInv'
<1>. SUFFICES ASSUME SidebarAssumption, SidebarIInv, [SidebarNext]_sidebarVars PROVE SidebarIInv'
  OBVIOUS
<1>1. CASE UNCHANGED sidebarVars
  BY <1>1, SidebarStutterKeeps
<1>2. CASE Start \/ Tick \/ ImportAnswer
  BY <1>2, RefreshStepKeeps
<1>3. CASE Stop
  BY <1>3, StopKeeps
<1>4. ASSUME NEW p \in polls, ServePoll(p) PROVE SidebarIInv'
  BY <1>4, ServePollKeeps
<1>5. ASSUME NEW p \in polls, PollArrives(p) PROVE SidebarIInv'
  BY <1>5, PollArrivesKeeps
<1>6. ASSUME NEW p \in polls, PollFails(p) PROVE SidebarIInv'
  BY <1>6, PollFailsKeeps
<1>7. CASE ServeTrash
  <2>1. trashing.note \in live
    BY <1>7 DEF ServeTrash
  <2>2. trashing.note \in Notes
    BY <2>1 DEF SidebarIInv, SidebarTypeOK
  <2>. QED BY <1>7, <2>2, ServerStepKeeps
<1>8. ASSUME NEW n \in Notes, ServeImport(n) \/ Elsewhere(n) PROVE SidebarIInv'
  BY <1>8, ServerStepKeeps
<1>9. CASE \/ ToggleTag \/ CancelTrash \/ ConfirmTrash \/ TrashAnswer
           \/ TrashFails \/ Import \/ ImportFails
  <2>1. None \in Notes \cup {None}
    OBVIOUS
  <2>. QED BY <1>9, <2>1, PageStepKeeps
<1>10. ASSUME NEW n \in Notes \cup {None}, Visit(n) PROVE SidebarIInv'
  BY <1>10, PageStepKeeps
<1>11. ASSUME NEW n \in Notes, AskTrash(n) PROVE SidebarIInv'
  BY <1>11, PageStepKeeps
<1>. QED BY <1>1, <1>2, <1>3, <1>4, <1>5, <1>6, <1>7, <1>8, <1>9, <1>10, <1>11
         DEF SidebarNext

(* The invariant holds of every behaviour of the list and its store.       *)
THEOREM SidebarInvariant == SidebarAssumption => (SidebarSpec => []SidebarIInv)
<1>. SUFFICES ASSUME SidebarAssumption PROVE SidebarSpec => []SidebarIInv
  OBVIOUS
<1>. QED BY SidebarInitHolds, SidebarStepKeeps, PTL DEF SidebarSpec

(* The store and the page hold values of their types.                      *)
THEOREM SidebarTypeCorrect == SidebarAssumption => (SidebarSpec => []SidebarTypeOK)
<1>1. SidebarIInv => SidebarTypeOK
  BY DEF SidebarIInv
<1>. QED BY <1>1, SidebarInvariant, PTL

(* The rows change when a poll arrives and at no other step.               *)
LEMMA OnlyAnswersChangeRows ==
    ASSUME SidebarAssumption, SidebarIInv, [SidebarNext]_sidebarVars
    PROVE  rows'.version >= rows.version
<1>0. rows.version \in Nat
  BY DEF SidebarIInv, SidebarTypeOK, Rows
<1>1. ASSUME NEW p \in polls, PollArrives(p) PROVE rows'.version >= rows.version
  BY <1>0, <1>1 DEF SidebarIInv, AgeInv, PollArrives, Applies
<1>2. ASSUME rows' = rows PROVE rows'.version >= rows.version
  BY <1>0, <1>2
<1>3. (\E p \in polls : PollArrives(p)) \/ rows' = rows
  BY DEF SidebarNext, sidebarVars, listStore, Start, Tick, Stop, ToggleTag, CancelTrash, ConfirmTrash,
         ServeTrash, TrashAnswer, TrashFails, Import, ImportAnswer, ImportFails,
         ServePoll, PollFails, AskTrash, ServeImport, Elsewhere, Visit
<1>. QED BY <1>1, <1>2, <1>3

(* The list never goes back to older rows, however many polls overlap and  *)
(* in whatever order they are answered.                                    *)
THEOREM NeverGoesBack == SidebarAssumption => (SidebarSpec => ListNeverGoesBack)
<1>. SUFFICES ASSUME SidebarAssumption PROVE SidebarSpec => ListNeverGoesBack
  OBVIOUS
<1>1. SidebarIInv /\ [SidebarNext]_sidebarVars => [rows'.version >= rows.version]_sidebarVars
  BY OnlyAnswersChangeRows
<1>2. SidebarSpec => []SidebarIInv
  BY SidebarInvariant
<1>. QED BY <1>1, <1>2, PTL DEF SidebarSpec, ListNeverGoesBack

------------------------------------------------------------------------------
(* SearchOverlay: the inductive invariant.                               *)

(* A search for the text in the box that is still to be answered.          *)
Awaited == \E r \in requests : ~r.aborted /\ r.text = query

(* The box is empty while it is closed.  A text in it waits in the         *)
(* debounce, or was searched for last and awaits its answer, or had it.    *)
BoxInv ==
    /\ ~open => query = None
    /\ open /\ query # None =>
          IF timer.set
          THEN timer.text = query
          ELSE lastQueryRun = query /\ (Awaited \/ error \/ hits = query)

SearchIInv == SearchTypeOK /\ BoxInv

------------------------------------------------------------------------------
(* Lemmas. *)

LEMMA SearchInitHolds == SearchInit => SearchIInv
<1>. SUFFICES ASSUME SearchInit PROVE SearchIInv
  OBVIOUS
<1>1. timer \in [set: BOOLEAN, text: SearchText]
  BY DEF SearchInit, NoTimer, SearchText
<1>2. SearchTypeOK
  BY <1>1 DEF SearchInit, SearchTypeOK, SearchText
<1>3. BoxInv
  BY DEF SearchInit, BoxInv
<1>. QED BY <1>2, <1>3 DEF SearchIInv

(* Aborting a request leaves a request.                                    *)
LEMMA AbortedAreRequests == ASSUME SearchTypeOK PROVE AbortedRequests(requests) \in SUBSET SearchRequest
<1>. DEFINE F(r) == IF r.id = lastAbort THEN [r EXCEPT !.aborted = TRUE] ELSE r
<1>1. ASSUME NEW r \in requests PROVE F(r) \in SearchRequest
  <2>1. r \in SearchRequest
    BY DEF SearchTypeOK
  <2>2. CASE r.id = lastAbort
    BY <2>1, <2>2 DEF SearchRequest
  <2>3. CASE r.id # lastAbort
    BY <2>1, <2>3
  <2>. QED BY <2>2, <2>3
<1>2. AbortedRequests(requests) = {F(r) : r \in requests}
  BY DEF AbortedRequests
<1>. HIDE DEF F
<1>. QED BY <1>1, <1>2

LEMMA OpenKeeps == ASSUME SearchIInv, Open PROVE SearchIInv'
BY DEF SearchIInv, SearchTypeOK, BoxInv, Open, results

LEMMA CloseKeeps == ASSUME SearchIInv, Close PROVE SearchIInv'
<1>1. requests' \in SUBSET SearchRequest
  BY AbortedAreRequests DEF SearchIInv, Close
<1>2. SearchTypeOK'
  BY <1>1 DEF SearchIInv, SearchTypeOK, Close, SearchText
<1>. QED BY <1>2 DEF SearchIInv, BoxInv, Close

LEMMA TypeKeeps == ASSUME SearchIInv, NEW q \in SearchText, Type(q) PROVE SearchIInv'
<1>1. timer' \in [set: BOOLEAN, text: SearchText] /\ timer'.set /\ timer'.text = q
  BY DEF Type
<1>2. SearchTypeOK'
  BY <1>1 DEF SearchIInv, SearchTypeOK, Type, results
<1>. QED BY <1>1, <1>2 DEF SearchIInv, BoxInv, Type

(* The debounce fires for an empty text only while the box is empty.       *)
LEMMA RunEmptyKeeps == ASSUME SearchIInv, RunEmpty PROVE SearchIInv'
<1>1. SearchTypeOK'
  BY DEF SearchIInv, SearchTypeOK, RunEmpty, NoTimer, SearchText
<1>. QED BY <1>1 DEF SearchIInv, BoxInv, RunEmpty

LEMMA RunSearchKeeps == ASSUME SearchIInv, RunSearch PROVE SearchIInv'
<1>1. PICK i \in RequestIds \ InUse :
        /\ requests' = AbortedRequests(requests) \cup
                {[id |-> i, text |-> timer.text, aborted |-> FALSE]}
        /\ lastAbort' = i
  BY DEF RunSearch
<1>. DEFINE new == [id |-> i, text |-> timer.text, aborted |-> FALSE]
<1>2. timer.text \in Queries
  BY DEF SearchIInv, SearchTypeOK, RunSearch, SearchText
<1>3. new \in SearchRequest /\ ~new.aborted /\ new.text = timer.text
  BY <1>2 DEF SearchRequest
<1>4. requests' = AbortedRequests(requests) \cup {new}
  BY <1>1
<1>. HIDE DEF new
<1>5. SearchTypeOK'
  <2>1. requests' \in SUBSET SearchRequest
    BY <1>3, <1>4, AbortedAreRequests DEF SearchIInv
  <2>2. timer' \in [set: BOOLEAN, text: SearchText]
    BY DEF RunSearch, NoTimer, SearchText
  <2>. QED BY <1>1, <1>2, <2>1, <2>2 DEF SearchIInv, SearchTypeOK, RunSearch, SearchText
<1>6. BoxInv'
  <2>1. ~open => query' = None
    BY DEF SearchIInv, BoxInv, RunSearch
  <2>2. ASSUME open, query # None
        PROVE  lastQueryRun' = query' /\ Awaited'
    BY <1>3, <1>4, <2>2 DEF SearchIInv, BoxInv, RunSearch, Awaited
  <2>. QED BY <2>1, <2>2 DEF BoxInv, RunSearch, NoTimer
<1>. QED BY <1>5, <1>6 DEF SearchIInv

LEMMA HitsArriveKeeps == ASSUME SearchIInv, NEW r \in requests, HitsArrive(r) PROVE SearchIInv'
<1>1. r \in SearchRequest /\ r.text \in Queries
  BY DEF SearchIInv, SearchTypeOK, SearchRequest
<1>2. /\ requests' = requests \ {r}
      /\ UNCHANGED <<open, query, timer, lastAbort, lastQueryRun>>
  BY DEF HitsArrive, Settle
<1>3. SearchTypeOK'
  <2>1. loading' \in BOOLEAN
    <3>1. loading' = (loading /\ lastQueryRun # r.text)
      BY DEF HitsArrive, Settle
    <3>. QED BY <3>1
  <2>2. hits' \in SearchText /\ error' \in BOOLEAN
    BY <1>1 DEF SearchIInv, SearchTypeOK, HitsArrive, SearchText
  <2>. QED BY <1>2, <2>1, <2>2 DEF SearchIInv, SearchTypeOK
<1>4. BoxInv'
  <2>1. ASSUME open, query # None, ~timer.set
        PROVE  Awaited' \/ error' \/ hits' = query
    <3>1. lastQueryRun = query /\ (Awaited \/ error \/ hits = query)
      BY <2>1 DEF SearchIInv, BoxInv
    <3>2. CASE Commits(r)
      BY <3>1, <3>2 DEF HitsArrive, Commits
    <3>3. CASE ~Commits(r)
      <4>1. UNCHANGED <<hits, error>>
        BY <3>3 DEF HitsArrive
      <4>2. Awaited => Awaited'
        BY <1>2, <3>1, <3>3 DEF Awaited, Commits
      <4>. QED BY <3>1, <4>1, <4>2
    <3>. QED BY <3>2, <3>3
  <2>. QED BY <1>2, <2>1 DEF SearchIInv, BoxInv
<1>. QED BY <1>3, <1>4 DEF SearchIInv

LEMMA SearchFailsKeeps == ASSUME SearchIInv, NEW r \in requests, SearchFails(r) PROVE SearchIInv'
<1>1. /\ requests' = requests \ {r}
      /\ UNCHANGED <<open, query, timer, lastAbort, lastQueryRun>>
      /\ hits' = None /\ error' = TRUE
  BY DEF SearchFails, Settle
<1>2. loading' \in BOOLEAN
  <2>1. loading' = (loading /\ lastQueryRun # r.text)
    BY DEF SearchFails, Settle
  <2>. QED BY <2>1
<1>3. SearchTypeOK'
  BY <1>1, <1>2 DEF SearchIInv, SearchTypeOK, SearchText
<1>4. BoxInv'
  BY <1>1 DEF SearchIInv, BoxInv
<1>. QED BY <1>3, <1>4 DEF SearchIInv

LEMMA SearchStutterKeeps == ASSUME SearchIInv, UNCHANGED searchVars PROVE SearchIInv'
BY DEF SearchIInv, SearchTypeOK, BoxInv, Awaited, searchVars, results

------------------------------------------------------------------------------
(* Theorems. *)

(* Every step keeps the invariant.                                         *)
LEMMA SearchStepKeeps == SearchIInv /\ [SearchNext]_searchVars => SearchIInv'
<1>. SUFFICES ASSUME SearchIInv, [SearchNext]_searchVars PROVE SearchIInv'
  OBVIOUS
<1>1. ASSUME NEW q \in SearchText, Type(q) PROVE SearchIInv'
  BY <1>1, TypeKeeps
<1>2. ASSUME NEW r \in requests, HitsArrive(r) PROVE SearchIInv'
  BY <1>2, HitsArriveKeeps
<1>3. ASSUME NEW r \in requests, SearchFails(r) PROVE SearchIInv'
  BY <1>3, SearchFailsKeeps
<1>. QED BY <1>1, <1>2, <1>3, OpenKeeps, CloseKeeps, RunEmptyKeeps, RunSearchKeeps,
            SearchStutterKeeps DEF SearchNext

(* The invariant holds of every behaviour of the overlay.                  *)
THEOREM SearchInvariant == SearchSpec => []SearchIInv
<1>. QED BY SearchInitHolds, SearchStepKeeps, PTL DEF SearchSpec

(* The overlay holds values of their types.                                *)
THEOREM SearchTypeCorrect == SearchSpec => []SearchTypeOK
<1>1. SearchIInv => SearchTypeOK
  BY DEF SearchIInv
<1>. QED BY <1>1, SearchInvariant, PTL

(* Once every search is settled, the hits on screen are those of the text  *)
(* in the box, in whatever order the answers came.                         *)
THEOREM HitsStayHonest == SearchSpec => []HitsMatchQuery
<1>1. SearchIInv => HitsMatchQuery
  BY DEF SearchIInv, BoxInv, Awaited, HitsMatchQuery
<1>. QED BY <1>1, SearchInvariant, PTL

------------------------------------------------------------------------------
(* HistoryPanel: the inductive invariant.                                  *)

(* What a restore replaced stays on the server.                            *)
KeptInv ==
    /\ undo \subseteq taken
    /\ restoring.step = "served" => restoring.id \in taken

(* A listing and a restore are never under way together, and while the     *)
(* first listing is there is no row to restore.                            *)
TurnInv ==
    listing.step # "idle" =>
        /\ restoring.step \notin {"sent", "served"}
        /\ restoring.step = "listing" \/ selected = None

(* A listing that was answered has every row to undo, and so has the list. *)
UndoInv ==
    /\ listing.step = "served" => undo \subseteq listing.rows
    /\ listing.step = "idle" /\ ~historyError => \A s \in undo : list[s] > 0

HistoryIInv == HistoryTypeOK /\ KeptInv /\ TurnInv /\ UndoInv

------------------------------------------------------------------------------
(* HistoryPanel: lemmas.                                                   *)

LEMMA HistoryInitHolds == HistoryAssumption /\ HistoryInit => HistoryIInv
<1>. SUFFICES ASSUME HistoryAssumption, HistoryInit PROVE HistoryIInv
  OBVIOUS
<1>1. HistoryTypeOK
  BY DEF HistoryAssumption, HistoryInit, HistoryTypeOK, NoRowsYet, Asked, IdleCall, Call
<1>. QED BY <1>1 DEF HistoryInit, HistoryIInv, KeptInv, TurnInv, UndoInv, Asked, IdleCall

LEMMA ServeListKeeps == ASSUME HistoryIInv, ServeList PROVE HistoryIInv'
BY DEF ServeList, selection, HistoryIInv, HistoryTypeOK, KeptInv, TurnInv, UndoInv

(* The end of a listing leaves the selection and the restore well-typed,   *)
(* and no restore waits for it any more.                                   *)
LEMMA ListingEnds ==
    ASSUME HistoryIInv, AfterListing
    PROVE  /\ selected' \in Snaps \cup {None} /\ detail' \in Snaps \cup {None}
           /\ previewing' = previewing /\ previews' = previews
           /\ restoring' \in Call
           /\ restoring'.step = "served" => restoring' = restoring
BY DEF AfterListing, selection, HistoryIInv, HistoryTypeOK, IdleCall, Call

LEMMA ListArrivesKeeps == ASSUME HistoryIInv, ListArrives PROVE HistoryIInv'
<1>1. list' \in [Snaps -> Nat] /\ \A s \in listing.rows : s \in Snaps => list'[s] > 0
  BY DEF ListArrives
<1>2. undo \subseteq Snaps /\ undo \subseteq listing.rows
  BY DEF ListArrives, HistoryIInv, HistoryTypeOK, UndoInv
<1>3. HistoryTypeOK'
  BY <1>1, ListingEnds DEF ListArrives, NoListing, HistoryIInv, HistoryTypeOK
<1>4. KeptInv' /\ TurnInv'
  BY ListingEnds DEF ListArrives, NoListing, HistoryIInv, KeptInv, TurnInv
<1>5. UndoInv'
  BY <1>1, <1>2 DEF ListArrives, NoListing, UndoInv
<1>. QED BY <1>3, <1>4, <1>5 DEF HistoryIInv

LEMMA ListFailsKeeps == ASSUME HistoryIInv, ListFails PROVE HistoryIInv'
<1>1. HistoryTypeOK'
  BY ListingEnds DEF ListFails, NoListing, HistoryIInv, HistoryTypeOK
<1>2. KeptInv' /\ TurnInv'
  BY ListingEnds DEF ListFails, NoListing, HistoryIInv, KeptInv, TurnInv
<1>3. UndoInv'
  BY DEF ListFails, NoListing, UndoInv
<1>. QED BY <1>1, <1>2, <1>3 DEF HistoryIInv

LEMMA SelectKeeps == ASSUME HistoryIInv, NEW s \in Snaps, Select(s) PROVE HistoryIInv'
BY DEF Select, RowsShown, HistoryIInv, HistoryTypeOK, KeptInv, TurnInv, UndoInv

LEMMA PreviewKeeps ==
    ASSUME HistoryIInv, NEW s \in Snaps, PreviewArrives(s) \/ PreviewFails(s)
    PROVE  HistoryIInv'
BY DEF PreviewArrives, PreviewFails, HistoryIInv, HistoryTypeOK, KeptInv, TurnInv, UndoInv

LEMMA SaveKeeps ==
    ASSUME HistoryIInv, Save \/ SaveFails PROVE HistoryIInv'
<1>1. saving' \in Call
  BY DEF Save, SaveFails, IdleCall, Call
<1>. QED BY <1>1 DEF Save, SaveFails, selection, HistoryIInv, HistoryTypeOK, KeptInv,
                    TurnInv, UndoInv

LEMMA SaveArrivesKeeps == ASSUME HistoryIInv, SaveArrives PROVE HistoryIInv'
<1>1. saving' \in Call
  BY DEF SaveArrives, IdleCall, Call
<1>l. list \in [Snaps -> Nat] /\ list' = [list EXCEPT ![saving.id] = @ + 1]
  BY DEF SaveArrives, HistoryIInv, HistoryTypeOK
<1>a. \A s \in Snaps : list'[s] = IF s = saving.id THEN list[s] + 1 ELSE list[s]
  BY <1>l
<1>b. \A s \in Snaps : list'[s] \in Nat /\ (list[s] > 0 => list'[s] > 0)
  BY <1>a, <1>l
<1>2. list' \in [Snaps -> Nat]
  BY <1>b, <1>l
<1>3. \A s \in Snaps : list[s] > 0 => list'[s] > 0
  BY <1>b
<1>4. UndoInv'
  BY <1>3 DEF SaveArrives, HistoryIInv, HistoryTypeOK, UndoInv
<1>. QED BY <1>1, <1>2, <1>4 DEF SaveArrives, selection, HistoryIInv, HistoryTypeOK, KeptInv,
                    TurnInv

LEMMA TakenKeeps ==
    ASSUME HistoryIInv, NEW s \in Snaps, ServeSave(s) \/ ServeRestore(s) \/ TakenElsewhere(s)
    PROVE  HistoryIInv'
<1>1. HistoryTypeOK'
  BY DEF ServeSave, ServeRestore, TakenElsewhere, selection, HistoryIInv, HistoryTypeOK, Call
<1>2. KeptInv' /\ TurnInv' /\ UndoInv'
  BY DEF ServeSave, ServeRestore, TakenElsewhere, selection, HistoryIInv, HistoryTypeOK,
         KeptInv, TurnInv, UndoInv
<1>. QED BY <1>1, <1>2 DEF HistoryIInv

LEMMA RestoreKeeps == ASSUME HistoryIInv, Restore PROVE HistoryIInv'
<1>1. restoring' \in Call
  BY DEF Restore, HistoryIInv, HistoryTypeOK, Call
<1>2. listing.step = "idle"
  BY DEF Restore, IdleCall, HistoryIInv, TurnInv
<1>. QED BY <1>1, <1>2 DEF Restore, selection, HistoryIInv, HistoryTypeOK, KeptInv, TurnInv, UndoInv

(* A restore that is answered asks for a new listing, which will have what *)
(* it replaced.                                                            *)
LEMMA RestoreArrivesKeeps == ASSUME HistoryIInv, RestoreArrives PROVE HistoryIInv'
<1>1. restoring' \in Call /\ listing' \in [step: {"idle", "sent", "served"}, rows: SUBSET Snaps]
  BY DEF RestoreArrives, Restored, Asked, Call
<1>2. undo' \subseteq taken
  BY DEF RestoreArrives, HistoryIInv, KeptInv
<1>3. HistoryTypeOK'
  BY <1>1, <1>2 DEF RestoreArrives, selection, HistoryIInv, HistoryTypeOK
<1>. QED BY <1>2, <1>3 DEF RestoreArrives, Restored, Asked, selection, HistoryIInv, KeptInv,
                    TurnInv, UndoInv

LEMMA RestoreFailsKeeps == ASSUME HistoryIInv, RestoreFails PROVE HistoryIInv'
<1>1. restoring' \in Call
  BY DEF RestoreFails, IdleCall, Call
<1>. QED BY <1>1 DEF RestoreFails, IdleCall, selection, HistoryIInv, HistoryTypeOK, KeptInv,
                    TurnInv, UndoInv

LEMMA RemountKeeps == ASSUME HistoryIInv, Remount PROVE HistoryIInv'
<1>1. HistoryTypeOK'
  BY DEF Remount, NoRowsYet, Asked, IdleCall, Call, HistoryIInv, HistoryTypeOK
<1>. QED BY <1>1 DEF Remount, Asked, IdleCall, HistoryIInv, KeptInv, TurnInv, UndoInv

LEMMA HistoryStutterKeeps == ASSUME HistoryIInv, UNCHANGED historyVars PROVE HistoryIInv'
BY DEF historyVars, HistoryIInv, HistoryTypeOK, KeptInv, TurnInv, UndoInv

LEMMA HistoryStepKeeps == HistoryIInv /\ [HistoryNext]_historyVars => HistoryIInv'
BY ServeListKeeps, ListArrivesKeeps, ListFailsKeeps, SelectKeeps, PreviewKeeps, SaveKeeps,
   SaveArrivesKeeps, TakenKeeps, RestoreKeeps, RestoreArrivesKeeps, RestoreFailsKeeps,
   RemountKeeps, HistoryStutterKeeps DEF HistoryNext

------------------------------------------------------------------------------
(* HistoryPanel: theorems.                                                 *)

\* The inductive invariant of the history tab.
THEOREM HistoryInvariant == HistoryAssumption => (HistorySpec => []HistoryIInv)
<1>. SUFFICES ASSUME HistoryAssumption PROVE HistorySpec => []HistoryIInv
  OBVIOUS
<1>. QED BY HistoryInitHolds, HistoryStepKeeps, PTL DEF HistorySpec

\* The history tab's state has the shape of SnapshotsPane.svelte's.
THEOREM HistoryTypeCorrect == HistoryAssumption => (HistorySpec => []HistoryTypeOK)
<1>. SUFFICES ASSUME HistoryAssumption PROVE HistorySpec => []HistoryTypeOK
  OBVIOUS
<1>1. HistoryIInv => HistoryTypeOK
  BY DEF HistoryIInv
<1>. QED BY <1>1, HistoryInvariant, PTL

\* A restore can be taken back from where it was made (SnapshotsPane.svelte):
\* whenever rows are shown, the snapshot of what it replaced is among them.
THEOREM UndoStaysOffered == HistoryAssumption => (HistorySpec => []UndoOffered)
<1>. SUFFICES ASSUME HistoryAssumption PROVE HistorySpec => []UndoOffered
  OBVIOUS
<1>1. HistoryIInv => UndoOffered
  BY DEF HistoryIInv, UndoInv, UndoOffered, RowsShown
<1>. QED BY <1>1, HistoryInvariant, PTL

------------------------------------------------------------------------------
(* CommentsPanel: the inductive invariant.                                 *)

(* The rows a listing has, one of each, and what it would have now.        *)
RowsOf(R, include) ==
    [d \in Dto |->
        IF \/ R[d.id] = "open" /\ ~d.resolved
           \/ include /\ R[d.id] = "resolved" /\ d.resolved
        THEN 1 ELSE 0]
Rebuilt == RowsOf(commentRows, store.include)

(* A request that is alone is the only one under way.  All but a listing   *)
(* are about a comment, and a post or a reply is about a new one.          *)
RequestInv ==
    \A s \in Busy :
        /\ reqs[s].alone => \A u \in Busy : u = s
        /\ reqs[s].op # "list" => reqs[s].id \in Comments
        /\ reqs[s].op \in {"post", "reply"} /\ reqs[s].alone /\ ~reqs[s].served =>
              commentRows[reqs[s].id] = "none"

(* A listing that is alone asks for what the store wants, and was answered *)
(* with what the server has.  A store that nobody looks at is a new one,   *)
(* which hears of no request.                                              *)
ListingInv ==
    /\ ~paneOn /\ ~editorOn => store.loading /\ \A s \in Busy : reqs[s].dead
    /\ \A s \in Busy : reqs[s].op = "list" /\ reqs[s].alone /\ ~reqs[s].dead =>
          /\ reqs[s].include = store.include
          /\ reqs[s].served => Listing(reqs[s].answer) = Rebuilt

(* What the answer to a request does to the store.                         *)
Applied(r, l) ==
    CASE r.op \in {"post", "reply"} -> InsertLocal(l, [id |-> r.id, resolved |-> FALSE])
      [] r.op = "resolve" -> UpdateLocal(l, [id |-> r.id, resolved |-> TRUE])
      [] r.op = "reopen"  -> UpdateLocal(l, [id |-> r.id, resolved |-> FALSE])
      [] r.op = "delete"  -> RemoveLocal(l, r.id)
      [] OTHER            -> l

(* The store agrees with the server until a request is served, and will    *)
(* again once the answer is applied, or a listing follows it.              *)
Agrees(r) ==
    IF r.served
    THEN (r.op = "resolve" /\ ~store.include) \/ Applied(r, store.list) = Rebuilt
    ELSE /\ store.list = Rebuilt
         /\ r.op = "resolve" => commentRows[r.id] = "open"
         /\ r.op = "reopen" => commentRows[r.id] = "resolved" /\ store.include

SerialInv ==
    serial /\ ~store.loading /\ ~store.error =>
        /\ \A s \in Busy : ~reqs[s].dead
        /\ Busy = {} => store.list = Rebuilt
        /\ \A s \in Busy : reqs[s].alone => Agrees(reqs[s])

PanelIInv == PanelTypeOK /\ RequestInv /\ ListingInv /\ SerialInv

------------------------------------------------------------------------------
(* CommentsPanel: lemmas about lists of rows.                              *)

RowStates == {"none", "open", "resolved", "gone"}

LEMMA RowsAreCounts ==
    ASSUME NEW R, NEW include PROVE RowsOf(R, include) \in [Dto -> Nat]
BY DEF RowsOf

LEMMA SameRows ==
    ASSUME NEW f \in [Dto -> Nat], NEW g \in [Dto -> Nat], \A d \in Dto : f[d] = g[d]
    PROVE  f = g
OBVIOUS

(* A listing that is served now has a row for each visible comment.        *)
LEMMA ListingIsRows ==
    ASSUME PanelTypeOK, NEW include \in BOOLEAN
    PROVE  /\ {DtoOf(c) : c \in Visible(include)} \in SUBSET Dto
           /\ Listing({DtoOf(c) : c \in Visible(include)}) = RowsOf(commentRows, include)
<1>. DEFINE A == {DtoOf(c) : c \in Visible(include)}
<1>0. ASSUME NEW c \in Comments PROVE DtoOf(c) \in Dto
  BY DEF DtoOf, Dto
<1>1. A \in SUBSET Dto
  BY <1>0 DEF Visible
<1>2. ASSUME NEW d \in Dto
      PROVE  d \in A <=> \/ commentRows[d.id] = "open" /\ ~d.resolved
                         \/ include /\ commentRows[d.id] = "resolved" /\ d.resolved
  <2>1. d.id \in Comments /\ d.resolved \in BOOLEAN /\ d = [id |-> d.id, resolved |-> d.resolved]
    BY DEF Dto
  <2>2. d \in A <=> d.id \in Visible(include) /\ d = DtoOf(d.id)
    BY <2>1 DEF DtoOf
  <2>3. d = DtoOf(d.id) <=> d.resolved = (commentRows[d.id] = "resolved")
    BY <2>1 DEF DtoOf
  <2>4. d.id \in Visible(include) <=>
            commentRows[d.id] = "open" \/ (include /\ commentRows[d.id] = "resolved")
    BY <2>1 DEF Visible
  <2>. QED BY <2>1, <2>2, <2>3, <2>4
<1>. QED BY <1>1, <1>2 DEF Listing, RowsOf

LEMMA PostedRows ==
    ASSUME NEW R \in [Comments -> RowStates], NEW include \in BOOLEAN,
           NEW c \in Comments, R[c] = "none"
    PROVE  RowsOf([R EXCEPT ![c] = "open"], include)
               = InsertLocal(RowsOf(R, include), [id |-> c, resolved |-> FALSE])
<1>. DEFINE d0 == [id |-> c, resolved |-> FALSE]
            S == [R EXCEPT ![c] = "open"]
<1>1. d0 \in Dto /\ RowsOf(R, include)[d0] = 0
  BY DEF Dto, RowsOf
<1>2. ASSUME NEW d \in Dto
      PROVE  RowsOf(S, include)[d]
                 = IF d = d0 THEN 1 ELSE RowsOf(R, include)[d]
  <2>1. d.id \in Comments /\ d.resolved \in BOOLEAN /\ d = [id |-> d.id, resolved |-> d.resolved]
    BY DEF Dto
  <2>2. CASE d.id # c
    BY <2>1, <2>2 DEF RowsOf
  <2>3. CASE d.id = c
    BY <2>1, <2>3 DEF RowsOf
  <2>. QED BY <2>2, <2>3
<1>3. RowsOf(S, include) \in [Dto -> Nat] /\ RowsOf(R, include) \in [Dto -> Nat]
  BY RowsAreCounts
<1>4. InsertLocal(RowsOf(R, include), d0) \in [Dto -> Nat]
  BY <1>1, <1>3 DEF InsertLocal
<1>5. \A d \in Dto : InsertLocal(RowsOf(R, include), d0)[d]
                         = IF d = d0 THEN 1 ELSE RowsOf(R, include)[d]
  BY <1>1, <1>3 DEF InsertLocal
<1>6. \A d \in Dto : RowsOf(S, include)[d] = InsertLocal(RowsOf(R, include), d0)[d]
  BY <1>2, <1>5
<1>. QED BY <1>3, <1>4, <1>6, SameRows

(* What becomes of the rows of a comment that is updated.                  *)
LEMMA UpdatedRows ==
    ASSUME NEW l \in [Dto -> Nat], NEW c \in Comments, NEW b \in BOOLEAN, Count(l, c) = 1
    PROVE  /\ UpdateLocal(l, [id |-> c, resolved |-> b]) \in [Dto -> Nat]
           /\ \A d \in Dto : UpdateLocal(l, [id |-> c, resolved |-> b])[d] =
                  IF d.id # c THEN l[d] ELSE IF d.resolved = b THEN 1 ELSE 0
<1>. DEFINE d0 == [id |-> c, resolved |-> b]
<1>0. ASSUME NEW d \in Dto PROVE d = d0 <=> d.id = c /\ d.resolved = b
  BY DEF Dto
<1>1. \A d \in Dto : UpdateLocal(l, d0)[d] =
          IF d.id # c THEN l[d] ELSE IF d = d0 THEN 1 ELSE 0
  BY DEF UpdateLocal
<1>2. UpdateLocal(l, d0) = [d \in Dto |-> UpdateLocal(l, d0)[d]]
  BY DEF UpdateLocal
<1>3. \A d \in Dto : UpdateLocal(l, d0)[d] \in Nat
  BY <1>1
<1>4. UpdateLocal(l, d0) \in [Dto -> Nat]
  BY <1>2, <1>3
<1>. QED BY <1>0, <1>1, <1>4

LEMMA ResolvedRows ==
    ASSUME NEW R \in [Comments -> RowStates], NEW c \in Comments, R[c] = "open"
    PROVE  RowsOf([R EXCEPT ![c] = "resolved"], TRUE)
               = UpdateLocal(RowsOf(R, TRUE), [id |-> c, resolved |-> TRUE])
<1>. DEFINE S == [R EXCEPT ![c] = "resolved"]
<1>1. RowsOf(S, TRUE) \in [Dto -> Nat] /\ RowsOf(R, TRUE) \in [Dto -> Nat]
  BY RowsAreCounts
<1>2. PICK l \in [Dto -> Nat] : l = RowsOf(R, TRUE)
  BY <1>1
<1>3. Count(l, c) = 1
  <2>1. [id |-> c, resolved |-> TRUE] \in Dto /\ [id |-> c, resolved |-> FALSE] \in Dto
    BY DEF Dto
  <2>2. l[[id |-> c, resolved |-> TRUE]] = 0 /\ l[[id |-> c, resolved |-> FALSE]] = 1
    BY <1>2, <2>1 DEF RowsOf
  <2>. QED BY <2>2 DEF Count
<1>b. PICK b \in BOOLEAN : b = TRUE
  OBVIOUS
<1>4. /\ UpdateLocal(l, [id |-> c, resolved |-> b]) \in [Dto -> Nat]
      /\ \A d \in Dto : UpdateLocal(l, [id |-> c, resolved |-> b])[d] =
            IF d.id # c THEN l[d] ELSE IF d.resolved = b THEN 1 ELSE 0
  BY <1>3, UpdatedRows
<1>5. ASSUME NEW d \in Dto
      PROVE  RowsOf(S, TRUE)[d] = IF d.id # c THEN l[d] ELSE IF d.resolved = b THEN 1 ELSE 0
  BY <1>2, <1>b DEF RowsOf, Dto
<1>6. \A d \in Dto : RowsOf(S, TRUE)[d] = UpdateLocal(l, [id |-> c, resolved |-> b])[d]
  BY <1>4, <1>5
<1>7. RowsOf(S, TRUE) = UpdateLocal(l, [id |-> c, resolved |-> b])
  BY <1>1, <1>4, <1>6, SameRows
<1>. QED BY <1>2, <1>b, <1>7

LEMMA ReopenedRows ==
    ASSUME NEW R \in [Comments -> RowStates], NEW c \in Comments, R[c] = "resolved"
    PROVE  RowsOf([R EXCEPT ![c] = "open"], TRUE)
               = UpdateLocal(RowsOf(R, TRUE), [id |-> c, resolved |-> FALSE])
<1>. DEFINE S == [R EXCEPT ![c] = "open"]
<1>1. RowsOf(S, TRUE) \in [Dto -> Nat] /\ RowsOf(R, TRUE) \in [Dto -> Nat]
  BY RowsAreCounts
<1>2. PICK l \in [Dto -> Nat] : l = RowsOf(R, TRUE)
  BY <1>1
<1>3. Count(l, c) = 1
  <2>1. [id |-> c, resolved |-> TRUE] \in Dto /\ [id |-> c, resolved |-> FALSE] \in Dto
    BY DEF Dto
  <2>2. l[[id |-> c, resolved |-> TRUE]] = 1 /\ l[[id |-> c, resolved |-> FALSE]] = 0
    BY <1>2, <2>1 DEF RowsOf
  <2>. QED BY <2>2 DEF Count
<1>b. PICK b \in BOOLEAN : b = FALSE
  OBVIOUS
<1>4. /\ UpdateLocal(l, [id |-> c, resolved |-> b]) \in [Dto -> Nat]
      /\ \A d \in Dto : UpdateLocal(l, [id |-> c, resolved |-> b])[d] =
            IF d.id # c THEN l[d] ELSE IF d.resolved = b THEN 1 ELSE 0
  BY <1>3, UpdatedRows
<1>5. ASSUME NEW d \in Dto
      PROVE  RowsOf(S, TRUE)[d] = IF d.id # c THEN l[d] ELSE IF d.resolved = b THEN 1 ELSE 0
  BY <1>2, <1>b DEF RowsOf, Dto
<1>6. \A d \in Dto : RowsOf(S, TRUE)[d] = UpdateLocal(l, [id |-> c, resolved |-> b])[d]
  BY <1>4, <1>5
<1>7. RowsOf(S, TRUE) = UpdateLocal(l, [id |-> c, resolved |-> b])
  BY <1>1, <1>4, <1>6, SameRows
<1>. QED BY <1>2, <1>b, <1>7

LEMMA DeletedRows ==
    ASSUME NEW R \in [Comments -> RowStates], NEW include \in BOOLEAN, NEW c \in Comments
    PROVE  RowsOf([b \in Comments |-> IF (b = c \/ Parent[b] = c) /\ R[b] # "none"
                                      THEN "gone" ELSE R[b]], include)
               = RemoveLocal(RowsOf(R, include), c)
<1>. DEFINE S == [b \in Comments |-> IF (b = c \/ Parent[b] = c) /\ R[b] # "none"
                                     THEN "gone" ELSE R[b]]
            V == RemoveLocal(RowsOf(R, include), c)
<1>1. \A d \in Dto : d.id \in Comments /\ d.resolved \in BOOLEAN
  BY DEF Dto
<1>2. \A d \in Dto : RowsOf(S, include)[d] = V[d]
  BY <1>1 DEF RowsOf, RemoveLocal
<1>3. RowsOf(S, include) = [d \in Dto |-> RowsOf(S, include)[d]] /\ V = [d \in Dto |-> V[d]]
  BY DEF RowsOf, RemoveLocal
<1>. QED BY <1>2, <1>3

------------------------------------------------------------------------------
(* CommentsPanel: lemmas about requests.                                   *)

RequestsOK(R) == R \in [Slots -> PanelRequest \cup {IdleSlot}]

LEMMA IdleIsNoRequest == IdleSlot \notin PanelRequest
BY DEF IdleSlot, PanelRequest

LEMMA FreeSlotIsFree ==
    ASSUME Busy # Slots PROVE FreeSlot \in Slots \ Busy
<1>1. \E s \in Slots : reqs[s] = IdleSlot
  BY DEF Busy
<1>. QED BY <1>1 DEF FreeSlot, Busy

(* What two requests have in common that differ in alone only, or in who   *)
(* waits for them as well.                                                 *)
SameWork(q, r) ==
    /\ q.op = r.op /\ q.id = r.id /\ q.served = r.served
    /\ q.include = r.include /\ q.answer = r.answer
SameRequest(q, r) == SameWork(q, r) /\ q.by = r.by /\ q.dead = r.dead

(* A request that is put in a slot is alone if every other slot is idle,   *)
(* and no other is.                                                        *)
Put(Q, R, s, r) ==
    /\ RequestsOK(Q)
    /\ Q[s] \in PanelRequest /\ SameRequest(Q[s], r)
    /\ Q[s].alone => \A u \in Slots \ {s} : R[u] = IdleSlot
    /\ \A u \in Slots \ {s} : R[u] = IdleSlot => Q[u] = IdleSlot
    /\ \A u \in Slots \ {s} : R[u] # IdleSlot =>
          Q[u] \in PanelRequest /\ SameRequest(Q[u], R[u]) /\ Q[u].alone = FALSE

LEMMA WithFacts ==
    ASSUME NEW R, RequestsOK(R), NEW s \in Slots, NEW r \in PanelRequest
    PROVE  Put(With(R, s, r), R, s, r)
<1>q. PICK Q : Q = With(R, s, r)
  OBVIOUS
<1>. DEFINE a == \A u \in Slots \ {s} : R[u] = IdleSlot
<1>1. a \in BOOLEAN
  OBVIOUS
<1>2. Q[s] = [r EXCEPT !.alone = a]
  BY <1>q, Zenon DEF With
<1>. HIDE DEF a
<1>3. Q[s] \in PanelRequest /\ SameRequest(Q[s], r) /\ Q[s].alone = a
  BY <1>1, <1>2 DEF PanelRequest, SameRequest, SameWork
<1>4. ASSUME NEW u \in Slots \ {s}, R[u] # IdleSlot
      PROVE  Q[u] \in PanelRequest /\ SameRequest(Q[u], R[u]) /\ Q[u].alone = FALSE
  <2>1. R[u] \in PanelRequest
    BY <1>4 DEF RequestsOK
  <2>2. Q[u] = [R[u] EXCEPT !.alone = FALSE]
    BY <1>q, <1>4 DEF With
  <2>. QED BY <2>1, <2>2 DEF PanelRequest, SameRequest, SameWork
<1>5. \A u \in Slots \ {s} : R[u] = IdleSlot => Q[u] = IdleSlot
  BY <1>q DEF With
<1>6. RequestsOK(Q)
  <2>1. \A u \in Slots : Q[u] \in PanelRequest \cup {IdleSlot}
    BY <1>3, <1>4, <1>5
  <2>. QED BY <1>q, <2>1 DEF RequestsOK, With
<1>7. Q[s].alone => \A u \in Slots \ {s} : R[u] = IdleSlot
  BY <1>3 DEF a
<1>8. Put(Q, R, s, r)
  BY <1>3, <1>4, <1>5, <1>6, <1>7 DEF Put
<1>. QED BY <1>q, <1>8

IsNew(r, op, c, include) ==
    /\ r \in PanelRequest /\ r.op = op /\ r.id = c
    /\ r.include = include /\ r.dead = FALSE /\ r.served = FALSE

LEMMA NewRequestFacts ==
    ASSUME NEW op \in {"list", "post", "reply", "resolve", "reopen", "delete"},
           NEW c \in Comments \cup {None}, NEW by \in {"pane", "editor", "gone"},
           NEW include \in BOOLEAN
    PROVE  IsNew(NewRequest(op, c, by, include), op, c, include)
<1>1. PICK r : r = NewRequest(op, c, by, include)
  OBVIOUS
<1>2. IsNew(r, op, c, include)
  BY <1>1 DEF IsNew, NewRequest, PanelRequest
<1>. QED BY <1>1, <1>2

(* A request that is put in a slot, the others being what they were or     *)
(* forgotten, keeps what holds of requests: it alone may be alone.         *)
LEMMA PutKeepsRequests ==
    ASSUME PanelTypeOK, RequestInv, commentRows' = commentRows,
           NEW R, RequestsOK(R),
           \A u \in Slots : R[u] = IdleSlot <=> reqs[u] = IdleSlot,
           \A u \in Slots : R[u] # IdleSlot => SameWork(R[u], reqs[u]),
           NEW s \in Slots, NEW r \in PanelRequest, reqs' = With(R, s, r),
           r.served = FALSE, r.op # "list" => r.id \in Comments,
           r.op \in {"post", "reply"} => commentRows[r.id] = "none"
    PROVE  /\ RequestsOK(reqs') /\ RequestInv'
           /\ s \in Busy' /\ SameRequest(reqs'[s], r)
           /\ reqs'[s].alone => \A u \in Busy : u = s
           /\ \A u \in Busy' : reqs'[u].alone => u = s
           /\ \A u \in Busy' \ {s} : u \in Busy /\ SameRequest(reqs'[u], R[u])
<1>1. /\ RequestsOK(reqs')
      /\ reqs'[s] \in PanelRequest /\ SameRequest(reqs'[s], r)
      /\ reqs'[s].alone => \A u \in Slots \ {s} : R[u] = IdleSlot
      /\ \A u \in Slots \ {s} : R[u] = IdleSlot => reqs'[u] = IdleSlot
      /\ \A u \in Slots \ {s} : R[u] # IdleSlot =>
            /\ reqs'[u] \in PanelRequest /\ SameRequest(reqs'[u], R[u]) /\ reqs'[u].alone = FALSE
  <2>1. Put(reqs', R, s, r)
    BY WithFacts
  <2>. QED BY <2>1 DEF Put
<1>2. s \in Busy'
  BY <1>1, IdleIsNoRequest DEF Busy
<1>3. \A u \in Busy' \ {s} : /\ u \in Busy /\ SameRequest(reqs'[u], R[u])
                            /\ SameWork(reqs'[u], reqs[u]) /\ reqs'[u].alone = FALSE
  BY <1>1 DEF Busy, SameRequest, SameWork
<1>4. reqs'[s].alone => (\A u \in Busy : u = s) /\ (\A u \in Busy' : u = s)
  BY <1>1, <1>3 DEF Busy
<1>5. \A u \in Busy' : reqs'[u].alone => u = s
  BY <1>3
<1>6. RequestInv'
  <2>. SUFFICES ASSUME NEW u \in Busy'
                PROVE  /\ reqs'[u].alone => \A t \in Busy' : t = u
                       /\ reqs'[u].op # "list" => reqs'[u].id \in Comments
                       /\ reqs'[u].op \in {"post", "reply"} /\ reqs'[u].alone /\ ~reqs'[u].served =>
                             commentRows'[reqs'[u].id] = "none"
    BY DEF RequestInv
  <2>1. CASE u = s
    BY <1>1, <1>4, <2>1 DEF SameRequest, SameWork
  <2>2. CASE u # s
    BY <1>3, <2>2 DEF RequestInv, SameWork
  <2>. QED BY <2>1, <2>2
<1>. QED BY <1>1, <1>2, <1>3, <1>4, <1>5, <1>6

(* What a step that makes a request does to the requests.                  *)
Begins(s, op, c, include) ==
    /\ RequestsOK(reqs') /\ RequestInv'
    /\ s \in Busy' /\ reqs'[s].op = op /\ reqs'[s].id = c /\ reqs'[s].include = include
    /\ reqs'[s].dead = FALSE /\ reqs'[s].served = FALSE
    /\ reqs'[s].alone => \A u \in Busy : u = s
    /\ \A u \in Busy' : reqs'[u].alone => u = s
    /\ \A u \in Busy' \ {s} : u \in Busy

LEMMA SendFacts ==
    ASSUME PanelTypeOK, RequestInv, commentRows' = commentRows,
           NEW op \in {"list", "post", "reply", "resolve", "reopen", "delete"},
           NEW c \in Comments \cup {None}, NEW by \in {"pane", "editor", "gone"},
           NEW include \in BOOLEAN, Send(op, c, by, include),
           op # "list" => c \in Comments,
           op \in {"post", "reply"} => commentRows[c] = "none"
    PROVE  \E s \in Slots \ Busy :
              /\ Begins(s, op, c, include)
              /\ \A u \in Busy' \ {s} : reqs'[u].dead = reqs[u].dead
<1>1. PICK s \in Slots \ Busy : s = FreeSlot
  BY FreeSlotIsFree DEF Send
<1>r. PICK r : r = NewRequest(op, c, by, include)
  OBVIOUS
<1>2. IsNew(r, op, c, include)
  BY <1>r, NewRequestFacts
<1>3. reqs' = With(reqs, s, r) /\ RequestsOK(reqs)
  BY <1>1, <1>r DEF Send, PanelTypeOK, RequestsOK
<1>4. \A u \in Slots : SameWork(reqs[u], reqs[u])
  BY DEF SameWork
<1>5. /\ RequestsOK(reqs') /\ RequestInv'
      /\ s \in Busy' /\ SameRequest(reqs'[s], r)
      /\ reqs'[s].alone => \A u \in Busy : u = s
      /\ \A u \in Busy' : reqs'[u].alone => u = s
      /\ \A u \in Busy' \ {s} : u \in Busy /\ SameRequest(reqs'[u], reqs[u])
  <2>1. \A u \in Slots : reqs[u] = IdleSlot <=> reqs[u] = IdleSlot
    OBVIOUS
  <2>2. /\ r \in PanelRequest /\ r.served = FALSE
        /\ r.op # "list" => r.id \in Comments
        /\ r.op \in {"post", "reply"} => commentRows[r.id] = "none"
    BY <1>2 DEF IsNew
  <2>. QED BY <1>1, <1>3, <1>4, <2>1, <2>2, PutKeepsRequests
<1>6. Begins(s, op, c, include)
  BY <1>2, <1>5 DEF IsNew, Begins, SameRequest, SameWork
<1>7. \A u \in Busy' \ {s} : reqs'[u].dead = reqs[u].dead
  BY <1>5 DEF SameRequest
<1>. QED BY <1>1, <1>6, <1>7

(* A listing that is asked for by the way the store is now keeps the       *)
(* invariant: the store waits for it.                                      *)
LEMMA AskKeeps ==
    ASSUME PanelIInv, NEW s \in Slots, Begins(s, "list", None, store'.include),
           commentRows' = commentRows,
           store' \in [list: [Dto -> Nat], include: BOOLEAN, loading: BOOLEAN, error: BOOLEAN],
           store'.loading, paneOn' \in BOOLEAN, editorOn' \in BOOLEAN, serial' \in BOOLEAN,
           paneOn' \/ editorOn'
    PROVE  PanelIInv'
<1>1. PanelTypeOK'
  BY DEF PanelIInv, PanelTypeOK, Begins, RequestsOK
<1>2. ListingInv'
  BY DEF ListingInv, Begins
<1>. QED BY <1>1, <1>2 DEF PanelIInv, SerialInv, Begins

(* A request of the user that changes the rows finds the store as the      *)
(* server is, or breaks the sequence.                                      *)
LEMMA RequestKeeps ==
    ASSUME PanelIInv, NEW s \in Slots \ Busy, NEW op, NEW c, Begins(s, op, c, FALSE), op # "list",
           \A u \in Busy' \ {s} : reqs'[u].dead = reqs[u].dead,
           UNCHANGED <<commentRows, paneOn, store, editorOn, serial>>,
           paneOn \/ editorOn,
           store.list = Rebuilt /\ op = "resolve" => commentRows[c] = "open",
           store.list = Rebuilt /\ op = "reopen" => commentRows[c] = "resolved" /\ store.include
    PROVE  PanelIInv'
<1>1. PanelTypeOK'
  BY DEF PanelIInv, PanelTypeOK, Begins, RequestsOK
<1>2. ListingInv'
  BY DEF PanelIInv, ListingInv, Begins
<1>3. SerialInv'
  <2>. SUFFICES ASSUME serial, ~store.loading, ~store.error
                PROVE  /\ \A u \in Busy' : ~reqs'[u].dead
                       /\ Busy' = {} => store'.list = Rebuilt'
                       /\ \A u \in Busy' : reqs'[u].alone => Agrees(reqs[u])'
    BY DEF SerialInv
  <2>1. \A u \in Busy' : ~reqs'[u].dead
    BY DEF PanelIInv, SerialInv, Begins
  <2>2. Busy' # {}
    BY DEF Begins
  <2>3. ASSUME reqs'[s].alone PROVE Agrees(reqs[s])'
    <3>1. Busy = {}
      BY <2>3 DEF Begins, Busy
    <3>2. store.list = Rebuilt /\ Rebuilt' = Rebuilt
      BY <3>1 DEF PanelIInv, SerialInv, Rebuilt
    <3>. QED BY <3>2 DEF Begins, Agrees
  <2>. QED BY <2>1, <2>2, <2>3 DEF Begins
<1>. QED BY <1>1, <1>2, <1>3 DEF PanelIInv, Begins

------------------------------------------------------------------------------
(* CommentsPanel: what the user does.                                      *)

LEMMA NewStoreFacts ==
    /\ NewStore \in [list: [Dto -> Nat], include: BOOLEAN, loading: BOOLEAN, error: BOOLEAN]
    /\ NewStore.loading = TRUE /\ NewStore.include = FALSE
BY DEF NewStore, NoRow

LEMMA PanelInitHolds == CommentsAssumption /\ PanelInit => PanelIInv
<1>. SUFFICES ASSUME CommentsAssumption, PanelInit PROVE PanelIInv
  OBVIOUS
<1>1. PICK R : R = [s \in Slots |-> IdleSlot]
  OBVIOUS
<1>2. PICK r : r = NewRequest("list", None, "pane", FALSE)
  OBVIOUS
<1>3. 1 \in Slots
  BY DEF CommentsAssumption, Slots
<1>4. RequestsOK(R) /\ \A u \in Slots : R[u] = IdleSlot
  BY <1>1 DEF RequestsOK
<1>5. IsNew(r, "list", None, FALSE)
  BY <1>2, NewRequestFacts
<1>6. reqs = With(R, 1, r)
  BY <1>1, <1>2 DEF PanelInit
<1>7. Put(reqs, R, 1, r)
  BY <1>3, <1>4, <1>5, <1>6, WithFacts DEF IsNew
<1>8. store = NewStore /\ paneOn = TRUE /\ editorOn = FALSE /\ serial = FALSE
      /\ commentRows \in [Comments -> RowStates]
  BY DEF PanelInit, RowStates
<1>9. NewStore \in [list: [Dto -> Nat], include: BOOLEAN, loading: BOOLEAN, error: BOOLEAN]
      /\ NewStore.loading = TRUE /\ NewStore.include = FALSE
  BY NewStoreFacts
<1>10. PanelTypeOK
  BY <1>7, <1>8, <1>9 DEF PanelTypeOK, Put, RequestsOK, RowStates
<1>11. /\ reqs[1].op = "list" /\ reqs[1].served = FALSE /\ reqs[1].include = FALSE
       /\ \A u \in Busy : u = 1
  BY <1>4, <1>5, <1>7 DEF Put, SameRequest, SameWork, IsNew, Busy
<1>12. RequestInv
  BY <1>11 DEF RequestInv
<1>13. ListingInv
  BY <1>8, <1>9, <1>11 DEF ListingInv
<1>. QED BY <1>8, <1>10, <1>12, <1>13 DEF PanelIInv, SerialInv

(* A pane that goes leaves its requests as they are to a store that stays, *)
(* and none that anybody hears of to one that is evicted.                  *)
LEMMA LeaveTabKeeps == ASSUME PanelIInv, LeaveTab PROVE PanelIInv'
<1>1. \A u \in Slots : reqs[u] = IdleSlot => reqs'[u] = IdleSlot
  BY DEF LeaveTab, Unmounted
<1>2. ASSUME NEW u \in Slots, reqs[u] # IdleSlot
      PROVE  /\ reqs'[u] \in PanelRequest /\ SameWork(reqs'[u], reqs[u])
             /\ reqs'[u].alone = reqs[u].alone
             /\ editorOn => reqs'[u].dead = reqs[u].dead
             /\ ~editorOn => reqs'[u].dead
  <2>1. reqs[u] \in PanelRequest /\ editorOn \in BOOLEAN
    BY <1>2 DEF PanelIInv, PanelTypeOK
  <2>2. PICK b : b = IF reqs[u].by = "pane" THEN "gone" ELSE reqs[u].by
    OBVIOUS
  <2>3. PICK d \in BOOLEAN : d = (reqs[u].dead \/ ~editorOn)
    OBVIOUS
  <2>4. reqs'[u] = [reqs[u] EXCEPT !.by = b, !.dead = d]
    BY <1>2, <2>2, <2>3 DEF LeaveTab, Unmounted
  <2>5. b \in {"pane", "editor", "gone"}
    BY <2>1, <2>2 DEF PanelRequest
  <2>6. reqs'[u] \in PanelRequest /\ SameWork(reqs'[u], reqs[u]) /\ reqs'[u].alone = reqs[u].alone
        /\ reqs'[u].dead = d
    BY <2>1, <2>4, <2>5 DEF PanelRequest, SameWork
  <2>7. (editorOn => d = reqs[u].dead) /\ (~editorOn => d)
    BY <2>1, <2>3 DEF PanelRequest
  <2>. QED BY <2>6, <2>7
<1>3. RequestsOK(reqs')
  <2>1. \A u \in Slots : reqs'[u] \in PanelRequest \cup {IdleSlot}
    BY <1>1, <1>2
  <2>. QED BY <2>1 DEF LeaveTab, Unmounted, RequestsOK
<1>4. Busy' = Busy
  BY <1>1, <1>2, IdleIsNoRequest DEF Busy
<1>5. PanelTypeOK'
  BY <1>3, NewStoreFacts DEF LeaveTab, PanelIInv, PanelTypeOK, RequestsOK
<1>6. RequestInv'
  BY <1>2, <1>4 DEF LeaveTab, PanelIInv, RequestInv, SameWork, Busy
<1>7. CASE editorOn
  <2>1. UNCHANGED <<commentRows, editorOn, serial, store>> /\ Rebuilt' = Rebuilt
    BY <1>7 DEF LeaveTab, Rebuilt
  <2>2. ListingInv'
    BY <1>2, <1>4, <1>7, <2>1 DEF PanelIInv, ListingInv, SameWork, Busy
  <2>3. SerialInv'
    BY <1>2, <1>4, <1>7, <2>1 DEF PanelIInv, SerialInv, Agrees, Applied, SameWork, Busy
  <2>. QED BY <1>5, <1>6, <2>2, <2>3 DEF PanelIInv
<1>8. CASE ~editorOn
  <2>1. store' = NewStore /\ \A u \in Busy' : reqs'[u].dead
    BY <1>2, <1>4, <1>8 DEF LeaveTab, Busy
  <2>. QED BY <1>5, <1>6, <2>1, NewStoreFacts DEF PanelIInv, ListingInv, SerialInv
<1>. QED BY <1>7, <1>8

LEMMA EnterTabKeeps == ASSUME PanelIInv, EnterTab PROVE PanelIInv'
<1>1. CASE editorOn
  BY <1>1 DEF EnterTab, PanelIInv, PanelTypeOK, RequestInv, ListingInv, SerialInv, Busy, Rebuilt,
              Agrees
<1>2. CASE ~editorOn
  <2>1. PICK s \in Slots : Begins(s, "list", None, store.include)
    <3>1. Send("list", None, "pane", store.include) /\ commentRows' = commentRows
      BY <1>2 DEF EnterTab
    <3>2. store.include \in BOOLEAN
      BY DEF PanelIInv, PanelTypeOK
    <3>. QED BY <3>1, <3>2, SendFacts DEF PanelIInv
  <2>2. store' = store /\ store.loading
    BY <1>2 DEF EnterTab, PanelIInv, ListingInv
  <2>. QED BY <2>1, <2>2, AskKeeps DEF EnterTab, PanelIInv, PanelTypeOK
<1>. QED BY <1>1, <1>2

LEMMA EditorAttachKeeps == ASSUME PanelIInv, EditorAttach PROVE PanelIInv'
<1>1. CASE paneOn
  BY <1>1 DEF EditorAttach, PanelIInv, PanelTypeOK, RequestInv, ListingInv, SerialInv, Busy,
              Rebuilt, Agrees
<1>2. CASE ~paneOn
  <2>1. PICK s \in Slots : Begins(s, "list", None, store.include)
    <3>1. Send("list", None, "editor", store.include) /\ commentRows' = commentRows
      BY <1>2 DEF EditorAttach
    <3>2. store.include \in BOOLEAN
      BY DEF PanelIInv, PanelTypeOK
    <3>. QED BY <3>1, <3>2, SendFacts DEF PanelIInv
  <2>2. store' = store /\ store.loading
    BY <1>2 DEF EditorAttach, PanelIInv, ListingInv
  <2>. QED BY <2>1, <2>2, AskKeeps DEF EditorAttach, PanelIInv, PanelTypeOK
<1>. QED BY <1>1, <1>2

LEMMA SetIncludeKeeps == ASSUME PanelIInv, SetIncludeResolved PROVE PanelIInv'
<1>1. PICK b \in BOOLEAN : b = ~store.include
  OBVIOUS
<1>2. store' = [store EXCEPT !.include = b, !.loading = TRUE]
      /\ Send("list", None, "pane", b) /\ UNCHANGED <<commentRows, editorOn, serial, paneOn>>
  BY <1>1, Zenon DEF SetIncludeResolved
<1>3. store' \in [list: [Dto -> Nat], include: BOOLEAN, loading: BOOLEAN, error: BOOLEAN]
      /\ store'.loading = TRUE /\ store'.include = b
  BY <1>2 DEF PanelIInv, PanelTypeOK
<1>4. PICK s \in Slots : Begins(s, "list", None, b)
  BY <1>2, SendFacts DEF PanelIInv
<1>5. paneOn = TRUE
  BY DEF SetIncludeResolved, PanelIInv, PanelTypeOK
<1>. QED BY <1>2, <1>3, <1>4, <1>5, AskKeeps DEF PanelIInv, PanelTypeOK

(* Away and back: a new store and a listing for it, the requests of the    *)
(* old one being forgotten.                                                *)
LEMMA ReopenKeeps == ASSUME PanelIInv, Reopen PROVE PanelIInv'
<1>1. PICK R : R = Forgotten
  OBVIOUS
<1>2. PICK s \in Slots \ Busy : s = FreeSlot
  BY FreeSlotIsFree DEF Reopen
<1>3. PICK r : r = NewRequest("list", None, "pane", FALSE)
  OBVIOUS
<1>4. reqs' = With(R, s, r)
  BY <1>1, <1>2, <1>3 DEF Reopen
<1>5. IsNew(r, "list", None, FALSE)
  BY <1>3, NewRequestFacts
<1>6. ASSUME NEW u \in Slots
      PROVE  /\ reqs[u] = IdleSlot => R[u] = IdleSlot
             /\ reqs[u] # IdleSlot => R[u] \in PanelRequest /\ SameWork(R[u], reqs[u])
  <2>1. CASE reqs[u] = IdleSlot
    BY <1>1, <2>1 DEF Forgotten
  <2>2. CASE reqs[u] # IdleSlot
    <3>1. reqs[u] \in PanelRequest
      BY <2>2 DEF PanelIInv, PanelTypeOK
    <3>2. R[u] = [reqs[u] EXCEPT !.by = "gone", !.dead = TRUE]
      BY <1>1, <2>2 DEF Forgotten
    <3>. QED BY <2>2, <3>1, <3>2 DEF PanelRequest, SameWork
  <2>. QED BY <2>1, <2>2
<1>7. RequestsOK(R)
  <2>1. \A u \in Slots : R[u] \in PanelRequest \cup {IdleSlot}
    BY <1>6
  <2>. QED BY <1>1, <2>1 DEF Forgotten, RequestsOK
<1>8. \A u \in Slots : (R[u] = IdleSlot <=> reqs[u] = IdleSlot)
                       /\ (R[u] # IdleSlot => SameWork(R[u], reqs[u]))
  BY <1>6, IdleIsNoRequest
<1>9. store' = NewStore /\ commentRows' = commentRows
      /\ paneOn' = TRUE /\ editorOn' = FALSE /\ serial' = serial
  BY DEF Reopen
<1>10. store' \in [list: [Dto -> Nat], include: BOOLEAN, loading: BOOLEAN, error: BOOLEAN]
       /\ store'.loading = TRUE /\ store'.include = FALSE
  BY <1>9, NewStoreFacts
<1>11. Begins(s, "list", None, store'.include)
  <2>1. /\ r \in PanelRequest /\ r.served = FALSE
        /\ r.op # "list" => r.id \in Comments
        /\ r.op \in {"post", "reply"} => commentRows[r.id] = "none"
    BY <1>5 DEF IsNew
  <2>2. commentRows' = commentRows
    BY DEF Reopen
  <2>3. /\ RequestsOK(reqs') /\ RequestInv'
        /\ s \in Busy' /\ SameRequest(reqs'[s], r)
        /\ reqs'[s].alone => \A u \in Busy : u = s
        /\ \A u \in Busy' : reqs'[u].alone => u = s
        /\ \A u \in Busy' \ {s} : u \in Busy /\ SameRequest(reqs'[u], R[u])
    BY <1>4, <1>7, <1>8, <2>1, <2>2, PutKeepsRequests DEF PanelIInv
  <2>. QED BY <1>5, <1>10, <2>3 DEF IsNew, Begins, SameRequest, SameWork
<1>. QED BY <1>9, <1>10, <1>11, AskKeeps DEF PanelIInv, PanelTypeOK

(* A comment is posted, a reply made or a thread deleted: nothing is asked *)
(* of the row but that it is new.                                          *)
LEMMA PostKeeps ==
    ASSUME PanelIInv, NEW c \in Comments, NEW by \in {"pane", "editor"}, Post(c, by)
    PROVE  PanelIInv'
<1>1. PICK s \in Slots \ Busy :
          /\ Begins(s, "post", c, FALSE)
          /\ \A u \in Busy' \ {s} : reqs'[u].dead = reqs[u].dead
  BY SendFacts DEF Post, Fresh, PanelIInv
<1>. QED BY <1>1, RequestKeeps DEF Post

LEMMA ReplyKeeps == ASSUME PanelIInv, NEW c \in Comments, Reply(c) PROVE PanelIInv'
<1>1. PICK s \in Slots \ Busy :
          /\ Begins(s, "reply", c, FALSE)
          /\ \A u \in Busy' \ {s} : reqs'[u].dead = reqs[u].dead
  BY SendFacts DEF Reply, Fresh, PanelIInv
<1>. QED BY <1>1, RequestKeeps DEF Reply, OnPage

LEMMA DeleteThreadKeeps == ASSUME PanelIInv, NEW c \in Comments, DeleteThread(c) PROVE PanelIInv'
<1>1. PICK s \in Slots \ Busy :
          /\ Begins(s, "delete", c, FALSE)
          /\ \A u \in Busy' \ {s} : reqs'[u].dead = reqs[u].dead
  BY SendFacts DEF DeleteThread, PanelIInv
<1>. QED BY <1>1, RequestKeeps DEF DeleteThread, OnPage

(* The button of a thread says what it is in the store.                    *)
LEMMA ToggleKeeps == ASSUME PanelIInv, NEW d \in Dto, ToggleResolve(d) PROVE PanelIInv'
<1>1. d.id \in Comments /\ d.resolved \in BOOLEAN
  BY DEF Dto
<1>2. PICK op \in {"resolve", "reopen"} : op = IF d.resolved THEN "reopen" ELSE "resolve"
  OBVIOUS
<1>3. PICK s \in Slots \ Busy :
          /\ Begins(s, op, d.id, FALSE)
          /\ \A u \in Busy' \ {s} : reqs'[u].dead = reqs[u].dead
  <2>1. Send(op, d.id, "pane", FALSE) /\ commentRows' = commentRows
    BY <1>2 DEF ToggleResolve
  <2>2. PICK c \in Comments : c = d.id
    BY <1>1
  <2>3. CASE op = "resolve"
    BY <2>1, <2>2, <2>3, SendFacts DEF PanelIInv
  <2>4. CASE op = "reopen"
    BY <2>1, <2>2, <2>4, SendFacts DEF PanelIInv
  <2>. QED BY <2>3, <2>4
<1>4. store.list = Rebuilt =>
          IF d.resolved THEN commentRows[d.id] = "resolved" /\ store.include
                        ELSE commentRows[d.id] = "open"
  <2>1. SUFFICES ASSUME store.list = RowsOf(commentRows, store.include)
                 PROVE  IF d.resolved THEN commentRows[d.id] = "resolved" /\ store.include
                                      ELSE commentRows[d.id] = "open"
    BY DEF Rebuilt
  <2>2. store.list[d] > 0
    BY DEF ToggleResolve, Copies
  <2>3. PICK i \in BOOLEAN : i = store.include
    BY DEF PanelIInv, PanelTypeOK
  <2>4. RowsOf(commentRows, i)[d] > 0
    BY <2>1, <2>2, <2>3
  <2>5. IF d.resolved THEN commentRows[d.id] = "resolved" /\ i
                      ELSE commentRows[d.id] = "open"
    BY <1>1, <2>4 DEF RowsOf
  <2>. QED BY <2>3, <2>5
<1>. QED BY <1>2, <1>3, <1>4, RequestKeeps DEF ToggleResolve, OnPage

------------------------------------------------------------------------------
(* CommentsPanel: what the server does, and the answers.                   *)

(* A request that is served keeps all but the mark and the answer.         *)
LEMMA ServedFacts ==
    ASSUME PanelIInv, NEW s \in Slots, ServeRequest(s)
    PROVE  /\ PanelTypeOK' /\ Busy' = Busy /\ s \in Busy
           /\ \A u \in Busy \ {s} : reqs'[u] = reqs[u]
           /\ reqs'[s].op = reqs[s].op /\ reqs'[s].id = reqs[s].id
           /\ reqs'[s].include = reqs[s].include /\ reqs'[s].alone = reqs[s].alone
           /\ reqs'[s].dead = reqs[s].dead /\ reqs'[s].served = TRUE
           /\ reqs[s].op = "list" =>
                 reqs'[s].answer = {DtoOf(c) : c \in Visible(reqs[s].include)}
<1>1. PICK r \in PanelRequest : r = reqs[s] /\ s \in Busy
  BY DEF ServeRequest, Busy, PanelIInv, PanelTypeOK
<1>2. PICK A : A = IF r.op = "list" THEN {DtoOf(c) : c \in Visible(r.include)} ELSE {}
  OBVIOUS
<1>3. A \in SUBSET Dto
  BY <1>2, ListingIsRows DEF PanelRequest, PanelIInv
<1>4. reqs' = [reqs EXCEPT ![s] = [r EXCEPT !.served = TRUE, !.answer = A]]
      /\ reqs \in [Slots -> PanelRequest \cup {IdleSlot}]
  BY <1>1, <1>2 DEF ServeRequest, PanelIInv, PanelTypeOK
<1>5. PICK q : q = [r EXCEPT !.served = TRUE, !.answer = A]
  OBVIOUS
<1>6. /\ q \in PanelRequest
      /\ q.op = r.op /\ q.id = r.id /\ q.include = r.include /\ q.alone = r.alone
      /\ q.dead = r.dead /\ q.served = TRUE /\ q.answer = A
  BY <1>3, <1>5 DEF PanelRequest
<1>7. reqs' \in [Slots -> PanelRequest \cup {IdleSlot}] /\ reqs'[s] = q
      /\ \A u \in Slots \ {s} : reqs'[u] = reqs[u]
  BY <1>4, <1>5, <1>6
<1>8. Busy' = Busy
  BY <1>1, <1>6, <1>7, IdleIsNoRequest DEF Busy
<1>9. commentRows' \in [Comments -> {"none", "open", "resolved", "gone"}]
  <2>1. r.op \in {"list", "post", "reply", "resolve", "reopen", "delete"}
    BY <1>1 DEF PanelRequest
  <2>2. commentRows \in [Comments -> {"none", "open", "resolved", "gone"}]
    BY DEF PanelIInv, PanelTypeOK
  <2>3. CASE r.op = "list"
    BY <1>1, <2>2, <2>3 DEF ServeRequest
  <2>4. CASE r.op \in {"post", "reply", "reopen"}
    BY <1>1, <2>2, <2>4 DEF ServeRequest
  <2>5. CASE r.op = "resolve"
    BY <1>1, <2>2, <2>5 DEF ServeRequest
  <2>6. CASE r.op = "delete"
    BY <1>1, <2>2, <2>6 DEF ServeRequest
  <2>. QED BY <2>1, <2>3, <2>4, <2>5, <2>6
<1>10. PanelTypeOK'
  BY <1>7, <1>9 DEF ServeRequest, PanelIInv, PanelTypeOK
<1>. QED BY <1>1, <1>2, <1>6, <1>7, <1>8, <1>10 DEF Busy

(* What the server does for a request that is alone is what its answer     *)
(* will do to the store.                                                   *)
LEMMA ServedAgrees ==
    ASSUME PanelIInv, NEW s \in Slots, ServeRequest(s),
           reqs[s].alone, Agrees(reqs[s])
    PROVE  \/ reqs[s].op = "resolve" /\ ~store.include
           \/ Applied(reqs[s], store.list) = RowsOf(commentRows', store.include)
<1>1. PICK r \in PanelRequest : r = reqs[s]
  BY DEF ServeRequest, Busy, PanelIInv, PanelTypeOK
<1>2. PICK R \in [Comments -> RowStates] : R = commentRows
  BY DEF PanelIInv, PanelTypeOK, RowStates
<1>3. PICK i \in BOOLEAN : i = store.include
  BY DEF PanelIInv, PanelTypeOK
<1>4. /\ s \in Busy /\ r.served = FALSE
      /\ store.list = RowsOf(R, i)
      /\ r.op = "resolve" => R[r.id] = "open"
      /\ r.op = "reopen" => R[r.id] = "resolved" /\ i
  BY <1>1, <1>2, <1>3 DEF ServeRequest, Agrees, Rebuilt, PanelRequest
<1>5. /\ r.op # "list" => r.id \in Comments
      /\ r.op \in {"post", "reply"} => R[r.id] = "none"
  BY <1>1, <1>2, <1>4 DEF PanelIInv, RequestInv
<1>6. (r.op = "resolve" /\ ~i) \/ Applied(r, RowsOf(R, i)) = RowsOf(commentRows', i)
  <2>1. CASE r.op = "list"
    BY <1>1, <1>2, <2>1 DEF ServeRequest, Applied
  <2>2. CASE r.op \in {"post", "reply"}
    <3>1. commentRows' = [R EXCEPT ![r.id] = "open"]
      BY <1>1, <1>2, <2>2 DEF ServeRequest
    <3>. QED BY <1>5, <2>2, <3>1, PostedRows DEF Applied
  <2>3. CASE r.op = "resolve" /\ i
    <3>1. commentRows' = [R EXCEPT ![r.id] = "resolved"] /\ i = TRUE
      BY <1>1, <1>2, <2>3 DEF ServeRequest
    <3>. QED BY <1>4, <1>5, <2>3, <3>1, ResolvedRows DEF Applied
  <2>4. CASE r.op = "reopen"
    <3>1. commentRows' = [R EXCEPT ![r.id] = "open"] /\ i = TRUE
      BY <1>1, <1>2, <1>4, <2>4 DEF ServeRequest
    <3>. QED BY <1>4, <1>5, <2>4, <3>1, ReopenedRows DEF Applied
  <2>5. CASE r.op = "delete"
    <3>1. commentRows' = [b \in Comments |-> IF (b = r.id \/ Parent[b] = r.id) /\ R[b] # "none"
                                             THEN "gone" ELSE R[b]]
      BY <1>1, <1>2, <2>5 DEF ServeRequest
    <3>. QED BY <1>5, <2>5, <3>1, DeletedRows DEF Applied
  <2>. QED BY <2>1, <2>2, <2>3, <2>4, <2>5 DEF PanelRequest
<1>. QED BY <1>1, <1>3, <1>4, <1>6

LEMMA ServeRequestKeeps ==
    ASSUME PanelIInv, NEW s \in Slots, ServeRequest(s) PROVE PanelIInv'
<1>1. /\ PanelTypeOK' /\ Busy' = Busy /\ s \in Busy
      /\ \A u \in Busy \ {s} : reqs'[u] = reqs[u]
      /\ reqs'[s].op = reqs[s].op /\ reqs'[s].id = reqs[s].id
      /\ reqs'[s].include = reqs[s].include /\ reqs'[s].alone = reqs[s].alone
      /\ reqs'[s].dead = reqs[s].dead /\ reqs'[s].served = TRUE
      /\ reqs[s].op = "list" => reqs'[s].answer = {DtoOf(c) : c \in Visible(reqs[s].include)}
  BY ServedFacts
<1>2. UNCHANGED <<store, editorOn, serial, paneOn>>
  BY DEF ServeRequest
<1>3. \A u \in Busy : reqs'[u].alone => u = s /\ Busy = {s}
  BY <1>1 DEF PanelIInv, RequestInv
<1>4. RequestInv'
  BY <1>1, <1>3 DEF PanelIInv, RequestInv
<1>5. ListingInv'
  <2>1. ASSUME reqs'[s].op = "list", reqs'[s].alone, ~reqs'[s].dead
        PROVE  reqs'[s].include = store'.include /\ Listing(reqs'[s].answer) = Rebuilt'
    <3>1. PICK i \in BOOLEAN : i = store.include
      BY DEF PanelIInv, PanelTypeOK
    <3>2. reqs[s].include = i /\ commentRows' = commentRows
      BY <1>1, <2>1, <3>1 DEF PanelIInv, ListingInv, ServeRequest
    <3>3. Listing(reqs'[s].answer) = RowsOf(commentRows, i)
      BY <1>1, <2>1, <3>2, ListingIsRows DEF PanelIInv
    <3>. QED BY <1>1, <1>2, <3>1, <3>2, <3>3 DEF Rebuilt
  <2>2. ~paneOn' /\ ~editorOn' => store'.loading /\ \A u \in Busy' : reqs'[u].dead
    BY <1>1, <1>2 DEF PanelIInv, ListingInv
  <2>. QED BY <1>1, <1>3, <2>1, <2>2 DEF ListingInv
<1>6. SerialInv'
  <2>. SUFFICES ASSUME serial, ~store.loading, ~store.error
                PROVE  /\ \A u \in Busy : ~reqs'[u].dead
                       /\ \A u \in Busy : reqs'[u].alone => Agrees(reqs[u])'
    BY <1>1, <1>2 DEF SerialInv
  <2>1. \A u \in Busy : ~reqs'[u].dead
    BY <1>1 DEF PanelIInv, SerialInv
  <2>2. ASSUME reqs'[s].alone PROVE Agrees(reqs[s])'
    <3>1. Agrees(reqs[s]) /\ reqs[s].alone
      BY <1>1, <2>2 DEF PanelIInv, SerialInv
    <3>2. \/ reqs[s].op = "resolve" /\ ~store.include
          \/ Applied(reqs[s], store.list) = RowsOf(commentRows', store.include)
      BY <3>1, ServedAgrees
    <3>3. \/ reqs'[s].op = "resolve" /\ ~store'.include
          \/ Applied(reqs'[s], store'.list) = RowsOf(commentRows', store'.include)
      BY <1>1, <1>2, <3>2 DEF Applied
    <3>. QED BY <1>1, <3>3 DEF Agrees, Rebuilt
  <2>. QED BY <1>3, <2>1, <2>2
<1>. QED BY <1>1, <1>4, <1>5, <1>6 DEF PanelIInv

(* A request that ends leaves the others as they are.  If it was alone,    *)
(* nothing is under way any more, and the store must be what a listing     *)
(* would make it, or wait for one.                                         *)
LEMMA EndKeeps ==
    ASSUME PanelIInv, NEW s \in Busy, Done(s), UNCHANGED <<commentRows, paneOn, editorOn>>,
           store' \in [list: [Dto -> Nat], include: BOOLEAN, loading: BOOLEAN, error: BOOLEAN],
           serial' \in BOOLEAN,
           ~paneOn /\ ~editorOn => store'.loading,
           serial' /\ ~store'.loading /\ ~store'.error =>
              reqs[s].alone /\ store'.list = RowsOf(commentRows, store'.include)
    PROVE  PanelIInv'
<1>1. /\ reqs' \in [Slots -> PanelRequest \cup {IdleSlot}]
      /\ Busy' = Busy \ {s} /\ \A u \in Busy' : reqs'[u] = reqs[u]
  BY DEF Done, Busy, PanelIInv, PanelTypeOK
<1>2. PanelTypeOK'
  BY <1>1 DEF PanelIInv, PanelTypeOK
<1>3. RequestInv'
  BY <1>1 DEF PanelIInv, RequestInv
<1>4. \A u \in Busy' : ~reqs'[u].alone
  BY <1>1 DEF PanelIInv, RequestInv
<1>5. ListingInv'
  BY <1>1, <1>4 DEF PanelIInv, ListingInv
<1>6. SerialInv'
  <2>. SUFFICES ASSUME serial', ~store'.loading, ~store'.error
                PROVE  Busy' = {} /\ store'.list = Rebuilt'
    BY <1>4 DEF SerialInv
  <2>1. Busy' = {}
    BY <1>1 DEF PanelIInv, RequestInv
  <2>. QED BY <2>1 DEF Rebuilt
<1>. QED BY <1>2, <1>3, <1>5, <1>6 DEF PanelIInv

(* A store that hears of an answer is looked at.                           *)
LEMMA ListeningFacts ==
    ASSUME PanelIInv, NEW s \in Slots, Listening(s)
    PROVE  s \in Busy /\ (paneOn \/ editorOn) /\ reqs[s] \in PanelRequest
BY DEF Listening, Busy, PanelIInv, PanelTypeOK, ListingInv

LEMMA ListAnswerKeeps ==
    ASSUME PanelIInv, NEW s \in Slots, ListAnswer(s) PROVE PanelIInv'
<1>1. s \in Busy /\ (paneOn \/ editorOn) /\ reqs[s] \in PanelRequest /\ Listening(s)
  BY ListeningFacts DEF ListAnswer
<1>2. PICK l : l = Listing(reqs[s].answer)
  OBVIOUS
<1>3. l \in [Dto -> Nat]
  BY <1>2 DEF Listing
<1>4. /\ store' \in [list: [Dto -> Nat], include: BOOLEAN, loading: BOOLEAN, error: BOOLEAN]
      /\ store'.list = l /\ store'.include = store.include /\ store'.loading = FALSE
  BY <1>2, <1>3 DEF ListAnswer, PanelIInv, PanelTypeOK
<1>5. serial' = reqs[s].alone /\ serial' \in BOOLEAN
  BY <1>1 DEF ListAnswer, PanelRequest
<1>6. reqs[s].alone => l = RowsOf(commentRows, store.include)
  BY <1>1, <1>2 DEF ListAnswer, Listening, PanelIInv, ListingInv, Rebuilt
<1>7. serial' => reqs[s].alone /\ store'.list = RowsOf(commentRows, store'.include)
  BY <1>4, <1>5, <1>6
<1>8. Done(s) /\ UNCHANGED <<commentRows, paneOn, editorOn>>
  BY DEF ListAnswer
<1>. QED BY <1>1, <1>4, <1>5, <1>7, <1>8, EndKeeps

(* What a change of the store's list leaves alone.                         *)
LEMMA StoreListFacts ==
    ASSUME PanelIInv, NEW l \in [Dto -> Nat], store' = [store EXCEPT !.list = l]
    PROVE  /\ store' \in [list: [Dto -> Nat], include: BOOLEAN, loading: BOOLEAN, error: BOOLEAN]
           /\ store'.list = l /\ store'.include = store.include
           /\ store'.loading = store.loading /\ store'.error = store.error
BY DEF PanelIInv, PanelTypeOK

(* The answer to a request that was alone, applied to a store that was as  *)
(* the server's before it, makes it as the server's is now.                *)
LEMMA AnswerKeeps ==
    ASSUME PanelIInv, NEW s \in Slots, Listening(s), reqs[s].served,
           reqs[s].op # "list", reqs[s].op = "resolve" => store.include,
           Applied(reqs[s], store.list) \in [Dto -> Nat],
           store' = [store EXCEPT !.list = Applied(reqs[s], store.list)],
           serial' = (serial /\ reqs[s].alone), Done(s),
           UNCHANGED <<commentRows, paneOn, editorOn>>
    PROVE  PanelIInv'
<1>1. s \in Busy /\ (paneOn \/ editorOn) /\ reqs[s] \in PanelRequest
  BY ListeningFacts
<1>2. PICK l \in [Dto -> Nat] : l = Applied(reqs[s], store.list)
  OBVIOUS
<1>3. /\ store' \in [list: [Dto -> Nat], include: BOOLEAN, loading: BOOLEAN, error: BOOLEAN]
      /\ store'.list = l /\ store'.include = store.include
      /\ store'.loading = store.loading /\ store'.error = store.error
  BY <1>2, StoreListFacts
<1>4. serial' \in BOOLEAN /\ (serial' => serial /\ reqs[s].alone)
  BY <1>1 DEF PanelRequest, PanelIInv, PanelTypeOK
<1>5. serial' /\ ~store'.loading /\ ~store'.error =>
          reqs[s].alone /\ store'.list = RowsOf(commentRows, store'.include)
  <2>. SUFFICES ASSUME serial', ~store.loading, ~store.error
                PROVE  l = RowsOf(commentRows, store.include)
    BY <1>3, <1>4
  <2>1. Agrees(reqs[s])
    BY <1>1, <1>4 DEF PanelIInv, SerialInv
  <2>. QED BY <1>2, <2>1 DEF Agrees, Rebuilt
<1>. QED BY <1>1, <1>3, <1>4, <1>5, EndKeeps

(* What the answers do to the list leaves it a list.                       *)
LEMMA AppliedIsList ==
    ASSUME NEW l \in [Dto -> Nat], NEW r \in PanelRequest, r.id \in Comments
    PROVE  Applied(r, l) \in [Dto -> Nat]
<1>1. ASSUME NEW b \in BOOLEAN PROVE [id |-> r.id, resolved |-> b] \in Dto
  BY DEF Dto
<1>2. ASSUME NEW d \in Dto PROVE InsertLocal(l, d) \in [Dto -> Nat]
  <2>1. \A e \in Dto : InsertLocal(l, d)[e] = IF e = d THEN l[e] + 1 ELSE l[e]
    BY DEF InsertLocal
  <2>2. InsertLocal(l, d) = [e \in Dto |-> InsertLocal(l, d)[e]]
    BY DEF InsertLocal
  <2>. QED BY <2>1, <2>2
<1>3. ASSUME NEW d \in Dto PROVE UpdateLocal(l, d) \in [Dto -> Nat]
  <2>1. d.id \in Comments /\ [id |-> d.id, resolved |-> TRUE] \in Dto
        /\ [id |-> d.id, resolved |-> FALSE] \in Dto
    BY DEF Dto
  <2>2. Count(l, d.id) \in Nat
    BY <2>1 DEF Count
  <2>. QED BY <2>2 DEF UpdateLocal
<1>4. RemoveLocal(l, r.id) \in [Dto -> Nat]
  BY DEF RemoveLocal
<1>5. [id |-> r.id, resolved |-> TRUE] \in Dto /\ [id |-> r.id, resolved |-> FALSE] \in Dto
  BY <1>1
<1>6. CASE r.op \in {"post", "reply"}
  BY <1>2, <1>5, <1>6 DEF Applied
<1>7. CASE r.op \in {"resolve", "reopen"}
  BY <1>3, <1>5, <1>7 DEF Applied
<1>8. CASE r.op \in {"list", "delete"}
  BY <1>4, <1>8 DEF Applied
<1>. QED BY <1>6, <1>7, <1>8 DEF PanelRequest

LEMMA WorkAnswered ==
    ASSUME PanelIInv, NEW s \in Slots, Listening(s), reqs[s].op # "list"
    PROVE  /\ reqs[s] \in PanelRequest /\ reqs[s].id \in Comments
           /\ Applied(reqs[s], store.list) \in [Dto -> Nat]
<1>1. s \in Busy /\ reqs[s] \in PanelRequest
  BY ListeningFacts
<1>2. PICK r \in PanelRequest : r = reqs[s]
  BY <1>1
<1>3. r.id \in Comments
  BY <1>1, <1>2 DEF PanelIInv, RequestInv
<1>4. PICK l \in [Dto -> Nat] : l = store.list
  BY DEF PanelIInv, PanelTypeOK
<1>. QED BY <1>1, <1>2, <1>3, <1>4, AppliedIsList

LEMMA PostAnswerKeeps ==
    ASSUME PanelIInv, NEW s \in Slots, PostAnswer(s) PROVE PanelIInv'
<1>1. /\ Listening(s) /\ reqs[s].served /\ reqs[s].op \in {"post", "reply"}
      /\ store' = [store EXCEPT !.list = Applied(reqs[s], store.list)]
      /\ serial' = (serial /\ reqs[s].alone)
      /\ Done(s) /\ UNCHANGED <<commentRows, paneOn, editorOn>>
  BY DEF PostAnswer, Applied
<1>. QED BY <1>1, WorkAnswered, AnswerKeeps

LEMMA RemoveAnswerKeeps ==
    ASSUME PanelIInv, NEW s \in Slots, RemoveAnswer(s) PROVE PanelIInv'
<1>1. /\ Listening(s) /\ reqs[s].served /\ reqs[s].op = "delete"
      /\ store' = [store EXCEPT !.list = Applied(reqs[s], store.list)]
      /\ serial' = (serial /\ reqs[s].alone)
      /\ Done(s) /\ UNCHANGED <<commentRows, paneOn, editorOn>>
  BY DEF RemoveAnswer, Applied
<1>. QED BY <1>1, WorkAnswered, AnswerKeeps

(* A thread that is resolved while the store hides such threads waits for  *)
(* the listing that follows.                                               *)
LEMMA ResolveAnswerKeeps ==
    ASSUME PanelIInv, NEW s \in Slots, ResolveAnswer(s) PROVE PanelIInv'
<1>1. /\ Listening(s) /\ reqs[s].served /\ reqs[s].op \in {"resolve", "reopen"}
      /\ serial' = (serial /\ reqs[s].alone)
      /\ UNCHANGED <<commentRows, paneOn, editorOn>>
  BY DEF ResolveAnswer
<1>2. /\ s \in Busy /\ (paneOn \/ editorOn) /\ reqs[s] \in PanelRequest
      /\ Applied(reqs[s], store.list) \in [Dto -> Nat]
  BY <1>1, ListeningFacts, WorkAnswered
<1>3. PICK l \in [Dto -> Nat] : l = Applied(reqs[s], store.list)
  BY <1>2
<1>4. l = UpdateLocal(store.list, [id |-> reqs[s].id, resolved |-> reqs[s].op = "resolve"])
  <2>1. CASE reqs[s].op = "resolve"
    BY <1>3, <2>1 DEF Applied
  <2>2. CASE reqs[s].op = "reopen"
    BY <1>3, <2>2 DEF Applied
  <2>. QED BY <1>1, <2>1, <2>2
<1>5. CASE reqs[s].op = "resolve" /\ ~store.include
  <2>1. PICK r : r = NewRequest("list", None, reqs[s].by, FALSE)
    OBVIOUS
  <2>2. reqs' = With(reqs, s, r)
        /\ store' = [store EXCEPT !.list = l, !.loading = TRUE]
    BY <1>4, <1>5, <2>1 DEF ResolveAnswer, Resolved
  <2>3. IsNew(r, "list", None, FALSE)
    BY <1>2, <2>1, NewRequestFacts DEF PanelRequest
  <2>4. /\ store' \in [list: [Dto -> Nat], include: BOOLEAN, loading: BOOLEAN, error: BOOLEAN]
        /\ store'.loading = TRUE /\ store'.include = FALSE
    BY <1>5, <2>2 DEF PanelIInv, PanelTypeOK
  <2>5. Begins(s, "list", None, store'.include)
    <3>1. /\ r \in PanelRequest /\ r.served = FALSE
          /\ r.op # "list" => r.id \in Comments
          /\ r.op \in {"post", "reply"} => commentRows[r.id] = "none"
      BY <2>3 DEF IsNew
    <3>2. RequestsOK(reqs) /\ \A u \in Slots : SameWork(reqs[u], reqs[u])
      BY DEF PanelIInv, PanelTypeOK, RequestsOK, SameWork
    <3>3. \A u \in Slots : reqs[u] = IdleSlot <=> reqs[u] = IdleSlot
      OBVIOUS
    <3>4. /\ RequestsOK(reqs') /\ RequestInv'
          /\ s \in Busy' /\ SameRequest(reqs'[s], r)
          /\ reqs'[s].alone => \A u \in Busy : u = s
          /\ \A u \in Busy' : reqs'[u].alone => u = s
          /\ \A u \in Busy' \ {s} : u \in Busy /\ SameRequest(reqs'[u], reqs[u])
      BY <1>1, <2>2, <3>1, <3>2, <3>3, PutKeepsRequests DEF PanelIInv
    <3>. QED BY <2>3, <2>4, <3>4 DEF IsNew, Begins, SameRequest, SameWork
  <2>6. serial' \in BOOLEAN
    BY <1>1, <1>2 DEF PanelRequest, PanelIInv, PanelTypeOK
  <2>. QED BY <1>1, <1>2, <2>4, <2>5, <2>6, AskKeeps DEF PanelIInv, PanelTypeOK
<1>6. CASE reqs[s].op # "resolve" \/ store.include
  <2>1. Done(s) /\ store' = [store EXCEPT !.list = Applied(reqs[s], store.list)]
    BY <1>3, <1>4, <1>6 DEF ResolveAnswer, Resolved
  <2>. QED BY <1>1, <1>2, <1>6, <2>1, AnswerKeeps
<1>. QED BY <1>5, <1>6

(* A request that fails without having been served leaves the server as    *)
(* the store has it; one that was served may not.                          *)
LEMMA RequestFailsKeeps ==
    ASSUME PanelIInv, NEW s \in Slots, RequestFails(s) PROVE PanelIInv'
<1>1. s \in Busy /\ (paneOn \/ editorOn) /\ reqs[s] \in PanelRequest
  BY ListeningFacts DEF RequestFails
<1>2. PICK e \in BOOLEAN : e = (store.error \/ reqs[s].by # "editor" \/ reqs[s].op = "list")
  OBVIOUS
<1>3. PICK b \in BOOLEAN : b = (store.loading /\ reqs[s].op # "list")
  OBVIOUS
<1>4. store' = [store EXCEPT !.error = e, !.loading = b]
  BY <1>2, <1>3 DEF RequestFails
<1>5. /\ store' \in [list: [Dto -> Nat], include: BOOLEAN, loading: BOOLEAN, error: BOOLEAN]
      /\ store'.list = store.list /\ store'.include = store.include
      /\ store'.loading = b /\ store'.error = e
  BY <1>4 DEF PanelIInv, PanelTypeOK
<1>6. serial' \in BOOLEAN /\ (serial' => serial /\ reqs[s].alone /\ ~reqs[s].served)
  BY <1>1 DEF RequestFails, PanelRequest, PanelIInv, PanelTypeOK
<1>7. serial' /\ ~store'.loading /\ ~store'.error =>
          reqs[s].alone /\ store'.list = RowsOf(commentRows, store'.include)
  <2>. SUFFICES ASSUME serial', ~b, ~e
                PROVE  store.list = RowsOf(commentRows, store.include)
    BY <1>5, <1>6
  <2>1. ~store.error /\ ~store.loading
    BY <1>2, <1>3
  <2>2. Agrees(reqs[s]) /\ ~reqs[s].served
    BY <1>1, <1>6, <2>1 DEF PanelIInv, SerialInv
  <2>. QED BY <2>2 DEF Agrees, Rebuilt
<1>8. Done(s) /\ UNCHANGED <<commentRows, paneOn, editorOn>>
  BY DEF RequestFails
<1>. QED BY <1>1, <1>5, <1>6, <1>7, <1>8, EndKeeps

LEMMA UnheardKeeps == ASSUME PanelIInv, NEW s \in Slots, Unheard(s) PROVE PanelIInv'
<1>1. s \in Busy /\ Done(s) /\ UNCHANGED <<commentRows, store, editorOn, serial, paneOn>>
  BY DEF Unheard
<1>2. ~(serial /\ ~store.loading /\ ~store.error)
  BY DEF Unheard, PanelIInv, SerialInv
<1>. QED BY <1>1, <1>2, EndKeeps DEF PanelIInv, PanelTypeOK, ListingInv

LEMMA PanelStutterKeeps == ASSUME PanelIInv, UNCHANGED panelVars PROVE PanelIInv'
BY DEF panelVars, PanelIInv, PanelTypeOK, RequestInv, ListingInv, SerialInv, Busy, Rebuilt, Agrees

LEMMA PanelStepKeeps == PanelIInv /\ [PanelNext]_panelVars => PanelIInv'
BY LeaveTabKeeps, EnterTabKeeps, EditorAttachKeeps, ReopenKeeps, SetIncludeKeeps, PostKeeps,
   ReplyKeeps, DeleteThreadKeeps, ToggleKeeps, ServeRequestKeeps, ListAnswerKeeps,
   PostAnswerKeeps, ResolveAnswerKeeps, RemoveAnswerKeeps, RequestFailsKeeps, UnheardKeeps,
   PanelStutterKeeps DEF PanelNext

------------------------------------------------------------------------------
(* CommentsPanel: theorems.                                                *)

\* The inductive invariant of the store of comments.
THEOREM PanelInvariant == CommentsAssumption => (PanelSpec => []PanelIInv)
<1>. SUFFICES ASSUME CommentsAssumption PROVE PanelSpec => []PanelIInv
  OBVIOUS
<1>. QED BY PanelInitHolds, PanelStepKeeps, PTL DEF PanelSpec

\* The store, the requests and the rows have the shape of
\* comments-store.svelte.ts and of what its requests answer.
THEOREM PanelTypeCorrect == CommentsAssumption => (PanelSpec => []PanelTypeOK)
<1>. SUFFICES ASSUME CommentsAssumption PROVE PanelSpec => []PanelTypeOK
  OBVIOUS
<1>1. PanelIInv => PanelTypeOK
  BY DEF PanelIInv
<1>. QED BY <1>1, PanelInvariant, PTL

(* A list with a row for each visible comment shows each of them once, and *)
(* a reply only with its thread.                                           *)
LEMMA RowsShowExpected ==
    ASSUME CommentsAssumption, PanelTypeOK, store.list = Rebuilt, NEW c \in Comments
    PROVE  /\ Shown(c) = IF Expected(c) THEN 1 ELSE 0
           /\ Expected(c) => Copies(DtoOf(c)) > 0
<1>1. PICK i \in BOOLEAN : i = store.include
  BY DEF PanelTypeOK
<1>2. PICK l \in [Dto -> Nat] : l = store.list /\ l = RowsOf(commentRows, i)
  BY <1>1 DEF PanelTypeOK, Rebuilt
<1>3. ASSUME NEW b \in Comments
      PROVE  /\ Count(l, b) = IF b \in Visible(i) THEN 1 ELSE 0
             /\ b \in Visible(i) => l[DtoOf(b)] = 1
             /\ Listed(b) <=> b \in Visible(i)
  <2>1. [id |-> b, resolved |-> TRUE] \in Dto /\ [id |-> b, resolved |-> FALSE] \in Dto
    BY DEF Dto
  <2>2. /\ l[[id |-> b, resolved |-> FALSE]] = IF commentRows[b] = "open" THEN 1 ELSE 0
        /\ l[[id |-> b, resolved |-> TRUE]] = IF i /\ commentRows[b] = "resolved" THEN 1 ELSE 0
    BY <1>2, <2>1 DEF RowsOf
  <2>3. b \in Visible(i) <=> commentRows[b] = "open" \/ (i /\ commentRows[b] = "resolved")
    BY DEF Visible
  <2>4. Count(l, b) = IF b \in Visible(i) THEN 1 ELSE 0
    BY <2>2, <2>3 DEF Count
  <2>5. b \in Visible(i) => l[DtoOf(b)] = 1
    <3>1. CASE commentRows[b] = "open"
      <4>1. DtoOf(b) = [id |-> b, resolved |-> FALSE]
        BY <3>1 DEF DtoOf
      <4>. QED BY <3>1, <4>1, <2>2
    <3>2. CASE i /\ commentRows[b] = "resolved"
      <4>1. DtoOf(b) = [id |-> b, resolved |-> TRUE]
        BY <3>2 DEF DtoOf
      <4>. QED BY <3>2, <4>1, <2>2
    <3>. QED BY <2>3, <3>1, <3>2
  <2>6. Listed(b) => b \in Visible(i)
    <3>. SUFFICES ASSUME NEW d \in Dto, d.id = b, l[d] > 0
                  PROVE  b \in Visible(i)
      BY <1>2 DEF Listed, Copies
    <3>. QED BY <1>2, <2>3 DEF RowsOf
  <2>7. b \in Visible(i) => Listed(b)
    <3>. SUFFICES ASSUME b \in Visible(i) PROVE Listed(b)
      OBVIOUS
    <3>1. DtoOf(b) \in Dto /\ DtoOf(b).id = b
      BY DEF DtoOf, Dto
    <3>. QED BY <1>2, <2>5, <3>1 DEF Listed, Copies
  <2>. QED BY <2>4, <2>5, <2>6, <2>7
<1>4. Parent[c] # None => Parent[c] \in Comments
  BY DEF CommentsAssumption
<1>5. Shown(c) = IF Expected(c) THEN 1 ELSE 0
  BY <1>1, <1>2, <1>3, <1>4 DEF Shown, Expected
<1>6. Expected(c) => Copies(DtoOf(c)) > 0
  BY <1>1, <1>2, <1>3 DEF Expected, Copies
<1>. QED BY <1>5, <1>6

\* comments-store.svelte.ts: each answer is applied to the list in its own
\* way, and a listing only follows some; while no two requests overlap, what
\* the pane shows is what a listing would show.
THEOREM LocalEditsSuffice == CommentsAssumption => (PanelSpec => []LocalEditsAgree)
<1>. SUFFICES ASSUME CommentsAssumption PROVE PanelSpec => []LocalEditsAgree
  OBVIOUS
<1>1. PanelIInv => LocalEditsAgree
  BY RowsShowExpected DEF PanelIInv, SerialInv, LocalEditsAgree, Quiet
<1>. QED BY <1>1, PanelInvariant, PTL

------------------------------------------------------------------------------
(* NoteRoutes: the inductive invariant.                                    *)

(* The notes whose row a handler of this page changed and was not answered *)
(* about yet.                                                              *)
Pending == {n \in NoteIds :
    \E h \in Handlers : handlers[h] # None /\ handlers[h].step = "served" /\ handlers[h].note = n}

(* The page of a note shows what the server has.                           *)
Exact(n, d) == state[n] = "live" /\ d.title = title[n] /\ d.tags = noteTags[n]

(* What a page shows is what the server has, but for the pending notes.    *)
InSync(p, d) ==
    /\ p = "trash" => \A n \in NoteIds \ Pending : n \in d.listed <=> state[n] = "trash"
    /\ p \in NoteIds \ Pending => Exact(p, d)

(* A page that no load or form is about to replace, a load that was        *)
(* answered, and the document a form's redirect was answered with.         *)
SyncInv ==
    /\ form = None /\ load = None /\ ~stale /\ ~broken => InSync(at, data)
    /\ form = None /\ load # None => (load.served /\ ~load.stale => InSync(load.to, load.data))
    /\ form # None => (form.step = "read" /\ ~form.stale => Exact(form.post.note, form.data))

(* A handler whose component is there runs on the component's page.        *)
ListenInv ==
    \A h \in Handlers : handlers[h] # None =>
        /\ handlers[h].step = "served" => handlers[h].listener # "none"
        /\ handlers[h].listener = "component" /\ handlers[h].kind \in {"restore", "delete"} =>
              On("trash")

(* A row the trash page hides, or is about to hide, is not in the trash    *)
(* unless it came back to it while the page was up.                        *)
HiddenInv ==
    /\ On("trash") => \A n \in hidden : state[n] = "trash" => n \in again
    /\ \A h \in Handlers :
          handlers[h] # None /\ handlers[h].step = "served" /\ handlers[h].listener = "component"
              /\ handlers[h].kind \in {"restore", "delete"} =>
          (state[handlers[h].note] = "trash" => handlers[h].note \in again)

(* What the server said is read was read, and what is marked is under way, *)
(* done or failed.                                                         *)
MarksInv ==
    /\ data.marked \subseteq read
    /\ load # None => load.data.marked \subseteq read
    /\ form # None => form.data.marked \subseteq read
    /\ marks \subseteq read \cup posts \cup unsaved

(* The input differs from the title it came up with only if the user typed *)
(* into it, on this page; a form that was accepted has a note.             *)
FieldInv ==
    /\ field.draft # field.server => field.typed # None
    /\ field.typed \in {None, at}
    /\ form # None => ~form.post.untyped
    /\ form # None => (form.step # "sent" \/ form.post.kind # "new" => form.post.note \in NoteIds)

RoutesIInv ==
    RoutesTypeOK /\ SyncInv /\ ListenInv /\ HiddenInv /\ MarksInv /\ FieldInv

------------------------------------------------------------------------------
(* NoteRoutes: lemmas about handlers, answers, loads and forms.            *)

(* A handler's record is set, the others stay.                             *)
LEMMA HandlerSet ==
    ASSUME RoutesTypeOK, NEW h \in Handlers, NEW v \in Handler \cup {None},
           handlers' = [handlers EXCEPT ![h] = v]
    PROVE  /\ handlers' \in [Handlers -> Handler \cup {None}]
           /\ handlers'[h] = v
           /\ \A g \in Handlers \ {h} : handlers'[g] = handlers[g]
BY DEF RoutesTypeOK

LEMMA BeginsTyped ==
    ASSUME RoutesTypeOK, NEW h \in Handlers, NEW n \in NoteIds,
           NEW k \in {"restore", "delete", "trash", "open"}, HandlerBegins(h, k, n)
    PROVE  /\ handlers' \in [Handlers -> Handler \cup {None}]
           /\ handlers'[h].kind = k /\ handlers'[h].note = n
           /\ handlers'[h].step = "sent" /\ handlers'[h].listener = "component"
           /\ handlers[h] = None
           /\ \A g \in Handlers \ {h} : handlers'[g] = handlers[g]
<1>. DEFINE v == [kind |-> k, note |-> n, step |-> "sent", listener |-> "component"]
<1>1. v \in Handler /\ v.kind = k /\ v.note = n /\ v.step = "sent" /\ v.listener = "component"
  BY DEF Handler
<1>2. handlers' = [handlers EXCEPT ![h] = v] /\ handlers[h] = None
  BY DEF HandlerBegins
<1>. HIDE DEF v
<1>. QED BY <1>1, <1>2, HandlerSet

(* A handler takes its next step.                                          *)
LEMMA HandlerMoves ==
    ASSUME RoutesAssumption, RoutesTypeOK, NEW h \in Handlers, handlers[h] # None,
           NEW s \in {"sent", "served", "reloading"},
           handlers' = [handlers EXCEPT ![h].step = s]
    PROVE  /\ handlers' \in [Handlers -> Handler \cup {None}]
           /\ handlers'[h].kind = handlers[h].kind /\ handlers'[h].note = handlers[h].note
           /\ handlers'[h].listener = handlers[h].listener /\ handlers'[h].step = s
           /\ handlers'[h] # None
           /\ handlers[h] \in Handler
           /\ \A g \in Handlers \ {h} : handlers'[g] = handlers[g]
<1>. DEFINE m == [handlers[h] EXCEPT !.step = s]
<1>1. handlers[h] \in Handler
  BY DEF RoutesTypeOK
<1>2. m \in Handler /\ m.kind = handlers[h].kind /\ m.note = handlers[h].note
        /\ m.listener = handlers[h].listener /\ m.step = s
  BY <1>1 DEF Handler
<1>3. m # None
  BY <1>2 DEF RoutesAssumption
<1>4. handlers' = [handlers EXCEPT ![h] = m]
  OBVIOUS
<1>. HIDE DEF m
<1>. QED BY <1>1, <1>2, <1>3, <1>4, HandlerSet

LEMMA PartedTyped ==
    ASSUME RoutesAssumption, RoutesTypeOK
    PROVE  /\ Parted \in [Handlers -> Handler \cup {None}]
           /\ \A h \in Handlers : handlers[h] = None => Parted[h] = None
           /\ \A h \in Handlers : handlers[h] # None =>
                /\ Parted[h] # None
                /\ Parted[h].kind = handlers[h].kind /\ Parted[h].note = handlers[h].note
                /\ Parted[h].step = handlers[h].step
                /\ Parted[h].listener # "component"
                /\ Parted[h].listener = "none" => handlers[h].listener = "none"
<1>. DEFINE m(h) == [handlers[h] EXCEPT !.listener = "document"]
<1>1. ASSUME NEW h \in Handlers, handlers[h] # None
      PROVE  /\ handlers[h] \in Handler /\ m(h) \in Handler
             /\ m(h).kind = handlers[h].kind /\ m(h).note = handlers[h].note
             /\ m(h).step = handlers[h].step /\ m(h).listener = "document"
  BY <1>1 DEF RoutesTypeOK, Handler
<1>2. \A h \in Handlers : handlers[h] # None => m(h) # None
  BY <1>1 DEF RoutesAssumption
<1>3. Parted = [h \in Handlers |-> IF handlers[h] # None /\ handlers[h].listener = "component"
                                  THEN m(h) ELSE handlers[h]]
  BY DEF Parted
<1>. HIDE DEF m
<1>. QED BY <1>1, <1>2, <1>3

LEMMA OrphanedTyped ==
    ASSUME RoutesTypeOK
    PROVE  /\ Orphaned \in [Handlers -> Handler \cup {None}]
           /\ \A h \in Handlers : Orphaned[h] # None =>
                Orphaned[h].step = "sent" /\ Orphaned[h].listener = "none"
<1>1. \A h \in Handlers : handlers[h] # None => handlers[h] \in Handler
  BY DEF RoutesTypeOK
<1>2. \A h \in Handlers : handlers[h] # None =>
        [handlers[h] EXCEPT !.listener = "none"] \in Handler
  BY <1>1 DEF Handler
<1>. QED BY <1>1, <1>2 DEF Orphaned, Handler

(* What the server answers, of any page that is found.                     *)
LEMMA AnswerTyped ==
    ASSUME RoutesAssumption, RoutesTypeOK, NEW p \in Routes
    PROVE  /\ Answer(p) \in Data
           /\ p = "trash" => Answer(p).listed = Trashed
           /\ p \in NoteIds => Answer(p).title = title[p] /\ Answer(p).tags = noteTags[p]
           /\ Answer(p).marked \subseteq read
<1>1. NoData \in Data
  BY DEF NoData, Data, Text
<1>2. TrashListing \in Data /\ TrashListing.listed = Trashed /\ TrashListing.marked = {}
  BY <1>1 DEF TrashListing, NoData, Data, Trashed
<1>3. MentionListing \in Data /\ MentionListing.marked \subseteq read
  BY <1>1 DEF MentionListing, NoData, Data, Mentions, RoutesTypeOK
<1>4. ASSUME p \in NoteIds
      PROVE  /\ NoteAnswer(p) \in Data /\ NoteAnswer(p).marked = {}
             /\ NoteAnswer(p).title = title[p] /\ NoteAnswer(p).tags = noteTags[p]
  BY <1>1, <1>4 DEF NoteAnswer, NoData, Data, Text, RoutesTypeOK
<1>. QED BY <1>2, <1>3, <1>4 DEF Answer, Routes, RoutesAssumption

LEMMA LoadOfTyped ==
    ASSUME RoutesAssumption, NEW p \in Routes, NEW h \in Handlers \cup {None}
    PROVE  /\ LoadOf(p, h) \in Load /\ LoadOf(p, h) # None
           /\ LoadOf(p, h).to = p /\ ~LoadOf(p, h).served
           /\ LoadOf(p, h).data.marked = {}
<1>1. NoData \in Data /\ NoData.marked = {}
  BY DEF NoData, Data, Text
<1>2. LoadOf(p, h) \in Load /\ LoadOf(p, h).to = p /\ ~LoadOf(p, h).served
        /\ LoadOf(p, h).data = NoData
  BY <1>1 DEF LoadOf, Load
<1>. QED BY <1>1, <1>2 DEF RoutesAssumption

(* The load under way and the form under way when others change a row.     *)
LEMMA UnseenTyped ==
    ASSUME RoutesAssumption, RoutesTypeOK, Unseen
    PROVE  /\ load' \in Load \cup {None} /\ stale' = TRUE
           /\ load = None => load' = None
           /\ load # None => /\ load' # None /\ load'.stale
                             /\ load'.to = load.to /\ load'.served = load.served
                             /\ load'.data = load.data
<1>. DEFINE m == [load EXCEPT !.stale = TRUE]
<1>1. load # None => /\ m \in Load /\ m.stale
                     /\ m.to = load.to /\ m.served = load.served /\ m.data = load.data
  BY DEF RoutesTypeOK, Load
<1>. QED BY <1>1 DEF Unseen, RoutesAssumption

LEMMA MissedTyped ==
    ASSUME RoutesAssumption, RoutesTypeOK
    PROVE  /\ Missed \in Form \cup {None}
           /\ form = None => Missed = None
           /\ form # None => /\ Missed # None /\ Missed.stale
                             /\ Missed.post = form.post /\ Missed.data = form.data
                             /\ Missed.step = form.step
<1>. DEFINE m == [form EXCEPT !.stale = TRUE]
<1>1. form # None => /\ m \in Form /\ m.stale
                     /\ m.post = form.post /\ m.data = form.data /\ m.step = form.step
  BY DEF RoutesTypeOK, Form
<1>. QED BY <1>1 DEF Missed, RoutesAssumption

LEMMA SubmitTyped ==
    ASSUME RoutesAssumption, NEW p \in FormPost, Submit(p)
    PROVE  /\ form' \in Form /\ form' # None
           /\ form'.step = "sent" /\ form'.post = p /\ form'.data.marked = {}
           /\ UNCHANGED <<rowsOfNotes, route, load, trashPage, again, inboxPage, handlers>>
<1>1. NoData \in Data /\ NoData.marked = {}
  BY DEF NoData, Data, Text
<1>2. form' \in Form /\ form'.step = "sent" /\ form'.post = p /\ form'.data = NoData
  BY <1>1 DEF Submit, Form
<1>. QED BY <1>1, <1>2 DEF Submit, RoutesAssumption

(* A form is sent, from one of the three of a page.                        *)
SubmitStep == EnterTitle \/ BlurTitle \/ (\E t \in Tags : SubmitTags(t)) \/ NewNoteForm

LEMMA SubmitStepTyped ==
    ASSUME RoutesAssumption, RoutesTypeOK, SubmitStep
    PROVE  /\ form' \in Form /\ form' # None
           /\ form'.step = "sent" /\ form'.data.marked = {}
           /\ UNCHANGED <<rowsOfNotes, route, load, trashPage, again, inboxPage, handlers>>
<1>1. ASSUME NEW b \in BOOLEAN, OnNote PROVE TitlePost(b) \in FormPost
  BY <1>1 DEF TitlePost, FormPost, OnNote, RoutesTypeOK
<1>2. CASE EnterTitle \/ BlurTitle
  BY <1>1, <1>2, SubmitTyped DEF EnterTitle, BlurTitle
<1>3. ASSUME NEW t \in Tags, SubmitTags(t)
      PROVE  \E p \in FormPost : Submit(p)
  <2>1. ASSUME NEW s \in SUBSET Tags PROVE TagsPost(s) \in FormPost
    BY <1>3 DEF TagsPost, FormPost, SubmitTags, OnNote, Text
  <2>2. data.tags \in SUBSET Tags
    BY DEF Data, RoutesTypeOK
  <2>. QED BY <1>3, <2>1, <2>2 DEF SubmitTags
<1>4. [kind |-> "new", note |-> None, title |-> None, tags |-> {}, untyped |-> FALSE] \in FormPost
  BY DEF FormPost, Text
<1>. QED BY <1>2, <1>3, <1>4, SubmitTyped DEF SubmitStep, NewNoteForm

------------------------------------------------------------------------------
(* NoteRoutes: what keeps the invariant.                                   *)

(* Every step keeps the types.                                             *)
LEMMA RoutesTypeKeeps ==
    ASSUME RoutesAssumption, RoutesTypeOK, FieldInv, RoutesNext PROVE RoutesTypeOK'
<1>. USE DEF RoutesTypeOK, rowsOfNotes, route, trashPage, inboxPage, forms
<1>1. acts' = acts
  BY DEF RoutesNext
<1>2. None \in Handlers \cup {None} /\ NoData \in Data
  BY DEF NoData, Data, Text
<1>3. at \in Routes /\ \A n \in NoteIds : n \in Routes
  BY DEF Routes
<1>4. NoField \in [draft: Text, server: Text, typed: NoteIds \cup {None}, submitting: BOOLEAN]
      /\ NoDialog \in [note: NoteIds \cup {None}, submitting: BOOLEAN]
      /\ \A t \in Text : FieldOf(t) \in
            [draft: Text, server: Text, typed: NoteIds \cup {None}, submitting: BOOLEAN]
  BY DEF NoField, NoDialog, FieldOf, Text
<1>5. ASSUME NEW p \in Routes, Navigate(p) PROVE RoutesTypeOK'
  BY <1>1, <1>2, <1>5, LoadOfTyped DEF Navigate
<1>6. CASE ServeLoad
  <2>1. load \in Load /\ load.to \in Routes
    BY <1>6 DEF ServeLoad, Load
  <2>2. load' \in Load
    BY <1>6, <2>1, AnswerTyped DEF ServeLoad, Load
  <2>. QED BY <1>1, <1>6, <2>2 DEF ServeLoad
<1>7. CASE LoadArrives
  <2>1. load \in Load /\ load.to \in Routes /\ load.data \in Data /\ load.data.title \in Text
        /\ load.stale \in BOOLEAN
    BY <1>7 DEF LoadArrives, Load, Data
  <2>2. handlers' \in [Handlers -> Handler \cup {None}]
    BY <1>7, PartedTyped DEF LoadArrives
  <2>3. hidden' \in SUBSET NoteIds /\ again' \in SUBSET NoteIds
        /\ marks' \in SUBSET NoteIds /\ unsaved' \in SUBSET NoteIds
    BY <1>7 DEF LoadArrives, Mounts
  <2>4. dialog' \in [note: NoteIds \cup {None}, submitting: BOOLEAN]
        /\ busy' \in NoteIds \cup {None}
    BY <1>4, <1>7, <2>1 DEF LoadArrives, Mounts
  <2>5. field' \in [draft: Text, server: Text, typed: NoteIds \cup {None}, submitting: BOOLEAN]
    BY <1>4, <1>7, <2>1 DEF LoadArrives
  <2>. QED BY <1>1, <1>7, <2>1, <2>2, <2>3, <2>4, <2>5 DEF LoadArrives
<1>8. CASE LoadFails
  <2>1. load.to \in Routes
    BY <1>8 DEF LoadFails, Load
  <2>. QED BY <1>1, <1>2, <1>4, <1>8, <2>1, PartedTyped DEF LoadFails, Mounts
<1>9. ASSUME NEW h \in Handlers, NEW n \in NoteIds, RestoreNote(h, n) PROVE RoutesTypeOK'
  BY <1>1, <1>9, BeginsTyped DEF RestoreNote
<1>10. ASSUME NEW h \in Handlers, NEW n \in NoteIds, Pick(h, n) PROVE RoutesTypeOK'
  <2>1. [kind |-> "open", note |-> n, step |-> "reloading", listener |-> "component"] \in Handler
    BY DEF Handler
  <2>. QED BY <1>1, <1>3, <1>10, <2>1, HandlerSet, LoadOfTyped DEF Pick
<1>11. ASSUME NEW n \in NoteIds, AskDelete(n) PROVE RoutesTypeOK'
  BY <1>1, <1>11 DEF AskDelete
<1>12. ASSUME NEW n \in NoteIds, ServeRead(n) \/ ReadFails(n) PROVE RoutesTypeOK'
  BY <1>1, <1>12 DEF ServeRead, ReadFails
<1>13. CASE AskDiscard
  BY <1>1, <1>13 DEF AskDiscard
<1>14. CASE CancelDelete
  BY <1>1, <1>4, <1>14 DEF CancelDelete
<1>15. ASSUME NEW h \in Handlers, ConfirmDelete(h) PROVE RoutesTypeOK'
  <2>1. dialog.note \in NoteIds
    BY <1>15 DEF ConfirmDelete
  <2>. QED BY <1>1, <1>15, <2>1, BeginsTyped DEF ConfirmDelete
<1>16. ASSUME NEW h \in Handlers, ConfirmDiscard(h) PROVE RoutesTypeOK'
  <2>1. handlers' \in [Handlers -> Handler \cup {None}]
    BY <1>16, BeginsTyped DEF ConfirmDiscard
  <2>2. busy' \in NoteIds \cup {None}
        /\ dialog' \in [note: NoteIds \cup {None}, submitting: BOOLEAN]
    BY <1>16 DEF ConfirmDiscard
  <2>. QED BY <1>1, <1>16, <2>1, <2>2 DEF ConfirmDiscard
<1>17. ASSUME NEW h \in Handlers, Serve(h) PROVE RoutesTypeOK'
  <2>1. handlers[h] \in Handler /\ handlers[h].note \in NoteIds
    BY <1>17 DEF Serve, Handler
  <2>2. handlers' \in [Handlers -> Handler \cup {None}]
    BY <1>17, HandlerSet, HandlerMoves DEF Serve
  <2>3. state' \in [NoteIds -> {"none", "live", "trash", "gone"}]
    BY <1>17, <2>1 DEF Serve, Becomes, Handler
  <2>4. again' \in SUBSET NoteIds
    BY <1>17, <2>1 DEF Serve, Again
  <2>5. load' \in Load \cup {None} /\ stale' \in BOOLEAN
    BY <1>17, UnseenTyped DEF Serve
  <2>6. form' \in Form \cup {None}
    BY <1>17, MissedTyped DEF Serve
  <2>. QED BY <1>1, <1>17, <2>2, <2>3, <2>4, <2>5, <2>6 DEF Serve
<1>18. ASSUME NEW h \in Handlers, Answered(h) PROVE RoutesTypeOK'
  <2>1. handlers' \in [Handlers -> Handler \cup {None}] /\ handlers[h] \in Handler
    BY <1>18, HandlerMoves DEF Answered
  <2>2. "trash" \in Routes
    BY DEF Routes
  <2>3. load' \in Load
    BY <1>3, <1>18, <2>2, LoadOfTyped DEF Answered
  <2>4. hidden' \in SUBSET NoteIds
    BY <1>18, <2>1 DEF Answered, Handler
  <2>. QED BY <1>1, <1>4, <1>18, <2>1, <2>3, <2>4 DEF Answered
<1>19. ASSUME NEW h \in Handlers, HandlerFails(h) PROVE RoutesTypeOK'
  <2>1. handlers' \in [Handlers -> Handler \cup {None}]
    BY <1>19, HandlerSet DEF HandlerFails
  <2>2. load' \in Load \cup {None} /\ stale' \in BOOLEAN
    BY <1>19, UnseenTyped DEF HandlerFails
  <2>. QED BY <1>1, <1>19, <2>1, <2>2 DEF HandlerFails
<1>20. ASSUME NEW h \in Handlers, HandlerEnds(h) PROVE RoutesTypeOK'
  <2>1. handlers' \in [Handlers -> Handler \cup {None}]
    BY <1>20, HandlerSet DEF HandlerEnds
  <2>2. load' \in Load \cup {None}
    BY <1>2, <1>3, <1>20, LoadOfTyped DEF HandlerEnds
  <2>. QED BY <1>1, <1>20, <2>1, <2>2 DEF HandlerEnds
<1>21. ASSUME NEW t \in Text, TypeTitle(t) PROVE RoutesTypeOK'
  BY <1>1, <1>21 DEF TypeTitle, OnNote
<1>22. CASE EscapeTitle
  BY <1>1, <1>22 DEF EscapeTitle
<1>23. CASE SubmitStep
  <2>1. field' \in [draft: Text, server: Text, typed: NoteIds \cup {None}, submitting: BOOLEAN]
    BY <1>23 DEF SubmitStep, EnterTitle, BlurTitle, SubmitTags, NewNoteForm
  <2>. QED BY <1>1, <1>23, <2>1, SubmitStepTyped
<1>24. ASSUME NEW n \in NoteIds, ServeForm(n) PROVE RoutesTypeOK'
  <2>1. form \in Form /\ form.post \in FormPost
    BY <1>24 DEF ServeForm, Form
  <2>2. form' \in Form
    BY <1>24, <2>1 DEF ServeForm, Form, FormPost
  <2>3. /\ state' \in [NoteIds -> {"none", "live", "trash", "gone"}]
        /\ title' \in [NoteIds -> Titles] /\ noteTags' \in [NoteIds -> SUBSET Tags]
    BY <1>24, <2>1
       DEF ServeForm, Accepts, Renames, Retags, Creates, FormPost, Text, RoutesAssumption
  <2>. QED BY <1>1, <1>24, <2>2, <2>3 DEF ServeForm
<1>25. CASE Redirected
  <2>1. form \in Form /\ form.post.note \in Routes
    BY <1>3, <1>25 DEF Redirected, FieldInv
  <2>2. form' \in Form
    BY <1>25, <2>1, AnswerTyped DEF Redirected, Form
  <2>. QED BY <1>1, <1>25, <2>2 DEF Redirected
<1>26. CASE FormArrives
  <2>1. form \in Form /\ form.post.note \in NoteIds
    BY <1>26 DEF FormArrives, FieldInv
  <2>2. form.data \in Data /\ form.data.title \in Text /\ form.stale \in BOOLEAN
    BY <2>1 DEF Form, Data
  <2>. QED BY <1>1, <1>3, <1>4, <1>26, <2>1, <2>2, OrphanedTyped DEF FormArrives, Mounts
<1>27. CASE FormFails
  BY <1>1, <1>2, <1>4, <1>27, OrphanedTyped DEF FormFails, Mounts
<1>28. ASSUME NEW n \in NoteIds, OthersDo(n) PROVE RoutesTypeOK'
  <2>1. /\ state' \in [NoteIds -> {"none", "live", "trash", "gone"}]
        /\ title' \in [NoteIds -> Titles] /\ noteTags' \in [NoteIds -> SUBSET Tags]
        /\ named' \in SUBSET NoteIds /\ read' \in SUBSET NoteIds
    BY <1>28 DEF OthersDo
  <2>2. others' \in 0 .. MaxOthers
    BY <1>28 DEF OthersDo, RoutesAssumption
  <2>3. again' \in SUBSET NoteIds
    BY <1>28 DEF OthersDo, Again
  <2>. QED BY <1>1, <1>28, <2>1, <2>2, <2>3, UnseenTyped, MissedTyped DEF OthersDo
<1>. QED
  BY <1>5, <1>6, <1>7, <1>8, <1>9, <1>10, <1>11, <1>12, <1>13, <1>14, <1>15, <1>16, <1>17,
     <1>18, <1>19, <1>20, <1>21, <1>22, <1>23, <1>24, <1>25, <1>26, <1>27, <1>28
     DEF RoutesNext, RoutesStep, SubmitStep

(* A title is typed for the note it is saved for.                          *)
LEMMA FieldKeeps ==
    ASSUME RoutesAssumption, RoutesTypeOK, FieldInv, RoutesNext PROVE FieldInv'
<1>. USE DEF RoutesTypeOK, FieldInv
<1>1. /\ field \in [draft: Text, server: Text, typed: NoteIds \cup {None}, submitting: BOOLEAN]
      /\ form \in Form \cup {None} /\ None \notin Form
  BY DEF RoutesAssumption
<1>2. NoField.draft = NoField.server /\ NoField.typed = None
      /\ \A t : FieldOf(t).draft = FieldOf(t).server /\ FieldOf(t).typed = None
  BY DEF NoField, FieldOf
<1>3. ASSUME UNCHANGED <<field, at, form>> PROVE FieldInv'
  BY <1>3
<1>4. ASSUME UNCHANGED <<field, at>>, form' = Missed PROVE FieldInv'
  BY <1>4, MissedTyped
<1>5. CASE LoadArrives
  <2>1. field'.draft # field'.server => field'.typed # None
    BY <1>2, <1>5 DEF LoadArrives
  <2>2. field'.typed \in {None, at'}
    BY <1>2, <1>5 DEF LoadArrives, Routes, RoutesAssumption
  <2>. QED BY <1>5, <2>1, <2>2 DEF LoadArrives
<1>6. CASE LoadFails
  BY <1>2, <1>6 DEF LoadFails
<1>7. ASSUME NEW t \in Text, TypeTitle(t) PROVE FieldInv'
  BY <1>1, <1>7 DEF TypeTitle, OnNote, route, RoutesAssumption
<1>8. CASE EscapeTitle
  BY <1>1, <1>8 DEF EscapeTitle, route
<1>9. CASE EnterTitle \/ BlurTitle
  <2>1. at \in NoteIds /\ field.draft \in Text
    BY <1>1, <1>9 DEF EnterTitle, BlurTitle, OnNote
  <2>2. ASSUME NEW b \in BOOLEAN
        PROVE  TitlePost(b) \in FormPost /\ TitlePost(b).note = at
    BY <2>1 DEF TitlePost, FormPost
  <2>3. ~TitlePost(FALSE).untyped
    BY DEF TitlePost
  <2>4. ASSUME field.draft # field.server PROVE ~TitlePost(TRUE).untyped
    BY <2>4 DEF TitlePost
  <2>5. ~form'.post.untyped /\ form'.post.note \in NoteIds
    BY <1>9, <2>1, <2>2, <2>3, <2>4, SubmitTyped DEF EnterTitle, BlurTitle
  <2>6. UNCHANGED at /\ field' = [field EXCEPT !.submitting = TRUE]
    BY <1>9 DEF EnterTitle, BlurTitle, Submit, route
  <2>. QED BY <1>1, <2>5, <2>6
<1>10. ASSUME NEW t \in Tags, SubmitTags(t) PROVE FieldInv'
  <2>1. ASSUME NEW s \in SUBSET Tags
        PROVE  TagsPost(s) \in FormPost /\ TagsPost(s).note \in NoteIds /\ ~TagsPost(s).untyped
    BY <1>10 DEF TagsPost, FormPost, SubmitTags, OnNote, Text
  <2>2. data.tags \in SUBSET Tags
    BY DEF Data
  <2>3. form'.post.note \in NoteIds /\ ~form'.post.untyped /\ UNCHANGED at
    BY <1>10, <2>1, <2>2, SubmitTyped DEF SubmitTags, route
  <2>. QED BY <1>10, <2>3 DEF SubmitTags
<1>11. CASE NewNoteForm
  <2>. DEFINE p == [kind |-> "new", note |-> None, title |-> None, tags |-> {}, untyped |-> FALSE]
  <2>1. p \in FormPost /\ p.kind = "new" /\ ~p.untyped
    BY DEF FormPost, Text
  <2>. HIDE DEF p
  <2>2. Submit(p) /\ UNCHANGED field
    BY <1>11 DEF NewNoteForm, p
  <2>3. form'.post = p /\ form'.step = "sent" /\ UNCHANGED at
    BY <2>1, <2>2, SubmitTyped DEF route
  <2>. QED BY <2>1, <2>2, <2>3
<1>12. ASSUME NEW n \in NoteIds, ServeForm(n) PROVE FieldInv'
  <2>1. form' = [form EXCEPT !.step = "served", !.post.note = n] /\ form \in Form
    BY <1>1, <1>12 DEF ServeForm
  <2>2. form'.post.untyped = form.post.untyped /\ form'.post.note = n
    BY <2>1 DEF Form, FormPost
  <2>. QED BY <1>12, <2>2 DEF ServeForm, route
<1>13. CASE Redirected
  <2>1. form'.post = form.post
    BY <1>1, <1>13 DEF Redirected, Form
  <2>. QED BY <1>13, <2>1 DEF Redirected, route
<1>14. CASE FormArrives
  BY <1>2, <1>14 DEF FormArrives
<1>15. CASE FormFails
  BY <1>2, <1>15 DEF FormFails
<1>16. ASSUME NEW h \in Handlers, Serve(h) PROVE FieldInv'
  BY <1>4, <1>16 DEF Serve
<1>17. ASSUME NEW n \in NoteIds, OthersDo(n) PROVE FieldInv'
  BY <1>4, <1>17 DEF OthersDo
<1>18. ASSUME NEW h \in Handlers, NEW n \in NoteIds, RestoreNote(h, n) \/ Pick(h, n)
       PROVE  FieldInv'
  BY <1>3, <1>18 DEF RestoreNote, Pick, route, forms
<1>19. ASSUME NEW h \in Handlers,
              ConfirmDelete(h) \/ ConfirmDiscard(h) \/ Answered(h) \/ HandlerFails(h) \/ HandlerEnds(h)
       PROVE  FieldInv'
  BY <1>3, <1>19 DEF ConfirmDelete, ConfirmDiscard, Answered, HandlerFails, HandlerEnds, route, forms
<1>20. ASSUME NEW n \in NoteIds, AskDelete(n) \/ ServeRead(n) \/ ReadFails(n) PROVE FieldInv'
  BY <1>3, <1>20 DEF AskDelete, ServeRead, ReadFails, route, forms
<1>21. ASSUME NEW p \in Routes, Navigate(p) PROVE FieldInv'
  BY <1>3, <1>21 DEF Navigate, route, forms
<1>22. CASE ServeLoad \/ AskDiscard \/ CancelDelete
  BY <1>3, <1>22 DEF ServeLoad, AskDiscard, CancelDelete, route, forms
<1>. QED
  BY <1>5, <1>6, <1>7, <1>8, <1>9, <1>10, <1>11, <1>12, <1>13, <1>14, <1>15, <1>16, <1>17,
     <1>18, <1>19, <1>20, <1>21, <1>22 DEF RoutesNext, RoutesStep

(* What is marked as read is, or is on its way.                            *)
LEMMA MarksKeeps ==
    ASSUME RoutesAssumption, RoutesTypeOK, FieldInv, MarksInv, RoutesNext PROVE MarksInv'
<1>. USE DEF MarksInv
<1>1. NoData.marked = {}
  BY DEF NoData
<1>2. ASSUME UNCHANGED <<read, data, load, form, marks, posts, unsaved>> PROVE MarksInv'
  BY <1>2
<1>3. ASSUME UNCHANGED <<read, data, form, marks, posts, unsaved>>,
             NEW p \in Routes, NEW h \in Handlers \cup {None}, load' = LoadOf(p, h)
      PROVE  MarksInv'
  BY <1>3, LoadOfTyped
<1>4. at \in Routes /\ "trash" \in Routes /\ None \in Handlers \cup {None}
      /\ \A n \in NoteIds : n \in Routes
  BY DEF Routes, RoutesTypeOK
<1>5. ASSUME NEW p \in Routes, Navigate(p) PROVE MarksInv'
  BY <1>3, <1>4, <1>5 DEF Navigate, rowsOfNotes, route, inboxPage, forms
<1>6. CASE ServeLoad
  <2>1. load \in Load /\ load.to \in Routes
    BY <1>6 DEF ServeLoad, Load, RoutesTypeOK
  <2>2. load'.data = Answer(load.to)
    BY <1>6, <2>1 DEF ServeLoad, Load
  <2>3. load'.data.marked \subseteq read
    BY <2>1, <2>2, AnswerTyped
  <2>. QED BY <1>6, <2>3 DEF ServeLoad, rowsOfNotes, route, inboxPage, forms
<1>7. CASE LoadArrives
  BY <1>7 DEF LoadArrives, Mounts, rowsOfNotes
<1>8. CASE LoadFails
  BY <1>1, <1>8 DEF LoadFails, Mounts, rowsOfNotes
<1>9. ASSUME NEW h \in Handlers, NEW n \in NoteIds, Pick(h, n) PROVE MarksInv'
  <2>1. load' = LoadOf(n, h) /\ load'.data.marked = {}
    BY <1>4, <1>9, LoadOfTyped DEF Pick
  <2>2. marks' \subseteq read \cup posts' \cup unsaved'
    BY <1>9 DEF Pick, inboxPage
  <2>. QED BY <1>9, <2>1, <2>2 DEF Pick, rowsOfNotes, route, forms
<1>10. ASSUME NEW n \in NoteIds, ServeRead(n) \/ ReadFails(n) PROVE MarksInv'
  <2>1. read \subseteq read' /\ marks' \subseteq read' \cup posts' \cup unsaved'
    BY <1>10 DEF ServeRead, ReadFails, rowsOfNotes
  <2>. QED BY <1>10, <2>1 DEF ServeRead, ReadFails, rowsOfNotes, route, forms
<1>11. ASSUME NEW h \in Handlers, Serve(h) PROVE MarksInv'
  <2>1. load' # None => load # None /\ load'.data = load.data
    BY <1>11, UnseenTyped DEF Serve
  <2>2. form' # None => form # None /\ form'.data = form.data
    BY <1>11, MissedTyped DEF Serve
  <2>. QED BY <1>11, <2>1, <2>2 DEF Serve, inboxPage
<1>12. ASSUME NEW n \in NoteIds, OthersDo(n) PROVE MarksInv'
  <2>1. load' # None => load # None /\ load'.data = load.data
    BY <1>12, UnseenTyped DEF OthersDo
  <2>2. form' # None => form # None /\ form'.data = form.data
    BY <1>12, MissedTyped DEF OthersDo
  <2>3. read \subseteq read'
    BY <1>12 DEF OthersDo
  <2>. QED BY <1>12, <2>1, <2>2, <2>3 DEF OthersDo, inboxPage
<1>13. ASSUME NEW h \in Handlers, Answered(h) PROVE MarksInv'
  BY <1>3, <1>4, <1>13 DEF Answered, rowsOfNotes, route, inboxPage, forms
<1>14. ASSUME NEW h \in Handlers, HandlerFails(h) PROVE MarksInv'
  <2>1. load' # None => load # None /\ load'.data = load.data
    BY <1>14, UnseenTyped DEF HandlerFails
  <2>. QED BY <1>14, <2>1 DEF HandlerFails, rowsOfNotes, inboxPage, forms
<1>15. ASSUME NEW h \in Handlers, HandlerEnds(h) PROVE MarksInv'
  BY <1>2, <1>3, <1>4, <1>15 DEF HandlerEnds, rowsOfNotes, route, inboxPage, forms
<1>16. CASE SubmitStep
  BY <1>16, SubmitStepTyped DEF rowsOfNotes, route, inboxPage
<1>17. ASSUME NEW n \in NoteIds, ServeForm(n) PROVE MarksInv'
  <2>1. form'.data = form.data
    BY <1>17 DEF ServeForm, Form, RoutesTypeOK
  <2>. QED BY <1>17, <2>1 DEF ServeForm, route, inboxPage
<1>18. CASE Redirected
  <2>1. form.post.note \in NoteIds /\ form'.data = Answer(form.post.note)
    BY <1>18 DEF Redirected, Form, RoutesTypeOK, FieldInv
  <2>2. form'.data.marked \subseteq read
    BY <1>4, <2>1, AnswerTyped
  <2>. QED BY <1>18, <2>2 DEF Redirected, rowsOfNotes, route, inboxPage
<1>19. CASE FormArrives
  BY <1>19 DEF FormArrives, Mounts, rowsOfNotes
<1>20. CASE FormFails
  BY <1>1, <1>20 DEF FormFails, Mounts, rowsOfNotes
<1>21. ASSUME NEW h \in Handlers, NEW n \in NoteIds, RestoreNote(h, n) PROVE MarksInv'
  BY <1>2, <1>21 DEF RestoreNote, rowsOfNotes, route, inboxPage, forms
<1>22. ASSUME NEW h \in Handlers, ConfirmDelete(h) \/ ConfirmDiscard(h) PROVE MarksInv'
  BY <1>2, <1>22 DEF ConfirmDelete, ConfirmDiscard, rowsOfNotes, route, inboxPage, forms
<1>23. ASSUME NEW n \in NoteIds, AskDelete(n) PROVE MarksInv'
  BY <1>2, <1>23 DEF AskDelete, rowsOfNotes, route, inboxPage, forms
<1>24. CASE AskDiscard \/ CancelDelete
  BY <1>2, <1>24 DEF AskDiscard, CancelDelete, rowsOfNotes, route, inboxPage, forms
<1>25. ASSUME NEW t \in Text, TypeTitle(t) \/ EscapeTitle PROVE MarksInv'
  BY <1>2, <1>25 DEF TypeTitle, EscapeTitle, rowsOfNotes, route, inboxPage
<1>26. None \in Text
  BY DEF Text
<1>. QED
  BY <1>5, <1>6, <1>7, <1>8, <1>9, <1>10, <1>11, <1>12, <1>13, <1>14, <1>15, <1>16,
     <1>17, <1>18, <1>19, <1>20, <1>21, <1>22, <1>23, <1>24, <1>25, <1>26
     DEF RoutesNext, RoutesStep, SubmitStep

(* A handler leaves its component when the page is replaced.               *)
LEMMA ListenKeeps ==
    ASSUME RoutesAssumption, RoutesTypeOK, ListenInv, RoutesNext PROVE ListenInv'
<1>. USE DEF ListenInv
<1>1. ASSUME UNCHANGED <<at, broken, handlers>> PROVE ListenInv'
  BY <1>1 DEF On
<1>2. ASSUME UNCHANGED <<at, broken>>, NEW h \in Handlers,
             \A g \in Handlers \ {h} : handlers'[g] = handlers[g],
             handlers'[h] # None =>
                /\ handlers'[h].step = "served" => handlers'[h].listener # "none"
                /\ handlers'[h].listener = "component" /\ handlers'[h].kind \in {"restore", "delete"} =>
                      On("trash")
      PROVE  ListenInv'
  BY <1>2 DEF On
<1>3. ASSUME NEW h \in Handlers, handlers[h] # None, NEW s \in {"sent", "served", "reloading"},
             handlers' = [handlers EXCEPT ![h].step = s],
             s = "served" => handlers[h].listener # "none", UNCHANGED <<at, broken>>
      PROVE  ListenInv'
  BY <1>2, <1>3, HandlerMoves
<1>4. ASSUME NEW h \in Handlers, handlers' = [handlers EXCEPT ![h] = None], UNCHANGED <<at, broken>>
      PROVE  ListenInv'
  BY <1>2, <1>4, HandlerSet
<1>5. ASSUME NEW h \in Handlers, NEW n \in NoteIds,
              NEW k \in {"restore", "delete", "trash"}, HandlerBegins(h, k, n),
              UNCHANGED <<at, broken>>, k # "trash" => On("trash")
       PROVE  ListenInv'
  <2>1. handlers'[h].step = "sent" /\ handlers'[h].kind = k
    BY <1>5, BeginsTyped
  <2>. QED BY <1>2, <1>5, <2>1, BeginsTyped
<1>6. CASE LoadArrives
  <2>1. CASE Stays(load.to)
    <3>1. UNCHANGED handlers /\ ~broken' /\ (at = "trash" => at' = "trash")
      BY <1>6, <2>1 DEF LoadArrives, Stays, RoutesAssumption
    <3>. QED BY <3>1 DEF On
  <2>2. CASE ~Stays(load.to)
    <3>1. handlers' = Parted
      BY <1>6, <2>2 DEF LoadArrives
    <3>. QED BY <3>1, PartedTyped
  <2>. QED BY <2>1, <2>2
<1>7. CASE LoadFails
  BY <1>7, PartedTyped DEF LoadFails
<1>8. CASE FormArrives \/ FormFails
  BY <1>8, OrphanedTyped DEF FormArrives, FormFails
<1>9. ASSUME NEW h \in Handlers, NEW n \in NoteIds, RestoreNote(h, n) PROVE ListenInv'
  BY <1>9, <1>5 DEF RestoreNote, route
<1>10. ASSUME NEW h \in Handlers, ConfirmDelete(h) PROVE ListenInv'
  <2>1. dialog.note \in NoteIds
    BY <1>10 DEF ConfirmDelete, RoutesTypeOK
  <2>. QED BY <1>10, <1>5, <2>1 DEF ConfirmDelete, route
<1>11. ASSUME NEW h \in Handlers, ConfirmDiscard(h) PROVE ListenInv'
  BY <1>1, <1>11, <1>5 DEF ConfirmDiscard, route
<1>12. ASSUME NEW h \in Handlers, NEW n \in NoteIds, Pick(h, n) PROVE ListenInv'
  <2>1. [kind |-> "open", note |-> n, step |-> "reloading", listener |-> "component"] \in Handler
    BY DEF Handler
  <2>. QED BY <1>2, <1>12, <2>1, HandlerSet DEF Pick, route
<1>13. ASSUME NEW h \in Handlers, Serve(h) PROVE ListenInv'
  BY <1>3, <1>4, <1>13 DEF Serve
<1>14. ASSUME NEW h \in Handlers, Answered(h) PROVE ListenInv'
  BY <1>3, <1>14 DEF Answered, route
<1>15. ASSUME NEW h \in Handlers, HandlerFails(h) \/ HandlerEnds(h) PROVE ListenInv'
  BY <1>4, <1>15 DEF HandlerFails, HandlerEnds, route
<1>16. ASSUME NEW p \in Routes, Navigate(p) PROVE ListenInv'
  BY <1>1, <1>16 DEF Navigate, route
<1>17. ASSUME NEW n \in NoteIds,
              AskDelete(n) \/ ServeRead(n) \/ ReadFails(n) \/ ServeForm(n) \/ OthersDo(n)
       PROVE  ListenInv'
  BY <1>1, <1>17 DEF AskDelete, ServeRead, ReadFails, ServeForm, OthersDo, route
<1>18. ASSUME NEW t \in Text, TypeTitle(t) PROVE ListenInv'
  BY <1>1, <1>18 DEF TypeTitle, route
<1>19. CASE ServeLoad \/ AskDiscard \/ CancelDelete \/ EscapeTitle \/ Redirected
  BY <1>1, <1>19 DEF ServeLoad, AskDiscard, CancelDelete, EscapeTitle, Redirected, route
<1>20. CASE SubmitStep
  BY <1>1, <1>20, SubmitStepTyped DEF route
<1>. QED
  BY <1>6, <1>7, <1>8, <1>9, <1>10, <1>11, <1>12,
     <1>13, <1>14, <1>15, <1>16, <1>17, <1>18, <1>19, <1>20 DEF RoutesNext, RoutesStep, SubmitStep

(* A row is hidden for good only when it left the trash.                   *)
LEMMA HiddenKeeps ==
    ASSUME RoutesAssumption, RoutesTypeOK, FieldInv, ListenInv, HiddenInv, RoutesNext
    PROVE  HiddenInv'
<1>. DEFINE Hides(hs, h) ==
        hs[h] # None /\ hs[h].step = "served" /\ hs[h].listener = "component"
            /\ hs[h].kind \in {"restore", "delete"}
<1>1. /\ On("trash") => \A n \in hidden : state[n] = "trash" => n \in again
      /\ \A h \in Handlers : Hides(handlers, h) =>
            (state[handlers[h].note] = "trash" => handlers[h].note \in again)
  BY DEF HiddenInv
<1>2. ASSUME On("trash")' => \A n \in hidden' : state'[n] = "trash" => n \in again',
             \A h \in Handlers : Hides(handlers', h) =>
                (state'[handlers'[h].note] = "trash" => handlers'[h].note \in again')
      PROVE  HiddenInv'
  BY <1>2 DEF HiddenInv
<1>3. ASSUME UNCHANGED <<at, broken, hidden, state, again>>,
             \A h \in Handlers : Hides(handlers', h) => handlers'[h] = handlers[h]
      PROVE  HiddenInv'
  BY <1>1, <1>2, <1>3 DEF On
<1>4. ASSUME NEW h \in Handlers, UNCHANGED <<at, broken, hidden, state, again>>,
             handlers' = [handlers EXCEPT ![h] = None]
      PROVE  HiddenInv'
  BY <1>3, <1>4, HandlerSet
<1>5. ASSUME NEW h \in Handlers, NEW n \in NoteIds,
             NEW k \in {"restore", "delete", "trash"}, HandlerBegins(h, k, n),
             UNCHANGED <<at, broken, hidden, state, again>>
      PROVE  HiddenInv'
  <2>1. \A g \in Handlers : Hides(handlers', g) => handlers'[g] = handlers[g]
    BY <1>5, BeginsTyped
  <2>. QED BY <1>3, <1>5, <2>1
\* One row of the server changes, and if it comes into the trash, that is noted.
<1>6. ASSUME UNCHANGED <<at, broken, hidden>>, NEW n \in NoteIds,
             \A m \in NoteIds \ {n} : state'[m] = state[m],
             again \subseteq again', state'[n] = "trash" /\ On("trash") => n \in again',
             \A g \in Handlers : Hides(handlers', g) =>
                \/ Hides(handlers, g) /\ handlers'[g].note = handlers[g].note
                \/ state'[handlers'[g].note] # "trash"
      PROVE  HiddenInv'
  <2>1. On("trash")' = On("trash")
    BY <1>6 DEF On
  <2>2. \A m \in hidden : m \in NoteIds
    BY DEF RoutesTypeOK
  <2>3. On("trash")' => \A m \in hidden' : state'[m] = "trash" => m \in again'
    BY <1>1, <1>6, <2>1, <2>2
  <2>4. ASSUME NEW g \in Handlers, Hides(handlers', g), state'[handlers'[g].note] = "trash"
        PROVE  handlers'[g].note \in again'
    <3>1. Hides(handlers, g) /\ handlers'[g].note = handlers[g].note
      BY <1>6, <2>4
    <3>2. On("trash")
      BY <3>1 DEF ListenInv
    <3>3. handlers[g].note \in NoteIds
      BY <3>1 DEF RoutesTypeOK, Handler
    <3>. QED BY <1>1, <1>6, <2>4, <3>1, <3>2, <3>3
  <2>. QED BY <1>2, <2>3, <2>4
<1>. HIDE DEF Hides
<1>7. CASE LoadArrives
  <2>1. CASE Stays(load.to)
    <3>1. UNCHANGED <<hidden, again, state, handlers>> /\ (On("trash")' => On("trash"))
      BY <1>7, <2>1 DEF LoadArrives, Stays, On, rowsOfNotes, RoutesAssumption
    <3>. QED BY <1>1, <1>2, <3>1 DEF Hides
  <2>2. CASE ~Stays(load.to)
    <3>1. hidden' = {} /\ handlers' = Parted
      BY <1>7, <2>2 DEF LoadArrives, Mounts
    <3>. QED BY <1>2, <3>1, PartedTyped DEF Hides
  <2>. QED BY <2>1, <2>2
<1>8. CASE LoadFails
  BY <1>2, <1>8, PartedTyped DEF LoadFails, Mounts, Hides
<1>9. CASE FormArrives \/ FormFails
  BY <1>2, <1>9, OrphanedTyped DEF FormArrives, FormFails, Mounts, Hides
<1>10. ASSUME NEW h \in Handlers, NEW n \in NoteIds, RestoreNote(h, n) PROVE HiddenInv'
  BY <1>5, <1>10 DEF RestoreNote, rowsOfNotes, route
<1>11. ASSUME NEW h \in Handlers, ConfirmDelete(h) PROVE HiddenInv'
  <2>1. dialog.note \in NoteIds
    BY <1>11 DEF ConfirmDelete, RoutesTypeOK
  <2>. QED BY <1>5, <1>11, <2>1 DEF ConfirmDelete, rowsOfNotes, route
<1>12. ASSUME UNCHANGED <<at, broken, hidden, state, again, handlers>> PROVE HiddenInv'
  BY <1>3, <1>12
<1>13. ASSUME NEW h \in Handlers, ConfirmDiscard(h) PROVE HiddenInv'
  BY <1>5, <1>12, <1>13 DEF ConfirmDiscard, rowsOfNotes, route
<1>14. ASSUME NEW h \in Handlers, NEW n \in NoteIds, Pick(h, n) PROVE HiddenInv'
  <2>. DEFINE v == [kind |-> "open", note |-> n, step |-> "reloading", listener |-> "component"]
  <2>1. v \in Handler /\ v.step = "reloading"
    BY DEF Handler
  <2>2. handlers' = [handlers EXCEPT ![h] = v]
    BY <1>14 DEF Pick
  <2>. HIDE DEF v
  <2>3. \A g \in Handlers : Hides(handlers', g) => handlers'[g] = handlers[g]
    BY <2>1, <2>2, HandlerSet DEF Hides
  <2>. QED BY <1>3, <1>14, <2>3 DEF Pick, rowsOfNotes, route, trashPage
<1>15. ASSUME NEW h \in Handlers, Serve(h) PROVE HiddenInv'
  <2>. DEFINE n == handlers[h].note
              k == handlers[h].kind
  <2>1. n \in NoteIds /\ k \in {"restore", "delete", "trash", "open"} /\ handlers[h] # None
    BY <1>15 DEF Serve, RoutesTypeOK, Handler
  <2>2. state' = [state EXCEPT ![n] = Becomes(k)] /\ UNCHANGED <<at, broken, hidden>>
        /\ again' = IF state'[n] = "trash" THEN Again(n) ELSE again
    BY <1>15 DEF Serve, trashPage
  <2>4. state'[n] = Becomes(k) /\ \A m \in NoteIds \ {n} : state'[m] = state[m]
    BY <2>1, <2>2 DEF RoutesTypeOK
  <2>5. again \subseteq again' /\ (state'[n] = "trash" /\ On("trash") => n \in again')
    BY <2>2 DEF Again
  <2>6. ASSUME NEW g \in Handlers, Hides(handlers', g)
        PROVE  \/ Hides(handlers, g) /\ handlers'[g].note = handlers[g].note
               \/ state'[handlers'[g].note] # "trash"
    <3>1. CASE g = h
      <4>1. handlers[h].listener # "none"
        BY <1>15, <2>6, <3>1, HandlerSet DEF Serve, Hides
      <4>2. handlers'[h].kind = k /\ handlers'[h].note = n
        BY <1>15, <2>1, <4>1, HandlerMoves DEF Serve
      <4>3. k \in {"restore", "delete"}
        BY <2>6, <3>1, <4>2 DEF Hides
      <4>. QED BY <2>4, <3>1, <4>2, <4>3 DEF Becomes
    <3>2. CASE g # h
      <4>1. handlers'[g] = handlers[g]
        BY <1>15, <2>1, <3>2, HandlerSet, HandlerMoves DEF Serve
      <4>. QED BY <2>6, <4>1 DEF Hides
    <3>. QED BY <3>1, <3>2
  <2>. HIDE DEF n, k
  <2>. QED BY <1>6, <2>1, <2>2, <2>4, <2>5, <2>6
<1>16. ASSUME NEW h \in Handlers, Answered(h) PROVE HiddenInv'
  <2>1. /\ handlers[h] # None /\ handlers'[h].step = "reloading"
        /\ \A g \in Handlers \ {h} : handlers'[g] = handlers[g]
    BY <1>16, HandlerMoves DEF Answered
  <2>2. \A g \in Handlers : Hides(handlers', g) => handlers'[g] = handlers[g]
    BY <2>1 DEF Hides
  <2>3. UNCHANGED <<at, broken, state, again>>
    BY <1>16 DEF Answered, rowsOfNotes, route
  <2>4. \A m \in hidden' : m \in hidden \/ (m = handlers[h].note /\ Hides(handlers, h))
    BY <1>16 DEF Answered, Hides
  <2>5. On("trash")' => \A m \in hidden' : state'[m] = "trash" => m \in again'
    BY <1>1, <2>3, <2>4 DEF On
  <2>. QED BY <1>1, <1>2, <2>2, <2>3, <2>5 DEF Hides
<1>17. ASSUME NEW h \in Handlers, HandlerFails(h) \/ HandlerEnds(h) PROVE HiddenInv'
  BY <1>4, <1>17 DEF HandlerFails, HandlerEnds, rowsOfNotes, route
<1>18. ASSUME NEW n \in NoteIds, OthersDo(n) PROVE HiddenInv'
  <2>1. UNCHANGED <<at, broken, hidden, handlers>> /\ \A m \in NoteIds \ {n} : state'[m] = state[m]
    BY <1>18 DEF OthersDo, trashPage, RoutesTypeOK
  <2>2. again \subseteq again' /\ (state'[n] = "trash" /\ On("trash") => n \in again')
    BY <1>18 DEF OthersDo, Again
  <2>3. \A g \in Handlers : Hides(handlers', g) => Hides(handlers, g) /\ handlers'[g].note = handlers[g].note
    BY <2>1 DEF Hides
  <2>. QED BY <1>6, <2>1, <2>2, <2>3
<1>19. ASSUME NEW n \in NoteIds, ServeForm(n) PROVE HiddenInv'
  <2>1. UNCHANGED <<at, broken, hidden, again, handlers>>
    BY <1>19 DEF ServeForm, route, trashPage
  <2>2. CASE UNCHANGED state
    BY <1>12, <2>1, <2>2
  <2>3. CASE Creates(form.post, n)
    <3>1. state'[n] = "live" /\ \A m \in NoteIds \ {n} : state'[m] = state[m]
      BY <2>3 DEF Creates, RoutesTypeOK
    <3>2. \A g \in Handlers : Hides(handlers', g) => Hides(handlers, g) /\ handlers'[g].note = handlers[g].note
      BY <2>1 DEF Hides
    <3>. QED BY <1>6, <2>1, <3>1, <3>2
  <2>. QED BY <1>19, <2>2, <2>3 DEF ServeForm, Accepts, Renames, Retags
<1>20. ASSUME NEW p \in Routes, Navigate(p) PROVE HiddenInv'
  BY <1>12, <1>20 DEF Navigate, rowsOfNotes, route, trashPage
<1>21. ASSUME NEW n \in NoteIds, AskDelete(n) \/ ServeRead(n) \/ ReadFails(n) PROVE HiddenInv'
  BY <1>12, <1>21 DEF AskDelete, ServeRead, ReadFails, rowsOfNotes, route, trashPage
<1>22. ASSUME NEW t \in Text, TypeTitle(t) PROVE HiddenInv'
  BY <1>12, <1>22 DEF TypeTitle, rowsOfNotes, route, trashPage
<1>23. CASE ServeLoad \/ AskDiscard \/ CancelDelete \/ EscapeTitle \/ Redirected
  BY <1>12, <1>23
     DEF ServeLoad, AskDiscard, CancelDelete, EscapeTitle, Redirected, rowsOfNotes, route, trashPage
<1>24. CASE SubmitStep
  BY <1>12, <1>24, SubmitStepTyped DEF rowsOfNotes, route, trashPage
<1>. QED
  BY <1>7, <1>8, <1>9, <1>10, <1>11, <1>13, <1>14, <1>15, <1>16, <1>17, <1>18, <1>19,
     <1>20, <1>21, <1>22, <1>23, <1>24 DEF RoutesNext, RoutesStep, SubmitStep

(* Only an answer, a load or a form brings a page in step: what others     *)
(* change marks it stale, and what a handler changes is pending.           *)
LEMMA SyncKeeps ==
    ASSUME RoutesAssumption, RoutesTypeOK, FieldInv, ListenInv, SyncInv, RoutesNext
    PROVE  SyncInv'
<1>. DEFINE HeardBy(hs) ==
        {n \in NoteIds :
            \E h \in Handlers : hs[h] # None /\ hs[h].step = "served" /\ hs[h].note = n}
<1>1. Pending = HeardBy(handlers) /\ Pending' = HeardBy(handlers')
  BY DEF Pending
<1>2. ASSUME UNCHANGED <<form, load, stale, broken, at, data, state, title, noteTags>>,
             HeardBy(handlers) \subseteq HeardBy(handlers')
      PROVE  SyncInv'
  BY <1>1, <1>2 DEF SyncInv, InSync, Exact
<1>3. ASSUME UNCHANGED <<form, state, title, noteTags>>, load' # None, ~load'.served
      PROVE  SyncInv'
  BY <1>3 DEF SyncInv, InSync, Exact
<1>4. ASSUME UNCHANGED <<form, load, stale, broken, at, data, state, title, noteTags, handlers>>
      PROVE  SyncInv'
  BY <1>2, <1>4
<1>5. ASSUME UNCHANGED form, load' = None, broken', UNCHANGED <<state, title, noteTags>>
      PROVE  SyncInv'
  BY <1>5 DEF SyncInv, InSync, Exact
<1>6. ASSUME NEW h \in Handlers, NEW n \in NoteIds,
             NEW k \in {"restore", "delete", "trash"}, HandlerBegins(h, k, n)
      PROVE  HeardBy(handlers) \subseteq HeardBy(handlers')
  BY <1>6, BeginsTyped
<1>7. at \in Routes /\ "trash" \in Routes /\ None \in Handlers \cup {None}
      /\ \A n \in NoteIds : n \in Routes /\ n # "trash"
  BY DEF Routes, RoutesTypeOK, RoutesAssumption
\* Others changed a row, and the form's answer missed it.
<1>8. ASSUME Unseen, form' = Missed PROVE SyncInv'
  BY <1>8, UnseenTyped, MissedTyped DEF SyncInv
<1>. HIDE DEF HeardBy
<1>9. ASSUME NEW p \in Routes, Navigate(p) PROVE SyncInv'
  BY <1>3, <1>7, <1>9, LoadOfTyped DEF Navigate, rowsOfNotes, forms
<1>10. CASE ServeLoad
  <2>1. load \in Load /\ load.to \in Routes
    BY <1>10 DEF ServeLoad, Load, RoutesTypeOK
  <2>2. load' \in Load /\ load'.to = load.to /\ load'.data = Answer(load.to)
    BY <1>10, <2>1, AnswerTyped DEF ServeLoad, Load
  <2>3. load' # None
    BY <2>2 DEF RoutesAssumption
  <2>4. UNCHANGED <<state, title, noteTags, form, handlers>>
    BY <1>10 DEF ServeLoad, rowsOfNotes, forms
  <2>5. load.to = "trash" => \A n \in NoteIds : n \in Answer(load.to).listed <=> state[n] = "trash"
    BY <2>1, AnswerTyped DEF Trashed
  <2>6. load.to \in NoteIds => Exact(load.to, Answer(load.to))
    BY <1>10, <2>1, AnswerTyped DEF ServeLoad, Found, Exact
  <2>. QED BY <2>2, <2>3, <2>4, <2>5, <2>6 DEF SyncInv, InSync, Exact
<1>11. CASE LoadArrives
  <2>1. HeardBy(handlers) \subseteq HeardBy(handlers')
    BY <1>11, PartedTyped DEF LoadArrives, HeardBy
  <2>2. UNCHANGED <<state, title, noteTags, form>> /\ load' = None
        /\ at' = load.to /\ data' = load.data /\ stale' = load.stale /\ load # None /\ load.served
    BY <1>11 DEF LoadArrives, rowsOfNotes
  <2>. QED BY <1>1, <2>1, <2>2 DEF SyncInv, InSync, Exact
<1>12. CASE LoadFails
  BY <1>5, <1>12 DEF LoadFails, rowsOfNotes
<1>13. ASSUME NEW h \in Handlers, NEW n \in NoteIds, RestoreNote(h, n) PROVE SyncInv'
  BY <1>2, <1>6, <1>13 DEF RestoreNote, rowsOfNotes, route, forms
<1>14. ASSUME NEW h \in Handlers, ConfirmDelete(h) PROVE SyncInv'
  <2>1. dialog.note \in NoteIds
    BY <1>14 DEF ConfirmDelete, RoutesTypeOK
  <2>. QED BY <1>2, <1>6, <1>14, <2>1 DEF ConfirmDelete, rowsOfNotes, route, forms
<1>15. ASSUME NEW h \in Handlers, ConfirmDiscard(h) PROVE SyncInv'
  BY <1>2, <1>4, <1>6, <1>15 DEF ConfirmDiscard, rowsOfNotes, route, forms
<1>16. ASSUME NEW h \in Handlers, NEW n \in NoteIds, Pick(h, n) PROVE SyncInv'
  BY <1>3, <1>7, <1>16, LoadOfTyped DEF Pick, rowsOfNotes, forms
<1>17. ASSUME NEW h \in Handlers, Serve(h) PROVE SyncInv'
  <2>. DEFINE n == handlers[h].note
  <2>1. n \in NoteIds /\ handlers[h] # None
    BY <1>17 DEF Serve, RoutesTypeOK, Handler
  <2>2. /\ \A m \in NoteIds \ {n} : state'[m] = state[m]
        /\ UNCHANGED <<title, noteTags, at, broken, data>> /\ form' = Missed
    BY <1>17 DEF Serve, RoutesTypeOK
  <2>3. CASE handlers[h].listener = "none"
    BY <1>8, <1>17, <2>3 DEF Serve
  <2>4. CASE handlers[h].listener # "none"
    <3>1. UNCHANGED <<stale, load>>
      BY <1>17, <2>4 DEF Serve
    <3>2. /\ handlers'[h] # None /\ handlers'[h].step = "served" /\ handlers'[h].note = n
          /\ \A g \in Handlers \ {h} : handlers'[g] = handlers[g]
      <4>1. handlers' = [handlers EXCEPT ![h].step = "served"]
        BY <1>17, <2>4 DEF Serve
      <4>. QED BY <2>1, <4>1, HandlerMoves
    <3>3. HeardBy(handlers) \cup {n} \subseteq HeardBy(handlers')
      BY <2>1, <3>2 DEF HeardBy
    <3>4. form = None => form' = None
      BY <2>2, MissedTyped
    <3>5. form' # None => form'.stale /\ form # None
      BY <2>2, MissedTyped
    <3>. HIDE DEF n
    <3>6. form # None => SyncInv'
      BY <2>2, <3>5, MissedTyped DEF SyncInv
    <3>7. CASE form = None
      <4>1. /\ \A m \in NoteIds : m \notin Pending' => m \notin Pending /\ m # n
            /\ \A m \in NoteIds : m \notin Pending' => state'[m] = state[m]
        BY <1>1, <2>2, <3>3
      <4>. QED BY <2>2, <3>1, <3>4, <3>7, <4>1 DEF SyncInv, InSync, Exact
    <3>. QED BY <3>6, <3>7
  <2>. QED BY <2>3, <2>4
<1>18. ASSUME NEW h \in Handlers, Answered(h) PROVE SyncInv'
  <2>1. load' # None /\ ~load'.served
    BY <1>7, <1>18, LoadOfTyped DEF Answered
  <2>. QED BY <1>3, <1>18, <2>1 DEF Answered, rowsOfNotes, forms
<1>19. ASSUME NEW h \in Handlers, HandlerFails(h) PROVE SyncInv'
  <2>1. UNCHANGED <<state, title, noteTags, at, broken, data, form>>
    BY <1>19 DEF HandlerFails, rowsOfNotes, forms
  <2>2. CASE handlers[h].step = "served"
    BY <1>19, <2>1, <2>2, UnseenTyped DEF HandlerFails, SyncInv, Exact
  <2>3. CASE handlers[h].step = "sent"
    <3>1. HeardBy(handlers) \subseteq HeardBy(handlers')
      BY <1>19, <2>3, HandlerSet DEF HandlerFails, HeardBy
    <3>. QED BY <1>2, <1>19, <2>1, <2>3, <3>1 DEF HandlerFails
  <2>. QED BY <1>19, <2>2, <2>3 DEF HandlerFails
<1>20. ASSUME NEW h \in Handlers, HandlerEnds(h) PROVE SyncInv'
  <2>1. HeardBy(handlers) \subseteq HeardBy(handlers')
    BY <1>20, HandlerSet DEF HandlerEnds, HeardBy
  <2>2. UNCHANGED <<state, title, noteTags, at, broken, data, stale, form>>
    BY <1>20 DEF HandlerEnds, rowsOfNotes, route, forms
  <2>3. UNCHANGED load \/ (load' # None /\ ~load'.served)
    BY <1>7, <1>20, LoadOfTyped DEF HandlerEnds
  <2>. QED BY <1>2, <1>3, <2>1, <2>2, <2>3
<1>21. CASE SubmitStep
  BY <1>21, SubmitStepTyped DEF SyncInv
<1>22. ASSUME NEW n \in NoteIds, ServeForm(n) PROVE SyncInv'
  <2>1. form' \in Form /\ form'.step = "served"
    BY <1>22 DEF ServeForm, Form, FormPost, RoutesTypeOK
  <2>2. form' # None
    BY <2>1 DEF RoutesAssumption
  <2>. QED BY <2>1, <2>2 DEF SyncInv
<1>23. CASE Redirected
  <2>1. form \in Form /\ form.post.note \in NoteIds
    BY <1>23 DEF Redirected, RoutesTypeOK, FieldInv
  <2>2. form' \in Form /\ form'.post = form.post /\ form'.data = Answer(form.post.note)
    BY <1>7, <1>23, <2>1, AnswerTyped DEF Redirected, Form
  <2>3. form' # None
    BY <2>2 DEF RoutesAssumption
  <2>4. Exact(form.post.note, Answer(form.post.note))
    BY <1>7, <1>23, <2>1, AnswerTyped DEF Redirected, Found, Exact
  <2>5. UNCHANGED <<state, title, noteTags>>
    BY <1>23 DEF Redirected, rowsOfNotes
  <2>. QED BY <2>2, <2>3, <2>4, <2>5 DEF SyncInv, Exact
<1>24. CASE FormArrives
  <2>1. form # None /\ form.post.note \in NoteIds /\ form.step = "read"
    BY <1>24 DEF FormArrives, FieldInv
  <2>2. /\ UNCHANGED <<state, title, noteTags>> /\ form' = None /\ load' = None
        /\ at' = form.post.note /\ data' = form.data /\ stale' = form.stale
    BY <1>24 DEF FormArrives, rowsOfNotes
  <2>. QED BY <1>7, <2>1, <2>2 DEF SyncInv, InSync, Exact
<1>25. CASE FormFails
  BY <1>25 DEF FormFails, SyncInv
<1>26. ASSUME NEW n \in NoteIds, OthersDo(n) PROVE SyncInv'
  BY <1>8, <1>26 DEF OthersDo
<1>27. ASSUME NEW n \in NoteIds, AskDelete(n) \/ ServeRead(n) \/ ReadFails(n) PROVE SyncInv'
  BY <1>4, <1>27 DEF AskDelete, ServeRead, ReadFails, rowsOfNotes, route, forms
<1>28. ASSUME NEW t \in Text, TypeTitle(t) PROVE SyncInv'
  BY <1>4, <1>28 DEF TypeTitle, rowsOfNotes, route
<1>29. CASE AskDiscard \/ CancelDelete \/ EscapeTitle
  BY <1>4, <1>29 DEF AskDiscard, CancelDelete, EscapeTitle, rowsOfNotes, route, forms
<1>. QED
  BY <1>9, <1>10, <1>11, <1>12, <1>13, <1>14, <1>15, <1>16, <1>17, <1>18, <1>19, <1>20,
     <1>21, <1>22, <1>23, <1>24, <1>25, <1>26, <1>27, <1>28, <1>29
     DEF RoutesNext, RoutesStep, SubmitStep

LEMMA RoutesInitHolds == RoutesAssumption /\ RoutesInit => RoutesIInv
<1>. SUFFICES ASSUME RoutesAssumption, RoutesInit PROVE RoutesIInv
  OBVIOUS
<1>1. NoData \in Data /\ NoData.marked = {}
  BY DEF NoData, Data, Text
<1>2. /\ NoDialog \in [note: NoteIds \cup {None}, submitting: BOOLEAN]
      /\ NoField \in [draft: Text, server: Text, typed: NoteIds \cup {None}, submitting: BOOLEAN]
      /\ NoField.draft = NoField.server /\ NoField.typed = None
  BY DEF NoDialog, NoField, Text
<1>3. RoutesTypeOK
  <2>1. title \in [NoteIds -> Titles] /\ noteTags \in [NoteIds -> SUBSET Tags] /\ others \in 0 .. MaxOthers
    BY DEF RoutesInit, RoutesAssumption
  <2>. QED BY <1>1, <1>2, <2>1 DEF RoutesInit, RoutesTypeOK, Routes
<1>4. SyncInv
  BY DEF RoutesInit, SyncInv, InSync, RoutesAssumption
<1>5. ListenInv /\ HiddenInv
  BY DEF RoutesInit, ListenInv, HiddenInv, On
<1>6. MarksInv /\ FieldInv
  BY <1>1, <1>2 DEF RoutesInit, MarksInv, FieldInv
<1>. QED BY <1>3, <1>4, <1>5, <1>6 DEF RoutesIInv

LEMMA RoutesStepKeeps == RoutesAssumption /\ RoutesIInv /\ [RoutesNext]_routeVars => RoutesIInv'
<1>. SUFFICES ASSUME RoutesAssumption, RoutesIInv, [RoutesNext]_routeVars PROVE RoutesIInv'
  OBVIOUS
<1>1. CASE RoutesNext
  BY <1>1, RoutesTypeKeeps, SyncKeeps, ListenKeeps, HiddenKeeps, MarksKeeps, FieldKeeps
     DEF RoutesIInv
<1>2. CASE UNCHANGED routeVars
  <2>. USE <1>2 DEF RoutesIInv, routeVars, rowsOfNotes, route, trashPage, inboxPage, forms
  <2>1. RoutesTypeOK'
    BY DEF RoutesTypeOK
  <2>2. SyncInv'
    BY DEF SyncInv, InSync, Exact, Pending
  <2>3. ListenInv' /\ HiddenInv'
    BY DEF ListenInv, HiddenInv, On
  <2>4. MarksInv' /\ FieldInv'
    BY DEF MarksInv, FieldInv
  <2>. QED BY <2>1, <2>2, <2>3, <2>4
<1>. QED BY <1>1, <1>2

------------------------------------------------------------------------------
(* NoteRoutes: theorems.                                                   *)

\* The inductive invariant of the routes.
THEOREM RoutesInvariant == RoutesAssumption => (RoutesSpec => []RoutesIInv)
<1>. SUFFICES ASSUME RoutesAssumption PROVE RoutesSpec => []RoutesIInv
  OBVIOUS
<1>. QED BY RoutesInitHolds, RoutesStepKeeps, PTL DEF RoutesSpec

\* The server's rows, the page, its load, form and handlers have their types.
THEOREM RoutesTypeCorrect == RoutesAssumption => (RoutesSpec => []RoutesTypeOK)
<1>1. RoutesIInv => RoutesTypeOK
  BY DEF RoutesIInv
<1>. QED BY <1>1, RoutesInvariant, PTL

\* A page that settled shows what the server has, whatever the user did and
\* in whatever order the answers came: of any notes, handlers and titles.
THEOREM SettledPagesAgree == RoutesAssumption => (RoutesSpec => []PagesAgree)
<1>. SUFFICES ASSUME RoutesAssumption PROVE RoutesSpec => []PagesAgree
  OBVIOUS
<1>1. RoutesIInv => PagesAgree
  <2>. SUFFICES ASSUME RoutesIInv PROVE PagesAgree
    OBVIOUS
  <2>. USE DEF RoutesIInv
  <2>1. ASSUME Settled PROVE InSync(at, data) /\ Pending = {}
    <3>1. InSync(at, data)
      BY <2>1 DEF Settled, SyncInv
    <3>2. \A h \in Handlers : handlers[h] # None => handlers[h].step # "served"
      BY <2>1 DEF Settled, ListenInv
    <3>. QED BY <3>1, <3>2 DEF Pending
  <2>2. ASSUME Settled, at = "trash"
        PROVE  TrashRows \subseteq Trashed /\ Trashed \ TrashRows \subseteq again
    <3>1. data.listed \subseteq NoteIds /\ \A n \in NoteIds : n \in data.listed <=> n \in Trashed
      BY <2>1, <2>2 DEF InSync, RoutesTypeOK, Data, Trashed
    <3>2. \A n \in hidden : n \in Trashed => n \in again
      BY <2>2 DEF HiddenInv, On, Settled, Trashed
    <3>. QED BY <3>1, <3>2 DEF TrashRows, Trashed
  <2>3. ASSUME Settled, at \in NoteIds
        PROVE  state[at] = "live" /\ data.title = title[at] /\ data.tags = noteTags[at]
    BY <2>1, <2>3 DEF InSync, Exact
  <2>4. (data.marked \cup marks) \ read \subseteq posts \cup unsaved
    BY DEF MarksInv
  <2>. QED BY <2>2, <2>3, <2>4 DEF PagesAgree
<1>. QED BY <1>1, RoutesInvariant, PTL

\* No title is saved that the user did not type for that note.
THEOREM TitlesAsTyped == RoutesAssumption => (RoutesSpec => []RenamesAsTyped)
<1>1. RoutesIInv => RenamesAsTyped
  BY DEF RoutesIInv, FieldInv, RenamesAsTyped
<1>. QED BY <1>1, RoutesInvariant, PTL

------------------------------------------------------------------------------
(* EditorView: the inductive invariant.                                    *)

TextInv ==
    /\ text \in Seq(Items)
    /\ from \in Nat /\ to \in Nat /\ from <= to /\ to <= Len(text)
    /\ popover.start \in Nat /\ last.start \in Nat /\ muted \in Nat
    /\ toolbar \in BOOLEAN /\ composer.open \in BOOLEAN
    /\ composer \in [open: BOOLEAN, quote: {composer.quote}, moved: BOOLEAN]

(* The selection of a comment is there only while something is selected in *)
(* an editor that is up, and nothing offers a composer that is open.       *)
HeldInv ==
    /\ sel # None => from # to
    /\ composer.open => ~toolbar
    /\ phase # "open" => sel = None /\ from = 0 /\ to = 0

(* Until the composer opens, it is the selection the text has now.         *)
FollowsInv == sel # None /\ ~composer.open => sel = Selected(text, from, to)

(* While the popover is open it shows what the plugin reads from the text  *)
(* as it is now.                                                           *)
MirrorInv ==
    popover.open =>
        /\ phase = "open" /\ last # Inactive
        /\ popover.start = last.start /\ last = Status(text, from, to)

EditorIInv ==
    EditorTypeOK /\ TextInv /\ HeldInv /\ FollowsInv /\ MirrorInv /\ QuoteAnchored

------------------------------------------------------------------------------
(* EditorView: lemmas about the letters of a text.                         *)

(* A nonempty set of naturals has a least one: induction without a         *)
(* predicate as a parameter.                                               *)
LEMMA LeastNat ==
    ASSUME NEW T \in SUBSET Nat, T # {}
    PROVE  \E n \in T : \A m \in T : n <= m
<1>1. \E x \in T : \A y \in T : ~(<<y, x>> \in OpToRel(<, Nat))
  BY WFMin, NatLessThanWellFounded
<1>2. PICK x \in T : \A y \in T : ~(<<y, x>> \in OpToRel(<, Nat))
  BY <1>1
<1>3. \A y \in T : ~(y < x)
  BY <1>2 DEF OpToRel
<1>. QED BY <1>3

(* g is the recursive function of Letters, up to n.                        *)
KeptBy(g, t, n) ==
    g = [i \in 0 .. n |-> IF i = 0 THEN <<>>
                          ELSE IF t[i] = "atom" THEN g[i - 1]
                          ELSE Append(g[i - 1], t[i])]

LEMMA KeptExists ==
    ASSUME NEW t, NEW N \in Nat
    PROVE  \E g : KeptBy(g, t, N)
<1>. DEFINE T == {n \in Nat : ~ \E g : KeptBy(g, t, n)}
<1>. SUFFICES ASSUME T # {} PROVE FALSE
  OBVIOUS
<1>1. PICK n \in T : \A m \in T : n <= m
  BY LeastNat
<1>2. n \in Nat /\ n # 0
  <2>1. KeptBy([i \in 0 .. 0 |-> <<>>], t, 0)
    BY DEF KeptBy
  <2>. QED BY <2>1
<1>3. PICK g : KeptBy(g, t, n - 1)
  BY <1>1, <1>2
<1>. DEFINE next == IF t[n] = "atom" THEN g[n - 1] ELSE Append(g[n - 1], t[n])
            h == [i \in 0 .. n |-> IF i = n THEN next ELSE g[i]]
<1>4. \A i \in 0 .. n : h[i] = IF i = 0 THEN <<>>
                               ELSE IF t[i] = "atom" THEN h[i - 1]
                               ELSE Append(h[i - 1], t[i])
  <2>. TAKE i \in 0 .. n
  <2>1. CASE i = n
    <3>1. h[i] = next /\ h[i - 1] = g[i - 1]
      BY <1>2, <2>1
    <3>. QED BY <1>2, <2>1, <3>1
  <2>2. CASE i # n
    <3>1. i \in 0 .. n - 1 /\ h[i] = g[i]
      BY <1>2, <2>2
    <3>2. i # 0 => i - 1 \in 0 .. n /\ i - 1 # n /\ h[i - 1] = g[i - 1]
      BY <1>2, <2>2
    <3>3. g[i] = IF i = 0 THEN <<>>
                 ELSE IF t[i] = "atom" THEN g[i - 1] ELSE Append(g[i - 1], t[i])
      BY <1>3, <3>1 DEF KeptBy
    <3>. QED BY <3>1, <3>2, <3>3
  <2>. QED BY <2>1, <2>2
<1>5. KeptBy(h, t, n)
  <2>. DEFINE k == [i \in 0 .. n |-> IF i = 0 THEN <<>>
                                     ELSE IF t[i] = "atom" THEN h[i - 1]
                                     ELSE Append(h[i - 1], t[i])]
  <2>1. h = k
    BY <1>4
  <2>. QED BY <2>1 DEF KeptBy
<1>. QED BY <1>5

LEMMA LettersUnfold ==
    ASSUME NEW t, Len(t) \in Nat
    PROVE  \E g : /\ Letters(t) = g[Len(t)]
                  /\ g[0] = <<>>
                  /\ \A i \in 1 .. Len(t) :
                        g[i] = IF t[i] = "atom" THEN g[i - 1] ELSE Append(g[i - 1], t[i])
<1>1. PICK g : KeptBy(g, t, Len(t)) /\ Letters(t) = g[Len(t)]
  BY KeptExists DEF KeptBy, Letters
<1>. DEFINE Value(i) == IF i = 0 THEN <<>>
                        ELSE IF t[i] = "atom" THEN g[i - 1] ELSE Append(g[i - 1], t[i])
<1>2. \A i \in 0 .. Len(t) : g[i] = Value(i)
  BY <1>1 DEF KeptBy
<1>. QED BY <1>1, <1>2

(* They are characters, no more of them than items.                        *)
LEMMA LettersType ==
    ASSUME NEW t \in Seq(Items)
    PROVE  Letters(t) \in Seq(Chars) /\ Len(Letters(t)) <= Len(t)
<1>. DEFINE N == Len(t)
<1>0. N \in Nat
  BY LenProperties
<1>1. PICK g : /\ Letters(t) = g[N]
               /\ g[0] = <<>>
               /\ \A i \in 1 .. N :
                     g[i] = IF t[i] = "atom" THEN g[i - 1] ELSE Append(g[i - 1], t[i])
  BY <1>0, LettersUnfold
<1>. DEFINE Good(i) == g[i] \in Seq(Chars) /\ Len(g[i]) <= i
            T == {i \in 0 .. N : ~Good(i)}
<1>2. T = {}
  <2>. SUFFICES ASSUME T # {} PROVE FALSE
    OBVIOUS
  <2>1. PICK n \in T : \A m \in T : n <= m
    <3>1. T \in SUBSET Nat
      OBVIOUS
    <3>. HIDE DEF T
    <3>. QED BY <3>1, LeastNat
  <2>2. n # 0
    <3>1. <<>> \in Seq(Chars) /\ Len(<<>>) = 0
      BY EmptySeq
    <3>2. Good(0)
      BY <1>1, <3>1
    <3>. QED BY <3>2
  <2>3. n \in 1 .. N /\ n - 1 \in 0 .. N /\ n \in Nat /\ n - 1 < n
    BY <1>0, <2>2
  <2>4. Good(n - 1)
    <3>1. n - 1 \notin T
      <4>. HIDE DEF T
      <4>. QED BY <2>1, <2>3
    <3>. HIDE DEF Good
    <3>. QED BY <2>3, <3>1
  <2>5. PICK s : s = g[n - 1]
    OBVIOUS
  <2>6. s \in Seq(Chars) /\ Len(s) <= n - 1 /\ Len(s) \in Nat
    BY <2>4, <2>5, LenProperties
  <2>7. CASE t[n] = "atom"
    BY <1>1, <2>3, <2>5, <2>6, <2>7
  <2>8. CASE t[n] # "atom"
    <3>1. t[n] \in Chars
      BY <2>3, <2>8, ElementOfSeq DEF Items
    <3>2. g[n] = Append(s, t[n])
      BY <1>1, <2>3, <2>5, <2>8
    <3>3. PICK u : u = Append(s, t[n])
      OBVIOUS
    <3>4. u \in Seq(Chars) /\ Len(u) = Len(s) + 1
      BY <2>6, <3>1, <3>3, AppendProperties
    <3>5. Len(u) <= n
      BY <2>3, <2>6, <3>4
    <3>6. Good(n)
      BY <3>2, <3>3, <3>4, <3>5
    <3>. QED BY <3>6
  <2>. QED BY <2>7, <2>8
<1>3. Good(N)
  BY <1>0, <1>2
<1>. QED BY <1>1, <1>3

(* Where no atom stands the letters are the items, place by place.         *)
LEMMA LettersBefore ==
    ASSUME NEW t \in Seq(Items), NEW p \in Nat, p <= Len(t), \A i \in 1 .. p : t[i] # "atom"
    PROVE  p <= Len(Letters(t)) /\ \A i \in 1 .. p : Letters(t)[i] = t[i]
<1>. DEFINE N == Len(t)
<1>0. N \in Nat
  BY LenProperties
<1>1. PICK g : /\ Letters(t) = g[N]
               /\ g[0] = <<>>
               /\ \A i \in 1 .. N :
                     g[i] = IF t[i] = "atom" THEN g[i - 1] ELSE Append(g[i - 1], t[i])
  BY <1>0, LettersUnfold
<1>. DEFINE Good(i) == /\ g[i] \in Seq(Chars)
                       /\ i <= p => Len(g[i]) = i
                       /\ i > p => Len(g[i]) >= p
                       /\ \A j \in 1 .. p : j <= i => g[i][j] = t[j]
            T == {i \in 0 .. N : ~Good(i)}
<1>2. T = {}
  <2>. SUFFICES ASSUME T # {} PROVE FALSE
    OBVIOUS
  <2>1. PICK n \in T : \A m \in T : n <= m
    <3>1. T \in SUBSET Nat
      OBVIOUS
    <3>. HIDE DEF T
    <3>. QED BY <3>1, LeastNat
  <2>2. n # 0
    <3>1. <<>> \in Seq(Chars) /\ Len(<<>>) = 0
      BY EmptySeq
    <3>2. Good(0)
      BY <1>1, <3>1
    <3>. QED BY <3>2
  <2>3. n \in 1 .. N /\ n - 1 \in 0 .. N /\ n \in Nat /\ n - 1 < n
    BY <1>0, <2>2
  <2>4. Good(n - 1)
    <3>1. n - 1 \notin T
      <4>. HIDE DEF T
      <4>. QED BY <2>1, <2>3
    <3>. HIDE DEF Good
    <3>. QED BY <2>3, <3>1
  <2>5. PICK s : s = g[n - 1]
    OBVIOUS
  <2>6. /\ s \in Seq(Chars) /\ Len(s) \in Nat
        /\ n - 1 <= p => Len(s) = n - 1
        /\ n - 1 > p => Len(s) >= p
        /\ \A j \in 1 .. p : j <= n - 1 => s[j] = t[j]
    BY <2>4, <2>5, LenProperties
  <2>7. CASE t[n] = "atom"
    <3>1. g[n] = s /\ n > p
      BY <1>1, <2>3, <2>5, <2>7
    <3>2. \A j \in 1 .. p : j <= n - 1
      BY <2>3, <3>1
    <3>. QED BY <2>3, <2>6, <3>1, <3>2
  <2>8. CASE t[n] # "atom"
    <3>1. t[n] \in Chars
      BY <2>3, <2>8, ElementOfSeq DEF Items
    <3>2. g[n] = Append(s, t[n])
      BY <1>1, <2>3, <2>5, <2>8
    <3>3. PICK u : u = Append(s, t[n])
      OBVIOUS
    <3>4. /\ u \in Seq(Chars) /\ Len(u) = Len(s) + 1
          /\ \A j \in 1 .. Len(s) : u[j] = s[j]
          /\ u[Len(s) + 1] = t[n]
      BY <2>6, <3>1, <3>3, AppendProperties
    <3>5. \A j \in 1 .. p : j <= n => u[j] = t[j]
      <4>. TAKE j \in 1 .. p
      <4>1. CASE j = n
        BY <2>3, <2>6, <3>4, <4>1
      <4>2. CASE j < n
        <5>1. j \in 1 .. Len(s) /\ j <= n - 1
          BY <2>3, <2>6, <4>2
        <5>. QED BY <2>6, <3>4, <5>1
      <4>. QED BY <2>3, <4>1, <4>2
    <3>6. (n <= p => Len(u) = n) /\ (n > p => Len(u) >= p)
      BY <2>3, <2>6, <3>4
    <3>. QED BY <3>2, <3>3, <3>4, <3>5, <3>6
  <2>. QED BY <2>7, <2>8
<1>3. Good(N)
  BY <1>0, <1>2
<1>4. N >= p
  OBVIOUS
<1>5. Len(g[N]) >= p
  BY <1>0, <1>3, <1>4
<1>6. \A j \in 1 .. p : g[N][j] = t[j]
  BY <1>0, <1>3, <1>4
<1>7. Len(g[N]) \in Nat
  BY <1>3, LenProperties
<1>. QED BY <1>1, <1>5, <1>6, <1>7

------------------------------------------------------------------------------
(* EditorView: lemmas about the text.                                      *)

(* A text in which n items replaced those from f to g of another has the   *)
(* others before f.                                                        *)
Splices(u, t, f, g, n) ==
    /\ u \in Seq(Items)
    /\ Len(u) = f + n + Len(t) - g
    /\ \A i \in 1 .. f : u[i] = t[i]

LEMMA SplicedFacts ==
    ASSUME NEW t \in Seq(Items), NEW items \in Seq(Items), NEW f \in Nat, NEW g \in Nat,
           f <= g, g <= Len(t)
    PROVE  Splices(Spliced(t, f, g, items), t, f, g, Len(items))
<1>. DEFINE S == Items
<1>. HIDE DEF S
<1>0. t \in Seq(S) /\ items \in Seq(S)
  BY DEF S
<1>1. PICK a : a = SubSeq(t, 1, f)
  OBVIOUS
<1>2. PICK b : b = SubSeq(t, g + 1, Len(t))
  OBVIOUS
<1>3. Len(t) \in Nat /\ \A i \in 1 .. Len(t) : t[i] \in S
  BY <1>0, ElementOfSeq, LenProperties
<1>4. a \in Seq(S) /\ Len(a) = f /\ \A i \in 1 .. f : a[i] = t[i]
  <2>1. \A i \in 1 .. f : t[i] \in S
    BY <1>3
  <2>2. /\ a \in Seq(S)
        /\ Len(a) = IF 1 <= f THEN f - 1 + 1 ELSE 0
        /\ \A i \in 1 .. f - 1 + 1 : a[i] = t[1 + i - 1]
    BY <1>1, <2>1, SubSeqProperties
  <2>. QED BY <2>2
<1>5. b \in Seq(S) /\ Len(b) = Len(t) - g
  <2>1. \A i \in g + 1 .. Len(t) : t[i] \in S
    BY <1>3
  <2>2. /\ b \in Seq(S)
        /\ Len(b) = IF g + 1 <= Len(t) THEN Len(t) - (g + 1) + 1 ELSE 0
    BY <1>2, <1>3, <2>1, SubSeqProperties
  <2>. QED BY <1>3, <2>2
<1>6. PICK c : c = a \o items
  OBVIOUS
<1>7. /\ c \in Seq(S) /\ Len(c) = Len(a) + Len(items)
      /\ \A i \in 1 .. Len(a) + Len(items) : (a \o items)[i] =
            IF i <= Len(a) THEN a[i] ELSE items[i - Len(a)]
  <2>1. a \in Seq(S)
    BY <1>4
  <2>. QED BY <1>0, <1>6, <2>1, ConcatProperties
<1>8. /\ c \o b \in Seq(S) /\ Len(c \o b) = Len(c) + Len(b)
      /\ \A i \in 1 .. Len(c) + Len(b) : (c \o b)[i] = IF i <= Len(c) THEN c[i] ELSE b[i - Len(c)]
  <2>1. b \in Seq(S) /\ c \in Seq(S)
    BY <1>5, <1>7
  <2>. QED BY ONLY <2>1, ConcatProperties, Zenon
<1>9. Spliced(t, f, g, items) = c \o b
  BY <1>1, <1>2, <1>6 DEF Spliced
<1>10. Len(items) \in Nat /\ Len(b) \in Nat
  BY <1>0, <1>5, LenProperties
<1>11. \A i \in 1 .. f : (c \o b)[i] = t[i]
  BY <1>4, <1>6, <1>7, <1>8, <1>10
<1>12. /\ c \o b \in Seq(S) /\ Len(c \o b) = f + Len(items) + Len(t) - g
       /\ \A i \in 1 .. f : (c \o b)[i] = t[i]
  BY <1>3, <1>4, <1>5, <1>7, <1>8, <1>10, <1>11
<1>. QED BY <1>9, <1>12 DEF Splices, S

(* Two texts that agree up to the end of a range agree on the range.       *)
LEMMA SameRange ==
    ASSUME NEW S, NEW t \in Seq(S), NEW u \in Seq(S), NEW f \in Nat, NEW g \in Nat,
           f <= g, g <= Len(t), g <= Len(u), \A i \in 1 .. g : t[i] = u[i]
    PROVE  SubSeq(t, f + 1, g) = SubSeq(u, f + 1, g)
<1>1. PICK a : a = SubSeq(t, f + 1, g)
  OBVIOUS
<1>2. PICK b : b = SubSeq(u, f + 1, g)
  OBVIOUS
<1>3. Len(t) \in Nat /\ Len(u) \in Nat
      /\ (\A i \in 1 .. Len(t) : t[i] \in S) /\ \A i \in 1 .. Len(u) : u[i] \in S
  BY ElementOfSeq, LenProperties
<1>4. /\ a \in Seq(S)
      /\ Len(a) = IF f + 1 <= g THEN g - (f + 1) + 1 ELSE 0
      /\ \A i \in 1 .. g - (f + 1) + 1 : a[i] = t[f + 1 + i - 1]
  <2>1. \A i \in f + 1 .. g : t[i] \in S
    BY <1>3
  <2>. QED BY <1>1, <2>1, SubSeqProperties
<1>5. /\ b \in Seq(S)
      /\ Len(b) = IF f + 1 <= g THEN g - (f + 1) + 1 ELSE 0
      /\ \A i \in 1 .. g - (f + 1) + 1 : b[i] = u[f + 1 + i - 1]
  <2>1. \A i \in f + 1 .. g : u[i] \in S
    BY <1>3
  <2>. QED BY <1>2, <2>1, SubSeqProperties
<1>6. \A i \in 1 .. Len(a) : a[i] = b[i]
  <2>. SUFFICES ASSUME NEW i \in 1 .. Len(a) PROVE a[i] = b[i]
    OBVIOUS
  <2>1. i \in 1 .. g - (f + 1) + 1 /\ f + 1 + i - 1 \in 1 .. g
    BY <1>4
  <2>. QED BY <1>4, <1>5, <2>1
<1>7. a = b
  BY <1>4, <1>5, <1>6, SeqEqual
<1>. QED BY <1>1, <1>2, <1>7

LEMMA SameSelected ==
    ASSUME NEW t \in Seq(Items), NEW u \in Seq(Items), NEW f \in Nat, NEW g \in Nat,
           f <= g, g <= Len(t), g <= Len(u), \A i \in 1 .. g : t[i] = u[i]
    PROVE  Selected(t, f, g) = Selected(u, f, g)
BY SameRange DEF Selected

(* A trigger that is detected is one that began; the others are at place 0. *)
LEMMA DetectedBegun ==
    ASSUME EditorAssumption, NEW t, NEW p
    PROVE  /\ DetectTrigger(t, p) \in Places
           /\ DetectTrigger(t, p) # 0 => DetectTrigger(t, p) \in Begun(BeforeCaret(t, p))
<1>1. PICK B : B = Begun(BeforeCaret(t, p))
  OBVIOUS
<1>2. B \subseteq Places /\ 0 \in Places
  BY <1>1 DEF Begun, Starts, Places, EditorAssumption
<1>3. DetectTrigger(t, p) = IF B = {} THEN 0 ELSE CHOOSE i \in B : TRUE
  BY <1>1 DEF DetectTrigger
<1>. QED BY <1>1, <1>2, <1>3

(* A status is that of a trigger, or the inactive one.                     *)
LEMMA StatusType ==
    ASSUME EditorAssumption, NEW t \in Seq(Items), NEW f \in Nat, f <= Len(t), NEW g
    PROVE  /\ Status(t, f, g).start \in Places /\ Status(t, f, g).query \in Seq(Items)
           /\ Status(t, f, g).start = 0 <=> Status(t, f, g) = Inactive
           /\ Status(t, f, g) # Inactive =>
                 f = g /\ Status(t, f, g).start = DetectTrigger(t, f)
<1>1. PICK d \in Places : d = DetectTrigger(t, f)
  BY DetectedBegun
<1>2. d \in Nat /\ Width \in Nat \ {0} /\ Len(t) \in Nat /\ 0 \in Places
  BY LenProperties DEF Places, EditorAssumption
<1>3. PICK u : u = SubSeq(t, d + Width, f)
  OBVIOUS
<1>4. u \in Seq(Items)
  <2>1. \A i \in d + Width .. f : t[i] \in Items
    <3>1. \A i \in d + Width .. f : i \in 1 .. Len(t)
      BY <1>2
    <3>. QED BY <3>1, ElementOfSeq
  <2>. QED BY <1>2, <1>3, <2>1, SubSeqProperties
<1>5. Letters(u) \in Seq(Items)
  <2>1. Letters(u) \in Seq(Chars) /\ Chars \subseteq Items
    BY <1>4, LettersType DEF Items
  <2>. QED BY <2>1, SeqMonotonic
<1>6. Inactive.start = 0 /\ Inactive.query = <<>> /\ <<>> \in Seq(Items)
  BY EmptySeq DEF Inactive
<1>7. Status(t, f, g) = IF f # g \/ d = 0 THEN Inactive
                        ELSE [start |-> d, query |-> Letters(u)]
  BY <1>1, <1>3 DEF Status
<1>8. CASE f # g \/ d = 0
  BY <1>2, <1>6, <1>7, <1>8
<1>9. CASE f = g /\ d # 0
  <2>1. PICK r : r = Status(t, f, g)
    OBVIOUS
  <2>2. r = [start |-> d, query |-> Letters(u)]
    BY <1>7, <1>9, <2>1
  <2>3. r.start = d /\ r.query = Letters(u)
    BY <2>2
  <2>4. r # Inactive
    BY <1>6, <1>9, <2>3
  <2>. QED BY <1>1, <1>5, <1>9, <2>1, <2>3, <2>4
<1>. QED BY <1>8, <1>9

(* Once the plugin saw a text, the popover mirrors it or is closed.        *)
LEMMA TriggerFacts ==
    ASSUME EditorAssumption, EditorTypeOK, MirrorInv,
           NEW t \in Seq(Items), NEW f \in Nat, f <= Len(t), NEW g,
           TriggerSyncs(t, f, g), popover' = Popover(t, f, g) \/ popover' = Closed
    PROVE  /\ last'.start \in Places /\ last'.query \in Seq(Items) /\ muted' \in Places
           /\ popover' \in [open: BOOLEAN, start: Places]
           /\ popover'.open => /\ last' # Inactive /\ last' = Status(t, f, g)
                               /\ popover'.start = last'.start
<1>1. PICK r : r = Heard(t, f, g)
  OBVIOUS
<1>2. PICK status : status = Status(t, f, g)
  OBVIOUS
<1>3. /\ status.start \in Places /\ status.query \in Seq(Items)
      /\ status.start = 0 <=> status = Inactive
  BY <1>2, StatusType
<1>4. Inactive.start = 0 /\ Inactive.query = <<>> /\ <<>> \in Seq(Items) /\ 0 \in Places
  BY EmptySeq DEF Inactive, Places, EditorAssumption
<1>5. r = IF status.start = muted THEN Inactive ELSE status
  BY <1>1, <1>2 DEF Heard
<1>6. last' = r /\ r.start \in Places /\ r.query \in Seq(Items)
  BY <1>1, <1>3, <1>4, <1>5 DEF TriggerSyncs, Reported
<1>7. muted' \in Places
  BY <1>4 DEF TriggerSyncs, StillMuted, EditorTypeOK
<1>8. CASE popover' = Closed
  BY <1>4, <1>6, <1>7, <1>8 DEF Closed
<1>9. CASE popover' = Popover(t, f, g)
  <2>1. popover' = IF r = last THEN popover ELSE [open |-> r # Inactive, start |-> r.start]
    BY <1>1, <1>9 DEF Popover, Reported
  <2>2. CASE r = last
    <3>1. popover' = popover /\ popover \in [open: BOOLEAN, start: Places]
      BY <2>1, <2>2 DEF EditorTypeOK
    <3>2. popover.open => r # Inactive /\ popover.start = r.start
      BY <2>2 DEF MirrorInv
    <3>3. popover.open => r = status
      BY <1>5, <3>2
    <3>. QED BY <1>2, <1>6, <1>7, <3>1, <3>2, <3>3
  <2>3. CASE r # last
    <3>1. popover' = [open |-> r # Inactive, start |-> r.start]
      BY <2>1, <2>3
    <3>2. popover' \in [open: BOOLEAN, start: Places]
      BY <1>6, <3>1
    <3>3. popover'.open => r # Inactive /\ popover'.start = r.start
      BY <3>1
    <3>4. r # Inactive => r = status
      BY <1>5
    <3>. QED BY <1>2, <1>6, <1>7, <3>2, <3>3, <3>4
  <2>. QED BY <2>2, <2>3
<1>. QED BY <1>8, <1>9

------------------------------------------------------------------------------
(* EditorView: transactions.                                               *)

(* A transaction keeps the types, and the popover the mirror of the text.  *)
LEMMA TransactedTypes ==
    ASSUME EditorAssumption, EditorIInv, phase = "open",
           NEW t \in Seq(Items), Len(t) <= MaxLength,
           NEW f \in Nat, NEW g \in Nat, f <= g, g <= Len(t),
           Transacted(t, f, g), popover' = Popover(t, f, g) \/ popover' = Closed,
           composer' = composer \/ composer' = [composer EXCEPT !.moved = composer.open],
           posting' = posting
    PROVE  EditorTypeOK' /\ MirrorInv'
<1>1. text' = t /\ from' = f /\ to' = g /\ TriggerSyncs(t, f, g) /\ UNCHANGED life
  BY DEF Transacted
<1>2. Len(t) \in Nat /\ MaxLength \in Nat /\ f \in 0 .. g /\ g \in 0 .. Len(t)
  BY LenProperties DEF EditorAssumption
<1>3. f \in Places /\ g \in Places /\ f <= Len(t)
  BY <1>2 DEF Places
<1>4. /\ last'.start \in Places /\ last'.query \in Seq(Items) /\ muted' \in Places
      /\ popover' \in [open: BOOLEAN, start: Places]
      /\ popover'.open => /\ last' # Inactive /\ last' = Status(t, f, g)
                          /\ popover'.start = last'.start
  <2>1. EditorTypeOK /\ MirrorInv
    BY DEF EditorIInv
  <2>. QED BY <1>1, <1>3, <2>1, TriggerFacts
<1>5. composer'.open \in BOOLEAN /\ composer'.moved \in BOOLEAN
  <2>1. composer.open \in BOOLEAN /\ composer.moved \in BOOLEAN
        /\ composer \in [open: BOOLEAN, quote: {composer.quote}, moved: BOOLEAN]
    BY DEF EditorIInv, TextInv
  <2>. QED BY <2>1
<1>6. /\ sel' = None \/ (sel'.from \in Places /\ sel'.to \in Places)
      /\ toolbar' \in BOOLEAN
  <2>1. sel = None \/ (sel.from \in Places /\ sel.to \in Places)
    BY DEF EditorIInv, EditorTypeOK
  <2>2. toolbar \in BOOLEAN /\ composer.open \in BOOLEAN
    BY DEF EditorIInv, TextInv
  <2>3. Selected(t, f, g).from \in Places /\ Selected(t, f, g).to \in Places
    BY <1>3 DEF Selected
  <2>4. \/ UNCHANGED <<sel, toolbar>>
        \/ /\ sel' \in {None, sel, Selected(t, f, g)}
           /\ toolbar' \in {FALSE, toolbar \/ ~composer.open}
    BY DEF Transacted, SelectionSyncs, Selection
  <2>. QED BY <2>1, <2>2, <2>3, <2>4
<1>7. EditorTypeOK'
  BY <1>1, <1>2, <1>4, <1>5, <1>6 DEF life, EditorIInv, EditorTypeOK
<1>8. MirrorInv'
  BY <1>1, <1>4 DEF life, MirrorInv
<1>. QED BY <1>7, <1>8

(* A transaction of a text whose range, if the selection stays where it    *)
(* is, has the items it had keeps what does not depend on the composer.    *)
LEMMA TransactedFacts ==
    ASSUME EditorAssumption, EditorIInv, phase = "open",
           NEW t \in Seq(Items), Len(t) <= MaxLength,
           NEW f \in Nat, NEW g \in Nat, f <= g, g <= Len(t),
           Transacted(t, f, g), popover' = Popover(t, f, g) \/ popover' = Closed,
           composer' = composer \/ composer' = [composer EXCEPT !.moved = composer.open],
           posting' = posting,
           f = from /\ g = to /\ from # to => \A i \in 1 .. to : t[i] = text[i]
    PROVE  /\ EditorTypeOK' /\ MirrorInv' /\ TextInv' /\ HeldInv'
           /\ sel' # None /\ ~composer.open => sel' = Selected(t, f, g)
           /\ sel' # None /\ composer.open => sel' = sel /\ f # g
<1>1. /\ text' = t /\ from' = f /\ to' = g /\ phase' = "open"
      /\ last' = Reported(t, f, g) /\ muted' = StillMuted(t, f, g)
  BY DEF Transacted, TriggerSyncs, life
<1>c. /\ composer'.open = composer.open /\ composer'.open \in BOOLEAN
      /\ composer' \in [open: BOOLEAN, quote: {composer'.quote}, moved: BOOLEAN]
  BY DEF EditorIInv, TextInv
<1>b. toolbar' \in BOOLEAN /\ (composer'.open => ~toolbar')
  <2>1. CASE (f = from /\ g = to) \/ (f = g /\ from = to)
    BY <1>c, <2>1 DEF Transacted, SelectionSyncs, EditorIInv, TextInv, HeldInv
  <2>2. CASE ~((f = from /\ g = to) \/ (f = g /\ from = to))
    <3>1. toolbar' = IF f = g THEN FALSE ELSE toolbar \/ ~composer.open
      BY <2>2 DEF Transacted, SelectionSyncs
    <3>. QED BY <1>c, <3>1 DEF EditorIInv, TextInv, HeldInv
  <2>. QED BY <2>1, <2>2
<1>t. EditorTypeOK' /\ MirrorInv'
  BY TransactedTypes
<1>2. last'.start \in Nat /\ muted' \in Nat /\ popover'.start \in Nat
  BY <1>t DEF EditorTypeOK, Places
<1>3. EditorTypeOK' /\ MirrorInv' /\ TextInv'
  BY <1>1, <1>2, <1>b, <1>c, <1>t DEF TextInv
<1>4. CASE f = from /\ g = to /\ from # to
  <2>1. sel' = sel
    BY <1>4 DEF Transacted, SelectionSyncs
  <2>2. Selected(t, f, g) = Selected(text, from, to)
    BY <1>4, SameSelected DEF EditorIInv, TextInv
  <2>. QED BY <1>1, <1>3, <1>4, <1>b, <2>1, <2>2 DEF EditorIInv, HeldInv, FollowsInv
<1>5. CASE f = g /\ from = to
  <2>1. sel' = sel /\ sel = None
    BY <1>5 DEF Transacted, SelectionSyncs, EditorIInv, HeldInv
  <2>. QED BY <1>1, <1>3, <1>b, <2>1 DEF HeldInv
<1>6. CASE ~(f = from /\ g = to /\ from # to) /\ ~(f = g /\ from = to)
  <2>1. sel' = Selection(t, f, g)
    BY <1>6 DEF Transacted, SelectionSyncs
  <2>2. CASE f = g
    <3>1. sel' = None
      BY <2>1, <2>2 DEF Selection
    <3>. QED BY <1>1, <1>3, <1>b, <3>1 DEF HeldInv
  <2>3. CASE f # g
    <3>1. sel' = IF composer.open THEN sel ELSE Selected(t, f, g)
      BY <2>1, <2>3 DEF Selection
    <3>. QED BY <1>1, <1>3, <1>b, <2>3, <3>1 DEF HeldInv
  <2>. QED BY <2>2, <2>3
<1>. QED BY <1>4, <1>5, <1>6

(* A transaction of this user either collapses the selection, which drops  *)
(* the range, or leaves the text alone.                                    *)
LEMMA OwnTransactionKeeps ==
    ASSUME EditorAssumption, EditorIInv, phase = "open",
           NEW t \in Seq(Items), Len(t) <= MaxLength,
           NEW f \in Nat, NEW g \in Nat, f <= g, g <= Len(t),
           Transacted(t, f, g), popover' = Popover(t, f, g) \/ popover' = Closed,
           composer' = composer, posting' = posting,
           t = text \/ f = g
    PROVE  EditorIInv'
<1>1. /\ EditorTypeOK' /\ MirrorInv' /\ TextInv' /\ HeldInv'
      /\ sel' # None /\ ~composer.open => sel' = Selected(t, f, g)
      /\ sel' # None /\ composer.open => sel' = sel /\ f # g
  BY TransactedFacts
<1>2. text' = t /\ from' = f /\ to' = g
  BY DEF Transacted
<1>3. FollowsInv'
  BY <1>1, <1>2 DEF FollowsInv
<1>4. QuoteAnchored'
  BY <1>1, <1>2 DEF EditorIInv, QuoteAnchored
<1>. QED BY <1>1, <1>3, <1>4 DEF EditorIInv

LEMMA TypesKeeps ==
    ASSUME EditorAssumption, EditorIInv, NEW k \in Chars, Types(k) PROVE EditorIInv'
<1>1. PICK t : t = Spliced(text, from, to, <<k>>)
  OBVIOUS
<1>2. <<k>> \in Seq(Items) /\ Len(<<k>>) = 1
  BY DEF Items
<1>3. t \in Seq(Items) /\ Len(t) = from + 1 + Len(text) - to
  <2>1. /\ text \in Seq(Items) /\ from \in Nat /\ to \in Nat /\ from <= to /\ to <= Len(text)
    BY DEF EditorIInv, TextInv
  <2>2. Splices(Spliced(text, from, to, <<k>>), text, from, to, Len(<<k>>))
    BY <1>2, <2>1, SplicedFacts
  <2>. QED BY <1>1, <1>2, <2>2 DEF Splices
<1>4. Len(text) \in Nat /\ from + 1 \in Nat /\ from + 1 <= Len(t)
  BY <1>3, LenProperties DEF EditorIInv, TextInv
<1>5. /\ phase = "open" /\ Transacted(t, from + 1, from + 1)
      /\ popover' = Popover(t, from + 1, from + 1)
      /\ composer' = composer /\ posting' = posting
  BY <1>1 DEF Types, Editing
<1>6. Len(t) <= MaxLength
  <2>1. Len(text) - (to - from) < MaxLength /\ from \in Nat /\ to \in Nat /\ MaxLength \in Nat
    BY DEF Types, EditorAssumption, EditorIInv, TextInv
  <2>. QED BY <1>3, <1>4, <2>1
<1>. QED BY <1>3, <1>4, <1>5, <1>6, OwnTransactionKeeps

LEMMA DeletesKeeps ==
    ASSUME EditorAssumption, EditorIInv, Deletes PROVE EditorIInv'
<1>1. PICK f : f = IF from = to THEN from - 1 ELSE from
  OBVIOUS
<1>2. PICK t : t = Spliced(text, f, to, <<>>)
  OBVIOUS
<1>3. f \in Nat /\ f <= to
  BY <1>1 DEF Deletes, EditorIInv, TextInv
<1>4. <<>> \in Seq(Items) /\ Len(<<>>) = 0
  BY EmptySeq
<1>5. t \in Seq(Items) /\ Len(t) = f + Len(text) - to
  <2>1. /\ text \in Seq(Items) /\ f \in Nat /\ to \in Nat /\ f <= to /\ to <= Len(text)
    BY <1>3 DEF EditorIInv, TextInv
  <2>2. Splices(Spliced(text, f, to, <<>>), text, f, to, Len(<<>>))
    BY <1>4, <2>1, SplicedFacts
  <2>3. f + 0 = f
    BY <2>1
  <2>. QED BY <1>2, <1>4, <2>2, <2>3 DEF Splices
<1>6. f <= Len(t)
  BY <1>3, <1>5, LenProperties DEF EditorIInv, TextInv
<1>7. /\ phase = "open" /\ Transacted(t, f, f)
      /\ popover' = Popover(t, f, f) /\ composer' = composer /\ posting' = posting
  BY <1>1, <1>2 DEF Deletes, Editing
<1>8. Len(t) <= MaxLength
  <2>1. Len(text) \in Nat /\ Len(text) <= MaxLength /\ to \in Nat /\ MaxLength \in Nat
    BY LenProperties DEF EditorAssumption, EditorIInv, TextInv, EditorTypeOK
  <2>. QED BY <1>3, <1>5, <2>1
<1>. QED BY <1>3, <1>5, <1>6, <1>7, <1>8, OwnTransactionKeeps

LEMMA SelectsKeeps ==
    ASSUME EditorAssumption, EditorIInv,
           NEW f \in 0 .. Len(text), NEW g \in f .. Len(text), Selects(f, g)
    PROVE  EditorIInv'
<1>1. text \in Seq(Items) /\ f \in Nat /\ g \in Nat /\ f <= g /\ g <= Len(text)
  BY LenProperties DEF EditorIInv, TextInv
<1>2. /\ phase = "open" /\ Transacted(text, f, g)
      /\ popover' = Popover(text, f, g) /\ composer' = composer /\ posting' = posting
  BY DEF Selects, Editing
<1>3. Len(text) <= MaxLength
  BY DEF EditorIInv, EditorTypeOK
<1>. QED BY <1>1, <1>2, <1>3, OwnTransactionKeeps

LEMMA MarkersRefreshKeeps ==
    ASSUME EditorAssumption, EditorIInv, MarkersRefresh PROVE EditorIInv'
<1>1. /\ phase = "open" /\ Transacted(text, from, to)
      /\ popover' = Popover(text, from, to) /\ composer' = composer /\ posting' = posting
  BY DEF MarkersRefresh, Editing
<1>2. /\ text \in Seq(Items) /\ Len(text) <= MaxLength
      /\ from \in Nat /\ to \in Nat /\ from <= to /\ to <= Len(text)
  BY DEF EditorIInv, EditorTypeOK, TextInv
<1>. QED BY <1>1, <1>2, OwnTransactionKeeps

(* A pick leaves the caret behind the atom, collapsed.  Before a trigger   *)
(* that is replaced nothing moves.                                         *)
LEMMA PicksKeeps == ASSUME EditorAssumption, EditorIInv, Picks PROVE EditorIInv'
<1>1. phase = "open" /\ popover' = Closed /\ composer' = composer /\ posting' = posting
  BY DEF Picks, Editing
<1>2. CASE popover.start # 0 /\ from >= popover.start
  <2>1. PICK s \in Nat : s = popover.start
    BY DEF EditorIInv, TextInv
  <2>q. PICK q \in Nat : q = s - 1
    BY <1>2, <2>1
  <2>a. PICK atom : atom = <<"atom">>
    OBVIOUS
  <2>2. PICK t : t = Spliced(text, q, from, atom)
    OBVIOUS
  <2>3. Transacted(t, s, s)
    BY <1>2, <2>1, <2>2, <2>q, <2>a DEF Picks, Replaced
  <2>4. q <= from /\ from <= Len(text) /\ Len(text) \in Nat /\ from \in Nat
    BY <1>2, <2>1, <2>q, LenProperties DEF EditorIInv, TextInv
  <2>5. atom \in Seq(Items) /\ Len(atom) = 1
    BY <2>a DEF Items
  <2>6. t \in Seq(Items) /\ Len(t) = q + 1 + Len(text) - from
    <3>1. text \in Seq(Items) /\ from \in Nat
      BY DEF EditorIInv, TextInv
    <3>2. Splices(Spliced(text, q, from, atom), text, q, from, Len(atom))
      BY <2>4, <2>5, <3>1, SplicedFacts
    <3>. QED BY <2>2, <2>5, <3>2 DEF Splices
  <2>7. s <= Len(t)
    BY <2>4, <2>6, <2>q
  <2>8. Len(t) <= MaxLength
    <3>1. Len(text) <= MaxLength /\ MaxLength \in Nat
      BY DEF EditorAssumption, EditorIInv, EditorTypeOK
    <3>. QED BY <1>2, <2>1, <2>4, <2>6, <2>q, <3>1
  <2>9. s <= s /\ (popover' = Popover(t, s, s) \/ popover' = Closed)
    BY <1>1
  <2>. QED BY <1>1, <2>3, <2>6, <2>7, <2>8, <2>9, OwnTransactionKeeps
<1>3. CASE ~(popover.start # 0 /\ from >= popover.start)
  <2>1. UNCHANGED <<phase, text, from, to, last, muted, sel, toolbar>>
    BY <1>3 DEF Picks, life
  <2>2. Closed \in [open: BOOLEAN, start: Places] /\ Closed.start = 0 /\ ~Closed.open
    BY DEF Closed, Places, EditorAssumption
  <2>3. UNCHANGED <<phase, alive, provider, synced, ready>>
    BY <1>3 DEF Picks, life
  <2>4. EditorTypeOK'
    BY <1>1, <2>1, <2>2, <2>3 DEF EditorIInv, EditorTypeOK
  <2>. QED BY <1>1, <2>1, <2>2, <2>4 DEF EditorIInv, TextInv, HeldInv, FollowsInv, MirrorInv,
                                         QuoteAnchored
<1>. QED BY <1>2, <1>3

(* Another user's transaction either leaves the range and the text in it   *)
(* alone, or is remembered by the composer.                                *)
LEMMA RemoteKeeps ==
    ASSUME EditorAssumption, EditorIInv, NEW t \in Seq(Items), Len(t) <= MaxLength,
           NEW f \in Nat, NEW g \in Nat,
           phase = "open" => f <= g /\ g <= Len(t),
           phase = "open" /\ f = from /\ g = to /\ from # to => \A i \in 1 .. to : t[i] = text[i],
           Remote(t, f, g)
    PROVE  EditorIInv'
<1>1. composer' = [composer EXCEPT !.moved = composer.open] /\ posting' = posting
  BY DEF Remote
<1>2. /\ composer'.open = composer.open /\ composer'.open \in BOOLEAN
      /\ composer'.moved = composer.open
      /\ composer' \in [open: BOOLEAN, quote: {composer'.quote}, moved: BOOLEAN]
  BY <1>1 DEF EditorIInv, TextInv
<1>3. CASE phase = "open"
  <2>1. Transacted(t, f, g) /\ popover' = Popover(t, f, g)
    BY <1>3 DEF Remote
  <2>3. /\ EditorTypeOK' /\ MirrorInv' /\ TextInv' /\ HeldInv'
        /\ sel' # None /\ ~composer.open => sel' = Selected(t, f, g)
        /\ sel' # None /\ composer.open => sel' = sel /\ f # g
    BY <1>1, <1>3, <2>1, TransactedFacts
  <2>4. text' = t /\ from' = f /\ to' = g
    BY <2>1 DEF Transacted
  <2>. QED BY <1>2, <2>3, <2>4 DEF EditorIInv, FollowsInv, QuoteAnchored
<1>4. CASE phase # "open"
  <2>1. /\ text' = t /\ UNCHANGED <<life, from, to, trigger, sel, toolbar>>
        /\ sel = None /\ from = 0 /\ to = 0
    BY <1>4 DEF Remote, EditorIInv, HeldInv
  <2>2. Len(t) \in Nat
    BY LenProperties
  <2>3. TextInv'
    BY <1>2, <2>1, <2>2 DEF EditorIInv, TextInv, trigger
  <2>4. EditorTypeOK'
    BY <1>1, <1>2, <2>1, <2>2 DEF EditorIInv, EditorTypeOK, TextInv, life, trigger
  <2>5. MirrorInv'
    BY <1>4, <2>1 DEF EditorIInv, MirrorInv, trigger
  <2>. QED BY <1>2, <2>1, <2>3, <2>4, <2>5 DEF EditorIInv, HeldInv, FollowsInv, QuoteAnchored, life
<1>. QED BY <1>3, <1>4

LEMMA PeerInsertsKeeps ==
    ASSUME EditorAssumption, EditorIInv, NEW k \in Items, NEW p \in Places, PeerInserts(k, p)
    PROVE  EditorIInv'
<1>1. PICK right \in BOOLEAN :
        LET Kept(q) == IF p < q \/ (p = q /\ right /\ phase = "open") THEN q + 1 ELSE q
        IN  Remote(Spliced(text, p, p, <<k>>), Kept(from), Kept(to))
  BY DEF PeerInserts
<1>2. /\ text \in Seq(Items) /\ p \in Nat /\ p <= p /\ p <= Len(text) /\ Len(text) \in Nat
      /\ from \in Nat /\ to \in Nat /\ from <= to /\ to <= Len(text)
  BY LenProperties DEF PeerInserts, Places, EditorAssumption, EditorIInv, TextInv
<1>3. <<k>> \in Seq(Items) /\ Len(<<k>>) = 1
  OBVIOUS
<1>4. Splices(Spliced(text, p, p, <<k>>), text, p, p, Len(<<k>>))
  BY <1>2, <1>3, SplicedFacts
<1>5. PICK t : t = Spliced(text, p, p, <<k>>)
  OBVIOUS
<1>6. t \in Seq(Items) /\ Len(t) = Len(text) + 1 /\ \A i \in 1 .. p : t[i] = text[i]
  <2>1. Splices(t, text, p, p, 1)
    BY <1>3, <1>4, <1>5
  <2>2. t \in Seq(Items) /\ Len(t) = p + 1 + Len(text) - p /\ \A i \in 1 .. p : t[i] = text[i]
    BY <2>1 DEF Splices
  <2>3. p + 1 + Len(text) - p = Len(text) + 1
    BY <1>2
  <2>. QED BY <2>2, <2>3
<1>7. PICK f \in Nat : f = IF p < from \/ (p = from /\ right /\ phase = "open")
                           THEN from + 1 ELSE from
  BY <1>2
<1>8. PICK g \in Nat : g = IF p < to \/ (p = to /\ right /\ phase = "open") THEN to + 1 ELSE to
  BY <1>2
<1>9. Remote(t, f, g)
  BY <1>1, <1>5, <1>7, <1>8
<1>10. f <= g /\ g <= Len(t)
  BY <1>2, <1>6, <1>7, <1>8
<1>11. g = to => to <= p
  BY <1>2, <1>8
<1>12. g = to => \A i \in 1 .. to : t[i] = text[i]
  BY <1>2, <1>6, <1>11
<1>13. Len(t) <= MaxLength
  BY <1>2, <1>6 DEF PeerInserts, EditorAssumption
<1>. QED BY <1>6, <1>9, <1>10, <1>12, <1>13, RemoteKeeps

LEMMA PeerDeletesKeeps ==
    ASSUME EditorAssumption, EditorIInv, NEW p \in Places \ {0}, PeerDeletes(p)
    PROVE  EditorIInv'
<1>1. LET Kept(q) == IF p <= q THEN q - 1 ELSE q
      IN  Remote(Spliced(text, p - 1, p, <<>>), Kept(from), Kept(to))
  BY DEF PeerDeletes
<1>2. /\ text \in Seq(Items) /\ p \in Nat /\ p # 0 /\ p <= Len(text) /\ Len(text) \in Nat
      /\ from \in Nat /\ to \in Nat /\ from <= to /\ to <= Len(text)
  BY LenProperties DEF PeerDeletes, Places, EditorAssumption, EditorIInv, TextInv
<1>3. <<>> \in Seq(Items) /\ Len(<<>>) = 0
  BY EmptySeq
<1>q. PICK q \in Nat : q = p - 1
  BY <1>2
<1>4. Splices(Spliced(text, q, p, <<>>), text, q, p, Len(<<>>))
  <2>1. q <= p
    BY <1>2, <1>q
  <2>. QED BY <1>2, <1>3, <2>1, SplicedFacts
<1>5. PICK t : t = Spliced(text, q, p, <<>>)
  OBVIOUS
<1>6. t \in Seq(Items) /\ Len(t) = q + Len(text) - p /\ \A i \in 1 .. q : t[i] = text[i]
  BY <1>2, <1>3, <1>4, <1>5 DEF Splices
<1>7. PICK f \in Nat : f = IF p <= from THEN from - 1 ELSE from
  BY <1>2
<1>8. PICK g \in Nat : g = IF p <= to THEN to - 1 ELSE to
  BY <1>2
<1>9. Remote(t, f, g)
  BY <1>1, <1>5, <1>7, <1>8, <1>q
<1>10. f <= g /\ g <= Len(t)
  BY <1>2, <1>6, <1>7, <1>8, <1>q
<1>11. g = to => to <= q
  BY <1>2, <1>8, <1>q
<1>12. g = to => \A i \in 1 .. to : t[i] = text[i]
  BY <1>2, <1>6, <1>11
<1>13. Len(t) <= MaxLength
  <2>1. Len(text) <= MaxLength /\ MaxLength \in Nat
    BY DEF EditorAssumption, EditorIInv, EditorTypeOK
  <2>. QED BY <1>2, <1>6, <1>q, <2>1
<1>. QED BY <1>6, <1>9, <1>10, <1>12, <1>13, RemoteKeeps

------------------------------------------------------------------------------
(* EditorView: the other steps.                                            *)

LEMMA NothingFacts ==
    /\ NoComposer \in [open: BOOLEAN, quote: {NoComposer.quote}, moved: BOOLEAN]
    /\ NoComposer.open = FALSE /\ Closed.start = 0 /\ Inactive.start = 0
BY DEF NoComposer, Closed, Inactive

LEMMA NothingPlaces ==
    ASSUME EditorAssumption
    PROVE  /\ NoComposer.open \in BOOLEAN /\ NoComposer.moved \in BOOLEAN
           /\ Closed \in [open: BOOLEAN, start: Places] /\ ~Closed.open
           /\ Inactive.start \in Places /\ Inactive.query \in Seq(Items)
BY EmptySeq DEF NoComposer, Closed, Inactive, Places, EditorAssumption

LEMMA EditorInitHolds == ASSUME EditorAssumption, EditorInit PROVE EditorIInv
<1>1. <<>> \in Seq(Items) /\ Len(<<>>) = 0
  BY EmptySeq
<1>2. /\ text \in Seq(Items) /\ Len(text) = 0 /\ from = 0 /\ to = 0
      /\ popover = Closed /\ last = Inactive /\ muted = 0
      /\ sel = None /\ toolbar = FALSE /\ composer = NoComposer
  BY <1>1 DEF EditorInit
<1>3. TextInv
  <2>1. composer.open \in BOOLEAN
        /\ composer \in [open: BOOLEAN, quote: {composer.quote}, moved: BOOLEAN]
    BY <1>2, NothingFacts
  <2>2. toolbar \in BOOLEAN /\ popover.start = 0 /\ last.start = 0
    BY <1>2, NothingFacts
  <2>. QED BY <1>2, <2>1, <2>2 DEF TextInv
<1>4. HeldInv /\ FollowsInv /\ MirrorInv /\ QuoteAnchored
  BY <1>2, NothingFacts, NothingPlaces DEF HeldInv, FollowsInv, MirrorInv, QuoteAnchored
<1>5. EditorTypeOK
  <2>1. /\ composer.open \in BOOLEAN /\ composer.moved \in BOOLEAN
        /\ popover \in [open: BOOLEAN, start: Places]
        /\ last.start \in Places /\ last.query \in Seq(Items)
    BY <1>1, <1>2, NothingPlaces
  <2>2. /\ 0 \in Places /\ from \in 0 .. to /\ to \in 0 .. Len(text)
        /\ Len(text) <= MaxLength
    BY <1>2 DEF Places, EditorAssumption
  <2>3. /\ phase = "importing" /\ alive = TRUE /\ provider = "none"
        /\ synced = FALSE /\ ready = FALSE /\ posting \in 0 .. MaxPosts
    BY DEF EditorInit, EditorAssumption
  <2>. QED BY <1>2, <2>1, <2>2, <2>3 DEF EditorTypeOK
<1>. QED BY <1>3, <1>4, <1>5 DEF EditorIInv

(* The mount: nothing is selected before it is done.                       *)
LEMMA MountKeeps ==
    ASSUME EditorIInv, Imported \/ Persisted \/ ProviderSynced \/ Built PROVE EditorIInv'
<1>1. /\ UNCHANGED <<text, from, to, trigger, comments, alive>>
      /\ phase' = phase \/ (phase # "open" /\ phase' # "importing")
  BY DEF Imported, Persisted, ProviderSynced, Built
<1>2. TextInv' /\ HeldInv' /\ FollowsInv' /\ QuoteAnchored'
  BY <1>1 DEF trigger, comments, EditorIInv, TextInv, HeldInv, FollowsInv, QuoteAnchored
<1>3. MirrorInv'
  BY <1>1 DEF trigger, EditorIInv, MirrorInv
<1>4. /\ phase' \in {"importing", "opening", "building", "open", "broken"}
      /\ alive' \in BOOLEAN /\ provider' \in {"none", "live", "destroyed"}
      /\ synced' \in BOOLEAN /\ ready' \in BOOLEAN /\ (ready' => synced' /\ phase' = "open")
  BY DEF Imported, Persisted, ProviderSynced, Built, EditorIInv, EditorTypeOK
<1>5. EditorTypeOK'
  BY <1>1, <1>4 DEF trigger, comments, EditorIInv, EditorTypeOK
<1>. QED BY <1>2, <1>3, <1>5 DEF EditorIInv

LEMMA DestroyedKeeps == ASSUME EditorAssumption, EditorIInv, Destroyed PROVE EditorIInv'
<1>1. <<>> \in Seq(Items) /\ Len(<<>>) = 0
  BY EmptySeq
<1>2. /\ text' \in Seq(Items) /\ Len(text') = 0 /\ from' = 0 /\ to' = 0
      /\ popover' = Closed /\ last' = Inactive /\ muted' = 0
      /\ sel' = None /\ toolbar' = FALSE /\ composer' = NoComposer
  BY <1>1 DEF Destroyed
<1>3. TextInv'
  <2>1. composer'.open \in BOOLEAN
        /\ composer' \in [open: BOOLEAN, quote: {composer'.quote}, moved: BOOLEAN]
    BY <1>2, NothingFacts
  <2>2. toolbar' \in BOOLEAN /\ popover'.start = 0 /\ last'.start = 0
    BY <1>2, NothingFacts
  <2>. QED BY <1>2, <2>1, <2>2 DEF TextInv
<1>4. HeldInv' /\ FollowsInv' /\ MirrorInv' /\ QuoteAnchored'
  BY <1>2, NothingFacts, NothingPlaces DEF HeldInv, FollowsInv, MirrorInv, QuoteAnchored
<1>5. EditorTypeOK'
  <2>1. /\ composer'.open \in BOOLEAN /\ composer'.moved \in BOOLEAN
        /\ popover' \in [open: BOOLEAN, start: Places]
        /\ last'.start \in Places /\ last'.query \in Seq(Items)
    BY <1>2, NothingPlaces
  <2>2. /\ 0 \in Places /\ from' \in 0 .. to' /\ to' \in 0 .. Len(text')
        /\ Len(text') <= MaxLength
    BY <1>2 DEF Places, EditorAssumption
  <2>3. /\ UNCHANGED <<phase, synced, ready>> /\ alive' \in BOOLEAN
        /\ posting' \in 0 .. MaxPosts
        /\ provider' \in {"none", "live", "destroyed"}
    <3>1. MaxPosts \in Nat => 0 \in 0 .. MaxPosts
      OBVIOUS
    <3>2. posting' = 0 /\ MaxPosts \in Nat
      BY DEF Destroyed, EditorAssumption
    <3>. QED BY <3>1, <3>2 DEF Destroyed, EditorIInv, EditorTypeOK
  <2>. QED BY <1>2, <2>1, <2>2, <2>3 DEF EditorIInv, EditorTypeOK
<1>. QED BY <1>3, <1>4, <1>5 DEF EditorIInv

LEMMA EscapesKeeps == ASSUME EditorAssumption, EditorIInv, Escapes PROVE EditorIInv'
<1>1. muted' \in Places /\ muted' \in Nat
  <2>1. text \in Seq(Items) /\ from \in Nat /\ to \in Nat /\ from <= to /\ to <= Len(text)
    BY DEF EditorIInv, TextInv
  <2>2. from <= Len(text)
    BY <2>1, LenProperties
  <2>. QED BY <2>1, <2>2, StatusType DEF Escapes, Places
<1>2. popover' \in [open: BOOLEAN, start: Places] /\ ~popover'.open /\ popover'.start \in Nat
  <2>1. popover \in [open: BOOLEAN, start: Places] /\ popover' = [popover EXCEPT !.open = FALSE]
    BY DEF Escapes, EditorIInv, EditorTypeOK
  <2>2. popover' \in [open: BOOLEAN, start: Places] /\ ~popover'.open
    BY <2>1
  <2>. QED BY <2>2 DEF Places
<1>3. /\ UNCHANGED <<life, text, from, to, last, comments>>
      /\ UNCHANGED <<phase, alive, provider, synced, ready, sel, toolbar, composer, posting>>
  BY DEF Escapes, life, comments
<1>4. EditorTypeOK'
  BY <1>1, <1>2, <1>3 DEF EditorIInv, EditorTypeOK
<1>. QED BY <1>1, <1>2, <1>3, <1>4 DEF EditorIInv, TextInv, HeldInv, FollowsInv, MirrorInv,
                                       QuoteAnchored

(* What the composer quotes is the selection, which is the text's.         *)
LEMMA OpensComposerKeeps == ASSUME EditorIInv, OpensComposer PROVE EditorIInv'
<1>1. sel = Selected(text, from, to)
  BY DEF OpensComposer, EditorIInv, HeldInv, FollowsInv
<1>2. sel.from = from /\ sel.to = to /\ sel.text = Letters(SubSeq(text, from + 1, to))
  BY <1>1 DEF Selected
<1>3. /\ UNCHANGED <<life, text, from, to, trigger, sel, posting>>
      /\ composer'.open = TRUE /\ composer'.moved = FALSE /\ composer'.quote = sel.text
      /\ composer' \in [open: BOOLEAN, quote: {composer'.quote}, moved: BOOLEAN]
      /\ toolbar' = FALSE /\ sel # None
  BY DEF OpensComposer
<1>4. EditorTypeOK' /\ MirrorInv'
  BY <1>3 DEF life, trigger, EditorIInv, EditorTypeOK, MirrorInv
<1>. QED BY <1>2, <1>3, <1>4 DEF life, trigger, EditorIInv, TextInv, HeldInv, FollowsInv,
                                 QuoteAnchored

(* A step that leaves the text and the trigger alone, and of the comment   *)
(* only the composer and what it holds.                                    *)
LEMMA ComposerKeepsTypes ==
    ASSUME EditorIInv, UNCHANGED <<life, text, from, to, trigger, toolbar>>,
           sel' = sel \/ sel' = None, composer' = composer \/ composer' = NoComposer,
           posting' \in 0 .. MaxPosts
    PROVE  EditorTypeOK' /\ MirrorInv'
<1>1. NoComposer.open \in BOOLEAN /\ NoComposer.moved \in BOOLEAN
  BY DEF NoComposer
<1>. QED BY <1>1 DEF life, trigger, EditorIInv, EditorTypeOK, MirrorInv

LEMMA SubmitsKeeps == ASSUME EditorAssumption, EditorIInv, Submits PROVE EditorIInv'
<1>1. posting' \in 0 .. MaxPosts
  BY DEF Submits, EditorAssumption, EditorIInv, EditorTypeOK
<1>2. EditorTypeOK' /\ MirrorInv'
  BY <1>1, ComposerKeepsTypes DEF Submits
<1>. QED BY <1>2, NothingFacts
         DEF Submits, life, trigger, EditorIInv, TextInv, HeldInv, FollowsInv, QuoteAnchored

LEMMA PostedKeeps ==
    ASSUME EditorAssumption, EditorIInv, NEW ok \in BOOLEAN, Posted(ok) PROVE EditorIInv'
<1>0. posting' \in 0 .. MaxPosts
  BY DEF Posted, EditorAssumption, EditorIInv, EditorTypeOK
<1>1. EditorTypeOK' /\ MirrorInv'
  <2>1. CASE ok
    <3>1. /\ text \in Seq(Items) /\ from \in Nat /\ from <= Len(text)
          /\ EditorTypeOK /\ MirrorInv
      BY LenProperties DEF EditorIInv, TextInv
    <3>2. TriggerSyncs(text, from, to) /\ popover' = Popover(text, from, to)
      BY <2>1 DEF Posted
    <3>3. /\ last'.start \in Places /\ last'.query \in Seq(Items) /\ muted' \in Places
          /\ popover' \in [open: BOOLEAN, start: Places]
          /\ popover'.open => /\ last' # Inactive /\ last' = Status(text, from, to)
                              /\ popover'.start = last'.start
      BY <3>1, <3>2, TriggerFacts
    <3>4. /\ UNCHANGED <<life, text, from, to, toolbar>> /\ phase = "open"
          /\ sel' = None /\ posting' \in 0 .. MaxPosts
          /\ composer'.open \in BOOLEAN /\ composer'.moved \in BOOLEAN
      BY <1>0, NothingPlaces DEF Posted, Editing
    <3>5. EditorTypeOK'
      BY <3>1, <3>3, <3>4 DEF life, EditorTypeOK
    <3>. QED BY <3>3, <3>4, <3>5 DEF life, MirrorInv
  <2>2. CASE ~ok
    BY <1>0, <2>2, ComposerKeepsTypes DEF Posted
  <2>. QED BY <2>1, <2>2
<1>2. last'.start \in Nat /\ muted' \in Nat /\ popover'.start \in Nat
  BY <1>1 DEF EditorTypeOK, Places
<1>. QED BY <1>1, <1>2, NothingFacts DEF Posted, life, EditorIInv, TextInv, HeldInv, FollowsInv,
               QuoteAnchored

LEMMA CancelsKeeps == ASSUME EditorIInv, CancelsComposer PROVE EditorIInv'
<1>1. EditorTypeOK' /\ MirrorInv'
  BY ComposerKeepsTypes DEF CancelsComposer, EditorIInv, EditorTypeOK
<1>. QED BY <1>1, NothingFacts
         DEF CancelsComposer, life, trigger, EditorIInv, TextInv, HeldInv, FollowsInv, QuoteAnchored

LEMMA EditorStutterKeeps == ASSUME EditorIInv, UNCHANGED editorVars PROVE EditorIInv'
<1>1. EditorTypeOK' /\ MirrorInv'
  BY ComposerKeepsTypes DEF editorVars, comments, EditorIInv, EditorTypeOK
<1>. QED BY <1>1
         DEF editorVars, life, trigger, comments, EditorIInv, TextInv, HeldInv, FollowsInv, QuoteAnchored

LEMMA EditorStepKeeps == EditorAssumption /\ EditorIInv /\ [EditorNext]_editorVars => EditorIInv'
BY TypesKeeps, DeletesKeeps, SelectsKeeps, MarkersRefreshKeeps, PicksKeeps, PeerInsertsKeeps,
   PeerDeletesKeeps, MountKeeps, DestroyedKeeps, EscapesKeeps, OpensComposerKeeps, SubmitsKeeps,
   PostedKeeps, CancelsKeeps, EditorStutterKeeps DEF EditorNext

------------------------------------------------------------------------------
(* EditorView: the pick.                                                   *)

(* Without atoms before the caret the plugin reads the items before it.    *)
LEMMA CaretRead ==
    ASSUME NEW t \in Seq(Items), NEW p \in Nat, p <= Len(t), \A i \in 1 .. p : t[i] # "atom"
    PROVE  Len(BeforeCaret(t, p)) = p /\ \A i \in 1 .. p : BeforeCaret(t, p)[i] = t[i]
<1>1. PICK s : s = Letters(t)
  OBVIOUS
<1>2. s \in Seq(Chars) /\ Len(s) \in Nat /\ p <= Len(s) /\ \A i \in 1 .. p : s[i] = t[i]
  BY <1>1, LettersType, LettersBefore, LenProperties
<1>3. BeforeCaret(t, p) = SubSeq(s, 1, p)
  BY <1>1, <1>2 DEF BeforeCaret, Least
<1>4. \A i \in 1 .. p : s[i] \in Chars
  BY <1>2, ElementOfSeq
<1>5. /\ Len(SubSeq(s, 1, p)) = IF 1 <= p THEN p - 1 + 1 ELSE 0
      /\ \A i \in 1 .. p - 1 + 1 : SubSeq(s, 1, p)[i] = s[1 + i - 1]
  BY <1>4, SubSeqProperties
<1>. QED BY <1>2, <1>3, <1>5

(* What the plugin detects there is the last trigger before the caret that *)
(* nothing but a query follows: the one the user sees.                     *)
LEMMA DetectedIsTyped ==
    ASSUME EditorAssumption, NEW t \in Seq(Items), Len(t) <= MaxLength,
           NEW p \in Nat, p <= Len(t), \A i \in 1 .. p : t[i] # "atom",
           NEW s, s = DetectTrigger(t, p), s # 0
    PROVE  s \in Typed(t, p) /\ \A j \in Typed(t, p) : j <= s
<1>1. PICK b : b = BeforeCaret(t, p)
  OBVIOUS
<1>2. Len(b) = p /\ \A i \in 1 .. p : b[i] = t[i]
  BY <1>1, CaretRead
<1>3. s \in Begun(b)
  BY <1>1, DetectedBegun
<1>4. /\ s \in Starts(b) /\ \A j \in Starts(b) : j <= s
      /\ \A j \in s + Width .. Len(b) : b[j] = "word"
  BY <1>3 DEF Begun
<1>5. Width \in Nat /\ Width >= 1 /\ MaxLength \in Nat /\ p <= MaxLength
  BY LenProperties DEF EditorAssumption
<1>6. /\ s \in Nat /\ s >= 1 /\ s + Width - 1 <= p
      /\ \A j \in s .. s + Width - 1 : b[j] = "trigger"
  BY <1>2, <1>4, <1>5 DEF Starts, Places
<1>7. s \in Typed(t, p)
  <2>1. s \in 1 .. p
    BY <1>5, <1>6
  <2>2. \A j \in s .. s + Width - 1 : j \in 1 .. p /\ t[j] = "trigger"
    BY <1>2, <1>5, <1>6
  <2>3. \A j \in s + Width .. p : j \in 1 .. p /\ t[j] = "word"
    BY <1>2, <1>4, <1>5, <1>6
  <2>. QED BY <1>6, <2>1, <2>2, <2>3 DEF Typed
<1>8. ASSUME NEW j \in Typed(t, p) PROVE j <= s
  <2>1. j \in 1 .. p /\ j + Width - 1 <= p /\ \A k \in j .. j + Width - 1 : t[k] = "trigger"
    BY <1>8 DEF Typed
  <2>2. \A k \in j .. j + Width - 1 : k \in 1 .. p /\ b[k] = "trigger"
    BY <1>2, <1>5, <2>1
  <2>3. j \in Places \ {0}
    BY <1>5, <2>1 DEF Places
  <2>4. j \in Starts(b)
    BY <1>2, <2>1, <2>2, <2>3 DEF Starts
  <2>. QED BY <1>4, <2>4
<1>. QED BY <1>7, <1>8

LEMMA PickIsOfTheQuery ==
    ASSUME EditorAssumption, EditorIInv, Picks, \A i \in 1 .. from : text[i] # "atom"
    PROVE  OnlyTheQuery
<1>1. /\ text \in Seq(Items) /\ Len(text) <= MaxLength
      /\ from \in Nat /\ to \in Nat /\ from <= to /\ to <= Len(text) /\ Len(text) \in Nat
  BY LenProperties DEF EditorIInv, EditorTypeOK, TextInv
<1>2. from <= Len(text)
  BY <1>1
<1>3. last # Inactive /\ popover.start = last.start /\ last = Status(text, from, to)
  BY DEF Picks, EditorIInv, MirrorInv
<1>4. PICK s : s = popover.start
  OBVIOUS
<1>5. s = DetectTrigger(text, from) /\ s # 0
  BY <1>1, <1>2, <1>3, <1>4, StatusType
<1>6. s \in Typed(text, from) /\ \A j \in Typed(text, from) : j <= s
  BY <1>1, <1>2, <1>5, DetectedIsTyped
<1>7. Typed(text, from) \subseteq Nat
  BY DEF Typed
<1>8. s = CHOOSE i \in Typed(text, from) : \A j \in Typed(text, from) : j <= i
  <2>1. \A i \in Typed(text, from) : (\A j \in Typed(text, from) : j <= i) => i = s
    BY <1>6, <1>7
  <2>. QED BY <1>6, <2>1
<1>9. from >= s
  BY <1>6 DEF Typed
<1>10. text' = Replaced(text, s, from)
  BY <1>4, <1>5, <1>9 DEF Picks, Transacted
<1>. QED BY <1>6, <1>8, <1>10 DEF OnlyTheQuery

------------------------------------------------------------------------------
(* EditorView: theorems.                                                   *)

\* The inductive invariant of the editor's text, selection and composer.
THEOREM EditorInvariant == EditorAssumption => (EditorSpec => []EditorIInv)
<1>. SUFFICES ASSUME EditorAssumption PROVE EditorSpec => []EditorIInv
  OBVIOUS
<1>. QED BY EditorInitHolds, EditorStepKeeps, PTL DEF EditorSpec

\* comment-selection-plugin.ts and Editor.svelte: the range that a submit
\* anchors is the text the composer quotes, unless another user edited since.
THEOREM QuoteStaysAnchored == EditorAssumption => (EditorSpec => []QuoteAnchored)
<1>. SUFFICES ASSUME EditorAssumption PROVE EditorSpec => []QuoteAnchored
  OBVIOUS
<1>1. EditorIInv => QuoteAnchored
  BY DEF EditorIInv
<1>. QED BY <1>1, EditorInvariant, PTL

\* Editor.svelte and the two plugins: every step of the mount, of this user
\* and of the others leaves a text within its bound, a selection in it, and
\* a spinner that goes only once the document is synchronised.
THEOREM EditorTypeCorrect == EditorAssumption => (EditorSpec => []EditorTypeOK)
<1>. SUFFICES ASSUME EditorAssumption PROVE EditorSpec => []EditorTypeOK
  OBVIOUS
<1>1. EditorIInv => EditorTypeOK
  BY DEF EditorIInv
<1>. QED BY <1>1, EditorInvariant, PTL

\* mention-trigger-plugin.ts and backlink-trigger-plugin.ts: a pick replaces
\* the trigger and its query and nothing else, wherever the others' edits
\* moved them, as long as no atom stands before the caret.
THEOREM PickReplacesTheQuery == EditorAssumption => (EditorSpec => PickTakesTheQuery)
<1>. SUFFICES ASSUME EditorAssumption PROVE EditorSpec => PickTakesTheQuery
  OBVIOUS
<1>1. EditorIInv /\ [EditorNext]_editorVars =>
        [Picks /\ (\A i \in 1 .. from : text[i] # "atom") => OnlyTheQuery]_editorVars
  BY PickIsOfTheQuery
<1>. QED BY <1>1, EditorInvariant, PTL DEF EditorSpec, PickTakesTheQuery

==============================================================================
