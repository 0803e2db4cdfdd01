---------------------------- MODULE TuiAppProofs ----------------------------
(***************************************************************************)
(* Proofs about TuiApp, for any notes and citations, any kinds of message  *)
(* and any bound.                                                          *)
(*                                                                         *)
(* Its type invariant is not inductive: what a chord shows, what a dialog  *)
(* asks and what its answer runs come out of a message that waits, so the  *)
(* invariant adds what each kind of message that waits is about.           *)
(***************************************************************************)
EXTENDS TuiApp, TLAPS

Named == Notes \cup {None}

\* A chord names a pane, a question a dialog, and an answer one that runs
\* something.
Posted ==
    {m \in Message :
        /\ m.kind = "chord" => m.what \in Panes
        /\ m.kind = "ask" => m.what \in Dialogs
        /\ m.kind = "answer" => m.what \in Dialogs \ {"help", "palette", "users", "links"}}

AppInv == TypeOK /\ inbox \in Seq(Posted)

------------------------------------------------------------------------------
(* Rows, tasks and messages.                                               *)

LEMMA RowsType == ASSUME NEW s \in SUBSET Notes PROVE RowsOf(s) \in SUBSET Row
<1>1. ASSUME NEW n \in Notes PROVE [note |-> n, tagged |-> n \in tagged] \in Row
  <2>1. CASE n \in tagged
    <3>1. (n \in tagged) = TRUE
      BY <2>1
    <3>2. [note |-> n, tagged |-> TRUE] \in Row
      BY DEF Row
    <3>. QED BY ONLY <3>1, <3>2
  <2>2. CASE n \notin tagged
    <3>1. (n \in tagged) = FALSE
      BY <2>2
    <3>2. [note |-> n, tagged |-> FALSE] \in Row
      BY DEF Row
    <3>. QED BY ONLY <3>1, <3>2
  <2>. QED BY <2>1, <2>2
<1>. QED BY <1>1 DEF RowsOf

LEMMA NotesType == ASSUME NEW rows \in SUBSET Row PROVE NotesOf(rows) \in SUBSET Notes
BY DEF NotesOf, Row

LEMMA FilteredType == ASSUME NEW rows \in SUBSET Row PROVE Filtered(rows) \in SUBSET Row
BY DEF Filtered

LEMMA IdleType == Idle \in Task
<1>1. <<>> \in Seq(Step)
  OBVIOUS
<1>. QED BY <1>1 DEF Idle, Task

LEMMA JobType ==
    ASSUME NEW plan \in Seq(Step), NEW n \in Named, NEW o \in Named, NEW p \in Panes \cup {None}
    PROVE  Job(plan, n, o, p) \in Task
BY IdleType DEF Job, Task, Named

LEMMA BeginType ==
    ASSUME NEW t \in Task, NEW c \in Named
    PROVE  Begin(t, c) \in Task
<1>. DEFINE n == IF Head(t.plan) \in {"show", "refresh"} /\ t.pane \in OfNote THEN c ELSE t.note
<1>1. n \in Named
  BY DEF Task, Named
<1>2. [t EXCEPT !.back = FALSE, !.rows = {}, !.note = n] \in Task
  BY <1>1 DEF Task, Named
<1>. QED BY <1>2, IdleType DEF Begin

LEMMA AfterType ==
    ASSUME NEW t \in Task, Busy(t)
    PROVE  [t EXCEPT !.plan = Tail(@)] \in Task
<1>1. t.plan \in Seq(Step) /\ t.plan # <<>>
  BY DEF Task, Busy
<1>2. Tail(t.plan) \in Seq(Step)
  BY <1>1
<1>. QED BY <1>2 DEF Task

LEMMA PlanType ==
    ASSUME NEW what \in Dialogs \ {"help", "palette", "users", "links"}
    PROVE  PlanOf(what) \in Seq(Step)
<1>1. what \in {"delete", "rename", "comment", "reply", "export", "zip", "revert"}
  BY DEF Dialogs
<1>2. what \in {"export", "zip", "revert"} => <<what>> \in Seq(Step)
  BY DEF Step
<1>3. <<"delete", "list">> \in Seq(Step) /\ <<"rename", "list">> \in Seq(Step)
      /\ <<"post", "refresh">> \in Seq(Step) /\ <<"thread", "refresh">> \in Seq(Step)
  BY DEF Step
<1>. QED BY <1>1, <1>2, <1>3 DEF PlanOf

LEMMA MsgType ==
    ASSUME NEW k \in {"search", "cancel", "typed", "submitted", "tags", "tag", "untag",
                      "open", "new", "undelete", "untrash", "purge", "mention",
                      "highlight", "thread", "users"},
           NEW w \in {"", "q"}, NEW n \in Named
    PROVE  Msg(k, w, n) \in Posted
BY DEF Msg, Posted, Message, Named

LEMMA ChordType == ASSUME NEW p \in Panes PROVE Msg("chord", p, None) \in Posted
BY DEF Msg, Posted, Message

LEMMA AskType ==
    ASSUME NEW d \in Dialogs, NEW n \in Named
    PROVE  Msg("ask", d, n) \in Posted
BY DEF Msg, Posted, Message, Named

LEMMA AnswerType ==
    ASSUME NEW d \in Dialog, d.what \notin {"help", "palette", "users", "links"}
    PROVE  [Msg("answer", d.what, d.note) EXCEPT !.of = d.of] \in Posted
BY DEF Msg, Posted, Message, Dialog

LEMMA PostedIsMessage == \A s : s \in Seq(Posted) => s \in Seq(Message)
BY DEF Posted

------------------------------------------------------------------------------
(* The state in parts, for the actions leave most of it alone.             *)

ServerOK ==
    /\ live \in SUBSET Notes /\ trash \in SUBSET Notes /\ tagged \in SUBSET Notes
    /\ elsewhere \in 0 .. MaxElsewhere
PlaceOK == doc \in Named /\ room \in Notes \cup {None, "closed"}
ListOK == all \in SUBSET Row /\ view \in SUBSET Row /\ tag \in BOOLEAN
SearchOK == searching \in BOOLEAN /\ query \in {"", "q"}
OverlayOK ==
    /\ picking \in BOOLEAN /\ focus \in {"editor", "search", "tags", "list", "pane"}
    /\ modals \in Seq(Dialog)
SideOK ==
    /\ pane \in Panes \cup {None} /\ shown \in [Panes -> SUBSET Notes] /\ preview \in Named
TasksOK == pump \in Task /\ poll \in Task /\ workers \in SUBSET Task /\ timer \in BOOLEAN
RestOK ==
    /\ lastDeleted \in Named /\ exited \in BOOLEAN
    /\ keys \in 0 .. MaxKeys /\ inbox \in Seq(Posted)
Parts == ServerOK /\ PlaceOK /\ ListOK /\ SearchOK /\ OverlayOK /\ SideOK /\ TasksOK /\ RestOK

LEMMA InParts == AppInv <=> Parts
BY PostedIsMessage
   DEF AppInv, TypeOK, Parts, ServerOK, PlaceOK, ListOK, SearchOK, OverlayOK, SideOK, TasksOK,
       RestOK, Named

LEMMA ServerStays == ServerOK /\ UNCHANGED server => ServerOK'
BY DEF ServerOK, server
LEMMA PlaceStays == PlaceOK /\ UNCHANGED place => PlaceOK'
BY DEF PlaceOK, place, Named
LEMMA ListStays == ListOK /\ UNCHANGED list => ListOK'
BY DEF ListOK, list
LEMMA SearchStays == SearchOK /\ UNCHANGED search => SearchOK'
BY DEF SearchOK, search
LEMMA OverlayStays == OverlayOK /\ UNCHANGED overlay => OverlayOK'
BY DEF OverlayOK, overlay
LEMMA SideStays == SideOK /\ UNCHANGED side => SideOK'
BY DEF SideOK, side, Named
LEMMA TasksStay == TasksOK /\ UNCHANGED tasks => TasksOK'
BY DEF TasksOK, tasks

LEMMA InitTyped == AppAssumption /\ Init => Parts
<1>. SUFFICES ASSUME AppAssumption, Init PROVE Parts
  OBVIOUS
<1>0. 0 \in 0 .. MaxKeys /\ 0 \in 0 .. MaxElsewhere
  BY DEF AppAssumption
<1>1. ServerOK
  <2>1. /\ live \in SUBSET Notes /\ trash \in SUBSET (Notes \ live) /\ tagged \in SUBSET (live \cup trash)
        /\ elsewhere = 0
    BY DEF Init
  <2>. QED BY <1>0, <2>1 DEF ServerOK
<1>2. <<"auth", "enter", "first">> \in Seq(Step)
  BY DEF Step
<1>3. TasksOK
  BY <1>2, IdleType, JobType DEF Init, TasksOK, Named
<1>4. RestOK
  <2>1. <<>> \in Seq(Posted)
    OBVIOUS
  <2>2. lastDeleted = None /\ exited = FALSE /\ keys = 0 /\ inbox = <<>>
    BY DEF Init
  <2>. QED BY <1>0, <2>1, <2>2 DEF RestOK, Named
<1>5. OverlayOK
  <2>1. <<>> \in Seq(Dialog)
    OBVIOUS
  <2>. QED BY <2>1 DEF Init, OverlayOK
<1>6. PlaceOK /\ ListOK /\ SearchOK
  BY DEF Init, PlaceOK, ListOK, SearchOK, Named
<1>7. SideOK
  BY DEF Init, SideOK, Named
<1>. QED BY <1>1, <1>3, <1>4, <1>5, <1>6, <1>7 DEF Parts

LEMMA ExitTyped == Parts /\ Exit /\ UNCHANGED server => Parts'
<1>. SUFFICES ASSUME Parts, Exit, UNCHANGED server PROVE Parts'
  OBVIOUS
<1>1. ServerOK'
  BY ServerStays DEF Parts
<1>2. TasksOK'
  BY IdleType DEF Exit, TasksOK
<1>3. RestOK'
  <2>1. <<>> \in Seq(Posted)
    OBVIOUS
  <2>. QED BY <2>1 DEF Exit, Parts, RestOK, Named
<1>4. OverlayOK'
  <2>1. <<>> \in Seq(Dialog)
    OBVIOUS
  <2>. QED BY <2>1 DEF Exit, OverlayOK
<1>5. PlaceOK' /\ ListOK' /\ SearchOK'
  BY DEF Exit, PlaceOK, ListOK, SearchOK, Named
<1>6. SideOK'
  BY DEF Exit, SideOK, Named
<1>. QED BY <1>1, <1>2, <1>3, <1>4, <1>5, <1>6 DEF Parts

------------------------------------------------------------------------------
(* The user.                                                               *)

LEMMA PressTyped ==
    ASSUME AppAssumption, RestOK, NEW m \in Posted, Press(m), UNCHANGED <<lastDeleted, exited>>
    PROVE  RestOK'
<1>1. inbox' \in Seq(Posted)
  BY DEF Press, RestOK
<1>2. keys' \in 0 .. MaxKeys
  BY DEF Press, RestOK, AppAssumption
<1>. QED BY <1>1, <1>2 DEF RestOK

LEMMA KeyTyped ==
    ASSUME AppAssumption, Parts, EditorKey \/ PickerKey \/ ListKey \/ PaneKey
    PROVE  Parts'
<1>1. UNCHANGED <<server, place, list, search, overlay, side, lastDeleted, tasks, exited>>
  BY DEF EditorKey, PickerKey, ListKey, PaneKey
<1>2. None \in Named /\ (\A n \in Cited : n \in Named)
  BY DEF AppAssumption, Named
<1>3. \E m \in Posted : Press(m)
  <2>1. CASE EditorKey
    <3>1. ASSUME NEW k \in {"search", "tags", "new", "undelete", "users"}, Press(Msg(k, "", None))
          PROVE  \E m \in Posted : Press(m)
      BY <1>2, <3>1, MsgType
    <3>2. ASSUME NEW p \in Panes, Press(Msg("chord", p, None)) PROVE \E m \in Posted : Press(m)
      BY <3>2, ChordType
    <3>3. ASSUME NEW d \in {"help", "palette", "links", "rename", "delete"}, Press(Msg("ask", d, None))
          PROVE  \E m \in Posted : Press(m)
      <4>1. d \in Dialogs
        BY DEF Dialogs
      <4>. QED BY <1>2, <3>3, <4>1, AskType
    <3>4. ASSUME NEW n \in Cited, Press(Msg("open", "", n)) PROVE \E m \in Posted : Press(m)
      BY <1>2, <3>4, MsgType
    <3>. QED BY <2>1, <3>1, <3>2, <3>3, <3>4 DEF EditorKey
  <2>2. CASE PickerKey
    BY <1>2, <2>2, MsgType DEF PickerKey
  <2>3. CASE ListKey
    <3>1. PICK r \in view : Press(Msg("open", "", r.note))
      BY <2>3 DEF ListKey
    <3>2. r.note \in Named
      BY DEF Parts, ListOK, Row, Named
    <3>. QED BY <3>1, <3>2, MsgType
  <2>4. CASE PaneKey
    <3>1. pane \in Panes /\ shown[pane] \in SUBSET Notes
      BY <2>4 DEF PaneKey, Parts, SideOK
    <3>2. ASSUME NEW n \in shown[pane],
                 NEW k \in {"open", "untrash", "purge", "mention", "highlight", "thread"},
                 Press(Msg(k, "", n))
          PROVE  \E m \in Posted : Press(m)
      <4>1. n \in Named
        BY <3>1 DEF Named
      <4>. QED BY <3>2, <4>1, MsgType
    <3>3. ASSUME NEW n \in Named, NEW d \in {"revert", "reply", "comment"}, Press(Msg("ask", d, n))
          PROVE  \E m \in Posted : Press(m)
      <4>1. d \in Dialogs
        BY DEF Dialogs
      <4>. QED BY <3>3, <4>1, AskType
    <3>4. \A n \in shown[pane] : n \in Named
      BY <3>1 DEF Named
    <3>5. \/ \E n \in shown[pane] :
              \/ \E k \in {"open", "untrash", "purge", "mention", "highlight", "thread"} : Press(Msg(k, "", n))
              \/ \E d \in {"revert", "reply", "comment"} : Press(Msg("ask", d, n))
          \/ Press(Msg("ask", "comment", None))
      BY <2>4 DEF PaneKey
    <3>. QED BY <1>2, <3>2, <3>3, <3>4, <3>5
  <2>. QED BY <2>1, <2>2, <2>3, <2>4
<1>4. RestOK'
  BY <1>1, <1>3, PressTyped DEF Parts
<1>. QED BY <1>1, <1>4, ServerStays, PlaceStays, ListStays, SearchStays, OverlayStays, SideStays,
            TasksStay DEF Parts

LEMMA SearchKeyTyped ==
    ASSUME AppAssumption, Parts, SearchKey
    PROVE  Parts'
<1>1. UNCHANGED <<server, place, list, searching, overlay, side, lastDeleted, tasks, exited>>
  BY DEF SearchKey
<1>2. query' \in {"", "q"}
  BY DEF SearchKey, Parts, SearchOK
<1>3. \E m \in Posted : Press(m)
  <2>1. None \in Named
    BY DEF Named
  <2>2. Msg("typed", query', None) \in Posted
    BY <1>2, <2>1, MsgType
  <2>3. Msg("cancel", "", None) \in Posted /\ Msg("submitted", "", None) \in Posted
    BY <2>1, MsgType
  <2>. QED BY <2>2, <2>3 DEF SearchKey
<1>4. RestOK'
  BY <1>1, <1>3, PressTyped DEF Parts
<1>5. SearchOK'
  BY <1>1, <1>2 DEF Parts, SearchOK
<1>. QED BY <1>1, <1>4, <1>5, ServerStays, PlaceStays, ListStays, OverlayStays, SideStays,
            TasksStay DEF Parts

LEMMA ClickTyped ==
    ASSUME AppAssumption, Parts, NEW f \in {"editor", "search", "list", "pane"}, Click(f)
    PROVE  Parts'
<1>1. UNCHANGED <<server, place, list, search, picking, modals, side, lastDeleted, inbox, tasks, exited>>
      /\ keys < MaxKeys /\ keys' = keys + 1 /\ focus' = f
  BY DEF Click
<1>2. RestOK'
  BY <1>1 DEF Parts, RestOK, AppAssumption
<1>3. OverlayOK'
  BY <1>1 DEF Parts, OverlayOK
<1>. QED BY <1>1, <1>2, <1>3, ServerStays, PlaceStays, ListStays, SearchStays, SideStays,
            TasksStay DEF Parts

LEMMA AnswerTyped ==
    ASSUME AppAssumption, Parts, AnswerDialog
    PROVE  Parts'
<1>1. UNCHANGED <<server, place, list, search, picking, focus, side, lastDeleted, tasks, exited>>
      /\ modals # <<>> /\ modals' = Tail(modals)
  BY DEF AnswerDialog
<1>2. PICK d : d = Head(modals)
  OBVIOUS
<1>3. d \in Dialog /\ modals' \in Seq(Dialog)
  BY <1>1, <1>2 DEF Parts, OverlayOK
<1>4. (\E m \in Posted : Press(m)) \/ (keys < MaxKeys /\ keys' = keys + 1 /\ UNCHANGED inbox)
  <2>1. CASE d.what \notin {"help", "palette", "users", "links"}
             /\ Press([Msg("answer", d.what, d.note) EXCEPT !.of = d.of])
    BY <1>3, <2>1, AnswerType
  <2>2. ASSUME NEW n \in NotesOf(all), Press(Msg("open", "", n)) PROVE \E m \in Posted : Press(m)
    <3>1. n \in Named
      BY NotesType DEF Parts, ListOK, Named
    <3>. QED BY <2>2, <3>1, MsgType
  <2>3. CASE Press(Msg("new", "", None))
    <3>1. None \in Named
      BY DEF Named
    <3>. QED BY <2>3, <3>1, MsgType
  <2>4. ASSUME NEW c \in {"export", "zip", "help"}, Press(Msg("ask", c, None)) PROVE \E m \in Posted : Press(m)
    <3>1. None \in Named /\ c \in Dialogs
      BY DEF Named, Dialogs
    <3>. QED BY <2>4, <3>1, AskType
  <2>. QED BY <1>2, <2>1, <2>2, <2>3, <2>4 DEF AnswerDialog
<1>5. RestOK'
  <2>1. CASE keys < MaxKeys /\ keys' = keys + 1 /\ UNCHANGED inbox
    BY <1>1, <2>1 DEF Parts, RestOK, AppAssumption
  <2>. QED BY <1>1, <1>4, <2>1, PressTyped DEF Parts
<1>6. OverlayOK'
  BY <1>1, <1>3 DEF Parts, OverlayOK
<1>. QED BY <1>1, <1>5, <1>6, ServerStays, PlaceStays, ListStays, SearchStays, SideStays,
            TasksStay DEF Parts

------------------------------------------------------------------------------
(* The pump.                                                               *)

\* The message at the head, and the inbox without it.
LEMMA HeadTyped ==
    ASSUME RestOK, inbox # <<>>
    PROVE  /\ Rest \in Seq(Posted) /\ M \in Posted
           /\ M.note \in Named /\ M.of \in Named
           /\ M.kind = "chord" => M.what \in Panes
           /\ M.kind = "ask" => M.what \in Dialogs
           /\ M.kind = "answer" => M.what \in Dialogs \ {"help", "palette", "users", "links"}
<1>1. Rest \in Seq(Posted) /\ M \in Posted
  BY DEF RestOK, Rest, M
<1>. QED BY <1>1 DEF Posted, Message, Named

LEMMA InboxTyped ==
    ASSUME RestOK, inbox' \in Seq(Posted), UNCHANGED <<lastDeleted, keys, exited>>
    PROVE  RestOK'
BY DEF RestOK

LEMMA RestTaken ==
    ASSUME RestOK, inbox # <<>>, inbox' = Rest, UNCHANGED <<lastDeleted, keys, exited>>
    PROVE  RestOK'
BY HeadTyped, InboxTyped

LEMMA ClearedTyped ==
    ASSUME RestOK, inbox # <<>>, Cleared, UNCHANGED <<lastDeleted, keys, exited>>
    PROVE  RestOK' /\ query' \in {"", "q"}
<1>1. None \in Named
  BY DEF Named
<1>2. Rest \in Seq(Posted) /\ Msg("typed", "", None) \in Posted
  BY <1>1, HeadTyped, MsgType
<1>3. inbox' \in Seq(Posted)
  <2>0. \A q \in Seq(Posted), m \in Posted : Append(q, m) \in Seq(Posted)
    OBVIOUS
  <2>1. Append(Rest, Msg("typed", "", None)) \in Seq(Posted)
    BY <1>2, <2>0
  <2>2. inbox' = Rest \/ inbox' = Append(Rest, Msg("typed", "", None))
    BY DEF Cleared
  <2>. QED BY <1>2, <2>1, <2>2
<1>. QED BY <1>3, InboxTyped DEF Cleared

LEMMA StartTyped ==
    ASSUME TasksOK, PlaceOK, NEW plan \in Seq(Step), NEW n \in Named, NEW o \in Named,
           NEW p \in Panes \cup {None}, Start(plan, n, o, p), UNCHANGED <<poll, timer, workers>>
    PROVE  TasksOK'
<1>1. Job(plan, n, o, p) \in Task
  BY JobType
<1>2. pump' \in Task
  BY <1>1, BeginType DEF Start, PlaceOK
<1>. QED BY <1>2 DEF TasksOK

LEMMA SearchHandlersTyped ==
    ASSUME Parts, OpenSearch \/ CancelSearch \/ SubmitSearch
    PROVE  Parts'
<1>1. CASE OpenSearch
  <2>1. /\ UNCHANGED <<server, place, list, picking, modals, side, lastDeleted, tasks, keys, exited>>
        /\ inbox # <<>> /\ Cleared /\ searching' = TRUE /\ focus' = "search"
    BY <1>1 DEF OpenSearch, Take
  <2>2. RestOK' /\ query' \in {"", "q"}
    BY <2>1, ClearedTyped DEF Parts
  <2>3. SearchOK' /\ OverlayOK'
    BY <2>1, <2>2 DEF Parts, SearchOK, OverlayOK
  <2>. QED BY <2>1, <2>2, <2>3, ServerStays, PlaceStays, ListStays, SideStays, TasksStay DEF Parts
<1>2. ASSUME CloseSearch, inbox # <<>>, TasksOK',
             UNCHANGED <<server, place, side, lastDeleted, keys, exited>>
      PROVE  Parts'
  <2>1. /\ UNCHANGED <<all, tag, picking, modals>> /\ view' = all
        /\ Cleared /\ searching' = FALSE /\ focus' = "editor"
    BY <1>2 DEF CloseSearch
  <2>2. RestOK' /\ query' \in {"", "q"}
    BY <1>2, <2>1, ClearedTyped DEF Parts
  <2>3. SearchOK' /\ OverlayOK' /\ ListOK'
    BY <2>1, <2>2 DEF Parts, SearchOK, OverlayOK, ListOK
  <2>. QED BY <1>2, <2>2, <2>3, ServerStays, PlaceStays, SideStays DEF Parts
<1>3. CASE CancelSearch
  <2>1. TasksOK'
    BY <1>3, TasksStay DEF CancelSearch, Parts
  <2>. QED BY <1>2, <1>3, <2>1 DEF CancelSearch, Take
<1>4. CASE SubmitSearch
  <2>1. TasksOK'
    <3>1. ASSUME NEW r \in view, Open(r.note) PROVE TasksOK'
      <4>1. r.note \in Named /\ None \in Named /\ <<"leave", "enter">> \in Seq(Step)
        BY DEF Parts, ListOK, Row, Named, Step
      <4>2. UNCHANGED <<poll, timer, workers>>
        BY <1>4 DEF SubmitSearch
      <4>. QED BY <3>1, <4>1, <4>2, StartTyped DEF Open, Parts
    <3>2. ASSUME UNCHANGED pump PROVE TasksOK'
      BY <1>4, <3>2 DEF SubmitSearch, Parts, TasksOK
    <3>. QED BY <1>4, <3>1, <3>2 DEF SubmitSearch
  <2>. QED BY <1>2, <1>4, <2>1 DEF SubmitSearch, Take
<1>. QED BY <1>1, <1>3, <1>4

LEMMA OnTop == ASSUME NEW S, NEW x \in S, NEW s \in Seq(S) PROVE <<x>> \o s \in Seq(S)
<1>1. <<x>> \in Seq(S)
  OBVIOUS
<1>. QED BY <1>1

LEMMA QuietHandlersTyped ==
    ASSUME Parts, OpenTags \/ ApplyTag \/ CancelTags \/ Ask \/ Ignored \/ HidePane
    PROVE  Parts'
<1>1. /\ UNCHANGED <<server, place, all, search, lastDeleted, tasks, keys, exited>>
      /\ inbox # <<>> /\ inbox' = Rest
  BY DEF OpenTags, ApplyTag, CancelTags, Ask, Ignored, HidePane, Take, list, side
<1>2. RestOK'
  BY <1>1, RestTaken DEF Parts
<1>3. ListOK'
  <2>1. UNCHANGED list \/ (tag' = ~tag /\ view' = IF tag' THEN {r \in all : r.tagged} ELSE all)
    BY DEF OpenTags, ApplyTag, CancelTags, Ask, Ignored, HidePane
  <2>2. ASSUME tag' = ~tag, view' = IF tag' THEN {r \in all : r.tagged} ELSE all PROVE ListOK'
    BY <1>1, <2>2 DEF Parts, ListOK
  <2>. QED BY <2>1, <2>2, ListStays DEF Parts
<1>4. OverlayOK'
  <2>1. CASE Ask
    <3>1. UNCHANGED <<picking, focus>>
          /\ (modals' = modals \/ modals' = <<[what |-> M.what, note |-> doc, of |-> M.of]>> \o modals)
      BY <2>1 DEF Ask
    <3>2. M.what \in Dialogs /\ M.of \in Named
      BY <1>1, <2>1, HeadTyped DEF Parts, Ask, Take, M
    <3>3. [what |-> M.what, note |-> doc, of |-> M.of] \in Dialog
      BY <3>2 DEF Parts, PlaceOK, Dialog, Named
    <3>4. modals' \in Seq(Dialog)
      BY <3>1, <3>3, OnTop DEF Parts, OverlayOK
    <3>. QED BY <3>1, <3>4 DEF Parts, OverlayOK
  <2>2. CASE ~Ask
    BY <2>2 DEF OpenTags, ApplyTag, CancelTags, Ignored, HidePane, overlay, Parts, OverlayOK
  <2>. QED BY <2>1, <2>2
<1>5. SideOK'
  <2>1. CASE HidePane
    BY <2>1 DEF HidePane, Parts, SideOK, Named
  <2>2. CASE ~HidePane
    <3>1. UNCHANGED side
      BY <2>2 DEF OpenTags, ApplyTag, CancelTags, Ask, Ignored
    <3>. QED BY <3>1, SideStays DEF Parts
  <2>. QED BY <2>1, <2>2
<1>. QED BY <1>1, <1>2, <1>3, <1>4, <1>5, ServerStays, PlaceStays, SearchStays, TasksStay DEF Parts

LEMMA RunSearchTyped ==
    ASSUME Parts, RunSearch
    PROVE  Parts'
<1>1. /\ UNCHANGED <<server, place, all, tag, search, overlay, side, lastDeleted,
                     poll, timer, workers, keys, exited>>
      /\ inbox # <<>> /\ inbox' = Rest
  BY DEF RunSearch, Take
<1>2. RestOK'
  BY <1>1, RestTaken DEF Parts
<1>3. ListOK'
  BY <1>1 DEF RunSearch, Parts, ListOK
<1>4. TasksOK'
  <2>1. <<"hits">> \in Seq(Step) /\ None \in Named
    BY DEF Step, Named
  <2>2. ASSUME Start(<<"hits">>, None, None, None) PROVE TasksOK'
    BY <1>1, <2>1, <2>2, StartTyped DEF Parts
  <2>3. ASSUME UNCHANGED pump PROVE TasksOK'
    BY <1>1, <2>3 DEF Parts, TasksOK
  <2>. QED BY <2>2, <2>3 DEF RunSearch
<1>. QED BY <1>1, <1>2, <1>3, <1>4, ServerStays, PlaceStays, SearchStays, OverlayStays, SideStays DEF Parts

LEMMA HandlerTyped ==
    ASSUME Parts, NEW k, NEW plan \in Seq(Step), NEW n \in Named, NEW o \in Named,
           NEW p \in Panes \cup {None}, Handler(k, plan, n, o, p)
    PROVE  Parts'
<1>1. /\ UNCHANGED <<server, place, list, search, overlay, side, lastDeleted,
                     poll, timer, workers, keys, exited>>
      /\ inbox # <<>> /\ inbox' = Rest /\ Start(plan, n, o, p)
  BY DEF Handler, Take
<1>2. RestOK'
  BY <1>1, RestTaken DEF Parts
<1>3. TasksOK'
  BY <1>1, StartTyped DEF Parts
<1>. QED BY <1>1, <1>2, <1>3, ServerStays, PlaceStays, ListStays, SearchStays, OverlayStays,
            SideStays DEF Parts

LEMMA HandlersTyped ==
    ASSUME Parts,
           \/ HandleOpen \/ HandleNew \/ HandleUndelete \/ HandleUntrash \/ HandlePurge
           \/ HandleMention \/ HandleHighlight \/ HandleThread \/ HandleUsers \/ ShowPane
    PROVE  Parts'
<1>1. inbox # <<>>
  BY DEF HandleOpen, HandleNew, HandleUndelete, HandleUntrash, HandlePurge, HandleMention,
         HandleHighlight, HandleThread, HandleUsers, ShowPane, Handler, Take
<1>2. M.note \in Named /\ M.of \in Named /\ (M.kind = "chord" => M.what \in Panes)
  BY <1>1, HeadTyped DEF Parts
<1>3. /\ None \in Named /\ None \in Panes \cup {None} /\ lastDeleted \in Named /\ doc \in Named
      /\ {"trash", "inbox", "comments"} \subseteq Panes \cup {None}
  BY DEF Named, Panes, Parts, RestOK, PlaceOK
<1>4. /\ <<"leave", "enter">> \in Seq(Step) /\ <<"create", "list", "leave", "enter">> \in Seq(Step)
      /\ <<"restore", "list", "leave", "enter">> \in Seq(Step)
      /\ <<"untrash", "refresh", "list">> \in Seq(Step) /\ <<"purge", "refresh">> \in Seq(Step)
      /\ <<"mark", "refresh", "leave", "enter">> \in Seq(Step) /\ <<"state">> \in Seq(Step)
      /\ <<"thread", "refresh">> \in Seq(Step) /\ <<"users">> \in Seq(Step) /\ <<"show">> \in Seq(Step)
  BY DEF Step
<1>5. CASE HandleOpen
  BY <1>2, <1>3, <1>4, <1>5, HandlerTyped DEF HandleOpen
<1>6. CASE HandleNew
  BY <1>3, <1>4, <1>6, HandlerTyped DEF HandleNew
<1>7. CASE HandleUndelete
  BY <1>3, <1>4, <1>7, HandlerTyped DEF HandleUndelete
<1>8. CASE HandleUntrash
  BY <1>2, <1>3, <1>4, <1>8, HandlerTyped DEF HandleUntrash
<1>9. CASE HandlePurge
  BY <1>2, <1>3, <1>4, <1>9, HandlerTyped DEF HandlePurge
<1>10. CASE HandleMention
  BY <1>2, <1>3, <1>4, <1>10, HandlerTyped DEF HandleMention
<1>11. CASE HandleHighlight
  BY <1>2, <1>3, <1>4, <1>11, HandlerTyped DEF HandleHighlight
<1>12. CASE HandleThread
  BY <1>2, <1>3, <1>4, <1>12, HandlerTyped DEF HandleThread
<1>13. CASE HandleUsers
  BY <1>3, <1>4, <1>13, HandlerTyped DEF HandleUsers
<1>14. CASE ShowPane
  <2>1. M.what \in Panes \cup {None}
    BY <1>2, <1>14 DEF ShowPane, Take, M
  <2>. QED BY <1>3, <1>4, <1>14, <2>1, HandlerTyped DEF ShowPane
<1>. QED BY <1>5, <1>6, <1>7, <1>8, <1>9, <1>10, <1>11, <1>12, <1>13, <1>14

LEMMA RunWorkerTyped ==
    ASSUME Parts, RunWorker
    PROVE  Parts'
<1>1. /\ UNCHANGED <<server, place, list, search, overlay, side, lastDeleted,
                     pump, poll, timer, keys, exited>>
      /\ inbox # <<>> /\ inbox' = Rest /\ M.kind = "answer"
      /\ workers' = workers \cup {Begin(Job(PlanOf(M.what), M.note, M.of, "comments"), doc)}
  BY DEF RunWorker, Take, M
<1>2. RestOK'
  BY <1>1, RestTaken DEF Parts
<1>3. M.note \in Named /\ M.of \in Named /\ PlanOf(M.what) \in Seq(Step)
  BY <1>1, HeadTyped, PlanType DEF Parts
<1>4. Job(PlanOf(M.what), M.note, M.of, "comments") \in Task
  BY <1>3, JobType DEF Panes
<1>5. TasksOK'
  BY <1>1, <1>4, BeginType DEF Parts, TasksOK, PlaceOK
<1>. QED BY <1>1, <1>2, <1>5, ServerStays, PlaceStays, ListStays, SearchStays, OverlayStays,
            SideStays DEF Parts

LEMMA HandleTyped == Parts /\ Handle => Parts'
BY SearchHandlersTyped, QuietHandlersTyped, RunSearchTyped, HandlersTyped, RunWorkerTyped DEF Handle

LEMMA TickTyped ==
    ASSUME Parts, Tick
    PROVE  Parts'
<1>1. UNCHANGED <<server, place, list, search, overlay, side, lastDeleted, inbox,
                  pump, timer, workers, keys, exited>>
      /\ poll' = Job(<<"list">>, None, None, None)
  BY DEF Tick
<1>2. poll' \in Task
  <2>1. <<"list">> \in Seq(Step) /\ None \in Named
    BY DEF Step, Named
  <2>. QED BY <1>1, <2>1, JobType
<1>3. TasksOK' /\ RestOK'
  BY <1>1, <1>2 DEF Parts, TasksOK, RestOK
<1>. QED BY <1>1, <1>3, ServerStays, PlaceStays, ListStays, SearchStays, OverlayStays,
            SideStays DEF Parts

------------------------------------------------------------------------------
(* Requests.                                                               *)

LEMMA RunningTyped ==
    ASSUME TasksOK, NEW t \in Running
    PROVE  t \in Task /\ Busy(t) /\ t.plan # <<>>
BY DEF TasksOK, Running, Busy

LEMMA BecomesTyped ==
    ASSUME TasksOK, NEW t, NEW u \in Task, Becomes(t, u)
    PROVE  pump' \in Task /\ poll' \in Task /\ workers' \in SUBSET Task
BY DEF TasksOK, Becomes

LEMMA AnsweredTyped ==
    ASSUME TasksOK, NEW t \in Task, NEW rows \in SUBSET Row, Answered(t, rows)
    PROVE  pump' \in Task /\ poll' \in Task /\ workers' \in SUBSET Task
<1>1. [t EXCEPT !.back = TRUE, !.rows = rows] \in Task
  BY DEF Task
<1>. QED BY <1>1, BecomesTyped DEF Answered

LEMMA AppStays ==
    ASSUME Parts, UNCHANGED App, pump' \in Task, poll' \in Task, workers' \in SUBSET Task
    PROVE  PlaceOK' /\ ListOK' /\ SearchOK' /\ OverlayOK' /\ SideOK' /\ TasksOK' /\ RestOK'
<1>1. UNCHANGED <<place, list, search, overlay, side, lastDeleted, inbox, timer, keys, exited>>
  BY DEF App
<1>2. TasksOK' /\ RestOK'
  BY <1>1 DEF Parts, TasksOK, RestOK
<1>. QED BY <1>1, <1>2, PlaceStays, ListStays, SearchStays, OverlayStays, SideStays DEF Parts

LEMMA ServeTyped ==
    ASSUME Parts, NEW t \in Running, Serve(t)
    PROVE  Parts'
<1>1. t \in Task /\ t.plan # <<>>
  BY RunningTyped DEF Parts
<1>2. UNCHANGED App
  BY DEF Serve, ServeRead, ServeCreate, ServeMove
<1>3. CASE ServeRead(t)
  <2>1. PICK rows : /\ Answered(t, rows)
                    /\ \/ \E s : rows = RowsOf(s) /\ s \in SUBSET Notes
                       \/ rows = {}
    <3>1. live \in SUBSET Notes /\ trash \in SUBSET Notes /\ t.note \in Named
      BY <1>1 DEF Parts, ServerOK, Task, Named
    <3>2. /\ live \in SUBSET Notes /\ live \cap Matches \in SUBSET Notes /\ trash \in SUBSET Notes
          /\ Known \cap Cited \in SUBSET Notes /\ {} \in SUBSET Notes /\ live \cap Cited \in SUBSET Notes
          /\ {t.note} \ {None} \in SUBSET Notes
      BY <3>1 DEF Known, Named
    <3>. DEFINE s == CASE t.pane = "trash" -> trash
                       [] t.pane = "inbox" -> Known \cap Cited
                       [] t.pane = "backlinks" -> IF t.note = None THEN {} ELSE live \cap Cited
                       [] OTHER -> {t.note} \ {None}
                rows == CASE At(t, {"list", "first"}) -> RowsOf(live)
                          [] At(t, {"hits"}) -> RowsOf(live \cap Matches)
                          [] At(t, {"show", "refresh"}) -> RowsOf(s)
                          [] OTHER -> {}
    <3>3. Answered(t, rows)
      BY <1>3 DEF ServeRead
    <3>4. s \in SUBSET Notes
      BY <3>2
    <3>. HIDE DEF s
    <3>5. \/ rows = RowsOf(live) \/ rows = RowsOf(live \cap Matches) \/ rows = RowsOf(s) \/ rows = {}
      OBVIOUS
    <3>. HIDE DEF rows
    <3>. QED BY <3>2, <3>3, <3>4, <3>5
  <2>2. rows \in SUBSET Row
    BY <2>1, RowsType
  <2>3. pump' \in Task /\ poll' \in Task /\ workers' \in SUBSET Task
    BY <1>1, <2>1, <2>2, AnsweredTyped DEF Parts
  <2>4. UNCHANGED server
    BY <1>3 DEF ServeRead
  <2>. QED BY <1>2, <2>3, <2>4, AppStays, ServerStays DEF Parts
<1>4. CASE ServeCreate(t)
  <2>1. PICK n \in Notes \ Known :
          /\ live' = live \cup {n} /\ Becomes(t, [t EXCEPT !.back = TRUE, !.note = n])
    BY <1>4 DEF ServeCreate
  <2>2. UNCHANGED <<trash, tagged, elsewhere>>
    BY <1>4 DEF ServeCreate
  <2>3. [t EXCEPT !.back = TRUE, !.note = n] \in Task
    BY <1>1 DEF Task
  <2>4. pump' \in Task /\ poll' \in Task /\ workers' \in SUBSET Task
    BY <2>1, <2>3, BecomesTyped DEF Parts
  <2>5. ServerOK'
    BY <2>1, <2>2 DEF Parts, ServerOK
  <2>. QED BY <1>2, <2>4, <2>5, AppStays DEF Parts
<1>5. CASE ServeMove(t)
  <2>1. /\ live' = IF At(t, {"restore", "untrash"}) THEN live \cup {t.note} ELSE live \ {t.note}
        /\ trash' = IF At(t, {"delete"}) THEN trash \cup {t.note} ELSE trash \ {t.note}
        /\ tagged' = IF At(t, {"purge"}) THEN tagged \ {t.note} ELSE tagged
        /\ Answered(t, {}) /\ elsewhere' = elsewhere
    BY <1>5 DEF ServeMove
  <2>2. At(t, {"delete"}) \/ At(t, {"restore", "untrash"}) => t.note \in Notes
    <3>1. At(t, {"delete"}) \/ At(t, {"restore", "untrash"}) => At(t, {"delete", "restore", "untrash", "rename"})
      BY DEF At
    <3>2. Accepts(t)
      BY <1>5 DEF ServeMove, Asked
    <3>. QED BY <3>1, <3>2 DEF Accepts, Known, Parts, ServerOK
  <2>3. ServerOK'
    BY <2>1, <2>2 DEF Parts, ServerOK
  <2>4. {} \in SUBSET Row
    OBVIOUS
  <2>5. pump' \in Task /\ poll' \in Task /\ workers' \in SUBSET Task
    BY <1>1, <2>1, <2>4, AnsweredTyped DEF Parts
  <2>. QED BY <1>2, <2>3, <2>5, AppStays DEF Parts
<1>. QED BY <1>3, <1>4, <1>5 DEF Serve

LEMMA GoesTyped ==
    ASSUME TasksOK, PlaceOK', NEW t \in Running, Goes(t)
    PROVE  pump' \in Task /\ poll' \in Task /\ workers' \in SUBSET Task
<1>1. t \in Task /\ Busy(t)
  BY RunningTyped
<1>2. PICK u : u = [t EXCEPT !.plan = Tail(@)]
  OBVIOUS
<1>3. u \in Task
  BY <1>1, <1>2, AfterType
<1>4. Begin(u, doc') \in Task
  BY <1>3, BeginType DEF PlaceOK
<1>. QED BY <1>2, <1>4, BecomesTyped DEF Goes

LEMMA TaskFields ==
    ASSUME NEW t \in Task
    PROVE  /\ t.rows \in SUBSET Row /\ t.note \in Named /\ t.of \in Named
           /\ t.pane \in Panes \cup {None} /\ NotesOf(t.rows) \in SUBSET Notes
BY NotesType DEF Task, Named

LEMMA ResumeTyped ==
    ASSUME Parts, NEW t \in Running, Resume(t)
    PROVE  Parts'
<1>1. t \in Task
  BY RunningTyped DEF Parts
<1>2. UNCHANGED server /\ UNCHANGED <<inbox, keys, exited>> /\ UNCHANGED search /\ Goes(t)
  BY DEF Resume, ListBack, HitsBack, PaneBack, StateBack, DeleteBack, RoomBack, UsersBack, PlainBack, App
<1>3. PlaceOK'
  <2>1. UNCHANGED place \/ (doc' = t.note /\ (room' = "closed" \/ room' = t.note))
    BY DEF Resume, ListBack, HitsBack, PaneBack, StateBack, DeleteBack, RoomBack, UsersBack, PlainBack, App
  <2>2. CASE doc' = t.note /\ (room' = "closed" \/ room' = t.note)
    BY <1>1, <2>2, TaskFields DEF PlaceOK, Named
  <2>. QED BY <2>1, <2>2, PlaceStays DEF Parts
<1>4. pump' \in Task /\ poll' \in Task /\ workers' \in SUBSET Task
  BY <1>2, <1>3, GoesTyped DEF Parts
<1>5. timer' \in BOOLEAN
  BY DEF Resume, ListBack, HitsBack, PaneBack, StateBack, DeleteBack, RoomBack, UsersBack, PlainBack,
         App, Parts, TasksOK
<1>6. ListOK'
  <2>1. CASE ListBack(t)
    <3>1. all' = t.rows /\ tag' = tag /\ (view' = view \/ view' = Filtered(t.rows))
      BY <2>1 DEF ListBack
    <3>. QED BY <1>1, <3>1, TaskFields, FilteredType DEF Parts, ListOK
  <2>2. CASE HitsBack(t)
    BY <2>2 DEF HitsBack, Parts, ListOK
  <2>3. CASE ~ListBack(t) /\ ~HitsBack(t)
    <3>1. UNCHANGED list
      BY <2>3 DEF Resume, PaneBack, StateBack, DeleteBack, RoomBack, UsersBack, PlainBack, App
    <3>. QED BY <3>1, ListStays DEF Parts
  <2>. QED BY <2>1, <2>2, <2>3
<1>7. SideOK'
  <2>1. CASE PaneBack(t)
    <3>1. PICK seen : seen = NotesOf(t.rows)
      OBVIOUS
    <3>2. seen \in SUBSET Notes /\ t.pane \in Panes \cup {None}
      BY <1>1, <3>1, TaskFields
    <3>3. /\ shown' = [shown EXCEPT ![t.pane] = seen]
          /\ pane' = pane \/ pane' = t.pane
          /\ preview' = preview \/ preview' = None
      BY <2>1, <3>1 DEF PaneBack
    <3>. QED BY <3>2, <3>3 DEF Parts, SideOK, Named
  <2>2. CASE StateBack(t)
    BY <1>1, <2>2, TaskFields DEF StateBack, Parts, SideOK
  <2>3. CASE ~PaneBack(t) /\ ~StateBack(t)
    <3>1. UNCHANGED side
      BY <2>3 DEF Resume, ListBack, HitsBack, DeleteBack, RoomBack, UsersBack, PlainBack, App
    <3>. QED BY <3>1, SideStays DEF Parts
  <2>. QED BY <2>1, <2>2, <2>3
<1>8. OverlayOK'
  <2>1. CASE PaneBack(t)
    BY <2>1 DEF PaneBack, Parts, OverlayOK
  <2>2. CASE UsersBack(t)
    <3>1. UNCHANGED <<picking, focus>>
          /\ modals' = <<[what |-> "users", note |-> None, of |-> None]>> \o modals
      BY <2>2 DEF UsersBack
    <3>2. [what |-> "users", note |-> None, of |-> None] \in Dialog
      BY DEF Dialog, Dialogs
    <3>3. modals' \in Seq(Dialog)
      BY <3>1, <3>2, OnTop DEF Parts, OverlayOK
    <3>. QED BY <3>1, <3>3 DEF Parts, OverlayOK
  <2>3. CASE ~PaneBack(t) /\ ~UsersBack(t)
    <3>1. UNCHANGED overlay
      BY <2>3 DEF Resume, ListBack, HitsBack, StateBack, DeleteBack, RoomBack, PlainBack, App
    <3>. QED BY <3>1, OverlayStays DEF Parts
  <2>. QED BY <2>1, <2>2, <2>3
<1>9. lastDeleted' \in Named
  <2>1. lastDeleted' \in {lastDeleted, t.note, None}
    BY DEF Resume, ListBack, HitsBack, PaneBack, StateBack, DeleteBack, RoomBack, UsersBack, PlainBack, App
  <2>. QED BY <1>1, <2>1, TaskFields DEF Parts, RestOK, Named
<1>10. TasksOK' /\ RestOK'
  BY <1>2, <1>4, <1>5, <1>9 DEF Parts, TasksOK, RestOK
<1>. QED BY <1>2, <1>3, <1>6, <1>7, <1>8, <1>10, ServerStays, SearchStays DEF Parts

LEMMA ElsewhereTyped ==
    ASSUME AppAssumption, Parts, NEW n \in Notes, Elsewhere(n)
    PROVE  Parts'
<1>1. UNCHANGED App /\ UNCHANGED <<pump, poll, workers>>
  BY DEF Elsewhere
<1>2. ServerOK'
  <2>1. /\ elsewhere < MaxElsewhere /\ elsewhere' = elsewhere + 1
        /\ live' \in {live, live \cup {n}, live \ {n}}
        /\ trash' \in {trash, trash \cup {n}, trash \ {n}}
        /\ tagged' \in {tagged, tagged \ {n}, (tagged \cup {n}) \ (tagged \cap {n})}
    BY DEF Elsewhere
  <2>. QED BY <2>1 DEF Parts, ServerOK, AppAssumption
<1>. QED BY <1>1, <1>2, AppStays DEF Parts, TasksOK

------------------------------------------------------------------------------
(* The theorem.                                                            *)

LEMMA StepTyped == AppAssumption /\ Parts /\ [Next]_vars => Parts'
<1>. SUFFICES ASSUME AppAssumption, Parts, [Next]_vars PROVE Parts'
  OBVIOUS
<1>1. CASE UNCHANGED vars
  <2>1. UNCHANGED <<server, App, pump, poll, workers>>
    BY <1>1 DEF vars, App, tasks
  <2>. QED BY <2>1, ServerStays, AppStays DEF Parts, TasksOK
<1>2. ASSUME NEW t \in Running, Serve(t) \/ Refused(t) \/ Lost(t) \/ Resume(t) PROVE Parts'
  BY <1>2, ServeTyped, ResumeTyped, ExitTyped DEF Refused, Lost
<1>3. CASE Quit
  BY <1>3, ExitTyped DEF Quit
<1>. QED BY <1>1, <1>2, <1>3, KeyTyped, SearchKeyTyped, ClickTyped, AnswerTyped, HandleTyped,
            TickTyped, ElsewhereTyped DEF Next

\* The type invariant, and what every message that waits is about: a chord
\* names a pane, a question a dialog, and an answer one that runs something
\* (app.py's on_* handlers).
THEOREM AppInvariant == AppAssumption => (Spec => []AppInv)
<1>. SUFFICES ASSUME AppAssumption PROVE Spec => []AppInv
  OBVIOUS
<1>1. Init => Parts
  BY InitTyped
<1>2. Parts /\ [Next]_vars => Parts'
  BY StepTyped
<1>3. Parts => AppInv
  BY InParts
<1>. QED BY <1>1, <1>2, <1>3, PTL DEF Spec

\* The list and its rows, the panes and the preview, the dialogs, the queue
\* and every task hold notes, panes and steps of their kind, whatever order
\* keys, answers, ticks and failures come in.
THEOREM AppTypeCorrect == AppAssumption => (Spec => []TypeOK)
<1>1. AppInv => TypeOK
  BY DEF AppInv
<1>. QED BY <1>1, AppInvariant, PTL

==============================================================================
