------------------------------ MODULE EditorView ------------------------------
(***************************************************************************)
(* The web editor of a note: how it comes up and goes away, the popover    *)
(* of a trigger ("@" for a mention, "[[" for a backlink), and the comment  *)
(* composer, while this user and the others edit the text.                 *)
(*                                                                         *)
(* web/src/lib/Editor.svelte, web/src/lib/editor/mention-trigger-plugin.ts *)
(* and backlink-trigger-plugin.ts (one plugin: Width is the length of the  *)
(* trigger, Bounded whether it must follow a blank), and                   *)
(* comment-selection-plugin.ts, CommentComposerPopover.svelte.             *)
(*                                                                         *)
(* The text is one textblock: a sequence of characters, told apart as the  *)
(* plugin does, and of inline atoms (mention and backlink nodes).  A       *)
(* position of the editor is the number of items before it.  Which         *)
(* candidates the popover lists depends on names: any query may match one. *)
(* ProseMirror and y-prosemirror are external: each transaction shows the  *)
(* plugins the new text with the selection kept at its items.              *)
(***************************************************************************)
EXTENDS Naturals, Sequences, Nothing

CONSTANTS
    Width, Bounded,
    Chars,          \* the kinds of characters: "word", "blank", "trigger"
    MaxLength,      \* bound: items of the text
    MaxPosts        \* bound: comments being posted at once

EditorAssumption ==
    /\ Width \in Nat \ {0} /\ MaxLength \in Nat /\ MaxPosts \in Nat
    /\ Bounded \in BOOLEAN
    /\ Chars \subseteq {"word", "blank", "trigger"}

VARIABLES
    phase, alive,           \* onMount, and whether the component is mounted
    provider, synced, ready,
    text, from, to,         \* the textblock and the selection
    last, muted, popover,   \* the trigger plugin and the popover it opens
    sel, toolbar, composer,
    posting                 \* how many comments are being posted

life == <<phase, alive, provider, synced, ready>>
comments == <<sel, toolbar, composer, posting>>
trigger == <<last, muted, popover>>
editorVars == <<life, text, from, to, trigger, comments>>

------------------------------------------------------------------------------
(* State.                                                                  *)

Items == Chars \cup {"atom"}
Places == 0 .. MaxLength

\* What the plugin reports: the item the trigger starts at (0: inactive) and
\* the query.
Inactive == [start |-> 0, query |-> <<>>]
Closed == [open |-> FALSE, start |-> 0]
\* moved is history: an edit of another user came since the composer opened.
NoComposer == [open |-> FALSE, quote |-> <<>>, moved |-> FALSE]

EditorTypeOK ==
    /\ phase \in {"importing", "opening", "building", "open", "broken"}
    /\ alive \in BOOLEAN
    /\ provider \in {"none", "live", "destroyed"}
    /\ synced \in BOOLEAN /\ ready \in BOOLEAN
    /\ text \in Seq(Items) /\ Len(text) <= MaxLength
    /\ from \in 0 .. to /\ to \in 0 .. Len(text)
    /\ last.start \in Places /\ last.query \in Seq(Items)
    /\ muted \in Places
    /\ popover \in [open: BOOLEAN, start: Places]
    /\ sel = None \/ (sel.from \in Places /\ sel.to \in Places)
    /\ toolbar \in BOOLEAN
    /\ composer.open \in BOOLEAN /\ composer.moved \in BOOLEAN
    /\ posting \in 0 .. MaxPosts
    /\ ready => synced /\ phase = "open"

EditorInit ==
    /\ phase = "importing" /\ alive = TRUE
    /\ provider = "none" /\ synced = FALSE /\ ready = FALSE
    /\ text = <<>> /\ from = 0 /\ to = 0
    /\ last = Inactive /\ muted = 0 /\ popover = Closed
    /\ sel = None /\ toolbar = FALSE /\ composer = NoComposer
    /\ posting = 0

------------------------------------------------------------------------------
(* The trigger plugin: what it reads from the text and the caret.          *)

\* textContent: inline atoms have no text.
Letters(t) ==
    LET kept[i \in 0 .. Len(t)] == IF i = 0 THEN <<>>
                                   ELSE IF t[i] = "atom" THEN kept[i - 1]
                                   ELSE Append(kept[i - 1], t[i])
    IN  kept[Len(t)]
Least(m, n) == IF m < n THEN m ELSE n

\* textContent.slice(0, parentOffset), where parentOffset counts the atoms.
BeforeCaret(t, p) == SubSeq(Letters(t), 1, Least(p, Len(Letters(t))))

Starts(s) == {i \in Places \ {0} : /\ i + Width - 1 <= Len(s)
                                   /\ \A j \in i .. i + Width - 1 : s[j] = "trigger"}

\* The last trigger, if nothing but a query follows it.
Begun(s) == {i \in Starts(s) : /\ \A j \in Starts(s) : j <= i
                               /\ Bounded => i = 1 \/ s[i - 1] = "blank"
                               /\ \A j \in i + Width .. Len(s) : s[j] = "word"}

DetectTrigger(t, p) ==
    LET begun == Begun(BeforeCaret(t, p))
    IN  IF begun = {} THEN 0 ELSE CHOOSE i \in begun : TRUE

Status(t, f, g) ==
    LET start == DetectTrigger(t, f)
    IN  IF f # g \/ start = 0
        THEN Inactive
        ELSE [start |-> start, query |-> Letters(SubSeq(t, start + Width, f))]

\* sync: the status the parent hears of, and the trigger that stays muted.
Heard(t, f, g) ==
    LET status == Status(t, f, g)
    IN  IF status.start = muted THEN Inactive ELSE status
StillMuted(t, f, g) == IF Status(t, f, g).start = muted THEN muted ELSE 0

\* Faulty: a start that moved under the same query is not told.
StaleHeard(t, f, g) ==
    IF Heard(t, f, g).query = last.query /\ Heard(t, f, g).start # 0 /\ last.start # 0
    THEN last ELSE Heard(t, f, g)

\* What the parent mirrors once the plugin saw the text: it is told of a
\* change of the start or of the query only.
Reported(t, f, g) == Heard(t, f, g)

Popover(t, f, g) ==
    IF Reported(t, f, g) = last
    THEN popover
    ELSE [open |-> Reported(t, f, g) # Inactive, start |-> Reported(t, f, g).start]

TriggerSyncs(t, f, g) ==
    /\ last' = Reported(t, f, g)
    /\ muted' = StillMuted(t, f, g)

------------------------------------------------------------------------------
(* The comment-selection plugin.                                           *)

Selected(t, f, g) == [from |-> f, to |-> g, text |-> Letters(SubSeq(t, f + 1, g))]

\* Faulty: the range outlives the selection while composing.
KeptWhileComposing(t, f, g) ==
    IF composer.open THEN sel ELSE IF f = g THEN None ELSE Selected(t, f, g)

\* A collapsed selection clears the comment's, the composer open or not;
\* another selection is ignored while the composer is open.
Selection(t, f, g) ==
    IF f = g THEN None ELSE IF composer.open THEN sel ELSE Selected(t, f, g)

SelectionSyncs(t, f, g) ==
    IF \/ f = from /\ g = to
       \/ f = g /\ from = to
    THEN UNCHANGED <<sel, toolbar>>
    ELSE /\ sel' = Selection(t, f, g)
         /\ toolbar' = IF f = g THEN FALSE ELSE toolbar \/ ~composer.open

\* One transaction: the text and the selection, then every plugin.
Transacted(t, f, g) ==
    /\ text' = t /\ from' = f /\ to' = g
    /\ TriggerSyncs(t, f, g)
    /\ SelectionSyncs(t, f, g)
    /\ UNCHANGED life

Editing == alive /\ phase = "open"

------------------------------------------------------------------------------
(* onMount and onDestroy.                                                  *)

\* Promise.all of the imports; the local store replays after it.
Imported ==
    /\ phase = "importing"
    /\ phase' = "opening"
    /\ UNCHANGED <<alive, provider, synced, ready, text, from, to, trigger, comments>>

\* localPersistence.whenSynced, then the provider; nothing asks whether the
\* component is still there.
Persisted ==
    /\ phase = "opening"
    /\ phase' = "building" /\ provider' = "live"
    /\ UNCHANGED <<alive, synced, ready, text, from, to, trigger, comments>>

ProviderSynced ==
    /\ provider = "live" /\ ~synced
    /\ synced' = TRUE
    /\ ready' = (phase = "open")
    /\ UNCHANGED <<phase, alive, provider, text, from, to, trigger, comments>>

\* Faulty: the spinner goes without the first synchronisation.
BuiltReady ==
    /\ phase = "building"
    /\ IF alive
       THEN phase' = "open" /\ ready' = TRUE
       ELSE phase' = "broken" /\ UNCHANGED ready
    /\ UNCHANGED <<alive, provider, synced, text, from, to, trigger, comments>>

\* The plugins are built and the view shows the text; without its mount point
\* onMount throws.
Built ==
    /\ phase = "building"
    /\ IF alive
       THEN phase' = "open" /\ ready' = synced
       ELSE phase' = "broken" /\ UNCHANGED ready
    /\ UNCHANGED <<alive, provider, synced, text, from, to, trigger, comments>>

\* onDestroy: cleanup is set by the last line of onMount.
Destroyed ==
    /\ alive
    /\ alive' = FALSE
    /\ provider' = IF phase = "open" THEN "destroyed" ELSE provider
    /\ text' = <<>> /\ from' = 0 /\ to' = 0
    /\ last' = Inactive /\ muted' = 0 /\ popover' = Closed
    /\ sel' = None /\ toolbar' = FALSE /\ composer' = NoComposer /\ posting' = 0
    /\ UNCHANGED <<phase, synced, ready>>

------------------------------------------------------------------------------
(* The text.                                                               *)

\* The items between two positions give way to others.
Spliced(t, f, g, items) == SubSeq(t, 1, f) \o items \o SubSeq(t, g + 1, Len(t))

Types(k) ==
    /\ Editing
    /\ Len(text) - (to - from) < MaxLength
    /\ LET t == Spliced(text, from, to, <<k>>)
       IN  Transacted(t, from + 1, from + 1) /\ popover' = Popover(t, from + 1, from + 1)
    /\ UNCHANGED <<composer, posting>>

Deletes ==
    /\ Editing /\ to > 0
    /\ LET f == IF from = to THEN from - 1 ELSE from
           t == Spliced(text, f, to, <<>>)
       IN  Transacted(t, f, f) /\ popover' = Popover(t, f, f)
    /\ UNCHANGED <<composer, posting>>

Selects(f, g) ==
    /\ Editing
    /\ Transacted(text, f, g) /\ popover' = Popover(text, f, g)
    /\ UNCHANGED <<composer, posting>>

\* An edit of another user: before the view is built it reaches only the
\* document.
Remote(t, f, g) ==
    /\ alive /\ provider = "live" /\ synced
    /\ IF phase = "open"
       THEN Transacted(t, f, g) /\ popover' = Popover(t, f, g)
       ELSE text' = t /\ UNCHANGED <<life, from, to, trigger, sel, toolbar>>
    /\ composer' = [composer EXCEPT !.moved = composer.open]
    /\ UNCHANGED posting

PeerInserts(k, p) ==
    /\ Len(text) < MaxLength /\ p <= Len(text)
    /\ \E right \in BOOLEAN :
        LET Kept(q) == IF p < q \/ (p = q /\ right /\ phase = "open") THEN q + 1 ELSE q
        IN  Remote(Spliced(text, p, p, <<k>>), Kept(from), Kept(to))

PeerDeletes(p) ==
    /\ p <= Len(text)
    /\ LET Kept(q) == IF p <= q THEN q - 1 ELSE q
       IN  Remote(Spliced(text, p - 1, p, <<>>), Kept(from), Kept(to))

\* The list of comments changed: a transaction that changes nothing, so that
\* the markers are drawn again.
MarkersRefresh ==
    /\ Editing
    /\ Transacted(text, from, to) /\ popover' = Popover(text, from, to)
    /\ UNCHANGED <<composer, posting>>

------------------------------------------------------------------------------
(* The popover of the trigger.                                             *)

\* handleKeyDown: the trigger stays muted while it is the active one.
Escapes ==
    /\ Editing
    /\ Status(text, from, to) # Inactive
    /\ muted' = Status(text, from, to).start
    /\ popover' = [popover EXCEPT !.open = FALSE]
    /\ UNCHANGED <<life, text, from, to, last, comments>>

\* buildApplyTransaction: from the trigger's start to the caret, one atom.
Replaced(t, start, cursor) == Spliced(t, start - 1, cursor, <<"atom">>)

Picks ==
    /\ Editing /\ popover.open
    /\ popover' = Closed
    /\ IF popover.start # 0 /\ from >= popover.start
       THEN Transacted(Replaced(text, popover.start, from), popover.start, popover.start)
       ELSE UNCHANGED <<life, text, from, to, last, muted, sel, toolbar>>
    /\ UNCHANGED <<composer, posting>>

------------------------------------------------------------------------------
(* The comment composer.                                                   *)

OpensComposer ==
    /\ Editing /\ toolbar /\ sel # None
    /\ composer' = [open |-> TRUE, quote |-> sel.text, moved |-> FALSE]
    /\ toolbar' = FALSE
    /\ UNCHANGED <<life, text, from, to, trigger, sel, posting>>

\* onCommentSubmit: without a selection the composer closes and the text
\* typed into it is gone.  Nothing asks whether a post is under way: Enter
\* with Cmd submits again, and so does another composer.
Submits ==
    /\ Editing /\ composer.open
    /\ IF sel = None
       THEN composer' = NoComposer /\ UNCHANGED posting
       ELSE posting < MaxPosts /\ posting' = posting + 1 /\ UNCHANGED composer
    /\ UNCHANGED <<life, text, from, to, trigger, sel, toolbar>>

\* An answer, or an error: it closes whatever composer is open by then.
Posted(ok) ==
    /\ Editing /\ posting > 0
    /\ posting' = posting - 1 /\ composer' = NoComposer
    /\ sel' = None
    /\ IF ok
       THEN TriggerSyncs(text, from, to) /\ popover' = Popover(text, from, to)
       ELSE UNCHANGED trigger
    /\ UNCHANGED <<life, text, from, to, toolbar>>

CancelsComposer ==
    /\ Editing /\ composer.open
    /\ composer' = NoComposer /\ sel' = None
    /\ UNCHANGED <<life, text, from, to, trigger, toolbar, posting>>

EditorNext ==
    \/ Picks
    \/ Imported \/ Persisted \/ ProviderSynced \/ Built \/ Destroyed
    \/ \E k \in Chars : Types(k)
    \/ Deletes
    \/ \E f \in 0 .. Len(text) : \E g \in f .. Len(text) : Selects(f, g)
    \/ \E k \in Items, p \in Places : PeerInserts(k, p)
    \/ \E p \in Places \ {0} : PeerDeletes(p)
    \/ MarkersRefresh \/ Escapes
    \/ OpensComposer \/ Submits \/ CancelsComposer
    \/ \E ok \in BOOLEAN : Posted(ok)

EditorSpec == EditorInit /\ [][EditorNext]_editorVars

------------------------------------------------------------------------------
(* Properties.                                                             *)

\* The items of the trigger and of the query the user sees before the caret.
Typed(t, p) == {i \in 1 .. p : /\ i + Width - 1 <= p
                               /\ \A j \in i .. i + Width - 1 : t[j] = "trigger"
                               /\ \A j \in i + Width .. p : t[j] = "word"}

OnlyTheQuery ==
    /\ Typed(text, from) # {}
    /\ LET start == CHOOSE i \in Typed(text, from) : \A j \in Typed(text, from) : j <= i
       IN  text' = Replaced(text, start, from)

\* A pick puts the atom in the place of the trigger and its query and of
\* nothing else, wherever edits of others moved them while the popover was
\* open: the plugin reports the start again after each transaction.  This
\* holds while no atom stands before the caret.
PickTakesTheQuery ==
    [][Picks /\ (\A i \in 1 .. from : text[i] # "atom") => OnlyTheQuery]_editorVars

\* The same with atoms in the text, where a trigger and its query do stand
\* before the caret, as the plugins' comments say it
\* (mention-trigger-plugin.ts:178, backlink-trigger-plugin.ts:194).  The code
\* slices the text without the atoms by an offset that counts them.
PickTakesOnlyTheQuery ==
    [][Picks /\ Typed(text, from) # {} => OnlyTheQuery]_editorVars

\* The range a submit anchors is the text the composer quotes, whatever the
\* user typed or selected since: a collapsed selection drops the range, and
\* typing collapses it.  Only an edit of another user moves the text under it.
QuoteAnchored ==
    composer.open /\ sel # None /\ ~composer.moved =>
        Letters(SubSeq(text, sel.from + 1, sel.to)) = composer.quote
==============================================================================
