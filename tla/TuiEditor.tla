------------------------------- MODULE TuiEditor ------------------------------
(***************************************************************************)
(* The terminal client's editor: keys that change the shared document      *)
(* through the primitives of editing.py at a caret that counts characters, *)
(* while updates of other clients change the document under it.            *)
(*                                                                         *)
(* tui/src/bartleby_tui/editor.py and editing.py.                          *)
(*                                                                         *)
(* A block is a leaf, alone or wrapped in a list of one item or a quote;   *)
(* its content is the children of the leaf: text runs with their marks,    *)
(* and inline atoms.  One heading level, one list kind beside the task     *)
(* list and one mark stand for the others, which the code treats alike.    *)
(* An update of another client is applied and painted in one stretch, keys *)
(* and answers of the picker come between.  An exception ends the          *)
(* application.                                                            *)
(***************************************************************************)
EXTENDS Naturals, Sequences, SequencesExt

CONSTANTS
    Letters,        \* the ordinary characters, in the order the user types them
    Triggers,       \* the other characters the user types
    MaxKeys,        \* bound: keys
    MaxPeer,        \* bound: updates of other clients
    MaxBlocks       \* bound: blocks of the document

ASSUME EditAssumption ==
    /\ Letters \in Seq(STRING)
    /\ Range(Letters) \cap {"mention", "backlink"} = {}
    /\ Triggers \subseteq {"@", "[", "#", "-", ">"}
    /\ MaxKeys \in Nat /\ MaxPeer \in Nat /\ MaxBlocks \in Nat

VARIABLES
    blocks,         \* the document
    top, depth, off,            \* the caret: a path and an offset
    mode, link,     \* insert or normal; a URL is being typed
    picker,         \* the picker on screen
    alive,
    typed,          \* how many letters were typed
    keys, peer

caret == <<top, depth, off>>
editVars == <<blocks, caret, mode, link, picker, alive, typed, keys, peer>>

------------------------------------------------------------------------------
(* Documents.                                                              *)

Char == Range(Letters) \cup {"@", "[", "#", "-", ">", " ", "peer"}
Text(s, m) == [kind |-> "text", text |-> s, marks |-> m]
Atom(a) == [kind |-> a, text |-> <<>>, marks |-> {}]
Seg == [kind: {"text", "mention", "backlink"}, text: Seq(Char), marks: SUBSET {"strong", "link"}]
Wraps == {"none", "list", "task", "quote"}
Block == [kind: {"paragraph", "heading"}, wrap: Wraps, checked: BOOLEAN, segs: Seq(Seg)]
Paragraph == [kind |-> "paragraph", wrap |-> "none", checked |-> FALSE, segs |-> <<>>]

\* How many indices lead to the leaf of a block.
Depth(b) == CASE b.wrap = "none" -> 1 [] b.wrap = "quote" -> 2 [] OTHER -> 3

IsText(s) == s.kind = "text"
LeafText(b) == FlattenSeq([i \in 1 .. Len(b.segs) |-> IF IsText(b.segs[i]) THEN b.segs[i].text ELSE <<>>])
TextLen(b) == Len(LeafText(b))

\* The places of editing.py: a character is one, and so is an atom.
Width(s) == IF IsText(s) THEN Len(s.text) ELSE 1
Pos(segs, i) ==
    LET before[n \in 0 .. Len(segs)] == IF n = 0 THEN 0 ELSE before[n - 1] + Width(segs[n])
    IN before[i - 1]

First(S) == CHOOSE i \in S : \A j \in S : i <= j
Least(a, b) == IF a < b THEN a ELSE b
Most(a, b) == IF a > b THEN a ELSE b
Minus(a, b) == IF a > b THEN a - b ELSE 0

------------------------------------------------------------------------------
(* editing.py: what becomes of the segments of a leaf.                     *)

\* Faulty: an offset at the end of a run is past it.
CoveringLate(segs, o) == {i \in 1 .. Len(segs) : IsText(segs[i]) /\ o < Pos(segs, i) + Len(segs[i].text)}

\* The first run whose end is not before the offset, or else a new one.  An
\* atom before that run can leave the offset short of its start, and a
\* negative index raises.
Covering(segs, o) == {i \in 1 .. Len(segs) : IsText(segs[i]) /\ o <= Pos(segs, i) + Len(segs[i].text)}
CanInsert(segs, o) == Covering(segs, o) # {} => o >= Pos(segs, First(Covering(segs, o)))
InsertText(segs, o, c) ==
    IF Covering(segs, o) = {} THEN Append(segs, Text(<<c>>, {}))
    ELSE LET i == First(Covering(segs, o))
         IN [segs EXCEPT ![i].text = InsertAt(@, o - Pos(segs, i) + 1, c)]

\* Runs that become empty stay.
Cut(segs, start, end, i) ==
    LET p == Pos(segs, i)
        from == Least(Minus(start, p), Len(segs[i].text))
        to == Most(from, Least(Minus(end, p), Len(segs[i].text)))
    IN [segs[i] EXCEPT !.text = SubSeq(@, 1, from) \o SubSeq(@, to + 1, Len(@))]
DeleteRange(segs, start, end) ==
    [i \in 1 .. Len(segs) |-> IF IsText(segs[i]) THEN Cut(segs, start, end, i) ELSE segs[i]]

\* _read_segments and _emit_segments: what is written anew drops empty runs.
Kept(s) == IF IsText(s) /\ s.text = <<>> THEN <<>> ELSE <<s>>
Emitted(segs) == FlattenSeq([i \in 1 .. Len(segs) |-> Kept(segs[i])])

\* A run joins the run before it if their marks are the same.
Joined(out, s) ==
    IF out # <<>> /\ IsText(s) /\ IsText(Last(out)) /\ Last(out).marks = s.marks
    THEN [out EXCEPT ![Len(out)].text = @ \o s.text]
    ELSE Append(out, s)
Coalesce(segs) ==
    LET out[n \in 0 .. Len(segs)] == IF n = 0 THEN <<>> ELSE Joined(out[n - 1], segs[n])
    IN out[Len(segs)]

\* A run in up to three pieces: before, in and after the range.
Pieces(segs, start, end, i, marks) ==
    LET p == Pos(segs, i)  t == segs[i].text
        from == Least(Minus(start, p), Len(t))
        to == Most(from, Least(Minus(end, p), Len(t)))
    IN Kept(Text(SubSeq(t, 1, from), segs[i].marks)) \o Kept(Text(SubSeq(t, from + 1, to), marks))
       \o Kept(Text(SubSeq(t, to + 1, Len(t)), segs[i].marks))
\* Faulty: a run that only touches the range counts.
InRangeTouching(segs, start, end) ==
    {i \in 1 .. Len(segs) : /\ IsText(segs[i])
                            /\ Least(Pos(segs, i) + Len(segs[i].text), end) >= Most(Pos(segs, i), start)}
InRange(segs, start, end) ==
    {i \in 1 .. Len(segs) : /\ IsText(segs[i])
                            /\ Least(Pos(segs, i) + Len(segs[i].text), end) > Most(Pos(segs, i), start)}
ToggleMark(segs, start, end, mark) ==
    LET S == InRange(segs, start, end)
        remove == S # {} /\ \A i \in S : mark \in segs[i].marks
        Marked(i) == IF remove THEN segs[i].marks \ {mark} ELSE segs[i].marks \cup {mark}
    IN Coalesce(FlattenSeq([i \in 1 .. Len(segs) |->
           IF IsText(segs[i]) THEN Pieces(segs, start, end, i, Marked(i)) ELSE <<segs[i]>>]))

\* The atom goes before, into or after the first segment that reaches the
\* offset, or to the end.
Reached(segs, o) ==
    {i \in 1 .. Len(segs) : LET p == Pos(segs, i) IN
        IF IsText(segs[i]) THEN p <= o /\ o <= p + Len(segs[i].text) ELSE p = o}
SplitAndInsert(segs, o, a) ==
    IF Reached(segs, o) = {} THEN Append(segs, Atom(a))
    ELSE LET i == First(Reached(segs, o))
             s == segs[i]
             local == o - Pos(segs, i)
             new == IF IsText(s)
                    THEN <<[s EXCEPT !.text = SubSeq(@, 1, local)], Atom(a),
                           [s EXCEPT !.text = SubSeq(@, local + 1, Len(@))]>>
                    ELSE <<Atom(a), s>>
         IN Emitted(SubSeq(segs, 1, i - 1) \o new \o SubSeq(segs, i + 1, Len(segs)))

\* A block of another kind or wrap, with the content written anew.
SetBlockType(b, kind) == [b EXCEPT !.kind = kind, !.segs = Emitted(@)]
Wrap(b, wrap) == [b EXCEPT !.wrap = wrap, !.segs = Emitted(@)]

------------------------------------------------------------------------------
(* The caret.                                                              *)

\* The path of the caret leads to a leaf.
OnLeaf(bs) == top \in 1 .. Len(bs) /\ depth = Depth(bs[top])
Here == blocks[top]

\* Faulty: the offset is kept as it is.
PaintUnclamped(bs, t, d, o) ==
    IF t \in 1 .. Len(bs) /\ d = Depth(bs[t])
    THEN top' = t /\ depth' = d /\ off' = o
    ELSE top' = 1 /\ depth' = (IF bs = <<>> THEN 1 ELSE Depth(bs[1])) /\ off' = o

\* refresh_view: the caret is put on the first leaf if its path leads to none,
\* and its offset is cut to the text, atoms not counted.
Paint(bs, t, d, o) ==
    IF t \in 1 .. Len(bs) /\ d = Depth(bs[t])
    THEN top' = t /\ depth' = d /\ off' = Least(o, TextLen(bs[t]))
    ELSE top' = 1 /\ depth' = (IF bs = <<>> THEN 1 ELSE Depth(bs[1]))
         /\ off' = (IF bs = <<>> THEN 0 ELSE Least(o, TextLen(bs[1])))

\* The caret stands on a leaf of the document, within its text, whatever other
\* clients removed or wrapped.
CaretOnLeaf == blocks # <<>> => OnLeaf(blocks) /\ off <= TextLen(Here)

EditTypeOK ==
    /\ blocks \in Seq(Block)
    /\ top \in Nat /\ depth \in 1 .. 3 /\ off \in Nat
    /\ mode \in {"insert", "normal"} /\ link \in BOOLEAN
    /\ picker \in {"none", "mention", "backlink"}
    /\ alive \in BOOLEAN
    /\ typed \in 0 .. Len(Letters)
    /\ keys \in 0 .. MaxKeys /\ peer \in 0 .. MaxPeer
    /\ CaretOnLeaf

\* A note is opened: its document holds what the server has and the paragraph
\* the editor put into its new document, which another client may have
\* written into since.
EditInit ==
    /\ \E b \in {[Paragraph EXCEPT !.wrap = "task"],
                [Paragraph EXCEPT !.segs = <<Atom("mention"), Text(<<"peer">>, {})>>]} :
          blocks = <<b, Paragraph>>
    /\ top = 1 /\ depth = Depth(blocks[1]) /\ off = 0
    /\ mode = "insert" /\ link = FALSE /\ picker = "none"
    /\ alive = TRUE
    /\ typed = 0 /\ keys = 0 /\ peer = 0

------------------------------------------------------------------------------
(* Keys.                                                                   *)

Pressed == alive /\ picker = "none" /\ keys < MaxKeys /\ keys' = keys + 1
InsertKey == Pressed /\ mode = "insert" /\ ~link
Crash == alive' = FALSE /\ UNCHANGED <<blocks, caret>>

\* The block of the caret gets new segments, and the caret a new offset.
Puts(segs, o) ==
    LET bs == [blocks EXCEPT ![top].segs = segs]
    IN blocks' = bs /\ Paint(bs, top, depth, o) /\ UNCHANGED alive

\* _insert_text: a document without blocks, or an offset before its run, raises.
Types(c) ==
    IF blocks = <<>> \/ ~CanInsert(Here.segs, off)
    THEN Crash
    ELSE Puts(InsertText(Here.segs, off, c), off + 1)

TypeLetter ==
    /\ Pressed /\ mode = "insert" /\ ~link /\ typed < Len(Letters)
    /\ typed' = typed + 1
    /\ Types(Letters[typed'])
    /\ UNCHANGED <<mode, link, picker, peer>>

\* @ opens the picker of users, [[ that of notes.
TypeTrigger(c) ==
    /\ InsertKey
    /\ Types(c)
    /\ picker' = IF ~alive' THEN picker
                 ELSE IF c = "@" THEN "mention"
                 ELSE IF c = "[" /\ LET t == SubSeq(LeafText(blocks'[top']), 1, off')
                                    IN Len(t) > 1 /\ Last(t) = "[" /\ t[Len(t) - 1] = "["
                 THEN "backlink" ELSE picker
    /\ UNCHANGED <<mode, link, typed, peer>>

\* Space: a task is checked at its start, a rule fires at the end of its
\* trigger in a block of the top level, else a space is typed.
RuleOf(t) ==
    CASE t = <<"#">> -> "heading" [] t = <<"-">> -> "list" [] t = <<">">> -> "quote" [] OTHER -> "none"
InTask == depth > 1 /\ top \in 1 .. Len(blocks) /\ Here.wrap = "task"
Rule ==
    IF depth = 1 /\ OnLeaf(blocks) /\ off = TextLen(Here) THEN RuleOf(LeafText(Here)) ELSE "none"
Ruled ==
    LET b == [Here EXCEPT !.segs = DeleteRange(@, 0, TextLen(Here))]
    IN IF Rule = "heading" THEN SetBlockType(b, "heading") ELSE Wrap(b, Rule)

Space ==
    /\ InsertKey
    /\ \/ /\ InTask /\ off = 0
          /\ blocks' = [blocks EXCEPT ![top].checked = ~@]
          /\ Paint(blocks', top, depth, off)
          /\ UNCHANGED alive
       \/ /\ ~(InTask /\ off = 0)
          /\ IF Rule = "none" THEN Types(" ")
             ELSE LET bs == [blocks EXCEPT ![top] = Ruled]
                  IN blocks' = bs /\ Paint(bs, top, Depth(bs[top]), 0) /\ UNCHANGED alive
    /\ UNCHANGED <<mode, link, picker, typed, peer>>

\* A fresh paragraph after the block of the caret, or at the end.
Enter ==
    /\ InsertKey /\ Len(blocks) < MaxBlocks
    /\ IF top > Len(blocks) THEN Crash
       ELSE LET bs == InsertAt(blocks, top + 1, Paragraph)
            IN blocks' = bs /\ Paint(bs, top + 1, 1, 0) /\ UNCHANGED alive
    /\ UNCHANGED <<mode, link, picker, typed, peer>>

\* The caret moves over the leaves in order.
Leaf == IF OnLeaf(blocks) THEN top ELSE 1
Left ==
    IF off > 0 THEN Paint(blocks, top, depth, off - 1)
    ELSE IF blocks # <<>> /\ Leaf > 1
    THEN Paint(blocks, Leaf - 1, Depth(blocks[Leaf - 1]), TextLen(blocks[Leaf - 1]))
    ELSE Paint(blocks, top, depth, off)
Right ==
    IF blocks # <<>> /\ off < TextLen(blocks[Leaf]) THEN Paint(blocks, top, depth, off + 1)
    ELSE IF Leaf < Len(blocks) THEN Paint(blocks, Leaf + 1, Depth(blocks[Leaf + 1]), 0)
    ELSE Paint(blocks, top, depth, off)
Vertical(t) ==
    IF t \in 1 .. Len(blocks) THEN Paint(blocks, t, Depth(blocks[t]), off)
    ELSE Paint(blocks, top, depth, off)

Move ==
    /\ Pressed /\ ~link
    /\ Left \/ Right \/ Vertical(Leaf - 1) \/ Vertical(Leaf + 1)
    /\ UNCHANGED <<blocks, mode, link, picker, alive, typed, peer>>

\* The character before the caret goes; at the start the caret moves left.
Backspace ==
    /\ InsertKey
    /\ IF off = 0 THEN Left /\ UNCHANGED <<blocks, alive>>
       ELSE IF blocks = <<>> THEN Crash
       ELSE Puts(DeleteRange(Here.segs, off - 1, off), off - 1)
    /\ UNCHANGED <<mode, link, picker, typed, peer>>

\* A mark is toggled from 0 to the length of the text of the block, in either
\* mode; a link when its URL has been entered.
Toggle(mark) ==
    IF blocks = <<>> \/ TextLen(Here) = 0
    THEN UNCHANGED <<blocks, alive>> /\ Paint(blocks, top, depth, off)
    ELSE Puts(Emitted(ToggleMark(Here.segs, 0, TextLen(Here), mark)), off)

Mark ==
    /\ Pressed /\ ~link
    /\ Toggle("strong")
    /\ UNCHANGED <<mode, link, picker, typed, peer>>

AskLink ==
    /\ Pressed /\ ~link
    /\ link' = TRUE
    /\ Paint(blocks, top, depth, off)
    /\ UNCHANGED <<blocks, mode, picker, alive, typed, peer>>

EndLink ==
    /\ Pressed /\ link
    /\ link' = FALSE
    /\ Toggle("link") \/ (UNCHANGED <<blocks, alive>> /\ Paint(blocks, top, depth, off))
    /\ UNCHANGED <<mode, picker, typed, peer>>

SwitchMode ==
    /\ Pressed /\ ~link
    /\ mode' = IF mode = "insert" THEN "normal" ELSE "insert"
    /\ Paint(blocks, top, depth, off)
    /\ UNCHANGED <<blocks, link, picker, alive, typed, peer>>

\* The picker answers: the characters of the trigger before the caret go, and
\* the atom takes their place.
Pick ==
    /\ alive /\ picker # "none"
    /\ LET start == Minus(off, IF picker = "mention" THEN 1 ELSE 2)
       IN IF blocks = <<>> THEN Crash
          ELSE Puts(SplitAndInsert(DeleteRange(Here.segs, start, off), start, picker), start + 1)
    /\ picker' = "none"
    /\ UNCHANGED <<mode, link, typed, keys, peer>>

DismissPicker ==
    /\ alive /\ picker # "none"
    /\ picker' = "none"
    /\ UNCHANGED <<blocks, caret, mode, link, alive, typed, keys, peer>>

------------------------------------------------------------------------------
(* Other clients.                                                          *)

\* What another client may do to one block: type at its start or its end,
\* delete its first character, put a mention at its start.
Touched(b) ==
    {[b EXCEPT !.segs = <<Text(<<"peer">>, {})>> \o @], [b EXCEPT !.segs = <<Atom("mention")>> \o @]}
    \cup {[b EXCEPT !.segs[1].text = s] : s \in
            IF b.segs # <<>> /\ IsText(b.segs[1]) /\ b.segs[1].text # <<>>
            THEN {Tail(b.segs[1].text), <<"peer">> \o b.segs[1].text, Append(b.segs[1].text, "peer")}
            ELSE {}}

\* _apply_remote_update, which calls refresh_view through the listener.
PeerWrites ==
    /\ alive /\ peer < MaxPeer
    /\ peer' = peer + 1
    /\ \/ \E i \in 1 .. Len(blocks) : \E b \in Touched(blocks[i]) :
             blocks' = [blocks EXCEPT ![i] = b]
       \/ \E i \in 1 .. Len(blocks) : blocks' = RemoveAt(blocks, i)
       \/ Len(blocks) < MaxBlocks /\ \E i \in 1 .. Len(blocks) + 1 : blocks' = InsertAt(blocks, i, Paragraph)
    /\ Paint(blocks', top, depth, off)
    /\ UNCHANGED <<mode, link, picker, alive, typed, keys>>

EditNext ==
    \/ TypeLetter \/ Space \/ Enter \/ Move \/ Backspace
    \/ Mark \/ AskLink \/ EndLink \/ SwitchMode \/ Pick \/ DismissPicker
    \/ PeerWrites
    \/ \E c \in Triggers : TypeTrigger(c)

EditSpec == EditInit /\ [][EditNext]_editVars

------------------------------------------------------------------------------
(* Properties.                                                             *)

\* A letter typed lands at the caret and moves it on, however keys, marks and
\* other clients have split and joined the runs of text, as long as no atom
\* comes before the run the caret stands in.
NoAtomBefore ==
    LET segs == Here.segs
    IN \/ \A i \in DOMAIN segs : IsText(segs[i])
       \/ \E i \in DOMAIN segs :
            /\ \A j \in 1 .. i : IsText(segs[j])
            /\ off \in Pos(segs, i) .. Pos(segs, i) + Len(segs[i].text)
TypingLands ==
    [][(typed' # typed /\ blocks # <<>> /\ NoAtomBefore) =>
          /\ alive'
          /\ LeafText(blocks'[top]) = InsertAt(LeafText(Here), off + 1, Letters[typed'])
          /\ top' = top /\ off' = off + 1]_editVars

\* The primitives work on places: one for a character with its marks, one for
\* an atom.  Whatever runs the edits so far have left, a range that is deleted
\* loses its characters and nothing else, an atom takes exactly its place,
\* and a toggle changes one mark in its range: off when every character there
\* has it, else on.
PlacesOf(s) ==
    IF IsText(s) THEN [k \in 1 .. Len(s.text) |-> <<s.text[k], s.marks>>] ELSE << <<s.kind, {}>> >>
Places(segs) == FlattenSeq([i \in 1 .. Len(segs) |-> PlacesOf(segs[i])])
IsAtom(p) == p[1] \in {"mention", "backlink"}
Deleted(ps, a, b) ==
    FlattenSeq([k \in 1 .. Len(ps) |-> IF k \in a + 1 .. b /\ ~IsAtom(ps[k]) THEN <<>> ELSE <<ps[k]>>])
Toggled(ps, a, b, m) ==
    LET range == {k \in DOMAIN ps : k \in a + 1 .. b /\ ~IsAtom(ps[k])}
        remove == \A k \in range : m \in ps[k][2]
    IN [k \in DOMAIN ps |-> IF k \notin range THEN ps[k]
                            ELSE <<ps[k][1], IF remove THEN ps[k][2] \ {m} ELSE ps[k][2] \cup {m}>>]
PrimitivesAtPlaces ==
    OnLeaf(blocks) =>
        LET segs == Here.segs  ps == Places(segs)
        IN \A a, b \in 0 .. Len(ps) : a <= b =>
             /\ Places(DeleteRange(segs, a, b)) = Deleted(ps, a, b)
             /\ Places(SplitAndInsert(segs, a, "mention")) = InsertAt(ps, a + 1, <<"mention", {}>>)
             /\ Places(ToggleMark(segs, a, b, "strong")) = Toggled(ps, a, b, "strong")

==============================================================================
