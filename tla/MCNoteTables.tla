---------------------------- MODULE MCNoteTables -----------------------------
(* Instances of NoteTables for TLC.                                         *)
EXTENDS NoteTables, TLC

CONSTANTS blank, page, tA, tB, g1

(* A page has a tag and links to the title tA; a blank one nothing.        *)
MCTagsOf == [c \in Contents |-> IF c = blank THEN {} ELSE {g1}]
MCLinksOf == [c \in Contents |-> IF c = blank THEN {} ELSE {tA}]

MCFiles == {[title |-> tB, content |-> page, tags |-> {g1}]}

Symmetry == Permutations(NoteIds) \cup Permutations(Requests)

==============================================================================
