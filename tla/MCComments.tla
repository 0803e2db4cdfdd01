----------------------------- MODULE MCComments ------------------------------
(***************************************************************************)
(* Comments and the mentions pipeline for TLC, each on its own: the first  *)
(* state picks the part that moves.  A comment's row and the rows of the   *)
(* mentions in it are written by the same handler, but neither part reads  *)
(* what the other writes; of the notes row each keeps its own copy.        *)
(***************************************************************************)
EXTENDS MCMentionPipeline, Comments, TLC

VARIABLE part       \* the part that moves: "mail" or "threads"

ServerInit ==
    /\ part \in {"mail", "threads"}
    /\ Init
    /\ CommentsInit

ServerNext ==
    \/ part = "mail" /\ Next /\ UNCHANGED <<part, commentVars>>
    \/ part = "threads" /\ CommentsNext /\ UNCHANGED <<part, vars>>

ServerSpec == ServerInit /\ [][ServerNext]_<<part, vars, commentVars>>

Symmetry ==
    Permutations(CommentedNotes) \cup Permutations(CommentIds) \cup
    Permutations(Anchors) \cup Permutations(Requests)

==============================================================================
