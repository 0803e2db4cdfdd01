-------------------------- MODULE MCMentionPipeline --------------------------
(* Instances of MentionPipeline for TLC.                                    *)
EXTENDS MentionPipeline

CONSTANTS n1, k1, alice, bob, carol, mA, mA2, mB, mO, kA, kB

(* One note, created by carol, and one comment on it, by bob.  Two uuids    *)
(* for a body mention of alice and one for carol's own mention, so that a   *)
(* duplicate or a self-mention could be inserted; kB is bob's own mention.  *)
MCNoteOf == [m \in Mentions |-> n1]
MCOwner == [n \in Notes |-> carol]
MCAuthorOf == [c \in Comments |-> bob]
MCSourceOf == [m \in Mentions |-> IF m \in {kA, kB} THEN k1 ELSE "note"]
MCToUser ==
    [m \in Mentions |-> CASE m \in {mA, mA2, kA} -> alice
                          [] m \in {mB, kB}      -> bob
                          [] OTHER               -> carol]

==============================================================================
