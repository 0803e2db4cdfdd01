--------------------------- MODULE MentionDelivery ---------------------------
(***************************************************************************)
(* What the mention-email subsystem promises about one @mention, with no   *)
(* queue, timer, retry or process in sight: a mention is submitted once,   *)
(* the mail provider may accept at most MaxCopies emails that carry it     *)
(* while it is pending, and it is settled once, as delivered only when     *)
(* some email carrying it was accepted.  Mentions settle in batches.       *)
(***************************************************************************)
EXTENDS Naturals

CONSTANTS
    Mentions,   \* ids of the mentions that may ever be made
    MaxCopies   \* emails the provider may accept for one mention, > 0

VARIABLES
    status,     \* the state of each mention
    copies      \* how many accepted emails carry it

dvars == <<status, copies>>

Outcome == {"delivered", "dead", "lost"}
Status == {"unknown", "pending"} \cup Outcome

DeliveryTypeOK ==
    /\ status \in [Mentions -> Status]
    /\ copies \in [Mentions -> 0..MaxCopies]

DeliveryInit ==
    /\ status = [m \in Mentions |-> "unknown"]
    /\ copies = [m \in Mentions |-> 0]

(* The mentions M are handed over for notification, for the first time. *)
Submit(M) ==
    /\ M # {}
    /\ \A m \in M : status[m] = "unknown"
    /\ status' = [m \in Mentions |-> IF m \in M THEN "pending" ELSE status[m]]
    /\ UNCHANGED copies

(* The provider accepts one email that carries every mention of M. *)
AcceptEmail(M) ==
    /\ M # {}
    /\ \A m \in M : status[m] = "pending" /\ copies[m] < MaxCopies
    /\ copies' = [m \in Mentions |-> IF m \in M THEN copies[m] + 1 ELSE copies[m]]
    /\ UNCHANGED status

(* The mentions M get their final outcome. *)
Settle(M, o) ==
    /\ M # {}
    /\ \A m \in M : status[m] = "pending"
    /\ o = "delivered" => \A m \in M : copies[m] > 0
    /\ status' = [m \in Mentions |-> IF m \in M THEN o ELSE status[m]]
    /\ UNCHANGED copies

DeliveryNext ==
    \E M \in SUBSET Mentions :
        \/ Submit(M)
        \/ AcceptEmail(M)
        \/ \E o \in Outcome : Settle(M, o)

DeliverySpec == DeliveryInit /\ [][DeliveryNext]_dvars

==============================================================================
