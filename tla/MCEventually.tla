---------------------------- MODULE MCEventually -----------------------------
(***************************************************************************)
(* What must eventually happen on the server: mentions get their outcome,  *)
(* a shutdown ends, changes get into snapshots.  The mail pipeline and the *)
(* snapshot scheduler, each on its own: the first state picks the part     *)
(* that moves, and only that one is owed fairness.  They share no state    *)
(* but the notes row, of which each module keeps its own copy.             *)
(***************************************************************************)
EXTENDS MCMentionPipeline

CONSTANTS s1, s2, s3, t1

VARIABLES
    part,       \* the part that moves: "mail" or "ticks"
    place,      \* the notes rows, as the scheduler sees them
    updated, exported, doc, stored, snaps, tick, req, clock, lastRev

schedVars == <<place, updated, exported, doc, stored, snaps, tick, req, clock, lastRev>>
eventualVars == <<part, vars, schedVars>>

(* Two notes, so that one may be purged under the tick that has still the  *)
(* other to visit, one tick at a time and no requests.                     *)
Sched == INSTANCE Snapshots WITH
    note <- place, NumNotes <- 2, SnapIds <- {s1, s2, s3}, Ticks <- {t1},
    Requests <- {}, Keep <- 1, MaxClock <- 1, MaxRev <- 1

EventuallyInit ==
    /\ part \in {"mail", "ticks"}
    /\ Init
    /\ Sched!Init

EventuallyNext ==
    \/ part = "mail" /\ Next /\ UNCHANGED <<part, schedVars>>
    \/ part = "ticks" /\ Sched!Next /\ UNCHANGED <<part, vars>>

(* Fairness of MentionPipeline and TickFairness of Snapshots, each for the *)
(* part that moves.                                                        *)
MailFairness ==
    /\ WF_vars(part = "mail" /\ Tick)
    /\ \A u \in Users : WF_vars(part = "mail" /\ FireBatch(u))
    /\ WF_vars(part = "mail" /\ Sender)
    /\ WF_vars(part = "mail" /\ ShutdownStep)

SchedulerFairness ==
    WF_schedVars(part = "ticks" /\ Sched!TickStep(t1))

EventuallySpec ==
    /\ EventuallyInit
    /\ [][EventuallyNext]_eventualVars
    /\ MailFairness
    /\ SchedulerFairness

------------------------------------------------------------------------------
(* Properties: those of MentionPipeline as they stand, and the scheduler's. *)

\* Every exported change gets into a snapshot: see Snapshots.
ChangesCaptured == part = "ticks" => Sched!ChangesCaptured

==============================================================================
