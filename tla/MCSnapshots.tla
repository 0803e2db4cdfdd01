---------------------------- MODULE MCSnapshots ------------------------------
(* Instances of Snapshots for TLC.                                          *)
EXTENDS Snapshots, TLC

(* The two slots for a tick, the slots for a request and the uuids are      *)
(* interchangeable: nothing orders them and no property names one.          *)
Symmetry ==
    Permutations(SnapIds) \cup Permutations(Ticks) \cup Permutations(Requests)

==============================================================================
