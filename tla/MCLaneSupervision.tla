------------------------- MODULE MCLaneSupervision -------------------------
(***************************************************************************)
(* Small instances of LaneSupervision for TLC.                             *)
(***************************************************************************)
EXTENDS LaneSupervision, TLC

(* The model values of the instances. *)
CONSTANTS a, b

Symmetry == Permutations(Lanes)

(* Beside an error or a crash of the daemon nobody closes the session, and *)
(* beside a crash there is neither an error nor a restart: MCProgress has  *)
(* them together, for one lane.                                            *)
OneTrouble ==
    /\ faults + crashes > 0 => closer = Idle
    /\ crashes > 0 => faults = 0 /\ \A l \in Lanes : restarts[l] = 0
=============================================================================
