----------------------------- MODULE MCRelayHub -----------------------------
(***************************************************************************)
(* Small instances of RelayHub for TLC.                                    *)
(***************************************************************************)
EXTENDS RelayHub, TLC

(* The model values of the instances. *)
CONSTANTS c1, m1, r1

(* Every connection is of one member. *)
Together == [c \in Conns |-> m1]
=============================================================================
