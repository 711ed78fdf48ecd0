-------------------------- MODULE MCSessionRecovery --------------------------
(***************************************************************************)
(* Small instances, for TLC, of a session's life: creating it, starting its*)
(* lanes and closing it (SessionRegistry), and resuming it from checkpoints*)
(* (SessionRecovery).  Each is explored by itself, the other at rest.      *)
(***************************************************************************)
EXTENDS SessionRecovery, SessionRegistry, TLC

VARIABLE part   \* the component explored

sessionVars == <<part, vars, registryVars>>

SessionInit ==
    /\ part \in {"registry", "recovery"}
    /\ RegistryInit /\ Init
    /\ part = "recovery" => sessionRow.status = "none"

SessionNext ==
    /\ UNCHANGED part
    /\ \/ part = "registry" /\ RegistryNext /\ UNCHANGED vars
       \/ part = "recovery" /\ Next /\ UNCHANGED registryVars

SessionSpec == SessionInit /\ [][SessionNext]_sessionVars

Symmetry == Permutations(Lanes) \cup Permutations(Requests)
=============================================================================
