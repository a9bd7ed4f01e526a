-------------------------- MODULE MCPostgresStorage --------------------------
(* An instance of PostgresStorage for TLC in which every call is one of      *)
(* atomicUpdate.                                                             *)
EXTENDS PostgresStorage

UpdatesNext ==
    \E c \in Callers : Statement(c) \/ Abort(c) \/ \E k \in Keys : PBegin(c, "update", {k})

UpdatesSpec == PInit /\ [][UpdatesNext]_pvars
=============================================================================
