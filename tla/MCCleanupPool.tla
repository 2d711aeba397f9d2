---------------------------- MODULE MCCleanupPool ----------------------------
(***************************************************************************)
(* One NodeENI under deletion, with four ENIs on one node and hence two    *)
(* workers, with and without DPDK.                                         *)
(***************************************************************************)
EXTENDS CleanupPool

CONSTANTS nodeENI, a, b, c, d, node

MCENIs == {a, b, c, d}
MCENIsOf == nodeENI :> MCENIs
MCNodeOf == [e \in MCENIs |-> node]
MCWorkers == {<<nodeENI, 1>>, <<nodeENI, 2>>}

=============================================================================
