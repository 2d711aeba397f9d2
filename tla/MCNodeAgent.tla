----------------------------- MODULE MCNodeAgent -----------------------------
(***************************************************************************)
(* Two NodeENIs of NodeAgent, and passes that overlap or do not.  Where    *)
(* they overlap there is one NodeENI, whose interface comes and goes, and  *)
(* a write of the file may be torn.  Where they do not there are two, with *)
(* every fault, and an interface that is late shows in the end.            *)
(***************************************************************************)
EXTENDS NodeAgent, TLC

CONSTANTS n1, n2

MCMaxVersion == n1 :> 2 @@ n2 :> 1

\* The NodeENIs share a name; without DPDK they share the resource.
MCResourceName == n1 :> <<"intel.com", "net">> @@ n2 :> <<"", "net">>

MCInit == Init /\ n2 \in interfaces

\* A behaviour that has had its fault has fewer versions of the NodeENIs; so has one in which
\* passes overlap and an interface is gone.
MCNext ==
  /\ Next
  /\ \/ /\ serial
        /\ interfaces \subseteq interfaces'
        /\ history' = {} \/ cluster'[n2].version = 0 \/ cluster'[n1].version <= 1
     \/ /\ ~serial
        /\ cluster'[n2] = cluster[n2] /\ (n2 \in interfaces <=> n2 \in interfaces')
        /\ history' \subseteq {"torn"}
        /\ (history' = {} /\ interfaces' = NodeENIs) \/ cluster'[n1].version <= 1

MCSpec == MCInit /\ [][MCNext]_vars /\ Fairness

=============================================================================
