------------------------ MODULE MCNodeENIController ------------------------
(***************************************************************************)
(* NodeENIController on small instances with one node, and two subnets or  *)
(* one.  Where ENIs are created there are two ENI IDs for a subnet, so     *)
(* that one ENI can be replaced by another.                                *)
(***************************************************************************)
EXTENDS NodeENIController, TLC

CONSTANTS n1, s1, s2, a1, a2, b1

\* Two subnets of one node, two ENI IDs for the first.
TwoSubnetsNodeOf == a1 :> n1 @@ a2 :> n1 @@ b1 :> n1
TwoSubnetsSubnetOf == a1 :> s1 @@ a2 :> s1 @@ b1 :> s2

\* Two subnets of one node, one ENI ID for each.
OneEachNodeOf == a1 :> n1 @@ b1 :> n1
OneEachSubnetOf == a1 :> s1 @@ b1 :> s2

\* One subnet of one node, two ENI IDs.
OneSubnetNodeOf == a1 :> n1 @@ a2 :> n1
OneSubnetSubnetOf == a1 :> s1 @@ a2 :> s1

=============================================================================
