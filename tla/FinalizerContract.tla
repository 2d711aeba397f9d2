-------------------------- MODULE FinalizerContract --------------------------
(***************************************************************************)
(* What the deletion of a NodeENI promises: the finalizer is there until   *)
(* every ENI of the NodeENI has been cleaned up.  It says nothing of       *)
(* workers, channels or locks.                                             *)
(***************************************************************************)
CONSTANTS
  NodeENIs,
  ENIs,
  ENIsOf   \* the ENIs of a NodeENI

VARIABLES
  finalizers,  \* the NodeENIs that have the finalizer
  cleaned      \* the ENIs that have been cleaned up

Init == finalizers = NodeENIs /\ cleaned \in SUBSET ENIs

CleanUp(e) == cleaned' = cleaned \cup {e} /\ UNCHANGED finalizers

RemoveFinalizer(n) ==
  /\ ENIsOf[n] \subseteq cleaned
  /\ finalizers' = finalizers \ {n}
  /\ UNCHANGED cleaned

Next ==
  \/ \E e \in ENIs : CleanUp(e)
  \/ \E n \in NodeENIs : RemoveFinalizer(n)

Spec == Init /\ [][Next]_<<finalizers, cleaned>>

=============================================================================
