--------------------------- MODULE DeviceIndices ---------------------------
(***************************************************************************)
(* The device indices a node's ENIs are attached at: processNode's rounds  *)
(* over the subnets of a NodeENI, for one node.                            *)
(*                                                                         *)
(* A round works out once which indices are in use, from the status and    *)
(* from EC2, and then creates and attaches an ENI for one subnet after the *)
(* other, while the instance's devices change: its ENIs finish attaching,  *)
(* and others attach and detach devices of their own.  What becomes of an  *)
(* ENI that cannot be attached, and of one that disappears, is in          *)
(* NodeENIController; here its deletion succeeds and attached ENIs stay.   *)
(***************************************************************************)
EXTENDS Naturals, FiniteSets, Sequences, SequencesExt

CONSTANTS
  Subnets,
  Base,        \* spec.deviceIndex, or the default
  MaxIndex,    \* bound on the indices, larger than any the rounds come to
  MaxMoves,    \* bound on what others do to the instance
  Free, Other  \* an index without a device; one with somebody else's

VARIABLES
  subnetIDs,   \* getAllSubnetIDs
  elsewhere,   \* of each subnet, the lowest index on the other nodes; 0: none
  full,        \* the subnets in which no ENI can be created
  slots,       \* what is attached to the instance at each index
  attaching,   \* the indices whose attachment has not reached "attached"
  recorded,    \* status.attachments of the node
  round,       \* the local variables of the round
  moves        \* what others have done

vars == <<subnetIDs, elsewhere, full, slots, attaching, recorded, round, moves>>

Indices == 1..MaxIndex

Attachments == [subnet : Subnets, index : Indices]

Rounds ==
  [at : {"idle", "loop", "attach", "retry"},
   pos : Nat,                         \* the position in subnetIDs
   existing : SUBSET Subnets,         \* existingSubnets
   used : SUBSET Indices,             \* usedDeviceIndices
   mapping : [Subnets -> {0} \cup Indices], \* subnetToDeviceIndex
   asked : {0} \cup Indices,          \* the index determined for the subnet
   index : {0} \cup Indices]          \* the index the attachment is tried at

NoRound == [at |-> "idle", pos |-> 1, existing |-> {}, used |-> {},
            mapping |-> [s \in Subnets |-> 0], asked |-> 0, index |-> 0]

TypeOK ==
  /\ subnetIDs \in Seq(Subnets) /\ subnetIDs # <<>>
  /\ elsewhere \in [Subnets -> {0} \cup Indices]
  /\ full \subseteq Subnets
  /\ slots \in [Indices -> Subnets \cup {Free, Other}]
  /\ attaching \subseteq {k \in Indices : slots[k] # Free}
  /\ recorded \subseteq Attachments
  /\ round \in Rounds
  /\ moves \in 0..MaxMoves

\* The subnets given by ID as they are, then the one found by name if it is not there yet.
AllSubnetIDs(ids, named) == IF named \in ToSet(ids) THEN ids ELSE Append(ids, named)

\* Bound: two subnets by ID, and one by name.
Init ==
  /\ \E ids \in UNION {TupleOf(Subnets, n) : n \in 0..2}, named \in Subnets :
       subnetIDs \in {ids, AllSubnetIDs(ids, named)}
  /\ subnetIDs # <<>>
  /\ elsewhere \in [Subnets -> {0, 2}]
  /\ full \in {{}} \cup {{s} : s \in Subnets}
  /\ \E taken \in SUBSET {2} : slots = [k \in Indices |-> IF k \in taken THEN Other ELSE Free]
  /\ attaching = {} /\ recorded = {}
  /\ round = NoRound
  /\ moves = 0

-----------------------------------------------------------------------------
(* Which index *)

\* findAvailableDeviceIndex and findNextAvailableDeviceIndex: the first at or above start
\* that is not in use.
NextAvailable(start, used) ==
  CHOOSE k \in start..MaxIndex : k \notin used /\ \A j \in start..(k - 1) : j \in used

\* Bound: there is one; in the runs there always is.
IsAvailable(start, used) == \E k \in start..MaxIndex : k \notin used

\* GetInstanceENIs lists what is attached, not what is still being attached.
AWSUsed == {k \in Indices : slots[k] # Free} \ attaching

MinOf(S) == CHOOSE k \in S : \A j \in S : k <= j

\* buildAttachmentMaps' mapping: the lowest index of a subnet on any node.
KnownIndices ==
  [s \in Subnets |->
     LET known == ({elsewhere[s]} \ {0}) \cup {a.index : a \in {b \in recorded : b.subnet = s}}
     IN IF known = {} THEN 0 ELSE MinOf(known)]

\* determineDeviceIndex, before the indices in use are skipped: that of the other nodes,
\* or a new one by the position in the list.
Wanted(s) == IF round.mapping[s] > 0 THEN round.mapping[s] ELSE Base + round.pos - 1

-----------------------------------------------------------------------------
(* A round *)

Others == <<subnetIDs, elsewhere, full, moves>>

NextSubnet == [round EXCEPT !.at = "loop", !.pos = @ + 1]

\* Mutant of StartRound: the subnets the node has an ENI in are not looked at.
StartRoundForgets(answered) ==
  /\ round.at = "idle"
  /\ round' = [NoRound EXCEPT !.at = "loop", !.mapping = KnownIndices,
       !.used = {a.index : a \in recorded} \cup IF answered THEN AWSUsed ELSE {}]
  /\ UNCHANGED <<Others, slots, attaching, recorded>>

\* processNode, up to the loop: the status as it is, merged with EC2's answer if it gives
\* one.
StartRound(answered) ==
  /\ round.at = "idle"
  /\ round' = [NoRound EXCEPT !.at = "loop",
       !.existing = {a.subnet : a \in recorded},
       !.used = {a.index : a \in recorded} \cup IF answered THEN AWSUsed ELSE {},
       !.mapping = KnownIndices]
  /\ UNCHANGED <<Others, slots, attaching, recorded>>

EndRound ==
  /\ round.at = "loop" /\ round.pos > Len(subnetIDs)
  /\ round' = NoRound
  /\ UNCHANGED <<Others, slots, attaching, recorded>>

SkipSubnet ==
  /\ round.at = "loop" /\ round.pos <= Len(subnetIDs)
  /\ subnetIDs[round.pos] \in round.existing
  /\ round' = NextSubnet
  /\ UNCHANGED <<Others, slots, attaching, recorded>>

Missing(s) ==
  /\ round.at = "loop" /\ round.pos <= Len(subnetIDs)
  /\ s = subnetIDs[round.pos] /\ s \notin round.existing
  /\ IsAvailable(Wanted(s), round.used)

\* The index is determined, and remembered for the subnet, before the ENI is created.
Determined(s) == [round EXCEPT !.mapping[s] = Wanted(s),
                               !.asked = NextAvailable(Wanted(s), round.used),
                               !.index = NextAvailable(Wanted(s), round.used)]

CreateENI(s) ==
  /\ Missing(s) /\ s \notin full
  /\ round' = [Determined(s) EXCEPT !.at = "attach"]
  /\ UNCHANGED <<Others, slots, attaching, recorded>>

\* Mutant of CreateFails: the first failure ends the round.
CreateFailsBreaks(s) ==
  /\ Missing(s)
  /\ round' = NoRound
  /\ UNCHANGED <<Others, slots, attaching, recorded>>

\* The subnet has no address left, or the security groups or the ENI cannot be had now.
CreateFails(s) ==
  /\ Missing(s)
  /\ round' = [Determined(s) EXCEPT !.at = "loop", !.pos = @ + 1]
  /\ UNCHANGED <<Others, slots, attaching, recorded>>

\* Mutant of AttachENI: after a retry the index asked for at first is recorded.
AttachENIAsked(s) ==
  /\ round.at \in {"attach", "retry"} /\ s = subnetIDs[round.pos]
  /\ slots[round.index] = Free
  /\ slots' = [slots EXCEPT ![round.index] = s]
  /\ attaching' = attaching \cup {round.index}
  /\ recorded' = recorded \cup {[subnet |-> s, index |-> round.asked]}
  /\ round' = NextSubnet
  /\ UNCHANGED Others

\* The attachment is recorded at the index it was made at.
AttachENI(s) ==
  /\ round.at \in {"attach", "retry"} /\ s = subnetIDs[round.pos]
  /\ slots[round.index] = Free
  /\ slots' = [slots EXCEPT ![round.index] = s]
  /\ attaching' = attaching \cup {round.index}
  /\ recorded' = recorded \cup {[subnet |-> s, index |-> round.index]}
  /\ round' = NextSubnet
  /\ UNCHANGED Others

\* Something is attached at the index.  EC2 is asked for the indices in use and the next
\* one is tried, once; when EC2 shows none there the attachment fails.
DeviceIndexConflict ==
  /\ round.at = "attach" /\ slots[round.index] # Free
  /\ IsAvailable(round.index, AWSUsed)
  /\ LET retry == NextAvailable(round.index, AWSUsed)
     IN /\ retry # round.index
        /\ round' = [round EXCEPT !.at = "retry", !.index = retry]
  /\ UNCHANGED <<Others, slots, attaching, recorded>>

\* EC2 refuses for another reason, or does not say what is attached, or refuses the retry:
\* the ENI is deleted, and the subnet left for a later round.
AttachFails ==
  /\ round.at \in {"attach", "retry"}
  /\ round' = NextSubnet
  /\ UNCHANGED <<Others, slots, attaching, recorded>>

-----------------------------------------------------------------------------
(* The instance *)

\* An attachment is completed.
Settle(k) ==
  /\ k \in attaching
  /\ attaching' = attaching \ {k}
  /\ UNCHANGED <<Others, slots, recorded, round>>

\* Somebody else attaches a device, or detaches it.
Move ==
  /\ moves < MaxMoves /\ moves' = moves + 1
  /\ \E k \in 1..3 :
       \/ /\ slots[k] = Free
          /\ slots' = [slots EXCEPT ![k] = Other] /\ attaching' = attaching \cup {k}
       \/ /\ slots[k] = Other
          /\ slots' = [slots EXCEPT ![k] = Free] /\ attaching' = attaching \ {k}
  /\ UNCHANGED <<subnetIDs, elsewhere, full, recorded, round>>

Next ==
  \/ \E answered \in BOOLEAN : StartRound(answered)
  \/ EndRound \/ SkipSubnet \/ DeviceIndexConflict \/ AttachFails
  \/ \E s \in Subnets : CreateENI(s) \/ CreateFails(s) \/ AttachENI(s)
  \/ \E k \in Indices : Settle(k)
  \/ Move

\* A round goes on, attachments are completed, and what EC2 refuses or does not answer
\* again and again it grants in the end, also after a round it began with an answer.
Fairness ==
  /\ WF_vars(EndRound) /\ WF_vars(SkipSubnet)
  /\ \A s \in Subnets : WF_vars(CreateFails(s))
  /\ WF_vars(AttachFails)
  /\ \A k \in Indices : WF_vars(Settle(k))
  /\ SF_vars(StartRound(TRUE))
  /\ \A s \in Subnets :
       SF_vars(AWSUsed \subseteq round.used /\ CreateENI(s)) /\ SF_vars(AttachENI(s))

Spec == Init /\ [][Next]_vars
FairSpec == Spec /\ Fairness

-----------------------------------------------------------------------------
(* Properties *)

\* The status tells where the node's ENIs are: each at the index it is attached at, also
\* after a conflict, and also when two subnets were given one index (the indices in use are
\* not updated in the loop).
RecordedWhereAttached ==
  recorded = {[subnet |-> slots[k], index |-> k] : k \in {j \in Indices : slots[j] \in Subnets}}

\* A subnet has no more ENIs on the node than times it is listed.  It may have as many:
\* IDs given twice are not dropped, and the loop does not see its own attachments.
NoMoreThanListed ==
  \A s \in Subnets : Cardinality({k \in Indices : slots[k] = s})
                       <= Cardinality({i \in DOMAIN subnetIDs : subnetIDs[i] = s})

\* Every subnet that has addresses gets an ENI, whatever becomes of the others.
EverySubnetServed ==
  \A s \in Subnets :
    <>(s \in full \/ s \notin Range(subnetIDs) \/ \E a \in recorded : a.subnet = s)

=============================================================================
