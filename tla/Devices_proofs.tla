--------------------------- MODULE Devices_proofs ---------------------------
(***************************************************************************)
(* The devices of a node's ENIs, for any bounds: taking one off its DPDK   *)
(* driver is atomic but for two failures, and the status tells at which    *)
(* indices the ENIs are attached.                                          *)
(***************************************************************************)
EXTENDS Parts_proofs, FiniteSetTheorems, WellFoundedInduction

-----------------------------------------------------------------------------
(* Unbinding *)

\* As long as the streams stand, the reconciler waits for the one script that runs.
OneScriptAtATime ==
  /\ scripts["unbind"] \in {"verify", "unbind", "override", "bind", "giveUp", "rebind",
                            "clear", "none"}
  /\ scripts["rollback"] \in {"undo", "undoOverride", "undoBind", "undoClear", "none"}
  /\ scripts["unbind"] # "none" <=> phase = "unbinding"
  /\ scripts["rollback"] # "none" <=> phase = "rollingBack"

\* The device at every place the script can be at, and of the reconciler between scripts.
DuringUnbind ==
  /\ scripts["unbind"] \in {"verify", "unbind"} =>
       driver = "dpdk" /\ override \in {"none", "dpdk"}
  /\ scripts["unbind"] = "override" => driver = "none" /\ override \in {"none", "dpdk"}
  /\ scripts["unbind"] = "bind" => driver = "none" /\ override = "ena"
  /\ scripts["unbind"] = "giveUp" => driver = "none" /\ override = "ena" /\ failures = 1
  /\ scripts["unbind"] = "rebind" => driver = "none" /\ override = "none" /\ failures = 1
  /\ scripts["unbind"] = "clear" => driver = "ena" /\ override = "ena"

DuringRollback ==
  /\ scripts["rollback"] = "undo" => driver \in {"dpdk", "none"} /\ override = "none"
  /\ scripts["rollback"] = "undoOverride" => driver = "none" /\ override = "none"
  /\ scripts["rollback"] = "undoBind" => driver = "none" /\ override = "dpdk"
  /\ scripts["rollback"] = "undoClear" => driver = "dpdk" /\ override = "dpdk"

BetweenScripts ==
  /\ phase \in {"idle", "unbound", "error"} =>
       driver # "none" /\ override \in {"none", driver}
  /\ phase = "failed" => driver \in {"dpdk", "none"} /\ override = "none"
  /\ phase = "verifying" => driver = "ena" /\ override \in {"none", "ena"}

\* Only a rollback sets the DPDK driver as override, and it follows a failure.
OneFailureSoFar ==
  /\ phase \in {"failed", "rollingBack"} => failures = 1
  /\ override = "dpdk" => failures = 1

InScript ==
  OneScriptAtATime /\ DuringUnbind /\ DuringRollback /\ BetweenScripts /\ OneFailureSoFar

UnbindInv == Unbind!TypeOK /\ (Unbind!AtMostOneFailure => InScript)

LEMMA InitUnbindInv == ASSUME MaxFailures \in Nat, Unbind!Init PROVE UnbindInv
<1>1. Unbind!TypeOK
  <2>1. failures \in 0..MaxFailures
    BY DEF Unbind!Init
  <2>2. claims \in BOOLEAN /\ lost \in BOOLEAN
    BY Zenon DEF Unbind!Init
  <2>3. scripts \in [{"unbind", "rollback"} -> Unbind!Places \cup {"none"}]
    BY DEF Unbind!Init
  <2> QED  BY <2>1, <2>2, <2>3 DEF Unbind!Init, Unbind!TypeOK, Unbind!Drivers
<1>2. InScript
  BY DEF Unbind!Init, InScript, OneScriptAtATime, DuringUnbind, DuringRollback,
         BetweenScripts, OneFailureSoFar
<1> QED  BY <1>1, <1>2 DEF UnbindInv

LEMMA UnbindScriptStep ==
  ASSUME MaxFailures \in Nat, UnbindInv, Unbind!UnbindScript
  PROVE  UnbindInv'
<1> USE DEF Unbind!UnbindScript, Unbind!Same, Unbind!Go, Unbind!End, Unbind!Fails, Unbind!Refused,
            Unbind!Unbinds, Unbind!Overrides, Unbind!Binds, Unbind!CanBind, Unbind!TypeOK,
            InScript, OneScriptAtATime, DuringUnbind, DuringRollback, BetweenScripts,
            OneFailureSoFar, Unbind!AtMostOneFailure
<1>1. Unbind!TypeOK /\ UNCHANGED <<claims, lost>>
  BY DEF UnbindInv
<1>2. Unbind!AtMostOneFailure' => Unbind!AtMostOneFailure
  BY <1>1
<1>3. CASE scripts["unbind"] = "verify"
  <2>1. Unbind!TypeOK'
    BY <1>1, <1>3 DEF Unbind!Places, Unbind!Drivers
  <2>2. InScript /\ Unbind!AtMostOneFailure' => InScript'
    BY <1>1, <1>3
  <2> QED  BY <1>2, <2>1, <2>2 DEF UnbindInv
<1>4. CASE scripts["unbind"] = "unbind"
  <2>1. Unbind!TypeOK'
    BY <1>1, <1>4 DEF Unbind!Places, Unbind!Drivers
  <2>2. InScript /\ Unbind!AtMostOneFailure' => InScript'
    BY <1>1, <1>4
  <2> QED  BY <1>2, <2>1, <2>2 DEF UnbindInv
<1>5. CASE scripts["unbind"] = "override"
  <2>1. Unbind!TypeOK'
    BY <1>1, <1>5 DEF Unbind!Places, Unbind!Drivers
  <2>2. InScript /\ Unbind!AtMostOneFailure' => InScript'
    BY <1>1, <1>5
  <2> QED  BY <1>2, <2>1, <2>2 DEF UnbindInv
<1>6. CASE scripts["unbind"] = "bind"
  <2>1. Unbind!TypeOK'
    BY <1>1, <1>6 DEF Unbind!Places, Unbind!Drivers
  <2>2. InScript /\ Unbind!AtMostOneFailure' => InScript'
    BY <1>1, <1>6
  <2> QED  BY <1>2, <2>1, <2>2 DEF UnbindInv
<1>7. CASE scripts["unbind"] = "giveUp"
  <2>1. Unbind!TypeOK'
    BY <1>1, <1>7 DEF Unbind!Places, Unbind!Drivers
  <2>2. InScript /\ Unbind!AtMostOneFailure' => InScript'
    BY <1>1, <1>7
  <2> QED  BY <1>2, <2>1, <2>2 DEF UnbindInv
<1>8. CASE scripts["unbind"] = "rebind"
  <2>1. Unbind!TypeOK'
    BY <1>1, <1>8 DEF Unbind!Places, Unbind!Drivers
  <2>2. InScript /\ Unbind!AtMostOneFailure' => InScript'
    BY <1>1, <1>8
  <2> QED  BY <1>2, <2>1, <2>2 DEF UnbindInv
<1>9. CASE scripts["unbind"] = "clear"
  <2>1. Unbind!TypeOK'
    BY <1>1, <1>9 DEF Unbind!Places, Unbind!Drivers
  <2>2. InScript /\ Unbind!AtMostOneFailure' => InScript'
    BY <1>1, <1>9
  <2> QED  BY <1>2, <2>1, <2>2 DEF UnbindInv
<1> QED  BY <1>3, <1>4, <1>5, <1>6, <1>7, <1>8, <1>9

LEMMA RollbackScriptStep ==
  ASSUME MaxFailures \in Nat, UnbindInv, Unbind!RollbackScript
  PROVE  UnbindInv'
<1> USE DEF Unbind!RollbackScript, Unbind!Same, Unbind!Go, Unbind!End, Unbind!Fails, Unbind!Refused,
            Unbind!Unbinds, Unbind!Overrides, Unbind!Binds, Unbind!CanBind, Unbind!TypeOK,
            InScript, OneScriptAtATime, DuringUnbind, DuringRollback, BetweenScripts,
            OneFailureSoFar, Unbind!AtMostOneFailure
<1>1. Unbind!TypeOK /\ UNCHANGED <<claims, lost>>
  BY DEF UnbindInv
<1>2. CASE scripts["rollback"] = "undo"
  <2>1. Unbind!TypeOK'
    BY <1>1, <1>2 DEF Unbind!Places, Unbind!Drivers
  <2>2. InScript /\ Unbind!AtMostOneFailure' => InScript'
    BY <1>1, <1>2
  <2>3. Unbind!AtMostOneFailure' => Unbind!AtMostOneFailure
    BY <1>1, <1>2
  <2> QED  BY <2>1, <2>2, <2>3 DEF UnbindInv
<1>3. CASE scripts["rollback"] = "undoUnbind"
  <2>1. Unbind!TypeOK'
    BY <1>1, <1>3 DEF Unbind!Places, Unbind!Drivers
  <2>2. InScript /\ Unbind!AtMostOneFailure' => InScript'
    BY <1>1, <1>3
  <2>3. Unbind!AtMostOneFailure' => Unbind!AtMostOneFailure
    BY <1>1, <1>3
  <2> QED  BY <2>1, <2>2, <2>3 DEF UnbindInv
<1>4. CASE scripts["rollback"] = "undoOverride"
  <2>1. Unbind!TypeOK'
    BY <1>1, <1>4 DEF Unbind!Places, Unbind!Drivers
  <2>2. InScript /\ Unbind!AtMostOneFailure' => InScript'
    BY <1>1, <1>4
  <2>3. Unbind!AtMostOneFailure' => Unbind!AtMostOneFailure
    BY <1>1, <1>4
  <2> QED  BY <2>1, <2>2, <2>3 DEF UnbindInv
<1>5. CASE scripts["rollback"] = "undoBind"
  <2>1. Unbind!TypeOK'
    BY <1>1, <1>5 DEF Unbind!Places, Unbind!Drivers
  <2>2. InScript /\ Unbind!AtMostOneFailure' => InScript'
    BY <1>1, <1>5
  <2>3. Unbind!AtMostOneFailure' => Unbind!AtMostOneFailure
    BY <1>1, <1>5
  <2> QED  BY <2>1, <2>2, <2>3 DEF UnbindInv
<1>6. CASE scripts["rollback"] = "undoClear"
  <2>1. Unbind!TypeOK'
    BY <1>1, <1>6 DEF Unbind!Places, Unbind!Drivers
  <2>2. InScript /\ Unbind!AtMostOneFailure' => InScript'
    BY <1>1, <1>6
  <2>3. Unbind!AtMostOneFailure' => Unbind!AtMostOneFailure
    BY <1>1, <1>6
  <2> QED  BY <2>1, <2>2, <2>3 DEF UnbindInv
<1> QED  BY <1>2, <1>3, <1>4, <1>5, <1>6

LEMMA ReconcilerUnbindStep ==
  ASSUME MaxFailures \in Nat, UnbindInv,
         \/ Unbind!Capture \/ Unbind!Rollback \/ Unbind!verifyDPDKUnbind
         \/ Unbind!CommandFails \/ Unbind!StreamBreaks
  PROVE  UnbindInv'
<1> USE DEF Unbind!Capture, Unbind!Rollback, Unbind!verifyDPDKUnbind, Unbind!CommandFails,
            Unbind!StreamBreaks, Unbind!AfterFailure, Unbind!Go, Unbind!TypeOK
<1>1. Unbind!TypeOK
  BY DEF UnbindInv
<1>2. CASE Unbind!StreamBreaks
  <2>1. Unbind!TypeOK' /\ lost'
    BY <1>1, <1>2
  <2> QED  BY <2>1 DEF UnbindInv, Unbind!AtMostOneFailure
<1>3. CASE Unbind!Capture \/ Unbind!Rollback \/ Unbind!verifyDPDKUnbind \/ Unbind!CommandFails
  <2>1. Unbind!TypeOK'
    BY <1>1, <1>3 DEF Unbind!Places, Unbind!Drivers
  <2>2. Unbind!AtMostOneFailure' => Unbind!AtMostOneFailure
    BY <1>1, <1>3 DEF Unbind!AtMostOneFailure
  <2>3. CASE Unbind!Capture
    BY <1>1, <2>1, <2>2, <2>3 DEF UnbindInv, InScript,
       OneScriptAtATime, DuringUnbind, DuringRollback, BetweenScripts, OneFailureSoFar
  <2>4. CASE Unbind!Rollback
    BY <1>1, <2>1, <2>2, <2>4 DEF UnbindInv, InScript,
       OneScriptAtATime, DuringUnbind, DuringRollback, BetweenScripts, OneFailureSoFar
  <2>5. CASE Unbind!verifyDPDKUnbind
    BY <1>1, <2>1, <2>2, <2>5 DEF UnbindInv, InScript,
       OneScriptAtATime, DuringUnbind, DuringRollback, BetweenScripts, OneFailureSoFar
  <2>6. CASE Unbind!CommandFails
    <3>1. InScript /\ Unbind!AtMostOneFailure' => failures = 0 /\ phase # "rollingBack"
      BY <1>1, <2>6 DEF Unbind!AtMostOneFailure, InScript, OneFailureSoFar
    <3>2. InScript /\ Unbind!AtMostOneFailure' => InScript'
      BY <1>1, <2>6, <3>1 DEF InScript,
         OneScriptAtATime, DuringUnbind, DuringRollback, BetweenScripts, OneFailureSoFar
    <3> QED  BY <2>1, <2>2, <3>2 DEF UnbindInv
  <2> QED  BY <1>3, <2>3, <2>4, <2>5, <2>6
<1> QED  BY <1>2, <1>3

LEMMA NextUnbindInv ==
  ASSUME MaxFailures \in Nat, UnbindInv, [Unbind!Next]_(Unbind!vars)
  PROVE  UnbindInv'
<1>1. CASE UNCHANGED Unbind!vars
  BY <1>1 DEF Unbind!vars, UnbindInv, Unbind!TypeOK, Unbind!AtMostOneFailure, InScript,
       OneScriptAtATime, DuringUnbind, DuringRollback, BetweenScripts, OneFailureSoFar
<1> QED
  BY <1>1, UnbindScriptStep, RollbackScriptStep, ReconcilerUnbindStep DEF Unbind!Next

LEMMA UnbindInvariance == ASSUME MaxFailures \in Nat PROVE Unbind!Spec => []UnbindInv
<1>1. Unbind!Init => UnbindInv  BY InitUnbindInv
<1>2. UnbindInv /\ [Unbind!Next]_(Unbind!vars) => UnbindInv'  BY NextUnbindInv
<1> QED  BY <1>1, <1>2, PTL DEF Unbind!Spec

\* One failure does not leave the device without a driver, or with another driver's
\* override: wherever in the script it strikes, the script's repair or the rollback starts
\* from a state it can mend, and has no failure left to meet.
THEOREM AtomicUnbind == ASSUME MaxFailures \in Nat PROVE Spec => []UnbindIsAtomic
<1>1. UnbindInv => UnbindIsAtomic
  <2> SUFFICES ASSUME UnbindInv PROVE UnbindIsAtomic
    OBVIOUS
  <2>1. ASSUME Unbind!Quiet, Unbind!AtMostOneFailure
        PROVE  /\ phase \in {"unbound", "error"} => driver # "none"
               /\ override \in {"none", driver}
    <3>1. scripts["unbind"] = "none" /\ scripts["rollback"] = "none"
      BY <2>1 DEF Unbind!Quiet, UnbindInv, Unbind!TypeOK
    <3> QED
      BY <2>1, <3>1 DEF UnbindInv, Unbind!TypeOK, InScript, OneScriptAtATime,
             BetweenScripts
  <2> QED  BY <2>1 DEF UnbindIsAtomic, Unbind!UnbindIsAtomic
<1> QED  BY <1>1, UnbindInvariance, PartsBehave, PTL

-----------------------------------------------------------------------------
(* Device indices *)

\* The indices can be counted, and the ones the model names are among them.
IndexLimits ==
  /\ Base \in Nat \ {0} /\ MaxIndex \in Nat /\ MaxIndex >= 3
  /\ MaxMoves \in Nat
  /\ None \notin Subnets /\ Other \notin Subnets /\ None # Other

\* NextAvailable and MinOf find what they look for.
LEMMA Least ==
  ASSUME NEW S \in SUBSET Nat, S # {}
  PROVE  \E k \in S : \A j \in S : k <= j
<1> DEFINE R == OpToRel(<, Nat)
<1>1. \A x, y \in Nat : x < y => <<x, y>> \in R
  BY DEF OpToRel
<1>2. IsWellFoundedOn(R, Nat) /\ S \subseteq Nat
  BY NatLessThanWellFounded
<1> HIDE DEF R
<1>3. PICK k \in S : \A j \in S : <<j, k>> \notin R
  BY <1>2, WFMin, Zenon
<1>4. \A j \in S : ~(j < k)
  BY <1>1, <1>3
<1> QED  BY <1>3, <1>4

LEMMA NextIsAvailable ==
  ASSUME MaxIndex \in Nat, NEW start \in Nat, NEW used, Indices!IsAvailable(start, used)
  PROVE  Indices!NextAvailable(start, used) \in start..MaxIndex
<1> DEFINE S == {k \in start..MaxIndex : k \notin used}
<1>1. S \in SUBSET Nat /\ S # {}
  BY DEF Indices!IsAvailable
<1>2. PICK k \in S : \A j \in S : k <= j
  <2> HIDE DEF S
  <2> QED  BY <1>1, Least
<1>3. k \in start..MaxIndex /\ k \notin used /\ \A j \in start..(k - 1) : j \in used
  BY <1>2
<1> QED  BY <1>3 DEF Indices!NextAvailable

LEMMA MinIsMember ==
  ASSUME NEW S \in SUBSET Nat, S # {}
  PROVE  Indices!MinOf(S) \in S
<1>1. PICK k \in S : \A j \in S : k <= j
  BY Least
<1> QED  BY <1>1 DEF Indices!MinOf

LEMMA KnownTypes ==
  ASSUME IndexLimits, Indices!TypeOK
  PROVE  /\ Indices!KnownIndices \in [Subnets -> {0} \cup Indices!Indices]
         /\ Indices!AWSUsed \subseteq Indices!Indices
         /\ {a.index : a \in recorded} \subseteq Indices!Indices
         /\ {a.subnet : a \in recorded} \subseteq Subnets
<1>1. \A a \in recorded : a.index \in Indices!Indices /\ a.subnet \in Subnets
  BY DEF Indices!TypeOK, Indices!Attachments
<1>2. ASSUME NEW s \in Subnets
      PROVE  Indices!KnownIndices[s] \in {0} \cup Indices!Indices
  <2> DEFINE known == ({elsewhere[s]} \ {0})
                        \cup {a.index : a \in {b \in recorded : b.subnet = s}}
  <2>1. known \subseteq Indices!Indices
    BY <1>1 DEF Indices!TypeOK
  <2>2. known \in SUBSET Nat
    BY <2>1 DEF Indices!Indices, IndexLimits
  <2>3. Indices!KnownIndices[s] = IF known = {} THEN 0 ELSE Indices!MinOf(known)
    BY DEF Indices!KnownIndices
  <2> HIDE DEF known
  <2> QED  BY <2>1, <2>2, <2>3, MinIsMember
<1>3. Indices!KnownIndices = [s \in Subnets |-> Indices!KnownIndices[s]]
  BY DEF Indices!KnownIndices
<1> QED  BY <1>1, <1>2, <1>3 DEF Indices!AWSUsed

\* Where the round is: an index has been found for the subnet it tries, which the node had
\* no ENI in when the round began.
InRound ==
  /\ round.pos >= 1 /\ round.pos <= Len(subnetIDs) + 1
  /\ round.at \in {"attach", "retry"} =>
       /\ round.index \in Indices!Indices
       /\ round.pos <= Len(subnetIDs) /\ subnetIDs[round.pos] \notin round.existing

\* The slots of a subnet, the places it is listed at, and those the round has come past.
SlotsOf(s) == {k \in Indices!Indices : slots[k] = s}
ListedAt(s) == {i \in DOMAIN subnetIDs : subnetIDs[i] = s}
TriedAt(s) == {i \in ListedAt(s) : i < round.pos}

\* In a subnet that had no ENI when the round began there are as many ENIs as the round has
\* tried, at the most.
Counted ==
  \A s \in Subnets :
    /\ Cardinality(SlotsOf(s)) <= Cardinality(ListedAt(s))
    /\ round.at # "idle" /\ s \notin round.existing =>
         Cardinality(SlotsOf(s)) <= Cardinality(TriedAt(s))

IndexInv == Indices!TypeOK /\ InRound /\ RecordedWhereAttached /\ Counted

\* The places a subnet is listed at are finitely many, and the round only comes past more.
LEMMA ListedFinite ==
  ASSUME subnetIDs \in Seq(Subnets), NEW s
  PROVE  /\ IsFiniteSet(ListedAt(s)) /\ IsFiniteSet(TriedAt(s))
         /\ Cardinality(ListedAt(s)) \in Nat /\ Cardinality(TriedAt(s)) \in Nat
         /\ Cardinality(TriedAt(s)) <= Cardinality(ListedAt(s))
<1>1. IsFiniteSet(1..Len(subnetIDs)) /\ ListedAt(s) \subseteq 1..Len(subnetIDs)
  BY FS_Interval DEF ListedAt
<1>2. IsFiniteSet(ListedAt(s))
  BY <1>1, FS_Subset
<1>3. TriedAt(s) \subseteq ListedAt(s)
  BY DEF TriedAt
<1> QED  BY <1>2, <1>3, FS_Subset, FS_CardinalityType

LEMMA InitIndexInv == ASSUME IndexLimits, Indices!Init PROVE IndexInv
<1>1. \A ids \in Seq(Subnets), s \in Subnets :
        ids \in Seq(Subnets) /\ Indices!AllSubnetIDs(ids, s) \in Seq(Subnets)
  BY DEF Indices!AllSubnetIDs
<1>2. \A n \in 0..2 : Indices!TupleOf(Subnets, n) \subseteq Seq(Subnets)
  BY DEF Indices!TupleOf
<1>3. subnetIDs \in Seq(Subnets) /\ subnetIDs # <<>>
  BY <1>1, <1>2 DEF Indices!Init
<1>4. /\ slots \in [Indices!Indices -> {None, Other}]
      /\ recorded = {} /\ round = Indices!NoRound
  BY DEF Indices!Init
<1>5. Indices!NoRound \in Indices!Rounds
  BY DEF Indices!NoRound, Indices!Rounds, IndexLimits
<1>6. Indices!TypeOK
  BY <1>3, <1>4, <1>5 DEF Indices!Init, Indices!TypeOK, IndexLimits, Indices!Indices
<1>7. InRound
  BY <1>3, <1>4 DEF InRound, Indices!NoRound
<1>8. \A s \in Subnets : SlotsOf(s) = {}
  BY <1>4 DEF SlotsOf, IndexLimits
<1>9. RecordedWhereAttached
  BY <1>4 DEF RecordedWhereAttached, Indices!RecordedWhereAttached, IndexLimits
<1>10. Counted
  <2>1. \A s \in Subnets : Cardinality(SlotsOf(s)) = 0 /\ Cardinality(ListedAt(s)) \in Nat
    BY <1>3, <1>8, ListedFinite, FS_EmptySet
  <2>2. round.at = "idle"
    BY <1>4 DEF Indices!NoRound
  <2> QED  BY <2>1, <2>2 DEF Counted
<1> QED  BY <1>6, <1>7, <1>9, <1>10 DEF IndexInv

LEMMA SlotsFinite ==
  ASSUME IndexLimits, NEW s
  PROVE  IsFiniteSet(SlotsOf(s)) /\ Cardinality(SlotsOf(s)) \in Nat
<1>1. IsFiniteSet(Indices!Indices)
  BY FS_Interval DEF Indices!Indices, IndexLimits
<1>2. SlotsOf(s) \subseteq Indices!Indices
  BY DEF SlotsOf
<1> QED  BY <1>1, <1>2, FS_Subset, FS_CardinalityType

\* A round that goes on, over the same slots, counts as before.
LEMMA GoesOn ==
  ASSUME IndexLimits, Indices!TypeOK, Counted, round.at # "idle",
         UNCHANGED <<subnetIDs, slots, recorded>>,
         round'.pos \in Nat, round'.pos >= round.pos, round'.existing = round.existing
  PROVE  Counted' /\ (RecordedWhereAttached => RecordedWhereAttached')
<1>1. \A s : ListedAt(s)' = ListedAt(s) /\ SlotsOf(s)' = SlotsOf(s)
  BY DEF ListedAt, SlotsOf
<1>2. ASSUME NEW s \in Subnets, s \notin round.existing
      PROVE  Cardinality(SlotsOf(s)') <= Cardinality(TriedAt(s)')
  <2>1. TriedAt(s) \subseteq TriedAt(s)' /\ TriedAt(s)' \subseteq ListedAt(s)
    BY <1>1 DEF TriedAt, Indices!TypeOK, Indices!Rounds, ListedAt
  <2>2. IsFiniteSet(TriedAt(s)') /\ Cardinality(TriedAt(s)) \in Nat
        /\ Cardinality(TriedAt(s)') \in Nat
    BY <2>1, ListedFinite, FS_Subset, FS_CardinalityType DEF Indices!TypeOK
  <2>3. Cardinality(TriedAt(s)) <= Cardinality(TriedAt(s)')
    BY <2>1, <2>2, FS_Subset
  <2>4. Cardinality(SlotsOf(s)) <= Cardinality(TriedAt(s)) /\ Cardinality(SlotsOf(s)) \in Nat
    BY <1>2, SlotsFinite DEF Counted
  <2> QED  BY <1>1, <2>2, <2>3, <2>4
<1>3. Counted'
  BY <1>1, <1>2 DEF Counted
<1> QED  BY <1>3 DEF RecordedWhereAttached, Indices!RecordedWhereAttached

\* A round's variables after an update of some of them.
LEMMA MovedOn ==
  ASSUME NEW r \in Indices!Rounds
  PROVE  LET u == [r EXCEPT !.at = "loop", !.pos = r.pos + 1]
         IN /\ u \in Indices!Rounds /\ u.at = "loop" /\ u.pos = r.pos + 1
            /\ u.existing = r.existing
<1> DEFINE pos == r.pos + 1
<1>1. pos \in Nat
  BY DEF Indices!Rounds
<1> HIDE DEF pos
<1>2. LET u == [r EXCEPT !.at = "loop", !.pos = pos]
      IN u \in Indices!Rounds /\ u.at = "loop" /\ u.pos = pos /\ u.existing = r.existing
  BY <1>1 DEF Indices!Rounds
<1> QED  BY <1>2 DEF pos

LEMMA MovedTo ==
  ASSUME NEW r \in Indices!Rounds
  PROVE  LET u == [r EXCEPT !.at = "attach"]
         IN /\ u \in Indices!Rounds /\ u.at = "attach" /\ u.pos = r.pos
            /\ u.existing = r.existing /\ u.index = r.index
  BY DEF Indices!Rounds

LEMMA NextSubnetTypes ==
  ASSUME round \in Indices!Rounds
  PROVE  /\ Indices!NextSubnet \in Indices!Rounds
         /\ Indices!NextSubnet.at = "loop" /\ Indices!NextSubnet.pos = round.pos + 1
         /\ Indices!NextSubnet.existing = round.existing
  BY MovedOn DEF Indices!NextSubnet

LEMMA DeterminedTypes ==
  ASSUME IndexLimits, IndexInv, NEW s \in Subnets, Indices!Missing(s)
  PROVE  /\ Indices!Determined(s) \in Indices!Rounds
         /\ Indices!Determined(s).pos = round.pos
         /\ Indices!Determined(s).existing = round.existing
         /\ Indices!Determined(s).index \in Indices!Indices
<1> DEFINE wanted == Indices!Wanted(s)
           k == Indices!NextAvailable(wanted, round.used)
           mapping == [round.mapping EXCEPT ![s] = wanted]
<1>1. round \in Indices!Rounds /\ round.pos >= 1
  BY DEF IndexInv, Indices!TypeOK, InRound
<1>2. wanted \in Nat \ {0}
  BY <1>1 DEF Indices!Wanted, Indices!Rounds, IndexLimits, Indices!Indices
<1>3. k \in wanted..MaxIndex
  BY <1>2, NextIsAvailable DEF Indices!Missing, IndexLimits
<1>4. wanted \in Indices!Indices /\ k \in Indices!Indices
  BY <1>2, <1>3 DEF Indices!Indices, IndexLimits
<1>5. Indices!Determined(s) =
        [round EXCEPT !.mapping[s] = wanted, !.asked = k, !.index = k]
  BY DEF Indices!Determined
<1> HIDE DEF wanted, k
<1>6. mapping \in [Subnets -> {0} \cup Indices!Indices]
  BY <1>1, <1>4 DEF Indices!Rounds
<1>7. Indices!Determined(s) =
        [round EXCEPT !.mapping = mapping, !.asked = k, !.index = k]
  BY <1>1, <1>5 DEF Indices!Rounds
<1> HIDE DEF mapping
<1> QED  BY <1>1, <1>4, <1>6, <1>7 DEF Indices!Rounds

LEMMA StartRoundStep ==
  ASSUME IndexLimits, IndexInv, NEW answered \in BOOLEAN, Indices!StartRound(answered)
  PROVE  IndexInv'
<1> USE DEF IndexInv, Indices!StartRound, Indices!Others
<1>1. /\ Indices!TypeOK
      /\ UNCHANGED <<subnetIDs, elsewhere, full, moves, slots, attaching, recorded>>
  OBVIOUS
<1>2. {a.index : a \in recorded} \cup (IF answered THEN Indices!AWSUsed ELSE {})
        \in SUBSET Indices!Indices
  BY <1>1, KnownTypes
<1>3. /\ round' \in Indices!Rounds
      /\ round'.at = "loop" /\ round'.pos = 1
      /\ round'.existing = {a.subnet : a \in recorded}
  BY <1>1, <1>2, KnownTypes DEF Indices!NoRound, Indices!Rounds
<1>4. Indices!TypeOK'
  BY <1>1, <1>3 DEF Indices!TypeOK
<1>5. InRound'
  BY <1>1, <1>3 DEF InRound, Indices!TypeOK
<1>6. RecordedWhereAttached'
  BY <1>1 DEF RecordedWhereAttached, Indices!RecordedWhereAttached
<1>7. \A s \in Subnets : s \notin round'.existing => SlotsOf(s)' = {}
  <2>1. ASSUME NEW s \in Subnets, NEW k \in Indices!Indices, slots[k] = s
        PROVE  s \in {a.subnet : a \in recorded}
    <3>1. [subnet |-> slots[k], index |-> k] \in recorded
      BY <2>1 DEF RecordedWhereAttached, Indices!RecordedWhereAttached
    <3> QED  BY <2>1, <3>1
  <2> QED  BY <1>1, <1>3, <2>1 DEF SlotsOf
<1>8. Counted'
  <2>1. \A s : ListedAt(s)' = ListedAt(s) /\ SlotsOf(s)' = SlotsOf(s)
    BY <1>1 DEF ListedAt, SlotsOf
  <2>2. \A s : TriedAt(s)' \subseteq ListedAt(s)
    BY <2>1 DEF TriedAt
  <2>3. \A s : Cardinality(TriedAt(s)') \in Nat
    BY <1>1, <2>2, ListedFinite, FS_Subset, FS_CardinalityType DEF Indices!TypeOK
  <2> QED  BY <1>7, <2>1, <2>3, FS_EmptySet DEF Counted
<1> QED  BY <1>4, <1>5, <1>6, <1>8

\* The steps of a round that attach nothing.
LEMMA RoundStep ==
  ASSUME IndexLimits, IndexInv,
         \/ Indices!SkipSubnet \/ Indices!DeviceIndexConflict \/ Indices!AttachFails
         \/ \E s \in Subnets : Indices!CreateENI(s) \/ Indices!CreateFails(s)
  PROVE  IndexInv'
<1>1. /\ Indices!TypeOK /\ InRound /\ round \in Indices!Rounds
      /\ round.pos \in Nat /\ round.existing \subseteq Subnets
  BY DEF IndexInv, Indices!TypeOK, Indices!Rounds
<1>2. UNCHANGED <<subnetIDs, elsewhere, full, moves, slots, attaching, recorded>>
  BY DEF Indices!SkipSubnet, Indices!DeviceIndexConflict, Indices!AttachFails,
         Indices!CreateENI, Indices!CreateFails, Indices!Others
<1> DEFINE Onward ==
      /\ round.at # "idle" /\ round' \in Indices!Rounds /\ round'.at # "idle"
      /\ round'.pos \in Nat /\ round'.pos >= round.pos /\ round'.existing = round.existing
      /\ InRound'
<1>3. Onward
  <2> USE DEF InRound
  <2>1. CASE Indices!SkipSubnet
    BY <1>1, <1>2, <2>1, NextSubnetTypes DEF Indices!SkipSubnet
  <2>2. CASE Indices!AttachFails
    BY <1>1, <1>2, <2>2, NextSubnetTypes DEF Indices!AttachFails
  <2>3. CASE Indices!DeviceIndexConflict
    <3> DEFINE retry == Indices!NextAvailable(round.index, Indices!AWSUsed)
    <3>1. round' = [round EXCEPT !.at = "retry", !.index = retry]
          /\ round.at = "attach"
      BY <2>3 DEF Indices!DeviceIndexConflict
    <3>2. retry \in Indices!Indices
      BY <1>1, <2>3, <3>1, NextIsAvailable
      DEF Indices!DeviceIndexConflict, Indices!Indices, IndexLimits
    <3>3. retry # round.index /\ round.at # "idle"
      BY <2>3, <3>1 DEF Indices!DeviceIndexConflict
    <3> HIDE DEF retry
    <3>4. /\ round' \in Indices!Rounds /\ round'.at = "retry" /\ round'.pos = round.pos
          /\ round'.index = retry /\ round'.existing = round.existing
      BY <1>1, <3>1, <3>2 DEF Indices!Rounds
    <3> QED  BY <1>1, <1>2, <3>2, <3>3, <3>1, <3>4
  <2>4. ASSUME NEW s \in Subnets, Indices!CreateENI(s) \/ Indices!CreateFails(s)
        PROVE  Onward
    <3>1. Indices!Missing(s)
      BY <2>4 DEF Indices!CreateENI, Indices!CreateFails
    <3> DEFINE found == Indices!Determined(s)
    <3>2. /\ found \in Indices!Rounds /\ found.pos = round.pos
          /\ found.existing = round.existing /\ found.index \in Indices!Indices
      BY <3>1, DeterminedTypes
    <3>3. /\ round.at = "loop" /\ round.pos <= Len(subnetIDs)
          /\ subnetIDs[round.pos] \notin round.existing
      BY <3>1 DEF Indices!Missing
    <3>4. \/ round' = [found EXCEPT !.at = "attach"]
          \/ round' = [found EXCEPT !.at = "loop", !.pos = found.pos + 1]
      BY <2>4 DEF Indices!CreateENI, Indices!CreateFails
    <3> HIDE DEF found
    <3>5. CASE round' = [found EXCEPT !.at = "attach"]
      BY <1>1, <1>2, <3>2, <3>3, <3>5, MovedTo
    <3>6. CASE round' = [found EXCEPT !.at = "loop", !.pos = found.pos + 1]
      <4>1. /\ round' \in Indices!Rounds /\ round'.at = "loop"
            /\ round'.pos = found.pos + 1 /\ round'.existing = found.existing
        BY <3>2, <3>6, MovedOn
      <4> QED  BY <1>1, <1>2, <3>2, <3>3, <4>1
    <3> QED  BY <3>4, <3>5, <3>6
  <2> QED  BY <2>1, <2>2, <2>3, <2>4
<1>4. Indices!TypeOK'
  BY <1>1, <1>2, <1>3 DEF Indices!TypeOK
<1> QED  BY <1>1, <1>2, <1>3, <1>4, GoesOn DEF IndexInv

\* The attached ENI takes a slot that had none, and the place in the list the round is at.
LEMMA AttachStep ==
  ASSUME IndexLimits, IndexInv, NEW s \in Subnets, Indices!AttachENI(s)
  PROVE  IndexInv'
<1> DEFINE n == round.index
<1>1. /\ Indices!TypeOK /\ InRound /\ round \in Indices!Rounds
      /\ round.pos \in Nat /\ round.pos >= 1 /\ round.pos <= Len(subnetIDs)
      /\ subnetIDs \in Seq(Subnets) /\ recorded \subseteq Indices!Attachments
      /\ slots \in [Indices!Indices -> Subnets \cup {None, Other}]
      /\ n \in Indices!Indices /\ slots[n] = None
      /\ s = subnetIDs[round.pos] /\ s \notin round.existing /\ round.at # "idle"
  BY DEF IndexInv, Indices!TypeOK, Indices!Rounds, Indices!AttachENI, InRound
<1>2. /\ UNCHANGED <<subnetIDs, elsewhere, full, moves>>
      /\ slots' = [slots EXCEPT ![n] = s]
      /\ attaching' = attaching \cup {n}
      /\ recorded' = recorded \cup {[subnet |-> s, index |-> n]}
      /\ round' = Indices!NextSubnet
  BY DEF Indices!AttachENI, Indices!Others
<1>3. /\ round' \in Indices!Rounds /\ round'.at = "loop" /\ round'.pos = round.pos + 1
      /\ round'.existing = round.existing
  BY <1>1, <1>2, NextSubnetTypes
<1> HIDE DEF n
<1>4. /\ slots' \in [Indices!Indices -> Subnets \cup {None, Other}]
      /\ slots'[n] = s /\ \A k \in Indices!Indices : k # n => slots'[k] = slots[k]
  BY <1>1, <1>2
<1>5. Indices!TypeOK'
  <2>1. attaching' \subseteq {k \in Indices!Indices : slots'[k] # None}
    BY <1>1, <1>2, <1>4 DEF Indices!TypeOK, IndexLimits
  <2>2. [subnet |-> s, index |-> n] \in Indices!Attachments
    BY <1>1 DEF Indices!Attachments
  <2> QED  BY <1>1, <1>2, <1>3, <1>4, <2>1, <2>2 DEF Indices!TypeOK
<1>6. InRound'
  BY <1>1, <1>2, <1>3 DEF InRound
<1>7. RecordedWhereAttached'
  <2>1. {j \in Indices!Indices : slots'[j] \in Subnets}
          = {j \in Indices!Indices : slots[j] \in Subnets} \cup {n}
    BY <1>1, <1>4
  <2>2. recorded = {[subnet |-> slots[k], index |-> k] :
                      k \in {j \in Indices!Indices : slots[j] \in Subnets}}
    BY DEF IndexInv, RecordedWhereAttached, Indices!RecordedWhereAttached
  <2>3. n \notin {j \in Indices!Indices : slots[j] \in Subnets}
    BY <1>1 DEF IndexLimits
  <2>4. recorded' = {[subnet |-> slots'[k], index |-> k] :
                       k \in {j \in Indices!Indices : slots'[j] \in Subnets}}
    BY <1>2, <1>4, <2>1, <2>2, <2>3
  <2> QED  BY <2>4 DEF RecordedWhereAttached, Indices!RecordedWhereAttached
<1>8. Counted'
  <2>1. ASSUME NEW t \in Subnets
        PROVE  /\ Cardinality(SlotsOf(t)') <= Cardinality(ListedAt(t)')
               /\ t \notin round.existing =>
                    Cardinality(SlotsOf(t)') <= Cardinality(TriedAt(t)')
    <3>1. ListedAt(t)' = ListedAt(t) /\ TriedAt(t)' \subseteq ListedAt(t)
      BY <1>2 DEF ListedAt, TriedAt
    <3>2. /\ IsFiniteSet(ListedAt(t)) /\ IsFiniteSet(TriedAt(t)) /\ IsFiniteSet(TriedAt(t)')
          /\ Cardinality(ListedAt(t)) \in Nat /\ Cardinality(TriedAt(t)) \in Nat
          /\ Cardinality(TriedAt(t)') \in Nat
          /\ Cardinality(TriedAt(t)') <= Cardinality(ListedAt(t))
      BY <1>1, <3>1, ListedFinite, FS_Subset, FS_CardinalityType
    <3>3. /\ Cardinality(SlotsOf(t)) <= Cardinality(ListedAt(t))
          /\ t \notin round.existing => Cardinality(SlotsOf(t)) <= Cardinality(TriedAt(t))
          /\ IsFiniteSet(SlotsOf(t)) /\ Cardinality(SlotsOf(t)) \in Nat
      BY <1>1, SlotsFinite DEF IndexInv, Counted
    <3>4. CASE t # s
      <4>1. SlotsOf(t)' = SlotsOf(t)
        BY <1>1, <1>4, <3>4 DEF SlotsOf, IndexLimits
      <4>2. TriedAt(t) \subseteq TriedAt(t)'
        BY <1>1, <1>3, <3>1 DEF TriedAt, ListedAt
      <4>3. Cardinality(TriedAt(t)) <= Cardinality(TriedAt(t)')
        BY <3>2, <4>2, FS_Subset
      <4> QED  BY <3>1, <3>2, <3>3, <4>1, <4>3
    <3>5. CASE t = s
      <4>1. SlotsOf(t)' = SlotsOf(t) \cup {n} /\ n \notin SlotsOf(t)
        BY <1>1, <1>4, <3>5 DEF SlotsOf, IndexLimits
      <4>2. TriedAt(t) \cup {round.pos} \subseteq TriedAt(t)' /\ round.pos \notin TriedAt(t)
        BY <1>1, <1>3, <3>1, <3>5 DEF TriedAt, ListedAt
      <4>3. Cardinality(SlotsOf(t)') = Cardinality(SlotsOf(t)) + 1
        BY <3>3, <4>1, FS_AddElement
      <4>4. Cardinality(TriedAt(t) \cup {round.pos}) = Cardinality(TriedAt(t)) + 1
        BY <3>2, <4>2, FS_AddElement
      <4>5. Cardinality(TriedAt(t)) + 1 <= Cardinality(TriedAt(t)')
        <5> DEFINE tried == TriedAt(t) \cup {round.pos}
                   after == TriedAt(t)'
        <5>1. tried \subseteq after /\ IsFiniteSet(after) /\ Cardinality(after) \in Nat
          BY <3>2, <4>2
        <5>2. Cardinality(tried) <= Cardinality(after)
          <6> HIDE DEF tried, after
          <6> QED  BY <5>1, FS_Subset
        <5> QED  BY <4>4, <5>2
      <4> QED  BY <1>1, <3>1, <3>2, <3>3, <3>5, <4>3, <4>5
    <3> QED  BY <3>4, <3>5
  <2> QED  BY <1>3, <2>1 DEF Counted
<1> QED  BY <1>5, <1>6, <1>7, <1>8 DEF IndexInv

\* A round that ends, and what happens on the instance, leave the ENIs' slots alone.
LEMMA SlotsStay ==
  ASSUME IndexLimits, IndexInv, UNCHANGED <<subnetIDs, recorded>>,
         round' = round \/ round'.at = "idle",
         slots' \in [Indices!Indices -> Subnets \cup {None, Other}],
         \A k \in Indices!Indices :
           slots'[k] = slots[k] \/ (slots[k] \notin Subnets /\ slots'[k] \notin Subnets)
  PROVE  RecordedWhereAttached' /\ Counted'
<1>1. {j \in Indices!Indices : slots'[j] \in Subnets}
        = {j \in Indices!Indices : slots[j] \in Subnets}
  OBVIOUS
<1>2. RecordedWhereAttached'
  BY <1>1 DEF IndexInv, RecordedWhereAttached, Indices!RecordedWhereAttached
<1>3. \A t \in Subnets : SlotsOf(t)' = SlotsOf(t) /\ ListedAt(t)' = ListedAt(t)
  BY DEF SlotsOf, ListedAt
<1>4. round' = round => \A t \in Subnets : TriedAt(t)' = TriedAt(t)
  BY <1>3 DEF TriedAt
<1>5. Counted'
  BY <1>3, <1>4 DEF IndexInv, Counted
<1> QED  BY <1>2, <1>5

LEMMA InstanceStep ==
  ASSUME IndexLimits, IndexInv,
         \/ Indices!EndRound \/ Indices!Move \/ UNCHANGED Indices!vars
         \/ \E k \in Indices!Indices : Indices!Settle(k)
  PROVE  IndexInv'
<1>1. Indices!TypeOK /\ InRound
  BY DEF IndexInv
<1>2. Indices!NoRound \in Indices!Rounds
  BY DEF Indices!NoRound, Indices!Rounds, IndexLimits
<1>3. CASE Indices!EndRound
  <2>1. /\ UNCHANGED <<subnetIDs, elsewhere, full, moves, slots, attaching, recorded>>
        /\ round' = Indices!NoRound
    BY <1>3 DEF Indices!EndRound, Indices!Others
  <2>2. round'.at = "idle" /\ round'.pos = 1
    BY <2>1 DEF Indices!NoRound
  <2>3. Indices!TypeOK' /\ InRound'
    BY <1>1, <1>2, <2>1, <2>2 DEF Indices!TypeOK, InRound
  <2>4. RecordedWhereAttached' /\ Counted'
    BY <1>1, <2>1, <2>2, SlotsStay DEF Indices!TypeOK
  <2> QED  BY <2>3, <2>4 DEF IndexInv
<1>4. CASE Indices!Move
  <2>1. PICK k \in 1..3 :
          \/ /\ slots[k] = None
             /\ slots' = [slots EXCEPT ![k] = Other] /\ attaching' = attaching \cup {k}
          \/ /\ slots[k] = Other
             /\ slots' = [slots EXCEPT ![k] = None] /\ attaching' = attaching \ {k}
    BY <1>4 DEF Indices!Move
  <2>2. k \in Indices!Indices
    BY DEF Indices!Indices, IndexLimits
  <2>3. /\ UNCHANGED <<subnetIDs, elsewhere, full, recorded, round>>
        /\ moves < MaxMoves /\ moves' = moves + 1
    BY <1>4 DEF Indices!Move
  <2>4. /\ slots' \in [Indices!Indices -> Subnets \cup {None, Other}]
        /\ \A j \in Indices!Indices :
             slots'[j] = slots[j] \/ (slots[j] \notin Subnets /\ slots'[j] \notin Subnets)
        /\ attaching' \subseteq {j \in Indices!Indices : slots'[j] # None}
    BY <1>1, <2>1, <2>2 DEF Indices!TypeOK, IndexLimits
  <2>5. moves' \in 0..MaxMoves
    BY <1>1, <2>3 DEF Indices!TypeOK, IndexLimits
  <2>6. Indices!TypeOK' /\ InRound'
    BY <1>1, <2>3, <2>4, <2>5 DEF Indices!TypeOK, InRound
  <2> QED  BY <2>3, <2>4, <2>6, SlotsStay DEF IndexInv
<1>5. CASE UNCHANGED Indices!vars \/ \E k \in Indices!Indices : Indices!Settle(k)
  <2>1. /\ UNCHANGED <<subnetIDs, elsewhere, full, moves, slots, recorded, round>>
        /\ attaching' \subseteq attaching
    BY <1>5 DEF Indices!vars, Indices!Settle, Indices!Others
  <2>2. Indices!TypeOK' /\ InRound'
    BY <1>1, <2>1 DEF Indices!TypeOK, InRound
  <2> QED  BY <1>1, <2>1, <2>2, SlotsStay DEF IndexInv, Indices!TypeOK
<1> QED  BY <1>3, <1>4, <1>5

LEMMA NextIndexInv ==
  ASSUME IndexLimits, IndexInv, [Indices!Next]_(Indices!vars)
  PROVE  IndexInv'
<1>1. CASE \E answered \in BOOLEAN : Indices!StartRound(answered)
  BY <1>1, StartRoundStep
<1>2. CASE \/ Indices!SkipSubnet \/ Indices!DeviceIndexConflict \/ Indices!AttachFails
           \/ \E s \in Subnets : Indices!CreateENI(s) \/ Indices!CreateFails(s)
  BY <1>2, RoundStep
<1>3. CASE \E s \in Subnets : Indices!AttachENI(s)
  BY <1>3, AttachStep
<1>4. CASE \/ Indices!EndRound \/ Indices!Move \/ UNCHANGED Indices!vars
           \/ \E k \in Indices!Indices : Indices!Settle(k)
  BY <1>4, InstanceStep
<1> QED  BY <1>1, <1>2, <1>3, <1>4, Zenon DEF Indices!Next

LEMMA IndexInvariance == ASSUME IndexLimits PROVE Indices!Spec => []IndexInv
<1>1. Indices!Init => IndexInv  BY InitIndexInv
<1>2. IndexInv /\ [Indices!Next]_(Indices!vars) => IndexInv'  BY NextIndexInv
<1> QED  BY <1>1, <1>2, PTL DEF Indices!Spec

\* The status tells at which index each of the node's ENIs is attached, whatever conflicts
\* the attachments met and however others changed the instance's devices.
THEOREM RecordedIndices == ASSUME IndexLimits PROVE Spec => []RecordedWhereAttached
<1>1. IndexInv => RecordedWhereAttached  BY DEF IndexInv
<1> QED  BY <1>1, IndexInvariance, PartsBehave, PTL

\* However often a subnet is tried, over all rounds, it has no more ENIs on the node than
\* times it is listed.
THEOREM AsManyAsListed == ASSUME IndexLimits PROVE Spec => []NoMoreThanListed
<1>1. \A S : Indices!Cardinality(S) = Cardinality(S)
  BY DEF Indices!Cardinality, Cardinality
<1>2. IndexInv => NoMoreThanListed
  BY <1>1 DEF IndexInv, Counted, SlotsOf, ListedAt, NoMoreThanListed, Indices!NoMoreThanListed
<1> QED  BY <1>2, IndexInvariance, PartsBehave, PTL

=============================================================================
