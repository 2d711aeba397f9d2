-------------------------- MODULE NodeAgent_proofs --------------------------
(***************************************************************************)
(* What the device plugin's file can hold while passes overlap in any way, *)
(* for any number of passes and NodeENIs.                                  *)
(***************************************************************************)
EXTENDS NodeAgent, TLAPS

\* The steps by what they do to the file and to the configurations in hand: most leave them
\* alone; a load makes a new configuration, which a save opens the file for and fills in.
Leaves == UNCHANGED <<file, config>>

Made(p, c) ==
  \/ \E n \in NodeENIs \cup {Gone(p)} : c = WithoutDevice(LoadOrCreateConfig, n)
  \/ /\ pc[p] = "loadDPDK"
     /\ c = WithUpdates(LoadOrCreateConfig, ResourceName, "vfio-pci", updates[p])
  \/ c = WithUpdates(LoadOrCreateConfig, SRIOVResource, "ena", updates[p])
  \/ c = {Placeholder}

Loads(p) ==
  UNCHANGED file /\ \E c : Made(p, c) /\ config' = [config EXCEPT ![p] = c]

Opens == UNCHANGED config /\ file' = Torn

Saves(p) ==
  config' = [config EXCEPT ![p] = {}] /\ file' \in {file, Torn, config[p]}

LEMMA LoadAndChangeOnFile ==
  ASSUME NEW p, NEW c, NEW save, NEW unchanged, NEW failed,
         LoadAndChange(p, c, save, unchanged, failed)
  PROVE  Leaves \/ (UNCHANGED file /\ config' = [config EXCEPT ![p] = c])
  BY DEF LoadAndChange, Leaves, CallFails, disk

LEMMA SaveOnFile ==
  ASSUME NEW p, Filled(p) \/ SaveFails(p), Forget(p)
  PROVE  Saves(p)
  BY DEF Filled, SaveFails, Forget, CallFails, Saves

LEMMA StepOnFile ==
  ASSUME NEW p \in Passes, Step(p)
  PROVE  Leaves \/ Loads(p) \/ Opens \/ Saves(p)
<1>1. CASE \/ ListNodeENIs(p) \/ handleNodeENIDeletions(p) \/ cleanupSRIOVConfigForNodeENI(p)
           \/ SetPrevious(p) \/ ProcessNodeENIBindings(p) \/ RecordDPDKStates(p)
           \/ CheckForUnbinding(p) \/ updateNodeENIStates(p)
  BY <1>1 DEF ListNodeENIs, handleNodeENIDeletions, cleanupSRIOVConfigForNodeENI,
              SetPrevious, ProcessNodeENIBindings, RecordDPDKStates, CheckForUnbinding,
              updateNodeENIStates, Leaves, disk
<1>2. CASE updateSRIOVConfiguration(p)
  BY <1>2 DEF updateSRIOVConfiguration, Leaves, disk, CallFails
<1>3. CASE DropBound(p) \/ DropTracked(p)
  <2>1. Leaves \/ LoadAndChange(p, WithoutDevice(LoadOrCreateConfig, Gone(p)),
                                "unpublishBound", "dropTracked", "dropTracked")
               \/ LoadAndChange(p, WithoutDevice(LoadOrCreateConfig, Gone(p)),
                                "unpublishTracked", "minimal", "minimal")
    BY <1>3 DEF DropBound, DropTracked, Leaves, disk
  <2>2. Made(p, WithoutDevice(LoadOrCreateConfig, Gone(p)))
    BY DEF Made
  <2> QED  BY <2>1, <2>2, LoadAndChangeOnFile DEF Loads
<1>4. CASE ensureMinimalSRIOVConfig(p)
  <2>1. Made(p, {Placeholder})
    BY DEF Made
  <2> QED  BY <1>4, <2>1 DEF ensureMinimalSRIOVConfig, Loads, Leaves, disk, CallFails
<1>5. CASE applyBatchedSRIOVUpdates(p) \/ LoadForUpdates(p)
  <2>1. \E c, save, unchanged, failed :
          Made(p, c) /\ LoadAndChange(p, c, save, unchanged, failed)
    BY <1>5 DEF applyBatchedSRIOVUpdates, LoadForUpdates, Made
  <2> QED  BY <2>1, LoadAndChangeOnFile DEF Loads
<1>6. CASE UnpublishBound(p) \/ UnpublishTracked(p) \/ SavePlaceholder(p)
           \/ PublishDPDKResources(p) \/ PublishResources(p)
  <2>1. (Filled(p) \/ SaveFails(p)) /\ Forget(p)
    BY <1>6 DEF UnpublishBound, UnpublishTracked, SavePlaceholder, PublishDPDKResources,
                PublishResources
  <2> QED  BY <2>1, SaveOnFile
<1>7. CASE OpenFile(p)
  BY <1>7 DEF OpenFile, Opens
<1> QED  BY <1>1, <1>2, <1>3, <1>4, <1>5, <1>6, <1>7 DEF Step

-----------------------------------------------------------------------------
(* Placeholders *)

Clean(c) == Real(c) # {} => {Minimal, Placeholder} \cap c = {}

\* Every configuration that is in hand is clean, and so is the one in the file.
AllClean ==
  /\ config = [p \in Passes |-> config[p]]
  /\ Clean(file)
  /\ \A p \in Passes : Clean(config[p])

LEMMA CleanConstants == Clean({}) /\ Clean(Torn) /\ Clean({Minimal}) /\ Clean({Placeholder})
  BY DEF Clean, Real, Torn, Minimal, Placeholder

LEMMA WithoutDeviceClean ==
  ASSUME NEW c, NEW n, Clean(c)
  PROVE  Clean(WithoutDevice(c, n))
  BY DEF Clean, Real, WithoutDevice

LEMMA WithUpdatesClean ==
  ASSUME NEW c, NEW resource, NEW driver, NEW S
  PROVE  Clean(WithUpdates(c, resource, driver, S))
<1>1. \A d : Clean(cleanupConfig(d))
  BY DEF Clean, Real, cleanupConfig, Minimal, Placeholder
<1> QED  BY <1>1 DEF WithUpdates

LEMMA MadeClean ==
  ASSUME AllClean, NEW p, NEW c, Made(p, c)
  PROVE  Clean(c)
<1>1. Clean(LoadOrCreateConfig)
  BY CleanConstants DEF AllClean, LoadOrCreateConfig
<1> QED  BY <1>1, CleanConstants, WithoutDeviceClean, WithUpdatesClean DEF Made

LEMMA AllCleanNext == ASSUME AllClean, [Next]_vars PROVE AllClean'
<1>1. ASSUME NEW p \in Passes, Step(p) PROVE AllClean'
  <2>1. CASE Leaves  BY <2>1 DEF Leaves, AllClean, Clean, Real
  <2>2. CASE Loads(p)
    <3>1. PICK c : Clean(c) /\ config' = [config EXCEPT ![p] = c]
      BY <2>2, MadeClean DEF Loads
    <3> QED  BY <2>2, <3>1 DEF Loads, AllClean, Clean, Real
  <2>3. CASE Opens
    BY <2>3, CleanConstants DEF Opens, AllClean, Clean, Real
  <2>4. CASE Saves(p)
    <3>1. Clean(file')
      BY <2>4, CleanConstants DEF Saves, AllClean
    <3>2. \A q \in Passes : config'[q] = {} \/ config'[q] = config[q]
      BY <2>4 DEF Saves, AllClean
    <3>3. config' = [q \in Passes |-> config'[q]]
      BY <2>4 DEF Saves, AllClean
    <3>4. \A q \in Passes : Clean(config'[q])
      BY <3>2, CleanConstants DEF AllClean
    <3> QED  BY <3>1, <3>3, <3>4 DEF AllClean, Clean, Real
  <2> QED  BY <1>1, <2>1, <2>2, <2>3, <2>4, StepOnFile
<1>2. ASSUME NEW n \in NodeENIs, Apply(n) \/ Delete(n) \/ InterfaceChanges(n) PROVE AllClean'
  BY <1>2 DEF Apply, Delete, InterfaceChanges, disk, AllClean, Clean, Real
<1>3. CASE Restart
  BY <1>3, CleanConstants DEF Restart, AllClean, Clean, Real
<1>4. CASE UNCHANGED vars
  BY <1>4 DEF vars, disk, AllClean, Clean, Real
<1> QED  BY <1>1, <1>2, <1>3, <1>4 DEF Next

\* No placeholder is left beside a real resource: whatever a pass overwrites, what it
\* writes is made from a clean configuration, or cleaned.
THEOREM NoPlaceholder == Spec => []NoPlaceholderBesideReal
<1>1. Init => AllClean
  BY CleanConstants DEF Init, AllClean
<1>2. AllClean => NoPlaceholderBesideReal
  BY DEF AllClean, Clean, NoPlaceholderBesideReal
<1>3. AllClean /\ [Next]_vars => AllClean'
  BY AllCleanNext
<1> QED  BY <1>1, <1>2, <1>3, PTL DEF Spec

-----------------------------------------------------------------------------
(* The file lists a resource *)

\* A pass that is about to add devices has some to add, and what it makes of them, or of an
\* empty file, is not empty.
HasResources ==
  \A p \in Passes :
    /\ updates[p] \subseteq NodeENIs
    /\ pc[p] \in {"loadDPDK", "load"} => updates[p] # {}
    /\ pc[p] \in {"publishDPDK", "publish", "placeholder"} => config[p] # {}

\* A pass that will still look for an empty file.
InRepair(p) == pc[p] \in {"dropTracked", "unpublishTracked", "minimal", "placeholder"}

Shaped ==
  /\ pc = [p \in Passes |-> pc[p]]
  /\ updates = [p \in Passes |-> updates[p]]
  /\ config = [p \in Passes |-> config[p]]

\* Where nothing but torn files has gone wrong, an empty file is about to be repaired, by
\* the pass that has emptied it.
Repaired ==
  /\ Shaped
  /\ HasResources
  /\ history \subseteq {"torn"} /\ file = {} => \E p \in Passes : InRepair(p)

\* A step changes what its own pass has in hand.
LEMMA Local ==
  ASSUME Shaped, NEW p \in Passes, Step(p)
  PROVE  /\ Shaped'
         /\ \A q \in Passes \ {p} :
              pc'[q] = pc[q] /\ updates'[q] = updates[q] /\ config'[q] = config[q]
<1> DEFINE Pc == pc' = pc \/ \E to : pc' = [pc EXCEPT ![p] = to]
           Updates == updates' = updates \/ \E S : updates' = [updates EXCEPT ![p] = S]
           Config == config' = config \/ \E c : config' = [config EXCEPT ![p] = c]
<1>1. Pc /\ Updates /\ Config
  <2> USE DEF Goto, Forget, Added
  <2>1. CASE \/ ListNodeENIs(p) \/ handleNodeENIDeletions(p) \/ cleanupSRIOVConfigForNodeENI(p)
             \/ RecordDPDKStates(p) \/ CheckForUnbinding(p)
    BY <2>1 DEF ListNodeENIs, handleNodeENIDeletions, cleanupSRIOVConfigForNodeENI,
                RecordDPDKStates, CheckForUnbinding
  <2>2. CASE SetPrevious(p) \/ updateNodeENIStates(p)
    BY <2>2 DEF SetPrevious, updateNodeENIStates, EndPass
  <2>3. CASE DropBound(p) \/ DropTracked(p)
    BY <2>3 DEF DropBound, DropTracked, LoadAndChange
  <2>4. CASE UnpublishBound(p) \/ UnpublishTracked(p)
    BY <2>4 DEF UnpublishBound, UnpublishTracked
  <2>5. CASE ensureMinimalSRIOVConfig(p) \/ SavePlaceholder(p)
    BY <2>5 DEF ensureMinimalSRIOVConfig, SavePlaceholder, CleanedUp
  <2>6. CASE ProcessNodeENIBindings(p)
    BY <2>6 DEF ProcessNodeENIBindings
  <2>7. CASE updateSRIOVConfiguration(p)
    BY <2>7 DEF updateSRIOVConfiguration, EndPass
  <2>8. CASE applyBatchedSRIOVUpdates(p) \/ LoadForUpdates(p)
    BY <2>8 DEF applyBatchedSRIOVUpdates, LoadForUpdates, LoadAndChange
  <2>9. CASE PublishDPDKResources(p) \/ PublishResources(p)
    BY <2>9 DEF PublishDPDKResources, PublishResources, EndPass
  <2>10. CASE OpenFile(p)
    BY <2>10 DEF OpenFile
  <2> QED  BY <2>1, <2>2, <2>3, <2>4, <2>5, <2>6, <2>7, <2>8, <2>9, <2>10 DEF Step
<1>2. pc' = [q \in Passes |-> pc'[q]] /\ \A q \in Passes \ {p} : pc'[q] = pc[q]
  BY <1>1 DEF Shaped
<1>3. updates' = [q \in Passes |-> updates'[q]]
      /\ \A q \in Passes \ {p} : updates'[q] = updates[q]
  BY <1>1 DEF Shaped
<1>4. config' = [q \in Passes |-> config'[q]] /\ \A q \in Passes \ {p} : config'[q] = config[q]
  BY <1>1 DEF Shaped
<1> QED  BY <1>2, <1>3, <1>4 DEF Shaped

LEMMA WithUpdatesNonempty ==
  ASSUME NEW c, NEW resource, NEW driver, NEW S \in SUBSET NodeENIs, S # {}
  PROVE  WithUpdates(c, resource, driver, S) # {}
<1> DEFINE new == {n \in S : n \notin DevicesOf(c, resource[n])}
           With(r) == {r} \X (DriversOf(c, r) \cup {driver})
                          \X (DevicesOf(c, r) \cup {n \in new : resource[n] = r})
           d == c \cup UNION {With(resource[n]) : n \in new}
<1>1. \E e \in d : e[3] \in NodeENIs
  <2>1. PICK n \in S : n \in NodeENIs  OBVIOUS
  <2>2. CASE n \in new
    <3>1. <<resource[n], driver, n>> \in With(resource[n])
      BY <2>2
    <3>2. With(resource[n]) \subseteq d
      BY <2>2
    <3> QED  BY <2>1, <3>1, <3>2
  <2>3. CASE n \notin new
    <3>1. n \in DevicesOf(c, resource[n])
      BY <2>3
    <3>2. PICK e \in c : e[3] = n
      BY <3>1 DEF DevicesOf
    <3> QED  BY <2>1, <3>2
  <2> QED  BY <2>2, <2>3
<1>2. Real(d) # {}
  BY <1>1, NoDeviceAssumption DEF Real
<1>3. WithUpdates(c, resource, driver, S) = cleanupConfig(d)
  BY DEF WithUpdates
<1> HIDE DEF d
<1> QED  BY <1>2, <1>3 DEF cleanupConfig

\* A pass that loads the file goes on to save what it has made of it, or somewhere else.
LEMMA LoadAndChangeOnPass ==
  ASSUME Shaped, NEW p \in Passes, NEW c, NEW save, NEW unchanged, NEW failed,
         LoadAndChange(p, c, save, unchanged, failed)
  PROVE  \/ pc'[p] = save /\ config'[p] = c /\ UNCHANGED <<file, history>>
         \/ pc'[p] = unchanged /\ UNCHANGED <<file, history>>
         \/ pc'[p] = failed /\ history' = {"failed"}
  BY DEF LoadAndChange, Goto, CallFails, Shaped, disk

LEMMA HasResourcesStep ==
  ASSUME Repaired, NEW p \in Passes, Step(p)
  PROVE  HasResources'
<1>1. Shaped /\ Shaped'
  BY Local DEF Repaired
<1>2. SUFFICES /\ updates'[p] \subseteq NodeENIs
               /\ pc'[p] \in {"loadDPDK", "load"} => updates'[p] # {}
               /\ pc'[p] \in {"publishDPDK", "publish", "placeholder"} => config'[p] # {}
  BY <1>1, Local DEF Repaired, HasResources
<1>3. updates[p] \in SUBSET NodeENIs
  BY DEF Repaired, HasResources
<1> USE DEF Goto, Added, Forget
<1>4. CASE \/ ListNodeENIs(p) \/ handleNodeENIDeletions(p) \/ cleanupSRIOVConfigForNodeENI(p)
           \/ RecordDPDKStates(p) \/ CheckForUnbinding(p) \/ UnpublishBound(p)
           \/ UnpublishTracked(p)
  BY <1>1, <1>3, <1>4 DEF ListNodeENIs, handleNodeENIDeletions, cleanupSRIOVConfigForNodeENI,
              RecordDPDKStates, CheckForUnbinding, UnpublishBound, UnpublishTracked, Shaped
<1>5. CASE SetPrevious(p) \/ updateNodeENIStates(p)
  BY <1>1, <1>3, <1>5 DEF SetPrevious, updateNodeENIStates, EndPass, Shaped
<1>6. CASE DropBound(p) \/ DropTracked(p)
  <2>1. pc'[p] \in {"unpublishBound", "unpublishTracked", "dropTracked", "minimal"}
    BY <1>1, <1>6, LoadAndChangeOnPass DEF DropBound, DropTracked, Shaped
  <2> QED  BY <1>3, <1>6, <2>1 DEF DropBound, DropTracked
<1>7. CASE ensureMinimalSRIOVConfig(p) \/ SavePlaceholder(p)
  BY <1>1, <1>3, <1>7 DEF ensureMinimalSRIOVConfig, SavePlaceholder, CleanedUp, Shaped
<1>8. CASE ProcessNodeENIBindings(p)
  <2>1. CASE pc' = [pc EXCEPT ![p] = "unbind"] /\ UNCHANGED updates
    BY <1>1, <1>3, <2>1 DEF Shaped
  <2>2. CASE \E attached, T : /\ T \in Collected(attached)
                              /\ updates' = [updates EXCEPT ![p] = T]
                              /\ Goto(p, IF T = {} THEN "recordDPDK" ELSE "loadDPDK")
    <3>1. \A attached : \A T \in Collected(attached) : T \subseteq NodeENIs
      BY DEF Collected, Named
    <3> QED  BY <1>1, <2>2, <3>1 DEF Shaped
  <2> QED  BY <1>8, <2>1, <2>2 DEF ProcessNodeENIBindings
<1>9. CASE updateSRIOVConfiguration(p)
  <2>1. Plain(list[p]) \cap interfaces \subseteq NodeENIs
    BY DEF Plain, Present
  <2> QED  BY <1>1, <1>3, <1>9, <2>1 DEF updateSRIOVConfiguration, EndPass, Shaped
<1>10. CASE applyBatchedSRIOVUpdates(p)
  <2>1. WithUpdates(LoadOrCreateConfig, ResourceName, "vfio-pci", updates[p]) # {}
    BY <1>3, <1>10, WithUpdatesNonempty DEF applyBatchedSRIOVUpdates, Repaired, HasResources
  <2>2. updates'[p] = {}
    BY <1>1, <1>10 DEF applyBatchedSRIOVUpdates, Shaped
  <2>3. (pc'[p] = "publishDPDK" /\ config'[p] # {}) \/ pc'[p] \in {"recordDPDK", "unbind"}
    BY <1>1, <1>10, <2>1, LoadAndChangeOnPass DEF applyBatchedSRIOVUpdates
  <2> QED  BY <2>2, <2>3
<1>11. CASE LoadForUpdates(p)
  <2>1. WithUpdates(LoadOrCreateConfig, SRIOVResource, "ena", updates[p]) # {}
    BY <1>3, <1>11, WithUpdatesNonempty DEF LoadForUpdates, Repaired, HasResources
  <2>2. updates'[p] = {}
    BY <1>1, <1>11 DEF LoadForUpdates, Shaped
  <2>3. (pc'[p] = "publish" /\ config'[p] # {}) \/ pc'[p] \in {"record", "idle"}
    BY <1>1, <1>11, <2>1, LoadAndChangeOnPass DEF LoadForUpdates
  <2> QED  BY <2>2, <2>3
<1>12. CASE PublishDPDKResources(p) \/ PublishResources(p)
  BY <1>1, <1>3, <1>12 DEF PublishDPDKResources, PublishResources, EndPass, Shaped
<1>13. CASE OpenFile(p)
  BY <1>3, <1>13 DEF OpenFile, Repaired, HasResources
<1> QED  BY <1>4, <1>5, <1>6, <1>7, <1>8, <1>9, <1>10, <1>11, <1>12, <1>13 DEF Step

\* What a save leaves in the file when nothing but a torn file has gone wrong.
LEMMA SaveLeaves ==
  ASSUME NEW p, Filled(p) \/ SaveFails(p), history' \subseteq {"torn"}
  PROVE  history \subseteq {"torn"} /\ file' \in {Torn, config[p]}
  BY DEF Filled, SaveFails, CallFails

\* A pass that empties the file, or that would have repaired it, will look at it.
LEMMA RepairStep ==
  ASSUME Repaired, NEW p \in Passes, Step(p), history' \subseteq {"torn"}, file' = {}
  PROVE  \/ InRepair(p)'
         \/ history \subseteq {"torn"} /\ file = {} /\ ~InRepair(p)
<1>1. Shaped /\ Torn # {}
  BY DEF Repaired, Shaped, Torn
<1> USE DEF InRepair, Goto
<1>2. CASE \/ ListNodeENIs(p) \/ handleNodeENIDeletions(p) \/ cleanupSRIOVConfigForNodeENI(p)
           \/ SetPrevious(p) \/ ProcessNodeENIBindings(p) \/ RecordDPDKStates(p)
           \/ CheckForUnbinding(p) \/ updateNodeENIStates(p)
  BY <1>2 DEF ListNodeENIs, handleNodeENIDeletions, cleanupSRIOVConfigForNodeENI,
              SetPrevious, ProcessNodeENIBindings, RecordDPDKStates, CheckForUnbinding,
              updateNodeENIStates, disk
<1>3. CASE updateSRIOVConfiguration(p)
  BY <1>3 DEF updateSRIOVConfiguration, CallFails, disk
<1>4. CASE DropBound(p)
  <2>1. UNCHANGED <<file, history>>
    BY <1>1, <1>4, LoadAndChangeOnPass DEF DropBound, disk
  <2> QED  BY <1>4, <2>1 DEF DropBound
<1>5. CASE UnpublishBound(p)
  BY <1>1, <1>5 DEF UnpublishBound, Shaped
<1>6. CASE DropTracked(p)
  BY <1>1, <1>6, LoadAndChangeOnPass DEF DropTracked, Shaped
<1>7. CASE UnpublishTracked(p)
  BY <1>1, <1>7 DEF UnpublishTracked, Shaped
<1>8. CASE ensureMinimalSRIOVConfig(p)
  BY <1>1, <1>8 DEF ensureMinimalSRIOVConfig, LoadOrCreateConfig, CallFails, disk, Shaped
<1>9. CASE SavePlaceholder(p) \/ PublishDPDKResources(p) \/ PublishResources(p)
  <2>1. file' \in {Torn, config[p]}
    BY <1>9, SaveLeaves DEF SavePlaceholder, PublishDPDKResources, PublishResources
  <2>2. config[p] # {}
    BY <1>9 DEF SavePlaceholder, PublishDPDKResources, PublishResources, Repaired, HasResources
  <2> QED  BY <1>1, <2>1, <2>2
<1>10. CASE applyBatchedSRIOVUpdates(p)
  <2>1. UNCHANGED <<file, history>>
    BY <1>1, <1>10, LoadAndChangeOnPass DEF applyBatchedSRIOVUpdates
  <2> QED  BY <1>10, <2>1 DEF applyBatchedSRIOVUpdates
<1>11. CASE LoadForUpdates(p)
  <2>1. UNCHANGED <<file, history>>
    BY <1>1, <1>11, LoadAndChangeOnPass DEF LoadForUpdates
  <2> QED  BY <1>11, <2>1 DEF LoadForUpdates
<1>12. CASE OpenFile(p)
  BY <1>1, <1>12 DEF OpenFile
<1> QED
  BY <1>2, <1>3, <1>4, <1>5, <1>6, <1>7, <1>8, <1>9, <1>10, <1>11, <1>12 DEF Step

LEMMA RepairedStep ==
  ASSUME Repaired, NEW p \in Passes, Step(p)
  PROVE  Repaired'
<1>1. Shaped' /\ HasResources'
  BY Local, HasResourcesStep DEF Repaired
<1>2. ASSUME history' \subseteq {"torn"}, file' = {}
      PROVE  \E q \in Passes : InRepair(q)'
  <2>1. CASE InRepair(p)'  BY <2>1
  <2>2. CASE history \subseteq {"torn"} /\ file = {} /\ ~InRepair(p)
    <3>1. PICK q \in Passes : InRepair(q)
      BY <2>2 DEF Repaired
    <3>2. pc'[q] = pc[q]
      BY <2>2, <3>1, Local DEF Repaired
    <3> QED  BY <3>1, <3>2 DEF InRepair
  <2> QED  BY <1>2, <2>1, <2>2, RepairStep
<1> QED  BY <1>1, <1>2 DEF Repaired, Shaped, InRepair

LEMMA RepairedNext == ASSUME Repaired, [Next]_vars PROVE Repaired'
<1>1. ASSUME NEW n \in NodeENIs, Apply(n) \/ Delete(n) \/ InterfaceChanges(n) PROVE Repaired'
  BY <1>1 DEF Apply, Delete, InterfaceChanges, disk, Repaired, Shaped, HasResources, InRepair
<1>2. CASE Restart
  BY <1>2 DEF Restart, Repaired, Shaped, HasResources, InRepair
<1>3. CASE UNCHANGED vars
  BY <1>3 DEF vars, disk, Repaired, Shaped, HasResources, InRepair
<1> QED  BY <1>1, <1>2, <1>3, RepairedStep DEF Next

\* When no cleanup is under way the file lists a resource, whatever passes overlap: whoever
\* empties it has yet to look at it, and additions never leave it empty.
THEOREM Minimum == Spec => []MinimalAtRest
<1>1. Init => Repaired
  BY DEF Init, Repaired, Shaped, HasResources
<1>2. Repaired => MinimalAtRest
  BY DEF Repaired, MinimalAtRest, InRepair, InCleanup
<1>3. Repaired /\ [Next]_vars => Repaired'
  BY RepairedNext
<1> QED  BY <1>1, <1>2, <1>3, PTL DEF Spec

-----------------------------------------------------------------------------
(* Types *)

\* The bounds on the versions are numbers, of which one is the greatest: there is a NodeENI,
\* and there are finitely many.
Versioned ==
  /\ MaxVersion \in [NodeENIs -> Nat]
  /\ \E m \in NodeENIs : \A n \in NodeENIs : MaxVersion[n] <= MaxVersion[m]

LEMMA VersionBound ==
  ASSUME Versioned
  PROVE  0 \in Version /\ \A n \in NodeENIs : \A v \in Version :
           v < MaxVersion[n] => v + 1 \in Version
<1> DEFINE Greatest(v) == \A w \in Range(MaxVersion) : w <= v
           top == CHOOSE v \in Range(MaxVersion) : Greatest(v)
<1>1. Range(MaxVersion) \subseteq Nat
      /\ \A n \in NodeENIs : MaxVersion[n] \in Range(MaxVersion)
  BY DEF Versioned, Range
<1>2. PICK m \in NodeENIs : \A n \in NodeENIs : MaxVersion[n] <= MaxVersion[m]
  BY DEF Versioned
<1>3. MaxVersion[m] \in Range(MaxVersion) /\ Greatest(MaxVersion[m])
  BY <1>2 DEF Versioned, Range
<1>4. top \in Range(MaxVersion) /\ Greatest(top)
  <2> HIDE DEF Greatest
  <2> QED  BY <1>3
<1>5. top \in Nat /\ \A n \in NodeENIs : MaxVersion[n] \in Nat /\ MaxVersion[n] <= top
  BY <1>1, <1>4
<1>6. Version = 0..top
  BY DEF Version
<1> HIDE DEF top
<1> QED  BY <1>5, <1>6

\* TypeOK by the parts of the state: what the passes keep apart, the file and what is to be
\* written to it, and the rest.
PassTypes ==
  /\ mutex \in Passes \cup {NoDevice}
  /\ pc \in [Passes -> Places]
  /\ list \in [Passes -> [NodeENIs -> NodeENIState]]
  /\ deleted \in [Passes -> SUBSET NodeENIs]
  /\ updates \in [Passes -> SUBSET NodeENIs]

FileTypes ==
  /\ file \subseteq Entries \/ file = Torn
  /\ config \in [Passes -> SUBSET Entries]

TrackingTypes ==
  /\ previousNodeENIs \subseteq NodeENIs /\ nodeENISRIOVResources \subseteq NodeENIs
  /\ DPDKBoundInterfaces \subseteq NodeENIs
  /\ lastNodeENIStates \in Versions /\ lastDPDKStates \in Versions

WorldTypes ==
  /\ serial \in BOOLEAN
  /\ cluster \in [NodeENIs -> [live : BOOLEAN, version : Version, dpdk : BOOLEAN]]
  /\ interfaces \subseteq NodeENIs
  /\ writing \subseteq Passes
  /\ history \subseteq Faults

\* What a pass is about to publish for DPDK has been named.
UpdatesNamed == \A p \in Passes : pc[p] = "loadDPDK" => updates[p] \subseteq Named

Types == PassTypes /\ UpdatesNamed /\ FileTypes /\ TrackingTypes /\ WorldTypes

LEMMA InitTypes == ASSUME Versioned, Init PROVE Types
<1>1. 0 \in Version  BY VersionBound
<1>2. Nothing \in [NodeENIs -> NodeENIState] /\ NoVersions \in Versions
  BY <1>1 DEF Nothing, NoVersions, Versions, NodeENIState, Absent
<1>3. PassTypes /\ UpdatesNamed /\ FileTypes
  BY <1>2 DEF Init, PassTypes, UpdatesNamed, FileTypes, Entries, Places
<1>4. TrackingTypes /\ WorldTypes
  BY <1>1, <1>2 DEF Init, TrackingTypes, WorldTypes
<1> QED  BY <1>3, <1>4 DEF Types

LEMMA WithoutDeviceTypes ==
  ASSUME NEW c \in SUBSET Entries, NEW n
  PROVE  WithoutDevice(c, n) \in SUBSET Entries
  BY DEF WithoutDevice

\* The devices of S get resources of their own: the reserved ones are left as they are.
LEMMA WithUpdatesTypes ==
  ASSUME NEW c \in SUBSET Entries, NEW driver \in Drivers, NEW S \in SUBSET NodeENIs,
         NEW resource, \A n \in S : resource[n] \in Resources
  PROVE  WithUpdates(c, resource, driver, S) \in SUBSET Entries
<1> DEFINE new == {n \in S : n \notin DevicesOf(c, resource[n])}
           With(r) == {r} \X (DriversOf(c, r) \cup {driver})
                          \X (DevicesOf(c, r) \cup {n \in new : resource[n] = r})
           d == c \cup UNION {With(resource[n]) : n \in new}
<1>1. ASSUME NEW r \in Resources
      PROVE  DriversOf(c, r) \subseteq Drivers /\ DevicesOf(c, r) \subseteq NodeENIs
  <2>1. \A e \in c : e[1] = r => e \in Resources \X Drivers \X NodeENIs
    BY <1>1, ReservedNames DEF Entries
  <2> QED  BY <2>1 DEF DriversOf, DevicesOf
<1>2. ASSUME NEW n \in new PROVE With(resource[n]) \subseteq Entries
  <2>1. resource[n] \in Resources /\ new \subseteq NodeENIs
    OBVIOUS
  <2>2. With(resource[n]) \subseteq Resources \X Drivers \X NodeENIs
    BY <1>1, <2>1
  <2> QED  BY <2>2 DEF Entries
<1>3. d \subseteq Entries
  BY <1>2
<1>4. WithUpdates(c, resource, driver, S) = cleanupConfig(d)
  BY DEF WithUpdates
<1> HIDE DEF d
<1> QED  BY <1>3, <1>4 DEF cleanupConfig, Real

LEMMA MadeTypes ==
  ASSUME PassTypes, UpdatesNamed, FileTypes, NEW p \in Passes, NEW c, Made(p, c)
  PROVE  c \in SUBSET Entries
<1>1. LoadOrCreateConfig \in SUBSET Entries
  BY DEF FileTypes, LoadOrCreateConfig, Entries
<1>2. /\ updates[p] \in SUBSET NodeENIs
      /\ \A m \in updates[p] : SRIOVResource[m] \in Resources
      /\ pc[p] = "loadDPDK" => \A m \in updates[p] : ResourceName[m] \in Resources
  BY DEF PassTypes, UpdatesNamed, Resources
<1>3. {Placeholder} \in SUBSET Entries /\ {"ena", "vfio-pci"} \subseteq Drivers
  BY DEF Entries, Drivers
<1> QED  BY <1>1, <1>2, <1>3, WithoutDeviceTypes, WithUpdatesTypes DEF Made

LEMMA FileTypesStep ==
  ASSUME Types, NEW p \in Passes, Step(p)
  PROVE  FileTypes'
<1>1. FileTypes /\ config[p] \in SUBSET Entries
  BY DEF Types, FileTypes
<1>2. CASE Leaves  BY <1>1, <1>2 DEF Leaves, FileTypes
<1>3. CASE Loads(p)
  <2>1. PICK c : c \in SUBSET Entries /\ config' = [config EXCEPT ![p] = c]
    BY <1>3, MadeTypes DEF Loads, Types
  <2> QED  BY <1>1, <1>3, <2>1 DEF Loads, FileTypes
<1>4. CASE Opens
  BY <1>1, <1>4 DEF Opens, FileTypes, Torn
<1>5. CASE Saves(p)
  <2>1. config' \in [Passes -> SUBSET Entries]
    BY <1>1, <1>5 DEF Saves, FileTypes
  <2>2. file' \subseteq Entries \/ file' = Torn
    BY <1>1, <1>5 DEF Saves, FileTypes
  <2> QED  BY <2>1, <2>2 DEF FileTypes, Torn
<1> QED  BY <1>2, <1>3, <1>4, <1>5, StepOnFile

\* What a pass has listed, in terms of the NodeENIs and their versions.
LEMMA ListTypes ==
  ASSUME Versioned, NEW l \in [NodeENIs -> NodeENIState]
  PROVE  /\ Present(l) \subseteq NodeENIs /\ DPDK(l) \subseteq NodeENIs
         /\ \A S : VersionsOf(l, S) \in Versions
<1>1. 0 \in Version  BY VersionBound
<1> QED  BY <1>1 DEF Present, DPDK, VersionsOf, Versions, NodeENIState

\* Of the variables of PassTypes a step sets components to values of their types.
LEMMA PassTypesStep ==
  ASSUME Versioned, Types, NEW p \in Passes, Step(p)
  PROVE  PassTypes'
<1>1. 0 \in Version  BY VersionBound
<1>2. Nothing \in [NodeENIs -> NodeENIState]
  BY <1>1 DEF Nothing, NodeENIState, Absent
<1>3. Listing \in [NodeENIs -> NodeENIState]
  BY <1>1 DEF Types, WorldTypes, Listing, NodeENIState, Absent
<1>4. PassTypes /\ previousNodeENIs \subseteq NodeENIs
  BY DEF Types, TrackingTypes
<1> USE DEF PassTypes, Goto, tracking, Places, SavePlaces
<1>5. CASE ListNodeENIs(p)  BY <1>3, <1>4, <1>5 DEF ListNodeENIs
<1>6. CASE handleNodeENIDeletions(p)  BY <1>4, <1>6 DEF handleNodeENIDeletions
<1>7. CASE cleanupSRIOVConfigForNodeENI(p)
  <2>1. UNCHANGED <<mutex, list, updates>>
    BY <1>7 DEF cleanupSRIOVConfigForNodeENI
  <2>2. pc' = pc \/ Goto(p, "dropBound")
    BY <1>7 DEF cleanupSRIOVConfigForNodeENI
  <2>3. deleted' = deleted \/ deleted' = [deleted EXCEPT ![p] = @ \ {Gone(p)}]
    BY <1>7 DEF cleanupSRIOVConfigForNodeENI
  <2>4. deleted' \in [Passes -> SUBSET NodeENIs]
    BY <1>4, <2>3
  <2>5. pc' \in [Passes -> Places]
    BY <1>4, <2>2
  <2> QED  BY <1>4, <2>1, <2>4, <2>5
<1>8. CASE DropBound(p) \/ UnpublishBound(p)
  BY <1>4, <1>8 DEF DropBound, UnpublishBound, LoadAndChange
<1>9. CASE DropTracked(p) \/ UnpublishTracked(p)
  BY <1>4, <1>9 DEF DropTracked, UnpublishTracked, LoadAndChange
<1>10. CASE ensureMinimalSRIOVConfig(p)
  <2>1. CASE Goto(p, "placeholder") /\ UNCHANGED deleted
    BY <1>4, <1>10, <2>1 DEF ensureMinimalSRIOVConfig
  <2>2. CASE CleanedUp(p)
    BY <1>4, <1>10, <2>2 DEF ensureMinimalSRIOVConfig, CleanedUp
  <2> QED  BY <1>10, <2>1, <2>2 DEF ensureMinimalSRIOVConfig
<1>11. CASE SavePlaceholder(p)  BY <1>4, <1>11 DEF SavePlaceholder, CleanedUp
<1>12. CASE SetPrevious(p)  BY <1>2, <1>4, <1>12 DEF SetPrevious
<1>13. CASE ProcessNodeENIBindings(p)
  <2>1. \A attached : \A T \in Collected(attached) : T \subseteq NodeENIs
    BY DEF Collected, Named
  <2>2. UNCHANGED <<mutex, list, deleted>>
    BY <1>13 DEF ProcessNodeENIBindings
  <2>3. CASE Goto(p, "unbind") /\ UNCHANGED updates
    BY <1>4, <2>2, <2>3
  <2>4. CASE \E attached, T : /\ T \in Collected(attached)
                              /\ updates' = [updates EXCEPT ![p] = T]
                              /\ Goto(p, IF T = {} THEN "recordDPDK" ELSE "loadDPDK")
    <3>1. PICK T \in SUBSET NodeENIs :
            /\ updates' = [updates EXCEPT ![p] = T]
            /\ Goto(p, IF T = {} THEN "recordDPDK" ELSE "loadDPDK")
      BY <2>1, <2>4
    <3> QED  BY <1>4, <2>2, <3>1
  <2> QED  BY <1>13, <2>3, <2>4 DEF ProcessNodeENIBindings
<1>14. CASE RecordDPDKStates(p) \/ CheckForUnbinding(p)
  BY <1>4, <1>14 DEF RecordDPDKStates, CheckForUnbinding
<1>15. CASE applyBatchedSRIOVUpdates(p)
  BY <1>4, <1>15 DEF applyBatchedSRIOVUpdates, LoadAndChange, Added
<1>16. CASE PublishDPDKResources(p)
  BY <1>4, <1>16 DEF PublishDPDKResources
<1>17. CASE updateSRIOVConfiguration(p)
  <2>1. Plain(list[p]) \cap interfaces \subseteq NodeENIs
    BY DEF Plain, Present
  <2>2. UNCHANGED <<mutex, deleted>>
    BY <1>17 DEF updateSRIOVConfiguration
  <2>3. list' = list \/ list' = [list EXCEPT ![p] = Nothing]
    BY <1>17 DEF updateSRIOVConfiguration, EndPass
  <2>4. updates' = updates \/ updates' = [updates EXCEPT ![p] = Plain(list[p]) \cap interfaces]
    BY <1>17 DEF updateSRIOVConfiguration
  <2>5. \E to \in {"idle", "record", "load"} : pc' = [pc EXCEPT ![p] = to]
    BY <1>17 DEF updateSRIOVConfiguration, EndPass
  <2>6. list' \in [Passes -> [NodeENIs -> NodeENIState]]
    BY <1>2, <1>4, <2>3
  <2>7. updates' \in [Passes -> SUBSET NodeENIs]
    BY <1>4, <2>1, <2>4
  <2>8. pc' \in [Passes -> Places]
    BY <1>4, <2>5
  <2> QED  BY <1>4, <2>2, <2>6, <2>7, <2>8
<1>18. CASE LoadForUpdates(p)
  BY <1>2, <1>4, <1>18 DEF LoadForUpdates, LoadAndChange, Added
<1>19. CASE PublishResources(p)
  BY <1>2, <1>4, <1>19 DEF PublishResources, EndPass
<1>20. CASE updateNodeENIStates(p)
  BY <1>2, <1>4, <1>20 DEF updateNodeENIStates, EndPass
<1>21. CASE OpenFile(p)
  BY <1>4, <1>21 DEF OpenFile
<1> QED
  BY <1>5, <1>6, <1>7, <1>8, <1>9, <1>10, <1>11, <1>12, <1>13, <1>14, <1>15, <1>16, <1>17,
     <1>18, <1>19, <1>20, <1>21 DEF Step

\* Only ProcessNodeENIBindings goes to "loadDPDK", with what it has collected.
LEMMA UpdatesNamedStep ==
  ASSUME Types, NEW p \in Passes, Step(p)
  PROVE  UpdatesNamed'
<1>1. Shaped
  BY DEF Types, PassTypes, FileTypes, Shaped
<1>2. SUFFICES ASSUME pc'[p] = "loadDPDK" PROVE updates'[p] \subseteq Named
  BY <1>1, Local DEF Types, UpdatesNamed
<1> USE DEF Goto, Shaped
<1>3. CASE \/ ListNodeENIs(p) \/ handleNodeENIDeletions(p) \/ RecordDPDKStates(p)
           \/ CheckForUnbinding(p) \/ UnpublishBound(p) \/ UnpublishTracked(p)
           \/ PublishDPDKResources(p)
  BY <1>1, <1>2, <1>3 DEF ListNodeENIs, handleNodeENIDeletions, RecordDPDKStates,
       CheckForUnbinding, UnpublishBound, UnpublishTracked, PublishDPDKResources
<1>4. CASE SetPrevious(p) \/ updateNodeENIStates(p) \/ PublishResources(p)
  BY <1>1, <1>2, <1>4 DEF SetPrevious, updateNodeENIStates, PublishResources, EndPass
<1>5. CASE DropBound(p) \/ DropTracked(p)
  BY <1>1, <1>2, <1>5 DEF DropBound, DropTracked, LoadAndChange
<1>6. CASE ensureMinimalSRIOVConfig(p) \/ SavePlaceholder(p)
  BY <1>1, <1>2, <1>6 DEF ensureMinimalSRIOVConfig, SavePlaceholder, CleanedUp
<1>7. CASE cleanupSRIOVConfigForNodeENI(p) \/ OpenFile(p)
  BY <1>1, <1>2, <1>7 DEF cleanupSRIOVConfigForNodeENI, OpenFile, SavePlaces
<1>8. CASE ProcessNodeENIBindings(p)
  <2>1. \A attached : \A T \in Collected(attached) : T \subseteq Named
    BY DEF Collected
  <2>2. \E attached, T : T \in Collected(attached) /\ updates' = [updates EXCEPT ![p] = T]
    BY <1>1, <1>2, <1>8 DEF ProcessNodeENIBindings
  <2> QED  BY <1>1, <2>1, <2>2
<1>9. CASE updateSRIOVConfiguration(p)
  BY <1>1, <1>2, <1>9 DEF updateSRIOVConfiguration, EndPass
<1>10. CASE applyBatchedSRIOVUpdates(p) \/ LoadForUpdates(p)
  BY <1>1, <1>2, <1>10 DEF applyBatchedSRIOVUpdates, LoadForUpdates, LoadAndChange
<1> QED  BY <1>3, <1>4, <1>5, <1>6, <1>7, <1>8, <1>9, <1>10 DEF Step

LEMMA TrackingTypesStep ==
  ASSUME Versioned, Types, NEW p \in Passes, Step(p)
  PROVE  TrackingTypes'
<1>1. TrackingTypes /\ list[p] \in [NodeENIs -> NodeENIState]
  BY DEF Types, PassTypes
<1>2. /\ Present(list[p]) \subseteq NodeENIs /\ DPDK(list[p]) \subseteq NodeENIs
      /\ \A S : VersionsOf(list[p], S) \in Versions
  BY <1>1, ListTypes
<1> USE DEF TrackingTypes, tracking
<1>3. CASE \/ ListNodeENIs(p) \/ handleNodeENIDeletions(p) \/ cleanupSRIOVConfigForNodeENI(p)
           \/ UnpublishBound(p) \/ ensureMinimalSRIOVConfig(p) \/ SavePlaceholder(p)
           \/ applyBatchedSRIOVUpdates(p) \/ PublishDPDKResources(p) \/ LoadForUpdates(p)
           \/ PublishResources(p) \/ OpenFile(p)
  BY <1>1, <1>3 DEF ListNodeENIs, handleNodeENIDeletions, cleanupSRIOVConfigForNodeENI,
                    UnpublishBound, ensureMinimalSRIOVConfig, SavePlaceholder,
                    applyBatchedSRIOVUpdates, PublishDPDKResources, LoadForUpdates,
                    PublishResources, OpenFile
<1>4. CASE DropBound(p)  BY <1>1, <1>4 DEF DropBound
<1>5. CASE DropTracked(p) \/ UnpublishTracked(p)
  BY <1>1, <1>5 DEF DropTracked, UnpublishTracked, Untrack
<1>6. CASE SetPrevious(p)  BY <1>1, <1>2, <1>6 DEF SetPrevious
<1>7. CASE ProcessNodeENIBindings(p)  BY <1>1, <1>2, <1>7 DEF ProcessNodeENIBindings
<1>8. CASE RecordDPDKStates(p)  BY <1>1, <1>2, <1>8 DEF RecordDPDKStates
<1>9. CASE CheckForUnbinding(p)  BY <1>1, <1>9 DEF CheckForUnbinding
<1>10. CASE updateSRIOVConfiguration(p)
  <2>1. Plain(list[p]) \cap interfaces \subseteq NodeENIs
    BY <1>2 DEF Plain
  <2> QED  BY <1>1, <1>10, <2>1 DEF updateSRIOVConfiguration
<1>11. CASE updateNodeENIStates(p)  BY <1>1, <1>2, <1>11 DEF updateNodeENIStates
<1> QED  BY <1>3, <1>4, <1>5, <1>6, <1>7, <1>8, <1>9, <1>10, <1>11 DEF Step

LEMMA WorldTypesStep ==
  ASSUME WorldTypes, NEW p \in Passes, Step(p)
  PROVE  WorldTypes'
<1> DEFINE Typed == writing' \subseteq Passes /\ history' \subseteq Faults
<1>1. UNCHANGED disk => Typed
  BY DEF WorldTypes, disk
<1>2. CallFails => Typed
  BY DEF WorldTypes, CallFails
<1>3. Filled(p) \/ SaveFails(p) => Typed
  BY <1>2 DEF WorldTypes, Filled, SaveFails
<1>4. \A c, save, unchanged, failed : LoadAndChange(p, c, save, unchanged, failed) => Typed
  BY <1>1, <1>2 DEF LoadAndChange
<1>5. UNCHANGED world
  BY DEF Step, ListNodeENIs, handleNodeENIDeletions, cleanupSRIOVConfigForNodeENI, DropBound,
         UnpublishBound, DropTracked, UnpublishTracked, ensureMinimalSRIOVConfig,
         SavePlaceholder, SetPrevious, ProcessNodeENIBindings, applyBatchedSRIOVUpdates,
         PublishDPDKResources, RecordDPDKStates, CheckForUnbinding, updateSRIOVConfiguration,
         LoadForUpdates, PublishResources, updateNodeENIStates, OpenFile
<1>6. Typed
  <2>1. CASE \/ ListNodeENIs(p) \/ handleNodeENIDeletions(p) \/ cleanupSRIOVConfigForNodeENI(p)
             \/ SetPrevious(p) \/ ProcessNodeENIBindings(p) \/ RecordDPDKStates(p)
             \/ CheckForUnbinding(p) \/ updateNodeENIStates(p)
    BY <1>1, <2>1 DEF ListNodeENIs, handleNodeENIDeletions, cleanupSRIOVConfigForNodeENI,
                SetPrevious, ProcessNodeENIBindings, RecordDPDKStates, CheckForUnbinding,
                updateNodeENIStates
  <2>2. CASE ensureMinimalSRIOVConfig(p) \/ updateSRIOVConfiguration(p)
    BY <1>1, <1>2, <2>2 DEF ensureMinimalSRIOVConfig, updateSRIOVConfiguration
  <2>3. CASE \/ UnpublishBound(p) \/ UnpublishTracked(p) \/ SavePlaceholder(p)
             \/ PublishDPDKResources(p) \/ PublishResources(p)
    BY <1>3, <2>3 DEF UnpublishBound, UnpublishTracked, SavePlaceholder, PublishDPDKResources,
                      PublishResources
  <2>4. CASE DropBound(p) \/ DropTracked(p) \/ applyBatchedSRIOVUpdates(p) \/ LoadForUpdates(p)
    BY <1>1, <1>4, <2>4 DEF DropBound, DropTracked, applyBatchedSRIOVUpdates, LoadForUpdates
  <2>5. CASE OpenFile(p)
    BY <2>5 DEF OpenFile, WorldTypes
  <2> QED  BY <2>1, <2>2, <2>3, <2>4, <2>5 DEF Step
<1> QED  BY <1>5, <1>6 DEF WorldTypes, world

LEMMA TypesNext == ASSUME Versioned, Types, [Next]_vars PROVE Types'
<1>1. ASSUME NEW p \in Passes, Step(p) PROVE Types'
  <2>1. FileTypes' /\ WorldTypes'
    BY <1>1, FileTypesStep, WorldTypesStep DEF Types
  <2>2. PassTypes' /\ UpdatesNamed' /\ TrackingTypes'
    BY <1>1, PassTypesStep, UpdatesNamedStep, TrackingTypesStep
  <2> QED  BY <2>1, <2>2 DEF Types
<1>2. ASSUME NEW n \in NodeENIs, Apply(n) \/ Delete(n) \/ InterfaceChanges(n) PROVE Types'
  <2>1. UNCHANGED <<disk, tracking, mutex, pc, list, deleted, updates, config>>
    BY <1>2 DEF Apply, Delete, InterfaceChanges
  <2>2. PassTypes' /\ UpdatesNamed' /\ FileTypes' /\ TrackingTypes'
    BY <2>1 DEF Types, PassTypes, UpdatesNamed, FileTypes, TrackingTypes, tracking, disk
  <2>3. CASE Apply(n) \/ Delete(n)
    <3>1. cluster[n].version \in Version
          /\ (cluster[n].version < MaxVersion[n] => cluster[n].version + 1 \in Version)
      BY VersionBound DEF Types, WorldTypes
    <3>2. PICK r \in [live : BOOLEAN, version : Version, dpdk : BOOLEAN] :
            cluster' = [cluster EXCEPT ![n] = r]
      BY <2>3, <3>1, Zenon DEF Apply, Delete
    <3>3. UNCHANGED <<serial, interfaces, writing, history>>
      BY <2>3 DEF Apply, Delete, disk
    <3>4. WorldTypes'
      BY <3>2, <3>3 DEF Types, WorldTypes
    <3> QED  BY <2>2, <3>4 DEF Types
  <2>4. CASE InterfaceChanges(n)
    <3>1. WorldTypes'
      BY <2>1, <2>4 DEF InterfaceChanges, Types, WorldTypes, disk
    <3> QED  BY <2>2, <3>1 DEF Types
  <2> QED  BY <1>2, <2>3, <2>4
<1>3. CASE Restart
  <2>1. 0 \in Version  BY VersionBound
  <2>2. Nothing \in [NodeENIs -> NodeENIState] /\ NoVersions \in Versions
    BY <2>1 DEF Nothing, NoVersions, Versions, NodeENIState, Absent
  <2>3. PassTypes' /\ UpdatesNamed' /\ FileTypes'
    BY <1>3, <2>2 DEF Restart, Types, PassTypes, UpdatesNamed, FileTypes, Torn, Entries, Places
  <2>4. TrackingTypes' /\ WorldTypes'
    BY <1>3, <2>2 DEF Restart, Types, TrackingTypes, WorldTypes, world
  <2> QED  BY <2>3, <2>4 DEF Types
<1>4. CASE UNCHANGED vars
  <2>1. PassTypes' /\ UpdatesNamed' /\ FileTypes'
    BY <1>4 DEF vars, disk, Types, PassTypes, UpdatesNamed, FileTypes
  <2>2. TrackingTypes' /\ WorldTypes'
    BY <1>4 DEF vars, world, disk, tracking, Types, TrackingTypes, WorldTypes
  <2> QED  BY <2>1, <2>2 DEF Types
<1> QED  BY <1>1, <1>2, <1>3, <1>4 DEF Next

\* Every variable keeps its type: no pass takes a torn file for a configuration, a resource
\* lists devices and drivers only, and no record outgrows the versions there have been.
THEOREM TypeCorrectness == ASSUME Versioned PROVE Spec => []TypeOK
<1>1. Init => Types  BY InitTypes
<1>2. Types /\ [Next]_vars => Types'  BY TypesNext
<1>3. Types => TypeOK
  BY DEF Types, PassTypes, FileTypes, TrackingTypes, WorldTypes, TypeOK
<1> QED  BY <1>1, <1>2, <1>3, PTL DEF Spec

=============================================================================
