------------------------------ MODULE NodeAgent ------------------------------
(***************************************************************************)
(* The eni-manager on one node: its coordinator, the DPDK coordinator's    *)
(* bookkeeping, and the SR-IOV device plugin's configuration file.         *)
(*                                                                         *)
(* Two goroutines, the ticker's and the watcher's, run processNodeENIs.  A *)
(* pass lists the NodeENIs, cleans up after those that are gone, binds and *)
(* unbinds DPDK devices and publishes resources in the file.  The passes   *)
(* share the maps below without any order between them, and every change   *)
(* of the file is a load and a save with other steps in between.  A save   *)
(* truncates the file before it fills it; two sriov.Managers, each with a  *)
(* mutex of its own, write the same file.                                  *)
(*                                                                         *)
(* A NodeENI stands for its device as well: it names one by PCI address.   *)
(* Its network interface comes and goes by itself; the code waits for it   *)
(* for a bounded time, and configuring it changes nothing kept here.       *)
(***************************************************************************)
EXTENDS Naturals, FiniteSets, Functions

CONSTANTS
  NodeENIs,
  Passes,        \* the goroutines that run processNodeENIs
  NoDevice,      \* also: nobody, and no name
  ResourceName,  \* dpdkResourceName of a NodeENI: <<prefix, name>>, prefix "" if not given
  MaxVersion,    \* bound on the resource versions of each NodeENI
  Faults         \* the faults that may happen, each once: "failed", "torn", "restarted"

ASSUME NoDeviceAssumption == NoDevice \notin NodeENIs \cup Passes

VARIABLES
  serial,       \* in this behaviour the passes happen not to overlap
  cluster,      \* a NodeENI's state in the API server
  interfaces,   \* the NodeENIs whose network interface shows on the node
  file,         \* the configuration file: a set of entries, or Torn
  writing,      \* the passes that have opened the file and have still to fill it
  previousNodeENIs, lastNodeENIStates, nodeENISRIOVResources,   \* the coordinator's maps
  DPDKBoundInterfaces, lastDPDKStates,                          \* the DPDK coordinator's
  mutex,        \* who holds the coordinator's mutex for more than one step
  pc, list,     \* of a pass: where it is, the NodeENIs it has listed,
  deleted,      \* those it has still to clean up after, the first of them in hand,
  updates,      \* the NodeENIs whose devices it is about to add to the file,
  config,       \* and the configuration it is about to save
  history       \* what has gone wrong so far

tracking == <<previousNodeENIs, lastNodeENIStates, nodeENISRIOVResources,
              DPDKBoundInterfaces, lastDPDKStates>>

world == <<serial, cluster, interfaces>>

disk == <<file, writing, history>>

vars == <<world, disk, tracking, mutex, pc, list, deleted, updates, config>>

\* The NodeENIs that name a resource: the DPDK coordinator publishes no other, and under the
\* name as it is given.
Named == {n \in NodeENIs : ResourceName[n] # NoDevice}

\* parseResourceName: the coordinator fills in what is not given.
SRIOVResource ==
  [n \in NodeENIs |->
     IF n \notin Named THEN <<"intel.com", "sriov_net">>
     ELSE IF ResourceName[n][1] = "" THEN <<"intel.com", ResourceName[n][2]>>
     ELSE ResourceName[n]]

Resources == {ResourceName[n] : n \in Named} \cup {SRIOVResource[n] : n \in NodeENIs}

Drivers == {"ena", "vfio-pci"}

\* An entry says that a resource lists a device, and a driver.
Minimal == <<<<"intel.com", "sriov_placeholder">>, "placeholder", NoDevice>>  \* createMinimalConfig
Placeholder == <<<<"intel.com", "placeholder">>, "vfio-pci", NoDevice>>  \* ensureMinimalSRIOVConfig

\* No NodeENI names its resource like one of these two.
ASSUME ReservedNames == {Minimal[1], Placeholder[1]} \cap Resources = {}

Entries == (Resources \X Drivers \X NodeENIs) \cup {Minimal, Placeholder}

\* A file that was opened and not filled, or filled by two at once: it does not parse.
Torn == {<<<<"", "">>, "torn", NoDevice>>}

Absent == [version |-> 0, dpdk |-> FALSE]
Version == 0..(CHOOSE v \in Range(MaxVersion) : \A w \in Range(MaxVersion) : w <= v)
Versions == [NodeENIs -> Version]
NodeENIState == [version : Version, dpdk : BOOLEAN]

\* Where a pass is about to save the configuration in hand.
SavePlaces == {"unpublishBound", "unpublishTracked", "placeholder", "publishDPDK", "publish"}

Places == SavePlaces \cup
  {"idle", "listed", "deletions", "dropBound", "dropTracked", "minimal", "bind", "loadDPDK",
   "recordDPDK", "unbind", "sriov", "load", "record"}

TypeOK ==
  /\ serial \in BOOLEAN
  /\ cluster \in [NodeENIs -> [live : BOOLEAN, version : Version, dpdk : BOOLEAN]]
  /\ interfaces \subseteq NodeENIs
  /\ file \subseteq Entries \/ file = Torn
  /\ writing \subseteq Passes
  /\ previousNodeENIs \subseteq NodeENIs /\ nodeENISRIOVResources \subseteq NodeENIs
  /\ DPDKBoundInterfaces \subseteq NodeENIs
  /\ lastNodeENIStates \in Versions /\ lastDPDKStates \in Versions
  /\ mutex \in Passes \cup {NoDevice}
  /\ pc \in [Passes -> Places]
  /\ list \in [Passes -> [NodeENIs -> NodeENIState]]
  /\ \A p \in Passes :
       deleted[p] \subseteq NodeENIs /\ updates[p] \subseteq NodeENIs /\ config[p] \subseteq Entries
  /\ history \subseteq Faults

Listing == [n \in NodeENIs |->
              IF cluster[n].live
              THEN [version |-> cluster[n].version, dpdk |-> cluster[n].dpdk] ELSE Absent]

Nothing == [n \in NodeENIs |-> Absent]
NoVersions == [n \in NodeENIs |-> 0]

Init ==
  /\ serial \in BOOLEAN
  /\ cluster = [n \in NodeENIs |-> [live |-> FALSE, version |-> 0, dpdk |-> FALSE]]
  /\ interfaces \in SUBSET NodeENIs
  /\ file = {Minimal} /\ writing = {}
  /\ previousNodeENIs = {} /\ nodeENISRIOVResources = {} /\ DPDKBoundInterfaces = {}
  /\ lastNodeENIStates = NoVersions /\ lastDPDKStates = NoVersions
  /\ mutex = NoDevice
  /\ pc = [p \in Passes |-> "idle"]
  /\ list = [p \in Passes |-> Nothing]
  /\ deleted = [p \in Passes |-> {}]
  /\ updates = [p \in Passes |-> {}]
  /\ config = [p \in Passes |-> {}]
  /\ history = {}

Goto(p, to) == pc' = [pc EXCEPT ![p] = to]

Present(l) == {n \in NodeENIs : l[n].version > 0}
DPDK(l) == {n \in Present(l) : l[n].dpdk}

\* The versions a pass records of some of the NodeENIs it has listed; 0 is no record.
VersionsOf(l, S) == [n \in NodeENIs |-> IF n \in S THEN l[n].version ELSE 0]

\* hasNodeENIChanges, of both coordinators.
hasNodeENIChanges(last, l, S) == last # VersionsOf(l, S)

-----------------------------------------------------------------------------
(* The SR-IOV configuration *)

\* LoadOrCreateConfig: a file that does not parse is as good as none.
LoadOrCreateConfig == IF file = Torn THEN {Minimal} ELSE file

Real(c) == {e \in c : e[3] # NoDevice}

DevicesOf(c, r) == {e[3] : e \in {f \in c : f[1] = r}}

DriversOf(c, r) == {e[2] : e \in {f \in c : f[1] = r}}

\* Mutant of cleanupConfig: the placeholder stays beside real resources.
cleanupConfigKept(c) == c \ {Placeholder}

\* Resources without addresses go, and the minimal one when there is a real one.
cleanupConfig(c) == IF Real(c) # {} THEN Real(c) ELSE c \ {Placeholder}

\* Mutant of WithUpdates: a resource that is there keeps the drivers it has.
WithUpdatesFirstDriver(c, resource, driver, S) ==
  LET new == {n \in S : n \notin DevicesOf(c, resource[n])}
      With(r) == {r} \X (IF DriversOf(c, r) = {} THEN {driver} ELSE DriversOf(c, r))
                     \X (DevicesOf(c, r) \cup {n \in new : resource[n] = r})
  IN cleanupConfig(c \cup UNION {With(resource[n]) : n \in new})

\* applyAddUpdate for each device of S: a resource that lists it already stays as it is, its
\* drivers too; otherwise the resource gets the device, and the driver.
WithUpdates(c, resource, driver, S) ==
  LET new == {n \in S : n \notin DevicesOf(c, resource[n])}
      With(r) == {r} \X (DriversOf(c, r) \cup {driver})
                     \X (DevicesOf(c, r) \cup {n \in new : resource[n] = r})
  IN cleanupConfig(c \cup UNION {With(resource[n]) : n \in new})

\* RemoveResource: the device leaves every resource, and resources without an address go.
WithoutDevice(c, n) == {e \in c : e[3] # n} \ {Placeholder}

\* The sriov.Manager a pass works with: the DPDK coordinator has one of its own.
ManagerOf(p) == IF pc[p] \in {"loadDPDK", "publishDPDK"} THEN "dpdk" ELSE "coordinator"

\* No pass has the mutex of this pass's sriov.Manager: the other one's does not keep a pass
\* from reading or writing a file that is being written.
Unlocked(p) == \A q \in writing : ManagerOf(q) # ManagerOf(p)

\* A call gets an error, and nothing has happened: the file could not be read, or opened.
CallFails ==
  /\ history = {} /\ "failed" \in Faults
  /\ history' = {"failed"}
  /\ UNCHANGED <<file, writing>>

\* Loads the file and makes c of it: goes on to save it, or elsewhere when nothing changes
\* or the file cannot be read.
LoadAndChange(p, c, save, unchanged, failed) ==
  /\ Unlocked(p)
  /\ \/ /\ c # LoadOrCreateConfig
        /\ config' = [config EXCEPT ![p] = c]
        /\ Goto(p, save) /\ UNCHANGED disk
     \/ /\ c = LoadOrCreateConfig
        /\ Goto(p, unchanged) /\ UNCHANGED <<config, disk>>
     \/ CallFails /\ Goto(p, failed) /\ UNCHANGED config

\* Mutant of OpenFile: the file is not truncated, what is written comes on top.
OpenFileUntruncated(p) ==
  /\ pc[p] \in SavePlaces /\ p \notin writing /\ Unlocked(p)
  /\ file' = file \cup Torn
  /\ writing' = writing \cup {p}
  /\ UNCHANGED <<world, tracking, mutex, pc, list, deleted, updates, config, history>>

\* SaveConfig begins: the file is opened and truncated.
OpenFile(p) ==
  /\ pc[p] \in SavePlaces /\ p \notin writing /\ Unlocked(p)
  /\ file' = Torn
  /\ writing' = writing \cup {p}
  /\ UNCHANGED <<world, tracking, mutex, pc, list, deleted, updates, config, history>>

\* SaveConfig ends well: the file is filled.  Over what another pass has written since this
\* one opened it, the longer text sticks out.
Filled(p) ==
  /\ p \in writing
  /\ file' = config[p] \/ (file # Torn /\ file' = Torn)
  /\ writing' = writing \ {p}
  /\ UNCHANGED history

\* SaveConfig returns an error: the file could not be opened, or the write was cut short.
SaveFails(p) ==
  \/ p \notin writing /\ Unlocked(p) /\ CallFails
  \/ /\ p \in writing /\ history = {} /\ "torn" \in Faults
     /\ file' = Torn
     /\ writing' = writing \ {p}
     /\ history' = {"torn"}

\* The pass has saved what it had in hand.
Forget(p) == config' = [config EXCEPT ![p] = {}]

-----------------------------------------------------------------------------
(* processNodeENIs: the deleted NodeENIs *)

First(S) == CHOOSE x \in S : TRUE

\* The NodeENI in hand; the order of a map's keys is any order, which does not matter here.
Gone(p) == First(deleted[p])

\* GetNodeENIResources.  Passes that do not overlap are the same whoever runs them.  A list
\* that fails ends the pass at once.
ListNodeENIs(p) ==
  /\ pc[p] = "idle"
  /\ serial => p = First(Passes)
  /\ list' = [list EXCEPT ![p] = Listing]
  /\ Goto(p, "listed")
  /\ UNCHANGED <<world, disk, tracking, mutex, deleted, updates, config>>

handleNodeENIDeletions(p) ==
  /\ pc[p] = "listed" /\ mutex = NoDevice
  /\ deleted' = [deleted EXCEPT ![p] = previousNodeENIs \ Present(list[p])]
  /\ Goto(p, "deletions")
  /\ UNCHANGED <<world, disk, tracking, mutex, list, updates, config>>

\* Mutant of cleanupSRIOVConfigForNodeENI: what is published without DPDK is not gathered.
cleanupSRIOVConfigForNodeENIBound(p) ==
  /\ pc[p] = "deletions" /\ deleted[p] # {} /\ mutex = NoDevice
  /\ LET n == Gone(p) IN
     IF n \in DPDKBoundInterfaces
     THEN Goto(p, "dropBound") /\ UNCHANGED deleted
     ELSE deleted' = [deleted EXCEPT ![p] = @ \ {n}] /\ UNCHANGED pc
  /\ UNCHANGED <<world, disk, tracking, mutex, list, updates, config>>

\* gatherCleanupResources and shouldSkipCleanup.
cleanupSRIOVConfigForNodeENI(p) ==
  /\ pc[p] = "deletions" /\ deleted[p] # {} /\ mutex = NoDevice
  /\ LET n == Gone(p) IN
     IF n \in DPDKBoundInterfaces \cup nodeENISRIOVResources
     THEN Goto(p, "dropBound") /\ UNCHANGED deleted
     ELSE deleted' = [deleted EXCEPT ![p] = @ \ {n}] /\ UNCHANGED pc
  /\ UNCHANGED <<world, disk, tracking, mutex, list, updates, config>>

\* cleanupSingleDPDKInterface: the tracking goes, then RemoveResource begins.
DropBound(p) ==
  /\ pc[p] = "dropBound"
  /\ \/ /\ Gone(p) \in DPDKBoundInterfaces
        /\ LoadAndChange(p, WithoutDevice(LoadOrCreateConfig, Gone(p)),
                         "unpublishBound", "dropTracked", "dropTracked")
     \/ /\ Gone(p) \notin DPDKBoundInterfaces
        /\ Goto(p, "dropTracked") /\ UNCHANGED <<config, disk>>
  /\ DPDKBoundInterfaces' = DPDKBoundInterfaces \ {Gone(p)}
  /\ UNCHANGED <<world, previousNodeENIs, lastNodeENIStates, nodeENISRIOVResources,
                 lastDPDKStates, mutex, list, deleted, updates>>

\* An error is logged, and the removal not tried again.
UnpublishBound(p) ==
  /\ pc[p] = "unpublishBound"
  /\ Filled(p) \/ SaveFails(p)
  /\ Forget(p)
  /\ Goto(p, "dropTracked")
  /\ UNCHANGED <<world, tracking, mutex, list, deleted, updates>>

Untrack(p) == nodeENISRIOVResources' = nodeENISRIOVResources \ {Gone(p)}

\* cleanupNonDPDKSRIOVResources keeps the mutex while RemoveResource works on the file; the
\* tracking goes whether or not there was something to remove.
DropTracked(p) ==
  /\ pc[p] = "dropTracked" /\ mutex = NoDevice
  /\ \/ /\ Gone(p) \in nodeENISRIOVResources
        /\ LoadAndChange(p, WithoutDevice(LoadOrCreateConfig, Gone(p)),
                         "unpublishTracked", "minimal", "minimal")
        /\ IF pc'[p] = "minimal"
           THEN Untrack(p) /\ UNCHANGED mutex
           ELSE mutex' = p /\ UNCHANGED nodeENISRIOVResources
     \/ /\ Gone(p) \notin nodeENISRIOVResources
        /\ Goto(p, "minimal")
        /\ UNCHANGED <<config, disk, mutex, nodeENISRIOVResources>>
  /\ UNCHANGED <<world, previousNodeENIs, lastNodeENIStates, DPDKBoundInterfaces,
                 lastDPDKStates, list, deleted, updates>>

\* Mutant of UnpublishTracked: the mutex is kept when the save fails.
UnpublishTrackedLocked(p) ==
  /\ pc[p] = "unpublishTracked"
  /\ \/ Filled(p) /\ mutex' = NoDevice
     \/ SaveFails(p) /\ UNCHANGED mutex
  /\ Forget(p)
  /\ Untrack(p)
  /\ Goto(p, "minimal")
  /\ UNCHANGED <<world, previousNodeENIs, lastNodeENIStates, DPDKBoundInterfaces,
                 lastDPDKStates, list, deleted, updates>>

UnpublishTracked(p) ==
  /\ pc[p] = "unpublishTracked"
  /\ Filled(p) \/ SaveFails(p)
  /\ Forget(p)
  /\ Untrack(p)
  /\ mutex' = NoDevice
  /\ Goto(p, "minimal")
  /\ UNCHANGED <<world, previousNodeENIs, lastNodeENIStates, DPDKBoundInterfaces,
                 lastDPDKStates, list, deleted, updates>>

CleanedUp(p) ==
  /\ Goto(p, "deletions")
  /\ deleted' = [deleted EXCEPT ![p] = @ \ {Gone(p)}]

\* Mutant of ensureMinimalSRIOVConfig: left out.
ensureMinimalSRIOVConfigSkipped(p) ==
  /\ pc[p] = "minimal"
  /\ CleanedUp(p)
  /\ UNCHANGED <<world, disk, tracking, mutex, list, updates, config>>

\* Loads the file, to see whether any resource is left.
ensureMinimalSRIOVConfig(p) ==
  /\ pc[p] = "minimal" /\ Unlocked(p)
  /\ \/ /\ LoadOrCreateConfig = {}
        /\ config' = [config EXCEPT ![p] = {Placeholder}]
        /\ Goto(p, "placeholder") /\ UNCHANGED <<deleted, disk>>
     \/ LoadOrCreateConfig # {} /\ CleanedUp(p) /\ UNCHANGED <<config, disk>>
     \/ CallFails /\ CleanedUp(p) /\ UNCHANGED config
  /\ UNCHANGED <<world, tracking, mutex, list, updates>>

\* The device plugin is restarted afterwards; whether that works changes nothing here.
SavePlaceholder(p) ==
  /\ pc[p] = "placeholder"
  /\ Filled(p) \/ SaveFails(p)
  /\ Forget(p)
  /\ CleanedUp(p)
  /\ UNCHANGED <<world, tracking, mutex, list, updates>>

\* Without NodeENIs the pass ends here.
SetPrevious(p) ==
  /\ pc[p] = "deletions" /\ deleted[p] = {} /\ mutex = NoDevice
  /\ previousNodeENIs' = Present(list[p])
  /\ IF Present(list[p]) = {}
     THEN Goto(p, "idle") /\ list' = [list EXCEPT ![p] = Nothing]
     ELSE Goto(p, "bind") /\ UNCHANGED list
  /\ UNCHANGED <<world, disk, lastNodeENIStates, nodeENISRIOVResources, DPDKBoundInterfaces,
                 lastDPDKStates, mutex, deleted, updates, config>>

-----------------------------------------------------------------------------
(* processNodeENIs: DPDK *)

\* collectSRIOVUpdate files an update under the name of its resource, without the prefix: of
\* the NodeENIs that share a name, whichever is listed last is left.
Collected(S) ==
  LET Name(n) == ResourceName[n][2]
  IN {T \in SUBSET (S \cap Named) :
        /\ \A m, n \in T : Name(m) = Name(n) => m = n
        /\ \A n \in S \cap Named : \E m \in T : Name(m) = Name(n)}

\* ProcessNodeENIBindings, up to the updates of the file.  NodeENIs that are not attached
\* yet are skipped; an update is collected before the binding is tried, so a device whose
\* binding fails is published as well, and not tried again.
ProcessNodeENIBindings(p) ==
  /\ pc[p] = "bind"
  /\ LET D == DPDK(list[p]) IN
     \/ /\ D = {} \/ ~hasNodeENIChanges(lastDPDKStates, list[p], D)
        /\ Goto(p, "unbind") /\ UNCHANGED <<DPDKBoundInterfaces, updates>>
     \/ /\ D # {} /\ hasNodeENIChanges(lastDPDKStates, list[p], D)
        /\ \E attached \in SUBSET D : \E bound \in SUBSET attached, T \in Collected(attached) :
             /\ DPDKBoundInterfaces' = DPDKBoundInterfaces \cup bound
             /\ updates' = [updates EXCEPT ![p] = T]
             /\ Goto(p, IF T = {} THEN "recordDPDK" ELSE "loadDPDK")
  /\ UNCHANGED <<world, disk, previousNodeENIs, lastNodeENIStates, nodeENISRIOVResources,
                 lastDPDKStates, mutex, list, deleted, config>>

Added(p) == updates' = [updates EXCEPT ![p] = {}]

\* The DPDK coordinator's sriovMutex is held from the load to the end of the save.  An error
\* skips the recording of the versions.
applyBatchedSRIOVUpdates(p) ==
  /\ pc[p] = "loadDPDK"
  /\ \A q \in Passes : pc[q] # "publishDPDK"
  /\ LoadAndChange(p, WithUpdates(LoadOrCreateConfig, ResourceName, "vfio-pci", updates[p]),
                   "publishDPDK", "recordDPDK", "unbind")
  /\ Added(p)
  /\ UNCHANGED <<world, tracking, mutex, list, deleted>>

PublishDPDKResources(p) ==
  /\ pc[p] = "publishDPDK"
  /\ \/ Filled(p) /\ Goto(p, "recordDPDK")
     \/ SaveFails(p) /\ Goto(p, "unbind")
  /\ Forget(p)
  /\ UNCHANGED <<world, tracking, mutex, list, deleted, updates>>

RecordDPDKStates(p) ==
  /\ pc[p] = "recordDPDK"
  /\ lastDPDKStates' = VersionsOf(list[p], DPDK(list[p]))
  /\ Goto(p, "unbind")
  /\ UNCHANGED <<world, disk, previousNodeENIs, lastNodeENIStates, nodeENISRIOVResources,
                 DPDKBoundInterfaces, mutex, list, deleted, updates, config>>

\* A device bound by PCI address has no interface name, and UnbindInterfaceFromDPDK looks
\* for the name: for each device that is to go, the first one without a name goes, if the
\* script succeeds.
CheckForUnbinding(p) ==
  /\ pc[p] = "unbind"
  /\ \E unbound \in SUBSET DPDKBoundInterfaces :
       /\ Cardinality(unbound) <= Cardinality(DPDKBoundInterfaces \ DPDK(list[p]))
       /\ DPDKBoundInterfaces' = DPDKBoundInterfaces \ unbound
  /\ Goto(p, "sriov")
  /\ UNCHANGED <<world, disk, previousNodeENIs, lastNodeENIStates, nodeENISRIOVResources,
                 lastDPDKStates, mutex, list, deleted, updates, config>>

-----------------------------------------------------------------------------
(* processNodeENIs: SR-IOV without DPDK *)

EndPass(p) == Goto(p, "idle") /\ list' = [list EXCEPT ![p] = Nothing]

Plain(l) == Present(l) \ DPDK(l)

\* Mutant of updateSRIOVConfiguration: the versions are recorded before the file is written.
updateSRIOVConfigurationRecorded(p) ==
  /\ pc[p] = "sriov" /\ mutex = NoDevice
  /\ IF hasNodeENIChanges(lastNodeENIStates, list[p], Present(list[p]))
     THEN LET S == Plain(list[p]) \cap interfaces IN
          /\ nodeENISRIOVResources' = nodeENISRIOVResources \cup S
          /\ updates' = [updates EXCEPT ![p] = S]
          /\ lastNodeENIStates' = VersionsOf(list[p], Present(list[p]))
          /\ Goto(p, IF S = {} THEN "record" ELSE "load")
          /\ UNCHANGED list
     ELSE EndPass(p) /\ UNCHANGED <<nodeENISRIOVResources, lastNodeENIStates, updates>>
  /\ UNCHANGED <<world, disk, previousNodeENIs, DPDKBoundInterfaces, lastDPDKStates, mutex,
                 deleted, config>>

\* Tracks and publishes the NodeENIs without DPDK whose interfaces show now.  Those whose
\* interfaces do not show are left out, but their versions are recorded with the others'.
updateSRIOVConfiguration(p) ==
  /\ pc[p] = "sriov" /\ mutex = NoDevice
  /\ \/ /\ ~hasNodeENIChanges(lastNodeENIStates, list[p], Present(list[p]))
        /\ EndPass(p)
        /\ UNCHANGED <<nodeENISRIOVResources, updates, disk>>
     \/ /\ hasNodeENIChanges(lastNodeENIStates, list[p], Present(list[p]))
        /\ LET S == Plain(list[p]) \cap interfaces IN
           /\ nodeENISRIOVResources' = nodeENISRIOVResources \cup S
           /\ updates' = [updates EXCEPT ![p] = S]
           /\ Goto(p, IF S = {} THEN "record" ELSE "load")
        /\ UNCHANGED <<list, disk>>
     \/ /\ hasNodeENIChanges(lastNodeENIStates, list[p], Present(list[p]))
        /\ CallFails    \* GetAllInterfaces
        /\ EndPass(p)
        /\ UNCHANGED <<nodeENISRIOVResources, updates>>
  /\ UNCHANGED <<world, previousNodeENIs, lastNodeENIStates, DPDKBoundInterfaces,
                 lastDPDKStates, mutex, deleted, config>>

\* An error ends the pass without a record of the versions, here and in the save.
LoadForUpdates(p) ==
  /\ pc[p] = "load"
  /\ LoadAndChange(p, WithUpdates(LoadOrCreateConfig, SRIOVResource, "ena", updates[p]),
                   "publish", "record", "idle")
  /\ list' = IF pc'[p] = "idle" THEN [list EXCEPT ![p] = Nothing] ELSE list
  /\ Added(p)
  /\ UNCHANGED <<world, tracking, mutex, deleted>>

PublishResources(p) ==
  /\ pc[p] = "publish"
  /\ \/ Filled(p) /\ Goto(p, "record") /\ UNCHANGED list
     \/ SaveFails(p) /\ EndPass(p)
  /\ Forget(p)
  /\ UNCHANGED <<world, tracking, mutex, deleted, updates>>

updateNodeENIStates(p) ==
  /\ pc[p] = "record" /\ mutex = NoDevice
  /\ lastNodeENIStates' = VersionsOf(list[p], Present(list[p]))
  /\ EndPass(p)
  /\ UNCHANGED <<world, disk, previousNodeENIs, nodeENISRIOVResources, DPDKBoundInterfaces,
                 lastDPDKStates, mutex, deleted, updates, config>>

Step(p) ==
  \/ ListNodeENIs(p) \/ handleNodeENIDeletions(p) \/ cleanupSRIOVConfigForNodeENI(p)
  \/ DropBound(p) \/ UnpublishBound(p) \/ DropTracked(p) \/ UnpublishTracked(p)
  \/ ensureMinimalSRIOVConfig(p) \/ SavePlaceholder(p) \/ SetPrevious(p)
  \/ ProcessNodeENIBindings(p) \/ applyBatchedSRIOVUpdates(p) \/ PublishDPDKResources(p)
  \/ RecordDPDKStates(p) \/ CheckForUnbinding(p)
  \/ updateSRIOVConfiguration(p) \/ LoadForUpdates(p) \/ PublishResources(p)
  \/ updateNodeENIStates(p) \/ OpenFile(p)

-----------------------------------------------------------------------------
(* The environment *)

\* A NodeENI is created or changed: it has a new resource version.
Apply(n) ==
  /\ cluster[n].version < MaxVersion[n]
  /\ \E dpdk \in BOOLEAN :
       cluster' = [cluster EXCEPT ![n] = [live |-> TRUE, version |-> @.version + 1, dpdk |-> dpdk]]
  /\ UNCHANGED <<serial, interfaces, disk, tracking, mutex, pc, list, deleted, updates, config>>

Delete(n) ==
  /\ cluster[n].live
  /\ cluster' = [cluster EXCEPT ![n] = [live |-> FALSE, version |-> @.version, dpdk |-> FALSE]]
  /\ UNCHANGED <<serial, interfaces, disk, tracking, mutex, pc, list, deleted, updates, config>>

\* An interface appears, after an attachment or with the kernel's driver, or disappears.
InterfaceChanges(n) ==
  /\ interfaces' = IF n \in interfaces THEN interfaces \ {n} ELSE interfaces \cup {n}
  /\ UNCHANGED <<serial, cluster, disk, tracking, mutex, pc, list, deleted, updates, config>>

\* The process stops anywhere and starts again with nothing but the file.
Restart ==
  /\ history = {} /\ "restarted" \in Faults
  /\ history' = {"restarted"}
  /\ writing' = {}
  /\ previousNodeENIs' = {} /\ nodeENISRIOVResources' = {} /\ DPDKBoundInterfaces' = {}
  /\ lastNodeENIStates' = NoVersions /\ lastDPDKStates' = NoVersions
  /\ mutex' = NoDevice
  /\ pc' = [p \in Passes |-> "idle"]
  /\ list' = [p \in Passes |-> Nothing]
  /\ deleted' = [p \in Passes |-> {}]
  /\ updates' = [p \in Passes |-> {}]
  /\ config' = [p \in Passes |-> {}]
  /\ UNCHANGED <<world, file>>

Next ==
  \/ \E p \in Passes : Step(p)
  \/ \E n \in NodeENIs : Apply(n) \/ Delete(n) \/ InterfaceChanges(n)
  \/ Restart

Spec == Init /\ [][Next]_vars

\* Tickers tick, calls return, and a mutex that is free again and again is obtained: Go's
\* mutexes do not starve a waiter.
Fairness == \A p \in Passes : SF_vars(Step(p))

FairSpec == Spec /\ Fairness

-----------------------------------------------------------------------------
(* Properties *)

InCleanup(p) ==
  pc[p] \in {"dropBound", "unpublishBound", "dropTracked", "unpublishTracked", "minimal",
             "placeholder"}

\* Once no cleanup is under way the device plugin's file is not without resources, however
\* the removals, additions and repairs of overlapping passes mix; a call that fails and a
\* stop in the middle of a cleanup are the exceptions.  A torn file is not an empty one: it
\* counts as the minimal configuration when it is loaded next.
MinimalAtRest ==
  /\ history \subseteq {"torn"}
  /\ \A p \in Passes : ~InCleanup(p)
  => file # {}

\* No placeholder is left beside a real resource, also when a pass overwrites the changes
\* another has made since it loaded the file.
NoPlaceholderBesideReal == Real(file) # {} => {Minimal, Placeholder} \cap file = {}

\* A pass ends, although a cleanup holds the coordinator's mutex while it works on the file.
EveryPassEnds == \A p \in Passes : pc[p] # "idle" ~> pc[p] = "idle"

\* The resource of a NodeENI without DPDK lists its device; with which driver is another
\* matter, because a device that is listed already is left as it is.
Published(n) == n \in DevicesOf(file, SRIOVResource[n])

\* The pass is about to look for the interfaces of the NodeENIs without DPDK, this one
\* among them, in its present version.
AboutToLook(p, n) ==
  pc[p] = "sriov" /\ n \in Plain(list[p]) /\ list[p][n].version = cluster[n].version

\* A NodeENI without DPDK that is there to stay is published for good, also after restarts and
\* failed calls, when its device was used with DPDK before, and when it was deleted and
\* re-created, provided its interface shows whenever a pass that has listed its present
\* version looks; only a torn file loses what others have published in it.
StaysPublished(n) ==
  /\ <>[](cluster[n].live /\ ~cluster[n].dpdk)
  /\ [](\A p \in Passes : AboutToLook(p, n) => n \in interfaces)
  => <>[](Published(n) \/ writing # {} \/ "torn" \in history)

\* So it is if passes do not overlap.
LiveIsPublished == serial => \A n \in NodeENIs : StaysPublished(n)

\* The file has nothing left of a NodeENI that is deleted for good: no failed call and no
\* restart in between.
GoesForGood(n) ==
  <>[](~cluster[n].live)
  => <>[]((\A r \in Resources : n \notin DevicesOf(file, r)) \/ history # {})

\* So it is if passes do not overlap, for a NodeENI that was never one with DPDK.
DeletedIsUnpublished ==
  serial => \A n \in NodeENIs : [](~cluster[n].dpdk) => GoesForGood(n)

\* The resource that lists a device never used with DPDK has the driver of such devices,
\* whatever devices with DPDK it shares the resource with.
PlainKeepsDriver ==
  \A n \in NodeENIs :
    [](~cluster[n].dpdk) => [](Published(n) => "ena" \in DriversOf(file, SRIOVResource[n]))

=============================================================================
