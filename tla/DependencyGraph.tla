--------------------------- MODULE DependencyGraph ---------------------------
(***************************************************************************)
(* The dependency graph, and the dependency manager that fills it with the *)
(* steps of attaching and detaching an ENI.                                *)
(*                                                                         *)
(* A dependency waits for others to be removed from the graph and for its  *)
(* resource to be in a state.  The manager adds the dependencies of one    *)
(* request one by one, under a mutex that a caller who asks for ready      *)
(* operations, or completes one, does not take.  The order of the whole    *)
(* graph is found by a depth-first search under the graph's read lock.     *)
(***************************************************************************)
EXTENDS Naturals, FiniteSets, Sequences, SequencesExt

CONSTANTS
  RawIDs,    \* IDs of dependencies added straight to the graph
  ENIs,
  MaxAdds    \* bound: requests to the manager

Kinds == {"instance", "subnet", "eni", "dpdk-unbind", "detach"}

IDs == RawIDs \cup (Kinds \X ENIs)

\* One instance and one subnet serve every ENI; "other" is what raw dependencies name.
Resources == {<<"instance">>, <<"subnet">>, <<"other">>} \cup ({"eni", "dpdk"} \X ENIs)

VARIABLES
  dependencies,    \* the dependency with an ID: what it waits for, or Absent
  resourceStates,  \* a resource's state
  creating,        \* dependencies of a request still to be added
  handed,          \* what a caller got from GetReadyDependencies and has yet to complete
  completed,       \* history: IDs completed since they were last added
  adds,            \* bound: requests so far
  search,          \* where ResolveDependencyOrder is: "idle" when nobody has called it
  path,            \* the calls of visit under way, outermost first: the IDs marked visiting
  visited,         \* the IDs marked visited
  order            \* the result so far

searchVars == <<search, path, visited, order>>

vars == <<dependencies, resourceStates, creating, handed, completed, adds, searchVars>>

Absent == [on |-> {}, resource |-> <<"other">>, requires |-> "absent", priority |-> 0]

Dependencies ==
  [on : SUBSET IDs, resource : Resources,
   requires : {"unknown", "available", "in-use"}, priority : Nat] \cup {Absent}

\* The states the callers report of a resource.
StatesOf(r) ==
  IF r = <<"other">> THEN {"unknown"}
  ELSE IF r \in {"eni"} \X ENIs THEN {"unknown", "available", "in-use"}
  ELSE {"unknown", "available"}

TypeOK ==
  /\ \A id \in IDs : dependencies[id] \in Dependencies
  /\ \A r \in Resources : resourceStates[r] \in StatesOf(r)
  /\ handed \subseteq IDs
  /\ completed \subseteq IDs
  /\ adds \in 0..MaxAdds
  /\ search \in {"idle", "searching", "circular"}
  /\ path \in Seq(IDs) /\ order \in Seq(IDs)
  /\ visited \subseteq IDs

Init ==
  /\ dependencies = [id \in IDs |-> Absent]
  /\ resourceStates = [r \in Resources |-> "unknown"]
  /\ creating = <<>>
  /\ handed = {} /\ completed = {}
  /\ adds = 0
  /\ search = "idle"
  /\ path = <<>> /\ visited = {} /\ order = <<>>

Present(id) == dependencies[id] # Absent

\* The search reads under the graph's lock, and who writes waits for it.
Unlocked == search = "idle"

\* With each ID also those it waits for.
Closed(ids) == \A id \in ids : dependencies[id].on \subseteq ids

\* The IDs met on the way along DependsOn from a set of them, those included.
Reach(ids) == {id \in IDs : \A S \in SUBSET IDs : ids \subseteq S /\ Closed(S) => id \in S}

\* Mutant of wouldCreateCycle: only direct dependencies are looked at.
wouldCreateCycleDirect(id, dep) ==
  \E on \in dep.on : on = id \/ id \in dependencies[on].on

\* The search along DependsOn, from what the new dependency waits for, meets its ID.
wouldCreateCycle(id, dep) == id \in Reach(dep.on)

\* The check and the insertion; a dependency with the same ID is replaced.
Added(id, dep) ==
  /\ ~wouldCreateCycle(id, dep)
  /\ dependencies' = [dependencies EXCEPT ![id] = dep]
  /\ completed' = completed \ {id}

\* A dependency added straight to the graph; it may wait for IDs not in the graph.
AddDependency(id, on) ==
  /\ Unlocked
  /\ LET dep == [on |-> on, resource |-> <<"other">>, requires |-> "unknown", priority |-> 1]
     IN \/ Added(id, dep)
        \/ wouldCreateCycle(id, dep) /\ UNCHANGED <<dependencies, completed>>
  /\ UNCHANGED <<resourceStates, creating, handed, adds, searchVars>>

RemoveDependency(id) ==
  /\ Unlocked /\ Present(id)
  /\ dependencies' = [dependencies EXCEPT ![id] = Absent]
  /\ completed' = completed \cup {id}
  /\ UNCHANGED <<resourceStates, creating, handed, adds, searchVars>>

UpdateResourceState(r, s) ==
  /\ Unlocked
  /\ resourceStates' = [resourceStates EXCEPT ![r] = s]
  /\ UNCHANGED <<dependencies, creating, handed, completed, adds, searchVars>>

-----------------------------------------------------------------------------
(* The dependency manager *)

Entry(id, on, resource, requires, priority) ==
  <<id, [on |-> on, resource |-> resource, requires |-> requires, priority |-> priority]>>

\* Mutant of AttachmentSteps: the ENI's dependency is added before the ones it waits for.
AttachmentStepsENIFirst(e) ==
  <<Entry(<<"eni", e>>, {<<"instance", e>>, <<"subnet", e>>}, <<"eni", e>>, "available", 5),
    Entry(<<"instance", e>>, {}, <<"instance">>, "available", 10),
    Entry(<<"subnet", e>>, {}, <<"subnet">>, "available", 8)>>

AttachmentSteps(e) ==
  <<Entry(<<"instance", e>>, {}, <<"instance">>, "available", 10),
    Entry(<<"subnet", e>>, {}, <<"subnet">>, "available", 8),
    Entry(<<"eni", e>>, {<<"instance", e>>, <<"subnet", e>>}, <<"eni", e>>, "available", 5)>>

DetachmentSteps(e, enableDPDK) ==
  LET unbind == <<Entry(<<"dpdk-unbind", e>>, {}, <<"dpdk", e>>, "available", 15)>>
      detach(on) == <<Entry(<<"detach", e>>, on, <<"eni", e>>, "in-use", 10)>>
  IN IF enableDPDK THEN unbind \o detach({<<"dpdk-unbind", e>>}) ELSE detach({})

\* A request takes the manager's mutex: one is under way at a time.
BeginCreate(steps) ==
  /\ creating = <<>> /\ adds < MaxAdds
  /\ creating' = steps
  /\ adds' = adds + 1
  /\ UNCHANGED <<dependencies, resourceStates, handed, completed, searchVars>>

CreateENIAttachmentDependencies(e) == BeginCreate(AttachmentSteps(e))

CreateENIDetachmentDependencies(e) ==
  \E enableDPDK \in BOOLEAN : BeginCreate(DetachmentSteps(e, enableDPDK))

\* One AddDependency of the request.  One that is refused would end it with an error and
\* the ones before left in the graph; the steps of a request never make a cycle.
CreateStep ==
  /\ Unlocked /\ creating # <<>>
  /\ Added(Head(creating)[1], Head(creating)[2])
  /\ creating' = Tail(creating)
  /\ UNCHANGED <<resourceStates, handed, adds, searchVars>>

\* Mutant of isDependencyReady: what a dependency waits for must be in the graph and is
\* looked up by its resource's state.
isDependencyReadyByState(id) ==
  /\ \A on \in dependencies[id].on :
       Present(on) /\ resourceStates[dependencies[on].resource] = dependencies[on].requires
  /\ resourceStates[dependencies[id].resource] = dependencies[id].requires

isDependencyReady(id) ==
  /\ \A on \in dependencies[id].on : ~Present(on)
  /\ \/ dependencies[id].requires = "unknown"
     \/ resourceStates[dependencies[id].resource] = dependencies[id].requires

\* The caller keeps the list while the graph and the resources change.
GetReadyDependencies ==
  /\ handed = {}
  /\ handed' = {id \in IDs : Present(id) /\ isDependencyReady(id)}
  /\ handed' # {}
  /\ UNCHANGED <<dependencies, resourceStates, creating, completed, adds, searchVars>>

\* The list is worked off by priority; what was replaced meanwhile goes all the same.
CompleteDependency(id) ==
  /\ Unlocked /\ id \in handed
  /\ \A other \in handed : dependencies[id].priority >= dependencies[other].priority
  /\ handed' = handed \ {id}
  /\ dependencies' = [dependencies EXCEPT ![id] = Absent]
  /\ completed' = completed \cup {id}
  /\ UNCHANGED <<resourceStates, creating, adds, searchVars>>

-----------------------------------------------------------------------------
(* ResolveDependencyOrder, a recursive search: its calls are a path *)

ResolveDependencyOrder ==
  /\ search = "idle"
  /\ search' = "searching"
  /\ UNCHANGED <<path, visited, order>>

\* The next ID of a loop, over the map outside all calls, over DependsOn in a call.  Either
\* may yield its IDs in any order; those visited before are passed over.
Visit(id) ==
  /\ search = "searching" /\ id \notin visited
  /\ IF path = <<>> THEN Present(id) ELSE id \in dependencies[Last(path)].on
  /\ search' = IF id \in ToSet(path) THEN "circular" ELSE search
  /\ path' = IF id \in ToSet(path) THEN path ELSE Append(path, id)
  /\ UNCHANGED <<visited, order>>

\* The innermost call has been through the IDs its own waits for.
Visited ==
  /\ search = "searching" /\ path # <<>>
  /\ LET id == Last(path)
     IN /\ dependencies[id].on \subseteq visited
        /\ order' = IF Present(id) THEN Append(order, id) ELSE order
        /\ visited' = visited \cup {id}
  /\ path' = Front(path)
  /\ UNCHANGED search

\* The outer loop is over, and the order complete.
Resolved == search = "searching" /\ path = <<>> /\ {id \in IDs : Present(id)} \subseteq visited

\* The order goes to the caller; a circular dependency ends all calls with an error.
ReturnOrder ==
  /\ search = "circular" \/ Resolved
  /\ search' = "idle" /\ path' = <<>> /\ visited' = {} /\ order' = <<>>

SearchStep == (\E id \in IDs : Visit(id)) \/ Visited

SearchNext ==
  /\ ResolveDependencyOrder \/ SearchStep \/ ReturnOrder
  /\ UNCHANGED <<dependencies, resourceStates, creating, handed, completed, adds>>

-----------------------------------------------------------------------------

GraphNext ==
  \/ \E id \in RawIDs, on \in SUBSET RawIDs : AddDependency(id, on)
  \/ \E id \in RawIDs : RemoveDependency(id)
  \/ SearchNext

ManagerNext ==
  \/ \E e \in ENIs : CreateENIAttachmentDependencies(e) \/ CreateENIDetachmentDependencies(e)
  \/ CreateStep
  \/ \E r \in Resources, s \in {"available", "in-use"} :
       s \in StatesOf(r) /\ UpdateResourceState(r, s)
  \/ GetReadyDependencies
  \/ \E id \in IDs : CompleteDependency(id)

Next == GraphNext \/ ManagerNext

\* A request runs to its end, and a caller keeps asking for ready operations and
\* completes what it got.  Nothing is assumed of the resources' states.
Fairness ==
  /\ WF_vars(CreateStep)
  /\ WF_vars(GetReadyDependencies)
  /\ WF_vars(\E id \in IDs : CompleteDependency(id))

Spec == Init /\ [][Next]_vars

-----------------------------------------------------------------------------
(* Properties *)

Acyclic == \A id \in IDs : id \notin Reach(dependencies[id].on)

\* Whatever is added, replaced and removed in whatever order, no dependency waits for
\* itself through others, also when the cycle would close through an ID that was waited for
\* before it was added; so a search never finds one, and the order it builds holds each
\* dependency of the graph once, behind every dependency it waits for, wherever it starts.
AlwaysOrdered ==
  /\ Acyclic
  /\ search # "circular"
  /\ IsInjective(order)
  /\ \A i, j \in DOMAIN order : order[j] \in dependencies[order[i]].on => j < i
  /\ Resolved => ToSet(order) = {id \in IDs : Present(id)}

\* A caller who asks in the middle of a request, or between two requests for one ENI, is
\* never handed a step before the steps it waits for have been completed.
OnlyAfterPrerequisites ==
  [][\A id \in handed' \ handed : dependencies[id].on \subseteq completed]_vars

\* When the resources come to stay in the states that the dependencies on them require,
\* every dependency is completed: requests that meet and retries leave none that waits
\* for ever.
Drains ==
  <>[](\A id \in IDs : Present(id) =>
         resourceStates[dependencies[id].resource] = dependencies[id].requires)
    => <>[](\A id \in IDs : ~Present(id))

=============================================================================
