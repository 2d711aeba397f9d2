---------------------------- MODULE Graph_proofs ----------------------------
(***************************************************************************)
(* The dependency graph, for any IDs and ENIs: it never gets a cycle, the  *)
(* manager's callers get no step before the steps it waits for, and with   *)
(* that the types of all the parts.                                        *)
(***************************************************************************)
EXTENDS Devices_proofs

-----------------------------------------------------------------------------
(* Types *)

\* What a request adds: an ID with its dependency.
Steps ==
  Graph!IDs \X [on : SUBSET Graph!IDs, resource : Graph!Resources,
                requires : {"unknown", "available", "in-use"}, priority : Nat]

GraphTypes ==
  /\ dependencies \in [Graph!IDs -> Graph!Dependencies]
  /\ DOMAIN resourceStates = Graph!Resources
  /\ \A r \in Graph!Resources : resourceStates[r] \in Graph!StatesOf(r)
  /\ creating \in Seq(Steps)
  /\ handed \subseteq Graph!IDs /\ completed \subseteq Graph!IDs
  /\ adds \in 0..MaxAdds
  /\ search \in {"idle", "searching", "circular"}
  /\ path \in Seq(Graph!IDs) /\ order \in Seq(Graph!IDs)
  /\ visited \subseteq Graph!IDs

\* A step of a request waits for earlier ones only.
Staged(steps) ==
  \A i \in 1..Len(steps) : \A on \in steps[i][2].on :
    \E j \in 1..(i - 1) : steps[j][1] = on

LEMMA AttachmentStaged ==
  ASSUME NEW e \in GraphENIs
  PROVE  Graph!AttachmentSteps(e) \in Seq(Steps) /\ Staged(Graph!AttachmentSteps(e))
<1> USE DEF Graph!Entry
<1>1. /\ <<"instance", e>> \in Graph!IDs /\ <<"subnet", e>> \in Graph!IDs
      /\ <<"eni", e>> \in Graph!IDs
  BY DEF Graph!IDs, Graph!Kinds
<1>2. /\ <<"instance">> \in Graph!Resources /\ <<"subnet">> \in Graph!Resources
      /\ <<"eni", e>> \in Graph!Resources
  BY DEF Graph!Resources
<1>3. /\ Graph!Entry(<<"instance", e>>, {}, <<"instance">>, "available", 10) \in Steps
      /\ Graph!Entry(<<"subnet", e>>, {}, <<"subnet">>, "available", 8) \in Steps
      /\ Graph!Entry(<<"eni", e>>, {<<"instance", e>>, <<"subnet", e>>}, <<"eni", e>>,
                     "available", 5) \in Steps
  BY <1>1, <1>2 DEF Steps
<1>4. Graph!AttachmentSteps(e) \in Seq(Steps)
  BY <1>3 DEF Graph!AttachmentSteps
<1>5. Staged(Graph!AttachmentSteps(e))
  BY DEF Staged, Graph!AttachmentSteps
<1> QED  BY <1>4, <1>5

LEMMA DetachmentStaged ==
  ASSUME NEW e \in GraphENIs, NEW enableDPDK \in BOOLEAN
  PROVE  /\ Graph!DetachmentSteps(e, enableDPDK) \in Seq(Steps)
         /\ Staged(Graph!DetachmentSteps(e, enableDPDK))
<1>1. <<"dpdk-unbind", e>> \in Graph!IDs /\ <<"detach", e>> \in Graph!IDs
  BY DEF Graph!IDs, Graph!Kinds
<1>2. <<"dpdk", e>> \in Graph!Resources /\ <<"eni", e>> \in Graph!Resources
  BY DEF Graph!Resources
<1> DEFINE unbind == Graph!Entry(<<"dpdk-unbind", e>>, {}, <<"dpdk", e>>, "available", 15)
           detach(on) == Graph!Entry(<<"detach", e>>, on, <<"eni", e>>, "in-use", 10)
<1>3. /\ unbind \in Steps /\ unbind[1] = <<"dpdk-unbind", e>> /\ unbind[2].on = {}
      /\ \A on \in SUBSET Graph!IDs : detach(on) \in Steps /\ detach(on)[2].on = on
  BY <1>1, <1>2 DEF Steps, Graph!Entry
<1>4. Graph!DetachmentSteps(e, enableDPDK) =
        IF enableDPDK THEN <<unbind>> \o <<detach({<<"dpdk-unbind", e>>})>>
                      ELSE <<detach({})>>
  BY DEF Graph!DetachmentSteps
<1> HIDE DEF unbind, detach
<1>5. CASE enableDPDK
  <2> DEFINE last == detach({<<"dpdk-unbind", e>>})
  <2>1. last \in Steps /\ last[2].on = {<<"dpdk-unbind", e>>}
    BY <1>1, <1>3
  <2> HIDE DEF last
  <2>2. LET both == <<unbind>> \o <<last>>
        IN both \in Seq(Steps) /\ Len(both) = 2 /\ both[1] = unbind /\ both[2] = last
    BY <1>3, <2>1
  <2>3. Graph!DetachmentSteps(e, enableDPDK) = <<unbind>> \o <<last>>
    BY <1>4, <1>5 DEF last
  <2> QED  BY <1>3, <2>1, <2>2, <2>3 DEF Staged
<1>6. CASE ~enableDPDK
  <2>1. detach({}) \in Steps /\ detach({})[2].on = {}
    BY <1>3
  <2> QED  BY <1>4, <1>6, <2>1 DEF Staged
<1> QED  BY <1>5, <1>6

\* The last member of a sequence, and what is before it.
LEMMA LastAndFront ==
  ASSUME NEW s \in Seq(Graph!IDs), s # <<>>
  PROVE  /\ Len(s) \in Nat \ {0}
         /\ Graph!Last(s) = s[Len(s)] /\ Graph!Last(s) \in Graph!IDs
         /\ Graph!Front(s) \in Seq(Graph!IDs) /\ Len(Graph!Front(s)) = Len(s) - 1
         /\ \A i \in 1..(Len(s) - 1) : Graph!Front(s)[i] = s[i]
<1>1. Len(s) \in Nat \ {0}
  OBVIOUS
<1> DEFINE n == Len(s) - 1
<1>2. n \in Nat /\ n <= Len(s)
  BY <1>1
<1> HIDE DEF n
<1>3. SubSeq(s, 1, n) \in Seq(Graph!IDs)
  BY <1>2
<1>4. Len(SubSeq(s, 1, n)) = n /\ \A i \in 1..n : SubSeq(s, 1, n)[i] = s[i]
  BY <1>2
<1>5. Graph!Front(s) = SubSeq(s, 1, n)
  BY DEF Graph!Front, n
<1>6. Graph!Last(s) = s[Len(s)] /\ s[Len(s)] \in Graph!IDs
  BY <1>1 DEF Graph!Last
<1> QED  BY <1>1, <1>3, <1>4, <1>5, <1>6 DEF n

\* A search changes nothing but its own state, and keeps that within its types.
LEMMA SearchTypes ==
  ASSUME GraphTypes, Graph!SearchNext
  PROVE  GraphTypes'
<1> USE DEF GraphTypes
<1>1. UNCHANGED <<dependencies, resourceStates, creating, handed, completed, adds>>
  BY DEF Graph!SearchNext
<1>2. CASE Graph!ResolveDependencyOrder
  BY <1>1, <1>2 DEF Graph!ResolveDependencyOrder
<1>3. ASSUME NEW id \in Graph!IDs, Graph!Visit(id)
      PROVE  GraphTypes'
  BY <1>1, <1>3 DEF Graph!Visit
<1>4. CASE Graph!Visited
  BY <1>1, <1>4, LastAndFront DEF Graph!Visited
<1>5. CASE Graph!ReturnOrder
  BY <1>1, <1>5 DEF Graph!ReturnOrder
<1> QED  BY <1>2, <1>3, <1>4, <1>5 DEF Graph!SearchNext, Graph!SearchStep

\* Every step of the graph and of its manager keeps the types.
LEMMA NextGraphTypes ==
  ASSUME MaxAdds \in Nat, GraphTypes, [Graph!Next]_(Graph!vars)
  PROVE  GraphTypes'
<1> USE DEF GraphTypes, Graph!searchVars
<1>1. Graph!Absent \in Graph!Dependencies
  BY DEF Graph!Dependencies
<1>2. ASSUME NEW id \in Graph!IDs, NEW dep \in Graph!Dependencies, Graph!Added(id, dep)
      PROVE  /\ dependencies' \in [Graph!IDs -> Graph!Dependencies]
             /\ completed' \subseteq Graph!IDs
  BY <1>2 DEF Graph!Added
<1>3. ASSUME NEW id \in RawIDs, NEW on \in SUBSET RawIDs, Graph!AddDependency(id, on)
      PROVE  GraphTypes'
  <2> DEFINE dep == [on |-> on, resource |-> <<"other">>, requires |-> "unknown", priority |-> 1]
  <2>1. id \in Graph!IDs /\ dep \in Graph!Dependencies
    BY DEF Graph!IDs, Graph!Dependencies, Graph!Resources
  <2>2. /\ Graph!Added(id, dep) \/ UNCHANGED <<dependencies, completed>>
        /\ UNCHANGED <<resourceStates, creating, handed, adds, Graph!searchVars>>
    BY <1>3 DEF Graph!AddDependency
  <2> HIDE DEF dep
  <2> QED  BY <1>2, <2>1, <2>2
<1>4. ASSUME NEW id \in RawIDs, Graph!RemoveDependency(id)
      PROVE  GraphTypes'
  BY <1>1, <1>4 DEF Graph!RemoveDependency, Graph!IDs
<1>5. ASSUME NEW e \in GraphENIs,
             \/ Graph!CreateENIAttachmentDependencies(e)
             \/ Graph!CreateENIDetachmentDependencies(e)
      PROVE  GraphTypes'
  <2>1. creating' \in Seq(Steps)
    BY <1>5, AttachmentStaged, DetachmentStaged
    DEF Graph!CreateENIAttachmentDependencies, Graph!CreateENIDetachmentDependencies,
        Graph!BeginCreate
  <2>2. /\ adds < MaxAdds /\ adds' = adds + 1
        /\ UNCHANGED <<dependencies, resourceStates, handed, completed, Graph!searchVars>>
    BY <1>5 DEF Graph!CreateENIAttachmentDependencies,
                Graph!CreateENIDetachmentDependencies, Graph!BeginCreate
  <2> QED  BY <2>1, <2>2
<1>6. CASE Graph!CreateStep
  <2>1. /\ Head(creating) \in Steps /\ creating' \in Seq(Steps)
        /\ Graph!Added(Head(creating)[1], Head(creating)[2])
        /\ UNCHANGED <<resourceStates, handed, adds, Graph!searchVars>>
    BY <1>6 DEF Graph!CreateStep
  <2>2. Head(creating)[1] \in Graph!IDs /\ Head(creating)[2] \in Graph!Dependencies
    BY <2>1 DEF Steps, Graph!Dependencies
  <2> QED  BY <1>2, <2>1, <2>2
<1>7. ASSUME NEW r \in Graph!Resources, NEW s, s \in Graph!StatesOf(r),
             Graph!UpdateResourceState(r, s)
      PROVE  GraphTypes'
  BY <1>7 DEF Graph!UpdateResourceState
<1>8. CASE Graph!GetReadyDependencies
  BY <1>8 DEF Graph!GetReadyDependencies
<1>9. ASSUME NEW id \in Graph!IDs, Graph!CompleteDependency(id)
      PROVE  GraphTypes'
  BY <1>1, <1>9 DEF Graph!CompleteDependency
<1>10. CASE UNCHANGED Graph!vars
  BY <1>10 DEF Graph!vars
<1>11. CASE Graph!GraphNext
  BY <1>3, <1>4, <1>11, SearchTypes DEF Graph!GraphNext
<1>12. CASE Graph!ManagerNext
  BY <1>5, <1>6, <1>7, <1>8, <1>9, <1>12 DEF Graph!ManagerNext
<1> QED  BY <1>10, <1>11, <1>12 DEF Graph!Next

LEMMA GraphTypesInvariance == ASSUME MaxAdds \in Nat PROVE Graph!Spec => []GraphTypes
<1>1. Graph!Init => GraphTypes
  BY DEF Graph!Init, GraphTypes, Graph!Dependencies, Graph!StatesOf
<1>2. GraphTypes /\ [Graph!Next]_(Graph!vars) => GraphTypes'
  BY NextGraphTypes
<1> QED  BY <1>1, <1>2, PTL DEF Graph!Spec

\* Every part keeps its state within its types, with whatever the others are combined.
THEOREM TypeCorrectness ==
  ASSUME BreakerLimits, MaxAdds \in Nat, MaxFailures \in Nat, IndexLimits
  PROVE  Spec => []TypeOK
<1>1. GraphTypes => Graph!TypeOK
  BY DEF GraphTypes, Graph!TypeOK
<1>2. UnbindInv => Unbind!TypeOK  BY DEF UnbindInv
<1>3. IndexInv => Indices!TypeOK  BY DEF IndexInv
<1>4. ScriptInv => DPDK!TypeOK  BY DEF ScriptInv
<1>5. Thresholds  BY DEF BreakerLimits, Thresholds
<1> QED
  BY <1>1, <1>2, <1>3, <1>4, <1>5, PartsBehave, BreakerTypes, MappingTypes,
     GraphTypesInvariance, ScriptInvariance, UnbindInvariance, IndexInvariance, PTL
  DEF TypeOK

-----------------------------------------------------------------------------
(* No cycle *)

\* What an ID does not reach lies outside a closed set that holds where the search starts.
LEMMA NotReached ==
  ASSUME NEW id \in Graph!IDs, NEW ids
  PROVE  id \notin Graph!Reach(ids)
           <=> \E S \in SUBSET Graph!IDs : ids \subseteq S /\ Graph!Closed(S) /\ id \notin S
  BY DEF Graph!Reach

\* The check before an insertion is enough.  S holds what the new dependency leads to, and
\* not its ID; R what another ID leads to, and not that ID.  Where the other ID is itself in
\* S, its ways stay in both; where it is not, they may pass into S but not back to it.
LEMMA AddedAcyclic ==
  ASSUME GraphTypes, Graph!Acyclic, NEW id \in Graph!IDs, NEW dep, Graph!Added(id, dep)
  PROVE  Graph!Acyclic'
<1>1. /\ dependencies' = [dependencies EXCEPT ![id] = dep]
      /\ id \notin Graph!Reach(dep.on)
  BY DEF Graph!Added, Graph!wouldCreateCycle
<1>2. /\ dependencies'[id] = dep
      /\ \A x \in Graph!IDs : x # id => dependencies'[x] = dependencies[x]
  BY <1>1 DEF GraphTypes
<1>3. PICK S \in SUBSET Graph!IDs : dep.on \subseteq S /\ Graph!Closed(S) /\ id \notin S
  BY <1>1, NotReached
<1>4. ASSUME NEW x \in Graph!IDs
      PROVE  \E T \in SUBSET Graph!IDs :
               dependencies'[x].on \subseteq T /\ Graph!Closed(T)' /\ x \notin T
  <2>1. CASE x = id
    <3>1. Graph!Closed(S)'
      BY <1>2, <1>3 DEF Graph!Closed
    <3> QED  BY <1>2, <1>3, <2>1, <3>1
  <2>2. CASE x # id
    <3>1. PICK R \in SUBSET Graph!IDs :
            dependencies[x].on \subseteq R /\ Graph!Closed(R) /\ x \notin R
      BY NotReached DEF Graph!Acyclic
    <3>2. CASE x \in S
      <4>1. dependencies[x].on \subseteq S \cap R /\ Graph!Closed(S \cap R)'
        BY <1>2, <1>3, <3>1, <3>2 DEF Graph!Closed
      <4> QED  BY <1>2, <2>2, <3>1, <4>1
    <3>3. CASE x \notin S
      <4>1. dependencies[x].on \subseteq S \cup R /\ Graph!Closed(S \cup R)'
        BY <1>2, <1>3, <3>1 DEF Graph!Closed
      <4> QED  BY <1>2, <2>2, <3>1, <3>3, <4>1
    <3> QED  BY <3>2, <3>3
  <2> QED  BY <2>1, <2>2
<1>5. ASSUME NEW x \in Graph!IDs
      PROVE  x \notin Graph!Reach(dependencies[x].on)'
  BY <1>4, <1>5 DEF Graph!Reach
<1> QED  BY <1>5 DEF Graph!Acyclic

\* A removal only cuts ways.
LEMMA RemovedAcyclic ==
  ASSUME GraphTypes, Graph!Acyclic, NEW id \in Graph!IDs,
         dependencies' = [dependencies EXCEPT ![id] = Graph!Absent]
  PROVE  Graph!Acyclic'
<1>1. \A x \in Graph!IDs : dependencies'[x].on \subseteq dependencies[x].on
  BY DEF GraphTypes, Graph!Absent
<1>2. \A S \in SUBSET Graph!IDs : Graph!Closed(S) => Graph!Closed(S)'
  BY <1>1 DEF Graph!Closed
<1>3. ASSUME NEW x \in Graph!IDs
      PROVE  x \notin Graph!Reach(dependencies[x].on)'
  <2>1. PICK S \in SUBSET Graph!IDs :
          dependencies[x].on \subseteq S /\ Graph!Closed(S) /\ x \notin S
    BY NotReached DEF Graph!Acyclic
  <2> QED  BY <1>1, <1>2, <2>1 DEF Graph!Reach
<1> QED  BY <1>3 DEF Graph!Acyclic

\* However dependencies are added, replaced, completed and removed, by the manager and past
\* it, none waits for itself through others.
THEOREM NoCycle == ASSUME MaxAdds \in Nat PROVE Spec => []Graph!Acyclic
<1>1. Graph!Init => Graph!Acyclic
  <2> SUFFICES ASSUME Graph!Init, NEW id \in Graph!IDs
               PROVE  id \notin Graph!Reach(dependencies[id].on)
    BY DEF Graph!Acyclic
  <2>1. dependencies[id].on = {} /\ Graph!Closed({})
    BY DEF Graph!Init, Graph!Absent, Graph!Closed
  <2> QED  BY <2>1, NotReached
<1>2. GraphTypes /\ Graph!Acyclic /\ [Graph!Next]_(Graph!vars) => Graph!Acyclic'
  <2> SUFFICES ASSUME GraphTypes, Graph!Acyclic, [Graph!Next]_(Graph!vars)
               PROVE  Graph!Acyclic'
    OBVIOUS
  <2>1. CASE UNCHANGED dependencies
    BY <2>1 DEF Graph!Acyclic, Graph!Reach, Graph!Closed
  <2>2. ASSUME NEW id \in Graph!IDs, NEW dep, Graph!Added(id, dep)
        PROVE  Graph!Acyclic'
    BY <2>2, AddedAcyclic
  <2>3. ASSUME NEW id \in RawIDs, NEW on, Graph!AddDependency(id, on)
        PROVE  Graph!Acyclic'
    BY <2>1, <2>2, <2>3 DEF Graph!AddDependency, Graph!IDs
  <2>4. CASE Graph!CreateStep
    BY <2>2, <2>4 DEF Graph!CreateStep, GraphTypes, Steps
  <2>5. ASSUME NEW id \in Graph!IDs, Graph!RemoveDependency(id) \/ Graph!CompleteDependency(id)
        PROVE  Graph!Acyclic'
    BY <2>5, RemovedAcyclic DEF Graph!RemoveDependency, Graph!CompleteDependency
  <2>6. CASE Graph!GraphNext
    BY <2>1, <2>3, <2>5, <2>6 DEF Graph!GraphNext, Graph!SearchNext, Graph!IDs
  <2>7. CASE Graph!ManagerNext
    BY <2>1, <2>4, <2>5, <2>7
    DEF Graph!ManagerNext, Graph!CreateENIAttachmentDependencies,
        Graph!CreateENIDetachmentDependencies, Graph!BeginCreate,
        Graph!UpdateResourceState, Graph!GetReadyDependencies
  <2> QED  BY <2>1, <2>6, <2>7 DEF Graph!Next, Graph!vars
<1> QED  BY <1>1, <1>2, GraphTypesInvariance, PartsBehave, PTL DEF Graph!Spec

-----------------------------------------------------------------------------
(* The order *)

\* Of an ID on the path, what is further in is met on the way along DependsOn; what was
\* visited is left with all it waits for, and stands behind it in the order.
SearchInv ==
  /\ search = "idle" => path = <<>> /\ visited = {} /\ order = <<>>
  /\ search # "circular"
  /\ \A i \in 1..Len(path) : path[i] \notin visited
  /\ \A i, j \in 1..Len(path) : i < j => path[j] \in Graph!Reach(dependencies[path[i]].on)
  /\ \A id \in visited : dependencies[id].on \subseteq visited
  /\ \A id \in Graph!IDs :
       (id \in visited /\ Graph!Present(id)) <=> \E i \in 1..Len(order) : order[i] = id
  /\ \A i, j \in 1..Len(order) : order[i] = order[j] => i = j
  /\ \A i, j \in 1..Len(order) : order[j] \in dependencies[order[i]].on => j < i

\* The search goes on where it is: what is met stays met.
LEMMA ReachOn ==
  ASSUME NEW ids, NEW id \in Graph!Reach(ids), NEW on \in dependencies[id].on,
         on \in Graph!IDs
  PROVE  on \in Graph!Reach(ids)
  BY DEF Graph!Reach, Graph!Closed

LEMMA ReachStart ==
  ASSUME NEW ids, NEW id \in ids, id \in Graph!IDs
  PROVE  id \in Graph!Reach(ids)
  BY DEF Graph!Reach

\* A call of visit meets no ID that is being visited: that would be a cycle.
LEMMA VisitInv ==
  ASSUME GraphTypes, Graph!Acyclic, SearchInv, NEW id \in Graph!IDs, Graph!Visit(id),
         UNCHANGED dependencies
  PROVE  SearchInv'
<1> DEFINE n == Len(path)
<1>1. /\ search = "searching" /\ id \notin visited
      /\ IF path = <<>> THEN Graph!Present(id) ELSE id \in dependencies[Graph!Last(path)].on
      /\ search' = IF id \in Graph!ToSet(path) THEN "circular" ELSE search
      /\ path' = IF id \in Graph!ToSet(path) THEN path ELSE Append(path, id)
      /\ UNCHANGED <<visited, order>>
  BY DEF Graph!Visit
<1>2. n \in Nat /\ \A i \in 1..n : path[i] \in Graph!IDs
  BY DEF GraphTypes
<1>3. ASSUME NEW i \in 1..n
      PROVE  id \in Graph!Reach(dependencies[path[i]].on)
  <2>1. path # <<>> /\ Graph!Last(path) = path[n]
    BY <1>3 DEF GraphTypes, Graph!Last
  <2>2. id \in dependencies[path[n]].on
    BY <1>1, <2>1
  <2>3. CASE i = n
    BY <2>2, <2>3, ReachStart
  <2>4. CASE i # n
    <3>1. path[n] \in Graph!Reach(dependencies[path[i]].on)
      BY <1>2, <1>3, <2>4 DEF SearchInv
    <3> QED  BY <2>2, <3>1, ReachOn
  <2> QED  BY <2>3, <2>4
<1>4. \A i \in 1..n : path[i] # id
  BY <1>3 DEF Graph!Acyclic
<1>5. id \notin Graph!ToSet(path)
  BY <1>4 DEF Graph!ToSet, GraphTypes
<1>6. path' = Append(path, id) /\ UNCHANGED <<search, visited, order>>
  BY <1>1, <1>5
<1>7. /\ Len(path') = n + 1 /\ path'[n + 1] = id
      /\ \A i \in 1..n : path'[i] = path[i]
  BY <1>6 DEF GraphTypes
<1>8. \A i \in 1..Len(path') : path'[i] \notin visited
  BY <1>1, <1>2, <1>7 DEF SearchInv
<1>9. ASSUME NEW i \in 1..Len(path'), NEW j \in 1..Len(path'), i < j
      PROVE  path'[j] \in Graph!Reach(dependencies[path'[i]].on)
  <2>1. i \in 1..n
    BY <1>2, <1>7, <1>9
  <2>2. CASE j = n + 1
    BY <1>3, <1>7, <2>1, <2>2
  <2>3. CASE j # n + 1
    <3>1. j \in 1..n
      BY <1>2, <1>7, <2>3
    <3> QED  BY <1>7, <1>9, <2>1, <3>1 DEF SearchInv
  <2> QED  BY <2>2, <2>3
<1>10. \A i, j \in 1..Len(path') :
         i < j => path'[j] \in Graph!Reach(dependencies[path[i]].on)'
  BY <1>9 DEF Graph!Reach, Graph!Closed
<1> QED
  BY <1>1, <1>6, <1>8, <1>10 DEF SearchInv, Graph!Present

\* The end of a call: its ID is visited after all it waits for, and before the calls it
\* was made by.
LEMMA VisitedInv ==
  ASSUME GraphTypes, Graph!Acyclic, SearchInv, Graph!Visited, UNCHANGED dependencies
  PROVE  SearchInv'
<1> DEFINE id == Graph!Last(path)
           n == Len(path) - 1
           m == Len(order)
<1>1. /\ search = "searching" /\ path # <<>>
      /\ dependencies[id].on \subseteq visited
      /\ order' = IF Graph!Present(id) THEN Append(order, id) ELSE order
      /\ visited' = visited \cup {id}
      /\ path' = Graph!Front(path)
      /\ UNCHANGED search
  BY DEF Graph!Visited
<1>2. /\ n \in Nat /\ Len(path) = n + 1 /\ id = path[n + 1] /\ id \in Graph!IDs
      /\ Len(path') = n /\ \A i \in 1..n : path'[i] = path[i]
  <2>1. path \in Seq(Graph!IDs)
    BY DEF GraphTypes
  <2> QED  BY <1>1, <2>1, LastAndFront
<1>3. id \notin visited
  BY <1>2 DEF SearchInv
<1>4. m \in Nat /\ \A i \in 1..m : order[i] \in Graph!IDs
  BY DEF GraphTypes
<1> HIDE DEF id, n
<1>5. \A i \in 1..n : path[i] # id /\ path[i] \in Graph!IDs
  <2> SUFFICES ASSUME NEW i \in 1..n PROVE path[i] # id /\ path[i] \in Graph!IDs
    OBVIOUS
  <2>1. path[i] \in Graph!IDs
    BY <1>2 DEF GraphTypes
  <2>2. id \in Graph!Reach(dependencies[path[i]].on)
    BY <1>2 DEF SearchInv
  <2> QED  BY <2>1, <2>2 DEF Graph!Acyclic
<1>6. \A i \in 1..Len(path') : path'[i] \notin visited'
  BY <1>1, <1>2, <1>5 DEF SearchInv
<1>7. \A i, j \in 1..Len(path') :
        i < j => path'[j] \in Graph!Reach(dependencies[path[i]].on)'
  <2>1. \A i, j \in 1..n : i < j => path[j] \in Graph!Reach(dependencies[path[i]].on)
    BY <1>2 DEF SearchInv
  <2> QED  BY <1>2, <2>1 DEF Graph!Reach, Graph!Closed
<1>8. \A x \in visited' : dependencies'[x].on \subseteq visited'
  BY <1>1 DEF SearchInv
<1>9. \A i \in 1..m : order[i] \in visited
  BY <1>4 DEF SearchInv
<1>10. id \notin dependencies[id].on
  BY <1>1, <1>3
<1>11. /\ \A x \in Graph!IDs :
            (x \in visited' /\ Graph!Present(x)) <=> \E i \in 1..Len(order') : order'[i] = x
       /\ \A i, j \in 1..Len(order') : order'[i] = order'[j] => i = j
       /\ \A i, j \in 1..Len(order') : order'[j] \in dependencies[order'[i]].on => j < i
  <2>1. CASE ~Graph!Present(id)
    BY <1>1, <2>1 DEF SearchInv
  <2>2. CASE Graph!Present(id)
    <3>1. /\ Len(order') = m + 1 /\ order'[m + 1] = id
          /\ \A i \in 1..m : order'[i] = order[i]
      BY <1>1, <1>2, <2>2 DEF GraphTypes
    <3>2. \A i \in 1..(m + 1) : i = m + 1 \/ i \in 1..m
      BY <1>4
    <3>3. ASSUME NEW x \in Graph!IDs
          PROVE  (x \in visited' /\ Graph!Present(x)) <=> \E i \in 1..(m + 1) : order'[i] = x
      <4>1. CASE x = id
        BY <1>1, <1>4, <2>2, <3>1, <4>1
      <4>2. CASE x # id
        <5>1. (x \in visited /\ Graph!Present(x)) <=> \E i \in 1..m : order[i] = x
          BY DEF SearchInv
        <5> QED  BY <1>1, <1>4, <3>1, <3>2, <4>2, <5>1
      <4> QED  BY <4>1, <4>2
    <3>4. ASSUME NEW i \in 1..(m + 1), NEW j \in 1..(m + 1), order'[i] = order'[j]
          PROVE  i = j
      <4>1. CASE i \in 1..m /\ j \in 1..m
        BY <3>1, <3>4, <4>1 DEF SearchInv
      <4>2. CASE ~(i \in 1..m /\ j \in 1..m)
        BY <1>3, <1>9, <3>1, <3>2, <3>4, <4>2
      <4> QED  BY <4>1, <4>2
    <3>5. ASSUME NEW i \in 1..(m + 1), NEW j \in 1..(m + 1),
                 order'[j] \in dependencies[order'[i]].on
          PROVE  j < i
      <4>1. CASE i \in 1..m /\ j \in 1..m
        BY <3>1, <3>5, <4>1 DEF SearchInv
      <4>2. CASE i \in 1..m /\ j = m + 1
        <5>1. order[i] \in visited /\ id \in dependencies[order[i]].on
          BY <1>9, <3>1, <3>5, <4>2
        <5> QED  BY <1>3, <5>1 DEF SearchInv
      <4>3. CASE i = m + 1
        <5>1. j # m + 1
          BY <1>10, <3>1, <3>5, <4>3
        <5> QED  BY <1>4, <3>2, <4>3, <5>1
      <4> QED  BY <3>2, <4>1, <4>2, <4>3
    <3> QED  BY <3>1, <3>3, <3>4, <3>5
  <2> QED  BY <2>1, <2>2
<1> QED
  BY <1>1, <1>6, <1>7, <1>8, <1>11 DEF SearchInv, Graph!Present

\* Nothing changes the graph while a search reads it.
LEMMA SearchInvNext ==
  ASSUME GraphTypes, Graph!Acyclic, SearchInv, [Graph!Next]_(Graph!vars)
  PROVE  SearchInv'
<1>1. CASE UNCHANGED Graph!searchVars /\ search = "idle"
  BY <1>1 DEF SearchInv, Graph!searchVars, Graph!Present
<1>2. CASE UNCHANGED Graph!searchVars /\ UNCHANGED dependencies
  BY <1>2 DEF SearchInv, Graph!searchVars, Graph!Present, Graph!Reach, Graph!Closed
<1>3. CASE Graph!SearchNext
  <2>1. UNCHANGED dependencies
    BY <1>3 DEF Graph!SearchNext
  <2>2. CASE Graph!ResolveDependencyOrder
    BY <2>1, <2>2 DEF Graph!ResolveDependencyOrder, SearchInv, Graph!Present
  <2>3. CASE Graph!ReturnOrder
    BY <2>1, <2>3 DEF Graph!ReturnOrder, SearchInv, Graph!Present
  <2> QED
    BY <1>3, <2>1, <2>2, <2>3, VisitInv, VisitedInv DEF Graph!SearchNext, Graph!SearchStep
<1>4. CASE Graph!GraphNext /\ ~Graph!SearchNext
  BY <1>1, <1>4
  DEF Graph!GraphNext, Graph!AddDependency, Graph!RemoveDependency, Graph!Unlocked
<1>5. CASE Graph!ManagerNext
  BY <1>1, <1>2, <1>5
  DEF Graph!ManagerNext, Graph!CreateENIAttachmentDependencies,
      Graph!CreateENIDetachmentDependencies, Graph!BeginCreate, Graph!CreateStep,
      Graph!UpdateResourceState, Graph!GetReadyDependencies, Graph!CompleteDependency,
      Graph!Unlocked
<1> QED  BY <1>2, <1>3, <1>4, <1>5 DEF Graph!Next, Graph!vars

LEMMA SearchInvariance == ASSUME MaxAdds \in Nat PROVE Spec => []SearchInv
<1>1. Graph!Init => SearchInv
  BY DEF Graph!Init, SearchInv
<1>2. GraphTypes /\ Graph!Acyclic /\ SearchInv /\ [Graph!Next]_(Graph!vars) => SearchInv'
  BY SearchInvNext
<1> QED  BY <1>1, <1>2, GraphTypesInvariance, NoCycle, PartsBehave, PTL DEF Graph!Spec

\* Wherever a search of the graph starts and whatever the order of its loops, it finds no
\* circular dependency, and returns each dependency once, behind all it waits for.
THEOREM Ordered == ASSUME MaxAdds \in Nat PROVE Spec => []AlwaysOrdered
<1>1. GraphTypes /\ Graph!Acyclic /\ SearchInv => AlwaysOrdered
  <2> SUFFICES ASSUME GraphTypes, Graph!Acyclic, SearchInv PROVE AlwaysOrdered
    OBVIOUS
  <2>1. DOMAIN order = 1..Len(order)
    BY DEF GraphTypes
  <2>2. Graph!IsInjective(order)
    BY <2>1 DEF SearchInv, Graph!IsInjective
  <2>3. Graph!ToSet(order) = {id \in visited : Graph!Present(id)}
    <3>1. Graph!ToSet(order) = {order[i] : i \in 1..Len(order)}
      BY <2>1 DEF Graph!ToSet
    <3>2. \A i \in 1..Len(order) : order[i] \in Graph!IDs
      BY DEF GraphTypes
    <3>3. visited \subseteq Graph!IDs
      BY DEF GraphTypes
    <3> QED  BY <3>1, <3>2, <3>3 DEF SearchInv
  <2>4. Graph!Resolved => Graph!ToSet(order) = {id \in Graph!IDs : Graph!Present(id)}
    BY <2>3 DEF Graph!Resolved, GraphTypes
  <2> QED
    BY <2>1, <2>2, <2>4 DEF SearchInv, AlwaysOrdered, Graph!AlwaysOrdered
<1> QED
  BY <1>1, SearchInvariance, GraphTypesInvariance, NoCycle, PartsBehave, PTL

-----------------------------------------------------------------------------
(* The end of a search *)

\* What a search has left to do: the IDs whose visit has not ended, and those whose visit
\* has not begun.
Remaining ==
  Cardinality(Graph!IDs \ visited) + Cardinality(Graph!IDs \ (visited \cup Graph!ToSet(path)))

LEMMA FinitelyManyIDs ==
  ASSUME IsFiniteSet(RawIDs), IsFiniteSet(GraphENIs)
  PROVE  IsFiniteSet(Graph!IDs)
<1>1. IsFiniteSet({"instance"}) /\ IsFiniteSet({"subnet"}) /\ IsFiniteSet({"eni"})
      /\ IsFiniteSet({"dpdk-unbind"}) /\ IsFiniteSet({"detach"})
  BY FS_Singleton
<1>2. IsFiniteSet({"instance"} \cup {"subnet"}) /\ IsFiniteSet({"eni"} \cup {"dpdk-unbind"})
  BY <1>1, FS_Union
<1>3. IsFiniteSet(({"instance"} \cup {"subnet"}) \cup ({"eni"} \cup {"dpdk-unbind"}))
  BY <1>2, FS_Union
<1>4. IsFiniteSet((({"instance"} \cup {"subnet"}) \cup ({"eni"} \cup {"dpdk-unbind"}))
                    \cup {"detach"})
  BY <1>1, <1>3, FS_Union
<1>5. IsFiniteSet(Graph!Kinds)
  <2>1. Graph!Kinds = (({"instance"} \cup {"subnet"}) \cup ({"eni"} \cup {"dpdk-unbind"}))
                        \cup {"detach"}
    BY DEF Graph!Kinds
  <2> QED  BY <1>4, <2>1
<1>6. IsFiniteSet(Graph!Kinds \X GraphENIs)
  BY <1>5, FS_Product
<1> QED  BY <1>6, FS_Union DEF Graph!IDs

\* One member less of a finite set.
LEMMA OneLess ==
  ASSUME NEW S, IsFiniteSet(S), NEW x \in S
  PROVE  /\ Cardinality(S) \in Nat /\ Cardinality(S \ {x}) \in Nat
         /\ Cardinality(S \ {x}) = Cardinality(S) - 1
  BY FS_RemoveElement, FS_CardinalityType

\* A search ends: each call of visit, and each end of one, takes something off what remains.
THEOREM SearchEnds ==
  ASSUME MaxAdds \in Nat, IsFiniteSet(RawIDs), IsFiniteSet(GraphENIs)
  PROVE  Spec => [][Graph!SearchStep =>
                      Remaining \in Nat /\ Remaining' \in Nat /\ Remaining' < Remaining]_vars
<1>1. GraphTypes /\ SearchInv /\ GraphTypes' /\ SearchInv' /\ [Next]_vars
        => [Graph!SearchStep =>
              Remaining \in Nat /\ Remaining' \in Nat /\ Remaining' < Remaining]_vars
  <2> SUFFICES ASSUME GraphTypes, SearchInv, GraphTypes', SearchInv', Graph!SearchStep
               PROVE  Remaining \in Nat /\ Remaining' \in Nat /\ Remaining' < Remaining
    OBVIOUS
  <2> DEFINE S == Graph!IDs \ visited
             T == Graph!IDs \ (visited \cup Graph!ToSet(path))
  <2>1. IsFiniteSet(S) /\ IsFiniteSet(T)
    BY FinitelyManyIDs, FS_Subset
  <2>2. Cardinality(S) \in Nat /\ Cardinality(T) \in Nat
    BY <2>1, FS_CardinalityType
  <2>3. path \in Seq(Graph!IDs) /\ path' \in Seq(Graph!IDs)
    BY DEF GraphTypes
  <2>4. /\ Graph!ToSet(path) = {path[i] : i \in 1..Len(path)}
        /\ Graph!ToSet(path)' = {path'[i] : i \in 1..Len(path')}
    BY <2>3 DEF Graph!ToSet
  <2>5. Remaining = Cardinality(S) + Cardinality(T)
        /\ Remaining' = Cardinality(S') + Cardinality(T')
    BY DEF Remaining
  <2>6. ASSUME NEW id \in Graph!IDs, Graph!Visit(id)
        PROVE  S' = S /\ id \in T /\ T' = T \ {id}
    <3>1. id \notin visited /\ UNCHANGED visited
      BY <2>6 DEF Graph!Visit
    <3>2. id \notin Graph!ToSet(path) /\ path' = Append(path, id)
      BY <2>6 DEF Graph!Visit, SearchInv
    <3>3. Graph!ToSet(path)' = Graph!ToSet(path) \cup {id}
      BY <2>3, <2>4, <3>2
    <3> QED  BY <3>1, <3>2, <3>3
  <2>7. ASSUME Graph!Visited
        PROVE  \E id \in S : S' = S \ {id} /\ T' = T
    <3> DEFINE id == Graph!Last(path)
    <3>1. path # <<>> /\ visited' = visited \cup {id} /\ path' = Graph!Front(path)
      BY <2>7 DEF Graph!Visited
    <3>2. /\ Len(path) \in Nat \ {0} /\ id = path[Len(path)] /\ id \in Graph!IDs
          /\ Len(path') = Len(path) - 1 /\ \A i \in 1..(Len(path) - 1) : path'[i] = path[i]
      BY <2>3, <3>1, LastAndFront
    <3>3. id \notin visited
      BY <3>2 DEF SearchInv
    <3> HIDE DEF id
    <3>4. Graph!ToSet(path) = Graph!ToSet(path)' \cup {id}
      BY <2>4, <3>2
    <3> QED  BY <3>1, <3>2, <3>3, <3>4
  <2> HIDE DEF S, T
  <2>8. CASE \E id \in Graph!IDs : Graph!Visit(id)
    <3>1. PICK id \in T : S' = S /\ T' = T \ {id}
      BY <2>6, <2>8
    <3>2. Cardinality(T') \in Nat /\ Cardinality(T') = Cardinality(T) - 1
      BY <2>1, <3>1, OneLess
    <3>3. Cardinality(S') = Cardinality(S)
      BY <3>1
    <3> QED  BY <2>2, <2>5, <3>2, <3>3
  <2>9. CASE Graph!Visited
    <3>1. PICK id \in S : S' = S \ {id} /\ T' = T
      BY <2>7, <2>9
    <3>2. Cardinality(S') \in Nat /\ Cardinality(S') = Cardinality(S) - 1
      BY <2>1, <3>1, OneLess
    <3>3. Cardinality(T') = Cardinality(T)
      BY <3>1
    <3> QED  BY <2>2, <2>5, <3>2, <3>3
  <2> QED  BY <2>8, <2>9 DEF Graph!SearchStep
<1> QED
  BY <1>1, SearchInvariance, GraphTypesInvariance, PartsBehave, PTL DEF Spec

-----------------------------------------------------------------------------
(* Nothing before its time *)

\* Waiting for the ID is over only when it was completed.
Known(id) == Graph!Present(id) \/ id \in completed

\* What a step of a request waits for was completed, is in the graph, or comes before it.
InOrder ==
  \A i \in 1..Len(creating) : \A on \in creating[i][2].on :
    Known(on) \/ \E j \in 1..(i - 1) : creating[j][1] = on

\* Where only the manager adds dependencies, none waits for what nobody asked for.
NoneUnknown == \A id \in Graph!IDs : \A on \in dependencies[id].on : Known(on)

PrerequisitesInv == component = "manager" => NoneUnknown /\ InOrder

\* What is known stays known: an ID leaves the graph into the completed ones, and the
\* completed ones into the graph.
LEMMA StaysKnown ==
  ASSUME GraphTypes,
         \/ \E id \in Graph!IDs, dep \in Graph!Dependencies :
              dep # Graph!Absent /\ Graph!Added(id, dep)
         \/ \E id \in Graph!IDs :
              /\ dependencies' = [dependencies EXCEPT ![id] = Graph!Absent]
              /\ completed' = completed \cup {id}
         \/ UNCHANGED <<dependencies, completed>>
  PROVE  \A on \in Graph!IDs : Known(on) => Known(on)'
  BY DEF GraphTypes, Known, Graph!Present, Graph!Added

LEMMA CreateStepPrerequisites ==
  ASSUME GraphTypes, NoneUnknown, InOrder, Graph!CreateStep
  PROVE  NoneUnknown' /\ InOrder'
<1>1. /\ Len(creating) \in Nat \ {0} /\ Len(creating') = Len(creating) - 1
      /\ \A i \in 1..Len(creating') : creating'[i] = creating[i + 1]
      /\ Graph!Added(creating[1][1], creating[1][2])
      /\ \A i \in 1..Len(creating) : creating[i] \in Steps
  BY DEF Graph!CreateStep, GraphTypes
<1>2. PICK id \in Graph!IDs, dep \in Graph!Dependencies \ {Graph!Absent} :
        /\ creating[1][1] = id /\ creating[1][2] = dep /\ dep.on \subseteq Graph!IDs
        /\ Graph!Added(id, dep)
  <2>1. creating[1] \in Steps
    BY <1>1
  <2> QED  BY <1>1, <2>1 DEF Steps, Graph!Dependencies, Graph!Absent
<1>3. \A on \in Graph!IDs : Known(on) => Known(on)'
  BY <1>2, StaysKnown
<1>4. /\ dependencies'[id] = dep
      /\ \A x \in Graph!IDs : x # id => dependencies'[x] = dependencies[x]
  BY <1>2 DEF Graph!Added, GraphTypes
<1>5. Known(id)'
  BY <1>2, <1>4 DEF Known, Graph!Present
<1>6. \A on \in dep.on : Known(on)
  BY <1>1, <1>2 DEF InOrder
<1>7. \A x \in Graph!IDs : dependencies[x].on \subseteq Graph!IDs
  BY DEF GraphTypes, Graph!Dependencies, Graph!Absent
<1>8. NoneUnknown'
  BY <1>2, <1>3, <1>4, <1>6, <1>7 DEF NoneUnknown
<1>9. InOrder'
  <2> SUFFICES ASSUME NEW i \in 1..Len(creating'), NEW on \in creating'[i][2].on
               PROVE  Known(on)' \/ \E j \in 1..(i - 1) : creating'[j][1] = on
    BY DEF InOrder
  <2>1. i + 1 \in 1..Len(creating) /\ on \in creating[i + 1][2].on
    BY <1>1
  <2>2. on \in Graph!IDs
    BY <1>1, <2>1 DEF Steps
  <2>3. CASE Known(on)
    BY <1>3, <2>2, <2>3
  <2>4. ASSUME NEW j \in 1..i, creating[j][1] = on
        PROVE  Known(on)' \/ \E k \in 1..(i - 1) : creating'[k][1] = on
    <3>1. CASE j = 1
      BY <1>2, <1>5, <2>4, <3>1
    <3>2. CASE j # 1
      <4>1. j - 1 \in 1..(i - 1) /\ creating'[j - 1] = creating[j]
        BY <1>1, <3>2
      <4> QED  BY <2>4, <4>1
    <3> QED  BY <3>1, <3>2
  <2>5. Known(on) \/ \E j \in 1..i : creating[j][1] = on
    <3>1. (i + 1) - 1 = i
      OBVIOUS
    <3> QED  BY <2>1, <3>1 DEF InOrder
  <2> QED  BY <2>3, <2>4, <2>5
<1> QED  BY <1>8, <1>9

LEMMA ManagerPrerequisites ==
  ASSUME GraphTypes, NoneUnknown, InOrder, Graph!ManagerNext \/ UNCHANGED Graph!vars
  PROVE  NoneUnknown' /\ InOrder'
<1>1. \A x \in Graph!IDs : dependencies[x].on \subseteq Graph!IDs
  BY DEF GraphTypes, Graph!Dependencies, Graph!Absent
<1>2. \A i \in 1..Len(creating) : creating[i][2].on \subseteq Graph!IDs
  <2>1. \A i \in 1..Len(creating) : creating[i] \in Steps
    BY DEF GraphTypes
  <2> QED  BY <2>1 DEF Steps
<1>3. ASSUME UNCHANGED <<dependencies, completed, creating>>
      PROVE  NoneUnknown' /\ InOrder'
  BY <1>3 DEF NoneUnknown, InOrder, Known, Graph!Present
<1>4. ASSUME NEW steps \in Seq(Steps), Staged(steps), Graph!BeginCreate(steps)
      PROVE  NoneUnknown' /\ InOrder'
  BY <1>4 DEF Graph!BeginCreate, Staged, NoneUnknown, InOrder, Known, Graph!Present
<1>5. ASSUME NEW e \in GraphENIs,
             \/ Graph!CreateENIAttachmentDependencies(e)
             \/ Graph!CreateENIDetachmentDependencies(e)
      PROVE  NoneUnknown' /\ InOrder'
  BY <1>4, <1>5, AttachmentStaged, DetachmentStaged
  DEF Graph!CreateENIAttachmentDependencies, Graph!CreateENIDetachmentDependencies
<1>6. CASE Graph!CreateStep
  BY <1>6, CreateStepPrerequisites
<1>7. ASSUME NEW id \in Graph!IDs, Graph!CompleteDependency(id)
      PROVE  NoneUnknown' /\ InOrder'
  <2>1. /\ dependencies' = [dependencies EXCEPT ![id] = Graph!Absent]
        /\ completed' = completed \cup {id} /\ creating' = creating
    BY <1>7 DEF Graph!CompleteDependency
  <2>2. \A on \in Graph!IDs : Known(on) => Known(on)'
    BY <2>1, StaysKnown
  <2>3. \A x \in Graph!IDs : dependencies'[x].on \subseteq dependencies[x].on
    BY <2>1 DEF GraphTypes, Graph!Absent
  <2> QED  BY <1>1, <1>2, <2>1, <2>2, <2>3 DEF NoneUnknown, InOrder
<1> QED
  BY <1>3, <1>5, <1>6, <1>7
  DEF Graph!ManagerNext, Graph!UpdateResourceState, Graph!GetReadyDependencies, Graph!vars

\* Whoever asks for ready steps, also in the middle of a request, is never handed one before
\* all it waits for have been completed: a step is added behind those it waits for, and they
\* leave the graph only by being completed.
THEOREM InTime == ASSUME MaxAdds \in Nat PROVE Spec => OnlyAfterPrerequisites
<1> DEFINE Handed == \A id \in handed' \ handed : dependencies[id].on \subseteq completed
<1>1. Init => PrerequisitesInv
  BY DEF Init, Graph!Init, Graph!Absent, PrerequisitesInv, NoneUnknown, InOrder
<1>2. GraphTypes /\ PrerequisitesInv /\ [Next]_vars => PrerequisitesInv'
  <2> SUFFICES ASSUME GraphTypes, PrerequisitesInv, [Next]_vars, component' = "manager"
               PROVE  (NoneUnknown /\ InOrder)'
    BY DEF PrerequisitesInv
  <2>1. component = "manager" /\ NoneUnknown /\ InOrder
    BY DEF Next, vars, PrerequisitesInv
  <2>2. Graph!ManagerNext \/ UNCHANGED Graph!vars
    BY <2>1 DEF Next, vars, graphVars, Graph!vars, Graph!searchVars
  <2> QED  BY <2>1, <2>2, ManagerPrerequisites
<1>3. GraphTypes /\ PrerequisitesInv /\ [Next]_vars => [Handed]_(Graph!vars)
  <2> SUFFICES ASSUME GraphTypes, PrerequisitesInv, [Next]_vars,
                      NEW id \in handed' \ handed
               PROVE  dependencies[id].on \subseteq completed
    OBVIOUS
  <2>1. component = "manager" /\ Graph!ManagerNext
    BY DEF Next, vars, graphVars, Graph!GraphNext, Graph!AddDependency,
           Graph!RemoveDependency, Graph!SearchNext
  <2>2. Graph!GetReadyDependencies
    BY <2>1 DEF Graph!ManagerNext, Graph!CreateENIAttachmentDependencies,
         Graph!CreateENIDetachmentDependencies, Graph!BeginCreate, Graph!CreateStep,
         Graph!UpdateResourceState, Graph!CompleteDependency
  <2>3. id \in Graph!IDs /\ Graph!isDependencyReady(id)
    BY <2>2 DEF Graph!GetReadyDependencies
  <2> QED
    BY <2>1, <2>3 DEF PrerequisitesInv, NoneUnknown, Known, Graph!isDependencyReady
<1> QED
  BY <1>1, <1>2, <1>3, GraphTypesInvariance, PartsBehave, PTL
  DEF Spec, OnlyAfterPrerequisites, Graph!OnlyAfterPrerequisites

=============================================================================
