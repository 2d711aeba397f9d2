--------------------- MODULE NodeENIController_proofs ----------------------
(***************************************************************************)
(* The finalizer's promise for any nodes, subnets and ENIs, any number of  *)
(* attempts and workers, and every combination of faults: a NodeENI that   *)
(* is gone before its cleanup timed out has left none of the ENIs its      *)
(* status listed.                                                          *)
(*                                                                         *)
(* The argument: a deletion starts from what the cache shows, and once the *)
(* cache shows a recorded cleanup start the status does not change any     *)
(* more (CacheIsPast), because calls that write the status began while the *)
(* NodeENI was live, and end before a deletion begins (LiveCall).  So a    *)
(* cleanup goes through all ENIs of the status (CleanupTells), an ENI that *)
(* is gone stays gone, and a finalizer that is removed without a time-out  *)
(* is removed when all of them are (DeletionCall).                         *)
(***************************************************************************)
EXTENDS NodeENIController, TLAPS

\* The steps of a call that found the NodeENI live, and of one that found it deleted.
LivePcs == {"nodes", "verify", "subnets", "create", "attach", "undo", "stale", "cleanupStale"}
             \cup Saves
DeletionPcs == {"setStart", "cleanupAll", "removeFinalizer", "forceRemove"}

\* The ENIs of the status are gone from EC2.
AllAbsent == \A e \in server.atts : aws[e] = "absent"

\* The cache has some earlier version of the NodeENI: what it shows has happened.
CacheIsPast ==
  /\ synced => cache = server
  /\ cache.phase = "deleting" => server.phase \in {"deleting", "gone"}
  /\ cache.phase = "gone" => server.phase = "gone"
  /\ cache.phase = "live" => ~server.start
  /\ cache.phase = "live" /\ cache.fin => server.fin /\ server.phase # "gone"
  /\ cache.start => /\ cache.phase # "live" /\ cache.atts = server.atts
                    /\ server.start \/ server.phase = "gone"

\* A NodeENI without finalizer has no ENIs yet.
FinalizerFirst == server.phase = "live" /\ ~server.fin => server.atts = {}

\* What a call knows of the server's NodeENI, by where the call is.
LiveCall ==
  /\ call.fresh => server.phase # "gone"
  /\ pc \in LivePcs => server.fin /\ server.phase # "gone" /\ ~server.start
  /\ pc \in {"attach", "undo"} => call.eni \in ENIs
  /\ pc = "addFinalizer" => call.mem.fin /\ ~call.mem.start /\ ~server.start

DeletionCall ==
  /\ pc \in DeletionPcs => cache.phase # "live" /\ server.phase # "live"
  /\ pc = "setStart" => call.mem.fin /\ call.mem.start
  /\ pc = "removeFinalizer" => ~call.mem.fin /\ ~call.mem.start /\ AllAbsent
  /\ pc = "forceRemove" => ~call.mem.fin /\ elapsed

\* A cleanup that has ended without a failure has left no ENI.
CleanupTells ==
  pc = "cleanupAll" =>
    \A e \in server.atts :
      /\ call.stage[e] # "none"
      /\ call.stage[e] = "done" /\ e \notin call.failed => aws[e] = "absent"

IInv ==
  TypeOK /\ CacheIsPast /\ FinalizerFirst /\ LiveCall /\ DeletionCall /\ CleanupTells
    /\ NoENILeftBehind

-----------------------------------------------------------------------------
(* Types *)

\* A call that starts with obj as its copy, or none, has its type.
LEMMA CallTypes ==
  /\ NoCall \in Calls
  /\ \A obj \in Objects, b \in BOOLEAN : [NoCall EXCEPT !.mem = obj, !.fresh = b] \in Calls
<1>1. New \in Objects
  BY DEF New, Objects
<1>2. NoCall \in Calls
  BY <1>1, ConstantsAssumption DEF Calls, NoCall, Stages
<1> QED
  BY <1>2 DEF Calls

\* The initial states have the types.
LEMMA TypeInit == Init => TypeOK
<1>1. New \in Objects
  BY DEF New, Objects
<1> QED
  BY <1>1, CallTypes DEF Init, TypeOK, ENIStates

\* A cleanup starts with every ENI of the status queued.
LEMMA CleanupType ==
  ASSUME NEW obj \in Objects, NEW b \in BOOLEAN
  PROVE  [NoCall EXCEPT !.mem = obj, !.fresh = b,
            !.stage = [e \in ENIs |-> IF e \in obj.atts THEN "queued" ELSE "none"]] \in Calls
<1>1. [e \in ENIs |-> IF e \in obj.atts THEN "queued" ELSE "none"] \in [ENIs -> Stages]
  BY DEF Stages
<1> QED
  BY <1>1, CallTypes DEF Calls

\* What EC2 answers: a deletion happens to an unattached ENI only and a detachment to an
\* attached one, and no error means that it has happened.
LEMMA Outcomes ==
  ASSUME NEW e, aws[e] \in ENIStates
  PROVE  /\ \A o \in DeleteOutcomes(e) :
              /\ o.to \in ENIStates /\ o.ok \in BOOLEAN
              /\ o.to = aws[e] \/ (aws[e] \in {"available", "loose"} /\ o.to = "absent")
              /\ o.ok => o.to = "absent"
         /\ \A o \in DetachOutcomes(e) :
              /\ o.to \in ENIStates /\ o.ok \in BOOLEAN
              /\ o.to = aws[e] \/ (aws[e] = "attached" /\ o.to = "detaching")
              /\ o.ok => o.to # "attached"
         /\ \A o \in VerifyOutcomes(e) :
              /\ o.to \in ENIStates
              /\ \/ o.to = aws[e]
                 \/ aws[e] \in {"available", "loose"} /\ o.to = "absent"
                 \/ Facade /\ aws[e] = "attached" /\ o.to = "detaching"
<1> "absent" \in ENIStates /\ "detaching" \in ENIStates
  BY DEF ENIStates
<1>1. ASSUME NEW o \in DeleteOutcomes(e)
      PROVE  /\ o.ok \in BOOLEAN
             /\ o.to = aws[e] \/ (aws[e] \in {"available", "loose"} /\ o.to = "absent")
             /\ o.ok => o.to = "absent"
  <2>1. \/ o = [to |-> aws[e], ok |-> FALSE]
        \/ /\ o = [to |-> "absent", ok |-> TRUE]
           /\ ~(InUseByNode(e) \/ aws[e] = "foreign")
    BY DEF DeleteOutcomes
  <2>2. CASE o = [to |-> aws[e], ok |-> FALSE]
    <3>1. o.to = aws[e] /\ o.ok = FALSE
      BY <2>2
    <3> QED
      BY <3>1
  <2>3. CASE o = [to |-> "absent", ok |-> TRUE] /\ ~(InUseByNode(e) \/ aws[e] = "foreign")
    <3>1. o.to = "absent" /\ o.ok = TRUE
      BY <2>3
    <3> QED
      BY <2>3, <3>1 DEF InUseByNode, ENIStates
  <2> QED
    BY <2>1, <2>2, <2>3
<1>2. ASSUME NEW o \in DetachOutcomes(e)
      PROVE  /\ o.ok \in BOOLEAN
             /\ o.to = aws[e] \/ (aws[e] = "attached" /\ o.to = "detaching")
             /\ o.ok => o.to # "attached"
  <2> DEFINE detached == IF aws[e] = "attached" THEN "detaching" ELSE aws[e]
  <2>1. \/ \E to \in {aws[e], detached} : o = [to |-> to, ok |-> FALSE]
        \/ o = [to |-> detached, ok |-> TRUE]
    BY DEF DetachOutcomes
  <2>2. /\ o.to \in {aws[e], detached} /\ o.ok \in BOOLEAN
        /\ o.ok => o.to = detached
    <3>1. ASSUME NEW to \in {aws[e], detached}, o = [to |-> to, ok |-> FALSE]
          PROVE  o.to \in {aws[e], detached} /\ o.ok = FALSE
      BY <3>1
    <3>2. ASSUME o = [to |-> detached, ok |-> TRUE]
          PROVE  o.to = detached /\ o.ok = TRUE
      BY <3>2
    <3> HIDE DEF detached
    <3> QED
      BY <2>1, <3>1, <3>2
  <2> QED
    BY <2>2
<1>3. ASSUME NEW o \in ValidOutcomes(e)
      PROVE  o.to = aws[e] \/ (Facade /\ aws[e] = "attached" /\ o.to = "detaching")
  <2>1. CASE Facade
    <3>1. PICK d \in DetachOutcomes(e) : o = [to |-> d.to, valid |-> ~d.ok]
      BY <2>1 DEF ValidOutcomes
    <3> QED
      BY <2>1, <3>1, <1>2
  <2>2. CASE ~Facade
    <3>1. \E v \in BOOLEAN : o = [to |-> aws[e], valid |-> v]
      BY <2>2 DEF ValidOutcomes
    <3> QED
      BY <3>1
  <2> QED
    BY <2>1, <2>2
<1>4. ASSUME NEW o \in VerifyOutcomes(e)
      PROVE  \/ o.to = aws[e]
             \/ aws[e] \in {"available", "loose"} /\ o.to = "absent"
             \/ Facade /\ aws[e] = "attached" /\ o.to = "detaching"
  <2>1. \/ \E v \in ValidOutcomes(e) : o.to = v.to
        \/ \E d \in DeleteOutcomes(e) : o.to = d.to
    BY DEF VerifyOutcomes
  <2> QED
    BY <2>1, <1>1, <1>3
<1>5. /\ \A o \in DeleteOutcomes(e) : o.to \in ENIStates
      /\ \A o \in DetachOutcomes(e) : o.to \in ENIStates
      /\ \A o \in VerifyOutcomes(e) : o.to \in ENIStates
  BY <1>1, <1>2, <1>4
<1> QED
  BY <1>1, <1>2, <1>4, <1>5

\* Every step keeps the types.
LEMMA TypeNext ==
  ASSUME TypeOK, pc \in {"attach", "undo"} => call.eni \in ENIs, [Next]_vars
  PROVE  TypeOK'
<1> USE ConstantsAssumption
<1> DEFINE PCs == {"idle", "nodes", "verify", "subnets", "create", "attach", "undo", "stale"}
                    \cup Updates \cup Saves \cup Cleanups
<1>0. Return => pc' \in PCs /\ call' \in Calls
  BY CallTypes DEF Return
<1>01. ASSUME NEW obj \in Objects, call.tries + 1 < RetrySteps
       PROVE  [call EXCEPT !.mem = obj, !.fresh = synced, !.tries = @ + 1] \in Calls
  <2>1. call \in Calls /\ synced \in BOOLEAN /\ call.tries \in 0 .. (RetrySteps - 1)
    BY DEF TypeOK, Calls
  <2>2. call.tries + 1 \in 0 .. (RetrySteps - 1)
    BY <1>01, <2>1
  <2> QED
    BY <2>1, <2>2 DEF Calls
<1>1. ASSUME HandleDeletion
      PROVE  TypeOK'
  <2>1. pc' \in PCs
    BY <1>1 DEF HandleDeletion, Begin, StartCleanupOf, Updates, Cleanups
  <2>2. cache \in Objects /\ synced \in BOOLEAN
    BY DEF TypeOK
  <2>3. [cache EXCEPT !.fin = FALSE] \in Objects /\ [cache EXCEPT !.start = TRUE] \in Objects
    BY <2>2 DEF Objects
  <2>4. call' \in Calls
    BY <1>1, <2>2, <2>3, CallTypes, CleanupType DEF HandleDeletion, Begin, StartCleanupOf
  <2> QED
    BY <1>1, <2>1, <2>4 DEF HandleDeletion, TypeOK, api, ec2
<1>2. ASSUME Reconcile
      PROVE  TypeOK'
  <2>1. pc' \in PCs
    BY <1>2 DEF Reconcile, Begin, Updates
  <2>2. cache \in Objects /\ synced \in BOOLEAN /\ selected \in SUBSET Nodes
    BY DEF TypeOK
  <2>3. [cache EXCEPT !.fin = TRUE] \in Objects
    BY <2>2 DEF Objects
  <2>4. ASSUME Begin("addFinalizer", [cache EXCEPT !.fin = TRUE])
        PROVE  call' \in Calls
    BY <2>2, <2>3, <2>4, CallTypes DEF Begin
  <2>5. [NoCall EXCEPT !.mem = cache, !.fresh = synced, !.queue = selected, !.current = selected]
          \in Calls
    BY <2>2, CallTypes DEF Calls
  <2>6. call' \in Calls
    BY <1>2, <2>4, <2>5 DEF Reconcile
  <2> QED
    BY <1>2, <2>1, <2>6 DEF Reconcile, TypeOK, api, ec2
<1>3. ASSUME NextNode
      PROVE  TypeOK'
  <2>1. call \in Calls /\ call.mem.atts \in SUBSET ENIs /\ call.queue \in SUBSET Nodes
    BY DEF TypeOK, Calls, Objects
  <2>2. ASSUME NEW n \in Nodes, NEW S \in SUBSET ENIs
        PROVE  /\ [call EXCEPT !.queue = @ \ {n}, !.node = n, !.checks = S] \in Calls
               /\ [call EXCEPT !.node = NoNode, !.checks = S] \in Calls
    BY <2>1, <2>2 DEF Calls
  <2>3. CASE pc' = "stale" /\ call' = [call EXCEPT !.node = NoNode, !.checks = call.mem.atts]
    <3>1. call' \in Calls
      BY <2>1, <2>3 DEF Calls
    <3> QED
      BY <1>3, <2>3, <3>1 DEF NextNode, TypeOK, api, ec2
  <2>4. ASSUME NEW n \in call.queue, pc' = "verify",
               call' = [call EXCEPT !.queue = @ \ {n}, !.node = n,
                          !.checks = {e \in call.mem.atts : NodeOf[e] = n}]
        PROVE  TypeOK'
    <3>1. {e \in call.mem.atts : NodeOf[e] = n} \in SUBSET ENIs
      BY <2>1
    <3>2. call' \in Calls
      BY <2>1, <2>2, <2>4, <3>1
    <3> QED
      BY <1>3, <2>4, <3>2 DEF NextNode, TypeOK, api, ec2
  <2> QED
    BY <1>3, <2>3, <2>4 DEF NextNode
<1>4. ASSUME UpdateSucceeds
      PROVE  TypeOK'
  <2>1. WithMeta(server) \in Objects
    BY DEF WithMeta, TypeOK, Calls, Objects
  <2> DEFINE stored == IF WithMeta(server).phase = "deleting" /\ ~WithMeta(server).fin
                       THEN [WithMeta(server) EXCEPT !.phase = "gone"] ELSE WithMeta(server)
  <2>2. stored \in Objects
    BY <2>1 DEF Objects
  <2>3. Publish(stored) /\ (StartCleanupOf(stored, TRUE) \/ Return)
    BY <1>4 DEF UpdateSucceeds
  <2> HIDE DEF stored
  <2>4. pc' \in PCs /\ call' \in Calls
    <3>1. CASE StartCleanupOf(stored, TRUE)
      BY <2>2, <3>1, CleanupType DEF StartCleanupOf, Cleanups
    <3> QED
      BY <1>0, <2>3, <3>1
  <2> QED
    BY <1>4, <2>2, <2>3, <2>4 DEF UpdateSucceeds, Publish, TypeOK, ec2
<1>5. ASSUME UpdateConflicts
      PROVE  TypeOK'
  <2>1. WithMeta(cache) \in Objects
    BY DEF WithMeta, TypeOK, Calls, Objects
  <2>2. ASSUME call.tries + 1 < RetrySteps
        PROVE  [call EXCEPT !.mem = WithMeta(cache), !.fresh = synced, !.tries = @ + 1] \in Calls
    BY <1>01, <2>1, <2>2
  <2>3. pc' \in PCs /\ call' \in Calls
    BY <1>5, <2>2, <1>0 DEF UpdateConflicts, TypeOK
  <2> QED
    BY <1>5, <2>3 DEF UpdateConflicts, TypeOK, api, ec2
<1>6. ASSUME UpdateFails
      PROVE  TypeOK'
  BY <1>6, <1>0 DEF UpdateFails, TypeOK, api, ec2
<1>7. ASSUME NEW mem \in Objects, NEW b \in BOOLEAN, AfterSave(mem, b)
      PROVE  pc' \in PCs /\ call' \in Calls
  <2>1. call \in Calls /\ 0 \in 0 .. (RetrySteps - 1)
    BY DEF TypeOK
  <2>2. [call EXCEPT !.mem = mem, !.fresh = b, !.tries = 0] \in Calls
    BY <2>1 DEF Calls
  <2> QED
    BY <1>7, <2>2, <1>0 DEF AfterSave
<1>8. ASSUME SaveSucceeds
      PROVE  TypeOK'
  <2>1. [server EXCEPT !.atts = call.mem.atts] \in Objects
    BY DEF TypeOK, Calls, Objects
  <2>2. pc' \in PCs /\ call' \in Calls
    BY <1>8, <2>1, <1>7 DEF SaveSucceeds
  <2> QED
    BY <1>8, <2>1, <2>2 DEF SaveSucceeds, Publish, TypeOK, ec2
<1>9. ASSUME SaveConflicts
      PROVE  TypeOK'
  <2>1. [cache EXCEPT !.atts = call.mem.atts] \in Objects /\ synced \in BOOLEAN
    BY DEF TypeOK, Calls, Objects
  <2>2. pc' \in PCs /\ call' \in Calls
    BY <1>9, <2>1, <1>01, <1>7 DEF SaveConflicts, TypeOK
  <2> QED
    BY <1>9, <2>2 DEF SaveConflicts, TypeOK, api, ec2
<1>10. ASSUME SaveFails
       PROVE  TypeOK'
  <2>1. call.mem \in Objects /\ call.fresh \in BOOLEAN
    BY DEF TypeOK, Calls
  <2>2. pc' \in PCs /\ call' \in Calls
    BY <1>10, <2>1, <1>7 DEF SaveFails
  <2> QED
    BY <1>10, <2>2 DEF SaveFails, TypeOK, api, ec2
<1>11. ASSUME VerifyAttachment
       PROVE  TypeOK'
  <2>1. CASE call.checks = {} /\ pc' = "saveVerified" /\ UNCHANGED <<aws, call>>
    BY <1>11, <2>1 DEF VerifyAttachment, TypeOK, Saves, api
  <2>2. ASSUME NEW e \in call.checks, NEW o \in VerifyOutcomes(e),
               aws' = [aws EXCEPT ![e] = o.to],
               call' = [call EXCEPT !.checks = @ \ {e},
                          !.mem.atts = IF o.keep THEN @ ELSE @ \ {e}],
               UNCHANGED pc
        PROVE  TypeOK'
    <3>1. e \in ENIs /\ o.to \in ENIStates
      BY Outcomes DEF TypeOK, Calls
    <3>2. aws' \in [ENIs -> ENIStates]
      BY <2>2, <3>1 DEF TypeOK
    <3>3. call' \in Calls
      <4>1. call \in Calls /\ call.mem \in Objects /\ call.checks \ {e} \in SUBSET ENIs
        BY DEF TypeOK, Calls
      <4>2. [call.mem EXCEPT !.atts = IF o.keep THEN @ ELSE @ \ {e}] \in Objects
        BY <4>1 DEF Objects
      <4>3. call' = [call EXCEPT !.checks = call.checks \ {e},
                       !.mem = [call.mem EXCEPT !.atts = IF o.keep THEN @ ELSE @ \ {e}]]
        BY <2>2, <4>1 DEF Calls, Objects
      <4> QED
        BY <4>1, <4>2, <4>3 DEF Calls
    <3> QED
      BY <1>11, <2>2, <3>2, <3>3 DEF VerifyAttachment, TypeOK, api
  <2> QED
    BY <1>11, <2>1, <2>2 DEF VerifyAttachment
<1>12. ASSUME MissingSubnets
       PROVE  TypeOK'
  <2>1. call' \in Calls
    BY <1>12 DEF MissingSubnets, TypeOK, Calls
  <2> QED
    BY <1>12, <2>1 DEF MissingSubnets, TypeOK, api, ec2
<1>13. ASSUME CreateENI
       PROVE  TypeOK'
  <2>1. call' \in Calls
    <3>1. call \in Calls
      BY DEF TypeOK
    <3>2. [call EXCEPT !.node = NoNode] \in Calls
      BY <3>1 DEF Calls
    <3>3. ASSUME NEW s, NEW e \in ENIs
          PROVE  [call EXCEPT !.missing = @ \ {s}, !.eni = e] \in Calls
      BY <3>1 DEF Calls
    <3>4. ASSUME NEW s
          PROVE  [call EXCEPT !.missing = @ \ {s}] \in Calls
      BY <3>1 DEF Calls
    <3>5. \/ call' = [call EXCEPT !.node = NoNode]
          \/ \E s : call' = [call EXCEPT !.missing = @ \ {s}]
          \/ \E s : \E e \in ENIs : call' = [call EXCEPT !.missing = @ \ {s}, !.eni = e]
      BY <1>13 DEF CreateENI
    <3>6. ASSUME NEW s, call' = [call EXCEPT !.missing = @ \ {s}]
          PROVE  call' \in Calls
      BY <3>4, <3>6
    <3>7. ASSUME NEW s, NEW e \in ENIs, call' = [call EXCEPT !.missing = @ \ {s}, !.eni = e]
          PROVE  call' \in Calls
      BY <3>3, <3>7
    <3> QED
      BY <3>2, <3>5, <3>6, <3>7, Zenon
  <2>2. aws' \in [ENIs -> ENIStates]
    BY <1>13 DEF CreateENI, TypeOK, ENIStates
  <2> QED
    BY <1>13, <2>1, <2>2 DEF CreateENI, TypeOK, api
<1>14. ASSUME AttachENI
       PROVE  TypeOK'
  <2>1. call.eni \in ENIs
    BY <1>14 DEF AttachENI
  <2>2. call' \in Calls
    <3>1. call \in Calls /\ call.mem \in Objects
      BY DEF TypeOK, Calls
    <3>2. [call.mem EXCEPT !.atts = @ \cup {call.eni}] \in Objects
      BY <2>1, <3>1 DEF Objects
    <3>3. CASE call' = [call EXCEPT !.mem.atts = @ \cup {call.eni}, !.eni = NoENI]
      <4>1. call' = [call EXCEPT !.mem = [call.mem EXCEPT !.atts = @ \cup {call.eni}],
                                 !.eni = NoENI]
        BY <3>1, <3>3 DEF Calls, Objects
      <4> QED
        BY <3>1, <3>2, <4>1 DEF Calls
    <3> QED
      BY <1>14, <3>1, <3>3 DEF AttachENI
  <2>3. aws' \in [ENIs -> ENIStates]
    BY <1>14 DEF AttachENI, TypeOK, ENIStates
  <2> QED
    BY <1>14, <2>2, <2>3 DEF AttachENI, TypeOK, Saves, api
<1>15. ASSUME UndoCreate
       PROVE  TypeOK'
  <2>1. PICK o \in DeleteOutcomes(call.eni) : aws' = [aws EXCEPT ![call.eni] = o.to]
    BY <1>15 DEF UndoCreate
  <2>2. aws[call.eni] \in ENIStates
    BY <1>15 DEF UndoCreate, TypeOK
  <2>3. aws' \in [ENIs -> ENIStates]
    BY <2>1, <2>2, Outcomes DEF TypeOK
  <2>4. call' \in Calls
    BY <1>15 DEF UndoCreate, TypeOK, Calls
  <2> QED
    BY <1>15, <2>3, <2>4 DEF UndoCreate, TypeOK, api
<1>16. ASSUME CheckStale
       PROVE  TypeOK'
  <2>1. call' \in Calls
    <3>1. call \in Calls /\ call.stage \in [ENIs -> Stages] /\ call.checks \in SUBSET ENIs
      BY DEF TypeOK, Calls
    <3>2. ASSUME NEW e \in call.checks, NEW stale,
                 call' = [call EXCEPT !.checks = @ \ {e},
                            !.stage[e] = IF stale THEN "queued" ELSE @]
          PROVE  call' \in Calls
      <4>1. [call.stage EXCEPT ![e] = IF stale THEN "queued" ELSE @] \in [ENIs -> Stages]
        BY <3>1 DEF Stages
      <4>2. call' = [call EXCEPT !.checks = @ \ {e},
                       !.stage = [call.stage EXCEPT ![e] = IF stale THEN "queued" ELSE @]]
        BY <3>1, <3>2 DEF Calls
      <4> QED
        BY <3>1, <4>1, <4>2 DEF Calls
    <3> QED
      BY <1>16, <3>1, <3>2 DEF CheckStale
  <2> QED
    BY <1>16, <2>1 DEF CheckStale, TypeOK, Cleanups, api, ec2
<1>17. ASSUME NEW e \in ENIs, NEW s \in Stages, NEW ok \in BOOLEAN, Goto(e, s, ok)
       PROVE  call' \in Calls
  BY <1>17 DEF Goto, TypeOK, Calls
<1>18. "detach" \in Stages /\ "wait" \in Stages /\ "delete" \in Stages /\ "done" \in Stages
  BY DEF Stages
<1>19. ASSUME NEW e \in ENIs, BeginCleanup(e)
       PROVE  TypeOK'
  <2>1. call' \in Calls
    BY <1>17, <1>18, <1>19 DEF BeginCleanup
  <2> QED
    BY <1>19, <2>1 DEF BeginCleanup, TypeOK, api, ec2
<1>20. ASSUME NEW e \in ENIs, Detach(e)
       PROVE  TypeOK'
  <2>1. PICK o \in DetachOutcomes(e) : aws' = [aws EXCEPT ![e] = o.to] /\ Goto(e, "wait", o.ok)
    BY <1>20 DEF Detach
  <2>2. o.to \in ENIStates /\ o.ok \in BOOLEAN
    BY Outcomes DEF TypeOK
  <2>3. aws' \in [ENIs -> ENIStates] /\ call' \in Calls
    BY <1>17, <1>18, <2>1, <2>2 DEF TypeOK
  <2> QED
    BY <1>20, <2>3 DEF Detach, TypeOK, api
<1>21. ASSUME NEW e \in ENIs, WaitForDetachment(e)
       PROVE  TypeOK'
  <2>1. call' \in Calls
    BY <1>17, <1>18, <1>21 DEF WaitForDetachment
  <2> QED
    BY <1>21, <2>1 DEF WaitForDetachment, TypeOK, api, ec2
<1>22. ASSUME NEW e \in ENIs, Delete(e)
       PROVE  TypeOK'
  <2>1. CASE UNCHANGED aws /\ Goto(e, "done", FALSE)
    <3>1. call' \in Calls
      BY <1>17, <1>18, <2>1
    <3> QED
      BY <1>22, <2>1, <3>1 DEF Delete, TypeOK, api
  <2>2. CASE \E o \in DeleteOutcomes(e) :
               aws' = [aws EXCEPT ![e] = o.to] /\ Goto(e, "done", o.ok)
    <3>1. PICK o \in DeleteOutcomes(e) :
            aws' = [aws EXCEPT ![e] = o.to] /\ Goto(e, "done", o.ok)
      BY <2>2
    <3>2. o.to \in ENIStates /\ o.ok \in BOOLEAN
      BY Outcomes DEF TypeOK
    <3>3. aws' \in [ENIs -> ENIStates] /\ call' \in Calls
      BY <1>17, <1>18, <3>1, <3>2 DEF TypeOK
    <3> QED
      BY <1>22, <3>3 DEF Delete, TypeOK, api
  <2> QED
    BY <1>22, <2>1, <2>2 DEF Delete
<1>23. ASSUME CleanupDone
       PROVE  TypeOK'
  <2>1. CASE Return
    BY <1>0, <1>23, <2>1 DEF CleanupDone, TypeOK, api, ec2
  <2>2. ASSUME NEW m \in Objects, call' = [NoCall EXCEPT !.mem = m, !.fresh = call.fresh],
               pc' \in {"removeFinalizer", "saveFinal"}
        PROVE  TypeOK'
    <3>1. call' \in Calls
      BY <2>2, CallTypes DEF TypeOK, Calls
    <3> QED
      BY <1>23, <2>2, <3>1 DEF CleanupDone, TypeOK, Updates, Saves, api, ec2
  <2>3. [call.mem EXCEPT !.fin = FALSE, !.start = FALSE] \in Objects
    BY DEF TypeOK, Calls, Objects
  <2>4. \A S : [call.mem EXCEPT !.atts = @ \ S] \in Objects
    BY DEF TypeOK, Calls, Objects
  <2> QED
    BY <1>23, <2>1, <2>2, <2>3, <2>4 DEF CleanupDone
<1>24. ASSUME NEW obj \in Objects, WriteByOther(obj), UNCHANGED <<ec2, selected, pc>>
       PROVE  TypeOK'
  <2>1. call' \in Calls
    BY <1>24 DEF WriteByOther, TypeOK, Calls
  <2> QED
    BY <1>24, <2>1 DEF WriteByOther, Publish, TypeOK, ec2
<1>25. ASSUME UserDelete
       PROVE  TypeOK'
  <2>1. [server EXCEPT !.phase = IF server.fin THEN "deleting" ELSE "gone"] \in Objects
    BY DEF TypeOK, Objects
  <2> QED
    BY <1>24, <1>25, <2>1 DEF UserDelete
<1>26. ASSUME OtherWrite
       PROVE  TypeOK'
  BY <1>24, <1>26 DEF OtherWrite, TypeOK
<1>27. ASSUME CacheSync \/ Elapse
       PROVE  TypeOK'
  BY <1>27 DEF CacheSync, Elapse, TypeOK, ec2
<1>28. ASSUME NEW n \in Nodes, Relabel(n)
       PROVE  TypeOK'
  BY <1>28 DEF Relabel, TypeOK, api, ec2
<1>29. ASSUME NEW n \in Nodes, Terminate(n)
       PROVE  TypeOK'
  <2>1. aws' \in [ENIs -> ENIStates]
    BY <1>29 DEF Terminate, TypeOK, ENIStates
  <2> QED
    BY <1>29, <2>1 DEF Terminate, TypeOK, api
<1>30. ASSUME NEW e \in ENIs, AwsDetached(e) \/ ActedOnByOther(e)
       PROVE  TypeOK'
  <2>1. aws' \in [ENIs -> ENIStates]
    BY <1>30 DEF AwsDetached, ActedOnByOther, TypeOK, ENIStates
  <2> QED
    BY <1>30, <2>1 DEF AwsDetached, ActedOnByOther, TypeOK, api
<1>31. ASSUME Crash
       PROVE  TypeOK'
  BY <1>0, <1>31 DEF Crash, TypeOK, api, ec2
<1>32. ASSUME UNCHANGED vars
       PROVE  TypeOK'
  BY <1>32 DEF TypeOK, vars, api, ec2
<1> QED
  BY <1>1, <1>2, <1>3, <1>4, <1>5, <1>6, <1>8, <1>9, <1>10, <1>11, <1>12, <1>13, <1>14, <1>15,
     <1>16, <1>19, <1>20, <1>21, <1>22, <1>23, <1>25, <1>26, <1>27, <1>28, <1>29, <1>30, <1>31,
     <1>32 DEF Next, Step, Environment

-----------------------------------------------------------------------------
(* The invariant *)

\* An ENI of the status that is gone stays gone.
AbsentKept == \A e \in server.atts : aws[e] = "absent" => aws'[e] = "absent"

\* What the parts of the invariant that speak of the server need of a step that does not
\* write to it.
LEMMA ApiUnchanged ==
  ASSUME IInv, UNCHANGED api, AbsentKept
  PROVE  CacheIsPast' /\ FinalizerFirst' /\ NoENILeftBehind' /\ (AllAbsent => AllAbsent')
  BY DEF IInv, CacheIsPast, FinalizerFirst, NoENILeftBehind, AllAbsent, AbsentKept, api

\* A call that ends.
LEMMA CallEnds ==
  ASSUME IInv, Return
  PROVE  LiveCall' /\ DeletionCall' /\ CleanupTells'
  BY DEF Return, NoCall, LiveCall, DeletionCall, CleanupTells, LivePcs, DeletionPcs, Saves

\* A step of a call that found the NodeENI live, to another step of it.
LEMMA LiveStep ==
  ASSUME IInv, pc \in LivePcs, pc' \in LivePcs, UNCHANGED api,
         pc' \in {"attach", "undo"} => call'.eni \in ENIs
  PROVE  IInv' <=> TypeOK'
<1>1. server.fin /\ server.phase # "gone" /\ ~server.start
  BY DEF IInv, LiveCall
<1>2. CacheIsPast' /\ FinalizerFirst' /\ NoENILeftBehind'
  BY <1>1 DEF IInv, CacheIsPast, FinalizerFirst, NoENILeftBehind, api
<1>3. pc' \notin DeletionPcs /\ pc' # "addFinalizer"
  BY DEF LivePcs, DeletionPcs, Saves
<1>4. LiveCall' /\ DeletionCall' /\ CleanupTells'
  BY <1>1, <1>3 DEF LiveCall, DeletionCall, CleanupTells, DeletionPcs, api
<1> QED
  BY <1>2, <1>4 DEF IInv

\* An update of the server that takes nothing back keeps the cache a past version.
LEMMA CacheStaysPast ==
  ASSUME IInv, NEW obj, Publish(obj),
         server.phase # "gone",
         obj.phase = "live" => server.phase = "live",
         server.phase = "deleting" => obj.phase \in {"deleting", "gone"},
         server.start => obj.start \/ obj.phase = "gone",
         obj.start => cache.phase # "live" /\ obj.phase # "live",
         cache.phase = "live" /\ cache.fin => obj.fin /\ obj.phase # "gone",
         cache.start => obj.atts = server.atts
  PROVE  CacheIsPast'
<1>1. CASE synced' = FALSE /\ UNCHANGED cache
  BY <1>1 DEF Publish, IInv, CacheIsPast
<1>2. CASE cache' = server'
  BY <1>2 DEF Publish, IInv, CacheIsPast
<1> QED
  BY <1>1, <1>2 DEF Publish

\* The NodeENI is marked for deletion before the cleanup start is recorded.
LEMMA StartAfterDeletion ==
  ASSUME IInv
  PROVE  server.start => server.phase # "live" /\ cache.phase # "live"
  BY DEF IInv, TypeOK, Objects, CacheIsPast

\* The initial states satisfy the invariant.
LEMMA IInvInit == Init => IInv
<1> SUFFICES ASSUME Init
             PROVE  IInv
  OBVIOUS
<1>1. TypeOK
  BY TypeInit
<1>2. CacheIsPast /\ FinalizerFirst /\ NoENILeftBehind
  BY DEF Init, New, CacheIsPast, FinalizerFirst, NoENILeftBehind
<1>3. LiveCall /\ DeletionCall /\ CleanupTells
  BY DEF Init, NoCall, LiveCall, DeletionCall, CleanupTells, LivePcs, DeletionPcs, Saves
<1> QED
  BY <1>1, <1>2, <1>3 DEF IInv

\* What a step may do to an ENI, and which steps of the controller do it.
ENIStep(e) ==
  \/ aws'[e] = aws[e]
  \/ /\ aws[e] = "absent" /\ aws'[e] = "available"
     /\ CreateENI /\ Unused(e) /\ pc' = "attach" /\ call'.eni = e
  \/ aws[e] = "available" /\ aws'[e] = "attached" /\ AttachENI /\ e = call.eni
  \/ aws[e] = "attached" /\ aws'[e] = "detaching" /\ (Detach(e) \/ (Facade /\ VerifyAttachment))
  \/ aws[e] = "detaching" /\ aws'[e] = "available"
  \/ aws[e] \in {"available", "loose"} /\ aws'[e] \in {"absent", "foreign"}
  \/ aws[e] = "attached" /\ aws'[e] = "loose"
  \/ aws[e] \in {"attached", "detaching"} /\ aws'[e] = "absent"
  \/ aws[e] = "attached" /\ aws'[e] = "available" /\ "survive" \in Outside

\* An ENI is attached by AttachENI alone, detached by a cleanup's Detach alone (by the
\* facade's dry run too), and an ID is handed out by CreateENI alone.
LEMMA ENILife ==
  ASSUME IInv, [Next]_vars
  PROVE  \A e \in ENIs : ENIStep(e)
<1>1. aws \in [ENIs -> ENIStates] /\ call.checks \subseteq ENIs
  BY DEF IInv, TypeOK, Calls
<1>2. ASSUME NEW d \in ENIs, NEW to, aws' = [aws EXCEPT ![d] = to],
             \/ to = aws[d]
             \/ /\ aws[d] = "absent" /\ to = "available"
                /\ CreateENI /\ Unused(d) /\ pc' = "attach" /\ call'.eni = d
             \/ aws[d] = "available" /\ to = "attached" /\ AttachENI /\ d = call.eni
             \/ aws[d] = "attached" /\ to = "detaching" /\ (Detach(d) \/ (Facade /\ VerifyAttachment))
             \/ aws[d] = "detaching" /\ to = "available"
             \/ aws[d] \in {"available", "loose"} /\ to \in {"absent", "foreign"}
             \/ aws[d] = "attached" /\ to = "loose"
      PROVE  \A e \in ENIs : ENIStep(e)
  <2>1. aws'[d] = to /\ \A e \in ENIs \ {d} : aws'[e] = aws[e]
    BY <1>1, <1>2
  <2>2. ENIStep(d)
    BY <1>2, <2>1, Zenon DEF ENIStep
  <2>3. \A e \in ENIs \ {d} : ENIStep(e)
    BY <2>1, Zenon DEF ENIStep
  <2> QED
    BY <2>2, <2>3
<1>3. CASE UNCHANGED aws
  BY <1>3, Zenon DEF ENIStep
<1>4. CASE VerifyAttachment
  <2>1. \/ UNCHANGED aws
        \/ \E e \in call.checks : \E o \in VerifyOutcomes(e) : aws' = [aws EXCEPT ![e] = o.to]
    BY <1>4, Zenon DEF VerifyAttachment
  <2>2. ASSUME NEW e \in call.checks, NEW o \in VerifyOutcomes(e), aws' = [aws EXCEPT ![e] = o.to]
        PROVE  \A d \in ENIs : ENIStep(d)
    <3>1. \/ o.to = aws[e]
          \/ aws[e] \in {"available", "loose"} /\ o.to \in {"absent", "foreign"}
          \/ Facade /\ aws[e] = "attached" /\ o.to = "detaching"
      BY <1>1, Outcomes
    <3> QED
      BY <1>1, <1>2, <1>4, <2>2, <3>1
  <2> QED
    BY <1>3, <2>1, <2>2
<1>5. CASE CreateENI
  <2>1. \/ UNCHANGED aws
        \/ \E e \in ENIs : /\ Unused(e) /\ aws' = [aws EXCEPT ![e] = "available"] /\ pc' = "attach"
                           /\ \E s : call' = [call EXCEPT !.missing = @ \ {s}, !.eni = e]
    BY <1>5 DEF CreateENI
  <2>2. ASSUME NEW e \in ENIs, NEW s, Unused(e), aws' = [aws EXCEPT ![e] = "available"],
               pc' = "attach", call' = [call EXCEPT !.missing = @ \ {s}, !.eni = e]
        PROVE  \A d \in ENIs : ENIStep(d)
    <3>1. call'.eni = e
      BY <2>2 DEF IInv, TypeOK, Calls
    <3> QED
      BY <1>2, <1>5, <2>2, <3>1 DEF Unused
  <2> QED
    BY <1>3, <2>1, <2>2
<1>6. CASE AttachENI
  <2>1. call.eni \in ENIs
    BY <1>6 DEF AttachENI, IInv, LiveCall
  <2>2. \/ UNCHANGED aws
        \/ aws[call.eni] = "available" /\ aws' = [aws EXCEPT ![call.eni] = "attached"]
    BY <1>6 DEF AttachENI
  <2> QED
    BY <1>2, <1>3, <1>6, <2>1, <2>2
<1>7. CASE UndoCreate
  <2>1. call.eni \in ENIs
    BY <1>7 DEF UndoCreate, IInv, LiveCall
  <2>2. PICK o \in DeleteOutcomes(call.eni) : aws' = [aws EXCEPT ![call.eni] = o.to]
    BY <1>7 DEF UndoCreate
  <2> QED
    BY <1>1, <1>2, <2>1, <2>2, Outcomes
<1>8. ASSUME NEW e \in ENIs, Detach(e)
      PROVE  \A d \in ENIs : ENIStep(d)
  <2>1. PICK o \in DetachOutcomes(e) : aws' = [aws EXCEPT ![e] = o.to]
    BY <1>8 DEF Detach
  <2>2. o.to = aws[e] \/ (aws[e] = "attached" /\ o.to = "detaching")
    BY <1>1, Outcomes
  <2> QED
    BY <1>2, <1>8, <2>1, <2>2
<1>9. ASSUME NEW e \in ENIs, Delete(e)
      PROVE  \A d \in ENIs : ENIStep(d)
  <2>1. UNCHANGED aws \/ \E o \in DeleteOutcomes(e) : aws' = [aws EXCEPT ![e] = o.to]
    BY <1>9 DEF Delete
  <2>2. ASSUME NEW o \in DeleteOutcomes(e), aws' = [aws EXCEPT ![e] = o.to]
        PROVE  \A d \in ENIs : ENIStep(d)
    BY <1>1, <1>2, <2>2, Outcomes
  <2> QED
    BY <1>3, <2>1, <2>2
<1>10. ASSUME NEW n \in Nodes, Terminate(n)
       PROVE  \A d \in ENIs : ENIStep(d)
  <2> DEFINE its == {e \in ENIs : NodeOf[e] = n /\ InUseByNode(e)}
  <2>1. PICK survivors \in SUBSET its :
          /\ "survive" \in Outside \/ survivors = {}
          /\ aws' = [e \in ENIs |-> IF e \in survivors THEN "available"
                                    ELSE IF e \in its THEN "absent" ELSE aws[e]]
    BY <1>10 DEF Terminate
  <2>2. ASSUME NEW e \in ENIs
        PROVE  \/ aws'[e] = aws[e]
               \/ aws[e] \in {"attached", "detaching"} /\ aws'[e] = "absent"
               \/ aws[e] = "detaching" /\ aws'[e] = "available"
               \/ aws[e] = "attached" /\ aws'[e] = "available" /\ "survive" \in Outside
    BY <2>1 DEF InUseByNode
  <2> QED
    BY <2>2, Zenon DEF ENIStep
<1>11. ASSUME NEW e \in ENIs, AwsDetached(e) \/ ActedOnByOther(e)
       PROVE  \A d \in ENIs : ENIStep(d)
  <2>1. \/ aws[e] = "detaching" /\ aws' = [aws EXCEPT ![e] = "available"]
        \/ aws[e] = "attached" /\ aws' = [aws EXCEPT ![e] = "loose"]
        \/ aws[e] \in {"available", "loose"} /\ aws' = [aws EXCEPT ![e] = "absent"]
        \/ aws[e] \in {"available", "loose"} /\ aws' = [aws EXCEPT ![e] = "foreign"]
    BY <1>11 DEF AwsDetached, ActedOnByOther, Unattached
  <2> QED
    BY <1>2, <2>1
<1> QED
  <2>1. ASSUME NEW e \in ENIs, BeginCleanup(e) \/ WaitForDetachment(e)
        PROVE  UNCHANGED aws
    BY <2>1 DEF BeginCleanup, WaitForDetachment, ec2
  <2>2. \/ HandleDeletion \/ Reconcile \/ NextNode \/ UpdateSucceeds \/ UpdateConflicts
        \/ UpdateFails \/ SaveSucceeds \/ SaveConflicts \/ SaveFails \/ MissingSubnets
        \/ CheckStale \/ CleanupDone
        => UNCHANGED aws
    BY DEF HandleDeletion, Reconcile, NextNode, UpdateSucceeds, UpdateConflicts, UpdateFails,
           SaveSucceeds, SaveConflicts, SaveFails, MissingSubnets, CheckStale, CleanupDone, ec2
  <2>3. \/ UserDelete \/ OtherWrite \/ CacheSync \/ Elapse \/ Crash \/ UNCHANGED vars
        \/ \E n \in Nodes : Relabel(n)
        => UNCHANGED aws
    BY DEF UserDelete, OtherWrite, CacheSync, Elapse, Crash, Relabel, ec2, vars
  <2> QED
    BY <1>3, <1>4, <1>5, <1>6, <1>7, <1>8, <1>9, <1>10, <1>11, <2>1, <2>2, <2>3
    DEF Next, Step, Environment

\* No step brings back an ENI of the status that is gone.
LEMMA AbsentStaysAbsent ==
  ASSUME IInv, [Next]_vars
  PROVE  AbsentKept
<1>1. server.atts \subseteq ENIs
  BY DEF IInv, TypeOK, Objects
<1>2. ASSUME NEW e \in server.atts, aws[e] = "absent"
      PROVE  aws'[e] = "absent"
  <2>1. ENIStep(e)
    BY <1>1, ENILife
  <2>2. ~Unused(e)
    BY DEF Unused
  <2> QED
    BY <1>2, <2>1, <2>2 DEF ENIStep
<1> QED
  BY <1>2 DEF AbsentKept

\* A live NodeENI's call, as long as it does not write to the server.
LEMMA LiveSteps ==
  ASSUME IInv, TypeOK',
         \/ NextNode \/ VerifyAttachment \/ MissingSubnets \/ CreateENI \/ AttachENI
         \/ UndoCreate \/ CheckStale
  PROVE  IInv'
<1>1. UNCHANGED api
  BY DEF NextNode, VerifyAttachment, MissingSubnets, CreateENI, AttachENI, UndoCreate, CheckStale
<1>2. pc \in LivePcs /\ pc' \in LivePcs
  BY DEF NextNode, VerifyAttachment, MissingSubnets, CreateENI, AttachENI, UndoCreate,
         CheckStale, LivePcs, Saves
<1>3. CASE pc' = "attach"
  <2>1. CreateENI
    BY <1>3 DEF NextNode, VerifyAttachment, MissingSubnets, CreateENI, AttachENI, UndoCreate,
                CheckStale
  <2>2. PICK e \in ENIs, S \in SUBSET Subnets : call' = [call EXCEPT !.missing = S, !.eni = e]
    <3>1. call.missing \subseteq Subnets
      BY DEF IInv, TypeOK, Calls
    <3> QED
      BY <1>3, <2>1, <3>1 DEF CreateENI
  <2>3. call'.eni \in ENIs
    BY <2>2 DEF IInv, TypeOK, Calls
  <2> QED
    BY <1>1, <1>2, <1>3, <2>3, LiveStep
<1>4. CASE pc' = "undo"
  <2>1. AttachENI
    BY <1>4 DEF NextNode, VerifyAttachment, MissingSubnets, CreateENI, AttachENI, UndoCreate,
                CheckStale
  <2>2. pc = "attach" /\ UNCHANGED call
    BY <1>4, <2>1 DEF AttachENI
  <2>3. call'.eni \in ENIs
    BY <2>2 DEF IInv, LiveCall
  <2> QED
    BY <1>1, <1>2, <1>4, <2>3, LiveStep
<1>5. CASE pc' \notin {"attach", "undo"}
  BY <1>1, <1>2, <1>5, LiveStep
<1> QED
  BY <1>3, <1>4, <1>5

\* A step that does not write to the server and ends the call.
LEMMA EndingSteps ==
  ASSUME IInv, TypeOK', Return, UNCHANGED <<api, ec2>>
  PROVE  IInv'
<1>1. AbsentKept
  BY DEF AbsentKept, ec2
<1> QED
  BY <1>1, ApiUnchanged, CallEnds DEF IInv

\* A status update that fails, for a conflict or otherwise.
LEMMA FailedSaves ==
  ASSUME IInv, TypeOK', SaveConflicts \/ SaveFails
  PROVE  IInv'
<1>1. UNCHANGED api /\ UNCHANGED ec2
  BY DEF SaveConflicts, SaveFails
<1>2. pc \in LivePcs /\ pc \notin {"attach", "undo"}
  BY DEF SaveConflicts, SaveFails, LivePcs, Saves
<1>3. Return \/ pc' \in {pc, "subnets", "create"}
  BY DEF SaveConflicts, SaveFails, AfterSave
<1>4. CASE Return
  BY <1>1, <1>4, EndingSteps
<1>5. CASE pc' \in {pc, "subnets", "create"}
  <2>1. pc' \in LivePcs
    BY <1>2, <1>5 DEF LivePcs
  <2> QED
    BY <1>1, <1>2, <1>5, <2>1, LiveStep
<1> QED
  BY <1>3, <1>4, <1>5

\* A status update that succeeds is one of a NodeENI with the finalizer.
LEMMA SuccessfulSave ==
  ASSUME IInv, TypeOK', SaveSucceeds
  PROVE  IInv'
<1> DEFINE obj == [server EXCEPT !.atts = call.mem.atts]
<1>1. Publish(obj) /\ AfterSave(obj, TRUE)
  BY DEF SaveSucceeds
<1>2. server.fin /\ server.phase # "gone" /\ ~server.start
  BY DEF SaveSucceeds, IInv, LiveCall, LivePcs
<1>3. obj.fin = server.fin /\ obj.phase = server.phase /\ obj.start = server.start
  BY DEF IInv, TypeOK, Objects
<1>4. CacheIsPast'
  <2>1. ~cache.start
    BY <1>2 DEF IInv, CacheIsPast
  <2> HIDE DEF obj
  <2> QED
    BY <1>1, <1>2, <1>3, <2>1, CacheStaysPast
<1>5. server'.fin /\ server'.phase # "gone" /\ ~server'.start
  BY <1>1, <1>2, <1>3 DEF Publish
<1>6. FinalizerFirst' /\ NoENILeftBehind'
  BY <1>5 DEF FinalizerFirst, NoENILeftBehind
<1>7. pc' \in {"idle", "subnets", "create"}
  BY <1>1 DEF AfterSave, Return
<1>8. LiveCall' /\ DeletionCall' /\ CleanupTells'
  BY <1>5, <1>7 DEF LiveCall, DeletionCall, CleanupTells, DeletionPcs
<1> QED
  BY <1>4, <1>6, <1>8 DEF IInv

\* A call starts from a past version of the NodeENI.
LEMMA CallStarts ==
  ASSUME IInv, TypeOK', HandleDeletion \/ Reconcile
  PROVE  IInv'
<1>1. UNCHANGED api /\ UNCHANGED ec2
  BY DEF HandleDeletion, Reconcile
<1>2. CacheIsPast' /\ FinalizerFirst' /\ NoENILeftBehind'
  <2>1. AbsentKept
    BY <1>1 DEF AbsentKept, ec2
  <2> QED
    BY <1>1, <2>1, ApiUnchanged
<1>3. CASE HandleDeletion
  <2>1. server.phase \in {"deleting", "gone"} /\ (synced => server.phase # "gone")
    BY <1>3 DEF HandleDeletion, IInv, CacheIsPast
  <2>2. ASSUME Begin("forceRemove", [cache EXCEPT !.fin = FALSE]), CleanupTimedOut(cache)
        PROVE  LiveCall' /\ DeletionCall' /\ CleanupTells'
    <3>1. call'.mem.fin = FALSE /\ call'.fresh = synced /\ pc' = "forceRemove"
      BY <2>2 DEF Begin, NoCall, IInv, TypeOK, Objects
    <3> QED
      BY <1>1, <1>3, <2>1, <2>2, <3>1
      DEF HandleDeletion, CleanupTimedOut, LiveCall, DeletionCall, CleanupTells, LivePcs, Saves, api
  <2>3. ASSUME Begin("setStart", [cache EXCEPT !.start = TRUE])
        PROVE  LiveCall' /\ DeletionCall' /\ CleanupTells'
    <3>1. /\ call'.mem.fin = cache.fin /\ call'.mem.start = TRUE /\ call'.fresh = synced
          /\ pc' = "setStart"
      BY <2>3 DEF Begin, NoCall, IInv, TypeOK, Objects
    <3> QED
      BY <1>1, <1>3, <2>1, <3>1
      DEF HandleDeletion, LiveCall, DeletionCall, CleanupTells, LivePcs, Saves, api
  <2>4. ASSUME StartCleanupOf(cache, synced), cache.start
        PROVE  LiveCall' /\ DeletionCall' /\ CleanupTells'
    <3>1. /\ call'.fresh = synced /\ pc' = "cleanupAll"
          /\ call'.stage = [e \in ENIs |-> IF e \in cache.atts THEN "queued" ELSE "none"]
      BY <2>4 DEF StartCleanupOf, NoCall
    <3>2. cache.atts = server.atts /\ server.atts \subseteq ENIs /\ UNCHANGED server
      BY <1>1, <2>4 DEF IInv, CacheIsPast, TypeOK, Objects, api
    <3>3. CleanupTells'
      BY <3>1, <3>2 DEF CleanupTells
    <3> QED
      BY <1>1, <1>3, <2>1, <3>1, <3>3
      DEF HandleDeletion, LiveCall, DeletionCall, LivePcs, Saves, api
  <2> QED
    BY <1>2, <1>3, <2>2, <2>3, <2>4 DEF HandleDeletion, IInv
<1>4. CASE Reconcile
  <2>1. ~server.start /\ ~cache.start /\ (synced => server.phase # "gone")
    BY <1>4 DEF Reconcile, IInv, CacheIsPast
  <2>2. ASSUME Begin("addFinalizer", [cache EXCEPT !.fin = TRUE])
        PROVE  LiveCall' /\ DeletionCall' /\ CleanupTells'
    <3>1. /\ call'.mem.fin = TRUE /\ call'.mem.start = cache.start /\ call'.fresh = synced
          /\ pc' = "addFinalizer"
      BY <2>2 DEF Begin, NoCall, IInv, TypeOK, Objects
    <3> QED
      BY <1>1, <2>1, <3>1
      DEF LiveCall, DeletionCall, CleanupTells, LivePcs, DeletionPcs, Saves, api
  <2>3. ASSUME cache.fin, pc' = "nodes", call'.fresh = synced
        PROVE  LiveCall' /\ DeletionCall' /\ CleanupTells'
    <3>1. server.fin /\ server.phase # "gone"
      BY <1>4, <2>3 DEF Reconcile, IInv, CacheIsPast
    <3> QED
      BY <1>1, <2>1, <2>3, <3>1
      DEF LiveCall, DeletionCall, CleanupTells, LivePcs, DeletionPcs, Saves, api
  <2>4. cache.fin /\ pc' = "nodes" => call'.fresh = synced
    BY <1>4 DEF Reconcile, Begin, NoCall
  <2> QED
    BY <1>2, <1>4, <2>2, <2>3, <2>4 DEF Reconcile, IInv
<1> QED
  BY <1>3, <1>4

\* An update that is not a status update, and fails: for a conflict it is tried again.
LEMMA FailedUpdates ==
  ASSUME IInv, TypeOK', UpdateConflicts \/ UpdateFails
  PROVE  IInv'
<1>1. UNCHANGED api /\ UNCHANGED ec2
  BY DEF UpdateConflicts, UpdateFails
<1>2. CASE Return
  BY <1>1, <1>2, EndingSteps
<1>3. CASE ~Return
  <2>1. /\ pc \in Updates /\ server.phase # "gone" /\ UNCHANGED pc
        /\ call' = [call EXCEPT !.mem = WithMeta(cache), !.fresh = synced, !.tries = @ + 1]
    BY <1>3 DEF UpdateConflicts, UpdateFails
  <2>2. call'.mem.fin = call.mem.fin /\ call'.mem.start = call.mem.start
    <3>1. call'.mem = WithMeta(cache)
      BY <2>1 DEF IInv, TypeOK, Calls
    <3> QED
      BY <3>1 DEF WithMeta, IInv, TypeOK, Objects
  <2>3. pc \notin LivePcs /\ pc \notin {"attach", "undo", "cleanupAll"}
    BY <2>1 DEF Updates, LivePcs, Saves
  <2>4. LiveCall' /\ DeletionCall' /\ CleanupTells'
    BY <1>1, <2>1, <2>2, <2>3
    DEF IInv, LiveCall, DeletionCall, CleanupTells, AllAbsent, api, ec2
  <2>5. AbsentKept
    BY <1>1 DEF AbsentKept, ec2
  <2> QED
    BY <1>1, <2>4, <2>5, ApiUnchanged DEF IInv
<1> QED
  BY <1>2, <1>3

\* An update that succeeds: what it stores depends on what the call found.
LEMMA SuccessfulUpdate ==
  ASSUME IInv, TypeOK', UpdateSucceeds
  PROVE  IInv'
<1> DEFINE obj == WithMeta(server)
           stored == IF obj.phase = "deleting" /\ ~obj.fin THEN [obj EXCEPT !.phase = "gone"]
                                                           ELSE obj
<1>1. /\ Publish(stored) /\ UNCHANGED <<ec2, elapsed>>
      /\ IF pc = "setStart" THEN StartCleanupOf(stored, TRUE) ELSE Return
  BY DEF UpdateSucceeds, Publish
<1>2. server.phase # "gone"
  BY DEF UpdateSucceeds, IInv, LiveCall
<1>3. server.phase \in {"live", "deleting"}
  BY <1>2 DEF IInv, TypeOK, Objects
<1>4. /\ obj.fin = call.mem.fin /\ obj.start = call.mem.start
      /\ obj.phase = server.phase /\ obj.atts = server.atts
  BY DEF WithMeta, IInv, TypeOK, Objects
<1>5. /\ stored.fin = call.mem.fin /\ stored.start = call.mem.start
      /\ stored.atts = server.atts
      /\ stored.phase = IF server.phase = "deleting" /\ ~call.mem.fin THEN "gone"
                                                                     ELSE server.phase
  BY <1>4 DEF WithMeta, IInv, TypeOK, Objects
<1> HIDE DEF obj, stored
<1>6. server' = stored
  BY <1>1 DEF Publish
<1>7. CASE pc = "addFinalizer"
  <2>1. call.mem.fin /\ ~call.mem.start /\ ~server.start
    BY <1>7 DEF IInv, LiveCall
  <2>2. CacheIsPast'
    BY <1>1, <1>2, <1>3, <1>5, <2>1, CacheStaysPast
  <2>3. FinalizerFirst' /\ NoENILeftBehind'
    BY <1>2, <1>5, <1>6, <2>1 DEF FinalizerFirst, NoENILeftBehind
  <2> QED
    BY <1>1, <1>7, <2>2, <2>3, CallEnds DEF IInv
<1>8. CASE pc \in DeletionPcs
  <2>1. cache.phase # "live" /\ server.phase = "deleting"
    BY <1>3, <1>8 DEF IInv, DeletionCall
  <2>2. call.mem.fin => call.mem.start
    BY <1>8 DEF UpdateSucceeds, Updates, DeletionPcs, IInv, DeletionCall
  <2>3. CacheIsPast'
    BY <1>1, <1>2, <1>3, <1>5, <2>1, <2>2, CacheStaysPast
  <2>4. FinalizerFirst'
    BY <1>5, <1>6, <2>1 DEF FinalizerFirst
  <2>5. CASE pc = "setStart"
    <3>1. call.mem.fin /\ call.mem.start
      BY <2>5 DEF IInv, DeletionCall
    <3>2. /\ call'.fresh = TRUE /\ pc' = "cleanupAll"
          /\ call'.stage = [e \in ENIs |-> IF e \in server'.atts THEN "queued" ELSE "none"]
      <4>1. StartCleanupOf(server', TRUE)
        BY <1>1, <1>6, <2>5
      <4>2. pc' = "cleanupAll" /\ call'.fresh = TRUE
        BY <4>1 DEF StartCleanupOf, NoCall
      <4>3. call'.stage = [e \in ENIs |-> IF e \in server'.atts THEN "queued" ELSE "none"]
        BY <4>1 DEF StartCleanupOf, NoCall
      <4> QED
        BY <4>2, <4>3
    <3>3. server'.phase = "deleting" /\ server'.atts \subseteq ENIs
      BY <1>5, <1>6, <2>1, <3>1 DEF IInv, TypeOK, Objects
    <3>4. cache'.phase # "live"
      BY <1>1, <1>6, <2>1, <3>3 DEF Publish
    <3>5. NoENILeftBehind' /\ CleanupTells'
      BY <3>2, <3>3 DEF NoENILeftBehind, CleanupTells
    <3>6. LiveCall' /\ DeletionCall'
      BY <3>2, <3>3, <3>4 DEF LiveCall, DeletionCall, LivePcs, Saves
    <3> QED
      BY <2>3, <2>4, <3>5, <3>6 DEF IInv
  <2>6. CASE pc # "setStart"
    <3>1. NoENILeftBehind'
      <4>1. AllAbsent \/ elapsed
        BY <1>8, <2>6 DEF UpdateSucceeds, Updates, DeletionPcs, IInv, DeletionCall
      <4> QED
        BY <1>1, <1>5, <1>6, <4>1 DEF NoENILeftBehind, AllAbsent, ec2
    <3> QED
      BY <1>1, <2>3, <2>4, <2>6, <3>1, CallEnds DEF IInv
  <2> QED
    BY <2>5, <2>6
<1> QED
  BY <1>7, <1>8 DEF UpdateSucceeds, Updates, DeletionPcs

\* Goto moves one cleanup on to stage s, and leaves the rest of the call alone.
Moved(e, s, ok) ==
  /\ call'.stage = [call.stage EXCEPT ![e] = s]
  /\ (ok /\ call'.failed = call.failed) \/ (~ok /\ call'.failed = call.failed \cup {e})
  /\ call'.mem = call.mem /\ call'.fresh = call.fresh /\ call'.tries = call.tries
  /\ call'.current = call.current

\* A cleanup that goes on moves so.
LEMMA GotoMoves ==
  ASSUME IInv, NEW e \in ENIs, NEW s, NEW ok \in BOOLEAN, Goto(e, s, ok)
  PROVE  Moved(e, s, ok)
<1>1. call' = [call EXCEPT !.stage = [call.stage EXCEPT ![e] = s],
                           !.failed = IF ok THEN @ ELSE @ \cup {e}]
  BY DEF Goto, IInv, TypeOK, Calls
<1> QED
  BY <1>1 DEF Moved, IInv, TypeOK, Calls

\* A step of the cleanup of one ENI that reaches stage s, and what it says of the ENI: after
\* a detachment and a wait without error it is not attached, after a deletion it is gone.
Reaches(e, s, ok) ==
  /\ Moved(e, s, ok)
  /\ call.stage[e] \in {"queued", "detach", "wait", "delete"}
  /\ s \in {"wait", "delete"} /\ ok => aws'[e] # "attached"
  /\ s = "done" /\ ok => aws'[e] = "absent"

\* Every step of a cleanup reaches a stage so.
LEMMA CleanupStage ==
  ASSUME IInv, NEW e \in ENIs, BeginCleanup(e) \/ Detach(e) \/ WaitForDetachment(e) \/ Delete(e)
  PROVE  \E s \in {"detach", "wait", "delete", "done"}, ok \in BOOLEAN : Reaches(e, s, ok)
<1>1. aws[e] \in ENIStates /\ aws \in [ENIs -> ENIStates]
  BY DEF IInv, TypeOK
<1>2. CASE BeginCleanup(e)
  <2>1. call.stage[e] = "queued" /\ UNCHANGED aws
    BY <1>2 DEF BeginCleanup, ec2
  <2>2. \/ Goto(e, "done", FALSE)
        \/ aws'[e] = "absent" /\ Goto(e, "done", TRUE)
        \/ Goto(e, "detach", TRUE)
    BY <1>1, <1>2, <2>1 DEF BeginCleanup, Exists
  <2> QED
    BY <2>1, <2>2, GotoMoves, Zenon DEF Reaches
<1>3. CASE Detach(e)
  <2>1. PICK o \in DetachOutcomes(e) : aws' = [aws EXCEPT ![e] = o.to] /\ Goto(e, "wait", o.ok)
    BY <1>3 DEF Detach
  <2>2. o.ok \in BOOLEAN /\ (o.ok => o.to # "attached")
    BY <1>1, Outcomes
  <2>3. aws'[e] = o.to /\ call.stage[e] = "detach"
    BY <1>1, <1>3, <2>1 DEF Detach
  <2> QED
    BY <2>1, <2>2, <2>3, GotoMoves, Zenon DEF Reaches
<1>4. CASE WaitForDetachment(e)
  <2>1. call.stage[e] = "wait" /\ UNCHANGED aws
    BY <1>4 DEF WaitForDetachment, ec2
  <2>2. (aws'[e] # "attached" /\ Goto(e, "delete", TRUE)) \/ Goto(e, "delete", FALSE)
    BY <1>4, <2>1 DEF WaitForDetachment, Exists, Unattached
  <2> QED
    BY <2>1, <2>2, GotoMoves, Zenon DEF Reaches
<1>5. CASE Delete(e)
  <2>1. call.stage[e] = "delete"
    BY <1>5 DEF Delete
  <2>2. ASSUME NEW o \in DeleteOutcomes(e), aws' = [aws EXCEPT ![e] = o.to], Goto(e, "done", o.ok)
        PROVE  \E ok \in BOOLEAN : Goto(e, "done", ok) /\ (ok => aws'[e] = "absent")
    <3>1. o.ok \in BOOLEAN /\ (o.ok => aws'[e] = "absent")
      BY <1>1, <2>2, Outcomes
    <3> QED
      BY <2>2, <3>1, Zenon
  <2>3. \E ok \in BOOLEAN : Goto(e, "done", ok) /\ (ok => aws'[e] = "absent")
    BY <1>5, <2>2, Zenon DEF Delete
  <2> QED
    BY <2>1, <2>3, GotoMoves, Zenon DEF Reaches
<1> QED
  BY <1>2, <1>3, <1>4, <1>5

\* A step of the cleanup of one ENI.
LEMMA CleanupSteps ==
  ASSUME IInv, TypeOK', AbsentKept, NEW e \in ENIs,
         BeginCleanup(e) \/ Detach(e) \/ WaitForDetachment(e) \/ Delete(e)
  PROVE  IInv'
<1>1. UNCHANGED api /\ UNCHANGED pc /\ pc \in Cleanups
  BY DEF BeginCleanup, Detach, WaitForDetachment, Delete
<1>2. CASE pc = "cleanupStale"
  BY <1>1, <1>2, LiveStep DEF LivePcs
<1>3. CASE pc = "cleanupAll"
  <2>1. PICK s \in {"detach", "wait", "delete", "done"}, ok \in BOOLEAN : Reaches(e, s, ok)
    BY CleanupStage
  <2>2. call'.stage = [call.stage EXCEPT ![e] = s] /\ call'.fresh = call.fresh
    BY <2>1 DEF Reaches, Moved
  <2>3. /\ call.failed \subseteq call'.failed
        /\ s = "done" /\ e \notin call'.failed => aws'[e] = "absent"
    BY <2>1 DEF Reaches, Moved
  <2>4. call.stage \in [ENIs -> Stages] /\ server.atts \subseteq ENIs
    BY DEF IInv, TypeOK, Calls, Objects
  <2>5. CleanupTells'
    <3>1. ASSUME NEW d \in server.atts
          PROVE  /\ call'.stage[d] # "none"
                 /\ call'.stage[d] = "done" /\ d \notin call'.failed => aws'[d] = "absent"
      <4>1. CASE d = e
        BY <2>2, <2>3, <2>4, <4>1
      <4>2. CASE d # e
        BY <1>3, <2>2, <2>3, <2>4, <4>2 DEF IInv, CleanupTells, AbsentKept
      <4> QED
        BY <4>1, <4>2
    <3> QED
      BY <1>1, <3>1 DEF CleanupTells, api
  <2>6. LiveCall' /\ DeletionCall'
    BY <1>1, <1>3, <2>2 DEF IInv, LiveCall, DeletionCall, LivePcs, Saves, api
  <2> QED
    BY <1>1, <2>5, <2>6, ApiUnchanged DEF IInv
<1> QED
  BY <1>1, <1>2, <1>3 DEF Cleanups

\* All cleanups of a batch are done.
LEMMA CleanupEnds ==
  ASSUME IInv, TypeOK', AbsentKept, CleanupDone
  PROVE  IInv'
<1>1. UNCHANGED api /\ UNCHANGED ec2
  BY DEF CleanupDone
<1>2. CASE Return
  BY <1>1, <1>2, EndingSteps
<1>3. CASE pc = "cleanupStale" /\ pc' = "saveFinal"
  BY <1>1, <1>3, LiveStep DEF LivePcs, Saves
<1>4. CASE /\ pc = "cleanupAll" /\ call.failed = {} /\ pc' = "removeFinalizer"
           /\ call' = [NoCall EXCEPT !.mem = [call.mem EXCEPT !.fin = FALSE, !.start = FALSE],
                                     !.fresh = call.fresh]
  <2>1. AllAbsent
    <3>1. ASSUME NEW e \in server.atts
          PROVE  aws[e] = "absent"
      <4>1. e \in ENIs /\ call.stage[e] # "none"
        BY <1>4 DEF IInv, TypeOK, Objects, CleanupTells
      <4>2. call.stage[e] = "done"
        BY <4>1 DEF CleanupDone, Batch
      <4> QED
        BY <1>4, <4>2 DEF IInv, CleanupTells
    <3> QED
      BY <3>1 DEF AllAbsent
  <2>2. call'.mem.fin = FALSE /\ call'.mem.start = FALSE /\ call'.fresh = call.fresh
    <3>1. call'.mem = [call.mem EXCEPT !.fin = FALSE, !.start = FALSE]
      BY <1>4 DEF NoCall
    <3>2. call'.fresh = call.fresh
      BY <1>4 DEF NoCall
    <3> QED
      BY <3>1, <3>2 DEF IInv, TypeOK, Calls, Objects
  <2>3. LiveCall' /\ DeletionCall' /\ CleanupTells'
    BY <1>1, <1>4, <2>1, <2>2, ApiUnchanged
    DEF IInv, LiveCall, DeletionCall, CleanupTells, LivePcs, DeletionPcs, Saves, api
  <2> QED
    BY <1>1, <2>3, ApiUnchanged DEF IInv
<1> QED
  BY <1>2, <1>3, <1>4 DEF CleanupDone

\* What others write to the NodeENI.
LEMMA OthersWrite ==
  ASSUME IInv, TypeOK', UserDelete \/ OtherWrite
  PROVE  IInv'
<1>1. PICK obj : /\ WriteByOther(obj) /\ UNCHANGED <<ec2, pc>>
                 /\ obj.fin = server.fin /\ obj.start = server.start /\ obj.atts = server.atts
                 /\ \/ obj.phase = server.phase /\ server.phase # "gone"
                    \/ /\ server.phase = "live"
                       /\ obj.phase = IF server.fin THEN "deleting" ELSE "gone"
  <2>1. CASE UserDelete
    <3> DEFINE obj == [server EXCEPT !.phase = IF server.fin THEN "deleting" ELSE "gone"]
    <3>1. WriteByOther(obj) /\ UNCHANGED <<ec2, pc>> /\ server.phase = "live"
      BY <2>1 DEF UserDelete
    <3>2. /\ obj.fin = server.fin /\ obj.start = server.start /\ obj.atts = server.atts
          /\ obj.phase = IF server.fin THEN "deleting" ELSE "gone"
      BY DEF IInv, TypeOK, Objects
    <3> HIDE DEF obj
    <3> QED
      BY <3>1, <3>2
  <2>2. CASE OtherWrite
    BY <2>2 DEF OtherWrite
  <2> QED
    BY <2>1, <2>2
<1>2. server' = obj /\ Publish(obj) /\ UNCHANGED elapsed
  BY <1>1 DEF WriteByOther, Publish
<1>3. /\ call'.fresh = FALSE /\ call'.mem = call.mem /\ call'.eni = call.eni
      /\ call'.stage = call.stage /\ call'.failed = call.failed
  BY <1>1 DEF WriteByOther, IInv, TypeOK, Calls
<1>4. CacheIsPast'
  <2>1. server.phase # "gone" /\ (cache.phase = "live" /\ cache.fin => server.fin)
    BY <1>1 DEF IInv, CacheIsPast
  <2> QED
    BY <1>1, <1>2, <2>1, StartAfterDeletion, CacheStaysPast
<1>5. FinalizerFirst' /\ NoENILeftBehind'
  BY <1>1, <1>2 DEF IInv, FinalizerFirst, NoENILeftBehind
<1>6. LiveCall'
  BY <1>1, <1>2, <1>3 DEF IInv, LiveCall
<1>7. DeletionCall'
  <2>1. ASSUME pc \in DeletionPcs
        PROVE  server'.phase # "live" /\ cache'.phase # "live"
    BY <1>1, <1>2, <2>1 DEF IInv, DeletionCall, Publish
  <2>2. AllAbsent => AllAbsent'
    BY <1>1, <1>2 DEF AllAbsent, ec2
  <2> QED
    BY <1>1, <1>2, <1>3, <2>1, <2>2 DEF IInv, DeletionCall
<1>8. CleanupTells'
  BY <1>1, <1>2, <1>3 DEF IInv, CleanupTells, ec2
<1> QED
  BY <1>4, <1>5, <1>6, <1>7, <1>8 DEF IInv

\* What happens around the controller and its NodeENI.
LEMMA OtherSteps ==
  ASSUME IInv, TypeOK', AbsentKept,
         \/ CacheSync \/ Elapse \/ UNCHANGED <<api, pc, call>>
  PROVE  IInv'
<1>1. UNCHANGED <<server, pc, call>> /\ (elapsed => elapsed')
  BY DEF CacheSync, Elapse, api
<1>2. CacheIsPast'
  <2>1. CASE CacheSync
    BY <2>1, StartAfterDeletion DEF CacheSync, CacheIsPast
  <2>2. CASE UNCHANGED <<server, cache, synced>>
    BY <2>2 DEF IInv, CacheIsPast
  <2> QED
    BY <2>1, <2>2 DEF Elapse, api
<1>3. server.phase # "live" /\ cache.phase # "live" => cache'.phase # "live"
  BY DEF CacheSync, Elapse, api
<1>4. AllAbsent => AllAbsent'
  BY <1>1 DEF AllAbsent, AbsentKept
<1>5. FinalizerFirst' /\ LiveCall'
  BY <1>1 DEF IInv, FinalizerFirst, LiveCall
<1>6. NoENILeftBehind'
  BY <1>1, <1>4 DEF IInv, NoENILeftBehind, AllAbsent
<1>7. DeletionCall'
  BY <1>1, <1>3, <1>4 DEF IInv, DeletionCall
<1>8. CleanupTells'
  BY <1>1 DEF IInv, CleanupTells, AbsentKept
<1> QED
  BY <1>2, <1>5, <1>6, <1>7, <1>8 DEF IInv

\* Every step keeps the invariant.
LEMMA IInvNext == IInv /\ [Next]_vars => IInv'
<1> SUFFICES ASSUME IInv, [Next]_vars
             PROVE  IInv'
  OBVIOUS
<1>1. TypeOK'
  BY TypeNext DEF IInv, LiveCall
<1>2. AbsentKept
  BY AbsentStaysAbsent
<1>3. ASSUME NEW n \in Nodes, Relabel(n) \/ Terminate(n)
      PROVE  UNCHANGED <<api, pc, call>>
  BY <1>3 DEF Relabel, Terminate
<1>4. ASSUME NEW e \in ENIs, AwsDetached(e) \/ ActedOnByOther(e)
      PROVE  UNCHANGED <<api, pc, call>>
  BY <1>4 DEF AwsDetached, ActedOnByOther
<1>5. CASE Crash
  BY <1>1, <1>5, EndingSteps DEF Crash
<1>6. CASE UNCHANGED vars
  BY <1>1, <1>2, <1>6, OtherSteps DEF vars
<1>7. CASE Step
  BY <1>1, <1>2, <1>7, LiveSteps, FailedSaves, SuccessfulSave, CallStarts, FailedUpdates,
     SuccessfulUpdate, CleanupSteps, CleanupEnds DEF Step
<1>8. CASE Environment
  BY <1>1, <1>2, <1>3, <1>4, <1>5, <1>8, OthersWrite, OtherSteps DEF Environment
<1> QED
  BY <1>6, <1>7, <1>8 DEF Next

-----------------------------------------------------------------------------
(* Theorems *)

\* The invariant holds in every state of the specification: the cache shows a past version
\* of the NodeENI, and the call that is running knows what its finalizer update rests on.
THEOREM Invariance == Spec => []IInv
  BY IInvInit, IInvNext, PTL DEF Spec

\* Every variable of the reconciler, the API server and EC2 keeps its type.
THEOREM TypeCorrectness == Spec => []TypeOK
<1>1. IInv => TypeOK
  BY DEF IInv
<1> QED
  BY <1>1, Invariance, PTL

\* The finalizer's promise (handleDeletion, removeFinalizer): when a NodeENI is
\* gone before its cleanup timed out, no ENI its status listed is left in EC2, whatever
\* fails, conflicts, or is read from a stale cache.
THEOREM CleanupBeforeGone == Spec => []NoENILeftBehind
<1>1. IInv => NoENILeftBehind
  BY DEF IInv
<1> QED
  BY <1>1, Invariance, PTL

=============================================================================
