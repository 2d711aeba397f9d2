--------------------- MODULE NodeENIAttachments_proofs ---------------------
(***************************************************************************)
(* What the reconciler does to the ENIs while the NodeENI lives, for any   *)
(* nodes, subnets and ENIs: which of them it may detach, which the status  *)
(* lists, that no node gets two in one subnet, and that none is left that  *)
(* nobody knows of.                                                        *)
(*                                                                         *)
(* Each theorem has an invariant of its own, on top of IInv, and assumes   *)
(* of the constants what its invariant needs:                              *)
(*   StaleInv   what is known of an attachment found stale (~Facade for    *)
(*              the theorem alone: the facade's dry run detaches too)      *)
(*   ListedInv  the call's copy has the attached ENIs of the status, as    *)
(*              long as the cache does not lag                             *)
(*   KnownInv   the call's copy has all attached ENIs, as long as updates  *)
(*              of the status arrive                                       *)
(*   SubnetInv  the subnets still to be given an ENI are without one       *)
(*   LeakInv    an ENI that is not attached is in the hands of a call      *)
(***************************************************************************)
EXTENDS NodeENIController_proofs

-----------------------------------------------------------------------------
(* Stale attachments *)

\* No cleanup is under way before stale attachments are looked for, and none has begun
\* before all attachments have been looked at.
CleanupsStart ==
  /\ pc \in LivePcs \ {"stale", "cleanupStale"} => \A e \in ENIs : call.stage[e] = "none"
  /\ pc = "stale" => \A e \in ENIs : call.stage[e] \in {"none", "queued"}

\* The attachments looked at and cleaned up are those of the call's copy.
CleanupsListed ==
  /\ pc = "stale" => call.checks \subseteq call.mem.atts
  /\ pc \in {"stale"} \cup Cleanups =>
       \A e \in ENIs : call.stage[e] # "none" => e \in call.mem.atts

\* Of the ENIs found stale none is attached to a node that was listed and runs.
OnlyStale ==
  pc \in {"stale", "cleanupStale"} =>
    \A e \in ENIs : call.stage[e] # "none" /\ aws[e] = "attached" =>
                      NodeOf[e] \notin call.current \cap running

\* What the cleanup of a stale attachment tells, as long as it has not failed.
StaleTells ==
  pc = "cleanupStale" =>
    \A e \in ENIs \ call.failed :
      /\ call.stage[e] \in {"wait", "delete", "done"} => aws[e] # "attached"
      /\ call.stage[e] = "done" => aws[e] = "absent"

\* A cleanup of a NodeENI that is gone, begun from a stale cache, has nothing left to do.
LateCleanup ==
  pc = "cleanupAll" /\ server.phase = "gone" =>
    \A e \in ENIs : call.stage[e] # "none" => aws[e] = "absent"

StaleInv == CleanupsStart /\ CleanupsListed /\ OnlyStale /\ StaleTells /\ LateCleanup

\* A call that ends, or is neither looking for stale attachments nor cleaning up.
LEMMA StaleElsewhere ==
  ASSUME \/ pc' \notin LivePcs \cup Cleanups
         \/ pc' \in LivePcs \ {"stale", "cleanupStale"} /\ \A e \in ENIs : call'.stage[e] = "none"
  PROVE  StaleInv'
BY DEF StaleInv, CleanupsStart, CleanupsListed, OnlyStale, StaleTells, LateCleanup, LivePcs, Saves, Cleanups

\* The steps of a call that found the NodeENI live, up to the search for stale attachments.
LEMMA StaleLiveSteps ==
  ASSUME IInv, StaleInv,
         \/ NextNode \/ VerifyAttachment \/ MissingSubnets \/ CreateENI \/ AttachENI
         \/ UndoCreate \/ SaveSucceeds \/ SaveConflicts \/ SaveFails
  PROVE  StaleInv'
<1>1. call \in Calls
  BY DEF IInv, TypeOK
<1>2. pc \in LivePcs \ {"stale", "cleanupStale"}
  BY DEF NextNode, VerifyAttachment, MissingSubnets, CreateENI, AttachENI, UndoCreate,
         SaveSucceeds, SaveConflicts, SaveFails, LivePcs, Saves
<1>3. \A e \in ENIs : call.stage[e] = "none"
  BY <1>2 DEF StaleInv, CleanupsStart
<1>4. call'.stage = call.stage \/ pc' = "idle"
  <2>1. CASE NextNode
    BY <1>1, <2>1 DEF NextNode, Calls
  <2>2. CASE VerifyAttachment
    BY <1>1, <2>2 DEF VerifyAttachment, Calls
  <2>3. CASE MissingSubnets \/ UndoCreate
    BY <1>1, <2>3 DEF MissingSubnets, UndoCreate, Calls
  <2>4. CASE CreateENI
    BY <1>1, <2>4 DEF CreateENI, Calls
  <2>5. CASE AttachENI
    BY <1>1, <2>5 DEF AttachENI, Calls
  <2>6. CASE SaveSucceeds \/ SaveConflicts \/ SaveFails
    BY <1>1, <2>6 DEF SaveSucceeds, SaveConflicts, SaveFails, AfterSave, Return, Calls
  <2> QED
    BY <2>1, <2>2, <2>3, <2>4, <2>5, <2>6
<1>5. pc' \in LivePcs \ {"cleanupStale"} \/ pc' = "idle"
  BY <1>2 DEF NextNode, VerifyAttachment, MissingSubnets, CreateENI, AttachENI, UndoCreate,
         SaveSucceeds, SaveConflicts, SaveFails, AfterSave, Return, LivePcs, Saves
<1>6. CASE pc' = "stale"
  <2>1. call' = [call EXCEPT !.node = NoNode, !.checks = call.mem.atts]
    BY <1>2, <1>6 DEF NextNode, VerifyAttachment, MissingSubnets, CreateENI, AttachENI, UndoCreate,
         SaveSucceeds, SaveConflicts, SaveFails, AfterSave, Return, LivePcs, Saves
  <2>2. call'.checks = call.mem.atts /\ call'.mem = call.mem /\ call'.stage = call.stage
    BY <1>1, <2>1 DEF Calls
  <2> QED
    BY <1>3, <1>6, <2>2
    DEF StaleInv, CleanupsStart, CleanupsListed, OnlyStale, StaleTells, LateCleanup
<1>7. CASE pc' # "stale"
  BY <1>3, <1>4, <1>5, <1>7, StaleElsewhere DEF LivePcs, Cleanups, Saves
<1> QED
  BY <1>6, <1>7

\* A cleanup of all attachments starts with those of the call's copy.
LEMMA StaleCleanupStarts ==
  ASSUME IInv, HandleDeletion \/ UpdateSucceeds, NEW obj, NEW b, StartCleanupOf(obj, b)
  PROVE  StaleInv'
<1>1. /\ pc' = "cleanupAll" /\ call'.mem = obj
      /\ call'.stage = [e \in ENIs |-> IF e \in obj.atts THEN "queued" ELSE "none"]
  BY DEF StartCleanupOf, NoCall
<1>2. CASE HandleDeletion
  <2>1. cache.start /\ ~elapsed /\ call'.mem = cache /\ UNCHANGED <<aws, server>>
    <3>1. cache.start /\ ~CleanupTimedOut(cache) /\ StartCleanupOf(cache, synced)
      BY <1>1, <1>2 DEF HandleDeletion, Begin
    <3>2. call'.mem = cache
      BY <3>1 DEF StartCleanupOf, NoCall
    <3> QED
      BY <1>2, <3>1, <3>2 DEF HandleDeletion, CleanupTimedOut, api, ec2
  <2>2. cache.atts = server.atts
    BY <2>1 DEF IInv, CacheIsPast
  <2>3. LateCleanup'
    BY <1>1, <2>1, <2>2 DEF LateCleanup, IInv, NoENILeftBehind
  <2> QED
    BY <1>1, <2>3 DEF StaleInv, CleanupsStart, CleanupsListed, OnlyStale, StaleTells, LivePcs, Saves
<1>3. CASE UpdateSucceeds
  <2>1. pc = "setStart"
    BY <1>1, <1>3 DEF UpdateSucceeds, Return
  <2>2. WithMeta(server).fin /\ server.phase # "gone"
    BY <1>3, <2>1 DEF UpdateSucceeds, WithMeta, IInv, TypeOK, Objects, DeletionCall, LiveCall
  <2>3. server'.phase # "gone"
    BY <1>3, <2>2 DEF UpdateSucceeds, Publish, WithMeta, IInv, TypeOK, Objects
  <2>4. LateCleanup'
    BY <2>3 DEF LateCleanup
  <2> QED
    BY <1>1, <2>4 DEF StaleInv, CleanupsStart, CleanupsListed, OnlyStale, StaleTells, LivePcs, Saves
<1> QED
  BY <1>2, <1>3

\* The other steps of a call up to a cleanup.
LEMMA StaleOtherCalls ==
  ASSUME IInv, StaleInv,
         \/ HandleDeletion \/ Reconcile \/ UpdateSucceeds \/ UpdateConflicts \/ UpdateFails
         \/ Crash
  PROVE  StaleInv'
<1>1. ASSUME HandleDeletion \/ UpdateSucceeds, \E obj, b : StartCleanupOf(obj, b)
      PROVE  StaleInv'
  BY <1>1, StaleCleanupStarts
<1>2. CASE pc' \in {"idle"} \cup Updates
  BY <1>2, StaleElsewhere DEF Updates, LivePcs, Cleanups, Saves
<1>3. CASE pc' = "nodes" /\ call'.stage = NoCall.stage
  BY <1>3, StaleElsewhere DEF NoCall, LivePcs
<1>4. CASE HandleDeletion
  <2>1. (\E obj, b : StartCleanupOf(obj, b)) \/ pc' \in Updates
    BY <1>4 DEF HandleDeletion, Begin, Updates
  <2> QED
    BY <1>1, <1>2, <1>4, <2>1
<1>5. CASE Reconcile
  <2>1. (pc' = "nodes" /\ call'.stage = NoCall.stage) \/ pc' \in Updates
    BY <1>5 DEF Reconcile, Begin, Updates, NoCall
  <2> QED
    BY <1>2, <1>3, <2>1
<1>6. CASE UpdateSucceeds
  <2>1. (\E obj, b : StartCleanupOf(obj, b)) \/ pc' = "idle"
    BY <1>6 DEF UpdateSucceeds, Return
  <2> QED
    BY <1>1, <1>2, <1>6, <2>1
<1>7. CASE UpdateConflicts \/ UpdateFails \/ Crash
  BY <1>2, <1>7 DEF UpdateConflicts, UpdateFails, Crash, Return
<1> QED
  BY <1>4, <1>5, <1>6, <1>7

\* An attachment is found stale when its node was not listed or does not run, or when it is
\* not attached to it.
LEMMA StaleFound ==
  ASSUME IInv, StaleInv, CheckStale
  PROVE  StaleInv'
<1>1. call \in Calls /\ pc = "stale" /\ UNCHANGED <<aws, running>>
  BY DEF IInv, TypeOK, CheckStale, ec2
<1>2. ASSUME NEW e \in call.checks, NEW stale \in StaleVerdicts(e), UNCHANGED pc,
             call' = [call EXCEPT !.checks = @ \ {e},
                        !.stage[e] = IF stale THEN "queued" ELSE @]
      PROVE  StaleInv'
  <2>1. e \in ENIs /\ e \in call.mem.atts
    BY <1>1 DEF StaleInv, CleanupsListed, Calls
  <2>2. /\ call'.checks = call.checks \ {e} /\ call'.mem = call.mem
        /\ call'.current = call.current
        /\ call'.stage = [call.stage EXCEPT ![e] = IF stale THEN "queued" ELSE @]
    BY <1>1, <1>2 DEF Calls
  <2>3. stale => aws[e] # "attached" \/ NodeOf[e] \notin call.current \cap running
    BY DEF StaleVerdicts, InUseByNode
  <2>4. \A d \in ENIs \ {e} : call'.stage[d] = call.stage[d]
    BY <1>1, <2>2 DEF Calls
  <2>5. (stale /\ call'.stage[e] = "queued") \/ call'.stage[e] = call.stage[e]
    BY <1>1, <2>1, <2>2 DEF Calls
  <2>6. CleanupsStart'
    BY <1>1, <1>2, <2>4, <2>5 DEF StaleInv, CleanupsStart
  <2>7. CleanupsListed'
    BY <1>1, <1>2, <2>1, <2>2, <2>4, <2>5 DEF StaleInv, CleanupsListed
  <2>8. OnlyStale'
    BY <1>1, <1>2, <2>1, <2>2, <2>3, <2>4, <2>5 DEF StaleInv, OnlyStale
  <2>9. StaleTells'
    BY <1>1, <1>2 DEF StaleTells
  <2>10. LateCleanup'
    BY <1>1, <1>2 DEF LateCleanup
  <2> QED
    BY <2>6, <2>7, <2>8, <2>9, <2>10 DEF StaleInv
<1>3. CASE call.checks = {} /\ pc' = "cleanupStale" /\ UNCHANGED call
  <2>1. CleanupsStart' /\ CleanupsListed'
    BY <1>1, <1>3 DEF StaleInv, CleanupsStart, CleanupsListed, LivePcs
  <2>2. OnlyStale' /\ StaleTells' /\ LateCleanup'
    BY <1>1, <1>3 DEF StaleInv, CleanupsStart, OnlyStale, StaleTells, LateCleanup
  <2> QED
    BY <2>1, <2>2 DEF StaleInv
<1> QED
  BY <1>2, <1>3, Zenon DEF CheckStale

\* An ENI that was not attached is not, as long as none is being attached, and one that is
\* gone is not there again as long as none is created.
LEMMA Apart ==
  ASSUME IInv, [Next]_vars, NEW e \in ENIs
  PROVE  /\ pc # "attach" /\ aws'[e] = "attached" => aws[e] = "attached"
         /\ pc # "create" /\ aws[e] = "absent" => aws'[e] = "absent"
BY ENILife DEF ENIStep, AttachENI, CreateENI

\* A step of the cleanup of one ENI.
LEMMA StaleCleanupStep ==
  ASSUME IInv, StaleInv, [Next]_vars, NEW e \in ENIs,
         BeginCleanup(e) \/ Detach(e) \/ WaitForDetachment(e) \/ Delete(e)
  PROVE  StaleInv'
<1>1. UNCHANGED <<pc, running, server>> /\ pc \in Cleanups /\ call \in Calls
  BY DEF BeginCleanup, Detach, WaitForDetachment, Delete, IInv, TypeOK, ec2, api
<1>2. PICK s \in {"detach", "wait", "delete", "done"}, ok \in BOOLEAN : Reaches(e, s, ok)
  BY CleanupStage
<1>3. /\ call'.stage = [call.stage EXCEPT ![e] = s]
      /\ \/ ok /\ call'.failed = call.failed
         \/ ~ok /\ call'.failed = call.failed \cup {e}
      /\ call'.mem = call.mem /\ call'.current = call.current
  BY <1>2 DEF Reaches, Moved
<1>4. call'.stage[e] = s /\ \A d \in ENIs \ {e} : call'.stage[d] = call.stage[d]
  BY <1>1, <1>3 DEF Calls
<1>5. e \notin call'.failed => ok
  BY <1>3
<1>6. CleanupsStart' /\ CleanupsListed'
  BY <1>1, <1>2, <1>3, <1>4
  DEF Reaches, StaleInv, CleanupsStart, CleanupsListed, LivePcs, Cleanups, Saves
<1>7. OnlyStale'
  <2>1. ASSUME pc = "cleanupStale", NEW d \in ENIs, call'.stage[d] # "none", aws'[d] = "attached"
        PROVE  NodeOf[d] \notin call.current \cap running
    <3>1. call.stage[d] # "none" /\ aws[d] = "attached"
      BY <1>2, <1>4, <2>1, Apart DEF Reaches
    <3> QED
      BY <2>1, <3>1 DEF StaleInv, OnlyStale
  <2> QED
    BY <1>1, <1>3, <2>1 DEF OnlyStale, Cleanups
<1>8. StaleTells'
  <2>1. ASSUME pc = "cleanupStale", NEW d \in ENIs \ call'.failed
        PROVE  /\ call'.stage[d] \in {"wait", "delete", "done"} => aws'[d] # "attached"
               /\ call'.stage[d] = "done" => aws'[d] = "absent"
    <3>1. CASE d = e
      BY <1>2, <1>4, <1>5, <2>1, <3>1 DEF Reaches
    <3>2. CASE d # e
      BY <1>3, <1>4, <2>1, <3>2, Apart DEF StaleInv, StaleTells
    <3> QED
      BY <3>1, <3>2
  <2> QED
    BY <1>1, <2>1 DEF StaleTells
<1>9. LateCleanup'
  <2>1. ASSUME pc = "cleanupAll", server.phase = "gone", NEW d \in ENIs, call'.stage[d] # "none"
        PROVE  aws'[d] = "absent"
    <3>1. call.stage[d] # "none"
      BY <1>2, <1>4, <2>1 DEF Reaches
    <3> QED
      BY <2>1, <3>1, Apart DEF StaleInv, LateCleanup
  <2> QED
    BY <1>1, <2>1 DEF LateCleanup
<1> QED
  BY <1>6, <1>7, <1>8, <1>9 DEF StaleInv

\* What happens around the call.
LEMMA StaleOutside ==
  ASSUME IInv, StaleInv, [Next]_vars, UNCHANGED pc, running' \subseteq running,
         server'.phase = "gone" => server.phase \in {"gone", "live"},
         \/ UNCHANGED call
         \/ call' = [call EXCEPT !.fresh = FALSE]
  PROVE  StaleInv'
<1>1. /\ call'.stage = call.stage /\ call'.mem = call.mem /\ call'.checks = call.checks
      /\ call'.current = call.current /\ call'.failed = call.failed
  BY DEF IInv, TypeOK, Calls
<1>2. CleanupsStart' /\ CleanupsListed'
  BY <1>1 DEF StaleInv, CleanupsStart, CleanupsListed
<1>3. OnlyStale' /\ StaleTells'
  BY <1>1, Apart DEF StaleInv, OnlyStale, StaleTells
<1>4. LateCleanup'
  <2>1. pc = "cleanupAll" => server.phase # "live"
    BY DEF IInv, DeletionCall, DeletionPcs
  <2> QED
    BY <1>1, <2>1, Apart DEF StaleInv, LateCleanup
<1> QED
  BY <1>2, <1>3, <1>4 DEF StaleInv

\* It holds initially, when no call is running.
LEMMA StaleInvInit == Init => StaleInv
BY StaleElsewhere DEF Init, StaleInv, CleanupsStart, CleanupsListed, OnlyStale, StaleTells, LateCleanup,
   LivePcs, Saves, Cleanups

\* Every step keeps what is known of stale attachments.
LEMMA StaleInvNext ==
  ASSUME IInv, StaleInv, [Next]_vars
  PROVE  StaleInv'
<1>1. CASE CleanupDone
  <2>1. pc' \in {"removeFinalizer", "idle"} \/ (pc' = "saveFinal" /\ call'.stage = NoCall.stage)
    BY <1>1 DEF CleanupDone, Return, NoCall
  <2> QED
    BY <2>1, StaleElsewhere DEF NoCall, LivePcs, Saves, Cleanups
<1>2. CASE UserDelete \/ OtherWrite \/ CacheSync \/ Elapse \/ UNCHANGED vars
  <2>1. /\ UNCHANGED <<pc, running>>
        /\ UNCHANGED call \/ call' = [call EXCEPT !.fresh = FALSE]
        /\ server'.phase = "gone" => server.phase \in {"gone", "live"}
    BY <1>2 DEF UserDelete, OtherWrite, WriteByOther, Publish, CacheSync, Elapse, vars, ec2, api
  <2> QED
    BY <2>1, StaleOutside
<1>3. ASSUME NEW n \in Nodes, Relabel(n) \/ Terminate(n)
      PROVE  StaleInv'
  <2>1. UNCHANGED <<server, pc, call>> /\ running' \subseteq running
    BY <1>3 DEF Relabel, Terminate, ec2, api
  <2> QED
    BY <2>1, StaleOutside
<1>4. ASSUME NEW e \in ENIs, AwsDetached(e) \/ ActedOnByOther(e)
      PROVE  StaleInv'
  <2>1. UNCHANGED <<server, pc, call, running>>
    BY <1>4 DEF AwsDetached, ActedOnByOther, api
  <2> QED
    BY <2>1, StaleOutside
<1> QED
  BY <1>1, <1>2, <1>3, <1>4, StaleLiveSteps, StaleOtherCalls, StaleFound, StaleCleanupStep
  DEF Next, Step, Environment

\* Selected nodes keep their ENIs (verifyAndUpdateAttachment, isAttachmentStale): with the
\* default client an ENI is detached only from a node that was terminated or did not match
\* the selector when the call listed the nodes, or because the NodeENI is being deleted,
\* whatever fails, conflicts or is read from a stale cache.
THEOREM NoDetachmentOfSelected == ASSUME ~Facade PROVE Spec => SelectedNodesKeepENIs
<1>1. IInv /\ StaleInv /\ [Next]_vars =>
        [\A e \in ENIs :
           aws[e] = "attached" /\ aws'[e] = "detaching" =>
             \/ server.phase = "deleting"
             \/ NodeOf[e] \notin call.current \cap running]_vars
  <2> SUFFICES ASSUME IInv, StaleInv, [Next]_vars, NEW e \in ENIs,
                      aws[e] = "attached", aws'[e] = "detaching"
               PROVE  \/ server.phase = "deleting"
                      \/ NodeOf[e] \notin call.current \cap running
    OBVIOUS
  <2>1. pc \in Cleanups /\ call.stage[e] = "detach"
    BY ENILife DEF ENIStep, Detach
  <2>2. CASE pc = "cleanupStale"
    BY <2>1, <2>2 DEF StaleInv, OnlyStale
  <2>3. CASE pc = "cleanupAll"
    <3>1. server.phase # "gone"
      BY <2>1, <2>3 DEF StaleInv, LateCleanup
    <3> QED
      BY <2>3, <3>1 DEF IInv, DeletionCall, DeletionPcs, TypeOK, Objects
  <2> QED
    BY <2>1, <2>2, <2>3 DEF Cleanups
<1>2. Init => StaleInv
  BY StaleInvInit
<1>3. IInv /\ StaleInv /\ [Next]_vars => StaleInv'
  BY StaleInvNext
<1> QED
  BY <1>1, <1>2, <1>3, Invariance, PTL DEF Spec, SelectedNodesKeepENIs

-----------------------------------------------------------------------------
(* What the status lists *)

Attached == {e \in ENIs : aws[e] = "attached"}

SyncedCache == synced /\ cache = server

\* A call that found the NodeENI live has the attached ENIs of the status in its copy, and
\* the ENI it is about to attach is a new one.
Listed ==
  /\ pc \in LivePcs => server.atts \cap Attached \subseteq call.mem.atts
  /\ pc = "attach" => call.eni \notin server.atts

ListedInv == SyncedCache /\ Listed

\* Only AttachENI adds to the ENIs that are attached.
LEMMA NoneAttached ==
  ASSUME IInv, [Next]_vars, ~AttachENI
  PROVE  Attached' \subseteq Attached
BY ENILife DEF ENIStep, Attached

\* The steps that write to the API server, and the one that brings it to the cache.
LEMMA ServerSteps ==
  ASSUME [Next]_vars, ~UNCHANGED <<server, cache, synced>>
  PROVE  UpdateSucceeds \/ SaveSucceeds \/ UserDelete \/ OtherWrite \/ CacheSync
<1>1. ASSUME NEW e \in ENIs,
             \/ BeginCleanup(e) \/ Detach(e) \/ WaitForDetachment(e) \/ Delete(e)
             \/ AwsDetached(e) \/ ActedOnByOther(e)
      PROVE  UNCHANGED <<server, cache, synced>>
  BY <1>1 DEF BeginCleanup, Detach, WaitForDetachment, Delete, AwsDetached, ActedOnByOther, api
<1>2. ASSUME NEW n \in Nodes, Relabel(n) \/ Terminate(n)
      PROVE  UNCHANGED <<server, cache, synced>>
  BY <1>2 DEF Relabel, Terminate, api
<1>3. ASSUME \/ HandleDeletion \/ Reconcile \/ NextNode \/ UpdateConflicts \/ UpdateFails
             \/ SaveConflicts \/ SaveFails \/ VerifyAttachment \/ MissingSubnets \/ CreateENI
             \/ AttachENI \/ UndoCreate \/ CheckStale \/ CleanupDone \/ Elapse \/ Crash
             \/ UNCHANGED vars
      PROVE  UNCHANGED <<server, cache, synced>>
  BY <1>3 DEF HandleDeletion, Reconcile, NextNode, UpdateConflicts, UpdateFails, SaveConflicts,
     SaveFails, VerifyAttachment, MissingSubnets, CreateENI, AttachENI, UndoCreate, CheckStale,
     CleanupDone, Elapse, Crash, vars, api
<1> QED
  BY <1>1, <1>2, <1>3 DEF Next, Step, Environment

\* Without a stale cache, a version that is stored is in the cache at once.
LEMMA CacheStaysSynced ==
  ASSUME "stale" \notin Faults, SyncedCache, [Next]_vars
  PROVE  SyncedCache'
<1>1. ASSUME NEW obj, Publish(obj)
      PROVE  SyncedCache'
  BY <1>1 DEF Publish, SyncedCache
<1>2. CASE UNCHANGED <<server, cache, synced>>
  BY <1>2 DEF SyncedCache
<1>3. CASE UpdateSucceeds \/ SaveSucceeds \/ UserDelete \/ OtherWrite
  <2>1. \E obj : Publish(obj)
    BY <1>3 DEF UpdateSucceeds, SaveSucceeds, UserDelete, OtherWrite, WriteByOther
  <2> QED
    BY <1>1, <2>1
<1>4. CASE CacheSync
  BY <1>4 DEF CacheSync, SyncedCache
<1> QED
  BY <1>2, <1>3, <1>4, ServerSteps

\* An attachment that the verification drops is not attached any more.
LEMMA VerifyDrops ==
  ASSUME NEW e, aws[e] \in ENIStates, NEW o \in VerifyOutcomes(e)
  PROVE  o.keep \in BOOLEAN /\ (o.to = "attached" => o.keep)
<1>1. ASSUME NEW v \in ValidOutcomes(e)
      PROVE  /\ v.valid \in BOOLEAN
             /\ v.to = aws[e] \/ (aws[e] = "attached" /\ v.to = "detaching")
             /\ v.to = "attached" => v.valid
  <2>1. CASE Facade
    <3>1. PICK d \in DetachOutcomes(e) : v = [to |-> d.to, valid |-> ~d.ok]
      BY <2>1 DEF ValidOutcomes
    <3>2. v.to = d.to /\ v.valid = ~d.ok
      BY <3>1
    <3> QED
      BY <3>2, Outcomes
  <2>2. CASE ~Facade
    <3>1. PICK b \in IF InUseByNode(e) THEN {TRUE} ELSE BOOLEAN : v = [to |-> aws[e], valid |-> b]
      BY <2>2 DEF ValidOutcomes
    <3>2. v.to = aws[e] /\ v.valid = b
      BY <3>1
    <3> QED
      BY <3>1, <3>2 DEF InUseByNode
  <2> QED
    BY <2>1, <2>2
<1>2. PICK v \in ValidOutcomes(e) :
        \/ ~v.valid /\ o = [to |-> v.to, keep |-> FALSE]
        \/ Unattached(e) /\ \E d \in DeleteOutcomes(e) : o = [to |-> d.to, keep |-> FALSE]
        \/ o = [to |-> v.to, keep |-> InUseByNode(e)]
        \/ \E w \in ValidOutcomes(e) : o = [to |-> w.to, keep |-> w.valid]
  BY DEF VerifyOutcomes
<1>3. CASE ~v.valid /\ o = [to |-> v.to, keep |-> FALSE]
  <2>1. o.to = v.to /\ o.keep = FALSE
    BY <1>3
  <2> QED
    BY <1>1, <1>3, <2>1
<1>4. ASSUME Unattached(e), NEW d \in DeleteOutcomes(e), o = [to |-> d.to, keep |-> FALSE]
      PROVE  o.keep \in BOOLEAN /\ (o.to = "attached" => o.keep)
  <2>1. o.to = d.to /\ o.keep = FALSE
    BY <1>4
  <2> QED
    BY <1>4, <2>1, Outcomes DEF Unattached
<1>5. CASE o = [to |-> v.to, keep |-> InUseByNode(e)]
  <2>1. o.to = v.to /\ o.keep = InUseByNode(e)
    BY <1>5
  <2> QED
    BY <1>1, <2>1 DEF InUseByNode
<1>6. ASSUME NEW w \in ValidOutcomes(e), o = [to |-> w.to, keep |-> w.valid]
      PROVE  o.keep \in BOOLEAN /\ (o.to = "attached" => o.keep)
  <2>1. o.to = w.to /\ o.keep = w.valid
    BY <1>6
  <2> QED
    BY <1>1, <2>1
<1> QED
  BY <1>2, <1>3, <1>4, <1>5, <1>6

\* Only a status update changes the attachments of the status, and a NodeENI that is
\* deleted or gone does not come back.
LEMMA OnlySavesDrop ==
  ASSUME IInv, [Next]_vars
  PROVE  /\ ~SaveSucceeds => server'.atts = server.atts
         /\ server.phase = "gone" => server'.phase = "gone"
         /\ server.phase # "live" => server'.phase # "live"
<1>1. server \in Objects /\ call.mem \in Objects /\ (call.fresh => server.phase # "gone")
  BY DEF IInv, TypeOK, Calls, LiveCall
<1>2. CASE UpdateSucceeds
  <2> DEFINE obj == WithMeta(server)
  <2>1. obj \in Objects /\ obj.atts = server.atts /\ obj.phase = server.phase
    BY <1>1 DEF WithMeta, Objects, IInv, TypeOK, Calls
  <2>2. /\ server.phase # "gone" /\ pc \in Updates
        /\ \/ server' = obj
           \/ server' = [obj EXCEPT !.phase = "gone"]
    BY <1>1, <1>2 DEF UpdateSucceeds, Publish
  <2> HIDE DEF obj
  <2>3. server'.atts = server.atts /\ server'.phase \in {server.phase, "gone"}
    BY <2>1, <2>2 DEF Objects
  <2> QED
    BY <2>2, <2>3
<1>3. CASE SaveSucceeds
  BY <1>1, <1>3 DEF SaveSucceeds, Publish, Objects
<1>4. CASE UserDelete \/ OtherWrite
  BY <1>1, <1>4 DEF UserDelete, OtherWrite, WriteByOther, Publish, Objects
<1>5. CASE CacheSync \/ UNCHANGED <<server, cache, synced>>
  BY <1>5 DEF CacheSync
<1> QED
  BY <1>2, <1>3, <1>4, <1>5, ServerSteps

\* A call that found the NodeENI live keeps every attachment of its copy whose ENI is
\* attached; its copy loses the server's version only to a write of others.
CopyKept ==
  /\ call.mem.atts \cap Attached' \subseteq call'.mem.atts
  /\ call.fresh => call'.fresh \/ UserDelete \/ OtherWrite

\* The verification of an attachment, which drops it only when its ENI is not attached.
LEMMA CopyOfVerify ==
  ASSUME IInv, VerifyAttachment
  PROVE  CopyKept
<1>1. call \in Calls /\ call.mem \in Objects /\ aws \in [ENIs -> ENIStates]
  BY DEF IInv, TypeOK, Calls
<1>2. CASE UNCHANGED call
  BY <1>2 DEF CopyKept
<1>3. ASSUME NEW e \in call.checks, NEW o \in VerifyOutcomes(e),
             aws' = [aws EXCEPT ![e] = o.to],
             call' = [call EXCEPT !.checks = @ \ {e},
                        !.mem.atts = IF o.keep THEN @ ELSE @ \ {e}]
      PROVE  CopyKept
  <2>1. call' = [call EXCEPT !.checks = call.checks \ {e},
                   !.mem = [call.mem EXCEPT !.atts = IF o.keep THEN @ ELSE @ \ {e}]]
    BY <1>1, <1>3 DEF Calls, Objects
  <2>2. /\ call'.mem.atts = IF o.keep THEN call.mem.atts ELSE call.mem.atts \ {e}
        /\ call'.fresh = call.fresh
    BY <1>1, <2>1 DEF Calls, Objects
  <2>3. e \in ENIs /\ aws[e] \in ENIStates
    BY <1>1 DEF Calls
  <2>4. aws'[e] = "attached" => o.keep
    BY <1>1, <1>3, <2>3, VerifyDrops
  <2> QED
    BY <2>2, <2>4 DEF CopyKept, Attached
<1> QED
  BY <1>2, <1>3 DEF VerifyAttachment

\* The end of the cleanup of stale attachments, which drops those that are cleaned up.
LEMMA CopyOfCleanup ==
  ASSUME IInv, StaleInv, CleanupDone, pc = "cleanupStale"
  PROVE  CopyKept
<1>1. call \in Calls /\ call.mem \in Objects /\ UNCHANGED aws
  BY DEF IInv, TypeOK, Calls, CleanupDone, ec2
<1>2. PICK dropped \in SUBSET ENIs :
        /\ \A e \in dropped : ~Exists(e) \/ (call.failed = {} /\ e \in Batch)
        /\ call' = [NoCall EXCEPT !.mem = [call.mem EXCEPT !.atts = @ \ dropped],
                                  !.fresh = call.fresh]
  <2>1. PICK unknown \in SUBSET {e \in Batch : ~Exists(e)} :
          call' = [NoCall EXCEPT
                     !.mem = [call.mem EXCEPT
                       !.atts = @ \ IF call.failed = {} THEN Batch
                                    ELSE IF Cardinality(Batch) = 1 THEN {} ELSE unknown],
                     !.fresh = call.fresh]
    BY DEF CleanupDone
  <2>2. Batch \subseteq ENIs
    BY DEF Batch
  <2> QED
    BY <2>1, <2>2
<1>3. call'.mem.atts = call.mem.atts \ dropped /\ call'.fresh = call.fresh
  BY <1>1, <1>2 DEF NoCall, Calls, Objects
<1>4. \A e \in dropped : aws[e] # "attached"
  <2>1. \A e \in Batch : call.stage[e] = "done"
    BY DEF CleanupDone
  <2>2. Batch \subseteq ENIs
    BY DEF Batch
  <2> QED
    BY <1>2, <2>1, <2>2 DEF StaleInv, StaleTells, Exists
<1> QED
  BY <1>1, <1>3, <1>4 DEF CopyKept, Attached

\* An update of the status, after which the call goes on.
LEMMA CopyOfSaves ==
  ASSUME IInv, SyncedCache, SaveSucceeds \/ SaveConflicts \/ SaveFails, pc' # "idle"
  PROVE  CopyKept /\ call'.mem.atts = call.mem.atts
<1>1. call \in Calls /\ call.mem \in Objects /\ server \in Objects /\ cache \in Objects
  BY DEF IInv, TypeOK, Calls
<1>2. ASSUME NEW mem, NEW b, mem.atts = call.mem.atts, call.fresh => b, AfterSave(mem, b)
      PROVE  CopyKept /\ call'.mem.atts = call.mem.atts
  <2>1. call'.mem = mem /\ call'.fresh = b
    BY <1>1, <1>2 DEF AfterSave, Return, Calls
  <2> QED
    BY <1>2, <2>1 DEF CopyKept
<1>3. CASE SaveSucceeds
  <2>1. [server EXCEPT !.atts = call.mem.atts].atts = call.mem.atts
    BY <1>1 DEF Objects
  <2> QED
    BY <1>2, <1>3, <2>1 DEF SaveSucceeds
<1>4. CASE SaveConflicts
  <2> DEFINE latest == [cache EXCEPT !.atts = call.mem.atts]
  <2>1. latest.atts = call.mem.atts /\ ~call.fresh
    BY <1>1, <1>4 DEF Objects, SaveConflicts
  <2>2. \/ AfterSave(latest, synced)
        \/ call' = [call EXCEPT !.mem = latest, !.fresh = synced, !.tries = @ + 1]
    BY <1>4 DEF SaveConflicts
  <2> HIDE DEF latest
  <2>3. CASE call' = [call EXCEPT !.mem = latest, !.fresh = synced, !.tries = @ + 1]
    <3>1. call'.mem = latest
      BY <1>1, <2>3 DEF Calls
    <3> QED
      BY <2>1, <3>1 DEF CopyKept
  <2> QED
    BY <1>2, <2>1, <2>2, <2>3
<1>5. CASE SaveFails
  BY <1>2, <1>5 DEF SaveFails
<1> QED
  BY <1>3, <1>4, <1>5

\* The other steps of such a call, and what happens around it.
LEMMA CopyOfLiveCall ==
  ASSUME IInv,
         \/ NextNode \/ MissingSubnets \/ CreateENI \/ AttachENI \/ UndoCreate \/ CheckStale
         \/ UserDelete \/ OtherWrite \/ UNCHANGED call
         \/ \E e \in ENIs : BeginCleanup(e) \/ Detach(e) \/ WaitForDetachment(e) \/ Delete(e)
  PROVE  CopyKept
<1>1. call \in Calls /\ call.mem \in Objects
  BY DEF IInv, TypeOK, Calls
<1>2. CASE UserDelete \/ OtherWrite
  <2>1. call'.mem = call.mem
    BY <1>1, <1>2 DEF UserDelete, OtherWrite, WriteByOther, Calls
  <2> QED
    BY <1>2, <2>1 DEF CopyKept
<1>3. ASSUME call'.mem = call.mem, call'.fresh = call.fresh
      PROVE  CopyKept
  BY <1>3 DEF CopyKept
<1>4. CASE NextNode
  BY <1>1, <1>3, <1>4 DEF NextNode, Calls
<1>5. CASE MissingSubnets \/ UndoCreate
  BY <1>1, <1>3, <1>5 DEF MissingSubnets, UndoCreate, Calls
<1>6. CASE CreateENI
  BY <1>1, <1>3, <1>6 DEF CreateENI, Calls
<1>7. CASE CheckStale
  BY <1>1, <1>3, <1>7 DEF CheckStale, Calls
<1>8. CASE UNCHANGED call
  BY <1>3, <1>8
<1>9. CASE AttachENI
  <2>1. CASE call' = [call EXCEPT !.mem.atts = @ \cup {call.eni}, !.eni = NoENI]
    <3>1. call' = [call EXCEPT !.mem = [call.mem EXCEPT !.atts = @ \cup {call.eni}],
                               !.eni = NoENI]
      BY <1>1, <2>1 DEF Calls, Objects
    <3>2. call'.mem.atts = call.mem.atts \cup {call.eni} /\ call'.fresh = call.fresh
      BY <1>1, <3>1 DEF Calls, Objects
    <3> QED
      BY <3>2 DEF CopyKept
  <2> QED
    BY <1>8, <1>9, <2>1 DEF AttachENI
<1>10. ASSUME NEW e \in ENIs, BeginCleanup(e) \/ Detach(e) \/ WaitForDetachment(e) \/ Delete(e)
       PROVE  CopyKept
  BY <1>3, <1>10, CleanupStage DEF Reaches, Moved
<1> QED
  BY <1>2, <1>4, <1>5, <1>6, <1>7, <1>8, <1>9, <1>10

\* A call that found the NodeENI live ends, and an update of its status is left, in one way.
LEMMA SavesLeft ==
  ASSUME [Next]_vars,
         \/ pc \in LivePcs /\ pc' \notin LivePcs
         \/ pc \in Saves /\ pc' # pc
  PROVE  SaveSucceeds \/ SaveConflicts \/ SaveFails \/ Crash
<1>1. pc' # pc /\ pc \in LivePcs
  BY DEF LivePcs
<1>2. ASSUME NEW e \in ENIs,
             \/ BeginCleanup(e) \/ Detach(e) \/ WaitForDetachment(e) \/ Delete(e)
             \/ AwsDetached(e) \/ ActedOnByOther(e)
      PROVE  FALSE
  BY <1>1, <1>2 DEF BeginCleanup, Detach, WaitForDetachment, Delete, AwsDetached, ActedOnByOther
<1>3. ASSUME NEW n \in Nodes, Relabel(n) \/ Terminate(n)
      PROVE  FALSE
  BY <1>1, <1>3 DEF Relabel, Terminate
<1>4. ~HandleDeletion /\ ~Reconcile /\ ~UpdateSucceeds /\ ~UpdateConflicts /\ ~UpdateFails
  BY <1>1 DEF HandleDeletion, Reconcile, UpdateSucceeds, UpdateConflicts, UpdateFails, Updates,
     LivePcs, Saves
<1>5. ~NextNode /\ ~VerifyAttachment /\ ~MissingSubnets /\ ~CreateENI /\ ~AttachENI
      /\ ~UndoCreate /\ ~CheckStale /\ ~CleanupDone
  BY <1>1 DEF NextNode, VerifyAttachment, MissingSubnets, CreateENI, AttachENI, UndoCreate,
     CheckStale, CleanupDone, LivePcs, Saves, Cleanups
<1>6. ~UserDelete /\ ~OtherWrite /\ ~CacheSync /\ ~Elapse /\ ~UNCHANGED vars
  BY <1>1 DEF UserDelete, OtherWrite, CacheSync, Elapse, vars
<1> QED
  BY <1>2, <1>3, <1>4, <1>5, <1>6 DEF Next, Step, Environment

\* Every step of such a call keeps the copy.
LEMMA CopyKeeps ==
  ASSUME IInv, StaleInv, SyncedCache, [Next]_vars, pc \in LivePcs, pc' \in LivePcs
  PROVE  CopyKept
<1>1. ~HandleDeletion /\ ~Reconcile /\ ~UpdateSucceeds /\ ~UpdateConflicts /\ ~UpdateFails /\ ~Crash
  BY DEF HandleDeletion, Reconcile, UpdateSucceeds, UpdateConflicts, UpdateFails, Updates,
     Crash, Return, LivePcs, Saves
<1>2. CleanupDone => pc = "cleanupStale"
  BY DEF CleanupDone, LivePcs, Saves, Cleanups
<1>3. pc' # "idle"
  BY DEF LivePcs, Saves
<1>4. ASSUME \/ CacheSync \/ Elapse \/ UNCHANGED vars
             \/ \E n \in Nodes : Relabel(n) \/ Terminate(n)
             \/ \E e \in ENIs : AwsDetached(e) \/ ActedOnByOther(e)
      PROVE  UNCHANGED call
  BY <1>4 DEF CacheSync, Elapse, vars, Relabel, Terminate, AwsDetached, ActedOnByOther
<1> QED
  BY <1>1, <1>2, <1>3, <1>4, CopyOfVerify, CopyOfCleanup, CopyOfSaves, CopyOfLiveCall
  DEF Next, Step, Environment

\* A call that finds the NodeENI live starts from what the cache shows.
LEMMA LiveCallStarts ==
  ASSUME [Next]_vars, pc \notin LivePcs, pc' \in LivePcs
  PROVE  /\ cache.phase = "live" /\ call'.mem = cache /\ call'.fresh = synced
         /\ pc' = "nodes" /\ UNCHANGED <<server, aws>>
<1>1. ASSUME NEW e \in ENIs,
             \/ BeginCleanup(e) \/ Detach(e) \/ WaitForDetachment(e) \/ Delete(e)
             \/ AwsDetached(e) \/ ActedOnByOther(e)
      PROVE  FALSE
  BY <1>1 DEF BeginCleanup, Detach, WaitForDetachment, Delete, AwsDetached, ActedOnByOther
<1>2. ASSUME NEW n \in Nodes, Relabel(n) \/ Terminate(n)
      PROVE  FALSE
  BY <1>2 DEF Relabel, Terminate
<1>3. ~HandleDeletion /\ ~UpdateSucceeds /\ ~UpdateConflicts /\ ~UpdateFails /\ ~Crash
  BY DEF HandleDeletion, Begin, StartCleanupOf, UpdateSucceeds, UpdateConflicts, UpdateFails,
     Crash, Return, LivePcs, Saves
<1>4. ~NextNode /\ ~VerifyAttachment /\ ~MissingSubnets /\ ~CreateENI /\ ~AttachENI
      /\ ~UndoCreate /\ ~CheckStale /\ ~SaveSucceeds /\ ~SaveConflicts /\ ~SaveFails
  BY DEF NextNode, VerifyAttachment, MissingSubnets, CreateENI, AttachENI, UndoCreate,
     CheckStale, SaveSucceeds, SaveConflicts, SaveFails, LivePcs
<1>5. ~CleanupDone
  BY DEF CleanupDone, Return, LivePcs, Saves
<1>6. ~UserDelete /\ ~OtherWrite /\ ~CacheSync /\ ~Elapse /\ ~UNCHANGED vars
  BY DEF UserDelete, OtherWrite, CacheSync, Elapse, vars
<1>7. Reconcile
  BY <1>1, <1>2, <1>3, <1>4, <1>5, <1>6 DEF Next, Step, Environment
<1>8. pc' # "addFinalizer"
  BY DEF LivePcs, Saves
<1> QED
  BY <1>7, <1>8 DEF Reconcile, Begin, NoCall, api, ec2

\* The ENI to attach is the one created last.
LEMMA AboutToAttach ==
  ASSUME IInv, [Next]_vars, pc' = "attach"
  PROVE  \/ CreateENI /\ call'.eni \notin server.atts
         \/ pc = "attach" /\ call'.eni = call.eni
<1>1. call \in Calls /\ pc \in LivePcs
  BY LiveCallStarts DEF IInv, TypeOK, LivePcs
<1>2. CASE CreateENI
  <2>1. PICK e \in ENIs, s \in call.missing : Unused(e) /\ call' = [call EXCEPT !.missing = @ \ {s}, !.eni = e]
    BY <1>2 DEF CreateENI
  <2> QED
    BY <1>1, <1>2, <2>1 DEF Unused, Calls
<1>3. CASE UserDelete \/ OtherWrite
  BY <1>1, <1>3 DEF UserDelete, OtherWrite, WriteByOther, Calls
<1>4. ASSUME \/ CacheSync \/ Elapse \/ UNCHANGED vars
             \/ \E n \in Nodes : Relabel(n) \/ Terminate(n)
             \/ \E e \in ENIs : AwsDetached(e) \/ ActedOnByOther(e)
      PROVE  UNCHANGED <<pc, call>>
  BY <1>4 DEF CacheSync, Elapse, vars, Relabel, Terminate, AwsDetached, ActedOnByOther
<1>5. ~HandleDeletion /\ ~Reconcile /\ ~UpdateSucceeds /\ ~UpdateConflicts /\ ~UpdateFails /\ ~Crash
  BY DEF HandleDeletion, Reconcile, Begin, StartCleanupOf, UpdateSucceeds, UpdateConflicts,
     UpdateFails, Updates, Crash, Return
<1>6. ~NextNode /\ ~VerifyAttachment /\ ~MissingSubnets /\ ~AttachENI /\ ~UndoCreate /\ ~CheckStale
      /\ ~CleanupDone
  BY DEF NextNode, VerifyAttachment, MissingSubnets, AttachENI, UndoCreate, CheckStale,
     CleanupDone, Return
<1>7. ~SaveSucceeds /\ ~SaveConflicts /\ ~SaveFails
  BY DEF SaveSucceeds, SaveConflicts, SaveFails, AfterSave, Return, Saves
<1>8. ASSUME NEW e \in ENIs, BeginCleanup(e) \/ Detach(e) \/ WaitForDetachment(e) \/ Delete(e)
      PROVE  FALSE
  BY <1>8 DEF BeginCleanup, Detach, WaitForDetachment, Delete, Cleanups
<1> QED
  BY <1>2, <1>3, <1>4, <1>5, <1>6, <1>7, <1>8 DEF Next, Step, Environment

\* It holds initially, when nothing is attached.
LEMMA ListedInvInit == Init => ListedInv
BY DEF Init, ListedInv, SyncedCache, Listed, LivePcs, Saves

\* Every step keeps the attached ENIs of the status in the call's copy.
LEMMA ListedInvNext ==
  ASSUME "stale" \notin Faults, IInv, StaleInv, ListedInv, [Next]_vars
  PROVE  ListedInv'
<1>1. SyncedCache'
  BY CacheStaysSynced DEF ListedInv
<1>2. server.atts \subseteq ENIs
  BY DEF IInv, TypeOK, Objects
<1>3. SaveSucceeds => pc \in Saves /\ server'.atts = call.mem.atts /\ UNCHANGED aws
  BY DEF SaveSucceeds, Publish, IInv, TypeOK, Objects, ec2
<1>4. pc' = "attach" => call'.eni \notin server'.atts
  <2>1. pc \in {"create", "attach"} => server'.atts = server.atts
    BY <1>3, OnlySavesDrop DEF Saves
  <2> QED
    BY <2>1, AboutToAttach DEF ListedInv, Listed, CreateENI
<1>5. CASE pc \in LivePcs /\ pc' \in LivePcs
  <2> SUFFICES ASSUME NEW e \in server'.atts, e \in Attached'
               PROVE  e \in call.mem.atts
    BY <1>1, <1>4, <1>5, CopyKeeps DEF ListedInv, Listed, CopyKept
  <2>1. CASE SaveSucceeds
    BY <1>3, <2>1
  <2>2. CASE ~SaveSucceeds
    <3>1. e \in server.atts /\ e \in ENIs
      BY <1>2, <2>2, OnlySavesDrop
    <3>2. AttachENI => e # call.eni
      BY <3>1 DEF AttachENI, ListedInv, Listed
    <3>3. aws[e] = "attached"
      BY <3>1, <3>2, ENILife DEF ENIStep, Attached
    <3> QED
      BY <1>5, <3>1, <3>3 DEF ListedInv, Listed, Attached
  <2> QED
    BY <2>1, <2>2
<1>6. CASE pc \notin LivePcs /\ pc' \in LivePcs
  BY <1>1, <1>4, <1>6, LiveCallStarts DEF ListedInv, Listed, SyncedCache
<1>7. CASE pc' \notin LivePcs
  BY <1>1, <1>4, <1>7 DEF ListedInv, Listed
<1> QED
  BY <1>5, <1>6, <1>7

\* The status keeps what is attached (updateNodeENIStatus, updateNodeENIWithAttachments): with
\* a cache that does not lag, an attachment leaves the status only when its ENI is not
\* attached to its node any more, whatever fails and whoever else writes to the NodeENI.
THEOREM AttachedStaysListed == ASSUME "stale" \notin Faults PROVE Spec => StatusKeepsAttached
<1>1. IInv /\ ListedInv /\ [Next]_vars =>
        [\A e \in server.atts : e \notin server'.atts => aws[e] # "attached"]_vars
  <2> SUFFICES ASSUME IInv, ListedInv, [Next]_vars, NEW e \in server.atts,
                      e \notin server'.atts, aws[e] = "attached"
               PROVE  FALSE
    OBVIOUS
  <2>1. SaveSucceeds
    BY OnlySavesDrop
  <2>2. pc \in LivePcs /\ server'.atts = call.mem.atts
    BY <2>1 DEF SaveSucceeds, Publish, LivePcs, IInv, TypeOK, Objects
  <2>3. e \in ENIs
    BY DEF IInv, TypeOK, Objects
  <2> QED
    BY <2>2, <2>3 DEF ListedInv, Listed, Attached
<1>2. Init => StaleInv /\ ListedInv
  BY StaleInvInit, ListedInvInit
<1>3. IInv /\ StaleInv /\ ListedInv /\ [Next]_vars => StaleInv' /\ ListedInv'
  BY StaleInvNext, ListedInvNext
<1> QED
  BY <1>1, <1>2, <1>3, Invariance, PTL DEF Spec, StatusKeepsAttached

-----------------------------------------------------------------------------
(* What the status knows *)

\* What the status would miss an attachment for: an update of it that does not arrive, for
\* an error or for the writes of others, a call that ends in between, an attachment of which
\* the controller is not told, and a cache that does not show the last update.
StatusArrives ==
  /\ Faults \cap {"attachLost", "api", "crash", "stale"} = {}
  /\ "write" \notin Outside

\* A call that found the NodeENI live has every ENI that is attached to its node in its
\* copy, and between such calls the status has them.
Known ==
  /\ pc \in LivePcs => Attached \subseteq call.mem.atts
  /\ pc \notin LivePcs /\ server.phase = "live" => Attached \subseteq server.atts

\* Nobody writes to a live NodeENI while a call runs.
FreshWhileLive == pc \in LivePcs /\ server.phase = "live" => call.fresh

KnownInv == SyncedCache /\ Known /\ FreshWhileLive

\* It holds initially, when nothing is attached.
LEMMA KnownInvInit == Init => KnownInv
BY DEF Init, KnownInv, SyncedCache, Known, FreshWhileLive, Attached, LivePcs, Saves

\* An ENI that is attached joins the call's copy.
LEMMA AttachedIsKnown ==
  ASSUME StatusArrives, IInv, AttachENI
  PROVE  UNCHANGED <<aws, call>> \/ call.eni \in call'.mem.atts
<1>1. call \in Calls /\ call.mem \in Objects
  BY DEF IInv, TypeOK, Calls
<1>2. CASE call' = [call EXCEPT !.mem.atts = @ \cup {call.eni}, !.eni = NoENI]
  <2>1. call' = [call EXCEPT !.mem = [call.mem EXCEPT !.atts = @ \cup {call.eni}], !.eni = NoENI]
    BY <1>1, <1>2 DEF Calls, Objects
  <2> QED
    BY <1>1, <2>1 DEF Calls, Objects
<1> QED
  BY <1>2 DEF AttachENI, StatusArrives

\* Every step keeps what the status knows.
LEMMA KnownInvNext ==
  ASSUME StatusArrives, IInv, StaleInv, KnownInv, [Next]_vars
  PROVE  KnownInv'
<1>1. SyncedCache /\ SyncedCache'
  BY CacheStaysSynced DEF KnownInv, StatusArrives
<1>2. CASE pc \in LivePcs /\ pc' \in LivePcs
  <2>1. Attached' \subseteq call'.mem.atts
    <3> SUFFICES ASSUME NEW e \in ENIs, aws'[e] = "attached"
                 PROVE  e \in call'.mem.atts
      BY DEF Attached
    <3>1. aws[e] = "attached" \/ (AttachENI /\ e = call.eni)
      BY ENILife DEF ENIStep
    <3>2. CASE aws[e] = "attached"
      BY <1>1, <1>2, <3>2, CopyKeeps DEF CopyKept, KnownInv, Known, Attached
    <3>3. CASE aws[e] # "attached" /\ AttachENI /\ e = call.eni
      BY <3>3, AttachedIsKnown
    <3> QED
      BY <3>1, <3>2, <3>3
  <2>2. FreshWhileLive'
    <3>1. server'.phase = "live" => server.phase = "live"
      BY OnlySavesDrop
    <3>2. ~OtherWrite /\ (UserDelete => server'.phase # "live")
      BY DEF OtherWrite, StatusArrives, UserDelete, WriteByOther, Publish, IInv, TypeOK, Objects
    <3> QED
      BY <1>1, <1>2, <3>1, <3>2, CopyKeeps DEF CopyKept, KnownInv, FreshWhileLive
  <2> QED
    BY <1>1, <1>2, <2>1, <2>2 DEF KnownInv, Known
<1>3. CASE pc \notin LivePcs /\ pc' \in LivePcs
  BY <1>1, <1>3, LiveCallStarts DEF KnownInv, Known, FreshWhileLive, SyncedCache, Attached
<1>4. CASE pc \notin LivePcs /\ pc' \notin LivePcs
  <2>1. ~SaveSucceeds /\ ~AttachENI
    BY <1>4 DEF SaveSucceeds, AttachENI, LivePcs
  <2> QED
    BY <1>1, <1>4, <2>1, OnlySavesDrop, NoneAttached DEF KnownInv, Known, FreshWhileLive
<1>5. CASE pc \in LivePcs /\ pc' \notin LivePcs
  <2>1. SaveSucceeds \/ server.phase # "live"
    BY <1>5, SavesLeft DEF SaveConflicts, SaveFails, Crash, StatusArrives, KnownInv, FreshWhileLive
  <2>2. SaveSucceeds => server'.atts = call.mem.atts /\ UNCHANGED aws
    BY DEF SaveSucceeds, Publish, IInv, TypeOK, Objects, ec2
  <2> QED
    BY <1>1, <1>5, <2>1, <2>2, OnlySavesDrop DEF KnownInv, Known, FreshWhileLive, Attached
<1> QED
  BY <1>2, <1>3, <1>4, <1>5

-----------------------------------------------------------------------------
(* One ENI for a node and subnet *)

Creating == {"create", "attach", "undo", "saveAttached"}

\* The ENIs that are attached to the node which the call is at.
OnTheNode == {e \in Attached : NodeOf[e] = call.node}

\* The subnets the call still has to create an ENI in are without one, and so is the subnet
\* of the ENI about to be attached.
CreatesMissing ==
  /\ pc \in Creating => \A e \in OnTheNode : SubnetOf[e] \notin call.missing
  /\ pc = "attach" =>
       /\ NodeOf[call.eni] = call.node /\ SubnetOf[call.eni] \notin call.missing
       /\ \A e \in OnTheNode : SubnetOf[e] # SubnetOf[call.eni]

SubnetInv == CreatesMissing /\ OneENIPerSubnet

\* A step that attaches none, within the creation of ENIs for one node or out of it.
LEMMA SubnetsStayApart ==
  ASSUME SubnetInv, Attached' \subseteq Attached,
         \/ pc' \notin Creating
         \/ /\ pc \in Creating /\ call'.node = call.node /\ call'.missing \subseteq call.missing
            /\ pc' = "attach" => pc = "attach" /\ call'.eni = call.eni
  PROVE  SubnetInv'
<1>1. OneENIPerSubnet'
  BY DEF SubnetInv, OneENIPerSubnet, Attached
<1>2. CreatesMissing'
  BY DEF SubnetInv, CreatesMissing, OnTheNode, Creating
<1> QED
  BY <1>1, <1>2 DEF SubnetInv

\* An attachment that does not happen leads to the deletion of the ENI.
LEMMA ENIAttached ==
  ASSUME StatusArrives, IInv, AttachENI, UNCHANGED aws
  PROVE  pc' = "undo" /\ UNCHANGED call
BY DEF AttachENI, StatusArrives, IInv, TypeOK, LiveCall

\* The creation of the missing ENIs of a node, from a copy that has those attached to it.
LEMMA SubnetsOfCreation ==
  ASSUME StatusArrives, IInv, KnownInv, SubnetInv, [Next]_vars,
         MissingSubnets \/ CreateENI \/ AttachENI \/ UndoCreate
  PROVE  SubnetInv'
<1>1. call \in Calls /\ call.missing \subseteq Subnets
  BY DEF IInv, TypeOK, Calls
<1>2. CASE MissingSubnets
  <2>1. Attached' = Attached /\ Attached \subseteq call.mem.atts
    BY <1>2 DEF MissingSubnets, ec2, Attached, KnownInv, Known, LivePcs
  <2>2. CASE pc' = "create"
    <3>1. /\ call'.node = call.node
          /\ call'.missing =
               Subnets \ {SubnetOf[e] : e \in {a \in call.mem.atts : NodeOf[a] = call.node}}
      BY <1>1, <1>2, <2>2 DEF MissingSubnets, Calls
    <3>2. CreatesMissing'
      BY <2>1, <2>2, <3>1 DEF CreatesMissing, OnTheNode
    <3> QED
      BY <2>1, <3>2 DEF SubnetInv, OneENIPerSubnet, Attached
  <2>3. CASE pc' # "create"
    BY <1>2, <2>1, <2>3, SubnetsStayApart DEF MissingSubnets, Creating
  <2> QED
    BY <2>2, <2>3
<1>3. CASE CreateENI
  <2>1. Attached' \subseteq Attached /\ pc = "create"
    BY <1>3, NoneAttached DEF CreateENI, AttachENI
  <2>2. ASSUME NEW s \in call.missing, NEW e \in ENIs, NodeOf[e] = call.node, SubnetOf[e] = s,
               pc' = "attach", call' = [call EXCEPT !.missing = @ \ {s}, !.eni = e]
        PROVE  SubnetInv'
    <3>1. call'.missing = call.missing \ {s} /\ call'.eni = e /\ call'.node = call.node
      BY <1>1, <2>2 DEF Calls
    <3>2. CreatesMissing'
      BY <2>1, <2>2, <3>1 DEF SubnetInv, CreatesMissing, OnTheNode, Creating
    <3> QED
      BY <2>1, <3>2 DEF SubnetInv, OneENIPerSubnet, Attached
  <2>3. ASSUME NEW s \in call.missing, call' = [call EXCEPT !.missing = @ \ {s}], UNCHANGED pc
        PROVE  SubnetInv'
    <3>1. call'.missing = call.missing \ {s} /\ call'.node = call.node
      BY <1>1, <2>3 DEF Calls
    <3> QED
      BY <2>1, <2>3, <3>1, SubnetsStayApart DEF Creating
  <2>4. CASE pc' = "nodes"
    BY <2>1, <2>4, SubnetsStayApart DEF Creating
  <2> QED
    BY <1>3, <2>2, <2>3, <2>4 DEF CreateENI
<1>4. CASE AttachENI
  <2>1. CASE UNCHANGED aws
    <3>1. pc' = "undo" /\ UNCHANGED call
      BY <1>4, <2>1, ENIAttached
    <3> QED
      BY <1>4, <2>1, <3>1, SubnetsStayApart DEF AttachENI, Creating, Attached
  <2>2. CASE pc' = "saveAttached"
    <3>1. call'.node = call.node /\ call'.missing = call.missing /\ call.eni \in ENIs
      BY <1>1, <1>4, <2>2 DEF AttachENI, Calls, IInv, LiveCall
    <3>2. Attached' \subseteq Attached \cup {call.eni}
      BY ENILife DEF ENIStep, Attached
    <3>3. CreatesMissing'
      BY <1>4, <2>2, <3>1, <3>2 DEF AttachENI, SubnetInv, CreatesMissing, OnTheNode, Creating
    <3>4. OneENIPerSubnet'
      BY <1>4, <3>1, <3>2 DEF AttachENI, SubnetInv, CreatesMissing, OnTheNode, OneENIPerSubnet, Attached
    <3> QED
      BY <3>3, <3>4 DEF SubnetInv
  <2> QED
    BY <1>4, <2>1, <2>2 DEF AttachENI, StatusArrives
<1>5. CASE UndoCreate
  <2>1. call'.node = call.node /\ call'.missing = call.missing
    BY <1>1, <1>5 DEF UndoCreate, Calls
  <2>2. Attached' \subseteq Attached
    BY <1>5, NoneAttached DEF UndoCreate, AttachENI
  <2> QED
    BY <1>5, <2>1, <2>2, SubnetsStayApart DEF UndoCreate, Creating
<1> QED
  BY <1>2, <1>3, <1>4, <1>5

\* The updates of the status.
LEMMA SubnetsOfSaves ==
  ASSUME IInv, SubnetInv, SaveSucceeds \/ SaveConflicts \/ SaveFails
  PROVE  SubnetInv'
<1>1. call \in Calls /\ Attached' = Attached /\ pc \in Saves
  BY DEF IInv, TypeOK, SaveSucceeds, SaveConflicts, SaveFails, ec2, Attached
<1>2. ASSUME NEW mem, NEW b, AfterSave(mem, b)
      PROVE  SubnetInv'
  <2>1. CASE pc = "saveAttached"
    <3>1. pc' = "create" /\ call'.node = call.node /\ call'.missing = call.missing
      BY <1>1, <1>2, <2>1 DEF AfterSave, Calls
    <3> QED
      BY <1>1, <2>1, <3>1, SubnetsStayApart DEF Creating
  <2>2. CASE pc # "saveAttached"
    <3>1. pc' \notin Creating
      BY <1>1, <1>2, <2>2 DEF AfterSave, Return, Creating, Saves
    <3> QED
      BY <1>1, <3>1, SubnetsStayApart
  <2> QED
    BY <2>1, <2>2
<1>3. ASSUME NEW mem, UNCHANGED pc,
             call' = [call EXCEPT !.mem = mem, !.fresh = synced, !.tries = @ + 1]
      PROVE  SubnetInv'
  <2>1. call'.node = call.node /\ call'.missing = call.missing
    BY <1>1, <1>3 DEF Calls
  <2> QED
    BY <1>1, <1>3, <2>1, SubnetsStayApart DEF Creating, Saves
<1> QED
  BY <1>2, <1>3 DEF SaveSucceeds, SaveConflicts, SaveFails

\* The rest of a call is outside the creation of ENIs.
LEMMA SubnetsElsewhere ==
  ASSUME IInv, SubnetInv, [Next]_vars,
         \/ HandleDeletion \/ Reconcile \/ NextNode \/ VerifyAttachment \/ CheckStale
         \/ UpdateSucceeds \/ UpdateConflicts \/ UpdateFails \/ CleanupDone \/ Crash
         \/ \E e \in ENIs : BeginCleanup(e) \/ Detach(e) \/ WaitForDetachment(e) \/ Delete(e)
  PROVE  SubnetInv'
<1>1. ~AttachENI
  BY DEF AttachENI, HandleDeletion, Reconcile, NextNode, VerifyAttachment, CheckStale, UpdateSucceeds,
     UpdateConflicts, UpdateFails, CleanupDone, Crash, BeginCleanup, Detach, WaitForDetachment,
     Delete, Return, Updates, Cleanups
<1>2. pc' \notin Creating
  BY DEF HandleDeletion, Reconcile, NextNode, VerifyAttachment, CheckStale, UpdateSucceeds,
     UpdateConflicts, UpdateFails, CleanupDone, Crash, BeginCleanup, Detach, WaitForDetachment,
     Delete, Return, Begin, StartCleanupOf, Updates, Cleanups, Creating
<1> QED
  BY <1>1, <1>2, NoneAttached, SubnetsStayApart

\* What happens around the call.
LEMMA SubnetsOutside ==
  ASSUME IInv, SubnetInv, [Next]_vars, ~AttachENI, UNCHANGED pc,
         UNCHANGED call \/ call' = [call EXCEPT !.fresh = FALSE]
  PROVE  SubnetInv'
<1>1. call'.node = call.node /\ call'.missing = call.missing /\ call'.eni = call.eni
  BY DEF IInv, TypeOK, Calls
<1> QED
  BY <1>1, NoneAttached, SubnetsStayApart DEF Creating

\* It holds initially, when nothing is attached.
LEMMA SubnetInvInit == Init => SubnetInv
BY DEF Init, SubnetInv, CreatesMissing, Creating, OneENIPerSubnet

\* Every step keeps the ENIs of a node in different subnets.
LEMMA SubnetInvNext ==
  ASSUME StatusArrives, IInv, KnownInv, SubnetInv, [Next]_vars
  PROVE  SubnetInv'
<1>1. CASE AttachENI
  BY <1>1, SubnetsOfCreation
<1>2. CASE UserDelete \/ OtherWrite \/ Elapse \/ CacheSync \/ UNCHANGED vars
  <2>1. UNCHANGED pc /\ (UNCHANGED call \/ call' = [call EXCEPT !.fresh = FALSE])
    BY <1>2 DEF UserDelete, OtherWrite, WriteByOther, Elapse, CacheSync, vars
  <2> QED
    BY <1>1, <2>1, SubnetsOutside
<1>3. ASSUME NEW n \in Nodes, Relabel(n) \/ Terminate(n)
      PROVE  SubnetInv'
  <2>1. UNCHANGED <<pc, call>>
    BY <1>3 DEF Relabel, Terminate
  <2> QED
    BY <1>1, <2>1, SubnetsOutside
<1>4. ASSUME NEW e \in ENIs, AwsDetached(e) \/ ActedOnByOther(e)
      PROVE  SubnetInv'
  <2>1. UNCHANGED <<pc, call>>
    BY <1>4 DEF AwsDetached, ActedOnByOther
  <2> QED
    BY <1>1, <2>1, SubnetsOutside
<1> QED
  BY <1>1, <1>2, <1>3, <1>4, SubnetsOfCreation, SubnetsOfSaves, SubnetsElsewhere
  DEF Next, Step, Environment

\* No node gets two ENIs in one subnet (createMissingENIs): a subnet is given an ENI only
\* when the status shows none on the node, and the status shows all that are attached.
THEOREM NoSecondENI == ASSUME StatusArrives PROVE Spec => []OneENIPerSubnet
<1>1. Init => StaleInv /\ KnownInv /\ SubnetInv
  BY StaleInvInit, KnownInvInit, SubnetInvInit
<1>2. IInv /\ StaleInv /\ KnownInv /\ SubnetInv /\ [Next]_vars => StaleInv' /\ KnownInv' /\ SubnetInv'
  BY StaleInvNext, KnownInvNext, SubnetInvNext
<1>3. SubnetInv => OneENIPerSubnet
  BY DEF SubnetInv
<1> QED
  BY <1>1, <1>2, <1>3, Invariance, PTL DEF Spec

-----------------------------------------------------------------------------
(* ENIs that nobody knows of *)

\* What a call could leave an ENI behind for that nobody knows of any more: what the status
\* would miss it for; a deletion, a description or a wait that fails; the detachment the
\* facade makes of a verification; an ENI that outlives its instance.
CallsFinish ==
  /\ StatusArrives /\ ~Facade
  /\ Faults \cap {"delete", "describe", "wait"} = {}
  /\ "survive" \notin Outside

\* The ENI attached last is still to be put into the status: the update is next, or it met
\* the user's deletion, and the call has the server's version for the next one.
UpdatePending == pc = "saveAttached" \/ (pc \in LivePcs /\ server.phase = "deleting" /\ call.fresh)

\* Otherwise the status has every attached ENI until the NodeENI is gone.
StatusKnows == server.phase # "gone" /\ ~UpdatePending => Attached \subseteq server.atts

\* An ENI neither attached nor gone is in the hands of the call: created and not attached
\* yet, or detached and not deleted yet.
Unsettled(e) == aws[e] \in {"available", "detaching"}

Held(e) ==
  \/ pc \in {"attach", "undo"} /\ e = call.eni /\ aws[e] = "available"
  \/ pc \in Cleanups /\ call.stage[e] = "wait"
  \/ pc \in Cleanups /\ call.stage[e] = "delete" /\ aws[e] = "available"

Pending == \A e \in ENIs : Unsettled(e) => Held(e)

LeakInv == StatusKnows /\ Pending

\* What the status knows until the NodeENI is gone.
LEMMA StatusKnowsNext ==
  ASSUME StatusArrives, IInv, StaleInv, KnownInv, StatusKnows, [Next]_vars
  PROVE  StatusKnows'
<1> SUFFICES ASSUME server'.phase # "gone", ~UpdatePending'
             PROVE  Attached' \subseteq server'.atts
  BY DEF StatusKnows
<1>1. server.phase # "gone" /\ SyncedCache /\ server \in Objects /\ server' \in Objects
  BY OnlySavesDrop, IInvNext DEF KnownInv, IInv, TypeOK
<1>2. CASE SaveSucceeds
  <2>1. pc \in LivePcs /\ server'.atts = call.mem.atts /\ UNCHANGED aws
    BY <1>2 DEF SaveSucceeds, Publish, IInv, TypeOK, Objects, ec2, LivePcs
  <2> QED
    BY <2>1 DEF KnownInv, Known, Attached
<1>3. CASE ~SaveSucceeds
  <2>1. server'.atts = server.atts /\ (server.phase = "deleting" => server'.phase = "deleting")
    BY <1>1, <1>3, OnlySavesDrop DEF Objects
  <2>2. ASSUME UpdatePending
        PROVE  FALSE
    <3>1. CASE pc = "saveAttached" /\ pc' # "saveAttached"
      <4>1. SaveConflicts /\ server.phase = "deleting"
        BY <1>1, <1>3, <3>1, SavesLeft
        DEF Saves, LivePcs, SaveFails, SaveConflicts, Crash, StatusArrives, KnownInv, FreshWhileLive,
            Objects
      <4>2. pc' = "create" /\ call'.fresh = TRUE
        BY <1>1, <3>1, <4>1 DEF SaveConflicts, AfterSave, SyncedCache, IInv, TypeOK, Calls
      <4> QED
        BY <2>1, <4>1, <4>2 DEF UpdatePending, LivePcs
    <3>2. CASE pc \in LivePcs /\ server.phase = "deleting" /\ call.fresh
      <4>1. ~SaveConflicts /\ ~SaveFails /\ ~Crash /\ ~UserDelete /\ ~OtherWrite
        BY <3>2 DEF SaveConflicts, SaveFails, Crash, UserDelete, OtherWrite, StatusArrives
      <4>2. pc' \in LivePcs
        BY <1>3, <3>2, <4>1, SavesLeft
      <4>3. call'.fresh
        BY <1>1, <3>2, <4>1, <4>2, CopyKeeps DEF CopyKept
      <4> QED
        BY <2>1, <3>2, <4>2, <4>3 DEF UpdatePending
    <3> QED
      BY <2>2, <3>1, <3>2 DEF UpdatePending
  <2>3. AttachENI => UNCHANGED aws
    BY DEF AttachENI, UpdatePending, StatusArrives
  <2>4. Attached' \subseteq Attached
    BY <2>3, NoneAttached DEF Attached
  <2> QED
    BY <1>1, <2>1, <2>2, <2>4 DEF StatusKnows
<1> QED
  BY <1>2, <1>3

\* An ENI becomes unsettled by its creation or by the detachment of a cleanup.
LEMMA Settled ==
  ASSUME CallsFinish, IInv, [Next]_vars, ~CreateENI, NEW e \in ENIs, ~Detach(e), Unsettled(e)'
  PROVE  Unsettled(e) /\ (aws[e] = "available" => aws'[e] = "available")
BY ENILife DEF ENIStep, Unsettled, CallsFinish

\* A deletion that is answered deletes an unattached ENI.
LEMMA AvailableDeleted ==
  ASSUME CallsFinish, NEW e, aws[e] = "available", NEW o \in DeleteOutcomes(e)
  PROVE  o.to = "absent"
BY DEF DeleteOutcomes, InUseByNode, CallsFinish

\* The creation of an ENI, and what follows it.
LEMMA PendingCreation ==
  ASSUME CallsFinish, IInv, Pending, [Next]_vars, CreateENI \/ AttachENI \/ UndoCreate
  PROVE  Pending'
<1> SUFFICES ASSUME NEW e \in ENIs, Unsettled(e)'
             PROVE  Held(e)'
  BY DEF Pending
<1>1. pc \in {"create", "attach", "undo"} /\ ~Detach(e)
  BY DEF CreateENI, AttachENI, UndoCreate, Detach, Cleanups
<1>2. Unsettled(e) => pc \in {"attach", "undo"} /\ e = call.eni /\ aws[e] = "available"
  BY <1>1 DEF Pending, Held, Cleanups
<1>3. CASE CreateENI
  <2>1. ~Unsettled(e)
    BY <1>2, <1>3 DEF CreateENI
  <2> QED
    BY <1>1, <2>1, ENILife DEF ENIStep, Unsettled, Held, CallsFinish, AttachENI
<1>4. CASE AttachENI
  <2>1. Unsettled(e) /\ aws'[e] = "available"
    BY <1>1, <1>2, <1>4, Settled DEF AttachENI, CreateENI
  <2>2. e = call.eni /\ aws \in [ENIs -> ENIStates]
    BY <1>2, <2>1 DEF IInv, TypeOK
  <2>3. pc' = "undo" /\ UNCHANGED call
    BY <1>4, <2>1, <2>2 DEF AttachENI
  <2> QED
    BY <2>1, <2>2, <2>3 DEF Held
<1>5. CASE UndoCreate
  <2>1. Unsettled(e)
    BY <1>1, <1>5, Settled DEF UndoCreate, CreateENI
  <2>2. e = call.eni /\ aws[e] = "available"
    BY <1>2, <2>1
  <2>3. aws'[e] = "absent"
    BY <1>5, <2>2, AvailableDeleted DEF UndoCreate, IInv, TypeOK
  <2> QED
    BY <2>3 DEF Unsettled
<1> QED
  BY <1>3, <1>4, <1>5

\* The stages of a detachment and of the wait for it.
LEMMA StagesReached ==
  ASSUME IInv, NEW e \in ENIs
  PROVE  /\ Detach(e) => call.stage[e] = "detach" /\ call'.stage[e] = "wait"
         /\ WaitForDetachment(e) => call'.stage[e] = "delete"
<1>1. ASSUME NEW s, NEW ok, Goto(e, s, ok)
      PROVE  call'.stage[e] = s
  <2>1. call \in Calls
    BY DEF IInv, TypeOK
  <2>2. call' = [call EXCEPT !.stage = [call.stage EXCEPT ![e] = s],
                             !.failed = IF ok THEN @ ELSE @ \cup {e}]
    BY <1>1, <2>1 DEF Goto, Calls
  <2> QED
    BY <2>1, <2>2 DEF Calls
<1>2. Detach(e) => call.stage[e] = "detach" /\ \E ok : Goto(e, "wait", ok)
  BY Zenon DEF Detach
<1>3. WaitForDetachment(e) => \E ok : Goto(e, "delete", ok)
  BY Zenon DEF WaitForDetachment
<1> QED
  BY <1>1, <1>2, <1>3

\* The cleanup of an ENI.
LEMMA PendingCleanup ==
  ASSUME CallsFinish, IInv, Pending, [Next]_vars, NEW d \in ENIs,
         BeginCleanup(d) \/ Detach(d) \/ WaitForDetachment(d) \/ Delete(d)
  PROVE  Pending'
<1> SUFFICES ASSUME NEW e \in ENIs, Unsettled(e)'
             PROVE  Held(e)'
  BY DEF Pending
<1>1. UNCHANGED pc /\ pc \in Cleanups /\ call \in Calls /\ aws \in [ENIs -> ENIStates]
  BY DEF BeginCleanup, Detach, WaitForDetachment, Delete, IInv, TypeOK
<1>2. PICK s \in {"detach", "wait", "delete", "done"}, ok \in BOOLEAN : Reaches(d, s, ok)
  BY CleanupStage
<1>3. call'.stage[d] = s /\ \A c \in ENIs \ {d} : call'.stage[c] = call.stage[c]
  BY <1>1, <1>2 DEF Reaches, Moved, Calls
<1>4. ~CreateENI
  BY <1>1 DEF CreateENI, Cleanups
<1>5. CASE d # e
  <2>1. ~Detach(e)
    <3>1. call'.stage[e] = call.stage[e]
      BY <1>3, <1>5
    <3>2. Detach(e) => call.stage[e] = "detach" /\ call'.stage[e] = "wait"
      BY StagesReached
    <3> QED
      BY <3>1, <3>2
  <2>2. Unsettled(e) /\ (aws[e] = "available" => aws'[e] = "available")
    BY <1>4, <2>1, Settled
  <2> QED
    BY <1>1, <1>3, <1>5, <2>2 DEF Pending, Held, Cleanups
<1>6. CASE d = e
  <2>1. CASE Detach(e)
    <3>1. call'.stage[e] = "wait"
      BY <2>1, StagesReached
    <3> QED
      BY <1>1, <3>1 DEF Held
  <2>2. CASE ~Detach(e)
    <3>1. /\ Unsettled(e) /\ (aws[e] = "available" => aws'[e] = "available")
          /\ Held(e) /\ pc \notin {"attach", "undo"}
      BY <1>1, <1>4, <2>2, Settled DEF Pending, Cleanups
    <3>2. ~BeginCleanup(e)
      BY <3>1 DEF BeginCleanup, Held
    <3>3. CASE WaitForDetachment(e)
      <4>1. aws[e] = "available" /\ UNCHANGED aws
        BY <3>1, <3>3 DEF WaitForDetachment, Unsettled, Exists, Unattached, CallsFinish, ec2
      <4>2. call'.stage[e] = "delete"
        BY <3>3, StagesReached
      <4> QED
        BY <1>1, <4>1, <4>2 DEF Held
    <3>4. CASE Delete(e)
      <4>1. aws[e] = "available"
        BY <3>1, <3>4 DEF Delete, Held
      <4>2. aws'[e] = "absent"
        BY <1>1, <3>4, <4>1, AvailableDeleted DEF Delete, CallsFinish
      <4> QED
        BY <4>2 DEF Unsettled
    <3> QED
      BY <1>6, <2>2, <3>2, <3>3, <3>4
  <2> QED
    BY <2>1, <2>2
<1> QED
  BY <1>5, <1>6

\* The other steps of a call neither find nor leave an unsettled ENI.
LEMMA PendingElsewhere ==
  ASSUME CallsFinish, IInv, StaleInv, Pending, [Next]_vars,
         \/ HandleDeletion \/ Reconcile \/ NextNode \/ VerifyAttachment \/ MissingSubnets \/ CheckStale
         \/ UpdateSucceeds \/ UpdateConflicts \/ UpdateFails
         \/ SaveSucceeds \/ SaveConflicts \/ SaveFails \/ CleanupDone
  PROVE  Pending'
<1> SUFFICES ASSUME NEW e \in ENIs, Unsettled(e)'
             PROVE  FALSE
  BY DEF Pending
<1>1. CASE CleanupDone
  <2>1. pc \in Cleanups /\ call.stage[e] \in {"none", "done"} /\ UNCHANGED aws
    BY <1>1 DEF CleanupDone, Batch, ec2
  <2>2. Unsettled(e)
    BY <2>1 DEF Unsettled
  <2> QED
    BY <2>1, <2>2 DEF Pending, Held, Cleanups
<1>2. CASE ~CleanupDone
  <2>1. pc \notin Cleanups \cup {"create", "attach", "undo"}
    BY <1>2 DEF HandleDeletion, Reconcile, NextNode, VerifyAttachment, MissingSubnets, CheckStale,
       UpdateSucceeds, UpdateConflicts, UpdateFails, SaveSucceeds, SaveConflicts, SaveFails,
       Updates, Saves, Cleanups
  <2>2. ~CreateENI /\ ~Detach(e)
    BY <2>1 DEF CreateENI, Detach
  <2>3. Unsettled(e)
    BY <2>2, Settled
  <2> QED
    BY <2>1, <2>3 DEF Pending, Held
<1> QED
  BY <1>1, <1>2

\* What happens around the call.
LEMMA PendingOutside ==
  ASSUME CallsFinish, IInv, Pending, [Next]_vars, UNCHANGED pc,
         UNCHANGED call \/ call' = [call EXCEPT !.fresh = FALSE]
  PROVE  Pending'
<1> SUFFICES ASSUME NEW e \in ENIs, Unsettled(e)'
             PROVE  Held(e)'
  BY DEF Pending
<1>1. call'.stage = call.stage /\ call'.eni = call.eni
  BY DEF IInv, TypeOK, Calls
<1>2. ~Detach(e)
  BY <1>1, StagesReached
<1>3. CASE ~CreateENI
  <2>1. Unsettled(e) /\ (aws[e] = "available" => aws'[e] = "available")
    BY <1>2, <1>3, Settled
  <2> QED
    BY <1>1, <2>1 DEF Pending, Held
<1>4. CASE CreateENI
  BY <1>4, PendingCreation DEF Pending
<1> QED
  BY <1>3, <1>4

\* It holds initially, when there is no ENI.
LEMMA LeakInvInit == Init => LeakInv
BY DEF Init, LeakInv, StatusKnows, Attached, Pending, Unsettled

\* Every step keeps the ENIs known.
LEMMA LeakInvNext ==
  ASSUME CallsFinish, IInv, StaleInv, KnownInv, LeakInv, [Next]_vars
  PROVE  LeakInv'
<1>1. StatusKnows'
  BY StatusKnowsNext DEF LeakInv, CallsFinish
<1>2. Pending
  BY DEF LeakInv
<1>3. CASE UserDelete \/ OtherWrite \/ Elapse \/ CacheSync \/ UNCHANGED vars
  <2>1. UNCHANGED pc /\ (UNCHANGED call \/ call' = [call EXCEPT !.fresh = FALSE])
    BY <1>3 DEF UserDelete, OtherWrite, WriteByOther, Elapse, CacheSync, vars
  <2>2. Pending'
    BY <1>2, <2>1, PendingOutside
  <2> QED
    BY <1>1, <2>2 DEF LeakInv
<1>4. ASSUME NEW n \in Nodes, Relabel(n) \/ Terminate(n)
      PROVE  Pending'
  <2>1. UNCHANGED <<pc, call>>
    BY <1>4 DEF Relabel, Terminate
  <2> QED
    BY <1>2, <2>1, PendingOutside
<1>5. ASSUME NEW e \in ENIs, AwsDetached(e) \/ ActedOnByOther(e)
      PROVE  Pending'
  <2>1. UNCHANGED <<pc, call>>
    BY <1>5 DEF AwsDetached, ActedOnByOther
  <2> QED
    BY <1>2, <2>1, PendingOutside
<1>6. ~Crash
  BY DEF Crash, CallsFinish, StatusArrives
<1>7. Pending'
  BY <1>2, <1>3, <1>4, <1>5, <1>6, PendingCreation, PendingCleanup, PendingElsewhere
  DEF Next, Step, Environment, LeakInv
<1> QED
  BY <1>1, <1>7 DEF LeakInv

\* No ENI is left behind (createMissingENIs, cleanupENIAttachment): one that the controller
\* created and nobody else took away is in the status, or the call that is running has it.
THEOREM NoENIForgotten == ASSUME CallsFinish PROVE Spec => []NoLeak
<1>1. IInv /\ StaleInv /\ KnownInv /\ LeakInv => NoLeak
  <2> SUFFICES ASSUME IInv, StaleInv, KnownInv, LeakInv, server.phase # "gone", NEW e \in ENIs,
                      aws[e] \in {"available", "attached", "detaching"}
               PROVE  Tracked(e)
    BY DEF NoLeak
  <2>1. CASE aws[e] = "attached"
    BY <2>1 DEF KnownInv, Known, LeakInv, StatusKnows, UpdatePending, LivePcs, Saves, Attached, Tracked
  <2>2. CASE Unsettled(e)
    BY <2>2 DEF LeakInv, Pending, Held, StaleInv, CleanupsListed, Cleanups, Tracked
  <2> QED
    BY <2>1, <2>2 DEF Unsettled
<1>2. Init => StaleInv /\ KnownInv /\ LeakInv
  BY StaleInvInit, KnownInvInit, LeakInvInit
<1>3. IInv /\ StaleInv /\ KnownInv /\ LeakInv /\ [Next]_vars => StaleInv' /\ KnownInv' /\ LeakInv'
  BY StaleInvNext, KnownInvNext, LeakInvNext DEF CallsFinish
<1> QED
  BY <1>1, <1>2, <1>3, Invariance, PTL DEF Spec

=============================================================================
