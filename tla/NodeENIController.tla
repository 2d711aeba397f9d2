------------------------- MODULE NodeENIController -------------------------
(***************************************************************************)
(* The NodeENI reconciler: one NodeENI object, the reconcile calls         *)
(* controller-runtime makes for it (never two at once), the API server     *)
(* that stores it, the informer cache the calls read it from, and the EC2  *)
(* network interfaces (ENIs) the calls create, attach, detach and delete.  *)
(*                                                                         *)
(* A step of a call is a request to the API server or to EC2, or a few     *)
(* requests about one ENI between which nothing that others do can make a  *)
(* difference.  Users, EC2 and the informer act between any two steps.     *)
(* The retries of the EC2 client are inside a step: a request succeeds or  *)
(* fails for good.                                                         *)
(***************************************************************************)
EXTENDS Naturals, FiniteSets

CONSTANTS
  Nodes,       \* nodes; each is one EC2 instance
  Subnets,     \* the subnets of the NodeENI
  ENIs,        \* the ENI IDs EC2 may hand out: a bound on the ENIs that exist at once
  NodeOf,      \* the node an ENI is created for
  SubnetOf,    \* the subnet it is created in
  NoENI,
  NoNode,
  RetrySteps,              \* attempts of an update that meets a conflict
  MaxConcurrentENICleanup, \* cleanup workers
  Facade,      \* TRUE: the EC2 client is the facade (USE_EC2_FACADE)
  Faults,      \* what may go wrong
  Outside      \* what others may do

ASSUME ConstantsAssumption ==
  /\ NodeOf \in [ENIs -> Nodes] /\ SubnetOf \in [ENIs -> Subnets]
  /\ NoENI \notin ENIs /\ NoNode \notin Nodes
  /\ RetrySteps \in Nat \ {0} /\ MaxConcurrentENICleanup \in Nat \ {0}
  /\ Facade \in BOOLEAN
  /\ IsFiniteSet(ENIs)

\* A failing request of each kind; "attachLost" is an attachment that happens but whose
\* answer is an error, "wait" a detachment slower than the controller waits, "lock" a
\* cleanup the CoordinationManager rejects, "stale" a cache that lags behind the server.
ASSUME FaultsAssumption ==
  Faults \subseteq {"create", "attach", "attachLost", "detach", "delete", "describe", "wait",
                    "lock", "subnet", "api", "crash", "stale"}

ASSUME OutsideAssumption ==
  Outside \subseteq {"relabel", "write", "detach", "delete", "attach", "terminate", "survive"}

VARIABLES
  server,    \* the NodeENI as the API server has it
  cache,     \* the NodeENI as the informer has it
  synced,    \* the informer has the server's version
  elapsed,   \* MaxCleanupDuration has passed since the recorded cleanup start
  aws,       \* the state of each ENI in EC2
  running,   \* the nodes whose instance is not terminated
  selected,  \* the nodes that match the selector and have a provider ID
  pc,        \* where the reconcile call is
  call       \* its local variables

api == <<server, cache, synced, elapsed>>
ec2 == <<aws, running>>
vars == <<api, ec2, selected, pc, call>>

\* A NodeENI: its deletion state, the finalizer, the cleanup-start annotation and the
\* ENIs of status.attachments.
Objects == [phase : {"live", "deleting", "gone"}, fin : BOOLEAN, start : BOOLEAN,
            atts : SUBSET ENIs]

New == [phase |-> "live", fin |-> FALSE, start |-> FALSE, atts |-> {}]

\* "foreign": attached to an instance by somebody else; "loose": detached by somebody else.
ENIStates == {"absent", "available", "attached", "detaching", "foreign", "loose"}

Stages == {"none", "queued", "detach", "wait", "delete", "done"}

Calls == [mem : Objects,              \* the call's copy of the NodeENI
          fresh : BOOLEAN,            \* the copy has the server's resource version
          tries : 0..(RetrySteps - 1), \* conflicts of the update in progress
          queue : SUBSET Nodes,       \* listed nodes not processed yet
          current : SUBSET Nodes,     \* currentAttachments: the nodes processed
          node : Nodes \cup {NoNode}, \* the node being processed
          checks : SUBSET ENIs,       \* attachments not looked at yet
          missing : SUBSET Subnets,   \* subnets without an ENI on the node
          eni : ENIs \cup {NoENI},    \* created and not yet in the status
          stage : [ENIs -> Stages],   \* the cleanup of each ENI
          failed : SUBSET ENIs]       \* those whose cleanup had a failure

NoCall == [mem |-> New, fresh |-> FALSE, tries |-> 0, queue |-> {}, current |-> {},
           node |-> NoNode, checks |-> {}, missing |-> {}, eni |-> NoENI,
           stage |-> [e \in ENIs |-> "none"], failed |-> {}]

Updates == {"addFinalizer", "setStart", "removeFinalizer", "forceRemove"}
Saves == {"saveVerified", "saveAttached", "saveFinal"}
Cleanups == {"cleanupAll", "cleanupStale"}

TypeOK ==
  /\ server \in Objects /\ cache \in Objects
  /\ synced \in BOOLEAN /\ elapsed \in BOOLEAN
  /\ aws \in [ENIs -> ENIStates]
  /\ running \in SUBSET Nodes /\ selected \in SUBSET Nodes
  /\ pc \in {"idle", "nodes", "verify", "subnets", "create", "attach", "undo", "stale"}
              \cup Updates \cup Saves \cup Cleanups
  /\ call \in Calls

Init ==
  /\ server = New /\ cache = New /\ synced = TRUE
  /\ elapsed = FALSE
  /\ aws = [e \in ENIs |-> "absent"]
  /\ running = Nodes
  /\ selected = Nodes
  /\ pc = "idle" /\ call = NoCall

-----------------------------------------------------------------------------
(* The API server and the requests to it *)

\* The server stores obj under a new version; the cache follows, at once or later.
Publish(obj) ==
  /\ server' = obj
  /\ IF "stale" \in Faults THEN synced' = FALSE /\ UNCHANGED cache
                           ELSE cache' = obj /\ UNCHANGED synced
  /\ UNCHANGED elapsed

\* The call ends: with an error, to be retried, or until it is requeued.
Return == pc' = "idle" /\ call' = NoCall

\* The finalizer and the annotation the call's copy has, written onto obj.
WithMeta(obj) == [obj EXCEPT !.fin = call.mem.fin, !.start = call.mem.start]

\* handleDeletion goes on to clean up every attachment of obj.
StartCleanupOf(obj, fresh) ==
  /\ pc' = "cleanupAll"
  /\ call' = [NoCall EXCEPT !.mem = obj, !.fresh = fresh,
                !.stage = [e \in ENIs |-> IF e \in obj.atts THEN "queued" ELSE "none"]]

\* An update with the server's resource version succeeds.  A deleted object goes with its
\* last finalizer.  Only setStart is followed by more: the cleanup, of the attachments the
\* server answers with.
UpdateSucceeds ==
  /\ pc \in Updates /\ call.fresh
  /\ LET obj == WithMeta(server)
         stored == IF obj.phase = "deleting" /\ ~obj.fin THEN [obj EXCEPT !.phase = "gone"]
                                                         ELSE obj
     IN /\ Publish(stored)
        /\ IF pc = "setStart" THEN StartCleanupOf(stored, TRUE) ELSE Return
  /\ UNCHANGED <<ec2, selected>>

\* Mutant of UpdateConflicts: one attempt too many.
UpdateConflictsOnceMore ==
  /\ pc \in Updates /\ ~call.fresh /\ server.phase # "gone"
  /\ IF call.tries < RetrySteps
     THEN /\ call' = [call EXCEPT !.mem = WithMeta(cache), !.fresh = synced, !.tries = @ + 1]
          /\ UNCHANGED pc
     ELSE Return
  /\ UNCHANGED <<api, ec2, selected>>

\* Mutant of UpdateConflicts: handleDeletion does not look at setCleanupStartTime's error.
UpdateConflictsIgnored ==
  /\ pc \in Updates /\ ~call.fresh /\ server.phase # "gone"
  /\ IF call.tries + 1 < RetrySteps
     THEN /\ call' = [call EXCEPT !.mem = WithMeta(cache), !.fresh = synced, !.tries = @ + 1]
          /\ UNCHANGED pc
     ELSE IF pc = "setStart" THEN StartCleanupOf(WithMeta(cache), synced) ELSE Return
  /\ UNCHANGED <<api, ec2, selected>>

\* One with an older version is a conflict: the cache's version is the next one tried,
\* until the attempts are used up.
UpdateConflicts ==
  /\ pc \in Updates /\ ~call.fresh /\ server.phase # "gone"
  /\ IF call.tries + 1 < RetrySteps
     THEN /\ call' = [call EXCEPT !.mem = WithMeta(cache), !.fresh = synced, !.tries = @ + 1]
          /\ UNCHANGED pc
     ELSE Return
  /\ UNCHANGED <<api, ec2, selected>>

\* Any other error ends the call.
UpdateFails ==
  /\ pc \in Updates
  /\ server.phase = "gone" \/ "api" \in Faults
  /\ Return
  /\ UNCHANGED <<api, ec2, selected>>

\* The call goes on after a status update, whether or not it succeeded.
AfterSave(mem, fresh) ==
  \/ /\ pc = "saveFinal"
     /\ Return
  \/ /\ pc # "saveFinal"
     /\ pc' = IF pc = "saveVerified" THEN "subnets" ELSE "create"
     /\ call' = [call EXCEPT !.mem = mem, !.fresh = fresh, !.tries = 0]

\* A status update replaces the attachments by the call's.
SaveSucceeds ==
  /\ pc \in Saves /\ call.fresh
  /\ LET obj == [server EXCEPT !.atts = call.mem.atts]
     IN Publish(obj) /\ AfterSave(obj, TRUE)
  /\ UNCHANGED <<ec2, selected>>

\* On a conflict the call's attachments are put onto the cache's version.
SaveConflicts ==
  /\ pc \in Saves /\ ~call.fresh /\ server.phase # "gone"
  /\ LET latest == [cache EXCEPT !.atts = call.mem.atts]
     IN IF call.tries + 1 < RetrySteps
        THEN /\ call' = [call EXCEPT !.mem = latest, !.fresh = synced, !.tries = @ + 1]
             /\ UNCHANGED pc
        ELSE AfterSave(latest, synced)
  /\ UNCHANGED <<api, ec2, selected>>

SaveFails ==
  /\ pc \in Saves
  /\ server.phase = "gone" \/ "api" \in Faults
  /\ AfterSave(call.mem, call.fresh)
  /\ UNCHANGED <<api, ec2, selected>>

-----------------------------------------------------------------------------
(* Reconcile: a call reads the NodeENI from the cache *)

\* Mutant of CleanupTimedOut: the annotation is written in a format that does not parse,
\* which counts as not timed out.
CleanupNeverTimedOut(obj) == FALSE

\* The recorded start of the cleanup is too long ago.
CleanupTimedOut(obj) == obj.start /\ elapsed

\* A call that starts with obj as its copy, at p.
Begin(p, obj) == pc' = p /\ call' = [NoCall EXCEPT !.mem = obj, !.fresh = synced]

\* A NodeENI being deleted is cleaned up after the start of that is recorded, or given up
\* when that was too long ago.
HandleDeletion ==
  /\ pc = "idle" /\ cache.phase = "deleting" /\ cache.fin
  /\ \/ /\ CleanupTimedOut(cache)
        /\ Begin("forceRemove", [cache EXCEPT !.fin = FALSE])
     \/ /\ ~cache.start
        /\ Begin("setStart", [cache EXCEPT !.start = TRUE])
     \/ /\ cache.start /\ ~CleanupTimedOut(cache)
        /\ StartCleanupOf(cache, synced)
  /\ UNCHANGED <<api, ec2, selected>>

\* One without finalizer gets it; for any other the nodes that match are listed.
Reconcile ==
  /\ pc = "idle" /\ cache.phase = "live"
  /\ \/ /\ ~cache.fin
        /\ Begin("addFinalizer", [cache EXCEPT !.fin = TRUE])
     \/ /\ cache.fin
        /\ pc' = "nodes"
        /\ call' = [NoCall EXCEPT !.mem = cache, !.fresh = synced,
                                  !.queue = selected, !.current = selected]
  /\ UNCHANGED <<api, ec2, selected>>

\* processNodeENI's loop: the next node's attachments are verified; after the last node
\* every attachment is checked for being stale.
NextNode ==
  /\ pc = "nodes"
  /\ \/ \E n \in call.queue :
          /\ pc' = "verify"
          /\ call' = [call EXCEPT !.queue = @ \ {n}, !.node = n,
                        !.checks = {e \in call.mem.atts : NodeOf[e] = n}]
     \/ /\ call.queue = {}
        /\ pc' = "stale"
        /\ call' = [call EXCEPT !.node = NoNode, !.checks = call.mem.atts]
  /\ UNCHANGED <<api, ec2, selected>>

-----------------------------------------------------------------------------
(* EC2, as the controller sees it: external *)

\* What DescribeENI shows: the ENI exists, it is attached to its node's instance.
Exists(e) == aws[e] # "absent"
InUseByNode(e) == aws[e] \in {"attached", "detaching"}
Unattached(e) == aws[e] \in {"available", "loose"}

\* The outcomes of a DeleteENI: the state it leaves and whether it returns no error.
\* EC2 refuses to delete an ENI in use; to delete one that is gone is no error.
DeleteOutcomes(e) ==
  (IF InUseByNode(e) \/ aws[e] = "foreign" THEN {[to |-> aws[e], ok |-> FALSE]}
                                          ELSE {[to |-> "absent", ok |-> TRUE]})
    \cup IF "delete" \in Faults THEN {[to |-> aws[e], ok |-> FALSE]} ELSE {}

\* The outcomes of a forced DetachENI.  An attachment that is gone, or that is already
\* being detached, is no error; an answer may be lost.
DetachOutcomes(e) ==
  LET detached == IF aws[e] = "attached" THEN "detaching" ELSE aws[e]
  IN {[to |-> detached, ok |-> TRUE]}
       \cup IF "detach" \in Faults
            THEN {[to |-> aws[e], ok |-> FALSE], [to |-> detached, ok |-> FALSE]} ELSE {}

-----------------------------------------------------------------------------
(* Verification of a node's attachments *)

\* The outcomes of isAttachmentValid, a DetachENI(force = false): the state it leaves and
\* whether the attachment is held valid.  The default client makes a dry run.  It answers
\* for an attachment that is gone as EC2 does: with not-found, which the client turns
\* into success and the controller into "just detached", or with an error.  The facade
\* makes no dry run.
ValidOutcomes(e) ==
  IF Facade
  THEN {[to |-> o.to, valid |-> ~o.ok] : o \in DetachOutcomes(e)}
  ELSE {[to |-> aws[e], valid |-> v] : v \in IF InUseByNode(e) THEN {TRUE} ELSE BOOLEAN}

\* Mutant of VerifyOutcomes: an ENI whose description fails is taken for gone.
VerifyOutcomesHasty(e) ==
  {[to |-> o.to, keep |-> o.valid /\ InUseByNode(e)] : o \in ValidOutcomes(e)}
    \cup IF "describe" \in Faults THEN {[to |-> aws[e], keep |-> FALSE]} ELSE {}

\* The outcomes of verifyAndUpdateAttachment.  A valid attachment is dropped when the ENI is
\* gone, attached elsewhere, or unattached: then the ENI is deleted and the attachment
\* dropped even if that fails.
VerifyOutcomes(e) ==
  UNION {IF ~o.valid THEN {[to |-> o.to, keep |-> FALSE]}
         ELSE (IF Unattached(e) THEN {[to |-> d.to, keep |-> FALSE] : d \in DeleteOutcomes(e)}
                                ELSE {[to |-> o.to, keep |-> InUseByNode(e)]})
              \cup IF "describe" \in Faults
                   THEN {[to |-> v.to, keep |-> v.valid] : v \in ValidOutcomes(e)} ELSE {}
         : o \in ValidOutcomes(e)}

VerifyAttachment ==
  /\ pc = "verify"
  /\ \/ \E e \in call.checks : \E o \in VerifyOutcomes(e) :
          /\ aws' = [aws EXCEPT ![e] = o.to]
          /\ call' = [call EXCEPT !.checks = @ \ {e},
                        !.mem.atts = IF o.keep THEN @ ELSE @ \ {e}]
          /\ UNCHANGED pc
     \/ /\ call.checks = {}
        /\ pc' = "saveVerified"
        /\ UNCHANGED <<aws, call>>
  /\ UNCHANGED <<api, running, selected>>

-----------------------------------------------------------------------------
(* Creation of missing ENIs *)

\* Mutant of MissingSubnets: the ENIs the node has are not looked at.
MissingSubnetsAll ==
  /\ pc = "subnets"
  /\ pc' = "create" /\ call' = [call EXCEPT !.missing = Subnets]
  /\ UNCHANGED <<api, ec2, selected>>

\* Mutant of MissingSubnets: a node that has an ENI gets no other.
MissingSubnetsFirst ==
  /\ pc = "subnets"
  /\ pc' = "create"
  /\ call' = [call EXCEPT !.missing =
       IF \E e \in call.mem.atts : NodeOf[e] = call.node THEN {} ELSE {CHOOSE s \in Subnets : TRUE}]
  /\ UNCHANGED <<api, ec2, selected>>

\* The subnets in which the call's copy shows no ENI on the node; when the subnets cannot
\* be resolved the node is left.
MissingSubnets ==
  /\ pc = "subnets"
  /\ \/ /\ pc' = "create"
        /\ call' = [call EXCEPT !.missing =
             Subnets \ {SubnetOf[e] : e \in {a \in call.mem.atts : NodeOf[a] = call.node}}]
     \/ /\ "subnet" \in Faults
        /\ pc' = "nodes"
        /\ call' = [call EXCEPT !.node = NoNode]
  /\ UNCHANGED <<api, ec2, selected>>

\* An ID EC2 has not handed out, or that nobody remembers any more.
Unused(e) == aws[e] = "absent" /\ e \notin server.atts \cup cache.atts \cup call.mem.atts

\* createMissingENIs' loop: create an ENI in the next subnet; a failure (one is the
\* account's limit) leaves the subnet for a later call.
CreateENI ==
  /\ pc = "create"
  /\ \/ /\ call.missing = {}
        /\ pc' = "nodes" /\ call' = [call EXCEPT !.node = NoNode]
        /\ UNCHANGED aws
     \/ \E s \in call.missing :
          LET free == {e \in ENIs : NodeOf[e] = call.node /\ SubnetOf[e] = s /\ Unused(e)}
          IN \/ \E e \in free :
                  /\ aws' = [aws EXCEPT ![e] = "available"]
                  /\ pc' = "attach"
                  /\ call' = [call EXCEPT !.missing = @ \ {s}, !.eni = e]
             \/ /\ free = {} \/ "create" \in Faults
                /\ call' = [call EXCEPT !.missing = @ \ {s}]
                /\ UNCHANGED <<aws, pc>>
  /\ UNCHANGED <<api, running, selected>>

\* The ENI is attached to the node's instance and joins the status; a failure leads to
\* its deletion.
AttachENI ==
  /\ pc = "attach"
  /\ \/ /\ aws[call.eni] = "available" /\ call.node \in running
        /\ aws' = [aws EXCEPT ![call.eni] = "attached"]
        /\ \/ /\ pc' = "saveAttached"
              /\ call' = [call EXCEPT !.mem.atts = @ \cup {call.eni}, !.eni = NoENI]
           \/ /\ "attachLost" \in Faults
              /\ pc' = "undo" /\ UNCHANGED call
     \/ /\ aws[call.eni] # "available" \/ call.node \notin running \/ "attach" \in Faults
        /\ pc' = "undo" /\ UNCHANGED <<aws, call>>
  /\ UNCHANGED <<api, running, selected>>

\* Mutant of UndoCreate: the ENI that could not be attached is not deleted.
UndoCreateForgotten ==
  /\ pc = "undo"
  /\ pc' = "create" /\ call' = [call EXCEPT !.eni = NoENI]
  /\ UNCHANGED <<api, ec2, selected>>

\* A failure to delete the ENI is only logged.
UndoCreate ==
  /\ pc = "undo"
  /\ \E o \in DeleteOutcomes(call.eni) : aws' = [aws EXCEPT ![call.eni] = o.to]
  /\ pc' = "create" /\ call' = [call EXCEPT !.eni = NoENI]
  /\ UNCHANGED <<api, running, selected>>

-----------------------------------------------------------------------------
(* Stale attachments *)

\* Mutant of StaleVerdicts: the attachments of a selected node are taken for stale too.
StaleVerdictsAll(e) == {TRUE} \cup IF "describe" \in Faults THEN {FALSE} ELSE {}

\* Mutant of StaleVerdicts: an ENI attached to a running instance is never stale.
StaleVerdictsNoSelector(e) ==
  {NodeOf[e] \notin running \/ ~InUseByNode(e)} \cup IF "describe" \in Faults THEN {FALSE} ELSE {}

\* Whether e is taken for stale.  On a node processed in this call it is when its instance
\* is terminated, or when it is not attached to it; on any other node it always is.  A
\* failed description counts for the attachment.
StaleVerdicts(e) ==
  {NodeOf[e] \in call.current => NodeOf[e] \notin running \/ ~InUseByNode(e)}
    \cup IF "describe" \in Faults THEN {FALSE} ELSE {}

CheckStale ==
  /\ pc = "stale"
  /\ \/ \E e \in call.checks : \E stale \in StaleVerdicts(e) :
          /\ call' = [call EXCEPT !.checks = @ \ {e},
                        !.stage[e] = IF stale THEN "queued" ELSE @]
          /\ UNCHANGED pc
     \/ /\ call.checks = {}
        /\ pc' = "cleanupStale" /\ UNCHANGED call
  /\ UNCHANGED <<api, ec2, selected>>

-----------------------------------------------------------------------------
(* Cleanup of a batch of attachments: the stale ones, or all of a deleted NodeENI *)

Batch == {e \in ENIs : call.stage[e] # "none"}
InProgress == {e \in ENIs : call.stage[e] \in {"detach", "wait", "delete"}}

\* Half as many workers as attachments, at least one and at most the configured number.
WorkerCount ==
  LET half == IF Cardinality(Batch) < 2 THEN 1 ELSE Cardinality(Batch) \div 2
  IN IF half < MaxConcurrentENICleanup THEN half ELSE MaxConcurrentENICleanup

\* e's cleanup goes on to stage s, after a step that succeeded or not.
Goto(e, s, ok) ==
  call' = [call EXCEPT !.stage[e] = s, !.failed = IF ok THEN @ ELSE @ \cup {e}]

\* A worker takes the next attachment.  A cleanup in a batch of several goes through the
\* CoordinationManager, which may reject it.  If the ENI is gone nothing is left to do; a
\* description that fails changes nothing.
BeginCleanup(e) ==
  /\ pc \in Cleanups
  /\ call.stage[e] = "queued" /\ Cardinality(InProgress) < WorkerCount
  /\ \/ /\ "lock" \in Faults /\ Cardinality(Batch) > 1
        /\ Goto(e, "done", FALSE)
     \/ /\ ~Exists(e)
        /\ Goto(e, "done", TRUE)
     \/ /\ Exists(e) \/ "describe" \in Faults
        /\ Goto(e, "detach", TRUE)
  /\ UNCHANGED <<api, ec2, selected, pc>>

\* A failure counts, but the cleanup goes on: here, and in the next step.
Detach(e) ==
  /\ pc \in Cleanups /\ call.stage[e] = "detach"
  /\ \E o \in DetachOutcomes(e) :
       /\ aws' = [aws EXCEPT ![e] = o.to]
       /\ Goto(e, "wait", o.ok)
  /\ UNCHANGED <<api, running, selected, pc>>

\* The wait ends when the ENI is seen gone or unattached, or when it takes too long.
WaitForDetachment(e) ==
  /\ pc \in Cleanups /\ call.stage[e] = "wait"
  /\ \/ /\ ~Exists(e) \/ Unattached(e)
        /\ Goto(e, "delete", TRUE)
     \/ /\ aws[e] \in {"attached", "foreign"} \/ {"wait", "describe"} \cap Faults # {}
        /\ Goto(e, "delete", FALSE)
  /\ UNCHANGED <<api, ec2, selected, pc>>

\* Mutant of Delete: an ENI that is still in use is taken for cleaned up.
DeleteUnchecked(e) ==
  /\ pc \in Cleanups /\ call.stage[e] = "delete"
  /\ \E o \in DeleteOutcomes(e) :
       /\ aws' = [aws EXCEPT ![e] = o.to]
       /\ Goto(e, "done", TRUE)
  /\ UNCHANGED <<api, running, selected, pc>>

Delete(e) ==
  /\ pc \in Cleanups /\ call.stage[e] = "delete"
  /\ \/ \E o \in DeleteOutcomes(e) :
          /\ aws' = [aws EXCEPT ![e] = o.to]
          /\ Goto(e, "done", o.ok)
     \/ /\ "describe" \in Faults
        /\ Goto(e, "done", FALSE)
        /\ UNCHANGED aws
  /\ UNCHANGED <<api, running, selected, pc>>

\* All workers are done.  Of a deleted NodeENI the finalizer and the annotation are removed
\* if no cleanup failed.  A stale attachment whose cleanup failed is kept, except that in a
\* batch of several those whose ENI EC2 does not know any more are dropped all the same.
CleanupDone ==
  /\ pc \in Cleanups
  /\ \A e \in Batch : call.stage[e] = "done"
  /\ \/ /\ pc = "cleanupAll" /\ call.failed = {}
        /\ pc' = "removeFinalizer"
        /\ call' = [NoCall EXCEPT !.mem = [call.mem EXCEPT !.fin = FALSE, !.start = FALSE],
                                  !.fresh = call.fresh]
     \/ /\ pc = "cleanupAll" /\ call.failed # {}
        /\ Return
     \/ /\ pc = "cleanupStale"
        /\ \E unknown \in SUBSET {e \in Batch : ~Exists(e)} :
             /\ "describe" \in Faults \/ unknown = {e \in Batch : ~Exists(e)}
             /\ LET dropped == IF call.failed = {} THEN Batch
                               ELSE IF Cardinality(Batch) = 1 THEN {} ELSE unknown
                IN call' = [NoCall EXCEPT !.mem = [call.mem EXCEPT !.atts = @ \ dropped],
                                          !.fresh = call.fresh]
        /\ pc' = "saveFinal"
  /\ UNCHANGED <<api, ec2, selected>>

-----------------------------------------------------------------------------
(* The rest of the world *)

\* What others write to the object gives it a new version.
WriteByOther(obj) == Publish(obj) /\ call' = [call EXCEPT !.fresh = FALSE]

\* The user deletes the NodeENI: it stays until its finalizer is removed.
UserDelete ==
  /\ server.phase = "live"
  /\ WriteByOther([server EXCEPT !.phase = IF server.fin THEN "deleting" ELSE "gone"])
  /\ UNCHANGED <<ec2, selected, pc>>

\* Another client updates what the controller does not: the eni-manager, a user's label.
OtherWrite ==
  /\ "write" \in Outside /\ server.phase # "gone" /\ call.fresh
  /\ WriteByOther(server)
  /\ UNCHANGED <<ec2, selected, pc>>

CacheSync ==
  /\ ~synced
  /\ cache' = server /\ synced' = TRUE
  /\ UNCHANGED <<server, elapsed, ec2, selected, pc, call>>

\* MaxCleanupDuration passes after the recorded start.
Elapse ==
  /\ server.phase = "deleting" /\ server.start /\ ~elapsed
  /\ elapsed' = TRUE
  /\ UNCHANGED <<server, cache, synced, ec2, selected, pc, call>>

\* A node's labels change so that it matches the selector, or no longer does.
Relabel(n) ==
  /\ "relabel" \in Outside
  /\ selected' = IF n \in selected THEN selected \ {n} ELSE selected \cup {n}
  /\ UNCHANGED <<api, ec2, pc, call>>

\* EC2 completes a detachment.
AwsDetached(e) ==
  /\ aws[e] = "detaching"
  /\ aws' = [aws EXCEPT ![e] = "available"]
  /\ UNCHANGED <<api, running, selected, pc, call>>

\* Somebody detaches an ENI, deletes one that is unattached, or attaches it elsewhere.
ActedOnByOther(e) ==
  /\ \/ /\ "detach" \in Outside /\ aws[e] = "attached"
        /\ aws' = [aws EXCEPT ![e] = "loose"]
     \/ /\ "delete" \in Outside /\ Unattached(e)
        /\ aws' = [aws EXCEPT ![e] = "absent"]
     \/ /\ "attach" \in Outside /\ Unattached(e)
        /\ aws' = [aws EXCEPT ![e] = "foreign"]
  /\ UNCHANGED <<api, running, selected, pc, call>>

\* An instance is terminated.  Its ENIs go with it, except those for which the request to
\* delete them on termination failed.
Terminate(n) ==
  /\ "terminate" \in Outside /\ n \in running
  /\ running' = running \ {n}
  /\ LET its == {e \in ENIs : NodeOf[e] = n /\ InUseByNode(e)}
     IN \E survivors \in SUBSET its :
          /\ "survive" \in Outside \/ survivors = {}
          /\ aws' = [e \in ENIs |-> IF e \in survivors THEN "available"
                                    ELSE IF e \in its THEN "absent" ELSE aws[e]]
  /\ UNCHANGED <<api, selected, pc, call>>

\* The controller stops and starts again.
Crash ==
  /\ "crash" \in Faults /\ pc # "idle"
  /\ Return
  /\ UNCHANGED <<api, ec2, selected>>

-----------------------------------------------------------------------------

Step ==
  \/ HandleDeletion \/ Reconcile \/ NextNode
  \/ UpdateSucceeds \/ UpdateConflicts \/ UpdateFails
  \/ SaveSucceeds \/ SaveConflicts \/ SaveFails
  \/ VerifyAttachment \/ MissingSubnets \/ CreateENI \/ AttachENI \/ UndoCreate
  \/ CheckStale
  \/ \E e \in ENIs : BeginCleanup(e) \/ Detach(e) \/ WaitForDetachment(e) \/ Delete(e)
  \/ CleanupDone

Environment ==
  \/ UserDelete \/ OtherWrite \/ CacheSync \/ Elapse \/ Crash
  \/ \E n \in Nodes : Relabel(n) \/ Terminate(n)
  \/ \E e \in ENIs : AwsDetached(e) \/ ActedOnByOther(e)

Next == Step \/ Environment

Spec == Init /\ [][Next]_vars

\* controller-runtime reconciles again after an error and every ReconcilePeriod, the
\* informer catches up, EC2 completes a detachment, and time passes.  An update that is
\* tried again and again succeeds once: failures of the API server, writes of others and
\* crashes do not hit every attempt.
Fairness ==
  /\ WF_vars(Step) /\ WF_vars(CacheSync) /\ WF_vars(Elapse)
  /\ \A e \in ENIs : WF_vars(AwsDetached(e))
  /\ SF_vars(UpdateSucceeds)

FairSpec == Spec /\ Fairness

-----------------------------------------------------------------------------
(* Properties *)

\* The finalizer's promise (handleDeletion): when a NodeENI is gone before its cleanup timed
\* out, every ENI its status listed is gone from EC2 too, whatever fails, conflicts or is
\* read stale in between.
NoENILeftBehind ==
  server.phase = "gone" /\ ~elapsed => \A e \in server.atts : aws[e] = "absent"

\* No two ENIs are attached to one node in one subnet (createMissingENIs).
OneENIPerSubnet ==
  \A d, e \in ENIs :
    /\ d # e /\ NodeOf[d] = NodeOf[e] /\ SubnetOf[d] = SubnetOf[e]
    /\ aws[d] = "attached"
    => aws[e] # "attached"

\* An ENI the controller created and nobody else took away is known to somebody who will
\* clean it up: the status, or the call that is running.
Tracked(e) == e \in server.atts \cup call.mem.atts \/ e = call.eni
NoLeak ==
  server.phase # "gone" =>
    \A e \in ENIs : aws[e] \in {"available", "attached", "detaching"} => Tracked(e)

\* The controller detaches an ENI only from a node that was terminated or did not match the
\* selector when the call listed the nodes, or because the NodeENI is being deleted.
SelectedNodesKeepENIs ==
  [][\A e \in ENIs :
       aws[e] = "attached" /\ aws'[e] = "detaching" =>
         \/ server.phase = "deleting"
         \/ NodeOf[e] \notin call.current \cap running]_vars

\* The status does not forget an ENI while it is attached to its node.
StatusKeepsAttached ==
  [][\A e \in server.atts : e \notin server'.atts => aws[e] # "attached"]_vars

\* A NodeENI that is deleted goes away in the end: its finalizer is removed when the cleanup
\* succeeds, or when it times out.
DeletionCompletes == server.phase = "deleting" ~> server.phase = "gone"

\* A node that stops matching the selector loses its ENIs, unless it matches again.
UnselectedNodesLoseENIs ==
  \A e \in ENIs :
    aws[e] = "attached" /\ NodeOf[e] \notin selected /\ server.phase = "live"
      ~> aws[e] = "absent" \/ NodeOf[e] \in selected \/ server.phase # "live"

\* A node that matches it, and runs, gets an ENI in every subnet.
SelectedNodesGetENIs ==
  \A n \in Nodes, s \in Subnets :
    n \in selected \cap running /\ server.phase = "live"
      ~> \/ \E e \in ENIs : NodeOf[e] = n /\ SubnetOf[e] = s /\ aws[e] = "attached"
         \/ n \notin selected \cap running \/ server.phase # "live"

\* An ENI somebody detached stays tracked until it is deleted or attached elsewhere
\* (CHANGELOG.md:152, nodeeni_controller.go:2385).
DetachedENIIsDeleted ==
  \A e \in ENIs : aws[e] = "loose" => Tracked(e)

=============================================================================
