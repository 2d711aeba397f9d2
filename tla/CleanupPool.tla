----------------------------- MODULE CleanupPool -----------------------------
(***************************************************************************)
(* The parallel cleanup of NodeENIs that are being deleted: one pool of    *)
(* worker goroutines for each, a channel of work and a channel of results. *)
(*                                                                         *)
(* The context of a reconcile is the manager's: when the process is told   *)
(* to stop, it is cancelled for all pools at once.  A worker that waits on *)
(* its channel and on the context takes either when both are ready.        *)
(*                                                                         *)
(* ExecuteCoordinated is modelled by what Coordination guarantees: it runs *)
(* the cleanup while nobody else runs one that shares a resource, or       *)
(* refuses it at once.  A deletion that runs out of time, and lets go of   *)
(* the finalizer all the same, is part of NodeENIController and not of     *)
(* this module.                                                            *)
(***************************************************************************)
EXTENDS Naturals, Sequences, FiniteSets, SequencesExt

CONSTANTS
  NodeENIs,
  ENIs,           \* the ENIs in the NodeENIs' attachments, one cleanup for each
  ENIsOf,         \* the ENIs of a NodeENI
  NodeOf,         \* the node, with its instance, an ENI is attached to
  Workers,        \* pairs of a NodeENI and a number
  MaxConcurrentENICleanup,
  NoENI

VARIABLES
  phase,       \* where parallelCleanupENIs, and the removal of the finalizer, is
  unsent,      \* attachments still to be sent to the workers
  workChan,
  closed,      \* workChan is closed
  results,     \* the results that are in resultChan
  goroutine,   \* what a worker goroutine does
  work,        \* the ENI a worker cleans up
  succeeded,   \* the result of a worker's last cleanup
  nodeLevel,   \* the NodeENIs with DPDK or SR-IOV settings
  env,         \* the context of all reconciles, and whether EC2 and the API work
  finalizer,   \* the NodeENIs that have the finalizer
  cleaned      \* the ENIs that have been cleaned up

vars == <<phase, unsent, workChan, closed, results, goroutine, work, succeeded, nodeLevel, env,
          finalizer, cleaned>>

TypeOK ==
  /\ phase \in [NodeENIs -> {"idle", "send", "abandon", "wait", "remove"}]
  /\ unsent \in [NodeENIs -> Seq(ENIs)]
  /\ workChan \in [NodeENIs -> Seq(ENIs)]
  /\ closed \in [NodeENIs -> BOOLEAN]
  /\ results \in [NodeENIs -> SUBSET BOOLEAN]
  /\ goroutine \in [Workers -> {"off", "select", "acquire", "clean up", "report"}]
  /\ work \in [Workers -> ENIs \cup {NoENI}]
  /\ \A w \in Workers : goroutine[w] \in {"acquire", "clean up"} => work[w] \in ENIs
  /\ succeeded \in [Workers -> BOOLEAN]
  /\ nodeLevel \subseteq NodeENIs
  /\ env \in [cancelled : BOOLEAN, healthy : BOOLEAN]
  /\ finalizer \subseteq NodeENIs
  /\ cleaned \subseteq ENIs

\* What one process has cleaned up is still clean when the next one starts.
Init ==
  /\ phase = [n \in NodeENIs |-> "idle"]
  /\ unsent = [n \in NodeENIs |-> <<>>]
  /\ workChan = [n \in NodeENIs |-> <<>>]
  /\ closed = [n \in NodeENIs |-> FALSE]
  /\ results = [n \in NodeENIs |-> {}]
  /\ goroutine = [w \in Workers |-> "off"]
  /\ work = [w \in Workers |-> NoENI]
  /\ succeeded = [w \in Workers |-> FALSE]
  /\ nodeLevel \in SUBSET NodeENIs
  /\ env \in [cancelled : {FALSE}, healthy : BOOLEAN]
  /\ finalizer = NodeENIs
  /\ cleaned \in {{}} \cup {ENIsOf[n] : n \in NodeENIs}

shouldUseNodeLevelCoordination(e) == \E n \in nodeLevel : e \in ENIsOf[n]

\* Mutant of ResourceIDs: every cleanup locks the node.
ResourceIDsNode(e) == {e, NodeOf[e]}

\* The resources a cleanup locks: the ENI and, with DPDK or SR-IOV, its node and instance
\* (which are always locked together and count as one).
ResourceIDs(e) ==
  IF shouldUseNodeLevelCoordination(e) THEN {e, NodeOf[e]} ELSE {e}

WorkersOf(n) == {w \in Workers : w[1] = n}

calculateWorkerCount(n) ==
  LET attachments == Cardinality(ENIsOf[n])
      byLoad == IF attachments \div 2 > 1 THEN attachments \div 2 ELSE 1
  IN IF byLoad < MaxConcurrentENICleanup THEN byLoad ELSE MaxConcurrentENICleanup

-----------------------------------------------------------------------------
(* The reconcile's goroutine *)

\* handleDeletion calls parallelCleanupENIs, which makes the channels and the workers.
StartWorkers(n) ==
  /\ phase[n] = "idle" /\ n \in finalizer /\ ~env.cancelled
  /\ phase' = [phase EXCEPT ![n] = "send"]
  /\ unsent' = [unsent EXCEPT ![n] = SetToSeq(ENIsOf[n])]
  /\ workChan' = [workChan EXCEPT ![n] = <<>>]
  /\ closed' = [closed EXCEPT ![n] = FALSE]
  /\ results' = [results EXCEPT ![n] = {}]
  /\ goroutine' = [w \in Workers |->
                     IF w \in WorkersOf(n) /\ w[2] <= calculateWorkerCount(n)
                     THEN "select" ELSE goroutine[w]]
  /\ UNCHANGED <<nodeLevel, work, succeeded, env, finalizer, cleaned>>

\* Mutant of SendWork: workChan is not closed behind the last attachment.
SendWorkOpen(n) ==
  /\ phase[n] = "send"
  /\ \/ /\ unsent[n] # <<>>
        /\ workChan' = [workChan EXCEPT ![n] = Append(@, Head(unsent[n]))]
        /\ unsent' = [unsent EXCEPT ![n] = Tail(@)]
        /\ UNCHANGED <<phase, closed>>
     \/ /\ unsent[n] # <<>> /\ env.cancelled
        /\ phase' = [phase EXCEPT ![n] = "abandon"]
        /\ closed' = [closed EXCEPT ![n] = TRUE]
        /\ UNCHANGED <<unsent, workChan>>
     \/ /\ unsent[n] = <<>>
        /\ phase' = [phase EXCEPT ![n] = "wait"]
        /\ UNCHANGED <<unsent, workChan, closed>>
  /\ UNCHANGED <<nodeLevel, results, goroutine, work, succeeded, env, finalizer, cleaned>>

\* One turn of sendWorkToWorkers: the channel has room for every attachment.
SendWork(n) ==
  /\ phase[n] = "send"
  /\ \/ /\ unsent[n] # <<>>
        /\ workChan' = [workChan EXCEPT ![n] = Append(@, Head(unsent[n]))]
        /\ unsent' = [unsent EXCEPT ![n] = Tail(@)]
        /\ UNCHANGED <<phase, closed>>
     \/ /\ unsent[n] # <<>> /\ env.cancelled
        /\ phase' = [phase EXCEPT ![n] = "abandon"]
        /\ closed' = [closed EXCEPT ![n] = TRUE]
        /\ UNCHANGED <<unsent, workChan>>
     \/ /\ unsent[n] = <<>>
        /\ phase' = [phase EXCEPT ![n] = "wait"]
        /\ closed' = [closed EXCEPT ![n] = TRUE]
        /\ UNCHANGED <<unsent, workChan>>
  /\ UNCHANGED <<nodeLevel, results, goroutine, work, succeeded, env, finalizer, cleaned>>

\* Mutant of CollectResults: the results are collected without waiting for the workers.
CollectResultsEarly(n) ==
  /\ phase[n] \in {"abandon", "wait"}
  /\ phase' = [phase EXCEPT ![n] =
                 IF phase[n] = "wait" /\ FALSE \notin results[n] THEN "remove" ELSE "idle"]
  /\ UNCHANGED <<nodeLevel, unsent, workChan, closed, results, goroutine, work, succeeded, env,
                 finalizer, cleaned>>

\* wg.Wait returns.  collectResults takes the results that are there: a worker that left
\* without a result does not count as a failure.
CollectResults(n) ==
  /\ phase[n] \in {"abandon", "wait"}
  /\ \A w \in WorkersOf(n) : goroutine[w] = "off"
  /\ phase' = [phase EXCEPT ![n] =
                 IF phase[n] = "wait" /\ FALSE \notin results[n] THEN "remove" ELSE "idle"]
  /\ UNCHANGED <<nodeLevel, unsent, workChan, closed, results, goroutine, work, succeeded, env,
                 finalizer, cleaned>>

\* Mutant of RemoveFinalizer: the update is made under a context of its own.
RemoveFinalizerDetached(n) ==
  /\ phase[n] = "remove"
  /\ phase' = [phase EXCEPT ![n] = "idle"]
  /\ finalizer' \in IF env.healthy THEN {finalizer \ {n}} ELSE {finalizer, finalizer \ {n}}
  /\ UNCHANGED <<nodeLevel, unsent, workChan, closed, results, goroutine, work, succeeded, env, cleaned>>

\* The update that removes the finalizer can fail, and does when the context is done.
RemoveFinalizer(n) ==
  /\ phase[n] = "remove"
  /\ phase' = [phase EXCEPT ![n] = "idle"]
  /\ finalizer' \in IF env.cancelled THEN {finalizer}
                    ELSE IF env.healthy THEN {finalizer \ {n}} ELSE {finalizer, finalizer \ {n}}
  /\ UNCHANGED <<nodeLevel, unsent, workChan, closed, results, goroutine, work, succeeded, env, cleaned>>

-----------------------------------------------------------------------------
(* The worker goroutines *)

\* Mutant of TakeWork: what a closed channel yields is taken for an attachment.
TakeWorkClosed(w) ==
  LET n == w[1] IN
  /\ goroutine[w] = "select" /\ (workChan[n] # <<>> \/ closed[n])
  /\ work' = [work EXCEPT ![w] = IF workChan[n] = <<>> THEN NoENI ELSE Head(workChan[n])]
  /\ workChan' = [workChan EXCEPT ![n] = IF @ = <<>> THEN @ ELSE Tail(@)]
  /\ goroutine' = [goroutine EXCEPT ![w] = "acquire"]
  /\ UNCHANGED <<nodeLevel, phase, unsent, closed, results, succeeded, env, finalizer, cleaned>>

TakeWork(w) ==
  LET n == w[1] IN
  /\ goroutine[w] = "select" /\ workChan[n] # <<>>
  /\ work' = [work EXCEPT ![w] = Head(workChan[n])]
  /\ workChan' = [workChan EXCEPT ![n] = Tail(@)]
  /\ goroutine' = [goroutine EXCEPT ![w] = "acquire"]
  /\ UNCHANGED <<nodeLevel, phase, unsent, closed, results, succeeded, env, finalizer, cleaned>>

\* The channel is closed and drained, or the context is done.
WorkerExits(w) ==
  /\ goroutine[w] = "select"
  /\ (workChan[w[1]] = <<>> /\ closed[w[1]]) \/ env.cancelled
  /\ goroutine' = [goroutine EXCEPT ![w] = "off"]
  /\ UNCHANGED <<nodeLevel, phase, unsent, workChan, closed, results, work, succeeded, env, finalizer, cleaned>>

\* The other workers that are in ExecuteCoordinated, as far as given, with a lock in common.
Rivals(w, at) ==
  {v \in Workers \ {w} :
     goroutine[v] \in at /\ ResourceIDs(work[v]) \cap ResourceIDs(work[w]) # {}}

\* All locks are acquired: nobody runs a cleanup that shares one.
Acquire(w) ==
  /\ goroutine[w] = "acquire" /\ Rivals(w, {"clean up"}) = {}
  /\ goroutine' = [goroutine EXCEPT ![w] = "clean up"]
  /\ UNCHANGED <<nodeLevel, phase, unsent, workChan, closed, results, work, succeeded, env, finalizer, cleaned>>

\* A lock is taken, for good or by a call that will itself give up: the cleanup fails.
Refused(w) ==
  /\ goroutine[w] = "acquire" /\ Rivals(w, {"acquire", "clean up"}) # {}
  /\ goroutine' = [goroutine EXCEPT ![w] = "report"]
  /\ succeeded' = [succeeded EXCEPT ![w] = FALSE]
  /\ UNCHANGED <<nodeLevel, phase, unsent, workChan, closed, results, work, env, finalizer, cleaned>>

\* cleanupENIAttachment runs: an ENI it fails for may be cleaned up all the same.
CleanUp(w) ==
  /\ goroutine[w] = "clean up"
  /\ \E ok \in IF env.healthy /\ ~env.cancelled THEN {TRUE} ELSE BOOLEAN, gone \in BOOLEAN :
       /\ ok => gone
       /\ succeeded' = [succeeded EXCEPT ![w] = ok]
       /\ cleaned' = IF gone THEN cleaned \cup {work[w]} ELSE cleaned
  /\ goroutine' = [goroutine EXCEPT ![w] = "report"]
  /\ UNCHANGED <<nodeLevel, phase, unsent, workChan, closed, results, work, env, finalizer>>

\* The result goes to the channel, which has room, or the worker leaves without it.
Report(w) ==
  /\ goroutine[w] = "report"
  /\ work' = [work EXCEPT ![w] = NoENI]
  /\ \/ /\ results' = [results EXCEPT ![w[1]] = @ \cup {succeeded[w]}]
        /\ goroutine' = [goroutine EXCEPT ![w] = "select"]
     \/ /\ env.cancelled
        /\ goroutine' = [goroutine EXCEPT ![w] = "off"]
        /\ UNCHANGED results
  /\ UNCHANGED <<nodeLevel, phase, unsent, workChan, closed, succeeded, env, finalizer, cleaned>>

-----------------------------------------------------------------------------

\* The process is told to stop; EC2 and the API begin or cease to fail.
Cancel ==
  /\ ~env.cancelled
  /\ env' = [env EXCEPT !.cancelled = TRUE]
  /\ UNCHANGED <<nodeLevel, phase, unsent, workChan, closed, results, goroutine, work, succeeded,
                 finalizer, cleaned>>

HealthChanges ==
  /\ env' = [env EXCEPT !.healthy = ~@]
  /\ UNCHANGED <<nodeLevel, phase, unsent, workChan, closed, results, goroutine, work, succeeded,
                 finalizer, cleaned>>

WorkerStep(w) ==
  TakeWork(w) \/ WorkerExits(w) \/ Acquire(w) \/ Refused(w) \/ CleanUp(w) \/ Report(w)

PoolStep(n) == StartWorkers(n) \/ SendWork(n) \/ CollectResults(n) \/ RemoveFinalizer(n)

Next ==
  \/ \E n \in NodeENIs : PoolStep(n)
  \/ \E w \in Workers : WorkerStep(w)
  \/ Cancel \/ HealthChanges

\* Goroutines that can run do, a cleanup returns, and a deletion that failed is queued
\* again.
Fairness ==
  /\ \A n \in NodeENIs : WF_vars(PoolStep(n))
  /\ \A w \in Workers : WF_vars(WorkerStep(w))

Spec == Init /\ [][Next]_vars /\ Fairness

-----------------------------------------------------------------------------
(* Properties *)

\* No worker outlives the call that started it: the reconcile that follows, and the
\* removal of the finalizer, meet no cleanup that is still running.
NoWorkerLeft ==
  \A w \in Workers : phase[w[1]] \in {"idle", "remove"} => goroutine[w] = "off"

Contract == INSTANCE FinalizerContract WITH finalizers <- finalizer

\* The pools implement the contract: the finalizer outlives every cleanup, although a
\* pool that is cancelled reports success for ENIs nobody looked at.
ImplementsContract == Contract!Spec

\* Every parallel cleanup returns, cancelled or not: no worker and no channel keeps the
\* reconcile waiting.
EveryPoolReturns == \A n \in NodeENIs : phase[n] # "idle" ~> phase[n] = "idle"

\* Once EC2 and the API work, a NodeENI whose ENIs are locked one by one loses its
\* finalizer: its own workers, and those of other NodeENIs, cannot keep it from that.
GranularDeletionCompletes ==
  <>[](env.healthy /\ ~env.cancelled) => <>(finalizer \subseteq nodeLevel)

=============================================================================
