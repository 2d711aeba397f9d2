---------------------------- MODULE Coordination ----------------------------
(***************************************************************************)
(* The controller's CoordinationManager: a table of named, expiring,       *)
(* non-blocking locks, and ExecuteCoordinated, which every ENI cleanup of  *)
(* a NodeENI with several attachments goes through.                        *)
(*                                                                         *)
(* A worker is a goroutine running one ExecuteCoordinated call.  Each      *)
(* action below is one critical section of the manager's mutex, so the     *)
(* interleavings are those the mutex allows: a call checks for conflicts   *)
(* in one section and takes its locks, one section each, in later ones.    *)
(*                                                                         *)
(* A lock carries a context with a deadline (DetachmentTimeout).  The      *)
(* operation itself runs under the caller's context, not under the lock's, *)
(* so a lock can expire, and be taken over, while its operation still runs.*)
(***************************************************************************)
EXTENDS Naturals, Sequences

CONSTANTS
  Workers,      \* goroutines that call ExecuteCoordinated
  Ops,          \* operation IDs, one per NodeENI, node and ENI
  Resources,    \* resource IDs: an ENI, a node, an instance
  ResourceIDs,  \* the resources an operation locks, in the order it locks them
  DependsOn,    \* the operations an operation is registered to wait for
  NoOp,         \* the operation of an idle worker
  NoLock        \* the table's entry for a resource nobody has locked

ASSUME ConstantsAssumption ==
  /\ ResourceIDs \in [Ops -> Seq(Resources)]
  /\ DependsOn \in [Ops -> SUBSET Ops]
  /\ NoOp \notin Ops

\* The state of a lock's context: not done, not done but older than the thirty
\* minutes after which the sweep removes a lock anyway, done (expired or cancelled).
Contexts == {"live", "aged", "done"}

Locks == [by : Ops, ctx : Contexts]

ASSUME NoLockAssumption == NoLock \notin Locks

VARIABLES
  locks,         \* CoordinationManager.locks
  dependencies,  \* CoordinationManager.dependencies: the registered operations
  pc,            \* where a worker is in ExecuteCoordinated
  op,            \* the operation a worker runs
  todo,          \* the resources it has still to lock
  held,          \* its local list of acquired locks
  lost           \* history: held resources whose lock expired or was swept

vars == <<locks, dependencies, pc, op, todo, held, lost>>

Idle == "idle"

Elems(s) == {s[i] : i \in DOMAIN s}

\* The resources operation o asks for.
Needs(o) == Elems(ResourceIDs[o])

Busy(w) == pc[w] # Idle

TypeOK ==
  /\ locks \in [Resources -> Locks \cup {NoLock}]
  /\ dependencies \in SUBSET Ops
  /\ pc \in [Workers -> {Idle, "sweep", "conflicts", "dependencies", "acquire",
                         "rollback", "execute", "release"}]
  /\ op \in [Workers -> Ops \cup {NoOp}]
  /\ todo \in [Workers -> Seq(Resources)]
  /\ held \in [Workers -> SUBSET Resources]
  /\ lost \in [Workers -> SUBSET Resources]

Init ==
  /\ locks = [r \in Resources |-> NoLock]
  /\ dependencies = {}
  /\ pc = [w \in Workers |-> Idle]
  /\ op = [w \in Workers |-> NoOp]
  /\ todo = [w \in Workers |-> <<>>]
  /\ held = [w \in Workers |-> {}]
  /\ lost = [w \in Workers |-> {}]

-----------------------------------------------------------------------------
(* ExecuteCoordinated *)

\* The lock on r excludes others: it is in the table and its context is not done.
Valid(r) == locks[r] # NoLock /\ locks[r].ctx # "done"

\* The lock on r, valid or not, is operation o's.
LockedBy(r, o) == locks[r] # NoLock /\ locks[r].by = o

\* The call returns to its caller, with an error or without.
Return(w) ==
  /\ pc' = [pc EXCEPT ![w] = Idle]
  /\ op' = [op EXCEPT ![w] = NoOp]
  /\ todo' = [todo EXCEPT ![w] = <<>>]
  /\ held' = [held EXCEPT ![w] = {}]
  /\ lost' = [lost EXCEPT ![w] = {}]

\* A cleanup calls ExecuteCoordinated.  The operation ID names the NodeENI, the node
\* and the ENI; controller-runtime never reconciles one NodeENI twice at a time and a
\* reconcile waits for its cleanup workers, so an ID is run by one worker at a time.
Start(w, o) ==
  /\ pc[w] = Idle
  /\ \A v \in Workers : op[v] # o
  /\ pc' = [pc EXCEPT ![w] = "sweep"]
  /\ op' = [op EXCEPT ![w] = o]
  /\ UNCHANGED <<locks, dependencies, todo, held, lost>>

\* Every lock whose context is done, or that is too old, leaves the table.
CleanupStaleLocks(w) ==
  /\ pc[w] = "sweep"
  /\ locks' = [r \in Resources |->
                 IF locks[r] # NoLock /\ locks[r].ctx = "live" THEN locks[r] ELSE NoLock]
  /\ lost' = [v \in Workers |-> lost[v] \cup
                {r \in held[v] : LockedBy(r, op[v]) /\ locks[r].ctx = "aged"}]
  /\ pc' = [pc EXCEPT ![w] = "conflicts"]
  /\ UNCHANGED <<dependencies, op, todo, held>>

GetResourceConflicts(w) ==
  /\ pc[w] = "conflicts"
  /\ \/ /\ \E r \in Needs(op[w]) : Valid(r)
        /\ Return(w)
     \/ /\ \A r \in Needs(op[w]) : ~Valid(r)
        /\ pc' = [pc EXCEPT ![w] = "dependencies"]
        /\ UNCHANGED <<op, todo, held, lost>>
  /\ UNCHANGED <<locks, dependencies>>

\* An operation that was never registered has no dependencies; one that was waits
\* while any operation it depends on is still registered.
CheckDependencies(w) ==
  /\ pc[w] = "dependencies"
  /\ LET satisfied == op[w] \in dependencies => DependsOn[op[w]] \cap dependencies = {}
     IN \/ /\ satisfied
           /\ pc' = [pc EXCEPT ![w] = "acquire"]
           /\ todo' = [todo EXCEPT ![w] = ResourceIDs[op[w]]]
           /\ UNCHANGED <<op, held, lost>>
        \/ /\ ~satisfied
           /\ Return(w)
  /\ UNCHANGED <<locks, dependencies>>

\* Mutant of AcquireLock: the table's entry is overwritten without a look at its context.
AcquireLockUnchecked(w) ==
  /\ pc[w] = "acquire"
  /\ IF todo[w] = <<>>
     THEN pc' = [pc EXCEPT ![w] = "execute"] /\ UNCHANGED <<locks, todo, held>>
     ELSE /\ locks' = [locks EXCEPT ![Head(todo[w])] = [by |-> op[w], ctx |-> "live"]]
          /\ held' = [held EXCEPT ![w] = @ \cup {Head(todo[w])}]
          /\ todo' = [todo EXCEPT ![w] = Tail(@)]
          /\ UNCHANGED pc
  /\ UNCHANGED <<dependencies, op, lost>>

\* Mutant of AcquireLock: the failed acquisition returns without its rollback.
AcquireLockNoRollback(w) ==
  /\ pc[w] = "acquire"
  /\ \/ /\ todo[w] = <<>>
        /\ pc' = [pc EXCEPT ![w] = "execute"]
        /\ UNCHANGED <<locks, op, todo, held, lost>>
     \/ /\ todo[w] # <<>> /\ Valid(Head(todo[w]))
        /\ Return(w)
        /\ UNCHANGED locks
     \/ /\ todo[w] # <<>> /\ ~Valid(Head(todo[w]))
        /\ locks' = [locks EXCEPT ![Head(todo[w])] = [by |-> op[w], ctx |-> "live"]]
        /\ held' = [held EXCEPT ![w] = @ \cup {Head(todo[w])}]
        /\ todo' = [todo EXCEPT ![w] = Tail(@)]
        /\ UNCHANGED <<pc, op, lost>>
  /\ UNCHANGED dependencies

\* One turn of the acquisition loop: a lock that is absent or stale is taken, a valid
\* one ends the loop and sends the call to release what it took.
AcquireLock(w) ==
  /\ pc[w] = "acquire"
  /\ \/ /\ todo[w] = <<>>
        /\ pc' = [pc EXCEPT ![w] = "execute"]
        /\ UNCHANGED <<locks, todo, held>>
     \/ /\ todo[w] # <<>>
        /\ Valid(Head(todo[w]))
        /\ pc' = [pc EXCEPT ![w] = "rollback"]
        /\ UNCHANGED <<locks, todo, held>>
     \/ /\ todo[w] # <<>>
        /\ ~Valid(Head(todo[w]))
        /\ locks' = [locks EXCEPT ![Head(todo[w])] = [by |-> op[w], ctx |-> "live"]]
        /\ held' = [held EXCEPT ![w] = @ \cup {Head(todo[w])}]
        /\ todo' = [todo EXCEPT ![w] = Tail(@)]
        /\ UNCHANGED pc
  /\ UNCHANGED <<dependencies, op, lost>>

\* op.Execute returns, with an error or without: the deferred release runs either way.
Execute(w) ==
  /\ pc[w] = "execute"
  /\ pc' = [pc EXCEPT ![w] = "release"]
  /\ UNCHANGED <<locks, dependencies, op, todo, held, lost>>

\* Mutant of ReleaseLock: LockedBy is not compared with the operation's ID.
ReleaseLockAnyOwner(w) ==
  /\ pc[w] \in {"rollback", "release"}
  /\ \E r \in held[w] : /\ held' = [held EXCEPT ![w] = @ \ {r}]
                        /\ locks' = [locks EXCEPT ![r] = NoLock]
  /\ UNCHANGED <<dependencies, pc, op, todo, lost>>

\* Mutant of ReleaseLock: the entry stays in the table, with its owner cleared.
ReleaseLockCleared(w) ==
  /\ pc[w] \in {"rollback", "release"}
  /\ \E r \in held[w] :
       /\ held' = [held EXCEPT ![w] = @ \ {r}]
       /\ locks' = IF LockedBy(r, op[w]) THEN [locks EXCEPT ![r] = [by |-> NoOp, ctx |-> "done"]]
                                        ELSE locks
  /\ UNCHANGED <<dependencies, pc, op, todo, lost>>

\* One turn of a release loop.  A lock that has left the table, or that another
\* operation has taken over, is an error the loop ignores.
ReleaseLock(w) ==
  /\ pc[w] \in {"rollback", "release"}
  /\ \E r \in held[w] :
       /\ held' = [held EXCEPT ![w] = @ \ {r}]
       /\ locks' = IF LockedBy(r, op[w]) THEN [locks EXCEPT ![r] = NoLock] ELSE locks
  /\ UNCHANGED <<dependencies, pc, op, todo, lost>>

\* The rollback's loop is over: the call returns the acquisition's error.
RolledBack(w) ==
  /\ pc[w] = "rollback" /\ held[w] = {}
  /\ Return(w)
  /\ UNCHANGED <<locks, dependencies>>

\* The deferred release is over: the operation counts as complete.
CompleteDependency(w) ==
  /\ pc[w] = "release" /\ held[w] = {}
  /\ dependencies' = dependencies \ {op[w]}
  /\ Return(w)
  /\ UNCHANGED locks

-----------------------------------------------------------------------------
(* The environment: registrations, and time *)

RegisterDependency(o) ==
  /\ o \notin dependencies
  /\ dependencies' = dependencies \cup {o}
  /\ UNCHANGED <<locks, pc, op, todo, held, lost>>

\* The deadline of the lock on r passes, or its parent context is cancelled.
Expire(r) ==
  /\ Valid(r)
  /\ locks' = [locks EXCEPT ![r].ctx = "done"]
  /\ lost' = [w \in Workers |-> IF op[w] = locks[r].by THEN lost[w] \cup {r} ELSE lost[w]]
  /\ UNCHANGED <<dependencies, pc, op, todo, held>>

\* The lock on r, whose deadline is beyond thirty minutes, grows older than that.
Age(r) ==
  /\ locks[r] # NoLock /\ locks[r].ctx = "live"
  /\ locks' = [locks EXCEPT ![r].ctx = "aged"]
  /\ UNCHANGED <<dependencies, pc, op, todo, held, lost>>

-----------------------------------------------------------------------------

Step(w) ==
  \/ CleanupStaleLocks(w)
  \/ GetResourceConflicts(w)
  \/ CheckDependencies(w)
  \/ AcquireLock(w)
  \/ Execute(w)
  \/ ReleaseLock(w)
  \/ RolledBack(w)
  \/ CompleteDependency(w)

Next ==
  \/ \E w \in Workers : Step(w)
  \/ \E w \in Workers, o \in Ops : Start(w, o)
  \/ \E o \in Ops : RegisterDependency(o)
  \/ \E r \in Resources : Expire(r) \/ Age(r)

Spec == Init /\ [][Next]_vars

-----------------------------------------------------------------------------
(* Properties *)

\* Two operations run at the same time on a resource they share only if the lock of
\* one of them expired, or was swept as too old, under it: what ExecuteCoordinated
\* gives its callers, whatever the order of conflict checks, acquisitions and releases.
NoOverlap ==
  \A v, w \in Workers :
    v # w /\ pc[v] = "execute" /\ pc[w] = "execute"
      => Needs(op[v]) \cap Needs(op[w]) \subseteq lost[v] \cup lost[w]

\* A lock in the table belongs to a call that is still running and will release it: no
\* path through ExecuteCoordinated leaves a lock behind.
NoLeakedLock ==
  \A r \in Resources : locks[r] # NoLock =>
    \E w \in Workers : Busy(w) /\ op[w] = locks[r].by /\ r \in held[w]

\* A valid lock leaves the table, or changes hands, only by the hand of the operation
\* that holds it, when it expires or when the sweep finds it too old.
OnlyHolderReleases ==
  [][\A r \in Resources :
       Valid(r) /\ locks'[r] # locks[r] =>
         \/ locks'[r] # NoLock /\ locks'[r].by = locks[r].by
         \/ locks[r].ctx = "aged"
         \/ \E w \in Workers : /\ op[w] = locks[r].by
                               /\ r \in held[w] /\ r \notin held'[w]]_vars

\* The lock table is a table of leases: stale entries, the sweep, the conflict check, locks
\* taken one by one and rolled back, and releases of a lock that somebody else has by then,
\* are nothing that the holder of a lease, or who waits for one, can tell.
leaseHolder == [r \in Resources |-> IF Valid(r) THEN locks[r].by ELSE NoOp]
atWork == {o \in Ops : \E w \in Workers : op[w] = o /\ pc[w] = "execute"}
forfeited == [o \in Ops |-> {r \in Resources : \E w \in Workers : op[w] = o /\ r \in lost[w]}]

Leases == INSTANCE LeaseTable WITH
  Clients <- Ops, Nobody <- NoOp, Wants <- [o \in Ops |-> Needs(o)],
  holder <- leaseHolder, working <- atWork

ImplementsLeases == Leases!Spec

\* What the callers expect of the node's lock (nodeeni_controller.go:553-554): operations
\* on one node are serialized.
SerializedPerResource ==
  \A v, w \in Workers :
    v # w /\ pc[v] = "execute" /\ pc[w] = "execute"
      => Needs(op[v]) \cap Needs(op[w]) = {}

=============================================================================
