------------------------ MODULE Coordination_proofs ------------------------
(***************************************************************************)
(* What the CoordinationManager guarantees for any number of workers,      *)
(* operations and resources: mutual exclusion as long as locks do not      *)
(* expire, no lock left behind, calls of bounded length, and that its lock *)
(* table behaves as a table of leases.                                     *)
(*                                                                         *)
(* The argument: a worker that holds a resource and has not lost it owns   *)
(* the valid lock on it (HoldsOrLost); while it executes it holds all it   *)
(* needs (HoldsAll); two workers never run one operation (OpsDistinct).    *)
(* So two workers that execute and share a resource cannot both own its    *)
(* lock: one of them has lost it.                                          *)
(***************************************************************************)
EXTENDS Coordination, FiniteSetTheorems, SequenceTheorems, TLAPS

\* A worker has an operation exactly while it is busy, and no other worker has it.
OpsDistinct ==
  /\ \A w \in Workers : pc[w] = Idle <=> op[w] = NoOp
  /\ \A v, w \in Workers : v # w /\ op[v] # NoOp => op[v] # op[w]

\* What a worker needs is what it holds and what it has still to lock.
HoldsAll ==
  \A w \in Workers :
    /\ pc[w] \in {Idle, "sweep", "conflicts", "dependencies"} => held[w] = {}
    /\ pc[w] = "acquire" => Needs(op[w]) \subseteq held[w] \cup Elems(todo[w])
    /\ pc[w] = "execute" => Needs(op[w]) \subseteq held[w]

\* Whoever holds a resource has the valid lock on it, or has lost it.
HoldsOrLost ==
  \A w \in Workers : \A r \in held[w] : r \notin lost[w] => Valid(r) /\ LockedBy(r, op[w])

IInv == TypeOK /\ OpsDistinct /\ HoldsAll /\ HoldsOrLost /\ NoLeakedLock

-----------------------------------------------------------------------------
(* Sequences *)

\* Nothing is in the empty sequence.
LEMMA ElemsEmpty == Elems(<<>>) = {}
  BY DEF Elems

\* The elements of a sequence are its head and those of its tail.
LEMMA ElemsHeadTail ==
  ASSUME NEW s \in Seq(Resources), s # <<>>
  PROVE  /\ Head(s) \in Resources /\ Tail(s) \in Seq(Resources)
         /\ Elems(s) \subseteq {Head(s)} \cup Elems(Tail(s))
<1>1. Head(s) \in Resources /\ Tail(s) \in Seq(Resources)
  BY HeadTailProperties
<1>2. ASSUME NEW i \in DOMAIN s
      PROVE  s[i] \in {Head(s)} \cup Elems(Tail(s))
  <2>1. CASE i = 1
    BY <2>1
  <2>2. CASE i # 1
    <3>1. i - 1 \in 1 .. Len(Tail(s)) /\ Tail(s)[i - 1] = s[i]
      BY <2>2, HeadTailProperties
    <3> QED
      BY <3>1, <1>1 DEF Elems
  <2> QED
    BY <2>1, <2>2
<1> QED
  BY <1>1, <1>2 DEF Elems

-----------------------------------------------------------------------------
(* Types *)

\* An entry of the lock table is of its type.
LEMMA LockEntry ==
  ASSUME NEW o \in Ops, NEW c \in Contexts
  PROVE  [by |-> o, ctx |-> c] \in Locks
  BY DEF Locks

\* The initial states have the types.
LEMMA TypeInit == Init => TypeOK
  BY DEF Init, TypeOK, Idle

\* A worker that ends its call keeps the types.
LEMMA TypeReturn ==
  ASSUME TypeOK, NEW w \in Workers, Return(w), UNCHANGED locks,
         dependencies' \in SUBSET Ops
  PROVE  TypeOK'
  BY DEF TypeOK, Return, Idle

\* Every step keeps the types.
LEMMA TypeNext == TypeOK /\ OpsDistinct /\ [Next]_vars => TypeOK'
<1> SUFFICES ASSUME TypeOK, OpsDistinct, [Next]_vars
             PROVE  TypeOK'
  OBVIOUS
<1> USE ConstantsAssumption
<1>1. ASSUME NEW w \in Workers, NEW o \in Ops, Start(w, o)
      PROVE  TypeOK'
  BY <1>1 DEF Start, TypeOK, Idle
<1>2. ASSUME NEW w \in Workers, CleanupStaleLocks(w)
      PROVE  TypeOK'
  <2>1. locks' \in [Resources -> Locks \cup {NoLock}]
    BY <1>2 DEF CleanupStaleLocks, TypeOK
  <2>2. \A v \in Workers : held[v] \subseteq Resources /\ lost[v] \subseteq Resources
    BY DEF TypeOK
  <2>3. lost' \in [Workers -> SUBSET Resources]
    BY <1>2, <2>2 DEF CleanupStaleLocks
  <2> QED
    BY <1>2, <2>1, <2>3 DEF CleanupStaleLocks, TypeOK, Idle
<1>3. ASSUME NEW w \in Workers, GetResourceConflicts(w)
      PROVE  TypeOK'
  <2>1. CASE Return(w)
    BY <1>3, <2>1, TypeReturn DEF GetResourceConflicts, TypeOK
  <2>2. CASE ~Return(w)
    BY <1>3, <2>2 DEF GetResourceConflicts, TypeOK, Idle
  <2> QED
    BY <2>1, <2>2
<1>4. ASSUME NEW w \in Workers, CheckDependencies(w)
      PROVE  TypeOK'
  <2>1. CASE Return(w)
    BY <1>4, <2>1, TypeReturn DEF CheckDependencies, TypeOK
  <2>2. CASE ~Return(w)
    <3>1. op[w] \in Ops /\ ResourceIDs[op[w]] \in Seq(Resources)
      BY <1>4 DEF CheckDependencies, OpsDistinct, TypeOK, Idle
    <3> QED
      BY <1>4, <2>2, <3>1 DEF CheckDependencies, TypeOK, Idle
  <2> QED
    BY <2>1, <2>2
<1>5. ASSUME NEW w \in Workers, AcquireLock(w)
      PROVE  TypeOK'
  <2>1. CASE todo[w] = <<>> \/ Valid(Head(todo[w]))
    BY <1>5, <2>1 DEF AcquireLock, TypeOK, Idle
  <2>2. CASE todo[w] # <<>> /\ ~Valid(Head(todo[w]))
    <3> DEFINE r == Head(todo[w])
    <3>1. r \in Resources /\ Tail(todo[w]) \in Seq(Resources)
      BY <2>2, ElemsHeadTail DEF TypeOK
    <3>2. op[w] \in Ops
      BY <1>5 DEF AcquireLock, OpsDistinct, TypeOK, Idle
    <3>3. [by |-> op[w], ctx |-> "live"] \in Locks
      BY <3>2, LockEntry DEF Contexts
    <3>4. /\ locks' = [locks EXCEPT ![r] = [by |-> op[w], ctx |-> "live"]]
          /\ held' = [held EXCEPT ![w] = @ \cup {r}]
          /\ todo' = [todo EXCEPT ![w] = Tail(@)]
          /\ UNCHANGED <<pc, dependencies, op, lost>>
      BY <1>5, <2>2 DEF AcquireLock
    <3> HIDE DEF r
    <3> QED
      BY <3>1, <3>3, <3>4 DEF TypeOK
  <2> QED
    BY <1>5, <2>1, <2>2 DEF AcquireLock
<1>6. ASSUME NEW w \in Workers, Execute(w)
      PROVE  TypeOK'
  BY <1>6 DEF Execute, TypeOK, Idle
<1>7. ASSUME NEW w \in Workers, ReleaseLock(w)
      PROVE  TypeOK'
  BY <1>7 DEF ReleaseLock, TypeOK, Idle
<1>8. ASSUME NEW w \in Workers, RolledBack(w)
      PROVE  TypeOK'
  BY <1>8, TypeReturn DEF RolledBack, TypeOK
<1>9. ASSUME NEW w \in Workers, CompleteDependency(w)
      PROVE  TypeOK'
  BY <1>9, TypeReturn DEF CompleteDependency, TypeOK
<1>10. ASSUME NEW o \in Ops, RegisterDependency(o)
       PROVE  TypeOK'
  BY <1>10 DEF RegisterDependency, TypeOK
<1>11. ASSUME NEW r \in Resources, Expire(r)
       PROVE  TypeOK'
  <2>1. locks[r] \in Locks
    BY <1>11 DEF Expire, Valid, TypeOK
  <2>2. [locks[r] EXCEPT !.ctx = "done"] \in Locks
    BY <2>1 DEF Locks, Contexts
  <2>3. locks' \in [Resources -> Locks \cup {NoLock}]
    BY <1>11, <2>2 DEF Expire, TypeOK
  <2>4. lost' \in [Workers -> SUBSET Resources]
    BY <1>11 DEF Expire, TypeOK
  <2> QED
    BY <1>11, <2>3, <2>4 DEF Expire, TypeOK
<1>12. ASSUME NEW r \in Resources, Age(r)
       PROVE  TypeOK'
  <2>1. locks[r] \in Locks
    BY <1>12 DEF Age, TypeOK
  <2>2. [locks[r] EXCEPT !.ctx = "aged"] \in Locks
    BY <2>1 DEF Locks, Contexts
  <2> QED
    BY <1>12, <2>2 DEF Age, TypeOK
<1>13. CASE UNCHANGED vars
  BY <1>13 DEF vars, TypeOK
<1> QED
  BY <1>1, <1>2, <1>3, <1>4, <1>5, <1>6, <1>7, <1>8, <1>9, <1>10, <1>11, <1>12, <1>13
     DEF Next, Step

-----------------------------------------------------------------------------
(* The invariant *)

\* The initial states satisfy the invariant.
LEMMA IInvInit == Init => IInv
  BY TypeInit DEF Init, IInv, OpsDistinct, HoldsAll, HoldsOrLost, NoLeakedLock, Idle, Valid

\* A call that holds nothing can return without anybody noticing.
LEMMA IInvReturn ==
  ASSUME IInv, NEW w \in Workers, held[w] = {}, pc[w] # Idle, Return(w), UNCHANGED locks, TypeOK'
  PROVE  IInv'
<1> USE DEF IInv
<1>1. OpsDistinct'
  BY DEF OpsDistinct, Return, TypeOK, Idle
<1>2. HoldsAll'
  BY DEF HoldsAll, Return, TypeOK, Idle, Needs
<1>3. HoldsOrLost'
  BY DEF HoldsOrLost, Return, TypeOK, Valid, LockedBy
<1>4. NoLeakedLock'
  BY DEF NoLeakedLock, Return, TypeOK, Busy, Idle
<1> QED
  BY <1>1, <1>2, <1>3, <1>4

\* Every step keeps the invariant.
LEMMA IInvNext == IInv /\ [Next]_vars => IInv'
<1> SUFFICES ASSUME IInv, [Next]_vars
             PROVE  IInv'
  OBVIOUS
<1> USE ConstantsAssumption DEF IInv
<1>0. TypeOK'
  BY TypeNext
<1>1. ASSUME NEW w \in Workers, NEW o \in Ops, Start(w, o)
      PROVE  IInv'
  <2>1. OpsDistinct'
    BY <1>1 DEF Start, OpsDistinct, TypeOK, Idle
  <2>2. HoldsAll'
    BY <1>1 DEF Start, HoldsAll, TypeOK, Idle, Needs
  <2>3. HoldsOrLost'
    BY <1>1 DEF Start, HoldsOrLost, HoldsAll, TypeOK, Idle, Valid, LockedBy
  <2>4. NoLeakedLock'
    BY <1>1 DEF Start, NoLeakedLock, HoldsAll, TypeOK, Idle, Busy
  <2> QED
    BY <1>0, <2>1, <2>2, <2>3, <2>4
<1>2. ASSUME NEW w \in Workers, CleanupStaleLocks(w)
      PROVE  IInv'
  <2>1. OpsDistinct'
    BY <1>2 DEF CleanupStaleLocks, OpsDistinct, TypeOK, Idle
  <2>2. HoldsAll'
    BY <1>2 DEF CleanupStaleLocks, HoldsAll, TypeOK, Idle, Needs
  <2>3. HoldsOrLost'
    <3> SUFFICES ASSUME NEW v \in Workers, NEW r \in held'[v], r \notin lost'[v]
                 PROVE  (Valid(r) /\ LockedBy(r, op[v]))'
      BY DEF HoldsOrLost
    <3>1. r \in Resources /\ r \in held[v] /\ op' = op
      BY <1>2 DEF CleanupStaleLocks, TypeOK
    <3>2. lost'[v] = lost[v] \cup {q \in held[v] : LockedBy(q, op[v]) /\ locks[q].ctx = "aged"}
      BY <1>2 DEF CleanupStaleLocks
    <3>3. Valid(r) /\ LockedBy(r, op[v]) /\ locks[r].ctx # "aged"
      BY <3>1, <3>2 DEF HoldsOrLost
    <3>4. locks[r] # NoLock /\ locks[r].ctx = "live"
      BY <3>1, <3>3 DEF Valid, TypeOK, Locks, Contexts
    <3>5. locks'[r] = locks[r]
      BY <1>2, <3>1, <3>4 DEF CleanupStaleLocks
    <3> QED
      BY <3>1, <3>3, <3>5 DEF Valid, LockedBy
  <2>4. NoLeakedLock'
    BY <1>2 DEF CleanupStaleLocks, NoLeakedLock, TypeOK, Idle, Busy
  <2> QED
    BY <1>0, <2>1, <2>2, <2>3, <2>4
<1>3. ASSUME NEW w \in Workers, GetResourceConflicts(w)
      PROVE  IInv'
  <2>1. CASE Return(w)
    BY <1>0, <1>3, <2>1, IInvReturn DEF GetResourceConflicts, HoldsAll, Idle
  <2>2. CASE ~Return(w)
    <3>1. /\ pc[w] = "conflicts" /\ pc' = [pc EXCEPT ![w] = "dependencies"]
          /\ UNCHANGED <<locks, dependencies, op, todo, held, lost>>
      BY <1>3, <2>2 DEF GetResourceConflicts
    <3>2. OpsDistinct'
      BY <3>1 DEF OpsDistinct, TypeOK, Idle
    <3>3. HoldsAll'
      BY <3>1 DEF HoldsAll, TypeOK, Idle, Needs
    <3>4. HoldsOrLost' /\ NoLeakedLock'
      BY <3>1 DEF HoldsOrLost, Valid, LockedBy, NoLeakedLock, TypeOK, Idle, Busy
    <3> QED
      BY <1>0, <3>2, <3>3, <3>4
  <2> QED
    BY <2>1, <2>2
<1>4. ASSUME NEW w \in Workers, CheckDependencies(w)
      PROVE  IInv'
  <2>1. CASE Return(w)
    BY <1>0, <1>4, <2>1, IInvReturn DEF CheckDependencies, HoldsAll, Idle
  <2>2. CASE ~Return(w)
    <3>1. /\ pc[w] = "dependencies" /\ pc' = [pc EXCEPT ![w] = "acquire"]
          /\ todo' = [todo EXCEPT ![w] = ResourceIDs[op[w]]]
          /\ UNCHANGED <<locks, dependencies, op, held, lost>>
      BY <1>4, <2>2 DEF CheckDependencies
    <3>2. OpsDistinct'
      BY <3>1 DEF OpsDistinct, TypeOK, Idle
    <3>3. HoldsAll'
      BY <3>1 DEF HoldsAll, TypeOK, Idle, Needs
    <3>4. HoldsOrLost' /\ NoLeakedLock'
      BY <3>1 DEF HoldsOrLost, Valid, LockedBy, NoLeakedLock, TypeOK, Idle, Busy
    <3> QED
      BY <1>0, <3>2, <3>3, <3>4
  <2> QED
    BY <2>1, <2>2
<1>5. ASSUME NEW w \in Workers, AcquireLock(w)
      PROVE  IInv'
  <2>1. CASE todo[w] = <<>>
    <3>1. /\ pc[w] = "acquire" /\ pc' = [pc EXCEPT ![w] = "execute"]
          /\ UNCHANGED <<locks, dependencies, op, todo, held, lost>>
      BY <1>5, <2>1 DEF AcquireLock
    <3>2. OpsDistinct'
      BY <3>1 DEF OpsDistinct, TypeOK, Idle
    <3>3. HoldsAll'
      BY <2>1, <3>1, ElemsEmpty DEF HoldsAll, TypeOK, Idle, Needs
    <3>4. HoldsOrLost' /\ NoLeakedLock'
      BY <3>1 DEF HoldsOrLost, Valid, LockedBy, NoLeakedLock, TypeOK, Idle, Busy
    <3> QED
      BY <1>0, <3>2, <3>3, <3>4
  <2>2. CASE todo[w] # <<>> /\ Valid(Head(todo[w]))
    <3>1. /\ pc[w] = "acquire" /\ pc' = [pc EXCEPT ![w] = "rollback"]
          /\ UNCHANGED <<locks, dependencies, op, todo, held, lost>>
      BY <1>5, <2>2 DEF AcquireLock
    <3>2. OpsDistinct'
      BY <3>1 DEF OpsDistinct, TypeOK, Idle
    <3>3. HoldsAll'
      BY <3>1 DEF HoldsAll, TypeOK, Idle, Needs
    <3>4. HoldsOrLost' /\ NoLeakedLock'
      BY <3>1 DEF HoldsOrLost, Valid, LockedBy, NoLeakedLock, TypeOK, Idle, Busy
    <3> QED
      BY <1>0, <3>2, <3>3, <3>4
  <2>3. CASE todo[w] # <<>> /\ ~Valid(Head(todo[w]))
    <3> DEFINE q == Head(todo[w])
               lock == [by |-> op[w], ctx |-> "live"]
    <3>1. q \in Resources /\ Elems(todo[w]) \subseteq {q} \cup Elems(Tail(todo[w]))
      BY <2>3, ElemsHeadTail DEF TypeOK
    <3>2. /\ pc[w] = "acquire" /\ ~Valid(q)
          /\ locks' = [locks EXCEPT ![q] = lock]
          /\ held' = [held EXCEPT ![w] = @ \cup {q}]
          /\ todo' = [todo EXCEPT ![w] = Tail(@)]
          /\ UNCHANGED <<pc, dependencies, op, lost>>
      BY <1>5, <2>3 DEF AcquireLock
    <3>3. lock.by = op[w] /\ lock.ctx = "live" /\ lock # NoLock
      <4>1. op[w] \in Ops
        BY <3>2 DEF OpsDistinct, TypeOK, Idle
      <4> QED
        BY <4>1, LockEntry, NoLockAssumption DEF Contexts
    <3> HIDE DEF q, lock
    <3>4. OpsDistinct'
      BY <3>2 DEF OpsDistinct
    <3>5. HoldsAll'
      BY <3>1, <3>2 DEF HoldsAll, TypeOK, Idle, Needs
    <3>6. HoldsOrLost'
      <4> SUFFICES ASSUME NEW v \in Workers, NEW r \in held'[v], r \notin lost'[v]
                   PROVE  (Valid(r) /\ LockedBy(r, op[v]))'
        BY DEF HoldsOrLost
      <4>1. CASE r = q /\ v = w
        BY <3>1, <3>2, <3>3, <4>1 DEF Valid, LockedBy, TypeOK
      <4>2. CASE ~(r = q /\ v = w)
        <5>1. r \in held[v] /\ r \notin lost[v] /\ r \in Resources
          BY <3>2, <4>2, <1>0 DEF TypeOK
        <5>2. Valid(r) /\ LockedBy(r, op[v])
          BY <5>1 DEF HoldsOrLost
        <5> QED
          BY <3>2, <5>1, <5>2 DEF Valid, LockedBy, TypeOK
      <4> QED
        BY <4>1, <4>2
    <3>7. NoLeakedLock'
      <4> SUFFICES ASSUME NEW r \in Resources, locks'[r] # NoLock
                   PROVE  \E v \in Workers : Busy(v)' /\ op'[v] = locks'[r].by /\ r \in held'[v]
        BY DEF NoLeakedLock
      <4>1. CASE r = q
        BY <3>1, <3>2, <3>3, <4>1 DEF TypeOK, Busy, Idle
      <4>2. CASE r # q
        BY <3>1, <3>2, <4>2 DEF NoLeakedLock, TypeOK, Busy
      <4> QED
        BY <4>1, <4>2
    <3> QED
      BY <1>0, <3>4, <3>5, <3>6, <3>7
  <2> QED
    BY <1>5, <2>1, <2>2, <2>3 DEF AcquireLock
<1>6. ASSUME NEW w \in Workers, Execute(w)
      PROVE  IInv'
  <2>1. OpsDistinct'
    BY <1>6 DEF Execute, OpsDistinct, TypeOK, Idle
  <2>2. HoldsAll'
    BY <1>6 DEF Execute, HoldsAll, TypeOK, Idle, Needs
  <2>3. HoldsOrLost' /\ NoLeakedLock'
    BY <1>6 DEF Execute, HoldsOrLost, Valid, LockedBy, NoLeakedLock, TypeOK, Idle, Busy
  <2> QED
    BY <1>0, <2>1, <2>2, <2>3
<1>7. ASSUME NEW w \in Workers, ReleaseLock(w)
      PROVE  IInv'
  <2>1. PICK q \in held[w] :
          /\ held' = [held EXCEPT ![w] = @ \ {q}]
          /\ locks' = IF LockedBy(q, op[w]) THEN [locks EXCEPT ![q] = NoLock] ELSE locks
    BY <1>7 DEF ReleaseLock
  <2>2. /\ pc[w] \in {"rollback", "release"} /\ UNCHANGED <<pc, dependencies, op, todo, lost>>
        /\ q \in Resources
    BY <1>7 DEF ReleaseLock, TypeOK
  <2>3. OpsDistinct'
    BY <2>2 DEF OpsDistinct
  <2>4. HoldsAll'
    BY <2>1, <2>2 DEF HoldsAll, TypeOK, Idle, Needs
  <2>5. HoldsOrLost'
    <3> SUFFICES ASSUME NEW v \in Workers, NEW r \in held'[v], r \notin lost'[v]
                 PROVE  (Valid(r) /\ LockedBy(r, op[v]))'
      BY DEF HoldsOrLost
    <3>1. r \in held[v] /\ r \notin lost[v] /\ r \in Resources /\ (r = q => v # w)
      BY <2>1, <2>2, <1>0 DEF TypeOK
    <3>2. Valid(r) /\ LockedBy(r, op[v])
      BY <3>1 DEF HoldsOrLost
    <3>3. op[w] # NoOp
      BY <2>2 DEF OpsDistinct, Idle
    <3>4. r = q => ~LockedBy(q, op[w])
      BY <3>1, <3>2, <3>3 DEF LockedBy, OpsDistinct
    <3>5. locks'[r] = locks[r]
      BY <2>1, <2>2, <3>1, <3>4 DEF TypeOK
    <3> QED
      BY <2>2, <3>2, <3>5 DEF Valid, LockedBy
  <2>6. NoLeakedLock'
    <3> SUFFICES ASSUME NEW r \in Resources, locks'[r] # NoLock
                 PROVE  \E v \in Workers : Busy(v)' /\ op'[v] = locks'[r].by /\ r \in held'[v]
      BY DEF NoLeakedLock
    <3>1. locks'[r] = locks[r] /\ (r = q => ~LockedBy(q, op[w]))
      BY <2>1, <2>2 DEF TypeOK
    <3>2. PICK v \in Workers : Busy(v) /\ op[v] = locks[r].by /\ r \in held[v]
      BY <3>1 DEF NoLeakedLock
    <3>3. r = q => v # w
      BY <3>1, <3>2 DEF LockedBy
    <3> QED
      BY <2>1, <2>2, <3>1, <3>2, <3>3 DEF TypeOK, Busy
  <2> QED
    BY <1>0, <2>3, <2>4, <2>5, <2>6
<1>8. ASSUME NEW w \in Workers, RolledBack(w)
      PROVE  IInv'
  BY <1>0, <1>8, IInvReturn DEF RolledBack, Idle
<1>9. ASSUME NEW w \in Workers, CompleteDependency(w)
      PROVE  IInv'
  BY <1>0, <1>9, IInvReturn DEF CompleteDependency, Idle
<1>10. ASSUME NEW o \in Ops, RegisterDependency(o)
       PROVE  IInv'
  BY <1>0, <1>10 DEF RegisterDependency, OpsDistinct, HoldsAll, HoldsOrLost, NoLeakedLock,
     Needs, Valid, LockedBy, Busy
<1>11. ASSUME NEW q \in Resources, Expire(q)
       PROVE  IInv'
  <2>1. /\ Valid(q) /\ UNCHANGED <<dependencies, pc, op, todo, held>>
        /\ locks' = [locks EXCEPT ![q].ctx = "done"]
        /\ lost' = [v \in Workers |->
                      IF op[v] = locks[q].by THEN lost[v] \cup {q} ELSE lost[v]]
    BY <1>11 DEF Expire
  <2>2. /\ locks[q] \in Locks /\ locks'[q] \in Locks /\ locks'[q].by = locks[q].by
        /\ locks'[q] # NoLock
    <3>1. locks[q] \in Locks
      BY <2>1 DEF Valid, TypeOK
    <3>2. locks'[q] = [locks[q] EXCEPT !.ctx = "done"]
      BY <2>1 DEF TypeOK
    <3> QED
      BY <3>1, <3>2, NoLockAssumption DEF Locks, Contexts
  <2>3. \A r \in Resources : r # q => locks'[r] = locks[r]
    BY <2>1 DEF TypeOK
  <2>4. OpsDistinct' /\ HoldsAll'
    BY <2>1 DEF OpsDistinct, HoldsAll, Needs
  <2>5. HoldsOrLost'
    <3> SUFFICES ASSUME NEW v \in Workers, NEW r \in held'[v], r \notin lost'[v]
                 PROVE  (Valid(r) /\ LockedBy(r, op[v]))'
      BY DEF HoldsOrLost
    <3>1. r \in held[v] /\ r \notin lost[v] /\ r \in Resources /\ op' = op
          /\ (r = q => op[v] # locks[q].by)
      BY <2>1 DEF TypeOK
    <3>2. Valid(r) /\ LockedBy(r, op[v])
      BY <3>1 DEF HoldsOrLost
    <3>3. r # q
      BY <3>1, <3>2 DEF LockedBy
    <3> QED
      BY <2>3, <3>1, <3>2, <3>3 DEF Valid, LockedBy
  <2>6. NoLeakedLock'
    BY <2>1, <2>2, <2>3, NoLockAssumption DEF NoLeakedLock, Busy, Valid
  <2> QED
    BY <1>0, <2>4, <2>5, <2>6
<1>12. ASSUME NEW q \in Resources, Age(q)
       PROVE  IInv'
  <2>1. /\ locks[q] # NoLock /\ locks[q].ctx = "live"
        /\ UNCHANGED <<dependencies, pc, op, todo, held, lost>>
        /\ locks' = [locks EXCEPT ![q].ctx = "aged"]
    BY <1>12 DEF Age
  <2>2. /\ locks'[q] # NoLock /\ locks'[q].by = locks[q].by /\ locks'[q].ctx = "aged"
    <3>1. locks[q] \in Locks
      BY <2>1 DEF TypeOK
    <3>2. locks'[q] = [locks[q] EXCEPT !.ctx = "aged"]
      BY <2>1 DEF TypeOK
    <3> QED
      BY <3>1, <3>2, NoLockAssumption DEF Locks, Contexts
  <2>3. \A r \in Resources : r # q => locks'[r] = locks[r]
    BY <2>1 DEF TypeOK
  <2>4. OpsDistinct' /\ HoldsAll'
    BY <2>1 DEF OpsDistinct, HoldsAll, Needs
  <2>5. HoldsOrLost'
    <3> SUFFICES ASSUME NEW v \in Workers, NEW r \in held'[v], r \notin lost'[v]
                 PROVE  (Valid(r) /\ LockedBy(r, op[v]))'
      BY DEF HoldsOrLost
    <3>1. r \in held[v] /\ r \notin lost[v] /\ r \in Resources /\ op' = op
      BY <2>1 DEF TypeOK
    <3>2. Valid(r) /\ LockedBy(r, op[v])
      BY <3>1 DEF HoldsOrLost
    <3> QED
      BY <2>2, <2>3, <3>1, <3>2 DEF Valid, LockedBy
  <2>6. NoLeakedLock'
    BY <2>1, <2>2, <2>3 DEF NoLeakedLock, Busy
  <2> QED
    BY <1>0, <2>4, <2>5, <2>6
<1>13. CASE UNCHANGED vars
  BY <1>0, <1>13 DEF vars, OpsDistinct, HoldsAll, HoldsOrLost, NoLeakedLock, Needs, Valid,
     LockedBy, Busy
<1> QED
  BY <1>1, <1>2, <1>3, <1>4, <1>5, <1>6, <1>7, <1>8, <1>9, <1>10, <1>11, <1>12, <1>13
     DEF Next, Step

-----------------------------------------------------------------------------
(* Theorems *)

\* The strengthened invariant: what the locks, the local lists and the progress of the calls
\* in ExecuteCoordinated have to do with each other.
THEOREM Invariance == Spec => []IInv
  BY IInvInit, IInvNext, PTL DEF Spec

\* The lock table and the state of every call keep their types.
THEOREM TypeCorrectness == Spec => []TypeOK
  BY Invariance, PTL DEF IInv

\* Owning the lock on what it needs, a worker that executes shares nothing with another.
LEMMA InvNoOverlap == IInv => NoOverlap
<1> SUFFICES ASSUME IInv, NEW v \in Workers, NEW w \in Workers, v # w,
                    pc[v] = "execute", pc[w] = "execute",
                    NEW r \in Needs(op[v]) \cap Needs(op[w]), r \notin lost[v] \cup lost[w]
             PROVE  FALSE
  BY DEF NoOverlap
<1> USE DEF IInv
<1>1. r \in held[v] /\ r \in held[w]
  BY DEF HoldsAll
<1>2. LockedBy(r, op[v]) /\ LockedBy(r, op[w])
  BY <1>1 DEF HoldsOrLost
<1>3. op[v] = op[w]
  BY <1>2 DEF LockedBy
<1>4. op[v] # NoOp
  BY DEF OpsDistinct, Idle
<1> QED
  BY <1>3, <1>4 DEF OpsDistinct

\* Mutual exclusion of ExecuteCoordinated: two operations run at once on a resource they
\* share only if one of them has lost its lock on it to the deadline or to the sweep.
THEOREM MutualExclusion == Spec => []NoOverlap
  BY Invariance, InvNoOverlap, PTL

\* No path through ExecuteCoordinated, failed acquisitions included, leaves a lock behind
\* that its operation will not release.
THEOREM LocksAreReleased == Spec => []NoLeakedLock
  BY Invariance, PTL DEF IInv

\* A step takes a lock away only from the operation that ends, or one that has expired.
LEMMA StepOnlyHolderReleases ==
  ASSUME IInv, [Next]_vars, NEW r \in Resources, Valid(r), locks'[r] # locks[r]
  PROVE  \/ locks'[r] # NoLock /\ locks'[r].by = locks[r].by
         \/ locks[r].ctx = "aged"
         \/ \E w \in Workers : op[w] = locks[r].by /\ r \in held[w] /\ r \notin held'[w]
<1> USE DEF IInv
<1>1. locks[r] \in Locks
  BY DEF Valid, TypeOK
<1>2. ASSUME NEW w \in Workers, CleanupStaleLocks(w)
      PROVE  locks[r].ctx = "aged"
  BY <1>1, <1>2 DEF CleanupStaleLocks, Valid, Locks, Contexts
<1>3. ASSUME NEW w \in Workers, AcquireLock(w)
      PROVE  FALSE
  BY <1>3 DEF AcquireLock, TypeOK
<1>4. ASSUME NEW w \in Workers, ReleaseLock(w)
      PROVE  op[w] = locks[r].by /\ r \in held[w] /\ r \notin held'[w]
  BY <1>4 DEF ReleaseLock, LockedBy, TypeOK
<1>5. ASSUME NEW q \in Resources, Expire(q)
      PROVE  locks'[r] # NoLock /\ locks'[r].by = locks[r].by
  <2>1. locks'[r] = [locks[r] EXCEPT !.ctx = "done"]
    BY <1>5 DEF Expire, TypeOK
  <2> QED
    BY <1>1, <2>1, NoLockAssumption DEF Locks, Contexts
<1>6. ASSUME NEW q \in Resources, Age(q)
      PROVE  locks'[r] # NoLock /\ locks'[r].by = locks[r].by
  <2>1. locks'[r] = [locks[r] EXCEPT !.ctx = "aged"]
    BY <1>6 DEF Age, TypeOK
  <2> QED
    BY <1>1, <2>1, NoLockAssumption DEF Locks, Contexts
<1>7. CASE UNCHANGED locks
  BY <1>7
<1> QED
  BY <1>2, <1>3, <1>4, <1>5, <1>6, <1>7
     DEF Next, Step, vars, Start, GetResourceConflicts, CheckDependencies, Execute, RolledBack,
         CompleteDependency, RegisterDependency

\* A valid lock is only ever given up by the operation that holds it, or for its age.
THEOREM HoldersRelease == Spec => OnlyHolderReleases
<1>1. IInv /\ [Next]_vars =>
        [\A r \in Resources :
           Valid(r) /\ locks'[r] # locks[r] =>
             \/ locks'[r] # NoLock /\ locks'[r].by = locks[r].by
             \/ locks[r].ctx = "aged"
             \/ \E w \in Workers : /\ op[w] = locks[r].by
                                   /\ r \in held[w] /\ r \notin held'[w]]_vars
  BY StepOnlyHolderReleases
<1> QED
  BY <1>1, Invariance, PTL DEF Spec, OnlyHolderReleases

-----------------------------------------------------------------------------
(* The end of a call *)

\* What a call has left to do: the sections it has still to pass, two turns of a loop for
\* each lock it has still to take, one for each lock it has.
Left(w) ==
  CASE pc[w] = Idle -> 0
    [] pc[w] \in {"rollback", "release"} -> 1 + Cardinality(held[w])
    [] pc[w] = "execute" -> 2 + Cardinality(held[w])
    [] pc[w] = "acquire" -> 3 + Cardinality(held[w]) + 2 * Len(todo[w])
    [] pc[w] = "dependencies" -> 4 + 2 * Len(ResourceIDs[op[w]])
    [] pc[w] = "conflicts" -> 5 + 2 * Len(ResourceIDs[op[w]])
    [] pc[w] = "sweep" -> 6 + 2 * Len(ResourceIDs[op[w]])

\* A call has finitely many locks.
HeldFinite == \A w \in Workers : IsFiniteSet(held[w])

\* Initially nobody has a lock.
LEMMA HeldFiniteInit == Init => HeldFinite
  BY FS_EmptySet DEF Init, HeldFinite

\* A step takes, or gives up, one lock at most, or ends the call.
LEMMA HeldFiniteNext == IInv /\ HeldFinite /\ [Next]_vars => HeldFinite'
<1> SUFFICES ASSUME IInv, HeldFinite, [Next]_vars, NEW w \in Workers
             PROVE  IsFiniteSet(held'[w])
  BY DEF HeldFinite
<1>1. held' = held \/ \E v \in Workers : Return(v) \/ AcquireLock(v) \/ ReleaseLock(v)
  BY DEF Next, Step, vars, Start, CleanupStaleLocks, GetResourceConflicts, CheckDependencies,
         Execute, RolledBack, CompleteDependency, RegisterDependency, Expire, Age
<1>2. \/ held'[w] = held[w] \/ held'[w] = {}
      \/ \E q : held'[w] = held[w] \cup {q} \/ held'[w] = held[w] \ {q}
  <2>1. ASSUME NEW v \in Workers, Return(v)
        PROVE  held'[w] \in {held[w], {}}
    BY <2>1 DEF Return, IInv, TypeOK
  <2>2. ASSUME NEW v \in Workers, AcquireLock(v)
        PROVE  held'[w] \in {held[w], held[w] \cup {Head(todo[v])}}
    BY <2>2 DEF AcquireLock, IInv, TypeOK
  <2>3. ASSUME NEW v \in Workers, ReleaseLock(v)
        PROVE  \E q : held'[w] \in {held[w], held[w] \ {q}}
    BY <2>3 DEF ReleaseLock, IInv, TypeOK
  <2> QED  BY <1>1, <2>1, <2>2, <2>3
<1>3. IsFiniteSet(held[w])
  BY DEF HeldFinite
<1>4. IsFiniteSet({}) /\ \A q : IsFiniteSet(held[w] \cup {q}) /\ IsFiniteSet(held[w] \ {q})
  BY <1>3, FS_EmptySet, FS_AddElement, FS_RemoveElement
<1> QED  BY <1>2, <1>3, <1>4

\* A worker's own step brings its call nearer to the end.
LEMMA StepDecreases ==
  ASSUME IInv, HeldFinite, HeldFinite', IInv', NEW w \in Workers, Step(w)
  PROVE  Left(w) \in Nat /\ Left(w)' \in Nat /\ Left(w)' < Left(w)
<1> USE ConstantsAssumption DEF IInv
<1>1. Cardinality(held[w]) \in Nat /\ Cardinality(held'[w]) \in Nat
  BY FS_CardinalityType DEF HeldFinite
<1>2. Len(todo[w]) \in Nat
  BY DEF TypeOK
<1>3. pc[w] # Idle => op[w] \in Ops /\ Len(ResourceIDs[op[w]]) \in Nat
  BY DEF OpsDistinct, TypeOK
<1>4. ASSUME Return(w), pc[w] # Idle
      PROVE  Left(w) \in Nat /\ Left(w)' \in Nat /\ Left(w)' < Left(w)
  <2>1. Left(w)' = 0
    BY <1>4 DEF Return, TypeOK, Left, Idle
  <2>2. Left(w) \in Nat /\ Left(w) > 0
    <3>1. CASE pc[w] \in {"rollback", "release"}
      BY <1>1, <3>1 DEF Left, Idle
    <3>2. CASE pc[w] = "execute"
      BY <1>1, <3>2 DEF Left, Idle
    <3>3. CASE pc[w] = "acquire"
      BY <1>1, <1>2, <3>3 DEF Left, Idle
    <3>4. CASE pc[w] = "dependencies"
      BY <1>3, <3>4 DEF Left, Idle
    <3>5. CASE pc[w] = "conflicts"
      BY <1>3, <3>5 DEF Left, Idle
    <3>6. CASE pc[w] = "sweep"
      BY <1>3, <3>6 DEF Left, Idle
    <3> QED  BY <1>4, <3>1, <3>2, <3>3, <3>4, <3>5, <3>6 DEF TypeOK
  <2> QED  BY <2>1, <2>2
<1>5. CASE CleanupStaleLocks(w)
  BY <1>3, <1>5 DEF CleanupStaleLocks, TypeOK, Left, Idle
<1>6. CASE GetResourceConflicts(w)
  <2>1. CASE pc' = [pc EXCEPT ![w] = "dependencies"] /\ op' = op
    BY <1>3, <1>6, <2>1 DEF GetResourceConflicts, TypeOK, Left, Idle
  <2> QED  BY <1>4, <1>6, <2>1 DEF GetResourceConflicts, Idle
<1>7. CASE CheckDependencies(w)
  <2>1. CASE ~Return(w)
    <3>1. /\ pc[w] = "dependencies" /\ pc'[w] = "acquire" /\ held'[w] = {}
          /\ todo'[w] = ResourceIDs[op[w]]
      BY <1>7, <2>1 DEF CheckDependencies, TypeOK, HoldsAll
    <3> QED  BY <1>3, <3>1, FS_EmptySet DEF Left, Idle
  <2> QED  BY <1>4, <1>7, <2>1 DEF CheckDependencies, Idle
<1>8. CASE AcquireLock(w)
  <2>1. CASE todo[w] = <<>> \/ Valid(Head(todo[w]))
    <3>1. pc[w] = "acquire" /\ pc'[w] \in {"execute", "rollback"} /\ held'[w] = held[w]
      BY <1>8, <2>1 DEF AcquireLock, TypeOK
    <3> QED  BY <1>1, <1>2, <3>1 DEF Left, Idle
  <2>2. CASE ~(todo[w] = <<>> \/ Valid(Head(todo[w])))
    <3> DEFINE q == Head(todo[w])
    <3>1. /\ pc[w] = "acquire" /\ pc'[w] = "acquire" /\ held'[w] = held[w] \cup {q}
          /\ todo'[w] = Tail(todo[w])
      BY <1>8, <2>2 DEF AcquireLock, TypeOK
    <3>2. Len(todo'[w]) = Len(todo[w]) - 1 /\ Len(todo[w]) > 0
      <4>1. todo[w] \in Seq(Resources)
        BY DEF TypeOK
      <4> QED  BY <2>2, <3>1, <4>1
    <3> HIDE DEF q
    <3>3. IsFiniteSet(held[w])
      BY DEF HeldFinite
    <3>4. Cardinality(held[w] \cup {q}) \in {Cardinality(held[w]), Cardinality(held[w]) + 1}
      BY <3>3, FS_AddElement
    <3>5. /\ Left(w) = 3 + Cardinality(held[w]) + 2 * Len(todo[w])
          /\ Left(w)' = 3 + Cardinality(held'[w]) + 2 * Len(todo'[w])
      BY <3>1 DEF Left, Idle
    <3>6. Cardinality(held'[w]) <= Cardinality(held[w]) + 1
      BY <1>1, <3>1, <3>4
    <3>7. Len(todo'[w]) \in Nat
      BY <1>2, <3>2
    <3> QED
      <4>1. \A c, d, m, n \in Nat : d <= c + 1 /\ n = m - 1 =>
              /\ 3 + c + 2 * m \in Nat /\ 3 + d + 2 * n \in Nat
              /\ 3 + d + 2 * n < 3 + c + 2 * m
        OBVIOUS
      <4>2. /\ 3 + Cardinality(held[w]) + 2 * Len(todo[w]) \in Nat
            /\ 3 + Cardinality(held'[w]) + 2 * Len(todo'[w]) \in Nat
            /\ 3 + Cardinality(held'[w]) + 2 * Len(todo'[w])
                 < 3 + Cardinality(held[w]) + 2 * Len(todo[w])
        BY <1>1, <1>2, <3>2, <3>6, <3>7, <4>1, Zenon
      <4> QED  BY <3>5, <4>2, Zenon
  <2> QED  BY <2>1, <2>2
<1>9. CASE Execute(w)
  <2>1. pc[w] = "execute" /\ pc'[w] = "release" /\ held'[w] = held[w]
    BY <1>9 DEF Execute, TypeOK
  <2> QED  BY <1>1, <2>1 DEF Left, Idle
<1>10. CASE ReleaseLock(w)
  <2>1. PICK q \in held[w] : held'[w] = held[w] \ {q}
    BY <1>10 DEF ReleaseLock, TypeOK
  <2>2. pc[w] \in {"rollback", "release"} /\ pc' = pc
    BY <1>10 DEF ReleaseLock
  <2>3. IsFiniteSet(held[w])
    BY DEF HeldFinite
  <2>4. Cardinality(held'[w]) = Cardinality(held[w]) - 1
    BY <2>1, <2>3, FS_RemoveElement
  <2> QED  BY <1>1, <2>2, <2>4 DEF Left, Idle
<1>11. CASE RolledBack(w) \/ CompleteDependency(w)
  BY <1>4, <1>11 DEF RolledBack, CompleteDependency, Idle
<1> QED  BY <1>5, <1>6, <1>7, <1>8, <1>9, <1>10, <1>11 DEF Step

\* Nobody else's step makes the call longer.
LEMMA OthersLeave ==
  ASSUME IInv, [Next]_vars, NEW w \in Workers, Busy(w), ~Step(w)
  PROVE  Left(w)' = Left(w)
<1>1. \/ UNCHANGED <<pc, op, todo, held>>
      \/ \E v \in Workers, o \in Ops : Start(v, o)
      \/ \E v \in Workers : Step(v)
  BY DEF Next, vars, RegisterDependency, Expire, Age
<1>2. pc'[w] = pc[w] /\ op'[w] = op[w] /\ todo'[w] = todo[w] /\ held'[w] = held[w]
  <2>1. ASSUME NEW v \in Workers, v # w, Step(v)
        PROVE  /\ pc'[w] = pc[w] /\ op'[w] = op[w] /\ todo'[w] = todo[w]
               /\ held'[w] = held[w]
    BY <2>1 DEF IInv, TypeOK, Step, CleanupStaleLocks, GetResourceConflicts, CheckDependencies,
         AcquireLock, Execute, ReleaseLock, RolledBack, CompleteDependency, Return
  <2>2. ASSUME NEW v \in Workers, NEW o \in Ops, Start(v, o)
        PROVE  /\ pc'[w] = pc[w] /\ op'[w] = op[w] /\ todo'[w] = todo[w]
               /\ held'[w] = held[w]
    BY <2>2 DEF IInv, TypeOK, Start, Busy
  <2> QED  BY <1>1, <2>1, <2>2
<1> QED  BY <1>2 DEF Left

\* Every call of ExecuteCoordinated returns after a number of its own steps that is known
\* when it begins, whatever the other calls, registrations and deadlines do: its loops end,
\* and no step makes it wait.
THEOREM CallsAreBounded ==
  Spec => [][\A w \in Workers :
               /\ Step(w) => Left(w) \in Nat /\ Left(w)' \in Nat /\ Left(w)' < Left(w)
               /\ Busy(w) /\ ~Step(w) => Left(w)' = Left(w)]_vars
<1>1. IInv /\ IInv' /\ HeldFinite /\ HeldFinite' /\ [Next]_vars =>
        [\A w \in Workers :
           /\ Step(w) => Left(w) \in Nat /\ Left(w)' \in Nat /\ Left(w)' < Left(w)
           /\ Busy(w) /\ ~Step(w) => Left(w)' = Left(w)]_vars
  BY StepDecreases, OthersLeave
<1> QED
  BY <1>1, HeldFiniteInit, HeldFiniteNext, Invariance, PTL DEF Spec

-----------------------------------------------------------------------------
(* The lease table *)

\* A call begins with nothing lost: what the history says is of the call under way.
NothingLostBefore == \A w \in Workers : pc[w] = Idle => lost[w] = {}

\* What a call has lost is forgotten when it returns, and only who has a lock loses it.
LEMMA NothingLostBeforeNext == IInv /\ NothingLostBefore /\ [Next]_vars => NothingLostBefore'
<1> SUFFICES ASSUME IInv, NothingLostBefore, [Next]_vars
             PROVE  NothingLostBefore'
  OBVIOUS
<1> USE DEF IInv
<1>1. ASSUME NEW w \in Workers, CleanupStaleLocks(w)
      PROVE  NothingLostBefore'
  BY <1>1 DEF CleanupStaleLocks, NothingLostBefore, HoldsAll, TypeOK, Idle
<1>2. ASSUME NEW r \in Resources, Expire(r)
      PROVE  NothingLostBefore'
  <2>1. locks[r].by \in Ops
    BY <1>2 DEF Expire, Valid, TypeOK, Locks
  <2>2. \A w \in Workers : pc[w] = Idle => op[w] # locks[r].by
    BY <2>1, ConstantsAssumption DEF OpsDistinct
  <2> QED  BY <1>2, <2>2 DEF Expire, NothingLostBefore, TypeOK
<1>3. ASSUME NEW w \in Workers, Return(w)
      PROVE  NothingLostBefore'
  BY <1>3 DEF Return, NothingLostBefore, TypeOK
<1>4. ASSUME NEW w \in Workers, UNCHANGED lost, pc'[w] # Idle,
             \A v \in Workers : v # w => pc'[v] = pc[v]
      PROVE  NothingLostBefore'
  BY <1>4 DEF NothingLostBefore
<1>5. CASE UNCHANGED <<pc, lost>>
  BY <1>5 DEF NothingLostBefore
<1>6. ASSUME NEW w \in Workers,
             \/ \E o \in Ops : Start(w, o)
             \/ GetResourceConflicts(w) /\ ~Return(w)
             \/ CheckDependencies(w) /\ ~Return(w)
             \/ AcquireLock(w) /\ pc' # pc
             \/ Execute(w)
      PROVE  NothingLostBefore'
  <2>1. UNCHANGED lost /\ \E to \in {"sweep", "dependencies", "acquire", "execute", "rollback",
                                     "release"} : pc' = [pc EXCEPT ![w] = to]
    BY <1>6 DEF Start, GetResourceConflicts, CheckDependencies, AcquireLock, Execute
  <2>2. pc'[w] # Idle /\ \A v \in Workers : v # w => pc'[v] = pc[v]
    BY <2>1 DEF TypeOK, Idle
  <2> QED  BY <1>4, <2>1, <2>2
<1>7. ASSUME NEW w \in Workers,
             (AcquireLock(w) /\ pc' = pc) \/ ReleaseLock(w)
      PROVE  NothingLostBefore'
  BY <1>5, <1>7 DEF AcquireLock, ReleaseLock
<1>8. ASSUME NEW w \in Workers, RolledBack(w) \/ CompleteDependency(w)
      PROVE  NothingLostBefore'
  BY <1>3, <1>8 DEF RolledBack, CompleteDependency
<1> QED
  BY <1>1, <1>2, <1>3, <1>5, <1>6, <1>7, <1>8
  DEF Next, Step, vars, RegisterDependency, Age

\* Nobody can tell a step that leaves locks, losses and who executes alone.
LEMMA Unnoticed ==
  ASSUME UNCHANGED <<locks, op, lost>>,
         \A w \in Workers : pc'[w] = "execute" <=> pc[w] = "execute"
  PROVE  UNCHANGED Leases!vars
<1>1. leaseHolder' = leaseHolder
  BY DEF leaseHolder, Valid
<1>2. atWork' = atWork
  BY DEF atWork
<1>3. forfeited' = forfeited
  BY DEF forfeited
<1> QED  BY <1>1, <1>2, <1>3 DEF Leases!vars

\* The holder of a valid lock is at it.
LEMMA HolderAtIt ==
  ASSUME IInv, NEW r \in Resources, locks[r] # NoLock
  PROVE  /\ locks[r].by \in Ops
         /\ \E w \in Workers : op[w] = locks[r].by /\ r \in held[w]
         /\ \A w \in Workers : op[w] = locks[r].by => r \in held[w]
<1>1. locks[r].by \in Ops
  BY DEF IInv, TypeOK, Locks
<1>2. PICK v \in Workers : op[v] = locks[r].by /\ r \in held[v]
  BY DEF IInv, NoLeakedLock
<1> QED  BY <1>1, <1>2, ConstantsAssumption DEF IInv, OpsDistinct

\* A call that holds nothing, and does not execute, leaves.
LEMMA ReturnLeaves ==
  ASSUME IInv, NEW w \in Workers, pc[w] # Idle, pc[w] # "execute", held[w] = {}, Return(w),
         UNCHANGED locks
  PROVE  Leases!Leave(op[w])
<1> USE DEF IInv
<1>1. op[w] \in Ops /\ \A v \in Workers : v # w => op[v] # op[w]
  BY DEF OpsDistinct, TypeOK
<1>2. op[w] \notin atWork
  BY <1>1 DEF atWork
<1>3. \A r \in Resources : leaseHolder[r] # op[w]
  BY <1>1, HolderAtIt, ConstantsAssumption DEF leaseHolder, Valid
<1>4. leaseHolder' = leaseHolder
  BY DEF leaseHolder, Valid
<1>5. /\ op'[w] = NoOp /\ lost'[w] = {} /\ pc'[w] = Idle
      /\ \A v \in Workers : v # w => op'[v] = op[v] /\ lost'[v] = lost[v] /\ pc'[v] = pc[v]
  BY DEF Return, TypeOK
<1>6. atWork' = atWork
  BY <1>5, ConstantsAssumption DEF atWork, Idle
<1>7. forfeited' = [forfeited EXCEPT ![op[w]] = {}]
  <2>1. ASSUME NEW o \in Ops
        PROVE  forfeited'[o] = IF o = op[w] THEN {} ELSE forfeited[o]
    <3>1. \A v \in Workers : (op'[v] = o) <=> (v # w /\ op[v] = o)
      BY <1>5, ConstantsAssumption
    <3>2. \A v \in Workers : \A r \in Resources :
            (op'[v] = o /\ r \in lost'[v]) <=> (v # w /\ op[v] = o /\ r \in lost[v])
      BY <1>5, <3>1
    <3>3. /\ forfeited'[o] = {r \in Resources : \E v \in Workers : op'[v] = o /\ r \in lost'[v]}
          /\ forfeited[o] = {r \in Resources : \E v \in Workers : op[v] = o /\ r \in lost[v]}
      BY DEF forfeited
    <3> QED  BY <1>1, <3>2, <3>3
  <2>2. forfeited' = [o \in Ops |-> forfeited'[o]] /\ forfeited = [o \in Ops |-> forfeited[o]]
    BY DEF forfeited
  <2> QED  BY <2>1, <2>2
<1> QED  BY <1>2, <1>3, <1>4, <1>6, <1>7 DEF Leases!Leave

\* A call that begins is nobody's lease yet.
LEMMA StartUnnoticed ==
  ASSUME IInv, NothingLostBefore, NEW w \in Workers, NEW o \in Ops, Start(w, o)
  PROVE  UNCHANGED Leases!vars
<1> USE DEF IInv
<1>1. /\ UNCHANGED <<locks, lost>> /\ lost[w] = {} /\ pc[w] = Idle /\ op[w] = NoOp
      /\ pc'[w] = "sweep" /\ op'[w] = o
      /\ \A v \in Workers : v # w => pc'[v] = pc[v] /\ op'[v] = op[v]
  BY DEF Start, NothingLostBefore, OpsDistinct, TypeOK
<1>2. leaseHolder' = leaseHolder
  BY <1>1 DEF leaseHolder, Valid
<1>3. atWork' = atWork
  BY <1>1 DEF atWork, Idle
<1>4. \A x \in Ops, r \in Resources, v \in Workers :
        (op'[v] = x /\ r \in lost'[v]) <=> (op[v] = x /\ r \in lost[v])
  BY <1>1
<1>5. forfeited' = forfeited
  BY <1>4 DEF forfeited
<1> QED  BY <1>2, <1>3, <1>5 DEF Leases!vars

\* The deadline of one lock, and the sweep of any number of them: the leases run out, and
\* whoever had them, and is still at it, has lost them.
LEMMA LocksRunOut ==
  ASSUME IInv, NEW rs \in SUBSET Resources, \A r \in rs : Valid(r),
         \A r \in rs : ~Valid(r)', \A r \in Resources \ rs : Valid(r)' <=> Valid(r),
         \A r \in Resources \ rs : Valid(r) => locks'[r].by = locks[r].by,
         \A w \in Workers : lost'[w] = lost[w] \cup {r \in rs : locks[r].by = op[w]},
         op' = op, \A w \in Workers : pc'[w] = "execute" <=> pc[w] = "execute"
  PROVE  Leases!RunOut(rs)
<1>1. \A r \in rs : locks[r] # NoLock /\ leaseHolder[r] = locks[r].by /\ locks[r].by \in Ops
  BY HolderAtIt DEF leaseHolder, Valid
<1>2. \A r \in rs : leaseHolder[r] # NoOp
  BY <1>1, ConstantsAssumption
<1>3. leaseHolder' = [r \in Resources |-> IF r \in rs THEN NoOp ELSE leaseHolder[r]]
  BY DEF leaseHolder
<1>4. atWork' = atWork
  BY DEF atWork
<1>5. forfeited' = [o \in Ops |-> forfeited[o] \cup {r \in rs : leaseHolder[r] = o}]
  <2>1. ASSUME NEW o \in Ops
        PROVE  forfeited'[o] = forfeited[o] \cup {r \in rs : leaseHolder[r] = o}
    <3>1. /\ forfeited'[o] = {r \in Resources : \E v \in Workers : op'[v] = o /\ r \in lost'[v]}
          /\ forfeited[o] = {r \in Resources : \E v \in Workers : op[v] = o /\ r \in lost[v]}
      BY DEF forfeited
    <3>2. \A r \in rs : leaseHolder[r] = o => \E w \in Workers : op[w] = o
      BY <1>1, HolderAtIt
    <3>3. \A r \in Resources, v \in Workers :
            r \in lost'[v] <=> (r \in lost[v] \/ (r \in rs /\ locks[r].by = op[v]))
      OBVIOUS
    <3> QED  BY <1>1, <3>1, <3>2, <3>3
  <2>2. forfeited' = [o \in Ops |-> forfeited'[o]]
    BY DEF forfeited
  <2> QED  BY <2>1, <2>2
<1> QED  BY <1>2, <1>3, <1>4, <1>5 DEF Leases!RunOut

\* The sweep takes the leases of all old locks at once, and no other.
LEMMA SweepRunsOut ==
  ASSUME IInv, NEW w \in Workers, CleanupStaleLocks(w)
  PROVE  \E rs \in SUBSET Resources : Leases!RunOut(rs)
<1> USE DEF IInv
<1> DEFINE rs == {r \in Resources : locks[r] # NoLock /\ locks[r].ctx = "aged"}
<1>1. /\ locks' = [r \in Resources |->
                     IF locks[r] # NoLock /\ locks[r].ctx = "live" THEN locks[r] ELSE NoLock]
      /\ lost' = [v \in Workers |-> lost[v] \cup
                    {r \in held[v] : LockedBy(r, op[v]) /\ locks[r].ctx = "aged"}]
      /\ pc[w] = "sweep" /\ pc' = [pc EXCEPT ![w] = "conflicts"] /\ op' = op
  BY DEF CleanupStaleLocks
<1>2. \A r \in Resources : locks[r] # NoLock => locks[r].ctx \in Contexts
  BY DEF TypeOK, Locks
<1>3. /\ \A r \in rs : Valid(r) /\ ~Valid(r)'
      /\ \A r \in Resources \ rs : Valid(r)' <=> Valid(r)
      /\ \A r \in Resources \ rs : Valid(r) => locks'[r] = locks[r]
  BY <1>1, <1>2 DEF Valid, Contexts
<1>4. \A v \in Workers : lost'[v] = lost[v] \cup {r \in rs : locks[r].by = op[v]}
  <2>1. \A v \in Workers : held[v] \subseteq Resources
    BY DEF TypeOK
  <2>2. \A v \in Workers, r \in Resources :
          (r \in held[v] /\ LockedBy(r, op[v]) /\ locks[r].ctx = "aged")
            <=> (r \in rs /\ locks[r].by = op[v])
    BY HolderAtIt DEF LockedBy
  <2> QED  BY <1>1, <2>1, <2>2
<1>5. \A v \in Workers : pc'[v] = "execute" <=> pc[v] = "execute"
  BY <1>1 DEF TypeOK
<1> HIDE DEF rs
<1>6. rs \in SUBSET Resources
  BY DEF rs
<1> QED  BY <1>1, <1>3, <1>4, <1>5, <1>6, LocksRunOut

\* The deadline of a lock takes its lease.
LEMMA ExpireRunsOut ==
  ASSUME IInv, NEW q \in Resources, Expire(q)
  PROVE  \E rs \in SUBSET Resources : Leases!RunOut(rs)
<1> USE DEF IInv
<1>1. /\ Valid(q) /\ UNCHANGED <<pc, op>>
      /\ locks' = [locks EXCEPT ![q].ctx = "done"]
      /\ lost' = [v \in Workers |->
                    IF op[v] = locks[q].by THEN lost[v] \cup {q} ELSE lost[v]]
  BY DEF Expire
<1>2. locks'[q].ctx = "done" /\ \A r \in Resources : r # q => locks'[r] = locks[r]
  BY <1>1 DEF TypeOK, Valid, Locks
<1>3. /\ \A r \in {q} : Valid(r) /\ ~Valid(r)'
      /\ \A r \in Resources \ {q} : Valid(r)' <=> Valid(r)
      /\ \A r \in Resources \ {q} : Valid(r) => locks'[r] = locks[r]
  BY <1>1, <1>2 DEF Valid
<1>4. \A v \in Workers : lost'[v] = lost[v] \cup {r \in {q} : locks[r].by = op[v]}
  BY <1>1
<1>5. {q} \in SUBSET Resources
  OBVIOUS
<1> QED  BY <1>1, <1>3, <1>4, <1>5, LocksRunOut

\* An operation that is at work, or not, is so by its one worker.
LEMMA AtWork ==
  ASSUME IInv, NEW w \in Workers, pc[w] # Idle
  PROVE  op[w] \in Ops /\ (op[w] \in atWork <=> pc[w] = "execute")
<1>1. op[w] \in Ops /\ \A v \in Workers : v # w => op[v] # op[w]
  BY DEF IInv, OpsDistinct, TypeOK
<1> QED  BY <1>1 DEF atWork

\* A call that has all its locks has, or has lost, every lease it needs.
LEMMA AcquiredWorks ==
  ASSUME IInv, NEW w \in Workers, AcquireLock(w), todo[w] = <<>>
  PROVE  Leases!Work(op[w])
<1> USE DEF IInv
<1>1. /\ pc[w] = "acquire" /\ pc' = [pc EXCEPT ![w] = "execute"]
      /\ UNCHANGED <<locks, op, held, lost>>
  BY DEF AcquireLock
<1>2. op[w] \in Ops
  BY <1>1, AtWork DEF Idle
<1>3. ASSUME NEW r \in Needs(op[w])
      PROVE  leaseHolder[r] = op[w] \/ r \in forfeited[op[w]]
  <2>1. r \in held[w] /\ r \in Resources
    BY <1>1, ElemsEmpty DEF HoldsAll, TypeOK
  <2>2. CASE r \in lost[w]
    BY <1>2, <2>1, <2>2 DEF forfeited
  <2>3. CASE r \notin lost[w]
    <3>1. Valid(r) /\ LockedBy(r, op[w])
      BY <2>1, <2>3 DEF HoldsOrLost
    <3> QED  BY <2>1, <3>1 DEF leaseHolder, LockedBy
  <2> QED  BY <2>2, <2>3
<1>4. atWork' = atWork \cup {op[w]}
  <2>1. /\ \A v \in Workers : pc'[v] = "execute" <=> (v = w \/ pc[v] = "execute")
    BY <1>1 DEF TypeOK
  <2> QED  BY <1>1, <1>2, <2>1 DEF atWork
<1>5. UNCHANGED <<leaseHolder, forfeited>>
  BY <1>1 DEF leaseHolder, forfeited, Valid
<1> QED  BY <1>2, <1>3, <1>4, <1>5 DEF Leases!Work

\* A lock that is taken is a lease that was free.
LEMMA AcquiredGrants ==
  ASSUME IInv, NEW w \in Workers, AcquireLock(w), todo[w] # <<>>, ~Valid(Head(todo[w]))
  PROVE  Head(todo[w]) \in Resources /\ Leases!Grant(op[w], Head(todo[w]))
<1> USE DEF IInv
<1> DEFINE q == Head(todo[w])
           lock == [by |-> op[w], ctx |-> "live"]
<1>1. q \in Resources /\ ~Valid(q)
  BY ElemsHeadTail DEF TypeOK
<1>2. /\ pc[w] = "acquire" /\ locks' = [locks EXCEPT ![q] = lock]
      /\ UNCHANGED <<pc, op, lost>>
  BY DEF AcquireLock
<1>3. op[w] \in Ops /\ op[w] \notin atWork
  BY <1>2, AtWork DEF Idle
<1>4. lock.by = op[w] /\ lock.ctx = "live" /\ lock # NoLock
  BY <1>3, LockEntry, NoLockAssumption DEF Contexts
<1> HIDE DEF q, lock
<1>5. leaseHolder[q] = NoOp
  BY <1>1 DEF leaseHolder
<1>6. leaseHolder' = [leaseHolder EXCEPT ![q] = op[w]]
  <2>1. locks'[q] = lock /\ \A r \in Resources : r # q => locks'[r] = locks[r]
    BY <1>1, <1>2 DEF TypeOK
  <2>2. ASSUME NEW r \in Resources
        PROVE  leaseHolder'[r] = IF r = q THEN op[w] ELSE leaseHolder[r]
    BY <1>4, <2>1 DEF leaseHolder, Valid
  <2>3. leaseHolder' = [r \in Resources |-> leaseHolder'[r]]
        /\ leaseHolder = [r \in Resources |-> leaseHolder[r]]
    BY DEF leaseHolder
  <2> QED  BY <2>2, <2>3
<1>7. UNCHANGED <<atWork, forfeited>>
  BY <1>2 DEF atWork, forfeited
<1>8. Leases!Grant(op[w], q)
  BY <1>3, <1>5, <1>6, <1>7 DEF Leases!Grant
<1> QED  BY <1>1, <1>8 DEF q

\* A turn of the acquisition loop begins the work, takes a free lease, or gives up.
LEMMA AcquireStep ==
  ASSUME IInv, NEW w \in Workers, AcquireLock(w)
  PROVE  [Leases!Next]_(Leases!vars)
<1>1. op[w] \in Ops
  BY AtWork DEF AcquireLock, Idle
<1>2. CASE todo[w] = <<>>
  BY <1>1, <1>2, AcquiredWorks DEF Leases!Next
<1>3. CASE todo[w] # <<>> /\ ~Valid(Head(todo[w]))
  BY <1>1, <1>3, AcquiredGrants DEF Leases!Next
<1>4. CASE todo[w] # <<>> /\ Valid(Head(todo[w]))
  <2>1. /\ pc[w] = "acquire" /\ pc' = [pc EXCEPT ![w] = "rollback"]
        /\ UNCHANGED <<locks, op, lost>>
    BY <1>4 DEF AcquireLock
  <2>2. \A v \in Workers : pc'[v] = "execute" <=> pc[v] = "execute"
    BY <2>1 DEF IInv, TypeOK
  <2> QED  BY <2>1, <2>2, Unnoticed
<1> QED  BY <1>2, <1>3, <1>4

\* The operation returns: its work is finished.
LEMMA ExecuteFinishes ==
  ASSUME IInv, NEW w \in Workers, Execute(w)
  PROVE  Leases!Finish(op[w])
<1> USE DEF IInv
<1>1. /\ pc[w] = "execute" /\ pc' = [pc EXCEPT ![w] = "release"]
      /\ UNCHANGED <<locks, op, held, lost>>
  BY DEF Execute
<1>2. op[w] \in atWork /\ \A v \in Workers : v # w => op[v] # op[w]
  BY <1>1, AtWork DEF OpsDistinct, Idle
<1>3. atWork' = atWork \ {op[w]}
  <2>1. /\ \A v \in Workers : pc'[v] = "execute" <=> (v # w /\ pc[v] = "execute")
    BY <1>1 DEF TypeOK
  <2> QED  BY <1>1, <1>2, <2>1 DEF atWork
<1>4. UNCHANGED <<leaseHolder, forfeited>>
  BY <1>1 DEF leaseHolder, forfeited, Valid
<1> QED  BY <1>2, <1>3, <1>4 DEF Leases!Finish

\* A turn of a release loop gives a lease back, or finds that it is not its own any more.
LEMMA ReleaseStep ==
  ASSUME IInv, NEW w \in Workers, ReleaseLock(w)
  PROVE  [Leases!Next]_(Leases!vars)
<1> USE DEF IInv
<1>1. PICK q \in held[w] :
        locks' = IF LockedBy(q, op[w]) THEN [locks EXCEPT ![q] = NoLock] ELSE locks
  BY DEF ReleaseLock
<1>2. pc[w] \in {"rollback", "release"} /\ UNCHANGED <<pc, op, lost>> /\ q \in Resources
  BY DEF ReleaseLock, TypeOK
<1>3. op[w] \in Ops /\ op[w] \notin atWork
  BY <1>2, AtWork DEF Idle
<1>4. UNCHANGED <<atWork, forfeited>>
  BY <1>2 DEF atWork, forfeited
<1>5. \A r \in Resources : r # q => locks'[r] = locks[r]
  BY <1>1 DEF TypeOK
<1>6. /\ leaseHolder' = [r \in Resources |-> leaseHolder'[r]]
      /\ leaseHolder = [r \in Resources |-> leaseHolder[r]]
  BY DEF leaseHolder
<1>7. \A r \in Resources : r # q => leaseHolder'[r] = leaseHolder[r]
  BY <1>5 DEF leaseHolder, Valid
<1>8. CASE LockedBy(q, op[w]) /\ Valid(q)
  <2>1. leaseHolder[q] = op[w]
    BY <1>2, <1>8 DEF leaseHolder, LockedBy
  <2>2. leaseHolder'[q] = NoOp
    BY <1>1, <1>2, <1>8 DEF leaseHolder, Valid, TypeOK
  <2>3. leaseHolder' = [leaseHolder EXCEPT ![q] = NoOp]
    BY <1>2, <1>6, <1>7, <2>2
  <2>4. Leases!Release(op[w], q)
    BY <1>3, <1>4, <2>1, <2>3 DEF Leases!Release
  <2> QED  BY <1>2, <1>3, <2>4 DEF Leases!Next
<1>9. CASE ~(LockedBy(q, op[w]) /\ Valid(q))
  <2>1. leaseHolder'[q] = leaseHolder[q]
    BY <1>1, <1>2, <1>9 DEF leaseHolder, Valid, TypeOK
  <2>2. leaseHolder' = leaseHolder
    BY <1>6, <1>7, <2>1
  <2> QED  BY <1>4, <2>2 DEF Leases!vars
<1> QED  BY <1>8, <1>9

\* An old lock is as good as a new one until the sweep comes.
LEMMA AgeUnnoticed ==
  ASSUME IInv, NEW q \in Resources, Age(q)
  PROVE  UNCHANGED Leases!vars
<1> USE DEF IInv
<1>1. /\ locks[q] # NoLock /\ locks[q].ctx = "live" /\ UNCHANGED <<pc, op, lost>>
      /\ locks' = [locks EXCEPT ![q].ctx = "aged"]
  BY DEF Age
<1>2. \A r \in Resources : r # q => locks'[r] = locks[r]
  BY <1>1 DEF TypeOK
<1>3. locks'[q] = [locks[q] EXCEPT !.ctx = "aged"] /\ locks[q] \in Locks
  BY <1>1 DEF TypeOK
<1>4. locks'[q].by = locks[q].by /\ locks'[q].ctx = "aged" /\ locks'[q] # NoLock
  BY <1>3, NoLockAssumption DEF Locks, Contexts
<1>5. \A r \in Resources : leaseHolder'[r] = leaseHolder[r]
  BY <1>1, <1>2, <1>4 DEF leaseHolder, Valid
<1>6. /\ leaseHolder' = [r \in Resources |-> leaseHolder'[r]]
      /\ leaseHolder = [r \in Resources |-> leaseHolder[r]]
  BY DEF leaseHolder
<1>7. UNCHANGED <<atWork, forfeited>>
  BY <1>1 DEF atWork, forfeited
<1> QED  BY <1>5, <1>6, <1>7 DEF Leases!vars

\* A call that has taken no lock yet, or has released all it took, goes on or returns.
LEMMA CallStep ==
  ASSUME IInv, NEW w \in Workers,
         \/ GetResourceConflicts(w)
         \/ CheckDependencies(w)
         \/ RolledBack(w)
         \/ CompleteDependency(w)
  PROVE  [Leases!Next]_(Leases!vars)
<1> USE DEF IInv
<1>1. /\ pc[w] \in {"conflicts", "dependencies", "rollback", "release"} /\ held[w] = {}
      /\ UNCHANGED locks
  BY DEF GetResourceConflicts, CheckDependencies, RolledBack, CompleteDependency, HoldsAll
<1>2. CASE Return(w)
  <2>1. op[w] \in Ops /\ Leases!Leave(op[w])
    BY <1>1, <1>2, AtWork, ReturnLeaves DEF Idle
  <2> QED  BY <2>1 DEF Leases!Next
<1>3. CASE ~Return(w)
  <2>1. /\ UNCHANGED <<op, lost>>
        /\ \E to \in {"dependencies", "acquire"} : pc' = [pc EXCEPT ![w] = to]
    BY <1>3 DEF GetResourceConflicts, CheckDependencies, RolledBack, CompleteDependency
  <2>2. \A v \in Workers : pc'[v] = "execute" <=> pc[v] = "execute"
    BY <1>1, <2>1 DEF TypeOK
  <2> QED  BY <1>1, <2>1, <2>2, Unnoticed
<1> QED  BY <1>2, <1>3

\* Initially nobody has a lease.
LEMMA LeasesInit == Init => Leases!Init
<1> SUFFICES ASSUME Init  PROVE Leases!Init
  OBVIOUS
<1>1. leaseHolder = [r \in Resources |-> NoOp]
  BY DEF Init, leaseHolder, Valid
<1>2. atWork = {} /\ forfeited = [o \in Ops |-> {}]
  BY DEF Init, atWork, forfeited, Idle
<1> QED  BY <1>1, <1>2 DEF Leases!Init

\* Every step of the manager is a step of the lease table, or leaves it alone.
LEMMA LeasesNext ==
  ASSUME IInv, NothingLostBefore, [Next]_vars
  PROVE  [Leases!Next]_(Leases!vars)
<1>1. ASSUME NEW w \in Workers, Step(w)
      PROVE  [Leases!Next]_(Leases!vars)
  <2>1. CASE CleanupStaleLocks(w)
    BY <2>1, SweepRunsOut DEF Leases!Next
  <2>2. CASE Execute(w)
    BY <2>2, ExecuteFinishes, AtWork DEF Execute, Idle, Leases!Next
  <2> QED  BY <1>1, <2>1, <2>2, CallStep, AcquireStep, ReleaseStep DEF Step
<1>2. ASSUME NEW o \in Ops, RegisterDependency(o)
      PROVE  UNCHANGED Leases!vars
  BY <1>2, Unnoticed DEF RegisterDependency
<1>3. ASSUME NEW r \in Resources, Expire(r) \/ Age(r)
      PROVE  [Leases!Next]_(Leases!vars)
  BY <1>3, ExpireRunsOut, AgeUnnoticed DEF Leases!Next
<1>4. CASE UNCHANGED vars
  BY <1>4, Unnoticed DEF vars
<1> QED  BY <1>1, <1>2, <1>3, <1>4, StartUnnoticed DEF Next

\* The coordination manager is a lease table: whatever the order of its critical sections,
\* its sweeps and rollbacks, its callers can tell it from one only by which requests succeed.
THEOREM Refinement == Spec => ImplementsLeases
<1>1. Init => NothingLostBefore
  BY DEF Init, NothingLostBefore
<1>2. IInv /\ NothingLostBefore /\ [Next]_vars => [Leases!Next]_(Leases!vars)
  BY LeasesNext
<1> QED
  BY <1>1, <1>2, LeasesInit, NothingLostBeforeNext, Invariance, PTL
  DEF Spec, ImplementsLeases, Leases!Spec

\* A client at work has the lease on all it wants, but for what ran out.
WorksOnLeases ==
  /\ leaseHolder \in [Resources -> Ops \cup {NoOp}]
  /\ atWork \subseteq Ops
  /\ forfeited \in [Ops -> SUBSET Resources]
  /\ \A c \in atWork : \A r \in Needs(c) : leaseHolder[r] = c \/ r \in forfeited[c]

\* The steps of a lease table keep it.
LEMMA WorksOnLeasesNext ==
  ASSUME WorksOnLeases, [Leases!Next]_(Leases!vars), \A o \in Ops : Needs(o) \subseteq Resources
  PROVE  WorksOnLeases'
<1> USE DEF WorksOnLeases
<1>0. ASSUME NEW c \in Ops
      PROVE  Needs(c)' = Needs(c) /\ NoOp # c
  BY ConstantsAssumption DEF Needs
<1>1. ASSUME NEW c \in Ops, NEW r \in Resources, Leases!Grant(c, r)
      PROVE  WorksOnLeases'
  BY <1>0, <1>1 DEF Leases!Grant
<1>2. ASSUME NEW c \in Ops, NEW r \in Resources, Leases!Release(c, r)
      PROVE  WorksOnLeases'
  BY <1>0, <1>2 DEF Leases!Release
<1>3. ASSUME NEW c \in Ops, Leases!Work(c)
      PROVE  WorksOnLeases'
  BY <1>0, <1>3 DEF Leases!Work
<1>4. ASSUME NEW c \in Ops, Leases!Finish(c)
      PROVE  WorksOnLeases'
  BY <1>0, <1>4 DEF Leases!Finish
<1>5. ASSUME NEW c \in Ops, Leases!Leave(c)
      PROVE  WorksOnLeases'
  BY <1>0, <1>5 DEF Leases!Leave
<1>6. ASSUME NEW rs \in SUBSET Resources, Leases!RunOut(rs)
      PROVE  WorksOnLeases'
  BY <1>0, <1>6 DEF Leases!RunOut
<1>7. CASE UNCHANGED Leases!vars
  BY <1>0, <1>7 DEF Leases!vars
<1> QED  BY <1>1, <1>2, <1>3, <1>4, <1>5, <1>6, <1>7 DEF Leases!Next

\* What the lease table promises its clients, and hence the manager its callers: two are at
\* work on one resource only if the lease of one of them ran out under it.
THEOREM LeasesExclude == ImplementsLeases => []Leases!Exclusive
<1>1. \A o \in Ops : Needs(o) \subseteq Resources
  BY ConstantsAssumption DEF Needs, Elems
<1>2. Leases!Init => WorksOnLeases
  BY DEF Leases!Init, WorksOnLeases
<1>3. WorksOnLeases /\ [Leases!Next]_(Leases!vars) => WorksOnLeases'
  BY <1>1, WorksOnLeasesNext
<1>4. WorksOnLeases => Leases!Exclusive
  BY DEF WorksOnLeases, Leases!Exclusive
<1> QED  BY <1>2, <1>3, <1>4, PTL DEF ImplementsLeases, Leases!Spec

=============================================================================
