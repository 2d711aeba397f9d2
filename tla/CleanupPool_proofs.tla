------------------------- MODULE CleanupPool_proofs -------------------------
(***************************************************************************)
(* The pools implement FinalizerContract, and leave no worker behind, for  *)
(* any NodeENIs, ENIs and workers.                                         *)
(*                                                                         *)
(* The argument: as long as the context is not cancelled, each ENI of a    *)
(* NodeENI whose pool is at work is waiting to be sent, in the channel, in *)
(* a worker's hands, cleaned up, or there is a failure among the results   *)
(* (Accounted); and the first worker leaves only when the channel is       *)
(* drained (Drained).  So a call that finds no failure has lost no ENI.    *)
(* Once the context is cancelled the finalizer stays.                      *)
(***************************************************************************)
EXTENDS CleanupPool, SequenceTheorems, FiniteSetTheorems, TLAPS

\* There is a worker for each NodeENI, and it has finitely many ENIs.
Pools ==
  /\ ENIsOf \in [NodeENIs -> SUBSET ENIs]
  /\ \A n \in NodeENIs : IsFiniteSet(ENIsOf[n])
  /\ Workers \subseteq NodeENIs \X Nat
  /\ \A n \in NodeENIs : <<n, 1>> \in Workers
  /\ MaxConcurrentENICleanup \in Nat \ {0}
  /\ NoENI \notin ENIs

-----------------------------------------------------------------------------
(* Sequences *)

LEMMA AllSent ==
  ASSUME NEW S, IsFiniteSet(S)
  PROVE  SetToSeq(S) \in Seq(S) /\ S \subseteq ToSet(SetToSeq(S))
<1> DEFINE k == Cardinality(S)
<1>1. k \in Nat /\ ExistsBijection(1..k, S)
  BY FS_CardinalityType
<1>2. \E f \in [1..k -> S] : IsInjective(f)
  <2>1. PICK f \in Bijection(1..k, S) : TRUE
    BY <1>1 DEF ExistsBijection
  <2> QED  BY <2>1 DEF Bijection, Injection, IsInjective
<1>3. SetToSeq(S) \in [1..k -> S] /\ IsInjective(SetToSeq(S))
  BY <1>2 DEF SetToSeq
<1>4. SetToSeq(S) \in Injection(1..k, S)
  BY <1>3 DEF Injection, IsInjective
<1>5. IsFiniteSet(1..k) /\ Cardinality(1..k) = k
  BY <1>1, FS_Interval
<1>6. SetToSeq(S) \in Surjection(1..k, S)
  BY <1>4, <1>5, FS_Injection
<1> QED  BY <1>1, <1>3, <1>6 DEF Surjection, ToSet

LEMMA Half ==
  ASSUME NEW a \in Nat
  PROVE  a \div 2 \in Nat
  OBVIOUS

LEMMA NothingSent ==
  <<>> \in Seq(ENIs)
  OBVIOUS

LEMMA OneSent ==
  ASSUME NEW c \in Seq(ENIs), NEW e \in ENIs
  PROVE  Append(c, e) \in Seq(ENIs) /\ ToSet(Append(c, e)) = ToSet(c) \cup {e}
  BY AppendProperties DEF ToSet

LEMMA OneTaken ==
  ASSUME NEW c \in Seq(ENIs), c # <<>>
  PROVE  Head(c) \in ENIs /\ Tail(c) \in Seq(ENIs) /\ ToSet(c) = {Head(c)} \cup ToSet(Tail(c))
<1>1. Head(c) \in ENIs /\ Tail(c) \in Seq(ENIs)
  BY HeadTailProperties
<1>2. Len(c) \in Nat \ {0} /\ Len(Tail(c)) = Len(c) - 1 /\ Head(c) = c[1]
      /\ \A i \in 1..(Len(c) - 1) : Tail(c)[i] = c[i + 1]
  BY HeadTailProperties
<1>3. ASSUME NEW i \in DOMAIN c PROVE c[i] \in {Head(c)} \cup ToSet(Tail(c))
  <2>1. CASE i = 1  BY <1>2, <2>1
  <2>2. CASE i # 1
    <3>1. i - 1 \in DOMAIN Tail(c) /\ Tail(c)[i - 1] = c[i]
      BY <2>2, <1>1, <1>2
    <3> QED  BY <3>1 DEF ToSet
  <2> QED  BY <2>1, <2>2
<1>4. ASSUME NEW i \in DOMAIN Tail(c) PROVE Tail(c)[i] \in ToSet(c)
  BY <1>1, <1>2, i + 1 \in DOMAIN c DEF ToSet
<1> QED  BY <1>1, <1>2, <1>3, <1>4 DEF ToSet

-----------------------------------------------------------------------------
(* The inductive invariant *)

Holds(w, e) ==
  /\ work[w] = e
  /\ \/ goroutine[w] \in {"acquire", "clean up"}
     \/ goroutine[w] = "report" /\ ~succeeded[w]

AccountedFor(n, e) ==
  \/ e \in cleaned \/ FALSE \in results[n]
  \/ e \in ToSet(unsent[n]) \/ e \in ToSet(workChan[n])
  \/ \E w \in WorkersOf(n) : Holds(w, e)

AtWork(n) == phase[n] \in {"send", "wait"} /\ ~env.cancelled

Accounted == \A n \in NodeENIs : AtWork(n) => \A e \in ENIsOf[n] : AccountedFor(n, e)

Drained ==
  \A n \in NodeENIs : AtWork(n) =>
    /\ phase[n] = "send" => ~closed[n]
    /\ phase[n] = "wait" => unsent[n] = <<>>
    /\ goroutine[<<n, 1>>] = "off" => closed[n] /\ workChan[n] = <<>>

Complete ==
  \A n \in NodeENIs : phase[n] = "remove" /\ ~env.cancelled => ENIsOf[n] \subseteq cleaned

IInv == TypeOK /\ NoWorkerLeft /\ Accounted /\ Drained /\ Complete

LEMMA InitInv ==
  ASSUME Pools, Init
  PROVE  IInv
<1>1. TypeOK
  <2>1. env \in [cancelled : BOOLEAN, healthy : BOOLEAN]  BY DEF Init
  <2>2. cleaned \subseteq ENIs  BY DEF Init, Pools
  <2>3. unsent \in [NodeENIs -> Seq(ENIs)] /\ workChan \in [NodeENIs -> Seq(ENIs)]
    BY NothingSent DEF Init
  <2>4. goroutine \in [Workers -> {"off", "select", "acquire", "clean up", "report"}]
        /\ \A w \in Workers : goroutine[w] \notin {"acquire", "clean up"}
    BY DEF Init
  <2> QED  BY <2>1, <2>2, <2>3, <2>4 DEF Init, TypeOK
<1>2. NoWorkerLeft  BY DEF Init, NoWorkerLeft
<1>3. Accounted /\ Drained /\ Complete
  BY DEF Init, Accounted, Drained, Complete, AtWork
<1> QED  BY <1>1, <1>2, <1>3 DEF IInv

LEMMA TypeStep ==
  ASSUME Pools, TypeOK, Next
  PROVE  TypeOK'
<1> USE DEF Pools
<1>1. ASSUME NEW n \in NodeENIs, StartWorkers(n) PROVE TypeOK'
  <2>1. SetToSeq(ENIsOf[n]) \in Seq(ENIs)
    <3>1. SetToSeq(ENIsOf[n]) \in Seq(ENIsOf[n])  BY AllSent
    <3> QED  BY <3>1
  <2>2. unsent' \in [NodeENIs -> Seq(ENIs)] /\ workChan' \in [NodeENIs -> Seq(ENIs)]
    BY <1>1, <2>1, NothingSent DEF TypeOK, StartWorkers
  <2>3. goroutine' \in [Workers -> {"off", "select", "acquire", "clean up", "report"}]
    BY <1>1 DEF TypeOK, StartWorkers
  <2>4. \A w \in Workers : goroutine'[w] \in {"acquire", "clean up"} => work'[w] \in ENIs
    BY <1>1 DEF TypeOK, StartWorkers
  <2>5. results' \in [NodeENIs -> SUBSET BOOLEAN]
    BY <1>1 DEF TypeOK, StartWorkers
  <2> QED  BY <1>1, <2>2, <2>3, <2>4, <2>5 DEF TypeOK, StartWorkers
<1>2. ASSUME NEW n \in NodeENIs, SendWork(n) PROVE TypeOK'
  <2>1. CASE unsent[n] # <<>>
    <3>1. Head(unsent[n]) \in ENIs /\ Tail(unsent[n]) \in Seq(ENIs)
      BY <2>1, OneTaken DEF TypeOK
    <3>2. Append(workChan[n], Head(unsent[n])) \in Seq(ENIs)
      BY <3>1, OneSent DEF TypeOK
    <3>3. unsent' \in [NodeENIs -> Seq(ENIs)] /\ workChan' \in [NodeENIs -> Seq(ENIs)]
      <4>1. CASE workChan' = [workChan EXCEPT ![n] = Append(@, Head(unsent[n]))]
                 /\ unsent' = [unsent EXCEPT ![n] = Tail(@)]
        BY <4>1, <3>1, <3>2 DEF TypeOK
      <4>2. CASE UNCHANGED <<unsent, workChan>>
        BY <4>2 DEF TypeOK
      <4> QED  BY <1>2, <2>1, <4>1, <4>2, Zenon DEF SendWork
    <3>4. phase' \in [NodeENIs -> {"idle", "send", "abandon", "wait", "remove"}]
          /\ closed' \in [NodeENIs -> BOOLEAN]
      BY <1>2, <2>1 DEF TypeOK, SendWork
    <3> QED  BY <1>2, <3>3, <3>4 DEF TypeOK, SendWork
  <2>2. CASE unsent[n] = <<>>
    BY <1>2, <2>2 DEF TypeOK, SendWork
  <2> QED  BY <2>1, <2>2
<1>3. ASSUME NEW n \in NodeENIs, CollectResults(n) PROVE TypeOK'
  BY <1>3 DEF TypeOK, CollectResults
<1>4. ASSUME NEW n \in NodeENIs, RemoveFinalizer(n) PROVE TypeOK'
  BY <1>4 DEF TypeOK, RemoveFinalizer
<1>5. ASSUME NEW w \in Workers, TakeWork(w) PROVE TypeOK'
  <2>1. w[1] \in NodeENIs  OBVIOUS
  <2>2. Head(workChan[w[1]]) \in ENIs /\ Tail(workChan[w[1]]) \in Seq(ENIs)
    BY <1>5, <2>1, OneTaken DEF TypeOK, TakeWork
  <2> QED  BY <1>5, <2>1, <2>2 DEF TypeOK, TakeWork
<1>6. ASSUME NEW w \in Workers, WorkerExits(w) \/ Acquire(w) \/ Refused(w) PROVE TypeOK'
  <2>1. CASE WorkerExits(w)  BY <2>1 DEF TypeOK, WorkerExits
  <2>2. CASE Acquire(w)  BY <2>2 DEF TypeOK, Acquire
  <2>3. CASE Refused(w)  BY <2>3 DEF TypeOK, Refused
  <2> QED  BY <1>6, <2>1, <2>2, <2>3
<1>7. ASSUME NEW w \in Workers, CleanUp(w) PROVE TypeOK'
  <2> PICK ok \in BOOLEAN, gone \in BOOLEAN :
         /\ succeeded' = [succeeded EXCEPT ![w] = ok]
         /\ cleaned' = IF gone THEN cleaned \cup {work[w]} ELSE cleaned
    BY <1>7, Zenon DEF CleanUp
  <2>1. succeeded' \in [Workers -> BOOLEAN]
    BY DEF TypeOK
  <2>2. cleaned' \subseteq ENIs
    BY <1>7 DEF TypeOK, CleanUp
  <2> QED  BY <1>7, <2>1, <2>2 DEF TypeOK, CleanUp
<1>8. ASSUME NEW w \in Workers, Report(w) PROVE TypeOK'
  <2>1. results' \in [NodeENIs -> SUBSET BOOLEAN]
    <3>1. succeeded[w] \in BOOLEAN  BY DEF TypeOK
    <3>2. CASE results' = [results EXCEPT ![w[1]] = @ \cup {succeeded[w]}]
      <4> DEFINE b == succeeded[w]
      <4>1. {b} \subseteq BOOLEAN  BY <3>1, Zenon
      <4> HIDE DEF b
      <4> QED  BY <3>2, <4>1 DEF TypeOK, b
    <3>3. CASE results' = results  BY <3>3 DEF TypeOK
    <3> QED  BY <1>8, <3>2, <3>3 DEF Report
  <2>2. work' = [work EXCEPT ![w] = NoENI]
        /\ \E g \in {"select", "off"} : goroutine' = [goroutine EXCEPT ![w] = g]
    BY <1>8 DEF Report
  <2>3. /\ work' \in [Workers -> ENIs \cup {NoENI}]
        /\ goroutine' \in [Workers -> {"off", "select", "acquire", "clean up", "report"}]
    <3>1. /\ work \in [Workers -> ENIs \cup {NoENI}]
          /\ goroutine \in [Workers -> {"off", "select", "acquire", "clean up", "report"}]
      BY DEF TypeOK
    <3>2. work' \in [Workers -> ENIs \cup {NoENI}]  BY <2>2, <3>1
    <3>3. goroutine' \in [Workers -> {"off", "select", "acquire", "clean up", "report"}]
      BY <2>2, <3>1
    <3> QED  BY <3>2, <3>3
  <2>4. \A v \in Workers : goroutine'[v] \in {"acquire", "clean up"} => work'[v] \in ENIs
    BY <2>2 DEF TypeOK
  <2>5. UNCHANGED <<nodeLevel, phase, unsent, workChan, closed, succeeded, env, finalizer, cleaned>>
    BY <1>8 DEF Report
  <2> QED  BY <2>1, <2>3, <2>4, <2>5 DEF TypeOK
<1>9. ASSUME Cancel \/ HealthChanges PROVE TypeOK'
  <2>1. env' \in [cancelled : BOOLEAN, healthy : BOOLEAN]
    <3>1. env \in [cancelled : BOOLEAN, healthy : BOOLEAN]  BY DEF TypeOK
    <3>2. CASE env' = [env EXCEPT !.cancelled = TRUE]  BY <3>1, <3>2
    <3>3. CASE env' = [env EXCEPT !.healthy = ~env.healthy]
      <4> DEFINE b == ~env.healthy
      <4>1. b \in BOOLEAN  OBVIOUS
      <4>2. env' = [env EXCEPT !.healthy = b]  BY <3>3
      <4> HIDE DEF b
      <4> QED  BY <3>1, <4>1, <4>2
    <3> QED  BY <1>9, <3>2, <3>3, Zenon DEF Cancel, HealthChanges
  <2>2. /\ UNCHANGED <<phase, unsent, workChan, closed, results, goroutine, work>>
        /\ UNCHANGED <<succeeded, nodeLevel, finalizer, cleaned>>
    BY <1>9 DEF Cancel, HealthChanges
  <2> QED  BY <2>1, <2>2 DEF TypeOK
<1> QED
  BY <1>1, <1>2, <1>3, <1>4, <1>5, <1>6, <1>7, <1>8, <1>9 DEF Next, PoolStep, WorkerStep

LEMMA NoWorkerLeftStep ==
  ASSUME Pools, TypeOK, NoWorkerLeft, Next
  PROVE  NoWorkerLeft'
<1> USE DEF Pools, TypeOK, NoWorkerLeft
<1>1. ASSUME NEW n \in NodeENIs, StartWorkers(n) PROVE NoWorkerLeft'
  BY <1>1 DEF StartWorkers, WorkersOf
<1>2. ASSUME NEW n \in NodeENIs, SendWork(n) PROVE NoWorkerLeft'
  <2>1. phase[n] = "send" /\ goroutine' = goroutine
        /\ (phase' = phase \/ \E q \in {"abandon", "wait"} : phase' = [phase EXCEPT ![n] = q])
    BY <1>2 DEF SendWork
  <2> QED  BY <2>1
<1>3. ASSUME NEW n \in NodeENIs, CollectResults(n) PROVE NoWorkerLeft'
  BY <1>3 DEF CollectResults, WorkersOf
<1>4. ASSUME NEW n \in NodeENIs, RemoveFinalizer(n) PROVE NoWorkerLeft'
  <2>1. phase[n] = "remove" /\ phase' = [phase EXCEPT ![n] = "idle"] /\ goroutine' = goroutine
    BY <1>4, Zenon DEF RemoveFinalizer
  <2> QED  BY <2>1
<1>5. ASSUME NEW w \in Workers, WorkerStep(w) PROVE NoWorkerLeft'
  <2>1. phase' = phase /\ goroutine[w] # "off"
    BY <1>5 DEF WorkerStep, TakeWork, WorkerExits, Acquire, Refused, CleanUp, Report
  <2>2. \A v \in Workers \ {w} : goroutine'[v] = goroutine[v]
    <3> HIDE DEF Pools, TypeOK, NoWorkerLeft
    <3>0. DOMAIN goroutine = Workers  BY DEF TypeOK
    <3>1. CASE TakeWork(w)  BY <3>0, <3>1 DEF TakeWork
    <3>2. CASE WorkerExits(w) \/ Acquire(w)  BY <3>0, <3>2 DEF WorkerExits, Acquire
    <3>3. CASE Refused(w) \/ CleanUp(w)  BY <3>0, <3>3 DEF Refused, CleanUp
    <3>4. CASE Report(w)  BY <3>0, <3>4 DEF Report
    <3> QED  BY <1>5, <3>1, <3>2, <3>3, <3>4 DEF WorkerStep
  <2> QED  BY <2>1, <2>2
<1>6. ASSUME Cancel \/ HealthChanges PROVE NoWorkerLeft'
  BY <1>6 DEF Cancel, HealthChanges
<1> QED  BY <1>1, <1>2, <1>3, <1>4, <1>5, <1>6 DEF Next, PoolStep

LEMMA SmallerOf ==
  ASSUME NEW h \in Nat, NEW max \in Nat \ {0},
         NEW byLoad, byLoad = IF h > 1 THEN h ELSE 1
  PROVE  (IF byLoad < max THEN byLoad ELSE max) \in Nat \ {0}
  OBVIOUS

LEMMA WorkerCount ==
  ASSUME Pools, NEW n \in NodeENIs
  PROVE  calculateWorkerCount(n) \in Nat /\ 1 <= calculateWorkerCount(n)
<1> DEFINE h == Cardinality(ENIsOf[n]) \div 2
           byLoad == IF h > 1 THEN h ELSE 1
<1>1. h \in Nat
  BY FS_CardinalityType, Half DEF Pools
<1>2. MaxConcurrentENICleanup \in Nat \ {0}
  BY DEF Pools
<1>3. calculateWorkerCount(n) = IF byLoad < MaxConcurrentENICleanup THEN byLoad
                                ELSE MaxConcurrentENICleanup
  BY Zenon DEF calculateWorkerCount
<1>4. byLoad = IF h > 1 THEN h ELSE 1
  OBVIOUS
<1> HIDE DEF h, byLoad
<1>5. calculateWorkerCount(n) \in Nat \ {0}
  BY <1>1, <1>2, <1>3, <1>4, SmallerOf
<1> QED  BY <1>5

LEMMA DrainedStep ==
  ASSUME Pools, TypeOK, Drained, Next
  PROVE  Drained'
<1> USE DEF Pools, TypeOK, Drained, AtWork
<1>1. ASSUME NEW n \in NodeENIs, StartWorkers(n) PROVE Drained'
  <2>1. calculateWorkerCount(n) \in Nat /\ 1 <= calculateWorkerCount(n)
    BY WorkerCount
  <2>2. goroutine'[<<n, 1>>] = "select"
    BY <1>1, <2>1 DEF StartWorkers, WorkersOf
  <2>3. ASSUME NEW m \in NodeENIs, m # n PROVE goroutine'[<<m, 1>>] = goroutine[<<m, 1>>]
    BY <1>1, <2>3 DEF StartWorkers, WorkersOf
  <2> QED  BY <1>1, <2>2, <2>3 DEF StartWorkers
<1>2. ASSUME NEW n \in NodeENIs, SendWork(n) PROVE Drained'
  <2>1. phase[n] = "send" /\ UNCHANGED <<goroutine, env>>
    BY <1>2 DEF SendWork
  <2>2. CASE unsent[n] # <<>> /\ UNCHANGED <<phase, closed>>
             /\ workChan' = [workChan EXCEPT ![n] = Append(@, Head(unsent[n]))]
             /\ unsent' = [unsent EXCEPT ![n] = Tail(@)]
    BY <2>1, <2>2
  <2>3. CASE phase' = [phase EXCEPT ![n] = "abandon"] /\ closed' = [closed EXCEPT ![n] = TRUE]
             /\ UNCHANGED <<unsent, workChan>>
    BY <2>1, <2>3
  <2>4. CASE phase' = [phase EXCEPT ![n] = "wait"] /\ closed' = [closed EXCEPT ![n] = TRUE]
             /\ unsent[n] = <<>> /\ UNCHANGED <<unsent, workChan>>
    BY <2>1, <2>4
  <2> QED  BY <1>2, <2>2, <2>3, <2>4, Zenon DEF SendWork
<1>3. ASSUME NEW n \in NodeENIs, CollectResults(n) PROVE Drained'
  <2>1. (\E q \in {"remove", "idle"} : phase' = [phase EXCEPT ![n] = q])
        /\ UNCHANGED <<unsent, workChan, closed, goroutine, env>>
    BY <1>3 DEF CollectResults
  <2> QED  BY <2>1
<1>4. ASSUME NEW n \in NodeENIs, RemoveFinalizer(n) PROVE Drained'
  <2>1. phase' = [phase EXCEPT ![n] = "idle"]
        /\ UNCHANGED <<unsent, workChan, closed, goroutine, env>>
    BY <1>4, Zenon DEF RemoveFinalizer
  <2> QED  BY <2>1
<1>5. ASSUME NEW w \in Workers, TakeWork(w) PROVE Drained'
  BY <1>5 DEF TakeWork
<1>6. ASSUME NEW w \in Workers, WorkerExits(w) PROVE Drained'
  <2> SUFFICES ASSUME NEW n \in NodeENIs, AtWork(n), goroutine'[<<n, 1>>] = "off"
               PROVE  closed[n] /\ workChan[n] = <<>>
    BY <1>6 DEF WorkerExits
  <2>1. CASE w = <<n, 1>>  BY <1>6, <2>1 DEF WorkerExits
  <2>2. CASE w # <<n, 1>>  BY <1>6, <2>2 DEF WorkerExits
  <2> QED  BY <2>1, <2>2
<1>7. ASSUME NEW w \in Workers, Acquire(w) \/ Refused(w) \/ CleanUp(w) PROVE Drained'
  <2>1. (\E g \in {"clean up", "report"} : goroutine' = [goroutine EXCEPT ![w] = g])
        /\ UNCHANGED <<phase, unsent, workChan, closed, env>>
    BY <1>7 DEF Acquire, Refused, CleanUp
  <2> QED  BY <2>1
<1>8. ASSUME NEW w \in Workers, Report(w) PROVE Drained'
  <2>1. \/ goroutine' = [goroutine EXCEPT ![w] = "select"]
        \/ env.cancelled
    BY <1>8 DEF Report
  <2>2. UNCHANGED <<phase, unsent, workChan, closed, env>>
    BY <1>8 DEF Report
  <2> QED  BY <2>1, <2>2
<1>9. ASSUME Cancel \/ HealthChanges PROVE Drained'
  <2>1. UNCHANGED <<phase, unsent, workChan, closed, goroutine>>
        /\ (env.cancelled => env'.cancelled)
    BY <1>9 DEF Cancel, HealthChanges
  <2> QED  BY <2>1
<1> QED
  BY <1>1, <1>2, <1>3, <1>4, <1>5, <1>6, <1>7, <1>8, <1>9 DEF Next, PoolStep, WorkerStep

LEMMA AccountedStep ==
  ASSUME Pools, TypeOK, Accounted, Next
  PROVE  Accounted'
<1> USE DEF Pools
<1> SUFFICES ASSUME NEW n \in NodeENIs, AtWork(n)', NEW e \in ENIsOf[n]
             PROVE  AccountedFor(n, e)'
  BY DEF Accounted
<1>0. e \in ENIs /\ ENIsOf[n] \subseteq ENIs  OBVIOUS
<1>a. AtWork(n) => AccountedFor(n, e)
  BY DEF Accounted
<1>1. ASSUME NEW m \in NodeENIs, StartWorkers(m) PROVE AccountedFor(n, e)'
  <2>1. CASE m = n
    <3>1. unsent'[n] = SetToSeq(ENIsOf[n])
      BY <1>1, <2>1 DEF StartWorkers, TypeOK
    <3>2. e \in ToSet(SetToSeq(ENIsOf[n]))
      BY AllSent
    <3> QED  BY <3>1, <3>2 DEF AccountedFor
  <2>2. CASE m # n
    <3>1. AccountedFor(n, e)
      BY <1>1, <1>a, <2>2 DEF StartWorkers, AtWork, TypeOK
    <3>2. /\ cleaned' = cleaned /\ results'[n] = results[n]
          /\ unsent'[n] = unsent[n] /\ workChan'[n] = workChan[n]
      BY <1>1, <2>2 DEF StartWorkers, TypeOK
    <3>3. \A w \in WorkersOf(n) : Holds(w, e) => Holds(w, e)'
      BY <1>1, <2>2 DEF StartWorkers, TypeOK, Holds, WorkersOf
    <3> QED  BY <3>1, <3>2, <3>3 DEF AccountedFor, WorkersOf
  <2> QED  BY <2>1, <2>2
<1>2. ASSUME NEW m \in NodeENIs, SendWork(m) PROVE AccountedFor(n, e)'
  <2>1. AccountedFor(n, e)
    BY <1>2, <1>a DEF SendWork, AtWork, TypeOK
  <2>2. /\ cleaned' = cleaned /\ results' = results
        /\ \A w \in WorkersOf(n) : Holds(w, e) => Holds(w, e)'
    BY <1>2 DEF SendWork, Holds
  <2>3. e \in ToSet(unsent[n]) \cup ToSet(workChan[n])
        => e \in ToSet(unsent'[n]) \cup ToSet(workChan'[n])
    <3>1. CASE m = n /\ unsent[n] # <<>>
               /\ workChan' = [workChan EXCEPT ![n] = Append(@, Head(unsent[n]))]
               /\ unsent' = [unsent EXCEPT ![n] = Tail(@)]
      <4> DEFINE h == Head(unsent[n])
      <4>1. h \in ENIs /\ ToSet(unsent[n]) = {h} \cup ToSet(Tail(unsent[n]))
        BY <3>1, OneTaken DEF TypeOK
      <4>2. ToSet(Append(workChan[n], h)) = ToSet(workChan[n]) \cup {h}
        BY <4>1, OneSent DEF TypeOK
      <4>3. workChan'[n] = Append(workChan[n], h) /\ unsent'[n] = Tail(unsent[n])
        BY <3>1 DEF TypeOK
      <4> QED  BY <4>1, <4>2, <4>3
    <3>2. CASE workChan'[n] = workChan[n] /\ unsent'[n] = unsent[n]
      BY <3>2
    <3> QED  BY <1>2, <3>1, <3>2 DEF SendWork, TypeOK
  <2> QED  BY <2>1, <2>2, <2>3 DEF AccountedFor, WorkersOf
<1>3. ASSUME NEW m \in NodeENIs, CollectResults(m) \/ RemoveFinalizer(m)
      PROVE  AccountedFor(n, e)'
  <2>1. (\E q \in {"remove", "idle"} : phase' = [phase EXCEPT ![m] = q]) /\ env' = env
    BY <1>3 DEF CollectResults, RemoveFinalizer
  <2>2. UNCHANGED <<unsent, workChan, results, goroutine, work, succeeded, cleaned>>
    BY <1>3 DEF CollectResults, RemoveFinalizer
  <2>3. AtWork(n)
    BY <2>1 DEF AtWork, TypeOK
  <2> QED
    BY <1>a, <2>2, <2>3 DEF AccountedFor, WorkersOf, Holds
<1>4. ASSUME NEW w \in Workers, WorkerStep(w) PROVE AccountedFor(n, e)'
  <2>1. AtWork(n) /\ ~env.cancelled
    <3>1. phase' = phase /\ env' = env
      BY <1>4 DEF WorkerStep, TakeWork, WorkerExits, Acquire, Refused, CleanUp, Report
    <3> QED  BY <3>1 DEF AtWork
  <2>2. AccountedFor(n, e)  BY <1>a, <2>1
  <2>3. \A v \in WorkersOf(n) \ {w} : Holds(v, e) => Holds(v, e)'
    <3>0. CASE TakeWork(w)  BY <3>0 DEF TakeWork, Holds, WorkersOf, TypeOK
    <3>1. CASE WorkerExits(w) \/ Acquire(w)
      BY <3>1 DEF WorkerExits, Acquire, Holds, WorkersOf, TypeOK
    <3>2. CASE Refused(w)  BY <3>2 DEF Refused, Holds, WorkersOf, TypeOK
    <3>3. CASE CleanUp(w)
      <4> PICK ok \in BOOLEAN : succeeded' = [succeeded EXCEPT ![w] = ok]
        BY <3>3, Zenon DEF CleanUp
      <4> QED  BY <3>3 DEF CleanUp, Holds, WorkersOf, TypeOK
    <3>4. CASE Report(w)
      <4>1. work' = [work EXCEPT ![w] = NoENI] /\ succeeded' = succeeded
            /\ \E g \in {"select", "off"} : goroutine' = [goroutine EXCEPT ![w] = g]
        BY <3>4 DEF Report
      <4>2. DOMAIN work = Workers /\ DOMAIN goroutine = Workers  BY DEF TypeOK
      <4> QED  BY <4>1, <4>2 DEF Holds, WorkersOf
    <3> QED  BY <1>4, <3>0, <3>1, <3>2, <3>3, <3>4 DEF WorkerStep
  <2>4. w[1] \in NodeENIs  OBVIOUS
  <2>5. CASE TakeWork(w)
    <3>1. cleaned' = cleaned /\ results' = results /\ unsent' = unsent /\ ~Holds(w, e)
      BY <2>5 DEF TakeWork, Holds
    <3>2. e \in ToSet(workChan[n])
          => e \in ToSet(workChan'[n]) \/ (w \in WorkersOf(n) /\ Holds(w, e)')
      <4>1. CASE w[1] = n
        <5>1. ToSet(workChan[n]) = {Head(workChan[n])} \cup ToSet(Tail(workChan[n]))
          BY <2>5, <4>1, OneTaken DEF TakeWork, TypeOK
        <5>2. workChan'[n] = Tail(workChan[n])
          BY <2>5, <4>1 DEF TakeWork, TypeOK
        <5>3. Head(workChan[n]) = e => w \in WorkersOf(n) /\ Holds(w, e)'
          BY <2>5, <4>1 DEF TakeWork, TypeOK, Holds, WorkersOf
        <5> QED  BY <5>1, <5>2, <5>3
      <4>2. CASE w[1] # n
        BY <2>5, <4>2 DEF TakeWork, TypeOK
      <4> QED  BY <4>1, <4>2
    <3> QED  BY <2>2, <2>3, <3>1, <3>2 DEF AccountedFor, WorkersOf
  <2>6. CASE WorkerExits(w) \/ Acquire(w) \/ Refused(w)
    <3>1. cleaned' = cleaned /\ results' = results /\ unsent' = unsent /\ workChan' = workChan
      BY <2>6 DEF WorkerExits, Acquire, Refused
    <3>2. Holds(w, e) => Holds(w, e)'
      <4>1. CASE WorkerExits(w)  BY <4>1 DEF WorkerExits, Holds
      <4>2. CASE Acquire(w)  BY <4>2 DEF Acquire, Holds, TypeOK
      <4>3. CASE Refused(w)  BY <4>3 DEF Refused, Holds, TypeOK
      <4> QED  BY <2>6, <4>1, <4>2, <4>3
    <3> QED  BY <2>2, <2>3, <3>1, <3>2 DEF AccountedFor, WorkersOf
  <2>7. CASE CleanUp(w)
    <3> PICK ok \in BOOLEAN, gone \in BOOLEAN :
           /\ ok => gone
           /\ succeeded' = [succeeded EXCEPT ![w] = ok]
           /\ cleaned' = IF gone THEN cleaned \cup {work[w]} ELSE cleaned
      BY <2>7, Zenon DEF CleanUp
    <3>1. cleaned \subseteq cleaned' /\ results' = results /\ unsent' = unsent
          /\ workChan' = workChan
      BY <2>7 DEF CleanUp
    <3>2. work' = work /\ goroutine'[w] = "report" /\ succeeded'[w] = ok
      BY <2>7 DEF CleanUp, TypeOK
    <3>3. Holds(w, e) => e \in cleaned' \/ Holds(w, e)'
      <4>1. CASE ok  BY <4>1 DEF Holds
      <4>2. CASE ~ok  BY <4>2, <3>2 DEF Holds
      <4> QED  BY <4>1, <4>2
    <3> QED  BY <2>2, <2>3, <3>1, <3>3 DEF AccountedFor, WorkersOf
  <2>8. CASE Report(w)
    <3>1. cleaned' = cleaned /\ unsent' = unsent /\ workChan' = workChan
          /\ results' = [results EXCEPT ![w[1]] = @ \cup {succeeded[w]}]
      BY <2>1, <2>8 DEF Report
    <3>2. results[n] \subseteq results'[n]
      BY <3>1 DEF TypeOK
    <3>3. w \in WorkersOf(n) /\ Holds(w, e) => FALSE \in results'[n]
      <4> SUFFICES ASSUME w[1] = n, ~succeeded[w]
                   PROVE  FALSE \in results'[n]
        BY <2>8 DEF Holds, WorkersOf, Report
      <4>1. succeeded[w] \in BOOLEAN  BY DEF TypeOK
      <4>2. succeeded[w] = FALSE  BY <4>1, Zenon
      <4>3. results'[n] = results[n] \cup {succeeded[w]}  BY <3>1, <2>4 DEF TypeOK
      <4> QED  BY <4>2, <4>3, Zenon
    <3> QED  BY <2>2, <2>3, <3>1, <3>2, <3>3 DEF AccountedFor, WorkersOf
  <2> QED  BY <1>4, <2>5, <2>6, <2>7, <2>8 DEF WorkerStep
<1>5. ASSUME Cancel \/ HealthChanges PROVE AccountedFor(n, e)'
  <2>1. AtWork(n)
    BY <1>5 DEF Cancel, HealthChanges, AtWork, TypeOK
  <2> QED
    BY <1>5, <1>a, <2>1 DEF Cancel, HealthChanges, AccountedFor, WorkersOf, Holds
<1> QED  BY <1>1, <1>2, <1>3, <1>4, <1>5 DEF Next, PoolStep

LEMMA CompleteStep ==
  ASSUME Pools, IInv, Next
  PROVE  Complete'
<1> USE DEF Pools
<1> SUFFICES ASSUME NEW n \in NodeENIs, phase'[n] = "remove", ~env'.cancelled
             PROVE  ENIsOf[n] \subseteq cleaned'
  BY DEF Complete
<1>0. TypeOK /\ phase \in [NodeENIs -> {"idle", "send", "abandon", "wait", "remove"}]
      /\ cleaned \subseteq cleaned' /\ (env.cancelled => env'.cancelled)
  <2>1. TypeOK  BY DEF IInv
  <2>2. ASSUME NEW m \in NodeENIs, PoolStep(m)
        PROVE  cleaned' = cleaned /\ env' = env
    BY <2>2 DEF PoolStep, StartWorkers, SendWork, CollectResults, RemoveFinalizer
  <2>3. ASSUME NEW w \in Workers, WorkerStep(w)
        PROVE  cleaned \subseteq cleaned' /\ env' = env
    BY <2>3 DEF WorkerStep, TakeWork, WorkerExits, Acquire, Refused, CleanUp, Report
  <2>4. ASSUME Cancel \/ HealthChanges
        PROVE  cleaned' = cleaned /\ (env.cancelled => env'.cancelled)
    BY <2>1, <2>4 DEF Cancel, HealthChanges, TypeOK
  <2> QED  BY <2>1, <2>2, <2>3, <2>4 DEF Next, TypeOK
<1>1. CASE phase[n] = "remove"
  BY <1>0, <1>1 DEF IInv, Complete
<1>2. CASE phase[n] # "remove"
  <2>1. CollectResults(n)
    <3>1. ASSUME NEW m \in NodeENIs, PoolStep(m) PROVE CollectResults(n)
      <4>1. CASE StartWorkers(m)  BY <1>0, <1>2, <4>1 DEF StartWorkers
      <4>2. CASE SendWork(m)  BY <1>0, <1>2, <4>2 DEF SendWork
      <4>3. CASE CollectResults(m)
        <5>1. m = n  BY <1>0, <1>2, <4>3 DEF CollectResults
        <5> QED  BY <4>3, <5>1
      <4>4. CASE RemoveFinalizer(m)  BY <1>0, <1>2, <4>4 DEF RemoveFinalizer
      <4> QED  BY <3>1, <4>1, <4>2, <4>3, <4>4 DEF PoolStep
    <3>2. ASSUME NEW w \in Workers, WorkerStep(w) PROVE FALSE
      BY <1>2, <3>2 DEF WorkerStep, TakeWork, WorkerExits, Acquire, Refused, CleanUp, Report
    <3>3. ASSUME Cancel \/ HealthChanges PROVE FALSE
      BY <1>2, <3>3 DEF Cancel, HealthChanges
    <3> QED  BY <3>1, <3>2, <3>3 DEF Next
  <2>2. phase[n] = "wait" /\ FALSE \notin results[n]
    BY <1>0, <2>1 DEF CollectResults
  <2>3. AtWork(n)
    BY <1>0, <2>2 DEF AtWork
  <2>4. \A w \in WorkersOf(n) : goroutine[w] = "off"
    BY <2>1 DEF CollectResults
  <2>5. unsent[n] = <<>> /\ workChan[n] = <<>>
    BY <2>2, <2>3, <2>4 DEF IInv, Drained, WorkersOf
  <2>6. ASSUME NEW e \in ENIsOf[n] PROVE e \in cleaned
    <3>1. AccountedFor(n, e)  BY <2>3 DEF IInv, Accounted
    <3>2. e \notin ToSet(unsent[n]) /\ e \notin ToSet(workChan[n])
      BY <2>5 DEF ToSet
    <3>3. \A w \in WorkersOf(n) : ~Holds(w, e)
      BY <2>4 DEF Holds
    <3> QED  BY <2>2, <3>1, <3>2, <3>3 DEF AccountedFor
  <2> QED  BY <1>0, <2>6
<1> QED  BY <1>1, <1>2

LEMMA InvStep ==
  ASSUME Pools, IInv, [Next]_vars
  PROVE  IInv'
<1>1. CASE Next
  <2>1. TypeOK' /\ NoWorkerLeft'
    BY <1>1, TypeStep, NoWorkerLeftStep DEF IInv
  <2>2. Accounted' /\ Drained'
    BY <1>1, AccountedStep, DrainedStep DEF IInv
  <2>3. Complete'
    BY <1>1, CompleteStep
  <2> QED  BY <2>1, <2>2, <2>3 DEF IInv
<1>2. CASE UNCHANGED vars
  <2>1. TypeOK' /\ NoWorkerLeft'
    BY <1>2 DEF IInv, vars, TypeOK, NoWorkerLeft
  <2>2. \A n \in NodeENIs : /\ AtWork(n)' <=> AtWork(n)
                            /\ \A e : AccountedFor(n, e) => AccountedFor(n, e)'
    BY <1>2 DEF vars, AtWork, AccountedFor, Holds, WorkersOf
  <2>3. Accounted'
    BY <2>2, Zenon DEF IInv, Accounted
  <2>4. Drained' /\ Complete'
    BY <1>2 DEF IInv, vars, AtWork, Drained, Complete
  <2> QED  BY <2>1, <2>3, <2>4 DEF IInv
<1> QED  BY <1>1, <1>2

\* The inductive invariant holds throughout.
THEOREM Invariance == ASSUME Pools PROVE Spec => []IInv
<1>1. Init => IInv  BY InitInv
<1>2. IInv /\ [Next]_vars => IInv'  BY InvStep
<1> QED  BY <1>1, <1>2, PTL DEF Spec

\* Every variable keeps its type, and a worker never holds an ENI another pool was given.
THEOREM TypeCorrectness == ASSUME Pools PROVE Spec => []TypeOK
<1>1. IInv => TypeOK  BY DEF IInv
<1> QED  BY <1>1, Invariance, PTL

\* parallelCleanupENIs returns when its workers have left: no cleanup is still running
\* when the next reconcile of the NodeENI, or the removal of its finalizer, begins.
THEOREM WorkersGone == ASSUME Pools PROVE Spec => []NoWorkerLeft
<1>1. IInv => NoWorkerLeft  BY DEF IInv
<1> QED  BY <1>1, Invariance, PTL

-----------------------------------------------------------------------------
(* The refinement *)

LEMMA InitRefines ==
  ASSUME Pools, Init
  PROVE  Contract!Init
  BY InitInv DEF Init, IInv, TypeOK, Contract!Init

LEMMA StepRefines ==
  ASSUME Pools, IInv, [Next]_vars
  PROVE  [Contract!Next]_<<finalizer, cleaned>>
<1>1. ASSUME NEW n \in NodeENIs, PoolStep(n)
      PROVE  [Contract!Next]_<<finalizer, cleaned>>
  <2>1. CASE StartWorkers(n) \/ SendWork(n) \/ CollectResults(n)
    BY <2>1 DEF StartWorkers, SendWork, CollectResults
  <2>2. CASE RemoveFinalizer(n)
    <3>1. cleaned' = cleaned /\ phase[n] = "remove"
      BY <2>2 DEF RemoveFinalizer
    <3>2. CASE finalizer' = finalizer  BY <3>1, <3>2
    <3>3. CASE finalizer' = finalizer \ {n} /\ ~env.cancelled
      <4>1. ENIsOf[n] \subseteq cleaned
        BY <3>1, <3>3 DEF IInv, Complete
      <4> QED  BY <3>1, <3>3, <4>1 DEF Contract!Next, Contract!RemoveFinalizer
    <3> QED  BY <2>2, <3>2, <3>3 DEF RemoveFinalizer
  <2> QED  BY <1>1, <2>1, <2>2 DEF PoolStep
<1>2. ASSUME NEW w \in Workers, WorkerStep(w)
      PROVE  [Contract!Next]_<<finalizer, cleaned>>
  <2>1. CASE CleanUp(w)
    <3>1. work[w] \in ENIs  BY <2>1 DEF IInv, TypeOK, CleanUp
    <3>2. finalizer' = finalizer /\ (cleaned' = cleaned \/ cleaned' = cleaned \cup {work[w]})
      BY <2>1 DEF CleanUp
    <3> QED  BY <3>1, <3>2 DEF Contract!Next, Contract!CleanUp
  <2>2. CASE ~CleanUp(w)
    BY <1>2, <2>2 DEF WorkerStep, TakeWork, WorkerExits, Acquire, Refused, Report
  <2> QED  BY <2>1, <2>2
<1>3. ASSUME Cancel \/ HealthChanges PROVE UNCHANGED <<finalizer, cleaned>>
  BY <1>3 DEF Cancel, HealthChanges
<1>4. ASSUME UNCHANGED vars PROVE UNCHANGED <<finalizer, cleaned>>
  BY <1>4 DEF vars
<1> QED  BY <1>1, <1>2, <1>3, <1>4 DEF Next

\* The finalizer goes only when every ENI of the NodeENI has been cleaned up, whatever the
\* workers, the channels and the locks do, and whenever the context is cancelled.
THEOREM Refinement == ASSUME Pools PROVE Spec => ImplementsContract
<1>1. Init => Contract!Init  BY InitRefines
<1>2. IInv /\ [Next]_vars => [Contract!Next]_<<finalizer, cleaned>>  BY StepRefines
<1> QED  BY <1>1, <1>2, Invariance, PTL DEF Spec, ImplementsContract, Contract!Spec

-----------------------------------------------------------------------------
(* The end of a pool *)

At(n, S) == {w \in WorkersOf(n) : goroutine[w] \in S}

PhasesLeft(n) ==
  CASE phase[n] = "send" -> 3 [] phase[n] = "idle" -> 0 [] phase[n] = "remove" -> 1 [] OTHER -> 2

\* A worker with an attachment counts the less the further it is.
CrewLeft(n) ==
  Cardinality(At(n, {"select", "acquire", "clean up", "report"}))
  + Cardinality(At(n, {"acquire", "clean up", "report"}))
  + Cardinality(At(n, {"acquire", "clean up"}))
  + Cardinality(At(n, {"acquire"}))

\* What the goroutines of a pool have left to do.
Left(n) == PhasesLeft(n) + 6 * Len(unsent[n]) + 5 * Len(workChan[n]) + CrewLeft(n)

\* A step of the pool's own goroutines.
OwnStep(n) == PoolStep(n) \/ \E w \in WorkersOf(n) : WorkerStep(w)

FiniteCrews == \A n \in NodeENIs : IsFiniteSet(WorkersOf(n))

\* How many workers are at certain places, when one of them moves.
LEMMA OneMoves ==
  ASSUME TypeOK, FiniteCrews, NEW n \in NodeENIs, NEW w \in WorkersOf(n), NEW g,
         goroutine' = [goroutine EXCEPT ![w] = g], NEW S
  PROVE  /\ Cardinality(At(n, S)) \in Nat /\ Cardinality(At(n, S)') \in Nat
         /\ Cardinality(At(n, S)') + (IF goroutine[w] \in S THEN 1 ELSE 0)
              = Cardinality(At(n, S)) + (IF g \in S THEN 1 ELSE 0)
<1> DEFINE here == At(n, S)
           there == At(n, S)'
<1>1. w \in Workers /\ \A v \in WorkersOf(n) : goroutine'[v] = IF v = w THEN g ELSE goroutine[v]
  BY DEF TypeOK, WorkersOf
<1>2. there = IF g \in S THEN here \cup {w} ELSE here \ {w}
  BY <1>1 DEF At, WorkersOf
<1>3. w \in here <=> goroutine[w] \in S
  BY DEF At
<1>4. IsFiniteSet(here)
  <2>1. IsFiniteSet(WorkersOf(n)) /\ here \subseteq WorkersOf(n)
    BY DEF FiniteCrews, At
  <2> QED  BY <2>1, FS_Subset
<1> HIDE DEF here, there
<1>5. Cardinality(here) \in Nat
  BY <1>4, FS_CardinalityType
<1>6. Cardinality(here \cup {w}) = IF w \in here THEN Cardinality(here) ELSE Cardinality(here) + 1
  BY <1>4, FS_AddElement
<1>7. Cardinality(here \ {w}) = IF w \in here THEN Cardinality(here) - 1 ELSE Cardinality(here)
  BY <1>4, FS_RemoveElement
<1>8. Cardinality(here \ {w}) \in Nat
  BY <1>4, FS_RemoveElement, FS_CardinalityType
<1>9. Cardinality(there) \in Nat /\ Cardinality(there) + (IF w \in here THEN 1 ELSE 0)
                                     = Cardinality(here) + (IF g \in S THEN 1 ELSE 0)
  <2>1. CASE g \in S
    BY <1>2, <1>5, <1>6, <2>1
  <2>2. CASE g \notin S
    BY <1>2, <1>5, <1>7, <1>8, <2>2
  <2> QED  BY <2>1, <2>2
<1> QED  BY <1>3, <1>5, <1>9 DEF here, there

\* The sum decreases with one of its parts, or by what a message weighs less in the channel.
LEMMA Weights ==
  \A p, q, u, v, c, d, k, l \in Nat :
    \/ q < p /\ v = u /\ d = c /\ l = k
    \/ q = p /\ v = u - 1 /\ d = c + 1 /\ l = k
    \/ q = p /\ v = u /\ d = c - 1 /\ l <= k + 3
    \/ q = p /\ v = u /\ d = c /\ l < k
    => q + 6 * v + 5 * d + l < p + 6 * u + 5 * c + k
  OBVIOUS

LEMMA FourAreNat == \A i, j, k, l \in Nat : i + j + k + l \in Nat
  OBVIOUS

LEMMA WeightIsNat == \A p, u, c, k \in Nat : p + 6 * u + 5 * c + k \in Nat
  OBVIOUS

\* What is left is a number, and so are its parts.
LeftNat ==
  \A n \in NodeENIs : /\ PhasesLeft(n) \in Nat /\ CrewLeft(n) \in Nat
                      /\ Len(unsent[n]) \in Nat /\ Len(workChan[n]) \in Nat
                      /\ Left(n) \in Nat

LEMMA LeftIsNat == TypeOK /\ FiniteCrews => LeftNat
<1> SUFFICES ASSUME TypeOK, FiniteCrews, NEW n \in NodeENIs
             PROVE  /\ PhasesLeft(n) \in Nat /\ CrewLeft(n) \in Nat
                    /\ Len(unsent[n]) \in Nat /\ Len(workChan[n]) \in Nat
                    /\ Left(n) \in Nat
  BY DEF LeftNat
<1>1. ASSUME NEW S PROVE Cardinality(At(n, S)) \in Nat
  <2>1. IsFiniteSet(WorkersOf(n)) /\ At(n, S) \subseteq WorkersOf(n)
    BY DEF FiniteCrews, At
  <2> QED  BY <2>1, FS_Subset, FS_CardinalityType
<1>2. CrewLeft(n) \in Nat
  <2>1. /\ Cardinality(At(n, {"select", "acquire", "clean up", "report"})) \in Nat
        /\ Cardinality(At(n, {"acquire", "clean up", "report"})) \in Nat
        /\ Cardinality(At(n, {"acquire", "clean up"})) \in Nat
        /\ Cardinality(At(n, {"acquire"})) \in Nat
    BY <1>1, Zenon
  <2> QED  BY <2>1, FourAreNat, Zenon DEF CrewLeft
<1>3. unsent[n] \in Seq(ENIs) /\ workChan[n] \in Seq(ENIs)
  BY DEF TypeOK
<1>4. Len(unsent[n]) \in Nat /\ Len(workChan[n]) \in Nat
  BY <1>3
<1>5. PhasesLeft(n) \in Nat
  BY DEF PhasesLeft
<1>6. PhasesLeft(n) + 6 * Len(unsent[n]) + 5 * Len(workChan[n]) + CrewLeft(n) \in Nat
  BY <1>2, <1>4, <1>5, WeightIsNat, Zenon
<1> QED  BY <1>2, <1>4, <1>5, <1>6 DEF Left

\* A step decreases what is left if it does so to the parts.
LEMMA PartsDecrease ==
  ASSUME LeftNat, LeftNat', NEW n \in NodeENIs,
         \/ /\ PhasesLeft(n)' < PhasesLeft(n) /\ Len(unsent[n])' = Len(unsent[n])
            /\ Len(workChan[n])' = Len(workChan[n]) /\ CrewLeft(n)' = CrewLeft(n)
         \/ /\ PhasesLeft(n)' = PhasesLeft(n) /\ Len(unsent[n])' = Len(unsent[n]) - 1
            /\ Len(workChan[n])' = Len(workChan[n]) + 1 /\ CrewLeft(n)' = CrewLeft(n)
         \/ /\ PhasesLeft(n)' = PhasesLeft(n) /\ Len(unsent[n])' = Len(unsent[n])
            /\ Len(workChan[n])' = Len(workChan[n]) - 1 /\ CrewLeft(n)' <= CrewLeft(n) + 3
         \/ /\ PhasesLeft(n)' = PhasesLeft(n) /\ Len(unsent[n])' = Len(unsent[n])
            /\ Len(workChan[n])' = Len(workChan[n]) /\ CrewLeft(n)' < CrewLeft(n)
  PROVE  Left(n)' < Left(n)
<1>1. /\ PhasesLeft(n) \in Nat /\ CrewLeft(n) \in Nat
      /\ Len(unsent[n]) \in Nat /\ Len(workChan[n]) \in Nat
  BY DEF LeftNat
<1>2. /\ PhasesLeft(n)' \in Nat /\ CrewLeft(n)' \in Nat
      /\ Len(unsent[n])' \in Nat /\ Len(workChan[n])' \in Nat
  BY DEF LeftNat
<1>3. PhasesLeft(n)' + 6 * Len(unsent[n])' + 5 * Len(workChan[n])' + CrewLeft(n)'
        < PhasesLeft(n) + 6 * Len(unsent[n]) + 5 * Len(workChan[n]) + CrewLeft(n)
  BY <1>1, <1>2, Weights, ZenonT(30)
<1> QED  BY <1>3 DEF Left

\* A move of the reconcile's goroutine.
LEMMA PoolStepDecreases ==
  ASSUME TypeOK, LeftNat, LeftNat', NEW n \in NodeENIs, phase[n] # "idle", PoolStep(n)
  PROVE  Left(n)' < Left(n)
<1>1. CrewLeft(n)' = CrewLeft(n)
  <2>1. UNCHANGED goroutine
    BY DEF PoolStep, StartWorkers, SendWork, CollectResults, RemoveFinalizer
  <2> QED  BY <2>1 DEF CrewLeft, At, WorkersOf
<1>2. CASE SendWork(n) /\ phase'[n] = "send"
  <2>0. /\ workChan' = [workChan EXCEPT ![n] = Append(@, Head(unsent[n]))]
        /\ unsent' = [unsent EXCEPT ![n] = Tail(@)]
        /\ unsent[n] # <<>> /\ phase' = phase
    BY <1>2 DEF SendWork, TypeOK
  <2>1. /\ workChan'[n] = Append(workChan[n], Head(unsent[n])) /\ unsent'[n] = Tail(unsent[n])
        /\ unsent[n] # <<>> /\ phase' = phase
    BY <2>0 DEF TypeOK
  <2>2. unsent[n] \in Seq(ENIs) /\ workChan[n] \in Seq(ENIs)
    BY DEF TypeOK
  <2>3. Len(Tail(unsent[n])) = Len(unsent[n]) - 1 /\ Head(unsent[n]) \in ENIs
    BY <2>1, <2>2, HeadTailProperties
  <2>4. Len(Append(workChan[n], Head(unsent[n]))) = Len(workChan[n]) + 1
    BY <2>2, <2>3, AppendProperties
  <2>5. PhasesLeft(n)' = PhasesLeft(n)
    BY <2>1 DEF PhasesLeft
  <2> QED  BY <1>1, <2>1, <2>3, <2>4, <2>5, PartsDecrease
<1>3. CASE ~(SendWork(n) /\ phase'[n] = "send")
  <2>1. /\ UNCHANGED <<unsent, workChan>>
        /\ \/ phase[n] = "send" /\ phase'[n] \in {"abandon", "wait"}
           \/ phase[n] \in {"abandon", "wait"} /\ phase'[n] \in {"remove", "idle"}
           \/ phase[n] = "remove" /\ phase'[n] = "idle"
    <3>1. CASE SendWork(n)  BY <1>3, <3>1 DEF SendWork, TypeOK
    <3>2. CASE CollectResults(n)  BY <3>2 DEF CollectResults, TypeOK
    <3>3. CASE RemoveFinalizer(n)
      <4>1. phase[n] = "remove" /\ phase' = [phase EXCEPT ![n] = "idle"]
            /\ UNCHANGED <<unsent, workChan>>
        BY <3>3, Zenon DEF RemoveFinalizer
      <4> QED  BY <4>1 DEF TypeOK
    <3> QED  BY <3>1, <3>2, <3>3 DEF PoolStep, StartWorkers
  <2>2. PhasesLeft(n)' < PhasesLeft(n)
    BY <2>1 DEF PhasesLeft
  <2> QED  BY <1>1, <2>1, <2>2, PartsDecrease
<1> QED  BY <1>2, <1>3

\* A sum of four numbers decreases with one of them, and grows by three with three.
LEMMA FourDecrease ==
  \A i, j, k, l, a, b, c, d \in Nat :
    a <= i /\ b <= j /\ c <= k /\ d <= l /\ (a < i \/ b < j \/ c < k \/ d < l)
    => a + b + c + d < i + j + k + l
  OBVIOUS

LEMMA ThreeGrow ==
  \A i, j, k, l, a, b, c, d \in Nat :
    a <= i /\ b <= j + 1 /\ c <= k + 1 /\ d <= l + 1 => a + b + c + d <= i + j + k + l + 3
  OBVIOUS

\* A worker's move counts for what it is.
LEMMA CrewMoves ==
  ASSUME TypeOK, FiniteCrews, NEW n \in NodeENIs, NEW w \in WorkersOf(n),
         NEW g, goroutine' = [goroutine EXCEPT ![w] = g]
  PROVE  /\ goroutine[w] = "select" /\ g = "acquire" => CrewLeft(n)' <= CrewLeft(n) + 3
         /\ \/ goroutine[w] = "select" /\ g = "off"
            \/ goroutine[w] = "acquire" /\ g \in {"clean up", "report"}
            \/ goroutine[w] = "clean up" /\ g = "report"
            \/ goroutine[w] = "report" /\ g \in {"select", "off"}
            => CrewLeft(n)' < CrewLeft(n)
<1> DEFINE S1 == {"select", "acquire", "clean up", "report"}
           S2 == {"acquire", "clean up", "report"}
           S3 == {"acquire", "clean up"}
           S4 == {"acquire"}
           k(S) == Cardinality(At(n, S))
           l(S) == Cardinality(At(n, S)')
<1>1. ASSUME NEW S
      PROVE  /\ k(S) \in Nat /\ l(S) \in Nat
             /\ (g \in S => goroutine[w] \in S) => l(S) <= k(S)
             /\ goroutine[w] \in S /\ g \notin S => l(S) < k(S)
             /\ l(S) <= k(S) + 1
  <2>1. /\ k(S) \in Nat /\ l(S) \in Nat
        /\ l(S) + (IF goroutine[w] \in S THEN 1 ELSE 0) = k(S) + (IF g \in S THEN 1 ELSE 0)
    BY OneMoves
  <2> HIDE DEF k, l
  <2> QED  BY <2>1
<1>2. /\ CrewLeft(n) = k(S1) + k(S2) + k(S3) + k(S4)
      /\ CrewLeft(n)' = l(S1) + l(S2) + l(S3) + l(S4)
  BY Zenon DEF CrewLeft
<1> HIDE DEF k, l
<1>3. /\ k(S1) \in Nat /\ k(S2) \in Nat /\ k(S3) \in Nat /\ k(S4) \in Nat
      /\ l(S1) \in Nat /\ l(S2) \in Nat /\ l(S3) \in Nat /\ l(S4) \in Nat
  BY <1>1, Zenon
<1>4. CASE goroutine[w] = "select" /\ g = "acquire"
  <2>1. g \in S1 => goroutine[w] \in S1
    BY <1>4
  <2>2. l(S1) <= k(S1) /\ l(S2) <= k(S2) + 1 /\ l(S3) <= k(S3) + 1 /\ l(S4) <= k(S4) + 1
    BY <1>1, <2>1, Zenon
  <2>3. l(S1) + l(S2) + l(S3) + l(S4) <= k(S1) + k(S2) + k(S3) + k(S4) + 3
    <3> HIDE DEF S1, S2, S3, S4
    <3> QED  BY <1>3, <2>2, ThreeGrow, Zenon
  <2> QED  BY <1>2, <1>4, <2>3
<1>5. ASSUME \/ goroutine[w] = "select" /\ g = "off"
             \/ goroutine[w] = "acquire" /\ g \in {"clean up", "report"}
             \/ goroutine[w] = "clean up" /\ g = "report"
             \/ goroutine[w] = "report" /\ g \in {"select", "off"}
      PROVE  CrewLeft(n)' < CrewLeft(n)
  <2>1. /\ g \in S1 => goroutine[w] \in S1
        /\ g \in S2 => goroutine[w] \in S2
        /\ g \in S3 => goroutine[w] \in S3
        /\ g \in S4 => goroutine[w] \in S4
    BY <1>5
  <2>2. \/ goroutine[w] \in S1 /\ g \notin S1
        \/ goroutine[w] \in S2 /\ g \notin S2
        \/ goroutine[w] \in S3 /\ g \notin S3
        \/ goroutine[w] \in S4 /\ g \notin S4
    BY <1>5
  <2> HIDE DEF S1, S2, S3, S4
  <2>3. l(S1) <= k(S1) /\ l(S2) <= k(S2) /\ l(S3) <= k(S3) /\ l(S4) <= k(S4)
    BY <1>1, <2>1, Zenon
  <2>4. l(S1) < k(S1) \/ l(S2) < k(S2) \/ l(S3) < k(S3) \/ l(S4) < k(S4)
    BY <1>1, <2>2, Zenon
  <2>5. l(S1) + l(S2) + l(S3) + l(S4) < k(S1) + k(S2) + k(S3) + k(S4)
    BY <1>3, <2>3, <2>4, FourDecrease, Zenon
  <2> QED  BY <1>2, <2>5, Zenon
<1> QED  BY <1>4, <1>5

\* A move of one of the pool's workers.
LEMMA WorkerStepDecreases ==
  ASSUME TypeOK, FiniteCrews, LeftNat, LeftNat', NEW n \in NodeENIs, NEW w \in WorkersOf(n),
         WorkerStep(w)
  PROVE  Left(n)' < Left(n)
<1>1. w \in Workers /\ w[1] = n
  BY DEF WorkersOf
<1>2. PhasesLeft(n)' = PhasesLeft(n) /\ unsent' = unsent
  BY DEF PhasesLeft, WorkerStep, TakeWork, WorkerExits, Acquire, Refused, CleanUp, Report
<1>3. CASE TakeWork(w)
  <2>1. /\ goroutine[w] = "select" /\ goroutine' = [goroutine EXCEPT ![w] = "acquire"]
        /\ workChan[n] # <<>> /\ workChan'[n] = Tail(workChan[n])
    BY <1>1, <1>3 DEF TakeWork, TypeOK
  <2>2. workChan[n] \in Seq(ENIs)
    BY DEF TypeOK
  <2>3. Len(Tail(workChan[n])) = Len(workChan[n]) - 1
    BY <2>1, <2>2, HeadTailProperties
  <2>4. CrewLeft(n)' <= CrewLeft(n) + 3
    BY <2>1, CrewMoves
  <2> QED  BY <1>2, <2>1, <2>3, <2>4, PartsDecrease
<1>4. CASE ~TakeWork(w)
  <2>1. workChan' = workChan
    BY <1>4 DEF WorkerStep, WorkerExits, Acquire, Refused, CleanUp, Report
  <2>2. \E g : /\ goroutine' = [goroutine EXCEPT ![w] = g]
               /\ \/ goroutine[w] = "select" /\ g = "off"
                  \/ goroutine[w] = "acquire" /\ g \in {"clean up", "report"}
                  \/ goroutine[w] = "clean up" /\ g = "report"
                  \/ goroutine[w] = "report" /\ g \in {"select", "off"}
    BY <1>4 DEF WorkerStep, WorkerExits, Acquire, Refused, CleanUp, Report
  <2>3. CrewLeft(n)' < CrewLeft(n)
    BY <2>2, CrewMoves
  <2> QED  BY <1>2, <2>1, <2>3, PartsDecrease
<1> QED  BY <1>3, <1>4

\* The goroutines of other pools leave this one alone.
LEMMA OthersLeave ==
  ASSUME TypeOK, Pools, NEW n \in NodeENIs, [Next]_vars, ~OwnStep(n)
  PROVE  Left(n)' = Left(n)
<1>1. /\ phase'[n] = phase[n] /\ unsent'[n] = unsent[n] /\ workChan'[n] = workChan[n]
      /\ \A w \in WorkersOf(n) : goroutine'[w] = goroutine[w]
  <2>1. ASSUME NEW m \in NodeENIs, m # n, StartWorkers(m)
        PROVE  /\ phase'[n] = phase[n] /\ unsent'[n] = unsent[n]
               /\ workChan'[n] = workChan[n]
               /\ \A w \in WorkersOf(n) : goroutine'[w] = goroutine[w]
    <3>1. /\ phase' = [phase EXCEPT ![m] = "send"]
          /\ unsent' = [unsent EXCEPT ![m] = SetToSeq(ENIsOf[m])]
          /\ workChan' = [workChan EXCEPT ![m] = <<>>]
      BY <2>1, Zenon DEF StartWorkers
    <3>2. phase'[n] = phase[n] /\ unsent'[n] = unsent[n] /\ workChan'[n] = workChan[n]
      <4>1. DOMAIN phase = NodeENIs /\ DOMAIN unsent = NodeENIs /\ DOMAIN workChan = NodeENIs
        BY DEF TypeOK
      <4> QED  BY <2>1, <3>1, <4>1
    <3>3. \A w \in WorkersOf(n) : w \in Workers /\ w \notin WorkersOf(m)
      BY <2>1 DEF WorkersOf
    <3>4. \A w \in WorkersOf(n) : goroutine'[w] = goroutine[w]
      BY <2>1, <3>3 DEF StartWorkers
    <3> QED  BY <3>2, <3>4
  <2>2. ASSUME NEW m \in NodeENIs, m # n, SendWork(m) \/ CollectResults(m)
        PROVE  /\ phase'[n] = phase[n] /\ unsent'[n] = unsent[n]
               /\ workChan'[n] = workChan[n] /\ goroutine' = goroutine
    <3>1. /\ phase' = phase \/ \E p : phase' = [phase EXCEPT ![m] = p]
          /\ unsent' = unsent \/ unsent' = [unsent EXCEPT ![m] = Tail(@)]
          /\ \/ workChan' = workChan
             \/ workChan' = [workChan EXCEPT ![m] = Append(@, Head(unsent[m]))]
          /\ goroutine' = goroutine
      <4>1. CASE SendWork(m)  BY <4>1, Zenon DEF SendWork
      <4>2. CASE CollectResults(m)  BY <4>2, Zenon DEF CollectResults
      <4> QED  BY <2>2, <4>1, <4>2
    <3>2. DOMAIN phase = NodeENIs /\ DOMAIN unsent = NodeENIs /\ DOMAIN workChan = NodeENIs
      BY DEF TypeOK
    <3>3. phase'[n] = phase[n]  BY <2>2, <3>1, <3>2
    <3>4. unsent'[n] = unsent[n]  BY <2>2, <3>1, <3>2
    <3>5. workChan'[n] = workChan[n]  BY <2>2, <3>1, <3>2
    <3> QED  BY <3>1, <3>3, <3>4, <3>5
  <2>3. ASSUME NEW m \in NodeENIs, m # n, RemoveFinalizer(m)
        PROVE  /\ phase'[n] = phase[n] /\ UNCHANGED <<unsent, workChan, goroutine>>
    <3>1. phase' = [phase EXCEPT ![m] = "idle"] /\ UNCHANGED <<unsent, workChan, goroutine>>
      BY <2>3, Zenon DEF RemoveFinalizer
    <3> QED  BY <2>3, <3>1 DEF TypeOK
  <2>4. ASSUME NEW v \in Workers, v[1] # n, WorkerStep(v)
        PROVE  /\ phase'[n] = phase[n] /\ unsent'[n] = unsent[n]
               /\ workChan'[n] = workChan[n]
               /\ \A w \in WorkersOf(n) : goroutine'[w] = goroutine[w]
    <3>1. \A w \in WorkersOf(n) : w # v /\ w \in Workers
      BY <2>4 DEF WorkersOf
    <3>2. UNCHANGED <<phase, unsent>>
          /\ (workChan' = workChan \/ workChan' = [workChan EXCEPT ![v[1]] = Tail(@)])
          /\ \E g : goroutine' = [goroutine EXCEPT ![v] = g]
      BY <2>4, Zenon DEF WorkerStep, TakeWork, WorkerExits, Acquire, Refused, CleanUp, Report
    <3>3. workChan'[n] = workChan[n]
      <4>1. DOMAIN workChan = NodeENIs
        BY DEF TypeOK
      <4> QED  BY <2>4, <3>2, <4>1
    <3>4. PICK g : goroutine' = [goroutine EXCEPT ![v] = g]
      BY <3>2
    <3>5. \A w \in WorkersOf(n) : goroutine'[w] = goroutine[w]
      BY <3>1, <3>4 DEF TypeOK
    <3> QED  BY <3>2, <3>3, <3>5
  <2>5. CASE UNCHANGED <<phase, unsent, workChan, goroutine>>
    BY <2>5
  <2>6. \/ \E m \in NodeENIs \ {n} : PoolStep(m)
        \/ \E v \in Workers : v[1] # n /\ WorkerStep(v)
        \/ UNCHANGED <<phase, unsent, workChan, goroutine>>
    BY DEF Next, OwnStep, WorkersOf, Cancel, HealthChanges, vars
  <2> QED  BY <2>1, <2>2, <2>3, <2>4, <2>5, <2>6 DEF PoolStep
<1>2. ASSUME NEW S PROVE At(n, S)' = At(n, S)
  BY <1>1 DEF At, WorkersOf
<1>3. CrewLeft(n)' = CrewLeft(n)
  <2>1. /\ At(n, {"select", "acquire", "clean up", "report"})'
             = At(n, {"select", "acquire", "clean up", "report"})
        /\ At(n, {"acquire", "clean up", "report"})' = At(n, {"acquire", "clean up", "report"})
        /\ At(n, {"acquire", "clean up"})' = At(n, {"acquire", "clean up"})
        /\ At(n, {"acquire"})' = At(n, {"acquire"})
    BY <1>2, Zenon
  <2> QED  BY <2>1, Zenon DEF CrewLeft
<1>4. PhasesLeft(n)' = PhasesLeft(n)
  BY <1>1 DEF PhasesLeft
<1> QED  BY <1>1, <1>3, <1>4 DEF Left

\* Every parallel cleanup is over after a number of steps of its own goroutines that is known
\* when it begins: no attachment goes round, no worker begins anew, and what other pools
\* and the rest of the world do makes none of it longer.
THEOREM PoolsAreBounded ==
  ASSUME Pools, FiniteCrews
  PROVE  Spec => [][\A n \in NodeENIs :
                      /\ Left(n) \in Nat /\ Left(n)' \in Nat
                      /\ phase[n] # "idle" /\ OwnStep(n) => Left(n)' < Left(n)
                      /\ ~OwnStep(n) => Left(n)' = Left(n)]_vars
<1>1. ASSUME TypeOK, NoWorkerLeft, LeftNat, LeftNat', [Next]_vars
      PROVE  [\A n \in NodeENIs :
                /\ Left(n) \in Nat /\ Left(n)' \in Nat
                /\ phase[n] # "idle" /\ OwnStep(n) => Left(n)' < Left(n)
                /\ ~OwnStep(n) => Left(n)' = Left(n)]_vars
  <2>1. ASSUME NEW n \in NodeENIs
        PROVE  Left(n) \in Nat /\ Left(n)' \in Nat
    BY <1>1 DEF LeftNat
  <2>2. ASSUME NEW n \in NodeENIs, phase[n] # "idle", OwnStep(n)
        PROVE  Left(n)' < Left(n)
    BY <1>1, <2>2, PoolStepDecreases, WorkerStepDecreases DEF OwnStep
  <2>3. ASSUME NEW n \in NodeENIs, ~OwnStep(n)
        PROVE  Left(n)' = Left(n)
    BY <1>1, <2>3, OthersLeave
  <2> QED  BY <2>1, <2>2, <2>3
<1>2. IInv => TypeOK /\ NoWorkerLeft /\ LeftNat
  BY LeftIsNat DEF IInv
<1> QED  BY <1>1, <1>2, Invariance, PTL DEF Spec

=============================================================================
