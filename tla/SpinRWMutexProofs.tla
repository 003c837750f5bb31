--------------------------- MODULE SpinRWMutexProofs ---------------------------
(***************************************************************************)
(* Proofs about SpinRWMutex for any finite set of threads.  The word alone *)
(* decides who may enter, so mutual exclusion rests on the word counting   *)
(* the holders exactly; that in turn rests on a reader never swapping in a *)
(* value it computed from a writer's -1.                                   *)
(***************************************************************************)
EXTENDS SpinRWMutex, FiniteSetTheorems, TLAPS

\* A thread about to swap has loaded a value that no writer had stored.
SeenFree == \A t \in Threads : pc[t] = "rcas" => seen[t] >= 0

IInv == TypeOK /\ SeenFree /\ Exclusion /\ WordCountsHolders

\* The set of readers is finite and its size is a natural number, which is
\* zero exactly when there are none.
LEMMA ReadersCount ==
  /\ IsFiniteSet(readers)
  /\ Cardinality(readers) \in Nat
  /\ Cardinality(readers) = 0 <=> readers = {}
<1>1. readers \subseteq Threads  BY DEF readers
<1>2. IsFiniteSet(readers)  BY <1>1, ThreadsFinite, FS_Subset
<1>3. QED  BY <1>2, FS_CardinalityType, FS_EmptySet

\* A thread that stops or starts reading changes the set of readers by itself
\* alone, and the sizes before and after differ by one.
LEMMA ReaderEnters ==
  ASSUME TypeOK, NEW t \in Threads, pc[t] # "reading", pc' = [pc EXCEPT ![t] = "reading"]
  PROVE  readers' = readers \cup {t} /\ Cardinality(readers') = Cardinality(readers) + 1
<1>1. readers' = readers \cup {t} /\ t \notin readers  BY DEF readers, TypeOK
<1>2. QED  BY <1>1, ReadersCount, FS_AddElement

LEMMA ReaderLeaves ==
  ASSUME TypeOK, NEW t \in Threads, pc[t] = "reading", pc' = [pc EXCEPT ![t] = "idle"]
  PROVE  readers' = readers \ {t} /\ Cardinality(readers') = Cardinality(readers) - 1
<1>1. readers' = readers \ {t} /\ t \in readers  BY DEF readers, TypeOK
<1>2. QED  BY <1>1, ReadersCount, FS_RemoveElement

\* A move between two places outside the critical section disturbs nobody.
LEMMA OutsideMove ==
  ASSUME TypeOK, NEW t \in Threads, NEW l \in {"idle"} \cup Waiting,
         pc[t] \notin Holding, pc' = [pc EXCEPT ![t] = l]
  PROVE  readers' = readers /\ writers' = writers
BY DEF TypeOK, readers, writers, Waiting, Holding

\* With the word equal to 0 nobody is inside; with the word not negative no
\* writer is.
LEMMA WordReadsRight ==
  ASSUME IInv
  PROVE  /\ m = 0 => readers = {} /\ writers = {}
         /\ m >= 0 => writers = {}
BY ReadersCount DEF IInv, WordCountsHolders, Writer

LEMMA Inductive == IInv /\ [Next]_vars => IInv'
<1> SUFFICES ASSUME IInv, [Next]_vars PROVE IInv'
  OBVIOUS
<1> USE DEF IInv, Goto
<1>1. CASE UNCHANGED vars
  BY <1>1 DEF vars, TypeOK, SeenFree, Exclusion, WordCountsHolders, readers, writers
<1>2. ASSUME NEW t \in Threads, Call(t) \/ Step(t) PROVE IInv'
  <2>1. CASE Call(t)
    <3>1. readers' = readers /\ writers' = writers
      BY <2>1, OutsideMove DEF Call, Waiting, Holding
    <3>2. TypeOK'  BY <2>1 DEF Call, TypeOK, Waiting
    <3>3. SeenFree'  BY <2>1 DEF Call, SeenFree, TypeOK
    <3>4. QED  BY <2>1, <3>1, <3>2, <3>3 DEF Call, Exclusion, WordCountsHolders
  <2>2. CASE RLockLoad(t)
    <3>1. readers' = readers /\ writers' = writers
      BY <2>2, OutsideMove DEF RLockLoad, Waiting, Holding
    <3>2. TypeOK'  BY <2>2 DEF RLockLoad, TypeOK, Waiting
    <3>3. SeenFree'  BY <2>2 DEF RLockLoad, SeenFree, TypeOK
    <3>4. QED  BY <2>2, <3>1, <3>2, <3>3 DEF RLockLoad, Exclusion, WordCountsHolders
  <2>3. CASE RLockCas(t) /\ m = seen[t]
    <3>1. m >= 0 /\ writers = {}
      BY <2>3, WordReadsRight DEF RLockCas, SeenFree
    <3>2. readers' = readers \cup {t} /\ Cardinality(readers') = Cardinality(readers) + 1
      BY <2>3, ReaderEnters DEF RLockCas
    <3>3. writers' = {}  BY <2>3, <3>1 DEF RLockCas, writers, TypeOK
    <3>4. TypeOK'  BY <2>3, <3>1 DEF RLockCas, TypeOK, Holding, Writer
    <3>5. SeenFree'  BY <2>3 DEF RLockCas, SeenFree, TypeOK
    <3>6. Exclusion'  BY <3>3 DEF Exclusion
    <3>7. WordCountsHolders'
      BY <2>3, <3>1, <3>2, <3>3 DEF RLockCas, WordCountsHolders
    <3>8. QED  BY <3>4, <3>5, <3>6, <3>7
  <2>4. CASE RLockCas(t) /\ m # seen[t]
    <3>1. readers' = readers /\ writers' = writers
      BY <2>4, OutsideMove DEF RLockCas, Waiting, Holding
    <3>2. TypeOK'  BY <2>4 DEF RLockCas, TypeOK, Waiting
    <3>3. SeenFree'  BY <2>4 DEF RLockCas, SeenFree, TypeOK
    <3>4. QED  BY <2>4, <3>1, <3>2, <3>3 DEF RLockCas, Exclusion, WordCountsHolders
  <2>5. CASE RUnlock(t)
    <3>1. writers = {}  BY <2>5 DEF RUnlock, Exclusion, readers, writers
    <3>2. readers' = readers \ {t} /\ Cardinality(readers') = Cardinality(readers) - 1
      BY <2>5, ReaderLeaves DEF RUnlock
    <3>3. writers' = {}  BY <2>5, <3>1 DEF RUnlock, writers, TypeOK
    <3>4. TypeOK'
      <4>1. m \in Nat /\ m # 0
        BY <2>5, <3>1, ReadersCount DEF RUnlock, WordCountsHolders, readers
      <4>2. m - 1 \in Nat  BY <4>1
      <4>3. QED  BY <2>5, <4>2 DEF RUnlock, TypeOK
    <3>5. SeenFree'  BY <2>5 DEF RUnlock, SeenFree, TypeOK
    <3>6. Exclusion'  BY <3>3 DEF Exclusion
    <3>7. WordCountsHolders'
      BY <2>5, <3>1, <3>2, <3>3 DEF RUnlock, WordCountsHolders
    <3>8. QED  BY <3>4, <3>5, <3>6, <3>7
  <2>6. CASE LockCas(t) /\ m = 0
    <3>1. readers = {} /\ writers = {}  BY <2>6, WordReadsRight
    <3>2. readers' = {} /\ writers' = {t}
      BY <2>6, <3>1 DEF LockCas, readers, writers, TypeOK
    <3>3. TypeOK'  BY <2>6 DEF LockCas, TypeOK, Holding, Writer
    <3>4. SeenFree'  BY <2>6 DEF LockCas, SeenFree, TypeOK
    <3>5. QED  BY <2>6, <3>2, <3>3, <3>4 DEF LockCas, Exclusion, WordCountsHolders
  <2>7. CASE LockCas(t) /\ m # 0
    BY <2>7 DEF LockCas, TypeOK, SeenFree, Exclusion, WordCountsHolders, readers, writers
  <2>8. CASE Unlock(t)
    <3>1. readers = {} /\ writers = {t}
      BY <2>8 DEF Unlock, Exclusion, writers
    <3>2. readers' = {} /\ writers' = {}
      BY <2>8, <3>1 DEF Unlock, readers, writers, TypeOK
    <3>3. TypeOK'  BY <2>8 DEF Unlock, TypeOK
    <3>4. SeenFree'  BY <2>8 DEF Unlock, SeenFree, TypeOK
    <3>5. Cardinality({}) = 0  BY FS_EmptySet
    <3>6. QED  BY <2>8, <3>2, <3>3, <3>4, <3>5 DEF Unlock, Exclusion, WordCountsHolders
  <2>9. QED
    BY <1>2, <2>1, <2>2, <2>3, <2>4, <2>5, <2>6, <2>7, <2>8 DEF Step
<1>3. QED  BY <1>1, <1>2 DEF Next

LEMMA Initial == Init => IInv
<1> SUFFICES ASSUME Init PROVE IInv
  OBVIOUS
<1>1. readers = {} /\ writers = {}  BY DEF Init, readers, writers
<1>2. Cardinality({}) = 0  BY FS_EmptySet
<1>3. QED
  BY <1>1, <1>2 DEF Init, IInv, TypeOK, SeenFree, Exclusion, WordCountsHolders

LEMMA Invariance == Spec => []IInv
BY Initial, Inductive, PTL DEF Spec

\* Every thread is at an instruction that the lock has, and the word, which a swap
\* never makes less than -1, holds what RLock can have loaded.
THEOREM TypesHold == Spec => []TypeOK
<1>1. IInv => TypeOK  BY DEF IInv
<1>2. QED  BY <1>1, Invariance, PTL

\* The word always is -1 under a writer and the number of readers otherwise,
\* so neither unlock, though it does not look, can corrupt it.
THEOREM WordIsExact == Spec => [](TypeOK /\ WordCountsHolders)
<1>1. IInv => TypeOK /\ WordCountsHolders  BY DEF IInv
<1>2. QED  BY <1>1, Invariance, PTL

\* Mutual exclusion of writers with readers and with each other, for every
\* number of threads: the critical sections of a shard are atomic.
THEOREM MutualExclusion == Spec => []Exclusion
<1>1. IInv => Exclusion  BY DEF IInv
<1>2. QED  BY <1>1, Invariance, PTL

\* Each step of the spin lock is a step of the reader/writer lock or changes
\* nobody's hold on it.
LEMMA StepRefines == IInv /\ IInv' /\ [Next]_vars => [L!Next]_(L!vars)
<1> SUFFICES ASSUME IInv, [Next]_vars PROVE [L!Next]_(L!vars)
  OBVIOUS
<1> USE DEF IInv, Goto, L!vars
<1>1. CASE UNCHANGED vars  BY <1>1 DEF vars, readers, writers
<1>2. ASSUME NEW t \in Threads, Call(t) \/ Step(t) PROVE [L!Next]_(L!vars)
  <2>1. CASE Call(t) \/ RLockLoad(t) \/ (RLockCas(t) /\ m # seen[t]) \/ (LockCas(t) /\ m # 0)
    BY <2>1 DEF Call, RLockLoad, RLockCas, LockCas, readers, writers, TypeOK
  <2>2. CASE RLockCas(t) /\ m = seen[t]
    <3>1. writers = {} /\ t \notin readers
      BY <2>2, WordReadsRight DEF RLockCas, SeenFree, readers
    <3>2. readers' = readers \cup {t} /\ writers' = writers
      BY <2>2 DEF RLockCas, readers, writers, TypeOK
    <3>3. QED  BY <3>1, <3>2 DEF L!Next, L!AcquireR
  <2>3. CASE RUnlock(t)
    <3>1. t \in readers  BY <2>3 DEF RUnlock, readers
    <3>2. readers' = readers \ {t} /\ writers' = writers
      BY <2>3 DEF RUnlock, readers, writers, TypeOK
    <3>3. QED  BY <3>1, <3>2 DEF L!Next, L!ReleaseR
  <2>4. CASE LockCas(t) /\ m = 0
    <3>1. readers = {} /\ writers = {}  BY <2>4, WordReadsRight
    <3>2. readers' = readers /\ writers' = {t}
      BY <2>4, <3>1 DEF LockCas, readers, writers, TypeOK
    <3>3. QED  BY <3>1, <3>2 DEF L!Next, L!AcquireW
  <2>5. CASE Unlock(t)
    <3>1. t \in writers  BY <2>5 DEF Unlock, writers
    <3>2. readers' = readers /\ writers' = writers \ {t}
      BY <2>5 DEF Unlock, readers, writers, TypeOK
    <3>3. QED  BY <3>1, <3>2 DEF L!Next, L!ReleaseW
  <2>6. QED  BY <1>2, <2>1, <2>2, <2>3, <2>4, <2>5 DEF Step
<1>3. QED  BY <1>1, <1>2 DEF Next

\* The lock every shard embeds implements a reader/writer lock.
THEOREM Refinement == Spec => ImplementsRWLock
<1>1. Init => L!Init  BY DEF Init, L!Init, readers, writers
<1>2. QED  BY <1>1, StepRefines, Invariance, PTL DEF Spec, ImplementsRWLock, L!Spec
===============================================================================
