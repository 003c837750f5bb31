------------------------------ MODULE SpinRWMutex ------------------------------
(***************************************************************************)
(* The spin lock of internal/storage/cache/types.go: one 32-bit word that  *)
(* is 0 when free, the number of readers when positive and -1 when a       *)
(* writer holds it.  RLock loads the word and tries to swap it for the     *)
(* loaded value plus one; Lock tries to swap 0 for -1; both spin.  Every   *)
(* atomic instruction is one step.  The scheduling hint (runtime.Gosched   *)
(* after 30 rounds) has no effect on the state.  The word does not wrap:   *)
(* it counts goroutines, and 2^31 of them do not exist.                    *)
(***************************************************************************)
EXTENDS Integers, FiniteSets

CONSTANT Threads

ASSUME ThreadsFinite == IsFiniteSet(Threads)

VARIABLES m,     \* the word
          pc,    \* where each thread is
          seen   \* what RLock's atomic load returned to each thread

vars == <<m, pc, seen>>

Writer == -1

Waiting == {"rload", "rcas", "wcas"}
Holding == {"reading", "writing"}

readers == {t \in Threads : pc[t] = "reading"}
writers == {t \in Threads : pc[t] = "writing"}

Init == /\ m = 0
        /\ pc = [t \in Threads |-> "idle"]
        /\ seen = [t \in Threads |-> 0]

Goto(t, l) == pc' = [pc EXCEPT ![t] = l]

\* a caller decides to read or to write under the lock
Call(t) == /\ pc[t] = "idle"
           /\ \E l \in {"rload", "wcas"} : Goto(t, l)
           /\ UNCHANGED <<m, seen>>

\* v := atomic.LoadInt32(m); a negative v goes round the loop again
RLockLoad(t) == /\ pc[t] = "rload"
                /\ seen' = [seen EXCEPT ![t] = m]
                /\ Goto(t, IF m >= 0 THEN "rcas" ELSE "rload")
                /\ UNCHANGED m

\* BUG: the swap is a store that does not compare
RLockCasBlind(t) == /\ pc[t] = "rcas"
                    /\ m' = seen[t] + 1
                    /\ Goto(t, "reading")
                    /\ UNCHANGED seen

\* BUG: a failed swap waits for the value it failed on to come back
RLockCasNoReload(t) == /\ pc[t] = "rcas"
                       /\ m = seen[t]
                       /\ m' = seen[t] + 1
                       /\ Goto(t, "reading")
                       /\ UNCHANGED seen

\* CompareAndSwap(m, v, v+1); a failed swap goes round the loop again
RLockCas(t) == /\ pc[t] = "rcas"
               /\ IF m = seen[t]
                  THEN m' = seen[t] + 1 /\ Goto(t, "reading")
                  ELSE UNCHANGED m /\ Goto(t, "rload")
               /\ UNCHANGED seen

RUnlock(t) == /\ pc[t] = "reading"
              /\ m' = m - 1
              /\ Goto(t, "idle")
              /\ UNCHANGED seen

\* CompareAndSwap(m, 0, -1); a failed swap goes round the loop again
LockCas(t) == /\ pc[t] = "wcas"
              /\ IF m = 0
                 THEN m' = Writer /\ Goto(t, "writing")
                 ELSE UNCHANGED <<m, pc>>
              /\ UNCHANGED seen

\* BUG: the writer releases the way a reader does
UnlockAsReader(t) == /\ pc[t] = "writing"
                     /\ m' = m - 1
                     /\ Goto(t, "idle")
                     /\ UNCHANGED seen

\* atomic.StoreInt32(m, 0)
Unlock(t) == /\ pc[t] = "writing"
             /\ m' = 0
             /\ Goto(t, "idle")
             /\ UNCHANGED seen

Step(t) == \/ RLockLoad(t) \/ RLockCas(t) \/ RUnlock(t)
           \/ LockCas(t) \/ Unlock(t)

Next == \E t \in Threads : Call(t) \/ Step(t)

Spec == Init /\ [][Next]_vars

\* A goroutine that has started an operation keeps running: the Go scheduler
\* is preemptive.  Nothing makes a caller start one.
FairSpec == Spec /\ \A t \in Threads : WF_vars(Step(t))

-------------------------------------------------------------------------------
TypeOK == /\ m \in Nat \cup {Writer}
          /\ pc \in [Threads -> {"idle"} \cup Waiting \cup Holding]
          /\ seen \in [Threads -> Nat \cup {Writer}]

\* The word says exactly who holds the lock, although the unlocks are blind:
\* RUnlock subtracts and Unlock stores without looking at what is there.
WordCountsHolders == m = IF writers # {} THEN Writer ELSE Cardinality(readers)

\* A writer is alone: no reader and no second writer is inside.
Exclusion == \A w \in writers : readers = {} /\ writers = {w}

\* The lock does what a reader/writer lock promises.
L == INSTANCE RWLock
ImplementsRWLock == L!Spec

\* Lock freedom: however the spinning threads interfere, while somebody wants
\* the lock somebody gets it.
SomeoneGetsIt == (\E t \in Threads : pc[t] \in Waiting)
                   ~> (\E t \in Threads : pc[t] \in Holding)

\* README.md:270 says each shard has "its own sync.RWMutex".  That lock lets
\* no later reader in front of a waiting writer, so a writer always gets in.
WriterGetsIn == \A t \in Threads : pc[t] = "wcas" ~> pc[t] = "writing"
===============================================================================
