-------------------------------- MODULE RWLock --------------------------------
(***************************************************************************)
(* What a reader/writer lock promises its callers: any number of readers, *)
(* or one writer, never both.  Who waits and how is not visible here.     *)
(* SpinRWMutex, the lock every shard embeds, implements this.             *)
(***************************************************************************)
CONSTANT Threads

VARIABLES readers,  \* the threads between RLock and RUnlock
          writers   \* the threads between Lock and Unlock

vars == <<readers, writers>>

Init == readers = {} /\ writers = {}

AcquireR(t) == /\ writers = {}
               /\ t \notin readers
               /\ readers' = readers \cup {t}
               /\ UNCHANGED writers

AcquireW(t) == /\ readers = {} /\ writers = {}
               /\ writers' = {t}
               /\ UNCHANGED readers

ReleaseR(t) == /\ t \in readers
               /\ readers' = readers \ {t}
               /\ UNCHANGED writers

ReleaseW(t) == /\ t \in writers
               /\ writers' = writers \ {t}
               /\ UNCHANGED readers

Next == \E t \in Threads : \/ AcquireR(t) \/ AcquireW(t)
                           \/ ReleaseR(t) \/ ReleaseW(t)

Spec == Init /\ [][Next]_vars
===============================================================================
