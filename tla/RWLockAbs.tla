----------------------------- MODULE RWLockAbs -----------------------------
(***************************************************************************)
(* What a reader-writer lock promises its callers (threadlab/rwlock.h):    *)
(* any number of threads may hold it in shared ("read") mode, or exactly   *)
(* one thread in exclusive ("write") mode, never both.  Acquisition is one *)
(* atomic step; waiting, timeouts and fairness between readers and writers *)
(* are invisible at this level.                                            *)
(***************************************************************************)
CONSTANT Threads

VARIABLES readers,   \* threads holding the lock in shared mode
          writers    \* threads holding the lock in exclusive mode

absvars == <<readers, writers>>

Init == readers = {} /\ writers = {}

\* rwl_rlock returning 0: granted while no thread holds the lock exclusively.
AcquireShared(t) ==
    /\ t \notin readers \cup writers
    /\ writers = {}
    /\ readers' = readers \cup {t}
    /\ UNCHANGED writers

\* rwl_runlock
ReleaseShared(t) ==
    /\ t \in readers
    /\ readers' = readers \ {t}
    /\ UNCHANGED writers

\* rwl_wlock returning 0: granted only when nobody holds the lock.
AcquireExclusive(t) ==
    /\ readers \cup writers = {}
    /\ writers' = {t}
    /\ UNCHANGED readers

\* rwl_wunlock
ReleaseExclusive(t) ==
    /\ t \in writers
    /\ writers' = writers \ {t}
    /\ UNCHANGED readers

Next == \E t \in Threads :
          \/ AcquireShared(t) \/ ReleaseShared(t)
          \/ AcquireExclusive(t) \/ ReleaseExclusive(t)

Spec == Init /\ [][Next]_absvars

\* Shared and exclusive holders exclude each other; at most one writer.
Exclusion == writers # {} => (readers = {} /\ \E w \in Threads : writers = {w})
=============================================================================
