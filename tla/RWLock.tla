------------------------------- MODULE RWLock -------------------------------
(***************************************************************************)
(* The reader-writer lock of threadlab/rwlock.c: four counters guarded by  *)
(* the internal mutex l->mu and two pthread condition variables.           *)
(*                                                                         *)
(* Every access to the counters happens with l->mu held, and each stretch  *)
(* of code between taking l->mu and releasing it (by pthread_mutex_unlock  *)
(* or inside pthread_cond_(timed)wait) is one atomic step here; l->mu      *)
(* itself is therefore implicit.  A condition variable is the set of       *)
(* threads blocked on it: pthread_cond_signal removes one of them,         *)
(* pthread_cond_broadcast removes all, and a removed thread is still in    *)
(* its wait state until it re-takes l->mu and re-tests the while loop's    *)
(* predicate.  A wait may also end spuriously, and, when the caller passed *)
(* a deadline (UseTimeout), with ETIMEDOUT at any time, even after a       *)
(* signal was directed at it (POSIX lets a timed-out wait consume one).    *)
(*                                                                         *)
(* Each thread is a caller that repeatedly takes the lock in either mode   *)
(* and then releases it.                                                   *)
(***************************************************************************)
EXTENDS Naturals, FiniteSets

CONSTANTS Threads,     \* the calling threads
          UseTimeout   \* TRUE when callers pass a non-NULL expire

ASSUME UseTimeout \in BOOLEAN

VARIABLES n_waiting_readers, n_waiting_writers, n_writers, n_readers,
          reader_cond,   \* threads blocked in cond_timedwait(&l->reader_cond)
          writer_cond,   \* threads blocked in cond_timedwait(&l->writer_cond)
          pc             \* where each calling thread is

vars == <<n_waiting_readers, n_waiting_writers, n_writers, n_readers,
          reader_cond, writer_cond, pc>>

PCs == {"idle", "r_wait", "reading", "w_wait", "writing"}

TypeOK ==
    /\ n_waiting_readers \in Nat /\ n_waiting_writers \in Nat
    /\ n_writers \in Nat /\ n_readers \in Nat
    /\ reader_cond \subseteq Threads /\ writer_cond \subseteq Threads
    /\ pc \in [Threads -> PCs]

\* rwl_init
Init ==
    /\ n_waiting_readers = 0 /\ n_waiting_writers = 0
    /\ n_writers = 0 /\ n_readers = 0
    /\ reader_cond = {} /\ writer_cond = {}
    /\ pc = [t \in Threads |-> "idle"]

\* Mutant: a writer loop that ignores active readers.
WriterMustWaitIgnoresReaders == n_writers > 0

\* The while-loop predicates of rwl_rlock and rwl_wlock.
ReaderMustWait == n_writers > 0 \/ n_waiting_writers > 0
WriterMustWait == n_writers > 0 \/ n_readers > 0

\* pthread_cond_signal: unblock one waiter, if there is one.
Signal(cond) ==
    IF cond = {} THEN {cond} ELSE {cond \ {w} : w \in cond}

-----------------------------------------------------------------------------
(* rwl_rlock: take l->mu, count ourselves as a waiting reader, then either *)
(* block on reader_cond or leave the loop at once and become a reader.     *)
RLock(t) ==
    /\ pc[t] = "idle"
    /\ \/ /\ ReaderMustWait
          /\ n_waiting_readers' = n_waiting_readers + 1
          /\ reader_cond' = reader_cond \cup {t}
          /\ pc' = [pc EXCEPT ![t] = "r_wait"]
          /\ UNCHANGED n_readers
       \/ /\ ~ReaderMustWait
          /\ n_readers' = n_readers + 1
          /\ pc' = [pc EXCEPT ![t] = "reading"]
          /\ UNCHANGED <<n_waiting_readers, reader_cond>>
    /\ UNCHANGED <<n_waiting_writers, n_writers, writer_cond>>

\* Mutant: the wakeup path decrements the waiting-writer count.
RWakeMiscount(t) ==
    /\ pc[t] = "r_wait"
    /\ t \notin reader_cond
    /\ \/ /\ ReaderMustWait
          /\ reader_cond' = reader_cond \cup {t}
          /\ UNCHANGED <<n_waiting_writers, n_readers, pc>>
       \/ /\ ~ReaderMustWait
          /\ n_waiting_writers' = n_waiting_writers - 1
          /\ n_readers' = n_readers + 1
          /\ pc' = [pc EXCEPT ![t] = "reading"]
          /\ UNCHANGED reader_cond
    /\ UNCHANGED <<n_waiting_readers, n_writers, writer_cond>>

(* rwl_rlock after cond_timedwait returned 0: re-take l->mu and re-test.   *)
RWake(t) ==
    /\ pc[t] = "r_wait"
    /\ t \notin reader_cond
    /\ \/ /\ ReaderMustWait
          /\ reader_cond' = reader_cond \cup {t}
          /\ UNCHANGED <<n_waiting_readers, n_readers, pc>>
       \/ /\ ~ReaderMustWait
          /\ n_waiting_readers' = n_waiting_readers - 1
          /\ n_readers' = n_readers + 1
          /\ pc' = [pc EXCEPT ![t] = "reading"]
          /\ UNCHANGED reader_cond
    /\ UNCHANGED <<n_waiting_writers, n_writers, writer_cond>>

\* Mutant: the timeout path returns without n_waiting_readers--.
RTimeoutKeepsWaiting(t) ==
    /\ UseTimeout
    /\ pc[t] = "r_wait"
    /\ reader_cond' = reader_cond \ {t}
    /\ pc' = [pc EXCEPT ![t] = "idle"]
    /\ UNCHANGED <<n_waiting_readers, n_waiting_writers, n_writers, n_readers,
                   writer_cond>>

(* rwl_rlock when cond_timedwait returned ETIMEDOUT.                       *)
RTimeout(t) ==
    /\ UseTimeout
    /\ pc[t] = "r_wait"
    /\ n_waiting_readers' = n_waiting_readers - 1
    /\ reader_cond' = reader_cond \ {t}
    /\ pc' = [pc EXCEPT ![t] = "idle"]
    /\ UNCHANGED <<n_waiting_writers, n_writers, n_readers, writer_cond>>

\* Mutants: rwl_runlock without n_readers--; rwl_runlock that never signals.
RUnlockKeepsCount(t) ==
    /\ pc[t] = "reading"
    /\ IF n_waiting_writers > 0
         THEN writer_cond' \in Signal(writer_cond)
         ELSE UNCHANGED writer_cond
    /\ pc' = [pc EXCEPT ![t] = "idle"]
    /\ UNCHANGED <<n_waiting_readers, n_waiting_writers, n_writers, n_readers,
                   reader_cond>>

RUnlockNoSignal(t) ==
    /\ pc[t] = "reading"
    /\ n_readers' = n_readers - 1
    /\ pc' = [pc EXCEPT ![t] = "idle"]
    /\ UNCHANGED <<n_waiting_readers, n_waiting_writers, n_writers,
                   reader_cond, writer_cond>>

(* rwl_runlock: one fewer reader; signal a writer if any is waiting.       *)
RUnlock(t) ==
    /\ pc[t] = "reading"
    /\ n_readers' = n_readers - 1
    /\ IF n_waiting_writers > 0
         THEN writer_cond' \in Signal(writer_cond)
         ELSE UNCHANGED writer_cond
    /\ pc' = [pc EXCEPT ![t] = "idle"]
    /\ UNCHANGED <<n_waiting_readers, n_waiting_writers, n_writers, reader_cond>>

-----------------------------------------------------------------------------
(* rwl_wlock: count ourselves as a waiting writer, then block on           *)
(* writer_cond or become the writer at once.                               *)
WLock(t) ==
    /\ pc[t] = "idle"
    /\ \/ /\ WriterMustWait
          /\ n_waiting_writers' = n_waiting_writers + 1
          /\ writer_cond' = writer_cond \cup {t}
          /\ pc' = [pc EXCEPT ![t] = "w_wait"]
          /\ UNCHANGED n_writers
       \/ /\ ~WriterMustWait
          /\ n_writers' = n_writers + 1
          /\ pc' = [pc EXCEPT ![t] = "writing"]
          /\ UNCHANGED <<n_waiting_writers, writer_cond>>
    /\ UNCHANGED <<n_waiting_readers, n_readers, reader_cond>>

(* rwl_wlock after cond_timedwait returned 0.                              *)
WWake(t) ==
    /\ pc[t] = "w_wait"
    /\ t \notin writer_cond
    /\ \/ /\ WriterMustWait
          /\ writer_cond' = writer_cond \cup {t}
          /\ UNCHANGED <<n_waiting_writers, n_writers, pc>>
       \/ /\ ~WriterMustWait
          /\ n_waiting_writers' = n_waiting_writers - 1
          /\ n_writers' = n_writers + 1
          /\ pc' = [pc EXCEPT ![t] = "writing"]
          /\ UNCHANGED writer_cond
    /\ UNCHANGED <<n_waiting_readers, n_readers, reader_cond>>

(* rwl_wlock when cond_timedwait returned ETIMEDOUT.                       *)
WTimeout(t) ==
    /\ UseTimeout
    /\ pc[t] = "w_wait"
    /\ n_waiting_writers' = n_waiting_writers - 1
    /\ writer_cond' = writer_cond \ {t}
    /\ pc' = [pc EXCEPT ![t] = "idle"]
    /\ UNCHANGED <<n_waiting_readers, n_writers, n_readers, reader_cond>>

(* rwl_wunlock: writers first (signal one), else wake every waiting reader.*)
WUnlock(t) ==
    /\ pc[t] = "writing"
    /\ n_writers' = n_writers - 1
    /\ \/ /\ n_waiting_writers > 0
          /\ writer_cond' \in Signal(writer_cond)
          /\ UNCHANGED reader_cond
       \/ /\ n_waiting_writers = 0
          /\ n_waiting_readers > 0
          /\ reader_cond' = {}
          /\ UNCHANGED writer_cond
       \/ /\ n_waiting_writers = 0
          /\ n_waiting_readers = 0
          /\ UNCHANGED <<reader_cond, writer_cond>>
    /\ pc' = [pc EXCEPT ![t] = "idle"]
    /\ UNCHANGED <<n_waiting_readers, n_waiting_writers, n_readers>>

(* A pthread condition wait may return 0 without any signal.               *)
SpuriousWakeup(t) ==
    /\ t \in reader_cond \cup writer_cond
    /\ reader_cond' = reader_cond \ {t}
    /\ writer_cond' = writer_cond \ {t}
    /\ UNCHANGED <<n_waiting_readers, n_waiting_writers, n_writers,
                   n_readers, pc>>

-----------------------------------------------------------------------------
Next == \E t \in Threads :
          \/ RLock(t) \/ RWake(t) \/ RTimeout(t) \/ RUnlock(t)
          \/ WLock(t) \/ WWake(t) \/ WTimeout(t) \/ WUnlock(t)
          \/ SpuriousWakeup(t)

(* Holders always release (the table's critical sections are finite), and  *)
(* a thread whose wait has returned is runnable and will re-take l->mu.    *)
(* Nothing obliges a thread to call rwl_rlock/rwl_wlock, nor a wait to end *)
(* spuriously or by timeout.                                               *)
Fairness == \A t \in Threads :
              /\ WF_vars(RUnlock(t)) /\ WF_vars(WUnlock(t))
              /\ WF_vars(RWake(t))   /\ WF_vars(WWake(t))

Spec     == Init /\ [][Next]_vars
FairSpec == Spec /\ Fairness

-----------------------------------------------------------------------------
\* rwl_nwaiters: the two waiting counters, summed.
rwl_nwaiters == n_waiting_readers + n_waiting_writers

Holding(mode) == {t \in Threads : pc[t] = mode}

(* The four counters always equal the number of threads in the matching    *)
(* state of rwl_rlock/rwl_wlock: no path through a wait, a wakeup, a       *)
(* timeout or an unlock loses or double-counts a thread.  So rwl_nwaiters  *)
(* counts the threads waiting and, as its comment requires, none that has  *)
(* already grabbed the lock.                                               *)
CountersAccurate ==
    /\ n_readers = Cardinality(Holding("reading"))
    /\ n_writers = Cardinality(Holding("writing"))
    /\ n_waiting_readers = Cardinality(Holding("r_wait"))
    /\ n_waiting_writers = Cardinality(Holding("w_wait"))
    /\ rwl_nwaiters = Cardinality(Holding("r_wait") \cup Holding("w_wait"))

(* No lost wakeup: a thread blocked on a condition variable always has     *)
(* someone who will signal it.  A blocked reader needs a writer that holds *)
(* or waits for the lock (its rwl_wunlock broadcasts); a blocked writer    *)
(* needs a holder (whose unlock signals) or a woken writer still on its    *)
(* way through the loop.                                                   *)
NoLostWakeup ==
    /\ reader_cond # {} => n_writers + n_waiting_writers > 0
    /\ writer_cond # {} =>
         \/ n_writers + n_readers > 0
         \/ \E t \in Holding("w_wait") : t \notin writer_cond

(* Writers are not starved: whenever a writer waits, some writer           *)
(* eventually holds the lock, however readers keep arriving.               *)
WriterProgress == (n_waiting_writers > 0) ~> (n_writers > 0)

(* The lock implements its contract RWLockAbs, with holders read off pc.   *)
Abs == INSTANCE RWLockAbs WITH readers <- Holding("reading"),
                               writers <- Holding("writing")
AbsSpec == Abs!Spec
=============================================================================
