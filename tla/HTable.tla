------------------------------- MODULE HTable -------------------------------
(***************************************************************************)
(* The striped, resizable hash table of threadlab/htable.c.                *)
(*                                                                         *)
(* Shared state: ht->size, ht->store (one chain of keys per slot), the     *)
(* file-level flag undergoing_resize, the global pthread mutex mu and the  *)
(* NUM_LOCKS stripe locks rwl_slot[], each taken in write mode by          *)
(* htable_insert and htable_resize and in read mode by htable_lookup.      *)
(* A stripe lock is used through its contract RWLockAbs (module RWLock     *)
(* checks that rwlock.c implements it); htable.c always passes a NULL      *)
(* deadline, so no acquisition times out.                                  *)
(*                                                                         *)
(* Each thread is a caller performing OpsPerThread calls of htable_insert  *)
(* or htable_lookup on keys of KeysOf[t]; an insert whose chain walk       *)
(* reaches MAX_COLLISION goes on into htable_resize.  One step is one      *)
(* access to shared state, or a stretch of code under a lock that no       *)
(* other thread can observe part-way.  A key is an entry's key; its value  *)
(* pointer is opaque, never rewritten, and left out.                       *)
(***************************************************************************)
EXTENDS Integers, Sequences, FiniteSets, Bags, Hash, Prime

CONSTANTS Threads,        \* calling threads
          NoThread,       \* holder of a free lock
          Keys,           \* the keys callers use
          KeyBytes,       \* KeyBytes[k]: the bytes of key k
          KeysOf,         \* KeysOf[t]: the keys thread t calls with
          InitSize,       \* sz passed to htable_init
          AllowResize,    \* allow_resize passed to htable_init
          InsertOnce,     \* callers insert each key at most once
          NUM_LOCKS,      \* htable.c: #define NUM_LOCKS (10000 in the code)
          MAX_COLLISION,  \* htable.c: #define MAX_COLLISION (10 in the code)
          OpsPerThread    \* bound: calls made by each thread

ASSUME /\ NoThread \notin Threads
       /\ KeysOf \in [Threads -> SUBSET Keys]
       /\ AllowResize \in BOOLEAN /\ InsertOnce \in BOOLEAN
       /\ NUM_LOCKS \in Nat \ {0} /\ MAX_COLLISION \in Nat
       /\ OpsPerThread \in Nat

VARIABLES
    size,               \* ht->size
    store,              \* ht->store: slot -> chain of keys, head first
    undergoing_resize,  \* the static int flag, 0 or 1
    mu,                 \* the global mutex: its holder or NoThread
    stripeW,            \* stripe -> thread holding rwl_slot[s] in write mode
    stripeR,            \* stripe -> threads holding rwl_slot[s] in read mode
    pc, op, key,        \* each thread: program point, call, key argument
    global_lock,        \* the local bool global_lock of insert/lookup
    slot,               \* the local int slot of insert/lookup
    new_size, idx,      \* htable_resize's new_size and loop index i
    opsDone,            \* calls each thread has started
    inserted,           \* history: keys whose insert has returned 0
    expect,             \* history: the key was in inserted when lookup began
    lkres,              \* outcome of each thread's last lookup
    linked,             \* history: bag of the keys of the nodes insert linked
    destroyed,          \* htable_destroy has run
    freed               \* bag of the keys of the nodes it freed

vars == <<size, store, undergoing_resize, mu, stripeW, stripeR, pc, op, key,
          global_lock, slot, new_size, idx, opsDone, inserted, expect, lkres,
          linked, destroyed, freed>>

Stripes == 0..(NUM_LOCKS - 1)

\* hashcode(key); slot = hcode % ht->size; the stripe is slot % NUM_LOCKS.
Hc(k) == hashcode(KeyBytes[k])
SlotOf(h, sz) == CRem(h, sz)
StripeOf(s) == CRem(s, NUM_LOCKS)

Goto(t, l) == pc' = [pc EXCEPT ![t] = l]

StoredKeys == UNION {{store[i][j] : j \in DOMAIN store[i]} : i \in DOMAIN store}

TypeOK ==
    /\ size \in Nat \ {0}
    /\ store \in [0..(size - 1) -> Seq(Keys)]
    /\ undergoing_resize \in {0, 1}
    /\ mu \in Threads \cup {NoThread}
    /\ stripeW \in [Stripes -> Threads \cup {NoThread}]
    /\ stripeR \in [Stripes -> SUBSET Threads]
    /\ op \in [Threads -> {"insert", "lookup"}]
    /\ key \in [Threads -> Keys]
    /\ global_lock \in [Threads -> BOOLEAN]
    /\ slot \in [Threads -> Int]
    /\ inserted \subseteq Keys
    /\ lkres \in [Threads -> {"none", "found", "missing"}]
    /\ IsABag(linked) /\ IsABag(freed) /\ destroyed \in BOOLEAN

-----------------------------------------------------------------------------
(* htable_resize's relinking: every node of every old chain, in order, is  *)
(* pushed on the head of new_store[n->hashcode % new_size].                *)
\* Mutants of the relinking loop: one that stops before a chain's last
\* node (while (curr->next)); one that leaves n->next as it was when the
\* new slot is empty, so the node drags its old successors along.
RECURSIVE RelinkChainDropLast(_, _, _)
RelinkChainDropLast(chain, ns, nsz) ==
    IF Len(chain) <= 1 THEN ns
    ELSE LET s == SlotOf(Hc(Head(chain)), nsz)
         IN  RelinkChainDropLast(Tail(chain),
                                 [ns EXCEPT ![s] = <<Head(chain)>> \o @], nsz)

RECURSIVE RelinkChainKeepNext(_, _, _)
RelinkChainKeepNext(chain, ns, nsz) ==
    IF chain = <<>> THEN ns
    ELSE LET s == SlotOf(Hc(Head(chain)), nsz)
         IN  RelinkChainKeepNext(Tail(chain),
                 [ns EXCEPT ![s] = IF @ = <<>> THEN chain
                                   ELSE <<Head(chain)>> \o @], nsz)

RECURSIVE RelinkChain(_, _, _)
RelinkChain(chain, ns, nsz) ==
    IF chain = <<>> THEN ns
    ELSE LET s == SlotOf(Hc(Head(chain)), nsz)
         IN  RelinkChain(Tail(chain), [ns EXCEPT ![s] = <<Head(chain)>> \o @], nsz)

RECURSIVE RelinkFrom(_, _, _, _)
RelinkFrom(st, i, ns, nsz) ==
    IF i \notin DOMAIN st THEN ns
    ELSE RelinkFrom(st, i + 1, RelinkChain(st[i], ns, nsz), nsz)

Rehash(st, nsz) == RelinkFrom(st, 0, [j \in 0..(nsz - 1) |-> <<>>], nsz)

-----------------------------------------------------------------------------
\* Mutant: a store of size + 1 slots.
InitStoreOffByOne ==
    /\ size = get_prime(InitSize + 1)
    /\ store = [i \in 0..size |-> <<>>]
    /\ undergoing_resize = 0
    /\ mu = NoThread
    /\ stripeW = [s \in Stripes |-> NoThread]
    /\ stripeR = [s \in Stripes |-> {}]
    /\ pc = [t \in Threads |-> "idle"]
    /\ op = [t \in Threads |-> "lookup"]
    /\ key = [t \in Threads |-> CHOOSE k \in Keys : TRUE]
    /\ global_lock = [t \in Threads |-> FALSE]
    /\ slot = [t \in Threads |-> 0]
    /\ new_size = [t \in Threads |-> 0]
    /\ idx = [t \in Threads |-> 0]
    /\ opsDone = [t \in Threads |-> 0]
    /\ inserted = {}
    /\ expect = [t \in Threads |-> FALSE]
    /\ lkres = [t \in Threads |-> "none"]
    /\ linked = EmptyBag
    /\ destroyed = FALSE
    /\ freed = EmptyBag

(* htable_init(ht, InitSize, AllowResize): an empty store of the first     *)
(* "prime" above InitSize, every stripe lock free.                         *)
Init ==
    /\ size = get_prime(InitSize + 1)
    /\ store = [i \in 0..(size - 1) |-> <<>>]
    /\ undergoing_resize = 0
    /\ mu = NoThread
    /\ stripeW = [s \in Stripes |-> NoThread]
    /\ stripeR = [s \in Stripes |-> {}]
    /\ pc = [t \in Threads |-> "idle"]
    /\ op = [t \in Threads |-> "lookup"]
    /\ key = [t \in Threads |-> CHOOSE k \in Keys : TRUE]
    /\ global_lock = [t \in Threads |-> FALSE]
    /\ slot = [t \in Threads |-> 0]
    /\ new_size = [t \in Threads |-> 0]
    /\ idx = [t \in Threads |-> 0]
    /\ opsDone = [t \in Threads |-> 0]
    /\ inserted = {}
    /\ expect = [t \in Threads |-> FALSE]
    /\ lkres = [t \in Threads |-> "none"]
    /\ linked = EmptyBag
    /\ destroyed = FALSE
    /\ freed = EmptyBag

(* Entry of htable_insert / htable_lookup: the unsynchronised read of      *)
(* undergoing_resize decides whether the global mutex is taken first.      *)
Call(t, o, k) ==
    /\ pc[t] = "idle"
    /\ opsDone[t] < OpsPerThread
    /\ (InsertOnce /\ o = "insert") => k \notin inserted
    /\ opsDone' = [opsDone EXCEPT ![t] = @ + 1]
    /\ op' = [op EXCEPT ![t] = o]
    /\ key' = [key EXCEPT ![t] = k]
    /\ global_lock' = [global_lock EXCEPT ![t] = FALSE]
    /\ expect' = [expect EXCEPT ![t] = k \in inserted]
    /\ lkres' = [lkres EXCEPT ![t] = "none"]
    /\ Goto(t, IF undergoing_resize = 1 THEN "mu" ELSE "slot")
    /\ UNCHANGED <<size, store, undergoing_resize, mu, stripeW, stripeR,
                   slot, new_size, idx, inserted, linked, destroyed, freed>>

(* pthread_mutex_lock(&mu); global_lock = true.                            *)
GlobalLock(t) ==
    /\ pc[t] = "mu"
    /\ mu = NoThread
    /\ mu' = t
    /\ global_lock' = [global_lock EXCEPT ![t] = TRUE]
    /\ Goto(t, "slot")
    /\ UNCHANGED <<size, store, undergoing_resize, stripeW, stripeR, op, key,
                   slot, new_size, idx, opsDone, inserted, expect, lkres, linked, destroyed, freed>>

(* slot = hcode % ht->size: ht->size is read with no stripe lock held.     *)
ComputeSlot(t) ==
    /\ pc[t] = "slot"
    /\ slot' = [slot EXCEPT ![t] = SlotOf(Hc(key[t]), size)]
    /\ Goto(t, "lock")
    /\ UNCHANGED <<size, store, undergoing_resize, mu, stripeW, stripeR, op,
                   key, global_lock, new_size, idx, opsDone, inserted,
                   expect, lkres, linked, destroyed, freed>>

\* Mutant: the global mutex is kept after the stripe lock is taken.
WriteLockStripeKeepsMu(t) ==
    LET s == StripeOf(slot[t]) IN
    /\ pc[t] = "lock"
    /\ op[t] = "insert"
    /\ stripeW[s] = NoThread /\ stripeR[s] = {}
    /\ stripeW' = [stripeW EXCEPT ![s] = t]
    /\ Goto(t, "walk")
    /\ UNCHANGED <<size, store, undergoing_resize, mu, stripeR, op, key,
                   global_lock, slot, new_size, idx, opsDone, inserted,
                   expect, lkres, linked, destroyed, freed>>

(* htable_insert: rwl_wlock(&rwl_slot[slot % NUM_LOCKS]), then the global  *)
(* mutex is released if it was taken.                                      *)
WriteLockStripe(t) ==
    LET s == StripeOf(slot[t]) IN
    /\ pc[t] = "lock"
    /\ op[t] = "insert"
    /\ stripeW[s] = NoThread /\ stripeR[s] = {}
    /\ stripeW' = [stripeW EXCEPT ![s] = t]
    /\ mu' = IF global_lock[t] THEN NoThread ELSE mu
    /\ Goto(t, "walk")
    /\ UNCHANGED <<size, store, undergoing_resize, stripeR, op, key,
                   global_lock, slot, new_size, idx, opsDone, inserted,
                   expect, lkres, linked, destroyed, freed>>

(* htable_lookup: rwl_rlock(&rwl_slot[slot % NUM_LOCKS]), then the same.   *)
ReadLockStripe(t) ==
    LET s == StripeOf(slot[t]) IN
    /\ pc[t] = "lock"
    /\ op[t] = "lookup"
    /\ stripeW[s] = NoThread
    /\ stripeR' = [stripeR EXCEPT ![s] = @ \cup {t}]
    /\ mu' = IF global_lock[t] THEN NoThread ELSE mu
    /\ Goto(t, "walk")
    /\ UNCHANGED <<size, store, undergoing_resize, stripeW, op, key,
                   global_lock, slot, new_size, idx, opsDone, inserted,
                   expect, lkres, linked, destroyed, freed>>

\* Mutant: the chain walk never compares keys, so a duplicate is linked.
InsertWalkNoDupCheck(t) ==
    LET chain == store[slot[t]]
        k     == key[t]
    IN
    /\ pc[t] = "walk"
    /\ op[t] = "insert"
    /\ stripeW' = [stripeW EXCEPT ![StripeOf(slot[t])] = NoThread]
    /\ store' = [store EXCEPT ![slot[t]] = Append(@, k)]
    /\ linked' = linked (+) SetToBag({k})
    /\ \/ /\ AllowResize /\ Len(chain) >= MAX_COLLISION
          /\ Goto(t, "rs_flag")
          /\ UNCHANGED inserted
       \/ /\ ~(AllowResize /\ Len(chain) >= MAX_COLLISION)
          /\ Goto(t, "idle")
          /\ inserted' = inserted \cup {k}
    /\ UNCHANGED <<size, undergoing_resize, mu, stripeR, op, key, global_lock,
                   slot, new_size, idx, opsDone, expect, lkres, destroyed, freed>>

(* htable_insert under the write lock: walk ht->store[slot]; on the key    *)
(* found, unlock and return 1; else link a new node at the tail, unlock,   *)
(* and resize if allowed and collision (nodes walked) >= MAX_COLLISION.    *)
InsertWalk(t) ==
    LET chain == store[slot[t]]
        k     == key[t]
    IN
    /\ pc[t] = "walk"
    /\ op[t] = "insert"
    /\ stripeW' = [stripeW EXCEPT ![StripeOf(slot[t])] = NoThread]
    /\ \/ /\ \E j \in DOMAIN chain : chain[j] = k
          /\ Goto(t, "idle")
          /\ UNCHANGED <<store, inserted, linked>>
       \/ /\ \A j \in DOMAIN chain : chain[j] # k
          /\ store' = [store EXCEPT ![slot[t]] = Append(@, k)]
          /\ linked' = linked (+) SetToBag({k})
          /\ \/ /\ AllowResize /\ Len(chain) >= MAX_COLLISION
                /\ Goto(t, "rs_flag")
                /\ UNCHANGED inserted
             \/ /\ ~(AllowResize /\ Len(chain) >= MAX_COLLISION)
                /\ Goto(t, "idle")
                /\ inserted' = inserted \cup {k}
    /\ UNCHANGED <<size, undergoing_resize, mu, stripeR, op, key, global_lock,
                   slot, new_size, idx, opsDone, expect, lkres, destroyed, freed>>

(* htable_lookup under the read lock: walk the chain, unlock, return.      *)
LookupWalk(t) ==
    LET chain == store[slot[t]] IN
    /\ pc[t] = "walk"
    /\ op[t] = "lookup"
    /\ stripeR' = [stripeR EXCEPT ![StripeOf(slot[t])] = @ \ {t}]
    /\ lkres' = [lkres EXCEPT ![t] =
                   IF \E j \in DOMAIN chain : chain[j] = key[t]
                   THEN "found" ELSE "missing"]
    /\ Goto(t, "idle")
    /\ UNCHANGED <<size, store, undergoing_resize, mu, stripeW, op, key,
                   global_lock, slot, new_size, idx, opsDone, inserted, expect, linked, destroyed, freed>>

-----------------------------------------------------------------------------
(* htable_resize, step by step.                                            *)

\* undergoing_resize = 1
ResizeSetFlag(t) ==
    /\ pc[t] = "rs_flag"
    /\ undergoing_resize' = 1
    /\ Goto(t, "rs_mu")
    /\ UNCHANGED <<size, store, mu, stripeW, stripeR, op, key, global_lock,
                   slot, new_size, idx, opsDone, inserted, expect, lkres, linked, destroyed, freed>>

\* pthread_mutex_lock(&mu); new_size = get_prime(2*ht->size)
ResizeLock(t) ==
    /\ pc[t] = "rs_mu"
    /\ mu = NoThread
    /\ mu' = t
    /\ new_size' = [new_size EXCEPT ![t] = get_prime(2 * size)]
    /\ idx' = [idx EXCEPT ![t] = 0]
    /\ Goto(t, "rs_wlock")
    /\ UNCHANGED <<size, store, undergoing_resize, stripeW, stripeR, op, key,
                   global_lock, slot, opsDone, inserted, expect, lkres, linked, destroyed, freed>>

\* for i in 0..NUM_LOCKS-1: rwl_wlock(&rwl_slot[i], NULL)
ResizeStripeLock(t) ==
    LET i == idx[t] IN
    /\ pc[t] = "rs_wlock"
    /\ stripeW[i] = NoThread /\ stripeR[i] = {}
    /\ stripeW' = [stripeW EXCEPT ![i] = t]
    /\ idx' = [idx EXCEPT ![t] = i + 1]
    /\ Goto(t, IF i + 1 = NUM_LOCKS THEN "rs_rehash" ELSE "rs_wlock")
    /\ UNCHANGED <<size, store, undergoing_resize, mu, stripeR, op, key,
                   global_lock, slot, new_size, opsDone, inserted, expect, lkres, linked, destroyed, freed>>

\* Mutant: the new store is installed but ht->size is not updated.
ResizeRehashKeepsSize(t) ==
    /\ pc[t] = "rs_rehash"
    /\ store' = Rehash(store, new_size[t])
    /\ idx' = [idx EXCEPT ![t] = 0]
    /\ Goto(t, "rs_wunlock")
    /\ UNCHANGED <<size, undergoing_resize, mu, stripeW, stripeR, op, key,
                   global_lock, slot, new_size, opsDone, inserted, expect, lkres, linked, destroyed, freed>>

\* relink every node into new_store; ht->size = new_size; ht->store = new_store
ResizeRehash(t) ==
    /\ pc[t] = "rs_rehash"
    /\ store' = Rehash(store, new_size[t])
    /\ size' = new_size[t]
    /\ idx' = [idx EXCEPT ![t] = 0]
    /\ Goto(t, "rs_wunlock")
    /\ UNCHANGED <<undergoing_resize, mu, stripeW, stripeR, op, key,
                   global_lock, slot, new_size, opsDone, inserted, expect, lkres, linked, destroyed, freed>>

\* for i in 0..NUM_LOCKS-1: rwl_wunlock(&rwl_slot[i])
ResizeStripeUnlock(t) ==
    LET i == idx[t] IN
    /\ pc[t] = "rs_wunlock"
    /\ stripeW' = [stripeW EXCEPT ![i] = NoThread]
    /\ idx' = [idx EXCEPT ![t] = i + 1]
    /\ Goto(t, IF i + 1 = NUM_LOCKS THEN "rs_unmu" ELSE "rs_wunlock")
    /\ UNCHANGED <<size, store, undergoing_resize, mu, stripeR, op, key,
                   global_lock, slot, new_size, opsDone, inserted, expect, lkres, linked, destroyed, freed>>

\* pthread_mutex_unlock(&mu)
ResizeUnlock(t) ==
    /\ pc[t] = "rs_unmu"
    /\ mu' = NoThread
    /\ Goto(t, "rs_clear")
    /\ UNCHANGED <<size, store, undergoing_resize, stripeW, stripeR, op, key,
                   global_lock, slot, new_size, idx, opsDone, inserted,
                   expect, lkres, linked, destroyed, freed>>

\* undergoing_resize = 0; htable_insert returns 0
ResizeClearFlag(t) ==
    /\ pc[t] = "rs_clear"
    /\ undergoing_resize' = 0
    /\ inserted' = inserted \cup {key[t]}
    /\ Goto(t, "idle")
    /\ UNCHANGED <<size, store, mu, stripeW, stripeR, op, key, global_lock,
                   slot, new_size, idx, opsDone, expect, lkres, linked, destroyed, freed>>

-----------------------------------------------------------------------------
\* Every thread has made all its calls and returned.
Finished == \A t \in Threads : pc[t] = "idle" /\ opsDone[t] = OpsPerThread

\* free_linked_list(n): the rest of the chain first, then n itself.
RECURSIVE free_linked_list(_)
free_linked_list(chain) ==
    IF chain = <<>> THEN EmptyBag
    ELSE free_linked_list(Tail(chain)) (+) SetToBag({Head(chain)})

\* The loop of htable_destroy over slots i .. ht->size - 1.
RECURSIVE FreeSlots(_, _)
FreeSlots(st, i) ==
    IF i \notin DOMAIN st THEN EmptyBag
    ELSE free_linked_list(st[i]) (+) FreeSlots(st, i + 1)

(* htable_destroy, called once every thread has returned: every chain is   *)
(* freed, then ht->store and rwl_slot (which the model leaves in place).   *)
htable_destroy ==
    /\ Finished
    /\ ~destroyed
    /\ destroyed' = TRUE
    /\ freed' = FreeSlots(store, 0)
    /\ UNCHANGED <<size, store, undergoing_resize, mu, stripeW, stripeR, pc, op,
                   key, global_lock, slot, new_size, idx, opsDone, inserted,
                   expect, lkres, linked>>

Terminating == destroyed /\ UNCHANGED vars

Next ==
    \/ \E t \in Threads :
          \/ \E k \in KeysOf[t], o \in {"insert", "lookup"} : Call(t, o, k)
          \/ GlobalLock(t) \/ ComputeSlot(t)
          \/ WriteLockStripe(t) \/ ReadLockStripe(t)
          \/ InsertWalk(t) \/ LookupWalk(t)
          \/ ResizeSetFlag(t) \/ ResizeLock(t) \/ ResizeStripeLock(t)
          \/ ResizeRehash(t) \/ ResizeStripeUnlock(t) \/ ResizeUnlock(t)
          \/ ResizeClearFlag(t)
    \/ htable_destroy
    \/ Terminating

Spec == Init /\ [][Next]_vars

(* The steps of thread t inside a call.  A thread that can take one keeps  *)
(* being scheduled (weak fairness): pthread mutexes, rwlocks and condition *)
(* waits block only while the resource is held.  Whether a thread makes    *)
(* its next call is the caller's choice, so Call is not fair.              *)
InCall(t) ==
    \/ GlobalLock(t) \/ ComputeSlot(t)
    \/ WriteLockStripe(t) \/ ReadLockStripe(t)
    \/ InsertWalk(t) \/ LookupWalk(t)
    \/ ResizeSetFlag(t) \/ ResizeLock(t) \/ ResizeStripeLock(t)
    \/ ResizeRehash(t) \/ ResizeStripeUnlock(t) \/ ResizeUnlock(t)
    \/ ResizeClearFlag(t)

FairSpec == Spec /\ \A t \in Threads : WF_vars(InCall(t))

-----------------------------------------------------------------------------
(* At most one entry per key (htable_insert rejects a duplicate), however  *)
(* inserts of the same key by several threads and resizes interleave.     *)
KeysUnique ==
    LET Positions == UNION {{i} \X DOMAIN store[i] : i \in DOMAIN store}
    IN  \A k \in Keys :
          Cardinality({p \in Positions : store[p[1]][p[2]] = k}) <= 1

(* Every entry is in the slot its hash selects under the current size, so *)
(* a later insert or lookup of its key walks the chain that holds it.      *)
BucketPlacement ==
    \A i \in DOMAIN store : \A j \in DOMAIN store[i] :
        SlotOf(Hc(store[i][j]), size) = i

(* No lost update: the key of every insert that returned 0 is still in     *)
(* the table, across any number of resizes.                                *)
NoLostInsert == inserted \subseteq StoredKeys

(* A lookup never misses a key whose insert had returned 0 before the      *)
(* lookup was called, whatever runs concurrently.                          *)
LookupSeesCompletedInserts ==
    \A t \in Threads : lkres[t] = "missing" => ~expect[t]

(* Every call of htable_insert or htable_lookup returns, resizes included: *)
(* htable_resize holds mu while it write-locks every stripe, and a caller  *)
(* that saw undergoing_resize holds mu while it waits for one stripe; the  *)
(* lock order must never leave two threads waiting on each other.          *)
CallsReturn == \A t \in Threads : pc[t] # "idle" ~> pc[t] = "idle"

(* htable_destroy frees every node htable_insert ever linked exactly once: *)
(* no resize of the chains, in any interleaving with concurrent inserts,   *)
(* drops a node (a leak) or links one into two chains (a double free).     *)
DestroyFreesEveryNodeOnce == destroyed => freed = linked
=============================================================================
