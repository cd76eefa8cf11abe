# TLA+ models of CSO-FALL2018

This directory holds TLA+ models of the repository's code and the TLC
configurations that check them. The core is the concurrent hash table of
`src/threadlab/`: a chained table whose buckets are guarded by a fixed array
of reader-writer locks (stripes), with a global mutex that coordinates
resizing. The other directories hold single-threaded programs, which are
modelled too:

- the explicit free-list allocator of `malloclab/mm.c`;
- the substring matchers of `rklab/`;
- the binary search tree, bubble sort and bit helpers of `clab/mini/`.

`PROJECT.json` lists the following, all machine-readable:

- every component and its status;
- every run and the mutants that show each property can fail;
- the source lines each definition models;
- the findings;
- the hazards of the code.

## 1. The parts and how they interact

| Component | Source | Module(s) | Status |
|---|---|---|---|
| Reader-writer lock | `threadlab/rwlock.c` | `RWLock`, `RWLockAbs` | partly: `rwl_destroy` is no action; `rwl_nwaiters` is a read, stated in `CountersAccurate` |
| Hash table | `threadlab/htable.c` | `HTable` | modelled (`htable_size`, a read, is not an action) |
| Key hash, size primes | `threadlab/htable.c` | `Hash`, `Prime` | modelled |
| Allocator | `malloclab/mm.c` | `MM`, `MMAbs` | modelled |
| Rabin-Karp and naive search | `rklab/rkgrep.c` | `RabinKarp` | modelled (Bloom filter from its contract) |
| Boyer-Moore | `rklab/bmgrep.c` | `BoyerMoore` | partly: `init_delta1` only |
| BST | `clab/mini/part7.c` | `BST` | modelled |
| Bubble sort | `clab/mini/part2.c` | `BubbleSort` | modelled |
| Bit helpers | `clab/mini/part6.c` | `BitHelpers` | modelled |
| Reverse-engineering exercises | `binarylab/ex*.c` | `BinaryLab` | modelled |

**Hash table and lock.** `htable_insert` and `htable_lookup` compute the
key's `hashcode`, then `slot = hcode % ht->size` and
`stripe = slot % NUM_LOCKS`.

- Each call takes `rwl_slot[stripe]`: write mode for an insert, read mode for
  a lookup.
- It walks the chain, then releases the lock.
- The resize flag `undergoing_resize` is read without synchronisation. A
  caller that sees it set takes the global `mu` first, and drops `mu` once it
  holds the stripe lock.

An insert that walked `MAX_COLLISION` nodes calls `htable_resize` after
unlocking. The resize goes through these steps in order:

1. set the flag;
2. take `mu`;
3. take every stripe lock in ascending order;
4. relink every node into `get_prime(2*size)` slots;
5. release the stripe locks and `mu`;
6. clear the flag.

The lock is a monitor over four counters and two condition variables.

**The other parts** do not interact with the table:

- `mm_realloc` is `mm_malloc`, a copy, then `mm_free`.
- `rk_substring_match_using_bloom` consults the filter that
  `rk_create_doc_bloom` built, then calls `rk_substring_match`.

## 2. Modules and their correspondence to the code

### `RWLock` (`rwlock.c`) and `RWLockAbs`

**Atomicity.** Each stretch of code between taking `l->mu` and releasing it
is one atomic step. The release happens either in `pthread_mutex_unlock` or
inside the condition wait.

**State.** The condition variables are the sets `reader_cond` and
`writer_cond` of blocked threads.

**Actions:**

- `RLock` and `WLock`: the entry of `rwl_rlock` and `rwl_wlock`.
- `RWake` and `WWake`: a return from the condition wait with 0, followed by
  the `while` re-test.
- `RTimeout` and `WTimeout`: the `ETIMEDOUT` branch.
- `RUnlock` and `WUnlock`: `rwl_runlock` and `rwl_wunlock`.
- `SpuriousWakeup`: a wait that ends with no signal.

A timeout may hit a thread that was already signalled, which consumes the
signal.

**Refinement.** `RWLockAbs` is the contract: shared and exclusive holders,
with one atomic step per acquire and per release. `RWLock` refines it through
`INSTANCE RWLockAbs WITH ...`, which is checked as the property `AbsSpec`.

### `HTable` (`htable.c`)

Each step of the model is one action:

- `Call`: the entry of insert or lookup, and the racy read of the flag.
- `GlobalLock`: taking `mu`.
- `ComputeSlot`: reading `ht->size` with no lock held.
- `WriteLockStripe` and `ReadLockStripe`: taking the stripe lock, then
  dropping `mu`.
- `InsertWalk`: the chain walk, the duplicate return, the tail link, the
  unlock and the resize decision.
- `LookupWalk`: the chain walk and the unlock.
- `ResizeSetFlag` … `ResizeClearFlag`: the steps of `htable_resize`, in code
  order. `ResizeRehash` is the two relinking loops (`RelinkChain`,
  `RelinkFrom`).
- `htable_destroy`: the harness's last call, made once every thread has
  returned (`Finished`), because the spec leaves a concurrent call undefined.
  `free_linked_list` frees the rest of a chain before its node, and
  `FreeSlots` is the loop over the slots. The action records the bag of
  nodes freed in `freed`.

**Abstractions:**

- An entry is represented by its key.
- Stripe locks have the `RWLockAbs` semantics. This is sound because
  `RWLock` refines that contract.
- The history variables `inserted`, `expect` and `lkres` record what the
  properties need. `linked` is the bag of nodes that `InsertWalk` has
  linked.

**Fairness.** `FairSpec` adds weak fairness of each thread's steps inside a
call (`InCall`). The code justifies this:

- A thread blocks only while a pthread mutex, rwlock or condition it needs is
  held.
- Each thread makes a bounded number of calls, so a thread that waits does so
  behind finitely many acquisitions.

Starting a call is the caller's choice, so `Call` is not fair.

### `Hash`, `Prime`

These are the C functions as operators:

- `CRem` is C's truncating `%`.
- `SignedChar` is the x86-64 `char`.

### `MM` (`mm.c`) and `MMAbs`

**Heap state.** The heap is a record with these fields:

- `chunks`: the header at each chunk address (`size`, `status`);
- `free`: the `global_free_list`, in list order;
- `alloc`: the `global_allocated_list_head` list;
- `brk`: the break that `mem_sbrk` moves.

**C functions as operators.** Every C function is an operator from a heap to
a heap, and a result where the function has one:

- `remove_from_list`;
- `merge_regions`;
- `insert_allocated_list`;
- `insert_free_list`: sorted insert, then two tries at merging with the next
  chunk and two with the previous one, as in the code;
- `find_memory`: pass 0 takes a whole chunk (`TakeWhole`); pass 1 splits
  one (`Split`, `SplitRest`); `FindIn` and `FindWith` are its two loops;
- `mm_malloc`, with the `sbrk` path (`Sbrk`, `MallocFrom`);
- `mm_free`;
- `mm_realloc`: malloc (`ReallocMalloc`), then free (`ReallocFree`);
- `HeapWalk`, the walk of `mm_checkheap`.

Each step of a C function that builds on the heap left by the previous
step is its own operator, taking that heap as a parameter. This keeps
TLC's evaluation of a call linear in its steps.

**Actions.** `Malloc`, `Free` and `Realloc` are the caller's calls.
`Returns` is the caller taking a result. The
variable `live` holds the caller's blocks. `Free` only frees live blocks,
which is the allocator's contract.

**Refinement.** `MMAbs` is what an allocator promises: disjoint live blocks
(`Fresh`, `Apart`).
`MM` refines it with `blocks <- live` (property `AbsSpec`).

**Assumption.** `align()` lives in `mm.h`, which is not in the repository. It
is taken to round up to 8 bytes.

### `RabinKarp`, `BoyerMoore`, `BST`, `BubbleSort`, `BitHelpers`

These are pure functions as operators. Loops are `RECURSIVE` operators, and
each module keeps the code's control flow:

- **`RabinKarp`.** `NaiveInner` tests `pattmp` as a pointer. The bounds of
  `RkLoop` and `BloomFrom` are the code's bounds. A `char` is signed.
  `bloom.c` is not in the repository, so the filter is its contract: the set
  of values added, with no false negatives.
- **`BST`.** The children of the root made by `init_tree` are a
  nondeterministic choice between NULL and garbage (`Wild`). Following
  `Wild` yields `Crash`. `inorder_do` tests its bound only on entry.
  `del_tree` yields the strings of the nodes in the order they are freed.
- **`RabinKarp`, filter path.** On a filter miss,
  `rk_substring_match_using_bloom` returns 0 and leaves `*first_match_ind`
  as the caller had it. `BloomAgreesWithReference` is checked with the
  prior value both -1 and uninitialised, so it promises the first index only
  when an occurrence is counted.
- **`BitHelpers`.** A 32-bit word is a function from bit positions to
  {0, 1}, because TLC's integers are 32-bit signed. A shift by 32 or more is
  undefined in C, so the model returns the set of values an x86 build can
  produce. `LowByte` reads bit 0 as the least significant bit of the byte.
- **`BinaryLab`.** The five exercises of `binarylab/`:
  - `ex1`: `b += a` is `Add`, a ripple-carry add of two 32-bit words that
    drops the carry out of bit 31. This is how the x86 build handles the
    signed overflow, which C leaves undefined.
  - `ex2` scans a NUL-terminated byte array.
  - `ex3` works on one array that holds both ranges, so `rd` and `rs` may
    alias. `ex3_step` is the loop body, whose order the swap depends on.
  - `ex4` is the doubly recursive Fibonacci.
  - `ex5` walks a list, given as the sequence of its values.

### `MC_Algorithms`

The harness has one state per input. The input is a record tagged by the
function under test: `hash`, `search`, `bst`, `sort`, `float`,
`clear`, `bitmap`, `ex2`, `ex3` or `ex5`. Each property compares one function with a reference
definition written independently of the code:

| Reference | What it defines |
|---|---|
| `PolyValue` | the key as a base-256 number |
| `Occurrences` | every position where the pattern occurs |
| `PreorderRef`, `PostorderRef`, `CodesRef` | the tree that sequential insertion builds |
| `Delta1Ref` | the delta1 table of the Boyer-Moore paper |
| `SortSeq` | the sorted array |
| `ExponentRef` | bits 23..30 of the float |
| `ClearRef` | the number with its top bits cleared |
| `CountA` | the 'a' bytes before the first NUL |
| `ExchangeRef` | the array with two ranges exchanged |

`ex1` and `ex4` are modelled but checked by no property; section 5 says
why.

## 3. Runs

| Run | Expect | Bounds | What it shows |
|---|---|---|---|
| `rwlock_no_timeout` | pass | 4 threads, no deadlines, `FairSpec` | `TypeOK`, `CountersAccurate`, `NoLostWakeup`, refinement `AbsSpec`, and liveness `WriterProgress` |
| `rwlock_timeout_safety` | pass | 4 threads with deadlines | counters and refinement survive timeouts, including ones that consume a signal |
| `rwlock_lost_wakeup` | violation | 4 threads with deadlines | `NoLostWakeup`: a timed-out writer strands the readers queued behind it |
| `htable_resize_seq` | pass | 1 thread, 4 calls | the resize keeps, places and finds every entry |
| `htable_resize_disjoint` | pass | 2 threads, disjoint keys, 3 calls each, `FairSpec` | `TypeOK`; `DestroyFreesEveryNodeOnce`: destroy frees every linked node exactly once, so no resize leaks a node or links it twice; and `CallsReturn`: every call returns, so the lock order of resize cannot deadlock |
| `htable_duplicate_key` | violation | 2 threads, shared keys | an insert racing a resize duplicates a key |
| `htable_stale_lookup` | violation | 2 threads, disjoint keys, 3 calls each | `LookupSeesCompletedInserts`: a lookup racing a resize misses a key whose insert had returned |
| `algorithms` | pass | see below | twelve reference checks over every bounded input |
| `hash_signed_char` | violation | keys with a byte of 128 or more | `hashcode` goes negative |
| `mm_heap` | pass | requests of 600 and 1620 bytes, heap of 3000 | `HeapTiled`, `ListsMatchHeap`, `FreeListCoalesced`, and refinement `AbsSpec` over every call sequence |
| `naive_end_of_doc` | violation | pattern "a", document "a" | `naive_substring_match` misses a match at the end of the document |
| `bst_uninit_root` | violation | one insert, garbage root children | after one insert fills the root, a traversal follows the root's garbage `left` |

Every property has a mutant in `PROJECT.json`. A mutant is a plausible bug
in the definition that models the code, and TLC finds the property violated
when the mutant replaces that definition.

### Why the bounds are enough

- **Table.** `NUM_LOCKS = 2` and `MAX_COLLISION = 1`.
  - The keys "a", "d" and "g" all collide in the initial 3-slot table.
  - A second insert into a chain therefore resizes the table to 7 slots.
  - Slots 0 and 2 share a stripe; slot 1 has its own.
  - Every interleaving of two callers with a resize happens within these
    bounds.
- **Lock.** 4 threads: a holder, a waiting writer, a waiting reader and a
  barging fourth thread.
- **Allocator.**
  - 600 and 1620 bytes make chunks of 632 and 1656, and 1656 is exactly
    632 + `MIN_GUARD`.
  - A freed 1656 chunk therefore fails pass 0's strict bound for a 600-byte
    request, and pass 1 splits it, leaving a free chunk of exactly 1024.
  - That rest, and a freed 632 chunk, are reused whole in pass 0.
  - Pass 1's own bound (`chunk > newsize + HDR`) cannot decide anything:
    every chunk that reaches pass 1 and is at least `newsize` is at least
    `newsize + MIN_GUARD`.
  - Frees of adjacent chunks coalesce on either side.
  - 3000 bytes hold three chunks before `mem_sbrk` is refused.
- **Algorithms.**
  - hash: ASCII keys of up to 3 bytes;
  - search: patterns of 1-2 bytes and documents of 0-4 bytes over "ab";
  - BST: up to 3 insertions of 3 strings;
  - sort: arrays of up to 4 ints over {0, 1, 2}, which includes repeats;
  - floats: ±1.0, -2.0, +inf, 0 and a subnormal;
  - `clear_msb`: four words, with shifts 0, 1, 15, 16 and 31;
  - bitmaps: 1-2 bytes, every bit index;
  - `ex2`: strings of up to 4 bytes over {NUL, 'a', 'b'}, with bytes after
    an embedded NUL;
  - `ex3`: arrays of 1-5 distinct bytes, with every in-bounds `rd`, `rs`
    and `b` from -1 up, so ranges are disjoint, equal or overlapping;
  - `ex5`: lists of up to 4 values over 0..2, with equal neighbours.

  These inputs reach every branch: a match at the first and last window, a
  repeat insertion, a split and a whole-chunk reuse, and a set sign bit.

### Fairness

`RWLock!Fairness` assumes weak fairness of two kinds of step:

- every unlock, because critical sections are finite;
- every post-wait re-test, because a woken thread is runnable.

It assumes nothing about callers starting an acquisition, about spurious
wakeups or about timeouts. Pthread mutexes are not fair, so only writers as a
class make progress. Reader starvation under continuous writers is the
trade-off that spec 4.1 documents.

`HTable!FairSpec` is described in section 2. Every table run is checked for
deadlock. The only allowed final state is every thread finished.

## 4. Findings

- **`htable.c:213` and `htable.c:280`.** The slot is computed from
  `ht->size` before the stripe lock is taken. If a resize runs in between, an
  insert duplicates a key (run `htable_duplicate_key`). By the same race, a
  lookup walks a chain of the new store that its key is not in, and misses
  a key whose insert had returned before the lookup began (run
  `htable_stale_lookup`: t1 computes slot 1 from size 3, t2's resize moves
  the key to slot 6 of 7, t1 walks slot 1). Spec 1 asks the resize to be
  linearizable with respect to concurrent inserts and lookups.
- **`rwlock.c:124`.** A writer that times out wakes nobody. Readers that were
  blocked only because of that writer stay blocked.
- **`htable.c:43`.** A byte of 128 or more makes `hashcode` negative, which
  gives a negative array index.
- **`rkgrep.c:104`.** `naive_substring_match` tests the pointer `pattmp`
  instead of `*pattmp`. It therefore never counts an occurrence that ends at
  the last byte of the document.
- **`part7.c:48`.** `init_tree` leaves the root's `left` and `right`
  uninitialised, so after the first insert a traversal (or the second
  insert) follows garbage.

`PROJECT.json` lists these hazards with no run:

- **`clear_msb` with `b >= 32`.** Undefined behaviour: on x86 it keeps the
  low bits where the comment promises 0. `ClearMsbCorrect` is checked for
  shifts 0..31.
- **`mem_sbrk` failure.** The result is unchecked.
- **`boyer_moore` reads out of bounds.** It reads `pattern[patlen]` and
  `delta2[patlen]`. Its inner loop starts at `j = patlen`, and its first
  comparison is with the pattern's NUL, so it never matches a non-empty
  pattern. Its helpers disagree with their comments too: `find_rpr(p,
  plen - 1)` returns 1, so `delta2[plen - 1]` is `plen - 1` where the
  comment says it "should always be 1". The author marks this code
  unfinished, so the run budget goes to bugs in code the repository uses.
- **`mm_checkheap` dereferences a list link.** It evaluates
  `h->next->size` for every chunk, and `h->next` is NULL at a list's tail.
  `my_assert` discards the value, but a build that keeps the load faults.
- **`htable_init(ht, 0, ..)` gets a table of one slot.** `get_prime(1)`
  returns 1 because `is_prime` calls every `n <= 3` prime. Spec 3 asks for
  the smallest prime >= 1, which is 2. Sizes from resizes, `get_prime(2 *
  size)` with a size of at least 2, are real primes.
- **Writer priority in `rwl_rlock`.** A reader enters only where the code
  tests `n_writers || n_waiting_writers`, on entry and after every wakeup,
  so a property saying so would restate that guard. `NoLostWakeup` and
  `WriterProgress` check what the priority costs and what it buys.
- **`ex1`'s wrapping add.** `ex1` is one wrapping 32-bit add and a
  compare, and a property would compare the model's adder with another
  form of the same arithmetic.
- **`bit_at_index` and `init_delta1` with bytes of 128 or more.**

## 5. Not modelled, and why

- **`rwl_destroy`.** It only destroys the pthread objects, and nothing in the
  repository uses a lock after it. `htable_destroy` does not call it.
- **A call concurrent with `htable_destroy`.** The spec makes it undefined,
  so the model destroys the table only once every caller has returned.
- **`htable_size`.** A plain read that decides nothing in the
  repository.
- **`find_rpr`, `init_delta2`, `boyer_moore`.** The source marks them
  unfinished ("Did not finish, some kind of bug here"), so there is no
  intended behaviour to check them against.
- **Allocation failure.** `malloc` failing in resize, or `mem_sbrk` failing,
  is a NULL dereference with no state after it. The allocator model bounds
  the break by `HeapMax` instead.
- **A check of `ex4`.** `ex4` is modelled as the doubly recursive
  function it is. Its comment says it returns "the sum of the first rd
  fibonacci numbers", but the code returns F(rd) itself (they differ from
  rd = 4: 4 against 3). The intended behaviour is that of a solution object
  the repository does not contain, so neither reading can be checked
  against it.
- **Value pointers, payload bytes and `memcpy`.** They are opaque, and no
  property depends on them. `MMAbs` states the disjointness that `memcpy`
  needs.
