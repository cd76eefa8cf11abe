--------------------------------- MODULE MM ---------------------------------
(***************************************************************************)
(* The explicit-list allocator of malloclab/mm.c.                          *)
(*                                                                         *)
(* The heap is the record `heap`: the chunk headers found at each chunk   *)
(* address (size and status), the address-ordered free list              *)
(* (global_free_list), the allocated list (global_allocated_list_head),   *)
(* and the break that mem_sbrk moves.  The list order is what the code's  *)
(* next/prev pointers give; addresses are byte offsets from mem_heap_lo.  *)
(* Every C function is an operator from a heap to a heap (and a result),  *)
(* so that mm_realloc is mm_malloc then mm_free as in the code.  The      *)
(* caller of the allocator (the test driver) holds the payloads in `live`.*)
(***************************************************************************)
EXTENDS Integers, Sequences, FiniteSets
LOCAL INSTANCE SequencesExt

CONSTANTS HDR,        \* sizeof(header): size, next, prev, status
          ALIGNMENT,  \* the rounding of align() in mm.h
          MIN_GUARD,  \* #define MIN_GUARD 1024
          Sizes,      \* request sizes the caller passes
          HeapMax,    \* the largest break the model lets mem_sbrk reach
          NULL

ASSUME NULL \notin Int

VARIABLES heap,   \* [chunks, free, alloc, brk]
          live    \* payload pointer -> size requested, for the caller's blocks

vars == <<heap, live>>

(* Mutant of get_newsize: the request is not rounded by align().        *)
get_newsize_unaligned(size) == size + HDR

(* get_newsize: the payload rounded by align(), plus the header.           *)
get_newsize(size) == ((size + ALIGNMENT - 1) \div ALIGNMENT) * ALIGNMENT + HDR

SizeOf(H, a) == H.chunks[a].size

\* get_chunk_status.
get_chunk_status(H, a) == H.chunks[a].status

\* The payload follows the header; header_to_next_header and get_next_chunk
\* step a header's address by a size.
header_to_payload(a) == a + HDR
payload_to_header(p) == p - HDR
header_to_next_header(a, size) == a + size
get_next_chunk(H, h) == header_to_next_header(h, SizeOf(H, h))

(* set_chunk_size_status on the header at a (a new header if none was).    *)
SetChunk(H, a, sz, st) ==
    [H EXCEPT !.chunks = (a :> [size |-> sz, status |-> st]) @@ @]

(* The free-list neighbours of h (hdr->next, hdr->prev), NULL at the ends. *)
NextOf(H, h) == LET i == SelectInSeq(H.free, LAMBDA x : x = h)
                IN  IF i = 0 \/ i = Len(H.free) THEN NULL ELSE H.free[i + 1]
PrevOf(H, h) == LET i == SelectInSeq(H.free, LAMBDA x : x = h)
                IN  IF i <= 1 THEN NULL ELSE H.free[i - 1]

(* remove_from_list: unlink h from whichever list holds it.                *)
remove_from_list(H, h) ==
    [H EXCEPT !.free = Remove(@, h), !.alloc = Remove(@, h)]

(* Mutant of merge_regions: nxt is unlinked but hdr keeps its size.      *)
merge_regions_keep_size(H, hdr, nxt) ==
    IF hdr = NULL \/ nxt = NULL \/ hdr + SizeOf(H, hdr) # nxt
    THEN <<FALSE, H>>
    ELSE <<TRUE, [H EXCEPT !.free = Remove(@, nxt),
                           !.chunks = [a \in DOMAIN @ \ {nxt} |-> @[a]]]>>

(* merge_regions(hdr, nxt): when nxt starts where hdr ends, hdr absorbs    *)
(* it and nxt leaves the free list.  Yields <<merged, heap>>.             *)
merge_regions(H, hdr, nxt) ==
    IF hdr = NULL \/ nxt = NULL \/ hdr + SizeOf(H, hdr) # nxt
    THEN <<FALSE, H>>
    ELSE <<TRUE,
           [H EXCEPT !.free = Remove(@, nxt),
                     !.chunks = [a \in DOMAIN @ \ {nxt} |->
                                   IF a = hdr
                                   THEN [size |-> @[hdr].size + @[nxt].size,
                                         status |-> FALSE]
                                   ELSE @[a]]]>>

(* insert_allocated_list: mark allocated and push at the head.             *)
insert_allocated_list(H, h) ==
    [H EXCEPT !.chunks[h].status = TRUE, !.alloc = <<h>> \o @]

(* The free list with h linked before the first chunk above it.            *)
InsertByAddress(s, h) ==
    LET i == SelectInSeq(s, LAMBDA x : h < x)
    IN  IF i = 0 THEN Append(s, h) ELSE InsertAt(s, i, h)

(* if (merge_regions(hdr, hdr->next)) merge_regions(hdr, hdr->next): the  *)
(* second try sees the next chunk after the first merge.  m is the result *)
(* of the first try.                                                       *)
MergeNextAgain(m, h) == IF m[1] THEN merge_regions(m[2], h, NextOf(m[2], h))[2] ELSE m[2]
MergeNext(H, h) == MergeNextAgain(merge_regions(H, h, NextOf(H, h)), h)

(* The same with hdr->prev, read once after the merges with the next.      *)
MergePrevAgain(m, prev, h) == IF m[1] THEN merge_regions(m[2], prev, h)[2] ELSE m[2]
MergePrev(H, prev, h) == MergePrevAgain(merge_regions(H, prev, h), prev, h)
MergeWithPrev(H, h) == MergePrev(H, PrevOf(H, h), h)

(* Mutants of insert_free_list (push at the head; no merge with prev).     *)
insert_free_list_at_head(H, h) ==
    MergeWithPrev(MergeNext([H EXCEPT !.chunks[h].status = FALSE, !.free = <<h>> \o @], h), h)
insert_free_list_no_prev_merge(H, h) ==
    MergeNext([H EXCEPT !.chunks[h].status = FALSE, !.free = InsertByAddress(@, h)], h)

(* insert_free_list: link h in address order, then coalesce it with the    *)
(* next free chunk and the previous one, each tried twice as in the code. *)
(* hdr->prev is not changed by the merges with the next chunk.            *)
insert_free_list(H, h) ==
    MergeWithPrev(MergeNext([H EXCEPT !.chunks[h].status = FALSE,
                                      !.free = InsertByAddress(@, h)], h), h)

(* The first free chunk that passes Fits, in list order, or 0.             *)
FirstFit(H, Fits(_)) == SelectInSeq(H.free, LAMBDA a : ~get_chunk_status(H, a) /\ Fits(a))

(* Pass 0 of find_memory: the chunk at a, taken whole.                     *)
TakeWhole(H, a) == <<header_to_payload(a), insert_allocated_list(remove_from_list(H, a), a)>>

(* Pass 1: the chunk at a (orig bytes) cut to newsize and allocated; H1    *)
(* is the heap after that, the rest becomes a free chunk.                  *)
SplitRest(H1, a, newsize, orig) ==
    <<header_to_payload(a),
      insert_free_list(SetChunk(H1, header_to_next_header(a, newsize), orig - newsize, FALSE),
                       header_to_next_header(a, newsize))>>
Split(H, a, newsize) ==
    SplitRest(insert_allocated_list(remove_from_list(SetChunk(H, a, newsize, TRUE), a), a),
              a, newsize, SizeOf(H, a))

(* The two passes, i0 and i1 the first fits of each (0 for none).          *)
FindIn(H, newsize, i0, i1) ==
    IF i0 # 0 THEN TakeWhole(H, H.free[i0])
    ELSE IF i1 # 0 THEN Split(H, H.free[i1], newsize)
    ELSE <<NULL, H>>

(* find_memory: first pass takes a whole free chunk that is big enough by  *)
(* less than MIN_GUARD; second pass splits the first chunk bigger than     *)
(* the request plus a header.  Yields <<payload or NULL, heap>>.           *)
FindWith(H, newsize) ==
    FindIn(H, newsize,
           FirstFit(H, LAMBDA a : newsize <= SizeOf(H, a) /\ SizeOf(H, a) < newsize + MIN_GUARD),
           FirstFit(H, LAMBDA a : SizeOf(H, a) > newsize + HDR))
find_memory(H, size) == IF size = 0 THEN <<NULL, H>> ELSE FindWith(H, get_newsize(size))

(* mm_malloc's fallback: a new chunk at the break from mem_sbrk.           *)
Sbrk(H, size) ==
    <<header_to_payload(H.brk), insert_allocated_list(SetChunk([H EXCEPT !.brk = @ + get_newsize(size)],
                                                  H.brk, get_newsize(size), TRUE), H.brk)>>

(* mm_malloc: the free list first (f is find_memory's result), otherwise   *)
(* a new chunk at the break.                                               *)
MallocFrom(H, size, f) == IF f[1] # NULL THEN f ELSE Sbrk(H, size)
mm_malloc(H, size) == IF size = 0 THEN <<NULL, H>> ELSE MallocFrom(H, size, find_memory(H, size))

(* mm_free: from the allocated list to the free list.                      *)
mm_free(H, ptr) == insert_free_list(remove_from_list(H, payload_to_header(ptr)),
                                    payload_to_header(ptr))

\* The new block, if size > 0, in heap H1.
ReallocMalloc(H1, size) == IF size > 0 THEN mm_malloc(H1, size) ELSE <<NULL, H1>>

(* Mutant of mm_realloc: the old block is freed before the new one is taken. *)
mm_realloc_free_first(H, ptr, size) ==
    ReallocMalloc(IF ptr # NULL THEN mm_free(H, ptr) ELSE H, size)

\* m is mm_malloc's result; the old block is freed after the copy.
ReallocFree(m, ptr) == <<m[1], IF ptr # NULL THEN mm_free(m[2], ptr) ELSE m[2]>>

(* mm_realloc: a new block (when size > 0), the copy, then the old block freed. *)
mm_realloc(H, ptr, size) == ReallocFree(ReallocMalloc(H, size), ptr)

(* mm_checkheap's walk: from mem_heap_lo, chunk by chunk, by each header's *)
(* size, while below the break; an address with no header ends it.         *)
RECURSIVE HeapWalk(_, _)
HeapWalk(H, h) ==
    IF h >= H.brk THEN <<>>
    ELSE IF h \in DOMAIN H.chunks /\ SizeOf(H, h) > 0
         THEN <<h>> \o HeapWalk(H, get_next_chunk(H, h))
         ELSE <<h>>

(* mm_init: both lists empty, nothing taken from mem_sbrk yet.             *)
Init ==
    /\ heap = [chunks |-> [a \in {} |-> [size |-> 0, status |-> FALSE]],
               free |-> <<>>, alloc |-> <<>>, brk |-> 0]
    /\ live = [p \in {} |-> 0]

LiveWithout(p) == [q \in DOMAIN live \ {p} |-> live[q]]

(* A call's result r = <<payload or NULL, heap>> taken by the caller: the *)
(* block p it gave back is gone, the new block is live.  mem_sbrk never    *)
(* moves the break past HeapMax.                                           *)
Returns(r, size, p) ==
    /\ r[2].brk <= HeapMax
    /\ heap' = r[2]
    /\ live' = IF r[1] = NULL THEN LiveWithout(p)
               ELSE (r[1] :> size) @@ LiveWithout(p)

(* The caller's mm_malloc(size).                                           *)
Malloc(size) == Returns(mm_malloc(heap, size), size, NULL)

(* The caller's mm_free of a block it holds.                               *)
Free(p) ==
    /\ heap' = mm_free(heap, p)
    /\ live' = LiveWithout(p)

(* The caller's mm_realloc of a block it holds, or of NULL; size 0 frees.  *)
Realloc(p, size) == Returns(mm_realloc(heap, p, size), size, p)

Next ==
    \/ \E size \in Sizes : Malloc(size)
    \/ \E p \in DOMAIN live : Free(p)
    \/ \E p \in DOMAIN live \cup {NULL} : \E size \in Sizes \cup {0} : Realloc(p, size)

Spec == Init /\ [][Next]_vars

-----------------------------------------------------------------------------
\* A size a chunk can have: aligned, a header and a payload, within the heap.
IsChunkSize(n) == n \in Nat /\ HDR + ALIGNMENT <= n /\ n <= HeapMax /\ n % ALIGNMENT = 0

(* Every header holds a size that can be a chunk (aligned, with room for   *)
(* the header and a payload) and the lists hold chunk addresses.           *)
TypeOK ==
    /\ heap.brk \in 0..HeapMax
    /\ DOMAIN heap.chunks \subseteq 0..HeapMax
    /\ \A a \in DOMAIN heap.chunks :
          IsChunkSize(heap.chunks[a].size) /\ heap.chunks[a].status \in BOOLEAN
    /\ heap.free \in Seq(DOMAIN heap.chunks)
    /\ heap.alloc \in Seq(DOMAIN heap.chunks)
    /\ \A p \in DOMAIN live : p \in HDR..HeapMax /\ live[p] \in Sizes

(* What mm_checkheap walks is a heap: from mem_heap_lo the headers' sizes  *)
(* lead from chunk to chunk through every chunk and end at the break, so  *)
(* the splits in find_memory and the merges in insert_free_list neither   *)
(* lose nor double-count a byte.                                           *)
HeapTiled ==
    LET w == HeapWalk(heap, 0)
    IN  /\ ToSet(w) = DOMAIN heap.chunks
        /\ w # <<>> => Last(w) + SizeOf(heap, Last(w)) = heap.brk

(* Every chunk is on exactly one list and its status says which; the free  *)
(* list is in address order (which coalescing relies on); the caller's     *)
(* blocks are exactly the payloads of the allocated list, each big enough. *)
ListsMatchHeap ==
    /\ Len(heap.free) + Len(heap.alloc) = Cardinality(DOMAIN heap.chunks)
    /\ ToSet(heap.free) \cup ToSet(heap.alloc) = DOMAIN heap.chunks
    /\ \A a \in DOMAIN heap.chunks : heap.chunks[a].status = (a \in ToSet(heap.alloc))
    /\ IsSorted(heap.free, <)
    /\ DOMAIN live = {a + HDR : a \in ToSet(heap.alloc)}
    /\ \A p \in DOMAIN live : SizeOf(heap, p - HDR) >= get_newsize(live[p])

(* No free chunk ends where another free chunk begins: every mm_free,      *)
(* mm_realloc and split in find_memory leaves the free memory coalesced.   *)
FreeListCoalesced ==
    \A a \in ToSet(heap.free) : a + SizeOf(heap, a) \notin ToSet(heap.free)

(* The allocator implements MMAbs: mm_malloc and mm_realloc hand out       *)
(* blocks that overlap no live block, and mm_realloc's new block does not  *)
(* overlap the old one it copies from.                                     *)
Abs == INSTANCE MMAbs WITH blocks <- live
AbsSpec == Abs!Spec
=============================================================================
