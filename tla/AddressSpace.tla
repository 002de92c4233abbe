---------------------------- MODULE AddressSpace ----------------------------
(***************************************************************************)
(* The block directory of AddressSpace (src/AddressSpace.cpp) and the      *)
(* host reservations, views and handles it is kept consistent with, under  *)
(* concurrent threads.  One block = one ALLOCATION_GRANULARITY unit.       *)
(*                                                                         *)
(*   mapping[b]   BlockInfo::mapping: NULL (free), INVALID (reserved, no   *)
(*                mapping) or a file-mapping handle.                       *)
(*   os[b]        what VirtualQueryEx reports for block b: free, reserved  *)
(*                in the allocation based at os[b].base, or a mapped view  *)
(*                of handle os[b].h.                                       *)
(*   open         file-mapping handle values currently open.              *)
(*                                                                         *)
(* Every host call and every interlocked operation is one atomic step.     *)
(* A retry loop (while (!call) concurrency ();) is one action enabled      *)
(* when the call would succeed; its failing iterations change nothing.     *)
(* Each thread runs one client call at a time; the client side only ever   *)
(* operates on blocks it reserved itself (owned), as the spec requires of  *)
(* callers (no concurrent mutation of overlapping ranges), except that     *)
(* with SharedCommit any thread may commit any reserved block, the race    *)
(* Block::map (commit = true) is written for.                              *)
(***************************************************************************)
EXTENDS Naturals, FiniteSets

CONSTANTS NBlocks,       \* blocks of the address space, 1..NBlocks
          Threads,       \* client threads
          Handles,       \* file-mapping handle values the host may return
          NULL,          \* BlockInfo::mapping == 0
          INVALID,       \* INVALID_HANDLE_VALUE: reserved, not mapped
          MaxSize,       \* largest reserve() request, in blocks
          SharedCommit,  \* may a thread commit a block another thread reserved?
          Readers        \* threads that only read block states (Block::state)

ASSUME NBlocks \in Nat \ {0} /\ MaxSize \in 1..NBlocks
ASSUME NULL \notin Handles /\ INVALID \notin Handles /\ NULL # INVALID
ASSUME SharedCommit \in BOOLEAN /\ Readers \subseteq Threads

Blocks == 1..NBlocks
Nowhere == 0                        \* "no block": a null pointer

VARIABLES mapping, os, open,
          pc,        \* control point of each thread
          req,       \* reserve(): [dst, size] of the request
          lo, hi,    \* block range the current call works on
          cur,       \* loop cursor (pb in reserve, p in release)
          hnd,       \* handle held in a local variable
          bmbi,      \* begin_mbi / the mbi queried by Block::map
          embi,      \* end_mbi of release()
          rend,      \* region_end of the release loop
          owned,     \* client view: blocks each thread has reserved
          fault,     \* some verify() or assert() of the code failed
          seen,      \* Block::state (): the entry value hm its loop ended with
          sfault,    \* an assert () of Block::state () failed
          live       \* between initialize () and terminate ()

vars == <<mapping, os, open, pc, req, lo, hi, cur, hnd, bmbi, embi, rend, owned, fault,
          seen, sfault, live>>
stvars == <<seen, sfault>>

-----------------------------------------------------------------------------
(* Host virtual memory (the Win32 calls of the shim).                      *)

FreeB == [k |-> "free", base |-> Nowhere, h |-> NULL]
ResB(a) == [k |-> "res", base |-> a, h |-> NULL]
ViewB(a, h) == [k |-> "view", base |-> a, h |-> h]

Span(a, n) == a..(a + n - 1)
IsFreeRun(a, n) == a + n - 1 <= NBlocks /\ \A x \in Span(a, n) : os[x] = FreeB

\* VirtualAllocEx (a, n, MEM_RESERVE): a new allocation based at a.
OsReserve(a, n) == os' = [x \in Blocks |-> IF x \in Span(a, n) THEN ResB(a) ELSE os[x]]

\* VirtualFreeEx (a, 0, MEM_RELEASE): a must be an allocation base.
OsReleaseOk(a) == a \in Blocks /\ os[a] = ResB(a)
OsRelease(a) == os' = [x \in Blocks |-> IF os[x] = ResB(a) THEN FreeB ELSE os[x]]

\* VirtualQueryEx: BaseAddress + RegionSize of the run of pages in the same
\* state and allocation as block b, as the last block of that run.
RegionEnd(b) == CHOOSE e \in b..NBlocks :
                   /\ \A x \in b..e : os[x] = os[b]
                   /\ e = NBlocks \/ os[e + 1] # os[b]
Query(b) == [state |-> os[b].k, base |-> os[b].base,
             end |-> IF os[b].k = "view" THEN b ELSE RegionEnd(b)]
NoMbi == [state |-> "none", base |-> Nowhere, end |-> Nowhere]

\* A verify () or assert () of the code: a failed one is recorded.
Check(ok) == fault' = (fault \/ ~ok)

Goto(t, l) == pc' = [pc EXCEPT ![t] = l]
Done(t) == Goto(t, "idle")

\* allocate (dst, size, flags) without Memory::RESERVED and off the quick
\* path (MemoryWindows.h 64-75): the blocks reserve () returned, which
\* commit_no_check then commits one by one.
AllocRange(t) == req[t].dst..(req[t].dst + req[t].size - 1)

\* The end of one block's commit: commit_no_check goes on to the next block
\* of an allocate; the last one returns the blocks to allocate's caller.
CommitNext(t) ==
    IF req[t].commit /\ lo[t] < req[t].dst + req[t].size - 1
    THEN /\ lo' = [lo EXCEPT ![t] = @ + 1]
         /\ hi' = [hi EXCEPT ![t] = @ + 1]
         /\ Goto(t, "com_new")
         /\ UNCHANGED owned
    ELSE /\ owned' = IF req[t].commit THEN [owned EXCEPT ![t] = @ \cup AllocRange(t)]
                     ELSE owned
         /\ Done(t)
         /\ UNCHANGED <<lo, hi>>

\* Mutant: allocate lets the exception through without releasing.
CommitFailed_norelease(t) == Done(t) /\ UNCHANGED <<lo, hi>>

\* An exception out of a commit: allocate catches it, releases all it
\* reserved (sm_space.release (ret, size)) and rethrows, or returns 0 for
\* EXACTLY; a plain commit throws.
CommitFailed(t) ==
    IF req[t].commit
    THEN /\ lo' = [lo EXCEPT ![t] = req[t].dst]
         /\ hi' = [hi EXCEPT ![t] = req[t].dst + req[t].size - 1]
         /\ Goto(t, "rel_check")
    ELSE Done(t) /\ UNCHANGED <<lo, hi>>

-----------------------------------------------------------------------------
(* AddressSpace::reserve (size, flags, dst).  dst = Nowhere is a request   *)
(* without a hint; a hint is always given with Memory::EXACTLY.            *)

reserve_alloc(t) ==
    /\ pc[t] = "res_alloc"
    /\ LET n == req[t].size
           cands == IF req[t].dst = Nowhere THEN Blocks ELSE {req[t].dst}
       IN  \/ \E a \in cands :
                 /\ IsFreeRun(a, n)
                 /\ OsReserve(a, n)
                 /\ lo' = [lo EXCEPT ![t] = a]
                 /\ hi' = [hi EXCEPT ![t] = a + n - 1]
                 /\ cur' = [cur EXCEPT ![t] = a]
                 /\ Goto(t, "res_cas")
           \/ /\ \A a \in cands : ~IsFreeRun(a, n)   \* return 0 / throw NO_MEMORY
              /\ Done(t) /\ UNCHANGED <<os, lo, hi, cur>>
    /\ UNCHANGED <<mapping, open, req, hnd, bmbi, embi, rend, owned, fault>>

\* InterlockedCompareExchangePointer (&block (pb).mapping, INVALID, 0)
reserve_cas(t) ==
    /\ pc[t] = "res_cas"
    /\ LET pb == cur[t] IN
       IF mapping[pb] = NULL
       THEN /\ mapping' = [mapping EXCEPT ![pb] = INVALID]
            /\ IF pb = hi[t] /\ req[t].commit
               THEN /\ req' = [req EXCEPT ![t].dst = lo[t]]    \* commit_no_check (ret, size)
                    /\ hi' = [hi EXCEPT ![t] = lo[t]]
                    /\ Goto(t, "com_new")
                    /\ UNCHANGED <<cur, owned>>
               ELSE IF pb = hi[t]
               THEN /\ owned' = [owned EXCEPT ![t] = @ \cup (lo[t]..hi[t])]
                    /\ Done(t) /\ UNCHANGED <<cur, req, hi>>
               ELSE /\ cur' = [cur EXCEPT ![t] = pb + 1]
                    /\ UNCHANGED <<pc, owned, req, hi>>
       ELSE /\ Goto(t, "res_undo")
            /\ UNCHANGED <<mapping, cur, owned, req, hi>>
    /\ UNCHANGED <<os, open, lo, hnd, bmbi, embi, rend, fault>>

\* while (pb > p) block (pb -= ALLOCATION_GRANULARITY).mapping = 0;
reserve_undo(t) ==
    /\ pc[t] = "res_undo"
    /\ IF cur[t] > lo[t]
       THEN /\ mapping' = [mapping EXCEPT ![cur[t] - 1] = NULL]
            /\ cur' = [cur EXCEPT ![t] = @ - 1]
            /\ UNCHANGED pc
       ELSE Goto(t, "res_free") /\ UNCHANGED <<mapping, cur>>
    /\ UNCHANGED <<os, open, req, lo, hi, hnd, bmbi, embi, rend, owned, fault>>

\* verify (VirtualFreeEx (p, 0, MEM_RELEASE)); concurrency (); and retry.
reserve_free(t) ==
    /\ pc[t] = "res_free"
    /\ Check(OsReleaseOk(lo[t]))
    /\ IF OsReleaseOk(lo[t]) THEN OsRelease(lo[t]) ELSE UNCHANGED os
    /\ Goto(t, "res_alloc")
    /\ UNCHANGED <<mapping, open, req, lo, hi, cur, hnd, bmbi, embi, rend, owned>>

-----------------------------------------------------------------------------
(* AddressSpace::release (dst, size) for the blocks lo..hi.                *)

\* Check allocation: every block must have a non-null mapping.
release_check(t) ==
    /\ pc[t] = "rel_check"
    /\ IF \A x \in lo[t]..hi[t] : mapping[x] # NULL
       THEN Goto(t, "rel_margins")
       ELSE Done(t)                                           \* BAD_PARAM
    /\ UNCHANGED <<mapping, os, open, req, lo, hi, cur, hnd, bmbi, embi, rend, owned, fault>>

\* Define allocation margins if memory is reserved: query the first block
\* and, unless its reservation already covers the range, the last one.
release_margins(t) ==
    /\ pc[t] = "rel_margins"
    /\ LET bq == IF mapping[lo[t]] = INVALID THEN Query(lo[t]) ELSE NoMbi
           eq == IF bq # NoMbi /\ bq.end >= hi[t] THEN bq
                 ELSE IF mapping[hi[t]] = INVALID THEN Query(hi[t]) ELSE NoMbi
       IN  /\ bmbi' = [bmbi EXCEPT ![t] = bq]
           /\ embi' = [embi EXCEPT ![t] = eq]
           /\ Check(bq.state \in {"none", "res"} /\ eq.state \in {"none", "res"})
    /\ Goto(t, "rel_split_begin")
    /\ UNCHANGED <<mapping, os, open, req, lo, hi, cur, hnd, rend, owned>>

\* Split the reservation at the beginning: release it whole ...
release_split_begin(t) ==
    /\ pc[t] = "rel_split_begin"
    /\ LET m == bmbi[t] IN
       IF m.state = "res" /\ lo[t] > m.base
       THEN /\ Check(OsReleaseOk(m.base))
            /\ IF OsReleaseOk(m.base) THEN OsRelease(m.base) ELSE UNCHANGED os
            /\ Goto(t, "rel_rereserve_begin")
       ELSE Goto(t, "rel_split_end") /\ UNCHANGED <<os, fault>>
    /\ UNCHANGED <<mapping, open, req, lo, hi, cur, hnd, bmbi, embi, rend, owned>>

\* Mutant: the part before lo re-reserved one block too long.
release_rereserve_begin_long(t) ==
    /\ pc[t] = "rel_rereserve_begin"
    /\ IsFreeRun(bmbi[t].base, lo[t] - bmbi[t].base + 1)
    /\ OsReserve(bmbi[t].base, lo[t] - bmbi[t].base + 1)
    /\ Goto(t, "rel_split_end")
    /\ UNCHANGED <<mapping, open, req, lo, hi, cur, hnd, bmbi, embi, rend, owned, fault>>

\* ... and reserve again the part before lo, retrying until the host agrees.
release_rereserve_begin(t) ==
    /\ pc[t] = "rel_rereserve_begin"
    /\ IsFreeRun(bmbi[t].base, lo[t] - bmbi[t].base)
    /\ OsReserve(bmbi[t].base, lo[t] - bmbi[t].base)
    /\ Goto(t, "rel_split_end")
    /\ UNCHANGED <<mapping, open, req, lo, hi, cur, hnd, bmbi, embi, rend, owned, fault>>

\* Mutant: the end split releases the reservation even when the begin
\* split already did.
release_split_end_twice(t) ==
    /\ pc[t] = "rel_split_end"
    /\ LET m == embi[t] IN
       IF m.state = "res" /\ m.end > hi[t]
       THEN /\ Check(OsReleaseOk(m.base))
            /\ IF OsReleaseOk(m.base) THEN OsRelease(m.base) ELSE UNCHANGED os
            /\ Goto(t, "rel_rereserve_end") /\ UNCHANGED cur
       ELSE /\ Goto(t, "rel_xchg") /\ cur' = [cur EXCEPT ![t] = lo[t]]
            /\ UNCHANGED <<os, fault>>
    /\ UNCHANGED <<mapping, open, req, lo, hi, hnd, bmbi, embi, rend, owned>>

\* Split the reservation at the end: release it unless the begin split
\* already did (its base lies before lo) ...
release_split_end(t) ==
    /\ pc[t] = "rel_split_end"
    /\ LET m == embi[t] IN
       IF m.state = "res" /\ m.end > hi[t]
       THEN /\ IF m.base >= lo[t]
               THEN /\ Check(OsReleaseOk(m.base))
                    /\ IF OsReleaseOk(m.base) THEN OsRelease(m.base) ELSE UNCHANGED os
               ELSE UNCHANGED <<os, fault>>
            /\ Goto(t, "rel_rereserve_end")
            /\ UNCHANGED cur
       ELSE /\ Goto(t, "rel_xchg")
            /\ cur' = [cur EXCEPT ![t] = lo[t]]
            /\ UNCHANGED <<os, fault>>
    /\ UNCHANGED <<mapping, open, req, lo, hi, hnd, bmbi, embi, rend, owned>>

\* ... and reserve again the part after hi.
release_rereserve_end(t) ==
    /\ pc[t] = "rel_rereserve_end"
    /\ IsFreeRun(hi[t] + 1, embi[t].end - hi[t])
    /\ OsReserve(hi[t] + 1, embi[t].end - hi[t])
    /\ Goto(t, "rel_xchg")
    /\ cur' = [cur EXCEPT ![t] = lo[t]]
    /\ UNCHANGED <<mapping, open, req, lo, hi, hnd, bmbi, embi, rend, owned, fault>>

\* Release memory: InterlockedExchangePointer (&allocated_block (p)->mapping, 0).
\* A null old value (assert (mapping)) leaves p where it is: the loop spins.
release_xchg(t) ==
    /\ pc[t] = "rel_xchg"
    /\ LET p == cur[t] IN
       IF p > hi[t]
       THEN /\ owned' = [owned EXCEPT ![t] = @ \ (lo[t]..hi[t])]
            /\ Done(t)
            /\ UNCHANGED <<mapping, hnd, fault>>
       ELSE /\ mapping' = [mapping EXCEPT ![p] = NULL]
            /\ Check(mapping[p] # NULL)
            /\ CASE mapping[p] = INVALID -> Goto(t, "rel_query") /\ UNCHANGED hnd
                 [] mapping[p] \in Handles ->
                       /\ hnd' = [hnd EXCEPT ![t] = mapping[p]]
                       /\ Goto(t, "rel_unmap")
                 [] OTHER -> UNCHANGED <<pc, hnd>>
            /\ UNCHANGED owned
    /\ UNCHANGED <<os, open, req, lo, hi, cur, bmbi, embi, rend>>

\* A reserved block: query it, release its allocation if it is still
\* reserved, and take region_end from the query.
release_query(t) ==
    /\ pc[t] = "rel_query"
    /\ LET p == cur[t]
           m == Query(p)
       IN  /\ Check(m.state \in {"res", "free"} /\ (m.state = "res" => OsReleaseOk(p)))
           /\ IF m.state = "res" /\ OsReleaseOk(p) THEN OsRelease(p) ELSE UNCHANGED os
           /\ rend' = [rend EXCEPT ![t] = IF m.end > hi[t] THEN hi[t] ELSE m.end]
           /\ cur' = [cur EXCEPT ![t] = p + 1]
    /\ Goto(t, "rel_clear")
    /\ UNCHANGED <<mapping, open, req, lo, hi, hnd, bmbi, embi, owned>>

\* The rest of the region: assert (INVALID == block (p).mapping);
\* allocated_block (p)->mapping = 0;
release_clear(t) ==
    /\ pc[t] = "rel_clear"
    /\ IF cur[t] <= rend[t]
       THEN /\ Check(mapping[cur[t]] = INVALID)
            /\ mapping' = [mapping EXCEPT ![cur[t]] = NULL]
            /\ cur' = [cur EXCEPT ![t] = @ + 1]
            /\ UNCHANGED pc
       ELSE Goto(t, "rel_xchg") /\ UNCHANGED <<mapping, cur, fault>>
    /\ UNCHANGED <<os, open, req, lo, hi, hnd, bmbi, embi, rend, owned>>

\* Mutant: the handle is closed but its view is left mapped.
release_unmap_kept(t) ==
    /\ pc[t] = "rel_unmap"
    /\ Check(os[cur[t]] = ViewB(cur[t], hnd[t]) /\ hnd[t] \in open)
    /\ open' = open \ {hnd[t]}
    /\ hnd' = [hnd EXCEPT ![t] = NULL]
    /\ cur' = [cur EXCEPT ![t] = @ + 1]
    /\ Goto(t, "rel_xchg")
    /\ UNCHANGED <<mapping, os, req, lo, hi, bmbi, embi, rend, owned>>

\* A mapped block: verify (UnmapViewOfFile2 ()); verify (CloseHandle ()).
release_unmap(t) ==
    /\ pc[t] = "rel_unmap"
    /\ LET p == cur[t] IN
       /\ Check(os[p] = ViewB(p, hnd[t]) /\ hnd[t] \in open)
       /\ os' = [os EXCEPT ![p] = IF @.k = "view" THEN FreeB ELSE @]
       /\ open' = open \ {hnd[t]}
       /\ hnd' = [hnd EXCEPT ![t] = NULL]
       /\ cur' = [cur EXCEPT ![t] = p + 1]
    /\ Goto(t, "rel_xchg")
    /\ UNCHANGED <<mapping, req, lo, hi, bmbi, embi, rend, owned>>

-----------------------------------------------------------------------------
(* Commit of a reserved block: Block (b), then map (new_mapping (),        *)
(* MAP_PRIVATE, true).  The wrapper lives in MemoryWindows.cpp, outside    *)
(* src/; AddressSpace::Block::map is the body of the following steps.      *)

commit_new(t) ==
    /\ pc[t] = "com_new"
    /\ LET b == lo[t] IN
       CASE mapping[b] = INVALID ->
              \/ \E h \in Handles \ open :               \* new_mapping ()
                    /\ open' = open \cup {h}
                    /\ hnd' = [hnd EXCEPT ![t] = h]
                    /\ Goto(t, "com_cas")
                    /\ UNCHANGED <<lo, hi, owned>>
              \/ /\ Handles \subseteq open                 \* NO_MEMORY
                 /\ CommitFailed(t) /\ UNCHANGED <<open, hnd, owned>>
         [] mapping[b] = NULL -> CommitFailed(t) /\ UNCHANGED <<open, hnd, owned>> \* BAD_PARAM
         [] OTHER -> CommitNext(t) /\ UNCHANGED <<open, hnd>>       \* mapped
    /\ UNCHANGED <<mapping, os, req, cur, bmbi, embi, rend, fault>>

\* Mutant: an exchange instead of the compare-exchange (commit = false).
map_cas_exchange(t) ==
    /\ pc[t] = "com_cas"
    /\ mapping' = [mapping EXCEPT ![lo[t]] = hnd[t]]
    /\ Goto(t, "com_query")
    /\ UNCHANGED <<os, open, req, lo, hi, cur, hnd, bmbi, embi, rend, owned, fault>>

\* InterlockedCompareExchangePointer (&m_info.mapping, mapping, INVALID).
\* A lost race (old is a handle) closes the new handle and returns; a null
\* old value is stored back and INTERNAL thrown, and the commit wrapper
\* closes the fresh handle on the way out (spec 7).
map_cas(t) ==
    /\ pc[t] = "com_cas"
    /\ LET b == lo[t] IN
       IF mapping[b] = INVALID
       THEN /\ mapping' = [mapping EXCEPT ![b] = hnd[t]]
            /\ Goto(t, "com_query")
            /\ UNCHANGED open
            /\ UNCHANGED <<lo, hi, owned>>
       ELSE /\ open' = open \ {hnd[t]}
            /\ IF mapping[b] = NULL THEN CommitFailed(t) /\ UNCHANGED owned
                                     ELSE CommitNext(t)
            /\ UNCHANGED mapping
    /\ UNCHANGED <<os, req, cur, hnd, bmbi, embi, rend, fault>>

\* The old value was INVALID: query the reservation holding the block.
map_query(t) ==
    /\ pc[t] = "com_query"
    /\ bmbi' = [bmbi EXCEPT ![t] = Query(lo[t])]
    /\ Check(os[lo[t]].k = "res")                  \* assert (MEM_RESERVE == mbi.State)
    /\ Goto(t, "com_free")
    /\ UNCHANGED <<mapping, os, open, req, lo, hi, cur, hnd, embi, rend, owned>>

\* Mutant: the reservation is not released before the view is mapped.
map_free_kept(t) ==
    /\ pc[t] = "com_free"
    /\ Check(OsReleaseOk(bmbi[t].base))
    /\ Goto(t, "com_pre")
    /\ UNCHANGED <<mapping, os, open, req, lo, hi, cur, hnd, bmbi, embi, rend, owned>>

\* verify (VirtualFreeEx (reserved_begin, 0, MEM_RELEASE)).
map_free(t) ==
    /\ pc[t] = "com_free"
    /\ Check(OsReleaseOk(bmbi[t].base))
    /\ IF OsReleaseOk(bmbi[t].base) THEN OsRelease(bmbi[t].base) ELSE UNCHANGED os
    /\ Goto(t, "com_pre")
    /\ UNCHANGED <<mapping, open, req, lo, hi, cur, hnd, bmbi, embi, rend, owned>>

\* Reserve again the blocks before and after b (realloc_begin,
\* realloc_end), each in a retry loop.
map_rereserve_begin(t) ==
    /\ pc[t] = "com_pre"
    /\ LET a == bmbi[t].base IN
       IF bmbi[t].state = "res" /\ lo[t] > a
       THEN IsFreeRun(a, lo[t] - a) /\ OsReserve(a, lo[t] - a)
       ELSE UNCHANGED os
    /\ Goto(t, "com_post")
    /\ UNCHANGED <<mapping, open, req, lo, hi, cur, hnd, bmbi, embi, rend, owned, fault>>

map_rereserve_end(t) ==
    /\ pc[t] = "com_post"
    /\ LET e == bmbi[t].end IN
       IF bmbi[t].state = "res" /\ e > lo[t]
       THEN IsFreeRun(lo[t] + 1, e - lo[t]) /\ OsReserve(lo[t] + 1, e - lo[t])
       ELSE UNCHANGED os
    /\ Goto(t, "com_map")
    /\ UNCHANGED <<mapping, open, req, lo, hi, cur, hnd, bmbi, embi, rend, owned, fault>>

\* while (!MapViewOfFile2 (mapping, ..., m_address, ...)) concurrency ();
map_view(t) ==
    /\ pc[t] = "com_map"
    /\ os[lo[t]] = FreeB
    /\ os' = [os EXCEPT ![lo[t]] = ViewB(lo[t], hnd[t])]
    /\ hnd' = [hnd EXCEPT ![t] = NULL]
    /\ CommitNext(t)
    /\ UNCHANGED <<mapping, open, req, cur, bmbi, embi, rend, fault>>

-----------------------------------------------------------------------------
(* Quick allocate (MemoryWindows::allocate with dst == 0 and one block):   *)
(* new_mapping (), then AddressSpace::map (mapping, MAP_PRIVATE).          *)

allocate_new(t) ==
    /\ pc[t] = "qa_new"
    /\ \/ \E h \in Handles \ open :
             /\ open' = open \cup {h}
             /\ hnd' = [hnd EXCEPT ![t] = h]
             /\ Goto(t, "qa_map")
       \/ /\ Handles \subseteq open                        \* NO_MEMORY
          /\ Done(t) /\ UNCHANGED <<open, hnd>>
    /\ UNCHANGED <<mapping, os, req, lo, hi, cur, bmbi, embi, rend, owned, fault>>

\* Mutant: NO_MEMORY returned without closing the new handle.
space_map_view_leak(t) ==
    /\ pc[t] = "qa_map"
    /\ \/ \E a \in Blocks :
             /\ os[a] = FreeB
             /\ os' = [os EXCEPT ![a] = ViewB(a, hnd[t])]
             /\ cur' = [cur EXCEPT ![t] = a]
             /\ Goto(t, "qa_cas")
       \/ /\ \A a \in Blocks : os[a] # FreeB
          /\ Done(t) /\ UNCHANGED <<os, cur>>
    /\ UNCHANGED <<mapping, open, req, lo, hi, hnd, bmbi, embi, rend, owned, fault>>

\* MapViewOfFile2 at an address of the host's choice; on failure allocate
\* closes the handle.
space_map_view(t) ==
    /\ pc[t] = "qa_map"
    /\ \/ \E a \in Blocks :
             /\ os[a] = FreeB
             /\ os' = [os EXCEPT ![a] = ViewB(a, hnd[t])]
             /\ cur' = [cur EXCEPT ![t] = a]
             /\ Goto(t, "qa_cas")
             /\ UNCHANGED <<open, hnd>>
       \/ /\ \A a \in Blocks : os[a] # FreeB               \* NO_MEMORY
          /\ open' = open \ {hnd[t]}
          /\ hnd' = [hnd EXCEPT ![t] = NULL]
          /\ Done(t) /\ UNCHANGED <<os, cur>>
    /\ UNCHANGED <<mapping, req, lo, hi, bmbi, embi, rend, owned, fault>>

\* InterlockedCompareExchangePointer (&block (p).mapping, mapping, 0).
space_map_cas(t) ==
    /\ pc[t] = "qa_cas"
    /\ LET p == cur[t] IN
       IF mapping[p] = NULL
       THEN /\ mapping' = [mapping EXCEPT ![p] = hnd[t]]
            /\ hnd' = [hnd EXCEPT ![t] = NULL]
            /\ owned' = [owned EXCEPT ![t] = @ \cup {p}]
            /\ Done(t)
       ELSE Goto(t, "qa_unmap") /\ UNCHANGED <<mapping, hnd, owned>>
    /\ UNCHANGED <<os, open, req, lo, hi, cur, bmbi, embi, rend, fault>>

\* Lost the block to another thread: UnmapViewOfFile2, concurrency (), retry.
space_map_unmap(t) ==
    /\ pc[t] = "qa_unmap"
    /\ os' = [os EXCEPT ![cur[t]] = FreeB]
    /\ Goto(t, "qa_map")
    /\ UNCHANGED <<mapping, open, req, lo, hi, cur, hnd, bmbi, embi, rend, owned, fault>>

-----------------------------------------------------------------------------
(* Decommit of a whole block: AddressSpace::decommit -> check_allocated -> *)
(* Block::decommit (0, ALLOCATION_GRANULARITY) -> Block::unmap ().         *)

\* Mutant: the exchanged value is taken for a handle without checking it.
unmap_xchg_unchecked(t) ==
    /\ pc[t] = "dec_xchg"
    /\ mapping' = [mapping EXCEPT ![lo[t]] = INVALID]
    /\ hnd' = [hnd EXCEPT ![t] = mapping[lo[t]]]
    /\ Goto(t, "dec_unmap")
    /\ UNCHANGED <<os, open, req, lo, hi, cur, bmbi, embi, rend, owned, fault>>

unmap_xchg(t) ==
    /\ pc[t] = "dec_xchg"
    /\ LET b == lo[t] IN
       CASE mapping[b] \in Handles ->
              /\ mapping' = [mapping EXCEPT ![b] = INVALID]
              /\ hnd' = [hnd EXCEPT ![t] = mapping[b]]
              /\ Goto(t, "dec_unmap")
         [] OTHER -> Done(t) /\ UNCHANGED <<mapping, hnd>>  \* BAD_PARAM, or reserved
    /\ UNCHANGED <<os, open, req, lo, hi, cur, bmbi, embi, rend, owned, fault>>

\* verify (UnmapViewOfFile2 ()); verify (CloseHandle (mapping)).
unmap_view(t) ==
    /\ pc[t] = "dec_unmap"
    /\ Check(os[lo[t]] = ViewB(lo[t], hnd[t]) /\ hnd[t] \in open)
    /\ os' = [os EXCEPT ![lo[t]] = IF @.k = "view" THEN FreeB ELSE @]
    /\ open' = open \ {hnd[t]}
    /\ hnd' = [hnd EXCEPT ![t] = NULL]
    /\ Goto(t, "dec_reserve")
    /\ UNCHANGED <<mapping, req, lo, hi, cur, bmbi, embi, rend, owned>>

\* while (!VirtualAllocEx (m_address, ALLOCATION_GRANULARITY, MEM_RESERVE)) ...
unmap_reserve(t) ==
    /\ pc[t] = "dec_reserve"
    /\ IsFreeRun(lo[t], 1)
    /\ OsReserve(lo[t], 1)
    /\ Done(t)
    /\ UNCHANGED <<mapping, open, req, lo, hi, cur, hnd, bmbi, embi, rend, owned, fault>>

-----------------------------------------------------------------------------
(* Block::state () of block lo[t] (AddressSpace.cpp 18-63), as a facade    *)
(* query (check_committed, is_readable, ...) reaches it: query the host,   *)
(* read the entry, and retry while the entry holds a handle whose view the *)
(* host does not show yet; then assert what was found and fill the state. *)
(* The page-by-page queries of a mapped block are one step.                *)

st_query(t) ==
    /\ pc[t] = "st_query"
    /\ bmbi' = [bmbi EXCEPT ![t] = Query(lo[t])]
    /\ Goto(t, "st_read")
    /\ UNCHANGED <<mapping, os, open, req, lo, hi, cur, hnd, embi, rend, owned, fault, seen, sfault>>

\* Mutant: the loop ends whatever the entry holds.
st_read_once(t) ==
    /\ pc[t] = "st_read"
    /\ LET hm == mapping[lo[t]] IN
       /\ sfault' = (sfault \/ hm = NULL)
       /\ seen' = [seen EXCEPT ![t] = hm]
       /\ Goto(t, "st_fill")
    /\ UNCHANGED <<mapping, os, open, req, lo, hi, cur, hnd, bmbi, embi, rend, owned, fault>>

\* Mutant: the loop waits for the entry to leave the handle, not for the
\* view; a reader of a mapped block never leaves it.
st_read_noview(t) ==
    /\ pc[t] = "st_read"
    /\ LET hm == mapping[lo[t]] IN
       /\ sfault' = (sfault \/ hm = NULL)
       /\ IF hm \in {NULL, INVALID}
          THEN seen' = [seen EXCEPT ![t] = hm] /\ Goto(t, "st_fill")
          ELSE Goto(t, "st_query") /\ UNCHANGED seen
    /\ UNCHANGED <<mapping, os, open, req, lo, hi, cur, hnd, bmbi, embi, rend, owned, fault>>

\* HANDLE hm = mapping (); assert (hm); break on a null or reserved entry
\* or a mapped view, else concurrency () and query again.
st_read(t) ==
    /\ pc[t] = "st_read"
    /\ LET hm == mapping[lo[t]] IN
       /\ sfault' = (sfault \/ hm = NULL)
       /\ IF hm \in {NULL, INVALID} \/ bmbi[t].state = "view"
          THEN seen' = [seen EXCEPT ![t] = hm] /\ Goto(t, "st_fill")
          ELSE Goto(t, "st_query") /\ UNCHANGED seen
    /\ UNCHANGED <<mapping, os, open, req, lo, hi, cur, hnd, bmbi, embi, rend, owned, fault>>

\* A mapped view: assert (mapping () != INVALID_HANDLE_VALUE) and that the
\* view starts at the block.  Otherwise: assert (mapping () ==
\* INVALID_HANDLE_VALUE) and that the region covers the block; the state is
\* mbi.Type.  mapping () reads the entry again.
st_fill(t) ==
    /\ pc[t] = "st_fill"
    /\ LET b == lo[t]
           m == bmbi[t]
       IN  sfault' = (sfault \/ ~IF m.state = "view"
                                 THEN mapping[b] # INVALID /\ os[b].base = b
                                 ELSE mapping[b] = INVALID /\ m.end >= b)
    /\ Done(t)
    /\ UNCHANGED <<mapping, os, open, req, lo, hi, cur, hnd, bmbi, embi, rend, owned, fault, seen>>

-----------------------------------------------------------------------------
(* AddressSpace::terminate () and initialize () of the own process, as the *)
(* tests' TearDown and SetUp run them between calls.  terminate's _DEBUG   *)
(* walk visits every entry of every committed directory page: an INVALID   *)
(* entry's block is VirtualFreeEx'd with MEM_RELEASE, which succeeds only  *)
(* at an allocation base and is not checked; a handle's view is unmapped   *)
(* and the handle closed.  Then the directory is unmapped and its mapping  *)
(* closed, so the next initialize () creates a new, zeroed one.  The walk  *)
(* is one step: no other thread is in a call.                              *)

\* Mutant: the release build, without the _DEBUG walk.
terminate_nowalk ==
    /\ live /\ \A t \in Threads : pc[t] = "idle"
    /\ mapping' = [b \in Blocks |-> NULL]
    /\ owned' = [t \in Threads |-> {}]
    /\ live' = FALSE
    /\ UNCHANGED <<os, open, pc, req, lo, hi, cur, hnd, bmbi, embi, rend, fault, seen, sfault>>

terminate ==
    /\ live /\ \A t \in Threads : pc[t] = "idle"
    /\ LET Walked(x) ==
              \/ os[x].k = "res" /\ mapping[os[x].base] = INVALID
              \/ os[x].k = "view" /\ os[x].base = x /\ mapping[x] \in Handles
       IN  os' = [x \in Blocks |-> IF Walked(x) THEN FreeB ELSE os[x]]
    /\ open' = open \ {mapping[b] : b \in Blocks}
    /\ mapping' = [b \in Blocks |-> NULL]
    /\ owned' = [t \in Threads |-> {}]
    /\ live' = FALSE
    /\ UNCHANGED <<pc, req, lo, hi, cur, hnd, bmbi, embi, rend, fault, seen, sfault>>

initialize ==
    /\ ~live
    /\ live' = TRUE
    /\ UNCHANGED <<mapping, os, open, pc, req, lo, hi, cur, hnd, bmbi, embi, rend, owned,
                   fault, seen, sfault>>

-----------------------------------------------------------------------------
(* Client calls.  A call on a range starts only when no other thread is    *)
(* in a call on an overlapping range; commits may overlap each other.      *)

ReservePcs  == {"res_alloc", "res_cas", "res_undo", "res_free"}
ReleasePcs  == {"rel_check", "rel_margins", "rel_split_begin", "rel_rereserve_begin",
                "rel_split_end", "rel_rereserve_end", "rel_xchg", "rel_query",
                "rel_clear", "rel_unmap"}
CommitPcs   == {"com_new", "com_cas", "com_query", "com_free", "com_pre",
                "com_post", "com_map"}
AllocatePcs == {"qa_new", "qa_map", "qa_cas", "qa_unmap"}
DecommitPcs == {"dec_xchg", "dec_unmap", "dec_reserve"}
StatePcs    == {"st_query", "st_read", "st_fill"}

Busy(u) == IF pc[u] \in ReleasePcs \cup CommitPcs \cup DecommitPcs \cup StatePcs
           THEN lo[u]..hi[u] ELSE {}
Untouched(t, r) == \A u \in Threads \ {t} : Busy(u) \cap r = {}

Begin(t, l, a, b) ==
    /\ pc[t] = "idle"
    /\ Goto(t, l)
    /\ lo' = [lo EXCEPT ![t] = a]
    /\ hi' = [hi EXCEPT ![t] = b]
    /\ bmbi' = [bmbi EXCEPT ![t] = NoMbi]
    /\ embi' = [embi EXCEPT ![t] = NoMbi]

\* allocate (dst, size, flags) off the quick path: with Memory::RESERVED
\* (no commit), or with a hint (EXACTLY) or more than one block.
CallReserve(t) ==
    /\ \E n \in 1..MaxSize, d \in {Nowhere} \cup Blocks, c \in BOOLEAN :
          /\ c => d # Nowhere \/ n > 1
          /\ req' = [req EXCEPT ![t] = [dst |-> d, size |-> n, commit |-> c]]
          /\ Begin(t, "res_alloc", Nowhere, Nowhere)
    /\ UNCHANGED <<mapping, os, open, cur, hnd, rend, owned, fault>>

CallRelease(t) ==
    /\ \E a, b \in owned[t] :
          /\ a <= b /\ a..b \subseteq owned[t] /\ Untouched(t, a..b)
          /\ Begin(t, "rel_check", a, b)
    /\ UNCHANGED <<mapping, os, open, req, cur, hnd, rend, owned, fault>>

Committable(t) == IF SharedCommit THEN UNION {owned[u] : u \in Threads} ELSE owned[t]

CallCommit(t) ==
    /\ \E b \in Committable(t) :
          /\ \A u \in Threads \ {t} : b \notin Busy(u) \/ pc[u] \in CommitPcs \cup StatePcs
          /\ Begin(t, "com_new", b, b)
          /\ req' = [req EXCEPT ![t].commit = FALSE]
    /\ UNCHANGED <<mapping, os, open, cur, hnd, rend, owned, fault>>

CallAllocate(t) ==
    /\ Begin(t, "qa_new", Nowhere, Nowhere)
    /\ UNCHANGED <<mapping, os, open, req, cur, hnd, rend, owned, fault>>

CallDecommit(t) ==
    /\ \E b \in owned[t] :
          /\ Untouched(t, {b})
          /\ Begin(t, "dec_xchg", b, b)
    /\ UNCHANGED <<mapping, os, open, req, cur, hnd, rend, owned, fault>>

\* Block (b) of an allocated block, then its state (): the block may be
\* another thread's, being committed, but not released or decommitted.
CallQuery(t) ==
    /\ t \in Readers
    /\ \E b \in UNION {owned[u] : u \in Threads} :
          /\ \A u \in Threads \ {t} : b \notin Busy(u) \/ pc[u] \in CommitPcs \cup StatePcs
          /\ Begin(t, "st_query", b, b)
    /\ UNCHANGED <<mapping, os, open, req, cur, hnd, rend, owned, fault>>

Call(t) ==
    /\ live
    /\ \/ /\ t \notin Readers
          /\ \/ CallReserve(t) \/ CallRelease(t) \/ CallCommit(t)
             \/ CallAllocate(t) \/ CallDecommit(t)
          /\ UNCHANGED stvars
       \/ CallQuery(t) /\ UNCHANGED stvars
    /\ UNCHANGED live

ProtocolStep(t) ==
    \/ reserve_alloc(t) \/ reserve_cas(t) \/ reserve_undo(t) \/ reserve_free(t)
    \/ release_check(t) \/ release_margins(t) \/ release_split_begin(t)
    \/ release_rereserve_begin(t) \/ release_split_end(t)
    \/ release_rereserve_end(t) \/ release_xchg(t) \/ release_query(t)
    \/ release_clear(t) \/ release_unmap(t)
    \/ commit_new(t) \/ map_cas(t) \/ map_query(t) \/ map_free(t)
    \/ map_rereserve_begin(t) \/ map_rereserve_end(t) \/ map_view(t)
    \/ allocate_new(t) \/ space_map_view(t) \/ space_map_cas(t) \/ space_map_unmap(t)
    \/ unmap_xchg(t) \/ unmap_view(t) \/ unmap_reserve(t)

Step(t) ==
    /\ \/ st_query(t) \/ st_read(t) \/ st_fill(t)
       \/ ProtocolStep(t) /\ UNCHANGED stvars
    /\ UNCHANGED live

Init ==
    /\ mapping = [b \in Blocks |-> NULL]
    /\ os = [b \in Blocks |-> FreeB]
    /\ open = {}
    /\ pc = [t \in Threads |-> "idle"]
    /\ req = [t \in Threads |-> [dst |-> Nowhere, size |-> 1, commit |-> FALSE]]
    /\ lo = [t \in Threads |-> Nowhere]
    /\ hi = [t \in Threads |-> Nowhere]
    /\ cur = [t \in Threads |-> Nowhere]
    /\ hnd = [t \in Threads |-> NULL]
    /\ bmbi = [t \in Threads |-> NoMbi]
    /\ embi = [t \in Threads |-> NoMbi]
    /\ rend = [t \in Threads |-> Nowhere]
    /\ owned = [t \in Threads |-> {}]
    /\ fault = FALSE
    /\ seen = [t \in Threads |-> NULL]
    /\ sfault = FALSE
    /\ live = TRUE

Next == \/ \E t \in Threads : Call(t) \/ Step(t)
        \/ terminate
        \/ initialize

\* Threads are preempted, never stopped, by the host scheduler, and every
\* retry loop yields (Sleep (0)) so that a call that keeps becoming
\* possible is eventually made: strong fairness of each thread's steps.
\* Clients are not obliged to call anything.
Spec == Init /\ [][Next]_vars /\ \A t \in Threads : SF_vars(Step(t))

-----------------------------------------------------------------------------
(* Properties                                                              *)

Mbis == [state : {"none", "res", "free", "view"}, base : {Nowhere} \cup Blocks,
         end : {Nowhere} \cup Blocks]

TypeOK ==
    /\ mapping \in [Blocks -> {NULL, INVALID} \cup Handles]
    /\ os \in [Blocks -> {FreeB} \cup {ResB(a) : a \in Blocks}
                          \cup {ViewB(a, h) : a \in Blocks, h \in Handles}]
    /\ open \subseteq Handles
    /\ pc \in [Threads -> {"idle"} \cup ReservePcs \cup ReleasePcs \cup CommitPcs
                          \cup AllocatePcs \cup DecommitPcs \cup StatePcs]
    /\ hnd \in [Threads -> {NULL} \cup Handles]
    /\ bmbi \in [Threads -> Mbis] /\ embi \in [Threads -> Mbis]
    /\ owned \in [Threads -> SUBSET Blocks]
    /\ fault \in BOOLEAN
    /\ seen \in [Threads -> {NULL, INVALID} \cup Handles] /\ sfault \in BOOLEAN
    /\ live \in BOOLEAN

\* Blocks some call in progress is changing: its range, and every
\* reservation it has queried in order to split it.
Allocation(m) == IF m.state = "res" THEN m.base..m.end ELSE {}
Footprint(t) ==
    CASE pc[t] \in {"res_cas", "res_undo", "res_free"} -> lo[t]..hi[t]
      [] pc[t] \in CommitPcs /\ req[t].commit ->
            AllocRange(t) \cup Allocation(bmbi[t]) \cup Allocation(embi[t])
      [] pc[t] \in ReleasePcs \cup CommitPcs \cup DecommitPcs ->
            (lo[t]..hi[t]) \cup Allocation(bmbi[t]) \cup Allocation(embi[t])
      [] pc[t] \in {"qa_cas", "qa_unmap"} -> {cur[t]}
      [] OTHER -> {}
InFlight == UNION {Footprint(t) : t \in Threads}

\* Directory consistency (spec 8.1, release completeness 8.5): a block no
\* call is working on is free in the directory exactly when the host has
\* it free and no client holds it; a reserved entry is a host reservation;
\* a handle entry is a view of that very handle at the block.  Broken by a
\* reserve that loses a CAS without undoing its claims, or a release or
\* commit split that frees or re-reserves the wrong part of a reservation.
DirectoryConsistent ==
    \A b \in Blocks \ InFlight :
        /\ mapping[b] = NULL <=> os[b] = FreeB
        /\ mapping[b] = NULL <=> b \notin UNION {owned[t] : t \in Threads}
        /\ mapping[b] = INVALID => os[b].k = "res"
        /\ mapping[b] \in Handles => os[b] = ViewB(b, mapping[b])

\* Block-level linearizability as the spec states it (sections 3 and 5):
\* a directory entry holding a handle always has a view of that handle
\* installed at the block, so no thread can observe the handle before the
\* view.  Block::map stores the handle by CAS and maps the view last.
ViewInstalled ==
    \A b \in Blocks : mapping[b] \in Handles => os[b] = ViewB(b, mapping[b])

\* Every verify () and assert () in reserve, release, Block::map and
\* Block::unmap holds: no host call the code assumes succeeds fails.
NoFault == ~fault

\* Handle ownership (spec 5): an open file-mapping handle is owned by
\* exactly one directory entry or one thread that has taken it out of the
\* directory or not yet put it in; a closed one by nobody.  Broken by a
\* path that drops a handle without CloseHandle or closes a live one.
Holding(t) == pc[t] \in {"com_cas", "qa_map", "qa_cas", "qa_unmap",
                         "rel_unmap", "dec_unmap"}
HandlesAccounted ==
    \A h \in Handles :
        Cardinality({b \in Blocks : mapping[b] = h})
          + Cardinality({t \in Threads : Holding(t) /\ hnd[t] = h})
        = IF h \in open THEN 1 ELSE 0

\* Every call returns once the other threads stop starting calls: no retry
\* loop spins forever and no thread waits on a reservation that nobody will
\* give back.  (A call can be starved while another thread keeps calling:
\* reserve () retries for as long as a commit or decommit elsewhere keeps
\* opening a window in which its range is free on the host but claimed in
\* the directory; the directory is lock-free, not wait-free.)
OthersQuiet(t) == <>[][\A u \in Threads \ {t} : ~Call(u)]_vars
Termination == \A t \in Threads : OthersQuiet(t) => (pc[t] # "idle" ~> pc[t] = "idle")

\* Block::state () never ends its loop on a half-done commit (spec 3, 5):
\* the entry it read and the host it queried tell the same story, a handle
\* with its view mapped or a reservation.  Block::map publishes the handle
\* (71) before it frees the reservation and maps the view (82, 108), so a
\* reader that stopped at the first read would take a block another
\* thread is committing for reserved with a handle behind it.
StateSound ==
    \A t \in Threads :
        pc[t] = "st_fill" =>
            IF bmbi[t].state = "view" THEN seen[t] \in Handles
            ELSE seen[t] = INVALID /\ bmbi[t].state = "res"

\* The assert ()s of Block::state () hold (34, 53): they read the entry
\* again after the loop.
StateAsserts == ~sfault

=============================================================================
