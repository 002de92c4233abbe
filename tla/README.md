# TLA+ models of the Nirvana Windows memory manager

This directory holds TLA+ models of the protection-domain virtual-memory
manager in `src/` (`AddressSpace.cpp`, `AddressSpace.h`, `MemoryWindows.h`).
It also holds the TLC configurations that check the models. `PROJECT.json`
lists the components, the runs, the mutants that show each checked property
can fail, the line-by-line map from definitions to source, the findings and
the hazards.

## 1. The system

| Part | Source | State it keeps | Operations |
|---|---|---|---|
| Host-VM shim | `AddressSpace.h` (query, protect, concurrency), `MemoryWindows.h` (new_mapping) | none of its own: the host's reservations, views, page protections and handles | reserve, release, query, protect, create mapping, map/unmap view, close/duplicate handle |
| Block directory | `AddressSpace.cpp` 426-591 | `BlockInfo::mapping` per block: null (free), `INVALID_HANDLE_VALUE` (reserved, not mapped) or a file-mapping handle; a lazily committed, two-level table | `block()` (committing lookup, leaf CAS), `allocated_block()` |
| Block | `AddressSpace.cpp` 9-424 | the entry above plus a cached page-state array (8 states encoded in page protections) | `map`, `unmap`, `copy`, `change_protection`, `decommit`, `check_committed`, `is_copy`, `state` |
| Address space | `AddressSpace.cpp` 593-850 | none beyond the directory | `reserve`, `release`, `map` (quick allocate), `copy` (one block), range `check_*`, `change_protection`, `decommit`, `is_*` |
| Memory facade | `MemoryWindows.h` | the single process-wide address space | `allocate`, `release`, `commit`, `decommit`, `copy`, `protect`, `query`, `is_*` |

How the parts interact. A facade call is cut into blocks by the address
space, and each block is changed through `Block` methods. Those methods
call the host shim. Threads share nothing but the directory and the host.
They are coordinated **without locks**: only CAS and exchange on
`BlockInfo::mapping`, plus `while (!host_call) Sleep (0);` retry loops for
host calls that fail while another thread is half-way through changing
an adjacent reservation.

The hard behaviours are:
- reservation splitting;
- the windows in which a block is free on the host but claimed in the directory;
- lost CAS races and their roll-back;
- handle ownership;
- the copy-on-write page-state machine.

Correctness, per part:
- **Directory.** Entry and host agree; every open handle is owned by exactly one entry or thread; no `verify`/`assert` fails; every call returns (spec 3, 5, 7, 8.1, 8.5).
- **Block.** The page-state encoding is sound, and copies are isolated (spec 8.2, 8.3).
- **Facade.** Overlapping copies preserve data, and moves move (spec 8.6).

## 2. Plan

1. `AddressSpace` (done): the directory, the host, and the concurrent
   operations that change them. These are `reserve`, `release`,
   `Block::map` as commit, quick allocate (`AddressSpace::map`), and
   whole-block decommit (`Block::unmap`). The facade calls drive them.
2. `Block` and `Memory` (done): the page-state machine of blocks that
   share sections, driven by the facade calls on one block each: commit,
   write, decommit, protect, quick copy and copy into an allocated block.
   `Memory` is the abstract facade, and `Block` is checked to refine it.
3. `Directory` (done): the 64-bit two-level directory, the leaf CAS in
   `block()` and the non-committing lookup `allocated_block()`.
4. `CopyWalk` (done): `MemoryWindows::copy` over overlapping
   multi-block ranges. This includes `Region::subtract`, the directional
   block walk and the physical copy, checked against `memmove`. A
   refinement of `Memory` by the walk is still open.
5. Page-level calls (`change_protection`, `decommit`) under the
   concurrent threads of `AddressSpace`.

## 3. `AddressSpace.tla`: the directory under concurrent threads

**State.**
- `mapping[b]` is `BlockInfo::mapping`. `NULL` and `INVALID` are model
  values, and handles are model values from `Handles`.
- `os[b]` is what `VirtualQueryEx` would report: free, reserved in the
  allocation based at `base`, or a view of handle `h`.
- `open` is the set of open file-mapping handles.
- Per thread, there is a program counter `pc` plus the locals the code
  keeps across host calls: the request, the range `lo..hi`, the loop
  cursor `cur`, a handle held in a local, the queried `begin_mbi`/`end_mbi`,
  and `region_end`.
- `owned` is what each client thread has reserved. It is the client's
  view, used to pick legal calls.
- `fault` records a failed `verify` or `assert`.
- `seen[t]` is the entry value `Block::state ()`'s loop ended with.
  `sfault` records a failed `assert` of `Block::state ()`.
- `live` is TRUE between `initialize ()` and `terminate ()`.

One block stands for one allocation granule. Pages inside a block are
outside this module.

**Actions.** Each action is one atomic step of the code: one interlocked
operation or one host call. A retry loop is one action, enabled when the
host call would succeed, because its failing iterations change nothing.
The actions are named after the code:
- `reserve_alloc`, `reserve_cas`, `reserve_undo` and `reserve_free` are
  the four parts of `reserve`'s `for (;;)`.
- `release_check` through `release_unmap` are `release`.
- `map_cas` through `map_view` are `Block::map (h, MAP_PRIVATE, true)`.
- `space_map_view`, `space_map_cas` and `space_map_unmap` are
  `AddressSpace::map`.
- `unmap_xchg`, `unmap_view` and `unmap_reserve` are `Block::unmap`.
- `st_query`, `st_read` and `st_fill` are `Block::state ()`. The first
  two are the query and the entry read of its retry loop. They are two
  steps, because another thread may act between them. `st_fill` is the
  code after the loop: its asserts re-read the entry, and the state is
  `MAPPED` or `mbi.Type`.
- `terminate` and `initialize` are the tests' `TearDown` and `SetUp`,
  which run between calls.
  - `terminate` is its `_DEBUG` walk over the directory, done as one
    step. For every `INVALID` entry it calls `VirtualFreeEx (MEM_RELEASE)`,
    which frees only at an allocation base and is not checked. For every
    handle it unmaps the view and closes the handle. The directory then
    goes away, and every entry with it.
  - `initialize` creates a new, zeroed directory.

  `DirectoryConsistent` and `HandlesAccounted` in the state after
  `terminate` say that the walk left nothing reserved, mapped or open.
  That holds only if every reservation is based at a block whose entry
  is `INVALID`, after any sequence of splits. Without the walk, as in
  the release build, `DirectoryConsistent` fails.

Each action's guard and branches follow the code's conditions, early
returns and throws. `Check(c)` records a `verify`/`assert` that fails.

**Client calls** (`Call(t)`) are the facade entry points. Each thread
makes one call at a time.
- Clients obey spec 5: no concurrent mutation of overlapping ranges.
  `Busy` and `Untouched` express this.
- `release` and `decommit` touch only blocks the caller reserved.
- `commit` may be made by any thread when `SharedCommit` is TRUE, and
  two commits may overlap. That is the race `Block::map`'s CAS is
  written for.
- Threads in `Readers` only construct a `Block` on another thread's
  allocated block and call `state ()`, as `check_committed` and the
  `is_*` queries do. Spec 5 lets readers observe partial progress, so
  a read may overlap a commit. It may not overlap a release or a
  decommit of its block, since that frees memory the reader is using.
- `commit` of a reserved block follows `MemoryWindows.cpp`
  (`commit_no_check`), which is not in `src/`. It creates a mapping with
  `new_mapping ()` and calls `Block::map (..., true)` when the entry is
  `INVALID`.
- `allocate` has two entry calls.
  - The quick path is `CallAllocate`.
  - Every other request is `CallReserve`, which chooses whether the
    request has `Memory::RESERVED`. Without it, `reserve` goes on into
    `commit_no_check`, which runs the commit steps block by block
    (`CommitNext`).
  - A commit that throws, such as NO_MEMORY from `new_mapping`, makes
    `allocate` release the whole range (`CommitFailed`). That includes
    the blocks it has already committed.
  - The blocks reach the caller, in `owned`, only when `allocate`
    returns. Until then no other thread can name them.

**Properties.**
- `TypeOK`.
- `DirectoryConsistent`: for every block no call is working on, the
  entry agrees with the host and with what clients hold.
- `NoFault`: no `verify` or `assert` fails.
- `HandlesAccounted`: every open handle is owned by exactly one entry or
  by one thread between taking it out and putting it in.
- `Termination`: a call returns once the other threads stop starting
  calls.
- `ViewInstalled`: the spec's "a non-null mapping has its view
  installed".
- `StateSound`: `Block::state ()` ends its loop only on a consistent
  pair. Either the host shows the view and the entry holds a handle, or
  the block is reserved and the entry is `INVALID`. It never concludes
  from a handle whose view is not mapped yet.
- `StateAsserts`: no assert of `Block::state ()` fails. Only the
  violation run checks it.

**Fairness.** Each thread's steps are strongly fair (`SF_vars(Step(t))`).
The host scheduler preempts threads but never stops them, and every
retry loop yields with `Sleep (0)`. So a host call that becomes possible
infinitely often is eventually made. Clients are under no obligation to
call anything.

`Termination` is stated for a thread whose fellow threads eventually stop
starting calls. The directory is lock-free, not wait-free. A `reserve`
at a fixed address can lose its CAS forever to a thread that keeps
committing and decommitting that block, because each commit frees the
block on the host for a moment. TLC shows this starvation when the
assumption is dropped.

### Runs

| Run | Bounds | What it shows |
|---|---|---|
| `AS_sequential` | 1 thread, 3 blocks, reservations up to 3 blocks, 2 handles | Every begin/end split of release and commit leaves the directory, the host and the handles consistent. So does an `allocate` that fails part-way and releases what it committed. Every call returns. A `terminate` after any of these sequences leaves nothing behind. It passes. |
| `AS_concurrent` | 2 threads, 2 blocks, one-block reservations, 2 handles, shared commits, symmetry | The CAS races of reserve, quick allocate and commit, lost races, both threads retrying, and NO_MEMORY with all handles open. It passes. |
| `AS_liveness` | 2 threads calling and 1 reading, 1 block, one-block reservations, 1 handle, no symmetry | Every retry loop, `Block::state ()`'s included, ends once the other threads stop calling, and `state ()` never ends its loop on a half-done commit (`StateSound`): 24,623 distinct states, about 25 s. It passes. |
| `AS_split_race` | 2 threads calling and 1 reading, 2 blocks, two-block reservations, shared commits | **Violation** of `NoFault`. See finding 2. The same configuration shows more when checked for other properties: `DirectoryConsistent` shows finding 1, `ViewInstalled` shows finding 3 in seven steps of one thread, `StateAsserts` shows finding 14, and `StateSound` shows finding 15. |

**Why the bounds are enough.**
- Three blocks with three-block reservations give every split shape: a
  prefix, a suffix, a middle block with both sides re-reserved, and a
  whole reservation.
- Two threads on two blocks give every pairwise race on one block plus a
  neighbour for the host to place an allocation on.
- Two handles let both threads hold a fresh handle at once. With both
  open, `new_mapping` reports NO_MEMORY. In `AS_sequential` a
  three-block `allocate` fails on its third block and releases the two
  blocks it has already committed.
- One-block reservations in the passing concurrent runs keep the two
  races below out. They need reservations of two blocks.
- The reader shares `AS_liveness` with two callers on one block. With
  two blocks that run takes more than ten minutes. One block still has
  every race the retry loops answer: a `reserve` at its address against
  the other caller's commit, decommit and release, the quick allocate's
  CAS, and the reader's query against the commit's CAS and view. The
  second block matters for `Block::map`'s free-and-remap path, which
  `AS_sequential` checks for `Termination`.

**Checking technique.**
- `MC_AddressSpace.tla` supplies model values and a `VIEW` that hides
  the locals of idle threads. Every call rewrites each local before
  reading it, so the view is a bisimulation and is sound for liveness
  too.
- Symmetry over threads and handles is used only in safety runs.

### Findings

1. **release frees a concurrent reservation.** See `AS_split_race`
   checked for `DirectoryConsistent`, and `AddressSpace.cpp:695`. The trace runs in this order:
   1. Thread A releases one block of a two-block reservation. The end
      split releases the reservation and re-reserves the other block, so
      the released block is free on the host while its entry is still
      `INVALID`.
   2. Thread B's `reserve` gets that block from the host.
   3. A exchanges the entry to null.
   4. B's CAS on the entry succeeds.
   5. A's query now reports B's reservation, and A frees it.

   B then owns a block with nothing reserved behind it.
2. **Block::map's split breaks disjoint neighbours.** See `AS_split_race`
   and `AddressSpace.cpp:82`. Committing one block releases the whole
   reservation before re-reserving the rest. Meanwhile, a release of
   another block of that reservation asserts `MEM_RESERVE` and finds
   the block free. A commit of another block `VirtualFreeEx`es a base
   that is already gone. Spec 5 allows both calls, since they are on
   disjoint ranges.
3. **A handle is visible before its view.** See `AS_split_race` checked
   for `ViewInstalled`, and `AddressSpace.cpp:71`. The CAS publishes the handle, and
   `MapViewOfFile2` runs at the end of `Block::map`. Spec 3 and 5 say
   an observer always finds the view installed. `Block::state` retries
   its query to cope with this window. `AS_liveness` shows that the retry
   works (`StateSound`) and ends (`Termination`).
14. **`Block::state`'s assert re-reads the entry.** See `AS_split_race`
    checked for `StateAsserts`, and `AddressSpace.cpp:53`. The steps
    are:
    1. The reader queries a reserved block and reads `INVALID`, so its
       loop ends.
    2. The owner's commit CASes its handle into the entry.
    3. `assert (mapping () == INVALID_HANDLE_VALUE)` reads the entry
       again and fails.

    The loop tolerates this commit, but the assert does not.
15. **A reader sees a split reservation's block as free.** See
    `AS_split_race` checked for `StateSound`, and `AddressSpace.cpp:58`.
    This is finding 2's window seen by a reader. While another block's
    split has the whole reservation released, `state ()` queries
    `MEM_FREE`, reads `INVALID` and records `MEM_FREE` as the state.

## 4. `Block.tla` and `Memory.tla`: pages, sharing and copies

**`Memory.tla`** is what a client may rely on, page by page: each page of
each block is inaccessible or holds `[acc, val]`. Its actions are the
facade calls, with the rounding spec 4.3 gives:
- commit, read-write protect and copy act on every page a range touches;
- decommit and read-only protect act on the pages the range covers whole.

A copy (d and s differ) makes the touched pages of d read what s reads,
leaves every other page of d alone, and then decommits the source range
or releases the source block. A failed call changes nothing. `call` records
the call each step makes.

**`Block.tla`** models the host page by page:
- a section (named by a handle value) holds data per page, or `NoData`
  while the page is uncommitted, or `Garbage` after `MEM_RESET`;
- a view at block b shows each page with a protection `prot[b][i]`;
- a write to a write-copy page gives the view a private copy
  (`priv`, `pdat`), whose protection then reads `PAGE_EXECUTE_READWRITE`.

The code's page states are the protections themselves
(`AddressSpace.h` 60-90), so `prot` is both the host state and
`Block::state ()`.

Each facade call is one step: the whole handler, as a composition of
state transformers named after the `Block` methods it calls, in the
code's order:
- `BlockMap`, `BlockUnmap`, `BlockDecommit`, `ChangeProtection`,
  `CopyBody` (`Block::copy (remap, move, ...)`, with its target vector
  `DstStates` and protection walk `Walked`), `Remap` and `CopyInternal`
  (`Block::copy (src, ...)`), `HasDataOutsideOf`, `CanMove`,
  `CheckCommitted`, `IsCopy`;
- the range queries over global addresses (block b holds
  `(b-1)*G .. b*G-1`): `QueryWalk`, the loop shared by `is_private`,
  `is_readable` and `is_writable` (`AddressSpace.h` 295-329), steps from
  `begin` to `RegionEnd`, VirtualQuery's `BaseAddress + RegionSize` (the
  first page after begin's with another protection, or the end of the
  block's allocation); `IsCopyRange` is `AddressSpace::is_copy`
  (`AddressSpace.cpp` 829-850): the offset check, then `IsCopy` block by
  block in lockstep, false when a block has no directory entry;
- the calls: `ReserveBlock`, `ReleaseBlock`, `Commit`, `Write`,
  `Decommit`, `ProtectCall` (`MemoryWindows::copy (p, p, ...)`),
  `QuickCopy` (`copy (0, src, ...)` through `AddressSpace::copy`) and
  `CopyInto` (the share path into an allocated block).

Two parts of the chain are in `MemoryWindows.cpp`, which is not among the
sources. `commit_no_check`, and the methods `prepare_to_share` calls
(`need_remap_to_share`, `remap`, `prepare_to_share_no_remap`), are
modelled from the spec and the page-state table of `AddressSpace.h`
(36-47); `PROJECT.json` marks them `spec_modelled`.
`prepare_to_share_no_remap` (`PrepareNoRemap`) turns `RW_MAPPED_PRIVATE`
into `RW_MAPPED_SHARED` and leaves every other state unchanged,
`RO_MAPPED_PRIVATE` included. `remap` (`RemapBlock`, `Unshare`) gives the
block a new section and makes its `*_MAPPED_SHARED` and `*_UNMAPPED`
pages `*_MAPPED_PRIVATE`.

Two pieces of undefined behaviour are nondeterministic inputs:
- `garbage`: the uninitialised mask of `AddressSpace::check_committed`
  (`AddressSpace.cpp:780`), chosen only where it decides the outcome;
- `junk`: the page state read past the array by `change_protection`.

**Properties** (all in `Block.tla`):
- `ImplementsMemory`: `Block` refines `Memory` under
  `mem <- VisibleMem`, what the client reads at every page. It is
  `Abs!Spec` with the call of each step put for the bound call of
  `Abs!Next`.
- `IsCopySound`: when `AddressSpace::is_copy` says two ranges are copies,
  every address of the one reads what the address at the same distance
  in the other reads (spec 8.3), for every pair of byte ranges, including
  ranges that cross blocks.
- `QueriesAnswer`: `is_readable` and `is_writable` answer, for every byte
  range, exactly whether every address is loadable / storable by the
  client; and in a range `is_private` calls private, no store lands
  where another block reads (spec 8.2). It is checked by its own run,
  `BL_queries`, since evaluating 36 ranges in every state of `BL_pages`
  would cost more than the rest of that run. The mutant `QueryWalk_pastend`
  (loop while `begin <= end`) answers for the page after the range.
  A read-only copy's pages are `RO_MAPPED_SHARED` (`PAGE_EXECUTE`), which
  `is_private` counts as private though the section is still shared;
  no store can reach them, so the property holds, and neither the spec
  nor the tests say what `is_private` answers there.
- `WriteThroughExclusive`: a page a block writes straight into the
  section is read by no other block through that section (the encoding
  that keeps copies isolated, spec 8.2).
- `HandlesAccounted`: every open handle is the mapping of exactly one
  block, and no block maps a closed handle.
- `NoFault`: no `verify` of a protect or reset fails.

### Runs

| Run | Bounds | What it shows |
|---|---|---|
| `BL_pages` | 2 blocks x 2 pages x 2 bytes, 2 handles, values {0, 1}, whole-page requests, commits of whole pages | Every sequence of calls keeps `TypeOK`, `NoFault`, `HandlesAccounted`, `IsCopySound`, `WriteThroughExclusive` and `ImplementsMemory` for clients that avoid the faults below: 58,404 distinct states, 2.1 million transitions, about 2 min. It passes. |
| `BL_queries` | as `BL_pages`, with commits of any byte range; the `VIEW QueryView` | `QueriesAnswer` holds in every state, for all 36 byte ranges: 15,112 distinct states, under a minute. It passes. |
| `BL_stale_copy` | all byte ranges, copies onto a block sharing the source, decommits over uncommitted pages, DECOMMIT copies with data outside, shares of read-only pages | **Violation** of `IsCopySound`. See finding 4. The same configuration checked for `HandlesAccounted` shows finding 7, for `NoFault` finding 8, for `ImplementsMemory` finding 6 in four steps, and for `WriteThroughExclusive` finding 9. |
| `BL_share_readonly` | as `BL_pages`, with quick and share copies of read-only pages never shared | **Violation** of `WriteThroughExclusive`. See finding 16. The same configuration checked for `ImplementsMemory` shows its `MEM_RESET` form. |

The client constants `CopyOntoShared`, `PartialMoves`,
`DecommitUncommitted` and `ShareReadOnly`, and the choice of `Requests`,
keep the pass runs clear of these faults. `ShareReadOnly` FALSE leaves
out a copy without teardown whose source range, after `prepare_to_share`,
holds a `RO_MAPPED_PRIVATE` page. The violation run `BL_stale_copy` turns
them all back on, with byte-granular requests; `BL_share_readonly` turns
on only `ShareReadOnly`, since in `BL_stale_copy` shorter traces of
findings 6 and 9 hide finding 16. Each finding is the shortest
counterexample of its property in its run: three to five calls.

`RejectedCalls` is FALSE only in `BL_pages`. It leaves out the protects
and copies that the facade rejects before it changes anything:
`check_committed` throws, the destination of a copy is not allocated,
or `prepare_to_share` fails. Such a call is a step to the same state
with only `call` changed. Every invariant and `ImplementsMemory` (a
`Fail` step) hold on it whatever the code does. Leaving them out cuts a
third of the run's transitions. `BL_queries` and `BL_stale_copy` keep
them.

**Why the bounds are enough.**
- Two pages per block give a page inside and a page outside every range,
  and two bytes per page give ranges that cover a page only in part.
- Two blocks give a source and a destination. Two handles give a
  duplicate shared by two blocks, or two independent sections. When both
  are open, `DuplicateHandle` and `new_mapping` fail, so the NO_MEMORY
  paths are reached too.
- Two values tell a write apart from the zero of a fresh page. Only
  non-zero values are written, since a page's value is all any property
  compares.

**Checking technique.**
- `MC_Block.tla` uses a `VIEW` that forgets `call` and the contents of
  section pages no block can read (`Live`). No call makes such a page
  readable again: protection changes touch only accessible pages, a copy
  needs the source range accessible, and a new view is protected by the
  call that maps it. So states with the same view have the same
  futures.
- `BL_queries` uses `QueryView`, which also forgets page contents except
  whether a section page is committed. Contents steer no call except
  through that test: `BlockMap` protects a page by whether it holds
  data, and every other use of a value copies it. The queries read only
  protections and handles, so the view is sound for `QueriesAnswer`.
  With byte-granular `Requests` as well, the run fails on the
  `change_protection` overrun of finding 6: the next block's decommitted
  page, which still views the section, turns `RO_MAPPED_PRIVATE`, and
  `is_private` then calls private a page that another block's stores
  reach. That is why the run keeps whole-page requests.
- Symmetry is over handle values.

### Findings (continued)

4. **Copy onto a sharing block keeps stale private pages.** See
   `BL_stale_copy` and `AddressSpace.cpp:175`. When the destination
   already maps the source's section, `remap` is false. The destination's
   write-copied pages are only re-protected, so a `READ_ONLY` copy
   leaves stale private data that `is_copy` vouches for.
5. **The same path decommits the destination outside the range.** See
   `AddressSpace.cpp:185`. The configuration of `BL_stale_copy`, checked
   for `ImplementsMemory` instead, shows it. On the remap path such data
   makes the copy throw `INTERNAL` instead.
6. **A read-only protect of less than a page protects the page.** See
   `BL_stale_copy` checked for `ImplementsMemory`, and
   `AddressSpace.cpp:303`. The range is rounded
   inward, but the do-while looks at one page anyway. At the block's end
   it reads past `page_state` and may protect the next block's first page.
7. **A move onto a sharing block leaks the source handle.** See
   `BL_stale_copy` checked for `HandlesAccounted`, and `AddressSpace.cpp:232`. With `remap` false and
   `move` true, `no_duplicate_handle` makes `src.unmap` keep a handle
   that nobody owns.
8. **Decommit over a never-committed page fails its verify.** See
   `BL_stale_copy` checked for `NoFault`, and `AddressSpace.cpp:376`.
   `protect` over the range fails on the uncommitted page.
9. **A partial DECOMMIT copy shares a write-through page.** See
   `BL_stale_copy` checked for `WriteThroughExclusive`, and
   `MemoryWindows.h:181`. `prepare_to_share` skips
   `prepare_to_share_no_remap` for DECOMMIT. The copy is not a move, and
   decommit rounds to nothing, so later writes to the source show in the
   copy.
10. **A DECOMMIT copy with data outside discards the shared pages.** See
    `CW_phys_release` checked for `ShareCopied`, and
    `AddressSpace.cpp:235`. It has the same root as finding 9: the copy is
    not a move, so `Block::copy` ends in `src.decommit`, which `MEM_RESET`s
    the pages it still believes private (382-389) in the section the
    destination now maps. Section 4b gives the trace.
16. **A read-only page is shared while marked never shared.** See
    `BL_share_readonly`, and `AddressSpace.h:40`. The table says prepare
    to share leaves `RO_MAPPED_PRIVATE` unchanged, so a quick copy maps
    the page's section into the copy while the source keeps the page
    "never shared". The trace commits a block, protects a page
    `READ_ONLY`, copies it, and protects it `READ_WRITE` again:
    `change_protection` makes it `RW_MAPPED_PRIVATE`, which writes
    through into the copy. Checked for `ImplementsMemory` the same
    configuration instead decommits the source page: `Block::decommit`
    `MEM_RESET`s it as private and the copy loses its contents.

## 4a. `Directory.tla`: the two-level directory

In 64-bit builds (`AddressSpace.cpp` 533-591) `m_directory` is a
reserved array of leaf pointers. A leaf is a view of one allocation
granularity of the directory section, which is created `SEC_RESERVE`,
so both the pointer pages and the entry pages of a leaf are committed
lazily. `block()` commits as it looks up; `allocated_block()` must not.

**State.** `pcommit` holds the committed pages of leaf pointers, and
`leaf[i0]` is the pointer `m_directory[i0]`. `vmap[v]` is the leaf that
view address `v` shows, or `NULL`. `ecommit[i0][pg]` says whether entry
page `pg` of leaf `i0` is committed. `entry[a]` is `BlockInfo::mapping`,
reduced to null or non-null. Each thread has `pc`, `op`, `addr`, `p`
(its local view pointer) and `res` (its last lookup's answer). `owned`
holds the blocks each client has reserved. `fault` records an access
to memory that is uncommitted or unmapped. A block is addressed by its
leaf and the entry page that holds it; entries on one page are not told
apart.

**Actions.** There is one action per host call or interlocked step:
- `blk_commit` (541-544), `blk_map` (545-550, with its NO_MEMORY
  branch when no address is free), `blk_cas` (551-552), `blk_unmap`
  (553-556) and `blk_entry` (557-563) for `block()`;
- `rsv_cas` is `reserve`'s entry CAS (614);
- `ab_query` (568-578) and `ab_read` (579-590) for `allocated_block()`;
- `rel_xchg` is `release`'s exchange (687).

`Call` starts `reserve`, `release` or a `check_allocated` lookup on a
small set of addresses. The host gives each reservation an address no
one else holds, so `rsv_cas` always wins here; its losing branch is
modelled in `AddressSpace.tla`.

**Properties.**
- `NoFault`: no step touches an uncommitted entry page or reads through
  an unmapped view.
- `ViewsAccounted`: every mapped view is either an installed leaf, or
  held by a `block()` between its map and the CAS that decides it.
  So the CAS loser unmaps its own view and never the winner's.
- `Found`: a lookup of a block its caller holds finds it (spec 8.1).

Nothing in `block()` or `allocated_block()` waits or retries, so every
call returns by the shape of the code; no liveness property is stated.

| Run | Bounds | What it shows |
|---|---|---|
| `DIR_leaves` | 2 threads, 2 leaves on one pointer page, 2 entry pages per leaf, 2 view addresses; lookups of blocks that were reserved at some time | Both threads race to install one leaf; the loser unmaps; NO_MEMORY comes when both addresses are taken. All four properties hold: 488,315 distinct states, about 1 min 50 s. It passes. |
| `DIR_wild` | as `DIR_leaves`, lookups of any address | **Violation** of `NoFault`. See finding 11. |

**Why the bounds are enough.** Two threads on the two pages of one leaf
race for its installation. Two leaves with only two view addresses make
`MapViewOfFile` fail while a loser still holds its speculative view.
Two entry pages per leaf give a committed page next to an uncommitted
one in the same leaf.

**Checking technique.** `MC_Directory.tla` has a `VIEW` that drops the
dead locals of idle threads. It keeps only whether the last lookup
satisfied `Found`. Every call writes a local before reading it, so the
view is sound. No symmetry is used.

### Findings (continued)

11. **allocated_block reads an uncommitted entry.** See `DIR_wild` and
    `AddressSpace.cpp:587`. The 64-bit path queries only the page that
    holds the leaf pointer (576). Once a leaf exists, a
    `check_allocated` of an address whose entry page was never
    committed reads `p->mapping` on reserved memory. That is an access
    violation, where spec 4.2 says the lookup returns None. The 32-bit
    path queries the entry's own page (583).

## 4b. `CopyWalk.tla`: the multi-block copy

`MemoryWindows::copy` (`MemoryWindows.h` 366-443) once the destination
`ret` is known. Memory is bytes, one byte per page; `mem[a]` is the byte
the address held at the start (its tag), `NoAccess`, or `Garbage` once
`MEM_RESET` has discarded it. `shared` holds the pages whose state is in
`MASK_MAY_BE_SHARED`; every other accessible page is `RW_MAPPED_PRIVATE`,
as `commit_no_check` leaves it. A block maps a
section (`sec`), is `RESERVED` or is `FREE`. Pointer and `SIZE_T`
arithmetic is modulo `2^WordBits`.

**State and actions.**
- `Init`: one call per initial state. Destination and source lie in the
  `NB` blocks, overlap or use disjoint blocks, `td` is no flag or
  `RELEASE`. Destination blocks may be reserved (the ALLOCATE path) and
  hold nothing outside the ranges; source-only blocks may hold other data
  (`kept`).
- `Start` (366-372, 396-399) picks the share walk when the offsets in the
  block agree, low-to-high when `ret < src`, else the physical copy.
- `LoFirst`/`LoRest` (377-395) and `HiFirst`/`HiRest` (404-422) are one
  `block.copy` each. `BlockCopy` is `AddressSpace::Block::copy`
  (`AddressSpace.cpp` 156-261) at byte level: `BAD_PARAM` for a freed
  block, `INTERNAL` when the destination maps another section and holds
  data outside the range, move or share by `can_move`, the destination
  outside the range decommitted, the source torn down by the flags.
  Before it, `prepare_to_share` (`MemoryWindows.h` 177-183) marks the
  source range shared unless the flags hold `DECOMMIT`. A `DECOMMIT` step
  that is not a move ends in `src.decommit` (235), which `MEM_RESET`s
  the range's pages still `RW_MAPPED_PRIVATE` (382-389): every block
  viewing that section, the new destination included, reads `Garbage`.
- `Phys` (424-443): commit the destination, move the bytes, and with
  `RELEASE` release `Subtract` (`Region::subtract`, 148-163) of the
  source through `ReleaseCall` (`AddressSpace::release`, 630-711).

**Properties.**
- `ShareCopied` and `PhysCopied`: a copy that returns holds the source's
  original bytes at the destination (spec 6), on the share walk and on
  the physical path. Both fail (findings 10 and 12), so only the
  violation run states them.
- `NoError`: the walk never meets a source block it tore down and never
  remaps a destination block that still holds data; the `DECOMMIT` first
  part is what empties each such block in time.
- `OutsideKept`: bytes outside the destination's blocks keep their
  contents, except the source's blocks under `RELEASE`.

| Run | Bounds | What it shows |
|---|---|---|
| `CW_walk` | 4 blocks of 4 bytes, sizes up to 12, 5-bit words, no physical `RELEASE` | `NoError` and `OutsideKept` hold for every such call: 62,864 distinct states, about 45 s. It passes. |
| `CW_phys_release` | 3 blocks of 4 bytes, sizes up to 8, physical `RELEASE` | **Violation** of `PhysCopied`. See finding 12. The same configuration checked for `NoError` shows finding 13, and checked for `ShareCopied` finding 10. |

**Why the bounds are enough.** Sizes up to three blocks give first parts
of one and two blocks in both directions, an unaligned first step, and
a clipped last step. Four blocks leave room for a source-only block with
data outside the range. A 5-bit word is wide enough for every address
and small enough that an underflowed size is visibly out of the
directory.

### Findings (continued)

12. **A physical RELEASE copy frees a destination block.** See
    `CW_phys_release` and `MemoryWindows.h:438`. Only the destination's
    whole blocks are subtracted from the source, and `release` rounds
    the rest outward. `copy (b, b + 1, 2, RELEASE)` subtracts nothing,
    releases the block of `b` and returns `b` with its block freed.
13. **Region::subtract underflows.** See `CW_phys_release` checked for
    `NoError`, and `MemoryWindows.h:155`. Two `if`s where an `else if`
    is meant set `size` to 0 and then subtract again;
    `copy (b + 1, b, 8, RELEASE)` with blocks of 4 then throws
    `BAD_PARAM` from `release` after the bytes have moved.

Finding 10 in this configuration: `copy (b + 4, b, 5, 0)` walks high to
low. Its first part copies the one page at `b + 4` into the block of
`b + 8` with `DECOMMIT`. The source block still holds `b + 5 .. b + 7`,
so this is no move, and `src.decommit` `MEM_RESET`s the page that the
destination now maps. The copy returns with `b + 8` reset.

## 5. Not modelled

- The block loops of `AddressSpace::check_committed`,
  `change_protection` and `decommit` with more than one block
  (`is_copy`'s loop is modelled). Each loop runs the one-block call for every block. It runs
  after a check of the whole range (`check_allocated`, or
  `check_committed` in the facade), so it is the one-block calls in
  sequence, and `Block.tla` makes those calls one after another.

- The 32-bit one-level directory path, and `block()`'s commit of the
  leaf-pointer page failing: `Directory` takes the 64-bit path, and
  assumes commits inside the reserved directory succeed.
- Page-level calls under concurrency (plan step 5): `Block.tla` makes
  one call per step.
- In `CopyWalk`: the copy's preamble up to line 366 (flag checks, the
  quick one-block path, the ALLOCATE reservation through
  `allocated.subtract`, the in-place protection change) is reduced to
  the calls that reach line 366; the stack checks are taken as false;
  `READ_ONLY` is left out, since it changes protections and not which
  bytes land where. `MemoryWindows::Block::copy`, the facade wrapper the
  walk calls, is in `MemoryWindows.cpp`, which is not among the sources:
  it is taken as a direct call of `AddressSpace::Block::copy`, and
  source and destination ranges that share a block without overlapping
  are left out, since that wrapper decides how they are copied.
- `MemoryWindows::query`, a table of constants. The `is_*` queries are
  modelled in `Block` as pure walks over one state; run concurrently
  with other calls their answer can be stale when returned, which is the
  API's contract and not checked. `Block::state ()` is modelled in
  `AddressSpace` under concurrency. The page-by-page queries of a
  mapped block are one step there, since `StateSound` is about the
  block's kind and not its page protections.
- Foreign-process address spaces, the release build's `terminate`
  (no walk: it leaves everything to process exit), the failure paths of
  `initialize`, and the process-shared directory mapping. A second
  process holding the named mapping open would make `initialize` reuse
  a directory that is not zeroed. The model covers one process.
- The test program, the thread worker, the fatal-error path and the
  PE-metadata parser (`src/Test`, `src/Source`, `src/pe`). These are
  outside the memory manager.
