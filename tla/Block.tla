------------------------------- MODULE Block --------------------------------
(***************************************************************************)
(* The pages of a block and the copy-on-write sharing of blocks, as        *)
(* AddressSpace::Block (AddressSpace.cpp 9-424) and the facade calls of    *)
(* MemoryWindows.h drive them, one client call per step.                   *)
(*                                                                         *)
(* The host is modelled page by page: a file-mapping section holds data    *)
(* per page (or NoData while the page is not committed); a view of a       *)
(* section at a block shows each page with a protection; a write to a      *)
(* write-copy page gives the view a private copy of that page.  The code's *)
(* page-state encoding (AddressSpace.h 60-90) is the protection itself.    *)
(* Each handler is one state transformer over the record Cur, composed of  *)
(* the Block methods it calls in the order the code calls them.            *)
(***************************************************************************)
EXTENDS Naturals, FiniteSets

CONSTANTS NBlocks,        \* blocks at consecutive addresses 1..NBlocks
          PagesPerBlock,
          PageSize,
          Handles,        \* handle values; a section is named by a handle value
          Vals, Zero,     \* page contents; Zero is what a new page holds
          NULL, INVALID,  \* BlockInfo::mapping of a free / a reserved block
          NoData,         \* a section page that is not committed
          Garbage,        \* a section page after MEM_RESET
          NoAccess,       \* what a client sees at an inaccessible page
          Requests,       \* the byte ranges [off, size] clients pass
          CommitRequests, \* the byte ranges clients commit
          CopyOntoShared, \* clients copy onto a block that maps the source's section
          PartialMoves,   \* clients copy with DECOMMIT a range the source has data outside of
          DecommitUncommitted, \* clients decommit a range holding a page never committed
          ShareReadOnly,  \* clients share a range holding a read-only page never shared
          RejectedCalls   \* clients make calls the facade rejects before changing anything

Blocks == 1..NBlocks
Pg == 0..(PagesPerBlock - 1)
G == PagesPerBlock * PageSize          \* ALLOCATION_GRANULARITY

\* Windows page protections (winnt.h) and the page states built on them.
PAGE_NOACCESS == 1
PAGE_READONLY == 2
PAGE_READWRITE == 4
PAGE_WRITECOPY == 8
PAGE_EXECUTE == 16
PAGE_EXECUTE_READ == 32
PAGE_EXECUTE_READWRITE == 64
PAGE_EXECUTE_WRITECOPY == 128
NOT_COMMITTED == 0
DECOMMITTED == PAGE_NOACCESS
RW_MAPPED_PRIVATE == PAGE_READWRITE
RW_MAPPED_SHARED == PAGE_EXECUTE_WRITECOPY
RW_UNMAPPED == PAGE_EXECUTE_READWRITE
RO_MAPPED_PRIVATE == PAGE_READONLY
RO_MAPPED_SHARED == PAGE_EXECUTE
RO_UNMAPPED == PAGE_EXECUTE_READ
\* Every page state is one protection bit, or 0; a mask is the set of the
\* states whose bit it has, so mask & ps is membership and | is union.
MASK_RW == {RW_MAPPED_PRIVATE, RW_MAPPED_SHARED, RW_UNMAPPED}
MASK_RO == {RO_MAPPED_PRIVATE, RO_MAPPED_SHARED, RO_UNMAPPED}
MASK_ACCESS == MASK_RW \cup MASK_RO
MASK_UNMAPPED == {RW_UNMAPPED, RO_UNMAPPED}
MASK_MAY_BE_SHARED == {RW_MAPPED_SHARED, RO_MAPPED_SHARED, DECOMMITTED} \cup MASK_UNMAPPED
MAP_PRIVATE == PAGE_EXECUTE_READWRITE
\* Mutant: shared views mapped write-copy without execute.
MAP_SHARED_writecopy == PAGE_WRITECOPY
MAP_SHARED == PAGE_EXECUTE_WRITECOPY

Has(mask, ps) == ps \in mask

\* MASK_ACCESS & (a ^ b) for two page states a and b.
AccessDiffers(a, b) == a # b /\ (a \in MASK_ACCESS \/ b \in MASK_ACCESS)

VARIABLES mapping,   \* BlockInfo::mapping per block
          hsec,      \* the section an open handle refers to; NULL when closed
          sdat,      \* section contents: sdat[s][i]
          prot,      \* protection of page i of the view at block b
          priv,      \* the page has been copied on write
          pdat,      \* contents of a private page (NoData otherwise)
          fault,     \* a verify () or assert () has failed
          call       \* the client call of the last step and whether it succeeded

vars == <<mapping, hsec, sdat, prot, priv, pdat, fault, call>>

Cur == [mapping |-> mapping, hsec |-> hsec, sdat |-> sdat, prot |-> prot,
        priv |-> priv, pdat |-> pdat, fault |-> fault]

NoPages == [i \in Pg |-> NOT_COMMITTED]
NoPriv == [i \in Pg |-> FALSE]
NoPdat == [i \in Pg |-> NoData]
IsHandle(m) == m \notin {NULL, INVALID}

\* What the client reads at page i of block b in host state st.
View(st, b, i) ==
    IF Has(MASK_ACCESS, st.prot[b][i])
    THEN [acc |-> IF Has(MASK_RW, st.prot[b][i]) THEN "rw" ELSE "ro",
          val |-> IF st.priv[b][i] THEN st.pdat[b][i]
                  ELSE st.sdat[st.hsec[st.mapping[b]]][i]]
    ELSE NoAccess

(***************************************************************************)
(* The host, as a state transformer per call.                              *)
(***************************************************************************)
FreeHandles(st) == {h \in Handles : st.hsec[h] = NULL}
NewHandle(st) == CHOOSE h \in FreeHandles(st) : TRUE
FreeSection(st) == CHOOSE s \in Handles : s \notin {st.hsec[h] : h \in Handles}

\* CloseHandle; the section goes when its last handle does.
CloseH(st, h) ==
    LET s == st.hsec[h]
        st1 == [st EXCEPT !.hsec[h] = NULL]
    IN IF \E k \in Handles : st1.hsec[k] = s THEN st1
       ELSE [st1 EXCEPT !.sdat[s] = NoPdat]

\* DuplicateHandle of h; the caller has checked that a handle is free.
DupH(st, h) == [st EXCEPT !.hsec[NewHandle(st)] = st.hsec[h]]

\* MapViewOfFile2 (h, b, protection p): committed pages show p.
MapView(st, b, h, p) ==
    [st EXCEPT !.prot[b] = [i \in Pg |-> IF st.sdat[st.hsec[h]][i] = NoData
                                         THEN NOT_COMMITTED ELSE p],
               !.priv[b] = NoPriv, !.pdat[b] = NoPdat]

\* UnmapViewOfFile2 at b: private copies are dropped with the view.
UnmapView(st, b) == [st EXCEPT !.prot[b] = NoPages, !.priv[b] = NoPriv, !.pdat[b] = NoPdat]

\* The protection a page shows: a page copied on write cannot be write-copy
\* again, the host reports it read-write.
HostProt(p, private) ==
    IF private /\ p = PAGE_EXECUTE_WRITECOPY THEN PAGE_EXECUTE_READWRITE
    ELSE IF private /\ p = PAGE_WRITECOPY THEN PAGE_READWRITE ELSE p

\* verify (VirtualProtectEx) of the pages P of b, page i to protection pf[i],
\* with PAGE_REVERT_TO_FILE_MAP when revert: the call fails, and changes
\* nothing, when a page is not committed.
Uncommitted(st, b, P) == \E i \in P : st.prot[b][i] = NOT_COMMITTED
Protect(st, b, P, pf, revert) ==
    IF Uncommitted(st, b, P) THEN [st EXCEPT !.fault = TRUE]
    ELSE [st EXCEPT
            !.prot[b] = [i \in Pg |-> IF i \in P
                           THEN HostProt(pf[i], st.priv[b][i] /\ ~revert) ELSE st.prot[b][i]],
            !.priv[b] = [i \in Pg |-> st.priv[b][i] /\ ~(revert /\ i \in P)],
            !.pdat[b] = [i \in Pg |-> IF revert /\ i \in P THEN NoData ELSE st.pdat[b][i]]]

All(p) == [i \in Pg |-> p]

\* verify (VirtualAllocEx (b, pages P, MEM_RESET)): the section pages behind
\* P may be discarded.
Reset(st, b, P) ==
    IF Uncommitted(st, b, P) THEN [st EXCEPT !.fault = TRUE]
    ELSE LET s == st.hsec[st.mapping[b]] IN
         [st EXCEPT !.sdat[s] = [i \in Pg |-> IF i \in P THEN Garbage ELSE st.sdat[s][i]]]

(***************************************************************************)
(* AddressSpace::Block, as transformers of the host state.                 *)
(***************************************************************************)
RoundDown(x) == (x \div PageSize) * PageSize
RoundUp(x) == RoundDown(x + PageSize - 1)

\* page_state + offset / PAGE_SIZE up to page_state + (offset + size +
\* PAGE_SIZE - 1) / PAGE_SIZE: the pages copy, check_committed, is_copy walk.
CopyPages(r) == (r.off \div PageSize)..((r.off + r.size + PageSize - 1) \div PageSize - 1)

\* Block::map (h, p), commit = false: exchange the entry; a previous view is
\* unmapped and its handle closed; then the view is installed.
BlockMap(st, b, h, p) ==
    LET old == st.mapping[b]
        st1 == [st EXCEPT !.mapping[b] = h]
    IN MapView(IF IsHandle(old) THEN CloseH(UnmapView(st1, b), old) ELSE st1, b, h, p)

\* Mutant: the view is unmapped and the handle never closed.
BlockUnmap_noclose(st, b, reserve, noclose) ==
    LET st1 == [st EXCEPT !.mapping[b] = reserve]
    IN IF ~IsHandle(st.mapping[b]) THEN st1 ELSE UnmapView(st1, b)

\* Block::unmap (reserve, no_close_handle).
BlockUnmap(st, b, reserve, noclose) ==
    LET old == st.mapping[b]
        st1 == [st EXCEPT !.mapping[b] = reserve]
    IN IF ~IsHandle(old) THEN st1
       ELSE IF noclose THEN UnmapView(st1, b) ELSE CloseH(UnmapView(st1, b), old)

\* Mutant: the scan after the range starts one page late.
HasDataOutsideOf_late(st, b, r, mask) ==
    LET oe == r.off + r.size IN
    /\ r.off # 0 \/ r.size < G
    /\ \/ r.off # 0 /\ \E i \in 0..((r.off + PageSize - 1) \div PageSize - 1) :
                          Has(mask, st.prot[b][i])
       \/ oe < G /\ \E i \in (oe \div PageSize + 1)..(PagesPerBlock - 1) : Has(mask, st.prot[b][i])

\* Block::has_data_outside_of: a page before the first page r touches, or
\* from the page holding r's end on, has a state in mask.
HasDataOutsideOf(st, b, r, mask) ==
    LET oe == r.off + r.size IN
    /\ r.off # 0 \/ r.size < G
    /\ \/ r.off # 0 /\ \E i \in 0..((r.off + PageSize - 1) \div PageSize - 1) :
                          Has(mask, st.prot[b][i])
       \/ oe < G /\ \E i \in (oe \div PageSize)..(PagesPerBlock - 1) : Has(mask, st.prot[b][i])

\* Block::can_move; td is the teardown the flags ask for.
CanMove(st, s, r, td) ==
    td # "none" /\ (td = "release" \/ ~HasDataOutsideOf(st, s, r, MASK_ACCESS))

\* Block::check_committed, and the OR of the block's page states it returns.
CheckCommitted(st, b, r) ==
    IsHandle(st.mapping[b]) /\ \A i \in CopyPages(r) : Has(MASK_ACCESS, st.prot[b][i])
AnyPage(st, b, mask) == \E i \in Pg : Has(mask, st.prot[b][i])

\* Block::decommit (AddressSpace.cpp 344-403).
BlockDecommit(st, b, r) ==
    LET o == RoundUp(r.off)
        e == RoundDown(r.off + r.size)
        P == (o \div PageSize)..(e \div PageSize - 1)
        private == {i \in P : ~Has(MASK_MAY_BE_SHARED \cup {DECOMMITTED}, st.prot[b][i])}
        st1 == Protect(st, b, P, All(DECOMMITTED), TRUE)
    IN CASE o >= e -> st
         [] o = 0 /\ e = G -> BlockUnmap(st, b, INVALID, FALSE)
         [] ~IsHandle(st.mapping[b]) -> st
         [] \A i \in Pg \ P : ~Has(MASK_ACCESS, st.prot[b][i]) -> BlockUnmap(st, b, INVALID, FALSE)
         [] Uncommitted(st, b, P) -> st1
         [] OTHER -> Reset(st1, b, private)

\* Block::change_protection (AddressSpace.cpp 263-329).  The do-while looks
\* at one page even when the rounded range is empty; when that page is
\* past the block its state is a read beyond page_state, whatever junk is,
\* and the protect lands on the first page of the next block.
StatesRW == <<RW_MAPPED_PRIVATE, RW_MAPPED_SHARED, RW_UNMAPPED>>
StatesRO == <<RO_MAPPED_PRIVATE, RO_MAPPED_SHARED, RO_UNMAPPED>>
ChangeProtection(st, b, r, ro, junk) ==
    LET o == IF ro THEN RoundUp(r.off) ELSE RoundDown(r.off)
        e == IF ro THEN RoundDown(r.off + r.size) ELSE RoundUp(r.off + r.size)
        first == o \div PageSize
        last == IF e \div PageSize > first + 1 THEN e \div PageSize - 1 ELSE first
        from == IF ro THEN StatesRW ELSE StatesRO
        to == IF ro THEN StatesRO ELSE StatesRW
        Trans(ps) == IF \E k \in 1..3 : from[k] = ps
                     THEN to[CHOOSE k \in 1..3 : from[k] = ps] ELSE ps
        new == [i \in Pg |-> Trans(st.prot[b][i])]
    IN IF first < PagesPerBlock
       THEN Protect(st, b, {i \in first..last : new[i] # st.prot[b][i]}, new, FALSE)
       ELSE IF Trans(junk) = junk THEN st
       ELSE IF b + 1 \in Blocks THEN Protect(st, b + 1, {0}, All(Trans(junk)), FALSE)
       ELSE [st EXCEPT !.fault = TRUE]

\* The page states Block::copy wants at the destination.
Wanted(ro, shared) ==
    IF ro THEN IF shared THEN RO_MAPPED_SHARED ELSE RO_MAPPED_PRIVATE
          ELSE IF shared THEN RW_MAPPED_SHARED ELSE RW_MAPPED_PRIVATE
\* Mutant: the pages outside the range are not filled with DECOMMITTED.
DstStates_nofill(st, s, r, ro, move) ==
    [i \in Pg |-> Wanted(ro, ~move \/ Has(MASK_MAY_BE_SHARED, st.prot[s][i]))]
DstStates(st, s, r, ro, move) ==
    [i \in Pg |-> IF i \in CopyPages(r)
                  THEN Wanted(ro, ~move \/ Has(MASK_MAY_BE_SHARED, st.prot[s][i]))
                  ELSE DECOMMITTED]

\* The protection walk ending Block::copy: a run starts at a page whose
\* access differs from the wanted state and takes in the following pages
\* wanted in the same state.
Walked(st, b, des) ==
    {j \in Pg : \E i \in 0..j : /\ AccessDiffers(st.prot[b][i], des[i])
                                /\ \A k \in i..j : des[k] = des[j]}

\* Block::copy (remap, move, src, offset, size, flags), AddressSpace.cpp
\* 180-261; the caller has checked that DuplicateHandle can succeed.
CopyBody(st, d, s, r, ro, td, remap, move) ==
    LET des == DstStates(st, s, r, ro, move)
        h == st.mapping[s]
        st1 == IF ~remap THEN st
               ELSE IF move THEN BlockMap(st, d, h, MAP_PRIVATE)
               ELSE BlockMap(DupH(st, h), d, NewHandle(st), MAP_SHARED)
        st2 == CASE td = "release" -> BlockUnmap(st1, s, NULL, move)
                 [] td = "decommit" /\ move -> BlockUnmap(st1, s, INVALID, move)
                 [] td = "decommit" -> BlockDecommit(st1, s, r)
                 [] OTHER -> st1
    IN Protect(st2, d, Walked(st2, d, des), des, FALSE)

\* Block::copy (src, offset, size, flags), AddressSpace.cpp 156-178: remap
\* unless the block already maps the source's section; INTERNAL when a
\* remap would lose data outside the range.
Remap(st, d, s) ==
    ~IsHandle(st.mapping[d]) \/ st.hsec[st.mapping[d]] # st.hsec[st.mapping[s]]
CopyInternal(st, d, s, r) ==
    IsHandle(st.mapping[d]) /\ Remap(st, d, s) /\ HasDataOutsideOf(st, d, r, MASK_ACCESS)


(***************************************************************************)
(* MemoryWindows::Block::prepare_to_share (MemoryWindows.h 177-183).  The *)
(* three methods it calls are in MemoryWindows.cpp, which is not part of  *)
(* the sources; they are modelled from their names and the page-state     *)
(* encoding.                                                               *)
(***************************************************************************)
\* need_remap_to_share: a page of the range holds a private copy, which the
\* section lacks.
NeedRemapToShare(st, s, r) == \E i \in CopyPages(r) : Has(MASK_UNMAPPED, st.prot[s][i])

\* remap: a new section holding what the block shows replaces the old one;
\* private copies become pages of the new section, which no one else maps.
Unshare(ps) ==
    IF Has(MASK_RW \ {RW_MAPPED_PRIVATE}, ps) THEN RW_MAPPED_PRIVATE
    ELSE IF Has(MASK_RO \ {RO_MAPPED_PRIVATE}, ps) THEN RO_MAPPED_PRIVATE ELSE ps
RemapBlock(st, s) ==
    LET h == NewHandle(st)
        sec == FreeSection(st)
        data == [i \in Pg |-> IF st.prot[s][i] = NOT_COMMITTED THEN NoData
                              ELSE IF st.priv[s][i] THEN st.pdat[s][i]
                              ELSE st.sdat[st.hsec[st.mapping[s]]][i]]
        st1 == BlockMap([st EXCEPT !.hsec[h] = sec, !.sdat[sec] = data], s, h, MAP_PRIVATE)
    IN [st1 EXCEPT !.prot[s] = [i \in Pg |-> Unshare(st.prot[s][i])]]

\* prepare_to_share_no_remap: pages of the range the block writes through
\* become write-copy (AddressSpace.h 38-40); every other state is unchanged.
PrepareNoRemap(st, s, r) ==
    Protect(st, s, {i \in CopyPages(r) : st.prot[s][i] = RW_MAPPED_PRIVATE},
            [i \in Pg |-> RW_MAPPED_SHARED], FALSE)

\* Mutant: prepare_to_share_no_remap is never called.
PrepareToShare_remaponly(st, s, r, td) ==
    IF NeedRemapToShare(st, s, r) THEN RemapBlock(st, s) ELSE st
PrepareToShare(st, s, r, td) ==
    LET st1 == IF NeedRemapToShare(st, s, r) THEN RemapBlock(st, s) ELSE st
    IN IF td = "none" THEN PrepareNoRemap(st1, s, r) ELSE st1

\* remap's new_mapping () fails with NO_MEMORY when no handle is free.
PrepareFails(st, s, r) == NeedRemapToShare(st, s, r) /\ FreeHandles(st) = {}

(***************************************************************************)
(* The client calls.  Each is one step: the whole facade handler.          *)
(***************************************************************************)
VisibleMem == LET st == Cur IN [b \in Blocks |-> [i \in Pg |-> View(st, b, i)]]

Abs == INSTANCE Memory WITH mem <- VisibleMem

Ev(op, d, s, r, ro, td, ok) == Abs!Event(op, d, s, r, Zero, ro, td, ok)
Whole == [off |-> 0, size |-> G]

Done(st, ev) ==
    /\ mapping' = st.mapping /\ hsec' = st.hsec /\ sdat' = st.sdat
    /\ prot' = st.prot /\ priv' = st.priv /\ pdat' = st.pdat /\ fault' = st.fault
    /\ call' = ev

\* AddressSpace::reserve of one block.
ReserveBlock(b) ==
    /\ mapping[b] = NULL
    /\ Done([Cur EXCEPT !.mapping[b] = INVALID], Ev("reserve", b, b, Whole, FALSE, "none", TRUE))

\* AddressSpace::release of one block: exchange the entry to null, unmap
\* and close, or free the reservation.
ReleaseBlock(b) ==
    /\ mapping[b] # NULL
    /\ Done(BlockUnmap(Cur, b, NULL, FALSE), Ev("release", b, b, Whole, FALSE, "none", TRUE))

\* MemoryWindows::commit of a reserved block (commit_no_check, in
\* MemoryWindows.cpp): a new section with the touched pages committed,
\* mapped at the block, the pages read-write and private.
Commit(b, r) ==
    /\ mapping[b] = INVALID
    /\ IF FreeHandles(Cur) = {}
       THEN Done(Cur, Ev("commit", b, b, r, FALSE, "none", FALSE))
       ELSE LET h == NewHandle(Cur)
                sec == FreeSection(Cur)
                st1 == BlockMap([Cur EXCEPT !.hsec[h] = sec,
                                            !.sdat[sec] = [i \in Pg |->
                                               IF i \in CopyPages(r) THEN Zero ELSE NoData]],
                                b, h, MAP_PRIVATE)
            IN Done([st1 EXCEPT !.prot[b] = [i \in Pg |->
                       IF i \in CopyPages(r) THEN RW_MAPPED_PRIVATE ELSE NOT_COMMITTED]],
                    Ev("commit", b, b, r, FALSE, "none", TRUE))

\* A store by the client to a read-write page.  A write-copy page is copied
\* first; any other page is written through to the section unless private.
Write(b, i, v) ==
    LET p == prot[b][i] IN
    /\ Has(MASK_RW, p)
    /\ Done(IF p = PAGE_EXECUTE_WRITECOPY
            THEN [Cur EXCEPT !.prot[b][i] = PAGE_EXECUTE_READWRITE,
                             !.priv[b][i] = TRUE, !.pdat[b][i] = v]
            ELSE IF priv[b][i] THEN [Cur EXCEPT !.pdat[b][i] = v]
            ELSE [Cur EXCEPT !.sdat[hsec[mapping[b]]][i] = v],
            Abs!Event("write", b, b, [off |-> i * PageSize, size |-> 1], v, FALSE, "none", TRUE))

\* AddressSpace::decommit of one block: check_allocated, Block::decommit.
Decommit(b, r) ==
    Done(IF mapping[b] = NULL THEN Cur ELSE BlockDecommit(Cur, b, r),
         Ev("decommit", b, b, r, FALSE, "none", mapping[b] # NULL))

\* MemoryWindows::copy (p, p, size, flags): the source must be committed;
\* the protection is changed when the mask from check_committed has a page
\* of the other kind.  That mask starts uninitialised, so its other bits
\* are garbage.
ProtectCall(b, r, ro, junk, garbage) ==
    Done(IF CheckCommitted(Cur, b, r) /\ (garbage \/ AnyPage(Cur, b, IF ro THEN MASK_RW ELSE MASK_RO))
         THEN ChangeProtection(Cur, b, r, ro, junk) ELSE Cur,
         Ev("protect", b, b, r, ro, "none", CheckCommitted(Cur, b, r)))

\* MemoryWindows::copy (0, src, size, flags), quick path: prepare_to_share,
\* then AddressSpace::copy (AddressSpace.cpp 732-759) maps the source's
\* section at a free block d (AddressSpace::map), its own handle on a move,
\* a duplicate otherwise, and runs Block::copy with remap = FALSE.
QuickCopy(d, s, r, ro, td) ==
    LET ev(ok) == Ev("copy", d, s, r, ro, td, ok)
        st1 == PrepareToShare(Cur, s, r, td)
        move == CanMove(st1, s, r, td)
        h == st1.mapping[s]
        st2 == IF move THEN [st1 EXCEPT !.mapping[d] = h]
               ELSE [DupH(st1, h) EXCEPT !.mapping[d] = NewHandle(st1)]
        st3 == MapView(st2, d, st2.mapping[d], IF move THEN MAP_PRIVATE ELSE MAP_SHARED)
    IN /\ td \in {"none", "decommit"}
       /\ mapping[d] = NULL
       /\ CASE ~CheckCommitted(Cur, s, r) \/ PrepareFails(Cur, s, r) -> Done(Cur, ev(FALSE))
            [] ~move /\ FreeHandles(st1) = {} -> Done(st1, ev(FALSE))
            [] OTHER -> Done(CopyBody(st3, d, s, r, ro, td, FALSE, move), ev(TRUE))

\* MemoryWindows::copy (dst, src, size, flags) into an allocated block, share
\* path, one block: Block::copy (void*, ...) of MemoryWindows.cpp prepares
\* the source and calls Block::copy (src, offset, size, flags).
CopyInto(d, s, r, ro, td) ==
    LET ev(ok) == Ev("copy", d, s, r, ro, td, ok)
        st1 == PrepareToShare(Cur, s, r, td)
        remap == Remap(st1, d, s)
        move == CanMove(st1, s, r, td)
    IN CASE ~CheckCommitted(Cur, s, r) \/ mapping[d] = NULL \/ PrepareFails(Cur, s, r) ->
              Done(Cur, ev(FALSE))
         [] CopyInternal(st1, d, s, r) \/ (remap /\ ~move /\ FreeHandles(st1) = {}) ->
              Done(st1, ev(FALSE))
         [] OTHER -> Done(CopyBody(st1, d, s, r, ro, td, remap, move), ev(TRUE))


\* Block d maps the section block s maps.
SharesSection(d, s) ==
    IsHandle(mapping[d]) /\ IsHandle(mapping[s]) /\ hsec[mapping[d]] = hsec[mapping[s]]

Teardowns == {"none", "decommit", "release"}   \* copy flags: 0, DECOMMIT, RELEASE
Junk == {NOT_COMMITTED, RW_MAPPED_PRIVATE, RW_MAPPED_SHARED, RW_UNMAPPED}

Init ==
    /\ mapping = [b \in Blocks |-> NULL]
    /\ hsec = [h \in Handles |-> NULL]
    /\ sdat = [s \in Handles |-> NoPdat]
    /\ prot = [b \in Blocks |-> NoPages]
    /\ priv = [b \in Blocks |-> NoPriv]
    /\ pdat = [b \in Blocks |-> NoPdat]
    /\ fault = FALSE
    /\ call = Abs!Idle

Next ==
    \/ \E b \in Blocks : ReserveBlock(b) \/ ReleaseBlock(b)
    \/ \E b \in Blocks, r \in CommitRequests : Commit(b, r)
    \/ \E b \in Blocks, r \in Requests :
          /\ DecommitUncommitted \/ \A i \in Abs!WholePages(r) : prot[b][i] # NOT_COMMITTED
                                 \/ mapping[b] = INVALID
          /\ Decommit(b, r)
    \/ \E b \in Blocks, i \in Pg, v \in Vals \ {Zero} : Write(b, i, v)
    \/ \E b \in Blocks, r \in Requests, ro \in BOOLEAN :
          /\ RejectedCalls \/ CheckCommitted(Cur, b, r)
          /\ \E junk \in IF ro /\ RoundUp(r.off) = G THEN Junk ELSE {NOT_COMMITTED},
                \* the garbage bits decide only when the mask has no page of the other kind
                garbage \in IF CheckCommitted(Cur, b, r) /\ ~AnyPage(Cur, b, IF ro THEN MASK_RW ELSE MASK_RO)
                            THEN BOOLEAN ELSE {FALSE} :
                   ProtectCall(b, r, ro, junk, garbage)
    \/ \E d, s \in Blocks, r \in Requests, ro \in BOOLEAN, td \in Teardowns :
          /\ d # s
          /\ td = "decommit" /\ ~PartialMoves => ~HasDataOutsideOf(Cur, s, r, MASK_ACCESS)
          /\ RejectedCalls \/ (CheckCommitted(Cur, s, r) /\ ~PrepareFails(Cur, s, r))
          /\ td = "none" /\ ~ShareReadOnly /\ ~PrepareFails(Cur, s, r) =>
                \A i \in CopyPages(r) : PrepareToShare(Cur, s, r, td).prot[s][i] # RO_MAPPED_PRIVATE
          /\ \/ QuickCopy(d, s, r, ro, td)
             \/ /\ CopyOntoShared \/ ~SharesSection(d, s)
                /\ RejectedCalls \/ mapping[d] # NULL
                /\ CopyInto(d, s, r, ro, td)

Spec == Init /\ [][Next]_vars

(***************************************************************************)
(* Properties.                                                             *)
(***************************************************************************)
TypeOK ==
    /\ mapping \in [Blocks -> {NULL, INVALID} \cup Handles]
    /\ hsec \in [Handles -> Handles \cup {NULL}]
    /\ sdat \in [Handles -> [Pg -> Vals \cup {NoData, Garbage}]]
    /\ prot \in [Blocks -> [Pg -> {NOT_COMMITTED, DECOMMITTED} \cup
                                  {StatesRW[k] : k \in 1..3} \cup {StatesRO[k] : k \in 1..3}]]
    /\ priv \in [Blocks -> [Pg -> BOOLEAN]]
    /\ pdat \in [Blocks -> [Pg -> Vals \cup {NoData}]]
    /\ fault \in BOOLEAN

\* Every step does to what clients see exactly what the facade call it
\* makes promises (Memory.tla): copies copy the touched pages and nothing
\* else, a write is seen by no other block, decommit and protection change
\* only the pages the request names.  This is spec 8.2 (isolation of
\* copies) and 4.3's rounding rules, over every sequence of calls.
\* Abs!Spec, with the call a step makes put for the bound call of Abs!Next.
ImplementsMemory == Abs!Init /\ [][call' \in Abs!Events /\ Abs!Step(call')]_<<VisibleMem, call>>

\* Block::is_copy (AddressSpace.cpp 405-424) answers from page states and
\* handles alone.
\* Mutant: is_copy does not look for private copies.
IsCopy_nounmapped(st, b1, b2, r) ==
    /\ IsHandle(st.mapping[b1]) /\ IsHandle(st.mapping[b2])
    /\ st.hsec[st.mapping[b1]] = st.hsec[st.mapping[b2]]
    /\ \A i \in CopyPages(r) : Has(MASK_ACCESS, st.prot[b1][i]) /\ Has(MASK_ACCESS, st.prot[b2][i])
IsCopy(st, b1, b2, r) ==
    /\ IsHandle(st.mapping[b1]) /\ IsHandle(st.mapping[b2])
    /\ st.hsec[st.mapping[b1]] = st.hsec[st.mapping[b2]]
    /\ \A i \in CopyPages(r) :
          /\ ~Has(MASK_UNMAPPED, st.prot[b1][i]) /\ ~Has(MASK_UNMAPPED, st.prot[b2][i])
          /\ Has(MASK_ACCESS, st.prot[b1][i]) /\ Has(MASK_ACCESS, st.prot[b2][i])

(***************************************************************************)
(* The queries over an address range, which the facade's is_readable,      *)
(* is_writable, is_private and is_copy (MemoryWindows.h 116-134) forward   *)
(* to.  Block b holds the addresses (b - 1) * G .. b * G - 1.              *)
(***************************************************************************)
Addrs == 0..(NBlocks * G - 1)
BlockOf(a) == a \div G + 1
PageOf(a) == (a % G) \div PageSize
Protections == {NOT_COMMITTED, PAGE_NOACCESS, PAGE_READONLY, PAGE_READWRITE, PAGE_WRITECOPY,
                PAGE_EXECUTE, PAGE_EXECUTE_READ, PAGE_EXECUTE_READWRITE, PAGE_EXECUTE_WRITECOPY}

\* VirtualQuery (a): mbi.Protect is the page's protection inside a view and
\* 0 (NOT_COMMITTED) elsewhere; BaseAddress + RegionSize is the first page
\* after a's with another protection, or the end of the block's allocation.
QueryProtect(st, a) ==
    IF a \in Addrs /\ IsHandle(st.mapping[BlockOf(a)]) THEN st.prot[BlockOf(a)][PageOf(a)]
    ELSE NOT_COMMITTED
RegionEnd(st, a) ==
    LET other == {x \in (RoundDown(a) + PageSize)..(BlockOf(a) * G - 1) :
                    x % PageSize = 0 /\ QueryProtect(st, x) # QueryProtect(st, a)}
    IN IF other = {} THEN BlockOf(a) * G ELSE CHOOSE x \in other : \A y \in other : x <= y

\* VirtualQuery over the whole space, one entry per address up to the end.
QueryTable(st) ==
    [a \in 0..(NBlocks * G) |-> [protect |-> QueryProtect(st, a), next |-> RegionEnd(st, a)]]

\* Mutant: the loop runs while begin <= end, querying the region at the end.
RECURSIVE QueryWalk_pastend(_, _, _, _)
QueryWalk_pastend(q, good, begin, end) ==
    \/ begin > end
    \/ /\ q[begin].protect \in good
       /\ QueryWalk_pastend(q, good, q[begin].next, end)

\* The loop of is_private, is_readable and is_writable (AddressSpace.h
\* 295-329), over the table q of VirtualQuery answers: from begin = p while
\* begin < end, query begin, answer false when mbi.Protect has none of the
\* bits asked for, go on at BaseAddress + RegionSize.
RECURSIVE QueryWalk(_, _, _, _)
QueryWalk(q, good, begin, end) ==
    \/ begin >= end
    \/ /\ q[begin].protect \in good
       /\ QueryWalk(q, good, q[begin].next, end)

IsReadable(q, p, n) == QueryWalk(q, MASK_ACCESS, p, p + n)
IsWritable(q, p, n) == QueryWalk(q, MASK_RW, p, p + n)
NotWriteCopy == Protections \ {PAGE_WRITECOPY, PAGE_EXECUTE_WRITECOPY}
IsPrivate(q, p, n) == QueryWalk(q, NotWriteCopy, p, p + n)

\* AddressSpace::is_copy (AddressSpace.cpp 829-850): false unless p and q
\* sit at the same offset in their blocks; then Block::is_copy of each
\* block of [p, p + n) with the block at the same distance from q.  A block
\* without a directory entry makes the Block constructor (AddressSpace.cpp
\* 9-16) throw, and the catch answers false.
RECURSIVE IsCopyWalk(_, _, _, _)
IsCopyWalk(st, begin1, end1, b2) ==
    \/ begin1 >= end1
    \/ LET b1 == BlockOf(begin1)
           blockEnd1 == IF b1 * G > end1 THEN end1 ELSE b1 * G
       IN /\ b2 \in Blocks /\ st.mapping[b1] # NULL /\ st.mapping[b2] # NULL
          /\ IsCopy(st, b1, b2, [off |-> begin1 - (b1 - 1) * G, size |-> blockEnd1 - begin1])
          /\ IsCopyWalk(st, blockEnd1, end1, b2 + 1)
IsCopyRange(st, p, q, n) == p % G = q % G /\ IsCopyWalk(st, p, p + n, BlockOf(q))

\* What the client reads at address a.
Seen(a) == View(Cur, BlockOf(a), PageOf(a))

\* When the facade's is_copy says two ranges are copies, every address of
\* the one reads what the address at the same distance in the other reads
\* (spec 8.3), whichever blocks the ranges cross.
IsCopySound ==
    \A p \in Addrs :
      \A q \in {x \in Addrs : x % G = p % G /\ x # p} :
        \A n \in 1..(NBlocks * G - (IF p > q THEN p ELSE q)) :
            IsCopyRange(Cur, p, q, n) =>
                \A a \in p..(p + n - 1) : Seen(a).val = Seen(a + q - p).val

\* is_readable and is_writable, which walk host regions rather than pages
\* or blocks, answer for every address of the range what a load or a store
\* by the client would meet there; and in a range is_private calls private,
\* no store by the client lands where another block reads (spec 8.2).
QueriesAnswer ==
    LET q == QueryTable(Cur)
        load == [a \in Addrs |-> Seen(a) # NoAccess]
        store == [a \in Addrs |-> load[a] /\ Seen(a).acc = "rw"]
        \* a store to a lands where another block reads
        through == [a \in Addrs |->
                      LET b == BlockOf(a)
                          i == PageOf(a)
                      IN /\ prot[b][i] \in MASK_RW /\ ~priv[b][i]
                         /\ prot[b][i] # PAGE_EXECUTE_WRITECOPY
                         /\ \E b2 \in Blocks \ {b} :
                               SharesSection(b, b2) /\ Has(MASK_ACCESS, prot[b2][i]) /\ ~priv[b2][i]]
    IN \A p \in Addrs : \A n \in 1..(NBlocks * G - p) :
          /\ IsReadable(q, p, n) <=> \A a \in p..(p + n - 1) : load[a]
          /\ IsWritable(q, p, n) <=> \A a \in p..(p + n - 1) : store[a]
          /\ IsPrivate(q, p, n) => \A a \in p..(p + n - 1) : ~through[a]

\* The page-state encoding is what keeps copies apart: a page a block
\* writes straight into the section (RW_MAPPED_PRIVATE, or a view mapped
\* read-write and not yet copied) is read by no other block that maps the
\* same section, unless that block has its own copy of the page.
WriteThroughExclusive ==
    \A b, b2 \in Blocks, i \in Pg :
        /\ b # b2 /\ IsHandle(mapping[b]) /\ IsHandle(mapping[b2])
        /\ hsec[mapping[b]] = hsec[mapping[b2]]
        /\ prot[b][i] \in {RW_MAPPED_PRIVATE, RW_UNMAPPED} /\ ~priv[b][i]
        => ~Has(MASK_ACCESS, prot[b2][i]) \/ priv[b2][i]

\* Every open handle is the mapping of exactly one block, and every block's
\* handle is open: Block::copy and AddressSpace::copy hand a handle over,
\* duplicate it or close it, and none is leaked or owned twice.
HandlesAccounted ==
    /\ \A h \in Handles : hsec[h] # NULL => Cardinality({b \in Blocks : mapping[b] = h}) = 1
    /\ \A b \in Blocks : IsHandle(mapping[b]) => hsec[mapping[b]] # NULL

\* No verify () or assert () of the copy, protection and decommit paths fails.
NoFault == ~fault

=============================================================================
