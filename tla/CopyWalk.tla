------------------------------ MODULE CopyWalk ------------------------------
(***************************************************************************)
(* MemoryWindows::copy (dst, src, size, flags) once the destination ret is *)
(* known (MemoryWindows.h 366-448): the share walk, which copies block by  *)
(* block low-to-high or high-to-low according to the overlap, and the      *)
(* physical copy with its release of the source minus the destination.     *)
(*                                                                         *)
(* Memory is bytes; a page is one byte.  mem[a] is the byte's contents,    *)
(* named by the address it held at the start (a tag), NoAccess, or Garbage *)
(* once MEM_RESET has discarded it.  shared holds the pages whose state is *)
(* in MASK_MAY_BE_SHARED; the others are RW_MAPPED_PRIVATE.  A block maps  *)
(* a section (sec), is reserved (RESERVED) or free (FREE).  One            *)
(* Block::copy of a walk step is one action, taken at the level of bytes   *)
(* and sections: Block.tla has its page states.  SIZE_T arithmetic is      *)
(* modulo 2^WordBits.                                                      *)
(***************************************************************************)
EXTENDS Integers, FiniteSets

CONSTANTS NB,           \* blocks of address space
          G,            \* ALLOCATION_GRANULARITY, in bytes (= pages)
          MaxSize,      \* largest copy size
          WordBits,     \* width of SIZE_T and of pointers
          NoAccess, Garbage, RESERVED, FREE,
          PhysRelease   \* clients ask RELEASE of copies that take the physical path

Word == 2 ^ WordBits
Blocks == 0..(NB - 1)
A == 0..(NB * G - 1)
Offs == 0..(G - 1)
BlockOf(a) == a \div G
RoundDown(x) == (x \div G) * G
RoundUp(x) == ((x + G - 1) \div G) * G
Range(p, n) == {a \in A : p <= a /\ a < p + n}
BlocksOf(S) == {BlockOf(a) : a \in S}
Sections == 0..(2 * NB - 1)   \* NB + b: the section a commit gives block b

VARIABLES mem, shared, sec, ret, src, size, td, pd, ps, pc, result, mem0

vars == <<mem, shared, sec, ret, src, size, td, pd, ps, pc, result, mem0>>

Mapped(x) == x \in Sections
Bytes(b) == {a \in A : BlockOf(a) = b}

(***************************************************************************)
(* The calls that reach line 366: a destination that is allocated (checked *)
(* by check_allocated or reserved by the ALLOCATE path), a committed       *)
(* source (check_committed), ret # src, flags 0 or RELEASE.  The           *)
(* destination's blocks hold no data but the source's outside the          *)
(* destination: AddressSpace::Block::copy would throw INTERNAL (spec 4.3). *)
(* Every block maps a section of its own, committed by commit_no_check, so *)
(* every page is RW_MAPPED_PRIVATE.                                        *)
(***************************************************************************)
Init ==
    \E r, s \in A, n \in 1..MaxSize, t \in {"none", "release"} :
       /\ r # s /\ r + n <= NB * G /\ s + n <= NB * G
       /\ r % G # s % G /\ t = "release" => PhysRelease
       /\ LET D == Range(r, n)
              S == Range(s, n)
          IN /\ D \cap S # {} \/ BlocksOf(D) \cap BlocksOf(S) = {}
             /\ \E resv \in SUBSET (BlocksOf(D) \ BlocksOf(S)),
                   kept \in SUBSET {a \in A : BlockOf(a) \in BlocksOf(S) \ BlocksOf(D)} :
                  LET sc == [b \in Blocks |-> IF b \in resv THEN RESERVED ELSE b]
                  IN /\ sec = sc
                     /\ mem = [a \in A |->
                                IF sc[BlockOf(a)] = RESERVED THEN NoAccess
                                ELSE IF a \in S \cup D THEN a
                                ELSE IF BlockOf(a) \in BlocksOf(D) THEN NoAccess
                                ELSE IF BlockOf(a) \in BlocksOf(S) /\ a \notin kept THEN NoAccess
                                ELSE a]
                     /\ shared = {}
       /\ ret = r /\ src = s /\ size = n /\ td = t
       /\ pd = r /\ ps = s /\ pc = "start" /\ result = "none"
    /\ mem0 = mem

Consts == <<ret, src, size, td, mem0>>

Finish(r) == pc' = "done" /\ result' = r

(***************************************************************************)
(* One step of the share walk: Block block (dp); block.copy (s, cb, f),    *)
(* the copy of [s, s + cb) onto [dp, dp + cb) inside one block each.       *)
(* Block (dp) and Block (s) throw BAD_PARAM for a block no longer          *)
(* allocated; AddressSpace::Block::copy (156-178) remaps unless the        *)
(* destination already maps the source's section and throws INTERNAL for  *)
(* data outside the range; copy (180-261) takes a move when DECOMMIT is    *)
(* asked and the source has no data outside (can_move), leaves the         *)
(* destination's pages outside the range decommitted, and tears the        *)
(* source down by the flags.  Before it, MemoryWindows' prepare_to_share   *)
(* (MemoryWindows.h 177-183) marks the source's pages shared unless the    *)
(* flags hold DECOMMIT.  A DECOMMIT copy that is not a move ends in        *)
(* src.decommit (235), which MEM_RESETs the range's pages not in           *)
(* MASK_MAY_BE_SHARED (382-389): every view of the section, the new        *)
(* destination's included, loses them.  The walk goes on at npc, npd, nps. *)
(***************************************************************************)
BlockCopy(dp, s, cb, f, npc, npd, nps) ==
    LET d == BlockOf(dp)
        sb == BlockOf(s)
        R == {o \in Offs : (s % G) <= o /\ o < (s % G) + cb}
        outside(b) == {o \in Offs \ R : mem[b * G + o] # NoAccess}
        move == f # "none" /\ (f = "release" \/ outside(sb) = {})
        gone == IF f = "decommit" /\ ~move THEN Range(s, cb) ELSE Bytes(sb)
        prepared == IF f = "none" THEN shared \cup Range(s, cb) ELSE shared
        reset == IF f = "decommit" /\ ~move THEN {o \in R : sb * G + o \notin prepared} ELSE {}
        sec1 == [sec EXCEPT ![d] = sec[sb],
                            ![sb] = CASE f = "release" -> FREE
                                      [] move -> RESERVED
                                      [] OTHER -> @]
        mem1 == [a \in A |->
                   IF a \in Bytes(d)
                   THEN IF a % G \in R THEN mem[sb * G + (a % G)] ELSE NoAccess
                   ELSE IF a \in gone /\ f # "none" THEN NoAccess
                   ELSE mem[a]]
    IN CASE sec[d] = FREE \/ sec[sb] = FREE ->
              Finish("BAD_PARAM") /\ UNCHANGED <<mem, shared, sec, pd, ps>>
         [] ~Mapped(sec[sb]) \/ \E a \in Range(s, cb) : mem[a] = NoAccess ->
              Finish("FAULT") /\ UNCHANGED <<mem, shared, sec, pd, ps>>
         [] sec[d] # RESERVED /\ sec[d] # sec[sb] /\ outside(d) # {} ->
              Finish("INTERNAL") /\ UNCHANGED <<mem, shared, sec, pd, ps>>
         [] OTHER ->
              /\ mem' = [a \in A |->
                           IF a % G \in reset /\ sec1[BlockOf(a)] = sec[sb] /\ mem1[a] # NoAccess
                           THEN Garbage ELSE mem1[a]]
              \* 187-210: a move keeps each page's sharing, a share makes it shared
              /\ shared' = (prepared \ Bytes(d)) \cup
                           {d * G + o : o \in {o \in R : ~move \/ sb * G + o \in prepared}}
              /\ sec' = sec1
              /\ pc' = npc /\ pd' = npd /\ ps' = nps
              /\ result' = IF npc = "done" THEN "ok" ELSE result

\* Mutant: first_part_end rounded down.
FirstPartEnd_down == RoundDown((ret + size) - ((src + size) - (ret + size)))

\* first_part_end (374) and first_part_begin (401).
FirstPartEnd == RoundUp((ret + size) - ((src + size) - (ret + size)))
FirstPartBegin == RoundDown(ret + (ret - src))

\* The loop tests of 377/386 and 404/413 at the cursor p.
LoNext(p) == IF ret + size > src /\ p < FirstPartEnd THEN "lo_first"
             ELSE IF p < ret + size THEN "lo_rest" ELSE "done"
HiNext(p) == IF ret < src + size /\ p > FirstPartBegin THEN "hi_first"
             ELSE IF p > ret THEN "hi_rest" ELSE "done"

\* Mutant: the walk direction taken the other way round.
Start_swap ==
    /\ pc = "start"
    /\ IF ret % G = src % G
       THEN IF ret > src
            THEN pd' = ret /\ ps' = src /\ pc' = LoNext(ret)
            ELSE pd' = ret + size /\ ps' = src + size /\ pc' = HiNext(ret + size)
       ELSE pc' = "phys" /\ UNCHANGED <<pd, ps>>
    /\ UNCHANGED <<mem, shared, sec, result>> /\ UNCHANGED Consts

\* 367-372, 396-399: share when the offsets in the block agree, walking
\* low-to-high when ret < src; otherwise the physical copy (424).
Start ==
    /\ pc = "start"
    /\ IF ret % G = src % G
       THEN IF ret < src
            THEN pd' = ret /\ ps' = src /\ pc' = LoNext(ret)
            ELSE pd' = ret + size /\ ps' = src + size /\ pc' = HiNext(ret + size)
       ELSE pc' = "phys" /\ UNCHANGED <<pd, ps>>
    /\ UNCHANGED <<mem, shared, sec, result>> /\ UNCHANGED Consts

\* Mutant: the rest loop copies whole blocks, not clipped to end.
LoRest_noclip ==
    /\ pc = "lo_rest"
    /\ LET be == RoundDown(pd) + G
           cb == be - pd
       IN BlockCopy(pd, ps, cb, td, LoNext(be), be, ps + cb)
    /\ UNCHANGED Consts

\* 377-384: the overlapped part, whole destination blocks, with DECOMMIT.
LoFirst ==
    /\ pc = "lo_first"
    /\ LET be == RoundDown(pd) + G
           cb == be - pd
       IN BlockCopy(pd, ps, cb, "decommit", LoNext(be), be, ps + cb)
    /\ UNCHANGED Consts

\* Mutant: the rest loop keeps the first part's flags.
LoRest_decommit ==
    /\ pc = "lo_rest"
    /\ LET be == IF RoundDown(pd) + G > ret + size THEN ret + size ELSE RoundDown(pd) + G
           cb == be - pd
       IN BlockCopy(pd, ps, cb, "decommit", LoNext(be), be, ps + cb)
    /\ UNCHANGED Consts

\* 386-395: the rest, with the caller's flags, clipped to end.
LoRest ==
    /\ pc = "lo_rest"
    /\ LET be == IF RoundDown(pd) + G > ret + size THEN ret + size ELSE RoundDown(pd) + G
           cb == be - pd
       IN BlockCopy(pd, ps, cb, td, LoNext(be), be, ps + cb)
    /\ UNCHANGED Consts

\* 404-411: the overlapped part from the top, with DECOMMIT.
HiFirst ==
    /\ pc = "hi_first"
    /\ LET bb == RoundDown(pd - 1)
           cb == pd - bb
       IN BlockCopy(bb, ps - cb, cb, "decommit", HiNext(bb), bb, ps - cb)
    /\ UNCHANGED Consts

\* 413-422: the rest, clipped to ret.
HiRest ==
    /\ pc = "hi_rest"
    /\ LET bb == IF RoundDown(pd - 1) < ret THEN ret ELSE RoundDown(pd - 1)
           cb == pd - bb
       IN BlockCopy(bb, ps - cb, cb, td, HiNext(bb), bb, ps - cb)
    /\ UNCHANGED Consts
(***************************************************************************)
(* Region::subtract (148-163) with SIZE_T arithmetic: the part of r left   *)
(* once [begin, end) is taken out.                                         *)
(***************************************************************************)
Subtract(r, begin, end) ==
    LET my_end == r.ptr + r.size
        cut == IF my_end >= end THEN 0 ELSE r.size
    IN IF r.ptr < begin
       THEN [r EXCEPT !.size = IF my_end > begin THEN (cut - (my_end - begin)) % Word ELSE cut]
       ELSE IF end >= my_end THEN [r EXCEPT !.size = 0]
       ELSE IF end > r.ptr THEN [ptr |-> end, size |-> r.size - (end - r.ptr)]
       ELSE r

(***************************************************************************)
(* AddressSpace::release (p, n) (630-711) applied to memory m and sections *)
(* sc: the blocks from round_down (p) to round_up (p + n), a pointer sum   *)
(* modulo the word, each must be allocated (BAD_PARAM otherwise, with the  *)
(* blocks before it untouched); then every one is freed.                   *)
(***************************************************************************)
ReleaseCall(p, n, m, sc) ==
    LET begin == RoundDown(p)
        end == RoundUp((p + n) % Word) % Word
        visited == {(begin + k * G) % Word : k \in 0..(((end - begin) % Word) \div G) - 1}
        freed == {BlockOf(q) : q \in visited}
    IN IF \E q \in visited : q >= NB * G \/ sc[BlockOf(q)] = FREE
       THEN mem' = m /\ sec' = sc /\ Finish("BAD_PARAM")
       ELSE /\ mem' = [a \in A |-> IF BlockOf(a) \in freed THEN NoAccess ELSE m[a]]
            /\ sec' = [b \in Blocks |-> IF b \in freed THEN FREE ELSE sc[b]]
            /\ Finish("ok")

(***************************************************************************)
(* 424-443, the physical copy: commit_no_check commits the destination     *)
(* (a reserved block gets a section of its own), real_move copies the      *)
(* bytes, and with RELEASE the source minus the destination's whole blocks *)
(* is released.                                                            *)
(***************************************************************************)
Phys ==
    /\ pc = "phys"
    /\ LET D == Range(ret, size)
           csec == [b \in Blocks |-> IF b \in BlocksOf(D) /\ sec[b] = RESERVED
                                     THEN NB + b ELSE sec[b]]
           moved == [a \in A |-> IF a \in D THEN mem[a - ret + src] ELSE mem[a]]
           reg == Subtract([ptr |-> src, size |-> size], RoundUp(ret), RoundDown(ret + size))
       IN IF td = "release" /\ reg.size # 0
          THEN ReleaseCall(reg.ptr, reg.size, moved, csec)
          ELSE mem' = moved /\ sec' = csec /\ Finish("ok")
    /\ UNCHANGED <<shared, pd, ps>> /\ UNCHANGED Consts

Next == Start \/ LoFirst \/ LoRest \/ HiFirst \/ HiRest \/ Phys

Spec == Init /\ [][Next]_vars

-----------------------------------------------------------------------------

\* A copy that returns holds the source's original bytes at the destination
\* (spec 6, move is move), on the share walk (offsets agree in the block) ...
ShareCopied ==
    result = "ok" /\ ret % G = src % G =>
        \A i \in 0..(size - 1) : mem[ret + i] = mem0[src + i]

\* ... and on the physical copy (offsets differ).
PhysCopied ==
    result = "ok" /\ ret % G # src % G =>
        \A i \in 0..(size - 1) : mem[ret + i] = mem0[src + i]

\* A copy of a committed source into an allocated destination returns: the
\* walk's order never reads a source block it already tore down (FAULT) or
\* writes a destination block that still holds data the copy has not moved
\* away (INTERNAL from AddressSpace::Block::copy, 171-172).
NoError == result \in {"none", "ok"}

\* A copy that returns leaves every byte outside the destination's blocks as
\* it was, except in the source's blocks when RELEASE frees them.
OutsideKept ==
    result = "ok" =>
        \A a \in A :
            /\ BlockOf(a) \notin BlocksOf(Range(ret, size))
            /\ td = "release" => BlockOf(a) \notin BlocksOf(Range(src, size))
            => mem[a] = mem0[a]
=============================================================================
