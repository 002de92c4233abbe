----------------------------- MODULE Directory ------------------------------
(***************************************************************************)
(* The two-level block directory of a 64-bit process (AddressSpace.cpp    *)
(* 533-591): AddressSpace::block, which commits and installs as it looks   *)
(* up, and AddressSpace::allocated_block, which must not.                  *)
(*                                                                         *)
(* m_directory is an array of leaf pointers, reserved and committed a page *)
(* at a time; a leaf is a view of ALLOCATION_GRANULARITY bytes of the      *)
(* directory section (SEC_RESERVE), whose pages of BlockInfo entries are   *)
(* committed one by one.  A block is addressed by its leaf (i0) and the    *)
(* page of the leaf holding its entry; entries of one page are not told    *)
(* apart.  Entry values are NULL or INVALID: allocated_block looks at no   *)
(* more than that.  Every host call and interlocked operation is a step.   *)
(***************************************************************************)
EXTENDS Naturals, FiniteSets

CONSTANTS Threads,
          NLeaves,        \* second-level leaves, i0 in 0..NLeaves-1
          PtrsPerPage,    \* leaf pointers per page of m_directory
          EntryPages,     \* pages of entries per leaf
          Views,          \* view addresses MapViewOfFile may return
          NULL, INVALID,
          WildPointers    \* clients look up blocks they never reserved

Leaves == 0..(NLeaves - 1)
Pages == 0..(EntryPages - 1)
Addrs == Leaves \X Pages
PtrPage(i0) == i0 \div PtrsPerPage

VARIABLES pcommit,   \* pages of m_directory that are committed
          leaf,      \* leaf[i0]: the pointer m_directory[i0]
          vmap,      \* vmap[v]: the leaf a mapped view shows, NULL if unmapped
          ecommit,   \* ecommit[i0][pg]: page pg of the leaf section committed
          entry,     \* BlockInfo::mapping, NULL or non-null
          pc, op, addr,
          p,         \* the local p (a view) of block () / allocated_block ()
          res,       \* what the last lookup returned: found or not
          owned,     \* what each client thread has reserved
          fault      \* an access to memory that is not committed or mapped

vars == <<pcommit, leaf, vmap, ecommit, entry, pc, op, addr, p, res, owned, fault>>

Ops == {"reserve", "release", "check"}

Init ==
    /\ pcommit = {}
    /\ leaf = [i \in Leaves |-> NULL]
    /\ vmap = [v \in Views |-> NULL]
    /\ ecommit = [i \in Leaves |-> [g \in Pages |-> FALSE]]
    /\ entry = [a \in Addrs |-> NULL]
    /\ pc = [t \in Threads |-> "idle"]
    /\ op = [t \in Threads |-> "check"]
    /\ addr = [t \in Threads |-> <<0, 0>>]
    /\ p = [t \in Threads |-> NULL]
    /\ res = [t \in Threads |-> FALSE]
    /\ owned = [t \in Threads |-> {}]
    /\ fault = FALSE

\* The entry page of a has been committed by a reserve of a: only a
\* reserve of a commits it, and release leaves it committed.
Reserved(a) == ecommit[a[1]][a[2]]

Goto(t, l) == pc' = [pc EXCEPT ![t] = l]

\* A client call: reserve looks its block up with block (), release and
\* check_allocated with allocated_block (); clients release only what they
\* reserved, and look up blocks that were reserved at some time (theirs,
\* or released ones) unless WildPointers.
Call(t) ==
    /\ pc[t] = "idle"
    /\ \E o \in Ops, a \in Addrs :
          /\ o = "release" => a \in owned[t]
          /\ o = "check" /\ ~WildPointers => a \in owned[t] \/ Reserved(a)
          /\ o = "reserve" => /\ a \notin UNION {owned[u] : u \in Threads}
                              /\ \A u \in Threads : pc[u] # "idle" => addr[u] # a
          /\ op' = [op EXCEPT ![t] = o]
          /\ addr' = [addr EXCEPT ![t] = a]
          /\ Goto(t, IF o = "reserve" THEN "blk_commit" ELSE "ab_query")
    /\ UNCHANGED <<pcommit, leaf, vmap, ecommit, entry, p, res, owned, fault>>

(***************************************************************************)
(* AddressSpace::block (address).                                          *)
(***************************************************************************)
\* VirtualAlloc (m_directory + i0, MEM_COMMIT), then p = *pp.
blk_commit(t) ==
    LET i0 == addr[t][1] IN
    /\ pc[t] = "blk_commit"
    /\ pcommit' = pcommit \cup {PtrPage(i0)}
    /\ p' = [p EXCEPT ![t] = leaf[i0]]
    /\ Goto(t, IF leaf[i0] = NULL THEN "blk_map" ELSE "blk_entry")
    /\ UNCHANGED <<leaf, vmap, ecommit, entry, op, addr, res, owned, fault>>

\* Mutant: the view is mapped at the offset of the next leaf.
blk_map_offset(t) ==
    /\ pc[t] = "blk_map"
    /\ \/ \E v \in Views :
             /\ vmap[v] = NULL
             /\ vmap' = [vmap EXCEPT ![v] = addr[t][1] + 1]
             /\ p' = [p EXCEPT ![t] = v]
             /\ Goto(t, "blk_cas")
       \/ /\ \A v \in Views : vmap[v] # NULL
          /\ UNCHANGED <<vmap, p>>
          /\ Goto(t, "idle")
    /\ UNCHANGED <<pcommit, leaf, ecommit, entry, op, addr, res, owned, fault>>

\* MapViewOfFile of the leaf's part of the directory section; NO_MEMORY
\* when the host has no address left.
blk_map(t) ==
    /\ pc[t] = "blk_map"
    /\ \/ \E v \in Views :
             /\ vmap[v] = NULL
             /\ vmap' = [vmap EXCEPT ![v] = addr[t][1]]
             /\ p' = [p EXCEPT ![t] = v]
             /\ Goto(t, "blk_cas")
       \/ /\ \A v \in Views : vmap[v] # NULL
          /\ UNCHANGED <<vmap, p>>
          /\ Goto(t, "idle")
    /\ UNCHANGED <<pcommit, leaf, ecommit, entry, op, addr, res, owned, fault>>

\* Mutant: the loser keeps its own view and goes on through it.
blk_cas_keep(t) ==
    LET i0 == addr[t][1] IN
    /\ pc[t] = "blk_cas"
    /\ leaf' = [leaf EXCEPT ![i0] = IF @ = NULL THEN p[t] ELSE @]
    /\ Goto(t, "blk_entry")
    /\ UNCHANGED <<pcommit, vmap, ecommit, entry, op, addr, p, res, owned, fault>>

\* Mutant: the loser tries its CAS again instead of giving up its view.
blk_cas_spin(t) ==
    LET i0 == addr[t][1] IN
    /\ pc[t] = "blk_cas"
    /\ leaf' = [leaf EXCEPT ![i0] = IF @ = NULL THEN p[t] ELSE @]
    /\ Goto(t, IF leaf[i0] = NULL THEN "blk_entry" ELSE "blk_cas")
    /\ UNCHANGED <<pcommit, vmap, ecommit, entry, op, addr, p, res, owned, fault>>

\* InterlockedCompareExchangePointer (pp, p, 0); the loser goes on to
\* unmap its view and take the winner's.
blk_cas(t) ==
    LET i0 == addr[t][1] IN
    /\ pc[t] = "blk_cas"
    /\ leaf' = [leaf EXCEPT ![i0] = IF @ = NULL THEN p[t] ELSE @]
    /\ Goto(t, IF leaf[i0] = NULL THEN "blk_entry" ELSE "blk_unmap")
    /\ UNCHANGED <<pcommit, vmap, ecommit, entry, op, addr, p, res, owned, fault>>

\* Mutant: the loser unmaps its view but goes on with p, not cur.
blk_unmap_nocur(t) ==
    /\ pc[t] = "blk_unmap"
    /\ vmap' = [vmap EXCEPT ![p[t]] = NULL]
    /\ Goto(t, "blk_entry")
    /\ UNCHANGED <<pcommit, leaf, ecommit, entry, op, addr, p, res, owned, fault>>

\* UnmapViewOfFile (p); p = cur.
blk_unmap(t) ==
    /\ pc[t] = "blk_unmap"
    /\ vmap' = [vmap EXCEPT ![p[t]] = NULL]
    /\ p' = [p EXCEPT ![t] = leaf[addr[t][1]]]
    /\ Goto(t, "blk_entry")
    /\ UNCHANGED <<pcommit, leaf, ecommit, entry, op, addr, res, owned, fault>>

\* VirtualAlloc (p + i1, MEM_COMMIT) through the view p.
blk_entry(t) ==
    LET i0 == addr[t][1]
        pg == addr[t][2]
    IN /\ pc[t] = "blk_entry"
       /\ IF vmap[p[t]] = i0
          THEN ecommit' = [ecommit EXCEPT ![i0][pg] = TRUE] /\ UNCHANGED fault
          ELSE fault' = TRUE /\ UNCHANGED ecommit
       /\ Goto(t, "rsv_cas")
       /\ UNCHANGED <<pcommit, leaf, vmap, entry, op, addr, p, res, owned>>

\* reserve: InterlockedCompareExchangePointer (&block (pb).mapping,
\* INVALID_HANDLE_VALUE, 0).  The host hands each reservation an address
\* no one else holds, so here the CAS succeeds; its losing branch is in
\* AddressSpace.tla.
rsv_cas(t) ==
    /\ pc[t] = "rsv_cas"
    /\ entry' = [entry EXCEPT ![addr[t]] = INVALID]
    /\ owned' = [owned EXCEPT ![t] = @ \cup {addr[t]}]
    /\ Goto(t, "idle")
    /\ UNCHANGED <<pcommit, leaf, vmap, ecommit, op, addr, p, res, fault>>

(***************************************************************************)
(* AddressSpace::allocated_block (address), and what its callers do.       *)
(***************************************************************************)
\* VirtualQuery (pp): a leaf pointer on an uncommitted page is no block;
\* then p = *pp, and no leaf is no block either.
ab_query(t) ==
    LET i0 == addr[t][1] IN
    /\ pc[t] = "ab_query"
    /\ IF PtrPage(i0) \in pcommit /\ leaf[i0] # NULL
       THEN p' = [p EXCEPT ![t] = leaf[i0]] /\ Goto(t, "ab_read") /\ UNCHANGED res
       ELSE res' = [res EXCEPT ![t] = FALSE] /\ Goto(t, "idle") /\ UNCHANGED p
    /\ UNCHANGED <<pcommit, leaf, vmap, ecommit, entry, op, addr, owned, fault>>

\* Mutant: p += i1 dropped, the first entry of the leaf is read.
ab_read_noi1(t) ==
    LET i0 == addr[t][1]
        ok == vmap[p[t]] = i0 /\ ecommit[i0][0]
        found == ok /\ entry[<<i0, 0>>] # NULL
    IN /\ pc[t] = "ab_read"
       /\ fault' = (fault \/ ~ok)
       /\ res' = [res EXCEPT ![t] = found]
       /\ Goto(t, IF found /\ op[t] = "release" THEN "rel_xchg" ELSE "idle")
       /\ UNCHANGED <<pcommit, leaf, vmap, ecommit, entry, op, addr, p, owned>>

\* p += i1; if (p && !p->mapping) p = 0: the entry is read through the
\* leaf view, on whatever page of the section holds it.  release goes on to
\* exchange the entry it found.
ab_read(t) ==
    LET i0 == addr[t][1]
        pg == addr[t][2]
        ok == vmap[p[t]] = i0 /\ ecommit[i0][pg]
        found == ok /\ entry[addr[t]] # NULL
    IN /\ pc[t] = "ab_read"
       /\ fault' = (fault \/ ~ok)
       /\ res' = [res EXCEPT ![t] = found]
       /\ Goto(t, IF found /\ op[t] = "release" THEN "rel_xchg" ELSE "idle")
       /\ UNCHANGED <<pcommit, leaf, vmap, ecommit, entry, op, addr, p, owned>>

\* release: InterlockedExchangePointer (&allocated_block (p)->mapping, 0).
rel_xchg(t) ==
    /\ pc[t] = "rel_xchg"
    /\ entry' = [entry EXCEPT ![addr[t]] = NULL]
    /\ owned' = [owned EXCEPT ![t] = @ \ {addr[t]}]
    /\ Goto(t, "idle")
    /\ UNCHANGED <<pcommit, leaf, vmap, ecommit, op, addr, p, res, fault>>

Step(t) ==
    \/ Call(t)
    \/ blk_commit(t) \/ blk_map(t) \/ blk_cas(t) \/ blk_unmap(t) \/ blk_entry(t)
    \/ rsv_cas(t)
    \/ ab_query(t) \/ ab_read(t) \/ rel_xchg(t)

Next == \E t \in Threads : Step(t)

\* Every step but a client's choice to call is the code running on: the
\* host scheduler runs each thread that can run.
Spec == Init /\ [][Next]_vars /\ \A t \in Threads : WF_vars(Step(t) /\ pc[t] # "idle")

(***************************************************************************)
(* Properties.                                                             *)
(***************************************************************************)
TypeOK ==
    /\ pcommit \subseteq {PtrPage(i) : i \in Leaves}
    /\ leaf \in [Leaves -> Views \cup {NULL}]
    /\ vmap \in [Views -> Leaves \cup {NULL}]
    /\ ecommit \in [Leaves -> [Pages -> BOOLEAN]]
    /\ entry \in [Addrs -> {NULL, INVALID}]
    /\ pc \in [Threads -> {"idle", "blk_commit", "blk_map", "blk_cas", "blk_unmap",
                            "blk_entry", "rsv_cas", "ab_query", "ab_read", "rel_xchg"}]
    /\ p \in [Threads -> Views \cup {NULL}]
    /\ owned \in [Threads -> SUBSET Addrs]
    /\ fault \in BOOLEAN

\* Neither block () nor allocated_block () touches directory memory that is
\* not committed, or reads through a leaf view that is not mapped (an
\* access violation in the process).
NoFault == ~fault

\* Every mapped leaf view is the installed leaf of its offset, or is held by
\* a block () call between its MapViewOfFile and the CAS that decides it:
\* the thread that loses the leaf CAS unmaps its own view, the winner's is
\* the one every thread goes on to use.
ViewsAccounted ==
    \A v \in Views : vmap[v] # NULL =>
        \/ leaf[vmap[v]] = v
        \/ \E t \in Threads : p[t] = v /\ pc[t] \in {"blk_cas", "blk_unmap"}

\* allocated_block () finds every block a client holds (spec 8.1): a
\* lookup of an address that was reserved, and not released since, never
\* reports it unallocated, whatever leaf installation ran concurrently.
Found ==
    \A t \in Threads :
        pc[t] = "idle" /\ op[t] = "check" /\ addr[t] \in owned[t] => res[t]

\* Every call returns: block () and allocated_block () wait for nothing.
Termination == \A t \in Threads : pc[t] # "idle" ~> pc[t] = "idle"
=============================================================================
