--------------------------- MODULE MC_AddressSpace ---------------------------
(* Model-checking instances of AddressSpace: threads and handle values are *)
(* model values; neither is told apart by the code, so both are symmetric. *)
EXTENDS AddressSpace, TLC

CONSTANTS t1, t2, t3, h1, h2, h3

OneThread == {t1}
TwoThreads == {t1, t2}
ThreeThreads == {t1, t2, t3}   \* t3 is the reader: Readers = {t3}
OneHandle == {h1}
TwoHandles == {h1, h2}
ThreeHandles == {h1, h2, h3}

Symmetry == Permutations(TwoThreads) \cup Permutations(ThreeHandles)

\* The locals of a thread that is not in a call are dead: every call writes
\* them before it reads them.  States that differ only there are merged.
Live(t) == IF pc[t] = "idle" THEN <<>>
           ELSE <<req[t], lo[t], hi[t], cur[t], hnd[t], bmbi[t], embi[t], rend[t], seen[t]>>
StateView == <<mapping, os, open, pc, owned, fault, sfault, live, [t \in Threads |-> Live(t)]>>
=============================================================================
