------------------------------ MODULE MC_Block ------------------------------
(* Model values and input sets for checking Block.tla with TLC. *)
EXTENDS Block, TLC

\* Every byte range inside a block of two two-byte pages.
AllRanges == Abs!Ranges

\* Whole-page ranges only.
PageRanges == {r \in Abs!Ranges : r.off % PageSize = 0 /\ r.size % PageSize = 0}

\* The whole block.
WholeBlock == {[off |-> 0, size |-> G]}

\* Handle values are interchangeable.
Symmetry == Permutations(Handles)

\* A committed section page that no block shows to its client: every view
\* of it is decommitted, or private.  No call makes such a page readable
\* again: protection changes only touch accessible pages, a copy needs the
\* source range accessible and decommits the rest of the destination, and
\* a new view is protected by the same call that installs it.
Live(s, i) ==
    \E b \in Blocks : /\ IsHandle(mapping[b]) /\ hsec[mapping[b]] = s
                     /\ Has(MASK_ACCESS, prot[b][i]) /\ ~priv[b][i]

\* States differing only in the last call, or in the contents of pages no
\* one can read, have the same future.
StateView ==
    <<mapping, hsec, prot, priv, pdat, fault,
      [s \in Handles |-> [i \in Pg |->
          IF sdat[s][i] = NoData \/ Live(s, i) THEN sdat[s][i] ELSE "dead"]]>>
\* The queries read protections and handles only, and a page's contents
\* steer a call only by whether the page is committed (NoData): states
\* differing in the values alone have the same queries and the same future.
QueryView ==
    <<mapping, hsec, prot, priv, fault,
      [s \in Handles |-> [i \in Pg |-> sdat[s][i] = NoData]]>>
=============================================================================
