---------------------------- MODULE MC_Directory ----------------------------
(***************************************************************************)
(* Directory.tla instantiated for TLC: two client threads, two leaves of  *)
(* two entry pages, and two view addresses, so that two threads race to   *)
(* install one leaf while MapViewOfFile may run out of addresses.          *)
(***************************************************************************)
EXTENDS Directory

CONSTANTS t1, t2, v1, v2

MCThreads == {t1, t2}
MCViews == {v1, v2}

\* An idle thread's locals are dead but for the answer of its last
\* lookup, which Found reads: states that differ only there are one.
StateView ==
    <<pcommit, leaf, vmap, ecommit, entry, owned, fault,
      [t \in Threads |-> IF pc[t] = "idle"
                         THEN <<"idle", op[t] = "check" /\ addr[t] \in owned[t] => res[t]>>
                         ELSE <<pc[t], op[t], addr[t], p[t], res[t]>>]>>
=============================================================================
