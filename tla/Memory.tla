------------------------------- MODULE Memory -------------------------------
(***************************************************************************)
(* What the memory facade promises its clients (spec 4.3, 4.5, 8), page by *)
(* page: the contents and access of every page of every block, and the     *)
(* client call each step performs.  Byte ranges are rounded as the spec    *)
(* says: commit, read-write protection and copy act on every page a range *)
(* touches; decommit and read-only protection on the pages it covers whole.*)
(* A call that fails (ok = FALSE) changes nothing.                         *)
(***************************************************************************)
EXTENDS Naturals

CONSTANTS Blocks,          \* allocation-granularity blocks
          PagesPerBlock,
          PageSize,        \* bytes per page
          Vals,            \* page contents a client can tell apart
          Zero,            \* contents of a freshly committed page
          NoAccess         \* a page that cannot be read

ASSUME Zero \in Vals /\ NoAccess \notin [acc : {"ro", "rw"}, val : Vals]

Pg == 0..(PagesPerBlock - 1)
Granularity == PagesPerBlock * PageSize

\* A byte range inside one block.
Ranges == {r \in [off : 0..(Granularity - 1), size : 1..Granularity] :
              r.off + r.size <= Granularity}

\* Pages holding at least one byte of r, and pages lying entirely in r.
TouchedPages(r) == {i \in Pg : r.off < (i + 1) * PageSize /\ i * PageSize < r.off + r.size}
WholePages(r) == {i \in Pg : r.off <= i * PageSize /\ (i + 1) * PageSize <= r.off + r.size}

Teardowns == {"none", "decommit", "release"}   \* copy: 0, DECOMMIT, RELEASE

VARIABLES mem,   \* mem[b][i]: NoAccess or [acc, val]
          call   \* the client call of the last step

Event(op, d, s, r, v, ro, td, ok) ==
    [op |-> op, d |-> d, s |-> s, r |-> r, v |-> v, ro |-> ro, td |-> td, ok |-> ok]

Idle == Event("none", CHOOSE b \in Blocks : TRUE, CHOOSE b \in Blocks : TRUE,
              [off |-> 0, size |-> 1], Zero, FALSE, "none", TRUE)

Init == mem = [b \in Blocks |-> [i \in Pg |-> NoAccess]] /\ call = Idle

Acc(ro) == IF ro THEN "ro" ELSE "rw"

\* A store by the client: only a read-write page takes it.
Write(b, i, v) ==
    /\ call' = Event("write", b, b, [off |-> i * PageSize, size |-> 1], v, FALSE, "none", TRUE)
    /\ mem[b][i] # NoAccess /\ mem[b][i].acc = "rw"
    /\ mem' = [mem EXCEPT ![b][i] = [acc |-> "rw", val |-> v]]

\* commit: every touched page is accessible, new ones read-write and zero.
Commit(b, r) ==
    /\ call' = Event("commit", b, b, r, Zero, FALSE, "none", TRUE)
    /\ mem' = [mem EXCEPT ![b] = [i \in Pg |->
                 IF i \in TouchedPages(r) /\ mem[b][i] = NoAccess
                 THEN [acc |-> "rw", val |-> Zero] ELSE mem[b][i]]]

\* decommit: the pages r covers whole become inaccessible.
Decommit(b, r) ==
    /\ call' = Event("decommit", b, b, r, Zero, FALSE, "none", TRUE)
    /\ mem' = [mem EXCEPT ![b] = [i \in Pg |->
                 IF i \in WholePages(r) THEN NoAccess ELSE mem[b][i]]]

\* protect: read-only for the pages r covers whole, read-write for the
\* pages it touches; contents and inaccessible pages stay as they are.
Protect(b, r, ro) ==
    /\ call' = Event("protect", b, b, r, Zero, ro, "none", TRUE)
    /\ LET pages == IF ro THEN WholePages(r) ELSE TouchedPages(r) IN
       mem' = [mem EXCEPT ![b] = [i \in Pg |->
                 IF i \in pages /\ mem[b][i] # NoAccess
                 THEN [mem[b][i] EXCEPT !.acc = Acc(ro)] ELSE mem[b][i]]]

\* copy of r from block s to the same offsets of block d: the touched pages
\* of d hold what s holds, the other pages of d are left alone; the source
\* range is then decommitted, or the whole source block released.
Copy(d, s, r, ro, td) ==
    /\ call' = Event("copy", d, s, r, Zero, ro, td, TRUE)
    /\ d # s
    /\ \A i \in TouchedPages(r) : mem[s][i] # NoAccess
    /\ mem' = [mem EXCEPT
                 ![d] = [i \in Pg |->
                           IF i \in TouchedPages(r)
                           THEN [acc |-> Acc(ro), val |-> mem[s][i].val]
                           ELSE mem[d][i]],
                 ![s] = [i \in Pg |->
                           CASE td = "release" -> NoAccess
                             [] td = "decommit" /\ i \in WholePages(r) -> NoAccess
                             [] OTHER -> mem[s][i]]]

\* Reservation and release of a block, and calls that fail.
Reserve(b) ==
    /\ call' = Event("reserve", b, b, [off |-> 0, size |-> Granularity], Zero, FALSE, "none", TRUE)
    /\ UNCHANGED mem
Release(b) ==
    /\ call' = Event("release", b, b, [off |-> 0, size |-> Granularity], Zero, FALSE, "none", TRUE)
    /\ mem' = [mem EXCEPT ![b] = [i \in Pg |-> NoAccess]]
Fail(op, d, s, r, ro, td) ==
    /\ call' = Event(op, d, s, r, Zero, ro, td, FALSE)
    /\ UNCHANGED mem

Ops == {"write", "commit", "decommit", "protect", "copy", "reserve", "release"}
Events == [op : Ops, d : Blocks, s : Blocks, r : Ranges, v : Vals, ro : BOOLEAN,
           td : Teardowns, ok : BOOLEAN]

\* The step that makes call c.
Step(c) ==
    IF ~c.ok THEN c.op # "write" /\ Fail(c.op, c.d, c.s, c.r, c.ro, c.td)
    ELSE CASE c.op = "write"    -> Write(c.d, c.r.off \div PageSize, c.v)
           [] c.op = "commit"   -> Commit(c.d, c.r)
           [] c.op = "decommit" -> Decommit(c.d, c.r)
           [] c.op = "protect"  -> Protect(c.d, c.r, c.ro)
           [] c.op = "copy"     -> Copy(c.d, c.s, c.r, c.ro, c.td)
           [] c.op = "reserve"  -> Reserve(c.d)
           [] c.op = "release"  -> Release(c.d)

Next == \E c \in Events : Step(c)

Spec == Init /\ [][Next]_<<mem, call>>

=============================================================================
