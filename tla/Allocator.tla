----------------------------- MODULE Allocator -----------------------------
(***************************************************************************)
(* What mem.h promises of the driver's own heap: an allocation is a run of *)
(* bytes at least as long as asked for, aligned as asked for, inside the   *)
(* memory of the heap, that shares no byte with another allocation until   *)
(* it is freed.  When an allocation may be refused is left open.           *)
(***************************************************************************)
EXTENDS Integers

CONSTANTS Extent,       \* the addresses the heap may hand out
          Sizes,        \* what may be asked for
          Alignments    \* powers of two; 1 when none is asked for

VARIABLE allocs         \* allocs[p]: size and align asked for at address p

Bytes(p, n) == p .. p + n - 1

Init == allocs = <<>>

Alloc ==
    \E n \in Sizes \ {0}, al \in Alignments, p \in Extent :
        /\ p % al = 0
        /\ Bytes(p, n) \subseteq Extent
        /\ \A q \in DOMAIN allocs : Bytes(p, n) \cap Bytes(q, allocs[q].size) = {}
        /\ allocs' = [q \in DOMAIN allocs \cup {p} |->
                        IF q = p THEN [size |-> n, align |-> al] ELSE allocs[q]]

Free ==
    \E p \in DOMAIN allocs : allocs' = [q \in DOMAIN allocs \ {p} |-> allocs[q]]

Reset == allocs' = <<>>

Next == Alloc \/ Free \/ Reset

Spec == Init /\ [][Next]_allocs
=============================================================================
