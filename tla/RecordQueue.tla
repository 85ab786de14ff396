---------------------------- MODULE RecordQueue ----------------------------
(***************************************************************************)
(* What the secure mailbox (src/src/mailbox.c) promises to the code that   *)
(* posts to it: whole records, delivered one at a time in the order they   *)
(* were accepted, none of them twice.  At most Capacity records wait; a    *)
(* record that finds the mailbox full is lost together with all those that *)
(* wait.  Mailbox.tla is shown to implement this specification.            *)
(***************************************************************************)
EXTENDS Integers, Sequences

CONSTANTS
    Record,     \* records that can be posted
    Capacity    \* records the mailbox holds

VARIABLES
    pending,    \* records accepted and not yet retrieved, oldest first
    inHand,     \* the record the worker has retrieved, <<r>> or <<>>
    delivered   \* records whose dispatch is complete, oldest first

vars == <<pending, inHand, delivered>>

Init == pending = <<>> /\ inHand = <<>> /\ delivered = <<>>

Post(r) ==
    /\ pending' = IF Len(pending) < Capacity THEN Append(pending, r) ELSE <<>>
    /\ UNCHANGED <<inHand, delivered>>

Retrieve ==
    /\ pending # <<>>
    /\ inHand = <<>>
    /\ inHand' = <<Head(pending)>>
    /\ pending' = Tail(pending)
    /\ UNCHANGED delivered

Deliver ==
    /\ inHand # <<>>
    /\ delivered' = delivered \o inHand
    /\ inHand' = <<>>
    /\ UNCHANGED pending

Next == (\E r \in Record : Post(r)) \/ Retrieve \/ Deliver

Spec == Init /\ [][Next]_vars
=============================================================================
