----------------------------- MODULE BoundedFifo -----------------------------
(***************************************************************************)
(* What a queue between the main program and an interrupt promises: bytes  *)
(* come out once each and in the order in which they went in; one that     *)
(* finds the queue full is refused.  Bytes are numbered as they go in.     *)
(***************************************************************************)
EXTENDS Integers, Sequences

CONSTANTS Capacity

VARIABLES queue, accepted, item

Init ==
    /\ queue = <<>>
    /\ accepted = 0
    /\ item = 0

Push ==
    /\ Len(queue) < Capacity
    /\ queue' = Append(queue, accepted + 1)
    /\ accepted' = accepted + 1
    /\ UNCHANGED item

Pop ==
    /\ queue # <<>>
    /\ item' = Head(queue)
    /\ queue' = Tail(queue)
    /\ UNCHANGED accepted

Next == Push \/ Pop

Spec == Init /\ [][Next]_<<queue, accepted, item>>
=============================================================================
