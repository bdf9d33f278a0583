---------------------------- MODULE LossyChannel ----------------------------
(***************************************************************************)
(* What the direction to the host promises.  The client goes on with a     *)
(* connection after a write has failed, so messages may be missing; but    *)
(* those that arrive are in the order they were submitted, none comes      *)
(* twice or from nowhere, and one is missing only after a failed write and *)
(* only where the keys were rotated.  Nothing arrives after a drop.        *)
(***************************************************************************)
EXTENDS Naturals, Sequences

CONSTANT LastEpoch   \* the largest epoch

VARIABLES sent,   \* number of messages submitted
          got,    \* messages delivered, in order, with the epochs they came in
          fault,  \* a write has failed
          up      \* the receiver still takes messages

Last == IF Len(got) = 0 THEN [body |-> 0, epoch |-> 0] ELSE got[Len(got)]

Init == sent = 0 /\ got = <<>> /\ fault = FALSE /\ up = TRUE

Submit == sent' = sent + 1 /\ fault' \in {fault, TRUE} /\ UNCHANGED <<got, up>>

Fail == fault' = TRUE /\ UNCHANGED <<sent, got, up>>

Deliver ==
    /\ up
    /\ \E b \in Last.body + 1 .. sent, e \in Last.epoch .. LastEpoch :
          /\ b = Last.body + 1 \/ (fault /\ e > Last.epoch)
          /\ got' = Append(got, [body |-> b, epoch |-> e])
    /\ UNCHANGED <<sent, fault, up>>

Drop == up' = FALSE /\ UNCHANGED <<sent, got, fault>>

Next == Submit \/ Fail \/ Deliver \/ Drop

Spec == Init /\ [][Next]_<<sent, got, fault, up>>
=============================================================================
