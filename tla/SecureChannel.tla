--------------------------- MODULE SecureChannel ---------------------------
(***************************************************************************)
(* What one direction of a session promises its user: messages are         *)
(* delivered in the order they were submitted, none is skipped, repeated   *)
(* or invented, and once the receiver has dropped the connection nothing   *)
(* is delivered any more.  A connection may be dropped at any time, so a   *)
(* submitted message need not arrive.                                      *)
(***************************************************************************)
EXTENDS Naturals, Sequences

VARIABLES sent,  \* messages submitted, in order
          got,   \* messages delivered, in order
          up     \* the receiver still takes messages

Init == sent = <<>> /\ got = <<>> /\ up = TRUE

Submit ==
    /\ Len(sent') = Len(sent) + 1
    /\ \A i \in 1..Len(sent) : sent'[i] = sent[i]
    /\ UNCHANGED <<got, up>>

Deliver ==
    /\ up /\ Len(got) < Len(sent)
    /\ got' = Append(got, sent[Len(got) + 1])
    /\ UNCHANGED <<sent, up>>

Drop == up' = FALSE /\ UNCHANGED <<sent, got>>

Next == Submit \/ Deliver \/ Drop

Spec == Init /\ [][Next]_<<sent, got, up>>
=============================================================================
