------------------------------ MODULE MCAccess ------------------------------
(* Values for checking Access: two connections of one peer, an endpoint the *)
(* user is asked about, and one behind a credential that expires.          *)
EXTENDS Access, TLC

CONSTANTS c1, c2, p1, u1

SamePeer == c1 :> p1 @@ c2 :> p1
SameUid  == c1 :> u1 @@ c2 :> u1
TwoTiers == "ask" :> "PromptUser" @@ "cert" :> "Certificate"
Expiring == {[peer |-> p1, scope |-> {"cert"}, expires |-> 1]}
ConnSymmetry == Permutations(Conns)
=============================================================================
