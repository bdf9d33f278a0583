---------------------------- MODULE MCRendezvous ----------------------------
(* Model values for checking Rendezvous: two instances, the second with a *)
(* new key, and the symmetry of the Client's threads.                      *)
EXTENDS Rendezvous, TLC

CONSTANTS h1, h2, k1, k2

SecondIsNew == h1 :> k1 @@ h2 :> k2
ThreadSymmetry == Permutations(Threads)
=============================================================================
