------------------------------ MODULE MCBackend ------------------------------
(* Three client goroutines share a pool of capacity 2: three Puts in a    *)
(* row overflow it, two fit, and a client finds it empty and dials.      *)
EXTENDS Backend, TLC

CONSTANTS w1, w2, w3

MCClients == {w1, w2, w3}
MCCapacity == 2
MCMaxConns == 4
MCMaxBreaks == 2
\* Clients run the same code and no property names one of them.
Symmetry == Permutations(MCClients)
=============================================================================
