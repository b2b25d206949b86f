----------------------------- MODULE MCTunnelChain -----------------------------
EXTENDS TunnelChain, TLC
CONSTANTS a, b, c, p, w
MCNames == {a, b, c}
MCProcs == {p}
MCWarm  == {w}
Symmetry == Permutations(Names)
=============================================================================
