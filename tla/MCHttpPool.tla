----------------------------- MODULE MCHttpPool -----------------------------
\* HttpPool for TLC: few handlers and connections, each with its own input.
EXTENDS HttpPoolRefinement, TLC

CONSTANTS c1, c2, c3

\* One piece of input from two clients; the third client is silent.
OnePieceEach == (c1 :> 1) @@ (c2 :> 1) @@ (c3 :> 0)

\* One client pipelines two pieces of input, the other one is silent.
TwoPieces == (c1 :> 2) @@ (c2 :> 0)

Symmetry == Permutations(Handlers)
=============================================================================
