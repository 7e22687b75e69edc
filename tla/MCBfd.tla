------------------------------- MODULE MCBfd --------------------------------
EXTENDS Bfd, TLC

MCOther == [p \in Peers |-> CHOOSE q \in Peers : q # p]
MCMult == [p \in Peers |-> 2]

SlowOnly == {<<Slow, Slow>>}
FastAndSlow == {<<1, 1>>, <<Slow, Slow>>}

\* Nothing distinguishes the two peers or the clients of one.
Symmetry == Permutations(Peers) \union Permutations(Clients)
=============================================================================
