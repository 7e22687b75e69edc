----------------------------- MODULE MCBfdTimed -----------------------------
EXTENDS BfdTimed

MCOther == [p \in Peers |-> CHOOSE q \in Peers : q # p]
MCMult == [p \in Peers |-> 2]
SlowOnly == {<<Slow, Slow>>}
=============================================================================
