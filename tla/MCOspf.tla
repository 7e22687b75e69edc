------------------------------- MODULE MCOspf -------------------------------
EXTENDS OspfAdjacency

\* A router-LSA each, and an external LSA of router 1, which is the slave.
MCOwner == <<1, 2, 1>>

\* One fault; or one hurry and one new instance, in either order.
MCMixes == {<<0, 0, 0>>, <<1, 0, 0>>, <<0, 1, 0>>, <<0, 0, 1>>, <<0, 1, 1>>}

\* Exchanges start near the end of the DD numbers and wrap.
MCRandoms == <<<<3, 6, 2, 5, 1>>, <<7, 4, 5, 2, 1>>>>
=============================================================================
