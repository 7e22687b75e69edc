----------------------------- MODULE MCAtomlist -----------------------------
EXTENDS Atomlist, TLC

CONSTANTS a, b, c, t1, t2, t3

\* b goes before a, and c compares equal to a.
MCRank == a :> 2 @@ b :> 1 @@ c :> 2

MCUsages == {{"add_head", "add_tail", "del"},
             {"add_tail", "del", "each"},
             {"add_tail", "del"},
             {"add_head", "pop"},
             {"add_tail", "pop"},
             {"add_tail", "sweep"},
             {"sort_add", "del", "each"},
             {"sort_add", "pop"}}

\* One item, so that two additions can race with its deletion, or none, so that
\* a third addition can follow them.
MCFill == [u \in MCUsages |-> IF u = {"add_tail", "del"} THEN <<>> ELSE <<a>>]

=============================================================================
