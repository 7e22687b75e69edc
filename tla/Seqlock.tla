------------------------------ MODULE Seqlock ------------------------------
(***************************************************************************)
(* lib/seqlock.h: the arithmetic of sequence locks.  A position is 0 (not  *)
(* held) or a ticket number 1, 5, 9, ... in an unsigned integer that wraps *)
(* around; the bit SEQLOCK_WAITERS, which says that somebody sleeps on the *)
(* lock, is kept apart as the field w.                                     *)
(***************************************************************************)
EXTENDS Integers

CONSTANT Width      \* bits of seqlock_val_t (32 in the code)

ASSUME WidthAssumption == Width \in Nat /\ Width > 3

Modulus == 2 ^ Width

Incr == 4

Tickets == {n \in 0 .. Modulus - 1 : n % Incr = 1}

Free == [val |-> 0, w |-> FALSE]

HeldAt(val) == [val |-> val, w |-> FALSE]

Held(p) == p.val # 0

\* The distance the code computes, cur - val - 1, in unsigned arithmetic.
Cal(cur, val) == (cur - val - 1 + Modulus) % Modulus

Plus(val) == (val + Incr) % Modulus

\* "returns when sqlo > val || !seqlock_held(sqlo)"
Past(p, val) == ~Held(p) \/ Cal(p.val, val) < Modulus \div 2

\* What seqlock_wait and seqlock_check assert: the two numbers are near.
Near(p, val) ==
    Held(p) => \/ Cal(p.val, val) < Modulus \div 4
               \/ Cal(p.val, val) > 3 * (Modulus \div 4)
=============================================================================
