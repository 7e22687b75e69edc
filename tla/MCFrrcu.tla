------------------------------- MODULE MCFrrcu -------------------------------
EXTENDS Frrcu, TLC

CONSTANTS w1, w2, o1, o2

Uses(m, a, b) == Main :> m @@ w1 :> a @@ w2 :> b

MCUsages == {
    Uses({"lock", "unlock", w1, o1}, {"lock", "unlock", "look"}, {}),
    Uses({"unlock", w1, o1}, {"lock", "unlock", "look", "end"}, {}),
    Uses({"unlock", w1, o1}, {"unlock", "look", o2}, {}),
    Uses({"unlock", w1, o1}, {w2, "look", "end"}, {}),
    Uses({w1, w2, "shutdown"}, {"end"}, {"end"}),
    Uses({w1, o1, "shutdown"}, {"end"}, {})}

MCExitUsages == {Uses({"lock", "unlock", w1, o1}, {"end"}, {})}

MCForeignUsages == {Uses({"unlock", w1, o1}, {"unlock"}, {"foreign", "lock", "look"})}
=============================================================================
