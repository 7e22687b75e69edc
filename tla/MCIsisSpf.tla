------------------------------ MODULE MCIsisSpf -----------------------------
EXTENDS IsisSpf

\* Settings in which calm comes before the time to learn has passed, and after.
Settings(init, short, long, hold, learn) ==
    [init_delay |-> init, short_delay |-> short, long_delay |-> long,
     holddown |-> hold, timetolearn |-> learn]

MCParameters == {Settings(1, 2, 4, 3, 4), Settings(0, 1, 2, 3, 2)}
=============================================================================
