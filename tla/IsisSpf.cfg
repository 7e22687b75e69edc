CONSTANTS
    Parameters <- MCParameters
    max_delay = 4
    min_spf_interval = 3
SPECIFICATION Spec
INVARIANTS TimersMatchState NoTriggerLost SpfDelayBounded
PROPERTIES QuietOnlyAfterHolddown TriggerServed
