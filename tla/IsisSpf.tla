------------------------------- MODULE IsisSpf ------------------------------
(***************************************************************************)
(* The SPF scheduler of one level of an IS-IS area (isisd/isis_spf.c,      *)
(* _isis_spf_schedule and isis_run_spf_cb) on top of the SPF back-off      *)
(* library, with the operations that change its configuration under it:    *)
(* configuring and removing the IETF delay, and leaving the level.         *)
(*                                                                         *)
(* Time advances by ticks, and only while no timer is due: the event loop  *)
(* runs every due handler, in any order, before it sleeps again.           *)
(***************************************************************************)
EXTENDS SpfBackoff

CONSTANT min_spf_interval   \* area->min_spf_interval[level - 1]

ASSUME IntervalIsNatural == min_spf_interval \in Nat

VARIABLES
    ietf,       \* area->spf_delay_ietf[level - 1] is not NULL
    level_on,   \* area->is_type & level
    force,      \* area->bfd_force_spf_refresh
    families,   \* trees isis_run_spf_cb computes: those with circuits
    spf_timer,  \* area->spf_timer[level - 1]
    last_run,   \* age of the last run of each tree, up to min_spf_interval, or Off
    waited,     \* ghost: age of the oldest trigger no run has served yet, or Off
    calm        \* ghost: ticks since the last trigger, up to backoff.holddown

ghosts == <<waited, calm>>
vars == <<backoffVars, ietf, level_on, force, families,
          spf_timer, last_run, waited, calm>>

Trees == {"IPV4", "IPV6", "DSTSRC"}

\* Destination-source routing needs IPv6 circuits.
Families == {F \in SUBSET Trees : "DSTSRC" \in F => "IPV6" \in F}

NeverRun == [tree \in Trees |-> Off]

MinOf(a, b) == IF a < b THEN a ELSE b
MaxOf(a, b) == IF a > b THEN a ELSE b

Init ==
    /\ SpfBackoffNew
    /\ ietf \in BOOLEAN
    /\ level_on = TRUE
    /\ force = FALSE
    /\ families \in Families
    /\ spf_timer = Off
    /\ last_run = NeverRun
    /\ waited = Off
    /\ calm = backoff.holddown

-----------------------------------------------------------------------------
\* The loop over the trees that looks for the most recent run.  Trees that
\* never ran are skipped, and a diff of 0 counts as "no run seen so far".
Nearer(diff, tree) ==
    IF Armed(last_run[tree]) /\ (diff = 0 \/ last_run[tree] < diff)
    THEN last_run[tree]
    ELSE diff

SinceLastRun == Nearer(Nearer(Nearer(0, "IPV4"), "IPV6"), "DSTSRC")

\* Delay without the IETF algorithm.
MinIntervalDelay ==
    IF SinceLastRun >= min_spf_interval \/ force
    THEN 0
    ELSE min_spf_interval - SinceLastRun

\* What _isis_spf_schedule does besides arming the SPF timer, and the delay it
\* arms it with.
Triggered ==
    /\ \/ /\ ietf
          /\ SpfBackoffSchedule
          /\ UNCHANGED force
       \/ /\ ~ietf
          /\ force' = (force /\ Armed(spf_timer))
          /\ UNCHANGED backoffVars
    /\ calm' = 0

Delay == IF ietf THEN SpfBackoffDelay ELSE MinIntervalDelay

\* Seeded fault: a trigger re-arms an SPF timer that is already running.
IsisSpfSchedule_Rearm ==
    /\ level_on
    /\ Triggered
    /\ spf_timer' = Delay
    /\ waited' = MaxOf(waited, 0)
    /\ UNCHANGED <<ietf, level_on, families, last_run>>

\* _isis_spf_schedule: some LSP of the level was added, changed or removed.
IsisSpfSchedule ==
    /\ level_on
    /\ Triggered
    /\ spf_timer' = AddTimer(spf_timer, Delay)
    /\ waited' = MaxOf(waited, 0)
    /\ UNCHANGED <<ietf, level_on, families, last_run>>

\* isis_run_spf_cb.  A level the area has left is not computed.
IsisRunSpf ==
    /\ spf_timer = 0
    /\ spf_timer' = Off
    /\ last_run' = [tree \in Trees |->
                      IF level_on /\ tree \in families THEN 0
                                                      ELSE last_run[tree]]
    /\ waited' = IF level_on THEN Off ELSE waited
    /\ UNCHANGED <<backoffVars, ietf, level_on, force, families, calm>>

BackoffTimer ==
    /\ TimeToLearnElapsed \/ HolddownElapsed
    /\ UNCHANGED <<ietf, level_on, force, families, spf_timer, last_run,
                   ghosts>>

\* Seeded fault: new parameters drop a run that is already scheduled.
ConfigureIetfDelay_CancelsSpf ==
    /\ SpfBackoffReset
    /\ backoff' \in Parameters
    /\ ietf' = TRUE
    /\ spf_timer' = Off
    /\ UNCHANGED <<level_on, force, families, last_run, ghosts>>

\* ietf_backoff_delay_apply_finish, also for a change of the parameters: a new
\* object takes the place of the old one, while the SPF timer keeps running.
ConfigureIetfDelay ==
    /\ SpfBackoffReset
    /\ backoff' \in Parameters
    /\ ietf' = TRUE
    /\ UNCHANGED <<level_on, force, families, spf_timer, last_run,
                   ghosts>>

DestroyIetfDelay ==
    /\ ietf
    /\ SpfBackoffReset
    /\ ietf' = FALSE
    /\ UNCHANGED <<backoff, level_on, force, families, spf_timer, last_run,
                   ghosts>>

\* area_resign_level: the LSP database, the SPF trees and the SPF timer of
\* the level go away, the back-off object stays.  Every LSP that is destroyed
\* triggers it first, for the area has not left the level yet; a second trigger
\* at the same moment changes nothing.
AreaResignLevel ==
    /\ level_on
    /\ level_on' = FALSE
    /\ \/ Triggered
       \/ UNCHANGED <<backoffVars, force, calm>>    \* no LSP in the database
    /\ spf_timer' = Off
    /\ last_run' = NeverRun
    /\ waited' = Off
    /\ UNCHANGED <<ietf, families>>

AreaJoinLevel ==
    /\ ~level_on
    /\ level_on' = TRUE
    /\ UNCHANGED <<backoffVars, ietf, force, families, spf_timer, last_run,
                   ghosts>>

\* _lsp_regenerate_schedule after BFD signalled a neighbour down.
BfdSignalledDown ==
    /\ level_on
    /\ force' = TRUE
    /\ UNCHANGED <<backoffVars, ietf, level_on, families, spf_timer, last_run,
                   ghosts>>

\* isis_circuit_af_set: circuits gain or lose an address family.  The trees
\* of a lost family keep their last run.
CircuitAfSet ==
    /\ families' \in Families \ {families}
    /\ UNCHANGED <<backoffVars, ietf, level_on, force, spf_timer, last_run,
                   ghosts>>

Older(age, limit) == IF Armed(age) THEN MinOf(age + 1, limit) ELSE Off
RunDown(timer) == IF Armed(timer) THEN timer - 1 ELSE Off

\* The longest delay any path of the scheduler can choose.
MaxDelay == MaxOf(max_delay, min_spf_interval)

Tick ==
    /\ spf_timer # 0
    /\ t_holddown # 0
    /\ t_timetolearn # 0
    /\ spf_timer' = RunDown(spf_timer)
    /\ t_holddown' = RunDown(t_holddown)
    /\ t_timetolearn' = RunDown(t_timetolearn)
    /\ last_run' = [tree \in Trees |-> Older(last_run[tree], min_spf_interval)]
    /\ waited' = Older(waited, MaxDelay + 1)
    /\ calm' = MinOf(calm + 1, backoff.holddown)
    /\ UNCHANGED <<backoff, state, ietf, level_on, force, families>>

Next ==
    \/ IsisSpfSchedule
    \/ IsisRunSpf
    \/ BackoffTimer
    \/ ConfigureIetfDelay
    \/ DestroyIetfDelay
    \/ AreaResignLevel
    \/ AreaJoinLevel
    \/ BfdSignalledDown
    \/ CircuitAfSet
    \/ Tick

\* Time passes and the event loop runs its due timers.
Fairness ==
    /\ WF_vars(Tick)
    /\ WF_vars(IsisRunSpf)
    /\ WF_vars(BackoffTimer)

Spec == Init /\ [][Next]_vars /\ Fairness

-----------------------------------------------------------------------------
TypeOK ==
    /\ backoff \in Parameters
    /\ state \in BackoffStates
    /\ t_holddown \in Off..backoff.holddown
    /\ t_timetolearn \in Off..backoff.timetolearn
    /\ ietf \in BOOLEAN
    /\ level_on \in BOOLEAN
    /\ force \in BOOLEAN
    /\ spf_timer \in Off..MaxDelay
    /\ families \in Families
    /\ last_run \in [Trees -> Off..min_spf_interval]
    /\ waited \in Off..MaxDelay + 1
    /\ calm \in Nat

\* The state of a back-off object and its two timers agree: QUIET exactly when
\* the hold-down timer is stopped, and only SHORT_WAIT has a time-to-learn
\* timer (spf_backoff_holddown_elapsed must cancel it, or a stale expiry would
\* move a quiet object to LONG_WAIT).
TimersMatchState ==
    /\ state = "QUIET" <=> ~Armed(t_holddown)
    /\ state = "SHORT_WAIT" <=> Armed(t_timetolearn)
    /\ ~ietf => state = "QUIET"

\* A change of the link-state database that no SPF run has seen has an SPF run
\* scheduled for it, across reconfigurations of the delay and level changes.
NoTriggerLost == Armed(waited) => Armed(spf_timer)

\* ... and that run comes at most MaxDelay after the first trigger it serves:
\* later triggers restart the hold-down timer, never the SPF timer.
SpfDelayBounded == Armed(waited) => waited + spf_timer <= MaxDelay

\* The algorithm forgets an instability only after holddown ticks without a
\* trigger, or when it is reconfigured.
QuietOnlyAfterHolddown ==
    [][state # "QUIET" /\ state' = "QUIET" /\ HolddownElapsed
          => calm = backoff.holddown]_vars

\* "wait configured min_spf_interval before doing the SPF": a run scheduled
\* without the IETF algorithm and without a BFD signal comes no earlier than
\* min_spf_interval after the last run of any tree.
MinIntervalKept ==
    [][~ietf /\ ~force /\ ~Armed(spf_timer) /\ Armed(spf_timer')
          => \A tree \in Trees :
                Armed(last_run[tree])
                   => last_run[tree] + spf_timer' >= min_spf_interval]_vars

\* Every database change is eventually served by an SPF run (or by the level
\* being left), however fast triggers keep arriving.
TriggerServed == Armed(waited) ~> ~Armed(waited)
=============================================================================
