---------------------------- MODULE IsisSpfProofs ---------------------------
(***************************************************************************)
(* The invariants of IsisSpf hold for every set of settings of the delays. *)
(***************************************************************************)
EXTENDS IsisSpf, TLAPS

\* The hold-down timer and the calm since the last trigger add up to holddown.
HolddownMeasuresCalm == Armed(t_holddown) => t_holddown + calm = backoff.holddown

\* A level the area has left has neither a scheduled nor a missing SPF run.
LeftLevelIsIdle == ~level_on => ~Armed(waited) /\ ~Armed(spf_timer)

SpfInv ==
    /\ TypeOK
    /\ TimersMatchState
    /\ NoTriggerLost
    /\ SpfDelayBounded
    /\ HolddownMeasuresCalm
    /\ LeftLevelIsIdle

USE ParametersAssumption, IntervalIsNatural DEF Off, Armed

\* MaxDelay, the bound of SpfDelayBounded, is a natural number no smaller than
\* any delay the scheduler chooses.
LEMMA MaxDelayBounds ==
    /\ MaxDelay \in Nat
    /\ max_delay <= MaxDelay
    /\ min_spf_interval <= MaxDelay
BY DEF MaxDelay, MaxOf

\* Whatever is configured, the fields of the settings are delays.
LEMMA SettingsAreDelays ==
    ASSUME NEW par \in Parameters
    PROVE  /\ par.init_delay \in 0..max_delay
           /\ par.short_delay \in 0..max_delay
           /\ par.long_delay \in 0..max_delay
           /\ par.holddown \in Nat
           /\ par.timetolearn \in Nat
OBVIOUS

\* What spf_backoff_schedule and the min-interval path return lies in
\* 0..MaxDelay.
LEMMA DelayBounds ==
    ASSUME TypeOK
    PROVE  /\ SpfBackoffDelay \in 0..MaxDelay
           /\ MinIntervalDelay \in 0..MaxDelay
<1>1. SpfBackoffDelay \in 0..MaxDelay
  BY MaxDelayBounds, SettingsAreDelays DEF TypeOK, BackoffStates, SpfBackoffDelay
<1>2. MinIntervalDelay \in 0..MaxDelay
  <2>1. SinceLastRun \in Nat
    BY DEF TypeOK, SinceLastRun, Nearer, Trees
  <2> QED
    BY <2>1, MaxDelayBounds DEF MinIntervalDelay
<1> QED
  BY <1>1, <1>2

\* A fresh scheduler satisfies the inductive invariant.
LEMMA SpfInvInit == Init => SpfInv
<1> SUFFICES ASSUME Init
             PROVE  SpfInv
  OBVIOUS
<1>1. TypeOK
  <2>1. ietf \in BOOLEAN /\ level_on \in BOOLEAN /\ force \in BOOLEAN
    BY Zenon DEF Init
  <2> QED
    BY <2>1, MaxDelayBounds
       DEF Init, SpfBackoffNew, TypeOK, BackoffStates, NeverRun
<1>2. TimersMatchState
  BY DEF Init, SpfBackoffNew, TimersMatchState
<1>3. NoTriggerLost /\ SpfDelayBounded
  BY DEF Init, NoTriggerLost, SpfDelayBounded
<1>4. HolddownMeasuresCalm /\ LeftLevelIsIdle
  BY DEF Init, SpfBackoffNew, HolddownMeasuresCalm, LeftLevelIsIdle
<1> QED
  BY <1>1, <1>2, <1>3, <1>4 DEF SpfInv

\* Every step of the scheduler preserves the inductive invariant.
LEMMA SpfInvStep == SpfInv /\ [Next]_vars => SpfInv'
<1> USE MaxDelayBounds, SettingsAreDelays
    DEF SpfInv, TypeOK, TimersMatchState, NoTriggerLost, SpfDelayBounded,
        HolddownMeasuresCalm, LeftLevelIsIdle, BackoffStates, backoffVars,
        ghosts
<1> SUFFICES ASSUME SpfInv, [Next]_vars
             PROVE  SpfInv'
  OBVIOUS
<1>1. CASE IsisSpfSchedule
  <2>1. CASE ietf /\ SpfBackoffSchedule
    BY <1>1, <2>1, DelayBounds
       DEF IsisSpfSchedule, Triggered, Delay, SpfBackoffSchedule, AddTimer, MaxOf
  <2>2. CASE ~ietf
    BY <1>1, <2>2, DelayBounds
       DEF IsisSpfSchedule, Triggered, Delay, AddTimer, MaxOf
  <2> QED
    BY <1>1, <2>1, <2>2 DEF IsisSpfSchedule, Triggered
<1>2. CASE IsisRunSpf
  BY <1>2 DEF IsisRunSpf
<1>3. CASE BackoffTimer
  BY <1>3 DEF BackoffTimer, TimeToLearnElapsed, HolddownElapsed
<1>4. CASE ConfigureIetfDelay
  <2>1. ietf' \in BOOLEAN /\ ietf'
    BY <1>4, Zenon DEF ConfigureIetfDelay
  <2> QED
    BY <1>4, <2>1 DEF ConfigureIetfDelay, SpfBackoffReset
<1>5. CASE DestroyIetfDelay
  <2>1. ietf' \in BOOLEAN /\ ~ietf'
    BY <1>5, Zenon DEF DestroyIetfDelay
  <2> QED
    BY <1>5, <2>1 DEF DestroyIetfDelay, SpfBackoffReset
<1>6. CASE AreaResignLevel
  <2>1. level_on' \in BOOLEAN /\ ~level_on'
    BY <1>6, Zenon DEF AreaResignLevel
  <2>2. CASE ietf /\ SpfBackoffSchedule /\ calm' = 0 /\ UNCHANGED force
    BY <1>6, <2>1, <2>2 DEF AreaResignLevel, SpfBackoffSchedule, AddTimer, NeverRun
  <2>3. CASE UNCHANGED backoffVars /\ force' \in BOOLEAN /\ calm' \in {0, calm}
             /\ (~ietf \/ UNCHANGED calm)
    BY <1>6, <2>1, <2>3 DEF AreaResignLevel, NeverRun
  <2>4. force' \in BOOLEAN
    BY <1>6 DEF AreaResignLevel, Triggered
  <2> QED
    BY <1>6, <2>2, <2>3, <2>4 DEF AreaResignLevel, Triggered
<1>7. CASE AreaJoinLevel
  BY <1>7 DEF AreaJoinLevel
<1>8. CASE BfdSignalledDown
  BY <1>8 DEF BfdSignalledDown
<1>9. CASE CircuitAfSet
  BY <1>9 DEF CircuitAfSet
<1>10. CASE Tick
  BY <1>10 DEF Tick, RunDown, Older, MinOf
<1>11. CASE UNCHANGED vars
  BY <1>11 DEF vars
<1> QED
  BY <1>1, <1>2, <1>3, <1>4, <1>5, <1>6, <1>7, <1>8, <1>9, <1>10, <1>11
     DEF Next

\* The inductive invariant holds in every behaviour.
LEMMA SpfInvHolds == Spec => []SpfInv
BY SpfInvInit, SpfInvStep, PTL DEF Spec

\* For all delays: the two timers of a back-off object and its state agree, across
\* spf_backoff_schedule, the two expiries and reconfiguration.
THEOREM SpfTimers == Spec => []TimersMatchState
<1>1. SpfInv => TimersMatchState
  BY DEF SpfInv
<1> QED
  BY SpfInvHolds, <1>1, PTL

\* For all delays: a trigger of _isis_spf_schedule that no run has served has a
\* run scheduled for it, whatever is reconfigured meanwhile.
THEOREM SpfTriggers == Spec => []NoTriggerLost
<1>1. SpfInv => NoTriggerLost
  BY DEF SpfInv
<1> QED
  BY SpfInvHolds, <1>1, PTL

\* For all delays: no trigger of _isis_spf_schedule waits longer than the largest
\* configured delay.
THEOREM SpfSafety == Spec => [](TypeOK /\ SpfDelayBounded)
<1>1. SpfInv => TypeOK /\ SpfDelayBounded
  BY DEF SpfInv
<1> QED
  BY SpfInvHolds, <1>1, PTL

\* For all delays: spf_backoff_holddown_elapsed makes the object QUIET only
\* after holddown ticks without a trigger.
THEOREM SpfQuiet == Spec => QuietOnlyAfterHolddown
<1>1. SpfInv /\ [Next]_vars
        => [state # "QUIET" /\ state' = "QUIET" /\ HolddownElapsed
              => calm = backoff.holddown]_vars
  BY DEF SpfInv, TypeOK, HolddownMeasuresCalm, HolddownElapsed
<1> QED
  BY SpfInvHolds, <1>1, PTL DEF Spec, QuietOnlyAfterHolddown
=============================================================================
