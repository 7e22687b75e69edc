----------------------------- MODULE SpfBackoff -----------------------------
(***************************************************************************)
(* lib/spf_backoff.c: the IETF SPF delay algorithm.  One back-off object   *)
(* has a three-valued state and two timers.  A timer is the number of      *)
(* ticks until its handler is due, Off when its event pointer is NULL.     *)
(*                                                                         *)
(* The module gives the operations of the library as actions over its own  *)
(* variables; IsisSpf composes them with the SPF scheduler that calls them *)
(***************************************************************************)
EXTENDS Integers

CONSTANTS
    Parameters,     \* the settings that can be configured, each a record of
                    \* what spf_backoff_new is given
    max_delay       \* the largest SPF delay among them

\* The settings of an object:
\*   init_delay     delay of the first SPF after a quiet period
\*   short_delay    delay while the state is SHORT_WAIT
\*   long_delay     delay while the state is LONG_WAIT
\*   holddown       calm needed before the object is QUIET again
\*   timetolearn    longest stay in SHORT_WAIT
ASSUME ParametersAssumption ==
    /\ Parameters \subseteq [init_delay : Nat, short_delay : Nat, long_delay : Nat,
                             holddown : Nat, timetolearn : Nat]
    /\ max_delay \in Nat
    /\ \A par \in Parameters : /\ par.init_delay <= max_delay
                              /\ par.short_delay <= max_delay
                              /\ par.long_delay <= max_delay
    /\ \E par \in Parameters :
          max_delay \in {par.init_delay, par.short_delay, par.long_delay}

VARIABLES
    backoff,        \* the settings in backoff->init_delay, ...
    state,          \* backoff->state
    t_holddown,     \* backoff->t_holddown
    t_timetolearn   \* backoff->t_timetolearn

backoffVars == <<backoff, state, t_holddown, t_timetolearn>>

Off == -1

BackoffStates == {"QUIET", "SHORT_WAIT", "LONG_WAIT"}

Armed(timer) == timer # Off

\* event_add_timer_msec leaves a timer that is already scheduled alone.
AddTimer(timer, msec) == IF Armed(timer) THEN timer ELSE msec

-----------------------------------------------------------------------------
SpfBackoffNew ==
    /\ backoff \in Parameters
    /\ state = "QUIET"
    /\ t_holddown = Off
    /\ t_timetolearn = Off

\* spf_backoff_free followed by spf_backoff_new, or by a NULL pointer.
SpfBackoffReset ==
    /\ state' = "QUIET"
    /\ t_holddown' = Off
    /\ t_timetolearn' = Off

\* The delay spf_backoff_schedule returns in the current state.
SpfBackoffDelay ==
    CASE state = "QUIET"      -> backoff.init_delay
      [] state = "SHORT_WAIT" -> backoff.short_delay
      [] state = "LONG_WAIT"  -> backoff.long_delay

\* Seeded fault: an instability does not restart the hold-down timer.
SpfBackoffSchedule_NoRestart ==
    /\ state' = IF state = "QUIET" THEN "SHORT_WAIT" ELSE state
    /\ t_timetolearn' = IF state = "QUIET" THEN backoff.timetolearn ELSE t_timetolearn
    /\ t_holddown' = AddTimer(t_holddown, backoff.holddown)
    /\ UNCHANGED backoff

SpfBackoffSchedule ==
    /\ \/ /\ state = "QUIET"
          /\ state' = "SHORT_WAIT"
          /\ t_timetolearn' = AddTimer(t_timetolearn, backoff.timetolearn)
          /\ t_holddown' = AddTimer(t_holddown, backoff.holddown)
       \/ /\ state # "QUIET"
          /\ t_holddown' = backoff.holddown
          /\ UNCHANGED <<state, t_timetolearn>>
    /\ UNCHANGED backoff

TimeToLearnElapsed ==
    /\ t_timetolearn = 0
    /\ t_timetolearn' = Off
    /\ state' = "LONG_WAIT"
    /\ UNCHANGED <<backoff, t_holddown>>

\* Seeded fault: the time-to-learn timer survives the return to QUIET.
HolddownElapsed_KeepsTimeToLearn ==
    /\ t_holddown = 0
    /\ t_holddown' = Off
    /\ state' = "QUIET"
    /\ UNCHANGED <<backoff, t_timetolearn>>

HolddownElapsed ==
    /\ t_holddown = 0
    /\ t_holddown' = Off
    /\ t_timetolearn' = Off
    /\ state' = "QUIET"
    /\ UNCHANGED backoff
=============================================================================
