---------------------------- MODULE AtomicConfig ----------------------------
(***************************************************************************)
(* What mgmtd promises about the configuration it distributes, without its *)
(* messages, phases, locks or connections.  A transaction is opened with a *)
(* change; it ends either applied or dropped and its fate is final.  The   *)
(* running datastore and the daemons (backends) change their configuration *)
(* only by the change of an applied transaction: never by one that is      *)
(* still open, never by one that was dropped.                              *)
(***************************************************************************)
EXTENDS Naturals

CONSTANTS
  Backends,   \* the daemons that take their configuration from mgmtd
  Items,      \* configuration data nodes
  Interest,   \* Interest[b]: the nodes backend b subscribed to
  TxnIds      \* transaction identifiers

VARIABLES
  running,    \* the running datastore
  fate,       \* fate[t]: "idle", "open", "applied" or "dropped"
  change,     \* change[t]: the nodes transaction t sets and deletes
  cfg         \* cfg[b]: the configuration backend b runs

avars == <<running, fate, change, cfg>>

Change == [set : SUBSET Items, del : SUBSET Items]

NoChange == [set |-> {}, del |-> {}]

Patch(c, ch) == (c \cup ch.set) \ ch.del

Narrow(ch, S) == [set |-> ch.set \cap S, del |-> ch.del \cap S]

AInit ==
  /\ running = {}
  /\ fate = [t \in TxnIds |-> "idle"]
  /\ change = [t \in TxnIds |-> NoChange]
  /\ cfg = [b \in Backends |-> {}]

(***************************************************************************)
(* mgmtd opens transactions and settles open ones; it may take one applied *)
(* change into the running datastore.                                      *)
(***************************************************************************)
Coordinate ==
  /\ \A t \in TxnIds :
       fate[t] \in {"applied", "dropped"} => fate'[t] = fate[t]
  /\ \A t \in TxnIds : fate[t] # "idle" =>
       fate'[t] # "idle" /\ change'[t] = change[t]
  /\ \/ running' = running
     \/ \E t \in TxnIds :
          fate'[t] = "applied" /\ running' = Patch(running, change'[t])
  /\ UNCHANGED cfg

Apply(b) ==
  /\ \E t \in TxnIds :
       /\ fate[t] = "applied"
       /\ cfg' = [cfg EXCEPT ![b] = Patch(@, Narrow(change[t], Interest[b]))]
  /\ UNCHANGED <<running, fate, change>>

Restart(b) ==
  /\ cfg' = [cfg EXCEPT ![b] = {}]
  /\ UNCHANGED <<running, fate, change>>

ANext ==
  \/ Coordinate
  \/ \E b \in Backends : Apply(b) \/ Restart(b)

ASpec == AInit /\ [][ANext]_avars

=============================================================================
