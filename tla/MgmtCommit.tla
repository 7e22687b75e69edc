----------------------------- MODULE MgmtCommit -----------------------------
(***************************************************************************)
(* mgmtd distributing configuration to the daemons: front-end sessions     *)
(* that lock, edit and commit, the commit transaction of MgmtTxn, and the  *)
(* backend library (lib/mgmt_be_client.c) in every daemon.                 *)
(*                                                                         *)
(* A connection is two first-in first-out sockets.  Closing it appends EOF *)
(* to what was written; the reader may find EOF before it has read what    *)
(* precedes it, which is then lost.                                        *)
(***************************************************************************)
EXTENDS MgmtTxn

CONSTANTS
  Disturbances, \* the faults and client behaviours allowed
  MaxCommits,   \* bound on the requests of sessions and of the operator
  MaxFaults,    \* bound on refusals, losses, restarts and timeouts
  Targets,      \* the configurations sessions edit the candidate to
  FirstUp,      \* backends already connected and served: running is empty
  FirstRecords  \* the commit history mgmtd read when it started

ASSUME CommitAssumption ==
  /\ Targets \subseteq SUBSET Items
  /\ FirstUp \subseteq Backends
  /\ FirstRecords \in Seq(SUBSET Items)

VARIABLES
  m,        \* mgmtd and the sockets, see MgmtTxn
  be,       \* be[b]: connected?, running configuration, config_txn
  survived, \* backends that kept their configuration over a reconnection
  requests, \* requests made so far
  faults    \* faults met so far

vars == <<m, be, survived, requests, faults>>

NoTxn == [id |-> 0, candidate |-> {}]

Init ==
  /\ m = [running |-> {}, candidate |-> {},
          locked |-> [ds \in DataStores |-> "nobody"],
          txn_locked |-> 0, readers |-> 0, commit |-> NoReq,
          init |-> [b \in Backends |-> NoReq],
          up |-> FirstUp, initEv |-> {}, served |-> FirstUp,
          records |-> FirstRecords, vty |-> FALSE, failed |-> "no",
          toBe |-> [b \in Backends |-> <<>>],
          toMg |-> [b \in Backends |-> <<>>],
          next |-> 1,
          fate |-> [t \in TxnIds |-> "idle"],
          change |-> [t \in TxnIds |-> [set |-> {}, del |-> {}]]]
  /\ be = [b \in Backends |-> [conn |-> b \in FirstUp, cfg |-> {}, txn |-> NoTxn]]
  /\ survived = {}
  /\ requests = 0
  /\ faults = 0

Fault(name) ==
  /\ name \in Disturbances
  /\ faults < MaxFaults
  /\ faults' = faults + 1

-----------------------------------------------------------------------------
(* The backend library *)

Reads(b, type) ==
  /\ be[b].conn
  /\ m.toBe[b] # <<>>
  /\ Head(m.toBe[b]).type = type

\* What b writes is lost once mgmtd closed the connection.
Answer(b, msg) ==
  m' = [m EXCEPT !.toBe[b] = Tail(@),
                 !.toMg[b] = IF Holds(m.toBe[b], EOF) THEN @ ELSE Append(@, msg)]

\* msg_conn_disconnect in the backend: its transaction is forgotten.
BeCloses(b, cfg) ==
  /\ m' = [m EXCEPT !.toBe[b] = <<>>,
                    !.toMg[b] = IF Holds(m.toBe[b], EOF) THEN @ ELSE Append(@, EOF)]
  /\ be' = [be EXCEPT ![b] = [conn |-> FALSE, cfg |-> cfg, txn |-> NoTxn]]

BeDrops(b) ==
  /\ BeCloses(b, be[b].cfg)
  /\ survived' = survived \cup {b}

\* msg_client_connect_timer and the SUBSCRIBE sent on connect
BeConnect(b) ==
  /\ ~be[b].conn
  /\ be' = [be EXCEPT ![b].conn = TRUE]
  /\ m' = [m EXCEPT !.toMg[b] = Append(@, SUBSCRIBE)]
  /\ UNCHANGED <<survived, requests, faults>>

\* be_client_handle_cfg: prepare the change on a copy of the running
\* configuration, unless another transaction is still being prepared.
BeCfg(b) ==
  /\ Reads(b, "CFG_REQ")
  /\ LET msg == Head(m.toBe[b])
     IN  \/ /\ be[b].txn = NoTxn
            /\ be' = [be EXCEPT ![b].txn =
                 [id |-> msg.id, candidate |-> Patch(be[b].cfg, msg.change)]]
            /\ Answer(b, Msg("CFG_REPLY", msg.id))
            /\ UNCHANGED <<survived, faults>>
         \/ /\ be[b].txn = NoTxn
            /\ Fault("refuse")
            /\ Answer(b, Msg("ERROR", msg.id))
            /\ UNCHANGED <<be, survived>>
         \/ /\ be[b].txn # NoTxn
            /\ BeDrops(b)
            /\ UNCHANGED faults
  /\ UNCHANGED requests

\* be_client_handle_cfg_apply
BeCfgApply(b) ==
  /\ Reads(b, "CFG_APPLY_REQ")
  /\ LET msg == Head(m.toBe[b])
     IN  IF be[b].txn.id = msg.id
         THEN /\ be' = [be EXCEPT ![b] =
                   [conn |-> TRUE, cfg |-> be[b].txn.candidate, txn |-> NoTxn]]
              /\ Answer(b, Msg("CFG_APPLY_REPLY", msg.id))
              /\ UNCHANGED survived
         ELSE BeDrops(b)
  /\ UNCHANGED <<requests, faults>>

\* be_client_handle_txn_req
BeTxnDelete(b) ==
  /\ Reads(b, "TXN_DELETE")
  /\ IF be[b].txn.id = Head(m.toBe[b]).id
     THEN /\ be' = [be EXCEPT ![b].txn = NoTxn]
          /\ m' = [m EXCEPT !.toBe[b] = Tail(@)]
          /\ UNCHANGED survived
     ELSE BeDrops(b)
  /\ UNCHANGED <<requests, faults>>

\* The backend finds the connection closed, or loses it.
BeClosed(b) ==
  /\ be[b].conn
  /\ \/ Holds(m.toBe[b], EOF) /\ UNCHANGED faults
     \/ Fault("drop")
  /\ BeDrops(b)
  /\ UNCHANGED requests

\* The daemon is restarted and has no configuration.
BeRestart(b) ==
  /\ be[b].conn \/ be[b].cfg # {}
  /\ Fault("restart")
  /\ IF be[b].conn THEN BeCloses(b, {})
     ELSE be' = [be EXCEPT ![b].cfg = {}] /\ UNCHANGED m
  /\ survived' = survived \ {b}
  /\ UNCHANGED requests

-----------------------------------------------------------------------------
(* mgmtd's side of the connections *)

Alive == m.failed = "no"

\* be_adapter_handle_subscribe: a backend that reconnected before its old
\* connection was seen to close loses the old adapter first.
MgSubscribe(b) ==
  /\ Alive
  /\ LET new == IF b \in m.up THEN NextConnection(m.toMg[b]) ELSE m.toMg[b]
         n == IF b \in m.up THEN BeDelete(m, b) ELSE m
     IN  /\ new # <<>>
         /\ Head(new) = SUBSCRIBE
         /\ m' = [n EXCEPT !.up = @ \cup {b}, !.initEv = @ \cup {b},
                           !.toMg[b] = Tail(new)]
  /\ UNCHANGED <<be, survived, requests, faults>>

\* mgmt_be_adapter_notify_disconnect
MgPeerClosed(b) ==
  /\ Alive
  /\ Holds(m.toMg[b], EOF)
  /\ m' = BeDelete(m, b)
  /\ UNCHANGED <<be, survived, requests, faults>>

\* be_adapter_process_msg
MgMessage(b) ==
  /\ Alive
  /\ b \in m.up
  /\ m.toMg[b] # <<>>
  /\ LET msg == Head(m.toMg[b])
         n == [m EXCEPT !.toMg[b] = Tail(@)]
     IN  \/ msg.type = "CFG_REPLY" /\ m' = HandleCfgReply(n, b, msg.id)
         \/ msg.type = "CFG_APPLY_REPLY" /\ m' = HandleCfgApplyReply(n, b, msg.id)
         \/ msg.type = "ERROR" /\ m' = HandleError(n, b, msg.id)
  /\ UNCHANGED <<be, survived, requests, faults>>

\* mgmt_ds_lock succeeds
Lockable(ds) == m.locked[ds] = "nobody" /\ m.txn_locked = 0

\* Only the first of the concurrent requests locks running.
InitBlocked == m.readers = 0 /\ ~Lockable("running")

\* be_adapter_conn_init, txn_cfg_be_client_connect: send the backend what
\* running holds for it, as creations.  The first such request takes the lock
\* on running; when it cannot, the event is over all the same, for
\* mgmt_txn_handle_be_adapter_connect does not return the failure.
ConnInit(b) ==
  /\ Alive
  /\ b \in m.initEv
  /\ LET n == [m EXCEPT !.initEv = @ \ {b}]
         ch == [set |-> m.running \cap Interest[b], del |-> {}]
     IN  \/ InitBlocked /\ m' = n
         \/ ~InitBlocked /\ ch.set = {} /\ m' = [n EXCEPT !.served = @ \cup {b}]
         \/ /\ ~InitBlocked
            /\ ch.set # {}
            /\ m.next \in TxnIds
            /\ m' = Send([n EXCEPT
                           !.served = @ \cup {b},
                           !.readers = @ + 1,
                           !.locked["running"] = IF m.readers = 0 THEN "init" ELSE @,
                           !.init[b] = [id |-> m.next, phase |-> "SEND_CFG"],
                           !.next = @ + 1,
                           !.fate[m.next] = "open",
                           !.change[m.next] = ch],
                         {b}, [x \in Backends |-> CfgReq(m.next, ch)])
  /\ UNCHANGED <<be, survived, requests, faults>>

\* txn_cfg_timeout: before the apply phase the transaction fails; in it the
\* transaction succeeds and the backends still waited for are disconnected.
Timeout ==
  /\ Alive
  /\ Fault("timeout")
  /\ \/ m.commit # NoReq /\ m' = FinishCommit(m, m.commit.phase = "APPLY")
     \/ \E b \in Backends :
          /\ m.init[b] # NoReq
          /\ m' = IF m.init[b].phase = "SEND_CFG"
                  THEN InitFailed(m, b)
                  ELSE BeDelete(m, b)
  /\ UNCHANGED <<be, survived, requests>>

-----------------------------------------------------------------------------
(* Front-end sessions and the rollback command *)

Waits(s) == m.commit # NoReq /\ m.commit.session = s

\* A session sends its next request after the reply to the last one, unless
\* pipelining is among the disturbances.
MayAsk(s) == Alive /\ (~Waits(s) \/ "pipeline" \in Disturbances)

Request ==
  /\ requests < MaxCommits
  /\ m.next \in TxnIds
  /\ requests' = requests + 1
  /\ UNCHANGED <<be, survived>>

\* mgmtd's own checks of a change may fail.
CheckResults == {"ok", "invalid", "unprepared"}

Checks(check) ==
  \/ check = "ok" /\ UNCHANGED faults
  \/ check \in {"invalid", "unprepared"} /\ Fault(check)

\* fe_session_handle_lock, mgmt_fe_session_write_lock_ds
Lock(s, ds) ==
  /\ MayAsk(s)
  /\ Lockable(ds)
  /\ m' = [m EXCEPT !.locked[ds] = s]
  /\ UNCHANGED <<be, survived, requests, faults>>

\* fe_session_handle_lock: "unlock even if one or both of the lock indicators is
\* wrong".  Where the lock is somebody else's, mgmt_ds_unlock aborts; mgmtd's own
\* front end (mgmt_vty_frontend.c) asserts that it holds what it unlocks.
UnlockDs(s, ds) ==
  /\ MayAsk(s)
  /\ \/ /\ m.locked[ds] \in {s, "nobody"}
        /\ m' = Unlock(m, ds, s)
        /\ UNCHANGED faults
     \/ /\ m.locked[ds] \notin {s, "nobody"}
        /\ Fault("stray_unlock")
        /\ m' = [m EXCEPT !.failed = "unlock"]
  /\ UNCHANGED <<be, survived, requests>>

\* fe_session_cleanup: the locks of the session go, its transaction stays.
CloseSession(s) ==
  /\ Alive
  /\ Fault("logout")
  /\ Waits(s) \/ \E ds \in DataStores : m.locked[ds] = s
  /\ m' = [m EXCEPT
             !.locked = [ds \in DataStores |->
                IF m.locked[ds] = s THEN "nobody" ELSE m.locked[ds]],
             !.commit = IF Waits(s) THEN [@ EXCEPT !.session = NoSession] ELSE @]
  /\ UNCHANGED <<be, survived, requests>>

\* The commit request of session s (NoSession for the rollback command).
NewCommit(n, kind, s) ==
  [id |-> n.next, kind |-> kind, session |-> s, phase |-> "SEND_CFG",
   clients |-> {}, wait |-> {}, backup |-> {}, unlock |-> {},
   implicit |-> FALSE]

\* Seeded fault: the datastores are not locked for the transaction.
Start_NoTxnLock(n, c, check) ==
  IF n.commit # NoReq THEN [n EXCEPT !.failed = "assert"]
  ELSE MakeAndSend([n EXCEPT !.commit = c, !.next = @ + 1], check)

\* mgmt_txn_send_commit_config_req; the caller has checked that no other
\* configuration transaction is in progress.
Start(n, c, check) ==
  IF n.commit # NoReq THEN [n EXCEPT !.failed = "assert"]
  ELSE MakeAndSend([n EXCEPT !.commit = c, !.next = @ + 1,
                             !.txn_locked = IF c.kind = "rollback" THEN @ ELSE c.id],
                   check)

\* fe_session_handle_commit
Commit(s) ==
  /\ MayAsk(s)
  /\ m.txn_locked = 0
  /\ m.locked["candidate"] = s
  /\ \E kind \in {"apply", "validate", "abort"}, implicit \in BOOLEAN,
        check \in CheckResults :
       /\ Checks(check)
       /\ kind = "validate" \/ m.locked["running"] = s
       /\ implicit => kind = "apply"
       /\ m' = Start(m, [NewCommit(m, kind, s) EXCEPT !.implicit = implicit], check)
  /\ Request

\* fe_session_handle_edit on the candidate
Edit(s) ==
  /\ MayAsk(s)
  /\ m.locked["candidate"] = s \/ Lockable("candidate")
  /\ \E c \in Targets : m' = [m EXCEPT !.candidate = c]
  /\ UNCHANGED <<be, survived, requests, faults>>

\* fe_session_handle_edit on running: locks that were not held are taken for
\* the edit and its commit only.
EditRunning(s) ==
  /\ MayAsk(s)
  /\ m.txn_locked = 0
  /\ \A ds \in DataStores : m.locked[ds] \in {s, "nobody"}
  /\ \E c \in Targets \ {m.candidate}, check \in CheckResults :
       /\ Checks(check)
       /\ m' = Start([m EXCEPT !.candidate = c,
                               !.locked = [ds \in DataStores |-> s]],
                     [NewCommit(m, "edit", s) EXCEPT
                        !.backup = m.candidate,
                        !.unlock = {ds \in DataStores : m.locked[ds] = "nobody"}],
                     check)
  /\ Request

\* mgmt_history_rollback_n: the newer records are removed, the candidate is
\* loaded from the record and committed; rollback_vty is set after that.
Rollback(k) ==
  /\ Alive
  /\ k < Len(m.records)
  /\ LET n == [m EXCEPT !.records = SubSeq(@, 1, Len(@) - k)]
         c == n.records[Len(n.records)]
         l == [n EXCEPT !.candidate = c, !.locked = [ds \in DataStores |-> "rollback"]]
     IN  IF m.vty \/ \E ds \in DataStores : ~Lockable(ds)
         THEN m' = n /\ UNCHANGED faults
         ELSE IF c = m.running
         THEN m' = [n EXCEPT !.candidate = c] /\ UNCHANGED faults
         ELSE \E check \in CheckResults \ {"invalid"} :
                LET e == Start(l, NewCommit(m, "rollback", NoSession), check)
                IN  /\ Checks(check)
                    /\ m' = IF e.failed = "no" THEN [e EXCEPT !.vty = TRUE] ELSE e
  /\ Request

-----------------------------------------------------------------------------
BackendStep(b) ==
  \/ BeConnect(b)
  \/ BeCfg(b)
  \/ BeCfgApply(b)
  \/ BeTxnDelete(b)
  \/ BeClosed(b)
  \/ BeRestart(b)

MgmtdStep(b) ==
  \/ MgSubscribe(b)
  \/ MgPeerClosed(b)
  \/ MgMessage(b)
  \/ ConnInit(b)

SessionStep(s) ==
  \/ \E ds \in DataStores : Lock(s, ds) \/ UnlockDs(s, ds)
  \/ CloseSession(s)
  \/ Commit(s)
  \/ Edit(s)
  \/ EditRunning(s)

Next ==
  \/ \E b \in Backends : BackendStep(b) \/ MgmtdStep(b)
  \/ \E s \in Sessions : SessionStep(s)
  \/ "rollback" \in Disturbances /\ \E k \in 1 .. Len(m.records) : Rollback(k)
  \/ Timeout

Spec == Init /\ [][Next]_vars

-----------------------------------------------------------------------------
(* Properties *)

Commits ==
  [id : TxnIds, kind : {"apply", "validate", "abort", "edit", "rollback"},
   session : Sessions \cup {NoSession}, phase : {"SEND_CFG", "APPLY"},
   clients : SUBSET Backends, wait : SUBSET Backends,
   backup : SUBSET Items, unlock : SUBSET DataStores, implicit : BOOLEAN]

\* Type invariant: between two events a commit request waits for somebody, in
\* one of the two phases that wait, and every request has its transaction.
TypeOK ==
  /\ m.running \subseteq Items /\ m.candidate \subseteq Items
  /\ m.locked \in [DataStores -> Holders]
  /\ m.txn_locked \in TxnIds \cup {0}
  /\ m.readers \in 0 .. Cardinality(Backends)
  /\ m.commit = NoReq \/ (m.commit \in Commits /\ m.commit.wait # {})
  /\ m.init \in [Backends ->
       {NoReq} \cup [id : TxnIds, phase : {"SEND_CFG", "APPLY"}]]
  /\ m.up \subseteq Backends /\ m.initEv \subseteq m.up /\ m.served \subseteq m.up
  /\ m.vty \in BOOLEAN /\ m.failed \in {"no", "assert", "null", "unlock"}
  /\ \A b \in Backends : be[b].cfg \subseteq Items /\ be[b].conn \in BOOLEAN

Atomic == INSTANCE AtomicConfig WITH
  running <- m.running, fate <- m.fate, change <- m.change,
  cfg <- [b \in Backends |-> be[b].cfg]

\* The two-phase exchange implements the atomic change of configuration: the
\* fate of a transaction is final, running and the backends change only by
\* transactions whose fate is to be applied, and by the change that was agreed
\* on (txn_finish_commit copies the candidate as it is by then, and a backend
\* applies what it prepared, perhaps long after mgmtd gave up on it).
Refines == Atomic!ASpec

\* No assertion of mgmtd fails by what mgmtd itself does: what a transaction,
\* a rollback, the initial download or the end of a session unlocks is theirs
\* (mgmt_ds_unlock), and a session that may commit finds no other configuration
\* transaction in progress (fe_session_handle_commit).  The one assertion left
\* is the client's to keep, see UnlockTolerated.
NoAssertFails == m.failed # "assert"

\* What a backend is being sent as its initial configuration is what running
\* holds for it until the request ends: the lock taken for the first such
\* request keeps commits and rollbacks out until the last one is done.
InitIsCurrent ==
  \A b \in Backends : m.init[b] # NoReq =>
    /\ m.change[m.init[b].id].set = m.running \cap Interest[b]
    /\ m.locked["running"] = "init"

\* b has nothing left to read, to answer or to be sent.
AtRest(b) ==
  /\ Live(m, b) /\ be[b].conn
  /\ m.toBe[b] = <<>>
  /\ m.init[b] = NoReq
  /\ m.commit = NoReq \/ b \notin m.commit.clients \/ m.commit.phase = "SEND_CFG"

\* A backend that was sent its initial configuration on this connection, and
\* did not refuse it or let it time out, has every node of running it
\* subscribed to; when it did not keep nodes from an earlier connection, it
\* has nothing else.
Synced ==
  \A b \in m.served : AtRest(b) =>
    /\ m.running \cap Interest[b] \subseteq be[b].cfg
    /\ b \notin survived => be[b].cfg = m.running \cap Interest[b]

(***************************************************************************)
(* What comments of the code say and the code does not do.                 *)
(***************************************************************************)

\* A backend that connected while running was locked is initialised later
\* (be_adapter_conn_init: "retry a bit later").
InitRetried ==
  \A b \in m.up : AtRest(b) /\ b \notin m.initEv =>
    m.running \cap Interest[b] \subseteq be[b].cfg

\* A backend whose connection was reset has the configuration of running once
\* it was initialised again (txn_cfg_cleanup: "resync config state on
\* reconnect").
Resynced ==
  \A b \in m.served : AtRest(b) => be[b].cfg = m.running \cap Interest[b]

\* An UNLOCK message of a session that does not hold the lock is tolerated
\* (fe_session_handle_lock: "unlock even if one or both of the lock indicators
\* is wrong").
UnlockTolerated == m.failed # "unlock"

\* mgmt_history_rollback_complete finds the vty of the rollback command
\* (mgmt_history_rollback_to_cmt: "shall be called to resume the rollback
\* command").
RollbackResumes == m.failed # "null"

-----------------------------------------------------------------------------
(* Fairness: the daemons read their sockets and serve their timers. *)

CanWork ==
  /\ Alive
  /\ \E b \in Backends :
       \/ ~be[b].conn
       \/ m.toBe[b] # <<>>
       \/ m.toMg[b] # <<>>
       \/ b \in m.initEv

sockets == <<be, m.toBe, m.toMg, m.initEv>>

FairSpec ==
  /\ Spec
  /\ []<>~CanWork \/ []<><<UNCHANGED <<requests, faults>>>>_sockets

\* Every transaction ends, with or without its timeout: whatever was refused,
\* lost or restarted meanwhile, mgmtd does not keep waiting for a backend that
\* has nothing left to say (txn_cfg_adapter_acked, be_adapter_delete).
Settles ==
  []<>(Alive => m.commit = NoReq /\ \A b \in Backends : m.init[b] = NoReq)

=============================================================================
