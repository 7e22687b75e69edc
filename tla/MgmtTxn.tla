------------------------------- MODULE MgmtTxn -------------------------------
(***************************************************************************)
(* mgmtd's configuration transactions as functions on its state m: each    *)
(* operator is what one function of mgmt_txn_cfg.c and mgmt_be_adapter.c   *)
(* does to m before it returns to the event loop.                          *)
(*                                                                         *)
(*   m.running, m.candidate    datastores: the set of data nodes present   *)
(*   m.locked[ds]              holder of the session lock of a datastore   *)
(*   m.txn_locked              transaction holding both datastores, or 0   *)
(*   m.readers                 txn_init_readers                            *)
(*   m.commit                  the commit request of a session or of a     *)
(*                             rollback, or NoReq                          *)
(*   m.init[b]                 the request that sends backend b its        *)
(*                             initial configuration, or NoReq             *)
(*   m.up                      backends in mgmt_be_adapters_by_id          *)
(*   m.initEv                  backends whose conn_init_ev is scheduled    *)
(*   m.served                  (for the properties only) backends that got *)
(*                             their initial configuration since then      *)
(*   m.records                 the commit history, oldest first            *)
(*   m.vty                     rollback_vty is set                         *)
(*   m.failed                  "no", or why mgmtd died: "assert", "null",  *)
(*                             or "unlock", the assertion of               *)
(*                             mgmt_ds_unlock on an UNLOCK message         *)
(*   m.toBe[b], m.toMg[b]      the socket between mgmtd and b, each way    *)
(*   m.next, m.fate, m.change  txn_next_id; and, for the properties only,  *)
(*                             the fate and the change of each transaction *)
(*                                                                         *)
(* A datastore is a set of data nodes: giving a node another value is sent *)
(* like its creation and is not told apart from it.  mgmt_be_adapter_send  *)
(* fails only on a closed connection, whose adapter is gone, so the        *)
(* branches after a failed send are not reached.                           *)
(***************************************************************************)
EXTENDS Naturals, Sequences, FiniteSets

CONSTANTS
  Backends,   \* daemons that connect to mgmtd
  Items,      \* configuration data nodes
  Interest,   \* Interest[b]: the nodes of be_cfg_xpath_map backend b is in
  Sessions,   \* front-end sessions
  MaxTxn      \* bound on transaction identifiers

ASSUME InterestAssumption == Interest \in [Backends -> SUBSET Items]

ASSUME MaxTxnAssumption == MaxTxn \in Nat

ASSUME BackendsAssumption == IsFiniteSet(Backends)

TxnIds == 1 .. MaxTxn

DataStores == {"candidate", "running"}

\* Lock holders that are not sessions: nobody, the initial download of the
\* backends (session id 0) and the rollback command.
Holders == Sessions \cup {"nobody", "init", "rollback"}

NoReq == [id |-> 0]

NoSession == "gone"

ASSUME SessionsAssumption ==
  Sessions \cap {"nobody", "init", "rollback", NoSession} = {}

Patch(c, ch) == (c \cup ch.set) \ ch.del

Narrow(ch, S) == [set |-> ch.set \cap S, del |-> ch.del \cap S]

EOF == [type |-> "EOF"]

SUBSCRIBE == [type |-> "SUBSCRIBE"]

CfgReq(id, ch) == [type |-> "CFG_REQ", id |-> id, change |-> ch]

Msg(type, id) == [type |-> type, id |-> id]

Holds(q, msg) == \E i \in DOMAIN q : q[i] = msg

-----------------------------------------------------------------------------
(* The socket to a backend *)

\* The backend has not closed the connection its adapter stands for.
Live(m, b) == b \in m.up /\ ~Holds(m.toMg[b], EOF)

Send(m, B, msg) ==
  [m EXCEPT !.toBe = [b \in Backends |->
     IF b \in B /\ Live(m, b) THEN Append(m.toBe[b], msg[b]) ELSE m.toBe[b]]]

\* What the backend wrote after it reconnected.
NextConnection(q) ==
  IF Holds(q, EOF)
  THEN LET i == CHOOSE k \in DOMAIN q :
                  q[k] = EOF /\ \A j \in 1 .. k - 1 : q[j] # EOF
       IN  SubSeq(q, i + 1, Len(q))
  ELSE <<>>

\* mgmt_ds_unlock: a lock somebody else holds trips the assertion.
Unlock(m, ds, who) ==
  IF m.locked[ds] \in {"nobody", who}
  THEN [m EXCEPT !.locked[ds] = "nobody"]
  ELSE [m EXCEPT !.failed = "assert"]

Settle(m, id, how) ==
  [m EXCEPT !.fate[id] = IF @ = "open" THEN how ELSE @]

-----------------------------------------------------------------------------
(* Requests that send a backend its initial configuration *)

\* Seeded fault: the first request that ends releases running.
InitDone_EachUnlocks(m, b) ==
  Unlock([Settle(m, m.init[b].id, "dropped") EXCEPT
            !.init[b] = NoReq, !.readers = @ - 1], "running", "init")

\* txn_finish_commit for such a request: the last one releases running.
InitDone(m, b) ==
  LET n == [Settle(m, m.init[b].id, "dropped") EXCEPT
              !.init[b] = NoReq, !.readers = @ - 1]
  IN  IF n.readers = 0 THEN Unlock(n, "running", "init") ELSE n

\* The backend refused its initial configuration, or took too long.
InitFailed(m, b) ==
  Send([InitDone(m, b) EXCEPT !.served = @ \ {b}], {b},
       [x \in Backends |-> Msg("TXN_DELETE", m.init[b].id)])

\* msg_conn_disconnect and be_adapter_delete for the backends of B, but for
\* the commit request: a backend's own request ends with its connection.
CloseAll(m, B) ==
  LET busy == {b \in B : m.init[b] # NoReq}
      left == m.readers - Cardinality(busy)
      n == [m EXCEPT
              !.up = @ \ B,
              !.initEv = @ \ B,
              !.served = @ \ B,
              !.toBe = [b \in Backends |->
                 IF b \in B /\ Live(m, b) THEN Append(m.toBe[b], EOF) ELSE m.toBe[b]],
              !.toMg = [b \in Backends |->
                 IF b \in B THEN NextConnection(m.toMg[b]) ELSE m.toMg[b]],
              !.init = [b \in Backends |-> IF b \in busy THEN NoReq ELSE m.init[b]],
              !.readers = left,
              !.fate = [t \in TxnIds |->
                 IF (\E b \in busy : m.init[b].id = t) /\ m.fate[t] = "open"
                 THEN "dropped" ELSE m.fate[t]]]
  IN  IF busy # {} /\ left = 0 THEN Unlock(n, "running", "init") ELSE n

-----------------------------------------------------------------------------
(* The commit request *)

\* Tell whoever asked.  An implicit commit that failed undoes the candidate;
\* an edit that failed restores it from the backup taken before the edit.
Reply(m, c, ok) ==
  CASE c.kind = "rollback" ->
         IF m.vty
         THEN LET n == Unlock(Unlock(m, "candidate", "rollback"),
                              "running", "rollback")
              IN  [n EXCEPT !.vty = FALSE]
         ELSE [m EXCEPT !.failed = "null"]
    [] c.kind = "edit" ->
         LET n == IF ok THEN m ELSE [m EXCEPT !.candidate = c.backup]
         IN  IF c.session = NoSession THEN n
             ELSE [n EXCEPT !.locked = [ds \in DataStores |->
                     IF ds \in c.unlock THEN "nobody" ELSE n.locked[ds]]]
    [] OTHER ->
         IF ~ok /\ c.implicit THEN [m EXCEPT !.candidate = m.running] ELSE m

\* txn_cfg_cleanup: backends that never confirmed are disconnected; backends
\* that prepared a change which will not be applied are told to forget it.
Cleanup(m, c) ==
  LET n == CASE c.phase = "APPLY" -> CloseAll(m, c.wait)
             [] c.phase = "SEND_CFG" \/ (c.phase = "FINISH" /\ c.kind = "validate") ->
                  Send(m, c.clients, [b \in Backends |-> Msg("TXN_DELETE", c.id)])
             [] OTHER -> m
  IN  [n EXCEPT !.commit = NoReq,
                !.txn_locked = IF @ = c.id THEN 0 ELSE @]

\* txn_finish_commit: past the prepare phase the candidate becomes running.
FinishCommit(m, ok) ==
  LET c == m.commit
      accept == c.phase # "SEND_CFG" /\ c.kind \in {"apply", "edit", "rollback"}
      taken == CASE accept -> [m EXCEPT !.running = m.candidate,
                                 !.records = IF c.kind = "rollback" THEN @
                                             ELSE Append(@, m.candidate)]
                 [] ok /\ c.kind = "abort" -> [m EXCEPT !.candidate = m.running]
                 [] OTHER -> m
  IN  Cleanup(Reply(Settle(taken, c.id, "dropped"), c, ok), c)

\* txn_cfg_send_cfg_apply
SendApply(m) ==
  LET c == m.commit
      to == c.clients \cap m.up
      n == Send(Settle([m EXCEPT !.commit.phase = "APPLY", !.commit.wait = to],
                       c.id, "applied"),
                to, [b \in Backends |-> Msg("CFG_APPLY_REQ", c.id)])
  IN  IF to = {} THEN FinishCommit([n EXCEPT !.commit.phase = "FINISH"], TRUE)
                 ELSE n

\* txn_cfg_next_phase
NextPhase(m) ==
  IF m.commit.phase = "SEND_CFG" /\ m.commit.kind # "validate"
  THEN SendApply(m)
  ELSE FinishCommit([m EXCEPT !.commit.phase = "FINISH"], TRUE)

\* Seeded fault: the last answer does not start the next phase.
Acked_Stays(m, b) ==
  [m EXCEPT !.commit.wait = @ \ {b}]

\* txn_cfg_adapter_acked
Acked(m, b) ==
  LET n == [m EXCEPT !.commit.wait = @ \ {b}]
  IN  IF n.commit.wait = {} THEN NextPhase(n) ELSE n

\* Seeded fault: a lost backend is not taken for one that agreed.
BeDelete_KeepsWaiting(m, b) ==
  LET n == CloseAll(m, {b})
  IN  IF n.commit = NoReq THEN n ELSE [n EXCEPT !.commit.clients = @ \ {b}]

\* be_adapter_delete: for the commit request a lost backend has agreed.
BeDelete(m, b) ==
  LET n == CloseAll(m, {b})
      c == n.commit
      k == [n EXCEPT !.commit.clients = @ \ {b}]
  IN  IF c = NoReq THEN n ELSE IF b \in c.wait THEN Acked(k, b) ELSE k

\* Seeded fault: only the nodes that are created count.
Interested_Created(m, ch) ==
  {b \in m.up : Interest[b] \cap ch.set # {}}

\* mgmt_be_interested_clients, among the connected backends
Interested(m, ch) ==
  {b \in m.up : Interest[b] \cap (ch.set \cup ch.del) # {}}

\* Seeded fault: every client is sent the whole change.
Share_All(ch, b) == ch

\* The part of a change that is collected for backend b.
Share(ch, b) == Narrow(ch, Interest[b])

\* txn_get_config_changes, then txn_cfg_make_and_send_cfg_req for the backends
\* that subscribed to a node of the change.  check is "invalid" when the
\* candidate breaks the YANG schema and "unprepared" when mgmtd's own part of
\* the change cannot be prepared: the backends are then already recorded.
MakeAndSend(m, check) ==
  LET c == m.commit
      ch == [set |-> m.candidate \ m.running, del |-> m.running \ m.candidate]
      to == Interested(m, ch)
      open == [m EXCEPT !.fate[c.id] = "open", !.change[c.id] = ch,
                        !.commit.clients = to]
      sent == Send([open EXCEPT !.commit.wait = to], to,
                   [b \in Backends |-> CfgReq(c.id, Share(ch, b))])
  IN  CASE c.kind = "abort" -> FinishCommit(m, TRUE)
        [] c.kind # "abort" /\ check = "invalid" -> FinishCommit(m, FALSE)
        [] c.kind # "abort" /\ check # "invalid" /\ m.candidate = m.running ->
             FinishCommit(m, TRUE)
        [] OTHER -> IF check = "unprepared" THEN FinishCommit(open, FALSE)
                    ELSE IF to = {} THEN NextPhase(sent) ELSE sent

-----------------------------------------------------------------------------
(* Messages from backends *)

\* The initial configuration is prepared, or applied.
InitAcked(m, b) ==
  LET r == m.init[b]
  IN  IF r.phase = "SEND_CFG"
      THEN Send(Settle([m EXCEPT !.init[b].phase = "APPLY"], r.id, "applied"),
                {b}, [x \in Backends |-> Msg("CFG_APPLY_REQ", r.id)])
      ELSE InitDone(m, b)

\* txn_cfg_ensure_msg, txn_cfg_handle_cfg_reply: an answer nobody waits for
\* costs the backend its connection.
HandleCfgReply(m, b, id) ==
  CASE m.init[b].id = id -> InitAcked(m, b)
    [] m.commit.id = id /\ b \in m.commit.wait -> Acked(m, b)
    [] OTHER -> BeDelete(m, b)

\* mgmt_txn_handle_cfg_apply_reply
HandleCfgApplyReply(m, b, id) ==
  CASE m.init[b].id = id -> InitAcked(m, b)
    [] m.commit.id = id /\ b \in m.commit.clients -> Acked(m, b)
    [] OTHER -> BeDelete(m, b)

\* mgmt_txn_handle_error_reply, txn_cfg_handle_error: a refusal ends the
\* transaction while it is being prepared; an unknown one is ignored.
HandleError(m, b, id) ==
  CASE m.init[b].id = id ->
         IF m.init[b].phase = "SEND_CFG"
         THEN InitFailed(m, b)
         ELSE BeDelete(m, b)
    [] m.commit.id = id ->
         IF m.commit.phase = "SEND_CFG" /\ b \in m.commit.wait
         THEN FinishCommit(m, FALSE)
         ELSE BeDelete(m, b)
    [] OTHER -> m

=============================================================================
