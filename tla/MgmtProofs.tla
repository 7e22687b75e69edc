----------------------------- MODULE MgmtProofs ------------------------------
(***************************************************************************)
(* mgmtd's transactions for any backends, sessions, nodes and numbers of   *)
(* requests and faults: mgmtd fails no assertion of its own, a backend's   *)
(* initial configuration stays current, and the two-phase exchange         *)
(* implements the atomic change of AtomicConfig.                           *)
(***************************************************************************)
EXTENDS MgmtTxnProofs

\* Most leaves are first-order; the ones that need arithmetic say SMT.
USE ZenonT(30)

-----------------------------------------------------------------------------
(* The inductive invariant. *)

\* A backend: what it prepared is the change of a transaction, for the
\* configuration it has.
BackendOK(x, e, b) ==
  /\ e \in [conn : BOOLEAN, cfg : SUBSET Items,
            txn : {NoTxn} \cup [id : TxnIds, candidate : SUBSET Items]]
  /\ ~e.conn => e.txn = NoTxn
  /\ e.txn # NoTxn =>
       /\ x.fate[e.txn.id] # "idle"
       /\ e.txn.candidate = Patch(e.cfg, Narrow(x.change[e.txn.id], Interest[b]))

\* The inductive invariant.
MgmtInv ==
  /\ Core(m)
  /\ CommitOK(m)
  /\ DOMAIN be = Backends
  /\ \A b \in Backends : BackendOK(m, be[b], b)

\* What is known of a backend stays known as the transactions go on.
LEMMA BackendStays ==
  ASSUME NEW x, NEW y, Grows(x, y), NEW b, NEW e, BackendOK(x, e, b)
  PROVE  BackendOK(y, e, b)
<1>1. e.txn # NoTxn => e.txn.id \in TxnIds
  BY DEF BackendOK
<1> QED
  BY <1>1 DEF BackendOK, Grows

-----------------------------------------------------------------------------
(* The steps of mgmtd. *)

\* mgmtd leaves its state in order and moves as the transactions allow.
Manages == Core(m') /\ CommitOK(m') /\ Moves(m, m')

\* A step that changes none of what the invariant speaks of, but sockets read.
LEMMA SameManages ==
  ASSUME NEW x, Core(x), CommitOK(x), NEW y \in States,
         CoreView(x) = CoreView(y), CommitView(x) = CommitView(y),
         y.failed # "assert", y.toBe = x.toBe
  PROVE  Core(y) /\ CommitOK(y) /\ Steady(x, y) /\ Busy(y) = Busy(x)
<1>1. Core(y)
  BY SameCoreToBe
<1>2. CommitOK(y)
  BY SameCommit
<1> QED
  BY <1>1, <1>2 DEF CommitView, Steady, Grows, Busy

\* While a datastore may be locked there is no commit request.
LEMMA NoCommit ==
  ASSUME NEW x, CommitOK(x), x.txn_locked = 0,
         NEW ds \in DataStores, x.locked[ds] # "rollback"
  PROVE  x.commit = NoReq
<1> SUFFICES ASSUME x.commit # NoReq PROVE FALSE
  OBVIOUS
<1>1. Exclusive(x)
  BY DEF CommitOK, Pending
<1>2. x.commit.id \in TxnIds
  BY <1>1 DEF Exclusive, Commitments
<1> QED
  BY <1>1, <1>2, SMTT(30) DEF Exclusive, TxnIds

LEMMA MgSubscribeOK ==
  ASSUME MgmtInv, NEW b \in Backends, MgSubscribe(b)
  PROVE  Manages
<1> DEFINE new == IF b \in m.up THEN NextConnection(m.toMg[b]) ELSE m.toMg[b]
           n == IF b \in m.up THEN BeDelete(m, b) ELSE m
           u == n.up \cup {b}
           v == n.initEv \cup {b}
           r == [n.toMg EXCEPT ![b] = Tail(new)]
<1>1. Core(m) /\ CommitOK(m) /\ m \in States /\ m.toMg[b] \in Seq(Replies)
  BY DEF MgmtInv, Core, States, ReplyQueues
<1>2. new # <<>> /\ m' = [n EXCEPT !.up = u, !.initEv = v, !.toMg = r]
  BY DEF MgSubscribe
<1>3. new \in Seq(Replies)
  BY <1>1, NextConnectionIn
<1>4. Handled(m, n) /\ b \notin Busy(n)
  <2>1. CASE b \in m.up
    BY <1>1, <2>1, BeDeleteOK
  <2>2. CASE b \notin m.up
    <3>1. n = m
      BY <2>2
    <3> HIDE DEF n
    <3> QED
      BY <1>1, <2>2, <3>1 DEF Handled, Moves, Grows, Core
  <2> QED
    BY <2>1, <2>2
<1> HIDE DEF n, new
<1>5. Core(n) /\ CommitOK(n) /\ n \in States /\ n.toMg \in ReplyQueues /\ n.failed # "assert"
  BY <1>4 DEF Handled, Core, States
<1>6. r \in ReplyQueues
  BY <1>2, <1>3, <1>5, SMTT(30) DEF ReplyQueues
<1>7. u \in SUBSET Backends /\ v \in SUBSET Backends /\ v \subseteq u
  BY <1>5 DEF Core, States
<1>8. n.served \subseteq u /\ Busy(n) \subseteq u \ v
  BY <1>4, <1>5 DEF Core
<1> HIDE DEF u, v, r
<1>9. /\ m' \in States /\ m'.up = u /\ m'.initEv = v /\ m'.toBe = n.toBe
      /\ m'.init = n.init /\ m'.served = n.served /\ m'.readers = n.readers
      /\ m'.locked = n.locked /\ m'.next = n.next /\ m'.fate = n.fate
      /\ m'.change = n.change /\ m'.running = n.running /\ m'.failed = n.failed
      /\ CommitView(n) = CommitView(m')
  BY <1>2, <1>5, <1>6, <1>7 DEF States, CommitView
<1>10. Busy(m') = Busy(n)
  BY <1>9 DEF Busy
<1>11. Core(m')
  <2>1. \A c \in Busy(m') : InitOK(m', c)
    BY <1>5, <1>9, InitsKept
  <2>2. \A c \in Backends : \A j \in DOMAIN m'.toBe[c] : OrderOK(m', c, m'.toBe[c][j])
    BY <1>5, <1>9, OrdersKept
  <2> QED
    BY <1>5, <1>7, <1>8, <1>9, <1>10, <2>1, <2>2 DEF Core
<1>12. CommitOK(m')
  BY <1>5, <1>9, SameCommit
<1>13. Steady(n, m')
  BY <1>9 DEF Steady, Grows
<1>14. Moves(m, m')
  BY <1>4, <1>13, MovesThenSteady DEF Handled
<1> QED
  BY <1>11, <1>12, <1>14 DEF Manages

LEMMA MgMessageOK ==
  ASSUME MgmtInv, NEW b \in Backends, MgMessage(b)
  PROVE  Manages
<1> DEFINE r == [m.toMg EXCEPT ![b] = Tail(m.toMg[b])]
           n == [m EXCEPT !.toMg = r]
           msg == Head(m.toMg[b])
<1>1. Core(m) /\ CommitOK(m) /\ m \in States /\ m.toMg \in ReplyQueues /\ m.failed # "assert"
  BY DEF MgmtInv, Core, States
<1>2. /\ m.toMg[b] # <<>>
      /\ \/ msg.type = "CFG_REPLY" /\ m' = HandleCfgReply(n, b, msg.id)
         \/ msg.type = "CFG_APPLY_REPLY" /\ m' = HandleCfgApplyReply(n, b, msg.id)
         \/ msg.type = "ERROR" /\ m' = HandleError(n, b, msg.id)
  BY DEF MgMessage
<1>3. m.toMg[b] \in Seq(Replies)
  BY <1>1 DEF ReplyQueues
<1>4. msg \in Replies /\ r \in ReplyQueues
  BY <1>1, <1>2, <1>3, SMTT(30) DEF ReplyQueues
<1>5. msg.id \in TxnIds
  BY <1>2, <1>4, SMTT(30) DEF Replies, EOF, SUBSCRIBE
<1> HIDE DEF r, msg
<1>6. /\ n \in States /\ CoreView(m) = CoreView(n) /\ CommitView(m) = CommitView(n)
      /\ n.failed # "assert" /\ n.toBe = m.toBe
  BY <1>1, <1>4 DEF States, CoreView, CommitView
<1> HIDE DEF n
<1>7. Core(n) /\ CommitOK(n) /\ Steady(m, n)
  BY <1>1, <1>6, SameManages
<1>8. Handled(n, m')
  BY <1>2, <1>5, <1>7, HandlersOK
<1> QED
  BY <1>7, <1>8, SteadyThenMoves DEF Handled, Manages

LEMMA TimeoutOK ==
  ASSUME MgmtInv, Timeout
  PROVE  Manages
<1>1. Core(m) /\ CommitOK(m)
  BY DEF MgmtInv
<1>2. CASE m.commit # NoReq /\ m' = FinishCommit(m, m.commit.phase = "APPLY")
  <2>1. Ready(m)
    BY <1>1, <1>2 DEF CommitOK, Pending, Ready, Protected
  <2> DEFINE ok == m.commit.phase = "APPLY"
  <2>2. ok \in BOOLEAN
    OBVIOUS
  <2>3. m' = FinishCommit(m, ok)
    BY <1>2
  <2> HIDE DEF ok
  <2> QED
    BY <1>1, <2>1, <2>2, <2>3, FinishCommitOK DEF Handled, Manages
<1>3. ASSUME NEW b \in Backends, m.init[b] # NoReq,
             m' = InitFailed(m, b) \/ m' = BeDelete(m, b)
      PROVE  Manages
  <2>1. b \in Busy(m)
    BY <1>3 DEF Busy
  <2> QED
    BY <1>1, <1>3, <2>1, InitFailedOK, BeDeleteOK DEF Handled, Manages
<1>4. \/ m.commit # NoReq /\ m' = FinishCommit(m, m.commit.phase = "APPLY")
      \/ \E b \in Backends :
           m.init[b] # NoReq /\ (m' = InitFailed(m, b) \/ m' = BeDelete(m, b))
  BY DEF Timeout
<1> QED
  BY <1>2, <1>3, <1>4

\* A backend is sent its initial configuration: the lock on running was free,
\* so that no commit is in progress, or others are being sent theirs.
LEMMA ConnInitOK ==
  ASSUME MgmtInv, NEW b \in Backends, ConnInit(b)
  PROVE  Manages
<1> DEFINE v == m.initEv \ {b}
           n == [m EXCEPT !.initEv = v]
           ch == [set |-> m.running \cap Interest[b], del |-> {}]
           w == m.served \cup {b}
           sent == [n EXCEPT !.served = @ \cup {b},
                             !.readers = @ + 1,
                             !.locked["running"] = IF m.readers = 0 THEN "init" ELSE @,
                             !.init[b] = [id |-> m.next, phase |-> "SEND_CFG"],
                             !.next = @ + 1,
                             !.fate[m.next] = "open",
                             !.change[m.next] = ch]
           msg == [a \in Backends |-> CfgReq(m.next, ch)]
<1>1. /\ Core(m) /\ CommitOK(m) /\ m \in States /\ m.failed # "assert"
      /\ m.locked \in Locks /\ m.init \in InitMaps /\ m.fate \in FateMaps
      /\ m.change \in ChangeMaps /\ m.next \in Nat \ {0} /\ m.readers \in Nat
      /\ m.running \subseteq Items
  BY DEF MgmtInv, Core, States
<1>2. b \in m.initEv /\ b \in m.up /\ b \notin Busy(m) /\ m.init[b] = NoReq
  BY <1>1 DEF ConnInit, Core, Busy
<1>3. v \in SUBSET Backends /\ v \subseteq m.up /\ Busy(m) \subseteq m.up \ v
  BY <1>1 DEF Core, States
<1>4. w \in SUBSET Backends /\ w \subseteq m.up
  BY <1>1, <1>2 DEF Core, States
<1>5. \/ m' = n
      \/ m' = [n EXCEPT !.served = @ \cup {b}]
      \/ ~InitBlocked /\ m.next \in TxnIds /\ m' = Send(sent, {b}, msg)
  BY DEF ConnInit
<1>6. ASSUME m' = n \/ m' = [n EXCEPT !.served = @ \cup {b}]
      PROVE  Manages
  <2> DEFINE z == IF m' = n THEN m.served ELSE w
  <2>1. m' = [m EXCEPT !.initEv = v, !.served = z]
    <3> HIDE DEF v
    <3> QED
      BY <1>1, <1>6 DEF States
  <2>2. z \in SUBSET Backends /\ z \subseteq m.up
    BY <1>1, <1>4 DEF Core, States
  <2> HIDE DEF z, v
  <2>3. /\ m' \in States /\ m'.up = m.up /\ m'.initEv = v /\ m'.toBe = m.toBe
        /\ m'.init = m.init /\ m'.served = z /\ m'.readers = m.readers
        /\ m'.locked = m.locked /\ m'.next = m.next /\ m'.fate = m.fate
        /\ m'.change = m.change /\ m'.running = m.running /\ m'.failed = m.failed
        /\ CommitView(m) = CommitView(m')
    BY <1>1, <1>3, <2>1, <2>2 DEF States, CommitView
  <2>4. Busy(m') = Busy(m)
    BY <2>3 DEF Busy
  <2>5. Core(m')
    <3>1. \A c \in Busy(m') : InitOK(m', c)
      BY <1>1, <2>3, InitsKept
    <3>2. \A c \in Backends : \A j \in DOMAIN m'.toBe[c] : OrderOK(m', c, m'.toBe[c][j])
      BY <1>1, <2>3, OrdersKept
    <3> QED
      BY <1>1, <1>3, <2>2, <2>3, <2>4, <3>1, <3>2 DEF Core
  <2>6. CommitOK(m')
    BY <1>1, <2>3, SameCommit
  <2>7. Steady(m, m')
    BY <2>3 DEF Steady, Grows
  <2> QED
    BY <2>5, <2>6, <2>7, SteadyMoves DEF Manages
<1>7. ASSUME ~InitBlocked, m.next \in TxnIds, m' = Send(sent, {b}, msg)
      PROVE  Manages
  <2> DEFINE q == [id |-> m.next, phase |-> "SEND_CFG"]
             k == m.readers + 1
             l == [m.locked EXCEPT !["running"] = IF m.readers = 0 THEN "init" ELSE @]
             i == [m.init EXCEPT ![b] = q]
             j == m.next + 1
             f == [m.fate EXCEPT ![m.next] = "open"]
             g == [m.change EXCEPT ![m.next] = ch]
             p == [m EXCEPT !.initEv = v, !.served = w, !.readers = k, !.locked = l]
             z == [p EXCEPT !.init = i, !.next = j, !.fate = f, !.change = g]
  <2>1. sent = z
    <3> HIDE DEF v, ch
    <3> QED
      BY <1>1 DEF States
  <2>2. /\ m.readers = 0 => Busy(m) = {} /\ m.commit = NoReq
        /\ m.readers # 0 => Busy(m) # {} /\ m.locked["running"] = "init"
    <3>1. IsFiniteSet(Busy(m))
      BY BackendsAssumption, FS_Subset DEF Busy
    <3>2. m.readers = 0 <=> Busy(m) = {}
      BY <1>1, <3>1, FS_EmptySet DEF Core
    <3>3. m.readers = 0 => m.commit = NoReq
      BY <1>1, <1>7, NoCommit DEF InitBlocked, Lockable, DataStores
    <3> QED
      BY <1>1, <3>2, <3>3 DEF Core
  <2>3. /\ l \in Locks /\ l["running"] = "init" /\ l["candidate"] = m.locked["candidate"]
        /\ m.readers # 0 => l = m.locked
    BY <1>1, <2>2 DEF Locks, DataStores, Holders
  <2>4. q \in InitRequests /\ q # NoReq /\ q.id = m.next /\ q.phase = "SEND_CFG"
    BY <1>7 DEF InitRequests, NoReq
  <2> HIDE DEF q
  <2>5. i \in InitMaps /\ i[b] = q /\ \A c \in Backends : c # b => i[c] = m.init[c]
    BY <1>1, <2>4 DEF InitMaps
  <2>6. ch \in Change
    BY <1>1 DEF Change
  <2> HIDE DEF ch
  <2>7. /\ f \in FateMaps /\ f[m.next] = "open"
        /\ \A t \in TxnIds : t # m.next => f[t] = m.fate[t]
    BY <1>1, <1>7 DEF FateMaps, Fates
  <2>8. /\ g \in ChangeMaps /\ g[m.next] = ch
        /\ \A t \in TxnIds : t # m.next => g[t] = m.change[t]
    BY <1>1, <1>7, <2>6 DEF ChangeMaps
  <2>9. k \in Nat /\ j \in Nat \ {0} /\ j > m.next
    BY <1>1, SMTT(30)
  <2>10. k = Cardinality(Busy(m) \cup {b})
    <3>1. IsFiniteSet(Busy(m))
      BY BackendsAssumption, FS_Subset DEF Busy
    <3>2. Cardinality(Busy(m) \cup {b}) = Cardinality(Busy(m)) + 1
      BY <1>2, <3>1, FS_AddElement
    <3>3. m.readers = Cardinality(Busy(m))
      BY <1>1 DEF Core
    <3> QED
      BY <3>2, <3>3
  <2> HIDE DEF v, w, k, l, i, j, f, g
  <2>11. p \in States
    BY <1>1, <1>3, <1>4, <2>3, <2>9 DEF States
  <2>12. /\ p.up = m.up /\ p.initEv = v /\ p.toBe = m.toBe /\ p.served = w
         /\ p.readers = k /\ p.locked = l /\ p.running = m.running
         /\ p.candidate = m.candidate /\ p.failed = m.failed
         /\ p.commit = m.commit /\ p.txn_locked = m.txn_locked
    BY <1>1 DEF States
  <2> HIDE DEF p
  <2>13. /\ z \in States /\ z.up = m.up /\ z.initEv = v /\ z.toBe = m.toBe
         /\ z.served = w /\ z.readers = k /\ z.locked = l /\ z.running = m.running
         /\ z.candidate = m.candidate /\ z.failed = m.failed
         /\ z.commit = m.commit /\ z.txn_locked = m.txn_locked
         /\ z.init = i /\ z.next = j /\ z.fate = f /\ z.change = g
    BY <2>5, <2>7, <2>8, <2>9, <2>11, <2>12 DEF States
  <2> HIDE DEF z
  <2>14. Busy(z) = Busy(m) \cup {b}
    BY <2>4, <2>5, <2>13 DEF Busy
  <2>15. m.fate[m.next] = "idle"
    BY <1>1, <1>7, SMTT(30) DEF Core
  <2>16. Steady(m, z)
    BY <1>7, <2>7, <2>8, <2>13, <2>15 DEF Steady, Grows
  <2>17. \A c \in Busy(m) : /\ c # b /\ m.init[c].id \in TxnIds /\ m.init[c].id # m.next
                            /\ InitOK(m, c)
    <3>1. \A c \in Busy(m) : m.init[c].id \in TxnIds /\ InitOK(m, c)
      BY <1>1 DEF Core, Busy, InitMaps, InitRequests
    <3> QED
      BY <1>1, <1>2, <3>1, SMTT(30) DEF InitOK, TxnIds
  <2>18. Core(z)
    <3>1. \A c \in Busy(z) : InitOK(z, c)
      <4>1. InitOK(z, b)
        BY <2>4, <2>5, <2>7, <2>8, <2>9, <2>13 DEF InitOK, ch
      <4>2. ASSUME NEW c \in Busy(m) PROVE InitOK(z, c)
        <5>1. z.init[c] = m.init[c] /\ c \in Backends
          BY <2>5, <2>13, <2>17 DEF Busy
        <5>2. m.init[c].id < j
          <6>1. m.init[c].id \in TxnIds /\ InitOK(m, c)
            BY <2>17
          <6>2. m.init[c].id < m.next
            BY <6>1 DEF InitOK
          <6> QED
            BY <1>1, <6>1, <6>2, SMTT(30) DEF j, TxnIds
        <5> QED
          BY <2>7, <2>8, <2>13, <2>17, <5>1, <5>2, SMTT(30) DEF InitOK
      <4> QED
        BY <2>14, <4>1, <4>2
    <3>2. \A c \in Backends : \A o \in DOMAIN z.toBe[c] : OrderOK(z, c, z.toBe[c][o])
      <4>1. \A c \in Backends : \A o \in DOMAIN m.toBe[c] : m.toBe[c][o] \in Orders
        BY <1>1, SMTT(30) DEF States, OrderQueues
      <4> QED
        BY <1>1, <2>13, <2>16, <4>1, OrdersStay DEF Core, Steady
    <3>3. \A t \in TxnIds : t >= z.next => z.fate[t] = "idle"
      <4>1. \A t \in TxnIds : t >= j => t >= m.next /\ t # m.next
        BY <1>1, SMTT(30) DEF j, TxnIds
      <4> QED
        BY <1>1, <2>7, <2>13, <4>1 DEF Core
    <3>4. \A c, d \in Busy(z) : z.init[c].id = z.init[d].id => c = d
      <4>1. \A c \in Busy(m) : z.init[c] = m.init[c]
        BY <2>5, <2>13, <2>17 DEF Busy
      <4>2. z.init[b].id = m.next
        BY <2>4, <2>5, <2>13
      <4>3. \A c, d \in Busy(m) : m.init[c].id = m.init[d].id => c = d
        BY <1>1 DEF Core
      <4> QED
        BY <2>14, <2>17, <4>1, <4>2, <4>3
    <3>5. Busy(z) \subseteq z.up \ z.initEv
      BY <1>2, <1>3, <2>13, <2>14 DEF v
    <3> QED
      BY <1>1, <1>3, <1>4, <2>3, <2>10, <2>13, <2>14, <3>1, <3>2, <3>3, <3>4, <3>5 DEF Core
  <2>19. CommitOK(z)
    <3> SUFFICES ASSUME m.commit # NoReq PROVE Pending(z)
      BY <1>1, <2>13 DEF CommitOK
    <3>1. Pending(m) /\ m.readers # 0
      BY <1>1, <2>2 DEF CommitOK
    <3>2. /\ m.commit.id \in TxnIds /\ m.commit.id < m.next /\ m.commit.id # m.next
          /\ m.commit.id < j
      BY <1>1, <3>1, SMTT(30) DEF Pending, Exclusive, Commitments, TxnIds, j
    <3>3. Exclusive(z)
      <4>1. \A c \in Busy(z) : z.init[c].id # m.commit.id
        <5>1. z.init[b].id = m.next
          BY <2>4, <2>5, <2>13
        <5>2. \A c \in Busy(m) : z.init[c] = m.init[c]
          BY <2>5, <2>13, <2>17 DEF Busy
        <5> QED
          BY <2>14, <3>1, <3>2, <5>1, <5>2 DEF Pending, Exclusive
      <4>2. m.commit.kind = "validate"
        BY <2>2, <3>1 DEF Pending, Exclusive
      <4> QED
        BY <2>13, <3>1, <3>2, <4>1, <4>2 DEF Pending, Exclusive
    <3>4. Protected(m) => Protected(z)
      BY <2>3, <2>8, <2>13, <3>2 DEF Protected, Diff
    <3> QED
      BY <2>7, <2>13, <3>1, <3>2, <3>3, <3>4 DEF Pending
  <2>20. m' = Send(z, {b}, msg)
    BY <1>7, <2>1
  <2>21. msg \in [Backends -> Orders]
    BY <1>7, <2>6 DEF Orders, CfgReq
  <2>22. \A c \in {b} \cap Backends : OrderOK(z, c, msg[c])
    <3>1. ch = Narrow(ch, Interest[b])
      <4>1. (m.running \cap Interest[b]) \cap Interest[b] = m.running \cap Interest[b]
        OBVIOUS
      <4>2. {} \cap Interest[b] = {}
        OBVIOUS
      <4> QED
        BY <4>1, <4>2 DEF Narrow, ch
    <3> QED
      BY <2>7, <2>8, <2>13, <3>1 DEF OrderOK, CfgReq
  <2> HIDE DEF msg, sent
  <2>23. Core(m') /\ Steady(z, m') /\ CommitView(z) = CommitView(m')
    BY <2>18, <2>20, <2>21, <2>22, SendOK
  <2>24. CommitOK(m') /\ Steady(m, m')
    BY <2>16, <2>19, <2>23, SameCommit, SteadyTwice
  <2> QED
    BY <2>23, <2>24, SteadyMoves DEF Manages
<1> QED
  BY <1>5, <1>6, <1>7

-----------------------------------------------------------------------------
(* The steps of sessions and of the rollback command. *)

\* Sessions are none of the other lock holders.
LEMMA SessionNames ==
  ASSUME NEW s \in Sessions
  PROVE  s # "nobody" /\ s # "init" /\ s # "rollback" /\ s # NoSession
BY SessionsAssumption

\* A step that changes the candidate, the locks and the request only.
With(x, d, l, c) == [x EXCEPT !.candidate = d, !.locked = l, !.commit = c]

LEMMA LocalStep ==
  ASSUME NEW x, Core(x), NEW d \in SUBSET Items, NEW l \in Locks,
         NEW c \in {NoReq} \cup Commitments,
         NEW y, y = With(x, d, l, c),
         Busy(x) # {} => l["running"] = x.locked["running"]
  PROVE  /\ Core(y) /\ Steady(x, y) /\ Busy(y) = Busy(x)
         /\ y.candidate = d /\ y.locked = l /\ y.commit = c
         /\ y.next = x.next /\ y.txn_locked = x.txn_locked /\ y.fate = x.fate
         /\ y.change = x.change /\ y.running = x.running /\ y.init = x.init
<1>1. x \in States /\ x.failed # "assert"
  BY DEF Core
<1>2. /\ y \in States /\ y.candidate = d /\ y.locked = l /\ y.commit = c
      /\ y.init = x.init /\ y.up = x.up /\ y.initEv = x.initEv
      /\ y.served = x.served /\ y.readers = x.readers /\ y.next = x.next
      /\ y.fate = x.fate /\ y.change = x.change /\ y.running = x.running
      /\ y.toBe = x.toBe /\ y.failed = x.failed /\ y.txn_locked = x.txn_locked
  BY <1>1 DEF States, With
<1>3. Core(y)
  <2>1. CASE Busy(x) = {}
    BY <1>1, <1>2, <2>1, CoreIdle
  <2>2. CASE Busy(x) # {}
    <3>1. CoreView(x) = CoreView(y)
      BY <1>2, <2>2 DEF CoreView
    <3> QED
      BY <1>1, <1>2, <3>1, SameCoreToBe
  <2> QED
    BY <2>1, <2>2
<1> QED
  BY <1>2, <1>3 DEF Steady, Grows, Busy

LEMMA LockOK ==
  ASSUME MgmtInv, NEW s \in Sessions, NEW ds \in DataStores, Lock(s, ds)
  PROVE  Manages
<1> DEFINE l == [m.locked EXCEPT ![ds] = s]
<1>1. Core(m) /\ CommitOK(m) /\ m \in States /\ m.locked \in Locks
  BY DEF MgmtInv, Core, States
<1>2. m' = [m EXCEPT !.locked = l] /\ m.locked[ds] = "nobody" /\ m.txn_locked = 0
  BY DEF Lock, Lockable
<1>3. m.commit = NoReq
  BY <1>1, <1>2, NoCommit
<1>4. l \in Locks /\ (Busy(m) # {} => l["running"] = m.locked["running"])
  BY <1>1, <1>2 DEF Locks, Holders, DataStores, Core
<1> HIDE DEF l
<1>5. m' = With(m, m.candidate, l, m.commit)
  BY <1>1, <1>2 DEF States, With
<1>6. m.candidate \in SUBSET Items /\ m.commit \in {NoReq} \cup Commitments
  BY <1>1 DEF States
<1>7. Core(m') /\ Steady(m, m') /\ m'.commit = m.commit
  BY <1>1, <1>4, <1>5, <1>6, LocalStep, SMTT(30)
<1> QED
  BY <1>3, <1>7, SteadyMoves DEF Manages, CommitOK

\* An UNLOCK message for a lock that is the session's own, or nobody's.
LEMMA UnlockOwnOK ==
  ASSUME MgmtInv, NEW s \in Sessions, NEW ds \in DataStores,
         m.locked[ds] \in {s, "nobody"}, m' = Unlock(m, ds, s)
  PROVE  Manages
<1> DEFINE l == [m.locked EXCEPT ![ds] = "nobody"]
<1>1. Core(m) /\ CommitOK(m) /\ m \in States /\ m.locked \in Locks
  BY DEF MgmtInv, Core, States
<1>2. m' = [m EXCEPT !.locked = l]
  BY DEF Unlock
<1>3. l \in Locks /\ (Busy(m) # {} => l["running"] = m.locked["running"])
  BY <1>1, <1>2, SessionNames DEF Locks, Holders, DataStores, Core
<1>4. l["candidate"] \in {m.locked["candidate"], "nobody"}
  BY <1>1 DEF Locks, DataStores
<1> HIDE DEF l
<1>5. m' = With(m, m.candidate, l, m.commit)
  BY <1>1, <1>2 DEF States, With
<1>6. m.candidate \in SUBSET Items /\ m.commit \in {NoReq} \cup Commitments
  BY <1>1 DEF States
<1>7. /\ Core(m') /\ Steady(m, m') /\ Busy(m') = Busy(m)
      /\ m'.candidate = m.candidate /\ m'.locked = l /\ m'.commit = m.commit
      /\ m'.next = m.next /\ m'.txn_locked = m.txn_locked /\ m'.fate = m.fate
      /\ m'.change = m.change /\ m'.running = m.running /\ m'.init = m.init
  BY <1>1, <1>3, <1>5, <1>6, LocalStep, SMTT(30)
<1>8. CommitOK(m')
  <2> SUFFICES ASSUME m.commit # NoReq PROVE Pending(m')
    BY <1>1, <1>7 DEF CommitOK
  <2>1. Pending(m) /\ Exclusive(m)
    BY <1>1 DEF CommitOK, Pending
  <2>2. m.commit.kind # "rollback"
    BY <1>2, <2>1, SessionNames DEF Exclusive
  <2>3. Exclusive(m')
    BY <1>7, <2>1, <2>2 DEF Exclusive
  <2>4. Protected(m) => Protected(m')
    BY <1>4, <1>7 DEF Protected, Diff
  <2> QED
    BY <1>7, <2>1, <2>3, <2>4 DEF Pending
<1> QED
  BY <1>7, <1>8, SteadyMoves DEF Manages

LEMMA UnlockDsOK ==
  ASSUME MgmtInv, NEW s \in Sessions, NEW ds \in DataStores, UnlockDs(s, ds)
  PROVE  Manages
<1>1. CASE m.locked[ds] \in {s, "nobody"} /\ m' = Unlock(m, ds, s)
  BY <1>1, UnlockOwnOK
<1>2. CASE m' = [m EXCEPT !.failed = "unlock"]
  <2>1. Core(m) /\ CommitOK(m) /\ m \in States
    BY DEF MgmtInv, Core
  <2>2. /\ m' \in States /\ m'.failed # "assert" /\ m'.toBe = m.toBe
        /\ CoreView(m) = CoreView(m') /\ CommitView(m) = CommitView(m')
    BY <1>2, <2>1 DEF States, CoreView, CommitView
  <2> QED
    BY <2>1, <2>2, SameManages, SteadyMoves DEF Manages
<1> QED
  BY <1>1, <1>2 DEF UnlockDs

LEMMA CloseSessionOK ==
  ASSUME MgmtInv, NEW s \in Sessions, CloseSession(s)
  PROVE  Manages
<1> DEFINE l == [ds \in DataStores |->
                   IF m.locked[ds] = s THEN "nobody" ELSE m.locked[ds]]
           c == IF Waits(s) THEN [m.commit EXCEPT !.session = NoSession] ELSE m.commit
<1>1. Core(m) /\ CommitOK(m) /\ m \in States /\ m.locked \in Locks
  BY DEF MgmtInv, Core, States
<1>2. m' = [m EXCEPT !.locked = l, !.commit = c]
  BY DEF CloseSession
<1>3. l \in Locks /\ (Busy(m) # {} => l["running"] = m.locked["running"])
  BY <1>1, SessionNames DEF Locks, Holders, DataStores, Core
<1>4. /\ m.commit = NoReq => c = NoReq
      /\ m.commit # NoReq =>
           /\ c # NoReq /\ c \in Commitments /\ c.id = m.commit.id
           /\ c.kind = m.commit.kind /\ c.phase = m.commit.phase
           /\ c.wait = m.commit.wait
           /\ c.session = IF m.commit.session = s THEN NoSession ELSE m.commit.session
  <2>1. CASE m.commit = NoReq
    BY <2>1 DEF Waits
  <2>2. CASE m.commit # NoReq
    <3>1. m.commit \in Commitments
      BY <1>1, <2>2 DEF States
    <3>2. Waits(s) <=> m.commit.session = s
      BY <2>2 DEF Waits
    <3>3. /\ c \in Commitments /\ c.id = m.commit.id
          /\ c.kind = m.commit.kind /\ c.phase = m.commit.phase
          /\ c.wait = m.commit.wait
          /\ c.session = IF m.commit.session = s THEN NoSession ELSE m.commit.session
      BY <3>1, <3>2 DEF Commitments
    <3>4. c # NoReq
      BY <3>3, SMTT(30) DEF Commitments, NoReq, TxnIds
    <3> QED
      BY <2>2, <3>3, <3>4
  <2> QED
    BY <2>1, <2>2
<1>5. \A ds \in DataStores : l[ds] = IF m.locked[ds] = s THEN "nobody" ELSE m.locked[ds]
  OBVIOUS
<1>6. (\A ds \in DataStores : m.locked[ds] # s) => l = m.locked
  BY <1>1 DEF Locks
<1> HIDE DEF l, c
<1>7. m' = With(m, m.candidate, l, c)
  BY <1>1, <1>2 DEF States, With
<1>8. m.candidate \in SUBSET Items /\ c \in {NoReq} \cup Commitments
  BY <1>1, <1>4 DEF States
<1>9. /\ Core(m') /\ Steady(m, m') /\ Busy(m') = Busy(m)
      /\ m'.candidate = m.candidate /\ m'.locked = l /\ m'.commit = c
      /\ m'.next = m.next /\ m'.txn_locked = m.txn_locked /\ m'.fate = m.fate
      /\ m'.change = m.change /\ m'.running = m.running /\ m'.init = m.init
  BY <1>1, <1>3, <1>7, <1>8, LocalStep, SMTT(30)
<1>10. CommitOK(m')
  <2> SUFFICES ASSUME m.commit # NoReq PROVE Pending(m') /\ c.wait # {}
    BY <1>4, <1>9 DEF CommitOK
  <2>1. Pending(m) /\ Exclusive(m) /\ m.commit.wait # {}
    BY <1>1 DEF CommitOK, Pending
  <2>2. m.commit.kind = "rollback" => l = m.locked
    BY <1>6, <2>1, SessionNames DEF Exclusive
  <2>3. Exclusive(m')
    BY <1>4, <1>9, <2>1, <2>2 DEF Exclusive
  <2>4. Protected(m) => Protected(m')
    BY <1>4, <1>5, <1>9 DEF Protected, Diff, DataStores
  <2> QED
    BY <1>4, <1>9, <2>1, <2>3, <2>4 DEF Pending
<1> QED
  BY <1>9, <1>10, SteadyMoves DEF Manages

LEMMA EditOK ==
  ASSUME MgmtInv, NEW s \in Sessions, Edit(s)
  PROVE  Manages
<1>1. Core(m) /\ CommitOK(m) /\ m \in States /\ m.locked \in Locks
  BY DEF MgmtInv, Core, States
<1>2. PICK d \in Targets : m' = [m EXCEPT !.candidate = d]
  BY DEF Edit
<1>3. m' = With(m, d, m.locked, m.commit)
  BY <1>1, <1>2 DEF States, With
<1>4. d \in SUBSET Items /\ m.commit \in {NoReq} \cup Commitments
  BY <1>1, CommitAssumption DEF States
<1>5. /\ Core(m') /\ Steady(m, m') /\ Busy(m') = Busy(m)
      /\ m'.candidate = d /\ m'.locked = m.locked /\ m'.commit = m.commit
      /\ m'.next = m.next /\ m'.txn_locked = m.txn_locked /\ m'.fate = m.fate
      /\ m'.change = m.change /\ m'.running = m.running /\ m'.init = m.init
  BY <1>1, <1>3, <1>4, LocalStep, SMTT(30)
<1>6. CommitOK(m')
  <2> SUFFICES ASSUME m.commit # NoReq PROVE Pending(m')
    BY <1>1, <1>5 DEF CommitOK
  <2>1. Pending(m) /\ Exclusive(m)
    BY <1>1 DEF CommitOK, Pending
  <2>2. Exclusive(m')
    BY <1>5, <2>1 DEF Exclusive
  <2>3. "pipeline" \in Disturbances
    <3> SUFFICES ASSUME "pipeline" \notin Disturbances PROVE FALSE
      OBVIOUS
    <3>1. m.commit.session # s /\ Protected(m)
      BY <2>1 DEF Edit, MayAsk, Waits, Pending
    <3>2. m.locked["candidate"] = s \/ (m.locked["candidate"] = "nobody" /\ m.txn_locked = 0)
      BY DEF Edit, Lockable
    <3>3. m.locked["candidate"] # "rollback"
      BY <3>2, SessionNames
    <3>4. m.commit.kind # "rollback"
      BY <2>1, <3>3 DEF Exclusive, DataStores
    <3>5. m.locked["candidate"] # s
      BY <3>1, <3>4, SessionNames DEF Protected
    <3>6. m.txn_locked = 0
      BY <3>2, <3>5
    <3> QED
      BY <1>1, <3>3, <3>6, NoCommit DEF DataStores
  <2> QED
    BY <1>5, <2>1, <2>2, <2>3 DEF Pending
<1> QED
  BY <1>5, <1>6, SteadyMoves DEF Manages

LEMMA CommitStepOK ==
  ASSUME MgmtInv, NEW s \in Sessions, Commit(s)
  PROVE  Manages
<1>1. Core(m) /\ CommitOK(m) /\ m.next \in TxnIds
  BY DEF MgmtInv, Commit, Request
<1>2. PICK kind \in {"apply", "validate", "abort"}, implicit \in BOOLEAN,
           check \in CheckResults :
        /\ kind = "validate" \/ m.locked["running"] = s
        /\ m' = Start(m, [NewCommit(m, kind, s) EXCEPT !.implicit = implicit], check)
  BY DEF Commit
<1> DEFINE c == [NewCommit(m, kind, s) EXCEPT !.implicit = implicit]
<1>3. /\ c \in Commitments /\ c.id = m.next /\ c.phase = "SEND_CFG" /\ c.kind = kind
      /\ c.session = s
  BY <1>1 DEF NewCommit, Commitments, Kinds
<1>4. m' = Start(m, c, check)
  BY <1>2
<1> HIDE DEF c
<1>5. m.txn_locked = 0 /\ m.locked["candidate"] = s
  BY DEF Commit
<1>6. m.commit = NoReq
  BY <1>1, <1>5, SessionNames, NoCommit DEF DataStores
<1>7. kind # "validate" => Busy(m) = {}
  BY <1>1, <1>2, SessionNames DEF Core
<1>8. c.kind # "rollback"
  BY <1>3
<1>9. Handled(m, m')
  BY <1>1, <1>3, <1>4, <1>5, <1>6, <1>7, <1>8, StartOK
<1> QED
  BY <1>9 DEF Handled, Manages

LEMMA EditRunningOK ==
  ASSUME MgmtInv, NEW s \in Sessions, EditRunning(s)
  PROVE  Manages
<1> DEFINE l == [ds \in DataStores |-> s]
           free == {ds \in DataStores : m.locked[ds] = "nobody"}
           c == [NewCommit(m, "edit", s) EXCEPT !.backup = m.candidate, !.unlock = free]
<1>1. /\ Core(m) /\ CommitOK(m) /\ m.next \in TxnIds /\ m \in States
      /\ m.candidate \subseteq Items
  BY DEF MgmtInv, EditRunning, Request, Core, States
<1>2. PICK d \in Targets, check \in CheckResults :
        m' = Start([m EXCEPT !.candidate = d, !.locked = l], c, check)
  BY DEF EditRunning
<1>3. /\ c \in Commitments /\ c.id = m.next /\ c.phase = "SEND_CFG" /\ c.kind = "edit"
      /\ c.session = s
  BY <1>1 DEF NewCommit, Commitments, Kinds
<1>4. m.txn_locked = 0 /\ \A ds \in DataStores : m.locked[ds] \in {s, "nobody"}
  BY DEF EditRunning
<1>5. m.commit = NoReq /\ Busy(m) = {}
  BY <1>1, <1>4, SessionNames, NoCommit DEF DataStores, Core
<1>6. l \in Locks /\ l["candidate"] = s
  BY DEF Locks, Holders, DataStores
<1>7. d \in SUBSET Items
  BY CommitAssumption
<1> DEFINE n == [m EXCEPT !.candidate = d, !.locked = l]
<1>8. m' = Start(n, c, check)
  BY <1>2
<1> HIDE DEF l, c
<1>9. n = With(m, d, l, m.commit)
  BY <1>1 DEF States, With
<1>10. m.commit \in {NoReq} \cup Commitments
  BY <1>5
<1> HIDE DEF n
<1>11. /\ Core(n) /\ Steady(m, n) /\ Busy(n) = Busy(m) /\ n.locked = l
       /\ n.commit = m.commit /\ n.next = m.next
  BY <1>1, <1>5, <1>6, <1>7, <1>9, <1>10, LocalStep, SMTT(30)
<1>12. Handled(n, m')
  <2>1. c.kind # "rollback"
    BY <1>3
  <2> QED
    BY <1>1, <1>3, <1>5, <1>6, <1>8, <1>11, <2>1, StartOK
<1> QED
  BY <1>11, <1>12, SteadyThenMoves DEF Handled, Manages

\* Rollback runs to its end, or to the first exchange with backends, before
\* rollback_vty is set.
LEMMA RollbackOK ==
  ASSUME MgmtInv, NEW k \in Nat, Rollback(k)
  PROVE  Manages
<1> DEFINE q == SubSeq(m.records, 1, Len(m.records) - k)
           n == [m EXCEPT !.records = q]
           d == q[Len(q)]
           r == [ds \in DataStores |-> "rollback"]
           l == [n EXCEPT !.candidate = d, !.locked = r]
           c == NewCommit(m, "rollback", NoSession)
<1>1. /\ Core(m) /\ CommitOK(m) /\ m.next \in TxnIds /\ m \in States
      /\ m.failed # "assert" /\ m.records \in Seq(SUBSET Items)
  BY DEF MgmtInv, Rollback, Request, Core, States
<1>2. k < Len(m.records)
  BY DEF Rollback
<1>3. q \in Seq(SUBSET Items) /\ d \in SUBSET Items
  <2>1. q \in Seq(SUBSET Items) /\ Len(q) = Len(m.records) - k
    BY <1>1, <1>2, SMTT(30)
  <2> HIDE DEF q
  <2> QED
    BY <1>1, <1>2, <2>1, SMTT(30)
<1>4. \/ m' = n
      \/ /\ \A ds \in DataStores : Lockable(ds)
         /\ \/ m' = [n EXCEPT !.candidate = d]
            \/ \E check : LET e == Start(l, c, check)
                          IN  m' = e \/ (e.failed = "no" /\ m' = [e EXCEPT !.vty = TRUE])
  <2>1. n.records = q
    BY <1>1 DEF States
  <2> QED
    BY <2>1 DEF Rollback
<1> HIDE DEF q, d
<1>5. /\ n \in States /\ CoreView(m) = CoreView(n) /\ CommitView(m) = CommitView(n)
      /\ n.failed # "assert" /\ n.toBe = m.toBe /\ n.commit = m.commit
      /\ n.locked = m.locked /\ n.txn_locked = m.txn_locked /\ n.next = m.next
  BY <1>1, <1>3 DEF States, CoreView, CommitView
<1> HIDE DEF n
<1>6. Core(n) /\ CommitOK(n) /\ Steady(m, n)
  BY <1>1, <1>5, SameManages
<1>7. CASE m' = n
  BY <1>6, <1>7, SteadyMoves DEF Manages
<1>8. ASSUME \A ds \in DataStores : Lockable(ds)
      PROVE  n.commit = NoReq /\ Busy(n) = {}
  <2>1. n.txn_locked = 0 /\ \A ds \in DataStores : n.locked[ds] = "nobody"
    BY <1>5, <1>8 DEF Lockable, DataStores
  <2>2. n.commit = NoReq
    BY <1>6, <2>1, NoCommit DEF DataStores
  <2> QED
    BY <1>6, <2>1, <2>2 DEF Core, DataStores
<1>9. CASE (\A ds \in DataStores : Lockable(ds)) /\ m' = [n EXCEPT !.candidate = d]
  <2>1. n.commit = NoReq /\ Busy(n) = {}
    BY <1>8, <1>9
  <2>2. m' = With(n, d, n.locked, n.commit)
    BY <1>5, <1>9 DEF With, States
  <2>3. n.locked \in Locks /\ n.commit \in {NoReq} \cup Commitments
    BY <1>5 DEF States
  <2>4. Core(m') /\ Steady(n, m') /\ m'.commit = n.commit
    BY <1>3, <1>6, <2>2, <2>3, LocalStep, SMTT(30)
  <2>5. Steady(m, m')
    BY <1>6, <2>4, SteadyTwice
  <2> QED
    BY <2>1, <2>4, <2>5, SteadyMoves DEF Manages, CommitOK
<1>10. ASSUME \A ds \in DataStores : Lockable(ds), NEW check, NEW e,
              e = Start(l, c, check),
              m' = e \/ (e.failed = "no" /\ m' = [e EXCEPT !.vty = TRUE])
       PROVE  Manages
  <2>1. n.commit = NoReq /\ Busy(n) = {}
    BY <1>8, <1>10
  <2>2. r \in Locks
    BY DEF Locks, Holders
  <2>3. l = With(n, d, r, n.commit)
    <3> HIDE DEF r
    <3> QED
      BY <1>5 DEF With, States
  <2>4. n.commit \in {NoReq} \cup Commitments
    BY <2>1
  <2> HIDE DEF l
  <2>5. /\ Core(l) /\ Steady(n, l) /\ Busy(l) = Busy(n) /\ l.locked = r
        /\ l.commit = n.commit /\ l.next = n.next
    <3> HIDE DEF r
    <3> QED
      BY <1>3, <1>6, <2>1, <2>2, <2>3, <2>4, LocalStep, SMTT(30)
  <2>6. /\ c \in Commitments /\ c.id = m.next /\ c.phase = "SEND_CFG"
        /\ c.kind = "rollback"
    BY <1>1 DEF NewCommit, Commitments, Kinds
  <2> HIDE DEF c
  <2>7. Handled(l, e)
    BY <1>1, <1>5, <1>10, <2>1, <2>5, <2>6, StartOK
  <2>8. Core(e) /\ CommitOK(e) /\ Moves(m, e)
    <3>1. Steady(m, l)
      BY <1>6, <2>5, SteadyTwice
    <3> QED
      BY <2>7, <3>1, SteadyThenMoves DEF Handled
  <2>9. CASE m' = e
    BY <2>8, <2>9 DEF Manages
  <2>10. CASE m' = [e EXCEPT !.vty = TRUE]
    <3>1. e \in States /\ e.failed # "assert"
      BY <2>8 DEF Core
    <3>2. /\ m' \in States /\ CoreView(e) = CoreView(m') /\ CommitView(e) = CommitView(m')
          /\ m'.failed # "assert" /\ m'.toBe = e.toBe
      BY <2>10, <3>1 DEF States, CoreView, CommitView
    <3>3. Core(m') /\ CommitOK(m') /\ Steady(e, m')
      BY <2>8, <3>2, SameManages
    <3> QED
      BY <2>8, <3>3, MovesThenSteady DEF Manages
  <2> QED
    BY <1>10, <2>9, <2>10
<1> QED
  BY <1>4, <1>7, <1>9, <1>10

-----------------------------------------------------------------------------
(* The steps of backends. *)

Sockets(x, b, t, r) == [x EXCEPT !.toBe[b] = t, !.toMg[b] = r]

\* What is left of a queue that was read.
PartOf(t, q) == \A i \in DOMAIN t : \E j \in DOMAIN q : t[i] = q[j]

\* A backend reads some of what it was sent and writes.
LEMMA SocketsOK ==
  ASSUME NEW x, Core(x), CommitOK(x), NEW b \in Backends,
         NEW t \in Seq(Orders), NEW r \in Seq(Replies),
         PartOf(t, x.toBe[b]),
         NEW y, y = Sockets(x, b, t, r)
  PROVE  /\ Core(y) /\ CommitOK(y)
         /\ y.running = x.running /\ y.fate = x.fate /\ y.change = x.change
<1> DEFINE p == [x.toBe EXCEPT ![b] = t]
           q == [x.toMg EXCEPT ![b] = r]
<1>1. /\ x \in States /\ x.failed # "assert"
      /\ x.toBe \in OrderQueues /\ x.toMg \in ReplyQueues
  BY DEF Core, States
<1>2. p \in OrderQueues /\ q \in ReplyQueues
  BY <1>1 DEF OrderQueues, ReplyQueues
<1>3. \A c \in Backends : \A i \in DOMAIN p[c] : OrderOK(x, c, p[c][i])
  <2>1. \A i \in DOMAIN t : OrderOK(x, b, t[i])
    BY DEF Core, PartOf
  <2>2. p[b] = t /\ \A c \in Backends : c # b => p[c] = x.toBe[c]
    BY <1>1 DEF OrderQueues
  <2> HIDE DEF p
  <2> QED
    BY <2>1, <2>2 DEF Core
<1>4. y = [x EXCEPT !.toBe = p, !.toMg = q]
  BY DEF Sockets
<1> HIDE DEF p, q
<1>5. /\ y \in States /\ CoreView(x) = CoreView(y) /\ CommitView(x) = CommitView(y)
      /\ y.failed # "assert" /\ y.toBe = p
      /\ y.running = x.running /\ y.fate = x.fate /\ y.change = x.change
  BY <1>1, <1>2, <1>4 DEF States, CoreView, CommitView
<1>6. Core(y)
  BY <1>3, <1>5, SameCore
<1>7. CommitOK(y)
  BY <1>5, SameCommit
<1> QED
  BY <1>5, <1>6, <1>7

\* What the step of a backend may do to its configuration.
Applies(b, d) ==
  \/ d = be[b].cfg
  \/ d = {}
  \/ \E t \in TxnIds :
       m.fate[t] = "applied" /\ d = Patch(be[b].cfg, Narrow(m.change[t], Interest[b]))

Obeys(b) ==
  /\ Core(m') /\ CommitOK(m')
  /\ m'.running = m.running /\ m'.fate = m.fate /\ m'.change = m.change
  /\ DOMAIN be' = Backends
  /\ BackendOK(m, be'[b], b)
  /\ Applies(b, be'[b].cfg)
  /\ \A c \in Backends : c # b => be'[c] = be[c]

\* The types of what a backend reads.
LEMMA HeadOK ==
  ASSUME MgmtInv, NEW b \in Backends, NEW type, Reads(b, type)
  PROVE  /\ Head(m.toBe[b]) \in Orders
         /\ OrderOK(m, b, Head(m.toBe[b]))
         /\ Tail(m.toBe[b]) \in Seq(Orders)
         /\ PartOf(Tail(m.toBe[b]), m.toBe[b])
         /\ type # "EOF" => Head(m.toBe[b]).id \in TxnIds
         /\ be[b].conn
<1> DEFINE q == m.toBe[b]
<1>1. q \in Seq(Orders) /\ q # <<>> /\ Head(q).type = type /\ be[b].conn
  BY DEF MgmtInv, Core, States, OrderQueues, Reads
<1>2. \A i \in DOMAIN q : OrderOK(m, b, q[i])
  BY DEF MgmtInv, Core
<1> HIDE DEF q
<1>3. Head(q) = q[1] /\ 1 \in DOMAIN q
  BY <1>1, SMTT(30)
<1>4. Head(q) \in Orders /\ OrderOK(m, b, Head(q))
  BY <1>1, <1>2, <1>3, SMTT(30)
<1>5. Tail(q) \in Seq(Orders) /\ \A i \in DOMAIN Tail(q) : i + 1 \in DOMAIN q /\ Tail(q)[i] = q[i + 1]
  BY <1>1, SMTT(30)
<1>6. PartOf(Tail(q), q)
  BY <1>5 DEF PartOf
<1>7. type # "EOF" => Head(q).id \in TxnIds
  BY <1>1, <1>4, SMTT(30) DEF Orders, EOF
<1> QED
  BY <1>1, <1>4, <1>5, <1>6, <1>7 DEF q

LEMMA AnswerOK ==
  ASSUME MgmtInv, NEW b \in Backends, NEW type, Reads(b, type),
         NEW msg \in Replies, Answer(b, msg)
  PROVE  /\ Core(m') /\ CommitOK(m')
         /\ m'.running = m.running /\ m'.fate = m.fate /\ m'.change = m.change
<1> DEFINE r == IF Holds(m.toBe[b], EOF) THEN m.toMg[b] ELSE Append(m.toMg[b], msg)
           t == Tail(m.toBe[b])
<1>1. Core(m) /\ CommitOK(m) /\ m.toMg[b] \in Seq(Replies)
  BY DEF MgmtInv, Core, States, ReplyQueues
<1>2. r \in Seq(Replies)
  BY <1>1, SMTT(30)
<1>3. /\ t \in Seq(Orders)
      /\ PartOf(t, m.toBe[b])
  BY HeadOK
<1>4. m' = Sockets(m, b, t, r)
  BY DEF Answer, Sockets
<1> HIDE DEF r, t
<1> QED
  BY <1>1, <1>2, <1>3, <1>4, SocketsOK, SMTT(30)

LEMMA BeClosesOK ==
  ASSUME MgmtInv, NEW b \in Backends, NEW d, d \in {be[b].cfg, {}}, BeCloses(b, d)
  PROVE  Obeys(b)
<1> DEFINE r == IF Holds(m.toBe[b], EOF) THEN m.toMg[b] ELSE Append(m.toMg[b], EOF)
           t == << >>
           e == [conn |-> FALSE, cfg |-> d, txn |-> NoTxn]
<1>1. /\ Core(m) /\ CommitOK(m) /\ m.toMg[b] \in Seq(Replies)
      /\ DOMAIN be = Backends /\ BackendOK(m, be[b], b)
  BY DEF MgmtInv, Core, States, ReplyQueues
<1>2. r \in Seq(Replies)
  BY <1>1, SMTT(30) DEF Replies
<1>3. t \in Seq(Orders) /\ PartOf(t, m.toBe[b])
  BY SMTT(30) DEF PartOf
<1>4. m' = Sockets(m, b, t, r)
  BY DEF BeCloses, Sockets
<1> HIDE DEF r, t
<1>5. /\ Core(m') /\ CommitOK(m')
      /\ m'.running = m.running /\ m'.fate = m.fate /\ m'.change = m.change
  BY <1>1, <1>2, <1>3, <1>4, SocketsOK, SMTT(30)
<1>6. /\ DOMAIN be' = Backends /\ be'[b] = e /\ \A c \in Backends : c # b => be'[c] = be[c]
  BY <1>1 DEF BeCloses
<1>7. BackendOK(m, e, b) /\ e.cfg = d
  BY <1>1 DEF BackendOK
<1> QED
  BY <1>5, <1>6, <1>7 DEF Obeys, Applies

LEMMA BackendStepOK ==
  ASSUME MgmtInv, NEW b \in Backends, BackendStep(b)
  PROVE  Obeys(b)
<1> DEFINE msg == Head(m.toBe[b])
<1>1. /\ Core(m) /\ CommitOK(m) /\ m \in States /\ m.toMg[b] \in Seq(Replies)
      /\ m.toBe[b] \in Seq(Orders)
      /\ DOMAIN be = Backends /\ BackendOK(m, be[b], b)
  BY DEF MgmtInv, Core, States, ReplyQueues, OrderQueues
<1>2. ASSUME BeDrops(b)
      PROVE  Obeys(b)
  BY <1>2, BeClosesOK DEF BeDrops
<1>3. CASE BeConnect(b)
  <2> DEFINE r == Append(m.toMg[b], SUBSCRIBE)
             t == m.toBe[b]
             e == [be[b] EXCEPT !.conn = TRUE]
  <2>1. r \in Seq(Replies)
    BY <1>1, SMTT(30) DEF Replies
  <2>2. m' = Sockets(m, b, t, r)
    BY <1>1, <1>3 DEF BeConnect, Sockets, States, OrderQueues
  <2>3. PartOf(t, m.toBe[b])
    BY DEF PartOf
  <2> HIDE DEF r
  <2>4. /\ Core(m') /\ CommitOK(m')
        /\ m'.running = m.running /\ m'.fate = m.fate /\ m'.change = m.change
    BY <1>1, <2>1, <2>2, <2>3, SocketsOK, SMTT(30)
  <2>5. BackendOK(m, e, b) /\ e.cfg = be[b].cfg
    BY <1>1, <1>3 DEF BackendOK, BeConnect
  <2>6. /\ DOMAIN be' = Backends /\ be'[b] = e
        /\ \A c \in Backends : c # b => be'[c] = be[c]
    BY <1>1, <1>3 DEF BeConnect
  <2> QED
    BY <2>4, <2>5, <2>6 DEF Obeys, Applies
<1>4. CASE BeCfg(b)
  <2>1. /\ Reads(b, "CFG_REQ") /\ be[b].conn /\ msg \in Orders /\ msg.type = "CFG_REQ"
        /\ OrderOK(m, b, msg) /\ msg.id \in TxnIds
    BY <1>4, HeadOK DEF BeCfg, Reads
  <2> HIDE DEF msg
  <2>2. msg.change \in Change
    BY <2>1, SMTT(30) DEF Orders, EOF
  <2>3. CASE /\ be[b].txn = NoTxn
             /\ be' = [be EXCEPT ![b].txn =
                  [id |-> msg.id, candidate |-> Patch(be[b].cfg, msg.change)]]
             /\ Answer(b, Msg("CFG_REPLY", msg.id))
    <3> DEFINE x == [id |-> msg.id, candidate |-> Patch(be[b].cfg, msg.change)]
               e == [be[b] EXCEPT !.txn = x]
    <3>1. Msg("CFG_REPLY", msg.id) \in Replies
      BY <2>1 DEF Msg, Replies
    <3>2. /\ Core(m') /\ CommitOK(m')
          /\ m'.running = m.running /\ m'.fate = m.fate /\ m'.change = m.change
      BY <2>1, <2>3, <3>1, AnswerOK
    <3>3. Patch(be[b].cfg, msg.change) \in SUBSET Items
      BY <1>1, <2>2 DEF BackendOK, Patch, Change
    <3>4. /\ m.fate[msg.id] # "idle"
          /\ msg.change = Narrow(m.change[msg.id], Interest[b])
      BY <2>1 DEF OrderOK
    <3>5. BackendOK(m, e, b) /\ e.cfg = be[b].cfg
      BY <1>1, <2>1, <3>3, <3>4 DEF BackendOK
    <3>6. /\ DOMAIN be' = Backends /\ be'[b] = e
          /\ \A c \in Backends : c # b => be'[c] = be[c]
      BY <1>1, <2>3
    <3> QED
      BY <3>2, <3>5, <3>6 DEF Obeys, Applies
  <2>4. CASE Answer(b, Msg("ERROR", msg.id)) /\ be' = be
    <3>1. Msg("ERROR", msg.id) \in Replies
      BY <2>1 DEF Msg, Replies
    <3>2. /\ Core(m') /\ CommitOK(m')
          /\ m'.running = m.running /\ m'.fate = m.fate /\ m'.change = m.change
      BY <2>1, <2>4, <3>1, AnswerOK
    <3> QED
      BY <1>1, <2>4, <3>2 DEF Obeys, Applies
  <2> QED
    BY <1>2, <1>4, <2>3, <2>4 DEF BeCfg, msg
<1>5. CASE BeCfgApply(b)
  <2>1. /\ Reads(b, "CFG_APPLY_REQ") /\ be[b].conn /\ msg.type = "CFG_APPLY_REQ"
        /\ OrderOK(m, b, msg) /\ msg.id \in TxnIds
    BY <1>5, HeadOK DEF BeCfgApply, Reads
  <2>2. \/ BeDrops(b)
        \/ /\ be[b].txn.id = msg.id
           /\ be' = [be EXCEPT ![b] =
                [conn |-> TRUE, cfg |-> be[b].txn.candidate, txn |-> NoTxn]]
           /\ Answer(b, Msg("CFG_APPLY_REPLY", msg.id))
    BY <1>5 DEF BeCfgApply
  <2> HIDE DEF msg
  <2>3. CASE /\ be[b].txn.id = msg.id
             /\ be' = [be EXCEPT ![b] =
                  [conn |-> TRUE, cfg |-> be[b].txn.candidate, txn |-> NoTxn]]
             /\ Answer(b, Msg("CFG_APPLY_REPLY", msg.id))
    <3> DEFINE e == [conn |-> TRUE, cfg |-> be[b].txn.candidate, txn |-> NoTxn]
    <3>1. Msg("CFG_APPLY_REPLY", msg.id) \in Replies
      BY <2>1 DEF Msg, Replies
    <3>2. /\ Core(m') /\ CommitOK(m')
          /\ m'.running = m.running /\ m'.fate = m.fate /\ m'.change = m.change
      BY <2>1, <2>3, <3>1, AnswerOK
    <3>3. be[b].txn # NoTxn
      BY <2>1, <2>3, SMTT(30) DEF NoTxn, TxnIds
    <3>4. /\ be[b].txn.candidate \in SUBSET Items
          /\ be[b].txn.candidate = Patch(be[b].cfg, Narrow(m.change[msg.id], Interest[b]))
      BY <1>1, <2>3, <3>3 DEF BackendOK
    <3>5. BackendOK(m, e, b) /\ e.cfg = be[b].txn.candidate
      BY <3>4 DEF BackendOK
    <3>6. m.fate[msg.id] = "applied"
      BY <2>1 DEF OrderOK
    <3>7. /\ DOMAIN be' = Backends /\ be'[b] = e
          /\ \A c \in Backends : c # b => be'[c] = be[c]
      BY <1>1, <2>3
    <3> QED
      BY <2>1, <3>2, <3>4, <3>5, <3>6, <3>7 DEF Obeys, Applies
  <2> QED
    BY <1>2, <2>2, <2>3
<1>6. CASE BeTxnDelete(b)
  <2>1. Reads(b, "TXN_DELETE") /\ be[b].conn
    BY <1>6, HeadOK DEF BeTxnDelete, Reads
  <2>2. \/ BeDrops(b)
        \/ /\ be' = [be EXCEPT ![b].txn = NoTxn]
           /\ m' = [m EXCEPT !.toBe[b] = Tail(@)]
    BY <1>6 DEF BeTxnDelete
  <2>3. CASE /\ be' = [be EXCEPT ![b].txn = NoTxn]
             /\ m' = [m EXCEPT !.toBe[b] = Tail(@)]
    <3> DEFINE t == Tail(m.toBe[b])
               r == m.toMg[b]
               e == [be[b] EXCEPT !.txn = NoTxn]
    <3>1. /\ t \in Seq(Orders)
          /\ PartOf(t, m.toBe[b])
      BY <2>1, HeadOK
    <3>2. m' = Sockets(m, b, t, r)
      BY <1>1, <2>3 DEF Sockets, States, ReplyQueues
    <3> HIDE DEF t
    <3>3. /\ Core(m') /\ CommitOK(m')
          /\ m'.running = m.running /\ m'.fate = m.fate /\ m'.change = m.change
      BY <1>1, <3>1, <3>2, SocketsOK, SMTT(30)
    <3>4. BackendOK(m, e, b) /\ e.cfg = be[b].cfg
      BY <1>1 DEF BackendOK
    <3>5. /\ DOMAIN be' = Backends /\ be'[b] = e
          /\ \A c \in Backends : c # b => be'[c] = be[c]
      BY <1>1, <2>3
    <3> QED
      BY <3>3, <3>4, <3>5 DEF Obeys, Applies
  <2> QED
    BY <1>2, <2>2, <2>3
<1>7. CASE BeClosed(b)
  BY <1>2, <1>7 DEF BeClosed
<1>8. CASE BeRestart(b)
  <2>1. CASE be[b].conn
    BY <1>8, <2>1, BeClosesOK DEF BeRestart
  <2>2. CASE ~be[b].conn
    <3> DEFINE e == [be[b] EXCEPT !.cfg = {}]
    <3>1. m' = m /\ be' = [be EXCEPT ![b].cfg = {}]
      BY <1>8, <2>2 DEF BeRestart
    <3>2. BackendOK(m, e, b) /\ e.cfg = {}
      BY <1>1, <2>2 DEF BackendOK
    <3>3. /\ DOMAIN be' = Backends /\ be'[b] = e
          /\ \A c \in Backends : c # b => be'[c] = be[c]
      BY <1>1, <3>1
    <3> QED
      BY <1>1, <3>1, <3>2, <3>3 DEF Obeys, Applies
  <2> QED
    BY <2>1, <2>2
<1> QED
  BY <1>3, <1>4, <1>5, <1>6, <1>7, <1>8 DEF BackendStep

-----------------------------------------------------------------------------
(* The invariant, and what follows from it. *)

\* A step is one of mgmtd, which leaves the backends alone, or of a backend.
LEMMA StepOK ==
  ASSUME MgmtInv, Next
  PROVE  \/ Manages /\ be' = be
         \/ \E b \in Backends : Obeys(b)
<1>1. CASE \E b \in Backends : BackendStep(b)
  BY <1>1, BackendStepOK
<1>2. ASSUME NEW b \in Backends, MgmtdStep(b)
      PROVE  Manages /\ be' = be
  <2>1. be' = be
    BY <1>2 DEF MgmtdStep, MgSubscribe, MgPeerClosed, MgMessage, ConnInit
  <2>2. CASE MgPeerClosed(b)
    BY <2>2, BeDeleteOK DEF MgPeerClosed, MgmtInv, Handled, Manages
  <2> QED
    BY <1>2, <2>1, <2>2, MgSubscribeOK, MgMessageOK, ConnInitOK DEF MgmtdStep
<1>3. ASSUME NEW s \in Sessions, SessionStep(s)
      PROVE  Manages /\ be' = be
  <2>1. be' = be
    BY <1>3 DEF SessionStep, Lock, UnlockDs, CloseSession, Commit, Edit, EditRunning, Request
  <2> QED
    BY <1>3, <2>1, LockOK, UnlockDsOK, CloseSessionOK, CommitStepOK, EditOK, EditRunningOK
       DEF SessionStep
<1>4. ASSUME NEW k \in 1 .. Len(m.records), Rollback(k)
      PROVE  Manages /\ be' = be
  <2>1. k \in Nat
    BY SMTT(30)
  <2>2. be' = be
    BY <1>4 DEF Rollback, Request
  <2> QED
    BY <1>4, <2>1, <2>2, RollbackOK
<1>5. CASE Timeout
  BY <1>5, TimeoutOK DEF Timeout
<1> QED
  BY <1>1, <1>2, <1>3, <1>4, <1>5 DEF Next

LEMMA MgmtInvHolds == Spec => []MgmtInv
<1>1. Init => MgmtInv
  <2> SUFFICES ASSUME Init PROVE MgmtInv
    OBVIOUS
  <2> DEFINE l == [ds \in DataStores |-> "nobody"]
             i == [b \in Backends |-> NoReq]
             q == [b \in Backends |-> <<>>]
             f == [t \in TxnIds |-> "idle"]
             g == [t \in TxnIds |-> [set |-> {}, del |-> {}]]
  <2>1. m = [running |-> {}, candidate |-> {}, locked |-> l,
             txn_locked |-> 0, readers |-> 0, commit |-> NoReq, init |-> i,
             up |-> FirstUp, initEv |-> {}, served |-> FirstUp,
             records |-> FirstRecords, vty |-> FALSE, failed |-> "no",
             toBe |-> q, toMg |-> q, next |-> 1, fate |-> f, change |-> g]
    BY DEF Init
  <2>2. l \in Locks /\ i \in InitMaps /\ q \in OrderQueues /\ q \in ReplyQueues
    BY SMTT(30) DEF Locks, Holders, InitMaps, OrderQueues, ReplyQueues
  <2>3. f \in FateMaps /\ g \in ChangeMaps
    BY DEF FateMaps, Fates, ChangeMaps, Change
  <2>4. /\ \A b \in Backends : i[b] = NoReq /\ q[b] = <<>>
        /\ \A t \in TxnIds : f[t] = "idle"
    OBVIOUS
  <2> HIDE DEF l, i, q, f, g
  <2>5. m \in States
    <3>1. 0 \in Nat /\ 1 \in Nat \ {0} /\ FALSE \in BOOLEAN
      BY SMTT(30)
    <3>2. FirstUp \in SUBSET Backends /\ FirstRecords \in Seq(SUBSET Items)
      BY CommitAssumption
    <3> QED
      BY <2>1, <2>2, <2>3, <3>1, <3>2 DEF States
  <2>6. Busy(m) = {} /\ Cardinality(Busy(m)) = 0
    BY <2>1, <2>4, FS_EmptySet DEF Busy
  <2>7. \A b \in Backends : \A j \in DOMAIN m.toBe[b] : OrderOK(m, b, m.toBe[b][j])
    <3>1. m.toBe = q
      BY <2>1
    <3>2. \A b \in Backends : DOMAIN q[b] = {}
      BY <2>4, SMTT(30)
    <3> QED
      BY <3>1, <3>2
  <2>8. Core(m)
    BY <2>1, <2>4, <2>5, <2>6, <2>7 DEF Core
  <2>9. CommitOK(m)
    BY <2>1 DEF CommitOK
  <2>10. \A b \in Backends : BackendOK(m, be[b], b)
    BY SMTT(30) DEF Init, BackendOK
  <2> QED
    BY <2>8, <2>9, <2>10 DEF MgmtInv, Init
<1>2. MgmtInv /\ [Next]_vars => MgmtInv'
  <2> SUFFICES ASSUME MgmtInv, [Next]_vars PROVE MgmtInv'
    OBVIOUS
  <2>1. CASE UNCHANGED vars
    BY <2>1 DEF vars, MgmtInv
  <2>2. CASE Manages /\ be' = be
    <3>1. Grows(m, m')
      BY <2>2 DEF Manages, Moves
    <3>2. \A b \in Backends : BackendOK(m', be[b], b)
      BY <3>1, BackendStays DEF MgmtInv
    <3> QED
      BY <2>2, <3>2 DEF MgmtInv, Manages
  <2>3. ASSUME NEW b \in Backends, Obeys(b) PROVE MgmtInv'
    <3>1. \A c \in Backends : BackendOK(m, be'[c], c)
      BY <2>3 DEF Obeys, MgmtInv
    <3>2. Grows(m, m')
      BY <2>3 DEF Obeys, Grows
    <3>3. \A c \in Backends : BackendOK(m', be'[c], c)
      BY <3>1, <3>2, BackendStays
    <3> QED
      BY <2>3, <3>3 DEF Obeys, MgmtInv
  <2>4. CASE Next
    BY <2>2, <2>3, <2>4, StepOK
  <2> QED
    BY <2>1, <2>4
<1> QED
  BY <1>1, <1>2, PTL DEF Spec

\* Between two events a commit request waits for somebody, in one of the two
\* phases that wait, and the backends being initialised are counted
\* (txn_init_readers) among the connected ones.
THEOREM MgmtTypes == Spec => []TypeOK
<1>1. MgmtInv => TypeOK
  <2> SUFFICES ASSUME MgmtInv PROVE TypeOK
    OBVIOUS
  <2>1. Core(m) /\ m \in States /\ CommitOK(m)
    BY DEF MgmtInv, Core
  <2>2. m.readers \in 0 .. Cardinality(Backends)
    <3>1. Busy(m) \subseteq Backends
      BY DEF Busy
    <3>2. Cardinality(Busy(m)) <= Cardinality(Backends)
      BY <3>1, BackendsAssumption, FS_Subset
    <3>3. Cardinality(Backends) \in Nat
      BY BackendsAssumption, FS_CardinalityType
    <3> QED
      BY <2>1, <3>2, <3>3, SMTT(30) DEF Core, States
  <2>3. m.commit = NoReq \/ (m.commit \in Commits /\ m.commit.wait # {})
    BY <2>1 DEF CommitOK, Pending, Exclusive, Commitments, Commits, Kinds
  <2>4. \A b \in Backends : be[b].cfg \subseteq Items /\ be[b].conn \in BOOLEAN
    BY DEF MgmtInv, BackendOK
  <2>5. /\ m.running \subseteq Items /\ m.candidate \subseteq Items
        /\ m.locked \in [DataStores -> Holders]
        /\ m.txn_locked \in TxnIds \cup {0}
        /\ m.init \in [Backends -> {NoReq} \cup [id : TxnIds, phase : {"SEND_CFG", "APPLY"}]]
        /\ m.up \subseteq Backends
        /\ m.vty \in BOOLEAN /\ m.failed \in {"no", "assert", "null", "unlock"}
    BY <2>1 DEF States, Locks, InitMaps, InitRequests
  <2>6. m.initEv \subseteq m.up /\ m.served \subseteq m.up
    BY <2>1 DEF Core
  <2> QED
    BY <2>2, <2>3, <2>4, <2>5, <2>6 DEF TypeOK
<1> QED
  BY <1>1, MgmtInvHolds, PTL

\* No assertion of mgmtd fails by what mgmtd does: its transactions, rollbacks
\* and ending sessions unlock only what is theirs (mgmt_ds_unlock), and a commit
\* finds no other configuration transaction in progress
\* (fe_session_handle_commit), however sessions, backends, timeouts and the
\* rollback command interleave.  The one assertion that can fail is that of
\* mgmt_ds_unlock on the UNLOCK message of a session that does not hold the
\* lock, for which m.failed is "unlock".
THEOREM MgmtAssertions == Spec => []NoAssertFails
<1>1. MgmtInv => NoAssertFails
  BY DEF MgmtInv, Core, NoAssertFails
<1> QED
  BY <1>1, MgmtInvHolds, PTL

\* While a backend is being sent its initial configuration
\* (txn_cfg_be_client_connect), that is what running holds for it, and running
\* stays locked for these requests until the last one ends.
THEOREM MgmtInitial == Spec => []InitIsCurrent
<1>1. MgmtInv => InitIsCurrent
  <2> SUFFICES ASSUME MgmtInv, NEW b \in Backends, m.init[b] # NoReq
               PROVE  /\ m.change[m.init[b].id].set = m.running \cap Interest[b]
                      /\ m.locked["running"] = "init"
    BY DEF InitIsCurrent
  <2>1. b \in Busy(m)
    BY DEF Busy
  <2>2. InitOK(m, b) /\ m.locked["running"] = "init"
    BY <2>1 DEF MgmtInv, Core
  <2> QED
    BY <2>2, SMTT(30) DEF InitOK
<1> QED
  BY <1>1, MgmtInvHolds, PTL

\* The exchange with the backends implements the atomic change: a fate is
\* final, and running (txn_finish_commit) and the backends
\* (be_client_handle_cfg_apply) change by applied transactions only, as long as
\* a session awaits the reply to its commit before its next request.
THEOREM MgmtAtomic ==
  ASSUME "pipeline" \notin Disturbances
  PROVE  Spec => Refines
<1>1. ASSUME Init PROVE Atomic!AInit
  <2>1. [b \in Backends |-> be[b].cfg] = [b \in Backends |-> {}]
    BY <1>1 DEF Init
  <2>2. /\ m.running = {} /\ m.fate = [t \in TxnIds |-> "idle"]
        /\ m.change = [t \in TxnIds |-> [set |-> {}, del |-> {}]]
    BY <1>1 DEF Init
  <2> QED
    BY <2>1, <2>2 DEF Atomic!AInit, Atomic!NoChange
<1>2. MgmtInv /\ [Next]_vars => [Atomic!ANext]_(Atomic!avars)
  <2> SUFFICES ASSUME MgmtInv, [Next]_vars
               PROVE  Atomic!ANext \/ UNCHANGED Atomic!avars
    BY DEF Atomic!avars
  <2>1. CASE UNCHANGED vars
    BY <2>1 DEF vars, Atomic!avars
  <2>2. CASE Manages /\ be' = be
    <3>1. /\ Grows(m, m')
          /\ \/ m'.running = m.running
             \/ \E t \in TxnIds : m'.fate[t] = "applied"
                                  /\ m'.running = Patch(m.running, m'.change[t])
      BY <2>2 DEF Manages, Moves
    <3>2. Atomic!Coordinate
      BY <2>2, <3>1 DEF Atomic!Coordinate, Grows, Patch, Atomic!Patch
    <3> QED
      BY <3>2 DEF Atomic!ANext
  <2>3. ASSUME NEW b \in Backends, Obeys(b)
        PROVE  Atomic!ANext \/ UNCHANGED Atomic!avars
    <3> DEFINE old == [c \in Backends |-> be[c].cfg]
               new == [c \in Backends |-> be'[c].cfg]
    <3>1. new = [old EXCEPT ![b] = be'[b].cfg] /\ old[b] = be[b].cfg
      BY <2>3 DEF Obeys
    <3>2. m'.running = m.running /\ m'.fate = m.fate /\ m'.change = m.change
      BY <2>3 DEF Obeys
    <3>3. CASE be'[b].cfg = be[b].cfg
      <4>1. new = old
        BY <3>1, <3>3
      <4> QED
        BY <3>2, <4>1 DEF Atomic!avars
    <3>4. CASE be'[b].cfg = {}
      <4>1. Atomic!Restart(b)
        BY <3>1, <3>2, <3>4 DEF Atomic!Restart
      <4> QED
        BY <4>1 DEF Atomic!ANext
    <3>5. CASE \E t \in TxnIds : /\ m.fate[t] = "applied"
                                 /\ be'[b].cfg = Patch(be[b].cfg,
                                                   Narrow(m.change[t], Interest[b]))
      <4>1. Atomic!Apply(b)
        BY <3>1, <3>2, <3>5
           DEF Atomic!Apply, Patch, Atomic!Patch, Narrow, Atomic!Narrow
      <4> QED
        BY <4>1 DEF Atomic!ANext
    <3> QED
      BY <2>3, <3>3, <3>4, <3>5 DEF Obeys, Applies
  <2>4. CASE Next
    BY <2>2, <2>3, <2>4, StepOK
  <2> QED
    BY <2>1, <2>4
<1> QED
  BY <1>1, <1>2, MgmtInvHolds, PTL DEF Spec, Refines, Atomic!ASpec

=============================================================================
