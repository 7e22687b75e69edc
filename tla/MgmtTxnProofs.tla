---------------------------- MODULE MgmtTxnProofs ----------------------------
(***************************************************************************)
(* What the handlers of a transaction keep, for any backends, sessions,    *)
(* nodes and numbers of requests: the state of mgmtd stays in order, the   *)
(* commit request that waits excludes the others, and fates are final.     *)
(***************************************************************************)
EXTENDS MgmtCommit, FiniteSetTheorems, WellFoundedInduction, TLAPS

\* Most leaves are first-order; the ones that need arithmetic say SMT.
USE ZenonT(30)

-----------------------------------------------------------------------------
(* The state of mgmtd. *)

Change == [set : SUBSET Items, del : SUBSET Items]

Kinds == {"apply", "validate", "abort", "edit", "rollback"}

\* Commit requests while a handler runs; between two of them nothing is in
\* the phase FINISH.
Commitments ==
  [id : TxnIds, kind : Kinds,
   session : Sessions \cup {NoSession}, phase : {"SEND_CFG", "APPLY", "FINISH"},
   clients : SUBSET Backends, wait : SUBSET Backends,
   backup : SUBSET Items, unlock : SUBSET DataStores, implicit : BOOLEAN]

InitRequests == [id : TxnIds, phase : {"SEND_CFG", "APPLY"}]

\* What mgmtd sends to a backend.
Orders ==
  [type : {"CFG_REQ"}, id : TxnIds, change : Change]
    \cup [type : {"CFG_APPLY_REQ", "TXN_DELETE"}, id : TxnIds]
    \cup {EOF}

\* What a backend sends to mgmtd.
Replies ==
  [type : {"CFG_REPLY", "CFG_APPLY_REPLY", "ERROR"}, id : TxnIds]
    \cup {EOF, SUBSCRIBE}

Fates == {"idle", "open", "applied", "dropped"}

Locks == [DataStores -> Holders]
InitMaps == [Backends -> {NoReq} \cup InitRequests]
FateMaps == [TxnIds -> Fates]
ChangeMaps == [TxnIds -> Change]
OrderQueues == [Backends -> Seq(Orders)]
ReplyQueues == [Backends -> Seq(Replies)]

States ==
  [running : SUBSET Items, candidate : SUBSET Items, locked : Locks,
   txn_locked : TxnIds \cup {0}, readers : Nat,
   commit : {NoReq} \cup Commitments, init : InitMaps,
   up : SUBSET Backends, initEv : SUBSET Backends, served : SUBSET Backends,
   records : Seq(SUBSET Items), vty : BOOLEAN,
   failed : {"no", "assert", "null", "unlock"}, toBe : OrderQueues, toMg : ReplyQueues,
   next : Nat \ {0}, fate : FateMaps, change : ChangeMaps]

\* The backends being sent their initial configuration.
Busy(x) == {b \in Backends : x.init[b] # NoReq}

\* A request for b and its transaction: open while it is prepared, applied
\* afterwards, and creating what running holds for b.
InitOK(x, b) ==
  LET r == x.init[b]
  IN  /\ r.id < x.next
      /\ x.fate[r.id] = IF r.phase = "SEND_CFG" THEN "open" ELSE "applied"
      /\ x.change[r.id] = [set |-> x.running \cap Interest[b], del |-> {}]

\* A message on its way to b belongs to a transaction that was opened with
\* this change, or that is applied.
OrderOK(x, b, msg) ==
  /\ msg.type = "CFG_REQ" =>
       /\ x.fate[msg.id] # "idle"
       /\ msg.change = Narrow(x.change[msg.id], Interest[b])
  /\ msg.type = "CFG_APPLY_REQ" => x.fate[msg.id] = "applied"

\* What holds whatever the commit request is about to do.
Core(x) ==
  /\ x \in States
  /\ x.initEv \subseteq x.up /\ x.served \subseteq x.up
  /\ Busy(x) \subseteq x.up \ x.initEv
  /\ x.readers = Cardinality(Busy(x))
  /\ Busy(x) # {} => x.locked["running"] = "init"
  /\ x.failed # "assert"
  /\ \A t \in TxnIds : t >= x.next => x.fate[t] = "idle"
  /\ \A b \in Busy(x) : InitOK(x, b)
  /\ \A b, c \in Busy(x) : x.init[b].id = x.init[c].id => b = c
  /\ \A b \in Backends : \A i \in DOMAIN x.toBe[b] : OrderOK(x, b, x.toBe[b][i])

Diff(x) == [set |-> x.candidate \ x.running, del |-> x.running \ x.candidate]

\* The commit request excludes the others.
Exclusive(x) ==
  LET c == x.commit
  IN  /\ c \in Commitments
      /\ c.id < x.next
      /\ c.kind # "validate" => Busy(x) = {}
      /\ c.kind = "rollback" => x.locked = [ds \in DataStores |-> "rollback"]
      /\ c.kind # "rollback" => x.txn_locked = c.id
      /\ \A b \in Busy(x) : x.init[b].id # c.id

\* The candidate is the one the commit request was made for, as nobody but a
\* session with requests in the pipeline may edit it.
Protected(x) ==
  /\ x.change[x.commit.id] = Diff(x)
  /\ x.commit.kind # "rollback" =>
       x.locked["candidate"] \in {x.commit.session, "nobody"}

\* A commit request in one of the two phases that wait.
Pending(x) ==
  LET c == x.commit
  IN  /\ Exclusive(x)
      /\ c.phase # "FINISH"
      /\ x.fate[c.id] = IF c.phase = "SEND_CFG" THEN "open" ELSE "applied"
      /\ "pipeline" \notin Disturbances => Protected(x)

\* The commit request between two handlers.
CommitOK(x) ==
  x.commit # NoReq => Pending(x) /\ x.commit.wait # {}

-----------------------------------------------------------------------------
(* What the transactions allow: fates are final. *)

Grows(x, y) ==
  \A t \in TxnIds :
    /\ x.fate[t] \in {"applied", "dropped"} => y.fate[t] = x.fate[t]
    /\ x.fate[t] # "idle" => y.fate[t] # "idle" /\ y.change[t] = x.change[t]

Steady(x, y) == Grows(x, y) /\ y.running = x.running

Moves(x, y) ==
  /\ Grows(x, y)
  /\ "pipeline" \notin Disturbances =>
       \/ y.running = x.running
       \/ \E t \in TxnIds :
            y.fate[t] = "applied" /\ y.running = Patch(x.running, y.change[t])

LEMMA SteadyMoves ==
  ASSUME NEW x, NEW y, Steady(x, y)
  PROVE  Moves(x, y)
BY DEF Steady, Moves

LEMMA SteadyTwice ==
  ASSUME NEW x, NEW y, NEW z, Steady(x, y), Steady(y, z)
  PROVE  Steady(x, z)
BY DEF Steady, Grows

LEMMA SteadyThenMoves ==
  ASSUME NEW x, NEW y, NEW z, Steady(x, y), Moves(y, z)
  PROVE  Moves(x, z)
<1>1. Grows(x, z)
  BY DEF Steady, Moves, Grows
<1> QED
  BY <1>1 DEF Steady, Moves

LEMMA MovesThenSteady ==
  ASSUME NEW x, NEW y, NEW z, Moves(x, y), Steady(y, z)
  PROVE  Moves(x, z)
<1>1. Grows(x, z)
  BY DEF Steady, Moves, Grows
<1> QED
  BY <1>1 DEF Steady, Moves, Grows

\* Messages stay in order as transactions proceed.
LEMMA OrdersStay ==
  ASSUME NEW x, NEW y, Grows(x, y), NEW b, NEW msg \in Orders, OrderOK(x, b, msg)
  PROVE  OrderOK(y, b, msg)
<1>1. msg.type = "CFG_REQ" => msg.id \in TxnIds
  BY SMTT(30) DEF Orders, EOF
<1>2. msg.type = "CFG_APPLY_REQ" => msg.id \in TxnIds
  BY SMTT(30) DEF Orders, EOF
<1> QED
  BY <1>1, <1>2 DEF OrderOK, Grows

\* All the state that Exclusive, Protected and CommitOK speak of.
CommitView(x) ==
  <<x.commit, x.next, x.init, x.locked, x.txn_locked, x.fate, x.change,
    x.candidate, x.running>>

LEMMA SameCommit ==
  ASSUME NEW x, NEW y, CommitView(x) = CommitView(y)
  PROVE  /\ Exclusive(x) => Exclusive(y)
         /\ Protected(x) => Protected(y)
         /\ Pending(x) => Pending(y)
         /\ CommitOK(x) => CommitOK(y)
<1>1. /\ x.commit = y.commit /\ x.next = y.next /\ x.init = y.init
      /\ x.locked = y.locked /\ x.txn_locked = y.txn_locked /\ x.fate = y.fate
      /\ x.change = y.change /\ x.candidate = y.candidate /\ x.running = y.running
  BY DEF CommitView
<1>2. Exclusive(x) => Exclusive(y)
  BY <1>1 DEF Exclusive, Busy
<1>3. Protected(x) => Protected(y)
  BY <1>1 DEF Protected, Diff
<1>4. Pending(x) => Pending(y)
  BY <1>1, <1>2, <1>3 DEF Pending
<1> QED
  BY <1>1, <1>2, <1>3, <1>4 DEF CommitOK

\* All the state that Core speaks of, the sockets excepted.
CoreView(x) ==
  <<x.init, x.up, x.initEv, x.served, x.readers, x.locked["running"],
    x.next, x.fate, x.change, x.running>>

LEMMA SameCore ==
  ASSUME NEW x, Core(x), NEW y \in States, CoreView(x) = CoreView(y),
         y.failed # "assert",
         \A b \in Backends : \A i \in DOMAIN y.toBe[b] : OrderOK(x, b, y.toBe[b][i])
  PROVE  Core(y)
<1>1. /\ x.init = y.init /\ x.up = y.up /\ x.initEv = y.initEv
      /\ x.served = y.served /\ x.readers = y.readers
      /\ x.locked["running"] = y.locked["running"]
      /\ x.next = y.next /\ x.fate = y.fate /\ x.change = y.change
      /\ x.running = y.running
  BY DEF CoreView
<1>2. Busy(x) = Busy(y)
  BY <1>1 DEF Busy
<1>3. ASSUME NEW b \in Busy(y) PROVE InitOK(y, b)
  <2>1. InitOK(x, b)
    BY <1>2 DEF Core
  <2> QED
    BY <1>1, <2>1 DEF InitOK
<1>4. ASSUME NEW b \in Backends, NEW i \in DOMAIN y.toBe[b]
      PROVE  OrderOK(y, b, y.toBe[b][i])
  <2>1. OrderOK(x, b, y.toBe[b][i])
    OBVIOUS
  <2> QED
    BY <1>1, <2>1 DEF OrderOK
<1> QED
  BY <1>1, <1>2, <1>3, <1>4 DEF Core

\* The fields of a state in order, each on its own.
LEMMA CoreFields ==
  ASSUME NEW x, Core(x)
  PROVE  /\ x \in States /\ x.failed # "assert"
         /\ x.up \in SUBSET Backends /\ x.initEv \in SUBSET Backends
         /\ x.served \in SUBSET Backends /\ x.served \subseteq x.up
         /\ x.records \in Seq(SUBSET Items)
         /\ x.toBe \in OrderQueues /\ x.toMg \in ReplyQueues
<1>1. x \in States /\ x.failed # "assert" /\ x.served \subseteq x.up
  BY DEF Core
<1> QED
  BY <1>1 DEF States

\* What is known of the messages to a backend and of its initial
\* transaction stays known while the fields it is stated with stay as they are.
LEMMA OrdersKept ==
  ASSUME NEW x, NEW y, Core(x),
         y.toBe = x.toBe, y.fate = x.fate, y.change = x.change
  PROVE  \A b \in Backends : \A j \in DOMAIN y.toBe[b] : OrderOK(y, b, y.toBe[b][j])
<1> SUFFICES ASSUME NEW b \in Backends, NEW j \in DOMAIN y.toBe[b]
             PROVE  OrderOK(y, b, y.toBe[b][j])
  OBVIOUS
<1>1. OrderOK(x, b, x.toBe[b][j])
  BY DEF Core
<1> QED
  BY <1>1 DEF OrderOK

LEMMA InitsKept ==
  ASSUME NEW x, NEW y, Core(x), y.init = x.init, y.next = x.next,
         y.fate = x.fate, y.change = x.change, y.running = x.running
  PROVE  \A b \in Busy(y) : InitOK(y, b)
<1> SUFFICES ASSUME NEW b \in Busy(y)
             PROVE  InitOK(y, b)
  OBVIOUS
<1>1. InitOK(x, b)
  BY DEF Core, Busy
<1> QED
  BY <1>1 DEF InitOK

\* Two states with the same view and the same sockets.
LEMMA SameCoreToBe ==
  ASSUME NEW x, Core(x), NEW y \in States, CoreView(x) = CoreView(y),
         y.failed # "assert", y.toBe = x.toBe
  PROVE  Core(y)
<1>1. \A b \in Backends : \A i \in DOMAIN y.toBe[b] : OrderOK(x, b, y.toBe[b][i])
  BY DEF Core
<1> QED
  BY <1>1, SameCore

\* The sockets: whatever is sent, the rest of mgmtd is as it was.
LEMMA SendOK ==
  ASSUME NEW x, Core(x), NEW B, NEW msg \in [Backends -> Orders],
         \A b \in B \cap Backends : OrderOK(x, b, msg[b]),
         NEW y, y = Send(x, B, msg)
  PROVE  /\ Core(y) /\ Steady(x, y)
         /\ CommitView(x) = CommitView(y) /\ y.vty = x.vty
         /\ y.up = x.up /\ y.served = x.served /\ y.failed = x.failed
<1> DEFINE q == [b \in Backends |->
             IF b \in B /\ Live(x, b) THEN Append(x.toBe[b], msg[b]) ELSE x.toBe[b]]
<1>0. y = [x EXCEPT !.toBe = q]
  BY DEF Send
<1>1. x \in States /\ x.toBe \in OrderQueues /\ x.failed # "assert"
  BY DEF Core, States
<1>2. q \in OrderQueues
  BY <1>1, SMTT(30) DEF OrderQueues
<1>3. \A b \in Backends : \A i \in DOMAIN q[b] : OrderOK(x, b, q[b][i])
  <2> SUFFICES ASSUME NEW b \in Backends, NEW i \in DOMAIN q[b]
               PROVE  OrderOK(x, b, q[b][i])
    OBVIOUS
  <2>1. CASE q[b] = x.toBe[b]
    BY <2>1 DEF Core
  <2>2. CASE b \in B /\ q[b] = Append(x.toBe[b], msg[b])
    <3>1. x.toBe[b] \in Seq(Orders) /\ msg[b] \in Orders
      BY <1>1 DEF OrderQueues
    <3>2. CASE i \in DOMAIN x.toBe[b]
      <4>1. q[b][i] = x.toBe[b][i]
        BY <2>2, <3>1, <3>2, SMTT(30)
      <4> QED
        BY <3>2, <4>1 DEF Core
    <3>3. CASE i \notin DOMAIN x.toBe[b]
      <4>1. q[b][i] = msg[b]
        BY <2>2, <3>1, <3>3, SMTT(30)
      <4> QED
        BY <2>2, <4>1
    <3> QED
      BY <3>2, <3>3
  <2> QED
    BY <2>1, <2>2
<1> HIDE DEF q
<1>4. /\ y \in States /\ CoreView(x) = CoreView(y) /\ CommitView(x) = CommitView(y)
      /\ y.toBe = q /\ y.up = x.up /\ y.served = x.served /\ y.failed = x.failed
      /\ y.vty = x.vty
  BY <1>0, <1>1, <1>2 DEF States, CoreView, CommitView
<1>5. Core(y)
  BY <1>1, <1>3, <1>4, SameCore
<1>6. Steady(x, y)
  BY <1>4 DEF Steady, Grows, CommitView
<1> QED
  BY <1>4, <1>5, <1>6

-----------------------------------------------------------------------------
(* The end of requests for initial configurations. *)

\* The requests of E end, and nothing else happens to transactions.
Ends(x, y, E) ==
  /\ y.init = [b \in Backends |-> IF b \in E THEN NoReq ELSE x.init[b]]
  /\ y.fate = [t \in TxnIds |->
       IF (\E b \in E : x.init[b].id = t) /\ x.fate[t] = "open"
       THEN "dropped" ELSE x.fate[t]]
  /\ y.commit = x.commit /\ y.next = x.next /\ y.txn_locked = x.txn_locked
  /\ y.candidate = x.candidate /\ y.running = x.running /\ y.change = x.change
  /\ y.locked["candidate"] = x.locked["candidate"]
  /\ E = {} => y.locked = x.locked
  /\ Busy(x) \ E # {} => y.locked["running"] = x.locked["running"]

LEMMA EndsOK ==
  ASSUME NEW x, Core(x), NEW y \in States, NEW E, E \subseteq Busy(x), Ends(x, y, E)
  PROVE  /\ Steady(x, y)
         /\ Busy(y) = Busy(x) \ E
         /\ \A b \in Busy(y) : InitOK(y, b)
         /\ Exclusive(x) => Exclusive(y)
         /\ Pending(x) => Pending(y)
         /\ CommitOK(x) => CommitOK(y)
<1>1. x \in States /\ x.fate \in FateMaps
      /\ x.init \in InitMaps
  BY DEF Core, States
<1>2. Steady(x, y)
  BY <1>1 DEF Ends, Steady, Grows, Fates, FateMaps
<1>3. Busy(y) = Busy(x) \ E
  BY DEF Ends, Busy
<1>4. \A b \in Busy(y) : y.init[b] = x.init[b] /\ y.fate[x.init[b].id] = x.fate[x.init[b].id]
  <2> SUFFICES ASSUME NEW b \in Busy(y)
               PROVE  y.init[b] = x.init[b] /\ y.fate[x.init[b].id] = x.fate[x.init[b].id]
    OBVIOUS
  <2>1. b \in Busy(x) /\ b \in Backends /\ b \notin E /\ y.init[b] = x.init[b]
    BY <1>3 DEF Ends, Busy
  <2>2. x.init[b].id \in TxnIds
    BY <1>1, <2>1 DEF Busy, InitRequests, InitMaps
  <2>3. ~\E c \in E : x.init[c].id = x.init[b].id
    BY <2>1 DEF Core
  <2> QED
    BY <2>1, <2>2, <2>3 DEF Ends
<1>5. \A b \in Busy(y) : InitOK(y, b)
  <2> SUFFICES ASSUME NEW b \in Busy(y)
               PROVE  InitOK(y, b)
    OBVIOUS
  <2>1. InitOK(x, b)
    BY <1>3 DEF Core
  <2>2. y.next = x.next /\ y.change = x.change /\ y.running = x.running
    BY DEF Ends
  <2> QED
    BY <1>4, <2>1, <2>2 DEF InitOK
<1>6. ASSUME Exclusive(x)
      PROVE  Exclusive(y) /\ y.fate[x.commit.id] = x.fate[x.commit.id]
  <2>1. x.commit.kind # "validate" => E = {}
    BY <1>6 DEF Exclusive
  <2>2. x.commit.id \in TxnIds /\ ~\E b \in E : x.init[b].id = x.commit.id
    BY <1>6 DEF Exclusive, Commitments
  <2>3. y.fate[x.commit.id] = x.fate[x.commit.id]
    BY <2>2 DEF Ends
  <2>4. \A b \in Busy(y) : y.init[b].id # y.commit.id
    BY <1>3, <1>4, <1>6 DEF Exclusive, Ends
  <2> QED
    BY <1>3, <1>6, <2>1, <2>3, <2>4 DEF Exclusive, Ends
<1>7. Pending(x) => Pending(y)
  <2>1. Protected(x) => Protected(y)
    BY DEF Protected, Ends, Diff
  <2> QED
    BY <1>6, <2>1 DEF Pending, Ends
<1>8. CommitOK(x) => CommitOK(y)
  BY <1>7 DEF CommitOK, Ends
<1> QED
  BY <1>2, <1>3, <1>5, <1>6, <1>7, <1>8

\* The counter of readers reaches zero with the last request.
LEMMA InitDoneOK ==
  ASSUME NEW x, Core(x), NEW b \in Busy(x), NEW y, y = InitDone(x, b)
  PROVE  /\ Core(y) /\ Steady(x, y) /\ Busy(y) = Busy(x) \ {b}
         /\ CommitOK(x) => CommitOK(y)
<1> DEFINE id == x.init[b].id
           f == [x.fate EXCEPT ![id] = IF @ = "open" THEN "dropped" ELSE @]
           i == [x.init EXCEPT ![b] = NoReq]
           k == x.readers - 1
           n == [x EXCEPT !.fate = f, !.init = i, !.readers = k]
<1>1. /\ x \in States /\ x.fate \in FateMaps /\ b \in Backends
      /\ x.init \in InitMaps
      /\ x.locked \in Locks /\ x.failed # "assert"
  BY DEF Core, States, Busy
<1>2. id \in TxnIds
  BY <1>1 DEF Busy, InitRequests, InitMaps
<1>3. f \in FateMaps /\ i \in InitMaps
  BY <1>1, <1>2 DEF Fates, FateMaps, InitMaps
<1>4. IsFiniteSet(Busy(x))
  BY BackendsAssumption, FS_Subset DEF Busy
<1>5. k \in Nat /\ k = Cardinality(Busy(x) \ {b}) /\ (k = 0 <=> Busy(x) \ {b} = {})
  <2>1. IsFiniteSet(Busy(x) \ {b})
    BY <1>4, FS_Subset
  <2>2. Cardinality(Busy(x) \ {b}) = Cardinality(Busy(x)) - 1
    BY <1>4, FS_RemoveElement
  <2>3. Cardinality(Busy(x) \ {b}) \in Nat
    BY <2>1, FS_CardinalityType
  <2> QED
    BY <2>1, <2>2, <2>3, FS_EmptySet DEF Core
<1> DEFINE l == IF k = 0 THEN [x.locked EXCEPT !["running"] = "nobody"] ELSE x.locked
<1>6. /\ l \in Locks /\ l["candidate"] = x.locked["candidate"]
      /\ k # 0 => l = x.locked
  BY <1>1 DEF DataStores, Holders, Locks
<1>7. y = [n EXCEPT !.locked = l]
  <2> HIDE DEF k
  <2>1. n = [Settle(x, id, "dropped") EXCEPT !.init[b] = NoReq, !.readers = @ - 1]
    BY <1>1 DEF Settle, k, States
  <2>2. n.readers = k /\ n.locked = x.locked
    BY <1>1 DEF States
  <2>3. x.locked["running"] = "init"
    BY DEF Core
  <2>4. n = [n EXCEPT !.locked = x.locked]
    BY <1>1 DEF States
  <2>5. [n EXCEPT !.locked["running"] = "nobody"]
          = [n EXCEPT !.locked = [x.locked EXCEPT !["running"] = "nobody"]]
    BY <2>2
  <2> HIDE DEF n
  <2> QED
    BY <2>1, <2>2, <2>3, <2>4, <2>5 DEF InitDone, Unlock
<1> HIDE DEF k, l, f, i
<1>8. /\ y \in States /\ y.fate = f /\ y.init = i /\ y.readers = k
      /\ y.commit = x.commit /\ y.next = x.next /\ y.txn_locked = x.txn_locked
      /\ y.candidate = x.candidate /\ y.running = x.running /\ y.change = x.change
      /\ y.up = x.up /\ y.initEv = x.initEv /\ y.served = x.served
      /\ y.toBe = x.toBe /\ y.failed = x.failed
      /\ y.locked = l
  <2>1. y = [x EXCEPT !.fate = f, !.init = i, !.readers = k, !.locked = l]
    BY <1>1, <1>7 DEF States
  <2>2. y \in States
    BY <1>1, <1>3, <1>5, <1>6, <2>1 DEF States
  <2> QED
    BY <1>1, <2>1, <2>2 DEF States
<1>9. Ends(x, y, {b})
  BY <1>1, <1>2, <1>5, <1>6, <1>8, SMTT(30) DEF Ends, f, i, FateMaps, InitMaps
<1>10. /\ Steady(x, y) /\ Busy(y) = Busy(x) \ {b}
       /\ \A c \in Busy(y) : InitOK(y, c)
       /\ CommitOK(x) => CommitOK(y)
  BY <1>8, <1>9, EndsOK, SMTT(30)
<1>11. \A c \in Backends : \A j \in DOMAIN y.toBe[c] : OrderOK(y, c, y.toBe[c][j])
  <2> SUFFICES ASSUME NEW c \in Backends, NEW j \in DOMAIN x.toBe[c]
               PROVE  OrderOK(y, c, x.toBe[c][j])
    BY <1>8
  <2>1. x.toBe[c] \in Seq(Orders)
    BY <1>1 DEF States, OrderQueues
  <2>2. x.toBe[c][j] \in Orders
    BY <2>1, SMTT(30)
  <2> QED
    BY <1>10, <2>2, OrdersStay DEF Core, Steady
<1>12. \A t \in TxnIds : t >= y.next => y.fate[t] = "idle"
  <2>1. ASSUME NEW t \in TxnIds, t >= x.next PROVE x.fate[t] = "idle"
    BY <2>1 DEF Core
  <2> QED
    BY <1>1, <1>2, <1>8, <2>1 DEF f, FateMaps
<1>13. \A c, d \in Busy(y) : y.init[c].id = y.init[d].id => c = d
  BY <1>1, <1>8, <1>10, SMTT(30) DEF Core, Busy, i, InitMaps
<1>14. Busy(y) # {} => y.locked["running"] = "init"
  BY <1>5, <1>6, <1>8, <1>10 DEF Core
<1>15. Core(y)
  BY <1>1, <1>5, <1>8, <1>10, <1>11, <1>12, <1>13, <1>14 DEF Core
<1> QED
  BY <1>10, <1>15

\* A nonempty set of naturals has a least element.
LEMMA LeastNat ==
  ASSUME NEW T, T \subseteq Nat, T # {}
  PROVE  \E x \in T : \A y \in T : x <= y
<1>1. IsWellFoundedOn(OpToRel(<, Nat), Nat)
  BY NatLessThanWellFounded
<1>2. \E x \in T : \A y \in T : ~ (<<y, x>> \in OpToRel(<, Nat))
  BY <1>1, WFMin
<1>3. \A x, y \in Nat : y < x => <<y, x>> \in OpToRel(<, Nat)
  BY DEF OpToRel
<1>4. \E x \in T : \A y \in T : ~ (y < x)
  BY <1>2, <1>3
<1> QED
  BY <1>4, SMTT(30)

\* What is written after the first EOF is a sequence of replies.
LEMMA NextConnectionIn ==
  ASSUME NEW q \in Seq(Replies)
  PROVE  NextConnection(q) \in Seq(Replies)
<1>1. CASE ~Holds(q, EOF)
  BY <1>1, SMTT(30) DEF NextConnection
<1>2. CASE Holds(q, EOF)
  <2> DEFINE T == {k \in DOMAIN q : q[k] = EOF}
             First(k) == q[k] = EOF /\ \A j \in 1 .. k - 1 : q[j] # EOF
             i == CHOOSE k \in DOMAIN q : First(k)
  <2>1. T \subseteq Nat /\ T # {}
    BY <1>2, SMTT(30) DEF Holds
  <2>2. PICK k \in T : \A j \in T : k <= j
    <3> HIDE DEF T
    <3> QED
      BY <2>1, LeastNat
  <2>3. \A j \in 1 .. k - 1 : j \in DOMAIN q /\ j \notin T
    BY <2>1, <2>2, SMTT(30)
  <2>4. k \in DOMAIN q /\ First(k)
    BY <2>2, <2>3
  <2>5. i \in DOMAIN q
    BY <2>4
  <2>6. NextConnection(q) = SubSeq(q, i + 1, Len(q))
    BY <1>2 DEF NextConnection
  <2> HIDE DEF i
  <2> QED
    BY <2>5, <2>6, SMTT(30)
<1> QED
  BY <1>1, <1>2

\* Adapters go, and with them the requests for their backends.
LEMMA CloseAllOK ==
  ASSUME NEW x, Core(x), NEW B, B \subseteq Backends, NEW y, y = CloseAll(x, B)
  PROVE  /\ Core(y) /\ Steady(x, y) /\ Busy(y) = Busy(x) \ B
         /\ Exclusive(x) => Exclusive(y)
         /\ Pending(x) => Pending(y)
         /\ CommitOK(x) => CommitOK(y)
         /\ y.commit = x.commit /\ y.up = x.up \ B
<1> DEFINE E == {b \in B : x.init[b] # NoReq}
           k == x.readers - Cardinality(E)
           q == [b \in Backends |->
                   IF b \in B /\ Live(x, b) THEN Append(x.toBe[b], EOF) ELSE x.toBe[b]]
           r == [b \in Backends |->
                   IF b \in B THEN NextConnection(x.toMg[b]) ELSE x.toMg[b]]
           i == [b \in Backends |-> IF b \in E THEN NoReq ELSE x.init[b]]
           f == [t \in TxnIds |->
                   IF (\E b \in E : x.init[b].id = t) /\ x.fate[t] = "open"
                   THEN "dropped" ELSE x.fate[t]]
           n == [x EXCEPT !.up = @ \ B, !.initEv = @ \ B, !.served = @ \ B,
                          !.toBe = q, !.toMg = r, !.init = i, !.readers = k, !.fate = f]
           l == IF E # {} /\ k = 0 THEN [x.locked EXCEPT !["running"] = "nobody"]
                ELSE x.locked
<1>0. E \subseteq Busy(x) /\ Busy(x) \ E = Busy(x) \ B
  BY DEF Busy
<1>1. /\ x \in States /\ x.fate \in FateMaps /\ x.init \in InitMaps
      /\ x.locked \in Locks /\ x.failed # "assert"
      /\ x.toBe \in OrderQueues /\ x.toMg \in ReplyQueues
  BY DEF Core, States
<1>2. q \in OrderQueues
  <2>1. EOF \in Orders
    BY DEF Orders
  <2> QED
    BY <1>1, <2>1, SMTT(30) DEF OrderQueues
<1>3. r \in ReplyQueues
  BY <1>1, NextConnectionIn DEF ReplyQueues
<1>4. i \in InitMaps /\ f \in FateMaps
  BY <1>1 DEF InitMaps, FateMaps, Fates
<1>5. k \in Nat /\ k = Cardinality(Busy(x) \ E) /\ (k = 0 <=> Busy(x) \ E = {})
  <2>1. IsFiniteSet(Busy(x))
    BY BackendsAssumption, FS_Subset DEF Busy
  <2>2. IsFiniteSet(Busy(x) \ E) /\ IsFiniteSet(E)
    BY <1>0, <2>1, FS_Subset
  <2>3. Cardinality(Busy(x) \ E) = Cardinality(Busy(x)) - Cardinality(Busy(x) \cap E)
    BY <2>1, FS_Difference
  <2>4. Busy(x) \cap E = E
    BY <1>0
  <2>5. Cardinality(Busy(x) \ E) \in Nat
    BY <2>2, FS_CardinalityType
  <2>6. Cardinality(Busy(x) \ E) = 0 <=> Busy(x) \ E = {}
    BY <2>2, FS_EmptySet
  <2> HIDE DEF E
  <2> QED
    BY <2>3, <2>4, <2>5, <2>6 DEF Core
<1>6. /\ l \in Locks /\ l["candidate"] = x.locked["candidate"]
      /\ E = {} => l = x.locked
      /\ Busy(x) \ E # {} => l = x.locked
  <2> HIDE DEF k, E
  <2> QED
    BY <1>1, <1>5 DEF Locks, DataStores, Holders
<1>7. y = [n EXCEPT !.locked = l]
  <2>1. y = IF E # {} /\ k = 0 THEN Unlock(n, "running", "init") ELSE n
    BY DEF CloseAll
  <2> HIDE DEF E, k, q, r, i, f
  <2>2. n.locked = x.locked /\ n = [n EXCEPT !.locked = x.locked]
    BY <1>1 DEF States
  <2>3. E # {} => x.locked["running"] = "init"
    BY <1>0 DEF Core
  <2>4. [n EXCEPT !.locked["running"] = "nobody"]
          = [n EXCEPT !.locked = [x.locked EXCEPT !["running"] = "nobody"]]
    BY <2>2
  <2> HIDE DEF n
  <2> QED
    BY <2>1, <2>2, <2>3, <2>4 DEF Unlock
<1> HIDE DEF E, k, l, q, r, i, f
<1>8. y = [x EXCEPT !.up = x.up \ B, !.initEv = x.initEv \ B, !.served = x.served \ B,
                    !.toBe = q, !.toMg = r, !.init = i, !.readers = k, !.fate = f,
                    !.locked = l]
  BY <1>1, <1>7 DEF States
<1>9. y \in States
  <2>1. /\ x.up \ B \in SUBSET Backends /\ x.initEv \ B \in SUBSET Backends
        /\ x.served \ B \in SUBSET Backends
    BY <1>1 DEF States
  <2> DEFINE u == x.up \ B
             v == x.initEv \ B
             w == x.served \ B
             z == [x EXCEPT !.up = u, !.initEv = v, !.served = w, !.toBe = q, !.toMg = r]
  <2>2. u \in SUBSET Backends /\ v \in SUBSET Backends /\ w \in SUBSET Backends
    BY <2>1
  <2>3. y = [z EXCEPT !.init = i, !.readers = k, !.fate = f, !.locked = l]
    BY <1>8
  <2> HIDE DEF n, u, v, w
  <2>4. z \in States
    BY <1>1, <1>2, <1>3, <2>2 DEF States
  <2> HIDE DEF z
  <2> QED
    BY <1>4, <1>5, <1>6, <2>3, <2>4 DEF States
<1>10. /\ y.fate = f /\ y.init = i /\ y.readers = k /\ y.locked = l
       /\ y.commit = x.commit /\ y.next = x.next /\ y.txn_locked = x.txn_locked
       /\ y.candidate = x.candidate /\ y.running = x.running /\ y.change = x.change
       /\ y.up = x.up \ B /\ y.initEv = x.initEv \ B /\ y.served = x.served \ B
       /\ y.toBe = q /\ y.failed = x.failed
  BY <1>1, <1>8, SMTT(30) DEF States
<1>11. Ends(x, y, E)
  BY <1>6, <1>10 DEF Ends, f, i
<1>12. /\ Steady(x, y) /\ Busy(y) = Busy(x) \ E
       /\ \A c \in Busy(y) : InitOK(y, c)
       /\ Exclusive(x) => Exclusive(y)
       /\ Pending(x) => Pending(y)
       /\ CommitOK(x) => CommitOK(y)
  BY <1>0, <1>9, <1>11, EndsOK
<1>13. \A c \in Backends : \A j \in DOMAIN y.toBe[c] : OrderOK(y, c, y.toBe[c][j])
  <2> SUFFICES ASSUME NEW c \in Backends, NEW j \in DOMAIN q[c]
               PROVE  OrderOK(y, c, q[c][j])
    BY <1>10
  <2>1. x.toBe[c] \in Seq(Orders)
    BY <1>1 DEF OrderQueues
  <2>2. ASSUME j \in DOMAIN x.toBe[c]
        PROVE  OrderOK(y, c, x.toBe[c][j])
    <3>1. x.toBe[c][j] \in Orders
      BY <2>1, <2>2, SMTT(30)
    <3>2. OrderOK(x, c, x.toBe[c][j])
      BY <2>2 DEF Core
    <3> QED
      BY <1>12, <3>1, <3>2, OrdersStay DEF Steady
  <2>3. CASE q[c] = x.toBe[c]
    BY <2>2, <2>3
  <2>4. CASE q[c] = Append(x.toBe[c], EOF)
    <3>1. j \in DOMAIN x.toBe[c] => q[c][j] = x.toBe[c][j]
      BY <2>1, <2>4, SMTT(30)
    <3>2. j \notin DOMAIN x.toBe[c] => q[c][j] = EOF
      BY <2>1, <2>4, SMTT(30)
    <3>3. OrderOK(y, c, EOF)
      BY DEF OrderOK, EOF
    <3> QED
      BY <2>2, <3>1, <3>2, <3>3
  <2> QED
    BY <2>3, <2>4 DEF q
<1>14. \A t \in TxnIds : t >= y.next => y.fate[t] = "idle"
  <2>1. ASSUME NEW t \in TxnIds, t >= x.next PROVE x.fate[t] = "idle"
    BY <2>1 DEF Core
  <2> QED
    BY <1>10, <2>1 DEF f
<1>15. \A c, d \in Busy(y) : y.init[c].id = y.init[d].id => c = d
  <2>1. \A c, d \in Busy(x) : x.init[c].id = x.init[d].id => c = d
    BY DEF Core
  <2> QED
    BY <1>1, <1>10, <1>12, <2>1, SMTT(30) DEF Busy, i
<1>16. Busy(y) # {} => y.locked["running"] = "init"
  <2>1. Busy(x) # {} => x.locked["running"] = "init"
    BY DEF Core
  <2> QED
    BY <1>0, <1>6, <1>10, <1>12, <2>1
<1>17. y.initEv \subseteq y.up /\ y.served \subseteq y.up /\ Busy(y) \subseteq y.up \ y.initEv
  <2>1. x.initEv \subseteq x.up /\ x.served \subseteq x.up /\ Busy(x) \subseteq x.up \ x.initEv
    BY DEF Core
  <2> QED
    BY <1>0, <1>10, <1>12, <2>1
<1>18. Core(y)
  BY <1>1, <1>5, <1>9, <1>10, <1>12, <1>13, <1>14, <1>15, <1>16, <1>17 DEF Core
<1> QED
  BY <1>0, <1>10, <1>12, <1>18

-----------------------------------------------------------------------------
(* The end of the commit request. *)

\* While no backend is being sent its initial configuration, running may
\* change and the locks may change hands.
LEMMA CoreIdle ==
  ASSUME NEW x, Core(x), Busy(x) = {}, NEW y \in States, y.failed # "assert",
         y.init = x.init, y.up = x.up, y.initEv = x.initEv, y.served = x.served,
         y.readers = x.readers, y.next = x.next, y.fate = x.fate,
         y.change = x.change, y.toBe = x.toBe
  PROVE  Core(y)
<1>1. Busy(y) = {} /\ Busy(y) = Busy(x)
  BY DEF Busy
<1>2. \A b \in Backends : \A i \in DOMAIN y.toBe[b] : OrderOK(y, b, y.toBe[b][i])
  BY OrdersKept
<1> QED
  BY <1>1, <1>2 DEF Core

\* A transaction that no initial configuration is sent by is settled.
LEMMA SettleOK ==
  ASSUME NEW x, Core(x), NEW id \in TxnIds, id < x.next,
         \A b \in Busy(x) : x.init[b].id # id,
         NEW how \in {"applied", "dropped"}, NEW y, y = Settle(x, id, how)
  PROVE  /\ Core(y) /\ Steady(x, y) /\ Busy(y) = Busy(x)
         /\ Exclusive(x) => Exclusive(y)
         /\ Protected(x) => Protected(y)
         /\ y.fate[id] = IF x.fate[id] = "open" THEN how ELSE x.fate[id]
         /\ y.commit = x.commit /\ y.up = x.up /\ y.failed = x.failed
         /\ y.change = x.change /\ y.candidate = x.candidate
<1> DEFINE f == [x.fate EXCEPT ![id] = IF x.fate[id] = "open" THEN how ELSE x.fate[id]]
<1>1. x \in States /\ x.fate \in FateMaps /\ x.failed # "assert" /\ x.next \in Nat
  BY DEF Core, States
<1>2. f \in FateMaps
  BY <1>1 DEF FateMaps, Fates
<1>3. y = [x EXCEPT !.fate = f]
  BY <1>1 DEF Settle, States
<1>4. /\ f[id] = IF x.fate[id] = "open" THEN how ELSE x.fate[id]
      /\ \A t \in TxnIds : t # id => f[t] = x.fate[t]
  BY <1>1 DEF FateMaps
<1> HIDE DEF f
<1>5. /\ y \in States /\ y.fate = f
      /\ y.init = x.init /\ y.up = x.up /\ y.initEv = x.initEv /\ y.served = x.served
      /\ y.readers = x.readers /\ y.locked = x.locked /\ y.next = x.next
      /\ y.change = x.change /\ y.running = x.running /\ y.toBe = x.toBe
      /\ y.failed = x.failed /\ y.commit = x.commit /\ y.txn_locked = x.txn_locked
      /\ y.candidate = x.candidate
  BY <1>1, <1>2, <1>3 DEF States
<1>6. Steady(x, y) /\ Busy(y) = Busy(x)
  BY <1>1, <1>4, <1>5, SMTT(30) DEF Steady, Grows, Busy, FateMaps, Fates
<1>7. ASSUME NEW b \in Busy(y) PROVE InitOK(y, b)
  <2>1. x.init[b].id \in TxnIds
    BY <1>1, <1>6 DEF Busy, States, InitMaps, InitRequests
  <2>2. InitOK(x, b)
    BY <1>6 DEF Core
  <2> QED
    BY <1>4, <1>5, <1>6, <2>1, <2>2, SMTT(30) DEF InitOK
<1>8. \A b \in Backends : \A i \in DOMAIN y.toBe[b] : OrderOK(y, b, y.toBe[b][i])
  <2>1. \A b \in Backends : \A i \in DOMAIN x.toBe[b] : x.toBe[b][i] \in Orders
    BY <1>1, SMTT(30) DEF States, OrderQueues
  <2> QED
    BY <1>5, <1>6, <2>1, OrdersStay DEF Core, Steady
<1>9. \A t \in TxnIds : t >= y.next => y.fate[t] = "idle"
  BY <1>1, <1>4, <1>5 DEF Core, TxnIds
<1>10. Core(y)
  BY <1>1, <1>5, <1>6, <1>7, <1>8, <1>9, SMTT(30) DEF Core
<1>11. (Exclusive(x) => Exclusive(y)) /\ (Protected(x) => Protected(y))
  BY <1>5, <1>6 DEF Exclusive, Protected, Diff
<1> QED
  BY <1>4, <1>5, <1>6, <1>10, <1>11

\* Whoever asked is told.
LEMMA ReplyOK ==
  ASSUME NEW x, Core(x), Exclusive(x), NEW c, c = x.commit, NEW ok \in BOOLEAN,
         NEW y, y = Reply(x, c, ok)
  PROVE  Core(y) /\ Steady(x, y) /\ Busy(y) = Busy(x) /\ y.commit = x.commit
<1>1. x \in States /\ x.failed # "assert" /\ x.locked \in Locks /\ c \in Commitments
  BY DEF Core, States, Exclusive
<1> DEFINE Same(z) ==
      /\ z.init = x.init /\ z.up = x.up /\ z.initEv = x.initEv /\ z.served = x.served
      /\ z.readers = x.readers /\ z.next = x.next /\ z.fate = x.fate
      /\ z.change = x.change /\ z.toBe = x.toBe /\ z.commit = x.commit
      /\ z.running = x.running
<1>2. ASSUME y \in States, Same(y), y.failed # "assert", Busy(x) = {}
      PROVE  Core(y) /\ Steady(x, y) /\ Busy(y) = Busy(x) /\ y.commit = x.commit
  <2>1. Core(y)
    BY <1>2, CoreIdle
  <2> QED
    BY <1>2, <2>1 DEF Steady, Grows, Busy
<1>3. CASE c.kind = "rollback" /\ x.vty
  <2> DEFINE l == [ds \in DataStores |-> "nobody"]
             n == Unlock(x, "candidate", "rollback")
  <2>1. Busy(x) = {} /\ x.locked = [ds \in DataStores |-> "rollback"]
    BY <1>3 DEF Exclusive
  <2>2. n = [x EXCEPT !.locked = [x.locked EXCEPT !["candidate"] = "nobody"]]
    BY <1>1, <2>1 DEF Unlock, DataStores, States
  <2>3. n.locked = [x.locked EXCEPT !["candidate"] = "nobody"]
    BY <1>1, <2>2 DEF States
  <2> HIDE DEF n
  <2>4. Unlock(n, "running", "rollback")
          = [n EXCEPT !.locked = [n.locked EXCEPT !["running"] = "nobody"]]
    BY <2>1, <2>3 DEF Unlock, DataStores
  <2>5. [n.locked EXCEPT !["running"] = "nobody"] = l
    BY <2>1, <2>3 DEF DataStores
  <2>6. l \in Locks
    BY DEF Locks, Holders
  <2>7. y = [Unlock(n, "running", "rollback") EXCEPT !.vty = FALSE]
    BY <1>3 DEF Reply, n
  <2> HIDE DEF l
  <2>8. y = [x EXCEPT !.locked = l, !.vty = FALSE]
    BY <1>1, <2>2, <2>4, <2>5, <2>7 DEF States
  <2>9. y \in States /\ Same(y) /\ y.failed # "assert"
    BY <1>1, <2>6, <2>8 DEF States
  <2> QED
    BY <1>2, <2>1, <2>9
<1>4. CASE c.kind = "rollback" /\ ~x.vty
  <2>1. y = [x EXCEPT !.failed = "null"]
    BY <1>4 DEF Reply
  <2>2. y \in States /\ Same(y) /\ y.failed # "assert"
    BY <1>1, <2>1 DEF States
  <2> QED
    BY <1>2, <1>4, <2>2 DEF Exclusive
<1>5. CASE c.kind = "edit"
  <2> DEFINE d == IF ok THEN x.candidate ELSE c.backup
             l == IF c.session = NoSession THEN x.locked
                  ELSE [ds \in DataStores |->
                          IF ds \in c.unlock THEN "nobody" ELSE x.locked[ds]]
  <2>1. d \in SUBSET Items
    BY <1>1 DEF States, Commitments
  <2>2. l \in Locks
    BY <1>1 DEF Locks, Holders
  <2>3. y = [x EXCEPT !.candidate = d, !.locked = l]
    <3> DEFINE n == IF ok THEN x ELSE [x EXCEPT !.candidate = c.backup]
    <3>1. n = [x EXCEPT !.candidate = d] /\ n.locked = x.locked
      BY <1>1 DEF States
    <3>2. y = IF c.session = NoSession THEN n
              ELSE [n EXCEPT !.locked = [ds \in DataStores |->
                      IF ds \in c.unlock THEN "nobody" ELSE n.locked[ds]]]
      BY <1>5 DEF Reply
    <3> HIDE DEF n, d
    <3>3. CASE c.session = NoSession
      <4>1. y = [x EXCEPT !.candidate = d] /\ l = x.locked
        BY <3>1, <3>2, <3>3
      <4> HIDE DEF l
      <4> QED
        BY <1>1, <4>1 DEF States
    <3>4. CASE c.session # NoSession
      BY <3>1, <3>2, <3>4
    <3> QED
      BY <3>3, <3>4
  <2> HIDE DEF d, l
  <2>4. y \in States /\ Same(y) /\ y.failed # "assert"
    BY <1>1, <2>1, <2>2, <2>3 DEF States
  <2> QED
    BY <1>2, <1>5, <2>4 DEF Exclusive
<1>6. CASE c.kind \notin {"rollback", "edit"}
  <2> DEFINE d == IF ~ok /\ c.implicit THEN x.running ELSE x.candidate
  <2>1. d \in SUBSET Items
    BY <1>1 DEF States
  <2>2. y = IF ~ok /\ c.implicit THEN [x EXCEPT !.candidate = x.running] ELSE x
    BY <1>6 DEF Reply
  <2>3. y = [x EXCEPT !.candidate = d]
    BY <1>1, <2>2 DEF States
  <2> HIDE DEF d
  <2>4. y \in States /\ Same(y) /\ y.failed # "assert" /\ y.locked = x.locked
    BY <1>1, <2>1, <2>3 DEF States
  <2>5. CoreView(x) = CoreView(y)
    BY <2>4 DEF CoreView
  <2>6. Core(y)
    BY <2>4, <2>5, SameCoreToBe
  <2> QED
    BY <2>4, <2>6 DEF Steady, Grows, Busy
<1> QED
  BY <1>3, <1>4, <1>5, <1>6

\* Backends are disconnected or told to forget, and the request is gone.
LEMMA CleanupOK ==
  ASSUME NEW x, Core(x), NEW c \in Commitments, NEW y, y = Cleanup(x, c)
  PROVE  Core(y) /\ Steady(x, y) /\ Busy(y) \subseteq Busy(x) /\ y.commit = NoReq
<1> DEFINE d == [b \in Backends |-> Msg("TXN_DELETE", c.id)]
           n == CASE c.phase = "APPLY" -> CloseAll(x, c.wait)
                  [] c.phase = "SEND_CFG" \/ (c.phase = "FINISH" /\ c.kind = "validate") ->
                       Send(x, c.clients, d)
                  [] OTHER -> x
           k == IF n.txn_locked = c.id THEN 0 ELSE n.txn_locked
<1>0. /\ c.id \in TxnIds /\ c.wait \subseteq Backends
      /\ c.phase \in {"APPLY", "SEND_CFG", "FINISH"}
  BY DEF Commitments
<1>1. y = [n EXCEPT !.commit = NoReq, !.txn_locked = k]
  BY DEF Cleanup
<1>2. Core(n) /\ Steady(x, n) /\ Busy(n) \subseteq Busy(x)
  <2>1. CASE c.phase = "APPLY"
    <3>1. n = CloseAll(x, c.wait)
      BY <2>1
    <3> HIDE DEF n
    <3>2. Core(n) /\ Steady(x, n) /\ Busy(n) = Busy(x) \ c.wait
      BY <1>0, <3>1, CloseAllOK, SMTT(30)
    <3> QED
      BY <3>2
  <2>2. CASE c.phase = "SEND_CFG" \/ (c.phase = "FINISH" /\ c.kind = "validate")
    <3>1. n = Send(x, c.clients, d)
      BY <2>2
    <3>2. d \in [Backends -> Orders]
      BY <1>0 DEF Orders, Msg
    <3>3. \A b \in c.clients \cap Backends : OrderOK(x, b, d[b])
      BY DEF OrderOK, Msg
    <3> HIDE DEF n, d
    <3>4. Core(n) /\ Steady(x, n) /\ CommitView(x) = CommitView(n)
      BY <3>1, <3>2, <3>3, SendOK, SMTT(30)
    <3> QED
      BY <3>4 DEF CommitView, Busy
  <2>3. CASE c.phase = "FINISH" /\ c.kind # "validate"
    <3>1. n = x
      BY <2>3
    <3> HIDE DEF n
    <3> QED
      BY <3>1 DEF Steady, Grows
  <2> QED
    BY <1>0, <2>1, <2>2, <2>3
<1> HIDE DEF n
<1>3. k \in TxnIds \cup {0} /\ n \in States /\ n.failed # "assert"
  BY <1>2 DEF Core, States
<1> HIDE DEF k
<1>4. /\ y \in States /\ y.failed # "assert" /\ y.toBe = n.toBe /\ y.commit = NoReq
      /\ y.init = n.init /\ y.fate = n.fate /\ y.change = n.change
      /\ y.running = n.running /\ CoreView(n) = CoreView(y)
  BY <1>1, <1>3 DEF States, CoreView
<1>5. Core(y)
  BY <1>2, <1>4, SameCoreToBe
<1>6. Steady(n, y) /\ Busy(y) = Busy(n)
  BY <1>4 DEF Steady, Grows, Busy
<1>7. Steady(x, y)
  BY <1>2, <1>6, SteadyTwice
<1> QED
  BY <1>2, <1>4, <1>5, <1>6, <1>7

\* What a handler leaves behind.
Handled(x, y) ==
  Core(y) /\ CommitOK(y) /\ Moves(x, y) /\ Busy(y) \subseteq Busy(x)

\* A commit request that may be finished: when it makes the candidate the
\* running configuration, its transaction is applied and has this change.
Ready(x) ==
  LET c == x.commit
  IN  /\ Exclusive(x)
      /\ c.phase # "SEND_CFG" /\ c.kind \in {"apply", "edit", "rollback"} =>
           /\ x.fate[c.id] = "applied"
           /\ "pipeline" \notin Disturbances => x.change[c.id] = Diff(x)

LEMMA FinishCommitOK ==
  ASSUME NEW x, Core(x), Ready(x), NEW ok \in BOOLEAN, NEW y, y = FinishCommit(x, ok)
  PROVE  Handled(x, y) /\ y.commit = NoReq
<1> DEFINE c == x.commit
           accept == c.phase # "SEND_CFG" /\ c.kind \in {"apply", "edit", "rollback"}
           e == IF c.kind = "rollback" THEN x.records ELSE Append(x.records, x.candidate)
           n == CASE accept -> [x EXCEPT !.running = x.candidate, !.records = e]
                  [] ok /\ c.kind = "abort" -> [x EXCEPT !.candidate = x.running]
                  [] OTHER -> x
           s == Settle(n, c.id, "dropped")
           r == Reply(s, c, ok)
<1>1. y = Cleanup(r, c)
  <2>1. CASE c.kind = "rollback"
    BY <2>1 DEF FinishCommit
  <2>2. CASE c.kind # "rollback"
    BY <2>2 DEF FinishCommit
  <2> QED
    BY <2>1, <2>2
<1>2. /\ x \in States /\ x.failed # "assert" /\ Exclusive(x) /\ c \in Commitments
      /\ c.id \in TxnIds
  BY DEF Core, Ready, Exclusive, Commitments
<1>3. /\ Core(n) /\ Exclusive(n) /\ Moves(x, n) /\ Busy(n) = Busy(x) /\ n.commit = c
  <2> DEFINE Same(z) ==
        /\ z.init = x.init /\ z.up = x.up /\ z.initEv = x.initEv
        /\ z.served = x.served /\ z.readers = x.readers /\ z.next = x.next
        /\ z.fate = x.fate /\ z.change = x.change /\ z.toBe = x.toBe
        /\ z.commit = x.commit /\ z.locked = x.locked /\ z.txn_locked = x.txn_locked
  <2>1. ASSUME Same(n)
        PROVE  Exclusive(n) /\ Busy(n) = Busy(x) /\ n.commit = c /\ Grows(x, n)
    <3> HIDE DEF n
    <3> QED
      BY <1>2, <2>1 DEF Exclusive, Busy, Grows
  <2>2. CASE accept
    <3>1. n = [x EXCEPT !.running = x.candidate, !.records = e]
      BY <2>2
    <3>2. e \in Seq(SUBSET Items) /\ x.candidate \in SUBSET Items
      BY <1>2, SMTT(30) DEF States
    <3> HIDE DEF n, e
    <3>3. /\ n \in States /\ Same(n) /\ n.failed # "assert"
          /\ n.running = x.candidate
      BY <1>2, <3>1, <3>2 DEF States
    <3>4. Core(n)
      BY <1>2, <2>2, <3>3, CoreIdle DEF Exclusive
    <3>5. Moves(x, n)
      <4> SUFFICES ASSUME "pipeline" \notin Disturbances
                   PROVE  \E t \in TxnIds : n.fate[t] = "applied"
                                  /\ n.running = Patch(x.running, n.change[t])
        BY <2>1, <3>3 DEF Moves
      <4>1. x.fate[c.id] = "applied" /\ x.change[c.id] = Diff(x)
        BY <2>2 DEF Ready
      <4>2. Patch(x.running, Diff(x)) = x.candidate
        BY DEF Patch, Diff
      <4> QED
        BY <1>2, <3>3, <4>1, <4>2
    <3> QED
      BY <2>1, <3>3, <3>4, <3>5
  <2>3. CASE ~accept
    <3> DEFINE d == IF ok /\ c.kind = "abort" THEN x.running ELSE x.candidate
    <3>1. n = [x EXCEPT !.candidate = d]
      <4> HIDE DEF accept
      <4> QED
        BY <1>2, <2>3 DEF States
    <3>2. d \in SUBSET Items
      BY <1>2 DEF States
    <3> HIDE DEF n, d
    <3>3. n \in States /\ Same(n) /\ n.failed # "assert" /\ n.running = x.running
      BY <1>2, <3>1, <3>2 DEF States
    <3>4. CoreView(x) = CoreView(n)
      BY <3>3 DEF CoreView
    <3>5. Core(n)
      BY <3>3, <3>4, SameCoreToBe
    <3>6. Moves(x, n)
      BY <2>1, <3>3 DEF Moves
    <3> QED
      BY <2>1, <3>3, <3>5, <3>6
  <2> QED
    BY <2>2, <2>3
<1> HIDE DEF n, accept, e
<1>4. Core(s) /\ Exclusive(s) /\ Steady(n, s) /\ Busy(s) = Busy(n) /\ s.commit = c
  <2>1. c.id < n.next /\ \A b \in Busy(n) : n.init[b].id # c.id
    BY <1>3 DEF Exclusive
  <2> QED
    BY <1>2, <1>3, <2>1, SettleOK, SMTT(30)
<1> HIDE DEF s
<1>5. Core(r) /\ Steady(s, r) /\ Busy(r) = Busy(s)
  BY <1>4, ReplyOK
<1> HIDE DEF r
<1>6. Core(y) /\ Steady(r, y) /\ Busy(y) \subseteq Busy(r) /\ y.commit = NoReq
  BY <1>1, <1>2, <1>5, CleanupOK
<1>7. Moves(x, y)
  <2>1. Moves(x, s)
    BY <1>3, <1>4, MovesThenSteady
  <2>2. Moves(x, r)
    BY <1>5, <2>1, MovesThenSteady
  <2> QED
    BY <1>6, <2>2, MovesThenSteady
<1> QED
  BY <1>3, <1>4, <1>5, <1>6, <1>7 DEF Handled, CommitOK

-----------------------------------------------------------------------------
(* The phases of the commit request. *)

\* The request is updated, and remains the same request.
LEMMA SetCommit ==
  ASSUME NEW x, Core(x), NEW c \in Commitments, c.id = x.commit.id,
         c.kind = x.commit.kind, c.session = x.commit.session,
         NEW y, y = [x EXCEPT !.commit = c]
  PROVE  /\ Core(y) /\ Steady(x, y) /\ Busy(y) = Busy(x) /\ y.commit = c
         /\ Exclusive(x) => Exclusive(y)
         /\ Protected(x) => Protected(y)
         /\ y.fate = x.fate /\ y.change = x.change /\ y.up = x.up
         /\ y.candidate = x.candidate /\ y.running = x.running /\ y.next = x.next
         /\ y.init = x.init
<1>1. x \in States /\ x.failed # "assert"
  BY DEF Core
<1>2. /\ y \in States /\ y.failed # "assert" /\ y.toBe = x.toBe /\ y.commit = c
      /\ y.init = x.init /\ y.fate = x.fate /\ y.change = x.change
      /\ y.running = x.running /\ y.candidate = x.candidate /\ y.next = x.next
      /\ y.locked = x.locked /\ y.txn_locked = x.txn_locked /\ y.up = x.up
      /\ CoreView(x) = CoreView(y)
  BY <1>1 DEF States, CoreView
<1>3. Core(y)
  BY <1>2, SameCoreToBe
<1>4. Steady(x, y) /\ Busy(y) = Busy(x)
  BY <1>2 DEF Steady, Grows, Busy
<1>5. Exclusive(x) => Exclusive(y)
  BY <1>2, <1>4 DEF Exclusive
<1>6. Protected(x) => Protected(y)
  BY <1>2 DEF Protected, Diff
<1> QED
  BY <1>2, <1>3, <1>4, <1>5, <1>6

\* A handler after steps that left running alone.
LEMMA SteadyThenHandled ==
  ASSUME NEW x, NEW y, NEW z, Steady(x, y), Busy(y) \subseteq Busy(x), Handled(y, z)
  PROVE  Handled(x, z)
BY SteadyThenMoves DEF Handled

\* txn_cfg_send_cfg_apply: from here on the change is applied.
LEMMA SendApplyOK ==
  ASSUME NEW x, Core(x), Pending(x), x.commit.phase = "SEND_CFG",
         x.commit.kind # "validate", NEW y, y = SendApply(x)
  PROVE  Handled(x, y)
<1> DEFINE c == x.commit
           to == c.clients \cap x.up
           d == [c EXCEPT !.phase = "APPLY", !.wait = to]
           a == [x EXCEPT !.commit = d]
           s == Settle(a, c.id, "applied")
           msg == [b \in Backends |-> Msg("CFG_APPLY_REQ", c.id)]
           n == Send(s, to, msg)
           e == [n.commit EXCEPT !.phase = "FINISH"]
           k == [n EXCEPT !.commit = e]
<1>1. y = IF to = {} THEN FinishCommit(k, TRUE) ELSE n
  <2> DEFINE p == [x EXCEPT !.commit.phase = "APPLY", !.commit.wait = to]
             z == Send(Settle(p, c.id, "applied"), to, msg)
  <2>1. p = a
    BY DEF Core, States
  <2>2. y = IF to = {} THEN FinishCommit([z EXCEPT !.commit.phase = "FINISH"], TRUE) ELSE z
    BY DEF SendApply
  <2> HIDE DEF p, a
  <2>3. z = n
    BY <2>1
  <2> HIDE DEF z, n
  <2> QED
    BY <2>2, <2>3
<1>2. c \in Commitments /\ c.id \in TxnIds /\ Exclusive(x) /\ x.fate[c.id] = "open"
  BY DEF Pending, Exclusive, Commitments
<1>3. /\ d \in Commitments /\ d.id = c.id /\ d.kind = c.kind /\ d.session = c.session
      /\ d.phase = "APPLY" /\ d.wait = to
  BY <1>2 DEF Commitments
<1> HIDE DEF d
<1>4. /\ Core(a) /\ Steady(x, a) /\ Busy(a) = Busy(x) /\ a.commit = d
      /\ Exclusive(a) /\ (Protected(x) => Protected(a)) /\ a.fate = x.fate
  BY <1>2, <1>3, SetCommit, SMTT(30)
<1> HIDE DEF a
<1>5. /\ Core(s) /\ Steady(a, s) /\ Busy(s) = Busy(a) /\ s.commit = d
      /\ Exclusive(s) /\ (Protected(x) => Protected(s)) /\ s.fate[c.id] = "applied"
  <2>1. c.id < a.next /\ \A b \in Busy(a) : a.init[b].id # c.id
    BY <1>3, <1>4 DEF Exclusive
  <2> QED
    BY <1>2, <1>4, <2>1, SettleOK, SMTT(30)
<1> HIDE DEF s
<1>6. /\ Core(n) /\ Steady(s, n) /\ CommitView(s) = CommitView(n)
  <2>1. msg \in [Backends -> Orders]
    BY <1>2 DEF Orders, Msg
  <2>2. \A b \in to \cap Backends : OrderOK(s, b, msg[b])
    BY <1>5 DEF OrderOK, Msg
  <2> HIDE DEF msg, to
  <2> QED
    BY <1>5, <2>1, <2>2, SendOK, SMTT(30)
<1> HIDE DEF n
<1>7. /\ n.commit = d /\ n.fate[c.id] = "applied" /\ Exclusive(n) /\ Busy(n) = Busy(x)
      /\ Protected(x) => Protected(n)
  BY <1>4, <1>5, <1>6, SameCommit DEF CommitView, Busy
<1>8. Steady(x, n)
  BY <1>4, <1>5, <1>6, SteadyTwice
<1>9. "pipeline" \notin Disturbances => Protected(n)
  BY <1>7 DEF Pending
<1>10. CASE to = {}
  <2>1. e \in Commitments /\ e.id = d.id /\ e.kind = d.kind /\ e.session = d.session
    BY <1>3, <1>7 DEF Commitments
  <2> HIDE DEF e
  <2>2. /\ Core(k) /\ Steady(n, k) /\ Busy(k) = Busy(n) /\ k.commit = e
        /\ Exclusive(k) /\ k.fate = n.fate /\ (Protected(n) => Protected(k))
    BY <1>3, <1>6, <1>7, <2>1, SetCommit, SMTT(30)
  <2> HIDE DEF k
  <2>3. Ready(k)
    BY <1>3, <1>7, <1>9, <2>1, <2>2 DEF Ready, Protected
  <2>4. y = FinishCommit(k, TRUE)
    BY <1>1, <1>10
  <2>5. Handled(k, y)
    BY <2>2, <2>3, <2>4, FinishCommitOK
  <2>6. Steady(x, k) /\ Busy(k) \subseteq Busy(x)
    BY <1>7, <1>8, <2>2, SteadyTwice
  <2> QED
    BY <2>5, <2>6, SteadyThenHandled
<1>11. CASE to # {}
  <2>1. y = n
    BY <1>1, <1>11
  <2>2. CommitOK(n)
    BY <1>3, <1>7, <1>9, <1>11 DEF CommitOK, Pending
  <2> QED
    BY <1>6, <1>7, <1>8, <2>1, <2>2, SteadyMoves DEF Handled
<1> QED
  BY <1>10, <1>11

LEMMA NextPhaseOK ==
  ASSUME NEW x, Core(x), Pending(x), NEW y, y = NextPhase(x)
  PROVE  Handled(x, y)
<1>1. CASE x.commit.phase = "SEND_CFG" /\ x.commit.kind # "validate"
  BY <1>1, SendApplyOK DEF NextPhase
<1>2. CASE ~(x.commit.phase = "SEND_CFG" /\ x.commit.kind # "validate")
  <2> DEFINE e == [x.commit EXCEPT !.phase = "FINISH"]
             k == [x EXCEPT !.commit = e]
  <2>1. y = FinishCommit(k, TRUE)
    BY <1>2 DEF NextPhase
  <2>2. /\ e \in Commitments /\ e.id = x.commit.id /\ e.kind = x.commit.kind
        /\ e.session = x.commit.session
    BY DEF Commitments, Pending, Exclusive
  <2> HIDE DEF e
  <2>3. /\ Core(k) /\ Steady(x, k) /\ Busy(k) = Busy(x) /\ k.commit = e
        /\ Exclusive(k) /\ k.fate = x.fate /\ (Protected(x) => Protected(k))
    BY <2>2, SetCommit, SMTT(30) DEF Pending
  <2> HIDE DEF k
  <2>4. Ready(k)
    BY <1>2, <2>2, <2>3 DEF Ready, Pending, Protected
  <2>5. Handled(k, y)
    BY <2>1, <2>3, <2>4, FinishCommitOK
  <2> QED
    BY <2>3, <2>5, SteadyThenHandled
<1> QED
  BY <1>1, <1>2

\* The update of one field of the request.
LEMMA SetField ==
  ASSUME NEW x, Core(x), Pending(x), NEW c \in Commitments,
         c.id = x.commit.id, c.kind = x.commit.kind, c.session = x.commit.session,
         c.phase = x.commit.phase, NEW y, y = [x EXCEPT !.commit = c]
  PROVE  Core(y) /\ Pending(y) /\ Steady(x, y) /\ Busy(y) = Busy(x) /\ y.commit = c
<1>1. /\ Core(y) /\ Steady(x, y) /\ Busy(y) = Busy(x) /\ y.commit = c
      /\ Exclusive(y) /\ y.fate = x.fate /\ (Protected(x) => Protected(y))
  BY SetCommit, SMTT(30) DEF Pending
<1> QED
  BY <1>1 DEF Pending

LEMMA AckedOK ==
  ASSUME NEW x, Core(x), Pending(x), NEW b, NEW y, y = Acked(x, b)
  PROVE  Handled(x, y)
<1> DEFINE d == [x.commit EXCEPT !.wait = x.commit.wait \ {b}]
           n == [x EXCEPT !.commit = d]
<1>1. y = IF n.commit.wait = {} THEN NextPhase(n) ELSE n
  BY DEF Acked
<1>2. /\ d \in Commitments /\ d.id = x.commit.id /\ d.kind = x.commit.kind
      /\ d.session = x.commit.session /\ d.phase = x.commit.phase
  BY DEF Commitments, Pending, Exclusive
<1> HIDE DEF d
<1>3. Core(n) /\ Pending(n) /\ Steady(x, n) /\ Busy(n) = Busy(x)
  BY <1>2, SetField
<1> HIDE DEF n
<1>4. CASE n.commit.wait = {}
  <2>1. Handled(n, y)
    BY <1>1, <1>3, <1>4, NextPhaseOK
  <2> QED
    BY <1>3, <2>1, SteadyThenHandled
<1>5. CASE n.commit.wait # {}
  BY <1>1, <1>3, <1>5, SteadyMoves DEF Handled, CommitOK
<1> QED
  BY <1>4, <1>5

LEMMA BeDeleteOK ==
  ASSUME NEW x, Core(x), CommitOK(x), NEW b \in Backends, NEW y, y = BeDelete(x, b)
  PROVE  Handled(x, y) /\ b \notin Busy(y)
<1> DEFINE n == CloseAll(x, {b})
           d == [n.commit EXCEPT !.clients = n.commit.clients \ {b}]
           k == [n EXCEPT !.commit = d]
<1>1. y = IF n.commit = NoReq THEN n ELSE IF b \in n.commit.wait THEN Acked(k, b) ELSE k
  BY DEF BeDelete
<1>2. Core(n) /\ CommitOK(n) /\ Steady(x, n) /\ Busy(n) = Busy(x) \ {b}
  BY CloseAllOK, SMTT(30)
<1> HIDE DEF n
<1>3. CASE n.commit = NoReq
  BY <1>1, <1>2, <1>3, SteadyMoves DEF Handled
<1>4. CASE n.commit # NoReq
  <2>1. Pending(n) /\ n.commit.wait # {}
    BY <1>2, <1>4 DEF CommitOK
  <2>2. /\ d \in Commitments /\ d.id = n.commit.id /\ d.kind = n.commit.kind
        /\ d.session = n.commit.session /\ d.phase = n.commit.phase
        /\ d.wait = n.commit.wait
    BY <2>1 DEF Commitments, Pending, Exclusive
  <2> HIDE DEF d
  <2>3. Core(k) /\ Pending(k) /\ Steady(n, k) /\ Busy(k) = Busy(n) /\ k.commit = d
    BY <1>2, <2>1, <2>2, SetField, SMTT(30)
  <2> HIDE DEF k
  <2>4. Steady(x, k) /\ Busy(k) = Busy(x) \ {b}
    BY <1>2, <2>3, SteadyTwice
  <2>5. Handled(k, y)
    <3>1. CASE b \in n.commit.wait
      BY <1>1, <1>4, <2>3, <3>1, AckedOK
    <3>2. CASE b \notin n.commit.wait
      <4>1. y = k
        BY <1>1, <1>4, <3>2
      <4>2. Moves(k, k)
        BY DEF Moves, Grows
      <4> QED
        BY <2>1, <2>2, <2>3, <4>1, <4>2 DEF Handled, CommitOK
    <3> QED
      BY <3>1, <3>2
  <2>6. Busy(y) \subseteq Busy(k)
    BY <2>5 DEF Handled
  <2> QED
    BY <2>4, <2>5, <2>6, SteadyThenHandled
<1> QED
  BY <1>3, <1>4

-----------------------------------------------------------------------------
(* The start of the commit request. *)

\* A request that is about to be made: its transaction is not opened yet.
Fresh(x) ==
  LET c == x.commit
  IN  /\ Exclusive(x)
      /\ c.phase = "SEND_CFG"
      /\ x.fate[c.id] = "idle"
      /\ c.kind # "rollback" => x.locked["candidate"] \in {c.session, "nobody"}

LEMMA MakeAndSendOK ==
  ASSUME NEW x, Core(x), Fresh(x), NEW check, NEW y, y = MakeAndSend(x, check)
  PROVE  Handled(x, y)
<1> DEFINE c == x.commit
           ch == Diff(x)
           to == Interested(x, ch)
           d == [c EXCEPT !.clients = to]
           f == [x.fate EXCEPT ![c.id] = "open"]
           g == [x.change EXCEPT ![c.id] = ch]
           open == [x EXCEPT !.fate = f, !.change = g, !.commit = d]
           e == [d EXCEPT !.wait = to]
           wait == [open EXCEPT !.commit = e]
           msg == [b \in Backends |-> CfgReq(c.id, Share(ch, b))]
           sent == Send(wait, to, msg)
<1>1. /\ x \in States /\ x.failed # "assert" /\ x.next \in Nat
      /\ x.fate \in FateMaps /\ x.change \in ChangeMaps
  BY DEF Core, States
<1>2. /\ c \in Commitments /\ c.id \in TxnIds /\ c.id < x.next /\ Exclusive(x)
      /\ \A b \in Busy(x) : x.init[b].id # c.id
      /\ c.phase = "SEND_CFG" /\ x.fate[c.id] = "idle"
  BY DEF Fresh, Exclusive, Commitments
<1>3. \/ y = FinishCommit(x, TRUE)
      \/ y = FinishCommit(x, FALSE)
      \/ y = FinishCommit(open, FALSE)
      \/ y = IF to = {} THEN NextPhase(sent) ELSE sent
  <2> DEFINE o == [x EXCEPT !.fate[c.id] = "open", !.change[c.id] = ch,
                            !.commit.clients = to]
             w == [o EXCEPT !.commit.wait = to]
             z == Send(w, to, msg)
  <2>1. o = open
    OBVIOUS
  <2>2. \/ y = FinishCommit(x, TRUE)
        \/ y = FinishCommit(x, FALSE)
        \/ y = FinishCommit(o, FALSE)
        \/ y = IF to = {} THEN NextPhase(z) ELSE z
    BY DEF MakeAndSend, Diff
  <2> HIDE DEF o
  <2>3. w = [o EXCEPT !.commit = [o.commit EXCEPT !.wait = to]]
    OBVIOUS
  <2>4. open.commit = d
    BY <1>1 DEF States
  <2> HIDE DEF open, d, to, w, msg
  <2>5. w = wait
    BY <2>1, <2>3, <2>4
  <2> QED
    BY <2>1, <2>2, <2>5
<1>4. ASSUME NEW ok \in BOOLEAN, y = FinishCommit(x, ok)
      PROVE  Handled(x, y)
  <2>1. Ready(x)
    BY <1>2 DEF Ready
  <2> QED
    BY <1>4, <2>1, FinishCommitOK
<1>5. /\ d \in Commitments /\ d.id = c.id /\ d.kind = c.kind /\ d.session = c.session
      /\ d.phase = "SEND_CFG" /\ d.clients = to
  <2>1. to \in SUBSET Backends
    BY <1>1 DEF Interested, States
  <2> HIDE DEF to
  <2> QED
    BY <1>2, <2>1 DEF Commitments
<1>6. /\ e \in Commitments /\ e.id = d.id /\ e.kind = d.kind /\ e.session = d.session
      /\ e.phase = "SEND_CFG" /\ e.wait = to
  <2> HIDE DEF d
  <2>1. d.clients \in SUBSET Backends
    BY <1>5 DEF Commitments
  <2> HIDE DEF to
  <2> QED
    BY <1>5, <2>1 DEF Commitments
<1> HIDE DEF d, e
<1>7. ch \in Change
  BY <1>1 DEF Diff, Change, States
<1>8. f \in FateMaps /\ g \in ChangeMaps
  <2> HIDE DEF ch
  <2> QED
    BY <1>1, <1>2, <1>7 DEF FateMaps, ChangeMaps, Fates
<1>9. /\ f[c.id] = "open" /\ g[c.id] = ch
      /\ \A t \in TxnIds : t # c.id => f[t] = x.fate[t] /\ g[t] = x.change[t]
  BY <1>1, <1>2 DEF FateMaps, ChangeMaps
<1> HIDE DEF f, g
<1>10. /\ open \in States /\ open.fate = f /\ open.change = g /\ open.commit = d
       /\ open.failed = x.failed /\ open.toBe = x.toBe /\ open.init = x.init
       /\ open.running = x.running /\ open.candidate = x.candidate
       /\ open.next = x.next /\ open.locked = x.locked
       /\ open.txn_locked = x.txn_locked /\ open.up = x.up
       /\ open.initEv = x.initEv /\ open.served = x.served
       /\ open.readers = x.readers
  BY <1>1, <1>5, <1>8 DEF States
<1> HIDE DEF open
<1>11. Steady(x, open) /\ Busy(open) = Busy(x)
  BY <1>2, <1>9, <1>10 DEF Steady, Grows, Busy
<1>12. Core(open)
  <2>1. ASSUME NEW b \in Busy(open) PROVE InitOK(open, b)
    <3>1. x.init[b].id \in TxnIds
      BY <1>1, <1>11 DEF Busy, States, InitMaps, InitRequests
    <3>2. b \in Busy(x) /\ InitOK(x, b)
      BY <1>11 DEF Core
    <3> QED
      BY <1>2, <1>9, <1>10, <3>1, <3>2, SMTT(30) DEF InitOK
  <2>2. \A b \in Backends : \A i \in DOMAIN open.toBe[b] : OrderOK(open, b, open.toBe[b][i])
    <3>1. \A b \in Backends : \A i \in DOMAIN x.toBe[b] : x.toBe[b][i] \in Orders
      BY <1>1, SMTT(30) DEF States, OrderQueues
    <3> QED
      BY <1>10, <1>11, <3>1, OrdersStay DEF Core, Steady
  <2>3. \A t \in TxnIds : t >= open.next => open.fate[t] = "idle"
    BY <1>1, <1>2, <1>9, <1>10, SMTT(30) DEF Core, TxnIds
  <2> QED
    BY <1>1, <1>10, <1>11, <2>1, <2>2, <2>3 DEF Core
<1>13. Exclusive(open) /\ open.fate[c.id] = "open" /\ Protected(open)
  <2>1. Exclusive(open)
    BY <1>2, <1>5, <1>10, <1>11 DEF Exclusive
  <2>2. Protected(open)
    BY <1>5, <1>9, <1>10 DEF Protected, Fresh, Diff
  <2> QED
    BY <1>9, <1>10, <2>1, <2>2
<1>14. CASE y = FinishCommit(open, FALSE)
  <2>1. Ready(open)
    BY <1>5, <1>10, <1>13 DEF Ready
  <2>2. Handled(open, y)
    BY <1>12, <1>14, <2>1, FinishCommitOK
  <2> QED
    BY <1>11, <2>2, SteadyThenHandled
<1>15. CASE y = IF to = {} THEN NextPhase(sent) ELSE sent
  <2>1. Pending(open)
    BY <1>5, <1>10, <1>13 DEF Pending
  <2>2. /\ Core(wait) /\ Pending(wait) /\ Steady(open, wait) /\ Busy(wait) = Busy(open)
        /\ wait.commit = e /\ wait.change = open.change /\ wait.fate = open.fate
    <3>1. wait.change = open.change /\ wait.fate = open.fate
      BY <1>10 DEF States
    <3> HIDE DEF wait
    <3> QED
      BY <1>5, <1>6, <1>10, <1>12, <2>1, <3>1, SetField, SMTT(30) DEF wait
  <2> HIDE DEF wait
  <2>3. msg \in [Backends -> Orders]
    <3>1. \A b \in Backends : Share(ch, b) \in Change
      BY <1>7, InterestAssumption DEF Share, Narrow, Change
    <3> HIDE DEF ch
    <3> QED
      BY <1>2, <3>1 DEF Orders, CfgReq
  <2>4. \A b \in to \cap Backends : OrderOK(wait, b, msg[b])
    <3> SUFFICES ASSUME NEW b \in Backends PROVE OrderOK(wait, b, msg[b])
      OBVIOUS
    <3>1. /\ msg[b].type = "CFG_REQ" /\ msg[b].id = c.id
          /\ msg[b].change = Narrow(ch, Interest[b])
      BY DEF CfgReq, Share
    <3>2. wait.fate[c.id] = "open" /\ wait.change[c.id] = ch
      BY <1>9, <1>10, <2>2
    <3> HIDE DEF msg, ch
    <3> QED
      BY <3>1, <3>2 DEF OrderOK
  <2> HIDE DEF msg, to
  <2>5. Core(sent) /\ Steady(wait, sent) /\ CommitView(wait) = CommitView(sent)
    BY <2>2, <2>3, <2>4, SendOK
  <2> HIDE DEF sent
  <2>6. Pending(sent) /\ sent.commit = e /\ Busy(sent) = Busy(x)
    BY <1>11, <2>2, <2>5, SameCommit DEF CommitView, Busy
  <2>7. Steady(x, sent)
    BY <1>11, <2>2, <2>5, SteadyTwice
  <2>8. CASE to = {}
    <3>1. Handled(sent, y)
      BY <1>15, <2>5, <2>6, <2>8, NextPhaseOK
    <3> QED
      BY <2>6, <2>7, <3>1, SteadyThenHandled
  <2>9. CASE to # {}
    BY <1>6, <1>15, <2>5, <2>6, <2>7, <2>9, SteadyMoves DEF Handled, CommitOK
  <2> QED
    BY <2>8, <2>9
<1> QED
  BY <1>3, <1>4, <1>14, <1>15

\* mgmt_txn_send_commit_config_req, for a caller that found no other
\* transaction in progress.
LEMMA StartOK ==
  ASSUME NEW x, Core(x), x.commit = NoReq, x.next \in TxnIds,
         NEW c \in Commitments, c.id = x.next, c.phase = "SEND_CFG",
         c.kind # "validate" => Busy(x) = {},
         c.kind = "rollback" => x.locked = [ds \in DataStores |-> "rollback"],
         c.kind # "rollback" => x.locked["candidate"] \in {c.session, "nobody"},
         NEW check, NEW y, y = Start(x, c, check)
  PROVE  Handled(x, y)
<1> DEFINE k == IF c.kind = "rollback" THEN x.txn_locked ELSE c.id
           i == x.next + 1
           n == [x EXCEPT !.commit = c, !.next = i, !.txn_locked = k]
<1>1. x \in States /\ x.failed # "assert" /\ c.id \in TxnIds
  BY DEF Core, Commitments
<1>2. k \in TxnIds \cup {0} /\ i \in Nat \ {0} /\ i > c.id
  BY <1>1, SMTT(30) DEF States
<1>3. y = MakeAndSend(n, check)
  BY DEF Start
<1>4. c.kind # "rollback" => k = c.id
  OBVIOUS
<1> HIDE DEF k, i
<1>5. /\ n \in States /\ n.commit = c /\ n.next = i /\ n.txn_locked = k
      /\ n.failed = x.failed /\ n.toBe = x.toBe /\ n.init = x.init
      /\ n.running = x.running /\ n.fate = x.fate /\ n.change = x.change
      /\ n.locked = x.locked /\ n.up = x.up /\ n.initEv = x.initEv
      /\ n.served = x.served /\ n.readers = x.readers
  BY <1>1, <1>2 DEF States
<1> HIDE DEF n
<1>6. Steady(x, n) /\ Busy(n) = Busy(x)
  BY <1>5 DEF Steady, Grows, Busy
<1>7. \A b \in Busy(x) : x.init[b].id \in TxnIds /\ x.init[b].id < x.next
  BY <1>1 DEF Busy, States, InitMaps, InitRequests, Core, InitOK
<1>8. Core(n)
  <2>1. ASSUME NEW b \in Busy(n) PROVE InitOK(n, b)
    <3>1. x.init[b].id \in Nat /\ x.init[b].id < x.next /\ x.next \in Nat
      BY <1>1, <1>6, <1>7, SMTT(30) DEF States, TxnIds
    <3>2. x.init[b].id < i
      BY <3>1, SMTT(30) DEF i
    <3>3. InitOK(x, b)
      BY <1>6 DEF Core
    <3> QED
      BY <1>5, <3>2, <3>3 DEF InitOK
  <2>2. \A b \in Backends : \A j \in DOMAIN n.toBe[b] : OrderOK(n, b, n.toBe[b][j])
    <3>1. n.toBe = x.toBe /\ n.fate = x.fate /\ n.change = x.change
      BY <1>5
    <3> QED
      BY <3>1, OrdersKept
  <2>3. \A t \in TxnIds : t >= n.next => n.fate[t] = "idle"
    <3>1. \A t \in TxnIds : t >= i => t >= x.next
      BY <1>1, SMTT(30) DEF i, States, TxnIds
    <3> QED
      BY <1>5, <3>1 DEF Core
  <2> QED
    BY <1>1, <1>5, <1>6, <2>1, <2>2, <2>3, SMTT(30) DEF Core
<1>9. Fresh(n)
  <2>1. \A b \in Busy(n) : n.init[b].id # c.id
    BY <1>5, <1>6, <1>7, SMTT(30) DEF TxnIds
  <2>2. n.fate[c.id] = "idle"
    BY <1>1, <1>5, SMTT(30) DEF Core, TxnIds
  <2> QED
    BY <1>2, <1>4, <1>5, <1>6, <2>1, <2>2 DEF Fresh, Exclusive
<1>10. Handled(n, y)
  BY <1>3, <1>8, <1>9, MakeAndSendOK
<1> QED
  BY <1>6, <1>10, SteadyThenHandled

-----------------------------------------------------------------------------
(* Messages from backends. *)

LEMMA InitFailedOK ==
  ASSUME NEW x, Core(x), CommitOK(x), NEW b \in Busy(x), NEW y, y = InitFailed(x, b)
  PROVE  Handled(x, y)
<1> DEFINE n == InitDone(x, b)
           w == n.served \ {b}
           k == [n EXCEPT !.served = w]
           msg == [a \in Backends |-> Msg("TXN_DELETE", x.init[b].id)]
<1>1. Core(n) /\ CommitOK(n) /\ Steady(x, n) /\ Busy(n) = Busy(x) \ {b}
  BY InitDoneOK
<1>2. y = Send(k, {b}, msg)
  BY DEF InitFailed
<1>3. x.init[b].id \in TxnIds
  BY DEF Core, States, Busy, InitMaps, InitRequests
<1> HIDE DEF n
<1>4. n \in States /\ w \in SUBSET Backends /\ w \subseteq n.up /\ n.failed # "assert"
  BY <1>1, CoreFields
<1> HIDE DEF w
<1>5. /\ k \in States /\ k.failed # "assert" /\ k.toBe = n.toBe /\ k.served = w
      /\ k.init = n.init /\ k.up = n.up /\ k.initEv = n.initEv
      /\ k.readers = n.readers /\ k.locked = n.locked /\ k.next = n.next
      /\ k.fate = n.fate /\ k.change = n.change /\ k.running = n.running
      /\ CommitView(n) = CommitView(k)
  BY <1>4 DEF States, CommitView
<1> HIDE DEF k
<1>6. Core(k)
  <2>1. Busy(k) = Busy(n)
    BY <1>5 DEF Busy
  <2>2. \A c \in Busy(k) : InitOK(k, c)
    BY <1>1, <1>5, InitsKept
  <2>3. \A c \in Backends : \A i \in DOMAIN k.toBe[c] : OrderOK(k, c, k.toBe[c][i])
    <3>1. k.toBe = n.toBe /\ k.fate = n.fate /\ k.change = n.change /\ Core(n)
      BY <1>1, <1>5
    <3> QED
      BY <3>1, OrdersKept
  <2> QED
    BY <1>1, <1>4, <1>5, <2>1, <2>2, <2>3 DEF Core
<1>7. Core(y) /\ Steady(k, y) /\ CommitView(k) = CommitView(y)
  <2>1. msg \in [Backends -> Orders]
    BY <1>3 DEF Orders, Msg
  <2>2. \A c \in {b} \cap Backends : OrderOK(k, c, msg[c])
    BY DEF OrderOK, Msg
  <2> HIDE DEF msg
  <2> QED
    BY <1>2, <1>6, <2>1, <2>2, SendOK, SMTT(30)
<1>8. CommitOK(y)
  BY <1>1, <1>5, <1>7, SameCommit
<1>9. Busy(y) = Busy(n) /\ Steady(n, y)
  BY <1>5, <1>7, SMTT(30) DEF CommitView, Busy, Steady, Grows
<1>10. Steady(x, y)
  BY <1>1, <1>9, SteadyTwice
<1> QED
  BY <1>1, <1>7, <1>8, <1>9, <1>10, SteadyMoves DEF Handled

LEMMA InitAckedOK ==
  ASSUME NEW x, Core(x), CommitOK(x), NEW b \in Busy(x), NEW y, y = InitAcked(x, b)
  PROVE  Handled(x, y)
<1> DEFINE id == x.init[b].id
<1>1. /\ x \in States /\ x.failed # "assert" /\ b \in Backends
      /\ x.init \in InitMaps /\ x.fate \in FateMaps
  BY DEF Core, States, Busy
<1>2. x.init[b] \in InitRequests /\ id \in TxnIds /\ InitOK(x, b)
  BY <1>1 DEF Core, Busy, InitMaps, InitRequests
<1>3. CASE x.init[b].phase # "SEND_CFG"
  <2>1. y = InitDone(x, b)
    BY <1>3 DEF InitAcked
  <2>2. Core(y) /\ CommitOK(y) /\ Steady(x, y) /\ Busy(y) = Busy(x) \ {b}
    BY <2>1, InitDoneOK
  <2> QED
    BY <2>2, SteadyMoves DEF Handled
<1>4. CASE x.init[b].phase = "SEND_CFG"
  <2> DEFINE r == [x.init[b] EXCEPT !.phase = "APPLY"]
             i == [x.init EXCEPT ![b] = r]
             f == [x.fate EXCEPT ![id] = "applied"]
             n == [x EXCEPT !.init = i, !.fate = f]
             msg == [a \in Backends |-> Msg("CFG_APPLY_REQ", id)]
  <2>1. x.fate[id] = "open"
    BY <1>2, <1>4 DEF InitOK
  <2>2. y = Send(n, {b}, msg)
    <3> DEFINE p == [x EXCEPT !.init[b].phase = "APPLY"]
               q == Settle(p, id, "applied")
    <3>1. p = [x EXCEPT !.init = i] /\ p.fate = x.fate
      BY <1>1 DEF States
    <3>2. y = Send(q, {b}, msg)
      BY <1>4 DEF InitAcked
    <3> HIDE DEF p, i
    <3>3. q = [p EXCEPT !.fate = f]
      BY <2>1, <3>1 DEF Settle
    <3> HIDE DEF q, f, msg
    <3>4. q = n
      BY <3>1, <3>3
    <3> QED
      BY <3>2, <3>4
  <2>3. r \in InitRequests /\ r.id = id /\ r.phase = "APPLY"
    BY <1>2 DEF InitRequests
  <2> HIDE DEF r
  <2>4. r # NoReq
    BY <2>3, SMTT(30) DEF InitRequests, NoReq
  <2>5. /\ i \in InitMaps /\ i[b] = r /\ \A c \in Backends : c # b => i[c] = x.init[c]
    BY <1>1, <2>3 DEF InitMaps
  <2>6. /\ f \in FateMaps /\ f[id] = "applied"
        /\ \A t \in TxnIds : t # id => f[t] = x.fate[t]
    BY <1>1, <1>2 DEF FateMaps, Fates
  <2> HIDE DEF i, f
  <2>7. /\ n \in States /\ n.init = i /\ n.fate = f /\ n.failed = x.failed
        /\ n.toBe = x.toBe /\ n.up = x.up /\ n.initEv = x.initEv
        /\ n.served = x.served /\ n.readers = x.readers /\ n.locked = x.locked
        /\ n.next = x.next /\ n.change = x.change /\ n.running = x.running
        /\ n.commit = x.commit /\ n.txn_locked = x.txn_locked
        /\ n.candidate = x.candidate
    BY <1>1, <2>5, <2>6 DEF States
  <2> HIDE DEF n
  <2>8. Busy(n) = Busy(x)
    BY <2>4, <2>5, <2>7 DEF Busy
  <2>9. \A c \in Busy(n) : n.init[c].id = x.init[c].id
    BY <2>3, <2>5, <2>7 DEF Busy
  <2>10. Steady(x, n)
    BY <1>2, <2>1, <2>6, <2>7 DEF Steady, Grows
  <2>11. Core(n)
    <3>1. \A c \in Busy(n) : InitOK(n, c)
      <4> SUFFICES ASSUME NEW c \in Busy(n) PROVE InitOK(n, c)
        OBVIOUS
      <4>1. CASE c = b
        BY <1>2, <2>3, <2>5, <2>6, <2>7, <4>1 DEF InitOK
      <4>2. CASE c # b
        <5>1. n.init[c] = x.init[c] /\ InitOK(x, c)
          BY <2>5, <2>7, <2>8, <4>2 DEF Core, Busy
        <5>2. x.init[c].id # id /\ x.init[c].id \in TxnIds
          BY <1>1, <2>8, <4>2 DEF Core, Busy, InitMaps, InitRequests
        <5> QED
          BY <2>6, <2>7, <5>1, <5>2 DEF InitOK
      <4> QED
        BY <4>1, <4>2
    <3>2. \A c \in Backends : \A j \in DOMAIN n.toBe[c] : OrderOK(n, c, n.toBe[c][j])
      <4>1. \A c \in Backends : \A j \in DOMAIN x.toBe[c] : x.toBe[c][j] \in Orders
        BY <1>1, SMTT(30) DEF States, OrderQueues
      <4> QED
        BY <2>7, <2>10, <4>1, OrdersStay DEF Core, Steady
    <3>3. \A t \in TxnIds : t >= n.next => n.fate[t] = "idle"
      BY <1>2, <2>1, <2>6, <2>7 DEF Core
    <3>4. \A c, d \in Busy(n) : n.init[c].id = n.init[d].id => c = d
      BY <2>8, <2>9 DEF Core
    <3> QED
      BY <1>1, <2>7, <2>8, <3>1, <3>2, <3>3, <3>4 DEF Core
  <2>12. CommitOK(n)
    <3> SUFFICES ASSUME x.commit # NoReq PROVE Pending(n)
      BY <2>7 DEF CommitOK
    <3>1. Pending(x)
      BY DEF CommitOK
    <3>2. x.commit.id # id /\ x.commit.id \in TxnIds
      BY <3>1 DEF Pending, Exclusive, Commitments
    <3>3. Exclusive(n)
      BY <2>7, <2>8, <2>9, <3>1 DEF Pending, Exclusive
    <3>4. Protected(x) => Protected(n)
      BY <2>7 DEF Protected, Diff
    <3> QED
      BY <2>6, <2>7, <3>1, <3>2, <3>3, <3>4 DEF Pending
  <2>13. Core(y) /\ Steady(n, y) /\ CommitView(n) = CommitView(y)
    <3>1. msg \in [Backends -> Orders]
      BY <1>2 DEF Orders, Msg
    <3>2. \A c \in {b} \cap Backends : OrderOK(n, c, msg[c])
      BY <2>6, <2>7 DEF OrderOK, Msg
    <3> HIDE DEF msg
    <3> QED
      BY <2>2, <2>11, <3>1, <3>2, SendOK, SMTT(30)
  <2>14. CommitOK(y) /\ Busy(y) = Busy(x)
    BY <2>8, <2>12, <2>13, SameCommit DEF CommitView, Busy
  <2> QED
    BY <2>10, <2>13, <2>14, SteadyTwice, SteadyMoves DEF Handled
<1> QED
  BY <1>3, <1>4

\* Whatever a backend answers, and whether or not mgmtd waits for it.
LEMMA HandlersOK ==
  ASSUME NEW x, Core(x), CommitOK(x), NEW b \in Backends, NEW id \in TxnIds, NEW y,
         \/ y = HandleCfgReply(x, b, id)
         \/ y = HandleCfgApplyReply(x, b, id)
         \/ y = HandleError(x, b, id)
  PROVE  Handled(x, y)
<1>1. x.init[b].id = id => b \in Busy(x)
  BY SMTT(30) DEF Busy, NoReq, TxnIds
<1>2. x.commit.id = id => x.commit # NoReq /\ Pending(x)
  BY SMTT(30) DEF NoReq, TxnIds, CommitOK
<1>3. ~(x.init[b].id = id /\ x.commit.id = id)
  BY <1>1, <1>2 DEF Pending, Exclusive
<1>4. \/ b \in Busy(x) /\ y = InitAcked(x, b)
      \/ b \in Busy(x) /\ y = InitFailed(x, b)
      \/ Pending(x) /\ y = Acked(x, b)
      \/ Pending(x) /\ x.commit.phase = "SEND_CFG" /\ y = FinishCommit(x, FALSE)
      \/ y = BeDelete(x, b)
      \/ y = x
  <2>1. CASE x.init[b].id = id
    BY <1>1, <1>3, <2>1 DEF HandleCfgReply, HandleCfgApplyReply, HandleError
  <2>2. CASE x.init[b].id # id /\ x.commit.id = id
    BY <1>2, <2>2 DEF HandleCfgReply, HandleCfgApplyReply, HandleError
  <2>3. CASE x.init[b].id # id /\ x.commit.id # id
    BY <2>3 DEF HandleCfgReply, HandleCfgApplyReply, HandleError
  <2> QED
    BY <2>1, <2>2, <2>3
<1>5. CASE Pending(x) /\ x.commit.phase = "SEND_CFG" /\ y = FinishCommit(x, FALSE)
  <2>1. Ready(x)
    BY <1>5 DEF Ready, Pending
  <2> QED
    BY <1>5, <2>1, FinishCommitOK
<1>6. CASE y = x
  BY <1>6 DEF Handled, Moves, Grows
<1> QED
  BY <1>4, <1>5, <1>6, InitAckedOK, InitFailedOK, AckedOK, BeDeleteOK

=============================================================================
