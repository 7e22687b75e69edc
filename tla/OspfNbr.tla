------------------------------- MODULE OspfNbr -------------------------------
(***************************************************************************)
(* ospfd's neighbor on a point-to-point link: the neighbor state machine   *)
(* (ospf_nsm.c), the database exchange (ospf_packet.c) and the flooding to *)
(* the neighbor (ospf_flood.c), as functions on the state s of one router: *)
(* each operator is what one function does to s before it returns.         *)
(*                                                                         *)
(*   s.me          the router                                              *)
(*   s.lsdb[k]     the link state database: the instance held of LSA k     *)
(*   s.state       state of the neighbor; "none" when there is none        *)
(*   s.dd_seqnum, s.dd_flags, s.last_recv, s.last_send                     *)
(*   s.db_sum[k], s.ls_req[k], s.ls_rxmt[k]  the neighbor's three lists    *)
(*   s.ls_req_last the LSA that ends the last request packet, or 0         *)
(*   s.t_ls_req    the request timer (or event) is pending                 *)
(*   s.evs         events scheduled for the next round of the event loop   *)
(*   s.acks        instances on the lists of acknowledgments to send       *)
(*   s.draws       random numbers drawn so far                             *)
(*   s.ls_upd_queue  LSAs to send in an update, when t_ls_upd_event runs   *)
(*   s.out         packets put on the interface's output queue             *)
(*                                                                         *)
(* An instance of an LSA is its sequence number and its checksum, which    *)
(* stands for its contents; no LSA is aged out or flushed.  Two timers are *)
(* not part of s.  t_db_desc runs as nsm_timer_set says (see DbDescTimed), *)
(* and every change of ls_rxmt keeps t_ls_rxmt running exactly while the   *)
(* list has an entry.                                                      *)
(***************************************************************************)
EXTENDS Integers, Sequences, SequencesExt, FiniteSets

CONSTANTS
  Owner,      \* Owner[k]: the router that originates LSA k; LSA r, for a
              \* router r, is its router-LSA and the others are external
  PerPacket,  \* LSA headers or keys that fit in one packet
  DdMod,      \* the sequence numbers of database descriptions wrap here
  Randoms     \* Randoms[r]: the numbers frr_weak_random gives router r

Routers == {1, 2}

Keys == DOMAIN Owner

ASSUME OwnerAssumption ==
    /\ Routers \subseteq Keys
    /\ \A k \in Keys : Owner[k] \in Routers
    /\ \A r \in Routers : Owner[r] = r

Peer(r) == 3 - r

Rank(st) ==
    CASE st = "none" -> 0
      [] st = "Down" -> 1
      [] st = "Init" -> 2
      [] st = "ExStart" -> 3
      [] st = "Exchange" -> 4
      [] st = "Loading" -> 5
      [] st = "Full" -> 6

Adjacent(s) == Rank(s.state) >= Rank("Exchange")

----------------------------------------------------------------------------
\* Instances and lists of instances.

NoLsa == [seq |-> 0, sum |-> 0]

Nothing == [k \in Keys |-> NoLsa]

Listed(list) == {k \in Keys : list[k] # NoLsa}

\* Positive when a is more recent, negative when b is.
ospf_lsa_more_recent(a, b) ==
    IF a.seq > b.seq THEN 1 ELSE IF a.seq < b.seq THEN -1 ELSE a.sum - b.sum

\* The tables of an LSA list are walked type by type; those that fit, in order.
LsaType(k) == IF k \in Routers THEN "router" ELSE "external"

FirstFit(S) == {k \in S : Cardinality({j \in S : j < k}) < PerPacket}

----------------------------------------------------------------------------
\* Sending and scheduling.

Send(s, pkt) == [s EXCEPT !.out = Append(@, pkt)]

Schedule(s, ev) == [s EXCEPT !.evs = Append(@, ev)]

Cancel(s, ev) == [s EXCEPT !.evs = SelectSeq(@, LAMBDA e : e # ev)]

\* The update leaves in the next round of the event loop, with all the others of
\* the interface: in one packet, which is not bounded here.
ospf_ls_upd_send(s, S, db) ==
    LET upd == [i \in 1 .. Cardinality(S) |->
                  LET k == SetToSortSeq(S, <)[i] IN [key |-> k, lsa |-> db[k]]]
        s1 == [s EXCEPT !.ls_upd_queue = @ \o upd]
    IN IF "LsUpd" \in ToSet(s.evs) THEN s1 ELSE Schedule(s1, "LsUpd")

ospf_ls_upd_send_queue_event(s) ==
    Send([s EXCEPT !.ls_upd_queue = <<>>], [type |-> "LSU", lsas |-> s.ls_upd_queue])

----------------------------------------------------------------------------
\* Link state requests.

\* ospf_make_ls_req and ospf_ls_req_send: nothing, and no timer, without a
\* request.  One packet takes the first keys of the list.
ospf_ls_req_send(s) ==
    LET keys == FirstFit(Listed(s.ls_req))
    IN IF keys = {} THEN s
       ELSE Send([s EXCEPT !.ls_req_last = CHOOSE k \in keys : \A j \in keys : j <= k,
                           !.t_ls_req = TRUE],
                 [type |-> "LSR", keys |-> keys])

ospf_ls_req_timer(s) ==
    [ospf_ls_req_send([s EXCEPT !.t_ls_req = FALSE]) EXCEPT !.t_ls_req = TRUE]

\* The request timer's function runs in the next round of the event loop.
ospf_ls_req_event(s) ==
    Schedule(Cancel([s EXCEPT !.t_ls_req = TRUE], "LsReqTimer"), "LsReqTimer")

ospf_check_nbr_loading(s) ==
    IF s.state # "Loading" THEN s
    ELSE IF Listed(s.ls_req) = {} THEN Schedule(s, "LoadingDone")
    ELSE IF s.ls_req_last = 0 THEN ospf_ls_req_event(s)
    ELSE s

ospf_ls_request_delete(s, k) ==
    [s EXCEPT !.ls_req[k] = NoLsa,
              !.ls_req_last = IF @ = k THEN 0 ELSE @]

----------------------------------------------------------------------------
\* Flooding and installing.

ospf_ls_retransmit_add(s, k, lsa) ==
    IF ospf_lsa_more_recent(s.ls_rxmt[k], lsa) < 0
    THEN [s EXCEPT !.ls_rxmt[k] = lsa] ELSE s

\* ospf_ls_retransmit_delete_nbr_area and _as: of the same sequence number.
ospf_ls_retransmit_delete_nbr(s, k, lsa) ==
    IF s.ls_rxmt[k].seq = lsa.seq
    THEN [s EXCEPT !.ls_rxmt[k] = NoLsa] ELSE s

\* Seeded fault: an LSA that changes before the neighbor is Full is not flooded.
ospf_flood_through_interface_FullOnly(s, k, lsa, received) ==
    LET asked == Adjacent(s) /\ s.state # "Full" /\ s.ls_req[k] # NoLsa
    IN IF asked /\ ospf_lsa_more_recent(s.ls_req[k], lsa) <= 0
       THEN ospf_check_nbr_loading(ospf_ls_request_delete(s, k))
       ELSE IF s.state # "Full" \/ received \/ Owner[k] # s.me THEN s
       ELSE ospf_ls_upd_send(ospf_ls_retransmit_add(s, k, lsa), {k}, k :> lsa)

\* The interface has one neighbor: an LSA that came from it, received, is not
\* sent back; one already on its request list is compared with what it has.
ospf_flood_through_interface(s, k, lsa, received) ==
    LET asked == s.state # "Full" /\ s.ls_req[k] # NoLsa
        ret == ospf_lsa_more_recent(s.ls_req[k], lsa)
        s1 == IF asked THEN ospf_check_nbr_loading(ospf_ls_request_delete(s, k))
              ELSE s
    IN IF ~Adjacent(s) \/ (asked /\ ret > 0) THEN s
       ELSE IF (asked /\ ret = 0) \/ received \/ Owner[k] # s.me THEN s1
       ELSE ospf_ls_upd_send(ospf_ls_retransmit_add(s1, k, lsa), {k}, k :> lsa)

ospf_lsa_install(s, k, lsa) ==
    [ospf_ls_retransmit_delete_nbr(s, k, s.lsdb[k]) EXCEPT !.lsdb[k] = lsa]

\* A new instance of the router's own LSA: ospf_router_lsa_refresh and
\* ospf_external_lsa_refresh.  Checksums are told apart for the first instance
\* of an external LSA only; the later ones differ by their sequence number.
ospf_lsa_refresh(s, k) ==
    LET new == [s.lsdb[k] EXCEPT !.seq = @ + 1]
    IN ospf_flood_through_interface(ospf_lsa_install(s, k, new), k, new, FALSE)

\* The flooding procedure for a received LSA.  soon: the database copy was
\* installed less than MinLSArrival ago; then the LSA is dropped, unless the
\* copy is the first instance of the router's own LSA.
ospf_flood(s, k, lsa, soon) ==
    LET cur == s.lsdb[k]
        own == Owner[k] = s.me
        s1 == ospf_flood_through_interface(s, k, lsa, TRUE)
        s2 == ospf_lsa_install(ospf_ls_retransmit_delete_nbr(s1, k, cur), k, lsa)
        s3 == [s2 EXCEPT !.acks = @ \cup {[key |-> k, lsa |-> lsa]}]
    IN IF soon /\ cur # NoLsa /\ ~(own /\ cur.seq = 1) THEN s
       ELSE IF own THEN ospf_lsa_refresh(s3, k)
       ELSE s3

----------------------------------------------------------------------------
\* Database description.

\* ospf_make_db_desc and ospf_db_desc_send.  An instance on the summary list
\* that was replaced in the database since (OSPF_LSA_DISCARD) is dropped from
\* the list unsaid, if the walk of its table comes to it before the packet is
\* full.  The packet says "more" until the list is empty.
ospf_db_desc_send(s) ==
    LET listed == Listed(s.db_sum)
        valid == {k \in listed : s.db_sum[k] = s.lsdb[k]}
        said == FirstFit(valid)
        left == {k \in listed \ said :
                   \E j \in valid \ said : LsaType(j) = LsaType(k) /\ j <= k}
        flags == IF left = {} /\ Adjacent(s) THEN s.dd_flags \ {"M"}
                 ELSE s.dd_flags
        dd == [type |-> "DD", flags |-> flags, seq |-> s.dd_seqnum,
               hdrs |-> [k \in said |-> s.lsdb[k]]]
    IN Send([s EXCEPT !.dd_flags = flags,
                      !.db_sum = [k \in Keys |-> IF k \in left THEN @[k] ELSE NoLsa],
                      !.last_send = dd],
            dd)

ospf_db_desc_resend(s) == Send(s, s.last_send)

----------------------------------------------------------------------------
\* The neighbor state machine.

\* The DD retransmission timer is running (nsm_timer_set).
DbDescTimed(s) ==
    \/ s.state = "ExStart"
    \/ s.state = "Exchange" /\ "MS" \in s.dd_flags

nsm_timer_set(s) ==
    IF s.state \in {"Down", "Init", "ExStart"}
    THEN Cancel([s EXCEPT !.t_ls_req = FALSE], "LsReqTimer")
    ELSE s

nsm_clear_adj(s) ==
    [s EXCEPT !.db_sum = Nothing, !.ls_req = Nothing, !.ls_req_last = 0,
              !.ls_rxmt = Nothing]

\* A DD sequence number is drawn once in the life of the neighbor.
StartExchange(s) ==
    LET draw == s.dd_seqnum = 0
    IN ospf_db_desc_send(
         [s EXCEPT !.dd_seqnum = IF draw THEN Randoms[s.me][s.draws + 1]
                                 ELSE (@ + 1) % DdMod,
                   !.draws = IF draw THEN @ + 1 ELSE @,
                   !.dd_flags = {"I", "M", "MS"}])

\* To or from Full the router-LSA is refreshed, and flooded in the new state.
nsm_change_state(s, st) ==
    LET s1 == [s EXCEPT !.state = st]
        s2 == IF (s.state = "Full") # (st = "Full")
              THEN ospf_lsa_refresh(s1, s.me) ELSE s1
        s3 == IF Rank(s.state) > Rank("ExStart") /\ Rank(st) <= Rank("ExStart")
              THEN nsm_clear_adj(s2) ELSE s2
    IN IF st = "ExStart" THEN StartExchange(s3) ELSE s3

nsm_negotiation_done(s) == [s EXCEPT !.db_sum = s.lsdb]

nsm_exchange_done(s) ==
    IF Listed(s.ls_req) # {} /\ ~s.t_ls_req THEN ospf_ls_req_send(s) ELSE s

\* The last neighbor of the interface goes, and packets that were not written.
nsm_kill_nbr(s) == [s EXCEPT !.out = <<>>]

\* The table NSM: the state after an event.
NextState(s, ev) ==
    CASE ev = "HelloReceived" /\ s.state = "Down" -> "Init"
      [] ev = "TwoWayReceived" /\ s.state = "Init" -> "ExStart"
      [] ev = "NegotiationDone" /\ s.state = "ExStart" -> "Exchange"
      [] ev = "ExchangeDone" /\ s.state = "Exchange" ->
           IF Listed(s.ls_req) = {} THEN "Full" ELSE "Loading"
      [] ev = "LoadingDone" /\ s.state = "Loading" -> "Full"
      [] ev \in {"BadLSReq", "SeqNumberMismatch"} /\ Adjacent(s) -> "ExStart"
      [] ev = "OneWayReceived" /\ Rank(s.state) > Rank("Init") -> "Init"
      [] ev = "InactivityTimer" -> "none"
      [] OTHER -> s.state

\* A neighbor that is deleted takes its timers and events with it.  The update
\* that waits to be sent is the interface's.
NoNbr(s) ==
    [s EXCEPT !.state = "none", !.dd_seqnum = 0, !.dd_flags = {},
              !.last_recv = [flags |-> {}, seq |-> 0], !.last_send = {},
              !.db_sum = Nothing, !.ls_req = Nothing, !.ls_rxmt = Nothing,
              !.ls_req_last = 0, !.t_ls_req = FALSE,
              !.evs = SelectSeq(@, LAMBDA e : e \in {"LsUpd", "EndOfRound"})]

ospf_nsm_event(s, ev) ==
    LET st == NextState(s, ev)
        s1 == CASE st = "none" -> nsm_kill_nbr(s)
                [] ev = "NegotiationDone" /\ s.state = "ExStart" -> nsm_negotiation_done(s)
                [] ev = "ExchangeDone" /\ s.state = "Exchange" -> nsm_exchange_done(s)
                [] OTHER -> s
        s2 == IF st # s.state THEN nsm_change_state(s1, st) ELSE s1
    IN IF st = "none" THEN NoNbr(s2) ELSE nsm_timer_set(s2)

----------------------------------------------------------------------------
\* Packets received.

\* A new neighbor is created by its first Hello.
ospf_hello(s, pkt) ==
    LET s1 == IF s.state = "none" THEN [NoNbr(s) EXCEPT !.state = "Down"] ELSE s
    IN Schedule(Schedule(s1, "HelloReceived"),
                IF pkt.twoway THEN "TwoWayReceived" ELSE "OneWayReceived")

\* What a described LSA does: ask for a more recent one, and do not describe
\* one's own copy of an LSA the neighbor has too (draft-ogier-ospf-dbex-opt).
DescribedLsas(s, hdrs) ==
    LET cmp(k) == ospf_lsa_more_recent(s.lsdb[k], hdrs[k])
        ask == {k \in DOMAIN hdrs : cmp(k) = -1}
        drop == {k \in DOMAIN hdrs : cmp(k) \in {-1, 0} /\ s.db_sum[k] = s.lsdb[k]}
    IN [s EXCEPT !.ls_req = [k \in Keys |-> IF k \in ask THEN hdrs[k] ELSE @[k]],
                 !.db_sum = [k \in Keys |-> IF k \in drop THEN NoLsa ELSE @[k]]]

ospf_db_desc_proc(s, dd) ==
    LET s1 == DescribedLsas(s, dd.hdrs)
        done(t) == "M" \notin dd.flags /\ "M" \notin t.dd_flags
        master == [s1 EXCEPT !.dd_seqnum = (@ + 1) % DdMod]
        slave == ospf_db_desc_send([s1 EXCEPT !.dd_seqnum = dd.seq])
        s2 == IF "MS" \in s.dd_flags
              THEN IF done(master) THEN Schedule(master, "ExchangeDone")
                   ELSE ospf_db_desc_send(master)
              ELSE IF done(slave) THEN Schedule(slave, "ExchangeDone")
                   ELSE slave
        s3 == [s2 EXCEPT !.last_recv = [flags |-> dd.flags, seq |-> dd.seq]]
    IN IF s3.t_ls_req THEN s3 ELSE ospf_ls_req_send(s3)

ospf_db_desc_is_dup(s, dd) == s.last_recv = [flags |-> dd.flags, seq |-> dd.seq]

Negotiated(s, flags, seq, dd) ==
    ospf_db_desc_proc(
      ospf_nsm_event([s EXCEPT !.dd_flags = flags, !.dd_seqnum = seq],
                     "NegotiationDone"),
      dd)

DbDescExStart(s, dd) ==
    IF dd.flags = {"I", "M", "MS"} /\ dd.hdrs = <<>>
    THEN IF Peer(s.me) > s.me
         THEN Negotiated(s, s.dd_flags \ {"MS", "I"}, dd.seq, dd)
         ELSE s
    ELSE IF /\ dd.flags \cap {"MS", "I"} = {}
            /\ dd.seq = s.dd_seqnum
            /\ Peer(s.me) < s.me
         THEN Negotiated(s, s.dd_flags \ {"I"}, s.dd_seqnum, dd)
         ELSE s

DbDescExchange(s, dd) ==
    LET master == "MS" \in s.dd_flags
        expected == IF master THEN s.dd_seqnum ELSE (s.dd_seqnum + 1) % DdMod
    IN IF ospf_db_desc_is_dup(s, dd)
       THEN IF master THEN s ELSE ospf_db_desc_resend(s)
       ELSE IF \/ ("MS" \in dd.flags) # ("MS" \in s.last_recv.flags)
               \/ "I" \in dd.flags
               \/ dd.seq # expected
            THEN Schedule(s, "SeqNumberMismatch")
            ELSE ospf_db_desc_proc(s, dd)

\* Seeded fault: once the exchange is over, a DD received again is an error.
DbDescLater_NoDuplicate(s, dd, late) == Schedule(s, "SeqNumberMismatch")

\* late: RouterDeadInterval has passed since the last DD was sent.
DbDescLater(s, dd, late) ==
    IF ospf_db_desc_is_dup(s, dd) /\ "MS" \in s.dd_flags THEN s
    ELSE IF ospf_db_desc_is_dup(s, dd) /\ ~late THEN ospf_db_desc_resend(s)
    ELSE Schedule(s, "SeqNumberMismatch")

ospf_db_desc(s, dd, late) ==
    CASE s.state = "Init" -> DbDescExStart(ospf_nsm_event(s, "TwoWayReceived"), dd)
      [] s.state = "ExStart" -> DbDescExStart(s, dd)
      [] s.state = "Exchange" -> DbDescExchange(s, dd)
      [] s.state \in {"Loading", "Full"} -> DbDescLater(s, dd, late)
      [] OTHER -> s

ospf_ls_req(s, pkt) ==
    IF ~Adjacent(s) THEN s
    ELSE IF \E k \in pkt.keys : s.lsdb[k] = NoLsa THEN Schedule(s, "BadLSReq")
    ELSE ospf_ls_upd_send(s, pkt.keys, s.lsdb)

\* Seeded fault: the LSA the router has already is not acknowledged again.
UpdLsa_NoAckAgain(s, u, soon) ==
    LET ret == ospf_lsa_more_recent(s.lsdb[u.key], u.lsa)
    IN IF ret < 0 THEN ospf_flood(s, u.key, u.lsa, soon)
       ELSE IF ret = 0 THEN [s EXCEPT !.ls_rxmt[u.key] = NoLsa]
       ELSE IF soon THEN s
       ELSE ospf_ls_upd_send(s, {u.key}, s.lsdb)

\* One LSA of an update; stop: the rest of the packet is not looked at.  soon:
\* less than MinLSArrival since the database copy was installed or originated.
UpdLsa(s, u, soon) ==
    LET cur == s.lsdb[u.key]
        ret == ospf_lsa_more_recent(cur, u.lsa)
    IN IF ret < 0 THEN ospf_flood(s, u.key, u.lsa, soon)
       ELSE IF ret = 0
            THEN IF s.ls_rxmt[u.key] # NoLsa
                 THEN [s EXCEPT !.ls_rxmt[u.key] = NoLsa]
                 ELSE [s EXCEPT !.acks = @ \cup {u}]
       ELSE IF soon THEN s
       ELSE ospf_ls_upd_send(s, {u.key}, s.lsdb)

\* A copy no more recent of an LSA that was asked for: the exchange is wrong.
BadUpd(s, u) ==
    /\ s.ls_req[u.key] # NoLsa
    /\ ospf_lsa_more_recent(s.lsdb[u.key], u.lsa) >= 0

ospf_ls_upd(s, pkt, soon) ==
    LET upd[n \in Nat] ==
          LET acc == upd[n - 1]
          IN IF n = 0 THEN [stop |-> FALSE, s |-> s]
             ELSE IF acc.stop THEN acc
             ELSE IF BadUpd(acc.s, pkt.lsas[n])
                  THEN [stop |-> TRUE, s |-> Schedule(acc.s, "BadLSReq")]
             ELSE [stop |-> FALSE, s |-> UpdLsa(acc.s, pkt.lsas[n], soon)]
    IN IF Adjacent(s) THEN upd[Len(pkt.lsas)].s ELSE s

ospf_ls_ack(s, pkt) ==
    LET acked(k) == \E u \in pkt.lsas : /\ u.key = k
                                        /\ ospf_lsa_more_recent(s.ls_rxmt[k], u.lsa) = 0
    IN IF ~Adjacent(s) THEN s
       ELSE [s EXCEPT !.ls_rxmt = [k \in Keys |-> IF acked(k) THEN NoLsa ELSE @[k]]]
=============================================================================
