---------------------------- MODULE OspfAdjacency ----------------------------
(***************************************************************************)
(* Two ospfd routers on a point-to-point link: the adjacency they form, by *)
(* the functions of OspfNbr, over a link that may lose packets.  A round   *)
(* of a router's event loop runs the scheduled events, then expired        *)
(* timers, then the packets that can be read (ospf_read takes up to 20 of  *)
(* them), so events scheduled by one packet may wait for other packets and *)
(* then all run before anything else does.                                 *)
(*                                                                         *)
(*   rt[r]     the state of router r (OspfNbr)                             *)
(*   chan[r]   packets sent by r: on its output queue or on the link       *)
(*   faults    lost packets, restarts and neighbors declared dead so far   *)
(*   hurry     times that a clock was not as slow as usual: a timer that   *)
(*             expired while an answer was under way, or an LSA that       *)
(*             arrived within MinLSArrival of its predecessor              *)
(*   news      LSAs originated anew so far                                 *)
(***************************************************************************)
EXTENDS OspfNbr

CONSTANTS
  FirstSum,   \* the checksum an external LSA starts with,
  NewSums,    \* and those it may have after a restart
  Mixes       \* bound: the values that <<faults, hurry, news>> may take

VARIABLES rt, chan, faults, hurry, news

vars == <<rt, chan, faults, hurry, news>>

\* A router that has just started: it originates its LSAs, without a neighbor.
Started(r, sum, draws) ==
    NoNbr([me |-> r,
           lsdb |-> [k \in Keys |->
                       IF Owner[k] # r THEN NoLsa
                       ELSE [seq |-> 1, sum |-> IF k \in Routers THEN 0 ELSE sum]],
           state |-> "none", dd_seqnum |-> 0, dd_flags |-> {}, last_recv |-> {},
           last_send |-> {}, db_sum |-> {}, ls_req |-> {}, ls_rxmt |-> {},
           ls_req_last |-> 0, t_ls_req |-> FALSE, evs |-> <<>>, acks |-> {},
           draws |-> draws, ls_upd_queue |-> <<>>, out |-> <<>>])

Init ==
    /\ rt = [r \in Routers |-> Started(r, FirstSum, 0)]
    /\ chan = [r \in Routers |-> <<>>]
    /\ faults = 0 /\ hurry = 0 /\ news = 0

\* Router r goes on to s, whose packets join those of c, its packets so far.
Become(r, s, c) ==
    /\ rt' = [rt EXCEPT ![r] = [s EXCEPT !.out = <<>>]]
    /\ chan' = [c EXCEPT ![r] = @ \o s.out]

Fault == <<faults + 1, hurry, news>> \in Mixes /\ faults' = faults + 1

Hurry == <<faults, hurry + 1, news>> \in Mixes /\ hurry' = hurry + 1

Calm == UNCHANGED hurry

\* Nothing is under way: neither a packet nor an event nor an acknowledgment.
Quiet ==
    \A r \in Routers : chan[r] = <<>> /\ rt[r].evs = <<>> /\ rt[r].acks = {}

\* ------------------------------------------------------------------------
\* The periodic Hello of r lists the neighbors that are not Down.  Those that
\* would only restart the receiver's inactivity timer are left out.  A Hello
\* goes to the head of the output queue, past packets not yet written.
Lists(r) == Rank(rt[r].state) >= Rank("Init")

HelloDue(r) ==
    LET p == rt[Peer(r)]
    IN /\ p.evs = <<>>
       /\ p.state \in IF Lists(r) THEN {"none", "Init"}
                      ELSE {"none", "ExStart", "Exchange", "Loading", "Full"}
       /\ \A i \in DOMAIN chan[r] : chan[r][i].type # "Hello"

SendHello(r) ==
    /\ HelloDue(r)
    /\ \E i \in 1 .. Len(chan[r]) + 1 :
         chan' = [chan EXCEPT ![r] =
                    InsertAt(@, i, [type |-> "Hello", twoway |-> Lists(r)])]
    /\ UNCHANGED <<rt, faults, hurry, news>>

\* ospf_read: the packet at the head is handled, if its sender is a neighbor.
\* odd: a clock plays a part (MinLSArrival, RouterDeadInterval).
ospf_read(s, pkt, odd) ==
    CASE pkt.type = "Hello" -> ospf_hello(s, pkt)
      [] pkt.type = "DD" -> ospf_db_desc(s, pkt, odd)
      [] pkt.type = "LSR" -> ospf_ls_req(s, pkt)
      [] pkt.type = "LSU" -> ospf_ls_upd(s, pkt, odd)
      [] pkt.type = "LSAck" -> ospf_ls_ack(s, pkt)

Receive(r) ==
    LET p == Peer(r)
        c == [chan EXCEPT ![p] = Tail(@)]
    IN /\ chan[p] # <<>>
       /\ \/ Calm /\ Become(r, ospf_read(rt[r], Head(chan[p]), FALSE), c)
          \/ /\ Hurry
             /\ ospf_read(rt[r], Head(chan[p]), TRUE) # ospf_read(rt[r], Head(chan[p]), FALSE)
             /\ Become(r, ospf_read(rt[r], Head(chan[p]), TRUE), c)
       /\ UNCHANGED <<faults, news>>

\* The scheduled events run in order.  What they schedule waits for the next
\* round; what they cancel does not run.  When they delete the neighbor, the
\* packets that were not written yet are flushed (nsm_kill_nbr).
RunEvent(s) ==
    LET ev == Head(s.evs)
        s1 == [s EXCEPT !.evs = Tail(@)]
    IN CASE ev = "LsReqTimer" -> ospf_ls_req_timer(s1)
         [] ev = "LsUpd" -> ospf_ls_upd_send_queue_event(s1)
         [] OTHER -> ospf_nsm_event(s1, ev)

RunEvents(r) ==
    LET run[n \in Nat] ==
          LET s == run[n - 1]
          IN IF n = 0 THEN Schedule(rt[r], "EndOfRound")
             ELSE IF s.evs = <<>> \/ Head(s.evs) = "EndOfRound" THEN s
             ELSE RunEvent(s)
        killed == "InactivityTimer" \in ToSet(rt[r].evs)
    IN /\ rt[r].evs # <<>>
       /\ \E n \in IF killed THEN 0 .. Len(chan[r]) ELSE {Len(chan[r])} :
            Become(r, Cancel(run[Len(rt[r].evs)], "EndOfRound"),
                   [chan EXCEPT ![r] = SubSeq(@, 1, n)])
       /\ UNCHANGED <<faults, hurry, news>>

\* The acknowledgments of the direct and the delayed lists are sent.
SendAcks(r) ==
    /\ rt[r].acks # {}
    /\ Become(r, Send([rt[r] EXCEPT !.acks = {}],
                      [type |-> "LSAck", lsas |-> rt[r].acks]), chan)
    /\ UNCHANGED <<faults, hurry, news>>

\* ------------------------------------------------------------------------
\* Timers expire after the events of the round; the update that one of these, or
\* another timer, has queued waits for the next round.  The intervals are longer
\* than it takes to answer; in a hurry they are not.
Expires(r) ==
    /\ ToSet(rt[r].evs) \subseteq {"LsUpd"}
    /\ IF Quiet THEN Calm ELSE Hurry

ospf_db_desc_timer(r) ==
    /\ DbDescTimed(rt[r])
    /\ Expires(r)
    /\ Become(r, ospf_db_desc_resend(rt[r]), chan)
    /\ UNCHANGED <<faults, news>>

\* Without a request it only runs again.
LsReqTimer(r) ==
    /\ rt[r].t_ls_req
    /\ Listed(rt[r].ls_req) # {}
    /\ Expires(r)
    /\ Become(r, ospf_ls_req_timer(rt[r]), chan)
    /\ UNCHANGED <<faults, news>>

\* The entries that are due, the first ones of the list or all of them.
ospf_ls_rxmt_timer(r) ==
    /\ Expires(r)
    /\ \E due \in SUBSET Listed(rt[r].ls_rxmt) \ {{}} :
         Become(r, ospf_ls_upd_send(rt[r], due, rt[r].ls_rxmt), chan)
    /\ UNCHANGED <<faults, news>>

Timers(r) == ospf_db_desc_timer(r) \/ LsReqTimer(r) \/ ospf_ls_rxmt_timer(r)

TimerDue(r) ==
    /\ Quiet
    /\ \/ DbDescTimed(rt[r])
       \/ rt[r].t_ls_req /\ Listed(rt[r].ls_req) # {}
       \/ Listed(rt[r].ls_rxmt) # {}

\* ------------------------------------------------------------------------
\* What may go wrong, and what is new.

Lose(r) ==
    /\ chan[r] # <<>>
    /\ Fault
    /\ chan' = [chan EXCEPT ![r] = Tail(@)]
    /\ UNCHANGED <<rt, hurry, news>>

\* No Hello came for RouterDeadInterval.
ospf_inactivity_timer(r) ==
    /\ rt[r].state # "none"
    /\ rt[r].evs = <<>>
    /\ Fault
    /\ Become(r, Schedule(rt[r], "InactivityTimer"), chan)
    /\ UNCHANGED <<hurry, news>>

\* The router restarts: packets that reach it meanwhile are lost, like those
\* it had not written, and it may come back with other external routes.
Restart(r) ==
    /\ Fault
    /\ \E sum \in NewSums : rt' = [rt EXCEPT ![r] = Started(r, sum, rt[r].draws)]
    /\ \E i \in 0 .. Len(chan[r]), j \in 0 .. Len(chan[Peer(r)]) :
         chan' = [q \in Routers |-> IF q = r THEN SubSeq(chan[q], 1, i)
                                    ELSE SubSeq(chan[q], j + 1, Len(chan[q]))]
    /\ UNCHANGED <<hurry, news>>

\* A route that the router redistributes changes: a message of zebra's is read,
\* perhaps in the same round as packets that scheduled events.
Originate(k) ==
    /\ <<faults, hurry, news + 1>> \in Mixes
    /\ k \notin Routers
    /\ Become(Owner[k], ospf_lsa_refresh(rt[Owner[k]], k), chan)
    /\ news' = news + 1
    /\ UNCHANGED <<faults, hurry>>

\* ------------------------------------------------------------------------
Progress ==
    \E r \in Routers :
      SendHello(r) \/ Receive(r) \/ RunEvents(r) \/ SendAcks(r) \/ Timers(r)

Trouble == \E r \in Routers : Lose(r) \/ ospf_inactivity_timer(r) \/ Restart(r)

Full == \A r \in Routers : rt[r].state = "Full"

Settled ==
    /\ Full /\ Quiet
    /\ \A r \in Routers : Listed(rt[r].ls_rxmt) = {}

\* The two routers have nothing to say to each other.
Idle == Settled /\ UNCHANGED vars

Next == Progress \/ Trouble \/ (\E k \in Keys : Originate(k)) \/ Idle

Spec == Init /\ [][Next]_vars

\* A router that works goes on working.  Its Hellos and its timers are periodic,
\* and the link is not busy for ever: one that is due again and again is served.
FairSpec ==
    /\ Spec
    /\ []<>Settled \/ []<><<UNCHANGED <<faults, news>>>>_vars
    /\ \A r \in Routers : []<>~HelloDue(r) \/ []<><<SendHello(r)>>_vars
    /\ \A r \in Routers : <>[]~TimerDue(r) \/ []<><<Timers(r)>>_vars

----------------------------------------------------------------------------
\* Properties.

\* Two routers that are Full are in step: whatever one of them has that is more
\* recent than the other's copy is on its retransmission list for it.  So once
\* the lists are empty the databases are equal, whatever was lost, restarted or
\* originated between the description of an LSA (ospf_make_db_desc), its request
\* (ospf_db_desc_proc) and its installation (ospf_flood).
BehindIsOwed ==
    Full => \A r \in Routers, k \in Keys :
              ospf_lsa_more_recent(rt[r].lsdb[k], rt[Peer(r)].lsdb[k]) > 0
                => rt[r].ls_rxmt[k] = rt[r].lsdb[k]

\* As long as no packet is lost, no router restarts and no neighbor is declared
\* dead, an adjacency only advances: neither a DD sent again by a timer that
\* raced its answer (ospf_db_desc_is_dup), nor an LSA that changes during the
\* exchange, makes ospf_db_desc or ospf_ls_upd throw it back to ExStart
\* (SeqNumberMismatch, BadLSReq).
NeverAborted ==
    [][faults' = 0 => \A r \in Routers : Rank(rt'[r].state) >= Rank(rt[r].state)]_vars

\* After the last fault both routers become and stay Full, with everything
\* acknowledged: the retransmissions of ospf_db_desc_timer, ospf_ls_req_timer and
\* ospf_ls_rxmt_timer, and the events that reset an adjacency when the two ends
\* disagree on its state, always find the way back.
Converges == <>[]Settled
=============================================================================
