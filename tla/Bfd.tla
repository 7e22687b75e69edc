-------------------------------- MODULE Bfd ---------------------------------
(***************************************************************************)
(* Two bfdd processes with one session to each other, the clients (BGP,    *)
(* OSPF, ...) registered at each of them, and the datagram network between *)
(* them.  The network may lose, duplicate and reorder packets, timers may  *)
(* expire at any moment, bfdd may crash and restart, interfaces may go     *)
(* away and return, and the configuration may change, in any order.        *)
(***************************************************************************)
EXTENDS BfdSession, FiniteSets

CONSTANTS
    Peers,          \* the two processes
    Other,          \* the peer of each
    Intervals,      \* configurable pairs of desired-min-tx and required-min-rx
    PassiveModes,   \* configurable values of passive-mode
    ShutdownModes,  \* configurable values of shutdown
    Clients,        \* protocol daemons that may use the session
    Mult,           \* configured detection multiplier of each peer
    Disturbances,   \* environment actions that may happen
    MaxFaults,      \* bound: number of environment actions in a behaviour
    MaxRestarts,    \* bound: discriminators a peer can use
    Cap             \* bound: packets on the way to one peer

ASSUME BfdAssumption ==
    /\ Other \in [Peers -> Peers]
    /\ \A p \in Peers : Other[p] # p /\ Other[Other[p]] = p
    /\ Intervals \subseteq (Nat \ {0}) \X (Nat \ {0})
    /\ PassiveModes \subseteq BOOLEAN
    /\ ShutdownModes \subseteq BOOLEAN
    /\ Mult \in [Peers -> Nat \ {0}]
    /\ MaxFaults \in Nat
    /\ MaxRestarts \in Nat \ {0}
    /\ Cap \in Nat \ {0}

VARIABLES
    sess,     \* the session of each peer
    net,      \* packets on the way to each peer, and in its socket buffer
    view,     \* what each client of each peer was last told; "NONE": not registered
    discr,    \* discriminators each peer has used so far
    heard,    \* ghost: <<p, d, e>>: session d of p accepted a packet of session e
    faults    \* environment actions left

vars == <<sess, net, view, discr, heard, faults>>

Configs ==
    {[tx |-> i[1], rx |-> i[2], passive |-> passive, shutdown |-> shutdown] :
        i \in Intervals, passive \in PassiveModes, shutdown \in ShutdownModes}

Packets ==
    [mine : 1..MaxRestarts, yours : 0..MaxRestarts, state : States,
     poll : BOOLEAN, final : BOOLEAN, tx : Nat, rx : Nat]

Init ==
    /\ sess \in [Peers -> {BfdSessionNew(1, cfg).s : cfg \in Configs}]
    /\ net = [p \in Peers |-> <<>>]
    /\ view = [p \in Peers |-> [c \in Clients |-> "NONE"]]
    /\ discr = [p \in Peers |-> 1]
    /\ heard = {}
    /\ faults = MaxFaults

-----------------------------------------------------------------------------
(* Effects of a handler of peer p *)

\* The packets of a burst that do not fit are lost, and so is what is sent to a
\* peer whose interface is gone.
Enqueue(queue, out, reachable) ==
    LET all == queue \o out
    IN  CASE ~reachable -> queue
          [] reachable /\ Len(all) <= Cap -> all
          [] OTHER -> SubSeq(all, 1, Cap)

\* ptm_bfd_notify reaches every registered client through zebra.
Notified(views, note) ==
    [c \in Clients |-> IF note = "NONE" \/ views[c] = "NONE" THEN views[c]
                                                             ELSE note]

\* Handler h of p, with mine the packets still waiting for p.
Perform(p, h, mine) ==
    /\ sess' = [sess EXCEPT ![p] = h.s]
    /\ net' = [net EXCEPT ![p] = mine,
                          ![Other[p]] = Enqueue(@, h.out, sess[Other[p]].sock)]
    /\ view' = [view EXCEPT ![p] = Notified(@, h.note)]

Disturb(kind) ==
    /\ kind \in Disturbances
    /\ faults > 0
    /\ faults' = faults - 1

-----------------------------------------------------------------------------
(* bfdd *)

\* bfd_xmt_cb
Transmit(p) ==
    /\ sess[p].xmt
    /\ Perform(p, BfdXmt(sess[p]), net[p])
    /\ UNCHANGED <<discr, heard, faults>>

\* bfd_recv_cb reads pkt and leaves rest in the socket.
Process(p, pkt, rest) ==
    \/ /\ Accepts(sess[p], pkt)
       /\ Perform(p, BfdRecv(sess[p], pkt, Mult[Other[p]]), rest)
       /\ heard' = heard \union {<<p, sess[p].my_discr, pkt.mine>>}
    \/ /\ ~Accepts(sess[p], pkt)
       /\ net' = [net EXCEPT ![p] = rest]
       /\ UNCHANGED <<sess, view, heard>>

Receive(p) ==
    /\ net[p] # <<>>
    /\ Process(p, Head(net[p]), Tail(net[p]))
    /\ UNCHANGED <<discr, faults>>

\* bfd_recvtimer_cb
Expire(p) ==
    /\ sess[p].recv
    /\ Perform(p, BfdRecvTimer(sess[p]), net[p])
    /\ UNCHANGED <<discr, heard, faults>>

\* p has a poll sequence in progress, or the answer to one is still to come.
InPoll(p) ==
    \/ sess[p].polling
    \/ \E i \in DOMAIN net[p] : net[p][i].final
    \/ \E i \in DOMAIN net[Other[p]] : net[Other[p]][i].poll

\* A northbound callback or a profile update ends in bfd_session_apply.  It
\* matters whether new intervals meet a poll sequence ("overlap") or not.
Configure(p) ==
    /\ \E cfg \in Configs :
          /\ Disturb(CASE cfg.tx = sess[p].tx /\ cfg.rx = sess[p].rx -> "modes"
                       [] InPoll(p) -> "overlap"
                       [] OTHER -> "intervals")
          /\ Perform(p, BfdSessionApply(sess[p], cfg), net[p])
    /\ UNCHANGED <<discr, heard>>

\* The interface or VRF of the session disappears; what is already in the
\* socket buffer will still be read.
InterfaceDown(p) ==
    /\ sess[p].sock
    /\ Disturb("interface")
    /\ Perform(p, BfdSessionDisable(sess[p]), net[p])
    /\ UNCHANGED <<discr, heard>>

InterfaceUp(p) ==
    /\ ~sess[p].sock
    /\ Perform(p, BfdSessionEnable(sess[p]), net[p])
    /\ UNCHANGED <<discr, heard, faults>>

\* bfdd crashes and comes back with the same configuration.  It knows of no
\* client until they register again, each with a message of its own
\* (bfdd_zebra_connected asks for the replay): that is Register.
Restart(p) ==
    /\ Disturb("restart")
    /\ discr[p] < MaxRestarts
    /\ discr' = [discr EXCEPT ![p] = @ + 1]
    /\ LET cfg == [tx |-> sess[p].tx, rx |-> sess[p].rx,
                   passive |-> sess[p].passive, shutdown |-> sess[p].shutdown]
           new == BfdSessionNew(discr[p] + 1, cfg)
       IN  /\ sess' = [sess EXCEPT ![p] = new.s]
           /\ net' = [net EXCEPT ![Other[p]] =
                        Enqueue(@, new.out, sess[Other[p]].sock)]
    /\ view' = [view EXCEPT ![p] = [c \in Clients |-> "NONE"]]
    /\ UNCHANGED heard

\* bfdd_dest_register: every client of the session hears its current state.
Register(p) ==
    /\ \E c \in Clients :
          /\ view[p][c] = "NONE"
          /\ view' = [view EXCEPT ![p] =
                Notified([@ EXCEPT ![c] = "DOWN"],
                         NoteFor(sess[p], sess[p].state))]
    /\ UNCHANGED <<sess, net, discr, heard, faults>>

\* bfdd_dest_deregister of a session that the CLI configured or that another
\* client still uses, so that it is not deleted.
Deregister(p) ==
    /\ Disturb("deregister")
    /\ \E c \in Clients :
          /\ view[p][c] # "NONE"
          /\ LET h == PtmBfdSessionDel(sess[p])
             IN  /\ sess' = [sess EXCEPT ![p] = h.s]
                 /\ net' = [net EXCEPT ![Other[p]] =
                              Enqueue(@, h.out, sess[Other[p]].sock)]
          /\ view' = [view EXCEPT ![p][c] = "NONE"]
    /\ UNCHANGED <<discr, heard>>

-----------------------------------------------------------------------------
(* The network *)

Lose(p) ==
    /\ net[p] # <<>>
    /\ Disturb("lose")
    /\ net' = [net EXCEPT ![p] = Tail(@)]
    /\ UNCHANGED <<sess, view, discr, heard>>

\* A packet that arrives now, and once more after all others on the way.
Duplicate(p) ==
    /\ net[p] # <<>>
    /\ Disturb("duplicate")
    /\ Process(p, Head(net[p]), Append(Tail(net[p]), Head(net[p])))
    /\ UNCHANGED discr

Next ==
    \E p \in Peers :
        \/ Transmit(p)
        \/ Receive(p)
        \/ Expire(p)
        \/ Configure(p)
        \/ InterfaceDown(p)
        \/ InterfaceUp(p)
        \/ Restart(p)
        \/ Register(p)
        \/ Deregister(p)
        \/ Lose(p)
        \/ Duplicate(p)

Spec == Init /\ [][Next]_vars

-----------------------------------------------------------------------------
Session ==
    [state : States, my_discr : 1..MaxRestarts, remote_discr : 0..MaxRestarts,
     polling : BOOLEAN, passive : BOOLEAN, shutdown : BOOLEAN,
     sock : BOOLEAN, xmt : BOOLEAN, recv : BOOLEAN,
     tx : Nat, rx : Nat, cur_tx : Nat, cur_rx : Nat, rem_tx : Nat, rem_rx : Nat,
     xmt_TO : Nat, detect_TO : Nat]

TypeOK ==
    /\ sess \in [Peers -> Session]
    /\ net \in [Peers -> Seq(Packets)]
    /\ view \in [Peers -> [Clients -> Notes]]
    /\ discr \in [Peers -> 1..MaxRestarts]
    /\ heard \subseteq Peers \X (1..MaxRestarts) \X (1..MaxRestarts)
    /\ faults \in 0..MaxFaults

\* Three-way handshake: a session that is up got there because the very
\* incarnation of the peer it names has accepted one of its own packets,
\* however packets of earlier incarnations are delayed or repeated.
HandshakeComplete ==
    \A p \in Peers :
        sess[p].state = "UP"
           => <<Other[p], sess[p].remote_discr, sess[p].my_discr>> \in heard

\* No client misses that a session is up: ptm_bfd_sess_up tells them all, and
\* one that registers later is told at once.
UpIsAnnounced ==
    \A p \in Peers, c \in Clients :
        sess[p].state = "UP" /\ view[p][c] # "NONE" => view[p][c] = "UP"

\* A client believes a session up only while it is: when a session leaves UP
\* "it immediately asks BGP to shutdown the connection".
DownIsAnnounced ==
    \A p \in Peers, c \in Clients :
        view[p][c] = "UP" => sess[p].state = "UP"

\* A session that is up can notice that it no longer is: its detection timer
\* runs.
DetectionArmed ==
    \A p \in Peers : sess[p].state = "UP" => sess[p].recv

\* A running session that is shut down by configuration is never up.
ShutdownNeverUp ==
    \A p \in Peers : sess[p].shutdown => sess[p].state # "UP"

\* Once neither side polls and no packet is on the way, each side's detection
\* time covers at least one transmission interval of the other, whatever new
\* intervals bfd_session_apply negotiated meanwhile.  New intervals that meet a
\* poll sequence ("overlap") break it: the answer to the earlier announcement
\* then ends the sequence.
SettledDetectionCovers ==
    \A p \in Peers :
        LET mine == sess[p]
            peer == sess[Other[p]]
        IN  /\ mine.state = "UP" /\ peer.state = "UP"
            /\ mine.remote_discr = peer.my_discr
            /\ peer.remote_discr = mine.my_discr
            /\ ~mine.polling /\ ~peer.polling
            /\ net[p] = <<>> /\ net[Other[p]] = <<>>
            => mine.detect_TO >= peer.xmt_TO
=============================================================================
