----------------------------- MODULE BfdProofs ------------------------------
(***************************************************************************)
(* Invariants of Bfd for all intervals, multipliers, clients, disturbances *)
(* and bounds, from what BfdHandlerProofs says of the single handlers.     *)
(***************************************************************************)
EXTENDS BfdHandlerProofs

\* Most leaves are first-order; the ones that need arithmetic say SMT.
USE ZenonT(30)

(* The inductive invariant *)

\* The sessions that session d of p has accepted packets of.
Known(H, p, d) == {e \in 1..MaxRestarts : <<p, d, e>> \in H}

\* A packet on the way to p names a session that its sender had heard.
SentOK(H, p, pkt) == PacketOK(pkt, pkt.mine, Known(H, Other[p], pkt.mine))

SessionsOK ==
    \A p \in Peers : SessOK(sess[p], discr[p], Known(heard, p, discr[p]))

PacketsOK ==
    \A p \in Peers : \A i \in 1..Len(net[p]) : SentOK(heard, p, net[p][i])

Inv ==
    TypeOK /\ SessionsOK /\ PacketsOK /\ HandshakeComplete /\ UpIsAnnounced

\* Nothing that was heard is forgotten.
LEMMA KnownMonotone ==
    ASSUME NEW G, NEW H, G \subseteq H, NEW p, NEW d
    PROVE  Known(G, p, d) \subseteq Known(H, p, d)
BY DEF Known

\* A packet stays fit when more is heard.
LEMMA SentMonotone ==
    ASSUME NEW G, NEW H, G \subseteq H, NEW p, NEW pkt, SentOK(G, p, pkt)
    PROVE  SentOK(H, p, pkt)
BY KnownMonotone DEF SentOK, PacketOK

\* A session stays sound when more is heard.
LEMMA SessMonotone ==
    ASSUME NEW G, NEW H, G \subseteq H, NEW s, NEW p, NEW d,
           SessOK(s, d, Known(G, p, d))
    PROVE  SessOK(s, d, Known(H, p, d))
BY KnownMonotone DEF SessOK

\* Packets reach the network in order, as many as fit, or not at all.
LEMMA EnqueueOK ==
    ASSUME NEW H, NEW p, NEW queue \in Seq(Packets), NEW out \in Seq(Packets),
           NEW reachable,
           \A i \in 1..Len(queue) : SentOK(H, p, queue[i]),
           \A i \in 1..Len(out) : SentOK(H, p, out[i])
    PROVE  /\ Enqueue(queue, out, reachable) \in Seq(Packets)
           /\ \A i \in 1..Len(Enqueue(queue, out, reachable)) :
                 SentOK(H, p, Enqueue(queue, out, reachable)[i])
<1> DEFINE all == queue \o out
<1>1. all \in Seq(Packets)
  BY SMTT(30)
<1>2. \A i \in 1..Len(all) : SentOK(H, p, all[i])
  BY SMTT(30)
<1>3. Cap \in Nat
  BY BfdAssumption
<1>4. \/ Enqueue(queue, out, reachable) \in {queue, all}
      \/ Len(all) > Cap /\ Enqueue(queue, out, reachable) = SubSeq(all, 1, Cap)
  <2>1. Len(all) \in Nat
    BY <1>1, SMTT(30)
  <2> HIDE DEF all
  <2>2. Len(all) <= Cap \/ Len(all) > Cap
    BY <1>3, <2>1, SMTT(30)
  <2> QED
    BY <2>2 DEF Enqueue, all
<1> HIDE DEF all
<1>5. Len(all) > Cap =>
        /\ SubSeq(all, 1, Cap) \in Seq(Packets)
        /\ \A i \in 1..Len(SubSeq(all, 1, Cap)) : SentOK(H, p, SubSeq(all, 1, Cap)[i])
  BY <1>1, <1>2, <1>3, SMTT(30)
<1> QED
  BY <1>1, <1>2, <1>4, <1>5

\* What a handler of p sends is fit for its peer.
LEMMA OutOK ==
    ASSUME NEW H, NEW p \in Peers, NEW d, NEW h, RunOK(h, d, Known(H, p, d))
    PROVE  /\ h.out \in Seq(Packets)
           /\ \A i \in 1..Len(h.out) : SentOK(H, Other[p], h.out[i])
<1>1. Other[Other[p]] = p
  BY BfdAssumption
<1>2. \A i \in 1..Len(h.out) : PacketOK(h.out[i], d, Known(H, p, d))
  BY DEF RunOK
<1>3. \A i \in 1..Len(h.out) : h.out[i].mine = d
  BY <1>2 DEF PacketOK
<1> QED
  BY <1>1, <1>2, <1>3 DEF RunOK, Runs, SentOK

\* A notification reaches exactly the registered clients.
LEMMA NotifiedOK ==
    ASSUME NEW views \in [Clients -> Notes], NEW note \in Notes
    PROVE  /\ Notified(views, note) \in [Clients -> Notes]
           /\ \A c \in Clients : Notified(views, note)[c] =
                 IF note = "NONE" \/ views[c] = "NONE" THEN views[c] ELSE note
BY DEF Notified

\* A handler of p ran, with effects on the sessions and the network that fit the
\* invariant.
Moved(p, h, rest) ==
    /\ sess' = [sess EXCEPT ![p] = h.s]
    /\ net' = [net EXCEPT ![p] = rest,
                          ![Other[p]] = Enqueue(@, h.out, sess[Other[p]].sock)]
    /\ discr' \in [Peers -> 1..MaxRestarts]
    /\ \A q \in Peers : q # p => discr'[q] = discr[q]
    /\ heard \subseteq heard'
    /\ heard' \subseteq Peers \X (1..MaxRestarts) \X (1..MaxRestarts)
    /\ faults' \in 0..MaxFaults
    /\ RunOK(h, discr'[p], Known(heard', p, discr'[p]))
    /\ rest \in Seq(Packets)
    /\ \A i \in 1..Len(rest) : SentOK(heard, p, rest[i])
    /\ h.s.state = "UP"
         => <<Other[p], h.s.remote_discr, h.s.my_discr>> \in heard'

\* ... and with the effects on the clients too.
Handled(p, h, rest) ==
    /\ Moved(p, h, rest)
    /\ view' = [view EXCEPT ![p] = Notified(@, h.note)]
    /\ Told(Run(sess[p]), h)

\* The effects of a handler on sessions and network preserve the invariant.
LEMMA MovedInv ==
    ASSUME Inv, NEW p \in Peers, NEW h, NEW rest, Moved(p, h, rest),
           view' \in [Peers -> [Clients -> Notes]], UpIsAnnounced'
    PROVE  Inv'
<1> DEFINE o == Other[p]
           sent == Enqueue(net[o], h.out, sess[o].sock)
<1>1. o \in Peers /\ o # p
  BY BfdAssumption
<1>2. h.s \in Session
  BY DEF Moved, RunOK, Runs
<1>3. /\ sess' = [sess EXCEPT ![p] = h.s]
      /\ net' = [net EXCEPT ![p] = rest, ![o] = sent]
  BY <1>1 DEF Moved, Inv, TypeOK
<1>4. sent \in Seq(Packets) /\ \A i \in 1..Len(sent) : SentOK(heard', o, sent[i])
  <2>1. h.out \in Seq(Packets) /\ \A i \in 1..Len(h.out) : SentOK(heard', o, h.out[i])
    BY OutOK DEF Moved
  <2>2. net[o] \in Seq(Packets)
    BY <1>1 DEF Inv, TypeOK
  <2>3. \A i \in 1..Len(net[o]) : SentOK(heard', o, net[o][i])
    BY <1>1, SentMonotone DEF Moved, Inv, PacketsOK
  <2> QED
    BY <2>1, <2>2, <2>3, EnqueueOK
<1> HIDE DEF sent
<1>5. TypeOK'
  <2>1. /\ rest \in Seq(Packets) /\ discr' \in [Peers -> 1..MaxRestarts]
        /\ heard' \subseteq Peers \X (1..MaxRestarts) \X (1..MaxRestarts)
        /\ faults' \in 0..MaxFaults
    BY DEF Moved
  <2> QED
    BY <1>1, <1>2, <1>3, <1>4, <2>1 DEF Inv, TypeOK
<1>6. SessionsOK'
  BY <1>3, SessMonotone DEF Moved, Inv, TypeOK, SessionsOK, RunOK
<1>7. PacketsOK'
  <2> SUFFICES ASSUME NEW q \in Peers, NEW i \in 1..Len(net'[q])
               PROVE  SentOK(heard', q, net'[q][i])
    BY DEF PacketsOK
  <2>1. CASE q = p
    BY <1>1, <1>3, <2>1, SentMonotone DEF Moved, Inv, TypeOK
  <2>2. CASE q = o
    BY <1>1, <1>3, <1>4, <2>2 DEF Inv, TypeOK
  <2>3. CASE q # p /\ q # o
    BY <1>1, <1>3, <2>3, SentMonotone DEF Moved, Inv, TypeOK, PacketsOK
  <2> QED
    BY <2>1, <2>2, <2>3
<1>8. HandshakeComplete'
  BY <1>3 DEF Moved, Inv, TypeOK, HandshakeComplete
<1> QED
  BY <1>5, <1>6, <1>7, <1>8 DEF Inv

\* What a client of p believes after a handler of p.
LEMMA HandledView ==
    ASSUME Inv, NEW p \in Peers, NEW h, NEW rest, Handled(p, h, rest)
    PROVE  /\ sess' = [sess EXCEPT ![p] = h.s] /\ sess'[p] = h.s
           /\ view' \in [Peers -> [Clients -> Notes]]
           /\ \A q \in Peers : q # p => view'[q] = view[q]
           /\ \A c \in Clients :
                 view'[p][c] = IF h.note = "NONE" \/ view[p][c] = "NONE"
                               THEN view[p][c] ELSE h.note
<1>1. h.note \in Notes
  BY DEF Handled, Moved, RunOK, Runs
<1>2. view[p] \in [Clients -> Notes] /\ view \in [Peers -> [Clients -> Notes]]
      /\ sess \in [Peers -> Session]
  BY DEF Inv, TypeOK
<1>3. Notified(view[p], h.note) \in [Clients -> Notes]
  BY <1>1, <1>2, NotifiedOK
<1>4. view' = [view EXCEPT ![p] = Notified(view[p], h.note)]
  BY DEF Handled
<1>5. sess' = [sess EXCEPT ![p] = h.s] /\ sess'[p] = h.s
  BY <1>2 DEF Handled, Moved
<1>6. view'[p] = Notified(view[p], h.note)
  BY <1>2, <1>4
<1>7. view' \in [Peers -> [Clients -> Notes]]
      /\ \A q \in Peers : q # p => view'[q] = view[q]
  BY <1>2, <1>3, <1>4
<1>8. \A c \in Clients :
        view'[p][c] = IF h.note = "NONE" \/ view[p][c] = "NONE"
                      THEN view[p][c] ELSE h.note
  BY <1>1, <1>2, <1>6, NotifiedOK, SMTT(30)
<1> QED
  BY <1>5, <1>7, <1>8

\* A handler preserves the invariant.
LEMMA HandledInv ==
    ASSUME Inv, NEW p \in Peers, NEW h, NEW rest, Handled(p, h, rest)
    PROVE  Inv'
<1>1. UpIsAnnounced'
  <2> SUFFICES ASSUME NEW q \in Peers, NEW c \in Clients,
                      sess'[q].state = "UP", view'[q][c] # "NONE"
               PROVE  view'[q][c] = "UP"
    BY DEF UpIsAnnounced
  <2>1. CASE q # p
    BY <2>1, HandledView, SMTT(30) DEF Inv, TypeOK, UpIsAnnounced
  <2>2. CASE q = p
    <3>1. Run(sess[p]).s = sess[p] /\ Run(sess[p]).note = "NONE"
      BY DEF Run
    <3>2. /\ sess'[p] = h.s
          /\ view'[p][c] = IF h.note = "NONE" \/ view[p][c] = "NONE"
                           THEN view[p][c] ELSE h.note
      BY HandledView, SMTT(30)
    <3>3. sess[p].state = "UP" => view[p][c] \in {"NONE", "UP"}
      BY DEF Inv, UpIsAnnounced
    <3> QED
      BY <2>2, <3>1, <3>2, <3>3 DEF Handled, Told, ToldUp
  <2> QED
    BY <2>1, <2>2
<1> QED
  BY <1>1, HandledView, MovedInv DEF Handled

-----------------------------------------------------------------------------
(* The actions *)

\* What only the removal of an interface and a deregistration can break.
Fit(s) == s.sock /\ Administered(s) /\ (s.state = "UP" => s.recv)

\* The invariant, read for one peer.
LEMMA SessionFacts ==
    ASSUME Inv, NEW p \in Peers
    PROVE  /\ SessOK(sess[p], discr[p], Known(heard, p, discr[p]))
           /\ sess[p] \in Session /\ sess[p].my_discr = discr[p]
           /\ net[p] \in Seq(Packets)
           /\ \A i \in 1..Len(net[p]) : SentOK(heard, p, net[p][i])
           /\ sess[p].state = "UP"
                => <<Other[p], sess[p].remote_discr, sess[p].my_discr>> \in heard
           /\ Run(sess[p]).s = sess[p] /\ Run(sess[p]).note = "NONE"
           /\ discr \in [Peers -> 1..MaxRestarts]
           /\ heard \subseteq Peers \X (1..MaxRestarts) \X (1..MaxRestarts)
BY DEF Inv, TypeOK, SessionsOK, PacketsOK, HandshakeComplete, SessOK, Run

\* A handler that receives nothing, and takes no session up.
LEMMA QuietHandled ==
    ASSUME Inv, NEW p \in Peers, NEW h, Perform(p, h, net[p]),
           UNCHANGED <<discr, heard>>, faults' \in 0..MaxFaults,
           RunOK(h, discr[p], Known(heard, p, discr[p])),
           h.s.state = "UP" => /\ sess[p].state = "UP"
                               /\ h.s.remote_discr = sess[p].remote_discr,
           Told(Run(sess[p]), h)
    PROVE  Handled(p, h, net[p])
<1>1. h.s.my_discr = sess[p].my_discr
  BY SessionFacts DEF RunOK, SessOK
<1>2. h.s.state = "UP" => <<Other[p], h.s.remote_discr, h.s.my_discr>> \in heard
  BY <1>1, SessionFacts
<1> QED
  BY <1>2, SessionFacts DEF Handled, Moved, Perform

\* Disturbances are counted.
LEMMA DisturbType ==
    ASSUME Inv, NEW kind, Disturb(kind)
    PROVE  faults' \in 0..MaxFaults /\ kind \in Disturbances
BY BfdAssumption, SMTT(30) DEF Inv, TypeOK, Disturb

\* bfd_xmt_cb fits.
LEMMA TransmitStep ==
    ASSUME Inv, NEW p \in Peers, Transmit(p)
    PROVE  LET h == BfdXmt(sess[p])
           IN  Handled(p, h, net[p]) /\ (Fit(sess[p]) => Fit(h.s))
<1> DEFINE h == BfdXmt(sess[p])
<1>1. SessOK(sess[p], discr[p], Known(heard, p, discr[p]))
  BY SessionFacts
<1>2. /\ RunOK(h, discr[p], Known(heard, p, discr[p])) /\ Same(Run(sess[p]), h)
      /\ h.s.recv = sess[p].recv
  BY <1>1, XmtOK
<1>3. Perform(p, h, net[p]) /\ UNCHANGED <<discr, heard>> /\ faults' \in 0..MaxFaults
  BY DEF Transmit, Inv, TypeOK
<1> HIDE DEF h
<1>4. h.s.state = sess[p].state /\ h.s.remote_discr = sess[p].remote_discr
      /\ h.s.sock = sess[p].sock /\ h.s.shutdown = sess[p].shutdown
  BY <1>2, SessionFacts DEF Same
<1>5. Handled(p, h, net[p])
  BY <1>2, <1>3, <1>4, QuietHandled, SameToldKept
<1>6. Fit(sess[p]) => Fit(h.s)
  BY <1>2, <1>4 DEF Fit, Administered
<1> QED
  BY <1>5, <1>6 DEF h

\* bfd_recvtimer_cb fits.
LEMMA ExpireStep ==
    ASSUME Inv, NEW p \in Peers, Expire(p)
    PROVE  LET h == BfdRecvTimer(sess[p])
           IN  Handled(p, h, net[p]) /\ (Fit(sess[p]) => Fit(h.s))
<1> DEFINE h == BfdRecvTimer(sess[p])
<1>1. SessOK(sess[p], discr[p], Known(heard, p, discr[p]))
  BY SessionFacts
<1>2. /\ RunOK(h, discr[p], Known(heard, p, discr[p])) /\ Told(Run(sess[p]), h)
      /\ Kept(Run(sess[p]), h) /\ h.s.state # "UP"
  BY <1>1, RecvTimerCbOK
<1>3. Perform(p, h, net[p]) /\ UNCHANGED <<discr, heard>> /\ faults' \in 0..MaxFaults
  BY DEF Expire, Inv, TypeOK
<1> HIDE DEF h
<1>4. Handled(p, h, net[p])
  BY <1>2, <1>3, QuietHandled
<1>5. Fit(sess[p]) => Fit(h.s)
  BY <1>2, SessionFacts DEF Fit, Administered, Kept
<1> QED
  BY <1>4, <1>5 DEF h

\* An accepted packet either names this very session, or names none and does
\* not take the session up.
LEMMA ProcessStep ==
    ASSUME Inv, NEW p \in Peers, NEW pkt \in Packets, SentOK(heard, p, pkt),
           NEW rest \in Seq(Packets),
           \A i \in 1..Len(rest) : SentOK(heard, p, rest[i]),
           Accepts(sess[p], pkt),
           Perform(p, BfdRecv(sess[p], pkt, Mult[Other[p]]), rest),
           heard' = heard \union {<<p, sess[p].my_discr, pkt.mine>>},
           UNCHANGED discr, faults' \in 0..MaxFaults
    PROVE  LET h == BfdRecv(sess[p], pkt, Mult[Other[p]])
           IN  Handled(p, h, rest) /\ (Fit(sess[p]) => Fit(h.s))
<1> DEFINE h == BfdRecv(sess[p], pkt, Mult[Other[p]])
           d == discr[p]
           K == Known(heard, p, d)
           L == Known(heard', p, d)
<1>1. SessOK(sess[p], discr[p], Known(heard, p, discr[p]))
  BY SessionFacts
<1>2. Mult[Other[p]] \in Nat
  BY BfdAssumption
<1>3. /\ RunOK(h, d, K \union {pkt.mine})
      /\ Told(Run(sess[p]), h) /\ Kept(Run(sess[p]), h)
      /\ h.s.recv = CanArm(sess[p])
      /\ h.s.state = "UP" => /\ h.s.remote_discr = pkt.mine
                             /\ sess[p].state = "UP" \/ pkt.state \in Rising
  <2>1. Received(sess[p], pkt, h, d, K)
    BY <1>1, <1>2, RecvOK
  <2> QED
    BY <2>1 DEF Received
<1>4. pkt.mine \in 1..MaxRestarts /\ sess[p].my_discr = d /\ d \in 1..MaxRestarts
      /\ d # 0
  <2>1. pkt.mine \in 1..MaxRestarts
    BY DEF Packets
  <2>2. sess[p].my_discr = d /\ d \in 1..MaxRestarts
    BY SessionFacts
  <2> QED
    BY <2>1, <2>2, BfdAssumption, SMTT(30)
<1>5. L = K \union {pkt.mine}
  BY <1>4 DEF Known
<1>6. RunOK(h, discr'[p], Known(heard', p, discr'[p]))
  BY <1>3, <1>5
<1>7. ASSUME h.s.state = "UP"
      PROVE  <<Other[p], h.s.remote_discr, h.s.my_discr>> \in heard'
  <2>1. pkt.state \in Rising => pkt.yours # 0
    BY DEF SentOK, PacketOK
  <2>2. pkt.yours = sess[p].my_discr
    BY <1>3, <1>7, <2>1 DEF Accepts
  <2>3. <<Other[p], pkt.mine, pkt.yours>> \in heard
    BY <1>4, <2>2 DEF SentOK, PacketOK, Known
  <2>4. h.s.my_discr = d
    BY <1>3 DEF RunOK, SessOK
  <2> QED
    BY <1>3, <1>4, <1>7, <2>2, <2>3, <2>4
<1>8. /\ heard \subseteq heard'
      /\ heard' \subseteq Peers \X (1..MaxRestarts) \X (1..MaxRestarts)
  <2>1. heard \subseteq Peers \X (1..MaxRestarts) \X (1..MaxRestarts)
    BY SessionFacts
  <2> QED
    BY <1>4, <2>1, SMTT(30)
<1>9. Perform(p, h, rest)
  OBVIOUS
<1> HIDE DEF h
<1>10. Handled(p, h, rest)
  BY <1>3, <1>6, <1>7, <1>8, <1>9, SessionFacts DEF Handled, Moved, Perform
<1>11. Fit(sess[p]) => Fit(h.s)
  BY <1>3, SessionFacts DEF Fit, Administered, Kept, CanArm
<1> QED
  BY <1>10, <1>11 DEF h

\* A configuration is made of intervals and modes.
LEMMA ConfigsOK ==
    ASSUME NEW cfg \in Configs
    PROVE  CfgOK(cfg)
<1>1. PICK i \in Intervals, passive \in PassiveModes, shutdown \in ShutdownModes :
        cfg = [tx |-> i[1], rx |-> i[2], passive |-> passive, shutdown |-> shutdown]
  BY SMTT(30) DEF Configs
<1>2. i[1] \in Nat \ {0} /\ i[2] \in Nat \ {0}
  BY BfdAssumption
<1> QED
  BY <1>1, <1>2, BfdAssumption DEF CfgOK

\* bfd_session_apply fits.
LEMMA ConfigureStep ==
    ASSUME Inv, NEW p \in Peers, NEW cfg \in Configs,
           Perform(p, BfdSessionApply(sess[p], cfg), net[p]),
           UNCHANGED <<discr, heard>>, faults' \in 0..MaxFaults
    PROVE  LET h == BfdSessionApply(sess[p], cfg)
           IN  Handled(p, h, net[p]) /\ (Fit(sess[p]) => Fit(h.s))
<1> DEFINE h == BfdSessionApply(sess[p], cfg)
<1>1. CfgOK(cfg)
  BY ConfigsOK
<1>2. SessOK(sess[p], discr[p], Known(heard, p, discr[p]))
  BY SessionFacts
<1>3. /\ RunOK(h, discr[p], Known(heard, p, discr[p])) /\ Told(Run(sess[p]), h)
      /\ h.s.sock = sess[p].sock
      /\ Administered(sess[p]) => Administered(h.s)
      /\ h.s.state = "UP" => /\ sess[p].state = "UP" /\ h.s.recv = sess[p].recv
                             /\ h.s.remote_discr = sess[p].remote_discr
  BY <1>1, <1>2, ApplyOK, SMTT(30)
<1>4. Perform(p, h, net[p])
  OBVIOUS
<1> HIDE DEF h
<1>5. Handled(p, h, net[p])
  BY <1>3, <1>4, QuietHandled
<1>6. Fit(sess[p]) => Fit(h.s)
  BY <1>3 DEF Fit
<1> QED
  BY <1>5, <1>6 DEF h

\* bfd_session_disable fits but for the socket.
LEMMA InterfaceDownStep ==
    ASSUME Inv, NEW p \in Peers, InterfaceDown(p)
    PROVE  Handled(p, BfdSessionDisable(sess[p]), net[p])
<1> DEFINE h == BfdSessionDisable(sess[p])
<1>1. SessOK(sess[p], discr[p], Known(heard, p, discr[p]))
  BY SessionFacts
<1>2. /\ RunOK(h, discr[p], Known(heard, p, discr[p])) /\ Told(Run(sess[p]), h)
      /\ h.s.state = "DOWN"
  BY <1>1, DisableOK
<1>3. Perform(p, h, net[p]) /\ UNCHANGED <<discr, heard>> /\ faults' \in 0..MaxFaults
  BY DisturbType DEF InterfaceDown
<1> HIDE DEF h
<1>4. Handled(p, h, net[p])
  BY <1>2, <1>3, QuietHandled
<1> QED
  BY <1>4 DEF h

\* bfd_session_enable runs for a session without a socket.
LEMMA InterfaceUpStep ==
    ASSUME Inv, NEW p \in Peers, InterfaceUp(p)
    PROVE  Handled(p, BfdSessionEnable(sess[p]), net[p]) /\ ~Fit(sess[p])
<1> DEFINE h == BfdSessionEnable(sess[p])
<1>1. SessOK(sess[p], discr[p], Known(heard, p, discr[p]))
  BY SessionFacts
<1>2. /\ RunOK(h, discr[p], Known(heard, p, discr[p])) /\ Told(Run(sess[p]), h)
      /\ h.s.state = sess[p].state /\ h.s.remote_discr = sess[p].remote_discr
  BY <1>1, EnableOK, SMTT(30)
<1>3. /\ Perform(p, h, net[p]) /\ UNCHANGED <<discr, heard>>
      /\ faults' \in 0..MaxFaults /\ ~sess[p].sock
  BY DEF InterfaceUp, Inv, TypeOK
<1> HIDE DEF h
<1>4. Handled(p, h, net[p])
  BY <1>2, <1>3, QuietHandled
<1> QED
  BY <1>3, <1>4 DEF h, Fit

\* A restarted daemon has a new session that is not up, and no clients yet.
Restarted(p) ==
    /\ view' = [view EXCEPT ![p] = [c \in Clients |-> "NONE"]]
    /\ \E h : Moved(p, h, net[p]) /\ h.s.state # "UP" /\ Fit(h.s)

\* The new session of a restarted daemon fits.
LEMMA RestartStep ==
    ASSUME Inv, NEW p \in Peers, Restart(p)
    PROVE  Restarted(p)
<1> DEFINE cfg == [tx |-> sess[p].tx, rx |-> sess[p].rx,
                   passive |-> sess[p].passive, shutdown |-> sess[p].shutdown]
           d == discr[p] + 1
           h == BfdSessionNew(d, cfg)
           o == Other[p]
           K == Known(heard', p, d)
<1>1. CfgOK(cfg)
  BY SessionFacts DEF CfgOK, Session
<1>2. /\ discr' = [discr EXCEPT ![p] = d] /\ discr[p] < MaxRestarts
      /\ sess' = [sess EXCEPT ![p] = h.s]
      /\ net' = [net EXCEPT ![o] = Enqueue(@, h.out, sess[o].sock)]
      /\ view' = [view EXCEPT ![p] = [c \in Clients |-> "NONE"]]
      /\ heard' = heard /\ faults' \in 0..MaxFaults
  BY DisturbType DEF Restart
<1> HIDE DEF cfg
<1>3. discr \in [Peers -> 1..MaxRestarts] /\ MaxRestarts \in Nat
  BY SessionFacts, BfdAssumption
<1>4. d \in 1..MaxRestarts
  BY <1>2, <1>3, SMTT(30)
<1>5. /\ discr' \in [Peers -> 1..MaxRestarts] /\ discr'[p] = d
      /\ \A q \in Peers : q # p => discr'[q] = discr[q]
  BY <1>2, <1>3, <1>4
<1> HIDE DEF d
<1>6. RunOK(h, d, K) /\ h.s.state # "UP" /\ h.s.sock /\ Administered(h.s)
  BY <1>1, <1>4, SessionNewOK
<1> HIDE DEF h
<1>7. net' = [net EXCEPT ![p] = net[p], ![o] = Enqueue(@, h.out, sess[o].sock)]
  BY <1>2, BfdAssumption DEF Inv, TypeOK
<1>8. Moved(p, h, net[p])
  BY <1>2, <1>5, <1>6, <1>7, SessionFacts DEF Moved
<1> QED
  BY <1>2, <1>6, <1>8 DEF Restarted, Fit

\* What a restart leaves behind.
LEMMA RestartedInv ==
    ASSUME Inv, NEW p \in Peers, Restarted(p)
    PROVE  /\ Inv' /\ Fit(sess'[p])
           /\ \A q \in Peers : q # p => sess'[q] = sess[q] /\ view'[q] = view[q]
           /\ \A c \in Clients : view'[p][c] = "NONE"
<1>1. PICK h : Moved(p, h, net[p]) /\ h.s.state # "UP" /\ Fit(h.s)
  BY DEF Restarted
<1>2. /\ view \in [Peers -> [Clients -> Notes]] /\ sess \in [Peers -> Session]
      /\ "NONE" \in Notes
  BY DEF Inv, TypeOK, Notes
<1>3. /\ view' \in [Peers -> [Clients -> Notes]]
      /\ \A q \in Peers : q # p => view'[q] = view[q]
      /\ \A c \in Clients : view'[p][c] = "NONE"
  BY <1>2 DEF Restarted
<1>4. /\ sess'[p] = h.s
      /\ \A q \in Peers : q # p => sess'[q] = sess[q]
  BY <1>1, <1>2 DEF Moved
<1>5. UpIsAnnounced'
  <2> SUFFICES ASSUME NEW q \in Peers, NEW c \in Clients,
                      sess'[q].state = "UP", view'[q][c] # "NONE"
               PROVE  view'[q][c] = "UP"
    BY DEF UpIsAnnounced
  <2>1. q # p
    BY <1>3
  <2>2. sess'[q] = sess[q] /\ view'[q] = view[q]
    BY <1>3, <1>4, <2>1
  <2>3. sess[q].state = "UP" /\ view[q][c] # "NONE" => view[q][c] = "UP"
    BY DEF Inv, UpIsAnnounced
  <2> QED
    BY <2>2, <2>3
<1>6. Inv'
  BY <1>1, <1>3, <1>5, MovedInv
<1> QED
  BY <1>1, <1>3, <1>4, <1>6

\* Packets that are lost, or dropped by bfd_recv_cb.
LEMMA DropStep ==
    ASSUME Inv, NEW p \in Peers, NEW rest \in Seq(Packets),
           \A i \in 1..Len(rest) : SentOK(heard, p, rest[i]),
           net' = [net EXCEPT ![p] = rest], UNCHANGED <<sess, view, discr, heard>>,
           faults' \in 0..MaxFaults
    PROVE  Inv'
<1>1. TypeOK'
  BY DEF Inv, TypeOK
<1>2. SessionsOK' /\ HandshakeComplete' /\ UpIsAnnounced'
  BY DEF Inv, SessionsOK, HandshakeComplete, UpIsAnnounced
<1>3. PacketsOK'
  <2> SUFFICES ASSUME NEW q \in Peers
               PROVE  \A i \in 1..Len(net'[q]) : SentOK(heard', q, net'[q][i])
    BY DEF PacketsOK
  <2>1. CASE q = p
    BY <2>1 DEF Inv, TypeOK
  <2>2. CASE q # p
    BY <2>2 DEF Inv, TypeOK, PacketsOK
  <2> QED
    BY <2>1, <2>2
<1> QED
  BY <1>1, <1>2, <1>3 DEF Inv

\* The packets that are left when the first one is read.
LEMMA QueueFacts ==
    ASSUME Inv, NEW p \in Peers, net[p] # <<>>
    PROVE  /\ Head(net[p]) \in Packets /\ SentOK(heard, p, Head(net[p]))
           /\ Tail(net[p]) \in Seq(Packets)
           /\ \A i \in 1..Len(Tail(net[p])) : SentOK(heard, p, Tail(net[p])[i])
<1>1. net[p] \in Seq(Packets) /\ \A i \in 1..Len(net[p]) : SentOK(heard, p, net[p][i])
  BY SessionFacts
<1> QED
  BY <1>1, SMTT(30)

\* A handler ran whose effects fit, whatever may be broken by the removal of an
\* interface or a deregistration.
Effect(p) ==
    \E h, rest : Handled(p, h, rest) /\ (Fit(sess[p]) => Fit(h.s))

\* bfd_recv_cb has read the first packet and left rest.
LEMMA ReadStep ==
    ASSUME Inv, NEW p \in Peers, net[p] # <<>>, NEW rest \in Seq(Packets),
           \A i \in 1..Len(rest) : SentOK(heard, p, rest[i]),
           Process(p, Head(net[p]), rest), UNCHANGED discr,
           faults' \in 0..MaxFaults
    PROVE  Effect(p) \/ (Inv' /\ UNCHANGED <<sess, view>>)
<1> DEFINE pkt == Head(net[p])
           h == BfdRecv(sess[p], pkt, Mult[Other[p]])
<1>1. pkt \in Packets /\ SentOK(heard, p, pkt)
  BY QueueFacts
<1>2. CASE Accepts(sess[p], pkt)
  <2>1. /\ Perform(p, h, rest)
        /\ heard' = heard \union {<<p, sess[p].my_discr, pkt.mine>>}
    BY <1>2 DEF Process
  <2> HIDE DEF pkt
  <2>2. Handled(p, h, rest) /\ (Fit(sess[p]) => Fit(h.s))
    BY <1>1, <1>2, <2>1, ProcessStep
  <2> HIDE DEF h
  <2> QED
    BY <2>2 DEF Effect
<1>3. CASE ~Accepts(sess[p], pkt)
  <2>1. net' = [net EXCEPT ![p] = rest] /\ UNCHANGED <<sess, view, heard>>
    BY <1>3 DEF Process
  <2> QED
    BY <2>1, DropStep
<1> QED
  BY <1>2, <1>3

\* A packet arrives.
LEMMA ReceiveStep ==
    ASSUME Inv, NEW p \in Peers, Receive(p)
    PROVE  Effect(p) \/ (Inv' /\ UNCHANGED <<sess, view>>)
<1>1. /\ net[p] # <<>> /\ Process(p, Head(net[p]), Tail(net[p]))
      /\ UNCHANGED discr /\ faults' \in 0..MaxFaults
  BY DEF Receive, Inv, TypeOK
<1> QED
  BY <1>1, QueueFacts, ReadStep

\* A packet arrives and will arrive again.
LEMMA DuplicateStep ==
    ASSUME Inv, NEW p \in Peers, Duplicate(p)
    PROVE  Effect(p) \/ (Inv' /\ UNCHANGED <<sess, view>>)
<1> DEFINE tl == Tail(net[p])
           hd == Head(net[p])
           rest == Append(tl, hd)
<1>1. /\ net[p] # <<>> /\ Process(p, hd, rest)
      /\ UNCHANGED discr /\ faults' \in 0..MaxFaults
  BY DisturbType DEF Duplicate
<1>2. /\ hd \in Packets /\ SentOK(heard, p, hd) /\ tl \in Seq(Packets)
      /\ \A i \in 1..Len(tl) : SentOK(heard, p, tl[i])
  BY <1>1, QueueFacts
<1>3. rest \in Seq(Packets) /\ \A i \in 1..Len(rest) : SentOK(heard, p, rest[i])
  <2> HIDE DEF tl, hd
  <2> QED
    BY <1>2, SMTT(30)
<1> HIDE DEF rest
<1> QED
  BY <1>1, <1>3, ReadStep

\* A packet is lost.
LEMMA LoseStep ==
    ASSUME Inv, NEW p \in Peers, Lose(p)
    PROVE  Inv' /\ UNCHANGED <<sess, view>>
<1>1. /\ net[p] # <<>> /\ net' = [net EXCEPT ![p] = Tail(net[p])]
      /\ UNCHANGED <<sess, view, discr, heard>> /\ faults' \in 0..MaxFaults
  BY DisturbType DEF Lose
<1> QED
  BY <1>1, QueueFacts, DropStep

\* bfdd_dest_register tells every client what is true.
LEMMA RegisterStep ==
    ASSUME Inv, NEW p \in Peers, Register(p)
    PROVE  /\ Inv'
           /\ sess' = sess
           /\ \A c \in Clients : view'[p][c] = "UP" => sess[p].state = "UP"
           /\ \A q \in Peers : q # p => view'[q] = view[q]
<1> DEFINE note == NoteFor(sess[p], sess[p].state)
<1>1. PICK c \in Clients :
        /\ view[p][c] = "NONE"
        /\ view' = [view EXCEPT ![p] =
                      Notified([view[p] EXCEPT ![c] = "DOWN"], note)]
  BY DEF Register
<1>2. /\ UNCHANGED <<sess, net, discr, heard, faults>>
      /\ view \in [Peers -> [Clients -> Notes]] /\ sess[p].state \in States
  BY DEF Register, Inv, TypeOK, Session
<1>3. note \in Notes \ {"NONE"} /\ (note = "UP" <=> sess[p].state = "UP")
  BY <1>2, NoteForOK
<1> HIDE DEF note
<1> DEFINE views == [view[p] EXCEPT ![c] = "DOWN"]
<1>4. views \in [Clients -> Notes]
  BY <1>2 DEF Notes
<1> HIDE DEF views
<1>5. view' = [view EXCEPT ![p] = Notified(views, note)]
  BY <1>1 DEF views
<1>6. /\ Notified(views, note) \in [Clients -> Notes]
      /\ \A e \in Clients : Notified(views, note)[e] \in {"NONE", note}
  BY <1>3, <1>4, NotifiedOK, SMTT(30)
<1>7. /\ view'[p] = Notified(views, note)
      /\ view' \in [Peers -> [Clients -> Notes]]
      /\ \A q \in Peers : q # p => view'[q] = view[q]
  BY <1>2, <1>5, <1>6
<1>8. \A e \in Clients : view'[p][e] \in {"NONE", note}
  BY <1>6, <1>7
<1>9. TypeOK'
  BY <1>2, <1>7 DEF Inv, TypeOK
<1>10. SessionsOK' /\ PacketsOK' /\ HandshakeComplete'
  BY <1>2 DEF Inv, SessionsOK, PacketsOK, HandshakeComplete
<1>11. UpIsAnnounced'
  <2> SUFFICES ASSUME NEW q \in Peers, NEW e \in Clients,
                      sess'[q].state = "UP", view'[q][e] # "NONE"
               PROVE  view'[q][e] = "UP"
    BY DEF UpIsAnnounced
  <2>1. CASE q = p
    BY <1>2, <1>3, <1>8, <2>1
  <2>2. CASE q # p
    BY <1>2, <1>7, <2>2 DEF Inv, UpIsAnnounced
  <2> QED
    BY <2>1, <2>2
<1>12. \A e \in Clients : view'[p][e] = "UP" => sess[p].state = "UP"
  BY <1>3, <1>8
<1> QED
  BY <1>2, <1>7, <1>9, <1>10, <1>11, <1>12 DEF Inv

\* _ptm_bfd_session_del tells no client, and takes no session up.
LEMMA DeregisterStep ==
    ASSUME Inv, NEW p \in Peers, Deregister(p)
    PROVE  Inv'
<1> DEFINE h == PtmBfdSessionDel(sess[p])
           o == Other[p]
<1>1. PICK c \in Clients :
        /\ sess' = [sess EXCEPT ![p] = h.s]
        /\ net' = [net EXCEPT ![o] = Enqueue(@, h.out, sess[o].sock)]
        /\ view' = [view EXCEPT ![p][c] = "NONE"]
  BY DEF Deregister
<1>2. UNCHANGED <<discr, heard>> /\ faults' \in 0..MaxFaults
  BY DisturbType DEF Deregister
<1>3. SessOK(sess[p], discr[p], Known(heard, p, discr[p]))
  BY SessionFacts
<1>4. RunOK(h, discr[p], Known(heard, p, discr[p])) /\ h.s.state = "DOWN"
  BY <1>3, SessionDelOK
<1> HIDE DEF h
<1>5. net' = [net EXCEPT ![p] = net[p], ![o] = Enqueue(@, h.out, sess[o].sock)]
  BY <1>1, BfdAssumption DEF Inv, TypeOK
<1>6. Moved(p, h, net[p])
  BY <1>1, <1>2, <1>4, <1>5, SessionFacts DEF Moved
<1>7. /\ view \in [Peers -> [Clients -> Notes]] /\ sess \in [Peers -> Session]
      /\ "NONE" \in Notes
  BY DEF Inv, TypeOK, Notes
<1>8. /\ view' \in [Peers -> [Clients -> Notes]]
      /\ \A q \in Peers : q # p => view'[q] = view[q]
  BY <1>1, <1>7
<1>9. UpIsAnnounced'
  BY <1>1, <1>4, <1>7, <1>8 DEF Inv, UpIsAnnounced
<1> QED
  BY <1>6, <1>8, <1>9, MovedInv

-----------------------------------------------------------------------------
(* The theorems *)

\* New sessions satisfy all invariants.
LEMMA InitInv == Init => Inv /\ DownIsAnnounced /\ \A p \in Peers : Fit(sess[p])
<1> SUFFICES ASSUME Init
             PROVE  Inv /\ DownIsAnnounced /\ \A p \in Peers : Fit(sess[p])
  OBVIOUS
<1>1. ASSUME NEW p \in Peers
      PROVE  /\ SessOK(sess[p], 1, Known(heard, p, 1)) /\ sess[p].state # "UP"
             /\ Fit(sess[p])
  <2>1. PICK cfg \in Configs : sess[p] = BfdSessionNew(1, cfg).s
    BY <1>1 DEF Init
  <2>2. CfgOK(cfg)
    BY ConfigsOK
  <2>3. 1 \in 1..MaxRestarts
    BY RestartsType
  <2>4. LET r == BfdSessionNew(1, cfg)
        IN  /\ RunOK(r, 1, Known(heard, p, 1)) /\ r.s.state # "UP" /\ r.s.sock
            /\ Administered(r.s)
    BY <2>2, <2>3, SessionNewOK
  <2> QED
    BY <2>1, <2>4 DEF RunOK, Fit
<1>2. /\ net = [p \in Peers |-> <<>>] /\ discr = [p \in Peers |-> 1]
      /\ view = [p \in Peers |-> [c \in Clients |-> "NONE"]]
      /\ heard = {} /\ faults = MaxFaults
  BY DEF Init
<1>3. sess \in [Peers -> Session]
  <2>1. sess = [p \in Peers |-> sess[p]]
    BY DEF Init
  <2> QED
    BY <1>1, <2>1 DEF SessOK
<1>4. TypeOK
  BY <1>2, <1>3, RestartsType, BfdAssumption, SMTT(30) DEF TypeOK, Notes
<1>5. SessionsOK
  BY <1>1, <1>2 DEF SessionsOK
<1>6. PacketsOK
  BY <1>2, SMTT(30) DEF PacketsOK
<1>7. HandshakeComplete /\ UpIsAnnounced /\ DownIsAnnounced
  BY <1>1, <1>2 DEF HandshakeComplete, UpIsAnnounced, DownIsAnnounced
<1> QED
  BY <1>1, <1>4, <1>5, <1>6, <1>7 DEF Inv

\* What a step of bfdd, of the network or of a client can be.
LEMMA NextCases ==
    ASSUME Inv, Next
    PROVE  \E p \in Peers :
              \/ Effect(p)
              \/ /\ "interface" \in Disturbances
                 /\ \E h, rest : Handled(p, h, rest)
              \/ Inv' /\ UNCHANGED <<sess, view>>
              \/ Restarted(p)
              \/ Register(p)
              \/ "deregister" \in Disturbances /\ Deregister(p)
<1>1. PICK p \in Peers :
        \/ Transmit(p) \/ Receive(p) \/ Expire(p) \/ Configure(p)
        \/ InterfaceDown(p) \/ InterfaceUp(p) \/ Restart(p) \/ Register(p)
        \/ Deregister(p) \/ Lose(p) \/ Duplicate(p)
  BY DEF Next
<1>2. CASE Transmit(p)
  BY <1>2, TransmitStep DEF Effect
<1>3. CASE Receive(p)
  BY <1>3, ReceiveStep
<1>4. CASE Expire(p)
  BY <1>4, ExpireStep DEF Effect
<1>5. CASE Configure(p)
  <2>1. PICK cfg \in Configs :
          /\ \E kind : Disturb(kind)
          /\ Perform(p, BfdSessionApply(sess[p], cfg), net[p])
    BY <1>5 DEF Configure
  <2>2. UNCHANGED <<discr, heard>> /\ faults' \in 0..MaxFaults
    BY <1>5, <2>1, DisturbType DEF Configure
  <2> QED
    BY <2>1, <2>2, ConfigureStep DEF Effect
<1>6. CASE InterfaceDown(p)
  <2>1. "interface" \in Disturbances
    BY <1>6, DisturbType DEF InterfaceDown
  <2> QED
    BY <1>6, <2>1, InterfaceDownStep
<1>7. CASE InterfaceUp(p)
  BY <1>7, InterfaceUpStep DEF Effect
<1>8. CASE Restart(p)
  BY <1>8, RestartStep
<1>9. CASE Deregister(p)
  BY <1>9, DisturbType DEF Deregister
<1>10. CASE Lose(p)
  BY <1>10, LoseStep
<1>11. CASE Duplicate(p)
  BY <1>11, DuplicateStep
<1> QED
  BY <1>1, <1>2, <1>3, <1>4, <1>5, <1>6, <1>7, <1>8, <1>9, <1>10, <1>11

\* Every step preserves the invariant.
LEMMA StepInv == Inv /\ [Next]_vars => Inv'
<1> SUFFICES ASSUME Inv, [Next]_vars
             PROVE  Inv'
  OBVIOUS
<1>1. CASE Next
  BY <1>1, NextCases, HandledInv, RestartedInv, RegisterStep, DeregisterStep DEF Effect
<1>2. CASE UNCHANGED vars
  BY <1>2 DEF vars, Inv, TypeOK, SessionsOK, PacketsOK, HandshakeComplete,
              UpIsAnnounced
<1> QED
  BY <1>1, <1>2

\* The invariant holds in every behaviour.
LEMMA InvHolds == Spec => []Inv
<1>1. Init => Inv
  BY InitInv
<1> QED
  BY <1>1, StepInv, PTL DEF Spec

\* The variables of bfdd always have their types, whatever the intervals, the
\* clients and the disturbances: no handler stores anything else.
THEOREM TypeCorrect == Spec => []TypeOK
<1>1. Inv => TypeOK
  BY DEF Inv
<1> QED
  BY <1>1, InvHolds, PTL

\* bs_down_handler and bs_init_handler take a session up only after a three-way
\* handshake with the incarnation of the peer that it names, for any number of
\* restarts and however late and however often packets arrive.
THEOREM Handshake == Spec => []HandshakeComplete
<1>1. Inv => HandshakeComplete
  BY DEF Inv
<1> QED
  BY <1>1, InvHolds, PTL

\* Every registered client of a session that is up has been told so by
\* ptm_bfd_notify, for any number of clients.
THEOREM Announced == Spec => []UpIsAnnounced
<1>1. Inv => UpIsAnnounced
  BY DEF Inv
<1> QED
  BY <1>1, InvHolds, PTL

\* A handler that fits leaves no client believing in a session that is not up.
LEMMA HandledDown ==
    ASSUME Inv, DownIsAnnounced, NEW p \in Peers, NEW h, NEW rest,
           Handled(p, h, rest)
    PROVE  DownIsAnnounced'
<1> SUFFICES ASSUME NEW q \in Peers, NEW c \in Clients, view'[q][c] = "UP"
             PROVE  sess'[q].state = "UP"
  BY DEF DownIsAnnounced
<1>1. CASE q # p
  BY <1>1, HandledView, SMTT(30) DEF Inv, TypeOK, DownIsAnnounced
<1>2. CASE q = p
  <2>1. Run(sess[p]).s = sess[p] /\ Run(sess[p]).note = "NONE"
    BY DEF Run
  <2>2. /\ sess'[p] = h.s
        /\ view'[p][c] = IF h.note = "NONE" \/ view[p][c] = "NONE"
                         THEN view[p][c] ELSE h.note
    BY HandledView, SMTT(30)
  <2>3. view[p][c] = "UP" => sess[p].state = "UP"
    BY DEF DownIsAnnounced
  <2> QED
    BY <1>2, <2>1, <2>2, <2>3 DEF Handled, Told, ToldDown
<1> QED
  BY <1>1, <1>2

\* As long as no client deregisters, no client ever believes in a session that
\* has gone down, whichever of bfdd's handlers took it down.
THEOREM DownAnnounced ==
    ASSUME "deregister" \notin Disturbances
    PROVE  Spec => []DownIsAnnounced
<1>1. Init => Inv /\ DownIsAnnounced
  BY InitInv
<1>2. Inv /\ DownIsAnnounced /\ [Next]_vars => (Inv /\ DownIsAnnounced)'
  <2> SUFFICES ASSUME Inv, DownIsAnnounced, [Next]_vars
               PROVE  DownIsAnnounced'
    BY StepInv
  <2>1. CASE UNCHANGED vars
    BY <2>1 DEF vars, DownIsAnnounced
  <2>2. CASE Next
    <3>1. PICK p \in Peers :
             \/ \E h, rest : Handled(p, h, rest)
             \/ UNCHANGED <<sess, view>>
             \/ Restarted(p)
             \/ Register(p)
      BY <2>2, NextCases DEF Effect
    <3>2. CASE \E h, rest : Handled(p, h, rest)
      BY <3>2, HandledDown
    <3>3. CASE UNCHANGED <<sess, view>>
      BY <3>3 DEF DownIsAnnounced
    <3>4. CASE Register(p)
      BY <3>4, RegisterStep DEF DownIsAnnounced
    <3>5. CASE Restarted(p)
      BY <3>5, RestartedInv DEF DownIsAnnounced
    <3> QED
      BY <3>1, <3>2, <3>3, <3>4, <3>5
  <2> QED
    BY <2>1, <2>2
<1> QED
  BY <1>1, <1>2, PTL DEF Spec

\* Every session is in order when its timers, its shutdown flag and its state are.
AllFit == \A p \in Peers : Fit(sess[p])

\* As long as interfaces stay and no client deregisters, no handler leaves a
\* session with timers or flags that do not go with its state.
LEMMA FitHolds ==
    ASSUME "deregister" \notin Disturbances, "interface" \notin Disturbances
    PROVE  Spec => []AllFit
<1> USE DEF AllFit
<1>1. Init => Inv /\ AllFit
  BY InitInv
<1>2. Inv /\ AllFit /\ [Next]_vars => (Inv /\ AllFit)'
  <2> SUFFICES ASSUME Inv, AllFit, [Next]_vars
               PROVE  AllFit'
    BY StepInv
  <2>1. CASE UNCHANGED vars
    BY <2>1 DEF vars
  <2>2. CASE Next
    <3>1. PICK p \in Peers :
             Effect(p) \/ UNCHANGED sess \/ Restarted(p) \/ Register(p)
      BY <2>2, NextCases
    <3>2. CASE Effect(p)
      <4>1. PICK h, rest : Handled(p, h, rest) /\ (Fit(sess[p]) => Fit(h.s))
        BY <3>2 DEF Effect
      <4>2. sess' = [sess EXCEPT ![p] = h.s] /\ sess \in [Peers -> Session]
        BY <4>1, HandledView DEF Inv, TypeOK
      <4> QED
        BY <4>1, <4>2
    <3>3. CASE UNCHANGED sess
      BY <3>3
    <3>4. CASE Register(p)
      BY <3>4, RegisterStep
    <3>5. CASE Restarted(p)
      BY <3>5, RestartedInv
    <3> QED
      BY <3>1, <3>2, <3>3, <3>4, <3>5
  <2> QED
    BY <2>1, <2>2
<1> HIDE DEF AllFit
<1> QED
  BY <1>1, <1>2, PTL DEF Spec

\* As long as interfaces stay and no client deregisters, a session that is up has
\* its detection timer running: the path through bfd_recv_cb that takes it up arms
\* the timer, and nothing but its own expiry stops it.
THEOREM Watched ==
    ASSUME "deregister" \notin Disturbances, "interface" \notin Disturbances
    PROVE  Spec => []DetectionArmed
<1>1. AllFit => DetectionArmed
  BY DEF AllFit, DetectionArmed, Fit, Administered
<1> QED
  BY <1>1, FitHolds, PTL

\* As long as interfaces stay and no client deregisters, a session that is shut
\* down is never up: bfd_set_shutdown takes it down, and no packet received later
\* takes it up again.
THEOREM ShutDown ==
    ASSUME "deregister" \notin Disturbances, "interface" \notin Disturbances
    PROVE  Spec => []ShutdownNeverUp
<1>1. AllFit => ShutdownNeverUp
  BY DEF AllFit, ShutdownNeverUp, Fit, Administered
<1> QED
  BY <1>1, FitHolds, PTL
=============================================================================
