-------------------------- MODULE BfdHandlerProofs --------------------------
(***************************************************************************)
(* What the handlers of BfdSession do, for all sessions and packets.  The  *)
(* lemmas follow the call tree of bfdd: each says that a handler preserves *)
(* RunOK, which holds of a session and of the packets it has sent in the   *)
(* middle of a handler, and what it tells the clients.                     *)
(***************************************************************************)
EXTENDS Bfd, TLAPS

\* Most leaves are first-order; the ones that need arithmetic say SMT.
USE ZenonT(30)

Runs == [s : Session, out : Seq(Packets), note : Notes]

Rising == {"INIT", "UP"}

\* Session d, whose peers so far are K: one that rises has heard its peer.
SessOK(s, d, K) ==
    /\ s \in Session
    /\ s.my_discr = d
    /\ s.remote_discr \in K \union {0}
    /\ s.state \in Rising => s.remote_discr # 0

\* A packet of session d whose peers so far are K.
PacketOK(pkt, d, K) ==
    /\ pkt.mine = d
    /\ pkt.yours \in K \union {0}
    /\ pkt.state \in Rising => pkt.yours # 0

RunOK(h, d, K) ==
    /\ h \in Runs
    /\ SessOK(h.s, d, K)
    /\ \A i \in 1..Len(h.out) : PacketOK(h.out[i], d, K)

\* What no timer, packet or slow-down changes.
Same(g, h) ==
    /\ h.s.state = g.s.state
    /\ h.s.remote_discr = g.s.remote_discr
    /\ h.s.shutdown = g.s.shutdown
    /\ h.s.sock = g.s.sock
    /\ h.note = g.note

\* Clients are told up when the session is up and down when it is not, unless
\* it already was that way and nothing was said.
ToldUp(g, h) ==
    h.s.state = "UP" =>
        h.note = "UP" \/ (h.note = g.note /\ g.s.state = "UP")

ToldDown(g, h) ==
    h.s.state # "UP" =>
        h.note \in {"DOWN", "ADM_DOWN"} \/ (h.note = g.note /\ g.s.state # "UP")

Told(g, h) == ToldUp(g, h) /\ ToldDown(g, h)

\* The configuration and the socket are left alone, and a session enters and
\* leaves ADM_DOWN only with them.
Kept(g, h) ==
    /\ h.s.shutdown = g.s.shutdown
    /\ h.s.sock = g.s.sock
    /\ h.s.state = "ADM_DOWN" <=> g.s.state = "ADM_DOWN"

\* A session is up after a packet in state nstate only if it was, or if the
\* packet says that its sender rises; and it still names the same peer.
Risen(g, h, nstate) ==
    h.s.state = "UP" => /\ h.s.remote_discr = g.s.remote_discr
                        /\ g.s.state = "UP" \/ nstate \in Rising

-----------------------------------------------------------------------------
\* Relations between the runs before and after a call compose.
LEMMA SameTransitive == \A f, g, h : Same(f, g) /\ Same(g, h) => Same(f, h)
BY DEF Same

\* What clients are told composes.
LEMMA ToldTransitive == \A f, g, h : Told(f, g) /\ Told(g, h) => Told(f, h)
BY SMTT(30) DEF Told, ToldUp, ToldDown

\* What stays composes.
LEMMA KeptTransitive == \A f, g, h : Kept(f, g) /\ Kept(g, h) => Kept(f, h)
BY DEF Kept

\* Who changes nothing need not tell anything.
LEMMA SameToldKept == \A g, h : Same(g, h) => Told(g, h) /\ Kept(g, h)
BY DEF Same, Told, ToldUp, ToldDown, Kept

\* The states by name.
LEMMA States4 ==
    /\ "ADM_DOWN" \in States /\ "DOWN" \in States
    /\ "INIT" \in States /\ "UP" \in States
BY DEF States

\* A timer is armed or not.
LEMMA CanArmType == \A s : CanArm(s) \in BOOLEAN
BY DEF CanArm

\* The default timers are natural numbers.
LEMMA SlowType == Slow \in Nat /\ DefMult * Slow \in Nat
BY SlowAssumption, SMTT(30)

\* There is a first discriminator, and zero is none.
LEMMA RestartsType == 0 \in 0..MaxRestarts /\ 1 \in 1..MaxRestarts
BY BfdAssumption, SMTT(30)

\* The fields of a session that handlers assign, one at a time.
LEMMA FieldTypes ==
    ASSUME NEW s \in Session
    PROVE  /\ \A v \in States : [s EXCEPT !.state = v] \in Session
           /\ \A v \in 0..MaxRestarts : [s EXCEPT !.remote_discr = v] \in Session
           /\ \A v \in BOOLEAN : /\ [s EXCEPT !.polling = v] \in Session
                                 /\ [s EXCEPT !.passive = v] \in Session
                                 /\ [s EXCEPT !.shutdown = v] \in Session
                                 /\ [s EXCEPT !.sock = v] \in Session
                                 /\ [s EXCEPT !.xmt = v] \in Session
                                 /\ [s EXCEPT !.recv = v] \in Session
           /\ \A v \in Nat : /\ [s EXCEPT !.tx = v] \in Session
                             /\ [s EXCEPT !.rx = v] \in Session
                             /\ [s EXCEPT !.cur_tx = v] \in Session
                             /\ [s EXCEPT !.cur_rx = v] \in Session
                             /\ [s EXCEPT !.rem_tx = v] \in Session
                             /\ [s EXCEPT !.rem_rx = v] \in Session
                             /\ [s EXCEPT !.xmt_TO = v] \in Session
                             /\ [s EXCEPT !.detect_TO = v] \in Session
<1>1. \A v \in States : [s EXCEPT !.state = v] \in Session
  BY SMTT(30) DEF Session
<1>2. \A v \in 0..MaxRestarts : [s EXCEPT !.remote_discr = v] \in Session
  BY SMTT(30) DEF Session
<1>3. ASSUME NEW v \in BOOLEAN
      PROVE  /\ [s EXCEPT !.polling = v] \in Session
             /\ [s EXCEPT !.passive = v] \in Session
             /\ [s EXCEPT !.shutdown = v] \in Session
             /\ [s EXCEPT !.sock = v] \in Session
             /\ [s EXCEPT !.xmt = v] \in Session
             /\ [s EXCEPT !.recv = v] \in Session
  BY SMTT(30) DEF Session
<1>4. ASSUME NEW v \in Nat
      PROVE  /\ [s EXCEPT !.tx = v] \in Session
             /\ [s EXCEPT !.rx = v] \in Session
             /\ [s EXCEPT !.cur_tx = v] \in Session
             /\ [s EXCEPT !.cur_rx = v] \in Session
  BY SMTT(30) DEF Session
<1>5. ASSUME NEW v \in Nat
      PROVE  /\ [s EXCEPT !.rem_tx = v] \in Session
             /\ [s EXCEPT !.rem_rx = v] \in Session
             /\ [s EXCEPT !.xmt_TO = v] \in Session
             /\ [s EXCEPT !.detect_TO = v] \in Session
  BY SMTT(30) DEF Session
<1> QED
  BY <1>1, <1>2, <1>3, <1>4, <1>5

-----------------------------------------------------------------------------
(* Timers and output *)

\* A handler that replaces the session by a sound one.
LEMMA SetSession ==
    ASSUME NEW d, NEW K, NEW h, RunOK(h, d, K), NEW t, SessOK(t, d, K)
    PROVE  /\ RunOK([h EXCEPT !.s = t], d, K)
           /\ [h EXCEPT !.s = t].s = t
           /\ [h EXCEPT !.s = t].note = h.note
BY DEF RunOK, Runs, SessOK

\* bfd_xmttimer_update leaves all but its timer alone.
LEMMA XmtTimerOK ==
    ASSUME NEW d, NEW K, NEW h, RunOK(h, d, K)
    PROVE  /\ RunOK(XmtTimerUpdate(h), d, K)
           /\ Same(h, XmtTimerUpdate(h))
           /\ XmtTimerUpdate(h).s.recv = h.s.recv
<1> DEFINE t == [h.s EXCEPT !.xmt = CanArm(h.s)]
<1>1. h.s \in Session /\ h \in Runs
  BY DEF RunOK, Runs
<1>2. SessOK(t, d, K) /\ t.recv = h.s.recv /\ t.state = h.s.state
      /\ t.remote_discr = h.s.remote_discr /\ t.shutdown = h.s.shutdown
      /\ t.sock = h.s.sock
  BY <1>1, CanArmType DEF RunOK, SessOK, Session
<1>3. XmtTimerUpdate(h) = [h EXCEPT !.s = t]
  BY <1>1 DEF XmtTimerUpdate, Runs
<1> HIDE DEF t
<1> QED
  BY <1>2, <1>3, SetSession, SMTT(30) DEF Same

\* bfd_recvtimer_update arms its timer if the session may have one.
LEMMA RecvTimerOK ==
    ASSUME NEW d, NEW K, NEW h, RunOK(h, d, K)
    PROVE  /\ RunOK(RecvTimerUpdate(h), d, K)
           /\ Same(h, RecvTimerUpdate(h))
           /\ RecvTimerUpdate(h).s.recv = CanArm(h.s)
<1> DEFINE t == [h.s EXCEPT !.recv = CanArm(h.s)]
<1>1. h.s \in Session /\ h \in Runs
  BY DEF RunOK, Runs
<1>2. SessOK(t, d, K) /\ t.recv = CanArm(h.s) /\ t.state = h.s.state
      /\ t.remote_discr = h.s.remote_discr /\ t.shutdown = h.s.shutdown
      /\ t.sock = h.s.sock
  BY <1>1, CanArmType DEF RunOK, SessOK, Session
<1>3. RecvTimerUpdate(h) = [h EXCEPT !.s = t]
  BY <1>1 DEF RecvTimerUpdate, Runs
<1> HIDE DEF t
<1> QED
  BY <1>2, <1>3, SetSession, SMTT(30) DEF Same

\* Starting the timers leaves the rest of the session alone.
LEMMA StartTimersOK ==
    ASSUME NEW d, NEW K, NEW h, RunOK(h, d, K)
    PROVE  RunOK(StartTimers(h), d, K) /\ Same(h, StartTimers(h))
BY XmtTimerOK, RecvTimerOK, SameTransitive DEF StartTimers

\* Stopping the timers leaves the rest of the session alone.
LEMMA StopTimersOK ==
    ASSUME NEW d, NEW K, NEW h, RunOK(h, d, K)
    PROVE  RunOK(StopTimers(h), d, K) /\ Same(h, StopTimers(h))
<1> DEFINE t == [h.s EXCEPT !.xmt = FALSE, !.recv = FALSE]
<1>1. h.s \in Session
  BY DEF RunOK, Runs
<1>2. [h.s EXCEPT !.xmt = FALSE] \in Session
  BY <1>1, FieldTypes
<1>3. t \in Session
  BY <1>2, FieldTypes
<1>4. t.my_discr = h.s.my_discr /\ t.state = h.s.state
      /\ t.remote_discr = h.s.remote_discr /\ t.shutdown = h.s.shutdown
      /\ t.sock = h.s.sock
  BY <1>1 DEF Session
<1>5. StopTimers(h) = [h EXCEPT !.s = t]
  BY DEF StopTimers
<1> HIDE DEF t
<1>6. SessOK(t, d, K)
  BY <1>3, <1>4 DEF RunOK, SessOK
<1> QED
  BY <1>4, <1>5, <1>6, SetSession, SMTT(30) DEF Same

\* A control packet says what the session knows.
LEMMA ControlPacketOK ==
    ASSUME NEW d, NEW K, NEW s, SessOK(s, d, K), NEW fbit \in BOOLEAN
    PROVE  /\ ControlPacket(s, fbit) \in Packets
           /\ PacketOK(ControlPacket(s, fbit), d, K)
<1> DEFINE poll == s.polling /\ ~fbit
<1>1. poll \in BOOLEAN
  OBVIOUS
<1> HIDE DEF poll
<1>2. ControlPacket(s, fbit) =
        [mine  |-> s.my_discr, yours |-> s.remote_discr,
         state |-> s.state, poll |-> poll, final |-> fbit,
         tx    |-> IF s.polling THEN s.tx ELSE s.cur_tx,
         rx    |-> IF s.polling THEN s.rx ELSE s.cur_rx]
  BY DEF ControlPacket, poll
<1> QED
  BY <1>1, <1>2, SMTT(30) DEF SessOK, Session, Packets, PacketOK

\* What ptm_bfd_snd sends names the peer that the session has heard.
LEMMA SndOK ==
    ASSUME NEW d, NEW K, NEW h, RunOK(h, d, K), NEW fbit \in BOOLEAN
    PROVE  /\ RunOK(PtmBfdSnd(h, fbit), d, K)
           /\ PtmBfdSnd(h, fbit).s = h.s
           /\ PtmBfdSnd(h, fbit).note = h.note
<1> DEFINE pkt == ControlPacket(h.s, fbit)
           g == [h EXCEPT !.out = Append(h.out, pkt)]
<1>1. pkt \in Packets /\ PacketOK(pkt, d, K)
  BY ControlPacketOK DEF RunOK
<1>2. PtmBfdSnd(h, fbit) \in {h, g}
  BY DEF PtmBfdSnd
<1> HIDE DEF pkt
<1>3. g \in Runs /\ g.s = h.s /\ g.note = h.note /\ g.out = Append(h.out, pkt)
      /\ h.out \in Seq(Packets)
  BY <1>1, SMTT(30) DEF RunOK, Runs
<1> HIDE DEF g
<1>4. \A i \in 1..Len(g.out) : PacketOK(g.out[i], d, K)
  BY <1>1, <1>3, SMTT(30) DEF RunOK
<1>5. RunOK(g, d, K)
  BY <1>3, <1>4 DEF RunOK
<1> QED
  BY <1>2, <1>3, <1>5

\* Run r is run h with packets added to its output.
Sent(h, r, d, K) == RunOK(r, d, K) /\ r.s = h.s /\ r.note = h.note

\* The same with the final bit clear, and with it set.
LEMMA SndPlain ==
    ASSUME NEW d, NEW K, NEW h, RunOK(h, d, K)
    PROVE  Sent(h, PtmBfdSnd(h, FALSE), d, K) /\ Sent(h, PtmBfdSnd(h, TRUE), d, K)
<1>1. \A b \in BOOLEAN : Sent(h, PtmBfdSnd(h, b), d, K)
  BY SndOK, SMTT(30) DEF Sent
<1>2. TRUE \in BOOLEAN /\ FALSE \in BOOLEAN
  OBVIOUS
<1> QED
  BY <1>1, <1>2

\* Sending leaves the session alone.
LEMMA SndSame ==
    ASSUME NEW d, NEW K, NEW h, RunOK(h, d, K), NEW fbit \in BOOLEAN
    PROVE  Same(h, PtmBfdSnd(h, fbit))
BY SndOK, SMTT(30) DEF Same

\* ptm_bfd_xmt_TO sends and touches the transmission timer only.
LEMMA XmtTOOK ==
    ASSUME NEW d, NEW K, NEW h, RunOK(h, d, K), NEW fbit \in BOOLEAN
    PROVE  /\ RunOK(PtmBfdXmtTO(h, fbit), d, K)
           /\ Same(h, PtmBfdXmtTO(h, fbit))
           /\ PtmBfdXmtTO(h, fbit).s.recv = h.s.recv
<1> DEFINE g == PtmBfdSnd(h, fbit)
<1>1. RunOK(g, d, K) /\ Same(h, g) /\ g.s = h.s
  BY SndOK, SndSame, SMTT(30)
<1> HIDE DEF g
<1>2. /\ RunOK(XmtTimerUpdate(g), d, K) /\ Same(g, XmtTimerUpdate(g))
      /\ XmtTimerUpdate(g).s.recv = h.s.recv
  BY <1>1, XmtTimerOK, SMTT(30)
<1> QED
  BY <1>1, <1>2, SameTransitive DEF PtmBfdXmtTO, g

\* ptm_bfd_notify tells the clients UP, DOWN or ADM_DOWN.
LEMMA NoteForOK ==
    ASSUME NEW s, NEW state \in States
    PROVE  /\ NoteFor(s, state) \in Notes \ {"NONE"}
           /\ NoteFor(s, state) = "UP" <=> state = "UP"
BY DEF NoteFor, States, Notes

\* Telling clients leaves the session alone.
LEMMA NotifyOK ==
    ASSUME NEW d, NEW K, NEW h, RunOK(h, d, K), NEW state \in States
    PROVE  /\ RunOK(PtmBfdNotify(h, state), d, K)
           /\ PtmBfdNotify(h, state).s = h.s
           /\ PtmBfdNotify(h, state).note = NoteFor(h.s, state)
BY NoteForOK DEF PtmBfdNotify, RunOK, Runs

\* Clients are told what the state becomes.
LEMMA NotifyUp ==
    ASSUME NEW d, NEW K, NEW h, RunOK(h, d, K)
    PROVE  /\ RunOK(PtmBfdNotify(h, "UP"), d, K)
           /\ PtmBfdNotify(h, "UP").s = h.s
           /\ PtmBfdNotify(h, "UP").note = "UP"
<1>1. NoteFor(h.s, "UP") = "UP"
  BY NoteForOK, States4
<1>2. /\ RunOK(PtmBfdNotify(h, "UP"), d, K) /\ PtmBfdNotify(h, "UP").s = h.s
      /\ PtmBfdNotify(h, "UP").note = NoteFor(h.s, "UP")
  BY NotifyOK, States4, SMTT(30)
<1> QED
  BY <1>1, <1>2

\* DOWN and ADM_DOWN are never turned into UP.
LEMMA NotifyDown ==
    ASSUME NEW d, NEW K, NEW h, RunOK(h, d, K), NEW state \in {"DOWN", "ADM_DOWN"}
    PROVE  /\ RunOK(PtmBfdNotify(h, state), d, K)
           /\ PtmBfdNotify(h, state).s = h.s
           /\ PtmBfdNotify(h, state).note \in {"DOWN", "ADM_DOWN"}
<1>1. state \in States
  BY States4
<1>2. NoteFor(h.s, state) \in {"DOWN", "ADM_DOWN"}
  BY DEF NoteFor
<1> QED
  BY <1>1, <1>2, NotifyOK, SMTT(30)

-----------------------------------------------------------------------------
(* The state machine *)

\* bs_set_slow_timers changes intervals only.
LEMMA SlowTimersOK ==
    ASSUME NEW d, NEW K, NEW h, RunOK(h, d, K)
    PROVE  RunOK(BsSetSlowTimers(h), d, K) /\ Same(h, BsSetSlowTimers(h))
<1> DEFINE detect == DefMult * Slow
<1>1. detect \in Nat /\ Slow \in Nat
  BY SlowType
<1> HIDE DEF detect
<1> DEFINE t == [h.s EXCEPT !.cur_tx = Slow, !.cur_rx = Slow,
                            !.xmt_TO = Slow, !.detect_TO = detect]
<1>2. /\ t \in Session /\ t.my_discr = h.s.my_discr /\ t.state = h.s.state
      /\ t.remote_discr = h.s.remote_discr /\ t.shutdown = h.s.shutdown
      /\ t.sock = h.s.sock
  BY <1>1 DEF RunOK, Runs, Session
<1>3. BsSetSlowTimers(h) = [h EXCEPT !.s = t]
  BY DEF BsSetSlowTimers, detect
<1> HIDE DEF t
<1>4. SessOK(t, d, K)
  BY <1>2 DEF RunOK, SessOK
<1> QED
  BY <1>2, <1>3, <1>4, SetSession, SMTT(30) DEF Same

\* ptm_bfd_sess_up may only be called for a session that has heard its peer.
LEMMA SessUpOK ==
    ASSUME NEW d, NEW K, NEW h, RunOK(h, d, K), h.s.remote_discr # 0
    PROVE  /\ RunOK(PtmBfdSessUp(h), d, K)
           /\ Told(h, PtmBfdSessUp(h))
           /\ PtmBfdSessUp(h).s.state = "UP"
           /\ PtmBfdSessUp(h).s.remote_discr = h.s.remote_discr
           /\ PtmBfdSessUp(h).s.shutdown = h.s.shutdown
           /\ PtmBfdSessUp(h).s.sock = h.s.sock
<1> DEFINE t == [h.s EXCEPT !.state = "UP", !.polling = TRUE]
           up == [h EXCEPT !.s = t]
           sent == PtmBfdSnd(up, FALSE)
<1>1. h.s \in Session
  BY DEF RunOK, SessOK
<1>2. [h.s EXCEPT !.state = "UP"] \in Session
  BY <1>1, FieldTypes, States4
<1>3. t \in Session
  BY <1>2, FieldTypes
<1>4. /\ t.my_discr = h.s.my_discr /\ t.state = "UP" /\ t.sock = h.s.sock
      /\ t.remote_discr = h.s.remote_discr /\ t.shutdown = h.s.shutdown
  BY <1>1 DEF Session
<1>5. PtmBfdSessUp(h) = PtmBfdNotify(sent, "UP")
  BY DEF PtmBfdSessUp
<1> HIDE DEF t
<1>6. SessOK(t, d, K)
  BY <1>3, <1>4 DEF RunOK, SessOK
<1>7. RunOK(up, d, K) /\ up.s = t
  BY <1>6, SetSession, SMTT(30)
<1> HIDE DEF up
<1>8. RunOK(sent, d, K) /\ sent.s = t
  <2>1. Sent(up, sent, d, K)
    BY <1>7, SndPlain
  <2> HIDE DEF sent
  <2> QED
    BY <1>7, <2>1 DEF Sent
<1> HIDE DEF sent
<1>9. /\ RunOK(PtmBfdNotify(sent, "UP"), d, K)
      /\ PtmBfdNotify(sent, "UP").s = t /\ PtmBfdNotify(sent, "UP").note = "UP"
  BY <1>8, NotifyUp
<1> QED
  BY <1>4, <1>5, <1>9 DEF Told, ToldUp, ToldDown

\* ptm_bfd_sess_dn forgets the peer, and tells the clients of a session that
\* was up.
LEMMA SessDnOK ==
    ASSUME NEW d, NEW K, NEW h, RunOK(h, d, K)
    PROVE  /\ RunOK(PtmBfdSessDn(h), d, K)
           /\ Told(h, PtmBfdSessDn(h))
           /\ PtmBfdSessDn(h).s.state = "DOWN"
           /\ PtmBfdSessDn(h).s.shutdown = h.s.shutdown
           /\ PtmBfdSessDn(h).s.sock = h.s.sock
<1> DEFINE t == [h.s EXCEPT !.state = "DOWN", !.remote_discr = 0,
                            !.polling = FALSE]
           down == [h EXCEPT !.s = t]
           sent == PtmBfdSnd(down, FALSE)
           slow == BsSetSlowTimers(sent)
           note == PtmBfdNotify(slow, "DOWN")
           told == IF h.s.state = "UP" THEN note ELSE slow
<1>1. h.s \in Session
  BY DEF RunOK, SessOK
<1>2. [h.s EXCEPT !.state = "DOWN"] \in Session
  BY <1>1, FieldTypes, States4
<1>3. [h.s EXCEPT !.state = "DOWN", !.remote_discr = 0] \in Session
  BY <1>2, FieldTypes, RestartsType
<1>4. t \in Session
  BY <1>3, FieldTypes
<1>5. /\ t.my_discr = h.s.my_discr /\ t.state = "DOWN" /\ t.sock = h.s.sock
      /\ t.remote_discr = 0 /\ t.shutdown = h.s.shutdown
  BY <1>1 DEF Session
<1>6. PtmBfdSessDn(h) = IF h.s.passive THEN StopTimers(told) ELSE told
  BY DEF PtmBfdSessDn
<1> HIDE DEF t
<1>7. SessOK(t, d, K)
  BY <1>4, <1>5 DEF RunOK, SessOK, Rising
<1>8. RunOK(down, d, K) /\ down.s = t /\ down.note = h.note
  BY <1>7, SetSession, SMTT(30)
<1> HIDE DEF down
<1>9. RunOK(sent, d, K) /\ sent.s = down.s /\ sent.note = down.note
  <2>1. Sent(down, sent, d, K)
    BY <1>8, SndPlain
  <2> HIDE DEF sent
  <2> QED
    BY <2>1 DEF Sent
<1> HIDE DEF sent
<1>10. RunOK(slow, d, K) /\ Same(sent, slow)
  BY <1>9, SlowTimersOK
<1> HIDE DEF slow
<1>11. RunOK(note, d, K) /\ note.s = slow.s /\ note.note \in {"DOWN", "ADM_DOWN"}
  BY <1>10, NotifyDown, SMTT(30)
<1> HIDE DEF note
<1>12. /\ RunOK(told, d, K) /\ Told(h, told) /\ told.s.state = "DOWN"
       /\ told.s.shutdown = h.s.shutdown /\ told.s.sock = h.s.sock
  BY <1>5, <1>8, <1>9, <1>10, <1>11 DEF Same, Told, ToldUp, ToldDown
<1> HIDE DEF told
<1>13. /\ RunOK(StopTimers(told), d, K) /\ Same(told, StopTimers(told))
       /\ Told(h, StopTimers(told))
  BY <1>12, StopTimersOK, SameToldKept, ToldTransitive
<1> QED
  BY <1>6, <1>12, <1>13 DEF Same

\* The outcomes of the handlers of the single states.
LEMMA DownHandlerCases ==
    ASSUME NEW h, NEW nstate
    PROVE  LET init == [h EXCEPT !.s.state = "INIT"]
           IN  \/ BsDownHandler(h, nstate) \in
                    {h, init, PtmBfdXmtTO(init, FALSE)}
               \/ nstate = "INIT" /\ BsDownHandler(h, nstate) = PtmBfdSessUp(h)
<1>1. CASE nstate = "DOWN"
  BY <1>1 DEF BsDownHandler
<1>2. CASE nstate = "INIT"
  BY <1>2 DEF BsDownHandler
<1>3. CASE nstate \notin {"DOWN", "INIT"}
  BY <1>3 DEF BsDownHandler
<1> QED
  BY <1>1, <1>2, <1>3

\* Only a packet in INIT or UP takes a session from INIT up.
LEMMA InitHandlerCases ==
    ASSUME NEW h, NEW nstate
    PROVE  \/ BsInitHandler(h, nstate) \in {h, PtmBfdSessDn(h)}
           \/ /\ nstate \in {"INIT", "UP"}
              /\ BsInitHandler(h, nstate) = PtmBfdSessUp(h)
<1>1. CASE nstate = "ADM_DOWN"
  BY <1>1 DEF BsInitHandler
<1>2. CASE nstate \in {"INIT", "UP"}
  BY <1>2 DEF BsInitHandler
<1>3. CASE nstate \notin {"ADM_DOWN", "INIT", "UP"}
  BY <1>3 DEF BsInitHandler
<1> QED
  BY <1>1, <1>2, <1>3

\* A session that is up stays so or goes down.
LEMMA UpHandlerCases ==
    ASSUME NEW h, NEW nstate
    PROVE  BsUpHandler(h, nstate) \in {h, PtmBfdSessDn(h)}
BY DEF BsUpHandler

\* bs_state_handler for a session that has just learned its peer.
LEMMA StateHandlerOK ==
    ASSUME NEW d, NEW K, NEW h, RunOK(h, d, K), h.s.remote_discr # 0, NEW nstate
    PROVE  /\ RunOK(BsStateHandler(h, nstate), d, K)
           /\ Told(h, BsStateHandler(h, nstate))
           /\ Kept(h, BsStateHandler(h, nstate))
           /\ Risen(h, BsStateHandler(h, nstate), nstate)
<1> DEFINE t == [h.s EXCEPT !.state = "INIT"]
           init == [h EXCEPT !.s.state = "INIT"]
           sent == PtmBfdXmtTO(init, FALSE)
           Fine(g) == /\ RunOK(g, d, K) /\ Told(h, g) /\ Kept(h, g)
                      /\ Risen(h, g, nstate)
<1>1. /\ t \in Session /\ t.my_discr = h.s.my_discr /\ t.state = "INIT"
      /\ t.remote_discr = h.s.remote_discr /\ t.shutdown = h.s.shutdown
      /\ t.sock = h.s.sock
  BY States4 DEF RunOK, SessOK, Session
<1>2. init = [h EXCEPT !.s = t]
  BY DEF RunOK, Runs
<1>3. \/ BsDownHandler(h, nstate) \in {h, init, sent}
      \/ nstate = "INIT" /\ BsDownHandler(h, nstate) = PtmBfdSessUp(h)
  BY DownHandlerCases
<1> HIDE DEF t, init
<1>4. SessOK(t, d, K)
  BY <1>1 DEF RunOK, SessOK
<1>5. RunOK(init, d, K) /\ init.s = t /\ init.note = h.note
  BY <1>2, <1>4, SetSession, SMTT(30)
<1>6. Fine(h)
  BY DEF Told, ToldUp, ToldDown, Kept, Risen
<1>7. CASE h.s.state = "DOWN"
  <2>1. BsStateHandler(h, nstate) = BsDownHandler(h, nstate)
    BY <1>7 DEF BsStateHandler
  <2>3. RunOK(sent, d, K) /\ Same(init, sent)
    BY <1>5, XmtTOOK
  <2> HIDE DEF sent
  <2>4. Fine(init)
    BY <1>1, <1>5, <1>7 DEF Told, ToldUp, ToldDown, Kept, Risen
  <2>5. Fine(sent)
    <3>1. Risen(h, sent, nstate)
      BY <2>3, <2>4 DEF Same, Risen
    <3> QED
      BY <2>3, <2>4, <3>1, SameToldKept, ToldTransitive, KeptTransitive
  <2>6. nstate = "INIT" => Fine(PtmBfdSessUp(h))
    BY <1>7, SessUpOK, SMTT(30) DEF Kept, Risen, Rising
  <2> HIDE DEF Fine
  <2>7. Fine(BsStateHandler(h, nstate))
    BY <1>3, <1>6, <2>1, <2>4, <2>5, <2>6
  <2> QED
    BY <2>7 DEF Fine
<1>8. CASE h.s.state \in {"INIT", "UP"}
  <2>1. \/ BsStateHandler(h, nstate) \in {h, PtmBfdSessDn(h)}
        \/ /\ nstate \in {"INIT", "UP"}
           /\ BsStateHandler(h, nstate) = PtmBfdSessUp(h)
    <3>1. CASE h.s.state = "INIT"
      <4>1. BsStateHandler(h, nstate) = BsInitHandler(h, nstate)
        BY <3>1 DEF BsStateHandler
      <4> QED
        BY <4>1, InitHandlerCases
    <3>2. CASE h.s.state = "UP"
      <4>1. BsStateHandler(h, nstate) = BsUpHandler(h, nstate)
        BY <3>2 DEF BsStateHandler
      <4> QED
        BY <4>1, UpHandlerCases
    <3> QED
      BY <1>8, <3>1, <3>2
  <2>2. nstate \in {"INIT", "UP"} => Fine(PtmBfdSessUp(h))
    BY <1>8, SessUpOK, SMTT(30) DEF Kept, Risen, Rising
  <2>3. Fine(PtmBfdSessDn(h))
    BY <1>8, SessDnOK DEF Kept, Risen
  <2> HIDE DEF Fine
  <2>4. Fine(BsStateHandler(h, nstate))
    BY <1>6, <2>1, <2>2, <2>3
  <2> QED
    BY <2>4 DEF Fine
<1>9. CASE h.s.state \notin {"DOWN", "INIT", "UP"}
  <2>1. BsStateHandler(h, nstate) = h
    BY <1>9 DEF BsStateHandler
  <2> QED
    BY <1>6, <2>1
<1> QED
  BY <1>7, <1>8, <1>9

\* Arithmetic of the intervals.
LEMMA MaxOfType == \A a, b \in Nat : MaxOf(a, b) \in Nat
BY DEF MaxOf

\* bs_final_handler changes intervals, and possibly the transmission timer.
LEMMA FinalHandlerOK ==
    ASSUME NEW d, NEW K, NEW h, RunOK(h, d, K)
    PROVE  /\ RunOK(BsFinalHandler(h), d, K)
           /\ Same(h, BsFinalHandler(h))
           /\ BsFinalHandler(h).s.recv = h.s.recv
<1> DEFINE agreed == MaxOf(h.s.tx, h.s.rem_rx)
           t == [h.s EXCEPT !.cur_tx = h.s.tx, !.cur_rx = h.s.rx]
           u == [t EXCEPT !.xmt_TO = agreed]
           cur == [h EXCEPT !.s = t]
           fast == [cur EXCEPT !.s.xmt_TO = agreed]
<1>1. h.s \in Session /\ h \in Runs
  BY DEF RunOK, SessOK
<1>2. agreed \in Nat
  BY <1>1, MaxOfType DEF Session
<1>3. BsFinalHandler(h) \in {cur, XmtTimerUpdate(fast)}
  BY DEF BsFinalHandler
<1> HIDE DEF agreed
<1>4. /\ t \in Session /\ t.my_discr = h.s.my_discr /\ t.state = h.s.state
      /\ t.remote_discr = h.s.remote_discr /\ t.shutdown = h.s.shutdown
      /\ t.sock = h.s.sock /\ t.recv = h.s.recv
  BY <1>1 DEF Session
<1> HIDE DEF t
<1>5. /\ u \in Session /\ u.my_discr = h.s.my_discr /\ u.state = h.s.state
      /\ u.remote_discr = h.s.remote_discr /\ u.shutdown = h.s.shutdown
      /\ u.sock = h.s.sock /\ u.recv = h.s.recv
  BY <1>2, <1>4 DEF Session
<1>6. cur \in Runs /\ cur.s = t
  BY <1>1, <1>4 DEF Runs
<1>7. fast = [cur EXCEPT !.s = u]
  BY <1>6 DEF Runs
<1> HIDE DEF u
<1>8. SessOK(t, d, K) /\ SessOK(u, d, K)
  BY <1>4, <1>5 DEF RunOK, SessOK
<1>9. RunOK(cur, d, K) /\ cur.note = h.note
  BY <1>8, SetSession, SMTT(30)
<1> HIDE DEF cur, fast
<1>10. RunOK(fast, d, K) /\ fast.s = u /\ fast.note = h.note
  BY <1>7, <1>8, <1>9, SetSession, SMTT(30)
<1>11. Same(h, cur) /\ Same(h, fast)
  BY <1>4, <1>5, <1>6, <1>9, <1>10 DEF Same
<1>12. /\ RunOK(XmtTimerUpdate(fast), d, K) /\ Same(fast, XmtTimerUpdate(fast))
       /\ XmtTimerUpdate(fast).s.recv = fast.s.recv
  BY <1>10, XmtTimerOK
<1>13. Same(h, XmtTimerUpdate(fast))
  BY <1>11, <1>12, SameTransitive
<1> QED
  BY <1>3, <1>4, <1>5, <1>6, <1>9, <1>10, <1>11, <1>12, <1>13

-----------------------------------------------------------------------------
(* Entry points *)

\* A handler starts with nothing sent and nothing said.
LEMMA StartRun ==
    ASSUME NEW d, NEW K, NEW s, SessOK(s, d, K)
    PROVE  RunOK(Run(s), d, K) /\ Run(s).s = s /\ Run(s).note = "NONE"
BY SMTT(30) DEF Run, RunOK, Runs, Notes, SessOK

\* Whether a timer may be armed depends on the configuration and the socket.
LEMMA SameArm == \A g, h : Kept(g, h) => CanArm(h.s) = CanArm(g.s)
BY DEF Kept, CanArm

\* The start and the end of a poll sequence change nothing else.
LEMMA PollEndOK ==
    ASSUME NEW d, NEW K, NEW h, RunOK(h, d, K), NEW b \in BOOLEAN
    PROVE  LET g == [h EXCEPT !.s.polling = b]
           IN  RunOK(g, d, K) /\ Same(h, g) /\ g.s.recv = h.s.recv
<1> DEFINE t == [h.s EXCEPT !.polling = b]
           g == [h EXCEPT !.s.polling = b]
<1>1. /\ t \in Session /\ t.my_discr = h.s.my_discr /\ t.state = h.s.state
      /\ t.remote_discr = h.s.remote_discr /\ t.shutdown = h.s.shutdown
      /\ t.sock = h.s.sock /\ t.recv = h.s.recv
  BY DEF RunOK, SessOK, Session
<1>2. g = [h EXCEPT !.s = t]
  BY DEF RunOK, Runs
<1> HIDE DEF t, g
<1>3. SessOK(t, d, K)
  BY <1>1 DEF RunOK, SessOK
<1>4. RunOK(g, d, K) /\ g.s = t /\ g.note = h.note
  BY <1>2, <1>3, SetSession, SMTT(30)
<1>5. Same(h, g) /\ g.s.recv = h.s.recv
  BY <1>1, <1>4 DEF Same
<1> QED
  BY <1>4, <1>5 DEF g

\* A new detection time changes nothing else.
LEMMA DetectOK ==
    ASSUME NEW d, NEW K, NEW h, RunOK(h, d, K), NEW n \in Nat
    PROVE  LET g == [h EXCEPT !.s.detect_TO = n]
           IN  RunOK(g, d, K) /\ Same(h, g)
<1> DEFINE t == [h.s EXCEPT !.detect_TO = n]
           g == [h EXCEPT !.s.detect_TO = n]
<1>1. /\ t \in Session /\ t.my_discr = h.s.my_discr /\ t.state = h.s.state
      /\ t.remote_discr = h.s.remote_discr /\ t.shutdown = h.s.shutdown
      /\ t.sock = h.s.sock
  BY DEF RunOK, SessOK, Session
<1>2. g = [h EXCEPT !.s = t]
  BY DEF RunOK, Runs
<1> HIDE DEF t, g
<1>3. SessOK(t, d, K)
  BY <1>1 DEF RunOK, SessOK
<1>4. RunOK(g, d, K) /\ g.s = t /\ g.note = h.note
  BY <1>2, <1>3, SetSession, SMTT(30)
<1>5. Same(h, g)
  BY <1>1, <1>4 DEF Same
<1> QED
  BY <1>4, <1>5 DEF g

\* What a packet does to a session.
Received(s, pkt, h, d, K) ==
    /\ RunOK(h, d, K \union {pkt.mine})
    /\ Told(Run(s), h)
    /\ Kept(Run(s), h)
    /\ h.s.recv = CanArm(s)
    /\ h.s.state = "UP" => /\ h.s.remote_discr = pkt.mine
                           /\ s.state = "UP" \/ pkt.state \in Rising

\* bfd_recv_cb learns the discriminator of the sender, and leaves the detection
\* timer armed unless the session may not have one.
LEMMA RecvOK ==
    ASSUME NEW d, NEW K, NEW s, SessOK(s, d, K), NEW pkt \in Packets,
           NEW mult \in Nat
    PROVE  Received(s, pkt, BfdRecv(s, pkt, mult), d, K)
<1> DEFINE L == K \union {pkt.mine}
           t == [s EXCEPT !.remote_discr = pkt.mine,
                          !.rem_tx = pkt.tx, !.rem_rx = pkt.rx]
           learned  == Run(t)
           switched == BsStateHandler(learned, pkt.state)
           ended    == [switched EXCEPT !.s.polling = FALSE]
           finished == IF switched.s.polling /\ pkt.final
                       THEN BsFinalHandler(ended) ELSE switched
           time     == DetectTO(finished.s, mult)
           timed    == [finished EXCEPT !.s.detect_TO = time]
           detected == RecvTimerUpdate(timed)
           answered == BsFinalHandler(detected)
           last     == PtmBfdSnd(answered, TRUE)
           Fine(g)  == /\ RunOK(g, d, L) /\ Told(Run(s), g) /\ Kept(Run(s), g)
                       /\ Risen(learned, g, pkt.state)
<1>1. BfdRecv(s, pkt, mult) = IF pkt.poll THEN last ELSE detected
  BY DEF BfdRecv
<1>2. /\ t \in Session /\ t.my_discr = s.my_discr /\ t.state = s.state
      /\ t.remote_discr = pkt.mine /\ t.shutdown = s.shutdown
      /\ t.sock = s.sock /\ pkt.mine # 0
  <2>1. /\ pkt.mine \in 0..MaxRestarts /\ pkt.mine # 0
        /\ pkt.tx \in Nat /\ pkt.rx \in Nat
    BY BfdAssumption, SMTT(30) DEF Packets
  <2>2. s \in Session
    BY DEF SessOK
  <2> QED
    BY <2>1, <2>2 DEF Session
<1> HIDE DEF t
<1>3. SessOK(t, d, L)
  BY <1>2 DEF SessOK
<1>4. RunOK(learned, d, L) /\ learned.s = t /\ learned.note = "NONE"
  BY <1>3, StartRun, SMTT(30)
<1>5. Run(s).s = s /\ Run(s).note = "NONE"
  BY DEF Run
<1> HIDE DEF learned
<1>6. Fine(learned)
  BY <1>2, <1>4, <1>5 DEF Told, ToldUp, ToldDown, Kept, Risen
<1>7. \A g, h : Same(g, h) /\ Risen(learned, g, pkt.state)
                 => Risen(learned, h, pkt.state)
  BY DEF Same, Risen
<1>8. \A g, h : Fine(g) /\ RunOK(h, d, L) /\ Same(g, h) => Fine(h)
  BY <1>7, SameToldKept, ToldTransitive, KeptTransitive
<1>9. /\ RunOK(switched, d, L) /\ Told(learned, switched)
      /\ Kept(learned, switched) /\ Risen(learned, switched, pkt.state)
  BY <1>2, <1>4, StateHandlerOK
<1>10. Fine(switched)
  BY <1>6, <1>9, ToldTransitive, KeptTransitive
<1> HIDE DEF switched
<1>11. RunOK(ended, d, L) /\ Same(switched, ended)
  BY <1>9, PollEndOK
<1>12. Fine(ended)
  BY <1>8, <1>10, <1>11
<1> HIDE DEF ended
<1>13. Fine(BsFinalHandler(ended))
  BY <1>8, <1>11, <1>12, FinalHandlerOK
<1>14. Fine(finished)
  BY <1>10, <1>13
<1> HIDE DEF finished
<1>15. time \in Nat
  <2>1. finished.s.cur_rx \in Nat /\ finished.s.rem_tx \in Nat
    BY <1>14 DEF RunOK, SessOK, Session
  <2>2. MaxOf(finished.s.cur_rx, finished.s.rem_tx) \in Nat
    BY <2>1, MaxOfType
  <2> QED
    BY <2>2, SMTT(30) DEF DetectTO
<1> HIDE DEF time
<1>16. RunOK(timed, d, L) /\ Same(finished, timed)
  BY <1>14, <1>15, DetectOK
<1>17. Fine(timed)
  BY <1>8, <1>14, <1>16
<1> HIDE DEF timed
<1>18. RunOK(detected, d, L) /\ Same(timed, detected)
       /\ detected.s.recv = CanArm(timed.s)
  BY <1>17, RecvTimerOK
<1>19. Fine(detected)
  BY <1>8, <1>17, <1>18
<1>20. CanArm(timed.s) = CanArm(s)
  BY <1>5, <1>17, SameArm
<1> HIDE DEF detected
<1>21. RunOK(answered, d, L) /\ Same(detected, answered)
       /\ answered.s.recv = detected.s.recv
  BY <1>18, FinalHandlerOK
<1>22. Fine(answered)
  BY <1>8, <1>19, <1>21
<1> HIDE DEF answered
<1>23. RunOK(last, d, L) /\ last.s = answered.s /\ last.note = answered.note
  <2>1. RunOK(answered, d, L)
    BY <1>21
  <2> HIDE DEF L
  <2>2. Sent(answered, last, d, L)
    BY <2>1, SndPlain
  <2> HIDE DEF last
  <2> QED
    BY <2>2 DEF Sent
<1> HIDE DEF last
<1>24. Fine(last)
  <2>1. Same(answered, last)
    BY <1>23 DEF Same
  <2> QED
    BY <1>8, <1>22, <1>23, <2>1
<1>25. last.s.recv = CanArm(s) /\ detected.s.recv = CanArm(s)
  BY <1>18, <1>20, <1>21, <1>23
<1> HIDE DEF Fine
<1>26. Fine(BfdRecv(s, pkt, mult)) /\ BfdRecv(s, pkt, mult).s.recv = CanArm(s)
  BY <1>1, <1>19, <1>24, <1>25
<1> QED
  BY <1>2, <1>4, <1>26 DEF Fine, Risen, Received

\* bfd_xmt_cb sends and arms its timer again.
LEMMA XmtOK ==
    ASSUME NEW d, NEW K, NEW s, SessOK(s, d, K)
    PROVE  /\ RunOK(BfdXmt(s), d, K)
           /\ Same(Run(s), BfdXmt(s))
           /\ BfdXmt(s).s.recv = s.recv
<1> DEFINE t == [s EXCEPT !.xmt = FALSE]
           g == Run(t)
<1>1. s \in Session /\ Run(s).s = s /\ Run(s).note = "NONE"
  BY DEF SessOK, Run
<1>2. t \in Session
  BY <1>1, FieldTypes
<1>3. /\ t.my_discr = s.my_discr /\ t.state = s.state /\ t.sock = s.sock
      /\ t.remote_discr = s.remote_discr /\ t.shutdown = s.shutdown
      /\ t.recv = s.recv
  BY <1>1 DEF Session
<1>4. BfdXmt(s) = PtmBfdXmtTO(g, FALSE)
  BY DEF BfdXmt
<1> HIDE DEF t
<1>5. SessOK(t, d, K)
  BY <1>2, <1>3 DEF SessOK
<1>6. RunOK(g, d, K) /\ g.s = t /\ g.note = "NONE"
  BY <1>5, StartRun
<1> HIDE DEF g
<1>7. Same(Run(s), g) /\ g.s.recv = s.recv
  BY <1>1, <1>3, <1>6 DEF Same
<1>8. RunOK(BfdXmt(s), d, K) /\ Same(g, BfdXmt(s)) /\ BfdXmt(s).s.recv = g.s.recv
  <2>1. RunOK(g, d, K) /\ FALSE \in BOOLEAN
    BY <1>6
  <2> QED
    BY <1>4, <2>1, XmtTOOK
<1> QED
  BY <1>7, <1>8, SameTransitive

\* bfd_recvtimer_cb leaves no session up.
LEMMA RecvTimerCbOK ==
    ASSUME NEW d, NEW K, NEW s, SessOK(s, d, K)
    PROVE  /\ RunOK(BfdRecvTimer(s), d, K)
           /\ Told(Run(s), BfdRecvTimer(s))
           /\ Kept(Run(s), BfdRecvTimer(s))
           /\ BfdRecvTimer(s).s.state # "UP"
<1> DEFINE t == [s EXCEPT !.recv = FALSE]
           g == Run(t)
<1>1. s \in Session /\ Run(s).s = s /\ Run(s).note = "NONE"
  BY DEF SessOK, Run
<1>2. t \in Session
  BY <1>1, FieldTypes
<1>3. /\ t.my_discr = s.my_discr /\ t.state = s.state /\ t.sock = s.sock
      /\ t.remote_discr = s.remote_discr /\ t.shutdown = s.shutdown
  BY <1>1 DEF Session
<1>4. BfdRecvTimer(s) = IF s.state \in {"INIT", "UP"} THEN PtmBfdSessDn(g) ELSE g
  BY DEF BfdRecvTimer
<1> HIDE DEF t
<1>5. SessOK(t, d, K)
  BY <1>2, <1>3 DEF SessOK
<1>6. RunOK(g, d, K) /\ g.s = t /\ g.note = "NONE"
  BY <1>5, StartRun
<1> HIDE DEF g
<1>7. Told(Run(s), g) /\ Kept(Run(s), g) /\ g.s.state = s.state
  BY <1>1, <1>3, <1>6 DEF Told, ToldUp, ToldDown, Kept
<1>8. /\ RunOK(PtmBfdSessDn(g), d, K) /\ Told(g, PtmBfdSessDn(g))
      /\ PtmBfdSessDn(g).s.state = "DOWN"
      /\ PtmBfdSessDn(g).s.shutdown = g.s.shutdown
      /\ PtmBfdSessDn(g).s.sock = g.s.sock
  BY <1>6, SessDnOK
<1>9. Told(Run(s), PtmBfdSessDn(g))
  BY <1>7, <1>8, ToldTransitive
<1>10. CASE s.state \in {"INIT", "UP"}
  <2>1. Kept(Run(s), PtmBfdSessDn(g))
    BY <1>1, <1>3, <1>6, <1>8, <1>10 DEF Kept
  <2> QED
    BY <1>4, <1>8, <1>9, <1>10, <2>1
<1>11. CASE s.state \notin {"INIT", "UP"}
  BY <1>4, <1>6, <1>7, <1>11
<1> QED
  BY <1>10, <1>11

\* bfd_set_passive_mode does not touch the timers of a session that is up.
LEMMA SetPassiveOK ==
    ASSUME NEW d, NEW K, NEW h, RunOK(h, d, K), NEW b \in BOOLEAN
    PROVE  /\ RunOK(BfdSetPassiveMode(h, b), d, K)
           /\ Same(h, BfdSetPassiveMode(h, b))
           /\ h.s.state = "UP" => BfdSetPassiveMode(h, b).s.recv = h.s.recv
<1> DEFINE t == [h.s EXCEPT !.passive = b]
           g == [h EXCEPT !.s.passive = b]
<1>1. /\ t \in Session /\ t.my_discr = h.s.my_discr /\ t.state = h.s.state
      /\ t.remote_discr = h.s.remote_discr /\ t.shutdown = h.s.shutdown
      /\ t.sock = h.s.sock /\ t.recv = h.s.recv
  BY DEF RunOK, SessOK, Session
<1>2. g = [h EXCEPT !.s = t]
  BY DEF RunOK, Runs
<1>3. h.s.state # "DOWN" => BfdSetPassiveMode(h, b) = g
  BY DEF BfdSetPassiveMode
<1>4. h.s.state = "DOWN" => BfdSetPassiveMode(h, b) \in {StopTimers(g), StartTimers(g)}
  BY DEF BfdSetPassiveMode
<1> HIDE DEF t, g
<1>5. SessOK(t, d, K)
  BY <1>1 DEF RunOK, SessOK
<1>6. RunOK(g, d, K) /\ g.s = t /\ g.note = h.note
  BY <1>2, <1>5, SetSession, SMTT(30)
<1>7. Same(h, g) /\ g.s.recv = h.s.recv
  BY <1>1, <1>6 DEF Same
<1>8. RunOK(StopTimers(g), d, K) /\ Same(h, StopTimers(g))
  BY <1>6, <1>7, StopTimersOK, SameTransitive
<1>9. RunOK(StartTimers(g), d, K) /\ Same(h, StartTimers(g))
  BY <1>6, <1>7, StartTimersOK, SameTransitive
<1>10. CASE h.s.state # "DOWN"
  BY <1>3, <1>6, <1>7, <1>10
<1>11. CASE h.s.state = "DOWN"
  BY <1>4, <1>8, <1>9, <1>11
<1> QED
  BY <1>10, <1>11

\* A session that is shut down is in ADM_DOWN, and no other is.
Administered(s) == s.shutdown <=> s.state = "ADM_DOWN"

\* bfd_set_shutdown tells the clients of every change of state that it makes.
LEMMA SetShutdownOK ==
    ASSUME NEW d, NEW K, NEW h, RunOK(h, d, K), NEW b \in BOOLEAN
    PROVE  LET r == BfdSetShutdown(h, b)
           IN  /\ RunOK(r, d, K) /\ Told(h, r) /\ r.s.sock = h.s.sock
               /\ Administered(h.s) => Administered(r.s)
               /\ r.s.state = "UP" => r = h
<1> DEFINE t == [h.s EXCEPT !.shutdown = TRUE, !.state = "ADM_DOWN"]
           u == [h.s EXCEPT !.shutdown = FALSE, !.state = "DOWN"]
           shut == [h EXCEPT !.s = t]
           off  == StopTimers(shut)
           gone == PtmBfdNotify(off, "ADM_DOWN")
           sent == PtmBfdSnd(gone, FALSE)
           on   == [h EXCEPT !.s = u]
           told == PtmBfdNotify(on, "DOWN")
           Fine(r) == /\ RunOK(r, d, K) /\ Told(h, r) /\ r.s.sock = h.s.sock
                      /\ Administered(h.s) => Administered(r.s)
                      /\ r.s.state = "UP" => r = h
<1>1. BfdSetShutdown(h, b) \in {h, sent, StopTimers(told), StartTimers(told)}
  <2> DEFINE is == h.s.state # "UP" /\ h.s.shutdown
  <2>1. CASE b = is
    BY <2>1 DEF BfdSetShutdown
  <2>2. CASE b # is /\ b
    BY <2>2 DEF BfdSetShutdown
  <2>3. CASE b # is /\ ~b
    BY <2>3 DEF BfdSetShutdown
  <2> QED
    BY <2>1, <2>2, <2>3
<1>2. /\ SessOK(t, d, K) /\ t.state = "ADM_DOWN" /\ t.sock = h.s.sock
      /\ t.shutdown = TRUE
  <2>1. h.s \in Session
    BY DEF RunOK, SessOK
  <2>2. [h.s EXCEPT !.shutdown = TRUE] \in Session
    BY <2>1, FieldTypes
  <2>3. t \in Session
    BY <2>2, FieldTypes, States4
  <2>4. /\ t.my_discr = h.s.my_discr /\ t.remote_discr = h.s.remote_discr
        /\ t.state = "ADM_DOWN" /\ t.sock = h.s.sock /\ t.shutdown = TRUE
    BY <2>1 DEF Session
  <2> HIDE DEF t
  <2> QED
    BY <2>3, <2>4 DEF RunOK, SessOK, Rising
<1>3. /\ SessOK(u, d, K) /\ u.state = "DOWN" /\ u.sock = h.s.sock
      /\ u.shutdown = FALSE
  <2>1. h.s \in Session
    BY DEF RunOK, SessOK
  <2>2. [h.s EXCEPT !.shutdown = FALSE] \in Session
    BY <2>1, FieldTypes
  <2>3. u \in Session
    BY <2>2, FieldTypes, States4
  <2>4. /\ u.my_discr = h.s.my_discr /\ u.remote_discr = h.s.remote_discr
        /\ u.state = "DOWN" /\ u.sock = h.s.sock /\ u.shutdown = FALSE
    BY <2>1 DEF Session
  <2> HIDE DEF u
  <2> QED
    BY <2>3, <2>4 DEF RunOK, SessOK, Rising
<1> HIDE DEF t, u
<1>4. RunOK(shut, d, K) /\ shut.s = t /\ RunOK(on, d, K) /\ on.s = u
  BY <1>2, <1>3, SetSession, SMTT(30)
<1> HIDE DEF shut, on
<1>5. RunOK(off, d, K) /\ Same(shut, off)
  BY <1>4, StopTimersOK
<1> HIDE DEF off
<1>6. RunOK(gone, d, K) /\ gone.s = off.s /\ gone.note \in {"DOWN", "ADM_DOWN"}
  BY <1>5, NotifyDown, SMTT(30)
<1> HIDE DEF gone
<1>7. RunOK(sent, d, K) /\ sent.s = gone.s /\ sent.note = gone.note
  <2>1. Sent(gone, sent, d, K)
    BY <1>6, SndPlain
  <2> HIDE DEF sent
  <2> QED
    BY <2>1 DEF Sent
<1> HIDE DEF sent
<1>8. Fine(sent)
  BY <1>2, <1>4, <1>5, <1>6, <1>7
  DEF Same, Told, ToldUp, ToldDown, Administered
<1>9. RunOK(told, d, K) /\ told.s = on.s /\ told.note \in {"DOWN", "ADM_DOWN"}
  BY <1>4, NotifyDown, SMTT(30)
<1> HIDE DEF told
<1>10. \A r : RunOK(r, d, K) /\ Same(told, r) => Fine(r)
  BY <1>3, <1>4, <1>9 DEF Same, Told, ToldUp, ToldDown, Administered
<1>11. Fine(h)
  BY DEF Told, ToldUp, ToldDown
<1>12. Fine(StopTimers(told)) /\ Fine(StartTimers(told))
  BY <1>9, <1>10, StopTimersOK, StartTimersOK
<1> HIDE DEF Fine
<1>13. Fine(BfdSetShutdown(h, b))
  BY <1>1, <1>8, <1>11, <1>12
<1> QED
  BY <1>13 DEF Fine

CfgOK(cfg) ==
    cfg.tx \in Nat /\ cfg.rx \in Nat /\ cfg.passive \in BOOLEAN
    /\ cfg.shutdown \in BOOLEAN

\* bfd_session_apply takes no session up, and leaves the timers of one that
\* stays up alone.
LEMMA ApplyOK ==
    ASSUME NEW d, NEW K, NEW s, SessOK(s, d, K), NEW cfg, CfgOK(cfg)
    PROVE  LET r == BfdSessionApply(s, cfg)
           IN  /\ RunOK(r, d, K) /\ Told(Run(s), r) /\ r.s.sock = s.sock
               /\ Administered(s) => Administered(r.s)
               /\ r.s.state = "UP" => /\ s.state = "UP" /\ r.s.recv = s.recv
                                       /\ r.s.remote_discr = s.remote_discr
<1> DEFINE t == [s EXCEPT !.tx = cfg.tx, !.rx = cfg.rx]
           g == Run(t)
           m == BfdSetPassiveMode(g, cfg.passive)
           h == BfdSetShutdown(m, cfg.shutdown)
           polls == [h EXCEPT !.s.polling = TRUE]
           Fine(r) == /\ RunOK(r, d, K) /\ Told(Run(s), r) /\ r.s.sock = s.sock
                      /\ Administered(s) => Administered(r.s)
                      /\ r.s.state = "UP" => /\ s.state = "UP" /\ r.s.recv = s.recv
                                       /\ r.s.remote_discr = s.remote_discr
<1>1. BfdSessionApply(s, cfg) \in {h, polls}
  BY DEF BfdSessionApply
<1>2. s \in Session /\ Run(s).s = s /\ Run(s).note = "NONE"
  BY DEF SessOK, Run
<1>3. /\ t \in Session /\ t.my_discr = s.my_discr /\ t.state = s.state
      /\ t.remote_discr = s.remote_discr /\ t.shutdown = s.shutdown
      /\ t.sock = s.sock /\ t.recv = s.recv
  BY <1>2 DEF CfgOK, Session
<1> HIDE DEF t
<1>4. SessOK(t, d, K)
  BY <1>3 DEF SessOK
<1>5. RunOK(g, d, K) /\ g.s = t /\ g.note = "NONE"
  BY <1>4, StartRun
<1> HIDE DEF g
<1>6. /\ RunOK(m, d, K) /\ Same(g, m)
      /\ g.s.state = "UP" => m.s.recv = g.s.recv
  BY <1>5, SetPassiveOK, SMTT(30) DEF CfgOK
<1> HIDE DEF m
<1>7. Fine(m)
  BY <1>2, <1>3, <1>5, <1>6 DEF Same, Told, ToldUp, ToldDown, Administered
<1>8. /\ RunOK(h, d, K) /\ Told(m, h) /\ h.s.sock = m.s.sock
      /\ Administered(m.s) => Administered(h.s)
      /\ h.s.state = "UP" => h = m
  BY <1>6, SetShutdownOK DEF CfgOK
<1> HIDE DEF h
<1>9. Told(Run(s), h)
  BY <1>7, <1>8, ToldTransitive
<1>10. Fine(h)
  BY <1>7, <1>8, <1>9
<1>11. RunOK(polls, d, K) /\ Same(h, polls) /\ polls.s.recv = h.s.recv
  <2> DEFINE on == TRUE
             q == [h EXCEPT !.s.polling = on]
  <2>1. on \in BOOLEAN
    OBVIOUS
  <2> HIDE DEF on
  <2>2. RunOK(q, d, K) /\ Same(h, q) /\ q.s.recv = h.s.recv
    BY <1>8, <2>1, PollEndOK, SMTT(30)
  <2> QED
    BY <2>2 DEF on
<1> HIDE DEF polls
<1>12. Fine(polls)
  <2>1. Told(Run(s), polls)
    BY <1>9, <1>11, SameToldKept, ToldTransitive
  <2> QED
    BY <1>10, <1>11, <2>1 DEF Same, Administered
<1> HIDE DEF Fine
<1>13. Fine(BfdSessionApply(s, cfg))
  BY <1>1, <1>10, <1>12
<1> QED
  BY <1>13 DEF Fine

\* bfd_session_enable opens the socket and starts the timers.
LEMMA EnableOK ==
    ASSUME NEW d, NEW K, NEW s, SessOK(s, d, K)
    PROVE  LET r == BfdSessionEnable(s)
           IN  /\ RunOK(r, d, K) /\ Told(Run(s), r) /\ r.s.sock
               /\ r.s.state = s.state /\ r.s.remote_discr = s.remote_discr
               /\ r.s.shutdown = s.shutdown
<1> DEFINE t == [s EXCEPT !.sock = TRUE]
           g == Run(t)
<1>1. BfdSessionEnable(s) \in {g, StartTimers(g)}
  BY DEF BfdSessionEnable
<1>2. s \in Session /\ Run(s).s = s /\ Run(s).note = "NONE"
  BY DEF SessOK, Run
<1>3. t \in Session
  BY <1>2, FieldTypes
<1>4. /\ t.my_discr = s.my_discr /\ t.state = s.state /\ t.sock = TRUE
      /\ t.remote_discr = s.remote_discr /\ t.shutdown = s.shutdown
  BY <1>2 DEF Session
<1> HIDE DEF t
<1>5. SessOK(t, d, K)
  BY <1>3, <1>4 DEF SessOK
<1>6. RunOK(g, d, K) /\ g.s = t /\ g.note = "NONE"
  BY <1>5, StartRun
<1> HIDE DEF g
<1>7. /\ Told(Run(s), g) /\ g.s.sock /\ g.s.state = s.state
      /\ g.s.remote_discr = s.remote_discr /\ g.s.shutdown = s.shutdown
  BY <1>2, <1>4, <1>6 DEF Told, ToldUp, ToldDown
<1>8. RunOK(StartTimers(g), d, K) /\ Same(g, StartTimers(g))
  BY <1>6, StartTimersOK
<1>9. Told(Run(s), StartTimers(g))
  BY <1>7, <1>8, SameToldKept, ToldTransitive
<1> QED
  BY <1>1, <1>6, <1>7, <1>8, <1>9 DEF Same

\* bfd_session_disable tells the clients of a session that was up.
LEMMA DisableOK ==
    ASSUME NEW d, NEW K, NEW s, SessOK(s, d, K)
    PROVE  /\ RunOK(BfdSessionDisable(s), d, K)
           /\ Told(Run(s), BfdSessionDisable(s))
           /\ BfdSessionDisable(s).s.state = "DOWN"
<1> DEFINE t == [s EXCEPT !.sock = FALSE]
           g == Run(t)
           h == StopTimers(g)
<1>1. BfdSessionDisable(s) = PtmBfdSessDn(h)
  BY DEF BfdSessionDisable
<1>2. s \in Session /\ Run(s).s = s /\ Run(s).note = "NONE"
  BY DEF SessOK, Run
<1>3. t \in Session
  BY <1>2, FieldTypes
<1>4. /\ t.my_discr = s.my_discr /\ t.state = s.state
      /\ t.remote_discr = s.remote_discr
  BY <1>2 DEF Session
<1> HIDE DEF t
<1>5. SessOK(t, d, K)
  BY <1>3, <1>4 DEF SessOK
<1>6. RunOK(g, d, K) /\ g.s = t /\ g.note = "NONE"
  BY <1>5, StartRun
<1> HIDE DEF g
<1>7. Told(Run(s), g)
  BY <1>2, <1>4, <1>6 DEF Told, ToldUp, ToldDown
<1>8. RunOK(h, d, K) /\ Same(g, h)
  BY <1>6, StopTimersOK
<1> HIDE DEF h
<1>9. /\ RunOK(PtmBfdSessDn(h), d, K) /\ Told(h, PtmBfdSessDn(h))
      /\ PtmBfdSessDn(h).s.state = "DOWN"
  BY <1>8, SessDnOK
<1> QED
  BY <1>1, <1>7, <1>8, <1>9, SameToldKept, ToldTransitive

\* A session that _ptm_bfd_session_del took down is down; clients hear nothing.
LEMMA SessionDelOK ==
    ASSUME NEW d, NEW K, NEW s, SessOK(s, d, K)
    PROVE  /\ RunOK(PtmBfdSessionDel(s), d, K)
           /\ PtmBfdSessionDel(s).s.state = "DOWN"
<1> DEFINE t == [s EXCEPT !.state = "DOWN"]
           g == Run(t)
<1>1. PtmBfdSessionDel(s) = PtmBfdSnd(g, FALSE)
  BY DEF PtmBfdSessionDel
<1>2. /\ t \in Session /\ t.my_discr = s.my_discr /\ t.state = "DOWN"
      /\ t.remote_discr = s.remote_discr
  BY States4 DEF SessOK, Session
<1> HIDE DEF t
<1>3. SessOK(t, d, K)
  BY <1>2 DEF SessOK, Rising
<1>4. RunOK(g, d, K) /\ g.s = t
  BY <1>3, StartRun
<1> HIDE DEF g
<1>5. RunOK(PtmBfdSnd(g, FALSE), d, K) /\ PtmBfdSnd(g, FALSE).s = g.s
  <2>1. Sent(g, PtmBfdSnd(g, FALSE), d, K)
    BY <1>4, SndPlain
  <2> QED
    BY <2>1 DEF Sent
<1> QED
  BY <1>1, <1>2, <1>4, <1>5

\* A new session is enabled, follows its configuration and is not up.
LEMMA SessionNewOK ==
    ASSUME NEW K, NEW d \in 1..MaxRestarts, NEW cfg, CfgOK(cfg)
    PROVE  LET r == BfdSessionNew(d, cfg)
           IN  /\ RunOK(r, d, K) /\ r.s.state # "UP" /\ r.s.sock
               /\ Administered(r.s)
<1> DEFINE detect == DefMult * Slow
           off == FALSE
<1>1. /\ detect \in Nat /\ Slow \in Nat /\ off \in BOOLEAN
      /\ 0 \in 0..MaxRestarts /\ "DOWN" \in States
  BY SlowType, RestartsType, States4
<1> DEFINE fresh == [state |-> "DOWN", my_discr |-> d, remote_discr |-> 0,
                     polling |-> off, passive |-> off, shutdown |-> off,
                     sock |-> off, xmt |-> off, recv |-> off,
                     tx |-> cfg.tx, rx |-> cfg.rx,
                     cur_tx |-> Slow, cur_rx |-> Slow,
                     rem_tx |-> Slow, rem_rx |-> Slow,
                     xmt_TO |-> Slow, detect_TO |-> detect]
           open == BfdSessionEnable(fresh)
<1>2. BfdSessionNew(d, cfg) = BfdSessionApply(open.s, cfg)
  BY DEF BfdSessionNew
<1>3. ~off
  OBVIOUS
<1> HIDE DEF detect, off
<1>4. /\ fresh \in Session /\ fresh.my_discr = d /\ fresh.state = "DOWN"
      /\ fresh.remote_discr = 0 /\ fresh.shutdown = off
  BY <1>1 DEF Session, CfgOK
<1> HIDE DEF fresh
<1>5. SessOK(fresh, d, K)
  BY <1>4 DEF SessOK, Rising
<1>6. /\ RunOK(open, d, K) /\ open.s.sock /\ open.s.state = "DOWN"
      /\ open.s.shutdown = off
  BY <1>4, <1>5, EnableOK, SMTT(30)
<1> HIDE DEF open
<1>7. SessOK(open.s, d, K) /\ Administered(open.s)
  BY <1>3, <1>6 DEF RunOK, Administered
<1> QED
  BY <1>2, <1>6, <1>7, ApplyOK, SMTT(30)
=============================================================================
