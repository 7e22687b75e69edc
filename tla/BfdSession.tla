----------------------------- MODULE BfdSession -----------------------------
(***************************************************************************)
(* One BFD session of bfdd (bfd.c, bfd_packet.c, event.c) as the functions *)
(* its handlers compute.  A session is a record; a handler maps a "run"    *)
(*                                                                         *)
(*     [s |-> session, out |-> control packets sent, note |-> client note] *)
(*                                                                         *)
(* to the run it leaves behind, so that the calls of the C code compose as *)
(* they do there.  Bfd puts two sessions and a network around them.        *)
(*                                                                         *)
(* A session here is an asynchronous-mode session without echo, without    *)
(* authentication and without a hardware data plane (bs->bdc is NULL).     *)
(***************************************************************************)
EXTENDS Integers, Sequences

CONSTANTS
    Slow,      \* BFD_DEF_SLOWTX
    DefMult    \* BFD_DEFDETECTMULT

ASSUME SlowAssumption == Slow \in Nat \ {0} /\ DefMult \in Nat \ {0}

States == {"ADM_DOWN", "DOWN", "INIT", "UP"}

\* What clients are told, "NONE" when a handler does not notify them.
Notes == {"NONE", "ADM_DOWN", "DOWN", "UP"}

MaxOf(a, b) == IF a > b THEN a ELSE b

Run(s) == [s |-> s, out |-> <<>>, note |-> "NONE"]

-----------------------------------------------------------------------------
(* Timers: armed or not.  A deactivated peer and a session without socket  *)
(* never arm one.                                                          *)

CanArm(s) == ~s.shutdown /\ s.sock

XmtTimerUpdate(h) == [h EXCEPT !.s.xmt = CanArm(h.s)]
RecvTimerUpdate(h) == [h EXCEPT !.s.recv = CanArm(h.s)]
StartTimers(h) == XmtTimerUpdate(RecvTimerUpdate(h))
StopTimers(h) == [h EXCEPT !.s = [@ EXCEPT !.xmt = FALSE, !.recv = FALSE]]

-----------------------------------------------------------------------------
(* Output *)

\* Seeded fault: a session that polls never answers a poll.
ControlPacket_PollNotFinal(s, fbit) ==
    [mine  |-> s.my_discr,
     yours |-> s.remote_discr,
     state |-> s.state,
     poll  |-> s.polling,
     final |-> fbit /\ ~s.polling,
     tx    |-> IF s.polling THEN s.tx ELSE s.cur_tx,
     rx    |-> IF s.polling THEN s.rx ELSE s.cur_rx]

ControlPacket(s, fbit) ==
    [mine  |-> s.my_discr,
     yours |-> s.remote_discr,
     state |-> s.state,
     poll  |-> s.polling /\ ~fbit,
     final |-> fbit,
     tx    |-> IF s.polling THEN s.tx ELSE s.cur_tx,
     rx    |-> IF s.polling THEN s.rx ELSE s.cur_rx]

\* A passive session that has not heard its peer stays silent.
PtmBfdSnd(h, fbit) ==
    IF ~h.s.sock \/ (h.s.passive /\ h.s.remote_discr = 0)
    THEN h
    ELSE [h EXCEPT !.out = Append(@, ControlPacket(h.s, fbit))]

PtmBfdXmtTO(h, fbit) == XmtTimerUpdate(PtmBfdSnd(h, fbit))

\* Seeded fault: the state of the session is passed on as it is.
NoteFor_RawState(s, state) == state

\* Clients are told UP, DOWN or ADM_DOWN; INIT is DOWN to them.
NoteFor(s, state) ==
    CASE state \in {"UP", "ADM_DOWN"} -> state
      [] OTHER -> IF s.shutdown THEN "ADM_DOWN" ELSE "DOWN"

PtmBfdNotify(h, state) == [h EXCEPT !.note = NoteFor(h.s, state)]

-----------------------------------------------------------------------------
(* The state machine *)

BsSetSlowTimers(h) ==
    [h EXCEPT !.s = [@ EXCEPT !.cur_tx = Slow,
                              !.cur_rx = Slow,
                              !.xmt_TO = Slow,
                              !.detect_TO = DefMult * Slow]]

\* Seeded fault: clients are not told that the session is up.
PtmBfdSessUp_Silent(h) ==
    LET up == [h EXCEPT !.s = [@ EXCEPT !.state = "UP", !.polling = TRUE]]
    IN  PtmBfdSnd(up, FALSE)

PtmBfdSessUp(h) ==
    LET up == [h EXCEPT !.s = [@ EXCEPT !.state = "UP", !.polling = TRUE]]
    IN  PtmBfdNotify(PtmBfdSnd(up, FALSE), "UP")

\* Seeded fault: only a passive session tells its clients that it went down.
PtmBfdSessDn_Silent(h) ==
    LET down == [h EXCEPT !.s = [@ EXCEPT !.state = "DOWN",
                                          !.remote_discr = 0,
                                          !.polling = FALSE]]
        slow == BsSetSlowTimers(PtmBfdSnd(down, FALSE))
    IN  IF h.s.passive THEN StopTimers(PtmBfdNotify(slow, "DOWN")) ELSE slow

\* Clients hear of a session only when it leaves UP.
PtmBfdSessDn(h) ==
    LET down == [h EXCEPT !.s = [@ EXCEPT !.state = "DOWN",
                                          !.remote_discr = 0,
                                          !.polling = FALSE]]
        slow == BsSetSlowTimers(PtmBfdSnd(down, FALSE))
        told == IF h.s.state = "UP" THEN PtmBfdNotify(slow, "DOWN") ELSE slow
    IN  IF h.s.passive THEN StopTimers(told) ELSE told

\* Seeded fault: a session that hears its peer is up without INIT.
BsDownHandler_SkipsInit(h, nstate) ==
    IF nstate \in {"DOWN", "INIT"} THEN PtmBfdSessUp(h) ELSE h

BsDownHandler(h, nstate) ==
    LET init == [h EXCEPT !.s.state = "INIT"]
    IN  CASE nstate = "DOWN" -> IF h.s.passive THEN PtmBfdXmtTO(init, FALSE)
                                               ELSE init
          [] nstate = "INIT" -> PtmBfdSessUp(h)
          [] OTHER -> h

\* Seeded fault: only a peer in INIT takes a session up.
BsInitHandler_IgnoresUp(h, nstate) ==
    CASE nstate = "ADM_DOWN" -> PtmBfdSessDn(h)
      [] nstate = "INIT" -> PtmBfdSessUp(h)
      [] OTHER -> h

BsInitHandler(h, nstate) ==
    CASE nstate = "ADM_DOWN" -> PtmBfdSessDn(h)
      [] nstate \in {"INIT", "UP"} -> PtmBfdSessUp(h)
      [] OTHER -> h

BsUpHandler(h, nstate) ==
    IF nstate \in {"ADM_DOWN", "DOWN"} THEN PtmBfdSessDn(h) ELSE h

\* Seeded fault: an administratively down session is handled as a down one.
BsStateHandler_AdminAsDown(h, nstate) ==
    CASE h.s.state = "INIT" -> BsInitHandler(h, nstate)
      [] h.s.state = "UP"   -> BsUpHandler(h, nstate)
      [] OTHER -> BsDownHandler(h, nstate)

\* An administratively down session ignores the state of its peer.
BsStateHandler(h, nstate) ==
    CASE h.s.state = "DOWN" -> BsDownHandler(h, nstate)
      [] h.s.state = "INIT" -> BsInitHandler(h, nstate)
      [] h.s.state = "UP"   -> BsUpHandler(h, nstate)
      [] OTHER -> h

\* Seeded fault: the transmission rate is left as it is.
BsFinalHandler_KeepsRate(h) ==
    [h EXCEPT !.s = [@ EXCEPT !.cur_tx = h.s.tx, !.cur_rx = h.s.rx]]

\* The configured timers become current.  A session that is up never slows
\* its transmission down here.
BsFinalHandler(h) ==
    LET agreed == MaxOf(h.s.tx, h.s.rem_rx)
        cur == [h EXCEPT !.s = [@ EXCEPT !.cur_tx = h.s.tx, !.cur_rx = h.s.rx]]
    IN  IF h.s.state = "UP" /\ agreed > h.s.xmt_TO
        THEN cur
        ELSE XmtTimerUpdate([cur EXCEPT !.s.xmt_TO = agreed])

-----------------------------------------------------------------------------
(* Input *)

\* The checks of bfd_recv_cb that depend on the session: a packet that names a
\* session must name this one, one that names none cannot override a session
\* that is coming up or up.
Accepts(s, pkt) ==
    \/ pkt.yours = s.my_discr
    \/ pkt.yours = 0 /\ s.state \in {"DOWN", "ADM_DOWN"}

DetectTO(s, mult) == mult * MaxOf(s.cur_rx, s.rem_tx)

\* Seeded fault: the detection timer is not armed again.
BfdRecv_NotRearmed(s, pkt, mult) ==
    LET learned  == Run([s EXCEPT !.remote_discr = pkt.mine,
                                  !.rem_tx = pkt.tx,
                                  !.rem_rx = pkt.rx])
        switched == BsStateHandler(learned, pkt.state)
        finished == IF switched.s.polling /\ pkt.final
                    THEN BsFinalHandler([switched EXCEPT !.s.polling = FALSE])
                    ELSE switched
        time     == DetectTO(finished.s, mult)
        detected == [finished EXCEPT !.s.detect_TO = time]
    IN  IF pkt.poll THEN PtmBfdSnd(BsFinalHandler(detected), TRUE)
                    ELSE detected

\* bfd_recv_cb on an accepted packet of a peer with detection multiplier mult.
BfdRecv(s, pkt, mult) ==
    LET learned  == Run([s EXCEPT !.remote_discr = pkt.mine,
                                  !.rem_tx = pkt.tx,
                                  !.rem_rx = pkt.rx])
        switched == BsStateHandler(learned, pkt.state)
        finished == IF switched.s.polling /\ pkt.final
                    THEN BsFinalHandler([switched EXCEPT !.s.polling = FALSE])
                    ELSE switched
        time     == DetectTO(finished.s, mult)
        detected == RecvTimerUpdate([finished EXCEPT !.s.detect_TO = time])
    IN  IF pkt.poll THEN PtmBfdSnd(BsFinalHandler(detected), TRUE)
                    ELSE detected

BfdXmt(s) == PtmBfdXmtTO(Run([s EXCEPT !.xmt = FALSE]), FALSE)

\* The detection time passed without a packet.
BfdRecvTimer(s) ==
    LET expired == Run([s EXCEPT !.recv = FALSE])
    IN  IF s.state \in {"INIT", "UP"} THEN PtmBfdSessDn(expired) ELSE expired

-----------------------------------------------------------------------------
(* Configuration, interfaces and clients *)

BfdSetPassiveMode(h, passive) ==
    LET set == [h EXCEPT !.s.passive = passive]
    IN  CASE h.s.state # "DOWN" -> set
          [] h.s.state = "DOWN" /\ passive -> StopTimers(set)
          [] OTHER -> StartTimers(set)

\* A session that is up counts as not shut down, whatever its flag says.
BfdSetShutdown(h, shutdown) ==
    LET is_shutdown == h.s.state # "UP" /\ h.s.shutdown
        off == StopTimers([h EXCEPT !.s = [@ EXCEPT !.shutdown = TRUE,
                                                    !.state = "ADM_DOWN"]])
        on  == [h EXCEPT !.s = [@ EXCEPT !.shutdown = FALSE, !.state = "DOWN"]]
        told == PtmBfdNotify(on, "DOWN")
    IN  CASE shutdown = is_shutdown -> h
          [] shutdown -> PtmBfdSnd(PtmBfdNotify(off, "ADM_DOWN"), FALSE)
          [] OTHER -> IF h.s.passive THEN StopTimers(told) ELSE StartTimers(told)

\* A change of the intervals is negotiated only by a session that is up.
BfdSessionApply(s, cfg) ==
    LET timers == Run([s EXCEPT !.tx = cfg.tx, !.rx = cfg.rx])
        h == BfdSetShutdown(BfdSetPassiveMode(timers, cfg.passive), cfg.shutdown)
    IN  IF h.s.state = "UP" /\ (s.tx # cfg.tx \/ s.rx # cfg.rx)
        THEN [h EXCEPT !.s.polling = TRUE]
        ELSE h

BfdSessionEnable(s) ==
    LET open == Run([s EXCEPT !.sock = TRUE])
    IN  IF s.passive THEN open ELSE StartTimers(open)

BfdSessionDisable(s) ==
    PtmBfdSessDn(StopTimers(Run([s EXCEPT !.sock = FALSE])))

\* A client deregistered: the session is set down and the peer told.
PtmBfdSessionDel(s) == PtmBfdSnd(Run([s EXCEPT !.state = "DOWN"]), FALSE)

\* A session as bfd_session_new, bs_registrate and the first configuration
\* leave it.
BfdSessionNew(discr, cfg) ==
    LET fresh == [state |-> "DOWN", my_discr |-> discr, remote_discr |-> 0,
                  polling |-> FALSE, passive |-> FALSE, shutdown |-> FALSE,
                  sock |-> FALSE, xmt |-> FALSE, recv |-> FALSE,
                  tx |-> cfg.tx, rx |-> cfg.rx, cur_tx |-> Slow, cur_rx |-> Slow,
                  rem_tx |-> Slow, rem_rx |-> Slow,
                  xmt_TO |-> Slow, detect_TO |-> DefMult * Slow]
    IN  BfdSessionApply(BfdSessionEnable(fresh).s, cfg)
=============================================================================
