------------------------- MODULE BenthosATM900Driver -------------------------
(***************************************************************************)
(* BenthosATM900Driver (acomms/modemdriver/benthos_atm900_driver.cpp):     *)
(* startup's polling loop with its timeout, shutdown's two polling loops,  *)
(* handle_initiate_transmission, do_work, receive (which acks), send and   *)
(* try_serial_tx.  The driver runs on the application's thread; the modem  *)
(* writes lines to the serial port concurrently.                           *)
(*                                                                         *)
(* The driver's state machine benthos::fsm (benthos_atm900_driver_fsm.h)  *)
(* is not under src/.  It is abstracted to the states the driver waits on  *)
(* (state_cast<Ready>, state_cast<LowPower>) and the queues the driver     *)
(* empties (received(), serial_tx_buffer(), the data-out buffer): an event *)
(* the driver raises moves it to a state where it waits for the modem's    *)
(* answer, and the modem's lines, fed in by do_work, complete it.          *)
(***************************************************************************)
EXTENDS Naturals, Sequences, SequencesExt

CONSTANTS
  ModemId,          \* driver_cfg_.modem_id()
  Peers,            \* ids of the other modems (not ModemId)
  FrameStarts,      \* frame_start values an incoming transmission may carry
  MaxFrames,        \* most frames in one transmission
  StartTimeout,     \* benthos_driver_cfg().start_timeout(), seconds
  TicksPerSecond,   \* 1000 / pause_ms: loop iterations per second
  MaxRx,            \* transmissions the modem delivers
  MaxTx,            \* transmissions the application initiates
  ModemResponsive   \* does the modem always answer a command in the end?

ASSUME ModemId \notin Peers /\ TicksPerSecond \in Nat \ {0}

\* An incoming transmission, as the FSM puts it on received().
Rx == [type : {"DATA", "ACK"}, src : Peers, dest : Peers \cup {ModemId},
       ack : BOOLEAN, start : FrameStarts, size : 1..MaxFrames]

VARIABLES
  phase,      \* which driver call the application is in, or between calls
  i,          \* startup's loop counter
  fsm,        \* the state of benthos::fsm the driver can observe
  modemIn,    \* Seq: lines the modem wrote that modem_read has not returned
  rxLeft,     \* transmissions the modem has yet to deliver
  txLeft,     \* transmissions the application has yet to initiate
  alive,      \* is the modem still answering?
  outbox,     \* Seq: the FSM's data-out buffer (send -> buffer_data_out)
  wire,       \* Seq: everything try_serial_tx wrote (modem_write)
  handled     \* Seq: transmissions passed to signal_receive, in order

vars == <<phase, i, fsm, modemIn, rxLeft, txLeft, alive, outbox, wire, handled>>

Init ==
  /\ phase = "idle" /\ i = 0 /\ fsm = "Off"
  /\ modemIn = <<>> /\ rxLeft = MaxRx /\ txLeft = MaxTx /\ alive = TRUE
  /\ outbox = <<>> /\ wire = <<>> /\ handled = <<>>

-----------------------------------------------------------------------------
(* benthos::fsm, abstracted (not under src/).                              *)

\* One line from the modem ([type |-> "READY"], [type |-> "LOWPOWER"] or a
\* transmission), as EvRxSerial: it completes a configuration
\* or a low-power request, or, once ready, carries a transmission.
FsmRxLine(acc, line) ==
  CASE line.type = "READY" /\ acc.fsm = "Configuring" -> [acc EXCEPT !.fsm = "Ready"]
    [] line.type = "LOWPOWER" /\ acc.fsm = "LowPowerReq" -> [acc EXCEPT !.fsm = "LowPower"]
    [] line \in Rx /\ acc.fsm = "Ready" -> [acc EXCEPT !.rx = Append(@, line)]
    [] OTHER -> acc

\* EvTxSerial: in Ready the FSM turns its data-out buffer into serial
\* lines (serial_tx_buffer); otherwise the buffer waits.
FsmTxSerial(f, out) ==
  IF f = "Ready" THEN [lines |-> out, rest |-> <<>>] ELSE [lines |-> <<>>, rest |-> out]

-----------------------------------------------------------------------------
(* The driver.                                                             *)

\* (mutant) the ack loop runs while i <= n.
receiveInclusive(m) ==
  IF m.type = "DATA" /\ m.ack /\ m.dest = ModemId
    THEN <<[type |-> "ACK", src |-> m.dest, dest |-> m.src,
            frames |-> m.start .. (m.start + m.size)]>>
    ELSE <<>>

\* receive(): an ack-requested DATA transmission addressed to this modem is
\* acked to its src, frames frame_start .. frame_start + frame_size - 1,
\* through send(); then signal_receive.  The acks it sends.
receive(m) ==
  IF m.type = "DATA" /\ m.ack /\ m.dest = ModemId
    THEN <<[type |-> "ACK", src |-> m.dest, dest |-> m.src,
            frames |-> m.start .. (m.start + m.size - 1)]>>
    ELSE <<>>

\* try_serial_tx(): EvTxSerial, then modem_write every line of
\* serial_tx_buffer, popping it.
try_serial_tx(f, out, w) ==
  [out |-> FsmTxSerial(f, out).rest, wire |-> w \o FsmTxSerial(f, out).lines]

\* do_work(): try_serial_tx; feed every line modem_read returns to the FSM;
\* receive() every transmission on received(), popping it (the acks go to
\* send(), the data-out buffer); try_serial_tx again.
DoWork ==
  LET a == try_serial_tx(fsm, outbox, wire)
      r == FoldLeft(FsmRxLine, [fsm |-> fsm, rx |-> <<>>], modemIn)
      acks == FoldLeft(LAMBDA acc, m : acc \o receive(m), <<>>, r.rx)
      b == try_serial_tx(r.fsm, a.out \o acks, a.wire)
  IN /\ fsm' = r.fsm
     /\ modemIn' = <<>>
     /\ handled' = handled \o r.rx
     /\ outbox' = b.out
     /\ wire' = b.wire

\* startup(): fill in the configuration defaults, modem_start, initiate the
\* FSM, then poll until Ready.
Startup ==
  /\ phase = "idle"
  /\ phase' = "starting" /\ fsm' = "Configuring" /\ i' = 0
  /\ UNCHANGED <<modemIn, rxLeft, txLeft, alive, outbox, wire, handled>>

\* (mutant) the loop counter is never incremented.
StartupPollNoCount ==
  /\ phase = "starting" /\ fsm # "Ready"
  /\ DoWork
  /\ phase' = IF i \div TicksPerSecond > StartTimeout THEN "failed" ELSE "starting"
  /\ UNCHANGED <<i, rxLeft, txLeft, alive>>

\* One iteration of startup's loop: do_work, sleep pause_ms, ++i, and throw
\* STARTUP_FAILED once i / (1000 / pause_ms) > start_timeout.
StartupPoll ==
  /\ phase = "starting" /\ fsm # "Ready"
  /\ DoWork
  /\ i' = i + 1
  /\ phase' = IF (i + 1) \div TicksPerSecond > StartTimeout THEN "failed" ELSE "starting"
  /\ UNCHANGED <<rxLeft, txLeft, alive>>

\* The loop's condition sees Ready: startup returns.
StartupReady ==
  /\ phase = "starting" /\ fsm = "Ready"
  /\ phase' = "running"
  /\ UNCHANGED <<i, fsm, modemIn, rxLeft, txLeft, alive, outbox, wire, handled>>

\* The application's loop calls do_work.
Poll ==
  /\ phase = "running"
  /\ DoWork
  /\ UNCHANGED <<phase, i, rxLeft, txLeft, alive>>

\* handle_initiate_transmission for DATA: clamp max_frame_bytes, let the
\* application fill frames (signal_data_request), send() unless there is
\* no frame or the first is empty.  For a DRIVER_SPECIFIC two-way ping:
\* EvRange, which the FSM turns into a range request on its data-out path.
InitiateTransmission(kind, d, nframes, firstEmpty) ==
  /\ phase = "running" /\ txLeft > 0
  /\ txLeft' = txLeft - 1
  /\ outbox' =
       CASE kind = "DATA" /\ nframes > 0 /\ ~firstEmpty ->
              Append(outbox, [type |-> "DATA", src |-> ModemId, dest |-> d, size |-> nframes])
         [] kind = "PING" -> Append(outbox, [type |-> "RANGE", dest |-> d])
         [] OTHER -> outbox
  /\ UNCHANGED <<phase, i, fsm, modemIn, rxLeft, alive, wire, handled>>

\* shutdown(): EvReset, and poll until the FSM is back in Ready.
Shutdown ==
  /\ phase = "running"
  /\ phase' = "resetting" /\ fsm' = "Configuring"
  /\ UNCHANGED <<i, modemIn, rxLeft, txLeft, alive, outbox, wire, handled>>

ShutdownPollReady ==
  /\ phase = "resetting" /\ fsm # "Ready"
  /\ DoWork
  /\ UNCHANGED <<phase, i, rxLeft, txLeft, alive>>

\* (mutant) EvRequestLowPower is never raised.
ShutdownLowPowerNoEvent ==
  /\ phase = "resetting" /\ fsm = "Ready"
  /\ phase' = "lowpowering"
  /\ UNCHANGED <<i, fsm, modemIn, rxLeft, txLeft, alive, outbox, wire, handled>>

\* Ready again: EvRequestLowPower, and poll until LowPower.
ShutdownLowPower ==
  /\ phase = "resetting" /\ fsm = "Ready"
  /\ phase' = "lowpowering" /\ fsm' = "LowPowerReq"
  /\ UNCHANGED <<i, modemIn, rxLeft, txLeft, alive, outbox, wire, handled>>

ShutdownPollLowPower ==
  /\ phase = "lowpowering" /\ fsm # "LowPower"
  /\ DoWork
  /\ UNCHANGED <<phase, i, rxLeft, txLeft, alive>>

\* LowPower: modem_close and terminate the FSM.
ShutdownClose ==
  /\ phase = "lowpowering" /\ fsm = "LowPower"
  /\ phase' = "closed" /\ fsm' = "Off"
  /\ UNCHANGED <<i, modemIn, rxLeft, txLeft, alive, outbox, wire, handled>>

-----------------------------------------------------------------------------
(* The modem, on the far side of the serial port.                          *)

\* It answers the command the FSM is waiting on.
ModemAnswer ==
  /\ alive
  /\ \E line \in {[type |-> "READY"], [type |-> "LOWPOWER"]} :
       /\ \/ line.type = "READY" /\ fsm = "Configuring"
          \/ line.type = "LOWPOWER" /\ fsm = "LowPowerReq"
       /\ line \notin Range(modemIn)
       /\ modemIn' = Append(modemIn, line)
  /\ UNCHANGED <<phase, i, fsm, rxLeft, txLeft, alive, outbox, wire, handled>>

\* It delivers a transmission from another modem.
ModemDeliver(m) ==
  /\ alive /\ rxLeft > 0 /\ fsm = "Ready"
  /\ rxLeft' = rxLeft - 1
  /\ modemIn' = Append(modemIn, m)
  /\ UNCHANGED <<phase, i, fsm, txLeft, alive, outbox, wire, handled>>

\* An unresponsive modem stops answering for good.
ModemHangs ==
  /\ ~ModemResponsive /\ alive
  /\ alive' = FALSE
  /\ UNCHANGED <<phase, i, fsm, modemIn, rxLeft, txLeft, outbox, wire, handled>>

Next ==
  \/ Startup \/ StartupPoll \/ StartupReady \/ Poll
  \/ \E kind \in {"DATA", "PING"}, d \in Peers, n \in 0..MaxFrames, e \in BOOLEAN :
        InitiateTransmission(kind, d, n, e)
  \/ Shutdown \/ ShutdownPollReady \/ ShutdownLowPower \/ ShutdownPollLowPower
  \/ ShutdownClose
  \/ ModemAnswer \/ \E m \in Rx : ModemDeliver(m) \/ ModemHangs

\* The driver's own loops keep iterating, and a live modem answers the
\* command it is given.  The application's calls (startup, do_work,
\* transmissions, shutdown) are its choice and get no fairness.
Fairness ==
  /\ WF_vars(StartupPoll) /\ WF_vars(StartupReady)
  /\ WF_vars(ShutdownPollReady) /\ WF_vars(ShutdownLowPower)
  /\ WF_vars(ShutdownPollLowPower) /\ WF_vars(ShutdownClose)
  /\ WF_vars(ModemAnswer)

Spec == Init /\ [][Next]_vars /\ Fairness

-----------------------------------------------------------------------------
FrameNos == 0 .. (MaxFrames - 1 + CHOOSE x \in FrameStarts : \A y \in FrameStarts : y <= x)
Ack == [type : {"ACK"}, src : {ModemId}, dest : Peers, frames : SUBSET FrameNos]

TypeOK ==
  /\ phase \in {"idle", "starting", "running", "failed", "resetting", "lowpowering", "closed"}
  /\ fsm \in {"Off", "Configuring", "Ready", "LowPowerReq", "LowPower"}
  /\ i \in 0 .. TicksPerSecond * (StartTimeout + 1)
  /\ \A k \in DOMAIN (wire \o outbox) :
       (wire \o outbox)[k].type = "ACK" => (wire \o outbox)[k] \in Ack

\* startup() throws STARTUP_FAILED ("Failed to startup.") only for a modem
\* that is not ready: the loop polls while the FSM is not Ready, so a
\* timeout should never be reported for a modem the FSM has seen come up.
\* The do_work at the top of the iteration can complete the configuration,
\* and ++i and the timeout test that follow it do not look at the FSM again.
StartupFailsOnlyUnready == phase = "failed" => fsm # "Ready"

\* startup() returns: the modem comes up, or the start_timeout makes the
\* loop throw, even when the modem never answers.
StartupReturns == phase = "starting" ~> phase \in {"running", "failed"}

\* shutdown() returns: its two polling loops, which have no timeout, end.
ShutdownReturns == phase \in {"resetting", "lowpowering"} ~> phase = "closed"
=============================================================================
