------------------------------ MODULE UFldDriver ------------------------------
(***************************************************************************)
(* UFldDriver (moos/moos_ufield_sim_driver.cpp) on every node of a uField  *)
(* simulation: the acoustic modem driver that sends transmissions through *)
(* MOOS to the uField toolbox (uFldNodeComms routes them to the dest node  *)
(* or, for BROADCAST_ID, to every other node, or drops them when out of    *)
(* range; uFldContactRangeSensor answers a range request with a range      *)
(* report for each contact in range).  The toolbox and the MOOSDB are not  *)
(* part of this repository: they are the environment.                      *)
(*                                                                         *)
(* The driver's calls run on its node's application thread, one at a      *)
(* time; do_work handles all mail one Fetch returns, so it is one step.    *)
(* Names are modem ids (ModemIdConvert maps them one to one); a           *)
(* transmission's frames are a count and a frame_start, an ACK's acked     *)
(* frames a set.                                                           *)
(***************************************************************************)
EXTENDS Naturals, Sequences, SequencesExt

CONSTANTS
  Nodes,          \* modem ids of the nodes, each running a UFldDriver
  BROADCAST_ID,   \* acomms::BROADCAST_ID
  NoDest,         \* last_ccmpc_dest_ = -1: no ping outstanding
  Queue,          \* [Nodes -> [frames, start]]: what signal_data_request fills in
  MaxInitiate,    \* handle_initiate_transmission calls the MACs make in all
  MaxPing         \* two-way pings the MACs ask for in all

ASSUME BROADCAST_ID \notin Nodes /\ NoDest \notin Nodes \cup {BROADCAST_ID}

Ids == Nodes \cup {BROADCAST_ID}

\* A ModemTransmission.  Every field is always present: frames and start
\* for DATA (and a POLL carrying the DATA request), acked for ACK, pollSrc
\* and pollDest for the ufld POLL extension.
Tx(type, src, dest, ack, frames, start, acked, pollSrc, pollDest) ==
  [type |-> type, src |-> src, dest |-> dest, ack |-> ack, frames |-> frames,
   start |-> start, acked |-> acked, pollSrc |-> pollSrc, pollDest |-> pollDest]

VARIABLES
  phase,      \* [Nodes -> "down" | "connecting" | "running" | "closed"]
  connected,  \* [Nodes -> BOOLEAN]: moos_client_.IsConnected()
  lastDest,   \* [Nodes -> Nodes \cup {NoDest}]: last_ccmpc_dest_
  mailbox,    \* [Nodes -> Seq]: MOOS mail not yet fetched by do_work
  air,        \* Seq of transmissions notified to uField, in order
  rangeReqs,  \* Seq of nodes whose range request uField has not answered
  initiated,  \* history: [src, dest] of every DATA a MAC asked for
  signalled,  \* [Nodes -> Seq]: transmissions passed to signal_receive
  replies,    \* [Nodes -> Seq of [dest, target]]: ranging replies signalled
  pinged,     \* [Nodes -> Seq of nodes]: the pings made, in order
  budget      \* [initiate, ping]: MAC calls left

vars == <<phase, connected, lastDest, mailbox, air, rangeReqs, initiated,
          signalled, replies, pinged, budget>>

Init ==
  /\ phase = [n \in Nodes |-> "down"]
  /\ connected = [n \in Nodes |-> FALSE]
  /\ lastDest = [n \in Nodes |-> NoDest]
  /\ mailbox = [n \in Nodes |-> <<>>]
  /\ air = <<>> /\ rangeReqs = <<>>
  /\ initiated = {}
  /\ signalled = [n \in Nodes |-> <<>>]
  /\ replies = [n \in Nodes |-> <<>>]
  /\ pinged = [n \in Nodes |-> <<>>]
  /\ budget = [initiate |-> MaxInitiate, ping |-> MaxPing]

-----------------------------------------------------------------------------
(* The driver's operations; out are the transmissions send_message         *)
(* notifies, in order.                                                     *)

\* (mutant) every DATA transmission is taken as our own.
handle_initiate_transmissionOwnAll(n, msg) ==
  LET m == IF msg.frames = 0
             THEN [msg EXCEPT !.frames = Queue[n].frames, !.start = Queue[n].start]
             ELSE msg
  IN IF m.frames > 0 THEN <<m>> ELSE <<>>

\* handle_initiate_transmission, DATA (after signal_modify_transmission):
\* our own transmission asks for data if it has no frames and is sent if
\* its first frame is not empty; someone else's becomes a third-party
\* POLL sent to its src.
handle_initiate_transmission(n, msg) ==
  IF msg.src = n
    THEN LET m == IF msg.frames = 0
                    THEN [msg EXCEPT !.frames = Queue[n].frames, !.start = Queue[n].start]
                    ELSE msg
         IN IF m.frames > 0 THEN <<m>> ELSE <<>>
    ELSE <<[msg EXCEPT !.type = "POLL", !.pollSrc = msg.src, !.pollDest = msg.dest,
                       !.dest = msg.src, !.src = n]>>

\* receive_message: a POLL is turned back into the DATA transmission it
\* stands for (src poll_src, dest poll_dest) and initiated; anything else
\* is signalled, after acking an ack-requested, non-broadcast DATA
\* transmission, frames 0 .. frame_size - 1.
receive_message(n, msg) ==
  IF msg.type = "POLL"
    THEN [out |-> handle_initiate_transmission(n,
                    [msg EXCEPT !.type = "DATA", !.src = msg.pollSrc, !.dest = msg.pollDest,
                                !.pollSrc = BROADCAST_ID, !.pollDest = BROADCAST_ID]),
          sig |-> <<>>]
    ELSE [out |-> IF msg.type = "DATA" /\ msg.ack /\ msg.dest # BROADCAST_ID
                    THEN <<Tx("ACK", msg.dest, msg.src, FALSE, 0, 0, 0 .. (msg.frames - 1),
                              BROADCAST_ID, BROADCAST_ID)>>
                    ELSE <<>>,
          sig |-> <<msg>>]

\* (mutant) last_ccmpc_dest_ = -1 before the reply's dest is set from it.
RangeReportResetFirst(acc, target) ==
  IF target = acc.last
    THEN [acc EXCEPT !.replies = Append(@, [dest |-> NoDest, target |-> target]),
                     !.last = NoDest]
    ELSE acc

\* (mutant) the ping is not forgotten once its reply is signalled.
RangeReportKeepsPing(acc, target) ==
  IF target = acc.last
    THEN [acc EXCEPT !.replies = Append(@, [dest |-> acc.last, target |-> target])]
    ELSE acc

\* do_work, range_report_var: a report for the target of the last ping is
\* signalled as a ranging reply to that ping, and the ping forgotten.
RangeReport(acc, target) ==
  IF target = acc.last
    THEN [acc EXCEPT !.replies = Append(@, [dest |-> acc.last, target |-> target]),
                     !.last = NoDest]
    ELSE acc

\* do_work on node n: Fetch, and handle every message in order.
DoWorkMail(n) ==
  LET step(acc, mail) ==
        IF mail.var = "incoming"
          THEN LET r == receive_message(n, mail.tx)
               IN [acc EXCEPT !.out = @ \o r.out, !.sig = @ \o r.sig]
          ELSE RangeReport(acc, mail.target)
  IN FoldLeft(step, [out |-> <<>>, sig |-> <<>>, replies |-> <<>>, last |-> lastDest[n]],
              mailbox[n])

\* Notify the transmissions to uField (send_message, ufield_outgoing_moos_var).
Send(out) == air' = air \o out

\* startup(): read the lookup file, moos_client_.Run, then sleep(1) until
\* the MOOSDB connection is up, with no timeout.
Startup(n) ==
  /\ phase[n] = "down"
  /\ phase' = [phase EXCEPT ![n] = "connecting"]
  /\ UNCHANGED <<connected, lastDest, mailbox, air, rangeReqs, initiated,
                 signalled, replies, pinged, budget>>

\* IsConnected() is true: Register incoming_moos_var and range_report_var.
StartupConnected(n) ==
  /\ phase[n] = "connecting" /\ connected[n]
  /\ phase' = [phase EXCEPT ![n] = "running"]
  /\ UNCHANGED <<connected, lastDest, mailbox, air, rangeReqs, initiated,
                 signalled, replies, pinged, budget>>

\* shutdown(): moos_client_.Close().
Shutdown(n) ==
  /\ phase[n] = "running"
  /\ phase' = [phase EXCEPT ![n] = "closed"]
  /\ UNCHANGED <<connected, lastDest, mailbox, air, rangeReqs, initiated,
                 signalled, replies, pinged, budget>>

\* The MAC on node n initiates a DATA transmission (no frames yet).
InitiateData(n, src, dest, ack) ==
  /\ phase[n] = "running" /\ budget.initiate > 0
  /\ budget' = [budget EXCEPT !.initiate = @ - 1]
  /\ initiated' = initiated \cup {[src |-> src, dest |-> dest]}
  /\ Send(handle_initiate_transmission(n,
             Tx("DATA", src, dest, ack, 0, 0, {}, BROADCAST_ID, BROADCAST_ID)))
  /\ UNCHANGED <<phase, connected, lastDest, mailbox, rangeReqs, signalled, replies, pinged>>

\* handle_initiate_transmission, DRIVER_SPECIFIC MICROMODEM_TWO_WAY_PING:
\* ccmpc() remembers the dest in last_ccmpc_dest_ and notifies the range
\* request.
ccmpc(n, d) ==
  /\ phase[n] = "running" /\ budget.ping > 0
  /\ budget' = [budget EXCEPT !.ping = @ - 1]
  /\ lastDest' = [lastDest EXCEPT ![n] = d]
  /\ pinged' = [pinged EXCEPT ![n] = Append(@, d)]
  /\ rangeReqs' = Append(rangeReqs, n)
  /\ UNCHANGED <<phase, connected, mailbox, air, initiated, signalled, replies>>

\* do_work(): handle the fetched mail, notify what it sends, signal what
\* it receives.
DoWork(n) ==
  /\ phase[n] = "running" /\ mailbox[n] # <<>>
  /\ LET r == DoWorkMail(n)
     IN /\ Send(r.out)
        /\ signalled' = [signalled EXCEPT ![n] = @ \o r.sig]
        /\ replies' = [replies EXCEPT ![n] = @ \o r.replies]
        /\ lastDest' = [lastDest EXCEPT ![n] = r.last]
  /\ mailbox' = [mailbox EXCEPT ![n] = <<>>]
  /\ UNCHANGED <<phase, connected, rangeReqs, initiated, pinged, budget>>

-----------------------------------------------------------------------------
(* The environment: the MOOSDB and the uField toolbox.                     *)

MoosConnect(n) ==
  /\ phase[n] = "connecting" /\ ~connected[n]
  /\ connected' = [connected EXCEPT ![n] = TRUE]
  /\ UNCHANGED <<phase, lastDest, mailbox, air, rangeReqs, initiated,
                 signalled, replies, pinged, budget>>

\* Mail reaches a node only while it is registered for the variable.
Deliver(mb, d, m) == IF phase[d] = "running" THEN Append(mb, m) ELSE mb

\* uFldNodeComms routes the oldest transmission to its dest, or to every
\* other node for BROADCAST_ID, or drops it (out of range).
UFieldRoute ==
  /\ air # <<>>
  /\ LET tx == Head(air)
         to == IF tx.dest = BROADCAST_ID THEN Nodes \ {tx.src} ELSE {tx.dest} \ {tx.src}
     IN \E reached \in SUBSET to :
          mailbox' = [d \in Nodes |->
                       IF d \in reached THEN Deliver(mailbox[d], d, [var |-> "incoming", tx |-> tx])
                                       ELSE mailbox[d]]
  /\ air' = Tail(air)
  /\ UNCHANGED <<phase, connected, lastDest, rangeReqs, initiated, signalled,
                 replies, pinged, budget>>

\* uFldContactRangeSensor answers the oldest range request with a report
\* for each contact in range.
UFieldRange ==
  /\ rangeReqs # <<>>
  /\ LET n == Head(rangeReqs)
     IN \E inRange \in SUBSET (Nodes \ {n}) :
          \E order \in {s \in [1..Cardinality(inRange) -> inRange] : Range(s) = inRange} :
            mailbox' = [mailbox EXCEPT ![n] =
                          FoldLeft(LAMBDA mb, t : Deliver(mb, n, [var |-> "range", target |-> t]),
                                   @, order)]
  /\ rangeReqs' = Tail(rangeReqs)
  /\ UNCHANGED <<phase, connected, lastDest, air, initiated, signalled, replies,
                 pinged, budget>>

Next ==
  \/ \E n \in Nodes :
        \/ Startup(n) \/ StartupConnected(n) \/ Shutdown(n) \/ DoWork(n) \/ MoosConnect(n)
        \/ \E src \in Nodes, dest \in Ids, ack \in BOOLEAN :
              src # dest /\ InitiateData(n, src, dest, ack)
        \/ \E d \in Nodes \ {n} : ccmpc(n, d)
  \/ UFieldRoute \/ UFieldRange

\* A running driver's do_work is called from its application's loop, and
\* startup's loop exits once the connection is up; the toolbox keeps
\* routing; an available MOOSDB accepts the connection.
Fairness ==
  \A n \in Nodes : /\ WF_vars(DoWork(n)) /\ WF_vars(StartupConnected(n))
                   /\ WF_vars(MoosConnect(n))
  /\ WF_vars(UFieldRoute) /\ WF_vars(UFieldRange)

Spec == Init /\ [][Next]_vars /\ Fairness

-----------------------------------------------------------------------------
TypeOK ==
  /\ phase \in [Nodes -> {"down", "connecting", "running", "closed"}]
  /\ lastDest \in [Nodes -> Nodes \cup {NoDest}]
  /\ \A n \in Nodes : \A k \in DOMAIN replies[n] : replies[n][k].dest \in Nodes

\* Third-party polling: a DATA transmission a node signals as received
\* was sent by the node it names as src (it carries the frames of that
\* node's queue), to the node it names as dest (or to all), and some MAC
\* asked for exactly that src and dest, in its own slot or by polling src
\* on dest's behalf.
DataFromInitiated ==
  \A n \in Nodes : \A k \in DOMAIN signalled[n] :
    LET m == signalled[n][k]
    IN m.type = "DATA" =>
         /\ m.frames = Queue[m.src].frames /\ m.start = Queue[m.src].start
         /\ [src |-> m.src, dest |-> m.dest] \in initiated
         /\ m.dest \in {n, BROADCAST_ID}

\* One reply per ping: last_ccmpc_dest_ is a single slot without a
\* timeout, while uField answers every range request with a report for
\* each contact in range, and reports of an older request can arrive after
\* a newer ping.  A node still signals no more ranging replies for a
\* target than it sent pings to that target.
RepliesAtMostPings ==
  \A n \in Nodes : \A d \in Nodes :
    Len(SelectSeq(replies[n], LAMBDA r : r.dest = d))
      <= Len(SelectSeq(pinged[n], LAMBDA x : x = d))
=============================================================================
