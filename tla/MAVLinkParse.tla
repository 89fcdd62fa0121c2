---------------------------- MODULE MAVLinkParse ----------------------------
(***************************************************************************)
(* SerializerParserHelper for MAVLink (middleware/marshalling/mavlink.h):  *)
(* serialize, and the parse loop that feeds bytes one at a time to the     *)
(* MAVLink framing state machine until it reports a frame or an error.     *)
(*                                                                         *)
(* Bytes are the small alphabet Bytes; a frame is                          *)
(*   <<STX, len, sysid, msgid>> \o payload \o <<crc>>                      *)
(* (compid and the sequence byte are left out, they are framed like sysid, *)
(* and the two CRC bytes are one).  The checksum covers the header and the *)
(* payload and is seeded with the message's CRC_EXTRA; on receipt the      *)
(* framing library takes CRC_EXTRA from the registry entry of the msgid    *)
(* (MAVLinkRegistry::get_msg_entry) and 0 for an unknown msgid, so a frame *)
(* of an unregistered type fails its CRC.  Known is the set of msgids the  *)
(* registry holds while parsing.                                           *)
(*                                                                         *)
(* The parse of one byte range is a sequential loop: one action per       *)
(* iteration, Init choosing the bytes handed to parse.                     *)
(***************************************************************************)
EXTENDS Naturals, Sequences, SequencesExt

CONSTANTS
  Bytes,      \* the byte alphabet, 0..B
  STX,        \* the start-of-frame marker
  CrcExtra,   \* [Bytes -> Bytes]: CRC_EXTRA of each msgid's compiled type
  Known,      \* msgids with an entry in MAVLinkRegistry
  SysIds,     \* system ids the senders use
  MaxPayload, \* longest payload of a serialized message
  MaxNoise    \* longest stream of noise bytes around a frame

ASSUME STX \in Bytes /\ Known \subseteq Bytes /\ CrcExtra \in [Bytes -> Bytes]

Modulus == Cardinality(Bytes)
SumBytes(s) == FoldLeft(+, 0, s)

\* mavlink_finalize_message drops trailing zero bytes of a v2 payload.
RECURSIVE TrimZeros(_)
TrimZeros(p) ==
  IF p # <<>> /\ Last(p) = 0 THEN TrimZeros(Front(p)) ELSE p

Checksum(len, sys, id, p, extra) == (len + sys + id + SumBytes(p) + extra) % Modulus

\* A message as the application holds it: [sys, id, payload].
Msgs == [sys : SysIds, id : Bytes, payload : BoundedSeq(Bytes, MaxPayload)]

\* The tuple serialize(): packet.serialize fills msg's payload, and
\* mavlink_finalize_message sets sysid, the length of the trimmed payload
\* and the checksum seeded with the type's CRC_EXTRA.
FinalizeMessage(m) ==
  LET p == TrimZeros(m.payload)
  IN [len |-> Len(p), sys |-> m.sys, id |-> m.id, payload |-> p,
      checksum |-> Checksum(Len(p), m.sys, m.id, p, CrcExtra[m.id])]

\* The mavlink_message_t serialize(): mavlink_msg_to_send_buffer writes
\* the frame; the bytes [buffer, buffer + length).
SendBuffer(fm) == <<STX, fm.len, fm.sys, fm.id>> \o fm.payload \o <<fm.checksum>>

\* The tuple serialize() returns the raw serialize() of the finalized msg.
Serialize(m) == SendBuffer(FinalizeMessage(m))

-----------------------------------------------------------------------------
(* The framing state machine (mavlink_frame_char_buffer), not under src/:  *)
(* modelled from the MAVLink v2 wire format the spec refers to (4.1).      *)

IdleStatus == [st |-> "IDLE", len |-> 0, sys |-> 0, id |-> 0, payload |-> <<>>]

\* The CRC_EXTRA the receiver uses for msgid.
RxExtra(id) == IF id \in Known THEN CrcExtra[id] ELSE 0

\* One byte into the framer: its next status and its result.
FrameChar(fs, b) ==
  CASE fs.st = "IDLE" ->
         [fs |-> IF b = STX THEN [IdleStatus EXCEPT !.st = "LEN"] ELSE fs,
          res |-> "INCOMPLETE"]
    [] fs.st = "LEN" -> [fs |-> [fs EXCEPT !.st = "SYS", !.len = b], res |-> "INCOMPLETE"]
    [] fs.st = "SYS" -> [fs |-> [fs EXCEPT !.st = "ID", !.sys = b], res |-> "INCOMPLETE"]
    [] fs.st = "ID" ->
         [fs |-> [fs EXCEPT !.st = IF fs.len = 0 THEN "CRC" ELSE "PAYLOAD", !.id = b],
          res |-> "INCOMPLETE"]
    [] fs.st = "PAYLOAD" ->
         [fs |-> [fs EXCEPT !.payload = Append(@, b),
                            !.st = IF Len(fs.payload) + 1 = fs.len THEN "CRC" ELSE "PAYLOAD"],
          res |-> "INCOMPLETE"]
    [] fs.st = "CRC" ->
         [fs |-> IdleStatus,
          res |-> IF b = Checksum(fs.len, fs.sys, fs.id, fs.payload, RxExtra(fs.id))
                    THEN "OK" ELSE "BAD_CRC"]

FramedMsg(fs) == [sys |-> fs.sys, id |-> fs.id, payload |-> fs.payload]

\* The typed parse of std::tuple<sysid, compid, DataType>: the packet is
\* deserialized from msg's payload (MsgMap reads the bytes the wire dropped
\* as zeros, up to DataType's LENGTH), and sysid copied from msg.  msgid is
\* not compared with DataType::MSG_ID.
TupleParse(m) ==
  [sys |-> m.sys, packet |-> m.payload \o [k \in 1..(MaxPayload - Len(m.payload)) |-> 0]]

-----------------------------------------------------------------------------
VARIABLES
  sent,       \* the message serialized into the input, or NoMsg for noise
  following,  \* a message serialized right after sent in the same range, or NoMsg
  input,      \* the byte range [bytes_begin, bytes_end) handed to parse
  c,          \* the iterator c, an index into input (bytes_end = Len + 1)
  fs,         \* the framer's status (msg_buffer / status_buffer)
  msg,        \* the message parse returns (msg, make_shared: zeroed)
  actualEnd,  \* actual_end as an index into input
  done        \* parse has returned

vars == <<sent, following, input, c, fs, msg, actualEnd, done>>

NoMsg == [sys |-> 0, id |-> 0, payload |-> <<>>, none |-> TRUE]
ZeroMsg == [sys |-> 0, id |-> 0, payload |-> <<>>]
Noise == BoundedSeq(Bytes \ {STX}, MaxNoise)

\* The byte ranges parse is given: a serialized message with noise before
\* (no STX in it, so the framer is idle at the frame) and after; two
\* serialized messages back to back, as a serial read returns them; or
\* noise (a subscription never posts an empty range).
Init ==
  /\ \/ \E m \in Msgs, g, r \in Noise :
          /\ sent = m /\ following = NoMsg
          /\ input = g \o Serialize(m) \o r
     \/ \E m, m2 \in Msgs :
          /\ sent = m /\ following = m2
          /\ input = Serialize(m) \o Serialize(m2)
     \/ /\ sent = NoMsg /\ following = NoMsg
        /\ input \in BoundedSeq(Bytes, MaxNoise + 2) \ {<<>>}
  /\ c = 1
  /\ fs = IdleStatus
  /\ msg = ZeroMsg
  /\ actualEnd = 0
  /\ done = FALSE

\* (mutant) the iterator only advances once a frame has started.
StepIncompleteStallIdle ==
  /\ ~done /\ c <= Len(input)
  /\ FrameChar(fs, input[c]).res = "INCOMPLETE"
  /\ fs' = FrameChar(fs, input[c]).fs
  /\ c' = IF fs.st = "IDLE" /\ input[c] # STX THEN c ELSE c + 1
  /\ UNCHANGED <<sent, following, input, msg, actualEnd, done>>

\* MAVLINK_FRAMING_INCOMPLETE: ++c.
StepIncomplete ==
  /\ ~done /\ c <= Len(input)
  /\ FrameChar(fs, input[c]).res = "INCOMPLETE"
  /\ fs' = FrameChar(fs, input[c]).fs
  /\ c' = c + 1
  /\ UNCHANGED <<sent, following, input, msg, actualEnd, done>>

\* (mutant) the message is read from the framer after it has reset.
StepFramedAfterReset ==
  /\ ~done /\ c <= Len(input)
  /\ FrameChar(fs, input[c]).res = "OK"
  /\ fs' = FrameChar(fs, input[c]).fs
  /\ msg' = FramedMsg(FrameChar(fs, input[c]).fs)
  /\ actualEnd' = c
  /\ done' = TRUE
  /\ UNCHANGED <<sent, following, input, c>>

\* MAVLINK_FRAMING_OK: the framer filled msg; actual_end = c; return msg.
StepFramed ==
  /\ ~done /\ c <= Len(input)
  /\ FrameChar(fs, input[c]).res = "OK"
  /\ fs' = FrameChar(fs, input[c]).fs
  /\ msg' = FramedMsg(fs)
  /\ actualEnd' = c
  /\ done' = TRUE
  /\ UNCHANGED <<sent, following, input, c>>

\* BAD_CRC (and BAD_SIGNATURE, other results): log, goto fail, actual_end =
\* bytes_end, return msg.  Whether the framing library copies the rejected
\* frame into msg depends on its version: msg is the zeroed message or the
\* frame's contents.
StepBadFrame ==
  /\ ~done /\ c <= Len(input)
  /\ FrameChar(fs, input[c]).res \notin {"INCOMPLETE", "OK"}
  /\ fs' = FrameChar(fs, input[c]).fs
  /\ msg' \in {msg, FramedMsg(fs)}
  /\ actualEnd' = Len(input) + 1
  /\ done' = TRUE
  /\ UNCHANGED <<sent, following, input, c>>

\* (mutant) actual_end one past bytes_end.
ExhaustedPastEnd ==
  /\ ~done /\ c > Len(input)
  /\ actualEnd' = Len(input) + 2
  /\ done' = TRUE
  /\ UNCHANGED <<sent, following, input, c, fs, msg>>

\* The loop ran off bytes_end: fall through to fail.
Exhausted ==
  /\ ~done /\ c > Len(input)
  /\ actualEnd' = Len(input) + 1
  /\ done' = TRUE
  /\ UNCHANGED <<sent, following, input, c, fs, msg>>

Next == StepIncomplete \/ StepFramed \/ StepBadFrame \/ Exhausted

Spec == Init /\ [][Next]_vars /\ WF_vars(Next)

-----------------------------------------------------------------------------
(* Properties, judged once parse has returned.                             *)

TypeOK ==
  /\ c \in 1..Len(input) + 1
  /\ actualEnd \in 0..Len(input) + 1
  /\ done \in BOOLEAN

\* How many bytes parse reports consumed: actual_end - bytes_begin.
Consumed == actualEnd - 1

\* Round trip (spec 8), value: parse(serialize(v)) gives v back (up to the
\* trailing zeros the wire drops), its sysid included, whatever noise
\* without a start marker comes before the frame or bytes after it.
RoundTripValue ==
  (done /\ sent # NoMsg /\ sent.id \in Known)
    => /\ msg.id = sent.id
       /\ TupleParse(msg) = TupleParse(sent)

\* Round trip (spec 8), length: the bytes parse reports consumed end with
\* the frame, so a caller can frame the next message from the rest.
RoundTripConsumed ==
  (done /\ sent # NoMsg /\ sent.id \in Known /\ Len(input) = Len(Serialize(sent)))
    => Consumed = Len(Serialize(sent))

\* Failure policy (spec 4.1, 7): a malformed message makes parse fail "for
\* that single message" and the caller continues scanning: a frame of a
\* registered type that follows in the same range is not consumed with it.
FollowingFrameKept ==
  (done /\ following # NoMsg /\ following.id \in Known)
    => actualEnd <= Len(Serialize(sent)) + 1

\* parse returns on every input.
Terminates == <>done
=============================================================================
