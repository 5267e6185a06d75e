------------------------------ MODULE MqttCodec ------------------------------
(***************************************************************************)
(* The MQTT packets of a device's connection (src/server/mqtt_server.py):  *)
(* how they are cut out of the byte stream and taken apart, from CONNECT   *)
(* on.  A byte is a number.  A digit of the remaining length is less than  *)
(* Base (128 in the code), a byte of it that is not the last one is Base   *)
(* or more.  What raises is Bad: the handler's thread then closes the      *)
(* connection.                                                             *)
(***************************************************************************)
EXTENDS Integers, Sequences, SequencesExt

CONSTANTS
  Base,        \* 128: what a byte of the remaining length counts
  MaxBytes,    \* 4: bytes of the remaining length
  MaxPacket,   \* 1024 * 1024
  Sent,        \* the sequences of packets a device may send, some of them malformed
  Response     \* the bodies of responses

Byte == 0 .. 255

\* No byte string at all
Bad == <<256>>

\* multiplier, as read_packet raises it byte by byte
multiplier[n \in 1 .. MaxBytes + 1] == IF n = 1 THEN 1 ELSE Base * multiplier[n - 1]

\* `length` after n rounds of the loop in remaining()
Rounds(length) ==
  LET left[n \in 0 .. length + 1] == IF n = 0 THEN length ELSE left[n - 1] \div Base
  IN  left

\* remaining(): the least digit first, with Base added when there are more
remaining(length) ==
  LET left == Rounds(length)
      last == Min({n \in 1 .. length + 1 : left[n] = 0})
  IN  [n \in 1 .. last |-> (left[n - 1] % Base) + IF n < last THEN Base ELSE 0]

Frame(first, body) == <<first>> \o remaining(Len(body)) \o body

AtLimit(n) == n >= MaxPacket   \* mutant
Exceeds(n) == n > MaxPacket

\* The value of the first k bytes of a remaining length
Value(stream, k) ==
  LET length[n \in 0 .. k] ==
        IF n = 0 THEN 0 ELSE length[n - 1] + (stream[n + 1] % Base) * multiplier[n]
  IN  length[k]

\* read_packet: how many bytes of the stream it takes; a stream that ends early
\* is taken as it is
Taken(stream) ==
  LET last == {k \in 1 .. MaxBytes : k < Len(stream) /\ stream[k + 1] < Base
                                     /\ \A j \in 1 .. k - 1 : stream[j + 1] >= Base}
  IN  IF last = {} THEN IF Len(stream) <= MaxBytes THEN Len(stream) ELSE 0
      ELSE LET k == CHOOSE k \in last : TRUE
               n == Value(stream, k)
           IN  IF Exceeds(n) THEN 0
               ELSE IF 1 + k + n > Len(stream) THEN Len(stream) ELSE 1 + k + n

\* body_offset: where the body of a packet starts, 0 when its length is cut off
body_offset(packet) ==
  LET ends == {n \in 2 .. Len(packet) : packet[n] < Base}
  IN  IF ends = {} THEN 0 ELSE 1 + CHOOSE n \in ends : \A m \in ends : n <= m

\* mqtt_string at a position: the position after it, or 0
mqtt_string(data, at) ==
  IF at + 1 > Len(data) THEN 0
  ELSE LET after == at + 2 + data[at] * 256 + data[at + 1]
       IN  IF after > Len(data) + 1 THEN 0 ELSE after

Text(data, at) == SubSeq(data, at + 2, mqtt_string(data, at) - 1)

\* connect_identity: the protocol's name, four bytes, the client's name
connect_identity(packet) ==
  LET name == mqtt_string(packet, body_offset(packet))
      id == IF name = 0 THEN 0 ELSE name + 4
  IN  IF body_offset(packet) = 0 \/ id = 0 \/ mqtt_string(packet, id) = 0 THEN Bad
      ELSE Text(packet, id)

\* _publish, as far as it concerns the codec: the PUBACK it asks for
Acknowledge(packet) ==
  LET after == mqtt_string(packet, body_offset(packet))
      qos == (packet[1] \div 2) % 4
  IN  CASE after = 0 \/ qos > 1 \/ (qos = 1 /\ after + 1 > Len(packet)) -> Bad
        [] after # 0 /\ qos = 0 -> <<>>
        [] after # 0 /\ qos = 1 /\ after + 1 <= Len(packet) ->
             <<64, 2, packet[after], packet[after + 1]>>

\* The loop over the filters of a SUBSCRIBE: what it grants.  A filter that is cut
\* off raises, one without its QoS ends the loop.
Grants(packet) ==
  LET from[at \in 1 .. Len(packet) + 3] ==
        LET after == mqtt_string(packet, at)
        IN  IF at + 1 > Len(packet) \/ after > Len(packet) THEN <<>>
            ELSE IF after = 0 \/ from[after + 1] = Bad THEN Bad
            ELSE <<packet[after]>> \o from[after + 1]
  IN  from[body_offset(packet) + 2]

\* The SUBACK has one byte for its length: bytes((0x90, n)) raises above 255
Suback(packet) ==
  LET at == body_offset(packet)
      id == SubSeq(packet, at, IF at < Len(packet) THEN at + 1 ELSE Len(packet))
      body == id \o Grants(packet)
  IN  IF Grants(packet) = Bad \/ Len(body) > 255 THEN Bad ELSE <<144, Len(body)>> \o body

-----------------------------------------------------------------------------
\* The length field of a packet is that of what follows it, or does not end within
\* the bytes it may have
Framed(packet) ==
  LET at == body_offset(packet)
  IN  at # 0 /\ SubSeq(packet, 2, at - 1) = remaining(Len(packet) + 1 - at)
Endless(packet) ==
  Len(packet) > MaxBytes /\ \A n \in 2 .. MaxBytes + 1 : packet[n] >= Base

\* A byte holds a digit and Base, the limit is below what MaxBytes digits can say, and
\* what the server sends is not above it
ASSUME CodecAssumption ==
  /\ Base \in 3 .. 128 /\ MaxBytes \in Nat \ {0}
  /\ MaxPacket \in Nat /\ Base <= MaxPacket + 1 /\ MaxPacket < multiplier[MaxBytes + 1]
  /\ \A body \in Response : body \in Seq(Byte) /\ Len(body) <= MaxPacket
  /\ \A packets \in Sent : /\ packets \in Seq(Seq(Byte))
                            /\ \A n \in DOMAIN packets : Framed(packets[n]) \/ Endless(packets[n])

VARIABLES
  sent,      \* the packets the device sends
  wire,      \* what has not been read of them
  inbox,     \* the packets read_packet gave the handler
  replies,   \* what it sent back
  handler    \* where the handler's thread is

wireVars == <<sent, wire, inbox, replies, handler>>

WireTypeOK ==
  /\ sent \in Sent \cup {<<>>} /\ wire \in Seq(Byte)
  /\ inbox \in Seq(Seq(Byte)) /\ replies \in Seq(Seq(Byte))
  /\ handler \in {"accept", "connect", "loop", "closed"}

WireInit ==
  /\ sent = <<>> /\ wire = <<>> /\ inbox = <<>> /\ replies = <<>>
  /\ handler = "accept"

\* A device connects and sends some packets; its stream ends anywhere
Connects(packets) ==
  /\ handler = "accept" /\ handler' = "connect"
  /\ sent' = packets
  /\ \E cut \in 0 .. Len(FlattenSeq(packets)) : wire' = SubSeq(FlattenSeq(packets), 1, cut)
  /\ UNCHANGED <<inbox, replies>>

Type(packet) == packet[1] \div 16

\* _handle before its loop: CONNECT comes first.  A device that is not known is the
\* business of the session's model.
Greeting(packet) ==
  IF Type(packet) = 1 /\ connect_identity(packet) # Bad THEN <<32, 2, 0, 0>> ELSE Bad

\* _packet: what a packet is answered with at once
Reply(packet) ==
  IF body_offset(packet) = 0 THEN Bad
  ELSE CASE Type(packet) = 8 -> Suback(packet)
         [] Type(packet) = 3 -> Acknowledge(packet)
         [] Type(packet) = 12 -> <<208, 0>>
         [] Type(packet) \notin {3, 8, 12} -> <<>>

\* _send_response to a oneM2M request, or nothing to one it does not understand
Responds(packet) ==
  {<<>>} \cup IF handler = "loop" /\ Type(packet) = 3
             THEN {<<Frame(48, body)>> : body \in Response} ELSE {}

Sends(reply, more) == replies' = replies \o (IF reply = <<>> THEN more ELSE <<reply>> \o more)

\* _onem2m, which follows the PUBACK, raises on some messages
MayRaise(packet) == handler = "loop" /\ Type(packet) = 3

\* A packet is read and dealt with.  One that raises ends the connection.
Handle ==
  /\ handler \in {"connect", "loop"} /\ Taken(wire) > 0
  /\ LET packet == SubSeq(wire, 1, Taken(wire))
         reply == IF handler = "connect" THEN Greeting(packet) ELSE Reply(packet)
     IN  /\ inbox' = Append(inbox, packet)
         /\ wire' = SubSeq(wire, Taken(wire) + 1, Len(wire))
         /\ \/ reply = Bad /\ handler' = "closed" /\ UNCHANGED replies
            \/ /\ reply # Bad /\ handler' = "loop"
               /\ \E more \in Responds(packet) : Sends(reply, more)
            \/ /\ reply # Bad /\ MayRaise(packet) /\ handler' = "closed"
               /\ Sends(reply, <<>>)
  /\ UNCHANGED sent

\* The stream is at its end, or its length field raises
HangUp ==
  /\ handler \in {"connect", "loop"} /\ Taken(wire) = 0
  /\ handler' = "closed"
  /\ UNCHANGED <<sent, wire, inbox, replies>>

WireNext ==
  \/ \E packets \in Sent : Connects(packets)
  \/ Handle \/ HangUp

WireSpec == WireInit /\ [][WireNext]_wireVars

-----------------------------------------------------------------------------
(* Properties *)

\* The handler keeps in step with the device, and the device with it: every packet
\* it takes is one the device sent, whole and in its order, whatever came before -
\* only the last one may be cut off, when the stream ended within it - and what it
\* answers is cut out of the stream in the same way.  The exception is a SUBACK for
\* so many filters that its length needs a second byte (mqtt_server.py:421).
HandlerIsInStep ==
  /\ \A n \in DOMAIN inbox :
       /\ inbox[n] = sent[n] \/ (n = Len(inbox) /\ wire = <<>> /\ IsPrefix(inbox[n], sent[n]))
       /\ Len(inbox[n]) <= 1 + MaxBytes + MaxPacket
  /\ \A n \in DOMAIN replies :
       Taken(replies[n]) = Len(replies[n]) \/ (replies[n][1] = 144 /\ replies[n][2] >= Base)
=============================================================================
