----------------------------- MODULE AvcStream -----------------------------
(***************************************************************************)
(* The packets between ffcairo's feeding agent and its server (AVCStream,  *)
(* AVCFeedAgent): the agent cuts the muxer's data into packets, TCP brings *)
(* them in fragments of any length, and the server puts packets together.  *)
(* Data are the numbers of the muxer's bytes.  A byte of a length takes    *)
(* fewer values than the code's 256, so that short packets use both.       *)
(***************************************************************************)
LOCAL INSTANCE Integers
LOCAL INSTANCE Sequences
LOCAL INSTANCE SequencesExt

CONSTANTS
  ByteValues,   \* values of a length's byte: 256
  PayloadMax,   \* sizeof(avc_payload_t::buf): 1020
  SendRoom,     \* bytes the daemon's buffer takes for the agent
  DataSizes,    \* bound: sizes of what the muxer writes at once
  MaxData       \* bound: bytes the muxer writes

VARIABLES
  agent,        \* [up, data, buffer]: data counts the muxer's bytes
  server,       \* [buf, packets]: AVCStream::buf, and what onPacket() had
  tcp,          \* bytes on their way
  sent          \* history: the packets that sendPacket() took

avc_vars == <<agent, server, tcp, sent>>

HeaderLen == 4

AvcInit ==
  /\ agent = [up |-> FALSE, data |-> 0, buffer |-> <<>>]
  /\ server = [buf |-> <<>>, packets |-> <<>>]
  /\ tcp = <<>>
  /\ sent = <<>>

(* avc_set_packet_len() and avc_packet_len() *)
SetPacketLen(len) ==
  IF len \in HeaderLen .. ByteValues * ByteValues - 1
  THEN <<len % ByteValues, len \div ByteValues>> ELSE <<0, 0>>

PacketLen(bytes) == bytes[1] + bytes[2] * ByteValues

Packet(type, channel, payload) ==
  SetPacketLen(Len(payload) + HeaderLen) \o <<type, channel>> \o payload

(* The packets of sendData(). *)
RECURSIVE Payloads(_)
Payloads(data) ==
  LET size == IF Len(data) > PayloadMax THEN PayloadMax ELSE Len(data)
  IN IF data = <<>> THEN <<>>
     ELSE <<Packet("payload", 2, SubSeq(data, 1, size))>>
            \o Payloads(SubSeq(data, size + 1, Len(data)))

(* sendPacket() for each of them: put() takes all of a packet or nothing,  *)
(* and a packet that is refused ends the agent.                            *)
SendPackets(packets, from) ==
  LET TakenBytes(n) == FlattenSeq(SubSeq(packets, 1, n))
      fit == CHOOSE n \in 0..Len(packets) :
               /\ Len(from) + Len(TakenBytes(n)) <= SendRoom
               /\ n < Len(packets) => Len(from) + Len(TakenBytes(n + 1)) > SendRoom
  IN [buffer |-> from \o TakenBytes(fit), taken |-> SubSeq(packets, 1, fit),
      ok |-> fit = Len(packets)]

OnConnect ==
  /\ ~agent.up /\ sent = <<>>
  /\ \E s \in {SendPackets(<<Packet("simple", 0, <<>>)>>, <<>>)} :
       /\ agent' = [agent EXCEPT !.up = s.ok, !.buffer = s.buffer]
       /\ sent' = s.taken
  /\ UNCHANGED <<server, tcp>>

SendData(size) ==
  /\ agent.up /\ agent.data + size <= MaxData
  /\ \E s \in {SendPackets(Payloads([i \in 1..size |-> agent.data + i]), agent.buffer)} :
       /\ agent' = [up |-> s.ok, data |-> agent.data + size,
                    buffer |-> IF s.ok THEN s.buffer ELSE <<>>]
       /\ sent' = sent \o s.taken
  /\ UNCHANGED <<server, tcp>>

(* handleWrite() of the agent: write() takes n bytes. *)
PushBytes(n) ==
  /\ n <= Len(agent.buffer)
  /\ agent' = [agent EXCEPT !.buffer = SubSeq(@, n + 1, Len(@))]
  /\ tcp' = tcp \o SubSeq(agent.buffer, 1, n)
  /\ UNCHANGED <<server, sent>>

-----------------------------------------------------------------------------

First(n, s) == SubSeq(s, 1, IF n < Len(s) THEN n ELSE Len(s))

(* Mutant of OnRead: a fragment is left when its first packet is complete. *)
OnReadOnce(s, data) ==
  LET head == IF Len(s.buf) < 2 THEN 2 - Len(s.buf) ELSE 0
      got == s.buf \o First(head, data)
      rest == SubSeq(data, head + 1, Len(data))
      need == PacketLen(got) - Len(got)
      full == got \o First(need, rest)
  IN IF Len(got) < 2 THEN [s EXCEPT !.buf = got]
     ELSE IF Len(full) < PacketLen(got) THEN [s EXCEPT !.buf = full]
     ELSE [buf |-> <<>>, packets |-> Append(s.packets, full)]

(* onRead(): it fills buf up to two bytes, which hold the length, and then *)
(* up to the whole packet, as often as the fragment allows.                *)
RECURSIVE OnRead(_, _)
OnRead(s, data) ==
  LET head == IF Len(s.buf) < 2 THEN 2 - Len(s.buf) ELSE 0
      got == s.buf \o First(head, data)
      rest == SubSeq(data, head + 1, Len(data))
      need == PacketLen(got) - Len(got)
      full == got \o First(need, rest)
      after == SubSeq(rest, need + 1, Len(rest))
      next == [buf |-> <<>>, packets |-> Append(s.packets, full)]
  IN IF Len(got) < 2 THEN [s EXCEPT !.buf = got]
     ELSE IF Len(full) < PacketLen(got) THEN [s EXCEPT !.buf = full]
     ELSE IF after = <<>> THEN next ELSE OnRead(next, after)

Fragment(n) ==
  /\ n <= Len(tcp)
  /\ server' = OnRead(server, SubSeq(tcp, 1, n))
  /\ tcp' = SubSeq(tcp, n + 1, Len(tcp))
  /\ UNCHANGED <<agent, sent>>

AvcNext ==
  \/ OnConnect
  \/ \E size \in DataSizes : SendData(size)
  \/ \E n \in 1..SendRoom : PushBytes(n) \/ Fragment(n)

-----------------------------------------------------------------------------

(* Whatever fragments TCP makes, the server is given the packets that were *)
(* sent, whole, in order and once, and while the agent runs the rest of    *)
(* them is in its buffer or on its way; an agent that ended in the midst   *)
(* of a packet has it never delivered.                                     *)
PacketsWhole ==
  /\ IsPrefix(server.packets, sent)
  /\ agent.up =>
       FlattenSeq(server.packets) \o server.buf \o tcp \o agent.buffer = FlattenSeq(sent)
  /\ \E n \in 0..agent.data :
       FlattenSeq([i \in DOMAIN server.packets |->
                     SubSeq(server.packets[i], HeaderLen + 1, Len(server.packets[i]))])
         = [i \in 1..n |-> i]
=============================================================================
