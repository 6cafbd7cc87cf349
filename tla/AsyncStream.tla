---------------------------- MODULE AsyncStream ----------------------------
(***************************************************************************)
(* The layers of libnano2's AsyncStream (nanosoft/asyncstream.cpp): what   *)
(* the program puts goes through deflate, then TLS, into the daemon's      *)
(* buffer for the descriptor, and what comes from the socket goes back     *)
(* through TLS and inflate to onRead().  Data are counted in units; a unit *)
(* bears its number in each layer it went through, 0 for none, as a codec  *)
(* understands a unit only if it has had all those before it.  zlib,       *)
(* gnutls, the peer and the application are external: the application      *)
(* answers a request for TLS or compression, then turns it on, and the     *)
(* peer asks, waits for the answer and follows.                            *)
(***************************************************************************)
EXTENDS Integers, Sequences, SequencesExt

CONSTANTS
  Room,      \* units the daemon's buffer takes for this descriptor
  Chunk,     \* ZLIB_DEFLATE_CHUNK_SIZE
  Lens,      \* bound: the lengths of what the application puts
  MaxTaken,  \* bound: units put
  MaxCoded,  \* bound: units a codec has been given, those refused included
  MaxSent,   \* bound: units of the peer
  MaxAsks    \* bound: requests and renegotiations of the peer

VARIABLES
  stream,    \* the AsyncStream, with its codecs and its buffer
  peer,      \* the other end
  inbox      \* units that have come and have not been read

vars == <<stream, peer, inbox>>

Unit(kind, id) == [kind |-> kind, id |-> id, z |-> 0, r |-> 0]

Init ==
  /\ stream = [tls_status |-> "off", compression |-> FALSE,
               avail_out |-> 0,      \* strm_tx.avail_out
               pending |-> <<>>,     \* zlib: output there was no room for
               ztx |-> 0, zrx |-> 0, \* zlib: units deflated and inflated
               rtx |-> 0, rrx |-> 0, \* gnutls: units encrypted and decrypted
               held |-> <<>>,        \* gnutls: a record the buffer refused
               step |-> "hello",     \* gnutls: what the handshake does next
               buffer |-> <<>>,
               taken |-> 0,          \* history: units put() said TRUE for
               got |-> 0,            \* history: units onRead() was given
               ruined |-> FALSE,     \* history: a codec was refused
               left |-> FALSE,       \* history: TLS was turned off
               stalled |-> FALSE,    \* history: a handshake no event resumes
               garbled |-> FALSE,    \* onRead() was given what is no text
               wild |-> FALSE]       \* data were read beyond their end
  /\ peer = [tls |-> "off", zip |-> FALSE, zrx |-> 0, rrx |-> 0, ztx |-> 0, rtx |-> 0,
             step |-> "hello", waits |-> FALSE, heard |-> 0, sent |-> 0, asks |-> 0,
             broken |-> FALSE]
  /\ inbox = <<>>

Answer(ok, s) == [ok |-> ok, s |-> s]

-----------------------------------------------------------------------------
(* Output. *)

(* NetDaemon::put() takes all or nothing. *)
PutInBuffer(s, units) ==
  IF Len(s.buffer) + Len(units) <= Room
  THEN Answer(TRUE, [s EXCEPT !.buffer = @ \o units])
  ELSE Answer(FALSE, s)

(* gnutls_record_send(), over tls_push().  A record the buffer refuses is  *)
(* kept, and the next call sends that one, whatever it is given.           *)
RecordSend(s, units) ==
  LET record == IF s.held # <<>> THEN s.held
                ELSE [i \in DOMAIN units |-> [units[i] EXCEPT !.r = s.rtx + i]]
      put == PutInBuffer([s EXCEPT !.rtx = IF s.held # <<>> THEN @ ELSE @ + Len(units)], record)
  IN [ret |-> IF put.ok THEN Len(record) ELSE -1,
      s |-> [put.s EXCEPT !.held = IF put.ok THEN <<>> ELSE record]]

(* The loop of putInTLS(): len is unsigned, and what it was told to have   *)
(* sent may be more than it had.                                           *)
RECURSIVE SendRecords(_, _)
SendRecords(s, units) ==
  IF units = <<>> THEN Answer(TRUE, s)
  ELSE LET sent == RecordSend(s, units)
       IN IF sent.ret < 0 THEN Answer(FALSE, sent.s)
          ELSE IF sent.ret > Len(units) THEN Answer(TRUE, [sent.s EXCEPT !.wild = TRUE])
          ELSE SendRecords(sent.s, SubSeq(units, sent.ret + 1, Len(units)))

PutInTLS(s, units) ==
  CASE s.tls_status = "on" -> SendRecords(s, units)
    [] s.tls_status = "handshake" -> Answer(FALSE, s)
    [] s.tls_status = "off" -> PutInBuffer(s, units)

(* The loop of putDeflate(), over the output of deflate(). *)
RECURSIVE PutChunks(_, _)
PutChunks(s, out) ==
  LET have == IF Len(out) < Chunk THEN Len(out) ELSE Chunk
      rest == SubSeq(out, have + 1, Len(out))
      put == PutInTLS(s, SubSeq(out, 1, have))
  IN IF ~put.ok
     THEN Answer(FALSE, [put.s EXCEPT !.avail_out = Chunk - have, !.pending = rest])
     ELSE IF have = Chunk THEN PutChunks(put.s, rest)
     ELSE Answer(TRUE, [put.s EXCEPT !.avail_out = 0, !.pending = <<>>])

(* Mutant of PutDeflate: the loop is left once a chunk is not filled and   *)
(* what it had is not put.                                                 *)
PutFullChunks(s, units) ==
  LET out == s.pending \o [i \in DOMAIN units |-> [units[i] EXCEPT !.z = s.ztx + i]]
      full == (Len(out) \div Chunk) * Chunk
  IN PutChunks([s EXCEPT !.ztx = @ + Len(units)], SubSeq(out, 1, full))

(* The loop runs only while avail_out is 0, and a refused chunk that was   *)
(* not full leaves it at what was free: the next put() does nothing.       *)
PutDeflate(s, units) ==
  IF s.avail_out # 0 THEN Answer(TRUE, [s EXCEPT !.avail_out = 0])
  ELSE PutChunks([s EXCEPT !.ztx = @ + Len(units)],
                 s.pending \o [i \in DOMAIN units |-> [units[i] EXCEPT !.z = s.ztx + i]])

PutInCompressor(s, units) ==
  IF s.compression THEN PutDeflate(s, units) ELSE PutInTLS(s, units)

(* put(), for data or for an answer of the application. *)
Put(s, kind, len) ==
  LET put == PutInCompressor(s, [i \in 1..len |-> Unit(kind, s.taken + i)])
  IN IF put.ok THEN Answer(TRUE, [put.s EXCEPT !.taken = @ + len])
     ELSE Answer(FALSE, [put.s EXCEPT !.ruined = @ \/ s.compression \/ s.tls_status = "on"])

-----------------------------------------------------------------------------
(* Modes. *)

EnableTLS(s) ==
  IF s.tls_status # "off" THEN s
  ELSE [s EXCEPT !.tls_status = "handshake", !.step = "hello", !.rtx = 0, !.rrx = 0,
                 !.held = <<>>]

EnableCompression(s) ==
  IF s.compression THEN s
  ELSE [s EXCEPT !.compression = TRUE, !.ztx = 0, !.zrx = 0, !.avail_out = 0,
                 !.pending = <<>>]

(* gnutls_bye() sends its record if the buffer takes it, and cannot wait   *)
(* for the peer's, which comes to a stream without TLS.                    *)
DisableTLS(s) ==
  LET bye == RecordSend(s, <<Unit("bye", 0)>>)
      after == IF s.tls_status = "on" THEN bye.s ELSE s
  IN [after EXCEPT !.tls_status = "off", !.held = <<>>, !.left = TRUE,
                   !.ruined = @ \/ s.tls_status = "handshake" \/ bye.ret # 1 \/ s.held # <<>>]

-----------------------------------------------------------------------------
(* Input. *)

(* The application: it answers a request, and if put() took the answer     *)
(* turns on what was asked for.                                            *)
OnRead(s, kind) ==
  LET Reply(answer, Enable(_)) ==
        LET put == Put(s, answer, 1) IN IF put.ok THEN Enable(put.s) ELSE put.s
  IN CASE kind = "starttls" -> Reply("proceed", EnableTLS)
       [] kind = "compress" -> Reply("compressed", EnableCompression)
       [] OTHER -> s

(* putInDecompressor() and handleInflate(): the text comes out only if the *)
(* layers that are on are those the unit was sent through.                 *)
PutInDecompressor(s, u, clear) ==
  IF clear /\ u.z = (IF s.compression THEN s.zrx + 1 ELSE 0) /\ u.id = s.got + 1
  THEN OnRead([s EXCEPT !.zrx = u.z, !.got = u.id], u.kind)
  ELSE [s EXCEPT !.garbled = TRUE]

(* read() until EAGAIN.  That onRead() may have turned TLS on is not seen. *)
RECURSIVE ReadRaw(_, _)
ReadRaw(s, in) ==
  IF in = <<>> \/ s.garbled THEN <<s, in>>
  ELSE ReadRaw(PutInDecompressor(s, Head(in), Head(in).r = 0), Tail(in))

(* gnutls_record_recv() until EAGAIN.  A hello in the midst of a session   *)
(* ends the loop; gnutls has read it, and no event will say so.            *)
RECURSIVE ReadRecords(_, _)
ReadRecords(s, in) ==
  IF in = <<>> \/ s.garbled THEN <<s, in>>
  ELSE LET u == Head(in)
       IN IF u.kind = "hello"
          THEN <<[s EXCEPT !.tls_status = "handshake", !.step = "flight", !.stalled = TRUE],
                 Tail(in)>>
          ELSE ReadRecords(PutInDecompressor([s EXCEPT !.rrx = @ + 1], u, u.r = s.rrx + 1),
                           Tail(in))

(* gnutls_handshake(), over tls_push() and tls_pull(): it goes as far as   *)
(* what has come and what the buffer takes allow.  Only input resumes it.  *)
RECURSIVE Handshake(_, _)
Handshake(s, in) ==
  LET flight == PutInBuffer(s, <<Unit("flight", 0)>>)
      Next(step) == [flight.s EXCEPT !.step = step]
  IN CASE s.step \in {"hello", "finished"} ->
            IF in = <<>> THEN <<s, in>>
            ELSE Handshake([s EXCEPT !.step = IF @ = "hello" THEN "flight" ELSE "last flight"],
                           Tail(in))
       [] s.step = "done" -> <<s, in>>
       [] OTHER ->
            IF ~flight.ok THEN <<[s EXCEPT !.stalled = TRUE], in>>
            ELSE Handshake(Next(IF s.step = "flight" THEN "finished" ELSE "done"), in)

(* Mutant of HandleRead: a finished handshake does not turn TLS on. *)
HandleReadForgets(s, in) ==
  CASE s.tls_status = "handshake" -> Handshake(s, in)
    [] s.tls_status = "on" -> ReadRecords(s, in)
    [] s.tls_status = "off" -> ReadRaw(s, in)

(* Mutant of HandleRead: a stream with TLS is read as one without. *)
HandleReadRaw(s, in) ==
  IF s.tls_status = "handshake" /\ Handshake(s, in)[1].step # "done"
  THEN Handshake(s, in)
  ELSE ReadRaw([s EXCEPT !.tls_status = IF @ = "off" THEN @ ELSE "on"], in)

HandleRead(s, in) ==
  CASE s.tls_status = "handshake" ->
         LET after == Handshake(s, in)
         IN IF after[1].step = "done"
            THEN ReadRecords([after[1] EXCEPT !.tls_status = "on"], after[2])
            ELSE after
    [] s.tls_status = "on" -> ReadRecords(s, in)
    [] s.tls_status = "off" -> ReadRaw(s, in)

-----------------------------------------------------------------------------
(* The peer. *)

Broken(p) == [p EXCEPT !.broken = TRUE]

(* The peer hears a unit: it undoes the layers it has itself turned on. *)
Hear(p, u) ==
  CASE u.kind = "flight" ->
         IF p.tls # "handshake" THEN Broken(p)
         ELSE IF p.step = "flight" THEN [p EXCEPT !.step = "finished"]
         ELSE [p EXCEPT !.step = "hello", !.tls = "on"]
    [] u.kind = "bye" -> [p EXCEPT !.tls = "closing"]
    [] OTHER ->
         IF \/ u.r # (IF p.tls \in {"on", "handshake"} THEN p.rrx + 1 ELSE 0)
            \/ u.z # (IF p.zip THEN p.zrx + 1 ELSE 0)
            \/ u.id # p.heard + 1
         THEN Broken(p)
         ELSE [p EXCEPT !.rrx = u.r, !.zrx = u.z, !.heard = u.id,
                        !.tls = IF u.kind = "proceed" THEN "handshake" ELSE @,
                        !.zip = @ \/ u.kind = "compressed",
                        !.waits = @ /\ u.kind = "data"]

(* What the peer says goes through the layers it has turned on. *)
Say(p, kind) ==
  [kind |-> kind, id |-> p.sent + 1,
   z |-> IF p.zip THEN p.ztx + 1 ELSE 0, r |-> IF p.tls = "on" THEN p.rtx + 1 ELSE 0]

Sends(kind) ==
  /\ peer.tls \in {"off", "on"} /\ ~peer.waits /\ ~peer.broken
  /\ peer.sent < MaxSent
  /\ inbox' = Append(inbox, Say(peer, kind))
  /\ peer' = [peer EXCEPT !.sent = @ + 1, !.ztx = Say(peer, kind).z, !.rtx = Say(peer, kind).r,
                          !.waits = kind # "data", !.asks = IF kind = "data" THEN @ ELSE @ + 1]
  /\ UNCHANGED stream

Asks(kind) ==
  /\ peer.asks < MaxAsks
  /\ IF kind = "starttls" THEN peer.tls = "off" ELSE ~peer.zip
  /\ Sends(kind)

Renegotiates ==
  /\ peer.tls = "on" /\ ~peer.waits /\ peer.asks < MaxAsks
  /\ peer' = [peer EXCEPT !.tls = "handshake", !.asks = @ + 1]
  /\ UNCHANGED <<stream, inbox>>

(* The peer's part of a handshake: its hello, and its answer to a flight. *)
Follows ==
  /\ peer.tls = "handshake" /\ peer.step \in {"hello", "finished"}
  /\ inbox' = Append(inbox, Unit(peer.step, 0))
  /\ peer' = [peer EXCEPT !.step = IF @ = "hello" THEN "flight" ELSE "last flight"]
  /\ UNCHANGED stream

SaysBye ==
  /\ peer.tls = "closing"
  /\ inbox' = Append(inbox, [Unit("bye", 0) EXCEPT !.r = peer.rtx + 1])
  /\ peer' = [peer EXCEPT !.tls = "off", !.rtx = 0, !.rrx = 0, !.step = "hello"]
  /\ UNCHANGED stream

-----------------------------------------------------------------------------

Puts(len) ==
  /\ stream.taken + len <= MaxTaken
  /\ {stream.ztx + len, stream.rtx + len} \subseteq 0..MaxCoded
  /\ stream' = Put(stream, "data", len).s
  /\ UNCHANGED <<peer, inbox>>

Leaves ==
  /\ stream.tls_status # "off"
  /\ stream' = DisableTLS(stream)
  /\ UNCHANGED <<peer, inbox>>

(* onEvent() with EPOLLIN. *)
Readable ==
  /\ inbox # <<>>
  /\ \E after \in {HandleRead(stream, inbox)} : stream' = after[1] /\ inbox' = after[2]
  /\ UNCHANGED peer

(* onEvent() with EPOLLOUT: handleWrite() pushes n units. *)
Writable(n) ==
  /\ n \in 1..Len(stream.buffer)
  /\ peer' = FoldLeft(Hear, peer, SubSeq(stream.buffer, 1, n))
  /\ stream' = [stream EXCEPT !.buffer = SubSeq(@, n + 1, Len(@))]
  /\ UNCHANGED inbox

(* Nothing is said of a program that has read beyond its data, or that     *)
(* took noise for text.                                                    *)
Next ==
  /\ ~stream.wild /\ ~stream.garbled
  /\ \/ \E len \in Lens : Puts(len)
     \/ Leaves
     \/ Readable
     \/ \E n \in 1..Room : Writable(n)
     \/ Sends("data")
     \/ \E kind \in {"starttls", "compress"} : Asks(kind)
     \/ Renegotiates
     \/ Follows
     \/ SaysBye

Spec ==
  /\ Init /\ [][Next]_vars
  /\ WF_vars(~stream.wild /\ ~stream.garbled /\ Readable)
  /\ WF_vars(~stream.wild /\ ~stream.garbled /\ \E n \in 1..Room : Writable(n))
  /\ WF_vars(~stream.wild /\ ~stream.garbled /\ Follows)

-----------------------------------------------------------------------------

(* Whatever layers are turned on while data are on their way, the peer     *)
(* understands all that put() answered TRUE for, in order, once it has had *)
(* what the buffer holds -- until a put() through a codec is refused: then *)
(* a part of it is on its way, and the next one may vanish.                *)
Intact ==
  ~stream.ruined =>
    \E p \in {FoldLeft(Hear, peer, stream.buffer)} : ~p.broken /\ p.heard = stream.taken

(* No hello, record or deflated data is ever given to onRead() as text,    *)
(* and no text is lost or comes twice, until the program turns TLS off,    *)
(* which it does without waiting for the peer's last record, or a codec is *)
(* refused an answer, which gnutls sends when the program thinks no more   *)
(* of it.                                                                  *)
ReadAsSent == stream.garbled => stream.left \/ stream.ruined

(* A handshake ends, unless the buffer refuses one of its flights or it is *)
(* the peer that begins it in the midst of a session: then gnutls waits to *)
(* be called, and only the peer's next byte would call it.  Nor does it if *)
(* the answer that was to open it has vanished, as above.  The peer goes   *)
(* on with the protocol: fatal errors and its end are left out.            *)
HandshakeEnds ==
  stream.tls_status = "handshake" ~>
    \/ stream.tls_status # "handshake"
    \/ stream.stalled \/ stream.ruined
=============================================================================
