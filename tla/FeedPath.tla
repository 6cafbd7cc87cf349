------------------------------ MODULE FeedPath ------------------------------
(***************************************************************************)
(* The way of a feeder's picture through ffcairo, and the pace of the      *)
(* scene that draws it.  avc_feeder reads frames of a camera, encodes,     *)
(* muxes and sends them (AVCFeedAgent); a channel of the server queues     *)
(* what comes, and demuxes and decodes from the queue only while there is  *)
(* more in it than a threshold, because libav cannot wait for data         *)
(* (AVCChannel).  The packets are whole and in order: AvcStream shows      *)
(* that.  libav's muxer, demuxer and codecs are external; the unit of data *)
(* is one payload.                                                         *)
(***************************************************************************)
LOCAL INSTANCE Integers
LOCAL INSTANCE Sequences

CONSTANTS
  FrameMax,     \* the most payloads of a frame
  AvioSize,     \* payloads of an AVIO buffer: 4096 bytes
  ProbeMax,     \* the most that openAVIO() reads: the header and probesize
  StartAt,      \* queue_size that openFeed() waits for: 80 * 1020 bytes
  DrawAt,       \* queue_size that readFrame() waits for: 128 * 1024 bytes
  Room,         \* packets that the feeder's output buffer and TCP take
  MaxPictures,  \* bound: frames that the camera gives
  Gaps,         \* bound: times between two calls of the scene's timer
  Horizon       \* bound: milliseconds of the scene's clock

(* A frame is far shorter than the 128K that wait when one is read, and    *)
(* the header and the probe shorter than the 80K that wait for them.       *)
ASSUME ThresholdAssumption ==
  /\ FrameMax \in Nat \ {0} /\ AvioSize \in Nat \ {0} /\ ProbeMax \in Nat
  /\ StartAt \in Nat /\ DrawAt \in Nat /\ Room \in Nat
  /\ FrameMax + AvioSize <= DrawAt + 1 /\ ProbeMax <= StartAt + 1
  /\ StartAt <= DrawAt

VARIABLES
  feeder,       \* [run, iFrame, encoded]
  wire,         \* packets put by the feeder which the server has not read
  channel,      \* [state, queue, ahead]: ahead is what libav has read of it
  decoded,      \* history: the frames that AVCChannel::handleFrame() had
  served        \* "yes", or why the server has called exit()

feed_vars == <<feeder, wire, channel, decoded, served>>

Torn == 0

FeedInit ==
  /\ feeder = [run |-> "starting", iFrame |-> 0, encoded |-> 0]
  /\ wire = <<>>
  /\ channel = [state |-> "wait", queue |-> <<>>, ahead |-> <<>>]
  /\ decoded = <<>>
  /\ served = "yes"

-----------------------------------------------------------------------------
(* The feeder. *)

(* A frame's payloads; the muxer's header is frame 0. *)
PayloadsOf(n, size) ==
  [i \in 1..size |-> [type |-> "payload", frame |-> n, part |-> i, size |-> size]]

Header == PayloadsOf(0, 1)

(* exit() loses what the process still buffers, and the kernel has sent    *)
(* any part of the rest.                                                   *)
FeederExits(f, sent) ==
  /\ feeder' = [f EXCEPT !.run = "ended"]
  /\ \E n \in 0..Len(sent) : wire' = SubSeq(sent, 1, n)

(* A step of main(): what fails ends the program. *)
StartStep(from, to) ==
  /\ feeder.run = from
  /\ \E run \in {to, "ended"} : feeder' = [feeder EXCEPT !.run = run]
  /\ UNCHANGED <<wire, channel, decoded, served>>

(* openWebcam() *)
OpenWebcam == StartStep("starting", "webcam_open")

(* openVideoStream(): findVideoStream() takes the first stream of video.   *)
FindVideoStream == StartStep("webcam_open", "stream_found")
OpenDecoder == StartStep("stream_found", "decoder_open")

(* openFeed() *)
CreateMuxer == StartStep("decoder_open", "muxer_created")
OpenEncoder == StartStep("muxer_created", "encoder_open")
CreatePicture == StartStep("encoder_open", "ready")

(* onConnect(): the command, and the header that openAVIO() writes through *)
(* write_packet(); then main() puts its greeting.                          *)
OnConnect ==
  /\ feeder' = [feeder EXCEPT !.run = "up"]
  /\ wire' = <<[type |-> "new_feed"]>> \o Header \o <<[type |-> "hello"]>>

(* connectEx() calls onConnect() as soon as connect() has begun, so the    *)
(* command and the header are the first data.  onConnectFault() is empty:  *)
(* the timer then goes on without a header.                                *)
FeederConnects ==
  /\ feeder.run = "ready"
  /\ \/ feeder' = [feeder EXCEPT !.run = "ended"] /\ UNCHANGED wire
     \/ feeder' = [feeder EXCEPT !.run = "headerless"] /\ UNCHANGED wire
     \/ OnConnect
  /\ UNCHANGED <<channel, decoded, served>>

FeederStarts ==
  \/ OpenWebcam \/ FindVideoStream \/ OpenDecoder
  \/ CreateMuxer \/ OpenEncoder \/ CreatePicture \/ FeederConnects

(* handleFrame() and sendFrame(), for frames of the given sizes: the       *)
(* encoder takes a frame whose pts is above the last one, iFrame++ twice.  *)
FramesOf(sizes) ==
  LET Sent(i) == IF i \in DOMAIN sizes THEN PayloadsOf(feeder.encoded + i, sizes[i]) ELSE <<>>
  IN Sent(1) \o Sent(2)

Grabbed(sizes) ==
  [feeder EXCEPT !.iFrame = @ + 2 * Len(sizes), !.encoded = @ + Len(sizes)]

(* Bound: a packet of the camera gives no more than two frames. *)
CameraPackets == UNION {[1..n -> 1..FrameMax] : n \in 0..2}

(* onTimer(): readFrame() gives the decoder a packet, which yields any     *)
(* number of frames; a packet of another stream yields none.  sendData()   *)
(* puts payloads until one is refused, and no frame is encoded after that. *)
(* Without a header there is no muxer to write to.                         *)
FeederTimer ==
  /\ feeder.run = "up"
  /\ \E sizes \in CameraPackets :
       LET sent == wire \o FramesOf(sizes)
       IN /\ feeder.encoded + Len(sizes) <= MaxPictures
          /\ Len(sizes) = 2 => Len(wire) + sizes[1] <= Room
          /\ IF Len(sent) <= Room THEN feeder' = Grabbed(sizes) /\ wire' = sent
             ELSE FeederExits(Grabbed(sizes), SubSeq(sent, 1, Room))
  /\ UNCHANGED <<channel, decoded, served>>

(* readFrame() is false at the end, at an error and when there is nothing  *)
(* to read yet; the encoder may fail; the server may close.                *)
FeederFails ==
  /\ feeder.run \in {"up", "headerless"}
  /\ FeederExits(feeder, wire)
  /\ UNCHANGED <<channel, decoded, served>>

-----------------------------------------------------------------------------
(* The channel. *)

First(n, s) == SubSeq(s, 1, IF n < Len(s) THEN n ELSE Len(s))
Rest(n, s) == SubSeq(s, n + 1, Len(s))

(* real_read_packet(), called by libav n times to fill its buffer. *)
ReadPacket(c, n) ==
  [c EXCEPT !.ahead = @ \o First(n * AvioSize, c.queue), !.queue = Rest(n * AvioSize, @)]

(* libav asks for data until it has what it wants, or there are none. *)
ReadUntil(c, Enough(_)) ==
  LET ends == {n \in 0..Len(c.queue) :
                 Enough(ReadPacket(c, n).ahead) \/ ReadPacket(c, n).queue = <<>>}
  IN ReadPacket(c, CHOOSE n \in ends : \A m \in ends : n <= m)

HoldsFrame(data) == data # <<>> /\ Len(data) >= data[1].size

(* FFCDemuxer::readFrame() gives the next frame to handleFrame(), the      *)
(* header to nobody.  When there are no data left libav gives what it has. *)
ReadFrame(draw) ==
  LET c == ReadUntil(draw.c, HoldsFrame)
      Given(n) == IF n = 0 THEN draw.frames ELSE Append(draw.frames, n)
  IN IF HoldsFrame(c.ahead)
     THEN [c |-> [c EXCEPT !.ahead = Rest(c.ahead[1].size, @)], frames |-> Given(c.ahead[1].frame)]
     ELSE [c |-> [c EXCEPT !.ahead = <<>>],
           frames |-> IF c.ahead = <<>> THEN draw.frames ELSE Append(draw.frames, Torn)]

(* Mutant of DrawTurn: a frame is read while there is anything queued. *)
DrawAnything(draw) == IF draw.c.queue = <<>> THEN draw ELSE ReadFrame(draw)

(* A turn of handleFeedData()'s loop, which ends at the threshold and when *)
(* readFrame() fails: the queue is empty then.                             *)
DrawTurn(draw) == IF Len(draw.c.queue) <= DrawAt THEN draw ELSE ReadFrame(draw)

(* Mutant of DrawFrames: one frame for each packet that comes. *)
DrawOne(c, frames) == DrawTurn([c |-> c, frames |-> frames])

(* The loop: a turn that is not the last takes a payload at least. *)
DrawFrames(c, frames) ==
  LET turns[n \in 0..Len(c.ahead) + Len(c.queue)] ==
        IF n = 0 THEN [c |-> c, frames |-> frames] ELSE DrawTurn(turns[n - 1])
  IN turns[Len(c.ahead) + Len(c.queue)]

(* openAVIO(): libav reads the header and the first frames, which it       *)
(* keeps.                                                                  *)
OpenAVIO(c, probe) ==
  LET Probed(data) == Len(data) >= probe IN ReadUntil(c, Probed)

(* openFeed(), unless memory, the context or the input is refused. *)
OpenFeed(c) == {OpenAVIO(c, probe) : probe \in 1..ProbeMax}

(* openVideoStream(), unless there is no video, decoder or picture. *)
OpenVideoStream(c) == [c EXCEPT !.state = "streaming"]

(* handleFeedData() after a payload was queued.  What cannot be opened     *)
(* ends the server.                                                        *)
HandleFeedData(c) ==
  LET Drawn(s) == /\ channel' = DrawFrames(s, decoded).c
                  /\ decoded' = DrawFrames(s, decoded).frames
                  /\ UNCHANGED served
      Refused(why, s) == served' = why /\ channel' = s /\ UNCHANGED decoded
  IN IF c.state = "streaming" THEN Drawn(c)
     ELSE IF Len(c.queue) <= StartAt THEN channel' = c /\ UNCHANGED <<decoded, served>>
     ELSE \/ Refused("feed_not_opened", c)
          \/ \E input \in OpenFeed(c) :
               Refused("no_video", input) \/ Drawn(OpenVideoStream(input))

(* queuePacket(): pktbuf takes its blocks from the pool that the viewers'  *)
(* output buffers are in too (Conference), which may be out of them at any *)
(* time; that ends the server.                                             *)
QueuePacket(payload) ==
  \/ served' = "queue_full" /\ UNCHANGED <<channel, decoded>>
  \/ HandleFeedData([channel EXCEPT !.queue = Append(@, payload)])

(* onPacket() *)
ChannelPacket ==
  /\ wire # <<>> /\ served = "yes" /\ channel.state # "left"
  /\ wire' = Tail(wire)
  /\ CASE Head(wire).type = "hello" -> UNCHANGED <<channel, decoded, served>>
       [] Head(wire).type = "new_feed" ->
            /\ channel' = [channel EXCEPT !.state = IF @ = "wait" THEN "open" ELSE @]
            /\ UNCHANGED <<decoded, served>>
       [] OTHER -> IF channel.state = "wait" THEN UNCHANGED <<channel, decoded, served>>
                   ELSE QueuePacket(Head(wire))
  /\ UNCHANGED feeder

(* onPeerDown(): the picture goes with the feed. *)
FeedDown ==
  /\ feeder.run = "ended" /\ wire = <<>> /\ served = "yes" /\ channel.state # "left"
  /\ channel' = [channel EXCEPT !.state = "left"]
  /\ UNCHANGED <<feeder, wire, decoded, served>>

FeedNext ==
  \/ FeederStarts \/ FeederTimer \/ FeederFails
  \/ ChannelPacket \/ FeedDown

-----------------------------------------------------------------------------
(* The scene's timer: avc_server calls it at each turn of the daemon, and  *)
(* it emits a frame when one is due.                                       *)

ASSUME GapsAssumption == Gaps \subseteq Nat

VARIABLES
  clock,        \* ms_time()
  scene,        \* [start, next, iFrame]: start_pts, next_pts
  encoder,      \* [pts, taken]: the last pts it took, and how many it took
  late          \* history: a gap was longer than half a frame

pace_vars == <<clock, scene, encoder, late>>

FrameTime == 40

(* initStreaming() plans the first frame in 40 ms, and lets the timer come *)
(* 2 ms earlier.                                                           *)
PaceInit ==
  /\ clock = 0
  /\ scene = [start |-> FrameTime, next |-> FrameTime - 2, iFrame |-> 0]
  /\ encoder = [pts |-> -1, taken |-> 0]
  /\ late = FALSE

(* av_rescale_q() from milliseconds to frames: the nearest, and away from  *)
(* zero from the middle of two.                                            *)
Rescale(ms) ==
  IF ms >= 0 THEN (2 * ms + FrameTime) \div (2 * FrameTime)
  ELSE -((FrameTime - 2 * ms) \div (2 * FrameTime))

(* Mutant of FrameDue: the next frame is planned from now. *)
FrameDueFromNow(now) == [scene EXCEPT !.next = now + FrameTime, !.iFrame = @ + 1]

FrameDue(now) == [scene EXCEPT !.next = @ + FrameTime, !.iFrame = @ + 1]

(* emitFrame() and sendFrame(): the encoder refuses a frame whose pts is   *)
(* not above the last one, and failStreaming() does nothing.               *)
EmitFrame(now) ==
  LET pts == Rescale(now - scene.start)
  IN encoder' = IF pts > encoder.pts THEN [pts |-> pts, taken |-> encoder.taken + 1] ELSE encoder

(* onTimer(), gap milliseconds after the last call. *)
SceneTimer(gap) ==
  /\ clock + gap <= Horizon
  /\ clock' = clock + gap
  /\ late' = (late \/ 2 * gap > FrameTime)
  /\ IF clock' >= scene.next
     THEN scene' = FrameDue(clock') /\ EmitFrame(clock')
     ELSE UNCHANGED <<scene, encoder>>

PaceNext == \E gap \in Gaps : SceneTimer(gap)

(* The feed and a scene. *)
FeedSpec ==
  /\ FeedInit /\ PaceInit
  /\ [][(FeedNext /\ UNCHANGED pace_vars) \/ (PaceNext /\ UNCHANGED feed_vars)]_<<feed_vars, pace_vars>>

-----------------------------------------------------------------------------
(* Properties *)

(* What the channel decodes are the feeder's frames, whole and in order:   *)
(* libav is never asked for a frame that has not come entirely, whichever  *)
(* way the data come, the feeder dies and the frames' sizes vary           *)
(* (avc_channel.cpp:170-226).  The queue never holds more than the         *)
(* threshold once a payload was handled, so the picture is at most the     *)
(* threshold and libav's buffers behind.                                   *)
FeedWhole ==
  /\ decoded = [i \in 1..Len(decoded) |-> i] /\ Len(decoded) <= feeder.encoded
  /\ channel.state = "streaming" => Len(channel.queue) <= DrawAt

(* The pace (avc_scene.cpp:331-341): frames are never emitted faster than  *)
(* one in 40 ms; as long as the timer is called every 20 ms, the encoder   *)
(* takes every frame, the n-th with pts n - 1, and none is overdue; and    *)
(* after any delay a frame's pts is that of the time it is emitted at.     *)
OnPace ==
  /\ FrameTime * scene.iFrame <= clock + 2
  /\ ~late => /\ encoder.taken = scene.iFrame
              /\ encoder.pts = scene.iFrame - 1
              /\ scene.next > clock
  /\ encoder.taken <= encoder.pts + 1
  /\ FrameTime * encoder.pts <= clock - scene.start + FrameTime \div 2

(* A frame's whole way: from the camera, in parts, and out of the scene,   *)
(* in time.                                                                *)
FeedSound == FeedWhole /\ OnPace
=============================================================================
