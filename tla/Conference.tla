--------------------------- MODULE Conference ---------------------------
(***************************************************************************)
(* avc_server, the video conference of ffcairo: feeders send a stream over *)
(* the channel port, the scene draws a frame every 40 ms, and viewers get  *)
(* the frames over HTTP.  The server is one thread: an event of a          *)
(* connection runs its handlers in turn, the timer runs between events.    *)
(*                                                                         *)
(* A connection is an object that lives while the daemon, its table or the *)
(* scene's list refers to it; scene.feed is a plain pointer.  The kernel   *)
(* gives a new connection the lowest free descriptor; 0 is the server's    *)
(* standard input.                                                         *)
(*                                                                         *)
(* The viewers' output buffers and the feeds' queues are chains of blocks  *)
(* of one pool.  No quota is set, so each may take all that is left.       *)
(***************************************************************************)
EXTENDS Integers, FiniteSets

CONSTANTS Conn,       \* objects
          None,
          Limit,      \* descriptors the daemon has a slot for
          MaxFd,      \* the highest descriptor
          MaxClients, \* MAX_HTTP_CLIENTS
          OpenAt, ReadAt, \* the feed queue's thresholds, in blocks
          Pool,       \* blocks of bp_pool()
          FrameBlocks, \* the most that a frame, or an answer's header, takes
          MaxFrames   \* bound on packets

ASSUME ConferenceAssumption ==
  /\ None \notin Conn
  /\ Limit \in Nat /\ MaxFd \in Nat /\ MaxClients \in Nat \ {0} /\ MaxFrames \in Nat
  /\ OpenAt \in Nat /\ ReadAt \in Nat /\ Pool \in Nat /\ FrameBlocks \in Nat

VARIABLES open,       \* descriptors open in the kernel
          slot,       \* fds[].obj
          watch,      \* descriptors in epoll
          conn,       \* the objects
          feed,       \* scene.feed
          clients,    \* scene.http_clients
          http_count,
          free,       \* blocks left in the pool
          packets,    \* frames that have reached AVCScene::sendPacket()'s loop
          packet,     \* the one that the loop hands out: "key", "plain" or "none"
          turn,       \* the place that AVCScene::sendPacket() is at, or 0
          event,      \* the event being handled: its object, slot and flags
          down,       \* the server has called exit()
          addFailed   \* history: addObject() has failed after accept()

scene_vars == <<packets, packet, turn>>
conference_vars == <<open, slot, watch, conn, feed, clients, http_count, free, scene_vars, event, down, addFailed>>

FD == 0..MaxFd
NoFd == -1
Idle == [of |-> None, fd |-> NoFd, flags |-> {}]

\* managed: daemon # 0, which holds a reference.  queue and out are blocks.
\* first is the frame at which skip_to_keyframe went, 0 until then.  begun, got
\* and torn are the history of a viewer: what that frame was, the frames it was
\* given whole, and those of which the pool refused a part.
Fresh == [role |-> "none", fd |-> NoFd, managed |-> FALSE, peer |-> "up", state |-> "wait",
          queue |-> 0, done |-> FALSE, out |-> 0, first |-> 0, begun |-> "none", got |-> {}, torn |-> {}]

Listed(c) == \E i \in 1..MaxClients : clients[i] = c
Registered(c) == conn[c].fd \in FD /\ conn[c].fd < Limit /\ slot[conn[c].fd] = c

ConferenceInit ==
  /\ open = {0} /\ slot = [f \in 0..Limit - 1 |-> None] /\ watch = {}
  /\ conn = [c \in Conn |-> Fresh] /\ feed = None
  /\ clients = [i \in 1..MaxClients |-> None] /\ http_count = 0
  /\ free = Pool /\ packets = 0 /\ packet = "none" /\ turn = 0
  /\ event = Idle /\ down = FALSE /\ addFailed = FALSE

(***************************************************************************)
(* The daemon and the objects' lives, as the handlers use them.            *)
(***************************************************************************)
\* leaveDaemon(): removeObject() gives back the slot and the reference, and
\* does neither for an object that has lost its descriptor.
CanLeave(c) ==
  /\ conn[c].managed /\ conn[c].fd \in DOMAIN slot
  /\ slot[conn[c].fd] = None \/ (slot[conn[c].fd] = c /\ conn[c].fd \in watch)

Leave(c) ==
  IF CanLeave(c)
  THEN /\ slot' = [slot EXCEPT ![conn[c].fd] = None] /\ watch' = watch \ {conn[c].fd}
       /\ conn' = [conn EXCEPT ![c].managed = FALSE, ![c].out = 0] /\ free' = free + conn[c].out
  ELSE UNCHANGED <<slot, watch, conn, free>>

\* Mutant: the count goes down whether the client is in the table or not.
RemoveAlways(c) ==
  /\ clients' = [i \in 1..MaxClients |-> IF clients[i] = c THEN None ELSE clients[i]]
  /\ http_count' = http_count - 1

\* removeHttpClient(), which onEmpty() and onPeerDown() may call for one event.
RemoveClient(c) ==
  /\ clients' = [i \in 1..MaxClients |-> IF clients[i] = c THEN None ELSE clients[i]]
  /\ http_count' = http_count - Cardinality({i \in 1..MaxClients : clients[i] = c})

\* What still refers to an object after its event.
Kept(c) == conn[c].managed \/ Listed(c) \/ \E f \in DOMAIN slot : slot[f] = c

(***************************************************************************)
(* AVCListen::onAccept                                                     *)
(***************************************************************************)
\* addObject(): the slot must be free, and epoll must take the descriptor.
AddObject(c, role, f) ==
  /\ conn' = [conn EXCEPT ![c] = [Fresh EXCEPT !.role = role, !.fd = f, !.managed = TRUE]]
  /\ IF f < Limit /\ slot[f] = None /\ f \in open'
     THEN slot' = [slot EXCEPT ![f] = c] /\ watch' = watch \cup {f} /\ UNCHANGED addFailed
     ELSE addFailed' = TRUE /\ UNCHANGED <<slot, watch>>

AcceptChannel(c, f, opened) ==
  /\ open' = opened
  /\ AddObject(c, "channel", f)
  /\ UNCHANGED <<clients, http_count>>

\* addHttpClient() takes the first free place.
HasPlace  == \E i \in 1..MaxClients : clients[i] = None
FreePlace == CHOOSE i \in 1..MaxClients : clients[i] = None /\ \A j \in 1..i - 1 : clients[j] # None

AcceptHttp(c, f, opened) ==
  IF HasPlace
  THEN /\ open' = opened
       /\ clients' = [clients EXCEPT ![FreePlace] = c] /\ http_count' = http_count + 1
       /\ AddObject(c, "http", f)
  ELSE /\ open' = opened \ {f}
       /\ UNCHANGED <<slot, watch, conn, clients, http_count, addFailed>>

OnAccept(f, opened) ==
  \E c \in Conn :
    /\ conn[c].role = "none" /\ event = Idle /\ turn = 0 /\ ~down
    /\ AcceptChannel(c, f, opened) \/ AcceptHttp(c, f, opened)
    /\ UNCHANGED <<feed, free, scene_vars, event, down>>

Lowest == CHOOSE f \in FD \ open : \A g \in FD \ open : f <= g

Accept == FD # open /\ OnAccept(Lowest, open \cup {Lowest})

\* accept() answers 0 when ::accept() fails, and onAccept() takes that for a
\* connection.  Nobody else has descriptor 0, and it happens once.
AcceptFails == (\A c \in Conn : conn[c].fd # 0) /\ ~addFailed /\ OnAccept(0, open)

(***************************************************************************)
(* The kernel and the peers.                                               *)
(***************************************************************************)
\* Only epoll_wait() tells of it, so it may be taken to come between two events.
PeerGone(c) ==
  /\ conn[c].fd # NoFd /\ conn[c].peer = "up" /\ event = Idle /\ turn = 0 /\ ~down
  /\ conn' = [conn EXCEPT ![c].peer = "gone"]
  /\ UNCHANGED <<open, slot, watch, feed, clients, http_count, free, scene_vars, event, down, addFailed>>

\* epoll_wait() and the object in the slot of its answer.  EPOLLERR, whose
\* handler only prints, is left out.
Wait(c) ==
  /\ event = Idle /\ turn = 0 /\ ~down /\ Registered(c) /\ conn[c].fd \in watch
  /\ \E optional \in SUBSET ({"in"} \cup IF conn[c].out > 0 THEN {"out"} ELSE {}) :
       LET flags == optional \cup IF conn[c].peer = "gone" THEN {"hup"} ELSE {}
       IN  flags # {} /\ event' = [of |-> c, fd |-> conn[c].fd, flags |-> flags]
  /\ UNCHANGED <<open, slot, watch, conn, feed, clients, http_count, free, scene_vars, down, addFailed>>

\* doActiveAction() after onEvent(): the last reference may go, and the
\* destructors close the descriptor and give the queue's blocks back.
EndEvent(c) ==
  /\ event.of = c /\ event.flags = {} /\ ~down
  /\ event' = Idle
  /\ IF Kept(c) THEN UNCHANGED <<open, watch, conn, free>>
     ELSE /\ open' = open \ {conn[c].fd} /\ watch' = watch \ {conn[c].fd}
          /\ conn' = [conn EXCEPT ![c] = Fresh] /\ free' = free + conn[c].queue
  /\ UNCHANGED <<slot, feed, clients, http_count, scene_vars, down, addFailed>>

\* onEvent() reads, then writes, then tells of the peer's end.
Before(flag) == CASE flag = "in" -> {} [] flag = "out" -> {"in"} [] flag = "hup" -> {"in", "out"}

Handling(c, flag) ==
  /\ event.of = c /\ flag \in event.flags /\ Before(flag) \cap event.flags = {} /\ ~down
  /\ event' = [event EXCEPT !.flags = @ \ {flag}]
  /\ UNCHANGED <<scene_vars, addFailed>>

(***************************************************************************)
(* AVCChannel                                                              *)
(***************************************************************************)
\* close() of a listed object: the kernel forgets the descriptor before
\* disableObject() is tried, which fails, so the slot keeps the object.
Closed(o) == [o EXCEPT !.fd = NoFd]

\* Anything but a payload or the command for a new feed is ignored.
OtherPacket(c) ==
  /\ Handling(c, "in") /\ conn[c].role = "channel"
  /\ UNCHANGED <<open, slot, watch, conn, feed, clients, http_count, free, down>>

HandleNewFeed(c) ==
  /\ Handling(c, "in") /\ conn[c].role = "channel" /\ conn[c].state = "wait"
  /\ conn' = [conn EXCEPT ![c].state = "open"]
  /\ UNCHANGED <<open, slot, watch, feed, clients, http_count, free, down>>

\* Mutant: the new feed is set before the old one is kicked.
ReplaceFeedFirst(c, rest) ==
  /\ feed' = c
  /\ open' = open \ {conn[c].fd} /\ watch' = watch \ {conn[c].fd}
  /\ conn' = [conn EXCEPT ![c] = Closed([@ EXCEPT !.state = "streaming", !.queue = rest])]

\* replaceFeed()
ReplaceFeed(c, rest) ==
  /\ IF feed = None THEN UNCHANGED <<open, watch>>
     ELSE open' = open \ {conn[feed].fd} /\ watch' = watch \ {conn[feed].fd}
  /\ conn' = [x \in Conn |-> IF x = c THEN [conn[c] EXCEPT !.state = "streaming", !.queue = rest]
                             ELSE IF x = feed THEN Closed(conn[x]) ELSE conn[x]]
  /\ feed' = c

\* queuePacket() and handleFeedData().  A payload takes a block or fits in the
\* queue's last one.  The server gives up when a block is wanted and the pool
\* has none, and when the stream cannot be opened, which is tried when the
\* bytes in size blocks are more than the threshold.  Demuxing takes any part.
FeedPayload(c) ==
  LET old == conn[c].queue
      Exit == down' = TRUE /\ UNCHANGED <<open, watch, conn, feed, free>>
      Queued(rest) == conn' = [conn EXCEPT ![c].queue = rest] /\ UNCHANGED <<open, watch, feed>>
  IN /\ Handling(c, "in") /\ conn[c].role = "channel" /\ conn[c].state \in {"open", "streaming"}
     /\ \/ free = 0 /\ Exit
        \/ \E size \in {old, old + 1} :
             /\ size # 0 /\ size <= old + free
             /\ \/ /\ conn[c].state = "open" /\ size <= OpenAt /\ free' = free + old - size
                   /\ Queued(size) /\ UNCHANGED down
                \/ /\ conn[c].state = "open" /\ size >= OpenAt
                   /\ \/ Exit
                      \/ /\ UNCHANGED down
                         /\ \E rest \in 0..size : free' = free + old - rest /\ ReplaceFeed(c, rest)
                \/ /\ conn[c].state = "streaming" /\ UNCHANGED down
                   /\ \E rest \in 0..size :
                        /\ size <= ReadAt => rest = size
                        /\ free' = free + old - rest /\ Queued(rest)
     /\ UNCHANGED <<slot, clients, http_count>>

\* onPeerDown(): removeFeed() closes a feed, and then leaveDaemon() fails.
ChannelDown(c) ==
  /\ Handling(c, "hup") /\ conn[c].role = "channel"
  /\ IF feed = c
     THEN /\ feed' = None
          /\ open' = open \ {conn[c].fd} /\ watch' = watch \ {conn[c].fd}
          /\ conn' = [conn EXCEPT ![c] = Closed(@)]
          /\ UNCHANGED <<slot, free>>
     ELSE Leave(c) /\ UNCHANGED <<feed, open>>
  /\ UNCHANGED <<clients, http_count, down>>

(***************************************************************************)
(* AVCHttp                                                                 *)
(***************************************************************************)
\* Request text, or anything after the request.
ReadHeaders(c) ==
  /\ Handling(c, "in") /\ conn[c].role = "http"
  /\ UNCHANGED <<open, slot, watch, conn, feed, clients, http_count, free, down>>

\* put() of something long, which libav cuts into several: it takes blocks,
\* or fits in the last one; a part is refused when the pool has too few.
Takes(c, took, whole) ==
  /\ took <= FrameBlocks
  /\ IF whole THEN conn[c].out + took > 0 ELSE free < FrameBlocks

\* The empty line: initStreaming() puts the answer's header.  When it fails it
\* returns no value, so http_state may be either; done keeps the viewer from
\* getting frames in both.  Nobody looks at what the pool refuses.
InitStreaming(c) ==
  /\ Handling(c, "in") /\ conn[c].role = "http" /\ conn[c].state = "wait" /\ conn[c].managed
  /\ \E ok, whole \in BOOLEAN : \E took \in 0..free :
       /\ Takes(c, took, whole) /\ free' = free - took
       /\ conn' = [conn EXCEPT ![c].state = IF ok THEN "streaming" ELSE "failed", ![c].done = ~ok,
                               ![c].out = @ + took]
  /\ UNCHANGED <<open, slot, watch, feed, clients, http_count, down>>

\* handleWrite(): any part of the buffer is written, and the blocks that are
\* written out go back; onEmpty() when everything is.
HttpWritten(c) ==
  /\ Handling(c, "out") /\ conn[c].role = "http"
  /\ \E left \in 0..conn[c].out :
       IF left = 0 /\ conn[c].done THEN RemoveClient(c) /\ Leave(c)
       ELSE /\ conn' = [conn EXCEPT ![c].out = left] /\ free' = free + conn[c].out - left
            /\ UNCHANGED <<clients, http_count, slot, watch>>
  /\ UNCHANGED <<open, feed, down>>

\* Mutant: onPeerDown() of a viewer forgets the scene.
HttpDownOnly(c) ==
  /\ Handling(c, "hup") /\ conn[c].role = "http"
  /\ Leave(c)
  /\ UNCHANGED <<open, feed, clients, http_count, down>>

HttpDown(c) ==
  /\ Handling(c, "hup") /\ conn[c].role = "http"
  /\ RemoveClient(c) /\ Leave(c)
  /\ UNCHANGED <<open, feed, down>>

(***************************************************************************)
(* AVCScene::onTimer: a frame is encoded and sent to the viewers.          *)
(***************************************************************************)
\* The encoder makes a key frame of it, or another.  When it makes none, or
\* av_write_frame() of the scene's own stream fails, no viewer gets anything.
OnTimer ==
  /\ event = Idle /\ turn = 0 /\ ~down /\ packets < MaxFrames
  /\ \/ packets' = packets + 1 /\ packet' \in {"key", "plain"} /\ turn' = 1
     \/ UNCHANGED scene_vars
  /\ UNCHANGED <<open, slot, watch, conn, feed, clients, http_count, free, event, down, addFailed>>

\* AVCHttp::sendPacket()
Wanted(c) ==
  ~conn[c].done /\ conn[c].state = "streaming" /\ (conn[c].first = 0 => packet = "key")

Given(o, took, whole) ==
  [o EXCEPT !.out = @ + took, !.first = IF @ = 0 THEN packets ELSE @,
            !.begun = IF @ = "none" THEN packet ELSE @,
            !.got = IF whole THEN @ \cup {packets} ELSE @,
            !.torn = IF whole THEN @ ELSE @ \cup {packets}]

EndTurns == turn' = 0 /\ packet' = "none"
NextTurn == IF turn = MaxClients THEN EndTurns ELSE turn' = turn + 1 /\ UNCHANGED packet

\* Mutant: the first viewer that cannot take the frame ends the round.
SendUntilRefused(c) ==
  \E whole \in BOOLEAN : \E took \in 0..free :
    /\ Takes(c, took, whole) /\ free' = free - took
    /\ conn' = [conn EXCEPT ![c] = Given(@, took, whole)]
    /\ IF whole THEN NextTurn ELSE EndTurns

SendFrame(c) ==
  /\ NextTurn
  /\ \E whole \in BOOLEAN : \E took \in 0..free :
       /\ Takes(c, took, whole) /\ free' = free - took
       /\ conn' = [conn EXCEPT ![c] = Given(@, took, whole)]

\* A turn of AVCScene::sendPacket()'s loop.
SendPacket ==
  /\ turn # 0 /\ ~down
  /\ LET c == clients[turn]
     IN  IF c # None /\ Wanted(c) THEN SendFrame(c) ELSE NextTurn /\ UNCHANGED <<conn, free>>
  /\ UNCHANGED <<open, slot, watch, feed, clients, http_count, packets, event, down, addFailed>>

(***************************************************************************)
Handle(c) == \/ OtherPacket(c) \/ HandleNewFeed(c) \/ FeedPayload(c) \/ ChannelDown(c)
             \/ ReadHeaders(c) \/ InitStreaming(c) \/ HttpWritten(c) \/ HttpDown(c)
             \/ EndEvent(c)

ConferenceNext == Accept \/ AcceptFails \/ OnTimer \/ SendPacket \/ \E c \in Conn : PeerGone(c) \/ Wait(c) \/ Handle(c)

\* A handler runs to its end; epoll gives the ready descriptors in turn, so
\* none that stays ready is passed over for ever.
ConferenceSpec ==
  /\ ConferenceInit /\ [][ConferenceNext]_conference_vars /\ WF_conference_vars(SendPacket)
  /\ \A c \in Conn : WF_conference_vars(Handle(c)) /\ SF_conference_vars(Wait(c))

(***************************************************************************)
(* Properties                                                              *)
(***************************************************************************)
Connection ==
  [role : {"none", "channel", "http"}, fd : FD \cup {NoFd}, managed : BOOLEAN, peer : {"up", "gone"},
   state : {"wait", "open", "streaming", "failed"}, queue : Nat, done : BOOLEAN,
   out : Nat, first : 0..MaxFrames, begun : {"key", "plain", "none"},
   got : SUBSET (1..MaxFrames), torn : SUBSET (1..MaxFrames)]

ConferenceTypeOK ==
  /\ open \subseteq FD /\ watch \subseteq FD /\ slot \in [0..Limit - 1 -> Conn \cup {None}]
  /\ conn \in [Conn -> Connection] /\ feed \in Conn \cup {None}
  /\ clients \in [1..MaxClients -> Conn \cup {None}] /\ http_count \in 0..MaxClients
  /\ packets \in 0..MaxFrames /\ packet \in {"key", "plain", "none"}
  /\ turn \in 0..MaxClients /\ down \in BOOLEAN /\ addFailed \in BOOLEAN
  /\ event.of \in Conn \cup {None} /\ event.flags \subseteq {"in", "out", "hup"}

\* scene.feed is a plain pointer which every frame draws from
\* (avc_scene.cpp:311-318): whichever way feeders come, replace one another
\* and go, it is an object that lives, streams, and holds its connection.  (With
\* every variable's type.)
FeedIsLive ==
  ConferenceTypeOK /\ (feed # None => /\ conn[feed].role = "channel" /\ conn[feed].state = "streaming"
                 /\ conn[feed].managed /\ conn[feed].fd \in open)

\* The scene's table and the daemon's agree about the viewers, and the count
\* with both: until an addObject() fails, an HTTP connection is in the table
\* exactly once as long as the daemon has it, and epoll watches it, so every
\* place of the table comes back (avc_scene.cpp:346-377).
ViewersServed ==
  /\ http_count = Cardinality({i \in 1..MaxClients : clients[i] # None})
  /\ \A i, j \in 1..MaxClients : clients[i] = clients[j] /\ clients[i] # None => i = j
  /\ ~addFailed => \A c \in Conn :
       /\ Listed(c) <=> conn[c].role = "http" /\ conn[c].managed
       /\ Listed(c) => Registered(c) /\ conn[c].fd \in watch

\* The feed and the viewers that a frame goes through are all connections
\* that the daemon has.
TablesLive == FeedIsLive /\ ViewersServed

\* No block is lost or owned twice, whoever takes and gives back: the pool,
\* the viewers' buffers and the feeds' queues, that of a feed which was
\* replaced and lingers in its slot too, have them all.
Chain(c) == {<<c, k>> : k \in 1..conn[c].out + conn[c].queue}
PoolShared == free \in 0..Pool /\ free + Cardinality(UNION {Chain(c) : c \in Conn}) = Pool

\* A viewer's stream begins with a key frame and then has every frame that the
\* scene has encoded and written, but those of which the pool, which the others
\* may have emptied, refused it a part: neither the viewers that come and go
\* nor one that is refused make a hole of their own in another's stream
\* (avc_scene.cpp:97-125, avc_http.cpp:202-267).
Passed(c) == IF turn # 0 /\ \E i \in turn..MaxClients : clients[i] = c THEN packets - 1 ELSE packets

StreamWhole ==
  \A c \in Conn : Listed(c) /\ ~conn[c].done /\ conn[c].first # 0 =>
    /\ conn[c].begun = "key"
    /\ conn[c].got = (conn[c].first..Passed(c)) \ conn[c].torn

\* A peer that goes is forgotten: it leaves the table of viewers and stops
\* being the feed, unless the server has exited or an addObject() has failed.
Forgotten ==
  \A c \in Conn : conn[c].peer = "gone" /\ Registered(c)
                  ~> down \/ addFailed \/ (~Listed(c) /\ feed # c)

\* What a frame needs on its way: tables that agree with the daemon when it is
\* drawn and handed out, a pool that keeps its blocks, and streams without
\* other holes than the pool's at its end.
FramesArrive == TablesLive /\ PoolShared /\ StreamWhole
=============================================================================
