----------------------------- MODULE TimersProofs -----------------------------
(***************************************************************************)
(* The counter of the timers is exact for every number of timers and every *)
(* delay.  CountExact is not inductive as it stands: that a removed timer  *)
(* lowers the size of the queue by one is only known of a finite queue.    *)
(*                                                                         *)
(* The conference, whose timer draws the frames, follows in the second     *)
(* part, and in the third the way of a feeder's picture to a channel: what *)
(* the channel holds is a run of the feeder's payloads, the next of which  *)
(* is the first on the wire.                                               *)
(***************************************************************************)
EXTENDS Timers, Conference, FeedPath, ChainLemmas

TimersInv == CountExact /\ IsFiniteSet(pending)

(* Init: there are no timers. *)
LEMMA TimersInvInit == Init => TimersInv
<1> SUFFICES ASSUME Init PROVE TimersInv
  OBVIOUS
<1>1. IsFiniteSet(pending) /\ Cardinality(pending) = 0
  BY FS_EmptySet DEF Init
<1>2. TypeOK
  <2>1. left \in [Timer -> Int]
    BY DEF Init
  <2>2. pending \in SUBSET Timer /\ fired \in SUBSET Timer
    BY DEF Init
  <2>3. timerCount \in Nat /\ in_pass \in BOOLEAN
    BY DEF Init
  <2> QED
    BY <2>1, <2>2, <2>3 DEF TypeOK
<1>3. timerCount = Cardinality(pending)
  BY <1>1 DEF Init
<1> QED
  BY <1>1, <1>2, <1>3 DEF TimersInv, CountExact

(* A timer is put in its place by time. *)
LEMMA CallAtInv ==
  ASSUME TimersInv, NEW t \in Timer, NEW delay \in 0..MaxDelay, CallAt(t, delay)
  PROVE  TimersInv'
<1>1. t \notin pending /\ pending' = pending \union {t}
  BY DEF CallAt
<1>2. IsFiniteSet(pending') /\ Cardinality(pending') = Cardinality(pending) + 1
  BY <1>1, FS_AddElement DEF TimersInv
<1>3. left' \in [Timer -> Int]
  BY BoundsAssumption DEF CallAt, TimersInv, CountExact, TypeOK
<1> QED
  BY <1>1, <1>2, <1>3 DEF CallAt, TimersInv, CountExact, TypeOK

(* The first timer is taken out when it is due. *)
LEMMA FireInv ==
  ASSUME TimersInv, NEW t \in Timer, Fire(t)
  PROVE  TimersInv'
<1>1. t \in pending /\ timerCount > 0
  BY DEF Fire, Top
<1>2. CASE pending' = pending \ {t} /\ timerCount' = timerCount - 1
           /\ fired' = fired \union {t} /\ UNCHANGED left
  <2>1. IsFiniteSet(pending') /\ Cardinality(pending') = Cardinality(pending) - 1
    BY <1>1, <1>2, FS_RemoveElement DEF TimersInv
  <2>2. timerCount' \in Nat
    BY <1>1, <1>2 DEF TimersInv, CountExact, TypeOK
  <2> QED
    BY <1>2, <2>1, <2>2 DEF Fire, TimersInv, CountExact, TypeOK
<1>3. CASE \E delay \in 1..MaxDelay : left' = [left EXCEPT ![t] = delay]
           /\ UNCHANGED <<pending, timerCount, fired>>
  <2>1. left' \in [Timer -> Int]
    BY <1>3, BoundsAssumption DEF TimersInv, CountExact, TypeOK
  <2> QED
    BY <1>3, <2>1 DEF Fire, TimersInv, CountExact, TypeOK
<1> QED
  BY <1>2, <1>3 DEF Fire

(* Every step keeps the invariant. *)
LEMMA TimersInvNext == TimersInv /\ [Next]_vars => TimersInv'
<1> SUFFICES ASSUME TimersInv, [Next]_vars PROVE TimersInv'
  OBVIOUS
<1> USE DEF TimersInv, CountExact, TypeOK
<1>1. ASSUME NEW t \in Timer, NEW delay \in 0..MaxDelay, CallAt(t, delay)
      PROVE  TimersInv'
  BY <1>1, CallAtInv
<1>2. ASSUME NEW t \in Timer, Fire(t) PROVE TimersInv'
  BY <1>2, FireInv
<1>3. CASE BeginPass
  BY <1>3 DEF BeginPass
<1>4. CASE EndPass
  BY <1>4 DEF EndPass
<1>5. CASE Tick
  <2>1. left' \in [Timer -> Int]
    BY <1>5 DEF Tick
  <2> QED
    BY <1>5, <2>1 DEF Tick
<1>6. CASE UNCHANGED vars
  BY <1>6 DEF vars
<1> QED
  BY <1>1, <1>2, <1>3, <1>4, <1>5, <1>6 DEF Next

(* timerCount, which guards top() and pop() of the queue, is its size       *)
(* whatever callbacks set, and however many timers there are: the loop of   *)
(* processTimers() never looks at the top of an empty queue.                *)
THEOREM TimerCountExact == Spec => []CountExact
<1>1. TimersInv => CountExact
  BY DEF TimersInv
<1> QED
  BY <1>1, TimersInvInit, TimersInvNext, PTL DEF Spec

(* The queue has its timers in the wrong order, yet a pass leaves no timer *)
(* waiting that is due, except behind one that expires later: the loop     *)
(* stops at an empty queue, which the counter tells, or at a top that is   *)
(* not due.                                                                *)
THEOREM TimersLateOnlyBehindLater == Spec => LateOnlyBehindLater
<1>1. ASSUME TimersInv, [Next]_vars, in_pass, ~in_pass', NEW t \in pending, Due(t)
      PROVE  \E u \in pending : ~Due(u)
  <2>1. EndPass
    BY <1>1 DEF Next, CallAt, Fire, BeginPass, EndPass, Tick, vars
  <2>2. timerCount # 0
    <3>1. Cardinality(pending) # 0
      BY <1>1, FS_EmptySet DEF TimersInv
    <3> QED BY <3>1, <1>1 DEF TimersInv, CountExact
  <2>3. PICK u \in Timer : Top(u) /\ ~Due(u)
    BY <2>1, <2>2 DEF EndPass
  <2> QED BY <2>3 DEF Top
<1>2. TimersInv /\ [Next]_vars
        => [in_pass /\ ~in_pass' /\ (\E t \in pending : Due(t))
              => \E u \in pending : ~Due(u)]_vars
  BY <1>1
<1> QED
  BY <1>2, TimersInvInit, TimersInvNext, PTL DEF Spec, LateOnlyBehindLater

-----------------------------------------------------------------------------
(* The video conference, for any connections, descriptors and thresholds.  *)
(* The feed stands in the slot of its own descriptor (FeedHeld), and the   *)
(* object of an event has a slot that is its own or free again (EventHeld):*)
(* so no handler closes the descriptor of another object, and Leave()      *)
(* finds what it needs.  A viewer that was sent a frame is streaming, began *)
(* with a key frame, and has what the pool refused nothing of since        *)
(* (FramesFollow).                                                         *)

ConferenceTypes ==
  /\ ConferenceTypeOK
  /\ event \in [of : Conn \cup {None}, fd : FD \cup {NoFd}, flags : SUBSET {"in", "out", "hup"}]

(* A slot holds an object that the daemon has, open if it is not closed.   *)
SlotsHold ==
  \A c \in Conn : \A f \in DOMAIN slot :
    slot[f] = c => conn[c].managed /\ conn[c].fd \in {f, NoFd} /\ (conn[c].fd = f => f \in open)

(* Objects that are not in use, and viewers, are what they seem.           *)
RolesFit ==
  \A c \in Conn :
    /\ conn[c].role = "none" => ~conn[c].managed
    /\ Listed(c) => conn[c].role = "http"

FeedHeld ==
  feed # None => conn[feed].role = "channel" /\ conn[feed].state = "streaming" /\ Registered(feed)

EventHeld ==
  \A c \in Conn : event.of = c =>
    /\ conn[c].role # "none"
    /\ conn[c].fd # NoFd => conn[c].fd < Limit /\ slot[conn[c].fd] \in {None, c}
    /\ "in" \in event.flags => Registered(c)

FramesFollow ==
  /\ turn # 0 => packets # 0
  /\ \A c \in Conn :
       /\ conn[c].first <= packets
       /\ conn[c].first = 0 => conn[c].begun = "none" /\ conn[c].got = {} /\ conn[c].torn = {}
       /\ conn[c].first # 0 => conn[c].role = "http" /\ conn[c].state = "streaming" /\ conn[c].begun = "key"
       /\ conn[c].first # 0 /\ Listed(c) /\ ~conn[c].done =>
            /\ conn[c].torn \subseteq 1..Passed(c)
            /\ conn[c].got = (conn[c].first..Passed(c)) \ conn[c].torn

ConferenceInv ==
  /\ ConferenceTypes /\ SlotsHold /\ RolesFit /\ FeedHeld /\ EventHeld
  /\ ViewersServed /\ FramesFollow

(* What an object that is not in use looks like. *)
LEMMA FreshFacts ==
  /\ Fresh \in Connection /\ Fresh.role = "none" /\ Fresh.fd = NoFd /\ ~Fresh.managed /\ ~Fresh.done
  /\ Fresh.first = 0 /\ Fresh.state = "wait" /\ Fresh.queue = 0 /\ Fresh.out = 0
  /\ Fresh.begun = "none" /\ Fresh.got = {} /\ Fresh.torn = {}
BY ConferenceAssumption DEF Fresh, Connection, FD, NoFd

(* One object changes. *)
LEMMA OneChanges ==
  ASSUME conn \in [Conn -> Connection], NEW c \in Conn, NEW o \in Connection,
         conn' = [conn EXCEPT ![c] = o]
  PROVE  conn' \in [Conn -> Connection] /\ conn'[c] = o /\ \A d \in Conn : d # c => conn'[d] = conn[d]
OBVIOUS

Places(table) == {i \in 1..MaxClients : table[i] # None}

(* How many places of the table are taken. *)
LEMMA PlacesFinite ==
  ASSUME NEW table
  PROVE  IsFiniteSet(Places(table)) /\ Cardinality(Places(table)) \in 0..MaxClients
<1>1. IsFiniteSet(1..MaxClients) /\ Cardinality(1..MaxClients) = MaxClients
  BY IntervalCount, ConferenceAssumption
<1>2. Places(table) \subseteq 1..MaxClients
  BY DEF Places
<1>3. /\ IsFiniteSet(Places(table))
      /\ Cardinality(Places(table)) <= Cardinality(1..MaxClients)
  BY <1>1, <1>2, FS_Subset
<1>4. Cardinality(Places(table)) \in Nat
  BY <1>3, FS_CardinalityType
<1> QED BY <1>1, <1>3, <1>4, ConferenceAssumption

(* A client that gets a free place makes one more. *)
LEMMA PlaceTaken ==
  ASSUME clients \in [1..MaxClients -> Conn \cup {None}], NEW c \in Conn,
         NEW i \in 1..MaxClients, clients[i] = None, clients' = [clients EXCEPT ![i] = c]
  PROVE  /\ clients' \in [1..MaxClients -> Conn \cup {None}]
         /\ Cardinality(Places(clients')) = Cardinality(Places(clients)) + 1
<1>1. Places(clients') = Places(clients) \cup {i} /\ i \notin Places(clients)
  BY ConferenceAssumption DEF Places
<1> QED BY <1>1, PlacesFinite, FS_AddElement

(* A client that goes leaves as many places as it had. *)
LEMMA PlacesFreed ==
  ASSUME clients \in [1..MaxClients -> Conn \cup {None}], NEW c \in Conn,
         clients' = [i \in 1..MaxClients |-> IF clients[i] = c THEN None ELSE clients[i]]
  PROVE  /\ clients' \in [1..MaxClients -> Conn \cup {None}]
         /\ Cardinality(Places(clients')) =
              Cardinality(Places(clients)) - Cardinality({i \in 1..MaxClients : clients[i] = c})
<1> DEFINE mine == {i \in 1..MaxClients : clients[i] = c}
<1>1. /\ Places(clients') = Places(clients) \ mine
      /\ Places(clients) \cap mine = mine
  BY ConferenceAssumption DEF Places
<1> HIDE DEF mine
<1> QED BY <1>1, PlacesFinite, FS_Difference DEF mine

(* addHttpClient() finds a place that is free, if there is one. *)
LEMMA FreePlaceExists ==
  ASSUME HasPlace, clients \in [1..MaxClients -> Conn \cup {None}]
  PROVE  FreePlace \in 1..MaxClients /\ clients[FreePlace] = None
<1> DEFINE vacant == {i \in 1..MaxClients : clients[i] = None}
<1>1. vacant \subseteq Nat /\ vacant # {}
  BY ConferenceAssumption DEF HasPlace
<1>2. \A i \in vacant : i \in 1..MaxClients /\ clients[i] = None
  OBVIOUS
<1> DEFINE i == Min(vacant)
<1>3. i \in vacant /\ \A j \in vacant : i <= j
  <2> HIDE DEF vacant
  <2> QED BY <1>1, LeastNumber
<1>4. \A j \in 1..i - 1 : clients[j] # None
  BY <1>3, ConferenceAssumption
<1> HIDE DEF i
<1>5. i \in 1..MaxClients /\ clients[i] = None /\ \A j \in 1..i - 1 : clients[j] # None
  BY <1>2, <1>3, <1>4
<1> QED BY <1>5 DEF FreePlace

(* The kernel's choice is a descriptor that is not open. *)
LEMMA LowestIsClosed ==
  ASSUME open \subseteq FD, FD # open
  PROVE  Lowest \in FD \ open
<1> DEFINE shut == FD \ open
<1>1. shut \subseteq Nat /\ shut # {}
  <2>1. FD \subseteq Nat
    BY ConferenceAssumption DEF FD
  <2>2. shut \subseteq FD /\ shut # {}
    OBVIOUS
  <2> QED BY <2>1, <2>2
<1> HIDE DEF shut
<1>2. Min(shut) \in shut /\ \A g \in shut : Min(shut) <= g
  BY <1>1, LeastNumber
<1>3. Lowest = CHOOSE f \in shut : \A g \in shut : f <= g
  BY DEF Lowest, shut
<1> QED BY <1>2, <1>3 DEF shut

(* A step that leaves the tables alone, and who is who. *)
LEMMA TablesKept ==
  ASSUME SlotsHold, RolesFit, ViewersServed, open \subseteq open',
         UNCHANGED <<slot, watch, clients, http_count, addFailed>>,
         \A d \in Conn : /\ conn'[d].role = conn[d].role /\ conn'[d].fd = conn[d].fd
                         /\ conn'[d].managed <=> conn[d].managed
  PROVE  /\ SlotsHold' /\ RolesFit' /\ ViewersServed'
         /\ \A d \in Conn : (Registered(d)' <=> Registered(d)) /\ (Listed(d)' <=> Listed(d))
<1>1. \A d \in Conn : (Registered(d)' <=> Registered(d)) /\ (Listed(d)' <=> Listed(d))
  BY DEF Registered, Listed
<1>2. SlotsHold'
  BY DEF SlotsHold
<1>3. RolesFit'
  BY <1>1 DEF RolesFit
<1>4. ViewersServed'
  BY <1>1 DEF ViewersServed
<1> QED BY <1>1, <1>2, <1>3, <1>4

(* What a viewer was sent. *)
SameStream(p, o) == p.first = o.first /\ p.begun = o.begun /\ p.got = o.got /\ p.torn = o.torn

(* A step that sends no frame. *)
LEMMA FramesKept ==
  ASSUME FramesFollow, UNCHANGED scene_vars,
         \A d \in Conn :
           /\ SameStream(conn'[d], conn[d])
           /\ conn[d].first # 0 => /\ conn'[d].role = conn[d].role /\ conn'[d].state = conn[d].state
                                   /\ conn'[d].done <=> conn[d].done
           /\ Listed(d)' => Listed(d) /\ Passed(d)' = Passed(d)
  PROVE  FramesFollow'
BY DEF FramesFollow, SameStream, scene_vars

(* A step that leaves the scene alone. *)
LEMMA PassedKept ==
  ASSUME UNCHANGED <<clients, scene_vars>>
  PROVE  \A d \in Conn : (Listed(d)' <=> Listed(d)) /\ Passed(d)' = Passed(d)
BY DEF Listed, Passed, scene_vars

(* What a handler changes of its object, and what it leaves. *)
Alike(p, o) ==
  p \in Connection /\ p.role = o.role /\ (p.done <=> o.done) /\ SameStream(p, o)

Same(p, o) == Alike(p, o) /\ p.fd = o.fd /\ (p.managed <=> o.managed) /\ p.state = o.state

(* The peer's end, and what it leaves of the object. *)
LEMMA PeerUpdate ==
  ASSUME NEW o \in Connection
  PROVE  Same([o EXCEPT !.peer = "gone"], o)
BY DEF Connection, Same, Alike, SameStream

(* Another length of the output buffer, and what that leaves. *)
LEMMA OutUpdate ==
  ASSUME NEW o \in Connection, NEW n \in Nat
  PROVE  Same([o EXCEPT !.out = n], o)
BY DEF Connection, Same, Alike, SameStream

(* Another length of the feed's queue, and what that leaves. *)
LEMMA QueueUpdate ==
  ASSUME NEW o \in Connection, NEW n \in Nat
  PROVE  Same([o EXCEPT !.queue = n], o)
BY DEF Connection, Same, Alike, SameStream

(* Another state, and what that leaves. *)
LEMMA StateUpdate ==
  ASSUME NEW o \in Connection, NEW state \in {"wait", "open", "streaming", "failed"}
  PROVE  LET p == [o EXCEPT !.state = state]
         IN  Alike(p, o) /\ p.fd = o.fd /\ (p.managed <=> o.managed) /\ p.state = state
BY DEF Connection, Alike, SameStream

(* close(), and what it leaves. *)
LEMMA ClosedUpdate ==
  ASSUME NEW o \in Connection
  PROVE  LET p == Closed(o)
         IN  Alike(p, o) /\ p.fd = NoFd /\ (p.managed <=> o.managed) /\ p.state = o.state
BY DEF Connection, Alike, Closed, SameStream

(* The daemon's reference goes, and what that leaves. *)
LEMMA ManagedUpdate ==
  ASSUME NEW o \in Connection
  PROVE  LET p == [o EXCEPT !.managed = FALSE]
         IN  Alike(p, o) /\ p.fd = o.fd /\ ~p.managed /\ p.state = o.state
BY DEF Connection, Alike, SameStream

(* The mark that a viewer gets no frames, and what it leaves. *)
LEMMA DoneUpdate ==
  ASSUME NEW o \in Connection, NEW done \in BOOLEAN
  PROVE  LET p == [o EXCEPT !.done = done]
         IN  /\ p \in Connection /\ p.role = o.role /\ p.fd = o.fd /\ (p.managed <=> o.managed)
             /\ p.state = o.state /\ SameStream(p, o) /\ (p.done <=> done)
BY DEF Connection, SameStream

(* The objects, and the event, have their types. *)
LEMMA ObjectsTyped ==
  ASSUME ConferenceInv
  PROVE  /\ conn \in [Conn -> Connection] /\ \A d \in Conn : conn[d] \in Connection
         /\ event \in [of : Conn \cup {None}, fd : FD \cup {NoFd}, flags : SUBSET {"in", "out", "hup"}]
BY DEF ConferenceInv, ConferenceTypes, ConferenceTypeOK

(* A step that gives one object another state of the same tables.          *)
LEMMA SameKept ==
  ASSUME ConferenceInv, NEW c \in Conn, NEW o, Same(o, conn[c]), conn' = [conn EXCEPT ![c] = o],
         UNCHANGED <<open, slot, watch, feed, clients, http_count, scene_vars, addFailed>>,
         down' \in BOOLEAN,
         event' \in [of : Conn \cup {None}, fd : FD \cup {NoFd}, flags : SUBSET {"in", "out", "hup"}],
         EventHeld'
  PROVE  ConferenceInv'
<1>1. /\ conn' \in [Conn -> Connection]
      /\ \A d \in Conn : Same(conn'[d], conn[d])
  <2>1. conn \in [Conn -> Connection] /\ o \in Connection
    BY ObjectsTyped DEF Same, Alike
  <2>2. conn' \in [Conn -> Connection] /\ conn'[c] = o /\ \A d \in Conn : d # c => conn'[d] = conn[d]
    BY <2>1, OneChanges
  <2>3. \A d \in Conn : Same(conn[d], conn[d])
    BY <2>1 DEF Same, Alike, SameStream
  <2> QED BY <2>2, <2>3
<1>2. ConferenceTypes'
  BY <1>1 DEF ConferenceInv, ConferenceTypes, ConferenceTypeOK, scene_vars
<1>3. /\ SlotsHold' /\ RolesFit' /\ ViewersServed'
      /\ \A d \in Conn : (Registered(d)' <=> Registered(d)) /\ (Listed(d)' <=> Listed(d))
  BY <1>1, TablesKept DEF ConferenceInv, Same, Alike
<1>4. FeedHeld'
  BY <1>1, <1>3 DEF ConferenceInv, ConferenceTypes, ConferenceTypeOK, FeedHeld, Same, Alike
<1>5. FramesFollow'
  BY <1>1, PassedKept, FramesKept DEF ConferenceInv, Same, Alike
<1> QED BY <1>2, <1>3, <1>4, <1>5 DEF ConferenceInv

(* A peer goes; its object does not know yet. *)
LEMMA PeerGoneInv == ASSUME ConferenceInv, NEW c \in Conn, PeerGone(c) PROVE ConferenceInv'
<1> DEFINE o == [conn[c] EXCEPT !.peer = "gone"]
<1>1. conn' = [conn EXCEPT ![c] = o]
  BY DEF PeerGone
<1>2. conn \in [Conn -> Connection] /\ Same(o, conn[c])
  BY ObjectsTyped, PeerUpdate
<1> HIDE DEF o
<1>3. UNCHANGED <<open, slot, watch, feed, clients, http_count, scene_vars, event, down, addFailed>>
  BY DEF PeerGone
<1>4. \A d \in Conn : conn'[d].fd = conn[d].fd /\ conn'[d].role = conn[d].role
  BY <1>1, <1>2 DEF Same, Alike
<1>5. EventHeld'
  BY <1>3, <1>4 DEF ConferenceInv, EventHeld, Registered
<1> QED BY <1>1, <1>2, <1>3, <1>5, SameKept, ObjectsTyped DEF ConferenceInv, ConferenceTypes, ConferenceTypeOK

(* A step that only changes the event, or ends the server. *)
LEMMA EventStepInv ==
  ASSUME ConferenceInv,
         UNCHANGED <<open, slot, watch, conn, feed, clients, http_count, scene_vars, addFailed>>,
         down' \in BOOLEAN,
         event' \in [of : Conn \cup {None}, fd : FD \cup {NoFd}, flags : SUBSET {"in", "out", "hup"}],
         EventHeld'
  PROVE  ConferenceInv'
<1>1. ConferenceTypes'
  BY DEF ConferenceInv, ConferenceTypes, ConferenceTypeOK, scene_vars
<1>2. SlotsHold' /\ RolesFit' /\ ViewersServed' /\ FeedHeld'
  BY DEF ConferenceInv, SlotsHold, RolesFit, ViewersServed, FeedHeld, Registered, Listed
<1>3. FramesFollow'
  BY PassedKept, FramesKept DEF ConferenceInv, SameStream
<1> QED BY <1>1, <1>2, <1>3 DEF ConferenceInv

(* epoll answers with an object that stands in the slot of its descriptor. *)
LEMMA WaitInv == ASSUME ConferenceInv, NEW c \in Conn, Wait(c) PROVE ConferenceInv'
<1>1. PICK flags \in SUBSET {"in", "out", "hup"} : event' = [of |-> c, fd |-> conn[c].fd, flags |-> flags]
  BY DEF Wait
<1>2. /\ UNCHANGED <<open, slot, watch, conn, feed, clients, http_count, scene_vars, down, addFailed>>
      /\ Registered(c)
  BY DEF Wait
<1>3. event' \in [of : Conn \cup {None}, fd : FD \cup {NoFd}, flags : SUBSET {"in", "out", "hup"}]
  BY <1>1, <1>2 DEF Registered
<1>4. conn[c].role # "none"
  <2>1. conn[c].managed
    BY <1>2, ConferenceAssumption DEF ConferenceInv, ConferenceTypes, ConferenceTypeOK, SlotsHold, Registered, FD
  <2> QED BY <2>1 DEF ConferenceInv, RolesFit
<1>5. EventHeld'
  BY <1>1, <1>2, <1>4 DEF EventHeld, Registered
<1> QED BY <1>2, <1>3, <1>5, EventStepInv DEF ConferenceInv, ConferenceTypes, ConferenceTypeOK

(* A handler that has run: its object's event has one kind less to come. *)
LEMMA HandlingFacts ==
  ASSUME ConferenceInv, NEW c \in Conn, NEW flag \in {"in", "out", "hup"}, Handling(c, flag)
  PROVE  /\ event.of = c /\ event'.of = c /\ event'.flags \subseteq event.flags /\ "in" \notin event'.flags
         /\ event' \in [of : Conn \cup {None}, fd : FD \cup {NoFd}, flags : SUBSET {"in", "out", "hup"}]
         /\ UNCHANGED scene_vars /\ addFailed' = addFailed
         /\ conn[c].role # "none"
         /\ conn[c].fd # NoFd => conn[c].fd < Limit /\ slot[conn[c].fd] \in {None, c}
         /\ flag = "in" => Registered(c)
<1>1. event \in [of : Conn \cup {None}, fd : FD \cup {NoFd}, flags : SUBSET {"in", "out", "hup"}]
  BY ObjectsTyped
<1>2. /\ event.of = c /\ flag \in event.flags /\ Before(flag) \cap event.flags = {}
      /\ event' = [event EXCEPT !.flags = event.flags \ {flag}]
      /\ UNCHANGED scene_vars /\ addFailed' = addFailed
  BY DEF Handling
<1>3. flag # "in" => "in" \in Before(flag)
  BY DEF Before
<1>4. event'.flags = event.flags \ {flag} /\ event'.of = c
  BY <1>1, <1>2
<1>5. "in" \notin event'.flags
  BY <1>2, <1>3, <1>4
<1>6. event' \in [of : Conn \cup {None}, fd : FD \cup {NoFd}, flags : SUBSET {"in", "out", "hup"}]
  BY <1>1, <1>2
<1>7. /\ conn[c].role # "none"
      /\ conn[c].fd # NoFd => conn[c].fd < Limit /\ slot[conn[c].fd] \in {None, c}
      /\ flag = "in" => Registered(c)
  BY <1>2 DEF ConferenceInv, EventHeld
<1> QED BY <1>2, <1>4, <1>5, <1>6, <1>7

(* The same, for an object that reads: it still stands in its slot. *)
LEMMA InHandled ==
  ASSUME ConferenceInv, NEW c \in Conn, Handling(c, "in")
  PROVE  /\ Registered(c) /\ UNCHANGED scene_vars /\ addFailed' = addFailed
         /\ event' \in [of : Conn \cup {None}, fd : FD \cup {NoFd}, flags : SUBSET {"in", "out", "hup"}]
<1> DEFINE flag == "in"
<1>1. flag \in {"in", "out", "hup"} /\ Handling(c, flag) /\ flag = "in"
  OBVIOUS
<1> HIDE DEF flag
<1> QED BY <1>1, HandlingFacts

(* The same, when the object of the event keeps its role and descriptor. *)
LEMMA HandlingHeld ==
  ASSUME ConferenceInv, NEW c \in Conn, NEW flag \in {"in", "out", "hup"}, Handling(c, flag),
         conn'[c].role = conn[c].role, conn'[c].fd \in {conn[c].fd, NoFd},
         conn[c].fd # NoFd => slot'[conn[c].fd] \in {None, slot[conn[c].fd]}
  PROVE  EventHeld'
<1>1. /\ event'.of = c /\ "in" \notin event'.flags /\ conn[c].role # "none"
      /\ conn[c].fd # NoFd => conn[c].fd < Limit /\ slot[conn[c].fd] \in {None, c}
  BY HandlingFacts
<1> QED BY <1>1 DEF EventHeld

(* Packets and requests that nothing comes of. *)
LEMMA NothingHandledInv ==
  ASSUME ConferenceInv, NEW c \in Conn, OtherPacket(c) \/ ReadHeaders(c)
  PROVE  ConferenceInv'
<1>1. /\ Handling(c, "in")
      /\ UNCHANGED <<open, slot, watch, conn, feed, clients, http_count, down>>
  BY DEF OtherPacket, ReadHeaders
<1>2. EventHeld'
  BY <1>1, HandlingHeld
<1> QED BY <1>1, <1>2, InHandled, EventStepInv DEF ConferenceInv, ConferenceTypes, ConferenceTypeOK

(* An object that has had no frame starts something. *)
LEMMA StartInv ==
  ASSUME ConferenceInv, NEW c \in Conn, NEW o \in Connection, Handling(c, "in"),
         conn' = [conn EXCEPT ![c] = o],
         UNCHANGED <<open, slot, watch, feed, clients, http_count, down>>,
         o.role = conn[c].role, o.fd = conn[c].fd, o.managed <=> conn[c].managed,
         SameStream(o, conn[c]),
         feed # c, conn[c].first = 0
  PROVE  ConferenceInv'
<1>1. conn' \in [Conn -> Connection] /\ conn'[c] = o /\ \A d \in Conn : d # c => conn'[d] = conn[d]
  BY ObjectsTyped, OneChanges
<1>2. /\ \A d \in Conn : /\ conn'[d].role = conn[d].role /\ conn'[d].fd = conn[d].fd
                         /\ conn'[d].managed <=> conn[d].managed
                         /\ SameStream(conn'[d], conn[d])
      /\ \A d \in Conn : d # c => conn'[d].state = conn[d].state /\ (conn'[d].done <=> conn[d].done)
  BY <1>1 DEF SameStream
<1>3. /\ UNCHANGED scene_vars /\ addFailed' = addFailed
      /\ event' \in [of : Conn \cup {None}, fd : FD \cup {NoFd}, flags : SUBSET {"in", "out", "hup"}]
  BY InHandled
<1>4. /\ SlotsHold' /\ RolesFit' /\ ViewersServed'
      /\ \A d \in Conn : (Registered(d)' <=> Registered(d)) /\ (Listed(d)' <=> Listed(d))
  BY <1>2, <1>3, TablesKept DEF ConferenceInv
<1>5. FeedHeld'
  BY <1>2, <1>4 DEF ConferenceInv, ConferenceTypes, ConferenceTypeOK, FeedHeld
<1>6. FramesFollow'
  BY <1>2, <1>3, PassedKept, FramesKept DEF ConferenceInv
<1>7. EventHeld'
  BY <1>2, HandlingHeld
<1>8. ConferenceTypes'
  BY <1>1, <1>3 DEF ConferenceInv, ConferenceTypes, ConferenceTypeOK, scene_vars
<1> QED BY <1>4, <1>5, <1>6, <1>7, <1>8 DEF ConferenceInv

(* A channel opens a feed. *)
LEMMA HandleNewFeedInv == ASSUME ConferenceInv, NEW c \in Conn, HandleNewFeed(c) PROVE ConferenceInv'
<1> DEFINE o == [conn[c] EXCEPT !.state = "open"]
<1>1. /\ Handling(c, "in") /\ conn[c].role = "channel" /\ conn[c].state = "wait"
      /\ conn' = [conn EXCEPT ![c] = o]
      /\ UNCHANGED <<open, slot, watch, feed, clients, http_count, down>>
  BY DEF HandleNewFeed
<1>2. Alike(o, conn[c]) /\ o.fd = conn[c].fd /\ (o.managed <=> conn[c].managed)
  BY ObjectsTyped, StateUpdate
<1> HIDE DEF o
<1>3. feed # c /\ conn[c].first = 0
  BY <1>1, ConferenceAssumption DEF ConferenceInv, FeedHeld, FramesFollow
<1> QED BY <1>1, <1>2, <1>3, StartInv DEF Alike

(* A viewer's request is answered, or the answer fails. *)
LEMMA InitStreamingInv == ASSUME ConferenceInv, NEW c \in Conn, InitStreaming(c) PROVE ConferenceInv'
<1>1. /\ Handling(c, "in") /\ conn[c].role = "http" /\ conn[c].state = "wait"
      /\ UNCHANGED <<open, slot, watch, feed, clients, http_count, down>>
  BY DEF InitStreaming
<1>2. PICK ok \in BOOLEAN, took \in 0..free :
        conn' = [conn EXCEPT ![c].state = IF ok THEN "streaming" ELSE "failed", ![c].done = ~ok,
                             ![c].out = @ + took]
  BY Zenon DEF InitStreaming
<1> DEFINE state == IF ok THEN "streaming" ELSE "failed"
           done  == ~ok
           p == [conn[c] EXCEPT !.state = state]
           q == [p EXCEPT !.done = done]
           held == conn[c].out + took
           o == [q EXCEPT !.out = held]
<1>3. conn[c] \in Connection /\ conn \in [Conn -> Connection]
  BY ObjectsTyped
<1>4. conn' = [conn EXCEPT ![c] = o]
  BY <1>2, <1>3 DEF Connection
<1>5. state \in {"wait", "open", "streaming", "failed"} /\ done \in BOOLEAN /\ held \in Nat
  BY <1>3 DEF Connection
<1> HIDE DEF state, done, held
<1>6. Alike(p, conn[c]) /\ p.fd = conn[c].fd /\ (p.managed <=> conn[c].managed)
  BY <1>3, <1>5, StateUpdate, ZenonT(30)
<1> HIDE DEF p
<1>7. /\ q \in Connection /\ q.role = p.role /\ q.fd = p.fd /\ (q.managed <=> p.managed)
      /\ SameStream(q, p)
  BY <1>5, <1>6, DoneUpdate DEF Alike
<1> HIDE DEF q
<1>8. Same(o, q)
  BY <1>5, <1>7, OutUpdate
<1> HIDE DEF o
<1>9. feed # c /\ conn[c].first = 0
  BY <1>1, ConferenceAssumption DEF ConferenceInv, FeedHeld, FramesFollow
<1>10. /\ o \in Connection /\ o.role = conn[c].role /\ o.fd = conn[c].fd /\ (o.managed <=> conn[c].managed)
       /\ SameStream(o, conn[c])
  BY <1>6, <1>7, <1>8 DEF Same, Alike, SameStream
<1> QED BY <1>1, <1>4, <1>9, <1>10, StartInv

(* Objects that stand in slots have different descriptors. *)
LEMMA DescriptorsDiffer ==
  ASSUME NEW c \in Conn, NEW d \in Conn, c # d, Registered(d),
         conn[c].fd # NoFd => slot[conn[c].fd] \in {None, c}
  PROVE  conn[d].fd # conn[c].fd
BY ConferenceAssumption DEF Registered, NoFd, FD

(* An object's descriptor is closed, and nobody else had it. *)
LEMMA CloseKept ==
  ASSUME ConferenceInv, NEW x \in Conn, conn[x].fd # NoFd => slot[conn[x].fd] \in {None, x},
         ~Listed(x),
         open' = open \ {conn[x].fd}, watch' = watch \ {conn[x].fd},
         UNCHANGED <<slot, clients, http_count, addFailed>>,
         \A d \in Conn \ {x} : /\ conn'[d].role = conn[d].role /\ conn'[d].fd = conn[d].fd
                               /\ conn'[d].managed <=> conn[d].managed,
         conn'[x].fd = NoFd,
         \/ conn'[x].role = conn[x].role /\ (conn'[x].managed <=> conn[x].managed)
         \/ ~conn'[x].managed /\ \A f \in DOMAIN slot : slot[f] # x
  PROVE  /\ SlotsHold' /\ RolesFit' /\ ViewersServed'
         /\ \A d \in Conn \ {x} : Registered(d) => Registered(d)'
<1>1. \A d \in Conn : Listed(d)' <=> Listed(d)
  BY DEF Listed
<1>2. \A d \in Conn \ {x} : Registered(d) => Registered(d)' /\ conn[d].fd # conn[x].fd
  <2>1. \A d \in Conn \ {x} : Registered(d) => conn[d].fd # conn[x].fd
    BY DescriptorsDiffer
  <2> QED BY <2>1 DEF Registered
<1>3. SlotsHold'
  <2> SUFFICES ASSUME NEW d \in Conn, NEW f \in DOMAIN slot, slot[f] = d
               PROVE  conn'[d].managed /\ conn'[d].fd \in {f, NoFd} /\ (conn'[d].fd = f => f \in open')
    BY DEF SlotsHold
  <2>1. conn[d].managed /\ conn[d].fd \in {f, NoFd} /\ (conn[d].fd = f => f \in open)
    BY DEF ConferenceInv, SlotsHold
  <2>2. f # NoFd /\ f \in 0..Limit - 1
    BY ConferenceAssumption DEF ConferenceInv, ConferenceTypes, ConferenceTypeOK, NoFd
  <2>3. d # x => f # conn[x].fd
    BY <2>2, ConferenceAssumption
  <2> QED BY <2>1, <2>2, <2>3
<1>4. RolesFit' /\ (~conn'[x].managed \/ (conn'[x].role = conn[x].role /\ conn[x].managed))
  BY <1>1 DEF ConferenceInv, RolesFit
<1>5. ViewersServed'
  <2>1. ~addFailed => \A d \in Conn : /\ Listed(d)' <=> conn'[d].role = "http" /\ conn'[d].managed
                                      /\ Listed(d)' => Registered(d)' /\ conn'[d].fd \in watch'
    <3> SUFFICES ASSUME ~addFailed, NEW d \in Conn
                 PROVE  /\ Listed(d)' <=> conn'[d].role = "http" /\ conn'[d].managed
                        /\ Listed(d)' => Registered(d)' /\ conn'[d].fd \in watch'
      OBVIOUS
    <3>1. /\ Listed(d) <=> conn[d].role = "http" /\ conn[d].managed
          /\ Listed(d) => Registered(d) /\ conn[d].fd \in watch
      BY DEF ConferenceInv, ViewersServed
    <3>2. CASE d = x
      BY <1>1, <1>4, <3>1, <3>2
    <3>3. CASE d # x
      BY <1>1, <1>2, <3>1, <3>3
    <3> QED BY <3>2, <3>3
  <2> QED BY <2>1 DEF ConferenceInv, ViewersServed
<1> QED BY <1>2, <1>3, <1>4, <1>5

(* replaceFeed() closes the old feed, and the new one stands in its slot. *)
LEMMA ReplaceFeedInv ==
  ASSUME ConferenceInv, NEW c \in Conn, NEW rest \in Nat, Handling(c, "in"),
         conn[c].role = "channel", conn[c].state = "open", ReplaceFeed(c, rest),
         UNCHANGED <<slot, clients, http_count, down>>
  PROVE  ConferenceInv'
<1> DEFINE o == [conn[c] EXCEPT !.state = "streaming", !.queue = rest]
           p == [conn[c] EXCEPT !.state = "streaming"]
<1>1. conn \in [Conn -> Connection] /\ conn[c] \in Connection
  BY ObjectsTyped
<1>2. Alike(o, conn[c]) /\ o.fd = conn[c].fd /\ (o.managed <=> conn[c].managed) /\ o.state = "streaming"
  <2>1. Alike(p, conn[c]) /\ p.fd = conn[c].fd /\ (p.managed <=> conn[c].managed) /\ p.state = "streaming"
    BY <1>1, StateUpdate
  <2>2. o = [p EXCEPT !.queue = rest]
    BY <1>1 DEF Connection
  <2> HIDE DEF o, p
  <2>3. Same(o, p)
    BY <2>1, <2>2, QueueUpdate DEF Alike
  <2> QED BY <2>1, <2>3 DEF Same, Alike, SameStream
<1>3. conn' = [x \in Conn |-> IF x = c THEN o ELSE IF x = feed THEN Closed(conn[x]) ELSE conn[x]]
  BY DEF ReplaceFeed
<1>4. /\ feed' = c
      /\ feed = None => UNCHANGED <<open, watch>>
      /\ feed # None => open' = open \ {conn[feed].fd} /\ watch' = watch \ {conn[feed].fd}
  BY DEF ReplaceFeed
<1> HIDE DEF o, p
<1>5. feed # c /\ feed \in Conn \cup {None} /\ Registered(c) /\ conn[c].first = 0
      /\ UNCHANGED scene_vars /\ addFailed' = addFailed
  <2>1. Registered(c) /\ UNCHANGED scene_vars /\ addFailed' = addFailed
    BY InHandled
  <2>2. feed # c /\ feed \in Conn \cup {None} /\ conn[c].first = 0
    BY ConferenceAssumption DEF ConferenceInv, ConferenceTypes, ConferenceTypeOK, FeedHeld, FramesFollow
  <2> QED BY <2>1, <2>2
<1>6. \A d \in Conn : Alike(conn'[d], conn[d]) /\ (conn'[d].managed <=> conn[d].managed)
  BY <1>1, <1>2, <1>3, ClosedUpdate DEF Alike, SameStream
<1>7. /\ conn'[c] = o
      /\ \A d \in Conn : d \notin {c, feed} => conn'[d] = conn[d]
      /\ feed # None => conn'[feed].fd = NoFd
  BY <1>1, <1>3, <1>5, ClosedUpdate
<1>8. \A d \in Conn : d # feed => conn'[d].fd = conn[d].fd
  BY <1>2, <1>7
<1>9. /\ SlotsHold' /\ RolesFit' /\ ViewersServed'
      /\ \A d \in Conn \ {feed} : Registered(d) => Registered(d)'
  <2>1. CASE feed = None
    <3>1. open \subseteq open' /\ UNCHANGED <<slot, watch, clients, http_count, addFailed>>
      BY <1>4, <1>5, <2>1
    <3>2. \A d \in Conn : d # feed
      BY <2>1, ConferenceAssumption
    <3>3. \A d \in Conn : /\ conn'[d].role = conn[d].role /\ conn'[d].fd = conn[d].fd
                          /\ conn'[d].managed <=> conn[d].managed
      BY <1>6, <1>8, <3>2 DEF Alike
    <3> QED BY <3>1, <3>3, TablesKept DEF ConferenceInv
  <2>2. CASE feed \in Conn
    <3>0. feed # None
      BY <2>2, ConferenceAssumption
    <3>1. Registered(feed) /\ ~Listed(feed) /\ slot[conn[feed].fd] = feed
      BY <2>2, <3>0 DEF ConferenceInv, FeedHeld, RolesFit, Registered
    <3>2. /\ open' = open \ {conn[feed].fd} /\ watch' = watch \ {conn[feed].fd}
          /\ conn'[feed].fd = NoFd
      BY <1>4, <1>7, <3>0
    <3>3. /\ \A d \in Conn : conn'[d].role = conn[d].role /\ (conn'[d].managed <=> conn[d].managed)
          /\ \A d \in Conn \ {feed} : conn'[d].fd = conn[d].fd
      BY <1>6, <1>8 DEF Alike
    <3> QED BY <1>5, <2>2, <3>1, <3>2, <3>3, CloseKept
  <2> QED BY <1>5, <2>1, <2>2
<1>10. FeedHeld'
  <2>1. Registered(c)'
    BY <1>5, <1>9
  <2>2. conn'[c].role = "channel" /\ conn'[c].state = "streaming"
    BY <1>2, <1>7 DEF Alike
  <2> QED BY <1>4, <2>1, <2>2 DEF FeedHeld, Registered
<1>11. FramesFollow'
  <2>1. \A d \in Conn : conn[d].first # 0 => d \notin {c, feed}
    BY <1>5, ConferenceAssumption DEF ConferenceInv, FeedHeld, FramesFollow
  <2> QED BY <1>5, <1>6, <1>7, <2>1, PassedKept, FramesKept DEF ConferenceInv, Alike
<1>12. EventHeld'
  BY <1>2, <1>7, HandlingHeld DEF Alike
<1>13. ConferenceTypes'
  <2>1. conn' \in [Conn -> Connection]
    BY <1>3, <1>6 DEF Alike
  <2>2. open' \subseteq FD /\ watch' \subseteq FD
    <3>1. open \subseteq FD /\ watch \subseteq FD
      BY DEF ConferenceInv, ConferenceTypes, ConferenceTypeOK
    <3>2. CASE feed = None
      BY <1>4, <3>1, <3>2
    <3>3. CASE feed # None
      BY <1>4, <3>1, <3>3
    <3> QED BY <3>2, <3>3
  <2>3. event' \in [of : Conn \cup {None}, fd : FD \cup {NoFd}, flags : SUBSET {"in", "out", "hup"}]
    BY InHandled
  <2> QED BY <1>4, <1>5, <2>1, <2>2, <2>3 DEF ConferenceInv, ConferenceTypes, ConferenceTypeOK, scene_vars
<1> QED BY <1>9, <1>10, <1>11, <1>12, <1>13 DEF ConferenceInv

(* A payload is queued or becomes the feed, and rest blocks stay with it.  *)
Fed(c, rest) ==
  /\ UNCHANGED down /\ free' = free + conn[c].queue - rest
  /\ free \in Nat => rest <= free + conn[c].queue
  /\ \/ conn[c].state = "open" /\ ReplaceFeed(c, rest)
     \/ conn' = [conn EXCEPT ![c].queue = rest] /\ UNCHANGED <<open, watch, feed>>

(* A payload is taken, or ends the server. *)
LEMMA FeedPayloadFacts ==
  ASSUME ConferenceInv, NEW c \in Conn, FeedPayload(c)
  PROVE  /\ Handling(c, "in") /\ conn[c].role = "channel" /\ UNCHANGED <<slot, clients, http_count>>
         /\ \/ down' = TRUE /\ UNCHANGED <<open, watch, conn, feed, free>>
            \/ \E rest \in Nat : Fed(c, rest)
<1> DEFINE old == conn[c].queue
<1>1. /\ Handling(c, "in") /\ conn[c].role = "channel" /\ UNCHANGED <<slot, clients, http_count>>
  BY DEF FeedPayload
<1>2. old \in Nat
  BY ObjectsTyped DEF Connection
<1>3. \/ down' = TRUE /\ UNCHANGED <<open, watch, conn, feed, free>>
      \/ \E size \in {old, old + 1} : \E rest \in 0..size :
           /\ size <= old + free /\ UNCHANGED down /\ free' = free + old - rest
           /\ \/ conn[c].state = "open" /\ ReplaceFeed(c, rest)
              \/ conn' = [conn EXCEPT ![c].queue = rest] /\ UNCHANGED <<open, watch, feed>>
  BY <1>2 DEF FeedPayload
<1>4. ASSUME NEW size \in {old, old + 1}, NEW rest \in 0..size, size <= old + free
      PROVE  rest \in Nat /\ (free \in Nat => rest <= free + old)
  BY <1>2, <1>4
<1>5. ASSUME NEW size \in {old, old + 1}, NEW rest \in 0..size,
             /\ size <= old + free /\ UNCHANGED down /\ free' = free + old - rest
             /\ \/ conn[c].state = "open" /\ ReplaceFeed(c, rest)
                \/ conn' = [conn EXCEPT ![c].queue = rest] /\ UNCHANGED <<open, watch, feed>>
      PROVE  \E n \in Nat : Fed(c, n)
  <2>1. rest \in Nat /\ (free \in Nat => rest <= free + old)
    BY <1>4, <1>5
  <2> WITNESS rest \in Nat
  <2> QED BY <1>5, <2>1 DEF Fed
<1> QED BY <1>1, <1>3, <1>5

(* It keeps the invariant. *)
LEMMA FeedPayloadInv == ASSUME ConferenceInv, NEW c \in Conn, FeedPayload(c) PROVE ConferenceInv'
<1>1. /\ Handling(c, "in") /\ conn[c].role = "channel" /\ UNCHANGED <<slot, clients, http_count>>
      /\ \/ down' = TRUE /\ UNCHANGED <<open, watch, conn, feed, free>>
         \/ \E rest \in Nat : Fed(c, rest)
  BY FeedPayloadFacts
<1>2. conn[c] \in Connection /\ conn \in [Conn -> Connection]
  BY ObjectsTyped
<1>3. /\ event' \in [of : Conn \cup {None}, fd : FD \cup {NoFd}, flags : SUBSET {"in", "out", "hup"}]
      /\ UNCHANGED scene_vars /\ addFailed' = addFailed
  BY <1>1, InHandled
<1>4. CASE down' = TRUE /\ UNCHANGED <<open, watch, conn, feed, free>>
  <2>1. EventHeld'
    BY <1>1, <1>4, HandlingHeld
  <2> QED BY <1>1, <1>3, <1>4, <2>1, EventStepInv
<1>5. ASSUME NEW rest \in Nat, Fed(c, rest) PROVE ConferenceInv'
  <2>1. CASE conn[c].state = "open" /\ ReplaceFeed(c, rest)
    BY <1>1, <1>5, <2>1, ReplaceFeedInv DEF Fed
  <2>2. CASE conn' = [conn EXCEPT ![c].queue = rest] /\ UNCHANGED <<open, watch, feed>>
    <3> DEFINE o == [conn[c] EXCEPT !.queue = rest]
    <3>1. Same(o, conn[c]) /\ conn' = [conn EXCEPT ![c] = o]
      BY <1>2, <2>2, QueueUpdate
    <3> HIDE DEF o
    <3>2. conn'[c].role = conn[c].role /\ conn'[c].fd = conn[c].fd
      BY <1>2, <3>1 DEF Same, Alike
    <3>3. EventHeld'
      BY <1>1, <3>2, HandlingHeld
    <3>4. down' \in BOOLEAN
      BY <1>5 DEF ConferenceInv, ConferenceTypes, ConferenceTypeOK, Fed
    <3> QED BY <1>1, <1>3, <2>2, <3>1, <3>3, <3>4, SameKept
  <2> QED BY <1>5, <2>1, <2>2 DEF Fed
<1> QED BY <1>1, <1>4, <1>5

(* leaveDaemon(), and what it leaves of the object. *)
Departed(o) == [o EXCEPT !.managed = FALSE, !.out = 0]

LEMMA LeftUpdate ==
  ASSUME NEW o \in Connection
  PROVE  /\ Alike(Departed(o), o) /\ Departed(o).fd = o.fd /\ ~Departed(o).managed /\ Departed(o).state = o.state
         /\ Departed(o).out = 0 /\ Departed(o).queue = o.queue
<1> DEFINE q == [o EXCEPT !.managed = FALSE]
           p == [q EXCEPT !.out = 0]
<1>1. Alike(q, o) /\ q.fd = o.fd /\ ~q.managed /\ q.state = o.state
  BY ManagedUpdate
<1>2. p = Departed(o) /\ p.out = 0 /\ p.queue = o.queue
  BY DEF Connection, Departed
<1> HIDE DEF q
<1>3. Same(p, q)
  BY <1>1, OutUpdate DEF Alike
<1> HIDE DEF p
<1>4. Alike(p, o) /\ p.fd = o.fd /\ ~p.managed /\ p.state = o.state
  BY <1>1, <1>3 DEF Same, Alike, SameStream
<1> QED BY <1>2, <1>4

(* leaveDaemon() of the object of an event: the others keep what they have. *)
LEMMA LeaveFacts ==
  ASSUME ConferenceInv, NEW c \in Conn, Leave(c), open' = open,
         conn[c].fd # NoFd => slot[conn[c].fd] \in {None, c}
  PROVE  /\ conn' \in [Conn -> Connection] /\ slot' \in [0..Limit - 1 -> Conn \cup {None}] /\ watch' \subseteq watch
         /\ \A d \in Conn : Alike(conn'[d], conn[d]) /\ conn'[d].fd = conn[d].fd /\ conn'[d].state = conn[d].state
         /\ \A d \in Conn \ {c} : /\ conn'[d] = conn[d]
                                  /\ Registered(d) => Registered(d)'
                                  /\ Registered(d) /\ conn[d].fd \in watch => conn[d].fd \in watch'
         /\ conn'[c].managed <=> conn[c].managed /\ ~CanLeave(c)
         /\ conn[c].fd # NoFd => slot'[conn[c].fd] \in {None, slot[conn[c].fd]}
         /\ SlotsHold'
<1>1. /\ conn \in [Conn -> Connection] /\ slot \in [0..Limit - 1 -> Conn \cup {None}]
      /\ \A d \in Conn : conn[d] \in Connection
  BY ObjectsTyped DEF ConferenceInv, ConferenceTypes, ConferenceTypeOK
<1>2. CASE CanLeave(c)
  <2> DEFINE o == Departed(conn[c])
  <2>1. /\ conn' = [conn EXCEPT ![c] = o]
        /\ slot' = [slot EXCEPT ![conn[c].fd] = None] /\ watch' = watch \ {conn[c].fd}
    BY <1>1, <1>2 DEF Leave, Connection, Departed
  <2>2. Alike(o, conn[c]) /\ o.fd = conn[c].fd /\ ~o.managed /\ o.state = conn[c].state
    BY <1>1, LeftUpdate
  <2> HIDE DEF o
  <2>3. conn' \in [Conn -> Connection] /\ conn'[c] = o /\ \A d \in Conn : d # c => conn'[d] = conn[d]
    BY <1>1, <2>1, <2>2, OneChanges DEF Alike
  <2>4. conn[c].fd \in 0..Limit - 1
    BY <1>1, <1>2 DEF CanLeave
  <2>5. \A d \in Conn \ {c} : Registered(d) => conn[d].fd # conn[c].fd
    BY DescriptorsDiffer
  <2>6. \A d \in Conn \ {c} : /\ conn'[d] = conn[d]
                              /\ Registered(d) => Registered(d)'
                              /\ Registered(d) /\ conn[d].fd \in watch => conn[d].fd \in watch'
    BY <1>1, <2>1, <2>3, <2>5, ConferenceAssumption DEF Registered, FD
  <2>7. slot' \in [0..Limit - 1 -> Conn \cup {None}] /\ slot'[conn[c].fd] = None
        /\ \A f \in 0..Limit - 1 : f # conn[c].fd => slot'[f] = slot[f]
    BY <1>1, <2>1, <2>4
  <2>8. SlotsHold'
    <3> SUFFICES ASSUME NEW d \in Conn, NEW f \in 0..Limit - 1, slot'[f] = d
                 PROVE  conn'[d].managed /\ conn'[d].fd \in {f, NoFd} /\ (conn'[d].fd = f => f \in open')
      BY <2>7 DEF SlotsHold
    <3>1. f # conn[c].fd /\ slot[f] = d
      BY <2>7, ConferenceAssumption
    <3>2. conn[d].managed /\ conn[d].fd \in {f, NoFd} /\ (conn[d].fd = f => f \in open)
      BY <1>1, <3>1 DEF ConferenceInv, SlotsHold
    <3>3. d # c
      BY <2>4, <3>1, <3>2 DEF NoFd
    <3> QED BY <2>3, <3>2, <3>3
  <2>9. \A d \in Conn : Alike(conn'[d], conn[d]) /\ conn'[d].fd = conn[d].fd /\ conn'[d].state = conn[d].state
    BY <1>1, <2>2, <2>3 DEF Alike, SameStream
  <2> QED BY <1>2, <2>1, <2>2, <2>3, <2>6, <2>7, <2>8, <2>9
<1>3. CASE ~CanLeave(c)
  <2>1. UNCHANGED <<slot, watch, conn>>
    BY <1>3 DEF Leave
  <2>2. SlotsHold'
    BY <2>1 DEF ConferenceInv, SlotsHold
  <2>3. \A d \in Conn : Alike(conn'[d], conn[d])
    BY <1>1, <2>1 DEF Alike, SameStream
  <2> QED BY <1>1, <1>3, <2>1, <2>2, <2>3 DEF Registered
<1> QED BY <1>2, <1>3

(* An object that is not the feed leaves the daemon. *)
LEMMA LeaveInv ==
  ASSUME ConferenceInv, NEW c \in Conn, NEW flag \in {"in", "out", "hup"}, Handling(c, flag), Leave(c),
         feed # c, UNCHANGED <<open, feed, down>>,
         clients' \in [1..MaxClients -> Conn \cup {None}], http_count' \in 0..MaxClients,
         ViewersServed', \A d \in Conn : Listed(d)' => Listed(d) /\ Passed(d)' = Passed(d)
  PROVE  ConferenceInv'
<1>1. /\ event' \in [of : Conn \cup {None}, fd : FD \cup {NoFd}, flags : SUBSET {"in", "out", "hup"}]
      /\ UNCHANGED scene_vars /\ addFailed' = addFailed
      /\ conn[c].fd # NoFd => slot[conn[c].fd] \in {None, c}
  BY HandlingFacts
<1>2. /\ conn' \in [Conn -> Connection] /\ slot' \in [0..Limit - 1 -> Conn \cup {None}] /\ watch' \subseteq watch
      /\ \A d \in Conn : Alike(conn'[d], conn[d]) /\ conn'[d].fd = conn[d].fd /\ conn'[d].state = conn[d].state
      /\ \A d \in Conn \ {c} : conn'[d] = conn[d] /\ (Registered(d) => Registered(d)')
      /\ conn'[c].managed => conn[c].managed
      /\ conn[c].fd # NoFd => slot'[conn[c].fd] \in {None, slot[conn[c].fd]}
      /\ SlotsHold'
  BY <1>1, LeaveFacts
<1>3. ConferenceTypes'
  BY <1>1, <1>2 DEF ConferenceInv, ConferenceTypes, ConferenceTypeOK, scene_vars
<1>4. RolesFit'
  BY <1>2 DEF ConferenceInv, RolesFit, Alike
<1>5. FeedHeld'
  <2> SUFFICES ASSUME feed # None
               PROVE  conn'[feed].role = "channel" /\ conn'[feed].state = "streaming" /\ Registered(feed)'
    BY DEF FeedHeld, Registered
  <2>1. feed \in Conn \ {c} /\ conn[feed].role = "channel" /\ conn[feed].state = "streaming" /\ Registered(feed)
    BY DEF ConferenceInv, ConferenceTypes, ConferenceTypeOK, FeedHeld
  <2> QED BY <1>2, <2>1
<1>6. FramesFollow'
  BY <1>1, <1>2, FramesKept DEF ConferenceInv, Alike
<1>7. EventHeld'
  BY <1>2, HandlingHeld DEF Alike
<1> QED BY <1>2, <1>3, <1>4, <1>5, <1>6, <1>7 DEF ConferenceInv

(* The feed is closed when its peer is gone; another channel leaves. *)
LEMMA ChannelDownInv == ASSUME ConferenceInv, NEW c \in Conn, ChannelDown(c) PROVE ConferenceInv'
<1> DEFINE flag == "hup"
<1>1. /\ Handling(c, flag) /\ conn[c].role = "channel" /\ UNCHANGED <<clients, http_count, down>>
      /\ flag \in {"in", "out", "hup"}
  BY DEF ChannelDown
<1> HIDE DEF flag
<1>2. /\ event' \in [of : Conn \cup {None}, fd : FD \cup {NoFd}, flags : SUBSET {"in", "out", "hup"}]
      /\ UNCHANGED scene_vars /\ addFailed' = addFailed
      /\ conn[c].fd # NoFd => slot[conn[c].fd] \in {None, c}
  BY <1>1, HandlingFacts
<1>3. ~Listed(c) /\ \A d \in Conn : Listed(d)' <=> Listed(d)
  BY <1>1 DEF ConferenceInv, RolesFit, Listed
<1>4. CASE feed = c
  <2>1. /\ feed' = None /\ open' = open \ {conn[c].fd} /\ watch' = watch \ {conn[c].fd}
        /\ conn' = [conn EXCEPT ![c] = Closed(conn[c])] /\ slot' = slot
    BY <1>4 DEF ChannelDown
  <2>2. /\ Alike(Closed(conn[c]), conn[c]) /\ Closed(conn[c]).fd = NoFd
        /\ Closed(conn[c]).managed <=> conn[c].managed
        /\ Closed(conn[c]).state = conn[c].state
    BY ObjectsTyped, ClosedUpdate
  <2>3. /\ conn' \in [Conn -> Connection] /\ conn'[c] = Closed(conn[c])
        /\ \A d \in Conn : d # c => conn'[d] = conn[d]
    BY <2>1, <2>2, OneChanges, ObjectsTyped DEF Alike
  <2>4. /\ \A d \in Conn : /\ conn'[d].role = conn[d].role /\ conn'[d].state = conn[d].state
                           /\ conn'[d].managed <=> conn[d].managed
                           /\ conn'[d].done <=> conn[d].done
                           /\ SameStream(conn'[d], conn[d])
        /\ \A d \in Conn \ {c} : conn'[d].fd = conn[d].fd
        /\ conn'[c].fd = NoFd
    BY <2>2, <2>3 DEF Alike, SameStream
  <2>5. SlotsHold' /\ RolesFit' /\ ViewersServed'
    BY <1>1, <1>2, <1>3, <2>1, <2>4, CloseKept
  <2>6. FeedHeld'
    BY <2>1 DEF FeedHeld
  <2>7. FramesFollow'
    BY <1>1, <1>2, <2>4, PassedKept, FramesKept DEF ConferenceInv
  <2>8. EventHeld'
    <3>1. conn[c].fd # NoFd => slot'[conn[c].fd] \in {None, slot[conn[c].fd]}
      BY <2>1
    <3> QED BY <1>1, <2>4, <3>1, HandlingHeld
  <2>9. ConferenceTypes'
    BY <1>1, <1>2, <2>1, <2>3 DEF ConferenceInv, ConferenceTypes, ConferenceTypeOK, scene_vars
  <2> QED BY <2>5, <2>6, <2>7, <2>8, <2>9 DEF ConferenceInv
<1>5. CASE feed # c
  <2>1. Leave(c) /\ UNCHANGED <<feed, open>>
    BY <1>5 DEF ChannelDown
  <2>2. /\ \A d \in Conn : Alike(conn'[d], conn[d]) /\ conn'[d].fd = conn[d].fd
        /\ \A d \in Conn \ {c} : /\ conn'[d] = conn[d]
                                 /\ Registered(d) => Registered(d)'
                                 /\ Registered(d) /\ conn[d].fd \in watch => conn[d].fd \in watch'
    BY <1>2, <2>1, LeaveFacts
  <2>3. ViewersServed'
    BY <1>1, <1>2, <1>3, <2>2 DEF ConferenceInv, ViewersServed, Alike
  <2>4. clients' \in [1..MaxClients -> Conn \cup {None}] /\ http_count' \in 0..MaxClients
    BY <1>1 DEF ConferenceInv, ConferenceTypes, ConferenceTypeOK
  <2> QED BY <1>1, <1>2, <1>5, <2>1, <2>3, <2>4, PassedKept, LeaveInv
<1> QED BY <1>4, <1>5

(* A viewer leaves the scene and the daemon. *)
LEMMA ViewerGoneInv ==
  ASSUME ConferenceInv, NEW c \in Conn, NEW flag \in {"in", "out", "hup"}, Handling(c, flag),
         conn[c].role = "http", RemoveClient(c), Leave(c), UNCHANGED <<open, feed, down>>
  PROVE  ConferenceInv'
<1>1. /\ UNCHANGED scene_vars /\ addFailed' = addFailed
      /\ conn[c].fd # NoFd => slot[conn[c].fd] \in {None, c}
  BY HandlingFacts
<1>2. /\ \A d \in Conn : Alike(conn'[d], conn[d]) /\ conn'[d].fd = conn[d].fd
      /\ \A d \in Conn \ {c} : /\ conn'[d] = conn[d]
                               /\ Registered(d) => Registered(d)'
                               /\ Registered(d) /\ conn[d].fd \in watch => conn[d].fd \in watch'
      /\ conn'[c].managed <=> conn[c].managed /\ ~CanLeave(c)
  BY <1>1, LeaveFacts
<1>3. /\ clients \in [1..MaxClients -> Conn \cup {None}]
      /\ clients' = [i \in 1..MaxClients |-> IF clients[i] = c THEN None ELSE clients[i]]
      /\ http_count' = http_count - Cardinality({i \in 1..MaxClients : clients[i] = c})
      /\ http_count = Cardinality(Places(clients))
      /\ slot \in [0..Limit - 1 -> Conn \cup {None}]
  BY DEF RemoveClient, ConferenceInv, ConferenceTypes, ConferenceTypeOK, ViewersServed, Places
<1>4. /\ clients' \in [1..MaxClients -> Conn \cup {None}]
      /\ http_count' = Cardinality(Places(clients')) /\ http_count' \in 0..MaxClients
  BY <1>3, PlacesFreed, PlacesFinite
<1>5. ~Listed(c)' /\ \A d \in Conn \ {c} : (Listed(d)' <=> Listed(d)) /\ Passed(d)' = Passed(d)
  <2>1. ~Listed(c)' /\ \A d \in Conn \ {c} : Listed(d)' <=> Listed(d)
    BY <1>3, ConferenceAssumption DEF Listed
  <2>2. ASSUME NEW d \in Conn \ {c} PROVE Passed(d)' = Passed(d)
    <3>1. \A i \in 1..MaxClients : clients'[i] = d <=> clients[i] = d
      BY <1>3, ConferenceAssumption
    <3>2. turn' = turn /\ packets' = packets
      BY <1>1 DEF scene_vars
    <3>3. turn # 0 => turn..MaxClients \subseteq 1..MaxClients
      BY ConferenceAssumption DEF ConferenceInv, ConferenceTypes, ConferenceTypeOK
    <3> QED BY <3>1, <3>2, <3>3 DEF Passed
  <2> QED BY <2>1, <2>2
<1>6. \A i, j \in 1..MaxClients : clients'[i] = clients'[j] /\ clients'[i] # None => i = j
  BY <1>3 DEF ConferenceInv, ViewersServed
<1>7. ~addFailed => ~conn'[c].managed
  <2> SUFFICES ASSUME ~addFailed, conn[c].managed PROVE CanLeave(c)
    BY <1>2
  <2>1. Registered(c) /\ conn[c].fd \in watch
    BY DEF ConferenceInv, ViewersServed
  <2>2. conn[c].fd \in DOMAIN slot
    BY <1>3, <2>1, ConferenceAssumption DEF Registered, FD
  <2> QED BY <2>1, <2>2 DEF CanLeave, Registered
<1>8. ~addFailed' => \A d \in Conn : /\ Listed(d)' <=> conn'[d].role = "http" /\ conn'[d].managed
                                     /\ Listed(d)' => Registered(d)' /\ conn'[d].fd \in watch'
  BY <1>1, <1>2, <1>5, <1>7 DEF ConferenceInv, ViewersServed
<1>9. ViewersServed'
  BY <1>4, <1>6, <1>8 DEF ViewersServed, Places
<1>10. feed # c
  BY ConferenceAssumption DEF ConferenceInv, FeedHeld
<1> QED BY <1>4, <1>5, <1>9, <1>10, LeaveInv

(* A viewer whose peer is gone is forgotten. *)
LEMMA HttpDownInv == ASSUME ConferenceInv, NEW c \in Conn, HttpDown(c) PROVE ConferenceInv'
<1> DEFINE flag == "hup"
<1>1. /\ Handling(c, flag) /\ conn[c].role = "http" /\ flag \in {"in", "out", "hup"}
      /\ RemoveClient(c) /\ Leave(c) /\ UNCHANGED <<open, feed, down>>
  BY DEF HttpDown
<1> HIDE DEF flag
<1> QED BY <1>1, ViewerGoneInv

(* Output is written; a viewer that is done goes with the last of it. *)
LEMMA HttpWrittenInv == ASSUME ConferenceInv, NEW c \in Conn, HttpWritten(c) PROVE ConferenceInv'
<1> DEFINE flag == "out"
<1>1. /\ Handling(c, flag) /\ conn[c].role = "http" /\ flag \in {"in", "out", "hup"}
      /\ UNCHANGED <<open, feed, down>>
      /\ \/ RemoveClient(c) /\ Leave(c)
         \/ \E rest \in 0..conn[c].out : /\ conn' = [conn EXCEPT ![c].out = rest]
                                         /\ free' = free + conn[c].out - rest
                                         /\ UNCHANGED <<clients, http_count, slot, watch>>
  BY DEF HttpWritten
<1> HIDE DEF flag
<1>2. CASE RemoveClient(c) /\ Leave(c)
  BY <1>1, <1>2, ViewerGoneInv
<1>3. ASSUME NEW rest \in 0..conn[c].out, conn' = [conn EXCEPT ![c].out = rest],
             UNCHANGED <<clients, http_count, slot, watch>>
      PROVE  ConferenceInv'
  <2> DEFINE o == [conn[c] EXCEPT !.out = rest]
  <2>1. conn[c] \in Connection /\ conn \in [Conn -> Connection]
    BY ObjectsTyped
  <2>2. rest \in Nat
    BY <1>3, <2>1 DEF Connection
  <2>3. Same(o, conn[c]) /\ conn' = [conn EXCEPT ![c] = o]
    BY <1>3, <2>1, <2>2, OutUpdate
  <2> HIDE DEF o
  <2>4. conn'[c].role = conn[c].role /\ conn'[c].fd = conn[c].fd
    BY <2>1, <2>3 DEF Same, Alike
  <2>5. EventHeld'
    BY <1>1, <1>3, <2>4, HandlingHeld
  <2>6. /\ event' \in [of : Conn \cup {None}, fd : FD \cup {NoFd}, flags : SUBSET {"in", "out", "hup"}]
        /\ UNCHANGED scene_vars /\ addFailed' = addFailed
    BY <1>1, HandlingFacts
  <2>7. down' \in BOOLEAN
    BY <1>1 DEF ConferenceInv, ConferenceTypes, ConferenceTypeOK
  <2> QED BY <1>1, <1>3, <2>3, <2>5, <2>6, <2>7, SameKept
<1> QED BY <1>1, <1>2, <1>3

(* An object that nothing refers to is destroyed, and its descriptor closed. *)
LEMMA EndEventInv == ASSUME ConferenceInv, NEW c \in Conn, EndEvent(c) PROVE ConferenceInv'
<1>1. /\ event.of = c /\ event' = Idle
      /\ UNCHANGED <<slot, feed, clients, http_count, scene_vars, down, addFailed>>
  BY DEF EndEvent
<1>2. event' \in [of : Conn \cup {None}, fd : FD \cup {NoFd}, flags : SUBSET {"in", "out", "hup"}]
  BY <1>1 DEF Idle
<1>3. EventHeld'
  BY <1>1, ConferenceAssumption DEF EventHeld, Idle
<1>4. down \in BOOLEAN /\ slot \in [0..Limit - 1 -> Conn \cup {None}]
  BY DEF ConferenceInv, ConferenceTypes, ConferenceTypeOK
<1>5. CASE Kept(c)
  <2>1. UNCHANGED <<open, watch, conn>>
    BY <1>5 DEF EndEvent
  <2> QED BY <1>1, <1>2, <1>3, <1>4, <2>1, EventStepInv
<1>6. CASE ~Kept(c)
  <2>1. /\ open' = open \ {conn[c].fd} /\ watch' = watch \ {conn[c].fd} /\ conn' = [conn EXCEPT ![c] = Fresh]
        /\ ~Listed(c) /\ \A f \in DOMAIN slot : slot[f] # c
    BY <1>6 DEF EndEvent, Kept
  <2>2. conn' \in [Conn -> Connection] /\ conn'[c] = Fresh /\ \A d \in Conn : d # c => conn'[d] = conn[d]
    BY <2>1, OneChanges, ObjectsTyped, FreshFacts
  <2>3. conn[c].fd # NoFd => slot[conn[c].fd] \in {None, c}
    BY <1>1 DEF ConferenceInv, EventHeld
  <2>4. /\ SlotsHold' /\ RolesFit' /\ ViewersServed'
        /\ \A d \in Conn \ {c} : Registered(d) => Registered(d)'
    <3>1. conn'[c].fd = NoFd /\ ~conn'[c].managed
      BY <2>2, FreshFacts
    <3> QED BY <1>1, <2>1, <2>2, <2>3, <3>1, CloseKept
  <2>5. FeedHeld'
    <3> SUFFICES ASSUME feed # None
                 PROVE  conn'[feed].role = "channel" /\ conn'[feed].state = "streaming" /\ Registered(feed)'
      BY <1>1 DEF FeedHeld, Registered
    <3>1. feed \in Conn /\ conn[feed].role = "channel" /\ conn[feed].state = "streaming" /\ Registered(feed)
      BY DEF ConferenceInv, ConferenceTypes, ConferenceTypeOK, FeedHeld
    <3>2. feed # c
      BY <1>4, <2>1, <3>1, ConferenceAssumption DEF Registered, FD
    <3> QED BY <1>1, <2>2, <2>4, <3>1, <3>2 DEF Registered
  <2>6. FramesFollow'
    <3>1. \A d \in Conn : (Listed(d)' <=> Listed(d)) /\ Passed(d)' = Passed(d)
      BY <1>1, PassedKept
    <3>2. packets \in Nat /\ packets' = packets /\ turn' = turn
      BY <1>1, ConferenceAssumption DEF ConferenceInv, ConferenceTypes, ConferenceTypeOK, scene_vars
    <3> QED BY <2>2, <3>1, <3>2, FreshFacts DEF ConferenceInv, FramesFollow
  <2>7. ConferenceTypes'
    BY <1>1, <1>2, <2>1, <2>2 DEF ConferenceInv, ConferenceTypes, ConferenceTypeOK, scene_vars
  <2> QED BY <1>3, <2>4, <2>5, <2>6, <2>7 DEF ConferenceInv
<1> QED BY <1>5, <1>6

(* A frame is encoded; the loop has not begun. *)
LEMMA OnTimerInv == ASSUME ConferenceInv, OnTimer PROVE ConferenceInv'
<1>1. /\ event = Idle /\ turn = 0 /\ packets < MaxFrames
      /\ UNCHANGED <<open, slot, watch, conn, feed, clients, http_count, event, down, addFailed>>
  BY DEF OnTimer
<1>2. EventHeld'
  BY <1>1, ConferenceAssumption DEF EventHeld, Idle
<1>3. CASE UNCHANGED scene_vars
  BY <1>1, <1>2, <1>3, ObjectsTyped, EventStepInv DEF ConferenceInv, ConferenceTypes, ConferenceTypeOK
<1>4. CASE packets' = packets + 1 /\ packet' \in {"key", "plain"} /\ turn' = 1
  <2>1. packets \in Nat
    BY ConferenceAssumption DEF ConferenceInv, ConferenceTypes, ConferenceTypeOK
  <2>2. ConferenceTypes'
    BY <1>1, <1>4, <2>1, ConferenceAssumption DEF ConferenceInv, ConferenceTypes, ConferenceTypeOK
  <2>3. SlotsHold' /\ RolesFit' /\ ViewersServed' /\ FeedHeld'
    BY <1>1 DEF ConferenceInv, SlotsHold, RolesFit, ViewersServed, FeedHeld, Registered, Listed
  <2>4. \A d \in Conn : (Listed(d)' <=> Listed(d)) /\ (Listed(d) => Passed(d)' = Passed(d))
    <3> SUFFICES ASSUME NEW d \in Conn, Listed(d) PROVE Passed(d)' = Passed(d)
      BY <1>1 DEF Listed
    <3>1. \E i \in turn'..MaxClients : clients'[i] = d
      BY <1>1, <1>4 DEF Listed
    <3>2. Passed(d)' = packets' - 1
      BY <1>4, <3>1 DEF Passed
    <3>3. Passed(d) = packets
      BY <1>1 DEF Passed
    <3> QED BY <1>4, <2>1, <3>2, <3>3
  <2>5. FramesFollow'
    <3>1. \A d \in Conn : conn[d].first \in Nat
      BY ObjectsTyped, ConferenceAssumption DEF Connection
    <3> QED BY <1>1, <1>4, <2>1, <2>4, <3>1 DEF ConferenceInv, FramesFollow
  <2> QED BY <1>2, <2>2, <2>3, <2>5 DEF ConferenceInv
<1> QED BY <1>3, <1>4 DEF OnTimer

(* A turn passes the viewer of its place and no other. *)
LEMMA TurnPasses ==
  ASSUME ConferenceInv, turn # 0, NextTurn, UNCHANGED <<clients, packets>>
  PROVE  /\ turn \in 1..MaxClients /\ turn' \in 0..MaxClients /\ packet' \in {"key", "plain", "none"}
         /\ packets \in 1..MaxFrames
         /\ \A d \in Conn : d # clients[turn] => Passed(d)' = Passed(d)
         /\ \A d \in Conn : d = clients[turn] => Passed(d) = packets - 1 /\ Passed(d)' = packets
<1>1. /\ turn \in 1..MaxClients /\ MaxClients \in Nat /\ packets \in 1..MaxFrames
      /\ packet \in {"key", "plain", "none"}
      /\ \A i, j \in 1..MaxClients : clients[i] = clients[j] /\ clients[i] # None => i = j
  BY ConferenceAssumption
     DEF ConferenceInv, ConferenceTypes, ConferenceTypeOK, FramesFollow, ViewersServed
<1>2. \/ turn = MaxClients /\ turn' = 0 /\ packet' = "none"
      \/ turn # MaxClients /\ turn' = turn + 1 /\ packet' = packet
  BY DEF NextTurn, EndTurns
<1>3. turn' \in 0..MaxClients /\ packet' \in {"key", "plain", "none"}
  BY <1>1, <1>2
<1>4. ASSUME NEW d \in Conn
      PROVE  (turn' # 0 /\ \E i \in turn'..MaxClients : clients'[i] = d)
                 <=> \E i \in turn + 1..MaxClients : clients[i] = d
  BY <1>1, <1>2
<1>5. ASSUME NEW d \in Conn, d # clients[turn] PROVE Passed(d)' = Passed(d)
  <2>1. (\E i \in turn..MaxClients : clients[i] = d) <=> \E i \in turn + 1..MaxClients : clients[i] = d
    BY <1>1, <1>5
  <2> QED BY <1>4, <2>1 DEF Passed
<1>6. ASSUME NEW d \in Conn, d = clients[turn] PROVE Passed(d) = packets - 1 /\ Passed(d)' = packets
  <2>1. turn \in turn..MaxClients
    BY <1>1
  <2>2. ~ \E i \in turn + 1..MaxClients : clients[i] = d
    <3> SUFFICES ASSUME NEW i \in turn + 1..MaxClients, clients[i] = d PROVE FALSE
      OBVIOUS
    <3>1. i \in 1..MaxClients /\ i # turn /\ d # None
      BY <1>1, ConferenceAssumption
    <3> QED BY <1>1, <1>6, <3>1
  <2>3. Passed(d) = packets - 1
    BY <1>6, <2>1 DEF Passed
  <2>4. Passed(d)' = packets
    BY <1>4, <2>2 DEF Passed
  <2> QED BY <2>3, <2>4
<1> QED BY <1>1, <1>3, <1>5, <1>6

(* The frame, given whole or in part, leaves the stream as whole as it was. *)
LEMMA GivenFacts ==
  ASSUME NEW o \in Connection, NEW whole \in BOOLEAN, NEW took \in Nat, packets \in 1..MaxFrames,
         o.first <= packets, packet \in {"key", "plain", "none"}, o.first = 0 => packet = "key",
         o.first = 0 => o.begun = "none" /\ o.got = {} /\ o.torn = {},
         o.first # 0 => /\ o.begun = "key" /\ o.torn \subseteq 1..packets - 1
                        /\ o.got = (o.first..packets - 1) \ o.torn
  PROVE  LET p == Given(o, took, whole)
         IN  /\ p \in Connection /\ p.role = o.role /\ p.fd = o.fd /\ (p.managed <=> o.managed)
             /\ p.state = o.state /\ (p.done <=> o.done) /\ p.queue = o.queue /\ p.out = o.out + took
             /\ p.first # 0 /\ p.first <= packets /\ p.begun = "key"
             /\ p.torn \subseteq 1..packets /\ p.got = (p.first..packets) \ p.torn
<1> DEFINE out == o.out + took
           first == IF o.first = 0 THEN packets ELSE o.first
           begun == IF o.begun = "none" THEN packet ELSE o.begun
           got == IF whole THEN o.got \cup {packets} ELSE o.got
           torn == IF whole THEN o.torn ELSE o.torn \cup {packets}
           p == [o EXCEPT !.out = out, !.first = first, !.begun = begun, !.got = got, !.torn = torn]
<1>1. /\ o.first \in 0..MaxFrames /\ o.got \subseteq 1..MaxFrames /\ o.torn \subseteq 1..MaxFrames
      /\ o.out \in Nat /\ packets \in Nat /\ MaxFrames \in Nat
  BY ConferenceAssumption DEF Connection
<1>2. out \in Nat /\ first \in 1..packets /\ first \in 0..MaxFrames
  BY <1>1
<1>3. begun = "key"
  BY <1>1
<1>4. got \subseteq 1..MaxFrames /\ torn \subseteq 1..MaxFrames
  BY <1>1
<1>5. torn \subseteq 1..packets /\ got = (first..packets) \ torn
  <2>1. CASE o.first = 0
    <3>1. first..packets = {packets} /\ o.got = {} /\ o.torn = {}
      BY <1>1, <2>1
    <3> HIDE DEF first
    <3> QED BY <1>1, <3>1
  <2>2. CASE o.first # 0
    <3>1. /\ first = o.first /\ first..packets = (first..packets - 1) \cup {packets}
          /\ packets \notin first..packets - 1 /\ packets \notin 1..packets - 1
          /\ 1..packets - 1 \subseteq 1..packets /\ packets \in 1..packets
      BY <1>1, <1>2, <2>2
    <3>2. o.torn \subseteq 1..packets - 1 /\ o.got = (first..packets - 1) \ o.torn
      BY <2>2, <3>1
    <3> HIDE DEF first
    <3> QED BY <3>1, <3>2
  <2> QED BY <2>1, <2>2
<1> HIDE DEF out, first, begun, got, torn
<1>6. /\ p \in Connection /\ p.role = o.role /\ p.fd = o.fd /\ (p.managed <=> o.managed)
      /\ p.state = o.state /\ (p.done <=> o.done) /\ p.queue = o.queue /\ p.out = out
      /\ p.first = first /\ p.begun = begun /\ p.got = got /\ p.torn = torn
  <2> DEFINE q == [o EXCEPT !.out = out, !.first = first]
             r == [q EXCEPT !.begun = begun, !.got = got]
  <2>1. /\ q \in Connection /\ q.role = o.role /\ q.fd = o.fd /\ (q.managed <=> o.managed)
        /\ q.state = o.state /\ (q.done <=> o.done) /\ q.queue = o.queue
        /\ q.out = out /\ q.first = first
    BY <1>2 DEF Connection
  <2> HIDE DEF q
  <2>2. /\ r \in Connection /\ r.role = q.role /\ r.fd = q.fd /\ (r.managed <=> q.managed)
        /\ r.state = q.state /\ (r.done <=> q.done) /\ r.queue = q.queue
        /\ r.out = q.out /\ r.first = q.first /\ r.begun = begun /\ r.got = got
    BY <1>3, <1>4, <2>1, ZenonT(30) DEF Connection
  <2> HIDE DEF r
  <2> DEFINE t == [r EXCEPT !.torn = torn]
  <2>3. /\ t \in Connection /\ t.role = r.role /\ t.fd = r.fd /\ (t.managed <=> r.managed)
        /\ t.state = r.state /\ (t.done <=> r.done) /\ t.queue = r.queue
        /\ t.out = r.out /\ t.first = r.first /\ t.begun = r.begun /\ t.got = r.got /\ t.torn = torn
    BY <1>4, <2>2 DEF Connection
  <2>4. p = t
    BY DEF q, r
  <2> HIDE DEF t, p
  <2> QED BY <2>1, <2>2, <2>3, <2>4
<1>7. Given(o, took, whole) = p
  BY DEF Given, out, first, begun, got, torn
<1> HIDE DEF p
<1>8. first # 0 /\ first <= packets
  BY <1>1, <1>2
<1> QED BY <1>3, <1>5, <1>6, <1>7, <1>8 DEF out

(* A turn that gives its viewer the frame, or passes nobody who wants it. *)
LEMMA SendPacketFacts ==
  ASSUME ConferenceInv, SendPacket
  PROVE  /\ turn # 0 /\ NextTurn
         /\ UNCHANGED <<open, slot, watch, feed, clients, http_count, packets, event, down, addFailed>>
         /\ \/ UNCHANGED <<conn, free>> /\ ~(clients[turn] \in Conn /\ Wanted(clients[turn]))
            \/ \E c \in Conn, whole \in BOOLEAN, took \in 0..free :
                 /\ c = clients[turn] /\ Wanted(c) /\ free' = free - took
                 /\ conn' = [conn EXCEPT ![c] = Given(conn[c], took, whole)]
<1> DEFINE v == clients[turn]
<1>1. /\ turn # 0 /\ UNCHANGED <<open, slot, watch, feed, clients, http_count, packets, event, down, addFailed>>
      /\ IF v # None /\ Wanted(v) THEN SendFrame(v) ELSE NextTurn /\ UNCHANGED <<conn, free>>
  BY DEF SendPacket
<1>2. v \in Conn \cup {None}
  BY <1>1 DEF ConferenceInv, ConferenceTypes, ConferenceTypeOK
<1> HIDE DEF v
<1>3. CASE v # None /\ Wanted(v)
  <2>1. NextTurn /\ \E whole \in BOOLEAN, took \in 0..free :
          free' = free - took /\ conn' = [conn EXCEPT ![v] = Given(conn[v], took, whole)]
    BY <1>1, <1>3 DEF SendFrame
  <2> QED BY <1>1, <1>2, <1>3, <2>1 DEF v
<1>4. CASE ~(v # None /\ Wanted(v))
  BY <1>1, <1>2, <1>4, ConferenceAssumption DEF v
<1> QED BY <1>3, <1>4

(* It keeps the invariant. *)
LEMMA SendPacketInv == ASSUME ConferenceInv, SendPacket PROVE ConferenceInv'
<1>1. /\ turn # 0 /\ NextTurn
      /\ UNCHANGED <<open, slot, watch, feed, clients, http_count, packets, event, down, addFailed>>
  BY SendPacketFacts
<1>2. /\ turn \in 1..MaxClients /\ turn' \in 0..MaxClients /\ packet' \in {"key", "plain", "none"}
      /\ packets \in 1..MaxFrames
      /\ \A d \in Conn : d # clients[turn] => Passed(d)' = Passed(d)
      /\ \A d \in Conn : d = clients[turn] => Passed(d) = packets - 1 /\ Passed(d)' = packets
  BY <1>1, TurnPasses
<1>3. /\ conn \in [Conn -> Connection] /\ \A d \in Conn : conn[d] \in Connection
      /\ packet \in {"key", "plain", "none"}
  BY ObjectsTyped DEF ConferenceInv, ConferenceTypes, ConferenceTypeOK
<1>4. ConferenceTypes' <=> conn' \in [Conn -> Connection]
  BY <1>1, <1>2 DEF ConferenceInv, ConferenceTypes, ConferenceTypeOK
<1>5. ASSUME \A d \in Conn : /\ conn'[d].role = conn[d].role /\ conn'[d].fd = conn[d].fd
                             /\ conn'[d].managed <=> conn[d].managed
                             /\ conn'[d].state = conn[d].state
      PROVE  /\ SlotsHold' /\ RolesFit' /\ ViewersServed' /\ FeedHeld' /\ EventHeld'
             /\ \A d \in Conn : Listed(d)' <=> Listed(d)
  <2>1. /\ SlotsHold' /\ RolesFit' /\ ViewersServed'
        /\ \A d \in Conn : (Registered(d)' <=> Registered(d)) /\ (Listed(d)' <=> Listed(d))
    BY <1>1, <1>5, TablesKept DEF ConferenceInv
  <2>2. FeedHeld'
    BY <1>1, <1>5, <2>1 DEF ConferenceInv, ConferenceTypes, ConferenceTypeOK, FeedHeld
  <2>3. EventHeld'
    BY <1>1, <1>5, <2>1 DEF ConferenceInv, EventHeld
  <2> QED BY <2>1, <2>2, <2>3
<1>6. CASE UNCHANGED <<conn, free>> /\ ~(clients[turn] \in Conn /\ Wanted(clients[turn]))
  <2>1. SlotsHold' /\ RolesFit' /\ ViewersServed' /\ FeedHeld' /\ EventHeld' /\ \A d \in Conn : Listed(d)' <=> Listed(d)
    BY <1>5, <1>6
  <2>2. FramesFollow'
    <3>1. ASSUME NEW d \in Conn, d = clients[turn], conn[d].first # 0, ~conn[d].done PROVE FALSE
      BY <1>6, <3>1 DEF Wanted, ConferenceInv, FramesFollow
    <3> QED BY <1>1, <1>2, <1>6, <2>1, <3>1 DEF ConferenceInv, FramesFollow
  <2> QED BY <1>3, <1>4, <1>6, <2>1, <2>2 DEF ConferenceInv
<1>7. ASSUME NEW c \in Conn, NEW whole \in BOOLEAN, NEW took \in 0..free, c = clients[turn], Wanted(c),
             conn' = [conn EXCEPT ![c] = Given(conn[c], took, whole)]
      PROVE  ConferenceInv'
  <2> DEFINE o == conn[c]
             p == Given(o, took, whole)
  <2>1. /\ o \in Connection /\ o.first <= packets /\ ~o.done /\ o.state = "streaming" /\ Listed(c)
        /\ o.first = 0 => packet = "key"
        /\ o.first = 0 => o.begun = "none" /\ o.got = {} /\ o.torn = {}
        /\ o.first # 0 => /\ o.begun = "key" /\ o.torn \subseteq 1..packets - 1
                          /\ o.got = (o.first..packets - 1) \ o.torn
    BY <1>2, <1>3, <1>7 DEF Wanted, Listed, ConferenceInv, FramesFollow
  <2>2. took \in Nat
    BY <1>7
  <2> HIDE DEF o
  <2>3. /\ p \in Connection /\ p.role = o.role /\ p.fd = o.fd /\ (p.managed <=> o.managed)
        /\ p.state = o.state /\ (p.done <=> o.done)
        /\ p.first # 0 /\ p.first <= packets /\ p.begun = "key"
        /\ p.torn \subseteq 1..packets /\ p.got = (p.first..packets) \ p.torn
    BY <1>2, <1>3, <2>1, <2>2, GivenFacts
  <2>4. conn' = [conn EXCEPT ![c] = p]
    BY <1>7 DEF o
  <2> HIDE DEF p
  <2>5. conn' \in [Conn -> Connection] /\ conn'[c] = p /\ \A d \in Conn : d # c => conn'[d] = conn[d]
    BY <1>3, <2>3, <2>4, OneChanges
  <2>6. SlotsHold' /\ RolesFit' /\ ViewersServed' /\ FeedHeld' /\ EventHeld' /\ \A d \in Conn : Listed(d)' <=> Listed(d)
    BY <1>5, <2>3, <2>5 DEF o
  <2>7. o.role = "http"
    BY <2>1 DEF ConferenceInv, RolesFit, o
  <2>8. FramesFollow'
    <3> SUFFICES ASSUME NEW d \in Conn
                 PROVE  /\ conn'[d].first <= packets
                        /\ conn'[d].first = 0 => /\ conn'[d].begun = "none"
                                                 /\ conn'[d].got = {} /\ conn'[d].torn = {}
                        /\ conn'[d].first # 0 => /\ conn'[d].role = "http" /\ conn'[d].state = "streaming"
                                                 /\ conn'[d].begun = "key"
                        /\ conn'[d].first # 0 /\ Listed(d)' /\ ~conn'[d].done =>
                             /\ conn'[d].torn \subseteq 1..Passed(d)'
                             /\ conn'[d].got = (conn'[d].first..Passed(d)') \ conn'[d].torn
      BY <1>1, <1>2 DEF FramesFollow
    <3>1. CASE d = c
      <4>1. Passed(d)' = packets
        BY <1>2, <1>7, <3>1
      <4> QED BY <2>1, <2>3, <2>5, <2>7, <3>1, <4>1
    <3>2. CASE d # c
      <4>1. Passed(d)' = Passed(d) /\ conn'[d] = conn[d]
        BY <1>2, <1>7, <2>5, <3>2
      <4> QED BY <2>6, <4>1 DEF ConferenceInv, FramesFollow
    <3> QED BY <3>1, <3>2
  <2> QED BY <1>4, <2>5, <2>6, <2>8 DEF ConferenceInv
<1> QED BY <1>6, <1>7, SendPacketFacts

(* A new connection of either kind, once the scene's table is settled. *)
LEMMA AddedInv ==
  ASSUME ConferenceInv, NEW c \in Conn, NEW role \in {"channel", "http"}, NEW f \in FD,
         conn[c].role = "none", event = Idle, AddObject(c, role, f),
         open \subseteq open', open' \subseteq FD,
         turn = 0, UNCHANGED <<feed, scene_vars, event, down>>,
         clients' \in [1..MaxClients -> Conn \cup {None}],
         http_count' = Cardinality(Places(clients')),
         \A i, j \in 1..MaxClients : clients'[i] = clients'[j] /\ clients'[i] # None => i = j,
         \A d \in Conn \ {c} : Listed(d)' <=> Listed(d),
         Listed(c)' <=> role = "http"
  PROVE  ConferenceInv'
<1> DEFINE o == [Fresh EXCEPT !.role = role, !.fd = f, !.managed = TRUE]
<1>1. /\ conn \in [Conn -> Connection] /\ slot \in [0..Limit - 1 -> Conn \cup {None}]
      /\ watch \subseteq FD /\ addFailed \in BOOLEAN /\ packets \in Nat
  BY ConferenceAssumption DEF ConferenceInv, ConferenceTypes, ConferenceTypeOK
<1>2. conn' = [conn EXCEPT ![c] = o]
  BY DEF AddObject
<1>3. \/ /\ f < Limit /\ slot[f] = None /\ f \in open'
         /\ slot' = [slot EXCEPT ![f] = c] /\ watch' = watch \cup {f} /\ addFailed' = addFailed
      \/ addFailed' = TRUE /\ slot' = slot /\ watch' = watch
  BY DEF AddObject
<1>4. /\ o \in Connection /\ o.role = role /\ o.fd = f /\ o.managed
      /\ o.first = 0 /\ o.begun = "none" /\ o.got = {} /\ o.torn = {} /\ o.out = 0 /\ o.queue = 0
  BY FreshFacts, ConferenceAssumption DEF Fresh, Connection
<1> HIDE DEF o
<1>5. conn' \in [Conn -> Connection] /\ conn'[c] = o /\ \A d \in Conn : d # c => conn'[d] = conn[d]
  BY <1>1, <1>2, <1>4, OneChanges
<1>6. f \in Nat /\ f # NoFd
  BY ConferenceAssumption DEF FD, NoFd
<1>7. ~conn[c].managed /\ (\A g \in 0..Limit - 1 : slot[g] # c) /\ ~Registered(c) /\ feed # c
  <2>1. ~conn[c].managed
    BY DEF ConferenceInv, RolesFit
  <2>2. \A g \in 0..Limit - 1 : slot[g] # c
    BY <1>1, <2>1 DEF ConferenceInv, SlotsHold
  <2>3. ~Registered(c)
    BY <2>2, ConferenceAssumption DEF Registered, FD
  <2>4. feed # c
    BY <2>3, ConferenceAssumption DEF ConferenceInv, FeedHeld
  <2> QED BY <2>1, <2>2, <2>3, <2>4
<1>8. slot' \in [0..Limit - 1 -> Conn \cup {None}] /\ watch' \subseteq FD /\ addFailed' \in BOOLEAN
      /\ watch \subseteq watch'
  BY <1>1, <1>3
<1>9. \A g \in 0..Limit - 1 : slot'[g] = slot[g] \/ (g = f /\ slot[f] = None /\ slot'[g] = c /\ f \in open')
  BY <1>1, <1>3
<1>10. \A d \in Conn \ {c} : Registered(d) => Registered(d)'
  <2> SUFFICES ASSUME NEW d \in Conn \ {c}, Registered(d) PROVE Registered(d)'
    OBVIOUS
  <2>1. conn[d].fd \in 0..Limit - 1
    BY ConferenceAssumption DEF Registered, FD
  <2>2. slot'[conn[d].fd] = d
    BY <1>9, <2>1, ConferenceAssumption DEF Registered
  <2> QED BY <1>5, <2>2 DEF Registered
<1>11. ConferenceTypes'
  <2>1. http_count' \in 0..MaxClients
    BY PlacesFinite
  <2> QED BY <1>5, <1>8, <2>1 DEF ConferenceInv, ConferenceTypes, ConferenceTypeOK, scene_vars
<1>12. SlotsHold'
  <2> SUFFICES ASSUME NEW d \in Conn, NEW g \in 0..Limit - 1, slot'[g] = d
               PROVE  conn'[d].managed /\ conn'[d].fd \in {g, NoFd} /\ (conn'[d].fd = g => g \in open')
    BY <1>8 DEF SlotsHold
  <2>1. CASE slot[g] = d
    <3>1. conn[d].managed /\ conn[d].fd \in {g, NoFd} /\ (conn[d].fd = g => g \in open) /\ d # c
      BY <1>1, <1>7, <2>1 DEF ConferenceInv, SlotsHold
    <3> QED BY <1>5, <3>1
  <2>2. CASE g = f /\ slot'[g] = c /\ f \in open'
    BY <1>4, <1>5, <2>2
  <2> QED BY <1>9, <2>1, <2>2
<1>13. RolesFit'
  <2> SUFFICES ASSUME NEW d \in Conn
               PROVE  (conn'[d].role = "none" => ~conn'[d].managed) /\ (Listed(d)' => conn'[d].role = "http")
    BY DEF RolesFit
  <2>1. CASE d = c
    BY <1>4, <1>5, <2>1
  <2>2. CASE d # c
    BY <1>5, <2>2 DEF ConferenceInv, RolesFit
  <2> QED BY <2>1, <2>2
<1>14. FeedHeld'
  <2> SUFFICES ASSUME feed # None
               PROVE  conn'[feed].role = "channel" /\ conn'[feed].state = "streaming" /\ Registered(feed)'
    BY DEF FeedHeld, Registered
  <2>1. feed \in Conn \ {c} /\ conn[feed].role = "channel" /\ conn[feed].state = "streaming" /\ Registered(feed)
    BY <1>7 DEF ConferenceInv, ConferenceTypes, ConferenceTypeOK, FeedHeld
  <2> QED BY <1>5, <1>10, <2>1 DEF Registered
<1>15. EventHeld'
  BY ConferenceAssumption DEF EventHeld, Idle
<1>16. ViewersServed'
  <2>1. ~addFailed' => \A d \in Conn : /\ Listed(d)' <=> conn'[d].role = "http" /\ conn'[d].managed
                                       /\ Listed(d)' => Registered(d)' /\ conn'[d].fd \in watch'
    <3> SUFFICES ASSUME ~addFailed', NEW d \in Conn
                 PROVE  /\ Listed(d)' <=> conn'[d].role = "http" /\ conn'[d].managed
                        /\ Listed(d)' => Registered(d)' /\ conn'[d].fd \in watch'
      OBVIOUS
    <3>1. CASE d = c
      <4>1. f < Limit /\ slot' = [slot EXCEPT ![f] = c] /\ watch' = watch \cup {f}
        BY <1>3
      <4>2. slot'[f] = c
        BY <1>1, <1>6, <4>1, ConferenceAssumption
      <4>3. Registered(c)'
        BY <1>4, <1>5, <4>1, <4>2 DEF Registered
      <4> QED BY <1>4, <1>5, <3>1, <4>1, <4>3
    <3>2. CASE d # c
      <4>1. ~addFailed
        BY <1>3
      <4>2. /\ Listed(d) <=> conn[d].role = "http" /\ conn[d].managed
            /\ Listed(d) => Registered(d) /\ conn[d].fd \in watch
        BY <4>1 DEF ConferenceInv, ViewersServed
      <4> QED BY <1>5, <1>8, <1>10, <3>2, <4>2
    <3> QED BY <3>1, <3>2
  <2> QED BY <2>1 DEF ViewersServed, Places
<1>17. FramesFollow'
  <2>1. /\ \A d \in Conn : d # c => (Listed(d)' <=> Listed(d))
        /\ \A d \in Conn : Passed(d)' = Passed(d)
        /\ turn' = 0 /\ packets' = packets
    BY DEF Passed, scene_vars
  <2> QED BY <1>1, <1>4, <1>5, <2>1 DEF ConferenceInv, FramesFollow
<1> QED BY <1>11, <1>12, <1>13, <1>14, <1>15, <1>16, <1>17 DEF ConferenceInv

(* onAccept(), whatever the descriptor is, if no object stands in a slot   *)
(* with it.                                                                *)
LEMMA OnAcceptInv ==
  ASSUME ConferenceInv, NEW f \in FD, NEW opened, open \subseteq opened, opened \subseteq FD,
         \A d \in Conn : Registered(d) => conn[d].fd # f,
         OnAccept(f, opened)
  PROVE  ConferenceInv'
<1>1. PICK c \in Conn :
        /\ conn[c].role = "none" /\ event = Idle /\ turn = 0
        /\ AcceptChannel(c, f, opened) \/ AcceptHttp(c, f, opened)
        /\ UNCHANGED <<feed, scene_vars, event, down>>
  BY DEF OnAccept
<1>2. /\ clients \in [1..MaxClients -> Conn \cup {None}]
      /\ http_count = Cardinality(Places(clients))
      /\ \A i, j \in 1..MaxClients : clients[i] = clients[j] /\ clients[i] # None => i = j
  BY DEF ConferenceInv, ConferenceTypes, ConferenceTypeOK, ViewersServed, Places
<1>3. ~Listed(c)
  BY <1>1 DEF ConferenceInv, RolesFit
<1>4. CASE AcceptChannel(c, f, opened)
  <2> DEFINE role == "channel"
  <2>1. /\ role \in {"channel", "http"} /\ AddObject(c, role, f) /\ open' = opened
        /\ clients' = clients /\ http_count' = http_count /\ role # "http"
    BY <1>4 DEF AcceptChannel
  <2> HIDE DEF role
  <2>2. /\ clients' \in [1..MaxClients -> Conn \cup {None}]
        /\ http_count' = Cardinality(Places(clients'))
        /\ \A i, j \in 1..MaxClients : clients'[i] = clients'[j] /\ clients'[i] # None => i = j
    BY <1>2, <2>1
  <2>3. \A d \in Conn : Listed(d)' <=> Listed(d)
    BY <2>1 DEF Listed
  <2>4. open \subseteq open' /\ open' \subseteq FD
    BY <2>1
  <2> QED BY <1>1, <1>3, <2>1, <2>2, <2>3, <2>4, AddedInv
<1>5. CASE AcceptHttp(c, f, opened) /\ HasPlace
  <2> DEFINE role == "http"
             i == FreePlace
  <2>1. /\ role \in {"channel", "http"} /\ AddObject(c, role, f) /\ open' = opened
        /\ clients' = [clients EXCEPT ![i] = c] /\ http_count' = http_count + 1 /\ role = "http"
    BY <1>5 DEF AcceptHttp
  <2>2. i \in 1..MaxClients /\ clients[i] = None
    BY <1>2, <1>5, FreePlaceExists
  <2> HIDE DEF role, i
  <2>3. /\ clients' \in [1..MaxClients -> Conn \cup {None}]
        /\ http_count' = Cardinality(Places(clients'))
    BY <1>2, <2>1, <2>2, PlaceTaken
  <2>4. \A j \in 1..MaxClients : clients'[j] = IF j = i THEN c ELSE clients[j]
    BY <1>2, <2>1
  <2>5. \A j, k \in 1..MaxClients : clients'[j] = clients'[k] /\ clients'[j] # None => j = k
    BY <1>2, <1>3, <2>4 DEF Listed
  <2>6. /\ \A d \in Conn \ {c} : Listed(d)' <=> Listed(d)
        /\ Listed(c)'
    BY <2>2, <2>4, ConferenceAssumption DEF Listed
  <2>7. open \subseteq open' /\ open' \subseteq FD
    BY <2>1
  <2> QED BY <1>1, <2>1, <2>3, <2>5, <2>6, <2>7, AddedInv
<1>6. CASE AcceptHttp(c, f, opened) /\ ~HasPlace
  <2>1. open' = opened \ {f} /\ UNCHANGED <<slot, watch, conn, clients, http_count, addFailed>>
    BY <1>6 DEF AcceptHttp
  <2>2. SlotsHold'
    <3> SUFFICES ASSUME NEW d \in Conn, NEW g \in DOMAIN slot, slot[g] = d
                 PROVE  conn[d].managed /\ conn[d].fd \in {g, NoFd} /\ (conn[d].fd = g => g \in open')
      BY <2>1 DEF SlotsHold
    <3>1. conn[d].managed /\ conn[d].fd \in {g, NoFd} /\ (conn[d].fd = g => g \in open)
      BY DEF ConferenceInv, SlotsHold
    <3>2. conn[d].fd = g => Registered(d)
      <4>1. g \in 0..Limit - 1 /\ conn[d].fd \in FD \cup {NoFd}
        BY ObjectsTyped DEF ConferenceInv, ConferenceTypes, ConferenceTypeOK, Connection
      <4> QED BY <4>1, ConferenceAssumption DEF Registered, NoFd
    <3> QED BY <2>1, <3>1, <3>2
  <2>3. ConferenceTypes'
    BY <1>1, <2>1 DEF ConferenceInv, ConferenceTypes, ConferenceTypeOK, scene_vars
  <2>4. RolesFit' /\ ViewersServed' /\ FeedHeld' /\ EventHeld'
    BY <1>1, <2>1 DEF ConferenceInv, RolesFit, ViewersServed, FeedHeld, EventHeld, Registered, Listed
  <2>5. FramesFollow'
    BY <1>1, <2>1, PassedKept, FramesKept DEF ConferenceInv, SameStream
  <2> QED BY <2>2, <2>3, <2>4, <2>5 DEF ConferenceInv
<1> QED BY <1>1, <1>4, <1>5, <1>6

(* accept() of a connection: its descriptor is nobody's. *)
LEMMA AcceptInv == ASSUME ConferenceInv, Accept PROVE ConferenceInv'
<1> DEFINE f == Lowest
<1>1. open \subseteq FD /\ OnAccept(f, open \cup {f}) /\ FD # open
  BY DEF Accept, ConferenceInv, ConferenceTypes, ConferenceTypeOK
<1>2. f \in FD \ open
  BY <1>1, LowestIsClosed
<1> HIDE DEF f
<1>3. \A d \in Conn : Registered(d) => conn[d].fd # f
  BY <1>2, ConferenceAssumption
     DEF ConferenceInv, ConferenceTypes, ConferenceTypeOK, SlotsHold, Registered, FD
<1> QED BY <1>1, <1>2, <1>3, OnAcceptInv

(* A failed accept() is taken for descriptor 0, which is nobody's either. *)
LEMMA AcceptFailsInv == ASSUME ConferenceInv, AcceptFails PROVE ConferenceInv'
<1> DEFINE f == 0
<1>1. /\ open \subseteq FD /\ OnAccept(f, open) /\ f \in FD
      /\ \A d \in Conn : conn[d].fd # f
  BY ConferenceAssumption DEF AcceptFails, ConferenceInv, ConferenceTypes, ConferenceTypeOK, FD
<1> HIDE DEF f
<1> QED BY <1>1, OnAcceptInv

(* Init: nobody is connected, and no frame was drawn. *)
LEMMA ConferenceInitInv == ASSUME ConferenceInit PROVE ConferenceInv
<1>1. /\ open = {0} /\ slot = [f \in 0..Limit - 1 |-> None] /\ watch = {}
      /\ conn = [c \in Conn |-> Fresh] /\ feed = None
      /\ clients = [i \in 1..MaxClients |-> None] /\ http_count = 0
      /\ packets = 0 /\ packet = "none" /\ turn = 0
      /\ event = Idle /\ down = FALSE /\ addFailed = FALSE
  BY DEF ConferenceInit
<1>2. /\ conn \in [Conn -> Connection] /\ \A c \in Conn : conn[c] = Fresh
  BY <1>1, FreshFacts
<1>3. \A i \in 1..MaxClients : clients[i] = None
  BY <1>1
<1>4. \A c \in Conn : ~Listed(c)
  BY <1>3, ConferenceAssumption DEF Listed
<1>5. ConferenceTypes
  <2>1. 0 \in FD /\ 0 \in 0..MaxClients /\ 0 \in 0..MaxFrames
    BY ConferenceAssumption DEF FD
  <2>2. event \in [of : Conn \cup {None}, fd : FD \cup {NoFd}, flags : SUBSET {"in", "out", "hup"}]
    BY <1>1 DEF Idle
  <2> QED BY <1>1, <1>2, <2>1, <2>2 DEF ConferenceTypes, ConferenceTypeOK
<1>6. SlotsHold
  BY <1>1, ConferenceAssumption DEF SlotsHold
<1>7. RolesFit /\ FramesFollow
  BY <1>1, <1>2, <1>4, FreshFacts DEF RolesFit, FramesFollow
<1>8. FeedHeld /\ EventHeld
  BY <1>1, ConferenceAssumption DEF FeedHeld, EventHeld, Idle
<1>9. ViewersServed
  <2>1. Cardinality({i \in 1..MaxClients : clients[i] # None}) = 0
    <3>1. {i \in 1..MaxClients : clients[i] # None} = {}
      BY <1>3
    <3> QED BY <3>1, FS_EmptySet
  <2> QED BY <1>1, <1>2, <1>3, <1>4, <2>1, FreshFacts DEF ViewersServed
<1> QED BY <1>5, <1>6, <1>7, <1>8, <1>9 DEF ConferenceInv

(* Every step keeps the invariant. *)
LEMMA ConferenceStepInv == ASSUME ConferenceInv, [ConferenceNext]_conference_vars PROVE ConferenceInv'
<1>1. CASE Accept
  BY <1>1, AcceptInv
<1>2. CASE AcceptFails
  BY <1>2, AcceptFailsInv
<1>3. CASE OnTimer \/ SendPacket
  BY <1>3, OnTimerInv, SendPacketInv
<1>4. ASSUME NEW c \in Conn, PeerGone(c) \/ Wait(c) \/ Handle(c) PROVE ConferenceInv'
  <2>1. CASE PeerGone(c)
    BY <2>1, PeerGoneInv
  <2>2. CASE Wait(c)
    BY <2>2, WaitInv
  <2>3. CASE OtherPacket(c) \/ ReadHeaders(c)
    BY <2>3, NothingHandledInv
  <2>4. CASE HandleNewFeed(c)
    BY <2>4, HandleNewFeedInv
  <2>5. CASE FeedPayload(c)
    BY <2>5, FeedPayloadInv
  <2>6. CASE ChannelDown(c)
    BY <2>6, ChannelDownInv
  <2>7. CASE InitStreaming(c)
    BY <2>7, InitStreamingInv
  <2>8. CASE HttpWritten(c)
    BY <2>8, HttpWrittenInv
  <2>9. CASE HttpDown(c)
    BY <2>9, HttpDownInv
  <2>10. CASE EndEvent(c)
    BY <2>10, EndEventInv
  <2> QED BY <1>4, <2>1, <2>2, <2>3, <2>4, <2>5, <2>6, <2>7, <2>8, <2>9, <2>10 DEF Handle
<1>5. CASE UNCHANGED conference_vars
  <2>1. /\ UNCHANGED <<open, slot, watch, conn, feed, clients, http_count, scene_vars, addFailed>>
        /\ event' = event /\ down' = down
    BY <1>5 DEF conference_vars
  <2>2. EventHeld'
    BY <2>1 DEF ConferenceInv, EventHeld, Registered
  <2>3. down' \in BOOLEAN
    BY <2>1 DEF ConferenceInv, ConferenceTypes, ConferenceTypeOK
  <2> QED BY <2>1, <2>2, <2>3, ObjectsTyped, EventStepInv
<1> QED BY <1>1, <1>2, <1>3, <1>4, <1>5 DEF ConferenceNext

(* The blocks.  A handler changes the chains of its own object only, and   *)
(* takes from the pool what it adds to them; what an object that is not in *)
(* use, or has left the daemon, could hold has gone back before.           *)
Lent == UNION {Chain(c) : c \in Conn}

PoolInv ==
  /\ PoolShared /\ IsFiniteSet(Lent)
  /\ \A c \in Conn : /\ conn[c].role = "none" => conn[c].queue = 0
                     /\ ~conn[c].managed => conn[c].out = 0 /\ ~Listed(c)

(* A chain has as many blocks as it says. *)
LEMMA ChainCounted ==
  ASSUME NEW c, NEW n \in Nat
  PROVE  IsFiniteSet({<<c, k>> : k \in 1..n}) /\ Cardinality({<<c, k>> : k \in 1..n}) = n
<1> DEFINE cells == {<<c, k>> : k \in 1..n}
           f == [k \in 1..n |-> <<c, k>>]
<1>1. IsFiniteSet(1..n) /\ Cardinality(1..n) = n
  BY IntervalCount
<1>2. f \in Bijection(1..n, cells)
  BY DEF Bijection, Injection, Surjection, IsInjective
<1> HIDE DEF f, cells
<1>3. ExistsBijection(1..n, cells)
  BY <1>2 DEF ExistsBijection
<1>4. IsFiniteSet(cells) /\ Cardinality(cells) = n
  BY <1>1, <1>3, FS_Bijection
<1> QED BY <1>4 DEF cells

(* One object's chains and the pool change, and no block is lost.          *)
LEMMA BlocksMoved ==
  ASSUME conn \in [Conn -> Connection], conn' \in [Conn -> Connection], PoolShared, IsFiniteSet(Lent),
         NEW c \in Conn,
         \A d \in Conn : d # c => conn'[d].out = conn[d].out /\ conn'[d].queue = conn[d].queue,
         free' \in Nat, free' + conn'[c].out + conn'[c].queue = free + conn[c].out + conn[c].queue
  PROVE  PoolShared' /\ IsFiniteSet(Lent)'
<1> DEFINE others == UNION {Chain(d) : d \in Conn \ {c}}
           old == Chain(c)
           new == Chain(c)'
<1>1. /\ conn[c].out \in Nat /\ conn[c].queue \in Nat
      /\ conn'[c].out \in Nat /\ conn'[c].queue \in Nat
  BY DEF Connection
<1>2. /\ IsFiniteSet(old) /\ Cardinality(old) = conn[c].out + conn[c].queue
      /\ IsFiniteSet(new) /\ Cardinality(new) = conn'[c].out + conn'[c].queue
  <2> DEFINE n == conn[c].out + conn[c].queue
             m == conn'[c].out + conn'[c].queue
  <2>1. n \in Nat /\ m \in Nat /\ old = {<<c, k>> : k \in 1..n} /\ new = {<<c, k>> : k \in 1..m}
    BY <1>1 DEF Chain
  <2> HIDE DEF n, m, old, new
  <2>2. IsFiniteSet(old) /\ Cardinality(old) = n /\ IsFiniteSet(new) /\ Cardinality(new) = m
    BY <2>1, ChainCounted
  <2> QED BY <2>2 DEF n, m
<1>3. Lent = others \cup old
  BY DEF Lent
<1>4. Lent' = others \cup new
  <2>1. \A d \in Conn \ {c} : Chain(d)' = Chain(d)
    BY DEF Chain
  <2> HIDE DEF new
  <2> QED BY <2>1 DEF Lent, new
<1>5. others \cap old = {} /\ others \cap new = {}
  BY DEF Chain
<1> HIDE DEF others, old, new
<1>6. IsFiniteSet(others) /\ Cardinality(others) \in Nat
  BY <1>3, FS_Subset, FS_CardinalityType
<1>7. Cardinality(others \cap old) = 0 /\ Cardinality(others \cap new) = 0
  BY <1>5, FS_EmptySet
<1>8. Cardinality(Lent) = Cardinality(others) + Cardinality(old)
  <2>1. Cardinality(others \cup old) = Cardinality(others) + Cardinality(old) - Cardinality(others \cap old)
    BY <1>2, <1>6, FS_Union
  <2> QED BY <1>1, <1>2, <1>3, <1>6, <1>7, <2>1
<1>9. Cardinality(Lent)' = Cardinality(others) + Cardinality(new) /\ IsFiniteSet(Lent)'
  <2>1. /\ IsFiniteSet(others \cup new)
        /\ Cardinality(others \cup new) = Cardinality(others) + Cardinality(new) - Cardinality(others \cap new)
    BY <1>2, <1>6, FS_Union
  <2> QED BY <1>1, <1>2, <1>4, <1>6, <1>7, <2>1
<1>10. free \in Nat /\ Pool \in Nat /\ free + Cardinality(Lent) = Pool
  BY ConferenceAssumption DEF PoolShared, Lent
<1>11. free' + Cardinality(Lent)' = Pool
  BY <1>1, <1>2, <1>6, <1>8, <1>9, <1>10
<1>12. Cardinality(Lent)' \in Nat
  BY <1>9, FS_CardinalityType
<1>13. free' \in 0..Pool
  BY <1>10, <1>11, <1>12
<1> QED BY <1>9, <1>11, <1>13 DEF PoolShared, Lent

(* One object changes, and keeps the rules for what it may hold.           *)
LEMMA PoolMoved ==
  ASSUME ConferenceInv, ConferenceInv', PoolInv, NEW c \in Conn,
         \A d \in Conn : d # c => /\ conn'[d].out = conn[d].out /\ conn'[d].queue = conn[d].queue
                                  /\ conn'[d].role = conn[d].role /\ (conn'[d].managed <=> conn[d].managed)
                                  /\ Listed(d)' => Listed(d),
         conn'[c].role = "none" => conn'[c].queue = 0,
         ~conn'[c].managed => conn'[c].out = 0 /\ ~Listed(c)',
         free' \in Nat, free' + conn'[c].out + conn'[c].queue = free + conn[c].out + conn[c].queue
  PROVE  PoolInv'
<1>1. conn \in [Conn -> Connection] /\ conn' \in [Conn -> Connection]
  BY DEF ConferenceInv, ConferenceTypes, ConferenceTypeOK
<1>2. PoolShared' /\ IsFiniteSet(Lent)'
  BY <1>1, BlocksMoved DEF PoolInv
<1> QED BY <1>2 DEF PoolInv

(* What an object that takes part in nothing else may be. *)
Holding(p, o) ==
  /\ p.out = o.out /\ p.queue = o.queue /\ p.role = o.role /\ (p.managed <=> o.managed)

(* No block moves. *)
LEMMA PoolQuiet ==
  ASSUME PoolInv, UNCHANGED <<clients, free>>, \A d \in Conn : Holding(conn'[d], conn[d])
  PROVE  PoolInv'
<1>1. Lent' = Lent
  BY DEF Lent, Chain, Holding
<1>2. PoolShared'
  BY <1>1 DEF PoolInv, PoolShared, Lent
<1>3. \A d \in Conn : Listed(d)' <=> Listed(d)
  BY DEF Listed
<1> QED BY <1>1, <1>2, <1>3 DEF PoolInv, Holding

(* How many blocks there are to take and to give back. *)
LEMMA PoolTyped ==
  ASSUME ConferenceInv, PoolInv, NEW c \in Conn
  PROVE  /\ free \in Nat /\ conn[c].out \in Nat /\ conn[c].queue \in Nat /\ conn[c] \in Connection
         /\ conn \in [Conn -> Connection]
BY ObjectsTyped, ConferenceAssumption DEF PoolInv, PoolShared, Connection

(* Steps that change nothing of an object, or only what it knows. *)
LEMMA QuietPool ==
  ASSUME ConferenceInv, PoolInv, NEW c \in Conn,
         \/ UNCHANGED <<conn, clients, free>> \/ PeerGone(c) \/ HandleNewFeed(c)
         \/ UNCHANGED <<clients, free>> /\ conn' = [conn EXCEPT ![c] = Closed(conn[c])]
  PROVE  PoolInv'
<1>1. conn[c] \in Connection /\ conn \in [Conn -> Connection]
  BY ObjectsTyped
<1>2. CASE UNCHANGED <<conn, clients, free>>
  BY <1>2, PoolQuiet DEF Holding
<1>3. CASE PeerGone(c)
  <2> DEFINE o == [conn[c] EXCEPT !.peer = "gone"]
  <2>1. conn' = [conn EXCEPT ![c] = o] /\ UNCHANGED <<clients, free>>
    BY <1>3 DEF PeerGone
  <2>2. Holding(o, conn[c])
    BY <1>1 DEF Holding, Connection
  <2> HIDE DEF o
  <2> QED BY <1>1, <2>1, <2>2, PoolQuiet DEF Holding
<1>4. CASE HandleNewFeed(c)
  <2> DEFINE o == [conn[c] EXCEPT !.state = "open"]
  <2>1. conn' = [conn EXCEPT ![c] = o] /\ UNCHANGED <<clients, free>>
    BY <1>4 DEF HandleNewFeed
  <2>2. Holding(o, conn[c])
    BY <1>1 DEF Holding, Connection
  <2> HIDE DEF o
  <2> QED BY <1>1, <2>1, <2>2, PoolQuiet DEF Holding
<1>5. CASE UNCHANGED <<clients, free>> /\ conn' = [conn EXCEPT ![c] = Closed(conn[c])]
  <2>1. Holding(Closed(conn[c]), conn[c])
    BY <1>1 DEF Holding, Closed, Connection
  <2> QED BY <1>1, <1>5, <2>1, PoolQuiet DEF Holding
<1> QED BY <1>2, <1>3, <1>4, <1>5

(* The daemon lets an object go that is not in the table: its output's     *)
(* blocks go back, or it keeps them.                                       *)
LEMMA LeavePool ==
  ASSUME ConferenceInv, ConferenceInv', PoolInv, NEW c \in Conn, Leave(c), ~Listed(c)',
         \A d \in Conn : Listed(d)' => Listed(d)
  PROVE  PoolInv'
<1>1. /\ free \in Nat /\ conn[c].out \in Nat /\ conn[c].queue \in Nat /\ conn[c] \in Connection
      /\ conn \in [Conn -> Connection]
  BY PoolTyped
<1>2. CASE CanLeave(c)
  <2> DEFINE o == Departed(conn[c])
  <2>1. conn' = [conn EXCEPT ![c] = o] /\ free' = free + conn[c].out
    BY <1>1, <1>2 DEF Leave, Connection, Departed
  <2>2. ~o.managed /\ o.out = 0 /\ o.queue = conn[c].queue /\ o.role = conn[c].role /\ o \in Connection
    BY <1>1, LeftUpdate DEF Alike
  <2> HIDE DEF o
  <2>3. conn'[c] = o /\ \A d \in Conn : d # c => conn'[d] = conn[d]
    BY <1>1, <2>1
  <2>4. free' \in Nat /\ free' + conn'[c].out + conn'[c].queue = free + conn[c].out + conn[c].queue
    BY <1>1, <2>1, <2>2, <2>3
  <2>5. conn'[c].role = "none" => conn'[c].queue = 0
    BY <2>2, <2>3 DEF PoolInv
  <2> QED BY <2>2, <2>3, <2>4, <2>5, PoolMoved
<1>3. CASE ~CanLeave(c)
  <2>1. conn' = conn /\ free' = free
    BY <1>3 DEF Leave
  <2> QED BY <1>1, <2>1, PoolMoved DEF PoolInv
<1> QED BY <1>2, <1>3

(* A viewer gets blocks for the answer's header, if the daemon has it. *)
LEMMA InitStreamingPool ==
  ASSUME ConferenceInv, ConferenceInv', PoolInv, NEW c \in Conn, InitStreaming(c)
  PROVE  PoolInv'
<1>1. /\ free \in Nat /\ conn[c].out \in Nat /\ conn[c].queue \in Nat /\ conn[c] \in Connection
      /\ conn \in [Conn -> Connection]
  BY PoolTyped
<1>2. conn[c].managed /\ conn[c].role = "http" /\ clients' = clients
  BY DEF InitStreaming
<1>3. PICK ok \in BOOLEAN, took \in 0..free :
        /\ free' = free - took
        /\ conn' = [conn EXCEPT ![c].state = IF ok THEN "streaming" ELSE "failed", ![c].done = ~ok,
                                ![c].out = @ + took]
  BY Zenon DEF InitStreaming
<1>4. /\ conn'[c].out = conn[c].out + took /\ conn'[c].queue = conn[c].queue
      /\ conn'[c].role = "http" /\ conn'[c].managed
      /\ \A d \in Conn : d # c => conn'[d] = conn[d]
  BY <1>1, <1>2, <1>3 DEF Connection
<1>5. free' \in Nat /\ free' + conn'[c].out + conn'[c].queue = free + conn[c].out + conn[c].queue
  BY <1>1, <1>3, <1>4
<1>6. \A d \in Conn : Listed(d)' <=> Listed(d)
  BY <1>2 DEF Listed
<1> QED BY <1>4, <1>5, <1>6, PoolMoved

(* A viewer's output gives back the blocks that are written out. *)
LEMMA HttpWrittenPool ==
  ASSUME ConferenceInv, ConferenceInv', PoolInv, NEW c \in Conn, HttpWritten(c)
  PROVE  PoolInv'
<1>1. /\ free \in Nat /\ conn[c].out \in Nat /\ conn[c].queue \in Nat /\ conn[c] \in Connection
      /\ conn \in [Conn -> Connection]
  BY PoolTyped
<1>2. \/ RemoveClient(c) /\ Leave(c)
      \/ \E rest \in 0..conn[c].out : /\ conn' = [conn EXCEPT ![c].out = rest]
                                      /\ free' = free + conn[c].out - rest
                                      /\ clients' = clients
  BY DEF HttpWritten
<1>3. CASE RemoveClient(c) /\ Leave(c)
  <2>1. ~Listed(c)' /\ \A d \in Conn : Listed(d)' => Listed(d)
    BY <1>3, ConferenceAssumption DEF RemoveClient, Listed
  <2> QED BY <1>3, <2>1, LeavePool
<1>4. ASSUME NEW rest \in 0..conn[c].out, conn' = [conn EXCEPT ![c].out = rest],
             free' = free + conn[c].out - rest, clients' = clients
      PROVE  PoolInv'
  <2>1. /\ conn'[c].out = rest /\ conn'[c].queue = conn[c].queue
        /\ conn'[c].role = conn[c].role /\ (conn'[c].managed <=> conn[c].managed)
        /\ \A d \in Conn : d # c => conn'[d] = conn[d]
    BY <1>1, <1>4 DEF Connection
  <2>2. free' \in Nat /\ free' + conn'[c].out + conn'[c].queue = free + conn[c].out + conn[c].queue
    BY <1>1, <1>4, <2>1
  <2>3. \A d \in Conn : Listed(d)' <=> Listed(d)
    BY <1>4 DEF Listed
  <2>4. conn[c].out = 0 => rest = 0
    BY <1>1, <1>4
  <2>5. /\ conn'[c].role = "none" => conn'[c].queue = 0
        /\ ~conn'[c].managed => conn'[c].out = 0 /\ ~Listed(c)'
    BY <2>1, <2>3, <2>4 DEF PoolInv
  <2> QED BY <2>1, <2>2, <2>3, <2>5, PoolMoved
<1> QED BY <1>2, <1>3, <1>4

(* A viewer or a channel whose peer is gone. *)
LEMMA DownPool ==
  ASSUME ConferenceInv, ConferenceInv', PoolInv, NEW c \in Conn, HttpDown(c) \/ ChannelDown(c)
  PROVE  PoolInv'
<1>1. CASE HttpDown(c)
  <2>1. RemoveClient(c) /\ Leave(c)
    BY <1>1 DEF HttpDown
  <2>2. ~Listed(c)' /\ \A d \in Conn : Listed(d)' => Listed(d)
    BY <2>1, ConferenceAssumption DEF RemoveClient, Listed
  <2> QED BY <2>1, <2>2, LeavePool
<1>2. CASE ChannelDown(c)
  <2>1. conn[c].role = "channel" /\ UNCHANGED clients
    BY <1>2 DEF ChannelDown
  <2>2. ~Listed(c)' /\ \A d \in Conn : Listed(d)' => Listed(d)
    BY <2>1 DEF ConferenceInv, RolesFit, Listed
  <2>3. CASE feed = c
    <3>1. conn' = [conn EXCEPT ![c] = Closed(conn[c])] /\ free' = free
      BY <1>2, <2>3 DEF ChannelDown
    <3> QED BY <2>1, <3>1, QuietPool
  <2>4. CASE feed # c
    <3>1. Leave(c)
      BY <1>2, <2>4 DEF ChannelDown
    <3> QED BY <2>2, <3>1, LeavePool
  <2> QED BY <2>3, <2>4
<1> QED BY <1>1, <1>2

(* A payload takes a block, and demuxing gives some back; a feed that is   *)
(* replaced keeps its own.                                                 *)
LEMMA FeedPayloadPool ==
  ASSUME ConferenceInv, ConferenceInv', PoolInv, NEW c \in Conn, FeedPayload(c)
  PROVE  PoolInv'
<1>1. /\ conn[c].role = "channel" /\ clients' = clients
      /\ \/ UNCHANGED <<conn, free>>
         \/ \E rest \in Nat : Fed(c, rest)
  BY FeedPayloadFacts
<1>2. /\ free \in Nat /\ conn[c].out \in Nat /\ conn[c].queue \in Nat /\ conn[c] \in Connection
      /\ conn \in [Conn -> Connection] /\ \A d \in Conn : conn[d] \in Connection
  BY PoolTyped, ObjectsTyped
<1>3. \A d \in Conn : Listed(d)' <=> Listed(d)
  BY <1>1 DEF Listed
<1>4. CASE UNCHANGED <<conn, free>>
  BY <1>1, <1>4, QuietPool
<1>5. ASSUME NEW rest \in Nat, Fed(c, rest) PROVE PoolInv'
  <2>1. free' = free + conn[c].queue - rest /\ rest <= free + conn[c].queue
    BY <1>2, <1>5 DEF Fed
  <2>2. /\ conn'[c].queue = rest /\ conn'[c].out = conn[c].out
        /\ conn'[c].role = conn[c].role /\ (conn'[c].managed <=> conn[c].managed)
        /\ \A d \in Conn : d # c => Holding(conn'[d], conn[d])
    <3>1. CASE ReplaceFeed(c, rest)
      <4> DEFINE o == [conn[c] EXCEPT !.state = "streaming", !.queue = rest]
      <4>1. conn' = [x \in Conn |-> IF x = c THEN o ELSE IF x = feed THEN Closed(conn[x]) ELSE conn[x]]
        BY <3>1 DEF ReplaceFeed
      <4>2. o.queue = rest /\ o.out = conn[c].out /\ o.role = conn[c].role /\ (o.managed <=> conn[c].managed)
        BY <1>2 DEF Connection
      <4> HIDE DEF o
      <4>3. \A d \in Conn : Holding(Closed(conn[d]), conn[d]) /\ Holding(conn[d], conn[d])
        BY <1>2 DEF Holding, Closed, Connection
      <4> QED BY <4>1, <4>2, <4>3
    <3>2. CASE conn' = [conn EXCEPT ![c].queue = rest]
      BY <1>2, <3>2 DEF Holding, Connection
    <3> QED BY <1>5, <3>1, <3>2 DEF Fed
  <2>3. free' \in Nat /\ free' + conn'[c].out + conn'[c].queue = free + conn[c].out + conn[c].queue
    BY <1>2, <2>1, <2>2
  <2>4. ~conn'[c].managed => conn'[c].out = 0 /\ ~Listed(c)'
    BY <1>3, <2>2 DEF PoolInv
  <2> QED BY <1>1, <1>3, <2>2, <2>3, <2>4, PoolMoved DEF Holding
<1> QED BY <1>1, <1>4, <1>5

(* The last reference goes: the queue's blocks go back, and the output has *)
(* none, since the daemon let the object go.                               *)
LEMMA EndEventPool ==
  ASSUME ConferenceInv, ConferenceInv', PoolInv, NEW c \in Conn, EndEvent(c)
  PROVE  PoolInv'
<1>1. clients' = clients /\ \A d \in Conn : Listed(d)' <=> Listed(d)
  BY DEF EndEvent, Listed
<1>2. CASE Kept(c)
  BY <1>1, <1>2, QuietPool DEF EndEvent
<1>3. CASE ~Kept(c)
  <2>1. /\ conn' = [conn EXCEPT ![c] = Fresh] /\ free' = free + conn[c].queue
        /\ ~conn[c].managed /\ ~Listed(c)
    BY <1>3 DEF EndEvent, Kept
  <2>2. /\ free \in Nat /\ conn[c].out \in Nat /\ conn[c].queue \in Nat /\ conn[c] \in Connection
        /\ conn \in [Conn -> Connection]
    BY PoolTyped
  <2>3. conn[c].out = 0
    BY <2>1 DEF PoolInv
  <2>4. /\ conn'[c].out = 0 /\ conn'[c].queue = 0
        /\ \A d \in Conn : d # c => conn'[d] = conn[d]
    BY <2>1, <2>2, FreshFacts
  <2>5. free' \in Nat /\ free' + conn'[c].out + conn'[c].queue = free + conn[c].out + conn[c].queue
    BY <2>1, <2>2, <2>3, <2>4
  <2> QED BY <1>1, <2>1, <2>4, <2>5, PoolMoved
<1> QED BY <1>2, <1>3

(* A viewer of the table, which the daemon has, gets a frame. *)
LEMMA SendPacketPool ==
  ASSUME ConferenceInv, ConferenceInv', PoolInv, SendPacket
  PROVE  PoolInv'
<1>1. /\ turn # 0 /\ clients' = clients
      /\ \/ UNCHANGED <<conn, free>>
         \/ \E c \in Conn, whole \in BOOLEAN, took \in 0..free :
              /\ c = clients[turn] /\ free' = free - took
              /\ conn' = [conn EXCEPT ![c] = Given(conn[c], took, whole)]
  BY SendPacketFacts
<1>2. CASE UNCHANGED <<conn, free>>
  BY <1>1, <1>2, PoolQuiet DEF Holding
<1>3. ASSUME NEW c \in Conn, NEW whole \in BOOLEAN, NEW took \in 0..free, c = clients[turn],
             free' = free - took, conn' = [conn EXCEPT ![c] = Given(conn[c], took, whole)]
      PROVE  PoolInv'
  <2>1. /\ free \in Nat /\ conn[c].out \in Nat /\ conn[c].queue \in Nat /\ conn[c] \in Connection
        /\ conn \in [Conn -> Connection]
    BY PoolTyped
  <2> DEFINE o == Given(conn[c], took, whole)
  <2>2. /\ o.out = conn[c].out + took /\ o.queue = conn[c].queue
        /\ o.role = conn[c].role /\ (o.managed <=> conn[c].managed)
    BY <2>1 DEF Given, Connection
  <2> HIDE DEF o
  <2>3. conn'[c] = o /\ \A d \in Conn : d # c => conn'[d] = conn[d]
    BY <1>3, <2>1 DEF o
  <2>4. free' \in Nat /\ free' + conn'[c].out + conn'[c].queue = free + conn[c].out + conn[c].queue
    BY <1>3, <2>1, <2>2, <2>3
  <2>5. \A d \in Conn : Listed(d)' <=> Listed(d)
    BY <1>1 DEF Listed
  <2>6. turn \in 1..MaxClients
    BY <1>1 DEF ConferenceInv, ConferenceTypes, ConferenceTypeOK
  <2>7. Listed(c)
    BY <1>3, <2>6 DEF Listed
  <2>8. conn'[c].managed /\ (conn'[c].role = "none" => conn'[c].queue = 0)
    BY <2>2, <2>3, <2>7 DEF PoolInv
  <2> QED BY <2>3, <2>4, <2>5, <2>8, PoolMoved
<1> QED BY <1>1, <1>2, <1>3

(* A new object has no blocks, nor had it any before. *)
LEMMA OnAcceptPool ==
  ASSUME ConferenceInv, ConferenceInv', PoolInv, NEW f \in FD, NEW opened, OnAccept(f, opened)
  PROVE  PoolInv'
<1>1. PICK c \in Conn : /\ conn[c].role = "none" /\ free' = free
                        /\ AcceptChannel(c, f, opened) \/ AcceptHttp(c, f, opened)
  BY DEF OnAccept
<1>2. /\ free \in Nat /\ conn[c].out \in Nat /\ conn[c].queue \in Nat /\ conn[c] \in Connection
      /\ conn \in [Conn -> Connection]
  BY PoolTyped
<1>3. conn[c].out = 0 /\ conn[c].queue = 0
  BY <1>1 DEF PoolInv, ConferenceInv, RolesFit
<1>4. ASSUME NEW role, AddObject(c, role, f), \A d \in Conn : d # c => (Listed(d)' => Listed(d)),
             role # "none"
      PROVE  PoolInv'
  <2> DEFINE o == [Fresh EXCEPT !.role = role, !.fd = f, !.managed = TRUE]
  <2>1. conn' = [conn EXCEPT ![c] = o]
    BY <1>4 DEF AddObject
  <2>2. o.out = 0 /\ o.queue = 0 /\ o.role = role /\ o.managed
    BY FreshFacts DEF Fresh
  <2> HIDE DEF o
  <2>3. conn'[c] = o /\ \A d \in Conn : d # c => conn'[d] = conn[d]
    BY <1>2, <2>1
  <2>4. Listed(c)' => conn'[c].managed
    BY <2>2, <2>3
  <2> QED BY <1>1, <1>2, <1>3, <1>4, <2>2, <2>3, <2>4, PoolMoved
<1>5. CASE AcceptChannel(c, f, opened)
  <2> DEFINE role == "channel"
  <2>1. AddObject(c, role, f) /\ clients' = clients /\ role # "none"
    BY <1>5 DEF AcceptChannel
  <2> HIDE DEF role
  <2>2. \A d \in Conn : Listed(d)' => Listed(d)
    BY <2>1 DEF Listed
  <2> QED BY <1>4, <2>1, <2>2
<1>6. CASE AcceptHttp(c, f, opened) /\ HasPlace
  <2> DEFINE role == "http"
             i == FreePlace
  <2>1. AddObject(c, role, f) /\ clients' = [clients EXCEPT ![i] = c] /\ role # "none"
    BY <1>6 DEF AcceptHttp
  <2> HIDE DEF role, i
  <2>2. clients \in [1..MaxClients -> Conn \cup {None}]
    BY DEF ConferenceInv, ConferenceTypes, ConferenceTypeOK
  <2>3. \A d \in Conn : d # c => (Listed(d)' => Listed(d))
    BY <2>1, <2>2 DEF Listed
  <2> QED BY <1>4, <2>1, <2>3
<1>7. CASE AcceptHttp(c, f, opened) /\ ~HasPlace
  <2>1. UNCHANGED <<conn, clients>>
    BY <1>7 DEF AcceptHttp
  <2> QED BY <1>1, <2>1, QuietPool
<1> QED BY <1>1, <1>5, <1>6, <1>7

(* Every step keeps the blocks. *)
LEMMA ConferenceStepPool ==
  ASSUME ConferenceInv, ConferenceInv', PoolInv, [ConferenceNext]_conference_vars
  PROVE  PoolInv'
<1>1. CASE Accept
  <2> DEFINE f == Lowest
  <2>1. OnAccept(f, open \cup {f}) /\ FD # open
    BY <1>1 DEF Accept
  <2>2. f \in FD
    BY <2>1, LowestIsClosed DEF ConferenceInv, ConferenceTypes, ConferenceTypeOK
  <2> HIDE DEF f
  <2> QED BY <2>1, <2>2, OnAcceptPool
<1>2. CASE AcceptFails
  <2> DEFINE f == 0
  <2>1. OnAccept(f, open) /\ f \in FD
    BY <1>2, ConferenceAssumption DEF AcceptFails, FD
  <2> HIDE DEF f
  <2> QED BY <2>1, OnAcceptPool
<1>3. CASE OnTimer \/ UNCHANGED conference_vars
  <2>1. UNCHANGED <<conn, clients, free>>
    BY <1>3 DEF OnTimer, conference_vars
  <2> QED BY <2>1, PoolQuiet DEF Holding
<1>4. CASE SendPacket
  BY <1>4, SendPacketPool
<1>5. ASSUME NEW c \in Conn, PeerGone(c) \/ Wait(c) \/ Handle(c) PROVE PoolInv'
  <2>1. CASE Wait(c) \/ OtherPacket(c) \/ ReadHeaders(c)
    <3>1. UNCHANGED <<conn, clients, free>>
      BY <2>1 DEF Wait, OtherPacket, ReadHeaders
    <3> QED BY <3>1, QuietPool
  <2>2. CASE PeerGone(c) \/ HandleNewFeed(c)
    BY <2>2, QuietPool
  <2>3. CASE FeedPayload(c)
    BY <2>3, FeedPayloadPool
  <2>4. CASE ChannelDown(c) \/ HttpDown(c)
    BY <2>4, DownPool
  <2>5. CASE InitStreaming(c)
    BY <2>5, InitStreamingPool
  <2>6. CASE HttpWritten(c)
    BY <2>6, HttpWrittenPool
  <2>7. CASE EndEvent(c)
    BY <2>7, EndEventPool
  <2> QED BY <1>5, <2>1, <2>2, <2>3, <2>4, <2>5, <2>6, <2>7 DEF Handle
<1> QED BY <1>1, <1>2, <1>3, <1>4, <1>5 DEF ConferenceNext

(* At first the pool has them all. *)
LEMMA ConferenceInitPool == ASSUME ConferenceInit PROVE PoolInv
<1>1. /\ free = Pool /\ \A c \in Conn : conn[c] = Fresh
      /\ \A i \in 1..MaxClients : clients[i] = None
  BY DEF ConferenceInit
<1>2. \A c \in Conn : conn[c].queue = 0 /\ conn[c].out = 0 /\ ~Listed(c)
  BY <1>1, FreshFacts, ConferenceAssumption DEF Listed
<1>3. \A c \in Conn : Chain(c) = {}
  BY <1>2 DEF Chain
<1>4. Lent = {}
  BY <1>3 DEF Lent
<1>5. IsFiniteSet(Lent) /\ Cardinality(Lent) = 0
  BY <1>4, FS_EmptySet
<1>6. PoolShared
  BY <1>1, <1>5, ConferenceAssumption DEF PoolShared, Lent
<1> QED BY <1>2, <1>5, <1>6 DEF PoolInv

(* The invariant implies what the run checks. *)
LEMMA ConferenceInvSuffices == ASSUME ConferenceInv, PoolInv PROVE FramesArrive
<1>1. FeedIsLive
  <2>1. ConferenceTypeOK
    BY DEF ConferenceInv, ConferenceTypes
  <2>2. ASSUME feed # None
        PROVE  /\ conn[feed].role = "channel" /\ conn[feed].state = "streaming"
               /\ conn[feed].managed /\ conn[feed].fd \in open
    <3>1. /\ feed \in Conn /\ conn[feed].role = "channel" /\ conn[feed].state = "streaming"
          /\ Registered(feed) /\ slot \in [0..Limit - 1 -> Conn \cup {None}]
      BY <2>2 DEF ConferenceInv, ConferenceTypes, ConferenceTypeOK, FeedHeld
    <3>2. conn[feed].fd \in DOMAIN slot /\ slot[conn[feed].fd] = feed
      BY <3>1, ConferenceAssumption DEF Registered, FD
    <3> QED BY <3>1, <3>2 DEF ConferenceInv, SlotsHold
  <2> QED BY <2>1, <2>2 DEF FeedIsLive
<1>2. ViewersServed
  BY DEF ConferenceInv
<1>3. PoolShared
  BY DEF PoolInv
<1>4. StreamWhole
  BY DEF ConferenceInv, FramesFollow, StreamWhole
<1> QED BY <1>1, <1>2, <1>3, <1>4 DEF FramesArrive, TablesLive

(* FramesArrive: whatever feeders and viewers do, every frame is drawn from *)
(* a live feed and goes to exactly the viewers that the daemon has until an *)
(* addObject() fails; the pool that they all share loses no block; and a    *)
(* viewer's stream has no hole but the frames that the pool refused it a    *)
(* part of, which the others may have emptied.                              *)
THEOREM ConferenceFramesArrive == ConferenceSpec => []FramesArrive
<1>1. ConferenceInit => ConferenceInv /\ PoolInv
  BY ConferenceInitInv, ConferenceInitPool
<1>2. ConferenceInv /\ PoolInv /\ [ConferenceNext]_conference_vars => ConferenceInv' /\ PoolInv'
  BY ConferenceStepInv, ConferenceStepPool
<1>3. ConferenceInv /\ PoolInv => FramesArrive
  BY ConferenceInvSuffices
<1> QED BY <1>1, <1>2, <1>3, PTL DEF ConferenceSpec

-----------------------------------------------------------------------------
(* The feed: what the channel holds is a run of the feeder's payloads. *)

Payload == [type : {"payload"}, frame : Nat, part : Nat, size : 1..FrameMax]

Channel ==
  [state : {"wait", "open", "streaming", "left"}, queue : Seq(Payload), ahead : Seq(Payload)]

DataOf(c) == c.ahead \o c.queue

(* b comes directly behind a. *)
Follows(a, b) ==
  IF a.part < a.size THEN b.frame = a.frame /\ b.part = a.part + 1 /\ b.size = a.size
  ELSE b.frame = a.frame + 1 /\ b.part = 1

Linked(data) == \A i \in 1..Len(data) - 1 : Follows(data[i], data[i + 1])

HeadersShort(data) == \A i \in 1..Len(data) : data[i].frame = 0 => data[i].part = 1 /\ data[i].size = 1

(* The data begin with the frame after those that were given. *)
Continues(data, frames) ==
  /\ data # <<>> /\ Linked(data) /\ HeadersShort(data) /\ data[1].part = 1
  /\ data[1].frame = Len(frames) + 1 \/ (data[1].frame = 0 /\ Len(frames) = 0)

Counting(frames) == frames \in Seq(Nat) /\ \A i \in 1..Len(frames) : frames[i] = i

(* What the loop keeps: last is the last payload that has come. *)
Drawing(draw, state, last) ==
  /\ draw.c \in Channel /\ draw.c.state = state
  /\ Counting(draw.frames) /\ Continues(DataOf(draw.c), draw.frames)
  /\ DataOf(draw.c)[Len(DataOf(draw.c))] = last

(* The beginning and the rest of a sequence are the sequence. *)
LEMMA FirstAndRest ==
  ASSUME NEW P, NEW s \in Seq(P), NEW k \in Nat
  PROVE  /\ First(k, s) \in Seq(P) /\ Rest(k, s) \in Seq(P)
         /\ Len(First(k, s)) = (IF k < Len(s) THEN k ELSE Len(s))
         /\ Len(Rest(k, s)) = (IF k < Len(s) THEN Len(s) - k ELSE 0)
         /\ \A i \in 1..Len(First(k, s)) : First(k, s)[i] = s[i]
         /\ \A i \in 1..Len(Rest(k, s)) : Rest(k, s)[i] = s[k + i]
         /\ First(k, s) \o Rest(k, s) = s
<1>1. /\ First(k, s) \in Seq(P) /\ Rest(k, s) \in Seq(P)
      /\ Len(First(k, s)) = (IF k < Len(s) THEN k ELSE Len(s))
      /\ Len(Rest(k, s)) = (IF k < Len(s) THEN Len(s) - k ELSE 0)
      /\ \A i \in 1..Len(First(k, s)) : First(k, s)[i] = s[i]
      /\ \A i \in 1..Len(Rest(k, s)) : Rest(k, s)[i] = s[k + i]
  BY DEF First, Rest
<1>2. First(k, s) \o Rest(k, s) = s
  <2>1. CASE k < Len(s)
    <3>1. k \in 0..Len(s) /\ First(k, s) = SubSeq(s, 1, k)
      BY <2>1 DEF First
    <3> QED BY <3>1, CutConcat DEF Rest
  <2>2. CASE k >= Len(s)
    <3>1. First(k, s) = SubSeq(s, 1, Len(s)) /\ Len(Rest(k, s)) = 0
      BY <2>2, <1>1 DEF First
    <3>2. First(k, s) = s /\ Rest(k, s) = <<>>
      BY <3>1, <1>1
    <3> QED BY <3>2
  <2> QED BY <2>1, <2>2
<1> QED BY <1>1, <1>2

(* Reading at least one payload each time empties a queue in time. *)
LEMMA ProductAtLeast ==
  ASSUME NEW l \in Nat, NEW B \in Nat \ {0}
  PROVE  ~(l * B < l * 1)
<1>1. l * B = l + l * (B - 1) /\ B - 1 \in Nat
  OBVIOUS
<1>2. \A x \in Nat : l * x \in Nat
  OBVIOUS
<1>3. l * (B - 1) \in Nat
  BY <1>1, <1>2
<1> QED BY <1>1, <1>3

(* What the first of a sequence are moved behind. *)
LEMMA MovedSequences ==
  ASSUME NEW P, NEW w \in Seq(P), NEW q \in Seq(P), NEW m \in Nat
  PROVE  /\ w \o First(m, q) \in Seq(P) /\ Rest(m, q) \in Seq(P)
         /\ Len(w \o First(m, q)) = Len(w) + Len(First(m, q))
         /\ Len(Rest(m, q)) = Len(q) - Len(First(m, q))
         /\ (w \o First(m, q)) \o Rest(m, q) = w \o q
<1> DEFINE a == First(m, q)
           b == Rest(m, q)
<1>1. a \o b = q
  BY FirstAndRest
<1>2. Len(b) = Len(q) - Len(a)
  BY FirstAndRest
<1>t. a \in Seq(P) /\ b \in Seq(P)
  BY FirstAndRest
<1> HIDE DEF a, b
<1>3. w \o a \in Seq(P) /\ Len(w \o a) = Len(w) + Len(a)
  BY <1>t, ConcatChain
<1>4. (w \o a) \o b = w \o (a \o b)
  BY <1>t, ConcatAssociative, SMTT(30)
<1> QED
  BY <1>1, <1>2, <1>3, <1>4, <1>t DEF a, b

(* They are the same payloads. *)
LEMMA MovedTogether ==
  ASSUME NEW P, NEW w \in Seq(P), NEW q \in Seq(P), NEW m \in Nat
  PROVE  (w \o First(m, q)) \o Rest(m, q) = w \o q
<1> DEFINE a == First(m, q)
           b == Rest(m, q)
<1>1. a \o b = q
  BY FirstAndRest
<1>2. a \in Seq(P) /\ b \in Seq(P)
  BY FirstAndRest
<1> HIDE DEF a, b
<1>3. (w \o a) \o b = w \o (a \o b)
  BY <1>2, ConcatAssociative, SMTT(30)
<1> QED BY <1>1, <1>3 DEF a, b

Moved(c, m) == [c EXCEPT !.ahead = @ \o First(m, c.queue), !.queue = Rest(m, @)]

(* d is c after k payloads were moved. *)
Reads(c, d, k) ==
  /\ d \in Channel /\ d.state = c.state /\ DataOf(d) = DataOf(c)
  /\ Len(d.ahead) = Len(c.ahead) + k /\ Len(d.queue) = Len(c.queue) - k

ReadSize(c, n) == Len(First(n * AvioSize, c.queue))

(* Reading moves payloads from the queue to libav's buffer. *)
LEMMA MovedFacts ==
  ASSUME NEW c \in Channel, NEW m \in Nat
  PROVE  Reads(c, Moved(c, m), Len(First(m, c.queue)))
<1> DEFINE w == c.ahead
           q == c.queue
           x == w \o First(m, q)
           b == Rest(m, q)
           d == Moved(c, m)
<1>1. q \in Seq(Payload) /\ w \in Seq(Payload)
  BY DEF Channel
<1>2. d = [c EXCEPT !.ahead = x, !.queue = b]
  BY DEF Channel, Moved
<1>w. w = c.ahead /\ q = c.queue
  OBVIOUS
<1> HIDE DEF w, q
<1>3. /\ x \in Seq(Payload) /\ b \in Seq(Payload)
      /\ Len(x) = Len(w) + Len(First(m, q))
      /\ Len(b) = Len(q) - Len(First(m, q))
      /\ x \o b = w \o q
  <2>1. x \in Seq(Payload) /\ b \in Seq(Payload)
    BY <1>1, MovedSequences
  <2>2. Len(x) = Len(w) + Len(First(m, q)) /\ Len(b) = Len(q) - Len(First(m, q))
    BY <1>1, MovedSequences
  <2>3. x \o b = w \o q
    BY <1>1, MovedTogether
  <2> QED BY <2>1, <2>2, <2>3
<1> HIDE DEF x, b, d
<1>4. d.ahead = x /\ d.queue = b /\ d.state = c.state /\ d \in Channel
  BY <1>2, <1>3 DEF Channel
<1>5. /\ d \in Channel /\ d.state = c.state /\ DataOf(d) = DataOf(c)
      /\ Len(d.ahead) = Len(c.ahead) + Len(First(m, c.queue))
      /\ Len(d.queue) = Len(c.queue) - Len(First(m, c.queue))
  BY <1>3, <1>4, <1>w DEF DataOf
<1> QED
  BY <1>5 DEF d, Reads

(* As much as n of libav's buffers, or all there is. *)
LEMMA ReadPacketFacts ==
  ASSUME NEW c \in Channel, NEW n \in Nat
  PROVE  Reads(c, ReadPacket(c, n), ReadSize(c, n))
<1> DEFINE m == n * AvioSize
<1>1. m \in Nat
  BY ThresholdAssumption
<1>2. ReadPacket(c, n) = Moved(c, m)
  BY DEF ReadPacket, Moved
<1>3. ReadSize(c, n) = Len(First(m, c.queue))
  BY DEF ReadSize
<1> HIDE DEF m
<1> QED
  BY <1>1, <1>2, <1>3, MovedFacts

(* How much that is. *)
LEMMA ReadSizes ==
  ASSUME NEW c \in Channel, NEW n \in Nat
  PROVE  /\ ReadSize(c, n) \in Nat /\ Len(c.queue) \in Nat /\ n * AvioSize \in Nat
         /\ n * AvioSize < Len(c.queue) => ReadSize(c, n) = n * AvioSize
         /\ n * AvioSize >= Len(c.queue) => ReadSize(c, n) = Len(c.queue)
<1> DEFINE m == n * AvioSize
           q == c.queue
<1>1. m \in Nat /\ q \in Seq(Payload)
  BY ThresholdAssumption DEF Channel
<1>2. ReadSize(c, n) = Len(First(m, q))
  BY DEF ReadSize
<1> HIDE DEF m, q
<1>3. Len(First(m, q)) = (IF m < Len(q) THEN m ELSE Len(q)) /\ Len(q) \in Nat
  BY <1>1, FirstAndRest
<1>4. /\ ReadSize(c, n) \in Nat
      /\ m < Len(q) => ReadSize(c, n) = m
      /\ m >= Len(q) => ReadSize(c, n) = Len(q)
  BY <1>1, <1>2, <1>3
<1> QED
  BY <1>1, <1>3, <1>4 DEF m, q

(* Reading once for each payload empties the queue. *)
LEMMA AllRead ==
  ASSUME NEW c \in Channel
  PROVE  ReadPacket(c, Len(c.queue)).queue = <<>>
<1> DEFINE l == Len(c.queue)
<1>1. l \in Nat /\ l = Len(c.queue)
  BY DEF Channel
<1> HIDE DEF l
<1>2. ~(l * AvioSize < l * 1)
  BY <1>1, ThresholdAssumption, ProductAtLeast
<1>3. Reads(c, ReadPacket(c, l), ReadSize(c, l))
  BY <1>1, ReadPacketFacts
<1>4. ReadSize(c, l) = Len(c.queue)
  <2>1. l * AvioSize >= Len(c.queue) => ReadSize(c, l) = Len(c.queue)
    BY <1>1, ReadSizes
  <2>2. l * AvioSize \in Nat
    BY <1>1, ReadSizes
  <2> QED BY <1>1, <1>2, <2>1, <2>2
<1>5. ReadPacket(c, l).queue = <<>>
  BY <1>1, <1>3, <1>4 DEF Channel, Reads
<1> QED
  BY <1>5 DEF l

(* libav reads no more than it must for a frame. *)
LEMMA LeastReads ==
  ASSUME NEW c \in Channel
  PROVE  \E n \in 0..Len(c.queue) :
           /\ ReadUntil(c, HoldsFrame) = ReadPacket(c, n)
           /\ HoldsFrame(ReadPacket(c, n).ahead) \/ ReadPacket(c, n).queue = <<>>
           /\ n > 0 => /\ ~HoldsFrame(ReadPacket(c, n - 1).ahead)
                       /\ ReadPacket(c, n - 1).queue # <<>>
<1> DEFINE ends == {n \in 0..Len(c.queue) :
                      HoldsFrame(ReadPacket(c, n).ahead) \/ ReadPacket(c, n).queue = <<>>}
           n == CHOOSE n \in ends : \A m \in ends : n <= m
           l == Len(c.queue)
<1>1. l \in Nat
  BY DEF Channel
<1>2. l \in ends
  BY <1>1, AllRead
<1>3. n \in ends /\ \A m \in ends : n <= m
  <2>1. ends \subseteq Nat /\ ends # {}
    BY <1>1, <1>2
  <2> HIDE DEF ends
  <2>2. Min(ends) \in ends /\ \A m \in ends : Min(ends) <= m
    BY <2>1, LeastNumber
  <2> QED BY <2>2
<1>4. n > 0 => n - 1 \notin ends /\ n - 1 \in 0..Len(c.queue)
  <2>1. n \in 0..l
    BY <1>3
  <2> HIDE DEF n, ends
  <2> QED BY <1>1, <1>3, <2>1
<1>5. ReadUntil(c, HoldsFrame) = ReadPacket(c, n)
  BY DEF ReadUntil
<1> HIDE DEF n
<1> QED
  BY <1>3, <1>4, <1>5

(* A frame's payloads are its own. *)
LEMMA FrameLinked ==
  ASSUME NEW data \in Seq(Payload), Linked(data), data # <<>>, data[1].part = 1,
         NEW k \in 1..Len(data), k <= data[1].size
  PROVE  data[k].part = k /\ data[k].frame = data[1].frame /\ data[k].size = data[1].size
<1> DEFINE Own(j) == data[j].part = j /\ data[j].frame = data[1].frame /\ data[j].size = data[1].size
           bad == {j \in 1..Len(data) : j <= data[1].size /\ ~Own(j)}
<1>1. Len(data) \in Nat /\ 1 \in 1..Len(data) /\ \A j \in 1..Len(data) : data[j] \in Payload
  OBVIOUS
<1>2. data[1].size \in Nat /\ Own(1)
  <2>1. data[1] \in Payload
    BY <1>1
  <2>2. data[1].size \in 1..FrameMax
    BY <2>1 DEF Payload
  <2>3. data[1].size \in Nat
    <3> DEFINE size == data[1].size
    <3>1. size \in 1..FrameMax
      BY <2>2
    <3> HIDE DEF size
    <3>2. size \in Nat
      BY <3>1, ThresholdAssumption
    <3> QED BY <3>2 DEF size
  <2>4. Own(1)
    OBVIOUS
  <2> QED BY <2>3, <2>4
<1>3. SUFFICES ASSUME bad # {} PROVE FALSE
  OBVIOUS
<1>4. PICK j \in bad : \A y \in bad : j <= y
  <2>1. bad \subseteq Nat
    BY <1>1
  <2> HIDE DEF bad
  <2> QED BY <2>1, <1>3, LeastNumber
<1>5. j # 1 /\ j \in 1..Len(data) /\ j <= data[1].size /\ ~Own(j)
  BY <1>2, <1>4
<1>6. j - 1 \in 1..Len(data) - 1 /\ j - 1 \in 1..Len(data) /\ j - 1 <= data[1].size /\ (j - 1) + 1 = j
  BY <1>1, <1>2, <1>5
<1>7. Own(j - 1)
  BY <1>4, <1>6
<1>8. Follows(data[j - 1], data[j])
  BY <1>6 DEF Linked
<1>9. Own(j)
  BY <1>1, <1>2, <1>5, <1>6, <1>7, <1>8 DEF Follows
<1> QED
  BY <1>5, <1>9

(* The thresholds: the next frame has come entirely before the queue is    *)
(* read empty.                                                             *)
LEMMA FrameHeld ==
  ASSUME NEW c \in Channel, Len(c.queue) > DrawAt
  PROVE  /\ ReadUntil(c, HoldsFrame) \in Channel
         /\ ReadUntil(c, HoldsFrame).state = c.state
         /\ DataOf(ReadUntil(c, HoldsFrame)) = DataOf(c)
         /\ HoldsFrame(ReadUntil(c, HoldsFrame).ahead)
         /\ ReadUntil(c, HoldsFrame).queue # <<>>
<1> DEFINE l == Len(c.queue)
<1>1. l \in Nat /\ l > DrawAt /\ Len(c.ahead) \in Nat
  BY DEF Channel
<1>2. PICK n \in 0..l :
         /\ ReadUntil(c, HoldsFrame) = ReadPacket(c, n)
         /\ HoldsFrame(ReadPacket(c, n).ahead) \/ ReadPacket(c, n).queue = <<>>
         /\ n > 0 => /\ ~HoldsFrame(ReadPacket(c, n - 1).ahead)
                     /\ ReadPacket(c, n - 1).queue # <<>>
  BY LeastReads
<1> DEFINE d == ReadPacket(c, n)
           k == ReadSize(c, n)
<1>3. n \in Nat /\ Reads(c, d, k)
  BY <1>1, <1>2, ReadPacketFacts
<1>4. k \in Nat /\ k < l
  <2>1. CASE n = 0
    <3>1. n * AvioSize = 0
      BY <2>1, ThresholdAssumption
    <3>2. n * AvioSize < Len(c.queue) => ReadSize(c, n) = n * AvioSize
      BY <1>3, ReadSizes
    <3> QED BY <1>1, <3>1, <3>2, ThresholdAssumption
  <2>2. CASE n > 0
    <3> DEFINE p == ReadPacket(c, n - 1)
               j == ReadSize(c, n - 1)
               x == (n - 1) * AvioSize
    <3>1. n - 1 \in Nat
      BY <1>3, <2>2
    <3>2. Reads(c, p, j)
      BY <3>1, ReadPacketFacts
    <3>3. /\ j \in Nat /\ x \in Nat
          /\ x < l => j = x
          /\ x >= l => j = l
      BY <3>1, ReadSizes
    <3>4. p.queue # <<>> /\ ~HoldsFrame(p.ahead)
      BY <1>2, <2>2
    <3>5. n * AvioSize = x + AvioSize
      BY <1>3, ThresholdAssumption
    <3>6. /\ n * AvioSize \in Nat
          /\ n * AvioSize < l => k = n * AvioSize
      BY <1>3, ReadSizes
    <3> HIDE DEF x, p, j, k
    <3>7. l - j > 0 /\ Len(p.queue) = l - j /\ Len(p.ahead) = Len(c.ahead) + j
      BY <3>2, <3>3, <3>4, <1>1 DEF Reads, Channel
    <3>8. j = x
      BY <3>3, <3>7, <1>1
    <3>9. Len(p.ahead) < FrameMax
      <4>1. p.ahead \in Seq(Payload)
        BY <3>2 DEF Reads, Channel
      <4>2. CASE p.ahead = <<>>
        BY <4>2, ThresholdAssumption
      <4>3. CASE p.ahead # <<>>
        <5>1. p.ahead[1] \in Payload
          BY <4>1, <4>3
        <5>2. p.ahead[1].size \in 1..FrameMax
          BY <5>1 DEF Payload
        <5>3. ~(Len(p.ahead) >= p.ahead[1].size)
          BY <3>4, <4>3 DEF HoldsFrame
        <5> QED BY <4>1, <5>2, <5>3, ThresholdAssumption
      <4> QED BY <4>2, <4>3
    <3>10. x < FrameMax
      BY <1>1, <3>3, <3>7, <3>8, <3>9, ThresholdAssumption
    <3>11. x + AvioSize < l
      BY <1>1, <3>3, <3>10, ThresholdAssumption
    <3> DEFINE y == n * AvioSize
    <3>12. y = x + AvioSize /\ y \in Nat /\ (y < l => k = y)
      BY <3>5, <3>6
    <3> HIDE DEF y, l
    <3> QED BY <3>11, <3>12
  <2> QED BY <1>3, <2>1, <2>2
<1> HIDE DEF d, k
<1>5. d \in Channel /\ d.state = c.state /\ DataOf(d) = DataOf(c) /\ Len(d.queue) = l - k
  BY <1>3 DEF Reads
<1>6. d.queue # <<>>
  BY <1>1, <1>4, <1>5 DEF Channel
<1> QED
  BY <1>2, <1>5, <1>6 DEF d

(* e is w and q without the first n elements. *)
WithoutFirst(e, w, q, n) ==
  /\ Len(e) = Len(w) - n + Len(q) /\ Len(w \o q) = Len(w) + Len(q)
  /\ \A i \in 1..Len(w) - n + Len(q) : e[i] = (w \o q)[n + i]

(* The sequence without its first n elements. *)
LEMMA RestOfConcat ==
  ASSUME NEW P, NEW w \in Seq(P), NEW q \in Seq(P), NEW n \in 1..Len(w)
  PROVE  /\ Rest(n, w) \in Seq(P) /\ Rest(n, w) \o q \in Seq(P) /\ w \o q \in Seq(P)
         /\ WithoutFirst(Rest(n, w) \o q, w, q, n)
<1>1. Rest(n, w) \in Seq(P) /\ Len(Rest(n, w)) = Len(w) - n
      /\ \A i \in 1..Len(w) - n : Rest(n, w)[i] = w[n + i]
  BY DEF Rest
<1> DEFINE r == Rest(n, w)
<1>r. r \in Seq(P) /\ Len(r) = Len(w) - n
  BY <1>1
<1> HIDE DEF r
<1>2. r \o q \in Seq(P) /\ Len(r \o q) = Len(w) - n + Len(q)
  BY <1>1, ConcatChain DEF r
<1>3. w \o q \in Seq(P) /\ Len(w \o q) = Len(w) + Len(q)
  BY ConcatChain
<1>4. ASSUME NEW i \in 1..Len(w) - n + Len(q)
      PROVE  (r \o q)[i] = (w \o q)[n + i]
  <2>0. Len(w) \in Nat /\ Len(q) \in Nat /\ n \in Nat /\ i \in Nat
    OBVIOUS
  <2>1. CASE i <= Len(w) - n
    <3>1. i \in 1..Len(r) /\ n + i \in 1..Len(w) /\ r \in Seq(P)
      BY <1>1, <2>1 DEF r
    <3>2. (r \o q)[i] = r[i] /\ (w \o q)[n + i] = w[n + i]
      BY <3>1, ConcatElements
    <3> QED BY <1>1, <2>1, <3>2 DEF r
  <2>2. CASE i > Len(w) - n
    <3> DEFINE j == i - (Len(w) - n)
    <3>1. j \in 1..Len(q) /\ i = (Len(w) - n) + j /\ n + i = Len(w) + j
      BY <2>0, <2>2
    <3> HIDE DEF j
    <3>2. (r \o q)[Len(r) + j] = q[j] /\ (w \o q)[Len(w) + j] = q[j]
      BY <1>r, <3>1, ConcatElements
    <3> QED BY <1>r, <3>1, <3>2
  <2>3. i <= Len(w) - n \/ i > Len(w) - n
    BY <2>0
  <2> QED BY <2>1, <2>2, <2>3, Zenon
<1> QED
  BY <1>1, <1>2, <1>3, <1>4 DEF r, WithoutFirst

Left(c) == Len(c.ahead) + Len(c.queue)

(* readFrame() gives the next frame and leaves what comes after it. *)
LEMMA ReadFrameKeeps ==
  ASSUME NEW draw, NEW state, NEW last, Drawing(draw, state, last), Len(draw.c.queue) > DrawAt
  PROVE  /\ Drawing(ReadFrame(draw), state, last)
         /\ Left(draw.c) \in Nat /\ Left(ReadFrame(draw).c) \in Nat
         /\ Left(ReadFrame(draw).c) < Left(draw.c)
<1> DEFINE c == ReadUntil(draw.c, HoldsFrame)
           data == DataOf(draw.c)
           w == c.ahead
           q == c.queue
           n == w[1].size
           f == w[1].frame
           e == Rest(n, w) \o q
           frames == draw.frames
           given == IF f = 0 THEN frames ELSE Append(frames, f)
           d == [c EXCEPT !.ahead = Rest(n, @)]
<1>1. /\ c \in Channel /\ c.state = state /\ DataOf(c) = data /\ HoldsFrame(w) /\ q # <<>>
  BY FrameHeld DEF Drawing
<1>2. Counting(frames) /\ Continues(data, frames) /\ data[Len(data)] = last
  BY DEF Drawing
<1>3. ReadFrame(draw) = [c |-> d, frames |-> given]
  BY <1>1 DEF ReadFrame
<1>4. data = w \o q /\ w \in Seq(Payload) /\ q \in Seq(Payload) /\ d = [c EXCEPT !.ahead = Rest(n, w)]
  BY <1>1 DEF DataOf, Channel
<1>q. draw.c \in Channel /\ data = draw.c.ahead \o draw.c.queue
  BY DEF Drawing, DataOf
<1>l. Left(draw.c) \in Nat /\ Left(draw.c) = Len(data)
  <2> DEFINE u == draw.c.ahead
             v == draw.c.queue
  <2>1. u \in Seq(Payload) /\ v \in Seq(Payload)
    BY <1>q DEF Channel
  <2>2. data = u \o v /\ Left(draw.c) = Len(u) + Len(v)
    BY DEF Left, DataOf
  <2> HIDE DEF data, u, v
  <2> QED BY <2>1, <2>2, ConcatChain
<1> HIDE DEF c, data, w, q, d
<1>5. w # <<>> /\ Len(w) >= n /\ w[1] \in Payload
  BY <1>1, <1>4 DEF HoldsFrame
<1>6. n \in 1..Len(w) /\ f \in Nat
  <2>1. w[1].size \in 1..FrameMax /\ w[1].frame \in Nat
    <3> DEFINE first == w[1]
    <3>1. first \in Payload
      BY <1>5
    <3> HIDE DEF first
    <3>2. first.size \in 1..FrameMax /\ first.frame \in Nat
      BY <3>1 DEF Payload
    <3> QED BY <3>2 DEF first
  <2>2. Len(w) \in Nat
    BY <1>4
  <2> HIDE DEF given, e
  <2> QED BY <1>5, <2>1, <2>2, ThresholdAssumption
<1>7. data[1] = w[1]
  BY <1>4, <1>5, ConcatElements
<1> DEFINE size == n
           frame == f
<1>8. size = data[1].size /\ frame = data[1].frame /\ size = n /\ frame = f
  BY <1>7
<1> HIDE DEF n, f, size, frame
<1>9. /\ Rest(n, w) \in Seq(Payload) /\ e \in Seq(Payload) /\ data \in Seq(Payload)
      /\ Len(e) = Len(w) - n + Len(q) /\ Len(data) = Len(w) + Len(q)
      /\ \A i \in 1..Len(w) - n + Len(q) : e[i] = data[n + i]
  <2>1. w \in Seq(Payload) /\ q \in Seq(Payload) /\ n \in 1..Len(w)
    BY <1>4, <1>6
  <2>2. /\ Rest(n, w) \in Seq(Payload) /\ Rest(n, w) \o q \in Seq(Payload)
        /\ w \o q \in Seq(Payload) /\ WithoutFirst(Rest(n, w) \o q, w, q, n)
    BY <2>1, RestOfConcat
  <2> QED BY <2>2, <1>4 DEF WithoutFirst
<1>10. d \in Channel /\ d.state = state /\ DataOf(d) = e /\ d.ahead = Rest(n, w) /\ d.queue = q
  <2>1. d.state = state /\ d.ahead = Rest(n, w) /\ d.queue = q
    BY <1>1, <1>4 DEF Channel, q
  <2>2. d \in Channel
    BY <1>1, <1>4, <1>9 DEF Channel
  <2> QED BY <2>1, <2>2 DEF DataOf
<1> HIDE DEF e
<1>11. Len(q) \in Nat \ {0} /\ Len(w) \in Nat /\ Len(e) \in 1..Len(data) - n
  BY <1>1, <1>4, <1>6, <1>9
<1>12. data # <<>> /\ Linked(data) /\ HeadersShort(data) /\ data[1].part = 1
       /\ (frame = Len(frames) + 1 \/ (frame = 0 /\ Len(frames) = 0))
  BY <1>2, <1>8 DEF Continues
<1>13. data[n].part = n /\ data[n].frame = frame /\ data[n].size = n
  <2>1. n \in 1..Len(data) /\ n <= data[1].size
    BY <1>6, <1>8, <1>9, <1>11
  <2> QED BY <2>1, <1>8, <1>9, <1>12, FrameLinked
<1>14. e[1].part = 1 /\ e[1].frame = frame + 1
  <2>1. n \in 1..Len(data) - 1 /\ e[1] = data[n + 1]
    BY <1>6, <1>9, <1>11
  <2>2. Follows(data[n], data[n + 1])
    BY <2>1, <1>12 DEF Linked
  <2> QED BY <2>1, <2>2, <1>6, <1>13 DEF Follows
<1>15. Linked(e)
  <2> SUFFICES ASSUME NEW i \in 1..Len(e) - 1 PROVE Follows(e[i], e[i + 1])
    BY DEF Linked
  <2>1. n + i \in 1..Len(data) - 1 /\ i \in 1..Len(w) - n + Len(q) /\ i + 1 \in 1..Len(w) - n + Len(q)
        /\ n + (i + 1) = (n + i) + 1
    BY <1>6, <1>9, <1>11
  <2>2. e[i] = data[n + i] /\ e[i + 1] = data[(n + i) + 1]
    BY <1>9, <2>1
  <2> QED BY <2>1, <2>2, <1>12 DEF Linked
<1>16. HeadersShort(e)
  <2> SUFFICES ASSUME NEW i \in 1..Len(e), e[i].frame = 0 PROVE e[i].part = 1 /\ e[i].size = 1
    BY DEF HeadersShort
  <2>0. i \in 1..Len(w) - n + Len(q) /\ n + i \in 1..Len(data)
    BY <1>6, <1>9, <1>11
  <2>1. n + i \in 1..Len(data) /\ e[i] = data[n + i]
    BY <2>0, <1>9
  <2> QED BY <2>1, <1>12 DEF HeadersShort
<1>17. e # <<>> /\ e[Len(e)] = last
  <2>1. Len(e) \in 1..Len(w) - n + Len(q) /\ n + Len(e) = Len(data)
    BY <1>6, <1>9, <1>11
  <2> QED BY <2>1, <1>2, <1>9
<1>18. /\ Counting(given)
       /\ e[1].frame = Len(given) + 1
  <2>1. frames \in Seq(Nat) /\ \A i \in 1..Len(frames) : frames[i] = i
    BY <1>2 DEF Counting
  <2>2. CASE f = 0
    BY <2>1, <2>2, <1>2, <1>8, <1>12, <1>14
  <2>3. CASE f # 0
    <3> HIDE DEF frames
    <3>1. f = Len(frames) + 1 /\ given = Append(frames, f)
      BY <2>3, <1>8, <1>12
    <3>2. given \in Seq(Nat) /\ Len(given) = Len(frames) + 1
          /\ \A i \in 1..Len(frames) : given[i] = frames[i]
          /\ given[Len(frames) + 1] = f
      BY <3>1, <2>1, <1>6
    <3>3. Len(frames) \in Nat
      BY <2>1
    <3> HIDE DEF given
    <3>4. \A i \in 1..Len(given) : given[i] = i
      BY <2>1, <3>1, <3>2, <3>3
    <3> QED BY <3>1, <3>2, <3>4, <1>8, <1>14 DEF Counting
  <2> QED BY <2>2, <2>3
<1> HIDE DEF given
<1>19. Continues(e, given)
  BY <1>14, <1>15, <1>16, <1>17, <1>18 DEF Continues
<1>20. Drawing(ReadFrame(draw), state, last)
  <2>1. ReadFrame(draw).c = d /\ ReadFrame(draw).frames = given
    BY <1>3
  <2> QED BY <2>1, <1>10, <1>17, <1>18, <1>19 DEF Drawing
<1>21. Left(ReadFrame(draw).c) = Len(Rest(n, w)) + Len(q)
  <2>1. ReadFrame(draw).c = d
    BY <1>3
  <2> QED BY <2>1, <1>10 DEF Left
<1>22. Len(Rest(n, w)) = Len(w) - n
  BY <1>4, <1>6 DEF Rest
<1> QED
  BY <1>l, <1>6, <1>9, <1>11, <1>20, <1>21, <1>22

(* The loop's turns are defined. *)
LEMMA TurnsExist ==
  ASSUME NEW d, NEW k \in Nat
  PROVE  \E f : f = [n \in 0..k |-> IF n = 0 THEN d ELSE DrawTurn(f[n - 1])]
<1> DEFINE Made(j) == \E f : f = [n \in 0..j |-> IF n = 0 THEN d ELSE DrawTurn(f[n - 1])]
           bad == {j \in Nat : ~Made(j)}
<1>1. SUFFICES ASSUME bad # {} PROVE FALSE
  OBVIOUS
<1>2. PICK j \in bad : \A y \in bad : j <= y
  <2>1. bad \subseteq Nat
    OBVIOUS
  <2> HIDE DEF bad
  <2> QED BY <2>1, <1>1, LeastNumber
<1>3. j \in Nat /\ ~Made(j)
  BY <1>2
<1>4. Made(0)
  <2> DEFINE f == [n \in 0..0 |-> d]
  <2>1. f = [n \in 0..0 |-> IF n = 0 THEN d ELSE DrawTurn(f[n - 1])]
    OBVIOUS
  <2> HIDE DEF f
  <2> QED BY <2>1
<1>5. j - 1 \in Nat
  BY <1>3, <1>4
<1>6. Made(j - 1)
  <2> HIDE DEF Made
  <2>1. j - 1 \notin bad
    <3>1. ~(j <= j - 1)
      BY <1>3
    <3> HIDE DEF bad
    <3> QED BY <1>2, <3>1
  <2> QED BY <1>5, <2>1
<1>7. PICK f : f = [n \in 0..j - 1 |-> IF n = 0 THEN d ELSE DrawTurn(f[n - 1])]
  BY <1>6
<1> DEFINE g == [n \in 0..j |-> IF n \in 0..j - 1 THEN f[n] ELSE DrawTurn(f[j - 1])]
<1>8. g = [n \in 0..j |-> IF n = 0 THEN d ELSE DrawTurn(g[n - 1])]
  <2>1. ASSUME NEW n \in 0..j PROVE g[n] = IF n = 0 THEN d ELSE DrawTurn(g[n - 1])
    <3>1. CASE n \in 0..j - 1
      <4>1. f[n] = IF n = 0 THEN d ELSE DrawTurn(f[n - 1])
        BY <1>7, <3>1
      <4>2. g[n] = f[n] /\ (n # 0 => g[n - 1] = f[n - 1])
        BY <1>5, <3>1
      <4> QED BY <4>1, <4>2
    <3>2. CASE n = j
      <4>1. n # 0 /\ g[n] = DrawTurn(f[j - 1]) /\ g[n - 1] = f[j - 1]
        BY <1>3, <1>5, <3>2
      <4> QED BY <4>1
    <3> QED BY <1>3, <3>1, <3>2
  <2>2. g = [n \in 0..j |-> g[n]]
    OBVIOUS
  <2> HIDE DEF g
  <2> QED BY <2>1, <2>2
<1> HIDE DEF g
<1>9. Made(j)
  BY <1>8
<1> QED
  BY <1>3, <1>9

(* The loop ends at the threshold, and gives whole frames only. *)
LEMMA DrawFramesKeeps ==
  ASSUME NEW c, NEW frames, NEW state, NEW last,
         Drawing([c |-> c, frames |-> frames], state, last)
  PROVE  /\ Drawing(DrawFrames(c, frames), state, last)
         /\ Len(DrawFrames(c, frames).c.queue) <= DrawAt
<1> DEFINE k == Len(c.ahead) + Len(c.queue)
           d == [c |-> c, frames |-> frames]
           f == CHOOSE f : f = [n \in 0..k |-> IF n = 0 THEN d ELSE DrawTurn(f[n - 1])]
           Done(t) == Len(t.c.queue) <= DrawAt
           Good(n) == /\ Drawing(f[n], state, last)
                      /\ Done(f[n]) \/ (Left(f[n].c) \in Nat /\ Left(f[n].c) <= k - n)
           bad == {n \in 0..k : ~Good(n)}
<1>1. DrawFrames(c, frames) = f[k]
  BY DEF DrawFrames
<1>2. d.c = c /\ Drawing(d, state, last)
  OBVIOUS
<1>3. k \in Nat /\ k = Left(d.c)
  BY <1>2 DEF Drawing, Channel, Left
<1> HIDE DEF d, k
<1>4. f = [n \in 0..k |-> IF n = 0 THEN d ELSE DrawTurn(f[n - 1])]
  BY <1>3, TurnsExist
<1> HIDE DEF f
<1>5. f[0] = d /\ \A n \in 1..k : f[n] = DrawTurn(f[n - 1])
  BY <1>3, <1>4
<1>6. Good(0)
  BY <1>2, <1>3, <1>5
<1>7. ASSUME NEW n \in 1..k, Good(n - 1) PROVE Good(n)
  <2>1. f[n] = DrawTurn(f[n - 1])
    BY <1>5
  <2>2. CASE Done(f[n - 1])
    BY <1>7, <2>1, <2>2 DEF DrawTurn
  <2>3. CASE ~Done(f[n - 1])
    <3>1. f[n] = ReadFrame(f[n - 1])
      BY <2>1, <2>3 DEF DrawTurn
    <3>2. Len(f[n - 1].c.queue) \in Nat /\ DrawAt \in Nat
      BY <1>7, ThresholdAssumption DEF Drawing, Channel
    <3>3. /\ Drawing(f[n], state, last)
          /\ Left(f[n].c) \in Nat /\ Left(f[n].c) < Left(f[n - 1].c)
      <4> DEFINE t == f[n - 1]
      <4>1. Drawing(t, state, last) /\ Len(t.c.queue) > DrawAt /\ f[n] = ReadFrame(t)
        BY <1>7, <2>3, <3>1, <3>2
      <4> HIDE DEF t
      <4>2. /\ Drawing(ReadFrame(t), state, last)
            /\ Left(ReadFrame(t).c) \in Nat /\ Left(ReadFrame(t).c) < Left(t.c)
        BY <4>1, ReadFrameKeeps
      <4> QED BY <4>1, <4>2 DEF t
    <3> HIDE DEF Done
    <3> QED BY <1>3, <1>7, <2>3, <3>3
  <2> QED BY <2>2, <2>3
<1>8. bad = {}
  <2> SUFFICES ASSUME bad # {} PROVE FALSE
    OBVIOUS
  <2>1. PICK j \in bad : \A y \in bad : j <= y
    <3>1. bad \subseteq Nat
      BY <1>3
    <3> HIDE DEF bad
    <3> QED BY <3>1, LeastNumber
  <2> HIDE DEF Good
  <2>2. j \in 1..k /\ j - 1 \in 0..k /\ ~(j <= j - 1)
    BY <1>3, <1>6, <2>1
  <2>3. Good(j - 1)
    BY <2>1, <2>2
  <2>4. Good(j)
    BY <1>7, <2>2, <2>3
  <2> QED BY <2>1, <2>4
<1>9. Good(k)
  <2> HIDE DEF Good
  <2> QED BY <1>3, <1>8
<1>10. Done(f[k])
  <2>1. /\ Len(f[k].c.queue) \in Nat /\ Len(f[k].c.ahead) \in Nat
        /\ Left(f[k].c) = Len(f[k].c.ahead) + Len(f[k].c.queue)
    BY <1>9 DEF Drawing, Channel, Left
  <2>2. CASE Left(f[k].c) <= k - k
    <3> DEFINE a == Len(f[k].c.ahead)
               b == Len(f[k].c.queue)
               l == Left(f[k].c)
    <3>0. k - k = 0 /\ l <= k - k /\ a \in Nat /\ b \in Nat /\ l = a + b
      <4>1. k - k = 0
        BY <1>3
      <4>2. l <= k - k
        BY <2>2
      <4> QED BY <4>1, <4>2, <2>1, Zenon
    <3>1. a \in Nat /\ b \in Nat /\ a + b <= 0
      <4> HIDE DEF a, b, l
      <4> QED BY <3>0
    <3>2. b <= DrawAt
      <4> HIDE DEF a, b
      <4> QED BY <3>1, ThresholdAssumption
    <3> QED BY <3>2
  <2> QED BY <1>9, <2>2
<1> QED
  BY <1>1, <1>9, <1>10

-----------------------------------------------------------------------------
(* The inductive invariant of the feed. *)

Command == {[type |-> "new_feed"], [type |-> "hello"]}

Item == Payload \union Command

IsPayload(item) == item.type = "payload"

(* b comes behind a on the wire: the command, the header, the greeting and *)
(* the frames.                                                             *)
ComesAfter(a, b) ==
  CASE a.type = "new_feed" -> IsPayload(b) /\ b.frame = 0 /\ b.part = 1 /\ b.size = 1
    [] a.type = "hello" -> IsPayload(b) /\ b.frame = 1 /\ b.part = 1
    [] OTHER -> IF a.frame = 0 THEN b.type = "hello"
                ELSE IsPayload(b) /\ Follows(a, b)

LastOf(s) == s[Len(s)]

(* What is on the wire, when e frames were encoded. *)
WireInv(w, e) ==
  /\ w \in Seq(Item)
  /\ \A i \in 1..Len(w) - 1 : ComesAfter(w[i], w[i + 1])
  /\ \A i \in 1..Len(w) : IsPayload(w[i]) =>
       w[i].frame <= e /\ (w[i].frame = 0 => w[i].part = 1 /\ w[i].size = 1)

(* What the channel holds, and what it has given. *)
ChannelInv(c, frames, e) ==
  /\ c \in Channel /\ Counting(frames)
  /\ DataOf(c) = <<>> => Len(frames) = 0
  /\ DataOf(c) # <<>> => (Continues(DataOf(c), frames) /\ LastOf(DataOf(c)).frame <= e)
  /\ c.state = "wait" => DataOf(c) = <<>>

(* The next packet goes on where the data end. *)
GoesOn(item, c) ==
  IF DataOf(c) = <<>>
  THEN IF c.state = "wait" THEN item.type = "new_feed"
       ELSE IsPayload(item) /\ item.frame = 0 /\ item.part = 1
  ELSE \/ item.type = "hello" /\ LastOf(DataOf(c)).frame = 0
       \/ IsPayload(item) /\ Follows(LastOf(DataOf(c)), item)

JunctionInv(w, c) == w # <<>> => GoesOn(w[1], c)

Ends(p, e) == p.part = p.size /\ p.frame = e

(* The frame that was sent last is the last that was encoded. *)
SentInv(w, c, e) ==
  IF w # <<>>
  THEN \/ LastOf(w).type = "hello" /\ e = 0
       \/ IsPayload(LastOf(w)) /\ LastOf(w).frame # 0 /\ Ends(LastOf(w), e)
  ELSE DataOf(c) # <<>> /\ Ends(LastOf(DataOf(c)), e)

Runs == {"starting", "webcam_open", "stream_found", "decoder_open", "muxer_created", "encoder_open", "ready",
         "headerless", "up", "ended"}

FeederInv ==
  /\ feeder \in [run : Runs, iFrame : Nat, encoded : Nat]
  /\ (feeder.run \notin {"up", "ended"}) =>
       (wire = <<>> /\ channel.state = "wait" /\ feeder.encoded = 0)
  /\ (feeder.run = "up") => SentInv(wire, channel, feeder.encoded)

QueueInv ==
  /\ served # "queue_full"
  /\ (served = "yes" /\ channel.state \in {"wait", "open"}) => Len(channel.queue) <= StartAt
  /\ (channel.state = "streaming") => Len(channel.queue) <= DrawAt

FeedInv ==
  /\ WireInv(wire, feeder.encoded) /\ ChannelInv(channel, decoded, feeder.encoded)
  /\ JunctionInv(wire, channel) /\ FeederInv /\ QueueInv

(* When the pool had no block for a payload the server is gone, and what   *)
(* it had decoded stays.                                                   *)
FullInv ==
  /\ served = "queue_full" /\ FeedWhole
  /\ feeder \in [run : {"up", "ended"}, iFrame : Nat, encoded : Nat]

(* No frame comes behind a later one. *)
LEMMA FramesAscend ==
  ASSUME NEW data \in Seq(Payload), Linked(data), data # <<>>
  PROVE  data[1].frame <= LastOf(data).frame
<1> DEFINE Fine(j) == data[1].frame <= data[j].frame
           bad == {j \in 1..Len(data) : ~Fine(j)}
<1>1. Len(data) \in Nat /\ 1 \in 1..Len(data) /\ Len(data) \in 1..Len(data)
      /\ \A j \in 1..Len(data) : data[j] \in Payload
  OBVIOUS
<1>2. \A j \in 1..Len(data) : data[j].frame \in Nat
  BY <1>1 DEF Payload
<1>3. bad = {}
  <2> SUFFICES ASSUME bad # {} PROVE FALSE
    OBVIOUS
  <2>1. PICK j \in bad : \A y \in bad : j <= y
    <3>1. bad \subseteq Nat
      BY <1>1
    <3> HIDE DEF bad
    <3> QED BY <3>1, LeastNumber
  <2>2. j # 1 /\ j \in 1..Len(data) /\ ~Fine(j)
    BY <1>1, <1>2, <2>1
  <2>3. j - 1 \in 1..Len(data) - 1 /\ j - 1 \in 1..Len(data) /\ (j - 1) + 1 = j
    BY <1>1, <2>2
  <2>4. Fine(j - 1)
    BY <2>1, <2>3
  <2>5. Follows(data[j - 1], data[j])
    BY <2>3 DEF Linked
  <2>6. data[j].frame = data[j - 1].frame \/ data[j].frame = data[j - 1].frame + 1
    BY <2>3, <2>5 DEF Follows
  <2>7. Fine(j)
    <3> DEFINE a == data[1].frame
               b == data[j - 1].frame
               d == data[j].frame
    <3>1. a \in Nat /\ b \in Nat /\ a <= b /\ (d = b \/ d = b + 1)
      BY <1>1, <1>2, <2>3, <2>4, <2>6
    <3>2. a <= d
      <4> HIDE DEF a, b, d
      <4> QED BY <3>1
    <3> QED BY <3>2
  <2> QED BY <2>2, <2>7
<1> QED
  BY <1>1, <1>3 DEF LastOf

(* The invariant says that frames are whole and in order. *)
LEMMA FeedInvWhole == ASSUME FeedInv PROVE FeedWhole
<1>1. /\ channel \in Channel /\ decoded \in Seq(Nat) /\ \A i \in 1..Len(decoded) : decoded[i] = i
      /\ feeder.encoded \in Nat
  BY DEF FeedInv, ChannelInv, FeederInv, Counting
<1>2. decoded = [i \in 1..Len(decoded) |-> i]
  BY <1>1
<1>3. Len(decoded) <= feeder.encoded
  <2>1. CASE DataOf(channel) = <<>>
    BY <1>1, <2>1 DEF FeedInv, ChannelInv
  <2>2. CASE DataOf(channel) # <<>>
    <3> DEFINE data == DataOf(channel)
    <3>1. data \in Seq(Payload)
      BY <1>1, ConcatChain DEF DataOf, Channel
    <3>2. Continues(data, decoded) /\ LastOf(data).frame <= feeder.encoded
      BY <2>2 DEF FeedInv, ChannelInv
    <3> HIDE DEF data
    <3>3. data[1].frame <= LastOf(data).frame
      BY <3>1, <3>2, FramesAscend DEF Continues
    <3>4. data[1].frame \in Nat /\ LastOf(data).frame \in Nat
      <4>1. data # <<>> /\ 1 \in 1..Len(data) /\ Len(data) \in 1..Len(data)
        BY <3>1, <3>2 DEF Continues
      <4>2. data[1] \in Payload /\ data[Len(data)] \in Payload
        BY <3>1, <4>1
      <4> QED BY <4>2 DEF LastOf, Payload
    <3> HIDE DEF data
    <3> QED BY <1>1, <3>2, <3>3, <3>4 DEF Continues
  <2> QED BY <2>1, <2>2
<1>4. channel.state = "streaming" => Len(channel.queue) <= DrawAt
  <2>1. QueueInv
    BY DEF FeedInv
  <2> QED BY <2>1, Zenon DEF QueueInv
<1> QED
  BY <1>2, <1>3, <1>4, Zenon DEF FeedWhole

(* Before the feeder has started there are no data. *)
LEMMA FeedInitInv == ASSUME FeedInit PROVE FeedInv
<1>1. /\ feeder = [run |-> "starting", iFrame |-> 0, encoded |-> 0] /\ wire = <<>>
      /\ channel = [state |-> "wait", queue |-> <<>>, ahead |-> <<>>]
      /\ decoded = <<>> /\ served = "yes"
  BY DEF FeedInit
<1>2. channel \in Channel /\ DataOf(channel) = <<>>
  BY <1>1 DEF Channel, DataOf
<1>3. WireInv(wire, feeder.encoded) /\ JunctionInv(wire, channel) /\ FeederInv
  BY <1>1, <1>2 DEF WireInv, JunctionInv, SentInv, FeederInv, Runs
<1>4. ChannelInv(channel, decoded, feeder.encoded)
  BY <1>1, <1>2 DEF ChannelInv, Counting
<1>5. QueueInv
  BY <1>1, ThresholdAssumption DEF QueueInv
<1> QED
  BY <1>3, <1>4, <1>5 DEF FeedInv

-----------------------------------------------------------------------------
(* The feeder's steps. *)

(* The commands are no payloads. *)
LEMMA PayloadItems == ASSUME NEW x \in Item, IsPayload(x) PROVE x \in Payload
<1>1. CASE x \in Payload
  BY <1>1
<1>2. CASE x \in Command
  <2>1. x.type = "new_feed" \/ x.type = "hello"
    <3>1. x = [type |-> "new_feed"] \/ x = [type |-> "hello"]
      BY <1>2, Zenon DEF Command
    <3>2. CASE x = [type |-> "new_feed"]
      BY <3>2
    <3>3. CASE x = [type |-> "hello"]
      BY <3>3
    <3> QED BY <3>1, <3>2, <3>3
  <2> QED BY <2>1 DEF IsPayload
<1> QED BY <1>1, <1>2 DEF Item

(* A beginning of the wire is as good as the wire. *)
LEMMA WireBegins ==
  ASSUME NEW w, NEW e, NEW c, WireInv(w, e), JunctionInv(w, c), NEW n \in 0..Len(w)
  PROVE  WireInv(SubSeq(w, 1, n), e) /\ JunctionInv(SubSeq(w, 1, n), c)
<1> DEFINE v == SubSeq(w, 1, n)
<1>1. w \in Seq(Item)
  BY DEF WireInv
<1>2. v \in Seq(Item) /\ Len(v) = n /\ \A i \in 1..n : v[i] = w[i]
  BY <1>1
<1>3. n \in Nat /\ \A i \in 1..n : i \in 1..Len(w)
  BY <1>1
<1>4. \A i \in 1..n - 1 : i \in 1..n /\ i + 1 \in 1..n /\ i \in 1..Len(w) - 1
  BY <1>1
<1> HIDE DEF v
<1>5. WireInv(v, e)
  BY <1>2, <1>3, <1>4 DEF WireInv
<1>6. JunctionInv(v, c)
  <2>1. CASE n = 0
    BY <1>2, <2>1 DEF JunctionInv
  <2>2. CASE n # 0
    <3>1. v[1] = w[1] /\ w # <<>>
      BY <1>1, <1>2, <1>3, <2>2
    <3> QED BY <3>1 DEF JunctionInv
  <2> QED BY <2>1, <2>2
<1> QED
  BY <1>5, <1>6 DEF v

(* A frame's payloads, one after another. *)
LEMMA PayloadsFacts ==
  ASSUME NEW f \in Nat \ {0}, NEW size \in 1..FrameMax
  PROVE  /\ PayloadsOf(f, size) \in Seq(Payload) /\ Len(PayloadsOf(f, size)) = size
         /\ \A i \in 1..size : /\ PayloadsOf(f, size)[i].type = "payload"
                               /\ PayloadsOf(f, size)[i].frame = f
                               /\ PayloadsOf(f, size)[i].part = i
                               /\ PayloadsOf(f, size)[i].size = size
<1>1. size \in Nat \ {0}
  BY ThresholdAssumption
<1>2. PayloadsOf(f, size) = [i \in 1..size |-> [type |-> "payload", frame |-> f, part |-> i, size |-> size]]
  BY DEF PayloadsOf
<1>3. \A i \in 1..size : [type |-> "payload", frame |-> f, part |-> i, size |-> size] \in Payload
  BY <1>1 DEF Payload
<1> QED
  BY <1>1, <1>2, <1>3

(* The next frame goes on where the last one ended. *)
LEMMA FrameSent ==
  ASSUME NEW w, NEW e \in Nat, NEW c, NEW size \in 1..FrameMax, c \in Channel,
         WireInv(w, e), JunctionInv(w, c), SentInv(w, c, e)
  PROVE  LET v == w \o PayloadsOf(e + 1, size)
         IN WireInv(v, e + 1) /\ JunctionInv(v, c) /\ SentInv(v, c, e + 1)
<1> DEFINE p == PayloadsOf(e + 1, size)
           v == w \o p
<1>1. w \in Seq(Item) /\ size \in Nat \ {0}
  BY ThresholdAssumption DEF WireInv
<1>2. /\ p \in Seq(Payload) /\ Len(p) = size
      /\ \A i \in 1..size : IsPayload(p[i]) /\ p[i].frame = e + 1 /\ p[i].part = i /\ p[i].size = size
  <2>1. e + 1 \in Nat \ {0}
    OBVIOUS
  <2>2. /\ p \in Seq(Payload) /\ Len(p) = size
        /\ \A i \in 1..size : /\ p[i].type = "payload" /\ p[i].frame = e + 1
                              /\ p[i].part = i /\ p[i].size = size
    BY <2>1, PayloadsFacts
  <2> HIDE DEF p
  <2> QED BY <2>2 DEF IsPayload
<1> HIDE DEF p
<1>3. p \in Seq(Item)
  BY <1>2 DEF Item
<1>4. /\ v \in Seq(Item) /\ Len(v) = Len(w) + size
      /\ \A i \in 1..Len(w) : v[i] = w[i]
      /\ \A i \in 1..size : v[Len(w) + i] = p[i]
  <2>1. v \in Seq(Item) /\ Len(v) = Len(w) + Len(p)
    BY <1>1, <1>3, ConcatChain
  <2>2. /\ \A i \in 1..Len(w) : v[i] = w[i]
        /\ \A i \in 1..Len(p) : v[Len(w) + i] = p[i]
    BY <1>1, <1>3, ConcatElements
  <2> HIDE DEF v
  <2> QED BY <1>2, <2>1, <2>2
<1>l. Len(w) \in Nat
  BY <1>1
<1> HIDE DEF v
<1>5. \A i \in 1..Len(v) : i \in 1..Len(w) \/ \E j \in 1..size : i = Len(w) + j
  <2> SUFFICES ASSUME NEW i \in 1..Len(v), i \notin 1..Len(w) PROVE \E j \in 1..size : i = Len(w) + j
    OBVIOUS
  <2>1. i - Len(w) \in 1..size /\ i = Len(w) + (i - Len(w))
    BY <1>1, <1>4, <1>l
  <2> QED BY <2>1
<1>6. ASSUME NEW i \in 1..Len(v), IsPayload(v[i])
      PROVE  v[i].frame <= e + 1 /\ (v[i].frame = 0 => v[i].part = 1 /\ v[i].size = 1)
  <2>1. CASE i \in 1..Len(w)
    <3>0. v[i] = w[i] /\ w[i] \in Item /\ IsPayload(w[i])
      <4>1. v[i] = w[i]
        BY <1>4, <2>1
      <4>2. w[i] \in Item
        BY <1>1, <2>1
      <4> QED BY <1>6, <4>1, <4>2
    <3>1. v[i] = w[i] /\ w[i] \in Item /\ IsPayload(w[i]) /\ w[i].frame <= e
          /\ (w[i].frame = 0 => w[i].part = 1 /\ w[i].size = 1)
      BY <2>1, <3>0, Zenon DEF WireInv
    <3>2. w[i].frame \in Nat
      BY <3>1, PayloadItems DEF Payload
    <3> QED BY <3>1, <3>2
  <2>2. CASE i \notin 1..Len(w)
    <3>1. PICK j \in 1..size : i = Len(w) + j
      BY <1>5, <2>2
    <3>2. v[i].frame = e + 1
      BY <1>2, <1>4, <3>1
    <3> QED BY <3>2
  <2> QED BY <2>1, <2>2
<1>7. ASSUME NEW i \in 1..Len(v) - 1 PROVE ComesAfter(v[i], v[i + 1])
  <2>1. CASE i \in 1..Len(w) - 1
    <3>1. i \in 1..Len(w) /\ i + 1 \in 1..Len(w)
      BY <1>l, <2>1
    <3>2. v[i] = w[i] /\ v[i + 1] = w[i + 1]
      BY <1>4, <3>1
    <3> QED BY <2>1, <3>2 DEF WireInv
  <2>2. CASE i = Len(w)
    <3>1. i \in 1..Len(w) /\ i + 1 = Len(w) + 1 /\ 1 \in 1..size /\ w # <<>>
      BY <1>1, <1>l, <2>2
    <3>2. v[i] = LastOf(w) /\ v[i + 1] = p[1]
      BY <1>4, <2>2, <3>1 DEF LastOf
    <3>3. IsPayload(p[1]) /\ p[1].frame = e + 1 /\ p[1].part = 1
      BY <1>2, <3>1
    <3>4. \/ LastOf(w).type = "hello" /\ e = 0
          \/ IsPayload(LastOf(w)) /\ LastOf(w).frame # 0 /\ Ends(LastOf(w), e)
      BY <3>1 DEF SentInv
    <3>5. CASE LastOf(w).type = "hello" /\ e = 0
      BY <3>2, <3>3, <3>5 DEF ComesAfter
    <3>6. CASE IsPayload(LastOf(w)) /\ LastOf(w).frame # 0 /\ Ends(LastOf(w), e)
      <4>1. LastOf(w) \in Item
        BY <1>1, <3>1 DEF LastOf
      <4>2. LastOf(w) \in Payload
        BY <3>6, <4>1, PayloadItems
      <4>3. LastOf(w).part \in Nat /\ LastOf(w).part = LastOf(w).size /\ LastOf(w).frame = e
        BY <3>6, <4>2 DEF Payload, Ends
      <4>4. Follows(LastOf(w), p[1])
        BY <3>3, <4>3 DEF Follows
      <4>5. ComesAfter(LastOf(w), p[1])
        BY <3>3, <3>6, <4>4 DEF ComesAfter, IsPayload
      <4> QED BY <3>2, <4>5
    <3> QED BY <3>4, <3>5, <3>6
  <2>3. CASE i > Len(w)
    <3> DEFINE j == i - Len(w)
    <3>1. j \in 1..size /\ j + 1 \in 1..size /\ i = Len(w) + j /\ i + 1 = Len(w) + (j + 1) /\ j < size
      BY <1>1, <1>4, <1>l, <2>3
    <3> HIDE DEF j
    <3>2. v[i] = p[j] /\ v[i + 1] = p[j + 1]
      BY <1>4, <3>1
    <3>3. /\ IsPayload(p[j]) /\ p[j].frame = e + 1 /\ p[j].part = j /\ p[j].size = size
          /\ IsPayload(p[j + 1]) /\ p[j + 1].frame = e + 1 /\ p[j + 1].part = j + 1 /\ p[j + 1].size = size
      BY <1>2, <3>1
    <3>4. Follows(p[j], p[j + 1])
      BY <3>1, <3>3 DEF Follows
    <3>5. e + 1 # 0
      OBVIOUS
    <3> QED BY <3>2, <3>3, <3>4, <3>5 DEF ComesAfter, IsPayload
  <2>4. i \in 1..Len(w) - 1 \/ i = Len(w) \/ i > Len(w)
    BY <1>l
  <2> QED BY <2>1, <2>2, <2>3, <2>4
<1>8. WireInv(v, e + 1)
  BY <1>4, <1>6, <1>7 DEF WireInv
<1>9. JunctionInv(v, c)
  <2>1. CASE w = <<>>
    <3>1. v[1] = p[1] /\ IsPayload(p[1]) /\ p[1].frame = e + 1 /\ p[1].part = 1
      <4>1. Len(w) = 0 /\ 1 \in 1..size /\ Len(w) + 1 = 1
        BY <1>1, <2>1
      <4> QED BY <1>2, <1>4, <4>1
    <3>2. DataOf(c) # <<>> /\ Ends(LastOf(DataOf(c)), e)
      BY <2>1 DEF SentInv
    <3>3. LastOf(DataOf(c)) \in Payload
      <4> DEFINE data == DataOf(c)
      <4>1. data \in Seq(Payload)
        BY ConcatChain DEF DataOf, Channel
      <4> HIDE DEF data
      <4> QED BY <3>2, <4>1 DEF data, LastOf
    <3>4. LastOf(DataOf(c)).part \in Nat
      BY <3>3 DEF Payload
    <3>5. Follows(LastOf(DataOf(c)), p[1])
      BY <3>1, <3>2, <3>4 DEF Follows, Ends
    <3> QED BY <3>1, <3>2, <3>5 DEF JunctionInv, GoesOn
  <2>2. CASE w # <<>>
    <3>1. v[1] = w[1]
      BY <1>1, <1>4, <2>2
    <3> QED BY <2>2, <3>1 DEF JunctionInv
  <2> QED BY <2>1, <2>2
<1>10. SentInv(v, c, e + 1)
  <2>1. v # <<>> /\ LastOf(v) = p[size]
    <3>1. Len(v) = Len(w) + size /\ size \in 1..size /\ Len(v) # 0
      BY <1>1, <1>4, <1>l
    <3> QED BY <1>4, <3>1 DEF LastOf
  <2>2. IsPayload(p[size]) /\ p[size].frame = e + 1 /\ p[size].part = size /\ p[size].size = size
    BY <1>1, <1>2
  <2> QED BY <2>1, <2>2 DEF SentInv, Ends
<1> QED
  BY <1>8, <1>9, <1>10 DEF v, p

(* What a step of the feeder leaves to show. *)
LEMMA FeederStepInv ==
  ASSUME FeedInv, UNCHANGED <<channel, decoded, served>>,
         feeder' \in [run : Runs, iFrame : Nat, encoded : Nat], feeder'.encoded >= feeder.encoded,
         WireInv(wire', feeder'.encoded), JunctionInv(wire', channel),
         (feeder'.run \notin {"up", "ended"}) =>
            (wire' = <<>> /\ channel.state = "wait" /\ feeder'.encoded = 0),
         (feeder'.run = "up") => SentInv(wire', channel, feeder'.encoded)
  PROVE  FeedInv'
<1>1. FeederInv'
  BY DEF FeederInv
<1>2. QueueInv'
  <2>1. QueueInv /\ channel' = channel /\ served' = served
    BY DEF FeedInv
  <2> QED BY <2>1, Zenon DEF QueueInv
<1>3. feeder.encoded \in Nat /\ feeder'.encoded \in Nat
  BY DEF FeedInv, FeederInv
<1>4. ChannelInv(channel, decoded, feeder'.encoded)
  <2>1. ChannelInv(channel, decoded, feeder.encoded)
    BY DEF FeedInv
  <2>2. CASE DataOf(channel) = <<>>
    BY <2>1, <2>2 DEF ChannelInv
  <2>3. CASE DataOf(channel) # <<>>
    <3> DEFINE data == DataOf(channel)
    <3>1. data \in Seq(Payload)
      BY <2>1, ConcatChain DEF DataOf, Channel, ChannelInv
    <3>2. LastOf(data).frame \in Nat
      <4> HIDE DEF data
      <4>1. LastOf(data) \in Payload
        BY <2>3, <3>1 DEF data, LastOf
      <4> QED BY <4>1 DEF Payload
    <3> DEFINE x == LastOf(data).frame
    <3>3. x <= feeder.encoded
      BY <2>1, <2>3 DEF ChannelInv
    <3>4. x <= feeder'.encoded
      <4> HIDE DEF x
      <4> QED BY <1>3, <3>2, <3>3 DEF x
    <3> QED BY <2>1, <2>3, <3>4 DEF ChannelInv
  <2> QED BY <2>2, <2>3
<1> QED
  BY <1>1, <1>2, <1>4 DEF FeedInv

(* Steps that only end the feeder or bring it to its next step. *)
LEMMA RunStepInv ==
  ASSUME FeedInv, UNCHANGED <<wire, channel, decoded, served>>, NEW run \in Runs \ {"up"},
         feeder.run \notin {"up", "ended"}, feeder' = [feeder EXCEPT !.run = run]
  PROVE  FeedInv'
<1>1. /\ feeder \in [run : Runs, iFrame : Nat, encoded : Nat]
      /\ wire = <<>> /\ channel.state = "wait" /\ feeder.encoded = 0
      /\ WireInv(wire, feeder.encoded) /\ JunctionInv(wire, channel)
  BY DEF FeedInv, FeederInv
<1>2. /\ feeder' \in [run : Runs, iFrame : Nat, encoded : Nat]
      /\ feeder'.encoded = feeder.encoded /\ feeder'.run = run
  BY <1>1
<1>3. feeder'.encoded >= feeder.encoded
  BY <1>1, <1>2
<1> QED
  BY <1>1, <1>2, <1>3, FeederStepInv

(* Three items, one after another. *)
LEMMA ThreeItems ==
  ASSUME NEW S, NEW x \in S, NEW y \in S, NEW z \in S
  PROVE  /\ (<<x>> \o <<y>> \o <<z>>) \in Seq(S) /\ Len(<<x>> \o <<y>> \o <<z>>) = 3
         /\ (<<x>> \o <<y>> \o <<z>>)[1] = x /\ (<<x>> \o <<y>> \o <<z>>)[2] = y
         /\ (<<x>> \o <<y>> \o <<z>>)[3] = z
<1> DEFINE s == <<x>> \o <<y>>
           t == <<z>>
           r == s \o t
<1>1. s[1] = x /\ s[2] = y /\ t[1] = z
  OBVIOUS
<1>2. s \in Seq(S) /\ t \in Seq(S)
  OBVIOUS
<1>3. Len(s) = 2 /\ Len(t) = 1
  OBVIOUS
<1> HIDE DEF s, t
<1>4. r \in Seq(S) /\ Len(r) = Len(s) + Len(t)
  BY <1>2, ConcatChain
<1>5. \A i \in 1..Len(s) : r[i] = s[i]
  BY <1>2, ConcatElements
<1>6. \A i \in 1..Len(t) : r[Len(s) + i] = t[i]
  BY <1>2, ConcatElements
<1> HIDE DEF r
<1>7. r[1] = x /\ r[2] = y
  BY <1>1, <1>3, <1>5
<1>8. r[3] = z
  <2>1. r[2 + 1] = t[1]
    BY <1>3, <1>6
  <2> QED BY <2>1, <1>1
<1>9. r \in Seq(S) /\ Len(r) = 3 /\ r[1] = x /\ r[2] = y /\ r[3] = z
  BY <1>3, <1>4, <1>7, <1>8
<1> QED BY <1>9 DEF r, s, t

(* The feeder starts: the command and the header are the first data. *)
LEMMA FeederStartsInv == ASSUME FeedInv, FeederStarts PROVE FeedInv'
<1>1. ASSUME NEW from \in Runs \ {"up", "ended"}, NEW to \in Runs \ {"up"}, StartStep(from, to)
      PROVE  FeedInv'
  <2>1. PICK run \in {to, "ended"} : feeder' = [feeder EXCEPT !.run = run]
    BY <1>1 DEF StartStep
  <2>2. run \in Runs \ {"up"} /\ feeder.run \notin {"up", "ended"}
    BY <1>1, <2>1 DEF StartStep, Runs
  <2>3. UNCHANGED <<wire, channel, decoded, served>>
    BY <1>1 DEF StartStep
  <2> QED BY <2>1, <2>2, <2>3, RunStepInv
<1>2. ASSUME OpenWebcam \/ FindVideoStream \/ OpenDecoder \/ CreateMuxer \/ OpenEncoder \/ CreatePicture
      PROVE  FeedInv'
  <2>1. PICK from \in Runs \ {"up", "ended"}, to \in Runs \ {"up"} : StartStep(from, to)
    BY <1>2, Zenon DEF OpenWebcam, FindVideoStream, OpenDecoder, CreateMuxer, OpenEncoder, CreatePicture, Runs
  <2> QED BY <1>1, <2>1, Zenon
<1>3. CASE FeederConnects
  <2>1. feeder.run = "ready" /\ UNCHANGED <<channel, decoded, served>>
    BY <1>3 DEF FeederConnects
  <2>2. ASSUME NEW run \in {"ended", "headerless"}, feeder' = [feeder EXCEPT !.run = run], UNCHANGED wire
        PROVE  FeedInv'
    <3>1. run \in Runs \ {"up"} /\ feeder.run \notin {"up", "ended"}
      BY <2>1 DEF Runs
    <3> QED BY <2>1, <2>2, <3>1, RunStepInv
  <2>3. CASE OnConnect
    <3>1. /\ feeder \in [run : Runs, iFrame : Nat, encoded : Nat]
          /\ wire = <<>> /\ channel.state = "wait" /\ feeder.encoded = 0
          /\ ChannelInv(channel, decoded, feeder.encoded)
      BY <2>1 DEF FeedInv, FeederInv
    <3>2. /\ feeder' \in [run : Runs, iFrame : Nat, encoded : Nat]
          /\ feeder'.encoded = 0 /\ feeder'.run = "up"
      BY <2>3, <3>1 DEF OnConnect, Runs
    <3> DEFINE new == [type |-> "new_feed"]
               head == [type |-> "payload", frame |-> 0, part |-> 1, size |-> 1]
               hello == [type |-> "hello"]
    <3>3. new \in Item /\ head \in Item /\ hello \in Item
      BY ThresholdAssumption DEF Item, Command, Payload
    <3>4. Header = <<head>>
      BY DEF Header, PayloadsOf
    <3>5. new.type = "new_feed" /\ hello.type = "hello" /\ head.type = "payload" /\ head.frame = 0
          /\ head.part = 1 /\ head.size = 1
      OBVIOUS
    <3>6. wire' = <<new>> \o <<head>> \o <<hello>>
      BY <2>3, <3>4 DEF OnConnect
    <3> HIDE DEF new, head, hello
    <3>7. /\ wire' \in Seq(Item) /\ Len(wire') = 3
          /\ wire'[1] = new /\ wire'[2] = head /\ wire'[3] = hello
      <4> DEFINE r == <<new>> \o <<head>> \o <<hello>>
      <4>1. r \in Seq(Item) /\ Len(r) = 3 /\ r[1] = new /\ r[2] = head /\ r[3] = hello
        BY <3>3, ThreeItems
      <4>2. wire' = r
        BY <3>6
      <4> HIDE DEF r
      <4> QED BY <4>1, <4>2
    <3>8. WireInv(wire', 0)
      <4>1. ASSUME NEW i \in 1..Len(wire') - 1 PROVE ComesAfter(wire'[i], wire'[i + 1])
        <5>1. i = 1 \/ i = 2
          BY <3>7
        <5>2. ComesAfter(new, head) /\ ComesAfter(head, hello)
          BY <3>5 DEF ComesAfter, IsPayload
        <5>3. CASE i = 1
          BY <3>7, <5>2, <5>3
        <5>4. CASE i = 2
          BY <3>7, <5>2, <5>4
        <5> QED BY <5>1, <5>3, <5>4
      <4>2. ASSUME NEW i \in 1..Len(wire'), IsPayload(wire'[i])
            PROVE  wire'[i].frame <= 0 /\ (wire'[i].frame = 0 => wire'[i].part = 1 /\ wire'[i].size = 1)
        <5>1. i = 2
          BY <3>5, <3>7, <4>2 DEF IsPayload
        <5> QED BY <3>5, <3>7, <5>1
      <4> QED BY <3>7, <4>1, <4>2 DEF WireInv
    <3>9. JunctionInv(wire', channel)
      BY <3>1, <3>5, <3>7 DEF JunctionInv, GoesOn, ChannelInv
    <3>10. SentInv(wire', channel, 0)
      <4>1. wire' # <<>> /\ LastOf(wire') = hello
        <5>1. Len(wire') = 3 /\ wire'[3] = hello
          BY <3>7
        <5>2. LastOf(wire') = wire'[3]
          BY <5>1 DEF LastOf
        <5> QED BY <5>1, <5>2
      <4> QED BY <3>5, <4>1 DEF SentInv
    <3>11. feeder'.encoded >= feeder.encoded
      BY <3>1, <3>2
    <3> QED BY <2>1, <3>2, <3>8, <3>9, <3>10, <3>11, FeederStepInv
  <2> QED BY <1>3, <2>2, <2>3 DEF FeederConnects
<1> QED
  BY <1>2, <1>3 DEF FeederStarts

(* The frames of a packet of the camera are sent one after another. *)
LEMMA FramesSent ==
  ASSUME FeedInv, NEW sizes \in CameraPackets, feeder.run = "up"
  PROVE  LET v == wire \o FramesOf(sizes)
             e == feeder.encoded + Len(sizes)
         IN /\ Len(sizes) \in 0..2 /\ WireInv(v, e) /\ JunctionInv(v, channel)
            /\ SentInv(v, channel, e)
<1> DEFINE e == feeder.encoded
           c == channel
           FrameAt(i) == IF i \in DOMAIN sizes THEN PayloadsOf(e + i, sizes[i]) ELSE <<>>
           Good(v, x) == WireInv(v, x) /\ JunctionInv(v, c) /\ SentInv(v, c, x)
<1>1. e \in Nat /\ c \in Channel /\ Good(wire, e) /\ wire \in Seq(Item)
  BY DEF FeedInv, FeederInv, ChannelInv, WireInv
<1>2. FramesOf(sizes) = FrameAt(1) \o FrameAt(2)
  BY DEF FramesOf
<1>3. PICK n \in 0..2 : sizes \in [1..n -> 1..FrameMax]
  BY DEF CameraPackets
<1>4. Len(sizes) = n /\ DOMAIN sizes = 1..n
  BY <1>3
<1> HIDE DEF e, c
<1> SUFFICES Good(wire \o FramesOf(sizes), e + n)
  BY <1>4 DEF e, c
<1>5. ASSUME NEW v, NEW x \in Nat, NEW size \in 1..FrameMax, Good(v, x)
      PROVE  Good(v \o PayloadsOf(x + 1, size), x + 1)
  BY <1>1, <1>5, FrameSent
<1>6. ASSUME NEW v, Good(v, e) PROVE v \o <<>> = v /\ <<>> \o <<>> = <<>>
  BY <1>6 DEF WireInv
<1> HIDE DEF Good
<1>7. CASE n = 0
  <2>1. FramesOf(sizes) = <<>> \o <<>>
    BY <1>2, <1>4, <1>7
  <2> QED BY <1>1, <1>6, <1>7, <2>1
<1>8. CASE n = 1
  <2>1. sizes[1] \in 1..FrameMax /\ FramesOf(sizes) = PayloadsOf(e + 1, sizes[1]) \o <<>>
    BY <1>2, <1>3, <1>4, <1>8
  <2>2. PayloadsOf(e + 1, sizes[1]) \o <<>> = PayloadsOf(e + 1, sizes[1])
    BY <1>1, <2>1, PayloadsFacts
  <2> QED BY <1>1, <1>5, <1>8, <2>1, <2>2
<1>9. CASE n = 2
  <2> DEFINE p == PayloadsOf(e + 1, sizes[1])
             q == PayloadsOf(e + 2, sizes[2])
  <2>1. sizes[1] \in 1..FrameMax /\ sizes[2] \in 1..FrameMax /\ FramesOf(sizes) = p \o q
    BY <1>2, <1>3, <1>4, <1>9
  <2>2. p \in Seq(Payload) /\ q \in Seq(Payload)
    BY <1>1, <2>1, PayloadsFacts
  <2>3. p \in Seq(Item) /\ q \in Seq(Item)
    BY <2>2 DEF Item
  <2>4. (wire \o p) \o q = wire \o (p \o q)
    <3> HIDE DEF p, q
    <3> QED BY <1>1, <2>3, ConcatAssociative
  <2>5. Good(wire \o p, e + 1)
    BY <1>1, <1>5, <2>1
  <2>6. Good((wire \o p) \o PayloadsOf((e + 1) + 1, sizes[2]), (e + 1) + 1)
    <3> HIDE DEF p
    <3> QED BY <1>1, <1>5, <2>1, <2>5
  <2>7. (e + 1) + 1 = e + 2
    BY <1>1
  <2> HIDE DEF p
  <2> QED BY <1>9, <2>1, <2>4, <2>6, <2>7
<1> QED
  BY <1>7, <1>8, <1>9

(* onTimer() of the feeder: a put that is refused ends it. *)
LEMMA FeederTimerInv == ASSUME FeedInv, FeederTimer PROVE FeedInv'
<1>1. PICK sizes \in CameraPackets :
        IF Len(wire \o FramesOf(sizes)) <= Room
        THEN feeder' = Grabbed(sizes) /\ wire' = wire \o FramesOf(sizes)
        ELSE FeederExits(Grabbed(sizes), SubSeq(wire \o FramesOf(sizes), 1, Room))
  BY DEF FeederTimer
<1> DEFINE v == wire \o FramesOf(sizes)
           e == feeder.encoded + Len(sizes)
           g == Grabbed(sizes)
<1>2. feeder.run = "up" /\ UNCHANGED <<channel, decoded, served>>
  BY DEF FeederTimer
<1>3. Len(sizes) \in 0..2 /\ WireInv(v, e) /\ JunctionInv(v, channel) /\ SentInv(v, channel, e)
  BY <1>2, FramesSent
<1>4. feeder \in [run : Runs, iFrame : Nat, encoded : Nat]
  BY DEF FeedInv, FeederInv
<1>5. g \in [run : Runs, iFrame : Nat, encoded : Nat] /\ g.run = "up" /\ g.encoded = e
      /\ e >= feeder.encoded
  <2> DEFINE l == Len(sizes)
             x == feeder.iFrame + 2 * l
             y == feeder.encoded + l
  <2>1. l \in Nat /\ feeder.iFrame \in Nat /\ feeder.encoded \in Nat
    BY <1>3, <1>4
  <2>2. g = [feeder EXCEPT !.iFrame = x, !.encoded = y]
    BY DEF Grabbed
  <2>3. e = y
    OBVIOUS
  <2> HIDE DEF l, g, e
  <2>4. x \in Nat /\ y \in Nat /\ y >= feeder.encoded
    BY <2>1
  <2> HIDE DEF x, y
  <2> QED BY <1>2, <1>4, <2>2, <2>3, <2>4
<1> HIDE DEF g, v, e
<1>6. CASE Len(v) <= Room
  <2>1. feeder' = g /\ wire' = v
    BY <1>1, <1>6 DEF v, g
  <2> QED BY <1>2, <1>3, <1>5, <2>1, FeederStepInv
<1>7. CASE ~(Len(v) <= Room)
  <2>1. FeederExits(g, SubSeq(v, 1, Room))
    BY <1>1, <1>7 DEF v, g
  <2>2. v \in Seq(Item) /\ Room \in 0..Len(v)
    BY <1>3, <1>7, ThresholdAssumption DEF WireInv
  <2> DEFINE s == SubSeq(v, 1, Room)
  <2>3. s \in Seq(Item) /\ WireInv(s, e) /\ JunctionInv(s, channel)
    BY <1>3, <2>2, WireBegins DEF WireInv
  <2> HIDE DEF s
  <2>4. PICK n \in 0..Len(s) : wire' = SubSeq(s, 1, n)
    BY <2>1 DEF FeederExits, s
  <2>5. WireInv(wire', e) /\ JunctionInv(wire', channel)
    BY <2>3, <2>4, WireBegins
  <2>6. feeder' \in [run : Runs, iFrame : Nat, encoded : Nat] /\ feeder'.run = "ended" /\ feeder'.encoded = e
    BY <1>5, <2>1 DEF FeederExits, Runs
  <2> QED BY <1>2, <1>5, <2>5, <2>6, FeederStepInv
<1> QED
  BY <1>6, <1>7

(* What the process still buffers is lost. *)
LEMMA FeederFailsInv == ASSUME FeedInv, FeederFails PROVE FeedInv'
<1>1. /\ FeederExits(feeder, wire) /\ UNCHANGED <<channel, decoded, served>>
      /\ feeder.run \in {"up", "headerless"}
  BY DEF FeederFails
<1>2. feeder \in [run : Runs, iFrame : Nat, encoded : Nat]
      /\ WireInv(wire, feeder.encoded) /\ JunctionInv(wire, channel)
  BY DEF FeedInv, FeederInv
<1>3. PICK n \in 0..Len(wire) : wire' = SubSeq(wire, 1, n)
  BY <1>1 DEF FeederExits
<1>4. feeder' \in [run : Runs, iFrame : Nat, encoded : Nat] /\ feeder'.run = "ended"
      /\ feeder'.encoded = feeder.encoded /\ feeder'.encoded >= feeder.encoded
  BY <1>1, <1>2 DEF FeederExits, Runs
<1>5. WireInv(wire', feeder'.encoded) /\ JunctionInv(wire', channel)
  BY <1>2, <1>3, <1>4, WireBegins
<1> QED
  BY <1>1, <1>4, <1>5, FeederStepInv

-----------------------------------------------------------------------------
(* The channel's steps. *)

(* A sequence without its first element. *)
LEMMA TailFacts ==
  ASSUME NEW S, NEW w \in Seq(S), w # <<>>
  PROVE  /\ Len(w) \in Nat \ {0} /\ w[1] \in S /\ Head(w) = w[1]
         /\ Tail(w) \in Seq(S) /\ Len(Tail(w)) = Len(w) - 1
         /\ \A i \in 1..Len(w) - 1 : Tail(w)[i] = w[i + 1]
OBVIOUS

(* The wire without its first packet. *)
LEMMA WireTail ==
  ASSUME NEW w, NEW e, WireInv(w, e), w # <<>>
  PROVE  /\ w[1] \in Item /\ Head(w) = w[1] /\ WireInv(Tail(w), e)
         /\ Tail(w) # <<>> => ComesAfter(w[1], Tail(w)[1]) /\ LastOf(Tail(w)) = LastOf(w)
         /\ Tail(w) = <<>> => LastOf(w) = w[1]
<1>1. w \in Seq(Item)
  BY DEF WireInv
<1> DEFINE t == Tail(w)
<1>2. /\ Len(w) \in Nat \ {0} /\ w[1] \in Item /\ Head(w) = w[1]
      /\ t \in Seq(Item) /\ Len(t) = Len(w) - 1
      /\ \A i \in 1..Len(w) - 1 : t[i] = w[i + 1]
  BY <1>1, TailFacts
<1> HIDE DEF t
<1>3. WireInv(t, e)
  <2>1. ASSUME NEW i \in 1..Len(t) - 1 PROVE ComesAfter(t[i], t[i + 1])
    <3>1. i \in 1..Len(w) - 1 /\ i + 1 \in 1..Len(w) - 1 /\ (i + 1) \in 1..Len(w) - 1
      BY <1>2
    <3>2. t[i] = w[i + 1] /\ t[i + 1] = w[(i + 1) + 1]
      BY <1>2, <3>1
    <3>3. ComesAfter(w[i + 1], w[(i + 1) + 1])
      BY <3>1 DEF WireInv
    <3> QED BY <3>2, <3>3
  <2>2. ASSUME NEW i \in 1..Len(t), IsPayload(t[i])
        PROVE  t[i].frame <= e /\ (t[i].frame = 0 => t[i].part = 1 /\ t[i].size = 1)
    <3>1. t[i] = w[i + 1] /\ i + 1 \in 1..Len(w)
      BY <1>2
    <3> QED BY <2>2, <3>1 DEF WireInv
  <2> QED BY <1>2, <2>1, <2>2 DEF WireInv
<1>4. ASSUME t # <<>> PROVE ComesAfter(w[1], t[1]) /\ LastOf(t) = LastOf(w)
  <2>1. Len(t) # 0 /\ Len(t) \in Nat
    BY <1>2, <1>4
  <2>2. 1 \in 1..Len(w) - 1 /\ Len(w) - 1 \in 1..Len(w) - 1 /\ (Len(w) - 1) + 1 = Len(w)
    BY <1>2, <2>1
  <2>3. t[1] = w[1 + 1] /\ t[Len(t)] = w[Len(w)]
    BY <1>2, <2>2
  <2>4. ComesAfter(w[1], w[1 + 1])
    BY <2>2 DEF WireInv
  <2> QED BY <2>3, <2>4 DEF LastOf
<1>5. ASSUME t = <<>> PROVE LastOf(w) = w[1]
  <2>1. Len(w) = 1
    BY <1>2, <1>5
  <2> QED BY <2>1 DEF LastOf
<1> QED
  BY <1>2, <1>3, <1>4, <1>5 DEF t

(* What a step of the channel leaves to show. *)
LEMMA ChannelStepInv ==
  ASSUME FeedInv, UNCHANGED feeder, wire # <<>>, wire' = Tail(wire),
         ChannelInv(channel', decoded', feeder.encoded), JunctionInv(wire', channel'),
         channel'.state # "wait", QueueInv',
         (wire' = <<>> /\ feeder.run = "up") => SentInv(wire', channel', feeder.encoded)
  PROVE  FeedInv'
<1>1. /\ WireInv(wire, feeder.encoded) /\ FeederInv
  BY DEF FeedInv
<1>2. WireInv(wire', feeder.encoded)
  BY <1>1, WireTail
<1>3. ASSUME feeder.run = "up" PROVE SentInv(wire', channel', feeder.encoded)
  <2>1. CASE wire' = <<>>
    BY <1>3, <2>1
  <2>2. CASE wire' # <<>>
    <3>1. SentInv(wire, channel, feeder.encoded)
      BY <1>1, <1>3 DEF FeederInv
    <3>2. LastOf(wire') = LastOf(wire)
      BY <1>1, <2>2, WireTail
    <3> QED BY <2>2, <3>1, <3>2 DEF SentInv
  <2> QED BY <2>1, <2>2
<1>4. feeder.run \in {"up", "ended"}
  BY <1>1 DEF FeederInv
<1>5. FeederInv'
  BY <1>1, <1>3, <1>4 DEF FeederInv
<1> QED
  BY <1>2, <1>5 DEF FeedInv

(* An element put behind a sequence is a sequence behind it. *)
LEMMA AppendConcat ==
  ASSUME NEW S, NEW s \in Seq(S), NEW x \in S
  PROVE  Append(s, x) = s \o <<x>> /\ <<x>> \in Seq(S)
OBVIOUS

(* A payload goes behind the data. *)
LEMMA DataGrows ==
  ASSUME NEW c, NEW frames, NEW e, NEW p \in Payload, ChannelInv(c, frames, e), c.state # "wait",
         GoesOn(p, c), p.frame = 0 => p.part = 1 /\ p.size = 1
  PROVE  Drawing([c |-> [c EXCEPT !.queue = Append(@, p)], frames |-> frames], c.state, p)
<1> DEFINE d == [c EXCEPT !.queue = Append(@, p)]
           data == DataOf(c)
           more == Append(data, p)
<1>1. c \in Channel /\ Counting(frames)
  BY DEF ChannelInv
<1>2. d \in Channel /\ d.state = c.state /\ d.ahead = c.ahead /\ d.queue = Append(c.queue, p)
  BY <1>1, SMTT(30) DEF Channel
<1>3. data \in Seq(Payload)
  BY <1>1, ConcatChain DEF DataOf, Channel
<1>4. DataOf(d) = more
  <2> DEFINE a == c.ahead
             q == c.queue
  <2>1. a \in Seq(Payload) /\ q \in Seq(Payload) /\ DataOf(c) = a \o q /\ DataOf(d) = a \o Append(q, p)
    BY <1>1, <1>2 DEF Channel, DataOf
  <2> HIDE DEF a, q, d
  <2>0. (a \o q) \in Seq(Payload)
    BY <2>1, ConcatChain
  <2> DEFINE b == a \o q
  <2>b. b \in Seq(Payload)
    BY <2>0
  <2> HIDE DEF b
  <2>2. Append(q, p) = q \o <<p>> /\ Append(b, p) = b \o <<p>> /\ <<p>> \in Seq(Payload)
    BY <2>1, <2>b, AppendConcat
  <2> USE DEF b
  <2>3. (a \o q) \o <<p>> = a \o (q \o <<p>>)
    BY <2>1, <2>2, ConcatAssociative
  <2> QED BY <2>1, <2>2, <2>3
<1>5. /\ more \in Seq(Payload) /\ Len(more) = Len(data) + 1 /\ Len(data) \in Nat
      /\ \A i \in 1..Len(data) : more[i] = data[i]
      /\ more[Len(data) + 1] = p
  <2> HIDE DEF data
  <2> QED BY <1>3
<1> HIDE DEF data, more
<1>6. ASSUME data = <<>> PROVE Continues(more, frames)
  <2>1. /\ Len(frames) = 0 /\ p.frame = 0 /\ p.part = 1
    BY <1>6 DEF ChannelInv, GoesOn, data, IsPayload, Payload
  <2>2. more[1] = p /\ Len(more) = 1 /\ more # <<>>
    BY <1>5, <1>6
  <2>3. Linked(more) /\ HeadersShort(more)
    BY <2>1, <2>2 DEF Linked, HeadersShort
  <2> QED BY <2>1, <2>2, <2>3 DEF Continues
<1>7. ASSUME data # <<>> PROVE Continues(more, frames)
  <2>1. Continues(data, frames) /\ Follows(LastOf(data), p)
    <3>1. p.type = "payload"
      BY DEF Payload
    <3> QED BY <1>7, <3>1 DEF ChannelInv, GoesOn, data
  <2>2. Len(data) # 0 /\ more # <<>> /\ more[1] = data[1]
    BY <1>3, <1>5, <1>7
  <2>3. Linked(more)
    <3> SUFFICES ASSUME NEW i \in 1..Len(more) - 1 PROVE Follows(more[i], more[i + 1])
      BY DEF Linked
    <3>1. CASE i = Len(data)
      <4>1. i \in 1..Len(data)
        BY <1>5, <2>2, <3>1
      <4>2. more[i] = LastOf(data) /\ more[i + 1] = p
        BY <1>5, <3>1, <4>1 DEF LastOf
      <4> QED BY <2>1, <4>2
    <3>2. CASE i # Len(data)
      <4>1. i \in 1..Len(data) - 1 /\ i \in 1..Len(data) /\ i + 1 \in 1..Len(data)
        BY <1>5, <3>2
      <4>2. more[i] = data[i] /\ more[i + 1] = data[i + 1]
        BY <1>5, <4>1
      <4> QED BY <2>1, <4>1, <4>2 DEF Continues, Linked
    <3> QED BY <3>1, <3>2
  <2>4. HeadersShort(more)
    <3> SUFFICES ASSUME NEW i \in 1..Len(more), more[i].frame = 0 PROVE more[i].part = 1 /\ more[i].size = 1
      BY DEF HeadersShort
    <3>1. CASE i = Len(data) + 1
      BY <1>5, <3>1
    <3>2. CASE i # Len(data) + 1
      <4>1. i \in 1..Len(data) /\ more[i] = data[i]
        BY <1>5, <3>2
      <4> QED BY <2>1, <4>1 DEF Continues, HeadersShort
    <3> QED BY <3>1, <3>2
  <2> QED BY <2>1, <2>2, <2>3, <2>4 DEF Continues
<1>8. Continues(more, frames) /\ more[Len(more)] = p
  BY <1>5, <1>6, <1>7
<1> DEFINE draw == [c |-> d, frames |-> frames]
<1>9. draw.c = d /\ draw.frames = frames
  OBVIOUS
<1> HIDE DEF d
<1>10. Drawing(draw, c.state, p)
  <2> HIDE DEF draw
  <2> QED BY <1>1, <1>2, <1>4, <1>8, <1>9 DEF Drawing
<1> QED
  BY <1>10 DEF d

(* Opening a feed moves payloads from the queue to libav's buffer. *)
LEMMA OpenedKeeps ==
  ASSUME NEW c \in Channel, NEW input \in OpenFeed(c)
  PROVE  input \in Channel /\ input.state = c.state /\ DataOf(input) = DataOf(c)
<1>1. PICK probe \in 1..ProbeMax : input = OpenAVIO(c, probe)
  BY DEF OpenFeed
<1> DEFINE ends == {n \in 0..Len(c.queue) :
                      Len(ReadPacket(c, n).ahead) >= probe \/ ReadPacket(c, n).queue = <<>>}
           n == CHOOSE n \in ends : \A m \in ends : n <= m
<1>2. input = ReadPacket(c, n)
  BY <1>1 DEF OpenAVIO, ReadUntil
<1>3. Len(c.queue) \in ends /\ ends \subseteq Nat
  <2>1. Len(c.queue) \in Nat
    BY DEF Channel
  <2> QED BY <2>1, AllRead
<1> HIDE DEF ends
<1>4. Min(ends) \in ends /\ \A m \in ends : Min(ends) <= m
  BY <1>3, LeastNumber
<1>5. n \in Nat
  BY <1>3, <1>4
<1> HIDE DEF n
<1> QED
  BY <1>2, <1>5, ReadPacketFacts DEF Reads

(* What the loop keeps is about the channel's data. *)
LEMMA DrawingMoves ==
  ASSUME NEW c, NEW frames, NEW state, NEW last,
         Drawing([c |-> c, frames |-> frames], state, last),
         NEW d \in Channel, DataOf(d) = DataOf(c)
  PROVE  Drawing([c |-> d, frames |-> frames], d.state, last)
<1> DEFINE x == [c |-> c, frames |-> frames]
           y == [c |-> d, frames |-> frames]
<1>1. x.c = c /\ x.frames = frames /\ y.c = d /\ y.frames = frames /\ Drawing(x, state, last)
  OBVIOUS
<1> HIDE DEF x, y
<1>2. Drawing(y, d.state, last)
  BY <1>1 DEF Drawing
<1> QED
  BY <1>2 DEF y

(* What a packet leaves to show, when it was a payload. *)
LEMMA PayloadStepInv ==
  ASSUME FeedInv, UNCHANGED feeder, wire # <<>>, wire' = Tail(wire), wire[1] \in Payload,
         NEW draw, Drawing(draw, draw.c.state, wire[1]), draw.c.state # "wait",
         channel' = draw.c, decoded' = draw.frames, QueueInv'
  PROVE  FeedInv'
<1> DEFINE p == wire[1]
           e == feeder.encoded
           data == DataOf(channel')
<1>1. WireInv(wire, e) /\ p.type = "payload"
  BY DEF FeedInv, Payload
<1>2. /\ channel' \in Channel /\ Counting(decoded') /\ Continues(data, decoded')
      /\ data # <<>> /\ LastOf(data) = p
  BY DEF Drawing, Continues, LastOf
<1>3. p.frame <= e
  <2>1. 1 \in 1..Len(wire)
    BY <1>1, TailFacts DEF WireInv
  <2> QED BY <1>1, <2>1 DEF WireInv, IsPayload
<1>4. ChannelInv(channel', decoded', e)
  BY <1>2, <1>3 DEF ChannelInv
<1>5. wire' # <<>> => ComesAfter(p, wire'[1])
  BY <1>1, WireTail
<1>6. JunctionInv(wire', channel')
  BY <1>1, <1>2, <1>5 DEF JunctionInv, GoesOn, ComesAfter
<1>7. ASSUME wire' = <<>>, feeder.run = "up" PROVE SentInv(wire', channel', e)
  <2>1. LastOf(wire) = p
    BY <1>1, <1>7, WireTail
  <2>2. SentInv(wire, channel, e)
    BY <1>7 DEF FeedInv, FeederInv
  <2>3. Ends(p, e)
    BY <1>1, <2>1, <2>2 DEF SentInv
  <2> QED BY <1>2, <1>7, <2>3 DEF SentInv
<1> QED
  BY <1>4, <1>6, <1>7, ChannelStepInv


(* After a payload libav is asked for frames that it holds entirely. *)
LEMMA PayloadInv ==
  ASSUME FeedInv, UNCHANGED feeder, wire # <<>>, wire' = Tail(wire), wire[1] \in Payload,
         served = "yes", channel.state \in {"open", "streaming"},
         HandleFeedData([channel EXCEPT !.queue = Append(@, wire[1])])
  PROVE  FeedInv'
<1> DEFINE p == wire[1]
           c == [channel EXCEPT !.queue = Append(@, p)]
           state == channel.state
<1>1. /\ WireInv(wire, feeder.encoded) /\ JunctionInv(wire, channel) /\ QueueInv
      /\ ChannelInv(channel, decoded, feeder.encoded) /\ channel \in Channel
  BY DEF FeedInv, ChannelInv
<1>2. p \in Payload /\ GoesOn(p, channel) /\ (p.frame = 0 => p.part = 1 /\ p.size = 1)
  <2>1. 1 \in 1..Len(wire) /\ p.type = "payload"
    BY <1>1, TailFacts DEF WireInv, Payload
  <2> QED BY <1>1, <2>1 DEF WireInv, IsPayload, JunctionInv
<1>3. Drawing([c |-> c, frames |-> decoded], state, p)
  BY <1>1, <1>2, DataGrows
<1>4. c \in Channel /\ c.state = state
  <2> HIDE DEF p
  <2>1. channel \in Channel /\ p \in Payload
    BY <1>1, <1>2
  <2>2. Append(channel.queue, p) \in Seq(Payload)
    BY <2>1 DEF Channel
  <2> DEFINE more == Append(channel.queue, p)
  <2> HIDE DEF more
  <2>3. c = [channel EXCEPT !.queue = more] /\ more \in Seq(Payload)
    BY <2>1, <2>2 DEF Channel, more
  <2> HIDE DEF c
  <2> QED BY <2>1, <2>3 DEF Channel
<1>6. HandleFeedData(c)
  OBVIOUS
<1> HIDE DEF c
<1>7. ASSUME NEW s \in Channel, DataOf(s) = DataOf(c), s.state = "streaming",
             channel' = DrawFrames(s, decoded).c, decoded' = DrawFrames(s, decoded).frames, UNCHANGED served
      PROVE  FeedInv'
  <2> DEFINE d == DrawFrames(s, decoded)
  <2>1. Drawing([c |-> s, frames |-> decoded], "streaming", p)
    BY <1>3, <1>7, DrawingMoves
  <2>2. Drawing(d, "streaming", p) /\ Len(d.c.queue) <= DrawAt
    BY <2>1, DrawFramesKeeps
  <2> HIDE DEF d
  <2>3. d.c.state = "streaming" /\ channel' = d.c /\ decoded' = d.frames
    BY <1>7, <2>2 DEF Drawing, d
  <2>4. QueueInv'
    BY <1>7, <2>2, <2>3, <1>1 DEF QueueInv
  <2> QED BY <1>2, <2>2, <2>3, <2>4, PayloadStepInv
<1>8. ASSUME NEW s \in Channel, DataOf(s) = DataOf(c), s.state = "open",
             channel' = s, UNCHANGED decoded, served' # "queue_full",
             served' # "yes" \/ Len(s.queue) <= StartAt
      PROVE  FeedInv'
  <2> DEFINE d == [c |-> s, frames |-> decoded]
  <2>1. Drawing(d, d.c.state, p)
    BY <1>3, <1>8, DrawingMoves
  <2>2. d.c = s /\ d.frames = decoded
    OBVIOUS
  <2> HIDE DEF d
  <2>3. QueueInv'
    BY <1>8 DEF QueueInv
  <2> QED BY <1>2, <1>8, <2>1, <2>2, <2>3, PayloadStepInv
<1>9. CASE c.state = "streaming"
  <2>1. /\ channel' = DrawFrames(c, decoded).c /\ decoded' = DrawFrames(c, decoded).frames
        /\ UNCHANGED served
    BY <1>6, <1>9 DEF HandleFeedData
  <2> QED BY <1>4, <1>7, <1>9, <2>1
<1>10. CASE c.state = "open" /\ Len(c.queue) <= StartAt
  <2>1. channel' = c /\ UNCHANGED <<decoded, served>>
    BY <1>6, <1>10 DEF HandleFeedData
  <2>2. served' # "queue_full"
    BY <2>1
  <2> QED BY <1>4, <1>8, <1>10, <2>1, <2>2
<1>11. CASE c.state = "open" /\ ~(Len(c.queue) <= StartAt)
  <2>1. \/ served' = "feed_not_opened" /\ channel' = c /\ UNCHANGED decoded
        \/ \E input \in OpenFeed(c) :
             \/ served' = "no_video" /\ channel' = input /\ UNCHANGED decoded
             \/ /\ channel' = DrawFrames(OpenVideoStream(input), decoded).c
                /\ decoded' = DrawFrames(OpenVideoStream(input), decoded).frames
                /\ UNCHANGED served
    BY <1>6, <1>11 DEF HandleFeedData
  <2>2. CASE served' = "feed_not_opened" /\ channel' = c /\ UNCHANGED decoded
    BY <1>4, <1>8, <1>11, <2>2
  <2>3. ASSUME NEW input \in OpenFeed(c),
               \/ served' = "no_video" /\ channel' = input /\ UNCHANGED decoded
               \/ /\ channel' = DrawFrames(OpenVideoStream(input), decoded).c
                  /\ decoded' = DrawFrames(OpenVideoStream(input), decoded).frames
                  /\ UNCHANGED served
        PROVE  FeedInv'
    <3>1. input \in Channel /\ input.state = "open" /\ DataOf(input) = DataOf(c)
      BY <1>4, <1>11, OpenedKeeps
    <3>2. CASE served' = "no_video" /\ channel' = input /\ UNCHANGED decoded
      BY <1>8, <3>1, <3>2
    <3> DEFINE s == OpenVideoStream(input)
    <3>3. s \in Channel /\ s.state = "streaming" /\ DataOf(s) = DataOf(c)
      BY <3>1 DEF OpenVideoStream, Channel, DataOf
    <3>4. CASE /\ channel' = DrawFrames(s, decoded).c
               /\ decoded' = DrawFrames(s, decoded).frames
               /\ UNCHANGED served
      <4> HIDE DEF s
      <4> QED BY <1>7, <3>3, <3>4
    <3> QED BY <2>3, <3>2, <3>4
  <2> QED BY <2>1, <2>2, <2>3
<1> QED
  BY <1>4, <1>9, <1>10, <1>11


(* The greeting changes nothing, the command opens the channel. *)
LEMMA CommandInv ==
  ASSUME FeedInv, UNCHANGED <<feeder, decoded, served>>, wire # <<>>, wire' = Tail(wire),
         wire[1].type \in {"hello", "new_feed"}, served = "yes", channel.state # "left",
         channel' = [channel EXCEPT !.state = IF wire[1].type = "new_feed" /\ @ = "wait" THEN "open" ELSE @]
  PROVE  FeedInv'
<1> DEFINE p == wire[1]
           e == feeder.encoded
           data == DataOf(channel)
<1>1. /\ WireInv(wire, e) /\ QueueInv /\ channel \in Channel
      /\ ChannelInv(channel, decoded, e) /\ GoesOn(p, channel)
  BY DEF FeedInv, ChannelInv, JunctionInv
<1>2. wire' # <<>> => ComesAfter(p, wire'[1])
  BY <1>1, WireTail
<1>3. wire' = <<>> => LastOf(wire) = p
  BY <1>1, WireTail
<1>4. feeder.run = "up" => SentInv(wire, channel, e)
  BY DEF FeedInv, FeederInv
<1>5. /\ channel' \in Channel /\ DataOf(channel') = data /\ channel'.queue = channel.queue
      /\ channel'.ahead = channel.ahead
      /\ channel'.state = IF p.type = "new_feed" /\ channel.state = "wait" THEN "open" ELSE channel.state
  BY <1>1 DEF Channel, DataOf
<1>6. CASE p.type = "new_feed"
  <2>1. data = <<>> /\ channel.state = "wait" /\ Len(decoded) = 0
    BY <1>1, <1>6 DEF GoesOn, ChannelInv, IsPayload
  <2>2. channel'.state = "open"
    BY <1>5, <1>6, <2>1
  <2>3. ChannelInv(channel', decoded', e)
    BY <1>1, <1>5, <2>1, <2>2 DEF ChannelInv
  <2>4. JunctionInv(wire', channel')
    BY <1>2, <1>5, <1>6, <2>1, <2>2 DEF JunctionInv, GoesOn, ComesAfter
  <2>5. QueueInv'
    BY <1>1, <1>5, <2>1, <2>2 DEF QueueInv
  <2>6. ~(wire' = <<>> /\ feeder.run = "up")
    BY <1>3, <1>4, <1>6 DEF SentInv, IsPayload
  <2> QED BY <2>2, <2>3, <2>4, <2>5, <2>6, ChannelStepInv
<1>7. CASE p.type = "hello"
  <2>1. data # <<>> /\ LastOf(data).frame = 0
    BY <1>1, <1>7 DEF GoesOn, IsPayload
  <2>2. channel'.state = channel.state /\ channel.state # "wait"
    BY <1>1, <1>5, <1>7, <2>1 DEF ChannelInv
  <2>3. Continues(data, decoded)
    BY <1>1, <2>1 DEF ChannelInv
  <2>4. LastOf(data).part = 1 /\ LastOf(data).size = 1
    <3>1. data \in Seq(Payload)
      BY <1>1, ConcatChain DEF DataOf, Channel
    <3> HIDE DEF data
    <3>2. Len(data) \in 1..Len(data)
      BY <2>1, <3>1
    <3> QED BY <2>1, <2>3, <3>2 DEF Continues, HeadersShort, LastOf
  <2>5. ChannelInv(channel', decoded', e)
    BY <1>1, <1>5, <2>2 DEF ChannelInv
  <2>6. JunctionInv(wire', channel')
    BY <1>2, <1>5, <1>7, <2>1, <2>4 DEF JunctionInv, GoesOn, ComesAfter, Follows
  <2>7. QueueInv'
    BY <1>1, <1>5, <2>2 DEF QueueInv
  <2>8. (wire' = <<>> /\ feeder.run = "up") => SentInv(wire', channel', e)
    <3> SUFFICES ASSUME wire' = <<>>, feeder.run = "up" PROVE SentInv(wire', channel', e)
      OBVIOUS
    <3>1. e = 0
      BY <1>3, <1>4, <1>7 DEF SentInv, IsPayload
    <3>2. Ends(LastOf(data), e)
      BY <2>1, <2>4, <3>1 DEF Ends
    <3> QED BY <1>5, <2>1, <3>2 DEF SentInv
  <2> QED BY <2>2, <2>5, <2>6, <2>7, <2>8, ChannelStepInv
<1> QED
  BY <1>6, <1>7

(* A packet that the server reads. *)
LEMMA ChannelPacketInv == ASSUME FeedInv, ChannelPacket PROVE FeedInv' \/ FullInv'
<1>1. /\ wire # <<>> /\ served = "yes" /\ channel.state # "left" /\ wire' = Tail(wire) /\ UNCHANGED feeder
  BY DEF ChannelPacket
<1>2. /\ WireInv(wire, feeder.encoded) /\ channel \in Channel /\ GoesOn(wire[1], channel)
      /\ ChannelInv(channel, decoded, feeder.encoded)
  BY <1>1 DEF FeedInv, ChannelInv, JunctionInv
<1>3. wire[1] \in Item /\ Head(wire) = wire[1]
  BY <1>1, <1>2, WireTail
<1>4. wire[1].type \in {"payload", "hello", "new_feed"}
  BY <1>3 DEF Item, Payload, Command
<1>5. CASE wire[1].type = "hello"
  <2>1. UNCHANGED <<channel, decoded, served>>
    BY <1>3, <1>5 DEF ChannelPacket
  <2>2. channel' = [channel EXCEPT !.state = IF wire[1].type = "new_feed" /\ @ = "wait" THEN "open" ELSE @]
    BY <1>2, <1>5, <2>1 DEF Channel
  <2> QED BY <1>1, <1>5, <2>1, <2>2, CommandInv
<1>6. CASE wire[1].type = "new_feed"
  <2>1. channel' = [channel EXCEPT !.state = IF @ = "wait" THEN "open" ELSE @] /\ UNCHANGED <<decoded, served>>
    BY <1>3, <1>6 DEF ChannelPacket
  <2>2. channel' = [channel EXCEPT !.state = IF wire[1].type = "new_feed" /\ @ = "wait" THEN "open" ELSE @]
    BY <1>6, <2>1
  <2> QED BY <1>1, <1>6, <2>1, <2>2, CommandInv
<1>7. CASE wire[1].type = "payload"
  <2>1. channel.state # "wait"
    BY <1>2, <1>7 DEF GoesOn, ChannelInv
  <2>2. channel.state \in {"open", "streaming"}
    BY <1>1, <1>2, <2>1 DEF Channel
  <2>3. QueuePacket(wire[1])
    BY <1>3, <1>7, <2>1 DEF ChannelPacket
  <2>4. wire[1] \in Payload
    BY <1>3, <1>7, PayloadItems DEF IsPayload
  <2>5. CASE HandleFeedData([channel EXCEPT !.queue = Append(@, wire[1])])
    BY <1>1, <2>2, <2>4, <2>5, PayloadInv
  <2>6. CASE served' = "queue_full" /\ UNCHANGED <<channel, decoded>>
    <3>1. feeder \in [run : {"up", "ended"}, iFrame : Nat, encoded : Nat]
      BY <1>1 DEF FeedInv, FeederInv
    <3>2. FeedWhole'
      BY <1>1, <2>6, FeedInvWhole DEF FeedWhole
    <3> QED BY <1>1, <2>6, <3>1, <3>2 DEF FullInv
  <2> QED BY <2>3, <2>5, <2>6, Zenon DEF QueuePacket
<1> QED
  BY <1>4, <1>5, <1>6, <1>7

(* The picture goes with the feed. *)
LEMMA FeedDownInv == ASSUME FeedInv, FeedDown PROVE FeedInv'
<1>1. /\ feeder.run = "ended" /\ wire = <<>> /\ UNCHANGED <<feeder, wire, decoded, served>>
      /\ channel' = [channel EXCEPT !.state = "left"]
  BY DEF FeedDown
<1>2. /\ ChannelInv(channel, decoded, feeder.encoded) /\ channel \in Channel /\ QueueInv /\ FeederInv
      /\ WireInv(wire, feeder.encoded)
  BY DEF FeedInv, ChannelInv
<1>3. /\ channel' \in Channel /\ channel'.state = "left" /\ DataOf(channel') = DataOf(channel)
  BY <1>1, <1>2 DEF Channel, DataOf
<1>4. ChannelInv(channel', decoded', feeder'.encoded)
  BY <1>1, <1>2, <1>3 DEF ChannelInv
<1>5. QueueInv' /\ FeederInv'
  BY <1>1, <1>2, <1>3 DEF QueueInv, FeederInv
<1>6. WireInv(wire', feeder'.encoded) /\ JunctionInv(wire', channel')
  BY <1>1, <1>2 DEF JunctionInv
<1> QED
  BY <1>4, <1>5, <1>6 DEF FeedInv

(* The feeder goes on alone when the server is gone. *)
LEMMA FullInvKept == ASSUME FullInv, FeedNext PROVE FullInv'
<1>1. /\ feeder \in [run : {"up", "ended"}, iFrame : Nat, encoded : Nat]
      /\ served = "queue_full" /\ FeedWhole
  BY DEF FullInv
<1>2. SUFFICES ASSUME feeder' \in [run : {"up", "ended"}, iFrame : Nat, encoded : Nat],
                      feeder'.encoded >= feeder.encoded, UNCHANGED <<channel, decoded, served>>
               PROVE  FullInv'
  <2>1. ~FeederStarts
    BY <1>1 DEF FeederStarts, StartStep, OpenWebcam, FindVideoStream, OpenDecoder, CreateMuxer, OpenEncoder,
                CreatePicture, FeederConnects
  <2>2. CASE FeederTimer
    <3>1. PICK sizes \in CameraPackets : feeder' = Grabbed(sizes) \/ feeder' = [Grabbed(sizes) EXCEPT !.run = "ended"]
      BY <2>2 DEF FeederTimer, FeederExits
    <3>2. Len(sizes) \in Nat
      BY DEF CameraPackets
    <3> DEFINE x == feeder.iFrame + 2 * Len(sizes)
               y == feeder.encoded + Len(sizes)
    <3>3. x \in Nat /\ y \in Nat /\ y >= feeder.encoded
      <4> DEFINE l == Len(sizes)
      <4>1. l \in Nat /\ feeder.iFrame \in Nat /\ feeder.encoded \in Nat
        BY <1>1, <3>2
      <4> HIDE DEF l
      <4> QED BY <4>1 DEF l
    <3>4. Grabbed(sizes) = [feeder EXCEPT !.iFrame = x, !.encoded = y]
      BY DEF Grabbed
    <3> HIDE DEF x, y
    <3>5. /\ Grabbed(sizes) \in [run : {"up", "ended"}, iFrame : Nat, encoded : Nat]
          /\ Grabbed(sizes).encoded = y
      BY <1>1, <3>3, <3>4
    <3> DEFINE g == Grabbed(sizes)
    <3>6. UNCHANGED <<channel, decoded, served>>
      BY <2>2 DEF FeederTimer
    <3> HIDE DEF g
    <3>7. feeder' \in [run : {"up", "ended"}, iFrame : Nat, encoded : Nat] /\ feeder'.encoded = y
      BY <3>1, <3>5 DEF g
    <3> QED BY <1>2, <3>3, <3>6, <3>7
  <2>3. CASE FeederFails
    <3>1. feeder' = [feeder EXCEPT !.run = "ended"] /\ UNCHANGED <<channel, decoded, served>>
      BY <2>3 DEF FeederFails, FeederExits
    <3> QED BY <1>1, <1>2, <3>1
  <2>4. ~ChannelPacket /\ ~FeedDown
    BY <1>1 DEF ChannelPacket, FeedDown
  <2> QED BY <2>1, <2>2, <2>3, <2>4 DEF FeedNext
<1>3. Len(decoded) <= feeder'.encoded
  BY <1>1, <1>2 DEF FeedWhole
<1> QED
  BY <1>1, <1>2, <1>3 DEF FullInv, FeedWhole

(* Every step of the feed keeps the invariant. *)
LEMMA FeedNextInv == ASSUME FeedInv \/ FullInv, FeedNext PROVE FeedInv' \/ FullInv'
BY FeederStartsInv, FeederTimerInv, FeederFailsInv, ChannelPacketInv, FeedDownInv, FullInvKept DEF FeedNext


-----------------------------------------------------------------------------
(* The pace of a scene. *)

PaceType ==
  /\ clock \in Nat /\ scene \in [start : {FrameTime}, next : Nat, iFrame : Nat]
  /\ encoder \in [pts : Int, taken : Nat]

PaceInv == PaceType /\ scene.next = FrameTime - 2 + FrameTime * scene.iFrame /\ OnPace

(* A frame's pts is that of its time, to the nearest frame. *)
LEMMA RescaleFacts ==
  ASSUME NEW ms \in Int, ms >= -2
  PROVE  /\ Rescale(ms) \in Nat /\ 40 * Rescale(ms) <= ms + 20
         /\ \A i \in Nat : 40 * i - 2 <= ms /\ ms < 40 * i + 18 => Rescale(ms) = i
<1>1. CASE ms >= 0
  <2> DEFINE x == 2 * ms + 40
             k == x \div 80
  <2>1. x \in Nat /\ Rescale(ms) = k
    BY <1>1 DEF Rescale, FrameTime
  <2>2. k \in Nat /\ x % 80 \in 0..79 /\ x = 80 * k + (x % 80)
    BY <2>1, DivMod
  <2> DEFINE r == x % 80
  <2>3. r \in 0..79 /\ 2 * ms + 40 = 80 * k + r
    BY <2>2
  <2> HIDE DEF r, k, x
  <2>4. 40 * k <= ms + 20
    BY <1>1, <2>2, <2>3
  <2>5. ASSUME NEW i \in Nat, 40 * i - 2 <= ms, ms < 40 * i + 18 PROVE k = i
    BY <1>1, <2>2, <2>3, <2>5
  <2> QED BY <2>1, <2>2, <2>4, <2>5
<1>2. CASE ms < 0
  <2>1. ms = -1 \/ ms = -2
    BY <1>2
  <2>2. Rescale(ms) = 0
    <3>1. (40 - 2 * ms) \in {42, 44} /\ Rescale(ms) = -((40 - 2 * ms) \div 80)
      BY <1>2, <2>1 DEF Rescale, FrameTime
    <3>2. 42 \div 80 = 0 /\ 44 \div 80 = 0
      OBVIOUS
    <3> QED BY <3>1, <3>2
  <2>3. \A i \in Nat : 40 * i - 2 <= ms => i = 0
    BY <2>1
  <2> QED BY <2>1, <2>2, <2>3
<1> QED
  BY <1>1, <1>2

(* A scene begins before its first frame is due. *)
LEMMA PaceInitInv == ASSUME PaceInit PROVE PaceInv
<1>1. /\ clock = 0 /\ scene = [start |-> 40, next |-> 38, iFrame |-> 0]
      /\ encoder = [pts |-> -1, taken |-> 0]
  BY DEF PaceInit, FrameTime
<1>2. PaceType
  BY <1>1 DEF PaceType, FrameTime
<1>3. scene.iFrame = 0 /\ scene.next = 38 /\ scene.start = 40 /\ encoder.pts = -1 /\ encoder.taken = 0
  BY <1>1
<1>4. OnPace
  <2>1. FrameTime * scene.iFrame <= clock + 2 /\ encoder.taken = scene.iFrame
        /\ encoder.pts = scene.iFrame - 1 /\ scene.next > clock /\ encoder.taken <= encoder.pts + 1
    BY <1>1, <1>3 DEF FrameTime
  <2>2. FrameTime * encoder.pts <= clock - scene.start + FrameTime \div 2
    <3>1. 40 \div 2 = 20
      OBVIOUS
    <3> QED BY <1>1, <1>3, <3>1 DEF FrameTime
  <2> QED BY <2>1, <2>2 DEF OnPace
<1> QED
  BY <1>2, <1>3, <1>4 DEF PaceInv, FrameTime

(* A frame is emitted when it is due, and each only once. *)
LEMMA PaceNextInv == ASSUME PaceInv, PaceNext PROVE PaceInv'
<1> PICK gap \in Gaps : SceneTimer(gap)
  BY DEF PaceNext
<1> DEFINE i == scene.iFrame
           pts == encoder.pts
           taken == encoder.taken
           ms == clock' - scene.start
<1>1. /\ gap \in Nat /\ clock \in Nat /\ i \in Nat /\ pts \in Int /\ taken \in Nat
      /\ scene.start = 40 /\ scene.next = 38 + 40 * i
      /\ scene \in [start : {FrameTime}, next : Nat, iFrame : Nat]
      /\ encoder \in [pts : Int, taken : Nat]
  BY GapsAssumption DEF PaceInv, PaceType, FrameTime
<1>2. 40 \div 2 = 20
  OBVIOUS
<1>3. /\ 40 * i <= clock + 2 /\ taken <= pts + 1 /\ 40 * pts <= clock - 40 + 20
      /\ ~late => (taken = i /\ pts = i - 1 /\ 38 + 40 * i > clock)
  BY <1>1, <1>2 DEF PaceInv, OnPace, FrameTime
<1>4. clock' = clock + gap /\ clock' \in Nat /\ clock' >= clock
  BY <1>1 DEF SceneTimer
<1>5. ~late' => (~late /\ ~(2 * gap > FrameTime))
  <2>1. late' = (late \/ 2 * gap > FrameTime)
    BY DEF SceneTimer
  <2> QED BY <2>1, Zenon
<1>6. ~late' => 2 * gap <= 40
  BY <1>1, <1>5 DEF FrameTime
<1>7. CASE ~(clock' >= scene.next)
  <2>1. UNCHANGED <<scene, encoder>>
    BY <1>7 DEF SceneTimer
  <2>2. PaceType'
    BY <1>1, <1>4, <2>1 DEF PaceType
  <2>3. /\ 40 * i <= clock' + 2 /\ 40 * pts <= clock' - 40 + 20
        /\ ~late' => (taken = i /\ pts = i - 1 /\ 38 + 40 * i > clock')
    BY <1>1, <1>3, <1>4, <1>5, <1>7
  <2>4. OnPace'
    BY <1>1, <1>2, <1>3, <2>1, <2>3 DEF OnPace, FrameTime
  <2> QED BY <1>1, <2>1, <2>2, <2>4 DEF PaceInv, FrameTime
<1>8. CASE clock' >= scene.next
  <2> DEFINE k == Rescale(ms)
  <2>1. /\ scene' = [scene EXCEPT !.next = @ + 40, !.iFrame = @ + 1]
        /\ encoder' = IF k > pts THEN [pts |-> k, taken |-> taken + 1] ELSE encoder
    BY <1>8 DEF SceneTimer, FrameDue, EmitFrame, FrameTime
  <2>2. ms \in Int /\ ms >= -2 /\ ms = clock' - 40
    BY <1>1, <1>4, <1>8
  <2>3. /\ k \in Nat /\ 40 * k <= clock' - 40 + 20
        /\ \A j \in Nat : 40 * j - 2 <= ms /\ ms < 40 * j + 18 => k = j
    <3> HIDE DEF ms
    <3>1. /\ Rescale(ms) \in Nat /\ 40 * Rescale(ms) <= ms + 20
          /\ \A j \in Nat : 40 * j - 2 <= ms /\ ms < 40 * j + 18 => Rescale(ms) = j
      BY <2>2, RescaleFacts
    <3> QED BY <1>4, <2>2, <3>1
  <2>4. ~late' => (k = i /\ taken = i /\ pts = i - 1 /\ clock' < 58 + 40 * i)
    <3> SUFFICES ASSUME ~late' PROVE k = i /\ taken = i /\ pts = i - 1 /\ clock' < 58 + 40 * i
      OBVIOUS
    <3>1. taken = i /\ pts = i - 1 /\ 38 + 40 * i > clock /\ 2 * gap <= 40
      BY <1>3, <1>5, <1>6
    <3>2. clock' < 58 + 40 * i /\ clock' >= 38 + 40 * i
      BY <1>1, <1>4, <1>8, <3>1
    <3>3. 40 * i - 2 <= ms /\ ms < 40 * i + 18
      BY <1>1, <1>4, <2>2, <3>2
    <3> QED BY <1>1, <2>3, <3>1, <3>2, <3>3
  <2> HIDE DEF k
  <2>5. /\ scene' \in [start : {FrameTime}, next : Nat, iFrame : Nat]
        /\ scene'.start = 40 /\ scene'.iFrame = i + 1 /\ scene'.next = 78 + 40 * i
    <3>1. scene'.start = 40 /\ scene'.iFrame = i + 1 /\ scene'.next = (38 + 40 * i) + 40
      BY <1>1, <2>1
    <3>2. (38 + 40 * i) + 40 = 78 + 40 * i /\ 78 + 40 * i \in Nat /\ i + 1 \in Nat
      BY <1>1
    <3>3. scene' \in [start : {FrameTime}, next : Nat, iFrame : Nat]
      BY <1>1, <2>1, <3>2
    <3> QED BY <3>1, <3>2, <3>3
  <2>6. encoder' \in [pts : Int, taken : Nat]
    BY <1>1, <2>1, <2>3
  <2>7. /\ encoder'.taken <= encoder'.pts + 1
        /\ 40 * encoder'.pts <= clock' - 40 + 20
        /\ k > pts => (encoder'.taken = taken + 1 /\ encoder'.pts = k)
    <3>1. CASE k > pts
      <4>1. encoder'.taken = taken + 1 /\ encoder'.pts = k
        BY <2>1, <3>1
      <4> QED BY <1>1, <1>3, <2>3, <3>1, <4>1
    <3>2. CASE ~(k > pts)
      <4>1. encoder'.taken = taken /\ encoder'.pts = pts
        BY <2>1, <3>2
      <4> QED BY <1>1, <1>3, <1>4, <3>2, <4>1
    <3> QED BY <3>1, <3>2
  <2>8. 40 * (i + 1) <= clock' + 2
    BY <1>1, <1>4, <1>8
  <2>9. ~late' => (encoder'.taken = i + 1 /\ encoder'.pts = i /\ 78 + 40 * i > clock')
    BY <1>1, <1>4, <2>4, <2>7
  <2>10. OnPace'
    <3>1. encoder'.pts \in Int /\ encoder'.taken \in Nat /\ (i + 1) - 1 = i
      BY <1>1, <2>6
    <3> QED BY <1>2, <2>5, <2>7, <2>8, <2>9, <3>1 DEF OnPace, FrameTime
  <2>11. scene'.next = FrameTime - 2 + FrameTime * scene'.iFrame
    BY <1>1, <2>5 DEF FrameTime
  <2> QED BY <1>4, <2>5, <2>6, <2>10, <2>11 DEF PaceInv, PaceType
<1> QED
  BY <1>7, <1>8

(* The frames that a channel gives are the feeder's, whole and in order,   *)
(* whichever way the data come, the feeder ends and the pool ends the      *)
(* server, its queue never holds more than the threshold, and a scene      *)
(* emits its frames in time (avc_channel.cpp:140-226,                      *)
(* avc_scene.cpp:331-341).                                                 *)
THEOREM FeedIsSound == FeedSpec => []FeedSound
<1> DEFINE Inv == (FeedInv \/ FullInv) /\ PaceInv
<1>1. FeedInit /\ PaceInit => Inv
  BY FeedInitInv, PaceInitInv
<1>2. Inv /\ [(FeedNext /\ UNCHANGED pace_vars) \/ (PaceNext /\ UNCHANGED feed_vars)]_<<feed_vars, pace_vars>> => Inv'
  <2> SUFFICES ASSUME Inv,
                      [(FeedNext /\ UNCHANGED pace_vars) \/ (PaceNext /\ UNCHANGED feed_vars)]_<<feed_vars, pace_vars>>
               PROVE  Inv'
    OBVIOUS
  <2>1. ASSUME UNCHANGED pace_vars PROVE PaceInv'
    BY <2>1 DEF pace_vars, PaceInv, PaceType, OnPace
  <2>2. ASSUME UNCHANGED feed_vars PROVE FeedInv' \/ FullInv'
    <3>1. FeedInv => FeedInv'
      BY <2>2 DEF feed_vars, FeedInv, FeederInv, QueueInv
    <3>2. FullInv => FullInv'
      BY <2>2 DEF feed_vars, FullInv, FeedWhole
    <3> QED BY <3>1, <3>2
  <2>3. CASE FeedNext /\ UNCHANGED pace_vars
    BY <2>1, <2>3, FeedNextInv
  <2>4. CASE PaceNext /\ UNCHANGED feed_vars
    BY <2>2, <2>4, PaceNextInv
  <2>5. CASE UNCHANGED <<feed_vars, pace_vars>>
    BY <2>1, <2>2, <2>5
  <2> QED BY <2>3, <2>4, <2>5
<1>3. Inv => FeedSound
  BY FeedInvWhole DEF FeedSound, PaceInv, FullInv
<1> QED
  BY <1>1, <1>2, <1>3, PTL DEF FeedSpec
=============================================================================
