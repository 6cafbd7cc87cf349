-------------------------- MODULE AsyncAgentProofs --------------------------
(***************************************************************************)
(* What agents promise, for any number of agents, descriptors and slots.   *)
(* The argument is that "reconnecting", the connection's state, the socket *)
(* and the query of an agent move together (Phase), that sockets have one  *)
(* owner, and that until a connect() fails at once the table names only    *)
(* connected agents (TableFresh): reconnect() leaves a stale name there.   *)
(* Behind them stands the log of switches, which is checked with agents.   *)
(***************************************************************************)
EXTENDS AsyncAgent, SwitchLog, ChainLemmas

(* An agent has a socket while it resolves or is connected, a query only   *)
(* while it resolves, and a timer only while it reconnects.                *)
Phase(a) ==
  /\ reconnecting[a] <=> connection_state[a] = "RECONNECTING"
  /\ fd[a] = NoFd <=> connection_state[a] \in {"NOT_CONNECTED", "RECONNECTING"}
  /\ queries[a] \in {0, 1}
  /\ queries[a] = 1 => connection_state[a] = "RESOLVING"
  /\ reconnecting[a] <=> a \in Range(queue)
  /\ a \in connected <=> connection_state[a] = "CONNECTED"

Phases == \A a \in Agent : Phase(a)

(* Nobody has two timers. *)
TimersOnce == IsInjective(queue)

Owners == Agent \union {DNS}

(* A name in the table is that of a connected agent which epoll watches.   *)
TableFresh ==
  ConnectFault \/ \A f \in Slots : slot[f] # None =>
    fd[slot[f]] = f /\ f \in watched /\ connection_state[slot[f]] = "CONNECTED"

(* The peer cannot end a connection that has not begun. *)
IdleTillConnected ==
  \A a \in Agent : connection_state[a] = "RESOLVING" => conn[fd[a]] = "idle"

AgentInv ==
  /\ TypeOK /\ Phases /\ TimersOnce /\ TableFresh /\ IdleTillConnected
  /\ ConnectedIsServed /\ NoSocketLeaked

(* What a change of the daemon's timers leaves as it is: each has one     *)
(* timer, and the agents that wait for theirs are those that did.          *)
SameWaiters(q, r) ==
  /\ r \in Seq(Owners) /\ IsInjective(r)
  /\ \A a \in Agent : a \in Range(r) <=> a \in Range(q)

(* A new timer is one more, wherever it comes. *)
LEMMA PlacedFacts ==
  ASSUME NEW S, NEW q \in Seq(S), IsInjective(q), NEW o \in S, o \notin Range(q),
         NEW r \in Placed(q, o)
  PROVE  r \in Seq(S) /\ IsInjective(r) /\ Range(r) = Range(q) \union {o}
<1>1. PICK i \in 1..Len(q) + 1 : r = InsertAt(q, i, o)
  BY DEF Placed
<1> DEFINE k == i - 1
           b == SubSeq(q, 1, k)
           c == SubSeq(q, k + 1, Len(q))
<1>2. k \in 0..Len(q) /\ k + 1 = i
  BY <1>1
<1>3. r = (b \o <<o>>) \o c
  BY <1>1, <1>2 DEF InsertAt
<1>4. /\ b \in Seq(S) /\ c \in Seq(S) /\ IsInjective(b) /\ IsInjective(c)
      /\ Range(q) = Range(b) \union Range(c) /\ Range(b) \intersect Range(c) = {}
  BY <1>2, CutChain
<1> HIDE DEF b, c
<1>5. <<o>> \in Seq(S) /\ IsInjective(<<o>>) /\ Range(<<o>>) = {o}
  BY DEF IsInjective, Range
<1> DEFINE e == <<o>>
<1>6. e \in Seq(S) /\ IsInjective(e) /\ Range(e) = {o} /\ Range(b) \intersect Range(e) = {}
  BY <1>4, <1>5
<1> HIDE DEF e
<1>7. /\ b \o e \in Seq(S) /\ IsInjective(b \o e)
      /\ Range(b \o e) = Range(b) \union {o}
  BY <1>4, <1>6, ConcatChain
<1> DEFINE d == b \o e
<1>8. /\ d \in Seq(S) /\ IsInjective(d) /\ Range(d) = Range(b) \union {o}
      /\ Range(d) \intersect Range(c) = {}
  BY <1>4, <1>7
<1> HIDE DEF d
<1>9. /\ d \o c \in Seq(S) /\ IsInjective(d \o c)
      /\ Range(d \o c) = Range(d) \union Range(c)
  BY <1>4, <1>8, ConcatChain
<1>10. r = d \o c
  BY <1>3 DEF d, e
<1> QED
  BY <1>4, <1>8, <1>9, <1>10

(* The timer that fires leaves the queue, and only it. *)
LEMMA FiredFacts ==
  ASSUME NEW S, NEW q \in Seq(S), IsInjective(q), q # <<>>
  PROVE  /\ Tail(q) \in Seq(S) /\ IsInjective(Tail(q)) /\ Head(q) \in Range(q)
         /\ Range(Tail(q)) = Range(q) \ {Head(q)}
<1>1. 1 \in 0..Len(q) /\ 1 \in 1..Len(q) /\ Head(q) = q[1]
  OBVIOUS
<1> DEFINE b == SubSeq(q, 1, 1)
           c == SubSeq(q, 1 + 1, Len(q))
<1>2. Tail(q) = c
  OBVIOUS
<1>3. /\ b \in Seq(S) /\ c \in Seq(S) /\ IsInjective(c) /\ Len(b) = 1
      /\ Range(q) = Range(b) \union Range(c) /\ Range(b) \intersect Range(c) = {}
  BY <1>1, CutChain
<1>4. b[1] = q[1]
  BY <1>1
<1> HIDE DEF b, c
<1>5. Range(b) = {Head(q)}
  BY <1>1, <1>3, <1>4 DEF Range
<1> QED
  BY <1>2, <1>3, <1>5

(* A timer of the resolver's takes the place of the one that it has. *)
LEMMA RenewedFacts ==
  ASSUME NEW q \in Seq(Owners), IsInjective(q), NEW r \in Renewed(q)
  PROVE  SameWaiters(q, r)
<1> DEFINE w == WithoutDns(q)
<1>1. /\ w \in Seq(Owners) /\ IsInjective(w) /\ DNS \notin Range(w)
      /\ \A a \in Agent : a \in Range(w) <=> a \in Range(q)
  <2>1. CASE DNS \notin Range(q)
    BY <2>1 DEF WithoutDns
  <2>2. CASE DNS \in Range(q)
    <3> DEFINE i == CHOOSE j \in DOMAIN q : q[j] = DNS
    <3>1. i \in DOMAIN q /\ q[i] = DNS
      BY <2>2 DEF Range
    <3> HIDE DEF i
    <3> DEFINE k == i - 1
               b == SubSeq(q, 1, k)
               c == SubSeq(q, i, Len(q))
               d == SubSeq(q, i + 1, Len(q))
    <3>2. i \in 1..Len(q) /\ k \in 0..Len(q) /\ k + 1 = i /\ i \in 0..Len(q)
      BY <3>1
    <3>3. /\ b \in Seq(Owners) /\ c \in Seq(Owners) /\ IsInjective(b) /\ IsInjective(c)
          /\ Range(q) = Range(b) \union Range(c) /\ Range(b) \intersect Range(c) = {}
          /\ Len(c) = Len(q) - k
      <4>1. c = SubSeq(q, k + 1, Len(q))
        BY <3>2
      <4> QED
        BY <3>2, <4>1, CutChain
    <3>4. c # <<>> /\ Head(c) = DNS /\ Tail(c) = d
      <4>1. c # <<>> /\ Head(c) = q[i]
        <5>1. c[1] = q[i]
          BY <3>2
        <5> HIDE DEF c
        <5>2. c # <<>> /\ Head(c) = c[1]
          BY <3>2, <3>3
        <5> QED
          BY <5>1, <5>2
      <4>2. Tail(c) = d
        BY <3>2
      <4> QED
        BY <3>1, <4>1, <4>2
    <3>5. w = b \o d
      BY <2>2 DEF WithoutDns, RemoveAt, i
    <3> HIDE DEF b, c, d, k
    <3>6. d \in Seq(Owners) /\ IsInjective(d) /\ Range(d) = Range(c) \ {DNS}
      BY <3>3, <3>4, FiredFacts
    <3>7. DNS \in Range(c)
      BY <3>3, <3>4, FiredFacts
    <3>8. /\ b \o d \in Seq(Owners) /\ Range(b \o d) = Range(b) \union Range(d)
          /\ IsInjective(b \o d)
      BY <3>3, <3>6, ConcatChain
    <3> QED
      BY <3>3, <3>5, <3>6, <3>7, <3>8, NoneAssumption
  <2> QED
    BY <2>1, <2>2
<1>2. r \in Placed(w, DNS) /\ DNS \in Owners
  BY DEF Renewed, Owners
<1> HIDE DEF w
<1>3. r \in Seq(Owners) /\ IsInjective(r) /\ Range(r) = Range(w) \union {DNS}
  BY <1>1, <1>2, PlacedFacts
<1> QED
  BY <1>1, <1>3, NoneAssumption DEF SameWaiters

(* What the invariant looks at. *)
LEMMA AgentInvUnchanged ==
  ASSUME AgentInv, UNCHANGED <<agent_vars, slot, watched, foreign, faults>>,
         SameWaiters(queue, queue'),
         conn' \in [Fds -> {"closed", "idle", "open", "down"}],
         \A f \in Fds : conn'[f] = conn[f] \/ {conn[f], conn'[f]} = {"open", "down"}
  PROVE  AgentInv'
<1> USE DEF agent_vars
<1>1. TypeOK'
  BY DEF AgentInv, TypeOK, SameWaiters, Owners
<1>2. Phases' /\ TimersOnce'
  BY DEF AgentInv, Phases, Phase, SameWaiters, TimersOnce
<1>3. TableFresh'
  BY DEF AgentInv, TableFresh, ConnectFault
<1>4. IdleTillConnected'
  <2> SUFFICES ASSUME NEW a \in Agent, connection_state[a] = "RESOLVING"
               PROVE  conn'[fd[a]] = "idle"
    BY DEF IdleTillConnected
  <2>1. fd[a] # NoFd /\ conn[fd[a]] = "idle"
    BY DEF AgentInv, IdleTillConnected, Phases, Phase
  <2>2. fd[a] \in Fds
    BY <2>1 DEF AgentInv, TypeOK
  <2> QED
    BY <2>1, <2>2
<1>5. ConnectedIsServed'
  BY DEF AgentInv, ConnectedIsServed, ConnectFault
<1>6. NoSocketLeaked'
  <2>1. \A f \in Fds : conn'[f] = "closed" <=> conn[f] = "closed"
    OBVIOUS
  <2> QED
    BY <2>1 DEF AgentInv, NoSocketLeaked
<1> QED
  BY <1>1, <1>2, <1>3, <1>4, <1>5, <1>6 DEF AgentInv

(* Init: no agent has a socket, a query, a timer or a slot. *)
LEMMA AgentInvInit == Init => AgentInv
<1> SUFFICES ASSUME Init PROVE AgentInv
  OBVIOUS
<1>1. TypeOK
  <2>1. /\ connection_state \in
             [Agent -> {"NOT_CONNECTED", "RESOLVING", "CONNECTED", "RECONNECTING"}]
        /\ reconnecting \in [Agent -> BOOLEAN]
    BY DEF Init
  <2>2. fd \in [Agent -> Fds \union {NoFd}]
    BY DEF Init
  <2>3. queue \in Seq(Agent \union {DNS}) /\ queries \in [Agent -> Nat]
    BY DEF Init
  <2>4. slot \in [Slots -> Agent \union {None}]
    BY DEF Init
  <2>5. conn \in [Fds -> {"closed", "idle", "open", "down"}]
    BY DEF Init
  <2>6. watched = {} /\ foreign = {} /\ connected = {} /\ faults = {}
    BY DEF Init
  <2> QED
    BY <2>1, <2>2, <2>3, <2>4, <2>5, <2>6 DEF TypeOK
<1>2. Phases /\ TimersOnce
  BY DEF Init, Phases, Phase, TimersOnce, IsInjective, Range
<1>3. TableFresh
  BY DEF Init, TableFresh
<1>4. ConnectedIsServed
  BY DEF Init, ConnectedIsServed
<1>5. NoSocketLeaked
  BY DEF Init, NoSocketLeaked, Fds, NoFd
<1>6. IdleTillConnected
  BY DEF Init, IdleTillConnected
<1> QED
  BY <1>1, <1>2, <1>3, <1>4, <1>5, <1>6 DEF AgentInv

(* reconnect() of an agent that does not reconnect yet: its socket is      *)
(* closed and its timer set.  The table must lose the agent's name, or a   *)
(* connect() has failed.                                                   *)
LEMMA ReconnectInv ==
  ASSUME AgentInv, NEW a \in Agent, NEW st, NEW new_slot \in [Slots -> Agent \union {None}],
         Reconnect(a, st, new_slot), ~reconnecting[a],
         st = connection_state[a] \/ (st = "CONNECTING" /\ connection_state[a] # "CONNECTED"),
         queries' \in [Agent -> Nat],
         queries'[a] = 0,
         \A b \in Agent : b # a => queries'[b] = queries[b],
         faults' \in SUBSET {"connect", "submit"},
         ConnectFault => ConnectFault',
         ConnectFault' \/ \A f \in Slots :
           new_slot[f] = IF slot[f] = a THEN None ELSE slot[f]
  PROVE  AgentInv'
<1>1. /\ slot' = new_slot /\ foreign' = foreign
      /\ reconnecting' = [reconnecting EXCEPT ![a] = TRUE]
      /\ connection_state' = [connection_state EXCEPT ![a] = "RECONNECTING"]
      /\ conn' = [f \in Fds |-> IF f = fd[a] THEN "closed" ELSE conn[f]]
      /\ watched' = watched \ {fd[a]}
      /\ fd' = [fd EXCEPT ![a] = NoFd]
      /\ queue' \in Placed(queue, a)
  BY DEF Reconnect
<1>2. connected' = connected \ {a}
  BY DEF Reconnect, AgentInv, Phases, Phase
<1>3. /\ queue' \in Seq(Agent \union {DNS}) /\ TimersOnce'
      /\ Range(queue') = Range(queue) \union {a}
  <2>1. /\ queue \in Seq(Agent \union {DNS}) /\ IsInjective(queue)
        /\ a \notin Range(queue) /\ a \in Agent \union {DNS}
    BY DEF AgentInv, Phases, Phase, TimersOnce, TypeOK
  <2> QED
    BY <1>1, <2>1, PlacedFacts DEF TimersOnce
<1>4. /\ \A b \in Agent : b # a =>
           /\ connection_state'[b] = connection_state[b] /\ fd'[b] = fd[b]
           /\ reconnecting'[b] = reconnecting[b]
           /\ b \in Range(queue') <=> b \in Range(queue)
      /\ connection_state'[a] = "RECONNECTING" /\ fd'[a] = NoFd
      /\ reconnecting'[a] = TRUE /\ a \in Range(queue')
  BY <1>1, <1>3 DEF AgentInv, TypeOK
<1>5. TypeOK'
  <2>1. fd' \in [Agent -> Fds \union {NoFd}] /\ queue' \in Seq(Agent \union {DNS})
    BY <1>1, <1>3 DEF AgentInv, TypeOK
  <2>2. conn' \in [Fds -> {"closed", "idle", "open", "down"}]
    BY <1>1 DEF AgentInv, TypeOK
  <2>3. /\ connection_state' \in
             [Agent -> {"NOT_CONNECTED", "RESOLVING", "CONNECTED", "RECONNECTING"}]
        /\ reconnecting' \in [Agent -> BOOLEAN]
    BY <1>1 DEF AgentInv, TypeOK
  <2> QED
    BY <1>1, <1>2, <2>1, <2>2, <2>3 DEF AgentInv, TypeOK
<1>6. Phases'
  BY <1>2, <1>4 DEF AgentInv, Phases, Phase
<1>7. TableFresh'
  <2> SUFFICES ASSUME ~ConnectFault', NEW f \in Slots, slot'[f] # None
               PROVE  /\ fd'[slot'[f]] = f /\ f \in watched'
                      /\ connection_state'[slot'[f]] = "CONNECTED"
    BY DEF TableFresh
  <2>1. slot'[f] = slot[f] /\ slot[f] # a /\ slot[f] \in Agent
    BY <1>1 DEF AgentInv, TypeOK
  <2>2. fd[slot[f]] = f /\ f \in watched /\ connection_state[slot[f]] = "CONNECTED"
    BY <2>1 DEF AgentInv, TableFresh
  <2>3. f # fd[a]
    <3>1. fd[slot[f]] # NoFd
      BY <2>1, <2>2 DEF AgentInv, Phases, Phase
    <3>2. f \in Fds
      BY <2>1, <2>2, <3>1 DEF AgentInv, TypeOK
    <3> QED
      BY <2>1, <2>2, <3>2 DEF AgentInv, NoSocketLeaked
  <2> QED
    BY <1>1, <1>4, <2>1, <2>2, <2>3
<1>8. ConnectedIsServed'
  <2> SUFFICES ASSUME NEW b \in Agent, connection_state'[b] = "CONNECTED"
               PROVE  /\ ConnectFault' \/ (fd'[b] \in watched' /\ slot'[fd'[b]] = b)
                      /\ b \in connected'
    BY DEF ConnectedIsServed
  <2>1. b # a /\ connection_state[b] = "CONNECTED" /\ fd'[b] = fd[b]
    BY <1>4
  <2>2. fd[b] \in Fds /\ fd[b] # fd[a]
    BY <2>1 DEF AgentInv, Phases, Phase, NoSocketLeaked, TypeOK
  <2>3. CASE ~ConnectFault'
    <3>1. fd[b] \in watched /\ slot[fd[b]] = b
      BY <2>1, <2>3 DEF AgentInv, ConnectedIsServed
    <3>2. fd[b] \in Slots
      BY <3>1 DEF AgentInv, TypeOK
    <3> QED
      BY <1>1, <1>2, <2>1, <2>2, <2>3, <3>1, <3>2 DEF AgentInv, ConnectedIsServed
  <2> QED
    BY <1>2, <2>1, <2>3 DEF AgentInv, ConnectedIsServed
<1>9. NoSocketLeaked'
  <2> SUFFICES ASSUME NEW f \in Fds
               PROVE  /\ conn'[f] # "closed" <=> f \in foreign' \/ \E b \in Agent : fd'[b] = f
                      /\ \A b, c \in Agent :
                           fd'[b] = f => f \notin foreign' /\ (fd'[c] = f => b = c)
    BY DEF NoSocketLeaked
  <2>1. f # NoFd /\ fd'[a] # f
    BY <1>4 DEF Fds, NoFd
  <2>2. \A b \in Agent : fd'[b] = f <=> b # a /\ fd[b] = f
    BY <1>4, <2>1
  <2>3. conn'[f] = IF f = fd[a] THEN "closed" ELSE conn[f]
    BY <1>1
  <2> QED
    BY <1>1, <2>2, <2>3 DEF AgentInv, NoSocketLeaked
<1>10. IdleTillConnected'
  <2> SUFFICES ASSUME NEW b \in Agent, connection_state'[b] = "RESOLVING"
               PROVE  conn'[fd'[b]] = "idle"
    BY DEF IdleTillConnected
  <2>1. b # a /\ connection_state[b] = "RESOLVING" /\ fd'[b] = fd[b]
    BY <1>4
  <2>2. fd[b] \in Fds /\ fd[b] # fd[a]
    BY <2>1 DEF AgentInv, Phases, Phase, NoSocketLeaked, TypeOK
  <2> QED
    BY <1>1, <2>1, <2>2 DEF AgentInv, IdleTillConnected
<1> QED
  BY <1>3, <1>5, <1>6, <1>7, <1>8, <1>9, <1>10 DEF AgentInv

(* An agent without a socket gets one, and a query unless there is no      *)
(* memory for it.                                                          *)
LEMMA StartResolvingInv ==
  ASSUME AgentInv, NEW a \in Agent, NEW q \in Seq(Owners), StartResolving(a, q),
         fd[a] = NoFd, reconnecting' = [reconnecting EXCEPT ![a] = FALSE],
         IsInjective(q), Range(q) = Range(queue) \ {a}
  PROVE  AgentInv'
<1>1. PICK f \in Fds :
        /\ conn[f] = "closed" /\ conn' = [conn EXCEPT ![f] = "idle"]
        /\ fd' = [fd EXCEPT ![a] = f]
  BY DEF StartResolving, Lowest
<1>2. slot' = slot /\ watched' = watched
  BY DEF StartResolving, Disabled, NoFd, Slots
<1>3. /\ connection_state' = [connection_state EXCEPT ![a] = "RESOLVING"]
      /\ connected' = connected /\ foreign' = foreign
      /\ queries' = queries \/ queries' = [queries EXCEPT ![a] = @ + 1]
      /\ faults' = faults \/ faults' = faults \union {"submit"}
      /\ queue' \in Renewed(q) \/ queue' = q
  BY DEF StartResolving
<1>4. queries[a] = 0 /\ a \notin connected
  BY DEF AgentInv, Phases, Phase
<1>5. /\ queries' \in [Agent -> Nat] /\ queries'[a] \in {0, 1}
      /\ \A b \in Agent : b # a => queries'[b] = queries[b]
  BY <1>3, <1>4 DEF AgentInv, TypeOK
<1>6. /\ queue' \in Seq(Agent \union {DNS}) /\ TimersOnce'
       /\ \A b \in Agent : b \in Range(queue') <=> b \in Range(queue) /\ b # a
  <2>1. SameWaiters(q, queue')
    BY <1>3, RenewedFacts DEF SameWaiters
  <2> QED
    BY <2>1 DEF SameWaiters, TimersOnce, Owners
<1>7. ConnectFault' <=> ConnectFault
  BY <1>3 DEF ConnectFault
<1>8. /\ \A b \in Agent : b # a =>
           /\ connection_state'[b] = connection_state[b] /\ fd'[b] = fd[b]
           /\ reconnecting'[b] = reconnecting[b]
      /\ connection_state'[a] = "RESOLVING" /\ fd'[a] = f
      /\ reconnecting'[a] = FALSE
  BY <1>1, <1>3 DEF AgentInv, TypeOK
<1>9. f # NoFd
  BY DEF Fds, NoFd
<1>10. TypeOK'
  <2>1. fd' \in [Agent -> Fds \union {NoFd}]
    BY <1>1 DEF AgentInv, TypeOK
  <2>2. conn' \in [Fds -> {"closed", "idle", "open", "down"}]
    BY <1>1 DEF AgentInv, TypeOK
  <2>3. /\ connection_state' \in
             [Agent -> {"NOT_CONNECTED", "RESOLVING", "CONNECTED", "RECONNECTING"}]
        /\ reconnecting' \in [Agent -> BOOLEAN]
    BY <1>3 DEF AgentInv, TypeOK
  <2> QED
    BY <1>2, <1>3, <1>5, <1>6, <2>1, <2>2, <2>3 DEF AgentInv, TypeOK
<1>11. Phases'
  BY <1>3, <1>4, <1>5, <1>8, <1>9, <1>6 DEF AgentInv, Phases, Phase
<1>12. TableFresh'
  <2> SUFFICES ASSUME ~ConnectFault, NEW g \in Slots, slot[g] # None
               PROVE  /\ fd'[slot[g]] = g /\ g \in watched
                      /\ connection_state'[slot[g]] = "CONNECTED"
    BY <1>2, <1>7 DEF TableFresh
  <2>1. slot[g] \in Agent
    BY DEF AgentInv, TypeOK
  <2>2. fd[slot[g]] = g /\ g \in watched /\ connection_state[slot[g]] = "CONNECTED"
    BY DEF AgentInv, TableFresh
  <2>3. slot[g] # a
    BY <2>1, <2>2 DEF AgentInv, Phases, Phase
  <2> QED
    BY <1>8, <2>1, <2>2, <2>3
<1>13. ConnectedIsServed'
  BY <1>2, <1>3, <1>7, <1>8 DEF AgentInv, ConnectedIsServed
<1>14. NoSocketLeaked'
  <2>1. \A b \in Agent : fd[b] # f
    BY <1>1 DEF AgentInv, NoSocketLeaked
  <2>2. f \notin foreign
    BY <1>1 DEF AgentInv, NoSocketLeaked
  <2>3. \A g \in Fds : conn'[g] = IF g = f THEN "idle" ELSE conn[g]
    BY <1>1 DEF AgentInv, TypeOK
  <2>4. \A g \in Fds : \A b \in Agent :
          fd'[b] = g <=> IF b = a THEN g = f ELSE fd[b] = g
    BY <1>8
  <2>5. fd[a] \notin Fds
    BY DEF Fds, NoFd
  <2> QED
    BY <1>3, <2>1, <2>2, <2>3, <2>4, <2>5 DEF AgentInv, NoSocketLeaked
<1>15. IdleTillConnected'
  <2> SUFFICES ASSUME NEW b \in Agent, connection_state'[b] = "RESOLVING"
               PROVE  conn'[fd'[b]] = "idle"
    BY DEF IdleTillConnected
  <2>1. CASE b = a
    BY <1>1, <1>8, <2>1 DEF AgentInv, TypeOK
  <2>2. CASE b # a
    <3>1. connection_state[b] = "RESOLVING" /\ fd'[b] = fd[b]
      BY <1>8, <2>2
    <3>2. conn[fd[b]] = "idle" /\ fd[b] # NoFd
      BY <3>1 DEF AgentInv, IdleTillConnected, Phases, Phase
    <3>3. conn[fd[b]] = "idle" /\ fd[b] \in Fds /\ fd'[b] = fd[b]
      BY <3>1, <3>2 DEF AgentInv, TypeOK
    <3> QED
      BY <1>1, <3>3 DEF AgentInv, TypeOK
  <2> QED
    BY <2>1, <2>2
<1> QED
  BY <1>6, <1>10, <1>11, <1>12, <1>13, <1>14, <1>15 DEF AgentInv

(* startConnection() gives the agent a socket of its own, or none. *)
LEMMA StartConnectionInv ==
  ASSUME AgentInv, NEW a \in Agent, StartConnection(a)
  PROVE  AgentInv'
<1>1. connection_state[a] = "NOT_CONNECTED"
  BY DEF StartConnection
<1>2. /\ ~reconnecting[a] /\ fd[a] = NoFd /\ queries[a] = 0 /\ a \notin Range(queue)
  BY <1>1 DEF AgentInv, Phases, Phase
<1>3. CASE StartResolving(a, queue) /\ UNCHANGED reconnecting
  <2>1. reconnecting' = [reconnecting EXCEPT ![a] = FALSE]
    BY <1>2, <1>3 DEF AgentInv, TypeOK
  <2>2. /\ queue \in Seq(Owners) /\ IsInjective(queue)
        /\ Range(queue) = Range(queue) \ {a}
    BY <1>2 DEF AgentInv, TypeOK, Owners, TimersOnce
  <2> QED
    BY <1>2, <1>3, <2>1, <2>2, StartResolvingInv
<1>4. CASE NoSocket /\ Reconnect(a, "NOT_CONNECTED", slot) /\ UNCHANGED <<queries, faults>>
  <2>1. /\ slot \in [Slots -> Agent \union {None}] /\ queries' \in [Agent -> Nat]
        /\ faults' \in SUBSET {"connect", "submit"} /\ queries'[a] = 0
    BY <1>2, <1>4 DEF AgentInv, TypeOK
  <2>2. ConnectFault' <=> ConnectFault
    BY <1>4 DEF ConnectFault
  <2>3. ConnectFault \/ \A f \in Slots : slot[f] # a
    BY <1>1, NoneAssumption DEF AgentInv, TableFresh
  <2> QED
    BY <1>1, <1>2, <1>4, <2>1, <2>2, <2>3, ReconnectInv
<1> QED
  BY <1>3, <1>4 DEF StartConnection

(* When there is no socket, the agent stays as it is, with its timer.      *)
LEMMA ReconnectTimerInv ==
  ASSUME AgentInv, NEW a \in Agent, ReconnectTimer(a)
  PROVE  AgentInv'
<1> DEFINE q == Tail(queue)
<1>1. /\ queue # <<>> /\ Head(queue) = a /\ queue \in Seq(Owners) /\ IsInjective(queue)
      /\ q \in Seq(Owners) /\ IsInjective(q)
      /\ a \in Range(queue) /\ Range(q) = Range(queue) \ {a}
  <2>1. /\ queue # <<>> /\ Head(queue) = a
        /\ queue \in Seq(Owners) /\ IsInjective(queue)
    BY DEF ReconnectTimer, Fires, AgentInv, TypeOK, Owners, TimersOnce
  <2> QED
    BY <2>1, FiredFacts
<1>2. reconnecting[a]
  BY <1>1 DEF AgentInv, Phases, Phase
<1>3. /\ connection_state[a] = "RECONNECTING" /\ fd[a] = NoFd
      /\ a \notin connected
  BY <1>2 DEF AgentInv, Phases, Phase
<1> HIDE DEF q
<1>4. CASE /\ StartResolving(a, q)
           /\ reconnecting' = [reconnecting EXCEPT ![a] = FALSE]
  BY <1>1, <1>3, <1>4, StartResolvingInv
<1>5. CASE /\ connection_state' = [connection_state EXCEPT ![a] = "RECONNECTING"]
           /\ connected' = IF connection_state[a] = "CONNECTED" THEN connected \ {a} ELSE connected
           /\ fd' = [fd EXCEPT ![a] = NoFd]
           /\ conn' = [f \in Fds |-> IF f = fd[a] THEN "closed" ELSE conn[f]]
           /\ watched' = watched \ {fd[a]}
           /\ queue' \in Placed(q, a)
           /\ UNCHANGED <<reconnecting, queries, slot, foreign, faults>>
  <2>1. SameWaiters(queue, queue')
    <3>1. a \notin Range(q) /\ a \in Owners
      BY <1>1 DEF Owners
    <3>2. queue' \in Seq(Owners) /\ IsInjective(queue') /\ Range(queue') = Range(q) \union {a}
      BY <1>1, <1>5, <3>1, PlacedFacts
    <3> QED
      BY <1>1, <3>2 DEF SameWaiters
  <2>2. connected' = connected /\ connection_state' = connection_state /\ fd' = fd
    BY <1>3, <1>5 DEF AgentInv, TypeOK
  <2>3. conn' = conn
    BY <1>3, <1>5 DEF AgentInv, TypeOK, Fds, NoFd
  <2>4. watched' = watched
    BY <1>3, <1>5 DEF AgentInv, TypeOK, Slots, NoFd
  <2>5. UNCHANGED <<agent_vars, slot, watched, foreign, faults>>
    BY <1>5, <2>2, <2>4 DEF agent_vars
  <2>6. conn' \in [Fds -> {"closed", "idle", "open", "down"}]
    BY <2>3 DEF AgentInv, TypeOK
  <2> QED
    BY <2>3, <2>5, <2>6, <2>1, AgentInvUnchanged
<1> QED
  BY <1>4, <1>5 DEF ReconnectTimer, q

(* The resolver's timer is set again, or not; those that wait wait on.     *)
LEMMA DnsTimerInv ==
  ASSUME AgentInv, DnsTimer
  PROVE  AgentInv'
<1> DEFINE q == Tail(queue)
<1>1. /\ queue # <<>> /\ Head(queue) = DNS
      /\ queue \in Seq(Owners) /\ IsInjective(queue)
  BY DEF DnsTimer, Fires, AgentInv, TypeOK, Owners, TimersOnce
<1>2. q \in Seq(Owners) /\ IsInjective(q) /\ Range(q) = Range(queue) \ {DNS}
  BY <1>1, FiredFacts
<1>3. queue' \in Placed(q, DNS) \/ queue' = q
  BY DEF DnsTimer
<1> HIDE DEF q
<1>4. CASE queue' = q
  <2>1. SameWaiters(queue, queue')
    BY <1>2, <1>4, NoneAssumption DEF SameWaiters
  <2> QED
    BY <2>1, AgentInvUnchanged DEF DnsTimer, AgentInv, TypeOK
<1>5. CASE queue' \in Placed(q, DNS)
  <2>1. DNS \in Owners /\ DNS \notin Range(q)
    BY <1>2 DEF Owners
  <2>2. queue' \in Seq(Owners) /\ IsInjective(queue') /\ Range(queue') = Range(q) \union {DNS}
    BY <1>2, <1>5, <2>1, PlacedFacts
  <2>3. SameWaiters(queue, queue')
    BY <1>2, <2>2, NoneAssumption DEF SameWaiters
  <2> QED
    BY <2>3, AgentInvUnchanged DEF DnsTimer, AgentInv, TypeOK
<1> QED
  BY <1>3, <1>4, <1>5

(* The answer ends the query of an agent that resolves, and of no other. *)
LEMMA AnsweredFacts ==
  ASSUME AgentInv, NEW a \in Agent, Answered(a)
  PROVE  /\ connection_state[a] = "RESOLVING" /\ ~reconnecting[a] /\ fd[a] \in Fds
         /\ queries' \in [Agent -> Nat] /\ queries'[a] = 0
         /\ \A b \in Agent : b # a => queries'[b] = queries[b]
         /\ ConnectFault \/ \A f \in Slots : slot[f] # a
<1>1. queries[a] = 1 /\ queries' = [queries EXCEPT ![a] = @ - 1]
  BY DEF Answered, AgentInv, Phases, Phase
<1>2. connection_state[a] = "RESOLVING" /\ ~reconnecting[a] /\ fd[a] \in Fds
  BY <1>1 DEF AgentInv, Phases, Phase, TypeOK
<1>3. queries' \in [Agent -> Nat] /\ queries'[a] = 0
  BY <1>1 DEF AgentInv, TypeOK
<1>4. \A b \in Agent : b # a => queries'[b] = queries[b]
  BY <1>1 DEF AgentInv, TypeOK
<1>5. ConnectFault \/ \A f \in Slots : slot[f] # a
  BY <1>2, NoneAssumption DEF AgentInv, TableFresh
<1> QED
  BY <1>2, <1>3, <1>4, <1>5

(* Until a connect() has failed, the slot of the agent's socket is empty:  *)
(* epoll is asked to watch it, and nobody else is put out.                 *)
LEMMA ConnectInv ==
  ASSUME AgentInv, NEW a \in Agent, Connect(a)
  PROVE  AgentInv'
<1> DEFINE f == fd[a]
<1>1. /\ connection_state[a] = "RESOLVING" /\ ~reconnecting[a] /\ f \in Fds
      /\ queries' \in [Agent -> Nat] /\ queries'[a] = 0
      /\ \A b \in Agent : b # a => queries'[b] = queries[b]
      /\ ConnectFault \/ \A g \in Slots : slot[g] # a
  BY AnsweredFacts DEF Connect
<1>2. /\ f \in Slots /\ slot[f] \in {None, a}
      /\ slot' = [slot EXCEPT ![f] = a]
      /\ watched' = IF slot[f] = None THEN watched \union {f} ELSE watched
      /\ conn' = [conn EXCEPT ![f] = "open"]
      /\ connection_state' = [connection_state EXCEPT ![a] = "CONNECTED"]
      /\ connected' = connected \union {a}
      /\ reconnecting' = reconnecting /\ fd' = fd /\ queue' = queue
      /\ foreign' = foreign /\ faults' = faults
  BY DEF Connect, CanEnable, EnabledSlot
<1>3. /\ \A b \in Agent : b # a => connection_state'[b] = connection_state[b]
      /\ connection_state'[a] = "CONNECTED"
  BY <1>2 DEF AgentInv, TypeOK
<1>4. ConnectFault' <=> ConnectFault
  BY <1>2 DEF ConnectFault
<1>5. \A g \in Slots : slot'[g] = IF g = f THEN a ELSE slot[g]
  BY <1>2 DEF AgentInv, TypeOK
<1>6. TypeOK'
  <2>1. /\ slot' \in [Slots -> Agent \union {None}]
        /\ conn' \in [Fds -> {"closed", "idle", "open", "down"}]
    BY <1>2 DEF AgentInv, TypeOK
  <2>2. connection_state' \in
          [Agent -> {"NOT_CONNECTED", "RESOLVING", "CONNECTED", "RECONNECTING"}]
    BY <1>2 DEF AgentInv, TypeOK
  <2>3. watched' \in SUBSET Slots /\ connected' \in SUBSET Agent
    BY <1>2 DEF AgentInv, TypeOK
  <2> QED
    BY <1>1, <1>2, <2>1, <2>2, <2>3 DEF AgentInv, TypeOK
<1>7. Phases'
  BY <1>1, <1>2, <1>3 DEF AgentInv, Phases, Phase
<1>8. ~ConnectFault => slot[f] = None
  BY <1>1, <1>2
<1>9. TableFresh'
  <2> SUFFICES ASSUME ~ConnectFault, NEW g \in Slots, slot'[g] # None
               PROVE  /\ fd[slot'[g]] = g /\ g \in watched'
                      /\ connection_state'[slot'[g]] = "CONNECTED"
    BY <1>2, <1>4 DEF TableFresh
  <2>1. CASE g = f
    BY <1>2, <1>3, <1>5, <1>8, <2>1
  <2>2. CASE g # f
    <3>1. slot'[g] = slot[g] /\ slot[g] \in Agent
      BY <1>5, <2>2 DEF AgentInv, TypeOK
    <3>2. fd[slot[g]] = g /\ g \in watched /\ connection_state[slot[g]] = "CONNECTED"
      BY <3>1 DEF AgentInv, TableFresh
    <3> QED
      BY <1>2, <1>3, <3>1, <3>2
  <2> QED
    BY <2>1, <2>2
<1>10. ConnectedIsServed'
  <2> SUFFICES ASSUME NEW b \in Agent, connection_state'[b] = "CONNECTED"
               PROVE  /\ ConnectFault \/ (fd[b] \in watched' /\ slot'[fd[b]] = b)
                      /\ b \in connected'
    BY <1>2, <1>4 DEF ConnectedIsServed
  <2>1. CASE b = a
    BY <1>2, <1>5, <1>8, <2>1
  <2>2. CASE b # a
    <3>1. connection_state[b] = "CONNECTED"
      BY <1>3, <2>2
    <3>2. fd[b] # f
      BY <1>1, <2>2 DEF AgentInv, NoSocketLeaked
    <3>3. ConnectFault \/ (fd[b] \in watched /\ fd[b] \in Slots /\ slot[fd[b]] = b)
      BY <3>1 DEF AgentInv, ConnectedIsServed, TypeOK
    <3> QED
      BY <1>2, <1>5, <3>1, <3>2, <3>3 DEF AgentInv, ConnectedIsServed
  <2> QED
    BY <2>1, <2>2
<1>11. NoSocketLeaked'
  <2>1. \A g \in Fds : conn'[g] = "closed" <=> conn[g] = "closed"
    BY <1>1, <1>2 DEF AgentInv, TypeOK, NoSocketLeaked
  <2> QED
    BY <1>2, <2>1 DEF AgentInv, NoSocketLeaked
<1>12. IdleTillConnected'
  <2> SUFFICES ASSUME NEW b \in Agent, connection_state'[b] = "RESOLVING"
               PROVE  conn'[fd[b]] = "idle"
    BY <1>2 DEF IdleTillConnected
  <2>1. b # a /\ connection_state[b] = "RESOLVING"
    BY <1>3
  <2>2. fd[b] \in Fds /\ fd[b] # f
    BY <1>1, <2>1 DEF AgentInv, Phases, Phase, NoSocketLeaked, TypeOK
  <2> QED
    BY <1>2, <2>1, <2>2 DEF AgentInv, IdleTillConnected, TypeOK
<1> QED
  BY <1>2, <1>6, <1>7, <1>9, <1>10, <1>11, <1>12 DEF AgentInv, TimersOnce

(* An attempt that fails leaves no socket and no slot, and starts the timer. *)
LEMMA AnswerFailsInv ==
  ASSUME AgentInv, NEW a \in Agent, ConnectFails(a) \/ EnableFails(a) \/ NoAddress(a)
  PROVE  AgentInv'
<1>0. Answered(a)
  BY DEF ConnectFails, EnableFails, NoAddress
<1>1. /\ connection_state[a] = "RESOLVING" /\ ~reconnecting[a] /\ fd[a] \in Fds
      /\ queries' \in [Agent -> Nat] /\ queries'[a] = 0
      /\ \A b \in Agent : b # a => queries'[b] = queries[b]
      /\ ConnectFault \/ \A f \in Slots : slot[f] # a
  BY <1>0, AnsweredFacts
<1>2. CASE ConnectFails(a)
  <2>1. /\ faults' = faults \union {"connect"}
        /\ Reconnect(a, "CONNECTING", EnabledSlot(a))
    BY <1>2 DEF ConnectFails
  <2>2. ConnectFault' /\ faults' \in SUBSET {"connect", "submit"}
    BY <2>1 DEF ConnectFault, AgentInv, TypeOK
  <2>3. EnabledSlot(a) \in [Slots -> Agent \union {None}]
    BY DEF EnabledSlot, AgentInv, TypeOK
  <2> QED
    BY <1>1, <2>1, <2>2, <2>3, ReconnectInv
<1>3. CASE EnableFails(a) \/ NoAddress(a)
  <2>1. PICK st \in {"CONNECTING", connection_state[a]} :
          faults' = faults /\ Reconnect(a, st, slot)
    BY <1>3 DEF EnableFails, NoAddress
  <2>2. (ConnectFault' <=> ConnectFault) /\ faults' \in SUBSET {"connect", "submit"}
    BY <2>1 DEF ConnectFault, AgentInv, TypeOK
  <2>3. slot \in [Slots -> Agent \union {None}]
    BY DEF AgentInv, TypeOK
  <2>4. st = connection_state[a] \/ (st = "CONNECTING" /\ connection_state[a] # "CONNECTED")
    BY <1>1
  <2> QED
    BY <1>1, <2>1, <2>2, <2>3, <2>4, ReconnectInv
<1> QED
  BY <1>2, <1>3

(* disableObject() takes the agent out of the table before it reconnects.  *)
LEMMA ConnectionLostInv ==
  ASSUME AgentInv, NEW a \in Agent, ConnectionLost(a)
  PROVE  AgentInv'
<1>1. /\ fd[a] \in watched /\ slot[fd[a]] = a /\ fd[a] \in Slots
      /\ conn[fd[a]] = "down"
      /\ Reconnect(a, connection_state[a], Disabled(a))
      /\ queries' = queries /\ faults' = faults
  BY DEF ConnectionLost, AgentInv, TypeOK
<1>2. fd[a] # NoFd
  BY <1>1 DEF Slots, NoFd
<1>3. Disabled(a) = [slot EXCEPT ![fd[a]] = None]
  BY <1>1 DEF Disabled
<1>4. Disabled(a) \in [Slots -> Agent \union {None}]
  BY <1>3 DEF AgentInv, TypeOK
<1>5. ~reconnecting[a]
  BY <1>2 DEF AgentInv, Phases, Phase
<1>6. ConnectFault' <=> ConnectFault
  BY <1>1 DEF ConnectFault
<1>7. ConnectFault \/ \A f \in Slots :
        Disabled(a)[f] = IF slot[f] = a THEN None ELSE slot[f]
  <2> SUFFICES ASSUME ~ConnectFault, NEW f \in Slots
               PROVE  Disabled(a)[f] = IF slot[f] = a THEN None ELSE slot[f]
    OBVIOUS
  <2>1. slot[f] = a => f = fd[a]
    BY NoneAssumption DEF AgentInv, TableFresh
  <2> QED
    BY <1>1, <1>3, <2>1 DEF AgentInv, TypeOK
<1>8. queries[a] = 0
  BY <1>1 DEF AgentInv, Phases, Phase, IdleTillConnected
<1>9. queries' \in [Agent -> Nat] /\ faults' \in SUBSET {"connect", "submit"}
  BY <1>1 DEF AgentInv, TypeOK
<1> QED
  BY <1>1, <1>4, <1>5, <1>6, <1>7, <1>8, <1>9, ReconnectInv

(* The rest of the program takes closed descriptors and gives its own back. *)
LEMMA ForeignInv ==
  ASSUME AgentInv, NEW f \in Fds, ForeignOpen(f) \/ ForeignClose(f)
  PROVE  AgentInv'
<1>1. /\ UNCHANGED <<agent_vars, queue, slot, watched, faults>>
      /\ \/ /\ conn[f] = "closed" /\ conn' = [conn EXCEPT ![f] = "idle"]
            /\ foreign' = foreign \union {f}
         \/ /\ f \in foreign /\ conn' = [conn EXCEPT ![f] = "closed"]
            /\ foreign' = foreign \ {f}
  BY DEF ForeignOpen, ForeignClose, Lowest
<1>2. \A a \in Agent : fd[a] # f
  BY <1>1 DEF AgentInv, NoSocketLeaked
<1> USE DEF agent_vars
<1>3. TypeOK'
  BY <1>1 DEF AgentInv, TypeOK
<1>4. (Phases /\ TimersOnce /\ TableFresh /\ ConnectedIsServed)'
  BY <1>1 DEF AgentInv, Phases, Phase, TimersOnce, TableFresh, ConnectedIsServed, ConnectFault
<1>5. IdleTillConnected'
  <2> SUFFICES ASSUME NEW a \in Agent, connection_state[a] = "RESOLVING"
               PROVE  conn'[fd[a]] = "idle"
    BY <1>1 DEF IdleTillConnected
  <2>1. conn[fd[a]] = "idle" /\ fd[a] \in Fds
    BY DEF AgentInv, IdleTillConnected, Phases, Phase, TypeOK
  <2> QED
    BY <1>1, <1>2, <2>1 DEF AgentInv, TypeOK
<1>6. NoSocketLeaked'
  <2>1. \A g \in Fds : g # f => conn'[g] = conn[g] /\ (g \in foreign' <=> g \in foreign)
    BY <1>1 DEF AgentInv, TypeOK
  <2>2. conn'[f] # "closed" <=> f \in foreign'
    BY <1>1 DEF AgentInv, TypeOK
  <2> QED
    BY <1>1, <1>2, <2>1, <2>2 DEF AgentInv, NoSocketLeaked
<1> QED
  BY <1>3, <1>4, <1>5, <1>6 DEF AgentInv

(* Every step keeps the invariant. *)
LEMMA AgentInvNext == AgentInv /\ [Next]_vars => AgentInv'
<1> SUFFICES ASSUME AgentInv, [Next]_vars PROVE AgentInv'
  OBVIOUS
<1>1. ASSUME NEW a \in Agent,
             StartConnection(a) \/ ReconnectTimer(a) \/ OnConnectA4(a) \/ ConnectionLost(a)
      PROVE  AgentInv'
  BY <1>1, StartConnectionInv, ReconnectTimerInv, ConnectInv, AnswerFailsInv,
     ConnectionLostInv DEF OnConnectA4
<1>2. ASSUME NEW f \in Fds, ForeignOpen(f) \/ ForeignClose(f) PROVE AgentInv'
  BY <1>2, ForeignInv
<1>3. ASSUME NEW f \in Fds, PeerDown(f) PROVE AgentInv'
  <2>1. conn[f] = "open" /\ conn' = [conn EXCEPT ![f] = "down"]
    BY <1>3 DEF PeerDown
  <2> QED
    BY <1>3, <2>1, AgentInvUnchanged
    DEF PeerDown, AgentInv, TypeOK, SameWaiters, Owners, TimersOnce
<1>4. CASE UNCHANGED vars
  BY <1>4, AgentInvUnchanged DEF vars, AgentInv, TypeOK, SameWaiters, Owners, TimersOnce
<1>5. CASE DnsTimer
  BY <1>5, DnsTimerInv
<1> QED
  BY <1>1, <1>2, <1>3, <1>4, <1>5 DEF Next

(* The invariant above holds whatever calls fail, in whatever order queries, *)
(* timers and the network answer.                                           *)
THEOREM AgentInvariant == Spec => []AgentInv
BY AgentInvInit, AgentInvNext, PTL DEF Spec

(* One timer is set while an agent reconnects and none otherwise, whatever *)
(* call fails: reconnect() may be called again and again, as the failed    *)
(* connect() does, and startConnection() when no socket is left.           *)
THEOREM AgentTimerIffReconnecting == Spec => []TimerIffReconnecting
<1>1. AgentInv => TimerIffReconnecting
  <2> SUFFICES ASSUME AgentInv, NEW a \in Agent
               PROVE  Cardinality({i \in DOMAIN queue : queue[i] = a}) =
                        IF reconnecting[a] THEN 1 ELSE 0
    BY DEF AgentInv, TimerIffReconnecting
  <2> DEFINE set == {i \in DOMAIN queue : queue[i] = a}
  <2>1. reconnecting[a] <=> a \in Range(queue)
    BY DEF AgentInv, Phases, Phase
  <2>2. reconnecting[a] \in BOOLEAN
    BY DEF AgentInv, TypeOK
  <2>3. CASE a \in Range(queue)
    <3>1. PICK i \in DOMAIN queue : queue[i] = a
      BY <2>3 DEF Range
    <3>2. set = {i}
      BY <3>1 DEF AgentInv, TimersOnce, IsInjective
    <3> QED
      BY <2>1, <2>3, <3>2, FS_Singleton
  <2>4. CASE a \notin Range(queue)
    <3>1. set = {}
      BY <2>4 DEF Range
    <3> QED
      BY <2>1, <2>4, <3>1, FS_EmptySet
  <2> QED
    BY <2>3, <2>4
<1> QED
  BY <1>1, AgentInvariant, PTL

(* Every socket that is open has one owner, an agent or the rest of the    *)
(* program: failed attempts leak none and none is closed under its owner.  *)
THEOREM AgentNoSocketLeaked == Spec => []NoSocketLeaked
<1>1. AgentInv => NoSocketLeaked
  BY DEF AgentInv
<1> QED
  BY <1>1, AgentInvariant, PTL

(* Until a connect() fails at once, an agent that takes itself for         *)
(* connected is in the table and watched by epoll.                         *)
THEOREM AgentConnectedIsServed == Spec => []ConnectedIsServed
<1>1. AgentInv => ConnectedIsServed
  BY DEF AgentInv
<1> QED
  BY <1>1, AgentInvariant, PTL

(* onDisconnected() follows every onConnected() before the next attempt.   *)
THEOREM AgentToldWhenLost == Spec => []ToldWhenLost
<1>1. AgentInv => ToldWhenLost
  BY DEF AgentInv, Phases, Phase, ToldWhenLost
<1> QED
  BY <1>1, AgentInvariant, PTL

(* Timer, registration and socket of an agent are what its state says, for *)
(* every set of agents and every order of answers, timers and failures.    *)
THEOREM AgentIsSound == Spec => []AgentSound
<1>1. TimerIffReconnecting /\ ConnectedIsServed /\ NoSocketLeaked => AgentSound
  BY DEF AgentSound
<1> QED
  BY <1>1, AgentTimerIffReconnecting, AgentConnectedIsServed, AgentNoSocketLeaked, PTL

-----------------------------------------------------------------------------
(* libnano's log of switches, for any reports, places, queue and errors.   *)
(* A handler that has met no error is inside the transaction it began, and *)
(* knows what it has looked for (HandlerFits); so its rows fit (RowsFitAll)*)
(* and it opens an event only if there is none (NoneOpen).  Reports are    *)
(* taken in the order in which they came (OldestFirst), so that a row of a *)
(* report that waits, or is not yet written, does not exist.               *)

ReportedPlaces == {r.place : r \in Reports}
Peers ==
  {NoPeer} \union {PeerAt[p] : p \in ReportedPlaces} \union {p.switch : p \in ReportedPlaces}

Event == [id : Nat \ {0}, place : ReportedPlaces, peer : Peers, status : {"active", "closed"}]
LogRow == [report : Nat, place : ReportedPlaces, status : {"up", "down", "loop"},
           known : BOOLEAN, peer : Peers, event : Nat]
TableRows == [events : SUBSET Event, log : Seq(LogRow)]
Session == [tables : TableRows, own : TableRows, begun : BOOLEAN,
            lastId : Nat, nextId : Nat \ {0}, up : BOOLEAN]
QueryPoints ==
  {"begin", "findSwitch", "findEvent", "findPeer", "findHouse", "insertEvent", "insertLog", "commit"}
HandlerType == [at : QueryPoints, report : Nat, place : ReportedPlaces,
                status : {"up", "down", "loop"}, known : BOOLEAN, event : Nat, peer : Peers]
QueryFault == [at : QueryPoints, report : Nat, answered : BOOLEAN, begun : BOOLEAN]

(* A session sees its own rows only within its transaction. *)
SessionOK(s) == s \in Session /\ (~s.begun => s.own = NoRows)

SwitchLogTypeOK ==
  /\ socket \in [state : {"closed", "bound", "unbound", "detached"}, queue : Seq(Nat)]
  /\ reports \in Seq(Reports)
  /\ handler \in {Idle} \union HandlerType
  /\ SessionOK(session)
  /\ query_faults \in Seq(QueryFault)

Working == handler # Idle

(* Committed or not, in the order in which they were written. *)
AllRows(s) == s.tables.log \o s.own.log

(* A report that came, before those that wait. *)
Taken(n) == n \in 1..Len(reports) /\ \A i \in DOMAIN socket.queue : n < socket.queue[i]

OldestFirst ==
  /\ \A i \in DOMAIN socket.queue : socket.queue[i] \in 1..Len(reports)
  /\ \A i, j \in DOMAIN socket.queue : i < j => socket.queue[i] < socket.queue[j]
  /\ Working => Taken(handler.report)
  /\ \A i \in DOMAIN AllRows(session) :
       LET n == AllRows(session)[i].report
       IN /\ Taken(n)
          /\ Working => n < handler.report \/ (n = handler.report /\ handler.at = "commit")

RowRepeated(n) == \E f \in Faulty : f.report = n /\ f.at = "insertLog" /\ f.answered /\ ~f.begun

OneRow ==
  \A i, j \in DOMAIN AllRows(session) :
    i # j /\ AllRows(session)[i].report = AllRows(session)[j].report =>
      RowRepeated(AllRows(session)[i].report)

EventRepeated ==
  \E f \in Faulty : \/ f.at = "findEvent" /\ ~f.answered
                    \/ f.at = "insertEvent" /\ f.answered /\ ~f.begun

OneOpen(events) ==
  \A d, e \in events : d.status = "active" /\ e.status = "active" /\ d.place = e.place => d = e

NoneOpen ==
  handler.at \in {"findPeer", "findHouse", "insertEvent"} /\ handler.event = Null =>
    Active(Seen(session), handler.place) = {}

RowFits(row, events) ==
  /\ row.event # Null => \E e \in events : e.id = row.event /\ e.place = row.place
  /\ row.status = "loop" =>
       row.event # Null /\ row.peer = IF row.known THEN row.place.switch ELSE NoPeer
  /\ row.status = "down" /\ row.peer # NoPeer => row.event # Null
  /\ row.status = "down" =>
       row.peer = IF row.place.switch \in KnownSwitch THEN PeerAt[row.place] ELSE NoPeer

(* All rows fit, but those of the reports in excused. *)
RowsFitAll(s, excused) ==
  /\ \A i \in DOMAIN s.tables.log :
       s.tables.log[i].report \in excused \/ RowFits(s.tables.log[i], s.tables.events)
  /\ \A i \in DOMAIN s.own.log :
       s.own.log[i].report \in excused \/ RowFits(s.own.log[i], Seen(s))

(* The reports whose handlers met an error. *)
Excused == {f.report : f \in Faulty}

(* What the order of the queries gives, errors or not. *)
HandlerOrder ==
  /\ handler.at \in {"begin", "findSwitch", "findEvent", "findPeer"} => handler.peer = NoPeer
  /\ handler.at \in {"findHouse", "insertEvent"} => handler.event = Null
  /\ handler.at = "findPeer" => handler.status = "down" /\ handler.known
  /\ handler.peer # NoPeer => handler.status = "down"

HandlerFits ==
  /\ handler.at # "begin" => session.up /\ session.begun
  /\ handler.at \notin {"begin", "findSwitch"} =>
       (handler.known <=> handler.place.switch \in KnownSwitch)
  /\ handler.event # Null =>
       \E e \in Seen(session) : e.id = handler.event /\ e.place = handler.place
  /\ handler.at \in {"findHouse", "insertEvent"} /\ handler.status = "down" =>
       handler.known /\ handler.peer = PeerAt[handler.place]
  /\ handler.at = "insertLog" =>
       /\ handler.status = "loop" => handler.event # Null
       /\ handler.status = "down" =>
            /\ handler.peer # NoPeer => handler.event # Null
            /\ handler.peer = IF handler.known THEN PeerAt[handler.place] ELSE NoPeer

(* While no query has met an error, an event has its row, or is about to.  *)
EventsHaveRows ==
  /\ session.up /\ (session.begun <=> Working /\ handler.at # "begin")
  /\ \A e \in session.tables.events :
       \E i \in DOMAIN session.tables.log : session.tables.log[i].event = e.id
  /\ \A e \in session.own.events :
       \/ handler.at = "insertLog" /\ handler.event = e.id
       \/ \E i \in DOMAIN session.own.log : session.own.log[i].event = e.id

SwitchLogInv ==
  /\ SwitchLogTypeOK /\ OldestFirst /\ OneRow
  /\ EventRepeated \/ (OneOpen(Seen(session)) /\ (Working => NoneOpen))
  /\ RowsFitAll(session, Excused)
  /\ Working => HandlerOrder /\ (FaultOf(handler.report) \/ HandlerFits)
  /\ query_faults = <<>> => EventsHaveRows

(* The event and the row that a handler writes. *)
NewEvent(h, s) == [id |-> s.nextId, place |-> h.place, peer |-> PeerOf(h), status |-> "active"]
NewRow(h) == [report |-> h.report, place |-> h.place, status |-> h.status,
              known |-> h.known, peer |-> PeerOf(h), event |-> h.event]

(* A handler writes rows and events of the tables' types. *)
LEMMA NewRowTypes ==
  ASSUME NEW h \in HandlerType, NEW s \in Session
  PROVE  NewRow(h) \in LogRow /\ NewEvent(h, s) \in Event
<1>1. h.place \in ReportedPlaces /\ h.peer \in Peers /\ s.nextId \in Nat \ {0}
  BY DEF HandlerType, Session
<1>2. PeerOf(h) \in Peers
  BY <1>1 DEF PeerOf, Peers
<1> QED
  BY <1>1, <1>2 DEF HandlerType, NewRow, NewEvent, LogRow, Event

(* What a session sees has the tables' types; all is committed or its own. *)
LEMMA RowsOfSession ==
  ASSUME NEW s \in Session
  PROVE  /\ AllRows(s) \in Seq(LogRow) /\ s.tables.log \in Seq(LogRow) /\ s.own.log \in Seq(LogRow)
         /\ Seen(s) \subseteq Event /\ s.tables.events \subseteq Seen(s) /\ s.own.events \subseteq Seen(s)
         /\ s.own = NoRows => AllRows(s) = s.tables.log /\ Seen(s) = s.tables.events
         /\ s.tables = [events |-> s.tables.events, log |-> s.tables.log]
         /\ s.own = [events |-> s.own.events, log |-> s.own.log]
<1>1. s.tables \in TableRows /\ s.own \in TableRows
  BY DEF Session
<1>2. s.tables.log \in Seq(LogRow) /\ s.own.log \in Seq(LogRow)
  BY <1>1 DEF TableRows
<1>3. s.tables.events \subseteq Event /\ s.own.events \subseteq Event
  BY <1>1 DEF TableRows
<1>4. AllRows(s) \in Seq(LogRow)
  BY <1>2 DEF AllRows
<1>5. s.own = NoRows => AllRows(s) = s.tables.log /\ Seen(s) = s.tables.events
  BY <1>2 DEF NoRows, AllRows, Seen
<1>6. /\ s.tables = [events |-> s.tables.events, log |-> s.tables.log]
      /\ s.own = [events |-> s.own.events, log |-> s.own.log]
  BY <1>1 DEF TableRows
<1> QED
  BY <1>2, <1>3, <1>4, <1>5, <1>6 DEF Seen

(* A commit makes the tables what the session sees, and changes nothing else. *)
LEMMA CommitFacts ==
  ASSUME NEW s \in Session
  PROVE  /\ Commit(s) \in Session
         /\ Commit(s).tables = [events |-> Seen(s), log |-> AllRows(s)]
         /\ Commit(s).own = NoRows /\ ~Commit(s).begun
         /\ Commit(s).up = s.up /\ Commit(s).lastId = s.lastId /\ Commit(s).nextId = s.nextId
         /\ Seen(Commit(s)) = Seen(s) /\ AllRows(Commit(s)) = AllRows(s)
<1> DEFINE all == [events |-> Seen(s), log |-> AllRows(s)]
           s1 == [s EXCEPT !.tables = all]
           s2 == [s1 EXCEPT !.own = NoRows]
           t == [s2 EXCEPT !.begun = FALSE]
<1>1. Commit(s) = t
  BY DEF Commit, AllRows
<1>2. all \in TableRows /\ NoRows \in TableRows
  <2>1. Seen(s) \subseteq Event /\ AllRows(s) \in Seq(LogRow)
    BY RowsOfSession
  <2>2. NoRows \in TableRows
    BY DEF TableRows, NoRows
  <2> QED BY <2>1, <2>2 DEF TableRows
<1> HIDE DEF all
<1>3. s1 \in Session /\ s1.tables = all /\ s1.lastId = s.lastId /\ s1.nextId = s.nextId /\ s1.up = s.up
  BY <1>2 DEF Session
<1> HIDE DEF s1
<1>4. /\ s2 \in Session /\ s2.tables = all /\ s2.own = NoRows
      /\ s2.lastId = s.lastId /\ s2.nextId = s.nextId /\ s2.up = s.up
  BY <1>2, <1>3 DEF Session
<1> HIDE DEF s2
<1>5. /\ t \in Session /\ t.tables = all /\ t.own = NoRows /\ ~t.begun
      /\ t.lastId = s.lastId /\ t.nextId = s.nextId /\ t.up = s.up
  BY <1>4 DEF Session
<1> HIDE DEF t
<1>6. Seen(t) = Seen(s) /\ AllRows(t) = AllRows(s)
  <2>1. Seen(t) = t.tables.events /\ AllRows(t) = t.tables.log
    BY <1>5, RowsOfSession
  <2> QED BY <2>1, <1>5 DEF all
<1> QED
  BY <1>1, <1>5, <1>6 DEF all

(* A dropped connection loses the session's own rows, and no committed one. *)
LEMMA DroppedFacts ==
  ASSUME NEW s \in Session
  PROVE  /\ SessionOK(Dropped(s))
         /\ Dropped(s).tables = s.tables /\ Dropped(s).own = NoRows
         /\ ~Dropped(s).begun /\ ~Dropped(s).up
         /\ Seen(Dropped(s)) = s.tables.events /\ AllRows(Dropped(s)) = s.tables.log
<1> DEFINE s1 == [s EXCEPT !.own = NoRows]
           s2 == [s1 EXCEPT !.begun = FALSE]
           s3 == [s2 EXCEPT !.lastId = Null]
           t == [s3 EXCEPT !.up = FALSE]
<1>1. Dropped(s) = t
  BY DEF Dropped
<1>2. NoRows \in TableRows
  BY DEF TableRows, NoRows
<1>3. s1 \in Session /\ s1.tables = s.tables /\ s1.own = NoRows
  BY <1>2 DEF Session
<1> HIDE DEF s1
<1>4. s2 \in Session /\ s2.tables = s.tables /\ s2.own = NoRows /\ ~s2.begun
  BY <1>3 DEF Session
<1> HIDE DEF s2
<1>5. s3 \in Session /\ s3.tables = s.tables /\ s3.own = NoRows /\ ~s3.begun
  BY <1>4 DEF Session, Null
<1> HIDE DEF s3
<1>6. t \in Session /\ t.tables = s.tables /\ t.own = NoRows /\ ~t.begun /\ ~t.up
  BY <1>5 DEF Session
<1> HIDE DEF t
<1>7. Seen(t) = s.tables.events /\ AllRows(t) = s.tables.log
  BY <1>6, RowsOfSession
<1> QED
  BY <1>1, <1>6, <1>7 DEF SessionOK

(* Only these two fields change, and nothing that is seen. *)
LEMMA RaisedFacts ==
  ASSUME NEW s, SessionOK(s)
  PROVE  LET t == [s EXCEPT !.up = TRUE]
             u == [s EXCEPT !.lastId = Null]
         IN /\ SessionOK(t) /\ t.tables = s.tables /\ t.own = s.own /\ t.begun = s.begun
            /\ t.up /\ t.nextId = s.nextId /\ Seen(t) = Seen(s) /\ AllRows(t) = AllRows(s)
            /\ SessionOK(u) /\ u.tables = s.tables /\ u.own = s.own /\ u.begun = s.begun
            /\ u.up = s.up /\ Seen(u) = Seen(s) /\ AllRows(u) = AllRows(s)
BY DEF SessionOK, Session, Null, Seen, AllRows

(* A row appended to the second sequence is appended to both. *)
LEMMA AppendConcat ==
  ASSUME NEW Row, NEW a \in Seq(Row), NEW b \in Seq(Row), NEW x \in Row
  PROVE  a \o Append(b, x) = Append(a \o b, x)
<1> DEFINE h == Append(a \o b, x)
<1>1. a \o b \in Seq(Row) /\ Append(b, x) \in Seq(Row) /\ h \in Seq(Row)
  OBVIOUS
<1>2. Len(h) = Len(a) + Len(Append(b, x))
  OBVIOUS
<1>3. h = [i \in 1..Len(a) + Len(Append(b, x)) |-> h[i]]
  <2> HIDE DEF h
  <2>1. h = [i \in 1..Len(h) |-> h[i]]
    BY <1>1
  <2> QED BY <2>1, <1>2
<1>4. \A i \in 1..Len(a) : h[i] = a[i]
  BY <1>1, ConcatElements
<1>5. \A i \in 1..Len(Append(b, x)) : h[Len(a) + i] = Append(b, x)[i]
  <2> SUFFICES ASSUME NEW i \in 1..Len(Append(b, x)) PROVE h[Len(a) + i] = Append(b, x)[i]
    OBVIOUS
  <2>0. i \in 1..Len(b) + 1
    OBVIOUS
  <2>1. CASE i <= Len(b)
    <3>1. (a \o b)[Len(a) + i] = b[i]
      BY <2>0, <2>1, ConcatElements
    <3>2. Append(b, x)[i] = b[i] /\ h[Len(a) + i] = (a \o b)[Len(a) + i]
      BY <2>0, <2>1, <1>1
    <3> QED BY <3>1, <3>2
  <2>2. CASE i = Len(b) + 1
    BY <2>2, <1>1
  <2> QED BY <2>0, <2>1, <2>2
<1> HIDE DEF h
<1> QED
  BY <1>1, <1>3, <1>4, <1>5, ConcatIs, ZenonT(30) DEF h

(* An inserted event is the session's own, and lastId is its number. *)
LEMMA EventInserted ==
  ASSUME NEW s \in Session, NEW e \in Event
  PROVE  LET t == [s EXCEPT !.own.events = @ \union {e}, !.lastId = s.nextId, !.nextId = @ + 1]
         IN /\ t \in Session /\ t.tables = s.tables /\ t.begun = s.begun /\ t.up = s.up
            /\ t.own.events = s.own.events \union {e} /\ t.own.log = s.own.log
            /\ t.lastId = s.nextId /\ Seen(t) = Seen(s) \union {e} /\ AllRows(t) = AllRows(s)
<1> DEFINE s1 == [s EXCEPT !.own.events = @ \union {e}]
           s2 == [s1 EXCEPT !.lastId = s.nextId]
           t == [s2 EXCEPT !.nextId = @ + 1]
<1>1. s.own \in TableRows /\ s.nextId \in Nat \ {0}
  BY DEF Session
<1>2. [s.own EXCEPT !.events = @ \union {e}] \in TableRows
  BY <1>1 DEF TableRows
<1>3. /\ s1 \in Session /\ s1.tables = s.tables /\ s1.begun = s.begun /\ s1.up = s.up
      /\ s1.own.events = s.own.events \union {e} /\ s1.own.log = s.own.log
      /\ s1.nextId = s.nextId
  BY <1>1, <1>2 DEF Session, TableRows
<1> HIDE DEF s1
<1>4. /\ s2 \in Session /\ s2.tables = s.tables /\ s2.begun = s.begun /\ s2.up = s.up
      /\ s2.own = s1.own /\ s2.nextId = s.nextId /\ s2.lastId = s.nextId
  BY <1>1, <1>3 DEF Session
<1> HIDE DEF s2
<1>5. /\ t \in Session /\ t.tables = s.tables /\ t.begun = s.begun /\ t.up = s.up
      /\ t.own = s1.own /\ t.lastId = s.nextId
  BY <1>1, <1>4 DEF Session
<1>6. t = [s EXCEPT !.own.events = @ \union {e}, !.lastId = s.nextId, !.nextId = @ + 1]
  BY <1>3, <1>4 DEF s1, s2
<1> HIDE DEF t
<1>7. Seen(t) = Seen(s) \union {e} /\ AllRows(t) = AllRows(s)
  BY <1>3, <1>5 DEF Seen, AllRows
<1> QED
  BY <1>3, <1>5, <1>6, <1>7

(* An inserted row is the session's own, and stands behind all others. *)
LEMMA RowInserted ==
  ASSUME NEW s \in Session, NEW row \in LogRow
  PROVE  LET t == [s EXCEPT !.own.log = Append(@, row)]
         IN /\ t \in Session /\ t.tables = s.tables /\ t.begun = s.begun /\ t.up = s.up
            /\ t.own.events = s.own.events /\ t.own.log = Append(s.own.log, row)
            /\ Seen(t) = Seen(s) /\ AllRows(t) = Append(AllRows(s), row)
<1> DEFINE t == [s EXCEPT !.own.log = Append(@, row)]
<1>1. s.own \in TableRows /\ s.own.log \in Seq(LogRow) /\ s.tables.log \in Seq(LogRow)
  BY DEF Session, TableRows
<1>2. Append(s.own.log, row) \in Seq(LogRow)
  BY <1>1
<1>3. [s.own EXCEPT !.log = Append(@, row)] \in TableRows
  BY <1>1, <1>2 DEF TableRows
<1>4. /\ t \in Session /\ t.tables = s.tables /\ t.begun = s.begun /\ t.up = s.up
      /\ t.own.events = s.own.events /\ t.own.log = Append(s.own.log, row)
  BY <1>1, <1>3 DEF Session, TableRows
<1> HIDE DEF t
<1>5. Seen(t) = Seen(s)
  BY <1>4 DEF Seen
<1>6. s.tables.log \o Append(s.own.log, row) = Append(s.tables.log \o s.own.log, row)
  <2> DEFINE a == s.tables.log
             b == s.own.log
  <2>1. a \in Seq(LogRow) /\ b \in Seq(LogRow)
    BY <1>1
  <2> HIDE DEF a, b
  <2>2. a \o Append(b, row) = Append(a \o b, row)
    BY <2>1, AppendConcat
  <2> QED BY <2>2 DEF a, b
<1>7. AllRows(t) = Append(AllRows(s), row)
  BY <1>4, <1>6 DEF AllRows
<1> QED
  BY <1>4, <1>5, <1>7 DEF t

(* What a statement does: it stays in the transaction, or all is committed. *)
Executed(t, st, h, s) ==
  /\ SessionOK(t) /\ t.up = s.up
  /\ Seen(t) = IF st = "insertEvent" THEN Seen(s) \union {NewEvent(h, s)} ELSE Seen(s)
  /\ AllRows(t) = IF st = "insertLog" THEN Append(AllRows(s), NewRow(h)) ELSE AllRows(s)
  /\ t.begun <=> st = "begin" \/ (s.begun /\ st # "commit")
  /\ st = "insertEvent" => t.lastId = s.nextId
  /\ IF s.begun /\ st \notin {"begin", "commit"}
     THEN /\ t.tables = s.tables
          /\ t.own.events = IF st = "insertEvent" THEN s.own.events \union {NewEvent(h, s)}
                            ELSE s.own.events
          /\ t.own.log = IF st = "insertLog" THEN Append(s.own.log, NewRow(h))
                         ELSE s.own.log
     ELSE t.tables = [events |-> Seen(t), log |-> AllRows(t)] /\ t.own = NoRows

(* An executed statement does what its name says, and nothing else is seen. *)
LEMMA ExecuteFacts ==
  ASSUME NEW s, SessionOK(s), NEW h \in HandlerType, NEW st \in QueryPoints
  PROVE  Executed(Execute(st, h, s), st, h, s)
<1> DEFINE t == Execute(st, h, s)
           Kept(u) == IF s.begun THEN u ELSE Commit(u)
           c == Commit(s)
           e == NewEvent(h, s)
           row == NewRow(h)
<1> USE DEF SessionOK, Executed
<1>1. s \in Session /\ e \in Event /\ row \in LogRow
  BY NewRowTypes
<1>2. /\ c \in Session /\ c.tables = [events |-> Seen(s), log |-> AllRows(s)]
      /\ c.own = NoRows /\ ~c.begun /\ c.up = s.up /\ Seen(c) = Seen(s) /\ AllRows(c) = AllRows(s)
  BY <1>1, CommitFacts
<1>3. CASE st = "begin"
  <2>1. t = [c EXCEPT !.begun = TRUE]
    BY <1>3 DEF Execute
  <2> HIDE DEF t, c
  <2>2. t \in Session /\ t.tables = c.tables /\ t.own = c.own /\ t.begun /\ t.up = c.up
    BY <2>1, <1>2 DEF Session
  <2>3. Seen(t) = Seen(c) /\ AllRows(t) = AllRows(c)
    BY <2>2 DEF Seen, AllRows
  <2> QED BY <1>2, <1>3, <2>2, <2>3 DEF t
<1>4. CASE st = "commit"
  <2>1. t = c
    BY <1>4 DEF Execute
  <2> QED BY <1>2, <1>4, <2>1
<1>5. CASE st = "insertEvent"
  <2> DEFINE u == [s EXCEPT !.own.events = @ \union {e}, !.lastId = s.nextId, !.nextId = @ + 1]
  <2>1. t = Kept(u)
    BY <1>5 DEF Execute, NewEvent
  <2>2. /\ u \in Session /\ u.tables = s.tables /\ u.begun = s.begun /\ u.up = s.up
        /\ u.own.events = s.own.events \union {e} /\ u.own.log = s.own.log
        /\ u.lastId = s.nextId /\ Seen(u) = Seen(s) \union {e} /\ AllRows(u) = AllRows(s)
    BY <1>1, EventInserted, Zenon
  <2> HIDE DEF u, t, c
  <2>3. CASE s.begun
    BY <1>5, <2>1, <2>2, <2>3 DEF t
  <2>4. CASE ~s.begun
    <3>1. /\ Commit(u) \in Session
          /\ Commit(u).tables = [events |-> Seen(u), log |-> AllRows(u)]
          /\ Commit(u).own = NoRows /\ ~Commit(u).begun
          /\ Commit(u).up = u.up /\ Commit(u).lastId = u.lastId
          /\ Seen(Commit(u)) = Seen(u) /\ AllRows(Commit(u)) = AllRows(u)
      BY <2>2, CommitFacts
    <3>2. t = Commit(u)
      BY <2>1, <2>4
    <3> QED BY <1>5, <2>2, <2>4, <3>1, <3>2 DEF t
  <2> QED BY <2>3, <2>4
<1>6. CASE st = "insertLog"
  <2> DEFINE u == [s EXCEPT !.own.log = Append(@, row)]
  <2>1. t = Kept(u)
    BY <1>6 DEF Execute, NewRow
  <2>2. /\ u \in Session /\ u.tables = s.tables /\ u.begun = s.begun /\ u.up = s.up
        /\ u.own.events = s.own.events /\ u.own.log = Append(s.own.log, row)
        /\ Seen(u) = Seen(s) /\ AllRows(u) = Append(AllRows(s), row)
    BY <1>1, RowInserted
  <2> HIDE DEF u, t, c
  <2>3. CASE s.begun
    BY <1>6, <2>1, <2>2, <2>3 DEF t
  <2>4. CASE ~s.begun
    <3>1. /\ Commit(u) \in Session
          /\ Commit(u).tables = [events |-> Seen(u), log |-> AllRows(u)]
          /\ Commit(u).own = NoRows /\ ~Commit(u).begun
          /\ Commit(u).up = u.up /\ Commit(u).lastId = u.lastId
          /\ Seen(Commit(u)) = Seen(u) /\ AllRows(Commit(u)) = AllRows(u)
      BY <2>2, CommitFacts
    <3>2. t = Commit(u)
      BY <2>1, <2>4
    <3> QED BY <1>6, <2>2, <2>4, <3>1, <3>2 DEF t
  <2> QED BY <2>3, <2>4
<1>7. CASE st \notin {"begin", "commit", "insertEvent", "insertLog"}
  <2>1. t = s
    BY <1>7 DEF Execute
  <2>2. ~s.begun => s.tables = [events |-> Seen(s), log |-> AllRows(s)]
    BY <1>1, RowsOfSession
  <2> QED BY <1>1, <1>7, <2>1, <2>2
<1> QED
  BY <1>3, <1>4, <1>5, <1>6, <1>7

FitIn(rows, events, excused) ==
  \A i \in DOMAIN rows : rows[i].report \in excused \/ RowFits(rows[i], events)

(* RowsFitAll, for the committed rows and the session's own. *)
LEMMA RowsFitAllIs ==
  ASSUME NEW s, NEW excused
  PROVE  RowsFitAll(s, excused) <=>
           FitIn(s.tables.log, s.tables.events, excused) /\ FitIn(s.own.log, Seen(s), excused)
BY DEF RowsFitAll, FitIn

(* Rows fit more events, and more excuses, as well. *)
LEMMA FitMore ==
  ASSUME NEW rows, NEW events, NEW more, events \subseteq more,
         NEW excused, NEW excused2, excused \subseteq excused2, FitIn(rows, events, excused)
  PROVE  FitIn(rows, more, excused2)
BY DEF FitIn, RowFits

(* A row that fits, or is excused, may be appended. *)
LEMMA FitAppend ==
  ASSUME NEW rows \in Seq(LogRow), NEW row \in LogRow, NEW events, NEW excused,
         FitIn(rows, events, excused), row.report \in excused \/ RowFits(row, events)
  PROVE  FitIn(Append(rows, row), events, excused)
<1> SUFFICES ASSUME NEW i \in DOMAIN Append(rows, row)
             PROVE  \/ Append(rows, row)[i].report \in excused
                    \/ RowFits(Append(rows, row)[i], events)
  BY DEF FitIn
<1>1. CASE i \in DOMAIN rows
  <2>1. Append(rows, row)[i] = rows[i]
    BY <1>1
  <2> QED BY <1>1, <2>1 DEF FitIn
<1>2. CASE i \notin DOMAIN rows
  <2>1. Append(rows, row)[i] = row
    BY <1>2
  <2> QED BY <2>1
<1> QED BY <1>1, <1>2

(* Rows that fit may stand behind rows that fit. *)
LEMMA FitConcat ==
  ASSUME NEW a \in Seq(LogRow), NEW b \in Seq(LogRow), NEW events, NEW excused,
         FitIn(a, events, excused), FitIn(b, events, excused)
  PROVE  FitIn(a \o b, events, excused)
<1> DEFINE q == a \o b
<1>1. q \in Seq(LogRow) /\ Len(q) = Len(a) + Len(b)
  OBVIOUS
<1>2. /\ \A i \in 1..Len(a) : q[i] = a[i]
      /\ \A i \in 1..Len(b) : q[Len(a) + i] = b[i]
  BY ConcatElements
<1> HIDE DEF q
<1> SUFFICES ASSUME NEW i \in DOMAIN q PROVE q[i].report \in excused \/ RowFits(q[i], events)
  BY DEF FitIn, q
<1>3. i \in 1..Len(a) + Len(b)
  BY <1>1
<1>4. CASE i <= Len(a)
  <2>1. i \in DOMAIN a /\ q[i] = a[i]
    BY <1>2, <1>3, <1>4
  <2> QED BY <2>1 DEF FitIn
<1>5. CASE i > Len(a)
  <2>1. i - Len(a) \in 1..Len(b) /\ i = Len(a) + (i - Len(a))
    BY <1>3, <1>5
  <2>2. i - Len(a) \in DOMAIN b /\ q[i] = b[i - Len(a)]
    BY <1>2, <2>1
  <2> QED BY <2>2 DEF FitIn
<1> QED BY <1>3, <1>4, <1>5

(* A statement keeps rows fitting, if the row it writes fits or is excused. *)
LEMMA FitExecute ==
  ASSUME NEW s, SessionOK(s), NEW h \in HandlerType, NEW st \in QueryPoints, NEW excused,
         RowsFitAll(s, excused),
         st = "insertLog" => h.report \in excused \/ RowFits(NewRow(h), Seen(s))
  PROVE  RowsFitAll(Execute(st, h, s), excused)
<1> DEFINE t == Execute(st, h, s)
           row == NewRow(h)
<1>1. /\ s \in Session /\ row \in LogRow /\ row.report = h.report
      /\ s.tables.log \in Seq(LogRow) /\ s.own.log \in Seq(LogRow)
      /\ s.tables.events \subseteq Seen(s)
  <2>1. s \in Session
    BY DEF SessionOK
  <2> QED BY <2>1, NewRowTypes, RowsOfSession DEF NewRow
<1>2. FitIn(s.tables.log, s.tables.events, excused) /\ FitIn(s.own.log, Seen(s), excused)
  BY RowsFitAllIs
<1>0. Executed(t, st, h, s)
  BY ExecuteFacts
<1> SUFFICES RowsFitAll(t, excused)
  OBVIOUS
<1> HIDE DEF t
<1>3. SessionOK(t) /\ Seen(s) \subseteq Seen(t)
  BY <1>0 DEF Executed
<1>4. CASE s.begun /\ st \notin {"begin", "commit"}
  <2>1. /\ t.tables = s.tables
        /\ t.own.log = IF st = "insertLog" THEN Append(s.own.log, row) ELSE s.own.log
    BY <1>0, <1>4 DEF Executed
  <2>2. FitIn(s.own.log, Seen(t), excused)
    BY <1>2, <1>3, FitMore
  <2>3. CASE st = "insertLog"
    <3>1. row.report \in excused \/ RowFits(row, Seen(t))
      BY <1>1, <1>3, <2>3 DEF RowFits
    <3>2. FitIn(Append(s.own.log, row), Seen(t), excused)
      BY <1>1, <2>2, <3>1, FitAppend
    <3> QED BY <1>2, <2>1, <2>3, <3>2, RowsFitAllIs
  <2> QED BY <1>2, <2>1, <2>2, <2>3, RowsFitAllIs
<1>5. CASE ~(s.begun /\ st \notin {"begin", "commit"})
  <2>1. /\ t.tables = [events |-> Seen(t), log |-> AllRows(t)] /\ t.own = NoRows
        /\ AllRows(t) = IF st = "insertLog" THEN Append(AllRows(s), row) ELSE AllRows(s)
    BY <1>0, <1>5 DEF Executed
  <2>2. FitIn(AllRows(s), Seen(t), excused)
    <3>1. FitIn(s.tables.log, Seen(t), excused) /\ FitIn(s.own.log, Seen(t), excused)
      BY <1>1, <1>2, <1>3, FitMore
    <3> QED BY <1>1, <3>1, FitConcat DEF AllRows
  <2>3. FitIn(AllRows(t), Seen(t), excused)
    <3>1. CASE st = "insertLog"
      <4>1. row.report \in excused \/ RowFits(row, Seen(t))
        BY <1>1, <1>3, <3>1 DEF RowFits
      <4>2. AllRows(s) \in Seq(LogRow)
        BY <1>1, RowsOfSession
      <4> QED BY <1>1, <2>1, <2>2, <3>1, <4>1, <4>2, FitAppend
    <3> QED BY <2>1, <2>2, <3>1
  <2>4. FitIn(NoRows.log, Seen(t), excused)
    BY DEF FitIn, NoRows
  <2>5. t.tables.log = AllRows(t) /\ t.tables.events = Seen(t) /\ t.own.log = NoRows.log
    BY <2>1
  <2> QED BY <2>3, <2>4, <2>5, RowsFitAllIs
<1> QED BY <1>4, <1>5

(* What a dropped connection leaves fits. *)
LEMMA FitDropped ==
  ASSUME NEW s \in Session, NEW excused, RowsFitAll(s, excused)
  PROVE  RowsFitAll(Dropped(s), excused)
<1>1. Dropped(s).tables = s.tables /\ Dropped(s).own = NoRows
  BY DroppedFacts
<1>2. FitIn(NoRows.log, Seen(Dropped(s)), excused)
  BY DEF FitIn, NoRows
<1> QED BY <1>1, <1>2, RowsFitAllIs

(* The session after a query: the server has answered at once, or an error *)
(* was met, and noted.                                                     *)
Raised(s) == [s EXCEPT !.up = TRUE]
AfterError(s, st, h) ==
  {s, [s EXCEPT !.lastId = Null], Dropped(s), Dropped(Execute(st, h, s))}
AfterAnswer(s, st, h) ==
  IF s.up THEN {Execute(st, h, Raised(Dropped(s))),
                Execute(st, h, Raised(Dropped(Execute(st, h, s))))}
  ELSE {Execute(st, h, Raised(s))}

CleanQuery(st, answered) ==
  /\ session.up /\ answered
  /\ session' = Execute(st, handler, session) /\ query_faults' = query_faults

FaultyQuery(st, answered) ==
  /\ query_faults' = Append(query_faults, [at |-> st, report |-> handler.report,
                                           answered |-> answered, begun |-> session.begun])
  /\ session' \in IF answered THEN AfterAnswer(session, st, handler)
                  ELSE AfterError(session, st, handler)

(* A query meets no error, and is executed, or it meets one. *)
LEMMA QueryCases ==
  ASSUME NEW st, NEW answered \in BOOLEAN, Query(st, answered)
  PROVE  /\ handler.at = st /\ UNCHANGED <<socket, reports>>
         /\ CleanQuery(st, answered) \/ FaultyQuery(st, answered)
<1>1. handler.at = st /\ UNCHANGED <<socket, reports>>
  BY DEF Query
<1>2. CASE /\ session.up /\ answered
           /\ session' = Execute(st, handler, session)
           /\ UNCHANGED query_faults
  BY <1>1, <1>2 DEF CleanQuery
<1>3. ASSUME NEW o \in QueryRaw(st, handler, session),
             answered = o.answered, session' = o.session,
             query_faults' = Append(query_faults, [at |-> st, report |-> handler.report,
                                        answered |-> answered, begun |-> session.begun])
      PROVE  FaultyQuery(st, answered)
  <2>1. session' \in IF o.answered THEN AfterAnswer(session, st, handler)
                     ELSE AfterError(session, st, handler)
    <3>1. CASE ~session.up
      <4>1. \/ o = [session |-> Execute(st, handler, Raised(session)), answered |-> TRUE]
            \/ o = [session |-> session, answered |-> FALSE]
        BY <3>1 DEF QueryRaw, Reconnected, Raised
      <4> QED BY <1>3, <3>1, <4>1 DEF AfterAnswer, AfterError
    <3>2. CASE session.up
      <4> DEFINE d == Dropped(session)
                 de == Dropped(Execute(st, handler, session))
      <4>1. \/ o = [session |-> session, answered |-> FALSE]
            \/ o = [session |-> [session EXCEPT !.lastId = Null], answered |-> FALSE]
            \/ o = [session |-> Execute(st, handler, Raised(d)), answered |-> TRUE]
            \/ o = [session |-> d, answered |-> FALSE]
            \/ o = [session |-> Execute(st, handler, Raised(de)), answered |-> TRUE]
            \/ o = [session |-> de, answered |-> FALSE]
        BY <3>2 DEF QueryRaw, Reconnected, Raised
      <4> QED BY <1>3, <3>2, <4>1 DEF AfterAnswer, AfterError
    <3> QED BY <3>1, <3>2
  <2> QED BY <1>3, <2>1 DEF FaultyQuery
<1>4. QED
  BY <1>1, <1>2, <1>3 DEF Query

(* What an error may have done: the session has lost what it had not       *)
(* committed, or has not, and the statement has been executed, or has not. *)
(* It was executed twice only if it was committed at once, and repeated.   *)
RowsAfter(t, s, st, h, answered) ==
  \E q \in {s.tables.log, AllRows(s)} :
    \/ AllRows(t) = q
    \/ /\ st = "insertLog"
       /\ \/ AllRows(t) = Append(q, NewRow(h))
          \/ answered /\ ~s.begun /\ AllRows(t) = Append(Append(q, NewRow(h)), NewRow(h))

EventsAfter(t, s, st, h, answered) ==
  \/ Seen(t) \subseteq Seen(s)
  \/ /\ st = "insertEvent"
     /\ \E a, b : /\ a.place = h.place /\ b.place = h.place
                  /\ Seen(t) \subseteq Seen(s) \union {a, b}
                  /\ a = b \/ (answered /\ ~s.begun)

(* After an error the statement was executed never, once or twice. *)
LEMMA FaultySession ==
  ASSUME NEW s, SessionOK(s), NEW h \in HandlerType, NEW st \in QueryPoints,
         NEW answered \in BOOLEAN,
         NEW t \in IF answered THEN AfterAnswer(s, st, h) ELSE AfterError(s, st, h)
  PROVE  /\ SessionOK(t)
         /\ RowsAfter(t, s, st, h, answered)
         /\ EventsAfter(t, s, st, h, answered)
         /\ \A excused : h.report \in excused /\ RowsFitAll(s, excused) => RowsFitAll(t, excused)
<1> DEFINE e == Execute(st, h, s)
           d == Dropped(s)
           ud == Raised(d)
           de == Dropped(e)
           ude == Raised(de)
           us == Raised(s)
           ls == [s EXCEPT !.lastId = Null]
           eud == Execute(st, h, ud)
           eude == Execute(st, h, ude)
           eus == Execute(st, h, us)
           Fits(x) == \A excused : h.report \in excused /\ RowsFitAll(s, excused) => RowsFitAll(x, excused)
<1>1. t \in IF answered THEN (IF s.up THEN {eud, eude} ELSE {eus}) ELSE {s, ls, d, de}
  BY DEF AfterAnswer, AfterError
<1> HIDE DEF e, d, ud, de, ude, us, ls, eud, eude, eus
<1>2. s \in Session /\ s.tables.events \subseteq Seen(s)
  BY RowsOfSession DEF SessionOK
<1>3. Executed(e, st, h, s) /\ Fits(e)
  BY ExecuteFacts, FitExecute DEF e
<1>4. /\ SessionOK(d) /\ ~d.begun /\ AllRows(d) = s.tables.log /\ Seen(d) = s.tables.events /\ Fits(d)
  BY <1>2, DroppedFacts, FitDropped DEF d
<1>5. /\ SessionOK(de) /\ ~de.begun /\ AllRows(de) = e.tables.log /\ Seen(de) = e.tables.events /\ Fits(de)
  <2>1. e \in Session
    BY <1>3 DEF Executed, SessionOK
  <2> QED BY <1>3, <2>1, DroppedFacts, FitDropped DEF de
<1>6. \A x : SessionOK(x) =>
        /\ SessionOK(Raised(x)) /\ Raised(x).begun = x.begun
        /\ AllRows(Raised(x)) = AllRows(x) /\ Seen(Raised(x)) = Seen(x)
        /\ \A excused : RowsFitAll(x, excused) => RowsFitAll(Raised(x), excused)
  BY RaisedFacts DEF Raised, RowsFitAll
<1>7. SessionOK(ls) /\ AllRows(ls) = AllRows(s) /\ Seen(ls) = Seen(s) /\ Fits(ls)
  BY RaisedFacts DEF ls, RowsFitAll
<1>8. /\ SessionOK(ud) /\ ~ud.begun /\ AllRows(ud) = s.tables.log /\ Seen(ud) = s.tables.events /\ Fits(ud)
  BY <1>4, <1>6 DEF ud
<1>9. /\ SessionOK(ude) /\ ~ude.begun /\ AllRows(ude) = e.tables.log /\ Seen(ude) = e.tables.events
      /\ Fits(ude)
  BY <1>5, <1>6 DEF ude
<1>10. /\ SessionOK(us) /\ us.begun = s.begun /\ AllRows(us) = AllRows(s) /\ Seen(us) = Seen(s)
       /\ Fits(us)
  BY <1>6 DEF us
<1>11. Executed(eud, st, h, ud) /\ Fits(eud)
  BY <1>8, ExecuteFacts, FitExecute DEF eud
<1>12. Executed(eude, st, h, ude) /\ Fits(eude)
  BY <1>9, ExecuteFacts, FitExecute DEF eude
<1>13. Executed(eus, st, h, us) /\ Fits(eus)
  BY <1>10, ExecuteFacts, FitExecute DEF eus
<1>14. SessionOK(t)
  BY <1>1, <1>3, <1>4, <1>5, <1>7, <1>11, <1>12, <1>13 DEF Executed
<1>15. Fits(t)
  <2>1. Fits(s)
    OBVIOUS
  <2> HIDE DEF Fits
  <2> QED BY <1>1, <2>1, <1>3, <1>4, <1>5, <1>7, <1>11, <1>12, <1>13
<1>16. RowsAfter(t, s, st, h, answered)
  <2> DEFINE row == NewRow(h)
  <2>1. IF s.begun /\ st \notin {"begin", "commit"} THEN e.tables.log = s.tables.log
        ELSE e.tables.log = IF st = "insertLog" THEN Append(AllRows(s), row) ELSE AllRows(s)
    <3>1. AllRows(e) = IF st = "insertLog" THEN Append(AllRows(s), row) ELSE AllRows(s)
      BY <1>3 DEF Executed
    <3>2. IF s.begun /\ st \notin {"begin", "commit"} THEN e.tables.log = s.tables.log
          ELSE e.tables.log = AllRows(e)
      <4>1. IF s.begun /\ st \notin {"begin", "commit"} THEN e.tables = s.tables
            ELSE e.tables = [events |-> Seen(e), log |-> AllRows(e)]
        BY <1>3 DEF Executed
      <4> QED BY <4>1
    <3> QED BY <3>1, <3>2
  <2>2. AllRows(eud) = IF st = "insertLog" THEN Append(s.tables.log, row) ELSE s.tables.log
    BY <1>8, <1>11 DEF Executed
  <2>3. AllRows(eude) = IF st = "insertLog" THEN Append(e.tables.log, row) ELSE e.tables.log
    BY <1>9, <1>12 DEF Executed
  <2>4. AllRows(eus) = IF st = "insertLog" THEN Append(AllRows(s), row) ELSE AllRows(s)
    BY <1>10, <1>13 DEF Executed
  <2> HIDE DEF row
  <2>5. CASE answered
    BY <1>1, <2>1, <2>2, <2>3, <2>4, <2>5 DEF RowsAfter, row
  <2>6. CASE ~answered
    BY <1>1, <2>1, <1>4, <1>5, <1>7, <2>6 DEF RowsAfter, row
  <2> QED BY <2>5, <2>6
<1>17. EventsAfter(t, s, st, h, answered)
  <2> DEFINE New(x) == IF st = "insertEvent" THEN {NewEvent(h, x)} ELSE {}
  <2>0. \A x : NewEvent(h, x).place = h.place
    BY DEF NewEvent
  <2>1. IF s.begun /\ st \notin {"begin", "commit"} THEN e.tables.events = s.tables.events
        ELSE e.tables.events = Seen(s) \union New(s)
    BY <1>3 DEF Executed
  <2>2. Seen(eud) = s.tables.events \union New(ud)
    BY <1>8, <1>11 DEF Executed
  <2>3. Seen(eude) = e.tables.events \union New(ude)
    BY <1>9, <1>12 DEF Executed
  <2>4. Seen(eus) = Seen(s) \union New(us)
    BY <1>10, <1>13 DEF Executed
  <2>5. CASE st # "insertEvent"
    <3>1. New(s) = {} /\ New(ud) = {} /\ New(ude) = {} /\ New(us) = {}
      BY <2>5
    <3> HIDE DEF New
    <3>2. Seen(t) \subseteq Seen(s)
      BY <1>1, <1>2, <1>4, <1>5, <1>7, <2>1, <2>2, <2>3, <2>4, <3>1
    <3> QED BY <3>2 DEF EventsAfter
  <2>6. CASE st = "insertEvent"
    <3> SUFFICES \E a, b : /\ a.place = h.place /\ b.place = h.place
                           /\ Seen(t) \subseteq Seen(s) \union {a, b}
                           /\ a = b \/ (answered /\ ~s.begun)
      BY <2>6 DEF EventsAfter
    <3> DEFINE n(x) == NewEvent(h, x)
    <3>0. \A x : New(x) = {n(x)}
      BY <2>6
    <3> HIDE DEF New, n
    <3>00. \A x : n(x).place = h.place
      BY <2>0 DEF n
    <3>1. CASE t = eud
      <4>1. Seen(t) \subseteq Seen(s) \union {n(ud), n(ud)}
        BY <1>2, <2>2, <3>0, <3>1
      <4> QED BY <4>1, <3>00
    <3>2. CASE t = eus
      <4>1. Seen(t) \subseteq Seen(s) \union {n(us), n(us)}
        BY <1>2, <2>4, <3>0, <3>2
      <4> QED BY <4>1, <3>00
    <3>3. CASE t = eude /\ s.begun
      <4>1. Seen(t) \subseteq Seen(s) \union {n(ude), n(ude)}
        BY <1>2, <2>1, <2>3, <2>6, <3>0, <3>3
      <4> QED BY <4>1, <3>00
    <3>4. CASE t = eude /\ ~s.begun /\ answered
      <4>1. Seen(t) \subseteq Seen(s) \union {n(s), n(ude)}
        BY <1>2, <2>1, <2>3, <2>6, <3>0, <3>4
      <4> QED BY <4>1, <3>00, <3>4
    <3>5. CASE t \in {s, ls, d, de}
      <4>1. Seen(t) \subseteq Seen(s) \union {n(s), n(s)}
        BY <1>2, <1>4, <1>5, <1>7, <2>1, <3>0, <3>5
      <4> QED BY <4>1, <3>00
    <3> QED BY <1>1, <3>1, <3>2, <3>3, <3>4, <3>5
  <2> QED BY <2>5, <2>6
<1> QED BY <1>14, <1>15, <1>16, <1>17

FaultOfQuery(st, answered) ==
  [at |-> st, report |-> handler.report, answered |-> answered, begun |-> session.begun]

(* What the invariant needs to know of a query, with an error or without. *)
LEMMA QueryFacts ==
  ASSUME SwitchLogTypeOK, handler \in HandlerType,
         NEW st \in QueryPoints, NEW answered \in BOOLEAN, Query(st, answered)
  PROVE  /\ handler.at = st /\ UNCHANGED <<socket, reports>>
         /\ SessionOK(session') /\ query_faults' \in Seq(QueryFault) /\ Faulty \subseteq Faulty'
         /\ \/ /\ Executed(session', st, handler, session)
               /\ session.up /\ answered /\ query_faults' = query_faults
            \/ FaultOfQuery(st, answered) \in Faulty' /\ query_faults' # <<>>
         /\ RowsAfter(session', session, st, handler, answered /\ FaultOfQuery(st, answered) \in Faulty')
         /\ EventsAfter(session', session, st, handler, answered /\ FaultOfQuery(st, answered) \in Faulty')
         /\ \A excused :
              /\ RowsFitAll(session, excused)
              /\ st = "insertLog" => handler.report \in excused \/ RowFits(NewRow(handler), Seen(session))
              /\ FaultOfQuery(st, answered) \in Faulty' => handler.report \in excused
              => RowsFitAll(session', excused)
<1> DEFINE f == FaultOfQuery(st, answered)
<1>1. SessionOK(session) /\ query_faults \in Seq(QueryFault)
  BY DEF SwitchLogTypeOK
<1>2. handler.at = st /\ UNCHANGED <<socket, reports>>
  BY QueryCases
<1>3. CASE CleanQuery(st, answered)
  <2>1. /\ session.up /\ answered /\ query_faults' = query_faults
        /\ session' = Execute(st, handler, session)
    BY <1>3 DEF CleanQuery
  <2>2. Executed(session', st, handler, session)
    BY <1>1, <2>1, ExecuteFacts
  <2>3. Faulty \subseteq Faulty'
    BY <2>1 DEF Faulty
  <2>4. \A p : RowsAfter(session', session, st, handler, p)
    BY <2>2 DEF Executed, RowsAfter
  <2>5. \A p : EventsAfter(session', session, st, handler, p)
    <3>1. CASE st # "insertEvent"
      BY <2>2, <3>1 DEF Executed, EventsAfter
    <3>2. CASE st = "insertEvent"
      <4> DEFINE e == NewEvent(handler, session)
      <4>1. e.place = handler.place
        BY DEF NewEvent
      <4>2. Seen(session') \subseteq Seen(session) \union {e, e}
        BY <2>2, <3>2 DEF Executed
      <4> QED BY <3>2, <4>1, <4>2 DEF EventsAfter
    <3> QED BY <3>1, <3>2
  <2>6. \A excused :
          /\ RowsFitAll(session, excused)
          /\ st = "insertLog" => handler.report \in excused \/ RowFits(NewRow(handler), Seen(session))
          => RowsFitAll(session', excused)
    BY <1>1, <2>1, FitExecute
  <2> QED BY <1>1, <1>2, <2>1, <2>2, <2>3, <2>4, <2>5, <2>6 DEF Executed
<1>4. CASE FaultyQuery(st, answered)
  <2>1. query_faults' = Append(query_faults, f)
    BY <1>4 DEF FaultyQuery, FaultOfQuery
  <2>2. session' \in IF answered THEN AfterAnswer(session, st, handler)
                     ELSE AfterError(session, st, handler)
    BY <1>4 DEF FaultyQuery
  <2>3. f \in QueryFault
    BY <1>1 DEF FaultOfQuery, QueryFault, HandlerType, SessionOK, Session
  <2> HIDE DEF f
  <2>4. query_faults' \in Seq(QueryFault) /\ query_faults' # <<>>
    BY <1>1, <2>1, <2>3
  <2>5. Faulty \subseteq Faulty' /\ f \in Faulty'
    <3>1. DOMAIN query_faults \subseteq DOMAIN query_faults'
      BY <1>1, <2>1, <2>3
    <3>2. \A i \in DOMAIN query_faults : query_faults'[i] = query_faults[i]
      BY <1>1, <2>1, <2>3
    <3>3. Len(query_faults) + 1 \in DOMAIN query_faults' /\ query_faults'[Len(query_faults) + 1] = f
      BY <1>1, <2>1, <2>3
    <3> QED BY <3>1, <3>2, <3>3 DEF Faulty
  <2>6. /\ SessionOK(session')
        /\ RowsAfter(session', session, st, handler, answered)
        /\ EventsAfter(session', session, st, handler, answered)
        /\ \A excused : handler.report \in excused /\ RowsFitAll(session, excused) => RowsFitAll(session', excused)
    BY <1>1, <2>2, FaultySession
  <2> QED BY <1>2, <2>4, <2>5, <2>6 DEF f, RowsAfter, EventsAfter
<1> QED BY <1>3, <1>4, QueryCases

(* The committed rows are the first of all rows. *)
LEMMA RowsPrefix ==
  ASSUME NEW s \in Session, NEW q \in {s.tables.log, AllRows(s)}
  PROVE  /\ q \in Seq(LogRow)
         /\ \A i \in DOMAIN q : i \in DOMAIN AllRows(s) /\ AllRows(s)[i] = q[i]
<1> DEFINE a == s.tables.log
           b == s.own.log
<1>1. a \in Seq(LogRow) /\ b \in Seq(LogRow) /\ AllRows(s) = a \o b /\ AllRows(s) \in Seq(LogRow)
  BY RowsOfSession DEF AllRows
<1> HIDE DEF a, b
<1>2. \A i \in 1..Len(a) : (a \o b)[i] = a[i]
  BY <1>1, ConcatElements
<1>3. \A i \in DOMAIN a : i \in DOMAIN (a \o b) /\ (a \o b)[i] = a[i]
  BY <1>1, <1>2
<1> QED BY <1>1, <1>3 DEF a

(* A row is one there was, or the one that insertLog writes. *)
LEMMA QueryRows ==
  ASSUME SwitchLogTypeOK, OldestFirst, OneRow, handler \in HandlerType,
         NEW st \in QueryPoints, NEW answered \in BOOLEAN, Query(st, answered),
         \/ handler' = Idle
         \/ /\ handler' \in HandlerType /\ handler'.report = handler.report
            /\ st # "commit" /\ (st = "insertLog" => handler'.at = "commit")
  PROVE  OldestFirst' /\ OneRow'
<1> DEFINE rows == AllRows(session)
           row == NewRow(handler)
           n == handler.report
           again == answered /\ FaultOfQuery(st, answered) \in Faulty'
           Again(m) == \E f \in Faulty' : f.report = m /\ f.at = "insertLog" /\ f.answered /\ ~f.begun
<1>1. /\ handler.at = st /\ UNCHANGED <<socket, reports>> /\ Faulty \subseteq Faulty'
      /\ RowsAfter(session', session, st, handler, again)
      /\ session \in Session /\ handler # Idle
  BY QueryFacts DEF SwitchLogTypeOK, SessionOK, HandlerType, Idle, QueryPoints
<1>2. row \in LogRow /\ row.report = n /\ n \in Nat
  BY <1>1, NewRowTypes DEF NewRow, HandlerType
<1>3. /\ rows \in Seq(LogRow)
      /\ Taken(n)
      /\ \A i \in DOMAIN rows :
           Taken(rows[i].report) /\ (rows[i].report < n \/ (rows[i].report = n /\ st = "commit"))
  BY <1>1, RowsOfSession DEF OldestFirst, Working, Taken
<1>4. PICK q \in {session.tables.log, rows} :
        \/ AllRows(session') = q
        \/ /\ st = "insertLog"
           /\ \/ AllRows(session') = Append(q, row)
              \/ again /\ ~session.begun /\ AllRows(session') = Append(Append(q, row), row)
  BY <1>1 DEF RowsAfter
<1>5. q \in Seq(LogRow) /\ \A i \in DOMAIN q : i \in DOMAIN rows /\ rows[i] = q[i]
  BY <1>1, RowsPrefix
<1> DEFINE new == AllRows(session')
<1>6. again /\ st = "insertLog" /\ ~session.begun => Again(n)
  <2> DEFINE f == FaultOfQuery(st, answered)
  <2>1. /\ f.report = n /\ f.at = st /\ (f.answered <=> answered) /\ (f.begun <=> session.begun)
    BY <1>1 DEF FaultOfQuery, SessionOK, Session
  <2> HIDE DEF f
  <2>2. again => answered /\ f \in Faulty'
    BY DEF f
  <2> QED BY <2>1, <2>2
<1>7. \A m : RowRepeated(m) => Again(m)
  BY <1>1 DEF RowRepeated
<1> HIDE DEF rows, row, n, again, Again
(* What is new stands behind the old rows. *)
<1>8. \A i \in DOMAIN new :
        \/ i \in DOMAIN q /\ new[i] = q[i]
        \/ st = "insertLog" /\ i \notin DOMAIN q /\ new[i] = row
  <2> HIDE DEF new
  <2>1. CASE new = q
    BY <2>1
  <2>2. CASE st = "insertLog" /\ new = Append(q, row)
    BY <1>2, <1>5, <2>2
  <2>3. CASE st = "insertLog" /\ new = Append(Append(q, row), row)
    <3>1. Append(q, row) \in Seq(LogRow)
      BY <1>2, <1>5
    <3>2. \A i \in DOMAIN Append(q, row) :
            \/ i \in DOMAIN q /\ Append(q, row)[i] = q[i]
            \/ i \notin DOMAIN q /\ Append(q, row)[i] = row
      BY <1>2, <1>5
    <3>3. \A i \in DOMAIN new :
            \/ i \in DOMAIN Append(q, row) /\ new[i] = Append(q, row)[i]
            \/ i \notin DOMAIN Append(q, row) /\ new[i] = row
      BY <1>2, <3>1, <2>3
    <3>4. DOMAIN q \subseteq DOMAIN Append(q, row)
      BY <1>2, <1>5
    <3> QED BY <2>3, <3>2, <3>3, <3>4
  <2> QED BY <1>4, <2>1, <2>2, <2>3 DEF new
<1>9. \A i, j \in DOMAIN new : i \notin DOMAIN q /\ j \notin DOMAIN q /\ i # j => Again(n)
  <2>1. CASE new = Append(Append(q, row), row) /\ again /\ ~session.begun /\ st = "insertLog"
    BY <1>6, <2>1
  <2>2. CASE new = q
    BY <2>2
  <2>3. CASE new = Append(q, row)
    <3> HIDE DEF new
    <3>1. \A i \in DOMAIN new : i \in DOMAIN q \/ i = Len(q) + 1
      BY <1>2, <1>5, <2>3
    <3> QED BY <3>1
  <2> QED BY <1>4, <2>1, <2>2, <2>3
<1> HIDE DEF new
<1>10. \A i \in DOMAIN new :
         /\ Taken(new[i].report)
         /\ new[i].report < n \/ (new[i].report = n /\ st \in {"insertLog", "commit"})
  BY <1>2, <1>3, <1>5, <1>8
<1>11. OldestFirst'
  <2>1. \A i \in DOMAIN new :
          /\ Taken(new[i].report)
          /\ handler' # Idle =>
               \/ new[i].report < handler'.report
               \/ new[i].report = handler'.report /\ handler'.at = "commit"
    BY <1>10 DEF n
  <2>2. handler' # Idle => Taken(handler'.report)
    BY <1>3 DEF n
  <2> QED BY <1>1, <2>1, <2>2 DEF OldestFirst, Working, Taken, new
<1>12. OneRow'
  <2> SUFFICES ASSUME NEW i \in DOMAIN new, NEW j \in DOMAIN new, i # j, new[i].report = new[j].report
               PROVE  Again(new[i].report)
    BY DEF OneRow, RowRepeated, Again, new
  <2>1. CASE i \in DOMAIN q /\ j \in DOMAIN q
    <3>1. new[i] = rows[i] /\ new[j] = rows[j] /\ i \in DOMAIN rows /\ j \in DOMAIN rows
      BY <1>5, <1>8, <2>1
    <3>2. RowRepeated(new[i].report)
      BY <3>1 DEF OneRow, rows
    <3> QED BY <1>7, <3>2
  <2>2. CASE i \notin DOMAIN q /\ j \notin DOMAIN q
    <3>1. new[i].report = n
      BY <1>2, <1>8, <2>2
    <3> QED BY <1>9, <2>2, <3>1
  <2>3. \A k, l \in DOMAIN new : k \in DOMAIN q /\ l \notin DOMAIN q => new[k].report # new[l].report
    <3> SUFFICES ASSUME NEW k \in DOMAIN new, NEW l \in DOMAIN new, k \in DOMAIN q, l \notin DOMAIN q
                 PROVE  new[k].report # new[l].report
      OBVIOUS
    <3>1. st = "insertLog" /\ new[l].report = n
      BY <1>2, <1>8
    <3>2. k \in DOMAIN rows /\ new[k] = rows[k]
      BY <1>5, <1>8
    <3>3. rows[k].report < n
      BY <1>3, <3>1, <3>2
    <3>4. rows[k].report \in Nat
      BY <1>3, <3>2 DEF Taken
    <3> QED BY <1>2, <3>1, <3>2, <3>3, <3>4
  <2> QED BY <2>1, <2>2, <2>3
<1> QED BY <1>11, <1>12

(* An event more is open only after an answer that was not believed, or a  *)
(* statement that was executed twice.                                      *)
LEMMA QueryEvents ==
  ASSUME SwitchLogTypeOK, handler \in HandlerType,
         NEW st \in QueryPoints, NEW answered \in BOOLEAN, Query(st, answered),
         EventRepeated \/ (OneOpen(Seen(session)) /\
           (st = "insertEvent" => Active(Seen(session), handler.place) = {}))
  PROVE  /\ EventRepeated' \/ OneOpen(Seen(session'))
         /\ EventRepeated => EventRepeated'
         /\ st = "findEvent" /\ ~answered => EventRepeated'
         /\ st # "insertEvent" => Seen(session') \subseteq Seen(session)
<1> DEFINE f == FaultOfQuery(st, answered)
           again == answered /\ f \in Faulty'
<1>1. /\ Faulty \subseteq Faulty'
      /\ answered \/ f \in Faulty'
      /\ EventsAfter(session', session, st, handler, again)
  BY QueryFacts
<1>2. /\ f.report = handler.report /\ f.at = st /\ (f.answered <=> answered)
      /\ (f.begun <=> session.begun)
  BY DEF FaultOfQuery, SwitchLogTypeOK, SessionOK, Session
<1> HIDE DEF f
<1>3. EventRepeated => EventRepeated'
  BY <1>1 DEF EventRepeated
<1>4. st = "findEvent" /\ ~answered => EventRepeated'
  BY <1>1, <1>2 DEF EventRepeated
<1>5. st # "insertEvent" => Seen(session') \subseteq Seen(session)
  BY <1>1 DEF EventsAfter
<1>6. ASSUME ~EventRepeated' PROVE OneOpen(Seen(session'))
  <2>1. OneOpen(Seen(session)) /\ (st = "insertEvent" => Active(Seen(session), handler.place) = {})
    BY <1>3, <1>6
  <2>2. CASE Seen(session') \subseteq Seen(session)
    BY <2>1, <2>2 DEF OneOpen
  <2>3. CASE ~(Seen(session') \subseteq Seen(session))
    <3>1. PICK a, b : /\ a.place = handler.place /\ b.place = handler.place
                      /\ Seen(session') \subseteq Seen(session) \union {a, b}
                      /\ a = b \/ (again /\ ~session.begun)
      BY <1>1, <2>3 DEF EventsAfter
    <3>2. st = "insertEvent"
      BY <1>1, <2>3 DEF EventsAfter
    <3>3. ~(again /\ ~session.begun)
      BY <1>2, <1>6, <3>2 DEF EventRepeated
    <3>4. Seen(session') \subseteq Seen(session) \union {a}
      BY <3>1, <3>3
    <3>5. \A e \in Seen(session) : e.place = handler.place => e.status # "active"
      BY <2>1, <3>2 DEF Active
    <3> QED BY <2>1, <3>1, <3>4, <3>5 DEF OneOpen
  <2> QED BY <2>2, <2>3
<1> QED BY <1>3, <1>4, <1>5, <1>6

(* The handlers that met an error are the excused ones. *)
LEMMA FaultOfIs == \A n : FaultOf(n) <=> n \in Excused
BY DEF FaultOf, Excused

(* A handler that met no error writes a row that fits. *)
LEMMA NewRowFits ==
  ASSUME handler \in HandlerType, handler.at = "insertLog", HandlerOrder, HandlerFits
  PROVE  RowFits(NewRow(handler), Seen(session))
<1> DEFINE row == NewRow(handler)
<1>1. /\ row.event = handler.event /\ row.place = handler.place /\ row.status = handler.status
      /\ row.known = handler.known /\ row.peer = PeerOf(handler)
  BY DEF NewRow
<1> HIDE DEF row
<1>2. row.peer = IF handler.status = "loop" /\ handler.known THEN handler.place.switch ELSE handler.peer
  BY <1>1 DEF PeerOf
<1>3. handler.status = "loop" => handler.peer = NoPeer
  BY DEF HandlerOrder
<1>4. handler.known <=> handler.place.switch \in KnownSwitch
  BY DEF HandlerFits
<1>5. row.event # Null => \E e \in Seen(session) : e.id = row.event /\ e.place = row.place
  BY <1>1 DEF HandlerFits
<1>6. row.status = "loop" =>
        row.event # Null /\ row.peer = IF row.known THEN row.place.switch ELSE NoPeer
  BY <1>1, <1>2, <1>3 DEF HandlerFits
<1>7. row.status = "down" => row.peer = handler.peer
  BY <1>1, <1>2
<1>8. row.status = "down" =>
        /\ row.peer # NoPeer => row.event # Null
        /\ row.peer = IF row.place.switch \in KnownSwitch THEN PeerAt[row.place] ELSE NoPeer
  BY <1>1, <1>4, <1>7 DEF HandlerFits
<1> QED BY <1>5, <1>6, <1>8 DEF RowFits, row

(* After a query the rows fit, and its handler met an error or knows as before. *)
LEMMA QueryFits ==
  ASSUME SwitchLogTypeOK, handler \in HandlerType, RowsFitAll(session, Excused),
         HandlerOrder, FaultOf(handler.report) \/ HandlerFits,
         NEW st \in QueryPoints, NEW answered \in BOOLEAN, Query(st, answered)
  PROVE  /\ RowsFitAll(session', Excused')
         /\ \/ handler.report \in Excused'
            \/ /\ Executed(session', st, handler, session) /\ session.up /\ answered
               /\ HandlerFits
<1> DEFINE f == FaultOfQuery(st, answered)
<1>1. /\ handler.at = st /\ Faulty \subseteq Faulty'
      /\ \/ Executed(session', st, handler, session) /\ session.up /\ answered
         \/ f \in Faulty'
  BY QueryFacts
<1>2. f.report = handler.report
  BY DEF FaultOfQuery
<1>3. Excused \subseteq Excused' /\ (f \in Faulty' => handler.report \in Excused')
  BY <1>1, <1>2 DEF Excused
<1>4. RowsFitAll(session, Excused')
  BY <1>3, FitMore, RowsFitAllIs
<1>5. st = "insertLog" => handler.report \in Excused' \/ RowFits(NewRow(handler), Seen(session))
  BY <1>1, <1>3, NewRowFits, FaultOfIs
<1>6. RowsFitAll(session', Excused')
  BY <1>3, <1>4, <1>5, QueryFacts
<1>7. FaultOf(handler.report) => handler.report \in Excused'
  BY <1>3, FaultOfIs
<1> QED BY <1>1, <1>3, <1>6, <1>7

(* Nothing is committed but at the end, when all events have their rows. *)
LEMMA QueryRecords ==
  ASSUME SwitchLogTypeOK, handler \in HandlerType, EventsHaveRows,
         NEW st \in QueryPoints, handler.at = st,
         Executed(session', st, handler, session), session.up,
         IF st = "commit" THEN handler' = Idle
         ELSE handler' \in HandlerType /\ handler'.at # "begin",
         st = "insertEvent" => handler'.at = "insertLog" /\ handler'.event = session'.lastId
  PROVE  EventsHaveRows'
<1> DEFINE s == session
           t == session'
           Rowed(e, rows) == \E i \in DOMAIN rows : rows[i].event = e.id
<1>1. /\ s.begun <=> st # "begin"
      /\ \A e \in s.tables.events : Rowed(e, s.tables.log)
      /\ \A e \in s.own.events :
           (st = "insertLog" /\ handler.event = e.id) \/ Rowed(e, s.own.log)
      /\ s \in Session /\ (~s.begun => s.own = NoRows)
  BY DEF EventsHaveRows, Working, SwitchLogTypeOK, SessionOK, HandlerType, Idle, QueryPoints
<1>2. t.up /\ (t.begun <=> handler' # Idle /\ handler'.at # "begin")
  BY <1>1 DEF Executed, EventsHaveRows, HandlerType, Idle, QueryPoints
<1>3. /\ s.tables.log \in Seq(LogRow) /\ s.own.log \in Seq(LogRow)
      /\ NewRow(handler) \in LogRow /\ NewRow(handler).event = handler.event
  BY <1>1, RowsOfSession, NewRowTypes DEF NewRow
<1>4. CASE st \notin {"begin", "commit"}
  <2>1. /\ t.tables = s.tables
        /\ t.own.events = IF st = "insertEvent" THEN s.own.events \union {NewEvent(handler, s)}
                          ELSE s.own.events
        /\ t.own.log = IF st = "insertLog" THEN Append(s.own.log, NewRow(handler)) ELSE s.own.log
        /\ st = "insertEvent" => t.lastId = s.nextId
    BY <1>1, <1>4 DEF Executed
  <2>2. NewEvent(handler, s).id = s.nextId
    BY DEF NewEvent
  <2>3. ASSUME NEW e \in t.own.events
        PROVE  (handler'.at = "insertLog" /\ handler'.event = e.id) \/ Rowed(e, t.own.log)
    <3>1. CASE st = "insertEvent"
      BY <1>1, <2>1, <2>2, <2>3, <3>1
    <3>2. CASE st = "insertLog"
      <4>1. DOMAIN s.own.log \subseteq DOMAIN t.own.log
        BY <1>3, <2>1, <3>2
      <4>2. \A i \in DOMAIN s.own.log : t.own.log[i] = s.own.log[i]
        BY <1>3, <2>1, <3>2
      <4>3. /\ Len(s.own.log) + 1 \in DOMAIN t.own.log
            /\ t.own.log[Len(s.own.log) + 1] = NewRow(handler)
        BY <1>3, <2>1, <3>2
      <4>4. CASE handler.event = e.id
        BY <1>3, <4>3, <4>4
      <4>5. CASE Rowed(e, s.own.log)
        BY <4>1, <4>2, <4>5
      <4> QED BY <1>1, <2>1, <2>3, <3>2, <4>4, <4>5
    <3>3. CASE st \notin {"insertEvent", "insertLog"}
      BY <1>1, <2>1, <2>3, <3>3
    <3> QED BY <3>1, <3>2, <3>3
  <2> QED BY <1>1, <1>2, <2>1, <2>3 DEF EventsHaveRows, Working
<1>5. CASE st \in {"begin", "commit"}
  <2>1. t.tables = [events |-> Seen(s), log |-> AllRows(s)] /\ t.own = NoRows
    <3>1. Seen(t) = Seen(s) /\ AllRows(t) = AllRows(s)
      BY <1>5 DEF Executed
    <3>2. t.tables = [events |-> Seen(t), log |-> AllRows(t)] /\ t.own = NoRows
      BY <1>5 DEF Executed
    <3> QED BY <3>1, <3>2
  <2>2. t.tables.events = Seen(s) /\ t.tables.log = AllRows(s) /\ t.own.events = {}
    BY <2>1 DEF NoRows
  <2>3. /\ \A i \in 1..Len(s.tables.log) :
             i \in DOMAIN AllRows(s) /\ AllRows(s)[i] = s.tables.log[i]
        /\ \A i \in 1..Len(s.own.log) :
             /\ Len(s.tables.log) + i \in DOMAIN AllRows(s)
             /\ AllRows(s)[Len(s.tables.log) + i] = s.own.log[i]
    <3> DEFINE a == s.tables.log
               b == s.own.log
    <3>1. a \in Seq(LogRow) /\ b \in Seq(LogRow)
      BY <1>3
    <3> HIDE DEF a, b
    <3>2. /\ \A i \in 1..Len(a) : (a \o b)[i] = a[i]
          /\ \A i \in 1..Len(b) : (a \o b)[Len(a) + i] = b[i]
      BY <3>1, ConcatElements
    <3>3. a \o b \in Seq(LogRow) /\ Len(a \o b) = Len(a) + Len(b)
      BY <3>1
    <3>4. AllRows(s) = a \o b
      BY DEF AllRows, a, b
    <3>5. /\ \A i \in 1..Len(a) : i \in DOMAIN (a \o b)
          /\ \A i \in 1..Len(b) : Len(a) + i \in DOMAIN (a \o b)
      BY <3>1, <3>3
    <3> QED BY <3>2, <3>4, <3>5 DEF a, b
  <2>4. ASSUME NEW e \in Seen(s) PROVE Rowed(e, AllRows(s))
    <3>1. CASE e \in s.tables.events
      <4>1. PICK i \in DOMAIN s.tables.log : s.tables.log[i].event = e.id
        BY <1>1, <3>1
      <4>2. i \in 1..Len(s.tables.log)
        BY <1>3
      <4> QED BY <2>3, <4>1, <4>2
    <3>2. CASE e \in s.own.events
      <4>1. PICK i \in DOMAIN s.own.log : s.own.log[i].event = e.id
        BY <1>1, <1>5, <3>2
      <4>2. i \in 1..Len(s.own.log)
        BY <1>3
      <4> QED BY <2>3, <4>1, <4>2
    <3> QED BY <2>4, <3>1, <3>2 DEF Seen
  <2> QED BY <1>2, <2>2, <2>4 DEF EventsHaveRows, Working
<1> QED BY <1>4, <1>5

(* What the handler must see to after its query, for the invariant to hold. *)
LEMMA QueryInv ==
  ASSUME SwitchLogInv, handler \in HandlerType,
         NEW st \in QueryPoints, NEW answered \in BOOLEAN, Query(st, answered),
         IF st = "commit" THEN handler' = Idle
         ELSE /\ handler' \in HandlerType /\ handler'.report = handler.report
              /\ handler'.at # "begin" /\ (st = "insertLog" => handler'.at = "commit")
              /\ HandlerOrder' /\ (EventRepeated \/ NoneOpen => EventRepeated' \/ NoneOpen')
              /\ /\ HandlerFits /\ session.up /\ answered
                 /\ Executed(session', st, handler, session)
                 => HandlerFits',
         st = "insertEvent" => handler'.at = "insertLog" /\ handler'.event = session'.lastId
  PROVE  SwitchLogInv'
<1>1. /\ handler.at = st /\ UNCHANGED <<socket, reports>>
      /\ SessionOK(session') /\ query_faults' \in Seq(QueryFault)
      /\ \/ /\ Executed(session', st, handler, session)
            /\ session.up /\ answered /\ query_faults' = query_faults
         \/ query_faults' # <<>>
  BY QueryFacts DEF SwitchLogInv
<1>2. SwitchLogTypeOK'
  BY <1>1 DEF SwitchLogInv, SwitchLogTypeOK
<1>3. Working
  BY DEF Working, HandlerType, Idle, QueryPoints
<1>4. OldestFirst' /\ OneRow'
  BY QueryRows DEF SwitchLogInv
<1>5. EventRepeated \/ (OneOpen(Seen(session)) /\ NoneOpen)
  BY <1>3 DEF SwitchLogInv
<1>6. EventRepeated' \/ (OneOpen(Seen(session))' /\ (Working => NoneOpen)')
  <2>1. st = "insertEvent" /\ NoneOpen => Active(Seen(session), handler.place) = {}
    BY <1>1, <1>3 DEF SwitchLogInv, HandlerOrder, NoneOpen
  <2>2. /\ EventRepeated' \/ OneOpen(Seen(session'))
        /\ EventRepeated => EventRepeated'
    BY <1>5, <2>1, QueryEvents DEF SwitchLogInv
  <2> QED BY <1>5, <2>2 DEF Working
<1>7. /\ RowsFitAll(session, Excused)'
      /\ \/ handler.report \in Excused'
         \/ Executed(session', st, handler, session) /\ session.up /\ answered /\ HandlerFits
  BY <1>3, QueryFits DEF SwitchLogInv
<1>8. (Working => HandlerOrder /\ (FaultOf(handler.report) \/ HandlerFits))'
  BY <1>7, FaultOfIs DEF Working, FaultOf, Excused
<1>9. (query_faults = <<>> => EventsHaveRows)'
  <2> SUFFICES ASSUME query_faults' = <<>> PROVE EventsHaveRows'
    OBVIOUS
  <2>1. /\ Executed(session', st, handler, session) /\ session.up
        /\ query_faults = <<>>
    BY <1>1
  <2> QED BY <1>1, <2>1, QueryRecords DEF SwitchLogInv
<1> QED BY <1>2, <1>4, <1>6, <1>7, <1>8, <1>9 DEF SwitchLogInv


(* The handler after a query that met no error, or that met one. *)
LEMMA HandlerMoves ==
  ASSUME NEW h \in HandlerType, NEW point \in QueryPoints
  PROVE  LET t == [h EXCEPT !.at = point]
         IN /\ t \in HandlerType /\ t.at = point /\ t.report = h.report /\ t.place = h.place
            /\ t.status = h.status /\ (t.known <=> h.known) /\ t.event = h.event /\ t.peer = h.peer
BY DEF HandlerType

(* The handler with the number of an event. *)
LEMMA HandlerFinds ==
  ASSUME NEW h \in HandlerType, NEW event \in Nat
  PROVE  LET t == [h EXCEPT !.event = event]
         IN /\ t \in HandlerType /\ t.at = h.at /\ t.report = h.report /\ t.place = h.place
            /\ t.status = h.status /\ (t.known <=> h.known) /\ t.event = event /\ t.peer = h.peer
BY DEF HandlerType

(* The handler with a peer. *)
LEMMA HandlerLearns ==
  ASSUME NEW h \in HandlerType, NEW peer \in Peers
  PROVE  LET t == [h EXCEPT !.peer = peer]
         IN /\ t \in HandlerType /\ t.at = h.at /\ t.report = h.report /\ t.place = h.place
            /\ t.status = h.status /\ (t.known <=> h.known) /\ t.event = h.event /\ t.peer = peer
BY DEF HandlerType

(* Only a handler that has come to a query puts it. *)
LEMMA HandlerAt ==
  ASSUME SwitchLogInv, NEW st \in QueryPoints, NEW answered, Query(st, answered)
  PROVE  handler \in HandlerType /\ handler.at = st /\ HandlerOrder /\ session \in Session
BY DEF SwitchLogInv, SwitchLogTypeOK, SessionOK, Query, Idle, QueryPoints, Working

(* What a handler that met no error had found is there after its query.    *)
LEMMA HandlerKeeps ==
  ASSUME HandlerFits, session.up, handler \in HandlerType,
         NEW st \in QueryPoints, handler.at = st, st # "commit",
         Executed(session', st, handler, session)
  PROVE  /\ session'.up /\ session'.begun
         /\ handler.event # Null =>
              \E e \in Seen(session') : e.id = handler.event /\ e.place = handler.place
<1>1. session'.up = session.up /\ Seen(session) \subseteq Seen(session')
  BY DEF Executed
<1>2. session'.begun <=> st = "begin" \/ (session.begun /\ st # "commit")
  BY DEF Executed
<1> QED BY <1>1, <1>2 DEF HandlerFits

(* The handler begins a transaction: all it does is committed together. *)
LEMMA BeginInv == ASSUME SwitchLogInv, Begin PROVE SwitchLogInv'
<1>1. PICK answered \in BOOLEAN :
        Query("begin", answered) /\ handler' = [handler EXCEPT !.at = "findSwitch"]
  BY DEF Begin
<1> DEFINE st == "begin"
<1>2. st \in QueryPoints /\ "findSwitch" \in QueryPoints
  BY DEF QueryPoints
<1>3. handler \in HandlerType /\ handler.at = st /\ HandlerOrder
  BY <1>1, <1>2, HandlerAt
<1>4. /\ handler' \in HandlerType /\ handler'.at = "findSwitch" /\ handler'.report = handler.report
      /\ handler'.place = handler.place /\ handler'.event = handler.event /\ handler'.peer = handler.peer
  BY <1>1, <1>2, <1>3, HandlerMoves
<1>5. HandlerOrder' /\ NoneOpen'
  BY <1>3, <1>4 DEF HandlerOrder, NoneOpen
<1>6. ASSUME HandlerFits, session.up, Executed(session', st, handler, session)
      PROVE  HandlerFits'
  BY <1>2, <1>3, <1>4, <1>6, HandlerKeeps DEF HandlerFits
<1> QED BY <1>1, <1>2, <1>3, <1>4, <1>5, <1>6, QueryInv

(* It knows whether the switch is in the table, if the query was answered. *)
LEMMA FindSwitchInv == ASSUME SwitchLogInv, FindSwitch PROVE SwitchLogInv'
<1>1. PICK answered \in BOOLEAN :
        /\ Query("findSwitch", answered)
        /\ handler' = [handler EXCEPT !.at = "findEvent",
                                      !.known = answered /\ handler.place.switch \in KnownSwitch]
  BY Zenon DEF FindSwitch
<1> DEFINE st == "findSwitch"
           found == answered /\ handler.place.switch \in KnownSwitch
           h == [handler EXCEPT !.at = "findEvent"]
<1>2. st \in QueryPoints /\ "findEvent" \in QueryPoints
  BY DEF QueryPoints
<1>3. handler \in HandlerType /\ handler.at = st /\ HandlerOrder
  BY <1>1, <1>2, HandlerAt
<1>4. found \in BOOLEAN
  OBVIOUS
<1>5. handler' = [h EXCEPT !.known = found]
  BY <1>1, <1>3 DEF HandlerType
<1>6. /\ h \in HandlerType /\ h.at = "findEvent" /\ h.report = handler.report
      /\ h.place = handler.place /\ h.event = handler.event /\ h.peer = handler.peer
  BY <1>2, <1>3, HandlerMoves
<1>7. found <=> answered /\ handler.place.switch \in KnownSwitch
  OBVIOUS
<1> HIDE DEF h, found
<1>8. /\ handler' \in HandlerType /\ handler'.at = "findEvent" /\ handler'.report = handler.report
      /\ handler'.place = handler.place /\ handler'.event = handler.event
      /\ handler'.peer = handler.peer /\ (handler'.known <=> found)
  BY <1>4, <1>5, <1>6 DEF HandlerType
<1>9. HandlerOrder' /\ NoneOpen'
  <2>1. handler.peer = NoPeer
    BY <1>3 DEF HandlerOrder
  <2> QED BY <1>8, <2>1 DEF HandlerOrder, NoneOpen
<1>10. ASSUME HandlerFits, session.up, answered, Executed(session', st, handler, session)
       PROVE  HandlerFits'
  BY <1>2, <1>3, <1>7, <1>8, <1>10, HandlerKeeps DEF HandlerFits
<1> QED BY <1>1, <1>2, <1>3, <1>8, <1>9, <1>10, QueryInv

(* The event it finds is of its port; without an answer, that is noted. *)
LEMMA FindEventInv == ASSUME SwitchLogInv, FindEvent PROVE SwitchLogInv'
<1> DEFINE st == "findEvent"
           found == {e.id : e \in Active(Seen(session'), handler.place)}
<1>1. PICK answered \in BOOLEAN :
        /\ Query("findEvent", answered)
        /\ LET h == [handler EXCEPT !.event = IF answered /\ found # {} THEN Min(found) ELSE Null]
           IN handler' = [h EXCEPT !.at = AfterEvent(h)]
  BY Zenon DEF FindEvent
<1> DEFINE event == IF answered /\ found # {} THEN Min(found) ELSE Null
           h == [handler EXCEPT !.event = event]
<1>2. st \in QueryPoints /\ "findPeer" \in QueryPoints
      /\ "insertEvent" \in QueryPoints /\ "insertLog" \in QueryPoints
  BY DEF QueryPoints
<1>3. handler \in HandlerType /\ handler.at = st /\ HandlerOrder
  BY <1>1, <1>2, HandlerAt
<1>4. session' \in Session /\ Seen(session') \subseteq Event
  <2>1. SessionOK(session')
    BY <1>1, <1>2, <1>3, QueryFacts DEF SwitchLogInv
  <2>2. session' \in Session
    BY <2>1 DEF SessionOK
  <2> QED BY <2>2, RowsOfSession
(* The number is that of an open event of the place, or there is none.     *)
<1>5. /\ event \in Nat
      /\ event # Null => \E e \in Seen(session') : e.id = event /\ e.place = handler.place
      /\ answered /\ event = Null => Active(Seen(session'), handler.place) = {}
  <2>1. \A e \in Active(Seen(session'), handler.place) :
          e \in Seen(session') /\ e.place = handler.place /\ e.id \in Nat \ {0}
    BY <1>4 DEF Active, Event
  <2>2. found \subseteq Nat \ {0}
    BY <2>1
  <2>3. \A n \in found : \E e \in Seen(session') : e.id = n /\ e.place = handler.place
    BY <2>1
  <2>4. found = {} => Active(Seen(session'), handler.place) = {}
    OBVIOUS
  <2> HIDE DEF found
  <2>5. found # {} => Min(found) \in found
    BY <2>2, LeastNumber
  <2> QED BY <2>2, <2>3, <2>4, <2>5 DEF Null
<1>6. handler' = [h EXCEPT !.at = AfterEvent(h)]
  BY <1>1
<1> HIDE DEF event
<1>7. /\ h \in HandlerType /\ h.report = handler.report /\ h.place = handler.place
      /\ h.status = handler.status /\ (h.known <=> handler.known)
      /\ h.event = event /\ h.peer = handler.peer
  BY <1>3, <1>5, HandlerFinds
<1> HIDE DEF h
<1>8. /\ AfterEvent(h) \in QueryPoints
      /\ AfterEvent(h) \in {"findPeer", "insertEvent", "insertLog"}
      /\ AfterEvent(h) = "findPeer" <=> h.status = "down" /\ h.known
      /\ AfterEvent(h) = "insertEvent" => h.event = Null
      /\ AfterEvent(h) = "insertLog" => (h.status = "loop" => h.event # Null)
  BY <1>2 DEF AfterEvent
<1>9. /\ handler' \in HandlerType /\ handler'.at = AfterEvent(h) /\ handler'.report = handler.report
      /\ handler'.place = handler.place /\ handler'.status = handler.status
      /\ (handler'.known <=> handler.known) /\ handler'.event = event /\ handler'.peer = handler.peer
  BY <1>6, <1>7, <1>8, HandlerMoves
<1>10. HandlerOrder'
  <2>1. handler.peer = NoPeer
    BY <1>3 DEF HandlerOrder
  <2> QED BY <1>7, <1>8, <1>9, <2>1 DEF HandlerOrder
<1>11. EventRepeated \/ NoneOpen => EventRepeated' \/ NoneOpen'
  <2>1. CASE answered
    BY <1>5, <1>9, <2>1 DEF NoneOpen
  <2>2. CASE ~answered
    <3>1. EventRepeated \/ OneOpen(Seen(session))
      BY DEF SwitchLogInv
    <3> QED BY <1>1, <1>2, <1>3, <2>2, <3>1, QueryEvents DEF SwitchLogInv
  <2> QED BY <2>1, <2>2
<1>12. ASSUME HandlerFits, session.up, answered, Executed(session', st, handler, session)
       PROVE  HandlerFits'
  <2>1. session'.up /\ session'.begun
    BY <1>2, <1>3, <1>12, HandlerKeeps
  <2>2. handler.known <=> handler.place.switch \in KnownSwitch
    BY <1>3, <1>12 DEF HandlerFits
  <2>3. handler.peer = NoPeer
    BY <1>3 DEF HandlerOrder
  <2>4. handler'.at = "insertEvent" => handler'.status # "down"
    BY <1>7, <1>8, <1>9 DEF AfterEvent
  <2> QED BY <1>5, <1>7, <1>8, <1>9, <2>1, <2>2, <2>3, <2>4 DEF HandlerFits
<1>13. handler'.at # "begin"
  BY <1>8, <1>9
<1>14. Query(st, answered)
  BY <1>1
<1> HIDE DEF found, st
<1> QED BY <1>2, <1>3, <1>9, <1>10, <1>11, <1>12, <1>13, <1>14, QueryInv DEF st

(* It looks for a peer only when a known switch reports a port down. *)
LEMMA FindPeerInv == ASSUME SwitchLogInv, FindPeer PROVE SwitchLogInv'
<1> DEFINE st == "findPeer"
<1>1. PICK answered \in BOOLEAN :
        /\ Query("findPeer", answered)
        /\ LET h == [handler EXCEPT !.peer = IF answered THEN PeerAt[handler.place] ELSE NoPeer]
           IN handler' = [h EXCEPT !.at = IF h.peer # NoPeer /\ h.event = Null
                                          THEN "findHouse" ELSE "insertLog"]
  BY Zenon DEF FindPeer
<1> DEFINE peer == IF answered THEN PeerAt[handler.place] ELSE NoPeer
           h == [handler EXCEPT !.peer = peer]
           point == IF h.peer # NoPeer /\ h.event = Null THEN "findHouse" ELSE "insertLog"
<1>2. st \in QueryPoints /\ point \in QueryPoints
  BY DEF QueryPoints
<1>3. handler \in HandlerType /\ handler.at = st /\ HandlerOrder
  BY <1>1, <1>2, HandlerAt
<1>4. peer \in Peers
  BY <1>3 DEF Peers, HandlerType
<1>5. handler' = [h EXCEPT !.at = point]
  BY <1>1
<1>6. /\ answered => peer = PeerAt[handler.place]
      /\ handler.status = "down" /\ handler.known
  BY <1>3 DEF HandlerOrder
<1> HIDE DEF peer
<1>7. /\ h \in HandlerType /\ h.report = handler.report /\ h.place = handler.place
      /\ h.status = handler.status /\ (h.known <=> handler.known)
      /\ h.event = handler.event /\ h.peer = peer
  BY <1>3, <1>4, HandlerLearns
<1> HIDE DEF h
<1>8. /\ point \in {"findHouse", "insertLog"}
      /\ point = "findHouse" <=> h.peer # NoPeer /\ h.event = Null
  OBVIOUS
<1> HIDE DEF point
<1>9. /\ handler' \in HandlerType /\ handler'.at = point /\ handler'.report = handler.report
      /\ handler'.place = handler.place /\ handler'.status = handler.status
      /\ (handler'.known <=> handler.known) /\ handler'.event = handler.event /\ handler'.peer = peer
  BY <1>2, <1>5, <1>7, HandlerMoves
<1>10. HandlerOrder'
  BY <1>6, <1>7, <1>8, <1>9 DEF HandlerOrder
<1>11. EventRepeated \/ NoneOpen => EventRepeated' \/ NoneOpen'
  <2>1. EventRepeated => EventRepeated'
    <3>1. EventRepeated \/ OneOpen(Seen(session))
      BY DEF SwitchLogInv
    <3> QED BY <1>1, <1>2, <1>3, <3>1, QueryEvents DEF SwitchLogInv
  <2>2. ASSUME NoneOpen, ~EventRepeated PROVE NoneOpen'
    <3>1. OneOpen(Seen(session))
      BY <2>2 DEF SwitchLogInv
    <3>2. Seen(session') \subseteq Seen(session)
      BY <1>1, <1>2, <1>3, <3>1, QueryEvents DEF SwitchLogInv
    <3> QED BY <1>3, <1>9, <2>2, <3>2 DEF NoneOpen, Active
  <2> QED BY <2>1, <2>2
<1>12. ASSUME HandlerFits, session.up, answered, Executed(session', st, handler, session)
       PROVE  HandlerFits'
  <2>1. /\ session'.up /\ session'.begun
        /\ handler.event # Null =>
             \E e \in Seen(session') : e.id = handler.event /\ e.place = handler.place
    BY <1>2, <1>3, <1>12, HandlerKeeps
  <2>2. handler.known <=> handler.place.switch \in KnownSwitch
    BY <1>3, <1>12 DEF HandlerFits
  <2> QED BY <1>6, <1>7, <1>8, <1>9, <1>12, <2>1, <2>2 DEF HandlerFits
<1>13. handler'.at # "begin"
  BY <1>8, <1>9
<1> QED BY <1>1, <1>2, <1>3, <1>9, <1>10, <1>11, <1>12, <1>13, QueryInv

(* The search for the house changes nothing that the row depends on. *)
LEMMA FindHouseInv == ASSUME SwitchLogInv, FindHouse PROVE SwitchLogInv'
<1>1. PICK answered \in BOOLEAN :
        Query("findHouse", answered) /\ handler' = [handler EXCEPT !.at = "insertEvent"]
  BY DEF FindHouse
<1> DEFINE st == "findHouse"
<1>2. st \in QueryPoints /\ "insertEvent" \in QueryPoints
  BY DEF QueryPoints
<1>3. handler \in HandlerType /\ handler.at = st /\ HandlerOrder
  BY <1>1, <1>2, HandlerAt
<1>4. /\ handler' \in HandlerType /\ handler'.at = "insertEvent" /\ handler'.report = handler.report
      /\ handler'.place = handler.place /\ handler'.status = handler.status
      /\ (handler'.known <=> handler.known)
      /\ handler'.event = handler.event /\ handler'.peer = handler.peer
  BY <1>1, <1>2, <1>3, HandlerMoves
<1>5. HandlerOrder'
  BY <1>3, <1>4 DEF HandlerOrder
<1>6. EventRepeated \/ NoneOpen => EventRepeated' \/ NoneOpen'
  <2>1. EventRepeated => EventRepeated'
    <3>1. EventRepeated \/ OneOpen(Seen(session))
      BY DEF SwitchLogInv
    <3> QED BY <1>1, <1>2, <1>3, <3>1, QueryEvents DEF SwitchLogInv
  <2>2. ASSUME NoneOpen, ~EventRepeated PROVE NoneOpen'
    <3>1. OneOpen(Seen(session))
      BY <2>2 DEF SwitchLogInv
    <3>2. Seen(session') \subseteq Seen(session)
      BY <1>1, <1>2, <1>3, <3>1, QueryEvents DEF SwitchLogInv
    <3> QED BY <1>3, <1>4, <2>2, <3>2 DEF NoneOpen, Active
  <2> QED BY <2>1, <2>2
<1>7. ASSUME HandlerFits, session.up, Executed(session', st, handler, session)
      PROVE  HandlerFits'
  <2>1. /\ session'.up /\ session'.begun
        /\ handler.event # Null =>
             \E e \in Seen(session') : e.id = handler.event /\ e.place = handler.place
    BY <1>2, <1>3, <1>7, HandlerKeeps
  <2>2. /\ handler.known <=> handler.place.switch \in KnownSwitch
        /\ handler.status = "down" => handler.known /\ handler.peer = PeerAt[handler.place]
    BY <1>3, <1>7 DEF HandlerFits
  <2> QED BY <1>4, <2>1, <2>2 DEF HandlerFits
<1> QED BY <1>1, <1>2, <1>3, <1>4, <1>5, <1>6, <1>7, QueryInv

(* The event that it opens is the one that its row will name. *)
LEMMA InsertEventInv == ASSUME SwitchLogInv, InsertEvent PROVE SwitchLogInv'
<1>1. PICK answered \in BOOLEAN :
        /\ Query("insertEvent", answered)
        /\ handler' = [handler EXCEPT !.at = "insertLog", !.event = session'.lastId]
  BY DEF InsertEvent
<1> DEFINE st == "insertEvent"
           h == [handler EXCEPT !.at = "insertLog"]
<1>2. st \in QueryPoints /\ "insertLog" \in QueryPoints
  BY DEF QueryPoints
<1>3. handler \in HandlerType /\ handler.at = st /\ HandlerOrder /\ session \in Session
  BY <1>1, <1>2, HandlerAt
<1>4. session'.lastId \in Nat
  <2>1. SessionOK(session')
    BY <1>1, <1>2, <1>3, QueryFacts DEF SwitchLogInv
  <2> QED BY <2>1 DEF SessionOK, Session
<1>5. /\ h \in HandlerType /\ h.at = "insertLog" /\ h.report = handler.report
      /\ h.place = handler.place /\ h.status = handler.status /\ (h.known <=> handler.known)
      /\ h.event = handler.event /\ h.peer = handler.peer
  BY <1>2, <1>3, HandlerMoves
<1>6. handler' = [h EXCEPT !.event = session'.lastId]
  BY <1>1, <1>3 DEF HandlerType
<1> HIDE DEF h
<1>7. /\ handler' \in HandlerType /\ handler'.at = "insertLog" /\ handler'.report = handler.report
      /\ handler'.place = handler.place /\ handler'.status = handler.status
      /\ (handler'.known <=> handler.known)
      /\ handler'.event = session'.lastId /\ handler'.peer = handler.peer
  BY <1>4, <1>5, <1>6, HandlerFinds
<1>8. HandlerOrder' /\ NoneOpen'
  BY <1>3, <1>7 DEF HandlerOrder, NoneOpen
<1>9. ASSUME HandlerFits, session.up, Executed(session', st, handler, session)
      PROVE  HandlerFits'
  <2>1. session'.up /\ session'.begun
    BY <1>2, <1>3, <1>9, HandlerKeeps
  <2>2. /\ handler.known <=> handler.place.switch \in KnownSwitch
        /\ handler.status = "down" => handler.known /\ handler.peer = PeerAt[handler.place]
    BY <1>3, <1>9 DEF HandlerFits
  <2>3. /\ session'.lastId = session.nextId
        /\ NewEvent(handler, session) \in Seen(session')
    BY <1>9 DEF Executed
  <2>4. /\ NewEvent(handler, session).id = session.nextId
        /\ NewEvent(handler, session).place = handler.place
    BY DEF NewEvent
  <2>5. session.nextId # Null
    BY <1>3 DEF Session, Null
  <2> QED BY <1>7, <2>1, <2>2, <2>3, <2>4, <2>5 DEF HandlerFits
<1> QED BY <1>1, <1>2, <1>3, <1>7, <1>8, <1>9, QueryInv

(* The row is written once, unless the statement was repeated. *)
LEMMA InsertLogInv == ASSUME SwitchLogInv, InsertLog PROVE SwitchLogInv'
<1>1. PICK answered \in BOOLEAN :
        Query("insertLog", answered) /\ handler' = [handler EXCEPT !.at = "commit"]
  BY DEF InsertLog
<1> DEFINE st == "insertLog"
<1>2. st \in QueryPoints /\ "commit" \in QueryPoints
  BY DEF QueryPoints
<1>3. handler \in HandlerType /\ handler.at = st /\ HandlerOrder
  BY <1>1, <1>2, HandlerAt
<1>4. /\ handler' \in HandlerType /\ handler'.at = "commit" /\ handler'.report = handler.report
      /\ handler'.place = handler.place /\ handler'.status = handler.status
      /\ (handler'.known <=> handler.known)
      /\ handler'.event = handler.event /\ handler'.peer = handler.peer
  BY <1>1, <1>2, <1>3, HandlerMoves
<1>5. HandlerOrder' /\ NoneOpen'
  BY <1>3, <1>4 DEF HandlerOrder, NoneOpen
<1>6. ASSUME HandlerFits, session.up, Executed(session', st, handler, session)
      PROVE  HandlerFits'
  <2>1. /\ session'.up /\ session'.begun
        /\ handler.event # Null =>
             \E e \in Seen(session') : e.id = handler.event /\ e.place = handler.place
    BY <1>2, <1>3, <1>6, HandlerKeeps
  <2>2. handler.known <=> handler.place.switch \in KnownSwitch
    BY <1>3, <1>6 DEF HandlerFits
  <2> QED BY <1>4, <2>1, <2>2 DEF HandlerFits
<1> QED BY <1>1, <1>2, <1>3, <1>4, <1>5, <1>6, QueryInv

(* The commit ends the handler. *)
LEMMA CommitWorkInv == ASSUME SwitchLogInv, CommitWork PROVE SwitchLogInv'
<1>1. PICK answered \in BOOLEAN : Query("commit", answered) /\ handler' = Idle
  BY DEF CommitWork
<1> DEFINE st == "commit"
<1>2. st \in QueryPoints
  BY DEF QueryPoints
<1>3. handler \in HandlerType /\ handler.at = st /\ HandlerOrder
  BY <1>1, <1>2, HandlerAt
<1> QED BY <1>1, <1>2, <1>3, QueryInv

(* Every query of every handler keeps the invariant. *)
LEMMA HandlingInv == ASSUME SwitchLogInv, Handling PROVE SwitchLogInv'
BY BeginInv, FindSwitchInv, FindEventInv, FindPeerInv, FindHouseInv, InsertEventInv,
   InsertLogInv, CommitWorkInv DEF Handling

(* Initially there are no rows, no events and no handler. *)
LEMMA SwitchLogInitInv == ASSUME SwitchLogInit PROVE SwitchLogInv
<1>1. SwitchLogTypeOK
  <2>1. NoRows \in TableRows
    BY DEF NoRows, TableRows
  <2>2. session \in Session
    BY <2>1 DEF SwitchLogInit, Session, Null
  <2> QED BY <2>2 DEF SwitchLogInit, SwitchLogTypeOK, SessionOK
<1>2. Seen(session) = {} /\ AllRows(session) = <<>> /\ ~Working
  BY DEF SwitchLogInit, Seen, AllRows, NoRows, Working
<1>3. /\ DOMAIN socket.queue = {} /\ DOMAIN AllRows(session) = {}
      /\ DOMAIN session.tables.log = {} /\ DOMAIN session.own.log = {}
      /\ session.tables.events = {} /\ session.own.events = {}
  <2>1. /\ socket.queue = <<>> /\ session.tables.log = <<>> /\ session.own.log = <<>>
        /\ session.tables.events = {} /\ session.own.events = {}
    BY DEF SwitchLogInit, NoRows
  <2>2. \A s : s = <<>> => DOMAIN s = {}
    OBVIOUS
  <2> QED BY <1>2, <2>1, <2>2
<1>4. OldestFirst /\ OneRow
  BY <1>2, <1>3 DEF OldestFirst, OneRow
<1>5. OneOpen(Seen(session)) /\ RowsFitAll(session, Excused)
  BY <1>2, <1>3 DEF OneOpen, RowsFitAll
<1>6. EventsHaveRows
  <2>1. session.up /\ ~session.begun
    BY DEF SwitchLogInit
  <2> QED BY <1>2, <1>3, <2>1 DEF EventsHaveRows
<1> QED BY <1>1, <1>2, <1>4, <1>5, <1>6 DEF SwitchLogInv

(* A step of the socket alone. *)
LEMMA SocketInv ==
  ASSUME SwitchLogInv, UNCHANGED <<handler, session, query_faults>>,
         socket' \in [state : {"closed", "bound", "unbound", "detached"}, queue : Seq(Nat)],
         reports' \in Seq(Reports), OldestFirst'
  PROVE  SwitchLogInv'
<1>1. Faulty' = Faulty /\ Excused' = Excused /\ (EventRepeated' <=> EventRepeated)
  BY DEF Faulty, Excused, EventRepeated
<1>2. SwitchLogTypeOK' /\ (OneRow' <=> OneRow) /\ (NoneOpen' <=> NoneOpen)
  BY <1>1 DEF SwitchLogInv, SwitchLogTypeOK, OneRow, RowRepeated, NoneOpen
<1>3. (Working' <=> Working) /\ (HandlerOrder' <=> HandlerOrder) /\ (HandlerFits' <=> HandlerFits)
      /\ (FaultOf(handler.report)' <=> FaultOf(handler.report)) /\ (EventsHaveRows' <=> EventsHaveRows)
  BY <1>1 DEF Working, HandlerOrder, HandlerFits, FaultOf, EventsHaveRows
<1> QED BY <1>1, <1>2, <1>3 DEF SwitchLogInv

(* bind() and onTerminate() change the socket's state only. *)
LEMMA BindInv == ASSUME SwitchLogInv, Bind \/ OnTerminate PROVE SwitchLogInv'
<1>1. PICK state \in {"bound", "unbound", "detached"} :
        socket' = [socket EXCEPT !.state = state]
  BY DEF Bind, OnTerminate
<1>2. UNCHANGED <<reports, handler, session, query_faults>>
  BY DEF Bind, OnTerminate
<1>3. /\ socket' \in [state : {"closed", "bound", "unbound", "detached"}, queue : Seq(Nat)]
      /\ socket'.queue = socket.queue
  BY <1>1 DEF SwitchLogInv, SwitchLogTypeOK
<1>4. OldestFirst'
  BY <1>2, <1>3 DEF SwitchLogInv, OldestFirst, Taken, Working
<1> QED BY <1>2, <1>3, <1>4, SocketInv DEF SwitchLogInv, SwitchLogTypeOK

(* A report that arrives has the greatest number, and waits behind the others. *)
LEMMA ArrivesInv == ASSUME SwitchLogInv, NEW r \in Reports, Arrives(r) PROVE SwitchLogInv'
<1> DEFINE q == socket.queue
           n == Len(reports) + 1
<1>1. /\ reports \in Seq(Reports) /\ q \in Seq(Nat)
      /\ reports' = Append(reports, r) /\ Len(reports') = n
      /\ socket' = [socket EXCEPT !.queue = Append(q, n)]
      /\ UNCHANGED <<handler, session, query_faults>>
  BY DEF SwitchLogInv, SwitchLogTypeOK, Arrives
<1>2. n \in Nat /\ 1..Len(reports) \subseteq 1..n /\ Len(reports) < n
  BY <1>1
<1>3. /\ socket' \in [state : {"closed", "bound", "unbound", "detached"}, queue : Seq(Nat)]
      /\ socket'.queue = Append(q, n)
  <2>1. Append(q, n) \in Seq(Nat)
    BY <1>1, <1>2
  <2> HIDE DEF q, n
  <2> QED BY <1>1, <2>1 DEF SwitchLogInv, SwitchLogTypeOK
<1>4. reports' \in Seq(Reports)
  BY <1>1
<1>5. OldestFirst
  BY DEF SwitchLogInv
<1> HIDE DEF n
<1>6. \A i \in DOMAIN Append(q, n) :
        (i \in DOMAIN q /\ Append(q, n)[i] = q[i]) \/ (i = Len(q) + 1 /\ Append(q, n)[i] = n)
  <2> HIDE DEF q
  <2> QED BY <1>1, <1>2
<1>7. \A m : Taken(m) => Taken(m)'
  <2> SUFFICES ASSUME NEW m, Taken(m)
               PROVE  m \in 1..n /\ \A i \in DOMAIN Append(q, n) : m < Append(q, n)[i]
    BY <1>1, <1>3 DEF Taken
  <2>1. m \in 1..Len(reports) /\ \A i \in DOMAIN q : m < q[i]
    BY DEF Taken
  <2> HIDE DEF q
  <2>2. m \in 1..n /\ m < n
    BY <1>1, <1>2, <2>1
  <2> QED BY <1>6, <2>1, <2>2
<1>8. OldestFirst'
  <2>1. \A i \in DOMAIN Append(q, n) : Append(q, n)[i] \in 1..n
    <3>1. \A i \in DOMAIN q : q[i] \in 1..n
      BY <1>2, <1>5 DEF OldestFirst
    <3>2. n \in 1..n
      BY <1>1, <1>2
    <3> HIDE DEF q
    <3> QED BY <1>6, <3>1, <3>2
  <2>2. \A i, j \in DOMAIN Append(q, n) : i < j => Append(q, n)[i] < Append(q, n)[j]
    <3>1. \A i, j \in DOMAIN q : i < j => q[i] < q[j]
      BY <1>5 DEF OldestFirst
    <3>2. \A i \in DOMAIN q : q[i] < n
      <4> SUFFICES ASSUME NEW i \in DOMAIN q PROVE q[i] < n
        OBVIOUS
      <4>1. q[i] \in 1..Len(reports)
        BY <1>5 DEF OldestFirst
      <4> HIDE DEF q
      <4> QED BY <1>1, <1>2, <4>1
    <3> HIDE DEF q
    <3>3. \A i \in DOMAIN q : i < Len(q) + 1 /\ ~(Len(q) + 1 < i)
      BY <1>1
    <3> QED BY <1>1, <1>6, <3>1, <3>2, <3>3
  <2> QED BY <1>1, <1>3, <1>5, <1>7, <2>1, <2>2, SMTT(30) DEF OldestFirst, Working
<1> QED BY <1>1, <1>3, <1>4, <1>8, SocketInv

(* The report that waits longest comes after all that have been written. *)
LEMMA OnReportInv == ASSUME SwitchLogInv, OnReport PROVE SwitchLogInv'
<1> DEFINE q == socket.queue
           n == Head(q)
           r == reports[n]
           Behind(m) == m \in 1..Len(reports) /\ \A i \in DOMAIN Tail(q) : m < Tail(q)[i]
<1>1. /\ q \in Seq(Nat) /\ q # <<>> /\ handler = Idle /\ ~Working
      /\ UNCHANGED <<reports, session, query_faults>>
      /\ socket' = [socket EXCEPT !.queue = Tail(q)]
      /\ handler' =
           IF r.text = "other" THEN Idle
           ELSE [at |-> "begin", report |-> n, place |-> r.place,
                 status |-> IF r.text \in {"up", "down"} THEN r.text ELSE "loop",
                 known |-> FALSE, event |-> Null, peer |-> NoPeer]
  BY DEF SwitchLogInv, SwitchLogTypeOK, OnReport, Working
<1>2. OldestFirst
  BY DEF SwitchLogInv
<1>3. n = q[1] /\ 1 \in DOMAIN q /\ n \in 1..Len(reports)
  <2>1. n = q[1] /\ 1 \in DOMAIN q
    <3> HIDE DEF q
    <3> QED BY <1>1
  <2> QED BY <1>2, <2>1 DEF OldestFirst
<1>4. r \in Reports /\ r.place \in ReportedPlaces /\ n \in Nat
  <2>1. reports \in Seq(Reports)
    BY DEF SwitchLogInv, SwitchLogTypeOK
  <2> HIDE DEF n
  <2>2. r \in Reports /\ n \in Nat
    BY <1>3, <2>1
  <2> QED BY <2>2 DEF ReportedPlaces
<1>5. /\ socket' \in [state : {"closed", "bound", "unbound", "detached"}, queue : Seq(Nat)]
      /\ socket'.queue = Tail(q)
  <2>1. Tail(q) \in Seq(Nat)
    <3> HIDE DEF q
    <3> QED BY <1>1
  <2> HIDE DEF q
  <2> QED BY <1>1, <2>1 DEF SwitchLogInv, SwitchLogTypeOK
<1>6. \A i \in DOMAIN Tail(q) : i + 1 \in DOMAIN q /\ Tail(q)[i] = q[i + 1] /\ i \in Nat /\ 1 < i + 1
  <2> HIDE DEF q
  <2> QED BY <1>1
<1> HIDE DEF r, n
<1>7. \/ handler' = Idle
      \/ /\ handler' \in HandlerType /\ handler'.at = "begin" /\ handler'.report = n
         /\ handler'.event = Null /\ handler'.peer = NoPeer
  BY <1>1, <1>4 DEF HandlerType, QueryPoints, Peers, Null
<1>8. \A m : Taken(m) => Behind(m) /\ m < n
  BY <1>3, <1>6 DEF Taken
<1>9. OldestFirst'
  <2>1. \A i \in DOMAIN Tail(q) : Tail(q)[i] \in 1..Len(reports) /\ n < Tail(q)[i]
    BY <1>2, <1>3, <1>6 DEF OldestFirst
  <2>2. \A i, j \in DOMAIN Tail(q) : i < j => Tail(q)[i] < Tail(q)[j]
    <3> SUFFICES ASSUME NEW i \in DOMAIN Tail(q), NEW j \in DOMAIN Tail(q), i < j
                 PROVE  Tail(q)[i] < Tail(q)[j]
      OBVIOUS
    <3>1. i + 1 < j + 1
      BY <1>6
    <3> QED BY <1>2, <1>6, <3>1 DEF OldestFirst
  <2>3. Behind(n)
    BY <1>3, <2>1
  <2>4. \A i \in DOMAIN AllRows(session) :
          Behind(AllRows(session)[i].report) /\ AllRows(session)[i].report < n
    BY <1>2, <1>8 DEF OldestFirst
  <2> QED BY <1>1, <1>5, <1>7, <2>1, <2>2, <2>3, <2>4 DEF OldestFirst, Taken, Working
<1>10. Faulty' = Faulty /\ Excused' = Excused /\ (EventRepeated' <=> EventRepeated)
  BY <1>1 DEF Faulty, Excused, EventRepeated
<1>11. SwitchLogTypeOK' /\ OneRow'
  BY <1>1, <1>5, <1>7, <1>10 DEF SwitchLogInv, SwitchLogTypeOK, OneRow, RowRepeated
<1>12. Working' => HandlerOrder' /\ HandlerFits' /\ NoneOpen'
  BY <1>7 DEF Working, HandlerOrder, HandlerFits, NoneOpen
<1>13. EventsHaveRows => EventsHaveRows'
  <2> SUFFICES ASSUME EventsHaveRows PROVE EventsHaveRows'
    OBVIOUS
  <2>1. handler'.at # "insertLog" /\ (handler' = Idle \/ handler'.at = "begin")
    BY <1>7 DEF Idle
  <2>2. session.up /\ ~session.begun /\ handler.at # "insertLog"
    BY <1>1 DEF EventsHaveRows, Idle
  <2> QED BY <1>1, <2>1, <2>2 DEF EventsHaveRows, Working
<1> QED BY <1>1, <1>9, <1>10, <1>11, <1>12, <1>13 DEF SwitchLogInv

(* What people close keeps its number and its place. *)
LEMMA CloseEventInv == ASSUME SwitchLogInv, CloseEvent PROVE SwitchLogInv'
<1>1. PICK e \in session.tables.events :
        /\ e.status = "active"
        /\ session' = [session EXCEPT !.tables.events =
                         (@ \ {e}) \union {[e EXCEPT !.status = "closed"]}]
  BY DEF CloseEvent
<1> DEFINE old == session.tables.events
           shut == [e EXCEPT !.status = "closed"]
           new == (old \ {e}) \union {shut}
           tables == [session.tables EXCEPT !.events = new]
<1>2. /\ UNCHANGED <<socket, reports, handler, query_faults>>
      /\ session' = [session EXCEPT !.tables = tables]
  BY <1>1 DEF CloseEvent
<1>3. /\ session \in Session /\ session.tables \in TableRows /\ old \subseteq Event
      /\ ~session.begun => session.own = NoRows
  BY RowsOfSession DEF SwitchLogInv, SwitchLogTypeOK, SessionOK, Session
<1>4. /\ shut \in Event /\ shut.id = e.id /\ shut.place = e.place /\ shut.status # "active"
  <2>1. e \in Event
    BY <1>3
  <2> QED BY <2>1 DEF Event
<1> HIDE DEF shut
<1>5. new \subseteq Event
  BY <1>3, <1>4
<1> HIDE DEF new
<1>6. tables \in TableRows /\ tables.events = new /\ tables.log = session.tables.log
  BY <1>3, <1>5 DEF TableRows
<1> HIDE DEF tables
<1>7. /\ session' \in Session /\ session'.tables = tables /\ session'.own = session.own
      /\ session'.begun = session.begun /\ session'.up = session.up
  BY <1>2, <1>3, <1>6 DEF Session
<1>8. /\ AllRows(session') = AllRows(session)
      /\ Seen(session') = new \union session.own.events /\ Seen(session) = old \union session.own.events
  BY <1>6, <1>7 DEF AllRows, Seen
(* The same places have the same events, and fewer of them are open.       *)
<1>9. /\ \A d \in old : \E c \in new : c.id = d.id /\ c.place = d.place
      /\ \A c \in new : \E d \in old : c.id = d.id /\ c.place = d.place
      /\ \A c \in new : c.status = "active" => c \in old
  BY <1>4 DEF new
<1>10. /\ \A d \in Seen(session) : \E c \in Seen(session') : c.id = d.id /\ c.place = d.place
       /\ \A c \in Seen(session') : c.status = "active" => c \in Seen(session)
  BY <1>8, <1>9
<1> HIDE DEF old
<1>11. Faulty' = Faulty /\ Excused' = Excused /\ (EventRepeated' <=> EventRepeated)
  BY <1>2 DEF Faulty, Excused, EventRepeated
<1>12. SwitchLogTypeOK'
  BY <1>2, <1>3, <1>7 DEF SwitchLogInv, SwitchLogTypeOK, SessionOK
<1>13. OldestFirst' /\ OneRow'
  BY <1>2, <1>8, <1>11 DEF SwitchLogInv, OldestFirst, Taken, Working, OneRow, RowRepeated
<1>14. OneOpen(Seen(session)) => OneOpen(Seen(session'))
  BY <1>10 DEF OneOpen
<1>15. NoneOpen => NoneOpen'
  BY <1>2, <1>10 DEF NoneOpen, Active
<1>16. RowsFitAll(session', Excused)
  <2>1. RowsFitAll(session, Excused)
    BY DEF SwitchLogInv
  <2>2. \A row : RowFits(row, session.tables.events) => RowFits(row, session'.tables.events)
    BY <1>6, <1>7, <1>9 DEF RowFits, old
  <2>3. \A row : RowFits(row, Seen(session)) => RowFits(row, Seen(session'))
    BY <1>10 DEF RowFits
  <2> QED BY <1>6, <1>7, <2>1, <2>2, <2>3 DEF RowsFitAll
<1>17. (HandlerOrder => HandlerOrder') /\ (HandlerFits => HandlerFits')
  BY <1>2, <1>7, <1>10 DEF HandlerOrder, HandlerFits
<1>18. EventsHaveRows => EventsHaveRows'
  <2> SUFFICES ASSUME EventsHaveRows PROVE EventsHaveRows'
    OBVIOUS
  <2>1. session'.up /\ (session'.begun <=> Working' /\ handler'.at # "begin")
    BY <1>2, <1>7 DEF EventsHaveRows, Working
  <2>2. \A c \in new : \E i \in DOMAIN session.tables.log : session.tables.log[i].event = c.id
    BY <1>9 DEF EventsHaveRows, old
  <2> QED BY <1>2, <1>6, <1>7, <2>1, <2>2 DEF EventsHaveRows
<1> QED BY <1>2, <1>11, <1>12, <1>13, <1>14, <1>15, <1>16, <1>17, <1>18
        DEF SwitchLogInv, Working, FaultOf

(* Every step keeps the invariant. *)
LEMMA SwitchLogStepInv == ASSUME SwitchLogInv, [SwitchLogNext]_sl_vars PROVE SwitchLogInv'
<1>1. CASE UNCHANGED sl_vars
  <2>1. OldestFirst'
    BY <1>1 DEF SwitchLogInv, sl_vars, OldestFirst, Taken, Working
  <2> QED BY <1>1, <2>1, SocketInv DEF SwitchLogInv, SwitchLogTypeOK, sl_vars
<1>2. CASE \E r \in Reports : Arrives(r)
  BY <1>2, ArrivesInv
<1> QED BY <1>1, <1>2, HandlingInv, BindInv, OnReportInv, CloseEventInv DEF SwitchLogNext

(* The invariant implies what the run checks. *)
LEMMA SwitchLogInvSound == ASSUME SwitchLogInv PROVE EventsSound
<1>1. session \in Session
  BY DEF SwitchLogInv, SwitchLogTypeOK, SessionOK
<1>2. OneActive
  <2> SUFFICES ASSUME NEW place \in Places, ~EventRepeated
               PROVE  ~(Cardinality(Active(session.tables.events, place)) > 1)
    BY DEF OneActive, EventRepeated
  <2> DEFINE active == Active(session.tables.events, place)
  <2>1. \A d, e \in active : d = e
    BY <1>1, RowsOfSession DEF SwitchLogInv, OneOpen, Active
  <2> HIDE DEF active
  <2>2. CASE active = {}
    <3>1. Cardinality(active) = 0
      BY <2>2, FS_EmptySet
    <3> QED BY <3>1 DEF active
  <2>3. CASE active # {}
    <3>1. PICK e : active = {e}
      BY <2>1, <2>3
    <3>2. Cardinality(active) = 1
      BY <3>1, FS_Singleton
    <3> QED BY <3>2 DEF active
  <2> QED BY <2>2, <2>3
<1>3. RowsFit
  BY FaultOfIs DEF SwitchLogInv, RowsFitAll, RowsFit, RowFits
<1>4. ASSUME NEW n \in DOMAIN reports, Cardinality(Rows(n)) > 1 PROVE RowRepeated(n)
  <2>1. PICK i, j \in Rows(n) : i # j
    <3> DEFINE rows == Rows(n)
    <3> SUFFICES ASSUME \A i, j \in rows : i = j PROVE FALSE
      OBVIOUS
    <3>1. Cardinality(rows) > 1
      BY <1>4
    <3> HIDE DEF rows
    <3>2. rows # {}
      BY <3>1, FS_EmptySet
    <3>3. PICK i : rows = {i}
      <4>1. PICK k \in rows : TRUE
        BY <3>2
      <4>2. rows = {k}
        OBVIOUS
      <4> QED BY <4>2
    <3>4. Cardinality(rows) = 1
      BY <3>3, FS_Singleton
    <3> QED BY <3>1, <3>4
  <2>2. /\ i \in DOMAIN AllRows(session) /\ AllRows(session)[i].report = n
        /\ j \in DOMAIN AllRows(session) /\ AllRows(session)[j].report = n
    <3>1. session.tables.log \in {session.tables.log, AllRows(session)}
      OBVIOUS
    <3> QED BY <1>1, <3>1, RowsPrefix DEF Rows
  <2> QED BY <2>1, <2>2 DEF SwitchLogInv, OneRow
<1>5. NothingTwice
  <2>1. \A e \in session.tables.events :
          (\A i \in DOMAIN session.tables.log : session.tables.log[i].event # e.id) =>
            query_faults # <<>>
    BY DEF SwitchLogInv, EventsHaveRows
  <2> QED BY <1>4, <2>1 DEF NothingTwice, RowRepeated
<1> QED BY <1>2, <1>3, <1>5 DEF EventsSound

(* A port has one open event at most, every row of the log names an event  *)
(* of its port that there is, and what a report says is written once, but  *)
(* for what the errors of its queries explain: EventsSound of the handlers *)
(* of SwitchLogServer, whatever reports come and whatever queries fail.    *)
THEOREM SwitchLogEventsSound == SwitchLogInit /\ [][SwitchLogNext]_sl_vars => []EventsSound
<1>1. SwitchLogInit => SwitchLogInv
  BY SwitchLogInitInv
<1>2. SwitchLogInv /\ [SwitchLogNext]_sl_vars => SwitchLogInv'
  BY SwitchLogStepInv
<1>3. SwitchLogInv => EventsSound
  BY SwitchLogInvSound
<1> QED BY <1>1, <1>2, <1>3, PTL
=============================================================================
