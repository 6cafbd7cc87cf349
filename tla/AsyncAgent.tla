----------------------------- MODULE AsyncAgent -----------------------------
(***************************************************************************)
(* The agents of libnano2 (nanosoft/asyncagent.cpp): objects that connect  *)
(* to a remote host, by a DNS query, socket() and connect(), and that      *)
(* connect again by a timer when the connection fails or is lost.  The     *)
(* daemon's table and epoll's list are as in NetDaemon, whose disable and  *)
(* enable an agent calls; a foreign part of the program opens and closes   *)
(* descriptors too, so that numbers move from one owner to another.        *)
(***************************************************************************)
EXTENDS Integers, FiniteSets, SequencesExt

CONSTANTS
  Agent,
  NumFds,      \* bound: the descriptors the kernel can give, 0..NumFds-1
  limit,       \* NetDaemon::limit, the size of fds[]
  None,        \* the NULL object
  DNS          \* the resolver, adns, as the owner of a timer

ASSUME NoneAssumption == None \notin Agent /\ DNS \notin Agent

NoFd == -1
Fds == 0..NumFds - 1
Slots == 0..limit - 1

VARIABLES
  connection_state,
  reconnecting,
  fd,          \* AsyncObject::fd
  queue,       \* NetDaemon::timers, each by its owner: the first is top()
  queries,     \* the DNS queries of each agent that have no answer yet
  slot,        \* fds[].obj
  watched,     \* epoll's interest list
  conn,        \* kernel: each descriptor is closed, idle, open or down
  foreign,     \* the descriptors of the rest of the program
  connected,   \* history: those whose last notification was "connected"
  faults       \* history: the calls that have failed, see below

agent_vars == <<connection_state, reconnecting, fd, queries, connected>>
vars == <<agent_vars, queue, slot, watched, conn, foreign, faults>>

-----------------------------------------------------------------------------

Init ==
  /\ connection_state = [a \in Agent |-> "NOT_CONNECTED"]
  /\ reconnecting = [a \in Agent |-> FALSE]
  /\ fd = [a \in Agent |-> NoFd]
  /\ queries = [a \in Agent |-> 0]
  /\ queue = <<>>
  /\ slot = [f \in Slots |-> None]
  /\ watched = {}
  /\ conn = [f \in Fds |-> "closed"]
  /\ foreign = {}
  /\ connected = {}
  /\ faults = {}

(* connect() fails at once, as for an unreachable network. *)
ConnectFault == "connect" \in faults

(* The DNS library has no memory for a query. *)
SubmitFault == "submit" \in faults

(* socket() returns the lowest descriptor that is closed. *)
Lowest(f) == conn[f] = "closed" /\ \A g \in Fds : g < f => conn[g] # "closed"

NoSocket == \A f \in Fds : conn[f] # "closed"

(* The timers q with one more of o's.  The queue is ordered by the time of *)
(* expiry, the latest on top (netdaemon.h:94); the clock is left out, so a *)
(* new timer may come anywhere.                                            *)
Placed(q, o) == {InsertAt(q, i, o) : i \in 1..Len(q) + 1}

(* The resolver's timers count as one: each of them looks at all queries.  *)
WithoutDns(q) ==
  IF DNS \in Range(q) THEN RemoveAt(q, CHOOSE i \in DOMAIN q : q[i] = DNS) ELSE q

Renewed(q) == Placed(WithoutDns(q), DNS)

Resolving == \E a \in Agent : queries[a] > 0

(* Mutant of Reconnect: the old socket is not closed. *)
ReconnectUnclosed(a, st, new_slot) ==
  /\ slot' = new_slot
  /\ UNCHANGED foreign
  /\ IF reconnecting[a]
       THEN UNCHANGED <<connection_state, reconnecting, fd, queue, connected, watched, conn>>
       ELSE /\ reconnecting' = [reconnecting EXCEPT ![a] = TRUE]
            /\ connected' = IF st = "CONNECTED" THEN connected \ {a} ELSE connected
            /\ connection_state' = [connection_state EXCEPT ![a] = "RECONNECTING"]
            /\ watched' = watched \ {fd[a]}
            /\ fd' = [fd EXCEPT ![a] = NoFd]
            /\ queue' \in Placed(queue, a)
            /\ UNCHANGED conn

(* reconnect(), after the table was changed to new_slot, by an agent whose *)
(* connection_state was st.  close() closes the descriptor first, so that  *)
(* setFd(-1) cannot remove it from epoll, nor the agent from the table.    *)
Reconnect(a, st, new_slot) ==
  /\ slot' = new_slot
  /\ UNCHANGED foreign
  /\ IF reconnecting[a]
       THEN UNCHANGED <<connection_state, reconnecting, fd, queue, connected, watched, conn>>
       ELSE /\ reconnecting' = [reconnecting EXCEPT ![a] = TRUE]
            /\ connected' = IF st = "CONNECTED" THEN connected \ {a} ELSE connected
            /\ connection_state' = [connection_state EXCEPT ![a] = "RECONNECTING"]
            /\ conn' = [f \in Fds |-> IF f = fd[a] THEN "closed" ELSE conn[f]]
            /\ watched' = watched \ {fd[a]}
            /\ fd' = [fd EXCEPT ![a] = NoFd]
            /\ queue' \in Placed(queue, a)

(* setFd() of a new socket: the old one, if any, is disabled first. *)
Disabled(a) ==
  IF fd[a] \in Slots /\ slot[fd[a]] = a /\ fd[a] \in watched
    THEN [slot EXCEPT ![fd[a]] = None]
    ELSE slot

(* The part of startConnection() that follows socket(), the timers being   *)
(* q: a query that is submitted sets a timer of the resolver's.            *)
StartResolving(a, q) ==
  \E f \in Fds :
    /\ Lowest(f)
    /\ conn' = [conn EXCEPT ![f] = "idle"]
    /\ slot' = Disabled(a)
    /\ watched' = IF slot' = slot THEN watched ELSE watched \ {fd[a]}
    /\ fd' = [fd EXCEPT ![a] = f]
    /\ connection_state' = [connection_state EXCEPT ![a] = "RESOLVING"]
    /\ \/ /\ queries' = [queries EXCEPT ![a] = @ + 1] /\ faults' = faults
          /\ queue' \in Renewed(q)
       \/ /\ queries' = queries /\ faults' = faults \union {"submit"}
          /\ queue' = q
    /\ UNCHANGED <<connected, foreign>>

(* startConnection(), by the program. *)
StartConnection(a) ==
  /\ connection_state[a] = "NOT_CONNECTED"
  /\ \/ StartResolving(a, queue) /\ UNCHANGED reconnecting
     \/ NoSocket /\ Reconnect(a, "NOT_CONNECTED", slot) /\ UNCHANGED <<queries, faults>>

(* processTimers() looks at top() only; what is on top expires at last. *)
Fires(o) == queue # <<>> /\ Head(queue) = o

(* Mutant of ReconnectTimer: "reconnecting" is not cleared. *)
TimerKeepsFlag(a) ==
  /\ Fires(a)
  /\ StartResolving(a, Tail(queue))
  /\ UNCHANGED reconnecting

(* reconnectTimer(): startConnection() with "reconnecting" cleared.  When  *)
(* there is no socket, reconnect() sets the flag and the timer again.      *)
ReconnectTimer(a) ==
  /\ Fires(a)
  /\ \/ /\ StartResolving(a, Tail(queue))
        /\ reconnecting' = [reconnecting EXCEPT ![a] = FALSE]
     \/ /\ NoSocket
        /\ connection_state' = [connection_state EXCEPT ![a] = "RECONNECTING"]
        /\ connected' = IF connection_state[a] = "CONNECTED" THEN connected \ {a} ELSE connected
        /\ fd' = [fd EXCEPT ![a] = NoFd]
        /\ conn' = [f \in Fds |-> IF f = fd[a] THEN "closed" ELSE conn[f]]
        /\ watched' = watched \ {fd[a]}
        /\ queue' \in Placed(Tail(queue), a)
        /\ UNCHANGED <<reconnecting, queries, slot, foreign, faults>>

(* AsyncDNS::timer(): the timer is set again while queries have no answer. *)
(* Those that have timed out are answered by it, in actions of their own.  *)
DnsTimer ==
  /\ Fires(DNS)
  /\ IF Resolving THEN queue' \in Placed(Tail(queue), DNS) ELSE queue' = Tail(queue)
  /\ UNCHANGED <<agent_vars, slot, watched, conn, foreign, faults>>

-----------------------------------------------------------------------------
(* on_connect_a4(), one action for each of its ways out. *)

Answered(a) ==
  /\ queries[a] > 0
  /\ queries' = [queries EXCEPT ![a] = @ - 1]

CanEnable(a) == fd[a] \in Slots /\ slot[fd[a]] \in {None, a}

(* An object that stands in its slot already is enabled with no epoll_ctl. *)
EnabledSlot(a) == [slot EXCEPT ![fd[a]] = a]

(* Mutant of Connect: the agent is not enabled before it connects. *)
ConnectOnly(a) ==
  /\ Answered(a) /\ CanEnable(a)
  /\ conn' = [conn EXCEPT ![fd[a]] = "open"]
  /\ connection_state' = [connection_state EXCEPT ![a] = "CONNECTED"]
  /\ connected' = connected \union {a}
  /\ UNCHANGED <<reconnecting, fd, queue, slot, watched, foreign, faults>>

Connect(a) ==
  /\ Answered(a) /\ CanEnable(a)
  /\ slot' = EnabledSlot(a)
  /\ watched' = IF slot[fd[a]] = None THEN watched \union {fd[a]} ELSE watched
  /\ conn' = [conn EXCEPT ![fd[a]] = "open"]
  /\ connection_state' = [connection_state EXCEPT ![a] = "CONNECTED"]
  /\ connected' = connected \union {a}
  /\ UNCHANGED <<reconnecting, fd, queue, foreign, faults>>

(* connect() fails: reconnect(), and disableObject() with no descriptor. *)
ConnectFails(a) ==
  /\ Answered(a) /\ CanEnable(a)
  /\ faults' = faults \union {"connect"}
  /\ Reconnect(a, "CONNECTING", EnabledSlot(a))

EnableFails(a) ==
  /\ Answered(a) /\ ~CanEnable(a)
  /\ Reconnect(a, "CONNECTING", slot)
  /\ UNCHANGED faults

NoAddress(a) ==
  /\ Answered(a)
  /\ Reconnect(a, connection_state[a], slot)
  /\ UNCHANGED faults

(* Mutant of ConnectionLost: the agent leaves epoll, and gives up. *)
GiveUp(a) ==
  /\ fd[a] \in watched /\ slot[fd[a]] = a
  /\ conn[fd[a]] = "down"
  /\ slot' = Disabled(a)
  /\ watched' = watched \ {fd[a]}
  /\ UNCHANGED <<agent_vars, queue, conn, foreign, faults>>

(* Mutant of ConnectionLost: the state is changed before it is looked at. *)
ConnectionLostSilently(a) ==
  /\ fd[a] \in watched /\ slot[fd[a]] = a
  /\ conn[fd[a]] = "down"
  /\ Reconnect(a, "RECONNECTING", Disabled(a))
  /\ UNCHANGED <<queries, faults>>

(* onPeerDown() or onAsyncError(): disableObject(), then reconnect(). *)
ConnectionLost(a) ==
  /\ fd[a] \in watched /\ slot[fd[a]] = a
  /\ conn[fd[a]] = "down"
  /\ Reconnect(a, connection_state[a], Disabled(a))
  /\ UNCHANGED <<queries, faults>>

-----------------------------------------------------------------------------
(* The network, and the rest of the program. *)

PeerDown(f) ==
  /\ conn[f] = "open"
  /\ conn' = [conn EXCEPT ![f] = "down"]
  /\ UNCHANGED <<agent_vars, queue, slot, watched, foreign, faults>>

ForeignOpen(f) ==
  /\ Lowest(f)
  /\ conn' = [conn EXCEPT ![f] = "idle"]
  /\ foreign' = foreign \union {f}
  /\ UNCHANGED <<agent_vars, queue, slot, watched, faults>>

ForeignClose(f) ==
  /\ f \in foreign
  /\ conn' = [conn EXCEPT ![f] = "closed"]
  /\ foreign' = foreign \ {f}
  /\ UNCHANGED <<agent_vars, queue, slot, watched, faults>>

OnConnectA4(a) == Connect(a) \/ ConnectFails(a) \/ EnableFails(a) \/ NoAddress(a)

Next ==
  \/ \E a \in Agent :
       \/ StartConnection(a)
       \/ ReconnectTimer(a)
       \/ OnConnectA4(a)
       \/ ConnectionLost(a)
  \/ DnsTimer
  \/ \E f \in Fds : PeerDown(f) \/ ForeignOpen(f) \/ ForeignClose(f)

(* The timer on top fires, a query is answered or times out, events are    *)
(* handled, and the rest of the program does not keep its descriptors for  *)
(* ever.  A query times out in any call of dns_timeouts(): each a4() makes *)
(* one, and so does the resolver's timer, which is reached unless other    *)
(* timers are put on top of it for ever; without a4() only reconnect() of  *)
(* an agent that finds no socket, again and again, does that.              *)
Fairness ==
  /\ WF_vars(DnsTimer)
  /\ \A a \in Agent :
       /\ WF_vars(ReconnectTimer(a))
       /\ WF_vars(OnConnectA4(a))
       /\ WF_vars(ConnectionLost(a))
  /\ \A f \in Fds : WF_vars(ForeignClose(f))

Spec == Init /\ [][Next]_vars /\ Fairness

-----------------------------------------------------------------------------

TypeOK ==
  /\ connection_state \in
       [Agent -> {"NOT_CONNECTED", "RESOLVING", "CONNECTED", "RECONNECTING"}]
  /\ reconnecting \in [Agent -> BOOLEAN]
  /\ fd \in [Agent -> Fds \union {NoFd}]
  /\ queries \in [Agent -> Nat]
  /\ queue \in Seq(Agent \union {DNS})
  /\ slot \in [Slots -> Agent \union {None}]
  /\ watched \in SUBSET Slots
  /\ conn \in [Fds -> {"closed", "idle", "open", "down"}]
  /\ foreign \in SUBSET Fds
  /\ connected \in SUBSET Agent
  /\ faults \in SUBSET {"connect", "submit"}

(* "true: we have already set the reconnect timer" (asyncagent.h:43-44):   *)
(* exactly one is set then, and none otherwise.                            *)
TimerIffReconnecting ==
  TypeOK /\ \A a \in Agent :
    Cardinality({i \in DOMAIN queue : queue[i] = a}) = IF reconnecting[a] THEN 1 ELSE 0

(* Until a connect() fails at once, an agent that takes itself for         *)
(* connected hears of the connection's end, and has told the user so.      *)
ConnectedIsServed ==
  \A a \in Agent : connection_state[a] = "CONNECTED" =>
    /\ ConnectFault \/ (fd[a] \in watched /\ slot[fd[a]] = a)
    /\ a \in connected

(* The user is told of the connection's end once for each connection.      *)
ToldWhenLost ==
  \A a \in Agent : a \in connected => connection_state[a] = "CONNECTED"

(* An agent leaves no socket behind, however its attempts fail, and shares *)
(* none with another agent or with the rest of the program.                *)
NoSocketLeaked ==
  \A f \in Fds :
    /\ conn[f] # "closed" <=> f \in foreign \/ \E a \in Agent : fd[a] = f
    /\ \A a, b \in Agent : fd[a] = f => f \notin foreign /\ (fd[b] = f => a = b)

(* What an agent owns is what its state says: the timer, the registration  *)
(* and the socket, none of them twice and none of them left behind.        *)
AgentSound == TimerIffReconnecting /\ ConnectedIsServed /\ NoSocketLeaked

(* A lost connection is tried again, whatever happens to the descriptor,   *)
(* unless a connect() failed at once.                                      *)
LostIsRetried(a) ==
  connection_state[a] = "CONNECTED" /\ conn[fd[a]] = "down"
    ~> connection_state[a] = "RESOLVING" \/ ConnectFault

(* "sad, we will try another time" (asyncagent.cpp:48, 87): an attempt     *)
(* ends in a connection or in another attempt, unless a query could not be *)
(* submitted.                                                              *)
AttemptEnds ==
  \A a \in Agent :
    connection_state[a] = "RESOLVING"
      ~> connection_state[a] \in {"CONNECTED", "RECONNECTING"} \/ SubmitFault

(* The timer of a waits while another agent resolves: that one's query     *)
(* renews the resolver's timer, and its failure sets one more, on top.     *)
HeldBack(a) == a \in Range(queue) /\ \E b \in Agent \ {a} : queries[b] > 0

(* Whose timer fires now is set again, on top perhaps of all the others. *)
NoSocketFor(a) == a \in Range(queue) /\ NoSocket

(* An agent never rests between two connections, except after such a fault *)
(* and in two cases that the order of the daemon's timers leaves open: the *)
(* queries of other agents may hold its timer back again and again, and so *)
(* may, for all timers, an agent that finds no socket again and again.     *)
KeepsTrying ==
  \/ []<>(\E a \in Agent : NoSocketFor(a))
  \/ AttemptEnds /\ \A a \in Agent : LostIsRetried(a) \/ []<>HeldBack(a)
=============================================================================
