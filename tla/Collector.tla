------------------------------ MODULE Collector ------------------------------
(***************************************************************************)
(* nanosrv's servers of UDP datagrams: its small NetDaemon, which holds    *)
(* counted references to the objects it serves, and the NetFlow collector, *)
(* which gives each record of a datagram the counter and the class of the  *)
(* filter that was added last among those that fit.                        *)
(***************************************************************************)
EXTENDS Integers, FiniteSets, SequencesExt

CONSTANTS
  Server,       \* objects of class UDPServer
  Sockets,      \* descriptors that socket() can give
  NoServer,     \* the NULL object
  Files,        \* configuration files, as sequences of lines of tokens
  ClassFilters, \* the filters that the program adds, in any order
  Datagrams,    \* [version, count, records]
  Classes,      \* the names given to addClass()
  MaxRecords    \* records of nf_message_t: 30

(* No descriptor is that of an object without one; a datagram holds no     *)
(* more records than there is room for, and counts no more.                *)
Unbound == 0
Address == [1..4 -> 0..255]
Network == [ip : Address, bits : 0..32]

(* A token of a file is a word or a network. *)
Token == [word : STRING] \union Network

ASSUME CollectorAssumption ==
  /\ NoServer \notin Server /\ IsFiniteSet(Sockets) /\ Unbound \notin Sockets
  /\ Files \subseteq Seq(Seq(Token))
  /\ ClassFilters \subseteq [src : Network, dst : Network, class : STRING]
  /\ \A d \in Datagrams :
       /\ d.count \in 0..MaxRecords /\ Len(d.records) <= MaxRecords
       /\ d.records \in Seq([src : Address, dst : Address])
  /\ MaxRecords \in Nat

VARIABLES
  objects,      \* NetDaemon::objects
  armed,        \* descriptors in epoll's list: TRUE when it waits for them
  server,       \* [life, fd, refs, own]: own counts the program's pointers
  running,      \* NetDaemon::state is ACTIVE
  serving,      \* the object of run()'s turn
  spoiled       \* history: [unadded, closed], servers whose addition epoll
                \* refused, and those closed while they were listed

daemon_vars == <<objects, armed, server, running, serving, spoiled>>

CollectorInit ==
  /\ objects = [f \in Sockets |-> NoServer]
  /\ armed = [f \in {} |-> TRUE]
  /\ server = [s \in Server |-> [life |-> "none", fd |-> Unbound, refs |-> 0, own |-> 0]]
  /\ running = FALSE
  /\ serving = NoServer
  /\ spoiled = [unadded |-> {}, closed |-> {}]

-----------------------------------------------------------------------------
(* Reference counts: ptr<type> locks and releases, and the last release    *)
(* deletes the object, whose destructor closes its socket.                 *)

Opened == {server[s].fd : s \in {s \in Server : server[s].life = "alive"}} \ {Unbound}

Deleted == [life |-> "deleted", fd |-> Unbound, refs |-> 0, own |-> 0]

Counted(o, change) ==
  IF o.refs + change = 0 THEN Deleted ELSE [o EXCEPT !.refs = @ + change]

Without(set) == [f \in DOMAIN armed \ set |-> armed[f]]

(* What is left of epoll's list when s has changed to o. *)
Watched(s, o, list) ==
  IF o.fd = server[s].fd THEN list ELSE [f \in DOMAIN list \ {server[s].fd} |-> list[f]]

CreateServer(s) ==
  /\ server[s].life = "none"
  /\ server' = [server EXCEPT ![s] = [@ EXCEPT !.life = "alive", !.refs = 1, !.own = 1]]
  /\ UNCHANGED <<objects, armed, running, serving, spoiled>>

(* bind(): a socket that has no port is kept all the same. *)
BindServer(s) ==
  /\ server[s].life = "alive" /\ server[s].own > 0 /\ server[s].fd = Unbound
  /\ s \notin spoiled.closed
  /\ \E f \in Sockets \ Opened : server' = [server EXCEPT ![s].fd = f]
  /\ UNCHANGED <<objects, armed, running, serving, spoiled>>

(* The program gives up its pointer. *)
DropServer(s) ==
  /\ server[s].own > 0
  /\ server' = [server EXCEPT ![s] = Counted([server[s] EXCEPT !.own = @ - 1], -1)]
  /\ armed' = Watched(s, server'[s], armed)
  /\ UNCHANGED <<objects, running, serving, spoiled>>

-----------------------------------------------------------------------------
(* NetDaemon *)

(* Mutant of AddObject: the daemon holds the reference of objects[] only. *)
AddUnlocked(s) ==
  /\ objects' = [objects EXCEPT ![server[s].fd] = s]
  /\ armed' = [f \in DOMAIN armed \union {server[s].fd} |->
                 IF f = server[s].fd THEN TRUE ELSE armed[f]]
  /\ server' = [server EXCEPT ![s].refs = @ + 1]
  /\ UNCHANGED spoiled

(* addObject(): objects[] and lock() count one reference each; when epoll  *)
(* has no room, only that of objects[] is given back.                      *)
AddObject(s) ==
  \/ /\ objects' = [objects EXCEPT ![server[s].fd] = s]
     /\ armed' = [f \in DOMAIN armed \union {server[s].fd} |->
                    IF f = server[s].fd THEN TRUE ELSE armed[f]]
     /\ server' = [server EXCEPT ![s].refs = @ + 2]
     /\ UNCHANGED spoiled
  \/ /\ s \notin spoiled.unadded
     /\ server' = [server EXCEPT ![s].refs = @ + 1]
     /\ spoiled' = [spoiled EXCEPT !.unadded = @ \union {s}]
     /\ UNCHANGED <<objects, armed>>

AddServer(s) ==
  /\ server[s].own > 0 /\ server[s].fd # Unbound /\ objects[server[s].fd] = NoServer
  /\ AddObject(s)
  /\ UNCHANGED <<running, serving>>

(* The program's own calls are made before run() and in its handlers. *)
ServerListed(s) == server[s].fd # Unbound /\ objects[server[s].fd] = s

(* Mutant of RemoveObject: the object is not released. *)
RemoveUnreleased(s) ==
  /\ objects' = [objects EXCEPT ![server[s].fd] = NoServer]
  /\ server' = [server EXCEPT ![s] = Counted(@, -1)]
  /\ armed' = Watched(s, server'[s], Without({server[s].fd}))

RemoveObject(s) ==
  /\ objects' = [objects EXCEPT ![server[s].fd] = NoServer]
  /\ server' = [server EXCEPT ![s] = Counted(@, -2)]
  /\ armed' = Watched(s, server'[s], Without({server[s].fd}))

RemoveServer(s) ==
  /\ server[s].own > 0 \/ serving = s
  /\ ServerListed(s)
  /\ RemoveObject(s)
  /\ running' = (running /\ \E f \in Sockets : objects'[f] # NoServer)
  /\ UNCHANGED <<serving, spoiled>>

(* modifyObject() *)
ModifyServer(s) ==
  /\ server[s].own > 0 \/ serving = s
  /\ ServerListed(s) /\ server[s].fd \in DOMAIN armed
  /\ armed' = [armed EXCEPT ![server[s].fd] = TRUE]
  /\ UNCHANGED <<objects, server, running, serving, spoiled>>

(* close() of the server: the kernel forgets the descriptor, the daemon    *)
(* does not.                                                               *)
CloseServer(s) ==
  /\ server[s].own > 0 /\ server[s].fd # Unbound
  /\ server' = [server EXCEPT ![s].fd = Unbound]
  /\ armed' = Without({server[s].fd})
  /\ spoiled' = IF ServerListed(s) THEN [spoiled EXCEPT !.closed = @ \union {s}] ELSE spoiled
  /\ UNCHANGED <<objects, running, serving>>

(* run() goes on until the last object is removed. *)
RunDaemon ==
  /\ ~running /\ serving = NoServer
  /\ running' = TRUE
  /\ UNCHANGED <<objects, armed, server, serving, spoiled>>

(* A turn of run(): the event is one-shot, and the turn holds a pointer.   *)
WaitEvent(f) ==
  /\ running /\ serving = NoServer /\ f \in DOMAIN armed /\ armed[f] /\ objects[f] # NoServer
  /\ armed' = [armed EXCEPT ![f] = FALSE]
  /\ serving' = objects[f]
  /\ server' = [server EXCEPT ![objects[f]].refs = @ + 1]
  /\ UNCHANGED <<objects, running, spoiled>>

(* onEvent() has returned: the object that is still listed is armed again. *)
EndOfTurn ==
  /\ serving # NoServer
  /\ serving' = NoServer
  /\ server' = [server EXCEPT ![serving] = Counted(@, -1)]
  /\ armed' = Watched(serving, server'[serving],
                IF ServerListed(serving) /\ server[serving].fd \in DOMAIN armed
                THEN [armed EXCEPT ![server[serving].fd] = TRUE] ELSE armed)
  /\ UNCHANGED <<objects, running, spoiled>>

DaemonNext ==
  \/ \E s \in Server : CreateServer(s) \/ BindServer(s) \/ DropServer(s) \/ AddServer(s) \/ RemoveServer(s) \/ ModifyServer(s) \/ CloseServer(s)
  \/ RunDaemon
  \/ \E f \in Sockets : WaitEvent(f)
  \/ EndOfTurn

(* The daemon by itself, whatever servers the program has. *)
DaemonSpec == CollectorInit /\ [][DaemonNext]_daemon_vars

(* No object is deleted while the daemon may call it, none is kept without *)
(* a reason, and each that is listed is waited for: whatever removes it,   *)
(* in its own handler or not, the references are those of the program, of  *)
(* the list and of the turn, but for the one that a refused addition       *)
(* leaves (netdaemon.cpp:45-145 and object.h:52-142 of nanosrv).           *)
ObjectsCounted ==
  /\ \A s \in Server :
       LET lists == Cardinality({f \in Sockets : objects[f] = s})
       IN /\ server[s].refs = server[s].own + 2 * lists + (IF serving = s THEN 1 ELSE 0)
                              + (IF s \in spoiled.unadded /\ server[s].life = "alive" THEN 1 ELSE 0)
          /\ (server[s].life = "alive") <=> server[s].refs > 0
  /\ \A f \in Sockets : LET s == objects[f] IN
       s # NoServer /\ s \notin spoiled.closed =>
         server[s].fd = f /\ f \in DOMAIN armed /\ (armed[f] \/ serving = s)

-----------------------------------------------------------------------------
(* The collector.  An address is four bytes, a network its bits.           *)

VARIABLES
  filters,      \* NetFlowServer::filters: [counter, src, dst], newest first
  classFilters, \* NetFlowCollector::classFilters, newest first
  message,      \* the static nf_message_t's records
  reported,     \* what onRead() said of the last datagram
  datagram,     \* that datagram
  configured,   \* the file that was read
  added         \* history: the class filters in the order of their addition

netflow_vars == <<filters, classFilters, message, reported, datagram, configured, added>>

NoRecord == [src |-> <<0, 0, 0, 0>>, dst |-> <<0, 0, 0, 0>>]
NoMessage == [version |-> 0, count |-> 0, records |-> <<>>]

NetFlowInit ==
  /\ filters = <<>> /\ classFilters = <<>>
  /\ message = [i \in 1..MaxRecords |-> NoRecord]
  /\ reported = <<>> /\ datagram = NoMessage /\ configured = <<>>
  /\ added = <<>>

(* ip() *)
IP(a) == a[1] * 16777216 + a[2] * 65536 + a[3] * 256 + a[4]

(* The key that collect() makes of an address. *)
KeyOf(a) == a[1] * 16777215 + a[2] * 65535 + a[3] * 255 + a[4]

(* (ip & mask) == net, where the net may have been masked or not. *)
Covers(net, address, masked) ==
  IF net.bits = 0 THEN masked \/ IP(net.ip) = 0
  ELSE LET size == 2 ^ (32 - net.bits)
       IN (address \div size) * size = IF masked THEN (IP(net.ip) \div size) * size ELSE IP(net.ip)

(* lookupFilter() and lookupClassFilter() go from the newest filter on. *)
FirstFit(list, src, dst, masked) ==
  LET fit == {i \in DOMAIN list : Covers(list[i].src, src, masked) /\ Covers(list[i].dst, dst, masked)}
  IN IF fit = {} THEN <<>> ELSE <<list[CHOOSE i \in fit : \A j \in fit : i <= j]>>

LookupFilter(r) ==
  LET found == FirstFit(filters, IP(r.src), IP(r.dst), TRUE)
  IN IF found = <<>> THEN [word |-> "<no>"] ELSE found[1].counter

(* collect() *)
Collect(r) ==
  LET found == FirstFit(classFilters, KeyOf(r.src), KeyOf(r.dst), FALSE)
  IN IF found = <<>> THEN "unk" ELSE found[1].class

IsNet(tokens, i) == i <= Len(tokens) /\ "bits" \in DOMAIN tokens[i]

FilterOf(tokens) == <<[counter |-> tokens[1], src |-> tokens[3], dst |-> tokens[4]]>>

From(n, tokens) == SubSeq(tokens, n, Len(tokens))

(* Mutant of ReadLine: a filter is read from every four tokens. *)
ReadFour(t) ==
  IF Len(t.rest) < 4 THEN t
  ELSE [rest |-> From(5, t.rest),
        list |-> IF IsNet(t.rest, 3) /\ IsNet(t.rest, 4) THEN FilterOf(t.rest) \o t.list ELSE t.list]

(* A turn of configure()'s loop: fscanf() takes two words, whatever they   *)
(* are, and two networks; it leaves the token that is no network.          *)
ReadLine(t) ==
  IF t.rest = <<>> THEN t
  ELSE IF IsNet(t.rest, 3) /\ IsNet(t.rest, 4)
       THEN [rest |-> From(5, t.rest), list |-> FilterOf(t.rest) \o t.list]
  ELSE [t EXCEPT !.rest = From(IF IsNet(@, 3) THEN 4 ELSE 3, @)]

(* The loop: a turn takes a token at least. *)
Configure(tokens, list) ==
  LET turns[n \in 0..Len(tokens)] ==
        IF n = 0 THEN [rest |-> tokens, list |-> list] ELSE ReadLine(turns[n - 1])
  IN turns[Len(tokens)].list

ConfigureFrom(file) ==
  /\ configured = <<>> /\ datagram = NoMessage
  /\ filters' = Configure(FlattenSeq(file), filters)
  /\ configured' = file
  /\ UNCHANGED <<classFilters, message, reported, datagram, added>>

(* Mutant of AddClassFilter: the new filter goes behind the others. *)
AddClassFilterLast(f) ==
  /\ f.class \in Classes
  /\ \A i \in DOMAIN classFilters : classFilters[i] # f
  /\ datagram = NoMessage
  /\ classFilters' = Append(classFilters, f) /\ added' = Append(added, f)
  /\ UNCHANGED <<filters, message, reported, datagram, configured>>

(* addClassFilter(): a filter of an unknown class is refused. *)
AddClassFilter(f) ==
  /\ f.class \in Classes
  /\ \A i \in DOMAIN classFilters : classFilters[i] # f
  /\ datagram = NoMessage
  /\ classFilters' = <<f>> \o classFilters /\ added' = Append(added, f)
  /\ UNCHANGED <<filters, message, reported, datagram, configured>>

(* Mutant of OnFlows: the records are looked at before they are read. *)
OnFlowsShort(d) ==
  /\ message' = [i \in 1..MaxRecords |-> IF i <= Len(d.records) THEN d.records[i] ELSE message[i]]
  /\ reported' = IF d.version # 5 THEN <<>> ELSE [i \in 1..d.count |->
       [record |-> message[i], counter |-> LookupFilter(message[i]), class |-> Collect(message[i])]]

(* onRead(): the datagram is read over the last one, and the header says   *)
(* how many records are looked at: none, unless the version is 5.  When    *)
(* recvfrom() fails nothing is read or said, which is no step.             *)
OnFlows(d) ==
  /\ message' = [i \in 1..MaxRecords |-> IF i <= Len(d.records) THEN d.records[i] ELSE message[i]]
  /\ reported' = IF d.version # 5 THEN <<>> ELSE [i \in 1..d.count |->
       [record |-> message'[i], counter |-> LookupFilter(message'[i]), class |-> Collect(message'[i])]]

NetFlowRead(d) ==
  /\ datagram' = d
  /\ OnFlows(d)
  /\ UNCHANGED <<filters, classFilters, configured, added>>

NetFlowNext ==
  \/ \E file \in Files : ConfigureFrom(file)
  \/ \E f \in ClassFilters : AddClassFilter(f)
  \/ \E d \in Datagrams : NetFlowRead(d)

(* The collector by itself. *)
NetFlowSpec == NetFlowInit /\ [][NetFlowNext]_netflow_vars

-----------------------------------------------------------------------------
(* Properties of the collector *)

(* What a line says: a filter with every four tokens of it that end in two *)
(* networks, as a right line is one.                                       *)
Says(line) ==
  {[counter |-> line[i], src |-> line[i + 2], dst |-> line[i + 3]] :
     i \in {i \in 1..Len(line) - 3 : IsNet(line, i + 2) /\ IsNet(line, i + 3)}}

RightLine(line) == Len(line) = 4 /\ Says(line) # {} /\ ~IsNet(line, 1) /\ ~IsNet(line, 2)

WrongLines(file) == {i \in DOMAIN file : ~RightLine(file[i])}

(* A wrong line does no harm but to itself and the next: with one wrong    *)
(* line in the file, every filter is what some one line says, and every    *)
(* right line has its filter, a later line's before an earlier's, unless   *)
(* the line before it is wrong (netflowserver.cpp:66-97).                  *)
ConfiguredAsWritten ==
  Cardinality(WrongLines(configured)) <= 1 =>
    /\ \A i \in DOMAIN filters : \E l \in DOMAIN configured : filters[i] \in Says(configured[l])
    /\ LET kept == {l \in DOMAIN configured : RightLine(configured[l]) /\ l - 1 \notin WrongLines(configured)}
       IN \E at \in [kept -> DOMAIN filters] :
            /\ \A l \in kept : filters[at[l]] \in Says(configured[l])
            /\ \A l, m \in kept : l < m => at[m] < at[l]

(* No edge of a network is so near below the address that collect()'s key, *)
(* which is less than the address by its first three bytes, may lie across *)
(* it.                                                                     *)
FarFromEdges(a) ==
  \A i \in DOMAIN classFilters : \A net \in {classFilters[i].src, classFilters[i].dst} :
    net.bits # 0 =>
      \A edge \in {IP(net.ip), IP(net.ip) + 2 ^ (32 - net.bits)} :
        edge <= IP(a) - 3 * 255 \/ IP(a) < edge

NoneNewer(i, Fits(_)) == \A j \in DOMAIN added : j > i => ~Fits(added[j])

(* Nothing is said of another version's datagram.  Each record of a        *)
(* datagram of version 5 that holds as many as it says is reported         *)
(* once, in its place and not with an earlier datagram's data, and whatever*)
(* filters overlap, with the counter and the class of the newest that      *)
(* contains both its addresses, as long as no edge is near                 *)
(* (netflowserver.cpp:102-133, netflowcollector.cpp:55-113).               *)
FlowsReported ==
  /\ datagram.version # 5 => reported = <<>>
  /\ datagram.version = 5 /\ Len(datagram.records) >= datagram.count =>
    /\ Len(reported) = datagram.count
    /\ \A i \in 1..datagram.count :
         LET r == datagram.records[i]
             Counts(f) == Covers(f.src, IP(r.src), TRUE) /\ Covers(f.dst, IP(r.dst), TRUE)
             Belongs(f) == Covers(f.src, IP(r.src), FALSE) /\ Covers(f.dst, IP(r.dst), FALSE)
         IN /\ reported[i].record = r
            /\ \A f \in DOMAIN filters :
                 Counts(filters[f]) /\ (\A g \in 1..f - 1 : ~Counts(filters[g]))
                   => reported[i].counter = filters[f].counter
            /\ FarFromEdges(r.src) /\ FarFromEdges(r.dst) =>
                 IF \E f \in DOMAIN added : Belongs(added[f])
                 THEN \E f \in DOMAIN added : /\ Belongs(added[f]) /\ NoneNewer(f, Belongs)
                                              /\ reported[i].class = added[f].class
                 ELSE reported[i].class = "unk"

(* What the daemon holds, what is read and what is reported: all of it.    *)
CollectorSound == ObjectsCounted /\ ConfiguredAsWritten /\ FlowsReported
=============================================================================
