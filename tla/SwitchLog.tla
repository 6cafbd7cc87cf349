----------------------------- MODULE SwitchLog -----------------------------
(***************************************************************************)
(* libnano's SwitchLogServer: switches report over UDP that a port went    *)
(* up, went down or has a loop; each report is a row of the log, written   *)
(* in a transaction of its own, and may open an event, which people close. *)
(* MySQL::queryRaw() connects again when the connection is lost and        *)
(* repeats the query, in a session that is in no transaction.  The         *)
(* database is external: rows of switches, houses and streets are only     *)
(* read, and of the columns those are kept that the handlers decide by.    *)
(***************************************************************************)
EXTENDS Integers, Sequences, FiniteSets, FiniteSetsExt

CONSTANTS
  Places,       \* what reports are about: [switch, port]
  Reports,      \* bound: reports there may be: [text, place]
  KnownSwitch,  \* those of table switches
  PeerAt,       \* table switch_ports: the place's peer, or NoPeer
  NoPeer,
  MaxReports,   \* bound: reports that arrive
  MaxQueue,     \* bound: datagrams that wait
  MaxQueryFaults  \* bound: queries that meet an error

VARIABLES
  socket,       \* AsyncUDPServer: its state, and the kernel's queue
  reports,      \* history: what has arrived; a report's number is its place
  handler,      \* the handler that runs, and its local variables
  session,      \* the server's side: tables, the session's own part, its connection
  query_faults  \* history: the errors that queries have met

sl_vars == <<socket, reports, handler, session, query_faults>>

Null == 0
Idle == [at |-> "idle"]
NoRows == [events |-> {}, log |-> <<>>]

SwitchLogInit ==
  /\ socket = [state |-> "closed", queue |-> <<>>]
  /\ reports = <<>>
  /\ handler = Idle
  /\ session = [tables |-> NoRows, own |-> NoRows, begun |-> FALSE,
                lastId |-> Null, nextId |-> 1, up |-> TRUE]
  /\ query_faults = <<>>

-----------------------------------------------------------------------------
(* MySQL.  What a session sees is the tables and what it has not committed. *)

Seen(s) == s.tables.events \union s.own.events

Commit(s) ==
  [s EXCEPT !.tables = [events |-> Seen(s), log |-> @.log \o s.own.log],
            !.own = NoRows, !.begun = FALSE]

Active(events, place) ==
  {e \in events : e.place = place /\ e.status = "active"}

(* What a row says of the other side: a loop names the switch itself. *)
PeerOf(h) == IF h.status = "loop" /\ h.known THEN h.place.switch ELSE h.peer

(* The session after a statement that the server has executed. *)
Execute(statement, h, s) ==
  LET Kept(t) == IF s.begun THEN t ELSE Commit(t)
  IN CASE statement = "begin" -> [Commit(s) EXCEPT !.begun = TRUE]
       [] statement = "commit" -> Commit(s)
       [] statement = "insertEvent" ->
            Kept([s EXCEPT !.own.events =
                    @ \union {[id |-> s.nextId, place |-> h.place, peer |-> PeerOf(h),
                               status |-> "active"]},
                           !.lastId = s.nextId, !.nextId = @ + 1])
       [] statement = "insertLog" ->
            Kept([s EXCEPT !.own.log =
                    Append(@, [report |-> h.report, place |-> h.place, status |-> h.status,
                               known |-> h.known, peer |-> PeerOf(h), event |-> h.event])])
       [] OTHER -> s

(* The server drops a connection, and what it had not committed. *)
Dropped(s) ==
  [s EXCEPT !.own = NoRows, !.begun = FALSE, !.lastId = Null, !.up = FALSE]

(* reconnect() within queryRaw(), which repeats the query if it connects.  *)
Reconnected(statement, h, s) ==
  {[session |-> Execute(statement, h, [s EXCEPT !.up = TRUE]), answered |-> TRUE],
   [session |-> s, answered |-> FALSE]}

(* queryRaw() when it meets an error: a lost connection, before the server *)
(* has executed the query or after, or an error of another kind.           *)
QueryRaw(statement, h, s) ==
  IF ~s.up THEN Reconnected(statement, h, s)
  ELSE {[session |-> s, answered |-> FALSE],
        [session |-> [s EXCEPT !.lastId = Null], answered |-> FALSE]}
         \union Reconnected(statement, h, Dropped(s))
         \union Reconnected(statement, h, Dropped(Execute(statement, h, s)))

(* One query of a handler, and whether the server answered it. *)
Query(statement, answered) ==
  /\ handler.at = statement
  /\ UNCHANGED <<socket, reports>>
  /\ \/ /\ session.up /\ answered
        /\ session' = Execute(statement, handler, session)
        /\ UNCHANGED query_faults
     \/ \E o \in QueryRaw(statement, handler, session) :
          /\ answered = o.answered
          /\ session.up => Len(query_faults) < MaxQueryFaults
          /\ query_faults' = Append(query_faults, [at |-> statement, report |-> handler.report,
                                       answered |-> answered, begun |-> session.begun])
          /\ session' = o.session

-----------------------------------------------------------------------------
(* The handlers: handlePortUp(), handlePortDown() and handlePortLoop() put *)
(* the same queries in the same order, and leave out different ones.       *)

Begin ==
  \E answered \in BOOLEAN :
    Query("begin", answered) /\ handler' = [handler EXCEPT !.at = "findSwitch"]

FindSwitch ==
  \E answered \in BOOLEAN :
    /\ Query("findSwitch", answered)
    /\ handler' = [handler EXCEPT !.at = "findEvent",
                                 !.known = answered /\ handler.place.switch \in KnownSwitch]

(* What follows the search for an active event. *)
AfterEvent(h) ==
  CASE h.status = "down" /\ h.known -> "findPeer"
    [] h.status = "loop" /\ h.event = Null -> "insertEvent"
    [] OTHER -> "insertLog"

(* The oldest active event of the port. *)
FindEvent ==
  \E answered \in BOOLEAN :
    /\ Query("findEvent", answered)
    /\ LET found == {e.id : e \in Active(Seen(session'), handler.place)}
           h == [handler EXCEPT !.event = IF answered /\ found # {} THEN Min(found) ELSE Null]
       IN handler' = [h EXCEPT !.at = AfterEvent(h)]

(* Mutant of FindPeer: a magistral port gets an event whether it has one.  *)
FindPeerAnyway ==
  \E answered \in BOOLEAN :
    /\ Query("findPeer", answered)
    /\ LET h == [handler EXCEPT !.peer = IF answered THEN PeerAt[handler.place] ELSE NoPeer]
       IN handler' = [h EXCEPT !.at = IF h.peer # NoPeer THEN "findHouse" ELSE "insertLog"]

(* A magistral port that has no event gets one. *)
FindPeer ==
  \E answered \in BOOLEAN :
    /\ Query("findPeer", answered)
    /\ LET h == [handler EXCEPT !.peer = IF answered THEN PeerAt[handler.place] ELSE NoPeer]
       IN handler' = [h EXCEPT !.at = IF h.peer # NoPeer /\ h.event = Null
                                      THEN "findHouse" ELSE "insertLog"]

FindHouse ==
  \E answered \in BOOLEAN :
    Query("findHouse", answered) /\ handler' = [handler EXCEPT !.at = "insertEvent"]

(* Mutant of InsertEvent: the row is written before the event's number is known. *)
InsertEventUnknown ==
  \E answered \in BOOLEAN :
    Query("insertEvent", answered) /\ handler' = [handler EXCEPT !.at = "insertLog"]

(* getLastInsertId(), whatever became of the query. *)
InsertEvent ==
  \E answered \in BOOLEAN :
    /\ Query("insertEvent", answered)
    /\ handler' = [handler EXCEPT !.at = "insertLog", !.event = session'.lastId]

(* Mutant of InsertLog: the transaction is left to the next report. *)
InsertLogOnly ==
  \E answered \in BOOLEAN : Query("insertLog", answered) /\ handler' = Idle

InsertLog ==
  \E answered \in BOOLEAN :
    Query("insertLog", answered) /\ handler' = [handler EXCEPT !.at = "commit"]

CommitWork ==
  \E answered \in BOOLEAN : Query("commit", answered) /\ handler' = Idle

Handling ==
  Begin \/ FindSwitch \/ FindEvent \/ FindPeer \/ FindHouse \/ InsertEvent \/ InsertLog \/ CommitWork

-----------------------------------------------------------------------------
(* The UDP server. *)

(* bind(): a descriptor that could not be bound stays open. *)
Bind ==
  /\ socket.state = "closed"
  /\ \E state \in {"bound", "unbound"} : socket' = [socket EXCEPT !.state = state]
  /\ UNCHANGED <<reports, handler, session, query_faults>>

(* handleRead() takes one datagram after the other; onRead() knows by the  *)
(* text what is reported, and a recovered port is handled as a loop.       *)
OnReport ==
  /\ socket.state = "bound" /\ socket.queue # <<>>
  /\ handler = Idle
  /\ socket' = [socket EXCEPT !.queue = Tail(@)]
  /\ \E n \in {Head(socket.queue)} : \E r \in {reports[n]} :
       handler' =
         IF r.text = "other" THEN Idle
         ELSE [at |-> "begin", report |-> n, place |-> r.place,
               status |-> IF r.text \in {"up", "down"} THEN r.text ELSE "loop",
               known |-> FALSE, event |-> Null, peer |-> NoPeer]
  /\ UNCHANGED <<reports, session, query_faults>>

(* onTerminate(): the object leaves the daemon, and is read no more. *)
OnTerminate ==
  /\ socket.state = "bound" /\ handler = Idle
  /\ socket' = [socket EXCEPT !.state = "detached"]
  /\ UNCHANGED <<reports, handler, session, query_faults>>

-----------------------------------------------------------------------------
(* The others.  What the network loses, delivers again or in another order *)
(* differs for the server in nothing from reports that were never sent,    *)
(* were sent again, or in that order.                                      *)

Arrives(r) ==
  /\ socket.state = "bound" /\ Len(socket.queue) < MaxQueue
  /\ Len(reports) < MaxReports
  /\ reports' = Append(reports, r)
  /\ socket' = [socket EXCEPT !.queue = Append(@, Len(reports'))]
  /\ UNCHANGED <<handler, session, query_faults>>

(* Someone has seen to what the event was about. *)
CloseEvent ==
  /\ \E e \in session.tables.events :
       /\ e.status = "active"
       /\ session' = [session EXCEPT !.tables.events =
                        (@ \ {e}) \union {[e EXCEPT !.status = "closed"]}]
  /\ UNCHANGED <<socket, reports, handler, query_faults>>

SwitchLogNext ==
  \/ Handling
  \/ Bind \/ OnReport \/ OnTerminate
  \/ \E r \in Reports : Arrives(r)
  \/ CloseEvent

-----------------------------------------------------------------------------

Faulty == {query_faults[i] : i \in DOMAIN query_faults}
FaultOf(n) == \E f \in Faulty : f.report = n
Rows(n) == {i \in DOMAIN session.tables.log : session.tables.log[i].report = n}

(* A port has one active event at most, unless a query for it was not      *)
(* answered, or was repeated outside a transaction.                        *)
OneActive ==
  \A place \in Places :
    Cardinality(Active(session.tables.events, place)) > 1 =>
      \E f \in Faulty : \/ f.at = "findEvent" /\ ~f.answered
                        \/ f.at = "insertEvent" /\ f.answered /\ ~f.begun

(* A row of the log names an event there is, of the same port, and the     *)
(* peer that the event names; a port that went down and leads to a peer,   *)
(* and a loop, have an event -- unless a query met an error in between.    *)
RowsFit ==
  \A i \in DOMAIN session.tables.log :
    LET row == session.tables.log[i]
    IN FaultOf(row.report) \/
         /\ row.event # Null =>
              \E e \in session.tables.events : e.id = row.event /\ e.place = row.place
         /\ row.status = "loop" =>
              row.event # Null /\ row.peer = IF row.known THEN row.place.switch ELSE NoPeer
         /\ row.status = "down" /\ row.peer # NoPeer => row.event # Null
         /\ row.status = "down" =>
              row.peer = IF row.place.switch \in KnownSwitch THEN PeerAt[row.place] ELSE NoPeer

(* However many errors, no report is written twice, but by a row that was  *)
(* repeated outside a transaction; and no event is without a row, unless   *)
(* an error came between the two.                                          *)
NothingTwice ==
  /\ \A n \in DOMAIN reports :
       Cardinality(Rows(n)) > 1 =>
         \E f \in Faulty : f.report = n /\ f.at = "insertLog" /\ f.answered /\ ~f.begun
  /\ \A e \in session.tables.events :
       (\A i \in DOMAIN session.tables.log : session.tables.log[i].event # e.id) => query_faults # <<>>

EventsSound == OneActive /\ RowsFit /\ NothingTwice

(* A report that waits is read, and ends in the log unless a query of its  *)
(* handler met an error or the server was taken out of the daemon.         *)
EndsLogged ==
  \A n \in 1..MaxReports :
    (\E i \in DOMAIN socket.queue : socket.queue[i] = n) ~>
       \/ socket.state # "bound"
       \/ n \in DOMAIN reports /\ reports[n].text = "other"
       \/ Rows(n) # {} \/ FaultOf(n)
=============================================================================
