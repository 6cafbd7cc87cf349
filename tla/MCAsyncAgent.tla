---------------------------- MODULE MCAsyncAgent ----------------------------
(* Both libraries' clients that connect again, one at a time: libnano2's   *)
(* agents, and libnano's log of switches with its database.                *)
EXTENDS AsyncAgent, SwitchLog

VARIABLE subject

(* A port that leads to another switch, and one of a switch nobody knows.  *)
Place(switch) == [switch |-> switch, port |-> 1]
MCPlaces == {Place("s"), Place("u")}
MCPeerAt == [place \in MCPlaces |-> IF place.switch = "s" THEN "t" ELSE NoPeer]
MCReports ==
  [text : {"up", "down", "loop"}, place : {Place("s")}]
    \union [text : {"down", "recovered", "other"}, place : {Place("u")}]

ClientsInit == subject \in {"agents", "switchlog"} /\ Init /\ SwitchLogInit

Agents(Action) == subject = "agents" /\ Action /\ UNCHANGED <<subject, sl_vars>>
Logging(Action) == subject = "switchlog" /\ Action /\ UNCHANGED <<subject, vars>>

clients_vars == <<subject, vars, sl_vars>>

(* As AsyncAgent's Fairness; a query is answered or fails, and the daemon  *)
(* handles the events of the server's socket.                              *)
ClientsSpec ==
  /\ ClientsInit /\ [][Agents(Next) \/ Logging(SwitchLogNext)]_clients_vars
  /\ WF_clients_vars(Agents(DnsTimer))
  /\ \A a \in Agent :
       /\ WF_clients_vars(Agents(ReconnectTimer(a)))
       /\ WF_clients_vars(Agents(OnConnectA4(a)))
       /\ WF_clients_vars(Agents(ConnectionLost(a)))
  /\ \A f \in Fds : WF_clients_vars(Agents(ForeignClose(f)))
  /\ WF_clients_vars(Logging(Handling)) /\ WF_clients_vars(Logging(OnReport))
=============================================================================
