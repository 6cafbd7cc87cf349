------------------------------ MODULE MCTimers ------------------------------
(* The services that other programs add to such loops, one at a time: the  *)
(* timers of libnano2's daemon; ffcairo's feed, from camera to pictures,   *)
(* and the pace of its scene's timer; nanosrv's daemon and its NetFlow     *)
(* collector.                                                              *)
EXTENDS Timers, FeedPath, Collector

VARIABLE subject

Word(w) == [word |-> w]
Net(a, b, c, d, bits) == [ip |-> <<a, b, c, d>>, bits |-> bits]
AnyNet == Net(0, 0, 0, 0, 0)
Home == Net(46, 175, 120, 0, 21)
Part == Net(46, 175, 123, 7, 24)
Away == Net(31, 41, 184, 0, 21)

(* The lines of a file: right ones, one that is short and two that are long. *)
MCLines ==
  {<<Word("in"), Word("acct"), AnyNet, Home>>, <<Word("out"), Word("acct"), Part, AnyNet>>,
   <<Word("in"), Word("acct"), Home>>, <<Word("out"), Word("acct"), Home, Away, AnyNet>>,
   <<Word("out"), AnyNet, Home>>,
   <<Word("out"), Word("acct"), Word("from"), Word("to"), Home, Away>>}
MCFiles == UNION {[1..n -> MCLines] : n \in 1..3}

Filter(src, dst, class) == [src |-> src, dst |-> dst, class |-> class]
MCClassFilters ==
  {Filter(AnyNet, Home, "in"), Filter(Home, AnyNet, "out"), Filter(Home, Away, "loc"),
   Filter(AnyNet, AnyNet, "all")}

Flow(src, dst) == [src |-> src, dst |-> dst]
Outward == Flow(<<46, 175, 123, 200>>, <<31, 41, 190, 3>>)
MCRecords ==
  {Outward, Flow(<<46, 175, 120, 9>>, <<10, 0, 0, 1>>),
   Flow(<<10, 0, 9, 1>>, <<46, 175, 124, 250>>)}
Second == Flow(<<46, 175, 125, 2>>, <<10, 0, 0, 9>>)

(* One record, two, and a header that counts more than there are. *)
MCDatagrams ==
  {[version |-> v, count |-> 1, records |-> <<r>>] : v \in {5, 9}, r \in MCRecords}
    \union {[version |-> 5, count |-> 2, records |-> <<r, Second>>] : r \in MCRecords}
    \union {[version |-> 5, count |-> 2, records |-> <<Outward>>]}

ServicesInit ==
  /\ subject \in {"timers", "feed", "pace", "daemon", "netflow"}
  /\ Init /\ FeedInit /\ PaceInit /\ CollectorInit /\ NetFlowInit

Timing(Action) ==
  subject = "timers" /\ Action
    /\ UNCHANGED <<subject, feed_vars, pace_vars, daemon_vars, netflow_vars>>

ServicesNext ==
  \/ Timing(Next)
  \/ subject = "feed" /\ FeedNext /\ UNCHANGED <<subject, vars, pace_vars, daemon_vars, netflow_vars>>
  \/ subject = "pace" /\ PaceNext /\ UNCHANGED <<subject, vars, feed_vars, daemon_vars, netflow_vars>>
  \/ subject = "daemon" /\ DaemonNext /\ UNCHANGED <<subject, vars, feed_vars, pace_vars, netflow_vars>>
  \/ subject = "netflow" /\ NetFlowNext /\ UNCHANGED <<subject, vars, feed_vars, pace_vars, daemon_vars>>

services_vars == <<subject, vars, feed_vars, pace_vars, daemon_vars, netflow_vars>>

(* As the Fairness of Timers. *)
ServicesSpec ==
  /\ ServicesInit /\ [][ServicesNext]_services_vars
  /\ WF_services_vars(Timing(BeginPass))
  /\ WF_services_vars(Timing(\E t \in Timer : Fire(t)))
  /\ WF_services_vars(Timing(EndPass))
  /\ SF_services_vars(Timing(Tick))
=============================================================================
