------------------------ MODULE ProcessManagerProofs ------------------------
(***************************************************************************)
(* That callbacks of processes are called once, and after the end, for any *)
(* number of processes and pids.  A registration outlives its callback: it *)
(* is erased when the callback has returned, or at the end of the pass.    *)
(* The invariant therefore says where the pass is then (Spent), and which  *)
(* registration a pid may have while its process lives.                    *)
(*                                                                         *)
(* That nanosrv's daemon counts its references, for any number of servers  *)
(* and descriptors: the invariant adds where a server is listed (Listing), *)
(* that no two have one descriptor (Distinct), and which of the references *)
(* belongs to whom (Owned).  And that its collector reports the flows of   *)
(* every datagram, whatever filters there are: the class filters stand in  *)
(* the reverse of the order in which they were added (NewestFirst), and the*)
(* key that collect() makes of an address is on the same side of every edge*)
(* that is far (KeyCovers).  The filters of a file are read a few tokens   *)
(* at a time: where the loop may be, and what it has by then, is HasRead.  *)
(***************************************************************************)
EXTENDS ProcessManager, Collector, ChainLemmas

Alive(p) == life[p] \in {"child", "stranger", "zombie"}

(* The kernel gives a pid to one process at a time. *)
PidsUnique ==
  \A p, q \in Process : Alive(p) /\ Alive(q) /\ pid[p] = pid[q] => p = q

(* A registration stands under the pid of its process. *)
UnderOwnPid ==
  \A n \in Pids : \A p \in Process :
    ps[n] = p => pid[p] = n /\ life[p] # "unborn"

(* The pid of a child that was not reaped has its registration or none. *)
ChildRegistered ==
  \A p \in Process : life[p] \in {"child", "zombie"} =>
    pid[p] \in Pids /\ ps[pid[p]] \in {p, None}

(* A registration that was called is the one whose callback runs, or was   *)
(* found gone by this sweep.                                               *)
Spent ==
  \A n \in Pids : \A p \in Process :
    ps[n] = p /\ called[p] > 0 => (phase = "reaped" /\ at = n) \/ n \in keys

(* The sweep has passed what it found gone. *)
KeysBehind ==
  \A n \in keys : phase \in {"sweep", "swept"} /\ n <= at

ProcessInv ==
  /\ TypeOK /\ CalledOnce /\ CalledAfterEnd
  /\ PidsUnique /\ UnderOwnPid /\ ChildRegistered /\ Spent /\ KeysBehind

(* Init: there are no processes and no records. *)
LEMMA ProcessInvInit == Init => ProcessInv
BY NoneAssumption, PidsAssumption
DEF Init, ProcessInv, TypeOK, CalledOnce, CalledAfterEnd, PidsUnique,
    UnderOwnPid, ChildRegistered, Spent, KeysBehind, Alive, Pids, NoPid

(* A process is born under a pid that no living process has.               *)
LEMMA BornPid ==
  ASSUME ProcessInv, NEW p \in Process, NEW kind \in {"child", "stranger"}, Born(p, kind)
  PROVE  /\ life[p] = "unborn" /\ called[p] = 0
         /\ pid'[p] \in Pids
         /\ \A q \in Process : q # p => pid'[q] = pid[q] /\ life'[q] = life[q]
         /\ life'[p] = kind
         /\ \A q \in Process : Alive(q) => pid[q] # pid'[p]
         /\ pid' \in [Process -> Pids \union {NoPid}]
         /\ life' \in [Process -> {"unborn", "child", "stranger", "zombie", "dead"}]
<1>1. PICK n \in Pids : FreePid(n) /\ pid' = [pid EXCEPT ![p] = n]
  BY DEF Born
<1>2. \A q \in Process : Alive(q) => pid[q] # n
  BY <1>1 DEF FreePid, Exists, Alive
<1>3. life[p] = "unborn" /\ life' = [life EXCEPT ![p] = kind]
  BY DEF Born
<1>4. called[p] = 0
  BY <1>3 DEF ProcessInv, CalledAfterEnd, TypeOK
<1> QED
  BY <1>1, <1>2, <1>3, <1>4 DEF ProcessInv, TypeOK

(* A child has a number that no living process has. *)
LEMMA ForkInv ==
  ASSUME ProcessInv, NEW p \in Process, Fork(p)
  PROVE  ProcessInv'
<1>1. /\ life[p] = "unborn" /\ called[p] = 0
      /\ pid'[p] \in Pids
      /\ \A q \in Process : q # p => pid'[q] = pid[q] /\ life'[q] = life[q]
      /\ life'[p] = "child"
      /\ \A q \in Process : Alive(q) => pid[q] # pid'[p]
      /\ pid' \in [Process -> Pids \union {NoPid}]
      /\ life' \in [Process -> {"unborn", "child", "stranger", "zombie", "dead"}]
  BY BornPid DEF Fork
<1>2. /\ ps' = [ps EXCEPT ![pid'[p]] = p]
      /\ called' = called /\ phase' = phase /\ at' = at /\ keys' = keys
  BY DEF Fork, pass
<1>3. ps'[pid'[p]] = p /\ \A n \in Pids : n # pid'[p] => ps'[n] = ps[n]
  BY <1>1, <1>2 DEF ProcessInv, TypeOK
<1>4. TypeOK'
  BY <1>1, <1>2 DEF ProcessInv, TypeOK
<1>5. (CalledOnce /\ CalledAfterEnd)'
  BY <1>1, <1>2 DEF ProcessInv, CalledOnce, CalledAfterEnd, TypeOK
<1>6. PidsUnique'
  BY <1>1 DEF ProcessInv, PidsUnique, Alive
<1>7. UnderOwnPid'
  BY <1>1, <1>3 DEF ProcessInv, UnderOwnPid
<1>8. ChildRegistered'
  BY <1>1, <1>3 DEF ProcessInv, ChildRegistered, Alive
<1>9. (Spent /\ KeysBehind)'
  BY <1>1, <1>2, <1>3 DEF ProcessInv, Spent, KeysBehind, TypeOK
<1> QED
  BY <1>4, <1>5, <1>6, <1>7, <1>8, <1>9 DEF ProcessInv

(* So has a process of somebody else. *)
LEMMA StrangerBornInv ==
  ASSUME ProcessInv, NEW p \in Process, StrangerBorn(p)
  PROVE  ProcessInv'
<1>1. /\ life[p] = "unborn" /\ called[p] = 0
      /\ pid'[p] \in Pids
      /\ \A q \in Process : q # p => pid'[q] = pid[q] /\ life'[q] = life[q]
      /\ life'[p] = "stranger"
      /\ \A q \in Process : Alive(q) => pid[q] # pid'[p]
      /\ pid' \in [Process -> Pids \union {NoPid}]
      /\ life' \in [Process -> {"unborn", "child", "stranger", "zombie", "dead"}]
  BY BornPid DEF StrangerBorn
<1>2. /\ ps' = ps /\ called' = called
      /\ phase' = phase /\ at' = at /\ keys' = keys
  BY DEF StrangerBorn, manager, pass
<1>3. TypeOK'
  BY <1>1, <1>2 DEF ProcessInv, TypeOK
<1>4. (CalledOnce /\ CalledAfterEnd)'
  BY <1>1, <1>2 DEF ProcessInv, CalledOnce, CalledAfterEnd, TypeOK
<1>5. PidsUnique'
  BY <1>1 DEF ProcessInv, PidsUnique, Alive
<1>6. UnderOwnPid'
  BY <1>1, <1>2 DEF ProcessInv, UnderOwnPid
<1>7. ChildRegistered'
  BY <1>1, <1>2 DEF ProcessInv, ChildRegistered
<1>8. (Spent /\ KeysBehind)'
  BY <1>1, <1>2 DEF ProcessInv, Spent, KeysBehind
<1> QED
  BY <1>3, <1>4, <1>5, <1>6, <1>7, <1>8 DEF ProcessInv

(* A callback is bound to the process that was forked. *)
LEMMA BindProcessInv ==
  ASSUME ProcessInv, NEW p \in Process, BindProcess(p)
  PROVE  ProcessInv'
<1>1. /\ life[p] = "stranger" /\ ps' = [ps EXCEPT ![pid[p]] = p]
      /\ called' = called /\ life' = life /\ pid' = pid
      /\ phase' = phase /\ at' = at /\ keys' = keys
  BY DEF BindProcess, kernel, pass
<1>2. called[p] = 0
  BY <1>1 DEF ProcessInv, CalledAfterEnd, TypeOK
<1>3. \A n \in Pids : ps'[n] = IF n = pid[p] THEN p ELSE ps[n]
  BY <1>1 DEF ProcessInv, TypeOK
<1>4. TypeOK'
  BY <1>1 DEF ProcessInv, TypeOK
<1>5. (CalledOnce /\ CalledAfterEnd /\ PidsUnique)'
  BY <1>1 DEF ProcessInv, CalledOnce, CalledAfterEnd, PidsUnique, Alive
<1>6. UnderOwnPid'
  BY <1>1, <1>3 DEF ProcessInv, UnderOwnPid
<1>7. ChildRegistered'
  <2> SUFFICES ASSUME NEW q \in Process, life[q] \in {"child", "zombie"}
               PROVE  pid[q] \in Pids /\ ps'[pid[q]] \in {q, None}
    BY <1>1 DEF ChildRegistered
  <2>1. pid[q] \in Pids /\ ps[pid[q]] \in {q, None}
    BY DEF ProcessInv, ChildRegistered
  <2>2. pid[q] # pid[p]
    BY <1>1 DEF ProcessInv, PidsUnique, Alive
  <2> QED
    BY <1>3, <2>1, <2>2
<1>8. (Spent /\ KeysBehind)'
  BY <1>1, <1>2, <1>3 DEF ProcessInv, Spent, KeysBehind, TypeOK
<1> QED
  BY <1>4, <1>5, <1>6, <1>7, <1>8 DEF ProcessInv

(* A process that ends stays, with its status, until it is reaped. *)
LEMMA EndInv ==
  ASSUME ProcessInv, NEW p \in Process, End(p)
  PROVE  ProcessInv'
<1>1. /\ life[p] \in {"child", "stranger"}
      /\ life' = [life EXCEPT ![p] = IF @ = "child" THEN "zombie" ELSE "dead"]
      /\ ps' = ps /\ called' = called /\ pid' = pid
      /\ phase' = phase /\ at' = at /\ keys' = keys
  BY DEF End, manager, pass
<1>2. /\ \A q \in Process : q # p => life'[q] = life[q]
      /\ life'[p] = IF life[p] = "child" THEN "zombie" ELSE "dead"
  BY <1>1 DEF ProcessInv, TypeOK
<1>3. TypeOK'
  BY <1>1 DEF ProcessInv, TypeOK
<1>4. (CalledOnce /\ CalledAfterEnd)'
  BY <1>1, <1>2 DEF ProcessInv, CalledOnce, CalledAfterEnd
<1>5. (PidsUnique /\ UnderOwnPid)'
  BY <1>1, <1>2 DEF ProcessInv, PidsUnique, UnderOwnPid, Alive
<1>6. ChildRegistered'
  BY <1>1, <1>2 DEF ProcessInv, ChildRegistered
<1>7. (Spent /\ KeysBehind)'
  BY <1>1 DEF ProcessInv, Spent, KeysBehind
<1> QED
  BY <1>3, <1>4, <1>5, <1>6, <1>7 DEF ProcessInv

(* The reaped child is the one whose registration is called.               *)
LEMMA ReapInv ==
  ASSUME ProcessInv, NEW p \in Process, Reap(p)
  PROVE  ProcessInv'
<1>1. /\ phase = "reap" /\ life[p] = "zombie"
      /\ life' = [life EXCEPT ![p] = "dead"]
      /\ ps' = ps /\ pid' = pid /\ keys' = keys
  BY DEF Reap
<1>2. /\ \A q \in Process : q # p => life'[q] = life[q]
      /\ life'[p] = "dead"
      /\ life' \in [Process -> {"unborn", "child", "stranger", "zombie", "dead"}]
  BY <1>1 DEF ProcessInv, TypeOK
<1>3. keys = {}
  BY <1>1 DEF ProcessInv, KeysBehind
<1>4. pid[p] \in Pids /\ ps[pid[p]] \in {p, None}
  BY <1>1 DEF ProcessInv, ChildRegistered
<1>5. called[p] = 0
  BY <1>1 DEF ProcessInv, CalledAfterEnd, TypeOK
<1>6. (PidsUnique /\ UnderOwnPid /\ ChildRegistered /\ KeysBehind)'
  BY <1>1, <1>2, <1>3
  DEF ProcessInv, PidsUnique, UnderOwnPid, ChildRegistered, KeysBehind, Alive
<1>7. CASE ps[pid[p]] = None
  <2>1. called' = called /\ phase' = phase /\ at' = at
    BY <1>7 DEF Reap
  <2>2. TypeOK'
    BY <1>1, <1>2, <2>1 DEF ProcessInv, TypeOK
  <2>3. (CalledOnce /\ CalledAfterEnd /\ Spent)'
    BY <1>1, <1>2, <2>1 DEF ProcessInv, CalledOnce, CalledAfterEnd, Spent
  <2> QED
    BY <1>6, <2>2, <2>3 DEF ProcessInv
<1>8. CASE ps[pid[p]] = p
  <2>1. /\ called' = [called EXCEPT ![p] = @ + 1]
        /\ phase' = "reaped" /\ at' = pid[p]
    BY <1>8, NoneAssumption DEF Reap
  <2>2. \A q \in Process : called'[q] = IF q = p THEN 1 ELSE called[q]
    BY <1>5, <2>1 DEF ProcessInv, TypeOK
  <2>3. TypeOK'
    BY <1>1, <1>2, <1>4, <2>1 DEF ProcessInv, TypeOK
  <2>4. (CalledOnce /\ CalledAfterEnd)'
    BY <1>2, <2>2 DEF ProcessInv, CalledOnce, CalledAfterEnd
  <2>5. Spent'
    BY <1>1, <1>3, <2>1, <2>2 DEF ProcessInv, Spent, UnderOwnPid
  <2> QED
    BY <1>6, <2>3, <2>4, <2>5 DEF ProcessInv
<1> QED
  BY <1>4, <1>7, <1>8

(* The callback of the process that was reaped goes, and no other. *)
LEMMA EraseReapedInv ==
  ASSUME ProcessInv, EraseReaped
  PROVE  ProcessInv'
<1>1. /\ phase = "reaped" /\ phase' = "reap"
      /\ ps' = [ps EXCEPT ![at] = None]
      /\ called' = called /\ life' = life /\ pid' = pid
      /\ at' = at /\ keys' = keys
  BY DEF EraseReaped, kernel
<1>2. keys = {}
  BY <1>1 DEF ProcessInv, KeysBehind
<1>3. \A n \in Pids : ps'[n] = IF n = at THEN None ELSE ps[n]
  BY <1>1 DEF ProcessInv, TypeOK
<1>4. TypeOK'
  BY <1>1 DEF ProcessInv, TypeOK
<1>5. (CalledOnce /\ CalledAfterEnd /\ PidsUnique)'
  BY <1>1 DEF ProcessInv, CalledOnce, CalledAfterEnd, PidsUnique, Alive
<1>6. UnderOwnPid'
  BY <1>1, <1>3, NoneAssumption DEF ProcessInv, UnderOwnPid
<1>7. ChildRegistered'
  BY <1>1, <1>3 DEF ProcessInv, ChildRegistered
<1>8. (Spent /\ KeysBehind)'
  BY <1>1, <1>2, <1>3, NoneAssumption DEF ProcessInv, Spent, KeysBehind
<1> QED
  BY <1>4, <1>5, <1>6, <1>7, <1>8 DEF ProcessInv

(* The sweep has not called the registration that it comes to: what it     *)
(* called lies behind it.  Its process is dead, since the pid is free.     *)
LEMMA SweepEntryInv ==
  ASSUME ProcessInv, NEW n \in Pids, SweepEntry(n)
  PROVE  ProcessInv'
<1>1. /\ phase \in {"sweep", "swept"} /\ n > at /\ ps[n] # None
      /\ at' = n /\ ps' = ps /\ life' = life /\ pid' = pid
  BY DEF SweepEntry, NextEntry, kernel
<1>2. n \in Nat /\ at \in Nat /\ \A m \in keys : m \in Nat
  BY PidsAssumption DEF ProcessInv, TypeOK, Pids, NoPid
<1>3. (PidsUnique /\ UnderOwnPid /\ ChildRegistered)'
  BY <1>1 DEF ProcessInv, PidsUnique, UnderOwnPid, ChildRegistered, Alive
<1>4. CASE Exists(n)
  <2>1. phase' = "sweep" /\ keys' = keys /\ called' = called
    BY <1>4 DEF SweepEntry
  <2>2. TypeOK'
    BY <1>1, <2>1 DEF ProcessInv, TypeOK
  <2>3. (CalledOnce /\ CalledAfterEnd /\ Spent)'
    BY <1>1, <2>1 DEF ProcessInv, CalledOnce, CalledAfterEnd, Spent
  <2>4. KeysBehind'
    BY <1>1, <1>2, <2>1 DEF ProcessInv, KeysBehind
  <2> QED
    BY <1>3, <2>2, <2>3, <2>4 DEF ProcessInv
<1>5. CASE ~Exists(n)
  <2> DEFINE q == ps[n]
  <2>1. /\ phase' = "swept" /\ keys' = keys \union {n}
        /\ called' = [called EXCEPT ![q] = @ + 1]
    BY <1>5 DEF SweepEntry
  <2>2. q \in Process
    BY <1>1 DEF ProcessInv, TypeOK
  <2>3. pid[q] = n /\ life[q] = "dead"
    BY <1>5, <2>2 DEF ProcessInv, UnderOwnPid, Exists, TypeOK
  <2>4. called[q] = 0
    BY <1>1, <1>2, <2>2 DEF ProcessInv, Spent, KeysBehind, TypeOK
  <2>5. \A p \in Process : called'[p] = IF p = q THEN 1 ELSE called[p]
    BY <2>1, <2>2, <2>4 DEF ProcessInv, TypeOK
  <2>6. TypeOK'
    BY <1>1, <2>1, <2>2 DEF ProcessInv, TypeOK
  <2>7. (CalledOnce /\ CalledAfterEnd)'
    BY <1>1, <2>3, <2>5 DEF ProcessInv, CalledOnce, CalledAfterEnd
  <2>8. Spent'
    BY <1>1, <2>1, <2>3, <2>5 DEF ProcessInv, Spent, UnderOwnPid
  <2>9. KeysBehind'
    BY <1>1, <1>2, <2>1 DEF ProcessInv, KeysBehind
  <2> QED
    BY <1>3, <2>6, <2>7, <2>8, <2>9 DEF ProcessInv
<1> QED
  BY <1>4, <1>5

(* The sweep ends when no child is left that has ended. *)
LEMMA EndSweepInv ==
  ASSUME ProcessInv, EndSweep
  PROVE  ProcessInv'
<1>1. /\ phase' = "idle" /\ keys' = {}
      /\ ps' = [n \in Pids |-> IF n \in keys THEN None ELSE ps[n]]
      /\ called' = called /\ life' = life /\ pid' = pid /\ at' = at
      /\ phase # "reaped"
  BY DEF EndSweep, kernel
<1>2. \A n \in Pids : ps'[n] = IF n \in keys THEN None ELSE ps[n]
  BY <1>1
<1>3. TypeOK'
  BY <1>1 DEF ProcessInv, TypeOK
<1>4. (CalledOnce /\ CalledAfterEnd /\ PidsUnique)'
  BY <1>1 DEF ProcessInv, CalledOnce, CalledAfterEnd, PidsUnique, Alive
<1>5. UnderOwnPid'
  BY <1>1, <1>2, NoneAssumption DEF ProcessInv, UnderOwnPid
<1>6. ChildRegistered'
  BY <1>1, <1>2 DEF ProcessInv, ChildRegistered
<1>7. (Spent /\ KeysBehind)'
  BY <1>1, <1>2, NoneAssumption DEF ProcessInv, Spent, KeysBehind
<1> QED
  BY <1>3, <1>4, <1>5, <1>6, <1>7 DEF ProcessInv

(* Between its loops the pass moves, and nothing is called. *)
LEMMA PassMovesInv ==
  ASSUME ProcessInv, BeginPass \/ BeginSweep
  PROVE  ProcessInv'
<1>1. /\ ps' = ps /\ called' = called /\ life' = life /\ pid' = pid
      /\ keys' = keys /\ at' \in {at, NoPid} /\ phase' \in {"reap", "sweep"}
      /\ phase \in {"idle", "reap"}
  BY DEF BeginPass, BeginSweep, manager, kernel
<1>2. keys = {}
  BY <1>1 DEF ProcessInv, KeysBehind
<1>3. TypeOK'
  BY <1>1 DEF ProcessInv, TypeOK
<1>4. (CalledOnce /\ CalledAfterEnd /\ PidsUnique /\ UnderOwnPid /\ ChildRegistered)'
  BY <1>1
  DEF ProcessInv, CalledOnce, CalledAfterEnd, PidsUnique, UnderOwnPid, ChildRegistered, Alive
<1>5. (Spent /\ KeysBehind)'
  BY <1>1, <1>2 DEF ProcessInv, Spent, KeysBehind
<1> QED
  BY <1>3, <1>4, <1>5 DEF ProcessInv

(* Every step keeps the invariant. *)
LEMMA ProcessInvNext == ProcessInv /\ [Next]_vars => ProcessInv'
<1> SUFFICES ASSUME ProcessInv, [Next]_vars PROVE ProcessInv'
  OBVIOUS
<1>1. ASSUME OnProcessTimer PROVE ProcessInv'
  BY <1>1, PassMovesInv, ReapInv, EraseReapedInv, SweepEntryInv, EndSweepInv
  DEF OnProcessTimer
<1>2. ASSUME NEW p \in Process, Fork(p) \/ BindProcess(p) \/ StrangerBorn(p) \/ End(p)
      PROVE  ProcessInv'
  BY <1>2, ForkInv, BindProcessInv, StrangerBornInv, EndInv
<1>3. CASE UNCHANGED vars
  BY <1>3
  DEF vars, ProcessInv, TypeOK, CalledOnce, CalledAfterEnd, PidsUnique,
      UnderOwnPid, ChildRegistered, Spent, KeysBehind, Alive
<1> QED
  BY <1>1, <1>2, <1>3 DEF Next

(* However many processes share a pid one after the other, and whatever    *)
(* callbacks fork or bind while the pass runs, a callback is called once   *)
(* at most and never for a process that has not ended.                     *)
THEOREM ProcessCalledOnceAfterEnd == Spec => []CalledOnceAfterEnd
<1>1. ProcessInv => CalledOnceAfterEnd
  BY DEF ProcessInv, CalledOnceAfterEnd
<1> QED
  BY <1>1, ProcessInvInit, ProcessInvNext, PTL DEF Spec

-----------------------------------------------------------------------------
(* nanosrv's daemon: the inductive invariant. *)

ServerRecord == [life : {"none", "alive", "deleted"}, fd : Sockets \union {Unbound}, refs : Nat, own : Nat]

DaemonTypes ==
  /\ objects \in [Sockets -> Server \union {NoServer}]
  /\ server \in [Server -> ServerRecord]
  /\ serving \in Server \union {NoServer}
  /\ spoiled.unadded \subseteq Server /\ spoiled.closed \subseteq Server
  /\ spoiled = [unadded |-> spoiled.unadded, closed |-> spoiled.closed]

Places(s) == {f \in Sockets : objects[f] = s}

(* The references that have an owner. *)
Owned(s) ==
  server[s].own + 2 * Cardinality(Places(s)) + (IF serving = s THEN 1 ELSE 0)
    + (IF s \in spoiled.unadded /\ server[s].life = "alive" THEN 1 ELSE 0)

RefsCounted(s) == server[s].refs = Owned(s) /\ (server[s].life = "alive" <=> server[s].refs > 0)

(* A server is listed at its own descriptor, as long as it was not closed. *)
Listing(s) ==
  /\ s \in spoiled.closed => server[s].fd = Unbound
  /\ s \notin spoiled.closed => \A f \in Sockets : objects[f] = s => server[s].fd = f
  /\ server[s].life # "alive" => server[s].fd = Unbound
  /\ server[s].life = "none" => s \notin spoiled.unadded

(* No two servers have one descriptor. *)
Distinct ==
  \A s, t \in Server : s # t /\ server[s].fd # Unbound => server[s].fd # server[t].fd

(* What is listed is waited for, except while it is served. *)
WaitedFor(f) ==
  objects[f] # NoServer /\ objects[f] \notin spoiled.closed =>
    f \in DOMAIN armed /\ (armed[f] \/ serving = objects[f])

DaemonInv ==
  /\ DaemonTypes /\ Distinct
  /\ \A s \in Server : RefsCounted(s) /\ Listing(s)
  /\ \A f \in Sockets : WaitedFor(f)

(* The invariant says that the references are counted. *)
LEMMA DaemonInvCounts == ASSUME DaemonInv PROVE ObjectsCounted
<1>1. ASSUME NEW s \in Server
      PROVE  LET lists == Cardinality({f \in Sockets : objects[f] = s})
             IN /\ server[s].refs = server[s].own + 2 * lists + (IF serving = s THEN 1 ELSE 0)
                              + (IF s \in spoiled.unadded /\ server[s].life = "alive" THEN 1 ELSE 0)
                /\ (server[s].life = "alive") <=> server[s].refs > 0
  BY DEF DaemonInv, RefsCounted, Owned, Places
<1>2. ASSUME NEW f \in Sockets
      PROVE  LET s == objects[f] IN
               s # NoServer /\ s \notin spoiled.closed =>
                 server[s].fd = f /\ f \in DOMAIN armed /\ (armed[f] \/ serving = s)
  <2> SUFFICES ASSUME objects[f] # NoServer, objects[f] \notin spoiled.closed
               PROVE  server[objects[f]].fd = f /\ f \in DOMAIN armed /\ (armed[f] \/ serving = objects[f])
    OBVIOUS
  <2>1. objects[f] \in Server
    BY DEF DaemonInv, DaemonTypes
  <2>2. server[objects[f]].fd = f
    BY <2>1 DEF DaemonInv, Listing
  <2>3. f \in DOMAIN armed /\ (armed[f] \/ serving = objects[f])
    BY DEF DaemonInv, WaitedFor
  <2> QED BY <2>2, <2>3
<1> QED
  BY <1>1, <1>2 DEF ObjectsCounted

(* The places of a server are finitely many. *)
LEMMA PlacesFinite ==
  ASSUME NEW s
  PROVE  IsFiniteSet(Places(s)) /\ Cardinality(Places(s)) \in Nat
<1>1. Places(s) \subseteq Sockets /\ IsFiniteSet(Sockets)
  BY CollectorAssumption DEF Places
<1> QED
  BY <1>1, FS_Subset, FS_CardinalityType

(* At first there are no servers. *)
LEMMA DaemonInitInv == ASSUME CollectorInit PROVE DaemonInv
<1>1. /\ objects = [f \in Sockets |-> NoServer]
      /\ server = [s \in Server |-> [life |-> "none", fd |-> Unbound, refs |-> 0, own |-> 0]]
      /\ serving = NoServer /\ spoiled = [unadded |-> {}, closed |-> {}]
  BY DEF CollectorInit
<1>2. DaemonTypes
  BY <1>1 DEF DaemonTypes, ServerRecord
<1>3. ASSUME NEW s \in Server PROVE RefsCounted(s) /\ Listing(s)
  <2>1. Places(s) = {}
    BY <1>1, CollectorAssumption DEF Places
  <2>2. Cardinality(Places(s)) = 0
    BY <2>1, FS_EmptySet
  <2>3. /\ server[s].life = "none" /\ server[s].fd = Unbound /\ server[s].refs = 0 /\ server[s].own = 0
        /\ serving # s /\ s \notin spoiled.unadded /\ s \notin spoiled.closed
    BY <1>1, CollectorAssumption
  <2>4. RefsCounted(s)
    BY <2>2, <2>3 DEF RefsCounted, Owned
  <2>5. Listing(s)
    BY <1>1, <2>3, CollectorAssumption DEF Listing
  <2> QED BY <2>4, <2>5
<1>4. Distinct
  BY <1>1 DEF Distinct
<1>5. \A f \in Sockets : WaitedFor(f)
  BY <1>1 DEF WaitedFor
<1> QED
  BY <1>2, <1>3, <1>4, <1>5 DEF DaemonInv

-----------------------------------------------------------------------------
(* The daemon's steps: one server changes. *)

(* The servers but s are as they were. *)
OnlyChanges(s) ==
  /\ \A t \in Server \ {s} : server'[t] = server[t]
  /\ \A t \in Server \ {s} : Places(t)' = Places(t)
  /\ \A t \in Server \ {s} : (serving' = t) <=> (serving = t)
  /\ \A t \in Server \ {s} : (t \in spoiled'.unadded) <=> (t \in spoiled.unadded)
  /\ \A t \in Server \ {s} : (t \in spoiled'.closed) <=> (t \in spoiled.closed)

(* What a step that changes one server leaves to show. *)
LEMMA OneServerInv ==
  ASSUME DaemonInv, DaemonTypes', NEW s \in Server, OnlyChanges(s),
         RefsCounted(s)', Listing(s)',
         server'[s].fd = server[s].fd \/ server'[s].fd = Unbound
           \/ \A t \in Server \ {s} : server[t].fd # server'[s].fd,
         \A f \in Sockets : WaitedFor(f)'
  PROVE  DaemonInv'
<1>1. ASSUME NEW t \in Server PROVE RefsCounted(t)' /\ Listing(t)'
  <2>1. CASE t = s
    BY <2>1
  <2>2. CASE t # s
    <3>1. /\ server'[t] = server[t] /\ Places(t)' = Places(t) /\ (serving' = t <=> serving = t)
          /\ (t \in spoiled'.unadded <=> t \in spoiled.unadded)
          /\ (t \in spoiled'.closed <=> t \in spoiled.closed)
      BY <2>2 DEF OnlyChanges
    <3>2. RefsCounted(t) /\ Listing(t)
      BY DEF DaemonInv
    <3>3. RefsCounted(t)'
      BY <3>1, <3>2 DEF RefsCounted, Owned
    <3>4. \A f \in Sockets : objects'[f] = t <=> objects[f] = t
      BY <3>1 DEF Places
    <3>5. Listing(t)'
      BY <3>1, <3>2, <3>4 DEF Listing
    <3> QED BY <3>3, <3>5
  <2> QED BY <2>1, <2>2
<1>2. Distinct'
  <2> SUFFICES ASSUME NEW x \in Server, NEW y \in Server, x # y, server'[x].fd # Unbound
               PROVE  server'[x].fd # server'[y].fd
    BY DEF Distinct
  <2>1. Distinct
    BY DEF DaemonInv
  <2>2. x # s => server'[x].fd = server[x].fd
    BY DEF OnlyChanges
  <2>3. y # s => server'[y].fd = server[y].fd
    BY DEF OnlyChanges
  <2>4. CASE x # s /\ y # s
    BY <2>1, <2>2, <2>3, <2>4 DEF Distinct
  <2>5. CASE x = s
    BY <2>1, <2>3, <2>5 DEF Distinct
  <2>6. CASE y = s
    BY <2>1, <2>2, <2>6 DEF Distinct
  <2> QED BY <2>4, <2>5, <2>6
<1> QED
  BY <1>1, <1>2 DEF DaemonInv

(* What is waited for stays so. *)
LEMMA WaitedKept ==
  ASSUME NEW f \in Sockets, WaitedFor(f),
         objects'[f] = objects[f] \/ objects'[f] = NoServer,
         objects[f] \in spoiled.closed => objects[f] \in spoiled'.closed,
         (f \in DOMAIN armed /\ objects[f] # NoServer /\ objects'[f] # NoServer
            /\ objects[f] \notin spoiled'.closed) =>
            (f \in DOMAIN armed' /\ (armed[f] => armed'[f])),
         (serving = objects[f] /\ objects[f] # NoServer) => (serving' = serving \/ armed'[f])
  PROVE  WaitedFor(f)'
BY Zenon DEF WaitedFor

(* What a server that is not alive has not. *)
LEMMA ServerFacts ==
  ASSUME DaemonInv, NEW s \in Server
  PROVE  /\ server[s] \in ServerRecord /\ server[s].refs \in Nat /\ server[s].own \in Nat
         /\ Cardinality(Places(s)) \in Nat
         /\ (server[s].own > 0 \/ serving = s) => server[s].life = "alive"
         /\ server[s].life # "alive" =>
              (/\ server[s].own = 0 /\ server[s].refs = 0 /\ Cardinality(Places(s)) = 0
               /\ serving # s /\ server[s].fd = Unbound)
<1>1. server[s] \in ServerRecord /\ server[s].refs \in Nat /\ server[s].own \in Nat
  BY DEF DaemonInv, DaemonTypes, ServerRecord
<1>2. Cardinality(Places(s)) \in Nat
  BY PlacesFinite
<1>3. /\ server[s].refs = Owned(s) /\ (server[s].life = "alive" <=> server[s].refs > 0)
      /\ server[s].life # "alive" => server[s].fd = Unbound
  BY DEF DaemonInv, RefsCounted, Listing
<1> DEFINE n == Cardinality(Places(s))
           own == server[s].own
           refs == server[s].refs
           turn == IF serving = s THEN 1 ELSE 0
           left == IF s \in spoiled.unadded /\ server[s].life = "alive" THEN 1 ELSE 0
<1>4. refs = own + 2 * n + turn + left
  BY <1>3 DEF Owned
<1>5. n \in Nat /\ own \in Nat /\ refs \in Nat /\ turn \in {0, 1} /\ left \in {0, 1}
  BY <1>1, <1>2
<1>6. serving = s => turn = 1
  OBVIOUS
<1> HIDE DEF n, own, refs, turn, left
<1>7. /\ (own > 0 \/ turn = 1) => refs > 0
      /\ ~(refs > 0) => (own = 0 /\ refs = 0 /\ n = 0 /\ turn = 0)
  BY <1>4, <1>5
<1> QED
  BY <1>1, <1>2, <1>3, <1>6, <1>7 DEF n, own, refs

(* What a step that only changes a server's record leaves as it was. *)
LEMMA RecordChanges ==
  ASSUME DaemonInv, NEW s \in Server, NEW r \in ServerRecord,
         server' = [server EXCEPT ![s] = r], UNCHANGED <<objects, serving, spoiled>>
  PROVE  /\ DaemonTypes' /\ OnlyChanges(s) /\ server'[s] = r
         /\ Places(s)' = Places(s)
<1>1. DaemonTypes
  BY DEF DaemonInv
<1>2. server' \in [Server -> ServerRecord] /\ server'[s] = r /\ \A t \in Server \ {s} : server'[t] = server[t]
  BY <1>1 DEF DaemonTypes
<1>3. DaemonTypes'
  BY <1>1, <1>2 DEF DaemonTypes
<1>4. \A t : Places(t)' = Places(t)
  BY DEF Places
<1> QED
  BY <1>2, <1>3, <1>4 DEF OnlyChanges

(* A new object has the reference of the pointer that holds it. *)
LEMMA CreateServerInv ==
  ASSUME DaemonInv, NEW s \in Server, CreateServer(s)
  PROVE  DaemonInv'
<1> DEFINE r == [server[s] EXCEPT !.life = "alive", !.refs = 1, !.own = 1]
<1>1. /\ server[s].life = "none" /\ server' = [server EXCEPT ![s] = r]
      /\ UNCHANGED <<objects, armed, serving, spoiled>>
  <2>1. server \in [Server -> ServerRecord]
    BY DEF DaemonInv, DaemonTypes
  <2> QED BY <2>1 DEF CreateServer
<1>2. server[s] \in ServerRecord /\ Cardinality(Places(s)) = 0 /\ serving # s /\ server[s].fd = Unbound
  BY <1>1, ServerFacts
<1>3. s \notin spoiled.unadded /\ Listing(s)
  BY <1>1 DEF DaemonInv, Listing
<1>4. r \in ServerRecord /\ r.life = "alive" /\ r.refs = 1 /\ r.own = 1 /\ r.fd = Unbound
  BY <1>2 DEF ServerRecord
<1> HIDE DEF r
<1>5. DaemonTypes' /\ OnlyChanges(s) /\ server'[s] = r /\ Places(s)' = Places(s)
  BY <1>1, <1>4, RecordChanges
<1>6. RefsCounted(s)'
  BY <1>1, <1>2, <1>3, <1>4, <1>5 DEF RefsCounted, Owned
<1>7. Listing(s)'
  BY <1>1, <1>2, <1>3, <1>4, <1>5 DEF Listing
<1>8. \A f \in Sockets : WaitedFor(f)'
  BY <1>1 DEF WaitedFor, DaemonInv
<1> QED
  BY <1>4, <1>5, <1>6, <1>7, <1>8, OneServerInv

(* socket() gives a descriptor that is not open. *)
LEMMA BindServerInv ==
  ASSUME DaemonInv, NEW s \in Server, BindServer(s)
  PROVE  DaemonInv'
<1>1. /\ server[s].life = "alive" /\ server[s].own > 0 /\ server[s].fd = Unbound
      /\ s \notin spoiled.closed /\ UNCHANGED <<objects, armed, serving, spoiled>>
  BY DEF BindServer
<1>2. PICK f \in Sockets \ Opened : server' = [server EXCEPT ![s].fd = f]
  BY DEF BindServer
<1> DEFINE r == [server[s] EXCEPT !.fd = f]
<1>3. server' = [server EXCEPT ![s] = r]
  <2>1. server \in [Server -> ServerRecord]
    BY DEF DaemonInv, DaemonTypes
  <2> QED BY <1>2, <2>1
<1>4. server[s] \in ServerRecord
  BY ServerFacts
<1>5. /\ r \in ServerRecord /\ r.life = "alive" /\ r.refs = server[s].refs /\ r.own = server[s].own
      /\ r.fd = f
  BY <1>1, <1>4 DEF ServerRecord
<1> HIDE DEF r
<1>6. DaemonTypes' /\ OnlyChanges(s) /\ server'[s] = r /\ Places(s)' = Places(s)
  BY <1>1, <1>3, <1>5, RecordChanges
<1>7. RefsCounted(s) /\ Listing(s)
  BY DEF DaemonInv
<1>8. RefsCounted(s)'
  BY <1>1, <1>5, <1>6, <1>7 DEF RefsCounted, Owned
<1>9. \A g \in Sockets : objects[g] # s
  BY <1>1, <1>7, CollectorAssumption DEF Listing
<1>10. Listing(s)'
  BY <1>1, <1>5, <1>6, <1>9 DEF Listing
<1>11. ASSUME NEW t \in Server \ {s} PROVE server[t].fd # f
  <2>1. CASE server[t].life = "alive"
    BY <1>2, <2>1, CollectorAssumption DEF Opened
  <2>2. CASE server[t].life # "alive"
    BY <1>2, <2>2, ServerFacts, CollectorAssumption
  <2> QED BY <2>1, <2>2
<1>12. \A g \in Sockets : WaitedFor(g)'
  BY <1>1 DEF WaitedFor, DaemonInv
<1> QED
  BY <1>5, <1>6, <1>8, <1>10, <1>11, <1>12, OneServerInv

(* A reference less. *)
LEMMA CountedFacts ==
  ASSUME NEW o \in ServerRecord, o.life = "alive", o.refs > 0
  PROVE  /\ Counted(o, -1) \in ServerRecord
         /\ o.refs = 1 => Counted(o, -1) = Deleted
         /\ o.refs # 1 => (/\ Counted(o, -1).life = "alive" /\ Counted(o, -1).refs = o.refs - 1
                           /\ Counted(o, -1).own = o.own /\ Counted(o, -1).fd = o.fd)
<1>1. o.refs \in Nat /\ (o.refs + (-1) = 0 <=> o.refs = 1) /\ o.refs + (-1) = o.refs - 1
  BY DEF ServerRecord
<1>2. CASE o.refs = 1
  BY <1>1, <1>2 DEF Counted, Deleted, ServerRecord
<1>3. CASE o.refs # 1
  <2>1. Counted(o, -1) = [o EXCEPT !.refs = o.refs - 1] /\ o.refs - 1 \in Nat
    BY <1>1, <1>3 DEF Counted, ServerRecord
  <2> QED BY <2>1, <1>3 DEF ServerRecord
<1> QED BY <1>2, <1>3

(* The descriptors of the other servers are waited for as before. *)
LEMMA WatchedKeeps ==
  ASSUME DaemonInv, NEW s \in Server, NEW o, NEW list, NEW f \in Sockets, f \in DOMAIN list,
         \/ o.fd = server[s].fd
         \/ objects[f] \in Server \ {s} /\ objects[f] \notin spoiled.closed
  PROVE  f \in DOMAIN Watched(s, o, list) /\ (list[f] => Watched(s, o, list)[f])
<1>1. CASE o.fd = server[s].fd
  BY <1>1 DEF Watched
<1>2. CASE o.fd # server[s].fd
  <2> DEFINE t == objects[f]
  <2>1. t \in Server \ {s} /\ t \notin spoiled.closed
    BY <1>2
  <2>2. server[t].fd = f /\ f # Unbound
    BY <2>1, CollectorAssumption DEF DaemonInv, Listing
  <2>3. server[s].fd # f
    BY <2>1, <2>2 DEF DaemonInv, Distinct
  <2> QED BY <1>2, <2>3, Zenon DEF Watched
<1> QED BY <1>1, <1>2

(* A reference is given up, the program's or the turn's. *)
LEMMA ReleaseInv ==
  ASSUME DaemonInv, NEW s \in Server, server[s].life = "alive",
         NEW o \in ServerRecord, o.life = "alive", o.refs = server[s].refs, o.fd = server[s].fd,
         server' = [server EXCEPT ![s] = Counted(o, -1)],
         UNCHANGED <<objects, spoiled>>, DaemonTypes',
         \A t \in Server \ {s} : (serving' = t) <=> (serving = t),
         o.own + (IF serving' = s THEN 1 ELSE 0) + 1 = server[s].own + (IF serving = s THEN 1 ELSE 0),
         \A f \in Sockets : (objects[f] # s \/ Counted(o, -1) # Deleted) => WaitedFor(f)'
  PROVE  DaemonInv'
<1> DEFINE r == Counted(o, -1)
<1>1. o.refs \in Nat /\ o.refs > 0 /\ server[s] \in ServerRecord /\ o.own \in Nat
  BY ServerFacts DEF DaemonInv, RefsCounted, ServerRecord
<1>2. /\ r \in ServerRecord
      /\ o.refs = 1 => r = Deleted
      /\ o.refs # 1 => (/\ r.life = "alive" /\ r.refs = o.refs - 1 /\ r.own = o.own /\ r.fd = o.fd)
  BY <1>1, CountedFacts
<1> HIDE DEF r
<1>3. server'[s] = r /\ \A t \in Server \ {s} : server'[t] = server[t]
  BY <1>2 DEF DaemonInv, DaemonTypes, r
<1>4. \A t : Places(t)' = Places(t)
  BY DEF Places
<1>5. OnlyChanges(s)
  BY <1>3, <1>4 DEF OnlyChanges
<1>6. RefsCounted(s) /\ Listing(s) /\ Cardinality(Places(s)) \in Nat
  BY PlacesFinite DEF DaemonInv
<1> DEFINE n == Cardinality(Places(s))
           m == Cardinality(Places(s)')
           own == server[s].own
           left == IF s \in spoiled.unadded THEN 1 ELSE 0
           turn == IF serving = s THEN 1 ELSE 0
           next == IF serving' = s THEN 1 ELSE 0
<1>7. /\ o.refs = own + 2 * n + turn + left /\ o.own + next + 1 = own + turn
      /\ n \in Nat /\ own \in Nat /\ left \in {0, 1} /\ turn \in {0, 1} /\ next \in {0, 1} /\ m = n
  BY <1>1, <1>4, <1>6 DEF RefsCounted, Owned, ServerRecord
<1>8. serving' = s <=> next = 1
  OBVIOUS
<1>9. s \in spoiled.unadded <=> left = 1
  OBVIOUS
<1> HIDE DEF n, m, own, left, turn, next
<1>10. o.refs = o.own + 2 * n + next + left + 1
  BY <1>1, <1>7
<1>11. o.refs = 1 => (o.own = 0 /\ n = 0 /\ next = 0 /\ left = 0)
  <2> DEFINE x == o.refs
             y == o.own
  <2>1. x = y + 2 * n + next + left + 1 /\ y \in Nat /\ n \in Nat /\ next \in Nat /\ left \in Nat
    BY <1>1, <1>7, <1>10
  <2> HIDE DEF x, y
  <2>2. x = 1 => (y = 0 /\ n = 0 /\ next = 0 /\ left = 0)
    BY <2>1
  <2> QED BY <2>2 DEF x, y
<1>12. CASE o.refs = 1
  <2>0. next = 0 /\ left = 0
    BY <1>11, <1>12
  <2>1. server'[s] = Deleted /\ serving' # s /\ s \notin spoiled.unadded
    <3>1. server'[s] = Deleted
      <4>1. server'[s] = r
        BY <1>3
      <4>2. r = Deleted
        BY <1>2, <1>12
      <4> QED BY <4>1, <4>2
    <3>2. serving' # s
      BY <1>8, <2>0
    <3>3. s \notin spoiled.unadded
      BY <1>9, <2>0
    <3> QED BY <3>1, <3>2, <3>3
  <2>2. m = 0
    BY <1>7, <1>11, <1>12
  <2>3. Places(s)' = {}
    BY <2>2, PlacesFinite, FS_EmptySet, <1>4 DEF m
  <2>4. \A f \in Sockets : objects[f] # s
    BY <2>3, <1>4 DEF Places
  <2>5. RefsCounted(s)'
    <3>1. Owned(s)' = 0 + 2 * 0 + 0 + 0
      BY <2>1, <2>2 DEF Owned, m, Deleted
    <3> QED BY <2>1, <3>1 DEF RefsCounted, Deleted
  <2>6. Listing(s)'
    BY <2>1, <2>4 DEF Listing, Deleted
  <2>7. server'[s].fd = Unbound
    BY <2>1 DEF Deleted
  <2>8. \A f \in Sockets : WaitedFor(f)'
    BY <2>4
  <2> QED BY <1>5, <2>5, <2>6, <2>7, <2>8, OneServerInv
<1>13. CASE o.refs # 1
  <2>1. /\ server'[s].life = "alive" /\ server'[s].refs = o.refs - 1 /\ server'[s].own = o.own
        /\ server'[s].fd = server[s].fd
    BY <1>2, <1>3, <1>13
  <2>2. Owned(s)' = o.own + 2 * n + next + left
    BY <2>1, <1>7 DEF Owned, m, next, left
  <2>3. RefsCounted(s)'
    BY <1>1, <1>7, <1>10, <1>13, <2>1, <2>2 DEF RefsCounted
  <2>4. Listing(s)'
    BY <1>6, <2>1 DEF Listing
  <2>5. r # Deleted
    BY <2>1, <1>3 DEF Deleted
  <2>6. \A f \in Sockets : WaitedFor(f)'
    BY <2>5 DEF r
  <2> QED BY <1>5, <2>1, <2>3, <2>4, <2>6, OneServerInv
<1> QED BY <1>12, <1>13

(* The program gives up a pointer. *)
LEMMA DropServerInv ==
  ASSUME DaemonInv, NEW s \in Server, DropServer(s)
  PROVE  DaemonInv'
<1> DEFINE o == [server[s] EXCEPT !.own = @ - 1]
<1>1. /\ server[s].own > 0 /\ server' = [server EXCEPT ![s] = Counted(o, -1)]
      /\ armed' = Watched(s, server'[s], armed) /\ UNCHANGED <<objects, serving, spoiled>>
  <2>1. server \in [Server -> ServerRecord]
    BY DEF DaemonInv, DaemonTypes
  <2>2. server' = [server EXCEPT ![s] = Counted(o, -1)]
    BY DEF DropServer
  <2> HIDE DEF o
  <2>3. /\ server[s].own > 0 /\ armed' = Watched(s, server'[s], armed)
        /\ UNCHANGED <<objects, serving, spoiled>>
    BY DEF DropServer
  <2> QED BY <2>2, <2>3
<1>2. server[s] \in ServerRecord /\ server[s].own \in Nat /\ server[s].life = "alive"
  BY <1>1, ServerFacts
<1>3. /\ o \in ServerRecord /\ o.life = "alive" /\ o.refs = server[s].refs /\ o.fd = server[s].fd
      /\ o.own = server[s].own - 1
  <2>1. server[s].own - 1 \in Nat
    BY <1>1, <1>2
  <2> QED BY <1>2, <2>1 DEF ServerRecord
<1> HIDE DEF o
<1>r. server[s].refs > 0
  BY <1>2 DEF DaemonInv, RefsCounted
<1>4. /\ Counted(o, -1) \in ServerRecord
      /\ Counted(o, -1) # Deleted => Counted(o, -1).fd = server[s].fd
  BY <1>3, <1>r, CountedFacts
<1>5. DaemonTypes' /\ server'[s] = Counted(o, -1)
  BY <1>1, <1>4 DEF DaemonTypes, DaemonInv
<1>6. ASSUME NEW f \in Sockets, objects[f] # s \/ Counted(o, -1) # Deleted PROVE WaitedFor(f)'
  <2> SUFFICES ASSUME objects[f] # NoServer, objects[f] \notin spoiled.closed
               PROVE  f \in DOMAIN armed' /\ (armed'[f] \/ serving' = objects[f])
    BY <1>1 DEF WaitedFor
  <2>1. f \in DOMAIN armed /\ (armed[f] \/ serving = objects[f])
    BY DEF DaemonInv, WaitedFor
  <2>2. objects[f] \in Server
    BY DEF DaemonInv, DaemonTypes
  <2>3. f \in DOMAIN Watched(s, server'[s], armed) /\ (armed[f] => Watched(s, server'[s], armed)[f])
    BY <1>4, <1>5, <1>6, <2>1, <2>2, WatchedKeeps
  <2> QED BY <1>1, <2>1, <2>3, Zenon
<1>7. /\ \A t \in Server \ {s} : (serving' = t) <=> (serving = t)
      /\ o.own + (IF serving' = s THEN 1 ELSE 0) + 1 = server[s].own + (IF serving = s THEN 1 ELSE 0)
  BY <1>1, <1>2, <1>3
<1> QED
  BY <1>1, <1>2, <1>3, <1>5, <1>6, <1>7, ReleaseInv

(* The turn's pointer is given up. *)
LEMMA EndOfTurnInv ==
  ASSUME DaemonInv, EndOfTurn
  PROVE  DaemonInv'
<1> DEFINE s == serving
           o == server[s]
           list == IF ServerListed(s) /\ server[s].fd \in DOMAIN armed
                   THEN [armed EXCEPT ![server[s].fd] = TRUE] ELSE armed
<1>1. /\ s # NoServer /\ serving' = NoServer /\ server' = [server EXCEPT ![s] = Counted(o, -1)]
      /\ armed' = Watched(s, server'[s], list) /\ UNCHANGED <<objects, spoiled>>
  <2>1. server \in [Server -> ServerRecord] /\ serving \in Server \union {NoServer}
    BY DEF DaemonInv, DaemonTypes
  <2> QED BY <2>1 DEF EndOfTurn
<1>2. s \in Server
  BY <1>1 DEF DaemonInv, DaemonTypes
<1>3. o \in ServerRecord /\ o.own \in Nat /\ o.life = "alive"
  BY <1>2, ServerFacts
<1>r. o.refs > 0
  BY <1>2, <1>3 DEF DaemonInv, RefsCounted
<1>n. s # NoServer /\ s = serving
  BY <1>1
<1>l. /\ DOMAIN list = DOMAIN armed /\ \A f \in DOMAIN armed : armed[f] => list[f]
      /\ ServerListed(s) /\ server[s].fd \in DOMAIN armed => list[server[s].fd]
  <2>1. CASE ServerListed(s) /\ server[s].fd \in DOMAIN armed
    <3>1. list = [armed EXCEPT ![server[s].fd] = TRUE]
      BY <2>1
    <3> HIDE DEF list
    <3> QED BY <2>1, <3>1, Zenon
  <2>2. CASE ~(ServerListed(s) /\ server[s].fd \in DOMAIN armed)
    <3>1. list = armed
      BY <2>2
    <3> HIDE DEF list
    <3> QED BY <2>2, <3>1, Zenon
  <2> QED BY <2>1, <2>2
<1> HIDE DEF s, o, list
<1>4. /\ Counted(o, -1) \in ServerRecord
      /\ Counted(o, -1) # Deleted => Counted(o, -1).fd = o.fd
  BY <1>3, <1>r, CountedFacts
<1>5. DaemonTypes' /\ server'[s] = Counted(o, -1)
  BY <1>1, <1>2, <1>4 DEF DaemonTypes, DaemonInv
<1>6. ASSUME NEW f \in Sockets, objects[f] # s \/ Counted(o, -1) # Deleted PROVE WaitedFor(f)'
  <2> SUFFICES ASSUME objects[f] # NoServer, objects[f] \notin spoiled.closed
               PROVE  f \in DOMAIN armed' /\ armed'[f]
    BY <1>1 DEF WaitedFor
  <2>1. f \in DOMAIN armed /\ (armed[f] \/ s = objects[f])
    BY <1>n DEF DaemonInv, WaitedFor
  <2>2. objects[f] \in Server
    BY DEF DaemonInv, DaemonTypes
  <2>3. list[f]
    <3>1. CASE objects[f] = s
      <4>1. server[s].fd = f
        BY <1>2, <3>1 DEF DaemonInv, Listing
      <4>2. ServerListed(s)
        BY <3>1, <4>1, CollectorAssumption DEF ServerListed
      <4> QED BY <1>l, <2>1, <4>1, <4>2, Zenon
    <3>2. CASE objects[f] # s
      BY <1>l, <2>1, <3>2, Zenon
    <3> QED BY <3>1, <3>2
  <2>4. f \in DOMAIN Watched(s, server'[s], list) /\ (list[f] => Watched(s, server'[s], list)[f])
    <3>1. f \in DOMAIN list
      BY <1>l, <2>1, Zenon
    <3>2. server'[s].fd = server[s].fd \/ (objects[f] \in Server \ {s} /\ objects[f] \notin spoiled.closed)
      BY <1>4, <1>5, <1>6, <2>2 DEF o
    <3> QED BY <1>2, <3>1, <3>2, WatchedKeeps
  <2> QED BY <1>1, <2>3, <2>4, Zenon
<1>7. /\ \A t \in Server \ {s} : (serving' = t) <=> (serving = t)
      /\ o.own + (IF serving' = s THEN 1 ELSE 0) + 1 = server[s].own + (IF serving = s THEN 1 ELSE 0)
  <2>1. serving = s /\ serving' = NoServer /\ s \in Server
    BY <1>1, <1>2, <1>n
  <2>2. \A t \in Server : serving' # t
    BY <2>1, CollectorAssumption
  <2>3. o.own = server[s].own
    BY DEF o
  <2> QED BY <1>3, <2>1, <2>2, <2>3
<1>8. o.refs = server[s].refs /\ o.fd = server[s].fd /\ server[s].life = "alive"
  BY <1>3 DEF o
<1> QED
  BY <1>1, <1>2, <1>3, <1>5, <1>6, <1>7, <1>8, ReleaseInv

(* What adding and removing leave to show: the list and the references of  *)
(* one server change together.                                             *)
LEMMA ListedInv ==
  ASSUME DaemonInv, NEW s \in Server, server[s].life = "alive",
         NEW f \in Sockets, server[s].fd = f, NEW x \in {s, NoServer}, NEW refs \in Nat,
         objects' = [objects EXCEPT ![f] = x],
         server' = [server EXCEPT ![s].refs = refs], UNCHANGED <<serving, spoiled>>,
         x = s => (objects[f] = NoServer /\ refs = server[s].refs + 2),
         x = NoServer => (objects[f] = s /\ refs + 2 = server[s].refs),
         refs > 0,
         \A g \in Sockets : WaitedFor(g)'
  PROVE  DaemonInv'
<1>1. /\ objects \in [Sockets -> Server \union {NoServer}] /\ server \in [Server -> ServerRecord]
      /\ DaemonTypes /\ RefsCounted(s) /\ Listing(s) /\ server[s] \in ServerRecord
  BY DEF DaemonInv, DaemonTypes
<1>2. /\ objects' \in [Sockets -> Server \union {NoServer}] /\ objects'[f] = x
      /\ \A g \in Sockets \ {f} : objects'[g] = objects[g]
  BY <1>1
<1> DEFINE r == [server[s] EXCEPT !.refs = refs]
<1>3. /\ r \in ServerRecord /\ r.refs = refs /\ r.life = "alive" /\ r.fd = f /\ r.own = server[s].own
      /\ server' = [server EXCEPT ![s] = r]
  BY <1>1 DEF ServerRecord
<1> HIDE DEF r
<1>4. /\ server' \in [Server -> ServerRecord] /\ server'[s] = r
      /\ \A t \in Server \ {s} : server'[t] = server[t]
  BY <1>1, <1>3
<1>5. DaemonTypes'
  BY <1>1, <1>2, <1>4 DEF DaemonTypes
<1>6. \A t \in Server \ {s} : Places(t)' = Places(t)
  <2> SUFFICES ASSUME NEW t \in Server \ {s} PROVE Places(t)' = Places(t)
    OBVIOUS
  <2>1. objects[f] # t /\ objects'[f] # t
    BY <1>2, CollectorAssumption
  <2> QED BY <1>2, <2>1 DEF Places
<1>7. OnlyChanges(s)
  BY <1>4, <1>6 DEF OnlyChanges
<1> DEFINE n == Cardinality(Places(s))
           m == Cardinality(Places(s)')
<1>8. n \in Nat /\ m = IF x = s THEN n + 1 ELSE n - 1
  <2>1. IsFiniteSet(Places(s)) /\ n \in Nat
    BY PlacesFinite
  <2>2. CASE x = s
    <3>1. f \notin Places(s) /\ Places(s)' = Places(s) \union {f}
      BY <1>2, <2>2, CollectorAssumption DEF Places
    <3>2. Cardinality(Places(s) \union {f}) = Cardinality(Places(s)) + 1
      BY <2>1, <3>1, FS_AddElement
    <3> QED BY <2>1, <2>2, <3>1, <3>2
  <2>3. CASE x = NoServer
    <3>1. f \in Places(s) /\ Places(s)' = Places(s) \ {f}
      BY <1>2, <2>3, CollectorAssumption DEF Places
    <3>2. NoServer # s
      BY CollectorAssumption
    <3>3. Cardinality(Places(s) \ {f}) = Cardinality(Places(s)) - 1
      BY <2>1, <3>1, FS_RemoveElement
    <3> QED BY <2>1, <2>3, <3>1, <3>2, <3>3
  <2> QED BY <2>2, <2>3, <2>1
<1> HIDE DEF n, m
<1>9. RefsCounted(s)'
  <2> DEFINE own == server[s].own
             turn == IF serving = s THEN 1 ELSE 0
             rest == IF s \in spoiled.unadded THEN 1 ELSE 0
  <2>1. server[s].refs = own + 2 * n + turn + rest /\ own \in Nat /\ turn \in Nat /\ rest \in Nat
    BY <1>1 DEF RefsCounted, Owned, n, ServerRecord
  <2>2. refs = server[s].refs + 2 * (m - n)
    <3>1. server[s].refs \in Nat /\ NoServer # s
      BY <1>1, CollectorAssumption DEF ServerRecord
    <3> QED BY <1>8, <3>1
  <2>3. Owned(s)' = own + 2 * m + turn + rest
    BY <1>3, <1>4 DEF Owned, m
  <2> HIDE DEF own, turn, rest
  <2>4. m \in Int
    BY <1>8
  <2>5. refs = own + 2 * m + turn + rest
    BY <1>8, <2>1, <2>2, <2>4
  <2> QED BY <1>3, <1>4, <2>3, <2>5 DEF RefsCounted
<1>10. Listing(s)'
  <2>1. s \notin spoiled.closed
    BY <1>1, CollectorAssumption DEF Listing
  <2>2. \A g \in Sockets : objects'[g] = s => g = f
    BY <1>1, <1>2, <2>1 DEF Listing
  <2> QED BY <1>3, <1>4, <2>1, <2>2 DEF Listing
<1>11. server'[s].fd = server[s].fd
  BY <1>3, <1>4
<1> QED
  BY <1>5, <1>7, <1>9, <1>10, <1>11, OneServerInv

(* Two references for the list, or one that a refused addition leaves. *)
LEMMA AddServerInv ==
  ASSUME DaemonInv, NEW s \in Server, AddServer(s)
  PROVE  DaemonInv'
<1> DEFINE f == server[s].fd
<1>1. /\ server[s].own > 0 /\ f # Unbound /\ objects[f] = NoServer /\ AddObject(s) /\ UNCHANGED serving
  BY DEF AddServer
<1>2. /\ server[s] \in ServerRecord /\ server[s].own \in Nat /\ server[s].life = "alive"
      /\ server \in [Server -> ServerRecord] /\ objects \in [Sockets -> Server \union {NoServer}]
      /\ DaemonTypes
  BY <1>1, ServerFacts DEF DaemonInv, DaemonTypes
<1>3. f \in Sockets /\ server[s].refs \in Nat
  BY <1>1, <1>2 DEF ServerRecord
<1>4. ASSUME objects' = [objects EXCEPT ![f] = s],
             armed' = [g \in DOMAIN armed \union {f} |-> IF g = f THEN TRUE ELSE armed[g]],
             server' = [server EXCEPT ![s].refs = @ + 2], UNCHANGED spoiled
      PROVE  DaemonInv'
  <2> DEFINE refs == server[s].refs + 2
  <2>1. refs \in Nat /\ refs > 0 /\ server' = [server EXCEPT ![s].refs = refs]
    BY <1>2, <1>3, <1>4
  <2>2. ASSUME NEW g \in Sockets PROVE WaitedFor(g)'
    <3>1. CASE g = f
      <4>1. f \in DOMAIN armed' /\ armed'[f]
        BY <1>4, Zenon
      <4> QED BY <3>1, <4>1, Zenon DEF WaitedFor
    <3>2. CASE g # f
      <4>1. g \in DOMAIN armed => (g \in DOMAIN armed' /\ (armed[g] => armed'[g]))
        BY <1>4, <3>2, Zenon
      <4>2. objects'[g] = objects[g]
        BY <1>2, <1>4, <3>2
      <4>3. WaitedFor(g)
        BY DEF DaemonInv
      <4> QED BY <1>1, <1>4, <4>1, <4>2, <4>3, WaitedKept
    <3> QED BY <3>1, <3>2
  <2>3. s # NoServer
    BY CollectorAssumption
  <2> DEFINE x == s
  <2>4. /\ x \in {s, NoServer} /\ objects' = [objects EXCEPT ![f] = x]
        /\ x = s => (objects[f] = NoServer /\ refs = server[s].refs + 2)
        /\ x = NoServer => (objects[f] = s /\ refs + 2 = server[s].refs)
    BY <1>1, <1>4, <2>3
  <2> HIDE DEF refs, x, f
  <2> QED BY <1>1, <1>2, <1>3, <1>4, <2>1, <2>2, <2>4, ListedInv DEF f
<1>5. ASSUME s \notin spoiled.unadded, server' = [server EXCEPT ![s].refs = @ + 1],
             spoiled' = [spoiled EXCEPT !.unadded = @ \union {s}], UNCHANGED <<objects, armed>>
      PROVE  DaemonInv'
  <2> DEFINE r == [server[s] EXCEPT !.refs = server[s].refs + 1]
  <2>1. /\ r \in ServerRecord /\ r.life = "alive" /\ r.own = server[s].own /\ r.fd = f
        /\ r.refs = server[s].refs + 1 /\ server' = [server EXCEPT ![s] = r]
    <3>1. server[s].refs + 1 \in Nat
      BY <1>3
    <3> QED BY <1>2, <1>5, <3>1 DEF ServerRecord
  <2> HIDE DEF r
  <2>2. server'[s] = r /\ server' \in [Server -> ServerRecord] /\ \A t \in Server \ {s} : server'[t] = server[t]
    BY <1>2, <2>1
  <2>3. /\ spoiled' = [unadded |-> spoiled'.unadded, closed |-> spoiled'.closed]
        /\ spoiled'.unadded = spoiled.unadded \union {s} /\ spoiled'.closed = spoiled.closed
    BY <1>2, <1>5 DEF DaemonTypes
  <2>4. DaemonTypes'
    BY <1>1, <1>2, <1>5, <2>2, <2>3 DEF DaemonTypes
  <2>5. \A t : Places(t)' = Places(t)
    BY <1>5 DEF Places
  <2>6. OnlyChanges(s)
    BY <1>1, <2>2, <2>3, <2>5 DEF OnlyChanges
  <2>7. RefsCounted(s) /\ Listing(s)
    BY DEF DaemonInv
  <2>8. RefsCounted(s)'
    <3> DEFINE own == server[s].own
               n == Cardinality(Places(s))
               turn == IF serving = s THEN 1 ELSE 0
    <3>1. server[s].refs = own + 2 * n + turn + 0
      BY <1>2, <1>5, <2>7 DEF RefsCounted, Owned
    <3>2. Owned(s)' = own + 2 * n + turn + 1
      BY <1>1, <2>1, <2>2, <2>3, <2>5 DEF Owned
    <3>3. own \in Nat /\ n \in Nat /\ turn \in Nat
      BY <1>2, PlacesFinite
    <3> HIDE DEF own, n, turn
    <3>4. server[s].refs + 1 = own + 2 * n + turn + 1 /\ server[s].refs + 1 > 0
      BY <3>1, <3>3
    <3> QED BY <2>1, <2>2, <3>2, <3>4 DEF RefsCounted
  <2>9. Listing(s)'
    BY <1>5, <2>1, <2>2, <2>3, <2>7 DEF Listing
  <2>10. \A g \in Sockets : WaitedFor(g)'
    BY <1>1, <1>5, <2>3 DEF DaemonInv, WaitedFor
  <2> QED BY <2>1, <2>2, <2>4, <2>6, <2>8, <2>9, <2>10, OneServerInv
<1>6. \/ /\ objects' = [objects EXCEPT ![f] = s]
         /\ armed' = [g \in DOMAIN armed \union {f} |-> IF g = f THEN TRUE ELSE armed[g]]
         /\ server' = [server EXCEPT ![s].refs = @ + 2] /\ UNCHANGED spoiled
      \/ /\ s \notin spoiled.unadded /\ server' = [server EXCEPT ![s].refs = @ + 1]
         /\ spoiled' = [spoiled EXCEPT !.unadded = @ \union {s}] /\ UNCHANGED <<objects, armed>>
  BY <1>1, Zenon DEF AddObject
<1> QED
  BY <1>4, <1>5, <1>6

(* Who removes a server holds another reference: it is never deleted then. *)
LEMMA RemoveServerInv ==
  ASSUME DaemonInv, NEW s \in Server, RemoveServer(s)
  PROVE  DaemonInv'
<1> DEFINE f == server[s].fd
           refs == server[s].refs - 2
           n == Cardinality(Places(s))
<1>1. /\ server[s].own > 0 \/ serving = s
      /\ f # Unbound /\ objects[f] = s /\ UNCHANGED <<serving, spoiled>>
      /\ objects' = [objects EXCEPT ![f] = NoServer]
      /\ server' = [server EXCEPT ![s] = Counted(@, -2)]
      /\ armed' = Watched(s, server'[s], Without({f}))
  BY DEF RemoveServer, RemoveObject, ServerListed
<1>2. /\ server[s] \in ServerRecord /\ server[s].own \in Nat /\ server[s].life = "alive"
      /\ server[s].refs \in Nat /\ n \in Nat /\ server \in [Server -> ServerRecord]
      /\ objects \in [Sockets -> Server \union {NoServer}]
  BY <1>1, ServerFacts DEF DaemonInv, DaemonTypes
<1>3. f \in Sockets
  BY <1>1, <1>2 DEF ServerRecord
<1>4. n >= 1
  <2>1. f \in Places(s) /\ IsFiniteSet(Places(s))
    BY <1>1, <1>3, PlacesFinite DEF Places
  <2>2. n # 0
    BY <2>1, FS_EmptySet
  <2> QED BY <1>2, <2>2
<1>5. refs > 0 /\ refs \in Nat
  <2> DEFINE own == server[s].own
             turn == IF serving = s THEN 1 ELSE 0
             rest == IF s \in spoiled.unadded THEN 1 ELSE 0
  <2>1. server[s].refs = own + 2 * n + turn + rest
    BY <1>2 DEF DaemonInv, RefsCounted, Owned
  <2>2. own + turn >= 1 /\ own \in Nat /\ turn \in Nat /\ rest \in Nat
    BY <1>1, <1>2
  <2> HIDE DEF own, n, turn, rest
  <2> QED BY <1>2, <1>4, <2>1, <2>2
<1>6. Counted(server[s], -2) = [server[s] EXCEPT !.refs = refs]
  BY <1>2, <1>5 DEF Counted
<1>7. server' = [server EXCEPT ![s].refs = refs] /\ server'[s].fd = f
  BY <1>1, <1>2, <1>6 DEF ServerRecord
<1>8. armed' = [g \in DOMAIN armed \ {f} |-> armed[g]]
  BY <1>1, <1>7 DEF Watched, Without
<1>9. ASSUME NEW g \in Sockets PROVE WaitedFor(g)'
  <2>1. CASE g = f
    BY <1>1, <1>2, <1>3, <2>1 DEF WaitedFor
  <2>2. CASE g # f
    <3>1. g \in DOMAIN armed => (g \in DOMAIN armed' /\ (armed[g] => armed'[g]))
      BY <1>8, <2>2, Zenon
    <3>2. objects'[g] = objects[g]
      BY <1>1, <1>2, <2>2
    <3>3. WaitedFor(g)
      BY DEF DaemonInv
    <3> QED BY <1>1, <3>1, <3>2, <3>3, WaitedKept
  <2> QED BY <2>1, <2>2
<1> DEFINE x == NoServer
<1>10. /\ x \in {s, NoServer} /\ objects' = [objects EXCEPT ![f] = x]
       /\ x = s => (objects[f] = NoServer /\ refs = server[s].refs + 2)
       /\ x = NoServer => (objects[f] = s /\ refs + 2 = server[s].refs)
  BY <1>1, <1>2, <1>5, CollectorAssumption
<1> HIDE DEF refs, x, f
<1> QED
  BY <1>1, <1>2, <1>3, <1>5, <1>7, <1>9, <1>10, ListedInv DEF f

(* Only the list of epoll changes. *)
LEMMA ArmedInv ==
  ASSUME DaemonInv, UNCHANGED <<objects, server, serving, spoiled>>,
         \A f \in Sockets : WaitedFor(f)'
  PROVE  DaemonInv'
<1>1. \A s : Places(s)' = Places(s)
  BY DEF Places
<1>2. ASSUME NEW s \in Server PROVE RefsCounted(s)' /\ Listing(s)'
  <2>1. RefsCounted(s) /\ Listing(s)
    BY DEF DaemonInv
  <2> QED BY <1>1, <2>1 DEF RefsCounted, Owned, Listing
<1>3. DaemonTypes' /\ Distinct'
  BY DEF DaemonInv, DaemonTypes, Distinct
<1> QED
  BY <1>2, <1>3 DEF DaemonInv

(* A server that is listed is armed anew. *)
LEMMA ModifyServerInv ==
  ASSUME DaemonInv, NEW s \in Server, ModifyServer(s)
  PROVE  DaemonInv'
<1> DEFINE f == server[s].fd
<1>1. /\ f \in DOMAIN armed /\ armed' = [armed EXCEPT ![f] = TRUE]
      /\ UNCHANGED <<objects, server, serving, spoiled>>
  BY Zenon DEF ModifyServer
<1> HIDE DEF f
<1>2. ASSUME NEW g \in Sockets PROVE WaitedFor(g)'
  <2>1. g \in DOMAIN armed => (g \in DOMAIN armed' /\ (armed[g] => armed'[g]))
    BY <1>1, Zenon
  <2>2. WaitedFor(g)
    BY DEF DaemonInv
  <2> QED BY <1>1, <2>1, <2>2, WaitedKept
<1> QED
  BY <1>1, <1>2, ArmedInv

(* run() starts. *)
LEMMA RunDaemonInv ==
  ASSUME DaemonInv, RunDaemon \/ UNCHANGED daemon_vars
  PROVE  DaemonInv'
<1>1. UNCHANGED <<objects, armed, server, serving, spoiled>>
  BY DEF RunDaemon, daemon_vars
<1>2. \A g \in Sockets : WaitedFor(g)'
  BY <1>1 DEF DaemonInv, WaitedFor
<1> QED
  BY <1>1, <1>2, ArmedInv

(* A server that is closed loses its descriptor, listed or not. *)
LEMMA CloseServerInv ==
  ASSUME DaemonInv, NEW s \in Server, CloseServer(s)
  PROVE  DaemonInv'
<1> DEFINE f == server[s].fd
           r == [server[s] EXCEPT !.fd = Unbound]
<1>1. /\ server[s].own > 0 /\ f # Unbound /\ UNCHANGED <<objects, serving>>
      /\ server' = [server EXCEPT ![s].fd = Unbound]
      /\ armed' = [g \in DOMAIN armed \ {f} |-> armed[g]]
      /\ spoiled' = IF ServerListed(s) THEN [spoiled EXCEPT !.closed = @ \union {s}] ELSE spoiled
  BY DEF CloseServer, Without
<1>2. /\ server[s] \in ServerRecord /\ server[s].life = "alive"
      /\ server \in [Server -> ServerRecord] /\ DaemonTypes /\ RefsCounted(s) /\ Listing(s) /\ Distinct
  BY <1>1, ServerFacts DEF DaemonInv, DaemonTypes
<1>3. /\ r \in ServerRecord /\ r.life = "alive" /\ r.refs = server[s].refs /\ r.own = server[s].own
      /\ r.fd = Unbound /\ server' = [server EXCEPT ![s] = r]
  BY <1>1, <1>2 DEF ServerRecord
<1> HIDE DEF r
<1>4. server'[s] = r /\ server' \in [Server -> ServerRecord] /\ \A t \in Server \ {s} : server'[t] = server[t]
  BY <1>2, <1>3
<1>5. /\ spoiled' = [unadded |-> spoiled'.unadded, closed |-> spoiled'.closed]
      /\ spoiled'.unadded = spoiled.unadded
      /\ ServerListed(s) => spoiled'.closed = spoiled.closed \union {s}
      /\ ~ServerListed(s) => spoiled'.closed = spoiled.closed
  BY <1>1, <1>2 DEF DaemonTypes
<1>6. \A t : Places(t)' = Places(t)
  BY <1>1 DEF Places
<1>7. OnlyChanges(s)
  BY <1>1, <1>4, <1>5, <1>6 DEF OnlyChanges
<1>8. DaemonTypes'
  BY <1>1, <1>2, <1>4, <1>5 DEF DaemonTypes
<1>9. RefsCounted(s)'
  BY <1>1, <1>2, <1>3, <1>4, <1>5, <1>6 DEF RefsCounted, Owned
<1>10. s \notin spoiled'.closed => \A g \in Sockets : objects[g] # s
  <2> SUFFICES ASSUME s \notin spoiled'.closed, NEW g \in Sockets, objects[g] = s PROVE FALSE
    OBVIOUS
  <2>1. ~ServerListed(s) /\ s \notin spoiled.closed
    BY <1>5
  <2>2. f = g
    BY <1>2, <2>1 DEF Listing
  <2> QED BY <1>1, <2>1, <2>2 DEF ServerListed
<1>11. Listing(s)'
  BY <1>1, <1>2, <1>3, <1>4, <1>10 DEF Listing
<1>12. ASSUME NEW g \in Sockets PROVE WaitedFor(g)'
  <2> SUFFICES ASSUME objects[g] # NoServer, objects[g] \notin spoiled'.closed
               PROVE  g \in DOMAIN armed' /\ (armed'[g] \/ serving' = objects[g])
    BY <1>1 DEF WaitedFor
  <2>1. objects[g] # s /\ objects[g] \notin spoiled.closed
    BY <1>5, <1>10
  <2>2. g \in DOMAIN armed /\ (armed[g] \/ serving = objects[g])
    BY <2>1 DEF DaemonInv, WaitedFor
  <2>3. objects[g] \in Server
    BY <1>2 DEF DaemonTypes
  <2>4. server[objects[g]].fd = g
    BY <2>1, <2>3 DEF DaemonInv, Listing
  <2>5. g # f
    BY <1>1, <1>2, <2>1, <2>3, <2>4 DEF Distinct
  <2> QED BY <1>1, <2>2, <2>5, Zenon
<1> QED
  BY <1>3, <1>4, <1>7, <1>8, <1>9, <1>11, <1>12, OneServerInv

(* The turn takes a pointer to what it serves. *)
LEMMA WaitEventInv ==
  ASSUME DaemonInv, NEW f \in Sockets, WaitEvent(f)
  PROVE  DaemonInv'
<1>s. objects[f] \in Server
  BY DEF DaemonInv, DaemonTypes, WaitEvent
<1> PICK s \in Server : s = objects[f]
  BY <1>s
<1> DEFINE r == [server[s] EXCEPT !.refs = server[s].refs + 1]
<1>1. /\ serving = NoServer /\ f \in DOMAIN armed /\ s # NoServer
      /\ armed' = [armed EXCEPT ![f] = FALSE] /\ serving' = s
      /\ server' = [server EXCEPT ![s].refs = @ + 1] /\ UNCHANGED <<objects, spoiled>>
  BY Zenon DEF WaitEvent
<1>2. /\ s \in Server /\ server \in [Server -> ServerRecord] /\ DaemonTypes
  BY <1>1 DEF DaemonInv, DaemonTypes
<1>3. /\ server[s] \in ServerRecord /\ server[s].own \in Nat /\ server[s].refs \in Nat
      /\ RefsCounted(s) /\ Listing(s) /\ Cardinality(Places(s)) \in Nat
  BY <1>2, ServerFacts DEF DaemonInv
<1>4. server[s].life = "alive"
  <2>1. f \in Places(s) /\ IsFiniteSet(Places(s))
    BY PlacesFinite DEF Places
  <2>2. Cardinality(Places(s)) # 0
    BY <2>1, FS_EmptySet
  <2> QED BY <1>2, <2>2, ServerFacts
<1>5. /\ r \in ServerRecord /\ r.life = "alive" /\ r.own = server[s].own /\ r.fd = server[s].fd
      /\ r.refs = server[s].refs + 1 /\ server' = [server EXCEPT ![s] = r]
  <2>1. server[s].refs + 1 \in Nat
    BY <1>3
  <2> QED BY <1>1, <1>2, <1>3, <1>4, <2>1 DEF ServerRecord
<1> HIDE DEF r
<1>6. server'[s] = r /\ server' \in [Server -> ServerRecord] /\ \A t \in Server \ {s} : server'[t] = server[t]
  BY <1>2, <1>5
<1>7. \A t : Places(t)' = Places(t)
  BY <1>1 DEF Places
<1>8. OnlyChanges(s)
  BY <1>1, <1>6, <1>7, CollectorAssumption DEF OnlyChanges
<1>9. DaemonTypes'
  BY <1>1, <1>2, <1>6 DEF DaemonTypes
<1>10. RefsCounted(s)'
  <2> DEFINE own == server[s].own
             n == Cardinality(Places(s))
             rest == IF s \in spoiled.unadded THEN 1 ELSE 0
  <2>1. server[s].refs = own + 2 * n + 0 + rest
    BY <1>1, <1>3, <1>4 DEF RefsCounted, Owned
  <2>2. Owned(s)' = own + 2 * n + 1 + rest
    BY <1>1, <1>5, <1>6, <1>7 DEF Owned
  <2>3. own \in Nat /\ n \in Nat /\ rest \in Nat
    BY <1>3
  <2> HIDE DEF own, n, rest
  <2>4. server[s].refs + 1 = own + 2 * n + 1 + rest /\ server[s].refs + 1 > 0
    BY <2>1, <2>3
  <2> QED BY <1>5, <1>6, <2>2, <2>4 DEF RefsCounted
<1>11. Listing(s)'
  BY <1>1, <1>3, <1>4, <1>5, <1>6 DEF Listing
<1>12. ASSUME NEW g \in Sockets PROVE WaitedFor(g)'
  <2>1. CASE g = f
    <3>1. f \in DOMAIN armed' /\ serving' = objects'[f]
      BY <1>1, Zenon
    <3> QED BY <2>1, <3>1, Zenon DEF WaitedFor
  <2>2. CASE g # f
    <3>1. g \in DOMAIN armed => (g \in DOMAIN armed' /\ (armed[g] => armed'[g]))
      BY <1>1, <2>2, Zenon
    <3>2. WaitedFor(g)
      BY DEF DaemonInv
    <3> QED BY <1>1, <3>1, <3>2, WaitedKept
  <2> QED BY <2>1, <2>2
<1> QED
  BY <1>2, <1>5, <1>6, <1>8, <1>9, <1>10, <1>11, <1>12, OneServerInv

(* Every step of the daemon keeps the invariant. *)
LEMMA DaemonNextInv ==
  ASSUME DaemonInv, [DaemonNext]_daemon_vars
  PROVE  DaemonInv'
<1>1. CASE \E s \in Server : \/ CreateServer(s) \/ BindServer(s) \/ DropServer(s) \/ AddServer(s)
                             \/ RemoveServer(s) \/ ModifyServer(s) \/ CloseServer(s)
  BY <1>1, CreateServerInv, BindServerInv, DropServerInv, AddServerInv, RemoveServerInv,
     ModifyServerInv, CloseServerInv
<1>2. CASE RunDaemon \/ UNCHANGED daemon_vars
  BY <1>2, RunDaemonInv
<1>3. CASE \E f \in Sockets : WaitEvent(f)
  BY <1>3, WaitEventInv
<1>4. CASE EndOfTurn
  BY <1>4, EndOfTurnInv
<1> QED
  BY <1>1, <1>2, <1>3, <1>4 DEF DaemonNext

(* For every set of servers and of descriptors: no object is deleted while *)
(* the daemon may call it, and none is kept without a reason (netdaemon.cpp*)
(* and object.h of nanosrv).                                               *)
THEOREM ServersAreCounted == DaemonSpec => []ObjectsCounted
<1>1. CollectorInit => DaemonInv
  BY DaemonInitInv
<1>2. DaemonInv /\ [DaemonNext]_daemon_vars => DaemonInv'
  BY DaemonNextInv
<1>3. DaemonInv => ObjectsCounted
  BY DaemonInvCounts
<1> QED
  BY <1>1, <1>2, <1>3, PTL DEF DaemonSpec

-----------------------------------------------------------------------------
(* The NetFlow collector: addresses. *)

(* The size of a network that is not all addresses. *)
LEMMA NetworkSize ==
  ASSUME NEW bits \in 1..32
  PROVE  2 ^ (32 - bits) \in Nat \ {0}
<1>1. /\ 2 ^ 0 \in Nat \ {0} /\ 2 ^ 1 \in Nat \ {0} /\ 2 ^ 2 \in Nat \ {0} /\ 2 ^ 3 \in Nat \ {0}
      /\ 2 ^ 4 \in Nat \ {0} /\ 2 ^ 5 \in Nat \ {0} /\ 2 ^ 6 \in Nat \ {0} /\ 2 ^ 7 \in Nat \ {0}
      /\ 2 ^ 8 \in Nat \ {0} /\ 2 ^ 9 \in Nat \ {0} /\ 2 ^ 10 \in Nat \ {0} /\ 2 ^ 11 \in Nat \ {0}
      /\ 2 ^ 12 \in Nat \ {0} /\ 2 ^ 13 \in Nat \ {0} /\ 2 ^ 14 \in Nat \ {0} /\ 2 ^ 15 \in Nat \ {0}
      /\ 2 ^ 16 \in Nat \ {0} /\ 2 ^ 17 \in Nat \ {0} /\ 2 ^ 18 \in Nat \ {0} /\ 2 ^ 19 \in Nat \ {0}
      /\ 2 ^ 20 \in Nat \ {0} /\ 2 ^ 21 \in Nat \ {0} /\ 2 ^ 22 \in Nat \ {0} /\ 2 ^ 23 \in Nat \ {0}
      /\ 2 ^ 24 \in Nat \ {0} /\ 2 ^ 25 \in Nat \ {0} /\ 2 ^ 26 \in Nat \ {0} /\ 2 ^ 27 \in Nat \ {0}
      /\ 2 ^ 28 \in Nat \ {0} /\ 2 ^ 29 \in Nat \ {0} /\ 2 ^ 30 \in Nat \ {0} /\ 2 ^ 31 \in Nat \ {0}
  OBVIOUS
<1> DEFINE k == 32 - bits
<1>2. k \in 0..31
  OBVIOUS
<1> HIDE DEF k
<1>3. 2 ^ k \in Nat \ {0}
  <2>1. CASE k \in 0..15
    <3>1. \/ k = 0 \/ k = 1 \/ k = 2 \/ k = 3 \/ k = 4 \/ k = 5 \/ k = 6 \/ k = 7
          \/ k = 8 \/ k = 9 \/ k = 10 \/ k = 11 \/ k = 12 \/ k = 13 \/ k = 14 \/ k = 15
      BY <2>1
    <3> QED BY <1>1, <3>1, Zenon
  <2>2. CASE k \in 16..31
    <3>1. \/ k = 16 \/ k = 17 \/ k = 18 \/ k = 19 \/ k = 20 \/ k = 21 \/ k = 22 \/ k = 23
          \/ k = 24 \/ k = 25 \/ k = 26 \/ k = 27 \/ k = 28 \/ k = 29 \/ k = 30 \/ k = 31
      BY <2>2
    <3> QED BY <1>1, <3>1, Zenon
  <2> QED BY <1>2, <2>1, <2>2
<1> QED
  BY <1>3 DEF k

(* The key of an address is less than it by its first three bytes. *)
LEMMA KeyBounds ==
  ASSUME NEW a \in Address
  PROVE  /\ IP(a) \in Nat /\ KeyOf(a) \in Nat
         /\ KeyOf(a) <= IP(a) /\ IP(a) <= KeyOf(a) + 765
<1>1. a[1] \in 0..255 /\ a[2] \in 0..255 /\ a[3] \in 0..255 /\ a[4] \in 0..255
  BY DEF Address
<1> DEFINE p == a[1]
           q == a[2]
           r == a[3]
           s == a[4]
<1>2. /\ IP(a) = p * 16777216 + q * 65536 + r * 256 + s
      /\ KeyOf(a) = p * 16777215 + q * 65535 + r * 255 + s
  BY DEF IP, KeyOf
<1>3. p \in 0..255 /\ q \in 0..255 /\ r \in 0..255 /\ s \in 0..255
  BY <1>1
<1> HIDE DEF p, q, r, s
<1> QED
  BY <1>2, <1>3

(* The block of an address holds it. *)
LEMMA BlockBounds ==
  ASSUME NEW B \in Nat \ {0}, NEW x \in Nat, NEW n \in Nat, (x \div B) * B = n
  PROVE  n <= x /\ x < n + B
<1> DEFINE q == x \div B
<1>1. q \in Nat /\ x % B \in 0..B - 1 /\ x = B * q + (x % B)
  BY DivMod
<1>2. q * B = n
  OBVIOUS
<1> HIDE DEF q
<1>3. B * q = q * B
  BY <1>1
<1> QED
  BY <1>1, <1>2, <1>3

(* The block of an address that is in a block. *)
LEMMA BlockOf ==
  ASSUME NEW B \in Nat \ {0}, NEW x \in Nat, NEW y \in Nat, NEW n \in Nat,
         (x \div B) * B = n, n <= y, y < n + B
  PROVE  (y \div B) * B = n
<1> DEFINE q == x \div B
<1>1. q \in Nat
  BY DivMod
<1>2. q * B = n
  OBVIOUS
<1> HIDE DEF q
<1>3. q \in Int /\ (q + 1) * B = n + B
  BY <1>1, <1>2
<1>4. q * B <= y /\ y < (q + 1) * B
  BY <1>2, <1>3
<1>5. y \div B = q
  BY <1>3, <1>4, DivUnique
<1> QED
  BY <1>2, <1>5

(* What an address that no edge of the network is near below leaves open.  *)
FarFrom(net, a) ==
  net.bits # 0 =>
    \A edge \in {IP(net.ip), IP(net.ip) + 2 ^ (32 - net.bits)} : edge <= IP(a) - 3 * 255 \/ IP(a) < edge

(* Far from the edges, the key of an address is covered when it is.        *)
LEMMA KeyCovers ==
  ASSUME NEW a \in Address, NEW net \in Network, FarFrom(net, a)
  PROVE  Covers(net, KeyOf(a), FALSE) <=> Covers(net, IP(a), FALSE)
<1> DEFINE k == KeyOf(a)
           x == IP(a)
           n == IP(net.ip)
           B == 2 ^ (32 - net.bits)
<1>1. k \in Nat /\ x \in Nat /\ k <= x /\ x <= k + 765 /\ n \in Nat
  BY KeyBounds DEF Network
<1>2. CASE net.bits = 0
  BY <1>2 DEF Covers
<1>3. CASE net.bits # 0
  <2>b. net.bits \in 1..32
    BY <1>3 DEF Network
  <2>1. B \in Nat \ {0}
    BY <2>b, NetworkSize
  <2>2. /\ n <= x - 765 \/ x < n
        /\ n + B <= x - 765 \/ x < n + B
    BY <1>1, <1>3, <2>1 DEF FarFrom
  <2>3. \A y : Covers(net, y, FALSE) <=> (y \div B) * B = n
    BY <1>3 DEF Covers
  <2> HIDE DEF k, x, n, B
  <2>4. ASSUME (k \div B) * B = n PROVE (x \div B) * B = n
    <3>1. n <= k /\ k < n + B
      BY <1>1, <2>1, <2>4, BlockBounds
    <3>2. n <= x /\ x < n + B
      BY <1>1, <2>1, <2>2, <3>1
    <3> QED BY <1>1, <2>1, <2>4, <3>2, BlockOf
  <2>5. ASSUME (x \div B) * B = n PROVE (k \div B) * B = n
    <3>1. n <= x /\ x < n + B
      BY <1>1, <2>1, <2>5, BlockBounds
    <3>2. n <= k /\ k < n + B
      BY <1>1, <2>1, <2>2, <3>1
    <3> QED BY <1>1, <2>1, <2>5, <3>2, BlockOf
  <2> QED BY <2>3, <2>4, <2>5 DEF k, x
<1> QED
  BY <1>2, <1>3

-----------------------------------------------------------------------------
(* The NetFlow collector: the first filter that fits. *)

FitsAt(list, i, src, dst, masked) == Covers(list[i].src, src, masked) /\ Covers(list[i].dst, dst, masked)

FirstAt(list, i, src, dst, masked) ==
  /\ FitsAt(list, i, src, dst, masked)
  /\ \A j \in 1..i - 1 : ~FitsAt(list, j, src, dst, masked)

(* The first filter that fits is found. *)
LEMMA FirstFitIs ==
  ASSUME NEW list, NEW len \in Nat, DOMAIN list = 1..len, NEW src, NEW dst, NEW masked,
         NEW i \in 1..len, FirstAt(list, i, src, dst, masked), NEW x, x = list[i]
  PROVE  FirstFit(list, src, dst, masked) = <<x>>
<1> DEFINE fit == {j \in DOMAIN list : FitsAt(list, j, src, dst, masked)}
           least == CHOOSE y \in fit : \A j \in fit : y <= j
<1>1. FirstFit(list, src, dst, masked) = IF fit = {} THEN <<>> ELSE <<list[least]>>
  BY DEF FirstFit, FitsAt
<1>2. i \in fit /\ fit \subseteq 1..len /\ \A j \in fit : j \notin 1..i - 1
  BY DEF FirstAt
<1> HIDE DEF fit
<1>3. \A j \in fit : i <= j
  BY <1>2
<1>4. least \in fit /\ \A j \in fit : least <= j
  BY <1>2, <1>3
<1> HIDE DEF least
<1>5. least = i
  BY <1>2, <1>3, <1>4
<1> QED
  BY <1>1, <1>2, <1>5

(* When none fits, none is found. *)
LEMMA FirstFitNone ==
  ASSUME NEW list, NEW src, NEW dst, NEW masked,
         \A i \in DOMAIN list : ~FitsAt(list, i, src, dst, masked)
  PROVE  FirstFit(list, src, dst, masked) = <<>>
BY DEF FirstFit, FitsAt

(* When one fits, one is the first. *)
LEMMA FirstFitExists ==
  ASSUME NEW list, NEW len \in Nat, NEW src, NEW dst, NEW masked,
         NEW k \in 1..len, FitsAt(list, k, src, dst, masked)
  PROVE  \E i \in 1..len : /\ FitsAt(list, i, src, dst, masked)
                           /\ \A j \in 1..i - 1 : ~FitsAt(list, j, src, dst, masked)
<1> DEFINE fit == {j \in 1..len : FitsAt(list, j, src, dst, masked)}
<1>1. fit \subseteq Nat /\ k \in fit /\ \A j \in 1..len : j \in fit <=> FitsAt(list, j, src, dst, masked)
  OBVIOUS
<1>2. fit \subseteq 1..len
  OBVIOUS
<1> HIDE DEF fit
<1>3. PICK i \in fit : \A j \in fit : i <= j
  BY <1>1, LeastNumber
<1>4. ASSUME NEW j \in 1..i - 1 PROVE ~FitsAt(list, j, src, dst, masked)
  <2>1. i \in 1..len
    BY <1>2
  <2>2. j \in 1..len /\ ~(i <= j)
    BY <2>1
  <2> QED BY <1>1, <1>3, <2>2
<1> QED
  BY <1>1, <1>2, <1>3, <1>4

-----------------------------------------------------------------------------
(* The NetFlow collector: the inductive invariant. *)

FlowRecord == [src : Address, dst : Address]

(* The class filters are those that were added, from the last on. *)
NewestFirst ==
  /\ added \in Seq(ClassFilters) /\ classFilters \in Seq(ClassFilters)
  /\ Len(classFilters) = Len(added)
  /\ \A i \in 1..Len(added) : added[i] = classFilters[Len(added) + 1 - i]

BelongsTo(r, f) == Covers(f.src, IP(r.src), FALSE) /\ Covers(f.dst, IP(r.dst), FALSE)

BelongsSomewhere(r) == \E f \in DOMAIN added : BelongsTo(r, added[f])

IsNewestClass(r, class) ==
  \E f \in DOMAIN added : /\ BelongsTo(r, added[f])
                          /\ \A j \in DOMAIN added : j > f => ~BelongsTo(r, added[j])
                          /\ class = added[f].class

ClassSaid(r, class) ==
  /\ ~BelongsSomewhere(r) => class = "unk"
  /\ BelongsSomewhere(r) => IsNewestClass(r, class)

(* Collect() finds the class of the filter that was added last. *)
LEMMA CollectIs ==
  ASSUME NewestFirst, NEW r \in FlowRecord, FarFromEdges(r.src), FarFromEdges(r.dst)
  PROVE  ClassSaid(r, Collect(r))
<1> DEFINE n == Len(added)
           Fit(i) == FitsAt(classFilters, i, KeyOf(r.src), KeyOf(r.dst), FALSE)
<1>1. /\ n \in Nat /\ DOMAIN added = 1..n /\ DOMAIN classFilters = 1..n
      /\ \A i \in 1..n : classFilters[i] \in ClassFilters /\ added[i] = classFilters[n + 1 - i]
  BY DEF NewestFirst
<1>2. ASSUME NEW i \in 1..n PROVE Fit(i) <=> BelongsTo(r, classFilters[i])
  <2> DEFINE f == classFilters[i]
  <2>1. f.src \in Network /\ f.dst \in Network /\ r.src \in Address /\ r.dst \in Address
    BY <1>1, CollectorAssumption DEF FlowRecord
  <2>2. FarFrom(f.src, r.src)
    BY <1>1 DEF FarFromEdges, FarFrom
  <2>3. FarFrom(f.dst, r.dst)
    BY <1>1 DEF FarFromEdges, FarFrom
  <2> HIDE DEF f
  <2>4. Covers(f.src, KeyOf(r.src), FALSE) <=> Covers(f.src, IP(r.src), FALSE)
    BY <2>1, <2>2, KeyCovers
  <2>5. Covers(f.dst, KeyOf(r.dst), FALSE) <=> Covers(f.dst, IP(r.dst), FALSE)
    BY <2>1, <2>3, KeyCovers
  <2> QED BY <2>4, <2>5 DEF f, FitsAt, BelongsTo
<1>3. \A i \in 1..n : n + 1 - i \in 1..n /\ added[n + 1 - i] = classFilters[i]
  <2> SUFFICES ASSUME NEW i \in 1..n PROVE n + 1 - i \in 1..n /\ added[n + 1 - i] = classFilters[i]
    OBVIOUS
  <2>1. n + 1 - i \in 1..n /\ n + 1 - (n + 1 - i) = i
    BY <1>1
  <2> QED BY <1>1, <2>1
<1>4. ASSUME \A f \in 1..n : ~BelongsTo(r, added[f]) PROVE Collect(r) = "unk"
  <2>1. \A i \in DOMAIN classFilters : ~FitsAt(classFilters, i, KeyOf(r.src), KeyOf(r.dst), FALSE)
    BY <1>1, <1>2, <1>3, <1>4
  <2>2. FirstFit(classFilters, KeyOf(r.src), KeyOf(r.dst), FALSE) = <<>>
    BY <2>1, FirstFitNone
  <2> QED BY <2>2 DEF Collect
<1>5. ASSUME NEW g \in 1..n, BelongsTo(r, added[g])
      PROVE  \E f \in 1..n : /\ BelongsTo(r, added[f])
                             /\ \A j \in 1..n : j > f => ~BelongsTo(r, added[j])
                             /\ Collect(r) = added[f].class
  <2>1. n + 1 - g \in 1..n /\ Fit(n + 1 - g)
    <3>1. n + 1 - g \in 1..n /\ added[g] = classFilters[n + 1 - g]
      BY <1>1, <1>3
    <3> QED BY <1>2, <1>5, <3>1
  <2>2. PICK i \in 1..n : Fit(i) /\ \A j \in 1..i - 1 : ~Fit(j)
    BY <1>1, <2>1, FirstFitExists
  <2> DEFINE y == classFilters[i]
  <2>3. FirstFit(classFilters, KeyOf(r.src), KeyOf(r.dst), FALSE) = <<y>>
    <3>1. DOMAIN classFilters = 1..n /\ n \in Nat /\ i \in 1..n
      BY <1>1
    <3>2. FirstAt(classFilters, i, KeyOf(r.src), KeyOf(r.dst), FALSE)
      BY <2>2 DEF FirstAt
    <3>3. y = classFilters[i]
      OBVIOUS
    <3> HIDE DEF n, y
    <3>4. PICK m : m = FALSE
      OBVIOUS
    <3>5. FirstAt(classFilters, i, KeyOf(r.src), KeyOf(r.dst), m)
      BY <3>2, <3>4
    <3>6. FirstFit(classFilters, KeyOf(r.src), KeyOf(r.dst), m) = <<y>>
      BY <3>1, <3>3, <3>5, FirstFitIs
    <3> QED BY <3>4, <3>6
  <2>4. Collect(r) = classFilters[i].class
    <3> DEFINE v == FirstFit(classFilters, KeyOf(r.src), KeyOf(r.dst), FALSE)
    <3>1. Collect(r) = IF v = <<>> THEN "unk" ELSE v[1].class
      BY DEF Collect
    <3> HIDE DEF v, y
    <3>2. v = <<y>>
      BY <2>3 DEF v, y
    <3>3. v # <<>> /\ v[1] = y
      BY <3>2
    <3> QED BY <3>1, <3>3 DEF y
  <2> DEFINE f == n + 1 - i
  <2>5. f \in 1..n /\ added[f] = classFilters[i]
    BY <1>3
  <2>6. ASSUME NEW j \in 1..n, j > f PROVE ~BelongsTo(r, added[j])
    <3> DEFINE m == n + 1 - j
    <3>1. m \in 1..n /\ m \in 1..i - 1 /\ added[j] = classFilters[m]
      BY <1>1, <2>6
    <3> HIDE DEF m
    <3> QED BY <1>2, <2>2, <3>1
  <2> HIDE DEF f
  <2>7. BelongsTo(r, added[f])
    BY <1>2, <2>2, <2>5
  <2> QED BY <2>4, <2>5, <2>6, <2>7
<1> HIDE DEF n
<1>6. ~BelongsSomewhere(r) => Collect(r) = "unk"
  BY <1>1, <1>4 DEF BelongsSomewhere
<1>7. BelongsSomewhere(r) => IsNewestClass(r, Collect(r))
  BY <1>1, <1>5 DEF BelongsSomewhere, IsNewestClass
<1> QED
  BY <1>6, <1>7 DEF ClassSaid

CountsIn(r, f) == Covers(f.src, IP(r.src), TRUE) /\ Covers(f.dst, IP(r.dst), TRUE)

(* LookupFilter() finds the counter of the filter that was read last. *)
LEMMA LookupIs ==
  ASSUME NEW S, filters \in Seq(S), NEW r, NEW f \in DOMAIN filters, CountsIn(r, filters[f]),
         \A g \in 1..f - 1 : ~CountsIn(r, filters[g])
  PROVE  LookupFilter(r) = filters[f].counter
<1>1. DOMAIN filters = 1..Len(filters) /\ Len(filters) \in Nat
  OBVIOUS
<1>2. FirstAt(filters, f, IP(r.src), IP(r.dst), TRUE)
  BY DEF FirstAt, FitsAt, CountsIn
<1> DEFINE v == FirstFit(filters, IP(r.src), IP(r.dst), TRUE)
           y == filters[f]
           n == Len(filters)
<1>n. n \in Nat /\ DOMAIN filters = 1..n /\ f \in 1..n
  BY <1>1
<1>y. y = filters[f]
  OBVIOUS
<1> HIDE DEF n, y
<1>3. v = <<y>>
  <2>1. PICK m : m = TRUE
    OBVIOUS
  <2>2. FirstAt(filters, f, IP(r.src), IP(r.dst), m)
    BY <1>2, <2>1
  <2>3. FirstFit(filters, IP(r.src), IP(r.dst), m) = <<y>>
    BY <1>n, <1>y, <2>2, FirstFitIs
  <2> QED BY <2>1, <2>3
<1>4. LookupFilter(r) = IF v = <<>> THEN [word |-> "<no>"] ELSE v[1].counter
  BY DEF LookupFilter
<1> HIDE DEF v, y
<1>5. v # <<>> /\ v[1] = y
  BY <1>3
<1> QED
  BY <1>4, <1>5 DEF y

(* What is said of a record. *)
RecordReported(r, report) ==
  /\ report.record = r
  /\ \A f \in DOMAIN filters :
       CountsIn(r, filters[f]) /\ (\A g \in 1..f - 1 : ~CountsIn(r, filters[g]))
         => report.counter = filters[f].counter
  /\ FarFromEdges(r.src) /\ FarFromEdges(r.dst) => ClassSaid(r, report.class)

FlowsSaid ==
  /\ datagram.version # 5 => reported = <<>>
  /\ datagram.version = 5 /\ Len(datagram.records) >= datagram.count =>
    /\ Len(reported) = datagram.count
    /\ \A i \in 1..datagram.count : RecordReported(datagram.records[i], reported[i])

FlowsInv ==
  /\ NewestFirst
  /\ \E S : filters \in Seq(S)
  /\ FlowsSaid

(* That is what the property says. *)
LEMMA FlowsInvReports ==
  ASSUME FlowsInv
  PROVE  FlowsReported
<1>a. FlowsSaid
  BY DEF FlowsInv
<1> SUFFICES ASSUME datagram.version = 5, Len(datagram.records) >= datagram.count,
                    NEW i \in 1..datagram.count
             PROVE  LET r == datagram.records[i]
                        Counts(f) == Covers(f.src, IP(r.src), TRUE) /\ Covers(f.dst, IP(r.dst), TRUE)
                        Belongs(f) == Covers(f.src, IP(r.src), FALSE) /\ Covers(f.dst, IP(r.dst), FALSE)
                    IN /\ reported[i].record = r
                       /\ \A f \in DOMAIN filters :
                            Counts(filters[f]) /\ (\A g \in 1..f - 1 : ~Counts(filters[g]))
                              => reported[i].counter = filters[f].counter
                       /\ FarFromEdges(r.src) /\ FarFromEdges(r.dst) =>
                            IF \E f \in DOMAIN added : Belongs(added[f])
                            THEN \E f \in DOMAIN added : /\ Belongs(added[f]) /\ NoneNewer(f, Belongs)
                                                         /\ reported[i].class = added[f].class
                            ELSE reported[i].class = "unk"
  BY <1>a DEF FlowsReported, FlowsSaid
<1> DEFINE r == datagram.records[i]
           report == reported[i]
<1>1. RecordReported(r, report)
  BY <1>a DEF FlowsSaid
<1> HIDE DEF r, report
<1>2. \A f \in DOMAIN filters :
        CountsIn(r, filters[f]) /\ (\A g \in 1..f - 1 : ~CountsIn(r, filters[g]))
          => report.counter = filters[f].counter
  BY <1>1 DEF RecordReported
<1>3. FarFromEdges(r.src) /\ FarFromEdges(r.dst) =>
        IF BelongsSomewhere(r) THEN IsNewestClass(r, report.class) ELSE report.class = "unk"
  BY <1>1 DEF RecordReported, ClassSaid
<1>4. report.record = r
  BY <1>1 DEF RecordReported
<1>5. LET Counts(f) == Covers(f.src, IP(r.src), TRUE) /\ Covers(f.dst, IP(r.dst), TRUE)
      IN \A f \in DOMAIN filters :
           Counts(filters[f]) /\ (\A g \in 1..f - 1 : ~Counts(filters[g]))
             => report.counter = filters[f].counter
  BY <1>2 DEF CountsIn
<1>6. LET Belongs(f) == Covers(f.src, IP(r.src), FALSE) /\ Covers(f.dst, IP(r.dst), FALSE)
      IN FarFromEdges(r.src) /\ FarFromEdges(r.dst) =>
           IF \E f \in DOMAIN added : Belongs(added[f])
           THEN \E f \in DOMAIN added : /\ Belongs(added[f]) /\ NoneNewer(f, Belongs)
                                        /\ report.class = added[f].class
           ELSE report.class = "unk"
  BY <1>3, Zenon DEF BelongsTo, NoneNewer, BelongsSomewhere, IsNewestClass
<1> QED
  BY <1>4, <1>5, <1>6 DEF r, report

(* A record is reported right, whatever was added before. *)
LEMMA ReportIs ==
  ASSUME NewestFirst, NEW S, filters \in Seq(S), NEW r \in FlowRecord, NEW report,
         report.record = r, report.counter = LookupFilter(r), report.class = Collect(r)
  PROVE  RecordReported(r, report)
<1>1. ASSUME NEW f \in DOMAIN filters, CountsIn(r, filters[f]),
             \A g \in 1..f - 1 : ~CountsIn(r, filters[g])
      PROVE  report.counter = filters[f].counter
  BY <1>1, LookupIs
<1>2. FarFromEdges(r.src) /\ FarFromEdges(r.dst) => ClassSaid(r, report.class)
  BY CollectIs
<1> QED
  BY <1>1, <1>2 DEF RecordReported

(* A datagram is read over the last one, and each of its records looked at.*)
LEMMA NetFlowReadInv ==
  ASSUME FlowsInv, NEW d \in Datagrams, NetFlowRead(d)
  PROVE  FlowsInv'
<1>1. /\ datagram' = d /\ UNCHANGED <<filters, classFilters, added>>
      /\ message' = [i \in 1..MaxRecords |-> IF i <= Len(d.records) THEN d.records[i] ELSE message[i]]
      /\ reported' = IF d.version # 5 THEN <<>> ELSE [i \in 1..d.count |->
           [record |-> message'[i], counter |-> LookupFilter(message'[i]), class |-> Collect(message'[i])]]
  BY DEF NetFlowRead, OnFlows
<1>2. /\ d.count \in 0..MaxRecords /\ Len(d.records) <= MaxRecords /\ MaxRecords \in Nat
      /\ d.records \in Seq(FlowRecord)
  BY CollectorAssumption DEF FlowRecord
<1>3. PICK S : filters \in Seq(S)
  BY DEF FlowsInv
<1>4. NewestFirst /\ NewestFirst'
  BY <1>1 DEF FlowsInv, NewestFirst
<1>5. /\ d.version # 5 => reported' = <<>>
      /\ d.version = 5 /\ Len(d.records) >= d.count => Len(reported') = d.count
  BY <1>1, <1>2
<1>6. ASSUME d.version = 5, Len(d.records) >= d.count, NEW i \in 1..d.count
      PROVE  RecordReported(d.records[i], reported[i])'
  <2> DEFINE r == d.records[i]
  <2> PICK report : report = [record |-> r, counter |-> LookupFilter(r), class |-> Collect(r)]
    OBVIOUS
  <2>1. i \in 1..MaxRecords /\ i <= Len(d.records) /\ i \in 1..Len(d.records)
    BY <1>2, <1>6
  <2>2. message'[i] = r /\ r \in FlowRecord
    BY <1>1, <1>2, <2>1
  <2>3. reported'[i] = report
    BY <1>1, <1>6, <2>2
  <2>4. report.record = r /\ report.counter = LookupFilter(r) /\ report.class = Collect(r)
    OBVIOUS
  <2> HIDE DEF r
  <2>5. RecordReported(r, report)
    BY <1>3, <1>4, <2>2, <2>4, ReportIs
  <2>6. RecordReported(r, report)'
    BY <1>1, <2>5 DEF RecordReported, FarFromEdges, ClassSaid, BelongsSomewhere, IsNewestClass, r
  <2> QED BY <2>3, <2>6 DEF RecordReported, r
<1>7. FlowsSaid'
  <2>1. /\ datagram'.version # 5 => reported' = <<>>
        /\ datagram'.version = 5 /\ Len(datagram'.records) >= datagram'.count
             => Len(reported') = datagram'.count
    BY <1>1, <1>5
  <2>2. datagram'.version = 5 /\ Len(datagram'.records) >= datagram'.count =>
          \A i \in 1..datagram'.count : RecordReported(datagram.records[i], reported[i])'
    <3> SUFFICES ASSUME d.version = 5, Len(d.records) >= d.count, NEW i \in 1..d.count
                 PROVE  RecordReported(datagram.records[i], reported[i])'
      BY <1>1
    <3>1. RecordReported(d.records[i], reported[i])'
      BY <1>6
    <3> QED BY <1>1, <3>1 DEF RecordReported
  <2> QED BY <2>1, <2>2 DEF FlowsSaid
<1> QED
  BY <1>1, <1>3, <1>4, <1>7 DEF FlowsInv

-----------------------------------------------------------------------------
(* The NetFlow collector: the loop of configure(). *)

(* What is left of the tokens after the first p of them. *)
Rest(tokens, p) == From(p + 1, tokens)

(* The rest is a sequence of the tokens that follow. *)
LEMMA RestIs ==
  ASSUME NEW S, NEW tokens \in Seq(S), NEW p \in 0..Len(tokens)
  PROVE  /\ Rest(tokens, p) \in Seq(S) /\ Len(Rest(tokens, p)) = Len(tokens) - p
         /\ \A j \in 1..Len(tokens) - p : Rest(tokens, p)[j] = tokens[p + j]
         /\ Rest(tokens, p) = <<>> <=> p = Len(tokens)
<1> DEFINE rest == SubSeq(tokens, p + 1, Len(tokens))
<1>1. rest \in Seq(S) /\ Len(rest) = Len(tokens) - p /\ Len(tokens) \in Nat
  OBVIOUS
<1>2. \A j \in 1..Len(tokens) - p : tokens[p + j] = rest[j]
  OBVIOUS
<1>3. Rest(tokens, p) = rest
  BY DEF Rest, From
<1> HIDE DEF rest
<1>4. rest = <<>> <=> p = Len(tokens)
  BY <1>1
<1> QED
  BY <1>1, <1>2, <1>3, <1>4

(* The rest of the rest. *)
LEMMA RestOfRest ==
  ASSUME NEW S, NEW tokens \in Seq(S), NEW p \in 0..Len(tokens), NEW c \in 0..Len(tokens) - p
  PROVE  Rest(Rest(tokens, p), c) = Rest(tokens, p + c)
<1> DEFINE rest == Rest(tokens, p)
           a == Rest(rest, c)
           b == Rest(tokens, p + c)
<1>1. /\ rest \in Seq(S) /\ Len(rest) = Len(tokens) - p
      /\ \A j \in 1..Len(tokens) - p : rest[j] = tokens[p + j]
  BY RestIs
<1>2. Len(tokens) \in Nat /\ c \in 0..Len(rest) /\ p + c \in 0..Len(tokens)
  BY <1>1
<1> HIDE DEF rest
<1>3. /\ a \in Seq(S) /\ Len(a) = Len(rest) - c
      /\ \A j \in 1..Len(rest) - c : a[j] = rest[c + j]
  BY <1>1, <1>2, RestIs
<1>5. /\ b \in Seq(S) /\ Len(b) = Len(tokens) - (p + c)
      /\ \A j \in 1..Len(tokens) - (p + c) : b[j] = tokens[p + c + j]
  BY <1>2, RestIs
<1> HIDE DEF a, b
<1>6. ASSUME NEW j \in 1..Len(a) PROVE a[j] = b[j]
  <2>1. c + j \in 1..Len(tokens) - p /\ j \in 1..Len(rest) - c /\ j \in 1..Len(tokens) - (p + c)
    BY <1>1, <1>2, <1>3
  <2>2. a[j] = tokens[p + (c + j)] /\ b[j] = tokens[p + c + j]
    BY <1>1, <1>3, <1>5, <2>1
  <2>3. p + (c + j) = p + c + j
    BY <1>2
  <2> QED BY <2>2, <2>3
<1>7. Len(a) = Len(b)
  <2>1. p \in Int /\ c \in Int /\ Len(tokens) \in Int
    BY <1>2
  <2> QED BY <1>1, <1>3, <1>5, <2>1
<1>8. a = [j \in 1..Len(a) |-> a[j]] /\ b = [j \in 1..Len(b) |-> b[j]]
  BY <1>3, <1>5
<1>9. a = b
  BY <1>6, <1>7, <1>8
<1> QED
  BY <1>9 DEF a, b, rest

(* A token of the rest is a network if it is one among the tokens. *)
LEMMA NetOfRest ==
  ASSUME NEW S, NEW tokens \in Seq(S), NEW p \in 0..Len(tokens), NEW j \in 1..4
  PROVE  IsNet(Rest(tokens, p), j) <=> IsNet(tokens, p + j)
<1> DEFINE rest == Rest(tokens, p)
<1>1. /\ Len(rest) = Len(tokens) - p /\ Len(tokens) \in Nat
      /\ \A i \in 1..Len(tokens) - p : rest[i] = tokens[p + i]
  BY RestIs
<1> HIDE DEF rest
<1>2. j <= Len(rest) <=> p + j <= Len(tokens)
  BY <1>1
<1>3. CASE j <= Len(rest)
  <2>1. j \in 1..Len(tokens) - p
    BY <1>1, <1>3
  <2>2. rest[j] = tokens[p + j]
    BY <1>1, <2>1
  <2> QED BY <1>2, <2>2 DEF IsNet, rest
<1>4. CASE ~(j <= Len(rest))
  BY <1>2, <1>4 DEF IsNet, rest
<1> QED
  BY <1>3, <1>4

(* The filter that four tokens make. *)
Window(tokens, p) ==
  [counter |-> tokens[p + 1], src |-> tokens[p + 3], dst |-> tokens[p + 4]]

IsWindow(tokens, p) == IsNet(tokens, p + 3) /\ IsNet(tokens, p + 4)

(* A turn that finds two networks: a filter is added. *)
LEMMA TurnReads ==
  ASSUME NEW S, NEW tokens \in Seq(S), NEW p \in 0..Len(tokens), p # Len(tokens), NEW list, NEW t,
         t = [rest |-> Rest(tokens, p), list |-> list], IsWindow(tokens, p)
  PROVE  /\ p + 4 <= Len(tokens)
         /\ ReadLine(t) = [rest |-> Rest(tokens, p + 4), list |-> <<Window(tokens, p)>> \o list]
<1> DEFINE rest == Rest(tokens, p)
<1>1. t.rest = rest /\ t.list = list
  OBVIOUS
<1>2. /\ Len(rest) = Len(tokens) - p /\ Len(tokens) \in Nat
      /\ \A i \in 1..Len(tokens) - p : rest[i] = tokens[p + i]
      /\ rest = <<>> <=> p = Len(tokens)
  <2>1. /\ Len(rest) = Len(tokens) - p /\ Len(tokens) \in Nat
        /\ rest = <<>> <=> p = Len(tokens)
    BY RestIs
  <2>2. \A i \in 1..Len(tokens) - p : Rest(tokens, p)[i] = tokens[p + i]
    BY RestIs, Zenon
  <2> QED BY <2>1, <2>2
<1>3. IsNet(rest, 3) /\ IsNet(rest, 4)
  <2>1. 3 \in 1..4 /\ 4 \in 1..4
    OBVIOUS
  <2> QED BY <2>1, NetOfRest DEF IsWindow
<1>4. p + 4 <= Len(tokens)
  BY DEF IsWindow, IsNet
<1>6. Rest(rest, 4) = Rest(tokens, p + 4)
  <2>1. 4 \in 0..Len(tokens) - p
    BY <1>2, <1>4
  <2> QED BY <2>1, RestOfRest
<1> HIDE DEF rest
<1>5. rest[1] = tokens[p + 1] /\ rest[3] = tokens[p + 3] /\ rest[4] = tokens[p + 4]
  <2>1. 1 \in 1..Len(tokens) - p /\ 3 \in 1..Len(tokens) - p /\ 4 \in 1..Len(tokens) - p
    BY <1>2, <1>4
  <2> QED BY <1>2, <2>1
<1>7. FilterOf(rest) = <<Window(tokens, p)>>
  BY <1>5 DEF FilterOf, Window
<1>8. rest # <<>>
  BY <1>2
<1>9. ReadLine(t) = [rest |-> From(5, rest), list |-> FilterOf(rest) \o list]
  BY <1>1, <1>3, <1>8, Zenon DEF ReadLine
<1>10. 4 + 1 = 5
  OBVIOUS
<1>11. From(5, rest) = Rest(tokens, p + 4)
  BY <1>6, <1>10 DEF Rest
<1> QED
  BY <1>4, <1>7, <1>9, <1>11

(* A turn that does not: two words, or three tokens, are left behind. *)
Skips(tokens, p, q) ==
  /\ IsNet(tokens, p + 3) => q = p + 3
  /\ ~IsNet(tokens, p + 3) /\ p + 2 <= Len(tokens) => q = p + 2
  /\ ~IsNet(tokens, p + 3) /\ p + 2 > Len(tokens) => q = Len(tokens)

(* So it goes on behind them. *)
LEMMA TurnSkips ==
  ASSUME NEW S, NEW tokens \in Seq(S), NEW p \in 0..Len(tokens), p # Len(tokens), NEW list, NEW t,
         t = [rest |-> Rest(tokens, p), list |-> list], ~IsWindow(tokens, p)
  PROVE  \E q \in 0..Len(tokens) :
           ReadLine(t) = [rest |-> Rest(tokens, q), list |-> list] /\ Skips(tokens, p, q)
<1> DEFINE rest == Rest(tokens, p)
<1>1. t.rest = rest /\ t.list = list
  OBVIOUS
<1>2. /\ Len(rest) = Len(tokens) - p /\ rest \in Seq(S) /\ Len(tokens) \in Nat
      /\ rest = <<>> <=> p = Len(tokens)
  BY RestIs
<1>3. ~(IsNet(rest, 3) /\ IsNet(rest, 4)) /\ (IsNet(rest, 3) <=> IsNet(tokens, p + 3))
  <2>1. 3 \in 1..4 /\ 4 \in 1..4
    OBVIOUS
  <2> QED BY <2>1, NetOfRest DEF IsWindow
<1>4. \A c \in 0..Len(tokens) - p : Rest(rest, c) = Rest(tokens, p + c)
  BY RestOfRest
<1> HIDE DEF rest
<1>5. rest # <<>>
  BY <1>2
<1>6. CASE IsNet(rest, 3)
  <2>1. ReadLine(t) = [t EXCEPT !.rest = From(4, rest)]
    BY <1>1, <1>3, <1>5, <1>6, Zenon DEF ReadLine
  <2>2. ReadLine(t) = [rest |-> From(4, rest), list |-> list]
    BY <2>1
  <2>3. p + 3 <= Len(tokens)
    BY <1>3, <1>6 DEF IsNet
  <2>4. 3 \in 0..Len(tokens) - p /\ p + 3 \in 0..Len(tokens)
    BY <1>2, <2>3
  <2>5. Rest(rest, 3) = Rest(tokens, p + 3)
    BY <1>4, <2>4
  <2>6. From(4, rest) = Rest(rest, 3)
    BY DEF Rest
  <2>7. ReadLine(t) = [rest |-> Rest(tokens, p + 3), list |-> list]
    BY <2>2, <2>5, <2>6
  <2> QED BY <1>3, <1>6, <2>4, <2>7 DEF Skips
<1>7. CASE ~IsNet(rest, 3)
  <2>1. ReadLine(t) = [t EXCEPT !.rest = From(3, rest)]
    BY <1>1, <1>3, <1>5, <1>7, Zenon DEF ReadLine
  <2>2. ReadLine(t) = [rest |-> From(3, rest), list |-> list]
    BY <2>1
  <2>3. CASE p + 2 <= Len(tokens)
    <3>1. 2 \in 0..Len(tokens) - p /\ p + 2 \in 0..Len(tokens)
      BY <1>2, <2>3
    <3>2. Rest(rest, 2) = Rest(tokens, p + 2)
      BY <1>4, <3>1
    <3>3. From(3, rest) = Rest(rest, 2)
      BY DEF Rest
    <3>4. ReadLine(t) = [rest |-> Rest(tokens, p + 2), list |-> list]
      BY <2>2, <3>2, <3>3
    <3>5. ~(p + 2 > Len(tokens))
      BY <1>2, <2>3
    <3> QED BY <1>3, <1>7, <2>3, <3>1, <3>4, <3>5 DEF Skips
  <2>4. CASE ~(p + 2 <= Len(tokens))
    <3>1. Len(rest) = 1
      BY <1>2, <2>4
    <3>2. SubSeq(rest, 3, 1) = <<>>
      BY <1>2
    <3>3. From(3, rest) = <<>>
      BY <3>1, <3>2 DEF From
    <3>4. Len(tokens) \in 0..Len(tokens)
      BY <1>2
    <3>5. Rest(tokens, Len(tokens)) = <<>>
      BY <3>4, RestIs
    <3>6. ReadLine(t) = [rest |-> Rest(tokens, Len(tokens)), list |-> list]
      BY <2>2, <3>3, <3>5
    <3> QED BY <1>3, <1>7, <2>4, <3>4, <3>6 DEF Skips
  <2> QED BY <2>3, <2>4
<1> QED
  BY <1>6, <1>7

-----------------------------------------------------------------------------

(* No two lines are wrong. *)
OneWrong(lines) == \A i, j \in WrongLines(lines) : i = j

(* The lines, up to the l-th, whose filters must be there. *)
KeptTo(lines, l) ==
  {x \in DOMAIN lines : x <= l /\ RightLine(lines[x]) /\ x - 1 \notin WrongLines(lines)}

(* What must hold of the filters when l lines are read. *)
GoodTo(lines, l, list) ==
  /\ \E R : list \in Seq(R)
  /\ \A i \in 1..Len(list) : \E x \in DOMAIN lines : list[i] \in Says(lines[x])
  /\ \E place \in [KeptTo(lines, l) -> 1..Len(list)] :
       /\ \A x \in KeptTo(lines, l) : list[place[x]] \in Says(lines[x])
       /\ \A x, y \in KeptTo(lines, l) : x < y => place[y] < place[x]

(* A filter goes before the others. *)
LEMMA Before ==
  ASSUME NEW R, NEW list \in Seq(R), NEW w
  PROVE  /\ <<w>> \o list \in Seq(R \union {w})
         /\ Len(<<w>> \o list) = Len(list) + 1
         /\ (<<w>> \o list)[1] = w
         /\ \A i \in 1..Len(list) : (<<w>> \o list)[i + 1] = list[i]
<1> DEFINE one == <<w>>
           Q == R \union {w}
<1>1. one \in Seq(Q) /\ Len(one) = 1 /\ one[1] = w
  OBVIOUS
<1>2. list \in Seq(Q)
  OBVIOUS
<1> HIDE DEF one, Q
<1>m. one \in Seq(Q) /\ list \in Seq(Q)
  BY <1>1, <1>2
<1>3. one \o list \in Seq(Q) /\ Len(one \o list) = Len(one) + Len(list)
  BY <1>m
<1>4. /\ \A i \in 1..Len(one) : (one \o list)[i] = one[i]
      /\ \A i \in 1..Len(list) : (one \o list)[Len(one) + i] = list[i]
  BY <1>m, ConcatElements
<1>5. Len(list) \in Nat
  OBVIOUS
<1>6. \A i \in 1..Len(list) : i + 1 = Len(one) + i
  BY <1>1, <1>5
<1>7. 1 \in 1..Len(one)
  BY <1>1
<1>8. /\ one \o list \in Seq(Q) /\ Len(one \o list) = Len(list) + 1 /\ (one \o list)[1] = w
      /\ \A i \in 1..Len(list) : (one \o list)[i + 1] = list[i]
  BY <1>1, <1>3, <1>4, <1>5, <1>6, <1>7
<1> QED
  BY <1>8 DEF one, Q

(* Before a line is read nothing is due. *)
LEMMA GoodNone ==
  ASSUME NEW S, NEW lines \in Seq(Seq(S))
  PROVE  GoodTo(lines, 0, <<>>)
<1>1. KeptTo(lines, 0) = {}
  <2>1. \A x \in 1..Len(lines) : ~(x <= 0)
    OBVIOUS
  <2> QED BY <2>1 DEF KeptTo
<1> DEFINE none == [x \in {} |-> 0]
<1>2. none \in [{} -> 1..0]
  OBVIOUS
<1> HIDE DEF none
<1> PICK z : z = <<>>
  OBVIOUS
<1>3. z \in Seq({}) /\ Len(z) = 0
  OBVIOUS
<1>a. 1..Len(z) = 1..0
  BY <1>3
<1>b. none \in [KeptTo(lines, 0) -> 1..Len(z)]
  BY <1>1, <1>2, <1>a, Zenon
<1>c. /\ \A x \in KeptTo(lines, 0) : z[none[x]] \in Says(lines[x])
      /\ \A x, y \in KeptTo(lines, 0) : x < y => none[y] < none[x]
  BY <1>1, Zenon
<1>d. \A i \in 1..Len(z) : \E x \in DOMAIN lines : z[i] \in Says(lines[x])
  BY <1>3
<1>4. GoodTo(lines, 0, z)
  BY <1>3, <1>b, <1>c, <1>d, Zenon DEF GoodTo
<1> QED BY <1>4

(* A filter that a wrong line says does no harm. *)
LEMMA GoodWith ==
  ASSUME NEW lines, NEW l, NEW list, GoodTo(lines, l, list),
         NEW x \in DOMAIN lines, NEW w \in Says(lines[x])
  PROVE  GoodTo(lines, l, <<w>> \o list)
<1> DEFINE K == KeptTo(lines, l)
           new == <<w>> \o list
<1>1. PICK R : list \in Seq(R)
  BY DEF GoodTo
<1>2. PICK place \in [K -> 1..Len(list)] :
        /\ \A y \in K : list[place[y]] \in Says(lines[y])
        /\ \A y, z \in K : y < z => place[z] < place[y]
  BY DEF GoodTo
<1>3. /\ new \in Seq(R \union {w}) /\ Len(new) = Len(list) + 1 /\ new[1] = w
      /\ \A i \in 1..Len(list) : new[i + 1] = list[i]
  BY <1>1, Before
<1>4. Len(list) \in Nat
  BY <1>1
<1> DEFINE to == [y \in K |-> place[y] + 1]
<1> HIDE DEF new, K
<1>5. \A y \in K : to[y] = place[y] + 1 /\ place[y] \in 1..Len(list)
  BY <1>2
<1>6. to \in [K -> 1..Len(new)]
  <2>1. \A y \in K : place[y] + 1 \in 1..Len(new)
    BY <1>3, <1>4, <1>5
  <2> QED BY <2>1
<1> HIDE DEF to
<1>7. \A y \in K : new[to[y]] \in Says(lines[y])
  BY <1>2, <1>3, <1>5
<1>8. \A y, z \in K : y < z => to[z] < to[y]
  <2> SUFFICES ASSUME NEW y \in K, NEW z \in K, y < z PROVE to[z] < to[y]
    OBVIOUS
  <2>1. place[z] < place[y] /\ place[z] \in Int /\ place[y] \in Int
    BY <1>2, <1>5
  <2> QED BY <1>5, <2>1
<1>9. ASSUME NEW i \in 1..Len(new) PROVE \E y \in DOMAIN lines : new[i] \in Says(lines[y])
  <2>1. CASE i = 1
    BY <1>3, <2>1
  <2>2. CASE i # 1
    <3>1. i - 1 \in 1..Len(list) /\ (i - 1) + 1 = i
      BY <1>3, <1>4, <2>2
    <3>2. new[i] = list[i - 1]
      BY <1>3, <3>1
    <3> QED BY <3>1, <3>2 DEF GoodTo
  <2> QED BY <2>1, <2>2
<1>10. GoodTo(lines, l, new)
  BY <1>3, <1>6, <1>7, <1>8, <1>9 DEF GoodTo, K
<1> QED
  BY <1>10 DEF new

(* A line that need not have its filter is read. *)
LEMMA GoodPast ==
  ASSUME NEW lines, NEW k \in Nat, DOMAIN lines = 1..k, NEW l \in 0..k - 1, NEW list,
         GoodTo(lines, l, list), l + 1 \notin KeptTo(lines, l + 1)
  PROVE  GoodTo(lines, l + 1, list)
<1>1. KeptTo(lines, l) = KeptTo(lines, l + 1)
  <2>1. \A x \in 1..k : x <= l + 1 <=> (x <= l \/ x = l + 1)
    OBVIOUS
  <2> QED BY <2>1 DEF KeptTo
<1> QED
  BY <1>1 DEF GoodTo

(* A right line is read, and has its filter. *)
LEMMA GoodAdds ==
  ASSUME NEW lines, NEW k \in Nat, DOMAIN lines = 1..k, NEW l \in 0..k - 1, NEW list,
         GoodTo(lines, l, list), NEW w \in Says(lines[l + 1])
  PROVE  GoodTo(lines, l + 1, <<w>> \o list)
<1> DEFINE K == KeptTo(lines, l)
           L == KeptTo(lines, l + 1)
           new == <<w>> \o list
<1>1. PICK R : list \in Seq(R)
  BY DEF GoodTo
<1>2. PICK place \in [K -> 1..Len(list)] :
        /\ \A y \in K : list[place[y]] \in Says(lines[y])
        /\ \A y, z \in K : y < z => place[z] < place[y]
  BY DEF GoodTo
<1>3. /\ new \in Seq(R \union {w}) /\ Len(new) = Len(list) + 1 /\ new[1] = w
      /\ \A i \in 1..Len(list) : new[i + 1] = list[i]
  BY <1>1, Before
<1>4. Len(list) \in Nat
  BY <1>1
<1>5. l + 1 \in DOMAIN lines
  OBVIOUS
<1>6. /\ \A y \in L : y \in K \/ y = l + 1
      /\ \A y \in K : y \in 1..l
      /\ \A y \in L : y \in 1..k
  <2>1. \A x \in 1..k : x <= l + 1 <=> (x <= l \/ x = l + 1)
    OBVIOUS
  <2>2. \A x \in 1..k : x <= l => x \in 1..l
    OBVIOUS
  <2> QED BY <2>1, <2>2 DEF KeptTo
<1> DEFINE to == [y \in L |-> IF y = l + 1 THEN 1 ELSE place[y] + 1]
<1> HIDE DEF new, K, L
<1>7. \A y \in K : place[y] \in 1..Len(list)
  BY <1>2
<1>8. \A y \in L : (y = l + 1 => to[y] = 1) /\ (y # l + 1 => y \in K /\ to[y] = place[y] + 1)
  BY <1>6
<1>9. to \in [L -> 1..Len(new)]
  <2>1. \A y \in K : place[y] + 1 \in 1..Len(new)
    BY <1>3, <1>4, <1>7
  <2>2. 1 \in 1..Len(new)
    BY <1>3, <1>4
  <2>3. \A y \in L : (IF y = l + 1 THEN 1 ELSE place[y] + 1) \in 1..Len(new)
    BY <1>6, <2>1, <2>2
  <2> QED BY <2>3
<1> HIDE DEF to
<1>10. \A y \in L : new[to[y]] \in Says(lines[y])
  BY <1>2, <1>3, <1>7, <1>8
<1>11. \A y, z \in L : y < z => to[z] < to[y]
  <2> SUFFICES ASSUME NEW y \in L, NEW z \in L, y < z PROVE to[z] < to[y]
    OBVIOUS
  <2>1. y \in Int /\ z \in Int /\ z <= l + 1
    BY <1>6
  <2>2. y # l + 1
    BY <2>1
  <2>3. y \in K /\ to[y] = place[y] + 1 /\ place[y] \in 1..Len(list)
    BY <1>7, <1>8, <2>2
  <2>4. CASE z = l + 1
    BY <1>8, <2>3, <2>4
  <2>5. CASE z # l + 1
    <3>1. z \in K /\ to[z] = place[z] + 1 /\ place[z] \in 1..Len(list)
      BY <1>7, <1>8, <2>5
    <3>2. place[z] < place[y]
      BY <1>2, <2>3, <3>1
    <3> QED BY <2>3, <3>1, <3>2
  <2> QED BY <2>4, <2>5
<1>12. ASSUME NEW i \in 1..Len(new) PROVE \E y \in DOMAIN lines : new[i] \in Says(lines[y])
  <2>1. CASE i = 1
    BY <1>3, <1>5, <2>1
  <2>2. CASE i # 1
    <3>1. i - 1 \in 1..Len(list) /\ (i - 1) + 1 = i
      BY <1>3, <1>4, <2>2
    <3>2. new[i] = list[i - 1]
      BY <1>3, <3>1
    <3> QED BY <3>1, <3>2 DEF GoodTo
  <2> QED BY <2>1, <2>2
<1>13. GoodTo(lines, l + 1, new)
  BY <1>3, <1>9, <1>10, <1>11, <1>12 DEF GoodTo, L
<1> QED
  BY <1>13 DEF new

(* The places of a line. *)
LEMMA PlaceOf ==
  ASSUME NEW S, NEW lines \in Seq(Seq(S)), NEW tokens \in Seq(S), NEW e, LineEnds(lines, tokens, e),
         NEW l \in 0..Len(lines) - 1
  PROVE  /\ e[l] \in Nat /\ e[l + 1] \in Nat /\ e[l] <= e[l + 1] /\ e[l + 1] <= Len(tokens)
         /\ Len(tokens) \in Nat
<1>1. l + 1 \in 1..Len(lines) /\ l \in 0..Len(lines) /\ l + 1 \in 0..Len(lines) /\ (l + 1) - 1 = l
  OBVIOUS
<1>2. e[l + 1] = e[l] + Len(lines[l + 1]) /\ e[l + 1] <= e[Len(lines)] /\ Len(tokens) = e[Len(lines)]
  BY <1>1 DEF LineEnds
<1>3. e[l] \in Nat /\ e[l + 1] \in Nat
  BY <1>1 DEF LineEnds
<1>4. lines[l + 1] \in Seq(S)
  BY <1>1
<1>5. Len(lines[l + 1]) \in Nat /\ Len(tokens) \in Nat
  BY <1>4
<1> DEFINE a == e[l]
           b == e[l + 1]
           m == Len(lines[l + 1])
           n == Len(tokens)
<1>6. a \in Nat /\ b \in Nat /\ m \in Nat /\ n \in Nat /\ b = a + m /\ b <= n
  BY <1>2, <1>3, <1>5
<1> HIDE DEF a, b, m, n
<1>7. a <= b
  BY <1>6
<1> QED
  BY <1>6, <1>7 DEF a, b, n

(* A line that is not right is a wrong one. *)
LEMMA WrongIs ==
  ASSUME NEW S, NEW lines \in Seq(Seq(S)), NEW i \in 1..Len(lines), ~RightLine(lines[i])
  PROVE  i \in WrongLines(lines)
<1>1. i \in DOMAIN lines
  OBVIOUS
<1> QED
  BY <1>1, Zenon DEF WrongLines

(* The tokens of a line, and what four of them say. *)
LEMMA WindowSays ==
  ASSUME NEW S, NEW lines \in Seq(Seq(S)), NEW tokens \in Seq(S), NEW e, LineEnds(lines, tokens, e),
         NEW l \in 0..Len(lines) - 1, NEW p \in Nat, e[l] <= p, p + 4 <= e[l + 1],
         IsWindow(tokens, p)
  PROVE  Window(tokens, p) \in Says(lines[l + 1])
<1> DEFINE line == lines[l + 1]
           i == p - e[l] + 1
<1>1. l + 1 \in 1..Len(lines) /\ l \in 0..Len(lines) /\ (l + 1) - 1 = l
  OBVIOUS
<1>2. /\ e[l] \in Nat /\ e[l + 1] = e[l] + Len(line) /\ line \in Seq(S)
      /\ \A j \in 1..Len(line) : tokens[e[l] + j] = line[j]
  <2>1. line \in Seq(S)
    BY <1>1
  <2> HIDE DEF line
  <2>2. /\ e[(l + 1) - 1] \in Nat /\ e[l + 1] = e[(l + 1) - 1] + Len(line)
        /\ \A j \in 1..Len(line) : tokens[e[(l + 1) - 1] + j] = line[j]
    <3>1. e[l] \in Nat
      BY PlaceOf
    <3> QED BY <1>1, <3>1 DEF LineEnds, line
  <2> QED BY <1>1, <2>1, <2>2
<1>3. Len(line) \in Nat
  BY <1>2
<1> HIDE DEF line
<1>4. /\ i \in 1..Len(line) - 3 /\ i \in 1..Len(line) /\ i + 2 \in 1..Len(line) /\ i + 3 \in 1..Len(line)
      /\ e[l] + i = p + 1 /\ e[l] + (i + 2) = p + 3 /\ e[l] + (i + 3) = p + 4
  <2> DEFINE a == e[l]
             b == e[l + 1]
             m == Len(line)
  <2>1. a \in Nat /\ b = a + m /\ m \in Nat /\ a <= p /\ p + 4 <= b
    BY <1>2, <1>3
  <2> HIDE DEF a, b, m
  <2>2. /\ p - a + 1 \in 1..m - 3 /\ p - a + 1 \in 1..m /\ p - a + 1 + 2 \in 1..m
        /\ p - a + 1 + 3 \in 1..m
    BY <2>1
  <2>3. /\ a + (p - a + 1) = p + 1 /\ a + (p - a + 1 + 2) = p + 3
        /\ a + (p - a + 1 + 3) = p + 4
    BY <2>1
  <2> QED BY <2>2, <2>3 DEF a, m
<1> HIDE DEF i
<1>5. line[i] = tokens[p + 1] /\ line[i + 2] = tokens[p + 3] /\ line[i + 3] = tokens[p + 4]
  <2>1. \A j \in 1..Len(line) : line[j] = tokens[e[l] + j]
    BY <1>2
  <2> QED BY <1>4, <2>1
<1>6. IsNet(line, i + 2) /\ IsNet(line, i + 3)
  <2>1. i + 2 <= Len(line) /\ i + 3 <= Len(line)
    BY <1>4
  <2> QED BY <1>5, <2>1 DEF IsWindow, IsNet
<1>7. Window(tokens, p) = [counter |-> line[i], src |-> line[i + 2], dst |-> line[i + 3]]
  BY <1>5 DEF Window
<1> QED
  BY <1>4, <1>6, <1>7 DEF Says, line

(* A right line is two words and two networks. *)
LEMMA RightLineAt ==
  ASSUME NEW S, NEW lines \in Seq(Seq(S)), NEW tokens \in Seq(S), NEW e, LineEnds(lines, tokens, e),
         NEW l \in 0..Len(lines) - 1, RightLine(lines[l + 1])
  PROVE  /\ e[l + 1] = e[l] + 4
         /\ ~IsNet(tokens, e[l] + 1) /\ ~IsNet(tokens, e[l] + 2)
         /\ IsNet(tokens, e[l] + 3) /\ IsNet(tokens, e[l] + 4)
<1> DEFINE line == lines[l + 1]
<1>1. l + 1 \in 1..Len(lines) /\ l \in 0..Len(lines) /\ (l + 1) - 1 = l /\ Len(lines) \in 0..Len(lines)
  OBVIOUS
<1>2. /\ e[l] \in Nat /\ e[l + 1] = e[l] + Len(line) /\ e[l + 1] <= Len(tokens)
      /\ \A j \in 1..Len(line) : tokens[e[l] + j] = line[j]
  BY <1>1 DEF LineEnds
<1>3. /\ Len(line) = 4 /\ ~IsNet(line, 1) /\ ~IsNet(line, 2)
      /\ \E i \in 1..Len(line) - 3 : IsNet(line, i + 2) /\ IsNet(line, i + 3)
  BY DEF RightLine, Says
<1> HIDE DEF line
<1>4. IsNet(line, 3) /\ IsNet(line, 4)
  <2>1. \A i \in 1..Len(line) - 3 : i + 2 = 3 /\ i + 3 = 4
    BY <1>3
  <2> QED BY <1>3, <2>1
<1>5. ASSUME NEW j \in 1..4 PROVE IsNet(tokens, e[l] + j) <=> IsNet(line, j)
  <2>0. j \in 1..Len(line)
    BY <1>3
  <2>1. j <= Len(line) /\ tokens[e[l] + j] = line[j]
    <3>1. j <= 4 /\ Len(line) = 4
      BY <1>3
    <3>2. \A y \in 1..Len(line) : tokens[e[l] + y] = line[y]
      BY <1>2
    <3>3. tokens[e[l] + j] = line[j]
      BY <2>0, <3>2
    <3> QED BY <3>1, <3>3
  <2>2. e[l] + j <= Len(tokens)
    <3>1. Len(tokens) \in Nat /\ e[l + 1] = e[l] + 4
      BY <1>2, <1>3
    <3> QED BY <1>2, <3>1
  <2> QED BY <2>1, <2>2 DEF IsNet
<1>6. 1 \in 1..4 /\ 2 \in 1..4 /\ 3 \in 1..4 /\ 4 \in 1..4
  OBVIOUS
<1> QED
  BY <1>2, <1>3, <1>4, <1>5, <1>6

(* Where a right line begins, or the file ends, there are no two networks. *)
LEMMA NoNetNext ==
  ASSUME NEW S, NEW lines \in Seq(Seq(S)), NEW tokens \in Seq(S), NEW e, LineEnds(lines, tokens, e),
         NEW l \in 0..Len(lines), l # Len(lines) => RightLine(lines[l + 1])
  PROVE  ~IsNet(tokens, e[l] + 1) /\ ~IsNet(tokens, e[l] + 2)
<1>1. CASE l # Len(lines)
  <2>1. l \in 0..Len(lines) - 1
    BY <1>1
  <2> QED BY <1>1, <2>1, RightLineAt
<1>2. CASE l = Len(lines)
  <2>1. e[l] = Len(tokens) /\ e[l] \in Nat
    BY <1>2 DEF LineEnds
  <2>2. ~(e[l] + 1 <= Len(tokens)) /\ ~(e[l] + 2 <= Len(tokens))
    BY <2>1
  <2> QED BY <2>2 DEF IsNet
<1> QED
  BY <1>1, <1>2

(* Where the loop may be: between two lines, in a wrong line, or a token   *)
(* after it; with the filters that it should have by then.                 *)
InWrong(lines, e, p, l) ==
  l < Len(lines) /\ ~RightLine(lines[l + 1]) /\ e[l] <= p /\ p < e[l + 1]

Behind(lines, e, p, l) ==
  /\ 0 < l /\ l < Len(lines) /\ ~RightLine(lines[l]) /\ RightLine(lines[l + 1])
  /\ p = e[l] + 1

HasRead(lines, e, p, list) ==
  \E l \in 0..Len(lines) :
    /\ GoodTo(lines, l, list)
    /\ p = e[l] \/ InWrong(lines, e, p, l) \/ Behind(lines, e, p, l)

(* What a turn does: it goes on, and has read what it should. *)
Turned(lines, tokens, e, p, t) ==
  \E q \in 0..Len(tokens) : \E list :
    p < q /\ t = [rest |-> Rest(tokens, q), list |-> list] /\ HasRead(lines, e, q, list)

(* A turn at the start of a right line. *)
LEMMA TurnRight ==
  ASSUME NEW S, NEW lines \in Seq(Seq(S)), NEW tokens \in Seq(S), NEW e, LineEnds(lines, tokens, e),
         NEW l \in 0..Len(lines) - 1, RightLine(lines[l + 1]), NEW list, GoodTo(lines, l, list),
         NEW p, p = e[l], NEW t, t = [rest |-> Rest(tokens, p), list |-> list]
  PROVE  Turned(lines, tokens, e, p, ReadLine(t))
<1>1. l + 1 \in 1..Len(lines) /\ l \in 0..Len(lines) /\ l + 1 \in 0..Len(lines) /\ Len(lines) \in Nat
  OBVIOUS
<1>2. e[l] \in Nat /\ e[l + 1] \in Nat /\ e[l + 1] <= Len(tokens)
  BY <1>1 DEF LineEnds
<1>3. e[l + 1] = p + 4 /\ IsWindow(tokens, p)
  BY RightLineAt DEF IsWindow
<1>4. p \in 0..Len(tokens) /\ p # Len(tokens) /\ p + 4 \in 0..Len(tokens) /\ p < p + 4 /\ p \in Nat
  BY <1>2, <1>3
<1> DEFINE new == <<Window(tokens, p)>> \o list
<1>5. ReadLine(t) = [rest |-> Rest(tokens, p + 4), list |-> new]
  BY <1>3, <1>4, TurnReads
<1>6. Window(tokens, p) \in Says(lines[l + 1])
  <2>1. e[l] <= p /\ p + 4 <= e[l + 1]
    BY <1>2, <1>3
  <2> QED BY <1>3, <1>4, <2>1, WindowSays
<1>7. GoodTo(lines, l + 1, new)
  <2>1. DOMAIN lines = 1..Len(lines)
    OBVIOUS
  <2> QED BY <1>1, <1>6, <2>1, GoodAdds
<1> HIDE DEF new
<1>8. HasRead(lines, e, p + 4, new)
  BY <1>1, <1>3, <1>7 DEF HasRead
<1> QED
  BY <1>4, <1>5, <1>8 DEF Turned

(* A turn in a wrong line, when the next is right. *)
LEMMA TurnWrong ==
  ASSUME NEW S, NEW lines \in Seq(Seq(S)), NEW tokens \in Seq(S), NEW e, LineEnds(lines, tokens, e),
         OneWrong(lines), NEW l \in 0..Len(lines) - 1, NEW list, GoodTo(lines, l, list),
         NEW p \in Nat, InWrong(lines, e, p, l), NEW t, t = [rest |-> Rest(tokens, p), list |-> list]
  PROVE  Turned(lines, tokens, e, p, ReadLine(t))
<1> DEFINE a == e[l]
           b == e[l + 1]
           n == Len(tokens)
<1>1. l + 1 \in 1..Len(lines) /\ l \in 0..Len(lines) /\ l + 1 \in 0..Len(lines) /\ Len(lines) \in Nat
  OBVIOUS
<1>2. a \in Nat /\ b \in Nat /\ b <= n /\ n \in Nat /\ a <= p /\ p < b
  BY PlaceOf DEF InWrong
<1>3. ~RightLine(lines[l + 1]) /\ DOMAIN lines = 1..Len(lines)
  BY DEF InWrong
<1>4. l + 1 # Len(lines) => RightLine(lines[l + 2])
  <2> SUFFICES ASSUME l + 1 # Len(lines), ~RightLine(lines[l + 2]) PROVE FALSE
    OBVIOUS
  <2>1. l + 1 \in WrongLines(lines)
    <3>1. ~RightLine(lines[l + 1]) /\ l + 1 \in 1..Len(lines)
      BY <1>1 DEF InWrong
    <3> QED BY <3>1, WrongIs
  <2>2. l + 2 \in 1..Len(lines) /\ l + 1 # l + 2
    BY <1>1
  <2>3. l + 2 \in WrongLines(lines)
    BY <2>2, WrongIs
  <2> QED BY <2>1, <2>2, <2>3 DEF OneWrong
<1>5. ~IsNet(tokens, b + 1) /\ ~IsNet(tokens, b + 2)
  <2>1. (l + 1) + 1 = l + 2
    OBVIOUS
  <2> QED BY <1>1, <1>4, <2>1, NoNetNext
<1>6. GoodTo(lines, l + 1, list)
  <2>1. l + 1 \notin KeptTo(lines, l + 1)
    BY <1>3 DEF KeptTo
  <2> QED BY <1>1, <1>3, <2>1, GoodPast
<1> HIDE DEF a, b, n
<1>7. p \in 0..n /\ p # n
  BY <1>2
<1>8. \* Where the line is left, or goes on.
      ASSUME NEW q \in Nat, p < q, q <= b, NEW new, GoodTo(lines, l, new)
      PROVE  q \in 0..n /\ HasRead(lines, e, q, new)
  <2>1. q \in 0..n
    BY <1>2, <1>8
  <2>2. CASE q = b
    <3>1. GoodTo(lines, l + 1, new)
      <4>1. l + 1 \notin KeptTo(lines, l + 1)
        BY <1>3 DEF KeptTo
      <4> QED BY <1>1, <1>3, <1>8, <4>1, GoodPast
    <3> QED BY <1>1, <2>1, <2>2, <3>1 DEF HasRead, b
  <2>3. CASE q # b
    <3>1. a <= q /\ q < b
      BY <1>2, <1>8, <2>3
    <3>2. InWrong(lines, e, q, l)
      BY <3>1 DEF InWrong, a, b
    <3> QED BY <1>1, <1>8, <2>1, <3>2 DEF HasRead
  <2> QED BY <2>2, <2>3
<1>9. CASE IsWindow(tokens, p)
  <2>1. p + 4 <= b
    <3> SUFFICES ASSUME ~(p + 4 <= b) PROVE FALSE
      OBVIOUS
    <3>1. IsNet(tokens, p + 3) /\ IsNet(tokens, p + 4)
      BY <1>9 DEF IsWindow
    <3>2. p + 4 = b + 1 \/ p + 4 = b + 2 \/ p + 3 = b + 2
      BY <1>2
    <3> QED BY <1>5, <3>1, <3>2
  <2> DEFINE new == <<Window(tokens, p)>> \o list
  <2>2. ReadLine(t) = [rest |-> Rest(tokens, p + 4), list |-> new]
    BY <1>7, <1>9, TurnReads DEF n
  <2>3. Window(tokens, p) \in Says(lines[l + 1])
    BY <1>2, <1>9, <2>1, WindowSays DEF a, b
  <2>4. GoodTo(lines, l, new)
    BY <1>1, <1>3, <2>3, GoodWith
  <2>5. p + 4 \in Nat /\ p < p + 4
    OBVIOUS
  <2> HIDE DEF new
  <2>6. p + 4 \in 0..n /\ HasRead(lines, e, p + 4, new)
    BY <1>8, <2>1, <2>4, <2>5
  <2> QED BY <2>2, <2>5, <2>6 DEF Turned, n
<1>10. CASE ~IsWindow(tokens, p)
  <2>1. PICK q \in 0..n :
           /\ ReadLine(t) = [rest |-> Rest(tokens, q), list |-> list]
           /\ IsNet(tokens, p + 3) => q = p + 3
           /\ ~IsNet(tokens, p + 3) /\ p + 2 <= n => q = p + 2
           /\ ~IsNet(tokens, p + 3) /\ p + 2 > n => q = n
    <3>1. p \in 0..Len(tokens) /\ p # Len(tokens)
      BY <1>7 DEF n
    <3>2. PICK q \in 0..Len(tokens) :
             ReadLine(t) = [rest |-> Rest(tokens, q), list |-> list] /\ Skips(tokens, p, q)
      BY <1>10, <3>1, TurnSkips
    <3> QED BY <3>2 DEF Skips, n
  <2>2. p < q /\ q \in Nat
    BY <1>2, <2>1
  <2>3. CASE q <= b
    <3>1. HasRead(lines, e, q, list)
      BY <1>8, <2>2, <2>3
    <3> QED BY <2>1, <2>2, <3>1 DEF Turned, n
  <2>4. CASE ~(q <= b)
    <3>1. q = b + 1
      <4>1. CASE IsNet(tokens, p + 3)
        <5>1. q = p + 3
          BY <2>1, <4>1
        <5>2. p + 3 = b + 1 \/ p + 3 = b + 2
          BY <1>2, <2>4, <5>1
        <5> QED BY <1>5, <4>1, <5>2
      <4>2. CASE ~IsNet(tokens, p + 3) /\ p + 2 <= n
        <5>1. q = p + 2
          BY <2>1, <4>2
        <5> QED BY <1>2, <2>4, <5>1
      <4>3. CASE ~IsNet(tokens, p + 3) /\ ~(p + 2 <= n)
        <5>1. q = n /\ n <= p + 1
          BY <1>2, <2>1, <4>3
        <5> QED BY <1>2, <2>4, <5>1
      <4> QED BY <4>1, <4>2, <4>3
    <3>2. l + 1 # Len(lines)
      <4> SUFFICES ASSUME l + 1 = Len(lines) PROVE FALSE
        OBVIOUS
      <4>1. b = n
        BY DEF b, n, LineEnds
      <4> QED BY <2>1, <2>4, <4>1, <1>2
    <3>3. RightLine(lines[(l + 1) + 1]) /\ 0 < l + 1 /\ l + 1 < Len(lines)
      <4>1. (l + 1) + 1 = l + 2
        OBVIOUS
      <4> QED BY <1>1, <1>4, <3>2, <4>1
    <3>4. Behind(lines, e, q, l + 1)
      BY <1>3, <3>1, <3>3 DEF Behind, b
    <3>5. HasRead(lines, e, q, list)
      BY <1>1, <1>6, <3>4 DEF HasRead
    <3> QED BY <2>1, <2>2, <3>5 DEF Turned, n
  <2> QED BY <2>3, <2>4
<1> QED
  BY <1>9, <1>10

(* A turn a token behind a wrong line: the right line is lost. *)
LEMMA TurnBehind ==
  ASSUME NEW S, NEW lines \in Seq(Seq(S)), NEW tokens \in Seq(S), NEW e, LineEnds(lines, tokens, e),
         OneWrong(lines), NEW l \in 0..Len(lines), NEW list, GoodTo(lines, l, list),
         NEW p \in Nat, Behind(lines, e, p, l), NEW t, t = [rest |-> Rest(tokens, p), list |-> list]
  PROVE  Turned(lines, tokens, e, p, ReadLine(t))
<1> DEFINE a == e[l]
           b == e[l + 1]
           n == Len(tokens)
<1>1. /\ l + 1 \in 1..Len(lines) /\ l \in 0..Len(lines) - 1 /\ l + 1 \in 0..Len(lines)
      /\ l \in 1..Len(lines) /\ Len(lines) \in Nat
  BY DEF Behind
<1>2. a \in Nat /\ b \in Nat /\ b <= n /\ n \in Nat /\ p = a + 1
  BY <1>1, PlaceOf DEF Behind
<1>3. ~RightLine(lines[l]) /\ RightLine(lines[l + 1]) /\ DOMAIN lines = 1..Len(lines)
  BY DEF Behind
<1>w. l \in WrongLines(lines)
  <2>1. ~RightLine(lines[l]) /\ l \in 1..Len(lines)
    BY <1>1 DEF Behind
  <2> QED BY <2>1, WrongIs
<1>4. l + 1 # Len(lines) => RightLine(lines[(l + 1) + 1])
  <2> SUFFICES ASSUME l + 1 # Len(lines), ~RightLine(lines[(l + 1) + 1]) PROVE FALSE
    OBVIOUS
  <2>1. l \in WrongLines(lines)
    BY <1>w
  <2>2. (l + 1) + 1 \in 1..Len(lines) /\ (l + 1) + 1 # l
    BY <1>1
  <2>3. (l + 1) + 1 \in WrongLines(lines)
    BY <2>2, WrongIs
  <2> QED BY <2>1, <2>2, <2>3 DEF OneWrong
<1>5. ~IsNet(tokens, b + 1)
  BY <1>1, <1>4, NoNetNext
<1>6. b = a + 4 /\ IsNet(tokens, a + 4)
  <2>1. l \in 0..Len(lines) - 1 /\ RightLine(lines[l + 1])
    BY <1>1, <1>3
  <2> QED BY <2>1, RightLineAt
<1>7. GoodTo(lines, l + 1, list)
  <2>1. l \in WrongLines(lines) /\ (l + 1) - 1 = l
    BY <1>1, <1>w
  <2>2. l + 1 \notin KeptTo(lines, l + 1)
    BY <2>1 DEF KeptTo
  <2> QED BY <1>1, <1>3, <2>2, GoodPast
<1> HIDE DEF a, n
<1>8. HasRead(lines, e, b, list)
  BY <1>1, <1>7 DEF HasRead
<1> HIDE DEF b
<1>9. p \in 0..n /\ p # n /\ p + 3 = b /\ p + 3 = a + 4 /\ p + 4 = b + 1 /\ b \in 0..n /\ p < b
  BY <1>2, <1>6
<1>10. ~IsWindow(tokens, p) /\ IsNet(tokens, p + 3)
  BY <1>5, <1>6, <1>9 DEF IsWindow
<1>11. ReadLine(t) = [rest |-> Rest(tokens, p + 3), list |-> list]
  <2>1. p \in 0..Len(tokens) /\ p # Len(tokens)
    BY <1>9 DEF n
  <2>2. PICK q \in 0..Len(tokens) :
           ReadLine(t) = [rest |-> Rest(tokens, q), list |-> list] /\ Skips(tokens, p, q)
    BY <1>10, <2>1, TurnSkips
  <2> QED BY <1>10, <2>2 DEF Skips
<1> QED
  BY <1>8, <1>9, <1>11 DEF Turned, n

(* Every turn reads what it should. *)
LEMMA TurnIs ==
  ASSUME NEW S, NEW lines \in Seq(Seq(S)), NEW tokens \in Seq(S), NEW e, LineEnds(lines, tokens, e),
         OneWrong(lines), NEW p \in 0..Len(tokens), p # Len(tokens), NEW list,
         HasRead(lines, e, p, list), NEW t, t = [rest |-> Rest(tokens, p), list |-> list]
  PROVE  Turned(lines, tokens, e, p, ReadLine(t))
<1>1. PICK l \in 0..Len(lines) :
        GoodTo(lines, l, list) /\ (p = e[l] \/ InWrong(lines, e, p, l) \/ Behind(lines, e, p, l))
  BY DEF HasRead
<1>2. p \in Nat /\ Len(lines) \in Nat
  OBVIOUS
<1>3. CASE InWrong(lines, e, p, l)
  <2>1. l \in 0..Len(lines) - 1
    BY <1>2, <1>3 DEF InWrong
  <2> QED BY <1>1, <1>2, <1>3, <2>1, TurnWrong
<1>4. CASE Behind(lines, e, p, l)
  BY <1>1, <1>2, <1>4, TurnBehind
<1>5. CASE p = e[l]
  <2>1. l \in 0..Len(lines) - 1
    <3>1. l # Len(lines)
      BY <1>5 DEF LineEnds
    <3> QED BY <1>2, <3>1
  <2>2. CASE RightLine(lines[l + 1])
    BY <1>1, <1>5, <2>1, <2>2, TurnRight
  <2>3. CASE ~RightLine(lines[l + 1])
    <3>1. l + 1 \in 1..Len(lines) /\ l + 1 \in 0..Len(lines) /\ (l + 1) - 1 = l /\ DOMAIN lines = 1..Len(lines)
      BY <1>2, <2>1
    <3>2. e[l] \in Nat /\ e[l + 1] \in Nat /\ e[l] <= e[l + 1]
      BY <2>1, PlaceOf
    <3>3. CASE e[l] # e[l + 1]
      <4>0. e[l] \in Nat /\ e[l + 1] \in Nat /\ e[l] < e[l + 1]
        BY <3>2, <3>3
      <4>1. l < Len(lines) /\ e[l] <= p /\ p < e[l + 1]
        BY <1>2, <1>5, <2>1, <4>0
      <4>2. InWrong(lines, e, p, l)
        BY <2>3, <4>1 DEF InWrong
      <4> QED BY <1>1, <1>2, <2>1, <4>2, TurnWrong
    <3>4. CASE e[l] = e[l + 1]
      <4>1. l + 1 \notin KeptTo(lines, l + 1)
        BY <2>3 DEF KeptTo
      <4>2. GoodTo(lines, l + 1, list)
        BY <1>1, <1>2, <2>1, <3>1, <4>1, GoodPast
      <4>3. l + 1 # Len(lines)
        BY <1>5, <3>4 DEF LineEnds
      <4>4. l + 1 \in 0..Len(lines) - 1
        BY <1>2, <2>1, <4>3
      <4>5. RightLine(lines[(l + 1) + 1])
        <5> SUFFICES ASSUME ~RightLine(lines[(l + 1) + 1]) PROVE FALSE
          OBVIOUS
        <5>1. (l + 1) + 1 \in 1..Len(lines) /\ (l + 1) + 1 # l + 1
          BY <1>2, <4>4
        <5>2. l + 1 \in WrongLines(lines) /\ (l + 1) + 1 \in WrongLines(lines)
          BY <2>3, <3>1, <5>1, WrongIs
        <5> QED BY <5>1, <5>2 DEF OneWrong
      <4> QED BY <1>5, <3>4, <4>2, <4>4, <4>5, TurnRight
    <3> QED BY <3>3, <3>4
  <2> QED BY <2>2, <2>3
<1> QED
  BY <1>1, <1>3, <1>4, <1>5

(* The turns of configure()'s loop are defined. *)
LEMMA ReadLinesExist ==
  ASSUME NEW d, NEW k \in Nat
  PROVE  \E f : f = [n \in 0..k |-> IF n = 0 THEN d ELSE ReadLine(f[n - 1])]
<1> DEFINE Made(j) == \E f : f = [n \in 0..j |-> IF n = 0 THEN d ELSE ReadLine(f[n - 1])]
           bad == {j \in Nat : ~Made(j)}
<1>1. SUFFICES ASSUME bad # {} PROVE FALSE
  OBVIOUS
<1>2. PICK j \in bad : \A y \in bad : j <= y
  <2>1. bad \subseteq Nat
    OBVIOUS
  <2> HIDE DEF bad
  <2> QED BY <2>1, <1>1, LeastNumber
<1>3. j \in Nat /\ ~Made(j)
  BY <1>2
<1>4. Made(0)
  <2> DEFINE f == [n \in 0..0 |-> d]
  <2>1. f = [n \in 0..0 |-> IF n = 0 THEN d ELSE ReadLine(f[n - 1])]
    OBVIOUS
  <2> HIDE DEF f
  <2> QED BY <2>1
<1>5. j - 1 \in Nat
  BY <1>3, <1>4
<1>6. Made(j - 1)
  <2> HIDE DEF Made
  <2>1. j - 1 \notin bad
    <3>1. ~(j <= j - 1)
      BY <1>3
    <3> HIDE DEF bad
    <3> QED BY <1>2, <3>1
  <2> QED BY <1>5, <2>1
<1>7. PICK f : f = [n \in 0..j - 1 |-> IF n = 0 THEN d ELSE ReadLine(f[n - 1])]
  BY <1>6
<1> DEFINE g == [n \in 0..j |-> IF n \in 0..j - 1 THEN f[n] ELSE ReadLine(f[j - 1])]
<1>8. g = [n \in 0..j |-> IF n = 0 THEN d ELSE ReadLine(g[n - 1])]
  <2>1. ASSUME NEW n \in 0..j PROVE g[n] = IF n = 0 THEN d ELSE ReadLine(g[n - 1])
    <3>1. CASE n \in 0..j - 1
      <4>1. f[n] = IF n = 0 THEN d ELSE ReadLine(f[n - 1])
        BY <1>7, <3>1
      <4>2. g[n] = f[n] /\ (n # 0 => g[n - 1] = f[n - 1])
        BY <1>5, <3>1
      <4> QED BY <4>1, <4>2
    <3>2. CASE n = j
      <4>1. n # 0 /\ g[n] = ReadLine(f[j - 1]) /\ g[n - 1] = f[j - 1]
        BY <1>3, <1>5, <3>2
      <4> QED BY <4>1
    <3> QED BY <1>3, <3>1, <3>2
  <2>2. g = [n \in 0..j |-> g[n]]
    OBVIOUS
  <2> HIDE DEF g
  <2> QED BY <2>1, <2>2
<1> HIDE DEF g
<1>9. Made(j)
  BY <1>8
<1> QED
  BY <1>3, <1>9

(* What configure() makes of a file in which no two lines are wrong. *)
LEMMA ConfigureIs ==
  ASSUME NEW S, NEW lines \in Seq(Seq(S)), OneWrong(lines)
  PROVE  GoodTo(lines, Len(lines), Configure(FlattenSeq(lines), <<>>))
<1> DEFINE tokens == FlattenSeq(lines)
           k == Len(tokens)
           d == [rest |-> tokens, list |-> <<>>]
           f == CHOOSE f : f = [n \in 0..k |-> IF n = 0 THEN d ELSE ReadLine(f[n - 1])]
<1>1. Configure(tokens, <<>>) = f[k].list
  BY DEF Configure
<1>2. tokens \in Seq(S) /\ \E e : LineEnds(lines, tokens, e)
  BY FlatPlaces
<1>3. PICK e : LineEnds(lines, tokens, e)
  BY <1>2
<1> HIDE DEF tokens
<1>4. k \in Nat
  BY <1>2
<1>5. Rest(tokens, 0) = tokens
  <2>1. 0 \in 0..k
    BY <1>4
  <2> DEFINE r == Rest(tokens, 0)
  <2>2. /\ r \in Seq(S) /\ Len(r) = k - 0
        /\ \A j \in 1..k - 0 : r[j] = tokens[0 + j]
    BY <1>2, <2>1, RestIs
  <2> HIDE DEF r
  <2>3. r = [j \in 1..k |-> r[j]] /\ tokens = [j \in 1..k |-> tokens[j]]
    BY <1>2, <1>4, <2>2
  <2>4. \A j \in 1..k : r[j] = tokens[j]
    BY <1>4, <2>2
  <2>5. r = tokens
    BY <2>3, <2>4
  <2> QED BY <2>5 DEF r
<1>6. HasRead(lines, e, 0, <<>>)
  <2>1. GoodTo(lines, 0, <<>>)
    BY GoodNone
  <2>2. 0 \in 0..Len(lines) /\ e[0] = 0
    BY <1>3 DEF LineEnds
  <2> QED BY <2>1, <2>2 DEF HasRead
<1> HIDE DEF k, d
<1>7. f = [n \in 0..k |-> IF n = 0 THEN d ELSE ReadLine(f[n - 1])]
  <2>1. k \in Nat
    BY <1>4
  <2> QED BY <2>1, ReadLinesExist
<1> HIDE DEF f
<1>8. f[0] = d /\ \A n \in 1..k : f[n] = ReadLine(f[n - 1])
  BY <1>4, <1>7
(* After n turns n tokens at least are read, or all. *)
<1> DEFINE Read(n) ==
             \E p \in 0..k : \E list :
               /\ f[n] = [rest |-> Rest(tokens, p), list |-> list]
               /\ HasRead(lines, e, p, list)
               /\ n <= p
           bad == {n \in 0..k : ~Read(n)}
<1>9. Read(0)
  <2>1. f[0] = [rest |-> Rest(tokens, 0), list |-> <<>>]
    BY <1>5, <1>8 DEF d
  <2> QED BY <1>4, <1>6, <2>1
<1>10. ASSUME NEW n \in 1..k, Read(n - 1) PROVE Read(n)
  <2>0. PICK p \in 0..k :
           \E list : /\ f[n - 1] = [rest |-> Rest(tokens, p), list |-> list]
                     /\ HasRead(lines, e, p, list)
                     /\ n - 1 <= p
    BY <1>10
  <2>1. PICK list :
           /\ f[n - 1] = [rest |-> Rest(tokens, p), list |-> list]
           /\ HasRead(lines, e, p, list)
           /\ n - 1 <= p
    BY <2>0
  <2> DEFINE t == f[n - 1]
  <2> HIDE DEF t
  <2>2. t = [rest |-> Rest(tokens, p), list |-> list] /\ f[n] = ReadLine(t)
    BY <1>8, <2>1 DEF t
  <2>3. CASE p = k
    <3>1. Rest(tokens, p) = <<>>
      BY <1>2, <2>3, RestIs DEF k
    <3>2. t.rest = <<>>
      BY <2>2, <3>1
    <3>3. ReadLine(t) = t
      BY <3>2 DEF ReadLine
    <3>4. n <= p
      BY <1>4, <2>3
    <3> QED BY <2>1, <2>2, <3>3, <3>4
  <2>4. CASE p # k
    <3>1. p \in 0..Len(tokens) /\ p # Len(tokens)
      BY <2>4 DEF k
    <3>2. Turned(lines, tokens, e, p, ReadLine(t))
      BY <1>2, <1>3, <2>1, <2>2, <3>1, TurnIs
    <3>q. PICK q \in 0..k :
             \E new : /\ p < q /\ ReadLine(t) = [rest |-> Rest(tokens, q), list |-> new]
                      /\ HasRead(lines, e, q, new)
      BY <3>2 DEF Turned, k
    <3>3. PICK new : /\ p < q /\ ReadLine(t) = [rest |-> Rest(tokens, q), list |-> new]
                     /\ HasRead(lines, e, q, new)
      BY <3>q
    <3>4. n <= q
      BY <1>4, <2>1, <3>3
    <3> QED BY <2>2, <3>3, <3>4
  <2> QED BY <2>3, <2>4
<1> HIDE DEF Read
<1>11. bad = {}
  <2> SUFFICES ASSUME bad # {} PROVE FALSE
    OBVIOUS
  <2>1. PICK n \in bad : \A y \in bad : n <= y
    <3>1. bad \subseteq Nat
      BY <1>4
    <3> HIDE DEF bad
    <3> QED BY <3>1, LeastNumber
  <2>2. n \in 0..k /\ ~Read(n)
    BY <2>1
  <2>3. n \in 1..k
    BY <1>4, <1>9, <2>2
  <2>4. n - 1 \in 0..k /\ ~(n <= n - 1)
    BY <1>4, <2>3
  <2>5. n - 1 \notin bad
    <3> HIDE DEF bad
    <3> QED BY <2>1, <2>4
  <2> QED BY <1>10, <2>2, <2>3, <2>4, <2>5
<1>12. Read(k)
  <2>1. k \in 0..k
    BY <1>4
  <2> QED BY <1>11, <2>1
<1>p. PICK p \in 0..k :
         \E list : /\ f[k] = [rest |-> Rest(tokens, p), list |-> list]
                   /\ HasRead(lines, e, p, list)
                   /\ k <= p
  BY <1>12 DEF Read
<1>13. PICK list : /\ f[k] = [rest |-> Rest(tokens, p), list |-> list]
                   /\ HasRead(lines, e, p, list)
                   /\ k <= p
  BY <1>p
<1>14. p = k /\ f[k].list = list
  BY <1>4, <1>13
(* All tokens are read, and so all lines. *)
<1>15. PICK l \in 0..Len(lines) :
         GoodTo(lines, l, list) /\ (p = e[l] \/ InWrong(lines, e, p, l) \/ Behind(lines, e, p, l))
  BY <1>13 DEF HasRead
<1>16. Len(lines) \in Nat
  OBVIOUS
<1>d. DOMAIN lines = 1..Len(lines)
  OBVIOUS
<1>17. ~InWrong(lines, e, p, l)
  <2> SUFFICES ASSUME InWrong(lines, e, p, l) PROVE FALSE
    OBVIOUS
  <2>1. l \in 0..Len(lines) - 1 /\ p < e[l + 1]
    BY <1>16 DEF InWrong
  <2>2. e[l + 1] \in Nat /\ e[l + 1] <= k
    BY <1>2, <1>3, <2>1, PlaceOf DEF k
  <2> QED BY <1>4, <1>14, <2>1, <2>2
<1>18. ~Behind(lines, e, p, l)
  <2> SUFFICES ASSUME Behind(lines, e, p, l) PROVE FALSE
    OBVIOUS
  <2>1. l \in 0..Len(lines) - 1 /\ RightLine(lines[l + 1]) /\ p = e[l] + 1
    BY <1>16 DEF Behind
  <2>2. e[l] \in Nat /\ e[l + 1] <= k /\ e[l + 1] \in Nat
    BY <1>2, <1>3, <2>1, PlaceOf DEF k
  <2>3. e[l + 1] = e[l] + 4
    BY <1>2, <1>3, <2>1, RightLineAt
  <2> QED BY <1>4, <1>14, <2>1, <2>2, <2>3
<1>19. p = e[l]
  BY <1>15, <1>17, <1>18
<1>20. CASE l = Len(lines)
  BY <1>1, <1>14, <1>15, <1>20 DEF tokens
<1>21. CASE l # Len(lines)
  <2>1. l \in 0..Len(lines) - 1
    BY <1>16, <1>21
  <2>2. e[l] \in Nat /\ e[l + 1] \in Nat /\ e[l + 1] <= k /\ e[l] <= e[l + 1]
    BY <1>2, <1>3, <2>1, PlaceOf DEF k
  <2>3. e[l + 1] = k
    BY <1>4, <1>14, <1>19, <2>2
  <2>4. ~RightLine(lines[l + 1])
    <3> SUFFICES ASSUME RightLine(lines[l + 1]) PROVE FALSE
      OBVIOUS
    <3>1. e[l + 1] = e[l] + 4
      BY <1>2, <1>3, <2>1, RightLineAt
    <3> QED BY <1>4, <1>14, <1>19, <2>2, <2>3, <3>1
  <2>5. l + 1 \notin KeptTo(lines, l + 1)
    BY <2>4 DEF KeptTo
  <2>6. GoodTo(lines, l + 1, list)
    BY <1>15, <1>16, <1>d, <2>1, <2>5, GoodPast
  <2>7. l + 1 = Len(lines)
    <3> SUFFICES ASSUME l + 1 # Len(lines) PROVE FALSE
      OBVIOUS
    <3>1. l + 1 \in 0..Len(lines) - 1 /\ (l + 1) + 1 \in 1..Len(lines) /\ l + 1 \in 1..Len(lines)
          /\ l + 1 # (l + 1) + 1
      BY <1>16, <2>1
    <3>2. ~RightLine(lines[(l + 1) + 1])
      <4> SUFFICES ASSUME RightLine(lines[(l + 1) + 1]) PROVE FALSE
        OBVIOUS
      <4>1. e[(l + 1) + 1] = e[l + 1] + 4
        BY <1>2, <1>3, <3>1, RightLineAt
      <4>2. e[(l + 1) + 1] \in Nat /\ e[(l + 1) + 1] <= k
        BY <1>2, <1>3, <3>1, PlaceOf DEF k
      <4> QED BY <1>4, <2>3, <4>1, <4>2
    <3>3. l + 1 \in WrongLines(lines) /\ (l + 1) + 1 \in WrongLines(lines)
      BY <2>4, <3>1, <3>2, WrongIs
    <3> QED BY <3>1, <3>3 DEF OneWrong
  <2>8. Configure(tokens, <<>>) = list
    BY <1>1, <1>14
  <2> QED BY <2>6, <2>7, <2>8 DEF tokens
<1> QED
  BY <1>20, <1>21

(* What configure() reads goes before what it has. *)
LEMMA ConfigureIsSequence ==
  ASSUME NEW tokens, Len(tokens) \in Nat, NEW S, NEW list \in Seq(S)
  PROVE  \E R : Configure(tokens, list) \in Seq(R)
<1> DEFINE k == Len(tokens)
           d == [rest |-> tokens, list |-> list]
           f == CHOOSE f : f = [n \in 0..k |-> IF n = 0 THEN d ELSE ReadLine(f[n - 1])]
           Read(t) == \E r, l, R : l \in Seq(R) /\ t = [rest |-> r, list |-> l]
           bad == {n \in 0..k : ~Read(f[n])}
<1>1. Configure(tokens, list) = f[k].list
  BY DEF Configure
<1>2. k \in Nat /\ Read(d)
  BY DEF Read
<1> HIDE DEF k, d
<1>3. f = [n \in 0..k |-> IF n = 0 THEN d ELSE ReadLine(f[n - 1])]
  <2>1. k \in Nat
    BY <1>2
  <2> QED BY <2>1, ReadLinesExist
<1> HIDE DEF f
<1>4. f[0] = d /\ \A n \in 1..k : f[n] = ReadLine(f[n - 1])
  BY <1>2, <1>3
<1>5. ASSUME NEW t, Read(t) PROVE Read(ReadLine(t))
  <2>1. PICK r, l, R : l \in Seq(R) /\ t = [rest |-> r, list |-> l]
    BY <1>5
  <2>2. t.rest = r /\ t.list = l
    BY <2>1
  <2>3. CASE t.rest = <<>>
    BY <1>5, <2>3 DEF ReadLine
  <2>4. CASE t.rest # <<>> /\ IsNet(t.rest, 3) /\ IsNet(t.rest, 4)
    <3> DEFINE x == [counter |-> r[1], src |-> r[3], dst |-> r[4]]
    <3>1. FilterOf(r) = <<x>>
      BY DEF FilterOf
    <3>2. ReadLine(t) = [rest |-> From(5, r), list |-> <<x>> \o l]
      BY <2>2, <2>4, <3>1 DEF ReadLine
    <3> HIDE DEF x
    <3>3. <<x>> \in Seq(R \union {x}) /\ l \in Seq(R \union {x})
      BY <2>1
    <3>4. <<x>> \o l \in Seq(R \union {x})
      BY <3>3
    <3> QED BY <3>2, <3>4
  <2>5. CASE t.rest # <<>> /\ ~(IsNet(t.rest, 3) /\ IsNet(t.rest, 4))
    <3>1. \E q : ReadLine(t) = [t EXCEPT !.rest = q]
      BY <2>5 DEF ReadLine
    <3>2. PICK q : ReadLine(t) = [t EXCEPT !.rest = q]
      BY <3>1
    <3>3. ReadLine(t) = [rest |-> q, list |-> l]
      BY <2>1, <3>2
    <3> QED BY <2>1, <3>3
  <2> QED BY <2>3, <2>4, <2>5
<1> HIDE DEF Read
<1>6. bad = {}
  <2> SUFFICES ASSUME bad # {} PROVE FALSE
    OBVIOUS
  <2>1. PICK n \in bad : \A y \in bad : n <= y
    <3>1. bad \subseteq Nat
      BY <1>2
    <3> HIDE DEF bad
    <3> QED BY <3>1, LeastNumber
  <2>2. n \in 0..k /\ ~Read(f[n])
    BY <2>1
  <2>3. n \in 1..k
    BY <1>2, <1>4, <2>2
  <2>4. n - 1 \in 0..k /\ ~(n <= n - 1)
    BY <1>2, <2>3
  <2>5. n - 1 \notin bad
    <3> HIDE DEF bad
    <3> QED BY <2>1, <2>4
  <2> QED BY <1>4, <1>5, <2>2, <2>3, <2>4, <2>5
<1>7. Read(f[k])
  BY <1>2, <1>6
<1>8. PICK r, l, R : l \in Seq(R) /\ f[k] = [rest |-> r, list |-> l]
  BY <1>7 DEF Read
<1>9. f[k].list = l
  BY <1>8
<1> QED
  BY <1>1, <1>8, <1>9

(* At first there are no filters, and nothing was read. *)
LEMMA NetFlowInitInv == ASSUME NetFlowInit PROVE FlowsInv
<1>1. /\ filters = <<>> /\ classFilters = <<>> /\ added = <<>> /\ reported = <<>>
      /\ datagram = [version |-> 0, count |-> 0, records |-> <<>>]
  BY DEF NetFlowInit, NoMessage
<1>2. NewestFirst
  BY <1>1 DEF NewestFirst
<1>3. filters \in Seq({})
  BY <1>1
<1>4. FlowsSaid
  BY <1>1 DEF FlowsSaid
<1> QED
  BY <1>2, <1>3, <1>4 DEF FlowsInv

(* Filters are added before the first datagram: nothing was reported then. *)
LEMMA FlowsSaidKept ==
  ASSUME FlowsSaid, datagram = NoMessage, UNCHANGED <<reported, datagram>>
  PROVE  FlowsSaid'
<1>1. datagram'.version # 5 /\ reported' = <<>>
  BY DEF NoMessage, FlowsSaid
<1> QED
  BY <1>1 DEF FlowsSaid

(* configure() keeps the invariant. *)
LEMMA ConfigureFromInv ==
  ASSUME FlowsInv, NEW file \in Files, ConfigureFrom(file)
  PROVE  FlowsInv'
<1>1. /\ datagram = NoMessage /\ filters' = Configure(FlattenSeq(file), filters)
      /\ UNCHANGED <<classFilters, reported, datagram, added>>
  BY DEF ConfigureFrom
<1>2. PICK S : filters \in Seq(S)
  BY DEF FlowsInv
<1>3. FlattenSeq(file) \in Seq(Token)
  <2>1. file \in Seq(Seq(Token))
    BY CollectorAssumption
  <2> QED BY <2>1, FlatPlaces
<1>4. Len(FlattenSeq(file)) \in Nat
  BY <1>3
<1>5. \E R : filters' \in Seq(R)
  BY <1>1, <1>2, <1>4, ConfigureIsSequence
<1>6. NewestFirst'
  BY <1>1 DEF FlowsInv, NewestFirst
<1>7. FlowsSaid'
  BY <1>1, FlowsSaidKept DEF FlowsInv
<1> QED
  BY <1>5, <1>6, <1>7 DEF FlowsInv

(* A class filter goes before the others. *)
LEMMA AddClassFilterInv ==
  ASSUME FlowsInv, NEW f \in ClassFilters, AddClassFilter(f)
  PROVE  FlowsInv'
<1>1. /\ datagram = NoMessage /\ classFilters' = <<f>> \o classFilters /\ added' = Append(added, f)
      /\ UNCHANGED <<filters, reported, datagram>>
  BY DEF AddClassFilter
<1>2. /\ added \in Seq(ClassFilters) /\ classFilters \in Seq(ClassFilters)
      /\ Len(classFilters) = Len(added)
      /\ \A i \in 1..Len(added) : added[i] = classFilters[Len(added) + 1 - i]
  BY DEF FlowsInv, NewestFirst
<1> DEFINE n == Len(added)
<1>3. /\ added' \in Seq(ClassFilters) /\ Len(added') = n + 1 /\ added'[n + 1] = f
      /\ \A i \in 1..n : added'[i] = added[i]
  BY <1>1, <1>2
<1>5. n \in Nat
  BY <1>2
<1>4. /\ classFilters' \in Seq(ClassFilters) /\ Len(classFilters') = n + 1 /\ classFilters'[1] = f
      /\ \A i \in 2..n + 1 : classFilters'[i] = classFilters[i - 1]
  <2> DEFINE one == <<f>>
             c == classFilters
  <2>1. one \in Seq(ClassFilters) /\ Len(one) = 1 /\ one[1] = f
    OBVIOUS
  <2>2. c \in Seq(ClassFilters) /\ Len(c) = n
    BY <1>2
  <2>3. classFilters' = one \o c
    BY <1>1
  <2> HIDE DEF one, c, n
  <2>4. one \o c \in Seq(ClassFilters)
    BY <2>1, <2>2
  <2>m. one \in Seq(ClassFilters) /\ c \in Seq(ClassFilters)
    BY <2>1, <2>2
  <2>l. Len(one \o c) = Len(one) + Len(c)
    BY <2>m
  <2>5. /\ \A i \in 1..Len(one) : (one \o c)[i] = one[i]
        /\ \A i \in 1..Len(c) : (one \o c)[Len(one) + i] = c[i]
    BY <2>m, ConcatElements
  <2>6. Len(one \o c) = n + 1 /\ (one \o c)[1] = f
    BY <2>1, <2>2, <2>5, <2>l
  <2>7. ASSUME NEW i \in 2..n + 1 PROVE (one \o c)[i] = c[i - 1]
    <3>1. i - 1 \in 1..n /\ 1 + (i - 1) = i
      BY <1>5
    <3> QED BY <2>1, <2>2, <2>5, <3>1
  <2> QED BY <2>3, <2>4, <2>6, <2>7 DEF c
<1>6. ASSUME NEW i \in 1..n + 1 PROVE added'[i] = classFilters'[n + 2 - i]
  <2>1. CASE i = n + 1
    BY <1>3, <1>4, <1>5, <2>1
  <2>2. CASE i # n + 1
    <3>1. i \in 1..n /\ n + 2 - i \in 2..n + 1 /\ n + 2 - i - 1 = n + 1 - i
      BY <1>5, <2>2
    <3> QED BY <1>2, <1>3, <1>4, <3>1
  <2> QED BY <2>1, <2>2
<1>7. NewestFirst'
  <2> HIDE DEF n
  <2>1. Len(added') = n + 1 /\ Len(added') + 1 = n + 2
    BY <1>3, <1>5
  <2>2. \A i \in 1..Len(added') : added'[i] = classFilters'[Len(added') + 1 - i]
    <3> SUFFICES ASSUME NEW i \in 1..Len(added') PROVE added'[i] = classFilters'[Len(added') + 1 - i]
      OBVIOUS
    <3> DEFINE m == Len(added')
    <3> HIDE DEF m, n
    <3>1. i \in 1..n + 1 /\ m + 1 - i = n + 2 - i
      BY <1>5, <2>1 DEF m
    <3>2. added'[i] = classFilters'[m + 1 - i]
      BY <1>6, <3>1
    <3> QED BY <3>2 DEF m
  <2> QED BY <1>3, <1>4, <2>2 DEF NewestFirst
<1>8. FlowsSaid'
  BY <1>1, FlowsSaidKept DEF FlowsInv
<1> QED
  BY <1>1, <1>7, <1>8 DEF FlowsInv

(* Every step of the collector keeps the invariant. *)
LEMMA NetFlowNextInv ==
  ASSUME FlowsInv, [NetFlowNext]_netflow_vars
  PROVE  FlowsInv'
<1>1. CASE \E file \in Files : ConfigureFrom(file)
  BY <1>1, ConfigureFromInv
<1>2. CASE \E f \in ClassFilters : AddClassFilter(f)
  BY <1>2, AddClassFilterInv
<1>3. CASE \E d \in Datagrams : NetFlowRead(d)
  BY <1>3, NetFlowReadInv
<1>4. CASE UNCHANGED netflow_vars
  <2>1. UNCHANGED <<filters, classFilters, reported, datagram, added>>
    BY <1>4 DEF netflow_vars
  <2>2. NewestFirst' /\ \E S : filters' \in Seq(S)
    BY <2>1 DEF FlowsInv, NewestFirst
  <2>3. FlowsSaid'
    BY <2>1 DEF FlowsInv, FlowsSaid, RecordReported, FarFromEdges, ClassSaid, BelongsSomewhere, IsNewestClass
  <2> QED BY <2>2, <2>3 DEF FlowsInv
<1> QED
  BY <1>1, <1>2, <1>3, <1>4 DEF NetFlowNext

(* For every set of filters and of datagrams: a record that is in the      *)
(* datagram is reported with the counter and the class of the newest       *)
(* filter that contains both its addresses, far from the edges             *)
(* (netflowserver.cpp:102-133, netflowcollector.cpp:55-113).               *)
THEOREM FlowsAreReported == NetFlowSpec => []FlowsReported
<1>1. NetFlowInit => FlowsInv
  BY NetFlowInitInv
<1>2. FlowsInv /\ [NetFlowNext]_netflow_vars => FlowsInv'
  BY NetFlowNextInv
<1>3. FlowsInv => FlowsReported
  BY FlowsInvReports
<1> QED
  BY <1>1, <1>2, <1>3, PTL DEF NetFlowSpec

-----------------------------------------------------------------------------
(* The NetFlow collector: the file it was given. *)

(* The filters are those of the file that was read, if one line is wrong   *)
(* at most; there are none before.                                         *)
ReadInv ==
  /\ configured \in Seq(Seq(Token))
  /\ configured = <<>> => filters = <<>>
  /\ OneWrong(configured) => GoodTo(configured, Len(configured), filters)

(* The property, from the invariant. *)
LEMMA ReadInvSays == ASSUME ReadInv PROVE ConfiguredAsWritten
<1> DEFINE W == WrongLines(configured)
           n == Len(configured)
<1>1. configured \in Seq(Seq(Token)) /\ n \in Nat /\ DOMAIN configured = 1..n
  BY DEF ReadInv
<1> HIDE DEF n
<1>2. SUFFICES ASSUME Cardinality(W) <= 1
               PROVE  /\ \A i \in DOMAIN filters : \E l \in DOMAIN configured :
                           filters[i] \in Says(configured[l])
                      /\ LET kept == {l \in DOMAIN configured :
                                        RightLine(configured[l]) /\ l - 1 \notin WrongLines(configured)}
                         IN \E place \in [kept -> DOMAIN filters] :
                              /\ \A l \in kept : filters[place[l]] \in Says(configured[l])
                              /\ \A l, m \in kept : l < m => place[m] < place[l]
  BY DEF ConfiguredAsWritten
<1>3. OneWrong(configured)
  <2>1. W \subseteq 1..n
    BY <1>1 DEF WrongLines
  <2>2. IsFiniteSet(1..n)
    BY <1>1, FS_Interval
  <2>3. IsFiniteSet(W)
    BY <2>1, <2>2, FS_Subset
  <2> HIDE DEF W
  <2>4. ASSUME NEW i \in W, NEW j \in W, i # j PROVE FALSE
    <3>1. IsFiniteSet({i}) /\ Cardinality({i}) = 1 /\ IsFiniteSet({j}) /\ Cardinality({j}) = 1
      BY FS_Singleton
    <3>2. {i, j} \subseteq W /\ IsFiniteSet({i, j}) /\ Cardinality({i, j}) = 2
      <4>1. j \notin {i}
        BY <2>4
      <4>2. IsFiniteSet({i} \union {j}) /\ Cardinality({i} \union {j}) = Cardinality({i}) + 1
        BY <3>1, <4>1, FS_AddElement
      <4>3. {i, j} = {i} \union {j}
        OBVIOUS
      <4> QED BY <3>1, <4>2, <4>3
    <3>3. Cardinality({i, j}) <= Cardinality(W)
      BY <2>3, <3>2, FS_Subset
    <3>4. Cardinality(W) \in Nat
      BY <2>3, FS_CardinalityType
    <3> QED BY <1>2, <3>2, <3>3, <3>4
  <2> QED BY <2>4 DEF OneWrong, W
<1>4. GoodTo(configured, n, filters)
  BY <1>3 DEF ReadInv, n
<1>5. PICK R : filters \in Seq(R)
  BY <1>4 DEF GoodTo
<1>6. DOMAIN filters = 1..Len(filters)
  BY <1>5
<1>7. KeptTo(configured, n) =
        {l \in DOMAIN configured : RightLine(configured[l]) /\ l - 1 \notin WrongLines(configured)}
  <2>1. \A x \in 1..n : x <= n
    BY <1>1
  <2> QED BY <1>1, <2>1 DEF KeptTo
<1> QED
  BY <1>4, <1>6, <1>7, Zenon DEF GoodTo

(* Every step keeps it. *)
LEMMA ReadNextInv ==
  ASSUME ReadInv, [NetFlowNext]_netflow_vars
  PROVE  ReadInv'
<1>1. ASSUME NEW file \in Files, ConfigureFrom(file) PROVE ReadInv'
  <2>1. configured = <<>> /\ filters' = Configure(FlattenSeq(file), filters) /\ configured' = file
    BY <1>1 DEF ConfigureFrom
  <2>2. filters' = Configure(FlattenSeq(file), <<>>) /\ file \in Seq(Seq(Token))
    BY <2>1, CollectorAssumption DEF ReadInv
  <2>3. OneWrong(file) => GoodTo(file, Len(file), filters')
    BY <2>2, ConfigureIs
  <2>4. ASSUME file = <<>> PROVE filters' = <<>>
    <3>1. DOMAIN file = {}
      BY <2>4
    <3>2. OneWrong(file)
      BY <3>1 DEF OneWrong, WrongLines
    <3>3. GoodTo(file, Len(file), filters')
      BY <2>3, <3>2
    <3>4. PICK R : filters' \in Seq(R)
      BY <3>3 DEF GoodTo
    <3>5. \A i \in 1..Len(filters') : FALSE
      BY <3>1, <3>3 DEF GoodTo
    <3>6. Len(filters') = 0
      BY <3>4, <3>5
    <3> QED BY <3>4, <3>6
  <2>5. OneWrong(configured)' => OneWrong(file)
    BY <2>1 DEF OneWrong, WrongLines
  <2>6. GoodTo(file, Len(file), filters') => GoodTo(configured, Len(configured), filters)'
    BY <2>1, Zenon DEF GoodTo, KeptTo, WrongLines
  <2>7. configured' \in Seq(Seq(Token)) /\ (configured' = <<>> => filters' = <<>>)
    BY <2>1, <2>2, <2>4
  <2> QED BY <2>3, <2>5, <2>6, <2>7 DEF ReadInv
<1>2. ASSUME UNCHANGED <<configured, filters>> PROVE ReadInv'
  BY <1>2 DEF ReadInv, OneWrong, GoodTo, KeptTo, WrongLines
<1>3. ASSUME NEW f \in ClassFilters, AddClassFilter(f) PROVE ReadInv'
  BY <1>2, <1>3 DEF AddClassFilter
<1>4. ASSUME NEW d \in Datagrams, NetFlowRead(d) PROVE ReadInv'
  BY <1>2, <1>4 DEF NetFlowRead
<1>5. CASE UNCHANGED netflow_vars
  BY <1>2, <1>5 DEF netflow_vars
<1> QED
  BY <1>1, <1>3, <1>4, <1>5 DEF NetFlowNext

(* For every file: a wrong line does no harm but to itself and the next    *)
(* (netflowserver.cpp:66-97).                                              *)
THEOREM FilesAreRead == NetFlowSpec => []ConfiguredAsWritten
<1>1. NetFlowInit => ReadInv
  <2> SUFFICES ASSUME NetFlowInit PROVE ReadInv
    OBVIOUS
  <2>1. configured = <<>> /\ filters = <<>>
    BY DEF NetFlowInit
  <2>2. <<>> \in Seq(Seq(Token)) /\ Len(<<>>) = 0
    OBVIOUS
  <2>3. GoodTo(<<>>, 0, <<>>)
    BY <2>2, GoodNone
  <2> QED BY <2>1, <2>2, <2>3 DEF ReadInv
<1>2. ReadInv /\ [NetFlowNext]_netflow_vars => ReadInv'
  BY ReadNextInv
<1>3. ReadInv => ConfiguredAsWritten
  BY ReadInvSays
<1> QED
  BY <1>1, <1>2, <1>3, PTL DEF NetFlowSpec

(* The daemon and the collector together: their steps in any order         *)
(* (netdaemon.cpp, netflowserver.cpp and netflowcollector.cpp of nanosrv). *)
THEOREM CollectorIsSound == DaemonSpec /\ NetFlowSpec => []CollectorSound
<1>1. ObjectsCounted /\ ConfiguredAsWritten /\ FlowsReported => CollectorSound
  BY DEF CollectorSound
<1> QED
  BY <1>1, ServersAreCounted, FlowsAreReported, FilesAreRead, PTL
=============================================================================
