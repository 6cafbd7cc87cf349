--------------------------- MODULE NetDaemonProofs ---------------------------
(***************************************************************************)
(* Proofs about NetDaemon, for every set of objects, every table size and  *)
(* every number of descriptors.  What holds whatever callers do comes      *)
(* first; what holds when they keep from the two habits comes second.      *)
(***************************************************************************)
EXTENDS NetDaemon, FiniteSetTheorems, TLAPS

Taken == {f \in Slots : slot[f] # None}

(* The table is finite, so that its objects can be counted. *)
LEMMA TakenFinite == IsFiniteSet(Taken) /\ Cardinality(Taken) \in Nat
<1>1. IsFiniteSet(Slots)
  BY FS_Interval, LimitAssumption DEF Slots
<1>2. IsFiniteSet(Taken)
  BY <1>1, FS_Subset DEF Taken
<1> QED
  BY <1>2, FS_CardinalityType

(* A slot that is emptied leaves one object less to count. *)
LEMMA Uncounted ==
  ASSUME NEW f \in Slots, slot \in [Slots -> Object \union {None}],
         slot[f] # None, slot' = [slot EXCEPT ![f] = None]
  PROVE  Cardinality(Taken') = Cardinality(Taken) - 1 /\ Cardinality(Taken) > 0
<1>1. Taken' = Taken \ {f} /\ f \in Taken
  BY DEF Taken
<1>2. Cardinality(Taken') = Cardinality(Taken) - 1
  BY <1>1, TakenFinite, FS_RemoveElement
<1>3. Cardinality(Taken) # 0
  BY <1>1, TakenFinite, FS_EmptySet
<1> QED
  BY <1>2, <1>3, TakenFinite

(* A slot that is filled leaves one object more. *)
LEMMA Counted ==
  ASSUME NEW f \in Slots, NEW o \in Object, slot \in [Slots -> Object \union {None}],
         slot[f] = None, slot' = [slot EXCEPT ![f] = o]
  PROVE  Cardinality(Taken') = Cardinality(Taken) + 1
<1>1. Taken' = Taken \union {f} /\ f \notin Taken
  BY NoneAssumption DEF Taken
<1> QED
  BY <1>1, TakenFinite, FS_AddElement

(* A descriptor that is listed is taken. *)
LEMMA ListedIsTaken ==
  ASSUME NEW o \in Object, Listed(o)
  PROVE  fd[o] \in Slots /\ slot[fd[o]] = o /\ slot[fd[o]] # None
BY NoneAssumption DEF Listed

(* What disableObject() and enableObject() do to the invariant's parts. *)
LEMMA DisableInv ==
  ASSUME AnyInv, NEW o \in Object, Disable(o)
  PROVE  /\ slot' \in [Slots -> Object \union {None}]
         /\ out' \in [Slots -> Seq(Object)]
         /\ count' \in Nat /\ count' = Cardinality(Taken')
         /\ watched' \in SUBSET Slots
         /\ armed' \in SUBSET watched'
         /\ wants_out' \in SUBSET watched'
         /\ WatchedIsListed'
<1>1. CASE o \in daemon /\ Listed(o) /\ fd[o] \in watched
  <2>1. /\ fd[o] \in Slots /\ slot[fd[o]] # None
        /\ slot' = [slot EXCEPT ![fd[o]] = None]
        /\ out' = [out EXCEPT ![fd[o]] = <<>>]
        /\ count' = count - 1
        /\ Unwatch(fd[o])
    BY <1>1, ListedIsTaken DEF Disable
  <2>2. Cardinality(Taken') = Cardinality(Taken) - 1 /\ Cardinality(Taken) > 0
    BY <2>1, Uncounted DEF AnyInv, TypeOK
  <2>3. count' = Cardinality(Taken') /\ count' \in Nat
    BY <2>1, <2>2, TakenFinite DEF AnyInv, CountExact, Taken
  <2>4. slot' \in [Slots -> Object \union {None}] /\ out' \in [Slots -> Seq(Object)]
    BY <2>1 DEF AnyInv, TypeOK
  <2> QED
    BY <2>1, <2>3, <2>4 DEF AnyInv, TypeOK, WatchedIsListed, Unwatch
<1>2. CASE ~(o \in daemon /\ Listed(o) /\ fd[o] \in watched)
  <2>1. UNCHANGED <<epoll, table>>
    BY <1>2 DEF Disable
  <2> QED
    BY <2>1 DEF AnyInv, TypeOK, CountExact, WatchedIsListed, Taken, epoll, table
<1> QED
  BY <1>1, <1>2

(* What enable() puts into the registry and into epoll. *)
LEMMA EnableInv ==
  ASSUME AnyInv, NEW o \in Object, Enable(o)
  PROVE  /\ slot' \in [Slots -> Object \union {None}]
         /\ out' \in [Slots -> Seq(Object)]
         /\ count' \in Nat /\ count' = Cardinality(Taken')
         /\ watched' \in SUBSET Slots
         /\ armed' \in SUBSET watched'
         /\ wants_out' \in SUBSET watched'
         /\ WatchedIsListed'
<1>1. CASE fd[o] \in Slots /\ slot[fd[o]] = None /\ fd[o] \in opened
  <2>1. /\ Arm(fd[o], out[fd[o]] # <<>>)
        /\ slot' = [slot EXCEPT ![fd[o]] = o]
        /\ count' = count + 1
        /\ out' = out
    BY <1>1 DEF Enable
  <2>2. Cardinality(Taken') = Cardinality(Taken) + 1
    BY <1>1, <2>1, Counted DEF AnyInv, TypeOK
  <2>3. count' = Cardinality(Taken') /\ count' \in Nat
    BY <2>1, <2>2, TakenFinite DEF AnyInv, CountExact, Taken
  <2> QED
    BY <1>1, <2>1, <2>3, NoneAssumption DEF AnyInv, TypeOK, WatchedIsListed, Arm
<1>2. CASE ~(fd[o] \in Slots /\ slot[fd[o]] = None /\ fd[o] \in opened)
  <2>1. UNCHANGED <<epoll, table>>
    BY <1>2 DEF Enable
  <2> QED
    BY <2>1 DEF AnyInv, TypeOK, CountExact, WatchedIsListed, Taken, epoll, table, Listed
<1> QED
  BY <1>1, <1>2

-----------------------------------------------------------------------------
(* Whatever callers do. *)

(* The calls of the program's own code keep AnyInv. *)
LEMMA UserCallAnyInv ==
  ASSUME AnyInv, NEW o \in Object, UserCall(o)
  PROVE  AnyInv'
<1>1. CASE SetFd(o)
  <2>1. PICK f \in Fds :
          /\ opened' = opened \union {f}
          /\ IF fd[o] = NoFd THEN UNCHANGED <<epoll, table>> ELSE Disable(o)
          /\ fd' = [fd EXCEPT ![o] = f]
          /\ UNCHANGED <<daemon, event, orderly>>
    BY <1>1 DEF SetFd
  <2>2. CASE fd[o] = NoFd
    BY <2>1, <2>2 DEF AnyInv, TypeOK, CountExact, WatchedIsListed, epoll, table
  <2>3. CASE fd[o] # NoFd
    BY <2>1, <2>3, DisableInv DEF AnyInv, TypeOK, CountExact, Taken
  <2> QED
    BY <2>2, <2>3
<1>2. ASSUME NEW enabled \in BOOLEAN, AddObject(o, enabled) PROVE AnyInv'
  <2>1. CASE enabled
    BY <1>2, <2>1, EnableInv DEF AddObject, AnyInv, TypeOK, CountExact, Taken
  <2>2. CASE ~enabled
    BY <1>2, <2>2 DEF AddObject, AnyInv, TypeOK, CountExact, WatchedIsListed, epoll, table
  <2> QED
    BY <2>1, <2>2
<1>3. CASE EnableObject(o)
  BY <1>3, EnableInv DEF EnableObject, AnyInv, TypeOK, CountExact, Taken
<1>4. CASE DisableObject(o)
  BY <1>4, DisableInv DEF DisableObject, AnyInv, TypeOK, CountExact, Taken
<1>5. CASE RemoveObject(o)
  <2>1. daemon' \in SUBSET Object
    BY <1>5 DEF RemoveObject, CanDisable, AnyInv, TypeOK
  <2> QED
    BY <1>5, <2>1, DisableInv DEF RemoveObject, AnyInv, TypeOK, CountExact, Taken
<1>6. CASE Close(o)
  BY <1>6 DEF Close, Unwatch, AnyInv, TypeOK, CountExact, WatchedIsListed, table
<1>7. CASE PutInBuffer(o)
  <2>1. out' \in [Slots -> Seq(Object)]
    BY <1>7 DEF PutInBuffer, AnyInv, TypeOK
  <2>2. CASE Listed(o) /\ fd[o] \in watched
    BY <1>7, <2>1, <2>2 DEF PutInBuffer, Arm, AnyInv, TypeOK, CountExact, WatchedIsListed
  <2>3. CASE ~(Listed(o) /\ fd[o] \in watched)
    BY <1>7, <2>1, <2>3 DEF PutInBuffer, epoll, AnyInv, TypeOK, CountExact, WatchedIsListed
  <2> QED
    BY <2>2, <2>3
<1> QED
  BY <1>1, <1>2, <1>3, <1>4, <1>5, <1>6, <1>7 DEF UserCall

(* A handler runs for the event of an object. *)
LEMMA HandlingEvent ==
  ASSUME AnyInv, NEW kind \in {"in", "out", "down"}, Handling(kind)
  PROVE  /\ event \in [fd : Slots, obj : Object, todo : SUBSET {"in", "out", "down"}]
         /\ event' = [event EXCEPT !.todo = @ \ {kind}]
         /\ event' \in [fd : Slots, obj : Object, todo : SUBSET {"in", "out", "down"}]
<1>1. kind \in event.todo
  BY DEF Handling
<1>2. event # NoEvent
  BY <1>1 DEF NoEvent
<1> QED
  BY <1>2 DEF Handling, AnyInv, TypeOK

(* The steps of run() keep AnyInv. *)
LEMMA LoopAnyInv ==
  ASSUME AnyInv, Loop
  PROVE  AnyInv'
<1>1. ASSUME NEW f \in Slots, Wait(f) PROVE AnyInv'
  <2>1. PICK todo \in SUBSET {"in", "out", "down"} :
          event' = IF slot[f] = None THEN NoEvent
                   ELSE [fd |-> f, obj |-> slot[f], todo |-> todo]
    BY <1>1 DEF Wait
  <2>2. event' = NoEvent \/ event' \in [fd : Slots, obj : Object, todo : SUBSET {"in", "out", "down"}]
    BY <2>1 DEF AnyInv, TypeOK
  <2>3. UNCHANGED <<daemon, fd, slot, out, count, opened, watched, wants_out, orderly>>
        /\ armed' = armed \ {f}
    BY <1>1 DEF Wait, table
  <2> QED
    BY <2>2, <2>3 DEF AnyInv, TypeOK, CountExact, WatchedIsListed, NoEvent
<1>2. CASE HandleRead
  BY <1>2, HandlingEvent DEF HandleRead, AnyInv, TypeOK, CountExact, WatchedIsListed, table, epoll
<1>3. ASSUME NEW n \in 0..MaxOut, HandleWrite(n) PROVE AnyInv'
  <2>1. /\ event \in [fd : Slots, obj : Object, todo : SUBSET {"in", "out", "down"}]
        /\ event' \in [fd : Slots, obj : Object, todo : SUBSET {"in", "out", "down"}]
    BY <1>3, HandlingEvent DEF HandleWrite
  <2>2. out' \in [Slots -> Seq(Object)]
    <3> DEFINE f == fd[event.obj]
               served == event.obj \in daemon /\ f \in Slots /\ f \in opened
    <3>1. /\ n <= IF served THEN Len(out[f]) ELSE 0
          /\ out' = IF n > 0 THEN [out EXCEPT ![f] = SubSeq(@, n + 1, Len(@))] ELSE out
      BY <1>3 DEF HandleWrite
    <3>2. CASE n > 0
      <4>1. served
        BY <3>1, <3>2
      <4>2. out[f] \in Seq(Object)
        BY <4>1 DEF AnyInv, TypeOK
      <4>3. SubSeq(out[f], n + 1, Len(out[f])) \in Seq(Object)
        BY <4>2
      <4> QED
        BY <3>1, <3>2, <4>1, <4>3 DEF AnyInv, TypeOK
    <3>3. CASE ~(n > 0)
      BY <3>1, <3>3 DEF AnyInv, TypeOK
    <3> QED
      BY <3>2, <3>3
  <2>3. UNCHANGED <<daemon, fd, slot, count, opened, watched, armed, wants_out, orderly>>
    BY <1>3 DEF HandleWrite, epoll
  <2> QED
    BY <2>1, <2>2, <2>3 DEF AnyInv, TypeOK, CountExact, WatchedIsListed
<1>4. CASE HandlePeerDown
  BY <1>4, HandlingEvent DEF HandlePeerDown, AnyInv, TypeOK, CountExact, WatchedIsListed, table, epoll
<1>5. CASE ResetObject
  <2>1. /\ event' = NoEvent
        /\ UNCHANGED <<daemon, fd, slot, out, count, opened, orderly>>
    BY <1>5 DEF ResetObject, table
  <2>2. \/ /\ fd[event.obj] \in watched
           /\ Arm(fd[event.obj], out[fd[event.obj]] # <<>>)
        \/ UNCHANGED <<watched, armed, wants_out>>
    BY <1>5 DEF ResetObject, epoll
  <2>3. /\ watched' = watched
        /\ armed' \in SUBSET watched'
        /\ wants_out' \in SUBSET watched'
    BY <2>2 DEF Arm, AnyInv, TypeOK
  <2> QED
    BY <2>1, <2>3 DEF AnyInv, TypeOK, CountExact, WatchedIsListed
<1> QED
  BY <1>1, <1>2, <1>3, <1>4, <1>5 DEF Loop

(* Init: no object is registered. *)
LEMMA AnyInvInit == Init => AnyInv
<1> SUFFICES ASSUME Init PROVE AnyInv
  OBVIOUS
<1>1. {f \in Slots : slot[f] # None} = {}
  BY DEF Init
<1>2. count = Cardinality({f \in Slots : slot[f] # None})
  BY <1>1, FS_EmptySet DEF Init
<1> QED
  BY <1>2 DEF Init, AnyInv, TypeOK, CountExact, WatchedIsListed

(* Every step keeps the part that holds for all programs. *)
LEMMA AnyInvNext == AnyInv /\ [Next]_vars => AnyInv'
<1> SUFFICES ASSUME AnyInv, [Next]_vars PROVE AnyInv'
  OBVIOUS
<1>1. CASE Loop
  BY <1>1, LoopAnyInv
<1>2. ASSUME NEW o \in Object, UserCall(o) PROVE AnyInv'
  BY <1>2, UserCallAnyInv
<1>3. CASE UNCHANGED vars
  BY <1>3 DEF vars, AnyInv, TypeOK, CountExact, WatchedIsListed
<1> QED
  BY <1>1, <1>2, <1>3 DEF Next

(* Whatever callers do, orderly or not, the daemon's counter is exact and   *)
(* epoll watches no descriptor but a listed one.                            *)
THEOREM DaemonAnyInvariant == Spec => []AnyInv
BY AnyInvInit, AnyInvNext, PTL DEF Spec

(* Every variable keeps its type: no call of any program makes the counter *)
(* negative, or puts into the table or the event what is not an object.    *)
THEOREM DaemonTypeCorrect == Spec => []TypeOK
<1>1. AnyInv => TypeOK
  BY DEF AnyInv
<1> QED
  BY <1>1, DaemonAnyInvariant, PTL

(* run() goes on as long as an object is in the table and stops when none  *)
(* is: the counter is the number of taken slots, whatever callers do.      *)
THEOREM DaemonCountExact == Spec => []CountExact
<1>1. AnyInv => CountExact
  BY DEF AnyInv
<1> QED
  BY <1>1, DaemonAnyInvariant, PTL

(* epoll watches no descriptor whose slot is empty, whatever callers do.   *)
THEOREM DaemonWatchedIsListed == Spec => []WatchedIsListed
<1>1. AnyInv => WatchedIsListed
  BY DEF AnyInv
<1> QED
  BY <1>1, DaemonAnyInvariant, PTL

-----------------------------------------------------------------------------
(* When callers close and write only as the library expects. *)

(* An object's descriptor is open, and no other object has it. *)
FdsOwned ==
  /\ \A o \in Object : fd[o] # NoFd => fd[o] \in opened
  /\ \A o, p \in Object : fd[o] = fd[p] /\ fd[o] # NoFd => o = p

OwnInv ==
  /\ AnyInv
  /\ FdsOwned
  /\ TablesAgree
  /\ ListedAreArmed
  /\ OutputAwaited
  /\ OwnersMatch

(* An object that is not in the table has nothing in any buffer. *)
LEMMA EmptySlotEmptyBuffer ==
  ASSUME OwnInv, NEW f \in Slots, slot[f] = None
  PROVE  out[f] = <<>>
<1>1. out[f] \in Seq(Object)
  BY DEF OwnInv, AnyInv, TypeOK
<1>2. ASSUME out[f] # <<>> PROVE FALSE
  <2>1. 1 \in DOMAIN out[f] /\ out[f][1] \in Object
    BY <1>1, <1>2
  <2> QED
    BY <2>1, NoneAssumption DEF OwnInv, OwnersMatch
<1> QED
  BY <1>2

(* disableObject() always succeeds, and leaves no trace of the object. *)
LEMMA DisableForgets ==
  ASSUME OwnInv, NEW o \in Object, Disable(o)
  PROVE  /\ slot' = [f \in Slots |-> IF slot[f] = o THEN None ELSE slot[f]]
         /\ out' = [f \in Slots |-> IF slot[f] = o THEN <<>> ELSE out[f]]
         /\ \A f \in Slots : f \in watched' <=> f \in watched /\ slot[f] # o
         /\ \A f \in Slots : f \in armed' <=> f \in armed /\ slot[f] # o
         /\ \A f \in Slots : f \in wants_out' <=> f \in wants_out /\ slot[f] # o
<1>1. \A f \in Slots : slot[f] = o => o \in daemon /\ fd[o] = f /\ f \in watched
  BY NoneAssumption DEF OwnInv, TablesAgree
<1>2. slot \in [Slots -> Object \union {None}] /\ out \in [Slots -> Seq(Object)]
  BY DEF OwnInv, AnyInv, TypeOK
<1>3. CASE o \in daemon /\ Listed(o) /\ fd[o] \in watched
  <2>1. fd[o] \in Slots /\ slot[fd[o]] = o
    BY <1>3 DEF Listed
  <2>2. /\ slot' = [slot EXCEPT ![fd[o]] = None]
        /\ out' = [out EXCEPT ![fd[o]] = <<>>]
        /\ Unwatch(fd[o])
    BY <1>3 DEF Disable
  <2> QED
    BY <1>1, <1>2, <2>1, <2>2 DEF Unwatch
<1>4. CASE ~(o \in daemon /\ Listed(o) /\ fd[o] \in watched)
  <2>1. \A f \in Slots : slot[f] # o
    BY <1>1, <1>4 DEF Listed
  <2>2. UNCHANGED <<epoll, table>>
    BY <1>4 DEF Disable
  <2> QED
    BY <1>2, <2>1, <2>2 DEF epoll, table
<1> QED
  BY <1>3, <1>4

(* setFd() takes a descriptor that nobody has. *)
LEMMA SetFdOwnInv ==
  ASSUME OwnInv, NEW o \in Object, SetFd(o), AnyInv'
  PROVE  OwnInv'
<1>1. PICK f \in Fds :
        /\ f \notin opened
        /\ opened' = opened \union {f}
        /\ IF fd[o] = NoFd THEN UNCHANGED <<epoll, table>> ELSE Disable(o)
        /\ fd' = [fd EXCEPT ![o] = f]
        /\ UNCHANGED <<daemon, event>>
  BY DEF SetFd, Lowest
<1>2. fd \in [Object -> Fds \union {NoFd}]
  BY DEF OwnInv, AnyInv, TypeOK
<1>3. FdsOwned'
  BY <1>1, <1>2 DEF OwnInv, FdsOwned
<1>4. \A g \in Slots : slot[g] = o => fd[o] # NoFd
  BY NoneAssumption, LimitAssumption DEF OwnInv, TablesAgree, Slots, NoFd
<1>5. /\ \A g \in Slots : slot'[g] = IF slot[g] = o THEN None ELSE slot[g]
      /\ \A g \in Slots : out'[g] = IF slot[g] = o THEN <<>> ELSE out[g]
      /\ \A g \in Slots : g \in watched' <=> g \in watched /\ slot[g] # o
      /\ \A g \in Slots : g \in armed' <=> g \in armed /\ slot[g] # o
      /\ \A g \in Slots : g \in wants_out' <=> g \in wants_out /\ slot[g] # o
  <2>1. CASE fd[o] = NoFd
    BY <1>1, <1>4, <2>1 DEF epoll, table
  <2>2. CASE fd[o] # NoFd
    BY <1>1, <2>2, DisableForgets DEF OwnInv, AnyInv, TypeOK
  <2> QED
    BY <2>1, <2>2
<1>6. slot \in [Slots -> Object \union {None}]
  BY DEF OwnInv, AnyInv, TypeOK
<1>7. TablesAgree'
  BY <1>1, <1>2, <1>5, <1>6 DEF OwnInv, TablesAgree
<1>8. ListedAreArmed' /\ OutputAwaited'
  BY <1>1, <1>5, <1>6 DEF OwnInv, ListedAreArmed, OutputAwaited, BeingHandled
<1>9. OwnersMatch'
  BY <1>1, <1>5, <1>6 DEF OwnInv, OwnersMatch
<1> QED
  BY <1>3, <1>7, <1>8, <1>9 DEF OwnInv

(* An object that is being forgotten leaves the others alone. *)
LEMMA DisableOwnInv ==
  ASSUME OwnInv, NEW o \in Object, Disable(o), AnyInv',
         UNCHANGED <<fd, opened, event>>,
         daemon' = daemon \/ daemon' = daemon \ {o}
  PROVE  OwnInv'
<1>1. /\ \A g \in Slots : slot'[g] = IF slot[g] = o THEN None ELSE slot[g]
      /\ \A g \in Slots : out'[g] = IF slot[g] = o THEN <<>> ELSE out[g]
      /\ \A g \in Slots : g \in watched' <=> g \in watched /\ slot[g] # o
      /\ \A g \in Slots : g \in armed' <=> g \in armed /\ slot[g] # o
      /\ \A g \in Slots : g \in wants_out' <=> g \in wants_out /\ slot[g] # o
  BY DisableForgets
<1>2. FdsOwned'
  BY DEF OwnInv, FdsOwned
<1>3. TablesAgree'
  BY <1>1 DEF OwnInv, TablesAgree
<1>4. ListedAreArmed' /\ OutputAwaited'
  BY <1>1 DEF OwnInv, ListedAreArmed, OutputAwaited, BeingHandled
<1>5. OwnersMatch'
  BY <1>1 DEF OwnInv, OwnersMatch
<1> QED
  BY <1>2, <1>3, <1>4, <1>5 DEF OwnInv

(* enable() lists an object with the descriptor that it owns. *)
LEMMA EnableOwnInv ==
  ASSUME OwnInv, NEW o \in Object, Enable(o), AnyInv',
         UNCHANGED <<fd, opened, event>>, daemon' = daemon \union {o}
  PROVE  OwnInv'
<1>1. FdsOwned'
  BY DEF OwnInv, FdsOwned
<1>2. CASE fd[o] \in Slots /\ slot[fd[o]] = None /\ fd[o] \in opened
  <2>1. /\ Arm(fd[o], out[fd[o]] # <<>>)
        /\ slot' = [slot EXCEPT ![fd[o]] = o]
        /\ out' = out
    BY <1>2 DEF Enable
  <2>2. out[fd[o]] = <<>>
    BY <1>2, EmptySlotEmptyBuffer
  <2>3. slot \in [Slots -> Object \union {None}] /\ watched \in SUBSET Slots
    BY DEF OwnInv, AnyInv, TypeOK
  <2>4. TablesAgree'
    BY <1>2, <2>1, <2>3 DEF OwnInv, TablesAgree, Arm
  <2>5. ListedAreArmed'
    BY <1>2, <2>1, <2>3 DEF OwnInv, ListedAreArmed, BeingHandled, Arm
  <2>6. OutputAwaited'
    BY <1>2, <2>1, <2>2, <2>3 DEF OwnInv, OutputAwaited, BeingHandled, Arm
  <2>7. OwnersMatch'
    BY <1>2, <2>1, <2>2, <2>3 DEF OwnInv, OwnersMatch
  <2> QED
    BY <1>1, <2>4, <2>5, <2>6, <2>7 DEF OwnInv
<1>3. CASE ~(fd[o] \in Slots /\ slot[fd[o]] = None /\ fd[o] \in opened)
  <2>1. UNCHANGED <<watched, armed, wants_out, slot, out, count>>
    BY <1>3 DEF Enable, epoll, table
  <2>2. TablesAgree'
    BY <2>1 DEF OwnInv, TablesAgree
  <2>3. ListedAreArmed' /\ OutputAwaited'
    BY <2>1 DEF OwnInv, ListedAreArmed, OutputAwaited, BeingHandled
  <2>4. OwnersMatch'
    BY <2>1 DEF OwnInv, OwnersMatch
  <2> QED
    BY <1>1, <2>2, <2>3, <2>4 DEF OwnInv
<1> QED
  BY <1>2, <1>3

(* An orderly close() is of an object that is not listed. *)
LEMMA CloseOwnInv ==
  ASSUME OwnInv, orderly', NEW o \in Object, Close(o), AnyInv'
  PROVE  OwnInv'
<1>1. /\ ~Listed(o) /\ fd[o] # NoFd
      /\ opened' = opened \ {fd[o]}
      /\ Unwatch(fd[o])
      /\ fd' = [fd EXCEPT ![o] = NoFd]
      /\ UNCHANGED <<daemon, slot, out, count, event>>
  BY DEF Close, table
<1>2. /\ fd \in [Object -> Fds \union {NoFd}]
      /\ slot \in [Slots -> Object \union {None}]
  BY DEF OwnInv, AnyInv, TypeOK
<1>3. FdsOwned'
  BY <1>1, <1>2 DEF OwnInv, FdsOwned
<1>4. \A f \in Slots : slot[f] # None => slot[f] # o /\ f # fd[o]
  <2> SUFFICES ASSUME NEW f \in Slots, slot[f] # None PROVE slot[f] # o /\ f # fd[o]
    OBVIOUS
  <2>1. slot[f] \in Object /\ fd[slot[f]] = f
    BY <1>2 DEF OwnInv, TablesAgree
  <2>2. slot[f] # o
    BY <1>1, <2>1 DEF Listed
  <2> QED
    BY <1>1, <2>1, <2>2 DEF OwnInv, FdsOwned
<1>5. TablesAgree'
  BY <1>1, <1>2, <1>4 DEF OwnInv, TablesAgree, Unwatch
<1>6. ListedAreArmed' /\ OutputAwaited'
  BY <1>1, <1>4 DEF OwnInv, ListedAreArmed, OutputAwaited, BeingHandled, Unwatch
<1>7. OwnersMatch'
  BY <1>1 DEF OwnInv, OwnersMatch
<1> QED
  BY <1>3, <1>5, <1>6, <1>7 DEF OwnInv

(* Output is put behind a descriptor that epoll watches. *)
LEMMA PutOwnInv ==
  ASSUME OwnInv, orderly', NEW o \in Object, PutInBuffer(o), AnyInv'
  PROVE  OwnInv'
<1>1. /\ fd[o] \in Slots /\ slot[fd[o]] = o /\ fd[o] \in watched
      /\ out' = [out EXCEPT ![fd[o]] = Append(@, o)]
      /\ UNCHANGED <<daemon, fd, slot, count, opened, event>>
  BY ListedIsTaken DEF PutInBuffer, OwnInv, TablesAgree, Listed
<1>2. Arm(fd[o], TRUE)
  BY <1>1 DEF PutInBuffer, Listed
<1>3. /\ slot \in [Slots -> Object \union {None}]
      /\ out \in [Slots -> Seq(Object)]
      /\ watched \in SUBSET Slots
  BY DEF OwnInv, AnyInv, TypeOK
<1>4. FdsOwned'
  BY <1>1 DEF OwnInv, FdsOwned
<1>5. TablesAgree'
  BY <1>1, <1>2 DEF OwnInv, TablesAgree, Arm
<1>6. ListedAreArmed'
  BY <1>1, <1>2 DEF OwnInv, ListedAreArmed, BeingHandled, Arm
<1>7. OutputAwaited'
  <2>1. \A f \in Slots : f # fd[o] => out'[f] = out[f]
    BY <1>1, <1>3
  <2> QED
    BY <1>1, <1>2, <2>1 DEF OwnInv, OutputAwaited, BeingHandled, Arm
<1>8. OwnersMatch'
  <2> SUFFICES ASSUME NEW f \in Slots, NEW i \in DOMAIN out'[f]
               PROVE  slot'[f] = out'[f][i]
    BY DEF OwnersMatch
  <2>1. CASE f = fd[o]
    <3>1. out'[f] = Append(out[f], o) /\ out[f] \in Seq(Object)
      BY <1>1, <1>3, <2>1
    <3>2. i = Len(out[f]) + 1 \/ i \in DOMAIN out[f]
      BY <3>1
    <3> QED
      BY <1>1, <2>1, <3>1, <3>2 DEF OwnInv, OwnersMatch
  <2>2. CASE f # fd[o]
    BY <1>1, <1>3, <2>2 DEF OwnInv, OwnersMatch
  <2> QED
    BY <2>1, <2>2
<1> QED
  BY <1>4, <1>5, <1>6, <1>7, <1>8 DEF OwnInv

(* Whatever an orderly program calls keeps it. *)
LEMMA UserCallOwnInv ==
  ASSUME OwnInv, orderly', NEW o \in Object, UserCall(o)
  PROVE  OwnInv'
<1>1. AnyInv'
  BY UserCallAnyInv DEF OwnInv
<1>2. CASE SetFd(o)
  BY <1>1, <1>2, SetFdOwnInv
<1>3. ASSUME NEW enabled \in BOOLEAN, AddObject(o, enabled) PROVE OwnInv'
  <2>1. CASE enabled
    BY <1>1, <1>3, <2>1, EnableOwnInv DEF AddObject
  <2>2. CASE ~enabled
    <3>1. /\ daemon' = daemon \union {o}
          /\ UNCHANGED <<fd, slot, out, count, opened, watched, armed, wants_out, event>>
      BY <1>3, <2>2 DEF AddObject, epoll, table
    <3> QED
      BY <1>1, <3>1 DEF OwnInv, FdsOwned, TablesAgree, ListedAreArmed, OutputAwaited,
                        OwnersMatch, BeingHandled
  <2> QED
    BY <2>1, <2>2
<1>4. CASE EnableObject(o)
  <2>1. daemon' = daemon \union {o}
    BY <1>4 DEF EnableObject
  <2> QED
    BY <1>1, <1>4, <2>1, EnableOwnInv DEF EnableObject
<1>5. CASE DisableObject(o)
  BY <1>1, <1>5, DisableOwnInv DEF DisableObject
<1>6. CASE RemoveObject(o)
  BY <1>1, <1>6, DisableOwnInv DEF RemoveObject
<1>7. CASE Close(o)
  BY <1>1, <1>7, CloseOwnInv
<1>8. CASE PutInBuffer(o)
  BY <1>1, <1>8, PutOwnInv
<1> QED
  BY <1>2, <1>3, <1>4, <1>5, <1>6, <1>7, <1>8 DEF UserCall

(* The steps of the loop keep it. *)
LEMMA LoopOwnInv ==
  ASSUME OwnInv, Loop
  PROVE  OwnInv'
<1>1. AnyInv'
  BY LoopAnyInv DEF OwnInv
<1>2. /\ slot \in [Slots -> Object \union {None}]
      /\ out \in [Slots -> Seq(Object)]
      /\ watched \in SUBSET Slots
  BY DEF OwnInv, AnyInv, TypeOK
<1>3. ASSUME NEW f \in Slots, Wait(f) PROVE OwnInv'
  <2>1. /\ event = NoEvent /\ armed' = armed \ {f} /\ f \in armed
        /\ UNCHANGED <<daemon, fd, slot, out, count, opened, watched, wants_out>>
    BY <1>3 DEF Wait, table
  <2>2. slot[f] # None
    BY <2>1 DEF OwnInv, AnyInv, TypeOK, WatchedIsListed
  <2>3. event'.fd = f /\ event'.obj = slot[f]
    BY <1>3, <2>2 DEF Wait
  <2>4. \A g \in Slots : ~BeingHandled(g)
    BY <2>1 DEF BeingHandled, NoEvent, NoFd, Slots
  <2>5. ListedAreArmed' /\ OutputAwaited'
    BY <2>1, <2>3, <2>4 DEF OwnInv, ListedAreArmed, OutputAwaited, BeingHandled
  <2> QED
    BY <1>1, <2>1, <2>5 DEF OwnInv, FdsOwned, TablesAgree, OwnersMatch
<1>4. ASSUME NEW kind \in {"in", "out", "down"}, Handling(kind)
      PROVE  event'.fd = event.fd /\ event'.obj = event.obj
  BY <1>4, HandlingEvent DEF OwnInv
<1>5. CASE HandleRead \/ HandlePeerDown
  <2>1. event'.fd = event.fd /\ event'.obj = event.obj
    BY <1>4, <1>5 DEF HandleRead, HandlePeerDown
  <2>2. UNCHANGED <<daemon, fd, slot, out, count, opened, watched, armed, wants_out>>
    BY <1>5 DEF HandleRead, HandlePeerDown, epoll, table
  <2> QED
    BY <1>1, <2>1, <2>2 DEF OwnInv, FdsOwned, TablesAgree, ListedAreArmed, OutputAwaited,
                            OwnersMatch, BeingHandled
<1>6. ASSUME NEW n \in 0..MaxOut, HandleWrite(n) PROVE OwnInv'
  <2>1. event'.fd = event.fd /\ event'.obj = event.obj
    BY <1>4, <1>6 DEF HandleWrite
  <2>2. UNCHANGED <<daemon, fd, slot, count, opened, watched, armed, wants_out>>
    BY <1>6 DEF HandleWrite, epoll
  <2>3. ASSUME NEW g \in Slots
        PROVE  /\ out'[g] # <<>> => out[g] # <<>>
               /\ \A i \in DOMAIN out'[g] : \E j \in DOMAIN out[g] : out'[g][i] = out[g][j]
    <3> DEFINE f == fd[event.obj]
               served == event.obj \in daemon /\ f \in Slots /\ f \in opened
    <3>1. /\ n <= IF served THEN Len(out[f]) ELSE 0
          /\ out' = IF n > 0 THEN [out EXCEPT ![f] = SubSeq(@, n + 1, Len(@))] ELSE out
      BY <1>6 DEF HandleWrite
    <3>2. CASE n > 0 /\ g = f
      <4>1. out[g] \in Seq(Object) /\ n \in Nat
        BY <1>2, <3>2
      <4>2. out'[g] = SubSeq(out[g], n + 1, Len(out[g]))
        BY <1>2, <3>1, <3>2
      <4>3. \A i \in DOMAIN out'[g] : i + n \in DOMAIN out[g] /\ out'[g][i] = out[g][i + n]
        BY <4>1, <4>2
      <4>4. out'[g] # <<>> => out[g] # <<>>
        BY <4>1, <4>2
      <4> QED
        BY <4>3, <4>4
    <3>3. CASE ~(n > 0 /\ g = f)
      BY <1>2, <3>1, <3>3
    <3> QED
      BY <3>2, <3>3
  <2>4. OwnersMatch'
    BY <2>2, <2>3 DEF OwnInv, OwnersMatch
  <2>5. OutputAwaited'
    BY <2>1, <2>2, <2>3 DEF OwnInv, OutputAwaited, BeingHandled
  <2> QED
    BY <1>1, <2>1, <2>2, <2>4, <2>5 DEF OwnInv, FdsOwned, TablesAgree, ListedAreArmed, BeingHandled
<1>7. CASE ResetObject
  <2> DEFINE o == event.obj
  <2>1. /\ event \in [fd : Slots, obj : Object, todo : SUBSET {"in", "out", "down"}]
        /\ event' = NoEvent
        /\ UNCHANGED <<daemon, fd, slot, out, count, opened>>
    BY <1>7 DEF ResetObject, OwnInv, AnyInv, TypeOK, table
  <2>2. CASE slot[event.fd] = o
    <3>1. fd[o] = event.fd /\ event.fd \in watched
      BY <2>1, <2>2, NoneAssumption DEF OwnInv, TablesAgree
    <3>2. Arm(event.fd, out[event.fd] # <<>>)
      BY <1>7, <2>2, <3>1 DEF ResetObject
    <3>3. TablesAgree'
      BY <2>1, <3>2 DEF OwnInv, TablesAgree, Arm
    <3>4. ListedAreArmed'
      BY <2>1, <3>2 DEF OwnInv, ListedAreArmed, BeingHandled, Arm
    <3>5. OutputAwaited'
      BY <2>1, <3>2 DEF OwnInv, OutputAwaited, BeingHandled, Arm
    <3> QED
      BY <1>1, <2>1, <3>3, <3>4, <3>5 DEF OwnInv, FdsOwned, OwnersMatch
  <2>3. CASE slot[event.fd] # o
    <3>1. UNCHANGED <<watched, armed, wants_out>>
      BY <1>7, <2>3 DEF ResetObject, epoll
    <3>2. \A f \in Slots : ~BeingHandled(f)
      BY <2>3 DEF BeingHandled
    <3>3. ListedAreArmed' /\ OutputAwaited'
      BY <2>1, <3>1, <3>2 DEF OwnInv, ListedAreArmed, OutputAwaited
    <3> QED
      BY <1>1, <2>1, <3>1, <3>3 DEF OwnInv, FdsOwned, TablesAgree, OwnersMatch
  <2> QED
    BY <2>2, <2>3
<1> QED
  BY <1>3, <1>5, <1>6, <1>7 DEF Loop

(* Init: nobody owns a descriptor. *)
LEMMA OwnInvInit == Init => OwnInv
<1> SUFFICES ASSUME Init PROVE OwnInv
  OBVIOUS
<1>1. AnyInv
  BY AnyInvInit
<1>2. \A f \in Slots : slot[f] = None /\ out[f] = <<>>
  BY DEF Init
<1>3. \A o \in Object : fd[o] = NoFd
  BY DEF Init
<1> QED
  BY <1>1, <1>2, <1>3 DEF OwnInv, FdsOwned, TablesAgree, ListedAreArmed, OutputAwaited, OwnersMatch

(* Whoever was not orderly once is not orderly again. *)
LEMMA OnceOrderly ==
  ASSUME [Next]_vars, orderly'
  PROVE  orderly
<1>1. CASE Loop
  BY <1>1 DEF Loop, Wait, HandleRead, HandleWrite, HandlePeerDown, ResetObject
<1>2. ASSUME NEW o \in Object, UserCall(o) PROVE orderly
  BY <1>2 DEF UserCall, SetFd, AddObject, EnableObject, DisableObject, RemoveObject,
              Close, PutInBuffer
<1>3. CASE UNCHANGED vars
  BY <1>3 DEF vars
<1> QED
  BY <1>1, <1>2, <1>3 DEF Next

DaemonInv == AnyInv /\ (orderly => OwnInv)

(* Every step keeps the invariant. *)
LEMMA DaemonInvNext == DaemonInv /\ [Next]_vars => DaemonInv'
<1> SUFFICES ASSUME AnyInv, orderly => OwnInv, [Next]_vars, orderly'
             PROVE  OwnInv'
  BY AnyInvNext DEF DaemonInv
<1>1. OwnInv
  BY OnceOrderly
<1>2. CASE Loop
  BY <1>1, <1>2, LoopOwnInv
<1>3. ASSUME NEW o \in Object, UserCall(o) PROVE OwnInv'
  BY <1>1, <1>3, UserCallOwnInv
<1>4. CASE UNCHANGED vars
  <2>1. AnyInv'
    BY AnyInvNext
  <2> QED
    BY <1>1, <1>4, <2>1 DEF vars, OwnInv, FdsOwned, TablesAgree, ListedAreArmed,
                            OutputAwaited, OwnersMatch, BeingHandled
<1> QED
  BY <1>2, <1>3, <1>4 DEF Next

(* Registry, epoll set and queues of NetDaemon agree, while callers are orderly. *)
THEOREM DaemonOrderlyInvariant == Spec => []DaemonInv
<1>1. Init => DaemonInv
  BY AnyInvInit, OwnInvInit DEF DaemonInv
<1> QED
  BY <1>1, DaemonInvNext, PTL DEF Spec

(* The daemon's table, the objects' descriptors and epoll's interest list  *)
(* never contradict each other, for any number of objects and descriptors, *)
(* until a caller closes a listed object or writes for an unlisted one.    *)
THEOREM DaemonViewsAgree == Spec => []ViewsAgree
<1>1. DaemonInv => ViewsAgree
  BY DEF DaemonInv, OwnInv, ViewsAgree
<1> QED
  BY <1>1, DaemonOrderlyInvariant, PTL

(* Every registered object is armed in epoll, except while its own event   *)
(* is being handled: EPOLLONESHOT never leaves one behind.                 *)
THEOREM DaemonNobodyDeaf == Spec => []NobodyDeaf
<1>1. DaemonInv => NobodyDeaf
  BY DEF DaemonInv, OwnInv, NobodyDeaf
<1> QED
  BY <1>1, DaemonOrderlyInvariant, PTL

(* Bytes that wait in a buffer are waited for with EPOLLOUT. *)
THEOREM DaemonOutputWatched == Spec => []OutputWatched
<1>1. DaemonInv => OutputWatched
  BY DEF DaemonInv, OwnInv, OutputWatched
<1> QED
  BY <1>1, DaemonOrderlyInvariant, PTL

(* No connection sends what another one left in the descriptor's buffer.   *)
THEOREM DaemonOutputIsOwn == Spec => []OutputIsOwn
<1>1. DaemonInv => OutputIsOwn
  BY DEF DaemonInv, OwnInv, OutputIsOwn
<1> QED
  BY <1>1, DaemonOrderlyInvariant, PTL

(* All of it together, for any number of objects and descriptors: a        *)
(* registered object hears of its events, its bytes go out, and they are   *)
(* its own.                                                                *)
THEOREM DaemonObjectsServed == Spec => []ObjectsServed
<1>1. NobodyDeaf /\ OutputWatched /\ OutputIsOwn => ObjectsServed
  BY DEF ObjectsServed
<1> QED
  BY <1>1, DaemonNobodyDeaf, DaemonOutputWatched, DaemonOutputIsOwn, PTL
=============================================================================
