----------------------------- MODULE NetDaemon -----------------------------
(***************************************************************************)
(* The single-threaded event loop of libnano2 (nanosoft/netdaemon.cpp,     *)
(* asyncobject.cpp, asyncstream.cpp): objects that own a descriptor, the   *)
(* daemon's table of descriptors, the kernel's table of open descriptors   *)
(* and epoll's interest list, three views of "who is served" that no lock  *)
(* and no transaction keeps together.  One step is one call of the         *)
(* library; a handler or a timer callback is any sequence of such calls.   *)
(* Buffers are sequences of packets here; OutputBuffers has their blocks.  *)
(***************************************************************************)
EXTENDS Integers, Sequences, FiniteSets

CONSTANTS
  Object,      \* the AsyncStream objects
  NumFds,      \* bound: the descriptors the kernel can give, 0..NumFds-1
  limit,       \* NetDaemon::limit, the size of fds[]
  MaxOut,      \* bound: the packets that the pool and the quota let a buffer hold
  None         \* the NULL object

ASSUME LimitAssumption == limit \in Nat /\ NumFds \in Nat
ASSUME NoneAssumption == None \notin Object

NoFd == -1
Fds == 0..NumFds - 1
Slots == 0..limit - 1

VARIABLES
  daemon,      \* the objects whose "daemon" is this one
  fd,          \* AsyncObject::fd
  slot,        \* fds[].obj
  out,         \* fds[]'s buffer: who put each packet
  count,       \* NetDaemon::count
  opened,      \* kernel: the open descriptors
  watched,     \* epoll: the descriptors of its interest list
  armed,       \* epoll: those whose EPOLLONESHOT has not been spent
  wants_out,   \* epoll: those whose mask has EPOLLOUT
  event,       \* the event in doActiveAction(), or None
  orderly      \* history: callers did nothing the library does not expect

epoll == <<watched, armed, wants_out>>
table == <<slot, out, count>>
vars == <<daemon, fd, slot, out, count, opened, watched, armed, wants_out, event, orderly>>

NoEvent == [fd |-> NoFd, obj |-> None, todo |-> {}]

-----------------------------------------------------------------------------

Init ==
  /\ daemon = {}
  /\ fd = [o \in Object |-> NoFd]
  /\ slot = [f \in Slots |-> None]
  /\ out = [f \in Slots |-> <<>>]
  /\ count = 0
  /\ opened = {}
  /\ watched = {}
  /\ armed = {}
  /\ wants_out = {}
  /\ event = NoEvent
  /\ orderly = TRUE

Listed(o) == fd[o] \in Slots /\ slot[fd[o]] = o

(* socket() and accept() return the lowest descriptor that is not open. *)
Lowest(f) == f \in Fds \ opened /\ \A g \in Fds : g < f => g \in opened

(* The kernel drops a closed descriptor from epoll's list by itself. *)
Unwatch(f) ==
  /\ watched' = watched \ {f}
  /\ armed' = armed \ {f}
  /\ wants_out' = wants_out \ {f}

(* epoll_ctl(EPOLL_CTL_ADD or MOD) with the object's mask, and EPOLLOUT if *)
(* bytes wait: the descriptor is armed anew.                               *)
Arm(f, bytes_wait) ==
  /\ watched' = watched \union {f}
  /\ armed' = armed \union {f}
  /\ wants_out' = IF bytes_wait THEN wants_out \union {f} ELSE wants_out \ {f}

(* disableObject(o) answers TRUE when the object is not in epoll any more. *)
CanDisable(o) ==
  /\ o \in daemon
  /\ fd[o] \in Slots
  /\ slot[fd[o]] = None \/ (Listed(o) /\ fd[o] \in watched)

(* Mutant of Disable: the buffer is not cleaned up. *)
DisableKeepsOutput(o) ==
  IF o \in daemon /\ Listed(o) /\ fd[o] \in watched
    THEN /\ Unwatch(fd[o])
         /\ slot' = [slot EXCEPT ![fd[o]] = None]
         /\ count' = count - 1
         /\ UNCHANGED out
    ELSE UNCHANGED <<epoll, table>>

(* Mutant of Disable: the object is uncounted though epoll_ctl() failed. *)
DisableCountsFirst(o) ==
  IF o \in daemon /\ Listed(o)
    THEN /\ count' = count - 1
         /\ IF fd[o] \in watched
              THEN /\ Unwatch(fd[o])
                   /\ slot' = [slot EXCEPT ![fd[o]] = None]
                   /\ out' = [out EXCEPT ![fd[o]] = <<>>]
              ELSE UNCHANGED <<epoll, slot, out>>
    ELSE UNCHANGED <<epoll, table>>

(* What disableObject(o) does.  epoll_ctl(EPOLL_CTL_DEL) fails for a       *)
(* descriptor that is not watched, and then nothing changes.               *)
Disable(o) ==
  IF o \in daemon /\ Listed(o) /\ fd[o] \in watched
    THEN /\ Unwatch(fd[o])
         /\ slot' = [slot EXCEPT ![fd[o]] = None]
         /\ out' = [out EXCEPT ![fd[o]] = <<>>]
         /\ count' = count - 1
    ELSE UNCHANGED <<epoll, table>>

(* What enableObject(o) does, for an object of this daemon. *)
Enable(o) ==
  IF fd[o] \in Slots /\ slot[fd[o]] = None /\ fd[o] \in opened
    THEN /\ Arm(fd[o], out[fd[o]] # <<>>)
         /\ slot' = [slot EXCEPT ![fd[o]] = o]
         /\ count' = count + 1
         /\ UNCHANGED out
    ELSE UNCHANGED <<epoll, table>>

-----------------------------------------------------------------------------
(* The calls that handlers, timers and the program's start make. *)

(* Mutant of SetFd: the object is not deactivated first. *)
SetFdOnly(o) ==
  \E f \in Fds :
    /\ Lowest(f)
    /\ opened' = opened \union {f}
    /\ fd' = [fd EXCEPT ![o] = f]
    /\ UNCHANGED <<daemon, epoll, table, event, orderly>>

(* socket() or accept(), and setFd() with the descriptor it returned. *)
SetFd(o) ==
  \E f \in Fds :
    /\ Lowest(f)
    /\ opened' = opened \union {f}
    /\ IF fd[o] = NoFd THEN UNCHANGED <<epoll, table>> ELSE Disable(o)
    /\ fd' = [fd EXCEPT ![o] = f]
    /\ UNCHANGED <<daemon, event, orderly>>

(* addObject(o, enabled): setDaemon(), which also counts a reference.  An  *)
(* object that is not this daemon's is in no slot of it.                   *)
AddObject(o, enabled) ==
  /\ daemon' = daemon \union {o}
  /\ IF enabled THEN Enable(o) ELSE UNCHANGED <<epoll, table>>
  /\ UNCHANGED <<fd, opened, event, orderly>>

EnableObject(o) ==
  /\ o \in daemon
  /\ Enable(o)
  /\ UNCHANGED <<daemon, fd, opened, event, orderly>>

DisableObject(o) ==
  /\ Disable(o)
  /\ UNCHANGED <<daemon, fd, opened, event, orderly>>

(* removeObject(o), which leaveDaemon() calls. *)
RemoveObject(o) ==
  /\ o \in daemon
  /\ Disable(o)
  /\ daemon' = IF CanDisable(o) THEN daemon \ {o} ELSE daemon
  /\ UNCHANGED <<fd, opened, event, orderly>>

(* AsyncStream::close(): ::close() first, so that the disableObject() of   *)
(* setFd(-1) finds the descriptor gone from epoll, and gives up.  Callers  *)
(* should have disabled the object before.                                 *)
Close(o) ==
  /\ fd[o] # NoFd
  /\ orderly' = (orderly /\ ~Listed(o))
  /\ opened' = opened \ {fd[o]}
  /\ Unwatch(fd[o])
  /\ fd' = [fd EXCEPT ![o] = NoFd]
  /\ UNCHANGED <<daemon, table, event>>

(* Mutant of PutInBuffer: the mask is not modified. *)
PutWithoutModify(o) ==
  /\ o \in daemon
  /\ orderly' = (orderly /\ Listed(o))
  /\ fd[o] \in Slots
  /\ Len(out[fd[o]]) < MaxOut
  /\ out' = [out EXCEPT ![fd[o]] = Append(@, o)]
  /\ UNCHANGED <<daemon, fd, slot, count, opened, epoll, event>>

(* putInBuffer(): put(), then modifyObject(), whose answer is ignored, so  *)
(* that bytes put for an object that is not in fds[] wait for whoever is   *)
(* enabled there next.                                                     *)
PutInBuffer(o) ==
  /\ o \in daemon
  /\ orderly' = (orderly /\ Listed(o))
  /\ fd[o] \in Slots
  /\ Len(out[fd[o]]) < MaxOut
  /\ out' = [out EXCEPT ![fd[o]] = Append(@, o)]
  /\ IF Listed(o) /\ fd[o] \in watched THEN Arm(fd[o], TRUE) ELSE UNCHANGED epoll
  /\ UNCHANGED <<daemon, fd, slot, count, opened, event>>

-----------------------------------------------------------------------------
(* The loop. *)

(* epoll_wait(), one event at a time: "in", "out" and "down" stand for     *)
(* EPOLLIN, EPOLLOUT and EPOLLRDHUP/EPOLLHUP.  EPOLLERR is "down" alone.   *)
Wait(f) ==
  /\ event = NoEvent
  /\ count > 0
  /\ f \in armed
  /\ armed' = armed \ {f}
  /\ \E todo \in SUBSET {"in", "out", "down"} \ {{}} :
       /\ "out" \in todo => f \in wants_out
       /\ event' = IF slot[f] = None THEN NoEvent
                   ELSE [fd |-> f, obj |-> slot[f], todo |-> todo]
  /\ UNCHANGED <<daemon, fd, table, opened, watched, wants_out, orderly>>

(* onEvent() calls handleRead(), handleWrite() and handlePeerDown() in     *)
(* this order, each if its event was reported.                             *)
Precedes == [in |-> {}, out |-> {"in"}, down |-> {"in", "out"}]

Handling(kind) ==
  /\ kind \in event.todo
  /\ event.todo \intersect Precedes[kind] = {}
  /\ event' = [event EXCEPT !.todo = @ \ {kind}]

(* onRead() and onPeerDown() are the calls above, before or after this. *)
HandleRead ==
  /\ Handling("in")
  /\ UNCHANGED <<daemon, fd, table, opened, epoll, orderly>>

HandlePeerDown ==
  /\ Handling("down")
  /\ UNCHANGED <<daemon, fd, table, opened, epoll, orderly>>

(* handleWrite() pushes from the buffer of the descriptor that the object  *)
(* has now; the kernel takes the first n packets.                          *)
HandleWrite(n) ==
  /\ Handling("out")
  /\ LET f == fd[event.obj]
         served == event.obj \in daemon /\ f \in Slots /\ f \in opened
     IN  /\ n <= IF served THEN Len(out[f]) ELSE 0
         /\ out' = IF n > 0 THEN [out EXCEPT ![f] = SubSeq(@, n + 1, Len(@))] ELSE out
  /\ UNCHANGED <<daemon, fd, slot, count, opened, epoll, orderly>>

(* Mutant of ResetObject: only a descriptor with bytes to send is armed. *)
ResetIfOutput ==
  LET o == event.obj
  IN  /\ event # NoEvent /\ event.todo = {}
      /\ event' = NoEvent
      /\ IF slot[event.fd] = o /\ fd[o] \in watched /\ out[fd[o]] # <<>>
           THEN Arm(fd[o], TRUE)
           ELSE UNCHANGED epoll
      /\ UNCHANGED <<daemon, fd, table, opened, orderly>>

(* Mutant of ResetObject: EPOLLOUT is not asked for again. *)
ResetWithoutOut ==
  LET o == event.obj
  IN  /\ event # NoEvent /\ event.todo = {}
      /\ event' = NoEvent
      /\ IF slot[event.fd] = o /\ fd[o] \in watched
           THEN Arm(fd[o], FALSE)
           ELSE UNCHANGED epoll
      /\ UNCHANGED <<daemon, fd, table, opened, orderly>>

(* After onEvent(): resetObject() arms the object's descriptor again, if   *)
(* the object still stands in the slot of the event's descriptor.          *)
ResetObject ==
  LET o == event.obj
  IN  /\ event # NoEvent /\ event.todo = {}
      /\ event' = NoEvent
      /\ IF slot[event.fd] = o /\ fd[o] \in watched
           THEN Arm(fd[o], out[fd[o]] # <<>>)
           ELSE UNCHANGED epoll
      /\ UNCHANGED <<daemon, fd, table, opened, orderly>>

UserCall(o) ==
  \/ SetFd(o)
  \/ \E enabled \in BOOLEAN : AddObject(o, enabled)
  \/ EnableObject(o)
  \/ DisableObject(o)
  \/ RemoveObject(o)
  \/ Close(o)
  \/ PutInBuffer(o)

Loop ==
  \/ \E f \in Slots : Wait(f)
  \/ HandleRead
  \/ \E n \in 0..MaxOut : HandleWrite(n)
  \/ HandlePeerDown
  \/ ResetObject

Next == Loop \/ \E o \in Object : UserCall(o)

Spec == Init /\ [][Next]_vars

-----------------------------------------------------------------------------

TypeOK ==
  /\ daemon \in SUBSET Object
  /\ fd \in [Object -> Fds \union {NoFd}]
  /\ slot \in [Slots -> Object \union {None}]
  /\ out \in [Slots -> Seq(Object)]
  /\ count \in Nat
  /\ opened \in SUBSET Fds
  /\ watched \in SUBSET Slots
  /\ armed \in SUBSET watched
  /\ wants_out \in SUBSET watched
  /\ event = NoEvent \/ event \in [fd : Slots, obj : Object, todo : SUBSET {"in", "out", "down"}]
  /\ orderly \in BOOLEAN

(* run() stops when count is 0: the counter must not drift from the table, *)
(* whatever callers do.                                                    *)
CountExact == count = Cardinality({f \in Slots : slot[f] # None})

(* An event always finds its object: epoll watches nothing that the table  *)
(* has forgotten, whatever callers do.                                     *)
WatchedIsListed == \A f \in watched : slot[f] # None

(* What holds whatever callers do: the loop neither stops too early nor    *)
(* runs for ever, and has an object for every event.                       *)
AnyInv == TypeOK /\ CountExact /\ WatchedIsListed

TablesAgree ==
  \A f \in Slots : slot[f] # None =>
    /\ slot[f] \in daemon
    /\ fd[slot[f]] = f
    /\ f \in opened
    /\ f \in watched

(* While callers are orderly, the three views agree: the object in a slot  *)
(* is this daemon's, has the slot's descriptor, and the descriptor is open *)
(* and watched.                                                            *)
ViewsAgree == orderly => TablesAgree

BeingHandled(f) == event.fd = f /\ event.obj = slot[f]

ListedAreArmed ==
  \A f \in Slots : slot[f] # None /\ ~BeingHandled(f) => f \in armed

(* No registered object goes deaf: EPOLLONESHOT is renewed after each      *)
(* event, whatever the handler does to its own object and to others.       *)
NobodyDeaf == orderly => ListedAreArmed

OutputAwaited ==
  \A f \in Slots :
    slot[f] # None /\ out[f] # <<>> /\ ~BeingHandled(f) => f \in wants_out

(* Bytes that wait for an object are waited for with EPOLLOUT. *)
OutputWatched == orderly => OutputAwaited

OwnersMatch ==
  \A f \in Slots : \A i \in DOMAIN out[f] : slot[f] = out[f][i]

(* What waits in a buffer was put there by the object of the slot; it is   *)
(* not left over from another connection that had the same descriptor.     *)
OutputIsOwn == orderly => OwnersMatch

(* What a registered object is promised: it hears of its events, what it   *)
(* puts goes out, and nothing of another object's goes out in its name.    *)
ObjectsServed == NobodyDeaf /\ OutputWatched /\ OutputIsOwn

-----------------------------------------------------------------------------
(* epoll_wait() serves every ready descriptor in turn, handlers return,    *)
(* and a socket that is writable time and again takes bytes time and again.*)

WriteSome(f) ==
  /\ "out" \in event.todo /\ fd[event.obj] = f
  /\ \E n \in 1..MaxOut : HandleWrite(n)

Fairness ==
  /\ WF_vars(HandleRead)
  /\ WF_vars(\E n \in 0..MaxOut : HandleWrite(n))
  /\ WF_vars(HandlePeerDown)
  /\ WF_vars(ResetObject)
  /\ \A f \in Slots : /\ SF_vars(Wait(f) /\ "out" \in event'.todo)
                      /\ SF_vars(WriteSome(f))

LiveSpec == Spec /\ Fairness

(* A full buffer drains, however the handlers of this and other objects    *)
(* interleave: bytes are never left waiting for an event nobody asked for. *)
FullBufferDrains ==
  \A f \in Slots :
    Len(out[f]) = MaxOut ~> Len(out[f]) < MaxOut \/ ~orderly
=============================================================================
