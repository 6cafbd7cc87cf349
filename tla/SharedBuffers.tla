--------------------------- MODULE SharedBuffers ---------------------------
(***************************************************************************)
(* The output buffers of libnano v1's NetDaemon, and the streams that use  *)
(* them from several threads: put() and push() hold the descriptor's own   *)
(* mutex, the pool of blocks and the table the daemon's, and a stream is   *)
(* armed for writing after the one has been given back and before the      *)
(* other is taken.  Whoever removes a stream leaves its bytes in the slot  *)
(* of its descriptor: nobody calls cleanup().                              *)
(*                                                                         *)
(* A section under a mutex is one step: what is read without it, the size  *)
(* in resetObject(), is looked at again by whoever changes it meanwhile.   *)
(***************************************************************************)
EXTENDS Integers, Sequences, FiniteSets, FiniteSetsExt

CONSTANTS
  SharedThread,  \* the threads
  Descriptors,   \* the numbers the kernel gives
  Streams,       \* bound: the connections there will be, 1..n
  BlockBytes,    \* FDBUFFER_BLOCK_SIZE
  BufferSize,    \* NetDaemon::buffer_size, in blocks
  PutSizes,      \* bound: the sizes of what is put
  QuotaBytes,    \* fd_info_t::quota, 0 for none
  MaxTaken       \* bound: bytes that put() takes, from all streams

ASSUME SharedAssumption ==
  /\ Streams \subseteq Nat \ {0} /\ PutSizes \subseteq Nat \ {0}
  /\ BlockBytes \in Nat \ {0} /\ BufferSize \in Nat /\ QuotaBytes \in Nat

VARIABLES
  slot,        \* fds[]: the object, its bytes, and offset, their place in the first block
  free_blocks, \* NetDaemon::free_blocks
  mask,        \* epoll: what an armed descriptor waits for; {} when its shot is spent
  stream,      \* the objects: their state and their descriptor
  worker,      \* where each thread is, and its local variables
  taken,       \* history: how many bytes put() took for each stream
  got,         \* history: what the peer of each stream received
  inherited    \* history: the streams that began with bytes in their slot

shared_vars == <<slot, free_blocks, mask, stream, worker, taken, got, inherited>>

NoStream == 0
Empty == [obj |-> NoStream, bytes |-> <<>>, offset |-> 0]
Looping == [at |-> "loop", fd |-> 0, obj |-> NoStream, events |-> {},
            target |-> NoStream, unused |-> 0]

SharedInit ==
  /\ slot = [fd \in Descriptors |-> Empty]
  /\ free_blocks = BufferSize
  /\ mask = [fd \in Descriptors |-> {}]
  /\ stream = [o \in Streams |-> [state |-> "none", fd |-> 0]]
  /\ worker = [w \in SharedThread |-> Looping]
  /\ taken = [o \in Streams |-> 0]
  /\ got = [o \in Streams |-> <<>>]
  /\ inherited = {}

-----------------------------------------------------------------------------

Blocks(n) == (n + BlockBytes - 1) \div BlockBytes
Held(s) == IF s.bytes = <<>> THEN 0 ELSE Blocks(s.offset + Len(s.bytes))

Listed(o) == stream[o].state = "listed"
Holds(w, o) == worker[w].obj = o \/ worker[w].target = o

(* A number is free when the last pointer to its object has gone, whose    *)
(* destructor closes it.                                                   *)
Closed(o) ==
  \/ stream[o].state = "none"
  \/ stream[o].state = "left" /\ \A w \in SharedThread : ~Holds(w, o)

(* Mutant of Reset: a stream is armed for writing only by who puts. *)
ResetForReading(fd, s) == [mask EXCEPT ![fd] = {"in"}]

(* resetObject() *)
Reset(fd, s) == [mask EXCEPT ![fd] = {"in"} \union (IF s[fd].bytes # <<>> THEN {"out"} ELSE {})]

(* addObject(), for a connection that has just been accepted. *)
Accept(o, fd) ==
  /\ stream[o].state = "none"
  /\ \A p \in Streams : stream[p].fd # fd \/ Closed(p)
  /\ stream' = [stream EXCEPT ![o] = [state |-> "listed", fd |-> fd]]
  /\ slot' = [slot EXCEPT ![fd].obj = o]
  /\ mask' = Reset(fd, slot)
  /\ inherited' = IF slot[fd].bytes # <<>> THEN inherited \union {o} ELSE inherited
  /\ UNCHANGED <<free_blocks, worker, taken, got>>

(* removeObject(), by the thread that has the object's event. *)
RemoveStream(o) ==
  /\ stream' = [stream EXCEPT ![o].state = "left"]
  /\ slot' = [slot EXCEPT ![stream[o].fd].obj = NoStream]
  /\ mask' = [mask EXCEPT ![stream[o].fd] = {}]

-----------------------------------------------------------------------------
(* doActiveAction() *)

Proceed(w, at) == worker' = [worker EXCEPT ![w].at = at]

(* Where onEvent() goes on: the handler of the next event there is. *)
From(events, order) ==
  LET due == {i \in DOMAIN order : order[i][1] \in events}
  IN IF due = {} THEN "reset" ELSE order[Min(due)][2]

Reading == <<"in", "read">>
Writing == <<"out", "write">>
Ending == <<"hup", "down">>

(* A peer may have sent something, may have ended; its socket may take.    *)
TakeSocket(w, fd, events) ==
  /\ worker[w].at = "loop"
  /\ mask[fd] # {} /\ events # {} /\ events \subseteq mask[fd] \union {"hup"}
  /\ mask' = [mask EXCEPT ![fd] = {}]
  /\ worker' = [worker EXCEPT ![w].at = "event", ![w].fd = fd, ![w].events = events]
  /\ UNCHANGED <<slot, free_blocks, stream, taken, got, inherited>>

FindStream(w) ==
  /\ worker[w].at = "event"
  /\ \E o \in {slot[worker[w].fd].obj} :
       worker' = [worker EXCEPT ![w] =
                     IF o = NoStream THEN Looping
                     ELSE [@ EXCEPT !.at = From(worker[w].events, <<Reading, Writing, Ending>>), !.obj = o]]
  /\ UNCHANGED <<slot, free_blocks, mask, stream, taken, got, inherited>>

(* After onEvent(): the object is armed if it is still in the table. *)
EndEvent(w) ==
  /\ worker[w].at = "reset"
  /\ mask' = IF slot[worker[w].fd].obj = worker[w].obj THEN Reset(worker[w].fd, slot) ELSE mask
  /\ worker' = [worker EXCEPT ![w] = Looping]
  /\ UNCHANGED <<slot, free_blocks, stream, taken, got, inherited>>

-----------------------------------------------------------------------------
(* AsyncStream::onEvent(): handleRead(), handleWrite(), handlePeerDown().  *)

(* onRead() has nothing to do, or ends its own connection, or has         *)
(* something to say to any stream there is.                                *)
AfterRead(w) ==
  worker' = [worker EXCEPT ![w].at = From(worker[w].events, <<Writing, Ending>>),
                           ![w].target = NoStream]

ReadNothing(w) ==
  /\ worker[w].at = "read"
  /\ AfterRead(w)
  /\ UNCHANGED <<slot, free_blocks, mask, stream, taken, got, inherited>>

ReadRemoves(w) ==
  /\ worker[w].at = "read"
  /\ Listed(worker[w].obj)
  /\ RemoveStream(worker[w].obj)
  /\ AfterRead(w)
  /\ UNCHANGED <<free_blocks, taken, got, inherited>>

(* putInBuffer() has found the stream's daemon. *)
ReadPuts(w, o) ==
  /\ worker[w].at = "read"
  /\ Listed(o)
  /\ worker' = [worker EXCEPT ![w].at = "put", ![w].target = o]
  /\ UNCHANGED <<slot, free_blocks, mask, stream, taken, got, inherited>>

(* put(): what it needs beyond the rest of the last block. *)
NeedBlocks(s, n) ==
  LET rest == (BlockBytes - ((s.offset + Len(s.bytes)) % BlockBytes)) % BlockBytes
  IN IF s.bytes = <<>> THEN Blocks(n) ELSE IF n <= rest THEN 0 ELSE Blocks(n - rest)

AllTaken == FoldSet(LAMBDA o, n : n + taken[o], 0, Streams)

(* Mutant of SharedPut: the free blocks are not counted down for the last block. *)
PutUncounted(w, n) ==
  LET o == worker[w].target
      fd == stream[o].fd
      need == NeedBlocks(slot[fd], n)
  IN  /\ worker[w].at = "put" /\ AllTaken + n <= MaxTaken
      /\ need <= free_blocks
      /\ slot' = [slot EXCEPT ![fd].bytes = @ \o [i \in 1..n |-> <<o, taken[o] + i>>]]
      /\ free_blocks' = IF need > 0 THEN free_blocks - need + 1 ELSE free_blocks
      /\ taken' = [taken EXCEPT ![o] = @ + n]
      /\ Proceed(w, "modify")
      /\ UNCHANGED <<mask, stream, got, inherited>>

(* It takes all or nothing. *)
SharedPut(w, n) ==
  LET o == worker[w].target
      fd == stream[o].fd
      need == NeedBlocks(slot[fd], n)
      full == QuotaBytes # 0 /\ Len(slot[fd].bytes) + n > QuotaBytes
  IN  /\ worker[w].at = "put" /\ AllTaken + n <= MaxTaken
      /\ \/ /\ ~full /\ need <= free_blocks
            /\ slot' = [slot EXCEPT ![fd].bytes = @ \o [i \in 1..n |-> <<o, taken[o] + i>>]]
            /\ free_blocks' = free_blocks - need
            /\ taken' = [taken EXCEPT ![o] = @ + n]
            /\ Proceed(w, "modify")
         \/ /\ full \/ need > free_blocks
            /\ AfterRead(w)
            /\ UNCHANGED <<slot, free_blocks, taken>>
      /\ UNCHANGED <<mask, stream, got, inherited>>

(* The bound of the model: as if put() had refused. *)
PutNoMore(w) ==
  /\ worker[w].at = "put"
  /\ AfterRead(w)
  /\ UNCHANGED <<slot, free_blocks, mask, stream, taken, got, inherited>>

(* modifyObject(), if the stream is still in the table. *)
ModifyStream(w) ==
  LET o == worker[w].target
      fd == stream[o].fd
  IN  /\ worker[w].at = "modify"
      /\ mask' = IF slot[fd].obj = o THEN Reset(fd, slot) ELSE mask
      /\ AfterRead(w)
      /\ UNCHANGED <<slot, free_blocks, stream, taken, got, inherited>>

(* push(): write() takes n bytes in all. *)
SharedPush(w, n) ==
  LET o == worker[w].obj
      fd == stream[o].fd
      s == slot[fd]
      at == IF n = Len(s.bytes) THEN 0 ELSE (s.offset + n) % BlockBytes
      rest == [s EXCEPT !.bytes = SubSeq(@, n + 1, Len(@)), !.offset = at]
  IN  /\ worker[w].at = "write" /\ Listed(o)
      /\ n \in 0..Len(s.bytes)
      /\ slot' = [slot EXCEPT ![fd] = rest]
      /\ got' = [got EXCEPT ![o] = @ \o SubSeq(s.bytes, 1, n)]
      /\ worker' = [worker EXCEPT ![w].at = "free", ![w].unused = Held(s) - Held(rest)]
      /\ UNCHANGED <<free_blocks, mask, stream, taken, inherited>>

NoPush(w) ==
  /\ worker[w].at = "write" /\ ~Listed(worker[w].obj)
  /\ Proceed(w, From(worker[w].events, <<Ending>>))
  /\ UNCHANGED <<slot, free_blocks, mask, stream, taken, got, inherited>>

(* freeBlocks(), when the descriptor's mutex has been given back. *)
FreeBlocks(w) ==
  /\ worker[w].at = "free"
  /\ free_blocks' = free_blocks + worker[w].unused
  /\ worker' = [worker EXCEPT ![w].at = From(worker[w].events, <<Ending>>), ![w].unused = 0]
  /\ UNCHANGED <<slot, mask, stream, taken, got, inherited>>

(* onPeerDown() removes the stream. *)
PeerDown(w) ==
  /\ worker[w].at = "down"
  /\ IF Listed(worker[w].obj)
       THEN RemoveStream(worker[w].obj) ELSE UNCHANGED <<stream, slot, mask>>
  /\ Proceed(w, "reset")
  /\ UNCHANGED <<free_blocks, taken, got, inherited>>

-----------------------------------------------------------------------------

(* What a thread does between two calls of epoll_wait(). *)
Continue(w) ==
  \/ FindStream(w) \/ EndEvent(w)
  \/ ReadNothing(w) \/ ReadRemoves(w) \/ \E o \in Streams : ReadPuts(w, o)
  \/ \E n \in PutSizes : SharedPut(w, n)
  \/ PutNoMore(w) \/ ModifyStream(w)
  \/ \E n \in 0..MaxTaken : SharedPush(w, n)
  \/ NoPush(w) \/ FreeBlocks(w) \/ PeerDown(w)

SomeEvent(fd, events) == \E w \in SharedThread : TakeSocket(w, fd, events)

SharedNext ==
  \/ \E o \in Streams, fd \in Descriptors : Accept(o, fd)
  \/ \E fd \in Descriptors, events \in SUBSET {"in", "out", "hup"} : SomeEvent(fd, events)
  \/ \E w \in SharedThread : Continue(w)

-----------------------------------------------------------------------------

(* Every block is free, holds bytes, or is on its way back to the pool.    *)
PoolExact ==
  LET holding == UNION {{fd} \X (1..Held(slot[fd])) : fd \in Descriptors}
      leaving == UNION {{w} \X (1..worker[w].unused) : w \in SharedThread}
  IN free_blocks + Cardinality(holding) + Cardinality(leaving) = BufferSize

(* The peer gets what put() took for its stream, once and in order,        *)
(* whichever threads put and push -- unless the number's last owner left   *)
(* bytes, which the new one then sends before its own.                     *)
OwnBytes ==
  \A o \in Streams \ inherited :
    LET waiting == IF Listed(o) THEN slot[stream[o].fd].bytes ELSE <<>>
        meant == [i \in 1..taken[o] |-> <<o, i>>]
    IN IF Listed(o) THEN got[o] \o waiting = meant
       ELSE got[o] = SubSeq(meant, 1, Len(got[o]))

(* Bytes that wait for the socket have it armed for writing, unless a      *)
(* thread is still to arm it.                                              *)
NoneStuck ==
  \A fd \in Descriptors :
    slot[fd].obj # NoStream /\ slot[fd].bytes # <<>> =>
      \/ "out" \in mask[fd]
      \/ \E w \in SharedThread :
           \/ worker[w].fd = fd /\ worker[w].at # "loop"
           \/ worker[w].at = "modify" /\ worker[w].target = slot[fd].obj

SharedSound == PoolExact /\ OwnBytes /\ NoneStuck
=============================================================================
