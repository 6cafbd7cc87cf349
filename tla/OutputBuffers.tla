--------------------------- MODULE OutputBuffers ---------------------------
(***************************************************************************)
(* The output buffers of libnano2's NetDaemon (nanosoft/netdaemon.cpp:     *)
(* put, push, cleanup): one chain of pool blocks for each descriptor.  A   *)
(* chain grows and shrinks as a BufferStream's does; what differs is that  *)
(* push() hands the bytes to write(), which may take any part of them, and *)
(* that cleanup() returns the chain to libc and not to the pool.           *)
(***************************************************************************)
EXTENDS BufferStream

CONSTANT
  MaxAccepted  \* bound: bytes a descriptor takes until cleanup

VARIABLES
  accepted,    \* history: the bytes put() took for each descriptor
  sent,        \* history: the bytes write() took from each descriptor
  heap_ok      \* FALSE once libc's free() was given a pointer it never returned

buffers_vars == <<vars, accepted, sent, heap_ok>>

(* The streams are the entries of NetDaemon::fds[], the pool NetDaemon::bp. *)
Fd == Stream

-----------------------------------------------------------------------------

BuffersInit ==
  /\ Init
  /\ accepted = [fd \in Fd |-> <<>>]
  /\ sent = [fd \in Fd |-> <<>>]
  /\ heap_ok = TRUE

(* put(), which takes a packet whole or refuses it; no bytes are taken for *)
(* granted, before the quota is looked at.                                 *)
Put(fd, packet) ==
  /\ Len(accepted[fd]) + Len(packet) <= MaxAccepted
  /\ \/ /\ packet = <<>>
        /\ UNCHANGED <<vars, accepted>>
     \/ /\ Write(fd, packet)
        /\ accepted' = [accepted EXCEPT ![fd] = @ \o packet]
     \/ /\ WriteRefused(fd, packet)
        /\ UNCHANGED accepted
  /\ UNCHANGED <<sent, heap_ok>>

(* Mutant of Push: a partial write() is taken for a complete one. *)
PushDropsRest(fd, n) ==
  /\ Read(fd, size[fd])
  /\ sent' = [sent EXCEPT ![fd] = @ \o SubSeq(Contents(fd), 1, n)]
  /\ UNCHANGED <<accepted, heap_ok>>

(* push(): write() is called block by block and takes n bytes in all; it   *)
(* stops at the first call that takes less than it was offered.            *)
Push(fd, n) ==
  /\ Read(fd, n)
  /\ sent' = [sent EXCEPT ![fd] = @ \o SubSeq(Contents(fd), 1, n)]
  /\ UNCHANGED <<accepted, heap_ok>>

(* Mutant of Cleanup: the chain is forgotten without any free(). *)
CleanupLeaks(fd) ==
  /\ chain' = [chain EXCEPT ![fd] = <<>>]
  /\ last' = [last EXCEPT ![fd] = Null]
  /\ size' = [size EXCEPT ![fd] = 0]
  /\ offset' = [offset EXCEPT ![fd] = 0]
  /\ quota' = [quota EXCEPT ![fd] = 0]
  /\ accepted' = [accepted EXCEPT ![fd] = <<>>]
  /\ sent' = [sent EXCEPT ![fd] = <<>>]
  /\ UNCHANGED <<pool_vars, mem, wild, ret, heap_ok>>

(* cleanup(), called when a descriptor leaves epoll: free(p->first) is     *)
(* libc's free() on a piece of a macro-block.                              *)
Cleanup(fd) ==
  /\ heap_ok' = (chain[fd] = <<>>)
  /\ chain' = [chain EXCEPT ![fd] = <<>>]
  /\ last' = [last EXCEPT ![fd] = Null]
  /\ size' = [size EXCEPT ![fd] = 0]
  /\ offset' = [offset EXCEPT ![fd] = 0]
  /\ quota' = [quota EXCEPT ![fd] = 0]
  /\ accepted' = [accepted EXCEPT ![fd] = <<>>]
  /\ sent' = [sent EXCEPT ![fd] = <<>>]
  /\ UNCHANGED <<pool_vars, mem, wild, ret>>

PutQuota(fd, q) ==
  /\ SetQuota(fd, q)
  /\ UNCHANGED <<accepted, sent, heap_ok>>

(* bp_pool(buf_size), in the constructor or by another user of the pool. *)
ReserveBuffers(n) ==
  /\ Reserve(n)
  /\ UNCHANGED <<accepted, sent, heap_ok>>

(* What the program does after a bad free() is undefined: no step. *)
BuffersNext ==
  /\ heap_ok
  /\ \/ \E n \in 1..Cardinality(Block) : ReserveBuffers(n)
     \/ \E fd \in Fd :
          \/ \E packet \in Packet : Put(fd, packet)
          \/ \E n \in 0..size[fd] : Push(fd, n)
          \/ \E q \in Quota : PutQuota(fd, q)
          \/ Cleanup(fd)

BuffersSpec == BuffersInit /\ [][BuffersNext]_buffers_vars

-----------------------------------------------------------------------------

(* The peer gets what put() took, each byte once and in order, whatever    *)
(* part of the buffer each write() takes.                                  *)
SentThenBuffered ==
  \A fd \in Fd : heap_ok => sent[fd] \o Contents(fd) = accepted[fd]

(* As long as the heap is sound every block is free or in one buffer.      *)
NoBlockLost == heap_ok => Pool!Conservation /\ Pool!CountersExact

(* Each byte goes out once and in order, whatever part of a buffer write() *)
(* takes, and no block is lost while the heap is sound.                    *)
BuffersSound == SentThenBuffered /\ NoBlockLost
=============================================================================
