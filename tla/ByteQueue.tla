----------------------------- MODULE ByteQueue -----------------------------
(***************************************************************************)
(* What a buffered stream of libnano2 promises its user: bytes come out in *)
(* the order they went in, a write is taken whole or not at all, and a     *)
(* quota bounds what a write may leave in the buffer.  No block, offset or *)
(* pointer appears here; BufferStream is shown to implement this module.   *)
(***************************************************************************)
EXTENDS Integers, Sequences

CONSTANTS
  Stream,      \* the streams
  Byte,        \* the values of a byte
  Packet,      \* the byte sequences that callers write
  Quota        \* the quotas that callers set; 0 is no quota

VARIABLES
  queue,       \* the bytes each stream holds
  quota,       \* the quota of each stream
  ret          \* what the last call returned

vars == <<queue, quota, ret>>

Init ==
  /\ queue = [s \in Stream |-> <<>>]
  /\ quota = [s \in Stream |-> 0]
  /\ ret = 0

Write(s, packet) ==
  /\ quota[s] = 0 \/ Len(queue[s]) + Len(packet) <= quota[s]
  /\ queue' = [queue EXCEPT ![s] = @ \o packet]
  /\ ret' = Len(packet)
  /\ UNCHANGED quota

(* A refused write leaves no trace. *)
Refuse ==
  /\ ret' = 0
  /\ UNCHANGED <<queue, quota>>

Read(s, n) ==
  /\ n <= Len(queue[s])
  /\ queue' = [queue EXCEPT ![s] = SubSeq(@, n + 1, Len(@))]
  /\ ret' = n
  /\ UNCHANGED quota

Clear(s) ==
  /\ queue' = [queue EXCEPT ![s] = <<>>]
  /\ UNCHANGED <<quota, ret>>

SetQuota(s, q) ==
  /\ quota' = [quota EXCEPT ![s] = q]
  /\ UNCHANGED <<queue, ret>>

Next ==
  \/ Refuse
  \/ \E s \in Stream :
       \/ \E packet \in Packet : Write(s, packet)
       \/ \E n \in 0..Len(queue[s]) : Read(s, n)
       \/ \E q \in Quota : SetQuota(s, q)
       \/ Clear(s)

Spec == Init /\ [][Next]_vars
=============================================================================
