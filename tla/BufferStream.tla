---------------------------- MODULE BufferStream ----------------------------
(***************************************************************************)
(* The buffered streams of libnano2 (nanosoft/bufferstream.cpp): several   *)
(* streams that keep their bytes in chains of blocks lent by one pool.     *)
(* The chain a stream's "first" points to is the sequence of its blocks;   *)
(* "last" is a pointer of its own, which the code sets when it fills a     *)
(* block and leaves dangling when a read empties the stream.               *)
(***************************************************************************)
EXTENDS Integers, Sequences, FiniteSets, SequencesExt

CONSTANTS
  Block, BlockSize, MaxPools,      \* see BlocksPool
  Stream, Byte, Packet, Quota,     \* see ByteQueue
  Null,                            \* the NULL pointer
  Junk                             \* what a block holds before it is written

ASSUME BlockAssumption == IsFiniteSet(Block)
ASSUME BlockSizeAssumption == BlockSize \in Nat \ {0}
ASSUME PacketAssumption == Packet \subseteq Seq(Byte)
ASSUME QuotaAssumption == Quota \subseteq Nat
ASSUME NullAssumption == Null \notin Block

VARIABLES
  total_count, free_count, pool_size, stack, pools,  \* the pool
  chain,       \* the blocks of each stream, from "first" on
  last,        \* the block that each stream's "last" points to, or Null
  size,        \* the number of bytes each stream holds
  offset,      \* the bytes already read of each stream's first block
  quota,       \* the quota of each stream, 0 for none
  mem,         \* the byte at each place of each block
  wild,        \* the streams whose last->next was never initialised
  ret          \* what the last call returned

pool_vars == <<total_count, free_count, pool_size, stack, pools>>
stream_vars == <<chain, last, size, offset, quota, mem, wild, ret>>
vars == <<pool_vars, stream_vars>>

Pool == INSTANCE BlocksPool WITH lent <- UNION {Range(chain[s]) : s \in Stream}

-----------------------------------------------------------------------------

Init ==
  /\ chain = [s \in Stream |-> <<>>]
  /\ last = [s \in Stream |-> Null]
  /\ size = [s \in Stream |-> 0]
  /\ offset = [s \in Stream |-> 0]
  /\ quota = [s \in Stream |-> 0]
  /\ mem = [cell \in Block \X (0..BlockSize - 1) |-> Junk]
  /\ wild = {}
  /\ ret = 0
  /\ Pool!Init

(* Where the free part of the last block begins, 0 when there is none. *)
Pos(s) == (offset[s] + size[s]) % BlockSize

(* The room that is left in the last block. *)
Rest(s) == IF size[s] > 0 /\ Pos(s) > 0 THEN BlockSize - Pos(s) ELSE 0

(* Mutant of Need: the room in the last block is forgotten. *)
NeedIgnoresRest(s, len) == Pool!BlocksFor(len)

(* The number of new blocks that len more bytes take. *)
Need(s, len) == IF len <= Rest(s) THEN 0 ELSE Pool!BlocksFor(len - Rest(s))

WithinQuota(s, len) == quota[s] = 0 \/ size[s] + len <= quota[s]

(* write() takes len bytes when the quota and the pool allow it. *)
Accepts(s, len) ==
  /\ WithinQuota(s, len)
  /\ Need(s, len) = 0 \/ Pool!CanAlloc(Need(s, len))

(* Mutant of Cell: the bytes go one place too far into the last block. *)
CellOffByOne(s, new, i) ==
  IF i <= Rest(s)
    THEN <<last[s], Pos(s) + i>>
    ELSE LET j == i - 1 - Rest(s) IN <<new[j \div BlockSize + 1], j % BlockSize>>

(* The place that write() gives to the i-th byte of its buffer: the rest   *)
(* of the last block first, then the new blocks.                           *)
Cell(s, new, i) ==
  IF i <= Rest(s)
    THEN <<last[s], Pos(s) + i - 1>>
    ELSE LET j == i - 1 - Rest(s) IN <<new[j \div BlockSize + 1], j % BlockSize>>

(* memcpy of a packet into the last block and the new ones. *)
Copied(s, new, packet) ==
  LET dirty == {Cell(s, new, i) : i \in DOMAIN packet}
  IN  [c \in DOMAIN mem |->
         IF c \in dirty
           THEN packet[CHOOSE i \in DOMAIN packet : Cell(s, new, i) = c]
           ELSE mem[c]]

(* Mutant of Write: "last" is set to the first new block, not the last one. *)
WriteStaleLast(s, packet) ==
  LET len == Len(packet)
      need == Need(s, len)
      new == Pool!AllocChain(need)
  IN  /\ len > 0
      /\ Accepts(s, len)
      /\ Pool!PopStack(need)
      /\ chain' = [chain EXCEPT ![s] = IF size[s] > 0 THEN @ \o new ELSE new]
      /\ last' = [last EXCEPT ![s] = IF need > 0 THEN new[1] ELSE @]
      /\ offset' = [offset EXCEPT ![s] = IF size[s] > 0 THEN @ ELSE 0]
      /\ size' = [size EXCEPT ![s] = @ + len]
      /\ mem' = Copied(s, new, packet)
      /\ ret' = len
      /\ UNCHANGED <<quota, wild>>

Write(s, packet) ==
  LET len == Len(packet)
      need == Need(s, len)
      new == Pool!AllocChain(need)
  IN  /\ len > 0
      /\ Accepts(s, len)
      /\ Pool!PopStack(need)
      /\ chain' = [chain EXCEPT ![s] = IF size[s] > 0 THEN @ \o new ELSE new]
      /\ last' = [last EXCEPT ![s] = IF need > 0 THEN new[need] ELSE @]
      /\ offset' = [offset EXCEPT ![s] = IF size[s] > 0 THEN @ ELSE 0]
      /\ size' = [size EXCEPT ![s] = @ + len]
      /\ mem' = Copied(s, new, packet)
      /\ wild' = IF need > 0 THEN wild \ {s} ELSE wild
      /\ ret' = len
      /\ UNCHANGED quota

WriteRefused(s, packet) ==
  /\ Len(packet) > 0
  /\ ~Accepts(s, Len(packet))
  /\ ret' = 0
  /\ UNCHANGED <<pool_vars, chain, last, size, offset, quota, mem, wild>>

(* write() of no bytes.  When the last block is full it goes on to         *)
(* last->next = block with "block" never set: the link holds whatever was  *)
(* on the stack, NULL or not.                                              *)
WriteNothing(s) ==
  /\ \/ wild' = wild
     \/ /\ size[s] > 0 /\ Pos(s) = 0 /\ WithinQuota(s, 0)
        /\ wild' = wild \union {s}
  /\ ret' = 0
  /\ UNCHANGED <<pool_vars, chain, last, size, offset, quota, mem>>

(* The number of blocks that read() empties when it takes r bytes. *)
Emptied(s, r) ==
  IF r > 0 /\ r = size[s]
    THEN Pool!BlocksFor(offset[s] + r)
    ELSE (offset[s] + r) \div BlockSize

(* What blocks on the free stack hold is nobody's: reading it is an error. *)
Forgotten(list) ==
  [c \in DOMAIN mem |-> IF c[1] \in Range(list) THEN Junk ELSE mem[c]]

(* read() into a buffer of n bytes.  The emptied blocks go back to the     *)
(* pool as one list, the last one first.                                   *)
Read(s, n) ==
  LET r == IF n < size[s] THEN n ELSE size[s]
      k == Emptied(s, r)
  IN  /\ Pool!PushStack(Reverse(SubSeq(chain[s], 1, k)))
      /\ chain' = [chain EXCEPT ![s] = SubSeq(@, k + 1, Len(@))]
      /\ size' = [size EXCEPT ![s] = @ - r]
      /\ offset' = [offset EXCEPT ![s] = IF r = size[s] THEN 0 ELSE (@ + r) % BlockSize]
      /\ mem' = Forgotten(SubSeq(chain[s], 1, k))
      /\ ret' = r
      /\ UNCHANGED <<last, quota, wild>>

(* Mutant of Clear: the chain is forgotten, and not given back. *)
ClearLeaks(s) ==
  /\ chain' = [chain EXCEPT ![s] = <<>>]
  /\ last' = [last EXCEPT ![s] = Null]
  /\ size' = [size EXCEPT ![s] = 0]
  /\ offset' = [offset EXCEPT ![s] = 0]
  /\ UNCHANGED <<pool_vars, quota, mem, wild, ret>>

(* clear(), also the destructor.  bp->free(first) walks the links, and     *)
(* what it does at an uninitialised one is undefined: no step is modelled. *)
Clear(s) ==
  /\ s \notin wild
  /\ Pool!PushStack(chain[s])
  /\ chain' = [chain EXCEPT ![s] = <<>>]
  /\ last' = [last EXCEPT ![s] = Null]
  /\ size' = [size EXCEPT ![s] = 0]
  /\ offset' = [offset EXCEPT ![s] = 0]
  /\ mem' = Forgotten(chain[s])
  /\ UNCHANGED <<quota, wild, ret>>

(* The setter, which the header calls getQuota(q). *)
SetQuota(s, q) ==
  /\ quota' = [quota EXCEPT ![s] = q]
  /\ UNCHANGED <<pool_vars, chain, last, size, offset, mem, wild, ret>>

(* The pool's owner adds blocks while streams are in use. *)
Reserve(n) == UNCHANGED stream_vars /\ Pool!Reserve(n)

Next ==
  \/ \E n \in 0..Cardinality(Block) : Reserve(n)
  \/ \E s \in Stream :
       \/ \E packet \in Packet : Write(s, packet) \/ WriteRefused(s, packet)
       \/ <<>> \in Packet /\ WriteNothing(s)
       \/ \E n \in 0..size[s] + 1 : Read(s, n)
       \/ \E q \in Quota : SetQuota(s, q)
       \/ Clear(s)

Spec == Init /\ [][Next]_vars

-----------------------------------------------------------------------------

(* The bytes a stream holds, read through its chain. *)
Contents(s) ==
  [i \in 1..size[s] |->
     LET p == offset[s] + i - 1
     IN  mem[<<chain[s][p \div BlockSize + 1], p % BlockSize>>]]

Queue == INSTANCE ByteQueue WITH queue <- [s \in Stream |-> Contents(s)]

TypeOK ==
  /\ Pool!TypeOK
  /\ chain \in [Stream -> Seq(Block)]
  /\ last \in [Stream -> Block \union {Null}]
  /\ size \in [Stream -> Nat]
  /\ offset \in [Stream -> Nat]
  /\ quota \in [Stream -> Nat]
  /\ mem \in [Block \X (0..BlockSize - 1) -> Byte \union {Junk}]
  /\ wild \in SUBSET Stream
  /\ ret \in Nat

(* The two numbers a stream keeps tell exactly how many blocks hang on     *)
(* "first": none is kept behind the data, none is missing under it.        *)
ChainFits ==
  \A s \in Stream :
    /\ offset[s] < BlockSize
    /\ size[s] = 0 => offset[s] = 0
    /\ Len(chain[s]) = Pool!BlocksFor(offset[s] + size[s])

(* While a stream holds bytes, "last" is the block where the next write    *)
(* goes on; a stale one would send it into another stream's block.         *)
LastIsTail == \A s \in Stream : size[s] > 0 => last[s] = Last(chain[s])

(* No two streams, and no two places of one, share a block. *)
ChainsDisjoint ==
  /\ \A s \in Stream : IsInjective(chain[s])
  /\ \A s, t \in Stream : s # t => Range(chain[s]) \intersect Range(chain[t]) = {}

(* A chain is sound only together with the pool it is taken from: that a   *)
(* new block is in no chain follows from the pool's account of its blocks. *)
StreamInv ==
  /\ TypeOK
  /\ ChainFits
  /\ LastIsTail
  /\ ChainsDisjoint
  /\ Pool!Conservation
  /\ Pool!CountersExact

(* The streams use the pool as it asks to be used: they give back only     *)
(* blocks they hold, each once, and lose none.                             *)
PoolSpec == Pool!Spec

(* The streams keep what ByteQueue promises. *)
QueueSpec == Queue!Spec

(* A write is refused only when the quota forbids it, or when the free     *)
(* blocks and the rest of the last block together are too small.           *)
RefusedOnlyWhenFull ==
  \A s \in Stream, packet \in Packet :
    ~Accepts(s, Len(packet)) =>
      \/ quota[s] > 0 /\ size[s] + Len(packet) > quota[s]
      \/ Len(chain[s]) * BlockSize - offset[s] - size[s]
           + Len(stack) * BlockSize < Len(packet)

(* All that holds of the streams at any time. *)
StreamSound == StreamInv /\ RefusedOnlyWhenFull
=============================================================================
