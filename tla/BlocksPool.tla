----------------------------- MODULE BlocksPool -----------------------------
(***************************************************************************)
(* The block pool of libnano2 (nanosoft/blockspool.cpp): a LIFO stack of   *)
(* fixed-size blocks, carved from macro-blocks that posix_memalign returns *)
(* and lent to clients as chains.  A NULL-terminated list of nano_block_t  *)
(* is the sequence of its blocks, so "stack" is the free list, head first. *)
(* "lent" is a history variable: the blocks that clients hold.  A client   *)
(* may cut and join its chains as it likes (BufferStream does), so what it *)
(* gives back to free() is any list of blocks it holds.                    *)
(***************************************************************************)
EXTENDS Integers, Sequences, FiniteSets, SequencesExt

CONSTANTS
  Block,       \* every block the system's memory can hold
  BlockSize,   \* BLOCKSPOOL_BLOCK_SIZE, in bytes
  MaxPools     \* bound: the number of macro-blocks reserved at one time

ASSUME BlockAssumption == IsFiniteSet(Block)
ASSUME BlockSizeAssumption == BlockSize \in Nat \ {0}

VARIABLES
  total_count, \* the number of blocks in the pool
  free_count,  \* the number of blocks on the stack
  pool_size,   \* the pool's size in bytes
  stack,       \* the stack of free blocks
  pools,       \* the list of macro-blocks, each the sequence of its blocks
  lent         \* the blocks that clients hold

counters == <<total_count, free_count, pool_size>>
pool_vars == <<total_count, free_count, pool_size, stack, pools>>
vars == <<total_count, free_count, pool_size, stack, pools, lent>>

-----------------------------------------------------------------------------

(* The blocks of all macro-blocks. *)
reserved == UNION {Range(pools[i]) : i \in DOMAIN pools}

(* The number of blocks that hold size bytes. *)
BlocksFor(size) == (size + BlockSize - 1) \div BlockSize

Init ==
  /\ total_count = 0
  /\ free_count = 0
  /\ pool_size = 0
  /\ stack = <<>>
  /\ pools = <<>>
  /\ lent = {}

(* reserve(count), when posix_memalign returns memory; when it does not,   *)
(* nothing changes.  Each block is pushed in turn, so the last one of the  *)
(* macro-block ends on top.                                                *)
Reserve(count) ==
  /\ Len(pools) < MaxPools
  /\ \E new \in Injection(1..count, Block \ reserved) :
       /\ pools' = <<new>> \o pools
       /\ stack' = Reverse(new) \o stack
  /\ total_count' = total_count + count
  /\ free_count' = free_count + count
  /\ pool_size' = pool_size + count * BlockSize
  /\ UNCHANGED lent

ReserveBySize(size) == Reserve(BlocksFor(size))

(* bp_init_pool(min_size), for the global pool: what is missing is added.  *)
(* The caller learns of no failure, since reserve() answers -1 in any case *)
(* and "bool" makes TRUE of it.                                            *)
InitPool(min_size) ==
  /\ total_count < min_size
  /\ Reserve(min_size - total_count)

(* clear(), also the destructor: every macro-block goes back to the        *)
(* system, with the blocks that clients hold.                              *)
Clear ==
  /\ total_count' = 0
  /\ free_count' = 0
  /\ pool_size' = 0
  /\ stack' = <<>>
  /\ pools' = <<>>
  /\ lent' = {}

(* allocByBlocks returns NULL for no blocks, or for more than are free. *)
CanAlloc(count) == count # 0 /\ count <= free_count

(* The chain that allocByBlocks(count) takes off the stack. *)
AllocChain(count) == SubSeq(stack, 1, count)

(* Mutant of PushStack: the list is linked by its first block, not its last. *)
PushStackDropsTail(list) ==
  /\ stack' = <<list[1]>> \o stack
  /\ free_count' = free_count + Len(list)
  /\ UNCHANGED <<total_count, pool_size, pools>>

PopStack(count) ==
  /\ stack' = SubSeq(stack, count + 1, Len(stack))
  /\ free_count' = free_count - count
  /\ UNCHANGED <<total_count, pool_size, pools>>

PushStack(list) ==
  /\ stack' = list \o stack
  /\ free_count' = free_count + Len(list)
  /\ UNCHANGED <<total_count, pool_size, pools>>

AllocByBlocks(count) ==
  /\ CanAlloc(count)
  /\ PopStack(count)
  /\ lent' = lent \union Range(AllocChain(count))

AllocBySize(size) == AllocByBlocks(BlocksFor(size))

(* free(list), for a list of blocks that clients hold. *)
Free(list) ==
  /\ PushStack(list)
  /\ lent' = lent \ Range(list)

(* The lists that clients could give back: each block of it is lent. *)
LentLists == UNION {Injection(1..n, lent) : n \in 1..Cardinality(lent)}

Next ==
  \/ \E n \in 0..Cardinality(Block) : Reserve(n) \/ InitPool(n) \/ AllocByBlocks(n)
  \/ \E size \in 0..Cardinality(Block) * BlockSize :
       ReserveBySize(size) \/ AllocBySize(size)
  \/ \E list \in LentLists : Free(list)
  \/ Clear

Spec == Init /\ [][Next]_vars

-----------------------------------------------------------------------------

TypeOK ==
  /\ total_count \in Nat
  /\ free_count \in Nat
  /\ pool_size \in Nat
  /\ stack \in Seq(Block)
  /\ pools \in Seq(Seq(Block))
  /\ lent \in SUBSET Block

(* Every block of every macro-block is in exactly one place: once on the   *)
(* free stack, or in a client's hands.  No sequence of reserve, alloc,     *)
(* free and clear loses a block or lends it twice.                         *)
Conservation ==
  /\ IsInjective(stack)
  /\ Range(stack) \intersect lent = {}
  /\ Range(stack) \union lent = reserved

(* The counters that allocByBlocks trusts instead of walking the list are  *)
(* exact, so it never walks off the end of the stack (stack->next on NULL) *)
(* and never refuses blocks that are there.                                *)
CountersExact ==
  /\ free_count = Len(stack)
  /\ total_count = Cardinality(reserved)
  /\ pool_size = total_count * BlockSize

(* Together they are inductive: allocation is right only because the       *)
(* counter is, and the counter only because no block is lost.              *)
PoolInv == TypeOK /\ Conservation /\ CountersExact
=============================================================================
