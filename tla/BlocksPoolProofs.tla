-------------------------- MODULE BlocksPoolProofs --------------------------
(***************************************************************************)
(* The pool never loses a block, never lends one twice, and its counters   *)
(* are exact, whatever the set of blocks, the block size and the bound on  *)
(* macro-blocks.  The three invariants are inductive only together:        *)
(* allocByBlocks trusts free_count, so that the chain it takes lies inside *)
(* the stack only because the counter is exact.                            *)
(***************************************************************************)
EXTENDS BlocksPool, ChainLemmas

(* The pool has reserved finitely many blocks. *)
LEMMA ReservedFinite ==
  ASSUME TypeOK
  PROVE  reserved \subseteq Block /\ IsFiniteSet(reserved)
<1>1. reserved \subseteq Block
  BY DEF TypeOK, reserved, Range
<1> QED BY <1>1, BlockAssumption, FS_Subset

(* A size takes a number of blocks. *)
LEMMA BlocksForType ==
  ASSUME NEW size \in Nat
  PROVE  BlocksFor(size) \in Nat
<1>1. BlockSize \in Nat /\ BlockSize > 0
  BY BlockSizeAssumption
<1> QED BY <1>1 DEF BlocksFor

(* A macro-block put before the others adds its blocks to the pool's. *)
LEMMA ReservedAfterCons ==
  ASSUME NEW ps \in Seq(Seq(Block)), NEW new \in Seq(Block)
  PROVE  UNION {Range((<<new>> \o ps)[i]) : i \in DOMAIN (<<new>> \o ps)}
           = Range(new) \union UNION {Range(ps[i]) : i \in DOMAIN ps}
<1> DEFINE qs == <<new>> \o ps
<1>1. DOMAIN qs = 1..(Len(ps) + 1) /\ DOMAIN ps = 1..Len(ps)
  OBVIOUS
<1>2. qs[1] = new
  OBVIOUS
<1>3. \A i \in 1..Len(ps) : qs[i + 1] = ps[i]
  OBVIOUS
<1> HIDE DEF qs
<1>4. ASSUME NEW i \in 1..(Len(ps) + 1)
      PROVE  Range(qs[i]) \subseteq Range(new) \union UNION {Range(ps[j]) : j \in DOMAIN ps}
  <2>1. CASE i = 1
    BY <2>1, <1>2
  <2>2. CASE i > 1
    <3>1. i - 1 \in 1..Len(ps) /\ (i - 1) + 1 = i
      BY <2>2
    <3>2. qs[i] = ps[i - 1]
      BY <3>1, <1>3
    <3> QED BY <3>1, <3>2, <1>1
  <2> QED BY <2>1, <2>2
<1>5. Range(new) \subseteq UNION {Range(qs[i]) : i \in DOMAIN qs}
  <2>1. 1 \in DOMAIN qs
    BY <1>1
  <2> QED BY <2>1, <1>2
<1>6. ASSUME NEW j \in DOMAIN ps
      PROVE  Range(ps[j]) \subseteq UNION {Range(qs[i]) : i \in DOMAIN qs}
  <2>1. j + 1 \in DOMAIN qs
    BY <1>1
  <2> QED BY <2>1, <1>1, <1>3
<1> QED BY <1>1, <1>4, <1>5, <1>6 DEF qs

(* Init: nothing is reserved. *)
LEMMA InitPoolInv == Init => PoolInv
<1> SUFFICES ASSUME Init PROVE PoolInv
  OBVIOUS
<1> USE DEF Init
<1>1. TypeOK
  BY DEF TypeOK
<1>2. reserved = {}
  BY DEF reserved
<1>3. Conservation
  BY <1>2 DEF Conservation, IsInjective, Range
<1>4. CountersExact
  BY <1>2, FS_EmptySet, BlockSizeAssumption DEF CountersExact
<1> QED BY <1>1, <1>3, <1>4 DEF PoolInv

(* Blocks that are reserved are new, and free. *)
LEMMA ReservePoolInv ==
  ASSUME PoolInv, NEW n \in Nat, Reserve(n)
  PROVE  PoolInv'
<1> USE DEF PoolInv
<1>1. PICK new \in Injection(1..n, Block \ reserved) :
          pools' = <<new>> \o pools /\ stack' = Reverse(new) \o stack
  BY DEF Reserve
<1>2. /\ new \in Seq(Block \ reserved) /\ Len(new) = n
      /\ IsInjective(new) /\ Range(new) \subseteq Block \ reserved
  BY <1>1, InjectionIsChain
<1>3. new \in Seq(Block)
  BY <1>2
<1>4. /\ Reverse(new) \in Seq(Block) /\ Len(Reverse(new)) = n
      /\ Range(Reverse(new)) = Range(new) /\ IsInjective(Reverse(new))
  BY <1>2, <1>3, ReverseChain
<1>5. stack \in Seq(Block) /\ IsInjective(stack) /\ Range(stack) \subseteq reserved
  BY DEF TypeOK, Conservation
<1>6. /\ stack' \in Seq(Block)
      /\ Len(stack') = n + Len(stack)
      /\ Range(stack') = Range(new) \union Range(stack)
      /\ IsInjective(stack')
  <2>1. Range(Reverse(new)) \intersect Range(stack) = {}
    BY <1>2, <1>4, <1>5
  <2> DEFINE a == Reverse(new)
  <2>2. a \in Seq(Block) /\ IsInjective(a) /\ Range(a) \intersect Range(stack) = {}
    BY <1>4, <2>1
  <2>3. Len(a) = n /\ Range(a) = Range(new) /\ stack' = a \o stack
    BY <1>1, <1>4
  <2> HIDE DEF a
  <2>4. /\ a \o stack \in Seq(Block)
        /\ Len(a \o stack) = Len(a) + Len(stack)
        /\ Range(a \o stack) = Range(a) \union Range(stack)
        /\ IsInjective(a \o stack)
    BY <1>5, <2>2, ConcatChain
  <2> QED BY <2>3, <2>4
<1>7. reserved' = Range(new) \union reserved
  <2>1. reserved' = UNION {Range((<<new>> \o pools)[i]) : i \in DOMAIN (<<new>> \o pools)}
    BY <1>1 DEF reserved
  <2>2. pools \in Seq(Seq(Block))
    BY DEF TypeOK
  <2> QED BY <1>3, <2>1, <2>2, ReservedAfterCons DEF reserved
<1>8. BlockSize \in Nat
  BY BlockSizeAssumption
<1>9. TypeOK'
  <2>1. pools' \in Seq(Seq(Block))
    BY <1>1, <1>3 DEF TypeOK
  <2>2. n * BlockSize \in Nat
    BY <1>8
  <2> QED BY <1>6, <2>1, <2>2 DEF TypeOK, Reserve
<1>10. Conservation'
  <2>1. lent' = lent
    BY DEF Reserve
  <2>2. lent \subseteq reserved
    BY DEF Conservation
  <2> QED BY <1>2, <1>6, <1>7, <2>1, <2>2 DEF Conservation
<1>11. CountersExact'
  <2>1. IsFiniteSet(Range(new)) /\ Cardinality(Range(new)) = n
    BY <1>1, InjectionCardinality
  <2>2. IsFiniteSet(reserved) /\ Cardinality(reserved) = total_count
    BY ReservedFinite DEF CountersExact
  <2>3. Range(new) \intersect reserved = {}
    BY <1>2
  <2>4. Cardinality(Range(new) \union reserved) = n + total_count
    <3>1. Cardinality(Range(new) \intersect reserved) = 0
      BY <2>3, FS_EmptySet, Zenon
    <3>2. Cardinality(Range(new) \union reserved)
            = Cardinality(Range(new)) + Cardinality(reserved)
                - Cardinality(Range(new) \intersect reserved)
      BY <2>1, <2>2, FS_Union
    <3> QED BY <2>1, <2>2, <3>1, <3>2 DEF TypeOK
  <2>5. (total_count + n) * BlockSize = total_count * BlockSize + n * BlockSize
    BY <1>8 DEF TypeOK
  <2> QED BY <1>6, <1>7, <2>4, <2>5 DEF CountersExact, TypeOK, Reserve
<1> QED BY <1>9, <1>10, <1>11

(* Blocks that are lent were free, and are no longer. *)
LEMMA AllocPoolInv ==
  ASSUME PoolInv, NEW n \in Nat, AllocByBlocks(n)
  PROVE  PoolInv'
<1> USE DEF PoolInv
<1>1. n \in 0..Len(stack) /\ stack \in Seq(Block) /\ IsInjective(stack)
  BY DEF AllocByBlocks, CanAlloc, CountersExact, TypeOK, Conservation
<1>2. /\ stack' = SubSeq(stack, n + 1, Len(stack))
      /\ free_count' = free_count - n
      /\ lent' = lent \union Range(SubSeq(stack, 1, n))
      /\ UNCHANGED <<total_count, pool_size, pools>>
  BY DEF AllocByBlocks, PopStack, AllocChain
<1>3. /\ stack' \in Seq(Block) /\ Len(stack') = Len(stack) - n /\ IsInjective(stack')
      /\ Range(stack) = Range(SubSeq(stack, 1, n)) \union Range(stack')
      /\ Range(SubSeq(stack, 1, n)) \intersect Range(stack') = {}
  BY <1>1, <1>2, CutChain
<1>4. reserved' = reserved
  BY <1>2 DEF reserved
<1>5. Range(stack) \subseteq Block
  BY <1>1 DEF Range
<1>6. TypeOK'
  BY <1>1, <1>2, <1>3, <1>5 DEF TypeOK, CountersExact
<1>7. Conservation'
  BY <1>2, <1>3, <1>4 DEF Conservation
<1>8. CountersExact'
  BY <1>1, <1>2, <1>3, <1>4 DEF CountersExact
<1> QED BY <1>6, <1>7, <1>8

(* Blocks that come back were lent, and are free again. *)
LEMMA FreePoolInv ==
  ASSUME PoolInv, NEW list \in LentLists, Free(list)
  PROVE  PoolInv'
<1> USE DEF PoolInv
<1>1. PICK n \in Nat : list \in Injection(1..n, lent)
  BY DEF LentLists
<1>2. list \in Seq(lent) /\ Len(list) = n /\ IsInjective(list) /\ Range(list) \subseteq lent
  BY <1>1, InjectionIsChain
<1>3. lent \subseteq Block /\ stack \in Seq(Block) /\ IsInjective(stack)
  BY DEF TypeOK, Conservation
<1>4. list \in Seq(Block)
  BY <1>2, <1>3
<1>5. /\ stack' = list \o stack
      /\ free_count' = free_count + Len(list)
      /\ lent' = lent \ Range(list)
      /\ UNCHANGED <<total_count, pool_size, pools>>
  BY DEF Free, PushStack
<1>6. /\ stack' \in Seq(Block) /\ Len(stack') = Len(list) + Len(stack)
      /\ Range(stack') = Range(list) \union Range(stack) /\ IsInjective(stack')
  <2>1. Range(list) \intersect Range(stack) = {}
    BY <1>2 DEF Conservation
  <2> QED BY <1>2, <1>3, <1>4, <1>5, <2>1, ConcatChain
<1>7. reserved' = reserved
  BY <1>5 DEF reserved
<1>8. TypeOK'
  BY <1>2, <1>3, <1>5, <1>6 DEF TypeOK
<1>9. Conservation'
  BY <1>2, <1>5, <1>6, <1>7 DEF Conservation
<1>10. CountersExact'
  BY <1>2, <1>5, <1>6, <1>7 DEF CountersExact, TypeOK
<1> QED BY <1>8, <1>9, <1>10

(* clear() gives everything back. *)
LEMMA ClearPoolInv ==
  ASSUME PoolInv, Clear
  PROVE  PoolInv'
<1>1. TypeOK'
  BY DEF Clear, TypeOK
<1>2. reserved' = {}
  BY DEF Clear, reserved
<1>3. Conservation'
  BY <1>2 DEF Clear, Conservation, IsInjective, Range
<1>4. CountersExact'
  BY <1>2, FS_EmptySet, BlockSizeAssumption DEF Clear, CountersExact
<1> QED BY <1>1, <1>3, <1>4 DEF PoolInv

(* Every step keeps the invariant. *)
LEMMA NextPoolInv ==
  ASSUME PoolInv, [Next]_vars
  PROVE  PoolInv'
<1>1. Cardinality(Block) \in Nat /\ BlockSize \in Nat
  BY BlockAssumption, BlockSizeAssumption, FS_CardinalityType
<1>2. ASSUME NEW n \in 0..Cardinality(Block), Reserve(n)
      PROVE  PoolInv'
  BY <1>1, <1>2, ReservePoolInv
<1>3. ASSUME NEW n \in 0..Cardinality(Block), AllocByBlocks(n)
      PROVE  PoolInv'
  BY <1>1, <1>3, AllocPoolInv
<1>4. ASSUME NEW size \in 0..Cardinality(Block) * BlockSize, ReserveBySize(size)
      PROVE  PoolInv'
  BY <1>1, <1>4, BlocksForType, ReservePoolInv DEF ReserveBySize
<1>5. ASSUME NEW size \in 0..Cardinality(Block) * BlockSize, AllocBySize(size)
      PROVE  PoolInv'
  BY <1>1, <1>5, BlocksForType, AllocPoolInv DEF AllocBySize
<1>6. ASSUME NEW list \in LentLists, Free(list)
      PROVE  PoolInv'
  BY <1>6, FreePoolInv
<1>7. CASE Clear
  BY <1>7, ClearPoolInv
<1>8. ASSUME NEW min_size \in 0..Cardinality(Block), InitPool(min_size)
      PROVE  PoolInv'
  <2>1. min_size - total_count \in Nat
    BY <1>1, <1>8 DEF InitPool, PoolInv, TypeOK
  <2> QED BY <1>8, <2>1, ReservePoolInv DEF InitPool
<1>9. CASE UNCHANGED vars
  BY <1>9 DEF vars, PoolInv, TypeOK, Conservation, CountersExact, reserved
<1> QED BY <1>2, <1>3, <1>4, <1>5, <1>6, <1>7, <1>8, <1>9 DEF Next

(* Whatever is reserved, lent, returned and cleared, every block is either *)
(* free or lent, once, and the three counters of the pool say how many.    *)
THEOREM PoolInvariant == Spec => []PoolInv
<1>1. PoolInv /\ [Next]_vars => PoolInv'
  BY NextPoolInv
<1> QED BY <1>1, InitPoolInv, PTL DEF Spec

(* The variables keep their types: in particular free_count never wraps    *)
(* below zero, although allocByBlocks subtracts from an unsigned counter.  *)
THEOREM TypeCorrect == Spec => []TypeOK
<1>1. PoolInv => TypeOK
  BY DEF PoolInv
<1> QED BY <1>1, PoolInvariant, PTL

(* No block is lost and none is lent twice. *)
THEOREM PoolConservation == Spec => []Conservation
<1>1. PoolInv => Conservation
  BY DEF PoolInv
<1> QED BY <1>1, PoolInvariant, PTL

(* The counters that allocByBlocks trusts are exact. *)
THEOREM PoolCounters == Spec => []CountersExact
<1>1. PoolInv => CountersExact
  BY DEF PoolInv
<1> QED BY <1>1, PoolInvariant, PTL
=============================================================================
