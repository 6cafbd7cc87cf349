------------------------- MODULE BufferStreamProofs -------------------------
(***************************************************************************)
(* The streams' chains fit their data, never share a block and use the     *)
(* pool as it asks to be used, for every block size, set of streams and    *)
(* set of packets.  ChainFits is what makes the rest work: a write finds   *)
(* the room in its last block by arithmetic alone, and a read decides by   *)
(* arithmetic alone which blocks to give back.                             *)
(*                                                                         *)
(* A stream is a queue of bytes: byte i of it is in a cell that follows    *)
(* from offset and chain, no two bytes have the same one, and so a write   *)
(* and a read change what the others hold by nothing.  Output buffers give *)
(* the peer what was put into them, because they are such queues.          *)
(***************************************************************************)
EXTENDS OutputBuffers, ChainLemmas

held == UNION {Range(chain[s]) : s \in Stream}

PoolP == INSTANCE BlocksPoolProofs WITH lent <- UNION {Range(chain[s]) : s \in Stream}

-----------------------------------------------------------------------------
(* The pool's module has its own copy of the library's operators. *)

(* The pool's instance has operators of the same meaning: Range, *)
LEMMA PoolRange == \A f : Pool!Range(f) = Range(f)
BY DEF Pool!Range, Range

(* IsInjective, *)
LEMMA PoolInjective == \A f : Pool!IsInjective(f) <=> IsInjective(f)
BY DEF Pool!IsInjective, IsInjective

(* Cardinality, *)
LEMMA PoolCardinality == \A S : Pool!Cardinality(S) = Cardinality(S)
BY DEF Pool!Cardinality, Cardinality

(* and Reverse. *)
LEMMA PoolReverse == \A s : Pool!Reverse(s) = Reverse(s)
BY DEF Pool!Reverse, Reverse

-----------------------------------------------------------------------------
(* Rounding to blocks. *)

(* BlocksFor rounds up: the blocks hold the bytes, and one fewer does not. *)
LEMMA BlocksForBounds ==
  ASSUME NEW x \in Nat
  PROVE  /\ Pool!BlocksFor(x) \in Nat
         /\ x <= Pool!BlocksFor(x) * BlockSize
         /\ Pool!BlocksFor(x) * BlockSize < x + BlockSize
BY BlockSizeAssumption, CeilBounds DEF Pool!BlocksFor

(* No other number of blocks rounds up so. *)
LEMMA BlocksForUnique ==
  ASSUME NEW x \in Nat, NEW k \in Int,
         x <= k * BlockSize, k * BlockSize < x + BlockSize
  PROVE  Pool!BlocksFor(x) = k
BY BlockSizeAssumption, CeilUnique DEF Pool!BlocksFor

(* No bytes take no block. *)
LEMMA BlocksForZero == Pool!BlocksFor(0) = 0
<1>1. BlockSize \in Nat /\ BlockSize > 0
  BY BlockSizeAssumption
<1> QED BY <1>1, BlocksForUnique

(* Some bytes take a block at least. *)
LEMMA BlocksForPositive ==
  ASSUME NEW x \in Nat, x > 0
  PROVE  Pool!BlocksFor(x) > 0
<1>1. CASE Pool!BlocksFor(x) = 0
  <2>1. 0 * BlockSize = 0
    BY BlockSizeAssumption
  <2> QED BY <1>1, <2>1, BlocksForBounds
<1> QED BY <1>1, BlocksForBounds

(* The room that write() computes in the last block is the room between    *)
(* the data and the end of the chain.                                      *)
LEMMA RestIsRoom ==
  ASSUME StreamInv, NEW s \in Stream, size[s] > 0
  PROVE  /\ Rest(s) = Len(chain[s]) * BlockSize - (offset[s] + size[s])
         /\ Rest(s) \in Nat
<1> DEFINE B == BlockSize
           e == offset[s] + size[s]
           L == Len(chain[s])
<1>1. B \in Nat \ {0}
  BY BlockSizeAssumption
<1>2. e \in Nat /\ size[s] \in Nat
  BY DEF StreamInv, TypeOK
<1>3. L \in Nat /\ L = Pool!BlocksFor(e)
  BY DEF StreamInv, TypeOK, ChainFits
<1>4. e <= L * B /\ L * B < e + B
  BY <1>2, <1>3, BlocksForBounds
<1>5. e \div B \in Nat /\ e % B \in 0..B - 1 /\ e = B * (e \div B) + (e % B)
  BY <1>1, <1>2, DivMod
<1>6. Rest(s) = IF e % B > 0 THEN B - (e % B) ELSE 0
  BY DEF Rest, Pos
<1> HIDE DEF B, e, L
<1>7. CASE e % B > 0
  <2>1. e <= (e \div B + 1) * B /\ (e \div B + 1) * B < e + B
    BY <1>1, <1>5, <1>7, SMTT(30)
  <2>2. L = e \div B + 1
    <3>1. L < (e \div B + 1) + 1
      <4>1. L * B < ((e \div B + 1) + 1) * B
        BY <1>1, <1>2, <1>3, <1>4, <1>5, <2>1
      <4> QED BY <4>1, <1>1, <1>3, <1>5, TimesMonotone
    <3>2. e \div B + 1 < L + 1
      <4>1. (e \div B + 1) * B < (L + 1) * B
        BY <1>1, <1>2, <1>3, <1>4, <1>5, <2>1
      <4> QED BY <4>1, <1>1, <1>3, <1>5, TimesMonotone
    <3> QED BY <3>1, <3>2, <1>3, <1>5
  <2>3. L * B = B * (e \div B) + B
    BY <2>2, <1>1, <1>5
  <2>4. Rest(s) = L * B - e /\ Rest(s) \in Nat
    BY <2>3, <1>1, <1>5, <1>6, <1>7
  <2> QED BY <2>4 DEF B, e, L
<1>8. CASE e % B = 0
  <2>1. L = e \div B
    <3>1. L < e \div B + 1
      <4>1. L * B < (e \div B + 1) * B
        BY <1>1, <1>2, <1>3, <1>4, <1>5, <1>8
      <4> QED BY <4>1, <1>1, <1>3, <1>5, TimesMonotone
    <3>2. e \div B < L + 1
      <4>1. (e \div B) * B < (L + 1) * B
        BY <1>1, <1>2, <1>3, <1>4, <1>5, <1>8
      <4> QED BY <4>1, <1>1, <1>3, <1>5, TimesMonotone
    <3> QED BY <3>1, <3>2, <1>3, <1>5
  <2> QED BY <2>1, <1>1, <1>5, <1>6, <1>8 DEF B, e, L
<1> QED BY <1>5, <1>7, <1>8

(* An empty stream has no chain, so write() may set "first" anew. *)
LEMMA EmptyHasNoChain ==
  ASSUME StreamInv, NEW s \in Stream, size[s] = 0
  PROVE  chain[s] = <<>> /\ offset[s] = 0 /\ Rest(s) = 0
<1>1. offset[s] = 0 /\ Len(chain[s]) = Pool!BlocksFor(0 + 0)
  BY DEF StreamInv, ChainFits
<1>2. Len(chain[s]) = 0 /\ chain[s] \in Seq(Block)
  BY <1>1, BlocksForZero DEF StreamInv, TypeOK
<1> QED BY <1>1, <1>2 DEF Rest

-----------------------------------------------------------------------------
(* What one stream's new chain does to the blocks held by all. *)

(* The streams' blocks after one stream's chain has changed. *)
LEMMA HeldAfter ==
  ASSUME NEW s \in Stream, NEW c, DOMAIN chain = Stream,
         chain' = [chain EXCEPT ![s] = c]
  PROVE  held' = Range(c) \union UNION {Range(chain[t]) : t \in Stream \ {s}}
<1>1. \A t \in Stream : chain'[t] = IF t = s THEN c ELSE chain[t]
  OBVIOUS
<1> QED BY <1>1 DEF held

(* A step that leaves the pool alone leaves its reserve. *)
LEMMA ReservedUnchanged ==
  ASSUME UNCHANGED pools
  PROVE  Pool!reserved' = Pool!reserved
BY DEF Pool!reserved

-----------------------------------------------------------------------------
(* The steps. *)

(* Init: all streams are empty, and hold no block. *)
LEMMA InitStreamInv == Init => StreamInv
<1> SUFFICES ASSUME Init PROVE StreamInv
  OBVIOUS
<1>1. BlockSize \in Nat /\ BlockSize > 0
  BY BlockSizeAssumption
<1>2. chain = [s \in Stream |-> <<>>] /\ pools = <<>> /\ stack = <<>>
  BY DEF Init, Pool!Init
<1>3. Range(<<>>) = {} /\ IsInjective(<<>>)
  BY DEF Range, IsInjective
<1>4. held = {}
  BY <1>2, <1>3 DEF held
<1>5. TypeOK
  <2>1. Pool!TypeOK
    BY <1>4 DEF Init, Pool!Init, Pool!TypeOK, held
  <2> QED BY <2>1, <1>1 DEF Init, TypeOK
<1>6. ChainFits
  BY <1>1, BlocksForZero DEF Init, ChainFits
<1>7. LastIsTail
  BY DEF Init, LastIsTail
<1>8. ChainsDisjoint
  BY <1>2, <1>3 DEF ChainsDisjoint
<1>9. Pool!reserved = {}
  BY <1>2 DEF Pool!reserved
<1>10. Pool!Conservation
  BY <1>2, <1>3, <1>4, <1>9, PoolRange, PoolInjective DEF Pool!Conservation, held
<1>11. Pool!CountersExact
  BY <1>1, <1>2, <1>9, FS_EmptySet, PoolCardinality DEF Init, Pool!Init, Pool!CountersExact
<1> QED BY <1>5, <1>6, <1>7, <1>8, <1>10, <1>11 DEF StreamInv

(* What every part of the invariant says of the pool's own variables. *)
LEMMA PoolFacts ==
  ASSUME StreamInv
  PROVE  /\ stack \in Seq(Block) /\ IsInjective(stack)
         /\ free_count = Len(stack)
         /\ held \subseteq Block
         /\ Range(stack) \intersect held = {}
         /\ Range(stack) \union held = Pool!reserved
         /\ \A s \in Stream : chain[s] \in Seq(Block) /\ Range(chain[s]) \subseteq held
         /\ DOMAIN chain = Stream
BY PoolRange, PoolInjective DEF StreamInv, TypeOK, Pool!TypeOK, Pool!Conservation, Pool!CountersExact, held

(* A step that leaves the macro-blocks alone keeps the pool's part of the  *)
(* invariant if it moves blocks between the stack and the streams.         *)
LEMMA PoolPart ==
  ASSUME StreamInv,
         UNCHANGED <<total_count, pool_size, pools>>,
         free_count' = Len(stack'),
         stack' \in Seq(Block), IsInjective(stack'),
         Range(stack') \intersect held' = {},
         Range(stack') \union held' = Range(stack) \union held
  PROVE  Pool!TypeOK' /\ Pool!Conservation' /\ Pool!CountersExact'
<1>1. Pool!reserved' = Pool!reserved
  BY ReservedUnchanged
<1>2. held' \subseteq Block
  BY PoolFacts DEF Range
<1>3. Pool!TypeOK'
  BY <1>2 DEF StreamInv, TypeOK, Pool!TypeOK, held
<1>4. Pool!Conservation'
  BY <1>1, PoolFacts, PoolRange, PoolInjective DEF Pool!Conservation, held
<1>5. Pool!CountersExact'
  BY <1>1 DEF StreamInv, Pool!CountersExact
<1> QED BY <1>3, <1>4, <1>5

(* What write() does to the one chain it extends, in terms of the pool. *)
LEMMA WriteFacts ==
  ASSUME StreamInv, NEW s \in Stream, NEW packet \in Packet, Write(s, packet)
  PROVE  LET need == Need(s, Len(packet))
             new == SubSeq(stack, 1, need)
         IN  /\ Len(packet) \in Nat \ {0}
             /\ need \in 0..Len(stack)
             /\ new \in Seq(Block) /\ Len(new) = need /\ IsInjective(new)
             /\ stack' = SubSeq(stack, need + 1, Len(stack))
             /\ stack' \in Seq(Block) /\ IsInjective(stack')
             /\ Len(stack') = Len(stack) - need
             /\ Range(stack) = Range(new) \union Range(stack')
             /\ Range(new) \intersect Range(stack') = {}
             /\ chain' = [chain EXCEPT ![s] = chain[s] \o new]
             /\ need = 0 => size[s] > 0
<1> DEFINE len == Len(packet)
           need == Need(s, len)
           new == SubSeq(stack, 1, need)
<1>1. len \in Nat \ {0}
  BY PacketAssumption DEF Write
<1>2. Rest(s) \in Nat /\ (size[s] = 0 => Rest(s) = 0)
  <2>1. CASE size[s] = 0
    BY <2>1, EmptyHasNoChain
  <2>2. CASE size[s] > 0
    BY <2>2, RestIsRoom
  <2> QED BY <2>1, <2>2 DEF StreamInv, TypeOK
<1>3. need \in Nat /\ (need = 0 => size[s] > 0)
  <2>1. CASE len <= Rest(s)
    BY <2>1, <1>1, <1>2 DEF Need, StreamInv, TypeOK
  <2>2. CASE len > Rest(s)
    <3>1. len - Rest(s) \in Nat /\ len - Rest(s) > 0
      BY <2>2, <1>1, <1>2
    <3>2. need = Pool!BlocksFor(len - Rest(s))
      BY <2>2, <1>1, <1>2 DEF Need
    <3> QED BY <3>1, <3>2, BlocksForBounds, BlocksForPositive
  <2> QED BY <2>1, <2>2, <1>1, <1>2
<1>4. need \in 0..Len(stack)
  <2>1. need = 0 \/ need <= free_count
    BY DEF Write, Accepts, Pool!CanAlloc
  <2> QED BY <2>1, <1>3, PoolFacts
<1>5. stack' = SubSeq(stack, need + 1, Len(stack))
  BY DEF Write, Pool!PopStack
<1>6. chain' = [chain EXCEPT ![s] = IF size[s] > 0 THEN chain[s] \o new ELSE new]
  BY DEF Write, Pool!AllocChain
<1> HIDE DEF need
<1>7. /\ new \in Seq(Block) /\ Len(new) = need /\ IsInjective(new)
      /\ stack' \in Seq(Block) /\ IsInjective(stack')
      /\ Len(stack') = Len(stack) - need
      /\ Range(stack) = Range(new) \union Range(stack')
      /\ Range(new) \intersect Range(stack') = {}
  BY <1>4, <1>5, PoolFacts, CutChain
<1>8. chain' = [chain EXCEPT ![s] = chain[s] \o new]
  <2>1. CASE size[s] > 0
    BY <2>1, <1>6
  <2>2. CASE size[s] = 0
    <3>1. chain[s] = <<>>
      BY <2>2, EmptyHasNoChain
    <3>2. new \in Seq(Block)
      BY <1>7
    <3>3. <<>> \o new = new
      BY <3>2
    <3> QED BY <2>2, <3>1, <3>3, <1>6
  <2>3. size[s] \in Nat
    BY DEF StreamInv, TypeOK
  <2>4. size[s] = 0 \/ size[s] > 0
    BY <2>3
  <2> QED BY <2>1, <2>2, <2>4, Zenon
<1> QED BY <1>1, <1>3, <1>4, <1>5, <1>7, <1>8 DEF need

(* Two disjoint chains stay so when one of them takes blocks off the stack. *)
LEMMA WriteStreamInv ==
  ASSUME StreamInv, NEW s \in Stream, NEW packet \in Packet, Write(s, packet)
  PROVE  StreamInv'
<1> DEFINE len == Len(packet)
           need == Need(s, len)
           new == SubSeq(stack, 1, need)
           grown == chain[s] \o new
<1>1. /\ len \in Nat \ {0} /\ need \in 0..Len(stack)
      /\ new \in Seq(Block) /\ Len(new) = need /\ IsInjective(new)
      /\ stack' \in Seq(Block) /\ IsInjective(stack') /\ Len(stack') = Len(stack) - need
      /\ Range(stack) = Range(new) \union Range(stack')
      /\ Range(new) \intersect Range(stack') = {}
      /\ chain' = [chain EXCEPT ![s] = grown]
      /\ need = 0 => size[s] > 0
  BY WriteFacts
<1>2. /\ size' = [size EXCEPT ![s] = @ + len]
      /\ offset' = [offset EXCEPT ![s] = IF size[s] > 0 THEN @ ELSE 0]
      /\ last' = [last EXCEPT ![s] = IF need > 0 THEN new[need] ELSE @]
      /\ mem' = Copied(s, new, packet)
      /\ free_count' = free_count - need
      /\ UNCHANGED <<total_count, pool_size, pools>>
      /\ wild' = IF need > 0 THEN wild \ {s} ELSE wild
      /\ ret' = len /\ quota' = quota
  BY DEF Write, Pool!PopStack, Pool!AllocChain
<1> HIDE DEF len, need, new
<1>3. /\ chain[s] \in Seq(Block) /\ IsInjective(chain[s])
      /\ Range(chain[s]) \intersect Range(stack) = {}
  BY PoolFacts DEF StreamInv, ChainsDisjoint
<1>4. /\ grown \in Seq(Block) /\ Len(grown) = Len(chain[s]) + need
      /\ Range(grown) = Range(chain[s]) \union Range(new)
      /\ IsInjective(grown)
  <2>1. Range(chain[s]) \intersect Range(new) = {}
    BY <1>1, <1>3
  <2> DEFINE c == chain[s]
  <2>2. c \in Seq(Block) /\ IsInjective(c) /\ Range(c) \intersect Range(new) = {}
    BY <1>3, <2>1
  <2> HIDE DEF c
  <2>3. /\ c \o new \in Seq(Block) /\ Len(c \o new) = Len(c) + Len(new)
        /\ Range(c \o new) = Range(c) \union Range(new)
        /\ IsInjective(c \o new)
    <3>1. new \in Seq(Block) /\ IsInjective(new)
      BY <1>1
    <3> QED BY <2>2, <3>1, ConcatChain
  <2> QED BY <1>1, <2>3 DEF c
<1> HIDE DEF grown
<1>5. \A t \in Stream : chain'[t] = IF t = s THEN grown ELSE chain[t]
  BY <1>1, PoolFacts
<1>6. held' = held \union Range(new)
  BY <1>4, <1>5 DEF held
<1>7. Pool!TypeOK' /\ Pool!Conservation' /\ Pool!CountersExact'
  <2>1. free_count' = Len(stack')
    BY <1>1, <1>2, PoolFacts
  <2>2. Range(stack') \intersect held' = {}
    BY <1>1, <1>6, PoolFacts
  <2>3. Range(stack') \union held' = Range(stack) \union held
    BY <1>1, <1>6
  <2> QED BY <1>1, <1>2, <2>1, <2>2, <2>3, PoolPart
<1>8. /\ \A t \in Stream : size[t] \in Nat /\ offset[t] \in Nat
      /\ DOMAIN size = Stream /\ DOMAIN offset = Stream /\ DOMAIN last = Stream
  BY DEF StreamInv, TypeOK
<1>9. TypeOK'
  <2>1. chain' \in [Stream -> Seq(Block)]
    BY <1>1, <1>4 DEF StreamInv, TypeOK
  <2>2. last' \in [Stream -> Block \union {Null}]
    <3>1. need > 0 => new[need] \in Block
      BY <1>1
    <3> QED BY <1>2, <3>1 DEF StreamInv, TypeOK
  <2>3. mem' \in [Block \X (0..BlockSize - 1) -> Byte \union {Junk}]
    <3>1. packet \in Seq(Byte)
      BY PacketAssumption
    <3>2. \A i \in DOMAIN packet : packet[i] \in Byte
      BY <3>1
    <3> DEFINE dirty == {Cell(s, new, i) : i \in DOMAIN packet}
    <3>3. ASSUME NEW c \in dirty
          PROVE  packet[CHOOSE i \in DOMAIN packet : Cell(s, new, i) = c] \in Byte
      BY <3>2
    <3> QED BY <1>2, <3>3 DEF Copied, StreamInv, TypeOK
  <2>4. size' \in [Stream -> Nat] /\ offset' \in [Stream -> Nat]
    BY <1>1, <1>2 DEF StreamInv, TypeOK
  <2>5. wild' \in SUBSET Stream /\ quota' \in [Stream -> Nat] /\ ret' \in Nat
    BY <1>1, <1>2 DEF StreamInv, TypeOK
  <2> QED BY <1>7, <2>1, <2>2, <2>3, <2>4, <2>5 DEF TypeOK
<1>10. ChainFits'
  <2>1. BlockSize \in Nat \ {0}
    BY BlockSizeAssumption
  <2>2. offset[s] < BlockSize /\ Len(chain[s]) \in Nat
    BY <1>3 DEF StreamInv, ChainFits
  <2>3. offset'[s] + size'[s] = offset[s] + size[s] + len /\ offset'[s] = offset[s]
    <3>1. size[s] = 0 => offset[s] = 0
      BY DEF StreamInv, ChainFits
    <3> QED BY <1>1, <1>2, <1>8, <3>1
  <2> DEFINE e == offset[s] + size[s]
             L == Len(chain[s])
  <2>4. e \in Nat /\ L = Pool!BlocksFor(e) /\ e <= L * BlockSize /\ L * BlockSize < e + BlockSize
    <3>1. e \in Nat /\ L = Pool!BlocksFor(e)
      BY <1>8 DEF StreamInv, ChainFits
    <3> QED BY <3>1, BlocksForBounds
  <2>5. Rest(s) = L * BlockSize - e /\ Rest(s) \in Nat
    <3>1. CASE size[s] > 0
      BY <3>1, RestIsRoom
    <3>2. CASE size[s] = 0
      <4>1. Rest(s) = 0 /\ e = 0 /\ L = 0
        BY <3>2, EmptyHasNoChain
      <4> QED BY <4>1, <2>1
    <3> QED BY <3>1, <3>2, <1>8
  <2>6. L + need = Pool!BlocksFor(e + len)
    <3>1. CASE len <= Rest(s)
      <4>1. need = 0
        BY <3>1 DEF Need, need, len
      <4>2. e + len <= L * BlockSize /\ L * BlockSize < (e + len) + BlockSize
        BY <3>1, <2>4, <2>5, <1>1, <2>1, SMTT(30)
      <4>3. e + len \in Nat /\ L \in Int
        BY <1>1, <2>2, <2>4
      <4> QED BY <4>1, <4>2, <4>3, BlocksForUnique
    <3>2. CASE len > Rest(s)
      <4>1. need = Pool!BlocksFor(len - Rest(s))
        BY <3>2, <1>1, <2>5 DEF Need, need, len
      <4>2. len - Rest(s) \in Nat
        BY <3>2, <1>1, <2>5
      <4>3. len - Rest(s) <= need * BlockSize /\ need * BlockSize < len - Rest(s) + BlockSize
        BY <4>1, <4>2, BlocksForBounds
      <4>4. L \in Nat /\ need \in Nat /\ BlockSize \in Nat /\ e \in Nat /\ len \in Nat
        BY <1>1, <2>1, <2>2, <2>4
      <4> HIDE DEF L, e
      <4>5. (L + need) * BlockSize = L * BlockSize + need * BlockSize
        BY <4>4
      <4>6. e + len <= (L + need) * BlockSize /\ (L + need) * BlockSize < (e + len) + BlockSize
        <5> DEFINE X == L * BlockSize
                   Y == need * BlockSize
        <5>1. X \in Nat /\ Y \in Nat
          BY <4>4
        <5>2. len - (X - e) <= Y /\ Y < len - (X - e) + BlockSize
          BY <4>3, <2>5
        <5> HIDE DEF X, Y
        <5>3. e + len <= X + Y /\ X + Y < (e + len) + BlockSize
          BY <4>4, <5>1, <5>2
        <5> QED BY <4>5, <5>3 DEF X, Y
      <4>7. e + len \in Nat /\ L + need \in Int
        BY <4>4
      <4> QED BY <4>6, <4>7, BlocksForUnique
    <3> QED BY <3>1, <3>2, <1>1, <2>5
  <2>7. Len(chain'[s]) = Pool!BlocksFor(offset'[s] + size'[s])
    BY <1>4, <1>5, <2>3, <2>6
  <2>8. size'[s] # 0
    BY <1>1, <1>2, <1>8
  <2>9. \A t \in Stream \ {s} : /\ size'[t] = size[t] /\ offset'[t] = offset[t]
                                /\ chain'[t] = chain[t]
    BY <1>2, <1>5
  <2> QED BY <2>2, <2>3, <2>7, <2>8, <2>9 DEF StreamInv, ChainFits, Pool!BlocksFor
<1>11. LastIsTail'
  <2>1. CASE need > 0
    <3>1. last'[s] = new[need]
      BY <2>1, <1>2, <1>8
    <3>2. grown[Len(grown)] = new[need]
      BY <2>1, <1>1, <1>3, <1>4 DEF grown
    <3>3. \A t \in Stream \ {s} : /\ size'[t] = size[t] /\ last'[t] = last[t]
                                  /\ chain'[t] = chain[t]
      BY <1>2, <1>5
    <3> QED BY <1>5, <3>1, <3>2, <3>3 DEF StreamInv, LastIsTail, Last
  <2>2. CASE need = 0
    <3>1. grown = chain[s]
      BY <2>2, <1>1, <1>3 DEF grown
    <3>2. chain' = chain /\ last' = last
      <4>1. chain \in [Stream -> Seq(Block)] /\ last \in [Stream -> Block \union {Null}]
        BY DEF StreamInv, TypeOK
      <4>2. chain' = [chain EXCEPT ![s] = chain[s]] /\ last' = [last EXCEPT ![s] = last[s]]
        BY <2>2, <1>1, <1>2, <3>1
      <4> QED BY <4>1, <4>2
    <3>3. \A t \in Stream : size'[t] > 0 => size[t] > 0
      BY <2>2, <1>1, <1>2, <1>8
    <3> QED BY <3>2, <3>3 DEF StreamInv, LastIsTail
  <2> QED BY <2>1, <2>2, <1>1
<1>12. ChainsDisjoint'
  <2>1. \A t \in Stream \ {s} : Range(chain[t]) \intersect Range(grown) = {}
    <3> SUFFICES ASSUME NEW t \in Stream \ {s}
                 PROVE  Range(chain[t]) \intersect Range(grown) = {}
      OBVIOUS
    <3>1. Range(chain[t]) \intersect Range(chain[s]) = {}
      BY DEF StreamInv, ChainsDisjoint
    <3>2. Range(chain[t]) \intersect Range(new) = {}
      BY <1>1, PoolFacts
    <3> QED BY <3>1, <3>2, <1>4
  <2> QED BY <1>4, <1>5, <2>1 DEF StreamInv, ChainsDisjoint
<1> QED BY <1>7, <1>9, <1>10, <1>11, <1>12 DEF StreamInv

(* A stream gives its first k blocks back, in whatever order. *)
LEMMA GiveBack ==
  ASSUME StreamInv, NEW s \in Stream, NEW k \in 0..Len(chain[s]), NEW list \in Seq(Block),
         IsInjective(list), Len(list) = k, Range(list) = Range(SubSeq(chain[s], 1, k)),
         Pool!PushStack(list),
         chain' = [chain EXCEPT ![s] = SubSeq(chain[s], k + 1, Len(chain[s]))]
  PROVE  /\ Pool!TypeOK' /\ Pool!Conservation' /\ Pool!CountersExact'
         /\ ChainsDisjoint'
         /\ chain' \in [Stream -> Seq(Block)]
         /\ Len(chain'[s]) = Len(chain[s]) - k
         /\ \A t \in Stream \ {s} : chain'[t] = chain[t]
         /\ Range(list) \subseteq held
         /\ held' = held \ Range(list)
<1> DEFINE c == chain[s]
           rest == SubSeq(c, k + 1, Len(c))
<1>1. c \in Seq(Block) /\ IsInjective(c) /\ k \in 0..Len(c) /\ Range(c) \subseteq held
  BY PoolFacts DEF StreamInv, ChainsDisjoint
<1>2. /\ stack' = list \o stack /\ free_count' = free_count + Len(list)
      /\ UNCHANGED <<total_count, pool_size, pools>>
  BY DEF Pool!PushStack
<1>3. /\ Range(list) = Range(SubSeq(c, 1, k))
      /\ chain' = [chain EXCEPT ![s] = rest]
  OBVIOUS
<1> HIDE DEF c
<1>4. /\ rest \in Seq(Block) /\ Len(rest) = Len(c) - k /\ IsInjective(rest)
      /\ Range(c) = Range(list) \union Range(rest)
      /\ Range(list) \intersect Range(rest) = {}
  BY <1>1, <1>3, CutChain
<1> HIDE DEF rest
<1>5. chain' \in [Stream -> Seq(Block)] /\ \A t \in Stream : chain'[t] = IF t = s THEN rest ELSE chain[t]
  BY <1>3, <1>4 DEF StreamInv, TypeOK
<1>6. \A t \in Stream \ {s} : Range(chain[t]) \intersect Range(c) = {}
  BY DEF StreamInv, ChainsDisjoint, c
<1>7. held' = held \ Range(list)
  <2>1. \A t \in Stream \ {s} : Range(chain'[t]) = Range(chain[t]) \ Range(list)
    BY <1>4, <1>5, <1>6
  <2>2. Range(chain'[s]) = Range(chain[s]) \ Range(list)
    BY <1>4, <1>5 DEF c
  <2>3. \A t \in Stream : Range(chain'[t]) = Range(chain[t]) \ Range(list)
    BY <2>1, <2>2
  <2> QED BY <2>3 DEF held
<1>8. Range(list) \subseteq held
  BY <1>1, <1>4
<1>9. /\ stack' \in Seq(Block) /\ Len(stack') = k + Len(stack)
      /\ Range(stack') = Range(list) \union Range(stack) /\ IsInjective(stack')
  <2>1. stack \in Seq(Block) /\ IsInjective(stack) /\ Range(list) \intersect Range(stack) = {}
    BY <1>8, PoolFacts
  <2>2. /\ list \o stack \in Seq(Block) /\ Len(list \o stack) = Len(list) + Len(stack)
        /\ Range(list \o stack) = Range(list) \union Range(stack)
        /\ IsInjective(list \o stack)
    BY <2>1, ConcatChain
  <2> QED BY <1>2, <2>2
<1>10. Pool!TypeOK' /\ Pool!Conservation' /\ Pool!CountersExact'
  <2>1. free_count' = Len(stack')
    <3>1. free_count = Len(stack) /\ Len(list) = k /\ Len(stack) \in Nat /\ k \in Nat
      BY PoolFacts
    <3> QED BY <1>2, <1>9, <3>1
  <2>2. Range(stack') \intersect held' = {}
    BY <1>7, <1>9, PoolFacts
  <2>3. Range(stack') \union held' = Range(stack) \union held
    BY <1>7, <1>8, <1>9
  <2> QED BY <1>2, <1>9, <2>1, <2>2, <2>3, PoolPart
<1>11. ChainsDisjoint'
  BY <1>4, <1>5, <1>6 DEF StreamInv, ChainsDisjoint
<1> QED BY <1>4, <1>5, <1>7, <1>8, <1>10, <1>11 DEF c

(* The number of blocks that read() empties, and what stays behind them. *)
LEMMA ReadArithmetic ==
  ASSUME StreamInv, NEW s \in Stream, NEW r \in 0..size[s]
  PROVE  LET k == Emptied(s, r)
             o == IF r = size[s] THEN 0 ELSE (offset[s] + r) % BlockSize
         IN  /\ k \in 0..Len(chain[s])
             /\ o \in Nat /\ o < BlockSize
             /\ Len(chain[s]) - k = Pool!BlocksFor(o + (size[s] - r))
             /\ r < size[s] => k < Len(chain[s])
<1> DEFINE B == BlockSize
           L == Len(chain[s])
           e == offset[s] + size[s]
           x == offset[s] + r
           q == x \div B
           m == x % B
<1>1. /\ B \in Nat \ {0} /\ size[s] \in Nat /\ offset[s] \in Nat /\ r \in Nat
      /\ offset[s] < B
      /\ L \in Nat /\ L = Pool!BlocksFor(e)
  BY BlockSizeAssumption DEF StreamInv, TypeOK, ChainFits
<1>2. CASE r = size[s]
  <2>1. Emptied(s, r) = L
    <3>1. CASE r > 0
      BY <1>1, <1>2, <3>1 DEF Emptied
    <3>2. CASE r = 0
      <4>1. offset[s] = 0 /\ chain[s] = <<>>
        BY <1>1, <1>2, <3>2, EmptyHasNoChain
      <4>3. offset[s] + r = 0 /\ L = 0
        BY <3>2, <4>1
      <4>2. 0 \div B = 0
        BY <1>1
      <4> QED BY <3>2, <4>2, <4>3 DEF Emptied
    <3> QED BY <1>1, <3>1, <3>2
  <2> QED BY <1>1, <1>2, <2>1, BlocksForZero
<1>3. CASE r < size[s]
  <2>1. Emptied(s, r) = q
    BY <1>1, <1>3 DEF Emptied
  <2>2. x \in Nat /\ e \in Nat /\ x < e /\ e - x = size[s] - r
    BY <1>1, <1>3, SMTT(30)
  <2>3. e <= L * B /\ L * B < e + B
    BY <1>1, <2>2, BlocksForBounds
  <2>4. m \in Nat /\ m < B
    <3> HIDE DEF x, B
    <3>1. x % B \in 0..B - 1
      BY <1>1, <2>2, DivMod
    <3> QED BY <1>1, <3>1
  <2> HIDE DEF B, L, e, x
  <2>5. /\ q \in Nat /\ q < L
        /\ m + (e - x) \in Nat
        /\ m + (e - x) <= (L - q) * B
        /\ (L - q) * B < m + (e - x) + B
    BY <1>1, <2>2, <2>3, CutArithmetic
  <2> HIDE DEF q, m
  <2>6. L - q \in Int
    BY <1>1, <2>5
  <2>7. L - q = Pool!BlocksFor(m + (e - x))
    BY <2>5, <2>6, BlocksForUnique DEF B
  <2>8. q \in 0..L /\ r # size[s]
    BY <1>1, <1>3, <2>5
  <2>9. L - q = Pool!BlocksFor(m + (size[s] - r))
    BY <2>2, <2>7
  <2> QED BY <2>1, <2>4, <2>5, <2>8, <2>9 DEF B, L, x, m
<1> QED BY <1>1, <1>2, <1>3

(* Blocks that move() forgets are blocks of the pool. *)
LEMMA ForgottenType ==
  ASSUME TypeOK, NEW list
  PROVE  Forgotten(list) \in [Block \X (0..BlockSize - 1) -> Byte \union {Junk}]
BY DEF TypeOK, Forgotten

(* What read() gives back to the pool, and what it leaves of the stream. *)
LEMMA ReadFacts ==
  ASSUME StreamInv, NEW s \in Stream, NEW n \in Nat, Read(s, n)
  PROVE  LET r == IF n < size[s] THEN n ELSE size[s]
             k == Emptied(s, r)
             o == IF r = size[s] THEN 0 ELSE (offset[s] + r) % BlockSize
             cut == SubSeq(chain[s], 1, k)
             list == Reverse(cut)
         IN  /\ r \in 0..size[s] /\ size[s] \in Nat /\ offset[s] \in Nat
             /\ Pool!PushStack(list)
             /\ chain' = [chain EXCEPT ![s] = SubSeq(chain[s], k + 1, Len(chain[s]))]
             /\ size' = [size EXCEPT ![s] = @ - r]
             /\ offset' = [offset EXCEPT ![s] = o]
             /\ mem' = Forgotten(cut)
             /\ ret' = r
             /\ UNCHANGED <<last, quota, wild>>
             /\ k \in 0..Len(chain[s])
             /\ o \in Nat /\ o < BlockSize
             /\ Len(chain[s]) - k = Pool!BlocksFor(o + (size[s] - r))
             /\ r < size[s] => k < Len(chain[s])
             /\ list \in Seq(Block) /\ IsInjective(list) /\ Len(list) = k
             /\ Range(list) = Range(cut)
<1> DEFINE r == IF n < size[s] THEN n ELSE size[s]
           k == Emptied(s, r)
           o == IF r = size[s] THEN 0 ELSE (offset[s] + r) % BlockSize
           c == chain[s]
           cut == SubSeq(c, 1, k)
           list == Reverse(cut)
<1>1. r \in 0..size[s] /\ size[s] \in Nat /\ offset[s] \in Nat
  BY DEF StreamInv, TypeOK
<1>2. /\ Pool!PushStack(list)
      /\ chain' = [chain EXCEPT ![s] = SubSeq(chain[s], k + 1, Len(chain[s]))]
      /\ size' = [size EXCEPT ![s] = @ - r]
      /\ offset' = [offset EXCEPT ![s] = o]
      /\ mem' = Forgotten(cut)
      /\ ret' = r
      /\ UNCHANGED <<last, quota, wild>>
  BY DEF Read
<1>3. /\ k \in 0..Len(chain[s])
      /\ o \in Nat /\ o < BlockSize
      /\ Len(chain[s]) - k = Pool!BlocksFor(o + (size[s] - r))
      /\ r < size[s] => k < Len(chain[s])
  BY <1>1, ReadArithmetic
<1> HIDE DEF r, k, o
<1>4. /\ list \in Seq(Block) /\ IsInjective(list) /\ Len(list) = k
      /\ Range(list) = Range(cut)
  <2>1. c \in Seq(Block) /\ IsInjective(c) /\ k \in 0..Len(c)
    BY <1>3, PoolFacts DEF StreamInv, ChainsDisjoint
  <2> HIDE DEF c
  <2>2. cut \in Seq(Block) /\ Len(cut) = k /\ IsInjective(cut)
    BY <2>1, CutChain
  <2> HIDE DEF cut
  <2>3. list \in Seq(Block) /\ Len(list) = k /\ IsInjective(list) /\ Range(list) = Range(cut)
    BY <2>2, ReverseChain
  <2> QED BY <2>3
<1> HIDE DEF cut, list
<1>5. c = chain[s]
  OBVIOUS
<1> QED BY <1>1, <1>2, <1>3, <1>4 DEF r, k, o, cut, list

(* What read() leaves is the tail of the chain, whose last block is the    *)
(* same as before unless nothing is left.                                  *)
LEMMA ReadStreamInv ==
  ASSUME StreamInv, NEW s \in Stream, NEW n \in Nat, Read(s, n)
  PROVE  StreamInv'
<1> DEFINE r == IF n < size[s] THEN n ELSE size[s]
           k == Emptied(s, r)
           o == IF r = size[s] THEN 0 ELSE (offset[s] + r) % BlockSize
           cut == SubSeq(chain[s], 1, k)
           list == Reverse(cut)
           c == chain[s]
<1>1. r \in 0..size[s] /\ size[s] \in Nat /\ offset[s] \in Nat
  BY ReadFacts
<1>2. /\ Pool!PushStack(list)
      /\ chain' = [chain EXCEPT ![s] = SubSeq(chain[s], k + 1, Len(chain[s]))]
      /\ size' = [size EXCEPT ![s] = @ - r]
      /\ offset' = [offset EXCEPT ![s] = o]
      /\ mem' = Forgotten(cut)
      /\ ret' = r
      /\ UNCHANGED <<last, quota, wild>>
  BY ReadFacts
<1>3. /\ k \in 0..Len(chain[s])
      /\ o \in Nat /\ o < BlockSize
      /\ Len(chain[s]) - k = Pool!BlocksFor(o + (size[s] - r))
      /\ r < size[s] => k < Len(chain[s])
  BY ReadFacts
<1>4. /\ list \in Seq(Block) /\ IsInjective(list) /\ Len(list) = k
      /\ Range(list) = Range(SubSeq(chain[s], 1, k))
  BY ReadFacts
<1> HIDE DEF r, k, o, list, cut, c
<1>5. /\ Pool!TypeOK' /\ Pool!Conservation' /\ Pool!CountersExact'
      /\ ChainsDisjoint'
      /\ chain' \in [Stream -> Seq(Block)]
      /\ Len(chain'[s]) = Len(chain[s]) - k
      /\ \A t \in Stream \ {s} : chain'[t] = chain[t]
  BY <1>2, <1>3, <1>4, GiveBack
<1>6. /\ size \in [Stream -> Nat] /\ offset \in [Stream -> Nat]
      /\ chain \in [Stream -> Seq(Block)]
  BY DEF StreamInv, TypeOK
<1>7. /\ size'[s] = size[s] - r /\ offset'[s] = o
      /\ \A t \in Stream \ {s} : size'[t] = size[t] /\ offset'[t] = offset[t]
  BY <1>2, <1>6
<1>8. TypeOK'
  <2>1. size' \in [Stream -> Nat] /\ offset' \in [Stream -> Nat] /\ ret' \in Nat
    BY <1>1, <1>2, <1>3, <1>6, SMTT(30)
  <2>2. mem' \in [Block \X (0..BlockSize - 1) -> Byte \union {Junk}]
    BY <1>2, ForgottenType DEF StreamInv
  <2> QED BY <1>2, <1>5, <2>1, <2>2 DEF StreamInv, TypeOK
<1>9. ChainFits'
  <2>1. offset'[s] < BlockSize /\ Len(chain'[s]) = Pool!BlocksFor(offset'[s] + size'[s])
    BY <1>3, <1>5, <1>7
  <2>2. size'[s] = 0 => offset'[s] = 0
    BY <1>1, <1>7 DEF o
  <2> QED BY <1>5, <1>7, <2>1, <2>2 DEF StreamInv, ChainFits, Pool!BlocksFor
<1>10. LastIsTail'
  <2>1. size'[s] > 0 => last'[s] = Last(chain'[s])
    <3> SUFFICES ASSUME size'[s] > 0 PROVE last'[s] = Last(chain'[s])
      OBVIOUS
    <3>1. r < size[s] /\ size[s] > 0
      BY <1>1, <1>7
    <3>2. last'[s] = c[Len(c)] /\ k < Len(c) /\ k \in Nat /\ c \in Seq(Block)
      BY <1>2, <1>3, <1>6, <3>1 DEF StreamInv, LastIsTail, Last, c
    <3>3. chain'[s] = SubSeq(c, k + 1, Len(c))
      BY <1>2, <1>6 DEF c
    <3>4. SubSeq(c, k + 1, Len(c))[Len(c) - k] = c[Len(c)] /\ Len(SubSeq(c, k + 1, Len(c))) = Len(c) - k
      BY <3>2, SMTT(30)
    <3> QED BY <3>2, <3>3, <3>4 DEF Last
  <2> QED BY <1>2, <1>5, <1>7, <2>1 DEF StreamInv, LastIsTail
<1> QED BY <1>5, <1>8, <1>9, <1>10 DEF StreamInv

(* clear() gives the whole chain back. *)
LEMMA ClearStreamInv ==
  ASSUME StreamInv, NEW s \in Stream, Clear(s)
  PROVE  StreamInv'
<1> DEFINE c == chain[s]
           k == Len(c)
<1>1. /\ c \in Seq(Block) /\ IsInjective(c) /\ k \in 0..Len(c)
      /\ SubSeq(c, 1, k) = c /\ SubSeq(c, k + 1, Len(c)) = <<>>
  <2>1. c \in Seq(Block) /\ IsInjective(c)
    BY PoolFacts DEF StreamInv, ChainsDisjoint
  <2> HIDE DEF c
  <2> QED BY <2>1
<1>2. /\ Pool!PushStack(c)
      /\ chain' = [chain EXCEPT ![s] = SubSeq(chain[s], k + 1, Len(chain[s]))]
      /\ last' = [last EXCEPT ![s] = Null]
      /\ size' = [size EXCEPT ![s] = 0]
      /\ offset' = [offset EXCEPT ![s] = 0]
      /\ mem' = Forgotten(c)
      /\ UNCHANGED <<quota, wild, ret>>
  BY <1>1 DEF Clear
<1>3. Range(c) = Range(SubSeq(chain[s], 1, k))
  BY <1>1
<1>4. k \in 0..Len(chain[s]) /\ Len(c) = k
  BY <1>1
<1> HIDE DEF c, k
<1>5. /\ Pool!TypeOK' /\ Pool!Conservation' /\ Pool!CountersExact'
      /\ ChainsDisjoint'
      /\ chain' \in [Stream -> Seq(Block)]
      /\ Len(chain'[s]) = Len(chain[s]) - k
      /\ \A t \in Stream \ {s} : chain'[t] = chain[t]
  BY <1>1, <1>2, <1>3, <1>4, GiveBack
<1>6. /\ size \in [Stream -> Nat] /\ offset \in [Stream -> Nat]
      /\ last \in [Stream -> Block \union {Null}]
  BY DEF StreamInv, TypeOK
<1>7. TypeOK'
  <2>1. mem' \in [Block \X (0..BlockSize - 1) -> Byte \union {Junk}]
    BY <1>2, ForgottenType DEF StreamInv
  <2> QED BY <1>2, <1>5, <1>6, <2>1 DEF StreamInv, TypeOK
<1>8. ChainFits'
  <2>1. BlockSize \in Nat /\ BlockSize > 0
    BY BlockSizeAssumption
  <2>2. Len(chain'[s]) = 0 /\ size'[s] = 0 /\ offset'[s] = 0
    BY <1>1, <1>2, <1>4, <1>5, <1>6 DEF c, k
  <2>3. \A t \in Stream \ {s} : size'[t] = size[t] /\ offset'[t] = offset[t]
    BY <1>2, <1>6
  <2>4. Len(chain'[s]) = Pool!BlocksFor(offset'[s] + size'[s])
    BY <2>2, BlocksForZero
  <2> QED BY <1>5, <2>1, <2>2, <2>3, <2>4 DEF StreamInv, ChainFits, Pool!BlocksFor
<1>9. LastIsTail'
  <2>1. size'[s] = 0
    BY <1>2, <1>6
  <2>2. \A t \in Stream \ {s} : size'[t] = size[t] /\ last'[t] = last[t]
    BY <1>2, <1>6
  <2> QED BY <1>5, <2>1, <2>2 DEF StreamInv, LastIsTail
<1> QED BY <1>5, <1>7, <1>8, <1>9 DEF StreamInv

(* The pool's proofs speak of the same pool. *)
LEMMA SamePool ==
  /\ PoolP!IsFiniteSet(Block)
  /\ PoolP!PoolInv <=> Pool!TypeOK /\ Pool!Conservation /\ Pool!CountersExact
  /\ (PoolP!PoolInv)' <=> Pool!TypeOK' /\ Pool!Conservation' /\ Pool!CountersExact'
  /\ \A n : PoolP!Reserve(n) <=> Pool!Reserve(n)
<1>1. \A f : PoolP!Range(f) = Pool!Range(f)
  BY DEF PoolP!Range, Pool!Range
<1>2. \A f : PoolP!IsInjective(f) <=> Pool!IsInjective(f)
  BY DEF PoolP!IsInjective, Pool!IsInjective
<1>3. \A S : PoolP!Cardinality(S) = Pool!Cardinality(S)
  BY DEF PoolP!Cardinality, Pool!Cardinality
<1>4. \A s : PoolP!Reverse(s) = Pool!Reverse(s)
  BY DEF PoolP!Reverse, Pool!Reverse
<1>5. \A S, T : PoolP!Injection(S, T) = Pool!Injection(S, T)
  BY <1>2 DEF PoolP!Injection, Pool!Injection
<1>6. PoolP!reserved = Pool!reserved /\ (PoolP!reserved)' = (Pool!reserved)'
  BY <1>1 DEF PoolP!reserved, Pool!reserved
<1>7. PoolP!TypeOK <=> Pool!TypeOK
  BY <1>1 DEF PoolP!TypeOK, Pool!TypeOK
<1>8. PoolP!Conservation <=> Pool!Conservation
  BY <1>1, <1>2, <1>6 DEF PoolP!Conservation, Pool!Conservation
<1>9. PoolP!CountersExact <=> Pool!CountersExact
  BY <1>3, <1>6 DEF PoolP!CountersExact, Pool!CountersExact
<1>10. PoolP!TypeOK' <=> Pool!TypeOK'
  BY <1>1 DEF PoolP!TypeOK, Pool!TypeOK
<1>11. PoolP!Conservation' <=> Pool!Conservation'
  BY <1>1, <1>2, <1>6 DEF PoolP!Conservation, Pool!Conservation
<1>12. PoolP!CountersExact' <=> Pool!CountersExact'
  BY <1>3, <1>6 DEF PoolP!CountersExact, Pool!CountersExact
<1>13. \A n : PoolP!Reserve(n) <=> Pool!Reserve(n)
  BY <1>1, <1>4, <1>5, <1>6 DEF PoolP!Reserve, Pool!Reserve
<1>14. PoolP!IsFiniteSet(Block)
  BY BlockAssumption DEF PoolP!IsFiniteSet, IsFiniteSet
<1> QED BY <1>7, <1>8, <1>9, <1>10, <1>11, <1>12, <1>13, <1>14 DEF PoolP!PoolInv

(* The pool grows under the streams' feet. *)
LEMMA ReserveStreamInv ==
  ASSUME StreamInv, NEW n \in Nat, Reserve(n)
  PROVE  StreamInv'
<1>1. UNCHANGED stream_vars
  BY DEF Reserve
<1>2. PoolP!PoolInv /\ PoolP!Reserve(n)
  BY SamePool DEF StreamInv, TypeOK, Reserve
<1>3. BlockSize \in Nat \ {0} /\ PoolP!IsFiniteSet(Block)
  BY BlockSizeAssumption, SamePool
<1>4. (PoolP!PoolInv)'
  BY <1>2, <1>3, PoolP!ReservePoolInv
<1>5. Pool!TypeOK' /\ Pool!Conservation' /\ Pool!CountersExact'
  BY <1>4, SamePool
<1>6. TypeOK'
  BY <1>1, <1>5 DEF StreamInv, TypeOK, stream_vars
<1>7. ChainFits' /\ LastIsTail' /\ ChainsDisjoint'
  BY <1>1 DEF StreamInv, ChainFits, LastIsTail, ChainsDisjoint, stream_vars, Pool!BlocksFor
<1> QED BY <1>5, <1>6, <1>7 DEF StreamInv

(* The calls that only answer, or only set the quota. *)
LEMMA OtherStreamInv ==
  ASSUME StreamInv,
         UNCHANGED <<pool_vars, chain, last, size, offset, mem>>,
         wild' \in SUBSET Stream, quota' \in [Stream -> Nat], ret' \in Nat
  PROVE  StreamInv'
<1>1. UNCHANGED <<total_count, free_count, pool_size, stack, pools>>
  BY DEF pool_vars
<1>2. Pool!TypeOK' /\ Pool!Conservation' /\ Pool!CountersExact'
  <2>1. held' = held
    BY DEF held
  <2>2. free_count' = Len(stack') /\ Range(stack') = Range(stack)
    BY <1>1, PoolFacts
  <2>3. stack' \in Seq(Block) /\ IsInjective(stack')
    BY <1>1, PoolFacts
  <2>4. Range(stack') \intersect held' = {} /\ Range(stack') \union held' = Range(stack) \union held
    BY <2>1, <2>2, PoolFacts
  <2> QED BY <1>1, <2>2, <2>3, <2>4, PoolPart
<1>3. TypeOK'
  BY <1>2 DEF StreamInv, TypeOK
<1>4. ChainFits' /\ LastIsTail' /\ ChainsDisjoint'
  BY DEF StreamInv, ChainFits, LastIsTail, ChainsDisjoint, Pool!BlocksFor
<1> QED BY <1>2, <1>3, <1>4 DEF StreamInv

(* Every step keeps the invariant. *)
LEMMA NextStreamInv ==
  ASSUME StreamInv, [Next]_vars
  PROVE  StreamInv'
<1>1. ASSUME NEW n \in 0..Cardinality(Block), Reserve(n)
      PROVE  StreamInv'
  <2>1. n \in Nat
    BY BlockAssumption, FS_CardinalityType
  <2> QED BY <1>1, <2>1, ReserveStreamInv
<1>2. ASSUME NEW s \in Stream, NEW packet \in Packet, Write(s, packet)
      PROVE  StreamInv'
  BY <1>2, WriteStreamInv
<1>3. ASSUME NEW s \in Stream, NEW packet \in Packet, WriteRefused(s, packet)
      PROVE  StreamInv'
  BY <1>3, OtherStreamInv DEF WriteRefused, StreamInv, TypeOK
<1>4. ASSUME NEW s \in Stream, WriteNothing(s)
      PROVE  StreamInv'
  BY <1>4, OtherStreamInv DEF WriteNothing, StreamInv, TypeOK
<1>5. ASSUME NEW s \in Stream, NEW n \in 0..size[s] + 1, Read(s, n)
      PROVE  StreamInv'
  <2>1. n \in Nat
    BY DEF StreamInv, TypeOK
  <2> QED BY <1>5, <2>1, ReadStreamInv
<1>6. ASSUME NEW s \in Stream, NEW q \in Quota, SetQuota(s, q)
      PROVE  StreamInv'
  BY <1>6, OtherStreamInv, QuotaAssumption DEF SetQuota, StreamInv, TypeOK
<1>7. ASSUME NEW s \in Stream, Clear(s)
      PROVE  StreamInv'
  BY <1>7, ClearStreamInv
<1>8. CASE UNCHANGED vars
  BY <1>8, OtherStreamInv DEF vars, stream_vars, StreamInv, TypeOK
<1> QED BY <1>1, <1>2, <1>3, <1>4, <1>5, <1>6, <1>7, <1>8 DEF Next

(* However streams are written, read and cleared, their chains stay        *)
(* sound and disjoint, and the pool has exactly the blocks of no chain.     *)
THEOREM StreamInvariant == Spec => []StreamInv
<1>1. StreamInv /\ [Next]_vars => StreamInv'
  BY NextStreamInv
<1> QED BY <1>1, InitStreamInv, PTL DEF Spec

(* That a write is refused only when it must be follows: the free blocks   *)
(* and the rest of the last one are all the room there is.                 *)
LEMMA RefusalIsDue == StreamInv => RefusedOnlyWhenFull
<1> SUFFICES ASSUME StreamInv, NEW s \in Stream, NEW packet \in Packet,
                    ~Accepts(s, Len(packet)),
                    ~(quota[s] > 0 /\ size[s] + Len(packet) > quota[s])
             PROVE  Len(chain[s]) * BlockSize - offset[s] - size[s]
                      + Len(stack) * BlockSize < Len(packet)
  BY DEF RefusedOnlyWhenFull
<1> DEFINE B == BlockSize
           L == Len(chain[s])
           F == Len(stack)
           len == Len(packet)
           R == Rest(s)
           N == Pool!BlocksFor(len - R)
<1>1. /\ B \in Nat \ {0} /\ len \in Nat /\ F \in Nat /\ L \in Nat
      /\ quota[s] \in Nat /\ size[s] \in Nat /\ offset[s] \in Nat
  BY BlockSizeAssumption, PacketAssumption, PoolFacts DEF StreamInv, TypeOK
<1>2. R = L * B - offset[s] - size[s] /\ R \in Nat
  <2>1. CASE size[s] > 0
    <3>1. R = L * B - (offset[s] + size[s]) /\ R \in Nat
      BY <2>1, RestIsRoom
    <3>2. L * B \in Nat
      BY <1>1
    <3> HIDE DEF R, L, B
    <3> QED BY <1>1, <3>1, <3>2
  <2>2. CASE size[s] = 0
    <3>1. offset[s] = 0 /\ L = 0
      BY <2>2, EmptyHasNoChain DEF StreamInv, ChainFits
    <3> QED BY <1>1, <2>2, <3>1 DEF Rest
  <2> QED BY <1>1, <2>1, <2>2
<1>3. WithinQuota(s, len)
  BY <1>1 DEF WithinQuota
<1>4. Need(s, len) # 0 /\ ~Pool!CanAlloc(Need(s, len))
  BY <1>3 DEF Accepts
<1>5. len > R /\ Need(s, len) = N
  BY <1>1, <1>2, <1>4 DEF Need
<1>6. N \in Nat /\ N * B < (len - R) + B
  <2>1. len - R \in Nat
    BY <1>1, <1>2, <1>5, SMTT(30)
  <2> QED BY <2>1, BlocksForBounds
<1>7. F + 1 <= N
  BY <1>1, <1>4, <1>5, <1>6, PoolFacts DEF Pool!CanAlloc
<1> HIDE DEF N, R, L, F, len
<1>8. (F + 1) * B <= N * B
  <2>1. N * B = (F + 1) * B + (N - (F + 1)) * B
    BY <1>1, <1>6
  <2>2. (N - (F + 1)) * B \in Nat
    BY <1>1, <1>6, <1>7
  <2> QED BY <1>1, <1>6, <2>1, <2>2
<1> DEFINE FB == F * B
           NB == N * B
           LB == L * B
<1>9. FB + B <= NB /\ FB \in Nat /\ NB \in Nat /\ LB \in Nat
  <2>1. (F + 1) * B = F * B + B
    BY <1>1
  <2> QED BY <1>1, <1>6, <1>8, <2>1
<1>10. R = LB - offset[s] - size[s] /\ R \in Nat /\ NB < (len - R) + B
  BY <1>2, <1>6
<1> HIDE DEF FB, NB, LB, B
<1>11. LB - offset[s] - size[s] + FB < len
  BY <1>1, <1>9, <1>10
<1> QED BY <1>11 DEF L, F, len, LB, FB, B

(* What runs check of a stream holds in every behaviour. *)
THEOREM StreamsAreSound == Spec => []StreamSound
<1>1. StreamInv => StreamSound
  BY RefusalIsDue DEF StreamSound
<1> QED BY <1>1, StreamInvariant, PTL

(* The variables keep their types. *)
THEOREM StreamTypeCorrect == Spec => []TypeOK
<1>1. StreamInv => TypeOK
  BY DEF StreamInv
<1> QED BY <1>1, StreamInvariant, PTL

(* The two numbers of a stream always tell its number of blocks. *)
THEOREM StreamChainFits == Spec => []ChainFits
<1>1. StreamInv => ChainFits
  BY DEF StreamInv
<1> QED BY <1>1, StreamInvariant, PTL

(* A write never goes on in a block that is not the stream's own last one. *)
THEOREM StreamLastIsTail == Spec => []LastIsTail
<1>1. StreamInv => LastIsTail
  BY DEF StreamInv
<1> QED BY <1>1, StreamInvariant, PTL

(* No two streams share a block. *)
THEOREM StreamChainsDisjoint == Spec => []ChainsDisjoint
<1>1. StreamInv => ChainsDisjoint
  BY DEF StreamInv
<1> QED BY <1>1, StreamInvariant, PTL

-----------------------------------------------------------------------------
(* The streams implement the pool's specification: what BlocksPoolProofs   *)
(* proves of the pool holds with the streams as its clients.               *)

(* The streams hold finitely many blocks. *)
LEMMA HeldFinite ==
  ASSUME StreamInv
  PROVE  /\ IsFiniteSet(held) /\ Cardinality(held) \in Nat
         /\ Len(stack) <= Pool!Cardinality(Block)
<1>1. held \subseteq Block /\ Range(stack) \subseteq Block
  BY PoolFacts DEF Range
<1>2. IsFiniteSet(held) /\ Cardinality(held) \in Nat
  BY <1>1, BlockAssumption, FS_Subset, FS_CardinalityType
<1>3. stack \in Injection(1..Len(stack), Block)
  BY PoolFacts DEF Injection
<1>4. Cardinality(Range(stack)) = Len(stack)
  BY <1>3, PoolFacts, InjectionCardinality
<1>5. Cardinality(Range(stack)) <= Cardinality(Block)
  BY <1>1, BlockAssumption, FS_Subset
<1> QED BY <1>2, <1>4, <1>5, PoolCardinality

(* A write takes from the pool what BlocksPool lets a client take. *)
LEMMA WritePoolStep ==
  ASSUME StreamInv, NEW s \in Stream, NEW packet \in Packet, Write(s, packet)
  PROVE  Pool!Next \/ UNCHANGED Pool!vars
<1> DEFINE need == Need(s, Len(packet))
           new == SubSeq(stack, 1, need)
<1>1. /\ need \in 0..Len(stack)
      /\ new \in Seq(Block) /\ Len(new) = need
      /\ chain' = [chain EXCEPT ![s] = chain[s] \o new]
  BY WriteFacts
<1>2. Pool!PopStack(need) /\ (need = 0 \/ Pool!CanAlloc(need))
  BY DEF Write, Accepts
<1> HIDE DEF need
<1>3. held' = held \union Range(new)
  <2> DEFINE c == chain[s]
  <2>1. c \in Seq(Block)
    BY PoolFacts
  <2> HIDE DEF c, new
  <2>2. Range(c \o new) = Range(c) \union Range(new)
    BY <1>1, <2>1, ConcatChain
  <2>3. \A t \in Stream : chain'[t] = IF t = s THEN c \o new ELSE chain[t]
    BY <1>1, PoolFacts DEF c
  <2> QED BY <2>2, <2>3 DEF held, c
<1>4. CASE need = 0
  <2>1. stack' = stack /\ free_count' = free_count
    BY <1>2, <1>4, PoolFacts DEF Pool!PopStack
  <2>2. Range(new) = {}
    BY <1>4 DEF Range
  <2>3. held' = held
    BY <1>3, <2>2
  <2> QED BY <1>2, <2>1, <2>3 DEF Pool!vars, Pool!PopStack, held
<1>5. CASE need # 0
  <2>1. Pool!CanAlloc(need)
    BY <1>2, <1>5
  <2>2. held' = held \union Pool!Range(Pool!AllocChain(need))
    BY <1>3, PoolRange DEF Pool!AllocChain
  <2>3. Pool!AllocByBlocks(need)
    BY <1>2, <2>1, <2>2 DEF Pool!AllocByBlocks, held
  <2>4. need \in 0..Pool!Cardinality(Block)
    <3>1. need \in 0..Cardinality(Block)
      BY <1>1, HeldFinite, PoolCardinality, BlockAssumption, FS_CardinalityType
    <3> QED BY <3>1, PoolCardinality
  <2> QED BY <2>3, <2>4 DEF Pool!Next
<1> QED BY <1>4, <1>5

(* Giving back k blocks is a free() of a list that the streams hold. *)
LEMMA GiveBackPoolStep ==
  ASSUME StreamInv, NEW s \in Stream, NEW k \in 0..Len(chain[s]), NEW list \in Seq(Block),
         IsInjective(list), Len(list) = k, Range(list) = Range(SubSeq(chain[s], 1, k)),
         Pool!PushStack(list),
         chain' = [chain EXCEPT ![s] = SubSeq(chain[s], k + 1, Len(chain[s]))]
  PROVE  Pool!Next \/ UNCHANGED Pool!vars
<1>1. Range(list) \subseteq held /\ held' = held \ Range(list)
  BY GiveBack
<1>2. CASE k = 0
  <2>1. list = <<>> /\ Range(list) = {}
    BY <1>2 DEF Range
  <2>2. stack' = stack /\ free_count' = free_count
    <3>1. stack' = list \o stack /\ free_count' = free_count + Len(list)
      BY DEF Pool!PushStack
    <3>2. stack \in Seq(Block) /\ free_count \in Nat
      BY PoolFacts
    <3> QED BY <2>1, <3>1, <3>2
  <2>3. held' = held
    BY <1>1, <2>1
  <2> QED BY <2>2, <2>3 DEF Pool!vars, Pool!PushStack, held
<1>3. CASE k # 0
  <2>1. held' = held \ Pool!Range(list)
    BY <1>1, PoolRange
  <2>2. Pool!Free(list)
    BY <2>1 DEF Pool!Free, held
  <2>3. list \in Injection(1..k, held)
    BY <1>1 DEF Injection, Range
  <2>4. list \in Pool!Injection(1..k, held)
    BY <2>3, PoolInjective DEF Injection, Pool!Injection
  <2>5. k \in 1..Cardinality(held)
    <3>1. Cardinality(Range(list)) = k
      BY <2>3, InjectionCardinality
    <3>2. Cardinality(Range(list)) <= Cardinality(held)
      BY <1>1, HeldFinite, FS_Subset
    <3> QED BY <1>3, <3>1, <3>2, HeldFinite
  <2>6. list \in Pool!LentLists
    BY <2>4, <2>5, PoolCardinality DEF Pool!LentLists, held
  <2> QED BY <2>2, <2>6 DEF Pool!Next
<1> QED BY <1>2, <1>3

(* Every step is one of BlocksPool, or leaves the pool alone. *)
LEMMA NextPoolStep ==
  ASSUME StreamInv, [Next]_vars
  PROVE  Pool!Next \/ UNCHANGED Pool!vars
<1>1. ASSUME NEW n \in 0..Cardinality(Block), Reserve(n)
      PROVE  Pool!Next
  BY <1>1, PoolCardinality DEF Reserve, Pool!Next
<1>2. ASSUME NEW s \in Stream, NEW packet \in Packet, Write(s, packet)
      PROVE  Pool!Next \/ UNCHANGED Pool!vars
  BY <1>2, WritePoolStep
<1>3. ASSUME NEW s \in Stream, NEW n \in 0..size[s] + 1, Read(s, n)
      PROVE  Pool!Next \/ UNCHANGED Pool!vars
  <2> DEFINE r == IF n < size[s] THEN n ELSE size[s]
             k == Emptied(s, r)
             list == Reverse(SubSeq(chain[s], 1, k))
  <2>1. n \in Nat
    BY DEF StreamInv, TypeOK
  <2>2. /\ Pool!PushStack(list)
        /\ chain' = [chain EXCEPT ![s] = SubSeq(chain[s], k + 1, Len(chain[s]))]
        /\ k \in 0..Len(chain[s])
        /\ list \in Seq(Block) /\ IsInjective(list) /\ Len(list) = k
        /\ Range(list) = Range(SubSeq(chain[s], 1, k))
    BY <1>3, <2>1, ReadFacts
  <2> HIDE DEF k, list
  <2> QED BY <2>2, GiveBackPoolStep
<1>4. ASSUME NEW s \in Stream, Clear(s)
      PROVE  Pool!Next \/ UNCHANGED Pool!vars
  <2> DEFINE c == chain[s]
             k == Len(c)
  <2>1. /\ c \in Seq(Block) /\ IsInjective(c) /\ k \in 0..Len(c)
        /\ SubSeq(c, 1, k) = c /\ SubSeq(c, k + 1, Len(c)) = <<>>
    <3>1. c \in Seq(Block) /\ IsInjective(c)
      BY PoolFacts DEF StreamInv, ChainsDisjoint
    <3> HIDE DEF c
    <3> QED BY <3>1
  <2>2. /\ Pool!PushStack(c)
        /\ chain' = [chain EXCEPT ![s] = SubSeq(chain[s], k + 1, Len(chain[s]))]
    BY <1>4, <2>1 DEF Clear
  <2>3. /\ Range(c) = Range(SubSeq(chain[s], 1, k))
        /\ k \in 0..Len(chain[s]) /\ Len(c) = k
    BY <2>1
  <2> HIDE DEF c, k
  <2> QED BY <2>1, <2>2, <2>3, GiveBackPoolStep
<1>5. ASSUME UNCHANGED pool_vars, UNCHANGED chain
      PROVE  UNCHANGED Pool!vars
  BY <1>5 DEF pool_vars, Pool!vars
<1>6. ASSUME NEW s \in Stream, NEW packet \in Packet, WriteRefused(s, packet)
      PROVE  UNCHANGED Pool!vars
  BY <1>5, <1>6 DEF WriteRefused
<1>7. ASSUME NEW s \in Stream, WriteNothing(s)
      PROVE  UNCHANGED Pool!vars
  BY <1>5, <1>7 DEF WriteNothing
<1>8. ASSUME NEW s \in Stream, NEW q \in Quota, SetQuota(s, q)
      PROVE  UNCHANGED Pool!vars
  BY <1>5, <1>8 DEF SetQuota
<1>9. CASE UNCHANGED vars
  BY <1>5, <1>9 DEF vars, stream_vars
<1> QED BY <1>1, <1>2, <1>3, <1>4, <1>6, <1>7, <1>8, <1>9 DEF Next

(* The streams use the pool as its specification asks: every step of a     *)
(* stream is a step of the pool, or leaves the pool as it is.              *)
THEOREM StreamsUsePool == Spec => PoolSpec
<1>1. Init => Pool!Init
  BY DEF Init
<1>2. StreamInv /\ [Next]_vars => [Pool!Next]_(Pool!vars)
  <2> SUFFICES ASSUME StreamInv, [Next]_vars
               PROVE  Pool!Next \/ UNCHANGED Pool!vars
    OBVIOUS
  <2> QED BY NextPoolStep
<1> QED BY <1>1, <1>2, StreamInvariant, PTL DEF Spec, PoolSpec, Pool!Spec

-----------------------------------------------------------------------------
(* The streams implement the byte queue: what a stream holds, read through *)
(* its chain, changes as the queue does.                                   *)

queue == [s \in Stream |-> Contents(s)]

(* The index in its chain of a stream's i-th byte. *)
Index(s, i) == offset[s] + i - 1

Place(s, i) == <<chain[s][Index(s, i) \div BlockSize + 1], Index(s, i) % BlockSize>>

(* A byte that a stream holds is in one of the stream's own blocks. *)
LEMMA PlaceHeld ==
  ASSUME StreamInv, NEW s \in Stream, NEW i \in 1..size[s]
  PROVE  /\ Index(s, i) \in Nat
         /\ Index(s, i) \div BlockSize \in 0..Len(chain[s]) - 1
         /\ Place(s, i) \in Block \X (0..BlockSize - 1)
         /\ Place(s, i)[1] \in Range(chain[s])
<1> DEFINE p == Index(s, i)
           L == Len(chain[s])
           e == offset[s] + size[s]
           q == p \div BlockSize
           m == p % BlockSize
<1>1. BlockSize \in Nat \ {0}
  BY BlockSizeAssumption
<1>2. offset[s] \in Nat /\ size[s] \in Nat
  BY DEF StreamInv, TypeOK
<1>3. p \in Nat /\ e \in Nat /\ p < e
  BY <1>2 DEF Index
<1>12. chain[s] \in Seq(Block) /\ L \in Nat
  BY DEF StreamInv, TypeOK
<1>4. L = Pool!BlocksFor(e)
  BY DEF StreamInv, ChainFits
<1> HIDE DEF p, L, e
<1>5. e <= L * BlockSize
  BY <1>3, <1>4, BlocksForBounds
<1>6. L * BlockSize \in Nat
  BY <1>1, <1>12
<1>7. p < L * BlockSize
  BY <1>3, <1>5, <1>6, <1>12
<1>8. q \in 0..L - 1 /\ m \in 0..BlockSize - 1
  BY <1>1, <1>3, <1>7, <1>12, PlaceInChain
<1> HIDE DEF q, m
<1>9. q + 1 \in 1..Len(chain[s])
  BY <1>8, <1>12 DEF L
<1>10. chain[s][q + 1] \in Block /\ chain[s][q + 1] \in Range(chain[s])
  BY <1>9, <1>12 DEF Range
<1>11. Place(s, i) = <<chain[s][q + 1], m>>
  BY DEF Place, p, q, m
<1> QED BY <1>3, <1>8, <1>10, <1>11 DEF p, q, m, L

(* The contents of a stream are a sequence of bytes. *)
LEMMA ContentsIsSeq ==
  ASSUME StreamInv, NEW s \in Stream
  PROVE  /\ Contents(s) \in Seq(Byte \union {Junk})
         /\ Len(Contents(s)) = size[s]
         /\ \A i \in 1..size[s] : Contents(s)[i] = mem[Place(s, i)]
<1>1. size[s] \in Nat /\ mem \in [Block \X (0..BlockSize - 1) -> Byte \union {Junk}]
  BY DEF StreamInv, TypeOK
<1>2. Contents(s) = [i \in 1..size[s] |-> mem[Place(s, i)]]
  BY DEF Contents, Place, Index
<1>3. \A i \in 1..size[s] : mem[Place(s, i)] \in Byte \union {Junk}
  BY <1>1, PlaceHeld
<1> QED BY <1>1, <1>2, <1>3, SMTT(30)

(* A stream whose chain, numbers and bytes a step leaves alone keeps its   *)
(* contents.                                                               *)
LEMMA ContentsKept ==
  ASSUME StreamInv, NEW s \in Stream,
         chain'[s] = chain[s], size'[s] = size[s], offset'[s] = offset[s],
         \A cell \in Block \X (0..BlockSize - 1) :
           cell[1] \in Range(chain[s]) => mem'[cell] = mem[cell]
  PROVE  Contents(s)' = Contents(s)
<1>1. \A i \in 1..size[s] : mem'[Place(s, i)] = mem[Place(s, i)]
  BY PlaceHeld
<1>2. Contents(s) = [i \in 1..size[s] |-> mem[Place(s, i)]]
  BY DEF Contents, Place, Index
<1>3. Contents(s)' = [i \in 1..size[s] |-> mem'[Place(s, i)]]
  BY DEF Contents, Place, Index
<1> QED BY <1>1, <1>2, <1>3

(* A step that changes the contents of one stream only. *)
LEMMA QueueExcept ==
  ASSUME NEW s \in Stream, NEW c, Contents(s)' = c,
         \A t \in Stream \ {s} : Contents(t)' = Contents(t)
  PROVE  queue' = [queue EXCEPT ![s] = c]
<1>1. queue' = [t \in Stream |-> Contents(t)']
  BY DEF queue
<1>2. [queue EXCEPT ![s] = c] = [t \in Stream |-> IF t = s THEN c ELSE Contents(t)]
  BY DEF queue
<1> QED BY <1>1, <1>2

(* What read() leaves is the queue without its first r bytes. *)
LEMMA ReadContents ==
  ASSUME StreamInv, NEW s \in Stream, NEW n \in Nat, Read(s, n)
  PROVE  LET r == IF n < size[s] THEN n ELSE size[s]
         IN  /\ Contents(s)' = SubSeq(Contents(s), r + 1, Len(Contents(s)))
             /\ \A t \in Stream \ {s} : Contents(t)' = Contents(t)
<1> DEFINE r == IF n < size[s] THEN n ELSE size[s]
           k == Emptied(s, r)
           o == IF r = size[s] THEN 0 ELSE (offset[s] + r) % BlockSize
           c == chain[s]
           cut == SubSeq(c, 1, k)
           left == SubSeq(c, k + 1, Len(c))
<1>1. /\ chain' = [chain EXCEPT ![s] = left]
      /\ size' = [size EXCEPT ![s] = @ - r]
      /\ offset' = [offset EXCEPT ![s] = o]
      /\ mem' = Forgotten(cut)
      /\ k \in 0..Len(c)
  BY ReadFacts
<1>11. r \in 0..size[s] /\ size[s] \in Nat /\ offset[s] \in Nat
  BY ReadFacts
<1>2. /\ c \in Seq(Block) /\ IsInjective(c)
      /\ DOMAIN chain = Stream /\ size \in [Stream -> Nat] /\ offset \in [Stream -> Nat]
      /\ mem \in [Block \X (0..BlockSize - 1) -> Byte \union {Junk}]
  BY DEF StreamInv, TypeOK, ChainsDisjoint
<1> HIDE DEF r
<1>3. r < size[s] => k = (offset[s] + r) \div BlockSize /\ o = (offset[s] + r) % BlockSize
  BY <1>11 DEF Emptied
<1> HIDE DEF k, o, c
<1>4. /\ left \in Seq(Block) /\ Len(left) = Len(c) - k
      /\ Range(c) = Range(cut) \union Range(left)
      /\ Range(cut) \intersect Range(left) = {}
  BY <1>1, <1>2, CutChain
<1>5. \A j \in 1..Len(left) : left[j] = c[k + j]
  BY <1>1, <1>2, SMTT(30)
<1> HIDE DEF cut, left
<1>6. /\ chain'[s] = left /\ size'[s] = size[s] - r /\ offset'[s] = o
      /\ \A t \in Stream \ {s} :
           chain'[t] = chain[t] /\ size'[t] = size[t] /\ offset'[t] = offset[t]
  BY <1>1, <1>2
<1>7. \A cell \in Block \X (0..BlockSize - 1) :
        cell[1] \notin Range(cut) => mem'[cell] = mem[cell]
  BY <1>1, <1>2 DEF Forgotten
<1>8. ASSUME NEW t \in Stream \ {s}
      PROVE  Contents(t)' = Contents(t)
  <2>1. Range(chain[t]) \intersect Range(c) = {}
    BY DEF StreamInv, ChainsDisjoint, c
  <2>2. \A cell \in Block \X (0..BlockSize - 1) :
          cell[1] \in Range(chain[t]) => mem'[cell] = mem[cell]
    BY <2>1, <1>4, <1>7
  <2>3. chain'[t] = chain[t] /\ size'[t] = size[t] /\ offset'[t] = offset[t]
    BY <1>6
  <2> QED BY <2>2, <2>3, ContentsKept
<1>9. ASSUME NEW i \in 1..size[s] - r
      PROVE  mem'[<<left[(o + i - 1) \div BlockSize + 1], (o + i - 1) % BlockSize>>]
               = mem[Place(s, r + i)]
  <2> DEFINE x == o + i - 1
             y == Index(s, r + i)
             q == x \div BlockSize
  <2>1. r < size[s] /\ r + i \in 1..size[s]
    BY <1>11
  <2>2. /\ y \in Nat /\ y \div BlockSize \in 0..Len(c) - 1
        /\ Place(s, r + i) \in Block \X (0..BlockSize - 1)
    BY <2>1, PlaceHeld DEF c
  <2>3. k \in Nat /\ o \in 0..BlockSize - 1 /\ offset[s] + r = k * BlockSize + o
    <3> DEFINE z == offset[s] + r
    <3>1. z \in Nat
      BY <1>11
    <3>2. k = z \div BlockSize /\ o = z % BlockSize
      BY <1>3, <2>1, Zenon
    <3> HIDE DEF z
    <3>3. k \in Nat /\ o \in 0..BlockSize - 1 /\ z = BlockSize * k + o
      BY <3>1, <3>2, BlockSizeAssumption, DivMod
    <3> QED BY <3>3, BlockSizeAssumption DEF z
  <2>4. x \in Nat /\ y = k * BlockSize + x
    <3>1. o \in Nat /\ i \in Nat /\ i >= 1
      BY <2>3, <1>11
    <3>2. y = offset[s] + r + i - 1
      BY <1>11, <3>1 DEF Index
    <3>3. k * BlockSize \in Nat
      BY <2>3, BlockSizeAssumption
    <3> QED BY <1>11, <2>3, <3>1, <3>2, <3>3
  <2> HIDE DEF x, y
  <2>5. q \in Nat /\ y \div BlockSize = k + q /\ y % BlockSize = x % BlockSize
    <3>1. /\ (k * BlockSize + x) \div BlockSize = k + (x \div BlockSize)
          /\ (k * BlockSize + x) % BlockSize = x % BlockSize
      BY <2>3, <2>4, BlockSizeAssumption, DivModShift
    <3>2. x \div BlockSize \in Nat
      BY <2>4, BlockSizeAssumption, DivMod
    <3> QED BY <2>4, <3>1, <3>2
  <2> HIDE DEF q
  <2>6. q + 1 \in 1..Len(left) /\ left[q + 1] = c[k + q + 1]
    <3>1. q + 1 \in 1..Len(left)
      BY <1>1, <1>4, <2>2, <2>3, <2>5
    <3>2. k + (q + 1) = k + q + 1
      BY <2>3, <2>5
    <3> QED BY <1>5, <3>1, <3>2
  <2>7. Place(s, r + i) = <<left[q + 1], x % BlockSize>>
    BY <2>5, <2>6 DEF Place, y, c
  <2>8. left[q + 1] \in Range(left)
    BY <1>4, <2>6 DEF Range
  <2>9. mem'[Place(s, r + i)] = mem[Place(s, r + i)]
    BY <2>2, <2>7, <2>8, <1>4, <1>7
  <2> QED BY <2>7, <2>9 DEF x, q
<1>10. Contents(s)' = SubSeq(Contents(s), r + 1, Len(Contents(s)))
  <2>1. /\ Contents(s) \in Seq(Byte \union {Junk}) /\ Len(Contents(s)) = size[s]
        /\ \A i \in 1..size[s] : Contents(s)[i] = mem[Place(s, i)]
    BY ContentsIsSeq
  <2> DEFINE old == Contents(s)
  <2>2. old \in Seq(Byte \union {Junk}) /\ Len(old) = size[s]
    BY <2>1
  <2>3. \A i \in 1..size[s] - r : old[r + i] = mem[Place(s, r + i)]
    <3>1. \A i \in 1..size[s] - r : r + i \in 1..size[s]
      BY <1>11
    <3> QED BY <2>1, <3>1
  <2>4. Contents(s)' = [i \in 1..size[s] - r |->
                          mem'[<<left[(o + i - 1) \div BlockSize + 1], (o + i - 1) % BlockSize>>]]
    BY <1>6 DEF Contents
  <2>5. Contents(s)' = [i \in 1..size[s] - r |-> old[r + i]]
    BY <2>3, <2>4, <1>9
  <2> HIDE DEF old
  <2>6. SubSeq(old, r + 1, size[s]) = [i \in 1..size[s] - r |-> old[r + i]]
    BY <1>11, <2>2
  <2> QED BY <2>2, <2>5, <2>6 DEF old
<1> QED BY <1>8, <1>10 DEF r

(* Where write() puts the i-th byte is the place of byte size + i in the   *)
(* chain it leaves.                                                        *)
LEMMA CellIsPlace ==
  ASSUME StreamInv, NEW s \in Stream, NEW new \in Seq(Block), NEW i \in Nat \ {0},
         i > Rest(s) => (i - 1 - Rest(s)) \div BlockSize < Len(new)
  PROVE  LET p == offset[s] + size[s] + i - 1
             grown == chain[s] \o new
         IN  /\ p \in Nat
             /\ p \div BlockSize \in 0..Len(grown) - 1
             /\ Cell(s, new, i) = <<grown[p \div BlockSize + 1], p % BlockSize>>
<1> DEFINE B == BlockSize
           e == offset[s] + size[s]
           p == e + i - 1
           c == chain[s]
           L == Len(c)
           R == Rest(s)
           grown == c \o new
<1>1. B \in Nat \ {0}
  BY BlockSizeAssumption
<1>2. offset[s] \in Nat /\ size[s] \in Nat
  BY DEF StreamInv, TypeOK
<1>3. c \in Seq(Block) /\ L \in Nat
  BY DEF StreamInv, TypeOK
<1>4. R \in Nat /\ e + R = L * B
  <2>1. CASE size[s] = 0
    <3>1. c = <<>> /\ offset[s] = 0 /\ R = 0
      BY <2>1, EmptyHasNoChain
    <3>2. L = 0 /\ e = 0
      BY <2>1, <3>1
    <3> HIDE DEF L, e, R
    <3> QED BY <3>1, <3>2, <1>1
  <2>2. CASE size[s] > 0
    <3>1. R = L * B - e /\ R \in Nat
      BY <2>2, RestIsRoom
    <3>2. e \in Nat
      BY <1>2
    <3> HIDE DEF L, e, R, B
    <3>3. L * B \in Nat
      BY <1>1, <1>3
    <3> QED BY <3>1, <3>2, <3>3
  <2> QED BY <2>1, <2>2, <1>2
<1>5. e \in Nat /\ p \in Nat
  <2>1. e \in Nat
    BY <1>2
  <2> HIDE DEF e
  <2> QED BY <2>1
<1>6. i <= R => size[s] > 0 /\ R < B /\ R = B - Pos(s) /\ Pos(s) \in 1..B - 1
  <2> SUFFICES ASSUME i <= R
               PROVE  size[s] > 0 /\ R < B /\ R = B - Pos(s) /\ Pos(s) \in 1..B - 1
    OBVIOUS
  <2>1. R > 0
    BY <1>4
  <2>2. size[s] > 0 /\ Pos(s) > 0 /\ R = B - Pos(s)
    BY <2>1 DEF Rest
  <2> DEFINE m == Pos(s)
  <2>3. m \in 0..B - 1
    BY <1>1, <1>5, DivMod DEF Pos
  <2> HIDE DEF m, R, B
  <2>4. m > 0 /\ R = B - m
    BY <2>2 DEF m
  <2> QED BY <2>2, <2>3, <2>4, <1>1 DEF m
<1> HIDE DEF R, e
<1>7. grown \in Seq(Block) /\ Len(grown) = L + Len(new)
  BY <1>3
<1>8. /\ \A j \in 1..L : grown[j] = c[j]
      /\ \A j \in 1..Len(new) : grown[L + j] = new[j]
  BY <1>3
<1>9. CASE i <= R
  <2>1. L > 0 /\ last[s] = c[L]
    <3>1. last[s] = Last(c) /\ size[s] > 0
      BY <1>6, <1>9 DEF StreamInv, LastIsTail
    <3>2. L # 0
      <4> SUFFICES ASSUME L = 0 PROVE FALSE
        OBVIOUS
      <4>1. e + R = 0 * B
        BY <1>4
      <4>2. e + R = 0
        BY <4>1, <1>1
      <4> QED BY <4>2, <1>4, <1>5, <1>9
    <3> QED BY <3>1, <3>2, <1>3 DEF Last
  <2> DEFINE m == Pos(s)
             x == m + i - 1
  <2>2. x \in 0..B - 1
    <3> HIDE DEF m, B, L
    <3>1. m \in 1..B - 1 /\ R = B - m
      BY <1>6, <1>9 DEF m
    <3> QED BY <3>1, <1>1, <1>4, <1>9
  <2>3. p = (L - 1) * B + x
    <3> HIDE DEF m, B, L
    <3>1. m \in 1..B - 1 /\ R = B - m
      BY <1>6, <1>9 DEF m
    <3>2. (L - 1) * B = L * B - B /\ L * B \in Nat
      BY <1>1, <1>3
    <3> QED BY <3>1, <3>2, <1>1, <1>4, <1>5
  <2>4. p \div B = L - 1 /\ p % B = x
    <3> HIDE DEF x, p, L, B
    <3>1. L - 1 \in Nat /\ x \in Nat /\ x < B
      BY <1>1, <1>3, <2>1, <2>2
    <3>2. x \div B = 0 /\ x % B = x
      BY <3>1, <1>1
    <3>3. p \div B = (L - 1) + (x \div B) /\ p % B = x % B
      BY <3>1, <1>1, <2>3, DivModShift
    <3> QED BY <3>1, <3>2, <3>3
  <2>5. Cell(s, new, i) = <<c[L], x>>
    BY <2>1, <1>9 DEF Cell, R
  <2> HIDE DEF x, p, L, B, grown
  <2>6. p \div B + 1 = L /\ p \div B \in 0..L - 1 /\ grown[L] = c[L]
    BY <2>1, <2>4, <1>3, <1>8
  <2>7. Cell(s, new, i) = <<grown[p \div B + 1], p % B>>
    BY <2>4, <2>5, <2>6
  <2>8. p \div B \in 0..Len(grown) - 1
    BY <2>6, <1>3, <1>7
  <2> QED BY <1>5, <2>7, <2>8 DEF p, B, grown, c, e
<1>10. CASE i > R
  <2> DEFINE x == i - 1 - R
             q == x \div B
  <2>1. x \in Nat
    BY <1>4, <1>10
  <2>2. p = L * B + x
    <3> HIDE DEF L, B
    <3>1. L * B \in Nat
      BY <1>1, <1>3
    <3> QED BY <3>1, <1>4, <1>5
  <2>3. q \in Nat /\ q < Len(new)
    <3>1. q \in Nat
      <4> HIDE DEF x, B
      <4> QED BY <1>1, <2>1, DivMod
    <3>2. (i - 1 - Rest(s)) \div BlockSize < Len(new)
      BY <1>10 DEF R
    <3> QED BY <3>1, <3>2 DEF R
  <2>4. p \div B = L + q /\ p % B = x % B
    <3> HIDE DEF x, p, L, B
    <3> QED BY <1>1, <1>3, <2>1, <2>2, DivModShift
  <2>5. Cell(s, new, i) = <<new[q + 1], x % B>>
    <3>1. ~(i <= Rest(s))
      BY <1>4, <1>10 DEF R
    <3> QED BY <3>1 DEF Cell, R
  <2> HIDE DEF x, q, p, L, B, grown
  <2>6. q + 1 \in 1..Len(new) /\ grown[L + (q + 1)] = new[q + 1]
    BY <2>3, <1>8
  <2>7. p \div B + 1 = L + (q + 1) /\ p \div B \in 0..Len(grown) - 1
    BY <2>3, <2>4, <1>3, <1>7
  <2>8. Cell(s, new, i) = <<grown[p \div B + 1], p % B>>
    BY <2>4, <2>5, <2>6, <2>7
  <2> QED BY <1>5, <2>7, <2>8 DEF p, B, grown, c, e
<1>11. i <= R \/ i > R
  BY <1>4
<1> QED BY <1>9, <1>10, <1>11

(* The new blocks are enough for what does not fit into the last one. *)
LEMMA NewBlocksSuffice ==
  ASSUME StreamInv, NEW s \in Stream, NEW len \in Nat \ {0}, NEW i \in 1..len, i > Rest(s)
  PROVE  (i - 1 - Rest(s)) \div BlockSize < Need(s, len)
<1> DEFINE R == Rest(s)
           x == i - 1 - R
           y == len - R
           k == Pool!BlocksFor(y)
<1>1. R \in Nat
  <2>1. CASE size[s] = 0
    BY <2>1, EmptyHasNoChain
  <2>2. CASE size[s] > 0
    BY <2>2, RestIsRoom
  <2> QED BY <2>1, <2>2 DEF StreamInv, TypeOK
<1>2. BlockSize \in Nat \ {0}
  BY BlockSizeAssumption
<1>3. i > R
  OBVIOUS
<1>4. Need(s, len) = IF len <= R THEN 0 ELSE k
  BY DEF Need
<1> HIDE DEF R
<1>5. x \in Nat /\ y \in Nat /\ x < y
  BY <1>1, <1>3
<1>6. Need(s, len) = k
  BY <1>1, <1>3, <1>4
<1> HIDE DEF x, y, k
<1>7. k \in Nat /\ y <= k * BlockSize
  BY <1>5, BlocksForBounds DEF k
<1>8. x < k * BlockSize
  <2>1. k * BlockSize \in Nat
    BY <1>2, <1>7
  <2> QED BY <2>1, <1>5, <1>7
<1>9. x \div BlockSize \in 0..k - 1
  BY <1>2, <1>5, <1>7, <1>8, PlaceInChain
<1>10. x \div BlockSize < k
  BY <1>7, <1>9
<1> QED BY <1>6, <1>10 DEF x, R

(* A write appends its packet to what the stream holds, and touches no     *)
(* other stream's bytes.                                                   *)
LEMMA WriteContents ==
  ASSUME StreamInv, NEW s \in Stream, NEW packet \in Packet, Write(s, packet)
  PROVE  /\ Contents(s)' = Contents(s) \o packet
         /\ \A t \in Stream \ {s} : Contents(t)' = Contents(t)
<1> DEFINE len == Len(packet)
           need == Need(s, len)
           new == SubSeq(stack, 1, need)
           c == chain[s]
           grown == c \o new
           e == offset[s] + size[s]
           At(p) == <<grown[p \div BlockSize + 1], p % BlockSize>>
           place(j) == Cell(s, new, j)
<1>1. /\ len \in Nat \ {0} /\ new \in Seq(Block) /\ Len(new) = need
      /\ chain' = [chain EXCEPT ![s] = grown]
  BY WriteFacts
<1>2. /\ size' = [size EXCEPT ![s] = @ + len]
      /\ offset' = [offset EXCEPT ![s] = IF size[s] > 0 THEN @ ELSE 0]
      /\ mem' = Copied(s, new, packet)
  BY DEF Write, Pool!AllocChain
<1>3. /\ packet \in Seq(Byte) /\ c \in Seq(Block)
      /\ DOMAIN chain = Stream /\ size \in [Stream -> Nat] /\ offset \in [Stream -> Nat]
      /\ mem \in [Block \X (0..BlockSize - 1) -> Byte \union {Junk}]
  BY PacketAssumption DEF StreamInv, TypeOK
<1>4. size[s] \in Nat /\ offset[s] \in Nat /\ (size[s] = 0 => offset[s] = 0)
  BY DEF StreamInv, TypeOK, ChainFits
<1>5. StreamInv'
  BY WriteStreamInv
<1>6. \A i \in 1..len : i > Rest(s) => (i - 1 - Rest(s)) \div BlockSize < Len(new)
  BY <1>1, NewBlocksSuffice
<1> HIDE DEF need, new, len, c
<1>7. /\ grown \in Seq(Block) /\ Len(grown) = Len(c) + Len(new)
      /\ \A j \in 1..Len(c) : grown[j] = c[j]
  <2>1. c \in Seq(Block) /\ new \in Seq(Block)
    BY <1>1, <1>3
  <2> QED BY <2>1, ConcatChain, ConcatElements
<1> HIDE DEF grown, e
<1>8. /\ chain'[s] = grown /\ size'[s] = size[s] + len /\ offset'[s] = offset[s]
      /\ \A t \in Stream \ {s} :
           chain'[t] = chain[t] /\ size'[t] = size[t] /\ offset'[t] = offset[t]
  BY <1>1, <1>2, <1>3, <1>4
<1>9. /\ IsInjective(grown)
      /\ \A t \in Stream \ {s} : Range(chain[t]) \intersect Range(grown) = {}
  BY <1>5, <1>8 DEF StreamInv, ChainsDisjoint
<1>10. \A j \in 1..len : /\ e + j - 1 \in Nat
                         /\ (e + j - 1) \div BlockSize \in 0..Len(grown) - 1
                         /\ place(j) = At(e + j - 1)
  <2> TAKE j \in 1..len
  <2>1. j \in Nat \ {0}
    BY <1>1
  <2>2. j > Rest(s) => (j - 1 - Rest(s)) \div BlockSize < Len(new)
    BY <1>6
  <2> QED BY <2>1, <2>2, <1>1, CellIsPlace DEF e, grown, c
<1>11. \A i \in 1..size[s] : /\ Index(s, i) \in Nat
                             /\ Index(s, i) \div BlockSize \in 0..Len(grown) - 1
                             /\ Place(s, i) = At(Index(s, i))
  <2> TAKE i \in 1..size[s]
  <2> DEFINE q == Index(s, i) \div BlockSize
  <2>1. Index(s, i) \in Nat /\ q \in 0..Len(c) - 1 /\ Place(s, i) = <<c[q + 1], Index(s, i) % BlockSize>>
    BY PlaceHeld DEF Place, c
  <2> HIDE DEF q
  <2>2. q \in 0..Len(grown) - 1 /\ q + 1 \in 1..Len(c)
    <3>1. Len(c) \in Nat /\ Len(new) \in Nat
      BY <1>1, <1>3
    <3> QED BY <2>1, <3>1, <1>7
  <2>3. grown[q + 1] = c[q + 1]
    BY <2>2, <1>7
  <2> QED BY <2>1, <2>2, <2>3 DEF q
<1>12. \A p, q \in Nat :
         (/\ p \div BlockSize \in 0..Len(grown) - 1
          /\ q \div BlockSize \in 0..Len(grown) - 1
          /\ At(p) = At(q)) => p = q
  BY <1>7, <1>9, BlockSizeAssumption, PlacesDiffer
<1> DEFINE dirty == {place(j) : j \in 1..len}
<1>13. mem' = [cell \in DOMAIN mem |->
                IF cell \in dirty THEN packet[CHOOSE j \in 1..len : place(j) = cell] ELSE mem[cell]]
  <2>1. DOMAIN packet = 1..len
    BY <1>3 DEF len
  <2> QED BY <2>1, <1>2 DEF Copied
<1> HIDE DEF place
<1>14. ASSUME NEW i \in 1..size[s]
       PROVE  mem'[Place(s, i)] = mem[Place(s, i)]
  <2>1. Place(s, i) \in DOMAIN mem
    BY <1>3, PlaceHeld
  <2>2. ASSUME NEW j \in 1..len, Place(s, i) = place(j)
        PROVE  FALSE
    <3>1. Index(s, i) = e + j - 1
      <4> HIDE DEF At
      <4> QED BY <2>2, <1>10, <1>11, <1>12
    <3>2. offset[s] + i - 1 = offset[s] + size[s] + j - 1
      BY <3>1 DEF Index, e
    <3> QED BY <3>2, <1>1, <1>4
  <2> QED BY <2>1, <2>2, <1>13
<1>15. ASSUME NEW j \in 1..len
       PROVE  mem'[place(j)] = packet[j]
  <2>1. place(j) \in DOMAIN mem
    <3> DEFINE p == e + j - 1
               q == p \div BlockSize
               m == p % BlockSize
    <3>1. p \in Nat /\ q \in 0..Len(grown) - 1 /\ place(j) = <<grown[q + 1], m>>
      BY <1>10
    <3> HIDE DEF p
    <3>2. m \in 0..BlockSize - 1
      BY <3>1, BlockSizeAssumption, DivMod
    <3> HIDE DEF q, m
    <3>3. grown[q + 1] \in Block
      BY <3>1, <1>7
    <3> QED BY <3>1, <3>2, <3>3, <1>3
  <2>2. ASSUME NEW i \in 1..len, place(i) = place(j)
        PROVE  i = j
    <3>1. e + i - 1 = e + j - 1
      <4> HIDE DEF At
      <4> QED BY <2>2, <1>10, <1>12
    <3>2. e \in Nat
      BY <1>4 DEF e
    <3> QED BY <3>1, <3>2, <1>1
  <2>3. (CHOOSE i \in 1..len : place(i) = place(j)) = j
    BY <2>2
  <2> QED BY <2>1, <2>3, <1>13
<1>16. ASSUME NEW t \in Stream \ {s}
       PROVE  Contents(t)' = Contents(t)
  <2>1. ASSUME NEW cell \in Block \X (0..BlockSize - 1), cell[1] \in Range(chain[t])
        PROVE  mem'[cell] = mem[cell]
    <3>1. ASSUME NEW j \in 1..len, cell = place(j)
          PROVE  FALSE
      <4> DEFINE q == (e + j - 1) \div BlockSize
      <4>1. q \in 0..Len(grown) - 1 /\ cell[1] = grown[q + 1]
        BY <3>1, <1>10
      <4> HIDE DEF q
      <4>2. grown[q + 1] \in Range(grown)
        BY <4>1, <1>7 DEF Range
      <4> QED BY <4>1, <4>2, <2>1, <1>9
    <3> QED BY <3>1, <1>3, <1>13
  <2>2. chain'[t] = chain[t] /\ size'[t] = size[t] /\ offset'[t] = offset[t]
    BY <1>8
  <2> QED BY <2>1, <2>2, ContentsKept
<1>17. Contents(s)' = Contents(s) \o packet
  <2> DEFINE old == Contents(s)
             n == size[s]
             f(i) == mem'[At(offset[s] + i - 1)]
  <2>1. old \in Seq(Byte \union {Junk}) /\ Len(old) = n
    BY ContentsIsSeq
  <2>2. \A i \in 1..n : f(i) = old[i]
    <3> TAKE i \in 1..n
    <3>1. At(offset[s] + i - 1) = Place(s, i)
      BY <1>11 DEF Index
    <3> HIDE DEF At
    <3> QED BY <3>1, <1>14, ContentsIsSeq
  <2>3. \A j \in 1..len : f(n + j) = packet[j]
    <3> TAKE j \in 1..len
    <3>1. n \in Nat /\ offset[s] \in Nat /\ e = offset[s] + n
      BY <1>4 DEF e
    <3> HIDE DEF n
    <3>2. offset[s] + (n + j) - 1 = e + j - 1
      BY <3>1, <1>1
    <3>3. At(offset[s] + (n + j) - 1) = place(j)
      BY <3>2, <1>10
    <3> HIDE DEF At
    <3> QED BY <3>3, <1>15
  <2> DEFINE h == Contents(s)'
  <2>4. h = [i \in 1..n + len |-> f(i)]
    BY <1>8 DEF Contents
  <2>5. n \in Nat /\ len \in Nat /\ len = Len(packet) /\ packet \in Seq(Byte)
    BY <1>1, <1>3, <1>4 DEF len
  <2> HIDE DEF f, old, n, len, h
  <2>6. /\ h = [i \in 1..n + len |-> h[i]]
        /\ \A i \in 1..n : h[i] = old[i]
        /\ \A j \in 1..len : h[n + j] = packet[j]
    BY <2>2, <2>3, <2>4, <2>5
  <2>7. h = old \o packet
    <3>1. /\ h = [i \in 1..Len(old) + Len(packet) |-> h[i]]
          /\ \A i \in 1..Len(old) : h[i] = old[i]
          /\ \A j \in 1..Len(packet) : h[Len(old) + j] = packet[j]
      BY <2>1, <2>5, <2>6
    <3>2. old \in Seq(Byte \union {Junk}) /\ packet \in Seq(Byte \union {Junk})
      BY <2>1, <2>5
    <3> QED BY <3>1, <3>2, ConcatIs
  <2> QED BY <2>7 DEF h, old
<1> QED BY <1>16, <1>17

(* clear() leaves no contents. *)
LEMMA ClearContents ==
  ASSUME StreamInv, NEW s \in Stream, Clear(s)
  PROVE  /\ Contents(s)' = <<>>
         /\ \A t \in Stream \ {s} : Contents(t)' = Contents(t)
<1>1. /\ chain' = [chain EXCEPT ![s] = <<>>]
      /\ size' = [size EXCEPT ![s] = 0]
      /\ offset' = [offset EXCEPT ![s] = 0]
      /\ mem' = Forgotten(chain[s])
  BY DEF Clear
<1>2. /\ DOMAIN chain = Stream /\ size \in [Stream -> Nat] /\ offset \in [Stream -> Nat]
      /\ mem \in [Block \X (0..BlockSize - 1) -> Byte \union {Junk}]
  BY DEF StreamInv, TypeOK
<1>3. size'[s] = 0
  BY <1>1, <1>2
<1>4. Contents(s)' = <<>>
  <2>1. Contents(s)' = [i \in 1..size'[s] |->
                         mem'[<<chain'[s][(offset'[s] + i - 1) \div BlockSize + 1],
                                (offset'[s] + i - 1) % BlockSize>>]]
    BY DEF Contents
  <2> DEFINE f(i) == mem'[<<chain'[s][(offset'[s] + i - 1) \div BlockSize + 1],
                            (offset'[s] + i - 1) % BlockSize>>]
  <2>2. Contents(s)' = [i \in 1..0 |-> f(i)]
    BY <2>1, <1>3
  <2> HIDE DEF f
  <2>3. [i \in 1..0 |-> f(i)] = <<>>
    OBVIOUS
  <2> QED BY <2>2, <2>3
<1>5. ASSUME NEW t \in Stream \ {s}
      PROVE  Contents(t)' = Contents(t)
  <2>1. Range(chain[t]) \intersect Range(chain[s]) = {}
    BY DEF StreamInv, ChainsDisjoint
  <2>2. ASSUME NEW cell \in Block \X (0..BlockSize - 1), cell[1] \in Range(chain[t])
        PROVE  mem'[cell] = mem[cell]
    BY <2>1, <2>2, <1>1, <1>2 DEF Forgotten
  <2>3. chain'[t] = chain[t] /\ size'[t] = size[t] /\ offset'[t] = offset[t]
    BY <1>1, <1>2
  <2> QED BY <2>2, <2>3, ContentsKept
<1> QED BY <1>4, <1>5

(* A step that leaves chains, numbers and bytes alone leaves the queue.    *)
LEMMA QueueUnchanged ==
  ASSUME UNCHANGED <<chain, size, offset, mem>>
  PROVE  queue' = queue
BY DEF queue, Contents

(* Every step of the streams is a step of the byte queue, or none. *)
LEMMA NextQueueStep ==
  ASSUME StreamInv, [Next]_vars
  PROVE  Queue!Next \/ UNCHANGED Queue!vars
<1> DEFINE Goal == Queue!Next \/ UNCHANGED Queue!vars
<1>1. \A t \in Stream : queue[t] = Contents(t) /\ Len(Contents(t)) = size[t] /\ size[t] \in Nat
  BY ContentsIsSeq DEF queue, StreamInv, TypeOK
<1>2. ASSUME NEW s \in Stream, NEW packet \in Packet, Write(s, packet)
      PROVE  Queue!Next
  <2>1. queue' = [queue EXCEPT ![s] = Contents(s) \o packet]
    BY <1>2, WriteContents, QueueExcept
  <2>2. queue' = [queue EXCEPT ![s] = queue[s] \o packet]
    BY <2>1, <1>1
  <2>3. quota[s] = 0 \/ Len(queue[s]) + Len(packet) <= quota[s]
    BY <1>1, <1>2 DEF Write, Accepts, WithinQuota
  <2>4. ret' = Len(packet) /\ UNCHANGED quota
    BY <1>2 DEF Write
  <2>5. Queue!Write(s, packet)
    BY <2>2, <2>3, <2>4 DEF Queue!Write, queue
  <2> QED BY <2>5 DEF Queue!Next
<1>3. ASSUME NEW s \in Stream, NEW n \in 0..size[s] + 1, Read(s, n)
      PROVE  Queue!Next
  <2> DEFINE r == IF n < size[s] THEN n ELSE size[s]
  <2>1. n \in Nat /\ r \in 0..size[s]
    BY <1>1
  <2>2. ret' = r /\ UNCHANGED quota
    BY <1>3 DEF Read
  <2>3. /\ Contents(s)' = SubSeq(Contents(s), r + 1, Len(Contents(s)))
        /\ \A t \in Stream \ {s} : Contents(t)' = Contents(t)
    BY <1>3, <2>1, ReadContents
  <2> HIDE DEF r
  <2>4. queue' = [queue EXCEPT ![s] = SubSeq(queue[s], r + 1, Len(queue[s]))]
    <3>1. queue' = [queue EXCEPT ![s] = SubSeq(Contents(s), r + 1, Len(Contents(s)))]
      BY <2>3, QueueExcept
    <3> QED BY <3>1, <1>1
  <2>5. r \in 0..Len(queue[s]) /\ r <= Len(queue[s])
    BY <1>1, <2>1
  <2>6. Queue!Read(s, r)
    BY <2>2, <2>4, <2>5 DEF Queue!Read, queue
  <2> QED BY <2>5, <2>6 DEF Queue!Next, queue
<1>4. ASSUME NEW s \in Stream, Clear(s)
      PROVE  Queue!Next
  <2>1. queue' = [queue EXCEPT ![s] = <<>>]
    BY <1>4, ClearContents, QueueExcept
  <2>2. UNCHANGED <<quota, ret>>
    BY <1>4 DEF Clear
  <2>3. Queue!Clear(s)
    BY <2>1, <2>2 DEF Queue!Clear, queue
  <2> QED BY <2>3 DEF Queue!Next
<1>5. ASSUME NEW s \in Stream, NEW packet \in Packet,
             WriteRefused(s, packet) \/ WriteNothing(s)
      PROVE  Queue!Next
  <2>1. ret' = 0 /\ UNCHANGED <<chain, size, offset, mem, quota>>
    BY <1>5 DEF WriteRefused, WriteNothing
  <2>2. Queue!Refuse
    BY <2>1, QueueUnchanged DEF Queue!Refuse, queue
  <2> QED BY <2>2 DEF Queue!Next
<1>6. ASSUME NEW s \in Stream, NEW q \in Quota, SetQuota(s, q)
      PROVE  Queue!Next
  <2>1. quota' = [quota EXCEPT ![s] = q] /\ UNCHANGED <<chain, size, offset, mem, ret>>
    BY <1>6 DEF SetQuota
  <2>2. Queue!SetQuota(s, q)
    BY <2>1, QueueUnchanged DEF Queue!SetQuota, queue
  <2> QED BY <2>2 DEF Queue!Next
<1>7. ASSUME UNCHANGED stream_vars
      PROVE  UNCHANGED Queue!vars
  <2>1. UNCHANGED <<chain, size, offset, mem, quota, ret>>
    BY <1>7 DEF stream_vars
  <2> QED BY <2>1, QueueUnchanged DEF Queue!vars, queue
<1>8. CASE Next
  BY <1>8, <1>2, <1>3, <1>4, <1>5, <1>6, <1>7 DEF Next, Reserve
<1>9. CASE UNCHANGED vars
  BY <1>9, <1>7 DEF vars
<1> QED BY <1>8, <1>9

(* QueueSpec: through blocks, offsets and pointers the streams keep what   *)
(* ByteQueue promises: the bytes written come out in order, each once, a   *)
(* write is taken whole or leaves no trace, and a quota is not exceeded.   *)
THEOREM StreamsAreQueues == Spec => QueueSpec
<1>1. Init => Queue!Init
  <2> SUFFICES ASSUME Init PROVE Queue!Init
    OBVIOUS
  <2>1. \A s \in Stream : size[s] = 0
    BY DEF Init
  <2>2. \A s \in Stream : Contents(s) = <<>>
    <3> TAKE s \in Stream
    <3> DEFINE f(i) == mem[<<chain[s][(offset[s] + i - 1) \div BlockSize + 1],
                             (offset[s] + i - 1) % BlockSize>>]
    <3>1. Contents(s) = [i \in 1..0 |-> f(i)]
      BY <2>1 DEF Contents
    <3> HIDE DEF f
    <3>2. [i \in 1..0 |-> f(i)] = <<>>
      OBVIOUS
    <3> QED BY <3>1, <3>2
  <2>3. quota = [s \in Stream |-> 0] /\ ret = 0
    BY DEF Init
  <2> QED BY <2>2, <2>3 DEF Queue!Init
<1>2. StreamInv /\ [Next]_vars => [Queue!Next]_(Queue!vars)
  <2> SUFFICES ASSUME StreamInv, [Next]_vars
               PROVE  Queue!Next \/ UNCHANGED Queue!vars
    OBVIOUS
  <2> QED BY NextQueueStep
<1> QED BY <1>1, <1>2, StreamInvariant, PTL DEF Spec, QueueSpec, Queue!Spec

-----------------------------------------------------------------------------
(* The output buffers of the daemon are such streams, as long as cleanup() *)
(* has not handed a chain to libc.                                         *)

BuffersInv ==
  heap_ok =>
    /\ StreamInv
    /\ accepted \in [Fd -> Seq(Byte \union {Junk})]
    /\ sent \in [Fd -> Seq(Byte \union {Junk})]
    /\ SentThenBuffered

(* What put() takes goes behind what is buffered. *)
LEMMA PutBuffersInv ==
  ASSUME BuffersInv, heap_ok, NEW fd \in Fd, NEW packet \in Packet, Put(fd, packet)
  PROVE  BuffersInv'
<1> DEFINE B == Byte \union {Junk}
<1>1. /\ StreamInv /\ accepted \in [Fd -> Seq(B)] /\ sent \in [Fd -> Seq(B)]
      /\ \A f \in Fd : sent[f] \o Contents(f) = accepted[f]
  BY DEF BuffersInv, SentThenBuffered
<1>2. sent' = sent /\ heap_ok' = heap_ok /\ packet \in Seq(Byte) /\ packet \in Seq(B)
  BY PacketAssumption DEF Put
<1>3. CASE packet = <<>> /\ UNCHANGED <<vars, accepted>>
  <2>1. StreamInv'
    BY <1>1, <1>3, NextStreamInv
  <2>2. \A f \in Fd : Contents(f)' = Contents(f)
    BY <1>3 DEF vars, stream_vars, Contents
  <2> QED BY <1>1, <1>2, <1>3, <2>1, <2>2 DEF BuffersInv, SentThenBuffered
<1>4. CASE WriteRefused(fd, packet) /\ UNCHANGED accepted
  <2>1. StreamInv'
    BY <1>1, <1>4, NextStreamInv DEF Next, Fd
  <2>2. \A f \in Fd : Contents(f)' = Contents(f)
    BY <1>4 DEF WriteRefused, Contents
  <2> QED BY <1>1, <1>2, <1>4, <2>1, <2>2 DEF BuffersInv, SentThenBuffered
<1>5. CASE Write(fd, packet) /\ accepted' = [accepted EXCEPT ![fd] = @ \o packet]
  <2>1. StreamInv'
    BY <1>1, <1>5, WriteStreamInv DEF Fd
  <2>2. /\ Contents(fd)' = Contents(fd) \o packet
        /\ \A f \in Fd \ {fd} : Contents(f)' = Contents(f)
    BY <1>1, <1>5, WriteContents DEF Fd
  <2>3. Contents(fd) \in Seq(B) /\ sent[fd] \in Seq(B) /\ accepted[fd] \in Seq(B)
    BY <1>1, ContentsIsSeq DEF Fd
  <2>4. sent[fd] \o (Contents(fd) \o packet) = (sent[fd] \o Contents(fd)) \o packet
    <3> DEFINE c == Contents(fd)
               z == sent[fd]
    <3>1. c \in Seq(B) /\ z \in Seq(B)
      BY <2>3
    <3> HIDE DEF c, z, B
    <3>2. (z \o c) \o packet = z \o (c \o packet)
      BY <3>1, <1>2, ConcatAssociative, SMTT(30)
    <3> QED BY <3>2 DEF c, z
  <2>5. accepted' = [accepted EXCEPT ![fd] = accepted[fd] \o packet]
    BY <1>5
  <2>6. accepted[fd] \o packet \in Seq(B)
    BY <2>3, <1>2
  <2>7. accepted' \in [Fd -> Seq(B)]
    BY <1>1, <2>5, <2>6
  <2>8. \A f \in Fd : sent'[f] \o Contents(f)' = accepted'[f]
    <3> TAKE f \in Fd
    <3>1. CASE f = fd
      <4>1. accepted'[fd] = accepted[fd] \o packet
        BY <1>1, <2>5
      <4> QED BY <3>1, <4>1, <1>1, <1>2, <2>2, <2>4
    <3>2. CASE f # fd
      <4>1. accepted'[f] = accepted[f] /\ Contents(f)' = Contents(f)
        BY <3>2, <1>1, <2>2, <2>5
      <4> QED BY <4>1, <1>1, <1>2
    <3> QED BY <3>1, <3>2
  <2> QED BY <1>1, <1>2, <2>1, <2>7, <2>8 DEF BuffersInv, SentThenBuffered
<1> QED BY <1>3, <1>4, <1>5 DEF Put

(* What write() takes leaves the front of the buffer. *)
LEMMA PushBuffersInv ==
  ASSUME BuffersInv, heap_ok, NEW fd \in Fd, NEW n \in 0..size[fd], Push(fd, n)
  PROVE  BuffersInv'
<1> DEFINE B == Byte \union {Junk}
           c == Contents(fd)
           p == SubSeq(c, 1, n)
           q == SubSeq(c, n + 1, Len(c))
           z == sent[fd]
<1>1. /\ StreamInv /\ accepted \in [Fd -> Seq(B)] /\ sent \in [Fd -> Seq(B)]
      /\ \A f \in Fd : sent[f] \o Contents(f) = accepted[f]
  BY DEF BuffersInv, SentThenBuffered
<1>2. /\ Read(fd, n) /\ sent' = [sent EXCEPT ![fd] = z \o p]
      /\ accepted' = accepted /\ heap_ok' = heap_ok
  BY DEF Push
<1>3. size[fd] \in Nat /\ n \in Nat /\ fd \in Stream
  BY <1>1 DEF StreamInv, TypeOK, Fd
<1>4. StreamInv'
  BY <1>1, <1>2, <1>3, ReadStreamInv
<1>5. (IF n < size[fd] THEN n ELSE size[fd]) = n
  BY <1>3
<1>6. Contents(fd)' = q /\ \A f \in Fd \ {fd} : Contents(f)' = Contents(f)
  BY <1>1, <1>2, <1>3, <1>5, ReadContents DEF Fd
<1>7. c \in Seq(B) /\ Len(c) = size[fd] /\ z \in Seq(B)
  BY <1>1, <1>3, ContentsIsSeq DEF Fd
<1> HIDE DEF c, z, B
<1>8. n \in 0..Len(c)
  BY <1>7
<1>9. p \in Seq(B) /\ q \in Seq(B) /\ p \o q = c
  BY <1>7, <1>8, CutChain, CutConcat
<1> HIDE DEF p, q
<1>10. (z \o p) \o q = z \o c
  <2>1. z \in Seq(B) /\ p \in Seq(B) /\ q \in Seq(B)
    BY <1>7, <1>9
  <2>2. (z \o p) \o q = z \o (p \o q)
    BY <2>1, ConcatAssociative
  <2> QED BY <2>2, <1>9
<1>11. z \o p \in Seq(B)
  BY <1>7, <1>9
<1>12. sent' \in [Fd -> Seq(B)]
  BY <1>1, <1>2, <1>11
<1>13. \A f \in Fd : sent'[f] \o Contents(f)' = accepted'[f]
  <2> TAKE f \in Fd
  <2>1. CASE f = fd
    <3>1. sent'[fd] = z \o p
      BY <1>1, <1>2
    <3>2. z \o c = accepted[fd]
      BY <1>1 DEF z, c
    <3> QED BY <2>1, <3>1, <3>2, <1>2, <1>6, <1>10
  <2>2. CASE f # fd
    <3>1. sent'[f] = sent[f] /\ Contents(f)' = Contents(f)
      BY <2>2, <1>1, <1>2, <1>6
    <3> QED BY <3>1, <1>1, <1>2
  <2> QED BY <2>1, <2>2
<1> QED BY <1>1, <1>2, <1>4, <1>12, <1>13 DEF BuffersInv, SentThenBuffered, B

(* cleanup() of an empty buffer; of any other it ends what can be said.    *)
LEMMA CleanupBuffersInv ==
  ASSUME BuffersInv, heap_ok, NEW fd \in Fd, Cleanup(fd)
  PROVE  BuffersInv'
<1> SUFFICES ASSUME heap_ok'
             PROVE  BuffersInv'
  BY DEF BuffersInv
<1> DEFINE B == Byte \union {Junk}
<1>1. /\ StreamInv /\ accepted \in [Fd -> Seq(B)] /\ sent \in [Fd -> Seq(B)]
      /\ \A f \in Fd : sent[f] \o Contents(f) = accepted[f]
  BY DEF BuffersInv, SentThenBuffered
<1>2. /\ chain[fd] = <<>>
      /\ chain' = [chain EXCEPT ![fd] = <<>>]
      /\ last' = [last EXCEPT ![fd] = Null]
      /\ size' = [size EXCEPT ![fd] = 0]
      /\ offset' = [offset EXCEPT ![fd] = 0]
      /\ quota' = [quota EXCEPT ![fd] = 0]
      /\ accepted' = [accepted EXCEPT ![fd] = <<>>]
      /\ sent' = [sent EXCEPT ![fd] = <<>>]
      /\ UNCHANGED <<pool_vars, mem, wild, ret>>
  BY DEF Cleanup
<1>3. /\ chain \in [Stream -> Seq(Block)] /\ size \in [Stream -> Nat]
      /\ offset \in [Stream -> Nat] /\ last \in [Stream -> Block \union {Null}]
      /\ quota \in [Stream -> Nat] /\ fd \in Stream
  BY <1>1 DEF StreamInv, TypeOK, Fd
<1>4. chain' = chain
  BY <1>2, <1>3
<1>5. UNCHANGED <<total_count, free_count, pool_size, stack, pools>>
  BY <1>2 DEF pool_vars
<1>6. /\ size'[fd] = 0 /\ offset'[fd] = 0
      /\ \A f \in Stream \ {fd} : size'[f] = size[f] /\ offset'[f] = offset[f] /\ last'[f] = last[f]
  BY <1>2, <1>3
<1>7. StreamInv'
  <2>1. held' = held
    BY <1>4 DEF held
  <2>2. Pool!TypeOK' /\ Pool!Conservation' /\ Pool!CountersExact'
    BY <1>1, <1>5, <2>1, PoolFacts, PoolPart
  <2>3. TypeOK'
    <3>1. /\ size' \in [Stream -> Nat] /\ offset' \in [Stream -> Nat]
          /\ last' \in [Stream -> Block \union {Null}] /\ quota' \in [Stream -> Nat]
      BY <1>2, <1>3
    <3> QED BY <1>1, <1>2, <1>4, <2>2, <3>1 DEF StreamInv, TypeOK
  <2>4. ChainFits'
    <3>1. Len(chain'[fd]) = Pool!BlocksFor(offset'[fd] + size'[fd])
      <4>1. Len(chain'[fd]) = 0 /\ offset'[fd] + size'[fd] = 0
        BY <1>2, <1>4, <1>6
      <4> QED BY <4>1, BlocksForZero
    <3>2. offset'[fd] < BlockSize
      BY <1>6, BlockSizeAssumption
    <3> QED BY <3>1, <3>2, <1>1, <1>4, <1>6 DEF StreamInv, ChainFits, Pool!BlocksFor
  <2>5. LastIsTail'
    <3> SUFFICES ASSUME NEW f \in Stream, size'[f] > 0
                 PROVE  last'[f] = Last(chain'[f])
      BY DEF LastIsTail
    <3>1. f # fd
      BY <1>6
    <3>2. size[f] > 0 /\ last'[f] = last[f]
      BY <3>1, <1>6
    <3> QED BY <3>2, <1>1, <1>4 DEF StreamInv, LastIsTail
  <2>6. ChainsDisjoint'
    BY <1>1, <1>4 DEF StreamInv, ChainsDisjoint
  <2> QED BY <2>2, <2>3, <2>4, <2>5, <2>6 DEF StreamInv
<1>8. accepted' \in [Fd -> Seq(B)] /\ sent' \in [Fd -> Seq(B)]
  BY <1>1, <1>2, SMTT(30)
<1>9. \A f \in Fd : sent'[f] \o Contents(f)' = accepted'[f]
  <2> TAKE f \in Fd
  <2>1. CASE f = fd
    <3>1. Contents(fd)' = <<>>
      <4> DEFINE g(i) == mem'[<<chain'[fd][(offset'[fd] + i - 1) \div BlockSize + 1],
                                (offset'[fd] + i - 1) % BlockSize>>]
      <4>1. Contents(fd)' = [i \in 1..0 |-> g(i)]
        BY <1>6 DEF Contents
      <4> HIDE DEF g
      <4>2. [i \in 1..0 |-> g(i)] = <<>>
        OBVIOUS
      <4> QED BY <4>1, <4>2
    <3>2. sent'[fd] = <<>> /\ accepted'[fd] = <<>>
      BY <1>1, <1>2
    <3> QED BY <2>1, <3>1, <3>2
  <2>2. CASE f # fd
    <3>1. sent'[f] = sent[f] /\ accepted'[f] = accepted[f]
      BY <2>2, <1>1, <1>2
    <3>2. Contents(f)' = Contents(f)
      BY <2>2, <1>2, <1>4, <1>6 DEF Contents, Fd
    <3> QED BY <3>1, <3>2, <1>1
  <2> QED BY <2>1, <2>2
<1> QED BY <1>7, <1>8, <1>9 DEF BuffersInv, SentThenBuffered

(* Every step keeps the invariant. *)
LEMMA BuffersInvNext ==
  ASSUME BuffersInv, [BuffersNext]_buffers_vars
  PROVE  BuffersInv'
<1>1. ASSUME heap_ok, NEW n \in 1..Cardinality(Block), ReserveBuffers(n)
      PROVE  BuffersInv'
  <2>1. Reserve(n) /\ UNCHANGED <<accepted, sent, heap_ok>> /\ StreamInv
    BY <1>1 DEF ReserveBuffers, BuffersInv
  <2>2. n \in Nat
    BY BlockAssumption, FS_CardinalityType
  <2>3. StreamInv'
    BY <2>1, <2>2, ReserveStreamInv
  <2>4. \A f \in Fd : Contents(f)' = Contents(f)
    BY <2>1 DEF Reserve, stream_vars, Contents
  <2> QED BY <1>1, <2>1, <2>3, <2>4 DEF BuffersInv, SentThenBuffered
<1>2. ASSUME heap_ok, NEW fd \in Fd, NEW q \in Quota, PutQuota(fd, q)
      PROVE  BuffersInv'
  <2>1. SetQuota(fd, q) /\ UNCHANGED <<accepted, sent, heap_ok>> /\ StreamInv
    BY <1>2 DEF PutQuota, BuffersInv
  <2>2. StreamInv'
    BY <2>1, NextStreamInv DEF Next, Fd
  <2>3. \A f \in Fd : Contents(f)' = Contents(f)
    BY <2>1 DEF SetQuota, Contents
  <2> QED BY <1>2, <2>1, <2>2, <2>3 DEF BuffersInv, SentThenBuffered
<1>3. CASE BuffersNext
  BY <1>1, <1>2, <1>3, PutBuffersInv, PushBuffersInv, CleanupBuffersInv DEF BuffersNext
<1>4. CASE UNCHANGED buffers_vars
  <2>1. UNCHANGED <<vars, accepted, sent, heap_ok>>
    BY <1>4 DEF buffers_vars
  <2>2. heap_ok => StreamInv'
    BY <2>1, NextStreamInv DEF BuffersInv
  <2>3. \A f \in Fd : Contents(f)' = Contents(f)
    BY <2>1 DEF vars, stream_vars, Contents
  <2> QED BY <2>1, <2>2, <2>3 DEF BuffersInv, SentThenBuffered
<1> QED BY <1>3, <1>4

(* Initially no descriptor has a buffer. *)
LEMMA BuffersInvInit == BuffersInit => BuffersInv
<1> SUFFICES ASSUME BuffersInit PROVE BuffersInv
  OBVIOUS
<1>1. StreamInv
  BY InitStreamInv DEF BuffersInit
<1>2. accepted = [fd \in Fd |-> <<>>] /\ sent = [fd \in Fd |-> <<>>]
  BY DEF BuffersInit
<1>3. \A fd \in Fd : Contents(fd) = <<>>
  <2> TAKE fd \in Fd
  <2> DEFINE g(i) == mem[<<chain[fd][(offset[fd] + i - 1) \div BlockSize + 1],
                           (offset[fd] + i - 1) % BlockSize>>]
  <2>1. Contents(fd) = [i \in 1..0 |-> g(i)]
    BY DEF BuffersInit, Init, Contents, Fd
  <2> HIDE DEF g
  <2>2. [i \in 1..0 |-> g(i)] = <<>>
    OBVIOUS
  <2> QED BY <2>1, <2>2
<1> QED BY <1>1, <1>2, <1>3 DEF BuffersInv, SentThenBuffered

(* The peer gets what put() took, each byte once and in order, whatever    *)
(* part of a buffer each write() takes, and while the heap is sound every  *)
(* block of the pool is free or in exactly one descriptor's buffer.        *)
THEOREM BuffersAreSound == BuffersSpec => []BuffersSound
<1>1. BuffersInv /\ [BuffersNext]_buffers_vars => BuffersInv'
  BY BuffersInvNext
<1>2. BuffersInv => BuffersSound
  BY DEF BuffersInv, BuffersSound, SentThenBuffered, NoBlockLost, StreamInv
<1> QED BY <1>1, <1>2, BuffersInvInit, PTL DEF BuffersSpec
=============================================================================
