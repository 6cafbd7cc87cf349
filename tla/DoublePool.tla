----------------------------- MODULE DoublePool -----------------------------
(***************************************************************************)
(* libnano v1's pools of temporary objects: a SimplePool gives memory from *)
(* bottom to top and gives it back context by context, a DoublePool keeps  *)
(* two of them.  A function opens a context and makes what it needs itself *)
(* with tempAlloc() and what it returns with alloc(): leave() frees the    *)
(* first and lets the second live until the caller's own leave().          *)
(***************************************************************************)
EXTENDS Integers, Sequences, FiniteSets

CONSTANTS
  PoolBytes,  \* size of each subpool
  StackLen,   \* contexts that may be open in each: half of stack_len
  Sizes       \* bound: the sizes of objects

ASSUME DoublePoolAssumption == PoolBytes \in Nat /\ StackLen \in Nat /\ Sizes \subseteq Nat

VARIABLES
  subpool,    \* the two pools: [offset, stack]
  active,     \* which of them is active
  objects,    \* history: what has been given and not been freed
  overfull    \* history: an enter() has found its stack full

dp_vars == <<subpool, active, objects, overfull>>

Other(p) == 1 - p
temp == Other(active)

NewPool == [offset |-> 0, stack |-> <<>>]

DoublePoolInit ==
  /\ subpool = [p \in 0..1 |-> NewPool]
  /\ active = 0
  /\ objects = {}
  /\ overfull = FALSE

PoolDepth(p) == Len(subpool[p].stack)

(* getStackDepth() of both. *)
Depth == PoolDepth(0) + PoolDepth(1)

-----------------------------------------------------------------------------

(* SimplePool::alloc(), for an object that is to live until the context    *)
(* at depth "until" is left.  An exception changes nothing.                *)
AllocFrom(p, size, until) ==
  /\ subpool[p].offset + size <= PoolBytes
  /\ subpool' = [subpool EXCEPT ![p].offset = @ + size]
  /\ objects' = objects \union
       {[pool |-> p, from |-> subpool[p].offset, size |-> size, until |-> until]}
  /\ UNCHANGED <<active, overfull>>

Alloc(size) == AllocFrom(active, size, Depth - 1)

TempAlloc(size) == AllocFrom(temp, size, Depth)

(* SimplePool::enter() notes how much is taken, in a stack that may be     *)
(* full: then an exception.                                                *)
EnterPool(p) ==
  IF PoolDepth(p) = StackLen THEN subpool[p]
  ELSE [subpool[p] EXCEPT !.stack = Append(@, subpool[p].offset)]

(* SimplePool::leave() takes back to the note all that came after it.      *)
LeavePool(p) ==
  LET noted == subpool[p].stack
  IN [offset |-> noted[Len(noted)], stack |-> SubSeq(noted, 1, Len(noted) - 1)]

(* enter(): the pools are swapped before the stack is found to be full.    *)
Enter ==
  /\ active' = temp
  /\ subpool' = [subpool EXCEPT ![active] = EnterPool(active)]
  /\ overfull' = (overfull \/ PoolDepth(active) = StackLen)
  /\ UNCHANGED objects

(* Mutant of Leave: the pools are swapped first, as in enter(). *)
LeaveSwapsFirst ==
  /\ PoolDepth(active) > 0
  /\ subpool' = [subpool EXCEPT ![active] = LeavePool(active)]
  /\ active' = temp
  /\ objects' = {o \in objects : o.until < Depth}
  /\ UNCHANGED overfull

(* leave(): nothing happens but an exception if no context is open.        *)
Leave ==
  /\ PoolDepth(temp) > 0
  /\ subpool' = [subpool EXCEPT ![temp] = LeavePool(temp)]
  /\ active' = temp
  /\ objects' = {o \in objects : o.until < Depth}
  /\ UNCHANGED overfull

(* Nothing is said of a pool after an enter() that failed.                 *)
DoublePoolNext ==
  /\ ~overfull
  /\ \/ Enter \/ Leave
     \/ \E size \in Sizes : Alloc(size) \/ TempAlloc(size)

-----------------------------------------------------------------------------

(* However calls nest, every byte below a pool's offset belongs to exactly *)
(* one object that is still to live: what a function returns outlives its  *)
(* own context and is freed with its caller's, and memory neither leaks    *)
(* nor is given twice.  The pools keep this until an enter() finds its     *)
(* stack full: then they have been swapped all the same, and the next      *)
(* leave() of the caller takes what it must not.                           *)
ObjectsLive ==
  ~overfull =>
    \A p \in 0..1 : \A byte \in 0..PoolBytes - 1 :
      Cardinality({o \in objects : o.pool = p /\ byte \in o.from .. o.from + o.size - 1})
        = (IF byte < subpool[p].offset THEN 1 ELSE 0)
=============================================================================
