------------------------------- MODULE MemPool -------------------------------
(***************************************************************************)
(* tinyxml2's MemPoolT: items are taken from blocks, and those that are    *)
(* free form a list through their own first bytes.  The client is a        *)
(* document: it holds items, and marks as tracked those it puts into its   *)
(* tree.  What only Trace prints, the number of allocations and their      *)
(* maximum, is left out.                                                   *)
(***************************************************************************)
EXTENDS DynArray, FiniteSets, SequencesExt

CONSTANTS
  Blocks,           \* addresses of blocks; bound: how many there may be
  ITEMS_PER_BLOCK,
  InitialBlocks,    \* the initial size of the array of blocks
  NoItem            \* the null pointer

ASSUME PoolAssumption ==
  /\ IsFiniteSet(Blocks)
  /\ ITEMS_PER_BLOCK \in Nat \ {0}
  /\ InitialBlocks \in Nat \ {0}
  /\ NoItem \notin Blocks \X (1..ITEMS_PER_BLOCK)

VARIABLES
  heap,           \* the blocks that were allocated and not deleted
  blockPtrs,      \* the array that names them
  freeRoot,       \* the first item that is free
  nextItem,       \* the next pointers, which only free items have
  currentAllocs,
  nUntracked,
  held,           \* the items the client holds
  tracked         \* those of them that it has marked

poolVars == <<heap, blockPtrs, freeRoot, nextItem, currentAllocs, nUntracked,
              held, tracked>>

ItemsOf(B) == B \X (1..ITEMS_PER_BLOCK)

PoolInit ==
  /\ heap = {}
  /\ blockPtrs = NewArray(InitialBlocks)
  /\ freeRoot = NoItem
  /\ nextItem = [x \in ItemsOf(Blocks) |-> NoItem]
  /\ currentAllocs = 0
  /\ nUntracked = 0
  /\ held = {}
  /\ tracked = {}

-----------------------------------------------------------------------------
\* The items of the block b in a list
Chained(b) ==
  [x \in ItemsOf(Blocks) |->
     IF x[1] = b /\ x[2] < ITEMS_PER_BLOCK THEN <<b, x[2] + 1>>
     ELSE IF x[1] = b THEN NoItem ELSE nextItem[x]]

\* The first item of the list next is taken; what the client makes of it is
\* written over its pointer.
Take(first, next) ==
  /\ freeRoot' = next[first]
  /\ nextItem' = [next EXCEPT ![first] = NoItem]
  /\ currentAllocs' = currentAllocs + 1
  /\ nUntracked' = nUntracked + 1
  /\ held' = held \cup {first}
  /\ UNCHANGED tracked

Alloc ==
  \/ /\ freeRoot # NoItem
     /\ Take(freeRoot, nextItem)
     /\ UNCHANGED <<heap, blockPtrs>>
  \/ /\ freeRoot = NoItem
     /\ \E b \in Blocks \ heap :
          /\ heap' = heap \cup {b}
          /\ blockPtrs' = Push(blockPtrs, b)
          /\ Take(<<b, 1>>, Chained(b))

\* A node is marked before it is freed, except after an error in a text, which
\* clears the pool in the end.
Free ==
  \E x \in tracked :
    /\ currentAllocs' = currentAllocs - 1
    /\ nextItem' = [nextItem EXCEPT ![x] = freeRoot]
    /\ freeRoot' = x
    /\ held' = held \ {x}
    /\ tracked' = tracked \ {x}
    /\ UNCHANGED <<heap, blockPtrs, nUntracked>>

MarkTracked ==
  \E x \in held \ tracked :
    /\ nUntracked' = nUntracked - 1
    /\ tracked' = tracked \cup {x}
    /\ UNCHANGED <<heap, blockPtrs, freeRoot, nextItem, currentAllocs, held>>

\* What the client still holds is gone.
DanglingSlip ==
  /\ heap' = heap \ ToSet(InUse(blockPtrs))
  /\ blockPtrs' = PopArr(blockPtrs, blockPtrs.size)
  /\ currentAllocs' = 0
  /\ nUntracked' = 0
  /\ held' = {}
  /\ tracked' = {}
  /\ nextItem' = [x \in ItemsOf(Blocks) |-> NoItem]
  /\ UNCHANGED freeRoot
ClearPool ==
  /\ heap' = heap \ ToSet(InUse(blockPtrs))
  /\ blockPtrs' = PopArr(blockPtrs, blockPtrs.size)
  /\ freeRoot' = NoItem
  /\ currentAllocs' = 0
  /\ nUntracked' = 0
  /\ held' = {}
  /\ tracked' = {}
  /\ nextItem' = [x \in ItemsOf(Blocks) |-> NoItem]

PoolNext == \/ Alloc
            \/ Free
            \/ MarkTracked
            \/ ClearPool

PoolSpec == PoolInit /\ [][PoolNext]_poolVars

-----------------------------------------------------------------------------
\* The list that starts with first is a ring of the items F and NoItem, which
\* comes before its first item and behind its last one: it has no branch, and
\* passes all of F.
IsRing(F, first, next) ==
  LET Ring == F \cup {NoItem}
      After(x) == IF x = NoItem THEN first ELSE next[x]
  IN /\ \A x \in Ring : After(x) \in Ring
     /\ \A x, y \in Ring : After(x) = After(y) => x = y
     /\ \A S \in SUBSET F : S # {} => \E x \in Ring \ S : After(x) \in S

(* Every item of every block is either held by one node or once in the free  *)
(* list, the array names every block there is, which is what Clear deletes,  *)
(* and the counters count: no item is handed out twice and none is lost,     *)
(* however the nodes come and go (MemPoolT::Alloc, Free, Clear).             *)
PoolHandsOutOnce ==
  /\ held \subseteq ItemsOf(heap)
  /\ IsRing(ItemsOf(heap) \ held, freeRoot, nextItem)
  /\ ToSet(InUse(blockPtrs)) = heap
  /\ currentAllocs = Cardinality(held)
  /\ nUntracked = Cardinality(held \ tracked)
=============================================================================
