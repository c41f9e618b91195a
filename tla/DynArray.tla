------------------------------ MODULE DynArray ------------------------------
(***************************************************************************)
(* tinyxml2's DynArray: an array that moves to memory twice as large as is *)
(* needed when it is full.  Nothing is written to the new memory but what  *)
(* was in use, and nothing is taken back when the array gets smaller.      *)
(***************************************************************************)
EXTENDS Integers, Sequences

CONSTANT Unset   \* what is in memory that nobody has written to

UnsetCells(n) == [i \in 1..n |-> Unset]
NewArray(initialSize) == [mem |-> UnsetCells(initialSize), size |-> 0]

EnsureCapacity(a, cap) ==
  IF cap <= Len(a.mem) THEN a
  ELSE [a EXCEPT !.mem = SubSeq(a.mem, 1, a.size)
                           \o UnsetCells(2 * cap - a.size)]

\* The new cells are those behind a.size.
PushArr(a, count) == [EnsureCapacity(a, a.size + count) EXCEPT !.size = @ + count]
Push(a, t) == [PushArr(a, 1) EXCEPT !.mem[a.size + 1] = t]
PopArr(a, count) == [a EXCEPT !.size = @ - count]

InUse(a) == SubSeq(a.mem, 1, a.size)
=============================================================================
