------------------------------ MODULE DXArray ------------------------------
(***************************************************************************)
(* The growable array behind every list of the library (DX_ARRAY_INSERT,   *)
(* DX_ARRAY_DELETE and DX_ARRAY_RESERVE of DXAlgorithms.h, with            *)
(* dx_capacity_manager_halfer of DXAlgorithms.c).  The values stored are   *)
(* left out: what matters is whether the size, the recorded capacity and   *)
(* the memory really allocated stay consistent, also when dx_calloc fails. *)
(***************************************************************************)
EXTENDS Integers

CONSTANTS MaxSize,        \* bound: elements in the array
          ResizeMayFail   \* whether dx_calloc may return NULL

ASSUME DXArrayAssumption == MaxSize \in Nat /\ ResizeMayFail \in BOOLEAN

VARIABLES size,       \* array_obj.size
          capacity,   \* array_obj.capacity
          buffer      \* elements that fit in the block array_obj.elements points to

arrayVars == <<size, capacity, buffer>>

ArrayTypeOK == size \in Nat /\ capacity \in Nat /\ buffer \in Nat

\* Mutant of Halfer: it grows too late.
HalferLate(newSize, cap) ==
  IF newSize > cap + 1 THEN (cap * 3) \div 2 + 1
  ELSE IF newSize < cap /\ 2 * newSize < cap THEN newSize ELSE cap

\* dx_capacity_manager_halfer: the capacity it leaves for a new size, and
\* whether it asks for a reallocation.
Halfer(newSize, cap) ==
  IF newSize > cap THEN (cap * 3) \div 2 + 1
  ELSE IF newSize < cap /\ 2 * newSize < cap THEN newSize ELSE cap
Reallocates(newSize, cap) == newSize > cap \/ (newSize < cap /\ 2 * newSize < cap)

\* DX_EMPTY_ARRAY
ArrayInit == size = 0 /\ capacity = 0 /\ buffer = 0

\* The capacity manager has already stored the new capacity when dx_calloc
\* fails; the old block and the old size stay.
Resize(newSize, fails) ==
  /\ fails => ResizeMayFail /\ Reallocates(newSize, capacity)
  /\ capacity' = Halfer(newSize, capacity)
  /\ buffer' = IF Reallocates(newSize, capacity) /\ ~fails THEN capacity' ELSE buffer
  /\ size' = IF fails THEN size ELSE newSize

DX_ARRAY_INSERT(fails) == size < MaxSize /\ Resize(size + 1, fails)

DX_ARRAY_DELETE(fails) == size > 0 /\ Resize(size - 1, fails)

\* DX_ARRAY_RESERVE sets the capacity only after the allocation succeeded.
DX_ARRAY_RESERVE(reserve, fails) ==
  /\ reserve > size
  /\ fails => ResizeMayFail /\ reserve > capacity
  /\ size' = IF fails THEN size ELSE reserve
  /\ LET grows == reserve > capacity /\ ~fails
     IN /\ capacity' = IF grows THEN reserve ELSE capacity
        /\ buffer' = IF grows THEN reserve ELSE buffer

ArrayNext == \E fails \in BOOLEAN :
           \/ DX_ARRAY_INSERT(fails)
           \/ DX_ARRAY_DELETE(fails)
           \/ \E reserve \in 1..MaxSize : DX_ARRAY_RESERVE(reserve, fails)

ArraySpec == ArrayInit /\ [][ArrayNext]_arrayVars
-----------------------------------------------------------------------------
\* No sequence of insertions, deletions and reservations stores an element
\* outside the allocated block, although growth by half of a small capacity
\* and the shrinking by half work with different roundings.
ElementsInBuffer == size <= buffer

\* The array never holds more than twice the memory its elements need, after
\* whatever mixture of growing and shrinking.
AtMostHalfEmpty == capacity <= 2 * size

\* DXAlgorithms.h describes capacity as "the current buffer capacity".
CapacityIsBuffer == capacity = buffer

ArrayInv == ArrayTypeOK /\ ElementsInBuffer /\ AtMostHalfEmpty /\ CapacityIsBuffer
=============================================================================
