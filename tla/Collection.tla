----------------------------- MODULE Collection -----------------------------
(***************************************************************************)
(* struct collection of libusbmuxd/src/utils.c: an array of pointers with  *)
(* NULL holes, grown by doubling.  A pointer is modelled by what the       *)
(* program tells it by (the handle of the record it points to), and a      *)
(* removal by the slot its pointer is found in.                            *)
(***************************************************************************)
EXTENDS Integers

CONSTANT NULL     \* the null pointer

Slots(col) == 0 .. col.capacity - 1

CollectionInit == [capacity |-> 1, list |-> [i \in 0..0 |-> NULL]]

CollectionFree == [capacity |-> 0, list |-> [i \in 0..-1 |-> NULL]]

Holes(col) == {i \in Slots(col) : col.list[i] = NULL}

\* Slips: the array is not grown with its capacity; the new array starts
\* empty; the element that made it grow is forgotten.
CollectionAddNoRealloc(col, element) ==
  IF Holes(col) # {}
  THEN [col EXCEPT !.list = [@ EXCEPT ![CHOOSE i \in Holes(col) : TRUE] = element]]
  ELSE [col EXCEPT !.capacity = 2 * @]

CollectionAddNoCopy(col, element) ==
  IF Holes(col) # {}
  THEN [col EXCEPT !.list = [@ EXCEPT ![CHOOSE i \in Holes(col) : TRUE] = element]]
  ELSE [capacity |-> 2 * col.capacity,
        list |-> [i \in 0 .. 2 * col.capacity - 1 |->
                    IF i = col.capacity THEN element ELSE NULL]]

CollectionAddForgets(col, element) ==
  IF Holes(col) # {}
  THEN [col EXCEPT !.list = [@ EXCEPT ![CHOOSE i \in Holes(col) : TRUE] = element]]
  ELSE [capacity |-> 2 * col.capacity,
        list |-> [i \in 0 .. 2 * col.capacity - 1 |->
                    IF i < col.capacity THEN col.list[i] ELSE NULL]]

\* The loop takes the first hole; a full array is doubled and zeroed.
CollectionAdd(col, element) ==
  IF Holes(col) # {}
  THEN LET i == CHOOSE i \in Holes(col) : \A j \in Holes(col) : i <= j
       IN  [col EXCEPT !.list = [@ EXCEPT ![i] = element]]
  ELSE [capacity |-> 2 * col.capacity,
        list |-> [i \in 0 .. 2 * col.capacity - 1 |->
                    IF i < col.capacity THEN col.list[i]
                    ELSE IF i = col.capacity THEN element ELSE NULL]]

CollectionRemove(col, slot) == [col EXCEPT !.list = [@ EXCEPT ![slot] = NULL]]

\* The slots FOREACH stops at from slot i on: those whose pointer is not NULL.
FilledFrom(col, i) == {j \in Slots(col) : j >= i /\ col.list[j] # NULL}

\* Where the first element equal to e is, as a set of at most one slot.
FirstSlot(col, e) ==
  {i \in Slots(col) : col.list[i] = e /\ \A j \in 0 .. i - 1 : col.list[j] # e}
=============================================================================
