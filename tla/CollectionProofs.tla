-------------------------- MODULE CollectionProofs --------------------------
(***************************************************************************)
(* What collection_add and collection_remove do to the number of records   *)
(* of an element, for every well-formed collection.                        *)
(***************************************************************************)
EXTENDS Collection, FiniteSets, FiniteSetTheorems, WellFoundedInduction, TLAPS

\* A record of capacity and an array indexed by the slots.
WellFormed(col) ==
  /\ col = [capacity |-> col.capacity, list |-> col.list]
  /\ col.capacity \in Nat
  /\ col.list = [i \in Slots(col) |-> col.list[i]]

SlotsOf(col, e) == {i \in Slots(col) : col.list[i] = e}

LEMMA Least ==
  ASSUME NEW H \in SUBSET Nat, H # {}
  PROVE  \E i \in H : \A j \in H : i <= j
<1> DEFINE Below == {0 .. i - 1 : i \in H}
<1>1. H \subseteq Nat
  OBVIOUS
<1>2. Below \subseteq FiniteSubsetsOf(Nat)
  <2> SUFFICES ASSUME NEW i \in H PROVE 0 .. i - 1 \in FiniteSubsetsOf(Nat)
    OBVIOUS
  <2>1. i - 1 \in Int /\ 0 .. i - 1 \in SUBSET Nat
    BY <1>1
  <2>2. IsFiniteSet(0 .. i - 1)
    BY <2>1, FS_Interval
  <2> QED BY <2>1, <2>2 DEF FiniteSubsetsOf
<1>3. Below # {}
  OBVIOUS
<1>4. PICK x \in Below : \A y \in Below : <<y, x>> \notin StrictSubsetOrdering(Nat)
  <2> HIDE DEF Below
  <2> QED BY <1>2, <1>3, WFMin, FS_StrictSubsetOrderingWellFounded
<1>5. PICK i \in H : x = 0 .. i - 1
  OBVIOUS
<1>6. ASSUME NEW j \in H PROVE i <= j
  <2>1. <<0 .. j - 1, 0 .. i - 1>> \notin StrictSubsetOrdering(Nat)
    BY <1>4, <1>5
  <2>2. 0 .. j - 1 \in SUBSET Nat /\ 0 .. i - 1 \in SUBSET Nat
    BY <1>1
  <2>3. ~(0 .. j - 1 \subseteq 0 .. i - 1 /\ 0 .. j - 1 # 0 .. i - 1)
    BY <2>1, <2>2 DEF StrictSubsetOrdering
  <2>4. SUFFICES ASSUME j < i PROVE FALSE
    BY <1>1
  <2>5. 0 .. j - 1 \subseteq 0 .. i - 1
    BY <1>1, <2>4
  <2>6. j \in 0 .. i - 1 /\ j \notin 0 .. j - 1
    BY <1>1, <2>4
  <2> QED BY <2>3, <2>5, <2>6
<1> QED BY <1>6

LEMMA LeastHole ==
  ASSUME NEW col, WellFormed(col), Holes(col) # {}
  PROVE  \E i \in Holes(col) : \A j \in Holes(col) : i <= j
<1>1. Holes(col) \in SUBSET Nat
  BY DEF Holes, Slots, WellFormed
<1> QED BY <1>1, Least

\* An element that is stored is found.
LEMMA StoredIsFound ==
  ASSUME NEW col, WellFormed(col), NEW e, SlotsOf(col, e) # {}
  PROVE  FirstSlot(col, e) # {}
<1>1. SlotsOf(col, e) \in SUBSET Nat
  BY DEF SlotsOf, Slots, WellFormed
<1>2. PICK i \in SlotsOf(col, e) : \A j \in SlotsOf(col, e) : i <= j
  BY <1>1, Least
<1>3. ASSUME NEW j \in 0 .. i - 1 PROVE col.list[j] # e
  BY <1>1, <1>2 DEF SlotsOf, Slots, WellFormed
<1> QED BY <1>2, <1>3 DEF FirstSlot, SlotsOf

LEMMA SlotsFinite ==
  ASSUME NEW col, WellFormed(col), NEW e
  PROVE  IsFiniteSet(SlotsOf(col, e)) /\ Cardinality(SlotsOf(col, e)) \in Nat
<1>1. IsFiniteSet(Slots(col))
  <2>1. 0 \in Int /\ col.capacity - 1 \in Int
    BY DEF WellFormed
  <2> QED BY <2>1, FS_Interval DEF Slots
<1> QED BY <1>1, FS_Subset, FS_CardinalityType DEF SlotsOf

\* The array after an add differs from the one before in one slot, which
\* held no pointer and now holds the element.
LEMMA AddFillsOneSlot ==
  ASSUME NEW col, WellFormed(col), NEW e, e # NULL,
         NEW new, new = CollectionAdd(col, e), Holes(col) # {} \/ col.capacity > 0
  PROVE  /\ WellFormed(new)
         /\ \E i : /\ i \notin Slots(col) \/ col.list[i] = NULL
                   /\ SlotsOf(new, e) = SlotsOf(col, e) \cup {i}
                   /\ \A d : d # e /\ d # NULL => SlotsOf(new, d) = SlotsOf(col, d)
<1>1. CASE Holes(col) # {}
  <2> DEFINE i == CHOOSE i \in Holes(col) : \A j \in Holes(col) : i <= j
  <2>1. i \in Holes(col)
    BY <1>1, LeastHole
  <2>2. new = [col EXCEPT !.list = [@ EXCEPT ![i] = e]]
    BY <1>1 DEF CollectionAdd
  <2> HIDE DEF i
  <2>3. i \in Slots(col) /\ col.list[i] = NULL
    BY <2>1 DEF Holes
  <2>4. new = [capacity |-> col.capacity, list |-> [col.list EXCEPT ![i] = e]]
    BY <2>2 DEF WellFormed
  <2>5. new.capacity = col.capacity /\ new.list = [col.list EXCEPT ![i] = e]
    BY <2>4
  <2>6. Slots(new) = Slots(col)
    BY <2>5 DEF Slots
  <2>7. new.list = [j \in Slots(col) |-> IF j = i THEN e ELSE col.list[j]]
    BY <2>3, <2>5 DEF WellFormed
  <2>8. WellFormed(new)
    BY <2>4, <2>5, <2>6, <2>7 DEF WellFormed
  <2>9. SlotsOf(new, e) = SlotsOf(col, e) \cup {i}
    BY <2>3, <2>6, <2>7 DEF SlotsOf
  <2>10. \A d : d # e /\ d # NULL => SlotsOf(new, d) = SlotsOf(col, d)
    BY <2>3, <2>6, <2>7 DEF SlotsOf
  <2> QED BY <2>3, <2>8, <2>9, <2>10
<1>2. CASE Holes(col) = {}
  <2> DEFINE n == col.capacity
  <2>1. n \in Nat /\ n > 0
    BY <1>2 DEF WellFormed
  <2>2. /\ new.capacity = 2 * n
        /\ new.list = [j \in 0 .. 2 * n - 1 |->
                         IF j < n THEN col.list[j] ELSE IF j = n THEN e ELSE NULL]
        /\ new = [capacity |-> new.capacity, list |-> new.list]
    BY <1>2 DEF CollectionAdd
  <2>3. Slots(new) = 0 .. 2 * n - 1 /\ Slots(col) = 0 .. n - 1
    BY <2>2 DEF Slots
  <2>4. WellFormed(new)
    <3>1. new.capacity \in Nat
      BY <2>1, <2>2
    <3>2. new.list = [j \in Slots(new) |-> new.list[j]]
      BY <2>2, <2>3
    <3> QED BY <2>2, <3>1, <3>2 DEF WellFormed
  <2>8. \A j \in Slots(new) : new.list[j] = IF j \in Slots(col) THEN col.list[j]
                                            ELSE IF j = n THEN e ELSE NULL
    BY <2>1, <2>2, <2>3
  <2>9. Slots(col) \subseteq Slots(new)
    BY <2>1, <2>3
  <2>5. n \in Slots(new) /\ n \notin Slots(col)
    BY <2>1, <2>3
  <2>6. SlotsOf(new, e) = SlotsOf(col, e) \cup {n}
    BY <2>8, <2>9, <2>5 DEF SlotsOf
  <2>7. \A d : d # e /\ d # NULL => SlotsOf(new, d) = SlotsOf(col, d)
    BY <2>8, <2>9, <2>5 DEF SlotsOf
  <2> QED BY <2>4, <2>5, <2>6, <2>7
<1> QED BY <1>1, <1>2

\* collection_add stores exactly one more record of the element and touches
\* no record of another, whether or not the array has to grow.
THEOREM AddStoresOne ==
  ASSUME NEW col, WellFormed(col), NEW e, e # NULL, col.capacity > 0
  PROVE  /\ WellFormed(CollectionAdd(col, e))
         /\ Cardinality(SlotsOf(CollectionAdd(col, e), e)) = Cardinality(SlotsOf(col, e)) + 1
         /\ \A d : d # e /\ d # NULL => SlotsOf(CollectionAdd(col, e), d) = SlotsOf(col, d)
<1>1. PICK i : /\ i \notin Slots(col) \/ col.list[i] = NULL
               /\ SlotsOf(CollectionAdd(col, e), e) = SlotsOf(col, e) \cup {i}
  BY AddFillsOneSlot
<1>2. i \notin SlotsOf(col, e)
  BY <1>1 DEF SlotsOf
<1>3. /\ WellFormed(CollectionAdd(col, e))
      /\ \A d : d # e /\ d # NULL => SlotsOf(CollectionAdd(col, e), d) = SlotsOf(col, d)
  BY AddFillsOneSlot
<1>4. IsFiniteSet(SlotsOf(col, e))
  BY SlotsFinite
<1>5. Cardinality(SlotsOf(col, e) \cup {i}) = Cardinality(SlotsOf(col, e)) + 1
  BY <1>2, <1>4, FS_AddElement
<1> QED BY <1>1, <1>3, <1>5

\* collection_remove drops exactly one record, of the element it found.
THEOREM RemoveDropsOne ==
  ASSUME NEW col, WellFormed(col), NEW i \in Slots(col), col.list[i] # NULL
  PROVE  /\ WellFormed(CollectionRemove(col, i))
         /\ Slots(CollectionRemove(col, i)) = Slots(col)
         /\ Cardinality(SlotsOf(CollectionRemove(col, i), col.list[i]))
              = Cardinality(SlotsOf(col, col.list[i])) - 1
         /\ \A d : d # col.list[i] /\ d # NULL
              => SlotsOf(CollectionRemove(col, i), d) = SlotsOf(col, d)
<1> DEFINE new == CollectionRemove(col, i)
           e == col.list[i]
<1>1. new = [capacity |-> col.capacity, list |-> [col.list EXCEPT ![i] = NULL]]
  BY DEF CollectionRemove, WellFormed
<1>2. new.capacity = col.capacity /\ Slots(new) = Slots(col)
  BY <1>1 DEF Slots
<1>3. new.list = [j \in Slots(col) |-> IF j = i THEN NULL ELSE col.list[j]]
  BY <1>1 DEF WellFormed
<1> HIDE DEF new
<1>4. WellFormed(new)
  BY <1>1, <1>2, <1>3 DEF WellFormed
<1>5. SlotsOf(new, e) = SlotsOf(col, e) \ {i}
  BY <1>2, <1>3 DEF SlotsOf
<1>6. i \in SlotsOf(col, e)
  BY DEF SlotsOf
<1>7. Cardinality(SlotsOf(new, e)) = Cardinality(SlotsOf(col, e)) - 1
  <2>1. IsFiniteSet(SlotsOf(col, e))
    BY SlotsFinite
  <2>2. Cardinality(SlotsOf(col, e) \ {i}) = Cardinality(SlotsOf(col, e)) - 1
    BY <1>6, <2>1, FS_RemoveElement
  <2> QED
    BY <1>5, <2>2
<1>8. \A d : d # e /\ d # NULL => SlotsOf(new, d) = SlotsOf(col, d)
  BY <1>2, <1>3 DEF SlotsOf
<1> QED BY <1>2, <1>4, <1>7, <1>8 DEF new
=============================================================================
