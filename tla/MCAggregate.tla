---------------------------- MODULE MCAggregate ----------------------------
(* One grocery item, cream, in every way an ingredient may ask for it, and *)
(* salt, which is only ever bought.  The milliliter has a denominator that *)
(* shares no factor with the kitchen units, as in the units table.         *)
EXTENDS Aggregate

Q(n, d) == [num |-> n, den |-> d]
Teaspoon == [key |-> "tsp", dimension |-> "volume", base |-> Q(1, 1)]
Tablespoon == [key |-> "tbsp", dimension |-> "volume", base |-> Q(3, 1)]
Milliliter == [key |-> "ml", dimension |-> "volume", base |-> Q(2, 7)]
Each == [key |-> "each", dimension |-> "count", base |-> Q(1, 1)]
Slice == [key |-> "slice", dimension |-> "count", base |-> Q(1, 1)]

Cream(kind, min, max, unit, package, optional) ==
  [item |-> "cream", mode |-> "measured", kind |-> kind, min |-> min, max |-> max,
   unit |-> unit, package |-> package, optional |-> optional]

MCRequirement ==
  { Cream("range", Q(1, 3), Q(1, 2), Teaspoon, None, FALSE),
    Cream("range", Q(2, 4), Q(1, 2), Tablespoon, None, FALSE),
    Cream("exact", Q(2, 1), None, Milliliter, None, TRUE),
    Cream("exact", Q(1, 1), None, Each, None, FALSE),
    Cream("exact", Q(3, 1), None, Slice, None, FALSE),
    Cream("exact", Q(2, 1), None, None, "can", FALSE),
    Cream("unspecified", None, None, None, None, TRUE),
    [item |-> "salt", mode |-> "presence-only", kind |-> "exact", min |-> Q(1, 1),
     max |-> None, unit |-> Teaspoon, package |-> None, optional |-> TRUE],
    [item |-> "salt", mode |-> "presence-only", kind |-> "unspecified", min |-> None,
     max |-> None, unit |-> None, package |-> None, optional |-> FALSE] }
=============================================================================
