----------------------------- MODULE Aggregate -----------------------------
(***************************************************************************)
(* Aggregate: the requirements of a pool, taken one by one in the order of *)
(* ListWeekIngredientRequirements, become grocery lines with exact         *)
(* fractions.  A line keeps the unit of its first requirement; the others  *)
(* are converted to it.  Every intermediate fraction must fit the width of *)
(* the database's integers, MaxInt here, or the whole call fails.          *)
(***************************************************************************)
EXTENDS Integers, Sequences

CONSTANTS
  Requirement,  (* [item, mode, kind, min, max, unit, package, optional];  *)
                (* a fraction is [num, den], a unit [key, dimension, base] *)
  MaxInt,       (* the largest BIGINT                                      *)
  MaxTaken,     (* bound: requirements of one call                         *)
  None          (* no value                                                *)

Ratio == [num : Nat, den : Nat \ {0}]
AtMost(q, r) == q.num * r.den <= r.num * q.den

ASSUME NoneAssumption == None \notin {"overflow", "incompatible units"}

(* What the CHECKs of recipe_ingredients and units admit; a grocery item   *)
(* has one shopping mode, a key one unit.                                  *)
ASSUME RequirementAssumption ==
  /\ MaxTaken \in Nat /\ None \notin Ratio
  /\ \A r \in Requirement :
       /\ r.mode \in {"measured", "counted", "presence-only"}
       /\ r.kind \in {"unspecified", "exact", "range"} /\ r.optional \in BOOLEAN
       /\ {r.min, r.max} \subseteq Ratio \cup {None}
       /\ r.unit # None => r.unit.base \in [num : Nat \ {0}, den : Nat \ {0}]
       /\ r.kind = "unspecified" => {r.min, r.max, r.unit, r.package} = {None}
       /\ r.kind = "exact" => r.min # None /\ r.max = None
       /\ r.kind = "range" => r.min # None /\ r.max # None /\ AtMost(r.min, r.max)
       /\ r.kind # "unspecified" => (r.unit = None <=> r.package # None)
  /\ \A r, s \in Requirement :
       /\ r.item = s.item => r.mode = s.mode
       /\ None \notin {r.unit, s.unit} /\ r.unit.key = s.unit.key => r.unit = s.unit

VARIABLES
  taken,   (* the requirements so far                                      *)
  lines,   (* the lines so far, in the order they appear on the list       *)
  error    (* why the call failed, or None                                 *)

vars == <<taken, lines, error>>

Init == taken = <<>> /\ lines = <<>> /\ error = None

-----------------------------------------------------------------------------
(* Exact fractions, as math/big keeps them: in lowest terms, which is with *)
(* the smallest denominator that leaves a whole numerator.                 *)

Lowest(n, d) ==
  CHOOSE k \in 1..d : (n * k) % d = 0 /\ \A j \in 1..(k - 1) : (n * j) % d # 0

Fraction(n, d) == [num |-> (n * Lowest(n, d)) \div d, den |-> Lowest(n, d)]

Sum(q, r) == Fraction(q.num * r.den + r.num * q.den, q.den * r.den)

(* q in units of size a / b.                                               *)
Times(q, s) == Fraction(q.num * s.num, q.den * s.den)
Quotient(q, s) == Fraction(q.num * s.den, q.den * s.num)

Fits(q) == q.num <= MaxInt /\ q.den <= MaxInt

-----------------------------------------------------------------------------

(* Fault: an item has one line whatever its units.                         *)
KeyByItem(r, n) ==
  CASE r.mode = "presence-only"  -> <<r.item, "presence">>
    [] r.kind = "unspecified"    -> <<r.item, "unspecified", n>>
    [] OTHER                     -> <<r.item, "measured">>

(* Fault: ingredients without a quantity share a line.                     *)
KeyWithoutOccurrence(r, n) ==
  CASE r.mode = "presence-only"  -> <<r.item, "presence">>
    [] r.kind = "unspecified"    -> <<r.item, "unspecified">>
    [] r.package # None          -> <<r.item, "package", r.package>>
    [] r.unit.dimension # "count" -> <<r.item, "dimension", r.unit.dimension>>
    [] OTHER                     -> <<r.item, "unit", r.unit.key>>

(* n stands for the occurrence and the ingredient row of requirement n; a  *)
(* package is its type and its size as written.                            *)
AggregationKey(r, n) ==
  CASE r.mode = "presence-only"  -> <<r.item, "presence">>
    [] r.mode # "presence-only" /\ r.kind = "unspecified" -> <<r.item, "unspecified", n>>
    [] r.mode # "presence-only" /\ r.package # None -> <<r.item, "package", r.package>>
    [] r.mode # "presence-only" /\ r.unit # None ->
         IF r.unit.dimension # "count" THEN <<r.item, "dimension", r.unit.dimension>>
                                       ELSE <<r.item, "unit", r.unit.key>>

(* Fault: presence lines keep the unit and package of their requirement.   *)
MeasuredLine(r, n) ==
  [key |-> AggregationKey(r, n), optional |-> TRUE, contributions |-> {},
   kind |-> IF r.mode = "presence-only" THEN "presence" ELSE r.kind,
   unit |-> r.unit, package |-> r.package, min |-> None, max |-> None]

(* The line a requirement opens.                                           *)
NewLine(r, n) ==
  [key |-> AggregationKey(r, n), optional |-> TRUE, contributions |-> {},
   kind |-> IF r.mode = "presence-only" THEN "presence" ELSE r.kind,
   unit |-> IF r.mode = "presence-only" THEN None ELSE r.unit,
   package |-> IF r.mode = "presence-only" THEN None ELSE r.package,
   min |-> None, max |-> None]

(* Fault: amounts go on in the base unit of the dimension.                 *)
ConvertToBase(q, r, line) == IF r.package # None THEN q ELSE Times(q, r.unit.base)

(* An amount of requirement r in the unit of its line.                     *)
Convert(q, r, line) ==
  IF r.package # None THEN Fraction(q.num, q.den)
                      ELSE Quotient(Times(q, r.unit.base), line.unit.base)

Compatible(r, line) ==
  r.package # None \/ (line.unit # None /\ r.unit.dimension = line.unit.dimension)

(* line.Minimum and line.Maximum start as nil.                             *)
Plus(total, q) == IF total = None THEN q ELSE Sum(total, q)

(* Fault: one optional contribution makes the line optional.               *)
OptionalIfAny(line, r, n) ==
  [line EXCEPT !.optional = @ \/ r.optional, !.contributions = @ \cup {n}]

(* Contribution n of a line.                                               *)
Extended(line, r, n) ==
  [line EXCEPT !.optional = @ /\ r.optional, !.contributions = @ \cup {n}]

(* The kind follows from the new totals.                                   *)
Totalled(line, low, high) ==
  [line EXCEPT !.min = Plus(@, low), !.max = Plus(@, high),
               !.kind = IF Plus(line.min, low) = Plus(line.max, high) THEN "exact" ELSE "range"]

(* The line of r, which is new when byKey has none.                         *)
Opened(r, n) ==
  IF \E i \in DOMAIN lines : lines[i].key = AggregationKey(r, n)
  THEN lines ELSE Append(lines, NewLine(r, n))
IndexOf(opened, key) == CHOOSE i \in DOMAIN opened : opened[i].key = key

Put(opened, index, line) == lines' = [opened EXCEPT ![index] = line] /\ UNCHANGED error
Fail(reason) == error' = reason /\ lines' = <<>>

(* The loop body of Aggregate for the next requirement.                    *)
Take(r) ==
  LET n      == Len(taken) + 1
      opened == Opened(r, n)
      index  == IndexOf(opened, AggregationKey(r, n))
      line   == Extended(opened[index], r, n)
      low    == Convert(r.min, r, line)
      high   == IF r.kind = "range" THEN Convert(r.max, r, line) ELSE low
      sums   == {low, high, Plus(line.min, low), Plus(line.max, high)}
  IN  /\ error = None
      /\ Len(taken) < MaxTaken
      /\ taken' = Append(taken, r)
      /\ IF line.kind = "presence" \/ r.kind = "unspecified" THEN Put(opened, index, line)
         ELSE IF ~Compatible(r, line) THEN Fail("incompatible units")
         ELSE IF \E q \in sums : ~Fits(q) THEN Fail("overflow")
         ELSE Put(opened, index, Totalled(line, low, high))

Next == \E r \in Requirement : Take(r)

Spec == Init /\ [][Next]_vars

(* The line as Aggregate returns it.                                       *)
Returned(line) == [line EXCEPT !.max = IF line.kind = "exact" THEN None ELSE @]

-----------------------------------------------------------------------------
(* Properties.                                                             *)

(* The exact totals of the requirements in indices, each in its base unit. *)
InBase(q, unit) == IF unit = None THEN Fraction(q.num, q.den) ELSE Times(q, unit.base)
High(r) == IF r.kind = "range" THEN r.max ELSE r.min
PartialSums(indices, amount) ==
  LET sums[n \in Nat] == IF n = 0 THEN Fraction(0, 1)
                         ELSE IF n \in indices THEN Sum(sums[n - 1], amount[n]) ELSE sums[n - 1]
  IN  sums
Total(indices, amount) == PartialSums(indices, amount)[Len(taken)]
TotalLow(indices) == Total(indices, [n \in indices |-> InBase(taken[n].min, taken[n].unit)])
TotalHigh(indices) == Total(indices, [n \in indices |-> InBase(High(taken[n]), taken[n].unit)])

(* Converting to the unit of whichever requirement comes first, and adding *)
(* with a reduction at each step, never understates or overstates a line:  *)
(* its totals are those of its contributions, and it is exact when no      *)
(* contribution is a range of different ends.                              *)
TotalsExact ==
  \A i \in DOMAIN lines : lines[i].kind \in {"exact", "range"} =>
    /\ InBase(lines[i].min, lines[i].unit) = TotalLow(lines[i].contributions)
    /\ InBase(lines[i].max, lines[i].unit) = TotalHigh(lines[i].contributions)
    /\ lines[i].kind = "exact" <=>
         \A n \in lines[i].contributions : AtMost(High(taken[n]), taken[n].min)

(* Requirements share a line exactly when they may be combined: one item,  *)
(* and both only bought, or both in packages of one type and size, or both *)
(* in units that convert; never without a quantity.                        *)
Combinable(r, s) ==
  /\ r.item = s.item /\ r.mode = s.mode
  /\ \/ r.mode = "presence-only"
     \/ /\ "unspecified" \notin {r.kind, s.kind}
        /\ r.package = s.package
        /\ r.package = None =>
             /\ r.unit.dimension = s.unit.dimension
             /\ r.unit.dimension = "count" => r.unit = s.unit

LinesCombine ==
  error = None =>
    \A m, n \in DOMAIN taken : m # n =>
      (Combinable(taken[m], taken[n])
         <=> \E i \in DOMAIN lines : {m, n} \subseteq lines[i].contributions)

(* No requirement is dropped, whatever it is combined with, and a line is  *)
(* optional only when all that it stands for is.                           *)
NothingDropped ==
  error = None =>
    /\ UNION {lines[i].contributions : i \in DOMAIN lines} = DOMAIN taken
    /\ \A i \in DOMAIN lines :
         lines[i].optional <=> \A n \in lines[i].contributions : taken[n].optional

(* The shape the CHECKs of shopping_lines ask of a returned line.          *)
Storable(line) ==
  CASE line.kind \in {"presence", "unspecified"} ->
         {line.min, line.max, line.unit, line.package} = {None}
    [] line.kind = "exact" ->
         line.min # None /\ line.max = None /\ (line.unit = None <=> line.package # None)
    [] line.kind = "range" ->
         /\ line.min # None /\ line.max # None
         /\ AtMost(line.min, line.max)
         /\ line.unit = None <=> line.package # None
LinesStorable == \A i \in DOMAIN lines : Storable(Returned(lines[i]))

(* Aggregation fails for nothing but the width of integers.                *)
OnlyOverflowFails == error \in {None, "overflow"}

(* What Aggregate returns can be stored: the products in the CHECK of a    *)
(* range are BIGINTs as well.                                              *)
CheckFits ==
  \A i \in DOMAIN lines : Returned(lines[i]).kind = "range" =>
    /\ lines[i].min.num * lines[i].max.den <= MaxInt
    /\ lines[i].max.num * lines[i].min.den <= MaxInt

-----------------------------------------------------------------------------
(* Why lines combine, drop nothing and can be stored.                      *)

Line ==
  [key : {AggregationKey(r, n) : r \in Requirement, n \in 1..MaxTaken},
   optional : BOOLEAN, contributions : SUBSET (1..MaxTaken),
   kind : {"presence", "unspecified", "exact", "range"},
   unit : {r.unit : r \in Requirement} \cup {None},
   package : {r.package : r \in Requirement} \cup {None},
   min : Ratio \cup {None}, max : Ratio \cup {None}]

TypeOK ==
  /\ taken \in Seq(Requirement) /\ Len(taken) <= MaxTaken
  /\ lines \in Seq(Line)

(* In lowest terms equal amounts are equal records, which is how Aggregate *)
(* tells an exact line from a range.                                       *)
Reduced(q) == q \in Ratio /\ q = Fraction(q.num, q.den)

(* A line agrees with each requirement it stands for.                      *)
Agrees(line, r) ==
  \/ /\ \/ r.mode = "presence-only" /\ line.kind = "presence"
        \/ r.mode # "presence-only" /\ r.kind = "unspecified" /\ line.kind = "unspecified"
     /\ {line.min, line.max, line.unit, line.package} = {None}
  \/ /\ r.mode # "presence-only" /\ r.kind # "unspecified"
     /\ line.package = r.package
     /\ line.unit = None <=> r.unit = None
     /\ line.unit # None => line.unit.dimension = r.unit.dimension
     /\ Reduced(line.min) /\ Reduced(line.max) /\ AtMost(line.min, line.max)
     /\ line.kind = IF line.min = line.max THEN "exact" ELSE "range"

(* byKey has each line under the key of all its contributions, and every   *)
(* requirement so far is under its key.                                    *)
AggregateInvariant ==
  /\ TypeOK
  /\ error # None => lines = <<>>
  /\ \A i, j \in DOMAIN lines : lines[i].key = lines[j].key => i = j
  /\ \A i \in DOMAIN lines :
       /\ lines[i].contributions
            = {n \in DOMAIN taken : AggregationKey(taken[n], n) = lines[i].key}
       /\ lines[i].contributions # {}
       /\ \A n \in lines[i].contributions : Agrees(lines[i], taken[n])
       /\ lines[i].optional <=> \A n \in lines[i].contributions : taken[n].optional
  /\ error = None =>
       \A n \in DOMAIN taken : \E i \in DOMAIN lines : lines[i].key = AggregationKey(taken[n], n)
=============================================================================
