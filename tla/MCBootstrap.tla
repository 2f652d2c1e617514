----------------------------- MODULE MCBootstrap ----------------------------
(***************************************************************************)
(* A release of two documents that share an item, and releases that differ *)
(* from it in one place.                                                   *)
(***************************************************************************)
EXTENDS Bootstrap

Produce == [key |-> "produce", name |-> "Produce"]
Onion == [key |-> "onion", name |-> "Onion", section |-> Produce, mode |-> "counted"]
Salt == [key |-> "salt", name |-> "Salt", section |-> Other, mode |-> "presence-only"]

One(n, u) == [kind |-> "exact", amount |-> n, maximum |-> <<>>, unit |-> u, package |-> <<>>]
Between(m, n) == [One(m, "cup") EXCEPT !.kind = "range", !.maximum = n]
Taste == [One(<<>>, "") EXCEPT !.kind = "unspecified"]
Pack(n, u) == [One(<<1, 1>>, "") EXCEPT !.package = <<[type |-> "can", size |-> n, unit |-> u]>>]

Of(g, q) == [text |-> "text", item |-> g, quantity |-> q, note |-> ""]
Decision == [field |-> "yield", kind |-> "backfilled", note |-> "note", approved |-> TRUE]

Soup == [key |-> "soup", name |-> "Soup", front |-> TRUE, approvedOn |-> "today", image |-> "",
         ingredients |-> <<Of(Onion, Between(<<1, 2>>, <<3, 2>>)), Of(Salt, Taste)>>,
         steps |-> <<"boil">>, review |-> <<Decision>>]
Bread == [Soup EXCEPT !.key = "bread", !.name = "Bread", !.review = <<>>,
                      !.ingredients = <<Of(Onion, Pack(<<2, 1>>, "cup"))>>]

Ledger(ds) ==
  {[key |-> d.key, status |-> "verified", verifiedOn |-> d.approvedOn] : d \in Elements(ds)}
    \cup {[key |-> "tacos", status |-> "pending", verifiedOn |-> ""]}
Release(ds) == [documents |-> ds, inventory |-> Ledger(ds)]

Good == Release(<<Bread, Soup>>)
Renamed == Release(<<Soup, [Bread EXCEPT !.key = "loaf", !.name = "Loaf"]>>)

(* The second document's other forms.                                      *)
Forms ==
  <<[Soup EXCEPT !.front = FALSE], [Soup EXCEPT !.name = " "], [Soup EXCEPT !.name = "Bread"],
   [Soup EXCEPT !.key = "bread"], [Soup EXCEPT !.image = " "], [Soup EXCEPT !.steps = <<>>],
   [Soup EXCEPT !.steps = <<"">>], [Soup EXCEPT !.ingredients = <<>>],
   [Soup EXCEPT !.review[1].approved = FALSE], [Soup EXCEPT !.review = <<Decision, Decision>>],
   [Soup EXCEPT !.ingredients[1].note = " "], [Soup EXCEPT !.ingredients[1].item.mode = "measured"],
   [Soup EXCEPT !.ingredients[1].item.key = "onions"],
   [Soup EXCEPT !.ingredients[2].item = [Onion EXCEPT !.mode = "measured"]],
   [Soup EXCEPT !.ingredients[2].item.section.name = "Pantry"],
   [Soup EXCEPT !.ingredients[2].item.section.key = "pantry"],
   [Soup EXCEPT !.ingredients[2].item.section = [Produce EXCEPT !.name = "Greens"]]>>

Quantities ==
  <<One(<<1, 1>>, ""), One(<<0, 1>>, "cup"), One(<<1, 0>>, "cup"), One(<<9, 1>>, "cup"),
   One(<<1, 1>>, "pail"), [One(<<1, 1>>, "cup") EXCEPT !.package = Pack(<<>>, "").package],
   Between(<<2, 1>>, <<1, 1>>), Between(<<8, 3>>, <<7, 2>>), [Taste EXCEPT !.unit = "cup"],
   Pack(<<>>, ""), Pack(<<>>, "cup"), Pack(<<9, 1>>, "cup")>>

Whole == 7
MCHolds ==
  [i \in 1..(Whole + Len(Forms) + Len(Quantities)) |->
     IF i <= Whole
     THEN <<Good, Renamed, Release(<<>>), [Good EXCEPT !.inventory = {}],
            [Good EXCEPT !.inventory = Ledger(<<Soup>>)], [Good EXCEPT !.inventory = Ledger(<<>>)],
            [Good EXCEPT !.documents = <<Soup>>]>>[i]
     ELSE Release(<<Bread, IF i <= Whole + Len(Forms) THEN Forms[i - Whole]
        ELSE [Soup EXCEPT !.ingredients[1].quantity = Quantities[i - Whole - Len(Forms)]]>>)]
MCCheckouts == {1, 2}
=============================================================================
