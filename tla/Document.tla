------------------------------ MODULE Document ------------------------------
(***************************************************************************)
(* A recipe document of the approved corpus, what the validator accepts of *)
(* it, and the rows the import makes of it with the constraints PostgreSQL *)
(* puts on those rows.  "" is a text that is not written and " " one of    *)
(* white space only.  A number is written <<numerator, denominator>> in    *)
(* lowest terms, <<>> when it is not written and with a numerator or       *)
(* denominator of 0 when the text is no number or not a positive one.      *)
(* The format version, approval, source, durations and the readable body   *)
(* are one flag, "front"; the sections that group ingredients and steps    *)
(* are flattened.  "image" stands for each optional text of a recipe whose *)
(* CHECK refuses white space (image_url, yield_text), "note" for each of   *)
(* an ingredient (display_note, preparation).                              *)
(***************************************************************************)
EXTENDS Integers, Sequences

CONSTANTS
  MaxInt,     (* the largest BIGINT, 2^63 - 1 in the program               *)
  Units       (* the keys of the units migration 00001 inserts             *)

Elements(s) == {s[i] : i \in DOMAIN s}

-----------------------------------------------------------------------------
(* Document.Validate                                                       *)

Written(text) == text \notin {"", " "}

(* parsePositiveRational                                                   *)
Positive(n) == Len(n) = 2 /\ n[1] > 0 /\ n[2] > 0

AtMost(m, n) == m[1] * n[2] <= n[1] * m[2]

ValidPackage(p) ==
  /\ Written(p.type)
  /\ (p.size = <<>>) <=> (p.unit = "")
  /\ p.size # <<>> => Positive(p.size) /\ Written(p.unit)

(* Quantity.rationals without an error.                                    *)
ValidQuantity(q) ==
  \/ /\ q.kind = "unspecified"
     /\ q.amount = <<>> /\ q.maximum = <<>> /\ q.unit = "" /\ q.package = <<>>
  \/ /\ q.kind \in {"exact", "range"}
     /\ Positive(q.amount)
     /\ IF q.kind = "range" THEN Positive(q.maximum) /\ AtMost(q.amount, q.maximum)
                            ELSE q.maximum = <<>>
     /\ (q.unit = "") # (q.package = <<>>)
     /\ q.unit # "" => Written(q.unit)
     /\ \A p \in Elements(q.package) : ValidPackage(p)

ValidGroceryItem(g) ==
  /\ Written(g.key) /\ Written(g.name)
  /\ Written(g.section.key) /\ Written(g.section.name)
  /\ g.mode \in {"measured", "counted", "presence-only"}

ValidDecision(r) ==
  /\ Written(r.field) /\ Written(r.note)
  /\ r.kind \in {"backfilled", "rewritten", "conflict-resolved"}
  /\ r.approved

(* Fault: review decisions are not looked at.                              *)
ValidateWithoutReview(d) ==
  /\ d.front /\ Written(d.key) /\ Written(d.name) /\ d.ingredients # <<>>
  /\ \A g \in Elements(d.ingredients) :
       Written(g.text) /\ ValidGroceryItem(g.item) /\ ValidQuantity(g.quantity)
  /\ \A g, h \in Elements(d.ingredients) : g.item.key = h.item.key => g.item = h.item
  /\ d.steps # <<>>
  /\ \A s \in Elements(d.steps) : Written(s)

Validate(d) ==
  /\ d.front /\ Written(d.key) /\ Written(d.name) /\ d.ingredients # <<>>
  /\ \A g \in Elements(d.ingredients) :
       Written(g.text) /\ ValidGroceryItem(g.item) /\ ValidQuantity(g.quantity)
  /\ \A g, h \in Elements(d.ingredients) : g.item.key = h.item.key => g.item = h.item
  /\ d.steps # <<>>
  /\ \A s \in Elements(d.steps) : Written(s)
  /\ \A r \in Elements(d.review) : ValidDecision(r)

-----------------------------------------------------------------------------
(* An image holds a corpus directory and the inventory ledger.             *)

(* The documents ReadDirectory returns without an error.                   *)
ReadDirectory(image) ==
  /\ image.documents # <<>>
  /\ \A d \in Elements(image.documents) : Validate(d)
  /\ \A i, j \in DOMAIN image.documents :
       image.documents[i].key = image.documents[j].key => i = j

(* Keys are unique, and exactly the verified rows have a date.             *)
ReadInventory(image) ==
  /\ image.inventory # {}
  /\ \A r, s \in image.inventory : r.key = s.key => r = s
  /\ \A r \in image.inventory : (r.status = "verified") <=> (r.verifiedOn # "")

MatchApprovedCorpus(image) ==
  /\ \A d \in Elements(image.documents) : \E r \in image.inventory :
       r.key = d.key /\ r.status = "verified" /\ r.verifiedOn = d.approvedOn
  /\ \A r \in image.inventory :
       (r.status = "verified") <=> (\E d \in Elements(image.documents) : d.key = r.key)

(* readAuditedCorpus                                                       *)
Audited(image) == ReadDirectory(image) /\ ReadInventory(image) /\ MatchApprovedCorpus(image)

-----------------------------------------------------------------------------
(* Rows, and what the schema lets in.                                      *)

Null(text) == text = ""                 (* nullString                      *)
NotBlank(text) == Null(text) \/ Written(text)

(* nullRational: both parts are 64-bit integers.                           *)
Fits(n) == n[1] <= MaxInt /\ n[2] <= MaxInt

(* Only the numbers and units the document writes are converted.           *)
IngredientParams(q) ==
  LET sizes == {p \in Elements(q.package) : p.size # <<>>}
  IN  /\ \A n \in ({q.amount, q.maximum} \ {<<>>}) \cup {p.size : p \in sizes} : Fits(n)
      /\ \A u \in ({q.unit} \ {""}) \cup {p.unit : p \in sizes} : u \in Units

(* The CHECKs of recipe_ingredients.  The products that compare a range's  *)
(* bounds are BIGINTs: one that does not fit is an error.                  *)
QuantityCheck(q) ==
  /\ q.kind # "unspecified" => (q.unit = "") # (q.package = <<>>)
  /\ q.kind = "range" => /\ q.amount[1] * q.maximum[2] <= MaxInt
                         /\ q.maximum[1] * q.amount[2] <= MaxInt
                         /\ AtMost(q.amount, q.maximum)

CreateDraftRecipe(d) ==
  [key |-> d.key, name |-> d.name, image |-> d.image, status |-> "draft", sources |-> 0,
   ingredients |-> <<>>, steps |-> <<>>, review |-> <<>>]

CreateRecipeSource(r) == [r EXCEPT !.sources = @ + 1]

CreateRecipeIngredient(r, g) == [r EXCEPT !.ingredients = Append(@, g)]

CreateRecipeSteps(r, d) == [r EXCEPT !.steps = d.steps]

CreateReviewFlags(r, d) ==
  [r EXCEPT !.review = [i \in DOMAIN d.review |-> [d.review[i] EXCEPT !.approved = FALSE]]]

ApproveReviewFlags(r, d) ==
  [r EXCEPT !.review =
     [i \in DOMAIN r.review |-> [r.review[i] EXCEPT !.approved = @ \/ d.review[i].approved]]]

(* UNIQUE (recipe_id, field_path, kind)                                    *)
UniqueFlags(d) ==
  \A i, j \in DOMAIN d.review :
    d.review[i].field = d.review[j].field /\ d.review[i].kind = d.review[j].kind => i = j

MarkRecipeReviewable(r) == [r EXCEPT !.status = "reviewable"]

VerifyRecipe(r) == [r EXCEPT !.status = "verified"]

(* enforce_recipe_lifecycle lets the recipe be verified.                   *)
MayVerify(r) ==
  /\ r.status = "reviewable"
  /\ r.sources = 1
  /\ r.ingredients # <<>>
  /\ r.steps # <<>>
  /\ \A f \in Elements(r.review) : f.approved
=============================================================================
