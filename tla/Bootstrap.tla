----------------------------- MODULE Bootstrap ------------------------------
(***************************************************************************)
(* How the corpus gets into the database.  The one pod of the deployment   *)
(* runs the entry point: migrate, count the recipes, import the corpus of  *)
(* its image when there are none, then serve.  An operator may run the     *)
(* corpus-ingest command from a checkout meanwhile.  The pod can stop at   *)
(* any statement and is started again, from the same image or from the     *)
(* next release's.                                                         *)
(*                                                                         *)
(* recipes, items and sections are the committed rows; work[p] is what the *)
(* import transaction of process p has written.  Keys and names are UNIQUE *)
(* per household, and an insert waits for another transaction that has     *)
(* inserted the same value.  Ids of sections and items are their keys.     *)
(***************************************************************************)
EXTENDS Document

CONSTANTS
  Holds,        (* Holds[i]: the documents and the inventory in image i    *)
  Checkouts,    (* the images of later releases and of operators           *)
  Pod, Commands,
  Latest,       (* number of migrations                                    *)
  MaxStops      (* bound: times the pod is stopped                         *)

Images == DOMAIN Holds
Proc == {Pod} \cup Commands

Same(r, s) == r.key = s.key \/ r.name = s.name

ASSUME HoldsAssumption ==
  /\ Pod \notin Commands /\ Checkouts \subseteq Images /\ MaxInt \in Nat
  /\ \A i \in Images :
       LET documents == Holds[i].documents
       IN  /\ documents \in Seq(Elements(documents))
           /\ \A d \in Elements(documents) :
                /\ d.ingredients \in Seq(Elements(d.ingredients))
                /\ d.review \in Seq([field : STRING, kind : STRING, note : STRING,
                                    approved : BOOLEAN])
                /\ \A g \in Elements(d.ingredients) :
                     {g.quantity.amount, g.quantity.maximum} \subseteq Seq(Int)

(* Two releases have a recipe in common.  The program does not see to it:  *)
(* of two with none in common, imported at once, both would be committed.  *)
ASSUME ReleasesOverlap ==
  \A i, j \in {k \in Images : Audited(Holds[k])} :
    \E d \in Elements(Holds[i].documents), e \in Elements(Holds[j].documents) : Same(d, e)

VARIABLES
  schema,       (* migrations applied                                      *)
  recipes, items, sections,
  image,        (* the release of the deployment                           *)
  stops,
  pc, img,      (* each process's statement and image                      *)
  version,      (* the schema version it read                              *)
  doc, ing,     (* document and ingredient its import is at                *)
  work

db == <<schema, recipes, items, sections>>
vars == <<schema, recipes, items, sections, image, stops, pc, img, version, doc, ing, work>>

Other == [key |-> "other", name |-> "Other"]

(* draft is the row of the current document, known the keys of sections    *)
(* the import has looked up.                                               *)
NoWork == [recipes |-> {}, draft |-> {}, items |-> {}, sections |-> {}, known |-> {}]

Init ==
  /\ schema = 0
  /\ recipes = {} /\ items = {} /\ sections = {}
  /\ image \in Images
  /\ stops = 0
  /\ pc = [p \in Proc |-> "down"]
  /\ img = [p \in Proc |-> image]
  /\ version = [p \in Proc |-> 0]
  /\ doc = [p \in Proc |-> 1]
  /\ ing = [p \in Proc |-> 1]
  /\ work = [p \in Proc |-> NoWork]

Documents(p) == Holds[img[p]].documents
Document(p) == Documents(p)[doc[p]]
Ingredient(p) == Document(p).ingredients[ing[p]]
Wanted(p) == Ingredient(p).item

(* Statements of the import, in a transaction from the second on.          *)
Writing == {"recipe", "section", "newSection", "item", "newItem", "ingredient", "verify", "commit"}
Importing == {"begin"} \cup Writing

Goto(p, label) == pc' = [pc EXCEPT ![p] = label]

(* The process exits: the connection closes and its transaction is rolled  *)
(* back.                                                                   *)
Exit(p, label) ==
  /\ Goto(p, label)
  /\ work' = [work EXCEPT ![p] = NoWork]
  /\ doc' = [doc EXCEPT ![p] = 1]
  /\ ing' = [ing EXCEPT ![p] = 1]

Fail(p) == Exit(p, "failed") /\ UNCHANGED <<db, image, stops, img, version>>

-----------------------------------------------------------------------------
(* Unique values.                                                          *)

VisibleItems(p) == items \cup work[p].items
VisibleSections(p) == sections \cup work[p].sections
OwnRecipes(p) == work[p].recipes \cup work[p].draft

(* What each process would insert, what is there and what others inserted. *)
NewItem(p) == [key |-> Wanted(p).key, name |-> Wanted(p).name,
               section |-> Wanted(p).section.key, mode |-> Wanted(p).mode]

Blocks(q, p) ==
  \/ pc[p] = "recipe" /\ \E r \in OwnRecipes(q) : Same(r, Document(p))
  \/ pc[p] = "newSection" /\ \E s \in work[q].sections : Same(s, Wanted(p).section)
  \/ pc[p] = "newItem" /\ \E i \in work[q].items : Same(i, Wanted(p))

WaitsFor(p) == {q \in Proc \ {p} : Blocks(q, p)}
At(p, label) == pc[p] = label /\ WaitsFor(p) = {}

-----------------------------------------------------------------------------
(* The entry point and the commands around the import.                     *)

Start(p) ==
  /\ pc[p] = "down" \/ (p = Pod /\ pc[p] = "failed")
  /\ \E i \in IF p = Pod THEN {image} ELSE Checkouts : img' = [img EXCEPT ![p] = i]
  /\ Goto(p, "migrate")
  /\ UNCHANGED <<db, image, stops, version, doc, ing, work>>

(* Goose reads the version, then applies the next migration in one         *)
(* transaction; a migration somebody else has applied meanwhile fails.     *)
Migrate(p) ==
  /\ At(p, "migrate")
  /\ version' = [version EXCEPT ![p] = schema]
  /\ Goto(p, IF schema < Latest THEN "apply" ELSE IF p = Pod THEN "count" ELSE "audit")
  /\ UNCHANGED <<db, image, stops, img, doc, ing, work>>

ApplyMigration(p) ==
  /\ At(p, "apply")
  /\ IF schema # version[p]
     THEN Fail(p)
     ELSE /\ schema' = schema + 1
          /\ sections' = IF schema = 0 THEN sections \cup {Other} ELSE sections
          /\ Goto(p, "migrate")
          /\ UNCHANGED <<recipes, items, image, stops, img, version, doc, ing, work>>

(* Fault: the import is tried whatever is there.                           *)
CountNothing(p) ==
  /\ At(p, "count")
  /\ Goto(p, "audit")
  /\ UNCHANGED <<db, image, stops, img, version, doc, ing, work>>

(* bootstrap imports only into a database without recipes.                 *)
CountRecipes(p) ==
  /\ At(p, "count")
  /\ Goto(p, IF recipes # {} THEN "serve" ELSE "audit")
  /\ UNCHANGED <<db, image, stops, img, version, doc, ing, work>>

(* Fault: the pod serves without its corpus when the audit fails.          *)
AuditOrServe(p) ==
  /\ At(p, "audit")
  /\ Goto(p, IF Audited(Holds[img[p]]) THEN "begin" ELSE "serve")
  /\ UNCHANGED <<db, image, stops, img, version, doc, ing, work>>

Audit(p) ==
  /\ At(p, "audit")
  /\ IF Audited(Holds[img[p]])
     THEN /\ Goto(p, "begin")
          /\ UNCHANGED <<db, image, stops, img, version, doc, ing, work>>
     ELSE Fail(p)

(* serve migrates again and listens.                                       *)
Serve(p) ==
  /\ At(p, "serve")
  /\ schema = Latest
  /\ Goto(p, "serving")
  /\ UNCHANGED <<db, image, stops, img, version, doc, ing, work>>

-----------------------------------------------------------------------------
(* Import.                                                                 *)

BeginImport(p) ==
  /\ At(p, "begin")
  /\ IF recipes # {}
     THEN Fail(p)
     ELSE /\ Goto(p, "recipe")
          /\ UNCHANGED <<db, image, stops, img, version, doc, ing, work>>

InsertRecipe(p) ==
  LET d == Document(p)
  IN  /\ At(p, "recipe")
      /\ IF ~NotBlank(d.image) \/ \E r \in recipes \cup OwnRecipes(p) : Same(r, d)
         THEN Fail(p)
         ELSE /\ work' = [work EXCEPT ![p].draft = {CreateRecipeSource(CreateDraftRecipe(d))}]
              /\ ing' = [ing EXCEPT ![p] = 1]
              /\ Goto(p, "section")
              /\ UNCHANGED <<db, image, stops, img, version, doc>>

(* Fault: the name of a section in the table is not compared.              *)
GetSectionUnchecked(p) ==
  LET wanted == Wanted(p).section
      known  == wanted.key \in work[p].known
      found  == \E s \in VisibleSections(p) : s.key = wanted.key
  IN  /\ At(p, "section")
      /\ Goto(p, IF known \/ found THEN "item" ELSE "newSection")
      /\ work' = IF ~known /\ found THEN [work EXCEPT ![p].known = @ \cup {wanted.key}] ELSE work
      /\ UNCHANGED <<db, image, stops, img, version, doc, ing>>

(* ensureGroceryItem: the section, from the import's map or the table.     *)
(* Its name is compared when it is not from the map.                       *)
GetStoreSectionByKey(p) ==
  LET wanted == Wanted(p).section
      found  == {s \in VisibleSections(p) : s.key = wanted.key}
  IN  /\ At(p, "section")
      /\ IF wanted.key \in work[p].known
         THEN Goto(p, "item") /\ UNCHANGED <<db, image, stops, img, version, doc, ing, work>>
         ELSE IF found = {}
         THEN Goto(p, "newSection") /\ UNCHANGED <<db, image, stops, img, version, doc, ing, work>>
         ELSE IF wanted \notin found
         THEN Fail(p)
         ELSE /\ work' = [work EXCEPT ![p].known = @ \cup {wanted.key}]
              /\ Goto(p, "item")
              /\ UNCHANGED <<db, image, stops, img, version, doc, ing>>

CreateStoreSection(p) ==
  LET wanted == Wanted(p).section
  IN  /\ At(p, "newSection")
      /\ IF \E s \in VisibleSections(p) : Same(s, wanted)
         THEN Fail(p)
         ELSE /\ work' = [work EXCEPT ![p].sections = @ \cup {wanted},
                                      ![p].known = @ \cup {wanted.key}]
              /\ Goto(p, "item")
              /\ UNCHANGED <<db, image, stops, img, version, doc, ing>>

(* Fault: an item that is already there is taken as it is.                 *)
GetItemUnchecked(p) ==
  /\ At(p, "item")
  /\ Goto(p, IF \E i \in VisibleItems(p) : i.key = Wanted(p).key THEN "ingredient" ELSE "newItem")
  /\ UNCHANGED <<db, image, stops, img, version, doc, ing, work>>

(* The item, from the map or the table, is compared every time.            *)
GetGroceryItemByKey(p) ==
  LET found == {i \in VisibleItems(p) : i.key = Wanted(p).key}
  IN  /\ At(p, "item")
      /\ IF found # {} /\ NewItem(p) \notin found
         THEN Fail(p)
         ELSE /\ Goto(p, IF found = {} THEN "newItem" ELSE "ingredient")
              /\ UNCHANGED <<db, image, stops, img, version, doc, ing, work>>

(* Fault: the item is inserted outside the transaction.                    *)
CreateItemOutside(p) ==
  /\ At(p, "newItem")
  /\ IF \E i \in VisibleItems(p) : Same(i, Wanted(p))
     THEN Fail(p)
     ELSE /\ items' = items \cup {NewItem(p)}
          /\ Goto(p, "ingredient")
          /\ UNCHANGED <<schema, recipes, sections, image, stops, img, version, doc, ing, work>>

CreateGroceryItem(p) ==
  /\ At(p, "newItem")
  /\ IF \E i \in VisibleItems(p) : Same(i, Wanted(p))
     THEN Fail(p)
     ELSE /\ work' = [work EXCEPT ![p].items = @ \cup {NewItem(p)}]
          /\ Goto(p, "ingredient")
          /\ UNCHANGED <<db, image, stops, img, version, doc, ing>>

InsertIngredient(p) ==
  LET g    == Ingredient(p)
      last == ing[p] = Len(Document(p).ingredients)
  IN  /\ At(p, "ingredient")
      /\ IF ~(IngredientParams(g.quantity) /\ QuantityCheck(g.quantity) /\ NotBlank(g.note))
         THEN Fail(p)
         ELSE /\ work' = [work EXCEPT ![p].draft = {CreateRecipeIngredient(r, g) : r \in @}]
              /\ ing' = IF last THEN ing ELSE [ing EXCEPT ![p] = @ + 1]
              /\ Goto(p, IF last THEN "verify" ELSE "section")
              /\ UNCHANGED <<db, image, stops, img, version, doc>>

(* The rest of the document: what it does concerns the row alone.          *)
Reviewed(r, d) ==
  MarkRecipeReviewable(ApproveReviewFlags(CreateReviewFlags(CreateRecipeSteps(r, d), d), d))

(* Fault: a transaction for each recipe.                                   *)
CommitRecipe(p) ==
  LET d    == Document(p)
      rows == {Reviewed(r, d) : r \in work[p].draft}
      last == doc[p] = Len(Documents(p))
  IN  /\ At(p, "verify")
      /\ IF ~UniqueFlags(d) \/ \E r \in rows : ~MayVerify(r)
         THEN Fail(p)
         ELSE /\ recipes' = recipes \cup {VerifyRecipe(r) : r \in rows}
              /\ items' = items \cup work[p].items
              /\ sections' = sections \cup work[p].sections
              /\ work' = [work EXCEPT ![p] = [NoWork EXCEPT !.known = work[p].known]]
              /\ doc' = IF last THEN doc ELSE [doc EXCEPT ![p] = @ + 1]
              /\ Goto(p, IF last THEN "commit" ELSE "recipe")
              /\ UNCHANGED <<schema, image, stops, img, version, ing>>

FinishRecipe(p) ==
  LET d    == Document(p)
      rows == {Reviewed(r, d) : r \in work[p].draft}
      last == doc[p] = Len(Documents(p))
  IN  /\ At(p, "verify")
      /\ IF ~UniqueFlags(d) \/ \E r \in rows : ~MayVerify(r)
         THEN Fail(p)
         ELSE /\ work' = [work EXCEPT ![p].recipes = @ \cup {VerifyRecipe(r) : r \in rows},
                                      ![p].draft = {}]
              /\ doc' = IF last THEN doc ELSE [doc EXCEPT ![p] = @ + 1]
              /\ Goto(p, IF last THEN "commit" ELSE "recipe")
              /\ UNCHANGED <<db, image, stops, img, version, ing>>

CommitImport(p) ==
  /\ At(p, "commit")
  /\ recipes' = recipes \cup work[p].recipes
  /\ items' = items \cup work[p].items
  /\ sections' = sections \cup work[p].sections
  /\ Exit(p, IF p = Pod THEN "serve" ELSE "done")
  /\ UNCHANGED <<schema, image, stops, img, version>>

-----------------------------------------------------------------------------
(* PostgreSQL ends a cycle of waiting transactions by failing one of them. *)
DeadlockVictim(p) ==
  /\ \E S \in SUBSET Proc :
       p \in S /\ \A q \in S : WaitsFor(q) \cap S # {} /\ \E r \in S : q \in WaitsFor(r)
  /\ Fail(p)

(* An operator interrupts a command.                                       *)
Interrupt(p) == p \in Commands /\ pc[p] \notin {"down", "failed", "done"} /\ Fail(p)

(* The pod is killed or evicted, or replaced by the pod of a release.      *)
StopPod ==
  /\ stops < MaxStops
  /\ stops' = stops + 1
  /\ image' \in {image} \cup Checkouts
  /\ Exit(Pod, "down")
  /\ UNCHANGED <<db, img, version>>

Step(p) ==
  \/ Migrate(p) \/ ApplyMigration(p) \/ CountRecipes(p) \/ Audit(p) \/ Serve(p)
  \/ BeginImport(p) \/ InsertRecipe(p)
  \/ GetStoreSectionByKey(p) \/ CreateStoreSection(p)
  \/ GetGroceryItemByKey(p) \/ CreateGroceryItem(p)
  \/ InsertIngredient(p) \/ FinishRecipe(p) \/ CommitImport(p)
  \/ DeadlockVictim(p)

Next == StopPod \/ \E p \in Proc : Start(p) \/ Step(p) \/ Interrupt(p)

Spec == Init /\ [][Next]_vars

(* A process that can go on does, and the pod is restarted; nobody has to  *)
(* run or interrupt a command, or to stop the pod.  A command whose insert *)
(* waited gets its turn: a pod that failed comes back much later.          *)
FairSpec ==
  /\ Spec
  /\ WF_vars(Start(Pod)) /\ WF_vars(Step(Pod))
  /\ \A p \in Commands : SF_vars(Step(p))

-----------------------------------------------------------------------------
(* Properties.                                                             *)

(* The verified recipe with everything its document says.                  *)
Imported(d) ==
  VerifyRecipe(Reviewed([CreateRecipeSource(CreateDraftRecipe(d)) EXCEPT
                           !.ingredients = d.ingredients], d))
Corpus(i) == {Imported(d) : d \in Elements(Holds[i].documents)}

(* What the images that pass the audit bring.                              *)
Corpora == {Corpus(i) : i \in {j \in Images : Audited(Holds[j])}}

(* The database has no recipe or exactly the recipes of one release, each  *)
(* verified and complete, whatever stopped or ran beside it.               *)
CorpusWhole == recipes = {} \/ recipes \in Corpora

(* A corpus is loaded once and never changed after that.                   *)
Once == INSTANCE CorpusOnce WITH corpus <- recipes
LoadsOnce == Once!Spec

(* The pod answers requests only when there are recipes to plan with.      *)
ServesCorpus == pc[Pod] = "serving" => recipes # {}

Ingredients(rows) == UNION {Elements(r.ingredients) : r \in rows}

ItemRow(g) == [key |-> g.item.key, name |-> g.item.name, section |-> g.item.section.key,
               mode |-> g.item.mode]

(* The items of the ingredients are stored with the key, the name, the     *)
(* section's key and the mode of their own documents.                      *)
ItemsStored == \A g \in Ingredients(recipes) : ItemRow(g) \in items

(* A section is stored with the name one of the ingredients in it gives it *)
(* and not always the own: the import does not compare the name a document *)
(* gives a section that it has met before.                                 *)
Named(gs, stored) ==
  \A g \in gs : \E h \in gs :
    h.item.section.key = g.item.section.key /\ h.item.section \in stored

(* An ingredient's item is stored as its own document approved it, also    *)
(* when another document brought the item in, but for the section's name:  *)
(* that is the one this or another document of the corpus approved, never  *)
(* one that no document of the corpus has.                                 *)
ItemsAgree == ItemsStored /\ Named(Ingredients(recipes), sections)

(* What an audited image may still be wrong about: two documents disagree  *)
(* about a name, an item or a section, or a row does not fit its table.    *)
Used(i) == UNION {Elements(d.ingredients) : d \in Elements(Holds[i].documents)}
Overlooked(i) ==
  \/ \E d, e \in Elements(Holds[i].documents) : d.key # e.key /\ d.name = e.name
  \/ \E g, h \in Used(i) : g.item # h.item /\ Same(g.item, h.item)
  \/ \E s, t \in {Other} \cup {g.item.section : g \in Used(i)} : s # t /\ Same(s, t)
  \/ \E d \in Elements(Holds[i].documents) : d.image = " " \/ ~UniqueFlags(d)
  \/ \E g \in Used(i) :
       \/ g.note = " " \/ ~IngredientParams(g.quantity)
       \/ /\ g.quantity.kind = "range"
          /\ \/ g.quantity.amount[1] * g.quantity.maximum[2] > MaxInt
             \/ g.quantity.maximum[1] * g.quantity.amount[2] > MaxInt

(* The audit finds everything else: when the pod's import fails, its image *)
(* is wrong in one of these ways or somebody else's import was in its way. *)
AuditSuffices ==
  [][pc[Pod] \in Importing /\ pc'[Pod] = "failed" =>
       \/ Overlooked(img[Pod])
       \/ recipes # {}
       \/ \E q \in Commands : work[q] # NoWork]_vars

(* In the end the pod serves, unless there is no corpus and the release's  *)
(* own cannot be imported.                                                 *)
PodServes ==
  <>[](pc[Pod] = "serving" \/ (recipes = {} /\ (~Audited(Holds[image]) \/ Overlooked(image))))

-----------------------------------------------------------------------------
(* Why the corpus is loaded whole and once: what an open import has        *)
(* written, and that no two of them have written the same recipe.          *)

Labels ==
  {"down", "migrate", "apply", "count", "audit", "serve", "serving", "failed", "done"}
    \cup Importing
AtIngredient == {"section", "newSection", "item", "newItem", "ingredient", "verify"}

(* The row of a document with the first n ingredients.                     *)
Partial(d, n) ==
  [CreateRecipeSource(CreateDraftRecipe(d)) EXCEPT
     !.ingredients = [k \in 1..n |-> d.ingredients[k]]]

Finished(p) == IF pc[p] = "commit" THEN Len(Documents(p)) ELSE doc[p] - 1
Taken(p) == IF pc[p] = "verify" THEN ing[p] ELSE ing[p] - 1

ImportAt(p) ==
  /\ work[p] = [recipes |-> {Imported(Documents(p)[k]) : k \in 1..Finished(p)},
                draft |-> IF pc[p] \in AtIngredient THEN {Partial(Document(p), Taken(p))} ELSE {},
                items |-> work[p].items, sections |-> work[p].sections, known |-> work[p].known]
  /\ IF pc[p] \in Writing THEN doc[p] \in 1..Len(Documents(p)) ELSE doc[p] = 1
  /\ pc[p] \in AtIngredient => ing[p] \in 1..Len(Document(p).ingredients)
  /\ pc[p] = "verify" => ing[p] = Len(Document(p).ingredients)
  /\ pc[p] \in Importing => Audited(Holds[img[p]])
  /\ pc[p] = "ingredient" => NewItem(p) \in VisibleItems(p)
  /\ \A r \in OwnRecipes(p) : \A g \in Elements(r.ingredients) : ItemRow(g) \in VisibleItems(p)

Apart ==
  \A p \in Proc : \A r \in OwnRecipes(p) :
    /\ \A s \in recipes : ~Same(r, s)
    /\ \A q \in Proc \ {p} : \A s \in OwnRecipes(q) : ~Same(r, s)

RecipesImported ==
  /\ pc \in [Proc -> Labels] /\ img \in [Proc -> Images] /\ image \in Images
  /\ doc \in [Proc -> Nat] /\ ing \in [Proc -> Nat] /\ DOMAIN work = Proc
  /\ \A p \in Proc : ImportAt(p)
  /\ Apart
  /\ pc[Pod] \in {"serve", "serving"} => recipes # {}
  /\ CorpusWhole /\ ItemsStored

(* The ingredients whose section the import of p has looked up.            *)
Seen(p) ==
  Ingredients(OwnRecipes(p))
    \cup (IF pc[p] \in {"item", "newItem", "ingredient"} THEN {Ingredient(p)} ELSE {})

(* The keys the import has looked up are those of its ingredients, and the *)
(* first of them in a section has the name that is stored.                 *)
SectionsMet(p) ==
  /\ work[p].known = {g.item.section.key : g \in Seen(p)}
  /\ Named(Seen(p), VisibleSections(p))

SectionsNamed ==
  /\ \A p \in Proc : SectionsMet(p)
  /\ Named(Ingredients(recipes), sections)

ImportInvariant == RecipesImported /\ SectionsNamed

-----------------------------------------------------------------------------
(* Why the audit suffices: until an import commits, every row another row  *)
(* can disagree with comes from the same image or from a migration.        *)

WritesOwn(p) ==
  /\ work[p].items \subseteq {ItemRow(g) : g \in Used(img[p])}
  /\ work[p].sections \subseteq {g.item.section : g \in Used(img[p])}
  /\ pc[p] \notin Writing => work[p].items = {} /\ work[p].sections = {}

(* What p is about to insert was not there, and nobody has committed it.   *)
StillMissing(p) ==
  recipes = {} =>
    /\ pc[p] = "newSection" => \A s \in VisibleSections(p) : s.key # Wanted(p).section.key
    /\ pc[p] = "newItem" => \A i \in VisibleItems(p) : i.key # Wanted(p).key

(* Nobody migrates once an import has begun.                               *)
Migrated(p) ==
  /\ pc[p] = "apply" => version[p] < Latest
  /\ pc[p] \in {"count", "audit"} \cup Importing => ~(schema < Latest)

AuditInvariant ==
  /\ DOMAIN version = Proc
  /\ recipes = {} => items = {} /\ sections \subseteq {Other}
  /\ \A p \in Proc : WritesOwn(p) /\ StillMissing(p) /\ Migrated(p)
=============================================================================
