-------------------------- MODULE BootstrapProofs ---------------------------
(***************************************************************************)
(* The corpus is loaded whole and once, for any images, any number of      *)
(* commands beside the pod and any number of stops, provided two releases  *)
(* have a recipe in common; and what the audit of an image lets through is *)
(* all that an import with no other beside it can fail by.                 *)
(***************************************************************************)
EXTENDS Bootstrap, TLAPS

-----------------------------------------------------------------------------
(* Documents and rows.                                                     *)

LEMMA ImportedNames ==
  ASSUME NEW d, NEW n
  PROVE  /\ Imported(d).key = d.key /\ Imported(d).name = d.name
         /\ Partial(d, n).key = d.key /\ Partial(d, n).name = d.name
BY DEF Imported, Partial, VerifyRecipe, Reviewed, MarkRecipeReviewable, ApproveReviewFlags,
       CreateReviewFlags, CreateRecipeSteps, CreateRecipeSource, CreateDraftRecipe

LEMMA RowIngredients ==
  ASSUME NEW d, NEW n
  PROVE  /\ Imported(d).ingredients = d.ingredients
         /\ Partial(d, n).ingredients = [k \in 1..n |-> d.ingredients[k]]
BY DEF Imported, Partial, VerifyRecipe, Reviewed, MarkRecipeReviewable, ApproveReviewFlags,
       CreateReviewFlags, CreateRecipeSteps, CreateRecipeSource, CreateDraftRecipe

Draft(d, gs) ==
  [key |-> d.key, name |-> d.name, image |-> d.image, status |-> "draft", sources |-> 1,
   ingredients |-> gs, steps |-> <<>>, review |-> <<>>]

LEMMA DraftRows ==
  ASSUME NEW d
  PROVE  /\ CreateRecipeSource(CreateDraftRecipe(d)) = Draft(d, <<>>)
         /\ \A n, gs : gs = [k \in 1..n |-> d.ingredients[k]] => Partial(d, n) = Draft(d, gs)
         /\ \A gs, g : CreateRecipeIngredient(Draft(d, gs), g) = Draft(d, Append(gs, g))
<1>1. CreateRecipeSource(CreateDraftRecipe(d)) = Draft(d, <<>>)
  BY DEF Draft, CreateRecipeSource, CreateDraftRecipe
<1>2. ASSUME NEW gs, NEW hs
      PROVE  [Draft(d, gs) EXCEPT !.ingredients = hs] = Draft(d, hs)
  BY DEF Draft
<1>3. ASSUME NEW n, NEW gs, gs = [k \in 1..n |-> d.ingredients[k]]
      PROVE  Partial(d, n) = Draft(d, gs)
  <2>1. Partial(d, n) = [CreateRecipeSource(CreateDraftRecipe(d)) EXCEPT !.ingredients = gs]
    BY <1>3 DEF Partial
  <2>2. [CreateRecipeSource(CreateDraftRecipe(d)) EXCEPT !.ingredients = gs]
        = [Draft(d, <<>>) EXCEPT !.ingredients = gs]
    BY <1>1
  <2> QED
    BY <1>2, <2>1, <2>2
<1>4. ASSUME NEW gs, NEW g
      PROVE  CreateRecipeIngredient(Draft(d, gs), g) = Draft(d, Append(gs, g))
  <2>1. Draft(d, gs).ingredients = gs
    BY DEF Draft
  <2> DEFINE r == Draft(d, gs)
  <2>2. CreateRecipeIngredient(r, g) = [r EXCEPT !.ingredients = Append(r.ingredients, g)]
    BY DEF CreateRecipeIngredient
  <2> QED
    BY <1>2, <2>1, <2>2
<1> QED
  BY <1>1, <1>3, <1>4

LEMMA PartialElements ==
  ASSUME NEW d, NEW n
  PROVE  Elements(Partial(d, n).ingredients) = {d.ingredients[k] : k \in 1..n}
<1> DEFINE gs == [k \in 1..n |-> d.ingredients[k]]
<1>1. DOMAIN gs = 1..n /\ \A k \in 1..n : gs[k] = d.ingredients[k]
  OBVIOUS
<1>2. Partial(d, n).ingredients = gs
  BY RowIngredients
<1> HIDE DEF gs
<1> QED
  BY <1>1, <1>2 DEF Elements

(* A new row has no ingredients, and a whole one is the imported row.      *)
LEMMA FirstPartial ==
  ASSUME NEW d
  PROVE  CreateRecipeSource(CreateDraftRecipe(d)) = Partial(d, 0)
<1>1. [k \in 1..0 |-> d.ingredients[k]] = << >>
  OBVIOUS
<1>2. Partial(d, 0) = Draft(d, << >>)
  BY <1>1, DraftRows
<1> QED
  BY <1>2, DraftRows

LEMMA NextPartial ==
  ASSUME NEW d, NEW n \in Nat, d.ingredients \in Seq(Elements(d.ingredients)),
         n + 1 <= Len(d.ingredients)
  PROVE  CreateRecipeIngredient(Partial(d, n), d.ingredients[n + 1]) = Partial(d, n + 1)
<1> DEFINE taken(m) == [k \in 1..m |-> d.ingredients[k]]
<1>1. taken(n) \in Seq(Elements(d.ingredients))
  BY DEF Elements
<1>2. Append(taken(n), d.ingredients[n + 1]) = taken(n + 1)
  BY <1>1
<1>3. Partial(d, n) = Draft(d, taken(n)) /\ Partial(d, n + 1) = Draft(d, taken(n + 1))
  BY DraftRows
<1> HIDE DEF taken
<1>4. CreateRecipeIngredient(Draft(d, taken(n)), d.ingredients[n + 1])
      = Draft(d, Append(taken(n), d.ingredients[n + 1]))
  BY DraftRows
<1> QED
  BY <1>2, <1>3, <1>4

LEMMA LastPartial ==
  ASSUME NEW d, d.ingredients \in Seq(Elements(d.ingredients))
  PROVE  VerifyRecipe(Reviewed(Partial(d, Len(d.ingredients)), d)) = Imported(d)
<1>1. [k \in 1..Len(d.ingredients) |-> d.ingredients[k]] = d.ingredients
  OBVIOUS
<1> QED
  BY <1>1 DEF Partial, Imported

(* What an audited image holds.                                            *)
LEMMA AuditedDocuments ==
  ASSUME NEW i \in Images, Audited(Holds[i])
  PROVE  LET ds == Holds[i].documents
         IN  /\ ds \in Seq(Elements(ds)) /\ Len(ds) \in Nat \ {0} /\ DOMAIN ds = 1..Len(ds)
             /\ \A n \in 1..Len(ds) :
                  LET gs == ds[n].ingredients
                  IN  /\ ds[n] \in Elements(ds) /\ gs \in Seq(Elements(gs))
                      /\ Len(gs) \in Nat \ {0} /\ DOMAIN gs = 1..Len(gs)
<1> DEFINE ds == Holds[i].documents
<1>1. ds \in Seq(Elements(ds)) /\ ds # << >>
  BY HoldsAssumption DEF Audited, ReadDirectory
<1>2. ASSUME NEW n \in 1..Len(ds)
      PROVE  /\ ds[n] \in Elements(ds)
             /\ ds[n].ingredients \in Seq(Elements(ds[n].ingredients))
             /\ ds[n].ingredients # << >>
  <2>1. ds[n] \in Elements(ds)
    BY <1>1 DEF Elements
  <2> QED
    BY <2>1, HoldsAssumption DEF Audited, ReadDirectory, Validate
<1> HIDE DEF ds
<1>3. Len(ds) \in Nat \ {0} /\ DOMAIN ds = 1..Len(ds)
  BY <1>1
<1>4. ASSUME NEW n \in 1..Len(ds), NEW gs, gs = ds[n].ingredients
      PROVE  Len(gs) \in Nat \ {0} /\ DOMAIN gs = 1..Len(gs)
  BY <1>2, <1>4
<1> QED
  BY <1>1, <1>2, <1>3, <1>4 DEF ds

-----------------------------------------------------------------------------
(* A step of one process.  Nothing of the others changes.                  *)

Alone(p) ==
  \A q \in Proc \ {p} :
    /\ pc'[q] = pc[q] /\ img'[q] = img[q] /\ doc'[q] = doc[q] /\ ing'[q] = ing[q]
    /\ work'[q] = work[q]

Types ==
  /\ pc \in [Proc -> Labels] /\ img \in [Proc -> Images] /\ image \in Images
  /\ doc \in [Proc -> Nat] /\ ing \in [Proc -> Nat] /\ DOMAIN work = Proc

(* The recipe p has just begun is nobody else's, or it began it before.    *)
Fresh(p, r) ==
  \/ \E s \in OwnRecipes(p) : r.key = s.key /\ r.name = s.name
  \/ /\ \A s \in recipes : ~Same(r, s)
     /\ \A q \in Proc \ {p} : \A s \in OwnRecipes(q) : ~Same(r, s)

LEMMA Stepped ==
  ASSUME RecipesImported, NEW p \in Proc, Alone(p), Types', ImportAt(p)',
         items \subseteq items', CorpusWhole', ItemsStored',
         pc'[Pod] \in {"serve", "serving"} => recipes' # {},
         \A r \in OwnRecipes(p)' : Fresh(p, r),
         \/ recipes' = recipes
         \/ OwnRecipes(p)' = {} /\ recipes' = recipes \cup OwnRecipes(p)
  PROVE  RecipesImported'
<1>1. \A q \in Proc \ {p} : /\ OwnRecipes(q)' = OwnRecipes(q)
                            /\ VisibleItems(q) \subseteq VisibleItems(q)'
  BY DEF Alone, OwnRecipes, VisibleItems
<1>2. ASSUME NEW q \in Proc \ {p}
      PROVE  ImportAt(q)'
  <2>1. ImportAt(q)
    BY DEF RecipesImported
  <2>2. /\ Documents(q)' = Documents(q) /\ Document(q)' = Document(q)
        /\ Finished(q)' = Finished(q) /\ Taken(q)' = Taken(q) /\ NewItem(q)' = NewItem(q)
    BY DEF Alone, Documents, Document, Finished, Taken, NewItem, Wanted, Ingredient
  <2>3. /\ pc'[q] = pc[q] /\ img'[q] = img[q] /\ doc'[q] = doc[q] /\ ing'[q] = ing[q]
        /\ work'[q] = work[q]
    BY DEF Alone
  <2> QED
    BY <1>1, <2>1, <2>2, <2>3 DEF ImportAt
<1>3. Apart'
  <2>1. \A q \in Proc : \A r \in OwnRecipes(q) :
          /\ \A s \in recipes : ~Same(r, s)
          /\ \A u \in Proc \ {q} : \A s \in OwnRecipes(u) : ~Same(r, s)
    BY DEF RecipesImported, Apart
  <2>2. \A r, s, t : r.key = s.key /\ r.name = s.name /\ ~Same(s, t) => ~Same(r, t)
    BY DEF Same
  <2>3. \A r, s : Same(r, s) <=> Same(s, r)
    BY DEF Same
  <2>4. ASSUME NEW r \in OwnRecipes(p)'
        PROVE  /\ \A s \in recipes : ~Same(r, s)
               /\ \A q \in Proc \ {p} : \A s \in OwnRecipes(q) : ~Same(r, s)
    BY <2>1, <2>2, <2>4 DEF Fresh
  <2>5. ASSUME NEW q \in Proc \ {p}, NEW r \in OwnRecipes(q)
        PROVE  /\ \A s \in recipes' : ~Same(r, s)
               /\ \A u \in Proc \ {q} : \A s \in OwnRecipes(u)' : ~Same(r, s)
    BY <1>1, <2>1, <2>3, <2>4
  <2>6. \A r \in OwnRecipes(p)' : \A s \in recipes' : ~Same(r, s)
    BY <2>4
  <2> HIDE DEF Same
  <2> QED
    BY <1>1, <2>4, <2>5, <2>6 DEF Apart
<1> QED
  BY <1>2, <1>3 DEF RecipesImported, Types

(* A step that leaves what is committed and what p has written.            *)
LEMMA Moved ==
  ASSUME RecipesImported, NEW p \in Proc, Alone(p), Types', ImportAt(p)',
         UNCHANGED <<recipes, items>>,
         pc'[Pod] \in {"serve", "serving"} => pc[Pod] \in {"serve", "serving"} \/ recipes # {},
         \A r \in OwnRecipes(p)' : Fresh(p, r)
  PROVE  RecipesImported'
<1>1. CorpusWhole' /\ ItemsStored'
  BY DEF RecipesImported, CorpusWhole, ItemsStored
<1>2. pc'[Pod] \in {"serve", "serving"} => recipes' # {}
  BY DEF RecipesImported
<1> QED
  BY <1>1, <1>2, Stepped
-----------------------------------------------------------------------------
(* Steps that only go on.                                                  *)

LEMMA Shape ==
  ASSUME RecipesImported, NEW p \in Proc
  PROVE  /\ ImportAt(p) /\ Types /\ work[p].recipes \cup work[p].draft = OwnRecipes(p)
         /\ \A label : Goto(p, label) =>
              pc' = [pc EXCEPT ![p] = label] /\ pc'[p] = label
              /\ (label \in Labels => pc' \in [Proc -> Labels])
BY DEF RecipesImported, Types, OwnRecipes, Goto

(* The process is not importing, before or after.                          *)
LEMMA Outside ==
  ASSUME RecipesImported, NEW p \in Proc, NEW label \in Labels \ Writing, Goto(p, label),
         pc[p] \notin Writing, label = "begin" => Audited(Holds[img[p]]),
         label \in {"serve", "serving"} => pc[p] = "serve" \/ recipes # {},
         UNCHANGED <<recipes, items, work, doc, ing, image>>,
         \/ img' = img
         \/ label \notin Importing /\ \E i \in Images : img' = [img EXCEPT ![p] = i]
  PROVE  RecipesImported'
<1>1. ImportAt(p) /\ Types /\ pc' = [pc EXCEPT ![p] = label] /\ pc'[p] = label
  BY Shape
<1>2. Types' /\ Alone(p)
  BY <1>1 DEF Types, Alone, Goto
<1>3. OwnRecipes(p)' = OwnRecipes(p) /\ \A r \in OwnRecipes(p) : Fresh(p, r)
  BY DEF OwnRecipes, Fresh
<1>4. Finished(p) = 0 /\ Finished(p)' = 0
  BY <1>1 DEF Finished, ImportAt, Writing
<1>5. work[p].recipes = {} /\ work[p].draft = {}
  BY <1>1, <1>4 DEF ImportAt, AtIngredient, Writing
<1>6. ImportAt(p)'
  <2>1. OwnRecipes(p)' = {}
    BY <1>3, <1>5 DEF OwnRecipes
  <2>2. work'[p] = [recipes |-> {Imported(Documents(p)'[k]) : k \in 1..Finished(p)'}, draft |-> {},
                    items |-> work'[p].items, sections |-> work'[p].sections,
                    known |-> work'[p].known]
    <3>1. {Imported(Documents(p)'[k]) : k \in 1..Finished(p)'} = {}
      BY <1>4
    <3>2. work[p] = [recipes |-> work[p].recipes, draft |-> work[p].draft, items |-> work[p].items,
                     sections |-> work[p].sections, known |-> work[p].known]
      BY <1>1 DEF ImportAt
    <3> QED
      BY <1>5, <3>1, <3>2
  <2>3. label \in Importing => Audited(Holds[img'[p]])
    BY DEF Importing
  <2> QED
    BY <1>1, <2>1, <2>2, <2>3 DEF ImportAt, AtIngredient, Writing, Importing
<1>7. pc'[Pod] \in {"serve", "serving"} => pc[Pod] \in {"serve", "serving"} \/ recipes # {}
  BY <1>1 DEF Types
<1> QED
  BY <1>2, <1>3, <1>6, <1>7, Moved

(* The process exits, stopped or with an error.                            *)
LEMMA Exited ==
  ASSUME RecipesImported, NEW p \in Proc, NEW label \in {"failed", "down"}, Exit(p, label),
         UNCHANGED <<recipes, items, img>>, image' \in Images
  PROVE  RecipesImported'
<1>1. /\ ImportAt(p) /\ Types /\ pc' = [pc EXCEPT ![p] = label] /\ pc'[p] = label
      /\ doc'[p] = 1 /\ work'[p] = NoWork
  BY Shape DEF Exit, Types
<1>2. Types' /\ Alone(p)
  BY <1>1 DEF Types, Alone, Goto, Exit, Labels
<1>3. OwnRecipes(p)' = {} /\ Finished(p)' = 0
  BY <1>1 DEF OwnRecipes, NoWork, Finished
<1>4. ImportAt(p)'
  <2>1. {Imported(Documents(p)'[k]) : k \in 1..Finished(p)'} = {}
    BY <1>3
  <2>2. work'[p] = [recipes |-> {}, draft |-> {}, items |-> work'[p].items,
                    sections |-> work'[p].sections, known |-> work'[p].known]
    BY <1>1 DEF NoWork
  <2> QED
    BY <1>1, <1>3, <2>1, <2>2 DEF ImportAt, AtIngredient, Writing, Importing
<1>5. pc'[Pod] \in {"serve", "serving"} => pc[Pod] \in {"serve", "serving"} \/ recipes # {}
  BY <1>1 DEF Types
<1> QED
  BY <1>2, <1>3, <1>4, <1>5, Moved

(* Between two rows of one ingredient: p goes on to label and has written  *)
(* the items more.                                                         *)
Between(p, label, more, sections2, known2) ==
  /\ label \in AtIngredient \ {"verify"} /\ Goto(p, label)
  /\ pc[p] \in AtIngredient \ {"verify"}
  /\ UNCHANGED <<recipes, items, doc, ing, image, img>>
  /\ DOMAIN work' = Proc /\ \A q \in Proc \ {p} : work'[q] = work[q]
  /\ work'[p] = [recipes |-> work[p].recipes, draft |-> work[p].draft, items |-> more,
                 sections |-> sections2, known |-> known2]
  /\ work[p].items \subseteq more
  /\ label = "ingredient" => NewItem(p) \in items \cup more

LEMMA Inside ==
  ASSUME RecipesImported, NEW p \in Proc, NEW label, NEW more, NEW sections2, NEW known2,
         Between(p, label, more, sections2, known2)
  PROVE  RecipesImported'
<1> USE DEF Between
<1>1. ImportAt(p) /\ Types /\ pc' = [pc EXCEPT ![p] = label] /\ pc'[p] = label
  BY Shape
<1>2. Types' /\ Alone(p)
  BY <1>1 DEF Types, Alone, Goto, Labels, AtIngredient, Importing, Writing
<1>3. OwnRecipes(p)' = OwnRecipes(p) /\ \A r \in OwnRecipes(p) : Fresh(p, r)
  BY DEF OwnRecipes, Fresh
<1>4. /\ Documents(p)' = Documents(p) /\ Document(p)' = Document(p) /\ NewItem(p)' = NewItem(p)
      /\ Finished(p)' = Finished(p) /\ Taken(p)' = Taken(p)
  BY <1>1 DEF Documents, Document, NewItem, Wanted, Ingredient, Finished, Taken, AtIngredient
<1>5. VisibleItems(p) \subseteq VisibleItems(p)' /\ VisibleItems(p)' = items \cup more
  BY DEF VisibleItems
<1>6. ImportAt(p)'
  <2>1. pc[p] \in Writing /\ label \in Writing
    BY DEF AtIngredient, Writing
  <2>2. work'[p] = [recipes |-> {Imported(Documents(p)[k]) : k \in 1..Finished(p)},
                    draft |-> {Partial(Document(p), Taken(p))},
                    items |-> work'[p].items, sections |-> work'[p].sections,
                    known |-> work'[p].known]
    <3>1. /\ work[p].recipes = {Imported(Documents(p)[k]) : k \in 1..Finished(p)}
          /\ work[p].draft = {Partial(Document(p), Taken(p))}
      BY <1>1 DEF ImportAt, AtIngredient
    <3> QED
      BY <3>1
  <2> QED
    BY <1>1, <1>3, <1>4, <1>5, <2>1, <2>2 DEF ImportAt, AtIngredient, Importing
<1>7. pc'[Pod] \in {"serve", "serving"} => pc[Pod] \in {"serve", "serving"} \/ recipes # {}
  BY <1>1 DEF Types, AtIngredient
<1> QED
  BY <1>2, <1>3, <1>6, <1>7, Moved
-----------------------------------------------------------------------------
(* Steps that write.                                                       *)

LEMMA CurrentDocument ==
  ASSUME RecipesImported, NEW p \in Proc, pc[p] \in Writing
  PROVE  /\ img[p] \in Images /\ Audited(Holds[img[p]])
         /\ Len(Documents(p)) \in Nat \ {0} /\ DOMAIN Documents(p) = 1..Len(Documents(p))
         /\ doc[p] \in 1..Len(Documents(p))
         /\ LET gs == Document(p).ingredients
            IN  /\ Document(p) \in Elements(Documents(p)) /\ gs \in Seq(Elements(gs))
                /\ Len(gs) \in Nat \ {0} /\ DOMAIN gs = 1..Len(gs)
<1>1. img[p] \in Images /\ Audited(Holds[img[p]]) /\ doc[p] \in 1..Len(Documents(p))
  BY DEF RecipesImported, ImportAt, Importing
<1> QED
  BY <1>1, AuditedDocuments DEF Documents, Document

LEMMA RecipeInserted ==
  ASSUME RecipesImported, NEW p \in Proc, InsertRecipe(p)
  PROVE  RecipesImported'
<1> DEFINE d == Document(p)
<1>1. CASE Fail(p)
  BY <1>1, Exited DEF Fail, db, RecipesImported
<1>2. CASE ~Fail(p)
  <2>1. /\ pc[p] = "recipe" /\ WaitsFor(p) = {}
        /\ \A r \in recipes \cup OwnRecipes(p) : ~Same(r, d)
        /\ work' = [work EXCEPT ![p].draft = {CreateRecipeSource(CreateDraftRecipe(d))}]
        /\ ing' = [ing EXCEPT ![p] = 1] /\ Goto(p, "section")
        /\ UNCHANGED <<db, image, stops, img, version, doc>>
    BY <1>2 DEF InsertRecipe, At
  <2>2. ImportAt(p) /\ Types /\ pc' = [pc EXCEPT ![p] = "section"] /\ pc'[p] = "section"
    BY <2>1, Shape
  <2>3. Types' /\ Alone(p) /\ ing'[p] = 1
    BY <2>1, <2>2 DEF Types, Alone, Labels, Importing, Writing
  <2>4. /\ work[p] = [recipes |-> {Imported(Documents(p)[k]) : k \in 1..Finished(p)},
                      draft |-> {}, items |-> work[p].items, sections |-> work[p].sections,
                      known |-> work[p].known]
        /\ pc[p] \in Writing
    BY <2>1, <2>2 DEF ImportAt, AtIngredient, Writing
  <2>5. work'[p] = [work[p] EXCEPT !.draft = {Partial(d, 0)}]
    BY <2>1, <2>2, FirstPartial DEF Types
  <2>6. /\ Documents(p)' = Documents(p) /\ Document(p)' = d
        /\ Finished(p)' = Finished(p) /\ Taken(p)' = 0
    BY <2>1, <2>2, <2>3 DEF Documents, Document, Finished, Taken
  <2> HIDE DEF d
  <2>7. /\ OwnRecipes(p)' = OwnRecipes(p) \cup {Partial(d, 0)}
        /\ VisibleItems(p)' = VisibleItems(p)
    BY <2>1, <2>4, <2>5 DEF OwnRecipes, VisibleItems, db
  <2>8. \A r \in OwnRecipes(p)' : Fresh(p, r)
    <3>1. \A r \in OwnRecipes(p) : Fresh(p, r)
      BY DEF Fresh
    <3>2. \A q \in Proc \ {p} : \A s \in OwnRecipes(q) : ~Same(s, d)
      BY <2>1 DEF WaitsFor, Blocks, d
    <3>3. \A s : ~Same(s, d) => ~Same(Partial(d, 0), s)
      BY ImportedNames DEF Same
    <3>4. Fresh(p, Partial(d, 0))
      BY <2>1, <3>2, <3>3 DEF Fresh
    <3> QED
      BY <2>7, <3>1, <3>4
  <2>9. ImportAt(p)'
    <3>1. work'[p] = [recipes |-> {Imported(Documents(p)[k]) : k \in 1..Finished(p)},
                      draft |-> {Partial(d, 0)}, items |-> work'[p].items,
                      sections |-> work'[p].sections, known |-> work'[p].known]
      <4>1. work[p].recipes = {Imported(Documents(p)[k]) : k \in 1..Finished(p)}
        BY <2>4
      <4> QED
        BY <2>4, <2>5, <4>1
    <3>2. 1 \in 1..Len(d.ingredients)
      BY <2>4, CurrentDocument DEF d
    <3>3. Elements(Partial(d, 0).ingredients) = {}
      <4>1. 1..0 = {}
        OBVIOUS
      <4> QED
        BY <4>1, PartialElements
    <3>4. \A r \in OwnRecipes(p)' : \A g \in Elements(r.ingredients) : ItemRow(g) \in VisibleItems(p)
      BY <2>2, <2>7, <3>3 DEF ImportAt
    <3>5. doc[p] \in 1..Len(Documents(p)) /\ Audited(Holds[img[p]])
      BY <2>4, CurrentDocument
    <3>6. "section" \in AtIngredient /\ "section" \in Writing
      BY DEF AtIngredient, Writing
    <3> QED
      <4>1. /\ img'[p] = img[p] /\ doc'[p] = doc[p] /\ ing'[p] = 1 /\ pc'[p] = "section"
            /\ Documents(p)' = Documents(p) /\ Document(p)' = d
            /\ Finished(p)' = Finished(p) /\ Taken(p)' = 0
        BY <2>1, <2>2, <2>3, <2>6
      <4>2. VisibleItems(p)' = VisibleItems(p)
        BY <2>7
      <4> QED
        BY <3>1, <3>2, <3>4, <3>5, <3>6, <4>1, <4>2 DEF ImportAt
  <2>10. pc'[Pod] \in {"serve", "serving"} => pc[Pod] \in {"serve", "serving"} \/ recipes # {}
    BY <2>2 DEF Types
  <2> QED
    BY <2>1, <2>3, <2>8, <2>9, <2>10, Moved DEF db
<1> QED
  BY <1>1, <1>2

LEMMA IngredientInserted ==
  ASSUME RecipesImported, NEW p \in Proc, InsertIngredient(p)
  PROVE  RecipesImported'
<1> DEFINE d == Document(p)
           n == ing[p]
           last == n = Len(d.ingredients)
           label == IF last THEN "verify" ELSE "section"
<1>1. CASE Fail(p)
  BY <1>1, Exited DEF Fail, db, RecipesImported
<1>2. CASE ~Fail(p)
  <2>1. /\ pc[p] = "ingredient"
        /\ work' = [work EXCEPT ![p].draft = {CreateRecipeIngredient(r, Ingredient(p)) : r \in @}]
        /\ ing' = IF last THEN ing ELSE [ing EXCEPT ![p] = @ + 1]
        /\ Goto(p, label)
        /\ UNCHANGED <<db, image, stops, img, version, doc>>
    BY <1>2 DEF InsertIngredient, At
  <2>2. /\ ImportAt(p) /\ Types /\ pc' = [pc EXCEPT ![p] = label] /\ pc'[p] = label
        /\ label \in {"verify", "section"}
    BY <2>1, Shape
  <2>3. /\ pc[p] \in Writing /\ n \in 1..Len(d.ingredients) /\ n \in Nat /\ n - 1 \in Nat
        /\ d.ingredients \in Seq(Elements(d.ingredients)) /\ Len(d.ingredients) \in Nat
    <3>1. pc[p] \in Writing /\ n \in 1..Len(d.ingredients)
      BY <2>1, <2>2 DEF ImportAt, AtIngredient, Writing
    <3> QED
      BY <3>1, CurrentDocument
  <2>4. Types' /\ Alone(p) /\ ing'[p] = IF last THEN n ELSE n + 1
    BY <2>1, <2>2, <2>3 DEF Types, Alone, Goto, Labels, Importing, Writing
  <2>5. work[p] = [recipes |-> {Imported(Documents(p)[k]) : k \in 1..Finished(p)},
                   draft |-> {Partial(d, n - 1)}, items |-> work[p].items,
                   sections |-> work[p].sections, known |-> work[p].known]
    BY <2>1, <2>2 DEF ImportAt, AtIngredient, Taken
  <2>6. work'[p] = [work[p] EXCEPT !.draft = {Partial(d, n)}]
    <3>1. CreateRecipeIngredient(Partial(d, n - 1), Ingredient(p)) = Partial(d, n)
      BY <2>3, NextPartial DEF Ingredient
    <3>2. work[p].draft = {Partial(d, n - 1)}
      BY <2>5
    <3>3. {CreateRecipeIngredient(r, Ingredient(p)) : r \in work[p].draft} = {Partial(d, n)}
      BY <3>1, <3>2
    <3> QED
      BY <2>1, <2>2, <3>3 DEF Types
  <2>7. /\ Documents(p)' = Documents(p) /\ Document(p)' = d
        /\ Finished(p)' = Finished(p) /\ Taken(p)' = n
    <3>1. pc[p] # "commit" /\ pc'[p] # "commit"
      BY <2>1, <2>2
    <3>2. CASE last
      BY <2>1, <2>2, <2>4, <3>1, <3>2 DEF Documents, Document, Finished, Taken
    <3>3. CASE ~last
      BY <2>1, <2>2, <2>3, <2>4, <3>1, <3>3 DEF Documents, Document, Finished, Taken
    <3> QED
      BY <3>2, <3>3
  <2>8. /\ OwnRecipes(p) = work[p].recipes \cup {Partial(d, n - 1)}
        /\ OwnRecipes(p)' = work[p].recipes \cup {Partial(d, n)}
        /\ VisibleItems(p)' = VisibleItems(p)
    <3>1. work[p].draft = {Partial(d, n - 1)}
      BY <2>5
    <3>2. /\ work'[p].recipes = work[p].recipes /\ work'[p].items = work[p].items
          /\ work'[p].draft = {Partial(d, n)}
      BY <2>5, <2>6
    <3> QED
      BY <2>1, <3>1, <3>2 DEF OwnRecipes, VisibleItems, db
  <2>9. \A r \in OwnRecipes(p)' : Fresh(p, r)
    <3>1. Fresh(p, Partial(d, n))
      BY <2>8, ImportedNames DEF Fresh
    <3> QED
      BY <2>8, <3>1 DEF Fresh
  <2>10. \A g \in Elements(Partial(d, n).ingredients) : ItemRow(g) \in VisibleItems(p)
    <3>1. \A k \in 1..(n - 1) : ItemRow(d.ingredients[k]) \in VisibleItems(p)
      <4>1. \A g \in Elements(Partial(d, n - 1).ingredients) : ItemRow(g) \in VisibleItems(p)
        BY <2>2, <2>8 DEF ImportAt
      <4>2. Elements(Partial(d, n - 1).ingredients) = {d.ingredients[k] : k \in 1..(n - 1)}
        BY PartialElements
      <4> QED
        BY <4>1, <4>2
    <3>2. ItemRow(d.ingredients[n]) \in VisibleItems(p)
      BY <2>1, <2>2 DEF ImportAt, NewItem, ItemRow, Wanted, Ingredient
    <3>3. Elements(Partial(d, n).ingredients) = {d.ingredients[k] : k \in 1..n}
      BY PartialElements
    <3>4. \A k \in 1..n : k \in 1..(n - 1) \/ k = n
      BY <2>3
    <3> QED
      BY <3>1, <3>2, <3>3, <3>4
  <2>11. ImportAt(p)'
    <3>1. work'[p] = [recipes |-> {Imported(Documents(p)[k]) : k \in 1..Finished(p)},
                      draft |-> {Partial(d, n)}, items |-> work'[p].items,
                      sections |-> work'[p].sections, known |-> work'[p].known]
      <4>1. work[p].recipes = {Imported(Documents(p)[k]) : k \in 1..Finished(p)}
        BY <2>5
      <4> QED
        BY <2>5, <2>6, <4>1
    <3>2. /\ ing'[p] \in 1..Len(d.ingredients)
          /\ label = "verify" => ing'[p] = Len(d.ingredients)
      BY <2>3, <2>4
    <3>3. \A r \in OwnRecipes(p)' : \A g \in Elements(r.ingredients) : ItemRow(g) \in VisibleItems(p)
      BY <2>2, <2>8, <2>10 DEF ImportAt
    <3>4. doc[p] \in 1..Len(Documents(p)) /\ Audited(Holds[img[p]])
      BY <2>3, CurrentDocument
    <3>5. label \in AtIngredient /\ label \in Writing /\ label # "ingredient"
      BY <2>2 DEF AtIngredient, Writing
    <3> HIDE DEF label
    <3> QED
      BY <2>1, <2>2, <2>7, <2>8, <3>1, <3>2, <3>3, <3>4, <3>5 DEF ImportAt
  <2>12. pc'[Pod] \in {"serve", "serving"} => pc[Pod] \in {"serve", "serving"} \/ recipes # {}
    BY <2>2 DEF Types
  <2> QED
    BY <2>1, <2>4, <2>9, <2>11, <2>12, Moved DEF db
<1> QED
  BY <1>1, <1>2
LEMMA RecipeFinished ==
  ASSUME RecipesImported, NEW p \in Proc, FinishRecipe(p)
  PROVE  RecipesImported'
<1> DEFINE d == Document(p)
           last == doc[p] = Len(Documents(p))
           label == IF last THEN "commit" ELSE "recipe"
<1>1. CASE Fail(p)
  BY <1>1, Exited DEF Fail, db, RecipesImported
<1>2. CASE ~Fail(p)
  <2>1. /\ pc[p] = "verify"
        /\ work' = [work EXCEPT
             ![p].recipes = @ \cup {VerifyRecipe(r) : r \in {Reviewed(r, d) : r \in work[p].draft}},
             ![p].draft = {}]
        /\ doc' = IF last THEN doc ELSE [doc EXCEPT ![p] = @ + 1]
        /\ Goto(p, label)
        /\ UNCHANGED <<db, image, stops, img, version, ing>>
    BY <1>2 DEF FinishRecipe, At
  <2>2. /\ ImportAt(p) /\ Types /\ pc' = [pc EXCEPT ![p] = label] /\ pc'[p] = label
        /\ label \in {"commit", "recipe"}
    BY <2>1, Shape
  <2>3. /\ pc[p] \in Writing /\ doc[p] \in 1..Len(Documents(p)) /\ Len(Documents(p)) \in Nat
        /\ ing[p] = Len(d.ingredients) /\ d.ingredients \in Seq(Elements(d.ingredients))
        /\ d = Documents(p)[doc[p]]
    <3>1. pc[p] \in Writing /\ ing[p] = Len(d.ingredients)
      BY <2>1, <2>2 DEF ImportAt, Writing
    <3> QED
      BY <3>1, CurrentDocument DEF Document
  <2>4. Types' /\ Alone(p) /\ doc'[p] = IF last THEN doc[p] ELSE doc[p] + 1
    BY <2>1, <2>2, <2>3 DEF Types, Alone, Goto, Labels, Importing, Writing
  <2>5. /\ work[p] = [recipes |-> work[p].recipes, draft |-> work[p].draft, items |-> work[p].items,
                      sections |-> work[p].sections, known |-> work[p].known]
        /\ work[p].recipes = {Imported(Documents(p)[k]) : k \in 1..(doc[p] - 1)}
        /\ work[p].draft = {Partial(d, Len(d.ingredients))}
    BY <2>1, <2>2, <2>3 DEF ImportAt, AtIngredient, Taken, Finished
  <2>6. work'[p] = [recipes |-> work[p].recipes \cup {Imported(d)}, draft |-> {},
                    items |-> work[p].items, sections |-> work[p].sections,
                    known |-> work[p].known]
    <3>1. VerifyRecipe(Reviewed(Partial(d, Len(d.ingredients)), d)) = Imported(d)
      BY <2>3, LastPartial
    <3>2. {VerifyRecipe(r) : r \in {Reviewed(r, d) : r \in work[p].draft}} = {Imported(d)}
      BY <2>5, <3>1
    <3>3. work'[p] = [work[p] EXCEPT !.recipes = work[p].recipes \cup {Imported(d)}, !.draft = {}]
      BY <2>1, <2>2, <3>2 DEF Types
    <3> QED
      BY <2>5, <3>3
  <2>7. /\ Documents(p)' = Documents(p) /\ img'[p] = img[p]
        /\ Finished(p)' = doc[p]
    <3>1. Documents(p)' = Documents(p) /\ img'[p] = img[p]
      BY <2>1 DEF Documents
    <3>2. Finished(p)' = doc[p]
      BY <2>2, <2>3, <2>4, <3>1 DEF Finished
    <3> QED
      BY <3>1, <3>2
  <2>8. /\ OwnRecipes(p) = work[p].recipes \cup {Partial(d, Len(d.ingredients))}
        /\ OwnRecipes(p)' = work[p].recipes \cup {Imported(d)}
        /\ VisibleItems(p)' = VisibleItems(p)
    <3>1. /\ work'[p].recipes = work[p].recipes \cup {Imported(d)} /\ work'[p].draft = {}
          /\ work'[p].items = work[p].items
      BY <2>6
    <3>2. work[p].draft = {Partial(d, Len(d.ingredients))}
      BY <2>5
    <3> QED
      BY <2>1, <3>1, <3>2 DEF OwnRecipes, VisibleItems, db
  <2>9. \A r \in OwnRecipes(p)' : Fresh(p, r)
    <3>1. Fresh(p, Imported(d))
      BY <2>8, ImportedNames DEF Fresh
    <3> QED
      BY <2>8, <3>1 DEF Fresh
  <2>10. \A g \in Elements(Imported(d).ingredients) : ItemRow(g) \in VisibleItems(p)
    <3>1. \A g \in Elements(Partial(d, Len(d.ingredients)).ingredients) :
            ItemRow(g) \in VisibleItems(p)
      BY <2>2, <2>8 DEF ImportAt
    <3>2. Elements(d.ingredients) = {d.ingredients[k] : k \in 1..Len(d.ingredients)}
      BY <2>3 DEF Elements
    <3>3. Elements(Partial(d, Len(d.ingredients)).ingredients) = Elements(d.ingredients)
      BY <3>2, PartialElements
    <3>4. Imported(d).ingredients = d.ingredients
      BY RowIngredients
    <3> QED
      BY <3>1, <3>3, <3>4
  <2>11. ImportAt(p)'
    <3>1. work'[p] = [recipes |-> {Imported(Documents(p)[k]) : k \in 1..doc[p]},
                      draft |-> {}, items |-> work'[p].items,
                      sections |-> work'[p].sections, known |-> work'[p].known]
      <4>1. \A k \in 1..doc[p] : k \in 1..(doc[p] - 1) \/ k = doc[p]
        BY <2>3
      <4>2. work[p].recipes \cup {Imported(d)} = {Imported(Documents(p)[k]) : k \in 1..doc[p]}
        BY <2>3, <2>5, <4>1
      <4> DEFINE all == {Imported(Documents(p)[k]) : k \in 1..doc[p]}
      <4>3. work'[p] = [recipes |-> all, draft |-> {}, items |-> work[p].items,
                        sections |-> work[p].sections, known |-> work[p].known]
        BY <2>6, <4>2
      <4> HIDE DEF all
      <4>4. work'[p] = [recipes |-> all, draft |-> {}, items |-> work'[p].items,
                        sections |-> work'[p].sections, known |-> work'[p].known]
        BY <4>3
      <4> QED
        BY <4>4 DEF all
    <3>2. doc'[p] \in 1..Len(Documents(p))
      BY <2>3, <2>4
    <3>3. \A r \in OwnRecipes(p)' : \A g \in Elements(r.ingredients) : ItemRow(g) \in VisibleItems(p)
      BY <2>2, <2>8, <2>10 DEF ImportAt
    <3>4. Audited(Holds[img[p]])
      BY <2>3, CurrentDocument
    <3>5. label \notin AtIngredient /\ label \in Writing /\ label \notin {"verify", "ingredient"}
      BY <2>2 DEF AtIngredient, Writing
    <3> HIDE DEF label
    <3> QED
      BY <2>2, <2>7, <2>8, <3>1, <3>2, <3>3, <3>4, <3>5 DEF ImportAt
  <2>12. pc'[Pod] \in {"serve", "serving"} => pc[Pod] \in {"serve", "serving"} \/ recipes # {}
    BY <2>2 DEF Types
  <2> QED
    BY <2>1, <2>4, <2>9, <2>11, <2>12, Moved DEF db
<1> QED
  BY <1>1, <1>2

(* The rows an import commits are its image's corpus, and no other import  *)
(* has committed: the two releases would share a recipe.                   *)
LEMMA ImportIsTheFirst ==
  ASSUME RecipesImported, NEW p \in Proc, CommitImport(p)
  PROVE  /\ recipes = {} /\ recipes' = OwnRecipes(p) /\ OwnRecipes(p) = Corpus(img[p])
         /\ recipes' # {} /\ recipes' \in Corpora
<1>1. /\ pc[p] = "commit" /\ pc[p] \in Writing /\ ImportAt(p)
      /\ recipes' = recipes \cup work[p].recipes
  BY Shape DEF CommitImport, At, Writing
<1> DEFINE i == img[p]
           ds == Documents(p)
<1>2. i \in Images /\ Audited(Holds[i]) /\ Len(ds) \in Nat \ {0} /\ DOMAIN ds = 1..Len(ds)
  BY <1>1, CurrentDocument
<1>3. /\ work[p].recipes = {Imported(ds[k]) : k \in 1..Len(ds)}
      /\ work[p].draft = {}
  BY <1>1 DEF ImportAt, Finished, AtIngredient
<1>4. Corpus(i) = {Imported(ds[k]) : k \in 1..Len(ds)}
  BY <1>2 DEF Corpus, Documents, Elements
<1>5. OwnRecipes(p) = Corpus(i) /\ work[p].recipes = Corpus(i)
  BY <1>3, <1>4 DEF OwnRecipes
<1>6. Corpus(i) # {} /\ Corpus(i) \in Corpora
  <2>1. Imported(ds[1]) \in Corpus(i)
    BY <1>2, <1>4
  <2> QED
    BY <1>2, <2>1 DEF Corpora
<1>7. recipes = {}
  <2> SUFFICES ASSUME recipes # {} PROVE FALSE
    OBVIOUS
  <2>1. PICK j \in Images : Audited(Holds[j]) /\ recipes = Corpus(j)
    BY DEF RecipesImported, CorpusWhole, Corpora
  <2>2. PICK d \in Elements(Holds[i].documents), e \in Elements(Holds[j].documents) : Same(d, e)
    BY <1>2, <2>1, ReleasesOverlap
  <2>3. Imported(d) \in OwnRecipes(p) /\ Imported(e) \in recipes
    BY <1>5, <2>1 DEF Corpus
  <2>4. Same(Imported(d), Imported(e))
    BY <2>2, ImportedNames DEF Same
  <2> QED
    BY <2>3, <2>4 DEF RecipesImported, Apart
<1> QED
  BY <1>1, <1>5, <1>6, <1>7

LEMMA ImportCommitted ==
  ASSUME RecipesImported, NEW p \in Proc, CommitImport(p)
  PROVE  RecipesImported'
<1> DEFINE label == IF p = Pod THEN "serve" ELSE "done"
<1>1. /\ recipes = {} /\ recipes' = OwnRecipes(p) /\ recipes' # {} /\ recipes' \in Corpora
  BY ImportIsTheFirst
<1>2. /\ Exit(p, label) /\ items' = items \cup work[p].items
      /\ UNCHANGED <<schema, image, stops, img, version>>
  BY DEF CommitImport
<1>3. /\ ImportAt(p) /\ Types /\ pc' = [pc EXCEPT ![p] = label] /\ pc'[p] = label
      /\ doc'[p] = 1 /\ work'[p] = NoWork /\ label \in {"serve", "done"}
  BY <1>2, Shape DEF Exit, Types
<1>4. Types' /\ Alone(p)
  BY <1>2, <1>3 DEF Types, Alone, Goto, Exit, Labels
<1>5. OwnRecipes(p)' = {} /\ Finished(p)' = 0
  BY <1>3 DEF OwnRecipes, NoWork, Finished
<1>6. ImportAt(p)'
  <2>1. {Imported(Documents(p)'[k]) : k \in 1..Finished(p)'} = {}
    BY <1>5
  <2>2. work'[p] = [recipes |-> {}, draft |-> {}, items |-> work'[p].items,
                    sections |-> work'[p].sections, known |-> work'[p].known]
    BY <1>3 DEF NoWork
  <2> QED
    BY <1>3, <1>5, <2>1, <2>2 DEF ImportAt, AtIngredient, Writing, Importing
<1>7. ItemsStored'
  BY <1>1, <1>2, <1>3 DEF ItemsStored, Ingredients, ImportAt, ItemRow, VisibleItems
<1>8. CorpusWhole'
  BY <1>1 DEF CorpusWhole, Corpora, Corpus
<1>9. recipes' = recipes \cup OwnRecipes(p) /\ items \subseteq items'
  BY <1>1, <1>2
<1> QED
  BY <1>1, <1>4, <1>5, <1>6, <1>7, <1>8, <1>9, Stepped

LEMMA RowsOfIngredient ==
  ASSUME RecipesImported, NEW p \in Proc,
         \/ GetStoreSectionByKey(p) \/ CreateStoreSection(p)
         \/ GetGroceryItemByKey(p) \/ CreateGroceryItem(p)
  PROVE  RecipesImported'
<1>0. /\ Types /\ DOMAIN work = Proc
      /\ work[p] = [recipes |-> work[p].recipes, draft |-> work[p].draft, items |-> work[p].items,
                    sections |-> work[p].sections, known |-> work[p].known]
  <2>1. Types /\ ImportAt(p)
    BY Shape
  <2>2. DOMAIN work = Proc
    BY <2>1 DEF Types
  <2>3. \E a, b : work[p] = [recipes |-> a, draft |-> b, items |-> work[p].items,
                            sections |-> work[p].sections, known |-> work[p].known]
    BY <2>1 DEF ImportAt
  <2> QED
    BY <2>1, <2>2, <2>3
<1>1. CASE Fail(p)
  BY <1>1, Exited DEF Fail, db, RecipesImported
<1>2. ASSUME NEW label \in {"newSection", "item", "newItem", "ingredient"}, Goto(p, label),
             pc[p] \in AtIngredient \ {"verify"},
             UNCHANGED <<recipes, items, image, img, doc, ing>>,
             \/ UNCHANGED work
             \/ \E s, k : work' = [work EXCEPT ![p].sections = s, ![p].known = k]
             \/ \E k : work' = [work EXCEPT ![p].known = k],
             label = "ingredient" => NewItem(p) \in VisibleItems(p)
      PROVE  RecipesImported'
  <2>1. DOMAIN work' = Proc /\ \A q \in Proc \ {p} : work'[q] = work[q]
    BY <1>0, <1>2
  <2>2. PICK s, k : work'[p] = [recipes |-> work[p].recipes, draft |-> work[p].draft,
                                items |-> work[p].items, sections |-> s, known |-> k]
    <3>1. CASE UNCHANGED work
      BY <1>0, <3>1
    <3>2. CASE \E s, k : work' = [work EXCEPT ![p].sections = s, ![p].known = k]
      <4>1. PICK s, k : work' = [work EXCEPT ![p].sections = s, ![p].known = k]
        BY <3>2
      <4>2. work'[p] = [work[p] EXCEPT !.sections = s, !.known = k]
        BY <1>0, <4>1
      <4> QED
        BY <1>0, <4>2
    <3>3. CASE \E k : work' = [work EXCEPT ![p].known = k]
      <4>1. PICK k : work' = [work EXCEPT ![p].known = k]
        BY <3>3
      <4>2. work'[p] = [work[p] EXCEPT !.known = k]
        BY <1>0, <4>1
      <4> QED
        BY <1>0, <4>2
    <3> QED
      BY <1>2, <3>1, <3>2, <3>3
  <2>3. label \in AtIngredient \ {"verify"}
    BY DEF AtIngredient
  <2>4. label = "ingredient" => NewItem(p) \in items \cup work[p].items
    BY <1>2 DEF VisibleItems
  <2>5. Between(p, label, work[p].items, s, k)
    BY <1>2, <2>1, <2>2, <2>3, <2>4 DEF Between
  <2> QED
    BY <2>5, Inside
<1>3. CASE GetStoreSectionByKey(p) /\ ~Fail(p)
  <2>1. pc[p] \in AtIngredient \ {"verify"}
    BY <1>3 DEF GetStoreSectionByKey, At, AtIngredient
  <2> QED
    BY <1>2, <1>3, <2>1 DEF GetStoreSectionByKey, db
<1>4. CASE CreateStoreSection(p) /\ ~Fail(p)
  <2>1. pc[p] \in AtIngredient \ {"verify"}
    BY <1>4 DEF CreateStoreSection, At, AtIngredient
  <2> QED
    BY <1>2, <1>4, <2>1 DEF CreateStoreSection, db
<1>5. CASE GetGroceryItemByKey(p) /\ ~Fail(p)
  <2> DEFINE found == {i \in VisibleItems(p) : i.key = Wanted(p).key}
             label == IF found = {} THEN "newItem" ELSE "ingredient"
  <2>1. /\ pc[p] \in AtIngredient \ {"verify"} /\ Goto(p, label)
        /\ found = {} \/ NewItem(p) \in found
        /\ UNCHANGED <<db, image, stops, img, version, doc, ing, work>>
    BY <1>5 DEF GetGroceryItemByKey, At, AtIngredient
  <2>2. label = "ingredient" => NewItem(p) \in VisibleItems(p)
    BY <2>1
  <2>3. label \in {"newSection", "item", "newItem", "ingredient"}
    OBVIOUS
  <2> HIDE DEF label
  <2> QED
    BY <1>2, <2>1, <2>2, <2>3 DEF db
<1>6. CASE CreateGroceryItem(p) /\ ~Fail(p)
  <2> DEFINE more == work[p].items \cup {NewItem(p)}
             sections2 == work[p].sections
             known2 == work[p].known
  <2>1. /\ pc[p] \in AtIngredient \ {"verify"} /\ Goto(p, "ingredient")
        /\ work' = [work EXCEPT ![p].items = @ \cup {NewItem(p)}]
        /\ UNCHANGED <<db, image, stops, img, version, doc, ing>>
    BY <1>6 DEF CreateGroceryItem, At, AtIngredient
  <2>2. DOMAIN work' = Proc /\ \A q \in Proc \ {p} : work'[q] = work[q]
    BY <1>0, <2>1
  <2>3. work'[p] = [recipes |-> work[p].recipes, draft |-> work[p].draft,
                    items |-> more, sections |-> sections2, known |-> known2]
    BY <1>0, <2>1
  <2>4. "ingredient" \in AtIngredient \ {"verify"}
    BY DEF AtIngredient
  <2>5. /\ work[p].items \subseteq more /\ NewItem(p) \in items \cup more
        /\ UNCHANGED <<recipes, items, doc, ing, image, img>>
    BY <2>1 DEF db
  <2> HIDE DEF more, sections2, known2
  <2>6. Between(p, "ingredient", more, sections2, known2)
    BY <2>1, <2>2, <2>3, <2>4, <2>5 DEF Between
  <2> QED
    BY <2>6, Inside
<1> QED
  BY <1>1, <1>3, <1>4, <1>5, <1>6
-----------------------------------------------------------------------------
(* The whole system.                                                       *)

LEMMA CommandStep ==
  ASSUME RecipesImported, NEW p \in Proc,
         \/ Start(p) \/ Migrate(p) \/ ApplyMigration(p) \/ CountRecipes(p) \/ Audit(p)
         \/ Serve(p) \/ BeginImport(p)
  PROVE  RecipesImported'
<1>0. /\ img \in [Proc -> Images] /\ image \in Images /\ Checkouts \subseteq Images
      /\ pc[p] = "begin" => Audited(Holds[img[p]])
      /\ pc[p] = "serve" /\ p = Pod => recipes # {}
  BY HoldsAssumption DEF RecipesImported, ImportAt, Importing
<1>1. CASE Fail(p)
  BY <1>0, <1>1, Exited DEF Fail, db
<1>2. ASSUME NEW label \in Labels \ Writing, Goto(p, label), pc[p] \notin Writing,
             label = "begin" => Audited(Holds[img[p]]),
             label \in {"serve", "serving"} => pc[p] = "serve" \/ recipes # {},
             UNCHANGED <<recipes, items, work, doc, ing, image, img>>
      PROVE  RecipesImported'
  BY <1>2, Outside
<1>3. CASE Start(p)
  <2>1. \E i \in Images : img' = [img EXCEPT ![p] = i]
    BY <1>0, <1>3 DEF Start
  <2>2. /\ pc[p] \notin Writing /\ Goto(p, "migrate") /\ "migrate" \in Labels \ Writing
        /\ "migrate" \notin Importing
        /\ UNCHANGED <<recipes, items, work, doc, ing, image>>
    BY <1>3 DEF Start, db, Writing, Importing, Labels
  <2> QED
    BY <2>1, <2>2, Outside
<1>4. CASE Migrate(p)
  <2> DEFINE label == IF schema < Latest THEN "apply" ELSE IF p = Pod THEN "count" ELSE "audit"
  <2>1. /\ Goto(p, label) /\ pc[p] = "migrate"
        /\ UNCHANGED <<recipes, items, work, doc, ing, image, img>>
    BY <1>4 DEF Migrate, At, db
  <2>2. label \in {"apply", "count", "audit"}
    OBVIOUS
  <2> HIDE DEF label
  <2> QED
    BY <1>2, <2>1, <2>2 DEF Labels, Importing, Writing
<1>5. CASE ApplyMigration(p) /\ ~Fail(p)
  <2>1. /\ Goto(p, "migrate") /\ pc[p] = "apply"
        /\ UNCHANGED <<recipes, items, work, doc, ing, image, img>>
    BY <1>5 DEF ApplyMigration, At
  <2> QED
    BY <1>2, <2>1 DEF Labels, Importing, Writing
<1>6. CASE CountRecipes(p)
  <2> DEFINE label == IF recipes # {} THEN "serve" ELSE "audit"
  <2>1. /\ Goto(p, label) /\ pc[p] = "count"
        /\ UNCHANGED <<recipes, items, work, doc, ing, image, img>>
    BY <1>6 DEF CountRecipes, At, db
  <2>2. label \in {"serve", "audit"} /\ (label = "serve" => recipes # {})
    OBVIOUS
  <2> HIDE DEF label
  <2> QED
    BY <1>2, <2>1, <2>2 DEF Labels, Importing, Writing
<1>7. CASE Audit(p) /\ ~Fail(p)
  <2>1. /\ Goto(p, "begin") /\ pc[p] = "audit" /\ Audited(Holds[img[p]])
        /\ UNCHANGED <<recipes, items, work, doc, ing, image, img>>
    BY <1>7 DEF Audit, At, db
  <2> QED
    BY <1>2, <2>1 DEF Labels, Importing, Writing
<1>8. CASE Serve(p)
  <2>1. /\ Goto(p, "serving") /\ pc[p] = "serve"
        /\ UNCHANGED <<recipes, items, work, doc, ing, image, img>>
    BY <1>8 DEF Serve, At, db
  <2> QED
    BY <1>2, <2>1 DEF Labels, Importing, Writing
<1>9. CASE BeginImport(p) /\ ~Fail(p)
  <2>1. /\ Goto(p, "recipe") /\ pc[p] = "begin"
        /\ UNCHANGED <<db, image, stops, img, version, doc, ing, work>>
    BY <1>9 DEF BeginImport, At
  <2>2. ImportAt(p) /\ Types /\ pc' = [pc EXCEPT ![p] = "recipe"] /\ pc'[p] = "recipe"
    BY <2>1, Shape
  <2>3. Types' /\ Alone(p)
    BY <2>1, <2>2 DEF Types, Alone, Labels, Importing, Writing
  <2>4. OwnRecipes(p)' = OwnRecipes(p) /\ VisibleItems(p)' = VisibleItems(p)
    BY <2>1 DEF OwnRecipes, VisibleItems, db
  <2>5. /\ Documents(p)' = Documents(p) /\ Finished(p)' = Finished(p)
        /\ 1 \in 1..Len(Documents(p))
    <3>1. img[p] \in Images /\ Audited(Holds[img[p]])
      BY <1>0, <2>1
    <3>2. Len(Documents(p)) \in Nat \ {0}
      BY <3>1, AuditedDocuments DEF Documents
    <3> QED
      BY <2>1, <2>2, <3>2 DEF Documents, Finished
  <2>6. ImportAt(p)'
    <3>1. /\ work'[p] = work[p] /\ doc'[p] = 1 /\ doc[p] = 1 /\ img'[p] = img[p]
      BY <2>1, <2>2 DEF ImportAt, Writing
    <3>2. work[p] = [recipes |-> {Imported(Documents(p)[k]) : k \in 1..Finished(p)},
                     draft |-> {}, items |-> work[p].items, sections |-> work[p].sections,
                     known |-> work[p].known]
      BY <2>1, <2>2 DEF ImportAt, AtIngredient
    <3> QED
      BY <1>0, <2>1, <2>2, <2>4, <2>5, <3>1, <3>2 DEF ImportAt, AtIngredient, Writing, Importing
  <2>7. \A r \in OwnRecipes(p)' : Fresh(p, r)
    BY <2>4 DEF Fresh
  <2>8. pc'[Pod] \in {"serve", "serving"} => pc[Pod] \in {"serve", "serving"} \/ recipes # {}
    BY <2>2 DEF Types
  <2> QED
    BY <2>1, <2>3, <2>6, <2>7, <2>8, Moved DEF db
<1> QED
  BY <1>1, <1>3, <1>4, <1>5, <1>6, <1>7, <1>8, <1>9

LEMMA NextImports == RecipesImported /\ [Next]_vars => RecipesImported'
<1> SUFFICES ASSUME RecipesImported, [Next]_vars PROVE RecipesImported'
  OBVIOUS
<1>0. image \in Images /\ Checkouts \subseteq Images /\ Pod \in Proc
  BY HoldsAssumption DEF RecipesImported, Proc
<1>1. ASSUME NEW p \in Proc, DeadlockVictim(p) \/ Interrupt(p)
      PROVE  RecipesImported'
  BY <1>0, <1>1, Exited DEF DeadlockVictim, Interrupt, Fail, db
<1>2. ASSUME NEW p \in Proc, Start(p) \/ Step(p)
      PROVE  RecipesImported'
  BY <1>1, <1>2, CommandStep, RecipeInserted, RowsOfIngredient, IngredientInserted, RecipeFinished,
     ImportCommitted DEF Step
<1>3. CASE StopPod
  BY <1>0, <1>3, Exited DEF StopPod, db
<1>4. CASE UNCHANGED vars
  <2>1. ASSUME NEW p \in Proc
        PROVE  ImportAt(p)'
    <3>1. /\ Documents(p)' = Documents(p) /\ Document(p)' = Document(p)
          /\ Finished(p)' = Finished(p) /\ Taken(p)' = Taken(p) /\ NewItem(p)' = NewItem(p)
          /\ VisibleItems(p)' = VisibleItems(p) /\ OwnRecipes(p)' = OwnRecipes(p)
      BY <1>4 DEF vars, Documents, Document, Finished, Taken, NewItem, Wanted, Ingredient,
                  VisibleItems, OwnRecipes
    <3>2. ImportAt(p)
      BY DEF RecipesImported
    <3> QED
      BY <1>4, <3>1, <3>2 DEF vars, ImportAt
  <2>2. Apart'
    BY <1>4 DEF vars, RecipesImported, Apart, OwnRecipes
  <2> QED
    BY <1>4, <2>1, <2>2 DEF vars, RecipesImported, CorpusWhole, ItemsStored
<1> QED
  BY <1>1, <1>2, <1>3, <1>4 DEF Next

LEMMA InitImports == Init => RecipesImported
<1> SUFFICES ASSUME Init PROVE RecipesImported
  OBVIOUS
<1>1. ASSUME NEW p \in Proc
      PROVE  ImportAt(p) /\ OwnRecipes(p) = {}
  <2>1. /\ pc[p] = "down" /\ doc[p] = 1 /\ work[p] = NoWork
    BY DEF Init
  <2>2. OwnRecipes(p) = {} /\ Finished(p) = 0
    BY <2>1 DEF OwnRecipes, NoWork, Finished
  <2>3. {Imported(Documents(p)[k]) : k \in 1..Finished(p)} = {}
    BY <2>2
  <2>4. work[p] = [recipes |-> {}, draft |-> {}, items |-> work[p].items,
                   sections |-> work[p].sections, known |-> work[p].known]
    BY <2>1 DEF NoWork
  <2> QED
    BY <2>1, <2>2, <2>3, <2>4 DEF ImportAt, AtIngredient, Writing, Importing
<1>2. Pod \in Proc /\ pc[Pod] = "down"
  BY DEF Init, Proc
<1>3. /\ pc \in [Proc -> Labels] /\ img \in [Proc -> Images] /\ image \in Images
      /\ doc \in [Proc -> Nat] /\ ing \in [Proc -> Nat] /\ DOMAIN work = Proc
      /\ recipes = {}
  BY DEF Init, Labels
<1> QED
  BY <1>1, <1>2, <1>3 DEF RecipesImported, Apart, CorpusWhole, ItemsStored, Ingredients

-----------------------------------------------------------------------------
(* The names of sections.                                                  *)

LEMMA NamedMore ==
  ASSUME NEW gs, NEW g, NEW before, NEW after, before \subseteq after, Named(gs, before),
         (\E h \in gs : h.item.section.key = g.item.section.key) \/ g.item.section \in after
  PROVE  Named(gs, after) /\ Named(gs \cup {g}, after)
<1>1. Named(gs, after)
  BY DEF Named
<1>2. \E h \in gs \cup {g} : h.item.section.key = g.item.section.key /\ h.item.section \in after
  BY <1>1 DEF Named
<1> QED
  BY <1>1, <1>2 DEF Named

LEMMA WorkShape ==
  ASSUME RecipesImported, NEW p \in Proc
  PROVE  /\ DOMAIN work = Proc /\ pc \in [Proc -> Labels]
         /\ work[p] = [recipes |-> work[p].recipes, draft |-> work[p].draft,
                       items |-> work[p].items, sections |-> work[p].sections,
                       known |-> work[p].known]
<1>1. Types /\ ImportAt(p)
  BY Shape
<1>2. \E a, b : work[p] = [recipes |-> a, draft |-> b, items |-> work[p].items,
                          sections |-> work[p].sections, known |-> work[p].known]
  BY <1>1 DEF ImportAt
<1> QED
  BY <1>1, <1>2 DEF Types

(* p's step changes nothing of the other imports, and takes no section     *)
(* away.                                                                   *)
LEMMA OthersMet ==
  ASSUME SectionsNamed, NEW p \in Proc, Alone(p), sections \subseteq sections',
         SectionsMet(p)', Named(Ingredients(recipes), sections)'
  PROVE  SectionsNamed'
<1> SUFFICES ASSUME NEW q \in Proc \ {p} PROVE SectionsMet(q)'
  BY DEF SectionsNamed
<1>1. Seen(q)' = Seen(q) /\ work'[q] = work[q]
  BY DEF Alone, Seen, OwnRecipes, Ingredient, Document, Documents
<1>2. VisibleSections(q) \subseteq VisibleSections(q)'
  BY <1>1 DEF VisibleSections
<1>3. SectionsMet(q)
  BY DEF SectionsNamed
<1> HIDE DEF Seen, VisibleSections
<1> QED
  BY <1>1, <1>2, <1>3 DEF SectionsMet, Named

(* A step that commits no recipe.                                          *)
LEMMA StillNamed ==
  ASSUME SectionsNamed, NEW p \in Proc, Alone(p), recipes' = recipes,
         sections \subseteq sections', SectionsMet(p)'
  PROVE  SectionsNamed'
<1>1. Named(Ingredients(recipes), sections)'
  BY DEF SectionsNamed, Named
<1> QED
  BY <1>1, OthersMet

LEMMA ExitedMet ==
  ASSUME RecipesImported, NEW p \in Proc, Exit(p, "failed") \/ Exit(p, "down")
                                            \/ Exit(p, "serve") \/ Exit(p, "done")
  PROVE  SectionsMet(p)' /\ (img' = img => Alone(p))
<1>1. /\ work' = [work EXCEPT ![p] = NoWork] /\ work'[p] = NoWork
      /\ pc'[p] \in {"failed", "down", "serve", "done"}
  BY WorkShape DEF Exit, Goto
<1>2. OwnRecipes(p)' = {}
  BY <1>1 DEF OwnRecipes, NoWork
<1>3. Seen(p)' = {}
  BY <1>1, <1>2 DEF Seen, Ingredients
<1>4. img' = img => Alone(p)
  <2>1. Types
    BY Shape
  <2> QED
    BY <2>1 DEF Exit, Goto, Alone, Types
<1> QED
  BY <1>1, <1>3, <1>4 DEF SectionsMet, Named, NoWork

LEMMA FailedNamed ==
  ASSUME RecipesImported, SectionsNamed, NEW p \in Proc, Fail(p)
  PROVE  SectionsNamed'
  BY ExitedMet, StillNamed DEF Fail, db

(* p has met no more ingredients.                                          *)
LEMMA SameMet ==
  ASSUME SectionsNamed, NEW p \in Proc, Seen(p)' = Seen(p), Alone(p), recipes' = recipes,
         sections \subseteq sections', work'[p].sections = work[p].sections,
         work'[p].known = work[p].known
  PROVE  SectionsNamed'
<1>1. VisibleSections(p) \subseteq VisibleSections(p)'
  BY DEF VisibleSections
<1>2. SectionsMet(p)
  BY DEF SectionsNamed
<1> HIDE DEF Seen
<1>3. SectionsMet(p)'
  BY <1>1, <1>2 DEF SectionsMet, Named
<1> QED
  BY <1>3, StillNamed

LEMMA CommandsNamed ==
  ASSUME RecipesImported, SectionsNamed, NEW p \in Proc,
         \/ Start(p) \/ Migrate(p) \/ ApplyMigration(p) \/ CountRecipes(p) \/ Audit(p)
         \/ Serve(p) \/ BeginImport(p)
  PROVE  SectionsNamed'
<1>1. CASE Fail(p)
  BY <1>1, FailedNamed
<1>2. CASE ~Fail(p)
  <2>1. /\ UNCHANGED <<work, doc, ing, recipes>> /\ sections \subseteq sections'
        /\ pc[p] \notin {"item", "newItem", "ingredient"}
        /\ pc'[p] \notin {"item", "newItem", "ingredient"}
        /\ \A q \in Proc \ {p} : pc'[q] = pc[q] /\ img'[q] = img[q]
    <3>0. pc \in [Proc -> Labels] /\ img \in [Proc -> Images]
      BY Shape DEF Types
    <3>1. CASE Start(p)
      BY <3>0, <3>1 DEF Start, Goto, db
    <3>2. CASE Migrate(p)
      BY <3>0, <3>2 DEF Migrate, At, Goto, db
    <3>3. CASE CountRecipes(p) \/ Serve(p)
      BY <3>0, <3>3 DEF CountRecipes, Serve, At, Goto, db
    <3>4. CASE ApplyMigration(p)
      BY <1>2, <3>0, <3>4 DEF ApplyMigration, At, Goto
    <3>5. CASE Audit(p) \/ BeginImport(p)
      BY <1>2, <3>0, <3>5 DEF Audit, BeginImport, At, Goto, db
    <3> QED
      BY <3>1, <3>2, <3>3, <3>4, <3>5
  <2>2. Seen(p)' = Seen(p) /\ Alone(p)
    BY <2>1 DEF Seen, OwnRecipes, Alone
  <2> QED
    BY <2>1, <2>2, SameMet
<1> QED
  BY <1>1, <1>2

(* The row of a document has the ingredients that have been inserted.      *)
LEMMA DocumentsNamed ==
  ASSUME RecipesImported, SectionsNamed, NEW p \in Proc,
         InsertRecipe(p) \/ InsertIngredient(p) \/ FinishRecipe(p)
  PROVE  SectionsNamed'
<1> DEFINE d == Document(p)
           n == ing[p]
<1>0. /\ ImportAt(p) /\ Types /\ DOMAIN work = Proc /\ pc \in [Proc -> Labels]
      /\ work[p] = [recipes |-> work[p].recipes, draft |-> work[p].draft,
                    items |-> work[p].items, sections |-> work[p].sections,
                    known |-> work[p].known]
  BY Shape, WorkShape
<1>1. CASE Fail(p)
  BY <1>1, FailedNamed
<1>2. ASSUME NEW label \in {"section", "verify", "recipe", "commit"}, Goto(p, label),
             UNCHANGED <<recipes, sections, img>>,
             \A q \in Proc \ {p} :
               work'[q] = work[q] /\ doc'[q] = doc[q] /\ ing'[q] = ing[q],
             work'[p].sections = work[p].sections, work'[p].known = work[p].known,
             Seen(p) = Ingredients(OwnRecipes(p)')
      PROVE  SectionsNamed'
  <2>1. pc'[p] = label /\ Alone(p)
    BY <1>0, <1>2 DEF Goto, Alone
  <2>2. Seen(p)' = Seen(p)
    BY <1>2, <2>1 DEF Seen
  <2> QED
    BY <1>2, <2>1, <2>2, SameMet
<1>3. CASE InsertRecipe(p) /\ ~Fail(p)
  <2>1. /\ pc[p] = "recipe"
        /\ work' = [work EXCEPT ![p].draft = {CreateRecipeSource(CreateDraftRecipe(d))}]
        /\ ing' = [ing EXCEPT ![p] = 1] /\ Goto(p, "section")
        /\ UNCHANGED <<db, image, stops, img, version, doc>>
    BY <1>3 DEF InsertRecipe, At
  <2>2. work'[p] = [work[p] EXCEPT !.draft = {Partial(d, 0)}]
    BY <1>0, <2>1, FirstPartial
  <2>3. work[p].draft = {}
    BY <1>0, <2>1 DEF ImportAt, AtIngredient
  <2> HIDE DEF d
  <2>4. /\ OwnRecipes(p) = work[p].recipes /\ OwnRecipes(p)' = work[p].recipes \cup {Partial(d, 0)}
        /\ work'[p].sections = work[p].sections /\ work'[p].known = work[p].known
    BY <1>0, <2>2, <2>3 DEF OwnRecipes
  <2>5. Elements(Partial(d, 0).ingredients) = {}
    <3>1. 1..0 = {}
      OBVIOUS
    <3> QED
      BY <3>1, PartialElements
  <2>6. Seen(p) = Ingredients(OwnRecipes(p)')
    BY <2>1, <2>4, <2>5 DEF Seen, Ingredients
  <2> QED
    BY <1>0, <1>2, <2>1, <2>4, <2>6 DEF db
<1>4. CASE InsertIngredient(p) /\ ~Fail(p)
  <2>1. /\ pc[p] = "ingredient"
        /\ work' = [work EXCEPT ![p].draft = {CreateRecipeIngredient(r, Ingredient(p)) : r \in @}]
        /\ ing' = IF n = Len(d.ingredients) THEN ing ELSE [ing EXCEPT ![p] = @ + 1]
        /\ Goto(p, "verify") \/ Goto(p, "section")
        /\ UNCHANGED <<db, image, stops, img, version, doc>>
    BY <1>4 DEF InsertIngredient, At
  <2>2. /\ n \in Nat /\ n - 1 \in Nat /\ n \in 1..Len(d.ingredients)
        /\ d.ingredients \in Seq(Elements(d.ingredients)) /\ Len(d.ingredients) \in Nat
    <3>1. pc[p] \in Writing /\ n \in 1..Len(d.ingredients)
      BY <1>0, <2>1 DEF ImportAt, AtIngredient, Writing
    <3> QED
      BY <3>1, CurrentDocument
  <2>3. work[p].draft = {Partial(d, n - 1)}
    BY <1>0, <2>1 DEF ImportAt, AtIngredient, Taken
  <2>4. work'[p] = [work[p] EXCEPT !.draft = {Partial(d, n)}]
    <3>1. CreateRecipeIngredient(Partial(d, n - 1), Ingredient(p)) = Partial(d, n)
      BY <2>2, NextPartial DEF Ingredient
    <3>2. {CreateRecipeIngredient(r, Ingredient(p)) : r \in work[p].draft} = {Partial(d, n)}
      BY <2>3, <3>1
    <3> QED
      BY <1>0, <2>1, <3>2
  <2>5. Ingredient(p) = d.ingredients[n]
    BY DEF Ingredient
  <2>6. /\ Elements(Partial(d, n).ingredients) = {d.ingredients[k] : k \in 1..n}
        /\ Elements(Partial(d, n - 1).ingredients) = {d.ingredients[k] : k \in 1..(n - 1)}
    BY PartialElements
  <2>7. Elements(Partial(d, n).ingredients)
        = Elements(Partial(d, n - 1).ingredients) \cup {Ingredient(p)}
    <3>1. \A k \in 1..n : k \in 1..(n - 1) \/ k = n
      BY <2>2
    <3>2. n \in 1..n /\ \A k \in 1..(n - 1) : k \in 1..n
      BY <2>2
    <3> HIDE DEF d, n
    <3> QED
      BY <2>5, <2>6, <3>1, <3>2
  <2> HIDE DEF d, n
  <2>8. /\ OwnRecipes(p) = work[p].recipes \cup {Partial(d, n - 1)}
        /\ OwnRecipes(p)' = work[p].recipes \cup {Partial(d, n)}
        /\ work'[p].sections = work[p].sections /\ work'[p].known = work[p].known
    BY <1>0, <2>3, <2>4 DEF OwnRecipes
  <2>9. Seen(p) = Ingredients(OwnRecipes(p)')
    BY <2>1, <2>7, <2>8 DEF Seen, Ingredients
  <2>10. \A q \in Proc \ {p} : work'[q] = work[q] /\ doc'[q] = doc[q] /\ ing'[q] = ing[q]
    BY <1>0, <2>1 DEF Types
  <2> QED
    BY <1>2, <2>1, <2>8, <2>9, <2>10 DEF db
<1>5. CASE FinishRecipe(p) /\ ~Fail(p)
  <2>1. /\ pc[p] = "verify"
        /\ work' = [work EXCEPT
             ![p].recipes = @ \cup {VerifyRecipe(r) : r \in {Reviewed(r, d) : r \in work[p].draft}},
             ![p].draft = {}]
        /\ doc' = IF doc[p] = Len(Documents(p)) THEN doc ELSE [doc EXCEPT ![p] = @ + 1]
        /\ Goto(p, "commit") \/ Goto(p, "recipe")
        /\ UNCHANGED <<db, image, stops, img, version, ing>>
    BY <1>5 DEF FinishRecipe, At
  <2>2. d.ingredients \in Seq(Elements(d.ingredients)) /\ n = Len(d.ingredients)
    <3>1. pc[p] \in Writing
      BY <2>1 DEF Writing
    <3> QED
      BY <1>0, <2>1, <3>1, CurrentDocument DEF ImportAt
  <2>3. work[p].draft = {Partial(d, n)}
    BY <1>0, <2>1 DEF ImportAt, AtIngredient, Taken
  <2>4. work'[p] = [work[p] EXCEPT !.recipes = work[p].recipes \cup {Imported(d)}, !.draft = {}]
    <3>1. VerifyRecipe(Reviewed(Partial(d, n), d)) = Imported(d)
      BY <2>2, LastPartial
    <3>2. {VerifyRecipe(r) : r \in {Reviewed(r, d) : r \in work[p].draft}} = {Imported(d)}
      BY <2>3, <3>1
    <3> QED
      BY <1>0, <2>1, <3>2
  <2>5. Elements(Partial(d, n).ingredients) = Elements(Imported(d).ingredients)
    <3>1. Elements(d.ingredients) = {d.ingredients[k] : k \in 1..n}
      BY <2>2 DEF Elements
    <3>2. Elements(Partial(d, n).ingredients) = {d.ingredients[k] : k \in 1..n}
      BY PartialElements
    <3> QED
      BY <3>1, <3>2, RowIngredients
  <2> HIDE DEF d, n
  <2>6. /\ OwnRecipes(p) = work[p].recipes \cup {Partial(d, n)}
        /\ OwnRecipes(p)' = work[p].recipes \cup {Imported(d)}
        /\ work'[p].sections = work[p].sections /\ work'[p].known = work[p].known
    BY <1>0, <2>3, <2>4 DEF OwnRecipes
  <2>7. Seen(p) = Ingredients(OwnRecipes(p)')
    BY <2>1, <2>5, <2>6 DEF Seen, Ingredients
  <2>8. \A q \in Proc \ {p} : work'[q] = work[q] /\ doc'[q] = doc[q] /\ ing'[q] = ing[q]
    BY <1>0, <2>1 DEF Types
  <2> QED
    BY <1>2, <2>1, <2>6, <2>7, <2>8 DEF db
<1> QED
  BY <1>1, <1>3, <1>4, <1>5

(* A section is looked up before the import has met its ingredient, and    *)
(* then it is known or its name is the stored one.                         *)
LEMMA LookedUp ==
  ASSUME RecipesImported, SectionsNamed, NEW p \in Proc, pc[p] \in {"section", "newSection"},
         Goto(p, "item"), UNCHANGED <<recipes, sections, img, doc, ing>>,
         \A q \in Proc \ {p} : work'[q] = work[q],
         work'[p].recipes = work[p].recipes, work'[p].draft = work[p].draft,
         work'[p].known = work[p].known \cup {Wanted(p).section.key},
         VisibleSections(p) \subseteq VisibleSections(p)',
         Wanted(p).section.key \in work[p].known \/ Wanted(p).section \in VisibleSections(p)'
  PROVE  SectionsNamed'
<1> DEFINE g == Ingredient(p)
           gs == Ingredients(OwnRecipes(p))
<1>1. pc'[p] = "item" /\ Alone(p)
  BY WorkShape DEF Goto, Alone
<1>2. Wanted(p) = g.item
  BY DEF Wanted
<1>3. Seen(p) = gs /\ Seen(p)' = gs \cup {g}
  BY <1>1 DEF Seen, OwnRecipes, Ingredient, Document, Documents
<1>4. work[p].known = {h.item.section.key : h \in gs} /\ Named(gs, VisibleSections(p))
  BY <1>3 DEF SectionsNamed, SectionsMet
<1>5. (\E h \in gs : h.item.section.key = g.item.section.key)
        \/ g.item.section \in VisibleSections(p)'
  BY <1>2, <1>4
<1> HIDE DEF g, gs
<1>6. Named(gs \cup {g}, VisibleSections(p)')
  BY <1>4, <1>5, NamedMore
<1>7. work'[p].known = {h.item.section.key : h \in gs \cup {g}}
  BY <1>2, <1>4
<1>8. SectionsMet(p)'
  BY <1>3, <1>6, <1>7 DEF SectionsMet
<1> QED
  BY <1>1, <1>8, StillNamed

LEMMA RowsNamed ==
  ASSUME RecipesImported, SectionsNamed, NEW p \in Proc,
         \/ GetStoreSectionByKey(p) \/ CreateStoreSection(p)
         \/ GetGroceryItemByKey(p) \/ CreateGroceryItem(p)
  PROVE  SectionsNamed'
<1> DEFINE wanted == Wanted(p).section
<1>0. /\ DOMAIN work = Proc /\ pc \in [Proc -> Labels]
      /\ work[p] = [recipes |-> work[p].recipes, draft |-> work[p].draft,
                    items |-> work[p].items, sections |-> work[p].sections,
                    known |-> work[p].known]
  BY WorkShape
<1>1. CASE Fail(p)
  BY <1>1, FailedNamed
<1>2. CASE GetStoreSectionByKey(p) /\ ~Fail(p)
  <2>1. /\ pc[p] = "section" /\ UNCHANGED <<db, image, stops, img, version, doc, ing>>
        /\ \/ Goto(p, "newSection") /\ UNCHANGED work
           \/ wanted.key \in work[p].known /\ Goto(p, "item") /\ UNCHANGED work
           \/ /\ wanted \in VisibleSections(p) /\ Goto(p, "item")
              /\ work' = [work EXCEPT ![p].known = @ \cup {wanted.key}]
    BY <1>2 DEF GetStoreSectionByKey, At
  <2>2. CASE Goto(p, "newSection") /\ UNCHANGED work
    <3>1. pc'[p] = "newSection" /\ Alone(p)
      BY <1>0, <2>1, <2>2 DEF Goto, Alone
    <3>2. Seen(p)' = Seen(p)
      BY <2>1, <2>2, <3>1 DEF Seen, OwnRecipes
    <3> QED
      BY <2>1, <2>2, <3>1, <3>2, SameMet DEF db
  <2>3. CASE wanted.key \in work[p].known /\ Goto(p, "item") /\ UNCHANGED work
    <3>1. VisibleSections(p)' = VisibleSections(p)
      BY <2>1, <2>3 DEF VisibleSections, db
    <3> QED
      BY <2>1, <2>3, <3>1, LookedUp DEF db
  <2>4. CASE /\ wanted \in VisibleSections(p) /\ Goto(p, "item")
             /\ work' = [work EXCEPT ![p].known = @ \cup {wanted.key}]
    <3>1. work'[p] = [work[p] EXCEPT !.known = work[p].known \cup {wanted.key}]
      BY <1>0, <2>4
    <3> HIDE DEF wanted
    <3>2. /\ work'[p].recipes = work[p].recipes /\ work'[p].draft = work[p].draft
          /\ work'[p].known = work[p].known \cup {wanted.key}
          /\ work'[p].sections = work[p].sections
          /\ \A q \in Proc \ {p} : work'[q] = work[q]
      BY <1>0, <2>4, <3>1
    <3>3. VisibleSections(p)' = VisibleSections(p)
      BY <2>1, <3>2 DEF VisibleSections, db
    <3> QED
      BY <2>1, <2>4, <3>2, <3>3, LookedUp DEF db, wanted
  <2> QED
    BY <2>1, <2>2, <2>3, <2>4
<1>3. CASE CreateStoreSection(p) /\ ~Fail(p)
  <2>1. /\ pc[p] = "newSection" /\ Goto(p, "item")
        /\ work' = [work EXCEPT ![p].sections = @ \cup {wanted}, ![p].known = @ \cup {wanted.key}]
        /\ UNCHANGED <<db, image, stops, img, version, doc, ing>>
    BY <1>3 DEF CreateStoreSection, At
  <2>2. work'[p] = [work[p] EXCEPT !.sections = work[p].sections \cup {wanted},
                                   !.known = work[p].known \cup {wanted.key}]
    BY <1>0, <2>1
  <2> HIDE DEF wanted
  <2>3. /\ work'[p].recipes = work[p].recipes /\ work'[p].draft = work[p].draft
        /\ work'[p].known = work[p].known \cup {wanted.key}
        /\ work'[p].sections = work[p].sections \cup {wanted}
        /\ \A q \in Proc \ {p} : work'[q] = work[q]
    BY <1>0, <2>1, <2>2
  <2>4. VisibleSections(p)' = VisibleSections(p) \cup {wanted}
    BY <2>1, <2>3 DEF VisibleSections, db
  <2> QED
    BY <2>1, <2>3, <2>4, LookedUp DEF db, wanted
<1>4. CASE (GetGroceryItemByKey(p) \/ CreateGroceryItem(p)) /\ ~Fail(p)
  <2>1. /\ pc[p] \in {"item", "newItem"}
        /\ Goto(p, "newItem") \/ Goto(p, "ingredient")
        /\ UNCHANGED <<db, image, stops, img, version, doc, ing>>
        /\ UNCHANGED work \/ work' = [work EXCEPT ![p].items = @ \cup {NewItem(p)}]
    BY <1>4 DEF GetGroceryItemByKey, CreateGroceryItem, At
  <2>2. /\ work'[p].recipes = work[p].recipes /\ work'[p].draft = work[p].draft
        /\ work'[p].known = work[p].known /\ work'[p].sections = work[p].sections
        /\ \A q \in Proc \ {p} : work'[q] = work[q]
    <3>1. CASE UNCHANGED work
      BY <3>1
    <3>2. CASE work' = [work EXCEPT ![p].items = @ \cup {NewItem(p)}]
      <4>1. work'[p] = [work[p] EXCEPT !.items = work[p].items \cup {NewItem(p)}]
        BY <1>0, <3>2
      <4> QED
        BY <1>0, <3>2, <4>1
    <3> QED
      BY <2>1, <3>1, <3>2
  <2>3. pc'[p] \in {"newItem", "ingredient"} /\ Alone(p)
    BY <1>0, <2>1, <2>2 DEF Goto, Alone
  <2>4. Seen(p)' = Seen(p)
    BY <2>1, <2>2, <2>3 DEF Seen, OwnRecipes, Ingredient, Document, Documents
  <2> QED
    BY <2>1, <2>2, <2>3, <2>4, SameMet DEF db
<1> QED
  BY <1>1, <1>2, <1>3, <1>4

(* The first import to commit brings its sections with its recipes.        *)
LEMMA CommittedNamed ==
  ASSUME RecipesImported, SectionsNamed, NEW p \in Proc, CommitImport(p)
  PROVE  SectionsNamed'
<1>1. /\ pc[p] = "commit" /\ sections' = sections \cup work[p].sections /\ UNCHANGED img
      /\ Exit(p, "serve") \/ Exit(p, "done")
  BY DEF CommitImport, At
<1>2. recipes' = OwnRecipes(p)
  BY ImportIsTheFirst
<1>3. Seen(p) = Ingredients(OwnRecipes(p)) /\ sections' = VisibleSections(p)
  BY <1>1 DEF Seen, VisibleSections
<1>4. Named(Seen(p), VisibleSections(p))
  BY DEF SectionsNamed, SectionsMet
<1>5. Named(Ingredients(recipes), sections)'
  BY <1>2, <1>3, <1>4
<1> QED
  BY <1>1, <1>5, ExitedMet, OthersMet

LEMMA NextNamed == RecipesImported /\ SectionsNamed /\ [Next]_vars => SectionsNamed'
<1> SUFFICES ASSUME RecipesImported, SectionsNamed, [Next]_vars PROVE SectionsNamed'
  OBVIOUS
<1>1. ASSUME NEW p \in Proc, Start(p) \/ Step(p) \/ Interrupt(p)
      PROVE  SectionsNamed'
  BY <1>1, CommandsNamed, DocumentsNamed, RowsNamed, CommittedNamed, FailedNamed
     DEF Step, DeadlockVictim, Interrupt
<1>2. CASE StopPod
  <2>1. Pod \in Proc /\ Exit(Pod, "down") /\ UNCHANGED <<recipes, sections, img>>
    BY <1>2 DEF StopPod, db, Proc
  <2> QED
    BY <2>1, ExitedMet, StillNamed
<1>3. CASE UNCHANGED vars
  <2>1. \A p \in Proc : Alone(p) /\ Seen(p)' = Seen(p)
    BY <1>3 DEF vars, Alone, Seen, OwnRecipes, Ingredient, Document, Documents
  <2>2. Pod \in Proc /\ UNCHANGED <<recipes, sections, work>>
    BY <1>3 DEF vars, Proc
  <2> QED
    BY <2>1, <2>2, SameMet
<1> QED
  BY <1>1, <1>2, <1>3 DEF Next

LEMMA InitNamed == Init => SectionsNamed
<1> SUFFICES ASSUME Init PROVE SectionsNamed
  OBVIOUS
<1>1. \A p \in Proc : Seen(p) = {} /\ work[p].known = {}
  BY DEF Init, Seen, OwnRecipes, NoWork, Ingredients
<1>2. Ingredients(recipes) = {}
  BY DEF Init, Ingredients
<1> QED
  BY <1>1, <1>2 DEF SectionsNamed, SectionsMet, Named

(* What an import has written, document for document, that no other import *)
(* has written the like, and that every section it has met is there with   *)
(* the name one of its ingredients gives it, at any statement of any       *)
(* interleaving.                                                           *)
THEOREM ImportInvariantHolds == Spec => []ImportInvariant
<1>1. Init => ImportInvariant
  BY InitImports, InitNamed DEF ImportInvariant
<1>2. ImportInvariant /\ [Next]_vars => ImportInvariant'
  BY NextImports, NextNamed DEF ImportInvariant
<1> QED
  BY <1>1, <1>2, PTL DEF Spec

LEMMA RecipesImportedHolds == Spec => []RecipesImported
<1>1. ImportInvariant => RecipesImported
  BY DEF ImportInvariant
<1> QED
  BY <1>1, ImportInvariantHolds, PTL

(* The database holds no recipe or a whole corpus, wherever the pod or an  *)
(* operator's import was stopped.                                          *)
THEOREM CorpusIsWhole == Spec => []CorpusWhole
<1>1. ImportInvariant => CorpusWhole
  BY DEF ImportInvariant, RecipesImported
<1> QED
  BY <1>1, ImportInvariantHolds, PTL

(* The pod answers requests only when there are recipes to plan with.      *)
THEOREM PodServesCorpus == Spec => []ServesCorpus
<1>1. ImportInvariant => ServesCorpus
  BY DEF ImportInvariant, RecipesImported, ServesCorpus
<1> QED
  BY <1>1, ImportInvariantHolds, PTL

(* Every ingredient's item is in the database with the key, the name, the  *)
(* section's key and the mode its own document approved, and the section   *)
(* with the name that this or another document of the corpus gave it.      *)
THEOREM ItemsAlwaysAgree == Spec => []ItemsAgree
<1>1. ImportInvariant => ItemsAgree
  BY DEF ImportInvariant, RecipesImported, SectionsNamed, ItemsAgree
<1> QED
  BY <1>1, ImportInvariantHolds, PTL

(* The statements of every process together implement the one step of      *)
(* CorpusOnce: nothing, then one corpus, then no change.                   *)
THEOREM CorpusLoadsOnce == Spec => LoadsOnce
<1>1. Init => Once!Init
  BY DEF Init, Once!Init
<1>2. RecipesImported /\ [Next]_vars => [Once!Load]_recipes
  <2> SUFFICES ASSUME RecipesImported, [Next]_vars, recipes' # recipes
               PROVE  Once!Load
    OBVIOUS
  <2>1. PICK p \in Proc : CommitImport(p)
    <3>1. ASSUME NEW q \in Proc, Start(q) \/ Interrupt(q) \/ DeadlockVictim(q)
                   \/ Migrate(q) \/ ApplyMigration(q) \/ CountRecipes(q) \/ Audit(q) \/ Serve(q)
          PROVE  FALSE
      BY <3>1 DEF db, Start, Interrupt, DeadlockVictim, Fail, Migrate, ApplyMigration,
                  CountRecipes, Audit, Serve
    <3>2. ASSUME NEW q \in Proc, BeginImport(q) \/ InsertRecipe(q) \/ GetStoreSectionByKey(q)
                   \/ CreateStoreSection(q) \/ GetGroceryItemByKey(q) \/ CreateGroceryItem(q)
          PROVE  FALSE
      BY <3>2 DEF db, Fail, BeginImport, InsertRecipe, GetStoreSectionByKey, CreateStoreSection,
                  GetGroceryItemByKey, CreateGroceryItem
    <3>3. ASSUME NEW q \in Proc, InsertIngredient(q) \/ FinishRecipe(q)
          PROVE  FALSE
      BY <3>3 DEF db, Fail, InsertIngredient, FinishRecipe
    <3>4. ~StopPod /\ ~UNCHANGED vars
      BY DEF StopPod, vars, db
    <3> QED
      BY <3>1, <3>2, <3>3, <3>4 DEF Next, Step
  <2> QED
    BY <2>1, ImportIsTheFirst DEF Once!Load
<1> QED
  BY <1>1, <1>2, RecipesImportedHolds, PTL DEF Spec, LoadsOnce, Once!Spec

-----------------------------------------------------------------------------
(* What the rows of an import can disagree with.                           *)

(* Beside a step of p, what the others know of the rows stays true.        *)
LEMMA OthersAudited ==
  ASSUME RecipesImported, AuditInvariant, NEW p \in Proc, Alone(p), DOMAIN version' = Proc,
         \A q \in Proc \ {p} : version'[q] = version[q],
         \/ UNCHANGED db
         \/ schema' = schema /\ recipes' # {}
         \/ schema < Latest /\ UNCHANGED <<recipes, items>>
            /\ sections' \in {sections, sections \cup {Other}},
         WritesOwn(p)', StillMissing(p)', Migrated(p)'
  PROVE  AuditInvariant'
<1>1. recipes' = {} => items' = {} /\ sections' \subseteq {Other}
  BY DEF AuditInvariant, db
<1>2. ASSUME NEW q \in Proc \ {p}
      PROVE  WritesOwn(q)' /\ StillMissing(q)' /\ Migrated(q)'
  <2>1. /\ pc'[q] = pc[q] /\ img'[q] = img[q] /\ doc'[q] = doc[q] /\ ing'[q] = ing[q]
        /\ work'[q] = work[q] /\ version'[q] = version[q]
    BY DEF Alone
  <2>2. WritesOwn(q) /\ StillMissing(q) /\ Migrated(q)
    BY DEF AuditInvariant
  <2>3. Wanted(q)' = Wanted(q)
    BY <2>1 DEF Wanted, Ingredient, Document, Documents
  <2>4. WritesOwn(q)'
    BY <2>1, <2>2 DEF WritesOwn
  <2>5. CASE UNCHANGED db
    <3>1. VisibleSections(q)' = VisibleSections(q) /\ VisibleItems(q)' = VisibleItems(q)
      BY <2>1, <2>5 DEF VisibleSections, VisibleItems, db
    <3> QED BY <2>1, <2>2, <2>3, <2>4, <2>5, <3>1 DEF StillMissing, Migrated, db
  <2>6. CASE schema' = schema /\ recipes' # {}
    BY <2>1, <2>2, <2>4, <2>6 DEF StillMissing, Migrated
  <2>7. CASE schema < Latest
    BY <2>1, <2>2, <2>4, <2>7 DEF StillMissing, Migrated, Importing, Writing
  <2> QED BY <2>5, <2>6, <2>7
<1> QED BY <1>1, <1>2 DEF AuditInvariant

LEMMA AuditAt ==
  ASSUME RecipesImported, AuditInvariant, NEW p \in Proc
  PROVE  /\ WritesOwn(p) /\ StillMissing(p) /\ Migrated(p) /\ Types /\ ImportAt(p)
         /\ DOMAIN version = Proc
         /\ \E a, b : work[p] = [recipes |-> a, draft |-> b, items |-> work[p].items,
                                 sections |-> work[p].sections, known |-> work[p].known]
BY DEF AuditInvariant, RecipesImported, Types, ImportAt

(* The row p would insert is one of its image's.                           *)
LEMMA WantedIsUsed ==
  ASSUME RecipesImported, NEW p \in Proc, pc[p] \in AtIngredient
  PROVE  /\ Document(p) \in Elements(Holds[img[p]].documents)
         /\ Ingredient(p) \in Used(img[p]) /\ Ingredient(p) \in Elements(Document(p).ingredients)
         /\ NewItem(p) = ItemRow(Ingredient(p)) /\ Wanted(p) = Ingredient(p).item
<1>1. pc[p] \in Writing /\ ing[p] \in 1..Len(Document(p).ingredients)
  BY DEF RecipesImported, ImportAt, AtIngredient, Writing
<1>2. /\ Document(p) \in Elements(Documents(p))
      /\ DOMAIN Document(p).ingredients = 1..Len(Document(p).ingredients)
  BY <1>1, CurrentDocument
<1>3. Ingredient(p) \in Elements(Document(p).ingredients)
  BY <1>1, <1>2 DEF Ingredient, Elements
<1> QED BY <1>2, <1>3 DEF Used, Documents, NewItem, ItemRow, Wanted

(* The process leaves its transaction, if it had one.                      *)
LEMMA ExitAudited ==
  ASSUME RecipesImported, AuditInvariant, NEW p \in Proc,
         NEW label \in {"down", "failed", "serve", "done"}, Exit(p, label),
         UNCHANGED <<img, version>>,
         \/ UNCHANGED db
         \/ schema' = schema /\ recipes' # {}
  PROVE  AuditInvariant'
<1>1. Types /\ DOMAIN version = Proc
  BY AuditAt
<1>2. Alone(p) /\ pc'[p] = label /\ work'[p] = NoWork
  BY <1>1 DEF Exit, Goto, Alone, Types
<1>3. WritesOwn(p)' /\ StillMissing(p)' /\ Migrated(p)'
  BY <1>2 DEF WritesOwn, StillMissing, Migrated, NoWork, Importing, Writing
<1> QED BY <1>1, <1>2, <1>3, OthersAudited

LEMMA FailAudited ==
  ASSUME RecipesImported, AuditInvariant, NEW p \in Proc, Fail(p)
  PROVE  AuditInvariant'
<1>1. Exit(p, "failed") /\ UNCHANGED db /\ UNCHANGED <<img, version>>
  BY DEF Fail
<1> QED BY <1>1, ExitAudited

(* The process goes on without a transaction, or begins one.               *)
LEMMA OutsideAudited ==
  ASSUME RecipesImported, AuditInvariant, NEW p \in Proc,
         NEW label \in (Labels \ Writing) \cup {"recipe"}, Goto(p, label), pc[p] \notin Writing,
         UNCHANGED <<doc, ing, work>>, DOMAIN version' = Proc,
         \A q \in Proc \ {p} : version'[q] = version[q] /\ img'[q] = img[q],
         \/ UNCHANGED db
         \/ schema < Latest /\ UNCHANGED <<recipes, items>>
            /\ sections' \in {sections, sections \cup {Other}},
         label = "apply" => version'[p] < Latest,
         label \in {"count", "audit"} \cup Importing => ~(schema' < Latest)
  PROVE  AuditInvariant'
<1>1. Types /\ WritesOwn(p)
  BY AuditAt
<1>2. Alone(p) /\ pc'[p] = label /\ work'[p] = work[p]
  BY <1>1 DEF Goto, Alone, Types
<1>3. work[p].items = {} /\ work[p].sections = {}
  BY <1>1 DEF WritesOwn
<1>4. WritesOwn(p)' /\ StillMissing(p)' /\ Migrated(p)'
  BY <1>2, <1>3 DEF WritesOwn, StillMissing, Migrated, Writing
<1> QED BY <1>2, <1>4, OthersAudited

LEMMA EntryAudited ==
  ASSUME RecipesImported, AuditInvariant, NEW p \in Proc,
         \/ Start(p) \/ Migrate(p) \/ ApplyMigration(p) \/ CountRecipes(p) \/ Audit(p)
         \/ Serve(p) \/ BeginImport(p)
  PROVE  AuditInvariant'
<1>1. Types /\ Migrated(p) /\ DOMAIN version = Proc
  BY AuditAt
<1>2. CASE Fail(p)
  BY <1>2, FailAudited
<1>3. ASSUME NEW label \in (Labels \ Writing) \cup {"recipe"}, Goto(p, label), pc[p] \notin Writing,
             UNCHANGED <<db, img, version, doc, ing, work>>, label # "apply",
             label \in {"count", "audit"} \cup Importing => ~(schema < Latest)
      PROVE  AuditInvariant'
  <2>1. /\ UNCHANGED db /\ UNCHANGED <<doc, ing, work>> /\ DOMAIN version' = Proc
        /\ \A q \in Proc \ {p} : version'[q] = version[q] /\ img'[q] = img[q]
    BY <1>1, <1>3
  <2>2. label \in {"count", "audit"} \cup Importing => ~(schema' < Latest)
    BY <1>3, <2>1 DEF db
  <2> QED BY <1>3, <2>1, <2>2, OutsideAudited
<1>4. CASE Start(p)
  <2>1. /\ Goto(p, "migrate") /\ UNCHANGED <<db, image, stops, version, doc, ing, work>>
        /\ pc[p] \in {"down", "failed"} /\ \A q \in Proc \ {p} : img'[q] = img[q]
    BY <1>1, <1>4 DEF Start, Types
  <2> QED BY <1>1, <2>1, OutsideAudited DEF Labels, Importing, Writing
<1>5. CASE Migrate(p)
  <2> DEFINE label == IF schema < Latest THEN "apply" ELSE IF p = Pod THEN "count" ELSE "audit"
  <2>1. /\ version' = [version EXCEPT ![p] = schema] /\ Goto(p, label) /\ pc[p] = "migrate"
        /\ UNCHANGED <<db, img, doc, ing, work>>
    BY <1>5 DEF Migrate, At
  <2>2. /\ label \in {"apply", "count", "audit"}
        /\ label = "apply" => schema < Latest
        /\ label # "apply" => ~(schema < Latest)
    OBVIOUS
  <2> HIDE DEF label
  <2>3. /\ DOMAIN version' = Proc /\ version'[p] = schema
        /\ \A q \in Proc \ {p} : version'[q] = version[q] /\ img'[q] = img[q]
    BY <1>1, <2>1
  <2> QED BY <2>1, <2>2, <2>3, OutsideAudited DEF Labels, Importing, Writing, db
<1>6. CASE ApplyMigration(p) /\ ~Fail(p)
  <2>1. /\ schema = version[p] /\ pc[p] = "apply" /\ Goto(p, "migrate")
        /\ sections' \in {sections, sections \cup {Other}}
        /\ UNCHANGED <<recipes, items, img, version, doc, ing, work>>
    BY <1>6 DEF ApplyMigration, At
  <2>2. schema < Latest
    BY <1>1, <2>1 DEF Migrated
  <2> QED BY <1>1, <2>1, <2>2, OutsideAudited DEF Labels, Importing, Writing
<1>7. CASE CountRecipes(p)
  <2> DEFINE label == IF recipes # {} THEN "serve" ELSE "audit"
  <2>1. /\ Goto(p, label) /\ pc[p] = "count" /\ UNCHANGED <<db, img, version, doc, ing, work>>
    BY <1>7 DEF CountRecipes, At
  <2>2. label \in {"serve", "audit"} /\ ~(schema < Latest)
    BY <1>1, <2>1 DEF Migrated
  <2> HIDE DEF label
  <2> QED BY <1>3, <2>1, <2>2 DEF Labels, Importing, Writing
<1>8. CASE Audit(p) /\ ~Fail(p)
  <2>1. /\ Goto(p, "begin") /\ pc[p] = "audit" /\ UNCHANGED <<db, img, version, doc, ing, work>>
    BY <1>8 DEF Audit, At
  <2>2. ~(schema < Latest)
    BY <1>1, <2>1 DEF Migrated
  <2> QED BY <1>3, <2>1, <2>2 DEF Labels, Importing, Writing
<1>9. CASE Serve(p)
  <2>1. /\ Goto(p, "serving") /\ pc[p] = "serve" /\ UNCHANGED <<db, img, version, doc, ing, work>>
    BY <1>9 DEF Serve, At
  <2> QED BY <1>3, <2>1 DEF Labels, Importing, Writing
<1>10. CASE BeginImport(p) /\ ~Fail(p)
  <2>1. /\ Goto(p, "recipe") /\ pc[p] = "begin" /\ UNCHANGED <<db, img, version, doc, ing, work>>
    BY <1>10 DEF BeginImport, At
  <2>2. ~(schema < Latest)
    BY <1>1, <2>1 DEF Migrated, Importing
  <2> QED BY <1>3, <2>1, <2>2 DEF Labels, Importing, Writing
<1> QED BY <1>2, <1>4, <1>5, <1>6, <1>7, <1>8, <1>9, <1>10

(* Inside its transaction p has written the items and sections it shows.   *)
LEMMA WritingAudited ==
  ASSUME RecipesImported, AuditInvariant, NEW p \in Proc, NEW label \in Writing, Goto(p, label),
         pc[p] \in Writing, UNCHANGED <<db, img, version>>, DOMAIN work' = Proc,
         \A q \in Proc \ {p} :
           work'[q] = work[q] /\ doc'[q] = doc[q] /\ ing'[q] = ing[q],
         work'[p].items \subseteq {ItemRow(g) : g \in Used(img[p])},
         work'[p].sections \subseteq {g.item.section : g \in Used(img[p])},
         StillMissing(p)'
  PROVE  AuditInvariant'
<1>1. Types /\ Migrated(p) /\ DOMAIN version = Proc
  BY AuditAt
<1>2. Alone(p) /\ pc'[p] = label
  BY <1>1 DEF Goto, Alone, Types
<1>3. WritesOwn(p)' /\ Migrated(p)'
  BY <1>1, <1>2 DEF WritesOwn, Migrated, Importing, Writing, db
<1> QED BY <1>1, <1>2, <1>3, OthersAudited

(* The same, with nothing about to be inserted.                            *)
LEMMA RecipeAudited ==
  ASSUME RecipesImported, AuditInvariant, NEW p \in Proc,
         InsertRecipe(p) \/ InsertIngredient(p) \/ FinishRecipe(p)
  PROVE  AuditInvariant'
<1>1. /\ Types /\ WritesOwn(p)
      /\ \E a, b : work[p] = [recipes |-> a, draft |-> b, items |-> work[p].items,
                              sections |-> work[p].sections, known |-> work[p].known]
  BY AuditAt
<1>2. CASE Fail(p)
  BY <1>2, FailAudited
<1>3. ASSUME NEW label \in Writing \ {"newSection", "newItem"}, Goto(p, label), pc[p] \in Writing,
             UNCHANGED <<db, img, version>>, DOMAIN work' = Proc,
             \A q \in Proc \ {p} : work'[q] = work[q] /\ doc'[q] = doc[q] /\ ing'[q] = ing[q],
             work'[p].items = work[p].items, work'[p].sections = work[p].sections
      PROVE  AuditInvariant'
  <2>1. pc'[p] = label
    BY <1>1, <1>3 DEF Types, Goto
  <2>2. StillMissing(p)'
    BY <1>3, <2>1 DEF StillMissing
  <2> QED BY <1>1, <1>3, <2>2, WritingAudited DEF WritesOwn
<1>4. CASE InsertRecipe(p) /\ ~Fail(p)
  <2>1. PICK r : /\ work' = [work EXCEPT ![p].draft = r] /\ ing' = [ing EXCEPT ![p] = 1]
                 /\ pc[p] = "recipe" /\ Goto(p, "section") /\ UNCHANGED <<db, img, version, doc>>
    BY <1>4 DEF InsertRecipe, At
  <2>2. work'[p] = [work[p] EXCEPT !.draft = r] /\ DOMAIN work' = Proc
    BY <1>1, <2>1 DEF Types
  <2>3. work'[p].items = work[p].items /\ work'[p].sections = work[p].sections
    BY <1>1, <2>2
  <2>4. \A q \in Proc \ {p} : work'[q] = work[q] /\ doc'[q] = doc[q] /\ ing'[q] = ing[q]
    BY <1>1, <2>1 DEF Types
  <2>5. "section" \in Writing \ {"newSection", "newItem"} /\ pc[p] \in Writing
    BY <2>1 DEF Writing
  <2>6. UNCHANGED <<db, img, version>>
    BY <2>1
  <2> QED BY <1>3, <2>1, <2>2, <2>3, <2>4, <2>5, <2>6
<1>5. CASE InsertIngredient(p) /\ ~Fail(p)
  <2> DEFINE label == IF ing[p] = Len(Document(p).ingredients) THEN "verify" ELSE "section"
  <2>1. PICK r : /\ work' = [work EXCEPT ![p].draft = r]
                 /\ ing' = ing \/ ing' = [ing EXCEPT ![p] = @ + 1]
                 /\ pc[p] = "ingredient" /\ Goto(p, label) /\ UNCHANGED <<db, img, version, doc>>
    BY <1>5 DEF InsertIngredient, At
  <2>2. label \in {"verify", "section"}
    OBVIOUS
  <2> HIDE DEF label
  <2>3. work'[p] = [work[p] EXCEPT !.draft = r] /\ DOMAIN work' = Proc
    BY <1>1, <2>1 DEF Types
  <2>4. work'[p].items = work[p].items /\ work'[p].sections = work[p].sections
    BY <1>1, <2>3
  <2>5. \A q \in Proc \ {p} : work'[q] = work[q] /\ doc'[q] = doc[q] /\ ing'[q] = ing[q]
    BY <1>1, <2>1 DEF Types
  <2> QED BY <1>3, <2>1, <2>2, <2>3, <2>4, <2>5 DEF Writing
<1>6. CASE FinishRecipe(p) /\ ~Fail(p)
  <2> DEFINE label == IF doc[p] = Len(Documents(p)) THEN "commit" ELSE "recipe"
  <2>1. PICK s : /\ work' = [work EXCEPT ![p].recipes = s, ![p].draft = {}]
                 /\ doc' = doc \/ doc' = [doc EXCEPT ![p] = @ + 1]
                 /\ pc[p] = "verify" /\ Goto(p, label) /\ UNCHANGED <<db, img, version, ing>>
    BY <1>6 DEF FinishRecipe, At
  <2>2. label \in {"commit", "recipe"}
    OBVIOUS
  <2> HIDE DEF label
  <2>3. work'[p] = [work[p] EXCEPT !.recipes = s, !.draft = {}] /\ DOMAIN work' = Proc
    BY <1>1, <2>1 DEF Types
  <2>4. work'[p].items = work[p].items /\ work'[p].sections = work[p].sections
    BY <1>1, <2>3
  <2>5. \A q \in Proc \ {p} : work'[q] = work[q] /\ doc'[q] = doc[q] /\ ing'[q] = ing[q]
    BY <1>1, <2>1 DEF Types
  <2> QED BY <1>3, <2>1, <2>2, <2>3, <2>4, <2>5 DEF Writing
<1> QED BY <1>2, <1>4, <1>5, <1>6

LEMMA RowsAudited ==
  ASSUME RecipesImported, AuditInvariant, NEW p \in Proc,
         \/ GetStoreSectionByKey(p) \/ CreateStoreSection(p)
         \/ GetGroceryItemByKey(p) \/ CreateGroceryItem(p)
  PROVE  AuditInvariant'
<1>1. /\ Types /\ WritesOwn(p)
      /\ \E a, b : work[p] = [recipes |-> a, draft |-> b, items |-> work[p].items,
                              sections |-> work[p].sections, known |-> work[p].known]
  BY AuditAt
<1>2. CASE Fail(p)
  BY <1>2, FailAudited
<1>3. /\ Ingredient(p) \in Used(img[p]) /\ Wanted(p) = Ingredient(p).item
      /\ NewItem(p) = ItemRow(Ingredient(p))
  BY WantedIsUsed DEF GetStoreSectionByKey, CreateStoreSection, GetGroceryItemByKey,
       CreateGroceryItem, At, AtIngredient
<1>4. ASSUME NEW label \in {"newSection", "item", "newItem", "ingredient"}, Goto(p, label),
             pc[p] \in Writing, UNCHANGED <<db, img, version, doc, ing>>, DOMAIN work' = Proc,
             \A q \in Proc \ {p} : work'[q] = work[q],
             work'[p].items \subseteq work[p].items \cup {NewItem(p)},
             work'[p].sections \subseteq work[p].sections \cup {Wanted(p).section},
             label \in {"newSection", "newItem"} => UNCHANGED work,
             label = "newSection" => \A s \in VisibleSections(p) : s.key # Wanted(p).section.key,
             label = "newItem" => \A i \in VisibleItems(p) : i.key # Wanted(p).key
      PROVE  AuditInvariant'
  <2>1. pc'[p] = label /\ Wanted(p)' = Wanted(p)
    BY <1>1, <1>4 DEF Types, Goto, Wanted, Ingredient, Document, Documents
  <2>2. label \in {"newSection", "newItem"} =>
          VisibleSections(p)' = VisibleSections(p) /\ VisibleItems(p)' = VisibleItems(p)
    BY <1>4 DEF VisibleSections, VisibleItems, db
  <2>3. StillMissing(p)'
    BY <1>4, <2>1, <2>2 DEF StillMissing
  <2>4. /\ work'[p].items \subseteq {ItemRow(g) : g \in Used(img[p])}
        /\ work'[p].sections \subseteq {g.item.section : g \in Used(img[p])}
    BY <1>1, <1>3, <1>4 DEF WritesOwn
  <2>5. label \in Writing /\ UNCHANGED <<db, img, version>>
        /\ \A q \in Proc \ {p} : work'[q] = work[q] /\ doc'[q] = doc[q] /\ ing'[q] = ing[q]
    BY <1>4 DEF Writing
  <2> QED BY <1>4, <2>3, <2>4, <2>5, WritingAudited
<1>5. CASE GetStoreSectionByKey(p) /\ ~Fail(p)
  <2> DEFINE wanted == Wanted(p).section
             found == {s \in VisibleSections(p) : s.key = wanted.key}
  <2>1. /\ pc[p] \in Writing /\ UNCHANGED <<db, img, version, doc, ing>>
        /\ \/ Goto(p, "item") /\ UNCHANGED work
           \/ Goto(p, "newSection") /\ UNCHANGED work /\ found = {}
           \/ Goto(p, "item") /\ work' = [work EXCEPT ![p].known = @ \cup {wanted.key}]
    BY <1>5 DEF GetStoreSectionByKey, At, Writing
  <2>2. CASE UNCHANGED work
    <3>1. /\ DOMAIN work' = Proc /\ \A q \in Proc \ {p} : work'[q] = work[q]
          /\ work'[p].items = work[p].items /\ work'[p].sections = work[p].sections
      BY <1>1, <2>2 DEF Types
    <3>2. found = {} => \A s \in VisibleSections(p) : s.key # Wanted(p).section.key
      OBVIOUS
    <3>3. CASE Goto(p, "newSection") /\ found = {}
      BY <1>4, <2>1, <2>2, <3>1, <3>2, <3>3
    <3>4. CASE Goto(p, "item")
      BY <1>4, <2>1, <3>1, <3>4
    <3> QED BY <2>1, <3>3, <3>4
  <2>3. CASE Goto(p, "item") /\ work' = [work EXCEPT ![p].known = @ \cup {wanted.key}]
    <3>1. /\ DOMAIN work' = Proc /\ \A q \in Proc \ {p} : work'[q] = work[q]
          /\ work'[p] = [work[p] EXCEPT !.known = @ \cup {wanted.key}]
      BY <1>1, <2>3 DEF Types
    <3>2. work'[p].items = work[p].items /\ work'[p].sections = work[p].sections
      BY <1>1, <3>1
    <3> QED BY <1>4, <2>1, <2>3, <3>1, <3>2
  <2> QED BY <2>1, <2>2, <2>3
<1>6. CASE CreateStoreSection(p) /\ ~Fail(p)
  <2> DEFINE wanted == Wanted(p).section
  <2>1. /\ pc[p] \in Writing /\ UNCHANGED <<db, img, version, doc, ing>> /\ Goto(p, "item")
        /\ work' = [work EXCEPT ![p].sections = @ \cup {wanted}, ![p].known = @ \cup {wanted.key}]
    BY <1>6 DEF CreateStoreSection, At, Writing
  <2>2. /\ DOMAIN work' = Proc /\ \A q \in Proc \ {p} : work'[q] = work[q]
        /\ work'[p] = [work[p] EXCEPT !.sections = @ \cup {wanted}, !.known = @ \cup {wanted.key}]
    BY <1>1, <2>1 DEF Types
  <2>3. work'[p].items = work[p].items /\ work'[p].sections = work[p].sections \cup {wanted}
    BY <1>1, <2>2
  <2> QED BY <1>4, <2>1, <2>2, <2>3
<1>7. CASE GetGroceryItemByKey(p) /\ ~Fail(p)
  <2> DEFINE found == {i \in VisibleItems(p) : i.key = Wanted(p).key}
             label == IF found = {} THEN "newItem" ELSE "ingredient"
  <2>1. /\ pc[p] \in Writing /\ UNCHANGED <<db, img, version, doc, ing, work>> /\ Goto(p, label)
    BY <1>7 DEF GetGroceryItemByKey, At, Writing
  <2>2. /\ label \in {"newItem", "ingredient"}
        /\ label = "newItem" => \A i \in VisibleItems(p) : i.key # Wanted(p).key
    OBVIOUS
  <2>3. /\ DOMAIN work' = Proc /\ \A q \in Proc \ {p} : work'[q] = work[q]
        /\ work'[p].items = work[p].items /\ work'[p].sections = work[p].sections
    BY <1>1, <2>1 DEF Types
  <2> HIDE DEF label
  <2> QED BY <1>4, <2>1, <2>2, <2>3
<1>8. CASE CreateGroceryItem(p) /\ ~Fail(p)
  <2>1. /\ pc[p] \in Writing /\ UNCHANGED <<db, img, version, doc, ing>> /\ Goto(p, "ingredient")
        /\ work' = [work EXCEPT ![p].items = @ \cup {NewItem(p)}]
    BY <1>8 DEF CreateGroceryItem, At, Writing
  <2>2. /\ DOMAIN work' = Proc /\ \A q \in Proc \ {p} : work'[q] = work[q]
        /\ work'[p] = [work[p] EXCEPT !.items = @ \cup {NewItem(p)}]
    BY <1>1, <2>1 DEF Types
  <2>3. work'[p].items = work[p].items \cup {NewItem(p)} /\ work'[p].sections = work[p].sections
    BY <1>1, <2>2
  <2> QED BY <1>4, <2>1, <2>2, <2>3
<1> QED BY <1>2, <1>5, <1>6, <1>7, <1>8

LEMMA CommitAudited ==
  ASSUME RecipesImported, AuditInvariant, NEW p \in Proc, CommitImport(p)
  PROVE  AuditInvariant'
<1>1. recipes' # {}
  BY ImportIsTheFirst
<1>2. /\ Exit(p, IF p = Pod THEN "serve" ELSE "done") /\ UNCHANGED <<img, version>>
      /\ schema' = schema
  BY DEF CommitImport
<1> QED BY <1>1, <1>2, ExitAudited

LEMMA NextAudited == RecipesImported /\ AuditInvariant /\ [Next]_vars => AuditInvariant'
<1> SUFFICES ASSUME RecipesImported, AuditInvariant, [Next]_vars PROVE AuditInvariant'
  OBVIOUS
<1>1. ASSUME NEW p \in Proc, Start(p) \/ Step(p) \/ Interrupt(p)
      PROVE  AuditInvariant'
  BY <1>1, EntryAudited, RecipeAudited, RowsAudited, CommitAudited, FailAudited
     DEF Step, DeadlockVictim, Interrupt
<1>2. CASE StopPod
  <2>1. Exit(Pod, "down") /\ UNCHANGED db /\ UNCHANGED <<img, version>> /\ Pod \in Proc
    BY <1>2 DEF StopPod, Proc
  <2> QED BY <2>1, ExitAudited
<1>3. CASE UNCHANGED vars
  <2>1. ASSUME NEW p \in Proc
        PROVE  WritesOwn(p)' /\ StillMissing(p)' /\ Migrated(p)'
    <3>1. Wanted(p)' = Wanted(p)
      BY <1>3 DEF vars, Wanted, Ingredient, Document, Documents
    <3>2. VisibleItems(p)' = VisibleItems(p) /\ VisibleSections(p)' = VisibleSections(p)
      BY <1>3 DEF vars, VisibleItems, VisibleSections
    <3>3. WritesOwn(p) /\ StillMissing(p) /\ Migrated(p)
      BY DEF AuditInvariant
    <3> QED BY <1>3, <3>1, <3>2, <3>3 DEF vars, WritesOwn, StillMissing, Migrated
  <2> QED BY <1>3, <2>1 DEF vars, AuditInvariant
<1> QED BY <1>1, <1>2, <1>3 DEF Next

(* Until an import commits, what its rows can disagree with is in its own  *)
(* image or comes from a migration, which no process runs any more.        *)
THEOREM AuditInvariantHolds == Spec => []AuditInvariant
<1>1. Init => AuditInvariant
  BY DEF Init, AuditInvariant, WritesOwn, StillMissing, Migrated, NoWork, Importing, Writing
<1> QED BY <1>1, NextAudited, RecipesImportedHolds, PTL DEF Spec

-----------------------------------------------------------------------------
(* What an import that is alone can fail by.                               *)

LEMMA VisibleRows ==
  ASSUME AuditInvariant, NEW p \in Proc, recipes = {}
  PROVE  /\ VisibleItems(p) \subseteq {ItemRow(g) : g \in Used(img[p])}
         /\ VisibleSections(p) \subseteq {Other} \cup {g.item.section : g \in Used(img[p])}
BY DEF AuditInvariant, WritesOwn, VisibleItems, VisibleSections

(* The document p is at has passed the audit.                              *)
LEMMA DocumentValid ==
  ASSUME RecipesImported, NEW p \in Proc, pc[p] \in Writing
  PROVE  /\ Document(p) \in Elements(Holds[img[p]].documents) /\ Validate(Document(p))
         /\ \A k \in 1..Len(Documents(p)) : k # doc[p] => Documents(p)[k].key # Document(p).key
         /\ doc[p] \in 1..Len(Documents(p))
<1>1. /\ Audited(Holds[img[p]]) /\ DOMAIN Documents(p) = 1..Len(Documents(p))
      /\ doc[p] \in 1..Len(Documents(p)) /\ Document(p) \in Elements(Documents(p))
  BY CurrentDocument
<1> QED BY <1>1 DEF Audited, ReadDirectory, Documents, Document

LEMMA RecipeOverlooked ==
  ASSUME RecipesImported, NEW p \in Proc, recipes = {}, InsertRecipe(p), pc'[p] = "failed"
  PROVE  Overlooked(img[p])
<1> DEFINE d == Document(p)
<1>0. pc[p] = "recipe" /\ pc[p] \in Writing /\ Types
  BY Shape DEF InsertRecipe, At, Writing
<1>1. /\ d \in Elements(Holds[img[p]].documents) /\ doc[p] \in 1..Len(Documents(p))
      /\ \A k \in 1..Len(Documents(p)) : k # doc[p] => Documents(p)[k].key # d.key
  BY <1>0, DocumentValid
<1>2. ~NotBlank(d.image) \/ \E r \in OwnRecipes(p) : Same(r, d)
  BY <1>0 DEF InsertRecipe, Goto, Types
<1>3. CASE ~NotBlank(d.image)
  <2>1. d.image = " "
    BY <1>3 DEF NotBlank, Null, Written
  <2> QED BY <1>1, <2>1 DEF Overlooked
<1>4. CASE \E r \in OwnRecipes(p) : Same(r, d)
  <2>1. OwnRecipes(p) = {Imported(Documents(p)[k]) : k \in 1..(doc[p] - 1)}
    <3>1. /\ Finished(p) = doc[p] - 1 /\ ImportAt(p)
          /\ work[p].recipes \cup work[p].draft = OwnRecipes(p)
      BY <1>0, Shape DEF Finished
    <3>2. /\ work[p].recipes = {Imported(Documents(p)[k]) : k \in 1..Finished(p)}
          /\ work[p].draft = {}
      BY <1>0, <3>1 DEF ImportAt, AtIngredient
    <3> QED BY <3>1, <3>2
  <2>2. PICK k \in 1..(doc[p] - 1) : Same(Imported(Documents(p)[k]), d)
    BY <1>4, <2>1
  <2> DEFINE e == Documents(p)[k]
  <2>3. k \in 1..Len(Documents(p)) /\ k # doc[p]
    BY <1>0, <1>1, <2>2 DEF Types
  <2>4. e.key # d.key
    BY <1>1, <2>3
  <2>5. e.name = d.name
    BY <2>2, <2>4, ImportedNames DEF Same
  <2>6. e \in Elements(Holds[img[p]].documents)
    BY <1>0, <2>3, CurrentDocument DEF Elements, Documents
  <2> QED BY <1>1, <2>4, <2>5, <2>6 DEF Overlooked
<1> QED BY <1>2, <1>3, <1>4

LEMMA RowsOverlooked ==
  ASSUME RecipesImported, AuditInvariant, NEW p \in Proc, recipes = {}, pc'[p] = "failed",
         \/ GetStoreSectionByKey(p) \/ CreateStoreSection(p)
         \/ GetGroceryItemByKey(p) \/ CreateGroceryItem(p)
  PROVE  Overlooked(img[p])
<1> DEFINE g == Ingredient(p)
<1>1. Types /\ StillMissing(p)
  BY AuditAt
<1>2. pc[p] \in {"section", "newSection", "item", "newItem"}
  BY DEF GetStoreSectionByKey, CreateStoreSection, GetGroceryItemByKey, CreateGroceryItem, At
<1>3. g \in Used(img[p]) /\ NewItem(p) = ItemRow(g) /\ Wanted(p) = g.item
  BY <1>2, WantedIsUsed DEF AtIngredient
<1>4. \A label \in {"item", "newSection", "newItem", "ingredient"} : ~Goto(p, label)
  BY <1>1 DEF Goto, Types
<1>5. /\ \A i \in VisibleItems(p) : \E h \in Used(img[p]) : i = ItemRow(h)
      /\ \A s \in VisibleSections(p) : s \in {Other} \cup {h.item.section : h \in Used(img[p])}
  BY VisibleRows
<1>6. ASSUME NEW s \in VisibleSections(p), Same(s, g.item.section), s # g.item.section
      PROVE  Overlooked(img[p])
  BY <1>3, <1>5, <1>6 DEF Overlooked
<1>7. ASSUME NEW i \in VisibleItems(p), Same(i, g.item), i # ItemRow(g)
      PROVE  Overlooked(img[p])
  <2>1. PICK h \in Used(img[p]) : i = ItemRow(h)
    BY <1>5
  <2>2. h.item # g.item /\ Same(h.item, g.item)
    BY <1>7, <2>1 DEF ItemRow, Same
  <2> QED BY <1>3, <2>2 DEF Overlooked
<1>8. CASE GetStoreSectionByKey(p)
  <2>1. PICK s \in VisibleSections(p) : s.key = g.item.section.key /\ s # g.item.section
    BY <1>3, <1>4, <1>8 DEF GetStoreSectionByKey
  <2> QED BY <1>6, <2>1 DEF Same
<1>9. CASE CreateStoreSection(p)
  <2>1. PICK s \in VisibleSections(p) : Same(s, g.item.section)
    BY <1>3, <1>4, <1>9 DEF CreateStoreSection
  <2>2. s.key # g.item.section.key
    BY <1>1, <1>3, <1>9, <2>1 DEF CreateStoreSection, At, StillMissing
  <2>3. s # g.item.section
    BY <2>2
  <2> QED BY <1>6, <2>1, <2>3
<1>10. CASE GetGroceryItemByKey(p)
  <2>1. PICK i \in VisibleItems(p) : i.key = g.item.key /\ i # ItemRow(g)
    BY <1>3, <1>4, <1>10 DEF GetGroceryItemByKey
  <2> QED BY <1>7, <2>1 DEF Same
<1>11. CASE CreateGroceryItem(p)
  <2>1. PICK i \in VisibleItems(p) : Same(i, g.item)
    BY <1>3, <1>4, <1>11 DEF CreateGroceryItem
  <2>2. i.key # g.item.key
    BY <1>1, <1>3, <1>11, <2>1 DEF CreateGroceryItem, At, StillMissing
  <2>3. i # ItemRow(g)
    BY <2>2 DEF ItemRow
  <2> QED BY <1>7, <2>1, <2>3
<1> QED BY <1>8, <1>9, <1>10, <1>11

(* A quantity the validator accepts fits its row, but for the width of the *)
(* integers and the names of the units.                                    *)
LEMMA QuantityOverlooked ==
  ASSUME NEW q, ValidQuantity(q), {q.amount, q.maximum} \subseteq Seq(Int), ~QuantityCheck(q)
  PROVE  /\ q.kind = "range"
         /\ \/ q.amount[1] * q.maximum[2] > MaxInt
            \/ q.maximum[1] * q.amount[2] > MaxInt
<1>1. q.kind \in {"exact", "range"} /\ (q.unit = "") # (q.package = <<>>)
  BY DEF ValidQuantity, QuantityCheck
<1>2. /\ q.kind = "range"
      /\ ~(q.amount[1] * q.maximum[2] <= MaxInt /\ q.maximum[1] * q.amount[2] <= MaxInt)
  BY <1>1 DEF ValidQuantity, QuantityCheck
<1>3. q.amount \in Seq(Int) /\ q.maximum \in Seq(Int) /\ Len(q.amount) = 2 /\ Len(q.maximum) = 2
  BY <1>2 DEF ValidQuantity, Positive
<1>4. q.amount[1] \in Int /\ q.amount[2] \in Int /\ q.maximum[1] \in Int /\ q.maximum[2] \in Int
  BY <1>3
<1>5. q.amount[1] * q.maximum[2] \in Int /\ q.maximum[1] * q.amount[2] \in Int /\ MaxInt \in Int
  <2>1. \A x, y \in Int : x * y \in Int
    OBVIOUS
  <2>2. MaxInt \in Nat
    BY HoldsAssumption
  <2> QED BY <1>4, <2>1, <2>2
<1>6. \A x, y \in Int : ~(x <= y) => x > y
  OBVIOUS
<1> QED BY <1>2, <1>5, <1>6

LEMMA IngredientOverlooked ==
  ASSUME RecipesImported, NEW p \in Proc, InsertIngredient(p), pc'[p] = "failed"
  PROVE  Overlooked(img[p])
<1> DEFINE g == Ingredient(p)
<1>1. pc[p] = "ingredient" /\ Types
  BY Shape DEF InsertIngredient, At
<1>2. /\ g \in Used(img[p]) /\ g \in Elements(Document(p).ingredients)
      /\ Document(p) \in Elements(Holds[img[p]].documents) /\ img[p] \in Images
  BY <1>1, WantedIsUsed DEF AtIngredient, Types
<1>3. ValidQuantity(g.quantity) /\ {g.quantity.amount, g.quantity.maximum} \subseteq Seq(Int)
  <2>1. Validate(Document(p))
    BY <1>1, DocumentValid DEF Writing
  <2> QED BY <1>2, <2>1, HoldsAssumption DEF Validate
<1>4. ~(IngredientParams(g.quantity) /\ QuantityCheck(g.quantity) /\ NotBlank(g.note))
  BY <1>1 DEF InsertIngredient, Goto, Types
<1>5. CASE ~NotBlank(g.note)
  <2>1. g.note = " "
    BY <1>5 DEF NotBlank, Null, Written
  <2> QED BY <1>2, <2>1 DEF Overlooked
<1>6. CASE ~IngredientParams(g.quantity)
  BY <1>2, <1>6 DEF Overlooked
<1>7. CASE ~QuantityCheck(g.quantity)
  <2>1. /\ g.quantity.kind = "range"
        /\ \/ g.quantity.amount[1] * g.quantity.maximum[2] > MaxInt
           \/ g.quantity.maximum[1] * g.quantity.amount[2] > MaxInt
    BY <1>3, <1>7, QuantityOverlooked
  <2> QED BY <1>2, <2>1 DEF Overlooked
<1> QED BY <1>4, <1>5, <1>6, <1>7

(* The lifecycle trigger lets the row of an audited document be verified.  *)
LEMMA ReviewedMayBeVerified ==
  ASSUME NEW d, NEW n \in Nat \ {0}, Validate(d),
         d.review \in Seq([field : STRING, kind : STRING, note : STRING, approved : BOOLEAN])
  PROVE  MayVerify(Reviewed(Partial(d, n), d))
<1> DEFINE gs == [k \in 1..n |-> d.ingredients[k]]
           fs == [i \in DOMAIN d.review |-> [d.review[i] EXCEPT !.approved = FALSE]]
           as == [i \in DOMAIN d.review |->
                    [fs[i] EXCEPT !.approved = fs[i].approved \/ d.review[i].approved]]
           r == Reviewed(Partial(d, n), d)
<1>1. Partial(d, n) = Draft(d, gs)
  BY DraftRows
<1>2. /\ r.status = "reviewable" /\ r.sources = 1 /\ r.ingredients = gs /\ r.steps = d.steps
      /\ r.review = as
  <2> DEFINE row(status, review) ==
               [key |-> d.key, name |-> d.name, image |-> d.image, status |-> status,
                sources |-> 1, ingredients |-> gs, steps |-> d.steps, review |-> review]
  <2> HIDE DEF gs
  <2>0. \A a, b : [row("draft", a) EXCEPT !.review = b] = row("draft", b)
    OBVIOUS
  <2>1. CreateRecipeSteps(Draft(d, gs), d) = row("draft", <<>>)
    BY DEF CreateRecipeSteps, Draft
  <2>2. CreateReviewFlags(row("draft", <<>>), d) = row("draft", fs)
    <3>1. CreateReviewFlags(row("draft", <<>>), d) = [row("draft", <<>>) EXCEPT !.review = fs]
      BY DEF CreateReviewFlags
    <3> HIDE DEF row, fs
    <3> QED BY <2>0, <3>1
  <2>3. ApproveReviewFlags(row("draft", fs), d) = row("draft", as)
    <3> DEFINE approved(gs1) ==
                 [i \in DOMAIN gs1 |->
                    [gs1[i] EXCEPT !.approved = gs1[i].approved \/ d.review[i].approved]]
    <3>1. DOMAIN fs = DOMAIN d.review
      OBVIOUS
    <3>2. approved(fs) = as
      BY <3>1
    <3>3. \A x : ApproveReviewFlags(x, d) = [x EXCEPT !.review = approved(x.review)]
      BY DEF ApproveReviewFlags
    <3> HIDE DEF fs, as, approved
    <3>4. row("draft", fs).review = fs
      OBVIOUS
    <3> HIDE DEF row
    <3> QED BY <2>0, <3>2, <3>3, <3>4
  <2>4. MarkRecipeReviewable(row("draft", as)) = row("reviewable", as)
    <3> HIDE DEF as
    <3>1. \A a : [row("draft", a) EXCEPT !.status = "reviewable"] = row("reviewable", a)
      OBVIOUS
    <3> HIDE DEF row
    <3> QED BY <3>1 DEF MarkRecipeReviewable
  <2>5. r = row("reviewable", as)
    BY <1>1, <2>1, <2>2, <2>3, <2>4 DEF Reviewed
  <2> QED BY <2>5
<1>3. gs # <<>>
  <2>1. 1 \in DOMAIN gs
    OBVIOUS
  <2> QED BY <2>1
<1>4. \A f \in Elements(as) : f.approved
  <2> SUFFICES ASSUME NEW i \in DOMAIN d.review PROVE as[i].approved
    BY DEF Elements
  <2>1. d.review[i].approved
    BY DEF Validate, Elements, ValidDecision
  <2>2. d.review[i] \in [field : STRING, kind : STRING, note : STRING, approved : BOOLEAN]
    <3>1. \A T : \A s \in Seq(T) : \A j \in DOMAIN s : s[j] \in T
      OBVIOUS
    <3> QED BY <3>1
  <2>3. fs[i] = [d.review[i] EXCEPT !.approved = FALSE]
    OBVIOUS
  <2>4. fs[i] \in [field : STRING, kind : STRING, note : STRING, approved : BOOLEAN]
    BY <2>2, <2>3
  <2>5. as[i] = [fs[i] EXCEPT !.approved = fs[i].approved \/ d.review[i].approved]
    OBVIOUS
  <2> HIDE DEF fs, as
  <2> QED BY <2>1, <2>4, <2>5
<1>5. d.steps # <<>>
  BY DEF Validate
<1> HIDE DEF gs, as, r
<1> QED BY <1>2, <1>3, <1>4, <1>5 DEF MayVerify, r

LEMMA RecipeFinishOverlooked ==
  ASSUME RecipesImported, NEW p \in Proc, FinishRecipe(p), pc'[p] = "failed"
  PROVE  Overlooked(img[p])
<1> DEFINE d == Document(p)
<1>1. pc[p] = "verify" /\ pc[p] \in Writing /\ Types /\ ImportAt(p)
  BY Shape DEF FinishRecipe, At, Writing
<1>2. /\ d \in Elements(Holds[img[p]].documents) /\ Validate(d)
      /\ ing[p] \in Nat \ {0}
  BY <1>1, DocumentValid DEF ImportAt, AtIngredient, Types
<1>3. work[p].draft = {Partial(d, ing[p])}
  BY <1>1 DEF ImportAt, AtIngredient, Taken
<1>4. \A r \in {Reviewed(s, d) : s \in work[p].draft} : MayVerify(r)
  <2>1. d.review \in Seq([field : STRING, kind : STRING, note : STRING, approved : BOOLEAN])
    BY <1>1, <1>2, HoldsAssumption DEF Types
  <2> QED BY <1>2, <1>3, <2>1, ReviewedMayBeVerified
<1>5. ~UniqueFlags(d)
  BY <1>1, <1>4 DEF FinishRecipe, Goto, Types
<1> QED BY <1>2, <1>5 DEF Overlooked

(* Only another import can be in the way of a statement that waits.        *)
LEMMA VictimBeside ==
  ASSUME NEW p \in Proc, DeadlockVictim(p)
  PROVE  \E q \in Proc \ {p} : work[q] # NoWork
<1>1. PICK q \in Proc \ {p} : Blocks(q, p)
  BY DEF DeadlockVictim, WaitsFor
<1>2. work[q] # NoWork
  BY <1>1 DEF Blocks, OwnRecipes, NoWork
<1> QED BY <1>2

(* When the pod's import fails, its image is wrong in a way the audit of   *)
(* one document at a time cannot see, or another import is in the way      *)
(* (readAuditedCorpus and every error of Import).                          *)
THEOREM AuditAlwaysSuffices == Spec => AuditSuffices
<1> DEFINE Explained == \/ Overlooked(img[Pod]) \/ recipes # {}
                        \/ \E q \in Commands : work[q] # NoWork
<1>1. RecipesImported /\ AuditInvariant /\ [Next]_vars
        => (pc[Pod] \in Importing /\ pc'[Pod] = "failed" => Explained)
  <2> SUFFICES ASSUME RecipesImported, AuditInvariant, [Next]_vars,
                      pc[Pod] \in Importing, pc'[Pod] = "failed"
               PROVE  Explained
    OBVIOUS
  <2>1. Pod \in Proc /\ Types /\ Proc \ {Pod} \subseteq Commands /\ "failed" \notin Importing
    BY Shape DEF Proc, Importing, Writing
  <2>2. ASSUME NEW p \in Proc, Start(p) \/ Step(p) \/ Interrupt(p)
        PROVE  Step(Pod)
    <3>1. p = Pod
      BY <2>1, <2>2 DEF Start, Step, Interrupt, Fail, Exit, Goto, Migrate, ApplyMigration, CountRecipes,
           Audit, Serve, BeginImport, InsertRecipe, GetStoreSectionByKey, CreateStoreSection,
           GetGroceryItemByKey, CreateGroceryItem, InsertIngredient, FinishRecipe, CommitImport,
           DeadlockVictim, Types
    <3>2. ~Start(Pod) /\ ~Interrupt(Pod)
      BY HoldsAssumption DEF Start, Interrupt, Importing, Writing
    <3> QED BY <2>2, <3>1, <3>2
  <2>3. ~StopPod /\ ~UNCHANGED vars
    BY <2>1 DEF StopPod, Exit, Goto, vars, Types
  <2>4. Step(Pod)
    BY <2>2, <2>3 DEF Next
  <2>5. CASE DeadlockVictim(Pod)
    BY <2>1, <2>5, VictimBeside
  <2>6. CASE recipes = {} /\ ~DeadlockVictim(Pod)
    <3>1. ~Migrate(Pod) /\ ~ApplyMigration(Pod) /\ ~CountRecipes(Pod) /\ ~Audit(Pod) /\ ~Serve(Pod)
      BY DEF Migrate, ApplyMigration, CountRecipes, Audit, Serve, At, Importing, Writing
    <3>2. ~BeginImport(Pod) /\ ~CommitImport(Pod)
      BY <2>1, <2>6 DEF BeginImport, CommitImport, Exit, Goto, Types
    <3> QED BY <2>1, <2>4, <2>6, <3>1, <3>2, RecipeOverlooked, RowsOverlooked, IngredientOverlooked,
                RecipeFinishOverlooked DEF Step
  <2> QED BY <2>5, <2>6
<1> QED BY <1>1, RecipesImportedHolds, AuditInvariantHolds, PTL DEF Spec, AuditSuffices
=============================================================================
