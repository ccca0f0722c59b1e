----------------------------- MODULE Catalogue ------------------------------
(***************************************************************************)
(* The catalogue as the back office edits it: the product editor and the   *)
(* stock count (apps/web/components/admin-catalog), the category form, and *)
(* ProductsService and CategoriesService behind them.  Several people of   *)
(* the staff have forms open, each on what it loaded, and a save reads the *)
(* row, checks, and writes in two statements without a lock.               *)
(*                                                                         *)
(* Text, prices beyond their order, slugs and images are left out: a field *)
(* is whether somebody changed it.                                         *)
(***************************************************************************)
EXTENDS Integers, Sequences, FiniteSets

CONSTANTS Staff,       \* people with a form open
          Category,    \* categories, numbered in the order the API lists them
          Amounts,     \* ends of a price range; 0: no such end
          MaxSaves     \* bound: saves of products and categories

ASSUME CatalogueAssumption ==
  /\ Category \subseteq Nat \ {0} /\ IsFiniteSet(Category) /\ Category # {}
  /\ {0, 1, 2} \subseteq Amounts /\ Amounts \subseteq Nat
  /\ MaxSaves \in Nat

NoCategory == 0

VARIABLES
  product,    \* the row of a product
  form,       \* each person's editor: what it loaded, the draft, where its save is
  parent,     \* the row of each category: its parent, or GONE
  picker,     \* each person's category form: the list it loaded, what it edits
  saves

catalogueVars == <<product, form, parent, picker, saves>>

Ends    == {"priceMin", "priceMax"}
Product == [ priceMin : Amounts, priceMax : Amounts,
             stock : 0..2, stockStatus : {"IN_STOCK", "ON_ORDER"},
             isActive : BOOLEAN, isTradeOnly : BOOLEAN, category : Category \cup {NoCategory} ]

Closed == [at |-> "closed"]

CatalogueTypeOK ==
  /\ product \in Product
  /\ form \in [Staff -> {Closed}
       \cup [at : {"open"}, base : Product, draft : Product]
       \cup [at : {"read"}, base : Product, draft : Product, stored : [Ends -> Amounts]]]
  /\ parent \in [Category -> Category \cup {NoCategory, -1}]
  /\ picker \in [Staff -> {Closed}
       \cup [at : {"open"}, list : [Category -> Category \cup {NoCategory, -1}], edits : Category]]
  /\ saves \in 0..MaxSaves

Gone == -1
Existing(rows) == {c \in Category : rows[c] # Gone}

InOrder(min, max) == min = 0 \/ max = 0 \/ min <= max

CatalogueInit ==
  /\ product \in [ priceMin : {1}, priceMax : {2}, stock : {1},
                  stockStatus : {"IN_STOCK"}, isActive : {TRUE}, isTradeOnly : {FALSE},
                  category : {CHOOSE c \in Category : TRUE} ]
  /\ form = [s \in Staff |-> Closed]
  /\ parent = [c \in Category |-> NoCategory]
  /\ picker = [s \in Staff |-> Closed]
  /\ saves = 0

\* Bound: one more save.
Saved == saves < MaxSaves /\ saves' = saves + 1

-----------------------------------------------------------------------------
(* The product editor.  Somebody has one page open at a time.               *)

OpenEditor(s) ==
  /\ form[s] = Closed /\ picker[s] = Closed
  /\ form' = [form EXCEPT ![s] = [at |-> "open", base |-> product, draft |-> product]]
  /\ UNCHANGED <<product, parent, picker, saves>>

\* One change of the draft.  A range has both ends or neither, in order.
Edit(s, draft) ==
  /\ form[s].at = "open" /\ form[s].draft = form[s].base
  /\ draft # form[s].base
  /\ (draft.priceMin = 0) = (draft.priceMax = 0) /\ draft.priceMin <= draft.priceMax
  /\ form' = [form EXCEPT ![s].draft = draft]
  /\ UNCHANGED <<product, parent, picker, saves>>

\* Mutant: the whole form is sent.
EverythingSent(base, draft) == draft

\* Mutant: each end of the range is a field like the others.
EndsSentApart(base, draft) ==
  [f \in {g \in DOMAIN draft : draft[g] # base[g]} |-> draft[f]]

\* submit: the fields that differ from what was loaded; both ends of the range together.
Body(base, draft) ==
  LET changed == {f \in DOMAIN draft : draft[f] # base[f]}
  IN  [f \in changed \cup (IF changed \cap Ends = {} THEN {} ELSE Ends) |-> draft[f]]

\* update, first statement: the row is read for the range check ...
ReadRow(s) ==
  /\ form[s].at = "open" /\ form[s].draft # form[s].base
  /\ form' = [form EXCEPT ![s] = [at |-> "read", base |-> @.base, draft |-> @.draft,
                                  stored |-> [f \in Ends |-> product[f]]]]
  /\ Saved
  /\ UNCHANGED <<product, parent, picker>>

RangeAfter(body, stored) ==
  [f \in Ends |-> IF f \in DOMAIN body THEN body[f] ELSE stored[f]]

\* ... second statement: the fields sent are written; without the others' values.
Update(s) ==
  /\ form[s].at = "read"
  /\ LET body  == Body(form[s].base, form[s].draft)
         range == RangeAfter(body, form[s].stored)
     IN  /\ InOrder(range.priceMin, range.priceMax)
         /\ "category" \in DOMAIN body /\ body.category # NoCategory
              => parent[body.category] # Gone
         /\ product' = [f \in DOMAIN product |->
                          IF f \in DOMAIN body THEN body[f] ELSE product[f]]
  /\ form' = [form EXCEPT ![s] = Closed]
  /\ UNCHANGED <<parent, picker, saves>>

\* A refusal: the range out of order, or a category deleted meanwhile.
Refused(s) ==
  /\ form[s].at = "read"
  /\ LET body  == Body(form[s].base, form[s].draft)
         range == RangeAfter(body, form[s].stored)
     IN  \/ ~InOrder(range.priceMin, range.priceMax)
         \/ "category" \in DOMAIN body /\ body.category \in Category \ Existing(parent)
  /\ form' = [form EXCEPT ![s] = [at |-> "open", base |-> @.base, draft |-> @.draft]]
  /\ UNCHANGED <<product, parent, picker, saves>>

CloseEditor(s) ==
  /\ form[s].at = "open"
  /\ form' = [form EXCEPT ![s] = Closed]
  /\ UNCHANGED <<product, parent, picker, saves>>

\* The stock count: its own route, which derives the availability from it.
CountShelf(n) ==
  /\ Saved
  /\ product' = [product EXCEPT !.stock = n,
                                !.stockStatus = IF n > 0 THEN "IN_STOCK" ELSE "ON_ORDER"]
  /\ UNCHANGED <<form, parent, picker>>

Archive ==
  /\ Saved
  /\ product' = [product EXCEPT !.isActive = FALSE]
  /\ UNCHANGED <<form, parent, picker>>

\* The product list puts an archived product back: an update of that field alone.
Restore ==
  /\ ~product.isActive /\ Saved
  /\ product' = [product EXCEPT !.isActive = TRUE]
  /\ UNCHANGED <<form, parent, picker>>

-----------------------------------------------------------------------------
(* Categories: two levels, says the form; a parent that exists and is not   *)
(* the category itself, says the API.                                       *)

LinesOfCategory(rows, c) == {d \in Category : rows[d] = c}
TopLevel(rows) == {c \in Category : rows[c] = NoCategory}

OpenCategory(s, c) ==
  /\ form[s] = Closed /\ picker[s] = Closed /\ c \in Existing(parent)
  /\ picker' = [picker EXCEPT ![s] = [at |-> "open", list |-> parent, edits |-> c]]
  /\ UNCHANGED <<product, form, parent, saves>>

\* The parents the form offers, from the list it was opened on.
ParentOptions(rows, c) ==
  {NoCategory, rows[c]}
    \cup (IF LinesOfCategory(rows, c) # {} THEN {} ELSE TopLevel(rows) \ {c})

UpdateCategory(s, p) ==
  /\ picker[s].at = "open"
  /\ LET c == picker[s].edits
     IN  /\ p \in ParentOptions(picker[s].list, c)
         /\ IF parent[c] # Gone /\ p # c /\ (p # NoCategory => parent[p] # Gone)
            THEN Saved /\ parent' = [parent EXCEPT ![c] = p]
            ELSE UNCHANGED <<parent, saves>>
  /\ picker' = [picker EXCEPT ![s] = Closed]
  /\ UNCHANGED <<product, form>>

CloseCategory(s) ==
  /\ picker[s].at = "open"
  /\ picker' = [picker EXCEPT ![s] = Closed]
  /\ UNCHANGED <<product, form, parent, saves>>

\* A new category, at the top level or as a line of one that exists.
CreateCategory(c, p) ==
  /\ Saved
  /\ parent[c] = Gone /\ p \in {NoCategory} \cup TopLevel(parent)
  /\ parent' = [parent EXCEPT ![c] = p]
  /\ UNCHANGED <<product, form, picker>>

\* Its lines and its products stay, without it (ON DELETE SET NULL).
RemoveCategory(c) ==
  /\ Saved
  /\ parent[c] # Gone
  /\ parent' = [d \in Category |-> IF d = c THEN Gone
                                   ELSE IF parent[d] = c THEN NoCategory ELSE parent[d]]
  /\ product' = [product EXCEPT !.category = IF @ = c THEN NoCategory ELSE @]
  /\ UNCHANGED <<form, picker>>

\* Bound: what one person changes in one sitting.
Drafts(base) ==
  {[base EXCEPT !.stock = 2], [base EXCEPT !.isTradeOnly = TRUE]}
    \cup {[base EXCEPT !.priceMin = 0, !.priceMax = 0],
          [base EXCEPT !.priceMin = base.priceMax], [base EXCEPT !.priceMax = base.priceMin]}
    \cup {[base EXCEPT !.category = c] : c \in Existing(parent)}

CatalogueNext ==
  \/ \E s \in Staff :
       \/ OpenEditor(s) \/ ReadRow(s) \/ Update(s) \/ Refused(s) \/ CloseEditor(s)
       \/ form[s].at = "open" /\ \E draft \in Drafts(form[s].base) : Edit(s, draft)
       \/ (\E c \in Category : OpenCategory(s, c)) \/ CloseCategory(s)
       \/ \E p \in Category \cup {NoCategory} : UpdateCategory(s, p)
  \/ \E n \in 0..2 : CountShelf(n)
  \/ Archive \/ Restore
  \/ \E c \in Category : RemoveCategory(c)
  \/ \E c \in Category, p \in Category \cup {NoCategory} : CreateCategory(c, p)

CatalogueSpec == CatalogueInit /\ [][CatalogueNext]_catalogueVars

-----------------------------------------------------------------------------
(* What the pages make of the rows.                                        *)

ChildrenOf(rows, p) == {c \in Existing(rows) : rows[c] = p}

OwnCount(p, c) == IF p.isActive /\ ~p.isTradeOnly /\ p.category = c THEN 1 ELSE 0

\* Mutant: the totals of the lines, not their own counts, are added up.
TotalsOfTotals(rows, p, c) ==
  OwnCount(p, c)
    + (IF \E d \in ChildrenOf(rows, c) :
             d = p.category \/ p.category \in ChildrenOf(rows, d)
       THEN OwnCount(p, p.category) ELSE 0)

\* CategoriesService.list: a category's own products and those of its lines.
ShownCount(rows, p, c) ==
  OwnCount(p, c)
    + (IF p.category \in ChildrenOf(rows, c) THEN OwnCount(p, p.category) ELSE 0)

\* ProductsService.list for a shopper who filters by a category.
Lists(rows, p, c) ==
  /\ p.isActive /\ ~p.isTradeOnly /\ p.category # NoCategory
  /\ p.category = c \/ rows[p.category] = c

(***************************************************************************)
(* A save changes what its user changed and nothing else ("so a concurrent *)
(* stock count is never overwritten", product-form.tsx:135), and leaves    *)
(* the price range in order, although the API checks it against a row that *)
(* somebody may write before the second statement (products.service.ts:165).*)
(***************************************************************************)
SavesKeepOthers ==
  [][\A s \in Staff :
       form[s].at = "read" /\ form'[s].at = "closed" =>
         /\ \A f \in DOMAIN product \ Ends :
              form[s].draft[f] = form[s].base[f] => product'[f] = product[f]
         /\ (product'.priceMin = 0) = (product'.priceMax = 0)
         /\ InOrder(product'.priceMin, product'.priceMax)]_catalogueVars

(***************************************************************************)
(* The number of products beside a category is the number its page lists   *)
(* ("matching the catalog filter, which includes them too",                *)
(* categories.service.ts:41), also once two forms opened on old lists have *)
(* built a third level or a circle of categories.                          *)
(***************************************************************************)
CountsMatchTheFilter ==
  \A c \in Existing(parent) :
    ShownCount(parent, product, c) = IF Lists(parent, product, c) THEN 1 ELSE 0
=============================================================================
