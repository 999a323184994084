------------------------------- MODULE SalesProofs -----------------------------
(***************************************************************************)
(* Proofs about what the school sells and charges: Catalog and Fees.           *)
(*                                                                         *)
(* Catalog.  The services look first and write later, without locks.  StillGood    *)
(* says what the look found, of the tables as they are now; it is kept for the      *)
(* requests in alone, and the three promises follow from it.  For the others only     *)
(* the kinds of rows are certain, since no row changes its kind: that is ShelfJobFits,      *)
(* and it keeps the tables in order.                                             *)
(*                                                                         *)
(* Fees.  An invoice is drawn up in one step, so that it adds up is a fact about the   *)
(* sums that step takes (SumTheorems); FeesInv carries it from the drafts of a       *)
(* request to the invoices of the school, with the numbers that keep drafts of          *)
(* different requests apart.                                                       *)
(***************************************************************************)
EXTENDS Catalog, Fees, FiniteSetTheorems, SumTheorems, TLAPS

ShelfFits == shelf \in [ShelfIds -> ShelfRows \cup {Vacant}] /\ CategoriesKnown(shelf)
ContentFits ==
  /\ content \subseteq Items
  /\ \A e \in content : shelf[e.package].kind = "package"
  /\ \A e, f \in content : e.package = f.package /\ e.product = f.product => e = f
BegunFits == begun \in 0 .. MaxRequests

\* What request j knows of the shelf S, even when others have written.
ShelfJobFits(j, S) ==
  /\ j \in {NoJob} \cup NewJobs \cup FillJobs \cup TakeJobs \cup AmountJobs \/ j.kind \in {"edit", "retire"}
  /\ j.kind = "new" => /\ j.row.kind = "product" => S[j.row.category].kind = "category"
                       /\ j.row.kind # "package" => j.products = {}
  /\ j.kind = "fill" => S[j.package].kind = "package"
  /\ j.kind \in {"edit", "retire"} =>
       /\ j.ids \subseteq ShelfIds
       /\ \A i \in j.ids : S[i].kind \in DOMAIN ShelfFields /\ EditFits(S[i].kind, j.change)
       /\ "category" \in DOMAIN j.change => j.ids = {} \/ S[j.change.category].kind = "category"
  /\ j.kind = "retire" => j.change = [on |-> FALSE]
ShelfJobsFit == DOMAIN job = Sessions /\ \A s \in Sessions : ShelfJobFits(job[s], shelf)

OfferedIn(S, i, kind) == S[i].kind = kind /\ S[i].on

\* What request j has found out, if the shelf S and the items C are as it saw them.
StillGood(j, S, C) ==
  /\ j.kind = "new" =>
       /\ j.row.kind = "category" => \A i \in ShelfIds : S[i].kind = "category" => S[i].name # j.row.name
       /\ j.row.kind = "product" => \A i \in ShelfIds : OfferedIn(S, i, "product") => S[i].name # j.row.name
  /\ j.kind \in {"edit", "retire"} => \A i \in j.ids : j.copies[i] = S[i]
  /\ j.kind = "edit" /\ "name" \in DOMAIN j.change =>
       \E i \in ShelfIds :
         /\ j.ids = {i}
         /\ \/ j.change.name = S[i].name
            \/ \A k \in ShelfIds \ {i} : OfferedIn(S, k, S[i].kind) => S[k].name # j.change.name
  /\ j.kind = "retire" =>
       \A i \in j.ids :
         /\ S[i].kind = "category" => \A k \in ShelfIds : OfferedIn(S, k, "product") => S[k].category # i
         /\ S[i].kind = "product" => \A e \in C : e.product # i
  /\ j.kind = "take" =>
       \E e, f \in C : e.package = j.package /\ f.package = j.package /\ e.product # f.product
ShelfAloneFits == \A s \in alone : s \in Sessions /\ StillGood(job[s], shelf, content)

CatalogInv == ShelfFits /\ ContentFits /\ BegunFits /\ ShelfJobsFit /\ ShelfAloneFits

-----------------------------------------------------------------------------
(* Rows and requests. *)

\* Rows keep their kind; only ids that were not given out get one.
KindsStay == \A i \in ShelfIds : shelf[i].kind # "vacant" => shelf'[i].kind = shelf[i].kind

\* The kind of a row says which fields it has.
LEMMA ShelfRowKinds ==
  ASSUME NEW r \in ShelfRows
  PROVE  /\ r.kind = "category" => r \in CategoryRows
         /\ r.kind = "product" => r \in ProductRows
         /\ r.kind = "package" => r \in PackageRows
         /\ r.kind \in {"category", "product", "package"}
BY DEF ShelfRows, CategoryRows, ProductRows, PackageRows

LEMMA ShelfKinds ==
  ASSUME ShelfFits, NEW i \in ShelfIds
  PROVE  /\ shelf[i].kind # "vacant" => shelf[i] \in ShelfRows
         /\ shelf[i].kind = "vacant" <=> shelf[i] = Vacant
         /\ shelf[i].kind = "product" => shelf[i].category \in ShelfIds /\ shelf[shelf[i].category].kind = "category"
<1>1. shelf[i] \in ShelfRows \/ shelf[i] = Vacant
  BY DEF ShelfFits
<1>2. shelf[i].kind = "product" => shelf[i].category \in ShelfIds
  BY <1>1, ShelfRowKinds DEF Vacant, ProductRows
<1> QED
  BY <1>1, <1>2, ShelfRowKinds DEF Vacant, ShelfFits, CategoriesKnown

LEMMA CatalogJobKinds ==
  ASSUME NEW j, NEW S, ShelfJobFits(j, S)
  PROVE  /\ j.kind = "new" => j \in NewJobs
         /\ j.kind = "fill" => j \in FillJobs
         /\ j.kind = "take" => j \in TakeJobs
         /\ j.kind = "amount" => j \in AmountJobs
BY DEF ShelfJobFits, NewJobs, FillJobs, TakeJobs, AmountJobs, NoJob

LEMMA NoShelfToFit == \A S, C : ShelfJobFits(NoJob, S) /\ StillGood(NoJob, S, C)
BY DEF ShelfJobFits, StillGood, NoJob

LEMMA ShelfFitsStay ==
  ASSUME ShelfFits, KindsStay, NEW j, ShelfJobFits(j, shelf)
  PROVE  ShelfJobFits(j, shelf')
<1>1. ASSUME j.kind = "new", j.row.kind = "product" PROVE shelf'[j.row.category].kind = "category"
  <2>1. j.row \in ProductRows /\ j.row.category \in ShelfIds
    BY <1>1, CatalogJobKinds, ShelfRowKinds DEF NewJobs, ProductRows
  <2> QED
    BY <1>1, <2>1 DEF ShelfJobFits, KindsStay
<1>2. ASSUME j.kind = "fill" PROVE shelf'[j.package].kind = "package"
  <2>1. j.package \in ShelfIds
    BY <1>2, CatalogJobKinds DEF FillJobs
  <2> QED
    BY <1>2, <2>1 DEF ShelfJobFits, KindsStay
<1>3. ASSUME j.kind \in {"edit", "retire"}
      PROVE  /\ \A i \in j.ids : shelf'[i].kind \in DOMAIN ShelfFields /\ EditFits(shelf'[i].kind, j.change)
             /\ "category" \in DOMAIN j.change => j.ids = {} \/ shelf'[j.change.category].kind = "category"
  <2>1. ASSUME NEW i \in j.ids PROVE i \in ShelfIds /\ shelf[i].kind # "vacant" /\ shelf'[i].kind = shelf[i].kind
    BY <1>3 DEF ShelfJobFits, KindsStay, ShelfFields
  <2>2. ASSUME NEW i \in j.ids, "category" \in DOMAIN j.change PROVE j.change.category \in ShelfIds
    BY <1>3, <2>1, <2>2 DEF ShelfJobFits, EditFits, ShelfFields
  <2> QED
    BY <1>3, <2>1, <2>2 DEF ShelfJobFits, KindsStay
<1> QED
  BY <1>1, <1>2, <1>3 DEF ShelfJobFits

\* A commit gives a row of the same kind, with the fields the request assigned or
\* those it had.
LEMMA ShelfFlushedField ==
  ASSUME NEW r, NEW c, NEW h, NEW f \in DOMAIN r
  PROVE  Flushed(r, c, h)[f] = r[f] \/ (f \in DOMAIN h /\ Flushed(r, c, h)[f] = h[f])
BY DEF Flushed

LEMMA FlushedRow ==
  ASSUME NEW r \in ShelfRows, NEW c, NEW h, EditFits(r.kind, h)
  PROVE  /\ Flushed(r, c, h) \in ShelfRows /\ Flushed(r, c, h).kind = r.kind
         /\ r.kind = "product" => \/ Flushed(r, c, h).category = r.category
                                  \/ "category" \in DOMAIN h /\ Flushed(r, c, h).category = h.category
<1> DEFINE q == Flushed(r, c, h)
<1>1. q = [f \in DOMAIN r |-> q[f]] /\ DOMAIN q = DOMAIN r
  BY DEF Flushed
<1>2. \A f \in DOMAIN r : q[f] = r[f] \/ (f \in DOMAIN h /\ q[f] = h[f])
  BY ShelfFlushedField
<1> HIDE DEF q
<1>3. CASE r \in CategoryRows
  <2>1. r.kind = "category" /\ DOMAIN r = {"kind", "name", "on"} /\ r.name \in STRING /\ r.on \in BOOLEAN
    BY <1>3 DEF CategoryRows
  <2>2. q.kind = "category" /\ q.name \in STRING /\ q.on \in BOOLEAN
    BY <1>2, <2>1 DEF EditFits, ShelfFields
  <2>3. q = [kind |-> q.kind, name |-> q.name, on |-> q.on]
    BY <1>1, <2>1
  <2>4. q \in CategoryRows
    BY <2>2, <2>3 DEF CategoryRows
  <2> QED
    BY <2>1, <2>2, <2>4 DEF ShelfRows, q
<1>4. CASE r \in ProductRows
  <2>1. /\ r.kind = "product" /\ DOMAIN r = {"kind", "name", "sku", "category", "on"} /\ r.name \in STRING
        /\ r.sku \in STRING /\ r.category \in ShelfIds /\ r.on \in BOOLEAN
    BY <1>4 DEF ProductRows
  <2>2. q.kind = "product" /\ q.name \in STRING /\ q.sku \in STRING /\ q.category \in ShelfIds /\ q.on \in BOOLEAN
    BY <1>2, <2>1 DEF EditFits, ShelfFields
  <2>3. q = [kind |-> q.kind, name |-> q.name, sku |-> q.sku, category |-> q.category, on |-> q.on]
    BY <1>1, <2>1
  <2>4. q \in ProductRows
    BY <2>2, <2>3 DEF ProductRows
  <2>5. q.category = r.category \/ ("category" \in DOMAIN h /\ q.category = h.category)
    BY <1>2, <2>1
  <2> QED
    BY <2>1, <2>2, <2>4, <2>5 DEF ShelfRows, q
<1>5. CASE r \in PackageRows
  <2>1. r.kind = "package" /\ DOMAIN r = {"kind", "on"} /\ r.on \in BOOLEAN
    BY <1>5 DEF PackageRows
  <2>2. q.kind = "package" /\ q.on \in BOOLEAN
    BY <1>2, <2>1 DEF EditFits, ShelfFields
  <2>3. q = [kind |-> q.kind, on |-> q.on]
    BY <1>1, <2>1
  <2>4. q \in PackageRows
    BY <2>2, <2>3 DEF PackageRows
  <2> QED
    BY <2>1, <2>2, <2>4 DEF ShelfRows, q
<1> QED
  BY <1>3, <1>4, <1>5 DEF ShelfRows

\* When the copy is the row, the commit writes what was assigned.
LEMMA FlushedFresh ==
  ASSUME NEW r, NEW h, NEW f \in DOMAIN r
  PROVE  Flushed(r, r, h)[f] = (IF f \in DOMAIN h THEN h[f] ELSE r[f])
BY DEF Flushed

-----------------------------------------------------------------------------
(* What is left to show when a step has done its tables. *)

LEMMA ShelfRequestStep ==
  ASSUME CatalogInv, ShelfFits', KindsStay, NEW s \in Sessions, NEW j,
         job' = [job EXCEPT ![s] = j], ShelfJobFits(j, shelf)
  PROVE  ShelfJobsFit' /\ job'[s] = j /\ \A k \in Sessions \ {s} : job'[k] = job[k]
<1>1. DOMAIN job' = Sessions /\ job'[s] = j /\ \A k \in Sessions \ {s} : job'[k] = job[k]
  BY DEF CatalogInv, ShelfJobsFit
<1>2. ShelfFits /\ \A k \in Sessions : ShelfJobFits(job'[k], shelf)
  BY <1>1 DEF CatalogInv, ShelfJobsFit
<1>3. \A k \in Sessions : ShelfJobFits(job'[k], shelf')
  BY <1>2, ShelfFitsStay
<1> QED
  BY <1>1, <1>3 DEF ShelfJobsFit

\* A request that is still alone saw the tables as they are.
LEMMA ShelfAloneStep ==
  ASSUME CatalogInv, NEW kinds, Watch(kinds, UNCHANGED <<shelf, content>>), NEW s \in Sessions, NEW j,
         job'[s] = j, \A k \in Sessions \ {s} : job'[k] = job[k],
         j = NoJob \/ (shelf' = shelf /\ content' = content /\ StillGood(j, shelf, content))
  PROVE  ShelfAloneFits'
<1> SUFFICES ASSUME NEW k \in alone' PROVE k \in Sessions /\ StillGood(job'[k], shelf', content')
  BY DEF ShelfAloneFits
<1>1. k \in Sessions /\ (Idle(k) \/ (k \in alone /\ shelf' = shelf /\ content' = content))
  BY DEF Watch
<1>2. CASE k = s
  BY <1>1, <1>2, NoShelfToFit
<1>3. CASE k # s
  <2>1. CASE Idle(k)
    BY <1>1, <1>3, <2>1, NoShelfToFit DEF Idle
  <2>2. CASE k \in alone /\ shelf' = shelf /\ content' = content
    BY <1>1, <1>3, <2>2 DEF CatalogInv, ShelfAloneFits
  <2> QED
    BY <1>1, <2>1, <2>2
<1> QED
  BY <1>1, <1>2, <1>3

LEMMA SameShelf ==
  ASSUME CatalogInv, shelf' = shelf, content' = content
  PROVE  ShelfFits' /\ ContentFits' /\ KindsStay
BY DEF CatalogInv, ShelfFits, ContentFits, KindsStay

\* A request that has passed its checks.
LEMMA StartStep ==
  ASSUME CatalogInv, NEW kinds, Watch(kinds, UNCHANGED <<shelf, content>>), NEW s \in Sessions, NEW j,
         Starts(s, j), ShelfJobFits(j, shelf), StillGood(j, shelf, content)
  PROVE  CatalogInv'
<1>1. shelf' = shelf /\ content' = content /\ job' = [job EXCEPT ![s] = j]
  BY DEF Starts, Begin
<1>2. ShelfFits' /\ ContentFits' /\ KindsStay
  BY <1>1, SameShelf
<1>3. BegunFits'
  BY CatalogAssumption DEF CatalogInv, BegunFits, Starts
<1>4. ShelfJobsFit' /\ job'[s] = j /\ \A k \in Sessions \ {s} : job'[k] = job[k]
  BY <1>1, <1>2, ShelfRequestStep
<1>5. ShelfAloneFits'
  BY <1>1, <1>4, ShelfAloneStep
<1> QED
  BY <1>2, <1>3, <1>4, <1>5 DEF CatalogInv

\* A request that ends.
LEMMA ShelfEndStep ==
  ASSUME CatalogInv, NEW kinds, Watch(kinds, UNCHANGED <<shelf, content>>), NEW s \in Sessions,
         EndJob(s), ShelfFits', ContentFits', KindsStay, begun' = begun
  PROVE  CatalogInv'
<1>1. ShelfJobsFit' /\ job'[s] = NoJob /\ \A k \in Sessions \ {s} : job'[k] = job[k]
  BY ShelfRequestStep, NoShelfToFit DEF EndJob
<1>2. ShelfAloneFits'
  BY <1>1, ShelfAloneStep
<1>3. BegunFits'
  BY DEF CatalogInv, BegunFits
<1> QED
  BY <1>1, <1>2, <1>3 DEF CatalogInv

-----------------------------------------------------------------------------
(* The steps, one by one. *)

LEMMA ShelfJobOf ==
  ASSUME CatalogInv, NEW s \in Sessions
  PROVE  ShelfJobFits(job[s], shelf)
BY DEF CatalogInv, ShelfJobsFit

\* Requests that began alone.
LEMMA NewReadKeeps ==
  ASSUME CatalogInv, NEW kinds, Watch(kinds, UNCHANGED <<shelf, content>>), NEW s \in Sessions,
         NEW w \in Wanted, NewRead(s, w.row, w.products)
  PROVE  CatalogInv'
<1> DEFINE j == [kind |-> "new", row |-> w.row, products |-> w.products]
<1>1. j \in NewJobs /\ (w.row.kind # "package" => w.products = {})
  BY CatalogAssumption DEF NewJobs
<1>2. CheckNew(w.row, w.products) /\ Starts(s, j)
  BY DEF NewRead
<1>3. w.row.kind = "category" => NewCategory(w.row)
  BY <1>2 DEF CheckNew
<1>4. w.row.kind = "product" => NewProduct(w.row)
  BY <1>2 DEF CheckNew
<1>5. ShelfJobFits(j, shelf)
  BY <1>1, <1>4 DEF ShelfJobFits, NewProduct, OnShelf
<1>6. StillGood(j, shelf, content)
  BY <1>3, <1>4 DEF StillGood, NewCategory, NewProduct, OnShelf, Offered, OfferedIn
<1> HIDE DEF j
<1> QED
  BY <1>2, <1>5, <1>6, StartStep

LEMMA ShelfEditReadKeeps ==
  ASSUME CatalogInv, NEW kinds, Watch(kinds, UNCHANGED <<shelf, content>>), NEW s \in Sessions,
         NEW i \in ShelfIds, NEW c \in ShelfEdits, EditRead(s, i, c)
  PROVE  CatalogInv'
<1> DEFINE j == EditOf("edit", {i}, c.fields)
<1>1. /\ j.kind = "edit" /\ j.ids = {i} /\ j.change = c.fields /\ j.copies[i] = shelf[i]
      /\ Starts(s, j) /\ CheckEdit(i, c.fields) /\ shelf[i].kind = c.kind
  BY DEF EditRead, EditOf
<1> HIDE DEF j
<1>2. shelf[i].kind \in DOMAIN ShelfFields /\ EditFits(shelf[i].kind, c.fields)
  BY <1>1, CatalogAssumption
<1>3. ShelfJobFits(j, shelf)
  BY <1>1, <1>2 DEF ShelfJobFits, CheckEdit, OnShelf
<1>4. "name" \in DOMAIN c.fields => NameFree(i, c.fields.name)
  BY <1>1 DEF CheckEdit
<1>5. ASSUME "name" \in DOMAIN c.fields
      PROVE  \/ c.fields.name = shelf[i].name
             \/ \A k \in ShelfIds \ {i} : OfferedIn(shelf, k, shelf[i].kind) => shelf[k].name # c.fields.name
  BY <1>4, <1>5 DEF NameFree, Offered, OnShelf, OfferedIn
<1>6. StillGood(j, shelf, content)
  BY <1>1, <1>5 DEF StillGood
<1> QED
  BY <1>1, <1>3, <1>6, StartStep

LEMMA MoveReadKeeps ==
  ASSUME CatalogInv, NEW kinds, Watch(kinds, UNCHANGED <<shelf, content>>), NEW s \in Sessions,
         NEW c \in ShelfIds, NEW ids \in SUBSET OnShelf("product"), MoveRead(s, ids, c)
  PROVE  CatalogInv'
<1> DEFINE j == EditOf("edit", ids, [category |-> c])
<1>1. /\ j.kind = "edit" /\ j.ids = ids /\ j.change = [category |-> c]
      /\ \A i \in ids : j.copies[i] = shelf[i]
      /\ Starts(s, j) /\ shelf[c].kind = "category"
  BY DEF MoveRead, EditOf, OnShelf
<1> HIDE DEF j
<1>2. DOMAIN j.change = {"category"} /\ j.change.category = c
  BY <1>1
<1>3. \A i \in ids : i \in ShelfIds /\ shelf[i].kind = "product"
  BY DEF OnShelf
<1>4. EditFits("product", j.change) /\ "product" \in DOMAIN ShelfFields
  BY <1>2 DEF EditFits, ShelfFields
<1>5. ShelfJobFits(j, shelf)
  BY <1>1, <1>2, <1>3, <1>4 DEF ShelfJobFits
<1>6. StillGood(j, shelf, content)
  BY <1>1, <1>2 DEF StillGood
<1> QED
  BY <1>1, <1>5, <1>6, StartStep

LEMMA RetireReadKeeps ==
  ASSUME CatalogInv, NEW kinds, Watch(kinds, UNCHANGED <<shelf, content>>), NEW s \in Sessions,
         NEW i \in ShelfIds, RetireRead(s, i)
  PROVE  CatalogInv'
<1> DEFINE j == EditOf("retire", {i}, [on |-> FALSE])
<1>1. /\ j.kind = "retire" /\ j.ids = {i} /\ j.change = [on |-> FALSE] /\ j.copies[i] = shelf[i]
      /\ Starts(s, j) /\ CheckRetire(i)
  BY DEF RetireRead, EditOf
<1> HIDE DEF j
<1>2. DOMAIN j.change = {"on"} /\ j.change.on = FALSE
  BY <1>1
<1>3. shelf[i].kind \in {"category", "product", "package"}
  BY <1>1 DEF CheckRetire
<1>4. shelf[i].kind \in DOMAIN ShelfFields /\ EditFits(shelf[i].kind, j.change)
  <2>1. /\ EditFits("category", j.change)
        /\ EditFits("product", j.change)
        /\ EditFits("package", j.change)
    <3>1. /\ "on" \in DOMAIN ShelfFields["category"] /\ FALSE \in ShelfFields["category"]["on"]
          /\ "on" \in DOMAIN ShelfFields["product"] /\ FALSE \in ShelfFields["product"]["on"]
          /\ "on" \in DOMAIN ShelfFields["package"] /\ FALSE \in ShelfFields["package"]["on"]
      BY DEF ShelfFields
    <3>2. \A f \in DOMAIN j.change : f = "on" /\ j.change[f] = FALSE
      BY <1>2
    <3> QED
      BY <3>1, <3>2 DEF EditFits
  <2>2. DOMAIN ShelfFields = {"category", "product", "package"}
    BY DEF ShelfFields
  <2> QED
    BY <1>3, <2>1, <2>2
<1>5. ShelfJobFits(j, shelf)
  BY <1>1, <1>2, <1>4 DEF ShelfJobFits
<1>6. shelf[i].kind = "category" => \A k \in ShelfIds : OfferedIn(shelf, k, "product") => shelf[k].category # i
  BY <1>1 DEF CheckRetire, NoneOffered, Offered, OnShelf, OfferedIn
<1>7. shelf[i].kind = "product" => \A e \in content : e.product # i
  BY <1>1 DEF CheckRetire, Unpacked
<1>8. StillGood(j, shelf, content)
  BY <1>1, <1>6, <1>7 DEF StillGood
<1> QED
  BY <1>1, <1>5, <1>8, StartStep

LEMMA FillReadKeeps ==
  ASSUME CatalogInv, NEW kinds, Watch(kinds, UNCHANGED <<shelf, content>>), NEW s \in Sessions,
         NEW k \in ShelfIds, NEW i \in ShelfIds, FillRead(s, k, {i})
  PROVE  CatalogInv'
<1> DEFINE j == [kind |-> "fill", package |-> k, products |-> {i}]
<1>1. Starts(s, j) /\ j \in FillJobs /\ shelf[k].kind = "package"
  BY DEF FillRead, FillJobs, OnShelf
<1>2. ShelfJobFits(j, shelf) /\ StillGood(j, shelf, content)
  BY <1>1 DEF ShelfJobFits, StillGood
<1> HIDE DEF j
<1> QED
  BY <1>1, <1>2, StartStep

\* More than one item are items of two products.
LEMMA TwoItems ==
  ASSUME ContentFits, NEW k \in ShelfIds, NEW i \in ShelfIds, CheckTake(k, i)
  PROVE  \E e, f \in content : e.package = k /\ f.package = k /\ e.product # f.product
<1>1. PICK e \in ContentOf(k) : e.product = i
  BY DEF CheckTake
<1>2. ContentOf(k) # {e}
  <2>1. Cardinality({e}) = 1 /\ Cardinality(ContentOf(k)) > 1
    BY FS_Singleton DEF CheckTake
  <2> QED
    BY <2>1
<1>3. PICK f \in ContentOf(k) : f # e
  BY <1>1, <1>2
<1> QED
  BY <1>1, <1>3 DEF ContentFits, ContentOf

LEMMA TakeReadKeeps ==
  ASSUME CatalogInv, NEW kinds, Watch(kinds, UNCHANGED <<shelf, content>>), NEW s \in Sessions,
         NEW k \in ShelfIds, NEW i \in ShelfIds, TakeRead(s, k, i)
  PROVE  CatalogInv'
<1> DEFINE j == [kind |-> "take", package |-> k, product |-> i]
<1>1. Starts(s, j) /\ j \in TakeJobs /\ CheckTake(k, i)
  BY DEF TakeRead, TakeJobs
<1>2. \E e, f \in content : e.package = k /\ f.package = k /\ e.product # f.product
  BY <1>1, TwoItems DEF CatalogInv
<1>3. ShelfJobFits(j, shelf) /\ StillGood(j, shelf, content)
  BY <1>1, <1>2 DEF ShelfJobFits, StillGood
<1> HIDE DEF j
<1> QED
  BY <1>1, <1>3, StartStep

LEMMA AmountReadKeeps ==
  ASSUME CatalogInv, NEW kinds, Watch(kinds, UNCHANGED <<shelf, content>>), NEW s \in Sessions,
         NEW e \in content, AmountRead(s, e, 2)
  PROVE  CatalogInv'
<1> DEFINE j == [kind |-> "amount", item |-> e, quantity |-> 2]
<1>1. Starts(s, j) /\ e \in Items /\ 2 \in 1 .. 100
  BY DEF AmountRead, CatalogInv, ContentFits
<1>2. j \in AmountJobs
  BY <1>1 DEF AmountJobs
<1>3. ShelfJobFits(j, shelf) /\ StillGood(j, shelf, content)
  BY <1>2 DEF ShelfJobFits, StillGood
<1> HIDE DEF j
<1> QED
  BY <1>1, <1>3, StartStep

\* Commits.  The shelf after a step is in order when each product has a category
\* that was one before.
LEMMA ShelfStep ==
  ASSUME ShelfFits, KindsStay, shelf' \in [ShelfIds -> ShelfRows \cup {Vacant}],
         \A k \in ShelfIds : shelf'[k].kind = "product" =>
           shelf'[k].category \in ShelfIds /\ shelf[shelf'[k].category].kind = "category"
  PROVE  ShelfFits'
<1>1. \A k \in ShelfIds : shelf'[k].kind = "product" => shelf'[shelf'[k].category].kind = "category"
  BY DEF KindsStay
<1> QED
  BY <1>1 DEF ShelfFits, CategoriesKnown

\* Items that were there are of packages still.
LEMMA ItemsStay ==
  ASSUME CatalogInv, KindsStay, NEW e \in content
  PROVE  e \in Items /\ shelf'[e.package].kind = "package"
BY DEF CatalogInv, ContentFits, KindsStay, Items

\* New items of a package, of products it does not have.
LEMMA ItemsAdded ==
  ASSUME CatalogInv, KindsStay, NEW k \in ShelfIds, NEW products \in SUBSET ShelfIds,
         products # {} => shelf'[k].kind = "package",
         \A e \in content : e.package = k => e.product \notin products,
         content' = content \cup {[package |-> k, product |-> p, quantity |-> 1] : p \in products}
  PROVE  ContentFits'
<1> DEFINE new == {[package |-> k, product |-> p, quantity |-> 1] : p \in products}
<1>1. \A e \in new : e \in Items /\ e.package = k /\ e.product \in products /\ e.quantity = 1
                     /\ shelf'[e.package].kind = "package"
  BY DEF Items
<1>2. \A e, f \in new : e.product = f.product => e = f
  OBVIOUS
<1>3. content' = content \cup new
  OBVIOUS
<1> HIDE DEF new
<1>4. content' \subseteq Items /\ \A e \in content' : shelf'[e.package].kind = "package"
  BY <1>1, <1>3, ItemsStay
<1>5. ASSUME NEW e \in content', NEW f \in content', e.package = f.package, e.product = f.product PROVE e = f
  <2>1. CASE e \in content /\ f \in content
    BY <1>5, <2>1 DEF CatalogInv, ContentFits
  <2>2. CASE e \in new /\ f \in new
    BY <1>2, <1>5, <2>2
  <2>3. CASE e \in content /\ f \in new
    BY <1>1, <1>5, <2>3
  <2>4. CASE e \in new /\ f \in content
    BY <1>1, <1>5, <2>4
  <2> QED
    BY <1>3, <2>1, <2>2, <2>3, <2>4
<1> QED
  BY <1>4, <1>5 DEF ContentFits

LEMMA NewCommitKeeps ==
  ASSUME CatalogInv, NEW kinds, Watch(kinds, UNCHANGED <<shelf, content>>), NEW s \in Sessions, NewCommit(s)
  PROVE  CatalogInv'
<1>1. job[s] \in NewJobs /\ job[s].kind = "new" /\ ShelfJobFits(job[s], shelf)
  BY ShelfJobOf, CatalogJobKinds DEF NewCommit, Working
<1> DEFINE r == job[s].row
           products == job[s].products
<1>2. r \in ShelfRows /\ products \in SUBSET ShelfIds
  BY <1>1 DEF NewJobs
<1>3. /\ r.kind = "product" => r.category \in ShelfIds /\ shelf[r.category].kind = "category"
      /\ r.kind # "package" => products = {}
      /\ r.kind \in {"category", "product", "package"}
  BY <1>1, <1>2, ShelfRowKinds DEF ShelfJobFits, ProductRows
<1>4. PICK i \in ShelfIds :
        /\ shelf[i].kind = "vacant" /\ shelf' = [shelf EXCEPT ![i] = r]
        /\ content' = content \cup {[package |-> i, product |-> p, quantity |-> 1] : p \in products}
  BY DEF NewCommit, OnShelf
<1>5. EndJob(s) /\ begun' = begun
  BY DEF NewCommit
<1> HIDE DEF r, products
<1>6. shelf'[i] = r /\ (\A k \in ShelfIds \ {i} : shelf'[k] = shelf[k]) /\ ShelfFits
      /\ shelf' \in [ShelfIds -> ShelfRows \cup {Vacant}]
  BY <1>2, <1>4 DEF CatalogInv, ShelfFits
<1>7. KindsStay
  BY <1>4, <1>6 DEF KindsStay
<1>8. ShelfFits'
  <2>1. ASSUME NEW k \in ShelfIds, shelf'[k].kind = "product"
        PROVE  shelf'[k].category \in ShelfIds /\ shelf[shelf'[k].category].kind = "category"
    BY <1>3, <1>6, <2>1, ShelfKinds
  <2> QED
    BY <1>6, <1>7, <2>1, ShelfStep
<1>9. \A e \in content : e.package # i
  BY <1>4 DEF CatalogInv, ContentFits
<1>10. ContentFits'
  BY <1>2, <1>3, <1>4, <1>6, <1>7, <1>9, ItemsAdded
<1> QED
  BY <1>5, <1>7, <1>8, <1>10, ShelfEndStep

LEMMA EditCommitKeeps ==
  ASSUME CatalogInv, NEW kinds, Watch(kinds, UNCHANGED <<shelf, content>>), NEW s \in Sessions, EditCommit(s)
  PROVE  CatalogInv'
<1> DEFINE j == job[s]
<1>1. j.kind \in {"edit", "retire"} /\ ShelfJobFits(j, shelf) /\ ShelfFits
  BY ShelfJobOf DEF EditCommit, Working, CatalogInv
<1>2. /\ shelf' = [i \in ShelfIds |-> IF i \in j.ids THEN Flushed(shelf[i], j.copies[i], j.change) ELSE shelf[i]]
      /\ EndJob(s) /\ begun' = begun /\ content' = content
  BY DEF EditCommit
<1> HIDE DEF j
<1>3. ASSUME NEW i \in j.ids
      PROVE  /\ shelf[i] \in ShelfRows /\ shelf'[i] \in ShelfRows /\ shelf'[i].kind = shelf[i].kind
             /\ shelf'[i].kind = "product" =>
                  shelf'[i].category \in ShelfIds /\ shelf[shelf'[i].category].kind = "category"
  <2>1. i \in ShelfIds /\ shelf[i].kind \in DOMAIN ShelfFields /\ EditFits(shelf[i].kind, j.change)
    BY <1>1 DEF ShelfJobFits
  <2>2. shelf[i] \in ShelfRows
    BY <1>1, <2>1, ShelfKinds DEF ShelfFields
  <2>3. shelf'[i] = Flushed(shelf[i], j.copies[i], j.change)
    BY <1>2, <2>1
  <2>4. /\ shelf'[i] \in ShelfRows /\ shelf'[i].kind = shelf[i].kind
        /\ shelf[i].kind = "product" => \/ shelf'[i].category = shelf[i].category
                                        \/ "category" \in DOMAIN j.change /\ shelf'[i].category = j.change.category
    BY <2>1, <2>2, <2>3, FlushedRow
  <2>5. shelf'[i].kind = "product" => shelf'[i].category \in ShelfIds
    BY <2>4, ShelfRowKinds DEF ProductRows
  <2>6. "category" \in DOMAIN j.change => shelf[j.change.category].kind = "category"
    BY <1>1 DEF ShelfJobFits
  <2> QED
    BY <1>1, <2>1, <2>2, <2>4, <2>5, <2>6, ShelfKinds
<1>4. \A i \in ShelfIds \ j.ids : shelf'[i] = shelf[i]
  BY <1>2
<1>5. KindsStay
  BY <1>3, <1>4 DEF KindsStay
<1>6. shelf' \in [ShelfIds -> ShelfRows \cup {Vacant}]
  <2>1. \A i \in ShelfIds : shelf'[i] \in ShelfRows \cup {Vacant}
    BY <1>1, <1>3, <1>4 DEF ShelfFits
  <2> QED
    BY <1>2, <2>1
<1>7. ShelfFits'
  <2>1. ASSUME NEW k \in ShelfIds, shelf'[k].kind = "product"
        PROVE  shelf'[k].category \in ShelfIds /\ shelf[shelf'[k].category].kind = "category"
    BY <1>1, <1>3, <1>4, <2>1, ShelfKinds
  <2> QED
    BY <1>1, <1>5, <1>6, <2>1, ShelfStep
<1>8. ContentFits'
  BY <1>2, <1>5, ItemsStay DEF CatalogInv, ContentFits
<1> QED
  BY <1>2, <1>5, <1>7, <1>8, ShelfEndStep

LEMMA FillCommitKeeps ==
  ASSUME CatalogInv, NEW kinds, Watch(kinds, UNCHANGED <<shelf, content>>), NEW s \in Sessions, FillCommit(s)
  PROVE  CatalogInv'
<1>1. job[s] \in FillJobs /\ job[s].kind = "fill" /\ shelf[job[s].package].kind = "package"
  BY ShelfJobOf, CatalogJobKinds DEF FillCommit, Working, ShelfJobFits
<1>2. job[s].package \in ShelfIds /\ job[s].products \in SUBSET ShelfIds
  BY <1>1 DEF FillJobs
<1>3. EndJob(s) /\ begun' = begun /\ shelf' = shelf
  BY DEF FillCommit
<1>4. ShelfFits' /\ KindsStay
  BY <1>3 DEF CatalogInv, ShelfFits, KindsStay
<1> DEFINE k == job[s].package
           products == job[s].products
<1>5. /\ content' = content \cup {[package |-> k, product |-> p, quantity |-> 1] : p \in products}
      /\ \A e \in content : e.package = k => e.product \notin products
  BY DEF FillCommit, ContentOf
<1>6. k \in ShelfIds /\ products \in SUBSET ShelfIds /\ shelf'[k].kind = "package"
  BY <1>1, <1>2, <1>3
<1> HIDE DEF k, products
<1>7. ContentFits'
  BY <1>4, <1>5, <1>6, ItemsAdded
<1> QED
  BY <1>3, <1>4, <1>7, ShelfEndStep

LEMMA TakeCommitKeeps ==
  ASSUME CatalogInv, NEW kinds, Watch(kinds, UNCHANGED <<shelf, content>>), NEW s \in Sessions, TakeCommit(s)
  PROVE  CatalogInv'
<1>1. EndJob(s) /\ begun' = begun /\ shelf' = shelf /\ content' \subseteq content
  BY DEF TakeCommit
<1>2. ShelfFits' /\ KindsStay /\ ContentFits'
  BY <1>1 DEF CatalogInv, ShelfFits, KindsStay, ContentFits
<1> QED
  BY <1>1, <1>2, ShelfEndStep

LEMMA AmountCommitKeeps ==
  ASSUME CatalogInv, NEW kinds, Watch(kinds, UNCHANGED <<shelf, content>>), NEW s \in Sessions, AmountCommit(s)
  PROVE  CatalogInv'
<1>1. EndJob(s) /\ begun' = begun /\ shelf' = shelf
  BY DEF AmountCommit
<1>2. ShelfFits' /\ KindsStay /\ ContentFits
  BY <1>1 DEF CatalogInv, ShelfFits, KindsStay
<1>3. CASE job[s].quantity = job[s].item.quantity
  <2>1. content' = content
    BY <1>3 DEF AmountCommit
  <2> QED
    BY <1>1, <2>1, SameShelf, ShelfEndStep
<1>4. CASE job[s].quantity # job[s].item.quantity
  <2> DEFINE same == {e \in content : e.package = job[s].item.package /\ e.product = job[s].item.product}
             new == [job[s].item EXCEPT !.quantity = job[s].quantity]
  <2>1. job[s] \in AmountJobs
    BY ShelfJobOf, CatalogJobKinds DEF AmountCommit, Working
  <2>2. new \in Items /\ new.package = job[s].item.package /\ new.product = job[s].item.product
    BY <2>1 DEF AmountJobs, Items
  <2>3. same # {} /\ content' = (content \ same) \cup {new}
    BY <1>4 DEF AmountCommit
  <2>4. PICK e \in content : e.package = new.package /\ e.product = new.product
    BY <2>2, <2>3
  <2>5. \A f \in content \ same : ~(f.package = new.package /\ f.product = new.product)
    BY <2>2
  <2> HIDE DEF same, new
  <2>6. content' \subseteq Items
    BY <1>2, <2>2, <2>3 DEF ContentFits
  <2>7. ASSUME NEW f \in content' PROVE shelf'[f.package].kind = "package"
    BY <1>1, <1>2, <2>3, <2>4 DEF ContentFits
  <2>8. ASSUME NEW f \in content', NEW g \in content', f.package = g.package, f.product = g.product PROVE f = g
    <3>1. CASE f \in content \ same /\ g \in content \ same
      BY <1>2, <2>8, <3>1 DEF ContentFits
    <3>2. CASE f = new \/ g = new
      BY <2>3, <2>5, <2>8, <3>2
    <3> QED
      BY <2>3, <3>1, <3>2
  <2>9. ContentFits'
    BY <2>6, <2>7, <2>8 DEF ContentFits
  <2> QED
    BY <1>1, <1>2, <2>9, ShelfEndStep
<1> QED
  BY <1>3, <1>4

LEMMA ShelfRequestFailsKeeps ==
  ASSUME CatalogInv, NEW kinds, Watch(kinds, UNCHANGED <<shelf, content>>), NEW s \in Sessions,
         CatalogRequestFails(s)
  PROVE  CatalogInv'
<1>1. EndJob(s) /\ begun' = begun /\ shelf' = shelf /\ content' = content
  BY DEF CatalogRequestFails, catalogVars
<1> QED
  BY <1>1, SameShelf, ShelfEndStep

-----------------------------------------------------------------------------
(* The invariant. *)

LEMMA CatalogInitial == CatalogInit => CatalogInv
<1> SUFFICES ASSUME CatalogInit PROVE CatalogInv
  OBVIOUS
<1>1. ShelfFits
  BY CatalogAssumption DEF CatalogInit, ShelfFits
<1>2. job = [s \in Sessions |-> NoJob] /\ alone = {}
  BY DEF CatalogInit, JobInit
<1>3. ShelfJobsFit /\ ShelfAloneFits
  BY <1>2, NoShelfToFit DEF ShelfJobsFit, ShelfAloneFits
<1>4. BegunFits
  BY CatalogAssumption DEF CatalogInit, BegunFits
<1>5. ContentFits
  <2>1. \A e \in content : \E k \in OnShelf("package"), i \in OnShelf("product") :
          e = [package |-> k, product |-> i, quantity |-> 1]
    BY DEF CatalogInit
  <2>2. ASSUME NEW e \in content
        PROVE  e \in Items /\ shelf[e.package].kind = "package" /\ e.quantity = 1
               /\ e = [package |-> e.package, product |-> e.product, quantity |-> 1]
    BY <2>1 DEF OnShelf, Items
  <2> QED
    BY <2>2 DEF ContentFits
<1> QED
  BY <1>1, <1>3, <1>4, <1>5 DEF CatalogInv

LEMMA CatalogStep == CatalogInv /\ [CatalogNext]_<<job, alone, catalogVars>> => CatalogInv'
<1> SUFFICES ASSUME CatalogInv, [CatalogNext]_<<job, alone, catalogVars>> PROVE CatalogInv'
  OBVIOUS
<1>1. CASE CatalogNext
  <2> DEFINE kinds == {"new", "edit", "retire", "fill", "take"}
  <2>1. Watch(kinds, UNCHANGED <<shelf, content>>)
    BY <1>1 DEF CatalogNext
  <2> HIDE DEF kinds
  <2>2. ASSUME NEW s \in Sessions, NEW w \in Wanted, NewRead(s, w.row, w.products) PROVE CatalogInv'
    BY <2>1, <2>2, NewReadKeeps
  <2>3. ASSUME NEW s \in Sessions, NEW i \in ShelfIds, NEW c \in ShelfEdits, EditRead(s, i, c) PROVE CatalogInv'
    BY <2>1, <2>3, ShelfEditReadKeeps
  <2>4. ASSUME NEW s \in Sessions, NEW i \in ShelfIds, NEW ids \in SUBSET OnShelf("product"), MoveRead(s, ids, i)
        PROVE  CatalogInv'
    BY <2>1, <2>4, MoveReadKeeps
  <2>5. ASSUME NEW s \in Sessions, NEW i \in ShelfIds, RetireRead(s, i) PROVE CatalogInv'
    BY <2>1, <2>5, RetireReadKeeps
  <2>6. ASSUME NEW s \in Sessions, NEW k \in ShelfIds, NEW i \in ShelfIds, FillRead(s, k, {i}) \/ TakeRead(s, k, i)
        PROVE  CatalogInv'
    BY <2>1, <2>6, FillReadKeeps, TakeReadKeeps
  <2>7. ASSUME NEW s \in Sessions, NEW e \in content, AmountRead(s, e, 2) PROVE CatalogInv'
    BY <2>1, <2>7, AmountReadKeeps
  <2>8. ASSUME NEW s \in Sessions,
               \/ NewCommit(s) \/ EditCommit(s) \/ FillCommit(s) \/ TakeCommit(s) \/ AmountCommit(s)
               \/ CatalogRequestFails(s)
        PROVE  CatalogInv'
    BY <2>1, <2>8, NewCommitKeeps, EditCommitKeeps, FillCommitKeeps, TakeCommitKeeps, AmountCommitKeeps,
       ShelfRequestFailsKeeps
  <2> QED
    BY <1>1, <2>2, <2>3, <2>4, <2>5, <2>6, <2>7, <2>8 DEF CatalogNext
<1>2. CASE UNCHANGED <<job, alone, catalogVars>>
  BY <1>2 DEF CatalogInv, ShelfFits, ContentFits, BegunFits, ShelfJobsFit, ShelfAloneFits, catalogVars
<1> QED
  BY <1>1, <1>2

LEMMA CatalogInvariant == CatalogSpec => []CatalogInv
BY CatalogInitial, CatalogStep, PTL DEF CatalogSpec

-----------------------------------------------------------------------------
(* The promises. *)

\* Only commits write, and one request commits at a time.
LEMMA Writers ==
  ASSUME CatalogInv, [CatalogNext]_<<job, alone, catalogVars>>, <<shelf, content>>' # <<shelf, content>>
  PROVE  \E s \in Sessions :
           /\ NewCommit(s) \/ EditCommit(s) \/ FillCommit(s) \/ TakeCommit(s) \/ AmountCommit(s)
           /\ Commits(s) /\ ShelfJobFits(job[s], shelf) /\ (\A k \in Sessions \ {s} : job'[k] = job[k])
<1>1. PICK s \in Sessions : NewCommit(s) \/ EditCommit(s) \/ FillCommit(s) \/ TakeCommit(s) \/ AmountCommit(s)
  BY DEF CatalogNext, catalogVars, NewRead, EditRead, MoveRead, RetireRead, FillRead, TakeRead, AmountRead,
     Starts, CatalogRequestFails
<1>2. EndJob(s) /\ job[s].kind # "none"
  BY <1>1 DEF NewCommit, EditCommit, FillCommit, TakeCommit, AmountCommit, Working
<1>3. job[s] # NoJob /\ job'[s] = NoJob /\ \A k \in Sessions \ {s} : job'[k] = job[k]
  BY <1>2 DEF EndJob, CatalogInv, ShelfJobsFit, NoJob
<1> QED
  BY <1>1, <1>3, ShelfJobOf DEF Commits

\* While it is alone, a removal leaves the item of another product.
LEMMA LastItemStep ==
  ASSUME CatalogInv, [CatalogNext]_<<job, alone, catalogVars>>,
         NEW k \in OnShelf("package"), ContentOf(k) # {}, ContentOf(k)' = {}
  PROVE  \E s \in Sessions : Commits(s) /\ Working(s, "take") /\ s \notin alone
<1>1. PICK e \in content : e.package = k
  BY DEF ContentOf
<1>2. \A f \in content' : f.package # k
  BY DEF ContentOf
<1>3. PICK s \in Sessions :
        /\ NewCommit(s) \/ EditCommit(s) \/ FillCommit(s) \/ TakeCommit(s) \/ AmountCommit(s)
        /\ Commits(s) /\ ShelfJobFits(job[s], shelf)
  BY <1>1, <1>2, Writers
<1>4. CASE NewCommit(s)
  <2>1. content \subseteq content'
    BY <1>4 DEF NewCommit
  <2> QED
    BY <1>1, <1>2, <2>1
<1>5. CASE EditCommit(s) \/ FillCommit(s)
  <2>1. content \subseteq content'
    BY <1>5 DEF EditCommit, FillCommit
  <2> QED
    BY <1>1, <1>2, <2>1
<1>6. CASE AmountCommit(s)
  <2>1. job[s] \in AmountJobs
    BY <1>3, <1>6, CatalogJobKinds DEF AmountCommit, Working
  <2> DEFINE same == {f \in content : f.package = job[s].item.package /\ f.product = job[s].item.product}
             new == [job[s].item EXCEPT !.quantity = job[s].quantity]
  <2>2. content' = content \/ content' = (content \ same) \cup {new}
    BY <1>6 DEF AmountCommit
  <2>3. new.package = job[s].item.package
    BY <2>1 DEF AmountJobs, Items
  <2>4. e \in same => new.package = k
    BY <1>1, <2>3
  <2> HIDE DEF same, new
  <2> QED
    BY <1>1, <1>2, <2>2, <2>4
<1>7. CASE TakeCommit(s)
  <2>1. content' = {f \in content : ~(f.package = job[s].package /\ f.product = job[s].product)}
        /\ job[s].kind = "take"
    BY <1>7 DEF TakeCommit, Working
  <2>2. job[s].package = k
    BY <1>1, <1>2, <2>1
  <2>3. ASSUME s \in alone PROVE FALSE
    <3>1. PICK f \in content, g \in content : f.package = k /\ g.package = k /\ f.product # g.product
      BY <2>1, <2>2, <2>3 DEF CatalogInv, ShelfAloneFits, StillGood
    <3> QED
      BY <1>2, <2>1, <3>1
  <2> QED
    BY <1>3, <2>1, <2>3 DEF Working
<1> QED
  BY <1>3, <1>4, <1>5, <1>6, <1>7

\* Rows i and k on offer are called the same.
Twins(S, i, k) ==
  /\ S[i].kind = S[k].kind /\ S[i].kind \in {"category", "product"} /\ i # k
  /\ S[i].on /\ S[k].on /\ S[i].name = S[k].name

\* A new row of a request that was alone has a name of its own.
LEMMA NewNameStep ==
  ASSUME CatalogInv, NEW s \in alone, NewCommit(s), NEW i \in ShelfIds, NEW k \in ShelfIds, Twins(shelf', i, k)
  PROVE  Twins(shelf, i, k)
<1>1. s \in Sessions /\ StillGood(job[s], shelf, content) /\ job[s].kind = "new"
  BY DEF CatalogInv, ShelfAloneFits, NewCommit, Working
<1> DEFINE r == job[s].row
<1>2. PICK v \in ShelfIds : shelf' = [shelf EXCEPT ![v] = r]
  BY DEF NewCommit, OnShelf
<1>3. shelf'[v] = r /\ \A x \in ShelfIds \ {v} : shelf'[x] = shelf[x]
  BY <1>2 DEF CatalogInv, ShelfFits
<1>4. r.kind = "category" => \A x \in ShelfIds : shelf[x].kind = "category" => shelf[x].name # r.name
  BY <1>1 DEF StillGood
<1>5. r.kind = "product" => \A x \in ShelfIds : shelf[x].kind = "product" /\ shelf[x].on => shelf[x].name # r.name
  BY <1>1 DEF StillGood, OfferedIn
<1> HIDE DEF r
<1>6. i # v
  BY <1>3, <1>4, <1>5 DEF Twins
<1>7. k # v
  BY <1>3, <1>4, <1>5 DEF Twins
<1> QED
  BY <1>3, <1>6, <1>7 DEF Twins

\* What the commit of an edit or a deletion that was alone makes of a row.
LEMMA FreshEdit ==
  ASSUME CatalogInv, NEW s \in alone, EditCommit(s), NEW i \in ShelfIds
  PROVE  /\ i \notin job[s].ids => shelf'[i] = shelf[i]
         /\ i \in job[s].ids =>
              /\ DOMAIN shelf'[i] = DOMAIN shelf[i] /\ shelf[i] \in ShelfRows
              /\ \A f \in DOMAIN shelf[i] :
                   shelf'[i][f] = (IF f \in DOMAIN job[s].change THEN job[s].change[f] ELSE shelf[i][f])
              /\ shelf'[i].kind = shelf[i].kind
<1> DEFINE j == job[s]
<1>1. /\ s \in Sessions /\ StillGood(j, shelf, content) /\ ShelfJobFits(j, shelf) /\ j.kind \in {"edit", "retire"}
      /\ ShelfFits
  BY ShelfJobOf DEF CatalogInv, ShelfAloneFits, EditCommit, Working
<1>2. shelf' = [x \in ShelfIds |-> IF x \in j.ids THEN Flushed(shelf[x], j.copies[x], j.change) ELSE shelf[x]]
  BY DEF EditCommit
<1> HIDE DEF j
<1>3. ASSUME i \in j.ids
      PROVE  /\ DOMAIN shelf'[i] = DOMAIN shelf[i] /\ shelf[i] \in ShelfRows
             /\ \A f \in DOMAIN shelf[i] :
                  shelf'[i][f] = (IF f \in DOMAIN j.change THEN j.change[f] ELSE shelf[i][f])
             /\ shelf'[i].kind = shelf[i].kind
  <2>1. shelf'[i] = Flushed(shelf[i], shelf[i], j.change)
    BY <1>1, <1>2, <1>3 DEF StillGood
  <2>2. shelf[i] \in ShelfRows /\ EditFits(shelf[i].kind, j.change)
    BY <1>1, <1>3, ShelfKinds DEF ShelfJobFits, ShelfFields
  <2>3. DOMAIN shelf'[i] = DOMAIN shelf[i]
    BY <2>1 DEF Flushed
  <2> QED
    BY <2>1, <2>2, <2>3, FlushedFresh, FlushedRow
<1> QED
  BY <1>2, <1>3 DEF j

\* The fields of a row that names and promises are about.
LEMMA NamedRow ==
  ASSUME NEW r \in ShelfRows
  PROVE  /\ "on" \in DOMAIN r
         /\ r.kind \in {"category", "product"} => "name" \in DOMAIN r
         /\ r.kind = "product" => "category" \in DOMAIN r
BY DEF ShelfRows, CategoryRows, ProductRows, PackageRows

\* An edit that was alone and turns nothing on makes no twins.
LEMMA EditNameStep ==
  ASSUME CatalogInv, NEW s \in alone, EditCommit(s), Working(s, "edit"), "on" \notin DOMAIN job[s].change,
         NEW i \in ShelfIds, NEW k \in ShelfIds, Twins(shelf', i, k)
  PROVE  Twins(shelf, i, k)
<1>1. s \in Sessions /\ StillGood(job[s], shelf, content) /\ job[s].kind = "edit"
  BY DEF CatalogInv, ShelfAloneFits, Working
<1>2. ASSUME NEW x \in ShelfIds, shelf'[x].kind \in {"category", "product"}
      PROVE  /\ shelf'[x].kind = shelf[x].kind /\ shelf'[x].on = shelf[x].on
             /\ shelf'[x].name = (IF x \in job[s].ids /\ "name" \in DOMAIN job[s].change THEN job[s].change.name
                                  ELSE shelf[x].name)
  BY <1>2, FreshEdit, NamedRow
<1>3. CASE "name" \notin DOMAIN job[s].change
  BY <1>2, <1>3 DEF Twins
<1>4. CASE "name" \in DOMAIN job[s].change
  <2>1. PICK x \in ShelfIds :
          /\ job[s].ids = {x}
          /\ \/ job[s].change.name = shelf[x].name
             \/ \A y \in ShelfIds \ {x} : shelf[y].kind = shelf[x].kind /\ shelf[y].on
                                            => shelf[y].name # job[s].change.name
    BY <1>1, <1>4 DEF StillGood, OfferedIn
  <2>2. CASE job[s].change.name = shelf[x].name
    BY <1>2, <2>1, <2>2 DEF Twins
  <2>3. CASE \A y \in ShelfIds \ {x} : shelf[y].kind = shelf[x].kind /\ shelf[y].on
                                         => shelf[y].name # job[s].change.name
    <3>1. i # x
      BY <1>2, <1>4, <2>1, <2>3 DEF Twins
    <3>2. k # x
      BY <1>2, <1>4, <2>1, <2>3 DEF Twins
    <3> QED
      BY <1>2, <2>1, <3>1, <3>2 DEF Twins
  <2> QED
    BY <2>1, <2>2, <2>3
<1> QED
  BY <1>3, <1>4

\* What is deleted by a request that was alone is off, and no more is changed.
LEMMA RetiredRows ==
  ASSUME CatalogInv, NEW s \in alone, EditCommit(s), Working(s, "retire"), NEW i \in ShelfIds
  PROVE  /\ i \notin job[s].ids => shelf'[i] = shelf[i]
         /\ i \in job[s].ids => shelf'[i].on = FALSE
<1>1. ShelfJobFits(job[s], shelf) /\ job[s].kind = "retire"
  BY ShelfJobOf DEF Working, CatalogInv, ShelfAloneFits
<1>2. "on" \in DOMAIN job[s].change /\ job[s].change.on = FALSE
  BY <1>1 DEF ShelfJobFits
<1> QED
  BY <1>2, FreshEdit, NamedRow

LEMMA NamesStep ==
  ASSUME CatalogInv, [CatalogNext]_<<job, alone, catalogVars>>, NEW i \in ShelfIds, NEW k \in ShelfIds,
         Twins(shelf', i, k)
  PROVE  \/ Twins(shelf, i, k)
         \/ \E s \in Sessions :
              Commits(s) /\ (s \notin alone \/ (Working(s, "edit") /\ "on" \in DOMAIN job[s].change))
<1>1. CASE shelf' = shelf
  BY <1>1
<1>2. CASE shelf' # shelf
  <2>1. PICK s \in Sessions :
          /\ NewCommit(s) \/ EditCommit(s) \/ FillCommit(s) \/ TakeCommit(s) \/ AmountCommit(s)
          /\ Commits(s)
    BY <1>2, Writers
  <2>2. NewCommit(s) \/ EditCommit(s)
    BY <1>2, <2>1 DEF FillCommit, TakeCommit, AmountCommit
  <2>3. CASE s \notin alone
    BY <2>1, <2>3
  <2>4. CASE s \in alone /\ NewCommit(s)
    BY <2>4, NewNameStep
  <2>5. CASE s \in alone /\ EditCommit(s) /\ Working(s, "edit")
    BY <2>1, <2>5, EditNameStep
  <2>6. CASE s \in alone /\ EditCommit(s) /\ Working(s, "retire")
    <3>1. i \notin job[s].ids /\ k \notin job[s].ids
      BY <2>6, RetiredRows DEF Twins
    <3> QED
      BY <2>6, <3>1, RetiredRows DEF Twins
  <2> QED
    BY <2>2, <2>3, <2>4, <2>5, <2>6 DEF EditCommit
<1> QED
  BY <1>1, <1>2

\* A deletion that was alone took nothing that is sold.
LEMMA DeletionStep ==
  ASSUME CatalogInv, [CatalogNext]_<<job, alone, catalogVars>>,
         NEW s \in Sessions, Commits(s), Working(s, "retire"), s \in alone
  PROVE  /\ \A k \in OnShelf("package") \ job[s].ids : Purchasable(k) => Purchasable(k)'
         /\ \A i \in Offered("product")' : shelf'[i].category \notin job[s].ids
<1>1. EditCommit(s)
  <2>1. PICK t \in Sessions :
          /\ NewCommit(t) \/ EditCommit(t) \/ FillCommit(t) \/ TakeCommit(t) \/ AmountCommit(t)
          /\ \A k \in Sessions \ {t} : job'[k] = job[k]
    BY Writers DEF Commits
  <2>2. t = s
    BY <2>1 DEF Commits
  <2> QED
    BY <2>1, <2>2 DEF Working, NewCommit, FillCommit, TakeCommit, AmountCommit
<1>2. content' = content /\ ShelfFits
  BY <1>1 DEF EditCommit, CatalogInv
<1>3. ASSUME NEW i \in job[s].ids
      PROVE  /\ i \in ShelfIds /\ shelf[i].kind \in {"category", "product", "package"}
             /\ shelf[i].kind = "category" =>
                  \A k \in ShelfIds : shelf[k].kind = "product" /\ shelf[k].on => shelf[k].category # i
             /\ shelf[i].kind = "product" => \A e \in content : e.product # i
  <2>1. ShelfJobFits(job[s], shelf) /\ StillGood(job[s], shelf, content)
    BY ShelfJobOf DEF CatalogInv, ShelfAloneFits
  <2> QED
    BY <2>1 DEF ShelfJobFits, StillGood, OfferedIn, Working, ShelfFields
<1>4. \A i \in ShelfIds : /\ i \notin job[s].ids => shelf'[i] = shelf[i]
                          /\ i \in job[s].ids => shelf'[i].on = FALSE
  BY <1>1, RetiredRows
<1>5. ASSUME NEW k \in OnShelf("package") \ job[s].ids, Purchasable(k) PROVE Purchasable(k)'
  <2>1. k \in ShelfIds /\ shelf'[k] = shelf[k] /\ shelf[k].kind = "package" /\ shelf[k].on
    BY <1>4, <1>5 DEF OnShelf, Purchasable, Offered
  <2>2. ASSUME NEW e \in content, e.package = k
        PROVE  e.product \in ShelfIds /\ shelf'[e.product].kind = "product" /\ shelf'[e.product].on
    <3>1. e.product \in ShelfIds /\ shelf[e.product].kind = "product" /\ shelf[e.product].on
      BY <1>5, <2>2 DEF Purchasable, ContentOf, Available, Offered, OnShelf
    <3>2. e.product \notin job[s].ids
      BY <1>3, <3>1
    <3> QED
      BY <1>4, <3>1, <3>2
  <2> QED
    BY <1>2, <2>1, <2>2 DEF Purchasable, ContentOf, Available, Offered, OnShelf
<1>6. ASSUME NEW i \in Offered("product")' PROVE shelf'[i].category \notin job[s].ids
  <2>1. i \in ShelfIds /\ shelf'[i].kind = "product" /\ shelf'[i].on
    BY DEF Offered, OnShelf
  <2>2. i \notin job[s].ids /\ shelf'[i] = shelf[i]
    BY <1>4, <2>1
  <2>3. shelf[shelf[i].category].kind = "category"
    BY <1>2, <2>1, <2>2, ShelfKinds
  <2> QED
    BY <1>3, <2>1, <2>2, <2>3
<1> QED
  BY <1>5, <1>6

-----------------------------------------------------------------------------
(* The theorems. *)

\* Rows, items and requests always have their types, and a package never has two
\* rows for one product.
THEOREM CatalogTypesCorrect == CatalogSpec => []CatalogTypeOK
<1>1. CatalogInv => CatalogTypeOK
  <2> SUFFICES ASSUME CatalogInv PROVE CatalogTypeOK
    OBVIOUS
  <2>1. \A i \in ShelfIds : shelf[i] \in ShelfRows \cup {Vacant}
    BY DEF CatalogInv, ShelfFits
  <2>2. \A s \in Sessions :
          \/ job[s] \in {NoJob} \cup NewJobs \cup FillJobs \cup TakeJobs \cup AmountJobs
          \/ job[s].kind \in {"edit", "retire"} /\ job[s].ids \subseteq ShelfIds
    BY ShelfJobOf DEF ShelfJobFits
  <2> QED
    BY <2>1, <2>2 DEF CatalogInv, ContentFits, BegunFits, CatalogTypeOK
<1> QED
  BY <1>1, CatalogInvariant, PTL

\* Only a removal that overlapped another change empties a package.
THEOREM LastItemCorrect == CatalogSpec => LastItemStays
<1>1. CatalogInv /\ [CatalogNext]_<<job, alone, catalogVars>>
      => [\A k \in OnShelf("package") : ContentOf(k) # {} /\ ContentOf(k)' = {}
            => \E s \in Sessions : Commits(s) /\ Working(s, "take") /\ s \notin alone]_<<content, job>>
  BY LastItemStep
<1> QED
  BY <1>1, CatalogInvariant, PTL DEF CatalogSpec, LastItemStays

\* Two rows on offer get one name only by requests that overlapped or by an edit
\* that turns a row on.
THEOREM NamesCorrect == CatalogSpec => NamesStayDistinct
<1>1. CatalogInv /\ [CatalogNext]_<<job, alone, catalogVars>>
      => [\A i, k \in ShelfIds :
            (/\ shelf'[i].kind = shelf'[k].kind /\ shelf'[i].kind \in {"category", "product"} /\ i # k
             /\ shelf'[i].on /\ shelf'[k].on /\ shelf'[i].name = shelf'[k].name)
            => \/ shelf[i].kind = shelf[k].kind /\ shelf[i].on /\ shelf[k].on /\ shelf[i].name = shelf[k].name
               \/ \E s \in Sessions :
                    Commits(s) /\ (s \notin alone \/ (Working(s, "edit") /\ "on" \in DOMAIN job[s].change))]_<<shelf, job>>
  BY NamesStep DEF Twins
<1> QED
  BY <1>1, CatalogInvariant, PTL DEF CatalogSpec, NamesStayDistinct

\* A deletion that overlapped nothing takes no product out of what is sold and
\* leaves none on offer without its category.
THEOREM DeletionsCorrect == CatalogSpec => DeletionsKeepSelling
<1>1. CatalogInv /\ [CatalogNext]_<<job, alone, catalogVars>>
      => [\A s \in Sessions : Commits(s) /\ Working(s, "retire") /\ s \in alone
            => /\ \A k \in OnShelf("package") \ job[s].ids : Purchasable(k) => Purchasable(k)'
               /\ \A i \in Offered("product")' : shelf'[i].category \notin job[s].ids]_<<shelf, job>>
  BY DeletionStep
<1> QED
  BY <1>1, CatalogInvariant, PTL DEF CatalogSpec, DeletionsKeepSelling

-----------------------------------------------------------------------------
(***************************************************************************)
(* Fees.  What an invoice is made of, and that it adds up, is a matter of  *)
(* sums; that a request bills all of its students once is a matter of the   *)
(* numbers its drafts have taken.                                           *)
(***************************************************************************)

LEMMA OffIsSum == \A a, x : OffOn(a, x) = SumOf([g \in GrantsOn(a, x) |-> ValueOf(g, x)], GrantsOn(a, x))
BY DEF OffOn, FoldSet, MapThenFoldSet, SumOf, SumFunctionOnSet, FoldFunctionOnSet

LEMMA DueIsSum == \A a : AmountDue(a) = SumOf([x \in Billable(a) |-> Final(a, x)], Billable(a))
BY DEF AmountDue, FoldSet, MapThenFoldSet, SumOf, SumFunctionOnSet, FoldFunctionOnSet

LEMMA FeeTotalIsSum ==
  \A R : /\ Total(R, LAMBDA x : x.final) = SumOf([x \in R |-> x.final], R)
         /\ Total(R, LAMBDA x : x.original) = SumOf([x \in R |-> x.original], R)
         /\ Total(R, LAMBDA l : l.amount) = SumOf([l \in R |-> l.amount], R)
BY DEF Total, FoldSet, MapThenFoldSet, SumOf, SumFunctionOnSet, FoldFunctionOnSet

\* One invoice adds up.
AddsUp(i) ==
  LET items == 100 * SumOf([x \in i.items |-> x.final], i.items)
      prices == 100 * SumOf([x \in i.items |-> x.original], i.items)
      granted == 100 * SumOf([l \in i.logs |-> l.amount], i.logs)
  IN /\ \A x, y \in i.items : x.component = y.component => x = y
     /\ i.due - items \in -(50 * Cardinality(i.items)) .. 50 * Cardinality(i.items)
     /\ prices - i.due <= granted + 50 * Cardinality(i.logs)

LEMMA EachAddsUp == InvoiceAddsUp <=> \A i \in invoices : AddsUp(i)
BY FeeTotalIsSum DEF InvoiceAddsUp, AddsUp

\* Rounding to cents moves an amount by half a cent at most.
LEMMA CentsNear == \A v \in Nat : Cents(v) \in Nat /\ v <= 100 * Cents(v) + 50 /\ 100 * Cents(v) <= v + 50
BY DEF Cents

\* Discounts and prices are amounts.
LEMMA GrantFits ==
  ASSUME NEW a, NEW x \in Components
  PROVE  /\ IsFiniteSet(GrantsOn(a, x))
         /\ \A g \in GrantsOn(a, x) : g \in Grants /\ g.student = a /\ g.active /\ x \in g.for /\ ValueOf(g, x) \in Nat
<1>1. GrantsOn(a, x) \in SUBSET Grants
  BY DEF GrantsOn
<1>2. IsFiniteSet(GrantsOn(a, x))
  BY <1>1, FS_Subset, FeesAssumption
<1>3. ASSUME NEW g \in Grants PROVE ValueOf(g, x) \in Nat
  <2>1. g.value \in Nat /\ Base[x] \in Nat
    BY FeesAssumption DEF GrantRows
  <2>2. \A m, n \in Nat : m * n \in Nat
    OBVIOUS
  <2> QED BY <2>1, <2>2 DEF ValueOf
<1> QED BY <1>1, <1>2, <1>3 DEF GrantsOn

LEMMA FinalFits ==
  ASSUME NEW a, NEW x \in Components
  PROVE  /\ Base[x] \in Nat /\ OffOn(a, x) \in Nat /\ Final(a, x) \in Nat
         /\ 100 * Base[x] <= Final(a, x) + OffOn(a, x)
<1> DEFINE S == GrantsOn(a, x)
           w == [g \in S |-> ValueOf(g, x)]
<1>1. IsFiniteSet(S) /\ \A g \in S : w[g] \in Nat
  BY GrantFits
<1>2. OffOn(a, x) = SumOf(w, S)
  BY OffIsSum
<1> HIDE DEF S, w
<1>3. OffOn(a, x) \in Nat
  BY <1>1, <1>2, SumNatural
<1>4. Base[x] \in Nat
  BY FeesAssumption
<1> QED BY <1>3, <1>4 DEF Final

\* The items and the logged discounts of an invoice.
ItemFor(a, x) == [component |-> x, original |-> Base[x], off |-> Cents(OffOn(a, x)), final |-> Cents(Final(a, x))]
LogFor(g, x) == [grant |-> g, component |-> x, amount |-> Cents(ValueOf(g, x))]

LEMMA InvoiceParts ==
  ASSUME NEW a, NEW term
  PROVE  LET i == InvoiceFor(a, term) IN
         /\ Billable(a) \subseteq Components /\ IsFiniteSet(Billable(a))
         /\ i.student = a /\ i.year = today /\ i.term = term /\ i.due = AmountDue(a)
         /\ i.items = {ItemFor(a, x) : x \in Billable(a)}
         /\ i.items \subseteq InvoiceItems /\ i.logs \subseteq DiscountLogs
         /\ IsFiniteSet(i.logs)
         /\ \A l \in i.logs : l.component \in Billable(a)
         /\ \A x \in Billable(a) : {l \in i.logs : l.component = x} = {LogFor(g, x) : g \in GrantsOn(a, x)}
<1> DEFINE i == InvoiceFor(a, term)
           B == Billable(a)
           active == {g \in Grants : g.student = a /\ g.active}
           all == {LogFor(g, x) : g \in active, x \in B}
<1>1. B \subseteq Components /\ IsFiniteSet(B)
  <2>1. B \in SUBSET Components
    BY DEF Billable
  <2> QED BY <2>1, FS_Subset, FeesAssumption
<1>2. i.student = a /\ i.year = today /\ i.term = term /\ i.due = AmountDue(a)
  BY DEF InvoiceFor
<1>3. i.items = {ItemFor(a, x) : x \in B}
  BY DEF InvoiceFor, ItemFor
<1>4. i.logs = all \cap {l \in DiscountLogs : l.component \in l.grant.for}
  BY DEF InvoiceFor, LogFor
<1>5. ASSUME NEW x \in B PROVE ItemFor(a, x) \in InvoiceItems
  <2>1. Cents(OffOn(a, x)) \in Nat /\ Cents(Final(a, x)) \in Nat /\ Base[x] \in Nat /\ x \in Components
    BY <1>1, FinalFits, CentsNear
  <2> QED BY <2>1 DEF ItemFor, InvoiceItems
<1>6. ASSUME NEW g \in Grants, NEW x \in Components
      PROVE  /\ LogFor(g, x) \in DiscountLogs
             /\ LogFor(g, x).component = x /\ LogFor(g, x).grant = g
  <2>1. g.value \in Nat /\ Base[x] \in Nat
    BY FeesAssumption DEF GrantRows
  <2>2. \A m, n \in Nat : m * n \in Nat
    OBVIOUS
  <2>3. ValueOf(g, x) \in Nat
    BY <2>1, <2>2 DEF ValueOf
  <2>4. Cents(ValueOf(g, x)) \in Nat
    BY <2>3, CentsNear
  <2> QED BY <2>4 DEF LogFor, DiscountLogs
<1>7. \A l \in i.logs : \E g \in Grants, x \in B :
        l = LogFor(g, x) /\ g \in GrantsOn(a, x) /\ l.component = x
  BY <1>1, <1>4, <1>6 DEF GrantsOn
<1>8. \A x \in B : \A g \in GrantsOn(a, x) : LogFor(g, x) \in i.logs /\ LogFor(g, x).component = x
  BY <1>1, <1>4, <1>6 DEF GrantsOn
<1>9. IsFiniteSet(i.logs)
  <2> DEFINE P == active \X B
             f == [p \in P |-> LogFor(p[1], p[2])]
  <2>1. IsFiniteSet(P)
    <3>1. active \in SUBSET Grants
      OBVIOUS
    <3>2. IsFiniteSet(active)
      BY <3>1, FS_Subset, FeesAssumption
    <3> HIDE DEF active, B
    <3> QED BY <1>1, <3>2, FS_Product
  <2>2. f \in Surjection(P, all)
    <3>1. f \in [P -> all]
      OBVIOUS
    <3>2. ASSUME NEW l \in all PROVE \E p \in P : f[p] = l
      <4>1. PICK g \in active, x \in B : l = LogFor(g, x)
        OBVIOUS
      <4>2. <<g, x>> \in P /\ f[<<g, x>>] = LogFor(g, x)
        OBVIOUS
      <4> QED BY <4>1, <4>2
    <3> HIDE DEF f, P, all
    <3> QED BY <3>1, <3>2 DEF Surjection
  <2>3. IsFiniteSet(all)
    <3> HIDE DEF f, P, all
    <3> QED BY <2>1, <2>2, FS_Surjection
  <2>4. i.logs \in SUBSET all
    BY <1>4
  <2> HIDE DEF i, all
  <2> QED BY <2>3, <2>4, FS_Subset
<1> HIDE DEF i, B, all, active
<1>10. ASSUME NEW x \in B PROVE {l \in i.logs : l.component = x} = {LogFor(g, x) : g \in GrantsOn(a, x)}
  BY <1>7, <1>8
<1>11. i.items \subseteq InvoiceItems
  BY <1>3, <1>5
<1>12. i.logs \subseteq DiscountLogs /\ \A l \in i.logs : l.component \in B
  BY <1>4, <1>7
<1> QED BY <1>1, <1>2, <1>3, <1>9, <1>10, <1>11, <1>12 DEF i, B

\* The three parts of adding up.
LEMMA ItemsOfInvoice ==
  ASSUME NEW a, NEW term
  PROVE  LET i == InvoiceFor(a, term)
             B == Billable(a)
         IN
         /\ \A x, y \in i.items : x.component = y.component => x = y
         /\ Cardinality(i.items) = Cardinality(B) /\ Cardinality(B) \in Nat
         /\ SumOf([x \in i.items |-> x.final], i.items) = SumOf([x \in B |-> Cents(Final(a, x))], B)
         /\ SumOf([x \in i.items |-> x.original], i.items) = SumOf([x \in B |-> Base[x]], B)
<1> DEFINE i == InvoiceFor(a, term)
           B == Billable(a)
           f == [x \in B |-> ItemFor(a, x)]
           final == [y \in i.items |-> y.final]
           original == [y \in i.items |-> y.original]
           cents == [x \in B |-> Cents(Final(a, x))]
           base == [x \in B |-> Base[x]]
<1>1. B \subseteq Components /\ IsFiniteSet(B) /\ i.items = {ItemFor(a, x) : x \in B}
  BY InvoiceParts
<1>2. \A x \in B : ItemFor(a, x).component = x /\ ItemFor(a, x).final = Cents(Final(a, x)) /\ ItemFor(a, x).original = Base[x]
  BY DEF ItemFor
<1> HIDE DEF i, B
<1>3. i.items = {f[x] : x \in B}
  BY <1>1
<1>4. \A x, y \in B : f[x] = f[y] => x = y
  BY <1>2
<1>5. \A x \in B : cents[x] \in Int /\ final[f[x]] = cents[x] /\ base[x] \in Int /\ original[f[x]] = base[x]
  <2>1. ASSUME NEW x \in B PROVE Cents(Final(a, x)) \in Int /\ Base[x] \in Int
    <3>1. Final(a, x) \in Nat /\ Base[x] \in Nat
      BY <1>1, FinalFits
    <3>2. Cents(Final(a, x)) \in Nat
      BY <3>1, CentsNear
    <3> QED BY <3>1, <3>2
  <2>2. \A x \in B : f[x] \in i.items
    BY <1>3
  <2> QED BY <1>2, <2>1, <2>2
<1> HIDE DEF f, final, original, cents, base
<1>6. Cardinality({f[x] : x \in B}) = Cardinality(B) /\ SumOf(final, {f[x] : x \in B}) = SumOf(cents, B)
  <2>1. \A x \in B : cents[x] \in Int /\ final[f[x]] = cents[x]
    BY <1>5
  <2> QED BY <1>1, <1>4, <2>1, SumsRenamed
<1>7. SumOf(original, {f[x] : x \in B}) = SumOf(base, B)
  BY <1>1, <1>4, <1>5, SumsRenamed
<1>8. Cardinality(B) \in Nat
  BY <1>1, FS_CardinalityType
<1>9. \A x, y \in i.items : x.component = y.component => x = y
  BY <1>1, <1>2
<1> QED BY <1>3, <1>6, <1>7, <1>8, <1>9 DEF final, original, cents, base, i, B

LEMMA AmountNear ==
  ASSUME NEW a, NEW term
  PROVE  LET i == InvoiceFor(a, term)
         IN  /\ i.due \in Nat
             /\ i.due - 100 * SumOf([x \in i.items |-> x.final], i.items)
                  \in -(50 * Cardinality(i.items)) .. 50 * Cardinality(i.items)
<1> DEFINE B == Billable(a)
           final == [x \in B |-> Final(a, x)]
           cents == [x \in B |-> Cents(Final(a, x))]
           whole == [x \in B |-> 100 * Cents(Final(a, x))]
           i == InvoiceFor(a, term)
           items == SumOf([x \in i.items |-> x.final], i.items)
<1>1. B \subseteq Components /\ IsFiniteSet(B) /\ i.due = SumOf(final, B)
  BY InvoiceParts, DueIsSum
<1>2. Cardinality(i.items) = Cardinality(B) /\ Cardinality(B) \in Nat /\ items = SumOf(cents, B)
  BY ItemsOfInvoice
<1>3. \A x \in B : /\ final[x] \in Nat /\ cents[x] \in Nat /\ whole[x] \in Int /\ whole[x] = 100 * cents[x]
                   /\ final[x] <= whole[x] + 50 /\ whole[x] <= final[x] + 50
  BY <1>1, FinalFits, CentsNear
<1> HIDE DEF B, final, cents, whole, items, i
<1>a. PICK k \in Int : k = 50
  OBVIOUS
<1>4. SumOf(final, B) <= SumOf(whole, B) + 50 * Cardinality(B)
  <2>1. \A x \in B : final[x] \in Int /\ whole[x] \in Int /\ final[x] <= whole[x] + k
    BY <1>3, <1>a
  <2>2. SumOf(final, B) <= SumOf(whole, B) + k * Cardinality(B)
    BY <1>1, <2>1, SumsApart
  <2> QED BY <1>a, <2>2
<1>5. SumOf(whole, B) <= SumOf(final, B) + 50 * Cardinality(B)
  <2>1. \A x \in B : final[x] \in Int /\ whole[x] \in Int /\ whole[x] <= final[x] + k
    BY <1>3, <1>a
  <2>2. SumOf(whole, B) <= SumOf(final, B) + k * Cardinality(B)
    BY <1>1, <2>1, SumsApart
  <2> QED BY <1>a, <2>2
<1>6. SumOf(whole, B) = 100 * SumOf(cents, B)
  BY <1>1, <1>3, SumsScaled
<1>7. SumOf(final, B) \in Nat /\ SumOf(cents, B) \in Nat
  BY <1>1, <1>3, SumNatural
<1>8. i.due \in Nat /\ i.due - 100 * items \in -(50 * Cardinality(i.items)) .. 50 * Cardinality(i.items)
  BY <1>1, <1>2, <1>4, <1>5, <1>6, <1>7
<1> QED BY <1>8 DEF i, items

\* What an item is below its price is in the discounts logged for it.
LEMMA LogsCover ==
  ASSUME NEW a, NEW term, NEW x \in Billable(a)
  PROVE  LET i == InvoiceFor(a, term)
         IN  OffOn(a, x) <= SumOf([l \in i.logs |-> 100 * l.amount + 50], {l \in i.logs : l.component = x})
<1> DEFINE i == InvoiceFor(a, term)
           S == GrantsOn(a, x)
           T == {l \in i.logs : l.component = x}
           w == [l \in i.logs |-> 100 * l.amount + 50]
           f == [g \in S |-> LogFor(g, x)]
           near == [g \in S |-> 100 * Cents(ValueOf(g, x)) + 50]
           value == [g \in S |-> ValueOf(g, x)]
<1>1. x \in Components /\ T = {LogFor(g, x) : g \in S}
  BY InvoiceParts
<1>2. IsFiniteSet(S) /\ \A g \in S : ValueOf(g, x) \in Nat
  BY <1>1, GrantFits
<1>3. OffOn(a, x) = SumOf(value, S)
  BY OffIsSum
<1>4. \A g \in S : LogFor(g, x).grant = g /\ LogFor(g, x).amount = Cents(ValueOf(g, x))
  BY DEF LogFor
<1>5. \A g \in S : near[g] \in Int /\ value[g] \in Int /\ value[g] <= near[g]
  BY <1>2, CentsNear
<1> HIDE DEF S, i
<1>6. T = {f[g] : g \in S}
  BY <1>1
<1>7. \A g \in S : w[f[g]] = near[g]
  <2>1. \A g \in S : f[g] \in i.logs
    BY <1>6
  <2> QED BY <1>4, <2>1
<1>8. \A g, h \in S : f[g] = f[h] => g = h
  BY <1>4
<1> HIDE DEF T, w, f, near, value
<1>9. SumOf(w, {f[g] : g \in S}) = SumOf(near, S)
  BY <1>2, <1>5, <1>7, <1>8, SumsRenamed
<1>10. SumOf(value, S) <= SumOf(near, S)
  BY <1>2, <1>5, SumsOrdered
<1>11. OffOn(a, x) <= SumOf(w, T)
  BY <1>3, <1>6, <1>9, <1>10
<1> QED BY <1>11 DEF w, T, i

LEMMA DiscountsLogged ==
  ASSUME NEW a, NEW term
  PROVE  LET i == InvoiceFor(a, term)
             prices == 100 * SumOf([x \in i.items |-> x.original], i.items)
             granted == 100 * SumOf([l \in i.logs |-> l.amount], i.logs)
         IN  prices - i.due <= granted + 50 * Cardinality(i.logs)
<1> DEFINE i == InvoiceFor(a, term)
           B == Billable(a)
           logs == i.logs
           base == [x \in B |-> Base[x]]
           price == [x \in B |-> 100 * Base[x]]
           final == [x \in B |-> Final(a, x)]
           off == [x \in B |-> OffOn(a, x)]
           both == [x \in B |-> Final(a, x) + OffOn(a, x)]
           amount == [l \in logs |-> l.amount]
           whole == [l \in logs |-> 100 * l.amount]
           near == [l \in logs |-> 100 * l.amount + 50]
           of == [l \in logs |-> l.component]
           originals == SumOf([x \in i.items |-> x.original], i.items)
<1>1. B \subseteq Components /\ IsFiniteSet(B) /\ IsFiniteSet(logs) /\ i.due = SumOf(final, B)
  BY InvoiceParts, DueIsSum
<1>2. originals = SumOf(base, B)
  BY ItemsOfInvoice
<1>3. \A x \in B : /\ base[x] \in Nat /\ price[x] \in Int /\ price[x] = 100 * base[x] /\ final[x] \in Nat /\ off[x] \in Nat
                   /\ both[x] = final[x] + off[x] /\ both[x] \in Int /\ price[x] <= both[x]
  BY <1>1, FinalFits
<1>4. \A l \in logs : /\ of[l] \in B /\ amount[l] \in Nat /\ whole[l] = 100 * amount[l] /\ whole[l] \in Int
                      /\ near[l] \in Int /\ near[l] <= whole[l] + 50
  <2>1. \A l \in logs : l \in DiscountLogs /\ l.component \in B
    BY InvoiceParts
  <2>2. \A l \in logs : l.amount \in Nat
    BY <2>1 DEF DiscountLogs
  <2> HIDE DEF logs, B
  <2> QED BY <2>1, <2>2
<1>5. \A x \in B : off[x] <= SumOf(near, {l \in logs : of[l] = x})
  <2>1. \A x \in B : {l \in logs : of[l] = x} = {l \in logs : l.component = x}
    OBVIOUS
  <2>2. \A x \in B : OffOn(a, x) <= SumOf(near, {l \in logs : l.component = x})
    BY LogsCover
  <2> HIDE DEF B, logs, near, of
  <2> QED BY <2>1, <2>2
<1> HIDE DEF i, B, logs, base, price, final, off, both, amount, whole, near, of, originals
<1>6. SumOf(off, B) <= SumOf(near, logs)
  BY <1>1, <1>3, <1>4, <1>5, SumsGathered
<1>7. SumOf(near, logs) <= SumOf(whole, logs) + 50 * Cardinality(logs)
  <2>1. PICK k \in Int : k = 50
    OBVIOUS
  <2>2. \A l \in logs : near[l] \in Int /\ whole[l] \in Int /\ near[l] <= whole[l] + k
    BY <1>4, <2>1
  <2>3. SumOf(near, logs) <= SumOf(whole, logs) + k * Cardinality(logs)
    BY <1>1, <2>2, SumsApart
  <2> QED BY <2>1, <2>3
<1>8. SumOf(whole, logs) = 100 * SumOf(amount, logs)
  BY <1>1, <1>4, SumsScaled
<1>9. SumOf(price, B) = 100 * SumOf(base, B)
  BY <1>1, <1>3, SumsScaled
<1>10. SumOf(price, B) <= SumOf(both, B)
  BY <1>1, <1>3, SumsOrdered
<1>11. SumOf(both, B) = SumOf(final, B) + SumOf(off, B)
  BY <1>1, <1>3, SumsJoined
<1>12. SumOf(final, B) \in Nat /\ SumOf(off, B) \in Nat /\ SumOf(base, B) \in Nat
  BY <1>1, <1>3, SumNatural
<1>13. SumOf(amount, logs) \in Nat /\ Cardinality(logs) \in Nat /\ SumOf(near, logs) \in Int
  BY <1>1, <1>4, SumNatural, FS_CardinalityType, SumTaken
<1>14. 100 * originals - i.due <= 100 * SumOf(amount, logs) + 50 * Cardinality(logs)
  BY <1>1, <1>2, <1>6, <1>7, <1>8, <1>9, <1>10, <1>11, <1>12, <1>13
<1> QED BY <1>14 DEF originals, amount, logs, i

\* So an invoice as the code draws it up adds up.
LEMMA InvoiceFits ==
  ASSUME NEW a \in Students, NEW term \in UNION {TermsOf[t] : t \in Templates}, today \in Nat
  PROVE  LET i == InvoiceFor(a, term) IN
         i \in Invoices /\ AddsUp(i) /\ {x.component : x \in i.items} = Billable(a)
<1> DEFINE i == InvoiceFor(a, term)
<1>1. i.items \subseteq InvoiceItems /\ i.logs \subseteq DiscountLogs
  BY InvoiceParts
<1>2. AddsUp(i)
  BY ItemsOfInvoice, AmountNear, DiscountsLogged DEF AddsUp
<1>3. i \in Invoices
  <2>1. i.due \in Nat
    BY AmountNear
  <2>2. i = [student |-> a, year |-> today, term |-> term, due |-> i.due, items |-> i.items, logs |-> i.logs]
    BY DEF InvoiceFor
  <2> HIDE DEF i
  <2> QED BY <1>1, <2>1, <2>2 DEF Invoices
<1>4. {x.component : x \in i.items} = Billable(a)
  <2>1. i.items = {ItemFor(a, x) : x \in Billable(a)}
    BY InvoiceParts
  <2>2. \A x \in Billable(a) : ItemFor(a, x).component = x
    BY DEF ItemFor
  <2> HIDE DEF i
  <2> QED BY <2>1, <2>2
<1> QED BY <1>2, <1>3, <1>4

-----------------------------------------------------------------------------
(* The requests.  A class has a key as often as requests that found it       *)
(* missing at the same time; drafts have numbers that nobody else has.       *)

Terms == UNION {TermsOf[t] : t \in Templates}
Missed(k) == {s \in Sessions : Working(s, "assign") /\ k \in job[s].missing}

StructureFits ==
  /\ structure \in [FeeKeys -> Nat]
  /\ \A k \in FeeKeys : structure[k] > 0 => structure[k] + Cardinality(Missed(k)) <= Cardinality(Sessions)

\* What a request that bills students has drawn up so far.
DraftsFit(j) ==
  /\ DOMAIN j = {"kind", "students", "term", "todo", "next", "drafts"}
  /\ j.students \subseteq Students /\ j.todo \subseteq j.students /\ j.term \in Terms
  /\ j.todo # {} => j.next \in j.todo
  /\ j.drafts \subseteq Invoices
  /\ {i.student : i \in j.drafts} = j.students \ j.todo
  /\ \A i \in j.drafts : i.term = j.term /\ AddsUp(i)
  /\ \A i, k \in j.drafts : i.student = k.student => i = k

FeeJobFits(j) ==
  \/ j = NoJob
  \/ j.kind = "assign" /\ j.missing \subseteq FeeKeys
  \/ j.kind = "invoice" /\ DraftsFit(j)
FeeJobsFit == DOMAIN job = Sessions /\ \A s \in Sessions : FeeJobFits(job[s])

FeeCountsFit ==
  /\ templates \subseteq Templates /\ asked \in 0 .. MaxFeeRequests /\ today \in 1 .. LastYear
  /\ invoices \subseteq Invoices /\ \A i \in invoices : AddsUp(i)

\* No number is taken twice, by invoices or by drafts.
NumbersDiffer(A, B) == \A i \in A, k \in B : NumberOn(i) # NumberOn(k)
NumbersApart ==
  /\ \A i, k \in invoices : NumberOn(i) = NumberOn(k) => i = k
  /\ \A s \in Sessions : Working(s, "invoice") => NumbersDiffer(job[s].drafts, invoices)
  /\ \A s, r \in Sessions : s # r /\ Working(s, "invoice") /\ Working(r, "invoice") =>
       NumbersDiffer(job[s].drafts, job[r].drafts)

\* While the fees stay, the drafts are by the fees.
ByTheFees(j) == j.kind = "invoice" => \A i \in j.drafts : {x.component : x \in i.items} = Billable(i.student)
AloneBills == \A s \in alone : s \in Sessions /\ ByTheFees(job[s])

FeesInv == FeeCountsFit /\ StructureFits /\ FeeJobsFit /\ NumbersApart /\ AloneBills

LEMMA FeeKinds ==
  ASSUME FeesInv, NEW s \in Sessions
  PROVE  /\ FeeJobFits(job[s])
         /\ Working(s, "assign") => job[s].missing \subseteq FeeKeys
         /\ Working(s, "invoice") => DraftsFit(job[s])
         /\ Idle(s) <=> job[s].kind = "none"
<1>1. FeeJobFits(job[s])
  BY DEF FeesInv, FeeJobsFit
<1> QED BY <1>1 DEF FeeJobFits, Working, Idle, NoJob

LEMMA MissedFew ==
  ASSUME NEW k
  PROVE  IsFiniteSet(Missed(k)) /\ Cardinality(Missed(k)) <= Cardinality(Sessions) /\ Cardinality(Missed(k)) \in Nat
         /\ Cardinality(Sessions) \in Nat
<1>1. Missed(k) \in SUBSET Sessions /\ IsFiniteSet(Sessions)
  BY FeesAssumption DEF Missed
<1> QED BY <1>1, FS_Subset, FS_CardinalityType

\* Fees that nobody adds to stay within bounds.
LEMMA StructureStays ==
  ASSUME FeesInv, structure' = structure,
         \A k \in FeeKeys : structure[k] > 0 => Missed(k)' \subseteq Missed(k)
  PROVE  StructureFits'
<1>1. structure \in [FeeKeys -> Nat]
  BY DEF FeesInv, StructureFits
<1>2. ASSUME NEW k \in FeeKeys, structure[k] > 0
      PROVE  structure[k] + Cardinality(Missed(k)') <= Cardinality(Sessions)
  <2>1. structure[k] + Cardinality(Missed(k)) <= Cardinality(Sessions)
    BY <1>2 DEF FeesInv, StructureFits
  <2>2. Cardinality(Missed(k)') <= Cardinality(Missed(k)) /\ Cardinality(Missed(k)') \in Nat
    <3>1. Missed(k)' \in SUBSET Missed(k)
      BY <1>2
    <3>2. IsFiniteSet(Missed(k))
      BY MissedFew
    <3> QED BY <3>1, <3>2, FS_Subset, FS_CardinalityType
  <2>3. structure[k] \in Nat /\ Cardinality(Missed(k)) \in Nat /\ Cardinality(Sessions) \in Nat
    BY <1>1, MissedFew
  <2> QED BY <2>1, <2>2, <2>3
<1> QED BY <1>1, <1>2 DEF StructureFits

\* What is left to show of the step of a request.
LEMMA FeeRequestStep ==
  ASSUME FeesInv, Watch({"invoice"}, UNCHANGED structure), NEW s \in Sessions, NEW j,
         job' = [job EXCEPT ![s] = j], FeeJobFits(j), FeeCountsFit', StructureFits',
         j = NoJob \/ (structure' = structure /\ (Idle(s) \/ s \in alone => ByTheFees(j))),
         \A i, k \in invoices' : NumberOn(i) = NumberOn(k) => i = k,
         \A q \in Sessions \ {s} : Working(q, "invoice") => NumbersDiffer(job[q].drafts, invoices'),
         j.kind = "invoice" =>
           /\ NumbersDiffer(j.drafts, invoices')
           /\ \A q \in Sessions \ {s} : Working(q, "invoice") => NumbersDiffer(j.drafts, job[q].drafts)
  PROVE  FeesInv'
<1>1. DOMAIN job' = Sessions /\ job'[s] = j /\ \A q \in Sessions \ {s} : job'[q] = job[q]
  BY DEF FeesInv, FeeJobsFit
<1>2. FeeJobsFit'
  <2>1. \A q \in Sessions : FeeJobFits(job'[q])
    BY <1>1, FeeKinds
  <2> QED BY <1>1, <2>1 DEF FeeJobsFit
<1>3. NumbersApart'
  <2>1. \A q \in Sessions : job'[q].kind = "invoice" => NumbersDiffer(job'[q].drafts, invoices')
    BY <1>1 DEF Working
  <2>2. ASSUME NEW q \in Sessions, NEW r \in Sessions, q # r, job'[q].kind = "invoice", job'[r].kind = "invoice"
        PROVE  NumbersDiffer(job'[q].drafts, job'[r].drafts)
    <3>1. CASE q # s /\ r # s
      BY <1>1, <2>2, <3>1 DEF FeesInv, NumbersApart, Working
    <3>2. CASE q = s
      BY <1>1, <2>2, <3>2 DEF Working
    <3>3. CASE r = s
      <4>1. NumbersDiffer(job'[r].drafts, job'[q].drafts)
        BY <1>1, <2>2, <3>3 DEF Working
      <4> QED BY <4>1 DEF NumbersDiffer
    <3> QED BY <3>1, <3>2, <3>3
  <2> QED BY <2>1, <2>2 DEF NumbersApart, Working
<1>4. AloneBills'
  <2> SUFFICES ASSUME NEW q \in alone' PROVE q \in Sessions /\ ByTheFees(job[q])'
    BY DEF AloneBills
  <2>1. q \in Sessions /\ job'[q].kind = "invoice" /\ (Idle(q) \/ (q \in alone /\ structure' = structure))
    BY DEF Watch
  <2>2. CASE q = s
    <3>1. j # NoJob
      BY <1>1, <2>1, <2>2 DEF NoJob
    <3> QED BY <1>1, <2>1, <2>2, <3>1 DEF ByTheFees, Billable
  <2>3. CASE q # s
    <3>1. ~ Idle(q)
      BY <1>1, <2>1, <2>3, FeeKinds
    <3>2. ByTheFees(job[q]) /\ structure' = structure
      BY <2>1, <3>1 DEF FeesInv, AloneBills
    <3> QED BY <1>1, <2>1, <2>3, <3>2 DEF ByTheFees, Billable
  <2> QED BY <2>1, <2>2, <2>3
<1> QED BY <1>2, <1>3, <1>4 DEF FeesInv

LEMMA NoJobFits == FeeJobFits(NoJob) /\ NoJob.kind = "none"
BY DEF FeeJobFits, NoJob

LEMMA AssignReadKeeps ==
  ASSUME FeesInv, Watch({"invoice"}, UNCHANGED structure), NEW s \in Sessions, NEW t \in Templates,
         NEW c \in Classes, NEW y \in FeeYears, AssignRead(s, t, c, y)
  PROVE  FeesInv'
<1> DEFINE missing == {k \in FeeKeys : k.class = c /\ k.year = y /\ k.component \in PartsOf[t] /\ structure[k] = 0}
           j == [kind |-> "assign", missing |-> missing]
<1>1. job' = [job EXCEPT ![s] = j] /\ Idle(s) /\ UNCHANGED <<templates, structure, invoices, today>>
      /\ asked' = asked + 1 /\ asked < MaxFeeRequests
  BY DEF AssignRead, Begin
<1>2. FeeJobFits(j) /\ j.kind = "assign" /\ j.missing = missing
  BY DEF FeeJobFits
<1>3. FeeCountsFit'
  BY <1>1, FeesAssumption DEF FeesInv, FeeCountsFit
<1>4. StructureFits'
  <2>1. job'[s] = j /\ \A q \in Sessions \ {s} : job'[q] = job[q]
    BY <1>1 DEF FeesInv, FeeJobsFit
  <2>2. ASSUME NEW k \in FeeKeys, structure[k] > 0 PROVE Missed(k)' \subseteq Missed(k)
    <3>1. k \notin missing
      BY <2>2 DEF FeesInv, StructureFits
    <3> HIDE DEF j, missing
    <3> QED BY <1>2, <2>1, <3>1 DEF Missed, Working
  <2> QED BY <1>1, <2>2, StructureStays
<1> HIDE DEF j
<1>5. NumbersApart /\ ByTheFees(j)
  BY <1>2 DEF FeesInv, ByTheFees
<1> QED BY <1>1, <1>2, <1>3, <1>4, <1>5, FeeRequestStep DEF NumbersApart

LEMMA AssignCommitKeeps ==
  ASSUME FeesInv, Watch({"invoice"}, UNCHANGED structure), NEW s \in Sessions, AssignCommit(s)
  PROVE  FeesInv'
<1> DEFINE missing == job[s].missing
<1>1. job' = [job EXCEPT ![s] = NoJob] /\ Working(s, "assign") /\ UNCHANGED <<templates, invoices, asked, today>>
      /\ structure' = [k \in FeeKeys |-> structure[k] + (IF k \in missing THEN 1 ELSE 0)]
  BY DEF AssignCommit, EndJob
<1>2. FeeCountsFit' /\ NumbersApart
  BY <1>1 DEF FeesInv, FeeCountsFit
<1>3. job'[s] = NoJob /\ \A q \in Sessions \ {s} : job'[q] = job[q]
  BY <1>1 DEF FeesInv, FeeJobsFit
<1>4. structure \in [FeeKeys -> Nat]
  BY DEF FeesInv, StructureFits
<1>5. structure' \in [FeeKeys -> Nat]
  BY <1>1, <1>4
<1>6. ASSUME NEW k \in FeeKeys, structure'[k] > 0
      PROVE  structure'[k] + Cardinality(Missed(k)') <= Cardinality(Sessions)
  <2>1. Missed(k)' = Missed(k) \ {s}
    BY <1>1, <1>3 DEF Missed, Working, NoJob
  <2>2. /\ IsFiniteSet(Missed(k)) /\ Cardinality(Missed(k)) <= Cardinality(Sessions) /\ Cardinality(Missed(k)) \in Nat
        /\ Cardinality(Sessions) \in Nat /\ structure[k] \in Nat
    BY <1>4, MissedFew
  <2>3. Cardinality(Missed(k)') = IF s \in Missed(k) THEN Cardinality(Missed(k)) - 1 ELSE Cardinality(Missed(k))
    <3>1. PICK M, N : M = Missed(k) /\ N = Missed(k)'
      OBVIOUS
    <3>2. IsFiniteSet(M) /\ N = M \ {s}
      BY <2>1, <2>2, <3>1
    <3>3. Cardinality(N) = IF s \in M THEN Cardinality(M) - 1 ELSE Cardinality(M)
      BY <3>2, FS_RemoveElement
    <3> QED BY <3>1, <3>3
  <2>4. structure[k] > 0 => structure[k] + Cardinality(Missed(k)) <= Cardinality(Sessions)
    BY DEF FeesInv, StructureFits
  <2>5. s \in Missed(k) <=> k \in missing
    BY <1>1 DEF Missed
  <2>6. structure'[k] = structure[k] + (IF k \in missing THEN 1 ELSE 0)
    BY <1>1
  <2> HIDE DEF missing
  <2> QED BY <1>6, <2>2, <2>3, <2>4, <2>5, <2>6
<1>7. StructureFits'
  BY <1>5, <1>6 DEF StructureFits
<1> HIDE DEF missing
<1> QED BY <1>1, <1>2, <1>7, NoJobFits, FeeRequestStep DEF NumbersApart

LEMMA BillingStartKeeps ==
  ASSUME FeesInv, Watch({"invoice"}, UNCHANGED structure), NEW s \in Sessions, NEW students \in SUBSET Students,
         NEW term \in Terms, BillingStart(s, students, term)
  PROVE  FeesInv'
<1>1. PICK a \in students :
        Begin(s, [kind |-> "invoice", students |-> students, term |-> term, todo |-> students, next |-> a, drafts |-> {}])
  BY DEF BillingStart
<1> DEFINE j == [kind |-> "invoice", students |-> students, term |-> term, todo |-> students, next |-> a, drafts |-> {}]
<1>2. job' = [job EXCEPT ![s] = j] /\ Idle(s) /\ UNCHANGED <<templates, structure, invoices, today>>
      /\ asked' = asked + 1 /\ asked < MaxFeeRequests
  BY <1>1 DEF BillingStart, Begin
<1>3. /\ DOMAIN j = {"kind", "students", "term", "todo", "next", "drafts"}
      /\ j.kind = "invoice" /\ j.students = students /\ j.term = term /\ j.todo = students /\ j.next = a /\ j.drafts = {}
  OBVIOUS
<1> HIDE DEF j
<1>4. FeeJobFits(j)
  BY <1>3 DEF FeeJobFits, DraftsFit
<1>5. FeeCountsFit'
  BY <1>2, FeesAssumption DEF FeesInv, FeeCountsFit
<1>6. StructureFits'
  <2>1. job'[s] = j /\ \A q \in Sessions \ {s} : job'[q] = job[q]
    BY <1>2 DEF FeesInv, FeeJobsFit
  <2>2. \A k : Missed(k)' \subseteq Missed(k)
    BY <1>3, <2>1 DEF Missed, Working
  <2> QED BY <1>2, <2>2, StructureStays
<1>7. NumbersApart /\ ByTheFees(j) /\ \A A : NumbersDiffer(j.drafts, A)
  BY <1>3 DEF FeesInv, ByTheFees, NumbersDiffer
<1> QED BY <1>2, <1>4, <1>5, <1>6, <1>7, FeeRequestStep DEF NumbersApart

\* The next student gets an invoice whose number is free.
LEMMA BillKeeps ==
  ASSUME FeesInv, Watch({"invoice"}, UNCHANGED structure), NEW s \in Sessions, Bill(s)
  PROVE  FeesInv'
<1> DEFINE old == job[s]
           a == old.next
           i == InvoiceFor(a, old.term)
           left == old.todo \ {a}
<1>1. old.kind = "invoice" /\ DraftsFit(old) /\ old.todo # {} /\ a \in old.todo /\ a \in Students /\ old.term \in Terms
  BY FeeKinds DEF Bill, StillBilling, Working, DraftsFit
<1>2. PICK b, j :
        /\ b \in (IF left = {} THEN {a} ELSE left)
        /\ j = [old EXCEPT !.todo = left, !.next = b, !.drafts = old.drafts \cup {i}]
        /\ job' = [job EXCEPT ![s] = j]
  BY DEF Bill
<1>3. UNCHANGED <<templates, structure, invoices, asked, today>>
  BY DEF Bill, feesVars
<1>a. job' = [job EXCEPT ![s] = j] /\ job'[s] = j /\ \A q \in Sessions \ {s} : job'[q] = job[q]
  <2> HIDE DEF i, left, a
  <2>1. DOMAIN job = Sessions
    BY DEF FeesInv, FeeJobsFit
  <2>2. job' = [job EXCEPT ![s] = j]
    BY <1>2
  <2> QED BY <2>1, <2>2
<1>5. /\ i \in Invoices /\ AddsUp(i) /\ {x.component : x \in i.items} = Billable(a)
      /\ i.student = a /\ i.term = old.term /\ i.year = today
  <2>1. today \in Nat
    BY DEF FeesInv, FeeCountsFit
  <2> QED BY <1>1, <2>1, InvoiceFits, InvoiceParts DEF Terms
<1>6. /\ DOMAIN j = {"kind", "students", "term", "todo", "next", "drafts"}
      /\ j.kind = "invoice" /\ j.students = old.students /\ j.term = old.term /\ j.todo = left /\ j.next = b
      /\ j.drafts = old.drafts \cup {i}
  <2> HIDE DEF i, left, a
  <2> QED BY <1>1, <1>2 DEF DraftsFit
<1> HIDE DEF i
<1>7. FeeJobFits(j)
  <2>1. b \in old.students /\ (left # {} => b \in left) /\ left \subseteq old.students
    <3>1. b \in (IF left = {} THEN {a} ELSE left)
      BY <1>2
    <3>2. old.todo \subseteq old.students
      BY <1>1 DEF DraftsFit
    <3> QED
      BY <1>1, <3>1, <3>2
  <2>2. \A k \in old.drafts : k.student # a
    BY <1>1 DEF DraftsFit
  <2>3. {k.student : k \in j.drafts} = j.students \ j.todo
    <3>1. {k.student : k \in old.drafts} = old.students \ old.todo
      BY <1>1 DEF DraftsFit
    <3>2. old.students \ left = (old.students \ old.todo) \cup {a}
      BY <1>1 DEF DraftsFit
    <3> HIDE DEF a, left
    <3> QED BY <1>5, <1>6, <3>1, <3>2
  <2>4. \A k \in j.drafts : k \in Invoices /\ k.term = j.term /\ AddsUp(k)
    BY <1>1, <1>5, <1>6 DEF DraftsFit
  <2>5. \A k, l \in j.drafts : k.student = l.student => k = l
    BY <1>1, <1>5, <1>6, <2>2 DEF DraftsFit
  <2>6. old.students \subseteq Students
    BY <1>1 DEF DraftsFit
  <2> HIDE DEF left, a, old
  <2> QED BY <1>1, <1>6, <2>1, <2>3, <2>4, <2>5, <2>6 DEF FeeJobFits, DraftsFit
<1>8. FeeCountsFit'
  BY <1>3 DEF FeesInv, FeeCountsFit
<1>9. StructureFits'
  <2>1. \A k : Missed(k)' \subseteq Missed(k)
    BY <1>a, <1>6 DEF Missed, Working
  <2> QED BY <1>3, <2>1, StructureStays
<1>10. NumbersDiffer(j.drafts, invoices)
  <2>1. \A k \in invoices : NumberOn(k) # <<today, a, old.term>>
    BY DEF Bill, NumberTaken, NextNumber
  <2>2. NumbersDiffer(old.drafts, invoices)
    BY <1>1 DEF FeesInv, NumbersApart, Working
  <2> HIDE DEF a, old
  <2> QED BY <1>5, <1>6, <2>1, <2>2 DEF NumbersDiffer, NumberOn
<1>11. ASSUME NEW q \in Sessions \ {s}, Working(q, "invoice") PROVE NumbersDiffer(j.drafts, job[q].drafts)
  <2>1. q \notin WaitsFor(s)
    BY DEF Bill
  <2>2. \A k \in job[q].drafts : NumberOn(k) # <<today, a, old.term>>
    BY <1>11, <2>1 DEF WaitsFor, NextNumber
  <2>3. NumbersDiffer(old.drafts, job[q].drafts)
    BY <1>1, <1>11 DEF FeesInv, NumbersApart, Working
  <2> HIDE DEF a, old
  <2> QED BY <1>5, <1>6, <2>2, <2>3 DEF NumbersDiffer, NumberOn
<1>12. s \in alone => ByTheFees(j)
  <2>1. s \in alone => \A k \in old.drafts : {x.component : x \in k.items} = Billable(k.student)
    BY <1>1 DEF FeesInv, AloneBills, ByTheFees
  <2> HIDE DEF a, old
  <2> QED BY <1>5, <1>6, <2>1 DEF ByTheFees
<1>13. ~ Idle(s) /\ NumbersApart
  BY <1>1, FeeKinds DEF FeesInv
<1> HIDE DEF left, a, old
<1> QED BY <1>a, <1>3, <1>6, <1>7, <1>8, <1>9, <1>10, <1>11, <1>12, <1>13, FeeRequestStep DEF NumbersApart

\* The invoices of a request become the school's.
LEMMA BillingCommitKeeps ==
  ASSUME FeesInv, Watch({"invoice"}, UNCHANGED structure), NEW s \in Sessions, BillingCommit(s)
  PROVE  FeesInv'
<1> DEFINE drafts == job[s].drafts
<1>1. /\ job' = [job EXCEPT ![s] = NoJob] /\ Working(s, "invoice") /\ UNCHANGED <<templates, structure, asked, today>>
      /\ invoices' = invoices \cup drafts
  BY DEF BillingCommit, EndJob
<1>2. job'[s] = NoJob /\ \A q \in Sessions \ {s} : job'[q] = job[q]
  BY <1>1 DEF FeesInv, FeeJobsFit
<1>3. DraftsFit(job[s])
  BY <1>1, FeeKinds
<1>4. /\ drafts \subseteq Invoices /\ \A i \in drafts : AddsUp(i)
      /\ \A i \in drafts : i.term = job[s].term
      /\ \A i, k \in drafts : NumberOn(i) = NumberOn(k) => i = k
  BY <1>3 DEF DraftsFit, NumberOn
<1>5. FeeCountsFit'
  BY <1>1, <1>4 DEF FeesInv, FeeCountsFit
<1>6. StructureFits'
  <2>1. \A k : Missed(k)' \subseteq Missed(k)
    BY <1>2 DEF Missed, Working, NoJob
  <2> QED BY <1>1, <2>1, StructureStays
<1>7. NumbersDiffer(drafts, invoices)
  BY <1>1 DEF FeesInv, NumbersApart
<1>8. \A i, k \in invoices' : NumberOn(i) = NumberOn(k) => i = k
  <2>1. \A i, k \in invoices : NumberOn(i) = NumberOn(k) => i = k
    BY DEF FeesInv, NumbersApart
  <2> HIDE DEF drafts
  <2> QED BY <1>1, <1>4, <1>7, <2>1 DEF NumbersDiffer
<1>9. ASSUME NEW q \in Sessions \ {s}, Working(q, "invoice") PROVE NumbersDiffer(job[q].drafts, invoices')
  <2>1. NumbersDiffer(job[q].drafts, invoices) /\ NumbersDiffer(job[q].drafts, drafts)
    BY <1>1, <1>9 DEF FeesInv, NumbersApart
  <2> HIDE DEF drafts
  <2> QED BY <1>1, <2>1 DEF NumbersDiffer
<1> HIDE DEF drafts
<1> QED BY <1>1, <1>5, <1>6, <1>8, <1>9, NoJobFits, FeeRequestStep

\* A request that fails leaves nothing.
LEMMA BillingFailsKeeps ==
  ASSUME FeesInv, Watch({"invoice"}, UNCHANGED structure), NEW s \in Sessions, BillingFails(s)
  PROVE  FeesInv'
<1>1. job' = [job EXCEPT ![s] = NoJob] /\ UNCHANGED <<templates, structure, invoices, asked, today>>
  BY DEF BillingFails, EndJob, feesVars
<1>2. job'[s] = NoJob /\ \A q \in Sessions \ {s} : job'[q] = job[q]
  BY <1>1 DEF FeesInv, FeeJobsFit
<1>3. FeeCountsFit' /\ NumbersApart
  BY <1>1 DEF FeesInv, FeeCountsFit
<1>4. StructureFits'
  <2>1. \A k : Missed(k)' \subseteq Missed(k)
    BY <1>2 DEF Missed, Working, NoJob
  <2> QED BY <1>1, <2>1, StructureStays
<1> QED BY <1>1, <1>3, <1>4, NoJobFits, FeeRequestStep DEF NumbersApart

\* A new template, or a new year, changes no fee and no request.
LEMMA FeesWithoutRequest ==
  ASSUME FeesInv, Watch({"invoice"}, UNCHANGED structure), UNCHANGED <<structure, invoices, job>>, FeeCountsFit'
  PROVE  FeesInv'
<1>1. StructureFits'
  <2>1. \A k : Missed(k)' = Missed(k)
    BY DEF Missed, Working
  <2> QED BY <2>1, StructureStays
<1>2. FeeJobsFit' /\ NumbersApart'
  BY DEF FeesInv, FeeJobsFit, FeeJobFits, DraftsFit, NumbersApart, Working
<1>3. AloneBills'
  <2> SUFFICES ASSUME NEW q \in alone' PROVE q \in Sessions /\ ByTheFees(job[q])'
    BY DEF AloneBills
  <2>1. q \in Sessions /\ (Idle(q) \/ q \in alone)
    BY DEF Watch
  <2>2. ByTheFees(job[q])
    BY <2>1 DEF FeesInv, AloneBills, ByTheFees, Idle, NoJob
  <2> QED BY <2>1, <2>2 DEF ByTheFees, Billable
<1> QED BY <1>1, <1>2, <1>3 DEF FeesInv

LEMMA FeesInitial == FeesInit => FeesInv
<1> SUFFICES ASSUME FeesInit PROVE FeesInv
  OBVIOUS
<1>1. FeeCountsFit
  BY FeesAssumption DEF FeesInit, FeeCountsFit
<1>2. StructureFits
  BY DEF FeesInit, StructureFits
<1>3. FeeJobsFit /\ NumbersApart /\ AloneBills
  BY DEF FeesInit, JobInit, FeeJobsFit, FeeJobFits, NumbersApart, AloneBills, Working, NoJob
<1> QED BY <1>1, <1>2, <1>3 DEF FeesInv

LEMMA FeesStepKeeps ==
  ASSUME FeesInv, [FeesNext]_<<job, alone, feesVars>>
  PROVE  FeesInv'
<1>1. CASE UNCHANGED <<job, alone, feesVars>>
  <2> USE <1>1 DEF feesVars
  <2>1. FeeCountsFit'
    BY DEF FeesInv, FeeCountsFit
  <2>2. StructureFits'
    BY DEF FeesInv, StructureFits, Missed, Working
  <2>3. FeeJobsFit' /\ NumbersApart'
    BY DEF FeesInv, FeeJobsFit, FeeJobFits, DraftsFit, NumbersApart, Working
  <2>4. AloneBills'
    BY DEF FeesInv, AloneBills, ByTheFees, Billable
  <2> QED BY <2>1, <2>2, <2>3, <2>4 DEF FeesInv
<1>2. CASE FeesNext
  <2> DEFINE Goal == FeesInv'
  <2> USE <1>2
  <2>0. Watch({"invoice"}, UNCHANGED structure)
    BY DEF FeesNext
  <2>1. ASSUME NEW t \in Templates, CreateTemplate(t) PROVE Goal
    <3>1. FeeCountsFit'
      BY <2>1, FeesAssumption DEF CreateTemplate, FeesInv, FeeCountsFit
    <3> QED BY <2>0, <2>1, <3>1, FeesWithoutRequest DEF CreateTemplate
  <2>2. ASSUME NewYear PROVE Goal
    <3>1. FeeCountsFit'
      BY <2>2, FeesAssumption DEF NewYear, FeesInv, FeeCountsFit
    <3> QED BY <2>0, <2>2, <3>1, FeesWithoutRequest DEF NewYear
  <2>3. ASSUME NEW s \in Sessions, FeesStep(s) PROVE Goal
    <3>1. ASSUME NEW t \in Templates, NEW c \in Classes, NEW y \in FeeYears, AssignRead(s, t, c, y) PROVE Goal
      BY <2>0, <3>1, AssignReadKeeps
    <3>2. CASE AssignCommit(s)
      BY <2>0, <3>2, AssignCommitKeeps
    <3>3. CASE \E t \in Templates : \E term \in TermsOf[t] :
                 (\E a \in Students : GenerateForStudent(s, a, term)) \/ (\E c \in Classes : GenerateForClass(s, c, term))
      <4>1. PICK t \in Templates : \E term \in TermsOf[t] :
                 (\E a \in Students : GenerateForStudent(s, a, term)) \/ (\E c \in Classes : GenerateForClass(s, c, term))
        BY <3>3
      <4>2. \E term \in Terms, A \in SUBSET Students : BillingStart(s, A, term)
        BY <4>1 DEF GenerateForStudent, GenerateForClass, Terms
      <4> QED BY <2>0, <4>2, BillingStartKeeps
    <3>4. CASE Bill(s)
      BY <2>0, <3>4, BillKeeps
    <3>5. CASE BillingCommit(s)
      BY <2>0, <3>5, BillingCommitKeeps
    <3>6. CASE BillingFails(s) \/ NumberRefused(s) \/ DeadlockBroken(s)
      BY <2>0, <3>6, BillingFailsKeeps DEF NumberRefused, DeadlockBroken
    <3> HIDE DEF Goal
    <3> QED BY <2>3, <3>1, <3>2, <3>3, <3>4, <3>5, <3>6, Zenon DEF FeesStep
  <2> HIDE DEF Goal
  <2>4. (\E s \in Sessions : FeesStep(s)) \/ (\E t \in Templates : CreateTemplate(t)) \/ NewYear
    BY DEF FeesNext
  <2>5. Goal
    BY <2>1, <2>2, <2>3, <2>4
  <2> QED BY <2>5 DEF Goal
<1> QED BY <1>1, <1>2

LEMMA FeesInvariant == FeesSpec => []FeesInv
<1>1. FeesInv /\ [FeesNext]_<<job, alone, feesVars>> => FeesInv'
  BY FeesStepKeeps
<1> QED BY <1>1, FeesInitial, PTL DEF FeesSpec

\* Types: amounts are at least nothing, also for a discount above the price, and
\* no class has a fee more often than there are requests.
THEOREM FeesTypesCorrect == FeesSpec => []FeesTypeOK
<1>1. FeesInv => FeesTypeOK
  <2> SUFFICES ASSUME FeesInv PROVE FeesTypeOK
    OBVIOUS
  <2>1. structure \in [FeeKeys -> 0 .. Cardinality(Sessions)]
    <3>1. structure \in [FeeKeys -> Nat]
      BY DEF FeesInv, StructureFits
    <3>2. ASSUME NEW k \in FeeKeys PROVE structure[k] \in 0 .. Cardinality(Sessions)
      <4>1. structure[k] \in Nat /\ Cardinality(Missed(k)) \in Nat /\ Cardinality(Sessions) \in Nat
        BY <3>1, <3>2, MissedFew
      <4>2. structure[k] > 0 => structure[k] + Cardinality(Missed(k)) <= Cardinality(Sessions)
        BY <3>2 DEF FeesInv, StructureFits
      <4> QED BY <4>1, <4>2
    <3> QED BY <3>1, <3>2
  <2>2. ASSUME NEW s \in Sessions
        PROVE  \/ job[s] = NoJob
               \/ Working(s, "assign") /\ job[s].missing \subseteq FeeKeys
               \/ Working(s, "invoice") /\ job[s].drafts \subseteq Invoices /\ job[s].todo \subseteq job[s].students
    BY FeeKinds DEF FeeJobFits, DraftsFit, Working
  <2> QED BY <2>1, <2>2 DEF FeesTypeOK, FeesInv, FeeCountsFit
<1> QED BY <1>1, FeesInvariant, PTL

\* The invoices of a school add up, for any prices, any number of fees and any
\* discounts: rounding the items moves an amount by half a cent an item at most.
THEOREM InvoicesAddUp == FeesSpec => []InvoiceAddsUp
<1>1. FeesInv => InvoiceAddsUp
  BY EachAddsUp DEF FeesInv, FeeCountsFit
<1> QED BY <1>1, FeesInvariant, PTL

\* A request bills all of its students or none, each once, and by the fees that
\* hold at its commit unless they changed meanwhile.
THEOREM ClassesInvoicedWhole == FeesSpec => ClassInvoicedWhole
<1> DEFINE Whole == LET new == invoices' \ invoices
     IN new # {} => \E s \in Sessions :
          /\ Working(s, "invoice") /\ {i.student : i \in new} = job[s].students
          /\ \A i \in new, k \in invoices' : NumberOn(i) = NumberOn(k) => i = k
          /\ s \in alone => \A i \in new : {x.component : x \in i.items} = Billable(i.student)
<1>1. ASSUME NEW s \in Sessions, BillingCommit(s), FeesInv, FeesInv' PROVE Whole
  <2>1. Working(s, "invoice") /\ DraftsFit(job[s]) /\ job[s].todo = {} /\ invoices' = invoices \cup job[s].drafts
    BY <1>1, FeeKinds DEF BillingCommit
  <2>2. NumbersDiffer(job[s].drafts, invoices)
    BY <1>1, <2>1 DEF FeesInv, NumbersApart
  <2>3. invoices' \ invoices = job[s].drafts
    BY <2>1, <2>2 DEF NumbersDiffer
  <2>4. {i.student : i \in job[s].drafts} = job[s].students
    BY <2>1 DEF DraftsFit
  <2>5. \A i, k \in invoices' : NumberOn(i) = NumberOn(k) => i = k
    BY <1>1 DEF FeesInv, NumbersApart
  <2>6. s \in alone => \A i \in job[s].drafts : {x.component : x \in i.items} = Billable(i.student)
    BY <1>1, <2>1 DEF FeesInv, AloneBills, ByTheFees, Working
  <2> QED BY <2>1, <2>3, <2>4, <2>5, <2>6
<1>2. FeesInv /\ FeesInv' /\ [FeesNext]_<<job, alone, feesVars>> => [Whole]_<<job, feesVars>>
  <2> SUFFICES ASSUME FeesInv, FeesInv', FeesNext, invoices' # invoices PROVE Whole
    BY DEF feesVars
  <2>1. \E s \in Sessions : BillingCommit(s)
    BY DEF FeesNext, FeesStep, CreateTemplate, NewYear, AssignRead, AssignCommit, GenerateForStudent, GenerateForClass,
           BillingStart, Bill, BillingFails, NumberRefused, DeadlockBroken, feesVars
  <2> QED BY <1>1, <2>1
<1> HIDE DEF Whole
<1>3. FeesSpec => [][Whole]_<<job, feesVars>>
  BY <1>2, FeesInvariant, PTL DEF FeesSpec
<1> QED BY <1>3 DEF Whole, ClassInvoicedWhole
================================================================================
