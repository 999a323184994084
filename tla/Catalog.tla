------------------------------- MODULE Catalog -------------------------------
(***************************************************************************)
(* The catalogue of the store: categories, products and packages, the sets    *)
(* that are sold as one.  Nothing is ever taken off the shelf, rows are only   *)
(* turned off; what a package contains is a table of its own, with one row      *)
(* for each product in it.                                                     *)
(*                                                                         *)
(* Every request reads what it needs, decides, and writes at the end; the       *)
(* rules of the catalogue are checks made on what was read.                     *)
(***************************************************************************)
EXTENDS Integers, FiniteSets, School

CONSTANTS ShelfIds,       \* bound: ids of rows, in the order they are given out
          FirstShelves,   \* what the catalogue may hold from earlier days
          Wanted,         \* rows that POST requests ask for, with the items of a package
          ShelfEdits,     \* fields that PUT and PATCH requests change, with the table
          MaxRequests     \* bound: requests that get as far as their checks

VARIABLES shelf,     \* shelf[i]: the row with id i
          content,   \* the items of the packages
          begun      \* requests so far

catalogVars == <<shelf, content, begun>>

-----------------------------------------------------------------------------
Vacant == [kind |-> "vacant"]
CategoryRows == [kind : {"category"}, name : STRING, on : BOOLEAN]
ProductRows == [kind : {"product"}, name : STRING, sku : STRING, category : ShelfIds, on : BOOLEAN]
PackageRows == [kind : {"package"}, on : BOOLEAN]
ShelfRows == CategoryRows \cup ProductRows \cup PackageRows
Items == [package : ShelfIds, product : ShelfIds, quantity : 1 .. 100]

\* Requests that passed their checks.
NewJobs == [kind : {"new"}, row : ShelfRows, products : SUBSET ShelfIds]
EditJobs == [kind : {"edit", "retire"}, ids : SUBSET ShelfIds]
FillJobs == [kind : {"fill"}, package : ShelfIds, products : SUBSET ShelfIds]
TakeJobs == [kind : {"take"}, package : ShelfIds, product : ShelfIds]
AmountJobs == [kind : {"amount"}, item : Items, quantity : 1 .. 100]

\* What the update schemas let a body assign, of the fields that are kept here.
ShelfFields ==
  [category |-> [name |-> STRING, on |-> BOOLEAN],
   product |-> [name |-> STRING, sku |-> STRING, category |-> ShelfIds, on |-> BOOLEAN],
   package |-> [on |-> BOOLEAN]]
EditFits(kind, change) ==
  \A f \in DOMAIN change : f \in DOMAIN ShelfFields[kind] /\ change[f] \in ShelfFields[kind][f]

\* Foreign key of products.
CategoriesKnown(rows_) ==
  \A i \in ShelfIds : rows_[i].kind = "product" => rows_[rows_[i].category].kind = "category"

ASSUME CatalogAssumption ==
  /\ ShelfIds \subseteq Nat /\ MaxRequests \in Nat
  /\ \A f \in FirstShelves : f \in [ShelfIds -> ShelfRows \cup {Vacant}] /\ CategoriesKnown(f)
  /\ \A w \in Wanted : /\ w.row \in ShelfRows /\ w.products \subseteq ShelfIds
                       /\ w.row.kind # "package" => w.products = {}
  /\ \A c \in ShelfEdits : c.kind \in DOMAIN ShelfFields /\ EditFits(c.kind, c.fields)

OnShelf(kind) == {i \in ShelfIds : shelf[i].kind = kind}
Offered(kind) == {i \in OnShelf(kind) : shelf[i].on}
ContentOf(k) == {e \in content : e.package = k}

CatalogInit ==
  /\ shelf \in FirstShelves /\ begun = 0 /\ JobInit
  /\ content = {[package |-> k, product |-> i, quantity |-> 1] : k \in OnShelf("package"), i \in OnShelf("product")}

\* UNIQUE (sku).
SkusDiffer(rows_) ==
  \A i, k \in ShelfIds :
    i # k /\ rows_[i].kind = "product" /\ rows_[k].kind = "product" => rows_[i].sku # rows_[k].sku

-----------------------------------------------------------------------------
(* What the services check. *)

\* A new category has a name no category has, on offer or not, ...
NewCategory(r) == \A i \in OnShelf("category") : shelf[i].name # r.name

\* ... a new product one that no product on offer has, a category, and a SKU of its own, ...
NewProduct(r) ==
  /\ r.category \in OnShelf("category")
  /\ \A i \in Offered("product") : shelf[i].name # r.name
  /\ \A i \in OnShelf("product") : shelf[i].sku # r.sku

\* ... and a new package has products, all on offer.
NewPackage(products) == products # {} /\ products \subseteq Offered("product")

CheckNew(r, products) ==
  \/ r.kind = "category" /\ NewCategory(r)
  \/ r.kind = "product" /\ NewProduct(r)
  \/ r.kind = "package" /\ NewPackage(products)

\* Mutant: a name is looked for among the rows that are off.
NameFreeOff(i, name) ==
  \A k \in OnShelf(shelf[i].kind) \ Offered(shelf[i].kind) : shelf[k].name # name

\* A name that changes is looked for among the other rows on offer.
NameFree(i, name) ==
  name = shelf[i].name \/ \A k \in Offered(shelf[i].kind) \ {i} : shelf[k].name # name

\* Turning a row on again asks for nothing.
CheckEdit(i, change) ==
  /\ "name" \in DOMAIN change => NameFree(i, change.name)
  /\ "sku" \in DOMAIN change => \A k \in OnShelf("product") \ {i} : shelf[k].sku # change.sku
  /\ "category" \in DOMAIN change => change.category \in OnShelf("category")

\* Mutant: deleting a product looks only at packages that hold several of it.
UnpackedSeveral(i) == \A e \in content : e.product = i => e.quantity = 1

\* A product in a package, on offer or not, is kept, and so is a category of
\* products on offer; a package may always go.
Unpacked(i) == \A e \in content : e.product # i
NoneOffered(c) == \A k \in Offered("product") : shelf[k].category # c
CheckRetire(i) ==
  \/ shelf[i].kind = "category" /\ NoneOffered(i)
  \/ shelf[i].kind = "product" /\ Unpacked(i)
  \/ shelf[i].kind = "package"

\* New items need products that exist; unlike those of a new package they may be off.
CheckFill(k, products) ==
  /\ products \subseteq OnShelf("product")
  /\ \A e \in ContentOf(k) : e.product \notin products

\* Mutant: the count is compared with zero.
CheckTakeNone(k, i) ==
  (\E e \in ContentOf(k) : e.product = i) /\ Cardinality(ContentOf(k)) > 0

\* The last item of a package stays.
CheckTake(k, i) ==
  (\E e \in ContentOf(k) : e.product = i) /\ Cardinality(ContentOf(k)) > 1

-----------------------------------------------------------------------------
Starts(s, j) ==
  /\ begun < MaxRequests /\ begun' = begun + 1
  /\ Begin(s, j)
  /\ UNCHANGED <<shelf, content>>

\* POST of a category, a product, or a package with its items.
NewRead(s, r, products) ==
  /\ CheckNew(r, products)
  /\ Starts(s, [kind |-> "new", row |-> r, products |-> products])

NewCommit(s) ==
  /\ Working(s, "new")
  /\ \E i \in OnShelf("vacant") :
       /\ \A k \in OnShelf("vacant") : i <= k
       /\ shelf' = [shelf EXCEPT ![i] = job[s].row]
       /\ SkusDiffer(shelf')
       /\ content' = content \cup
            {[package |-> i, product |-> p, quantity |-> 1] : p \in job[s].products}
  /\ EndJob(s) /\ UNCHANGED begun

EditOf(kind, ids, change) ==
  [kind |-> kind, ids |-> ids, copies |-> [i \in ids |-> shelf[i]], change |-> change]

\* PUT and PATCH of one row.
EditRead(s, i, c) ==
  /\ shelf[i].kind = c.kind /\ CheckEdit(i, c.fields)
  /\ Starts(s, EditOf("edit", {i}, c.fields))

\* bulk_update_category.
MoveRead(s, ids, category) ==
  /\ ids \subseteq OnShelf("product") /\ category \in OnShelf("category")
  /\ Starts(s, EditOf("edit", ids, [category |-> category]))

\* DELETE of a row.
RetireRead(s, i) ==
  /\ CheckRetire(i)
  /\ Starts(s, EditOf("retire", {i}, [on |-> FALSE]))

EditCommit(s) ==
  /\ Working(s, "edit") \/ Working(s, "retire")
  /\ shelf' = [i \in ShelfIds |-> IF i \in job[s].ids THEN Flushed(shelf[i], job[s].copies[i], job[s].change)
                                  ELSE shelf[i]]
  /\ SkusDiffer(shelf')
  /\ EndJob(s) /\ UNCHANGED <<content, begun>>

FillRead(s, k, products) ==
  /\ k \in OnShelf("package") /\ products # {} /\ CheckFill(k, products)
  /\ Starts(s, [kind |-> "fill", package |-> k, products |-> products])

\* PRIMARY KEY (package_id, product_id): of two that add a product one fails.
FillCommit(s) ==
  /\ Working(s, "fill")
  /\ \A e \in ContentOf(job[s].package) : e.product \notin job[s].products
  /\ content' = content \cup {[package |-> job[s].package, product |-> p, quantity |-> 1] : p \in job[s].products}
  /\ EndJob(s) /\ UNCHANGED <<shelf, begun>>

TakeRead(s, k, i) ==
  /\ k \in OnShelf("package") /\ CheckTake(k, i)
  /\ Starts(s, [kind |-> "take", package |-> k, product |-> i])

\* An item that another request removed first is no error.
TakeCommit(s) ==
  /\ Working(s, "take")
  /\ content' = {e \in content : ~(e.package = job[s].package /\ e.product = job[s].product)}
  /\ EndJob(s) /\ UNCHANGED <<shelf, begun>>

AmountRead(s, e, q) ==
  /\ e \in content
  /\ Starts(s, [kind |-> "amount", item |-> e, quantity |-> q])

\* An unchanged quantity is not written; the item of another must still be there.
AmountCommit(s) ==
  /\ Working(s, "amount")
  /\ LET same == {e \in content : e.package = job[s].item.package /\ e.product = job[s].item.product}
     IN IF job[s].quantity = job[s].item.quantity THEN content' = content
        ELSE /\ same # {}
             /\ content' = (content \ same) \cup {[job[s].item EXCEPT !.quantity = job[s].quantity]}
  /\ EndJob(s) /\ UNCHANGED <<shelf, begun>>

\* Anything that raises before the commit, a constraint included.
CatalogRequestFails(s) == job[s] # NoJob /\ EndJob(s) /\ UNCHANGED catalogVars

CatalogNext ==
  /\ \E s \in Sessions :
       \/ \E w \in Wanted : NewRead(s, w.row, w.products)
       \/ \E i \in ShelfIds, c \in ShelfEdits : EditRead(s, i, c)
       \/ \E i \in ShelfIds, ids \in SUBSET OnShelf("product") : Cardinality(ids) = 2 /\ MoveRead(s, ids, i)
       \/ \E i \in ShelfIds : RetireRead(s, i)
       \/ \E k, i \in ShelfIds : FillRead(s, k, {i}) \/ TakeRead(s, k, i)
       \/ \E e \in content : AmountRead(s, e, 2)
       \/ NewCommit(s) \/ EditCommit(s) \/ FillCommit(s) \/ TakeCommit(s) \/ AmountCommit(s)
       \/ CatalogRequestFails(s)
  /\ Watch({"new", "edit", "retire", "fill", "take"}, UNCHANGED <<shelf, content>>)

CatalogSpec == CatalogInit /\ [][CatalogNext]_<<job, alone, catalogVars>>

\* What a package says of its products and of itself.
Available(i) == i \in Offered("product")
Purchasable(k) == k \in Offered("package") /\ \A e \in ContentOf(k) : Available(e.product)

-----------------------------------------------------------------------------
(* What is promised. *)

\* Rows, items and requests have their types; a package has one row per product.
CatalogTypeOK ==
  /\ \A i \in ShelfIds : shelf[i] \in ShelfRows \cup {Vacant}
  /\ content \subseteq Items /\ begun \in 0 .. MaxRequests
  /\ \A e, f \in content : e.package = f.package /\ e.product = f.product => e = f
  /\ \A s \in Sessions :
       \/ job[s] \in {NoJob} \cup NewJobs \cup FillJobs \cup TakeJobs \cup AmountJobs
       \/ job[s].kind \in {"edit", "retire"} /\ job[s].ids \subseteq ShelfIds

\* The commit of the request of session s.
Commits(s) == job[s] # NoJob /\ job'[s] = NoJob /\ <<shelf, content>>' # <<shelf, content>>

\* A package loses its last item only to a removal that overlapped another change:
\* the check that an item is left cannot see one.
LastItemStays ==
  [][\A k \in OnShelf("package") : ContentOf(k) # {} /\ ContentOf(k)' = {}
       => \E s \in Sessions : Commits(s) /\ Working(s, "take") /\ s \notin alone]_<<content, job>>

\* Two rows on offer get the same name only by requests that overlapped, or by
\* turning one of them on again, which looks for no name.
NamesStayDistinct ==
  [][\A i, k \in ShelfIds :
       (/\ shelf'[i].kind = shelf'[k].kind /\ shelf'[i].kind \in {"category", "product"} /\ i # k
        /\ shelf'[i].on /\ shelf'[k].on /\ shelf'[i].name = shelf'[k].name)
       => \/ shelf[i].kind = shelf[k].kind /\ shelf[i].on /\ shelf[k].on /\ shelf[i].name = shelf[k].name
          \/ \E s \in Sessions :
               Commits(s) /\ (s \notin alone \/ (Working(s, "edit") /\ "on" \in DOMAIN job[s].change))]_<<shelf, job>>

\* A deletion that overlapped nothing takes no product out of a package that is
\* sold and leaves no product on offer in a category that is hidden.
DeletionsKeepSelling ==
  [][\A s \in Sessions : Commits(s) /\ Working(s, "retire") /\ s \in alone
       => /\ \A k \in OnShelf("package") \ job[s].ids : Purchasable(k) => Purchasable(k)'
          /\ \A i \in Offered("product")' : shelf'[i].category \notin job[s].ids]_<<shelf, job>>
=============================================================================
