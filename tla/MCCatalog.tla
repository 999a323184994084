------------------------------ MODULE MCCatalog ------------------------------
(* Two categories, two products and a package of both.                        *)
EXTENDS Catalog

Category(n, on) == [kind |-> "category", name |-> n, on |-> on]
Product(n, sku, c) == [kind |-> "product", name |-> n, sku |-> sku, category |-> c, on |-> TRUE]
Package == [kind |-> "package", on |-> TRUE]
OnShelves(f) == [i \in ShelfIds |-> IF i \in DOMAIN f THEN f[i] ELSE Vacant]

Shelves == {OnShelves(<<Category("books", TRUE), Category("pens", FALSE),
                        Product("atlas", "a", 1), Product("novel", "n", 1), Package>>)}
ForSale == {[row |-> Category("maps", TRUE), products |-> {}],
            [row |-> Category("pens", TRUE), products |-> {}],
            [row |-> Product("atlas", "x", 2), products |-> {}],
            [row |-> Package, products |-> {3, 4}]}
ShelfEdit(kind, fields) == [kind |-> kind, fields |-> fields]
EditsTried == {ShelfEdit("category", [name |-> "pens"]), ShelfEdit("category", [on |-> TRUE]),
               ShelfEdit("product", [name |-> "novel"]), ShelfEdit("product", [on |-> FALSE]),
               ShelfEdit("product", [sku |-> "x"]),
               ShelfEdit("package", [on |-> FALSE])}
=============================================================================
