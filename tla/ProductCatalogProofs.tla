------------------------ MODULE ProductCatalogProofs ------------------------
(***************************************************************************)
(* Proofs about row locks, stock and cache entries, for any products,      *)
(* calls, admins and lines.                                                *)
(***************************************************************************)
EXTENDS ProductCatalog, SumTheorems

\* The lines of a call that name a product are finitely many, and counted.
LEMMA UnitsFinite ==
    ASSUME NEW c, NEW n \in Nat, NEW p
    PROVE  IsFiniteSet({i \in 1..n : Lines[c][i] = p})
<1>1. IsFiniteSet(1..n)
    BY FS_Interval
<1> QED BY <1>1, FS_Subset

LEMMA UnitsType ==
    ASSUME NEW c, NEW n \in Nat, NEW p
    PROVE  Units(c, n, p) \in Nat
<1> DEFINE S == {i \in 1..n : Lines[c][i] = p}
<1>1. IsFiniteSet(S)
    BY UnitsFinite, Zenon
<1>2. Cardinality(S) \in Nat
    <2> HIDE DEF S
    <2> QED BY <1>1, FS_CardinalityType
<1> QED BY <1>2 DEF Units

\* A product on none of the first n lines has no unit there.
LEMMA UnitsOfNone ==
    ASSUME NEW c, NEW n \in Nat, NEW p, \A i \in 1..n : Lines[c][i] # p
    PROVE  Units(c, n, p) = 0
<1>1. {i \in 1..n : Lines[c][i] = p} = {}
    OBVIOUS
<1>2. Cardinality({}) = 0
    BY FS_EmptySet
<1> QED BY <1>1, <1>2 DEF Units

\* A product on one of the first n lines has a unit there.
LEMMA UnitsOfSome ==
    ASSUME NEW c, NEW n \in Nat, NEW i \in 1..n
    PROVE  Units(c, n, Lines[c][i]) > 0
<1> DEFINE p == Lines[c][i]
           S == {j \in 1..n : Lines[c][j] = p}
<1>1. i \in S /\ Units(c, n, p) = Cardinality(S)
    BY DEF Units
<1>2. IsFiniteSet(S)
    BY UnitsFinite, Zenon
<1> HIDE DEF p, S
<1>3. Cardinality(S) \in Nat /\ Cardinality(S) # 0
    BY <1>1, <1>2, FS_CardinalityType, FS_EmptySet
<1>4. Units(c, n, p) > 0
    BY <1>1, <1>3
<1> QED BY <1>4 DEF p

\* Each further line adds one unit to its own product.
LEMMA UnitsOfOneMore ==
    ASSUME NEW c, NEW n \in Nat, NEW p
    PROVE  Units(c, n + 1, p) = Units(c, n, p) + (IF Lines[c][n + 1] = p THEN 1 ELSE 0)
<1> DEFINE S == {i \in 1..n : Lines[c][i] = p}
           T == {i \in 1..(n + 1) : Lines[c][i] = p}
<1>1. IsFiniteSet(S) /\ Cardinality(S) \in Nat
    <2>1. IsFiniteSet(S)
        BY UnitsFinite, Zenon
    <2> HIDE DEF S
    <2> QED BY <2>1, FS_CardinalityType
<1>2. Units(c, n + 1, p) = Cardinality(T) /\ Units(c, n, p) = Cardinality(S)
    BY DEF Units
<1>3. CASE Lines[c][n + 1] = p
    <2>1. T = S \cup {n + 1} /\ n + 1 \notin S
        BY <1>3
    <2> HIDE DEF S, T
    <2>2. Cardinality(T) = Cardinality(S) + 1
        BY <1>1, <2>1, FS_AddElement
    <2> QED BY <1>2, <1>3, <2>2
<1>4. CASE Lines[c][n + 1] # p
    <2>1. T = S
        BY <1>4
    <2> HIDE DEF S, T
    <2> QED BY <1>1, <1>2, <1>4, <2>1
<1> QED BY <1>3, <1>4

\* The initial state satisfies the inductive invariant.
LEMMA CatalogInitially == Init => StateTypes /\ CatalogInv
<1> SUFFICES ASSUME Init PROVE StateTypes /\ CatalogInv
    OBVIOUS
<1>1. StateTypes /\ LocksAreHeld /\ KnownProducts /\ StaleIsExplained
    BY CatalogAssumption DEF Init, StateTypes, LocksAreHeld, KnownProducts, KnownRows, KnownEdits, KnownLines,
        StaleIsExplained, Stale, NoRow, NoEdit, Row, Places
<1>2. TransactionsAddUp /\ LinesStayOnSale /\ TakenIsKnown
    BY DEF Init, TransactionsAddUp, LinesStayOnSale, TakenIsKnown, LinesTaken
<1> QED BY <1>1, <1>2 DEF CatalogInv

\* A line that is left is one of the products of its call.
LEMMA LineIsOrdered ==
    ASSUME NEW c \in Calls, StateTypes, LineLeft(c)
    PROVE  Line(c) \in ProductsOf(c) /\ Line(c) \in Products
BY CatalogAssumption DEF LineLeft, Line, ProductsOf, StateTypes

\* What cacheDel leaves behind: an entry that could not be deleted, or one
\* that was not to be.
LEMMA CacheDelEffect ==
    ASSUME StateTypes, NEW S \in SUBSET Products, CacheDel(S), UNCHANGED row
    PROVE  /\ cache' \in [Products -> Row] /\ tainted' \in SUBSET Products
           /\ \A p \in Products : cache'[p] = cache[p] \/ cache'[p] = NoRow
           /\ \A p \in Products : Stale(p)' => p \in tainted' \/ (Stale(p) /\ p \notin S /\ p \notin tainted)
<1>1. PICK failed \in SUBSET S :
          /\ cache' = [p \in Products |-> IF p \in S \ failed THEN NoRow ELSE cache[p]]
          /\ tainted' = (tainted \ S) \cup failed
    BY DEF CacheDel
<1> QED BY <1>1 DEF StateTypes, Stale, NoRow, Row

\* The products of a call are products.
LEMMA OrderedProducts == \A c \in Calls : ProductsOf(c) \subseteq Products
BY CatalogAssumption DEF ProductsOf

\* Unlocking a call's rows leaves the other locks, and none of its own.
LEMMA UnlockEffect ==
    ASSUME StateTypes, LocksAreHeld, NEW c \in Calls, Unlock(c),
           \A d \in Calls \ {c} : at'[d] = at[d]
    PROVE  /\ writer' \in [Products -> Calls \cup {NoCall}] /\ dirty' \in [Products -> Nat]
           /\ LocksAreHeld'
BY CatalogAssumption DEF StateTypes, LocksAreHeld, Unlock, ProductsOf

\* A commit changes the rows the call has locked and frees them.
LEMMA CommitEffect ==
    ASSUME StateTypes, LocksAreHeld, KnownProducts, NEW c \in Calls, Commit(c)
    PROVE  /\ row' \in [Products -> Row]
           /\ \A p \in Products : writer[p] # c => row'[p] = row[p]
           /\ \A p \in Products : row'[p].active = row[p].active
BY ZenonT(30) DEF StateTypes, Commit, Row

\* After a saga's commit a stale entry was so before, or is recorded.
LEMMA CommitEvictedEffect ==
    ASSUME StateTypes, LocksAreHeld, KnownProducts, NEW c \in Calls, CommitEvicted(c)
    PROVE  /\ tainted' \in SUBSET Products /\ cache' = cache
           /\ \A p \in Products : Stale(p)' => p \in tainted' \/ Stale(p)
           /\ tainted \subseteq tainted'
BY CommitEffect DEF StateTypes, CommitEvicted, Stale

\* Every step keeps the types.
LEMMA TypesStep == StateTypes /\ KnownProducts /\ [Next]_vars => StateTypes'
<1> SUFFICES ASSUME StateTypes, KnownProducts, [Next]_vars
             PROVE  StateTypes'
    OBVIOUS
<1> USE CatalogAssumption
<1> Orders \subseteq Calls /\ Clients \subseteq Calls
    BY DEF Calls
<1> USE DEF tableVars, lockVars, cacheVars
<1>1. CASE UNCHANGED vars
    BY <1>1 DEF vars, StateTypes
<1>2. ASSUME NEW p \in Products, FindById(p) \/ CacheSet(p) \/ Expire(p)
      PROVE  StateTypes'
    <2>1. NoRow \in Row
        BY DEF NoRow, Row
    <2>2. fetch' \in [Products -> Row]
        BY <1>2, <2>1, ZenonT(30) DEF FindById, CacheSet, Expire, StateTypes
    <2>3. cache' \in [Products -> Row] /\ tainted' \in SUBSET Products
        BY <1>2, <2>1, ZenonT(30) DEF FindById, CacheSet, Expire, StateTypes
    <2> QED BY <1>2, <2>2, <2>3 DEF FindById, CacheSet, Expire, StateTypes
<1>3. ASSUME NEW p \in Products, NEW units \in 0..MaxStock, Create(p, units)
      PROVE  StateTypes'
    BY <1>3 DEF Create, StateTypes, Row
<1>4. ASSUME NEW c \in Calls, BeginReserve(c) \/ BeginRelease(c) \/ EvictAfterCommit(c)
      PROVE  StateTypes'
    <2>1. CacheDel(ProductsOf(c)) /\ UNCHANGED row
        BY <1>4 DEF BeginReserve, BeginRelease, EvictAfterCommit
    <2>2. cache' \in [Products -> Row] /\ tainted' \in SUBSET Products
        BY <2>1, CacheDelEffect, OrderedProducts
    <2>3. at' \in [Calls -> Places]
        BY <1>4 DEF BeginReserve, BeginRelease, EvictAfterCommit, GoTo, StateTypes, Places
    <2>4. next' = [next EXCEPT ![c] = 1] \/ next' = next
        BY <1>4 DEF BeginReserve, BeginRelease, EvictAfterCommit
    <2>5. next' \in [Calls -> Nat \ {0}]
        BY <2>4 DEF StateTypes
    <2> QED BY <1>4, <2>2, <2>3, <2>5 DEF BeginReserve, BeginRelease, EvictAfterCommit, StateTypes
<1>5. ASSUME NEW c \in Calls, BeginHttpReserve(c)
      PROVE  StateTypes'
    BY <1>5 DEF BeginHttpReserve, GoTo, StateTypes, Places
<1>6. ASSUME NEW c \in Calls, TakeLine(c) \/ ReturnLine(c)
      PROVE  StateTypes'
    <2>1. Line(c) \in Products
        BY <1>6, LineIsOrdered DEF TakeLine, ReturnLine
    <2>2. StockSeen(c, Line(c)) \in Nat
        BY <2>1 DEF StockSeen, StateTypes, Row
    <2>3. \E units \in Nat : Lock(c, Line(c), units)
        BY <1>6, <2>2 DEF TakeLine, ReturnLine, Available
    <2>4. writer' \in [Products -> Calls \cup {NoCall}] /\ dirty' \in [Products -> Nat]
        BY <2>1, <2>3 DEF Lock, StateTypes
    <2>6. next' = [next EXCEPT ![c] = next[c] + 1]
        BY <1>6 DEF TakeLine, ReturnLine
    <2>5. next' \in [Calls -> Nat \ {0}]
        BY <2>6 DEF StateTypes
    <2> QED BY <1>6, <2>4, <2>5 DEF TakeLine, ReturnLine, StateTypes
<1>7. ASSUME NEW c \in Calls, RefuseOrder(c) \/ CommitReserve(c) \/ CommitRelease(c) \/ CommitHttpReserve(c)
      PROVE  StateTypes'
    <2>1. Commit(c) /\ tainted' \in SUBSET Products /\ cache' = cache
        BY <1>7 DEF RefuseOrder, CommitReserve, CommitRelease, CommitHttpReserve, CommitEvicted, StateTypes
    <2>2. row' \in [Products -> Row]
        BY <2>1, ZenonT(30) DEF Commit, StateTypes, Row
    <2>3. writer' \in [Products -> Calls \cup {NoCall}] /\ dirty' \in [Products -> Nat]
        BY <2>1 DEF Commit, Unlock, StateTypes
    <2>4. at' \in [Calls -> Places] /\ UNCHANGED <<next, edit, fetch>>
        BY <1>7 DEF RefuseOrder, CommitReserve, CommitRelease, CommitHttpReserve, GoTo, StateTypes, Places
    <2> QED BY <2>1, <2>2, <2>3, <2>4 DEF Commit, StateTypes
<1>8. ASSUME NEW c \in Calls, RefuseClient(c) \/ Abort(c)
      PROVE  StateTypes'
    <2>1. writer' \in [Products -> Calls \cup {NoCall}] /\ dirty' \in [Products -> Nat]
        BY <1>8 DEF RefuseClient, Abort, Unlock, StateTypes
    <2>2. at' \in [Calls -> Places]
        BY <1>8 DEF RefuseClient, Abort, GoTo, StateTypes, Places
    <2> QED BY <1>8, <2>1, <2>2 DEF RefuseClient, Abort, StateTypes
<1>9. ASSUME NEW a \in Admins, NEW p \in Products, NEW change \in {"details", "stock", "remove"},
             NEW units \in 0..MaxStock, ReadProduct(a, p, change, units)
      PROVE  StateTypes'
    BY <1>9 DEF ReadProduct, Changed, StateTypes, Row, NoRow, Edits
<1>10. ASSUME NEW a \in Admins, CompareProduct(a) \/ SaveProduct(a)
       PROVE  StateTypes'
    <2>1. edit[a] \in Edits
        BY <1>10 DEF CompareProduct, SaveProduct, StateTypes, NoEdit
    <2>2. CASE CompareProduct(a)
        BY <2>1, <2>2 DEF CompareProduct, StateTypes, Edits
    <2>3. CASE SaveProduct(a)
        <3>1. row' \in [Products -> Row] /\ overwritten' \in SUBSET Products
            BY <2>1, <2>3 DEF SaveProduct, StateTypes, Row, Edits
        <3>2. edit' \in [Admins -> {NoEdit} \cup Edits]
            BY <2>1, <2>3 DEF SaveProduct, StateTypes, Edits
        <3> QED BY <2>3, <3>1, <3>2 DEF SaveProduct, StateTypes
    <2> QED BY <1>10, <2>2, <2>3
<1>11. ASSUME NEW a \in Admins, EvictProduct(a)
       PROVE  StateTypes'
    <2>1. edit[a].product \in Products
        BY <1>11 DEF EvictProduct, StateTypes, NoEdit, Edits
    <2>2. cache' \in [Products -> Row] /\ tainted' \in SUBSET Products
        BY <1>11, <2>1, CacheDelEffect DEF EvictProduct
    <2> QED BY <1>11, <2>2 DEF EvictProduct, StateTypes
<1> QED BY <1>1, <1>2, <1>3, <1>4, <1>5, <1>6, <1>7, <1>8, <1>9, <1>10, <1>11
        DEF Next, OrderStep, ClientStep, AdminStep

\* Every step keeps the locks and the known products.
LEMMA LocksStep ==
    StateTypes /\ LocksAreHeld /\ KnownProducts /\ [Next]_vars => LocksAreHeld' /\ KnownProducts'
<1> SUFFICES ASSUME StateTypes, LocksAreHeld, KnownProducts, [Next]_vars
             PROVE  LocksAreHeld' /\ KnownProducts'
    OBVIOUS
<1> USE CatalogAssumption
<1> Orders \subseteq Calls /\ Clients \subseteq Calls
    BY DEF Calls
<1> USE DEF tableVars, lockVars, cacheVars
<1>1. CASE UNCHANGED vars
    BY <1>1 DEF vars, LocksAreHeld, KnownProducts, KnownRows, KnownEdits, KnownLines, ProductsOf
<1>2. ASSUME NEW p \in Products, FindById(p) \/ CacheSet(p) \/ Expire(p)
      PROVE  LocksAreHeld' /\ KnownProducts'
    <2>1. LocksAreHeld'
        BY <1>2 DEF FindById, CacheSet, Expire, LocksAreHeld, ProductsOf
    <2>2. KnownProducts'
        <3>1. UNCHANGED <<row, born, writer, at, next, edit>>
            BY <1>2 DEF FindById, CacheSet, Expire
        <3>2. p \notin born => row[p] = NoRow /\ cache[p] = NoRow /\ fetch[p] = NoRow
            BY DEF KnownProducts, KnownRows
        <3>3. p \notin born => cache'[p] = NoRow /\ fetch'[p] = NoRow
            BY <1>2, <3>2 DEF FindById, CacheSet, Expire, StateTypes, NoRow
        <3>4. \A q \in Products \ {p} : cache'[q] = cache[q] /\ fetch'[q] = fetch[q]
            BY <1>2 DEF FindById, CacheSet, Expire, StateTypes
        <3>5. KnownRows'
            BY <3>1, <3>3, <3>4 DEF KnownProducts, KnownRows
        <3> QED BY <3>1, <3>5 DEF KnownProducts, KnownEdits, KnownLines, ProductsOf
    <2> QED BY <2>1, <2>2
<1>3. ASSUME NEW p \in Products, NEW units \in 0..MaxStock, Create(p, units)
      PROVE  LocksAreHeld' /\ KnownProducts'
    BY <1>3 DEF Create, StateTypes, LocksAreHeld, KnownProducts, KnownRows, KnownEdits, KnownLines, ProductsOf
<1>4. ASSUME NEW c \in Calls, BeginReserve(c) \/ BeginRelease(c) \/ EvictAfterCommit(c) \/ BeginHttpReserve(c)
      PROVE  LocksAreHeld' /\ KnownProducts'
    <2>1. \A p \in Products : cache'[p] = cache[p] \/ cache'[p] = NoRow
        BY <1>4, CacheDelEffect, OrderedProducts DEF BeginReserve, BeginRelease, EvictAfterCommit, BeginHttpReserve
    <2>2. /\ UNCHANGED <<row, born, lockVars, edit, fetch>>
          /\ \A d \in Calls \ {c} : at'[d] = at[d] /\ next'[d] = next[d]
          /\ at[c] \notin {"reserving", "releasing"}
          /\ \/ at'[c] = "reserving" /\ next'[c] = 1
             \/ at[c] = "reserved" /\ at'[c] = "releasing"
             \/ at'[c] = "sold"
        BY <1>4 DEF BeginReserve, BeginRelease, EvictAfterCommit, BeginHttpReserve, GoTo, StateTypes
    <2>3. LocksAreHeld'
        BY <2>2 DEF LocksAreHeld, StateTypes, ProductsOf
    <2>4. KnownProducts'
        <3>1. KnownRows'
            BY <2>1, <2>2 DEF KnownProducts, KnownRows
        <3>2. KnownEdits'
            BY <2>2 DEF KnownProducts, KnownEdits
        <3>3. KnownLines'
            BY <2>2 DEF KnownProducts, KnownLines, ProductsOf
        <3> QED BY <3>1, <3>2, <3>3 DEF KnownProducts
    <2> QED BY <2>3, <2>4
<1>5. ASSUME NEW c \in Calls, TakeLine(c) \/ ReturnLine(c)
      PROVE  LocksAreHeld' /\ KnownProducts'
    <2>1. Line(c) \in Products /\ Line(c) \in ProductsOf(c) /\ at[c] \in {"reserving", "releasing"}
        BY <1>5, LineIsOrdered DEF TakeLine, ReturnLine
    <2>2. Line(c) \in born
        BY <1>5, <2>1 DEF TakeLine, ReturnLine, Available, KnownProducts, KnownRows, KnownLines, NoRow
    <2>3. /\ writer' = [writer EXCEPT ![Line(c)] = c]
          /\ next' = [next EXCEPT ![c] = next[c] + 1]
          /\ UNCHANGED <<row, born, at, edit, cache, fetch>>
        BY <1>5 DEF TakeLine, ReturnLine, Lock
    <2>4. LocksAreHeld'
        BY <2>1, <2>3 DEF LocksAreHeld, StateTypes, ProductsOf
    <2>5. ASSUME NEW d \in Calls
          PROVE  at[d] = "reserving" => \A i \in 1 .. next'[d] - 1 : Lines[d][i] \in born
        <3>1. CASE d = c
            <4>1. next'[c] - 1 = next[c] /\ next[c] \in Nat \ {0}
                BY <2>3 DEF StateTypes
            <4> QED BY <2>2, <3>1, <4>1 DEF KnownProducts, KnownLines, Line
        <3>2. CASE d # c
            BY <2>3, <3>2 DEF KnownProducts, KnownLines, StateTypes
        <3> QED BY <3>1, <3>2
    <2>6. KnownProducts'
        BY <2>2, <2>3, <2>5 DEF KnownProducts, KnownRows, KnownEdits, KnownLines, StateTypes, ProductsOf
    <2> QED BY <2>4, <2>6
<1>6. ASSUME NEW c \in Calls, RefuseOrder(c) \/ CommitReserve(c) \/ CommitRelease(c) \/ CommitHttpReserve(c)
      PROVE  LocksAreHeld' /\ KnownProducts'
    <2>1. /\ Commit(c) /\ UNCHANGED <<born, next, edit, cache, fetch>>
          /\ at' = [at EXCEPT ![c] = at'[c]]
          /\ at'[c] \in {"refused", "reserved", "released", "evicting"}
        BY <1>6 DEF RefuseOrder, CommitReserve, CommitRelease, CommitHttpReserve, CommitEvicted, Commit, GoTo, StateTypes
    <2>2. LocksAreHeld'
        BY <2>1, UnlockEffect DEF Commit, StateTypes
    <2>3. \A p \in Products \ born : row'[p] = NoRow /\ writer'[p] = NoCall
        BY <2>1, CommitEffect DEF Commit, Unlock, KnownProducts, KnownRows, StateTypes
    <2>4. at'[c] = "reserved" => ProductsOf(c) \subseteq born
        <3> SUFFICES ASSUME at'[c] = "reserved"
                     PROVE  \A i \in DOMAIN Lines[c] : Lines[c][i] \in born
            BY DEF ProductsOf
        <3>1. at[c] = "reserving" /\ ~LineLeft(c)
            BY <1>6 DEF RefuseOrder, CommitReserve, CommitRelease, CommitHttpReserve, GoTo, StateTypes
        <3>2. DOMAIN Lines[c] = 1 .. Len(Lines[c]) /\ Len(Lines[c]) \in Nat /\ next[c] \in Nat
            BY DEF StateTypes
        <3> QED BY <3>1, <3>2 DEF LineLeft, KnownProducts, KnownLines
    <2>5. KnownProducts'
        <3>1. KnownRows' /\ KnownEdits'
            BY <2>1, <2>3 DEF KnownProducts, KnownRows, KnownEdits
        <3>2. \A d \in Calls \ {c} : at'[d] = at[d]
            BY <2>1 DEF StateTypes
        <3>3. KnownLines'
            BY <2>1, <2>4, <3>2 DEF KnownProducts, KnownLines, ProductsOf
        <3> QED BY <3>1, <3>3 DEF KnownProducts
    <2> QED BY <2>2, <2>5
<1>7. ASSUME NEW c \in Calls, RefuseClient(c) \/ Abort(c)
      PROVE  LocksAreHeld' /\ KnownProducts'
    <2>1. Unlock(c) /\ UNCHANGED <<row, born, next, edit, cache, fetch>>
        BY <1>7 DEF RefuseClient, Abort
    <2>2. \A d \in Calls \ {c} : at'[d] = at[d]
        BY <1>7 DEF RefuseClient, Abort, GoTo, StateTypes
    <2>3. at'[c] \in {"failed", "idle"} \/ (at[c] = "releasing" /\ at'[c] = "reserved")
        BY <1>7 DEF RefuseClient, Abort, GoTo, StateTypes
    <2>4. LocksAreHeld'
        BY <2>1, <2>2, UnlockEffect
    <2>5. KnownProducts'
        <3>1. KnownRows' /\ KnownEdits'
            BY <2>1 DEF Unlock, KnownProducts, KnownRows, KnownEdits, StateTypes
        <3>2. KnownLines'
            BY <2>1, <2>2, <2>3 DEF KnownProducts, KnownLines, ProductsOf
        <3> QED BY <3>1, <3>2 DEF KnownProducts
    <2> QED BY <2>4, <2>5
<1>8. ASSUME NEW a \in Admins, NEW p \in Products, NEW change \in {"details", "stock", "remove"},
             NEW units \in 0..MaxStock, ReadProduct(a, p, change, units)
      PROVE  LocksAreHeld' /\ KnownProducts'
    <2>1. p \in born
        BY <1>8 DEF ReadProduct, KnownProducts, KnownRows, NoRow
    <2>2. LocksAreHeld'
        BY <1>8 DEF ReadProduct, LocksAreHeld, ProductsOf
    <2>3. KnownProducts'
        BY <1>8, <2>1 DEF ReadProduct, KnownProducts, KnownRows, KnownEdits, KnownLines, StateTypes, ProductsOf
    <2> QED BY <2>2, <2>3
<1>9. ASSUME NEW a \in Admins, CompareProduct(a) \/ SaveProduct(a) \/ EvictProduct(a)
      PROVE  LocksAreHeld' /\ KnownProducts'
    <2>1. edit[a] \in Edits /\ edit[a].product \in born /\ edit[a].product \in Products
        BY <1>9 DEF CompareProduct, SaveProduct, EvictProduct, StateTypes, NoEdit, Edits, KnownProducts, KnownEdits
    <2>2. UNCHANGED <<writer, at, next, fetch, born>>
        BY <1>9 DEF CompareProduct, SaveProduct, EvictProduct
    <2>3. \A q \in Products \ born : row'[q] = row[q]
        BY <1>9, <2>1 DEF CompareProduct, SaveProduct, EvictProduct, StateTypes
    <2>4. \A q \in Products : cache'[q] = cache[q] \/ cache'[q] = NoRow
        BY <1>9, <2>1, CacheDelEffect DEF CompareProduct, SaveProduct, EvictProduct
    <2>5. \A b \in Admins : edit'[b] # NoEdit => edit'[b].product \in born
        <3>1. \A b \in Admins \ {a} : edit'[b] = edit[b]
            BY <1>9 DEF CompareProduct, SaveProduct, EvictProduct, StateTypes
        <3>2. edit'[a] = NoEdit \/ edit'[a].product = edit[a].product
            <4>1. CASE CompareProduct(a)
                BY <2>1, <4>1 DEF CompareProduct, StateTypes, Edits
            <4>2. CASE SaveProduct(a)
                BY <2>1, <4>2 DEF SaveProduct, StateTypes, Edits
            <4>3. CASE EvictProduct(a)
                BY <4>3 DEF EvictProduct, StateTypes
            <4> QED BY <1>9, <4>1, <4>2, <4>3
        <3> QED BY <2>1, <3>1, <3>2 DEF KnownProducts, KnownEdits
    <2>6. LocksAreHeld'
        BY <2>2 DEF LocksAreHeld, ProductsOf
    <2>7. KnownProducts'
        BY <2>2, <2>3, <2>4, <2>5 DEF KnownProducts, KnownRows, KnownEdits, KnownLines, ProductsOf
    <2> QED BY <2>6, <2>7
<1> QED BY <1>1, <1>2, <1>3, <1>4, <1>5, <1>6, <1>7, <1>8, <1>9
        DEF Next, OrderStep, ClientStep, AdminStep

\* Every step keeps stale entries explained.
LEMMA StaleStep ==
    StateTypes /\ CatalogInv /\ [Next]_vars => StaleIsExplained'
<1> SUFFICES ASSUME StateTypes, LocksAreHeld, KnownProducts, StaleIsExplained, [Next]_vars
             PROVE  StaleIsExplained'
    BY DEF CatalogInv
<1> USE CatalogAssumption
<1> Orders \subseteq Calls /\ Clients \subseteq Calls /\ Orders \cap Clients = {}
    BY DEF Calls
<1> USE DEF tableVars, lockVars, cacheVars
<1>1. CASE UNCHANGED vars
    BY <1>1 DEF vars, StaleIsExplained, Stale, ProductsOf
<1>2. ASSUME NEW p \in Products, FindById(p) \/ CacheSet(p) \/ Expire(p)
      PROVE  StaleIsExplained'
    <2>1. UNCHANGED <<row, at, edit>>
        BY <1>2 DEF FindById, CacheSet, Expire
    <2>2. \A q \in Products \ {p} : cache'[q] = cache[q] /\ (q \in tainted' <=> q \in tainted)
        BY <1>2 DEF FindById, CacheSet, Expire, StateTypes
    <2>3. Stale(p)' => p \in tainted' \/ (Stale(p) /\ (p \in tainted' <=> p \in tainted))
        BY <1>2 DEF FindById, CacheSet, Expire, Stale, StateTypes
    <2> QED BY <2>1, <2>2, <2>3 DEF StaleIsExplained, Stale, ProductsOf
<1>3. ASSUME NEW p \in Products, NEW units \in 0..MaxStock, Create(p, units)
      PROVE  StaleIsExplained'
    <2>1. cache[p] = NoRow /\ UNCHANGED <<cache, tainted, at, edit>>
        BY <1>3 DEF Create, KnownProducts, KnownRows
    <2>2. \A q \in Products \ {p} : row'[q] = row[q]
        BY <1>3 DEF Create, StateTypes
    <2> QED BY <2>1, <2>2 DEF StaleIsExplained, Stale, ProductsOf
<1>4. ASSUME NEW c \in Calls, BeginReserve(c) \/ BeginRelease(c) \/ EvictAfterCommit(c)
      PROVE  StaleIsExplained'
    <2>1. CacheDel(ProductsOf(c)) /\ UNCHANGED <<row, edit>>
        BY <1>4 DEF BeginReserve, BeginRelease, EvictAfterCommit
    <2>2. \A p \in Products : Stale(p)' => p \in tainted' \/ (Stale(p) /\ p \notin ProductsOf(c) /\ p \notin tainted)
        BY <2>1, CacheDelEffect, OrderedProducts
    <2>3. \A d \in Calls \ {c} : at'[d] = at[d]
        BY <1>4 DEF BeginReserve, BeginRelease, EvictAfterCommit, GoTo, StateTypes
    <2> QED BY <2>1, <2>2, <2>3 DEF StaleIsExplained, ProductsOf
<1>5. ASSUME NEW c \in Calls,
             BeginHttpReserve(c) \/ TakeLine(c) \/ ReturnLine(c) \/ RefuseClient(c) \/ Abort(c)
      PROVE  StaleIsExplained'
    <2>1. UNCHANGED <<row, cache, tainted, edit>>
        BY <1>5 DEF BeginHttpReserve, TakeLine, ReturnLine, RefuseClient, Abort
    <2>2. at[c] # "evicting" /\ \A d \in Calls \ {c} : at'[d] = at[d]
        BY <1>5 DEF BeginHttpReserve, TakeLine, ReturnLine, RefuseClient, MustRefuse, Abort, GoTo, StateTypes
    <2>3. \A p \in Products : Stale(p)' = Stale(p)
        BY <2>1 DEF Stale
    <2>4. \A d \in Clients : at[d] = "evicting" => at'[d] = "evicting"
        BY <2>2
    <2> QED BY <2>1, <2>3, <2>4 DEF StaleIsExplained, ProductsOf
<1>6. ASSUME NEW c \in Calls, RefuseOrder(c) \/ CommitReserve(c) \/ CommitRelease(c)
      PROVE  StaleIsExplained'
    <2>1. CommitEvicted(c) /\ UNCHANGED edit
        BY <1>6 DEF RefuseOrder, CommitReserve, CommitRelease
    <2>2. at[c] # "evicting" /\ \A d \in Calls \ {c} : at'[d] = at[d]
        BY <1>6 DEF RefuseOrder, MustRefuse, CommitReserve, CommitRelease, GoTo, StateTypes
    <2>3. \A p \in Products : Stale(p)' => p \in tainted' \/ Stale(p)
        BY <2>1, CommitEvictedEffect
    <2>4. tainted \subseteq tainted'
        BY <2>1, CommitEvictedEffect
    <2>5. \A d \in Clients : at[d] = "evicting" => at'[d] = "evicting"
        BY <2>2
    <2> QED BY <2>1, <2>3, <2>4, <2>5 DEF StaleIsExplained, ProductsOf
<1>7. ASSUME NEW c \in Clients, CommitHttpReserve(c)
      PROVE  StaleIsExplained'
    <2>1. Commit(c) /\ UNCHANGED <<cache, tainted, edit>> /\ at' = [at EXCEPT ![c] = "evicting"]
        BY <1>7 DEF CommitHttpReserve, GoTo
    <2>2. \A p \in Products : writer[p] # c => row'[p] = row[p]
        BY <2>1, CommitEffect
    <2>3. \A p \in Products : writer[p] = c => p \in ProductsOf(c)
        BY DEF LocksAreHeld
    <2>4. at'[c] = "evicting" /\ \A d \in Calls \ {c} : at'[d] = at[d]
        BY <2>1 DEF StateTypes
    <2>5. at[c] # "evicting"
        BY <1>7 DEF CommitHttpReserve
    <2> QED BY <2>1, <2>2, <2>3, <2>4, <2>5, SMTT(30) DEF StaleIsExplained, Stale, ProductsOf
<1>8. ASSUME NEW a \in Admins, NEW p \in Products, NEW change \in {"details", "stock", "remove"},
             NEW units \in 0..MaxStock, ReadProduct(a, p, change, units)
      PROVE  StaleIsExplained'
    <2>1. UNCHANGED <<row, cache, tainted, at>>
        BY <1>8 DEF ReadProduct
    <2>2. edit[a].at # "evict" /\ \A b \in Admins \ {a} : edit'[b] = edit[b]
        BY <1>8 DEF ReadProduct, StateTypes, NoEdit
    <2> QED BY <2>1, <2>2 DEF StaleIsExplained, Stale, ProductsOf
<1>9. ASSUME NEW a \in Admins, CompareProduct(a)
      PROVE  StaleIsExplained'
    <2>1. UNCHANGED <<row, cache, tainted, at>>
        BY <1>9 DEF CompareProduct
    <2>2. edit[a].at # "evict" /\ \A b \in Admins \ {a} : edit'[b] = edit[b]
        BY <1>9 DEF CompareProduct, StateTypes
    <2> QED BY <2>1, <2>2 DEF StaleIsExplained, Stale, ProductsOf
<1>10. ASSUME NEW a \in Admins, SaveProduct(a)
       PROVE  StaleIsExplained'
    <2>1. edit[a] \in Edits /\ edit[a].at # "evict"
        BY <1>10 DEF SaveProduct, StateTypes, NoEdit
    <2>2. edit'[a].at = "evict" /\ edit'[a].product = edit[a].product /\ \A b \in Admins \ {a} : edit'[b] = edit[b]
        BY <1>10, <2>1 DEF SaveProduct, StateTypes, Edits
    <2>3. UNCHANGED <<cache, tainted, at>> /\ \A p \in Products \ {edit[a].product} : row'[p] = row[p]
        BY <1>10 DEF SaveProduct, StateTypes
    <2>4. ASSUME NEW p \in Products, Stale(p)', p # edit[a].product
          PROVE  \/ p \in tainted
                 \/ \E c \in Clients : at[c] = "evicting" /\ p \in ProductsOf(c)
                 \/ \E b \in Admins \ {a} : edit[b].at = "evict" /\ edit[b].product = p
        <3>1. Stale(p)
            BY <2>3, <2>4 DEF Stale
        <3> QED BY <2>1, <3>1 DEF StaleIsExplained
    <2> QED BY <2>2, <2>3, <2>4 DEF StaleIsExplained, ProductsOf
<1>11. ASSUME NEW a \in Admins, EvictProduct(a)
       PROVE  StaleIsExplained'
    <2>1. edit[a].product \in Products /\ UNCHANGED <<row, at>>
        BY <1>11 DEF EvictProduct, StateTypes, NoEdit, Edits
    <2>2. \A p \in Products : Stale(p)' => p \in tainted' \/ (Stale(p) /\ p # edit[a].product /\ p \notin tainted)
        BY <1>11, <2>1, CacheDelEffect DEF EvictProduct
    <2>3. \A b \in Admins \ {a} : edit'[b] = edit[b]
        BY <1>11 DEF EvictProduct, StateTypes
    <2> QED BY <2>1, <2>2, <2>3 DEF StaleIsExplained, ProductsOf
<1> QED BY <1>1, <1>2, <1>3, <1>4, <1>5, <1>6, <1>7, <1>8, <1>9, <1>10, <1>11
        DEF Next, OrderStep, ClientStep, AdminStep

\* What the calls that do not take part in a step, and the products they have
\* not locked, need not fear.
LEMMA OthersAddUp ==
    ASSUME StateTypes, TransactionsAddUp, NEW c \in Calls,
           at'[c] = at[c], next'[c] = next[c],
           \A p \in Products :
              \/ writer[p] # c /\ writer'[p] # c /\ row'[p].stock \in Nat
              \/ writer[p] = c /\ writer'[p] = c /\ dirty'[p] = dirty[p] /\ row'[p].stock = row[p].stock
    PROVE  /\ at'[c] \in {"reserving", "releasing"} => next'[c] <= Len(Lines[c]) + 1
           /\ \A p \in Products :
                 /\ at'[c] = "reserving" => StockSeen(c, p)' + Units(c, next'[c] - 1, p) = row'[p].stock
                 /\ at'[c] = "releasing" => StockSeen(c, p)' = row'[p].stock + Units(c, next'[c] - 1, p)
<1>1. at'[c] \in {"reserving", "releasing"} => next'[c] <= Len(Lines[c]) + 1
    BY DEF TransactionsAddUp
<1>2. ASSUME NEW p \in Products
      PROVE  /\ at'[c] = "reserving" => StockSeen(c, p)' + Units(c, next'[c] - 1, p) = row'[p].stock
             /\ at'[c] = "releasing" => StockSeen(c, p)' = row'[p].stock + Units(c, next'[c] - 1, p)
    <2> DEFINE n == next[c] - 1
    <2>1. n \in Nat /\ Units(c, n, p) \in Nat /\ row[p].stock \in Nat /\ dirty[p] \in Nat
        <3>1. n \in Nat
            BY DEF StateTypes
        <3> QED BY <3>1, UnitsType DEF StateTypes, Row
    <2>2. /\ at[c] = "reserving" => StockSeen(c, p) + Units(c, n, p) = row[p].stock
          /\ at[c] = "releasing" => StockSeen(c, p) = row[p].stock + Units(c, n, p)
        BY DEF TransactionsAddUp
    <2> HIDE DEF n
    <2>3. CASE writer[p] # c /\ writer'[p] # c /\ row'[p].stock \in Nat
        BY <2>1, <2>2, <2>3 DEF StockSeen, n
    <2>4. CASE writer[p] = c /\ writer'[p] = c /\ dirty'[p] = dirty[p] /\ row'[p].stock = row[p].stock
        BY <2>1, <2>2, <2>4 DEF StockSeen, n
    <2> QED BY <2>3, <2>4
<1> QED BY <1>1, <1>2

\* Every step keeps the arithmetic of the transactions in progress.
LEMMA TransactionsStep ==
    StateTypes /\ LocksAreHeld /\ KnownProducts /\ TransactionsAddUp /\ StateTypes' /\ [Next]_vars
      => TransactionsAddUp'
<1> SUFFICES ASSUME StateTypes, LocksAreHeld, KnownProducts, TransactionsAddUp, StateTypes', [Next]_vars
             PROVE  TransactionsAddUp'
    OBVIOUS
<1> USE CatalogAssumption
<1> Orders \subseteq Calls /\ Clients \subseteq Calls
    BY DEF Calls
<1> USE DEF tableVars, lockVars, cacheVars
<1>1. CASE UNCHANGED <<row, writer, dirty, at, next>>
    BY <1>1 DEF TransactionsAddUp, StockSeen
<1>2. \A p \in Products : row'[p].stock \in Nat
    BY DEF StateTypes, Row
<1>3. ASSUME NEW p \in Products, writer[p] = NoCall, UNCHANGED <<writer, dirty, at, next>>,
             \A q \in Products \ {p} : row'[q] = row[q]
      PROVE  TransactionsAddUp'
    <2>1. ASSUME NEW c \in Calls, NEW q \in Products
          PROVE  \/ writer[q] # c /\ writer'[q] # c /\ row'[q].stock \in Nat
                 \/ writer[q] = c /\ writer'[q] = c /\ dirty'[q] = dirty[q] /\ row'[q].stock = row[q].stock
        BY <1>2, <1>3
    <2> QED BY <1>3, <2>1, OthersAddUp DEF TransactionsAddUp
<1>4. ASSUME NEW c \in Calls, \A d \in Calls \ {c} : at'[d] = at[d] /\ next'[d] = next[d],
             \A d \in Calls \ {c} : \A q \in Products :
                \/ writer[q] # d /\ writer'[q] # d
                \/ writer[q] = d /\ writer'[q] = d /\ dirty'[q] = dirty[q] /\ row'[q].stock = row[q].stock,
             at'[c] \in {"reserving", "releasing"} =>
                /\ next'[c] <= Len(Lines[c]) + 1
                /\ \A p \in Products :
                      /\ at'[c] = "reserving" => StockSeen(c, p)' + Units(c, next'[c] - 1, p) = row'[p].stock
                      /\ at'[c] = "releasing" => StockSeen(c, p)' = row'[p].stock + Units(c, next'[c] - 1, p)
      PROVE  TransactionsAddUp'
    <2>1. ASSUME NEW d \in Calls \ {c}
          PROVE  /\ at'[d] \in {"reserving", "releasing"} => next'[d] <= Len(Lines[d]) + 1
                 /\ \A p \in Products :
                       /\ at'[d] = "reserving" => StockSeen(d, p)' + Units(d, next'[d] - 1, p) = row'[p].stock
                       /\ at'[d] = "releasing" => StockSeen(d, p)' = row'[p].stock + Units(d, next'[d] - 1, p)
        BY <1>2, <1>4, OthersAddUp
    <2> QED BY <1>4, <2>1 DEF TransactionsAddUp
<1>5. ASSUME NEW p \in Products, FindById(p) \/ CacheSet(p) \/ Expire(p)
      PROVE  TransactionsAddUp'
    BY <1>1, <1>5 DEF FindById, CacheSet, Expire
<1>6. ASSUME NEW p \in Products, NEW units \in 0..MaxStock, Create(p, units)
      PROVE  TransactionsAddUp'
    <2>1. writer[p] = NoCall
        BY <1>6 DEF Create, KnownProducts, KnownRows
    <2>2. UNCHANGED <<writer, dirty, at, next>> /\ \A q \in Products \ {p} : row'[q] = row[q]
        BY <1>6 DEF Create, StateTypes
    <2> QED BY <1>3, <2>1, <2>2
<1>7. ASSUME NEW c \in Calls, BeginReserve(c) \/ BeginRelease(c) \/ EvictAfterCommit(c) \/ BeginHttpReserve(c)
      PROVE  TransactionsAddUp'
    <2>1. /\ UNCHANGED <<row, writer, dirty>>
          /\ \A d \in Calls \ {c} : at'[d] = at[d] /\ next'[d] = next[d]
          /\ at[c] \notin {"reserving", "releasing"}
          /\ at'[c] \in {"reserving", "releasing"} => next'[c] = 1
        BY <1>7 DEF BeginReserve, BeginRelease, EvictAfterCommit, BeginHttpReserve, GoTo, StateTypes
    <2>2. \A q \in Products : writer[q] # c
        BY <2>1 DEF LocksAreHeld
    <2>3. ASSUME at'[c] \in {"reserving", "releasing"}
          PROVE  /\ next'[c] <= Len(Lines[c]) + 1
                 /\ \A p \in Products :
                       /\ at'[c] = "reserving" => StockSeen(c, p)' + Units(c, next'[c] - 1, p) = row'[p].stock
                       /\ at'[c] = "releasing" => StockSeen(c, p)' = row'[p].stock + Units(c, next'[c] - 1, p)
        <3>1. next'[c] = 1 /\ next'[c] - 1 = 0
            BY <2>1, <2>3
        <3>2. \A p \in Products : Units(c, 0, p) = 0
            <4>1. \A p \in Products : \A i \in 1..0 : Lines[c][i] # p
                OBVIOUS
            <4> QED BY <4>1, UnitsOfNone
        <3>3. \A p \in Products : StockSeen(c, p)' = row'[p].stock
            BY <2>1, <2>2 DEF StockSeen
        <3>4. Len(Lines[c]) \in Nat
            OBVIOUS
        <3> QED BY <1>2, <3>1, <3>2, <3>3, <3>4
    <2> QED BY <1>4, <2>1, <2>3
<1>8. ASSUME NEW c \in Calls, TakeLine(c) \/ ReturnLine(c)
      PROVE  TransactionsAddUp'
    <2> DEFINE l == Line(c)
    <2>1. l \in Products /\ writer[l] \in {NoCall, c}
        BY <1>8, LineIsOrdered DEF TakeLine, ReturnLine, MayLock
    <2>2. /\ writer' = [writer EXCEPT ![l] = c] /\ next' = [next EXCEPT ![c] = next[c] + 1]
          /\ UNCHANGED <<row, at>>
          /\ \/ at[c] = "reserving" /\ dirty' = [dirty EXCEPT ![l] = StockSeen(c, l) - 1]
             \/ at[c] = "releasing" /\ dirty' = [dirty EXCEPT ![l] = StockSeen(c, l) + 1]
        BY <1>8 DEF TakeLine, ReturnLine, Lock
    <2>3. next[c] \in Nat \ {0} /\ next[c] <= Len(Lines[c])
        BY <1>8 DEF TakeLine, ReturnLine, LineLeft, StateTypes
    <2>4. l = Lines[c][next[c]]
        BY DEF Line
    <2> HIDE DEF l
    <2>5. next'[c] = next[c] + 1 /\ \A d \in Calls \ {c} : at'[d] = at[d] /\ next'[d] = next[d]
        BY <2>2 DEF StateTypes
    <2>6. \A d \in Calls \ {c} : \A q \in Products :
                \/ writer[q] # d /\ writer'[q] # d
                \/ writer[q] = d /\ writer'[q] = d /\ dirty'[q] = dirty[q] /\ row'[q].stock = row[q].stock
        BY <2>1, <2>2 DEF StateTypes
    <2>7. ASSUME NEW p \in Products
          PROVE  /\ at'[c] = "reserving" => StockSeen(c, p)' + Units(c, next'[c] - 1, p) = row'[p].stock
                 /\ at'[c] = "releasing" => StockSeen(c, p)' = row'[p].stock + Units(c, next'[c] - 1, p)
        <3> DEFINE n == next[c] - 1
        <3>1. n \in Nat /\ n + 1 = next[c] /\ next'[c] - 1 = n + 1
            BY <2>3, <2>5
        <3>2. /\ at[c] = "reserving" => StockSeen(c, p) + Units(c, n, p) = row[p].stock
              /\ at[c] = "releasing" => StockSeen(c, p) = row[p].stock + Units(c, n, p)
            BY DEF TransactionsAddUp
        <3> HIDE DEF n
        <3>3. Units(c, n, p) \in Nat /\ Units(c, n + 1, p) = Units(c, n, p) + (IF l = p THEN 1 ELSE 0)
            <4>1. Units(c, n, p) \in Nat
                BY <3>1, UnitsType
            <4>2. Units(c, n + 1, p) = Units(c, n, p) + (IF Lines[c][n + 1] = p THEN 1 ELSE 0)
                BY <3>1, UnitsOfOneMore
            <4> QED BY <2>4, <3>1, <4>1, <4>2
        <3>4. row[p].stock \in Nat /\ StockSeen(c, p) \in Nat
            BY DEF StockSeen, StateTypes, Row
        <3>5. CASE p = l
            <4>1. StockSeen(c, p)' = dirty'[l]
                BY <2>1, <2>2, <3>5 DEF StockSeen, StateTypes
            <4>2. \/ at[c] = "reserving" /\ dirty'[l] = StockSeen(c, p) - 1
                  \/ at[c] = "releasing" /\ dirty'[l] = StockSeen(c, p) + 1
                BY <2>1, <2>2, <3>5 DEF StateTypes
            <4>3. Units(c, next'[c] - 1, p) = Units(c, n, p) + 1 /\ row'[p].stock = row[p].stock
                BY <2>2, <3>1, <3>3, <3>5
            <4>4. CASE at[c] = "reserving"
                <5>1. dirty'[l] = StockSeen(c, p) - 1 /\ StockSeen(c, p) + Units(c, n, p) = row[p].stock
                    BY <3>2, <4>2, <4>4
                <5>2. dirty'[l] + (Units(c, n, p) + 1) = row[p].stock
                    BY <3>3, <3>4, <5>1
                <5> QED BY <2>2, <4>1, <4>3, <4>4, <5>2
            <4>5. CASE at[c] = "releasing"
                <5>1. dirty'[l] = StockSeen(c, p) + 1 /\ StockSeen(c, p) = row[p].stock + Units(c, n, p)
                    BY <3>2, <4>2, <4>5
                <5>2. dirty'[l] = row[p].stock + (Units(c, n, p) + 1)
                    <6>1. Units(c, n, p) \in Nat /\ row[p].stock \in Nat
                        BY <3>3, <3>4
                    <6>2. dirty'[l] = (row[p].stock + Units(c, n, p)) + 1
                        BY <5>1
                    <6> QED BY <6>1, <6>2
                <5> QED BY <2>2, <4>1, <4>3, <4>5, <5>2
            <4> QED BY <4>2, <4>4, <4>5
        <3>6. CASE p # l
            <4>1. StockSeen(c, p)' = StockSeen(c, p)
                BY <2>1, <2>2, <3>6 DEF StockSeen, StateTypes
            <4> QED BY <2>2, <3>1, <3>2, <3>3, <3>4, <3>6, <4>1
        <3> QED BY <3>5, <3>6
    <2>8. next'[c] <= Len(Lines[c]) + 1
        BY <2>3, <2>5
    <2> QED BY <1>4, <2>5, <2>6, <2>7, <2>8
<1>9. ASSUME NEW c \in Calls,
             \/ RefuseOrder(c) \/ CommitReserve(c) \/ CommitRelease(c) \/ CommitHttpReserve(c)
             \/ RefuseClient(c) \/ Abort(c)
      PROVE  TransactionsAddUp'
    <2>1. /\ Unlock(c) /\ UNCHANGED next
          /\ \A p \in Products : writer[p] # c => row'[p] = row[p]
        BY <1>9, CommitEffect DEF RefuseOrder, CommitReserve, CommitRelease, CommitHttpReserve, RefuseClient, Abort,
            CommitEvicted, Commit
    <2>2. at'[c] \notin {"reserving", "releasing"} /\ \A d \in Calls \ {c} : at'[d] = at[d]
        BY <1>9 DEF RefuseOrder, CommitReserve, CommitRelease, CommitHttpReserve, RefuseClient, Abort, GoTo, StateTypes
    <2>3. \A d \in Calls \ {c} : \A q \in Products :
                \/ writer[q] # d /\ writer'[q] # d
                \/ writer[q] = d /\ writer'[q] = d /\ dirty'[q] = dirty[q] /\ row'[q].stock = row[q].stock
        BY <2>1 DEF Unlock, StateTypes
    <2> QED BY <1>4, <2>1, <2>2, <2>3
<1>10. ASSUME NEW a \in Admins, NEW p \in Products, NEW change \in {"details", "stock", "remove"},
              NEW units \in 0..MaxStock, ReadProduct(a, p, change, units)
       PROVE  TransactionsAddUp'
    BY <1>1, <1>10 DEF ReadProduct
<1>11. ASSUME NEW a \in Admins, CompareProduct(a) \/ EvictProduct(a)
       PROVE  TransactionsAddUp'
    BY <1>1, <1>11 DEF CompareProduct, EvictProduct
<1>12. ASSUME NEW a \in Admins, SaveProduct(a)
       PROVE  TransactionsAddUp'
    <2>1. edit[a].product \in Products
        BY <1>12 DEF SaveProduct, StateTypes, NoEdit, Edits
    <2>2. /\ writer[edit[a].product] = NoCall /\ UNCHANGED <<writer, dirty, at, next>>
          /\ \A q \in Products \ {edit[a].product} : row'[q] = row[q]
        BY <1>12 DEF SaveProduct, StateTypes
    <2> QED BY <1>3, <2>1, <2>2
<1>13. CASE UNCHANGED vars
    BY <1>1, <1>13 DEF vars
<1> QED BY <1>5, <1>6, <1>7, <1>8, <1>9, <1>10, <1>11, <1>12, <1>13
        DEF Next, OrderStep, ClientStep, AdminStep

\* A reservation has locked the rows of the lines it has been through.
LEMMA LinesAreLocked ==
    ASSUME StateTypes, TransactionsAddUp, NEW c \in Calls, at[c] = "reserving", NEW i \in 1 .. next[c] - 1
    PROVE  Lines[c][i] \in Products /\ writer[Lines[c][i]] = c
<1> DEFINE n == next[c] - 1
           p == Lines[c][i]
<1>1. n \in Nat /\ n <= Len(Lines[c]) /\ i \in 1..n
    BY CatalogAssumption DEF StateTypes, TransactionsAddUp
<1>2. p \in Products
    BY <1>1, CatalogAssumption
<1>3. StockSeen(c, p) + Units(c, n, p) = row[p].stock
    BY <1>2 DEF TransactionsAddUp
<1>4. Units(c, n, p) \in Nat /\ Units(c, n, p) > 0
    BY <1>1, UnitsType, UnitsOfSome
<1>5. row[p].stock \in Nat /\ StockSeen(c, p) \in Nat
    BY <1>2 DEF StockSeen, StateTypes, Row
<1>6. StockSeen(c, p) # row[p].stock
    BY <1>3, <1>4, <1>5
<1> QED BY <1>2, <1>6 DEF StockSeen

\* A commit turns the lines its transaction has been through into taken lines,
\* or, for a compensation, the taken lines into returned ones.
LEMMA CommitTakes ==
    ASSUME StateTypes, TransactionsAddUp, NEW c \in Calls,
           RefuseOrder(c) \/ CommitReserve(c) \/ CommitRelease(c) \/ CommitHttpReserve(c)
    PROVE  /\ Commit(c) /\ UNCHANGED next
           /\ \A d \in Calls \ {c} : LinesTaken(d)' = LinesTaken(d)
           /\ \/ at[c] = "reserving" /\ LinesTaken(c) = 0 /\ LinesTaken(c)' = next[c] - 1
              \/ at[c] = "releasing" /\ LinesTaken(c) = next[c] - 1 /\ LinesTaken(c)' = 0
<1>1. Commit(c) /\ UNCHANGED next /\ \A d \in Calls \ {c} : at'[d] = at[d]
    BY DEF RefuseOrder, CommitReserve, CommitRelease, CommitHttpReserve, CommitEvicted, GoTo, StateTypes
<1>2. \A d \in Calls \ {c} : LinesTaken(d)' = LinesTaken(d)
    BY <1>1 DEF LinesTaken
<1>3. Len(Lines[c]) \in Nat /\ next[c] \in Nat \ {0}
    BY CatalogAssumption DEF StateTypes
<1>4. at[c] \in {"reserving", "releasing"} => next[c] <= Len(Lines[c]) + 1
    BY DEF TransactionsAddUp
<1>5. \/ at[c] = "reserving" /\ at'[c] = "refused"
      \/ at[c] = "reserving" /\ at'[c] \in {"reserved", "evicting"} /\ ~LineLeft(c)
      \/ at[c] = "releasing" /\ at'[c] = "released" /\ ~LineLeft(c)
    BY DEF RefuseOrder, MustRefuse, CommitReserve, CommitRelease, CommitHttpReserve, GoTo, StateTypes
<1>6. at[c] \in {"reserving", "releasing"} /\ ~LineLeft(c) => Len(Lines[c]) = next[c] - 1
    BY <1>3, <1>4 DEF LineLeft
<1>7. \/ at[c] = "reserving" /\ LinesTaken(c) = 0 /\ LinesTaken(c)' = next[c] - 1
      \/ at[c] = "releasing" /\ LinesTaken(c) = next[c] - 1 /\ LinesTaken(c)' = 0
    BY <1>1, <1>5, <1>6 DEF LinesTaken
<1> QED BY <1>1, <1>2, <1>7

\* Every step keeps the lines of the transactions in progress on sale.
LEMMA LinesOnSaleStep ==
    StateTypes /\ KnownProducts /\ LocksAreHeld /\ TransactionsAddUp /\ LinesStayOnSale /\ [Next]_vars
      => LinesStayOnSale'
<1> SUFFICES ASSUME StateTypes, KnownProducts, LocksAreHeld, TransactionsAddUp, LinesStayOnSale, [Next]_vars
             PROVE  LinesStayOnSale'
    OBVIOUS
<1> Orders \subseteq Calls /\ Clients \subseteq Calls
    BY DEF Calls
<1> USE DEF tableVars
<1>1. ASSUME \A q \in Products : writer[q] # NoCall => row'[q].active = row[q].active,
             \A d \in Calls : at'[d] = "reserving" => (at[d] = "reserving" /\ next'[d] = next[d]) \/ next'[d] = 1
      PROVE  LinesStayOnSale'
    <2> SUFFICES ASSUME NEW d \in Calls, at'[d] = "reserving", NEW i \in 1 .. next'[d] - 1
                 PROVE  row'[Lines[d][i]].active
        BY DEF LinesStayOnSale
    <2>1. at[d] = "reserving" /\ i \in 1 .. next[d] - 1
        BY <1>1 DEF StateTypes
    <2>2. Lines[d][i] \in Products /\ writer[Lines[d][i]] = d
        BY <2>1, LinesAreLocked
    <2> QED BY <1>1, <2>1, <2>2, CatalogAssumption DEF LinesStayOnSale
<1>2. ASSUME UNCHANGED <<row, at, next>>
      PROVE  LinesStayOnSale'
    BY <1>2 DEF LinesStayOnSale
<1>3. ASSUME NEW p \in Products, NEW units \in 0..MaxStock, Create(p, units)
      PROVE  LinesStayOnSale'
    <2>1. writer[p] = NoCall /\ UNCHANGED <<at, next>> /\ \A q \in Products \ {p} : row'[q] = row[q]
        BY <1>3 DEF Create, KnownProducts, KnownRows, StateTypes
    <2> QED BY <1>1, <2>1
<1>4. ASSUME NEW a \in Admins, SaveProduct(a)
      PROVE  LinesStayOnSale'
    <2>1. edit[a].product \in Products
        BY <1>4 DEF SaveProduct, StateTypes, NoEdit, Edits
    <2>2. /\ writer[edit[a].product] = NoCall /\ UNCHANGED <<at, next>>
          /\ \A q \in Products \ {edit[a].product} : row'[q] = row[q]
        BY <1>4, <2>1 DEF SaveProduct, StateTypes
    <2> QED BY <1>1, <2>2
<1>5. ASSUME NEW c \in Calls, TakeLine(c)
      PROVE  LinesStayOnSale'
    <2> SUFFICES ASSUME NEW d \in Calls, at'[d] = "reserving", NEW i \in 1 .. next'[d] - 1
                 PROVE  row'[Lines[d][i]].active
        BY DEF LinesStayOnSale
    <2>1. UNCHANGED <<row, at>> /\ next' = [next EXCEPT ![c] = next[c] + 1] /\ row[Lines[c][next[c]]].active
        BY <1>5 DEF TakeLine, Available, Line
    <2>2. i \in 1 .. next[d] - 1 \/ (d = c /\ i = next[c])
        BY <2>1 DEF StateTypes
    <2> QED BY <2>1, <2>2 DEF LinesStayOnSale
<1>6. ASSUME NEW c \in Calls,
             \/ BeginReserve(c) \/ BeginHttpReserve(c) \/ EvictAfterCommit(c) \/ BeginRelease(c) \/ ReturnLine(c)
             \/ RefuseClient(c) \/ Abort(c)
      PROVE  LinesStayOnSale'
    <2>1. /\ UNCHANGED row
          /\ \A d \in Calls \ {c} : at'[d] = at[d] /\ next'[d] = next[d]
          /\ at'[c] = "reserving" => next'[c] = 1
        BY <1>6 DEF BeginReserve, BeginHttpReserve, EvictAfterCommit, BeginRelease, ReturnLine, RefuseClient, Abort,
            GoTo, StateTypes
    <2> QED BY <1>1, <2>1
<1>7. ASSUME NEW c \in Calls, RefuseOrder(c) \/ CommitReserve(c) \/ CommitRelease(c) \/ CommitHttpReserve(c)
      PROVE  LinesStayOnSale'
    <2>1. Commit(c) /\ UNCHANGED next
        BY <1>7, CommitTakes
    <2>2. at'[c] # "reserving" /\ \A d \in Calls \ {c} : at'[d] = at[d]
        BY <1>7 DEF RefuseOrder, CommitReserve, CommitRelease, CommitHttpReserve, GoTo, StateTypes
    <2>3. \A q \in Products : row'[q].active = row[q].active
        BY <2>1, CommitEffect
    <2> QED BY <1>1, <2>1, <2>2, <2>3
<1>8. ASSUME NEW p \in Products, FindById(p) \/ CacheSet(p) \/ Expire(p)
      PROVE  LinesStayOnSale'
    BY <1>2, <1>8 DEF FindById, CacheSet, Expire
<1>9. ASSUME NEW a \in Admins, NEW p \in Products, NEW change \in {"details", "stock", "remove"},
             NEW units \in 0..MaxStock, ReadProduct(a, p, change, units)
      PROVE  LinesStayOnSale'
    BY <1>2, <1>9 DEF ReadProduct
<1>10. ASSUME NEW a \in Admins, CompareProduct(a) \/ EvictProduct(a)
       PROVE  LinesStayOnSale'
    BY <1>2, <1>10 DEF CompareProduct, EvictProduct
<1>11. CASE UNCHANGED vars
    BY <1>2, <1>11 DEF vars
<1> QED BY <1>3, <1>4, <1>5, <1>6, <1>7, <1>8, <1>9, <1>10, <1>11 DEF Next, OrderStep, ClientStep, AdminStep

\* Every other step leaves the taken lines as they are.
LEMMA OthersTakeNothing ==
    ASSUME StateTypes, [Next]_vars,
           ~\E c \in Calls : RefuseOrder(c) \/ CommitReserve(c) \/ CommitRelease(c) \/ CommitHttpReserve(c)
    PROVE  \A d \in Calls : LinesTaken(d)' = LinesTaken(d)
<1> Orders \subseteq Calls /\ Clients \subseteq Calls
    BY DEF Calls
<1>1. CASE UNCHANGED <<at, next>>
    BY <1>1 DEF LinesTaken
<1>2. ASSUME NEW c \in Calls,
             \/ BeginReserve(c) \/ BeginHttpReserve(c) \/ TakeLine(c) \/ RefuseClient(c) \/ EvictAfterCommit(c)
             \/ BeginRelease(c) \/ ReturnLine(c) \/ Abort(c)
      PROVE  \A d \in Calls : LinesTaken(d)' = LinesTaken(d)
    <2>1. \A d \in Calls \ {c} : at'[d] = at[d] /\ next'[d] = next[d]
        BY <1>2 DEF BeginReserve, BeginHttpReserve, TakeLine, RefuseClient, EvictAfterCommit, BeginRelease, ReturnLine,
            Abort, GoTo, StateTypes
    <2>2. \/ at[c] \in {"idle", "reserving"} /\ at'[c] \in {"idle", "reserving", "failed"}
          \/ at[c] \in {"reserved", "releasing", "evicting"} /\ at'[c] \in {"reserved", "releasing", "sold"}
        BY <1>2 DEF BeginReserve, BeginHttpReserve, TakeLine, RefuseClient, MustRefuse, EvictAfterCommit, BeginRelease,
            ReturnLine, Abort, GoTo, StateTypes
    <2> QED BY <2>1, <2>2 DEF LinesTaken
<1>3. ASSUME NEW p \in Products, FindById(p) \/ CacheSet(p) \/ Expire(p) \/ \E units \in 0..MaxStock : Create(p, units)
      PROVE  UNCHANGED <<at, next>>
    BY <1>3 DEF FindById, CacheSet, Expire, Create
<1>4. ASSUME NEW a \in Admins, AdminStep(a)
      PROVE  UNCHANGED <<at, next>>
    BY <1>4 DEF AdminStep, ReadProduct, CompareProduct, SaveProduct, EvictProduct
<1>5. CASE UNCHANGED vars
    BY <1>1, <1>5 DEF vars
<1>6. CASE \E p \in Products : FindById(p) \/ CacheSet(p) \/ Expire(p) \/ \E units \in 0..MaxStock : Create(p, units)
    BY <1>1, <1>3, <1>6
<1>7. CASE \E a \in Admins : AdminStep(a)
    BY <1>1, <1>4, <1>7
<1>8. CASE \E c \in Calls : \/ BeginReserve(c) \/ BeginHttpReserve(c) \/ TakeLine(c) \/ RefuseClient(c)
                            \/ EvictAfterCommit(c) \/ BeginRelease(c) \/ ReturnLine(c) \/ Abort(c)
    BY <1>2, <1>8
<1> QED BY <1>5, <1>6, <1>7, <1>8 DEF Next, OrderStep, ClientStep

\* Every step keeps the taken products known.
LEMMA TakenStep ==
    StateTypes /\ KnownProducts /\ TransactionsAddUp /\ TakenIsKnown /\ [Next]_vars => TakenIsKnown'
<1> SUFFICES ASSUME StateTypes, KnownProducts, TransactionsAddUp, TakenIsKnown, [Next]_vars
             PROVE  TakenIsKnown'
    OBVIOUS
<1>1. CASE \E c \in Calls : RefuseOrder(c) \/ CommitReserve(c) \/ CommitRelease(c) \/ CommitHttpReserve(c)
    <2>1. PICK c \in Calls : RefuseOrder(c) \/ CommitReserve(c) \/ CommitRelease(c) \/ CommitHttpReserve(c)
        BY <1>1
    <2>2. /\ Commit(c) /\ UNCHANGED next
          /\ \A d \in Calls \ {c} : LinesTaken(d)' = LinesTaken(d)
          /\ \/ at[c] = "reserving" /\ LinesTaken(c)' = next[c] - 1
             \/ LinesTaken(c)' = 0
        BY <2>1, CommitTakes
    <2>3. \A i \in 1..LinesTaken(c)' : Lines[c][i] \in born
        BY <2>2 DEF KnownProducts, KnownLines
    <2>4. UNCHANGED born
        BY <2>2 DEF Commit
    <2> QED BY <2>2, <2>3, <2>4 DEF TakenIsKnown
<1>2. CASE ~\E c \in Calls : RefuseOrder(c) \/ CommitReserve(c) \/ CommitRelease(c) \/ CommitHttpReserve(c)
    <2>1. \A d \in Calls : LinesTaken(d)' = LinesTaken(d)
        BY <1>2, OthersTakeNothing
    <2>2. born \subseteq born'
        BY <1>2 DEF Next, OrderStep, ClientStep, AdminStep, vars, tableVars, FindById, CacheSet, Expire, Create,
            BeginReserve, BeginHttpReserve, TakeLine, RefuseClient, EvictAfterCommit, BeginRelease, ReturnLine, Abort,
            ReadProduct, CompareProduct, SaveProduct, EvictProduct, Calls
    <2> QED BY <2>1, <2>2 DEF TakenIsKnown
<1> QED BY <1>1, <1>2

\* Row locks belong to open transactions, only created products are shown,
\* and stale cache entries are explained, always.
THEOREM CatalogInvariant == Spec => [](StateTypes /\ CatalogInv)
<1>1. Init => StateTypes /\ CatalogInv
    BY CatalogInitially
<1>2. StateTypes /\ CatalogInv /\ [Next]_vars => (StateTypes /\ CatalogInv)'
    BY TypesStep, LocksStep, StaleStep, TransactionsStep, LinesOnSaleStep, TakenStep DEF CatalogInv
<1> QED BY <1>1, <1>2, PTL DEF Spec

\* A cached product that differs from its row is about to be evicted, or a
\* reader was overtaken, Redis failed, or a saga committed after its eviction.
THEOREM StaleTheorem == Spec => []StaleIsExplained
<1>1. CatalogInv => StaleIsExplained
    BY DEF CatalogInv
<1> QED BY <1>1, CatalogInvariant, PTL

-----------------------------------------------------------------------------
(***************************************************************************)
(* Every unit is accounted for.                                            *)
(***************************************************************************)

\* The committed lines of a call are counted by natural numbers, and so is
\* their sum over the calls.
LEMMA TakenType ==
    ASSUME StateTypes, NEW p
    PROVE  /\ \A c \in Calls : LinesTaken(c) \in Nat /\ Taken(c, p) \in Nat
           /\ TakenByAll(p) \in Nat
<1>1. \A c \in Calls : LinesTaken(c) \in Nat
    BY CatalogAssumption DEF LinesTaken, StateTypes
<1>2. \A c \in Calls : Taken(c, p) \in Nat
    BY <1>1, UnitsType DEF Taken
<1> QED BY <1>1, <1>2, SumIsNat, CallsAssumption DEF TakenByAll

\* While no line is taken or returned, the sum stays.
LEMMA TakenStays ==
    ASSUME \A d \in Calls : LinesTaken(d)' = LinesTaken(d), NEW p
    PROVE  TakenByAll(p)' = TakenByAll(p)
<1>1. \A d \in Calls : Taken(d, p)' = Taken(d, p)
    BY DEF Taken, Units
<1>2. [c \in Calls |-> Taken(c, p)]' = [c \in Calls |-> Taken(c, p)]
    BY <1>1
<1> QED BY <1>2 DEF TakenByAll

\* A commit takes from the row what it adds to the taken lines, and back.
LEMMA CommitBalances ==
    ASSUME StateTypes, StateTypes', TransactionsAddUp, NEW c \in Calls, NEW p \in Products,
           RefuseOrder(c) \/ CommitReserve(c) \/ CommitRelease(c) \/ CommitHttpReserve(c)
    PROVE  row'[p].stock + TakenByAll(p)' = row[p].stock + TakenByAll(p)
<1>1. /\ Commit(c)
      /\ \A d \in Calls \ {c} : LinesTaken(d)' = LinesTaken(d)
      /\ \/ at[c] = "reserving" /\ LinesTaken(c) = 0 /\ LinesTaken(c)' = next[c] - 1
         \/ at[c] = "releasing" /\ LinesTaken(c) = next[c] - 1 /\ LinesTaken(c)' = 0
    BY CommitTakes
<1> DEFINE f == [d \in Calls |-> Taken(d, p)]
           g == [d \in Calls |-> Taken(d, p)']
           n == next[c] - 1
<1>2. TakenByAll(p) = SumFunctionOnSet(f, Calls) /\ TakenByAll(p)' = SumFunctionOnSet(g, Calls)
    BY DEF TakenByAll
<1>3. \A d \in Calls : f[d] \in Nat /\ g[d] \in Nat
    <2>1. \A d \in Calls : Taken(d, p) \in Nat
        BY TakenType
    <2>2. \A d \in Calls : LinesTaken(d)' \in Nat
        BY CatalogAssumption DEF LinesTaken, StateTypes
    <2>3. \A d \in Calls : Taken(d, p)' \in Nat
        BY <2>2, UnitsType DEF Taken, Units
    <2> QED BY <2>1, <2>3
<1>4. \A d \in Calls : d # c => f[d] = g[d]
    BY <1>1 DEF Taken, Units
<1>5. SumFunctionOnSet(g, Calls) + f[c] = SumFunctionOnSet(f, Calls) + g[c]
    <2> HIDE DEF f, g
    <2> QED BY <1>3, <1>4, SumChange, CallsAssumption
<1>6. SumFunctionOnSet(f, Calls) \in Nat /\ SumFunctionOnSet(g, Calls) \in Nat
    <2> HIDE DEF f, g
    <2> QED BY <1>3, SumIsNat, CallsAssumption
<1>7. row'[p].stock = StockSeen(c, p)
    BY <1>1 DEF Commit, StockSeen, StateTypes, Row
<1>8. n \in Nat /\ Units(c, n, p) \in Nat /\ Units(c, 0, p) = 0
    <2>1. n \in Nat
        BY DEF StateTypes
    <2>2. \A i \in 1..0 : Lines[c][i] # p
        OBVIOUS
    <2> HIDE DEF n
    <2> QED BY <2>1, <2>2, UnitsType, UnitsOfNone
<1>9. /\ at[c] = "reserving" => StockSeen(c, p) + Units(c, n, p) = row[p].stock
      /\ at[c] = "releasing" => StockSeen(c, p) = row[p].stock + Units(c, n, p)
    BY DEF TransactionsAddUp
<1>10. row[p].stock \in Nat /\ StockSeen(c, p) \in Nat
    BY DEF StockSeen, StateTypes, Row
<1>11. \/ at[c] = "reserving" /\ f[c] = 0 /\ g[c] = Units(c, n, p)
       \/ at[c] = "releasing" /\ f[c] = Units(c, n, p) /\ g[c] = 0
    BY <1>1, <1>8 DEF Taken, Units
<1> HIDE DEF f, g, n
<1>12. CASE at[c] = "reserving" /\ f[c] = 0 /\ g[c] = Units(c, n, p)
    BY <1>2, <1>5, <1>6, <1>7, <1>8, <1>9, <1>10, <1>12
<1>13. CASE at[c] = "releasing" /\ f[c] = Units(c, n, p) /\ g[c] = 0
    BY <1>2, <1>5, <1>6, <1>7, <1>8, <1>9, <1>10, <1>13
<1> QED BY <1>11, <1>12, <1>13

\* A product that was not created before is taken by nobody.
LEMMA NothingTakenBefore ==
    ASSUME StateTypes, TakenIsKnown, NEW p \in Products \ born
    PROVE  TakenByAll(p) = 0
<1>1. ASSUME NEW c \in Calls PROVE Taken(c, p) = 0
    <2>1. LinesTaken(c) \in Nat
        BY TakenType
    <2>2. \A i \in 1..LinesTaken(c) : Lines[c][i] # p
        BY DEF TakenIsKnown
    <2> QED BY <2>1, <2>2, UnitsOfNone DEF Taken
<1> QED BY <1>1, SumZero, CallsAssumption DEF TakenByAll

\* Every step keeps the units accounted for.
LEMMA UnitsStep ==
    TypeOK /\ CatalogInv /\ UnitsAccounted /\ StateTypes' /\ [Next]_vars
      => base' \in [Products -> Nat] /\ UnitsAccounted'
<1> SUFFICES ASSUME StateTypes, base \in [Products -> Nat], CatalogInv, UnitsAccounted, StateTypes', [Next]_vars
             PROVE  base' \in [Products -> Nat] /\ UnitsAccounted'
    BY DEF TypeOK
<1> LocksAreHeld /\ KnownProducts /\ TransactionsAddUp /\ TakenIsKnown
    BY DEF CatalogInv
<1> USE DEF tableVars
<1>1. CASE \E c \in Calls : RefuseOrder(c) \/ CommitReserve(c) \/ CommitRelease(c) \/ CommitHttpReserve(c)
    <2>1. PICK c \in Calls : RefuseOrder(c) \/ CommitReserve(c) \/ CommitRelease(c) \/ CommitHttpReserve(c)
        BY <1>1
    <2>2. UNCHANGED <<base, overwritten>>
        BY <2>1 DEF RefuseOrder, CommitReserve, CommitRelease, CommitHttpReserve, CommitEvicted, Commit
    <2>3. \A p \in Products : row'[p].stock + TakenByAll(p)' = row[p].stock + TakenByAll(p)
        BY <2>1, CommitBalances
    <2> QED BY <2>2, <2>3 DEF UnitsAccounted
<1>2. ASSUME \A d \in Calls : LinesTaken(d)' = LinesTaken(d), UNCHANGED <<row, base, overwritten>>
      PROVE  base' \in [Products -> Nat] /\ UnitsAccounted'
    <2>1. \A p \in Products : TakenByAll(p)' = TakenByAll(p)
        BY <1>2, TakenStays
    <2> QED BY <1>2, <2>1 DEF UnitsAccounted
<1>3. ASSUME NEW p \in Products, NEW units \in 0..MaxStock, Create(p, units),
             \A d \in Calls : LinesTaken(d)' = LinesTaken(d)
      PROVE  base' \in [Products -> Nat] /\ UnitsAccounted'
    <2>1. \A q \in Products : TakenByAll(q)' = TakenByAll(q)
        BY <1>3, TakenStays
    <2>2. TakenByAll(p) = 0
        BY <1>3, NothingTakenBefore DEF Create
    <2>3. units \in Nat
        BY CatalogAssumption
    <2>4. /\ row'[p].stock = units /\ base'[p] = units /\ UNCHANGED overwritten
          /\ \A q \in Products \ {p} : row'[q] = row[q] /\ base'[q] = base[q]
          /\ base' \in [Products -> Nat]
        BY <1>3, <2>3 DEF Create, StateTypes
    <2> QED BY <2>1, <2>2, <2>3, <2>4 DEF UnitsAccounted
<1>4. ASSUME NEW a \in Admins, SaveProduct(a), \A d \in Calls : LinesTaken(d)' = LinesTaken(d)
      PROVE  base' \in [Products -> Nat] /\ UnitsAccounted'
    <2> DEFINE p == edit[a].product
               units == edit[a].copy.stock
               writes == units # edit[a].found.stock
    <2>1. p \in Products /\ units \in Nat
        BY <1>4 DEF SaveProduct, StateTypes, NoEdit, Edits, Row
    <2>2. \A q \in Products : TakenByAll(q)' = TakenByAll(q)
        BY <1>4, TakenStays
    <2>3. TakenByAll(p) \in Nat
        BY TakenType
    <2>4. /\ row'[p].stock = IF writes THEN units ELSE row[p].stock
          /\ \A q \in Products \ {p} : row'[q] = row[q]
        BY <1>4, <2>1 DEF SaveProduct, StateTypes
    <2>5. \/ base' = [base EXCEPT ![p] = units + TakenByAll(p)] /\ overwritten' = overwritten \ {p} /\ writes
          \/ base' = base /\ overwritten' = overwritten \cup {p}
          \/ base' = base /\ overwritten' = overwritten /\ ~writes
        BY <1>4 DEF SaveProduct
    <2> HIDE DEF p, units, writes
    <2>6. base' \in [Products -> Nat]
        BY <2>1, <2>3, <2>5
    <2>7. UnitsAccounted'
        BY <2>1, <2>2, <2>3, <2>4, <2>5 DEF UnitsAccounted
    <2> QED BY <2>6, <2>7
<1>5. CASE ~\E c \in Calls : RefuseOrder(c) \/ CommitReserve(c) \/ CommitRelease(c) \/ CommitHttpReserve(c)
    <2>1. \A d \in Calls : LinesTaken(d)' = LinesTaken(d)
        BY <1>5, OthersTakeNothing
    <2>2. \/ UNCHANGED <<row, base, overwritten>>
          \/ \E p \in Products, units \in 0..MaxStock : Create(p, units)
          \/ \E a \in Admins : SaveProduct(a)
        BY <1>5 DEF Next, OrderStep, ClientStep, AdminStep, vars, FindById, CacheSet, Expire,
            BeginReserve, BeginHttpReserve, TakeLine, RefuseClient, EvictAfterCommit, BeginRelease, ReturnLine, Abort,
            ReadProduct, CompareProduct, EvictProduct, Calls
    <2> QED BY <1>2, <1>3, <1>4, <2>1, <2>2
<1> QED BY <1>1, <1>5

\* The whole inductive invariant.
THEOREM AccountingInvariant == Spec => [](TypeOK /\ CatalogInv /\ UnitsAccounted)
<1>1. Init => TypeOK /\ CatalogInv /\ UnitsAccounted
    <2> SUFFICES ASSUME Init PROVE base \in [Products -> Nat] /\ UnitsAccounted
        BY CatalogInitially DEF TypeOK
    <2>1. StateTypes /\ TakenIsKnown
        BY CatalogInitially DEF CatalogInv
    <2>2. \A p \in Products : TakenByAll(p) = 0
        BY <2>1, NothingTakenBefore DEF Init
    <2> QED BY <2>2 DEF Init, UnitsAccounted, NoRow
<1>2. TypeOK /\ CatalogInv /\ UnitsAccounted /\ [Next]_vars => (TypeOK /\ CatalogInv /\ UnitsAccounted)'
    BY TypesStep, LocksStep, StaleStep, TransactionsStep, LinesOnSaleStep, TakenStep, UnitsStep DEF CatalogInv, TypeOK
<1> QED BY <1>1, <1>2, PTL DEF Spec

\* The state stays well typed, the history of what admins entered included.
THEOREM CatalogTypes == Spec => []TypeOK
BY AccountingInvariant, PTL

\* However the transactions of reserveStock and releaseStock interleave with
\* each other and with update and remove, every unit an admin entered is on the
\* shelf or with a call that committed its lines, unless an update or a removal
\* wrote a stock nobody entered.
THEOREM UnitsTheorem == Spec => []UnitsAccounted
BY AccountingInvariant, PTL

-----------------------------------------------------------------------------
(***************************************************************************)
(* The transactions implement the atomic handlers of the stock contract.   *)
(***************************************************************************)

\* The running totals of a call's lines are what ProductAssumption of
\* ProductService requires of a demand.
LEMMA DemandOfLines ==
    ASSUME NEW c \in Calls
    PROVE  /\ \A n \in 0..Len(Lines[c]), p \in Products : Units(c, n, p) \in Nat
           /\ \A p \in Products : Units(c, 0, p) = 0
           /\ \A n \in 1..Len(Lines[c]), p \in Products : Units(c, n - 1, p) <= Units(c, n, p)
<1>1. Len(Lines[c]) \in Nat
    BY CatalogAssumption
<1>2. \A n \in 0..Len(Lines[c]), p \in Products : Units(c, n, p) \in Nat
    BY <1>1, UnitsType
<1>3. ASSUME NEW p \in Products
      PROVE  Units(c, 0, p) = 0
    <2>1. \A i \in 1..0 : Lines[c][i] # p
        OBVIOUS
    <2> QED BY <2>1, UnitsOfNone
<1>4. ASSUME NEW n \in 1..Len(Lines[c]), NEW p \in Products
      PROVE  Units(c, n - 1, p) <= Units(c, n, p)
    <2> DEFINE m == n - 1
    <2>1. m \in Nat /\ n = m + 1
        BY <1>1
    <2> HIDE DEF m
    <2>2. Units(c, m + 1, p) = Units(c, m, p) + (IF Lines[c][m + 1] = p THEN 1 ELSE 0) /\ Units(c, m, p) \in Nat
        BY <2>1, UnitsOfOneMore, UnitsType
    <2>3. Units(c, m, p) <= Units(c, m + 1, p)
        BY <2>2
    <2> QED BY <2>1, <2>3 DEF m
<1> QED BY <1>2, <1>3, <1>4

\* What the contract's terms stand for in the catalogue.
LEMMA ContractTerms ==
    ASSUME NEW c \in Calls, NEW n \in 0..Len(Lines[c])
    PROVE  /\ Stock!Covered(c, n) <=>
                \A p \in Products : Units(c, n, p) > 0 => row[p].active /\ Units(c, n, p) <= row[p].stock
           /\ Stock!Take(c, n) <=>
                row' = [p \in Products |-> [row[p] EXCEPT !.stock = row[p].stock - Units(c, n, p)]]
BY DEF Stock!Covered, Stock!Take

\* The outcome of one call changes.
LEMMA OutcomeChanges ==
    ASSUME NEW c \in Calls, \A d \in Calls \ {c} : at'[d] = at[d]
    PROVE  [d \in Calls |-> Outcome(d)]' = [[d \in Calls |-> Outcome(d)] EXCEPT ![c] = Outcome(c)']
<1>1. \A d \in Calls \ {c} : Outcome(d)' = Outcome(d)
    BY DEF Outcome
<1> QED BY <1>1

\* The rows after a commit, in terms of the lines the transaction went through.
LEMMA RowsAfterCommit ==
    ASSUME StateTypes, TransactionsAddUp, NEW c \in Calls, Commit(c)
    PROVE  /\ at[c] = "reserving" => row' = [p \in Products |->
                [row[p] EXCEPT !.stock = row[p].stock - Units(c, next[c] - 1, p)]]
           /\ at[c] = "releasing" => row' = [p \in Products |->
                [row[p] EXCEPT !.stock = row[p].stock + Units(c, next[c] - 1, p)]]
<1> DEFINE n == next[c] - 1
<1>1. n \in Nat
    BY DEF StateTypes
<1>2. row' = [p \in Products |-> IF writer[p] = c THEN [row[p] EXCEPT !.stock = dirty[p]] ELSE row[p]]
    BY DEF Commit
<1>3. ASSUME NEW p \in Products
      PROVE  row'[p] = [row[p] EXCEPT !.stock = StockSeen(c, p)]
    <2>1. row[p] \in Row
        BY DEF StateTypes
    <2>2. row[p] = [row[p] EXCEPT !.stock = row[p].stock]
        BY <2>1 DEF Row
    <2> QED BY <1>2, <2>2 DEF StockSeen
<1>4. row' = [p \in Products |-> [row[p] EXCEPT !.stock = StockSeen(c, p)]]
    BY <1>2, <1>3
<1>5. ASSUME NEW p \in Products
      PROVE  /\ at[c] = "reserving" => StockSeen(c, p) = row[p].stock - Units(c, n, p)
             /\ at[c] = "releasing" => StockSeen(c, p) = row[p].stock + Units(c, n, p)
    <2>1. /\ at[c] = "reserving" => StockSeen(c, p) + Units(c, n, p) = row[p].stock
          /\ at[c] = "releasing" => StockSeen(c, p) = row[p].stock + Units(c, n, p)
        BY DEF TransactionsAddUp
    <2>2. row[p].stock \in Nat /\ StockSeen(c, p) \in Nat
        BY DEF StockSeen, StateTypes, Row
    <2>3. Units(c, n, p) \in Nat
        BY <1>1, UnitsType
    <2> QED BY <2>1, <2>2, <2>3
<1> QED BY <1>4, <1>5

\* A reservation in progress could be served up to the line it is at.
LEMMA ProgressIsCovered ==
    ASSUME StateTypes, TransactionsAddUp, LinesStayOnSale, NEW c \in Calls, at[c] = "reserving"
    PROVE  next[c] - 1 \in 0..Len(Lines[c]) /\ Stock!Covered(c, next[c] - 1)
<1> DEFINE n == next[c] - 1
<1>1. n \in 0..Len(Lines[c])
    BY CatalogAssumption DEF StateTypes, TransactionsAddUp
<1>2. ASSUME NEW p \in Products, Units(c, n, p) > 0
      PROVE  row[p].active /\ Units(c, n, p) <= row[p].stock
    <2>1. \E i \in 1..n : Lines[c][i] = p
        BY <1>1, <1>2, UnitsOfNone
    <2>2. row[p].active
        BY <2>1 DEF LinesStayOnSale
    <2>3. StockSeen(c, p) + Units(c, n, p) = row[p].stock
        BY DEF TransactionsAddUp
    <2>4. row[p].stock \in Nat /\ StockSeen(c, p) \in Nat
        BY DEF StockSeen, StateTypes, Row
    <2>5. Units(c, n, p) \in Nat
        BY <1>1, UnitsType
    <2> QED BY <2>2, <2>3, <2>4, <2>5
<1> QED BY <1>1, <1>2, ContractTerms

\* A line that must be refused could not be served by the contract either.
LEMMA RefusalIsJustified ==
    ASSUME StateTypes, TransactionsAddUp, NEW c \in Calls, MustRefuse(c)
    PROVE  next[c] \in 0..Len(Lines[c]) /\ ~Stock!Covered(c, next[c])
<1> DEFINE n == next[c] - 1
           p == Line(c)
<1>1. n \in Nat /\ next[c] = n + 1 /\ next[c] \in 0..Len(Lines[c]) /\ at[c] = "reserving"
    BY CatalogAssumption DEF StateTypes, MustRefuse, LineLeft
<1>2. p \in Products /\ ~(row[p].active /\ StockSeen(c, p) >= 1)
    BY LineIsOrdered DEF MustRefuse, Available
<1>3. StockSeen(c, p) + Units(c, n, p) = row[p].stock
    BY <1>1, <1>2 DEF TransactionsAddUp
<1>4. Units(c, n + 1, p) = Units(c, n, p) + (IF Lines[c][n + 1] = p THEN 1 ELSE 0) /\ Lines[c][n + 1] = p
    BY <1>1, UnitsOfOneMore DEF Line
<1>5. row[p].stock \in Nat /\ StockSeen(c, p) \in Nat
    BY <1>2 DEF StockSeen, StateTypes, Row
<1>6. Units(c, n, p) \in Nat
    BY <1>1, UnitsType
<1> HIDE DEF n, p
<1>7. Units(c, next[c], p) > 0 /\ ~(row[p].active /\ Units(c, next[c], p) <= row[p].stock)
    BY <1>1, <1>2, <1>3, <1>4, <1>5, <1>6
<1> QED BY <1>1, <1>2, <1>7, ContractTerms

\* The commit of a reservation is the contract's reservation.
LEMMA CommitReserves ==
    ASSUME StateTypes, TransactionsAddUp, LinesStayOnSale, NEW c \in Calls, CommitReserve(c) \/ CommitHttpReserve(c)
    PROVE  Stock!Reserve(c)
<1>1. /\ at[c] = "reserving" /\ ~LineLeft(c) /\ Commit(c) /\ at'[c] \in {"reserved", "evicting"}
      /\ UNCHANGED <<born, edit>> /\ \A d \in Calls \ {c} : at'[d] = at[d]
    BY DEF CommitReserve, CommitHttpReserve, CommitEvicted, Commit, GoTo, StateTypes
<1>2. next[c] - 1 \in 0..Len(Lines[c]) /\ Stock!Covered(c, next[c] - 1)
    BY <1>1, ProgressIsCovered
<1>3. next[c] - 1 = Len(Lines[c])
    BY <1>1, <1>2, CatalogAssumption DEF LineLeft, StateTypes
<1>4. Stock!Take(c, Len(Lines[c]))
    BY <1>1, <1>2, <1>3, RowsAfterCommit, ContractTerms
<1>5. Outcome(c) = "open" /\ Outcome(c)' = "reserved"
    BY <1>1 DEF Outcome
<1>6. [d \in Calls |-> Outcome(d)]' = [[d \in Calls |-> Outcome(d)] EXCEPT ![c] = "reserved"]
    BY <1>1, <1>5, OutcomeChanges
<1> QED BY <1>1, <1>2, <1>3, <1>4, <1>5, <1>6 DEF Stock!Reserve

\* The commit after a refused line is the contract's refusal.
LEMMA CommitRefuses ==
    ASSUME StateTypes, TransactionsAddUp, LinesStayOnSale, NEW c \in Calls, RefuseOrder(c)
    PROVE  Stock!Refuse(c)
<1>1. /\ at[c] = "reserving" /\ MustRefuse(c) /\ Commit(c) /\ at'[c] = "refused"
      /\ UNCHANGED <<born, edit>> /\ \A d \in Calls \ {c} : at'[d] = at[d]
    BY DEF RefuseOrder, MustRefuse, CommitEvicted, Commit, GoTo, StateTypes
<1> DEFINE n == next[c] - 1
<1>2. n \in 0..Len(Lines[c]) /\ Stock!Covered(c, n)
    BY <1>1, ProgressIsCovered
<1>3. n + 1 = next[c] /\ next[c] \in 0..Len(Lines[c]) /\ ~Stock!Covered(c, n + 1)
    BY <1>1, RefusalIsJustified DEF StateTypes
<1>4. Stock!Take(c, n)
    BY <1>1, <1>2, RowsAfterCommit, ContractTerms
<1>5. Outcome(c) = "open" /\ Outcome(c)' = "refused"
    BY <1>1 DEF Outcome
<1>6. [d \in Calls |-> Outcome(d)]' = [[d \in Calls |-> Outcome(d)] EXCEPT ![c] = "refused"]
    BY <1>1, <1>5, OutcomeChanges
<1>7. n \in 0..(Len(Lines[c]) - 1)
    BY <1>2, <1>3, CatalogAssumption
<1> QED BY <1>1, <1>2, <1>3, <1>4, <1>5, <1>6, <1>7 DEF Stock!Refuse

\* The commit of a compensation is the contract's release.
LEMMA CommitReleases ==
    ASSUME StateTypes, TransactionsAddUp, NEW c \in Calls, CommitRelease(c)
    PROVE  Stock!Release(c)
<1>1. /\ at[c] = "releasing" /\ ~LineLeft(c) /\ Commit(c) /\ at'[c] = "released"
      /\ UNCHANGED <<born, edit>> /\ \A d \in Calls \ {c} : at'[d] = at[d]
    BY DEF CommitRelease, CommitEvicted, Commit, GoTo, StateTypes
<1>2. next[c] - 1 = Len(Lines[c])
    BY <1>1, CatalogAssumption DEF LineLeft, StateTypes, TransactionsAddUp
<1>3. row' = [p \in Products |-> [row[p] EXCEPT !.stock = row[p].stock + Units(c, Len(Lines[c]), p)]]
    BY <1>1, <1>2, RowsAfterCommit
<1>4. Outcome(c) = "reserved" /\ Outcome(c)' = "released"
    BY <1>1 DEF Outcome
<1>5. [d \in Calls |-> Outcome(d)]' = [[d \in Calls |-> Outcome(d)] EXCEPT ![c] = "released"]
    BY <1>1, <1>4, OutcomeChanges
<1>6. Len(Lines[c]) \in 0..Len(Lines[c])
    BY CatalogAssumption
<1> QED BY <1>1, <1>3, <1>4, <1>5, <1>6 DEF Stock!Release

\* A client whose transaction is rolled back has taken nothing.
LEMMA RollbackFails ==
    ASSUME StateTypes, NEW c \in Calls, RefuseClient(c) \/ (Abort(c) /\ at'[c] = "failed")
    PROVE  Stock!Fail(c)
<1>1. /\ at[c] = "reserving" /\ at'[c] = "failed" /\ UNCHANGED <<row, born, edit>>
      /\ \A d \in Calls \ {c} : at'[d] = at[d]
    BY DEF RefuseClient, MustRefuse, Abort, GoTo, StateTypes, tableVars
<1>2. Outcome(c) = "open" /\ Outcome(c)' = "failed"
    BY <1>1 DEF Outcome
<1>3. [d \in Calls |-> Outcome(d)]' = [[d \in Calls |-> Outcome(d)] EXCEPT ![c] = "failed"]
    BY <1>1, <1>2, OutcomeChanges
<1> QED BY <1>1, <1>2, <1>3 DEF Stock!Fail

\* Every other step of a call is invisible to the contract.
LEMMA OthersAreInvisible ==
    ASSUME StateTypes, NEW c \in Calls,
           \/ BeginReserve(c) \/ BeginHttpReserve(c) \/ TakeLine(c) \/ EvictAfterCommit(c)
           \/ BeginRelease(c) \/ ReturnLine(c) \/ (Abort(c) /\ at'[c] # "failed")
    PROVE  UNCHANGED Stock!stockVars
<1>1. UNCHANGED <<row, born, edit>> /\ \A d \in Calls \ {c} : at'[d] = at[d]
    BY DEF BeginReserve, BeginHttpReserve, TakeLine, EvictAfterCommit, BeginRelease, ReturnLine,
        Abort, GoTo, StateTypes, tableVars
<1>2. \/ at[c] \in {"idle", "reserving"} /\ at'[c] \in {"idle", "reserving"}
      \/ at[c] \in {"reserved", "releasing", "evicting"} /\ at'[c] \in {"reserved", "releasing", "sold"}
    BY DEF BeginReserve, BeginHttpReserve, TakeLine, EvictAfterCommit, BeginRelease, ReturnLine, Abort, GoTo,
        StateTypes
<1>3. \A d \in Calls : Outcome(d)' = Outcome(d)
    BY <1>1, <1>2 DEF Outcome
<1> QED BY <1>1, <1>3 DEF Stock!stockVars

\* An admin's step changes at most one row.
LEMMA AdminsAdminister ==
    ASSUME StateTypes, StateTypes',
           \/ \E p \in Products, units \in 0..MaxStock : Create(p, units)
           \/ \E a \in Admins : AdminStep(a)
    PROVE  [Stock!Administer]_(Stock!stockVars)
<1>1. UNCHANGED at
    BY DEF Create, AdminStep, ReadProduct, CompareProduct, SaveProduct, EvictProduct
<1>2. [d \in Calls |-> Outcome(d)]' = [d \in Calls |-> Outcome(d)]
    BY <1>1 DEF Outcome
<1>3. ASSUME UNCHANGED row
      PROVE  [Stock!Administer]_(Stock!stockVars)
    BY <1>2, <1>3 DEF Stock!Administer, Stock!stockVars
<1>4. ASSUME NEW p \in Products, \A q \in Products \ {p} : row'[q] = row[q], <<born, edit>>' # <<born, edit>>
      PROVE  Stock!Administer
    <2>1. row' \in [Products -> [stock : Nat, active : BOOLEAN]]
        BY DEF StateTypes, Row
    <2> QED BY <1>2, <1>4, <2>1 DEF Stock!Administer
<1>5. ASSUME NEW p \in Products, NEW units \in 0..MaxStock, Create(p, units)
      PROVE  Stock!Administer
    <2>1. \A q \in Products \ {p} : row'[q] = row[q]
        BY <1>5 DEF Create, StateTypes
    <2>2. born' # born
        BY <1>5 DEF Create
    <2> QED BY <1>4, <2>1, <2>2
<1>6. ASSUME NEW a \in Admins, SaveProduct(a)
      PROVE  Stock!Administer
    <2>1. edit[a] \in Edits /\ edit[a].product \in Products /\ edit[a].at = "write"
        BY <1>6 DEF SaveProduct, StateTypes, NoEdit, Edits
    <2>2. \A q \in Products \ {edit[a].product} : row'[q] = row[q]
        BY <1>6, <2>1 DEF SaveProduct, StateTypes
    <2>3. edit'[a].at = "evict"
        BY <1>6, <2>1 DEF SaveProduct, StateTypes, Edits
    <2> QED BY <1>4, <2>1, <2>2, <2>3
<1>7. ASSUME NEW a \in Admins, AdminStep(a), ~SaveProduct(a)
      PROVE  UNCHANGED row
    BY <1>7 DEF AdminStep, ReadProduct, CompareProduct, EvictProduct, tableVars
<1> QED BY <1>3, <1>5, <1>6, <1>7

\* reserveStock and releaseStock lock and write their rows one by one, while
\* other transactions and admins are at work: seen from the committed table
\* each of them happens at one moment, in full, or for an order with a refused
\* line up to that line, and only admins change the stock otherwise.
THEOREM CatalogImplementsStock == Spec => ReservesAtomically
<1>1. Init => Stock!Init
    BY DEF Init, Stock!Init, Outcome, NoRow, Calls
<1>2. StateTypes /\ CatalogInv /\ StateTypes' /\ [Next]_vars => [Stock!Next]_(Stock!stockVars)
    <2> SUFFICES ASSUME StateTypes, CatalogInv, StateTypes', [Next]_vars
                 PROVE  [Stock!Next]_(Stock!stockVars)
        OBVIOUS
    <2> TransactionsAddUp /\ LinesStayOnSale
        BY DEF CatalogInv
    <2> Orders \subseteq Calls /\ Clients \subseteq Calls
        BY DEF Calls
    <2>1. ASSUME NEW o \in Orders, RefuseOrder(o) \/ CommitReserve(o) \/ CommitRelease(o)
          PROVE  Stock!Next
        BY <2>1, CommitReserves, CommitRefuses, CommitReleases DEF Stock!Next
    <2>2. ASSUME NEW c \in Clients, CommitHttpReserve(c) \/ RefuseClient(c)
          PROVE  Stock!Next
        BY <2>2, CommitReserves, RollbackFails DEF Stock!Next
    <2>3. ASSUME NEW c \in Clients, Abort(c)
          PROVE  [Stock!Next]_(Stock!stockVars)
        BY <2>3, RollbackFails, OthersAreInvisible DEF Stock!Next
    <2>4. ASSUME NEW o \in Orders, Abort(o)
          PROVE  UNCHANGED Stock!stockVars
        <3>1. at'[o] # "failed"
            BY <2>4 DEF Abort, GoTo, StateTypes
        <3> QED BY <2>4, <3>1, OthersAreInvisible
    <2>5. ASSUME NEW c \in Calls,
                 \/ BeginReserve(c) \/ BeginHttpReserve(c) \/ TakeLine(c) \/ EvictAfterCommit(c)
                 \/ BeginRelease(c) \/ ReturnLine(c)
          PROVE  UNCHANGED Stock!stockVars
        BY <2>5, OthersAreInvisible
    <2>6. ASSUME \/ \E p \in Products, units \in 0..MaxStock : Create(p, units)
                 \/ \E a \in Admins : AdminStep(a)
          PROVE  [Stock!Next]_(Stock!stockVars)
        BY <2>6, AdminsAdminister DEF Stock!Next
    <2>7. ASSUME UNCHANGED <<row, born, at, edit>>
          PROVE  UNCHANGED Stock!stockVars
        BY <2>7 DEF Stock!stockVars, Outcome
    <2>8. ASSUME NEW p \in Products, FindById(p) \/ CacheSet(p) \/ Expire(p)
          PROVE  UNCHANGED Stock!stockVars
        BY <2>7, <2>8 DEF FindById, CacheSet, Expire, tableVars
    <2>9. CASE UNCHANGED vars
        BY <2>7, <2>9 DEF vars, tableVars
    <2>10. CASE Next
        BY <2>1, <2>2, <2>3, <2>4, <2>5, <2>6, <2>8, <2>10 DEF Next, OrderStep, ClientStep
    <2> QED BY <2>9, <2>10
<1> QED BY <1>1, <1>2, CatalogInvariant, PTL DEF Spec, ReservesAtomically, Stock!Spec

=============================================================================
