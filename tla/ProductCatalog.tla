--------------------------- MODULE ProductCatalog ---------------------------
(***************************************************************************)
(* ProductsService of product-service, statement by statement: the         *)
(* reservations of the saga and of POST /products/reserve, the saga's      *)
(* compensation, the admin operations, and the Redis cache that findById   *)
(* reads and fills.                                                        *)
(*                                                                         *)
(* ProductService takes a handler for one step, which is right for the     *)
(* stock the saga sees.  Here several calls are in progress at once:       *)
(*  - a transaction locks each row it reads FOR UPDATE or changes, and     *)
(*    holds the lock until it ends; others see the committed row;          *)
(*  - update and remove read a row without a lock, and save() writes the   *)
(*    columns in which their copy differs from the row it finds then;      *)
(*  - the cache is filled with what a reader found in the table earlier.   *)
(*                                                                         *)
(* Of a product the stock and the isActive flag are kept; name, price and  *)
(* description stand behind the change "details".  A line of a request is  *)
(* one unit; a larger quantity is a repeated line.                         *)
(***************************************************************************)
EXTENDS Naturals, Sequences, FiniteSetsExt

CONSTANTS Products,    \* product ids
          Orders,      \* saga orders
          Clients,     \* callers of POST /products/reserve
          Admins,      \* callers of PATCH and DELETE /products/:id
          Lines,       \* Lines[c]: the products of order or client c
          MaxStock,    \* bound: the largest stock an admin enters
          RedisFails,  \* Redis operations may fail
          NoCall       \* no transaction

Calls == Orders \cup Clients

ASSUME CatalogAssumption ==
    /\ Orders \cap Clients = {}
    /\ NoCall \notin Calls
    /\ Lines \in [Calls -> Seq(Products)]
    /\ MaxStock \in Nat
    /\ RedisFails \in BOOLEAN

\* Finitely many requests are made before any given moment.
ASSUME CallsAssumption == IsFiniteSet(Calls)

VARIABLES row,     \* row[p]: the committed row
          born,    \* products that were created
          writer,  \* writer[p]: the transaction that holds the row's lock
          dirty,   \* dirty[p]: the stock that transaction has written
          at,      \* at[c]: where call c is
          next,    \* next[c]: the line call c is at
          edit,    \* edit[a]: the request admin a is waiting for
          cache,   \* cache[p]: the Redis entry
          fetch    \* fetch[p]: what the reader in flight found

\* History.
VARIABLES base,         \* base[p]: the units an admin has put on the shelf
          overwritten,  \* products whose stock an update wrote that was not asked to
          tainted       \* entries whose staleness no pending eviction will end

tableVars == <<row, born, base, overwritten>>
lockVars == <<writer, dirty>>
cacheVars == <<cache, tainted>>
vars == <<tableVars, lockVars, at, next, edit, cacheVars, fetch>>

Row == [stock : Nat, active : BOOLEAN]

\* No row: nothing cached, nothing fetched, not created.
NoRow == [stock |-> 0, active |-> FALSE]

NoEdit == [at |-> "none"]

Edits == [at : {"read", "write", "evict"}, product : Products,
          change : {"details", "stock", "remove"}, copy : Row, found : Row]

Places == {"idle", "reserving", "reserved", "refused", "releasing", "released",  \* orders
           "evicting", "sold", "failed"}                                        \* clients

StateTypes ==
    /\ row \in [Products -> Row]
    /\ born \in SUBSET Products
    /\ writer \in [Products -> Calls \cup {NoCall}]
    /\ dirty \in [Products -> Nat]
    /\ at \in [Calls -> Places]
    /\ next \in [Calls -> Nat \ {0}]
    /\ edit \in [Admins -> {NoEdit} \cup Edits]
    /\ cache \in [Products -> Row]
    /\ fetch \in [Products -> Row]
    /\ overwritten \in SUBSET Products
    /\ tainted \in SUBSET Products

TypeOK == StateTypes /\ base \in [Products -> Nat]

Init ==
    /\ row = [p \in Products |-> NoRow]
    /\ born = {}
    /\ writer = [p \in Products |-> NoCall]
    /\ dirty = [p \in Products |-> 0]
    /\ at = [c \in Calls |-> "idle"]
    /\ next = [c \in Calls |-> 1]
    /\ edit = [a \in Admins |-> NoEdit]
    /\ cache = [p \in Products |-> NoRow]
    /\ fetch = [p \in Products |-> NoRow]
    /\ base = [p \in Products |-> 0]
    /\ overwritten = {}
    /\ tainted = {}

-----------------------------------------------------------------------------
(***************************************************************************)
(* Cache                                                                   *)
(***************************************************************************)

Stale(p) == cache[p] # NoRow /\ cache[p] # row[p]

ProductsOf(c) == {Lines[c][i] : i \in DOMAIN Lines[c]}

\* cacheDel: the keys that cannot be deleted stay.
CacheDel(S) ==
    \E failed \in IF RedisFails THEN SUBSET S ELSE {{}} :
        /\ cache' = [p \in Products |-> IF p \in S \ failed THEN NoRow ELSE cache[p]]
        /\ tainted' = (tainted \ S) \cup failed

\* findById has missed the cache, maybe before the entry that is there now was
\* stored, or cannot reach it, and reads the row; dedup lets one such reader
\* through for each product.
FindById(p) ==
    /\ fetch[p] = NoRow
    /\ row[p].active
    /\ fetch' = [fetch EXCEPT ![p] = row[p]]
    /\ UNCHANGED <<tableVars, lockVars, at, next, edit, cacheVars>>

CacheSet(p) ==
    /\ fetch[p] # NoRow
    /\ fetch' = [fetch EXCEPT ![p] = NoRow]
    /\ \/ /\ cache' = [cache EXCEPT ![p] = fetch[p]]
          /\ tainted' = IF fetch[p] = row[p] THEN tainted \ {p} ELSE tainted \cup {p}
       \/ /\ RedisFails
          /\ UNCHANGED cacheVars
    /\ UNCHANGED <<tableVars, lockVars, at, next, edit>>

\* CACHE_TTL_ONE has passed.
Expire(p) ==
    /\ cache[p] # NoRow
    /\ cache' = [cache EXCEPT ![p] = NoRow]
    /\ tainted' = tainted \ {p}
    /\ UNCHANGED <<tableVars, lockVars, at, next, edit, fetch>>

-----------------------------------------------------------------------------
(***************************************************************************)
(* Reservations and their compensation                                     *)
(***************************************************************************)

GoTo(c, place) == at' = [at EXCEPT ![c] = place]

\* The stock transaction c sees.
StockSeen(c, p) == IF writer[p] = c THEN dirty[p] ELSE row[p].stock

MayLock(c, p) == writer[p] \in {NoCall, c}

Lock(c, p, units) ==
    /\ writer' = [writer EXCEPT ![p] = c]
    /\ dirty' = [dirty EXCEPT ![p] = units]

Unlock(c) ==
    /\ writer' = [p \in Products |-> IF writer[p] = c THEN NoCall ELSE writer[p]]
    /\ dirty' = [p \in Products |-> IF writer[p] = c THEN 0 ELSE dirty[p]]

\* The transaction's stock becomes the row's.
Commit(c) ==
    /\ row' = [p \in Products |-> IF writer[p] = c THEN [row[p] EXCEPT !.stock = dirty[p]] ELSE row[p]]
    /\ Unlock(c)
    /\ UNCHANGED <<born, base, overwritten>>

\* A saga's commit is followed by no eviction: what is cached by then stays.
CommitEvicted(c) ==
    /\ Commit(c)
    /\ tainted' = tainted \cup {p \in Products : writer[p] = c /\ cache[p] # NoRow}
    /\ UNCHANGED cache

\* reserveStock in the saga's transaction evicts first.
BeginReserve(o) ==
    /\ at[o] = "idle"
    /\ CacheDel(ProductsOf(o))
    /\ GoTo(o, "reserving")
    /\ next' = [next EXCEPT ![o] = 1]
    /\ UNCHANGED <<tableVars, lockVars, edit, fetch>>

\* reserveStock from the HTTP endpoint opens a transaction of its own.
BeginHttpReserve(c) ==
    /\ at[c] = "idle"
    /\ GoTo(c, "reserving")
    /\ next' = [next EXCEPT ![c] = 1]
    /\ UNCHANGED <<tableVars, lockVars, edit, cacheVars, fetch>>

LineLeft(c) == next[c] <= Len(Lines[c])

Line(c) == Lines[c][next[c]]

\* Slip: the stock is not compared with the quantity.
AvailableUnchecked(c, p) == row[p].active

Available(c, p) == row[p].active /\ StockSeen(c, p) >= 1

\* Slip: the row is read without a lock and the stock is written from what
\* was committed by then.
TakeLineUnlocked(c) ==
    /\ at[c] = "reserving"
    /\ LineLeft(c)
    /\ Available(c, Line(c))
    /\ Lock(c, Line(c), StockSeen(c, Line(c)) - 1)
    /\ next' = [next EXCEPT ![c] = @ + 1]
    /\ UNCHANGED <<tableVars, at, edit, cacheVars, fetch>>

\* One turn of the loop of reserveStock.
TakeLine(c) ==
    /\ at[c] = "reserving"
    /\ LineLeft(c)
    /\ MayLock(c, Line(c))
    /\ Available(c, Line(c))
    /\ Lock(c, Line(c), StockSeen(c, Line(c)) - 1)
    /\ next' = [next EXCEPT ![c] = @ + 1]
    /\ UNCHANGED <<tableVars, at, edit, cacheVars, fetch>>

\* The product is unknown or removed, and its row is not waited for, or it is
\* sold out.
MustRefuse(c) ==
    /\ at[c] = "reserving"
    /\ LineLeft(c)
    /\ row[Line(c)].active => MayLock(c, Line(c))
    /\ ~Available(c, Line(c))

\* handleReserveStock catches the error inside the transaction and commits.
RefuseOrder(o) ==
    /\ MustRefuse(o)
    /\ CommitEvicted(o)
    /\ GoTo(o, "refused")
    /\ UNCHANGED <<next, edit, fetch>>

\* Slip: the endpoint catches the error inside its transaction, as the saga's
\* handler does.
RefuseClientKeepingLines(c) ==
    /\ MustRefuse(c)
    /\ Commit(c)
    /\ GoTo(c, "failed")
    /\ UNCHANGED <<next, edit, cacheVars, fetch>>

\* Slip: the endpoint answers the error and leaves its transaction open.
RefuseClientOpen(c) ==
    /\ MustRefuse(c)
    /\ GoTo(c, "failed")
    /\ UNCHANGED <<tableVars, lockVars, next, edit, cacheVars, fetch>>

\* The endpoint's transaction rolls back.
RefuseClient(c) ==
    /\ MustRefuse(c)
    /\ Unlock(c)
    /\ GoTo(c, "failed")
    /\ UNCHANGED <<tableVars, next, edit, cacheVars, fetch>>

CommitReserve(o) ==
    /\ at[o] = "reserving"
    /\ ~LineLeft(o)
    /\ CommitEvicted(o)
    /\ GoTo(o, "reserved")
    /\ UNCHANGED <<next, edit, fetch>>

CommitHttpReserve(c) ==
    /\ at[c] = "reserving"
    /\ ~LineLeft(c)
    /\ Commit(c)
    /\ GoTo(c, "evicting")
    /\ UNCHANGED <<next, edit, cacheVars, fetch>>

\* Slip: the endpoint's path does not evict.
SkipEviction(c) ==
    /\ at[c] = "evicting"
    /\ GoTo(c, "sold")
    /\ UNCHANGED <<tableVars, lockVars, next, edit, cacheVars, fetch>>

\* The endpoint evicts after the commit.
EvictAfterCommit(c) ==
    /\ at[c] = "evicting"
    /\ CacheDel(ProductsOf(c))
    /\ GoTo(c, "sold")
    /\ UNCHANGED <<tableVars, lockVars, next, edit, fetch>>

\* releaseStock evicts first.
BeginRelease(o) ==
    /\ at[o] = "reserved"
    /\ CacheDel(ProductsOf(o))
    /\ GoTo(o, "releasing")
    /\ next' = [next EXCEPT ![o] = 1]
    /\ UNCHANGED <<tableVars, lockVars, edit, fetch>>

\* repo.increment, for removed products too.
ReturnLine(o) ==
    /\ at[o] = "releasing"
    /\ LineLeft(o)
    /\ MayLock(o, Line(o))
    /\ Lock(o, Line(o), StockSeen(o, Line(o)) + 1)
    /\ next' = [next EXCEPT ![o] = @ + 1]
    /\ UNCHANGED <<tableVars, at, edit, cacheVars, fetch>>

CommitRelease(o) ==
    /\ at[o] = "releasing"
    /\ ~LineLeft(o)
    /\ CommitEvicted(o)
    /\ GoTo(o, "released")
    /\ UNCHANGED <<next, edit, fetch>>

\* The transaction fails: a crash, a lost connection, or the victim of a
\* deadlock of row locks, which are taken in the order of the lines.  A
\* command is delivered again.
Abort(c) ==
    /\ \/ /\ at[c] = "reserving"
          /\ GoTo(c, IF c \in Orders THEN "idle" ELSE "failed")
       \/ /\ at[c] = "releasing"
          /\ GoTo(c, "reserved")
    /\ Unlock(c)
    /\ UNCHANGED <<tableVars, next, edit, cacheVars, fetch>>

-----------------------------------------------------------------------------
(***************************************************************************)
(* Admin operations                                                        *)
(***************************************************************************)

\* Units of p in the first n lines of call c.
Units(c, n, p) == Cardinality({i \in 1..n : Lines[c][i] = p})

\* How many of its lines the committed transactions of call c have taken.
LinesTaken(c) ==
    IF at[c] \in {"reserved", "releasing", "evicting", "sold"} THEN Len(Lines[c])
    ELSE IF at[c] = "refused" THEN next[c] - 1
    ELSE 0

Taken(c, p) == Units(c, LinesTaken(c), p)

TakenByAll(p) == SumFunctionOnSet([c \in Calls |-> Taken(c, p)], Calls)

\* create: a new id, which nobody has asked for before.
Create(p, units) ==
    /\ p \notin born
    /\ born' = born \cup {p}
    /\ row' = [row EXCEPT ![p] = [stock |-> units, active |-> TRUE]]
    /\ base' = [base EXCEPT ![p] = units]
    /\ UNCHANGED <<overwritten, lockVars, at, next, edit, cacheVars, fetch>>

Changed(r, change, units) ==
    [stock |-> IF change = "stock" THEN units ELSE r.stock, active |-> r.active /\ change # "remove"]

\* update and remove read the row, without a lock, and change their copy.
ReadProduct(a, p, change, units) ==
    /\ edit[a] = NoEdit
    /\ row[p].active
    /\ edit' = [edit EXCEPT ![a] = [at |-> "read", product |-> p, change |-> change,
                                    copy |-> Changed(row[p], change, units), found |-> NoRow]]
    /\ UNCHANGED <<tableVars, lockVars, at, next, cacheVars, fetch>>

\* save() reads the row again, to find the columns to write.
CompareProduct(a) ==
    /\ edit[a].at = "read"
    /\ edit' = [edit EXCEPT ![a] = [edit[a] EXCEPT !.at = "write", !.found = row[edit[a].product]]]
    /\ UNCHANGED <<tableVars, lockVars, at, next, cacheVars, fetch>>

\* save() writes the columns in which its copy differs, once the row is free.
SaveProduct(a) ==
    LET p == edit[a].product
        copy == edit[a].copy
        writesStock == copy.stock # edit[a].found.stock
    IN  /\ edit[a].at = "write"
        /\ writer[p] = NoCall
        /\ row' = [row EXCEPT ![p] =
                      [stock |-> IF writesStock THEN copy.stock ELSE row[p].stock,
                       active |-> IF copy.active # edit[a].found.active THEN copy.active ELSE row[p].active]]
        /\ \/ /\ edit[a].change = "stock"
              /\ base' = IF writesStock THEN [base EXCEPT ![p] = copy.stock + TakenByAll(p)] ELSE base
              /\ overwritten' = IF writesStock THEN overwritten \ {p} ELSE overwritten
           \/ /\ edit[a].change # "stock"
              /\ overwritten' = IF writesStock THEN overwritten \cup {p} ELSE overwritten
              /\ UNCHANGED base
        /\ edit' = [edit EXCEPT ![a] = [edit[a] EXCEPT !.at = "evict"]]
        /\ UNCHANGED <<born, lockVars, at, next, cacheVars, fetch>>

EvictProduct(a) ==
    /\ edit[a].at = "evict"
    /\ CacheDel({edit[a].product})
    /\ edit' = [edit EXCEPT ![a] = NoEdit]
    /\ UNCHANGED <<tableVars, lockVars, at, next, fetch>>

-----------------------------------------------------------------------------

OrderStep(o) ==
    \/ BeginReserve(o) \/ TakeLine(o) \/ RefuseOrder(o) \/ CommitReserve(o)
    \/ BeginRelease(o) \/ ReturnLine(o) \/ CommitRelease(o) \/ Abort(o)

ClientStep(c) ==
    \/ BeginHttpReserve(c) \/ TakeLine(c) \/ RefuseClient(c) \/ CommitHttpReserve(c)
    \/ EvictAfterCommit(c) \/ Abort(c)

AdminStep(a) ==
    \/ \E p \in Products, change \in {"details", "stock", "remove"}, units \in 0..MaxStock :
          ReadProduct(a, p, change, units)
    \/ CompareProduct(a) \/ SaveProduct(a) \/ EvictProduct(a)

Next ==
    \/ \E p \in Products : FindById(p) \/ CacheSet(p) \/ Expire(p)
    \/ \E p \in Products, units \in 0..MaxStock : Create(p, units)
    \/ \E o \in Orders : OrderStep(o)
    \/ \E c \in Clients : ClientStep(c)
    \/ \E a \in Admins : AdminStep(a)

Spec == Init /\ [][Next]_vars

InTransaction(c) == at[c] \in {"reserving", "releasing"}

\* The steps within a transaction, other than its failure.
OrderProceeds(o) ==
    TakeLine(o) \/ RefuseOrder(o) \/ CommitReserve(o) \/ ReturnLine(o) \/ CommitRelease(o)

ClientProceeds(c) == TakeLine(c) \/ RefuseClient(c) \/ CommitHttpReserve(c)

\* A transaction goes on, and gets a row that becomes free again and again: for
\* each row PostgreSQL keeps a queue.  No transaction need ever fail, and nothing
\* is asked of admins, readers, Redis or new calls.
LiveSpec ==
    /\ Spec
    /\ \A o \in Orders : SF_vars(OrderProceeds(o))
    /\ \A c \in Clients : SF_vars(ClientProceeds(c))

-----------------------------------------------------------------------------
(***************************************************************************)
(* Properties                                                              *)
(***************************************************************************)

\* Every unit an admin put on the shelf is there or with a call that committed
\* its lines, however the transactions of reserveStock and releaseStock
\* interleave, unless update or remove wrote a stock nobody entered.
UnitsAccounted ==
    \A p \in Products \ overwritten : row[p].stock + TakenByAll(p) = base[p]

\* A cached product that differs from its row is about to be evicted by the
\* call that changed the row, unless a reader was overtaken, Redis failed, or a
\* saga committed after its eviction (findById, update, remove, reserveStock).
StaleIsExplained ==
    \A p \in Products : Stale(p) =>
        \/ p \in tainted
        \/ \E c \in Clients : at[c] = "evicting" /\ p \in ProductsOf(c)
        \/ \E a \in Admins : edit[a].at = "evict" /\ edit[a].product = p

\* Row locks belong to transactions in progress, for products they name.
LocksAreHeld ==
    \A p \in Products : writer[p] # NoCall =>
        at[writer[p]] \in {"reserving", "releasing"} /\ p \in ProductsOf(writer[p])

\* Only a created product is shown, fetched, cached and locked, edited, or sold.
KnownRows ==
    \A p \in Products \ born :
        row[p] = NoRow /\ cache[p] = NoRow /\ fetch[p] = NoRow /\ writer[p] = NoCall
KnownEdits == \A a \in Admins : edit[a] # NoEdit => edit[a].product \in born
KnownLines ==
    \A c \in Calls :
        /\ at[c] \in {"reserved", "releasing"} => ProductsOf(c) \subseteq born
        /\ at[c] = "reserving" => \A i \in 1 .. next[c] - 1 : Lines[c][i] \in born
KnownProducts == KnownRows /\ KnownEdits /\ KnownLines

\* A transaction in progress sees the committed stock less, or plus, the lines
\* it has been through: nobody has changed the rows under it.
TransactionsAddUp ==
    \A c \in Calls :
        /\ at[c] \in {"reserving", "releasing"} => next[c] <= Len(Lines[c]) + 1
        /\ \A p \in Products :
              /\ at[c] = "reserving" => StockSeen(c, p) + Units(c, next[c] - 1, p) = row[p].stock
              /\ at[c] = "releasing" => StockSeen(c, p) = row[p].stock + Units(c, next[c] - 1, p)

\* No product is removed while a transaction holds units of it.
LinesStayOnSale ==
    \A c \in Calls : at[c] = "reserving" => \A i \in 1 .. next[c] - 1 : row[Lines[c][i]].active

TakenIsKnown == \A c \in Calls : \A i \in 1..LinesTaken(c) : Lines[c][i] \in born

\* The inductive invariant: locks, known products, explained cache entries, and
\* the arithmetic of the transactions in progress.
CatalogInv ==
    /\ LocksAreHeld
    /\ KnownProducts
    /\ StaleIsExplained
    /\ TransactionsAddUp
    /\ LinesStayOnSale
    /\ TakenIsKnown

\* Every transaction of reserveStock and releaseStock that waits for a product's
\* row gets it and ends, however those before it ended: by a commit, a refusal, a
\* rollback or a lost connection.
EveryTransactionEnds == \A c \in Calls : InTransaction(c) ~> ~InTransaction(c)

-----------------------------------------------------------------------------
(***************************************************************************)
(* The statements of the transactions add up to atomic handlers.           *)
(***************************************************************************)

Outcome(c) ==
    CASE at[c] \in {"reserved", "releasing", "evicting", "sold"} -> "reserved"
      [] at[c] \in {"refused", "released", "failed"} -> at[c]
      [] OTHER -> "open"

Stock == INSTANCE StockContract WITH
    Lines <- [c \in Calls |-> Len(Lines[c])],
    Demand <- [c \in Calls |-> [n \in 0..Len(Lines[c]) |-> [p \in Products |-> Units(c, n, p)]]],
    shelf <- row,
    outcome <- [c \in Calls |-> Outcome(c)],
    desk <- <<born, edit>>

\* Although its lines are locked and written one by one, while other calls and
\* admins are at work, each reservation and each compensation of reserveStock
\* and releaseStock is one step of the stock contract, as in ProductService.
ReservesAtomically == Stock!Spec

=============================================================================
