------------------------------- MODULE Paging -------------------------------
(***************************************************************************)
(* Keyset paging of products and of a user's own orders                      *)
(* (src/marketplace/src/marketplace.controller.ts, repositories/*.ts), and of *)
(* the in-memory lists of the contract application (app.ts): a client follows *)
(* next_cursor from page to page while others insert.  Ids come from a         *)
(* sequence when a row is inserted, rows are seen when their transaction        *)
(* commits, and the two orders differ; the array of app.ts has no transactions. *)
(***************************************************************************)
EXTENDS Naturals, Sequences, FiniteSets, SequencesExt

CONSTANTS
  MaxRows,     \* bound on the rows inserted
  Owners,      \* users; a list of orders shows its reader's rows only
  Reader,
  MaxPage      \* bound on the limit of a page

ASSUME PagingAssumption == Reader \in Owners /\ {MaxRows, MaxPage} \subseteq Nat \ {0}

VARIABLES
  row,         \* each id's row
  idSequence,    \* the last id handed out
  list,        \* the walk's list and limit, and whose orders are inserted
  walk,        \* where the walk is: the id its cursor holds
  shown,       \* the ids it has been given
  atStart      \* history: the ids it could have seen when it began

pagingVars == <<row, idSequence, list, walk, shown, atStart>>
rowVars == <<row, idSequence>>

Ids == 1..MaxRows
Lists == {"products", "orders", "contract"}

PagingTypeOK ==
  /\ row \in [Ids -> {"none", "inserted", "committed", "rolledBack"}]
  /\ idSequence \in {0} \cup Ids
  /\ list \in [of : Lists, limit : 1..MaxPage, owner : [Ids -> Owners]]
  /\ walk \in [at : {"idle", "page", "done"}, after : {0} \cup Ids]
  /\ shown \in Seq(Ids) /\ atStart \subseteq Ids

PagingInit ==
  /\ row = [i \in Ids |-> "none"]
  /\ idSequence = 0
  /\ list \in [of : Lists, limit : 1..MaxPage, owner : [Ids -> Owners]]
  /\ list.of # "orders" => \A i \in Ids : list.owner[i] = Reader
  /\ walk = [at |-> "idle", after |-> 0]
  /\ shown = <<>> /\ atStart = {}

-----------------------------------------------------------------------------
InsertRow ==
  /\ idSequence < MaxRows /\ idSequence' = idSequence + 1
  /\ row' = [row EXCEPT ![idSequence + 1] =
       IF list.of = "contract" THEN "committed" ELSE "inserted"]
  /\ UNCHANGED <<list, walk, shown, atStart>>

(* The id of a row that is rolled back is never used. *)
EndInsert(i) ==
  /\ row[i] = "inserted"
  /\ \E outcome \in {"committed", "rolledBack"} : row' = [row EXCEPT ![i] = outcome]
  /\ UNCHANGED <<idSequence, list, walk, shown, atStart>>

(* WHERE user_id = $3, for orders; every product is listed. *)
Listed == {i \in Ids : row[i] = "committed" /\ (list.of = "orders" => list.owner[i] = Reader)}

(* WHERE id > $1 ORDER BY id: the listed ids after the cursor, as a sequence. *)
Ascending == {s \in UNION {[1..n -> Ids] : n \in 0..MaxRows} :
                \A i, j \in 1..Len(s) : i < j => s[i] < s[j]}
Ordered(after) == {s \in Ascending : ToSet(s) = {i \in Listed : i > after}}

(* slice(), and LIMIT: the elements from the one after `from`, at most n. *)
Slice(s, from, n) == SubSeq(s, from + 1, IF Len(s) < from + n THEN Len(s) ELSE from + n)

StartWalk ==
  /\ walk.at = "idle" /\ walk' = [walk EXCEPT !.at = "page"]
  /\ atStart' = Listed
  /\ UNCHANGED <<rowVars, list, shown>>

(* LIMIT $2: one row more than the limit tells whether there is another page. *)
\* RowsOfPage with a fault, for the checks.
RowsOfPageExact(found) == Slice(found, 0, list.limit)
RowsOfPage(found) == Slice(found, 0, list.limit + 1)

Show(items, hasMore) ==
  /\ walk.at = "page"
  /\ shown' = shown \o items
  /\ walk' = IF hasMore THEN [at |-> "page", after |-> Last(items)]
             ELSE [walk EXCEPT !.at = "done"]
  /\ UNCHANGED <<rowVars, list, atStart>>

NextPage ==
  \E found \in Ordered(walk.after) :
    LET rows == RowsOfPage(found)
    IN list.of # "contract" /\ Show(Slice(rows, 0, list.limit), Len(rows) > list.limit)

(* page() of app.ts finds the cursor's record in the array, where records are *)
(* in the order of their insertion, and counts from it.                        *)
ContractPage ==
  LET records == [i \in 1..idSequence |-> i]
      afterIndex == IF walk.after = 0 THEN 0
                    ELSE CHOOSE i \in 1..idSequence : records[i] = walk.after
      items == Slice(records, afterIndex, list.limit)
  IN list.of = "contract" /\ Show(items, afterIndex + Len(items) < idSequence)

PagingNext ==
  \/ InsertRow \/ \E i \in Ids : EndInsert(i)
  \/ StartWalk \/ NextPage \/ ContractPage

PagingSpec == PagingInit /\ [][PagingNext]_pagingVars

-----------------------------------------------------------------------------
(* A walk never shows a row twice, out of order or that is not the reader's,  *)
(* and when it ends it has shown every row that was there when it began: what *)
(* it misses was committed later, possibly with an id it had already passed.   *)
PagesAreExact ==
  /\ \A i, j \in 1..Len(shown) : i < j => shown[i] < shown[j]
  /\ ToSet(shown) \subseteq Listed
  /\ {i \in atStart : i <= walk.after} \subseteq ToSet(shown)
  /\ walk.at = "done" => atStart \subseteq ToSet(shown)

(* A cursor is the last id shown, and every id handed out by the contract's   *)
(* array is a record of it.                                                    *)
CursorIsLastShown ==
  /\ walk.after \in {0} \cup ToSet(shown)
  /\ walk.at # "done" => \A i \in 1..Len(shown) : shown[i] <= walk.after
  /\ atStart \subseteq Listed
  /\ walk.at = "idle" => shown = <<>>
  /\ \A i \in Ids : row[i] = "none" <=> i > idSequence
  /\ list.of = "contract" => \A i \in Ids : i <= idSequence => row[i] = "committed"

PagingInv == PagingTypeOK /\ PagesAreExact /\ CursorIsLastShown
=============================================================================
