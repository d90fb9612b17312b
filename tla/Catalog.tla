------------------------------- MODULE Catalog -------------------------------
(***************************************************************************)
(* The schema catalog (btree/master.rs, btree/schema.rs): sqlite_master    *)
(* with its cookie, sqlite_sequence and sqlite_stat1, the root pages that  *)
(* statements allocate and free, and the index of a table; and PRAGMA      *)
(* integrity_check over all of it (integrity.rs; its walk over the         *)
(* freelist is in module Freelist).  A b-tree is what RowStore promises: a *)
(* map from rowids to records, or the entries of an index in key order.    *)
(* The order of calls within a statement is the one of master.rs where it  *)
(* makes them itself, and of the callers' contracts elsewhere.             *)
(***************************************************************************)
EXTENDS Integers, Sequences, FiniteSets, SequencesExt, TLC

CONSTANTS
  Tables,         \* names of tables
  IndexOf,        \* the name of the index that each of them may get
  Auto,           \* the tables with AUTOINCREMENT
  Vals,           \* values of their column: <<rank>> or <<rank, n>>
  MaxRowid,       \* bound: rowids of user rows
  MaxStatements,  \* bound: statements that are run
  CookieWrap      \* 2^32: the schema cookie wraps there

VARIABLES
  d,              \* the database: master, trees, free, pages, cookie
  damage,         \* what happened to the file behind the program's back
  ran             \* statements so far

catalog == <<d, damage, ran>>

D == INSTANCE Ddl

CreateSql(t) == <<"CREATE", " ", "TABLE", " ", t, "(", "a", ")">>
IndexSql(t)  == <<"CREATE", " ", "INDEX", " ", "i", " ", "ON", " ", t, "(", "a", ")">>

-----------------------------------------------------------------------------
(* Pages and rows.                                                         *)

allocate_page(x) == IF x.free = {} THEN x.pages + 1 ELSE Min(x.free)

NewRoot(x, empty) ==
  LET p == allocate_page(x)
  IN [x EXCEPT !.free = @ \ {p}, !.pages = Max({@, p}), !.trees = (p :> empty) @@ @]

create_empty_table_root(x) == NewRoot(x, [r \in {} |-> << >>])
create_empty_index_root(x) == NewRoot(x, << >>)

\* Where a row goes whose rowid nobody gave.
max_rowid(rows) == Max(DOMAIN rows \cup {0})

\* The rows in rowid order, as a cursor yields them.
Walk(rows) == [i \in 1 .. Cardinality(DOMAIN rows) |-> rows[SetToSortSeq(DOMAIN rows, <)[i]]]

free_btree_pages(x, p) ==
  [x EXCEPT !.free = @ \cup {p}, !.trees = [q \in DOMAIN @ \ {p} |-> x.trees[q]]]

-----------------------------------------------------------------------------
(* master.rs.                                                              *)

\* A cookie that stays at its largest value.
bump_schema_cookie_Saturating(x) == [x EXCEPT !.cookie = Min({@ + 1, CookieWrap - 1})]

bump_schema_cookie(x) == [x EXCEPT !.cookie = (@ + 1) % CookieWrap]

insert_master_row(x, kind, name, tbl, root, sql) ==
  [x EXCEPT !.master = (max_rowid(@) + 1 :>
     D!master_row(kind, name, tbl, root, sql)) @@ @]

\* The first row with that name, of whatever kind.
find_rowid_by_text_column(x, name) == {r \in DOMAIN x.master : x.master[r].name = name}

delete_master_row(x, name) ==
  [x EXCEPT !.master =
     [r \in DOMAIN @ \ {Min(find_rowid_by_text_column(x, name))} |-> x.master[r]]]

Named(x, name) == find_rowid_by_text_column(x, name) # {}
find_master_rootpage(x, name) == x.master[Min(find_rowid_by_text_column(x, name))].rootpage

\* A table of the system, created on first use.
Created(x, name) ==
  LET y == create_empty_table_root(x)
  IN bump_schema_cookie(insert_master_row(y, "table", name, name, allocate_page(x), CreateSql(name)))

\* The table is created whether it is there or not.
ensure_sqlite_sequence_table_Always(x) == Created(x, "sqlite_sequence")

ensure_sqlite_sequence_table(x) ==
  IF Named(x, "sqlite_sequence") THEN x ELSE Created(x, "sqlite_sequence")

ensure_sqlite_stat1_table(x) ==
  IF Named(x, "sqlite_stat1") THEN x ELSE Created(x, "sqlite_stat1")

\* update_sequence that takes over every rowid.
update_sequence_Any(x, t, rowid) ==
  LET y    == ensure_sqlite_sequence_table(x)
      root == find_master_rootpage(y, "sqlite_sequence")
      rows == y.trees[root]
      old  == {r \in DOMAIN rows : rows[r][1] = t}
      at   == IF old = {} THEN max_rowid(rows) + 1 ELSE Min(old)
  IN [y EXCEPT !.trees[root] = (at :> <<t, rowid>>) @@ @]

\* The row of table t: added, moved up to rowid, or left alone.
update_sequence(x, t, rowid) ==
  LET y    == ensure_sqlite_sequence_table(x)
      root == find_master_rootpage(y, "sqlite_sequence")
      rows == y.trees[root]
      old  == {r \in DOMAIN rows : rows[r][1] = t}
      at   == IF old = {} THEN max_rowid(rows) + 1 ELSE Min(old)
  IN IF old # {} /\ rowid <= rows[at][2] THEN y
     ELSE [y EXCEPT !.trees[root] = (at :> <<t, rowid>>) @@ @]

\* delete_stat1_rows_for_table that stops after the first row.
delete_stat1_rows_for_table_First(rows, t) ==
  LET old == {r \in DOMAIN rows : rows[r][1] = t}
  IN [r \in DOMAIN rows \ (IF old = {} THEN {} ELSE {Min(old)}) |-> rows[r]]

delete_stat1_rows_for_table(rows, t) ==
  [r \in {s \in DOMAIN rows : rows[s][1] # t} |-> rows[r]]

insert_stat1_row(rows, t, idx, stat) == (max_rowid(rows) + 1 :> <<t, idx, stat>>) @@ rows

-----------------------------------------------------------------------------
(* Indexes.  An entry is <<value, rowid>>.                                 *)

value_rank(v) == v[1]

\* The order of the index b-tree: by rank, then by value, then by rowid.
compare_keys(a, b) ==
  \/ value_rank(a[1]) < value_rank(b[1])
  \/ a[1] = b[1] /\ a[2] < b[2]
  \/ value_rank(a[1]) = value_rank(b[1]) /\ Len(a[1]) = 2 /\ a[1][2] < b[1][2]

insert_entry(es, e) ==
  InsertAt(es, 1 + Cardinality({i \in DOMAIN es : compare_keys(es[i], e)}), e)

delete_entry(es, e) == SelectSeq(es, LAMBDA f : f # e)

\* populate_index_from_table that appends the entries in the order of the rows.
populate_index_from_table_Append(x, table, index) ==
  LET rows == x.trees[table]
      ids  == SetToSortSeq(DOMAIN rows, <)
  IN [x EXCEPT !.trees[index] = [i \in DOMAIN ids |-> <<rows[ids[i]][1], ids[i]>>]]

\* One entry for every row, collected before the first is inserted.
populate_index_from_table(x, table, index) ==
  LET keys == {<<x.trees[table][r][1], r>> : r \in DOMAIN x.trees[table]}
  IN [x EXCEPT !.trees[index] = FoldLeft(insert_entry, @, SetToSeq(keys))]

-----------------------------------------------------------------------------
(* integrity.rs.  A problem is a tuple that names the object.              *)

\* A walk that does not repeat or go back; the cursor yields rowids.
check_table(walk) ==
  {<<"out of order", i>> : i \in {j \in 2 .. Len(walk) : walk[j] <= walk[j - 1]}}
  \cup {<<"duplicate", i>> : i \in {j \in DOMAIN walk : \E k \in 1 .. j - 1 : walk[k] = walk[j]}}

\* integrity.rs's own compare_values finds values of different ranks equal, but for NULL.
compare_index_keys_greater(v, w) ==
  \/ value_rank(w) = 0 /\ value_rank(v) # 0
  \/ value_rank(v) = value_rank(w) /\ Len(v) = 2 /\ v[2] > w[2]

\* check_index that does not count the entries.
check_index_NoCount(entries, rowids) ==
  {<<"no such row", i>> : i \in {j \in DOMAIN entries : entries[j][2] \notin rowids}}
  \cup {<<"keys", i>> : i \in {j \in 2 .. Len(entries) :
                               compare_index_keys_greater(entries[j - 1][1], entries[j][1])}}

check_index(entries, rowids) ==
  {<<"no such row", i>> : i \in {j \in DOMAIN entries : entries[j][2] \notin rowids}}
  \cup {<<"keys", i>> : i \in {j \in 2 .. Len(entries) :
                               compare_index_keys_greater(entries[j - 1][1], entries[j][1])}}
  \cup (IF Len(entries) # Cardinality(rowids) THEN {<<"wrong # of entries", 0>>} ELSE {})

run_integrity_check(x, quick) ==
  LET schemas == D!read_schema(Walk(x.master)).v
      rowids(i) == DOMAIN x.trees[schemas[i].root_page]
      table(i)  == check_table(SetToSortSeq(rowids(i), <))
      indexes(i) == {schemas[i].indexes[j].root_page : j \in DOMAIN schemas[i].indexes}
      index(i)  == UNION {check_index(x.trees[p], rowids(i)) : p \in indexes(i)}
  IN UNION {table(i) \cup (IF quick THEN {} ELSE index(i)) :
              i \in {j \in DOMAIN schemas : ~schemas[j].is_virtual}}

-----------------------------------------------------------------------------
(* Statements.                                                             *)

Root(t)   == find_master_rootpage(d, t)
Rows(t)   == d.trees[Root(t)]
Indexed(t) == Named(d, IndexOf[t])

Sequence(x, t) ==
  IF ~Named(x, "sqlite_sequence") THEN 0
  ELSE LET rows == x.trees[find_master_rootpage(x, "sqlite_sequence")]
       IN Max({rows[r][2] : r \in {s \in DOMAIN rows : rows[s][1] = t}} \cup {0})

Run(x) == d' = x /\ ran' = ran + 1 /\ UNCHANGED damage

Ready == damage = "none" /\ ran < MaxStatements

CreateTable(t) ==
  /\ Ready /\ ~Named(d, t)
  /\ Run(bump_schema_cookie(insert_master_row(create_empty_table_root(d), "table", t, t,
                                              allocate_page(d), CreateSql(t))))

CreateIndex(t) ==
  /\ Ready /\ Named(d, t) /\ ~Indexed(t)
  /\ LET p == allocate_page(d)
     IN Run(bump_schema_cookie(insert_master_row(
              populate_index_from_table(create_empty_index_root(d), Root(t), p),
              "index", IndexOf[t], t, p, IndexSql(t))))

DropIndex(t) ==
  /\ Ready /\ Indexed(t)
  /\ Run(bump_schema_cookie(delete_master_row(
           free_btree_pages(d, Root(IndexOf[t])), IndexOf[t])))

DropTable(t) ==
  /\ Ready /\ Named(d, t)
  /\ LET x == IF Indexed(t)
              THEN delete_master_row(free_btree_pages(d, Root(IndexOf[t])), IndexOf[t]) ELSE d
     IN Run(bump_schema_cookie(delete_master_row(free_btree_pages(x, Root(t)), t)))

\* A row, its index entry, and the sequence of an AUTOINCREMENT table.
InsertRow(t, r, v) ==
  /\ Ready /\ Named(d, t) /\ r \notin DOMAIN Rows(t)
  /\ LET x == [d EXCEPT !.trees[Root(t)] = (r :> <<v>>) @@ @]
         y == IF Indexed(t)
              THEN [x EXCEPT !.trees[Root(IndexOf[t])] = insert_entry(@, <<v, r>>)] ELSE x
     IN Run(IF t \in Auto THEN update_sequence(y, t, r) ELSE y)

DeleteRow(t, r) ==
  /\ Ready /\ Named(d, t) /\ r \in DOMAIN Rows(t)
  /\ LET x == [d EXCEPT !.trees[Root(t)] = [s \in DOMAIN @ \ {r} |-> Rows(t)[s]]]
     IN Run(IF Indexed(t)
            THEN [x EXCEPT !.trees[Root(IndexOf[t])] = delete_entry(@, <<Rows(t)[r][1], r>>)]
            ELSE x)

\* ANALYZE t: the old rows of t go, a row for the table and one for its index come.
Analyze(t) ==
  /\ Ready /\ Named(d, t)
  /\ LET x    == ensure_sqlite_stat1_table(d)
         root == find_master_rootpage(x, "sqlite_stat1")
         n    == Cardinality(DOMAIN Rows(t))
         own  == insert_stat1_row(delete_stat1_rows_for_table(x.trees[root], t), t, "NULL", n)
     IN Run([x EXCEPT !.trees[root] =
               IF Indexed(t) THEN insert_stat1_row(own, t, IndexOf[t], n) ELSE own])

-----------------------------------------------------------------------------
(* Damage to the file: an index entry is lost, one too many, or two of     *)
(* them change places; a row is lost.                                      *)

Damaged(how, x) == damage = "none" /\ damage' = how /\ d' = x /\ UNCHANGED ran

LoseEntry(t) ==
  /\ Indexed(t)
  /\ LET es == d.trees[Root(IndexOf[t])]
     IN \E i \in DOMAIN es :
          Damaged("entry lost", [d EXCEPT !.trees[Root(IndexOf[t])] = RemoveAt(es, i)])

RepeatEntry(t) ==
  /\ Indexed(t)
  /\ LET es == d.trees[Root(IndexOf[t])]
     IN \E i \in DOMAIN es :
          Damaged("entry repeated", [d EXCEPT !.trees[Root(IndexOf[t])] = InsertAt(es, i, es[i])])

SwapEntries(t) ==
  /\ Indexed(t)
  /\ LET es == d.trees[Root(IndexOf[t])]
     IN \E i \in 1 .. Len(es) - 1 :
          /\ value_rank(es[i][1]) = value_rank(es[i + 1][1]) /\ es[i][1] # es[i + 1][1]
          /\ Damaged("keys out of order",
               [d EXCEPT !.trees[Root(IndexOf[t])] = [es EXCEPT ![i] = es[i + 1], ![i + 1] = es[i]]])

LoseRow(t) ==
  /\ Indexed(t)
  /\ \E r \in DOMAIN Rows(t) :
       Damaged("row lost", [d EXCEPT !.trees[Root(t)] = [s \in DOMAIN @ \ {r} |-> Rows(t)[s]]])

CatalogInit ==
  /\ d = [master |-> [r \in {} |-> << >>], trees |-> [p \in {} |-> << >>], free |-> {},
          pages |-> 1, cookie |-> 0]
  /\ damage = "none" /\ ran = 0

CatalogNext ==
  \E t \in Tables :
    \/ CreateTable(t) \/ CreateIndex(t) \/ DropIndex(t) \/ DropTable(t) \/ Analyze(t)
    \/ \E r \in 1 .. MaxRowid : DeleteRow(t, r) \/ \E v \in Vals : InsertRow(t, r, v)
    \/ LoseEntry(t) \/ RepeatEntry(t) \/ SwapEntries(t) \/ LoseRow(t)

CatalogSpec == CatalogInit /\ [][CatalogNext]_catalog

-----------------------------------------------------------------------------
(* Properties.                                                             *)

\* After a statement neither check finds anything, whatever ran before: every index
\* has an entry for every row, in order, whether it was populated or kept up to date.
IntegrityOk == damage' = "none" => \A quick \in BOOLEAN : run_integrity_check(d', quick) = {}

\* integrity_check reports an index entry that was lost, repeated or misplaced, and a
\* row that was lost from under its index.
DamageReported == damage' # "none" => run_integrity_check(d', FALSE) # {}

\* quick_check leaves out the comparison with the table, and still looks at the order
\* of the keys of an index (module doc of integrity.rs).
QuickCheckOrders ==
  [][damage' = "keys out of order" => run_integrity_check(d', TRUE) # {}]_catalog

\* Every page but the first is free or the root of exactly one entry of
\* sqlite_master, and no name is there twice: no statement leaks a root or creates a
\* system table again.
RootsOwnedOnce ==
  /\ DOMAIN d.trees \cup d.free = 2 .. d.pages
  /\ DOMAIN d.trees \cap d.free = {}
  /\ {d.master[r].rootpage : r \in DOMAIN d.master} = DOMAIN d.trees
  /\ \A r, s \in DOMAIN d.master :
       d.master[r].name = d.master[s].name \/ d.master[r].rootpage = d.master[s].rootpage => r = s

\* No statement changes sqlite_master and leaves the cookie as it was, not even when
\* the cookie wraps: other connections would keep their old schema.
CookieTellsSchema == d'.master # d.master => d'.cookie # d.cookie

\* The number in sqlite_sequence never goes back, and is never below a rowid that an
\* AUTOINCREMENT table holds.
SequenceOnlyGrows ==
  \A t \in Auto :
    /\ Sequence(d', t) >= Sequence(d, t)
    /\ Named(d', t) => \A r \in DOMAIN d'.trees[find_master_rootpage(d', t)] : r <= Sequence(d', t)

\* However often ANALYZE ran, sqlite_stat1 has one row for a table and one for an index.
OneStatEach ==
  Named(d, "sqlite_stat1") =>
    LET rows == Rows("sqlite_stat1")
    IN \A r, s \in DOMAIN rows : SubSeq(rows[r], 1, 2) = SubSeq(rows[s], 1, 2) => r = s

\* Between statements every root page has one owner and every statistic one row
\* (btree/master.rs).
CatalogSound == RootsOwnedOnce /\ OneStatEach

\* The integrity check is silent on what the program wrote, and reports the damage
\* that its orders and counts can show (integrity.rs).
CheckTellsTruth == [][IntegrityOk /\ DamageReported]_catalog

\* No statement changes the schema without changing the cookie, or lets a sequence
\* fall back (btree/master.rs).
CountersTell == [][CookieTellsSchema /\ SequenceOnlyGrows]_catalog
=============================================================================
