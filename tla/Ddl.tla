-------------------------------- MODULE Ddl --------------------------------
(***************************************************************************)
(* schema/ddl_reader.rs: what the reader of sqlite_master takes from the   *)
(* text of CREATE TABLE and CREATE INDEX.  A text is a sequence of tokens: *)
(* words in upper or lower case (case never matters here), white space,    *)
(* and the characters that the scanners look for (tick is the backquote).  *)
(***************************************************************************)
EXTENDS Integers, Sequences, FiniteSets, SequencesExt, TLC

Blank  == {" ", "\n"}
Absent == "none"

\* opened that knows quotes and no comments.
opened_Quotes(c, next) ==
  CASE c \in {"'", "\"", "tick"} -> <<1, FALSE, c>>
    [] c = "["                   -> <<1, FALSE, "]">>
    [] OTHER                     -> <<1, TRUE, "">>

\* Outside every region: <<the tokens to take, kept or blanked, the region's end>>.
opened(c, next) ==
  CASE c \in {"'", "\"", "tick"} -> <<1, FALSE, c>>
    [] c = "["                -> <<1, FALSE, "]">>
    [] c = "-" /\ next = "-"  -> <<1, FALSE, "\n">>
    [] c = "/" /\ next = "*"  -> <<2, FALSE, "*/">>
    [] OTHER                  -> <<1, TRUE, "">>

\* In a region: a doubled quote does not end it, and a line comment keeps its line end.
inside(c, next, closer) ==
  CASE closer = "*/" /\ c = "*" /\ next = "/"            -> <<2, FALSE, "">>
    [] c = closer /\ next = c /\ closer \in {"'", "\""}  -> <<2, FALSE, closer>>
    [] c = closer /\ ~(next = c /\ closer \in {"'", "\""}) -> <<1, c = "\n", "">>
    [] OTHER                                             -> <<1, FALSE, closer>>

RECURSIVE masked(_, _)
masked(s, closer) ==
  IF s = << >> THEN << >>
  ELSE LET next == IF Len(s) > 1 THEN s[2] ELSE ""
           step == IF closer = "" THEN opened(s[1], next) ELSE inside(s[1], next, closer)
       IN (IF step[2] THEN <<s[1]>> ELSE [i \in 1 .. step[1] |-> " "])
          \o masked(SubSeq(s, step[1] + 1, Len(s)), step[3])

\* Quoted regions and comments become white space, everything else stays in place.
mask_quotes_and_comments(s) == masked(s, "")

\* Open parentheses behind the first n tokens of m.
Depth(m, n) ==
  Cardinality({i \in 1 .. n : m[i] = "("}) - Cardinality({i \in 1 .. n : m[i] = ")"})

\* What is between the outer parentheses: the positions around it, or none.
column_list_span(sql) ==
  LET m     == mask_quotes_and_comments(sql)
      opens == {i \in DOMAIN m : m[i] = "("}
      start == Min(opens)
      ends  == {i \in DOMAIN m : i > start /\ m[i] = ")"
                                 /\ Depth(m, i) = Depth(m, start - 1)}
  IN IF opens = {} \/ ends = {} THEN << >> ELSE <<start, Min(ends)>>

trim(s) ==
  LET solid == {i \in DOMAIN s : s[i] \notin Blank}
  IN IF solid = {} THEN << >> ELSE SubSeq(s, Min(solid), Max(solid))

\* A set of positions, as a sequence from the first to the last.
InOrder(S) == [k \in 1 .. Cardinality(S) |-> CHOOSE i \in S : Cardinality({j \in S : j <= i}) = k]

split_top_level_commas(inner) ==
  LET m    == mask_quotes_and_comments(inner)
      cuts == {i \in DOMAIN m : m[i] = "," /\ Depth(m, i - 1) = 0}
      ends == InOrder(cuts \cup {0, Len(inner) + 1})
  IN [k \in 1 .. Len(ends) - 1 |-> trim(SubSeq(inner, ends[k] + 1, ends[k + 1] - 1))]

\* split_whitespace.
Words(s) ==
  LET begins == {i \in DOMAIN s : s[i] \notin Blank /\ (i = 1 \/ s[i - 1] \in Blank)}
      stop(i) == Min({j \in i .. Len(s) + 1 : j = Len(s) + 1 \/ s[j] \in Blank})
      from == InOrder(begins)
  IN [k \in DOMAIN from |-> SubSeq(s, from[k], stop(from[k]) - 1)]

\* trim_matches of the opening, then of the closing quotes.
unquoted(w) ==
  LET strip(s, q) == LET solid == {i \in DOMAIN s : s[i] \notin q}
                     IN IF solid = {} THEN << >> ELSE SubSeq(s, Min(solid), Max(solid))
  IN strip(strip(w, {"\"", "tick", "["}), {"]"})

FirstWord(s) == IF Words(s) = << >> THEN << >> ELSE Words(s)[1]

column_name(def) == unquoted(FirstWord(def))

ConstraintKeywords ==
  {"PRIMARY", "NOT", "NULL", "UNIQUE", "CHECK", "DEFAULT", "COLLATE", "REFERENCES"}

\* The words between the name and the first constraint.
column_type(def) ==
  LET ws == Words(def)
      constraint(w) == w[1] \in ConstraintKeywords /\ (Len(w) = 1 \/ w[2] = "(")
      stops == {i \in 2 .. Len(ws) : constraint(ws[i])} \cup {Len(ws) + 1}
  IN SubSeq(ws, 2, Min(stops) - 1)

column_collation(def) ==
  LET at   == {i \in DOMAIN def : def[i] = "COLLATE"}
      name == unquoted(FirstWord(SubSeq(def, Min(at) + 1, Len(def))))
  IN IF at = {} \/ name \notin {<<"NOCASE">>, <<"RTRIM">>} THEN "BINARY" ELSE name[1]

\* Words that have a constraint's keyword in front.
Keyed == {"UNIQUE", "CHECK", "CONSTRAINT", "unique_id"}

is_table_constraint(def) ==
  \/ def # << >> /\ def[1] \in Keyed
  \/ Len(def) > 2 /\ SubSeq(def, 1, 3) \in {<<"PRIMARY", " ", "KEY">>, <<"FOREIGN", " ", "KEY">>}

all_defs(sql) ==
  LET span == column_list_span(sql)
  IN IF span = << >> THEN << >>
     ELSE split_top_level_commas(SubSeq(sql, span[1] + 1, span[2] - 1))

column_defs(sql) == SelectSeq(all_defs(sql), LAMBDA d : ~is_table_constraint(d))

\* s has the tokens t in a row, somewhere.
Mentions(s, t) == \E i \in DOMAIN s : SubSeq(s, i, i + Len(t) - 1) = t

\* Nothing where there is no column list: the caller then takes the default.
parse_create_table(sql) ==
  LET span    == column_list_span(sql)
      trailer == SubSeq(sql, span[2] + 1, Len(sql))
      defs    == column_defs(sql)
      none    == [columns |-> << >>, types |-> << >>, collations |-> << >>,
                  without_rowid |-> FALSE, strict |-> FALSE]
  IN IF span = << >> THEN none
     ELSE [columns       |-> [i \in DOMAIN defs |-> column_name(defs[i])],
           types         |-> [i \in DOMAIN defs |-> column_type(defs[i])],
           collations    |-> [i \in DOMAIN defs |-> column_collation(defs[i])],
           without_rowid |-> Mentions(trailer, <<"WITHOUT", " ", "ROWID">>),
           strict        |-> Mentions(trailer, <<"STRICT">>)]

Starts(sql, words) == SubSeq(trim(sql), 1, Len(words)) = words

is_virtual_table(sql) == Starts(sql, <<"CREATE", " ", "VIRTUAL", " ", "TABLE">>)
is_unique_index(sql)  == Starts(sql, <<"CREATE", " ", "UNIQUE", " ", "INDEX">>)

\* indexed_column that looks for a descending direction only.
indexed_column_Desc(def) ==
  LET s    == trim(def)
      n    == Len(s)
      desc == n > 1 /\ s[n - 1] = " " /\ s[n] = "DESC"
      span == IF desc THEN trim(SubSeq(s, 1, n - 2)) ELSE s
      at   == {i \in 2 .. Len(span) - 1 : span[i] = "COLLATE"}
  IN [name |-> unquoted(IF at = {} THEN span ELSE trim(SubSeq(span, 1, Min(at) - 2))),
      desc |-> desc, collation |-> column_collation(span)]

indexed_column(def) ==
  LET s    == trim(def)
      n    == Len(s)
      way  == IF n > 1 /\ s[n - 1] = " " /\ s[n] \in {"DESC", "ASC"} THEN s[n] ELSE Absent
      span == IF way = Absent THEN s ELSE trim(SubSeq(s, 1, n - 2))
      at   == {i \in 2 .. Len(span) - 1 :
                 span[i] = "COLLATE" /\ span[i - 1] = " " /\ span[i + 1] = " "}
      name == IF at = {} THEN span ELSE trim(SubSeq(span, 1, Min(at) - 2))
  IN [name |-> unquoted(name), desc |-> way = "DESC", collation |-> column_collation(span)]

-----------------------------------------------------------------------------
(* sqlite_master.  A row is [kind, name, tbl_name, rootpage, sql], with     *)
(* whether its record decodes and the number of values it decodes to.      *)

\* The row of five values that a CREATE statement leaves there.
master_row(kind, name, tbl_name, rootpage, sql) ==
  [kind |-> kind, name |-> name, tbl_name |-> tbl_name, rootpage |-> rootpage, sql |-> sql,
   decodes |-> TRUE, values |-> 5]

\* What the first row that cannot be used is refused for, if there is one.
fault(row) == IF ~row.decodes THEN "Record" ELSE IF row.values # 5 THEN "MalformedRow" ELSE Absent

\* A walk over the rows returns result, or nothing of it but the first fault.
walk(rows, result) ==
  LET faulty == {i \in DOMAIN rows : fault(rows[i]) # Absent}
  IN IF faulty = {} THEN [ok |-> TRUE, v |-> result]
     ELSE [ok |-> FALSE, err |-> fault(rows[Min(faulty)])]

table_schema(row) ==
  LET virtual == is_virtual_table(row.sql)
      parsed  == parse_create_table(row.sql)
      nothing == parse_create_table(<< >>)
  IN (IF virtual THEN nothing ELSE parsed)
     @@ [name |-> row.name, root_page |-> IF virtual THEN 0 ELSE row.rootpage,
         is_virtual |-> virtual, sql |-> row.sql, indexes |-> << >>]

\* An index without a column list, such as an automatic one, is left out.
index_schema(row) ==
  LET defs == all_defs(row.sql)
  IN IF column_list_span(row.sql) = << >> THEN << >>
     ELSE <<[table   |-> row.tbl_name, name |-> row.name, unique |-> is_unique_index(row.sql),
             columns |-> [i \in DOMAIN defs |-> indexed_column(defs[i])],
             root_page |-> row.rootpage]>>

\* Tables in order, each with its indexes; the last table of a name takes them.
read_schema_and_views(rows) ==
  LET kind(k) == SelectSeq(rows, LAMBDA r : r.kind = k)
      tables  == [i \in DOMAIN kind("table") |-> table_schema(kind("table")[i])]
      pending == FlattenSeq([i \in DOMAIN kind("index") |-> index_schema(kind("index")[i])])
      latest(i) == \A j \in i + 1 .. Len(tables) : tables[j].name # tables[i].name
      schemas == [i \in DOMAIN tables |->
                    [tables[i] EXCEPT !.indexes =
                       SelectSeq(pending, LAMBDA x : latest(i) /\ x.table = tables[i].name)]]
      views   == [i \in DOMAIN kind("view") |->
                    [name |-> kind("view")[i].name, sql |-> kind("view")[i].sql]]
  IN walk(rows, <<schemas, views>>)

read_schema(rows) ==
  LET both == read_schema_and_views(rows) IN IF both.ok THEN [both EXCEPT !.v = @[1]] ELSE both

read_table_and_view_names(rows) ==
  LET named == SelectSeq(rows, LAMBDA r : r.kind \in {"table", "view"})
  IN walk(rows, [i \in DOMAIN named |-> named[i].name])

read_views(rows) ==
  LET views == SelectSeq(rows, LAMBDA r : r.kind = "view")
  IN walk(rows, [i \in DOMAIN views |-> [name |-> views[i].name, sql |-> views[i].sql]])
=============================================================================
