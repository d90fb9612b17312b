----------------------------- MODULE RowFormats -----------------------------
(***************************************************************************)
(* What the formats of the row store promise, for one subject at a time: a *)
(* varint, a record, a CREATE statement, a page 1 or a row of values is    *)
(* written or encoded, and then read back.  ParquetFormat adds the subjects*)
(* of the column store.                                                    *)
(***************************************************************************)
EXTENDS Integers, Sequences, FiniteSets, SequencesExt, TLC

\* A pair of what the subject is and its value; <<"done">> after it was read.
VARIABLE subject

-----------------------------------------------------------------------------
(* Records.                                                                *)

CONSTANTS
  VarintWords,\* 64-bit integers that are encoded as varints
  Heads,      \* lengths of the serial types of a record
  RecordRows        \* <<column values, text encoding>> that are encoded as records

R == INSTANCE Records

RecordSubjects == ({"varint"} \X VarintWords) \cup ({"head"} \X Heads) \cup ({"record"} \X RecordRows)

\* A varint decodes to the integer that was encoded whatever follows it, its length
\* is the one that sizes the header, and no proper prefix of it decodes.
VarintExact ==
  subject[1] = "varint" =>
    LET v == subject[2]
        b == R!write_varint_into(v)
    IN /\ Len(b) = R!varint_len(v)
       /\ \A tail \in {<< >>, <<0>>, <<255>>} :
            R!decode_varint(b \o tail) = [ok |-> TRUE, len |-> Len(b), v |-> v]
       /\ \A n \in 0 .. Len(b) - 1 : ~R!decode_varint(SubSeq(b, 1, n)).ok

\* The header length that encode_record declares is the length of the header with
\* the varint that declares it, also where counting that varint makes it longer.
HeaderCountsItself ==
  subject[1] = "head" =>
    LET h == R!header_len_of(subject[2], subject[2] + 1)
        b == R!write_varint_into(R!Small(h))
    IN /\ R!Num(R!decode_varint(b).v) = h
       /\ Len(b) + subject[2] = h

\* The subject's columns, encoding and payload.
RowValues  == subject[2][1]
RowEncoding == subject[2][2]
RowBytes  == R!encode_record_into(RowValues, RowEncoding)

\* The columns as they read back: a NaN is stored and reads as NULL.
RowStored ==
  [i \in DOMAIN RowValues |->
     IF RowValues[i].t = "real" /\ R!is_nan(RowValues[i].w) THEN R!Null ELSE RowValues[i]]

\* decode_record is the inverse of encode_record in all three text encodings, at
\* every width of integer and where the header's own length takes a second byte.
RecordRoundTrip ==
  subject[1] = "record" => R!decode_record(RowBytes, RowEncoding) = [ok |-> TRUE, v |-> RowStored]

\* A record cut short or with bytes behind it is refused as a whole: decode_record
\* never takes it for a record with other columns.
CutRecordRefused ==
  subject[1] = "record" =>
    /\ \A n \in 0 .. Len(RowBytes) - 1 :
         ~R!decode_record(SubSeq(RowBytes, 1, n), RowEncoding).ok
    /\ R!decode_record(RowBytes \o <<0>>, RowEncoding) = R!Err("TrailingData")

\* The decoders that skip columns find the offsets that the whole decoder finds:
\* each column alone (with both paths of decode_record_only_into), each prefix, and
\* columns out of order agree with decode_record, and a column that is not there is NULL.
PartialDecodersAgree ==
  subject[1] = "record" =>
    LET n == Len(RowValues)
        col(i) == IF i < n THEN RowStored[i + 1] ELSE R!Null
        some == {0, 1, n - 1, n} \ {-1}
    IN /\ \A i \in some :
            /\ R!decode_column(RowBytes, i, RowEncoding) = [ok |-> TRUE, v |-> col(i)]
            /\ R!decode_record_only_into(RowBytes, <<i>>, RowEncoding) = [ok |-> TRUE, v |-> <<col(i)>>]
            /\ R!decode_record_upto(RowBytes, i, RowEncoding)
                 = [ok |-> TRUE, v |-> SubSeq(RowStored, 1, Min({i, n}))]
       /\ R!decode_record_only_into(RowBytes, <<n, 1, 0>>, RowEncoding)
            = [ok |-> TRUE, v |-> <<R!Null, col(1), col(0)>>]

\* Records and their varints read back as they were written, whole, in part and cut
\* short, with headers that count themselves (record/encode.rs, record/decode.rs).
RecordsReadBack ==
  [][/\ VarintExact /\ HeaderCountsItself /\ RecordRoundTrip /\ CutRecordRefused
     /\ PartialDecodersAgree]_subject

-----------------------------------------------------------------------------
(* CREATE statements.                                                      *)

CONSTANTS
  TableDefs,   \* [columns: Seq of [lead, name, text, type, collation, rest], constraints, trailer]
  IndexDefs    \* [columns: Seq of [name, text, desc, collation, rest], unique]

Sql == INSTANCE Ddl

DdlSubjects == ({"table"} \X TableDefs) \cup ({"index"} \X IndexDefs)

Join(parts) ==
  FlattenSeq([i \in DOMAIN parts |-> (IF i = 1 THEN << >> ELSE <<",", " ">>) \o parts[i]])

\* The definition of a column: a comment, its name as it is written, its type, and
\* what follows.
Written(c) ==
  c.lead \o c.text \o FlattenSeq([i \in DOMAIN c.type |-> <<" ">> \o c.type[i]])
  \o (IF c.rest = << >> THEN << >> ELSE <<" ">> \o c.rest)

TableStatement(t) ==
  <<"CREATE", " ", "TABLE", " ", "t", "(">>
  \o Join([i \in DOMAIN t.columns |-> Written(t.columns[i])] \o t.constraints)
  \o <<")">> \o t.trailer

\* What the reader takes a column's name and type by: words, so that no comment is in
\* front of the name, and no blank in it.
OneWordName(c) == c.lead = << >> /\ \A i \in DOMAIN c.name : c.name[i] \notin Sql!Blank

\* The type ends at one of the keywords that the reader knows.
KnownKeyword(c) == c.rest = << >> \/ c.rest[1] \in Sql!ConstraintKeywords

\* COLLATE is written in the clause only, not in a literal.
OneCollate(c) ==
  \A i \in DOMAIN c.rest : c.rest[i] = "COLLATE" => Sql!mask_quotes_and_comments(c.rest)[i] = "COLLATE"

Commented(def) == def[1] \in {"-", "/"}

\* Commas, parentheses and quotes in a type, a default, a check or a comment, also in
\* a comment after a comma, never move a column: the i-th column that is read is the
\* i-th that is declared.  It has its name unless a comment is in front of it or a blank in
\* it, its type unless that ends at a keyword the reader does not know, its collation
\* unless COLLATE is also in a literal.  A misread definition changes no other; left
\* out are columns named like a constraint, and a constraint with a comment in front
\* is read as one more column behind the others.
ColumnsReadBack ==
  subject[1] = "table" =>
    LET t    == subject[2]
        cols == SelectSeq(t.columns, LAMBDA c : c.lead # << >> \/ c.text[1] \notin Sql!Keyed)
        more == SelectSeq(t.constraints, Commented)
        read == Sql!parse_create_table(TableStatement(t))
    IN /\ Len(read.columns) = Len(cols) + Len(more)
       /\ \A i \in DOMAIN cols :
            /\ OneWordName(cols[i]) => read.columns[i] = cols[i].name
            /\ OneWordName(cols[i]) /\ KnownKeyword(cols[i]) => read.types[i] = cols[i].type
            /\ OneCollate(cols[i]) => read.collations[i] = cols[i].collation
       /\ read.without_rowid = Sql!Mentions(t.trailer, <<"ROWID">>)
       /\ read.strict = Sql!Mentions(t.trailer, <<"STRICT">>)

\* Every column is read with the name, type and collation that it is declared with.
ColumnsAsWritten ==
  [][subject[1] = "table" =>
       LET cols == subject[2].columns
           read == Sql!parse_create_table(TableStatement(subject[2]))
       IN /\ read.columns = [i \in DOMAIN cols |-> cols[i].name]
          /\ read.types = [i \in DOMAIN cols |-> cols[i].type]
          /\ read.collations = [i \in DOMAIN cols |-> cols[i].collation]]_subject

\* An index is attached to its table with the columns, directions and collations
\* that it was created with, and only when it has a column list.  A row of
\* sqlite_master that does not decode, or not to five values, wherever it is, fails
\* every reader: none returns the part that it had read.
IndexReadBack ==
  subject[1] = "index" =>
    LET x    == subject[2]
        cols == x.columns
        sql  == (IF x.unique THEN <<"CREATE", " ", "UNIQUE", " ", "INDEX">>
                             ELSE <<"CREATE", " ", "INDEX">>)
                \o <<" ", "i", " ", "ON", " ", "t", "(">>
                \o Join([i \in DOMAIN cols |-> cols[i].text \o cols[i].rest]) \o <<")">>
        row(k, n, root, s) == Sql!master_row(k, n, "t", root, s)
        rows == <<row("index", "i", 3, sql), row("index", "auto", 4, << >>),
                  row("table", "t", 2, <<"CREATE", " ", "TABLE", " ", "t", "(", "a", ")">>),
                  [row("index", "j", 5, sql) EXCEPT !.tbl_name = "gone"]>>
    IN /\ Sql!read_schema(rows).v[1].indexes =
            <<[table |-> "t", name |-> "i", unique |-> x.unique, root_page |-> 3,
               columns |-> [i \in DOMAIN cols |->
                              [name |-> cols[i].name, desc |-> cols[i].desc,
                               collation |-> cols[i].collation]]]>>
       /\ \A i \in DOMAIN rows :
            LET short == [rows EXCEPT ![i].values = 4, ![Len(rows)].decodes = FALSE]
                refused == [ok |-> FALSE, err |-> IF i = Len(rows) THEN "Record" ELSE "MalformedRow"]
            IN /\ Sql!read_schema(short) = refused
               /\ Sql!read_views(short) = refused
               /\ Sql!read_table_and_view_names(short) = refused

-----------------------------------------------------------------------------
(* Page 1.                                                                 *)

CONSTANTS
  PageSizes,    \* the page sizes a database may have
  FieldBytes    \* four bytes that are written into a field of page 1

H == INSTANCE DbHeader

Modes == {<<1, 1>>, <<2, 2>>, <<2, 1>>, <<1, 2>>}
HeaderSubjects == {"page1"} \X (PageSizes \X FieldBytes \X FieldBytes \X Modes)

\* A page 1 that new_empty_page1 made at any page size, also the one that does not
\* fit in its field, and whose page count, freelist, cookie and journal mode were then
\* patched in place, parses to exactly those values and the defaults; both readers of
\* the journal mode agree, and the schema table on it starts at the end of the page.
Page1ReadsBack ==
  subject[1] = "page1" =>
    LET size == subject[2][1]
        b1   == subject[2][2]
        b2   == subject[2][3]
        mode == subject[2][4]
        fresh == H!new_empty_page1(size)
        counted == H!write_be_u32(fresh, H!PAGE_COUNT_OFFSET, b1)
        freed == H!write_be_u32(H!write_be_u32(counted, H!FREELIST_TRUNK_PAGE_OFFSET, b2),
                                H!FREELIST_PAGE_COUNT_OFFSET, b1)
        cooked == H!write_be_u32(freed, H!SCHEMA_COOKIE_OFFSET, b2)
        page == H!patch_journal_mode_bytes(cooked, mode)
        read == H!parse(page)
        zero == H!U32(0)
    IN /\ read = [ok |-> TRUE,
                  h |-> [page_size |-> size, write_version |-> mode[1], read_version |-> mode[2],
                         reserved_space |-> 0, page_count |-> b1, freelist_trunk_page |-> b2,
                         freelist_page_count |-> b1, schema_cookie |-> b2,
                         schema_format |-> H!U32(4), largest_root_btree_page |-> zero,
                         text_encoding |-> "Utf8", user_version |-> zero, application_id |-> zero]]
       /\ H!journal_mode(read.h) = H!journal_mode_from_page1(page)
       /\ H!read_content_start(page, H!HEADER_LEN) = H!usable_page_size(read.h)
       /\ \A v \in {H!HEADER_LEN + 8, size - 1, size} :
            H!read_content_start(H!write_content_start(page, H!HEADER_LEN, v), H!HEADER_LEN) = v

\* What a file says of itself reads back as it was written: its page 1 (header.rs), and
\* the statements that create its tables and indexes (schema/ddl_reader.rs).
SchemaReadsBack == [][Page1ReadsBack /\ ColumnsReadBack /\ IndexReadBack]_subject

-----------------------------------------------------------------------------
(* Printed rows.                                                           *)

CONSTANT ShownRows     \* sequences of values that are printed as a row

V == INSTANCE Rendering

RenderSubjects == {"row"} \X ShownRows

\* The fields of a line of CSV: a comma outside double quotes ends a field, a quoted
\* field loses its quotes and one of each doubled quote, and only a field that is
\* empty without quotes is the null.
Outside(line) == {i \in DOMAIN line : line[i] = 44 /\
                    Cardinality({j \in 1 .. i : line[j] = V!QUOTE}) % 2 = 0}

FieldAt(line, a, b) ==
  LET f == SubSeq(line, a, b)
  IN IF f = << >> THEN [t |-> "null"]
     ELSE [t |-> "text",
           s |-> IF f[1] # V!QUOTE THEN f
                 ELSE LET inner == SubSeq(f, 2, Len(f) - 1)
                      IN FlattenSeq([i \in DOMAIN inner |->
                           IF inner[i] = V!QUOTE
                              /\ Cardinality({j \in 1 .. i : inner[j] = V!QUOTE}) % 2 = 0
                           THEN << >> ELSE <<inner[i]>>])]

ReadCsv(line) ==
  LET cuts == SetToSortSeq({0, Len(line) + 1} \cup Outside(line), <)
  IN [k \in 1 .. Len(cuts) - 1 |-> FieldAt(line, cuts[k] + 1, cuts[k + 1] - 1)]

\* A row that is written cell by cell into one reused buffer as CSV reads back with
\* as many fields, each with the characters of its value, whatever separators, quotes,
\* line breaks or hexadecimal it holds, and NULL is told from empty text.
CsvReadsBack ==
  subject[1] = "row" =>
    LET row == subject[2]
        line == FoldLeft(LAMBDA buf, i : V!write_csv_value(IF i = 1 THEN buf ELSE Append(buf, 44), row[i]),
                         << >>, [i \in DOMAIN row |-> i])
        want(v) == IF v.t = "null" THEN [t |-> "null"]
                   ELSE [t |-> "text", s |-> IF v.t = "text" THEN v.s ELSE V!format_list_value(v)]
    IN ReadCsv(line) = [i \in DOMAIN row |-> want(row[i])]

\* The renderers that append to a buffer print what those that return a string print.
BufferedRenderersAgree ==
  subject[1] = "row" =>
    \A i \in DOMAIN subject[2] :
      LET v == subject[2][i]
      IN /\ V!write_query_value(<<7>>, v) = <<7>> \o V!format_query_value(v)
         /\ V!write_csv_value(<<7>>, v) = <<7>> \o V!format_csv_value(v)

\* Every way of printing a row prints its values, so that a reader of CSV gets them
\* back (format.rs).
RowsPrinted == [][CsvReadsBack /\ BufferedRenderersAgree]_subject
=============================================================================
