----------------------------- MODULE ParquetFile -----------------------------
(***************************************************************************)
(* An open Parquet file (parquet_file.rs): its flat columns, chunk by      *)
(* chunk and page by page, and its nested fields, put together from the    *)
(* levels of their leaves (nested.rs).  Columns and row groups count       *)
(* from 1.                                                                 *)
(***************************************************************************)
EXTENDS ParquetRead, TLC

is_flat_schema(schema) ==
  \/ schema = << >>
  \/ /\ Len(schema) = Or(schema[1].num_children, 0) + 1
     /\ \A i \in 2 .. Len(schema) :
          schema[i].physical_type # None /\ schema[i].repetition # <<"Repeated">>

open(data) ==
  LET m == parse_footer(data)
  IN IF ~m.ok THEN m
     ELSE Ok([metadata |-> m.v, data |-> data, is_flat |-> is_flat_schema(m.v.schema),
              schema_tree |-> build_schema_tree(m.v.schema)], 0)

\* The schema element of a flat column; the first element is the root.
Element(f, c, attribute) ==
  IF c + 1 > Len(f.metadata.schema) THEN None ELSE f.metadata.schema[c + 1][attribute]

max_definition_level(f, c) == IF Element(f, c, "repetition") = <<"Optional">> THEN 1 ELSE 0
type_length(f, c)    == Element(f, c, "type_length")
converted_type(f, c) == Element(f, c, "converted_type")
decimal_scale(f, c)  == Element(f, c, "scale")

column_meta(f, g, c) ==
  LET cols == f.metadata.row_groups[g].columns
  IN IF c > Len(cols) THEN Err("ColumnIndexOutOfRange")
     ELSE IF cols[c] = None THEN Err("MissingColumnMetadata") ELSE Ok(cols[c][1], 0)

\* column_chunk_bytes that counts the size from the first data page.
column_chunk_bytes_FromData(f, g, c) ==
  LET m == column_meta(f, g, c)
      start == Or(m.v.dictionary_page_offset, m.v.data_page_offset)
      end   == m.v.data_page_offset + m.v.total_compressed_size
  IN IF ~m.ok THEN m ELSE IF end > Len(f.data) THEN Err("ChunkOutOfBounds")
     ELSE Ok(SubSeq(f.data, start + 1, end), 0)

column_chunk_bytes(f, g, c) ==
  LET m == column_meta(f, g, c)
      start == Or(m.v.dictionary_page_offset, m.v.data_page_offset)
      end   == start + m.v.total_compressed_size
  IN IF ~m.ok THEN m ELSE IF end > Len(f.data) THEN Err("ChunkOutOfBounds")
     ELSE Ok(SubSeq(f.data, start + 1, end), 0)

\* The page at pos: its header, its body, and the position behind it.
Page(chunk, pos, codec) ==
  LET h    == decode_page_header(SubSeq(chunk, pos + 1, Len(chunk)))
      raw  == Slice(chunk, pos + h.pos, h.v.compressed_page_size)
      body == decompress(codec, raw.v, h.v.uncompressed_page_size)
  IN IF ~h.ok THEN h ELSE IF ~raw.ok THEN Err("ChunkOutOfBounds")
     ELSE [ok |-> TRUE, h |-> h.v, body |-> body, pos |-> raw.pos]

DictionaryEncoded(h) == h.encoding \in {"PlainDictionary", "RleDictionary"}

\* Every page of a chunk in turn: k is what the column needs, acc the dictionary
\* seen so far and the cells out.  A chunk has at most one dictionary.
RECURSIVE column_pages(_, _, _, _)
column_pages(chunk, pos, k, acc) ==
  LET p == Page(chunk, pos, k.codec)
      entries == decode_dictionary(k.type, k.len, p.body.v, p.h.num_values)
      values == IF DictionaryEncoded(p.h)
                THEN read_column_dictionary(p.body.v, p.h, k.max, acc.dict[1])
                ELSE decode_plain(k.type, k.len, p.body.v, p.h, k.max)
  IN IF pos >= Len(chunk) THEN Ok(acc.out, pos)
     ELSE IF ~p.ok THEN p
     ELSE IF p.h.type = "Dictionary" /\ acc.dict # None THEN Err("UnexpectedDictionaryPage")
     ELSE IF ~p.body.ok THEN p.body
     ELSE IF p.h.type = "Dictionary"
     THEN IF entries.ok THEN column_pages(chunk, p.pos, k, [acc EXCEPT !.dict = <<entries.v>>])
          ELSE entries
     ELSE IF DictionaryEncoded(p.h) /\ acc.dict = None THEN Err("MissingDictionaryPage")
     ELSE IF values.ok THEN column_pages(chunk, p.pos, k, [acc EXCEPT !.out = @ \o values.v])
     ELSE values

Wanted(f, g, c, type) ==
  [type |-> type, len |-> Or(type_length(f, c), 0), codec |-> column_meta(f, g, c).v.codec,
   max |-> max_definition_level(f, c)]

read_column(f, g, c, type) ==
  LET chunk == column_chunk_bytes(f, g, c)
  IN IF type = "FixedLenByteArray" /\ type_length(f, c) = None THEN Err("MissingTypeLength")
     ELSE IF ~chunk.ok THEN chunk
     ELSE column_pages(chunk.v, 0, Wanted(f, g, c, type), [dict |-> None, out |-> << >>])

\* The same walk that keeps indices; v is None when a page has none to keep.
RECURSIVE index_pages(_, _, _, _)
index_pages(chunk, pos, k, acc) ==
  LET p == Page(chunk, pos, k.codec)
      entries == decode_dictionary(k.type, k.len, p.body.v, p.h.num_values)
      indices == read_dictionary_index_column(p.body.v, p.h, k.max)
  IN IF pos >= Len(chunk) THEN Ok(IF acc.dict = None THEN None ELSE <<acc.dict[1], acc.out>>, pos)
     ELSE IF ~p.ok THEN p
     ELSE IF p.h.type = "Dictionary"
     THEN IF acc.dict # None THEN Err("UnexpectedDictionaryPage")
          ELSE IF ~p.body.ok THEN p.body
          ELSE IF entries.ok THEN index_pages(chunk, p.pos, k, [acc EXCEPT !.dict = <<entries.v>>])
          ELSE entries
     ELSE IF acc.dict = None \/ ~DictionaryEncoded(p.h) THEN Ok(None, pos)
     ELSE IF ~p.body.ok THEN p.body
     ELSE IF indices.ok THEN index_pages(chunk, p.pos, k, [acc EXCEPT !.out = @ \o indices.v])
     ELSE indices

read_column_dictionary_indices(f, g, c, type) ==
  LET chunk == column_chunk_bytes(f, g, c)
  IN IF ~chunk.ok THEN chunk
     ELSE index_pages(chunk.v, 0, Wanted(f, g, c, type), [dict |-> None, out |-> << >>])

-----------------------------------------------------------------------------
(* Columns with a logical type.                                            *)

Cells(r, Op(_)) ==
  IF ~r.ok THEN r
  ELSE Ok([i \in DOMAIN r.v |-> IF r.v[i] = None THEN None ELSE <<Op(r.v[i][1])>>], r.pos)

JULIAN_DAY_UNIX_EPOCH == 2440588

MicrosPerDay == Mul64(Word(86400), Word(1000000))

\* int96_to_epoch_micros that adds the nanoseconds as they are.
int96_to_epoch_micros_Nanos(v) ==
  Add64(Mul64(Word(v.julian_day - JULIAN_DAY_UNIX_EPOCH), MicrosPerDay), v.time_nanos)

int96_to_epoch_micros(v) ==
  Add64(Mul64(Word(v.julian_day - JULIAN_DAY_UNIX_EPOCH), MicrosPerDay), Div64(v.time_nanos, 1000))

read_timestamp_column(f, g, c) ==
  LET m == column_meta(f, g, c)
      millis == converted_type(f, c) = <<"TimestampMillis">>
  IN IF ~m.ok THEN m
     ELSE CASE m.v.physical_type = "Int64" ->
                 Cells(read_column(f, g, c, "Int64"),
                       LAMBDA v : IF millis THEN Mul64(v, Word(1000)) ELSE v)
            [] m.v.physical_type = "Int96" ->
                 Cells(read_column(f, g, c, "Int96"), int96_to_epoch_micros)
            [] OTHER -> Err("UnsupportedTimestampPhysicalType")

read_decimal_column(f, g, c) ==
  LET m == column_meta(f, g, c)
      scale == decimal_scale(f, c)
      type == m.v.physical_type
  IN IF scale = None THEN Err("MissingDecimalScale") ELSE IF ~m.ok THEN m
     ELSE IF type = "Int32"
     THEN Cells(read_column(f, g, c, type), LAMBDA v : [unscaled |-> v, scale |-> scale[1]])
     ELSE IF type = "Int64"
     THEN Cells(read_column(f, g, c, type), LAMBDA v : [unscaled |-> Signed(v), scale |-> scale[1]])
     ELSE IF type = "FixedLenByteArray"
     THEN Cells(read_column(f, g, c, type),
                LAMBDA b : [unscaled |-> from_be_bytes(b), scale |-> scale[1]])
     ELSE Err("UnsupportedDecimalPhysicalType")

-----------------------------------------------------------------------------
Null == [t |-> "null"]
Scalar(v) == [t |-> "scalar", v |-> v]
List(items) == [t |-> "list", v |-> items]
Struct(fields) == [t |-> "struct", v |-> fields]
FromCell(cell) == IF cell = None THEN Null ELSE Scalar(cell[1])

\* The levels and cells of a leaf, page by page; only PLAIN pages are read.
RECURSIVE leaf_pages(_, _, _, _, _)
leaf_pages(chunk, pos, codec, leaf, out) ==
  LET p == Page(chunk, pos, codec)
      s == split_rep_def_levels(p.body.v, p.h, leaf.max_rep_level, leaf.max_def_level)
      n == p.h.num_values
      type == leaf.element.physical_type[1]
      fill(levels, l) == IF levels = << >> THEN [i \in 1 .. n |-> l] ELSE levels
      def == fill(s.v[2], leaf.max_def_level)
      cells == assemble(null_mask(def, leaf.max_def_level), s.pos,
                        [q, k \in Nat |-> read_plain_scalar(p.body.v, q, type, k)])
  IN IF pos >= Len(chunk) THEN Ok(out, pos)
     ELSE IF ~p.ok THEN p
     ELSE IF p.h.type = "Dictionary" THEN Err("UnsupportedNestedDictionary")
     ELSE IF p.h.encoding # "Plain" THEN Err("UnsupportedNestedEncoding")
     ELSE IF ~p.body.ok THEN p.body ELSE IF ~s.ok THEN s ELSE IF ~cells.ok THEN cells
     ELSE leaf_pages(chunk, p.pos, codec, leaf,
                     [rep |-> out.rep \o fill(s.v[1], 0), def |-> out.def \o def,
                      values |-> out.values \o cells.v])

read_leaf_entries(f, g, c, leaf) ==
  LET m == column_meta(f, g, c)
      chunk == column_chunk_bytes(f, g, c)
  IN IF ~m.ok THEN m ELSE IF ~chunk.ok THEN chunk
     ELSE IF leaf.element.physical_type = None THEN Err("MissingColumnMetadata")
     ELSE leaf_pages(chunk.v, 0, m.v.codec, leaf, [rep |-> << >>, def |-> << >>, values |-> << >>])

-----------------------------------------------------------------------------

\* The rows of a repeated field from entry i on: null, empty, or the elements up to
\* the next entry that starts a row.
RECURSIVE repeated_rows(_, _, _, _, _, _)
repeated_rows(wrapper_def, repeated_def, rows, i, e, out) ==
  LET more == {j \in i + 1 .. Len(e.rep) : e.rep[j] = 0}
      next == IF more = {} THEN Len(e.rep) + 1 ELSE Min(more)
  IN IF rows = 0 THEN out
     ELSE IF e.def[i] < wrapper_def
     THEN repeated_rows(wrapper_def, repeated_def, rows - 1, i + 1, e, Append(out, Null))
     ELSE IF e.def[i] < repeated_def
     THEN repeated_rows(wrapper_def, repeated_def, rows - 1, i + 1, e, Append(out, List(<< >>)))
     ELSE repeated_rows(wrapper_def, repeated_def, rows - 1, next, e,
                        Append(out, List(SubSeq(e.items, i, next - 1))))

\* build_repeated that takes an empty list for a missing one.
build_repeated_NoEmpty(wrapper, repeated, rows, e, items) ==
  Ok(repeated_rows(repeated.max_def_level, repeated.max_def_level, rows, 1,
                   [rep |-> e.rep, def |-> e.def, items |-> items], << >>), 0)

build_repeated(wrapper, repeated, rows, e, items) ==
  Ok(repeated_rows(wrapper.max_def_level, repeated.max_def_level, rows, 1,
                   [rep |-> e.rep, def |-> e.def, items |-> items], << >>), 0)

is_map(node) == node.element.converted_type = <<"Map">> /\ Len(node.children) = 1

build_map_field(node, path, rows, leaves) ==
  LET kv == node.children[1]
      of(k) == Dot(Dot(path, kv.name), kv.children[k].name)
      keys == leaves[of(1)].values
      vals == leaves[of(2)].values
  IN IF Len(kv.children) # 2 \/ \E k \in 1 .. 2 : ~is_leaf(kv.children[k])
     THEN Err("UnsupportedMapShape")
     ELSE IF \E k \in 1 .. 2 : of(k) \notin DOMAIN leaves THEN Err("MissingLeafData")
     ELSE build_repeated(node, kv, rows, leaves[of(1)],
            [i \in DOMAIN keys |-> Struct(<< <<"key", FromCell(keys[i])>>,
                                             <<"value", FromCell(vals[i])>> >>)])

build_list_field(node, path, rows, leaves) ==
  LET repeated == node.children[1]
      element  == IF is_leaf(repeated) THEN repeated ELSE repeated.children[1]
      at == IF is_leaf(repeated) THEN Dot(path, repeated.name)
            ELSE Dot(Dot(path, repeated.name), element.name)
      e == leaves[at]
  IN IF ~is_leaf(element) THEN Err("UnsupportedListElement")
     ELSE IF at \notin DOMAIN leaves THEN Err("MissingLeafData")
     ELSE build_repeated(node, repeated, rows, e, [i \in DOMAIN e.values |-> FromCell(e.values[i])])

RECURSIVE first_leaf_path(_, _), build_field(_, _, _, _)
first_leaf_path(node, path) ==
  IF is_leaf(node) THEN path
  ELSE first_leaf_path(node.children[1], Dot(path, node.children[1].name))

\* A struct is null in the rows where its first leaf's level is below its own.
build_struct(node, path, rows, leaves) ==
  LET driver == first_leaf_path(node, path)
      kids == [k \in DOMAIN node.children |->
                 build_field(node.children[k], Dot(path, node.children[k].name), rows, leaves)]
      bad == {k \in DOMAIN kids : ~kids[k].ok}
  IN IF driver \notin DOMAIN leaves THEN Err("MissingLeafData")
     ELSE IF bad # {} THEN kids[Min(bad)]
     ELSE Ok([row \in 1 .. rows |->
                IF leaves[driver].def[row] < node.max_def_level THEN Null
                ELSE Struct([k \in DOMAIN kids |-> <<node.children[k].name, kids[k].v[row]>>])], 0)

build_field(node, path, rows, leaves) ==
  IF is_leaf(node)
  THEN IF path \notin DOMAIN leaves THEN Err("MissingLeafData")
       ELSE Ok([i \in DOMAIN leaves[path].values |-> FromCell(leaves[path].values[i])], 0)
  ELSE IF node.element.repetition = <<"Repeated">> THEN build_list_field(node, path, rows, leaves)
  ELSE IF is_map(node) THEN build_map_field(node, path, rows, leaves)
  ELSE IF Len(node.children) = 1 /\ node.children[1].element.repetition = <<"Repeated">>
  THEN build_list_field(node, path, rows, leaves)
  ELSE build_struct(node, path, rows, leaves)

\* All fields of the row group are put together before the one asked for is taken.
reconstruct_row_group(root, rows, leaves) ==
  LET cols == [k \in DOMAIN root.children |->
                 build_field(root.children[k], root.children[k].name, rows, leaves)]
      bad  == {k \in DOMAIN cols : ~cols[k].ok}
  IN IF bad # {} THEN cols[Min(bad)] ELSE Ok([k \in DOMAIN cols |-> cols[k].v], 0)

read_nested_column(f, g, name) ==
  LET root == f.schema_tree
      hits == {k \in DOMAIN root.children : root.children[k].name = name}
      nodes == collect_leaves(root)
      paths == leaf_paths(root)
      read == [c \in 1 .. Min({Len(nodes), Len(paths)}) |-> read_leaf_entries(f, g, c, nodes[c])]
      bad  == {c \in DOMAIN read : ~read[c].ok}
      leaves == FoldLeft(LAMBDA m, c : (paths[c] :> read[c].v) @@ m, << >>, [c \in DOMAIN read |-> c])
      cols == reconstruct_row_group(root, f.metadata.row_groups[g].num_rows, leaves)
  IN IF g > Len(f.metadata.row_groups) \/ hits = {} THEN Err("ColumnIndexOutOfRange")
     ELSE IF bad # {} THEN read[Min(bad)] ELSE IF ~cols.ok THEN cols
     ELSE Ok(cols.v[Min(hits)], 0)
=============================================================================
