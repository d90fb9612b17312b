---------------------------- MODULE ParquetRead ----------------------------
(***************************************************************************)
(* Reading a Parquet file (footer.rs, page.rs, schema_tree.rs, reader.rs,  *)
(* nested.rs, parquet_file.rs).  An Option is a sequence of at most one    *)
(* element; names are sequences of bytes.                                  *)
(***************************************************************************)
EXTENDS ParquetEncoding

None == << >>
Or(option, default) == IF option = None THEN default ELSE option[1]

\* String::from_utf8; a string stays the sequence of its bytes.
T == INSTANCE Records
from_utf8(bytes) == IF T!decode_text(bytes, "Utf8").ok THEN Ok(bytes, 0) ELSE Err("InvalidUtf8")

-----------------------------------------------------------------------------
(* Thrift values as fields.                                                *)

Get(fields, id) ==
  LET hit == {i \in DOMAIN fields : fields[i][1] = id}
  IN IF hit = {} THEN None ELSE <<fields[Min(hit)][2]>>

field(value, id) == IF value.t = "struct" THEN Get(value.v, id) ELSE None

as_i32(option) ==
  IF option # None /\ option[1].t \in {"i16", "i32", "i64", "byte"} THEN <<option[1].v>> ELSE None
as_i64(option)  == as_i32(option)
as_str(option)  ==
  IF option # None /\ option[1].t = "binary" /\ from_utf8(option[1].v).ok THEN <<option[1].v>> ELSE None
as_list(option) == IF option # None /\ option[1].t = "list" THEN option[1].v ELSE << >>

\* The names that a number of parquet.thrift's enums stands for.
Named(option, names) ==
  IF option = None THEN None
  ELSE IF option[1] \in DOMAIN names THEN <<names[option[1]]>> ELSE <<"Other">>

PhysicalType == [n \in 0 .. 7 |-> <<"Boolean", "Int32", "Int64", "Int96", "Float", "Double",
                                    "ByteArray", "FixedLenByteArray">>[n + 1]]
Repetition   == [n \in 0 .. 2 |-> <<"Required", "Optional", "Repeated">>[n + 1]]
ConvertedType == [n \in {1, 5, 9, 10} |-> CASE n = 1 -> "Map" [] n = 5 -> "Decimal"
                                            [] n = 9 -> "TimestampMillis" [] OTHER -> "TimestampMicros"]
Codec    == [n \in {0, 1, 6} |-> CASE n = 0 -> "Uncompressed" [] n = 1 -> "Snappy" [] OTHER -> "Zstd"]
Encoding == [n \in {0, 2, 3, 5, 8} |->
               CASE n = 0 -> "Plain" [] n = 2 -> "PlainDictionary" [] n = 3 -> "Rle"
                 [] n = 5 -> "DeltaBinaryPacked" [] OTHER -> "RleDictionary"]

-----------------------------------------------------------------------------
(* The footer.                                                             *)

FOOTER_LEN == 8
MAGIC == <<80, 65, 82, 49>>

parse_schema_element(v) ==
  [name |-> Or(as_str(field(v, 4)), << >>),
   physical_type |-> Named(as_i32(field(v, 1)), PhysicalType),
   repetition    |-> Named(as_i32(field(v, 3)), Repetition),
   num_children  |-> as_i32(field(v, 5)),
   type_length   |-> as_i32(field(v, 2)),
   converted_type |-> Named(as_i32(field(v, 6)), ConvertedType),
   scale |-> as_i32(field(v, 7)), precision |-> as_i32(field(v, 8))]

parse_column_meta_data(v) ==
  [physical_type |-> Or(Named(as_i32(field(v, 1)), PhysicalType), "Other"),
   codec |-> Or(Named(as_i32(field(v, 4)), Codec), "Uncompressed"),
   num_values |-> Or(as_i64(field(v, 5)), 0),
   total_compressed_size |-> Or(as_i64(field(v, 7)), 0),
   data_page_offset |-> Or(as_i64(field(v, 9)), 0),
   dictionary_page_offset |-> as_i64(field(v, 11))]

\* A column chunk is its metadata, when it has some.
parse_column_chunk(v) ==
  LET m == field(v, 3) IN IF m = None THEN None ELSE <<parse_column_meta_data(m[1])>>

parse_row_group(v) ==
  LET cols == as_list(field(v, 1))
  IN [columns |-> [i \in DOMAIN cols |-> parse_column_chunk(cols[i])],
      num_rows |-> Or(as_i64(field(v, 3)), 0)]

parse_file_meta_data(fields) ==
  LET schema == as_list(Get(fields, 2))
      groups == as_list(Get(fields, 4))
  IN [schema |-> [i \in DOMAIN schema |-> parse_schema_element(schema[i])],
      num_rows |-> Or(as_i64(Get(fields, 3)), 0),
      row_groups |-> [i \in DOMAIN groups |-> parse_row_group(groups[i])]]

parse_footer(file) ==
  LET len == LittleEndian(SubSeq(file, Len(file) - 7, Len(file) - 4))
      end == Len(file) - FOOTER_LEN
      r   == decode_struct(SubSeq(file, end - len + 1, end))
  IN IF Len(file) < FOOTER_LEN THEN Err("FileTooShort")
     ELSE IF SubSeq(file, Len(file) - 3, Len(file)) # MAGIC THEN Err("BadMagic")
     ELSE IF len > end THEN Err("FileTooShort")
     ELSE IF ~r.ok THEN r ELSE Ok(parse_file_meta_data(r.v), r.pos)

-----------------------------------------------------------------------------
(* The schema tree and the levels of its leaves.                           *)

RECURSIVE build_node(_, _, _, _, _)
\* The subtree whose root is schema[idx], and the index after it.
build_node(schema, idx, def, rep, is_root) ==
  LET e  == schema[idx]
      d  == IF is_root THEN 0 ELSE def + (IF e.repetition # <<"Required">> THEN 1 ELSE 0)
      r  == IF is_root THEN 0 ELSE rep + (IF e.repetition = <<"Repeated">> THEN 1 ELSE 0)
      kids == FoldLeft(LAMBDA acc, k : LET c == build_node(schema, acc.idx, d, r, FALSE)
                                       IN [idx |-> c.idx, nodes |-> Append(acc.nodes, c.node)],
                       [idx |-> idx + 1, nodes |-> << >>], [k \in 1 .. Or(e.num_children, 0) |-> k])
  IN [idx |-> kids.idx,
      node |-> [name |-> e.name, element |-> e, children |-> kids.nodes,
                max_def_level |-> d, max_rep_level |-> r]]

build_schema_tree(schema) == build_node(schema, 1, 0, 0, TRUE).node

is_leaf(node) == node.children = << >>
Dot(path, name) == path \o <<46>> \o name

RECURSIVE collect_leaves(_), collect_paths(_, _)
collect_leaves(node) ==
  IF is_leaf(node) THEN <<node>>
  ELSE FlattenSeq([i \in DOMAIN node.children |-> collect_leaves(node.children[i])])

collect_paths(node, path) ==
  IF is_leaf(node) THEN <<path>>
  ELSE FlattenSeq([i \in DOMAIN node.children |->
                     collect_paths(node.children[i], Dot(path, node.children[i].name))])

leaf_paths(root) ==
  FlattenSeq([i \in DOMAIN root.children |->
                collect_paths(root.children[i], root.children[i].name)])

-----------------------------------------------------------------------------
(* Page headers.                                                           *)

EncodingOf(v, id) == Or(Named(as_i32(field(v, id)), Encoding), "Other")

decode_page_header(buf) ==
  LET r    == decode_struct(buf)
      num(id) == Or(as_i32(Get(r.v, id)), 0)
      kind == Or(as_i32(Get(r.v, 1)), -1)
      data == Get(r.v, 5)
      dict == Get(r.v, 7)
      head(type, h) == Ok([type |-> type, uncompressed_page_size |-> num(2),
                           compressed_page_size |-> num(3),
                           num_values |-> Or(as_i32(field(h, 1)), 0),
                           encoding |-> EncodingOf(h, 2)], r.pos)
  IN IF ~r.ok THEN r
     ELSE CASE kind = 0 -> IF data = None THEN Err("MissingDataPageHeader") ELSE head("Data", data[1])
            [] kind = 2 -> IF dict = None THEN Err("MissingDataPageHeader") ELSE head("Dictionary", dict[1])
            [] OTHER -> Err("UnsupportedPageType")

-----------------------------------------------------------------------------
(* The values of a page.                                                   *)

\* A level section: its length in four bytes, then that many bytes of levels.
read_level_section(buf, pos, max, n) ==
  LET len  == Slice(buf, pos, 4)
      raw  == Slice(buf, pos + 4, LittleEndian(len.v))
      lev  == decode_hybrid_rle_bitpacked(raw.v, bit_width_for_max_level(max), n)
  IN IF ~len.ok THEN len ELSE IF ~raw.ok THEN raw ELSE IF ~lev.ok THEN lev ELSE Ok(lev.v, raw.pos)

Section(buf, pos, max, n) == IF max = 0 THEN Ok(<< >>, pos) ELSE read_level_section(buf, pos, max, n)

split_definition_levels(body, h, max) == Section(body, 0, max, h.num_values)

\* Repetition levels, then definition levels: v is the two of them.
split_rep_def_levels(body, h, max_rep, max_def) ==
  LET rep == Section(body, 0, max_rep, h.num_values)
      def == Section(body, rep.pos, max_def, h.num_values)
  IN IF ~rep.ok THEN rep ELSE IF ~def.ok THEN def ELSE Ok(<<rep.v, def.v>>, def.pos)

Signed(bytes) ==
  IF Last(bytes) < 128 THEN LittleEndian(bytes)
  ELSE -LittleEndian([i \in DOMAIN bytes |-> 255 - bytes[i]]) - 1

Map(r, Op(_)) == IF r.ok THEN Ok(Op(r.v), r.pos) ELSE r

read_plain_i32(buf, pos) == Map(Slice(buf, pos, 4), Signed)
read_plain_i64(buf, pos) == Slice(buf, pos, 8)
read_plain_f32(buf, pos) == Slice(buf, pos, 4)
read_plain_f64(buf, pos) == Slice(buf, pos, 8)
read_plain_fixed_len_byte_array(buf, pos, len) == Slice(buf, pos, len)

\* read_plain_string that takes whatever bytes there are.
read_plain_string_Bytes(buf, pos) ==
  LET len == Slice(buf, pos, 4) IN IF len.ok THEN Slice(buf, len.pos, LittleEndian(len.v)) ELSE len

read_plain_string(buf, pos) ==
  LET len   == Slice(buf, pos, 4)
      bytes == Slice(buf, len.pos, LittleEndian(len.v))
  IN IF ~len.ok THEN len ELSE IF ~bytes.ok THEN bytes
     ELSE IF from_utf8(bytes.v).ok THEN bytes ELSE Err("InvalidUtf8")

read_plain_int96(buf, pos) ==
  LET nanos == Slice(buf, pos, 8)
      day   == Slice(buf, pos + 8, 4)
  IN IF ~nanos.ok THEN nanos ELSE IF ~day.ok THEN day
     ELSE Ok([julian_day |-> Signed(day.v), time_nanos |-> nanos.v], day.pos)

\* The bit after the first bit ones, counted from pos: the flat readers' booleans.
read_bit(buf, pos, bit) ==
  IF pos + (bit \div 8) >= Len(buf) THEN Err("UnexpectedEof")
  ELSE Ok(Bit(buf[pos + (bit \div 8) + 1], bit % 8) = 1, pos)

\* A scalar of a nested column; pos moves on after every eighth boolean.
read_plain_scalar(buf, pos, type, bit) ==
  CASE type = "Int32" -> read_plain_i32(buf, pos)
    [] type = "Int64" -> read_plain_i64(buf, pos)
    [] type = "Float" -> read_plain_f32(buf, pos)
    [] type = "Double" -> read_plain_f64(buf, pos)
    [] type = "ByteArray" -> read_plain_string(buf, pos)
    [] type = "Boolean" -> IF pos >= Len(buf) THEN Err("UnexpectedEof")
                           ELSE Ok(Bit(buf[pos + 1], bit % 8) = 1,
                                   IF (bit + 1) % 8 = 0 THEN pos + 1 ELSE pos)
    [] OTHER -> Err("UnsupportedNestedPhysicalType")

\* Which slots of a page hold a value.
Presents(h, levels, max) ==
  IF levels = << >> THEN [i \in 1 .. h.num_values |-> TRUE] ELSE null_mask(levels, max)

\* One value for every present slot, from a reader: a function of the position and
\* of the number of values before it.
assemble(present, pos, read) ==
  FoldLeft(LAMBDA r, p :
             IF ~r.ok THEN r
             ELSE IF ~p THEN [r EXCEPT !.v = Append(@, None)]
             ELSE LET x == read[r.pos, r.n]
                  IN IF ~x.ok THEN x
                     ELSE [ok |-> TRUE, v |-> Append(r.v, <<x.v>>), pos |-> x.pos, n |-> r.n + 1],
           [ok |-> TRUE, v |-> << >>, pos |-> pos, n |-> 0], present)

\* The slots that are present take the values in order; there may be too few.
Spread(present, values) ==
  assemble(present, 0, [p, n \in Nat |-> IF n < Len(values) THEN Ok(values[n + 1], p)
                                         ELSE Err("UnexpectedEof")])

plain_column(body, h, max, read) ==
  LET s == split_definition_levels(body, h, max)
  IN IF h.num_values = 0 THEN Ok(<< >>, 0) ELSE IF ~s.ok THEN s
     ELSE assemble(Presents(h, s.v, max), s.pos, read)

read_double_column(body, h, max) == plain_column(body, h, max, [p, n \in Nat |-> read_plain_f64(body, p)])
read_string_column(body, h, max) == plain_column(body, h, max, [p, n \in Nat |-> read_plain_string(body, p)])
read_int32_column(body, h, max)  == plain_column(body, h, max, [p, n \in Nat |-> read_plain_i32(body, p)])
read_float_column(body, h, max)  == plain_column(body, h, max, [p, n \in Nat |-> read_plain_f32(body, p)])
read_int96_column(body, h, max)  == plain_column(body, h, max, [p, n \in Nat |-> read_plain_int96(body, p)])
read_boolean_column(body, h, max) == plain_column(body, h, max, [p, n \in Nat |-> read_bit(body, p, n)])
read_fixed_len_byte_array_column(body, h, max, len) ==
  plain_column(body, h, max, [p, n \in Nat |-> read_plain_fixed_len_byte_array(body, p, len)])

read_int64_column(body, h, max) ==
  LET s == split_definition_levels(body, h, max)
      d == decode_delta_binary_packed(SubSeq(body, s.pos + 1, Len(body)))
  IN IF h.num_values # 0 /\ s.ok /\ h.encoding = "DeltaBinaryPacked"
     THEN IF d.ok THEN Spread(Presents(h, s.v, max), d.v) ELSE d
     ELSE plain_column(body, h, max, [p, n \in Nat |-> read_plain_i64(body, p)])

decode_plain(type, len, body, h, max) ==
  CASE type = "Int64" -> read_int64_column(body, h, max)
    [] type = "Double" -> read_double_column(body, h, max)
    [] type = "Boolean" -> read_boolean_column(body, h, max)
    [] type = "ByteArray" -> read_string_column(body, h, max)
    [] type = "Int32" -> read_int32_column(body, h, max)
    [] type = "Float" -> read_float_column(body, h, max)
    [] type = "Int96" -> read_int96_column(body, h, max)
    [] type = "FixedLenByteArray" -> read_fixed_len_byte_array_column(body, h, max, len)

-----------------------------------------------------------------------------
(* Dictionaries.                                                           *)

\* The n entries of a dictionary page: the values of a page without nulls.
decode_dictionary(type, len, body, n) ==
  LET r == decode_plain(type, len, body, [num_values |-> n, encoding |-> "Plain"], 0)
  IN IF r.ok THEN Ok([i \in DOMAIN r.v |-> r.v[i][1]], r.pos) ELSE r

read_dictionary_indices(body, pos, n) ==
  IF pos >= Len(body) THEN Err("UnexpectedEof")
  ELSE decode_hybrid_rle_bitpacked(SubSeq(body, pos + 2, Len(body)), body[pos + 1], n)

present_count(h, levels, max) == Len(SelectSeq(Presents(h, levels, max), LAMBDA p : p))

read_dictionary_index_column(body, h, max) ==
  LET s == split_definition_levels(body, h, max)
      x == read_dictionary_indices(body, s.pos, present_count(h, s.v, max))
  IN IF h.num_values = 0 THEN Ok(<< >>, 0) ELSE IF ~s.ok THEN s ELSE IF ~x.ok THEN x
     ELSE Spread(Presents(h, s.v, max), x.v)

\* An index past the dictionary is an error of the page.
assemble_dictionary(present, indices, dict) ==
  assemble(present, 0, [p, n \in Nat |->
    IF n >= Len(indices) THEN Err("UnexpectedEof")
    ELSE IF indices[n + 1] >= Len(dict) THEN Err("DictionaryIndexOutOfRange")
    ELSE Ok(dict[indices[n + 1] + 1], p)])

\* read_int64_column_dictionary and the readers of the other types.
read_column_dictionary(body, h, max, dict) ==
  LET s == split_definition_levels(body, h, max)
      x == read_dictionary_indices(body, s.pos, present_count(h, s.v, max))
  IN IF h.num_values = 0 THEN Ok(<< >>, 0) ELSE IF ~s.ok THEN s ELSE IF ~x.ok THEN x
     ELSE assemble_dictionary(Presents(h, s.v, max), x.v, dict)
=============================================================================
