---------------------------- MODULE ParquetFormat ----------------------------
(***************************************************************************)
(* What the Parquet reader promises: it returns what a reference writer    *)
(* wrote, at every layer from the varints to whole nested files.           *)
(***************************************************************************)
EXTENDS RowFormats

CONSTANTS
  ThriftStructs,  \* sequences of <<field id, value>>
  LevelRuns,      \* <<values, bit width, style of the writer>>
  DeltaRuns,      \* sequences of 64-bit integers
  Texts,          \* sequences of bytes that are compressed
  Decimals,       \* <<unscaled value, scale>>
  NotUtf8,        \* sequences of bytes that are no text
  FlatColumns,    \* [type, optional, codec, ways, pages, len, conv, scale]: pages of cells
  NestedFiles     \* <<a field of a schema, pages of its values>>

Q == INSTANCE ParquetFile
W == INSTANCE ParquetWriter

ParquetSubjects ==
  ({"thrift"} \X ThriftStructs) \cup ({"levels"} \X LevelRuns) \cup ({"delta"} \X DeltaRuns)
  \cup ({"snappy"} \X Texts) \cup ({"decimal"} \X Decimals) \cup ({"flat"} \X FlatColumns)
  \cup ({"nested"} \X NestedFiles)

\* A struct decodes to the fields that were written, however their ids jump, with
\* booleans in the types of fields and in the bytes of elements, and stops at its own
\* end; no proper prefix of it decodes.
ThriftReadsBack ==
  subject[1] = "thrift" =>
    LET b == W!Fields(subject[2], 0)
    IN /\ Q!decode_struct(b \o <<7>>) = Q!Ok(subject[2], Len(b))
       /\ \A n \in 0 .. Len(b) - 1 : ~Q!decode_struct(SubSeq(b, 1, n)).ok

\* Levels and dictionary indices decode to what was written, as runs, as packed
\* groups that are cut in their padding, or as both, at every width.
LevelsReadBack ==
  subject[1] = "levels" =>
    LET vals == subject[2][1]
        w    == subject[2][2]
    IN Q!decode_hybrid_rle_bitpacked(W!Hybrid(vals, w, subject[2][3]), w, Len(vals)).v = vals

\* Deltas decode to the 64-bit integers that were written, also where a delta wraps or
\* takes all 64 bits, and where the last block ends in a miniblock that is not full or
\* in miniblocks that have no bytes.
DeltaReadsBack ==
  subject[1] = "delta" =>
    \A shape \in {<<1, 8>>, <<2, 4>>, <<4, 2>>} :
      LET r == Q!decode_delta_binary_packed(W!Delta(subject[2], shape[1], shape[2]))
      IN r.ok /\ r.v = subject[2]

\* A block decompresses to its bytes with each of the three forms of a copy, also
\* when the copy reads bytes that it writes itself; a cut block is refused.
SnappyReadsBack ==
  subject[1] = "snappy" =>
    \A kind \in 1 .. 3 :
      LET b == W!Snappy(subject[2], kind)
          size == Len(subject[2])
          r == Q!decompress("Snappy", b, size)
      IN /\ r.ok /\ r.v = subject[2]
         /\ \A n \in 0 .. Len(b) - 1 : ~Q!decompress("Snappy", SubSeq(b, 1, n), size).ok

\* The size that a page header declares is compared with the length that the page
\* has after decompression (the doc of decompress in compression/mod.rs).
DeclaredSizeChecked ==
  [][subject[1] = "snappy" =>
       ~Q!decompress("Snappy", W!Snappy(subject[2], 2), Len(subject[2]) + 1).ok]_subject

RECURSIVE Number(_)
Number(digits) == IF digits = << >> THEN 0 ELSE Number(Front(digits)) * 10 + Last(digits)

\* A decimal prints as the number it is: with as many digits after the point as its
\* scale says, zeros and the sign of a value below one included.
DecimalShown ==
  subject[1] = "decimal" =>
    LET n == subject[2][1]
        scale == subject[2][2]
        d == Q!decimal_fmt(n, scale)
        zeros == IF scale < 0 THEN 10 ^ (-scale) ELSE 1
    IN /\ Len(d.frac) = Max({0, scale})
       /\ Number(d.whole \o d.frac) = (IF n < 0 THEN -n ELSE n) * zeros
       /\ d.sign = (n < 0) /\ d.whole # << >> /\ (Len(d.whole) > 1 => d.whole[1] # 0)

-----------------------------------------------------------------------------
(* Flat files: the column under check between two others, in two groups.   *)

Leaf(name, rep, type) ==
  [name |-> name, rep |-> rep, type |-> type, kids |-> << >>, conv |-> << >>, len |-> << >>, scale |-> << >>]

Flat(max, cells) ==
  [i \in DOMAIN cells |-> [rep |-> 0, def |-> IF cells[i] = << >> THEN 0 ELSE max, v |-> cells[i]]]

Numbered(n) == [i \in 1 .. n |-> <<i>>]

\* The cells of a column of timestamps are instants, [day, sec, micro, nano] after the
\* epoch.  n units and more, as a 64-bit integer:
Timed(c) == c.type = "Int96" \/ c.conv \in {<<9>>, <<10>>}
Total(n, unit, more) == Q!Add64(Q!Mul64(Q!Word(n), Q!Word(unit)), Q!Word(more))
Seconds(v) == v.day * 86400 + v.sec

\* What a writer stores for a cell: milliseconds, microseconds, or a Julian day and
\* nanoseconds; other cells as they are.
Physical(c, v) ==
  CASE c.type = "Int96" -> [julian_day |-> v.day + 2440588,
                            time_nanos |-> Total(v.sec, 1000000000, v.micro * 1000 + v.nano)]
    [] c.conv = <<9>>  -> Total(Seconds(v), 1000, v.micro \div 1000)
    [] c.conv = <<10>> -> Total(Seconds(v), 1000000, v.micro)
    [] OTHER -> v

PhysicalPages(c) ==
  [p \in DOMAIN c.pages |-> [i \in DOMAIN c.pages[p] |->
     IF c.pages[p][i] = << >> THEN << >> ELSE <<Physical(c, c.pages[p][i][1])>>]]

FlatFile(c) ==
  LET max == IF c.optional THEN 1 ELSE 0
      node == [Leaf(<<99>>, IF c.optional THEN "Optional" ELSE "Required", c.type)
               EXCEPT !.conv = c.conv, !.len = c.len, !.scale = c.scale]
      col(type, codec, m) == [type |-> type, codec |-> codec, max_rep |-> 0, max_def |-> m]
      chunk(k, pages, ways) ==
        [c |-> k, chunk |-> W!Chunk(k, [p \in DOMAIN pages |-> Flat(k.max_def, pages[p])], ways)]
      n == Len(FlattenSeq(c.pages))
      side(cells) == chunk(col("Int32", 0, 0), <<cells>>, <<"plain">>)
      main(pages, ways) == chunk(col(c.type, c.codec, max), pages, ways)
  IN W!File(<<Leaf(<<97>>, "Required", "Int32"), node, Leaf(<<98>>, "Required", "Int32")>>,
            <<[rows |-> 0, chunks |-> <<side(<< >>), main(<< >>, << >>), side(<< >>)>>],
              [rows |-> n, chunks |-> <<side(Numbered(n)), main(PhysicalPages(c), c.ways), side(Numbered(n))>>]>>)

\* A column of a flat file reads back cell by cell over its pages, whatever their
\* encodings and the codec, and so do the columns around it; where it is dictionary-
\* encoded throughout, its raw indices resolve to the same cells; and the nested
\* reader agrees wherever it reads such a column.  A text that is not UTF-8 fails the
\* column, and is never returned or replaced.
FlatReadsBack ==
  subject[1] = "flat" =>
    LET c == subject[2]
        f == Q!open(FlatFile(c)).v
        cells == FlattenSeq(PhysicalPages(c))
        text == \A i \in DOMAIN cells : cells[i] = << >> \/ c.type # "ByteArray" \/ cells[i][1] \notin NotUtf8
        plain == \A p \in DOMAIN c.pages :
                   c.ways[p] = "plain" /\ (c.type \in {"Int96", "FixedLenByteArray"} =>
                                             \A i \in DOMAIN c.pages[p] : c.pages[p][i] = << >>)
        read == Q!read_column(f, 2, 2, c.type)
        idx == Q!read_column_dictionary_indices(f, 2, 2, c.type)
        nested == Q!read_nested_column(f, 2, <<99>>)
    IN /\ f.is_flat
       /\ IF text THEN read.ok /\ read.v = cells ELSE read = Q!Err("InvalidUtf8")
       /\ Q!read_column(f, 1, 2, c.type).v = << >>
       /\ \A k \in {1, 3} : Q!read_column(f, 2, k, "Int32").v = Numbered(Len(cells))
       /\ text => idx.ok
       /\ text => (idx.v # << >>) = (c.ways # << >> /\ \A p \in DOMAIN c.ways : c.ways[p] = "dict")
       /\ text /\ idx.v # << >> =>
            cells = [i \in DOMAIN idx.v[2] |->
                       IF idx.v[2][i] = << >> THEN << >> ELSE <<idx.v[1][idx.v[2][i][1] + 1]>>]
       /\ nested.ok => nested.v = [i \in DOMAIN cells |-> Q!FromCell(cells[i])]
       /\ nested.ok = (plain /\ text)

\* Timestamps come out as the microseconds from the epoch to the instant they are, before
\* it too, whether they were stored as milliseconds, microseconds or a Julian day and
\* nanoseconds; and a decimal as the same signed integer whether its column holds
\* integers or big-endian bytes.
LogicalTypesRead ==
  subject[1] = "flat" =>
    LET c == subject[2]
        f == Q!open(FlatFile(c)).v
        cells == FlattenSeq(c.pages)
        times == Q!read_timestamp_column(f, 2, 2)
        decs  == Q!read_decimal_column(f, 2, 2)
        time(v) == IF Timed(c) THEN Total(Seconds(v), 1000000, v.micro) ELSE v
        same(n, v) == CASE c.type = "FixedLenByteArray" -> v = Reverse(W!Little(n, Len(v))) /\ (n < 0) = (v[1] >= 128)
                        [] c.type = "Int64" -> v = W!Little(n, 8)
                        [] OTHER -> n = v
    IN /\ times.ok = (c.type \in {"Int64", "Int96"})
       /\ times.ok => times.v = [i \in DOMAIN cells |->
                                   IF cells[i] = << >> THEN << >> ELSE <<time(cells[i][1])>>]
       /\ decs.ok = (c.scale # << >> /\ c.type \in {"Int32", "Int64", "FixedLenByteArray"})
       /\ decs.ok => /\ Len(decs.v) = Len(cells)
                     /\ \A i \in DOMAIN cells :
                          /\ (cells[i] = << >>) = (decs.v[i] = << >>)
                          /\ cells[i] # << >> => same(decs.v[i][1].unscaled, cells[i][1])
                                                 /\ decs.v[i][1].scale = c.scale[1]

-----------------------------------------------------------------------------
(* Nested files.  The value of a node is an Option where it is optional, a *)
(* sequence where it is repeated, and in itself a scalar or the values of  *)
(* its children.                                                           *)

RECURSIVE LeavesOf(_), Shred(_, _, _, _, _), Present(_, _, _, _, _)
LeavesOf(n) == IF n.kids = << >> THEN <<n>> ELSE FlattenSeq([k \in DOMAIN n.kids |-> LeavesOf(n.kids[k])])

\* The entries of every leaf below n: one entry that ends at level d.
Ended(n, r, d) == [k \in DOMAIN LeavesOf(n) |-> <<[rep |-> r, def |-> d, v |-> << >>]>>]

\* The entries of a present value of n.
Present(n, val, r, d, depth) ==
  IF n.kids = << >> THEN << <<[rep |-> r, def |-> d, v |-> <<val>>]>> >>
  ELSE FlattenSeq([k \in DOMAIN n.kids |-> Shred(n.kids[k], val[k], r, d, depth)])

Shred(n, val, r, d, depth) ==
  CASE n.rep = "Required" -> Present(n, val, r, d, depth)
    [] n.rep = "Optional" -> IF val = << >> THEN Ended(n, r, d) ELSE Present(n, val[1], r, d + 1, depth)
    [] n.rep = "Repeated" ->
         IF val = << >> THEN Ended(n, r, d)
         ELSE [k \in DOMAIN LeavesOf(n) |->
                 FlattenSeq([i \in DOMAIN val |->
                   Present(n, val[i], IF i = 1 THEN r ELSE depth + 1, d + 1, depth + 1)[k]])]

RECURSIVE Levels(_, _, _)
\* The levels of the leaves below n, <<repetition, definition>>.
Levels(n, r, d) ==
  LET r1 == IF n.rep = "Repeated" THEN r + 1 ELSE r
      d1 == IF n.rep = "Required" THEN d ELSE d + 1
  IN IF n.kids = << >> THEN << <<r1, d1>> >>
     ELSE FlattenSeq([k \in DOMAIN n.kids |-> Levels(n.kids[k], r1, d1)])

NestedFile(field, pages) ==
  LET leaves == LeavesOf(field)
      levels == Levels(field, 0, 0)
      col(k) == [type |-> leaves[k].type, codec |-> 1, max_rep |-> levels[k][1], max_def |-> levels[k][2]]
      page(p, k) == FlattenSeq([i \in DOMAIN pages[p] |-> Shred(field, pages[p][i], 0, 0, 0)[k]])
      chunk(k) == [c |-> col(k),
                   chunk |-> W!Chunk(col(k), [p \in DOMAIN pages |-> page(p, k)],
                                     [p \in DOMAIN pages |-> "plain"])]
  IN W!File(<<field>>, <<[rows |-> Len(FlattenSeq(pages)),
                            chunks |-> [k \in DOMAIN leaves |-> chunk(k)]]>>)

RECURSIVE Tree(_, _)
\* The value that a row stands for.
Tree(n, val) ==
  LET items(of, vals) == Q!List([i \in DOMAIN vals |-> Tree(of, vals[i])])
      in(v) == IF n.kids = << >> THEN Q!Scalar(v)
               ELSE IF n.conv = <<1>>
               THEN Q!List([i \in DOMAIN v[1] |->
                      Q!Struct(<< <<"key", Tree(n.kids[1].kids[1], v[1][i][1])>>,
                                  <<"value", Tree(n.kids[1].kids[2], v[1][i][2])>> >>)])
               ELSE IF Len(n.kids) = 1 /\ n.kids[1].rep = "Repeated"
               THEN IF n.kids[1].kids = << >>
                    THEN items([n.kids[1] EXCEPT !.rep = "Required"], v[1])
                    ELSE items(n.kids[1].kids[1], [i \in DOMAIN v[1] |-> v[1][i][1]])
               ELSE Q!Struct([k \in DOMAIN n.kids |-> <<n.kids[k].name, Tree(n.kids[k], v[k])>>])
  IN IF n.rep = "Optional" THEN IF val = << >> THEN Q!Null ELSE in(val[1]) ELSE in(val)

\* A struct, a list of either form or a map reads back row by row over its pages: a
\* missing one, an empty one, a missing element and a missing member are told apart.
NestedReadsBack ==
  subject[1] = "nested" =>
    LET field == subject[2][1]
        pages == subject[2][2]
        f == Q!open(NestedFile(field, pages)).v
        rows == FlattenSeq(pages)
        read == Q!read_nested_column(f, 1, field.name)
    IN /\ ~f.is_flat
       /\ read.ok /\ read.v = [i \in DOMAIN rows |-> Tree(field, rows[i])]

\* The reader gives back what was written into a file, from its varints and levels to
\* nested rows (thrift.rs, encoding.rs, snappy.rs, decimal.rs, parquet_file.rs, nested.rs).
ParquetReadsBack ==
  [][/\ ThriftReadsBack /\ LevelsReadBack /\ DeltaReadsBack /\ SnappyReadsBack /\ DecimalShown
     /\ FlatReadsBack /\ LogicalTypesRead /\ NestedReadsBack]_subject
=============================================================================
