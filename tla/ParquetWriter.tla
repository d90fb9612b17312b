---------------------------- MODULE ParquetWriter ----------------------------
(***************************************************************************)
(* A reference writer of Parquet files, from the format and not from any   *)
(* code: what the reader of ParquetFile is checked   against.              *)
(***************************************************************************)
EXTENDS Integers, Sequences, FiniteSets, SequencesExt, TLC

\* Only for the arithmetic of 64-bit integers.
E == INSTANCE ParquetEncoding

RECURSIVE Leb(_), Little(_, _)
Leb(n) == IF n < 128 THEN <<n>> ELSE <<128 + (n % 128)>> \o Leb(n \div 128)
Zig(n) == IF n >= 0 THEN 2 * n ELSE -2 * n - 1

\* n in so many bytes, in two's complement.
Little(n, bytes) == IF bytes = 0 THEN << >> ELSE <<n % 256>> \o Little(n \div 256, bytes - 1)

Flatten(f) == FlattenSeq(f)
Upto(n) == [i \in 1 .. n |-> i]

-----------------------------------------------------------------------------
(* Thrift.                                                                 *)

CType(v) == CASE v.t = "bool" -> IF v.v THEN 1 ELSE 2
              [] v.t = "byte" -> 3 [] v.t = "i16" -> 4 [] v.t = "i32" -> 5 [] v.t = "i64" -> 6
              [] v.t = "double" -> 7 [] v.t = "binary" -> 8 [] v.t = "list" -> 9
              [] v.t = "map" -> 11 [] v.t = "struct" -> 12

EType(v) == IF v.t = "bool" THEN 1 ELSE CType(v)

RECURSIVE Body(_), Fields(_, _)
\* A value that is not the boolean of a field.
Body(v) ==
  CASE v.t = "bool" -> <<IF v.v THEN 1 ELSE 0>>
    [] v.t = "byte" -> Little(v.v, 1)
    [] v.t \in {"i16", "i32", "i64"} -> Leb(Zig(v.v))
    [] v.t = "double" -> v.v
    [] v.t = "binary" -> Leb(Len(v.v)) \o v.v
    [] v.t = "list" ->
         LET n == Len(v.v)
             e == IF n = 0 THEN 5 ELSE EType(v.v[1])
         IN (IF n < 15 THEN <<n * 16 + e>> ELSE <<240 + e>> \o Leb(n))
            \o Flatten([i \in DOMAIN v.v |-> Body(v.v[i])])
    [] v.t = "map" ->
         IF v.v = << >> THEN <<0>>
         ELSE Leb(Len(v.v)) \o <<EType(v.v[1][1]) * 16 + EType(v.v[1][2])>>
              \o Flatten([i \in DOMAIN v.v |-> Body(v.v[i][1]) \o Body(v.v[i][2])])
    [] v.t = "struct" -> Fields(v.v, 0)

Fields(fs, last) ==
  IF fs = << >> THEN <<0>>
  ELSE LET id == fs[1][1]
           v  == fs[1][2]
           d  == id - last
       IN (IF d \in 1 .. 15 THEN <<d * 16 + CType(v)>> ELSE <<CType(v)>> \o Leb(Zig(id)))
          \o (IF v.t = "bool" THEN << >> ELSE Body(v)) \o Fields(Tail(fs), id)

I32(id, n)  == << <<id, [t |-> "i32", v |-> n]>> >>
I64(id, n)  == << <<id, [t |-> "i64", v |-> n]>> >>
Bin(id, b)  == << <<id, [t |-> "binary", v |-> b]>> >>
Sub(id, fs) == << <<id, [t |-> "struct", v |-> fs]>> >>
Lst(id, vs) == << <<id, [t |-> "list", v |-> vs]>> >>
Given(option, F(_)) == IF option = << >> THEN << >> ELSE F(option[1])

-----------------------------------------------------------------------------
(* Levels, indices, deltas, compression.                                   *)

Width(max) == CHOOSE w \in 0 .. 20 : max < 2 ^ w /\ \A u \in 0 .. w - 1 : max >= 2 ^ u

\* Values packed into bytes, w bits each, lowest first; BitAt(v, k) is bit k of v.
PackBits(vals, w, BitAt(_, _)) ==
  LET n   == Len(vals) * w
      bit(k) == IF k >= n THEN 0 ELSE BitAt(vals[(k \div w) + 1], k % w)
      byte(i) == LET b == [j \in 0 .. 7 |-> bit(8 * (i - 1) + j) * 2 ^ j]
                 IN b[0] + b[1] + b[2] + b[3] + b[4] + b[5] + b[6] + b[7]
  IN [i \in 1 .. (n + 7) \div 8 |-> byte(i)]

Pack(vals, w) == PackBits(vals, w, LAMBDA v, k : (v \div 2 ^ k) % 2)

Padded(vals, n, zero) == vals \o [i \in 1 .. (n - (Len(vals) % n)) % n |-> zero]

RECURSIVE Runs(_, _)
Runs(vals, w) ==
  IF vals = << >> THEN << >>
  ELSE LET other == {i \in DOMAIN vals : vals[i] # vals[1]}
           n == IF other = {} THEN Len(vals) ELSE (CHOOSE i \in other : \A j \in other : i <= j) - 1
       IN Leb(2 * n) \o Little(vals[1], (w + 7) \div 8) \o Runs(SubSeq(vals, n + 1, Len(vals)), w)

Packed(vals, w) ==
  LET p == Padded(vals, 8, 0) IN IF p = << >> THEN << >> ELSE Leb((Len(p) \div 8) * 2 + 1) \o Pack(p, w)

\* Runs only, packed groups only, or a packed group and then runs.
Hybrid(vals, w, style) ==
  CASE style = "runs" -> Runs(vals, w)
    [] style = "packed" -> Packed(vals, w)
    [] style = "both" -> IF Len(vals) < 8 THEN Runs(vals, w)
                         ELSE Packed(SubSeq(vals, 1, 8), w) \o Runs(SubSeq(vals, 9, Len(vals)), w)

SetMin(s) == CHOOSE x \in s : \A y \in s : x <= y
SetMax(s) == CHOOSE x \in s : \A y \in s : x >= y
Elems(s) == {s[i] : i \in DOMAIN s}

\* Of 64-bit integers: the number of bits, the zigzag varint, and the order.
Width64(v) == SetMax({0} \cup {b + 1 : b \in {k \in 0 .. 63 : E!BitOf(v, k) = 1}})

Zig64(v) ==
  LET sign == E!BitOf(v, 63)
  IN E!FromBits([b \in 0 .. 63 |-> ((IF b = 0 THEN 0 ELSE E!BitOf(v, b - 1)) + sign) % 2])

Leb64(v) ==
  LET n == SetMax({1, (Width64(v) + 6) \div 7})
      bit(k) == IF k < 64 THEN E!BitOf(v, k) * 2 ^ (k % 7) ELSE 0
      byte(i) == LET k == 7 * (i - 1)
                 IN bit(k) + bit(k + 1) + bit(k + 2) + bit(k + 3) + bit(k + 4) + bit(k + 5) + bit(k + 6)
  IN [i \in 1 .. n |-> byte(i) + IF i < n THEN 128 ELSE 0]

Less64(a, b) ==
  LET k == SetMax({0} \cup {i \in 1 .. 8 : a[i] # b[i]})
      top(x) == IF k = 8 THEN (x + 128) % 256 ELSE x
  IN k > 0 /\ top(a[k]) < top(b[k])

\* Blocks of minis miniblocks of n deltas; a miniblock without deltas
\* has any width and no bytes.
RECURSIVE Blocks(_, _, _)
Blocks(deltas, minis, n) ==
  IF deltas = << >> THEN << >>
  ELSE LET k == SetMin({Len(deltas), minis * n})
           low == CHOOSE x \in Elems(SubSeq(deltas, 1, k)) : \A i \in 1 .. k : ~Less64(deltas[i], x)
           over == [i \in 1 .. k |-> E!Sub64(deltas[i], low)]
           mini(m) == SubSeq(over, (m - 1) * n + 1, SetMin({k, m * n}))
           w(m) == IF mini(m) = << >> THEN 3 ELSE SetMax({Width64(v) : v \in Elems(mini(m))})
           bytes(m) == IF mini(m) = << >> THEN << >>
                       ELSE PackBits(Padded(mini(m), n, E!Word(0)), w(m), E!BitOf)
       IN Leb64(Zig64(low)) \o [m \in 1 .. minis |-> w(m)]
          \o Flatten([m \in 1 .. minis |-> bytes(m)])
          \o Blocks(SubSeq(deltas, k + 1, Len(deltas)), minis, n)

\* The deltas wrap, as the format says.
Delta(vals, minis, n) ==
  LET first == IF vals = << >> THEN E!Word(0) ELSE vals[1]
  IN Leb(minis * n) \o Leb(minis) \o Leb(Len(vals)) \o Leb64(Zig64(first))
     \o Blocks([i \in 1 .. Len(vals) - 1 |-> E!Sub64(vals[i + 1], vals[i])], minis, n)

\* A literal, its length in the tag or behind it.
Literal(bytes) ==
  LET n == Len(bytes) - 1
  IN IF bytes = << >> THEN << >>
     ELSE (IF n < 60 THEN <<n * 4>> ELSE <<240, n>>) \o bytes

\* A copy, in the form that its kind says.
Copy(kind, offset, len) ==
  CASE kind = 1 -> <<1 + (len - 4) * 4 + (offset \div 256) * 32, offset % 256>>
    [] kind = 2 -> <<2 + (len - 1) * 4>> \o Little(offset, 2)
    [] kind = 3 -> <<3 + (len - 1) * 4>> \o Little(offset, 4)

\* A literal up to the first period of the data and one copy for the rest of it.
Snappy(data, kind) ==
  LET n == Len(data)
      period == SetMin({p \in 1 .. n : \A i \in p + 1 .. n : data[i] = data[i - p]} \cup {n})
      fits == IF kind = 1 THEN 4 .. 11 ELSE 1 .. 64
  IN Leb(n) \o IF n - period \in fits
               THEN Literal(SubSeq(data, 1, period)) \o Copy(kind, period, n - period)
               ELSE Literal(data)

Compressed(codec, data) ==
  CASE codec = 0 -> data [] codec = 1 -> Snappy(data, 2) [] codec = 6 -> <<40>> \o data

-----------------------------------------------------------------------------
(* Pages, chunks and files.                                                *)

Plain(type, vals) ==
  CASE type = "Boolean" -> Pack([i \in DOMAIN vals |-> IF vals[i] THEN 1 ELSE 0], 1)
    [] type = "Int32" -> Flatten([i \in DOMAIN vals |-> Little(vals[i], 4)])
    [] type = "Int96" -> Flatten([i \in DOMAIN vals |-> vals[i].time_nanos \o Little(vals[i].julian_day, 4)])
    [] type = "ByteArray" -> Flatten([i \in DOMAIN vals |-> Little(Len(vals[i]), 4) \o vals[i]])
    [] OTHER -> Flatten(vals)

TypeNumber(type) ==
  CASE type = "Boolean" -> 0 [] type = "Int32" -> 1 [] type = "Int64" -> 2 [] type = "Int96" -> 3
    [] type = "Float" -> 4 [] type = "Double" -> 5 [] type = "ByteArray" -> 6
    [] type = "FixedLenByteArray" -> 7

Levels(levels, max) ==
  IF max = 0 THEN << >>
  ELSE LET b == Hybrid(levels, Width(max), "runs") IN Little(Len(b), 4) \o b

PageBytes(codec, kind, head, body) ==
  LET packed == Compressed(codec, body)
  IN Body([t |-> "struct",
           v |-> I32(1, kind) \o I32(2, Len(body)) \o I32(3, Len(packed))
                 \o Sub(IF kind = 0 THEN 5 ELSE 7, head)]) \o packed

\* A data page of entries [rep, def, v]; v is an Option.
DataPage(c, entries, encoding, values) ==
  PageBytes(c.codec, 0, I32(1, Len(entries)) \o I32(2, encoding),
            Levels([i \in DOMAIN entries |-> entries[i].rep], c.max_rep)
            \o Levels([i \in DOMAIN entries |-> entries[i].def], c.max_def) \o values)

ValuesOf(entries) == Flatten([i \in DOMAIN entries |-> entries[i].v])
Index(dict, v) == (CHOOSE i \in DOMAIN dict : dict[i] = v) - 1

\* A chunk of pages of entries; the way of a page is plain, delta or dict, and the
\* dictionary page is in front as soon as a page needs it.
Chunk(c, pages, ways) ==
  LET dict == SetToSeq(UNION {Elems(ValuesOf(pages[p])) : p \in {q \in DOMAIN pages : ways[q] = "dict"}})
      w    == Width(SetMax({Len(dict), 1}) - 1)
      body(p) ==
        LET vals == ValuesOf(pages[p])
        IN CASE ways[p] = "plain" -> DataPage(c, pages[p], 0, Plain(c.type, vals))
             [] ways[p] = "delta" -> DataPage(c, pages[p], 5, Delta(vals, 2, 4))
             [] ways[p] = "dict"  ->
                  DataPage(c, pages[p], 8,
                           <<w>> \o Hybrid([i \in DOMAIN vals |-> Index(dict, vals[i])], w, "both"))
      front == IF \A p \in DOMAIN ways : ways[p] # "dict" THEN << >>
               ELSE PageBytes(c.codec, 2, I32(1, Len(dict)) \o I32(2, 0), Plain(c.type, dict))
  IN [dict |-> Len(front), bytes |-> front \o Flatten([p \in DOMAIN pages |-> body(p)])]

Repetitions == [Required |-> 0, Optional |-> 1, Repeated |-> 2]

\* A node of a schema: [name, rep, type, kids, conv, len, scale]; a leaf has no kids.
Element(n) ==
  [t |-> "struct",
   v |-> (IF n.kids = << >> THEN I32(1, TypeNumber(n.type)) ELSE << >>)
         \o Given(n.len, LAMBDA x : I32(2, x)) \o I32(3, Repetitions[n.rep]) \o Bin(4, n.name)
         \o (IF n.kids = << >> THEN << >> ELSE I32(5, Len(n.kids)))
         \o Given(n.conv, LAMBDA x : I32(6, x)) \o Given(n.scale, LAMBDA x : I32(7, x))]

RECURSIVE Preorder(_)
Preorder(n) == <<Element(n)>> \o Flatten([k \in DOMAIN n.kids |-> Preorder(n.kids[k])])

ChunkMeta(c, chunk, at) ==
  [t |-> "struct",
   v |-> I64(2, at)
         \o Sub(3, I32(1, TypeNumber(c.type)) \o I32(4, c.codec) \o I64(7, Len(chunk.bytes))
                   \o I64(9, at + chunk.dict)
                   \o IF chunk.dict = 0 THEN << >> ELSE I64(11, at))]

\* Groups of [rows, chunks: Seq of [c, chunk]], one after the other, then the footer.
File(kids, groups) ==
  LET before(g, k) == Flatten([h \in 1 .. g |->
                        Flatten([j \in 1 .. IF h = g THEN k - 1 ELSE Len(groups[h].chunks) |->
                                   groups[h].chunks[j].chunk.bytes])])
      start(g, k) == 4 + Len(before(g, k))
      schema == <<[t |-> "struct", v |-> Bin(4, <<114>>) \o I32(5, Len(kids))]>>
                \o Flatten([k \in DOMAIN kids |-> Preorder(kids[k])])
      meta(g) == [t |-> "struct",
                  v |-> Lst(1, [k \in DOMAIN groups[g].chunks |->
                                  ChunkMeta(groups[g].chunks[k].c, groups[g].chunks[k].chunk, start(g, k))])
                        \o I64(3, groups[g].rows)]
      footer == Fields(I32(1, 1) \o Lst(2, schema) \o I64(3, 0)
                       \o Lst(4, [g \in DOMAIN groups |-> meta(g)]), 0)
      magic == <<80, 65, 82, 49>>
  IN magic \o Flatten([g \in DOMAIN groups |->
                 Flatten([k \in DOMAIN groups[g].chunks |-> groups[g].chunks[k].chunk.bytes])])
     \o footer \o Little(Len(footer), 4) \o magic
=============================================================================
