--------------------------- MODULE ParquetEncoding ---------------------------
(***************************************************************************)
(* The byte formats inside a Parquet file (thrift.rs, encoding.rs,         *)
(* compression/*.rs, decimal.rs).  A buffer is a sequence of bytes and pos *)
(* counts the bytes already read.  A decoder returns [ok, v, pos], or the  *)
(* name of its error in err.  Lengths, counts and levels are numbers of at *)
(* most VarintBits bits; a 64-bit integer of a column is its eight bytes,  *)
(* the lowest first; floating-point numbers are their bytes too.           *)
(***************************************************************************)
EXTENDS Integers, Sequences, SequencesExt

VarintBits == 28

Err(e) == [ok |-> FALSE, err |-> e]
Ok(v, pos) == [ok |-> TRUE, v |-> v, pos |-> pos]

RECURSIVE SumTo(_, _)
SumTo(f, n) == IF n = 0 THEN 0 ELSE f[n] + SumTo(f, n - 1)

\* d * b ^ k for the digits d of a number; a zero digit may be at any place.
Place(d, b, k) == IF d = 0 THEN 0 ELSE d * b ^ k
LittleEndian(bytes) == SumTo([i \in DOMAIN bytes |-> Place(bytes[i], 256, i - 1)], Len(bytes))
Bit(x, i) == (x \div 2 ^ i) % 2

\* The n bytes after the first pos.
Slice(buf, pos, n) ==
  IF pos + n > Len(buf) THEN Err("UnexpectedEof") ELSE Ok(SubSeq(buf, pos + 1, pos + n), pos + n)

-----------------------------------------------------------------------------
(* 64-bit integers in two's complement.  Sums and products wrap, as they   *)
(* do in a build without overflow checks; a build with them panics.        *)

\* Digits of any size, carried into bytes; what is above the last byte is lost.
Carried(digits) ==
  FoldLeft(LAMBDA acc, d : [out |-> Append(acc.out, (d + acc.carry) % 256),
                            carry |-> (d + acc.carry) \div 256],
           [out |-> << >>, carry |-> 0], digits).out

Word(n) == Carried([i \in 1 .. 8 |-> IF i = 1 THEN n ELSE 0])
Add64(a, b) == Carried([i \in 1 .. 8 |-> a[i] + b[i]])
Sub64(a, b) == Carried([i \in 1 .. 8 |-> a[i] - b[i]])
Mul64(a, b) == Carried([i \in 1 .. 8 |-> SumTo([j \in 1 .. i |-> a[j] * b[i + 1 - j]], i)])
Negative(a) == a[8] >= 128

\* a \div n, from the highest byte down.
Quotient(a, n) ==
  FoldLeft(LAMBDA acc, byte : [out |-> <<(acc.rest * 256 + byte) \div n>> \o acc.out,
                               rest |-> (acc.rest * 256 + byte) % n],
           [out |-> << >>, rest |-> 0], Reverse(a)).out

\* Division that rounds to zero.
Div64(a, n) ==
  IF Negative(a) THEN Sub64(Word(0), Quotient(Sub64(Word(0), a), n)) ELSE Quotient(a, n)

BitOf(a, i) == Bit(a[(i \div 8) + 1], i % 8)

\* The integer whose bits are bit[0] .. bit[63].
FromBits(bit) == [i \in 1 .. 8 |-> SumTo([k \in 1 .. 8 |-> bit[8 * i + k - 9] * 2 ^ (k - 1)], 8)]

-----------------------------------------------------------------------------
(* Varints: seven bits a byte, the lowest first, in at most max bytes.     *)

\* The number of bytes that the varint at pos has.
VarintLen(buf, pos, max) ==
  LET stop == {i \in 1 .. max : pos + i <= Len(buf) /\ buf[pos + i] < 128}
  IN IF stop = {}
     THEN Err(IF pos + max <= Len(buf) THEN "InvalidVarint" ELSE "UnexpectedEof")
     ELSE Ok(Min(stop), pos + Min(stop))

Leb128(buf, pos, max) ==
  LET n == VarintLen(buf, pos, max)
  IN IF ~n.ok THEN n
     ELSE Ok(SumTo([i \in 1 .. n.v |-> Place(buf[pos + i] % 128, 128, i - 1)], n.v), n.pos)

read_varint(buf, pos) == Leb128(buf, pos, 10)
read_unsigned_varint(buf, pos) == Leb128(buf, pos, 10)
read_varint_snappy(buf, pos) == Leb128(buf, pos, 5)

Unzigzag(v) == IF v % 2 = 0 THEN v \div 2 ELSE -(v \div 2) - 1

read_zigzag(buf, pos) ==
  LET r == read_varint(buf, pos) IN IF r.ok THEN Ok(Unzigzag(r.v), r.pos) ELSE r

\* The zigzag varint of a 64-bit integer: bits above the highest are shifted out.
read_zigzag_varint(buf, pos) ==
  LET n   == VarintLen(buf, pos, 10)
      raw == [b \in 0 .. 64 |-> IF b < 64 /\ b \div 7 < n.v THEN Bit(buf[pos + 1 + (b \div 7)], b % 7) ELSE 0]
  IN IF n.ok THEN Ok(FromBits([b \in 0 .. 63 |-> (raw[b + 1] + raw[0]) % 2]), n.pos) ELSE n

-----------------------------------------------------------------------------
(* Thrift compact protocol (thrift.rs).                                    *)

Value(t, v) == [t |-> t, v |-> v]

\* What follows r, as a value of type t.
As(r, t) == IF r.ok THEN Ok(Value(t, r.v), r.pos) ELSE r

read_byte(buf, pos) ==
  IF pos < Len(buf) THEN Ok(buf[pos + 1], pos + 1) ELSE Err("UnexpectedEof")

read_binary(buf, pos) ==
  LET n == read_varint(buf, pos) IN IF n.ok THEN Slice(buf, n.pos, n.v) ELSE n

decode_element_type(nibble) ==
  IF nibble \in {1} \cup 3 .. 12 THEN Ok(nibble, 0) ELSE Err("UnknownType")

RECURSIVE read_value(_, _, _, _), read_items(_, _, _, _, _), read_entries(_, _, _, _, _),
          read_fields(_, _, _, _)

\* The rest of a list: the items left, read one by one.
read_items(buf, pos, type, left, items) ==
  IF left = 0 THEN Ok(items, pos)
  ELSE LET r == read_value(buf, pos, type, << >>)
       IN IF r.ok THEN read_items(buf, r.pos, type, left - 1, Append(items, r.v)) ELSE r

read_entries(buf, pos, types, left, entries) ==
  IF left = 0 THEN Ok(entries, pos)
  ELSE LET k == read_value(buf, pos, types[1], << >>)
           v == read_value(buf, k.pos, types[2], << >>)
       IN IF ~k.ok THEN k ELSE IF ~v.ok THEN v
          ELSE read_entries(buf, v.pos, types, left - 1, Append(entries, <<k.v, v.v>>))

read_list(buf, pos) ==
  LET head == read_byte(buf, pos)
      elem == decode_element_type(head.v % 16)
      size == IF head.v \div 16 = 15 THEN read_varint(buf, head.pos)
              ELSE Ok(head.v \div 16, head.pos)
  IN IF ~head.ok THEN head ELSE IF ~elem.ok THEN elem ELSE IF ~size.ok THEN size
     ELSE As(read_items(buf, size.pos, elem.v, size.v, << >>), "list")

read_map(buf, pos) ==
  LET size  == read_varint(buf, pos)
      types == read_byte(buf, size.pos)
      key   == decode_element_type(types.v \div 16)
      val   == decode_element_type(types.v % 16)
  IN IF ~size.ok THEN size
     ELSE IF size.v = 0 THEN Ok(Value("map", << >>), size.pos)
     ELSE IF ~types.ok THEN types ELSE IF ~key.ok THEN key ELSE IF ~val.ok THEN val
     ELSE As(read_entries(buf, types.pos, <<key.v, val.v>>, size.v, << >>), "map")

\* A boolean field has its value in its type; an element has it in a byte.
read_value(buf, pos, ctype, bool) ==
  CASE ctype = 1 -> IF bool # << >> THEN Ok(Value("bool", bool[1]), pos)
                    ELSE LET b == read_byte(buf, pos)
                         IN IF b.ok THEN Ok(Value("bool", b.v = 1), b.pos) ELSE b
    [] ctype = 2 -> Ok(Value("bool", bool # << >> /\ bool[1]), pos)
    [] ctype = 3 -> LET b == read_byte(buf, pos)
                    IN IF b.ok THEN Ok(Value("byte", IF b.v < 128 THEN b.v ELSE b.v - 256), b.pos)
                       ELSE b
    [] ctype = 4 -> As(read_zigzag(buf, pos), "i16")
    [] ctype = 5 -> As(read_zigzag(buf, pos), "i32")
    [] ctype = 6 -> As(read_zigzag(buf, pos), "i64")
    [] ctype = 7 -> As(Slice(buf, pos, 8), "double")
    [] ctype = 8 -> As(read_binary(buf, pos), "binary")
    [] ctype \in {9, 10} -> read_list(buf, pos)
    [] ctype = 11 -> read_map(buf, pos)
    [] ctype = 12 -> As(read_fields(buf, pos, 0, << >>), "struct")
    [] OTHER -> Err("UnknownType")

\* read_fields that counts every delta from the start of the struct.
read_fields_Absolute(buf, pos, last, fields) ==
  LET head == read_byte(buf, pos)
      id   == Ok(head.v \div 16, head.pos)
      type == head.v % 16
      r    == read_value(buf, id.pos, type, IF type \in {1, 2} THEN <<type = 1>> ELSE << >>)
  IN IF ~head.ok THEN head
     ELSE IF head.v = 0 THEN Ok(fields, head.pos)
     ELSE IF ~r.ok THEN r
     ELSE read_fields(buf, r.pos, id.v, Append(fields, <<id.v, r.v>>))

\* The fields of a struct up to STOP; a field's id is a delta or is written out.
read_fields(buf, pos, last, fields) ==
  LET head == read_byte(buf, pos)
      delta == head.v \div 16
      id   == IF delta = 0 THEN read_zigzag(buf, head.pos) ELSE Ok(last + delta, head.pos)
      type == head.v % 16
      r    == read_value(buf, id.pos, type, IF type \in {1, 2} THEN <<type = 1>> ELSE << >>)
  IN IF ~head.ok THEN head
     ELSE IF head.v = 0 THEN Ok(fields, head.pos)
     ELSE IF ~id.ok THEN id ELSE IF ~r.ok THEN r
     ELSE read_fields(buf, r.pos, id.v, Append(fields, <<id.v, r.v>>))

decode_struct(buf) == read_fields(buf, 0, 0, << >>)

-----------------------------------------------------------------------------
(* Levels, dictionary indices and deltas (encoding.rs).                    *)

\* The w bits at bit number at, lowest first.
BitsAt(bytes, at, w) ==
  SumTo([i \in 1 .. w |-> Bit(bytes[1 + ((at + i - 1) \div 8)], (at + i - 1) % 8) * 2 ^ (i - 1)], w)

Unpacked(bytes, w, n) == [k \in 1 .. n |-> BitsAt(bytes, (k - 1) * w, w)]

bit_width_for_max_level(max) == Min({w \in 0 .. VarintBits : max < 2 ^ w})

RECURSIVE hybrid_runs(_, _, _, _, _)

\* hybrid_runs whose repeated value takes the whole bytes of its width only.
hybrid_runs_Floor(data, pos, w, n, out) ==
  LET head == read_unsigned_varint(data, pos)
      run  == head.v \div 2
      left == n - Len(out)
      raw  == Slice(data, head.pos, IF head.v % 2 = 1 THEN run * w ELSE w \div 8)
  IN IF left <= 0 THEN Ok(out, pos)
     ELSE IF ~head.ok THEN head ELSE IF ~raw.ok THEN raw
     ELSE hybrid_runs(data, raw.pos, w, n,
            out \o IF head.v % 2 = 1 THEN Unpacked(raw.v, w, Min({run * 8, left}))
                   ELSE [k \in 1 .. Min({run, left}) |-> LittleEndian(raw.v)])

\* Runs until there are n values: a run of one value, or groups of eight packed ones.
hybrid_runs(data, pos, w, n, out) ==
  LET head == read_unsigned_varint(data, pos)
      run  == head.v \div 2
      left == n - Len(out)
      raw  == Slice(data, head.pos, IF head.v % 2 = 1 THEN run * w ELSE (w + 7) \div 8)
  IN IF left <= 0 THEN Ok(out, pos)
     ELSE IF ~head.ok THEN head ELSE IF ~raw.ok THEN raw
     ELSE hybrid_runs(data, raw.pos, w, n,
            out \o IF head.v % 2 = 1 THEN Unpacked(raw.v, w, Min({run * 8, left}))
                   ELSE [k \in 1 .. Min({run, left}) |-> LittleEndian(raw.v)])

decode_hybrid_rle_bitpacked(data, w, n) ==
  IF w = 0 THEN Ok([k \in 1 .. n |-> 0], 0) ELSE hybrid_runs(data, 0, w, n, << >>)

\* unpack_bit_packed: n values of w <= 64 bits with no header, in whole bytes.
unpack_bit_packed(data, pos, w, n) ==
  LET raw == Slice(data, pos, (n * w + 7) \div 8)
      value(k) == FromBits([b \in 0 .. 63 |->
                              IF b < w THEN LET at == (k - 1) * w + b IN Bit(raw.v[1 + (at \div 8)], at % 8)
                              ELSE 0])
  IN IF w = 0 THEN Ok([k \in 1 .. n |-> Word(0)], pos)
     ELSE IF raw.ok THEN Ok([k \in 1 .. n |-> value(k)], raw.pos) ELSE raw

\* Miniblock that expects the bytes of the miniblocks behind the last value too.
Miniblock_Always(data, r, w, n, min_delta, total) ==
  IF ~r.ok THEN r
  ELSE LET raw == unpack_bit_packed(data, r.pos, w, n)
           take == Min({n, total - Len(r.v)})
       IN IF ~raw.ok THEN raw
          ELSE Ok(FoldLeft(LAMBDA out, d : Append(out, Add64(Last(out), Add64(min_delta, d))),
                           r.v, SubSeq(raw.v, 1, take)), raw.pos)

\* Miniblock that clamps a sum at the ends of the range.
Miniblock_Clamped(data, r, w, n, min_delta, total) ==
  IF ~r.ok \/ Len(r.v) >= total THEN r
  ELSE LET raw == unpack_bit_packed(data, r.pos, w, n)
           take == Min({n, total - Len(r.v)})
           sum(a, b) == IF Negative(a) = Negative(b) /\ Negative(Add64(a, b)) # Negative(a)
                        THEN IF Negative(a) THEN FromBits([i \in 0 .. 63 |-> i \div 63])
                                            ELSE FromBits([i \in 0 .. 63 |-> 1 - (i \div 63)])
                        ELSE Add64(a, b)
       IN IF ~raw.ok THEN raw
          ELSE Ok(FoldLeft(LAMBDA out, d : Append(out, sum(Last(out), sum(min_delta, d))),
                           r.v, SubSeq(raw.v, 1, take)), raw.pos)

\* One miniblock: the packed deltas over min_delta, up to the last value of all.
Miniblock(data, r, w, n, min_delta, total) ==
  IF ~r.ok \/ Len(r.v) >= total THEN r
  ELSE LET raw == unpack_bit_packed(data, r.pos, w, n)
           take == Min({n, total - Len(r.v)})
       IN IF ~raw.ok THEN raw
          ELSE Ok(FoldLeft(LAMBDA out, d : Append(out, Add64(Last(out), Add64(min_delta, d))),
                           r.v, SubSeq(raw.v, 1, take)), raw.pos)

RECURSIVE delta_blocks(_, _, _, _, _, _)
delta_blocks(data, pos, minis, n, total, out) ==
  LET min_delta == read_zigzag_varint(data, pos)
      widths    == Slice(data, min_delta.pos, minis)
      r == FoldLeft(LAMBDA acc, w : Miniblock(data, acc, w, n, min_delta.v, total),
                    Ok(out, widths.pos), widths.v)
  IN IF Len(out) >= total THEN Ok(out, pos)
     ELSE IF ~min_delta.ok THEN min_delta ELSE IF ~widths.ok THEN widths ELSE IF ~r.ok THEN r
     ELSE delta_blocks(data, r.pos, minis, n, total, r.v)

decode_delta_binary_packed(data) ==
  LET block == read_unsigned_varint(data, 0)
      minis == read_unsigned_varint(data, block.pos)
      total == read_unsigned_varint(data, minis.pos)
      first == read_zigzag_varint(data, total.pos)
  IN IF ~block.ok THEN block ELSE IF ~minis.ok THEN minis ELSE IF ~total.ok THEN total
     ELSE IF ~first.ok THEN first
     ELSE IF total.v = 0 THEN Ok(<< >>, first.pos)
     ELSE delta_blocks(data, first.pos, minis.v,
                       IF minis.v = 0 THEN 0 ELSE block.v \div minis.v, total.v, <<first.v>>)

null_mask(levels, max) == [i \in DOMAIN levels |-> levels[i] = max]

-----------------------------------------------------------------------------
\* copy_from_offset that copies the bytes there are at the start of the copy.
copy_from_offset_Memcpy(out, offset, len) ==
  IF offset = 0 \/ offset > Len(out) THEN Err("InvalidCopyOffset")
  ELSE LET start == Len(out) - offset
       IN Ok(out \o SubSeq(out, start + 1, Min({start + len, Len(out)})), 0)

\* Byte by byte: a copy may read what it has just written, and so repeats the last
\* offset bytes.
copy_from_offset(out, offset, len) ==
  IF offset = 0 \/ offset > Len(out) THEN Err("InvalidCopyOffset")
  ELSE LET start == Len(out) - offset
       IN Ok(out \o [i \in 1 .. len |-> out[start + 1 + ((i - 1) % offset)]], 0)

\* One element at pos: the bytes out after it and where the next one is.
snappy_element(data, pos, out) ==
  LET tag  == data[pos + 1]
      kind == tag % 4
      high == tag \div 4
      \* The length of a literal follows the tag in 1 to 4 bytes when it is long.
      more == Slice(data, pos + 1, IF high < 60 THEN 0 ELSE high - 59)
      len  == IF high < 60 THEN high + 1 ELSE LittleEndian(more.v) + 1
      lit  == Slice(data, more.pos, len)
      width == CASE kind = 1 -> 1 [] kind = 2 -> 2 [] OTHER -> 4
      off  == Slice(data, pos + 1, width)
      offset == LittleEndian(off.v) + (IF kind = 1 THEN (tag \div 32) * 256 ELSE 0)
      count == IF kind = 1 THEN (high % 8) + 4 ELSE high + 1
      copy == copy_from_offset(out, offset, count)
  IN IF kind = 0
     THEN IF ~more.ok THEN more ELSE IF ~lit.ok THEN lit ELSE Ok(out \o lit.v, lit.pos)
     ELSE IF ~off.ok THEN off ELSE IF ~copy.ok THEN copy ELSE Ok(copy.v, off.pos)

RECURSIVE snappy_elements(_, _, _)
snappy_elements(data, pos, out) ==
  IF pos >= Len(data) THEN Ok(out, pos)
  ELSE LET r == snappy_element(data, pos, out)
       IN IF r.ok THEN snappy_elements(data, r.pos, r.v) ELSE r

snappy_decompress(data) ==
  LET declared == read_varint_snappy(data, 0)
      r == snappy_elements(data, declared.pos, << >>)
  IN IF ~declared.ok THEN declared ELSE IF ~r.ok THEN r
     ELSE IF Len(r.v) # declared.v THEN Err("SizeMismatch") ELSE r

\* A ZSTD frame, whose decoding is the ruzstd crate's: its magic byte and its content.
ZSTD_MAGIC == 40
StreamingDecoder(data) ==
  IF data = << >> \/ data[1] # ZSTD_MAGIC THEN Err("Frame") ELSE Ok(Tail(data), Len(data))

zstd_decompress(data, uncompressed_size) ==
  LET r == StreamingDecoder(data)
  IN IF ~r.ok THEN r ELSE IF Len(r.v) # uncompressed_size THEN Err("SizeMismatch") ELSE r

decompress(codec, data, uncompressed_size) ==
  CASE codec = "Uncompressed" -> Ok(data, Len(data))
    [] codec = "Snappy" -> snappy_decompress(data)
    [] codec = "Zstd" -> zstd_decompress(data, uncompressed_size)
    [] OTHER -> Err("UnsupportedCodec")

-----------------------------------------------------------------------------
(* Decimals: an unscaled integer and the digits after the point.           *)

\* from_be_bytes that does not extend the sign.
from_be_bytes_Unsigned(bytes) == FoldLeft(LAMBDA v, b : v * 256 + b, 0, bytes)

from_be_bytes(bytes) ==
  FoldLeft(LAMBDA v, b : v * 256 + b, IF bytes # << >> /\ bytes[1] >= 128 THEN -1 ELSE 0, bytes)

RECURSIVE Digits(_, _)
\* n in decimal, with zeros in front up to width digits.
Digits(n, width) ==
  IF n < 10 /\ width <= 1 THEN <<n>> ELSE Digits(n \div 10, width - 1) \o <<n % 10>>

Magnitude(n) == IF n < 0 THEN -n ELSE n

\* Display that prints the digits after the point as a number.
decimal_fmt_Short(unscaled, scale) ==
  LET m == Magnitude(unscaled)
  IN [sign |-> unscaled < 0, whole |-> Digits(m \div 10 ^ Max({0, scale}), 1),
      frac |-> IF scale <= 0 THEN << >> ELSE Digits(m % 10 ^ scale, 1)]

decimal_fmt(unscaled, scale) ==
  LET m == Magnitude(unscaled)
  IN IF scale <= 0
     THEN [sign |-> unscaled < 0, whole |-> Digits(m * 10 ^ (-scale), 1), frac |-> << >>]
     ELSE [sign |-> unscaled < 0, whole |-> Digits(m \div 10 ^ scale, 1),
           frac |-> Digits(m % 10 ^ scale, scale)]
=============================================================================
