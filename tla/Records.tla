------------------------------- MODULE Records -------------------------------
(***************************************************************************)
(* The record format (record/varint.rs, encode.rs, decode.rs): varints,    *)
(* serial types, and the decoders that read a whole record, a prefix, or   *)
(* single columns.  A 64-bit integer is a function from its bit numbers to *)
(* 0 or 1, a payload a sequence of bytes.  A decoder returns [ok, ...],    *)
(* with the error's name in err.                                           *)
(***************************************************************************)
EXTENDS Integers, Sequences, FiniteSets, SequencesExt

Word == 0 .. 63
Zero64 == [b \in Word |-> 0]

RECURSIVE SumTo(_, _)
SumTo(f, n) == IF n = 0 THEN 0 ELSE f[n - 1] + SumTo(f, n - 1)

\* The number in bits lo .. lo + n - 1 of v.
Field(v, lo, n) == SumTo([i \in 0 .. n - 1 |-> v[lo + i] * 2 ^ i], n)

Bit(x, i) == (x \div 2 ^ i) % 2

\* How many bits v needs.
Width(v) == IF v = Zero64 THEN 0 ELSE 1 + Max({b \in Word : v[b] = 1})

\* v as a number; what does not fit in 30 bits is past every offset.
Num(v) == IF Width(v) > 30 THEN 2 ^ 30 - 1 ELSE Field(v, 0, 30)

\* A small number as a word.
Small(x) == [b \in Word |-> IF b < 31 THEN Bit(x, b) ELSE 0]

Err(e) == [ok |-> FALSE, err |-> e]

-----------------------------------------------------------------------------
(* Varints.                                                                *)

varint_len(v) == IF Width(v) > 56 THEN 9 ELSE Max({1, (Width(v) + 6) \div 7})

\* Seven bits a byte, all but the last with the high bit; nine bytes end in a whole one.
write_varint_into(v) ==
  LET n == varint_len(v)
  IN IF n = 9
     THEN [i \in 1 .. 8 |-> 128 + Field(v, 8 + 7 * (8 - i), 7)] \o <<Field(v, 0, 8)>>
     ELSE [i \in 1 .. n |-> Field(v, 7 * (n - i), 7) + (IF i < n THEN 128 ELSE 0)]

\* decode_varint that reads nine groups of seven bits.
decode_varint_Nine7(buf) ==
  LET stop == {i \in 1 .. Len(buf) : i <= 9 /\ (buf[i] < 128 \/ i = 9)}
      n    == Min(stop)
  IN IF stop = {} THEN Err("UnexpectedEof")
     ELSE [ok |-> TRUE, len |-> n,
           v |-> [b \in Word |-> IF b < 7 * n THEN Bit(buf[n - (b \div 7)], b % 7) ELSE 0]]

decode_varint(buf) ==
  LET stop == {i \in 1 .. Len(buf) : i <= 9 /\ (buf[i] < 128 \/ i = 9)}
      n    == Min(stop)
      last == IF n = 9 THEN 8 ELSE 7
  IN IF stop = {} THEN Err("UnexpectedEof")
     ELSE [ok |-> TRUE, len |-> n,
           v |-> [b \in Word |->
                    IF b < last THEN Bit(buf[n], b)
                    ELSE IF (b - last) \div 7 < n - 1
                    THEN Bit(buf[n - 1 - ((b - last) \div 7)], (b - last) % 7) ELSE 0]]

From(buf, pos) == SubSeq(buf, pos + 1, Len(buf))

decode_varint_at(buf, pos) ==
  IF pos > Len(buf) THEN Err("UnexpectedEof") ELSE decode_varint(From(buf, pos))

-----------------------------------------------------------------------------
(* Text.  A character is its code point; how the standard library encodes  *)
(* it is modelled for code points outside the surrogates.                  *)

utf8(c) ==
  CASE c < 128   -> <<c>>
    [] c \in 128 .. 2047   -> <<192 + (c \div 64), 128 + (c % 64)>>
    [] c \in 2048 .. 65535 -> <<224 + (c \div 4096), 128 + ((c \div 64) % 64), 128 + (c % 64)>>
    [] OTHER     -> <<240 + (c \div 262144), 128 + ((c \div 4096) % 64),
                      128 + ((c \div 64) % 64), 128 + (c % 64)>>

utf16(c) ==
  IF c < 65536 THEN <<c>>
  ELSE <<55296 + ((c - 65536) \div 1024), 56320 + ((c - 65536) % 1024)>>

Units(s) == FlattenSeq([i \in DOMAIN s |-> utf16(s[i])])

write_text_body_into(s, encoding) ==
  CASE encoding = "Utf8"    -> FlattenSeq([i \in DOMAIN s |-> utf8(s[i])])
    [] encoding = "Utf16Le" ->
         FlattenSeq([i \in DOMAIN Units(s) |-> <<Units(s)[i] % 256, Units(s)[i] \div 256>>])
    [] encoding = "Utf16Be" ->
         FlattenSeq([i \in DOMAIN Units(s) |-> <<Units(s)[i] \div 256, Units(s)[i] % 256>>])

\* encoded_text_len: without encoding.
encoded_text_len(s, encoding) ==
  IF encoding = "Utf8" THEN SumTo([i \in 0 .. Len(s) - 1 |-> Len(utf8(s[i + 1]))], Len(s))
  ELSE 2 * Len(Units(s))

MaxChar    == 1114111
Surrogates == 55296 .. 57343

\* from_utf8 and decode_utf16: the code points, or nothing where the bytes are malformed.
RECURSIVE chars8(_)
chars8(b) ==
  IF b = << >> THEN << >>
  ELSE LET n == CASE b[1] < 128 -> 1 [] b[1] \in 192 .. 223 -> 2 [] b[1] \in 224 .. 239 -> 3
                  [] b[1] \in 240 .. 247 -> 4 [] OTHER -> 5
           tail(i) == b[i] % 64
           c == CASE n = 1 -> b[1] [] n = 2 -> (b[1] - 192) * 64 + tail(2)
                  [] n = 3 -> (b[1] - 224) * 4096 + tail(2) * 64 + tail(3)
                  [] n = 4 -> (b[1] - 240) * 262144 + tail(2) * 4096 + tail(3) * 64 + tail(4)
       IN IF \/ n > Len(b) \/ n = 5 \/ \E i \in 2 .. n : b[i] \notin 128 .. 191
             \/ Len(utf8(c)) # n \/ c > MaxChar \/ c \in Surrogates
          THEN <<-1>> ELSE <<c>> \o chars8(From(b, n))

RECURSIVE chars16(_)
chars16(u) ==
  IF u = << >> THEN << >>
  ELSE IF u[1] \notin 55296 .. 57343 THEN <<u[1]>> \o chars16(Tail(u))
  ELSE IF u[1] > 56319 \/ Len(u) = 1 \/ u[2] \notin 56320 .. 57343 THEN <<-1>>
  ELSE <<65536 + (u[1] - 55296) * 1024 + u[2] - 56320>> \o chars16(From(u, 2))

decode_text(b, encoding) ==
  LET unit(i) == IF encoding = "Utf16Le" THEN b[2 * i - 1] + 256 * b[2 * i]
                                         ELSE 256 * b[2 * i - 1] + b[2 * i]
      s == IF encoding = "Utf8" THEN chars8(b)
           ELSE IF Len(b) % 2 = 1 THEN <<-1>> ELSE chars16([i \in 1 .. Len(b) \div 2 |-> unit(i)])
  IN IF Contains(s, -1) THEN Err(IF encoding = "Utf8" THEN "InvalidUtf8" ELSE "InvalidUtf16")
     ELSE [ok |-> TRUE, v |-> s]

-----------------------------------------------------------------------------
(* Values.                                                                 *)

Null       == [t |-> "null"]
Integer(w) == [t |-> "integer", w |-> w]
Real(w)    == [t |-> "real", w |-> w]
Blob(b)    == [t |-> "blob", b |-> b]
Text(s)    == [t |-> "text", s |-> s]

\* w is the sign extension of its n low bits.
SignExtends(w, n) == \A b \in n - 1 .. 63 : w[b] = w[63]

is_nan(w) == (\A b \in 52 .. 62 : w[b] = 1) /\ (\E b \in 0 .. 51 : w[b] = 1)

\* integer_serial_type that compares magnitudes, without the sign bit.
integer_serial_type_Unsigned(w) ==
  CASE w = Zero64 -> 8
    [] w = Small(1) -> 9
    [] OTHER -> Min({i \in 1 .. 6 : SignExtends(w, <<9, 17, 25, 33, 49, 64>>[i])})

integer_serial_type(w) ==
  CASE w = Zero64 -> 8
    [] w = Small(1) -> 9
    [] OTHER -> Min({i \in 1 .. 6 : SignExtends(w, <<8, 16, 24, 32, 48, 64>>[i])})

\* The n low bytes of w, big end first.
LowBytes(w, n) == [i \in 1 .. n |-> Field(w, 8 * (n - i), 8)]

\* Serial type and body of a value.
serial_type(v, encoding) ==
  CASE v.t = "null"    -> Zero64
    [] v.t = "integer" -> Small(integer_serial_type(v.w))
    [] v.t = "real"    -> Small(7)
    [] v.t = "blob"    -> Small(12 + 2 * Len(v.b))
    [] v.t = "text"    -> Small(13 + 2 * encoded_text_len(v.s, encoding))

write_body_into(v, encoding) ==
  CASE v.t = "null"    -> << >>
    [] v.t = "integer" ->
         LET st == integer_serial_type(v.w)
         IN IF st > 6 THEN << >> ELSE LowBytes(v.w, <<1, 2, 3, 4, 6, 8>>[st])
    [] v.t = "real"    -> LowBytes(v.w, 8)
    [] v.t = "blob"    -> v.b
    [] v.t = "text"    -> write_text_body_into(v.s, encoding)

\* A header length that allows its own varint one byte.
header_len_of_One(body, h) == body + 1

\* The header's length counts its own varint: it grows from h until that is consistent.
RECURSIVE header_len_of(_, _)
header_len_of(body, h) ==
  IF varint_len(Small(h)) + body = h THEN h ELSE header_len_of(body, h + 1)

encode_record_into(values, encoding) ==
  LET types == [i \in DOMAIN values |-> serial_type(values[i], encoding)]
      head  == FlattenSeq([i \in DOMAIN types |-> write_varint_into(types[i])])
  IN write_varint_into(Small(header_len_of(Len(head), Len(head) + 1))) \o head
     \o FlattenSeq([i \in DOMAIN values |-> write_body_into(values[i], encoding)])

-----------------------------------------------------------------------------
(* Decoding.                                                               *)

\* serial_type_len that takes type 5 for five bytes.
serial_type_len_Five(st) ==
  LET n == Num(st)
  IN CASE n \in 1 .. 7 -> <<1, 2, 3, 4, 5, 8, 8>>[n]
       [] n > 11      -> (n - 12) \div 2
       [] OTHER       -> 0

\* Body bytes of a serial type.
serial_type_len(st) ==
  LET n == Num(st)
  IN CASE n \in 1 .. 7 -> <<1, 2, 3, 4, 6, 8, 8>>[n]
       [] n > 11      -> (n - 12) \div 2
       [] OTHER       -> 0

\* The n bytes b as a signed integer.
Signed(b) ==
  [k \in Word |-> IF k \div 8 < Len(b) THEN Bit(b[Len(b) - k \div 8], k % 8) ELSE Bit(b[1], 7)]

decode_serial_value(st, buf, pos, encoding) ==
  LET n    == Num(st)
      len  == CASE n = 5 -> 6 [] n \in {6, 7} -> 8 [] n \in {0, 8, 9, 10, 11} -> 0
                [] n \in 1 .. 4 -> n [] OTHER -> (n - 12) \div 2
      body == SubSeq(buf, pos + 1, pos + len)
      val(v) == [ok |-> TRUE, v |-> v, len |-> len]
      text == decode_text(body, encoding)
  IN IF (n \in 1 .. 7 \/ n > 11) /\ pos + len > Len(buf) THEN Err("UnexpectedEof")
     ELSE CASE n \in {0, 10, 11} -> val(Null)
            [] n \in 1 .. 6      -> val(Integer(Signed(body)))
            [] n = 7             -> val(IF is_nan(Signed(body)) THEN Null ELSE Real(Signed(body)))
            [] n = 8             -> val(Integer(Zero64))
            [] n = 9             -> val(Integer(Small(1)))
            [] n > 11 /\ n % 2 = 0 -> val(Blob(body))
            [] OTHER             -> IF text.ok THEN val(Text(text.v)) ELSE text

\* The entries of the header from pos on: <<serial type, offset of the body>>.
RECURSIVE walk_header(_, _, _, _)
walk_header(payload, header_len, pos, body_pos) ==
  LET x == decode_varint_at(payload, pos)
      rest == walk_header(payload, header_len, pos + x.len, body_pos + serial_type_len(x.v))
  IN IF pos >= header_len THEN [ok |-> TRUE, entries |-> << >>]
     ELSE IF ~x.ok THEN x
     ELSE IF pos + x.len > header_len THEN Err("HeaderOverrun")
     ELSE IF ~rest.ok THEN rest
     ELSE [rest EXCEPT !.entries = <<<<x.v, body_pos>>>> \o @]

parse_header_into(payload) ==
  LET h == decode_varint_at(payload, 0)
      header_len == Num(h.v)
  IN IF ~h.ok THEN h
     ELSE IF header_len < h.len THEN Err("HeaderTooShort")
     ELSE walk_header(payload, header_len, h.len, header_len)

\* The values of the entries that a caller wants; the first error stops.
decode_entries(payload, entries, encoding) ==
  LET got == [i \in DOMAIN entries |->
                decode_serial_value(entries[i][1], payload, entries[i][2], encoding)]
      bad == {i \in DOMAIN got : ~got[i].ok}
  IN IF bad # {} THEN got[Min(bad)]
     ELSE [ok |-> TRUE, v |-> [i \in DOMAIN got |-> got[i].v]]

\* The bodies from pos on, each behind the one before it.
RECURSIVE decode_bodies(_, _, _, _)
decode_bodies(payload, entries, pos, encoding) ==
  LET got  == decode_serial_value(entries[1][1], payload, pos, encoding)
      rest == decode_bodies(payload, Tail(entries), pos + got.len, encoding)
  IN IF entries = << >> THEN [ok |-> TRUE, v |-> << >>, end |-> pos]
     ELSE IF ~got.ok THEN got ELSE IF ~rest.ok THEN rest
     ELSE [rest EXCEPT !.v = <<got.v>> \o @]

\* decode_record that does not look at what is behind the last body.
decode_record_Open(payload, encoding) ==
  LET h   == parse_header_into(payload)
      got == decode_bodies(payload, h.entries, Num(decode_varint_at(payload, 0).v), encoding)
  IN IF ~h.ok THEN h ELSE IF ~got.ok THEN got ELSE [ok |-> TRUE, v |-> got.v]

decode_record(payload, encoding) ==
  LET h   == parse_header_into(payload)
      got == decode_bodies(payload, h.entries, Num(decode_varint_at(payload, 0).v), encoding)
  IN IF ~h.ok THEN h ELSE IF ~got.ok THEN got
     ELSE IF got.end # Len(payload) THEN Err("TrailingData") ELSE [ok |-> TRUE, v |-> got.v]

decode_record_upto(payload, max_columns, encoding) ==
  LET h == parse_header_into(payload)
  IN IF ~h.ok THEN h
     ELSE decode_entries(payload, SubSeq(h.entries, 1, Min({max_columns, Len(h.entries)})), encoding)

\* Column idx, counted from 0; past the end it is NULL.
decode_column(payload, idx, encoding) ==
  LET h == parse_header_into(payload)
  IN IF ~h.ok THEN h
     ELSE IF idx >= Len(h.entries) THEN [ok |-> TRUE, v |-> Null]
     ELSE LET x == h.entries[idx + 1]
              got == decode_serial_value(x[1], payload, x[2], encoding)
          IN IF got.ok THEN [ok |-> TRUE, v |-> got.v] ELSE got

\* decode_single_column walks the header only as far as column idx.
RECURSIVE single_from(_, _, _, _, _, _)
single_from(payload, header_len, pos, body_pos, idx, encoding) ==
  LET x   == decode_varint_at(payload, pos)
      got == decode_serial_value(x.v, payload, body_pos, encoding)
  IN IF pos >= header_len THEN [ok |-> TRUE, v |-> Null]
     ELSE IF ~x.ok THEN x
     ELSE IF pos + x.len > header_len THEN Err("HeaderOverrun")
     ELSE IF idx = 0 THEN IF got.ok THEN [ok |-> TRUE, v |-> got.v] ELSE got
     ELSE single_from(payload, header_len, pos + x.len, body_pos + serial_type_len(x.v),
                      idx - 1, encoding)

decode_single_column(payload, idx, encoding) ==
  LET h == decode_varint_at(payload, 0)
  IN IF ~h.ok THEN h
     ELSE IF Num(h.v) < h.len THEN Err("HeaderTooShort")
     ELSE single_from(payload, Num(h.v), h.len, Num(h.v), idx, encoding)

decode_record_only_into(payload, wanted, encoding) ==
  LET one == decode_single_column(payload, wanted[1], encoding)
      got == [i \in DOMAIN wanted |-> decode_column(payload, wanted[i], encoding)]
      bad == {i \in DOMAIN got : ~got[i].ok}
  IN IF Len(wanted) = 1 THEN IF one.ok THEN [ok |-> TRUE, v |-> <<one.v>>] ELSE one
     ELSE IF bad # {} THEN got[Min(bad)]
     ELSE [ok |-> TRUE, v |-> [i \in DOMAIN got |-> got[i].v]]
=============================================================================
