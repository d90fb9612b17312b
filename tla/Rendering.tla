------------------------------ MODULE Rendering ------------------------------
(***************************************************************************)
(* How values are shown (format.rs).  Text is a sequence of code points, a *)
(* blob a sequence of bytes, and a real the characters that format_real    *)
(* prints for it.                                                          *)
(***************************************************************************)
EXTENDS Integers, Sequences, SequencesExt

RECURSIVE Digits(_)
Digits(n) == IF n < 10 THEN <<48 + n>> ELSE Digits(n \div 10) \o <<48 + (n % 10)>>

to_string(i) == IF i < 0 THEN <<45>> \o Digits(-i) ELSE Digits(i)
HexDigit(n)  == IF n < 10 THEN 48 + n ELSE 55 + n
QUOTE == 34

format_blob(b) ==
  <<88, 39>> \o FlattenSeq([i \in DOMAIN b |-> <<HexDigit(b[i] \div 16), HexDigit(b[i] % 16)>>])
  \o <<39>>

truncate_at_nul(bytes) ==
  LET nul == {i \in DOMAIN bytes : bytes[i] = 0}
  IN IF nul = {} THEN bytes ELSE SubSeq(bytes, 1, (CHOOSE i \in nul : \A j \in nul : i <= j) - 1)

\* write_truncated_at_nul that keeps what follows a NUL.
write_truncated_at_nul_Whole(buf, bytes) == buf \o bytes
write_truncated_at_nul(buf, bytes) == buf \o truncate_at_nul(bytes)

\* csv_char_forces_quote that looks for double quotes only, and leaves the separator alone.
csv_char_forces_quote_Quote(c) == c = QUOTE

csv_char_forces_quote(c) == c \notin 33 .. 126 \/ c \in {QUOTE, 39, 44}

csv_quote(s) ==
  IF s # << >> /\ \A i \in DOMAIN s : ~csv_char_forces_quote(s[i]) THEN s
  ELSE <<QUOTE>>
       \o FlattenSeq([i \in DOMAIN s |-> IF s[i] = QUOTE THEN <<QUOTE, QUOTE>> ELSE <<s[i]>>])
       \o <<QUOTE>>

-----------------------------------------------------------------------------
(* A value of each mode.                                                   *)

Shown(v, null, text, blob) ==
  CASE v.t = "null" -> null [] v.t = "integer" -> to_string(v.i) [] v.t = "real" -> v.r
    [] v.t = "text" -> text [] v.t = "blob" -> blob

format_list_value(v)  == Shown(v, <<78, 85, 76, 76>>, v.s, format_blob(v.s))
format_query_value(v) == Shown(v, << >>, truncate_at_nul(v.s), truncate_at_nul(v.s))
format_csv_value(v)   == Shown(v, << >>, csv_quote(v.s), csv_quote(format_blob(v.s)))

write_query_value(buf, v) ==
  IF v.t \in {"text", "blob"} THEN write_truncated_at_nul(buf, v.s)
  ELSE buf \o Shown(v, << >>, << >>, << >>)

write_csv_value(buf, v) ==
  buf \o Shown(v, << >>, csv_quote(v.s), csv_quote(format_blob(v.s)))
=============================================================================
