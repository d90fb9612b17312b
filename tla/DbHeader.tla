------------------------------- MODULE DbHeader -------------------------------
(***************************************************************************)
(* The 100-byte database header (header.rs) and the bytes of page 1 that   *)
(* the pager and the b-tree write into it.  A page is its length and its   *)
(* first Kept bytes: the file header and the b-tree header behind it.      *)
(***************************************************************************)
EXTENDS Integers, Sequences

HEADER_LEN == 100
Kept  == 0 .. HEADER_LEN + 7
MAGIC == <<83, 81, 76, 105, 116, 101, 32, 102, 111, 114, 109, 97, 116, 32, 51, 0>>

Err(e) == [ok |-> FALSE, err |-> e]

read_u16(page, at) == page.at[at] * 256 + page.at[at + 1]

\* The four bytes are kept apart: a number of 32 bits is past TLC's integers.
read_u32(page, at) == [i \in 1 .. 4 |-> page.at[at + i - 1]]

U32(n) == <<0, 0, n \div 256, n % 256>>
U16(n) == <<(n \div 256) % 256, n % 256>>

put(page, at, bytes) ==
  IF at + Len(bytes) > page.len THEN page
  ELSE [page EXCEPT !.at = [o \in Kept |-> IF o \in at .. at + Len(bytes) - 1
                                           THEN bytes[o - at + 1] ELSE page.at[o]]]

PowerOfTwo(n) == \E k \in 0 .. 16 : n = 2 ^ k

TextEncoding(raw) ==
  CASE raw = U32(1) -> "Utf8" [] raw = U32(2) -> "Utf16Le" [] raw = U32(3) -> "Utf16Be"
    [] OTHER -> "none"

Fields(page, page_size) ==
  [page_size |-> page_size, write_version |-> page.at[18], read_version |-> page.at[19],
   reserved_space |-> page.at[20], page_count |-> read_u32(page, 28),
   freelist_trunk_page |-> read_u32(page, 32), freelist_page_count |-> read_u32(page, 36),
   schema_cookie |-> read_u32(page, 40), schema_format |-> read_u32(page, 44),
   largest_root_btree_page |-> read_u32(page, 52),
   text_encoding |-> TextEncoding(read_u32(page, 56)),
   user_version |-> read_u32(page, 60), application_id |-> read_u32(page, 68)]

\* parse that takes the stored page size as it is.
parse_Raw(page) == [ok |-> TRUE, h |-> Fields(page, read_u16(page, 16))]

parse(page) ==
  LET raw == read_u16(page, 16)
      page_size == IF raw = 1 THEN 65536 ELSE raw
  IN CASE page.len < HEADER_LEN -> Err("TooShort")
       [] page.len >= HEADER_LEN /\ (\E i \in 0 .. 15 : page.at[i] # MAGIC[i + 1]) -> Err("InvalidMagic")
       [] OTHER ->
            IF page_size < 512 \/ ~PowerOfTwo(page_size) THEN Err("InvalidPageSize")
            ELSE IF ~(page.at[18] \in {1, 2} /\ page.at[19] \in {1, 2})
            THEN Err("InvalidFileFormatVersion")
            ELSE IF page.at[20] >= page_size THEN Err("InvalidReservedSpace")
            ELSE IF TextEncoding(read_u32(page, 56)) = "none" THEN Err("InvalidTextEncoding")
            ELSE [ok |-> TRUE, h |-> Fields(page, page_size)]

journal_mode(h) == IF h.write_version = 2 /\ h.read_version = 2 THEN "Wal" ELSE "Legacy"
usable_page_size(h) == h.page_size - h.reserved_space

new_empty_page1(page_size) ==
  LET zero == [len |-> page_size, at |-> [o \in Kept |-> 0]]
      raw  == IF page_size = 65536 THEN 1 ELSE page_size
      head == put(put(put(put(zero, 0, MAGIC), 16, U16(raw)), 18, <<1>>), 19, <<1>>)
      fracs == put(put(put(head, 21, <<64>>), 22, <<32>>), 23, <<32>>)
      rest == put(put(put(fracs, 28, U32(1)), 44, U32(4)), 56, U32(1))
  IN put(put(rest, HEADER_LEN, <<13>>), HEADER_LEN + 5,
         U16(IF page_size = 65536 THEN 0 ELSE page_size))

-----------------------------------------------------------------------------
(* What the pager and the b-tree write into page 1.                        *)

PAGE_COUNT_OFFSET == 28
FREELIST_TRUNK_PAGE_OFFSET == 32
FREELIST_PAGE_COUNT_OFFSET == 36
SCHEMA_COOKIE_OFFSET == 40

write_be_u32(page, at, bytes) == put(page, at, bytes)

patch_journal_mode_bytes(page, value) == put(page, 18, value)

journal_mode_from_page1(page) ==
  IF page.at[18] = 2 /\ page.at[19] = 2 THEN "Wal" ELSE "Legacy"

read_content_start(page, header_start) ==
  LET v == read_u16(page, header_start + 5) IN IF v = 0 THEN 65536 ELSE v

write_content_start(page, header_start, value) ==
  put(page, header_start + 5, U16(IF value >= 65536 THEN 0 ELSE value))
=============================================================================
