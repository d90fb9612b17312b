------------------------------ MODULE MCFormats ------------------------------
(***************************************************************************)
(* The file formats and what changes them, one subject per behaviour: the  *)
(* splices of a leaf page, the statements of the catalog, the journal mode *)
(* that page 1 names, or one input of the record, DDL, header, rendering   *)
(* or Parquet code.  The machines of the other subjects stay in their      *)
(* initial states.                                                         *)
(***************************************************************************)
EXTENDS LeafPage, Catalog, ModeSwitch, ParquetFormat

-----------------------------------------------------------------------------
\* Leaf page: cells shorter than a freeblock header, as long, and longer.
MCCellLen == [a |-> 3, b |-> 3, c |-> 4, d |-> 5, e |-> 7]

-----------------------------------------------------------------------------
\* Catalog.
MCIndexOf == [t |-> "t_index", u |-> "u_index"]
MCVals == {<<0>>, <<1, 1>>, <<1, 2>>, <<2, 1>>}

-----------------------------------------------------------------------------
\* Records: integers at the edges of every width.
Ones(k)  == [b \in 0 .. 63 |-> IF b < k THEN 1 ELSE 0]
High(k)  == [b \in 0 .. 63 |-> IF b >= k THEN 1 ELSE 0]
One(k)   == [b \in 0 .. 63 |-> IF b = k THEN 1 ELSE 0]
Mixed(k) == [b \in 0 .. 63 |-> IF b <= k /\ (k - b) % 3 = 0 THEN 1 ELSE 0]
MCWords == {f[k] : k \in 0 .. 63, f \in {[i \in 0 .. 63 |-> Ones(i)], [i \in 0 .. 63 |-> High(i)], [i \in 0 .. 63 |-> One(i)], [i \in 0 .. 63 |-> Mixed(i)]}}
Edges == {7, 8, 15, 16, 23, 24, 31, 32, 47, 48, 63}
Ints  == {R!Integer(w) : w \in {R!Zero64, One(0), High(0)} \cup {Ones(k) : k \in Edges} \cup {High(k) : k \in Edges}}
Inf   == [b \in 0 .. 63 |-> IF b \in 52 .. 62 THEN 1 ELSE 0]
Reals == {R!Real(w) : w \in {R!Zero64, Inf, [Inf EXCEPT ![3] = 1]}}
Bytes == {R!Blob([i \in 1 .. n |-> (17 * i) % 256]) : n \in {0, 1, 57, 58}}
Chars == {R!Text(s) : s \in {<< >>, <<97>>, <<233, 8364>>, <<128512, 97>>, [i \in 1 .. 58 |-> 65]}}
Encodings == {"Utf8", "Utf16Le", "Utf16Be"}
RowVals == Ints \cup Reals \cup Bytes \cup Chars \cup {R!Null}
MCRecordRows == ({<<v, R!Text(<<233>>), R!Integer(Ones(40))>> : v \in RowVals} \X Encodings)
          \cup {<<[i \in 1 .. n |-> R!Null], "Utf8">> : n \in {0, 1, 2, 9}}
MCHeads == {0, 1, 5} \cup (120 .. 130) \cup (16376 .. 16386)

-----------------------------------------------------------------------------
\* DDL.
Leads == {<<"-", "-", "x", ",", "\n">>, <<"/", "*", "(", "*", "/", " ">>}
Names == {<<<<"a">>, <<"a">>>>, <<<<"e", " ", "f">>, <<"\"", "e", " ", "f", "\"">>>>, <<<<"unique_id">>, <<"unique_id">>>>,
  <<<<"b">>, <<"\"", "b", "\"">>>>, <<<<"c">>, <<"[", "c", "]">>>>, <<<<"d">>, <<"tick", "d", "tick">>>>}
Types == {<< >>, <<<<"INTEGER">>>>, <<<<"DOUBLE">>, <<"PRECISION">>>>, <<<<"DECIMAL", "(", "1", ",", "2", ")">>>>}
Rests == {<<"BINARY", << >>>>, <<"BINARY", <<"NOT", " ", "NULL">>>>,
          <<"BINARY", <<"DEFAULT", " ", "'", ",", "'">>>>,
          <<"BINARY", <<"DEFAULT", " ", "'", "'", "'", ")", "'">>>>,
          <<"BINARY", <<"CHECK", "(", "a", ",", "b", ")">>>>,
          <<"NOCASE", <<"COLLATE", " ", "NOCASE">>>>,
          <<"RTRIM", <<"NOT", " ", "NULL", " ", "COLLATE", " ", "\"", "RTRIM", "\"">>>>,
          <<"BINARY", <<"PRIMARY", " ", "KEY", " ", "-", "-", ",", "'", "\n">>>>,
          <<"BINARY", <<"UNIQUE", " ", "/", "*", "(", ",", "*", "/">>>>,
          <<"BINARY", <<"/", "*", "'", ",", "*", "/">>>>,
          <<"BINARY", <<"GENERATED", " ", "ALWAYS", " ", "AS", " ", "(", "a", ",", "b", ")">>>>,
          <<"BINARY", <<"CONSTRAINT", " ", "k", " ", "NOT", " ", "NULL">>>>,
          <<"BINARY", <<"DEFAULT", " ", "'", "COLLATE", " ", "NOCASE", " ", ",", "'">>>>}
Column(n, t, r) == [lead |-> << >>, name |-> n[1], text |-> n[2], type |-> t, collation |-> r[1], rest |-> r[2]]
ColumnDefs == {Column(n, t, r) : n \in Names, t \in Types, r \in Rests}
Led        == {[c EXCEPT !.lead = l] : l \in Leads, c \in {x \in ColumnDefs : x.type = <<<<"INTEGER">>>>}}
Second  == Column(<<<<"b">>, <<"b">>>>, <<<<"TEXT">>>>, <<"NOCASE", <<"COLLATE", " ", "NOCASE">>>>)
Leads1       == CHOOSE x \in Leads : x[1] = "-"
TableKey     == <<"PRIMARY", " ", "KEY", "(", "a", ",", "b", ")">>
Trailers == {<< >>, <<" ", "WITHOUT", " ", "ROWID">>, <<" ", "STRICT", ",", " ", "WITHOUT", " ", "ROWID">>}
Tabled ==
  {[columns |-> cs, constraints |-> ks, trailer |-> t] :
     cs \in {<<c, Second>> : c \in ColumnDefs \cup Led} \cup {<<Second, c>> : c \in ColumnDefs \cup Led},
     ks \in {<< >>, <<TableKey>>, <<Leads1 \o TableKey>>}, t \in Trailers}
MCTableDefs == {t \in Tabled : (t.constraints = << >>) = (t.trailer = << >>)}
Orders == {<<FALSE, << >>>>, <<FALSE, <<" ", "ASC">>>>, <<TRUE, <<" ", "DESC">>>>}
Colls == {<<"BINARY", << >>>>, <<"NOCASE", <<" ", "COLLATE", " ", "NOCASE">>>>, <<"RTRIM", <<" ", "COLLATE", " ", "RTRIM">>>>}
IndexColumns ==
  {[name |-> n[1], text |-> n[2], desc |-> w[1], collation |-> c[1], rest |-> c[2] \o w[2]] :
     n \in Names \ {<<<<"unique_id">>, <<"unique_id">>>>}, w \in Orders, c \in Colls}
MCIndexDefs == {[columns |-> cs, unique |-> u] : u \in BOOLEAN,
                cs \in {<<c>> : c \in IndexColumns} \cup {<<c, CHOOSE x \in IndexColumns : x.desc>> : c \in IndexColumns}}

-----------------------------------------------------------------------------
\* Page 1, and rows that are printed.
MCSizes == {2 ^ k : k \in 9 .. 16}
MCFieldBytes == {<<0,0,0,0>>, <<0,0,0,1>>, <<255,254,253,252>>}
Strs == {<< >>, <<97>>, <<34>>, <<97, 34, 34, 44>>, <<44, 97>>, <<10>>, <<97, 0, 98>>, <<88, 39, 39>>, <<233>>, <<39>>}
ShownVals == {[t |-> "null"], [t |-> "integer", i |-> -120], [t |-> "integer", i |-> 0], [t |-> "real", r |-> <<49, 46, 48>>]}
  \cup {[t |-> k, s |-> x] : k \in {"text", "blob"}, x \in Strs}
MCShown == {<<a>> : a \in ShownVals} \cup {<<a, b>> : a, b \in ShownVals} \cup {<<a, b, [t |-> "null"]>> : a, b \in ShownVals}

-----------------------------------------------------------------------------
\* Parquet.
T(t, v) == [t |-> t, v |-> v]
Prims == {T("bool", TRUE), T("bool", FALSE), T("byte", -3), T("i16", 300), T("i32", -64), T("i64", 8192),
  T("double", <<1,2,3,4,5,6,7,8>>), T("binary", <<1,2,3>>), T("binary", << >>)}
Comps == {T("list", << >>), T("list", [i \in 1 .. 17 |-> T("i32", i)]), T("list", <<T("bool", TRUE), T("bool", FALSE)>>),
  T("map", << >>), T("map", << <<T("i32", 1), T("binary", <<9>>)>>, <<T("i32", -1), T("binary", << >>)>> >>),
  T("list", <<T("struct", <<<<1, T("bool", FALSE)>>, <<20, T("i32", 5)>>>>), T("struct", << >>)>>),
  T("struct", <<<<3, T("struct", <<<<2, T("i64", 1)>>>>)>>>>)}
MCThrift == {<< >>} \cup {<<<<i, a>>>> : i \in {1, 15, 16, 130}, a \in Prims \cup Comps}
  \cup {<<<<2, a>>, <<i, b>>, <<i + 1, T("i32", 7)>>>> : i \in {1, 3, 17, 18}, a \in Prims \cup Comps, b \in Prims}
SmallSeqs(S, n) == UNION {[1 .. k -> S] : k \in 0 .. n}
MCLevels == {<<s, w, st>> : s \in SmallSeqs({0, 1}, 3) \cup {[i \in 1 .. n |-> (i \div 3) % 2] : n \in {7, 8, 9, 16, 17, 20}}, w \in {1, 2, 3}, st \in {"runs", "packed", "both"}}
  \cup {<<[i \in 1 .. n |-> (i * i * 37) % (2 ^ w)], w, st>> : n \in {1, 8, 9, 12}, w \in {4, 7, 8, 9, 12}, st \in {"runs", "packed", "both"}}
Largest  == Q!FromBits([b \in 0 .. 63 |-> IF b = 63 THEN 0 ELSE 1])
Smallest == Q!FromBits([b \in 0 .. 63 |-> IF b = 63 THEN 1 ELSE 0])
MCDeltas == SmallSeqs({Q!Word(-5), Q!Word(0), Largest, Smallest}, 4)
  \cup {[i \in 1 .. n |-> Q!Word(((i * i * 71) % 100) - 50)] : n \in 5 .. 20} \cup {[i \in 1 .. 9 |-> Q!Word(7)]}
MCTexts == SmallSeqs({1, 2}, 7) \cup {[i \in 1 .. n |-> i % p] : n \in {9, 12, 20, 60, 61, 64, 70}, p \in {1, 3, 200}}
MCDecimals == {0, 1, -1, 9, -10, 105, -12345, 100000} \X {-2, 0, 1, 2, 4, 6}
Bytes8(n) == [i \in 1 .. 8 |-> (n * i) % 256]
Small32  == <<1, -2, 70000>>
Instants == <<[day |-> 1, sec |-> 86399, micro |-> 999000, nano |-> 999], [day |-> -1, sec |-> 1, micro |-> 1000, nano |-> 0],
              [day |-> 20000, sec |-> 43200, micro |-> 0, nano |-> 1]>>
\* Cut short, too long a form, a surrogate, and no first byte of anything.
MCNotUtf8 == {<<97, 195>>, <<192, 128>>, <<237, 160, 128>>, <<255>>}
\* A kind of column and three values of it.
Kinds == {<<"Int32", << >>, << >>, << >>, Small32>>, <<"Int32", << >>, <<5>>, <<2>>, Small32>>,
  <<"Int64", << >>, <<9>>, << >>, Instants>>, <<"Int64", << >>, <<10>>, << >>, Instants>>,
  <<"Int64", << >>, << >>, << >>, <<Q!Word(-300), Largest, Smallest>>>>,
  <<"Int64", << >>, <<5>>, <<0>>, <<Q!Word(1), Q!Word(-300), Q!Word(70000)>>>>,
  <<"Boolean", << >>, << >>, << >>, <<TRUE, FALSE, TRUE>>>>, <<"Int96", << >>, << >>, << >>, Instants>>,
  <<"Float", << >>, << >>, << >>, <<<<1,2,3,4>>, <<0,0,0,0>>, <<255,1,2,3>>>>>>,
  <<"Double", << >>, << >>, << >>, <<Bytes8(1), Bytes8(77), Bytes8(0)>>>>,
  <<"ByteArray", << >>, << >>, << >>, <<<<97>>, << >>, <<240, 159, 152, 128>>>>>>,
  <<"FixedLenByteArray", <<2>>, <<5>>, <<3>>, <<<<0, 5>>, <<255, 254>>, <<128, 0>>>>>>}
  \cup {<<"ByteArray", << >>, << >>, << >>, <<<<97>>, << >>, s>>>> : s \in MCNotUtf8}
\* 0 is a null; a number below 4 a value; many rows make more than one packed group.
Shapes == {<< >>, <<<<1>>>>, <<<<0, 0>>>>, <<<<1, 2, 3>>, <<2, 0, 1>>>>, <<<<0, 1, 1>>, <<3>>>>, <<<<2, 1, 1, 2, 3, 0, 1, 2, 2, 2>>, <<1, 1>>>>}
Ways(type, n) == [1 .. n -> {"plain", "dict"} \cup IF type = "Int64" THEN {"delta"} ELSE {}]
Required == {p \in Shapes : \A i \in DOMAIN p : \A k \in DOMAIN p[i] : p[i][k] > 0}
MCFlat == UNION {{[type |-> k[1], optional |-> o, codec |-> c, len |-> k[2], conv |-> k[3], scale |-> k[4], ways |-> w,
   pages |-> [p \in DOMAIN sh |-> [i \in DOMAIN sh[p] |-> IF sh[p][i] = 0 THEN << >> ELSE <<k[5][sh[p][i]]>>]]] :
     w \in Ways(k[1], Len(sh)), o \in IF sh \in Required THEN BOOLEAN ELSE {TRUE}, c \in {0, 1, 6}} : sh \in Shapes, k \in Kinds}
Name(k) == <<96 + k>>
Node(name, rep, kids, conv) == [name |-> name, rep |-> rep, type |-> "Int32", kids |-> kids, conv |-> conv, len |-> << >>, scale |-> << >>]
IntLeaf(k, rep) == Leaf(Name(k), rep, "Int32")
TextLeaf(k, rep) == Leaf(Name(k), rep, "ByteArray")
BoolLeaf(k, rep) == Leaf(Name(k), rep, "Boolean")
Opt(s) == {<< >>} \cup {<<x>> : x \in s}
Nest(rep) == Node(<<115>>, rep, <<IntLeaf(1, "Optional"), Node(<<116>>, "Optional", <<TextLeaf(2, "Optional"), BoolLeaf(3, "Required")>>, << >>)>>, << >>)
NestVals == {<<a, b>> : a \in {<< >>, <<5>>}, b \in Opt({<<x, y>> : x \in {<< >>, <<<<97>>>>}, y \in {TRUE}})}
List3(rep, el) == Node(<<108>>, rep, <<Node(<<109>>, "Repeated", <<el>>, << >>)>>, <<3>>)
List2(rep) == Node(<<108>>, rep, <<IntLeaf(1, "Repeated")>>, <<3>>)
MapOf(rep) == Node(<<109>>, rep, <<Node(<<107>>, "Repeated", <<TextLeaf(1, "Required"), IntLeaf(2, "Optional")>>, << >>)>>, <<1>>)
Elements3 == {<<v>> : v \in {<< >>, <<4>>}}
Lists3 == {<<l>> : l \in SmallSeqs(Elements3, 2)}
Lists3R == {<<l>> : l \in SmallSeqs({<<TRUE>>, <<FALSE>>}, 2) \cup {[i \in 1 .. 9 |-> <<i % 2 = 1>>]}}
Lists2 == {<<l>> : l \in SmallSeqs({7, 8}, 2)}
MapVals == {<<l>> : l \in SmallSeqs({<<<<97>>, << >>>>, <<<<98>>, <<3>>>>}, 2)}
PagesOf(n, vals) == {<<n, <<<<x, y>>>>>> : x, y \in vals} \cup {<<n, <<<<x>>, <<y, x>>>>>> : x, y \in vals}
MCNested == PagesOf(Nest("Optional"), Opt(NestVals)) \cup PagesOf(Nest("Required"), NestVals)
  \cup PagesOf(List3("Optional", IntLeaf(1, "Optional")), Opt(Lists3)) \cup PagesOf(List3("Required", BoolLeaf(1, "Required")), Lists3R)
  \cup PagesOf(List2("Optional"), Opt(Lists2)) \cup PagesOf(MapOf("Optional"), Opt(MapVals)) \cup PagesOf(MapOf("Required"), MapVals)

-----------------------------------------------------------------------------
Formatted == RecordSubjects \cup DdlSubjects \cup HeaderSubjects \cup RenderSubjects \cup ParquetSubjects

FormatsInit ==
  /\ Init /\ CatalogInit /\ ModeInit
  /\ subject \in {<<"leaf page">>, <<"catalog">>, <<"journal mode">>} \cup Formatted

\* A value of one of the formats is written and read back.
ReadBack ==
  /\ subject[1] \notin {"leaf page", "catalog", "journal mode", "done"}
  /\ subject' = <<"done">>
  /\ UNCHANGED <<vars, catalog, modes>>

FormatsNext ==
  \/ ReadBack
  \/ subject[1] = "leaf page" /\ Next /\ UNCHANGED <<catalog, modes, subject>>
  \/ subject[1] = "catalog" /\ CatalogNext /\ UNCHANGED <<vars, modes, subject>>
  \/ subject[1] = "journal mode" /\ ModeNext /\ UNCHANGED <<vars, catalog, subject>>

FormatsSpec == FormatsInit /\ [][FormatsNext]_<<vars, catalog, modes, subject>>
=============================================================================
