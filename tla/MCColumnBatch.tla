--------------------------- MODULE MCColumnBatch ---------------------------
\* Tables and specs that reach every conversion, every generator and every
\* way a column can refuse a value, with integers of 4 to 16 bits.
EXTENDS ColumnBatch, SchemaText

MCIntMax == [TINYINT |-> 7, SMALLINT |-> 31, INT |-> 127, BIGINT |-> 511]
MCDerivedTop == [TINYINT |-> 7, SMALLINT |-> 31, INT |-> 100, BIGINT |-> 400, LARGEINT |-> 1023,
                 BITMAP |-> 200, FLOAT |-> 100, DOUBLE |-> 400, QUANTILE_STATE |-> 100]
\* The ends of a range, which the probes try too, and a point they do not.
MCSample(min, max) == {min, min + 1, max} \cap (min..max)
MCMinDate == -400
MCDefaultDecimal == <<3, 0>>
MCLegacyDecimal == <<4, 1>>

T(kind) == [k |-> kind]
Decimal(p, s) == [k |-> "DECIMAL", p |-> p, s |-> s]
DateTime(s) == [k |-> "DATETIME", s |-> s]
Char(n) == [k |-> "CHAR", len |-> n, varchar |-> FALSE]
Varchar(n) == [k |-> "CHAR", len |-> n, varchar |-> TRUE]
Array(ty) == [k |-> "ARRAY", of |-> ty]
Map(key, val) == [k |-> "MAP", key |-> key, val |-> val]
Struct(fields) == [k |-> "STRUCT", fields |-> fields]
A == Word("a", 1)
B == Word("b", 1)

Column(ty) == [name |-> "c1", ty |-> ty, nullable |-> FALSE]
Named(ty, name) == [Column(ty) EXCEPT !.name = name]
Loose(ty) == [Column(ty) EXCEPT !.nullable = TRUE]
Second(column) == [column EXCEPT !.name = "c2"]

Quoted(quote, inner) == <<quote>> \o inner \o <<quote>>

\* A plain CREATE TABLE: names, types as sql_name writes them, NOT NULL.
RECURSIVE Commas(_)
Commas(parts) == IF Len(parts) = 1 THEN parts[1] ELSE parts[1] \o <<",", " ">> \o Commas(Tail(parts))
NotNull == <<" ", "NOT", " ", "NULL">>
Entry(column) ==
    <<column.name, " ">> \o sql_name(column.ty) \o (IF column.nullable THEN <<>> ELSE NotNull)
Create(name, entries) ==
    <<"CREATE", " ", "TABLE", " ">> \o name \o <<" ", "(">> \o Commas(entries)
        \o <<")", " ", "ENGINE=OLAP", ";", NewLine>>
Plainly(cols) == Create(<<"t">>, [c \in DOMAIN cols |-> Entry(cols[c])])

Started(cols, given) ==
    [ddl |-> Plainly(cols), wanted |-> <<>>, meant |-> Ok(cols), spec |-> given, emit |-> FALSE]
Table(cols) == Started(cols, <<>>)
Given(cols, gens) == Started(cols, [c \in DOMAIN cols |-> Field(cols[c].name, gens[c])])
One(ty, gen) == Given(<<Column(ty)>>, <<gen>>)

ScalarTypes ==
    {T(k) : k \in DOMAIN MCIntMax \cup {"BOOLEAN", "LARGEINT", "FLOAT", "DOUBLE", "DATE", "STRING",
       "JSON", "IPV4", "IPV6", "BITMAP", "HLL", "QUANTILE_STATE", "AGG_STATE"}}
    \cup {Decimal(p, s) : p \in {1, 2, 4, 5, 6}, s \in 0..2} \cup {Decimal(6, 5), Decimal(3, 3)}
    \cup {DateTime(s) : s \in 0..2}
    \cup {Char(n) : n \in {0, 1, 2, 5, 64}} \cup {Varchar(n) : n \in {3, 63, 64, 70, 71, 72, 200}}

Mappable == {s \in ScalarTypes : s.k # "DECIMAL" \/ s.s <= s.p}

NestedTypes ==
    {Array(T("TINYINT")), Array(DateTime(1)), Array(Array(T("BOOLEAN"))), Array(T("AGG_STATE")),
     Map(Char(1), T("INT")), Map(Char(4), T("DATE")), Map(T("STRING"), T("BOOLEAN")), Map(Char(1), Array(T("BOOLEAN"))), Map(Varchar(8), T("BOOLEAN")),
     Map(T("DATE"), T("TINYINT")), Map(DateTime(0), T("BITMAP")), Map(Decimal(3, 2), T("TINYINT")),
     Map(T("BOOLEAN"), Decimal(2, 1)), Map(T("BOOLEAN"), Array(T("BOOLEAN"))), Map(Array(T("BOOLEAN")), T("BOOLEAN")), Map(Char(0), T("INT")),
     Struct(<<<<A, T("INT")>>, <<B, Char(3)>>>>),
     Struct(<<<<A, Array(T("BOOLEAN"))>>, <<B, Map(Char(1), T("BOOLEAN"))>>>>)}

\* A column whose quotes hold nothing.
Nameless == [Table(<<Named(T("INT"), "")>>) EXCEPT
               !.ddl = Create(<<"t">>, <<Quoted(BackTick, <<>>) \o <<" ", "INT">> \o NotNull>>)]

DerivedTables ==
    {Table(<<Column(ty)>>) : ty \in Mappable \cup NestedTypes}
    \cup {Table(<<Named(ty, name)>>) :
            ty \in {Varchar(63), Varchar(64), T("STRING"), T("INT")},
            name \in {"email", "uuid", "first_name", "full_name", "address", "country", "status", "id"}}
    \cup {Table(<<Column(T("BIGINT")), Second(Column(Array(T("BOOLEAN"))))>>), Nameless}

AB(a, b) == StructOf(<<<<A, a>>, <<B, b>>>>)
BA(a, b) == StructOf(<<<<B, b>>, <<A, a>>>>)

Counters == [n \in 1..2 |-> Str(ZeroPadded(98 * n - 97, 2))]
Readings == <<Str(Digits(1, 0)), Str(Digits(137, 2)), Str(Digits(15, 1)), Str(Digits(2, 0))>>

GivenSpecs ==
    { \* ranges and choices against narrow columns
      One(T("TINYINT"), int_range(-8, 7)), One(T("TINYINT"), int_range(0, 8)),
      One(T("SMALLINT"), float_range(-63, 62)), One(T("BITMAP"), int_range(-1, 5)),
      One(T("LARGEINT"), int_range(-32767, 32767)), One(T("LARGEINT"), sequence(505)),
      One(T("TINYINT"), sequence(7)),
      One(T("IPV6"), int_range(500, 600)), One(T("IPV6"), int_range(600, 700)),
      One(T("IPV4"), int_range(0, 256)), One(T("IPV4"), int_range(0, 255)),
      One(T("FLOAT"), float_range(-2000, 2002)), One(T("FLOAT"), choice(<<Infinite>>)),
      \* floats rounded past their ends, and generators that can draw nothing
      One(T("TINYINT"), RoundedWhole(float_range(0, 15))), One(T("TINYINT"), RoundedWhole(float_range(-17, 14))),
      One(T("BITMAP"), RoundedWhole(float_range(-1, 4))), One(T("LARGEINT"), RoundedWhole(float_range(-2, 5))),
      One(T("FLOAT"), RoundedWhole(float_range(-1999, 2000))), One(T("DOUBLE"), RoundedWhole(float_range(-3, 3))),
      One(T("INT"), int_range(5, 3)), One(T("STRING"), lorem(3, 1)),
      Given(<<Loose(T("INT"))>>, <<Nullable(choice(<<>>))>>),
      One(Array(T("INT")), array_of(int_range(5, 3), 0, 0)), One(Array(T("INT")), array_of(int_range(5, 3), 0, 1)),
      One(Struct(<<<<A, T("INT")>>>>), struct_of(<<<<A, float_range(3, 1)>>>>)),
      One(Map(T("INT"), T("INT")), map_of(int_range(0, 2), choice(<<>>), 0, 1)),
      Started(<<Column(T("INT"))>>, <<Field("c1", int_range(0, 1)), Field("c9", choice(<<>>))>>),
      \* generators whose report says little of what they draw, or that only bail out
      One(T("INT"), random_hex(1, 1)), One(Decimal(3, 1), random_hex(1, 1)), One(T("DOUBLE"), random_hex(1, 2)),
      One(T("BOOLEAN"), random_hex(1, 1)), One(Varchar(4), random_hex(1, 2)), One(Varchar(3), random_hex(1, 2)),
      One(T("STRING"), random_hex(1, 2)), One(Array(T("INT")), array_of(random_hex(1, 1), 0, 1)),
      One(T("INT"), sequence_string(Counters)), One(Varchar(2), sequence_string(Counters)),
      One(Varchar(1), sequence_string(Counters)), One(T("JSON"), sequence_string(Counters)),
      One(T("STRING"), sequence_string(<<Plain(4)>>)), One(T("INT"), sequence_string(<<Plain(4)>>)),
      One(Decimal(3, 1), fluctuating(Readings)), One(T("INT"), fluctuating(Readings)),
      One(Varchar(2), fluctuating(Readings)), One(Varchar(3), template(<<Plain(2), Plain(4)>>)),
      One(T("STRING"), template(<<Plain(2)>>)), One(T("FLOAT"), bailing(<<Infinite, Infinite>>)),
      One(T("INT"), bailing(<<Number(1), Number(5), Null>>)), One(T("DATE"), bailing(<<Moment(0, DayOnly)>>)),
      Given(<<Loose(T("INT"))>>, <<bailing(<<Number(1), Number(5), Null>>)>>),
      One(Array(T("INT")), array_of(bailing(<<Number(1)>>), 0, 1)),
      One(T("BOOLEAN"), choice(<<Flag(TRUE), Number(2), Str(Word("no", 2)), Str(Digits(1, 0)), Dec(0, 1)>>)),
      One(T("INT"), choice(<<Str(Digits(12, 0)), Dec(-19, 1), Flag(TRUE), Float(-3)>>)),
      One(T("INT"), choice(<<Str(Digits(15, 1))>>)),
      One(T("DOUBLE"), choice(<<Str(Digits(15, 1)), Dec(25, 2), Str(Word("inf", 3)), Number(3)>>)),
      One(Varchar(4), choice(<<Number(-123), Dec(-5, 1), Flag(TRUE)>>)),
      One(Varchar(4), choice(<<Dec(-5, 2), Plain(3)>>)), One(Varchar(20), lorem(1, 3)),
      One(Varchar(2), float_range(0, 4)), One(Varchar(4), float_range(-20, 20)),
      One(Varchar(3), int_range(-99, 999)), One(Varchar(3), DecimalRange(-1, 99, 1)),
      One(T("JSON"), choice(<<Str(Doc(List(<<Number(1)>>))), Number(1), Infinite>>)),
      One(T("JSON"), choice(<<Plain(4)>>)), One(T("STRING"), Nullable(lorem(1, 1))),
      Given(<<Loose(T("STRING"))>>, <<Nullable(lorem(1, 1))>>),
      \* decimals, typed and as text, finer and coarser than the column
      One(Decimal(3, 1), DecimalRange(0, 999, 1)), One(Decimal(3, 1), DecimalRange(0, 1000, 1)),
      One(Decimal(3, 1), DecimalRange(0, 100, 2)), One(Decimal(4, 3), DecimalRange(-9, 9, 0)),
      One(Decimal(4, 4), DecimalRange(0, 4, 0)), One(Decimal(4, 2), int_range(-99, 99)),
      One(Decimal(4, 2), float_range(-3, 3)), One(Decimal(3, 0), float_range(0, 4)),
      One(Decimal(6, 2), int_range(-500, 500)), One(Decimal(6, 1), DecimalRange(0, 10, 2)),
      One(Decimal(3, 2), choice(<<Str(Digits(15, 1)), Str(Digits(-999, 2)), Number(9), Dec(-150, 2)>>)),
      One(Decimal(3, 1), choice(<<Str(Digits(150, 2))>>)), One(Decimal(4, 0), choice(<<Number(-9999)>>)),
      \* moments before and after the epoch, at the calendar's edges
      One(T("DATE"), datetime_around(-401 * 200, 0, 0)), One(T("DATE"), datetime_around(-400 * 200, -1, 0)),
      One(DateTime(0), datetime_around(-301, 299, 2)), One(DateTime(1), datetime_around(-5, 5, 2)),
      One(DateTime(2), datetime_around(0, 301 * 200 - 1, 2)), One(DateTime(2), datetime_around(0, 301 * 200, 2)),
      One(T("DATE"), choice(<<Str(Time(399, 2)), Str(Time(-200, DayOnly))>>)),
      One(T("DATE"), choice(<<Plain(3)>>)),
      \* nested values: nulls, missing fields, lists for structs, structs for maps
      Given(<<Loose(Array(T("TINYINT")))>>, <<Nullable(array_of(Nullable(int_range(0, 7)), 0, 2))>>),
      Given(<<Loose(Struct(<<<<A, T("TINYINT")>>, <<B, Array(T("BOOLEAN"))>>>>))>>,
            <<choice(<<Null, AB(Number(1), List(<<Flag(TRUE), Null>>)), BA(Number(2), Null),
                       StructOf(<<<<B, List(<<>>)>>>>), List(<<Number(3), List(<<Flag(FALSE)>>)>>),
                       StructOf(<<<<A, Number(4)>>, <<A, Number(5)>>>>), Str(Doc(AB(Number(6), Null)))>>)>>),
      One(Struct(<<<<A, T("INT")>>>>), choice(<<AB(Number(1), Null)>>)),
      One(Struct(<<<<A, T("INT")>>>>), choice(<<List(<<Number(1), Number(2)>>)>>)),
      Given(<<Loose(Map(T("INT"), Map(T("STRING"), T("TINYINT"))))>>,
            <<choice(<<Null, MapOf(<<>>), MapOf(<<<<Number(1), AB(Number(1), Null)>>, <<Number(2), Null>>>>),
                       MapOf(<<<<Number(3), MapOf(<<<<Str(A), Number(7)>>>>)>>>>)>>)>>),
      One(Map(T("INT"), T("INT")), choice(<<MapOf(<<<<Null, Number(1)>>>>)>>)),
      One(Map(T("INT"), T("INT")), choice(<<MapOf(<<<<Number(1), Null>>, <<Str(Digits(1, 0)), Null>>>>)>>)),
      One(Map(T("INT"), T("INT")), map_of(float_range(2, 3), int_range(0, 5), 1, 2)),
      One(Map(T("STRING"), T("TINYINT")), map_of(lorem(1, 1), int_range(0, 9), 0, 2)),
      One(Map(T("TINYINT"), T("TINYINT")), map_of(int_range(0, 5), int_range(0, 8), 0, 2)),
      One(Array(T("INT")), choice(<<Str(Doc(Null)), Str(Doc(List(<<Number(1)>>)))>>)),
      Given(<<Loose(Array(T("INT")))>>, <<choice(<<Str(Doc(Null)), Str(Doc(List(<<Number(1)>>)))>>)>>),
      One(Array(T("INT")), choice(<<Plain(2)>>)), One(Array(T("INT")), template(<<Str(Doc(List(<<>>))), Plain(2)>>)),
      One(Struct(<<<<A, T("INT")>>>>), array_of(choice(<<Number(1)>>), 0, 2)),
      One(Map(T("STRING"), T("TINYINT")), struct_of(<<<<A, sequence(7)>>>>)),
      One(Map(T("STRING"), T("TINYINT")), struct_of(<<<<A, int_range(0, 7)>>, <<B, int_range(0, 7)>>>>)),
      One(Map(T("IPV4"), T("INT")), map_of(choice(<<Number(1), Str(Digits(1, 0))>>), choice(<<Number(5)>>), 1, 1)),
      One(Struct(<<<<A, Decimal(2, 0)>>>>), struct_of(<<<<A, DecimalRange(0, 10, 1)>>>>)),
      One(Struct(<<<<A, T("TINYINT")>>, <<B, T("TINYINT")>>>>),
          struct_of(<<<<A, int_range(0, 7)>>, <<B, choice(<<Number(1), Number(2), Number(8)>>)>>>>)),
      \* several columns: a later one refuses, one has no field
      Given(<<Column(T("TINYINT")), Second(Column(T("TINYINT")))>>, <<int_range(0, 3), sequence(7)>>),
      Given(<<Column(Array(T("TINYINT"))), Second(Column(T("INT")))>>,
            <<template(<<Str(Doc(List(<<Number(9)>>))), Str(Doc(List(<<>>)))>>), int_range(0, 3)>>),
      Started(<<Column(T("INT")), Second(Column(T("INT")))>>, <<Field("c2", int_range(0, 1))>>),
      Started(<<Column(T("INT")), Second(Column(T("TINYINT")))>>,
              <<Field("c2", int_range(0, 1)), Field("c1", int_range(0, 9))>>),
      One(Array(T("TINYINT")), array_of(int_range(0, 8), 0, 2))}

\* Specs whose fields read one another: every way three fields can, one of
\* them asking to come last; and paths that mean the same field, a field of
\* their full name, none, or their own; and names that are refused.
Reading(names, orders, needs) ==
    Started(<<Column(T("BOOLEAN"))>>,
            [f \in DOMAIN names |-> [Field(names[f], choice(<<Flag(TRUE)>>)) EXCEPT
                                       !.order = orders[f], !.needs = needs[f]]])
Dependencies ==
    {Reading(<<"c1", "b", "c">>, <<1, 0, 0>>, needs) :
       needs \in [1..3 -> SUBSET {<<"c1">>, <<"b">>, <<"c">>}]}
OrderedSpecs ==
    Dependencies \cup
    {Reading(<<"c1", "b">>, <<0, 0>>, <<{<<"b.x", "b">>, <<"b.y", "b">>}, {}>>),
     Reading(<<"c1", "b", "b.x">>, <<0, 0, 5>>, <<{<<"b.x.y", "b.x", "b">>}, {<<"c1">>}, {}>>),
     Reading(<<"c1", "b", "b.x">>, <<0, 0, 0>>, <<{<<"b.x", "b">>, <<"b">>}, {<<"b.x", "b">>}, {}>>),
     Reading(<<"c1", "b">>, <<0, 0>>, <<{}, {<<"b.x", "b">>}>>),
     Reading(<<"c1">>, <<0>>, <<{<<"z.x", "z">>}>>), Reading(<<"c1", "">>, <<0, 0>>, <<{}, {}>>),
     Reading(<<"c1", "c1">>, <<0, 0>>, <<{}, {}>>), Table(<<Column(T("INT")), Column(T("DATE"))>>)}

-----------------------------------------------------------------------------
\* The same columns as people write them: with comments, quoted names and
\* texts full of what the scanners look for, blanks, key clauses, modifiers.
Emitted(ddl, wanted, meant) == [ddl |-> ddl, wanted |-> wanted, meant |-> meant, spec |-> <<>>, emit |-> TRUE]

Trap == <<"is", " ", "NOT", " ", "NULL", ",", " ", "(", "<", "--", "/*", "#">>
Remark(quote) == <<" ", "COMMENT", " ">> \o Quoted(quote, Trap)
FieldRemark(quote) == <<" ", "COMMENT", " ">> \o Quoted(quote, <<"a", ",", "(", "NOT", " ", "NULL">>)

RECURSIVE Dressed(_)
Dressed(ty) ==
    CASE ty.k = "ARRAY" -> <<"ARRAY", "<">> \o Dressed(ty.of) \o NotNull \o <<">">>
      [] ty.k = "MAP" -> <<"MAP", "<", " ">> \o Dressed(ty.key) \o <<" ", ",", " ">>
                            \o Dressed(ty.val) \o <<" ", "NULL", ">">>
      [] ty.k = "STRUCT" ->
           <<"STRUCT", "<">> \o Commas([f \in DOMAIN ty.fields |->
               Quoted(BackTick, <<ty.fields[f][1].w>>) \o (IF f = 1 THEN <<" ", ":", " ">> ELSE <<" ">>)
                 \o Dressed(ty.fields[f][2]) \o FieldRemark(IF f = 1 THEN "'" ELSE "dquote")]) \o <<">">>
      [] ty.k = "DECIMAL" -> <<"NUMERIC", " ", "(", " ", ToString(ty.p), " ", ",", " ", ToString(ty.s), ")">>
      [] OTHER -> sql_name(ty)

DressedTypes ==
    {T("INT"), Varchar(8), Decimal(4, 2), Array(Array(T("BOOLEAN"))), Map(T("STRING"), Decimal(3, 1)),
     Struct(<<<<A, Array(Decimal(2, 1))>>, <<B, T("STRING")>>>>)}

Name(nullable) == IF nullable THEN <<"c1">> ELSE Quoted(BackTick, <<"c1">>)
MaybeNull(nullable) ==
    IF nullable THEN {<<>>, <<" ", "NULL">>} ELSE {NotNull, <<NewLine, "NOT", " ", " ", "NULL">>}
Tails ==
    {<<>>, Remark("'"), Remark("dquote"), <<" ", "COMMENT", " ">> \o Quoted("'", <<",", Escape, "'", "a", Escape, "'", ",">>),
     <<" ", "--", " ">> \o Trap \o <<NewLine>>, <<" ", "#", "'", NewLine>>, <<"/*">> \o Trap \o <<"'", "*/">>}

DressedTable(ty, nullable, null, tail) ==
    Emitted(Create(<<"t">>, <<Name(nullable) \o <<" ">> \o Dressed(ty) \o null \o tail, <<"c2", " ", "DATEV2">> \o NotNull>>),
            <<>>, Ok(<<[Column(ty) EXCEPT !.nullable = nullable], Second(Column(T("DATE")))>>))
DressedTables ==
    UNION {{DressedTable(ty, nullable, null, tail) :
              ty \in DressedTypes, null \in MaybeNull(nullable), tail \in Tails} :
           nullable \in BOOLEAN}

Int1 == <<"c1", " ", "INT", " ", "NOT", " ", "NULL">>
Int2 == <<"c2", " ", "INT">>
JustInt == Ok(<<Column(T("INT"))>>)
Both == Ok(<<Column(T("INT")), Second(Loose(T("INT")))>>)
Raw(words) == FlattenSeq([i \in DOMAIN words |-> IF i = 1 THEN <<words[i]>> ELSE <<" ", words[i]>>])
Lone(entry) == Create(<<"t">>, <<entry>>)
Typed(name, meant) == Emitted(Lone(<<"c1", " ">> \o name \o NotNull), <<>>, Ok(<<Column(meant)>>))
Refused(ddl) == Emitted(ddl, <<>>, Err)
TwoTables == Create(<<"t">>, <<Int1>>) \o Create(<<"u">>, <<Int1, Int2>>)

Statements ==
    { \* names, prefixes and whatever precedes or follows the column block
      Emitted(<<"--">> \o Create(<<"old">>, <<Int2>>) \o Create(<<"t">>, <<Int1>>), <<>>, JustInt),
      Emitted(Raw(<<"CREATE", "EXTERNAL", "TABLE", "IF", "NOT", "EXISTS", "db">>) \o <<".">> \o
              Quoted(BackTick, <<"u">>) \o <<"(">> \o Int1 \o <<")">>, <<"u">>, JustInt),
      Emitted(Raw(<<"CREATE", "DATABASE", "d">>) \o <<";">> \o TwoTables, <<"u">>, Both),
      Emitted(Raw(<<"CREATE", "TABLE">>) \o <<"(", ")">> \o Create(<<"t">>, <<Int1>>), <<>>, JustInt),
      Emitted(TwoTables, <<"t">>, JustInt), Emitted(TwoTables, <<>>, Err), Emitted(TwoTables, <<"v">>, Err),
      \* entries that are keys or indexes, and columns named like one
      Emitted(Create(<<"t">>, <<Int1, Raw(<<"INDEX", "i">>) \o <<" ", "(", "c1", ")">> \o Remark("'"), Int2,
                                Raw(<<"UNIQUE", "KEY">>) \o <<"(", "c1", ",", "c2", ")">>>>), <<>>, Both),
      Emitted(Lone(Quoted(BackTick, <<"KEY">>) \o <<" ", "INT">>), <<>>, Ok(<<[Loose(T("INT")) EXCEPT !.name = "KEY"]>>)),
      \* types under their other names, and what they mean without arguments
      Typed(<<"CHAR">>, Char(1)), Typed(<<"VARCHAR">>, Varchar(65533)), Typed(<<"VARCHAR", "(", "*", ")">>, Varchar(65533)),
      Typed(<<"DECIMAL">>, Decimal(3, 0)), Typed(<<"DECIMALV2">>, Decimal(4, 1)), Typed(<<"DECIMAL", "(", "2", ")">>, Decimal(2, 0)),
      Typed(<<"DATETIME">>, DateTime(0)), Typed(<<"INTEGER">>, T("INT")), Typed(<<"JSONB">>, T("JSON")),
      Typed(<<"REAL">>, T("FLOAT")), Typed(<<"VARIANT">>, T("VARIANT")),
      \* what the parser must refuse
      Refused(<<>>), Refused(Raw(<<"CREATE", "TABLE", "t">>)), Refused(Create(<<"t">>, <<<<>>>>)),
      Refused(Raw(<<"CREATE", "TABLE", "t">>) \o <<"(">> \o Int1 \o Remark("'")),
      Refused(Lone(<<"c1">>)), Refused(Lone(<<"c1", " ", "MONEY">>)), Refused(Lone(<<"c1", " ", "CHAR", "(", "x", ")">>)),
      Refused(Lone(<<"c1", " ">> \o sql_name(Decimal(7, 0)))), Refused(Lone(<<"c1", " ">> \o sql_name(Decimal(2, 3)))),
      Refused(Lone(<<"c1", " ">> \o sql_name(Decimal(0, 0)))), Refused(Lone(<<"c1", " ">> \o sql_name(DateTime(3)))),
      Refused(Lone(<<"c1", " ", "MAP", "<", "INT", ",", "INT", ",", "INT", ">">>)),
      Refused(Lone(<<"c1", " ">> \o sql_name(Struct(<<<<A, T("INT")>>, <<A, T("INT")>>>>)))),
      Refused(Lone(<<"c1", " ", "ARRAY", "<", ">">>)), Refused(Lone(<<"c1", " ", "STRUCT", "<", ">">>))}


\* Two blanks before a type whose last token but one closes a quoted text.
SpacedCases ==
    {Emitted(Lone(<<"c1">> \o gap \o <<"STRUCT", "<", "a", ":", "INT">> \o remark \o <<">">> \o NotNull),
             <<>>, Ok(<<Column(Struct(<<<<A, T("INT")>>>>))>>)) :
       gap \in {<<" ">>, <<" ", " ">>}, remark \in {<<>>, <<" ", "COMMENT", " ">> \o Quoted("'", <<"a">>)}}

\* Apostrophes, escaped, in the comments of two columns.
Apostrophes(n) == FlattenSeq([i \in 1..n |-> <<"it", Escape, "'">>])
Commented(entry, text) == entry \o <<" ", "COMMENT", " ">> \o Quoted("'", text)
EscapedCases ==
    {Emitted(Create(<<"t">>, <<Commented(Int1, Apostrophes(n) \o more), Commented(Int2, Apostrophes(m))>>), <<>>, Both) :
       n \in 0..3, m \in 0..2, more \in {<<>>, <<",", " ", "ok">>}}

MCCases == DerivedTables \cup GivenSpecs \cup OrderedSpecs \cup DressedTables \cup Statements \cup EscapedCases
AllCases == MCCases \cup SpacedCases

\* All types and values the cases lead to, with what they are made of.
RECURSIVE MCTypesIn(_)
MCTypesIn(ty) == {ty} \cup UNION {MCTypesIn(part) : part \in PartsOf(ty)}
Declared == UNION {{column.ty : column \in ToSet(x.meant[1])} : x \in {y \in AllCases : IsOk(y.meant)}}
MCTypes == UNION {MCTypesIn(ty) : ty \in ScalarTypes \cup Declared}

RECURSIVE GensIn(_)
GensIn(g) == {g} \cup UNION {GensIn(part) : part \in GenPartsOf(g)}
GivenIn(x) == {x.spec[f].gen : f \in DOMAIN x.spec}
DerivedIn(x) ==
    IF ~IsOk(x.meant) \/ x.spec # <<>> THEN {}
    ELSE {generator_for(column) : column \in {c \in ToSet(x.meant[1]) : is_generatable(c.ty)}}
MCGens == UNION {GensIn(g) : g \in UNION {GivenIn(x) \cup DerivedIn(x) : x \in AllCases}}
RECURSIVE MCValuesIn(_)
MCValuesIn(v) ==
    {v} \cup UNION {MCValuesIn(part) : part \in
        CASE v.k = "list"   -> ToSet(v.items)
          [] v.k = "map"    -> UNION {ToSet(v.entries[i]) : i \in DOMAIN v.entries}
          [] v.k = "struct" -> UNION {{Str(v.fields[i][1]), v.fields[i][2]} : i \in DOMAIN v.fields}
          [] v.k = "str"    -> ToSet(ParseJson(v.text))
          [] OTHER -> {}}
\* Values as written or reported, with their parts, and those drawn, whose
\* parts another generator draws.
Written == UNION {ToSet(g.values) : g \in {h \in MCGens : h.g \in {"choice", "opaque"}}}
Reported == UNION {ToSet(probe_values(g)) : g \in MCGens}
FieldNames == UNION {{Str(g.fields[f][1]) : f \in DOMAIN g.fields} : g \in {h \in MCGens : h.g = "struct"}}
AllValues ==
    {v : v \in UNION ({{Null}, FieldNames} \cup {MCValuesIn(v) : v \in Written \cup Reported} \cup
                      {Draws(g) : g \in MCGens})}
\* A constant's own definition is evaluated at every use, what it names once.
MCValues == AllValues
=============================================================================
