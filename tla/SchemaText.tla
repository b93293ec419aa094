----------------------------- MODULE SchemaText -----------------------------
(***************************************************************************)
(* Reading a table out of Doris DDL: src/src/schema.rs, from the text of a *)
(* schema file to columns with types and nullability.                      *)
(*                                                                         *)
(* A text is a sequence of tokens: words (identifiers, keywords, numbers), *)
(* the single characters the scanners look at, and the comment marks "--", *)
(* "#", "/*" and "*/".  No two words stand side by side.  Keywords are in  *)
(* capitals: the code compares them without regard to case.                *)
(***************************************************************************)
EXTENDS Columns, FiniteSetsExt

CONSTANTS
    DECIMAL256_MAX_PRECISION,
    DefaultDecimal, LegacyDecimal   \* <<precision, scale>> without arguments

BackTick == "backtick"
Quotes == {BackTick, "'", "dquote"}
Escape == "backslash"
NewLine == "newline"
Blanks == {" ", NewLine}
Marks == Quotes \cup Blanks \cup {Escape, "(", ")", "<", ">", ",", ":", ".", ";", "*", "--", "#", "/*", "*/"}
IsWord(tok) == tok \notin Marks

Least(hits) == IF hits = {} THEN Err ELSE Ok(Min(hits))
FirstWhere(s, Test(_)) == Least({i \in DOMAIN s : Test(s[i])})
Positions(s, Test(_)) == SelectSeq([i \in DOMAIN s |-> i], Test)
From(s, i) == SubSeq(s, i, Len(s))
Trim(s) ==
    LET ink == {i \in DOMAIN s : s[i] \notin Blanks}
    IN  IF ink = {} THEN <<>> ELSE SubSeq(s, Min(ink), Max(ink))
Joined(s) == FoldLeft(LAMBDA text, tok : text \o tok, "", s)
-----------------------------------------------------------------------------
(* Scanners.                                                               *)

\* The quote open before each token and, where the scanner knows backslashes,
\* whether one has just escaped it: `seen` covers the tokens up to its length.
QuoteAfter(q, tok, escapes) ==
    CASE q.esc -> [q EXCEPT !.esc = FALSE]
      [] ~q.esc /\ q.open \notin {"", BackTick} /\ escapes /\ tok = Escape -> [q EXCEPT !.esc = TRUE]
      [] ~q.esc /\ q.open # "" /\ tok = q.open -> [q EXCEPT !.open = ""]
      [] ~q.esc /\ q.open = "" /\ tok \in Quotes -> [q EXCEPT !.open = tok]
      [] OTHER -> q

RECURSIVE QuotingFrom(_, _, _), DepthsFrom(_, _, _, _, _)
QuotingFrom(s, escapes, seen) ==
    IF Len(seen) > Len(s) THEN seen
    ELSE QuotingFrom(s, escapes, Append(seen, QuoteAfter(seen[Len(seen)], s[Len(seen)], escapes)))

Quoting(s, escapes) == QuotingFrom(s, escapes, <<[open |-> "", esc |-> FALSE]>>)

Outside(s, escapes) ==
    LET at == Quoting(s, escapes) IN [i \in DOMAIN s |-> at[i].open = "" /\ s[i] \notin Quotes]

\* How many of the brackets read outside quotes are open before each token.
DepthsFrom(s, outside, opening, closing, seen) ==
    LET depth == seen[Len(seen)]
        tok == s[Len(seen)]
        after == IF outside[Len(seen)] /\ tok \in opening THEN depth + 1
                 ELSE IF outside[Len(seen)] /\ tok \in closing /\ depth > 0 THEN depth - 1
                 ELSE depth
    IN  IF Len(seen) > Len(s) THEN seen
        ELSE DepthsFrom(s, outside, opening, closing, Append(seen, after))

Depths(s, outside, opening, closing) == DepthsFrom(s, outside, opening, closing, <<0>>)

\* The first bracket that leaves none open.
FirstClosing(s, outside, opening, closing) ==
    LET depth == Depths(s, outside, {opening}, {closing})
    IN  Least({i \in DOMAIN s : outside[i] /\ s[i] = closing /\ depth[i + 1] = 0})

match_paren(s, open) ==
    LET t == From(s, open)
    IN  Then(FirstClosing(t, Outside(t, TRUE), "(", ")"), LAMBDA i : Ok(open + i - 1))

Everywhere(s) == [i \in DOMAIN s |-> TRUE]

\* The pieces between the commas that no bracket encloses.
Pieces(s, outside) ==
    LET depth == Depths(s, outside, {"(", "<"}, {")", ">"})
        cuts == <<0>> \o Positions(s, LAMBDA i : outside[i] /\ s[i] = "," /\ depth[i] = 0)
                     \o <<Len(s) + 1>>
    IN  [n \in 1..Len(cuts) - 1 |-> SubSeq(s, cuts[n] + 1, cuts[n + 1] - 1)]

\* Seeded fault: commas inside quotes split too.
SplitUnquoted(s) == Pieces(s, Everywhere(s))

split_top_level(s) == Pieces(s, Outside(s, FALSE))

TrimmedPieces(s) == LET parts == split_top_level(s) IN [n \in DOMAIN parts |-> Trim(parts[n])]

strip_string_literals(s) ==
    LET outside == Outside(s, TRUE) IN [i \in DOMAIN s |-> IF outside[i] THEN s[i] ELSE " "]

RECURSIVE strip_comments(_)
\* Drops line and block comments; a quoted literal is copied whole, escapes
\* and all.
strip_comments(s) ==
    LET skip(ends) == LET stop == FirstWhere(s, LAMBDA tok : tok \in ends)
                      IN  IF IsOk(stop) THEN From(s, stop[1] + 1) ELSE <<>>
        at == Quoting(s, TRUE)
        closing == {i \in 2..Len(s) : at[i].open # "" /\ at[i + 1].open = ""}
        literal == IF closing = {} THEN Len(s) ELSE Min(closing)
    IN  CASE s = <<>> -> <<>>
          [] s # <<>> /\ s[1] \in Quotes -> SubSeq(s, 1, literal) \o strip_comments(From(s, literal + 1))
          [] s # <<>> /\ s[1] \in {"--", "#"} -> <<NewLine>> \o strip_comments(skip({NewLine}))
          [] s # <<>> /\ s[1] = "/*" -> <<" ">> \o strip_comments(skip({"*/"}))
          [] OTHER -> <<s[1]>> \o strip_comments(Tail(s))

\* The runs of tokens between blanks, as split_whitespace sees them.
SpacedWords(s) ==
    LET starts == Positions(s, LAMBDA i : s[i] \notin Blanks /\ (i = 1 \/ s[i - 1] \in Blanks))
        end(i) == Max({j \in i..Len(s) : \A k \in i..j : s[k] \notin Blanks})
    IN  [n \in DOMAIN starts |-> Joined(SubSeq(s, starts[n], end(starts[n])))]

contains_word(s, phrase) ==
    LET words == SpacedWords(s)
    IN  \E i \in 1..Len(words) - Len(phrase) + 1 : SubSeq(words, i, i + Len(phrase) - 1) = phrase
-----------------------------------------------------------------------------
(* Types.                                                                  *)

\* A name and the tokens it took: between backticks, or one word.
read_ident(s) ==
    LET close == FirstWhere(Tail(s), LAMBDA tok : tok = BackTick) IN
    CASE s = <<>> -> Err
      [] s # <<>> /\ s[1] = BackTick ->
           IF IsOk(close) THEN Ok([name |-> Joined(SubSeq(s, 2, close[1])), used |-> close[1] + 1]) ELSE Err
      [] s # <<>> /\ IsWord(s[1]) -> Ok([name |-> s[1], used |-> 1])
      [] OTHER -> Err

\* Past the parentheses that follow the name, if they do.
ArgumentsEnd(s, name) ==
    LET next == {i \in (name + 1)..Len(s) : s[i] \notin Blanks}
        paren == next # {} /\ s[Min(next)] = "("
        close == IF paren THEN match_paren(s, Min(next)) ELSE Err
    IN  IF IsOk(close) THEN close[1] ELSE name

\* Where a column's type ends: its name, then an angle-bracket or a
\* parenthesised argument list.  Quotes inside the angle brackets are not seen.
read_type_token(s) ==
    LET word == IF s # <<>> /\ IsWord(s[1]) THEN 1 ELSE 0
        angled == Len(s) > word /\ s[word + 1] = "<"
        close == FirstClosing(s, Everywhere(s), "<", ">")
    IN  ArgumentsEnd(s, IF ~angled THEN word ELSE IF IsOk(close) THEN close[1] ELSE Len(s))

EndsWith(s, suffix) == Len(s) >= Len(suffix) /\ From(s, Len(s) - Len(suffix) + 1) = suffix

strip_nullability(s) ==
    LET notNull == <<" ", "NOT", " ", "NULL">>
        null == <<" ", "NULL">>
    IN  IF EndsWith(s, notNull) THEN Trim(SubSeq(s, 1, Len(s) - 4))
        ELSE IF EndsWith(s, null) THEN Trim(SubSeq(s, 1, Len(s) - 2))
        ELSE s

cut_at_top_level_keyword(s, keyword) ==
    LET blanked == strip_string_literals(s)
        depth == Depths(blanked, Everywhere(s), {"(", "<"}, {")", ">"})
        hits == {i \in DOMAIN s : blanked[i] = keyword /\ depth[i] = 0}
    IN  IF hits = {} THEN s ELSE Trim(SubSeq(s, 1, Min(hits) - 1))

Numerals == [n \in 0..300 |-> ToString(n)]
ParseNumber(s) ==
    LET ns == {n \in DOMAIN Numerals : <<Numerals[n]>> = s} IN IF ns = {} THEN Err ELSE Ok(Min(ns))

Scalar(kind) == [k |-> kind]
ScalarNames ==
    [BOOLEAN |-> "BOOLEAN", BOOL |-> "BOOLEAN", TINYINT |-> "TINYINT", SMALLINT |-> "SMALLINT",
     INT |-> "INT", INTEGER |-> "INT", BIGINT |-> "BIGINT", LARGEINT |-> "LARGEINT",
     FLOAT |-> "FLOAT", REAL |-> "FLOAT", DOUBLE |-> "DOUBLE",
     DATE |-> "DATE", DATEV1 |-> "DATE", DATEV2 |-> "DATE",
     STRING |-> "STRING", TEXT |-> "STRING", JSON |-> "JSON", JSONB |-> "JSON", VARIANT |-> "VARIANT",
     IPV4 |-> "IPV4", IPV6 |-> "IPV6", BITMAP |-> "BITMAP", HLL |-> "HLL",
     QUANTILE_STATE |-> "QUANTILE_STATE", AGG_STATE |-> "AGG_STATE"]

\* A type's arguments: the i-th, or what the type means without one.
Argument(args, i, fallback) == IF i > Len(args) THEN Ok(fallback) ELSE ParseNumber(args[i])

ScalarType(name, args) ==
    LET arg(i, fallback) == Argument(args, i, fallback)
        default == IF name = "DECIMALV2" THEN LegacyDecimal ELSE DefaultDecimal
        p == arg(1, default[1])
        s == arg(2, default[2])
        digits == arg(1, 0)
        len == IF name = "CHAR" THEN arg(1, 1)
               ELSE IF args # <<>> /\ args[1] = <<"*">> THEN Ok(65533) ELSE arg(1, 65533)
    IN  CASE name \in DOMAIN ScalarNames -> Ok(Scalar(ScalarNames[name]))
          [] name \in {"DECIMAL", "DECIMALV2", "DECIMALV3", "NUMERIC"} ->
               IF IsOk(p) /\ IsOk(s) /\ p[1] \in 1..DECIMAL256_MAX_PRECISION /\ s[1] <= p[1]
               THEN Ok([k |-> "DECIMAL", p |-> p[1], s |-> s[1]]) ELSE Err
          [] name \in {"DATETIME", "DATETIMEV1", "DATETIMEV2"} ->
               IF IsOk(digits) /\ digits[1] <= SubSecond THEN Ok([k |-> "DATETIME", s |-> digits[1]]) ELSE Err
          [] name \in {"CHAR", "VARCHAR"} ->
               IF IsOk(len) THEN Ok([k |-> "CHAR", len |-> len[1], varchar |-> name = "VARCHAR"]) ELSE Err
          [] OTHER -> Err

\* The type as written in Doris DDL, for messages.
RECURSIVE sql_name(_)
sql_name(ty) ==
    LET called(name, args) == <<name, "(">> \o args \o <<")">>
        of(name, inner) == <<name, "<">> \o inner \o <<">">>
    IN  CASE ty.k = "DECIMAL"  -> called("DECIMAL", <<ToString(ty.p), ",", ToString(ty.s)>>)
          [] ty.k = "DATETIME" -> called("DATETIME", <<ToString(ty.s)>>)
          [] ty.k = "CHAR"     -> called(IF ty.varchar THEN "VARCHAR" ELSE "CHAR", <<ToString(ty.len)>>)
          [] ty.k = "ARRAY"    -> of("ARRAY", sql_name(ty.of))
          [] ty.k = "MAP"      -> of("MAP", sql_name(ty.key) \o <<",">> \o sql_name(ty.val))
          [] ty.k = "STRUCT"   ->
               LET field(f) == <<ty.fields[f][1].w, ":">> \o sql_name(ty.fields[f][2])
                   later == [f \in 1..Len(ty.fields) - 1 |-> <<",">> \o field(f + 1)]
               IN  of("STRUCT", field(1) \o FlattenSeq(later))
          [] ty.k = "AGG_STATE" -> of("AGG_STATE", <<"sum", "(", "int", ")">>)
          [] OTHER -> <<ty.k>>

FieldName(name) == Word(name, 1)

RECURSIVE parse_type(_), NamedType(_, _), FieldType(_, _), parse_container(_, _)

\* The type's parenthesised arguments are taken off its end first.
parse_type(text) ==
    LET s == strip_nullability(Trim(text))
        open == FirstWhere(s, LAMBDA tok : tok = "(")
    IN  IF s = <<>> THEN Err
        ELSE IF IsOk(open) /\ EndsWith(s, <<")">>)
        THEN NamedType(Trim(SubSeq(s, 1, open[1] - 1)),
                       TrimmedPieces(Trim(SubSeq(s, open[1] + 1, Len(s) - 1))))
        ELSE NamedType(s, <<>>)

NamedType(base, args) ==
    LET angle == FirstWhere(base, LAMBDA tok : tok = "<")
    IN  IF IsOk(angle)
        THEN parse_container(Joined(Trim(SubSeq(base, 1, angle[1] - 1))),
                             Trim(SubSeq(base, angle[1] + 1, Len(base) - 1)))
        ELSE ScalarType(Joined(base), args)

\* STRUCT fields: name, colons or none, the type up to COMMENT.
FieldType(ident, part) ==
    LET after == Trim(From(part, ident.used + 1))
        typed == Trim(From(after, Min({i \in 1..(Len(after) + 1) : i > Len(after) \/ after[i] # ":"})))
    IN  Then(parse_type(cut_at_top_level_keyword(typed, "COMMENT")), LAMBDA ty :
            Ok(<<FieldName(ident.name), ty>>))

Distinct(fields) == \A i, j \in DOMAIN fields : i # j => fields[i][1] # fields[j][1]

parse_container(name, inner) ==
    CASE name = "ARRAY" -> Then(parse_type(inner), LAMBDA ty : Ok([k |-> "ARRAY", of |-> ty]))
      [] name = "MAP" ->
           Then(CollectEach(split_top_level(inner), parse_type), LAMBDA pair :
               IF Len(pair) = 2 THEN Ok([k |-> "MAP", key |-> pair[1], val |-> pair[2]]) ELSE Err)
      [] name = "STRUCT" ->
           Then(CollectEach(SelectSeq(TrimmedPieces(inner), LAMBDA part : part # <<>>), LAMBDA part :
                    Then(read_ident(part), LAMBDA ident : FieldType(ident, part))),
                LAMBDA fields : IF fields # <<>> /\ Distinct(fields)
                                THEN Ok([k |-> "STRUCT", fields |-> fields]) ELSE Err)
      [] name = "AGG_STATE" -> Ok(Scalar("AGG_STATE"))
      [] OTHER -> Err
-----------------------------------------------------------------------------
(* Columns and tables.                                                     *)

NON_COLUMN_LEADS ==
    {"INDEX", "KEY", "UNIQUE", "PRIMARY", "DUPLICATE", "AGGREGATE", "CONSTRAINT", "FOREIGN", "CLUSTER"}

is_non_column_entry(entry) == SpacedWords(entry)[1] \in NON_COLUMN_LEADS

\* The type's length counts from the first token after the blanks, but is
\* taken off the text with the blanks: the modifiers start as far before the
\* type's end as there were blanks before the type.
ColumnOf(name, after, typeEnd) ==
    LET modifiers == strip_string_literals(From(after, typeEnd + 1))
    IN  Then(parse_type(SubSeq(Trim(after), 1, typeEnd)), LAMBDA ty :
            Ok([name |-> name, ty |-> ty, nullable |-> ~contains_word(modifiers, <<"NOT", "NULL">>)]))

parse_column(entry) ==
    Then(read_ident(entry), LAMBDA ident :
        LET after == From(entry, ident.used + 1)
        IN  ColumnOf(ident.name, after, read_type_token(Trim(after))))

parse_column_block(body) ==
    CollectEach(SelectSeq(TrimmedPieces(body),
                          LAMBDA entry : entry # <<>> /\ ~is_non_column_entry(entry)),
                parse_column)

\* The words of s from i on, blanks passed over.
WordsFrom(s, i) == SelectSeq(From(s, i), LAMBDA tok : tok \notin Blanks)

\* The first CREATE [EXTERNAL] TABLE at or after a position.
find_create_table(s, from) ==
    LET created(i) ==
            LET words == WordsFrom(s, i + 1)
                tail == IF words # <<>> /\ words[1] = "EXTERNAL" THEN Tail(words) ELSE words
            IN  s[i] = "CREATE" /\ tail # <<>> /\ tail[1] = "TABLE"
        hits == {i \in DOMAIN s : i >= from /\ created(i)}
    IN  IF hits = {} THEN Err ELSE Ok(Min(hits))

SkipBlanks(s, i) == Min({j \in i..(Len(s) + 1) : j = Len(s) + 1 \/ s[j] \notin Blanks})

\* Past a keyword, if it is there.
Past(s, i, word) ==
    LET j == SkipBlanks(s, i) IN IF j <= Len(s) /\ s[j] = word THEN j + 1 ELSE i

IdentAt(s, i) ==
    Then(read_ident(From(s, i)), LAMBDA ident : Ok([name |-> ident.name, end |-> i + ident.used]))

\* After a database's name and a dot, the table's own name.
Qualified(s, first) ==
    LET dot == SkipBlanks(s, first.end)
        second == IF dot <= Len(s) /\ s[dot] = "." THEN IdentAt(s, SkipBlanks(s, dot + 1)) ELSE Err
    IN  IF IsOk(second) THEN second ELSE Ok(first)

\* [EXTERNAL] TABLE [IF] [NOT] [EXISTS] [db.]name, and the token after it: each
\* of the three words is passed over whether or not the others are there.
read_table_identifier(s, at) ==
    LET table == Past(s, Past(s, at, "EXTERNAL"), "TABLE")
        named == Past(s, Past(s, Past(s, table, "IF"), "NOT"), "EXISTS")
    IN  Then(IdentAt(s, SkipBlanks(s, named)), LAMBDA first : Qualified(s, first))

RECURSIVE TablesFrom(_, _), TableAt(_, _, _)
TablesFrom(s, cursor) ==
    LET start == find_create_table(s, cursor)
        ident == read_table_identifier(s, start[1] + 1)
    IN  IF ~IsOk(start) THEN Ok(<<>>)
        ELSE IF ~IsOk(ident) THEN TablesFrom(s, start[1] + 1)
        ELSE Then(Least({i \in ident[1].end..Len(s) : s[i] = "("}), LAMBDA open :
                 TableAt(s, ident[1].name, open))

\* The table whose column block opens there, and the tables after it.
TableAt(s, name, open) ==
    Then(match_paren(s, open), LAMBDA close :
        Then(parse_column_block(SubSeq(s, open + 1, close - 1)), LAMBDA columns :
            IF columns = <<>> THEN Err
            ELSE Then(TablesFrom(s, close + 1), LAMBDA others :
                     Ok(<<[name |-> name, columns |-> columns]>> \o others))))

parse_schema(sql) ==
    Provided(TablesFrom(strip_comments(sql), 1), LAMBDA tables : tables # <<>>)

\* The table asked for by name, or the only one.
select_table(tables, wanted) ==
    LET named == {i \in DOMAIN tables : <<tables[i].name>> = wanted}
    IN  IF wanted = <<>> THEN (IF Len(tables) = 1 THEN Ok(tables[1]) ELSE Err)
        ELSE IF named = {} THEN Err ELSE Ok(tables[Min(named)])

load_schema_table(sql, wanted) ==
    Then(parse_schema(sql), LAMBDA tables : select_table(tables, wanted))
=============================================================================
