------------------------------- MODULE Parser -------------------------------
(***************************************************************************)
(* The parser of frontend/src/parse.rs: parse_input makes a line of a text.*)
(* A text is a sequence of items: the characters that mean something to    *)
(* the parser, each by itself, and whatever is between them.               *)
(*                                                                         *)
(* Each parse_... takes the text and a position and gives the set of its   *)
(* result, what it found and the position behind it; none for a panic.     *)
(***************************************************************************)
EXTENDS Naturals, Sequences
LOCAL Seqs == INSTANCE SequencesExt

Space == " "
Quote == "\""
Separators == {";", "|", ">"}
Special == Separators \cup {Space, Quote}

AtEnd(text, i) == i = Len(text) + 1
cur(text, i) == IF AtEnd(text, i) THEN "" ELSE text[i]

Found(value, i) == {[value |-> value, pos |-> i]}
\* What is found first, in front of a sequence of what is found behind it.
Then(results, rest) ==
    UNION {{[value |-> <<r.value>> \o more.value, pos |-> more.pos] : more \in rest[r.pos]} : r \in results}

\* The loop of a parse_...: for each position the children from there on, of what is parsed
\* there and, if the loop ends there, nothing.
Positions(text) == 1 .. Len(text) + 1
Children(parsed, ended) ==
    LET children[k \in DOMAIN parsed] == ended[k] \cup Then(parsed[k], children)
    IN  children

\* The first position from i on that has one of the items, or the end.
Until(text, i, items) ==
    CHOOSE j \in i .. Len(text) + 1 :
        /\ AtEnd(text, j) \/ text[j] \in items
        /\ \A k \in i .. j - 1 : text[k] \notin items
skip_whitespace(text, i) ==
    CHOOSE j \in i .. Len(text) + 1 :
        cur(text, j) # Space /\ \A k \in i .. j - 1 : text[k] = Space

Join(text, i, j) == Seqs!FoldLeft(LAMBDA word, item : word \o item, "", SubSeq(text, i, j))

-----------------------------------------------------------------------------
parse_quote_OffByOne(text, i) ==
    LET close == Until(text, i + 1, {Quote})
    IN  IF AtEnd(text, close) THEN {} ELSE Found(Join(text, i + 1, close), close + 1)
parse_quote(text, i) ==
    LET close == Until(text, i + 1, {Quote})
    IN  IF AtEnd(text, close) THEN {} ELSE Found(Join(text, i + 1, close - 1), close + 1)

parse_word_SplitsAtQuote(text, i) ==
    LET end == Until(text, i, Special)
    IN  IF cur(text, i) = Quote THEN parse_quote(text, i) ELSE Found(Join(text, i, end - 1), end)
\* A word that is missing is empty.
parse_word(text, i) ==
    LET end == Until(text, i, Special)
    IN  IF cur(text, i) = Quote THEN parse_quote(text, i)
        ELSE IF cur(text, end) = Quote THEN {}
        ELSE Found(Join(text, i, end - 1), end)

parse_cmd(text, i) ==
    LET next(k) == skip_whitespace(text, k)
        Ends(k) == cur(text, next(k)) \in Separators \cup {""}
        parsed == [k \in Positions(text) |-> IF Ends(k) THEN {} ELSE parse_word(text, next(k))]
        ended == [k \in Positions(text) |-> IF Ends(k) THEN Found(<<>>, next(k)) ELSE {}]
    IN  Then(parse_word(text, i), Children(parsed, ended))

Stdout(target) == [stream |-> "Stdout", target |-> target]
parse_clause(text, i) ==
    LET target == skip_whitespace(text, i + 1)
    IN  CASE cur(text, i) = "|" ->
                {[value |-> Stdout([type |-> "Command", words |-> r.value]), pos |-> r.pos] : r \in parse_cmd(text, target)}
          [] cur(text, i) = ">" ->
                {[value |-> Stdout([type |-> "File", path |-> r.value]), pos |-> r.pos] : r \in parse_word(text, target)}
          [] OTHER -> {}

Redirected(head, clauses) ==
    IF clauses = <<>> THEN [type |-> "Cmd", head |-> head]
                      ELSE [type |-> "Redirect", head |-> head, clauses |-> clauses]
parse_pipe(text, i) ==
    LET next(k) == skip_whitespace(text, k)
        parsed == [k \in Positions(text) |-> parse_clause(text, next(k))]
        ended == [k \in Positions(text) |->
                    IF cur(text, next(k)) \in {"", ";"} THEN Found(<<>>, next(k)) ELSE {}]
    IN  {[value |-> Redirected(Head(r.value), Tail(r.value)), pos |-> r.pos] :
            r \in Then(parse_cmd(text, i), Children(parsed, ended))}

InSequence(parts) == IF Len(parts) = 1 THEN parts[1] ELSE [type |-> "Sequence", parts |-> parts]
parse_seq(text, i) ==
    LET next(k) == skip_whitespace(text, k)
        parsed == [k \in Positions(text) |->
                     IF cur(text, next(k)) = ";" THEN parse_pipe(text, skip_whitespace(text, next(k) + 1)) ELSE {}]
        ended == [k \in Positions(text) |-> IF AtEnd(text, next(k)) THEN Found(<<>>, next(k)) ELSE {}]
    IN  {[value |-> InSequence(r.value), pos |-> r.pos] :
            r \in Then(parse_pipe(text, i), Children(parsed, ended))}

Empty == [type |-> "Empty"]
parse_line(text) ==
    LET first == skip_whitespace(text, 1)
    IN  IF AtEnd(text, first) THEN {Empty}
        ELSE {r.value : r \in {s \in parse_seq(text, first) : AtEnd(text, s.pos)}}

-----------------------------------------------------------------------------
(* The reference: a text cut into its words and separators, from left to    *)
(* right, with nothing but "between words, in a word, or in quotes" to know.*)

WordLexeme(word) == <<"word", word>>
SeparatorLexeme(item) == <<"separator", item>>

Extend(lexemes, item) == [lexemes EXCEPT ![Len(lexemes)] = WordLexeme(@[2] \o item)]
CutItem(s, item) ==
    CASE s.inside = "quotes" /\ item = Quote -> [s EXCEPT !.inside = "nothing"]
      [] s.inside = "quotes" /\ item # Quote -> [s EXCEPT !.lexemes = Extend(@, item)]
      [] s.inside # "quotes" /\ item = Quote ->
            [lexemes |-> Append(s.lexemes, WordLexeme("")), inside |-> "quotes",
             glued |-> s.glued \/ s.inside = "word"]
      [] s.inside # "quotes" /\ item = Space -> [s EXCEPT !.inside = "nothing"]
      [] s.inside # "quotes" /\ item \in Separators ->
            [s EXCEPT !.lexemes = Append(@, SeparatorLexeme(item)), !.inside = "nothing"]
      [] s.inside # "quotes" /\ item \notin Special ->
            [s EXCEPT !.lexemes = IF s.inside = "word" THEN Extend(@, item) ELSE Append(@, WordLexeme(item)),
                      !.inside = "word"]
Cut(text) == Seqs!FoldLeft(CutItem, [lexemes |-> <<>>, inside |-> "nothing", glued |-> FALSE], text)

\* Quotes that are not closed, a quote in the middle of a word, a word behind a file.
Malformed(text) ==
    LET cut == Cut(text) l == cut.lexemes
    IN  \/ cut.inside = "quotes" \/ cut.glued
        \/ \E k \in 1 .. Len(l) - 2 :
              l[k] = SeparatorLexeme(">") /\ l[k + 1][1] = "word" /\ l[k + 2][1] = "word"

Written(words) == [i \in DOMAIN words |-> WordLexeme(words[i])]
WrittenClause(clause) ==
    IF clause.target.type = "File" THEN <<SeparatorLexeme(">"), WordLexeme(clause.target.path)>>
    ELSE <<SeparatorLexeme("|")>> \o Written(clause.target.words)
WrittenPipe(line) ==
    Written(line.head) \o
    IF line.type = "Cmd" THEN <<>>
    ELSE Seqs!FlattenSeq([i \in DOMAIN line.clauses |-> WrittenClause(line.clauses[i])])
WrittenLine(line) ==
    CASE line.type = "Empty" -> <<>>
      [] line.type \in {"Cmd", "Redirect"} -> WrittenPipe(line)
      [] line.type = "Sequence" ->
            WrittenPipe(line.parts[1]) \o
            Seqs!FlattenSeq([i \in 1 .. Len(line.parts) - 1 |->
                          <<SeparatorLexeme(";")>> \o WrittenPipe(line.parts[i + 1])])

\* The parser fills in an empty word where one is missing.
NonEmpty(lexemes) == SelectSeq(lexemes, LAMBDA lexeme : lexeme # WordLexeme(""))
SaysTheSame(text, line) == NonEmpty(Cut(text).lexemes) = NonEmpty(WrittenLine(line))
=============================================================================
