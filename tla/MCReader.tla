------------------------------ MODULE MCReader ------------------------------
(* Reader for TLC: lines of what the grammar of frontend/src/parse.rs accepts, and *)
(* preferences of the shapes of contrib/prefs.nak and those between them.          *)
EXTENDS Reader
LOCAL INSTANCE SequencesExt

File(path) == [type |-> "File", path |-> path]
Command(words) == [type |-> "Command", words |-> words]
Target == {File("f"), File("g"), Command(<<"b">>), Command(<<"g", "c">>)}
Clause == [stream : {"Stdout"}, target : Target]

Simple(words) == [type |-> "Cmd", head |-> words]
Redirect(head, n) == [type : {"Redirect"}, head : {head}, clauses : [1 .. n -> Clause]]

Rejected == {Simple(<<"cd">>), Simple(<<"micro", "f", "g">>), Simple(<<"nak", "r">>),
             [type |-> "Sequence", parts |-> <<Simple(<<"g">>), Simple(<<"c">>)>>]}
Words == UNION {[1 .. n -> {"g", "c"}] : n \in 1 .. 3}
Accepted == {Empty, Simple(<<"cd", "d">>), Simple(<<"micro", "f">>)} \cup {Simple(words) : words \in Words}

ShortLines ==
    Rejected \cup Accepted \cup Redirect(<<"g">>, 1) \cup Redirect(<<"micro", "f">>, 1) \cup Redirect(<<"cd">>, 1)
LongLines == UNION {Redirect(<<"a">>, n) : n \in 2 .. 3}

\* Those lines as they are usually typed.
Spaced(lexemes) ==
    FlattenSeq([i \in DOMAIN lexemes |-> IF i = 1 THEN <<lexemes[i][2]>> ELSE <<Space, lexemes[i][2]>>])
TypedLines == {Spaced(WrittenLine(ast)) : ast \in ShortLines \cup LongLines}

\* And every text of up to six items.
AnyText == UNION {[1 .. n -> Special \cup {"g"}] : n \in 0 .. 6}

-----------------------------------------------------------------------------
Literal(word) == [type |-> "Literal", word |-> word]
Variable(id) == [type |-> "Variable", id |-> id]
Expando(id) == [type |-> "Expando", id |-> id]
Rule(find, replace) == [find |-> find, replace |-> replace]

MCRules ==
    {Rule(<<Literal("g"), Literal("c"), Expando(0)>>, <<Literal("h"), Literal("i"), Expando(0)>>),
     Rule(<<Literal("g"), Expando(0)>>, <<Literal("h"), Expando(0)>>),
     Rule(<<Literal("g")>>, <<Literal("c"), Literal("g")>>),
     Rule(<<Literal("g"), Variable(0), Expando(1)>>, <<Literal("h"), Expando(1), Variable(0)>>),
     Rule(<<Variable(0), Variable(1)>>, <<Variable(1), Variable(0)>>),
     Rule(<<Variable(0), Literal("c"), Expando(1)>>, <<Literal("cd"), Variable(0), Expando(1)>>),
     Rule(<<Literal("c"), Expando(0)>>, <<Expando(0)>>),
     Rule(<<Expando(0)>>, <<Literal("h"), Expando(0)>>)}

MCPreferences == {<<>>} \cup UNION {[1 .. n -> MCRules] : n \in 1 .. 2}

MCTexts == [aliases \in MCPreferences |-> IF aliases = <<>> THEN TypedLines \cup AnyText ELSE TypedLines]
=============================================================================
