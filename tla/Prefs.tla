-------------------------------- MODULE Prefs --------------------------------
(***************************************************************************)
(* Alias expansion: Prefs::expand of frontend/src/prefs.rs, by which       *)
(* convert_single rewrites the words of a command, and a definition of     *)
(* what an alias means.  An item of a rule is a Literal word, a Variable   *)
(* for one word or an Expando for the rest of the words.                   *)
(***************************************************************************)
EXTENDS Naturals, Sequences
LOCAL Seqs == INSTANCE SequencesExt

EmptyMap == [id \in {} |-> <<>>]
Put(map, k, v) == [j \in DOMAIN map \cup {k} |-> IF j = k THEN v ELSE map[j]]

-----------------------------------------------------------------------------
(* One rule.  Of the iterator: `next` is the word in hand, if any, and `it` *)
(* the words behind it.  A map of matches for each type of item, and the    *)
(* assertions keep an id out of both.                                       *)

Pull(m) ==
    IF m.it = <<>> THEN [m EXCEPT !.next = <<>>]
    ELSE [m EXCEPT !.next = <<Head(m.it)>>, !.it = Tail(m.it)]
Start(words) ==
    Pull([outcome |-> "match", next |-> <<>>, it |-> words,
          var_matches |-> EmptyMap, expando_matches |-> EmptyMap])
Matched(m, id) == id \in DOMAIN m.var_matches \cup DOMAIN m.expando_matches

MatchLiteral(m, item) ==
    IF m.next = <<item.word>> THEN Pull(m) ELSE [m EXCEPT !.outcome = "next rule"]

MatchVariable(m, item) ==
    CASE Matched(m, item.id) -> [m EXCEPT !.outcome = "panic"]
      [] ~Matched(m, item.id) /\ m.next = <<>> -> [m EXCEPT !.outcome = "next rule"]
      [] OTHER -> Pull([m EXCEPT !.var_matches = Put(@, item.id, m.next)])

\* The word in hand stays in hand.
MatchExpando(m, item) ==
    IF Matched(m, item.id) THEN [m EXCEPT !.outcome = "panic"]
    ELSE [m EXCEPT !.expando_matches = Put(@, item.id, m.next \o m.it), !.it = <<>>]

MatchItem(m, item) ==
    CASE m.outcome # "match"                                -> m
      [] m.outcome = "match" /\ item.type = "Literal"  -> MatchLiteral(m, item)
      [] m.outcome = "match" /\ item.type = "Variable" -> MatchVariable(m, item)
      [] m.outcome = "match" /\ item.type = "Expando"  -> MatchExpando(m, item)
Match(rule, words) == Seqs!FoldLeft(MatchItem, Start(words), rule.find)

\* A match is looked for among those of the item's own type, and used up.
MapOf(item) == IF item.type = "Variable" THEN "var_matches" ELSE "expando_matches"
ReplaceItem(r, item) ==
    CASE r.outcome # "match" -> r
      [] r.outcome = "match" /\ item.type = "Literal" -> [r EXCEPT !.res = Append(@, item.word)]
      [] r.outcome = "match" /\ item.type # "Literal" ->
            LET map == MapOf(item)
            IN  IF item.id \in DOMAIN r[map]
                THEN [r EXCEPT !.res = @ \o r[map][item.id],
                         ![map] = [id \in DOMAIN @ \ {item.id} |-> @[id]]]
                ELSE [r EXCEPT !.outcome = "panic"]
Replace(rule, m) ==
    Seqs!FoldLeft(ReplaceItem,
        [outcome |-> m.outcome, var_matches |-> m.var_matches, expando_matches |-> m.expando_matches,
         res |-> <<>>], rule.replace)

-----------------------------------------------------------------------------
\* The first rule that matches, once; what panics is not a list of words.
Unchanged(words) == [outcome |-> "next rule", words |-> words]
TryRule_EveryRule(so_far, rule) ==
    LET r == Replace(rule, Match(rule, so_far.words))
    IN  IF r.outcome = "match" THEN [outcome |-> "match", words |-> r.res]
        ELSE IF r.outcome = "panic" THEN [so_far EXCEPT !.outcome = "panic"] ELSE so_far
TryRule(so_far, rule) ==
    IF so_far.outcome # "next rule" THEN so_far
    ELSE LET r == Replace(rule, Match(rule, so_far.words))
         IN  [outcome |-> r.outcome, words |-> IF r.outcome = "match" THEN r.res ELSE so_far.words]

Expand(aliases, words) == Seqs!FoldLeft(TryRule, Unchanged(words), aliases)

-----------------------------------------------------------------------------
(* The reference: a rule as a relation between lists of words.             *)

Items(rule) == Seqs!ToSet(rule.find) \cup Seqs!ToSet(rule.replace)
Ids(rule) == {item.id : item \in {i \in Items(rule) : i.type # "Literal"}}
HasExpando(rule) == \E item \in Seqs!ToSet(rule.find) : item.type = "Expando"
Parts(words) == {SubSeq(words, a, b) : a \in 1 .. Len(words) + 1, b \in 0 .. Len(words)}

Instance(items, meaning) ==
    Seqs!FlattenSeq([i \in DOMAIN items |->
                  IF items[i].type = "Literal" THEN <<items[i].word>> ELSE meaning[items[i].id]])

\* Each Variable means one word; an Expando at the end of a pattern takes all that is left,
\* without one what is left is dropped.
Means(rule, words, meaning) ==
    /\ \A item \in Seqs!ToSet(rule.find) : item.type = "Variable" => Len(meaning[item.id]) = 1
    /\ LET found == Instance(rule.find, meaning)
       IN  IF HasExpando(rule) THEN found = words ELSE Seqs!IsPrefix(found, words)

Rewrites(rule, words) ==
    {Instance(rule.replace, meaning) :
        meaning \in {f \in [Ids(rule) -> Parts(words)] : Means(rule, words, f)}}
FirstFor(aliases, words) ==
    {k \in DOMAIN aliases : /\ Rewrites(aliases[k], words) # {}
                            /\ \A j \in 1 .. k - 1 : Rewrites(aliases[j], words) = {}}

\* The lists of words that an alias file may turn a command into: one.
Meanings(aliases, words) ==
    IF FirstFor(aliases, words) = {} THEN {words}
    ELSE UNION {Rewrites(aliases[k], words) : k \in FirstFor(aliases, words)}
=============================================================================
