--------------------------- MODULE TemplateSyntax ---------------------------
(***************************************************************************)
(* The syntax of templates: src/src/template/template_syntax.y, the tables *)
(* and actions bison made of it (template_syntax.cc) and the start         *)
(* conditions of its scanner (template_parser.l).  Parser.tla runs them.   *)
(***************************************************************************)
EXTENDS Integers, Sequences, TLC

CONSTANTS
    Names,          \* the texts of VARIABLE tokens
    Upper,          \* the same in capitals, by name
    Values,         \* the texts of STRING tokens
    ReplaceMode     \* replace_mode of the Template the text is read into

End == <<0, 0>>

\* The tokens the scanner can return next, with the start condition after them.
Scans(condition) ==
    CASE condition = "INITIAL" ->
           {<<<<9, n>>, "INITIAL">> : n \in Names}        \* VARIABLE
           \cup {<<<<3, "=">>, "VALUE">>,                 \* EQUAL
                 <<<<7, "=">>, "INITIAL">>,               \* EQUAL_EMPTY
                 <<<<4, ",">>, "INITIAL">>,               \* COMMA
                 <<<<6, "]">>, "INITIAL">>,               \* CBRACKET
                 <<End, "INITIAL">>}
      [] condition = "VALUE" ->
           {<<<<8, t>>, "INITIAL">> : t \in Values}       \* STRING
           \cup {<<<<5, "[">>, "INITIAL">>, <<End, "VALUE">>}

Tables == [
    final   |-> 6, last |-> 15, ntokens |-> 10, ninf |-> -8,
    r1      |-> <<0, 10, 11, 11, 12, 12, 12, 13, 13>>,
    r2      |-> <<0, 2, 1, 2, 3, 5, 2, 3, 5>>,
    defact  |-> <<0, 0, 0, 2, 0, 6, 1, 3, 0, 4, 0, 0, 0, 0, 5, 7, 0, 0, 8>>,
    defgoto |-> <<-1, 2, 3, 11>>,
    pact    |-> <<-7, -2, 0, -8, -1, -8, -8, -8, -6, -8, 7, 2, 3, 4, -8, -8, 9, 6, -8>>,
    pgoto   |-> <<-8, -8, 13, -8>>,
    table   |-> <<6, 4, 1, 10, 8, 5, 13, 9, 14, 1, 12, 15, 17, 16, 18, 7>>,
    check   |-> <<0, 3, 9, 9, 5, 7, 4, 8, 6, 9, 3, 8, 3, 9, 8, 2>>]
-----------------------------------------------------------------------------
SingleAttribute(name, text) == [name |-> Upper[name], text |-> text, pairs |-> <<>>]
VectorAttribute(name, pairs) == [name |-> Upper[name], text |-> "", pairs |-> pairs]

\* Template::set: in replace mode the attributes of that name go first.
set(attributes, attr) ==
    Append(IF ReplaceMode
           THEN SelectSeq(attributes, LAMBDA a : a.name # attr.name)
           ELSE attributes,
           attr)

\* Mutant: the last value of a name counts.
insertReplaces(pairs, name, text) == (Upper[name] :> text) @@ pairs

\* map::insert leaves a name that is there already as it is.
insert(pairs, name, text) == pairs @@ (Upper[name] :> text)

Action(rule, v, out) ==
    CASE rule = 4 -> <<v[1], set(out, SingleAttribute(v[1], v[3]))>>
      [] rule = 5 -> <<v[1], set(out, VectorAttribute(v[1], v[4]))>>
      [] rule = 6 -> <<v[1], set(out, SingleAttribute(v[1], ""))>>
      [] rule = 7 -> <<insert(<<>>, v[1], v[3]), out>>
      [] rule = 8 -> <<insert(v[1], v[3], v[5]), out>>
      [] OTHER -> <<v[1], out>>
-----------------------------------------------------------------------------
(* What the grammar says: one or more of NAME = text, NAME = and            *)
(* NAME = [ NAME = text, ... ].  In a vector the first value given to a     *)
(* name counts; of attributes of one name all count, or in replace mode the *)
(* last.                                                                    *)

Symbol(s, i) == s[i][1]

\* How many of the symbols of f are in s from i on, before the first that is not.
Agrees(s, i, f) ==
    LET Same(k) == \A j \in 1..k : i + j - 1 \in DOMAIN s /\ Symbol(s, i + j - 1) = f[j]
    IN CHOOSE k \in 0..Len(f) : Same(k) /\ \A n \in 0..Len(f) : Same(n) => n <= k

Fails(i) == [ok |-> FALSE, given |-> <<>>, at |-> i]

Pair == <<9, 3, 8>>

\* The pairs of a vector, the first of them at i.
RECURSIVE ReadPairs(_, _, _)
ReadPairs(s, i, given) ==
    LET k == Agrees(s, i, Pair)
        pair == <<Upper[s[i][2]], s[i + 2][2]>>
    IN CASE k < 3 -> Fails(i + k)
         [] Symbol(s, i + 3) = 4 -> ReadPairs(s, i + 4, Append(given, pair))
         [] Symbol(s, i + 3) = 6 ->
              [ok |-> TRUE, given |-> Append(given, pair), at |-> i + 4]
         [] OTHER -> Fails(i + 3)

FirstOf(given) ==
    [n \in {given[i][1] : i \in DOMAIN given} |->
        given[CHOOSE i \in DOMAIN given : /\ given[i][1] = n
                                          /\ \A j \in 1..(i - 1) : given[j][1] # n][2]]

Kept(given) ==
    SelectSeq([i \in DOMAIN given |-> [at |-> i, attr |-> given[i]]],
              LAMBDA a : \/ ~ReplaceMode
                         \/ \A j \in (a.at + 1)..Len(given) : given[j].name # a.attr.name)

RECURSIVE ReadAttributes(_, _, _)
ReadAttributes(s, i, given) ==
    LET single == Agrees(s, i, <<9, 3, 8>>)
        empty  == Agrees(s, i, <<9, 7>>)
        vector == Agrees(s, i, <<9, 3, 5>>)
        pairs  == ReadPairs(s, i + 3, <<>>)
        add(a) == Append(given, a)
        stop(j) == [ok |-> FALSE, given |-> given, at |-> j]
        most   == CHOOSE k \in {single, empty, vector} : k >= single /\ k >= empty /\ k >= vector
    IN CASE Symbol(s, i) = 0 /\ given # <<>> -> [ok |-> TRUE, given |-> given, at |-> i]
         [] single = 3 -> ReadAttributes(s, i + 3, add(SingleAttribute(s[i][2], s[i + 2][2])))
         [] empty = 2 -> ReadAttributes(s, i + 2, add(SingleAttribute(s[i][2], "")))
         [] vector = 3 ->
              IF pairs.ok
              THEN ReadAttributes(s, pairs.at, add(VectorAttribute(s[i][2], FirstOf(pairs.given))))
              ELSE stop(pairs.at)
         [] OTHER -> stop(i + most)

Reading(s) ==
    LET r == ReadAttributes(s, 1, <<>>)
        kept == Kept(r.given)
    IN [ok |-> r.ok, at |-> r.at, out |-> [i \in DOMAIN kept |-> kept[i].attr]]
=============================================================================
