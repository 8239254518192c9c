-------------------------- MODULE HostRequirements --------------------------
(***************************************************************************)
(* REQUIREMENTS, the expression that says which hosts a VM may run on:     *)
(* src/src/host/host_requirements.y and the tables and actions bison made  *)
(* of it, src/src/host/host_requirements.cc.  Parser.tla runs them.        *)
(*                                                                         *)
(* A token is <<symbol, value>>; symbols have the internal numbers of      *)
(* yytname (host_requirements.cc:476-480).                                 *)
(***************************************************************************)
EXTENDS Integers, Sequences

CONSTANTS
    HostTemplate,   \* the attributes of the host: texts of numbers, by name
    Texts,          \* the texts of STRING tokens: names of attributes and patterns
    Numbers,        \* the values of INTEGER and FLOAT tokens
    Matches         \* fnmatch: the pairs <<pattern, value of an attribute>>

End == <<0, 0>>

Tokens ==
    {<<3, "!">>, <<4, "&">>, <<5, "|">>, <<9, "=">>, <<10, ">">>, <<11, "<">>,
     <<12, "(">>, <<13, ")">>, End}
    \cup {<<6, n>> : n \in Numbers}      \* INTEGER
    \cup {<<7, t>> : t \in Texts}        \* STRING
    \cup {<<8, n>> : n \in Numbers}      \* FLOAT

\* Mutant: '|' is declared before '&', which then binds more.
pactOrFirst == <<-2, -2, 8, -2, 3, 4, -6, -5, 14, 20, 21, 2, -6, -2, -2, 17, -6,
                 -6, -6, -6, -6, -6, -6, -6, -6, 4, -6, -6, -6>>

pact == <<-2, -2, 8, -2, 3, 4, -6, -5, 14, 20, 21, 2, -6, -2, -2, 17, -6,
          -6, -6, -6, -6, -6, -6, -6, -6, -6, -6, -6, -6>>

Tables == [
    final   |-> 12, last |-> 29, ntokens |-> 14, ninf |-> -6,
    r1      |-> <<0, 14, 15, 15, 16, 16, 16, 16, 16, 16, 16, 16, 16, 16, 16, 16, 16, 16>>,
    r2      |-> <<0, 2, 1, 0, 3, 4, 3, 3, 3, 4, 3, 3, 3, 4, 3, 3, 2, 3>>,
    defact  |-> <<3, 0, 0, 0, 0, 2, 16, 0, 0, 0, 0, 0, 1, 0, 0, 0, 4, 12, 8, 6,
                  10, 7, 11, 17, 14, 15, 5, 13, 9>>,
    defgoto |-> <<-1, 4, 5>>,
    pact    |-> pact,
    pgoto   |-> <<-6, -6, -1>>,
    table   |-> <<6, 1, 11, 12, 15, 2, 13, 14, 13, 14, 3, 7, 24, 25, 0, 23, 0, 8,
                  9, 10, 16, 17, 18, 26, 27, 28, 19, 21, 20, 22>>,
    check   |-> <<1, 3, 3, 0, 9, 7, 4, 5, 4, 5, 12, 3, 13, 14, -1, 13, -1, 9, 10,
                  11, 6, 7, 8, 6, 7, 8, 6, 6, 8, 8>>]
-----------------------------------------------------------------------------
Has(name) == name \in DOMAIN HostTemplate

\* An attribute the host lacks is the empty text, and 0 as an integer.
AsInt(name) == IF Has(name) THEN HostTemplate[name] ELSE 0

Test(op, x, y) == \/ op = "="  /\ x = y
                  \/ op = "!=" /\ x # y
                  \/ op = ">"  /\ x > y
                  \/ op = "<"  /\ x < y

\* The tests on one attribute.  Only the one with an INTEGER takes a missing
\* attribute for 0: the two others are false of it, whatever the operator.
TestInt(name, op, n) == Test(op, AsInt(name), n)
TestFloat(name, op, x) == Has(name) /\ Test(op, HostTemplate[name], x)
TestText(name, op, pattern) ==
    Has(name) /\ ((op = "=") <=> (<<pattern, HostTemplate[name]>> \in Matches))

Operator(rule) == CASE rule \in {4, 8, 12} -> "="
                    [] rule \in {5, 9, 13} -> "!="
                    [] rule \in {6, 10} -> ">"
                    [] OTHER -> "<"

\* The action of a rule on the values v of its right-hand side: the value of
\* its left-hand side and what it assigns to result.
Action(rule, v, out) ==
    LET last == v[Len(v)]
        op   == Operator(rule)
    IN CASE rule = 2 -> <<v[1], Append(out, v[1])>>
         [] rule = 3 -> <<TRUE, Append(out, TRUE)>>
         [] rule \in 4..7 -> <<TestInt(v[1], op, last), out>>
         [] rule \in 8..11 -> <<TestFloat(v[1], op, last), out>>
         [] rule \in 12..13 -> <<TestText(v[1], op, last), out>>
         [] rule = 14 -> <<v[1] /\ v[3], out>>
         [] rule = 15 -> <<v[1] \/ v[3], out>>
         [] rule = 16 -> <<~v[2], out>>
         [] rule = 17 -> <<v[2], out>>
-----------------------------------------------------------------------------
(* What the grammar says.  '!', '&' and '|' are declared in one %left: they *)
(* have one precedence and associate to the left, so a | b & c is           *)
(* (a | b) & c, and !a & b is (!a) & b.  A reading is where it ended, and   *)
(* its value; one that fails ends at the first token that cannot be there.  *)

Fails(i) == [ok |-> FALSE, val |-> FALSE, at |-> i]
Reads(b, i) == [ok |-> TRUE, val |-> b, at |-> i]

ReadTest(s, i) ==
    LET not == s[i + 1][1] = 3
        j   == IF not THEN i + 2 ELSE i + 1
        op  == CASE not -> "!="
                 [] s[j][1] = 9 -> "="
                 [] s[j][1] = 10 -> ">"
                 [] OTHER -> "<"
        lit == s[j + 1]
    IN CASE s[j][1] \notin (IF not THEN {9} ELSE {9, 10, 11}) -> Fails(j)
         [] OTHER ->
              CASE lit[1] = 6 -> Reads(TestInt(s[i][2], op, lit[2]), j + 2)
                [] lit[1] = 8 -> Reads(TestFloat(s[i][2], op, lit[2]), j + 2)
                [] lit[1] = 7 /\ op \in {"=", "!="} ->
                     Reads(TestText(s[i][2], op, lit[2]), j + 2)
                [] OTHER -> Fails(j + 1)

RECURSIVE ReadPrimary(_, _), ReadRest(_, _)
ReadPrimary(s, i) ==
    CASE s[i][1] = 3 ->
           LET e == ReadPrimary(s, i + 1) IN [e EXCEPT !.val = ~@]
      [] s[i][1] = 12 ->
           LET e == ReadRest(s, ReadPrimary(s, i + 1))
           IN IF e.ok /\ s[e.at][1] = 13 THEN [e EXCEPT !.at = @ + 1] ELSE Fails(e.at)
      [] s[i][1] = 7 -> ReadTest(s, i)
      [] OTHER -> Fails(i)
ReadRest(s, left) ==
    IF left.ok /\ s[left.at][1] \in {4, 5}
    THEN LET right == ReadPrimary(s, left.at + 1)
         IN ReadRest(s, [right EXCEPT !.val = IF s[left.at][1] = 4
                                              THEN left.val /\ @ ELSE left.val \/ @])
    ELSE left

\* The whole of a text s that ends with End: result is assigned once the
\* expression is complete, even when something that is not End follows it, and
\* a text no expression starts with counts as the empty one until it is refused.
Reading(s) ==
    LET e == ReadRest(s, ReadPrimary(s, 1))
    IN [ok |-> s[1] = End \/ (e.ok /\ s[e.at] = End), at |-> e.at,
        out |-> CASE e.ok -> <<e.val>>
                  [] e.at = 1 -> <<TRUE>>
                  [] OTHER -> <<>>]
=============================================================================
