------------------------------ MODULE HostRank ------------------------------
(***************************************************************************)
(* RANK, the expression whose value orders the hosts a VM may run on:      *)
(* src/src/host/host_rank.y and the tables and actions bison made of it,   *)
(* src/src/host/host_rank.cc.  Parser.tla runs them.                       *)
(*                                                                         *)
(* A float is a fraction <<n, d>>: rounding is left out, and a division by *)
(* zero leaves d = 0, whose conversion to int is undefined.                *)
(***************************************************************************)
EXTENDS Integers, Sequences

CONSTANTS
    HostTemplate,   \* the attributes of the host: texts of numbers, by name
    Texts,          \* the names of attributes
    Numbers         \* the values of INTEGER and FLOAT tokens

End == <<0, 0>>

Tokens ==
    {<<3, "+">>, <<4, "-">>, <<5, "*">>, <<6, "/">>, <<10, "(">>, <<11, ")">>, End}
    \cup {<<7, n>> : n \in Numbers}      \* INTEGER
    \cup {<<8, t>> : t \in Texts}        \* STRING
    \cup {<<9, n>> : n \in Numbers}      \* FLOAT

\* Mutant: '+' and '-' are declared on the line of '*' and '/'.
pactOneLevel == <<11, 11, -5, -5, -5, 11, 5, 19, -5, 3, -5, 11, 11, 11, 11, -5, -5,
                  -5, -5, -5>>

pact == <<11, 11, -5, -5, -5, 11, 5, 19, -4, 3, -5, 11, 11, 11, 11, -5, -4,
          -4, -5, -5>>

Tables == [
    final   |-> 10, last |-> 25, ntokens |-> 12, ninf |-> -5,
    r1      |-> <<0, 12, 13, 13, 14, 14, 14, 14, 14, 14, 14, 14, 14>>,
    r2      |-> <<0, 2, 1, 0, 1, 1, 1, 3, 3, 3, 3, 2, 3>>,
    defact  |-> <<3, 0, 6, 4, 5, 0, 0, 2, 11, 0, 1, 0, 0, 0, 0, 12, 7, 8, 9, 10>>,
    defgoto |-> <<-1, 6, 7>>,
    pact    |-> pact,
    pgoto   |-> <<-5, -5, -1>>,
    table   |-> <<8, 13, 14, 0, 9, 10, 11, 12, 13, 14, 16, 17, 18, 19, 15, 1, 0, 0,
                  2, 3, 4, 5, 11, 12, 13, 14>>,
    check   |-> <<1, 5, 6, -1, 5, 0, 3, 4, 5, 6, 11, 12, 13, 14, 11, 4, -1, -1, 7,
                  8, 9, 10, 3, 4, 5, 6>>]
-----------------------------------------------------------------------------
Float(n) == <<n, 1>>
Attribute(name) == Float(IF name \in DOMAIN HostTemplate THEN HostTemplate[name] ELSE 0)
Plus(x, y) == <<x[1] * y[2] + y[1] * x[2], x[2] * y[2]>>
Minus(x, y) == <<x[1] * y[2] - y[1] * x[2], x[2] * y[2]>>
Times(x, y) == <<x[1] * y[1], x[2] * y[2]>>
Over(x, y) == <<x[1] * y[2], x[2] * y[1]>>
Negate(x) == <<-x[1], x[2]>>

\* static_cast<int>: towards zero.
Undefined == "undefined"
Magnitude(n) == IF n < 0 THEN -n ELSE n
ToInt(x) == IF x[2] = 0 THEN <<Undefined>>
            ELSE LET q == Magnitude(x[1]) \div Magnitude(x[2])
                 IN <<IF (x[1] < 0) = (x[2] < 0) THEN q ELSE -q>>

Action(rule, v, out) ==
    CASE rule = 2 -> <<v[1], Append(out, ToInt(v[1]))>>
      [] rule = 3 -> <<Float(0), Append(out, <<0>>)>>
      [] rule = 4 -> <<Attribute(v[1]), out>>
      [] rule \in 5..6 -> <<Float(v[1]), out>>
      [] rule = 7 -> <<Plus(v[1], v[3]), out>>
      [] rule = 8 -> <<Minus(v[1], v[3]), out>>
      [] rule = 9 -> <<Times(v[1], v[3]), out>>
      [] rule = 10 -> <<Over(v[1], v[3]), out>>
      [] rule = 11 -> <<Negate(v[2]), out>>
      [] rule = 12 -> <<v[2], out>>
-----------------------------------------------------------------------------
(* What the grammar says: '*' and '/' bind more than '+' and '-', all        *)
(* associate to the left, and the '-' of '-' expr has the precedence of the  *)
(* other '-': it negates the whole product that follows it.                  *)

Fails(i) == [ok |-> FALSE, val |-> Float(0), at |-> i]
Reads(x, i) == [ok |-> TRUE, val |-> x, at |-> i]

RECURSIVE ReadFactor(_, _), ReadProduct(_, _), ReadSum(_, _)
ReadFactor(s, i) ==
    CASE s[i][1] = 4 ->
           LET e == ReadProduct(s, ReadFactor(s, i + 1)) IN [e EXCEPT !.val = Negate(@)]
      [] s[i][1] = 10 ->
           LET e == ReadSum(s, ReadProduct(s, ReadFactor(s, i + 1)))
           IN IF e.ok /\ s[e.at][1] = 11 THEN [e EXCEPT !.at = @ + 1] ELSE Fails(e.at)
      [] s[i][1] \in {7, 9} -> Reads(Float(s[i][2]), i + 1)
      [] s[i][1] = 8 -> Reads(Attribute(s[i][2]), i + 1)
      [] OTHER -> Fails(i)
ReadProduct(s, left) ==
    IF left.ok /\ s[left.at][1] \in {5, 6}
    THEN LET right == ReadFactor(s, left.at + 1)
         IN ReadProduct(s, [right EXCEPT !.val = IF s[left.at][1] = 5
                                                 THEN Times(left.val, @)
                                                 ELSE Over(left.val, @)])
    ELSE left
ReadSum(s, left) ==
    IF left.ok /\ s[left.at][1] \in {3, 4}
    THEN LET right == ReadProduct(s, ReadFactor(s, left.at + 1))
         IN ReadSum(s, [right EXCEPT !.val = IF s[left.at][1] = 3
                                             THEN Plus(left.val, @)
                                             ELSE Minus(left.val, @)])
    ELSE left

Reading(s) ==
    LET e == ReadSum(s, ReadProduct(s, ReadFactor(s, 1)))
    IN [ok |-> s[1] = End \/ (e.ok /\ s[e.at] = End), at |-> e.at,
        out |-> CASE e.ok -> <<ToInt(e.val)>>
                  [] e.at = 1 -> <<<<0>>>>     \* as the empty text
                  [] OTHER -> <<>>]
=============================================================================
