----------------------------- MODULE VmVarSyntax -----------------------------
(***************************************************************************)
(* The variables of the context of a VM and of the arguments of hooks:     *)
(* src/src/vm/vm_var_syntax.y, the tables and actions bison made of it     *)
(* (vm_var_syntax.cc) and the start conditions of its scanner              *)
(* (vm_var_parser.l).  Parser.tla runs them.                               *)
(*                                                                         *)
(* An attribute of a VM is [vector, text, pairs]; a template gives the     *)
(* sequence of the attributes of each name.                                *)
(***************************************************************************)
EXTENDS Integers, Sequences, TLC

CONSTANTS
    Names,          \* the texts of VARIABLE tokens
    Upper,          \* the same in capitals, by name
    Values,         \* the texts of STRING tokens
    VmIds,          \* the values of INTEGER tokens
    VmTemplate,     \* the template of the VM the text is for
    VmContexts      \* the templates of the VMs that exist, by oid

End == <<0, 0>>
Verbatim == "text"      \* a piece of text that is copied

\* EOA is the character after a variable, or '\0' at a '$' and at the end of
\* the text.  A '$' starts a variable and is no token in INITIAL; after a
\* piece of text only a '$' or the end can come.
Variable ==
    {<<<<3, "=">>, "VAR">>, <<<<4, ",">>, "VAR">>,
     <<<<5, "[">>, "VAR">>, <<<<6, "]">>, "VAR">>,
     <<<<7, "">>, "VAR">>, <<<<7, " ">>, "INITIAL">>, <<<<7, "">>, "EOF">>}
    \cup {<<<<8, t>>, "VAR">> : t \in Values}
    \cup {<<<<9, n>>, "VAR">> : n \in Names}
    \cup {<<<<11, i>>, "VAR">> : i \in VmIds}

Scans(condition) ==
    CASE condition = "INITIAL" ->
           Variable \cup {<<<<10, Verbatim>>, "DOLLAR">>, <<End, "EOF">>}
      [] condition = "DOLLAR" -> Variable \cup {<<End, "EOF">>}
      [] condition = "VAR" -> Variable
      [] condition = "EOF" -> {<<End, "EOF">>}

Tables == [
    final   |-> 9, last |-> 20, ntokens |-> 12, ninf |-> -9,
    r1      |-> <<0, 12, 13, 13, 14, 14, 14, 14, 14>>,
    r2      |-> <<0, 2, 1, 2, 1, 2, 5, 9, 3>>,
    defact  |-> <<0, 0, 4, 0, 0, 2, 0, 5, 0, 1, 3, 0, 8, 0, 0, 0, 6, 0, 0, 0, 7>>,
    defgoto |-> <<-1, 4, 5>>,
    pact    |-> <<-8, -1, -9, 3, 0, -9, 4, -9, 7, -9, -9, 1, -9, 6, 9, 5, -9, 10,
                  11, 12, -9>>,
    pgoto   |-> <<-9, -9, 16>>,
    table   |-> <<9, 1, 2, 3, 6, 13, 7, 14, 17, 1, 2, 3, 8, 11, 12, 15, 16, 19, 18,
                  20, 10>>,
    check   |-> <<0, 9, 10, 11, 5, 4, 7, 6, 3, 9, 10, 11, 9, 9, 7, 9, 7, 6, 8, 7, 4>>]
-----------------------------------------------------------------------------
Attributes(template, name) ==
    IF name \in DOMAIN template THEN template[name] ELSE <<>>

vector_value(attr, name) == IF name \in DOMAIN attr.pairs THEN attr.pairs[name] ELSE ""

emit(parsed, text) == IF text = "" THEN parsed ELSE Append(parsed, text)

\* The value of the first attribute of that name, if it is a single one.
insert_single(template, name) ==
    LET attrs == Attributes(template, name)
    IN IF attrs # <<>> /\ ~attrs[1].vector THEN attrs[1].text ELSE ""

\* Mutant: only the first attribute of that name is looked at.
insert_vectorFirst(template, name, vname, vvar, vval) ==
    LET attrs == Attributes(template, name)
    IN IF attrs # <<>> /\ attrs[1].vector /\ (vvar = "" \/ vector_value(attrs[1], vvar) = vval)
       THEN vector_value(attrs[1], vname) ELSE ""

\* The value vname of the first attribute of that name or, when vvar is given,
\* of the first of them whose value vvar is vval.
insert_vector(template, name, vname, vvar, vval) ==
    LET attrs  == Attributes(template, name)
        fits   == {i \in DOMAIN attrs : /\ attrs[i].vector
                                        /\ IF vvar = "" THEN i = 1
                                           ELSE vector_value(attrs[i], vvar) = vval}
        chosen == CHOOSE i \in fits : \A j \in fits : i <= j
    IN IF fits = {} THEN "" ELSE vector_value(attrs[chosen], vname)

OtherVm(oid) == IF oid \in DOMAIN VmContexts THEN VmContexts[oid] ELSE <<>>

Action(rule, v, out) ==
    LET up(i) == Upper[v[i]]
        then(text) == <<v[1], emit(emit(out, text), v[Len(v)])>>
    IN CASE rule = 4 -> <<v[1], emit(out, v[1])>>
         [] rule = 5 -> then(insert_single(VmTemplate, up(1)))
         [] rule = 6 -> then(insert_vector(VmTemplate, up(1), up(3), "", ""))
         [] rule = 7 -> then(insert_vector(VmTemplate, up(1), up(3), up(5), v[7]))
         [] rule = 8 -> then(insert_vector(OtherVm(v[1]), "CONTEXT", up(2), "", ""))
         [] OTHER -> <<v[1], out>>
-----------------------------------------------------------------------------
(* The forms vm_var_parser.l gives: text, $VARIABLE, $VARIABLE[ATTR],       *)
(* $VARIABLE[ATTR, ATTR=VALUE] and $NUM.CONTEXT_VARIABLE.                   *)

Text == <<10>>
Single == <<9, 7>>
Vector == <<9, 5, 9, 6, 7>>
Chosen == <<9, 5, 9, 4, 9, 3, 8, 6, 7>>
Context == <<11, 9, 7>>
Forms == {Text, Single, Vector, Chosen, Context}

Agrees(s, i, f) ==
    LET Same(k) == \A j \in 1..k : i + j - 1 \in DOMAIN s /\ s[i + j - 1][1] = f[j]
    IN CHOOSE k \in 0..Len(f) : Same(k) /\ \A n \in 0..Len(f) : Same(n) => n <= k

\* The values a name of a template can stand for, in the order given.
Meant(template, name, vname, Fits(_)) ==
    LET attrs == SelectSeq(Attributes(template, name), Fits)
    IN IF attrs = <<>> THEN "" ELSE vector_value(attrs[1], vname)

\* The text that replaces the form f read at i.
Replaces(s, i, f) ==
    LET up(k) == Upper[s[i + k][2]]
        all   == Attributes(VmTemplate, up(0))
        first(template, name, vname) ==
            LET attrs == Attributes(template, name)
            IN IF attrs = <<>> \/ ~attrs[1].vector THEN "" ELSE vector_value(attrs[1], vname)
    IN CASE f = Text -> <<s[i][2]>>
         [] f = Single ->
              IF all = <<>> \/ all[1].vector THEN <<>> ELSE <<all[1].text>>
         [] f = Vector -> <<first(VmTemplate, up(0), up(2))>>
         [] f = Chosen ->
              <<Meant(VmTemplate, up(0), up(2),
                      LAMBDA a : a.vector /\ vector_value(a, up(4)) = s[i + 6][2])>>
         [] f = Context -> <<first(OtherVm(s[i][2]), "CONTEXT", up(1))>>

RECURSIVE ReadVariables(_, _, _)
ReadVariables(s, i, parsed) ==
    LET whole == {f \in Forms : Agrees(s, i, f) = Len(f)}
        f     == CHOOSE g \in whole : TRUE
        ends  == i + Len(f) - 1
        after == IF f = Text THEN <<>> ELSE <<s[ends][2]>>
        texts == SelectSeq(parsed \o Replaces(s, i, f) \o after, LAMBDA t : t # "")
    IN CASE s[i] = End /\ i > 1 -> [ok |-> TRUE, out |-> parsed, at |-> i]
         [] whole # {} -> ReadVariables(s, ends + 1, texts)
         [] OTHER -> [ok |-> FALSE, out |-> parsed,
                      at |-> i + (CHOOSE k \in {Agrees(s, i, g) : g \in Forms} :
                                     \A g \in Forms : Agrees(s, i, g) <= k)]

Reading(s) == ReadVariables(s, 1, <<>>)
=============================================================================
