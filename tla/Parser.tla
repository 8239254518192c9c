------------------------------- MODULE Parser -------------------------------
(***************************************************************************)
(* The four parsers of oned and its scheduler.  bison wrote the same       *)
(* push-down automaton, yyparse, into each of host_requirements.cc,        *)
(* host_rank.cc, template_syntax.cc and vm_var_syntax.cc; their tables and *)
(* the actions of their rules differ and are modules of their own.         *)
(*                                                                         *)
(* The scanner chooses each token when it is asked for one, so the         *)
(* behaviours are all the texts of up to MaxTokens tokens and the end.     *)
(* No table has an entry for the error token (NoRecovery): a syntax error  *)
(* pops the whole stack and ends the parse.                                *)
(***************************************************************************)
EXTENDS Integers, Sequences

CONSTANTS
    Grammars,       \* the parsers to run
    MaxTokens,      \* bound: the tokens of a text, by grammar
    YYMAXDEPTH,     \* the states the stack may hold, by grammar
    HostTemplate, Texts, Numbers, Matches,
    Upper, Names, Values,           \* of templates
    VarNames, VarValues, VmIds, VmTemplate, VmContexts

Req  == INSTANCE HostRequirements
Rank == INSTANCE HostRank
Vm   == INSTANCE TemplateSyntax WITH ReplaceMode <- FALSE
Host == INSTANCE TemplateSyntax WITH ReplaceMode <- TRUE
Var  == INSTANCE VmVarSyntax WITH Names <- VarNames, Values <- VarValues

TablesOf(g) ==
    CASE g = "requirements" -> Req!Tables
      [] g = "rank" -> Rank!Tables
      [] g \in {"vm_template", "host_template"} -> Vm!Tables
      [] g = "vm_var" -> Var!Tables

Entry(array, i) == array[i + 1]     \* the arrays of C start at 0

\* Every entry of yytable that yycheck confirms is a state to shift to, and
\* none is for YYTERROR, the error token: what yyparse does with the others is
\* left out.
NoRecovery ==
    \A g \in Grammars :
        LET t == TablesOf(g)
        IN \A p \in {t.pact[i] : i \in DOMAIN t.pact} \ {t.ninf}, token \in 0..(t.ntokens - 1) :
               p + token \in 0..t.last /\ Entry(t.check, p + token) = token
               => token # 1 /\ Entry(t.table, p + token) > 0

ASSUME GrammarsAssumption ==
    /\ Grammars \subseteq {"requirements", "rank", "vm_template", "host_template", "vm_var"}
    /\ \A g \in Grammars : MaxTokens[g] \in Nat /\ YYMAXDEPTH[g] \in Nat \ {0}
    /\ NoRecovery

VARIABLES
    grammar,    \* the parser that runs
    yyss,       \* its stack of states
    yyvs,       \* the values of the symbols on the stack
    yychar,     \* <<the token looked at>>, or <<>>: YYEMPTY
    yy_start,   \* the start condition of the scanner
    read,       \* the tokens taken from the scanner
    out,        \* what the actions of the rules did
    verdict     \* "parsing", or how yyparse returned

vars == <<grammar, yyss, yyvs, yychar, yy_start, read, out, verdict>>

T == TablesOf(grammar)
Top(s) == s[Len(s)]

Scans ==
    CASE grammar = "requirements" -> {<<t, "INITIAL">> : t \in Req!Tokens}
      [] grammar = "rank" -> {<<t, "INITIAL">> : t \in Rank!Tokens}
      [] grammar \in {"vm_template", "host_template"} -> Vm!Scans(yy_start)
      [] grammar = "vm_var" -> Var!Scans(yy_start)

Action(rule, values) ==
    CASE grammar = "requirements" -> Req!Action(rule, values, out)
      [] grammar = "rank" -> Rank!Action(rule, values, out)
      [] grammar = "vm_template" -> Vm!Action(rule, values, out)
      [] grammar = "host_template" -> Host!Action(rule, values, out)
      [] grammar = "vm_var" -> Var!Action(rule, values, out)

End == <<0, 0>>

TypeOK ==
    /\ grammar \in Grammars
    /\ Len(yyss) \in 0..YYMAXDEPTH[grammar]
    /\ verdict \in {"parsing", "accept", "abort", "exhausted"}
    /\ verdict = "parsing" =>
         /\ \A i \in DOMAIN yyss : yyss[i] \in 0..(Len(T.pact) - 1)
         /\ Len(yyvs) = Len(yyss) - 1
         /\ yychar # <<>> => read # <<>> /\ yychar[1] = Top(read)

Init ==
    /\ grammar \in Grammars
    /\ yyss = <<0>>
    /\ yyvs = <<>>
    /\ yychar = <<>>
    /\ yy_start = "INITIAL"
    /\ read = <<>>
    /\ out = <<>>
    /\ verdict = "parsing"
-----------------------------------------------------------------------------
Parsing == verdict = "parsing" /\ Len(yyss) < YYMAXDEPTH[grammar]

\* The state decides without a token when its row of yytable is empty.
Decided == Entry(T.pact, Top(yyss)) = T.ninf
Index == Entry(T.pact, Top(yyss)) + yychar[1][1]
Listed == Index \in 0..T.last /\ Entry(T.check, Index) = yychar[1][1]

Scan ==
    /\ Parsing /\ ~Decided /\ yychar = <<>>
    /\ \E scan \in Scans :
         /\ Len(read) = MaxTokens[grammar] => scan[1] = End
         /\ yychar' = <<scan[1]>>
         /\ read' = Append(read, scan[1])
         /\ yy_start' = scan[2]
    /\ UNCHANGED <<grammar, yyss, yyvs, out, verdict>>

Shift ==
    /\ Parsing /\ ~Decided /\ yychar # <<>> /\ Listed
    /\ Entry(T.table, Index) # T.final
    /\ yyss' = Append(yyss, Entry(T.table, Index))
    /\ yyvs' = Append(yyvs, yychar[1][2])
    /\ yychar' = <<>>
    /\ UNCHANGED <<grammar, yy_start, read, out, verdict>>

Accept ==
    /\ Parsing /\ ~Decided /\ yychar # <<>> /\ Listed
    /\ Entry(T.table, Index) = T.final
    /\ verdict' = "accept"
    /\ UNCHANGED <<grammar, yyss, yyvs, yychar, yy_start, read, out>>

\* The state the automaton enters from s once it has the left-hand side of rule.
Goto(rule, s) ==
    LET nonterminal == Entry(T.r1, rule) - T.ntokens
        i == Entry(T.pgoto, nonterminal) + s
    IN IF i \in 0..T.last /\ Entry(T.check, i) = s
       THEN Entry(T.table, i)
       ELSE Entry(T.defgoto, nonterminal)

Default == Parsing /\ (Decided \/ (yychar # <<>> /\ ~Listed))

Reduce ==
    LET rule   == Entry(T.defact, Top(yyss))
        depth  == Len(yyvs) - Entry(T.r2, rule)
        below  == SubSeq(yyss, 1, depth + 1)
        does   == Action(rule, SubSeq(yyvs, depth + 1, Len(yyvs)))
    IN /\ Default /\ rule # 0
       /\ yyss' = Append(below, Goto(rule, Top(below)))
       /\ yyvs' = Append(SubSeq(yyvs, 1, depth), does[1])
       /\ out' = does[2]
       /\ UNCHANGED <<grammar, yychar, yy_start, read, verdict>>

SyntaxError ==
    /\ Default /\ Entry(T.defact, Top(yyss)) = 0
    /\ verdict' = "abort"
    /\ yyss' = <<>>
    /\ yyvs' = <<>>
    /\ UNCHANGED <<grammar, yychar, yy_start, read, out>>

Exhausted ==
    /\ verdict = "parsing" /\ Len(yyss) >= YYMAXDEPTH[grammar]
    /\ verdict' = "exhausted"
    /\ UNCHANGED <<grammar, yyss, yyvs, yychar, yy_start, read, out>>

Next == Scan \/ Shift \/ Accept \/ Reduce \/ SyntaxError \/ Exhausted

Spec == Init /\ [][Next]_vars
-----------------------------------------------------------------------------
\* What was read, and the end: a text that was refused is compared as far as
\* the parser has read it.
Whole == IF Top(read) = End THEN read ELSE Append(read, End)

ReadAs(reading) ==
    CASE verdict = "accept" -> reading.ok /\ out = reading.out
      [] verdict = "abort" -> ~reading.ok /\ reading.at = Len(read) /\ out = reading.out
      [] OTHER -> TRUE

\* The parser of REQUIREMENTS accepts the texts of its grammar, gives each the
\* value one precedence for '!', '&' and '|' makes of it, and refuses another
\* text at the first token no expression has there (host_requirements.cc:1159).
RequirementsRead == grammar = "requirements" => ReadAs(Req!Reading(Whole))

\* The parser of RANK reads products before sums from left to right, and a
\* minus over the whole product after it; of a text it refuses, it leaves in
\* result the value of a complete expression before the error (host_rank.cc:1153).
RankRead == grammar = "rank" => ReadAs(Rank!Reading(Whole))

\* The parser of templates sets the attributes of the text in their order, a
\* vector keeping the first value of each name; a text that is refused has set
\* the attributes before the error (template_syntax.cc:1145).
TemplatesRead ==
    /\ grammar = "vm_template" => ReadAs(Vm!Reading(Whole))
    /\ grammar = "host_template" => ReadAs(Host!Reading(Whole))

\* The parser of variables copies text and replaces each of the forms its
\* scanner lists, also when a variable ends at the start of the next one or at
\* the end of the text (vm_var_syntax.cc:1283).
VariablesRead == grammar = "vm_var" => ReadAs(Var!Reading(Whole))
=============================================================================
