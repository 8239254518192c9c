------------------------------ MODULE MCParser ------------------------------
(* Texts for the four parsers of Parser.tla: a host attribute that is there   *)
(* and one that is not, names of attributes in both cases, and a VM with a    *)
(* single attribute A and two vectors B.                                      *)
EXTENDS Parser, TLC

MCMaxTokens == "requirements" :> 11 @@ "rank" :> 6 @@ "vm_template" :> 11
               @@ "host_template" :> 8 @@ "vm_var" :> 9

MCDepth == "requirements" :> 9 @@ "rank" :> 7 @@ "vm_template" :> 12
           @@ "host_template" :> 12 @@ "vm_var" :> 12

MCHostTemplate == "CPU" :> 1
MCMatches == {<<"1*", 1>>}

MCUpper == "a" :> "A" @@ "A" :> "A" @@ "B" :> "B"

Single(text) == [vector |-> FALSE, text |-> text, pairs |-> <<>>]
Vector(pairs) == [vector |-> TRUE, text |-> "", pairs |-> pairs]
MCVmTemplate == "A" :> <<Single("one")>>
                @@ "B" :> <<Vector("A" :> "red" @@ "B" :> "1"), Vector("A" :> "blue" @@ "B" :> "2")>>
MCVmContexts == 1 :> ("CONTEXT" :> <<Vector("A" :> "3")>>)
=============================================================================
