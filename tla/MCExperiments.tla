--------------------------- MODULE MCExperiments ---------------------------
(***************************************************************************)
(* A few questions of each benchmark; a training run of two generations of *)
(* two candidates; oracle matrices of two queries and two models, with     *)
(* K = 2 samples, where the cross-fit is trusted here, and with K = 1.     *)
(***************************************************************************)
EXTENDS Experiments

T(kind, v) == [k |-> kind, v |-> v]
Turns(role, text) == [role |-> role, text |-> text]

MCAmount == [n \in {"1", "1.0", "2"} |-> IF n = "2" THEN 2 ELSE 1]
MCRank == [x \in {"f", "g", "x", "y", "", "1", "2"} |->
    CASE x = "" -> 1 [] x = "1" -> 2 [] x = "2" -> 3 [] x = "f" -> 4
      [] x = "g" -> 5 [] x = "x" -> 6 [] x = "y" -> 7]

Call(name, value) == [name |-> name, args |-> [a \in {"x"} |-> <<value>>]]
MCCalls == [p \in {"fg", "gf", "ff", "g"} |->
    CASE p = "fg" -> <<Call("f", "1"), Call("g", "2")>>
      [] p = "gf" -> <<Call("g", "2"), Call("f", "1")>>
      [] p = "ff" -> <<Call("f", "2"), Call("f", "1")>>
      [] p = "g" -> <<[name |-> "g", args |-> <<>>]>>]

\* Two programs: one right, one wrong on the second test.
MCPasses == [p \in {"good", "bad", ""} |->
    CASE p = "good" -> {<<"sample", "stdin">>, <<"hidden", "call">>, <<"unit", "assert">>}
      [] p = "bad" -> {<<"sample", "stdin">>, <<"hidden", "stdin">>}
      [] OTHER -> {}]

-----------------------------------------------------------------------------
NoRef == [source |-> "", gold |-> <<>>, instructions |-> <<>>, calls |-> <<>>, tests |-> <<>>]
Gold(v) == [NoRef EXCEPT !.gold = <<T("alone", v)>>]
From(source, ref) == [ref EXCEPT !.source = source]
Ins(id, relation, threshold, words) ==
    [id |-> id, relation |-> relation, threshold |-> threshold, words |-> words]
Allows(name, values) == [name |-> name, args |-> [a \in {"x"} |-> values]]
Test(name, functional, shape) == [name |-> name, functional |-> functional, shape |-> shape]

MCItems ==
    {[benchmark |-> "math", ref |-> r] :
        r \in {Gold("1"), [NoRef EXCEPT !.gold = <<T("word", "so"), T("box", "x+1")>>]}}
    \cup {[benchmark |-> "choice", ref |-> Gold("B")]}
    \cup {[benchmark |-> "rlpr", ref |-> r] :
        r \in {From("math", Gold("1")), From("choice", Gold("B")), From("web", Gold("B")),
               From("web", Gold("x+1")), From("", Gold("B")), From("", Gold("2"))}}
    \cup {[benchmark |-> "ifeval", ref |-> [NoRef EXCEPT !.instructions = i]] :
        i \in {<<Ins("number_words", "at least", 2, {}), Ins("number_sentences", "less than", 2, {})>>,
               <<Ins("frequency", "less than", 2, {"so"}), Ins("existence", "", 0, {"so"})>>,
               <<Ins("number_paragraphs", "", 2, {}), Ins("forbidden_words", "", 0, {"no"})>>,
               <<Ins("number_bullet_lists", "", 1, {}), Ins("number_highlighted_sections", "", 0, {}),
                 Ins("multiple_sections", "", 0, {})>>,
               <<Ins("title", "", 0, {}), Ins("unknown", "", 0, {})>>}}
    \cup {[benchmark |-> "bfcl", ref |-> [NoRef EXCEPT !.calls = c]] :
        c \in {<<Allows("g", <<"2">>), Allows("f", <<"1", "2">>)>>,
               <<Allows("f", <<"1">>), Allows("f", <<"2">>)>>,
               <<Allows("g", <<"1", "">>)>>}}
    \cup {[benchmark |-> "code", ref |-> [NoRef EXCEPT !.tests = t]] :
        t \in {<<Test("sample", FALSE, "io"), Test("hidden", TRUE, "io")>>,
               <<Test("sample", FALSE, "pair"), Test("unit", TRUE, "assert")>>, <<Test("sample", FALSE, "other")>>, <<>>}}

MCTextsOf == [b \in {"none", "math", "choice", "rlpr", "ifeval", "bfcl", "code"} |->
    CASE b = "none" -> {}
      [] b = "math" -> {<<T("word", "so")>>, <<T("num", "2"), T("box", "1.0")>>,
                        <<T("box", "2"), T("open", "1")>>, <<T("says", "x+1")>>, <<T("final", "1+x")>>}
      [] b = "choice" -> {<<T("word", "so")>>, <<T("option", "A"), T("says", "B")>>,
                          <<T("bullet", "A"), T("final", "B")>>, <<T("word", "so"), T("alone", "B")>>}
      [] b = "rlpr" -> {<<T("word", "so")>>, <<T("bullet", "A"), T("num", "1")>>, <<T("alone", "B")>>,
                        <<T("says", "x+1")>>, <<T("box", "2")>>}
      [] b = "ifeval" -> {<<>>, <<T("word", "so"), T("stop", ""), T("word", "no")>>,
                          <<T("word", "so"), T("break", ""), T("item", "so")>>,
                          <<T("title", "so"), T("highlight", "no"), T("section", "1")>>}
      [] b = "bfcl" -> {<<T("word", "so")>>, <<T("alone", "1")>>, <<T("json", "fg"), T("json", "g")>>}
                       \cup {<<T("word", "so"), T("json", p)>> : p \in {"fg", "gf", "ff", "g"}}
      [] b = "code" -> {<<T("plain", "good")>>, <<T("def", "bad")>>, <<T("word", "so"), T("def", "good")>>,
                        <<T("fence", "bad"), T("fence", "good")>>, <<T("fence", "")>>}]

-----------------------------------------------------------------------------
MCBenchmark == [t \in {"sum", "quiz"} |-> IF t = "sum" THEN "math" ELSE "choice"]
MCReference == [t \in {"sum", "quiz"} |-> IF t = "sum" THEN Gold("1") ELSE Gold("B")]

\* Right on the sum and wrong on the quiz, in two turns: below a failure there,
\* for its turns are charged.
MCTrajectories ==
    {<<Turns("thinker", <<T("says", "C")>>), Turns("worker", <<T("box", "1")>>)>>}

MCSetups == {[queries |-> {"q1", "q2"}, k |-> 2, splits |-> 2],
              [queries |-> {"q1", "q2"}, k |-> 1, splits |-> 1]}
MCModels == 1..2
MCQueryRef == [q \in {"q1", "q2"} |-> Gold("B")]
MCAnswers == {<<T("says", "A")>>, <<T("says", "B")>>}
MCPrice == [m \in MCModels |-> m]
MCSympy == {<<"x+1", "1+x">>, <<"1+x", "x+1">>}
=============================================================================
