------------------------------ MODULE Rewards ------------------------------
(***************************************************************************)
(* The graders of orchestration/reward.py: which text of a trajectory is   *)
(* graded, what is extracted from it, and when it equals the reference.    *)
(*                                                                         *)
(* A text is the sequence of its marks, a mark is a phrase that some       *)
(* grader looks for, of kind k and content v:                              *)
(*    box      \boxed{v}               num    the number v in a sentence   *)
(*    open     \boxed{v, unclosed      word   the word v                   *)
(*    says     the answer is v         stop   the end of a sentence        *)
(*    final    final answer = v        break  a blank line                 *)
(*    option   option v                fence  a fenced block, program v    *)
(*    bullet   v) at a line's start    def    program v, with def/import   *)
(*    alone    a line that is v only   plain  program v, without either    *)
(*    json     a list of calls, v      item   a line "- v"                 *)
(*    title    <<v>>                   highlight   *v* within a line       *)
(*    section  a splitter and the number v                                 *)
(* Every v is a string; "" is no content.                                  *)
(***************************************************************************)
EXTENDS Integers, Sequences, FiniteSets, SequencesExt, FiniteSetsExt

CONSTANTS
    Letters,   \* the letters of a multiple choice question
    Numerals,  \* strings that extract_last_number reads as a number
    Amount,    \* their values, up to the tolerance of math_equal
    Sympy,     \* pairs of formulas sympy finds equal
    Calls,     \* what a JSON payload decodes to: a sequence of calls
    Rank,      \* order of function names, argument names and values as JSON text
    Passes     \* [program -> the <<test, mode>> it passes in its time limit]

ASSUME AmountAssumption == Amount \in [Numerals -> Int]
ASSUME TextAssumption == "" \notin Letters \cup Numerals

NoAnswer == "no answer"   \* Python's None

Holds(text, kinds, values) == \E i \in DOMAIN text : text[i].k \in kinds /\ text[i].v \in values
Count(text, kinds) == Cardinality({i \in DOMAIN text : text[i].k \in kinds})

LastOf(text, Test(_)) ==
    LET i == SelectLastInSeq(text, Test) IN IF i = 0 THEN NoAnswer ELSE text[i].v

-----------------------------------------------------------------------------
(***************************************************************************)
(* Mathematics                                                             *)
(***************************************************************************)

\* The scan stops at the first box that is never closed.
extract_boxed(text) ==
    LET open == SelectInSeq(text, LAMBDA m : m.k = "open")
        scanned == IF open = 0 THEN text ELSE SubSeq(text, 1, open - 1)
    IN  LastOf(scanned, LAMBDA m : m.k = "box")

AnswerKinds == {"box", "open", "says", "final", "option", "bullet", "alone", "num"}

\* Numbers are seen wherever they stand, in and out of boxes.
extract_last_number(text) ==
    LastOf(text, LAMBDA m : m.k \in AnswerKinds /\ m.v \in Numerals)

\* A whole text is comparable when it is nothing but an answer, after
\* "the answer is" and the like are dropped.
normalize_math_answer(text) ==
    IF Len(text) = 1 /\ text[1].k \in {"says", "final", "alone"} THEN text[1].v ELSE NoAnswer

math_equal(a, b) ==
    \/ a = b /\ a \notin {"", NoAnswer}
    \/ {a, b} \subseteq Numerals /\ Amount[a] = Amount[b]
    \/ <<a, b>> \in Sympy

MathAnswer(text) ==
    CASE extract_boxed(text) # NoAnswer -> extract_boxed(text)
      [] extract_boxed(text) = NoAnswer /\ extract_last_number(text) # NoAnswer
           -> extract_last_number(text)
      [] OTHER -> normalize_math_answer(text)

check_math(text, gold) ==
    LET boxed == extract_boxed(gold)
    IN  math_equal(MathAnswer(text), IF boxed # NoAnswer THEN boxed ELSE normalize_math_answer(gold))

-----------------------------------------------------------------------------
(***************************************************************************)
(* Multiple choice                                                         *)
(***************************************************************************)

\* Five patterns in order of trust; of each the first match counts.  Last, a
\* final line that is only the letter.
ChoicePatterns == <<"says", "box", "final", "option", "bullet">>

extract_choice_letter(text) ==
    LET hits == {p \in DOMAIN ChoicePatterns : Holds(text, {ChoicePatterns[p]}, Letters)}
        first == SelectInSeq(text, LAMBDA m : m.k = ChoicePatterns[Min(hits)] /\ m.v \in Letters)
        alone == text # <<>> /\ Last(text).k = "alone" /\ Last(text).v \in Letters
    IN  CASE hits # {} -> text[first].v
          [] hits = {} /\ alone -> Last(text).v
          [] OTHER -> NoAnswer

check_choice(text, gold) ==
    LET got == extract_choice_letter(text) IN got # NoAnswer /\ got = extract_choice_letter(gold)

-----------------------------------------------------------------------------
(***************************************************************************)
(* RLPR: by the source of the question, else by the shape of the reference *)
(***************************************************************************)
check_webinstruct(text, gold) ==
    LET letters == {extract_choice_letter(text), extract_choice_letter(gold)}
    IN  /\ text # <<>> /\ gold # <<>>
        /\ IF NoAnswer \notin letters
           THEN Cardinality(letters) = 1
           ELSE math_equal(normalize_math_answer(text), normalize_math_answer(gold))

check_rlpr(text, ref) ==
    CASE ref.source = "math" -> check_math(text, ref.gold)
      [] ref.source = "choice" -> check_choice(text, ref.gold)
      [] ref.source = "web" -> check_webinstruct(text, ref.gold)
      [] OTHER -> IF extract_choice_letter(ref.gold) # NoAnswer
                  THEN check_choice(text, ref.gold) ELSE check_math(text, ref.gold)

-----------------------------------------------------------------------------
(***************************************************************************)
(* IFEval: every instruction holds of the text                             *)
(***************************************************************************)

\* Pieces of the text between separators, the empty ones left out.
Pieces(text, separator) ==
    Cardinality({i \in DOMAIN text : /\ text[i].k # separator
                                     /\ i = 1 \/ text[i - 1].k = separator})

Measure(ins, text) ==
    CASE ins.id = "number_words" -> Cardinality({i \in DOMAIN text : text[i].v # ""})
      [] ins.id = "number_sentences" -> Pieces(text, "stop")
      [] ins.id = "number_paragraphs" -> Pieces(text, "break")
      [] ins.id = "number_bullet_lists" -> Count(text, {"item"})
      [] ins.id = "number_highlighted_sections" -> Count(text, {"highlight"})
      [] ins.id = "multiple_sections" -> Count(text, {"section"})
      [] ins.id = "frequency" ->
           Cardinality({i \in DOMAIN text : text[i].v \in ins.words})

\* A relation other than "less than" is read as "at least".  Instructions about
\* case, punctuation, language and JSON are left out; an unknown one fails.
instruction_holds(ins, text) ==
    CASE ins.id \in {"number_words", "number_sentences", "frequency"} ->
           IF ins.relation = "less than" THEN Measure(ins, text) < ins.threshold
                                         ELSE Measure(ins, text) >= ins.threshold
      [] ins.id \in {"number_paragraphs", "number_bullet_lists"} ->
           Measure(ins, text) = ins.threshold
      [] ins.id \in {"number_highlighted_sections", "multiple_sections"} ->
           Measure(ins, text) >= ins.threshold
      [] ins.id = "title" -> Count(text, {"title"}) > 0
      [] ins.id = "existence" -> \A w \in ins.words : \E i \in DOMAIN text : text[i].v = w
      [] ins.id = "forbidden_words" -> \A i \in DOMAIN text : text[i].v \notin ins.words
      [] OTHER -> FALSE

check_ifeval(text, instructions) ==
    text # <<>> /\ \A n \in DOMAIN instructions : instruction_holds(instructions[n], text)

-----------------------------------------------------------------------------
(***************************************************************************)
(* BFCL: a call is [name, args], args giving each argument its value (the  *)
(* reference: the values allowed), as a sequence.                          *)
(***************************************************************************)

\* The only JSON list of the text; two of them do not parse together.  A text
\* that is one number is a payload too, though not one with calls.
NoPayload == "no payload"
NoCalls == "no calls"

extract_json_payload(text) ==
    CASE Count(text, {"json"}) = 1 -> LastOf(text, LAMBDA m : m.k = "json")
      [] Len(text) = 1 /\ text[1].k = "alone" /\ text[1].v \in Numerals -> NoCalls
      [] OTHER -> NoPayload

\* The call as JSON text, arguments first.  A list or object that ends earlier
\* sorts later: "]" and "}" come after ",".
End == 1000

JsonKey(call) ==
    LET names == SetToSortSeq(DOMAIN call.args, LAMBDA a, b : Rank[a] < Rank[b])
        Pair(a) == <<Rank[a]>> \o [i \in DOMAIN call.args[a] |-> Rank[call.args[a][i]]] \o <<End>>
    IN  FlattenSeq([i \in DOMAIN names |-> Pair(names[i])]) \o <<End, Rank[call.name]>>

Before(s, t) ==
    \E i \in DOMAIN s \cap DOMAIN t : s[i] < t[i] /\ \A j \in 1..(i - 1) : s[j] = t[j]

\* What the proofs take as given of json.dumps: different calls have different
\* texts, and of two texts one comes first.
KeysTellApart(calls) ==
    /\ calls \in Seq(ToSet(calls))
    /\ \A c \in ToSet(calls) : JsonKey(c) \in Seq(Nat)
    /\ \A c, d \in ToSet(calls) :
           c = d \/ Before(JsonKey(c), JsonKey(d)) \/ Before(JsonKey(d), JsonKey(c))

\* Variant: calls are compared as they are listed.
Unsorted(calls) == calls

\* sorted() is stable.
Sorted(calls) ==
    LET Earlier(i, j) == LET s == JsonKey(calls[i]) t == JsonKey(calls[j])
                         IN Before(s, t) \/ (s = t /\ i < j)
        order == CHOOSE o \in [DOMAIN calls -> DOMAIN calls] :
                     \A i, j \in DOMAIN calls : i < j => Earlier(o[i], o[j])
    IN  [n \in DOMAIN calls |-> calls[order[n]]]

\* An argument may be missing when the reference allows "" for it.
call_matches(call, gold) ==
    /\ call.name = gold.name
    /\ DOMAIN call.args \subseteq DOMAIN gold.args
    /\ \A a \in DOMAIN gold.args :
           IF a \in DOMAIN call.args
           THEN call.args[a][1] \in ToSet(gold.args[a])
           ELSE "" \in ToSet(gold.args[a])

calls_match(calls, gold) ==
    /\ Len(calls) = Len(gold)
    /\ \A n \in DOMAIN calls : call_matches(Sorted(calls)[n], Sorted(gold)[n])

check_bfcl(text, gold) ==
    LET payload == extract_json_payload(text)
    IN  payload \notin {NoPayload, NoCalls} /\ calls_match(Calls[payload], gold)

-----------------------------------------------------------------------------
(***************************************************************************)
(* Code: the last fenced block, else the whole text, passes every test     *)
(***************************************************************************)
CodeKinds == {"fence", "def", "plain"}

\* A whole text is a program when nothing else stands in it.
extract_code(text) ==
    LET fence == LastOf(text, LAMBDA m : m.k = "fence")
    IN  CASE fence # NoAnswer -> fence
          [] fence = NoAnswer /\ Len(text) = 1 /\ text[1].k \in CodeKinds -> text[1].v
          [] OTHER -> NoAnswer

\* A test is of shape "io" (a dict with input or output), "pair", "assert" (a
\* string or any other dict) or "other".  Only testtype "functional" selects the
\* call, never the presence of fn_name.
Mode(test) ==
    CASE test.functional /\ test.shape = "io" -> "call"
      [] ~test.functional /\ test.shape = "io" -> "stdin"
      [] test.shape = "pair" -> "stdin"
      [] test.shape = "assert" -> "assert"
      [] OTHER -> "none"

run_one_test(program, test) ==
    Mode(test) # "none" /\ program # NoAnswer /\ <<test.name, Mode(test)>> \in Passes[program]

check_code(text, tests) ==
    LET program == extract_code(text)
    IN  /\ program # ""
        /\ tests # <<>>
        /\ \A n \in DOMAIN tests : run_one_test(program, tests[n])

-----------------------------------------------------------------------------
(***************************************************************************)
(* Dispatch.  A reference is a record of what the benchmarks use.          *)
(***************************************************************************)
has_answer(benchmark, text) ==
    /\ text # <<>>
    /\ CASE benchmark = "choice" -> extract_choice_letter(text) # NoAnswer
         [] benchmark = "math" ->
              extract_boxed(text) # NoAnswer \/ extract_last_number(text) # NoAnswer
         [] benchmark = "rlpr" ->
              \/ extract_choice_letter(text) # NoAnswer
              \/ extract_boxed(text) # NoAnswer
              \/ extract_last_number(text) # NoAnswer
         [] benchmark = "ifeval" -> TRUE
         [] benchmark = "bfcl" -> extract_json_payload(text) # NoPayload
         [] benchmark = "code" -> Count(text, {"fence", "def"}) > 0
         [] OTHER -> FALSE

score_text(benchmark, text, ref) ==
    CASE benchmark = "math" -> check_math(text, ref.gold)
      [] benchmark = "choice" -> check_choice(text, ref.gold)
      [] benchmark = "rlpr" -> check_rlpr(text, ref)
      [] benchmark = "ifeval" -> check_ifeval(text, ref.instructions)
      [] benchmark = "bfcl" -> check_bfcl(text, ref.calls)
      [] benchmark = "code" -> check_code(text, ref.tests)

\* A turn is [role, text].
final_answer(turns) ==
    LET worker == SelectLastInSeq(turns, LAMBDA t : t.role = "worker")
        other == SelectLastInSeq(turns, LAMBDA t : t.role # "verifier")
    IN  CASE worker # 0 -> turns[worker].text
          [] worker = 0 /\ other # 0 -> turns[other].text
          [] OTHER -> IF turns = <<>> THEN <<>> ELSE Last(turns).text

\* The final answer when it holds an answer, else the latest turn that does.
committed_answer(benchmark, turns) ==
    LET final == final_answer(turns)
        turn == SelectLastInSeq(turns, LAMBDA t : has_answer(benchmark, t.text))
    IN  CASE has_answer(benchmark, final) -> final
          [] ~has_answer(benchmark, final) /\ turn # 0 -> turns[turn].text
          [] OTHER -> final

score(benchmark, turns, ref) == score_text(benchmark, committed_answer(benchmark, turns), ref)
=============================================================================
