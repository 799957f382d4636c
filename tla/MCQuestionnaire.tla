-------------------------- MODULE MCQuestionnaire --------------------------
(***************************************************************************)
(* Questionnaire for TLC, in three families of cases: one question of each *)
(* type under every setting of its props, with answers of the right and of *)
(* the wrong shape; surveys that no editor makes, with ids and values that *)
(* repeat or are empty; and two questions that hide and show each other.   *)
(***************************************************************************)
EXTENDS Questionnaire

MCUnset == -1
MCSize == [s \in {"", " ", "a", "b", "x"} |-> IF s = "" THEN 0 ELSE 1] @@ ("long" :> 3)
MCSpaces == {"", " "}
MCFormats == {"email"}
MCFillKey == [s \in DOMAIN MCSize |-> s \o ".fill"]
MCWellFormed == {"email"} \X {"a", "long"}

\* The base of every question: two options, two lines, no limits.
Question(type, id, required) ==
  [id |-> id, type |-> type, required |-> required,
   options |-> <<>>, lines |-> <<>>, blanks |-> << >>,
   format |-> "text", min |-> MCUnset, max |-> MCUnset]

Options(fill, score) ==
  <<[value |-> "a", fill |-> "none", score |-> score], [value |-> "b", fill |-> fill, score |-> MCUnset]>>

TextLimits == {[format |-> f, min |-> lo, max |-> hi] :
  f \in {"text", "email", "unheard-of"}, lo \in {MCUnset, 1, 2}, hi \in {MCUnset, 1}}

-----------------------------------------------------------------------------
\* One question and its answers.

Picks == {Str("a"), Str("b"), Str("x"), Num(2),
          Obj([value |-> Str("b"), text |-> Str("x")]),
          Obj([value |-> Str("b"), text |-> Str(" ")]),
          Obj([value |-> Str("b"), text |-> Num(2)]), Obj([text |-> Str("x")]),
          Obj([value |-> Str("a"), more |-> Str("x")])}

Plain == {Null, Str(""), Str("a"), Str("x"), Str("long"), Num(2), Num(3), Num(0), Num(400), Bool(FALSE)}

\* Maps from some lines, a foreign one included, to cells.
Sheets(cells, foreign) ==
  LET Maps(S) == {f \in [S -> cells] : "r3" \in S => f["r3"] \in foreign}
  IN  {Obj(f) : f \in UNION {Maps(S) : S \in SUBSET {"r1", "r2", "r3"}}}

Cells == {Null, Str(""), Str("a"), Str("x"), Num(3), Num(400), Arr(<<>>), Arr(<<Str("a")>>),
          Arr(<<Str("a"), Str("b")>>), Arr(<<Str("a"), Str("a")>>), Arr(<<Str("x")>>), Arr(<<Num(2)>>)}

Grids == Sheets(Cells, {Null, Str("a"), Arr(<<>>), Arr(<<Str("a")>>)})
         \cup {Null, Num(2), Arr(<<Str("a")>>)}

Texts == {Null, Str(""), Str(" "), Str("a"), Str("x"), Str("long"), Num(2)}

One(questions, answers) ==
  [schemas |-> {[questions |-> <<q>>, rules |-> <<>>] : q \in questions},
   answers |-> {[q1 |-> a] : a \in answers}]

ChoiceTypes(type) ==
  {[Question(type, "q1", r) EXCEPT !.options = Options(f, MCUnset), !.min = lo, !.max = hi] :
     r \in BOOLEAN, f \in {"none", "optional", "required"}, lo \in {MCUnset, 1}, hi \in {MCUnset, 2}}

OneLine(type) ==
  {[Question(type, "q1", r) EXCEPT !.options = Options("none", MCUnset),
      !.format = t.format, !.min = t.min, !.max = t.max] : r \in BOOLEAN, t \in TextLimits}

Ranges(type) ==
  {[Question(type, "q1", r) EXCEPT !.min = lo, !.max = hi, !.lines = <<"r1", "r2">>] :
     r \in BOOLEAN, lo \in {MCUnset, 2}, hi \in {MCUnset, 4}}

Matrices(type, limits, score) ==
  {[Question(type, "q1", r) EXCEPT !.options = Options("none", score), !.lines = <<"r2", "r1">>,
      !.min = l[1], !.max = l[2]] : r \in BOOLEAN, l \in limits}

NoLimits == {<<MCUnset, MCUnset>>}

Blanks ==
  {[Question("multi-fill", "q1", r) EXCEPT !.lines = <<"r1", "r2">>, !.blanks = [k \in {"r1", "r2"} |->
      IF k = "r1" THEN t ELSE [format |-> "text", min |-> MCUnset, max |-> MCUnset]]] :
     r \in BOOLEAN, t \in TextLimits}

HandlerTrials ==
  {One(ChoiceTypes("single-choice"), Picks \cup Plain \cup {Arr(<<Str("a")>>)}),
   One(ChoiceTypes("multi-choice"),
       Plain \cup {Arr(s) : s \in UNION {[1..n -> Picks] : n \in 0..2}}
               \cup {Arr(s) : s \in [1..3 -> {Str("a"), Str("b"), Str("x")}]}),
   One(OneLine("dropdown") \cup OneLine("text-input") \cup OneLine("textarea"), Plain),
   One(Ranges("scale"), Plain),
   One(Matrices("matrix-single", NoLimits, MCUnset), Grids),
   One(Matrices("matrix-multi", {<<2, MCUnset>>, <<MCUnset, 1>>}, MCUnset), Grids),
   One(Matrices("matrix-scale", NoLimits, 6), Grids),
   One(Matrices("matrix-fill", NoLimits \cup {<<MCUnset, 1>>}, MCUnset), Grids),
   One(Ranges("matrix-slider"), Grids),
   One(Blanks, Sheets(Texts, {Null, Str("a")}) \cup {Arr(<<>>)})}

-----------------------------------------------------------------------------
\* Surveys as no editor makes them: options of one value or of none, lines of one
\* id, questions of one id.

OddOptions(first, last) ==
  <<[value |-> "a", fill |-> first, score |-> 6], [value |-> "", fill |-> "none", score |-> MCUnset],
    [value |-> "a", fill |-> last, score |-> MCUnset]>>

Odd(types) ==
  {[Question(type, "q1", r) EXCEPT !.options = OddOptions(f[1], f[2]), !.lines = <<"r1", "r2", "r1">>] :
     type \in types, r \in BOOLEAN, f \in {<<"required", "none">>, <<"none", "required">>}}

OddPicks == {Str("a"), Str(""), Obj([value |-> Str("")]), Obj([value |-> Str(""), text |-> Str("x")]),
             Obj([value |-> Str("a"), text |-> Str("x")])}

OddCells == {Str(""), Str("a"), Num(2), Arr(<<Str("")>>), Arr(<<Str("a"), Str("")>>)}

Twins ==
  {<<[Question(s, "q1", TRUE) EXCEPT !.options = Options("none", MCUnset), !.lines = <<"r1", "r2">>],
     [Question(t, "q1", FALSE) EXCEPT !.options = OddOptions("none", "none"), !.lines = <<"r1">>]>> :
   s, t \in {"single-choice", "multi-choice", "text-input", "matrix-single", "matrix-scale", "note"}}

OddTrials ==
  {One(Odd({"single-choice"}), OddPicks),
   One(Odd({"multi-choice"}), {Arr(s) : s \in UNION {[1..n -> OddPicks] : n \in 0..2}}),
   One(Odd({"dropdown"}), Plain),
   One(Odd(LineTypes \ {"multi-fill"}), Sheets(OddCells, {Str("a")})),
   [schemas |-> {[questions |-> t, rules |-> <<>>] : t \in Twins},
    answers |-> {[q1 |-> a] : a \in OddPicks \cup Sheets({Str("a")}, {}) \cup
                   {Arr(<<>>), Arr(<<Str("a")>>), Arr(<<Obj([value |-> Str("a"), text |-> Str("x")])>>)}}]}

-----------------------------------------------------------------------------
\* Two questions under up to two rules.

Cond(qid, sub, op, value) == [qid |-> qid, sub |-> sub, op |-> op, value |-> value]

Rule(type, target, combinator, conditions) ==
  [type |-> type, target |-> target, combinator |-> combinator, conditions |-> conditions]

Conditions ==
  {Cond("q1", "", op, Str("a")) : op \in {"answered", "empty", "eq", "ne", "includes", "between"}}
  \cup {Cond("q1", "", op, Num(3)) : op \in {"eq", "gt", "lt"}}
  \cup {Cond("q1", "r1", "eq", Str("a")), Cond("q2", "", "answered", Null)}

BothAnswered == {Cond(q, "", "answered", Null) : q \in {"q1", "q2"}}

Rules ==
  {Rule(t, "q2", "OR", {c}) : t \in {"hide", "show"}, c \in Conditions}
  \cup {Rule("hide", "q1", comb, cs) : comb \in {"AND", "OR"}, cs \in {BothAnswered, {}}}
  \cup {Rule("jump", "q2", "AND", BothAnswered)}

\* The first question is of a type without a handler: any answer goes.
Followed(rules) ==
  [questions |-> <<Question("note", "q1", TRUE), Question("text-input", "q2", TRUE)>>,
   rules |-> rules]

LogicTrial ==
  [schemas |-> {Followed(rules) : rules \in UNION {[1..n -> Rules] : n \in 0..2}},
   answers |-> [q1 : {Null, Str("a"), Num(2), Num(4), Bool(TRUE), Arr(<<>>),
                      Arr(<<Str("b"), Obj([value |-> Str("a")])>>),
                      Obj([value |-> Str("a"), text |-> Str("x")]), Obj([r1 |-> Str("a")])},
                q2 : {Null, Str("a"), Num(2)}]]

MCTrials == HandlerTrials \cup OddTrials \cup {LogicTrial}
=============================================================================
