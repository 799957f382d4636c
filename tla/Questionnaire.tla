--------------------------- MODULE Questionnaire ---------------------------
(***************************************************************************)
(* The pure core (internal/domain): logic rules, validation and            *)
(* normalisation of one set of answers, with the handlers of the twelve    *)
(* question types, as Submit runs them one after the other.                *)
(***************************************************************************)
EXTENDS Integers, Sequences, SequencesExt, FiniteSets, FiniteSetsExt

CONSTANTS
  Trials,      \* [schemas, answers] records: each of the surveys may get any of the answers
  Size,        \* Size[s]: the length of a string in UTF-16 units
  Spaces,      \* the strings that are empty once trimmed
  Formats,     \* the text formats with a check; all others count as "text"
  WellFormed,  \* <<format, string>>: the strings each of them lets through
  FillKey,     \* FillKey[v]: the subId of the text filled in with the choice v, v + ".fill"
  Unset        \* a limit or a score that the editor left out

\* Go's zero string: no text, no subId.
Empty == ""

ASSUME QuestionnaireAssumption ==
  /\ \A s \in DOMAIN Size : Size[s] \in Nat
  /\ Empty \in Spaces
  /\ \A fs \in WellFormed : fs[1] \in Formats
  /\ Unset \in Int
  /\ \A s, t \in DOMAIN FillKey : FillKey[s] # Empty /\ (FillKey[s] = FillKey[t] => s = t)

VARIABLES case, phase, rows

vars == <<case, phase, rows>>

-----------------------------------------------------------------------------
\* JSON values.  Numbers are counted in halves: Num(3) is 1.5.
Null == [kind |-> "null"]
Str(s) == [kind |-> "string", str |-> s]
Num(n) == [kind |-> "number", num |-> n]
Bool(b) == [kind |-> "bool", bool |-> b]
Arr(s) == [kind |-> "array", items |-> s]
Obj(f) == [kind |-> "object", fields |-> f]

\* The elements of an array or object, by position or key.
Elements(v) ==
  IF v.kind = "array" THEN DOMAIN v.items ELSE IF v.kind = "object" THEN DOMAIN v.fields ELSE {}

Element(v, k) == IF v.kind = "array" THEN v.items[k] ELSE v.fields[k]

\* What encoding/json makes of a value, and as far down as a handler looks.
Decoded(v) ==
  /\ v.kind = "null" => v = Null
  /\ v.kind = "string" => v = Str(v.str)
  /\ v.kind = "array" => v.items \in Seq(ToSet(v.items))

DecodedAnswer(v) ==
  /\ Decoded(v)
  /\ \A k \in Elements(v) :
       /\ Decoded(Element(v, k))
       /\ \A l \in Elements(Element(v, k)) : Decoded(Element(Element(v, k), l))

\* What encoding/json makes of a question and its props.  Nothing here says that
\* ids or values are distinct, or that they are not empty: no code of the backend
\* asks for it.  Every string has a fill key.
DecodedQuestion(q) ==
  /\ q.required \in BOOLEAN /\ q.min \in Int /\ q.max \in Int
  /\ q.lines \in Seq(ToSet(q.lines))
  /\ q.options \in Seq(ToSet(q.options))
  /\ \A o \in ToSet(q.options) : o.value \in DOMAIN FillKey

\* Rules and questions are lists, and answers say something, null if need be, of
\* every question there is and every one a condition reads: a Go map has nil for
\* a key it does not hold.
ASSUME TrialsAssumption ==
  \A t \in Trials :
    /\ \A answers \in t.answers : \A id \in DOMAIN answers : DecodedAnswer(answers[id])
    /\ \A schema \in t.schemas :
         /\ schema.questions \in Seq(ToSet(schema.questions))
         /\ schema.rules \in Seq(ToSet(schema.rules))
         /\ \A q \in ToSet(schema.questions) : DecodedQuestion(q)
         /\ \A answers \in t.answers :
              /\ \A q \in ToSet(schema.questions) : q.id \in DOMAIN answers
              /\ \A r \in ToSet(schema.rules) : \A c \in r.conditions : c.qid \in DOMAIN answers

\* The value of a key, null when the value is no object or has no such key.
Field(v, key) ==
  IF v.kind = "object" /\ key \in DOMAIN v.fields THEN v.fields[key] ELSE Null

\* Only null and the empty string count as unanswered: [], {}, 0 and false do not.
IsAnswered(v) == v \notin {Null, Str(Empty)}

StrAnswered(v) == v.kind = "string" /\ v.str # Empty

-----------------------------------------------------------------------------
\* Logic rules (logic.go).

\* An object with a value key, a choice with its fill text, stands for that value.
Unwrap(v) == IF v.kind = "object" /\ "value" \in DOMAIN v.fields THEN v.fields["value"] ELSE v

\* An empty sub is a condition without subId.
Comparable(raw, sub) == IF sub = Empty THEN Unwrap(raw) ELSE Field(raw, sub)

\* Equal scalars of the same type; null, arrays and objects equal nothing.
JsEqual(a, b) == a.kind \in {"string", "number", "bool"} /\ a = b

Holds(c, answers) ==
  LET a == Comparable(answers[c.qid], c.sub)
      bothNumbers == a.kind = "number" /\ c.value.kind = "number"
  IN  \/ c.op = "answered" /\ IsAnswered(a)
      \/ c.op = "empty" /\ ~IsAnswered(a)
      \/ c.op = "eq" /\ JsEqual(a, c.value)
      \/ c.op = "ne" /\ ~JsEqual(a, c.value)
      \/ c.op = "includes" /\ a.kind = "array"
         /\ \E i \in DOMAIN a.items : JsEqual(Unwrap(a.items[i]), c.value)
      \/ c.op = "gt" /\ bothNumbers /\ a.num > c.value.num
      \/ c.op = "lt" /\ bothNumbers /\ a.num < c.value.num

\* A rule without conditions never fires; any combinator but AND means OR.
Fires(rule, answers) ==
  IF rule.combinator = "AND"
  THEN rule.conditions # {} /\ \A c \in rule.conditions : Holds(c, answers)
  ELSE \E c \in rule.conditions : Holds(c, answers)

\* Faulty variant: one pass in which the last rule wins.
Evaluate_InOrder(rules, answers) ==
  LET Apply(hidden, r) ==
        IF ~Fires(r, answers) THEN hidden
        ELSE IF r.type = "hide" THEN hidden \cup {r.target}
        ELSE IF r.type = "show" THEN hidden \ {r.target} ELSE hidden
  IN  FoldLeft(Apply, {}, rules)

\* One pass over the rules on the answers as sent; the questions shown by a rule
\* are taken out at the end.  Rules of other types are ignored.
Evaluate(rules, answers) ==
  LET Apply(acc, r) ==
        IF Fires(r, answers) /\ r.type \in DOMAIN acc
        THEN [acc EXCEPT ![r.type] = @ \cup {r.target}]
        ELSE acc
      fired == FoldLeft(Apply, [hide |-> {}, show |-> {}], rules)
  IN  fired["hide"] \ fired["show"]

-----------------------------------------------------------------------------
\* Text (textformat.go) and limits.

InLimits(limits, n) ==
  /\ limits.min # Unset => n >= limits.min
  /\ limits.max # Unset => n <= limits.max

\* A limit of the scale and slider types, with its default.
Limit(limit, default) == IF limit = Unset THEN default ELSE limit

FormatOk(format, s) == format \in Formats => <<format, s>> \in WellFormed

\* validateTextValue, for text-input and each blank of multi-fill.
TextOk(t, v) == v.kind = "string" /\ InLimits(t, Size[v.str]) /\ FormatOk(t.format, v.str)

\* textarea ignores any format.
TextareaOk(q, a) == a.kind = "string" /\ InLimits(q, Size[a.str])

\* NormalizedRow.
Row(q, sub, value) == [qid |-> q.id, sub |-> sub, value |-> value]

TextRows(q, a) == IF StrAnswered(a) THEN <<Row(q, Empty, a)>> ELSE <<>>

-----------------------------------------------------------------------------
\* Choices (choice.go, dropdown.go).

\* A chosen option: its value, or an object with its value and the text filled in.
Chosen(v) ==
  IF v.kind = "string" THEN [ok |-> TRUE, value |-> v.str, text |-> Empty]
  ELSE IF Field(v, "value").kind = "string"
  THEN LET text == Field(v, "text")
       IN  [ok |-> TRUE, value |-> v.fields["value"].str,
            text |-> IF text.kind = "string" THEN text.str ELSE Empty]
  ELSE [ok |-> FALSE, value |-> Empty, text |-> Empty]

Values(q) == {o.value : o \in ToSet(q.options)}

\* Where the options of a value are.  One value may have several: single-choice
\* looks at the first of them, multi-choice and matrix-scale at the last.
Offers(q, v) == {i \in DOMAIN q.options : q.options[i].value = v}

\* fill is "required" when the option's fill is enabled and required.
FillOk(option, e) == option.fill = "required" => e.text \notin Spaces

OptionRows(q, e, sub) ==
  (IF e.ok /\ e.value # Empty THEN <<Row(q, Empty, Str(e.value))>> ELSE <<>>)
  \o (IF e.ok /\ e.value # Empty /\ e.text # Empty THEN <<Row(q, sub, Str(e.text))>> ELSE <<>>)

\* Faulty variant: the option is not looked up.
SingleChoiceOk_AnyOption(q, a) == Chosen(a).ok

SingleChoiceOk(q, a) ==
  LET e == Chosen(a)
  IN  e.ok /\ \E i \in Offers(q, e.value) :
                (\A j \in Offers(q, e.value) : i <= j) /\ FillOk(q.options[i], e)

SingleChoiceRows(q, a) == OptionRows(q, Chosen(a), "fill")

\* One element of a multi-choice answer.
MultiElementOk(q, e) ==
  e.ok /\ \E i \in Offers(q, e.value) :
            (\A j \in Offers(q, e.value) : j <= i) /\ FillOk(q.options[i], e)

\* The limits hold for an empty array too, even when no answer is demanded.
MultiChoiceOk(q, a) ==
  /\ a.kind = "array"
  /\ q.required => a.items # <<>>
  /\ \A i \in DOMAIN a.items : MultiElementOk(q, Chosen(a.items[i]))
  /\ Cardinality({Chosen(a.items[i]).value : i \in DOMAIN a.items}) = Len(a.items)
  /\ InLimits(q, Len(a.items))

MultiChoiceRows(q, a) ==
  IF a.kind # "array" THEN <<>>
  ELSE FlattenSeq([i \in DOMAIN a.items |->
         LET e == Chosen(a.items[i]) IN OptionRows(q, e, FillKey[e.value])])

DropdownOk(q, a) ==
  a.kind = "string" /\ (a.str = Empty \/ a.str \in Values(q))

DropdownRows(q, a) == TextRows(q, a)

\* scale.go: whole numbers only.
ScaleOk(q, a) ==
  /\ a.kind = "number" /\ a.num % 2 = 0
  /\ a.num \in Limit(q.min, 2)..Limit(q.max, 10)

ScaleRows(q, a) == IF a.kind = "number" THEN <<Row(q, Empty, a)>> ELSE <<>>

-----------------------------------------------------------------------------
\* Questions of several lines: the matrix types and multi-fill.

\* The keys of the answer; a value that is no object has none.
Keys(a) == IF a.kind = "object" THEN DOMAIN a.fields ELSE {}

Lines(q) == ToSet(q.lines)

Cell(q, a, i) == Field(a, q.lines[i])

\* Rows in the order of the question's lines: values[i] is what line i has.
LineRows(q, values) ==
  FlattenSeq([i \in DOMAIN q.lines |->
    [j \in DOMAIN values[i] |-> Row(q, q.lines[i], values[i][j])]])

\* A non-empty string is kept, anything else passed over.
Kept(v) == IF StrAnswered(v) THEN <<v>> ELSE <<>>

\* The same for the types whose cells are strings.
StringRows(q, a) == LineRows(q, [i \in DOMAIN q.lines |-> Kept(Cell(q, a, i))])

\* Cells that are not strings are passed over.
MatrixSingleOk(q, a) ==
  /\ \A k \in Keys(a) : StrAnswered(Field(a, k)) =>
       k \in Lines(q) /\ Field(a, k).str \in Values(q)
  /\ q.required => \A k \in Lines(q) : StrAnswered(Field(a, k))

MatrixSingleRows(q, a) == StringRows(q, a)

\* Faulty variant: repeated options are let through.
MatrixMultiCellOk_Repeats(q, v) ==
  /\ \A i \in DOMAIN v.items : v.items[i].kind = "string" /\ v.items[i].str \in Values(q)
  /\ InLimits(q, Len(v.items))

MatrixMultiCellOk(q, v) ==
  /\ \A i \in DOMAIN v.items : v.items[i].kind = "string" /\ v.items[i].str \in Values(q)
  /\ Cardinality(ToSet(v.items)) = Len(v.items)
  /\ InLimits(q, Len(v.items))

\* An empty cell is subject to no limit.
MatrixMultiCellsOk(q, a) ==
  \A k \in Keys(a) : Field(a, k) # Null =>
    /\ Field(a, k).kind = "array"
    /\ Field(a, k).items # <<>> => k \in Lines(q) /\ MatrixMultiCellOk(q, Field(a, k))

\* Faulty variant: the demand is left to the generic check, which takes {} for an
\* answer.
MatrixMultiOk_GenericRequired(q, a) == MatrixMultiCellsOk(q, a)

MatrixMultiOk(q, a) ==
  /\ MatrixMultiCellsOk(q, a)
  /\ q.required => \A k \in Lines(q) :
       /\ Field(a, k).kind = "array" /\ Field(a, k).items # <<>>
       /\ q.min # Unset => Len(Field(a, k).items) >= q.min

MatrixMultiRows(q, a) ==
  LineRows(q, [i \in DOMAIN q.lines |->
    IF Cell(q, a, i).kind = "array"
    THEN LET items == Cell(q, a, i).items
         IN  FlattenSeq([j \in DOMAIN items |-> Kept(items[j])])
    ELSE <<>>])

MatrixScaleOk(q, a) == MatrixSingleOk(q, a)

\* The score of the column of this value, or the value when it has none.
Scored(q, v) ==
  LET columns == Offers(q, v.str)
      score == IF columns = {} THEN Unset ELSE q.options[Max(columns)].score
  IN  IF score = Unset THEN v ELSE Num(score)

MatrixScaleRows(q, a) ==
  LineRows(q, [i \in DOMAIN q.lines |->
    IF StrAnswered(Cell(q, a, i)) THEN <<Scored(q, Cell(q, a, i))>> ELSE <<>>])

\* Faulty variant: a cell of a line the question does not have is let through.
MatrixFillOk_AnyLine(q, a) ==
  /\ \A k \in Keys(a) : IsAnswered(Field(a, k)) =>
       /\ Field(a, k).kind = "string"
       /\ q.max # Unset => Size[Field(a, k).str] <= q.max
  /\ q.required => \A k \in Lines(q) : StrAnswered(Field(a, k))

MatrixFillOk(q, a) ==
  /\ \A k \in Keys(a) : IsAnswered(Field(a, k)) =>
       /\ k \in Lines(q)
       /\ Field(a, k).kind = "string"
       /\ q.max # Unset => Size[Field(a, k).str] <= q.max
  /\ q.required => \A k \in Lines(q) : StrAnswered(Field(a, k))

MatrixFillRows(q, a) == StringRows(q, a)

MatrixSliderOk(q, a) ==
  /\ \A k \in Keys(a) : Field(a, k) # Null =>
       /\ k \in Lines(q)
       /\ Field(a, k).kind = "number"
       /\ Field(a, k).num \in Limit(q.min, 0)..Limit(q.max, 200)
  /\ q.required => \A k \in Lines(q) : Field(a, k).kind = "number"

MatrixSliderRows(q, a) ==
  LineRows(q, [i \in DOMAIN q.lines |->
    IF Cell(q, a, i).kind = "number" THEN <<Cell(q, a, i)>> ELSE <<>>])

\* Each blank has a text check of its own.
MultiFillOk(q, a) ==
  /\ \A k \in Keys(a) : IsAnswered(Field(a, k)) =>
       k \in Lines(q) /\ TextOk(q.blanks[k], Field(a, k))
  /\ q.required => \A k \in Lines(q) : StrAnswered(Field(a, k))

MultiFillRows(q, a) == StringRows(q, a)

-----------------------------------------------------------------------------
\* The registry (registry.go, qtype.go) and the whole survey.

LineTypes ==
  {"matrix-single", "matrix-multi", "matrix-scale", "matrix-fill", "matrix-slider", "multi-fill"}

RegisteredTypes == LineTypes \cup
  {"single-choice", "multi-choice", "scale", "text-input", "textarea", "dropdown"}

\* What the handler of the type says; a type without one checks nothing.
Valid(q, a) ==
  CASE q.type = "single-choice" -> SingleChoiceOk(q, a)
    [] q.type = "multi-choice"  -> MultiChoiceOk(q, a)
    [] q.type = "dropdown"      -> DropdownOk(q, a)
    [] q.type = "scale"         -> ScaleOk(q, a)
    [] q.type = "text-input"    -> TextOk(q, a)
    [] q.type = "textarea"      -> TextareaOk(q, a)
    [] q.type = "matrix-single" -> MatrixSingleOk(q, a)
    [] q.type = "matrix-multi"  -> MatrixMultiOk(q, a)
    [] q.type = "matrix-scale"  -> MatrixScaleOk(q, a)
    [] q.type = "matrix-fill"   -> MatrixFillOk(q, a)
    [] q.type = "matrix-slider" -> MatrixSliderOk(q, a)
    [] q.type = "multi-fill"    -> MultiFillOk(q, a)
    [] OTHER                    -> TRUE

\* Its rows; a type without a handler has none.
Normalize(q, a) ==
  CASE q.type = "single-choice" -> SingleChoiceRows(q, a)
    [] q.type = "multi-choice"  -> MultiChoiceRows(q, a)
    [] q.type = "dropdown"      -> DropdownRows(q, a)
    [] q.type = "scale"         -> ScaleRows(q, a)
    [] q.type \in {"text-input", "textarea"} -> TextRows(q, a)
    [] q.type = "matrix-single" -> MatrixSingleRows(q, a)
    [] q.type = "matrix-multi"  -> MatrixMultiRows(q, a)
    [] q.type = "matrix-scale"  -> MatrixScaleRows(q, a)
    [] q.type = "matrix-fill"   -> MatrixFillRows(q, a)
    [] q.type = "matrix-slider" -> MatrixSliderRows(q, a)
    [] q.type = "multi-fill"    -> MultiFillRows(q, a)
    [] OTHER                    -> <<>>

\* Faulty variant: only the demand of an answer is lifted from hidden questions.
ValidateSurvey_HiddenToo(schema, answers) ==
  LET hidden == Evaluate(schema.rules, answers)
  IN  \A q \in ToSet(schema.questions) :
        IF IsAnswered(answers[q.id]) THEN Valid(q, answers[q.id])
        ELSE q.id \in hidden \/ ~q.required

\* Nothing is wrong with any visible question.
ValidateSurvey(schema, answers) ==
  LET hidden == Evaluate(schema.rules, answers)
  IN  \A q \in ToSet(schema.questions) :
        \/ q.id \in hidden
        \/ IF IsAnswered(answers[q.id]) THEN Valid(q, answers[q.id]) ELSE ~q.required

\* The rows of the visible questions that are answered, in the survey's order.
NormalizeSurvey(schema, answers) ==
  LET hidden == Evaluate(schema.rules, answers)
      Rows(q) == IF q.id \notin hidden /\ IsAnswered(answers[q.id])
                 THEN Normalize(q, answers[q.id]) ELSE <<>>
  IN  FlattenSeq([i \in DOMAIN schema.questions |-> Rows(schema.questions[i])])

-----------------------------------------------------------------------------
Init ==
  /\ \E t \in Trials : \E schema \in t.schemas, answers \in t.answers :
       case = [schema |-> schema, answers |-> answers]
  /\ phase = "received"
  /\ rows = <<>>

\* Submit validates, and refuses what is not valid ...
Validate ==
  /\ phase = "received"
  /\ phase' = IF ValidateSurvey(case.schema, case.answers) THEN "accepted" ELSE "refused"
  /\ UNCHANGED <<case, rows>>

\* ... and normalises what is: these rows go to SaveSubmission.
Flatten ==
  /\ phase = "accepted"
  /\ phase' = "flattened"
  /\ rows' = NormalizeSurvey(case.schema, case.answers)
  /\ UNCHANGED case

Next == Validate \/ Flatten

Spec == Init /\ [][Next]_vars

-----------------------------------------------------------------------------
\* What the rows are held against.

HiddenNow == Evaluate(case.schema.rules, case.answers)

\* The questions that were checked and stored, with a handler and an answer.
Stored ==
  {q \in ToSet(case.schema.questions) :
     q.id \notin HiddenNow /\ IsAnswered(case.answers[q.id]) /\ q.type \in RegisteredTypes}

\* Where the rows of a question's id are.
Places(q) == {i \in DOMAIN rows : rows[i].qid = q.id}

\* A rule that shows a question wins over every rule that hides it, wherever the
\* two stand in the list, and nothing else decides; Evaluate makes one pass in
\* list order and sorts this out at the end (logic.go:154-178).
ShowWins ==
  LET fired == {r \in ToSet(case.schema.rules) : Fires(r, case.answers)}
  IN  HiddenNow = {r.target : r \in {r \in fired : r.type = "hide"}}
                  \ {r.target : r \in {r \in fired : r.type = "show"}}

\* How often the survey asks for a row: once for every question of its id, and of
\* one that has lines once for every line of its sub id.  The editor keeps both
\* distinct, the backend takes them as they are.
Askings(r) ==
  LET questions == case.schema.questions
  IN  UNION {IF questions[i].type \in LineTypes
             THEN {<<i, j>> : j \in {j \in DOMAIN questions[i].lines : questions[i].lines[j] = r.sub}}
             ELSE {<<i, 0>>} : i \in {i \in DOMAIN questions : questions[i].id = r.qid}}

\* No row is stored more often than the survey asks for it: frequencies count each
\* choice of a respondent once.  Normalize trusts Validate to have refused repeated
\* options.
CountedOnce ==
  phase = "flattened" => \A i \in DOMAIN rows :
    Cardinality({j \in DOMAIN rows : rows[j] = rows[i]}) <= Cardinality(Askings(rows[i]))

\* The ways to what an answer holds, null and the empty string aside: a scalar, the
\* answer itself or an element of it, or whatever an element of an element is.
IsScalar(v) == IsAnswered(v) /\ v.kind \notin {"array", "object"}

Held(a) ==
  {p \in {<<>>} : IsScalar(a)}
  \cup {<<k>> : k \in {k \in Elements(a) : IsScalar(Element(a, k))}}
  \cup UNION {{<<k, l>> : l \in {l \in Elements(Element(a, k)) : IsAnswered(Element(Element(a, k), l))}}
              : k \in Elements(a)}

\* The row that says what is found there: under the line or as the fill text of the
\* option where the respondent put it.
RowOf(q, a, p) ==
  CASE q.type = "multi-choice" ->
         LET e == Chosen(a.items[p[1]])
         IN  IF Len(p) = 2 /\ p[2] = "text" THEN Row(q, FillKey[e.value], Str(e.text))
             ELSE Row(q, Empty, Str(e.value))
    [] q.type = "single-choice" ->
         IF p = <<"text">> THEN Row(q, "fill", Element(a, "text"))
         ELSE Row(q, Empty, IF p = <<>> THEN a ELSE Element(a, "value"))
    [] q.type = "matrix-multi" -> Row(q, p[1], Element(Element(a, p[1]), p[2]))
    [] q.type = "matrix-scale" -> Row(q, p[1], Scored(q, Element(a, p[1])))
    [] q.type \in LineTypes \ {"matrix-multi", "matrix-scale"} -> Row(q, p[1], Element(a, p[1]))
    [] OTHER -> Row(q, Empty, a)

\* Of a chosen option, a field but the value and the text, a text that is no string
\* and the text of an option whose value is empty.
PassedOverOfChoice(v, field) ==
  \/ field \notin {"value", "text"}
  \/ field = "text" /\ (Element(v, "text").kind # "string" \/ Chosen(v).value = Empty)

\* What of an accepted answer its handler passes over without a word: a value that
\* is no object where lines are asked for, a cell that is no string where a column
\* is to be chosen, and those parts of a choice.
PassedOver(q, a, p) ==
  \/ q.type \in LineTypes /\ a.kind # "object"
  \/ q.type \in {"matrix-single", "matrix-scale"} /\ Element(a, p[1]).kind # "string"
  \/ q.type = "single-choice" /\ p # <<>> /\ PassedOverOfChoice(a, p[1])
  \/ q.type = "multi-choice" /\ Len(p) = 2 /\ PassedOverOfChoice(a.items[p[1]], p[2])

\* The rows for all that an accepted answer says and its handler does not pass over.
Said(q, a) == {RowOf(q, a, p) : p \in {p \in Held(a) : ~PassedOver(q, a, p)}}

\* What an accepted answer says is stored, each value under its line or option.
\* Validate and Normalize of a type are two functions that walk the answer each in
\* its own way, one by the keys sent, the other by the lines of the question.
NothingDropped ==
  phase = "flattened" => \A q \in Stored : Said(q, case.answers[q.id]) \subseteq ToSet(rows)

\* A row is one the question asks for, after those of its rows stored earlier.
RowFits(q, r, earlier) ==
  LET offered == r.value.kind = "string" /\ r.value.str \in Values(q)
      InRange(lo, hi) == r.value.kind = "number" /\ r.value.num >= lo /\ r.value.num <= hi
      FillOf(e) == IF q.type = "single-choice" THEN "fill" ELSE FillKey[e.value.str]
  IN  /\ IF q.type \in LineTypes THEN r.sub \in Lines(q)
         ELSE r.sub = Empty \/ q.type \in {"single-choice", "multi-choice"}
      /\ CASE q.type \in {"single-choice", "multi-choice"} ->
                (r.sub = Empty /\ offered) \/ \E e \in earlier : e.sub = Empty /\ r.sub = FillOf(e)
           [] q.type \in {"dropdown", "matrix-single", "matrix-multi"} -> offered
           [] q.type = "matrix-scale" ->
                offered \/ \E o \in ToSet(q.options) : o.score # Unset /\ r.value = Num(o.score)
           [] q.type = "scale" -> InRange(Limit(q.min, 2), Limit(q.max, 10)) /\ r.value.num % 2 = 0
           [] q.type = "matrix-slider" -> InRange(Limit(q.min, 0), Limit(q.max, 200))
           [] q.type = "multi-fill" -> TextOk(q.blanks[r.sub], r.value)
           [] q.type = "text-input" -> TextOk(q, r.value)
           [] q.type = "textarea" -> TextareaOk(q, r.value)
           [] OTHER -> r.value.kind = "string" /\ (q.max # Unset => Size[r.value.str] <= q.max)

\* Every row is one that a visible question of its id offers, and of something
\* said there: an existing option or score, a number in range, a text of the right
\* length and form, on an existing line; fill texts belong to an option chosen in
\* the same answer.
RowsFitQuestion ==
  phase = "flattened" => \A i \in DOMAIN rows :
    \E q \in Stored :
      /\ rows[i].qid = q.id /\ rows[i] \in Said(q, case.answers[q.id])
      /\ RowFits(q, rows[i], {rows[j] : j \in Places(q) \cap 1..(i - 1)})

\* The subIds under which a required question must have rows.
Demanded(q) == IF q.type \in LineTypes THEN Lines(q) ELSE {Empty}

\* The answer there, or each of its elements, is an option whose value the survey
\* left empty.
OnlyUnnamed(q, a, sub) ==
  LET picked == IF q.type = "matrix-multi" THEN Field(a, sub) ELSE a
  IN  /\ q.type \in {"single-choice", "multi-choice", "matrix-multi"} /\ Empty \in Values(q)
      /\ \A e \in IF picked.kind = "array" THEN ToSet(picked.items) ELSE {picked} :
           Chosen(e).value = Empty

\* A required question that was visible has what it demands among the rows: a
\* value, or one for every line, unless all that was picked is an option without a
\* value, which no row can name.  The generic check takes [] and {} for answers,
\* so each handler has to see to it (registry.go:14).
RequiredIsComplete ==
  phase = "flattened" => \A q \in ToSet(case.schema.questions) :
    q.required /\ q.id \notin HiddenNow /\ q.type \in RegisteredTypes =>
      \A sub \in Demanded(q) :
        OnlyUnnamed(q, case.answers[q.id], sub) \/ \E i \in Places(q) : rows[i].sub = sub

\* What was sent for a hidden question changes neither the verdict nor the rows,
\* unless a condition reads it: the page may keep or clear it.
HiddenAnswersAreInert ==
  phase # "received" =>
    LET read == {c.qid : c \in UNION {r.conditions : r \in ToSet(case.schema.rules)}}
        cleared == [q \in DOMAIN case.answers |->
                      IF q \in HiddenNow \ read THEN Null ELSE case.answers[q]]
    IN  /\ ValidateSurvey(case.schema, cleared) <=> phase # "refused"
        /\ phase = "flattened" => rows = NormalizeSurvey(case.schema, cleared)
=============================================================================
