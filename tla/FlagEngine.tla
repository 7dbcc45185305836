----------------------------- MODULE FlagEngine -----------------------------
(***************************************************************************)
(* How a flag rule decides: the coercions, the member sets of lists        *)
(* (lists/matching.py), the sixteen comparisons (flag_rules/engine.py) and *)
(* the shape a rule must have (flag_rules/schemas.py).                     *)
(*                                                                         *)
(* A text is a member of Texts; Lex says what the code reads in it: the    *)
(* number it parses as, the boolean, whether it is a word for one, the     *)
(* text it is once trimmed and folded (its key), its place among texts,    *)
(* the texts that occur in it or begin it whatever the case, and the parts *)
(* between its commas.  Numbers are integers: only their order matters.    *)
(***************************************************************************)
EXTENDS Integers, Sequences, FiniteSets, FiniteSetsExt, Functions

CONSTANTS
  Texts,
  Lex,
  Blank,       \* the empty text
  BoolText,    \* as_text of a boolean
  NumberText,  \* as_text of each number a cell may be
  NoValue

Meaning == [number : Int \cup {NoValue}, bool : BOOLEAN \cup {NoValue}, word : BOOLEAN,
            key : Texts, rank : Nat, has : SUBSET Texts, starts : SUBSET Texts,
            parts : SUBSET Texts]

Numbers == DOMAIN NumberText

\* Texts that differ only in case and blanks around them read the same; a word
\* is a boolean and no number; nothing is read in a blank text.
ASSUME LexiconAssumption ==
  /\ Lex \in [Texts -> Meaning] /\ Blank \in Texts
  /\ NoValue \notin Int /\ NoValue \notin BOOLEAN /\ NoValue \notin Texts
  /\ BoolText \in [BOOLEAN -> Texts]
  /\ NumberText \in [Numbers -> Texts] /\ Numbers \subseteq Int
  /\ \A b \in BOOLEAN : Lex[BoolText[b]].bool = b /\ Lex[BoolText[b]].word
  /\ \A n \in Numbers : Lex[NumberText[n]].number = n
  /\ \A t \in Texts :
       /\ Lex[t].word => Lex[t].bool # NoValue /\ Lex[t].number = NoValue
       /\ Lex[t].key = Blank => Lex[t].number = NoValue /\ Lex[t].bool = NoValue
  /\ \A t, u \in Texts : Lex[t].rank = Lex[u].rank => t = u
  /\ \A t, u \in Texts : Lex[t].key = Lex[u].key =>
       /\ Lex[t].number = Lex[u].number
       /\ Lex[t].bool = Lex[u].bool /\ Lex[t].word = Lex[u].word

\* What to_jsonable leaves in a row.
Null == [kind |-> "null"]
Bool(b) == [kind |-> "bool", bool |-> b]
Number(n) == [kind |-> "number", number |-> n]
Text(t) == [kind |-> "text", text |-> t]
Cells == {Null} \cup {Bool(b) : b \in BOOLEAN} \cup {Number(n) : n \in Numbers}
           \cup {Text(t) : t \in Texts}

\* The other side of a comparison, which may be missing.
Operand(value) == IF value = NoValue THEN Null ELSE Text(value)

-----------------------------------------------------------------------------
(* Coercions.                                                              *)

\* as_number: a boolean is none.
AsNumber(c) == CASE c.kind = "number" -> c.number
                 [] c.kind = "text" -> Lex[c.text].number
                 [] OTHER -> NoValue
\* as_bool, of a boolean cell or a text.
AsBool(c) == CASE c.kind = "bool" -> c.bool
               [] c.kind = "text" -> Lex[c.text].bool
               [] OTHER -> NoValue
IsWord(c) == c.kind = "text" /\ Lex[c.text].word
AsText(c) == CASE c.kind = "null" -> Blank
               [] c.kind = "bool" -> BoolText[c.bool]
               [] c.kind = "number" -> NumberText[c.number]
               [] c.kind = "text" -> c.text
IsNumber(c) == AsNumber(c) # NoValue

-----------------------------------------------------------------------------
(* Lists.                                                                  *)

\* list_key.
Key(c) == IF IsNumber(c) THEN <<"number", AsNumber(c)>>
          ELSE <<"text", Lex[AsText(c)].key>>

\* Mutant: every item that reads as a boolean is taken for a word.
TokensOfDigits(item) ==
  {<<k, b>> : k \in {"bool", "word"}, b \in {Lex[item].bool} \ {NoValue}}

\* _tokens.
Tokens(item) ==
  {<<"bool", b>> : b \in {Lex[item].bool} \ {NoValue}}
    \cup {<<"word", b>> : b \in IF Lex[item].word THEN {Lex[item].bool} ELSE {}}

Listed(items) == {i \in items : Lex[i].key # Blank}

\* members_from_items.
MembersOf(items) == {Key(Text(i)) : i \in Listed(items)}
                      \cup UNION {Tokens(i) : i \in Listed(items)}

\* is_member.
IsMember(members, c) ==
  \/ Key(c) \in members
  \/ c.kind = "bool" /\ <<"bool", c.bool>> \in members
  \/ IsWord(c) /\ <<"word", AsBool(c)>> \in members

-----------------------------------------------------------------------------
(* One condition on one cell.                                              *)

NullaryOperators == {"is_null", "is_not_null"}
BinaryOperators == {"between"}
ListOperators == {"in_list", "not_in_list"}
Operators == {"gt", "gte", "lt", "lte", "eq", "neq", "contains", "not_contains",
              "starts_with", "in", "not_in"}
               \cup NullaryOperators \cup BinaryOperators \cup ListOperators

\* _equals.
Equals(c, v) ==
  CASE c.kind = "bool" -> AsBool(v) = c.bool
    [] IsWord(c) /\ IsWord(v) -> AsBool(c) = AsBool(v)
    [] c.kind # "bool" /\ ~(IsWord(c) /\ IsWord(v)) /\ IsNumber(c) /\ IsNumber(v) ->
         AsNumber(c) = AsNumber(v)
    [] OTHER -> AsText(c) = AsText(v)

\* c stands before v, or with it: as numbers if both are, as texts if not.
Upto(c, v) == IF IsNumber(c) /\ IsNumber(v) THEN AsNumber(c) <= AsNumber(v)
              ELSE Lex[AsText(c)].rank <= Lex[AsText(v)].rank

\* _compare_ordered: a boolean has no place in an order.
Ordered(op, c, v) ==
  /\ c.kind # "bool"
  /\ CASE op = "gt" -> ~Upto(c, v)
       [] op = "gte" -> Upto(v, c)
       [] op = "lt" -> ~Upto(v, c)
       [] op = "lte" -> Upto(c, v)

\* between, its bounds in either order: as numbers when both bounds are.
Between(c, v, w) ==
  IF IsNumber(v) /\ IsNumber(w)
  THEN IsNumber(c) /\ \/ Upto(v, c) /\ Upto(c, w)
                      \/ Upto(w, c) /\ Upto(c, v)
  ELSE LET at == Lex[AsText(c)].rank
           low == Lex[AsText(v)].rank
           high == Lex[AsText(w)].rank
       IN  at \in low .. high \cup high .. low

\* split_list.
Parts(value) == IF value = NoValue THEN {} ELSE Lex[value].parts

\* evaluate_condition on a cell that is not NULL, for the operators that have
\* no complement.
Holds(k, op, c) ==
  LET v == Operand(k.value)
  IN  CASE op \in {"gt", "gte", "lt", "lte"} -> Ordered(op, c, v)
        [] op = "eq" -> Equals(c, v)
        [] op = "contains" -> AsText(v) \in Lex[AsText(c)].has
        [] op = "starts_with" -> AsText(v) \in Lex[AsText(c)].starts
        [] op = "in" -> \E t \in Parts(k.value) : Equals(c, Text(t))
        [] op = "between" -> Between(c, v, Operand(k.value2))
        [] op = "in_list" -> k.members # NoValue /\ IsMember(k.members, c)

Complement == [op \in {"neq", "not_contains", "not_in"} |->
                 CASE op = "neq" -> "eq" [] op = "not_contains" -> "contains"
                   [] op = "not_in" -> "in"]

\* Mutant: a missing value is different from everything.
SatisfiesOfNull(k, c) ==
  CASE k.operator = "is_null" -> c.kind = "null"
    [] k.operator = "is_not_null" -> c.kind # "null"
    [] k.operator \in DOMAIN Complement -> ~Holds(k, Complement[k.operator], c)
    [] k.operator = "not_in_list" -> k.members # NoValue /\ ~IsMember(k.members, c)
    [] OTHER -> c.kind # "null" /\ Holds(k, k.operator, c)

\* evaluate_condition: NULL satisfies is_null alone; a list that was never
\* resolved is matched by neither operator.
Satisfies(k, c) ==
  CASE k.operator = "is_null" -> c.kind = "null"
    [] k.operator = "is_not_null" -> c.kind # "null"
    [] k.operator \in DOMAIN Complement ->
         c.kind # "null" /\ ~Holds(k, Complement[k.operator], c)
    [] k.operator = "not_in_list" ->
         c.kind # "null" /\ k.members # NoValue /\ ~IsMember(k.members, c)
    [] OTHER -> c.kind # "null" /\ Holds(k, k.operator, c)

-----------------------------------------------------------------------------
(* The shape of a rule (FlagConditionBase, FlagRuleBase, FlagRuleSetUpdate).*)

Given(value) == value \notin {NoValue, Blank}

WellFormed(k) ==
  CASE k.operator \in ListOperators -> k.list # NoValue
    [] k.operator \in NullaryOperators -> TRUE
    [] OTHER -> Given(k.value) /\ (k.operator \in BinaryOperators => Given(k.value2))

\* What the operator does not read is not kept.
Normal(k) ==
  LET reads == k.operator \notin ListOperators \cup NullaryOperators
  IN  [k EXCEPT !.list = IF k.operator \in ListOperators THEN @ ELSE NoValue,
                !.value = IF reads THEN @ ELSE NoValue,
                !.value2 = IF k.operator \in BinaryOperators THEN @ ELSE NoValue]

\* rules is a whole set, in its order; names differ in more than their case.
Acceptable(rules) ==
  /\ \A i \in DOMAIN rules :
       rules[i].conditions # <<>> /\ \A k \in Range(rules[i].conditions) : WellFormed(k)
  /\ \A i, j \in DOMAIN rules : i # j => Lex[rules[i].name].key # Lex[rules[j].name].key

\* preview_flags and specs_from_models: each condition with the members of its
\* list.
Resolved(rules, lists) ==
  [i \in DOMAIN rules |->
     [enabled |-> rules[i].enabled,
      conditions |-> [j \in DOMAIN rules[i].conditions |->
        LET k == Normal(rules[i].conditions[j])
        IN  [column |-> k.column, operator |-> k.operator,
             value |-> k.value, value2 |-> k.value2,
             members |-> IF k.list = NoValue THEN NoValue ELSE MembersOf(lists[k.list])]]]]

-----------------------------------------------------------------------------
(* A rule and a result.                                                    *)

\* Of columns with one name, the last is read.
Position(columns, name) == Max({p \in DOMAIN columns : columns[p] = name})

Missing(rule, columns) ==
  {k.column : k \in Range(rule.conditions)} \ Range(columns)

Matches(rule, columns, row) ==
  \A k \in Range(rule.conditions) : Satisfies(k, row[Position(columns, k.column)])

\* _why_nothing_matched names a condition that compares with a boolean a column
\* that holds none.
Unlike(rule, columns, rows) ==
  \E k \in Range(rule.conditions) :
    LET column == {rows[i][Position(columns, k.column)] : i \in DOMAIN rows} \ {Null}
    IN  /\ k.operator \in {"eq", "neq"}
        /\ AsBool(Operand(k.value)) # NoValue
        /\ column # {} /\ \A c \in column : ~(c.kind = "bool" \/ IsWord(c))
=============================================================================
