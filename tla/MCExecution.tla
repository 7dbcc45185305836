---------------------------- MODULE MCExecution ----------------------------
(***************************************************************************)
(* A lexicon of a dozen texts, statements with at most two traits out of   *)
(* the ordinary, small results, and rules of every operator.               *)
(***************************************************************************)
EXTENDS Execution, TLC

Reads(number, bool, word, key, rank, has, starts, parts) ==
  [number |-> number, bool |-> bool, word |-> word, key |-> key, rank |-> rank,
   has |-> has \cup {""}, starts |-> starts \cup {""}, parts |-> parts]

\* In the order of their characters.
MCLex ==
  "" :> Reads(NoValue, NoValue, FALSE, "", 0, {}, {}, {})
  @@ " " :> Reads(NoValue, NoValue, FALSE, "", 1, {" "}, {" "}, {})
  @@ " 2" :> Reads(2, NoValue, FALSE, "2", 2, {" ", " 2", "2"}, {" ", " 2"}, {"2"})
  @@ "1" :> Reads(1, TRUE, FALSE, "1", 3, {"1"}, {"1"}, {"1"})
  @@ "1,yes" :> Reads(NoValue, NoValue, FALSE, "1,yes", 4, {"1", "1,yes", "Yes", "yes"}, {"1", "1,yes"}, {"1", "yes"})
  @@ "2" :> Reads(2, NoValue, FALSE, "2", 5, {"2"}, {"2"}, {"2"})
  @@ "2.0" :> Reads(2, NoValue, FALSE, "2.0", 6, {"2", "2.0"}, {"2", "2.0"}, {"2.0"})
  @@ "ACME" :> Reads(NoValue, NoValue, FALSE, "acme", 7, {"ACME", "acme"}, {"ACME", "acme"}, {"ACME"})
  @@ "Yes" :> Reads(NoValue, TRUE, TRUE, "yes", 8, {"Yes", "yes"}, {"Yes", "yes"}, {"Yes"})
  @@ "acme" :> Reads(NoValue, NoValue, FALSE, "acme", 9, {"ACME", "acme"}, {"ACME", "acme"}, {"acme"})
  @@ "false" :> Reads(NoValue, FALSE, TRUE, "false", 10, {"false"}, {"false"}, {"false"})
  @@ "no" :> Reads(NoValue, FALSE, TRUE, "no", 11, {"no"}, {"no"}, {"no"})
  @@ "true" :> Reads(NoValue, TRUE, TRUE, "true", 12, {"true"}, {"true"}, {"true"})
  @@ "yes" :> Reads(NoValue, TRUE, TRUE, "yes", 13, {"Yes", "yes"}, {"Yes", "yes"}, {"yes"})
MCTexts == DOMAIN MCLex
MCBoolText == [b \in BOOLEAN |-> IF b THEN "true" ELSE "false"]
MCNumberText == 1 :> "1" @@ 2 :> "2"

\* A statement, and those that differ from it in one trait or two.
Ordinary == [with |-> "none", command |-> "SELECT", item |-> "column", word |-> "a",
             lock |-> "none", into |-> FALSE, more |-> FALSE, ends |-> 0, comment |-> 0]
Traits ==
  {[Ordinary EXCEPT !.with = w] : w \in {"read", "write"}}
  \cup {[Ordinary EXCEPT !.command = c] : c \in {"DELETE", "EXPLAIN", "none"}}
  \cup {[Ordinary EXCEPT !.item = i, !.word = w] :
          i \in {"column", "quoted", "call", "quoted_call", "field"},
          w \in {"a", "pg_f", "lite_f", "pragma"}}
  \cup {[Ordinary EXCEPT !.item = i] : i \in {"keyword", "literal", "ambiguous"}}
  \cup {[Ordinary EXCEPT !.lock = k] : k \in {"share", "key_share", "update"}}
  \cup {[Ordinary EXCEPT !.into = TRUE], [Ordinary EXCEPT !.more = TRUE]}
  \cup {[Ordinary EXCEPT !.ends = n] : n \in 1 .. 2}
  \cup {[Ordinary EXCEPT !.comment = n] : n \in 1 .. 3}
Both(m, n) == [f \in DOMAIN m |-> IF m[f] # Ordinary[f] THEN m[f] ELSE n[f]]
MCMeants == {Both(m, n) : m, n \in Traits}

Values == {Null, [kind |-> "nan"], [kind |-> "decimal", number |-> 2], Bool(TRUE), Bool(FALSE),
           Number(1), Number(2)} \cup {Text(t) : t \in MCTexts}
MCResults ==
  {[columns |-> <<"c">>, rows |-> <<<<v>>>>] : v \in Values}
  \cup {[columns |-> <<"c", "c">>, rows |-> <<<<Null, v>>, <<v, Text("yes")>>>>] : v \in Values}
  \cup {[columns |-> <<"c", "d">>, rows |-> <<<<v, Null>>, <<Number(1), v>>, <<Number(2), Bool(TRUE)>>>>] :
          v \in {Null, Number(1), Text("acme")}}
  \cup {[columns |-> <<>>, rows |-> <<>>]}
MCWidth(row) == Len(row) + 2 * Cardinality({i \in DOMAIN row : row[i] = Text("ACME")})

MCItemLists == [ids |-> {"", " ", "2.0", "acme"}, flags |-> {"no", "1"}]

Condition(column, op, v, w, l) ==
  [column |-> column, operator |-> op, value |-> v, value2 |-> w, list |-> l]
\* Of each operator, with what it reads, and with what it does not.
Conditions ==
  {Condition("c", op, v, w, IF w = NoValue THEN NoValue ELSE "ids") :
     op \in Operators \ ListOperators, v \in {"1", "acme", "1,yes", " 2"}, w \in {NoValue, "2"}}
  \cup {Condition("c", op, v, NoValue, l) :
     op \in ListOperators, v \in {NoValue, "1"}, l \in {NoValue, "ids", "flags"}}
Rule(name, enabled, ks) == [name |-> name, enabled |-> enabled, conditions |-> ks]
MCRuleSets ==
  {<<>>} \cup {<<Rule("acme", TRUE, <<k>>)>> : k \in Conditions}
  \cup {<<Rule("acme", e, <<k, Condition("d", "eq", "yes", NoValue, NoValue)>>),
          Rule(n, TRUE, <<k>>), Rule("yes", TRUE, <<Condition("c", "is_null", NoValue, NoValue, NoValue)>>)>> :
          e \in BOOLEAN, n \in {"no", "ACME"}, k \in {Condition("c", "eq", "1", NoValue, NoValue),
                    Condition("c", "neq", "1", NoValue, NoValue), Condition("c", "lt", "2", NoValue, NoValue)}}
=============================================================================
