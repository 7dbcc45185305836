----------------------------- MODULE Execution -----------------------------
(***************************************************************************)
(* A run of a statement, saved or previewed (queries/execution.py and the  *)
(* preview of queries/router.py): the guard, the row limit, the coercion   *)
(* of the rows within a budget of bytes, and the rules over those rows,    *)
(* row by row.                                                             *)
(*                                                                         *)
(* A statement is described by what its author means (Meant) and written   *)
(* as the tokens the guard reads; the target answers with any result.  The *)
(* guard's memo of the texts it has accepted is left out: it is keyed by   *)
(* the whole text, and the verdict depends on nothing else.                *)
(***************************************************************************)
EXTENDS FlagEngine, SqlGuard

CONSTANTS
  Meants,       \* the statements that are asked for
  Requested,    \* row limits that are asked for
  NoLimit,      \* None: no row limit is asked for
  MaxRowLimit, DefaultRowLimit, PreviewRowLimit,
                \* settings.max_row_limit, .default_row_limit, .preview_row_limit
  Results,      \* results of the target: columns, and rows of driver values
  Width(_),     \* Width(row): the bytes of a row, encoded
  Budget,       \* settings.max_result_bytes
  RuleSets,     \* sets of rules, each in its order
  ItemLists     \* ItemLists[l]: the items of the stored list l

\* What drivers return: cells, and what to_jsonable turns into cells.
DriverValues == Cells \cup {[kind |-> "nan"]} \cup {[kind |-> "decimal", number |-> n] : n \in Numbers}

\* to_jsonable: a number that is none is null, a Decimal its text.
Coerced(value) ==
  CASE value.kind = "nan" -> Null
    [] value.kind = "decimal" -> Text(NumberText[value.number])
    [] OTHER -> value

CoercedRow(values) == [i \in DOMAIN values |-> Coerced(values[i])]

VARIABLES
  at,        \* where the request is
  asked,     \* the statement asked for, as it is meant
  limit,     \* the row limit
  sent,      \* the guard's verdict and the text that goes to the target
  columns, fetched, truncated,
  rows,      \* the rows coerced so far
  used,      \* their bytes
  rules,     \* the rules of the query, or of the preview
  hits,      \* hits[i]: the rules row i matches, for the rows evaluated so far
  tallies, warnings,
  held       \* history: all the rows the statement has on the target

executionVars == <<at, asked, limit, sent, columns, fetched, truncated, rows, used,
                  rules, hits, tallies, warnings, held>>
statement == <<asked, sent>>
result == <<columns, fetched, truncated, rows, used, held>>
outcome == <<rules, hits, tallies, warnings>>

-----------------------------------------------------------------------------
(* Statements as they are meant.                                           *)

\* with: a table of a WITH before the command; item: what is selected; lock:
\* a locking clause; into: where the rows go; more: a second statement;
\* comment: a comment in front of that token; ends: semicolons at the end.
Statements ==
  [with : {"none", "read", "write"},
   command : {"none", "SELECT", "INSERT", "UPDATE", "DELETE", "EXPLAIN"},
   item : {"column", "keyword", "quoted", "call", "quoted_call", "field", "literal", "ambiguous"},
   word : STRING, lock : {"none", "share", "key_share", "update"}, into : BOOLEAN,
   more : BOOLEAN, ends : Nat, comment : Nat]
Command(w) == <<Keyword(w)>>
Called(k) == <<k, Opening, Closing>>
Table(w) == <<Keyword("WITH"), Name("x"), Keyword("AS"), Opening, Keyword(w),
              Name("a"), Closing>>

WithTokens(m) == CASE m.with = "none" -> <<>>
                   [] m.with = "read" -> Table("SELECT")
                   [] m.with = "write" -> Table("INSERT")

\* The word of an item is a column's or a function's.
ItemTokens(m) ==
  CASE m.item = "column" -> <<Name(m.word)>>
    [] m.item = "keyword" -> <<Keyword("SHARE")>>
    [] m.item = "quoted" -> <<Symbol(m.word)>>
    [] m.item = "call" -> Called(Name(m.word))
    [] m.item = "quoted_call" -> Called(Symbol(m.word))
    [] m.item = "field" -> <<Name("t"), Period, Name(m.word)>>
    [] m.item = "literal" -> <<Literal>>
    [] m.item = "ambiguous" -> <<Ambiguous>>

LockTokens(m) ==
  CASE m.lock = "none" -> <<>>
    [] m.lock = "share" -> <<Keyword("FOR"), Keyword("SHARE")>>
    [] m.lock = "key_share" -> <<Keyword("FOR"), Keyword("KEY"), Keyword("SHARE")>>
    [] m.lock = "update" -> <<Keyword("FOR"), Keyword("NO"), Keyword("KEY"), Keyword("UPDATE")>>

IntoTokens(m) == IF m.into THEN <<Keyword("INTO"), Name("t")>> ELSE <<>>

\* The statement, what follows its semicolons, and both without the comment.
One(m) ==
  IF m.command = "none" THEN <<>>
  ELSE WithTokens(m) \o Command(m.command) \o ItemTokens(m) \o IntoTokens(m) \o LockTokens(m)
More(m) == IF m.more THEN <<Keyword("SELECT"), Name("a")>> ELSE <<>>
Semicolons(n) == [i \in 1 .. n |-> Semicolon]
Uncommented(m) == One(m) \o Semicolons(IF m.more THEN m.ends + 1 ELSE m.ends) \o More(m)

Written(m) ==
  IF m.comment = 0 THEN Uncommented(m)
  ELSE InsertAt(Uncommented(m), Min({m.comment, Len(Uncommented(m)) + 1}), Comment)

\* One SELECT that only reads: no write, no lock, none of the functions that
\* are refused, and no literal that databases read differently.  A column may
\* have the name of a function; PostgreSQL calls its functions as fields too,
\* and some names are never taken for columns unless they are quoted.  Nothing
\* in front of a semicolon is no statement.
PlainRead(m) ==
  \/ m.command = "none" /\ m.more
  \/ /\ m.command = "SELECT" /\ ~m.more /\ ~m.into
     /\ m.with # "write" /\ m.lock = "none" /\ m.item # "ambiguous"
     /\ m.word \in ForbiddenFunctions => m.item \notin {"call", "quoted_call"}
     /\ m.word \in PostgresFunctions => m.item # "field"
     /\ m.word \in ForbiddenNames => m.item \notin {"column", "call", "field"}

\* What the proofs use of the lists of sql_allowlist.py: only SELECT may lead,
\* the words of a plain read are not refused, and those of a write are.
ASSUME PolicyAssumption ==
  /\ AllowedTypes = {"SELECT"}
  /\ {"INSERT", "UPDATE", "INTO"} \subseteq ForbiddenKeywords
  /\ {"WITH", "AS", "SELECT", "SHARE"} \cap ForbiddenKeywords = {}
  /\ "SHARE" \in LockingWords
  /\ {"a", "x", "t"} \cap (ForbiddenNames \cup ForbiddenFunctions) = {}
  /\ {"WITH", "AS", "SELECT", "SHARE", "INTO", "FOR"} \cap ForbiddenFunctions = {}

ASSUME ExecutionAssumption ==
  /\ MaxRowLimit \in Nat /\ DefaultRowLimit \in 1 .. MaxRowLimit /\ PreviewRowLimit \in Nat \ {0}
  /\ Requested \subseteq Int \cup {NoLimit} /\ Budget \in Nat
  /\ Meants \subseteq Statements
  /\ \A answer \in Results :
       /\ answer.rows \in Seq(Seq(DriverValues))
       /\ \A i \in DOMAIN answer.rows : Width(CoercedRow(answer.rows[i])) \in Nat
  /\ \A rs \in RuleSets : rs \in Seq(Range(rs))
  /\ \A l \in DOMAIN ItemLists : ItemLists[l] \subseteq Texts

NoMeant == CHOOSE m \in Meants : TRUE
NotSent == [code |-> "none", text |-> <<>>]

-----------------------------------------------------------------------------

ExecutionInit ==
  /\ at = "idle" /\ asked = NoMeant /\ limit = 0 /\ sent = NotSent
  /\ columns = <<>> /\ fetched = <<>> /\ truncated = FALSE
  /\ rows = <<>> /\ used = 0
  /\ rules = <<>> /\ hits = <<>> /\ tallies = <<>> /\ warnings = <<>> /\ held = <<>>

\* Mutant: only what is below the range is refused.
RowLimitsFromOne(n) ==
  IF n = NoLimit THEN {DefaultRowLimit} ELSE {n} \cap (Nat \ {0})

\* resolve_row_limit: none is the default, and one out of its range is refused.
RowLimits(n) == IF n = NoLimit THEN {DefaultRowLimit} ELSE {n} \cap 1 .. MaxRowLimit

\* A preview has a default of its own, which is its ceiling too.
PreviewLimits(n) ==
  {Min({k, PreviewRowLimit}) : k \in RowLimits(IF n = NoLimit THEN PreviewRowLimit ELSE n)}

\* A run of a query with the limit it was saved with, or a preview.
Ask(m, n) ==
  /\ at = "idle"
  /\ limit' \in RowLimits(n) \cup PreviewLimits(n)
  /\ asked' = m /\ at' = "asked"
  /\ UNCHANGED <<sent, result, outcome>>

\* validate_select.
Validate ==
  /\ at = "asked"
  /\ sent' = Validated(Written(asked))
  /\ at' = IF sent'.code = "accepted" THEN "validated" ELSE "refused"
  /\ UNCHANGED <<asked, limit, result, outcome>>

\* Mutant: the cap is tested without the extra row.
FetchedToTheLimit(answer) == SubSeq(answer.rows, 1, Min({Len(answer.rows), limit}))

\* fetchmany(row_limit + 1).
Fetched(answer) == SubSeq(answer.rows, 1, Min({Len(answer.rows), limit + 1}))

\* The target executes the statement, of which nothing is kept.  One row past
\* the limit tells that there are more.
Execute(answer) ==
  /\ at = "validated"
  /\ columns' = answer.columns
  /\ truncated' = (Len(Fetched(answer)) > limit)
  /\ fetched' = SubSeq(Fetched(answer), 1, Min({limit, Len(Fetched(answer))}))
  /\ held' = answer.rows
  /\ at' = "coercing" /\ asked' = NoMeant /\ sent' = NotSent
  /\ UNCHANGED <<limit, rows, used, outcome>>

\* Mutant: the first row is kept over and over.
FirstRow == CoercedRow(fetched[1])

\* The next row, as it is kept.
NextRow == CoercedRow(fetched[Len(rows) + 1])

\* Mutant: a row is tested against the budget by itself.
SpentOnRow == Width(NextRow)

\* The bytes of the rows, with the next one.
Spent == used + Width(NextRow)

\* The budget is tested before a row is kept.
CoerceRow ==
  /\ at = "coercing" /\ Len(rows) < Len(fetched)
  /\ IF Spent > Budget
       THEN at' = "refused" /\ UNCHANGED <<rows, used>>
       ELSE rows' = Append(rows, NextRow) /\ used' = Spent /\ at' = at
  /\ UNCHANGED <<statement, limit, columns, fetched, truncated, held, outcome>>

-----------------------------------------------------------------------------
(* evaluate.                                                               *)

Specs == Resolved(rules, ItemLists)
Enabled(specs) == {i \in DOMAIN specs : specs[i].enabled}
\* The enabled rules all of whose columns are there, and the others.
Usable(specs) == {i \in Enabled(specs) : Missing(specs[i], columns) = {}}
Unusable(specs) == Enabled(specs) \ Usable(specs)

\* Rules are gone through in their order.
InOrder(S) == CHOOSE s \in [1 .. Cardinality(S) -> S] :
                \A i, j \in DOMAIN s : i < j => s[i] < s[j]

Tally(i, n) == [rule |-> i, matched |-> n]
Warning(i, why) == [rule |-> i, why |-> why]

\* evaluate_flags, preview_flags: rules that have the shape of rules, if any.
StartRules(rs) ==
  /\ at = "coercing" /\ Len(rows) = Len(fetched) /\ Acceptable(rs)
  /\ rules' = rs
  /\ LET specs == Resolved(rs, ItemLists)
         out == InOrder(Unusable(specs))
     IN  /\ tallies' = [j \in DOMAIN out |-> Tally(out[j], 0)]
         /\ warnings' = [j \in DOMAIN out |-> Warning(out[j], "missing")]
         /\ at' = IF Usable(specs) = {} THEN "done" ELSE "evaluating"
  /\ UNCHANGED <<statement, limit, result, hits>>

Matched(row) == {i \in Usable(Specs) : Matches(Specs[i], columns, row)}

EvaluateRow ==
  /\ at = "evaluating" /\ Len(hits) < Len(rows)
  /\ hits' = Append(hits, Matched(rows[Len(hits) + 1]))
  /\ UNCHANGED <<at, statement, limit, result, rules, tallies, warnings>>

Count(i) == Cardinality({r \in DOMAIN hits : i \in hits[r]})

\* Mutant: a rule that matched nothing is left out.
CountedIfAny == LET us == InOrder({i \in Usable(Specs) : Count(i) > 0})
                IN [j \in DOMAIN us |-> Tally(us[j], Count(us[j]))]

\* Every rule is in the tally, with what it matched.
Counted == LET us == InOrder(Usable(Specs)) IN [j \in DOMAIN us |-> Tally(us[j], Count(us[j]))]

\* A rule that matched nothing is explained.
Explained ==
  LET none == InOrder({i \in Usable(Specs) : Count(i) = 0})
  IN  [j \in DOMAIN none |->
         Warning(none[j], IF Unlike(Specs[none[j]], columns, rows) THEN "no_boolean" ELSE "nothing")]

TallyRules ==
  /\ at = "evaluating" /\ Len(hits) = Len(rows)
  /\ tallies' = tallies \o Counted
  /\ warnings' = warnings \o Explained
  /\ at' = "done"
  /\ UNCHANGED <<statement, limit, result, rules, hits>>

\* The response, or the error, is sent.
Respond ==
  /\ at \in {"done", "refused"}
  /\ at' = "idle" /\ asked' = NoMeant /\ limit' = 0 /\ sent' = NotSent
  /\ columns' = <<>> /\ fetched' = <<>> /\ truncated' = FALSE
  /\ rows' = <<>> /\ used' = 0
  /\ rules' = <<>> /\ hits' = <<>> /\ tallies' = <<>> /\ warnings' = <<>> /\ held' = <<>>

ExecutionNext ==
  \/ \E m \in Meants, n \in Requested : Ask(m, n)
  \/ Validate
  \/ \E answer \in Results : Execute(answer)
  \/ CoerceRow
  \/ \E rs \in RuleSets : StartRules(rs)
  \/ EvaluateRow
  \/ TallyRules
  \/ Respond

ExecutionSpec == ExecutionInit /\ [][ExecutionNext]_executionVars

-----------------------------------------------------------------------------
(* Properties.                                                             *)

\* Comments, semicolons, quotes and the names of columns do not sway the guard:
\* it accepts exactly the plain reads that are short enough, and the text it
\* returns, which is what is executed, would be accepted as it stands
\* (sql_guard.validate_select: "Callers must execute exactly what is returned").
VerdictMatchesStatement ==
  at \in {"validated", "refused"} /\ sent # NotSent =>
    /\ sent.code = "accepted" <=> PlainRead(asked) /\ Len(Written(asked)) <= MaxLength
    /\ sent.code = "accepted" => Validated(sent.text) = sent

\* What the rows of s are wide, together.
Weight(s) ==
  LET upto[n \in 0 .. Len(s)] == IF n = 0 THEN 0 ELSE upto[n - 1] + Width(s[n])
  IN  upto[Len(s)]

\* The rows are the first of those the target has, each coerced, never more
\* than the limit nor together wider than the budget; `truncated' tells whether
\* the target has others, and a run is refused for its size only when the next
\* row would not have fitted (execute_sql).
TruncatedTellsTheRest ==
  /\ \A i \in DOMAIN rows : i \in DOMAIN held /\ rows[i] = CoercedRow(held[i])
  /\ Len(rows) <= limit /\ limit <= MaxRowLimit
  /\ Weight(rows) <= Budget
  /\ at \in {"coercing", "evaluating", "done"} => truncated = (Len(held) > limit)
  /\ at \in {"evaluating", "done"} => Len(rows) = Min({Len(held), limit})
  /\ at = "refused" /\ held # <<>> => Weight(rows) + Width(CoercedRow(held[Len(rows) + 1])) > Budget

\* Every enabled rule is in the tally once, with the number of rows flagged by
\* it, and is warned about exactly if that is none; a row is flagged by every
\* rule it matches, and no rule flags a row for want of a value, unless it asks
\* for that (engine.evaluate).
OutcomeAddsUp ==
  at = "done" =>
    /\ {tallies[j].rule : j \in DOMAIN tallies} = Enabled(Specs)
    /\ Len(tallies) = Cardinality(Enabled(Specs))
    /\ \A j \in DOMAIN tallies : tallies[j].matched = Count(tallies[j].rule)
    /\ {warnings[j].rule : j \in DOMAIN warnings} =
         {tallies[j].rule : j \in {j \in DOMAIN tallies : tallies[j].matched = 0}}
    /\ \A i \in Enabled(Specs), r \in DOMAIN hits :
         i \in hits[r] <=> /\ Missing(Specs[i], columns) = {}
                           /\ Matches(Specs[i], columns, rows[r])
    /\ \A r \in DOMAIN hits : \A i \in hits[r] : \A k \in Range(Specs[i].conditions) :
         rows[r][Position(columns, k.column)] = Null => k.operator = "is_null"

\* Same reading of c and t apart from case and the blanks around them.
Folded(c, t) ==
  /\ c.kind = "text" /\ ~IsNumber(c) /\ ~IsNumber(Text(t))
  /\ Lex[c.text].key = Lex[t].key

\* A list flags what `in' with the same values flags, and what differs from one
\* of them in case or surrounding blanks only (matching.py: moving a pasted
\* list of ids into a named list does not change which rows flag).
ListsReadLikeIn ==
  \A l \in DOMAIN ItemLists : \A r \in DOMAIN rows : \A p \in DOMAIN rows[r] :
    LET c == rows[r][p]
    IN  c # Null =>
          (IsMember(MembersOf(ItemLists[l]), c) <=>
             \E t \in Listed(ItemLists[l]) : Equals(c, Text(t)) \/ Folded(c, t))
=============================================================================
