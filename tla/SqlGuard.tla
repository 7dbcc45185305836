------------------------------ MODULE SqlGuard ------------------------------
(***************************************************************************)
(* The SELECT-only validator (security/sql_guard.py) over the lists of     *)
(* policy/sql_allowlist.py.                                                *)
(*                                                                         *)
(* A statement is the sequence of tokens sqlparse reads in it, without the *)
(* blanks: a type, and the word, which is upper case in a keyword, lower   *)
(* case in a name, and without its quotes in a quoted name (a symbol).     *)
(***************************************************************************)
EXTENDS Naturals, Sequences, FiniteSets, FiniteSetsExt, SequencesExt

CONSTANTS
  ForbiddenKeywords, ForbiddenNames, LockingWords,
  PostgresFunctions, OtherFunctions,
  AllowedTypes,   \* ALLOWED_STATEMENT_TYPES
  MaxLength       \* settings.max_sql_length, in tokens

ASSUME GuardAssumption == MaxLength \in Nat

ForbiddenFunctions == PostgresFunctions \cup OtherFunctions

Keyword(w) == [type |-> "keyword", word |-> w]
Name(w) == [type |-> "name", word |-> w]
Symbol(w) == [type |-> "symbol", word |-> w]
Mark(w) == [type |-> "punctuation", word |-> w]
\* A mark goes by its name.
Semicolon == Mark("semicolon")
Opening == Mark("opening")
Closing == Mark("closing")
Period == Mark("period")
Comment == [type |-> "comment", word |-> ""]
Literal == [type |-> "string", word |-> ""]
\* A literal with a backslash before a quote, or a Unicode-escaped one.
Ambiguous == [type |-> "string", word |-> "ambiguous"]

DataKeywords == {"SELECT", "INSERT", "UPDATE", "DELETE"}

Accepted(tokens) == [code |-> "accepted", text |-> tokens]
Rejected(code) == [code |-> code, text |-> <<>>]

\* sqlparse.format(strip_comments): a comment gives way to a blank.
Words(tokens) == {i \in DOMAIN tokens : tokens[i].type # "comment"}
Stripped(tokens) ==
  [n \in 1 .. Cardinality(Words(tokens)) |->
     tokens[CHOOSE i \in Words(tokens) : Cardinality(Words(tokens) \cap (1 .. i)) = n]]

\* sqlparse.parse: a statement ends with its semicolon.  The first and the last
\* token of each.
Spans(tokens) ==
  LET ends == {i \in DOMAIN tokens : tokens[i] = Semicolon} \cup {0, Len(tokens)}
  IN  {<<i + 1, Min({j \in ends : j > i})>> : i \in ends \ {Len(tokens)}}

\* str(statement).strip().rstrip(";").
Bare(statement) == IF Last(statement) = Semicolon THEN Front(statement) ELSE statement

\* get_type: the command, or the one after the tables of a WITH.
TypeOf(statement) ==
  LET depth(i) == Cardinality({j \in 1 .. i : statement[j] = Opening})
                    - Cardinality({j \in 1 .. i : statement[j] = Closing})
      commands == {i \in DOMAIN statement : depth(i) = 0 /\ statement[i].type = "keyword"
                                             /\ statement[i].word \in DataKeywords}
  IN  IF \/ statement[1] \notin {Keyword("WITH")} \cup {Keyword(w) : w \in DataKeywords}
         \/ commands = {}
      THEN "UNKNOWN"
      ELSE statement[Min(commands)].word

\* _check_keywords.  A quoted name is a column like any other.
HasForbiddenKeyword(statement) ==
  \E k \in ToSet(statement) :
    \/ k.type = "keyword" /\ k.word \in ForbiddenKeywords
    \/ k.type = "name" /\ k.word \in ForbiddenNames

Followed(statement, i, k) == i < Len(statement) /\ statement[i + 1] = k
Preceded(statement, i, k) == i > 1 /\ statement[i - 1] = k

\* Mutant: the bare word counts.
CallsAnyMention(statement) ==
  \E k \in ToSet(statement) : k.type \in {"name", "symbol"} /\ k.word \in ForbiddenFunctions

\* _check_functions: a function is called with a parenthesis or, on PostgreSQL,
\* as a field.
Calls(statement) ==
  \E i \in DOMAIN statement :
    /\ statement[i].type \in {"name", "symbol", "keyword"}
    /\ statement[i].word \in ForbiddenFunctions
    /\ \/ Followed(statement, i, Opening)
       \/ Preceded(statement, i, Period) /\ statement[i].word \in PostgresFunctions

\* _check_locking_clause: the keyword after FOR, but for NO and KEY.
Locks(statement) ==
  \E i, j \in DOMAIN statement :
    /\ i < j /\ statement[i] = Keyword("FOR")
    /\ \A h \in i + 1 .. j - 1 : statement[h] \in {Keyword("NO"), Keyword("KEY")}
    /\ statement[j].type = "keyword" /\ statement[j].word \in LockingWords

IsAmbiguous(tokens) == Ambiguous \in ToSet(tokens)

\* _validate_uncached, check by check.
Validated(tokens) ==
  LET stripped == Stripped(tokens)
      part(span) == SubSeq(stripped, span[1], span[2])
      statements == {span \in Spans(stripped) : Bare(part(span)) # <<>>}
      statement == part(CHOOSE span \in statements : TRUE)
      single == Bare(statement)
  IN  CASE tokens = <<>> -> Rejected("EMPTY_STATEMENT")
        [] Len(tokens) > MaxLength -> Rejected("SQL_TOO_LONG")
        [] IsAmbiguous(tokens) -> Rejected("INVALID_SQL")
        [] statements = {} -> Rejected("EMPTY_STATEMENT")
        [] Cardinality(statements) > 1 -> Rejected("MULTIPLE_STATEMENTS")
        [] TypeOf(statement) \notin AllowedTypes -> Rejected("NON_SELECT_STATEMENT")
        [] HasForbiddenKeyword(statement) -> Rejected("FORBIDDEN_KEYWORD")
        [] Calls(statement) -> Rejected("FORBIDDEN_FUNCTION")
        [] Locks(statement) -> Rejected("FORBIDDEN_KEYWORD")
        [] IsAmbiguous(single) -> Rejected("INVALID_SQL")
        [] OTHER -> Accepted(single)
=============================================================================
