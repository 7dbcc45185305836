--------------------------- MODULE MCQueryServing ---------------------------
(***************************************************************************)
(* Instances of QueryServing that differ in what may be edited, how often. *)
(***************************************************************************)
EXTENDS QueryServing, TLC

CONSTANTS SqlEdits, RulesEdits, ChartsEdits

MCMaxEdits == [k \in Kinds |-> CASE k = "sql" -> SqlEdits
                                 [] k = "rules" -> RulesEdits
                                 [] k = "charts" -> ChartsEdits]
=============================================================================
