--------------------------------- MODULE Ent ---------------------------------
(***************************************************************************)
(* The generated client (ent/) as the program uses it: a table is a set of *)
(* rows, a row a record with a field for every column, a mutation a record *)
(* with a field for every column that a builder has set, and a predicate   *)
(* the values some columns must have.                                      *)
(*                                                                         *)
(* External: PostgreSQL, which executes one statement at a time and        *)
(* refuses a row that repeats the values of a key.                         *)
(***************************************************************************)
EXTENDS Naturals, FiniteSets

\* The kinds of error the program tells apart.
IsConstraintError(err) == err = "constraint"
IsNotFound(err)        == err = "notFound"

\* The columns a mutation has set come before those of what lies under it: the
\* defaults of a builder, or the row an update finds.
Over(mutation, under) ==
  [col \in DOMAIN mutation \union DOMAIN under |->
     IF col \in DOMAIN mutation THEN mutation[col] ELSE under[col]]

\* Where(EQ, ...): all of them.
Satisfies(row, where) == \A col \in DOMAIN where : row[col] = where[col]

Query(table, where) == {row \in table : Satisfies(row, where)}

\* One row, or NotFoundError, or NotSingularError.
Only(rows) ==
  CASE rows = {}             -> [err |-> "notFound"]
    [] Cardinality(rows) = 1 -> [err |-> "none", row |-> CHOOSE r \in rows : TRUE]
    [] OTHER                 -> [err |-> "notSingular"]

Repeats(row, table, key) == \E r \in table : \A col \in key : r[col] = row[col]

\* Create: the defaults, the check of the required fields, and the insert.
Create(table, mutation, defaults, required, keys) ==
  LET row == Over(mutation, defaults) IN
  CASE ~(required \subseteq DOMAIN row) ->
         [err |-> "validation", table |-> table]
    [] required \subseteq DOMAIN row /\ (\E key \in keys : Repeats(row, table, key)) ->
         [err |-> "constraint", table |-> table]
    [] OTHER ->
         [err |-> "none", table |-> table \union {row}, node |-> row]

\* Update: the number of rows it changed.
Update(table, where, mutation, defaults) ==
  LET hit == Query(table, where) IN
  [n     |-> Cardinality(hit),
   table |-> (table \ hit) \union {Over(Over(mutation, defaults), row) : row \in hit}]
=============================================================================
