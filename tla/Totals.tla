------------------------------- MODULE Totals -------------------------------
(***************************************************************************)
(* Sums over a table of natural numbers, for the stake of a group of       *)
(* validators and the money of the contracts: the total of a table is the  *)
(* number of units in it.  Stated this way a total has the cardinality     *)
(* facts of TotalsProofs for every table, which a fold has not.            *)
(***************************************************************************)
EXTENDS Integers, FiniteSets

\* Every unit of the table, named by its row and its number in that row.
Units(f) == UNION {{x} \X (1 .. f[x]) : x \in DOMAIN f}

Total(f) == Cardinality(Units(f))

\* The rows of the table that are in S.
Part(f, S) == [x \in S \cap DOMAIN f |-> f[x]]
==============================================================================
