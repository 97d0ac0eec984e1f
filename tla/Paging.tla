-------------------------------- MODULE Paging --------------------------------
(***************************************************************************)
(* What the list_* methods of the repositories return: order_by(desc(       *)
(* created_at)).offset(offset).limit(limit) over a set of rows.  A row is a *)
(* record with its created_at in the field "at".  Nothing orders two rows   *)
(* with the same created_at, so the database may return either first.       *)
(***************************************************************************)
EXTENDS Naturals, FiniteSets

\* Mutant: the query has no order_by.
AnyOf(S, n) ==
    {T \in SUBSET S : Cardinality(T) = IF n < Cardinality(S) THEN n ELSE Cardinality(S)}

\* The sets of rows that may come first: n of them, or all if there are fewer.
Leading(S, n) ==
    {T \in SUBSET S :
        /\ Cardinality(T) = IF n < Cardinality(S) THEN n ELSE Cardinality(S)
        /\ \A a \in T, b \in S \ T : a.at >= b.at}

\* The pages a query may return.
Pages(S, offset, limit) ==
    UNION {Leading(S \ skipped, limit) : skipped \in Leading(S, offset)}

\* The rows of S that are strictly newer than a row.
Newer(S, row) == {other \in S : other.at > row.at}

\* No two rows of S were created at the same time.
DistinctTimes(S) == \A a, b \in S : a.at = b.at => a = b
=============================================================================
