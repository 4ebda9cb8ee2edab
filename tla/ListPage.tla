------------------------------ MODULE ListPage ------------------------------
(***************************************************************************)
(* The part of a collection that GenericDAO.list returns for an offset and *)
(* a limit of a request.  The rows are numbered in the order of the query. *)
(***************************************************************************)
EXTENDS Integers, FiniteSets

CONSTANTS
    DefaultLimit,  \* limit of the requests that have none
    MaxLimit       \* largest limit that the server accepts

ASSUME LimitsAssumption ==
    /\ DefaultLimit \in Nat \ {0}
    /\ MaxLimit \in Nat
    /\ DefaultLimit <= MaxLimit

\* Mutant of Limit: a request without limit asks for nothing.
LimitAsGiven(limit) ==
    CASE limit < 0        -> 0
      [] limit > MaxLimit -> MaxLimit
      [] OTHER            -> limit

\* A negative limit asks for nothing, and zero, the value of a field that
\* isn't set, for the default.
Limit(limit) ==
    CASE limit < 0        -> 0
      [] limit = 0        -> DefaultLimit
      [] limit > MaxLimit -> MaxLimit
      [] OTHER            -> limit

Offset(offset) == IF offset < 0 THEN 0 ELSE offset

\* How many rows come before another one.
Rank(row, rows) == Cardinality({r \in rows : r < row})

\* What `offset ... limit ...' selects of the rows.
Page(rows, offset, limit) ==
    {row \in rows : /\ Offset(offset) <= Rank(row, rows)
                    /\ Rank(row, rows) < Offset(offset) + Limit(limit)}
=============================================================================
