--------------------------- MODULE ListPageProofs ---------------------------
(***************************************************************************)
(* What the offset and the limit of a list request select, for collections *)
(* of any size and any limits of the server.                               *)
(***************************************************************************)
EXTENDS ListPage, FiniteSetTheorems, TLAPS

\* The rows with a rank in an interval.
Between(rows, from, to) == {row \in rows : from <= Rank(row, rows) /\ Rank(row, rows) < to}

(***************************************************************************)
(* A request that isn't for a negative number of rows gets at least one if *)
(* there are any left, and never more than MaxLimit (the limit in          *)
(* GenericDAO.list).                                                       *)
(***************************************************************************)
LEMMA LimitInRange ==
    ASSUME NEW limit \in Nat
    PROVE  Limit(limit) \in 1..MaxLimit
  BY LimitsAssumption, SMT DEF Limit

(***************************************************************************)
(* The rank of a row is less than the number of rows.                      *)
(***************************************************************************)
LEMMA RankInRange ==
    ASSUME NEW rows \in SUBSET Int, IsFiniteSet(rows), NEW row \in rows
    PROVE  Rank(row, rows) \in 0..Cardinality(rows) - 1
<1> DEFINE Lower == {r \in rows : r < row}
<1>1. Lower \in SUBSET rows
  OBVIOUS
<1>2. row \notin Lower
  BY SMT
<1>3. Cardinality(Lower) \in Nat /\ Cardinality(rows) \in Nat
  BY <1>1, FS_Subset, FS_CardinalityType
<1>4. Cardinality(Lower) <= Cardinality(rows)
  BY <1>1, FS_Subset
<1>5. Cardinality(Lower) # Cardinality(rows)
  BY <1>1, <1>2, FS_Subset
<1>6. Rank(row, rows) = Cardinality(Lower)
  BY DEF Rank
<1> HIDE DEF Lower
<1> QED
  BY <1>3, <1>4, <1>5, <1>6, SMT

(***************************************************************************)
(* Different rows have different ranks (the order of the query).           *)
(***************************************************************************)
LEMMA RankIncreases ==
    ASSUME NEW rows \in SUBSET Int, IsFiniteSet(rows),
           NEW r \in rows, NEW s \in rows, r < s
    PROVE  Rank(r, rows) < Rank(s, rows)
<1> DEFINE Lower(row) == {x \in rows : x < row}
<1>1. Lower(r) \in SUBSET Lower(s) /\ r \notin Lower(r) /\ r \in Lower(s)
  <2>1. \A x \in rows : x < r => x < s
    BY SMT
  <2>2. ~(r < r)
    BY SMT
  <2> QED
    BY <2>1, <2>2
<1>2. IsFiniteSet(Lower(s))
  BY FS_Subset
<1>3. Cardinality(Lower(r)) <= Cardinality(Lower(s))
  BY <1>1, <1>2, FS_Subset
<1>4. Cardinality(Lower(r)) # Cardinality(Lower(s))
  BY <1>1, <1>2, FS_Subset
<1>5. Cardinality(Lower(r)) \in Nat /\ Cardinality(Lower(s)) \in Nat
  BY <1>1, <1>2, FS_Subset, FS_CardinalityType
<1>6. /\ Rank(r, rows) \in Nat /\ Rank(s, rows) \in Nat
      /\ Rank(r, rows) <= Rank(s, rows)
      /\ Rank(r, rows) # Rank(s, rows)
  BY <1>3, <1>4, <1>5 DEF Rank
<1> QED
  BY <1>6, SMT

(***************************************************************************)
(* The ranks number the rows from zero without gaps.                       *)
(***************************************************************************)
LEMMA RanksNumberRows ==
    ASSUME NEW rows \in SUBSET Int, IsFiniteSet(rows)
    PROVE  [row \in rows |-> Rank(row, rows)]
               \in Bijection(rows, 0..Cardinality(rows) - 1)
<1> DEFINE ranks  == [row \in rows |-> Rank(row, rows)]
           places == 0..Cardinality(rows) - 1
<1>1. ranks \in [rows -> places]
  BY RankInRange
<1>2. \A r, s \in rows : ranks[r] = ranks[s] => r = s
  <2> SUFFICES ASSUME NEW r \in rows, NEW s \in rows, r # s
               PROVE  Rank(r, rows) # Rank(s, rows)
    OBVIOUS
  <2>1. r < s \/ s < r
    BY SMT
  <2>2. Rank(r, rows) \in Int /\ Rank(s, rows) \in Int
    BY RankInRange
  <2> QED
    BY <2>1, <2>2, RankIncreases
<1>3. ranks \in Injection(rows, places)
  BY <1>1, <1>2 DEF Injection, IsInjective
<1>4. Cardinality(rows) \in Nat
  BY FS_CardinalityType
<1>5. IsFiniteSet(places) /\ Cardinality(places) = Cardinality(rows)
  BY <1>4, FS_Interval
<1>6. ranks \in Surjection(rows, places)
  BY <1>3, <1>5, FS_Injection
<1> QED
  BY <1>3, <1>6 DEF Bijection

(***************************************************************************)
(* As many rows have a rank in an interval as there are numbers in it.     *)
(***************************************************************************)
LEMMA SizeBetween ==
    ASSUME NEW rows \in SUBSET Int, IsFiniteSet(rows),
           NEW from \in Nat, NEW to \in Nat, from <= to, to <= Cardinality(rows)
    PROVE  Cardinality(Between(rows, from, to)) = to - from
<1> DEFINE ranks == [row \in rows |-> Rank(row, rows)]
           some  == Between(rows, from, to)
           part  == [row \in some |-> Rank(row, rows)]
<1>1. /\ \A row \in rows : Rank(row, rows) \in 0..Cardinality(rows) - 1
      /\ \A r, s \in rows : Rank(r, rows) = Rank(s, rows) => r = s
      /\ \A place \in 0..Cardinality(rows) - 1 : \E row \in rows : Rank(row, rows) = place
  <2>1. ranks \in Bijection(rows, 0..Cardinality(rows) - 1)
    BY RanksNumberRows
  <2> QED
    BY <2>1 DEF Bijection, Injection, Surjection, IsInjective
<1>2. Cardinality(rows) \in Nat
  BY FS_CardinalityType
<1>3. some \in SUBSET rows
  BY DEF Between
<1>4. \A row \in some : Rank(row, rows) \in from..to - 1
  BY <1>1, <1>2, SMT DEF Between
<1>5. \A r, s \in some : part[r] = part[s] => r = s
  BY <1>1, <1>3
<1>6. \A place \in from..to - 1 : \E row \in some : part[row] = place
  <2> SUFFICES ASSUME NEW place \in from..to - 1
               PROVE  \E row \in some : Rank(row, rows) = place
    OBVIOUS
  <2>1. place \in 0..Cardinality(rows) - 1
    BY <1>2, SMT
  <2>2. PICK row \in rows : Rank(row, rows) = place
    BY <1>1, <2>1
  <2>3. row \in some
    BY <2>2, SMT DEF Between
  <2> QED
    BY <2>2, <2>3
<1>7. part \in Bijection(some, from..to - 1)
  BY <1>4, <1>5, <1>6 DEF Bijection, Injection, Surjection, IsInjective
<1>8. IsFiniteSet(some)
  BY <1>3, FS_Subset
<1>9. Cardinality(some) = Cardinality(from..to - 1)
  BY <1>7, <1>8, FS_Bijection DEF ExistsBijection
<1>10. Cardinality(from..to - 1) = IF from > to - 1 THEN 0 ELSE to - 1 - from + 1
  BY FS_Interval
<1> QED
  BY <1>9, <1>10, SMT

(***************************************************************************)
(* The page that a request gets starts at its offset and has the number of *)
(* rows that it asks for, or those that are left.                          *)
(***************************************************************************)
LEMMA PageStartsAtOffset ==
    ASSUME NEW rows \in SUBSET Int, IsFiniteSet(rows),
           NEW limit \in Nat, NEW offset \in 0..Cardinality(rows)
    PROVE  LET page == Page(rows, offset, limit)
               next == offset + Cardinality(page)
           IN  /\ Cardinality(page) \in 0..Limit(limit)
               /\ next <= Cardinality(rows)
               /\ page = Between(rows, offset, next)
               /\ page = {} => offset = Cardinality(rows)
<1> DEFINE size == Cardinality(rows)
           end  == IF offset + Limit(limit) <= size THEN offset + Limit(limit) ELSE size
<1>1. size \in Nat
  BY FS_CardinalityType
<1>2. Limit(limit) \in Nat /\ Limit(limit) >= 1
  BY LimitInRange, LimitsAssumption, SMT
<1>3. end \in Nat /\ offset <= end /\ end <= size /\ end - offset <= Limit(limit)
  BY <1>1, <1>2, SMT
<1>4. Page(rows, offset, limit) = Between(rows, offset, end)
  <2>1. \A row \in rows : Rank(row, rows) \in 0..size - 1
    BY RankInRange
  <2>2. Offset(offset) = offset
    BY SMT DEF Offset
  <2>3. \A row \in rows : Rank(row, rows) < offset + Limit(limit) <=> Rank(row, rows) < end
    BY <1>1, <1>2, <2>1, SMT
  <2> QED
    BY <2>2, <2>3 DEF Page, Between
<1>5. Cardinality(Page(rows, offset, limit)) = end - offset
  BY <1>3, <1>4, SizeBetween
<1>6. Page(rows, offset, limit) = {} => end - offset = 0
  BY <1>5, FS_EmptySet
<1>7. end - offset = 0 => offset = size
  BY <1>1, <1>2, SMT
<1>8. offset + (end - offset) = end
  BY <1>3, SMT
<1> HIDE DEF end
<1> QED
  BY <1>1, <1>2, <1>3, <1>4, <1>5, <1>6, <1>7, <1>8, SMT

(***************************************************************************)
(* Pages after pages cover a collection of any size: each has the rows     *)
(* that come next, none again and none left out, and only after the last   *)
(* row there is an empty page.                                             *)
(***************************************************************************)
THEOREM PagesCover ==
    ASSUME NEW rows \in SUBSET Int, IsFiniteSet(rows),
           NEW limit \in Nat, NEW offset \in 0..Cardinality(rows)
    PROVE  LET Before(n) == {row \in rows : Rank(row, rows) < n}
               page == Page(rows, offset, limit)
           IN  /\ Before(offset + Cardinality(page)) = Before(offset) \union page
               /\ Before(offset) \intersect page = {}
               /\ page = {} => Before(offset) = rows
               /\ Cardinality(page) <= MaxLimit
<1> DEFINE Before(n) == {row \in rows : Rank(row, rows) < n}
           page == Page(rows, offset, limit)
           next == offset + Cardinality(page)
<1>1. Cardinality(rows) \in Nat
  BY FS_CardinalityType
<1>2. \A row \in rows : Rank(row, rows) \in 0..Cardinality(rows) - 1
  BY RankInRange
<1>3. /\ Cardinality(page) \in 0..Limit(limit)
      /\ page = Between(rows, offset, next)
      /\ page = {} => offset = Cardinality(rows)
  BY PageStartsAtOffset
<1>4. Limit(limit) \in 1..MaxLimit
  BY LimitInRange
<1>5. Cardinality(page) \in Nat /\ Cardinality(page) <= MaxLimit
  BY <1>3, <1>4, LimitsAssumption, SMT
<1>6. page \in SUBSET rows
  BY DEF Page
<1>7. \A row \in rows : row \in page <=> offset <= Rank(row, rows) /\ Rank(row, rows) < next
  BY <1>3 DEF Between
<1> HIDE DEF page
<1>8. \A row \in rows :
          /\ Rank(row, rows) < next <=> (Rank(row, rows) < offset \/ row \in page)
          /\ ~(Rank(row, rows) < offset /\ row \in page)
  BY <1>2, <1>5, <1>7, SMT
<1>9. Before(next) = Before(offset) \union page /\ Before(offset) \intersect page = {}
  BY <1>6, <1>8
<1>10. page = {} => Before(offset) = rows
  <2>1. offset = Cardinality(rows) => \A row \in rows : Rank(row, rows) < offset
    BY <1>1, <1>2, SMT
  <2> QED
    BY <1>3, <2>1 DEF page
<1> QED
  BY <1>5, <1>9, <1>10 DEF page
=============================================================================
