-------------------------- MODULE TablePageProofs --------------------------
(***************************************************************************)
(* Theorems about TablePage, for any number of books, rows of a page,      *)
(* dialogs, writes of other administrators and failed calls.               *)
(***************************************************************************)
EXTENDS TablePage, FiniteSetTheorems, SequenceTheorems, WellFoundedInduction, TLAPS

-----------------------------------------------------------------------------
(* Finite sets of numbers in ascending order. *)

\* A set of numbers has a least one.
LEMMA Least ==
    ASSUME NEW S \in SUBSET Nat, S # {}
    PROVE  \E x \in S : \A y \in S : x <= y
<1> DEFINE less == {pair \in Nat \X Nat : pair[1] < pair[2]}
<1>1. IsWellFoundedOn(less, Nat)
    BY NatLessThanWellFounded DEF OpToRel
<1> HIDE DEF less
<1>2. PICK x \in S : \A y \in S : ~ (<<y, x>> \in less)
    BY <1>1, WFMin
<1>3. \A y \in S : ~(y < x)
    BY <1>2 DEF less
<1> QED
    BY <1>3

Increases(seq, n) == \A i, j \in 1 .. n : i < j => seq[i] < seq[j]

\* Numbers that are put behind the least one stay in order.
LEMMA LeastFirst ==
    ASSUME NEW S \in SUBSET Nat, NEW n \in Nat, NEW x \in S, \A y \in S : x <= y,
           NEW rest \in [1 .. n -> S \ {x}], Increases(rest, n)
    PROVE  \E seq \in [1 .. n + 1 -> S] : Increases(seq, n + 1)
<1> DEFINE seq == [i \in 1 .. n + 1 |-> IF i = 1 THEN x ELSE rest[i - 1]]
<1>1. \A i \in 1 .. n + 1 : i # 1 => i - 1 \in 1 .. n /\ rest[i - 1] \in S \ {x}
    OBVIOUS
<1>0. \A i \in 1 .. n + 1 : seq[i] = IF i = 1 THEN x ELSE rest[i - 1]
    OBVIOUS
<1>2. seq \in [1 .. n + 1 -> S]
    BY <1>1
<1> HIDE DEF seq
<1>3. ASSUME NEW i \in 1 .. n + 1, NEW j \in 1 .. n + 1, i < j
      PROVE  seq[i] < seq[j]
    <2>0. j # 1
        BY <1>3
    <2>1. j - 1 \in 1 .. n /\ seq[j] = rest[j - 1]
        BY <1>0, <1>1, <1>3, <2>0
    <2>2. CASE i = 1
        <3>1. /\ rest[j - 1] \in Nat /\ x \in Nat
              /\ x <= rest[j - 1] /\ rest[j - 1] # x
            BY <1>1, <1>3, <2>0
        <3>2. seq[i] = x /\ x < rest[j - 1]
            BY <1>0, <1>3, <2>2, <3>1
        <3> QED
            BY <2>1, <3>2
    <2>3. CASE i # 1
        <3>1. i - 1 \in 1 .. n /\ seq[i] = rest[i - 1] /\ i - 1 < j - 1
            BY <1>0, <1>1, <1>3, <2>3
        <3> QED
            BY <2>1, <3>1 DEF Increases
    <2> QED
        BY <2>2, <2>3
<1> QED
    BY <1>2, <1>3 DEF Increases

\* Every finite set of numbers can be put in order: if one could not, a smallest one
\* could not, nor could what remains of it without its least member.
LEMMA CanBeOrdered ==
    ASSUME NEW S \in SUBSET Nat, IsFiniteSet(S)
    PROVE  \E seq \in [1 .. Cardinality(S) -> S] : Increases(seq, Cardinality(S))
<1> DEFINE Ordered(T) == \E seq \in [1 .. Cardinality(T) -> T] : Increases(seq, Cardinality(T))
           sizes == {n \in Nat : \E T \in SUBSET Nat : IsFiniteSet(T) /\ Cardinality(T) = n /\ ~Ordered(T)}
<1>1. SUFFICES ASSUME ~Ordered(S)  PROVE FALSE
    OBVIOUS
<1>2. Cardinality(S) \in sizes
    BY <1>1, FS_CardinalityType
<1>3. PICK n \in sizes : \A k \in sizes : n <= k
    <2>1. sizes \in SUBSET Nat /\ sizes # {}
        BY <1>2
    <2> HIDE DEF sizes
    <2> QED
        BY <2>1, Least
<1>4. PICK T \in SUBSET Nat : IsFiniteSet(T) /\ Cardinality(T) = n /\ ~Ordered(T)
    BY <1>3
<1>5. T # {}
    <2>1. SUFFICES ASSUME T = {}  PROVE FALSE
        OBVIOUS
    <2>2. Cardinality(T) = 0
        BY <2>1, FS_EmptySet
    <2>3. [i \in 1 .. 0 |-> i] \in [1 .. 0 -> T] /\ Increases([i \in 1 .. 0 |-> i], 0)
        BY DEF Increases
    <2> QED
        BY <2>2, <2>3, <1>4
<1>6. PICK x \in T : \A y \in T : x <= y
    BY <1>5, Least
<1>7. n \in Nat /\ n # 0 /\ IsFiniteSet(T \ {x}) /\ Cardinality(T \ {x}) = n - 1
    BY <1>4, <1>5, <1>6, FS_RemoveElement, FS_EmptySet
<1>8. Ordered(T \ {x})
    <2>1. SUFFICES ASSUME ~Ordered(T \ {x})  PROVE FALSE
        OBVIOUS
    <2>2. n - 1 \in sizes
        <3>1. n - 1 \in Nat /\ T \ {x} \in SUBSET Nat
            BY <1>7
        <3> HIDE DEF Ordered
        <3> QED
            BY <1>7, <2>1, <3>1
    <2> HIDE DEF sizes
    <2> QED
        BY <1>3, <1>7, <2>2
<1>9. PICK rest \in [1 .. n - 1 -> T \ {x}] : Increases(rest, n - 1)
    BY <1>7, <1>8
<1>10. \E seq \in [1 .. (n - 1) + 1 -> T] : Increases(seq, (n - 1) + 1)
    <2>1. n - 1 \in Nat
        BY <1>7
    <2> QED
        BY <1>6, <1>9, <2>1, LeastFirst
<1> QED
    BY <1>4, <1>7, <1>10

\* What Ascending returns: the members, each once.
LEMMA AscendingIs ==
    ASSUME NEW S \in SUBSET Nat, IsFiniteSet(S)
    PROVE  /\ Cardinality(S) \in Nat
           /\ Ascending(S) \in [1 .. Cardinality(S) -> S]
           /\ Increases(Ascending(S), Cardinality(S))
           /\ \A x \in S : \E i \in 1 .. Cardinality(S) : Ascending(S)[i] = x
<1> DEFINE n == Cardinality(S)
           seq == Ascending(S)
<1>1. n \in Nat
    BY FS_CardinalityType
<1>2. \E f \in [1 .. n -> S] : Increases(f, n)
    BY CanBeOrdered
<1>3. seq \in [1 .. n -> S] /\ Increases(seq, n)
    BY <1>2 DEF Ascending, Increases
<1> HIDE DEF seq, n
<1>4. \A i, j \in 1 .. n : seq[i] \in Nat /\ seq[j] \in Nat
    BY <1>3
<1>5. ASSUME NEW i \in 1 .. n, NEW j \in 1 .. n, seq[i] = seq[j]
      PROVE  i = j
    <2>1. ~(i < j) /\ ~(j < i)
        BY <1>3, <1>4, <1>5 DEF Increases
    <2> QED
        BY <1>1, <1>5, <2>1
<1>6. seq \in Injection(1 .. n, S)
    BY <1>3, <1>5 DEF Injection, IsInjective
<1>7. Cardinality(1 .. n) = n
    <2>1. 1 \in Int /\ n \in Int /\ (1 > n => n = 0)
        BY <1>1
    <2>2. Cardinality(1 .. n) = IF 1 > n THEN 0 ELSE n - 1 + 1
        BY <2>1, FS_Interval
    <2> QED
        BY <1>1, <2>1, <2>2
<1>8. seq \in Surjection(1 .. n, S)
    BY <1>6, <1>7, FS_Injection DEF n
<1> QED
    BY <1>1, <1>3, <1>8 DEF Surjection, n, seq

\* There is one order only.
LEMMA OneOrder ==
    ASSUME NEW S \in SUBSET Nat, NEW n \in Nat,
           NEW f \in [1 .. n -> S], Increases(f, n), \A x \in S : \E i \in 1 .. n : f[i] = x,
           NEW g \in [1 .. n -> S], Increases(g, n), \A x \in S : \E i \in 1 .. n : g[i] = x
    PROVE  f = g
<1> DEFINE apart == {i \in 1 .. n : f[i] # g[i]}
<1>1. SUFFICES ASSUME apart # {}  PROVE FALSE
    OBVIOUS
<1>2. PICK i \in apart : \A j \in apart : i <= j
    <2>1. apart \in SUBSET Nat
        OBVIOUS
    <2> HIDE DEF apart
    <2> QED
        BY <1>1, <2>1, Least
<1>3. i \in 1 .. n /\ f[i] # g[i] /\ \A j \in 1 .. n : j < i => f[j] = g[j]
    BY <1>2
<1>4. f[i] \in S /\ g[i] \in S /\ f[i] \in Nat /\ g[i] \in Nat
    BY <1>3
<1>5. CASE f[i] < g[i]
    <2>1. PICK j \in 1 .. n : g[j] = f[i]
        BY <1>4
    <2>2. CASE j < i
        BY <1>3, <1>4, <2>1, <2>2 DEF Increases
    <2>3. CASE ~(j < i)
        BY <1>3, <1>4, <1>5, <2>1, <2>3 DEF Increases
    <2> QED
        BY <2>2, <2>3
<1>6. CASE g[i] < f[i]
    <2>1. PICK j \in 1 .. n : f[j] = g[i]
        BY <1>4
    <2>2. CASE j < i
        BY <1>3, <1>4, <2>1, <2>2 DEF Increases
    <2>3. CASE ~(j < i)
        BY <1>3, <1>4, <1>6, <2>1, <2>3 DEF Increases
    <2> QED
        BY <2>2, <2>3
<1> QED
    BY <1>3, <1>4, <1>5, <1>6

\* What comes behind the first k of the ascending members is what is left, ascending.
LEMMA AscendingRest ==
    ASSUME NEW S \in SUBSET Nat, IsFiniteSet(S), NEW k \in 0 .. Cardinality(S),
           NEW rest \in SUBSET S,
           \A i \in 1 .. Cardinality(S) : Ascending(S)[i] \in rest <=> k < i
    PROVE  /\ Cardinality(rest) = Cardinality(S) - k
           /\ \A i \in 1 .. Cardinality(S) - k : Ascending(rest)[i] = Ascending(S)[k + i]
<1> DEFINE n == Cardinality(S)
           seq == Ascending(S)
           left == [i \in 1 .. n - k |-> seq[k + i]]
<1>1. /\ n \in Nat /\ seq \in [1 .. n -> S] /\ Increases(seq, n)
      /\ \A x \in S : \E i \in 1 .. n : seq[i] = x
    BY AscendingIs
<1>2. k \in Nat /\ n - k \in Nat
    BY <1>1
<1>3. \A i \in 1 .. n : seq[i] \in rest <=> k < i
    OBVIOUS
<1> HIDE DEF n, seq
<1>4. ASSUME NEW i \in 1 .. n - k
      PROVE  k + i \in 1 .. n /\ left[i] = seq[k + i] /\ left[i] \in rest
    <2>1. k + i \in 1 .. n /\ k < k + i
        BY <1>1, <1>2
    <2> QED
        BY <1>3, <2>1
<1>5. left \in [1 .. n - k -> rest]
    BY <1>4
<1>6. Increases(left, n - k)
    <2> SUFFICES ASSUME NEW i \in 1 .. n - k, NEW j \in 1 .. n - k, i < j
                 PROVE  left[i] < left[j]
        BY DEF Increases
    <2>1. k + i < k + j
        BY <1>2
    <2> HIDE DEF left
    <2> QED
        BY <1>1, <1>4, <2>1 DEF Increases
<1>7. ASSUME NEW x \in rest
      PROVE  \E i \in 1 .. n - k : left[i] = x
    <2>1. PICK j \in 1 .. n : seq[j] = x
        BY <1>1, <1>7
    <2>2. k < j
        BY <1>3, <1>7, <2>1
    <2>3. j - k \in 1 .. n - k /\ k + (j - k) = j
        BY <1>1, <1>2, <2>2
    <2> HIDE DEF left
    <2> QED
        BY <1>4, <2>1, <2>3
<1>8. Cardinality(rest) = n - k
    <2>1. \A i, j \in 1 .. n - k : left[i] \in Nat /\ left[j] \in Nat
        BY <1>4
    <2> HIDE DEF left
    <2>2. ASSUME NEW i \in 1 .. n - k, NEW j \in 1 .. n - k, left[i] = left[j]
          PROVE  i = j
        <3>1. ~(i < j) /\ ~(j < i)
            BY <1>6, <2>1, <2>2 DEF Increases
        <3> QED
            BY <1>2, <2>2, <3>1
    <2>3. left \in Bijection(1 .. n - k, rest)
        BY <1>5, <1>7, <2>2 DEF Bijection, Injection, IsInjective, Surjection
    <2>4. ExistsBijection(1 .. n - k, rest)
        BY <2>3 DEF ExistsBijection
    <2> QED
        BY <1>2, <2>4, FS_CountingElements
<1>9. IsFiniteSet(rest)
    BY FS_Subset
<1>10. /\ Ascending(rest) \in [1 .. n - k -> rest]
       /\ Increases(Ascending(rest), n - k)
       /\ \A x \in rest : \E i \in 1 .. n - k : Ascending(rest)[i] = x
    BY <1>8, <1>9, AscendingIs
<1>11. Ascending(rest) = left
    <2> HIDE DEF left
    <2>1. rest \in SUBSET Nat
        OBVIOUS
    <2> QED
        BY <1>2, <1>5, <1>6, <1>7, <1>10, <2>1, OneOrder
<1> QED
    BY <1>4, <1>8, <1>11 DEF n, seq


-----------------------------------------------------------------------------
(* The invariant. *)

ServerType ==
    /\ nextOid \in 1 .. MaxOid + 1
    /\ DOMAIN books \subseteq 1 .. nextOid - 1
    /\ \A o \in DOMAIN books : books[o] \in Name

Drawn == [cell : Cell, shown : Row]

\* The selection is single, and the object that additions edit never gets a key.
TableType ==
    /\ rows \in Seq(Cell) /\ heap \in [Cell -> Row] /\ drawn \in Seq(Drawn)
    /\ selected \subseteq DOMAIN rows /\ \A i, j \in selected : i = j
    /\ loaded \subseteq 1 .. nextOid - 1
    /\ heap[AddRow].oid = NoOid
    /\ DrawnMatchesRows

Pagination == [startIndex : Nat, totalCount : Nat \cup {-1}]

PagingType ==
    /\ pagination \in Pagination /\ filter \in Name /\ options \in Nat
    /\ ready \in BOOLEAN

AnyParams == Params \cup {NoParams}

\* An open dialog has parameters; a row that it updates is where it was when the
\* dialog was opened.
DialogType ==
    /\ dialog \in [open : BOOLEAN, times : 0 .. MaxDialogs, first : AnyParams, last : AnyParams]
    /\ dialog.open => ready /\ dialog.first \in Params /\ dialog.last \in Params
    /\ dialog.first.action = "add" => dialog.first.row = AddRow
    /\ dialog.open /\ dialog.last.action = "update"
          => /\ dialog.last.index \in DOMAIN rows
             /\ rows[dialog.last.index] = dialog.last.row

CountsType == trouble \in 0 .. MaxTrouble /\ since \in {"nobody", "us", "others"}

TypeInv == ServerType /\ TableType /\ PagingType /\ DialogType /\ CountsType

\* A book is drawn once.
OidsOnce ==
    \A i, j \in DOMAIN drawn :
        drawn[i].shown.oid # NoOid /\ drawn[i].shown.oid = drawn[j].shown.oid => i = j

\* ShownIsStored, row by row and book by book.
EachIsShown ==
    /\ \A i \in DOMAIN drawn :
          drawn[i].shown.oid # NoOid
             => /\ drawn[i].shown.oid \in loaded \cap DOMAIN books
                /\ drawn[i].shown.title = books[drawn[i].shown.oid]
    /\ \A o \in loaded \cap DOMAIN books : \E i \in DOMAIN drawn : drawn[i].shown.oid = o

ShownInv == since # "others" => OidsOnce /\ EachIsShown

\* A page as it was loaded is what the service has for its parameters.
LoadedInv ==
    ready /\ since = "nobody"
       => /\ buttons = EnabledButtons(pagination)
          /\ loaded = Range(Slice(Matching(filter), pagination.startIndex))

-----------------------------------------------------------------------------
(* What the operators return. *)

\* The service has finitely many books.
LEMMA BooksAreFinite ==
    ASSUME ServerType, NEW S \in SUBSET DOMAIN books
    PROVE  S \in SUBSET Nat /\ IsFiniteSet(S)
<1>1. nextOid - 1 \in Int /\ 1 \in Int
    BY TablePageAssumption DEF ServerType
<1>2. IsFiniteSet(1 .. nextOid - 1)
    BY <1>1, FS_Interval
<1>3. S \in SUBSET (1 .. nextOid - 1)
    BY DEF ServerType
<1>4. S \in SUBSET Nat
    BY <1>1, <1>3
<1> QED
    BY <1>2, <1>3, <1>4, FS_Subset

\* A list of members, ascending, is a sequence.
LEMMA AscendingSeq ==
    ASSUME NEW S \in SUBSET Nat, IsFiniteSet(S)
    PROVE  Ascending(S) \in Seq(S) /\ Len(Ascending(S)) = Cardinality(S)
<1>1. Cardinality(S) \in Nat /\ Ascending(S) \in [1 .. Cardinality(S) -> S]
    BY AscendingIs
<1> QED
    BY <1>1

\* The smaller of two numbers.
LEMMA SmallerOf ==
    ASSUME NEW x \in Int, NEW y \in Int
    PROVE  Min({x, y}) = IF x <= y THEN x ELSE y
<1> DEFINE m == CHOOSE z \in {x, y} : \A k \in {x, y} : z =< k
<1>1. \E z \in {x, y} : \A k \in {x, y} : z =< k
    OBVIOUS
<1>2. m \in {x, y} /\ m <= x /\ m <= y
    BY <1>1
<1> HIDE DEF m
<1>3. m = IF x <= y THEN x ELSE y
    BY <1>2
<1>4. Min({x, y}) = m
    BY DEF Min, m
<1> QED
    BY <1>3, <1>4

\* A page of a list: at most as many rows as fit, and none that fits is missing.
LEMMA SliceIs ==
    ASSUME NEW S, NEW list \in Seq(S), NEW start \in Nat
    PROVE  /\ Slice(list, start) \in Seq(S)
           /\ Len(Slice(list, start)) <= RowsPerPage
           /\ \A i \in 1 .. Len(Slice(list, start)) :
                 /\ start + i \in 1 .. Len(list)
                 /\ Slice(list, start)[i] = list[start + i]
           /\ \A k \in 1 .. Len(list) :
                 start < k /\ k <= start + RowsPerPage
                    => k - start \in 1 .. Len(Slice(list, start))
<1> DEFINE n == Len(list)
           last == IF start + RowsPerPage <= n THEN start + RowsPerPage ELSE n
           page == SubSeq(list, start + 1, last)
<1>0. n \in Nat /\ RowsPerPage \in Nat /\ RowsPerPage > 0
    BY TablePageAssumption
<1>1. Min({start + RowsPerPage, n}) = last
    BY <1>0, SmallerOf
<1>2. Slice(list, start) = page
    BY <1>1 DEF Slice
<1>3. last \in Int /\ start + 1 \in Int /\ last <= n /\ last <= start + RowsPerPage
    BY <1>0
<1>4. \A k \in 1 .. n : k <= start + RowsPerPage => k <= last
    BY <1>0
<1>5. \A k \in start + 1 .. last : k \in 1 .. n /\ list[k] \in S
    BY <1>0, <1>3
<1> HIDE DEF last, n
<1>6. /\ page \in Seq(S)
      /\ Len(page) = IF start + 1 <= last THEN last - (start + 1) + 1 ELSE 0
      /\ \A i \in 1 .. last - (start + 1) + 1 : page[i] = list[start + 1 + i - 1]
    BY <1>3, <1>5, SubSeqProperties
<1> HIDE DEF page
<1>7. Len(page) <= RowsPerPage
    BY <1>0, <1>3, <1>6
<1>8. ASSUME NEW i \in 1 .. Len(page)
      PROVE  start + i \in 1 .. n /\ page[i] = list[start + i]
    <2>1. i \in 1 .. last - (start + 1) + 1 /\ start + i \in start + 1 .. last
        BY <1>3, <1>6, <1>8
    <2>2. start + 1 + i - 1 = start + i
        BY <2>1
    <2> QED
        BY <1>5, <1>6, <2>1, <2>2
<1>9. ASSUME NEW k \in 1 .. n, start < k, k <= start + RowsPerPage
      PROVE  k - start \in 1 .. Len(page)
    <2>1. k <= last /\ start + 1 <= k /\ k \in Int
        BY <1>0, <1>4, <1>9
    <2>2. start + 1 <= last /\ Len(page) = last - (start + 1) + 1
        BY <1>3, <1>6, <2>1
    <2> QED
        BY <1>3, <2>1, <2>2
<1> QED
    BY <1>2, <1>6, <1>7, <1>8, <1>9 DEF n

\* The books that pass a filter, and a page of them: each once.
LEMMA PageOfMatching ==
    ASSUME ServerType, NEW f \in Name, NEW start \in Nat
    PROVE  /\ Matching(f) \in Seq(DOMAIN books)
           /\ Slice(Matching(f), start) \in Seq(DOMAIN books)
           /\ Len(Slice(Matching(f), start)) <= RowsPerPage
           /\ \A i, j \in 1 .. Len(Slice(Matching(f), start)) :
                 Slice(Matching(f), start)[i] = Slice(Matching(f), start)[j] => i = j
<1> DEFINE S == {o \in DOMAIN books : f = NoTitle \/ books[o] = f}
           page == Slice(Matching(f), start)
<1>1. S \in SUBSET DOMAIN books /\ Matching(f) = Ascending(S)
    BY DEF Matching
<1> HIDE DEF S
<1>2. S \in SUBSET Nat /\ IsFiniteSet(S)
    BY <1>1, BooksAreFinite
<1>3. /\ Matching(f) \in Seq(S) /\ Len(Matching(f)) = Cardinality(S)
      /\ Increases(Matching(f), Cardinality(S))
    BY <1>1, <1>2, AscendingSeq, AscendingIs
<1>4. Matching(f) \in Seq(DOMAIN books)
    BY <1>1, <1>3, SeqMonotonic
<1>5. /\ page \in Seq(DOMAIN books) /\ Len(page) <= RowsPerPage
      /\ \A i \in 1 .. Len(page) : /\ start + i \in 1 .. Len(Matching(f))
                                   /\ page[i] = Matching(f)[start + i]
    BY <1>4, SliceIs
<1>6. \A k \in 1 .. Len(Matching(f)) : Matching(f)[k] \in Nat
    <2>1. \A k \in 1 .. Len(Matching(f)) : Matching(f)[k] \in S
        BY <1>3, ElementOfSeq
    <2> QED
        BY <1>2, <2>1
<1> HIDE DEF page
<1>7. ASSUME NEW i \in 1 .. Len(page), NEW j \in 1 .. Len(page), page[i] = page[j]
      PROVE  i = j
    <2>1. ~(start + i < start + j) /\ ~(start + j < start + i)
        BY <1>3, <1>5, <1>6, <1>7 DEF Increases
    <2>2. start \in Nat /\ i \in Nat /\ j \in Nat
        BY <1>5, <1>7
    <2> QED
        BY <2>1, <2>2
<1> QED
    BY <1>4, <1>5, <1>7 DEF page


\* There are as many free objects as rows on a page.
LEMMA FreeCells ==
    ASSUME DialogType
    PROVE  /\ Cell \ Held \in SUBSET Nat /\ IsFiniteSet(Cell \ Held)
           /\ Cardinality(Cell \ Held) >= RowsPerPage
           /\ AddRow \in Cell /\ dialog.first.row \in Cell
<1>0. RowsPerPage \in Nat /\ AddRow = 0
    BY TablePageAssumption
<1>1. AddRow \in Cell /\ dialog.first.row \in Cell
    BY <1>0 DEF Cell, DialogType, AnyParams, Params, NoParams
<1>2. IsFiniteSet(Cell) /\ Cardinality(Cell) = RowsPerPage + 2
    <2>1. 0 \in Int /\ RowsPerPage + 1 \in Int /\ ~(0 > RowsPerPage + 1)
        BY <1>0
    <2>2. /\ IsFiniteSet(0 .. RowsPerPage + 1)
          /\ Cardinality(0 .. RowsPerPage + 1)
                = IF 0 > RowsPerPage + 1 THEN 0 ELSE RowsPerPage + 1 - 0 + 1
        BY <2>1, FS_Interval
    <2> QED
        BY <1>0, <2>1, <2>2 DEF Cell
<1>3. IsFiniteSet(Cell \ {AddRow}) /\ Cardinality(Cell \ {AddRow}) = RowsPerPage + 1
    <2>1. /\ IsFiniteSet(Cell \ {AddRow})
          /\ Cardinality(Cell \ {AddRow})
                = IF AddRow \in Cell THEN Cardinality(Cell) - 1 ELSE Cardinality(Cell)
        BY <1>2, FS_RemoveElement
    <2> QED
        BY <1>0, <1>1, <1>2, <2>1
<1> DEFINE r == dialog.first.row
<1>4. /\ IsFiniteSet((Cell \ {AddRow}) \ {r})
      /\ Cardinality((Cell \ {AddRow}) \ {r})
            = IF r \in Cell \ {AddRow} THEN Cardinality(Cell \ {AddRow}) - 1
              ELSE Cardinality(Cell \ {AddRow})
    BY <1>3, FS_RemoveElement
<1>5. Cell \ Held = (Cell \ {AddRow}) \ {r}
    BY DEF Held
<1>6. Cell \ Held \in SUBSET Nat
    BY <1>0 DEF Cell
<1> QED
    BY <1>0, <1>1, <1>3, <1>4, <1>5, <1>6

\* The objects of a page that is loaded are free ones, a different one for each row.
LEMMA NewCells ==
    ASSUME DialogType, NEW n \in Nat, n <= RowsPerPage
    PROVE  LET cells == SubSeq(Ascending(Cell \ Held), 1, n)
           IN  /\ cells \in Seq(Cell) /\ Len(cells) = n
               /\ \A i \in 1 .. n : cells[i] \in Cell \ Held
               /\ \A i, j \in 1 .. n : cells[i] = cells[j] => i = j
<1> DEFINE free == Cell \ Held
           all == Ascending(free)
           m == Cardinality(free)
           cells == SubSeq(all, 1, n)
<1>1. free \in SUBSET Nat /\ IsFiniteSet(free) /\ m >= RowsPerPage
    BY FreeCells
<1>2. m \in Nat /\ all \in [1 .. m -> free] /\ Increases(all, m)
    BY <1>1, AscendingIs
<1> HIDE DEF all, m
<1>3. RowsPerPage \in Nat
    BY TablePageAssumption
<1>4. \A i \in 1 .. n : i \in 1 .. m /\ all[i] \in free
    BY <1>1, <1>2, <1>3
<1>5. /\ cells \in Seq(free) /\ Len(cells) = (IF 1 <= n THEN n - 1 + 1 ELSE 0)
      /\ \A i \in 1 .. n - 1 + 1 : cells[i] = all[1 + i - 1]
    BY <1>4, SubSeqProperties
<1> HIDE DEF cells
<1>6. Len(cells) = n
    BY <1>5
<1>7. \A i \in 1 .. n : cells[i] = all[i]
    <2>1. n - 1 + 1 = n /\ \A i \in 1 .. n : 1 + i - 1 = i
        OBVIOUS
    <2> QED
        BY <1>5, <2>1
<1>8. ASSUME NEW i \in 1 .. n, NEW j \in 1 .. n, cells[i] = cells[j]
      PROVE  i = j
    <2>1. all[i] \in Nat /\ all[j] \in Nat /\ all[i] = all[j]
        BY <1>1, <1>4, <1>7, <1>8
    <2>2. ~(i < j) /\ ~(j < i)
        BY <1>2, <1>4, <1>8, <2>1 DEF Increases
    <2> QED
        BY <1>8, <2>2
<1>9. cells \in Seq(Cell)
    BY <1>5, SeqMonotonic
<1> QED
    BY <1>4, <1>6, <1>7, <1>8, <1>9 DEF cells, all, free

\* reload: what is drawn is what the answer says, and no object in use is touched.
LEMMA ReloadIs ==
    ASSUME ServerType, DialogType, heap \in [Cell -> Row],
           NEW keys \in Seq(DOMAIN books), Len(keys) <= RowsPerPage,
           \A i, j \in 1 .. Len(keys) : keys[i] = keys[j] => i = j,
           Reload(keys)
    PROVE  /\ rows' \in Seq(Cell) /\ Len(rows') = Len(keys)
           /\ heap' \in [Cell -> Row] /\ heap'[AddRow] = heap[AddRow]
           /\ drawn' \in Seq(Drawn) /\ Len(drawn') = Len(keys)
           /\ \A i \in 1 .. Len(keys) :
                 /\ drawn'[i] = [cell |-> rows'[i],
                                 shown |-> [oid |-> keys[i], title |-> books[keys[i]]]]
                 /\ heap'[rows'[i]] = drawn'[i].shown
           /\ selected' = {} /\ loaded' = Range(keys)
<1> DEFINE n == Len(keys)
           cells == SubSeq(Ascending(Cell \ Held), 1, n)
           row(c) == LET k == keys[CHOOSE i \in DOMAIN cells : cells[i] = c]
                     IN  [oid |-> k, title |-> books[k]]
<1>1. n \in Nat /\ n <= RowsPerPage
    BY LenProperties
<1> HIDE DEF n
<1>2. /\ cells \in Seq(Cell) /\ Len(cells) = n /\ DOMAIN cells = 1 .. n
      /\ \A i \in 1 .. n : cells[i] \in Cell \ Held
      /\ \A i, j \in 1 .. n : cells[i] = cells[j] => i = j
    <2>1. /\ cells \in Seq(Cell) /\ Len(cells) = n
          /\ \A i \in 1 .. n : cells[i] \in Cell \ Held
          /\ \A i, j \in 1 .. n : cells[i] = cells[j] => i = j
        BY <1>1, NewCells
    <2> HIDE DEF cells
    <2>2. DOMAIN cells = 1 .. n
        BY <2>1, LenProperties
    <2> QED
        BY <2>1, <2>2
<1>3. /\ rows' = cells
      /\ heap' = [c \in Cell |-> IF c \in Held THEN heap[c]
                                 ELSE IF c \in Range(cells) THEN row(c) ELSE BlankRow]
      /\ drawn' = [i \in DOMAIN cells |-> [cell |-> cells[i], shown |-> row(cells[i])]]
      /\ selected' = {} /\ loaded' = Range(keys)
    BY DEF Reload, n
<1> HIDE DEF cells
<1>4. \A k \in DOMAIN books : [oid |-> k, title |-> books[k]] \in Row
    <2>1. \A k \in DOMAIN books : k \in Oid /\ books[k] \in Name
        BY TablePageAssumption DEF ServerType, Oid
    <2> QED
        BY <2>1 DEF Row
<1>5. \A i \in 1 .. n : keys[i] \in DOMAIN books
    BY ElementOfSeq DEF n
<1>6. ASSUME NEW i \in 1 .. n
      PROVE  row(cells[i]) = [oid |-> keys[i], title |-> books[keys[i]]]
    <2>1. (CHOOSE j \in DOMAIN cells : cells[j] = cells[i]) = i
        BY <1>2, <1>6
    <2> QED
        BY <2>1
<1> HIDE DEF row
<1>7. \A i \in 1 .. n : row(cells[i]) \in Row
    BY <1>4, <1>5, <1>6
<1>8. \A c \in Range(cells) : \E i \in 1 .. n : c = cells[i]
    BY <1>2 DEF Range
<1>9. \A c \in Range(cells) : row(c) \in Row
    BY <1>7, <1>8
<1>10. BlankRow \in Row
    BY DEF BlankRow, Row, Name
<1>11. heap' \in [Cell -> Row]
    BY <1>3, <1>9, <1>10
<1>12. heap'[AddRow] = heap[AddRow]
    BY <1>3, FreeCells DEF Held
<1>13. \A i \in 1 .. n : [cell |-> cells[i], shown |-> row(cells[i])] \in Drawn
    BY <1>2, <1>7 DEF Drawn
<1>14. drawn' \in [1 .. n -> Drawn]
    BY <1>2, <1>3, <1>13
<1>15. drawn' \in Seq(Drawn) /\ Len(drawn') = n
    BY <1>1, <1>14
<1>16. ASSUME NEW i \in 1 .. n
       PROVE  /\ drawn'[i] = [cell |-> rows'[i], shown |-> row(cells[i])]
              /\ heap'[rows'[i]] = row(cells[i])
    <2>1. cells[i] \in Range(cells) /\ cells[i] \in Cell /\ cells[i] \notin Held
        BY <1>2, <1>16 DEF Range
    <2> QED
        BY <1>2, <1>3, <1>16, <2>1
<1> QED
    BY <1>2, <1>3, <1>6, <1>11, <1>12, <1>15, <1>16 DEF n


-----------------------------------------------------------------------------
(* What changes the table. *)

\* A load draws each book of the page once, as the service has it.
LEMMA ReloadShows ==
    ASSUME ServerType, TableType, DialogType, UNCHANGED server,
           NEW keys \in Seq(DOMAIN books), Len(keys) <= RowsPerPage,
           \A i, j \in 1 .. Len(keys) : keys[i] = keys[j] => i = j,
           Reload(keys)
    PROVE  TableType' /\ OidsOnce' /\ EachIsShown'
<1> DEFINE n == Len(keys)
<1>1. /\ rows' \in Seq(Cell) /\ Len(rows') = n
      /\ heap' \in [Cell -> Row] /\ heap'[AddRow] = heap[AddRow]
      /\ drawn' \in Seq(Drawn) /\ Len(drawn') = n
      /\ \A i \in 1 .. n :
            /\ drawn'[i] = [cell |-> rows'[i],
                            shown |-> [oid |-> keys[i], title |-> books[keys[i]]]]
            /\ heap'[rows'[i]] = drawn'[i].shown
      /\ selected' = {} /\ loaded' = Range(keys)
    BY ReloadIs DEF TableType
<1>2. n \in Nat /\ DOMAIN keys = 1 .. n /\ \A i \in 1 .. n : keys[i] \in DOMAIN books
    BY LenProperties, ElementOfSeq
<1>3. \A i, j \in 1 .. n : keys[i] = keys[j] => i = j
    OBVIOUS
<1> HIDE DEF n
<1>4. DOMAIN rows' = 1 .. n /\ DOMAIN drawn' = 1 .. n
    BY <1>1, LenProperties
<1>5. \A i \in 1 .. n : /\ drawn'[i].cell = rows'[i] /\ drawn'[i].shown.oid = keys[i]
                        /\ drawn'[i].shown.title = books[keys[i]]
    BY <1>1
<1>6. \A i \in 1 .. n : keys[i] # NoOid
    BY <1>2, TablePageAssumption DEF ServerType, NoOid
<1>7. DrawnMatchesRows'
    BY <1>1, <1>4, <1>5 DEF DrawnMatchesRows
<1>8. TableType'
    <2>1. Range(keys) \subseteq 1 .. nextOid - 1
        BY <1>2 DEF Range, ServerType
    <2>2. nextOid' = nextOid
        BY DEF server
    <2>3. loaded' \subseteq 1 .. nextOid' - 1
        BY <1>1, <2>1, <2>2
    <2> QED
        BY <1>1, <1>7, <2>3 DEF TableType
<1>9. OidsOnce'
    BY <1>3, <1>4, <1>5 DEF OidsOnce
<1>10. EachIsShown'
    <2>1. books' = books
        BY DEF server
    <2>2. DOMAIN drawn' = 1 .. n /\ loaded' = {keys[i] : i \in 1 .. n}
        BY <1>1, <1>2, <1>4 DEF Range
    <2> QED
        BY <1>2, <1>5, <2>1, <2>2 DEF EachIsShown
<1> QED
    BY <1>8, <1>9, <1>10

\* A load that succeeds, whatever its parameters.
LEMMA LoadKeeps ==
    ASSUME TypeInv, NEW f \in Name, NEW p \in Pagination, Load(f, p),
           UNCHANGED <<server, dialog>>, ~dialog.open
    PROVE  /\ TableType' /\ DialogType' /\ ShownInv'
           /\ pagination' \in Pagination /\ pagination'.startIndex = p.startIndex
           /\ buttons' = EnabledButtons(pagination') /\ since' = "nobody"
           /\ loaded' = Range(Slice(Matching(f), p.startIndex))
<1> DEFINE keys == Slice(Matching(f), p.startIndex)
<1>1. p.startIndex \in Nat /\ ServerType /\ TableType /\ DialogType
    BY DEF Pagination, TypeInv
<1>2. /\ Matching(f) \in Seq(DOMAIN books)
      /\ keys \in Seq(DOMAIN books) /\ Len(keys) <= RowsPerPage
      /\ \A i, j \in 1 .. Len(keys) : keys[i] = keys[j] => i = j
    BY <1>1, PageOfMatching
<1>3. /\ Reload(keys) /\ since' = "nobody" /\ buttons' = EnabledButtons(pagination')
      /\ \E count \in {Len(Matching(f))} \cup (IF p.totalCount = -1 THEN {} ELSE {p.totalCount}) :
            pagination' = [p EXCEPT !.totalCount = count]
    BY DEF Load
<1>4. Len(Matching(f)) \in Nat
    BY <1>2, LenProperties
<1> HIDE DEF keys
<1>5. TableType' /\ OidsOnce' /\ EachIsShown'
    BY <1>1, <1>2, <1>3, ReloadShows
<1>6. loaded' = Range(keys)
    BY <1>3 DEF Reload
<1>7. pagination' \in Pagination /\ pagination'.startIndex = p.startIndex
    BY <1>3, <1>4 DEF Pagination
<1>8. DialogType'
    BY <1>1 DEF DialogType
<1> QED
    BY <1>3, <1>5, <1>6, <1>7, <1>8 DEF ShownInv, keys

\* Deleting at a position moves the rows behind it up.
LEMMA RemovedAt ==
    ASSUME NEW S, NEW seq \in Seq(S), NEW i \in 1 .. Len(seq)
    PROVE  /\ RemoveAt(seq, i) \in Seq(S) /\ Len(RemoveAt(seq, i)) = Len(seq) - 1
           /\ \A k \in 1 .. Len(seq) - 1 :
                 RemoveAt(seq, i)[k] = IF k < i THEN seq[k] ELSE seq[k + 1]
<1> DEFINE n == Len(seq)
           front == SubSeq(seq, 1, i - 1)
           back == SubSeq(seq, i + 1, n)
<1>1. n \in Nat /\ i \in 1 .. n /\ \A k \in 1 .. n : seq[k] \in S
    BY LenProperties, ElementOfSeq
<1> HIDE DEF n
<1>2. /\ front \in Seq(S) /\ Len(front) = (IF 1 <= i - 1 THEN i - 1 - 1 + 1 ELSE 0)
      /\ \A k \in 1 .. i - 1 - 1 + 1 : front[k] = seq[1 + k - 1]
    <2>1. i - 1 \in Int /\ \A k \in 1 .. i - 1 : seq[k] \in S
        BY <1>1
    <2> QED
        BY <2>1, SubSeqProperties
<1>3. /\ back \in Seq(S) /\ Len(back) = (IF i + 1 <= n THEN n - (i + 1) + 1 ELSE 0)
      /\ \A k \in 1 .. n - (i + 1) + 1 : back[k] = seq[i + 1 + k - 1]
    <2>1. i + 1 \in Int /\ n \in Int /\ \A k \in i + 1 .. n : seq[k] \in S
        BY <1>1
    <2> QED
        BY <2>1, SubSeqProperties
<1> HIDE DEF front, back
<1>4. Len(front) = i - 1 /\ Len(back) = n - i
    BY <1>1, <1>2, <1>3
<1>5. /\ front \o back \in Seq(S) /\ Len(front \o back) = (i - 1) + (n - i)
      /\ \A k \in 1 .. (i - 1) + (n - i) :
            (front \o back)[k] = IF k <= i - 1 THEN front[k] ELSE back[k - (i - 1)]
    <2>1. /\ front \o back \in Seq(S) /\ Len(front \o back) = Len(front) + Len(back)
          /\ \A k \in 1 .. Len(front) + Len(back) :
                (front \o back)[k] = IF k <= Len(front) THEN front[k] ELSE back[k - Len(front)]
        BY <1>2, <1>3, ConcatProperties
    <2> QED
        BY <1>4, <2>1
<1>6. (i - 1) + (n - i) = n - 1
    BY <1>1
<1>7. ASSUME NEW k \in 1 .. n - 1
      PROVE  (front \o back)[k] = IF k < i THEN seq[k] ELSE seq[k + 1]
    <2>1. CASE k < i
        <3>1. k <= i - 1 /\ k \in 1 .. i - 1 - 1 + 1 /\ 1 + k - 1 = k
            BY <1>1, <2>1
        <3> QED
            BY <1>2, <1>5, <1>6, <2>1, <3>1
    <2>2. CASE ~(k < i)
        <3>1. /\ ~(k <= i - 1) /\ k - (i - 1) \in 1 .. n - (i + 1) + 1
              /\ i + 1 + (k - (i - 1)) - 1 = k + 1
            BY <1>1, <2>2
        <3>2. back[k - (i - 1)] = seq[k + 1]
            BY <1>3, <3>1
        <3> QED
            BY <1>5, <1>6, <2>2, <3>1, <3>2
    <2> QED
        BY <2>1, <2>2
<1>8. RemoveAt(seq, i) = front \o back
    BY DEF RemoveAt, front, back, n
<1> QED
    BY <1>5, <1>6, <1>7, <1>8 DEF n


\* A row without a key goes last, and a book nobody has loaded into the service.
LEMMA AppendShows ==
    ASSUME ServerType, TableType, NEW c \in Cell, AppendRow(c), NEW title \in Name, Insert(title)
    PROVE  /\ TableType'
           /\ OidsOnce /\ EachIsShown /\ heap[c].oid = NoOid => OidsOnce' /\ EachIsShown'
<1> DEFINE n == Len(rows)
           new == [cell |-> c, shown |-> heap[c]]
<1>1. /\ n \in Nat /\ DOMAIN rows = 1 .. n /\ Len(drawn) = n /\ DOMAIN drawn = 1 .. n
      /\ rows \in Seq(Cell) /\ drawn \in Seq(Drawn)
      /\ \A i \in 1 .. n : drawn[i].cell = rows[i] /\ drawn[i].shown.oid = heap[rows[i]].oid
    <2>1. rows \in Seq(Cell) /\ drawn \in Seq(Drawn) /\ DrawnMatchesRows
        BY DEF TableType
    <2>2. n \in Nat /\ DOMAIN rows = 1 .. n /\ DOMAIN drawn = 1 .. Len(drawn)
        BY <2>1, LenProperties
    <2> QED
        BY <2>1, <2>2 DEF DrawnMatchesRows
<1> HIDE DEF n
<1>2. new \in Drawn
    BY DEF TableType, Drawn
<1>3. /\ rows' = Append(rows, c) /\ drawn' = Append(drawn, new) /\ selected' = {Len(rows')}
      /\ heap' = heap /\ loaded' = loaded
    BY DEF AppendRow
<1>4. new.cell = c /\ new.shown = heap[c]
    OBVIOUS
<1> HIDE DEF new
<1>5. /\ rows' \in Seq(Cell) /\ Len(rows') = n + 1 /\ DOMAIN rows' = 1 .. n + 1
      /\ \A i \in 1 .. n + 1 : rows'[i] = IF i = n + 1 THEN c ELSE rows[i]
    BY <1>1, <1>3 DEF n
<1>6. /\ drawn' \in Seq(Drawn) /\ Len(drawn') = n + 1 /\ DOMAIN drawn' = 1 .. n + 1
      /\ \A i \in 1 .. n + 1 : drawn'[i] = IF i = n + 1 THEN new ELSE drawn[i]
    BY <1>1, <1>2, <1>3
<1>7. \A i \in 1 .. n + 1 : i # n + 1 => i \in 1 .. n
    BY <1>1
<1>8. DrawnMatchesRows'
    BY <1>1, <1>3, <1>4, <1>5, <1>6, <1>7 DEF DrawnMatchesRows
<1>9. nextOid \in Nat /\ nextOid' = nextOid + 1
    BY TablePageAssumption DEF Insert, ServerType
<1>10. TableType'
    <2>1. selected' \subseteq DOMAIN rows' /\ \A i, j \in selected' : i = j
        BY <1>1, <1>3, <1>5
    <2>2. loaded' \subseteq 1 .. nextOid' - 1
        <3>1. loaded \subseteq 1 .. nextOid - 1
            BY DEF TableType
        <3> QED
            BY <1>3, <1>9, <3>1
    <2>3. heap \in [Cell -> Row] /\ heap[AddRow].oid = NoOid
        BY DEF TableType
    <2> QED
        BY <1>3, <1>5, <1>6, <1>8, <2>1, <2>2, <2>3 DEF TableType
<1>11. ASSUME OidsOnce, EachIsShown, heap[c].oid = NoOid
       PROVE  OidsOnce' /\ EachIsShown'
    <2>1. \A i \in 1 .. n + 1 : drawn'[i].shown.oid # NoOid => i \in 1 .. n /\ drawn'[i] = drawn[i]
        BY <1>4, <1>6, <1>7, <1>11
    <2>2. \A i \in 1 .. n : i \in 1 .. n + 1 /\ drawn'[i] = drawn[i]
        BY <1>1, <1>6
    <2>3. OidsOnce'
        BY <1>1, <1>6, <1>11, <2>1 DEF OidsOnce
    <2>4. /\ loaded \cap DOMAIN books' = loaded \cap DOMAIN books
          /\ \A o \in loaded \cap DOMAIN books : books'[o] = books[o]
        <3>1. nextOid \notin loaded
            BY <1>9 DEF TableType
        <3> QED
            BY <3>1 DEF Insert
    <2>5. EachIsShown'
        <3>1. ASSUME NEW i \in 1 .. n + 1, drawn'[i].shown.oid # NoOid
              PROVE  /\ drawn'[i].shown.oid \in loaded \cap DOMAIN books
                     /\ drawn'[i].shown.title = books[drawn'[i].shown.oid]
            BY <1>1, <1>11, <2>1, <3>1 DEF EachIsShown
        <3>2. ASSUME NEW o \in loaded \cap DOMAIN books
              PROVE  \E i \in 1 .. n + 1 : drawn'[i].shown.oid = o
            BY <1>1, <1>11, <2>2, <3>2 DEF EachIsShown
        <3> QED
            BY <1>3, <1>6, <2>4, <3>1, <3>2 DEF EachIsShown
    <2> QED
        BY <2>3, <2>5
<1> QED
    BY <1>10, <1>11


\* The rows of the table and of the screen, position by position.
LEMMA Positions ==
    ASSUME TableType
    PROVE  /\ Len(rows) \in Nat /\ DOMAIN rows = 1 .. Len(rows)
           /\ Len(drawn) = Len(rows) /\ DOMAIN drawn = 1 .. Len(rows)
           /\ \A i \in 1 .. Len(rows) : /\ rows[i] \in Cell /\ drawn[i] \in Drawn
                                        /\ drawn[i].cell = rows[i]
                                        /\ drawn[i].shown.oid = heap[rows[i]].oid
<1>1. rows \in Seq(Cell) /\ drawn \in Seq(Drawn) /\ DrawnMatchesRows
    BY DEF TableType
<1>2. Len(rows) \in Nat /\ DOMAIN rows = 1 .. Len(rows) /\ DOMAIN drawn = 1 .. Len(drawn)
    BY <1>1, LenProperties
<1>3. Len(drawn) = Len(rows)
    BY <1>1 DEF DrawnMatchesRows
<1>4. \A i \in 1 .. Len(rows) : rows[i] \in Cell /\ drawn[i] \in Drawn
    BY <1>1, <1>3, ElementOfSeq
<1> QED
    BY <1>1, <1>2, <1>3, <1>4 DEF DrawnMatchesRows

\* A row is drawn again where it is, and its book is written.
LEMMA UpdateShows ==
    ASSUME ServerType, TableType, NEW i \in DOMAIN rows, NEW c \in Cell, UpdateRow(i, c),
           Update(heap[c])
    PROVE  /\ TableType'
           /\ OidsOnce /\ EachIsShown /\ rows[i] = c => OidsOnce' /\ EachIsShown'
<1> DEFINE n == Len(rows)
           new == [cell |-> c, shown |-> heap[c]]
<1>1. /\ n \in Nat /\ DOMAIN rows = 1 .. n /\ Len(drawn) = n /\ DOMAIN drawn = 1 .. n
      /\ \A j \in 1 .. n : drawn[j].cell = rows[j] /\ drawn[j].shown.oid = heap[rows[j]].oid
    BY Positions
<1>2. rows \in Seq(Cell) /\ drawn \in Seq(Drawn) /\ heap \in [Cell -> Row] /\ i \in 1 .. n
    BY <1>1 DEF TableType
<1> HIDE DEF n
<1>3. new \in Drawn /\ new.cell = c /\ new.shown = heap[c]
    BY <1>2 DEF Drawn
<1>4. /\ rows' = [rows EXCEPT ![i] = c] /\ drawn' = [drawn EXCEPT ![i] = new]
      /\ selected' = {i} /\ heap' = heap /\ loaded' = loaded
      /\ books' = [o \in DOMAIN books |-> IF o = heap[c].oid THEN heap[c].title ELSE books[o]]
      /\ nextOid' = nextOid
    BY DEF UpdateRow, Update
<1> HIDE DEF new
<1>5. /\ rows' \in Seq(Cell) /\ Len(rows') = n /\ DOMAIN rows' = 1 .. n
      /\ \A j \in 1 .. n : rows'[j] = IF j = i THEN c ELSE rows[j]
    BY <1>1, <1>2, <1>4, ExceptSeq DEF n
<1>6. /\ drawn' \in Seq(Drawn) /\ Len(drawn') = n /\ DOMAIN drawn' = 1 .. n
      /\ \A j \in 1 .. n : drawn'[j] = IF j = i THEN new ELSE drawn[j]
    BY <1>1, <1>2, <1>3, <1>4, ExceptSeq
<1>7. DrawnMatchesRows'
    BY <1>1, <1>3, <1>4, <1>5, <1>6 DEF DrawnMatchesRows
<1>8. TableType'
    <2>1. selected' \subseteq DOMAIN rows' /\ \A j, k \in selected' : j = k
        BY <1>2, <1>4, <1>5
    <2>2. loaded' \subseteq 1 .. nextOid' - 1 /\ heap[AddRow].oid = NoOid
        BY <1>4 DEF TableType
    <2> QED
        BY <1>2, <1>4, <1>5, <1>6, <1>7, <2>1, <2>2 DEF TableType
<1>9. ASSUME OidsOnce, EachIsShown, rows[i] = c
      PROVE  OidsOnce' /\ EachIsShown'
    <2>1. drawn[i].shown.oid = heap[c].oid
        BY <1>1, <1>2, <1>9
    <2>2. \A j \in 1 .. n : drawn'[j].shown.oid = drawn[j].shown.oid
        BY <1>3, <1>6, <2>1
    <2>3. OidsOnce'
        BY <1>1, <1>6, <1>9, <2>2 DEF OidsOnce
    <2>4. ASSUME NEW j \in 1 .. n, drawn'[j].shown.oid # NoOid
          PROVE  /\ drawn'[j].shown.oid \in loaded \cap DOMAIN books
                 /\ drawn'[j].shown.title = books'[drawn'[j].shown.oid]
        <3>1. /\ drawn[j].shown.oid \in loaded \cap DOMAIN books
              /\ drawn[j].shown.title = books[drawn[j].shown.oid]
            BY <1>1, <1>9, <2>2, <2>4 DEF EachIsShown
        <3>2. CASE j = i
            BY <1>3, <1>4, <1>6, <2>1, <2>2, <3>1, <3>2
        <3>3. CASE j # i
            <4>1. drawn[j].shown.oid # drawn[i].shown.oid
                BY <1>1, <1>2, <1>9, <2>2, <2>4, <3>3 DEF OidsOnce
            <4> QED
                BY <1>4, <1>6, <2>1, <3>1, <3>3, <4>1
        <3> QED
            BY <3>2, <3>3
    <2>5. \A o \in loaded \cap DOMAIN books : \E j \in 1 .. n : drawn'[j].shown.oid = o
        BY <1>1, <1>9, <2>2 DEF EachIsShown
    <2>6. DOMAIN books' = DOMAIN books
        BY <1>4
    <2> QED
        BY <1>4, <1>6, <2>3, <2>4, <2>5, <2>6 DEF EachIsShown
<1> QED
    BY <1>8, <1>9

\* The selected row goes, and its book.
LEMMA DeleteShows ==
    ASSUME ServerType, TableType, NEW i \in selected, DeleteRow(i), Delete(heap[rows[i]])
    PROVE  /\ TableType'
           /\ OidsOnce /\ EachIsShown /\ heap[rows[i]].oid # NoOid => OidsOnce' /\ EachIsShown'
<1> DEFINE n == Len(rows)
           At(k) == IF k < i THEN k ELSE k + 1
<1>1. /\ n \in Nat /\ DOMAIN rows = 1 .. n /\ Len(drawn) = n /\ DOMAIN drawn = 1 .. n
      /\ \A j \in 1 .. n : drawn[j].cell = rows[j] /\ drawn[j].shown.oid = heap[rows[j]].oid
    BY Positions
<1>2. /\ rows \in Seq(Cell) /\ drawn \in Seq(Drawn) /\ heap \in [Cell -> Row] /\ i \in 1 .. n
      /\ \A j, k \in selected : j = k
    BY <1>1 DEF TableType
<1>3. /\ rows' = RemoveAt(rows, i) /\ drawn' = RemoveAt(drawn, i)
      /\ selected' = selected \ {i} /\ heap' = heap /\ loaded' = loaded
      /\ books' = [o \in DOMAIN books \ {heap[rows[i]].oid} |-> books[o]]
      /\ nextOid' = nextOid
    BY DEF DeleteRow, Delete
<1>4. /\ rows' \in Seq(Cell) /\ Len(rows') = n - 1
      /\ \A k \in 1 .. n - 1 : rows'[k] = IF k < i THEN rows[k] ELSE rows[k + 1]
    BY <1>2, <1>3, RemovedAt
<1>5. /\ drawn' \in Seq(Drawn) /\ Len(drawn') = n - 1
      /\ \A k \in 1 .. n - 1 : drawn'[k] = IF k < i THEN drawn[k] ELSE drawn[k + 1]
    <2>1. i \in 1 .. Len(drawn)
        BY <1>1, <1>2
    <2>2. /\ RemoveAt(drawn, i) \in Seq(Drawn) /\ Len(RemoveAt(drawn, i)) = Len(drawn) - 1
          /\ \A k \in 1 .. Len(drawn) - 1 :
                RemoveAt(drawn, i)[k] = IF k < i THEN drawn[k] ELSE drawn[k + 1]
        BY <1>2, <2>1, RemovedAt
    <2> QED
        BY <1>1, <1>3, <2>2
<1> HIDE DEF n
<1>6. DOMAIN rows' = 1 .. n - 1 /\ DOMAIN drawn' = 1 .. n - 1
    BY <1>4, <1>5, LenProperties
<1>7. \A k \in 1 .. n - 1 : /\ At(k) \in 1 .. n /\ At(k) # i
                            /\ rows'[k] = rows[At(k)] /\ drawn'[k] = drawn[At(k)]
    BY <1>1, <1>2, <1>4, <1>5
<1>8. \A j \in 1 .. n : j # i => \E k \in 1 .. n - 1 : At(k) = j
    <2> SUFFICES ASSUME NEW j \in 1 .. n, j # i
                 PROVE  \E k \in 1 .. n - 1 : At(k) = j
        OBVIOUS
    <2>1. CASE j < i
        <3>1. j \in 1 .. n - 1 /\ At(j) = j
            BY <1>1, <1>2, <2>1
        <3> QED
            BY <3>1
    <2>2. CASE ~(j < i)
        <3>1. j - 1 \in 1 .. n - 1 /\ At(j - 1) = j
            BY <1>1, <1>2, <2>2
        <3> QED
            BY <3>1
    <2> QED
        BY <2>1, <2>2
<1>9. \A k, m \in 1 .. n - 1 : At(k) = At(m) => k = m
    BY <1>1, <1>2
<1> HIDE DEF At
<1>10. DrawnMatchesRows'
    BY <1>1, <1>3, <1>4, <1>5, <1>6, <1>7 DEF DrawnMatchesRows
<1>11. TableType'
    <2>1. selected' = {}
        BY <1>2, <1>3
    <2>2. loaded' \subseteq 1 .. nextOid' - 1 /\ heap[AddRow].oid = NoOid
        BY <1>3 DEF TableType
    <2> QED
        BY <1>2, <1>3, <1>4, <1>5, <1>10, <2>1, <2>2 DEF TableType
<1>12. ASSUME OidsOnce, EachIsShown, heap[rows[i]].oid # NoOid
       PROVE  OidsOnce' /\ EachIsShown'
    <2>1. drawn[i].shown.oid = heap[rows[i]].oid
        BY <1>1, <1>2
    <2>2. OidsOnce'
        BY <1>1, <1>6, <1>7, <1>9, <1>12 DEF OidsOnce
    <2>3. ASSUME NEW k \in 1 .. n - 1, drawn'[k].shown.oid # NoOid
          PROVE  /\ drawn'[k].shown.oid \in loaded \cap DOMAIN books'
                 /\ drawn'[k].shown.title = books'[drawn'[k].shown.oid]
        <3>1. At(k) \in 1 .. n /\ At(k) # i /\ drawn'[k] = drawn[At(k)]
            BY <1>7, <2>3
        <3>2. /\ drawn[At(k)].shown.oid \in loaded \cap DOMAIN books
              /\ drawn[At(k)].shown.title = books[drawn[At(k)].shown.oid]
            BY <1>1, <1>12, <2>3, <3>1 DEF EachIsShown
        <3>3. drawn[At(k)].shown.oid # drawn[i].shown.oid
            BY <1>1, <1>2, <1>12, <2>3, <3>1 DEF OidsOnce
        <3> QED
            BY <1>3, <2>1, <3>1, <3>2, <3>3
    <2>4. ASSUME NEW o \in loaded \cap DOMAIN books'
          PROVE  \E k \in 1 .. n - 1 : drawn'[k].shown.oid = o
        <3>1. o \in loaded \cap DOMAIN books /\ o # drawn[i].shown.oid
            BY <1>3, <2>1, <2>4
        <3>2. PICK j \in 1 .. n : drawn[j].shown.oid = o
            BY <1>1, <1>12, <3>1 DEF EachIsShown
        <3>3. PICK k \in 1 .. n - 1 : At(k) = j
            BY <1>8, <3>1, <3>2
        <3> QED
            BY <1>7, <3>2, <3>3
    <2> QED
        BY <1>3, <1>6, <2>2, <2>3, <2>4 DEF EachIsShown
<1> QED
    BY <1>11, <1>12


-----------------------------------------------------------------------------
(* The steps. *)

\* What is written to the service is a book, and no key is given twice.
LEMMA WritesKeepServer ==
    ASSUME ServerType,
           \/ \E title \in Name : Insert(title)
           \/ \E row : row.title \in Name /\ Update(row)
           \/ \E row : Delete(row)
    PROVE  ServerType' /\ nextOid' \in {nextOid, nextOid + 1}
<1>1. nextOid \in Nat /\ MaxOid \in Nat
    BY TablePageAssumption DEF ServerType
<1>2. CASE \E title \in Name : Insert(title)
    <2>1. PICK title \in Name : Insert(title)
        BY <1>2
    <2> QED
        BY <1>1, <2>1 DEF Insert, ServerType
<1>3. CASE \E row : row.title \in Name /\ Update(row)
    <2>1. PICK row : row.title \in Name /\ Update(row)
        BY <1>3
    <2> QED
        BY <2>1 DEF Update, ServerType
<1>4. CASE \E row : Delete(row)
    BY <1>4 DEF Delete, ServerType
<1> QED
    BY <1>2, <1>3, <1>4

\* The table stays while keys are given.
LEMMA TableStays ==
    ASSUME ServerType, TableType, UNCHANGED table, nextOid' \in {nextOid, nextOid + 1}
    PROVE  TableType'
<1>1. rows' = rows /\ heap' = heap /\ drawn' = drawn /\ selected' = selected /\ loaded' = loaded
    BY DEF table
<1>2. loaded \subseteq 1 .. nextOid' - 1
    <2>1. nextOid \in Nat /\ loaded \subseteq 1 .. nextOid - 1
        BY TablePageAssumption DEF ServerType, TableType
    <2>2. nextOid' = nextOid \/ nextOid' = nextOid + 1
        OBVIOUS
    <2>3. CASE nextOid' = nextOid
        BY <2>1, <2>3
    <2>4. CASE nextOid' = nextOid + 1
        <3>1. nextOid' - 1 = nextOid
            BY <2>1, <2>4
        <3>2. 1 .. nextOid - 1 \subseteq 1 .. nextOid
            BY <2>1
        <3> QED
            BY <2>1, <3>1, <3>2
    <2> QED
        BY <2>2, <2>3, <2>4
<1> QED
    BY <1>1, <1>2 DEF TableType, DrawnMatchesRows

\* Nothing is written to the service.
LEMMA ServerStays ==
    ASSUME ServerType, UNCHANGED server
    PROVE  ServerType' /\ nextOid' \in {nextOid, nextOid + 1}
BY DEF ServerType, server

\* Nothing that is shown or stored changes.
LEMMA ShownStays ==
    ASSUME ShownInv, UNCHANGED <<drawn, loaded, books>>, since' = since \/ since # "others"
    PROVE  ShownInv'
BY DEF ShownInv, OidsOnce, EachIsShown

\* The page is as it was loaded.
LEMMA LoadedStays ==
    ASSUME LoadedInv, UNCHANGED <<ready, since, buttons, pagination, loaded, filter, books>>
    PROVE  LoadedInv'
BY DEF LoadedInv, Matching

PageInv == TypeInv /\ ShownInv /\ LoadedInv

\* The loads.
LEMMA LoadOrFailKeeps ==
    ASSUME PageInv, ready, ~dialog.open, NEW f \in Name, NEW p \in Pagination, LoadOrFail(f, p)
    PROVE  PageInv'
<1>1. TypeInv /\ ShownInv /\ filter' = f /\ UNCHANGED <<server, ready, options, dialog>>
    BY DEF PageInv, LoadOrFail
<1>2. ServerType'
    BY <1>1, ServerStays DEF TypeInv
<1>3. CASE Load(f, p) /\ UNCHANGED trouble
    <2>1. /\ TableType' /\ DialogType' /\ ShownInv'
          /\ pagination' \in Pagination /\ pagination'.startIndex = p.startIndex
          /\ buttons' = EnabledButtons(pagination') /\ since' = "nobody"
          /\ loaded' = Range(Slice(Matching(f), p.startIndex))
        BY <1>1, <1>3, LoadKeeps
    <2>2. PagingType' /\ CountsType'
        BY <1>1, <1>3, <2>1 DEF TypeInv, PagingType, CountsType
    <2>3. Matching(f) = Matching(filter)'
        BY <1>1 DEF Matching, server
    <2>4. LoadedInv'
        BY <1>1, <2>1, <2>3 DEF LoadedInv
    <2> QED
        BY <1>2, <2>1, <2>2, <2>4 DEF PageInv, TypeInv
<1>4. CASE LoadFails(p)
    <2>1. /\ pagination' = p /\ UNCHANGED <<buttons, table>> /\ Trouble
          /\ since' = IF since = "nobody" THEN "us" ELSE since
        BY <1>4 DEF LoadFails
    <2>2. TableType'
        BY <1>1, <2>1, ServerStays, TableStays DEF TypeInv
    <2>3. DialogType'
        BY <1>1, <2>1 DEF TypeInv, DialogType, table
    <2>4. trouble' \in 0 .. MaxTrouble /\ since' \in {"nobody", "us", "others"} /\ since' # "nobody"
        BY <1>1, <2>1, TablePageAssumption DEF TypeInv, CountsType, Trouble
    <2>5. PagingType' /\ CountsType'
        BY <1>1, <2>1, <2>4 DEF TypeInv, PagingType, CountsType
    <2>6. ShownInv'
        <3>1. UNCHANGED <<drawn, loaded, books>>
            BY <1>1, <2>1 DEF table, server
        <3> QED
            BY <1>1, <2>1, <3>1, ShownStays
    <2> QED
        BY <1>2, <2>2, <2>3, <2>4, <2>5, <2>6 DEF PageInv, TypeInv, LoadedInv
<1> QED
    BY <1>3, <1>4 DEF LoadOrFail


\* A number of pages is a number.
LEMMA PagesAreCounted ==
    ASSUME NEW p \in Pagination
    PROVE  Max({PageCount(p), 0}) \in Nat
<1>1. PageCount(p) \in Int
    <2>1. p.totalCount \in Int /\ RowsPerPage \in Nat \ {0}
        BY TablePageAssumption DEF Pagination
    <2> QED
        BY <2>1 DEF PageCount
<1> DEFINE c == PageCount(p)
           m == CHOOSE x \in {c, 0} : \A y \in {c, 0} : x >= y
<1> HIDE DEF c
<1>2. c \in Int
    BY <1>1 DEF c
<1>3. \E x \in {c, 0} : \A y \in {c, 0} : x >= y
    BY <1>2
<1>4. m \in {c, 0} /\ m >= 0
    BY <1>3
<1>5. m \in Nat
    BY <1>2, <1>4
<1> QED
    BY <1>5 DEF Max, c

\* The first load of a page.
LEMMA AutoLoadKeeps ==
    ASSUME PageInv, AutoLoad
    PROVE  PageInv'
<1>0. ~dialog.open
    BY DEF AutoLoad, PageInv, TypeInv, DialogType
<1>1. /\ TypeInv /\ Load(filter, pagination) /\ UNCHANGED <<server, filter, dialog, trouble>>
      /\ ready' = TRUE /\ options' = Max({PageCount(pagination'), 0})
      /\ pagination \in Pagination /\ filter \in Name
    BY DEF PageInv, AutoLoad, TypeInv, PagingType
<1>2. /\ TableType' /\ DialogType' /\ ShownInv'
      /\ pagination' \in Pagination /\ pagination'.startIndex = pagination.startIndex
      /\ buttons' = EnabledButtons(pagination') /\ since' = "nobody"
      /\ loaded' = Range(Slice(Matching(filter), pagination.startIndex))
    BY <1>0, <1>1, LoadKeeps
<1>3. options' \in Nat
    BY <1>1, <1>2, PagesAreCounted
<1>4. ServerType'
    BY <1>1, ServerStays DEF TypeInv
<1>5. PagingType' /\ CountsType'
    BY <1>1, <1>2, <1>3 DEF TypeInv, PagingType, CountsType
<1>6. Matching(filter)' = Matching(filter)
    BY <1>1 DEF Matching, server
<1>7. LoadedInv'
    BY <1>2, <1>6 DEF LoadedInv
<1> QED
    BY <1>2, <1>4, <1>5, <1>7 DEF PageInv, TypeInv

\* Where the buttons lead.
LEMMA StartsAreNumbers ==
    ASSUME NEW p \in Pagination,
           NEW action \in {"nextPage", "prevPage", "firstPage", "lastPage"}
    PROVE  StartAfter(p, action) \in Nat
<1>1. p.startIndex \in Nat /\ RowsPerPage \in Nat
    BY TablePageAssumption DEF Pagination
<1> DEFINE c == p.startIndex - RowsPerPage
           m == CHOOSE x \in {c, 0} : \A y \in {c, 0} : x >= y
<1>2. c \in Int
    BY <1>1
<1> HIDE DEF c
<1>3. \E x \in {c, 0} : \A y \in {c, 0} : x >= y
    BY <1>2
<1>4. m \in {c, 0} /\ m >= 0
    BY <1>3
<1>5. m \in Nat
    BY <1>2, <1>4
<1>6. Max({p.startIndex - RowsPerPage, 0}) = m
    BY DEF Max, c
<1> HIDE DEF m
<1> QED
    BY <1>1, <1>5, <1>6 DEF StartAfter

\* The events of the page that load.
LEMMA PagingKeeps ==
    ASSUME PageInv,
           \/ \E f \in Name : Query(f)
           \/ \E action \in {"nextPage", "prevPage", "firstPage", "lastPage"} : TurnPage(action)
           \/ \E i \in 0 .. options - 1 : TurnToPage(i)
    PROVE  PageInv'
<1>1. ready /\ ~dialog.open /\ filter \in Name /\ pagination \in Pagination
    BY DEF Query, TurnPage, TurnToPage, Listening, PageInv, TypeInv, PagingType
<1>2. CASE \E f \in Name : Query(f)
    <2>1. ResetPagination \in Pagination
        BY DEF ResetPagination, Pagination
    <2> QED
        BY <1>1, <1>2, <2>1, LoadOrFailKeeps DEF Query
<1>3. CASE \E action \in {"nextPage", "prevPage", "firstPage", "lastPage"} : TurnPage(action)
    <2>1. PICK action \in {"nextPage", "prevPage", "firstPage", "lastPage"} : TurnPage(action)
        BY <1>3
    <2>2. [pagination EXCEPT !.startIndex = StartAfter(pagination, action)] \in Pagination
        BY <1>1, StartsAreNumbers DEF Pagination
    <2> QED
        BY <1>1, <2>1, <2>2, LoadOrFailKeeps DEF TurnPage
<1>4. CASE \E i \in 0 .. options - 1 : TurnToPage(i)
    <2>1. PICK i \in 0 .. options - 1 : TurnToPage(i)
        BY <1>4
    <2>2. i * RowsPerPage \in Nat
        <3>1. i \in Nat /\ RowsPerPage \in Nat
            BY TablePageAssumption DEF PageInv, TypeInv, PagingType
        <3> QED
            BY <3>1
    <2>3. [pagination EXCEPT !.startIndex = i * RowsPerPage] \in Pagination
        BY <1>1, <2>2 DEF Pagination
    <2> QED
        BY <1>1, <2>1, <2>3, LoadOrFailKeeps DEF TurnToPage
<1> QED
    BY <1>2, <1>3, <1>4


\* A row is clicked.
LEMMA SelectKeeps ==
    ASSUME PageInv, NEW i \in DOMAIN rows, Select(i)
    PROVE  PageInv'
<1>1. /\ UNCHANGED <<server, ready, rows, heap, drawn, loaded, paging, dialog, trouble, since>>
      /\ selected' = {i} /\ ~dialog.open
    BY DEF Select, Listening
<1>2. ServerType'
    BY <1>1, ServerStays DEF PageInv, TypeInv
<1>3. TableType'
    BY <1>1 DEF PageInv, TypeInv, TableType, DrawnMatchesRows, server
<1>4. PagingType' /\ DialogType' /\ CountsType'
    BY <1>1 DEF PageInv, TypeInv, PagingType, DialogType, CountsType, paging
<1>5. ShownInv' /\ LoadedInv'
    <2>1. UNCHANGED <<drawn, loaded, books, ready, since, buttons, pagination, filter>>
        BY <1>1 DEF server, paging
    <2> QED
        BY <2>1, ShownStays, LoadedStays DEF PageInv
<1> QED
    BY <1>2, <1>3, <1>4, <1>5 DEF PageInv, TypeInv

\* Only the dialog changes.
LEMMA OnlyDialog ==
    ASSUME PageInv, DialogType', UNCHANGED <<server, ready, table, paging, trouble, since>>
    PROVE  PageInv'
<1>1. ServerType' /\ TableType'
    BY ServerStays, TableStays DEF PageInv, TypeInv
<1>2. PagingType' /\ CountsType'
    BY DEF PageInv, TypeInv, PagingType, CountsType, paging
<1>3. ShownInv' /\ LoadedInv'
    <2>1. UNCHANGED <<drawn, loaded, books, ready, since, buttons, pagination, filter>>
        BY DEF server, table, paging
    <2> QED
        BY <2>1, ShownStays, LoadedStays DEF PageInv
<1> QED
    BY <1>1, <1>2, <1>3 DEF PageInv, TypeInv

\* A dialog is opened.
LEMMA OpenKeeps ==
    ASSUME PageInv, Listening, NEW params \in Params, OpenDialog(params),
           params.action = "add" => params.row = AddRow,
           params.action = "update" => /\ params.index \in DOMAIN rows
                                       /\ rows[params.index] = params.row
    PROVE  PageInv'
<1> DEFINE first == IF dialog.first = NoParams THEN params ELSE dialog.first
<1>1. /\ dialog.times < MaxDialogs
      /\ dialog' = [open |-> TRUE, times |-> dialog.times + 1, first |-> first, last |-> params]
      /\ UNCHANGED <<server, ready, table, paging, trouble, since>>
    BY DEF OpenDialog
<1>2. /\ dialog.first \in AnyParams /\ dialog.times \in 0 .. MaxDialogs
      /\ dialog.first.action = "add" => dialog.first.row = AddRow
    BY DEF PageInv, TypeInv, DialogType
<1>3. first \in Params /\ (first.action = "add" => first.row = AddRow)
    BY <1>2 DEF AnyParams
<1>4. dialog.times + 1 \in 0 .. MaxDialogs
    BY <1>1, <1>2, TablePageAssumption
<1> HIDE DEF first
<1>5. rows' = rows /\ ready' = ready /\ ready
    BY <1>1 DEF table, Listening
<1>6. DialogType'
    BY <1>1, <1>3, <1>4, <1>5 DEF DialogType, AnyParams
<1> QED
    BY <1>1, <1>6, OnlyDialog

\* The two buttons that open the dialog.
LEMMA OpeningKeeps ==
    ASSUME PageInv, OpenAdd \/ OpenUpdate
    PROVE  PageInv'
<1>1. CASE OpenAdd
    <2>1. [action |-> "add", row |-> AddRow, index |-> 0] \in Params
        BY FreeCells DEF Params, PageInv, TypeInv
    <2> QED
        BY <1>1, <2>1, OpenKeeps DEF OpenAdd
<1>2. CASE OpenUpdate
    <2>1. PICK i \in selected : OpenDialog([action |-> "update", row |-> rows[i], index |-> i])
        BY <1>2 DEF OpenUpdate
    <2>2. TableType /\ i \in DOMAIN rows
        BY DEF PageInv, TypeInv, TableType
    <2>3. rows[i] \in Cell /\ i \in Nat
        BY <2>2, Positions
    <2>4. [action |-> "update", row |-> rows[i], index |-> i] \in Params
        BY <2>3 DEF Params
    <2> QED
        BY <1>2, <2>1, <2>2, <2>4, OpenKeeps DEF OpenUpdate
<1> QED
    BY <1>1, <1>2

\* The button that closes it.
LEMMA CancelKeeps ==
    ASSUME PageInv, Cancel
    PROVE  PageInv'
<1>1. /\ dialog' = [dialog EXCEPT !.open = FALSE, !.last = NoParams]
      /\ UNCHANGED <<server, ready, table, paging, trouble, since>>
    BY DEF Cancel, CloseDialog
<1>2. DialogType'
    BY <1>1 DEF PageInv, TypeInv, DialogType, AnyParams
<1> QED
    BY <1>1, <1>2, OnlyDialog

\* What is typed changes the name in an object, and neither its key nor the screen.
LEMMA EditKeeps ==
    ASSUME PageInv, NEW title \in Name, Edit(title)
    PROVE  PageInv'
<1> DEFINE c == dialog.last.row
<1>1. /\ heap' = [heap EXCEPT ![c].title = title]
      /\ UNCHANGED <<server, ready, rows, drawn, selected, loaded, paging, dialog, trouble, since>>
    BY DEF Edit
<1>2. heap \in [Cell -> Row] /\ TableType /\ ServerType
    BY DEF PageInv, TypeInv, TableType
<1> HIDE DEF c
<1>3. \A k \in Cell : heap'[k] \in Row /\ heap'[k].oid = heap[k].oid
    BY <1>1, <1>2 DEF Row
<1>4. heap' \in [Cell -> Row]
    BY <1>1, <1>2, <1>3
<1>5. \A i \in DOMAIN rows : rows[i] \in Cell
    BY <1>2, Positions
<1>6. DrawnMatchesRows'
    BY <1>1, <1>2, <1>3, <1>5 DEF TableType, DrawnMatchesRows
<1>7. AddRow \in Cell
    BY FreeCells DEF PageInv, TypeInv
<1>8. TableType'
    <2>1. nextOid' = nextOid
        BY <1>1 DEF server
    <2> QED
        BY <1>1, <1>2, <1>3, <1>4, <1>6, <1>7, <2>1 DEF TableType
<1>9. ServerType'
    BY <1>1, <1>2, ServerStays
<1>10. PagingType' /\ DialogType' /\ CountsType'
    BY <1>1 DEF PageInv, TypeInv, PagingType, DialogType, CountsType, paging
<1>11. ShownInv' /\ LoadedInv'
    <2>1. UNCHANGED <<drawn, loaded, books, ready, since, buttons, pagination, filter>>
        BY <1>1 DEF server, paging
    <2> QED
        BY <2>1, ShownStays, LoadedStays DEF PageInv
<1> QED
    BY <1>8, <1>9, <1>10, <1>11 DEF PageInv, TypeInv

\* The counts after a write: only what this page wrote, and had answered, is "us".
LEMMA WriteCounts ==
    ASSUME CountsType, NEW outcome \in Outcome, Answered(outcome), NEW done \in BOOLEAN,
           since' = Worse(since, IF done THEN "us" ELSE "others")
    PROVE  CountsType' /\ since' # "nobody" /\ (since' # "others" => since # "others" /\ done)
<1>1. since' \in {"us", "others"} /\ (since' # "others" => since # "others" /\ done)
    BY DEF Worse
<1>2. trouble' \in 0 .. MaxTrouble
    <2>1. trouble' = trouble \/ (trouble < MaxTrouble /\ trouble' = trouble + 1)
        BY DEF Answered, Trouble
    <2> QED
        BY <2>1, TablePageAssumption DEF CountsType
<1> QED
    BY <1>1, <1>2 DEF CountsType

\* The button of the dialog, for an addition.
LEMMA AddKeeps ==
    ASSUME TypeInv, ShownInv, dialog.open, dialog.first.action = "add",
           NEW outcome \in Outcome, OkAdd(outcome), ready' = ready,
           since' # "others" => since # "others" /\ outcome = "ok" /\ ActsOnOpened
    PROVE  ServerType' /\ TableType' /\ DialogType' /\ ShownInv'
<1> DEFINE c == dialog.first.row
<1>1. ServerType /\ TableType /\ DialogType
    BY DEF TypeInv
<1>2. c \in Cell /\ c = AddRow /\ heap[c].oid = NoOid /\ heap[c].title \in Name
    BY <1>1, FreeCells DEF DialogType, TableType, Row
<1>3. /\ Insert(heap[c].title)
      /\ \/ outcome = "ok" /\ AppendRow(c) /\ CloseDialog
         \/ outcome # "ok" /\ UNCHANGED <<table, dialog>>
    BY DEF OkAdd
<1> HIDE DEF c
<1>4. ServerType' /\ nextOid' \in {nextOid, nextOid + 1}
    BY <1>1, <1>2, <1>3, WritesKeepServer
<1>5. CASE outcome = "ok" /\ AppendRow(c) /\ CloseDialog
    <2>1. TableType' /\ (OidsOnce /\ EachIsShown => OidsOnce' /\ EachIsShown')
        BY <1>1, <1>2, <1>3, <1>5, AppendShows
    <2>2. DialogType'
        BY <1>1, <1>5 DEF DialogType, CloseDialog, AnyParams
    <2> QED
        BY <1>4, <2>1, <2>2 DEF ShownInv
<1>6. CASE outcome # "ok" /\ UNCHANGED <<table, dialog>>
    <2>1. TableType'
        BY <1>1, <1>4, <1>6, TableStays
    <2>2. DialogType'
        BY <1>1, <1>6 DEF DialogType, table
    <2> QED
        BY <1>4, <1>6, <2>1, <2>2 DEF ShownInv
<1> QED
    BY <1>3, <1>5, <1>6

\* The button of the dialog, for an update: one that was opened for the row it
\* writes finds the row where the table has it.
LEMMA UpdateKeeps ==
    ASSUME TypeInv, ShownInv, dialog.open, dialog.first.action = "update",
           NEW outcome \in Outcome, OkUpdate(outcome), ready' = ready,
           since' # "others" => since # "others" /\ outcome = "ok" /\ ActsOnOpened
    PROVE  ServerType' /\ TableType' /\ DialogType' /\ ShownInv'
<1> DEFINE c == dialog.first.row
           i == dialog.first.index
<1>1. ServerType /\ TableType /\ DialogType
    BY DEF TypeInv
<1>2. c \in Cell /\ heap[c].title \in Name
    BY <1>1, FreeCells DEF TableType, Row
<1>3. ActsOnOpened => i \in DOMAIN rows /\ rows[i] = c
    BY <1>1 DEF DialogType, ActsOnOpened
<1>4. /\ Update(heap[c])
      /\ \/ outcome = "ok" /\ i \in DOMAIN rows /\ UpdateRow(i, c) /\ CloseDialog
         \/ ~(outcome = "ok" /\ i \in DOMAIN rows) /\ UNCHANGED <<table, dialog>>
    BY DEF OkUpdate
<1> HIDE DEF c, i
<1>5. ServerType' /\ nextOid' \in {nextOid, nextOid + 1}
    BY <1>1, <1>2, <1>4, WritesKeepServer
<1>6. CASE outcome = "ok" /\ i \in DOMAIN rows /\ UpdateRow(i, c) /\ CloseDialog
    <2>1. TableType' /\ (OidsOnce /\ EachIsShown /\ rows[i] = c => OidsOnce' /\ EachIsShown')
        BY <1>1, <1>2, <1>4, <1>6, UpdateShows
    <2>2. DialogType'
        BY <1>1, <1>6 DEF DialogType, CloseDialog, AnyParams
    <2> QED
        BY <1>3, <1>5, <2>1, <2>2 DEF ShownInv
<1>7. CASE ~(outcome = "ok" /\ i \in DOMAIN rows) /\ UNCHANGED <<table, dialog>>
    <2>1. TableType'
        BY <1>1, <1>5, <1>7, TableStays
    <2>2. DialogType'
        BY <1>1, <1>7 DEF DialogType, table
    <2> QED
        BY <1>3, <1>5, <1>7, <2>1, <2>2 DEF ShownInv
<1> QED
    BY <1>4, <1>6, <1>7

\* The button of the dialog.
LEMMA OkKeeps ==
    ASSUME PageInv, NEW outcome \in Outcome, Ok(outcome)
    PROVE  PageInv'
<1> DEFINE done == outcome = "ok" /\ ActsOnOpened
<1>1. /\ dialog.open /\ Answered(outcome) /\ UNCHANGED <<ready, paging>>
      /\ since' = Worse(since, IF done THEN "us" ELSE "others")
      /\ \/ dialog.first.action = "add" /\ OkAdd(outcome)
         \/ dialog.first.action = "update" /\ OkUpdate(outcome)
    BY DEF Ok
<1>2. TypeInv /\ ShownInv /\ CountsType /\ PagingType
    BY DEF PageInv, TypeInv
<1>3. done \in BOOLEAN
    OBVIOUS
<1> HIDE DEF done
<1>4. CountsType' /\ since' # "nobody" /\ (since' # "others" => since # "others" /\ done)
    BY <1>1, <1>2, <1>3, WriteCounts
<1>5. ready' = ready /\ (since' # "others" => since # "others" /\ outcome = "ok" /\ ActsOnOpened)
    BY <1>1, <1>4 DEF done
<1>6. ServerType' /\ TableType' /\ DialogType' /\ ShownInv'
    BY <1>1, <1>2, <1>5, AddKeeps, UpdateKeeps
<1>7. PagingType'
    BY <1>1, <1>2 DEF PagingType, paging
<1> QED
    BY <1>4, <1>6, <1>7 DEF PageInv, TypeInv, LoadedInv

\* The button that removes the selected row.
LEMMA RemoveRowKeeps ==
    ASSUME PageInv, NEW outcome \in Outcome, RemoveRow(outcome)
    PROVE  PageInv'
<1> DEFINE done == outcome = "ok"
<1>1. /\ ~dialog.open /\ Answered(outcome) /\ UNCHANGED <<ready, paging, dialog>>
      /\ since' = Worse(since, IF done THEN "us" ELSE "others")
    BY DEF RemoveRow, Listening
<1>2. PICK i \in selected : /\ heap[rows[i]].oid \in DOMAIN books /\ Delete(heap[rows[i]])
                            /\ IF outcome = "ok" THEN DeleteRow(i) ELSE UNCHANGED table
    BY DEF RemoveRow
<1>3. TypeInv /\ ShownInv /\ CountsType /\ PagingType /\ ServerType /\ TableType /\ DialogType
    BY DEF PageInv, TypeInv
<1>4. heap[rows[i]].oid # NoOid
    BY <1>2, <1>3, TablePageAssumption DEF ServerType, NoOid
<1>5. CountsType' /\ since' # "nobody" /\ (since' # "others" => since # "others" /\ done)
    <2>1. done \in BOOLEAN
        OBVIOUS
    <2> QED
        BY <1>1, <1>3, <2>1, WriteCounts
<1>6. ServerType' /\ nextOid' \in {nextOid, nextOid + 1}
    BY <1>2, <1>3, WritesKeepServer
<1>7. TableType' /\ ShownInv'
    <2>1. CASE outcome = "ok"
        <3>1. TableType' /\ (OidsOnce /\ EachIsShown => OidsOnce' /\ EachIsShown')
            BY <1>2, <1>3, <1>4, <2>1, DeleteShows
        <3> QED
            BY <1>3, <1>5, <3>1 DEF ShownInv
    <2>2. CASE outcome # "ok"
        <3>1. TableType'
            BY <1>2, <1>3, <1>6, <2>2, TableStays
        <3> QED
            BY <1>5, <2>2, <3>1 DEF ShownInv
    <2> QED
        BY <2>1, <2>2
<1>8. DialogType' /\ PagingType'
    BY <1>1, <1>3 DEF DialogType, PagingType, paging
<1> QED
    BY <1>5, <1>6, <1>7, <1>8 DEF PageInv, TypeInv, LoadedInv

\* Another administrator writes.
LEMMA ForeignKeeps ==
    ASSUME PageInv, Foreign
    PROVE  PageInv'
<1>1. /\ trouble < MaxTrouble /\ trouble' = trouble + 1 /\ since' = "others"
      /\ UNCHANGED <<ready, table, paging, dialog>>
      /\ \/ \E t \in Name : Insert(t)
         \/ \E o \in DOMAIN books, t \in Name : Update([oid |-> o, title |-> t])
         \/ \E o \in DOMAIN books : Delete([oid |-> o, title |-> books[o]])
    BY DEF Foreign
<1>2. ServerType /\ TableType /\ PagingType /\ DialogType /\ CountsType
    BY DEF PageInv, TypeInv
<1>3. \/ \E title \in Name : Insert(title)
      \/ \E row : row.title \in Name /\ Update(row)
      \/ \E row : Delete(row)
    <2>1. CASE \E t \in Name : Insert(t)
        BY <2>1
    <2>2. CASE \E o \in DOMAIN books, t \in Name : Update([oid |-> o, title |-> t])
        <3>1. PICK o \in DOMAIN books, t \in Name : Update([oid |-> o, title |-> t])
            BY <2>2
        <3>2. [oid |-> o, title |-> t].title \in Name
            OBVIOUS
        <3> QED
            BY <3>1, <3>2
    <2>3. CASE \E o \in DOMAIN books : Delete([oid |-> o, title |-> books[o]])
        BY <2>3
    <2> QED
        BY <1>1, <2>1, <2>2, <2>3
<1>4. ServerType' /\ nextOid' \in {nextOid, nextOid + 1}
    BY <1>2, <1>3, WritesKeepServer
<1>5. TableType'
    BY <1>1, <1>2, <1>4, TableStays
<1>6. PagingType' /\ DialogType'
    BY <1>1, <1>2 DEF PagingType, DialogType, paging, table
<1>7. CountsType'
    BY <1>1, <1>2, TablePageAssumption DEF CountsType
<1> QED
    BY <1>1, <1>4, <1>5, <1>6, <1>7 DEF PageInv, TypeInv, ShownInv, LoadedInv

\* The page begins empty.
LEMMA InitPage ==
    ASSUME Init
    PROVE  PageInv
<1>1. RowsPerPage \in Nat /\ MaxOid \in Nat /\ MaxDialogs \in Nat /\ MaxTrouble \in Nat /\ AddRow = 0
    BY TablePageAssumption
<1>2. AddRow \in Cell
    BY <1>1 DEF Cell
<1>3. BlankRow \in Row /\ BlankRow.oid = NoOid
    BY DEF BlankRow, Row, Name
<1>4. ServerType
    BY DEF Init, ServerType
<1>5. TableType
    <2>1. rows = <<>> /\ drawn = <<>> /\ selected = {} /\ loaded = {} /\ heap = [c \in Cell |-> BlankRow]
        BY DEF Init
    <2>2. rows \in Seq(Cell) /\ drawn \in Seq(Drawn)
        BY <2>1, EmptySeq
    <2>3. DrawnMatchesRows
        BY <2>1 DEF DrawnMatchesRows
    <2>4. heap \in [Cell -> Row] /\ heap[AddRow].oid = NoOid
        BY <1>2, <1>3, <2>1
    <2> QED
        BY <2>1, <2>2, <2>3, <2>4 DEF TableType
<1>6. PagingType /\ CountsType
    <2>1. pagination = [startIndex |-> 0, totalCount |-> -1]
        BY DEF Init, ResetPagination
    <2>2. pagination \in Pagination
        BY <2>1 DEF Pagination
    <2>3. filter \in Name /\ options \in Nat /\ ready \in BOOLEAN
        BY DEF Init, Name
    <2>4. trouble \in 0 .. MaxTrouble /\ since \in {"nobody", "us", "others"}
        BY <1>1 DEF Init
    <2> QED
        BY <2>2, <2>3, <2>4 DEF PagingType, CountsType
<1>7. DialogType
    <2>1. dialog = [open |-> FALSE, times |-> 0, first |-> NoParams, last |-> NoParams]
        BY DEF Init
    <2>2. NoParams.action = "none" /\ NoParams \in AnyParams /\ 0 \in 0 .. MaxDialogs
        BY <1>1 DEF NoParams, AnyParams
    <2> QED
        BY <2>1, <2>2 DEF DialogType
<1>8. ShownInv /\ LoadedInv
    BY DEF Init, ShownInv, LoadedInv, OidsOnce, EachIsShown
<1> QED
    BY <1>4, <1>5, <1>6, <1>7, <1>8 DEF PageInv, TypeInv

\* Each step.
LEMMA StepsKeepPage ==
    ASSUME PageInv, [Next]_vars
    PROVE  PageInv'
<1>1. CASE AutoLoad
    BY <1>1, AutoLoadKeeps
<1>2. CASE \/ \E f \in Name : Query(f)
           \/ \E action \in {"nextPage", "prevPage", "firstPage", "lastPage"} : TurnPage(action)
           \/ \E i \in 0 .. options - 1 : TurnToPage(i)
    BY <1>2, PagingKeeps
<1>3. CASE \E i \in DOMAIN rows : Select(i)
    BY <1>3, SelectKeeps
<1>4. CASE OpenAdd \/ OpenUpdate
    BY <1>4, OpeningKeeps
<1>5. CASE \E t \in Name : Edit(t)
    BY <1>5, EditKeeps
<1>6. CASE Cancel
    BY <1>6, CancelKeeps
<1>7. CASE \E outcome \in Outcome : Ok(outcome) \/ RemoveRow(outcome)
    BY <1>7, OkKeeps, RemoveRowKeeps
<1>8. CASE Foreign
    BY <1>8, ForeignKeeps
<1>9. CASE UNCHANGED vars
    <2>1. UNCHANGED <<server, ready, table, paging, trouble, since>> /\ dialog' = dialog /\ rows' = rows
        BY <1>9 DEF vars, table
    <2>2. DialogType'
        BY <2>1 DEF PageInv, TypeInv, DialogType
    <2> QED
        BY <2>1, <2>2, OnlyDialog
<1> QED
    BY <1>1, <1>2, <1>3, <1>4, <1>5, <1>6, <1>7, <1>8, <1>9 DEF Next

\* The inductive invariant holds in every state of the page.
THEOREM PageInvariant == Spec => []PageInv
<1>1. Init => PageInv
    BY InitPage
<1>2. PageInv /\ [Next]_vars => PageInv'
    BY StepsKeepPage
<1> QED
    BY <1>1, <1>2, PTL DEF Spec

\* Every variable of the page stays in its set: the objects of a page that is
\* loaded never run out (gt_table.js, reload), positions are those of rows the
\* table has, and where a page begins is a number (turnPageAction).
THEOREM PageTypeCorrect == Spec => []TypeOK
<1>1. PageInv => TypeOK
    <2> SUFFICES ASSUME PageInv  PROVE TypeOK
        OBVIOUS
    <2>1. ServerType /\ TableType /\ PagingType /\ DialogType /\ CountsType
        BY DEF PageInv, TypeInv
    <2>2. nextOid \in Nat /\ MaxOid \in Nat /\ nextOid <= MaxOid + 1
        BY <2>1, TablePageAssumption DEF ServerType
    <2>3. 1 .. nextOid - 1 \subseteq Oid
        BY <2>2 DEF Oid
    <2>4. DOMAIN books \subseteq Oid /\ loaded \subseteq Oid
        BY <2>1, <2>3 DEF ServerType, TableType
    <2>5. /\ \A o \in DOMAIN books : books[o] \in Name
          /\ nextOid \in 1 .. MaxOid + 1
        BY <2>1 DEF ServerType
    <2>6. /\ rows \in Seq(Cell) /\ heap \in [Cell -> Row] /\ selected \subseteq DOMAIN rows
          /\ drawn \in Seq([cell : Cell, shown : Row])
        BY <2>1 DEF TableType, Drawn
    <2>7. /\ pagination.startIndex \in Nat /\ pagination.totalCount \in Nat \cup {-1}
          /\ filter \in Name /\ options \in Nat /\ ready \in BOOLEAN
        BY <2>1 DEF PagingType, Pagination
    <2>8. /\ dialog.open \in BOOLEAN /\ dialog.times \in 0 .. MaxDialogs
          /\ dialog.first \in Params \cup {NoParams} /\ dialog.last \in Params \cup {NoParams}
        BY <2>1 DEF DialogType, AnyParams
    <2>9. trouble \in 0 .. MaxTrouble /\ since \in {"nobody", "us", "others"}
        BY <2>1 DEF CountsType
    <2> QED
        BY <2>4, <2>5, <2>6, <2>7, <2>8, <2>9 DEF TypeOK
<1> QED
    BY <1>1, PageInvariant, PTL

\* The rows of the table and those of the screen are the same in the same order,
\* whichever of the two a handler starts from: rowClicked takes the position from
\* the screen, and removeRow and updateRow use it in the table.
THEOREM DrawnAreRows == Spec => []DrawnMatchesRows
<1>1. PageInv => DrawnMatchesRows
    BY DEF PageInv, TypeInv, TableType
<1> QED
    BY <1>1, PageInvariant, PTL

\* What the page shows is what the service has, as long as nobody else writes and
\* every answer arrives: appendRow, updateRow and deleteRow of the table repeat on
\* the screen what insert, update and delete did in the service.
THEOREM ShownAreStored == Spec => []ShownIsStored
<1>1. PageInv => ShownIsStored
    <2> SUFFICES ASSUME PageInv, since # "others"
                 PROVE  LET keyed == {i \in DOMAIN drawn : drawn[i].shown.oid # NoOid}
                        IN  /\ {drawn[i].shown.oid : i \in keyed} = loaded \cap DOMAIN books
                            /\ \A i \in keyed : drawn[i].shown.title = books[drawn[i].shown.oid]
        BY DEF ShownIsStored
    <2> DEFINE keyed == {i \in DOMAIN drawn : drawn[i].shown.oid # NoOid}
    <2>1. EachIsShown /\ loaded \subseteq 1 .. nextOid - 1
        BY DEF PageInv, ShownInv, TypeInv, TableType
    <2>2. NoOid \notin loaded
        BY <2>1 DEF NoOid
    <2>3. \A o \in loaded \cap DOMAIN books : \E i \in keyed : drawn[i].shown.oid = o
        <3>1. ASSUME NEW o \in loaded \cap DOMAIN books
              PROVE  \E i \in keyed : drawn[i].shown.oid = o
            <4>1. PICK i \in DOMAIN drawn : drawn[i].shown.oid = o
                BY <2>1, <3>1 DEF EachIsShown
            <4>2. i \in keyed
                BY <2>2, <3>1, <4>1
            <4> QED
                BY <4>1, <4>2
        <3> QED
            BY <3>1
    <2>4. \A i \in keyed : /\ drawn[i].shown.oid \in loaded \cap DOMAIN books
                           /\ drawn[i].shown.title = books[drawn[i].shown.oid]
        BY <2>1 DEF EachIsShown
    <2> HIDE DEF keyed
    <2>5. {drawn[i].shown.oid : i \in keyed} = loaded \cap DOMAIN books
        BY <2>3, <2>4
    <2> QED
        BY <2>4, <2>5 DEF keyed
<1> QED
    BY <1>1, PageInvariant, PTL

-----------------------------------------------------------------------------
(* The pages follow each other. *)

\* What a page of a list holds, member by member.
LEMMA SliceHas ==
    ASSUME NEW S, NEW list \in Seq(S), NEW start \in Nat, NEW x
    PROVE  x \in Range(Slice(list, start))
              <=> \E m \in 1 .. Len(list) :
                      start < m /\ m <= start + RowsPerPage /\ list[m] = x
<1> DEFINE page == Slice(list, start)
           n == Len(list)
<1>1. /\ page \in Seq(S) /\ Len(page) <= RowsPerPage
      /\ \A i \in 1 .. Len(page) : start + i \in 1 .. n /\ page[i] = list[start + i]
      /\ \A k \in 1 .. n : start < k /\ k <= start + RowsPerPage => k - start \in 1 .. Len(page)
    BY SliceIs
<1> HIDE DEF page, n
<1>2. Len(page) \in Nat /\ DOMAIN page = 1 .. Len(page) /\ RowsPerPage \in Nat
    BY <1>1, LenProperties, TablePageAssumption
<1>3. ASSUME x \in Range(page)
      PROVE  \E m \in 1 .. n : start < m /\ m <= start + RowsPerPage /\ list[m] = x
    <2>1. PICK i \in 1 .. Len(page) : page[i] = x
        BY <1>2, <1>3 DEF Range
    <2>2. start + i \in 1 .. n /\ list[start + i] = x
        BY <1>1, <2>1
    <2>3. start < start + i /\ start + i <= start + RowsPerPage
        BY <1>1, <1>2
    <2> QED
        BY <2>2, <2>3
<1>4. ASSUME NEW m \in 1 .. n, start < m, m <= start + RowsPerPage, list[m] = x
      PROVE  x \in Range(page)
    <2>1. m - start \in 1 .. Len(page)
        BY <1>1, <1>4
    <2>2. start + (m - start) = m
        BY <1>4
    <2>3. page[m - start] = x
        BY <1>1, <1>4, <2>1, <2>2
    <2> QED
        BY <1>2, <2>1, <2>3 DEF Range
<1> QED
    BY <1>3, <1>4 DEF page, n

\* A page that begins where the one before it ends has the members that are larger
\* than all of that one.
LEMMA NextSlice ==
    ASSUME NEW S \in SUBSET Nat, IsFiniteSet(S), NEW start \in Nat,
           Range(Slice(Ascending(S), start)) # {}
    PROVE  LET after == {o \in S : \A k \in Range(Slice(Ascending(S), start)) : o > k}
           IN  Range(Slice(Ascending(S), start + RowsPerPage)) = Range(Slice(Ascending(after), 0))
<1> DEFINE n == Cardinality(S)
           list == Ascending(S)
           page == Range(Slice(list, start))
           after == {o \in S : \A k \in page : o > k}
           end == IF start + RowsPerPage <= n THEN start + RowsPerPage ELSE n
<1>1. /\ n \in Nat /\ list \in Seq(S) /\ Len(list) = n /\ Increases(list, n)
      /\ \A i \in 1 .. n : list[i] \in S /\ list[i] \in Nat
    <2>1. n \in Nat /\ list \in [1 .. n -> S] /\ Increases(list, n)
        BY AscendingIs
    <2>2. list \in Seq(S) /\ Len(list) = n
        BY AscendingSeq
    <2> QED
        BY <2>1, <2>2
<1>2. RowsPerPage \in Nat /\ RowsPerPage > 0 /\ start + RowsPerPage \in Nat
    BY TablePageAssumption
<1>3. \A x : x \in page <=> \E m \in 1 .. n : /\ start < m /\ m <= start + RowsPerPage
                                              /\ list[m] = x
    BY <1>1, SliceHas
<1>4. page # {}
    OBVIOUS
<1>5. after \in SUBSET S /\ \A o \in S : o \in after <=> \A k \in page : o > k
    OBVIOUS
<1> HIDE DEF n, list, page, after
<1>6. start < n
    <2>1. PICK m \in 1 .. n : start < m
        BY <1>3, <1>4
    <2> QED
        BY <1>1, <2>1
<1>7. end \in 0 .. n /\ start < end
    BY <1>1, <1>2, <1>6
<1>8. \A m \in 1 .. n : m <= start + RowsPerPage <=> m <= end
    BY <1>1, <1>2
<1> HIDE DEF end
<1>9. ASSUME NEW i \in 1 .. n
      PROVE  list[i] \in after <=> end < i
    <2>1. CASE end < i
        <3>1. ASSUME NEW k \in page  PROVE list[i] > k
            <4>1. PICK m \in 1 .. n : m <= start + RowsPerPage /\ list[m] = k
                BY <1>3, <3>1
            <4>2. m < i
                BY <1>7, <1>8, <1>9, <2>1, <4>1
            <4>3. list[m] < list[i]
                BY <1>1, <1>9, <4>2 DEF Increases
            <4> QED
                BY <1>1, <1>9, <4>1, <4>3
        <3> QED
            BY <1>1, <1>5, <1>9, <2>1, <3>1
    <2>2. CASE ~(end < i)
        <3>1. PICK m \in 1 .. n : start < m /\ m <= start + RowsPerPage /\ i <= m
            <4>1. CASE start < i
                <5>1. i <= start + RowsPerPage
                    BY <1>7, <1>8, <1>9, <2>2
                <5> QED
                    BY <1>9, <4>1, <5>1
            <4>2. CASE ~(start < i)
                <5>1. start + 1 \in 1 .. n /\ i <= start + 1 /\ start + 1 <= start + RowsPerPage
                    BY <1>1, <1>2, <1>6, <1>9, <4>2
                <5> QED
                    BY <5>1
            <4> QED
                BY <4>1, <4>2
        <3>2. list[m] \in page
            BY <1>3, <3>1
        <3>3. ~(list[i] > list[m])
            <4>1. CASE i = m
                BY <1>1, <1>9, <4>1
            <4>2. CASE i < m
                <5>1. list[i] < list[m]
                    BY <1>1, <1>9, <4>2 DEF Increases
                <5> QED
                    BY <1>1, <1>9, <5>1
            <4> QED
                BY <1>9, <3>1, <4>1, <4>2
        <3> QED
            BY <1>1, <1>5, <1>9, <2>2, <3>2, <3>3
    <2> QED
        BY <2>1, <2>2
<1>10. /\ Cardinality(after) = n - end
       /\ \A j \in 1 .. n - end : Ascending(after)[j] = list[end + j]
    <2>1. /\ end \in 0 .. Cardinality(S)
          /\ \A i \in 1 .. Cardinality(S) : Ascending(S)[i] \in after <=> end < i
        BY <1>7, <1>9 DEF n, list
    <2> QED
        BY <1>5, <2>1, AscendingRest DEF n, list
<1>11. Ascending(after) \in Seq(after) /\ Len(Ascending(after)) = n - end
    <2>1. after \in SUBSET Nat /\ IsFiniteSet(after)
        BY <1>5, FS_Subset
    <2> QED
        BY <1>10, <2>1, AscendingSeq
<1>12. ASSUME NEW x
       PROVE  x \in Range(Slice(list, start + RowsPerPage)) <=> x \in Range(Slice(Ascending(after), 0))
    <2>1. x \in Range(Slice(list, start + RowsPerPage))
             <=> \E m \in 1 .. n : /\ start + RowsPerPage < m
                                   /\ m <= start + RowsPerPage + RowsPerPage /\ list[m] = x
        BY <1>1, <1>2, SliceHas
    <2>2. x \in Range(Slice(Ascending(after), 0))
             <=> \E j \in 1 .. n - end : /\ 0 < j /\ j <= 0 + RowsPerPage
                                         /\ Ascending(after)[j] = x
        <3>1. 0 \in Nat
            OBVIOUS
        <3> QED
            BY <1>11, <3>1, SliceHas
    <2>3. ASSUME NEW m \in 1 .. n, start + RowsPerPage < m,
                 m <= start + RowsPerPage + RowsPerPage, list[m] = x
          PROVE  \E j \in 1 .. n - end : 0 < j /\ j <= 0 + RowsPerPage /\ Ascending(after)[j] = x
        <3>1. end = start + RowsPerPage
            BY <1>1, <1>2, <2>3 DEF end
        <3>2. /\ m - end \in 1 .. n - end /\ 0 < m - end /\ m - end <= 0 + RowsPerPage
              /\ end + (m - end) = m
            BY <1>1, <1>2, <2>3, <3>1
        <3>3. Ascending(after)[m - end] = x
            BY <1>10, <2>3, <3>2
        <3> QED
            BY <3>2, <3>3
    <2>4. ASSUME NEW j \in 1 .. n - end, j <= 0 + RowsPerPage, Ascending(after)[j] = x
          PROVE  \E m \in 1 .. n : /\ start + RowsPerPage < m
                                   /\ m <= start + RowsPerPage + RowsPerPage /\ list[m] = x
        <3>1. end = start + RowsPerPage
            BY <1>1, <1>2, <2>4 DEF end
        <3>2. /\ end + j \in 1 .. n /\ start + RowsPerPage < end + j
              /\ end + j <= start + RowsPerPage + RowsPerPage
            BY <1>1, <1>2, <1>7, <2>4, <3>1
        <3>3. list[end + j] = x
            BY <1>10, <2>4
        <3> QED
            BY <3>2, <3>3
    <2> QED
        BY <2>1, <2>2, <2>3, <2>4
<1> QED
    BY <1>12 DEF list, page, after

\* A step of the next-page button, from a page that is as it was loaded.
LEMMA NextPageStep ==
    ASSUME PageInv, TurnPage("nextPage"), since = "nobody", since' = "nobody", loaded # {}
    PROVE  LET after == {o \in DOMAIN books : /\ filter = NoTitle \/ books[o] = filter
                                              /\ \A k \in loaded : o > k}
           IN loaded' = Range(Slice(Ascending(after), 0))
<1> DEFINE S == {o \in DOMAIN books : filter = NoTitle \/ books[o] = filter}
           p == [pagination EXCEPT !.startIndex = StartAfter(pagination, "nextPage")]
           start == pagination.startIndex
           after == {o \in DOMAIN books : /\ filter = NoTitle \/ books[o] = filter
                                          /\ \A k \in loaded : o > k}
<1>1. /\ ready /\ "nextPage" \in buttons
      /\ (Load(filter, p) \/ LoadFails(p))
    BY DEF TurnPage, Listening, LoadOrFail
<1>2. Load(filter, p)
    <2>1. ~LoadFails(p)
        BY DEF LoadFails
    <2> QED
        BY <1>1, <2>1
<1>3. /\ buttons = EnabledButtons(pagination)
      /\ loaded = Range(Slice(Matching(filter), start))
    BY <1>1 DEF PageInv, LoadedInv
<1>4. HasNextPage(pagination)
    BY <1>1, <1>3 DEF EnabledButtons
<1>5. pagination \in Pagination /\ start \in Nat /\ ServerType /\ filter \in Name
    BY DEF PageInv, TypeInv, PagingType, Pagination
<1>6. p.startIndex = start + RowsPerPage
    BY <1>4, <1>5 DEF StartAfter, Pagination
<1> HIDE DEF p
<1>7. loaded' = Range(Slice(Matching(filter), start + RowsPerPage))
    BY <1>2, <1>6 DEF Load, Reload
<1>8. S \in SUBSET DOMAIN books /\ Matching(filter) = Ascending(S)
    BY DEF Matching
<1>9. after = {o \in S : \A k \in loaded : o > k}
    OBVIOUS
<1> HIDE DEF S, after, start
<1>10. S \in SUBSET Nat /\ IsFiniteSet(S)
    BY <1>5, <1>8, BooksAreFinite
<1>11. Range(Slice(Ascending(S), start)) # {}
    BY <1>3, <1>8
<1>12. LET next == {o \in S : \A k \in Range(Slice(Ascending(S), start)) : o > k}
       IN  Range(Slice(Ascending(S), start + RowsPerPage)) = Range(Slice(Ascending(next), 0))
    BY <1>5, <1>10, <1>11, NextSlice
<1>13. Range(Slice(Ascending(S), start + RowsPerPage)) = Range(Slice(Ascending(after), 0))
    BY <1>3, <1>8, <1>9, <1>12
<1> QED
    BY <1>7, <1>8, <1>13 DEF after

\* turnPageAction of the next-page button, as long as what the page has loaded is
\* what the service has: hasNextPage, nextPage and the query of the service agree
\* about where the next page begins, so no book is skipped and none is shown
\* twice (gt_table.js, Pagination, lines 1687-1700).
THEOREM NextFollows == Spec => NextPageFollows
<1>1. PageInv /\ [Next]_vars
      => [(TurnPage("nextPage") /\ since = "nobody" /\ since' = "nobody" /\ loaded # {})
             => LET after == {o \in DOMAIN books : /\ filter = NoTitle \/ books[o] = filter
                                                   /\ \A k \in loaded : o > k}
                IN loaded' = Range(Slice(Ascending(after), 0))]_vars
    BY NextPageStep
<1> QED
    BY <1>1, PageInvariant, PTL DEF Spec, NextPageFollows

=============================================================================
