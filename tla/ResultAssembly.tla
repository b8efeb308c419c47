--------------------------- MODULE ResultAssembly ----------------------------
(***************************************************************************)
(* How the results of the SQLs of a plan become one table                  *)
(* (agent/result_assembler.py): joined by a common column, put side by     *)
(* side, or the last one pivoted.                                          *)
(*                                                                         *)
(* A table is [cols, rows] of sequences.  The name of a column is a        *)
(* sequence of words, so that a prefix or a suffix is one more word; a     *)
(* hint matches a name when it matches one of its words.                   *)
(***************************************************************************)
EXTENDS Integers, FiniteSets, Sequences, Lists

CONSTANTS
    KeyRank,        \* word -> its place in _JOIN_KEY_PRIORITY, of those that have one
    DateRank,       \* the same for _DATE_JOIN_KEYS
    Numeric,        \* values that read as a number
    Null            \* the value None

ASSUME ResultAssemblyAssumption ==
    /\ KeyRank \in [DOMAIN KeyRank -> Nat] /\ DateRank \in [DOMAIN DateRank -> Nat]
    /\ Null \in STRING

Unranked == 99
Shorter(a, b) == IF a < b THEN a ELSE b

\* Of the places "is", the one ranked best, the first of several; is # {}.
BestPlace(cols, is, rank) ==
    LET of(i) == LET rs == {rank[w] : w \in ToSet(cols[i]) \cap DOMAIN rank}
                 IN IF rs = {} THEN Unranked ELSE CHOOSE r \in rs : \A s \in rs : r <= s
        r == [i \in is |-> of(i)]
    IN CHOOSE i \in is : \A j \in is : r[i] < r[j] \/ (r[i] = r[j] /\ i <= j)

Common(a, b) == {i \in DOMAIN a : a[i] \in ToSet(b)}

\* _find_join_key, of two lists with a common column.
JoinKey(a, b) == a[BestPlace(a, Common(a, b), KeyRank)]

Cell(t, row, c) == row[SelectInSeq(t.cols, LAMBDA x : x = c)]

-----------------------------------------------------------------------------
(* Two results                                                             *)

\* _concat_columns: row by row.
Beside(l, r) ==
    LET rename(c) == Append(c, IF c \in ToSet(l.cols) THEN "_2" ELSE "_right")
        nulls(t) == [i \in DOMAIN t.cols |-> Null]
        cells(t, i) == IF i <= Len(t.rows) THEN t.rows[i] ELSE nulls(t)
        n == IF Len(l.rows) < Len(r.rows) THEN Len(r.rows) ELSE Len(l.rows)
    IN [cols |-> l.cols \o [i \in DOMAIN r.cols |-> rename(r.cols[i])],
        rows |-> [i \in 1..n |-> cells(l, i) \o cells(r, i)]]

\* Mutant of Matched: the rows of the right are paired by their place.
MatchedByPlace(l, r, key) ==
    [i \in 1..Shorter(Len(l.rows), Len(r.rows)) |-> <<l.rows[i], r.rows[i]>>]

\* Each row of the left that has a match, with the last row of its key.
Matched(l, r, key) ==
    LET last(v) == SelectLastInSeq(r.rows, LAMBDA row : Cell(r, row, key) = v)
        pairs == [i \in DOMAIN l.rows |-> <<l.rows[i], last(Cell(l, l.rows[i], key))>>]
        found == Where(pairs, LAMBDA p : p[2] # 0)
    IN [i \in DOMAIN found |-> <<found[i][1], r.rows[found[i][2]]>>]

\* A column both have, but for the key, is the right's.
JoinedBy(l, r, key) ==
    LET cols == l.cols \o Where(r.cols, LAMBDA c : c \notin ToSet(l.cols))
        pairs == Matched(l, r, key)
        value(p, c) == IF c # key /\ c \in ToSet(r.cols) THEN Cell(r, p[2], c) ELSE Cell(l, p[1], c)
    IN [cols |-> cols,
        rows |-> [i \in DOMAIN pairs |-> [j \in DOMAIN cols |-> value(pairs[i], cols[j])]]]

\* join_result_sets.
Join(l, r) ==
    IF l.rows = <<>> /\ r.rows # <<>> THEN r
    ELSE IF r.rows = <<>> THEN l
    ELSE IF Common(l.cols, r.cols) = {} THEN Beside(l, r)
    ELSE JoinedBy(l, r, JoinKey(l.cols, r.cols))

-----------------------------------------------------------------------------
(* pivot_wide                                                              *)

Label(v) == IF v = Null THEN "empty" ELSE v

\* The places of the columns: pivoted, values, dimensions.
PivotAt(t, hint) == {i \in DOMAIN t.cols : hint \in ToSet(t.cols[i])}
ValuesAt(t, at) ==
    LET numeric == {i \in DOMAIN t.cols \ {at} : \E k \in DOMAIN t.rows : t.rows[k][i] \in Numeric}
    IN IF numeric = {} THEN DOMAIN t.cols \ {at} ELSE numeric
Places(t, is) == Where([i \in DOMAIN t.cols |-> i], LAMBDA i : i \in is)

Pivot(t, hint) ==
    LET at == CHOOSE i \in PivotAt(t, hint) : \A j \in PivotAt(t, hint) : i <= j
        vals == Places(t, ValuesAt(t, at))
        dims == Places(t, DOMAIN t.cols \ (ToSet(vals) \cup {at}))
        key(row) == [i \in DOMAIN dims |-> row[dims[i]]]
        keys == WithoutRepeats([k \in DOMAIN t.rows |-> key(t.rows[k])])
        labels == WithoutRepeats([k \in DOMAIN t.rows |-> t.rows[k][at]])
        wide == FlattenSeq([j \in DOMAIN labels |->
                    [v \in DOMAIN vals |-> <<labels[j], vals[v]>>]])
        last(k, w) == LET i == SelectLastInSeq(t.rows, LAMBDA row :
                                    key(row) = k /\ Label(row[at]) = Label(w[1]))
                      IN IF i = 0 THEN Null ELSE t.rows[i][w[2]]
    IN IF t.rows = <<>> \/ PivotAt(t, hint) = {} THEN t
       ELSE [cols |-> [i \in DOMAIN dims |-> t.cols[dims[i]]] \o
                      [j \in DOMAIN wide |-> <<Label(wide[j][1])>> \o t.cols[wide[j][2]]],
             rows |-> [k \in DOMAIN keys |->
                          keys[k] \o [j \in DOMAIN wide |-> last(keys[k], wide[j])]]]

-----------------------------------------------------------------------------
(* The steps of a plan                                                     *)

\* _find_date_join_column; "wanted" is the join_key of the plan.
DateColumn(cols, wanted) ==
    LET named == {i \in DOMAIN cols : wanted \in ToSet(cols[i])}
        dated == {i \in DOMAIN cols : ToSet(cols[i]) \cap DOMAIN DateRank # {}}
    IN IF named # {} THEN cols[CHOOSE i \in named : \A j \in named : i <= j]
       ELSE IF dated # {} THEN cols[BestPlace(cols, dated, DateRank)]
       ELSE JoinKey(cols, cols)

\* _prefix_value_columns.
Prefixed(step, wanted) ==
    LET date == DateColumn(step.table.cols, wanted)
    IN [step.table EXCEPT !.cols = [i \in DOMAIN @ |->
            IF @[i] = date THEN date ELSE <<step.label>> \o @[i]]]

JoinAll(ts) ==
    LET joined[n \in DOMAIN ts] == IF n = 1 THEN ts[1] ELSE Join(joined[n - 1], ts[n])
    IN joined[Len(ts)]

\* assemble_compare_by_date.
Compared(steps, wanted) ==
    LET full == Where(steps, LAMBDA s : s.table.rows # <<>>)
    IN IF full = <<>> THEN [cols |-> <<>>, rows |-> <<>>]
       ELSE JoinAll([i \in DOMAIN full |-> Prefixed(full[i], wanted)])

\* assemble_intermediate_results, with plan [byDate, wanted, hint]; the hint of
\* the last step that has one, or of the plan.
HintOf(steps, plan) ==
    LET last == SelectLastInSeq(steps, LAMBDA s : s.hint # "")
    IN IF last = 0 THEN plan.hint ELSE steps[last].hint

Assemble(steps, plan) ==
    LET compared == Compared(steps, plan.wanted)
        pivoted == Pivot(steps[Len(steps)].table, HintOf(steps, plan))
        is(mode, t) == [mode |-> mode, table |-> t]
    IN IF steps = <<>> THEN is("empty", [cols |-> <<>>, rows |-> <<>>])
       ELSE IF plan.byDate /\ compared.rows # <<>> THEN is("join_by_date", compared)
       ELSE IF Len(steps) = 1 THEN is("single", steps[1].table)
       ELSE IF HintOf(steps, plan) # "" /\ pivoted.rows # <<>> THEN is("pivot", pivoted)
       ELSE is("join", JoinAll([i \in DOMAIN steps |-> steps[i].table]))

-----------------------------------------------------------------------------
(* What the results promise                                                *)

Named(t, row) == [c \in ToSet(t.cols) |-> Cell(t, row, c)]
RowsOf(t) == {Named(t, t.rows[i]) : i \in DOMAIN t.rows}
Keyed(t, c) == \A i, j \in DOMAIN t.rows : Cell(t, t.rows[i], c) = Cell(t, t.rows[j], c) => i = j
Rectangular(t) == \A i \in DOMAIN t.rows : Len(t.rows[i]) = Len(t.cols)

\* Two results that share one column are joined by it, and not as an outer join: a
\* row of the left that has a match is there once, with the last of its matches,
\* and the other rows of both are dropped.
JoinTakesLast(l, r) ==
    l.rows # <<>> /\ r.rows # <<>> /\ Cardinality(ToSet(l.cols) \cap ToSet(r.cols)) = 1 =>
    LET key == JoinKey(l.cols, r.cols)
        match(i) == {j \in DOMAIN r.rows : Cell(r, r.rows[j], key) = Cell(l, l.rows[i], key)}
        merged(f, g) == [c \in DOMAIN f \cup DOMAIN g |-> IF c \in DOMAIN f THEN f[c] ELSE g[c]]
        pairs == {p \in (DOMAIN l.rows) \X DOMAIN r.rows :
                    p[2] \in match(p[1]) /\ \A j \in match(p[1]) : j <= p[2]}
    IN /\ RowsOf(Join(l, r)) = {merged(Named(l, l.rows[p[1]]), Named(r, r.rows[p[2]])) : p \in pairs}
       /\ Len(Join(l, r).rows) = Cardinality({i \in DOMAIN l.rows : match(i) # {}})

\* A pivot shows the values of each row that no later row of the same dimensions
\* and label writes over.
PivotKeepsLast(t, hint) ==
    PivotAt(t, hint) # {} /\ t.rows # <<>> =>
    LET at == CHOOSE i \in PivotAt(t, hint) : \A j \in PivotAt(t, hint) : i <= j
        vals == ValuesAt(t, at)
        dims == DOMAIN t.cols \ (vals \cup {at})
        wide == Pivot(t, hint)
    IN \A i \in DOMAIN t.rows :
         (\A j \in DOMAIN t.rows : i < j =>
            \/ \E d \in dims : t.rows[i][d] # t.rows[j][d]
            \/ Label(t.rows[i][at]) # Label(t.rows[j][at])) =>
         \E row \in RowsOf(wide) :
            /\ \A d \in dims : row[t.cols[d]] = t.rows[i][d]
            /\ \A v \in vals : row[<<Label(t.rows[i][at])>> \o t.cols[v]] = t.rows[i][v]

\* A comparison of entities whose days are keys of one name is an inner join by the
\* day: from the k-th entity on it shows the days that all have, each once, with the
\* values of each.  A day that one of them lacks is dropped, and so are the entities
\* before the k-th: k is not 1 only if some that stand together have no day in common.
ComparisonIsPerDay(steps, wanted) ==
    LET full == Where(steps, LAMBDA s : s.table.rows # <<>>)
        n == Len(full)
        date(i) == DateColumn(full[i].table.cols, wanted)
        days(i) == {row[date(i)] : row \in RowsOf(full[i].table)}
        shared(k, m) == {d \in days(k) : \A i \in k..m : d \in days(i)}
        shown == Compared(steps, wanted)
    IN full # <<>> /\ (\A i, j \in DOMAIN full :
            /\ date(i) = date(j) /\ Keyed(full[i].table, date(i))
            /\ full[i].label = full[j].label => i = j) =>
       \E k \in DOMAIN full :
          /\ k = 1 \/ \E j \in 1..(k - 1) : shared(j, k - 1) = {}
          /\ {row[date(1)] : row \in RowsOf(shown)} = shared(k, n)
          /\ Len(shown.rows) = Cardinality(shared(k, n))
          /\ \A row \in RowsOf(shown), i \in k..n :
               \E x \in RowsOf(full[i].table) :
                  \A c \in DOMAIN x :
                     x[c] = row[IF c = date(i) THEN c ELSE <<full[i].label>> \o c]

\* result_assembler.py:261, "outer join by date": the days of every entity are there.
ComparisonShowsAllDays(steps, wanted) ==
    LET full == Where(steps, LAMBDA s : s.table.rows # <<>>)
        date(i) == DateColumn(full[i].table.cols, wanted)
        days(t, c) == {row[c] : row \in RowsOf(t)}
    IN (\A i, j \in DOMAIN full :
            /\ date(i) = date(j) /\ Keyed(full[i].table, date(i))
            /\ full[i].label = full[j].label => i = j) =>
       \A i \in DOMAIN full : days(full[i].table, date(i)) \subseteq days(Compared(steps, wanted), date(i))

\* Whatever the steps and the plan, every row has a cell for every column.
AssemblyIsWhole(steps, plan) == Rectangular(Assemble(steps, plan).table)

=============================================================================
