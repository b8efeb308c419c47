------------------------------- MODULE SqlGate --------------------------------
(***************************************************************************)
(* What one generated SELECT passes between the model and the business     *)
(* database (POLICY_DATA_SCOPE_ENABLED on): the policy of the user         *)
(* (policy/effective_policy.py), the guard (sql/guard.py,                  *)
(* sql/column_guard.py), the scope conditions (policy/scope_injector.py)   *)
(* and the executor (sql/executor.py).  That is the SQL of validate_sql,   *)
(* apply_policy and execute_sql of the graph: a probe passes Valid without *)
(* ColumnsExist and gets no conditions, and the SQL of a plan step is      *)
(* validated without the policy.                                           *)
(*                                                                         *)
(* A query is what the parser finds in it.  Names are in lower case, the   *)
(* columns as they are written:                                            *)
(*   froms    the table nodes, in the order of find_all: [name, alias,     *)
(*            plain, outer]; "" for no alias; plain: right after FROM or   *)
(*            JOIN, where validate_sql looks for names; outer: in the FROM *)
(*            of the outermost SELECT                                      *)
(*   ctes     the names of its WITH                                        *)
(*   outputs  the output aliases, wherever they are                        *)
(*   cols     the column references <<ref, col>>, "" for no ref            *)
(*   lits     the literals a column is compared with by = or IN, wherever  *)
(*            they are: [ref, col, val, filter]; filter: the comparison is *)
(*            with literals only and, of the column of a table, a conjunct *)
(*            of the WHERE of the outermost SELECT                         *)
(*   either   that WHERE is a disjunction                                  *)
(*   limit    [is, n]: LIMIT n, FETCH n, no limit or an unreadable one     *)
(***************************************************************************)
EXTENDS Integers, Sequences

CONSTANTS
    Registered,     \* tables of the whitelist
    ColumnsOf,      \* table of the metadata -> its active columns
    Hidden,         \* the <<table, column>> that are not to be asked for
    BindingRows,    \* rows of copilot_table_scope_binding: [table, dim, col]
    DefaultDeny,    \* policy_default_deny
    MaxRows         \* resolve_sql_max_rows; 10 for a probe

ASSUME SqlGateAssumption == MaxRows \in Nat

\* load_table_bindings: of active tables, on active columns.
Bindings == {b \in BindingRows :
                b.table \in Registered \cap DOMAIN ColumnsOf /\ b.col \in ColumnsOf[b.table]}

-----------------------------------------------------------------------------
(* The policy of a user [role, tables, grants, active, denied]             *)

\* load_data_grants: "all" and an empty list leave the dimension open.
Grants(u) ==
    LET dims == {d \in DOMAIN u.grants : u.grants[d].op # "all" /\ u.grants[d].values # {}}
    IN [d \in dims |-> u.grants[d].values]

Allowed(u) ==
    IF u.role = "ADMIN" THEN Registered
    ELSE IF u.tables # {} THEN u.tables \cap Registered
    ELSE IF DefaultDeny THEN {} ELSE Registered

\* NO_DATA_SCOPE, SCOPE_FORBIDDEN: the question is not asked at all.
Refused(u) ==
    /\ u.role # "ADMIN"
    /\ \/ DefaultDeny /\ Allowed(u) = {}
       \/ DefaultDeny /\ u.role = "SCHOOL" /\ "school" \notin DOMAIN Grants(u)
       \/ \E d \in DOMAIN Grants(u) \cap DOMAIN u.active : u.active[d] \notin Grants(u)[d]

-----------------------------------------------------------------------------
(* The names of a query                                                    *)

\* All names, as the column guard and the scope injector count them, and those
\* the whitelist is asked for: the names no CTE has.
AllNames(q) == {q.froms[i].name : i \in DOMAIN q.froms}
Tables(q) == AllNames(q) \ q.ctes

\* The name or alias by which a query refers to one of its tables.
Visible(f) == IF f.alias = "" THEN f.name ELSE f.alias

\* The map of aliases: a later table node takes the name from an earlier one.
Resolve(q, ref) ==
    LET is == {i \in DOMAIN q.froms : ref \in {q.froms[i].alias, q.froms[i].name}}
    IN IF ref = "" \/ is = {} THEN ref
       ELSE q.froms[CHOOSE i \in is : \A j \in is : j <= i].name

\* The tables of the map: not one whose name a later node has for an alias.
Mapped(q) ==
    LET refs == UNION {{q.froms[i].alias, q.froms[i].name} : i \in DOMAIN q.froms}
    IN {Resolve(q, ref) : ref \in refs \ {""}}

-----------------------------------------------------------------------------
(* The guard                                                               *)

\* Neither guard looks at a star or at a name that is also an output alias.
Tested(q) == {c \in q.cols : c[2] \notin q.outputs \cup {"*"}}

\* The tables whose columns load_active_column_names finds.
Known(q) == {q.froms[i].name : i \in {j \in DOMAIN q.froms : q.froms[j].plain}} \cap DOMAIN ColumnsOf
Askable(t) == {c \in ColumnsOf[t] : <<t, c>> \notin Hidden}

\* validate_sql_columns; with no table known it tests nothing.
ColumnsExist(q) ==
    LET queried == Known(q) \cap Mapped(q)
    IN queried # {} =>
       \A c \in Tested(q) :
           IF c[1] # "" THEN Resolve(q, c[1]) \in Known(q) => c[2] \in Askable(Resolve(q, c[1]))
           ELSE \E t \in queried : c[2] \in Askable(t)

\* validate_denied_columns_sql.
ColumnsDenied(q, u) ==
    \E c \in Tested(q), d \in u.denied :
        c[2] = d[2] /\ d[1] \in (IF c[1] = "" THEN Mapped(q) ELSE {Resolve(q, c[1])})

Valid(q, u) ==
    /\ q.kind = "select"
    /\ Tables(q) # {} /\ Tables(q) \subseteq Allowed(u)
    /\ ~ColumnsDenied(q, u)
    /\ ColumnsExist(q)

\* The rows the statement may return: FETCH is left as it was.
Limited(q) ==
    IF q.limit.is = "fetch" \/ (q.limit.is = "number" /\ q.limit.n <= MaxRows)
    THEN q.limit.n ELSE MaxRows

-----------------------------------------------------------------------------
(* The scope                                                               *)

\* The bindings of the query that a grant restricts; an administrator has none.
Restricting(q, u) ==
    IF u.role = "ADMIN" THEN {}
    ELSE {b \in Bindings : b.table \in AllNames(q) /\ b.dim \in DOMAIN Grants(u)}

\* The literals compared with a bound column, or with one of its name without a
\* table, anywhere in the query.
Literals(q, b) ==
    {l \in q.lits : l.col = b.col /\ (l.ref = "" \/ Resolve(q, l.ref) = b.table)}

LiteralsGranted(q, u) ==
    \A b \in Restricting(q, u) : \A l \in Literals(q, b) : l.val \in Grants(u)[b.dim]

\* Mutant of InScope: the school chosen is forgotten.
InScopeOfGrant(u, d) == Grants(u)[d]

InScope(u, d) == IF d \in DOMAIN u.active THEN {u.active[d]} ELSE Grants(u)[d]

\* The first table node of a name.
FirstOf(q, t) ==
    LET is == {i \in DOMAIN q.froms : q.froms[i].name = t}
    IN CHOOSE i \in is : \A j \in is : i <= j

\* What is added to the outermost WHERE: a condition on the first node of each
\* bound table, unless the query has a literal for the column.
Conditions(q, u) ==
    {[ref |-> Visible(q.froms[FirstOf(q, b.table)]), of |-> b, values |-> InScope(u, b.dim)] :
        b \in {r \in Restricting(q, u) : Literals(q, r) = {}}}

Executes(q, u) == ~Refused(u) /\ Valid(q, u) /\ LiteralsGranted(q, u)

-----------------------------------------------------------------------------
(* The execution                                                           *)

\* fetchmany(max_rows + 1): TOO_MANY_ROWS when the statement returned more.
Fewer(a, b) == IF a < b THEN a ELSE b
Fetched(q, found) == Fewer(Fewer(found, Limited(q)), MaxRows + 1)
TooManyRows(q, found) == Fetched(q, found) > MaxRows

\* The ClickHouse client is given the text: parameter i is written over every
\* ":scope_<dim>_<i>", in order, so over the head of ":scope_<dim>_<10 i + k>".
Rendered(i) == IF i >= 10 /\ i < 100 THEN [value |-> i \div 10, tail |-> i % 10]
               ELSE [value |-> i, tail |-> -1]

-----------------------------------------------------------------------------
(* What an accepted query may see                                          *)

\* A table node whose name in the query is a name of its table alone.
Clear(q, i) ==
    \A j \in DOMAIN q.froms :
        Visible(q.froms[i]) \in {q.froms[j].alias, q.froms[j].name} => q.froms[j].name = q.froms[i].name

\* A reference that may mean a column of the node.
Means(q, i, ref) == ref \in {"", Visible(q.froms[i])}

\* The tables: every name that is not a CTE's is registered and, where the user
\* has tables, the user's.  A name that a CTE has is not tested, wherever it is.
TablesKept(q, u) ==
    \A i \in DOMAIN q.froms :
        q.froms[i].name \notin q.ctes =>
            /\ q.froms[i].name \in Registered
            /\ u.role # "ADMIN" /\ u.tables # {} => q.froms[i].name \in u.tables

\* The columns: no reference to a table under a clear name is one to a denied
\* column, or, of a table that is known, to a column it does not have.  A star
\* and a column with the name of an output alias are not tested.
ColumnsKept(q, u) ==
    \A i \in DOMAIN q.froms, c \in q.cols :
        Clear(q, i) /\ Means(q, i, c[1]) /\ c[2] \notin q.outputs /\ c[2] # "*" =>
            /\ <<q.froms[i].name, c[2]>> \notin u.denied
            /\ c[1] # "" /\ q.froms[i].name \in Known(q) => c[2] \in Askable(q.froms[i].name)

\* The values of a bound column that a node of the outermost FROM may show: those
\* of its condition, or those the WHERE compares it with.
Conditioned(q, u, i, b) ==
    {c \in Conditions(q, u) : c.of = b /\ c.ref = Visible(q.froms[i])}
Filters(q, i, b) ==
    {l \in q.lits : l.filter /\ l.col = b.col /\ Means(q, i, l.ref)}
Seen(q, u, i, b) ==
    IF Conditioned(q, u, i, b) # {} THEN UNION {c.values : c \in Conditioned(q, u, i, b)}
    ELSE {l.val : l \in Filters(q, i, b)}

\* The values, of a table under a clear name: a literal compared with its bound
\* column is granted.  The first node of the table, if it is in the outermost FROM,
\* shows granted values only, and of the school chosen if it has a condition.  This
\* is not said of a later node of the table, which has no condition, of the name of
\* a CTE, where a literal that filters nothing keeps the condition away, nor of a
\* WHERE that is a disjunction, which the condition is appended to.
ValuesKept(q, u) ==
    \A b \in Bindings, i \in DOMAIN q.froms :
        u.role # "ADMIN" /\ b.dim \in DOMAIN Grants(u) /\ q.froms[i].name = b.table /\ Clear(q, i) =>
            /\ \A l \in q.lits : l.col = b.col /\ Means(q, i, l.ref) => l.val \in Grants(u)[b.dim]
            /\ /\ q.froms[i].outer /\ ~q.either
               /\ b.table \notin q.ctes
               /\ \A j \in DOMAIN q.froms : q.froms[j].name = b.table => i <= j
               /\ Literals(q, b) \subseteq Filters(q, i, b)
               => /\ Seen(q, u, i, b) # {} /\ Seen(q, u, i, b) \subseteq Grants(u)[b.dim]
                  /\ Filters(q, i, b) = {} /\ b.dim \in DOMAIN u.active =>
                        Seen(q, u, i, b) = {u.active[b.dim]}

\* What the gate keeps of the scope of a user.
ScopeKept(q, u) == Executes(q, u) => TablesKept(q, u) /\ ColumnsKept(q, u) /\ ValuesKept(q, u)

\* Under the default denial nobody asks without a table granted, and no school
\* without a school.
DenialKept(q, u) ==
    Executes(q, u) /\ DefaultDeny /\ u.role # "ADMIN" =>
        /\ u.tables \cap Registered # {}
        /\ u.role = "SCHOOL" => u.grants["school"].values # {}

\* A result is refused for its length only under a FETCH of too many rows, and
\* otherwise has the rows there are, up to the limit of the query and of the guard.
Bounded(q, found) ==
    IF TooManyRows(q, found) THEN q.limit.is = "fetch" /\ q.limit.n > MaxRows
    ELSE Fetched(q, found) = Fewer(Fewer(found, MaxRows),
                                   IF q.limit.is \in {"number", "fetch"} THEN q.limit.n ELSE MaxRows)

\* Up to ten values a parameter stands for itself.
FewAreExact == \A i \in 0..9 : Rendered(i) = [value |-> i, tail |-> -1]

\* guard.py:2, "forced LIMIT": the executor never meets a result that is too long.
LimitIsForced(q, found) == ~TooManyRows(q, found)

=============================================================================
