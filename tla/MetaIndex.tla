------------------------------- MODULE MetaIndex -------------------------------
(***************************************************************************)
(* The knowledge base: the registry of tables, columns, metrics, field     *)
(* values and SQL examples (meta/repository.py, edited through             *)
(* api/admin_meta.py, admin_ops.py and feedback.py), the search index a    *)
(* rebuild derives from it (meta/index_service.py), and the questions that *)
(* recall from the index, or from the registry when the index is of no     *)
(* help (retrieval/hybrid.py), and query the whitelisted tables            *)
(* (sql/whitelist.py).                                                     *)
(*                                                                         *)
(* A registry row is its deletion mark and two flags.  on is status, or    *)
(* review_status = 1 of an example; open is recall_enabled of a column, or *)
(* that meta_json does not say draft.  Rebuilds and questions read the     *)
(* registry under the snapshot of their transaction, and the index and the *)
(* whitelist, which the process shares, as they are.                       *)
(***************************************************************************)
EXTENDS Integers, FiniteSets, Sequences

CONSTANTS
    Items,      \* rows that may exist
    Kind,       \* Kind[i]: one of Kinds
    Parent,     \* the table of a column or a metric, the column of a value
    Seeded,     \* rows that exist at first, enabled, published and indexed
    Admins, Rebuilds, Asks,     \* requests in progress at once
    MaxEdits,   \* bound: changes of the registry
    MaxRebuilds \* bound: rebuilds

Kinds == {"table", "column", "metric", "value", "example"}

\* The order of rebuild_all.
Order == <<"table", "column", "metric", "value", "example">>

ASSUME MetaIndexAssumption ==
    /\ Kind \in [Items -> Kinds]
    /\ Parent \in [Items -> Items]
    /\ \A i \in Items : Kind[i] \in {"column", "metric"} => Kind[Parent[i]] = "table"
    /\ \A i \in Items : Kind[i] = "value" => Kind[Parent[i]] = "column"
    /\ Seeded \subseteq Items
    /\ MaxEdits \in Nat /\ MaxRebuilds \in Nat

VARIABLES
    row,        \* the registry: [is, on, open] per item
    biz,        \* columns the business table has
    edits,      \* changes of the registry so far
    upd,        \* the request of each administrator
    index,      \* items in the search index
    rebuild,    \* the rebuild of each request
    rebuilds,   \* rebuilds so far
    fresh,      \* history: edits when a rebuild last ended undisturbed, or -1
    allowed,    \* _cached_allowed: the whitelisted tables
    ask,        \* the question of each ask
    since       \* history: tables the registry allowed since the ask began

registryVars == <<row, biz, edits, upd>>
indexVars == <<index, rebuild, rebuilds, fresh>>
askVars == <<allowed, ask>>
vars == <<registryVars, indexVars, askVars, since>>

OfKind(k) == {i \in Items : Kind[i] = k}
Columns(t) == {c \in OfKind("column") : Parent[c] = t}

Live(r, i) == r[i].is = "live"
On(r, i) == Live(r, i) /\ r[i].on

\* _ask_column_sql_filter.
Askable(r, c) == On(r, c) /\ r[c].open

\* list_indexable_tables, _columns, _metrics, _field_values, _sql_examples.
Indexable(r, k) ==
    {i \in OfKind(k) : On(r, i) /\
        CASE k = "column" -> r[i].open /\ On(r, Parent[i])
          [] k = "value" -> Askable(r, Parent[i]) /\ On(r, Parent[Parent[i]])
          [] k = "example" -> r[i].open
          [] OTHER -> TRUE}

EnabledTables(r) == {t \in OfKind("table") : On(r, t)}
TablesOfMetrics(r) == {Parent[m] : m \in Indexable(r, "metric")}

\* refresh_allowed_tables: the enabled tables, or those the metrics name.
Whitelist(r) == IF EnabledTables(r) # {} THEN EnabledTables(r) ELSE TablesOfMetrics(r)

NoRow == [is |-> "none", on |-> FALSE, open |-> FALSE]
NewRow(on, open) == [is |-> "live", on |-> on, open |-> open]
NoUpdate == [do |-> "idle", item |-> "", on |-> FALSE, seen |-> {}, had |-> {}, were |-> {}]
NoRebuild == [pc |-> "idle", at |-> 1, view |-> [i \in Items |-> NoRow], edits |-> 0,
              alone |-> FALSE]
NoAsk == [pc |-> "idle", view |-> [i \in Items |-> NoRow], white |-> {},
          examples |-> {}, ran |-> {}, late |-> FALSE]

Init ==
    /\ row = [i \in Items |-> IF i \in Seeded THEN NewRow(TRUE, TRUE) ELSE NoRow]
    /\ biz = OfKind("column") /\ edits = 0
    /\ upd = [a \in Admins |-> NoUpdate]
    /\ index = UNION {Indexable(row, k) : k \in Kinds}
    /\ rebuild = [b \in Rebuilds |-> NoRebuild]
    /\ rebuilds = 0 /\ fresh = 0
    /\ allowed = Whitelist(row) /\ ask = [a \in Asks |-> NoAsk]
    /\ since = [a \in Asks |-> {}]

-----------------------------------------------------------------------------
(* The registry                                                            *)

\* A transaction that changes the registry commits.
Commit(r) ==
    /\ edits < MaxEdits /\ edits' = edits + 1
    /\ row' = r
    /\ since' = [a \in Asks |-> IF ask[a].pc = "idle" THEN {}
                                ELSE since[a] \cup Whitelist(r)]
    /\ UNCHANGED <<biz, indexVars, askVars>>

Put(i, v) == Commit([row EXCEPT ![i] = v]) /\ UNCHANGED upd
IsNew(i) == row[i].is = "none"

\* Someone else alters the business database.
AlterBusinessTable ==
    \E c \in OfKind("column") :
        /\ edits < MaxEdits /\ edits' = edits + 1
        /\ biz' = IF c \in biz THEN biz \ {c} ELSE biz \cup {c}
        /\ UNCHANGED <<row, upd, indexVars, askVars, since>>

\* introspect_table: what the business database says.
Introspected(t) == Columns(t) \cap biz

\* register_table: introspect, then insert the table and its columns, of which
\* the administrator may exclude some from recall.
RegisterTable(t, on, hidden) ==
    /\ IsNew(t)
    /\ Commit([i \in Items |->
            IF i = t THEN NewRow(on, TRUE)
            ELSE IF i \in Introspected(t) THEN NewRow(TRUE, i \notin hidden)
            ELSE row[i]])
    /\ UNCHANGED upd

\* create_metric
MetricRows == {NewRow(on, TRUE) : on \in BOOLEAN}

\* upsert_field_value returns no id after an insert: a value that is to be
\* disabled at once is rolled back, and any other is stored and reported as
\* failed.
FieldValueRows(v) == IF Live(row, Parent[v]) THEN {NewRow(TRUE, TRUE)} ELSE {}

\* badcase_to_sql_example_draft and promote_l1_from_badcase.
Draft == NewRow(FALSE, FALSE)
SqlExampleRows == {NewRow(TRUE, open) : open \in BOOLEAN} \cup {Draft}

Create(i) ==
    /\ IsNew(i)
    /\ \E new \in CASE Kind[i] = "metric" -> MetricRows
                    [] Kind[i] = "value" -> FieldValueRows(i)
                    [] Kind[i] = "example" -> SqlExampleRows
                    [] OTHER -> {} :
          Put(i, new)

\* update_sql_example, or publish_sql_example, which removes the draft flag.
ExampleUpdates(e) == {NewRow(row[e].on, open) : open \in BOOLEAN} \cup {NewRow(TRUE, TRUE)}

\* update_column; update_metric, update_field_value and upsert_field_value.
UpdatedRows(i) ==
    CASE Kind[i] = "column" -> {NewRow(row[i].on, open) : open \in BOOLEAN}
      [] Kind[i] = "example" -> ExampleUpdates(i)
      [] Kind[i] \in {"metric", "value"} -> {NewRow(on, TRUE) : on \in BOOLEAN}
      [] OTHER -> {}

Update(i) ==
    /\ Live(row, i)
    /\ \E new \in UpdatedRows(i) \ {row[i]} : Put(i, new)

Delete(i) ==
    /\ Live(row, i) /\ Kind[i] \in {"metric", "value", "example"}
    /\ Put(i, [row[i] EXCEPT !.is = "gone"])

EditRegistry ==
    \/ \E t \in OfKind("table"), on \in BOOLEAN, hidden \in SUBSET OfKind("column") :
          RegisterTable(t, on, hidden)
    \/ \E i \in Items : Create(i) \/ Update(i) \/ Delete(i)

-----------------------------------------------------------------------------
(* Requests that read, and write what they read later                      *)

Idle(a) == upd[a].do = "idle"

\* update_table_manual_fields writes the status it read unless it is given one.
UpdateTable(a, t, on) ==
    /\ Idle(a) /\ edits < MaxEdits /\ Live(row, t)
    /\ upd' = [upd EXCEPT ![a] = [NoUpdate EXCEPT !.do = "update", !.item = t, !.on = on]]
    /\ UNCHANGED <<row, biz, edits, indexVars, askVars, since>>

WriteTable(a) ==
    LET t == upd[a].item IN
    /\ upd[a].do = "update"
    /\ Commit([row EXCEPT ![t].on = upd[a].on])
    /\ upd' = [upd EXCEPT ![a] = NoUpdate]

\* refresh_table_from_business: the columns the business table has, the
\* columns registered, and those of them that are enabled.
RefreshTable(a, t) ==
    /\ Idle(a) /\ edits < MaxEdits /\ Live(row, t)
    /\ LET had == {c \in Columns(t) : Live(row, c)} IN
       upd' = [upd EXCEPT ![a] =
                [do |-> "refresh", item |-> t, on |-> FALSE, seen |-> Introspected(t),
                 had |-> had, were |-> {c \in had : row[c].on}]]
    /\ UNCHANGED <<row, biz, edits, indexVars, askVars, since>>

\* A column that was inserted meanwhile is a duplicate: the request fails.
WriteColumns(a) ==
    LET u == upd[a]
        new == u.seen \ u.had
    IN
    /\ u.do = "refresh"
    /\ IF \E c \in new : Live(row, c)
       THEN UNCHANGED <<row, biz, edits, indexVars, askVars, since>>
       ELSE Commit([i \in Items |->
                IF i \in new THEN NewRow(TRUE, TRUE)
                ELSE IF i \in u.seen THEN [row[i] EXCEPT !.on = TRUE]
                ELSE IF i \in u.were THEN [row[i] EXCEPT !.on = FALSE]
                ELSE row[i]])
    /\ upd' = [upd EXCEPT ![a] = NoUpdate]

-----------------------------------------------------------------------------
(* rebuild_all                                                             *)

NobodyRebuilds == \A b \in Rebuilds : rebuild[b].pc = "idle"

\* Mutant of Ahead: the list ends before the examples.
AheadShort(r, n) ==
    {k \in n + 1..Len(Order) - 1 : Order[k] = "value" \/ Indexable(r, Order[k]) # {}}

\* The kinds after the n-th that are indexed anew: a kind without rows keeps
\* the index it has, except the field values.
Ahead(r, n) ==
    {k \in n + 1..Len(Order) : Order[k] = "value" \/ Indexable(r, Order[k]) # {}}
First(S) == CHOOSE n \in S : \A k \in S : n <= k

\* The lists are read under one snapshot once the index answers a ping.
RebuildBegins(b) ==
    /\ rebuild[b].pc = "idle" /\ rebuilds < MaxRebuilds
    /\ rebuilds' = rebuilds + 1
    /\ rebuild' = [x \in Rebuilds |->
            IF x = b THEN [pc |-> "clear", at |-> First(Ahead(row, 0)), view |-> row,
                           edits |-> edits, alone |-> NobodyRebuilds]
            ELSE [rebuild[x] EXCEPT !.alone = FALSE]]
    /\ fresh' = -1
    /\ UNCHANGED <<registryVars, index, askVars, since>>

KindAt(b) == Order[rebuild[b].at]

\* recreate_vector_index or recreate_value_index, after the texts are embedded.
Recreate(b) ==
    /\ rebuild[b].pc = "clear"
    /\ index' = index \ OfKind(KindAt(b))
    /\ rebuild' = [rebuild EXCEPT ![b].pc = "fill"]
    /\ UNCHANGED <<registryVars, rebuilds, fresh, askVars, since>>

\* bulk_index puts these documents into the index; the next kind, or the end.
Index(b, docs, alone) ==
    LET ahead == Ahead(rebuild[b].view, rebuild[b].at) IN
    /\ rebuild[b].pc = "fill"
    /\ index' = index \cup docs
    /\ IF ahead = {}
       THEN /\ rebuild' = [rebuild EXCEPT ![b] = NoRebuild]
            /\ fresh' = IF alone THEN rebuild[b].edits ELSE fresh
       ELSE /\ rebuild' = [rebuild EXCEPT ![b].pc = "clear", ![b].at = First(ahead),
                                          ![b].alone = alone]
            /\ UNCHANGED fresh
    /\ UNCHANGED <<registryVars, rebuilds, askVars, since>>

Fill(b) == Index(b, Indexable(rebuild[b].view, KindAt(b)), rebuild[b].alone)


\* Zvec leaves documents out and only counts fewer.
FillPartly(b) ==
    \E some \in SUBSET Indexable(rebuild[b].view, KindAt(b)) : Index(b, some, FALSE)

\* The embedding service or Elasticsearch fails: the request ends there.
RebuildFails(b) ==
    /\ rebuild[b].pc # "idle" /\ rebuild' = [rebuild EXCEPT ![b] = NoRebuild]
    /\ UNCHANGED <<registryVars, index, rebuilds, fresh, askVars, since>>

-----------------------------------------------------------------------------
(* Questions                                                               *)

At(a, s) == ask[a].pc = s

\* run_ask commits; what refresh_allowed_tables reads begins the snapshot.
Begin(a) ==
    /\ At(a, "idle")
    /\ ask' = [ask EXCEPT ![a] = [NoAsk EXCEPT !.pc = "refresh", !.view = row,
                    !.white = Whitelist(row),
                    !.late = \E b \in Asks \ {a} : At(b, "refresh")]]
    /\ since' = [since EXCEPT ![a] = Whitelist(row)]
    /\ UNCHANGED <<registryVars, indexVars, allowed>>

\* Mutant of Refresh: the whitelist is loaded only when it is empty.
RefreshOnce(a) ==
    /\ At(a, "refresh")
    /\ allowed' = IF allowed = {} THEN ask[a].white ELSE allowed
    /\ ask' = [ask EXCEPT ![a].pc = "recall"]
    /\ UNCHANGED <<registryVars, indexVars, since>>

Refresh(a) ==
    /\ At(a, "refresh")
    /\ allowed' = ask[a].white
    /\ ask' = [ask EXCEPT ![a].pc = "recall", ![a].white = {}]
    /\ UNCHANGED <<registryVars, indexVars, since>>

\* The top hits of a search, which finds something in an index that has it.
FromIndex(k) == (SUBSET (index \cap OfKind(k))) \ {{}}

\* rank_*_by_keywords over the rows of the registry.
ByKeywords(r, k) == SUBSET Indexable(r, k)

\* The index, or the registry when that has no hit or fails.
Hits(r, k) == FromIndex(k) \cup ByKeywords(r, k)

\* Mutant of Visible: the flags of meta_json are not read again.
VisibleDrafts(r, e) == Live(r, e)

\* is_l1_visible, of an example that get_sql_examples_by_ids still has.  A
\* review_status of 0 is read as 1 (int(... or 1)), so it hides nothing.
Visible(r, e) == Live(r, e) /\ r[e].open

\* recall_sql_examples_node.  What is recalled of the other kinds shapes the
\* prompt, which does not bind the model that writes the statement.
Recall(a) ==
    /\ At(a, "recall")
    /\ \E hits \in Hits(ask[a].view, "example") :
          ask' = [ask EXCEPT ![a].pc = "sql",
                             ![a].examples = {e \in hits : Visible(ask[a].view, e)}]
    /\ UNCHANGED <<registryVars, indexVars, allowed, since>>

\* validate_sql accepts a statement over these tables and columns: the tables
\* are whitelisted now, the columns of registered tables are open to questions.
Accepted(a, tables, columns) ==
    /\ tables \subseteq allowed
    /\ \A c \in columns :
          /\ Parent[c] \in tables
          /\ Live(ask[a].view, Parent[c]) => Askable(ask[a].view, c)

\* The statement is the model's: any tables, any columns.
RunSql(a) ==
    /\ At(a, "sql")
    /\ \E tables \in SUBSET OfKind("table"), columns \in SUBSET OfKind("column") :
          /\ Accepted(a, tables, columns)
          /\ ask' = [ask EXCEPT ![a] = [NoAsk EXCEPT !.pc = "ran", !.ran = tables,
                                                       !.late = ask[a].late]]
    /\ UNCHANGED <<registryVars, indexVars, allowed, since>>

\* The answer, or a refusal.
EndAsk(a) ==
    /\ ask[a].pc \in {"sql", "ran"}
    /\ ask' = [ask EXCEPT ![a] = NoAsk]
    /\ since' = [since EXCEPT ![a] = {}]
    /\ UNCHANGED <<registryVars, indexVars, allowed>>

-----------------------------------------------------------------------------
Administer(a) ==
    \/ \E t \in OfKind("table"), on \in BOOLEAN : UpdateTable(a, t, on)
    \/ \E t \in OfKind("table") : RefreshTable(a, t)
    \/ WriteTable(a) \/ WriteColumns(a)

Reindex(b) ==
    RebuildBegins(b) \/ Recreate(b) \/ Fill(b) \/ FillPartly(b) \/ RebuildFails(b)

Question(a) == Begin(a) \/ Refresh(a) \/ Recall(a) \/ RunSql(a) \/ EndAsk(a)

Next ==
    \/ AlterBusinessTable \/ EditRegistry
    \/ \E a \in Admins : Administer(a)
    \/ \E b \in Rebuilds : Reindex(b)
    \/ \E a \in Asks : Question(a)

Spec == Init /\ [][Next]_vars

-----------------------------------------------------------------------------
Row == [is : {"none", "live", "gone"}, on : BOOLEAN, open : BOOLEAN]
Registry == [Items -> Row]

\* Types of all variables.
TypeOK ==
    /\ row \in Registry /\ biz \subseteq Items /\ edits \in 0..MaxEdits
    /\ upd \in [Admins -> [do : {"idle", "update", "refresh"}, item : Items \cup {""},
                           on : BOOLEAN, seen : SUBSET Items, had : SUBSET Items,
                           were : SUBSET Items]]
    /\ index \subseteq Items
    /\ rebuild \in [Rebuilds -> [pc : {"idle", "clear", "fill"}, at : 1..Len(Order),
                                 view : Registry, edits : 0..MaxEdits, alone : BOOLEAN]]
    /\ rebuilds \in 0..MaxRebuilds /\ fresh \in -1..MaxEdits
    /\ allowed \subseteq Items
    /\ ask \in [Asks -> [pc : {"idle", "refresh", "recall", "sql", "ran"},
                         view : Registry, white : SUBSET Items, examples : SUBSET Items, ran : SUBSET Items,
                         late : BOOLEAN]]
    /\ since \in [Asks -> SUBSET Items]

\* Whatever other questions put into the shared whitelist meanwhile, a question
\* queries only tables the registry allowed at some moment since it began,
\* unless another one was between reading and assigning the whitelist then.
QueriesAllowedTables ==
    \A a \in Asks : (ask[a].pc = "ran" /\ ~ask[a].late) =>
        ask[a].ran \subseteq since[a]

\* An example the prompt shows was reviewed, and neither deleted nor a draft in
\* the question's snapshot, however old the index is that it was found in, and
\* although is_l1_visible does not see that an example is not reviewed.
SelectedIsPublished ==
    \A a \in Asks : \A e \in ask[a].examples :
        row[e].on /\ Live(ask[a].view, e) /\ ask[a].view[e].open

\* After a rebuild that ran alone and without failure, over a registry that has
\* not changed since, the index holds what the registry offers and nothing
\* else, except of a kind the registry has nothing of any more.
FreshIndexIsRegistry ==
    fresh = edits => \A k \in Kinds :
        (k = "value" \/ Indexable(row, k) # {}) =>
            index \cap OfKind(k) = Indexable(row, k)

=============================================================================
