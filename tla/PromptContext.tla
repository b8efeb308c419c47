---------------------------- MODULE PromptContext -----------------------------
(***************************************************************************)
(* What is chosen for a prompt: the tables and columns of a question       *)
(* (agent/context_builder.py, retrieval/unified.py), the curated examples  *)
(* (ask/example_ranker.py), the observations of the tools, and the two     *)
(* searches the tools make, over the relations of the tables               *)
(* (agent/tools/meta_tools.py) and over the graph of the code              *)
(* (code/repository.py).                                                   *)
(***************************************************************************)
EXTENDS Integers, FiniteSets, Sequences, Lists

CONSTANTS
    MaxTables,      \* recall_top_k_table
    MaxColumns,     \* max_columns_per_table
    MaxExamples,    \* top_k of the examples
    MaxShown,       \* observations in a prompt: 12
    MaxChars,       \* their length with the header
    HeaderChars,    \* the length of the header
    CodeBoost       \* what an artifact adds to the score of its tables

ASSUME PromptContextAssumption ==
    /\ {MaxTables, MaxColumns} \subseteq Nat \ {0}
    /\ {MaxExamples, MaxShown, MaxChars, HeaderChars, CodeBoost} \subseteq Nat
    /\ HeaderChars <= MaxChars

-----------------------------------------------------------------------------
(* Relations: [from, to, on]; a path runs over them both ways              *)

\* list_relations: enabled, between allowed tables, of one table if it is named.
Relations(rels, allowed, table) ==
    Where(rels, LAMBDA r : /\ r.on /\ r.from \in allowed /\ r.to \in allowed
                           /\ table = "" \/ table \in {r.from, r.to})

Other(r, t) == IF r.from = t THEN r.to ELSE r.from

\* One relation of the table taken from the queue; "path" is the chain of parents.
Visit(b, t, r) ==
    LET next == Other(r, t)
    IN IF t \notin {r.from, r.to} \/ next \in b.visited THEN b
       ELSE [queue |-> Append(b.queue, next), visited |-> b.visited \cup {next},
             path |-> [x \in b.visited \cup {next} |->
                         IF x = next THEN Append(b.path[t], r) ELSE b.path[x]]]

\* get_join_path.  A table nothing relates has no path; the same table has the
\* empty one.
JoinPath(rels, allowed, src, dst) ==
    LET known == Relations(rels, allowed, "")
        start == [queue |-> <<src>>, visited |-> {src}, path |-> [x \in {src} |-> <<>>]]
        pop(b) == IF b.queue = <<>> \/ Head(b.queue) = dst THEN b
                  ELSE LET visit[k \in 0..Len(known)] ==
                             IF k = 0 THEN [b EXCEPT !.queue = Tail(@)]
                             ELSE Visit(visit[k - 1], Head(b.queue), known[k])
                       IN visit[Len(known)]
        after[n \in 0..Cardinality(allowed)] == IF n = 0 THEN start ELSE pop(after[n - 1])
        end == after[Cardinality(allowed)]
    IN IF {src, dst} \subseteq allowed /\ dst \in end.visited
       THEN [ok |-> TRUE, path |-> end.path[dst]]
       ELSE [ok |-> FALSE, path |-> <<>>]

\* trace_edges_bfs over edges [from, to], to = 0 for a target that is no symbol.
Trace(edges, start, hops) ==
    LET out(f) == FlattenSeq([i \in DOMAIN f |-> Where(edges, LAMBDA e : e.from = f[i])])
        step(t) ==
            LET found == out(t.frontier)
                next == WithoutRepeats(Where([i \in DOMAIN found |-> found[i].to],
                                        LAMBDA x : x # 0 /\ x \notin t.visited))
            IN [frontier |-> next, visited |-> t.visited \cup ToSet(next),
                path |-> t.path \o found]
        after[n \in 0..hops] ==
            IF n = 0 THEN [frontier |-> <<start>>, visited |-> {start}, path |-> <<>>]
            ELSE step(after[n - 1])
    IN after[hops].path

-----------------------------------------------------------------------------
(* Tables and columns                                                      *)

\* apply_kb_recall_limits: the names of the tables, by their score, and the
\* tables recalled that are among them, in their own order.
KbTables(tables, allowed) ==
    LET ranked == StableSort(tables, LAMBDA x, y : x.score > y.score)
        names == Where([i \in DOMAIN ranked |-> ranked[i].table], LAMBDA t : t \in allowed)
    IN Leading(WithoutRepeats(names), MaxTables)
KbRecalled(tables, allowed) ==
    LET names == ToSet(KbTables(tables, allowed))
    IN Leading(Where(tables, LAMBDA t : t.table \in names), MaxTables)

\* boost_tables_by_code_artifacts, of the tables that artifacts name.
Boost(t, artifacts) == IF t \in artifacts THEN CodeBoost ELSE 0
Boosted(tables, artifacts) ==
    IF artifacts = {} THEN tables
    ELSE StableSort([i \in DOMAIN tables |->
                        [tables[i] EXCEPT !.score = @ + Boost(tables[i].table, artifacts)]],
                    LAMBDA x, y : x.score > y.score)

\* Mutant of Finalized: the limits are applied to the scores once boosted.
FinalizedOnceBoosted(tables, artifacts, allowed) == KbRecalled(Boosted(tables, artifacts), allowed)

\* finalize_kb_recall: what the limits left is boosted, and only ordered by it.
Finalized(tables, artifacts, allowed) == Boosted(KbRecalled(tables, allowed), artifacts)

\* build_prompt_columns_from_kb_recall, for a table: its columns [name, must] in
\* order, the keys of its relations, the columns recalled.  Of a table that is
\* missing or disabled the columns recalled are taken as they are.
PromptColumns(active, cols, keys, recalled) ==
    LET name(s) == [i \in DOMAIN s |-> s[i].name]
        must(c) == c.must \/ c.name \in keys
        all == name(Where(cols, must)) \o recalled \o
               name(Where(cols, LAMBDA c : ~must(c)))
    IN IF ~active THEN recalled
       ELSE Leading(WithoutRepeats(Where(all, LAMBDA n : n \in ToSet(name(cols)))), MaxColumns)

-----------------------------------------------------------------------------
(* Examples [id, priority, score, draft, unreviewed, adminOnly, role,       *)
(* tables]                                                                 *)

\* is_example_visible_to_user, example_tables_compatible, min_score; without an
\* allowed table no example is refused for its tables.
Fits(e, role, allowed) ==
    /\ ~e.draft /\ ~e.unreviewed /\ e.role \in {"", role}
    /\ ~(e.adminOnly /\ role = "SCHOOL")
    /\ allowed = {} \/ e.tables \subseteq allowed
    /\ e.score >= 1

\* rank_curated_examples_for_prompt.
Better(x, y) == \/ x.score > y.score
                \/ x.score = y.score /\ (x.priority < y.priority
                                         \/ (x.priority = y.priority /\ x.id < y.id))
Examples(examples, role, allowed) ==
    Leading(StableSort(Where(examples, LAMBDA e : Fits(e, role, allowed)), Better), MaxExamples)

-----------------------------------------------------------------------------
(* Observations [tool, table, lengths], the lengths of their lines         *)

Describes(o) == o.tool = "describe_table"

\* _sort_observations_for_prompt.
Place(o, candidates) ==
    LET is == {i \in DOMAIN candidates : candidates[i] = o.table}
    IN IF ~Describes(o) THEN 1000
       ELSE IF is = {} THEN 999 ELSE CHOOSE i \in is : \A j \in is : j <= i
Sorted(obs, candidates) ==
    IF candidates = <<>> THEN obs
    ELSE StableSort(obs, LAMBDA x, y : Place(x, candidates) < Place(y, candidates))

\* _format_tool_observations: the lines [of, length] that fit under the header, in
\* order; the mark of a cut comes on top.
Lines(obs, candidates) ==
    LET shown == Leading(Sorted(obs, candidates), MaxShown)
        all == FlattenSeq([i \in DOMAIN shown |->
                  [k \in DOMAIN shown[i].lengths |-> [of |-> shown[i], length |-> shown[i].lengths[k]]]])
        used[n \in 0..Len(all)] == IF n = 0 THEN HeaderChars ELSE used[n - 1] + all[n].length + 1
        fit == {n \in 0..Len(all) : used[n] <= MaxChars}
    IN SubSeq(all, 1, CHOOSE n \in fit : \A m \in fit : m <= n)

-----------------------------------------------------------------------------
(* What the choices promise                                                *)

\* The tables within n relations, and the symbols within n calls, defined
\* without any order of search.
Ball(start, pairs, n) ==
    LET grow[k \in 0..n] == IF k = 0 THEN {start}
                            ELSE grow[k - 1] \cup {p[2] : p \in {q \in pairs : q[1] \in grow[k - 1]}}
    IN grow[n]

\* A path is a shortest chain of relations that may be used, and there is none
\* only if the tables are not connected.
PathIsShortest(rels, allowed, src, dst) ==
    LET used == ToSet(Relations(rels, allowed, ""))
        pairs == {<<r.from, r.to>> : r \in used} \cup {<<r.to, r.from>> : r \in used}
        near(n) == Ball(src, pairs, n)
        p == JoinPath(rels, allowed, src, dst)
        n == Len(p.path)
        at[i \in 0..n] == IF i = 0 THEN src ELSE Other(p.path[i], at[i - 1])
    IN IF ~p.ok THEN {src, dst} \subseteq allowed => dst \notin near(Cardinality(allowed))
       ELSE /\ ToSet(p.path) \subseteq used /\ at[n] = dst
            /\ \A i \in 1..n : at[i - 1] \in {p.path[i].from, p.path[i].to}
            /\ n > 0 => dst \notin near(n - 1)

\* A trace shows the calls of the symbols within its hops, each once.
TraceIsComplete(edges, start, hops) ==
    LET pairs == {<<e.from, e.to>> : e \in {x \in ToSet(edges) : x.to # 0}}
        path == Trace(edges, start, hops)
    IN hops > 0 =>
       LET within == Where(edges, LAMBDA e : e.from \in Ball(start, pairs, hops - 1))
       IN /\ ToSet(path) = ToSet(within)
          /\ Len(path) = Len(within)

\* The tables chosen are allowed and differ, and one that is left out has no better
\* score, before any boost, than one chosen.  What is shown with scores are those
\* tables, each boosted at most once: it comes after the choice and changes the
\* order only.  The tables recalled have different names.
TablesAreBest(tables, artifacts, allowed) ==
    LET names == KbTables(tables, allowed)
        shown == Finalized(tables, artifacts, allowed)
        best(t) == {tables[i].score : i \in {j \in DOMAIN tables : tables[j].table = t}}
    IN /\ ToSet(names) \subseteq allowed /\ IsInjective(names) /\ Len(names) <= MaxTables
       /\ \A i \in DOMAIN tables : tables[i].table \in allowed \ ToSet(names) =>
            /\ Len(names) = MaxTables
            /\ \A n \in ToSet(names) : \E s \in best(n) : \A r \in best(tables[i].table) : r <= s
       /\ \A k \in DOMAIN shown :
            /\ shown[k].table \in ToSet(names)
            /\ \E s \in best(shown[k].table) : shown[k].score = s + Boost(shown[k].table, artifacts)
       /\ (\A i, j \in DOMAIN tables : tables[i].table = tables[j].table => i = j) =>
            ToSet(names) = {shown[k].table : k \in DOMAIN shown}
       /\ artifacts # {} => \A i, j \in DOMAIN shown : i < j => shown[i].score >= shown[j].score

\* The columns of an active table are its own, and none that must be there makes
\* way for one that need not.  Of any other table nothing but what was recalled is
\* shown, and no limit holds.
ColumnsFit(active, cols, keys, recalled) ==
    LET shown == PromptColumns(active, cols, keys, recalled)
        names == {cols[i].name : i \in DOMAIN cols}
        musts == {cols[i].name : i \in {j \in DOMAIN cols : cols[j].must \/ cols[j].name \in keys}}
    IN IF ~active THEN ToSet(shown) \subseteq ToSet(recalled)
       ELSE /\ IsInjective(shown) /\ ToSet(shown) \subseteq names /\ Len(shown) <= MaxColumns
            /\ Len(shown) = MaxColumns \/ ToSet(shown) = names
            /\ musts \subseteq ToSet(shown) \/ ToSet(shown) \subseteq musts

\* The examples are those the user may see, and no better one is left out.
ExamplesAreBest(examples, role, allowed) ==
    LET shown == Examples(examples, role, allowed)
    IN /\ \A i \in DOMAIN shown : Fits(shown[i], role, allowed)
       /\ \A e \in ToSet(examples) \ ToSet(shown) :
            Fits(e, role, allowed) => /\ Len(shown) = MaxExamples
                                      /\ \A i \in DOMAIN shown : Better(shown[i], e)

\* The observations keep to their length; the description of a candidate is cut
\* short only for those of candidates named before it, or its own length.
ObservationsFit(obs, candidates) ==
    LET lines == Lines(obs, candidates)
        used[n \in 0..Len(lines)] == IF n = 0 THEN HeaderChars ELSE used[n - 1] + lines[n].length + 1
    IN /\ used[Len(lines)] <= MaxChars
       /\ \A i \in DOMAIN lines, o \in ToSet(obs) :
            Describes(o) /\ Place(o, candidates) < 999 /\ candidates # <<>>
            /\ ~Describes(lines[i].of) =>
            Cardinality({j \in DOMAIN lines : lines[j].of = o}) >= Len(o.lengths)

=============================================================================
