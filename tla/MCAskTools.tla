----------------------------- MODULE MCAskTools -----------------------------
(* Plans, recalls and answers for the tool loop of AskTools, and inputs for    *)
(* the helpers.                                                              *)
EXTENDS AskTools, TLC

MCNeeds == {<<>>, <<"describe_table">>, <<"list_relations", "describe_table">>,
            <<"get_join_path", "search_metrics", "run_probe_sql">>,
            <<"search_metrics", "ask_user_question">>}
MCPlans == [needs : MCNeeds, tables : {<<>>, <<"b", "", "a">>, <<"d">>}]
MCRecalls == {<<>>, <<"a">>, <<"a", "", "b", "a", "c">>}
MCAnswers ==
    [tool : {"describe_table", "list_relations"}, words : {{}, {"a"}, {"b"}, {"d"}}]
    \cup [tool : {"get_join_path"}, words : {{}, {"a"}, {"a", "b"}, {"b", "c"}}]
    \cup [tool : {"search_metrics", "run_probe_sql"}, words : {{}, {"q1"}, {"q2"}}]

Upto3(S) == UNION {[1..n -> S] : n \in 0..3}
Upto2(S) == UNION {[1..n -> S] : n \in 0..2}

-----------------------------------------------------------------------------
(* SqlGate: tables "a" and "b" with a school, "a" with a class as well; "d" is  *)
(* disabled, "x" not registered                                              *)

MCColumns == [t \in {"a", "b", "d"} |-> IF t = "a" THEN {"s", "k", "n", "h"} ELSE {"s", "m"}]
MCHidden == {<<"a", "h">>}
MCBindings ==
    {[table |-> t, dim |-> "school", col |-> "s"] : t \in {"a", "b", "d", "x"}}
    \cup {[table |-> t, dim |-> "class", col |-> "k"] : t \in {"a", "b"}}

In(values) == [op |-> "in", values |-> values]
MCGrants ==
    {[d \in {} |-> {}], [d \in {"school"} |-> [op |-> "all", values |-> {}]],
     [d \in {"school"} |-> In({})], [d \in {"school"} |-> In({1, 2})],
     [d \in {"school", "class"} |-> IF d = "school" THEN In({1, 2}) ELSE In({7})]}
MCActive == {[d \in {} |-> 0], [d \in {"school"} |-> 1], [d \in {"school"} |-> 9]}
Users == [role : {"ADMIN", "OPERATOR", "SCHOOL"}, tables : {{}, {"a"}, {"a", "b"}, {"x"}, {"a", "x"}},
          grants : MCGrants, active : MCActive, denied : {{}}]
SomeUsers == [role : {"ADMIN", "OPERATOR"}, tables : {{"a"}, {"a", "b"}},
              grants : {[d \in {} |-> {}]}, active : {[d \in {} |-> 0]},
              denied : {{}, {<<"a", "n">>}, {<<"b", "m">>, <<"a", "s">>}}]

Node(name, alias) == [name |-> name, alias |-> alias, plain |-> TRUE, outer |-> TRUE]
Inner(name, alias) == [Node(name, alias) EXCEPT !.outer = FALSE]
Comma(name, alias) == [Node(name, alias) EXCEPT !.plain = FALSE]
Single == {<<>>, <<Node("a", "")>>, <<Node("a", "x")>>, <<Node("x", "")>>, <<Node("d", "")>>}
Several == {<<Node("a", "x"), Node("b", "y")>>, <<Node("a", ""), Comma("b", "")>>,
            <<Node("a", "x"), Node("a", "y")>>, <<Node("b", "x"), Inner("a", "x")>>,
            <<Node("b", "a"), Node("a", "b")>>, <<Node("c", ""), Inner("a", "")>>,
            <<Node("a", ""), Inner("a", "x")>>}
Lit(ref, col, val, filter) == [ref |-> ref, col |-> col, val |-> val, filter |-> filter]
Lits == {{}, {Lit("", "s", 1, TRUE)}, {Lit("", "s", 9, FALSE)}, {Lit("x", "s", 2, TRUE)}, {Lit("x", "s", 9, TRUE)},
         {Lit("x", "s", 1, FALSE)}, {Lit("y", "s", 1, TRUE)}, {Lit("a", "k", 7, TRUE)},
         {Lit("a", "s", 1, TRUE), Lit("b", "s", 2, TRUE)}}
NoLimit == [is |-> "none", n |-> 0]
Queries == [kind : {"select"}, froms : Single \cup Several, ctes : {{}, {"c"}}, outputs : {{}},
            cols : {{}}, lits : Lits, either : BOOLEAN, limit : {NoLimit}]
ColumnQueries ==
    [kind : {"select", "dml"}, froms : Single \cup Several, ctes : {{}, {"c"}, {"a"}, {"d"}},
     outputs : {{}, {"n"}}, lits : {{}}, either : {FALSE}, limit : {NoLimit},
     cols : {{<<r, c>>} : r \in {"", "a", "x", "y"}, c \in {"n", "m", "h", "s", "*"}}]
LimitQueries ==
    [kind : {"select"}, froms : {<<Node("a", "")>>}, ctes : {{}}, outputs : {{}}, cols : {{}},
     lits : {{}}, either : {FALSE},
     limit : [is : {"none", "other"}, n : {0}] \cup [is : {"number", "fetch"}, n : {0, 2, 3, 4, 9}]]
LimitGates == [kind : {"gate"}, q : LimitQueries, u : {CHOOSE u \in Users : TRUE}, found : {0, 2, 3, 4, 5}]
MCGates == [kind : {"gate"}, q : Queries, u : Users, found : {0}]
         \cup [kind : {"gate"}, q : ColumnQueries, u : SomeUsers, found : {0}]
         \cup LimitGates

-----------------------------------------------------------------------------
(* ResultAssembly                                                            *)

MCKeyRank == [w \in {"date", "class"} |-> IF w = "date" THEN 1 ELSE 2]
MCDateRank == [w \in {"date", "day"} |-> IF w = "date" THEN 1 ELSE 2]

Table(words, rows) == [cols |-> [i \in DOMAIN words |-> <<words[i]>>], rows |-> rows]
Days == {<<d, v>> : d \in {"d1", "d2"}, v \in {"1", "2"}}
Pairs == {Table(w, rs) : w \in {<<"date", "n">>, <<"date", "m">>, <<"day", "n">>}, rs \in Upto2(Days)}
Triples == {Table(<<"class", "date", "n">>, rs) :
                rs \in Upto2({<<c, d, v>> : c \in {"d1", "none"}, d \in {"d1", "d2"}, v \in {"1", "x"}})}
Longs == {Table(<<"class", "date", "n">>, rs) :
                rs \in Upto3({<<c, d, v>> : c \in {"none", "empty"}, d \in {"d1", "d2"}, v \in {"1", "2"}})}
Step(label, t) == [label |-> label, table |-> t, hint |-> ""]
Threes == {<<Step("A", r), Step("B", s), Step(l, t)>> :
             r \in {Table(<<"date", "n">>, rs) : rs \in Upto2({<<"d1", "1">>, <<"d2", "2">>})},
             s \in {Table(w, rs) : w \in {<<"date", "n">>, <<"day", "n">>},
                                  rs \in Upto2({<<"d1", "2">>, <<"d2", "1">>})},
             l \in {"B", "C"},
             t \in {Table(<<"date", "n">>, rs) : rs \in Upto2({<<"d2", "1">>, <<"d3", "2">>})}}
Twos == {<<Step("A", r), [Step("B", s) EXCEPT !.hint = h]>> :
             r \in {t \in Pairs : Len(t.rows) < 2}, s \in Triples, h \in {"", "class"}}
Plans_ == [byDate : BOOLEAN, wanted : {"date"}, hint : {"", "date"}]
Comparisons == [kind : {"steps"}, steps : Threes, plan : {p \in Plans_ : p.byDate}]
MCAssemblies == [kind : {"join"}, l : Pairs, r : Pairs \cup Triples]
              \cup [kind : {"join"}, l : Triples, r : Pairs]
              \cup [kind : {"pivot"}, t : Longs, hint : {"class", "date", "n"}]
              \cup [kind : {"steps"}, steps : Threes \cup Twos \cup {<<>>}, plan : Plans_]

-----------------------------------------------------------------------------
(* PromptContext                                                             *)

Related == {<<"a", "b">>, <<"b", "c">>, <<"a", "c">>, <<"c", "d">>, <<"d", "a">>}
MCRelations == {[from |-> p[1], to |-> p[2], on |-> on] : p \in Related, on \in BOOLEAN}
Ons == {r \in MCRelations : r.on}
Edges == [from : {1, 2, 3}, to : 0..3]
Recalled == [table : {"a", "b", "c"}, score : {10, 20}]
Cols == {[i \in 1..4 |-> [name |-> <<"j", "k", "m", "n">>[i], must |-> i \in S]] : S \in SUBSET (1..4)}
Plain == [id : {1}, priority : {1, 2}, score : {0, 1, 2}, draft : {FALSE}, unreviewed : {FALSE},
          adminOnly : {FALSE}, role : {"", "ADMIN"}, tables : {{}, {"a"}, {"z"}}]
Marked == {x \in [id : {1}, priority : {1}, score : {3}, draft : BOOLEAN, unreviewed : BOOLEAN,
                  adminOnly : BOOLEAN, role : {""}, tables : {{}}] : x.draft \/ x.unreviewed \/ x.adminOnly}
Candidates == Plain \cup Marked
Observed == [tool : {"describe_table", "search_metrics"}, table : {"a", "b", "c"},
             lengths : {<<3>>, <<2, 5>>}]
MCPrompts ==
    [kind : {"path"}, rels : Upto3(MCRelations) \cup [1..4 -> Ons],
     allowed : {{"a", "b", "c", "d"}}, to : {"c", "d"}]
    \cup [kind : {"path"}, rels : Upto2(MCRelations), allowed : {{"a", "b"}}, to : {"a", "b", "c"}]
    \cup [kind : {"trace"}, edges : Upto3(Edges), hops : {1, 2}]
    \cup [kind : {"tables"}, tables : Upto3(Recalled), artifacts : {{}, {"a"}, {"a", "b"}},
          allowed : {{"a", "b"}, {"a", "b", "c"}}]
    \cup [kind : {"columns"}, active : BOOLEAN, cols : Cols, keys : {{}, {"m"}, {"j", "n"}},
          recalled : {<<>>, <<"k", "k">>, <<"n", "z", "j">>}]
    \cup [kind : {"examples"}, examples : {<<x, [y EXCEPT !.id = 2]>> : x \in Candidates, y \in Candidates},
          role : {"ADMIN", "SCHOOL"}, allowed : {{}, {"a"}}]
    \cup [kind : {"observations"}, obs : Upto3(Observed), candidates : {<<>>, <<"b", "a">>}]

-----------------------------------------------------------------------------
(* PlanShape                                                                 *)

MCHubRank == [t \in {"a", "b", "c", "d"} |-> IF t = "d" THEN 10 ELSE 0]
Ties == {<<"a", "c">>, <<"b", "c">>, <<"a", "d">>, <<"b", "d">>, <<"a", "b">>, <<"c", "c">>, <<"d", "c">>}
Marks == {[on |-> TRUE, many |-> TRUE], [on |-> TRUE, many |-> FALSE], [on |-> FALSE, many |-> TRUE]}
MCTies == {[from |-> p[1], to |-> p[2], on |-> x.on, many |-> x.many] : p \in Ties, x \in Marks}
Raw(marks) == [failed : {FALSE}, complexity : {"low", "high", "other"}, multi : BOOLEAN,
               steps : marks, ready : BOOLEAN, unclear : BOOLEAN, branches : {FALSE}]
Raws == Raw(UNION {[1..n -> {"sql", "plain", "odd"}] : n \in 0..4})
PlainRaw == {[failed |-> FALSE, complexity |-> "low", multi |-> TRUE, steps |-> <<"sql", "sql">>,
              ready |-> TRUE, unclear |-> FALSE, branches |-> FALSE]}
MeetAtC == <<[from |-> "a", to |-> "c", on |-> TRUE, many |-> TRUE],
             [from |-> "b", to |-> "c", on |-> TRUE, many |-> TRUE]>>
MCShapes ==
    [kind : {"shape"}, raw : PlainRaw, rels : Upto3(MCTies) \cup [1..4 -> {r \in MCTies : r.on /\ r.many}],
     recalled : {{"a", "b"}, {"a", "b", "c", "d"}}, mentioned : {<<>>, <<<<"d", "c">>, <<"b", "d">>, <<"b", "c">>>>}]
    \cup [kind : {"shape"}, raw : Raws \cup {[r EXCEPT !.failed = TRUE] : r \in PlainRaw},
          rels : {<<>>, MeetAtC}, recalled : {{"a"}, {"a", "b"}}, mentioned : {<<>>}]

=============================================================================
