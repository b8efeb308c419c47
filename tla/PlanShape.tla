------------------------------ MODULE PlanShape -------------------------------
(***************************************************************************)
(* The shape of a plan: what is made of the model's answer                 *)
(* (agent/plan_llm.py), whether tables that meet only at a common table    *)
(* force branches of one statement (agent/plan_analyzer.py), and which     *)
(* plans need no agent (agent/plan_nodes.py).                              *)
(***************************************************************************)
EXTENDS Integers, FiniteSets, Sequences, Lists

CONSTANTS
    MaxPlanSteps,   \* steps of a plan: 6
    HubRank         \* _hub_tiebreaker, by table

ASSUME PlanShapeAssumption ==
    /\ MaxPlanSteps \in Nat \ {0}
    /\ \A t \in DOMAIN HubRank : HubRank[t] \in Nat

-----------------------------------------------------------------------------
(* The plan: [complexity, multi, steps, ready, branches].  Its steps are    *)
(* told by their places in the answer of the model; a step is TRUE when it  *)
(* runs SQL of its own                                                      *)

\* _normalize_plan.  A step that is no object is skipped, after the cut.
Normalised(raw) ==
    LET kept == {i \in DOMAIN raw.steps : i <= MaxPlanSteps /\ raw.steps[i] # "odd"}
        steps == [i \in kept |-> raw.steps[i] = "sql"]
        few == Cardinality({i \in DOMAIN steps : steps[i]}) < 2
    IN [complexity |-> IF raw.complexity \in {"low", "medium"} THEN raw.complexity ELSE "high",
        multi |-> raw.multi,
        steps |-> IF raw.multi /\ few THEN [i \in DOMAIN steps |-> TRUE] ELSE steps,
        ready |-> raw.ready /\ ~raw.unclear,
        branches |-> raw.branches]

\* _fallback_plan: the model gave none.
FallbackPlan ==
    [complexity |-> "low", multi |-> FALSE, steps |-> <<FALSE>>, ready |-> TRUE, branches |-> FALSE]

\* get_sql_execution_steps, counted.
SqlSteps(plan) == Cardinality({i \in DOMAIN plan.steps : plan.steps[i]})

\* plan_requires_multi_sql.
RequiresMulti(plan) == plan.multi \/ SqlSteps(plan) >= 2

\* apply_plan_structure_analysis.  A plan without steps gets one.
Branched(plan) ==
    [plan EXCEPT !.branches = TRUE, !.multi = FALSE,
                 !.complexity = IF @ = "low" THEN "high" ELSE @,
                 !.steps = IF DOMAIN @ = {} THEN <<FALSE>> ELSE [i \in DOMAIN @ |-> FALSE]]

\* _should_skip_plan.
Skips(plan) == ~plan.branches /\ plan.complexity = "low" /\ ~RequiresMulti(plan)

-----------------------------------------------------------------------------
(* The structure: relations [from, to, on, many], many of "from" to one of  *)
(* "to"; "mentioned" are the links <<table, table>> the descriptions of the *)
(* columns speak of, in the order they are met                              *)

\* The links of the recalled tables to tables they may meet at, by their places:
\* the relations of many to one, then of each table the first link that is
\* mentioned to a table such a relation leads to.
Links(rels, recalled, mentioned) ==
    LET known == {i \in DOMAIN rels : rels[i].on /\ rels[i].many /\ rels[i].from \in recalled}
        meant == {i \in DOMAIN mentioned : /\ mentioned[i][1] \in recalled
                                           /\ \E k \in known : rels[k].to = mentioned[i][2]}
        first == {i \in meant : \A j \in meant : mentioned[j][1] = mentioned[i][1] => i <= j}
        all == [i \in DOMAIN rels |-> <<rels[i].from, rels[i].to>>] \o mentioned
    IN [i \in known \cup {Len(rels) + j : j \in first} |-> all[i]]

Weight(links, a) == Cardinality({p[1] : p \in {q \in ToSet(links) : q[2] = a}})
Heavier(links, a, b) == \/ Weight(links, a) > Weight(links, b)
                        \/ Weight(links, a) = Weight(links, b) /\ HubRank[a] > HubRank[b]

\* _resolve_branch_links: of several tables a source links to, the one most
\* link to, the first of equals.
Anchor(links, s) ==
    LET its == {i \in DOMAIN links : links[i][1] = s}
        best == CHOOSE i \in its : \A j \in its \ {i} :
                    \/ Heavier(links, links[i][2], links[j][2])
                    \/ ~Heavier(links, links[j][2], links[i][2]) /\ i < j
    IN links[best][2]

\* Mutant of Avoids: the common table itself counts as a connection.
AvoidsNothing(rels, anchor, s, t) ==
    LET next(S) == S \cup {u \in {r.from : r \in ToSet(rels)} \cup {r.to : r \in ToSet(rels)} :
                             \E r \in ToSet(rels), x \in S : r.on /\ {r.from, r.to} = {x, u}}
        reached[n \in 0..2 * Len(rels)] == IF n = 0 THEN {s} ELSE next(reached[n - 1])
    IN t \in reached[2 * Len(rels)]

\* _has_path_avoiding_anchor.
Avoids(rels, anchor, s, t) ==
    LET next(S) == S \cup {u \in {r.from : r \in ToSet(rels)} \cup {r.to : r \in ToSet(rels)} :
                             /\ u # anchor
                             /\ \E r \in ToSet(rels), x \in S : r.on /\ {r.from, r.to} = {x, u}}
        reached[n \in 0..2 * Len(rels)] == IF n = 0 THEN {s} ELSE next(reached[n - 1])
    IN anchor \notin {s, t} /\ t \in reached[2 * Len(rels)]

\* detect_multi_branch_aggregate: the first table at which two sources meet
\* that are not connected otherwise; no table, no split.
Split(rels, recalled, mentioned) ==
    LET links == Links(rels, recalled, mentioned)
        meet(i) == Anchor(links, links[i][1])
        at(a) == {s \in {p[1] : p \in ToSet(links)} : Anchor(links, s) = a}
        apart == {i \in DOMAIN links :
                    \E s, t \in at(meet(i)) : s # t /\ ~Avoids(rels, meet(i), s, t)}
        first == CHOOSE i \in apart : \A j \in apart : i <= j
    IN IF Cardinality(recalled) < 2 \/ apart = {} THEN [anchor |-> "", branches |-> {}]
       ELSE [anchor |-> meet(first), branches |-> at(meet(first))]

\* plan_question.
Planned(raw, rels, recalled, mentioned) ==
    LET plan == IF raw.failed THEN FallbackPlan ELSE Normalised(raw)
    IN IF Split(rels, recalled, mentioned).branches = {} THEN plan ELSE Branched(plan)

-----------------------------------------------------------------------------
(* What the shape promises                                                  *)

\* Some tables, s among them, that no relation ties to others, the anchor aside.
Separate(rels, anchor, s, t) ==
    LET tables == {r.from : r \in ToSet(rels)} \cup {r.to : r \in ToSet(rels)}
    IN \E C \in SUBSET (tables \ {anchor, t}) : \A r \in ToSet(rels) :
         /\ r.on
         /\ anchor \notin {r.from, r.to}
         /\ {r.from, r.to} \cap (C \cup {s}) # {}
         => {r.from, r.to} \subseteq C \cup {s}

\* A statement is split only where tables meet at a common one and at least two
\* of them meet nowhere else, a table that refers to itself aside; and it is
\* split when two tables meet at one only, and nowhere else.
SplitIsNeeded(rels, recalled, mentioned) ==
    LET found == Split(rels, recalled, mentioned)
        tied == ToSet(Links(rels, recalled, mentioned))
        only(s) == {p \in tied : p[1] = s}
    IN /\ found.branches # {} =>
            /\ \A s \in found.branches : <<s, found.anchor>> \in tied
            /\ \E s, t \in found.branches :
                 s # t /\ (found.anchor \in {s, t} \/ Separate(rels, found.anchor, s, t))
       /\ found.branches = {} =>
            \A s, t \in recalled, p \in tied :
                ~(/\ s # t /\ p[2] \notin {s, t} /\ Separate(rels, p[2], s, t)
                  /\ only(s) = {<<s, p[2]>>} /\ only(t) = {<<t, p[2]>>})

\* A split plan runs one statement, and never without the agent; a plan of
\* several statements that has two steps has two that run; a plan that skips the
\* agent runs one; a plan with open questions is not ready.
ShapeIsOne(raw, rels, recalled, mentioned) ==
    LET plan == Planned(raw, rels, recalled, mentioned)
        split == Split(rels, recalled, mentioned).branches # {}
    IN /\ split => /\ ~RequiresMulti(plan) /\ SqlSteps(plan) = 0 /\ DOMAIN plan.steps # {}
                   /\ ~Skips(plan)
       /\ plan.multi /\ Cardinality(DOMAIN plan.steps) >= 2 => SqlSteps(plan) >= 2
       /\ Skips(plan) => SqlSteps(plan) <= 1
       /\ raw.unclear /\ ~raw.failed => ~plan.ready
       /\ Cardinality(DOMAIN plan.steps) <= MaxPlanSteps

=============================================================================
