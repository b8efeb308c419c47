--------------------------- MODULE QueryPath_proofs ---------------------------
(***************************************************************************)
(* The path of a query, proved for any plan, user, table, binding, row and *)
(* administrator: the tool loop that looks for what the SQL needs calls    *)
(* nothing twice and keeps to the plan (ToolLoop), what a prompt shows is  *)
(* what it should (PromptContext), the plan has a shape that can run       *)
(* (PlanShape), the gate keeps of a user's scope what it can (SqlGate), the*)
(* results of several steps become one table (ResultAssembly), and what    *)
(* passed the gate runs on the configuration the administrators made the   *)
(* default (RuntimeConfig).                                                *)
(***************************************************************************)
EXTENDS AskTools, RuntimeConfig, FiniteSetTheorems, TLAPS

-----------------------------------------------------------------------------
(* Places                                                                    *)

\* Some place is the least.
LEMMA LeastIs ==
  ASSUME NEW S \in SUBSET Nat, S # {}
  PROVE  \E i \in S : \A j \in S : i <= j
<1>1. \E x \in S : \A y \in S : ~ (<<y, x>> \in OpToRel(<, Nat))
  BY NatLessThanWellFounded, WFMin
<1>2. PICK x \in S : \A y \in S : ~ (<<y, x>> \in OpToRel(<, Nat))
  BY <1>1
<1>3. \A y \in S : ~(y < x)
  BY <1>2 DEF OpToRel
<1>4. QED  BY <1>3

\* The first of some places in a list is one of them.
LEMMA Least ==
  ASSUME NEW S \in SUBSET Nat, S # {}
  PROVE  (CHOOSE i \in S : \A j \in S : i <= j) \in S
BY LeastIs

\* Some place in a list is the last.
LEMMA LastPlaceIs ==
  ASSUME NEW n \in Nat, NEW S \in SUBSET (1 .. n), S # {}
  PROVE  \E i \in S : \A j \in S : j <= i
<1> DEFINE R == {n - i : i \in S}
<1>1. R \in SUBSET Nat /\ R # {}
  <2>1. \A i \in S : n - i \in Nat
    <3> TAKE i \in S
    <3>1. i \in Nat /\ i <= n
      OBVIOUS
    <3>2. QED  BY <3>1
  <2>2. QED  BY <2>1
<1>2. PICK m \in R : \A r \in R : m <= r
  BY <1>1, LeastIs
<1>3. PICK i \in S : m = n - i
  BY <1>2
<1>4. \A j \in S : n - i <= n - j
  BY <1>2, <1>3
<1>5. QED  BY <1>3, <1>4

-----------------------------------------------------------------------------
(* The gate                                                                  *)

\* The table nodes of a query, each with a name.
HasNodes(q) ==
    q.froms \in Seq([name : STRING \ {""}, alias : STRING, plain : BOOLEAN, outer : BOOLEAN])

\* The nodes of a query have places and names.
LEMMA NodesAre ==
  ASSUME NEW q, HasNodes(q)
  PROVE  /\ Len(q.froms) \in Nat /\ DOMAIN q.froms = 1 .. Len(q.froms)
         /\ \A i \in DOMAIN q.froms : q.froms[i].name # ""
<1> DEFINE Node == [name : STRING \ {""}, alias : STRING, plain : BOOLEAN, outer : BOOLEAN]
           s == q.froms
<1>1. s \in Seq(Node)
  BY DEF HasNodes
<1>2. \A x \in Node : x.name # ""
  OBVIOUS
<1> HIDE DEF Node, s
<1>3. Len(s) \in Nat /\ DOMAIN s = 1 .. Len(s) /\ \A i \in DOMAIN s : s[i] \in Node
  BY <1>1
<1>4. QED  BY <1>2, <1>3 DEF s

\* load_data_grants: a dimension that restricts has values, the granted ones.
LEMMA GrantsRestrict ==
  ASSUME NEW u, NEW d \in DOMAIN Grants(u)
  PROVE  /\ d \in DOMAIN u.grants
         /\ Grants(u)[d] = u.grants[d].values
         /\ Grants(u)[d] # {}
  BY DEF Grants

\* What an injected condition lets through is granted: the school chosen is, or
\* load_effective_policy had refused the question.
LEMMA InScopeIsGranted ==
  ASSUME NEW u, NEW d \in DOMAIN Grants(u), u.role # "ADMIN", ~Refused(u)
  PROVE  /\ InScope(u, d) # {}
         /\ InScope(u, d) \subseteq Grants(u)[d]
         /\ d \in DOMAIN u.active => InScope(u, d) = {u.active[d]}
<1>1. CASE d \in DOMAIN u.active
  <2>1. u.active[d] \in Grants(u)[d]
    BY <1>1 DEF Refused
  <2>2. QED  BY <1>1, <2>1 DEF InScope
<1>2. CASE d \notin DOMAIN u.active
  BY <1>2, GrantsRestrict DEF InScope
<1>3. QED  BY <1>1, <1>2

\* _build_alias_map: the name of a node, where no other table has it, is its table's.
LEMMA ClearIsResolved ==
  ASSUME NEW q, HasNodes(q), NEW i \in DOMAIN q.froms, Clear(q, i)
  PROVE  Resolve(q, Visible(q.froms[i])) = q.froms[i].name
<1> DEFINE ref == Visible(q.froms[i])
           is == {j \in DOMAIN q.froms : ref \in {q.froms[j].alias, q.froms[j].name}}
           n == Len(q.froms)
<1>1. n \in Nat /\ is \in SUBSET (1 .. n)
  BY NodesAre
<1>2. q.froms[i].name # ""
  BY NodesAre
<1>3. ref # "" /\ i \in is
  BY <1>2 DEF Visible
<1>4. \A j \in is : q.froms[j].name = q.froms[i].name
  BY DEF Clear
<1>5. Resolve(q, ref) = IF ref = "" \/ is = {} THEN ref
                        ELSE q.froms[CHOOSE k \in is : \A j \in is : j <= k].name
  BY DEF Resolve
<1> HIDE DEF ref, is, n
<1>6. (CHOOSE k \in is : \A j \in is : j <= k) \in is
  BY <1>1, <1>3, LastPlaceIs
<1>7. Resolve(q, ref) = q.froms[i].name
  BY <1>3, <1>4, <1>5, <1>6
<1>8. QED  BY <1>7 DEF ref

\* So is what a reference to it, or one without a table, is taken for.
LEMMA MeaningIsResolved ==
  ASSUME NEW q, HasNodes(q), NEW i \in DOMAIN q.froms, Clear(q, i), NEW ref, Means(q, i, ref)
  PROVE  ref = "" \/ Resolve(q, ref) = q.froms[i].name
BY ClearIsResolved DEF Means

\* So its table is one of the map.
LEMMA ClearIsMapped ==
  ASSUME NEW q, HasNodes(q), NEW i \in DOMAIN q.froms, Clear(q, i)
  PROVE  q.froms[i].name \in Mapped(q)
<1> DEFINE refs == UNION {{q.froms[j].alias, q.froms[j].name} : j \in DOMAIN q.froms}
<1>1. Visible(q.froms[i]) \in {q.froms[i].alias, q.froms[i].name} \ {""}
  <2>1. q.froms[i].name # ""
    BY NodesAre
  <2>2. QED  BY <2>1 DEF Visible
<1>2. Visible(q.froms[i]) \in refs \ {""}
  BY <1>1
<1>3. Mapped(q) = {Resolve(q, ref) : ref \in refs \ {""}}
  BY DEF Mapped
<1> HIDE DEF refs
<1>4. QED  BY <1>2, <1>3, ClearIsResolved

\* The first node of a table is the one no other of the table comes before.
LEMMA FirstIsFirst ==
  ASSUME NEW q, HasNodes(q), NEW i \in DOMAIN q.froms,
         \A j \in DOMAIN q.froms : q.froms[j].name = q.froms[i].name => i <= j
  PROVE  FirstOf(q, q.froms[i].name) = i
<1> DEFINE is == {j \in DOMAIN q.froms : q.froms[j].name = q.froms[i].name}
<1>1. is \in SUBSET Nat /\ i \in is /\ \A j \in is : i <= j
  <2>1. Len(q.froms) \in Nat /\ DOMAIN q.froms = 1 .. Len(q.froms)
    BY NodesAre
  <2>2. DOMAIN q.froms \subseteq Nat
    BY ONLY <2>1
  <2>3. QED  BY <2>2
<1>2. FirstOf(q, q.froms[i].name) = CHOOSE k \in is : \A j \in is : k <= j
  BY DEF FirstOf
<1> HIDE DEF is
<1>3. \A k \in is : (\A j \in is : k <= j) => k = i
  <2> SUFFICES ASSUME NEW k \in is, \A j \in is : k <= j PROVE k = i
    OBVIOUS
  <2>1. k \in Nat /\ i \in Nat /\ k <= i /\ i <= k
    BY <1>1
  <2>2. QED  BY <2>1
<1>4. QED  BY <1>1, <1>2, <1>3

\* validate_sql: every name of a query that passed, but for those of its WITH, is a
\* table its user may read.
LEMMA TablesAreKept ==
  ASSUME NEW q, NEW u, Executes(q, u)
  PROVE  TablesKept(q, u)
<1>1. Tables(q) \subseteq Allowed(u)
  BY DEF Executes, Valid
<1>2. Allowed(u) \subseteq Registered
  BY DEF Allowed
<1>3. u.role # "ADMIN" /\ u.tables # {} => Allowed(u) \subseteq u.tables
  BY DEF Allowed
<1>4. \A i \in DOMAIN q.froms : q.froms[i].name \notin q.ctes => q.froms[i].name \in Tables(q)
  BY DEF Tables, AllNames
<1>5. QED  BY <1>1, <1>2, <1>3, <1>4 DEF TablesKept

\* validate_sql_columns, validate_denied_columns_sql: a reference that is tested, to
\* a node with a clear name, is to a column the user may ask for.
LEMMA ColumnsAreKept ==
  ASSUME NEW q, HasNodes(q), NEW u, Executes(q, u)
  PROVE  ColumnsKept(q, u)
<1> SUFFICES ASSUME NEW i \in DOMAIN q.froms, NEW c \in q.cols,
                    Clear(q, i), Means(q, i, c[1]), c[2] \notin q.outputs, c[2] # "*"
             PROVE  /\ <<q.froms[i].name, c[2]>> \notin u.denied
                    /\ c[1] # "" /\ q.froms[i].name \in Known(q) => c[2] \in Askable(q.froms[i].name)
  BY DEF ColumnsKept
<1>1. c \in Tested(q)
  BY DEF Tested
<1>2. c[1] = "" \/ Resolve(q, c[1]) = q.froms[i].name
  BY MeaningIsResolved
<1>3. q.froms[i].name \in Mapped(q)
  BY ClearIsMapped
<1>4. ~ColumnsDenied(q, u) /\ ColumnsExist(q)
  BY DEF Executes, Valid
<1>5. ASSUME NEW d \in u.denied, d = <<q.froms[i].name, c[2]>> PROVE FALSE
  <2>1. c[2] = d[2] /\ d[1] = q.froms[i].name
    BY <1>5
  <2>2. d[1] \in (IF c[1] = "" THEN Mapped(q) ELSE {Resolve(q, c[1])})
    BY <1>2, <1>3, <2>1
  <2>3. QED  BY <1>1, <1>4, <2>1, <2>2 DEF ColumnsDenied
<1>6. ASSUME c[1] # "", q.froms[i].name \in Known(q) PROVE c[2] \in Askable(q.froms[i].name)
  BY <1>1, <1>2, <1>3, <1>4, <1>6 DEF ColumnsExist
<1>7. QED  BY <1>5, <1>6

\* validate_scope_literals, apply_scope_to_sql: the literals of a bound column are
\* granted, and so is what the first node of its table shows under a condition or
\* under literals that filter.
LEMMA ValuesAreKept ==
  ASSUME NEW q, HasNodes(q), NEW u, Executes(q, u)
  PROVE  ValuesKept(q, u)
<1> SUFFICES ASSUME NEW b \in Bindings, NEW i \in DOMAIN q.froms,
                    u.role # "ADMIN", b.dim \in DOMAIN Grants(u), q.froms[i].name = b.table, Clear(q, i)
             PROVE  /\ \A l \in q.lits : l.col = b.col /\ Means(q, i, l.ref) => l.val \in Grants(u)[b.dim]
                    /\ /\ q.froms[i].outer /\ ~q.either
                       /\ b.table \notin q.ctes
                       /\ \A j \in DOMAIN q.froms : q.froms[j].name = b.table => i <= j
                       /\ Literals(q, b) \subseteq Filters(q, i, b)
                       => /\ Seen(q, u, i, b) # {} /\ Seen(q, u, i, b) \subseteq Grants(u)[b.dim]
                          /\ Filters(q, i, b) = {} /\ b.dim \in DOMAIN u.active =>
                                Seen(q, u, i, b) = {u.active[b.dim]}
  BY DEF ValuesKept
<1>1. b \in Restricting(q, u)
  BY DEF Restricting, AllNames
<1>2. \A l \in Literals(q, b) : l.val \in Grants(u)[b.dim]
  BY <1>1 DEF Executes, LiteralsGranted
<1>3. \A l \in q.lits : l.col = b.col /\ Means(q, i, l.ref) => l \in Literals(q, b)
  BY MeaningIsResolved DEF Literals
<1>4. ASSUME \A j \in DOMAIN q.froms : q.froms[j].name = b.table => i <= j,
             Literals(q, b) \subseteq Filters(q, i, b)
      PROVE  /\ Seen(q, u, i, b) # {} /\ Seen(q, u, i, b) \subseteq Grants(u)[b.dim]
             /\ Filters(q, i, b) = {} /\ b.dim \in DOMAIN u.active =>
                   Seen(q, u, i, b) = {u.active[b.dim]}
  <2>1. Literals(q, b) = Filters(q, i, b)
    BY <1>3, <1>4 DEF Filters
  <2>2. CASE Literals(q, b) = {}
    <3> DEFINE added == [ref |-> Visible(q.froms[FirstOf(q, b.table)]), of |-> b, values |-> InScope(u, b.dim)]
    <3>1. FirstOf(q, b.table) = i
      BY <1>4, FirstIsFirst
    <3>2. added \in Conditions(q, u)
      BY <1>1, <2>2 DEF Conditions
    <3>3. added.of = b /\ added.ref = Visible(q.froms[i]) /\ added.values = InScope(u, b.dim)
      BY <3>1
    <3>4. \A c \in Conditions(q, u) : c.of = b => c.values = InScope(u, b.dim)
      BY DEF Conditions
    <3> HIDE DEF added
    <3>5. added \in Conditioned(q, u, i, b)
      BY <3>2, <3>3 DEF Conditioned
    <3>6. \A c \in Conditioned(q, u, i, b) : c.values = InScope(u, b.dim)
      BY <3>4 DEF Conditioned
    <3>7. Seen(q, u, i, b) = InScope(u, b.dim)
      BY <3>5, <3>6 DEF Seen
    <3>8. ~Refused(u)
      BY DEF Executes
    <3>9. QED  BY <3>7, <3>8, InScopeIsGranted
  <2>3. CASE Literals(q, b) # {}
    <3>1. Conditioned(q, u, i, b) = {}
      BY <2>3 DEF Conditioned, Conditions
    <3>2. Seen(q, u, i, b) = {l.val : l \in Filters(q, i, b)}
      BY <3>1 DEF Seen
    <3>3. QED  BY <1>2, <2>1, <2>3, <3>2
  <2>4. QED  BY <2>2, <2>3
<1>5. QED  BY <1>2, <1>3, <1>4

\* What a query that passes the gate keeps of the scope of its user, and no more:
\* the names that are tested, the references that are clear, the first node of a
\* bound table under a condition or under literals that filter.
THEOREM GateKeepsScope ==
  ASSUME NEW q, HasNodes(q), NEW u
  PROVE  ScopeKept(q, u)
BY TablesAreKept, ColumnsAreKept, ValuesAreKept DEF ScopeKept

\* Under the default denial a query that passes was asked by a user with a table,
\* and by a school with a school.
THEOREM GateKeepsDenial ==
  ASSUME NEW q, NEW u
  PROVE  DenialKept(q, u)
<1>1. SUFFICES ASSUME Executes(q, u), DefaultDeny, u.role # "ADMIN"
               PROVE  /\ u.tables \cap Registered # {}
                      /\ u.role = "SCHOOL" => u.grants["school"].values # {}
  BY DEF DenialKept
<1>2. ~Refused(u)
  BY <1>1 DEF Executes
<1>3. u.tables \cap Registered # {}
  BY <1>1, <1>2 DEF Refused, Allowed
<1>4. ASSUME u.role = "SCHOOL"
      PROVE  u.grants["school"].values # {}
  <2>1. "school" \in DOMAIN Grants(u)
    BY <1>1, <1>2, <1>4 DEF Refused
  <2>2. QED  BY <2>1, GrantsRestrict
<1>5. QED  BY <1>3, <1>4

\* resolve_sql_max_rows and fetchmany: what is fetched is what the statement has, up
\* to the limits, and only a FETCH can make it one row too many.
THEOREM RowsAreBounded ==
  ASSUME NEW q, q.limit.n \in Nat, NEW found \in Nat
  PROVE  /\ Bounded(q, found) /\ Fetched(q, found) <= MaxRows + 1
         /\ q.limit.is # "fetch" => ~TooManyRows(q, found)
<1> DEFINE n == q.limit.n
           L == Limited(q)
           F == Fetched(q, found)
           own == IF q.limit.is \in {"number", "fetch"} THEN n ELSE MaxRows
<1>1. MaxRows \in Nat /\ n \in Nat
  BY SqlGateAssumption
<1>2. /\ L = IF q.limit.is = "fetch" THEN n ELSE Fewer(own, MaxRows)
      /\ L \in Nat /\ own \in Nat
  BY <1>1 DEF Limited, Fewer
<1>3. F = Fewer(Fewer(found, L), MaxRows + 1)
  BY DEF Fetched
<1>4. Bounded(q, found) <=> IF F > MaxRows THEN q.limit.is = "fetch" /\ n > MaxRows
                            ELSE F = Fewer(Fewer(found, MaxRows), own)
  BY DEF Bounded, TooManyRows
<1>5. TooManyRows(q, found) <=> F > MaxRows
  BY DEF TooManyRows
<1>6. q.limit.is = "fetch" => own = n
  OBVIOUS
<1> HIDE DEF L, F, own, n
<1>7. CASE q.limit.is = "fetch"
  BY <1>1, <1>2, <1>3, <1>4, <1>6, <1>7 DEF Fewer, F
<1>8. CASE q.limit.is # "fetch"
  BY <1>1, <1>2, <1>3, <1>4, <1>5, <1>8 DEF Fewer, F
<1>9. QED  BY <1>7, <1>8

-----------------------------------------------------------------------------
(* The tool loop                                                             *)

\* obs is a list of observations, one a step.
Observed(o, n) == o \in Seq({o[i] : i \in DOMAIN o}) /\ Len(o) = n

\* The question to the user is the last observation there is.
LoopInv ==
    /\ needs \in Seq(STRING) /\ DOMAIN targets \subseteq Nat
    /\ limit \in Nat /\ steps \in Nat
    /\ Observed(obs, steps)
    /\ done = "no" => \A i \in DOMAIN obs : obs[i] # Ask
    /\ EachCallOnce /\ PlanIsFollowed

\* What a call is: the words never change which tool it is of, and no tool of
\* a plan is the end of the loop.
LEMMA CallsOfTools ==
  ASSUME NEW tool, NEW o
  PROVE  /\ DefaultCall(tool, o).tool = tool
         /\ DefaultCall(tool, o) # Finish
         /\ tool = Ask.tool => DefaultCall(tool, o) = Ask
<1>1. DefaultCall(tool, o) = [tool |-> tool, words |-> DefaultWords(tool, o)]
  BY DEF DefaultCall, Call
<1>2. tool \in {"finish", "ask_user_question"} => DefaultWords(tool, o) = {}
  BY DEF DefaultWords, Searches
<1>3. Finish = [tool |-> "finish", words |-> {"loop"}] /\ Ask = [tool |-> "ask_user_question", words |-> {}]
  BY DEF Finish, Ask, Call
<1>4. QED  BY <1>1, <1>2, <1>3

\* _fallback_action: the tool it takes is in the plan, open, and called with
\* words that are not a call made before; an open plan always has one.
LEMMA FallbackIsOpen ==
  ASSUME needs \in Seq(STRING), DOMAIN targets \subseteq Nat
  PROVE  /\ \/ Fallback(obs) = Finish
            \/ \E i \in DOMAIN needs : /\ Fallback(obs) = DefaultCall(needs[i], obs)
                                       /\ ~ToolDone(needs[i], obs)
                                       /\ ~IsDuplicate(Fallback(obs), obs)
         /\ needs # <<>> /\ ~NeedsComplete(obs) => Fallback(obs) # Finish
<1> DEFINE is == {i \in DOMAIN needs : ~ToolDone(needs[i], obs) /\ ~IsDuplicate(DefaultCall(needs[i], obs), obs)}
<1>1. CASE is = {}
  <2>1. Fallback(obs) = Finish
    BY <1>1 DEF Fallback, First
  <2>2. ASSUME needs # <<>>, ~NeedsComplete(obs) PROVE FALSE
    <3>1. PICK i \in DOMAIN needs : ~ToolDone(needs[i], obs)
      BY <2>2 DEF NeedsComplete
    <3> DEFINE t == needs[i]
    <3>2. IsDuplicate(DefaultCall(t, obs), obs)
      BY <1>1, <3>1
    <3>3. PICK j \in DOMAIN obs : obs[j] = DefaultCall(t, obs)
      BY <3>2 DEF IsDuplicate
    <3>4. obs[j].tool = t
      BY <3>3, CallsOfTools
    <3>5. CASE t # "describe_table"
      BY <3>1, <3>4, <3>5 DEF ToolDone
    <3>6. CASE t = "describe_table"
      <4> DEFINE untried == {k \in DOMAIN targets : targets[k] \notin Tried(t, obs)}
                 first == CHOOSE k \in untried : \A m \in untried : k <= m
      <4>0. DefaultWords(t, obs) = IF untried = {} THEN {} ELSE {targets[first]}
        <5>1. DefaultWords(t, obs) = First(targets, LAMBDA x : x \notin Tried(t, obs))
          <6>1. DefaultWords("describe_table", obs) = First(targets, LAMBDA x : x \notin Tried("describe_table", obs))
            BY DEF DefaultWords, Searches
          <6>2. QED  BY <3>6, <6>1
        <5>2. QED  BY <5>1 DEF First
      <4>1. CASE untried = {}
        <5>1. targets # <<>> => ToSet(targets) \subseteq Tried(t, obs)
          BY <3>6, <4>1 DEF ToSet
        <5>2. targets = <<>>
          BY <3>1, <3>6, <5>1 DEF ToolDone
        <5>3. DefaultCall(t, obs) = [tool |-> t, words |-> {}]
          BY <4>0, <4>1 DEF DefaultCall, Call
        <5>4. QED  BY <3>2, <3>6, <5>3 DEF IsDuplicate, Keyless, ByTable
      <4>2. CASE untried # {}
        <5>1. first \in untried
          <6>1. untried \in SUBSET Nat
            OBVIOUS
          <6> HIDE DEF untried
          <6>2. QED  BY <4>2, <6>1, Least
        <5>2. targets[first] \in Tried(t, obs)
          <6>1. obs[j].words = {targets[first]}
            BY <3>3, <4>0, <4>2 DEF DefaultCall, Call
          <6>2. QED  BY <3>4, <6>1 DEF Tried
        <5>3. QED  BY <3>6, <5>1, <5>2
      <4>3. QED  BY <4>1, <4>2
    <3>7. QED  BY <3>5, <3>6
  <2>3. QED  BY <2>1, <2>2
<1>2. CASE is # {}
  <2> DEFINE first == CHOOSE i \in is : \A j \in is : i <= j
  <2>1. Fallback(obs) = DefaultCall(CHOOSE tool \in {needs[first]} : TRUE, obs)
    BY <1>2 DEF Fallback, First
  <2>2. Fallback(obs) = DefaultCall(needs[first], obs)
    BY <2>1
  <2>3. first \in is
    <3>1. is \in SUBSET Nat
      OBVIOUS
    <3> HIDE DEF is
    <3>2. QED  BY <1>2, <3>1, Least
  <2>4. QED  BY <2>2, <2>3, CallsOfTools
<1>3. QED  BY <1>1, <1>2

\* decide_agent_action: what is done is the end, the question to the user, the
\* fallback, or a call of the tool the model named, which the plan needs and
\* which was not made before.
LEMMA Decided ==
  ASSUME needs \in Seq(STRING), DOMAIN targets \subseteq Nat,
         NEW answer \in Answers \cup {Finish, Ask, Unusable}
  PROVE  \/ Action(answer) = Finish /\ answer # Unusable
         \/ Action(answer) = Ask /\ answer = Ask
         \/ Action(answer) = Fallback(obs)
         \/ /\ answer \in Answers /\ Action(answer).tool = answer.tool
            /\ ~IsDuplicate(Action(answer), obs)
            /\ needs = <<>> \/ \E i \in DOMAIN needs : needs[i] = answer.tool
<1> DEFINE F == Fallback(obs)
           call == Sanitize(answer, obs)
<1>1. AvoidDuplicate(F, obs, Finish) = F
  <2>1. F = Finish \/ ~IsDuplicate(F, obs)
    BY FallbackIsOpen
  <2> HIDE DEF F
  <2>2. QED  BY <2>1 DEF AvoidDuplicate
<1>2. Unusable \notin {Finish, Ask}
  BY DEF Unusable, Finish, Ask, Call
<1>3. call.tool = answer.tool
  BY CallsOfTools DEF Sanitize
<1>4. CASE answer \in {Finish, Ask}
  <2>1. Decide(answer, obs) = answer
    BY <1>4 DEF Decide
  <2>2. Action(answer) = answer \/ Action(answer) = F
    BY <2>1 DEF Action
  <2>3. QED  BY <1>2, <1>4, <2>2
<1>5. CASE answer \notin {Finish, Ask} /\ Decide(answer, obs) = F
  <2>1. Action(answer) = F
    BY <1>5 DEF Action
  <2>2. QED  BY <2>1
<1>6. CASE answer \notin {Finish, Ask} /\ Decide(answer, obs) # F
  <2>1. /\ answer # Unusable /\ (needs = <<>> \/ \E i \in DOMAIN needs : needs[i] = answer.tool)
        /\ Decide(answer, obs) = AvoidDuplicate(call, obs, F)
    BY <1>1, <1>6 DEF Decide
  <2>2. \/ Decide(answer, obs) = Finish
        \/ Decide(answer, obs) = call /\ ~IsDuplicate(call, obs)
    <3> HIDE DEF call, F
    <3>1. QED  BY <1>6, <2>1 DEF AvoidDuplicate
  <2>3. CASE Decide(answer, obs) = Finish
    BY <2>1, <2>3 DEF Action
  <2>4. CASE Decide(answer, obs) # Finish
    <3>1. Action(answer) = call /\ ~IsDuplicate(call, obs)
      BY <2>2, <2>4 DEF Action
    <3>2. answer \in Answers
      BY <1>6, <2>1
    <3> HIDE DEF call
    <3>3. QED  BY <1>3, <2>1, <3>1, <3>2
  <2>5. QED  BY <2>3, <2>4
<1>7. QED  BY <1>4, <1>5, <1>6

\* The call of a step that runs a tool: a tool of the plan, not the question to
\* the user, and no call made before unless it has no table.
LEMMA RunIsNew ==
  ASSUME needs \in Seq(STRING), DOMAIN targets \subseteq Nat,
         NEW answer \in Answers \cup {Finish, Ask, Unusable},
         Action(answer) \notin {Finish, Ask}
  PROVE  /\ ~IsDuplicate(Action(answer), obs)
         /\ \A i \in DOMAIN obs : obs[i] = Action(answer) => Keyless(obs[i])
         /\ needs # <<>> => Action(answer).tool \in ToSet(needs)
<1> DEFINE a == Action(answer)
<1>1. CASE a = Fallback(obs)
  <2>1. PICK i \in DOMAIN needs : a = DefaultCall(needs[i], obs) /\ ~ToolDone(needs[i], obs) /\ ~IsDuplicate(a, obs)
    BY <1>1, FallbackIsOpen
  <2>2. a.tool = needs[i] /\ needs[i] # "ask_user_question"
    BY <2>1, CallsOfTools DEF Ask, Call
  <2>3. ASSUME NEW j \in DOMAIN obs, obs[j] = a PROVE Keyless(obs[j])
    <3>1. CASE needs[i] = "submit_final_sql"
      BY <2>1, <2>2, <2>3, <3>1 DEF ToolDone
    <3>2. CASE needs[i] # "submit_final_sql"
      <4> HIDE DEF a
      <4>1. QED  BY <2>1, <2>2, <2>3, <3>2 DEF IsDuplicate
    <3>3. QED  BY <3>1, <3>2
  <2>4. QED  BY <2>1, <2>2, <2>3 DEF ToSet
<1>2. CASE a # Fallback(obs)
  <2>1. /\ answer \in Answers /\ a.tool = answer.tool /\ ~IsDuplicate(a, obs)
        /\ needs = <<>> \/ \E i \in DOMAIN needs : needs[i] = answer.tool
    BY <1>2, Decided
  <2>2. a.tool \notin {"ask_user_question", "submit_final_sql"}
    BY <2>1, ToolLoopAssumption DEF Tools, ByTable, Searches
  <2> HIDE DEF a
  <2>3. \A j \in DOMAIN obs : obs[j] = a => Keyless(obs[j])
    BY <2>1, <2>2 DEF IsDuplicate
  <2>4. QED  BY <2>1, <2>3 DEF a, ToSet
<1>3. QED  BY <1>1, <1>2

\* A list with one more observation.
LEMMA OneMore ==
  ASSUME NEW o, NEW n \in Nat, Observed(o, n), NEW x
  PROVE  /\ Observed(Append(o, x), n + 1)
         /\ DOMAIN o = 1 .. n /\ DOMAIN Append(o, x) = 1 .. n + 1
         /\ \A i \in 1 .. n : Append(o, x)[i] = o[i]
         /\ Append(o, x)[n + 1] = x
<1> DEFINE S == {o[i] : i \in DOMAIN o}
           T == S \cup {x}
           new == Append(o, x)
<1>1. o \in Seq(S) /\ Len(o) = n
  BY DEF Observed
<1> HIDE DEF S
<1>2. o \in Seq(T)
  BY <1>1
<1>3. /\ new \in Seq(T) /\ Len(new) = n + 1 /\ DOMAIN o = 1 .. n /\ DOMAIN new = 1 .. n + 1
      /\ \A i \in 1 .. n : new[i] = o[i]
      /\ new[n + 1] = x
  BY <1>1, <1>2
<1> HIDE DEF new, T
<1>4. new \in Seq({new[i] : i \in DOMAIN new})
  BY <1>3
<1>5. Observed(new, n + 1)
  BY <1>3, <1>4 DEF Observed
<1>6. QED  BY <1>3, <1>5 DEF new

\* A call that may be made keeps the calls of the loop apart.
LEMMA NewCall ==
  ASSUME LoopInv, NEW x, obs' = Append(obs, x), steps' = steps + 1,
         steps < limit, UNCHANGED <<needs, targets, limit>>,
         \A i \in DOMAIN obs : obs[i] = x => Keyless(obs[i]),
         x = Ask \/ (needs # <<>> => x.tool \in ToSet(needs)),
         done' # "finish", x = Ask => done' # "no", done = "no"
  PROVE  LoopInv'
<1>1. /\ Observed(obs', steps + 1) /\ DOMAIN obs = 1 .. steps /\ DOMAIN obs' = 1 .. steps + 1
      /\ \A i \in 1 .. steps : obs'[i] = obs[i]
      /\ obs'[steps + 1] = x
  BY OneMore DEF LoopInv
<1>2. steps' \in Nat /\ Observed(obs', steps') /\ Len(obs') = steps' /\ steps' <= limit'
  BY <1>1 DEF LoopInv, Observed
<1>3. \A i, j \in DOMAIN obs' : i # j /\ obs'[i] = obs'[j] => Keyless(obs'[i])
  <2> SUFFICES ASSUME NEW i \in DOMAIN obs', NEW j \in DOMAIN obs', i # j, obs'[i] = obs'[j]
               PROVE  Keyless(obs'[i])
    OBVIOUS
  <2>0. steps \in Nat
    BY DEF LoopInv
  <2>1. CASE i \in 1 .. steps /\ j \in 1 .. steps
    <3>1. obs'[i] = obs[i] /\ obs'[j] = obs[j] /\ i \in DOMAIN obs /\ j \in DOMAIN obs
      BY <1>1, <2>1
    <3>2. QED  BY <3>1 DEF LoopInv, EachCallOnce
  <2>2. CASE i \in 1 .. steps /\ j = steps + 1
    BY <1>1, <2>2
  <2>3. CASE i = steps + 1 /\ j \in 1 .. steps
    <3>1. obs[j] = x /\ j \in DOMAIN obs /\ obs'[i] = obs[j]
      BY <1>1, <2>3
    <3>2. QED  BY <3>1
  <2>4. QED  BY <1>1, <2>0, <2>1, <2>2, <2>3
<1>4. \A i \in DOMAIN obs' : obs'[i] = x \/ \E j \in DOMAIN obs : obs'[i] = obs[j]
  <2>0. steps \in Nat
    BY DEF LoopInv
  <2>1. TAKE i \in DOMAIN obs'
  <2>2. i \in 1 .. steps \/ i = steps + 1
    BY <1>1, <2>0
  <2>3. QED  BY <1>1, <2>2
<1>5. EachCallOnce'
  BY <1>2, <1>3 DEF EachCallOnce, Keyless
<1>6. needs # <<>> => \A i \in DOMAIN obs' : obs'[i] = Ask \/ obs'[i].tool \in ToSet(needs)
  BY <1>4 DEF LoopInv, PlanIsFollowed
<1>7. PlanIsFollowed'
  <2>1. needs' = needs /\ done' # "finish"
    OBVIOUS
  <2>2. QED  BY <1>6, <2>1 DEF PlanIsFollowed
<1>8. done' = "no" => \A i \in DOMAIN obs' : obs'[i] # Ask
  BY <1>4 DEF LoopInv
<1>9. needs' \in Seq(STRING) /\ DOMAIN targets' \subseteq Nat /\ limit' \in Nat
  BY DEF LoopInv
<1>10. QED  BY <1>2, <1>5, <1>7, <1>8, <1>9 DEF LoopInv

\* A step that makes no call, and finishes an open plan only with the help of
\* the model or for want of the question.
LEMMA NoCall ==
  ASSUME LoopInv, UNCHANGED <<needs, targets, limit, obs, steps>>, done' # "no",
         done' = "finish" /\ ~helped' => \/ needs = <<>>
                                         \/ ~AskEnabled /\ Ask.tool \in ToSet(needs)
  PROVE  LoopInv'
<1>1. needs' = needs /\ targets' = targets /\ limit' = limit /\ obs' = obs /\ steps' = steps
  OBVIOUS
<1>2. EachCallOnce'
  BY <1>1 DEF LoopInv, EachCallOnce
<1>3. PlanIsFollowed'
  BY <1>1 DEF LoopInv, PlanIsFollowed
<1>4. Observed(obs', steps')
  BY <1>1 DEF LoopInv
<1>5. QED  BY <1>1, <1>2, <1>3, <1>4 DEF LoopInv

LEMMA LoopStep ==
  ASSUME LoopInv, LoopNext
  PROVE  LoopInv'
<1>0. needs \in Seq(STRING) /\ DOMAIN targets \subseteq Nat
  BY DEF LoopInv
<1>1. CASE LoopEnds
  BY <1>1, NoCall DEF LoopEnds
<1>2. ASSUME NEW answer \in Answers \cup {Finish, Ask, Unusable}, Finishes(answer)
      PROVE  LoopInv'
  <2>1. /\ UNCHANGED <<needs, targets, limit, obs, steps>> /\ done' = "finish"
        /\ ~NeedsComplete(obs) /\ helped' = (helped \/ answer # Unusable)
        /\ Action(answer) = Finish \/ (Action(answer) = Ask /\ ~AskEnabled)
    BY <1>2 DEF Finishes, Deciding
  <2>2. ASSUME ~helped', needs # <<>>
        PROVE  ~AskEnabled /\ Ask.tool \in ToSet(needs)
    <3>1. answer = Unusable
      BY <2>1, <2>2
    <3>2. Action(answer) = Fallback(obs)
      <4>1. Unusable # Ask /\ Unusable.tool \notin Tools
        BY DEF Unusable, Ask, Call, Tools, ByTable, Searches
      <4>2. QED  BY <1>0, <3>1, <4>1, Decided, ToolLoopAssumption
    <3>3. Fallback(obs) # Finish
      BY <1>0, <2>1, <2>2, FallbackIsOpen
    <3>4. Fallback(obs) = Ask /\ ~AskEnabled
      BY <2>1, <3>2, <3>3
    <3>5. PICK i \in DOMAIN needs : Ask = DefaultCall(needs[i], obs)
      BY <1>0, <3>3, <3>4, FallbackIsOpen
    <3>6. QED  BY <3>4, <3>5, CallsOfTools DEF ToSet
  <2>3. QED  BY <2>1, <2>2, NoCall
<1>3. ASSUME NEW answer \in Answers \cup {Finish, Ask, Unusable}, AsksUser(answer)
      PROVE  LoopInv'
  <2>1. /\ UNCHANGED <<needs, targets, limit>> /\ done = "no" /\ steps < limit
        /\ obs' = Append(obs, Ask) /\ steps' = steps + 1 /\ done' = "ask_user"
    BY <1>3 DEF AsksUser, Deciding
  <2>2. \A i \in DOMAIN obs : obs[i] # Ask
    BY <2>1 DEF LoopInv
  <2>3. QED  BY <2>1, <2>2, NewCall
<1>4. ASSUME NEW answer \in Answers \cup {Finish, Ask, Unusable}, RunsTool(answer)
      PROVE  LoopInv'
  <2> DEFINE a == Action(answer)
  <2>1. a \notin {Finish, Ask}
    BY <1>4 DEF RunsTool
  <2>2. /\ ~IsDuplicate(a, obs) /\ \A i \in DOMAIN obs : obs[i] = a => Keyless(obs[i])
        /\ needs # <<>> => a.tool \in ToSet(needs)
    BY <1>0, <2>1, RunIsNew
  <2>3. /\ UNCHANGED <<needs, targets, limit>> /\ done = "no" /\ steps < limit
        /\ obs' = Append(obs, a) /\ steps' = steps + 1
        /\ done' \in {"needs_tool_complete", "max_steps", "no"}
    BY <1>4, <2>2 DEF RunsTool, Deciding
  <2> HIDE DEF a
  <2>4. QED  BY <2>1, <2>2, <2>3, NewCall
<1>5. QED  BY <1>1, <1>2, <1>3, <1>4 DEF LoopNext

LEMMA LoopStarts == AskInit => LoopInv
<1> SUFFICES ASSUME AskInit PROVE LoopInv
  OBVIOUS
<1>1. Observed(obs, steps) /\ obs = <<>> /\ steps = 0 /\ done # "finish"
  <2>1. obs = <<>> /\ steps = 0 /\ done \in {"no", "none"}
    BY DEF AskInit, LoopInit
  <2>2. <<>> \in Seq({}) /\ Len(<<>>) = 0 /\ {<<>>[i] : i \in DOMAIN <<>>} = {}
    OBVIOUS
  <2>3. QED  BY <2>1, <2>2 DEF Observed
<1>2. needs \in Seq(STRING) /\ DOMAIN targets \subseteq Nat /\ limit \in Nat
  <2>1. CASE LoopInit
    <3>1. PICK p \in Plans, r \in Recalls : needs = p.needs /\ targets = TargetsOf(p.tables, Picked(r))
      BY <2>1 DEF LoopInit
    <3>2. needs \in Seq(STRING) /\ limit \in Nat
      BY <2>1, <3>1, ToolLoopAssumption DEF LoopInit
    <3>3. ASSUME NEW s, NEW n \in Nat PROVE DOMAIN Leading(s, n) \subseteq Nat
      BY DEF Leading
    <3>4. \E s, n : n \in Nat /\ targets = Leading(s, n)
      BY <3>1, ToolLoopAssumption DEF TargetsOf
    <3>5. QED  BY <3>2, <3>3, <3>4
  <2>2. CASE ~LoopInit
    <3>1. needs = <<>> /\ targets = <<>> /\ limit = 0
      BY <2>2 DEF AskInit
    <3>2. <<>> \in Seq(STRING) /\ DOMAIN <<>> \subseteq Nat
      OBVIOUS
    <3>3. QED  BY <3>1, <3>2
  <2>3. QED  BY <2>1, <2>2
<1>3. EachCallOnce /\ PlanIsFollowed
  BY <1>1, <1>2 DEF EachCallOnce, PlanIsFollowed
<1>4. QED  BY <1>1, <1>2, <1>3 DEF LoopInv

\* What the loop and the helpers keep together: the input never changes.
AskInv ==
    /\ LoopInv
    /\ input.kind = "gate" => input \in Gates
    /\ input.kind \in {"join", "pivot", "steps"} => input \in Assemblies
    /\ input.kind \in {"path", "trace", "tables", "columns", "examples", "observations"} => input \in Prompts
    /\ input.kind = "shape" => input \in Shapes

\* The loop keeps its invariant, and beside it a helper its input.
THEOREM AskInvariant == AskSpec => []AskInv
<1>1. AskInit => AskInv
  <2> SUFFICES ASSUME AskInit PROVE AskInv
    OBVIOUS
  <2>1. \/ input = [kind |-> "none"]
        \/ input \in Gates \cup Assemblies \cup Prompts \cup Shapes
    BY DEF AskInit
  <2>2. /\ input.kind = "gate" => input \in Gates
        /\ input.kind \in {"join", "pivot", "steps"} => input \in Assemblies
        /\ input.kind \in {"path", "trace", "tables", "columns", "examples", "observations"} => input \in Prompts
        /\ input.kind = "shape" => input \in Shapes
    <3>1. /\ \A x \in Gates : x.kind = "gate"
          /\ \A x \in Assemblies : x.kind \in {"join", "pivot", "steps"}
          /\ \A x \in Prompts : x.kind \in {"path", "trace", "tables", "columns", "examples", "observations"}
          /\ \A x \in Shapes : x.kind = "shape"
      <4>1. \A x \in Gates : x.kind = "gate"
        BY AskToolsAssumption DEF IsGate
      <4>2. \A x \in Assemblies : x.kind \in {"join", "pivot", "steps"}
        BY AskToolsAssumption DEF IsAssembly
      <4>3. \A x \in Prompts : x.kind \in {"path", "trace", "tables", "columns", "examples", "observations"}
        BY AskToolsAssumption DEF IsPrompt
      <4>4. \A x \in Shapes : x.kind = "shape"
        BY AskToolsAssumption DEF IsShape
      <4>5. QED  BY <4>1, <4>2, <4>3, <4>4
    <3>2. CASE input = [kind |-> "none"]
      BY <3>2
    <3>3. CASE input \in Gates \cup Assemblies \cup Prompts \cup Shapes
      BY <3>1, <3>3
    <3>4. QED  BY <2>1, <3>2, <3>3
  <2>3. QED  BY <2>2, LoopStarts DEF AskInv
<1>2. AskInv /\ [AskNext]_askVars => AskInv'
  <2> SUFFICES ASSUME AskInv, [AskNext]_askVars PROVE AskInv'
    OBVIOUS
  <2>1. input' = input
    BY DEF AskNext, askVars
  <2>2. LoopInv'
    <3>1. CASE AskNext
      BY <3>1, LoopStep DEF AskNext, AskInv
    <3>2. CASE UNCHANGED askVars
      <4>1. /\ needs' = needs /\ targets' = targets /\ limit' = limit /\ obs' = obs
            /\ steps' = steps /\ done' = done /\ helped' = helped
        BY <3>2 DEF askVars, loopVars
      <4>2. QED  BY <4>1 DEF AskInv, LoopInv, EachCallOnce, PlanIsFollowed, NeedsComplete, ToolDone
    <3>3. QED  BY <3>1, <3>2
  <2>3. QED  BY <2>1, <2>2 DEF AskInv
<1>3. QED  BY <1>1, <1>2, PTL DEF AskSpec

-----------------------------------------------------------------------------
(* The shape of a plan: numbers and images                                  *)

\* Induction, of a set of numbers.
LEMMA Induct ==
  ASSUME NEW S \in SUBSET Nat, 0 \in S, \A n \in S : n + 1 \in S
  PROVE  \A n \in Nat : n \in S
<1> SUFFICES ASSUME Nat \ S # {} PROVE FALSE
  OBVIOUS
<1>1. PICK i \in Nat \ S : \A j \in Nat \ S : i <= j
  BY LeastIs
<1>2. i # 0
  BY <1>1
<1>3. i - 1 \in Nat /\ i - 1 \in S
  BY <1>1, <1>2
<1>4. QED  BY <1>1, <1>3

\* What a finite set is mapped to has a largest number.
LEMMA Largest ==
  ASSUME NEW I, IsFiniteSet(I), I # {}, NEW f \in [I -> Nat]
  PROVE  \E i \in I : \A j \in I : f[j] <= f[i]
<1> DEFINE U == {n \in Nat : \A i \in I : f[i] <= n}
           c == Cardinality(I)
<1>1. PICK h \in Bijection(1 .. c, I) : TRUE
  BY FS_CardinalityType DEF ExistsBijection
<1>2. /\ c \in Nat /\ h \in [1 .. c -> I]
      /\ \A i \in I : \E k \in 1 .. c : h[k] = i
  BY FS_CardinalityType DEF Bijection, Surjection
<1> DEFINE B == {k \in Nat : k <= c => \E n \in Nat : \A l \in 1 .. k : f[h[l]] <= n}
<1> HIDE DEF c
<1>3. \A k \in Nat : k \in B
  <2>1. 0 \in B
    OBVIOUS
  <2>2. ASSUME NEW k \in B, k + 1 <= c
        PROVE  \E n \in Nat : \A l \in 1 .. k + 1 : f[h[l]] <= n
    <3>1. PICK n \in Nat : \A l \in 1 .. k : f[h[l]] <= n
      BY <1>2, <2>2
    <3>2. f[h[k + 1]] \in Nat
      BY <1>2, <2>2
    <3>3. \A l \in 1 .. k + 1 : f[h[l]] <= n + f[h[k + 1]]
      <4> SUFFICES ASSUME NEW l \in 1 .. k + 1 PROVE f[h[l]] <= n + f[h[k + 1]]
        OBVIOUS
      <4>1. f[h[l]] \in Nat
        BY <1>2, <2>2
      <4>2. CASE l = k + 1
        BY <3>2, <4>2
      <4>3. CASE l \in 1 .. k
        BY <3>1, <3>2, <4>1, <4>3
      <4>4. QED  BY <4>2, <4>3
    <3>4. n + f[h[k + 1]] \in Nat
      BY <3>2
    <3> DEFINE top == n + f[h[k + 1]]
    <3>5. \A l \in 1 .. k + 1 : f[h[l]] <= top
      BY <3>3
    <3> HIDE DEF top
    <3>6. QED  BY <3>4, <3>5 DEF top
  <2>3. \A k \in B : k + 1 \in B
    <3> SUFFICES ASSUME NEW k \in B PROVE k + 1 \in B
      OBVIOUS
    <3>1. k \in Nat /\ k + 1 \in Nat
      OBVIOUS
    <3>2. k + 1 <= c => \E n \in Nat : \A l \in 1 .. k + 1 : f[h[l]] <= n
      BY <2>2
    <3>3. QED  BY ONLY <3>1, <3>2
  <2> HIDE DEF B
  <2>4. B \in SUBSET Nat
    BY DEF B
  <2>5. QED  BY <2>1, <2>3, <2>4, Induct
<1>4. U # {}
  <2>1. c \in B
    BY <1>2, <1>3
  <2>2. PICK n \in Nat : \A l \in 1 .. c : f[h[l]] <= n
    BY <1>2, <2>1
  <2>3. \A i \in I : f[i] <= n
    BY <1>2, <2>2
  <2>4. QED  BY <2>3
<1>5. PICK m \in U : \A n \in U : m <= n
  BY <1>4, LeastIs
<1>6. PICK i \in I : ~(f[i] <= m - 1)
  <2> SUFFICES ASSUME \A i \in I : f[i] <= m - 1 PROVE FALSE
    OBVIOUS
  <2>1. PICK i \in I : TRUE
    OBVIOUS
  <2>2. m - 1 \in Nat
    BY <2>1, <1>5
  <2>3. m - 1 \in U
    BY <2>2
  <2>4. QED  BY <2>3, <1>5
<1>7. f[i] = m
  BY <1>5, <1>6
<1>8. QED  BY <1>5, <1>7

\* An image is finite, and no larger than what it is the image of.
LEMMA ImageIsSmall ==
  ASSUME NEW I, IsFiniteSet(I), NEW f, DOMAIN f = I, f = [i \in I |-> f[i]]
  PROVE  LET T == {f[i] : i \in I}
         IN IsFiniteSet(T) /\ Cardinality(T) <= Cardinality(I)
<1> DEFINE T == {f[i] : i \in I}
<1>1. f \in Surjection(I, T)
  BY DEF Surjection
<1>2. QED  BY <1>1, FS_Surjection

-----------------------------------------------------------------------------
(* The links                                                                 *)

LinkType(links) ==
  /\ DOMAIN links \subseteq Nat /\ IsFiniteSet(DOMAIN links)
  /\ \A i \in DOMAIN links : links[i] \in (DOMAIN HubRank) \X (DOMAIN HubRank)

\* A table is linked to by a number of tables.
LEMMA WeightIsNat ==
  ASSUME NEW links, LinkType(links), NEW a
  PROVE  Weight(links, a) \in Nat
<1> DEFINE D == {i \in DOMAIN links : links[i][2] = a}
           f == [i \in D |-> links[i][1]]
<1>1. IsFiniteSet(D)
  BY FS_Subset DEF LinkType
<1>2. IsFiniteSet({f[i] : i \in D})
  BY <1>1, ImageIsSmall, ZenonT(60)
<1>3. {f[i] : i \in D} = {p[1] : p \in {q \in ToSet(links) : q[2] = a}}
  BY DEF ToSet
<1>4. QED  BY <1>2, <1>3, FS_CardinalityType DEF Weight

\* Of the links of a table one is the best: most link to where it leads, that
\* table ranks highest among such, and it comes first.
LEMMA BestLink ==
  ASSUME NEW links, LinkType(links), NEW its \in SUBSET DOMAIN links, its # {}
  PROVE  \E i \in its : \A j \in its \ {i} :
            \/ Heavier(links, links[i][2], links[j][2])
            \/ ~Heavier(links, links[j][2], links[i][2]) /\ i < j
<1> DEFINE w == [i \in its |-> Weight(links, links[i][2])]
           r == [i \in its |-> HubRank[links[i][2]]]
<1>1. IsFiniteSet(its) /\ its \subseteq Nat
  BY FS_Subset DEF LinkType
<1>2. w \in [its -> Nat]
  BY WeightIsNat
<1>3. \A i \in its : links[i][2] \in DOMAIN HubRank
  BY DEF LinkType
<1>4. r \in [its -> Nat]
  BY <1>3, PlanShapeAssumption
<1>5. PICK i1 \in its : \A j \in its : w[j] <= w[i1]
  BY <1>1, <1>2, Largest
<1> DEFINE I2 == {i \in its : w[i] = w[i1]}
           r2 == [i \in I2 |-> r[i]]
<1>6. IsFiniteSet(I2) /\ I2 # {} /\ r2 \in [I2 -> Nat]
  BY <1>1, <1>4, FS_Subset
<1>7. PICK i2 \in I2 : \A j \in I2 : r2[j] <= r2[i2]
  <2> HIDE DEF I2, r2
  <2>1. QED  BY <1>6, Largest
<1> DEFINE I3 == {i \in I2 : r[i] = r[i2]}
<1>8. I3 \subseteq Nat /\ I3 # {}
  BY <1>1
<1>9. PICK i \in I3 : \A j \in I3 : i <= j
  <2> HIDE DEF I3
  <2>1. QED  BY <1>8, LeastIs
<1>10. \A x, y \in its : Heavier(links, links[x][2], links[y][2]) <=>
                            w[x] > w[y] \/ (w[x] = w[y] /\ r[x] > r[y])
  BY DEF Heavier
<1>11. /\ i \in its
       /\ \A j \in its : w[j] <= w[i] /\ (w[j] = w[i] => r[j] <= r[i])
       /\ \A j \in its : w[j] = w[i] /\ r[j] = r[i] => i <= j
  BY <1>5, <1>7, <1>9
<1> HIDE DEF w, r
<1>12. ASSUME NEW j \in its \ {i}
       PROVE  \/ Heavier(links, links[i][2], links[j][2])
              \/ ~Heavier(links, links[j][2], links[i][2]) /\ i < j
  <2>1. w[i] \in Nat /\ w[j] \in Nat /\ r[i] \in Nat /\ r[j] \in Nat /\ i \in Nat /\ j \in Nat
    BY <1>1, <1>2, <1>4, <1>11
  <2>2. CASE w[j] = w[i] /\ r[j] = r[i]
    BY <1>10, <1>11, <2>1, <2>2
  <2>3. CASE ~(w[j] = w[i] /\ r[j] = r[i])
    BY <1>10, <1>11, <2>1, <2>3
  <2>4. QED  BY <2>2, <2>3
<1>13. QED  BY <1>11, <1>12

\* The table a source meets others at is one it has a link to.
LEMMA AnchorIsLinked ==
  ASSUME NEW links, LinkType(links), NEW i0 \in DOMAIN links
  PROVE  \E i \in DOMAIN links : links[i] = <<links[i0][1], Anchor(links, links[i0][1])>>
<1> DEFINE s == links[i0][1]
           its == {i \in DOMAIN links : links[i][1] = s}
           good(i) == \A j \in its \ {i} :
                        \/ Heavier(links, links[i][2], links[j][2])
                        \/ ~Heavier(links, links[j][2], links[i][2]) /\ i < j
           best == CHOOSE i \in its : good(i)
<1>1. its # {} /\ its \subseteq DOMAIN links
  OBVIOUS
<1>2. \E i \in its : good(i)
  <2> HIDE DEF its
  <2>1. QED  BY <1>1, BestLink
<1>3. best \in its
  <2> HIDE DEF good, its
  <2>1. QED  BY <1>2
<1>4. Anchor(links, s) = links[best][2]
  BY DEF Anchor
<1>5. links[best] = <<links[best][1], links[best][2]>>
  BY <1>3 DEF LinkType
<1> HIDE DEF best
<1>6. QED  BY <1>3, <1>4, <1>5

RelationRows == [from : DOMAIN HubRank, to : DOMAIN HubRank, on : BOOLEAN, many : BOOLEAN]

\* Two lists, one behind the other.
LEMMA Appended ==
  ASSUME NEW T, NEW p \in Seq(T), NEW q \in Seq(T)
  PROVE  /\ Len(p \o q) = Len(p) + Len(q)
         /\ \A i \in 1 .. Len(p) : (p \o q)[i] = p[i]
         /\ \A j \in 1 .. Len(q) : (p \o q)[Len(p) + j] = q[j]
<1>1. Len(p \o q) = Len(p) + Len(q)
  OBVIOUS
<1>2. \A i \in 1 .. Len(p) : (p \o q)[i] = p[i]
  OBVIOUS
<1>3. \A j \in 1 .. Len(q) : (p \o q)[Len(p) + j] = q[j]
  OBVIOUS
<1>4. QED  BY <1>1, <1>2, <1>3

\* The links are finitely many pairs of tables, each of a recalled one.
LEMMA LinksAreTyped ==
  ASSUME NEW rels \in Seq(RelationRows), NEW recalled,
         NEW mentioned \in Seq((DOMAIN HubRank) \X DOMAIN HubRank)
  PROVE  LET links == Links(rels, recalled, mentioned)
         IN LinkType(links) /\ \A i \in DOMAIN links : links[i][1] \in recalled
<1> DEFINE T == (DOMAIN HubRank) \X DOMAIN HubRank
           known == {i \in DOMAIN rels : rels[i].on /\ rels[i].many /\ rels[i].from \in recalled}
           meant == {i \in DOMAIN mentioned :
                       /\ mentioned[i][1] \in recalled
                       /\ \E k \in known : rels[k].to = mentioned[i][2]}
           first == {i \in meant : \A j \in meant : mentioned[j][1] = mentioned[i][1] => i <= j}
           pairs == [i \in DOMAIN rels |-> <<rels[i].from, rels[i].to>>]
           all == pairs \o mentioned
           places == known \cup {Len(rels) + j : j \in first}
           links == [i \in places |-> all[i]]
<1>1. links = Links(rels, recalled, mentioned)
  BY DEF Links
<1>2. Len(rels) \in Nat /\ DOMAIN rels = 1 .. Len(rels)
  OBVIOUS
<1>3. Len(mentioned) \in Nat /\ DOMAIN mentioned = 1 .. Len(mentioned)
  OBVIOUS
<1>4. \A i \in DOMAIN rels : rels[i] \in RelationRows
  OBVIOUS
<1>5. pairs \in Seq(T) /\ Len(pairs) = Len(rels)
  <2>1. pairs \in [1 .. Len(rels) -> T]
    BY <1>2, <1>4 DEF RelationRows
  <2>2. QED  BY <1>2, <2>1
<1>6. /\ Len(all) = Len(rels) + Len(mentioned)
      /\ \A i \in 1 .. Len(rels) : all[i] = pairs[i]
      /\ \A j \in 1 .. Len(mentioned) : all[Len(rels) + j] = mentioned[j]
  <2>1. mentioned \in Seq(T)
    OBVIOUS
  <2> HIDE DEF pairs, T
  <2>2. QED  BY <1>5, <2>1, Appended
<1>7. known \subseteq 1 .. Len(rels) /\ first \subseteq 1 .. Len(mentioned)
  BY <1>2, <1>3
<1>8. \A i \in known : all[i] = <<rels[i].from, rels[i].to>>
  BY <1>2, <1>6, <1>7
<1>9. \A j \in first : all[Len(rels) + j] = mentioned[j]
  <2> HIDE DEF first, all
  <2>1. QED  BY <1>6, <1>7
<1>10. \A j \in first : mentioned[j] \in T /\ mentioned[j][1] \in recalled
  BY <1>3
<1>11. \A i \in known : <<rels[i].from, rels[i].to>> \in T /\ rels[i].from \in recalled
  BY <1>4 DEF RelationRows
<1> HIDE DEF all, known, first, T
<1>12. \A i \in places : all[i] \in T /\ all[i][1] \in recalled
  <2>1. ASSUME NEW i \in known PROVE all[i] \in T /\ all[i][1] \in recalled
    <3>1. all[i] = <<rels[i].from, rels[i].to>>
      BY <1>8
    <3>2. <<rels[i].from, rels[i].to>>[1] = rels[i].from
      OBVIOUS
    <3>3. QED  BY <1>11, <3>1, <3>2
  <2>2. ASSUME NEW j \in first
        PROVE  all[Len(rels) + j] \in T /\ all[Len(rels) + j][1] \in recalled
    BY <1>9, <1>10
  <2>3. QED  BY <2>1, <2>2
<1>13. places \subseteq 1 .. (Len(rels) + Len(mentioned))
  <2>1. known \subseteq 1 .. (Len(rels) + Len(mentioned))
    BY <1>2, <1>3, <1>7
  <2>2. \A j \in first : Len(rels) + j \in 1 .. (Len(rels) + Len(mentioned))
    BY <1>2, <1>3, <1>7
  <2>3. QED  BY <2>1, <2>2
<1>14. IsFiniteSet(places) /\ places \subseteq Nat
  <2>1. IsFiniteSet(1 .. (Len(rels) + Len(mentioned)))
    BY <1>2, <1>3, FS_Interval
  <2>2. QED  BY <1>13, <2>1, FS_Subset
<1> HIDE DEF places
<1>15. LinkType(links) /\ \A i \in DOMAIN links : links[i][1] \in recalled
  BY <1>12, <1>14 DEF LinkType, T
<1>16. QED  BY <1>1, <1>15

-----------------------------------------------------------------------------
(* Which tables are connected                                                *)

Related(rels) == {r.from : r \in ToSet(rels)} \cup {r.to : r \in ToSet(rels)}

\* The tables, and those one relation away from them, the anchor aside.
Around(rels, anchor, S) ==
  S \cup {u \in Related(rels) :
            /\ u # anchor
            /\ \E r \in ToSet(rels), x \in S : r.on /\ {r.from, r.to} = {x, u}}

\* There are at most twice as many tables as relations.
LEMMA RelatedIsSmall ==
  ASSUME NEW rels, NEW n \in Nat, DOMAIN rels = 1 .. n
  PROVE  IsFiniteSet(Related(rels)) /\ Cardinality(Related(rels)) <= 2 * n
<1> DEFINE f == [i \in 1 .. n |-> rels[i].from]
           g == [i \in 1 .. n |-> rels[i].to]
           F == {f[i] : i \in 1 .. n}
           G == {g[i] : i \in 1 .. n}
<1>1. IsFiniteSet(1 .. n) /\ Cardinality(1 .. n) = n
  BY FS_Interval
<1>2. IsFiniteSet(F) /\ Cardinality(F) <= n
  BY <1>1, ImageIsSmall
<1>3. IsFiniteSet(G) /\ Cardinality(G) <= n
  BY <1>1, ImageIsSmall
<1>4. Related(rels) = F \cup G
  BY DEF Related, ToSet
<1> HIDE DEF F, G
<1>5. /\ IsFiniteSet(F \cup G)
      /\ Cardinality(F \cup G) = Cardinality(F) + Cardinality(G) - Cardinality(F \cap G)
  BY <1>2, <1>3, FS_Union
<1>6. IsFiniteSet(F \cap G)
  BY <1>2, FS_Subset
<1>7. Cardinality(F) \in Nat /\ Cardinality(G) \in Nat /\ Cardinality(F \cap G) \in Nat
  BY <1>2, <1>3, <1>6, FS_CardinalityType
<1>8. QED  BY <1>2, <1>3, <1>4, <1>5, <1>7

\* g is the set of tables after each of the rounds of a search.
IsSearch(g, rels, anchor, s, k) ==
  g = [n \in 0 .. k |-> IF n = 0 THEN {s} ELSE Around(rels, anchor, g[n - 1])]

\* The rounds of the search are what their definition says.
LEMMA RoundsExist ==
  ASSUME NEW rels, NEW anchor, NEW s, NEW k \in Nat
  PROVE  \E g : IsSearch(g, rels, anchor, s, k)
<1> DEFINE Is(g, m) == IsSearch(g, rels, anchor, s, m)
           S == {m \in Nat : \E g : Is(g, m)}
<1>1. 0 \in S
  <2>1. Is([n \in 0 .. 0 |-> {s}], 0)
    BY DEF IsSearch
  <2>2. QED  BY <2>1
<1>2. ASSUME NEW m \in S PROVE m + 1 \in S
  <2>1. PICK g : Is(g, m)
    BY <1>2
  <2> DEFINE h == [n \in 0 .. m + 1 |-> IF n <= m THEN g[n] ELSE Around(rels, anchor, g[m])]
  <2>2. ASSUME NEW n \in 0 .. m + 1
        PROVE  h[n] = IF n = 0 THEN {s} ELSE Around(rels, anchor, h[n - 1])
    <3>0. m \in Nat
      OBVIOUS
    <3>1. CASE n = 0
      BY <2>1, <3>0, <3>1 DEF IsSearch
    <3>2. CASE n \in 1 .. m
      <4>1. h[n] = g[n] /\ h[n - 1] = g[n - 1]
        BY <3>0, <3>2
      <4>2. n \in 0 .. m /\ n # 0
        BY <3>0, <3>2
      <4>3. g[n] = Around(rels, anchor, g[n - 1])
        BY <2>1, <4>2 DEF IsSearch
      <4>4. QED  BY <4>1, <4>2, <4>3
    <3>3. CASE n = m + 1
      <4>1. h[n] = Around(rels, anchor, g[m]) /\ h[n - 1] = g[m] /\ n # 0
        BY <3>0, <3>3
      <4>2. QED  BY <4>1
    <3>4. QED  BY <3>0, <3>1, <3>2, <3>3
  <2>3. h = [n \in 0 .. m + 1 |-> h[n]]
    OBVIOUS
  <2> HIDE DEF h
  <2>4. Is(h, m + 1)
    BY <2>2, <2>3 DEF IsSearch
  <2>5. m + 1 \in Nat
    OBVIOUS
  <2>6. QED  BY <2>4, <2>5
<1> HIDE DEF Is
<1>3. S \in SUBSET Nat /\ \A m \in S : m + 1 \in S
  BY <1>2
<1>4. k \in S
  <2> HIDE DEF S
  <2>1. QED  BY <1>1, <1>3, Induct
<1>5. QED  BY <1>4 DEF Is

\* Two tables are connected beside the anchor if every set that holds the one,
\* and with a table those around it, holds the other: the search ends before
\* its rounds do.
LEMMA Connected ==
  ASSUME NEW rels \in Seq(RelationRows), NEW anchor, NEW s, NEW t
  PROVE  Avoids(rels, anchor, s, t) <=>
           /\ anchor \notin {s, t}
           /\ \A C : s \in C /\ Around(rels, anchor, C) \subseteq C => t \in C
<1> DEFINE m == 2 * Len(rels)
           next(S) == Around(rels, anchor, S)
           reached == CHOOSE g : g = [n \in 0 .. m |-> IF n = 0 THEN {s} ELSE next(g[n - 1])]
<1>1. m \in Nat
  OBVIOUS
<1>2. reached = [n \in 0 .. m |-> IF n = 0 THEN {s} ELSE next(reached[n - 1])]
  <2>1. \E g : g = [n \in 0 .. m |-> IF n = 0 THEN {s} ELSE next(g[n - 1])]
    <3>1. PICK g : IsSearch(g, rels, anchor, s, m)
      BY <1>1, RoundsExist
    <3>2. QED  BY <3>1 DEF IsSearch
  <2> HIDE DEF next
  <2>2. QED  BY <2>1
<1>3. Avoids(rels, anchor, s, t) <=> anchor \notin {s, t} /\ t \in reached[m]
  BY DEF Avoids, Around, Related
<1> HIDE DEF reached
<1>4. reached[0] = {s} /\ \A n \in Nat : n < m => reached[n + 1] = next(reached[n])
  <2>1. reached[0] = {s}
    BY <1>1, <1>2
  <2>2. ASSUME NEW n \in Nat, n < m PROVE reached[n + 1] = next(reached[n])
    <3>1. n + 1 \in 0 .. m /\ n + 1 # 0 /\ (n + 1) - 1 = n
      BY <1>1, <2>2
    <3> HIDE DEF next, m
    <3>2. QED  BY <1>2, <3>1
  <2>3. QED  BY <2>1, <2>2
<1> DEFINE all == {s} \cup Related(rels)
<1>5. IsFiniteSet(all) /\ Cardinality(all) <= m + 1
  <2>1. IsFiniteSet(Related(rels)) /\ Cardinality(Related(rels)) <= m
    BY RelatedIsSmall
  <2>2. Cardinality(Related(rels)) \in Nat
    BY <2>1, FS_CardinalityType
  <2>3. /\ IsFiniteSet(Related(rels) \cup {s})
        /\ Cardinality(Related(rels) \cup {s}) =
             IF s \in Related(rels) THEN Cardinality(Related(rels)) ELSE Cardinality(Related(rels)) + 1
    BY <2>1, FS_AddElement
  <2>4. all = Related(rels) \cup {s}
    OBVIOUS
  <2> HIDE DEF m, all
  <2>5. QED  BY <1>1, <2>1, <2>2, <2>3, <2>4
<1>6. \A S : S \subseteq next(S) /\ (S \subseteq all => next(S) \subseteq all)
  BY DEF Around
<1> HIDE DEF m, next, all
\* Each round finds a table, or none does from then on.
<1> DEFINE Q == {n \in Nat : n <= m =>
                   /\ s \in reached[n] /\ reached[n] \subseteq all
                   /\ Cardinality(reached[n]) >= n + 1 \/ next(reached[n]) = reached[n]}
<1>7. \A n \in Nat : n \in Q
  <2>1. 0 \in Q
    <3>1. Cardinality({s}) = 1
      BY FS_Singleton
    <3>2. s \in reached[0] /\ reached[0] \subseteq all /\ Cardinality(reached[0]) >= 0 + 1
      BY <1>4, <3>1 DEF all
    <3>3. QED  BY <3>2
  <2>2. ASSUME NEW n \in Q, n + 1 <= m
        PROVE  /\ s \in reached[n + 1] /\ reached[n + 1] \subseteq all
               /\ \/ Cardinality(reached[n + 1]) >= (n + 1) + 1
                  \/ next(reached[n + 1]) = reached[n + 1]
    <3>1. n \in Nat /\ n < m
      BY <1>1, <2>2
    <3>2. /\ s \in reached[n] /\ reached[n] \subseteq all
          /\ Cardinality(reached[n]) >= n + 1 \/ next(reached[n]) = reached[n]
      BY <1>1, <3>1
    <3>3. reached[n + 1] = next(reached[n])
      BY <1>4, <3>1
    <3>4. s \in reached[n + 1] /\ reached[n + 1] \subseteq all /\ reached[n] \subseteq reached[n + 1]
      BY <1>6, <3>2, <3>3
    <3>5. CASE next(reached[n]) = reached[n]
      BY <3>3, <3>4, <3>5
    <3>6. CASE next(reached[n]) # reached[n] /\ Cardinality(reached[n]) >= n + 1
      <4>1. IsFiniteSet(reached[n + 1]) /\ IsFiniteSet(reached[n])
        BY <1>5, <3>2, <3>4, FS_Subset
      <4>2. /\ Cardinality(reached[n]) <= Cardinality(reached[n + 1])
            /\ Cardinality(reached[n + 1]) # Cardinality(reached[n])
        BY <3>3, <3>4, <3>6, <4>1, FS_Subset
      <4>3. Cardinality(reached[n]) \in Nat /\ Cardinality(reached[n + 1]) \in Nat
        BY <4>1, FS_CardinalityType
      <4>4. Cardinality(reached[n + 1]) >= (n + 1) + 1
        BY <3>1, <3>6, <4>2, <4>3
      <4>5. QED  BY <3>4, <4>4
    <3>7. QED  BY <3>2, <3>5, <3>6
  <2>3. \A n \in Q : n + 1 \in Q
    <3> SUFFICES ASSUME NEW n \in Q PROVE n + 1 \in Q
      OBVIOUS
    <3>1. n + 1 \in Nat
      OBVIOUS
    <3>2. QED  BY <2>2, <3>1
  <2>4. Q \in SUBSET Nat
    OBVIOUS
  <2> HIDE DEF Q
  <2>5. QED  BY <2>1, <2>3, <2>4, Induct
<1>8. s \in reached[m] /\ next(reached[m]) = reached[m]
  <2>1. m \in Q
    BY <1>1, <1>7
  <2>2. /\ s \in reached[m] /\ reached[m] \subseteq all
        /\ Cardinality(reached[m]) >= m + 1 \/ next(reached[m]) = reached[m]
    BY <1>1, <2>1
  <2>3. CASE Cardinality(reached[m]) >= m + 1
    <3>1. IsFiniteSet(reached[m]) /\ Cardinality(reached[m]) <= Cardinality(all)
      BY <1>5, <2>2, FS_Subset
    <3>2. Cardinality(reached[m]) \in Nat /\ Cardinality(all) \in Nat
      BY <1>5, <3>1, FS_CardinalityType
    <3>3. Cardinality(all) = Cardinality(reached[m])
      BY <1>1, <1>5, <2>3, <3>1, <3>2
    <3>4. all = reached[m]
      BY <1>5, <2>2, <3>3, FS_Subset
    <3>5. QED  BY <1>6, <2>2, <3>4
  <2>4. QED  BY <2>2, <2>3
\* And it finds no more than must be there.
<1>9. ASSUME NEW C, s \in C, next(C) \subseteq C
      PROVE  reached[m] \subseteq C
  <2> DEFINE P == {n \in Nat : n <= m => reached[n] \subseteq C}
  <2>1. 0 \in P
    BY <1>4, <1>9
  <2>2. ASSUME NEW n \in P PROVE n + 1 \in P
    <3>1. n \in Nat /\ n + 1 \in Nat
      OBVIOUS
    <3>2. ASSUME n + 1 <= m PROVE reached[n + 1] \subseteq C
      <4>1. n < m /\ n <= m
        BY <1>1, <3>1, <3>2
      <4>2. reached[n] \subseteq C
        BY <4>1
      <4>3. next(reached[n]) \subseteq next(C)
        BY <4>2 DEF next, Around
      <4>4. QED  BY <1>4, <1>9, <3>1, <4>1, <4>3
    <3>3. QED  BY <3>1, <3>2
  <2>3. P \in SUBSET Nat /\ \A n \in P : n + 1 \in P
    BY <2>2
  <2>4. m \in P
    <3> HIDE DEF P
    <3>1. QED  BY <1>1, <2>1, <2>3, Induct
  <2>5. QED  BY <1>1, <2>4
<1>10. t \in reached[m] <=> \A C : s \in C /\ next(C) \subseteq C => t \in C
  <2>1. ASSUME t \in reached[m], NEW C, s \in C, next(C) \subseteq C PROVE t \in C
    BY <1>9, <2>1
  <2>2. (\A C : s \in C /\ next(C) \subseteq C => t \in C) => t \in reached[m]
    BY <1>8
  <2>3. QED  BY <2>1, <2>2
<1>11. QED  BY <1>3, <1>10 DEF next

-----------------------------------------------------------------------------
(* When a statement is split                                                 *)

\* Tables that the search does not connect are separate: what it found from the
\* one is tied to nothing else.
LEMMA ApartIsSeparate ==
  ASSUME NEW rels \in Seq(RelationRows), NEW a, NEW s, NEW t, ~Avoids(rels, a, s, t)
  PROVE  a \in {s, t} \/ Separate(rels, a, s, t)
<1> SUFFICES ASSUME a \notin {s, t} PROVE Separate(rels, a, s, t)
  OBVIOUS
<1>1. PICK C : s \in C /\ Around(rels, a, C) \subseteq C /\ t \notin C
  BY Connected
<1> DEFINE D == C \cap (Related(rels) \ {a, t})
<1>2. ASSUME NEW r \in ToSet(rels), r.on, a \notin {r.from, r.to},
             {r.from, r.to} \cap (D \cup {s}) # {}
      PROVE  {r.from, r.to} \subseteq D \cup {s}
  <2>1. r.from \in Related(rels) /\ r.to \in Related(rels)
    BY DEF Related
  <2>2. ASSUME NEW x, NEW u, {r.from, r.to} = {x, u}, x \in D \cup {s}
        PROVE  u \in D \cup {s}
    <3>1. x \in C
      BY <1>1, <2>2
    <3>2. u \in Related(rels) /\ u # a
      <4>1. u \in {r.from, r.to}
        BY <2>2
      <4>2. QED  BY <1>2, <2>1, <4>1
    <3>3. u \in Around(rels, a, C)
      BY <1>2, <2>2, <3>1, <3>2 DEF Around
    <3>4. QED  BY <1>1, <3>2, <3>3
  <2>3. CASE r.from \in D \cup {s}
    BY <2>2, <2>3
  <2>4. CASE r.to \in D \cup {s}
    BY <2>2, <2>4
  <2>5. QED  BY <1>2, <2>3, <2>4
<1>3. D \in SUBSET (Related(rels) \ {a, t})
  OBVIOUS
<1> HIDE DEF D
<1>4. QED  BY <1>2, <1>3 DEF Separate, Related

\* And separate tables are not connected.
LEMMA SeparateIsApart ==
  ASSUME NEW rels \in Seq(RelationRows), NEW a, NEW s, NEW t,
         s # t, a \notin {s, t}, Separate(rels, a, s, t)
  PROVE  ~Avoids(rels, a, s, t)
<1>1. PICK D \in SUBSET (Related(rels) \ {a, t}) : \A r \in ToSet(rels) :
        r.on /\ a \notin {r.from, r.to} /\ {r.from, r.to} \cap (D \cup {s}) # {}
          => {r.from, r.to} \subseteq D \cup {s}
  BY DEF Separate, Related
<1>2. Around(rels, a, D \cup {s}) \subseteq D \cup {s}
  <2> SUFFICES ASSUME NEW u, NEW r \in ToSet(rels), NEW x \in D \cup {s},
                      u # a, r.on, {r.from, r.to} = {x, u}
               PROVE  u \in D \cup {s}
    BY DEF Around
  <2>1. a \notin {r.from, r.to}
    BY <1>1
  <2>2. QED  BY <1>1, <2>1
<1>3. s \in D \cup {s} /\ t \notin D \cup {s}
  BY <1>1
<1>4. QED  BY <1>2, <1>3, Connected

\* A statement is split only where it must be, and wherever two tables meet at
\* one only.
THEOREM SplitCorrect ==
  ASSUME NEW rels \in Seq(RelationRows), NEW recalled, IsFiniteSet(recalled),
         NEW mentioned \in Seq((DOMAIN HubRank) \X DOMAIN HubRank)
  PROVE  SplitIsNeeded(rels, recalled, mentioned)
<1> DEFINE links == Links(rels, recalled, mentioned)
           tied == ToSet(links)
           meet(i) == Anchor(links, links[i][1])
           at(a) == {s \in {p[1] : p \in tied} : Anchor(links, s) = a}
           apart == {i \in DOMAIN links :
                       \E s, t \in at(meet(i)) : s # t /\ ~Avoids(rels, meet(i), s, t)}
           first == CHOOSE i \in apart : \A j \in apart : i <= j
           found == Split(rels, recalled, mentioned)
<1>1. LinkType(links) /\ \A i \in DOMAIN links : links[i][1] \in recalled
  BY LinksAreTyped
<1>2. found = IF Cardinality(recalled) < 2 \/ apart = {} THEN [anchor |-> "", branches |-> {}]
              ELSE [anchor |-> meet(first), branches |-> at(meet(first))]
  BY DEF Split
<1>3. tied = {links[i] : i \in DOMAIN links}
  BY DEF ToSet
<1>4. apart # {} => first \in apart
  <2>1. apart \in SUBSET Nat
    BY <1>1 DEF LinkType
  <2> HIDE DEF apart
  <2>2. QED  BY <2>1, Least
<1> HIDE DEF links, tied, first
<1>5. ASSUME NEW a, NEW s \in at(a) PROVE <<s, a>> \in tied
  <2>1. PICK i \in DOMAIN links : links[i][1] = s
    BY <1>3
  <2>2. \E j \in DOMAIN links : links[j] = <<s, a>>
    BY <1>1, <2>1, AnchorIsLinked
  <2>3. QED  BY <1>3, <2>2
<1>6. ASSUME apart # {}
      PROVE  /\ \A s \in at(meet(first)) : <<s, meet(first)>> \in tied
             /\ at(meet(first)) # {}
             /\ \E s, t \in at(meet(first)) :
                  s # t /\ (meet(first) \in {s, t} \/ Separate(rels, meet(first), s, t))
  <2>1. PICK s \in at(meet(first)), t \in at(meet(first)) :
            s # t /\ ~Avoids(rels, meet(first), s, t)
    BY <1>4, <1>6
  <2> HIDE DEF meet, at
  <2>2. meet(first) \in {s, t} \/ Separate(rels, meet(first), s, t)
    BY <2>1, ApartIsSeparate
  <2>3. \A x \in at(meet(first)) : <<x, meet(first)>> \in tied
    BY <1>5
  <2>4. QED  BY <2>1, <2>2, <2>3
<1>7. ASSUME NEW s \in recalled, NEW t \in recalled, NEW p \in tied,
             s # t, p[2] \notin {s, t}, Separate(rels, p[2], s, t),
             {q \in tied : q[1] = s} = {<<s, p[2]>>}, {q \in tied : q[1] = t} = {<<t, p[2]>>}
      PROVE  apart # {} /\ ~(Cardinality(recalled) < 2)
  <2> DEFINE a == p[2]
  <2>1. ASSUME NEW x, {q \in tied : q[1] = x} = {<<x, a>>}
        PROVE  x \in at(a)
    <3>1. <<x, a>> \in tied
      BY <2>1
    <3>2. PICK i \in DOMAIN links : links[i] = <<x, a>>
      BY <1>3, <3>1
    <3>3. links[i][1] = x
      BY <3>2
    <3>4. PICK j \in DOMAIN links : links[j] = <<x, Anchor(links, x)>>
      BY <1>1, <3>3, AnchorIsLinked
    <3>5. <<x, Anchor(links, x)>> \in {q \in tied : q[1] = x}
      BY <1>3, <3>4
    <3>6. Anchor(links, x) = a
      BY <2>1, <3>5
    <3>7. x \in {q[1] : q \in tied}
      BY <3>1
    <3>8. QED  BY <3>6, <3>7
  <2>2. s \in at(a) /\ t \in at(a)
    BY <1>7, <2>1
  <2>3. ~Avoids(rels, a, s, t)
    BY <1>7, SeparateIsApart
  <2>4. PICK i \in DOMAIN links : links[i][1] = s
    BY <1>3, <2>2
  <2>5. meet(i) = a
    BY <2>2, <2>4
  <2>6. i \in apart
    <3> HIDE DEF meet, at
    <3>1. QED  BY <1>7, <2>2, <2>3, <2>5
  <2>7. ~(Cardinality(recalled) < 2)
    <3> DEFINE one == {s}
               two == one \cup {t}
    <3>1. IsFiniteSet(one) /\ Cardinality(one) = 1
      BY FS_Singleton
    <3>2. t \notin one /\ two \subseteq recalled
      BY <1>7
    <3>3. Cardinality(two) = Cardinality(one) + 1
      <4> HIDE DEF one
      <4>1. QED  BY <3>1, <3>2, FS_AddElement
    <3>4. Cardinality(recalled) \in Nat
      BY FS_CardinalityType
    <3> HIDE DEF one, two
    <3>5. Cardinality(two) <= Cardinality(recalled)
      BY <3>2, FS_Subset
    <3>6. QED  BY <3>1, <3>3, <3>4, <3>5
  <2>8. QED  BY <2>6, <2>7
<1> HIDE DEF meet, at, apart, found
<1>8. found.branches # {} =>
        /\ \A s \in found.branches : <<s, found.anchor>> \in tied
        /\ \E s, t \in found.branches :
             s # t /\ (found.anchor \in {s, t} \/ Separate(rels, found.anchor, s, t))
  <2> SUFFICES ASSUME found.branches # {}
               PROVE  /\ \A s \in found.branches : <<s, found.anchor>> \in tied
                      /\ \E s, t \in found.branches :
                           s # t /\ (found.anchor \in {s, t} \/ Separate(rels, found.anchor, s, t))
    OBVIOUS
  <2>1. apart # {} /\ found = [anchor |-> meet(first), branches |-> at(meet(first))]
    BY <1>2
  <2>2. found.anchor = meet(first) /\ found.branches = at(meet(first))
    BY <2>1
  <2>3. QED  BY <1>6, <2>1, <2>2
<1>9. ASSUME found.branches = {}, NEW s \in recalled, NEW t \in recalled, NEW p \in tied
      PROVE  ~(/\ s # t /\ p[2] \notin {s, t} /\ Separate(rels, p[2], s, t)
               /\ {q \in tied : q[1] = s} = {<<s, p[2]>>}
               /\ {q \in tied : q[1] = t} = {<<t, p[2]>>})
  <2>1. apart = {} \/ Cardinality(recalled) < 2
    <3> SUFFICES ASSUME apart # {}, ~(Cardinality(recalled) < 2) PROVE FALSE
      OBVIOUS
    <3>1. found.branches = at(meet(first))
      BY <1>2
    <3>2. QED  BY <1>6, <1>9, <3>1
  <2>2. QED  BY <1>7, <2>1
<1>10. QED  BY <1>8, <1>9 DEF SplitIsNeeded, found, tied, links

-----------------------------------------------------------------------------
(* The steps of a plan                                                       *)

\* Some of the first places of a list are no more than those.
LEMMA FewPlaces ==
  ASSUME NEW D \in SUBSET (1 .. MaxPlanSteps)
  PROVE  /\ IsFiniteSet(D) /\ Cardinality(D) \in Nat
         /\ Cardinality(D) <= MaxPlanSteps
<1>1. IsFiniteSet(1 .. MaxPlanSteps) /\ Cardinality(1 .. MaxPlanSteps) = MaxPlanSteps
  BY PlanShapeAssumption, FS_Interval
<1>2. IsFiniteSet(D) /\ Cardinality(D) <= Cardinality(1 .. MaxPlanSteps)
  BY <1>1, FS_Subset
<1>3. QED  BY <1>1, <1>2, FS_CardinalityType

\* What a plan is before the analysis, and what it keeps to: several statements
\* of a plan with two steps are two.
SoundPlan(plan) ==
  /\ plan.multi \in BOOLEAN
  /\ \E D \in SUBSET (1 .. MaxPlanSteps) : plan.steps \in [D -> BOOLEAN]
  /\ plan.multi /\ Cardinality(DOMAIN plan.steps) >= 2 => SqlSteps(plan) >= 2

\* The model's answer, put in order, is such a plan.
LEMMA NormalisedIsSound ==
  ASSUME NEW raw, raw.steps \in Seq(STRING), raw.multi \in BOOLEAN
  PROVE  SoundPlan(Normalised(raw)) /\ (raw.unclear => ~Normalised(raw).ready)
<1> DEFINE kept == {i \in DOMAIN raw.steps : i <= MaxPlanSteps /\ raw.steps[i] # "odd"}
           flags == [i \in kept |-> raw.steps[i] = "sql"]
           few == Cardinality({i \in DOMAIN flags : flags[i]}) < 2
           plan == Normalised(raw)
<1>1. /\ plan.multi = raw.multi
      /\ plan.steps = IF raw.multi /\ few THEN [i \in DOMAIN flags |-> TRUE] ELSE flags
      /\ plan.ready = (raw.ready /\ ~raw.unclear)
  BY DEF Normalised
<1>2. kept \in SUBSET (1 .. MaxPlanSteps)
  BY PlanShapeAssumption
<1>3. DOMAIN flags = kept /\ flags \in [kept -> BOOLEAN]
  OBVIOUS
<1> HIDE DEF kept, flags, plan
<1>4. plan.steps \in [kept -> BOOLEAN] /\ DOMAIN plan.steps = kept
  BY <1>1, <1>3
<1>5. ASSUME plan.multi, Cardinality(kept) >= 2 PROVE SqlSteps(plan) >= 2
  <2>1. CASE few
    <3>1. plan.steps = [i \in kept |-> TRUE]
      BY <1>1, <1>3, <1>5, <2>1
    <3>2. {i \in DOMAIN plan.steps : plan.steps[i]} = kept
      BY <3>1
    <3>3. QED  BY <1>5, <3>2 DEF SqlSteps
  <2>2. CASE ~few
    <3>1. plan.steps = flags
      BY <1>1, <2>2
    <3>2. {i \in DOMAIN flags : flags[i]} \in SUBSET (1 .. MaxPlanSteps)
      BY <1>2, <1>3
    <3>3. Cardinality({i \in DOMAIN flags : flags[i]}) \in Nat
      BY <3>2, FewPlaces
    <3>4. SqlSteps(plan) = Cardinality({i \in DOMAIN flags : flags[i]})
      BY <3>1 DEF SqlSteps
    <3> DEFINE n == Cardinality({i \in DOMAIN flags : flags[i]})
    <3>5. n \in Nat /\ ~(n < 2) /\ SqlSteps(plan) = n
      BY <2>2, <3>3, <3>4
    <3> HIDE DEF n
    <3>6. QED  BY <3>5
  <2>3. QED  BY <2>1, <2>2
<1>6. SoundPlan(plan)
  BY <1>1, <1>2, <1>4, <1>5 DEF SoundPlan
<1>7. raw.unclear => ~plan.ready
  BY <1>1
<1>8. QED  BY <1>6, <1>7 DEF plan

\* The list of one step that runs no SQL.
LEMMA OneStep == DOMAIN <<FALSE>> = 1 .. 1 /\ <<FALSE>>[1] = FALSE /\ <<FALSE>> \in [1 .. 1 -> BOOLEAN]
<1>1. <<FALSE>> \in Seq(BOOLEAN) /\ Len(<<FALSE>>) = 1
  OBVIOUS
<1>2. DOMAIN <<FALSE>> = 1 .. 1
  <2>1. \A s \in Seq(BOOLEAN) : DOMAIN s = 1 .. Len(s)
    OBVIOUS
  <2>2. DOMAIN <<FALSE>> = 1 .. Len(<<FALSE>>)
    BY <1>1, <2>1, Zenon
  <2>3. QED  BY <1>1, <2>2, Zenon
<1>3. <<FALSE>>[1] = FALSE
  OBVIOUS
<1>4. <<FALSE>> \in [1 .. 1 -> BOOLEAN]
  <2>1. \A s \in Seq(BOOLEAN) : s \in [1 .. Len(s) -> BOOLEAN]
    OBVIOUS
  <2>2. <<FALSE>> \in [1 .. Len(<<FALSE>>) -> BOOLEAN]
    BY <1>1, <2>1, Zenon
  <2>3. QED  BY <1>1, <2>2, Zenon
<1>5. QED  BY <1>2, <1>3, <1>4

\* So is the plan that is made when the model gave none.
LEMMA FallbackIsSound == SoundPlan(FallbackPlan)
<1>1. FallbackPlan.multi = FALSE /\ FallbackPlan.steps = <<FALSE>>
  BY DEF FallbackPlan
<1>2. <<FALSE>> \in [1 .. 1 -> BOOLEAN]
  BY OneStep
<1>3. 1 .. 1 \in SUBSET (1 .. MaxPlanSteps)
  BY PlanShapeAssumption
<1>4. QED  BY <1>1, <1>2, <1>3 DEF SoundPlan

\* A plan that is split has steps, and none that runs SQL of its own.
LEMMA BranchedShape ==
  ASSUME NEW plan, SoundPlan(plan)
  PROVE  LET it == Branched(plan)
         IN /\ it.branches /\ ~it.multi /\ it.ready = plan.ready
            /\ SqlSteps(it) = 0 /\ DOMAIN it.steps # {}
            /\ DOMAIN it.steps \in SUBSET (1 .. MaxPlanSteps)
<1> DEFINE it == Branched(plan)
<1>1. /\ it.branches = TRUE /\ it.multi = FALSE /\ it.ready = plan.ready
      /\ it.steps = IF DOMAIN plan.steps = {} THEN <<FALSE>>
                    ELSE [i \in DOMAIN plan.steps |-> FALSE]
  BY DEF Branched
<1> HIDE DEF it
<1>2. DOMAIN it.steps # {} /\ \A i \in DOMAIN it.steps : it.steps[i] = FALSE
  <2>1. CASE DOMAIN plan.steps = {}
    <3>1. it.steps = <<FALSE>>
      BY <1>1, <2>1
    <3>2. DOMAIN it.steps = 1 .. 1 /\ it.steps[1] = FALSE
      BY <3>1, OneStep, Zenon
    <3>3. QED  BY <3>2
  <2>2. CASE DOMAIN plan.steps # {}
    BY <1>1, <2>2
  <2>3. QED  BY <2>1, <2>2
<1>3. DOMAIN it.steps \in SUBSET (1 .. MaxPlanSteps)
  <2>1. DOMAIN plan.steps \in SUBSET (1 .. MaxPlanSteps)
    BY DEF SoundPlan
  <2>2. DOMAIN it.steps = {1} \/ DOMAIN it.steps = DOMAIN plan.steps
    BY <1>1
  <2>3. QED  BY <2>1, <2>2, PlanShapeAssumption
<1>4. {i \in DOMAIN it.steps : it.steps[i]} = {}
  BY <1>2
<1>5. SqlSteps(it) = 0
  BY <1>4, FS_EmptySet DEF SqlSteps
<1>6. QED  BY <1>1, <1>2, <1>3, <1>5 DEF it

\* Whatever the model answered, the plan has a shape that can be run.
THEOREM ShapeCorrect ==
  ASSUME NEW raw, raw.steps \in Seq(STRING), raw.multi \in BOOLEAN,
         NEW rels, NEW recalled, NEW mentioned
  PROVE  ShapeIsOne(raw, rels, recalled, mentioned)
<1> DEFINE drawn == IF raw.failed THEN FallbackPlan ELSE Normalised(raw)
           plan == Planned(raw, rels, recalled, mentioned)
           split == Split(rels, recalled, mentioned).branches # {}
<1>1. SoundPlan(drawn) /\ (raw.unclear /\ ~raw.failed => ~drawn.ready)
  BY NormalisedIsSound, FallbackIsSound
<1>2. plan = IF split THEN Branched(drawn) ELSE drawn
  BY DEF Planned
<1> HIDE DEF drawn, plan, split
<1>3. /\ split => /\ ~RequiresMulti(plan) /\ SqlSteps(plan) = 0 /\ DOMAIN plan.steps # {}
                  /\ ~Skips(plan)
      /\ plan.multi /\ Cardinality(DOMAIN plan.steps) >= 2 => SqlSteps(plan) >= 2
      /\ raw.unclear /\ ~raw.failed => ~plan.ready
      /\ Cardinality(DOMAIN plan.steps) <= MaxPlanSteps
      /\ SqlSteps(plan) \in Nat
  <2>1. CASE split
    <3>1. /\ plan.branches /\ ~plan.multi /\ plan.ready = drawn.ready
          /\ SqlSteps(plan) = 0 /\ DOMAIN plan.steps # {}
          /\ DOMAIN plan.steps \in SUBSET (1 .. MaxPlanSteps)
      BY <1>1, <1>2, <2>1, BranchedShape
    <3>2. ~RequiresMulti(plan)
      BY <3>1 DEF RequiresMulti
    <3>3. ~Skips(plan)
      BY <3>1 DEF Skips
    <3>4. Cardinality(DOMAIN plan.steps) <= MaxPlanSteps
      BY <3>1, FewPlaces
    <3>5. QED  BY <1>1, <3>1, <3>2, <3>3, <3>4
  <2>2. CASE ~split
    <3>1. SoundPlan(plan) /\ (raw.unclear /\ ~raw.failed => ~plan.ready)
      BY <1>1, <1>2, <2>2
    <3>2. DOMAIN plan.steps \in SUBSET (1 .. MaxPlanSteps)
      BY <3>1 DEF SoundPlan
    <3>3. Cardinality(DOMAIN plan.steps) <= MaxPlanSteps
      BY <3>2, FewPlaces
    <3>4. {i \in DOMAIN plan.steps : plan.steps[i]} \in SUBSET (1 .. MaxPlanSteps)
      BY <3>2
    <3>5. SqlSteps(plan) \in Nat
      BY <3>4, FewPlaces DEF SqlSteps
    <3>6. plan.multi /\ Cardinality(DOMAIN plan.steps) >= 2 => SqlSteps(plan) >= 2
      BY <3>1 DEF SoundPlan
    <3>7. QED  BY <2>2, <3>1, <3>3, <3>5, <3>6
  <2>3. QED  BY <2>1, <2>2
<1>4. Skips(plan) => SqlSteps(plan) <= 1
  <2>1. Skips(plan) => ~(SqlSteps(plan) >= 2)
    BY DEF Skips, RequiresMulti
  <2>2. QED  BY <1>3, <2>1
<1>5. QED  BY <1>3, <1>4 DEF ShapeIsOne, plan, split

-----------------------------------------------------------------------------
(* Places and their order                                                    *)

\* A list is a function of its places.
LEMMA ListOf ==
  ASSUME NEW n \in Nat, NEW T, NEW f \in [1 .. n -> T]
  PROVE  f \in Seq(T) /\ Len(f) = n /\ DOMAIN f = 1 .. n
OBVIOUS

\* The places of a list: as many as it is long, with elements of its type.
LEMMA PlacesOf ==
  ASSUME NEW T, NEW s \in Seq(T)
  PROVE  /\ Len(s) \in Nat /\ DOMAIN s = 1 .. Len(s) /\ IsFiniteSet(DOMAIN s)
         /\ Cardinality(DOMAIN s) = Len(s) /\ \A i \in DOMAIN s : s[i] \in T
<1>1. Len(s) \in Nat /\ DOMAIN s = 1 .. Len(s) /\ \A i \in DOMAIN s : s[i] \in T
  OBVIOUS
<1>2. IsFiniteSet(1 .. Len(s)) /\ Cardinality(1 .. Len(s)) = Len(s)
  BY <1>1, FS_Interval
<1>3. QED  BY <1>1, <1>2

\* In a strict order of finitely many things each has a place, and each place
\* a thing.
StrictOrder(R, D) ==
    /\ \A i \in D : <<i, i>> \notin R
    /\ \A i, j \in D : i # j => <<i, j>> \in R \/ <<j, i>> \in R
    /\ \A i, j, k \in D : <<i, j>> \in R /\ <<j, k>> \in R => <<i, k>> \in R

InOrder(p, R, D) ==
    /\ DOMAIN p = 1 .. Cardinality(D)
    /\ \A k \in 1 .. Cardinality(D) : p[k] \in D
    /\ \A i \in D : \E k \in 1 .. Cardinality(D) : p[k] = i
    /\ \A j, k \in 1 .. Cardinality(D) : <<p[j], p[k]>> \in R <=> j < k

InPlace(R, D) ==
    [k \in 1 .. Cardinality(D) |-> CHOOSE i \in D : Cardinality({j \in D : <<j, i>> \in R}) = k - 1]

\* A strict order of finitely many places puts each at a place of its own: the
\* one with as many places before it.
LEMMA Ranks ==
  ASSUME NEW D, IsFiniteSet(D), NEW R, StrictOrder(R, D)
  PROVE  InOrder(InPlace(R, D), R, D)
<1> DEFINE before(i) == {j \in D : <<j, i>> \in R}
           rank == [i \in D |-> Cardinality(before(i))]
           n == Cardinality(D)
           p == [k \in 1 .. n |-> CHOOSE i \in D : Cardinality(before(i)) = k - 1]
<1>1. n \in Nat
  BY FS_CardinalityType
<1>2. ASSUME NEW i \in D
      PROVE  rank[i] \in Nat /\ rank[i] < n
  <2>1. IsFiniteSet(before(i)) /\ Cardinality(before(i)) \in Nat /\ Cardinality(before(i)) <= n
        /\ (Cardinality(before(i)) = n => before(i) = D)
    <3>1. before(i) \in SUBSET D
      OBVIOUS
    <3> HIDE DEF before
    <3>2. QED  BY <3>1, FS_Subset, FS_CardinalityType
  <2>2. i \notin before(i)
    BY DEF StrictOrder
  <2> HIDE DEF before
  <2>3. QED  BY <1>1, <2>1, <2>2
<1>3. ASSUME NEW i \in D, NEW j \in D, <<i, j>> \in R
      PROVE  rank[i] < rank[j]
  <2>1. before(i) \in SUBSET before(j)
    BY <1>3 DEF StrictOrder
  <2>2. i \in before(j) /\ i \notin before(i)
    BY <1>3 DEF StrictOrder
  <2>3. IsFiniteSet(before(j))
    <3>1. before(j) \in SUBSET D
      OBVIOUS
    <3> HIDE DEF before
    <3>2. QED  BY <3>1, FS_Subset
  <2>4. rank[i] = Cardinality(before(i)) /\ rank[j] = Cardinality(before(j))
    OBVIOUS
  <2>5. rank[i] \in Nat /\ rank[j] \in Nat
    BY <1>2
  <2> HIDE DEF before, rank
  <2>6. Cardinality(before(i)) <= Cardinality(before(j)) /\ Cardinality(before(i)) # Cardinality(before(j))
    BY <2>1, <2>2, <2>3, FS_Subset
  <2>7. QED  BY <2>4, <2>5, <2>6
<1>4. ASSUME NEW i \in D, NEW j \in D
      PROVE  (<<i, j>> \in R <=> rank[i] < rank[j]) /\ (rank[i] = rank[j] => i = j)
  <2>1. rank[i] \in Nat /\ rank[j] \in Nat
    BY <1>2
  <2>2. <<i, j>> \in R => rank[i] < rank[j]
    BY <1>3
  <2>3. <<j, i>> \in R => rank[j] < rank[i]
    BY <1>3
  <2>4. i # j => <<i, j>> \in R \/ <<j, i>> \in R
    BY DEF StrictOrder
  <2> HIDE DEF rank
  <2>5. QED  BY <2>1, <2>2, <2>3, <2>4
<1>5. \A k \in 1 .. n : \E i \in D : rank[i] = k - 1
  <2> DEFINE image == {rank[i] : i \in D}
             all == 0 .. n - 1
  <2>1. image \in SUBSET all
    <3> HIDE DEF rank
    <3>1. QED  BY <1>1, <1>2
  <2>2. rank \in Surjection(D, image) /\ rank \in Injection(D, image)
    <3>1. rank \in [D -> image] /\ \A t \in image : \E i \in D : rank[i] = t
      <4> HIDE DEF before
      <4>1. QED  OBVIOUS
    <3>2. \A i, j \in D : rank[i] = rank[j] => i = j
      BY <1>4
    <3> HIDE DEF rank, image
    <3>3. QED  BY <3>1, <3>2 DEF Injection, Surjection, IsInjective
  <2>3. Cardinality(image) = n
    <3> HIDE DEF rank, image
    <3>1. QED  BY <2>2, FS_Surjection
  <2>4. IsFiniteSet(all) /\ Cardinality(all) = n
    <3>1. 0 \in Int /\ n - 1 \in Int
      BY <1>1
    <3> HIDE DEF n
    <3>2. IsFiniteSet(0 .. n - 1) /\ Cardinality(0 .. n - 1) = IF 0 > n - 1 THEN 0 ELSE (n - 1) - 0 + 1
      BY <3>1, FS_Interval
    <3>3. QED  BY <1>1, <3>2
  <2>5. image = all
    <3> HIDE DEF image, all, n
    <3>1. QED  BY <2>1, <2>3, <2>4, FS_Subset
  <2>6. ASSUME NEW k \in 1 .. n PROVE \E i \in D : rank[i] = k - 1
    <3>1. k - 1 \in all
      <4> HIDE DEF n
      <4>1. QED  BY <1>1
    <3> HIDE DEF rank, all
    <3>2. QED  BY <2>5, <3>1
  <2> HIDE DEF rank
  <2>7. QED  BY <2>6
<1>6. ASSUME NEW k \in 1 .. n
      PROVE  p[k] \in D /\ rank[p[k]] = k - 1
  <2>1. \E i \in D : Cardinality(before(i)) = k - 1
    BY <1>5
  <2> HIDE DEF before, n
  <2>2. p[k] = CHOOSE i \in D : Cardinality(before(i)) = k - 1
    OBVIOUS
  <2> HIDE DEF p
  <2>3. p[k] \in D /\ Cardinality(before(p[k])) = k - 1
    BY <2>1, <2>2
  <2>4. QED  BY <2>3
<1> HIDE DEF rank
<1>7. ASSUME NEW i \in D PROVE \E k \in 1 .. n : p[k] = i
  <2>1. \A k \in 1 .. n : p[k] \in D /\ rank[p[k]] = k - 1
    BY <1>6
  <2> HIDE DEF n, p
  <2>2. PICK k \in 1 .. n : rank[i] = k - 1
    <3>1. rank[i] \in Nat /\ rank[i] < n
      BY <1>2
    <3>2. rank[i] + 1 \in 1 .. n /\ rank[i] = (rank[i] + 1) - 1
      BY <1>1, <3>1
    <3>3. QED  BY <3>2
  <2>3. p[k] \in D /\ rank[p[k]] = rank[i]
    BY <2>1, <2>2
  <2>4. p[k] = i
    BY <1>4, <2>3
  <2>5. QED  BY <2>4
<1>8. ASSUME NEW j \in 1 .. n, NEW k \in 1 .. n
      PROVE  <<p[j], p[k]>> \in R <=> j < k
  <2> HIDE DEF n, p
  <2>1. QED  BY <1>1, <1>4, <1>6
<1>9. DOMAIN p = 1 .. n
  OBVIOUS
<1> HIDE DEF p
<1>10. InOrder(p, R, D)
  <2>1. \A k \in 1 .. n : p[k] \in D
    BY <1>6
  <2> HIDE DEF n
  <2>2. QED  BY <1>7, <1>8, <1>9, <2>1 DEF InOrder, n
<1>11. QED  BY <1>10 DEF p, InPlace

-----------------------------------------------------------------------------
(* Lists from places                                                         *)

\* The elements at some places of a list, in their order.
LEMMA KeptIs ==
  ASSUME NEW s, NEW I \in SUBSET Nat, IsFiniteSet(I)
  PROVE  \E p \in [1 .. Cardinality(I) -> I] :
            /\ \A i \in I : \E k \in 1 .. Cardinality(I) : p[k] = i
            /\ \A j, k \in 1 .. Cardinality(I) : p[j] < p[k] <=> j < k
            /\ Kept(s, I) = [k \in 1 .. Cardinality(I) |-> s[p[k]]]
<1> DEFINE n == Cardinality(I)
           R == {q \in I \X I : q[1] < q[2]}
           p == InPlace(R, I)
           place(k) == CHOOSE i \in I : Cardinality({j \in I : <<j, i>> \in R}) = k - 1
<1>1. \A i, j \in I : <<i, j>> \in R <=> i < j
  OBVIOUS
<1>2. \A i \in I : {j \in I : <<j, i>> \in R} = {j \in I : j < i}
  BY <1>1
<1>3. StrictOrder(R, I)
  <2>1. I \subseteq Nat
    OBVIOUS
  <2> HIDE DEF R
  <2>2. QED  BY <1>1, <2>1 DEF StrictOrder
<1>4. InOrder(p, R, I)
  <2> HIDE DEF R
  <2>1. QED  BY <1>3, Ranks
<1>5. \A k \in 1 .. n : p[k] = Nth(I, k)
  <2> HIDE DEF R
  <2>1. QED  BY <1>2 DEF Nth, InPlace
<1>6. Kept(s, I) = [k \in 1 .. n |-> s[p[k]]]
  <2> HIDE DEF p
  <2>1. QED  BY <1>5 DEF Kept
<1>7. p \in [1 .. n -> I]
  <2>1. p = [k \in 1 .. n |-> place(k)]
    BY DEF InPlace
  <2>2. \A k \in 1 .. n : p[k] \in I
    <3> HIDE DEF p
    <3>1. QED  BY <1>4 DEF InOrder
  <2> HIDE DEF p, place
  <2>3. QED  BY <2>1, <2>2
<1> HIDE DEF R, p
<1>8. \A i \in I : \E k \in 1 .. n : p[k] = i
  BY <1>4 DEF InOrder
<1>9. \A j, k \in 1 .. n : p[j] < p[k] <=> j < k
  BY <1>1, <1>4 DEF InOrder
<1>10. QED  BY <1>6, <1>7, <1>8, <1>9

\* What is kept of a list, as a list and as a set.
LEMMA KeptOf ==
  ASSUME NEW T, NEW s \in Seq(T), NEW I \in SUBSET DOMAIN s
  PROVE  /\ IsFiniteSet(I) /\ Cardinality(I) \in Nat /\ Cardinality(I) <= Len(s)
         /\ Kept(s, I) \in Seq(T) /\ Len(Kept(s, I)) = Cardinality(I)
         /\ DOMAIN Kept(s, I) = 1 .. Cardinality(I)
         /\ ToSet(Kept(s, I)) = {s[i] : i \in I}
         /\ \E p \in [1 .. Cardinality(I) -> I] :
               /\ \A i \in I : \E k \in 1 .. Cardinality(I) : p[k] = i
               /\ \A j, k \in 1 .. Cardinality(I) : p[j] < p[k] <=> j < k
               /\ \A k \in 1 .. Cardinality(I) : Kept(s, I)[k] = s[p[k]]
<1>1. /\ Len(s) \in Nat /\ DOMAIN s = 1 .. Len(s) /\ IsFiniteSet(DOMAIN s)
      /\ Cardinality(DOMAIN s) = Len(s) /\ \A i \in DOMAIN s : s[i] \in T
  BY PlacesOf
<1>2. IsFiniteSet(I) /\ Cardinality(I) <= Len(s) /\ Cardinality(I) \in Nat
  BY <1>1, FS_Subset, FS_CardinalityType
<1>3. I \in SUBSET Nat
  BY <1>1
<1>4. PICK p \in [1 .. Cardinality(I) -> I] :
            /\ \A i \in I : \E k \in 1 .. Cardinality(I) : p[k] = i
            /\ \A j, k \in 1 .. Cardinality(I) : p[j] < p[k] <=> j < k
            /\ Kept(s, I) = [k \in 1 .. Cardinality(I) |-> s[p[k]]]
  BY <1>2, <1>3, KeptIs, ZenonT(60)
<1>5. Kept(s, I) \in [1 .. Cardinality(I) -> T]
  BY <1>1, <1>4
<1>6. Kept(s, I) \in Seq(T) /\ Len(Kept(s, I)) = Cardinality(I) /\ DOMAIN Kept(s, I) = 1 .. Cardinality(I)
  BY <1>2, <1>5, ListOf
<1>7. \A k \in 1 .. Cardinality(I) : Kept(s, I)[k] = s[p[k]]
  BY <1>4
<1>8. ToSet(Kept(s, I)) = {s[i] : i \in I}
  BY <1>4, <1>6, <1>7 DEF ToSet
<1>9. QED  BY <1>2, <1>4, <1>6, <1>7, <1>8

\* s[:n]: a list no longer than n, the same at its places.
LEMMA LeadingOf ==
  ASSUME NEW T, NEW s \in Seq(T), NEW n \in Nat
  PROVE  /\ Leading(s, n) \in Seq(T)
         /\ Len(Leading(s, n)) = IF Len(s) < n THEN Len(s) ELSE n
         /\ DOMAIN Leading(s, n) = 1 .. Len(Leading(s, n))
         /\ DOMAIN Leading(s, n) \subseteq DOMAIN s
         /\ \A i \in DOMAIN Leading(s, n) : Leading(s, n)[i] = s[i]
BY DEF Leading

\* dict.fromkeys: the same elements, none twice, each where it occurs first.
LEMMA FirstsOf ==
  ASSUME NEW T, NEW s \in Seq(T)
  PROVE  /\ WithoutRepeats(s) \in Seq(T)
         /\ IsInjective(WithoutRepeats(s))
         /\ ToSet(WithoutRepeats(s)) = ToSet(s)
         /\ \E p \in [DOMAIN WithoutRepeats(s) -> DOMAIN s] :
               /\ \A j, k \in DOMAIN WithoutRepeats(s) : p[j] < p[k] <=> j < k
               /\ \A k \in DOMAIN WithoutRepeats(s) :
                     /\ WithoutRepeats(s)[k] = s[p[k]]
                     /\ \A i \in DOMAIN s : s[i] = s[p[k]] => p[k] <= i
<1> DEFINE I == {i \in DOMAIN s : \A j \in DOMAIN s : s[j] = s[i] => i <= j}
           w == WithoutRepeats(s)
           n == Cardinality(I)
<1>1. w = Kept(s, I)
  BY DEF WithoutRepeats
<1>2. I \in SUBSET DOMAIN s /\ DOMAIN s \subseteq Nat
  BY PlacesOf
<1>3. /\ n \in Nat /\ w \in Seq(T) /\ DOMAIN w = 1 .. n /\ ToSet(w) = {s[i] : i \in I}
  <2> HIDE DEF I
  <2>1. QED  BY <1>1, <1>2, KeptOf
<1>4. PICK p \in [1 .. n -> I] :
               /\ \A j, k \in 1 .. n : p[j] < p[k] <=> j < k
               /\ \A k \in 1 .. n : w[k] = s[p[k]]
  <2> HIDE DEF I
  <2>1. QED  BY <1>1, <1>2, KeptOf
<1>5. ASSUME NEW x \in DOMAIN s PROVE \E i \in I : s[i] = s[x]
  <2> DEFINE same == {i \in DOMAIN s : s[i] = s[x]}
  <2>1. same \in SUBSET Nat /\ same # {}
    BY <1>2
  <2> HIDE DEF same
  <2>2. PICK i \in same : \A j \in same : i <= j
    BY <2>1, LeastIs
  <2>3. QED  BY <2>2 DEF same
<1>6. ToSet(w) = ToSet(s)
  <2>1. {s[i] : i \in I} = {s[i] : i \in DOMAIN s}
    BY <1>2, <1>5
  <2> HIDE DEF w
  <2>2. QED  BY <1>3, <2>1 DEF ToSet
<1>7. \A k \in 1 .. n : p[k] \in DOMAIN s /\ p[k] \in Nat /\ \A i \in DOMAIN s : s[i] = s[p[k]] => p[k] <= i
  BY <1>2, <1>4
<1> HIDE DEF I, w, n
<1>8. IsInjective(w)
  <2>1. ASSUME NEW j \in 1 .. n, NEW k \in 1 .. n, w[j] = w[k] PROVE j = k
    <3>1. p[j] <= p[k] /\ p[k] <= p[j] /\ p[j] \in Nat /\ p[k] \in Nat
      BY <1>4, <1>7, <2>1
    <3>2. QED  BY <1>3, <1>4, <3>1
  <2>2. QED  BY <1>3, <2>1 DEF IsInjective
<1>9. p \in [DOMAIN w -> DOMAIN s]
  BY <1>3, <1>4, <1>7
<1>10. QED  BY <1>3, <1>4, <1>6, <1>7, <1>8, <1>9 DEF w

-----------------------------------------------------------------------------
(* Sorted lists                                                              *)

\* sorted: the same elements, by their order.
Arranged(s, R) == [k \in DOMAIN s |-> s[InPlace(R, DOMAIN s)[k]]]

\* t is s arranged: p tells where its elements come from.
Arranges(p, t, s, R) ==
    /\ DOMAIN t = DOMAIN s /\ Len(t) = Len(s) /\ ToSet(t) = ToSet(s)
    /\ p \in [DOMAIN s -> DOMAIN s]
    /\ \A i \in DOMAIN s : \E k \in DOMAIN s : p[k] = i
    /\ \A j, k \in DOMAIN s : <<p[j], p[k]>> \in R <=> j < k
    /\ \A k \in DOMAIN s : t[k] = s[p[k]]

\* sorted: what it returns is the list, rearranged.
LEMMA SortOf ==
  ASSUME NEW T, NEW s \in Seq(T), NEW R, StrictOrder(R, DOMAIN s)
  PROVE  Arranged(s, R) \in Seq(T) /\ \E p : Arranges(p, Arranged(s, R), s, R)
<1> DEFINE D == DOMAIN s
           t == Arranged(s, R)
           p == InPlace(R, D)
<1>1. /\ Len(s) \in Nat /\ DOMAIN s = 1 .. Len(s) /\ IsFiniteSet(DOMAIN s)
      /\ Cardinality(DOMAIN s) = Len(s) /\ \A i \in DOMAIN s : s[i] \in T
  BY PlacesOf
<1>2. InOrder(p, R, D)
  BY <1>1, Ranks
<1>3. /\ \A k \in D : p[k] \in D
      /\ \A i \in D : \E k \in D : p[k] = i
      /\ \A j, k \in D : <<p[j], p[k]>> \in R <=> j < k
  <2> HIDE DEF p
  <2>1. QED  BY <1>1, <1>2 DEF InOrder
<1>4. t \in [1 .. Len(s) -> T]
  BY <1>1, <1>3 DEF Arranged
<1>5. t \in Seq(T) /\ Len(t) = Len(s) /\ DOMAIN t = DOMAIN s
  BY <1>1, <1>4, ListOf
<1> HIDE DEF p, t
<1>6. \A k \in D : t[k] = s[p[k]]
  BY DEF p, t, Arranged
<1>7. ToSet(t) = ToSet(s)
  <2>1. \A k \in DOMAIN t : t[k] \in ToSet(s)
    BY <1>3, <1>5, <1>6 DEF ToSet
  <2>2. ASSUME NEW i \in DOMAIN s PROVE s[i] \in ToSet(t)
    <3>1. PICK k \in D : p[k] = i
      BY <1>3
    <3>2. k \in DOMAIN t /\ t[k] = s[i]
      BY <1>5, <1>6, <3>1
    <3>3. QED  BY <3>2 DEF ToSet
  <2>3. QED  BY <2>1, <2>2 DEF ToSet
<1> DEFINE f == [k \in D |-> p[k]]
<1>8. f \in [D -> D]
  BY <1>3
<1>9. \A k \in D : f[k] = p[k]
  OBVIOUS
<1> HIDE DEF f
<1>10. /\ \A i \in D : \E k \in D : f[k] = i
       /\ \A j, k \in D : <<f[j], f[k]>> \in R <=> j < k
       /\ \A k \in D : t[k] = s[f[k]]
  BY <1>3, <1>6, <1>9
<1>11. Arranges(f, t, s, R)
  BY <1>5, <1>7, <1>8, <1>10 DEF Arranges
<1>12. QED  BY <1>5, <1>11 DEF t

\* An order by a number, and by the place among equals.
LEMMA KeyOrder ==
  ASSUME NEW D \in SUBSET Nat, NEW v, \A i \in D : v[i] \in Int,
         NEW R, \A i, j \in D : <<i, j>> \in R <=> v[i] < v[j] \/ (v[i] = v[j] /\ i < j)
  PROVE  StrictOrder(R, D)
<1>1. \A i \in D : i \in Nat
  OBVIOUS
<1>2. ASSUME NEW i \in D, NEW j \in D, NEW k \in D, <<i, j>> \in R, <<j, k>> \in R
      PROVE  <<i, k>> \in R
  <2>1. v[i] \in Int /\ v[j] \in Int /\ v[k] \in Int /\ i \in Nat /\ j \in Nat /\ k \in Nat
    BY <1>1
  <2>2. v[i] < v[k] \/ (v[i] = v[k] /\ i < k)
    BY <1>2, <2>1
  <2>3. QED  BY <2>2
<1>3. \A i \in D : <<i, i>> \notin R
  BY <1>1
<1>4. \A i, j \in D : i # j => <<i, j>> \in R \/ <<j, i>> \in R
  BY <1>1
<1>5. QED  BY <1>2, <1>3, <1>4 DEF StrictOrder

\* names and columns are taken the same way: those that may be taken, once, as
\* many as fit.
Taken(all, may, most) == Leading(WithoutRepeats(Where(all, LAMBDA n : n \in may)), most)

\* What is taken from a list: allowed, without repeats, no more than asked for,
\* and what is left out comes after whatever is taken.
LEMMA TakenAreFirst ==
  ASSUME NEW T, NEW all \in Seq(T), NEW may, NEW most \in Nat
  PROVE  /\ IsInjective(Taken(all, may, most)) /\ DOMAIN Taken(all, may, most) \subseteq Nat
         /\ Taken(all, may, most) \in Seq(T)
         /\ Len(Taken(all, may, most)) <= most
         /\ ToSet(Taken(all, may, most)) \subseteq may \cap ToSet(all)
         /\ \/ Len(Taken(all, may, most)) = most
            \/ ToSet(Taken(all, may, most)) = may \cap ToSet(all)
         /\ \A i \in DOMAIN all : all[i] \in may \ ToSet(Taken(all, may, most)) =>
               \A y \in ToSet(Taken(all, may, most)) :
                  \E j \in DOMAIN all : j < i /\ all[j] = y
<1> DEFINE I == {i \in DOMAIN all : all[i] \in may}
           v == Kept(all, I)
           w == WithoutRepeats(v)
           L == Leading(w, most)
<1>1. Taken(all, may, most) = L
  BY DEF Taken, Where
<1>2. /\ v \in Seq(T) /\ DOMAIN v = 1 .. Cardinality(I) /\ ToSet(v) = {all[i] : i \in I}
      /\ \E p \in [1 .. Cardinality(I) -> I] :
               /\ \A i \in I : \E k \in 1 .. Cardinality(I) : p[k] = i
               /\ \A j, k \in 1 .. Cardinality(I) : p[j] < p[k] <=> j < k
               /\ \A k \in 1 .. Cardinality(I) : v[k] = all[p[k]]
  <2>1. I \in SUBSET DOMAIN all
    OBVIOUS
  <2> HIDE DEF I
  <2>2. QED  BY <2>1, KeptOf
<1>3. PICK p \in [DOMAIN v -> I] :
               /\ \A i \in I : \E k \in DOMAIN v : p[k] = i
               /\ \A j, k \in DOMAIN v : p[j] < p[k] <=> j < k
               /\ \A k \in DOMAIN v : v[k] = all[p[k]]
  <2> HIDE DEF I, v
  <2>1. QED  BY <1>2
<1>4. ToSet(v) = may \cap ToSet(all)
  <2>1. {all[i] : i \in I} = may \cap {all[i] : i \in DOMAIN all}
    OBVIOUS
  <2> HIDE DEF I, v
  <2>2. QED  BY <1>2, <2>1 DEF ToSet
<1> HIDE DEF v, w, L
<1>5. /\ w \in Seq(T) /\ IsInjective(w) /\ ToSet(w) = ToSet(v)
      /\ \E q \in [DOMAIN w -> DOMAIN v] :
               /\ \A j, k \in DOMAIN w : q[j] < q[k] <=> j < k
               /\ \A k \in DOMAIN w : w[k] = v[q[k]] /\ \A i \in DOMAIN v : v[i] = v[q[k]] => q[k] <= i
  BY <1>2, FirstsOf DEF w
<1>6. PICK q \in [DOMAIN w -> DOMAIN v] :
               /\ \A j, k \in DOMAIN w : q[j] < q[k] <=> j < k
               /\ \A k \in DOMAIN w : w[k] = v[q[k]] /\ \A i \in DOMAIN v : v[i] = v[q[k]] => q[k] <= i
  BY <1>5
<1>7. /\ L \in Seq(T) /\ Len(L) = IF Len(w) < most THEN Len(w) ELSE most
      /\ DOMAIN L = 1 .. Len(L) /\ DOMAIN L \subseteq DOMAIN w
      /\ \A i \in DOMAIN L : L[i] = w[i]
  BY <1>5, LeadingOf DEF L
<1>8. Len(w) \in Nat /\ DOMAIN w = 1 .. Len(w) /\ Len(L) \in Nat /\ DOMAIN v \subseteq Nat /\ I \subseteq Nat
  <2>1. Len(w) \in Nat /\ DOMAIN w = 1 .. Len(w) /\ Len(L) \in Nat
    BY <1>5, <1>7, PlacesOf
  <2>2. DOMAIN v \subseteq Nat
    BY <1>2
  <2>3. DOMAIN all \subseteq Nat
    BY PlacesOf
  <2>4. QED  BY <2>1, <2>2, <2>3
<1>9. Len(L) <= most
  BY <1>7, <1>8
<1>10. IsInjective(L)
  BY <1>5, <1>7 DEF IsInjective
<1>11. ToSet(L) \subseteq may \cap ToSet(all)
  BY <1>4, <1>5, <1>7 DEF ToSet
<1>12. Len(L) = most \/ ToSet(L) = may \cap ToSet(all)
  <2>1. ASSUME Len(L) # most PROVE ToSet(L) = ToSet(w)
    <3>1. DOMAIN L = DOMAIN w
      BY <1>7, <1>8, <2>1
    <3>2. QED  BY <1>7, <3>1 DEF ToSet
  <2>2. QED  BY <1>4, <1>5, <2>1
<1>13. ASSUME NEW i \in DOMAIN all, all[i] \in may \ ToSet(L), NEW y \in ToSet(L)
       PROVE  \E j \in DOMAIN all : j < i /\ all[j] = y
  <2>1. PICK b \in DOMAIN L : y = L[b]
    BY DEF ToSet
  <2>2. PICK k \in DOMAIN v : p[k] = i
    BY <1>3, <1>13
  <2>3. PICK a \in DOMAIN w : w[a] = v[k]
    <3>1. v[k] \in ToSet(w)
      BY <1>5 DEF ToSet
    <3>2. QED  BY <3>1 DEF ToSet
  <2>4. q[a] <= k
    BY <1>6, <2>3
  <2>5. w[a] = all[i]
    BY <1>3, <2>2, <2>3
  <2>6. b < a
    <3>1. a \notin DOMAIN L
      BY <1>7, <1>13, <2>5 DEF ToSet
    <3>2. QED  BY <1>7, <1>8, <3>1
  <2>7. b \in DOMAIN w /\ q[b] < q[a]
    BY <1>6, <1>7, <2>6
  <2>8. q[a] \in Nat /\ q[b] \in Nat /\ k \in Nat /\ q[b] \in DOMAIN v
    BY <1>6, <1>8, <2>7
  <2>9. q[b] < k
    BY <2>4, <2>7, <2>8
  <2>10. p[q[b]] < i
    BY <1>3, <2>2, <2>8, <2>9
  <2>11. all[p[q[b]]] = y
    BY <1>3, <1>6, <1>7, <2>1, <2>7, <2>8
  <2>12. p[q[b]] \in DOMAIN all
    BY <1>3, <2>8
  <2>13. QED  BY <2>10, <2>11, <2>12
<1>14. DOMAIN L \subseteq Nat
  BY <1>7
<1>15. QED  BY <1>1, <1>7, <1>9, <1>10, <1>11, <1>12, <1>13, <1>14

-----------------------------------------------------------------------------
(* The columns of a prompt                                                   *)

\* Two lists, one behind the other, as a list and as a set.
LEMMA JoinedLists ==
  ASSUME NEW T, NEW p \in Seq(T), NEW q \in Seq(T)
  PROVE  /\ p \o q \in Seq(T) /\ Len(p \o q) = Len(p) + Len(q)
         /\ Len(p) \in Nat /\ Len(q) \in Nat
         /\ DOMAIN (p \o q) = 1 .. Len(p) + Len(q)
         /\ \A i \in DOMAIN p : (p \o q)[i] = p[i]
         /\ \A j \in DOMAIN q : (p \o q)[Len(p) + j] = q[j]
         /\ ToSet(p \o q) = ToSet(p) \cup ToSet(q)
<1>1. /\ Len(p) \in Nat /\ DOMAIN p = 1 .. Len(p)
      /\ Len(q) \in Nat /\ DOMAIN q = 1 .. Len(q)
  BY PlacesOf
<1>2. /\ Len(p \o q) = Len(p) + Len(q)
      /\ \A i \in 1 .. Len(p) : (p \o q)[i] = p[i]
      /\ \A j \in 1 .. Len(q) : (p \o q)[Len(p) + j] = q[j]
  BY Appended
<1> DEFINE pq == p \o q
<1>3. pq \in Seq(T)
  OBVIOUS
<1> HIDE DEF pq
<1>4. DOMAIN pq = 1 .. Len(p) + Len(q)
  BY <1>2, <1>3, PlacesOf DEF pq
<1>5. ToSet(pq) = ToSet(p) \cup ToSet(q)
  <2>1. ASSUME NEW i \in DOMAIN pq PROVE pq[i] \in ToSet(p) \cup ToSet(q)
    <3>1. CASE i \in 1 .. Len(p)
      BY <1>1, <1>2, <3>1 DEF ToSet, pq
    <3>2. CASE i \notin 1 .. Len(p)
      <4>1. i - Len(p) \in 1 .. Len(q) /\ Len(p) + (i - Len(p)) = i
        BY <1>1, <1>4, <3>2
      <4>2. pq[i] = q[i - Len(p)]
        BY <1>2, <4>1 DEF pq
      <4>3. QED  BY <1>1, <4>1, <4>2 DEF ToSet
    <3>3. QED  BY <3>1, <3>2
  <2>2. ASSUME NEW i \in DOMAIN p PROVE p[i] \in ToSet(pq)
    <3>1. i \in DOMAIN pq /\ pq[i] = p[i]
      BY <1>1, <1>2, <1>4 DEF pq
    <3>2. QED  BY <3>1 DEF ToSet
  <2>3. ASSUME NEW i \in DOMAIN q PROVE q[i] \in ToSet(pq)
    <3>1. Len(p) + i \in DOMAIN pq /\ pq[Len(p) + i] = q[i]
      BY <1>1, <1>2, <1>4 DEF pq
    <3>2. QED  BY <3>1 DEF ToSet
  <2>4. QED  BY <2>1, <2>2, <2>3 DEF ToSet
<1>6. QED  BY <1>1, <1>2, <1>3, <1>4, <1>5 DEF pq

\* The names of the columns of a list.
NamesOf(s) == [i \in DOMAIN s |-> s[i].name]

\* The names of the records of a list.
LEMMA NamesAreListed ==
  ASSUME NEW N, NEW s \in Seq([name : N, must : BOOLEAN])
  PROVE  NamesOf(s) \in Seq(N) /\ DOMAIN NamesOf(s) = DOMAIN s
         /\ ToSet(NamesOf(s)) = {s[i].name : i \in DOMAIN s}
<1>1. /\ Len(s) \in Nat /\ DOMAIN s = 1 .. Len(s)
      /\ \A i \in DOMAIN s : s[i] \in [name : N, must : BOOLEAN]
  BY PlacesOf
<1>2. NamesOf(s) \in [1 .. Len(s) -> N] /\ DOMAIN NamesOf(s) = DOMAIN s
  BY <1>1 DEF NamesOf
<1>3. NamesOf(s) \in Seq(N)
  BY <1>1, <1>2, ListOf
<1>4. ToSet(NamesOf(s)) = {s[i].name : i \in DOMAIN s}
  BY DEF NamesOf, ToSet
<1>5. QED  BY <1>2, <1>3, <1>4

\* build_prompt_columns_from_kb_recall: the columns of an active table are its own, each
\* once, all of them if they fit; none that must be there makes way for one that need
\* not.  Of any other table there is nothing but what was recalled.
THEOREM ColumnsCorrect ==
  ASSUME NEW active \in BOOLEAN, NEW N, NEW cols \in Seq([name : N, must : BOOLEAN]), NEW keys,
         NEW recalled \in Seq(N)
  PROVE  ColumnsFit(active, cols, keys, recalled)
<1> SUFFICES ASSUME active PROVE ColumnsFit(active, cols, keys, recalled)
  BY DEF ColumnsFit, PromptColumns
<1> DEFINE C == [name : N, must : BOOLEAN]
           is == {i \in DOMAIN cols : cols[i].must \/ cols[i].name \in keys}
           isnt == {i \in DOMAIN cols : ~(cols[i].must \/ cols[i].name \in keys)}
           ahead == NamesOf(Kept(cols, is))
           behind == NamesOf(Kept(cols, isnt))
           some == ahead \o recalled
           all == some \o behind
           names == {cols[i].name : i \in DOMAIN cols}
           musts == {cols[i].name : i \in is}
           shown == Taken(all, names, MaxColumns)
<1>1. PromptColumns(active, cols, keys, recalled) = shown
  <2>1. names = ToSet(NamesOf(cols))
    BY NamesAreListed
  <2> HIDE DEF names
  <2>2. QED  BY <2>1 DEF PromptColumns, Taken, Where, NamesOf
<1>2. ahead \in Seq(N) /\ ToSet(ahead) = musts
  <2>1. /\ Kept(cols, is) \in Seq(C)
        /\ ToSet(Kept(cols, is)) = {cols[i] : i \in is}
    <3>1. is \in SUBSET DOMAIN cols
      OBVIOUS
    <3> HIDE DEF is
    <3>2. QED  BY <3>1, KeptOf
  <2> DEFINE kept == Kept(cols, is)
  <2> HIDE DEF kept, is
  <2>2. ahead \in Seq(N) /\ ToSet(ahead) = {kept[i].name : i \in DOMAIN kept}
    BY <2>1, NamesAreListed DEF kept
  <2>3. {kept[i].name : i \in DOMAIN kept} = {x.name : x \in {kept[i] : i \in DOMAIN kept}}
    OBVIOUS
  <2>4. {kept[i] : i \in DOMAIN kept} = {cols[i] : i \in is}
    BY <2>1 DEF ToSet, kept
  <2>5. {x.name : x \in {cols[i] : i \in is}} = musts
    OBVIOUS
  <2>6. {kept[i].name : i \in DOMAIN kept} = musts
    BY <2>3, <2>4, <2>5, Zenon
  <2>7. QED  BY <2>2, <2>6
<1>3. behind \in Seq(N) /\ ToSet(behind) = {cols[i].name : i \in isnt}
  <2>1. /\ Kept(cols, isnt) \in Seq(C)
        /\ ToSet(Kept(cols, isnt)) = {cols[i] : i \in isnt}
    <3>1. isnt \in SUBSET DOMAIN cols
      OBVIOUS
    <3> HIDE DEF isnt
    <3>2. QED  BY <3>1, KeptOf
  <2> DEFINE kept == Kept(cols, isnt)
  <2> HIDE DEF kept, isnt
  <2>2. behind \in Seq(N) /\ ToSet(behind) = {kept[i].name : i \in DOMAIN kept}
    BY <2>1, NamesAreListed DEF kept
  <2>3. {kept[i].name : i \in DOMAIN kept} = {x.name : x \in {kept[i] : i \in DOMAIN kept}}
    OBVIOUS
  <2>4. {kept[i] : i \in DOMAIN kept} = {cols[i] : i \in isnt}
    BY <2>1 DEF ToSet, kept
  <2>5. {x.name : x \in {cols[i] : i \in isnt}} = {cols[i].name : i \in isnt}
    OBVIOUS
  <2>6. {kept[i].name : i \in DOMAIN kept} = {cols[i].name : i \in isnt}
    BY <2>3, <2>4, <2>5, Zenon
  <2>7. QED  BY <2>2, <2>6
<1>4. names \subseteq musts \cup {cols[i].name : i \in isnt}
  OBVIOUS
<1> HIDE DEF ahead, behind, names, musts
<1>5. /\ some \in Seq(N) /\ ToSet(some) = ToSet(ahead) \cup ToSet(recalled)
      /\ Len(ahead) \in Nat /\ Len(some) = Len(ahead) + Len(recalled) /\ Len(recalled) \in Nat
      /\ \A i \in DOMAIN ahead : some[i] = ahead[i]
  BY <1>2, JoinedLists
<1>6. DOMAIN ahead = 1 .. Len(ahead)
  BY <1>2, PlacesOf
<1>7. DOMAIN some = 1 .. Len(some)
  BY <1>5, PlacesOf
<1> HIDE DEF some
<1>8. /\ all \in Seq(N) /\ ToSet(all) = ToSet(some) \cup ToSet(behind)
      /\ DOMAIN all = 1 .. Len(some) + Len(behind) /\ Len(some) \in Nat /\ Len(behind) \in Nat
      /\ \A i \in DOMAIN some : all[i] = some[i]
  <2>1. some \in Seq(N) /\ behind \in Seq(N)
    BY <1>3, <1>5
  <2>2. QED  BY ONLY <2>1, JoinedLists
<1> HIDE DEF all
<1>9. /\ IsInjective(shown) /\ ToSet(shown) \subseteq names \cap ToSet(all)
      /\ Len(shown) <= MaxColumns
      /\ Len(shown) = MaxColumns \/ ToSet(shown) = names \cap ToSet(all)
      /\ \A i \in DOMAIN all : all[i] \in names \ ToSet(shown) =>
               \A y \in ToSet(shown) : \E j \in DOMAIN all : j < i /\ all[j] = y
  <2>1. all \in Seq(N) /\ MaxColumns \in Nat
    BY <1>8, PromptContextAssumption
  <2>2. QED  BY ONLY <2>1, TakenAreFirst
<1> HIDE DEF shown
<1>10. names \cap ToSet(all) = names
  BY <1>2, <1>3, <1>4, <1>5, <1>8
<1>11. musts \subseteq ToSet(shown) \/ ToSet(shown) \subseteq musts
  <2> SUFFICES ASSUME NEW x \in musts, x \notin ToSet(shown), NEW y \in ToSet(shown)
               PROVE  y \in musts
    OBVIOUS
  <2>1. PICK i \in DOMAIN ahead : ahead[i] = x
    BY <1>2 DEF ToSet
  <2>2. i \in DOMAIN all /\ all[i] = x /\ i <= Len(ahead)
    BY <1>5, <1>6, <1>7, <1>8, <2>1
  <2>3. x \in names
    BY DEF musts, names
  <2>4. PICK j \in DOMAIN all : j < i /\ all[j] = y
    BY <1>9, <2>2, <2>3
  <2>5. j \in DOMAIN ahead /\ all[j] = ahead[j]
    BY <1>5, <1>6, <1>7, <1>8, <2>1, <2>4
  <2>6. QED  BY <1>2, <2>4, <2>5 DEF ToSet
<1>12. QED  BY <1>1, <1>9, <1>10, <1>11 DEF ColumnsFit, names, musts

-----------------------------------------------------------------------------
(* The tables of a prompt                                                    *)

\* Places by a number, and by themselves among equals.
ByKey(v, D) == {q \in D \X D : v[q[1]] < v[q[2]] \/ (v[q[1]] = v[q[2]] /\ q[1] < q[2])}

ArrangedBy(s, v) == Arranged(s, ByKey(v, DOMAIN s))

\* A list sorted by a number is the list, rearranged by it.
LEMMA SortByKey ==
  ASSUME NEW T, NEW s \in Seq(T), NEW v, \A i \in DOMAIN s : v[i] \in Int
  PROVE  ArrangedBy(s, v) \in Seq(T) /\ \E p : Arranges(p, ArrangedBy(s, v), s, ByKey(v, DOMAIN s))
<1> DEFINE D == DOMAIN s
           R == ByKey(v, D)
<1>1. \A i, j \in D : <<i, j>> \in R <=> v[i] < v[j] \/ (v[i] = v[j] /\ i < j)
  BY DEF ByKey
<1>2. StrictOrder(R, D)
  <2>1. D \in SUBSET Nat
    BY PlacesOf
  <2> HIDE DEF R, D
  <2>2. \A i \in D : v[i] \in Int
    BY DEF D
  <2>3. QED  BY <1>1, <2>1, <2>2, KeyOrder
<1>3. QED  BY <1>2, SortOf DEF ArrangedBy

\* Tables by their score.
LEMMA ByScore ==
  ASSUME NEW T, NEW s \in Seq([table : T, score : Int])
  PROVE  LET t == StableSort(s, LAMBDA x, y : x.score > y.score)
         IN /\ t \in Seq([table : T, score : Int]) /\ ToSet(t) = ToSet(s) /\ DOMAIN t = DOMAIN s
            /\ \A j, k \in DOMAIN t : j < k => t[j].score >= t[k].score
<1> DEFINE D == DOMAIN s
           v == [i \in D |-> 0 - s[i].score]
           R == ByKey(v, D)
           first(i, j) == s[i].score > s[j].score \/ (~(s[j].score > s[i].score) /\ i < j)
           t == ArrangedBy(s, v)
           place(k) == CHOOSE i \in D : Cardinality({j \in D : <<j, i>> \in R}) = k - 1
           least(k) == CHOOSE i \in D : Cardinality({j \in D : first(j, i)}) = k - 1
<1>1. \A i \in D : s[i] \in [table : T, score : Int] /\ i \in Nat
  <2>1. /\ Len(s) \in Nat /\ DOMAIN s = 1 .. Len(s)
        /\ \A i \in DOMAIN s : s[i] \in [table : T, score : Int]
    BY PlacesOf
  <2>2. QED  BY <2>1
<1>2. \A i \in D : s[i].score \in Int /\ v[i] = 0 - s[i].score /\ v[i] \in Int
  BY <1>1
<1>3. ASSUME NEW i \in D, NEW j \in D
      PROVE  <<i, j>> \in R <=> first(i, j)
  <2>1. <<i, j>> \in R <=> v[i] < v[j] \/ (v[i] = v[j] /\ i < j)
    <3> HIDE DEF v
    <3>1. QED  BY DEF ByKey
  <2>2. v[i] = 0 - s[i].score /\ v[j] = 0 - s[j].score /\ s[i].score \in Int /\ s[j].score \in Int
    BY <1>2
  <2> HIDE DEF v, R
  <2>3. QED  BY <2>1, <2>2
<1> HIDE DEF v, R, first
<1>4. \A k \in D : place(k) = least(k)
  <2>1. \A i \in D : {j \in D : first(j, i)} = {j \in D : <<j, i>> \in R}
    BY <1>3
  <2>2. QED  BY <2>1
<1>5. D = 1 .. Cardinality(D)
  BY PlacesOf
<1>6. \A k \in D : InPlace(R, D)[k] = place(k)
  BY <1>5 DEF InPlace
<1>7. StableSort(s, LAMBDA x, y : x.score > y.score) = [k \in D |-> s[least(k)]]
  BY DEF StableSort, first
<1> HIDE DEF place, least
<1>8. t = StableSort(s, LAMBDA x, y : x.score > y.score)
  <2>1. t = [k \in D |-> s[InPlace(R, D)[k]]]
    BY DEF ArrangedBy, Arranged, R
  <2> HIDE DEF t
  <2>2. QED  BY <1>4, <1>6, <1>7, <2>1
<1>9. t \in Seq([table : T, score : Int]) /\ \E p : Arranges(p, t, s, R)
  <2>1. \A i \in DOMAIN s : v[i] \in Int
    BY <1>2
  <2>2. QED  BY <2>1, SortByKey DEF R
<1>10. PICK p : Arranges(p, t, s, R)
  BY <1>9
<1> HIDE DEF t
<1>11. ASSUME NEW j \in DOMAIN t, NEW k \in DOMAIN t, j < k
       PROVE  t[j].score >= t[k].score
  <2>1. j \in D /\ k \in D
    BY <1>10, <1>11 DEF Arranges
  <2>2. p[j] \in D /\ p[k] \in D /\ <<p[j], p[k]>> \in R
    BY <1>10, <1>11, <2>1 DEF Arranges
  <2> DEFINE a == p[j]
             b == p[k]
  <2> HIDE DEF a, b
  <2>3. a \in D /\ b \in D /\ (v[a] < v[b] \/ v[a] = v[b])
    <3>1. a \in D /\ b \in D /\ <<a, b>> \in R
      BY <2>2 DEF a, b
    <3>2. QED  BY <3>1 DEF R, ByKey
  <2>4. s[a].score >= s[b].score
    BY <1>2, <2>3
  <2>5. t[j] = s[a] /\ t[k] = s[b]
    BY <1>10, <2>1 DEF a, b, Arranges
  <2>6. QED  BY <2>4, <2>5
<1>12. DOMAIN t = DOMAIN s /\ ToSet(t) = ToSet(s)
  BY <1>10 DEF Arranges
<1>13. QED  BY <1>8, <1>9, <1>11, <1>12

\* boost_tables_by_code_artifacts: the same tables, each with its boost, by the score
\* they have then.
LEMMA BoostedAre ==
  ASSUME NEW T, NEW s \in Seq([table : T, score : Int]), NEW artifacts
  PROVE  LET t == Boosted(s, artifacts)
         IN /\ \A k \in DOMAIN t : \E i \in DOMAIN s :
                  t[k].table = s[i].table /\ t[k].score = s[i].score + Boost(s[i].table, artifacts)
            /\ \A i \in DOMAIN s : \E k \in DOMAIN t : t[k].table = s[i].table
            /\ artifacts # {} => \A j, k \in DOMAIN t : j < k => t[j].score >= t[k].score
<1> DEFINE Rows == [table : T, score : Int]
           raised == [i \in DOMAIN s |-> [s[i] EXCEPT !.score = @ + Boost(s[i].table, artifacts)]]
           t == Boosted(s, artifacts)
<1>1. /\ Len(s) \in Nat /\ DOMAIN s = 1 .. Len(s)
      /\ \A i \in DOMAIN s : s[i] \in Rows
  BY PlacesOf
<1>2. ASSUME NEW i \in DOMAIN s
      PROVE  /\ raised[i] \in Rows /\ raised[i].table = s[i].table
             /\ raised[i].score = s[i].score + Boost(s[i].table, artifacts)
  <2>1. Boost(s[i].table, artifacts) \in Nat
    BY PromptContextAssumption DEF Boost
  <2>2. s[i] \in Rows
    BY <1>1
  <2>3. QED  BY <2>1, <2>2
<1>3. raised \in Seq(Rows) /\ DOMAIN raised = DOMAIN s
  <2>1. raised \in [1 .. Len(s) -> Rows]
    BY <1>1, <1>2
  <2> HIDE DEF raised, Rows
  <2>2. QED  BY <1>1, <2>1, ListOf
<1>4. CASE artifacts = {}
  <2>1. t = s
    BY <1>4 DEF Boosted
  <2>2. \A i \in DOMAIN s : s[i].score \in Int /\ Boost(s[i].table, artifacts) = 0
    BY <1>1, <1>4 DEF Boost
  <2> HIDE DEF t
  <2>3. QED  BY <1>4, <2>1, <2>2 DEF t
<1>5. CASE artifacts # {}
  <2>1. t = StableSort(raised, LAMBDA x, y : x.score > y.score)
    BY <1>5 DEF Boosted
  <2> HIDE DEF t, raised
  <2>2. /\ ToSet(t) = ToSet(raised)
        /\ \A j, k \in DOMAIN t : j < k => t[j].score >= t[k].score
    BY <1>3, <2>1, ByScore
  <2>3. \A k \in DOMAIN t : \E i \in DOMAIN s : t[k] = raised[i]
    BY <1>3, <2>2 DEF ToSet
  <2>4. \A i \in DOMAIN s : \E k \in DOMAIN t : t[k] = raised[i]
    BY <1>3, <2>2 DEF ToSet
  <2>5. QED  BY <1>2, <2>2, <2>3, <2>4 DEF t
<1>6. QED  BY <1>4, <1>5

\* The names of the tables, by the scores of the recall.
ByRecall(tables, allowed) ==
    LET names == KbTables(tables, allowed)
        best(t) == {tables[i].score : i \in {j \in DOMAIN tables : tables[j].table = t}}
    IN /\ IsInjective(names) /\ Len(names) <= MaxTables
       /\ ToSet(names) \subseteq allowed
       /\ \A n \in ToSet(names) : \E i \in DOMAIN tables : tables[i].table = n
       /\ \A i \in DOMAIN tables : tables[i].table \in allowed \ ToSet(names) =>
            /\ Len(names) = MaxTables
            /\ \A n \in ToSet(names) : \E s \in best(n) : \A r \in best(tables[i].table) : r <= s

\* The names of the tables: allowed, different, no more than asked for, and one that is
\* left out has no better score than any of them.
LEMMA NamesAreBest ==
  ASSUME NEW T, NEW tables \in Seq([table : T, score : Int]), NEW allowed
  PROVE  KbTables(tables, allowed) \in Seq(T) /\ ByRecall(tables, allowed)
<1> DEFINE Rows == [table : T, score : Int]
           ranked == StableSort(tables, LAMBDA x, y : x.score > y.score)
           all == [i \in DOMAIN ranked |-> ranked[i].table]
           names == KbTables(tables, allowed)
           best(t) == {tables[i].score : i \in {j \in DOMAIN tables : tables[j].table = t}}
<1>1. names = Taken(all, allowed, MaxTables)
  BY DEF KbTables, Taken
<1>2. /\ ranked \in Seq(Rows) /\ ToSet(ranked) = ToSet(tables)
      /\ \A j, k \in DOMAIN ranked : j < k => ranked[j].score >= ranked[k].score
  BY ByScore
<1> HIDE DEF ranked, names
<1>3. /\ Len(ranked) \in Nat /\ DOMAIN ranked = 1 .. Len(ranked)
      /\ \A i \in DOMAIN ranked : ranked[i] \in Rows
  BY <1>2, PlacesOf
<1>4. all \in Seq(T) /\ DOMAIN all = DOMAIN ranked
  <2>1. all \in [1 .. Len(ranked) -> T]
    BY <1>3
  <2> HIDE DEF all
  <2>2. QED  BY <1>3, <2>1, ListOf
<1>5. \A i \in DOMAIN ranked : all[i] = ranked[i].table
  OBVIOUS
<1> HIDE DEF all
<1>6. /\ names \in Seq(T) /\ IsInjective(names) /\ ToSet(names) \subseteq allowed \cap ToSet(all)
      /\ Len(names) <= MaxTables
      /\ Len(names) = MaxTables \/ ToSet(names) = allowed \cap ToSet(all)
      /\ \A i \in DOMAIN all : all[i] \in allowed \ ToSet(names) =>
               \A y \in ToSet(names) : \E j \in DOMAIN all : j < i /\ all[j] = y
  BY <1>1, <1>4, TakenAreFirst, PromptContextAssumption
<1>7. \A x : x \in ToSet(tables) <=> \E k \in DOMAIN ranked : ranked[k] = x
  BY <1>2 DEF ToSet
<1>8. ASSUME NEW k \in DOMAIN ranked
      PROVE  \E i \in DOMAIN tables : tables[i] = ranked[k]
  BY <1>7 DEF ToSet
<1>9. \A t : best(t) = {ranked[k].score : k \in {j \in DOMAIN ranked : ranked[j].table = t}}
  <2>1. ASSUME NEW i \in DOMAIN tables
        PROVE  \E k \in DOMAIN ranked : ranked[k] = tables[i]
    BY <1>7 DEF ToSet
  <2>2. QED  BY <1>8, <2>1
<1>10. ASSUME NEW i \in DOMAIN tables, tables[i].table \in allowed \ ToSet(names)
       PROVE  /\ Len(names) = MaxTables
              /\ \A n \in ToSet(names) : \E s \in best(n) : \A r \in best(tables[i].table) : r <= s
  <2> DEFINE t == tables[i].table
             at == {k \in DOMAIN ranked : ranked[k].table = t}
  <2>1. tables[i] \in ToSet(tables)
    BY DEF ToSet
  <2>2. PICK k \in DOMAIN ranked : ranked[k] = tables[i]
    BY <1>7, <2>1
  <2>3. k \in at
    BY <2>2
  <2>4. all[k] \in allowed \ ToSet(names) /\ all[k] \in ToSet(all)
    BY <1>4, <1>5, <1>10, <2>2 DEF ToSet
  <2>5. Len(names) = MaxTables
    BY <1>6, <2>4
  <2>6. at \in SUBSET Nat /\ at # {}
    BY <1>3, <2>3
  <2> HIDE DEF at
  <2>7. PICK f \in at : \A j \in at : f <= j
    BY <2>6, LeastIs
  <2>8. ASSUME NEW n \in ToSet(names)
        PROVE  \E s \in best(n) : \A r \in best(t) : r <= s
    <3>1. f \in DOMAIN ranked /\ all[f] = t
      BY <1>5, <2>7 DEF at
    <3>2. PICK j \in DOMAIN ranked : j < f /\ all[j] = n
      BY <1>4, <1>6, <1>10, <3>1
    <3>3. ranked[j].score \in best(n)
      BY <1>5, <1>9, <3>2
    <3>4. ASSUME NEW r \in best(t) PROVE r <= ranked[j].score
      <4>1. PICK l \in DOMAIN ranked : ranked[l].table = t /\ r = ranked[l].score
        <5>1. r \in {ranked[l].score : l \in {m \in DOMAIN ranked : ranked[m].table = t}}
          BY <1>9
        <5>2. QED  BY <5>1
      <4>2. f <= l
        BY <2>7, <4>1 DEF at
      <4>3. j < l
        BY <1>3, <3>1, <3>2, <4>1, <4>2
      <4>4. ranked[j].score >= ranked[l].score /\ ranked[j].score \in Int /\ ranked[l].score \in Int
        BY <1>2, <1>3, <3>2, <4>1, <4>3
      <4>5. QED  BY <4>1, <4>4
    <3> HIDE DEF best
    <3>5. QED  BY <3>3, <3>4
  <2>9. QED  BY <2>5, <2>8
<1>11. ASSUME NEW n \in ToSet(names) PROVE \E i \in DOMAIN tables : tables[i].table = n
  <2>1. PICK k \in DOMAIN all : all[k] = n
    BY <1>6 DEF ToSet
  <2>2. PICK i \in DOMAIN tables : tables[i] = ranked[k]
    BY <1>4, <1>8, <2>1
  <2>3. QED  BY <1>4, <1>5, <2>1, <2>2
<1> HIDE DEF best
<1>12. ByRecall(tables, allowed)
  BY <1>6, <1>10, <1>11, Zenon DEF ByRecall, names, best
<1>13. QED  BY <1>6, <1>12 DEF names

\* What was recalled of them.
OfNames(recalled, tables, names) ==
    /\ \A k \in DOMAIN recalled : recalled[k].table \in ToSet(names) /\ recalled[k] \in ToSet(tables)
    /\ (\A i, j \in DOMAIN tables : tables[i].table = tables[j].table => i = j) =>
         \A n \in ToSet(names) : \E k \in DOMAIN recalled : recalled[k].table = n

\* The tables recalled that are among the names: when the tables recalled differ they
\* are no more than the names, and none is cut.
LEMMA RecalledAreNamed ==
  ASSUME NEW T, NEW tables \in Seq([table : T, score : Int]), NEW allowed
  PROVE  /\ KbRecalled(tables, allowed) \in Seq([table : T, score : Int])
         /\ OfNames(KbRecalled(tables, allowed), tables, KbTables(tables, allowed))
<1> DEFINE Rows == [table : T, score : Int]
           names == KbTables(tables, allowed)
           I == {i \in DOMAIN tables : tables[i].table \in ToSet(names)}
           kept == Kept(tables, I)
           recalled == KbRecalled(tables, allowed)
<1>1. /\ names \in Seq(T) /\ Len(names) <= MaxTables
      /\ \A n \in ToSet(names) : \E i \in DOMAIN tables : tables[i].table = n
  <2>1. names \in Seq(T) /\ ByRecall(tables, allowed)
    BY NamesAreBest
  <2>2. QED  BY <2>1, Zenon DEF ByRecall
<1>2. recalled = Leading(kept, MaxTables)
  BY DEF KbRecalled, Where
<1> HIDE DEF names, recalled
<1>3. \A i \in DOMAIN tables : i \in I <=> tables[i].table \in ToSet(names)
  OBVIOUS
<1>4. I \in SUBSET DOMAIN tables
  OBVIOUS
<1> HIDE DEF I
<1>5. /\ IsFiniteSet(I) /\ Cardinality(I) \in Nat
      /\ kept \in Seq(Rows) /\ Len(kept) = Cardinality(I) /\ ToSet(kept) = {tables[i] : i \in I}
  BY <1>4, KeptOf
<1> HIDE DEF kept
<1>6. /\ recalled \in Seq(Rows) /\ Len(recalled) = IF Len(kept) < MaxTables THEN Len(kept) ELSE MaxTables
      /\ DOMAIN recalled = 1 .. Len(recalled) /\ DOMAIN recalled \subseteq DOMAIN kept
      /\ \A k \in DOMAIN recalled : recalled[k] = kept[k]
  BY <1>2, <1>5, LeadingOf, PromptContextAssumption
<1>7. ASSUME NEW k \in DOMAIN recalled
      PROVE  recalled[k].table \in ToSet(names) /\ recalled[k] \in ToSet(tables)
  <2>1. recalled[k] \in ToSet(kept)
    BY <1>6 DEF ToSet
  <2>2. PICK i \in I : recalled[k] = tables[i]
    BY <1>5, <2>1
  <2>3. QED  BY <1>3, <1>4, <2>2 DEF ToSet
<1>8. ASSUME \A i, j \in DOMAIN tables : tables[i].table = tables[j].table => i = j,
             NEW n \in ToSet(names)
      PROVE  \E k \in DOMAIN recalled : recalled[k].table = n
  <2> DEFINE m == Len(names)
             f == [i \in I |-> CHOOSE p \in 1 .. m : names[p] = tables[i].table]
  <2>1. m \in Nat /\ DOMAIN names = 1 .. m
    BY <1>1, PlacesOf
  <2> HIDE DEF m
  <2>2. \A i \in I : \E p \in 1 .. m : names[p] = tables[i].table
    BY <1>3, <1>4, <2>1 DEF ToSet
  <2>3. f \in [I -> 1 .. m] /\ \A i \in I : names[f[i]] = tables[i].table
    BY <2>2
  <2> HIDE DEF f
  <2>4. \A i, j \in I : f[i] = f[j] => i = j
    BY <1>4, <1>8, <2>3
  <2>5. f \in Injection(I, 1 .. m)
    BY <2>3, <2>4 DEF Injection, IsInjective
  <2>6. IsFiniteSet(1 .. m) /\ Cardinality(1 .. m) = m
    BY <2>1, FS_Interval
  <2>7. Cardinality(I) <= m
    <3>1. Cardinality(I) <= Cardinality(1 .. m)
      BY <2>5, <2>6, FS_Injection
    <3>2. QED  BY <2>6, <3>1
  <2>8. MaxTables \in Nat /\ Len(names) = m
    BY PromptContextAssumption DEF m
  <2>9. Len(recalled) = Len(kept)
    BY <1>1, <1>5, <1>6, <2>1, <2>7, <2>8
  <2>10. DOMAIN recalled = DOMAIN kept
    BY <1>5, <1>6, <2>9, PlacesOf
  <2>11. PICK i \in DOMAIN tables : tables[i].table = n
    BY <1>1
  <2>12. tables[i] \in ToSet(kept)
    BY <1>3, <1>5, <2>11
  <2>13. PICK k \in DOMAIN kept : kept[k] = tables[i]
    BY <2>12 DEF ToSet
  <2>14. QED  BY <1>6, <2>10, <2>11, <2>13
<1>9. OfNames(recalled, tables, names)
  BY <1>7, <1>8, Zenon DEF OfNames
<1>10. QED  BY <1>6, <1>9 DEF names, recalled

\* apply_kb_recall_limits, finalize_kb_recall: the tables are chosen by the scores of
\* the recall, and none with a better one is left out; the boost that comes then only
\* orders what was chosen.
THEOREM TablesCorrect ==
  ASSUME NEW T, NEW tables \in Seq([table : T, score : Int]), NEW artifacts, NEW allowed
  PROVE  TablesAreBest(tables, artifacts, allowed)
<1> DEFINE names == KbTables(tables, allowed)
           recalled == KbRecalled(tables, allowed)
           shown == Finalized(tables, artifacts, allowed)
           best(t) == {tables[i].score : i \in {j \in DOMAIN tables : tables[j].table = t}}
           Differ == \A i, j \in DOMAIN tables : tables[i].table = tables[j].table => i = j
<1>1. /\ IsInjective(names) /\ Len(names) <= MaxTables /\ ToSet(names) \subseteq allowed
      /\ \A i \in DOMAIN tables : tables[i].table \in allowed \ ToSet(names) =>
           /\ Len(names) = MaxTables
           /\ \A n \in ToSet(names) : \E s \in best(n) : \A r \in best(tables[i].table) : r <= s
  <2>1. ByRecall(tables, allowed)
    BY NamesAreBest
  <2>2. QED  BY <2>1, Zenon DEF ByRecall
<1>2. /\ recalled \in Seq([table : T, score : Int])
      /\ \A k \in DOMAIN recalled : recalled[k].table \in ToSet(names) /\ recalled[k] \in ToSet(tables)
      /\ Differ => \A n \in ToSet(names) : \E k \in DOMAIN recalled : recalled[k].table = n
  <2>1. recalled \in Seq([table : T, score : Int]) /\ OfNames(recalled, tables, names)
    BY RecalledAreNamed
  <2>2. QED  BY <2>1, Zenon DEF OfNames
<1>3. shown = Boosted(recalled, artifacts)
  BY DEF Finalized
<1> HIDE DEF names, recalled, shown, Differ
<1>4. /\ \A k \in DOMAIN shown : \E i \in DOMAIN recalled :
            /\ shown[k].table = recalled[i].table
            /\ shown[k].score = recalled[i].score + Boost(recalled[i].table, artifacts)
      /\ \A i \in DOMAIN recalled : \E k \in DOMAIN shown : shown[k].table = recalled[i].table
      /\ artifacts # {} => \A j, k \in DOMAIN shown : j < k => shown[j].score >= shown[k].score
  <2> DEFINE b == Boosted(recalled, artifacts)
  <2>1. recalled \in Seq([table : T, score : Int])
    BY <1>2
  <2>2. /\ \A k \in DOMAIN b : \E i \in DOMAIN recalled :
               b[k].table = recalled[i].table /\ b[k].score = recalled[i].score + Boost(recalled[i].table, artifacts)
        /\ \A i \in DOMAIN recalled : \E k \in DOMAIN b : b[k].table = recalled[i].table
        /\ artifacts # {} => \A j, k \in DOMAIN b : j < k => b[j].score >= b[k].score
    BY ONLY <2>1, BoostedAre, Zenon
  <2>3. QED  BY <1>3, <2>2, Zenon
<1>5. ASSUME NEW k \in DOMAIN shown
      PROVE  /\ shown[k].table \in ToSet(names)
             /\ \E s \in best(shown[k].table) : shown[k].score = s + Boost(shown[k].table, artifacts)
  <2>1. PICK i \in DOMAIN recalled :
            /\ shown[k].table = recalled[i].table
            /\ shown[k].score = recalled[i].score + Boost(recalled[i].table, artifacts)
    BY <1>4
  <2>2. PICK j \in DOMAIN tables : tables[j] = recalled[i]
    BY <1>2 DEF ToSet
  <2>3. tables[j].score \in best(shown[k].table)
    BY <2>1, <2>2
  <2> HIDE DEF best
  <2>4. QED  BY <1>2, <2>1, <2>2, <2>3
<1>6. Differ => ToSet(names) = {shown[k].table : k \in DOMAIN shown}
  <2> SUFFICES ASSUME Differ PROVE ToSet(names) = {shown[k].table : k \in DOMAIN shown}
    OBVIOUS
  <2>1. {shown[k].table : k \in DOMAIN shown} \subseteq ToSet(names)
    BY <1>5
  <2>2. ASSUME NEW n \in ToSet(names) PROVE n \in {shown[k].table : k \in DOMAIN shown}
    <3>1. PICK i \in DOMAIN recalled : recalled[i].table = n
      BY <1>2
    <3>2. PICK k \in DOMAIN shown : shown[k].table = n
      BY <1>4, <3>1
    <3>3. QED  BY <3>2
  <2>3. QED  BY <2>1, <2>2
<1> HIDE DEF best
<1>7. QED  BY <1>1, <1>4, <1>5, <1>6, Zenon DEF TablesAreBest, names, shown, best, Differ

-----------------------------------------------------------------------------
(* The examples of a prompt                                                  *)

\* rank_curated_examples_for_prompt: the examples shown are those the user may
\* see, and no better one is left out.  Their ids differ: they are keys.
THEOREM ExamplesCorrect ==
  ASSUME NEW E, \A x \in E : x.id \in Int /\ x.priority \in Int /\ x.score \in Int,
         NEW examples \in Seq(E),
         \A i, j \in DOMAIN examples : examples[i].id = examples[j].id => i = j,
         NEW role, NEW allowed
  PROVE  ExamplesAreBest(examples, role, allowed)
<1> DEFINE I == {i \in DOMAIN examples : Fits(examples[i], role, allowed)}
           s == Kept(examples, I)
           D == DOMAIN s
           first(i, j) == Better(s[i], s[j]) \/ (~Better(s[j], s[i]) /\ i < j)
           R == {q \in D \X D : first(q[1], q[2])}
           t == Arranged(s, R)
           shown == Leading(t, MaxExamples)
           place(k) == CHOOSE i \in D : Cardinality({j \in D : <<j, i>> \in R}) = k - 1
           least(k) == CHOOSE i \in D : Cardinality({j \in D : first(j, i)}) = k - 1
<1>1. s \in Seq(E) /\ ToSet(s) = {examples[i] : i \in I}
  <2>1. I \in SUBSET DOMAIN examples
    OBVIOUS
  <2> HIDE DEF I
  <2>2. QED  BY <2>1, KeptOf
<1>2. /\ \A x, y \in ToSet(s) : x.id = y.id => x = y
      /\ \A x \in ToSet(s) : Fits(x, role, allowed)
      /\ \A x \in ToSet(examples) : Fits(x, role, allowed) => x \in ToSet(s)
  <2>1. \A i \in I : i \in DOMAIN examples /\ Fits(examples[i], role, allowed)
    OBVIOUS
  <2>2. \A i \in DOMAIN examples : Fits(examples[i], role, allowed) => i \in I
    OBVIOUS
  <2> HIDE DEF I, s
  <2>3. QED  BY <1>1, <2>1, <2>2 DEF ToSet
<1>3. Examples(examples, role, allowed) = Leading(StableSort(s, Better), MaxExamples)
  BY DEF Examples, Where
<1> HIDE DEF I, s
<1>4. \A i \in D : s[i] \in E /\ i \in Nat /\ s[i] \in ToSet(s)
  <2>1. Len(s) \in Nat /\ DOMAIN s = 1 .. Len(s) /\ \A i \in DOMAIN s : s[i] \in E
    BY <1>1, PlacesOf
  <2>2. QED  BY <2>1 DEF ToSet
<1>5. D = 1 .. Cardinality(D)
  BY <1>1, PlacesOf
<1>6. \A i, j \in D : <<i, j>> \in R <=> first(i, j)
  OBVIOUS
<1>7. StrictOrder(R, D)
  <2>1. \A i \in D : i \in Nat /\ s[i].id \in Int /\ s[i].priority \in Int /\ s[i].score \in Int
    BY <1>4
  <2> HIDE DEF R, D
  <2>2. ASSUME NEW i \in D, NEW j \in D, NEW k \in D, <<i, j>> \in R, <<j, k>> \in R
        PROVE  <<i, k>> \in R
    <3>1. first(i, j) /\ first(j, k)
      BY <1>6, <2>2
    <3>2. /\ i \in Nat /\ s[i].id \in Int /\ s[i].priority \in Int /\ s[i].score \in Int
          /\ j \in Nat /\ s[j].id \in Int /\ s[j].priority \in Int /\ s[j].score \in Int
          /\ k \in Nat /\ s[k].id \in Int /\ s[k].priority \in Int /\ s[k].score \in Int
      BY <2>1
    <3>3. \A a, b \in {i, j, k} :
             first(a, b) <=> \/ s[a].score > s[b].score
                             \/ /\ s[a].score = s[b].score
                                /\ \/ s[a].priority < s[b].priority
                                   \/ /\ s[a].priority = s[b].priority
                                      /\ s[a].id < s[b].id \/ (s[a].id = s[b].id /\ a < b)
      BY <3>2, SMTT(30) DEF Better
    <3> HIDE DEF first
    <3>4. first(i, k)
      BY <3>1, <3>2, <3>3, SMTT(30)
    <3>5. QED  BY <1>6, <3>4
  <2>3. \A i \in D : <<i, i>> \notin R
    BY <1>6, <2>1 DEF Better
  <2>4. \A i, j \in D : i # j => <<i, j>> \in R \/ <<j, i>> \in R
    <3> SUFFICES ASSUME NEW i \in D, NEW j \in D, i # j PROVE first(i, j) \/ first(j, i)
      BY <1>6
    <3>1. QED  BY <2>1
  <2>5. QED  BY <2>2, <2>3, <2>4 DEF StrictOrder
<1>8. t = StableSort(s, Better)
  <2>1. \A k \in D : place(k) = least(k)
    <3> HIDE DEF first, R
    <3>1. \A i \in D : {j \in D : first(j, i)} = {j \in D : <<j, i>> \in R}
      BY <1>6
    <3>2. QED  BY <3>1
  <2> HIDE DEF R
  <2>2. \A k \in D : InPlace(R, D)[k] = place(k)
    BY <1>5 DEF InPlace
  <2>3. StableSort(s, Better) = [k \in D |-> s[least(k)]]
    BY DEF StableSort
  <2>4. t = [k \in D |-> s[InPlace(R, D)[k]]]
    BY DEF Arranged
  <2> HIDE DEF t, place, least
  <2>5. QED  BY <2>1, <2>2, <2>3, <2>4
<1> HIDE DEF R
<1>9. t \in Seq(E) /\ \E p : Arranges(p, t, s, R)
  BY <1>1, <1>7, SortOf
<1>10. PICK p : Arranges(p, t, s, R)
  BY <1>9
<1> HIDE DEF t
<1>11. ToSet(t) = ToSet(s) /\ Len(t) \in Nat /\ DOMAIN t = 1 .. Len(t) /\ DOMAIN t = D
  BY <1>9, <1>10, PlacesOf DEF Arranges
<1>12. /\ Len(shown) = IF Len(t) < MaxExamples THEN Len(t) ELSE MaxExamples
       /\ DOMAIN shown = 1 .. Len(shown) /\ DOMAIN shown \subseteq DOMAIN t
       /\ \A i \in DOMAIN shown : shown[i] = t[i]
  BY <1>9, LeadingOf, PromptContextAssumption
<1> HIDE DEF shown
<1>13. ASSUME NEW i \in DOMAIN shown PROVE Fits(shown[i], role, allowed)
  BY <1>2, <1>11, <1>12 DEF ToSet
<1>14. ASSUME NEW e \in ToSet(examples) \ ToSet(shown), Fits(e, role, allowed)
       PROVE  Len(shown) = MaxExamples /\ \A i \in DOMAIN shown : Better(shown[i], e)
  <2>1. PICK k \in DOMAIN t : t[k] = e
    <3>1. e \in ToSet(t)
      BY <1>2, <1>11, <1>14
    <3>2. QED  BY <3>1 DEF ToSet
  <2>2. k \notin DOMAIN shown
    BY <1>12, <1>14, <2>1 DEF ToSet
  <2>3. Len(shown) = MaxExamples
    BY <1>11, <1>12, <2>2
  <2>4. ASSUME NEW i \in DOMAIN shown PROVE Better(shown[i], e)
    <3>1. i \in D /\ k \in D /\ i < k
      BY <1>11, <1>12, <2>1, <2>2, PromptContextAssumption
    <3>2. /\ p[i] \in D /\ p[k] \in D /\ <<p[i], p[k]>> \in R
          /\ t[i] = s[p[i]] /\ t[k] = s[p[k]]
      BY <1>10, <3>1 DEF Arranges
    <3>3. Better(t[i], t[k]) \/ ~Better(t[k], t[i])
      BY <1>6, <3>2
    <3>4. t[i] \in ToSet(s) /\ t[k] \in ToSet(s) /\ t[i] \in E /\ t[k] \in E
      BY <1>4, <3>2
    <3>5. t[i].id # t[k].id
      BY <1>2, <1>12, <1>14, <2>1, <3>4 DEF ToSet
    <3>6. Better(t[i], t[k])
      BY <3>3, <3>4, <3>5 DEF Better
    <3>7. QED  BY <1>12, <2>1, <3>6
  <2>5. QED  BY <2>3, <2>4
<1>15. Examples(examples, role, allowed) = shown
  BY <1>3, <1>8 DEF shown
<1>16. QED  BY <1>13, <1>14, <1>15 DEF ExamplesAreBest

\* A recursive function over the first numbers, told without its definition.
IsRun(g, base, F, n) ==
    DOMAIN g = 0 .. n /\ g[0] = base /\ \A i \in 1 .. n : g[i] = F[<<i, g[i - 1]>>]

\* A recursion over the numbers up to n has a solution.
LEMMA RunsExist ==
  ASSUME NEW n \in Nat, NEW X, NEW base \in X, NEW F \in [(1 .. n) \X X -> X]
  PROVE  \E g \in [0 .. n -> X] : IsRun(g, base, F, n)
<1> DEFINE Is(g, m) == /\ g \in [0 .. m -> X] /\ g[0] = base
                       /\ \A i \in 1 .. m : g[i] = F[<<i, g[i - 1]>>]
           S == {m \in Nat : m <= n => \E g : Is(g, m)}
<1>1. 0 \in S
  <2>1. Is([i \in 0 .. 0 |-> base], 0)
    OBVIOUS
  <2>2. QED  BY <2>1
<1>2. ASSUME NEW m \in S PROVE m + 1 \in S
  <2>0. m \in Nat /\ m + 1 \in Nat
    OBVIOUS
  <2>1. ASSUME m + 1 <= n PROVE \E g : Is(g, m + 1)
    <3>1. PICK g : Is(g, m)
      BY <2>0, <2>1
    <3> DEFINE last == F[<<m + 1, g[m]>>]
               h == [i \in 0 .. m + 1 |-> IF i <= m THEN g[i] ELSE last]
    <3>2. g[m] \in X
      BY <2>0, <3>1
    <3>3. <<m + 1, g[m]>> \in (1 .. n) \X X
      BY <2>0, <2>1, <3>2
    <3>4. last \in X
      BY <3>3
    <3>5. h \in [0 .. m + 1 -> X] /\ h[0] = base
      <4>1. \A i \in 0 .. m : g[i] \in X
        BY <3>1
      <4> HIDE DEF last
      <4>2. QED  BY <2>0, <3>1, <3>4, <4>1
    <3>6. ASSUME NEW i \in 1 .. m + 1 PROVE h[i] = F[<<i, h[i - 1]>>]
      <4>1. CASE i \in 1 .. m
        <5>1. h[i] = g[i] /\ h[i - 1] = g[i - 1]
          BY <2>0, <4>1
        <5>2. QED  BY <3>1, <4>1, <5>1
      <4>2. CASE i = m + 1
        <5>1. h[i] = last /\ h[i - 1] = g[m]
          BY <2>0, <4>2
        <5>2. QED  BY <4>2, <5>1
      <4>3. QED  BY <2>0, <4>1, <4>2
    <3>7. Is(h, m + 1)
      <4> HIDE DEF h
      <4>1. QED  BY <3>5, <3>6
    <3>8. QED  BY <3>7
  <2> HIDE DEF Is
  <2>2. QED  BY <2>0, <2>1
<1>3. n \in S
  <2>1. S \in SUBSET Nat
    OBVIOUS
  <2> HIDE DEF S
  <2>2. QED  BY <1>1, <1>2, <2>1, Induct
<1>4. PICK g : Is(g, n)
  BY <1>3
<1>5. IsRun(g, base, F, n)
  BY <1>4 DEF IsRun
<1>6. QED  BY <1>4, <1>5

-----------------------------------------------------------------------------
(* Lists of lists                                                            *)

\* Where the parts of a list of lists begin in the flat one.
Cuts(c, ss, all) ==
    /\ c \in [0 .. Len(ss) -> Nat] /\ c[0] = 0 /\ c[Len(ss)] = Len(all)
    /\ \A i \in 1 .. Len(ss) : c[i] = c[i - 1] + Len(ss[i])
    /\ \A i \in 1 .. Len(ss) : \A k \in 1 .. Len(ss[i]) : all[c[i - 1] + k] = ss[i][k]

\* A flat list is its parts, one behind the other.
LEMMA FlattenOf ==
  ASSUME NEW T, NEW ss \in Seq(Seq(T))
  PROVE  FlattenSeq(ss) \in Seq(T) /\ \E c : Cuts(c, ss, FlattenSeq(ss))
<1> DEFINE n == Len(ss)
           X == Seq(T)
<1>1. n \in Nat /\ DOMAIN ss = 1 .. n /\ \A i \in 1 .. n : ss[i] \in X
  BY PlacesOf
<1>2. CASE n = 0
  <2>1. FlattenSeq(ss) = ss /\ ss = <<>>
    BY <1>1, <1>2 DEF FlattenSeq
  <2>2. Cuts([i \in 0 .. 0 |-> 0], ss, ss)
    BY <1>2, <2>1 DEF Cuts
  <2>3. ss \in Seq(T)
    BY <2>1
  <2>4. QED  BY <2>1, <2>2, <2>3
<1>3. CASE n # 0
  <2> DEFINE F == [q \in (1 .. n) \X X |-> q[2] \o ss[q[1]]]
             Step(h) == [i \in 1 .. n |-> IF i = 1 THEN ss[i] ELSE h[i - 1] \o ss[i]]
             h == CHOOSE h : h = Step(h)
  <2>1. <<>> \in X
    OBVIOUS
  <2>2. F \in [(1 .. n) \X X -> X]
    <3>1. \A i \in 1 .. n : \A x \in X : x \o ss[i] \in X
      BY <1>1
    <3> HIDE DEF X, n
    <3>2. QED  BY <3>1
  <2>3. \A i \in 1 .. n : \A x \in X : F[<<i, x>>] = x \o ss[i]
    OBVIOUS
  <2> HIDE DEF F, n, X
  <2>4. PICK g \in [0 .. n -> X] : IsRun(g, <<>>, F, n)
    BY <1>1, <2>1, <2>2, RunsExist
  <2>5. g[0] = <<>> /\ \A i \in 1 .. n : g[i] = g[i - 1] \o ss[i]
    <3>1. g[0] = <<>>
      BY <2>4 DEF IsRun
    <3>2. ASSUME NEW i \in 1 .. n PROVE g[i] = g[i - 1] \o ss[i]
      <4>1. i - 1 \in 0 .. n
        BY <1>1
      <4>2. g[i - 1] \in X /\ g[i] = F[<<i, g[i - 1]>>]
        BY <2>4, <4>1 DEF IsRun
      <4>3. QED  BY <2>3, <4>2
    <3>3. QED  BY <3>1, <3>2
  <2> DEFINE f == [i \in 1 .. n |-> g[i]]
  <2>6. f = Step(f)
    <3>1. ASSUME NEW i \in 1 .. n PROVE f[i] = IF i = 1 THEN ss[i] ELSE f[i - 1] \o ss[i]
      <4>1. CASE i = 1
        <5>1. i - 1 = 0
          BY <4>1
        <5>2. g[i] = <<>> \o ss[i]
          BY <2>5, <5>1
        <5>3. <<>> \o ss[i] = ss[i]
          BY <1>1 DEF X
        <5>4. QED  BY <4>1, <5>2, <5>3
      <4>2. CASE i # 1
        <5>1. i - 1 \in 1 .. n
          BY <1>1, <4>2
        <5>2. QED  BY <2>5, <4>2, <5>1
      <4>3. QED  BY <4>1, <4>2
    <3> DEFINE s == Step(f)
    <3>2. \A i \in 1 .. n : s[i] = f[i]
      BY <3>1
    <3>3. s = [i \in 1 .. n |-> s[i]] /\ f = [i \in 1 .. n |-> f[i]]
      OBVIOUS
    <3> HIDE DEF s, f
    <3>4. QED  BY <3>2, <3>3 DEF s
  <2>7. h = Step(h)
    <3> HIDE DEF f, Step
    <3>1. QED  BY <2>6
  <2>8. FlattenSeq(ss) = h[n]
    BY <1>3 DEF FlattenSeq, n
  <2> HIDE DEF h
  <2>9. \A i \in 1 .. n : h[i] = IF i = 1 THEN ss[i] ELSE h[i - 1] \o ss[i]
    BY <2>7
  <2> HIDE DEF Step
  <2> DEFINE c == [i \in 0 .. n |-> IF i = 0 THEN 0 ELSE Len(h[i])]
             Good(i) == /\ h[i] \in X /\ c[i] = c[i - 1] + Len(ss[i]) /\ c[i - 1] \in Nat /\ c[i] \in Nat
                        /\ \A j \in 1 .. i : c[j] <= c[i]
                        /\ \A j \in 1 .. i : \A k \in 1 .. Len(ss[j]) : h[i][c[j - 1] + k] = ss[j][k]
             S == {m \in Nat : \A i \in 1 .. m : i <= n => Good(i)}
  <2>10. c[0] = 0 /\ \A i \in 1 .. n : c[i] = Len(h[i])
    BY <1>1
  <2>11. 0 \in S
    OBVIOUS
  <2>12. ASSUME NEW m \in Nat, NEW q \in 1 .. n, q - 1 = m, \A i \in 1 .. m : Good(i)
         PROVE  Good(q)
    <3>0. ss[q] \in X /\ Len(ss[q]) \in Nat /\ DOMAIN ss[q] = 1 .. Len(ss[q])
      <4>1. ss[q] \in X
        BY <1>1
      <4>2. QED  BY <4>1, PlacesOf DEF X
    <3>1. CASE m = 0
      <4>1. q = 1 /\ h[q] = ss[q] /\ h[q] \in X
        BY <2>9, <2>12, <3>0, <3>1
      <4>2. c[q] = Len(ss[q]) /\ c[m] = 0
        BY <2>10, <3>1, <4>1
      <4> HIDE DEF c
      <4>3. \A j \in 1 .. q : j = q /\ j - 1 = m
        BY <3>1, <4>1
      <4>4. QED  BY <2>12, <3>0, <4>1, <4>2, <4>3
    <3>2. CASE m # 0
      <4>0. m \in 1 .. m /\ m \in 1 .. n /\ q # 1
        BY <1>1, <2>12, <3>2
      <4>1. Good(m)
        BY <2>12, <4>0
      <4> HIDE DEF c
      <4>2. h[q] = h[m] \o ss[q]
        BY <2>9, <2>12, <4>0
      <4>3. c[m] = Len(h[m]) /\ c[q] = Len(h[q])
        BY <2>10, <4>0
      <4>4. h[m] \in X
        BY <4>1
      <4> DEFINE a == h[m]
                 b == ss[q]
      <4> HIDE DEF a, b
      <4>5. /\ a \o b \in Seq(T) /\ Len(a \o b) = Len(a) + Len(b)
            /\ Len(a) \in Nat /\ Len(b) \in Nat
            /\ \A i \in DOMAIN a : (a \o b)[i] = a[i]
            /\ \A k \in DOMAIN b : (a \o b)[Len(a) + k] = b[k]
        <5>1. a \in Seq(T) /\ b \in Seq(T)
          BY <3>0, <4>4 DEF X, a, b
        <5>2. QED  BY <5>1, JoinedLists
      <4>6. DOMAIN a = 1 .. Len(a) /\ DOMAIN b = 1 .. Len(b)
        BY <3>0, <4>4, PlacesOf DEF X, a, b
      <4> DEFINE ab == a \o b
      <4> HIDE DEF ab
      <4>7. /\ h[q] \in X /\ c[q] = c[m] + Len(ss[q]) /\ c[m] \in Nat /\ c[q] \in Nat
            /\ \A i \in 1 .. c[m] : h[q][i] = h[m][i]
            /\ \A k \in 1 .. Len(ss[q]) : h[q][c[m] + k] = ss[q][k]
        <5>1. h[q] = ab /\ h[m] = a /\ ss[q] = b
          BY <4>2 DEF a, b, ab
        <5>2. /\ ab \in X /\ Len(ab) = Len(a) + Len(b) /\ Len(a) \in Nat /\ Len(b) \in Nat
              /\ \A i \in 1 .. Len(a) : ab[i] = a[i]
              /\ \A k \in 1 .. Len(b) : ab[Len(a) + k] = b[k]
          BY <4>5, <4>6 DEF ab, X
        <5>3. c[m] = Len(a) /\ c[q] = Len(ab)
          BY <4>3, <5>1
        <5>4. Len(ab) \in Nat
          BY <5>2
        <5>5. QED  BY <5>1, <5>2, <5>3, <5>4
      <4>sum. c[q] = c[m] + Len(ss[q]) /\ c[m] \in Nat /\ c[q] \in Nat
        BY <4>7
      <4>8. \A j \in 1 .. q : j = q \/ j \in 1 .. m
        BY <2>12
      <4>9. \A j \in 1 .. q : c[j] <= c[q]
        <5>1. \A j \in 1 .. m : c[j] \in Nat /\ c[j] <= c[m]
          BY <2>12, <4>1
        <5>2. c[m] <= c[q] /\ c[q] <= c[q]
          BY <3>0, <4>sum
        <5>3. \A j \in 1 .. m : c[j] <= c[q]
          BY <4>sum, <5>1, <5>2
        <5>4. QED  BY <4>8, <5>2, <5>3
      <4>10. ASSUME NEW j \in 1 .. q, NEW k \in 1 .. Len(ss[j])
             PROVE  h[q][c[j - 1] + k] = ss[j][k]
        <5>1. CASE j = q
          BY <2>12, <4>7, <5>1
        <5>2. CASE j \in 1 .. m
          <6>1. c[j] = c[j - 1] + Len(ss[j]) /\ c[j - 1] \in Nat /\ c[j] \in Nat /\ c[j] <= c[m]
            BY <2>12, <4>1, <5>2
          <6>2. Len(ss[j]) \in Nat
            BY <6>1, <5>2, <4>0, <1>1, PlacesOf DEF X
          <6>3. c[j - 1] + k \in 1 .. c[m]
            BY <4>sum, <6>1, <6>2, SMTT(30)
          <6>4. h[q][c[j - 1] + k] = h[m][c[j - 1] + k]
            BY <4>7, <6>3
          <6>5. h[m][c[j - 1] + k] = ss[j][k]
            BY <4>1, <5>2
          <6>6. QED  BY <6>4, <6>5
        <5>3. QED  BY <4>8, <5>1, <5>2
      <4>11. QED  BY <2>12, <4>7, <4>9, <4>10
    <3>3. QED  BY <3>1, <3>2
  <2> HIDE DEF Good
  <2>13. ASSUME NEW m \in S PROVE m + 1 \in S
    <3>1. \A i \in 1 .. m + 1 : i \in 1 .. m \/ i = m + 1
      OBVIOUS
    <3>2. ASSUME NEW i \in 1 .. m + 1, i <= n PROVE Good(i)
      <4>1. CASE i \in 1 .. m
        BY <3>2, <4>1
      <4>2. CASE i = m + 1
        <5>1. (\A l \in 1 .. m : Good(l)) /\ m \in Nat /\ i - 1 = m /\ i \in 1 .. n
          BY <1>1, <3>2, <4>2
        <5>2. QED  BY <2>12, <5>1
      <4>3. QED  BY <3>1, <4>1, <4>2
    <3>3. QED  BY <3>2
  <2>14. \A i \in 1 .. n : Good(i)
    <3>1. S \in SUBSET Nat
      OBVIOUS
    <3> HIDE DEF S
    <3>2. n \in S
      BY <1>1, <2>11, <2>13, <3>1, Induct
    <3>3. QED  BY <3>2 DEF S
  <2>15. c \in [0 .. n -> Nat]
    <3>1. \A i \in 1 .. n : c[i] \in Nat
      BY <2>14 DEF Good
    <3>2. c = [i \in 0 .. n |-> c[i]]
      OBVIOUS
    <3> HIDE DEF c
    <3>3. \A i \in 0 .. n : c[i] \in Nat
      BY <1>1, <2>10, <3>1
    <3>4. QED  BY <3>2, <3>3
  <2>16. n \in 1 .. n
    BY <1>1, <1>3
  <2> HIDE DEF c
  <2>17. Cuts(c, ss, h[n])
    <3>1. \A i \in 1 .. n : c[i] = c[i - 1] + Len(ss[i])
      BY <2>14 DEF Good
    <3>2. \A i \in 1 .. n : \A k \in 1 .. Len(ss[i]) : h[n][c[i - 1] + k] = ss[i][k]
      BY <2>14, <2>16 DEF Good
    <3>3. c[n] = Len(h[n])
      BY <2>10, <2>16
    <3>4. QED  BY <2>10, <2>15, <3>1, <3>2, <3>3 DEF Cuts, n
  <2>18. h[n] \in Seq(T)
    BY <2>14, <2>16 DEF Good, X
  <2>19. QED  BY <2>8, <2>17, <2>18
<1>4. QED  BY <1>2, <1>3

\* The parts of a list of lists lie one behind the other, and cover the flat one.
LEMMA CutsCover ==
  ASSUME NEW T, NEW ss \in Seq(Seq(T)), NEW all \in Seq(T), NEW c, Cuts(c, ss, all)
  PROVE  /\ \A i, j \in 0 .. Len(ss) : i <= j => c[i] <= c[j]
         /\ \A m \in DOMAIN all : \E i \in 1 .. Len(ss) :
               /\ c[i - 1] < m /\ m <= c[i]
               /\ m - c[i - 1] \in DOMAIN ss[i] /\ all[m] = ss[i][m - c[i - 1]]
<1> DEFINE n == Len(ss)
<1>1. n \in Nat /\ DOMAIN ss = 1 .. n /\ \A i \in 1 .. n : ss[i] \in Seq(T)
  BY PlacesOf
<1>2. /\ c \in [0 .. n -> Nat] /\ c[0] = 0 /\ c[n] = Len(all)
      /\ \A i \in 1 .. n : c[i] = c[i - 1] + Len(ss[i])
      /\ \A i \in 1 .. n : \A k \in 1 .. Len(ss[i]) : all[c[i - 1] + k] = ss[i][k]
  BY DEF Cuts
<1>3. DOMAIN all = 1 .. Len(all) /\ Len(all) \in Nat
  BY PlacesOf
<1>4. \A i \in 1 .. n : Len(ss[i]) \in Nat /\ DOMAIN ss[i] = 1 .. Len(ss[i])
  BY <1>1, PlacesOf
<1> HIDE DEF n
<1>5. ASSUME NEW i \in 0 .. n, NEW j \in 0 .. n, i <= j PROVE c[i] <= c[j]
  <2> DEFINE U == {d \in Nat : \A e \in 0 .. n : e = i + d => c[i] <= c[e]}
  <2>1. 0 \in U
    BY <1>1, <1>2
  <2>2. ASSUME NEW d \in U PROVE d + 1 \in U
    <3> SUFFICES ASSUME NEW e \in 0 .. n, e = i + (d + 1) PROVE c[i] <= c[e]
      OBVIOUS
    <3>1. e \in 1 .. n /\ e - 1 \in 0 .. n /\ e - 1 = i + d
      BY <1>1
    <3>2. c[i] <= c[e - 1]
      BY <3>1
    <3>3. c[e] = c[e - 1] + Len(ss[e]) /\ Len(ss[e]) \in Nat /\ c[e - 1] \in Nat /\ c[i] \in Nat
      BY <1>2, <1>4, <3>1
    <3>4. QED  BY <3>2, <3>3
  <2>3. U \in SUBSET Nat /\ j - i \in Nat
    BY <1>1, <1>5
  <2> HIDE DEF U
  <2>4. j - i \in U
    BY <2>1, <2>2, <2>3, Induct
  <2>5. j = i + (j - i)
    BY <1>1
  <2>6. QED  BY <2>4, <2>5 DEF U
<1>6. ASSUME NEW m \in DOMAIN all
      PROVE  \E i \in 1 .. n : /\ c[i - 1] < m /\ m <= c[i]
                               /\ m - c[i - 1] \in DOMAIN ss[i] /\ all[m] = ss[i][m - c[i - 1]]
  <2> DEFINE over == {i \in 0 .. n : m <= c[i]}
  <2>1. over \in SUBSET Nat /\ n \in over
    BY <1>1, <1>2, <1>3
  <2> HIDE DEF over
  <2>2. PICK i \in over : \A j \in over : i <= j
    BY <2>1, LeastIs
  <2>3. i \in 0 .. n /\ m <= c[i] /\ m \in Nat \ {0}
    BY <1>3, <2>2 DEF over
  <2>4. i \in 1 .. n /\ i - 1 \in 0 .. n
    BY <1>1, <1>2, <2>3
  <2>5. i - 1 \notin over
    BY <2>2, <2>4
  <2>6. c[i - 1] < m /\ c[i - 1] \in Nat /\ c[i] = c[i - 1] + Len(ss[i]) /\ Len(ss[i]) \in Nat
    <3>1. c[i - 1] \in Nat
      BY <1>2, <2>4
    <3>2. c[i - 1] < m
      BY <2>3, <2>4, <2>5, <3>1 DEF over
    <3>3. QED  BY <1>2, <1>4, <2>4, <3>1, <3>2
  <2> DEFINE k == m - c[i - 1]
  <2>7. k \in 1 .. Len(ss[i]) /\ c[i - 1] + k = m
    BY <2>3, <2>6
  <2> HIDE DEF k
  <2>8. all[c[i - 1] + k] = ss[i][k] /\ k \in DOMAIN ss[i]
    BY <1>2, <1>4, <2>4, <2>7
  <2>9. all[m] = ss[i][k] /\ k \in DOMAIN ss[i]
    BY <2>7, <2>8
  <2>10. QED  BY <2>3, <2>4, <2>6, <2>9 DEF k
<1>7. QED  BY <1>5, <1>6 DEF n

\* The letters the header and the lines up to each one take.
UsedOf(lines) ==
    LET used[n \in 0 .. Len(lines)] == IF n = 0 THEN HeaderChars ELSE used[n - 1] + lines[n].length + 1
    IN used

\* The characters used grow by those of a line and its break.
LEMMA UsedIs ==
  ASSUME NEW B, \A b \in B : b.length \in Nat, NEW lines \in Seq(B)
  PROVE  /\ UsedOf(lines) \in [0 .. Len(lines) -> Nat] /\ UsedOf(lines)[0] = HeaderChars
         /\ \A i \in 1 .. Len(lines) : UsedOf(lines)[i] = UsedOf(lines)[i - 1] + lines[i].length + 1
<1> DEFINE n == Len(lines)
           F == [q \in (1 .. n) \X Nat |-> q[2] + lines[q[1]].length + 1]
           Step(h) == [i \in 0 .. n |-> IF i = 0 THEN HeaderChars ELSE h[i - 1] + lines[i].length + 1]
           h == CHOOSE h : h = Step(h)
<1>1. n \in Nat /\ \A i \in 1 .. n : lines[i].length \in Nat
  BY PlacesOf
<1>2. F \in [(1 .. n) \X Nat -> Nat]
  <2> HIDE DEF n
  <2>1. QED  BY <1>1
<1>3. \A i \in 1 .. n : \A x \in Nat : F[<<i, x>>] = x + lines[i].length + 1
  OBVIOUS
<1> HIDE DEF F, n
<1>4. PICK g \in [0 .. n -> Nat] : IsRun(g, HeaderChars, F, n)
  BY <1>1, <1>2, PromptContextAssumption, RunsExist
<1>5. g = Step(g)
  <2>1. ASSUME NEW i \in 0 .. n PROVE g[i] = IF i = 0 THEN HeaderChars ELSE g[i - 1] + lines[i].length + 1
    <3>1. CASE i = 0
      BY <1>4, <3>1 DEF IsRun
    <3>2. CASE i # 0
      <4>1. i \in 1 .. n /\ i - 1 \in 0 .. n
        BY <1>1, <3>2
      <4>2. g[i - 1] \in Nat /\ g[i] = F[<<i, g[i - 1]>>]
        BY <1>4, <4>1 DEF IsRun
      <4>3. QED  BY <1>3, <3>2, <4>1, <4>2
    <3>3. QED  BY <3>1, <3>2
  <2> DEFINE s == Step(g)
  <2>2. \A i \in 0 .. n : s[i] = g[i]
    BY <2>1
  <2>3. s = [i \in 0 .. n |-> s[i]] /\ g = [i \in 0 .. n |-> g[i]]
    OBVIOUS
  <2> HIDE DEF s
  <2>4. QED  BY <2>2, <2>3 DEF s
<1>6. h = Step(h)
  <2> HIDE DEF Step
  <2>1. QED  BY <1>5
<1>7. UsedOf(lines) = h
  BY DEF UsedOf, n
<1> HIDE DEF h
<1>8. /\ DOMAIN h = 0 .. n /\ h = [i \in 0 .. n |-> h[i]] /\ h[0] = HeaderChars
      /\ \A i \in 1 .. n : h[i] = h[i - 1] + lines[i].length + 1
  <2>1. DOMAIN h = 0 .. n /\ h = [i \in 0 .. n |-> h[i]]
    BY <1>6
  <2>2. h[0] = HeaderChars
    BY <1>1, <1>6
  <2>3. ASSUME NEW i \in 1 .. n PROVE h[i] = h[i - 1] + lines[i].length + 1
    <3>1. i \in 0 .. n /\ i # 0
      BY <1>1
    <3>2. QED  BY <1>6, <3>1
  <2>4. QED  BY <2>1, <2>2, <2>3
<1> HIDE DEF Step
<1>9. \A i \in 0 .. n : h[i] \in Nat
  <2> DEFINE S == {m \in Nat : \A i \in 0 .. n : i = m => h[i] \in Nat}
  <2>1. 0 \in S
    BY <1>8, PromptContextAssumption
  <2>2. ASSUME NEW m \in S PROVE m + 1 \in S
    <3> SUFFICES ASSUME NEW i \in 0 .. n, i = m + 1 PROVE h[i] \in Nat
      OBVIOUS
    <3>1. i \in 1 .. n /\ i - 1 = m /\ i - 1 \in 0 .. n
      BY <1>1
    <3>2. h[i - 1] \in Nat
      BY <3>1
    <3>3. h[i] = h[i - 1] + lines[i].length + 1
      BY <1>8, <3>1
    <3>4. lines[i].length \in Nat
      BY <1>1, <3>1
    <3>5. QED  BY <3>2, <3>3, <3>4
  <2>3. S \in SUBSET Nat
    OBVIOUS
  <2> HIDE DEF S
  <2>4. \A m \in Nat : m \in S
    BY <2>1, <2>2, <2>3, Induct
  <2>5. QED  BY <1>1, <2>4 DEF S
<1>10. h \in [0 .. n -> Nat]
  BY <1>8, <1>9
<1>11. QED  BY <1>7, <1>8, <1>10 DEF n

-----------------------------------------------------------------------------
(* The observations of a prompt                                              *)

\* The place of an observation is a number.
LEMMA PlaceIsNat ==
  ASSUME NEW T, NEW ranking \in Seq(T), NEW o
  PROVE  Place(o, ranking) \in Nat /\ (~Describes(o) => Place(o, ranking) = 1000)
<1> DEFINE is == {i \in DOMAIN ranking : ranking[i] = o.table}
           place == CHOOSE i \in is : \A j \in is : j <= i
<1>1. DOMAIN ranking \subseteq Nat /\ IsFiniteSet(DOMAIN ranking)
  BY PlacesOf
<1>2. is \in SUBSET DOMAIN ranking
  OBVIOUS
<1>3. IsFiniteSet(is)
  <2> HIDE DEF is
  <2>1. QED  BY <1>1, <1>2, FS_Subset
<1>4. is # {} => place \in Nat
  <2> SUFFICES ASSUME is # {} PROVE place \in Nat
    OBVIOUS
  <2> DEFINE f == [i \in is |-> i]
  <2>1. f \in [is -> Nat]
    BY <1>1, <1>2
  <2> HIDE DEF is, f
  <2>2. PICK i \in is : \A j \in is : f[j] <= f[i]
    BY <1>3, <2>1, Largest
  <2>3. \A j \in is : j <= i
    BY <2>2 DEF f
  <2>4. place \in is
    BY <2>3
  <2>5. QED  BY <1>1, <1>2, <2>4
<1>5. Place(o, ranking) = IF ~Describes(o) THEN 1000 ELSE IF is = {} THEN 999 ELSE place
  BY DEF Place
<1> HIDE DEF is, place
<1>6. QED  BY <1>4, <1>5

\* The observations in the order of the candidates.
LEMMA ByPlace ==
  ASSUME NEW O, NEW looks \in Seq(O), NEW T, NEW ranking \in Seq(T)
  PROVE  /\ Sorted(looks, ranking) \in Seq(O) /\ ToSet(Sorted(looks, ranking)) = ToSet(looks)
         /\ ranking # <<>> =>
              \A j, k \in DOMAIN Sorted(looks, ranking) :
                 Place(Sorted(looks, ranking)[j], ranking)
                   < Place(Sorted(looks, ranking)[k], ranking) => j < k
<1> DEFINE D == DOMAIN looks
           v == [i \in D |-> Place(looks[i], ranking)]
           R == ByKey(v, D)
           first(i, j) == \/ Place(looks[i], ranking) < Place(looks[j], ranking)
                          \/ ~(Place(looks[j], ranking) < Place(looks[i], ranking)) /\ i < j
           t == ArrangedBy(looks, v)
           place(k) == CHOOSE i \in D : Cardinality({j \in D : <<j, i>> \in R}) = k - 1
           least(k) == CHOOSE i \in D : Cardinality({j \in D : first(j, i)}) = k - 1
<1>1. CASE ranking = <<>>
  BY <1>1 DEF Sorted
<1>2. CASE ranking # <<>>
  <2>1. \A i \in D : i \in Nat /\ v[i] = Place(looks[i], ranking) /\ v[i] \in Nat
    <3>1. \A i \in D : i \in Nat
      BY PlacesOf
    <3>2. QED  BY <3>1, PlaceIsNat
  <2> HIDE DEF v
  <2>2. ASSUME NEW i \in D, NEW j \in D PROVE <<i, j>> \in R <=> first(i, j)
    <3>1. <<i, j>> \in R <=> v[i] < v[j] \/ (v[i] = v[j] /\ i < j)
      BY DEF ByKey
    <3>2. v[i] = Place(looks[i], ranking) /\ v[j] = Place(looks[j], ranking) /\ v[i] \in Nat /\ v[j] \in Nat
      BY <2>1
    <3> HIDE DEF R
    <3>3. QED  BY <3>1, <3>2
  <2> HIDE DEF R, first
  <2>3. \A k \in D : place(k) = least(k)
    <3>1. \A i \in D : {j \in D : first(j, i)} = {j \in D : <<j, i>> \in R}
      BY <2>2
    <3>2. QED  BY <3>1
  <2>4. D = 1 .. Cardinality(D)
    BY PlacesOf
  <2>5. \A k \in D : InPlace(R, D)[k] = place(k)
    BY <2>4 DEF InPlace
  <2>6. Sorted(looks, ranking) = [k \in D |-> looks[least(k)]]
    BY <1>2 DEF Sorted, StableSort, first
  <2> HIDE DEF place, least
  <2>7. t = Sorted(looks, ranking)
    <3>1. t = [k \in D |-> looks[InPlace(R, D)[k]]]
      BY DEF ArrangedBy, Arranged, R
    <3> HIDE DEF t
    <3>2. QED  BY <2>3, <2>5, <2>6, <3>1
  <2>8. t \in Seq(O) /\ \E p : Arranges(p, t, looks, R)
    <3>1. \A i \in DOMAIN looks : v[i] \in Int
      BY <2>1
    <3>2. QED  BY <3>1, SortByKey DEF R
  <2>9. PICK p : Arranges(p, t, looks, R)
    BY <2>8
  <2> HIDE DEF t
  <2>10. ASSUME NEW j \in DOMAIN t, NEW k \in DOMAIN t,
                Place(t[j], ranking) < Place(t[k], ranking)
         PROVE  j < k
    <3>1. j \in D /\ k \in D
      BY <2>9 DEF Arranges
    <3> DEFINE a == p[j]
               b == p[k]
    <3>2. /\ a \in D /\ b \in D /\ (<<a, b>> \in R <=> j < k)
          /\ t[j] = looks[a] /\ t[k] = looks[b]
      BY <2>9, <3>1 DEF Arranges
    <3> HIDE DEF a, b
    <3>3. v[a] < v[b]
      BY <2>1, <2>10, <3>2
    <3>4. <<a, b>> \in R
      BY <3>2, <3>3 DEF R, ByKey
    <3>5. QED  BY <3>2, <3>4
  <2>11. ToSet(t) = ToSet(looks)
    BY <2>9 DEF Arranges
  <2>12. QED  BY <2>7, <2>8, <2>10, <2>11
<1>3. QED  BY <1>1, <1>2

\* _format_tool_observations: the lines keep to their length, and the description
\* of a candidate is not cut short by an observation that describes no table.
THEOREM ObservationsCorrect ==
  ASSUME NEW O, \A o \in O : o.lengths \in Seq(Nat), NEW looks \in Seq(O),
         NEW T, NEW ranking \in Seq(T)
  PROVE  ObservationsFit(looks, ranking)
<1> DEFINE B == [of : O, length : Nat]
           t == Sorted(looks, ranking)
           shown == Leading(t, MaxShown)
           part(i) == [k \in DOMAIN shown[i].lengths |-> [of |-> shown[i], length |-> shown[i].lengths[k]]]
           parts == [i \in DOMAIN shown |-> part(i)]
           all == FlattenSeq(parts)
           fit == {n \in 0 .. Len(all) : UsedOf(all)[n] <= MaxChars}
           most == CHOOSE n \in fit : \A m \in fit : m <= n
           lines == SubSeq(all, 1, most)
<1>1. /\ t \in Seq(O) /\ ToSet(t) = ToSet(looks) /\ DOMAIN t \subseteq Nat
      /\ ranking # <<>> =>
              \A j, k \in DOMAIN t :
                 Place(t[j], ranking) < Place(t[k], ranking) => j < k
  <2>1. t \in Seq(O)
    BY ByPlace
  <2>2. DOMAIN t \subseteq Nat
    BY <2>1, PlacesOf
  <2>3. QED  BY <2>2, ByPlace
<1>2. Lines(looks, ranking) = lines
  BY DEF Lines, UsedOf
<1> HIDE DEF t
<1>3. /\ shown \in Seq(O) /\ DOMAIN shown = 1 .. Len(shown) /\ DOMAIN shown \subseteq DOMAIN t
      /\ \A i \in DOMAIN shown : shown[i] = t[i]
  <2>1. t \in Seq(O) /\ MaxShown \in Nat
    BY <1>1, PromptContextAssumption
  <2> HIDE DEF B, part, parts, all, fit, most, lines
  <2>2. QED  BY <2>1, LeadingOf
<1> HIDE DEF shown
<1>4. Len(shown) \in Nat /\ \A i \in DOMAIN shown : shown[i] \in O
  BY <1>3, PlacesOf
<1>5. ASSUME NEW i \in DOMAIN shown
      PROVE  /\ part(i) \in Seq(B) /\ Len(part(i)) = Len(shown[i].lengths)
             /\ Len(shown[i].lengths) \in Nat
             /\ \A k \in 1 .. Len(shown[i].lengths) : part(i)[k].of = shown[i]
  <2>1. shown[i] \in O /\ shown[i].lengths \in Seq(Nat)
    BY <1>4
  <2> DEFINE ls == shown[i].lengths
  <2>2. /\ Len(ls) \in Nat /\ DOMAIN ls = 1 .. Len(ls)
        /\ \A k \in DOMAIN ls : ls[k] \in Nat
    BY <2>1, PlacesOf
  <2>3. part(i) \in [1 .. Len(ls) -> B]
    BY <2>1, <2>2
  <2>4. part(i) \in Seq(B) /\ Len(part(i)) = Len(ls)
    <3> HIDE DEF B, part, ls
    <3>1. QED  BY <2>2, <2>3, ListOf
  <2>5. \A k \in DOMAIN ls : part(i)[k].of = shown[i]
    OBVIOUS
  <2>6. QED  BY <2>2, <2>4, <2>5
<1> HIDE DEF part, B
<1>6. parts \in Seq(Seq(B)) /\ Len(parts) = Len(shown) /\ \A i \in DOMAIN shown : parts[i] = part(i)
  <2>1. parts \in [1 .. Len(shown) -> Seq(B)]
    BY <1>3, <1>5
  <2>2. \A i \in DOMAIN shown : parts[i] = part(i)
    OBVIOUS
  <2> HIDE DEF parts
  <2>3. QED  BY <1>4, <2>1, <2>2, ListOf
<1> HIDE DEF parts
<1>7. all \in Seq(B) /\ \E c : Cuts(c, parts, all)
  BY <1>6, FlattenOf
<1>8. PICK c : Cuts(c, parts, all)
  BY <1>7
<1> HIDE DEF all
<1>9. /\ \A i, j \in 0 .. Len(shown) : i <= j => c[i] <= c[j]
      /\ \A m \in DOMAIN all : \E i \in 1 .. Len(shown) :
               /\ c[i - 1] < m /\ m <= c[i]
               /\ m - c[i - 1] \in DOMAIN parts[i] /\ all[m] = parts[i][m - c[i - 1]]
  BY <1>6, <1>7, <1>8, CutsCover
<1>10. /\ \A i \in 0 .. Len(shown) : c[i] \in Nat
       /\ \A i \in 1 .. Len(shown) : c[i] = c[i - 1] + Len(parts[i])
       /\ \A i \in 1 .. Len(shown) : \A k \in 1 .. Len(parts[i]) : all[c[i - 1] + k] = parts[i][k]
       /\ c[Len(shown)] = Len(all)
  BY <1>6, <1>8 DEF Cuts
<1>11. Len(all) \in Nat /\ DOMAIN all = 1 .. Len(all) /\ \A i \in DOMAIN all : all[i] \in B
  BY <1>7, PlacesOf
<1>12. \A b \in B : b.length \in Nat
  BY DEF B
<1>13. /\ UsedOf(all) \in [0 .. Len(all) -> Nat] /\ UsedOf(all)[0] = HeaderChars
       /\ \A i \in 1 .. Len(all) : UsedOf(all)[i] = UsedOf(all)[i - 1] + all[i].length + 1
  BY <1>7, <1>12, UsedIs
<1>14. most \in fit
  <2>1. 0 \in fit
    BY <1>11, <1>13, PromptContextAssumption
  <2>2. IsFiniteSet(fit)
    <3>1. fit \in SUBSET (0 .. Len(all)) /\ IsFiniteSet(0 .. Len(all))
      BY <1>11, FS_Interval
    <3> HIDE DEF fit
    <3>2. QED  BY <3>1, FS_Subset
  <2> DEFINE f == [n \in fit |-> n]
  <2>3. f \in [fit -> Nat]
    BY <1>11
  <2> HIDE DEF fit, f
  <2>4. PICK n \in fit : \A m \in fit : f[m] <= f[n]
    BY <2>1, <2>2, <2>3, Largest
  <2>5. \A m \in fit : m <= n
    BY <2>4 DEF f
  <2>6. QED  BY <2>5
<1>15. most \in 0 .. Len(all) /\ UsedOf(all)[most] <= MaxChars
  BY <1>14
<1> HIDE DEF fit, most
<1>16. /\ lines \in Seq(B) /\ Len(lines) = most /\ DOMAIN lines = 1 .. most
       /\ \A i \in 1 .. most : lines[i] = all[i]
  <2>1. most \in Nat /\ most <= Len(all)
    BY <1>11, <1>15
  <2> HIDE DEF B
  <2>2. QED  BY <1>7, <2>1
<1> HIDE DEF lines
<1>17. /\ UsedOf(lines) \in [0 .. most -> Nat] /\ UsedOf(lines)[0] = HeaderChars
       /\ \A i \in 1 .. most : UsedOf(lines)[i] = UsedOf(lines)[i - 1] + lines[i].length + 1
  BY <1>12, <1>16, UsedIs
<1>18. UsedOf(lines)[most] = UsedOf(all)[most]
  <2> DEFINE S == {m \in Nat : \A i \in 0 .. most : i = m => UsedOf(lines)[i] = UsedOf(all)[i]}
  <2>1. 0 \in S
    BY <1>13, <1>17
  <2>2. ASSUME NEW m \in S PROVE m + 1 \in S
    <3> SUFFICES ASSUME NEW i \in 0 .. most, i = m + 1 PROVE UsedOf(lines)[i] = UsedOf(all)[i]
      OBVIOUS
    <3>1. i \in 1 .. most /\ i - 1 = m /\ i - 1 \in 0 .. most /\ i \in 1 .. Len(all)
      BY <1>11, <1>15
    <3>2. UsedOf(lines)[i - 1] = UsedOf(all)[i - 1]
      BY <3>1
    <3>3. /\ UsedOf(lines)[i] = UsedOf(lines)[i - 1] + lines[i].length + 1
          /\ UsedOf(all)[i] = UsedOf(all)[i - 1] + all[i].length + 1
          /\ lines[i] = all[i]
      BY <1>13, <1>16, <1>17, <3>1
    <3>4. QED  BY <3>2, <3>3
  <2>3. S \in SUBSET Nat
    OBVIOUS
  <2> HIDE DEF S
  <2>4. \A m \in Nat : m \in S
    BY <2>1, <2>2, <2>3, Induct
  <2>5. most \in Nat /\ most \in 0 .. most
    BY <1>11, <1>15
  <2>6. QED  BY <2>4, <2>5 DEF S
<1>19. ASSUME NEW i \in DOMAIN lines, NEW o \in ToSet(looks),
              Describes(o), Place(o, ranking) < 999, ranking # <<>>, ~Describes(lines[i].of)
       PROVE  Cardinality({j \in DOMAIN lines : lines[j].of = o}) >= Len(o.lengths)
  <2>1. PICK b \in DOMAIN t : t[b] = o
    <3>1. o \in ToSet(t)
      BY <1>1
    <3>2. QED  BY <3>1 DEF ToSet
  <2>2. i \in DOMAIN all /\ lines[i] = all[i] /\ i \in Nat /\ i <= most
    BY <1>11, <1>15, <1>16
  <2>3. PICK a \in 1 .. Len(shown) :
               /\ c[a - 1] < i /\ i <= c[a]
               /\ i - c[a - 1] \in DOMAIN parts[a] /\ all[i] = parts[a][i - c[a - 1]]
    BY <1>9, <2>2
  <2>4. lines[i].of = shown[a] /\ shown[a] = t[a] /\ a \in DOMAIN t
    <3>1. a \in DOMAIN shown /\ parts[a] = part(a)
      BY <1>3, <1>6, <2>3
    <3>2. DOMAIN part(a) = 1 .. Len(shown[a].lengths)
      BY <1>5, <3>1, PlacesOf
    <3>3. part(a)[i - c[a - 1]].of = shown[a]
      BY <1>5, <2>3, <3>1, <3>2
    <3>4. QED  BY <1>3, <2>2, <2>3, <3>1, <3>3
  <2>5. Place(t[b], ranking) < Place(t[a], ranking)
    <3>1. Place(t[a], ranking) = 1000 /\ Place(o, ranking) \in Nat
      BY <1>19, <2>4, PlaceIsNat
    <3>2. QED  BY <1>19, <2>1, <3>1
  <2>6. b < a
    BY <1>1, <1>19, <2>1, <2>4, <2>5
  <2>7. b \in 1 .. Len(shown) /\ b - 1 \in 0 .. Len(shown) /\ b \in 0 .. Len(shown)
        /\ a - 1 \in 0 .. Len(shown) /\ b <= a - 1
    <3>1. b \in Nat /\ a \in Nat /\ b # 0
      BY <1>1, <2>1, <2>3, PlacesOf
    <3>2. QED  BY <1>4, <2>3, <2>6, <3>1
  <2>8. shown[b] = o /\ b \in DOMAIN shown
    BY <1>3, <2>1, <2>7
  <2>9. /\ Len(parts[b]) = Len(o.lengths) /\ Len(o.lengths) \in Nat
        /\ \A k \in 1 .. Len(o.lengths) : parts[b][k].of = o
    BY <1>5, <1>6, <2>8
  <2> DEFINE lo == c[b - 1]
             len == Len(o.lengths)
             mine == {j \in DOMAIN lines : lines[j].of = o}
  <2>10. lo \in Nat /\ c[b] = lo + len /\ c[b] <= c[a - 1] /\ c[a - 1] \in Nat
    BY <1>9, <1>10, <2>7, <2>9
  <2>11. \A k \in 1 .. len : all[lo + k] = parts[b][k]
    BY <1>10, <2>7, <2>9
  <2> HIDE DEF lo, len
  <2>12. (lo + 1) .. (lo + len) \in SUBSET mine
    <3>1. ASSUME NEW j \in (lo + 1) .. (lo + len) PROVE j \in DOMAIN lines /\ lines[j].of = o
      <4>1. len \in Nat
        BY <2>9 DEF len
      <4>2. j - lo \in 1 .. len /\ lo + (j - lo) = j
        BY <2>10, <4>1
      <4>3. all[j] = parts[b][j - lo] /\ parts[b][j - lo].of = o
        BY <2>9, <2>11, <4>2 DEF len
      <4>4. j \in 1 .. most
        BY <1>11, <1>15, <2>2, <2>3, <2>10, <4>1
      <4>5. QED  BY <1>16, <4>3, <4>4
    <3>2. QED  BY <3>1
  <2>13. IsFiniteSet(mine)
    <3>1. mine \in SUBSET (1 .. most)
      BY <1>16
    <3>3. IsFiniteSet(1 .. most)
      <4>1. most \in Int /\ 1 \in Int
        BY <1>15
      <4> HIDE DEF most
      <4>2. QED  BY <4>1, FS_Interval
    <3> HIDE DEF mine
    <3>2. QED  BY <3>1, <3>3, FS_Subset
  <2>14. Cardinality((lo + 1) .. (lo + len)) = len
    <3>1. lo + 1 \in Int /\ lo + len \in Int /\ len \in Nat /\ lo \in Nat
      BY <2>9, <2>10 DEF len
    <3> DEFINE x == lo + 1
               y == lo + len
    <3> HIDE DEF x, y
    <3>2. Cardinality(x .. y) = IF x > y THEN 0 ELSE y - x + 1
      BY <3>1, FS_Interval DEF x, y
    <3>3. x - 1 = lo /\ y = lo + len /\ (x > y <=> len = 0) /\ y - x + 1 = len
      BY <3>1 DEF x, y
    <3>4. Cardinality(x .. y) = len
      BY <3>1, <3>2, <3>3
    <3>5. QED  BY <3>4 DEF x, y
  <2>15. Cardinality((lo + 1) .. (lo + len)) <= Cardinality(mine) /\ Cardinality(mine) \in Nat
    <3> HIDE DEF mine
    <3>1. QED  BY <2>12, <2>13, FS_Subset, FS_CardinalityType
  <2>16. len \in Nat
    BY <2>9 DEF len
  <2> HIDE DEF mine
  <2>17. Cardinality(mine) >= len
    BY <2>14, <2>15, <2>16
  <2>18. QED  BY <2>17 DEF mine, len
<1>20. QED
  <2>1. UsedOf(lines)[Len(lines)] <= MaxChars
    BY <1>15, <1>16, <1>18
  <2>2. QED  BY <1>2, <1>19, <2>1 DEF ObservationsFit, UsedOf

-----------------------------------------------------------------------------
(* What is near                                                              *)

\* The nodes one step further than some.
Further(pairs, S) == S \cup {p[2] : p \in {q \in pairs : q[1] \in S}}

Grown(start, pairs, n) ==
    LET grow[k \in 0 .. n] == IF k = 0 THEN {start}
                              ELSE grow[k - 1] \cup {p[2] : p \in {q \in pairs : q[1] \in grow[k - 1]}}
    IN grow

\* A ball grows from its start by a step at a time.
LEMMA GrownIs ==
  ASSUME NEW start, NEW pairs, NEW n \in Nat
  PROVE  /\ Grown(start, pairs, n)[0] = {start}
         /\ \A i \in 1 .. n : Grown(start, pairs, n)[i] = Further(pairs, Grown(start, pairs, n)[i - 1])
<1> DEFINE X == SUBSET ({start} \cup {p[2] : p \in pairs})
           F == [q \in (1 .. n) \X X |-> Further(pairs, q[2])]
           Step(h) == [i \in 0 .. n |-> IF i = 0 THEN {start} ELSE Further(pairs, h[i - 1])]
           h == CHOOSE h : h = Step(h)
<1>1. F \in [(1 .. n) \X X -> X] /\ {start} \in X
  <2>1. \A x \in X : Further(pairs, x) \in X
    BY DEF Further
  <2>2. \A q \in (1 .. n) \X X : Further(pairs, q[2]) \in X
    <3> HIDE DEF X
    <3>1. QED  BY <2>1
  <2>3. {start} \in X
    OBVIOUS
  <2> HIDE DEF X
  <2>4. QED  BY <2>2, <2>3
<1>2. \A i \in 1 .. n : \A x \in X : F[<<i, x>>] = Further(pairs, x)
  <2> HIDE DEF X
  <2>1. QED  OBVIOUS
<1> HIDE DEF F, X
<1>3. PICK g \in [0 .. n -> X] : IsRun(g, {start}, F, n)
  BY <1>1, RunsExist
<1>4. g = Step(g)
  <2>1. ASSUME NEW i \in 0 .. n PROVE g[i] = IF i = 0 THEN {start} ELSE Further(pairs, g[i - 1])
    <3>1. CASE i = 0
      BY <1>3, <3>1 DEF IsRun
    <3>2. CASE i # 0
      <4>1. i \in 1 .. n /\ i - 1 \in 0 .. n
        BY <3>2
      <4>2. g[i - 1] \in X /\ g[i] = F[<<i, g[i - 1]>>]
        BY <1>3, <4>1 DEF IsRun
      <4>3. QED  BY <1>2, <3>2, <4>1, <4>2
    <3>3. QED  BY <3>1, <3>2
  <2> DEFINE s == Step(g)
  <2>2. \A i \in 0 .. n : s[i] = g[i]
    BY <2>1
  <2>3. s = [i \in 0 .. n |-> s[i]] /\ g = [i \in 0 .. n |-> g[i]]
    OBVIOUS
  <2> HIDE DEF s
  <2>4. QED  BY <2>2, <2>3 DEF s
<1>5. h = Step(h)
  <2> HIDE DEF Step
  <2>1. QED  BY <1>4
<1>6. Grown(start, pairs, n) = h
  BY DEF Grown, Further
<1> HIDE DEF h
<1>7. h[0] = {start}
  BY <1>5
<1>8. ASSUME NEW i \in 1 .. n PROVE h[i] = Further(pairs, h[i - 1])
  <2>1. i \in 0 .. n /\ i # 0
    OBVIOUS
  <2>2. QED  BY <1>5, <2>1
<1>9. QED  BY <1>6, <1>7, <1>8

\* A ball is the start, and a ball a step larger those one step further.
LEMMA BallIs ==
  ASSUME NEW start, NEW pairs
  PROVE  /\ Ball(start, pairs, 0) = {start}
         /\ \A n \in Nat : Ball(start, pairs, n + 1) = Further(pairs, Ball(start, pairs, n))
<1>1. \A n : Ball(start, pairs, n) = Grown(start, pairs, n)[n]
  BY DEF Ball, Grown
<1>2. ASSUME NEW n \in Nat PROVE Ball(start, pairs, n + 1) = Further(pairs, Ball(start, pairs, n))
  <2> DEFINE g == Grown(start, pairs, n)
             h == Grown(start, pairs, n + 1)
             S == {m \in Nat : \A i \in 0 .. n : i = m => g[i] = h[i]}
  <2>1. n + 1 \in Nat
    OBVIOUS
  <2>2. /\ g[0] = {start} /\ \A i \in 1 .. n : g[i] = Further(pairs, g[i - 1])
        /\ h[0] = {start} /\ \A i \in 1 .. n + 1 : h[i] = Further(pairs, h[i - 1])
    BY <2>1, GrownIs
  <2> HIDE DEF g, h
  <2>3. 0 \in S
    BY <2>2
  <2>4. ASSUME NEW m \in S PROVE m + 1 \in S
    <3> SUFFICES ASSUME NEW i \in 0 .. n, i = m + 1 PROVE g[i] = h[i]
      OBVIOUS
    <3>1. i \in 1 .. n /\ i \in 1 .. n + 1 /\ i - 1 = m /\ i - 1 \in 0 .. n
      OBVIOUS
    <3>2. g[i - 1] = h[i - 1]
      BY <3>1
    <3>3. g[i] = Further(pairs, g[i - 1]) /\ h[i] = Further(pairs, h[i - 1])
      BY <2>2, <3>1
    <3>4. QED  BY <3>2, <3>3
  <2>5. S \in SUBSET Nat
    OBVIOUS
  <2> HIDE DEF S
  <2>6. n \in S
    BY <2>3, <2>4, <2>5, Induct
  <2>7. g[n] = h[n]
    BY <2>6 DEF S
  <2>8. n + 1 \in 1 .. n + 1 /\ (n + 1) - 1 = n
    OBVIOUS
  <2>9. h[n + 1] = Further(pairs, h[n])
    BY <2>2, <2>8
  <2>10. QED  BY <1>1, <2>7, <2>9 DEF g, h
<1>3. Ball(start, pairs, 0) = {start}
  <2>1. 0 \in Nat
    OBVIOUS
  <2>2. QED  BY <1>1, <2>1, GrownIs
<1>4. QED  BY <1>2, <1>3

\* A ball holds the smaller ones, and stays in every set that is closed.
LEMMA BallGrows ==
  ASSUME NEW start, NEW pairs
  PROVE  /\ \A n \in Nat : start \in Ball(start, pairs, n)
         /\ \A m, n \in Nat : m <= n => Ball(start, pairs, m) \subseteq Ball(start, pairs, n)
         /\ \A C : start \in C /\ Further(pairs, C) \subseteq C =>
              \A n \in Nat : Ball(start, pairs, n) \subseteq C
<1> DEFINE B(n) == Ball(start, pairs, n)
<1>1. B(0) = {start} /\ \A n \in Nat : B(n + 1) = Further(pairs, B(n))
  BY BallIs
<1> HIDE DEF B
<1>2. ASSUME NEW m \in Nat, NEW n \in Nat, m <= n PROVE B(m) \subseteq B(n)
  <2> DEFINE S == {k \in Nat : \A i \in Nat : i = m + k => B(m) \subseteq B(i)}
  <2>1. 0 \in S
    OBVIOUS
  <2>2. ASSUME NEW k \in S PROVE k + 1 \in S
    <3> SUFFICES ASSUME NEW i \in Nat, i = m + (k + 1) PROVE B(m) \subseteq B(i)
      OBVIOUS
    <3> DEFINE j == i - 1
    <3>1. j \in Nat /\ j = m + k /\ j + 1 = i
      OBVIOUS
    <3>2. B(m) \subseteq B(j)
      BY <3>1
    <3> HIDE DEF j
    <3>3. B(i) = Further(pairs, B(j))
      BY <1>1, <3>1
    <3>4. QED  BY <3>2, <3>3 DEF Further
  <2>3. S \in SUBSET Nat
    OBVIOUS
  <2> HIDE DEF S
  <2>4. n - m \in S
    <3>1. n - m \in Nat
      BY <1>2
    <3>2. QED  BY <2>1, <2>2, <2>3, <3>1, Induct
  <2>5. n = m + (n - m)
    OBVIOUS
  <2>6. QED  BY <2>4, <2>5 DEF S
<1>3. ASSUME NEW C, start \in C, Further(pairs, C) \subseteq C
      PROVE  \A n \in Nat : B(n) \subseteq C
  <2> DEFINE S == {n \in Nat : B(n) \subseteq C}
  <2>1. 0 \in S
    BY <1>1, <1>3
  <2>2. ASSUME NEW n \in S PROVE n + 1 \in S
    <3>1. B(n + 1) = Further(pairs, B(n)) /\ B(n) \subseteq C /\ n + 1 \in Nat
      BY <1>1
    <3>2. Further(pairs, B(n)) \subseteq Further(pairs, C)
      BY <3>1 DEF Further
    <3>3. QED  BY <1>3, <3>1, <3>2
  <2>3. S \in SUBSET Nat
    OBVIOUS
  <2> HIDE DEF S
  <2>4. \A n \in Nat : n \in S
    BY <2>1, <2>2, <2>3, Induct
  <2>5. QED  BY <2>4 DEF S
<1>4. \A n \in Nat : start \in B(n)
  <2>1. \A n \in Nat : 0 <= n /\ 0 \in Nat
    OBVIOUS
  <2>2. QED  BY <1>1, <1>2, <2>1
<1>5. QED  BY <1>2, <1>3, <1>4 DEF B

-----------------------------------------------------------------------------
(* The search for a path                                                     *)

\* What a search may have in hand.
SearchState(T, U) ==
    {b \in [queue : Seq(T), visited : SUBSET T, path : UNION {[V -> Seq(U)] : V \in SUBSET T}] :
        b.queue \in Seq(b.visited) /\ b.path \in [b.visited -> Seq(U)]}

\* The tables a chain of relations leads over, from the first to the last.
LeadsOver(g, p, src, x) ==
    /\ DOMAIN g = 0 .. Len(p) /\ g[0] = src /\ g[Len(p)] = x
    /\ \A i \in 1 .. Len(p) : /\ g[i - 1] \in {p[i].from, p[i].to}
                              /\ g[i] = Other(p[i], g[i - 1])
Leads(p, src, x) == \E g : LeadsOver(g, p, src, x)

\* One more relation leads one table further.
LEMMA LeadsFurther ==
  ASSUME NEW U, NEW p \in Seq(U), NEW r \in U, NEW src, NEW t, Leads(p, src, t), t \in {r.from, r.to}
  PROVE  Leads(Append(p, r), src, Other(r, t))
<1> DEFINE n == Len(p)
           q == Append(p, r)
           y == Other(r, t)
<1>1. PICK g : LeadsOver(g, p, src, t)
  BY DEF Leads
<1>2. n \in Nat /\ Len(q) = n + 1 /\ q[n + 1] = r /\ \A i \in 1 .. n : q[i] = p[i]
  OBVIOUS
<1> DEFINE h == [i \in 0 .. n + 1 |-> IF i = n + 1 THEN y ELSE g[i]]
<1> HIDE DEF q, y
<1>3. h[0] = src /\ h[n + 1] = y /\ h[n] = t /\ \A i \in 0 .. n : h[i] = g[i]
  BY <1>1, <1>2 DEF LeadsOver
<1>4. ASSUME NEW i \in 1 .. n + 1
      PROVE  h[i - 1] \in {q[i].from, q[i].to} /\ h[i] = Other(q[i], h[i - 1])
  <2>1. CASE i = n + 1
    <3>1. h[i - 1] = t /\ q[i] = r /\ h[i] = y
      BY <1>2, <1>3, <2>1
    <3> HIDE DEF h
    <3>2. QED  BY <3>1 DEF y
  <2>2. CASE i # n + 1
    <3>1. i \in 1 .. n /\ i - 1 \in 0 .. n /\ i \in 0 .. n
      BY <1>2, <2>2
    <3>2. h[i] = g[i] /\ h[i - 1] = g[i - 1] /\ q[i] = p[i]
      BY <1>2, <1>3, <3>1
    <3>3. g[i - 1] \in {p[i].from, p[i].to} /\ g[i] = Other(p[i], g[i - 1])
      BY <1>1, <3>1 DEF LeadsOver
    <3> HIDE DEF h
    <3>4. QED  BY <3>2, <3>3
  <2>3. QED  BY <2>1, <2>2
<1>5. DOMAIN h = 0 .. n + 1
  OBVIOUS
<1> HIDE DEF h
<1>6. LeadsOver(h, q, src, y)
  BY <1>2, <1>3, <1>4, <1>5 DEF LeadsOver
<1>7. QED  BY <1>6 DEF Leads, q, y

\* _visit of a relation: nothing new, or the table it leads to, last in the queue.
LEMMA VisitIs ==
  ASSUME NEW T, NEW U, \A r \in U : r.from \in T /\ r.to \in T,
         NEW b \in SearchState(T, U), NEW t \in b.visited, NEW r \in U
  PROVE  /\ Visit(b, t, r) \in SearchState(T, U)
         /\ t \notin {r.from, r.to} \/ Other(r, t) \in b.visited => Visit(b, t, r) = b
         /\ ~(t \notin {r.from, r.to} \/ Other(r, t) \in b.visited) =>
              /\ Visit(b, t, r).queue = Append(b.queue, Other(r, t))
              /\ Visit(b, t, r).visited = b.visited \cup {Other(r, t)}
              /\ Visit(b, t, r).path[Other(r, t)] = Append(b.path[t], r)
              /\ \A x \in b.visited : Visit(b, t, r).path[x] = b.path[x]
<1> DEFINE y == Other(r, t)
           V == b.visited \cup {y}
           f == [x \in V |-> IF x = y THEN Append(b.path[t], r) ELSE b.path[x]]
           q == Append(b.queue, y)
           c == [queue |-> q, visited |-> V, path |-> f]
<1>1. /\ b.queue \in Seq(T) /\ b.visited \in SUBSET T
      /\ b.queue \in Seq(b.visited) /\ b.path \in [b.visited -> Seq(U)]
  BY DEF SearchState
<1>2. y \in T
  BY DEF Other
<1>3. CASE t \notin {r.from, r.to} \/ y \in b.visited
  BY <1>3 DEF Visit
<1>4. CASE ~(t \notin {r.from, r.to} \/ y \in b.visited)
  <2>1. Visit(b, t, r) = c
    BY <1>4 DEF Visit
  <2>2. y \notin b.visited
    BY <1>4
  <2> HIDE DEF y
  <2>3. V \in SUBSET T /\ q \in Seq(T) /\ q \in Seq(V)
    BY <1>1, <1>2
  <2>4. f \in [V -> Seq(U)]
    <3>1. ASSUME NEW x \in V PROVE f[x] \in Seq(U)
      <4>1. CASE x = y
        <5>1. b.path[t] \in Seq(U)
          BY <1>1
        <5> DEFINE s == b.path[t]
        <5> HIDE DEF s
        <5>2. Append(s, r) \in Seq(U)
          BY <5>1 DEF s
        <5>3. QED  BY <4>1, <5>2 DEF s
      <4>2. CASE x # y
        BY <1>1, <4>2
      <4>3. QED  BY <4>1, <4>2
    <3>2. f = [x \in V |-> f[x]]
      OBVIOUS
    <3> HIDE DEF f
    <3>3. QED  BY <3>1, <3>2
  <2>5. f[y] = Append(b.path[t], r) /\ \A x \in b.visited : f[x] = b.path[x]
    BY <2>2
  <2> HIDE DEF f, V, q
  <2>6. c \in SearchState(T, U)
    <3>1. c \in [queue : Seq(T), visited : SUBSET T, path : UNION {[W -> Seq(U)] : W \in SUBSET T}]
      BY <2>3, <2>4
    <3>2. c.queue = q /\ c.visited = V /\ c.path = f
      OBVIOUS
    <3> HIDE DEF c
    <3>3. QED  BY <2>3, <2>4, <3>1, <3>2 DEF SearchState
  <2>7. c.queue = q /\ c.visited = V /\ c.path = f
    OBVIOUS
  <2> HIDE DEF c
  <2>8. Visit(b, t, r).queue = q /\ Visit(b, t, r).visited = V /\ Visit(b, t, r).path = f
    BY <2>1, <2>7
  <2>9. QED  BY <1>4, <2>1, <2>5, <2>6, <2>8 DEF q, V, y
<1>5. QED  BY <1>3, <1>4

\* The relations lead from a set of tables to those next to it.
LinkedBy(pairs, U) ==
    \A S, y : y \in Further(pairs, S) <=>
                 y \in S \/ \E x \in S, r \in U : x \in {r.from, r.to} /\ y = Other(r, x)

\* A relation is followed both ways.
LEMMA BothWays ==
  ASSUME NEW U
  PROVE  LinkedBy({<<r.from, r.to>> : r \in U} \cup {<<r.to, r.from>> : r \in U}, U)
<1> DEFINE pairs == {<<r.from, r.to>> : r \in U} \cup {<<r.to, r.from>> : r \in U}
<1>1. ASSUME NEW S, NEW y
      PROVE  y \in Further(pairs, S) <=>
                 y \in S \/ \E x \in S, r \in U : x \in {r.from, r.to} /\ y = Other(r, x)
  <2>1. ASSUME NEW x \in S, NEW r \in U, x \in {r.from, r.to}, y = Other(r, x)
        PROVE  y \in Further(pairs, S)
    <3>1. <<x, y>> \in pairs
      BY <2>1 DEF Other
    <3> HIDE DEF pairs
    <3>2. <<x, y>>[1] = x /\ <<x, y>>[2] = y
      OBVIOUS
    <3>3. QED  BY <3>1, <3>2 DEF Further
  <2>2. ASSUME NEW p \in pairs, p[1] \in S, y = p[2]
        PROVE  \E x \in S, r \in U : x \in {r.from, r.to} /\ y = Other(r, x)
    <3>1. PICK r \in U : p = <<r.from, r.to>> \/ p = <<r.to, r.from>>
      OBVIOUS
    <3>2. p[1] \in {r.from, r.to} /\ p[2] = Other(r, p[1])
      BY <3>1 DEF Other
    <3> HIDE DEF pairs
    <3>3. QED  BY <2>2, <3>2
  <2>3. y \in Further(pairs, S) => y \in S \/ \E p \in pairs : p[1] \in S /\ y = p[2]
    BY DEF Further
  <2>4. y \in S => y \in Further(pairs, S)
    BY DEF Further
  <2> HIDE DEF pairs
  <2>5. QED  BY <2>1, <2>2, <2>3, <2>4
<1> HIDE DEF pairs
<1>2. LinkedBy(pairs, U)
  BY <1>1 DEF LinkedBy
<1>3. QED  BY <1>2 DEF pairs

Far(b, x) == Len(b.path[x])

\* The path to each table visited leads there, and none is shorter.
Shortest(b, src, pairs) ==
    /\ src \in b.visited
    /\ \A x \in b.visited : /\ Leads(b.path[x], src, x)
                            /\ x \in Ball(src, pairs, Far(b, x))
                            /\ \A m \in Nat : x \in Ball(src, pairs, m) => Far(b, x) <= m

\* The nearer is before the farther in the queue, and none is there twice.
InTurn(b) ==
    \A i, j \in DOMAIN b.queue :
        i < j => b.queue[i] # b.queue[j] /\ Far(b, b.queue[i]) <= Far(b, b.queue[j])

\* "b" was the state when "t" was taken from its queue, "c" is the state since.
Visiting(c, b, t, src, pairs) ==
    /\ Shortest(c, src, pairs) /\ InTurn(c)
    /\ b.visited \subseteq c.visited /\ \A x \in b.visited : c.path[x] = b.path[x]
    /\ \A x \in c.visited : x \in ToSet(c.queue) <=> (x \in ToSet(b.queue) /\ x # t) \/ x \notin b.visited
    /\ \A x \in ToSet(c.queue) : Far(b, t) <= Far(c, x) /\ Far(c, x) <= Far(b, t) + 1

\* What is known of a state of the search.
LEMMA StateIs ==
  ASSUME NEW T, NEW U, NEW b \in SearchState(T, U)
  PROVE  /\ b.queue \in Seq(b.visited) /\ b.visited \subseteq T /\ b.path \in [b.visited -> Seq(U)]
         /\ \A x \in b.visited : b.path[x] \in Seq(U) /\ Far(b, x) \in Nat
         /\ DOMAIN b.queue = 1 .. Len(b.queue) /\ Len(b.queue) \in Nat
         /\ \A i \in DOMAIN b.queue : b.queue[i] \in b.visited
         /\ ToSet(b.queue) \subseteq b.visited
<1>1. b.queue \in Seq(b.visited) /\ b.visited \subseteq T /\ b.path \in [b.visited -> Seq(U)]
  BY DEF SearchState
<1>2. \A x \in b.visited : b.path[x] \in Seq(U) /\ Far(b, x) \in Nat
  <2>1. \A s \in Seq(U) : Len(s) \in Nat
    OBVIOUS
  <2>2. \A x \in b.visited : b.path[x] \in Seq(U)
    BY <1>1
  <2>3. QED  BY <2>1, <2>2 DEF Far
<1>3. /\ DOMAIN b.queue = 1 .. Len(b.queue) /\ Len(b.queue) \in Nat
      /\ \A i \in DOMAIN b.queue : b.queue[i] \in b.visited
  BY <1>1
<1>4. ToSet(b.queue) \subseteq b.visited
  BY <1>3 DEF ToSet
<1>5. QED  BY <1>1, <1>2, <1>3, <1>4

\* A relation visited leaves every path shortest and the queue in turn.
LEMMA VisitKeeps ==
  ASSUME NEW T, NEW U, \A r \in U : r.from \in T /\ r.to \in T,
         NEW src, NEW pairs, LinkedBy(pairs, U),
         NEW b \in SearchState(T, U), NEW t \in b.visited,
         Ball(src, pairs, Far(b, t)) \subseteq b.visited,
         NEW c \in SearchState(T, U), Visiting(c, b, t, src, pairs), NEW r \in U
  PROVE  /\ Visit(c, t, r) \in SearchState(T, U)
         /\ Visiting(Visit(c, t, r), b, t, src, pairs)
         /\ c.visited \subseteq Visit(c, t, r).visited
         /\ t \in {r.from, r.to} => Other(r, t) \in Visit(c, t, r).visited
<1> DEFINE d == Visit(c, t, r)
           y == Other(r, t)
           h == Far(b, t)
<1>1. t \in c.visited /\ c.path[t] = b.path[t] /\ Far(c, t) = h
  BY DEF Visiting, Far
<1>2. /\ d \in SearchState(T, U)
      /\ t \notin {r.from, r.to} \/ y \in c.visited => d = c
      /\ ~(t \notin {r.from, r.to} \/ y \in c.visited) =>
              /\ d.queue = Append(c.queue, y)
              /\ d.visited = c.visited \cup {y}
              /\ d.path[y] = Append(c.path[t], r)
              /\ \A x \in c.visited : d.path[x] = c.path[x]
  BY <1>1, VisitIs, SMTT(30)
<1> HIDE DEF d
<1>3. CASE t \notin {r.from, r.to} \/ y \in c.visited
  BY <1>2, <1>3 DEF d
<1>4. CASE ~(t \notin {r.from, r.to} \/ y \in c.visited)
  <2>1. /\ d.queue = Append(c.queue, y)
        /\ d.visited = c.visited \cup {y}
        /\ d.path[y] = Append(c.path[t], r)
        /\ \A x \in c.visited : d.path[x] = c.path[x]
        /\ t \in {r.from, r.to} /\ y \notin c.visited
    BY <1>2, <1>4
  <2>2. /\ c.queue \in Seq(c.visited) /\ c.path[t] \in Seq(U) /\ h \in Nat
        /\ \A x \in c.visited : Far(c, x) \in Nat
        /\ \A i \in DOMAIN c.queue : c.queue[i] \in c.visited
        /\ DOMAIN c.queue = 1 .. Len(c.queue) /\ Len(c.queue) \in Nat
        /\ ToSet(c.queue) \subseteq c.visited
    BY <1>1, StateIs
  <2>a. b.visited \subseteq c.visited
    BY DEF Visiting
  <2> HIDE DEF y, h
  <2>3. Far(d, y) = h + 1 /\ \A x \in c.visited : Far(d, x) = Far(c, x)
    <3> DEFINE s == c.path[t]
    <3>1. s \in Seq(U) /\ d.path[y] = Append(s, r) /\ Len(s) = h
      BY <1>1, <2>1, <2>2 DEF Far
    <3> HIDE DEF s
    <3>2. Len(Append(s, r)) = Len(s) + 1
      BY <3>1
    <3>3. QED  BY <2>1, <3>1, <3>2 DEF Far
  <2>4. Shortest(d, src, pairs)
    <3>1. src \in d.visited
      BY <2>1 DEF Visiting, Shortest
    <3>2. ASSUME NEW x \in c.visited
          PROVE  /\ Leads(d.path[x], src, x)
                 /\ x \in Ball(src, pairs, Far(d, x))
                 /\ \A m \in Nat : x \in Ball(src, pairs, m) => Far(d, x) <= m
      <4>1. d.path[x] = c.path[x] /\ Far(d, x) = Far(c, x)
        BY <2>1, <2>3
      <4>2. /\ Leads(c.path[x], src, x)
            /\ x \in Ball(src, pairs, Far(c, x))
            /\ \A m \in Nat : x \in Ball(src, pairs, m) => Far(c, x) <= m
        BY DEF Visiting, Shortest
      <4>3. QED  BY <4>1, <4>2
    <3>3. /\ Leads(d.path[y], src, y)
          /\ y \in Ball(src, pairs, Far(d, y))
          /\ \A m \in Nat : y \in Ball(src, pairs, m) => Far(d, y) <= m
      <4>1. Leads(c.path[t], src, t) /\ t \in Ball(src, pairs, h)
        BY <1>1 DEF Visiting, Shortest
      <4>2. Leads(d.path[y], src, y)
        BY <2>1, <2>2, <4>1, LeadsFurther DEF y
      <4>3. y \in Further(pairs, Ball(src, pairs, h))
        BY <2>1, <4>1 DEF LinkedBy, y
      <4>4. Ball(src, pairs, h + 1) = Further(pairs, Ball(src, pairs, h))
        BY <2>2, BallIs
      <4>5. ASSUME NEW m \in Nat, y \in Ball(src, pairs, m) PROVE h + 1 <= m
        <5>1. CASE m <= h
          <6>1. Ball(src, pairs, m) \subseteq Ball(src, pairs, h)
            BY <2>2, <5>1, BallGrows
          <6>2. Ball(src, pairs, h) \subseteq c.visited
            BY <2>a DEF h
          <6>3. QED  BY <2>1, <4>5, <6>1, <6>2
        <5>2. CASE ~(m <= h)
          BY <2>2, <5>2
        <5>3. QED  BY <5>1, <5>2
      <4>6. QED  BY <2>3, <4>2, <4>3, <4>4, <4>5
    <3>4. QED  BY <2>1, <3>1, <3>2, <3>3 DEF Shortest
  <2>5. /\ \A x : x \in ToSet(d.queue) <=> x \in ToSet(c.queue) \/ x = y
        /\ DOMAIN d.queue = 1 .. Len(c.queue) + 1 /\ d.queue[Len(c.queue) + 1] = y
        /\ \A i \in 1 .. Len(c.queue) : d.queue[i] = c.queue[i]
    <3> DEFINE q == c.queue
    <3>1. q \in Seq(c.visited) /\ d.queue = Append(q, y)
      BY <2>1, <2>2
    <3> HIDE DEF q
    <3>2. /\ DOMAIN d.queue = 1 .. Len(q) + 1 /\ d.queue[Len(q) + 1] = y
          /\ \A i \in 1 .. Len(q) : d.queue[i] = q[i]
          /\ DOMAIN q = 1 .. Len(q) /\ Len(q) \in Nat
      BY <3>1
    <3>3. \A x : x \in ToSet(d.queue) <=> x \in ToSet(q) \/ x = y
      <4>1. ASSUME NEW x \in ToSet(d.queue) PROVE x \in ToSet(q) \/ x = y
        <5>1. PICK i \in DOMAIN d.queue : d.queue[i] = x
          BY DEF ToSet
        <5>2. i = Len(q) + 1 \/ i \in DOMAIN q
          BY <3>2
        <5>3. QED  BY <3>2, <5>1, <5>2 DEF ToSet
      <4>2. ASSUME NEW x \in ToSet(q) PROVE x \in ToSet(d.queue)
        <5>1. PICK i \in DOMAIN q : q[i] = x
          BY DEF ToSet
        <5>2. i \in DOMAIN d.queue /\ d.queue[i] = x
          BY <3>2, <5>1
        <5>3. QED  BY <5>2 DEF ToSet
      <4>3. y \in ToSet(d.queue)
        <5>1. Len(q) + 1 \in DOMAIN d.queue
          BY <3>2
        <5>2. QED  BY <3>2, <5>1 DEF ToSet
      <4>4. QED  BY <4>1, <4>2, <4>3
    <3>4. QED  BY <3>2, <3>3 DEF q
  <2>6. \A x \in ToSet(d.queue) : h <= Far(d, x) /\ Far(d, x) <= h + 1
    <3>1. \A x \in ToSet(c.queue) : h <= Far(c, x) /\ Far(c, x) <= h + 1 /\ Far(d, x) = Far(c, x)
      BY <2>2, <2>3 DEF Visiting, h
    <3>2. h <= h + 1 /\ h + 1 <= h + 1
      BY <2>2
    <3>3. QED  BY <2>3, <2>5, <3>1, <3>2
  <2>7. InTurn(d)
    <3> SUFFICES ASSUME NEW i \in DOMAIN d.queue, NEW j \in DOMAIN d.queue, i < j
                 PROVE  d.queue[i] # d.queue[j] /\ Far(d, d.queue[i]) <= Far(d, d.queue[j])
      BY DEF InTurn
    <3>1. i \in DOMAIN c.queue /\ d.queue[i] = c.queue[i]
      BY <2>2, <2>5
    <3>2. c.queue[i] \in c.visited /\ c.queue[i] \in ToSet(c.queue)
      BY <2>2, <3>1 DEF ToSet
    <3>3. CASE j \in DOMAIN c.queue
      <4>1. d.queue[j] = c.queue[j] /\ c.queue[j] \in c.visited
        BY <2>2, <2>5, <3>3
      <4>2. c.queue[i] # c.queue[j] /\ Far(c, c.queue[i]) <= Far(c, c.queue[j])
        BY <3>1, <3>3 DEF Visiting, InTurn
      <4>3. QED  BY <2>3, <3>1, <3>2, <4>1, <4>2
    <3>4. CASE j \notin DOMAIN c.queue
      <4>1. d.queue[j] = y
        BY <2>2, <2>5, <3>4
      <4>2. Far(d, c.queue[i]) <= h + 1
        BY <2>5, <2>6, <3>2
      <4>3. QED  BY <2>1, <2>3, <3>1, <3>2, <4>1, <4>2
    <3>5. QED  BY <3>3, <3>4
  <2>8. b.visited \subseteq d.visited /\ \A x \in b.visited : d.path[x] = b.path[x]
    BY <2>1, <2>a DEF Visiting
  <2>9. \A x \in d.visited : x \in ToSet(d.queue) <=> (x \in ToSet(b.queue) /\ x # t) \/ x \notin b.visited
    <3>1. ASSUME NEW x \in c.visited
          PROVE  x \in ToSet(d.queue) <=> (x \in ToSet(b.queue) /\ x # t) \/ x \notin b.visited
      BY <2>1, <2>5 DEF Visiting
    <3>2. y \in ToSet(d.queue) /\ y \notin b.visited
      BY <2>1, <2>5, <2>a
    <3>3. QED  BY <2>1, <3>1, <3>2
  <2>10. Visiting(d, b, t, src, pairs)
    BY <2>4, <2>6, <2>7, <2>8, <2>9 DEF Visiting, h
  <2>11. QED  BY <1>2, <2>1, <2>10 DEF d, y
<1>5. QED  BY <1>3, <1>4

\* All that is near has been visited, and from what left the queue all is.
Searched(b, U, src, pairs) ==
    /\ Shortest(b, src, pairs) /\ InTurn(b)
    /\ \A x \in ToSet(b.queue) : Far(b, x) <= Far(b, b.queue[1]) + 1
    /\ \A x \in b.visited \ ToSet(b.queue), r \in U : x \in {r.from, r.to} => Other(r, x) \in b.visited
    /\ b.queue # <<>> => Ball(src, pairs, Far(b, b.queue[1])) \subseteq b.visited

Waits(b) == b.queue # <<>>
Beheaded(b) == [b EXCEPT !.queue = Tail(@)]

\* The table at the head of the queue, and every relation it has.
Popped(b, known) ==
    LET visit[k \in 0 .. Len(known)] ==
          IF k = 0 THEN [b EXCEPT !.queue = Tail(@)]
          ELSE Visit(visit[k - 1], Head(b.queue), known[k])
    IN visit[Len(known)]

\* Without its head the queue is still in turn.
LEMMA HeadTaken ==
  ASSUME NEW T, NEW U, NEW src, NEW pairs, NEW b \in SearchState(T, U),
         Searched(b, U, src, pairs), Waits(b)
  PROVE  /\ Head(b.queue) = b.queue[1] /\ b.queue[1] \in b.visited /\ b.queue[1] \in ToSet(b.queue)
         /\ Beheaded(b) \in SearchState(T, U) /\ Beheaded(b).visited = b.visited
         /\ Visiting(Beheaded(b), b, b.queue[1], src, pairs)
<1> DEFINE t == b.queue[1]
           q == b.queue
           s == Tail(q)
           c == [b EXCEPT !.queue = Tail(@)]
<1>1. /\ b.queue \in Seq(b.visited) /\ b.visited \subseteq T /\ b.path \in [b.visited -> Seq(U)]
      /\ \A x \in b.visited : Far(b, x) \in Nat
      /\ DOMAIN b.queue = 1 .. Len(b.queue) /\ Len(b.queue) \in Nat
      /\ \A i \in DOMAIN b.queue : b.queue[i] \in b.visited
      /\ ToSet(b.queue) \subseteq b.visited
  BY StateIs
<1>2. Head(q) = t /\ Len(q) >= 1 /\ 1 \in DOMAIN q /\ t \in b.visited /\ t \in ToSet(q)
  <2>1. Head(q) = t /\ Len(q) >= 1 /\ 1 \in DOMAIN q
    BY <1>1 DEF Waits
  <2>2. QED  BY <1>1, <2>1 DEF ToSet
<1>3. /\ s \in Seq(b.visited) /\ s \in Seq(T) /\ Len(s) = Len(q) - 1 /\ DOMAIN s = 1 .. Len(q) - 1
      /\ \A i \in 1 .. Len(q) - 1 : s[i] = q[i + 1]
  <2>1. q \in Seq(b.visited) /\ q # <<>> /\ b.visited \subseteq T
    BY <1>1 DEF Waits
  <2> HIDE DEF q
  <2>2. QED  BY <2>1
<1>4. c.queue = s /\ c.visited = b.visited /\ c.path = b.path
      /\ c \in [queue : Seq(T), visited : SUBSET T, path : UNION {[V -> Seq(U)] : V \in SUBSET T}]
  <2>1. b \in [queue : Seq(T), visited : SUBSET T, path : UNION {[V -> Seq(U)] : V \in SUBSET T}]
    BY DEF SearchState
  <2> HIDE DEF s
  <2>2. c = [b EXCEPT !.queue = s]
    BY DEF s
  <2>3. s \in Seq(T)
    BY <1>3
  <2> DEFINE P == UNION {[V -> Seq(U)] : V \in SUBSET T}
             Q == Seq(T)
             W == SUBSET T
  <2>4. b \in [queue : Q, visited : W, path : P] /\ s \in Q
    BY <2>1, <2>3
  <2> HIDE DEF P, c, Q, W
  <2>5. c.queue = s /\ c.visited = b.visited /\ c.path = b.path /\ c \in [queue : Q, visited : W, path : P]
    BY <2>2, <2>4
  <2>6. QED  BY <2>5 DEF P, Q, W
<1>5. c \in SearchState(T, U)
  <2> HIDE DEF c, s, q
  <2>1. QED  BY <1>1, <1>3, <1>4 DEF SearchState
<1>5a. DOMAIN q = 1 .. Len(q) /\ Len(q) \in Nat
  BY <1>1
<1> HIDE DEF c, s, t
<1>6. \A x : Far(c, x) = Far(b, x)
  BY <1>4 DEF Far
<1>7. Shortest(c, src, pairs)
  BY <1>4, <1>6 DEF Searched, Shortest
<1>8. ASSUME NEW i \in DOMAIN s, NEW j \in DOMAIN s, i < j
      PROVE  s[i] # s[j] /\ Far(b, s[i]) <= Far(b, s[j])
  <2> DEFINE k == i + 1
             l == j + 1
  <2>0. i \in 1 .. Len(q) - 1 /\ j \in 1 .. Len(q) - 1
    BY <1>3
  <2>1. k \in DOMAIN q /\ l \in DOMAIN q /\ k < l /\ s[i] = q[k] /\ s[j] = q[l]
    <3>1. s[i] = q[k] /\ s[j] = q[l]
      BY <1>3, <2>0
    <3> HIDE DEF q
    <3>2. k \in 1 .. Len(q) /\ l \in 1 .. Len(q) /\ k < l
      BY <1>5a, <1>8, <2>0
    <3> HIDE DEF k, l
    <3>3. QED  BY <1>5a, <3>1, <3>2
  <2> HIDE DEF k, l
  <2>2. q[k] # q[l] /\ Far(b, q[k]) <= Far(b, q[l])
    BY <2>1 DEF Searched, InTurn
  <2>3. QED  BY <2>1, <2>2
<1>9. InTurn(c)
  BY <1>4, <1>6, <1>8 DEF InTurn
<1>10. ASSUME NEW x \in ToSet(s) PROVE x \in ToSet(q) /\ x # t /\ Far(b, t) <= Far(b, x)
  <2>1. PICK i \in DOMAIN s : s[i] = x
    BY DEF ToSet
  <2> DEFINE k == i + 1
  <2>0. i \in 1 .. Len(q) - 1
    BY <1>3
  <2>2. k \in DOMAIN q /\ q[k] = x /\ 1 < k /\ 1 \in DOMAIN q
    <3>1. q[k] = x
      BY <1>3, <2>0, <2>1
    <3> HIDE DEF q
    <3>2. k \in 1 .. Len(q) /\ 1 < k /\ 1 \in 1 .. Len(q)
      BY <1>5a, <2>0
    <3> HIDE DEF k
    <3>3. QED  BY <1>5a, <3>1, <3>2
  <2> HIDE DEF k
  <2>3. x \in ToSet(q)
    BY <2>2 DEF ToSet
  <2>4. q[1] # q[k] /\ Far(b, q[1]) <= Far(b, q[k])
    BY <2>2 DEF Searched, InTurn
  <2>5. QED  BY <2>2, <2>3, <2>4 DEF t
<1>11. ASSUME NEW x \in ToSet(q), x # t PROVE x \in ToSet(s)
  <2>1. PICK k \in DOMAIN q : q[k] = x
    BY DEF ToSet
  <2> DEFINE i == k - 1
  <2>2. k # 1
    BY <1>11, <2>1 DEF t
  <2>3. i \in DOMAIN s /\ s[i] = x
    <3>1. i \in 1 .. Len(q) - 1 /\ i + 1 = k
      BY <1>1, <2>2, SMTT(30)
    <3> HIDE DEF i
    <3>2. QED  BY <1>3, <2>1, <3>1
  <2> HIDE DEF i
  <2>4. QED  BY <2>3 DEF ToSet
<1>12. \A x \in ToSet(s) : Far(b, t) <= Far(b, x) /\ Far(b, x) <= Far(b, t) + 1
  <2>1. \A x \in ToSet(q) : Far(b, x) <= Far(b, t) + 1
    BY DEF Searched, t
  <2>2. QED  BY <1>10, <2>1
<1>13. Visiting(c, b, t, src, pairs)
  <2>1. \A x \in c.visited : x \in ToSet(c.queue) <=> (x \in ToSet(b.queue) /\ x # t) \/ x \notin b.visited
    BY <1>4, <1>10, <1>11
  <2>2. \A x \in ToSet(c.queue) : Far(b, t) <= Far(c, x) /\ Far(c, x) <= Far(b, t) + 1
    BY <1>4, <1>6, <1>12
  <2>3. b.visited \subseteq c.visited /\ \A x \in b.visited : c.path[x] = b.path[x]
    BY <1>4
  <2>4. QED  BY <1>7, <1>9, <2>1, <2>2, <2>3 DEF Visiting
<1>14. QED  BY <1>2, <1>4, <1>5, <1>13 DEF c, t, Beheaded

AllVisited(t, e, U) == \A r \in U : t \in {r.from, r.to} => Other(r, t) \in e.visited

\* When all relations of the head are visited, the search is where it was, a
\* table further.
LEMMA VisitedAll ==
  ASSUME NEW T, NEW U, NEW src, NEW pairs, LinkedBy(pairs, U),
         NEW b \in SearchState(T, U), Searched(b, U, src, pairs), Waits(b),
         NEW e \in SearchState(T, U), Visiting(e, b, b.queue[1], src, pairs),
         AllVisited(b.queue[1], e, U)
  PROVE  /\ Searched(e, U, src, pairs)
         /\ e.visited \ ToSet(e.queue) = (b.visited \ ToSet(b.queue)) \cup {b.queue[1]}
<1> DEFINE t == b.queue[1]
           h == Far(b, t)
           z == e.queue[1]
<1>1. /\ t \in b.visited /\ t \in ToSet(b.queue)
  BY HeadTaken
<1>2. /\ \A x \in e.visited : Far(e, x) \in Nat
      /\ \A x \in b.visited : Far(b, x) \in Nat
      /\ ToSet(e.queue) \subseteq e.visited /\ ToSet(b.queue) \subseteq b.visited
      /\ e.queue \in Seq(e.visited) /\ DOMAIN e.queue = 1 .. Len(e.queue) /\ Len(e.queue) \in Nat
  BY StateIs
<1>3. h \in Nat
  BY <1>1, <1>2
<1> HIDE DEF t, h, z
<1>4. /\ Shortest(e, src, pairs) /\ InTurn(e)
      /\ b.visited \subseteq e.visited /\ \A x \in b.visited : e.path[x] = b.path[x]
      /\ \A x \in e.visited : x \in ToSet(e.queue) <=> (x \in ToSet(b.queue) /\ x # t) \/ x \notin b.visited
      /\ \A x \in ToSet(e.queue) : h <= Far(e, x) /\ Far(e, x) <= h + 1
  BY DEF Visiting, t, h
<1>5. e.visited \ ToSet(e.queue) = (b.visited \ ToSet(b.queue)) \cup {t}
  BY <1>1, <1>4
<1>6. ASSUME e.queue # <<>> PROVE z \in ToSet(e.queue) /\ 1 \in DOMAIN e.queue
  <2>1. 1 \in DOMAIN e.queue
    BY <1>2, <1>6
  <2>2. QED  BY <2>1 DEF ToSet, z
<1>7. \A x \in ToSet(e.queue) : Far(e, x) <= Far(e, z) + 1
  <2> SUFFICES ASSUME NEW x \in ToSet(e.queue) PROVE Far(e, x) <= Far(e, z) + 1
    OBVIOUS
  <2>1. e.queue # <<>>
    BY DEF ToSet
  <2>2. Far(e, x) <= h + 1 /\ h <= Far(e, z) /\ Far(e, x) \in Nat /\ Far(e, z) \in Nat
    BY <1>2, <1>4, <1>6, <2>1
  <2>3. QED  BY <1>3, <2>2
<1>8. ASSUME NEW x \in e.visited \ ToSet(e.queue), NEW r \in U, x \in {r.from, r.to}
      PROVE  Other(r, x) \in e.visited
  <2>1. CASE x = t
    BY <1>8, <2>1 DEF t, AllVisited
  <2>2. CASE x \in b.visited \ ToSet(b.queue)
    BY <1>4, <1>8, <2>2 DEF Searched
  <2>3. QED  BY <1>5, <2>1, <2>2
<1>9. ASSUME e.queue # <<>> PROVE Ball(src, pairs, Far(e, z)) \subseteq e.visited
  <2>1. Ball(src, pairs, h) \subseteq b.visited
    BY DEF Searched, Waits, h, t
  <2>2. Far(e, z) = h \/ Far(e, z) = h + 1
    <3>1. h <= Far(e, z) /\ Far(e, z) <= h + 1 /\ Far(e, z) \in Nat
      BY <1>2, <1>4, <1>6, <1>9
    <3>2. QED  BY <1>3, <3>1
  <2>3. CASE Far(e, z) = h
    BY <1>4, <2>1, <2>3
  <2>4. CASE Far(e, z) = h + 1
    <3>1. Ball(src, pairs, h + 1) = Further(pairs, Ball(src, pairs, h))
      BY <1>3, BallIs, ZenonT(60)
    <3>2. ASSUME NEW x \in Ball(src, pairs, h) PROVE x \in e.visited \ ToSet(e.queue)
      <4>1. x \in e.visited /\ Far(e, x) <= h /\ Far(e, x) \in Nat
        BY <1>2, <1>3, <1>4, <2>1 DEF Shortest
      <4>2. ASSUME x \in ToSet(e.queue) PROVE FALSE
        <5>1. PICK j \in DOMAIN e.queue : e.queue[j] = x
          BY <4>2 DEF ToSet
        <5>2. j # 1
          BY <1>3, <2>4, <4>1, <5>1 DEF z
        <5>3. 1 < j /\ 1 \in DOMAIN e.queue
          BY <1>2, <1>6, <1>9, <5>2
        <5>4. Far(e, z) <= Far(e, x)
          BY <1>4, <5>1, <5>3 DEF InTurn, z
        <5>5. QED  BY <1>3, <2>4, <4>1, <5>4
      <4>3. QED  BY <4>1, <4>2
    <3>3. ASSUME NEW y \in Further(pairs, Ball(src, pairs, h)) PROVE y \in e.visited
      <4>1. y \in Ball(src, pairs, h) \/ \E x \in Ball(src, pairs, h), r \in U :
              x \in {r.from, r.to} /\ y = Other(r, x)
        BY DEF LinkedBy
      <4>2. QED  BY <1>8, <3>2, <4>1
    <3>4. QED  BY <2>4, <3>1, <3>3
  <2>5. QED  BY <2>2, <2>3, <2>4
<1>10. Searched(e, U, src, pairs)
  BY <1>4, <1>7, <1>8, <1>9 DEF Searched, z
<1>11. QED  BY <1>5, <1>10 DEF t

\* The list names all.
Enlists(known, U) == known \in Seq(U) /\ ToSet(known) = U

\* A table taken from the queue, with every relation visited.
LEMMA PoppedIs ==
  ASSUME NEW T, NEW U, \A r \in U : r.from \in T /\ r.to \in T,
         NEW known, Enlists(known, U), NEW src, NEW pairs, LinkedBy(pairs, U),
         NEW b \in SearchState(T, U), Searched(b, U, src, pairs), Waits(b)
  PROVE  /\ Popped(b, known) \in SearchState(T, U)
         /\ Searched(Popped(b, known), U, src, pairs)
         /\ Popped(b, known).visited \ ToSet(Popped(b, known).queue) =
              (b.visited \ ToSet(b.queue)) \cup {b.queue[1]}
<1> DEFINE t == b.queue[1]
           n == Len(known)
           c == [b EXCEPT !.queue = Tail(@)]
           X == {d \in SearchState(T, U) : t \in d.visited}
           F == [q \in (1 .. n) \X X |-> Visit(q[2], t, known[q[1]])]
           Step(g) == [k \in 0 .. n |-> IF k = 0 THEN c ELSE Visit(g[k - 1], t, known[k])]
           h == CHOOSE g : g = Step(g)
<1> HIDE DEF t, n, c, X, F, Step, h
<1>0. /\ Head(b.queue) = b.queue[1] /\ b.queue[1] \in b.visited /\ b.queue[1] \in ToSet(b.queue)
      /\ Beheaded(b) \in SearchState(T, U) /\ Beheaded(b).visited = b.visited
      /\ Visiting(Beheaded(b), b, b.queue[1], src, pairs)
  BY HeadTaken
<1>1. /\ Head(b.queue) = t /\ t \in b.visited
      /\ c \in SearchState(T, U) /\ c.visited = b.visited
      /\ Visiting(c, b, t, src, pairs)
  BY <1>0 DEF t, c, Beheaded
<1>2. n \in Nat /\ \A i \in 1 .. n : known[i] \in U
  BY PlacesOf DEF n, Enlists
<1> USE DEF h, Step, n
<1>3. Popped(b, known) = h[n]
  BY <1>1 DEF Popped, c
<1> HIDE DEF n
<1> USE DEF F, X
<1>4. F \in [(1 .. n) \X X -> X] /\ c \in X /\ \A i \in 1 .. n : \A x \in X : F[<<i, x>>] = Visit(x, t, known[i])
  <2>1. ASSUME NEW d \in X, NEW i \in 1 .. n PROVE Visit(d, t, known[i]) \in X
    <3>1. d \in SearchState(T, U) /\ t \in d.visited /\ known[i] \in U
      BY <1>2
    <3>2. /\ Visit(d, t, known[i]) \in SearchState(T, U)
          /\ t \in Visit(d, t, known[i]).visited
      <4> DEFINE r == known[i]
      <4> HIDE DEF r, X
      <4>1. r \in U
        BY <3>1 DEF r
      <4>2. /\ Visit(d, t, r) \in SearchState(T, U)
            /\ t \notin {r.from, r.to} \/ Other(r, t) \in d.visited => Visit(d, t, r) = d
            /\ ~(t \notin {r.from, r.to} \/ Other(r, t) \in d.visited) =>
                 Visit(d, t, r).visited = d.visited \cup {Other(r, t)}
        BY <3>1, <4>1, VisitIs
      <4>3. QED  BY <3>1, <4>2 DEF r
    <3>3. QED  BY <3>2
  <2>2. c \in X
    BY <1>1
  <2> HIDE DEF X
  <2>3. F \in [(1 .. n) \X X -> X]
    BY <2>1
  <2>4. QED  BY <2>2, <2>3
<1> HIDE DEF F, X
<1>5. PICK g \in [0 .. n -> X] : IsRun(g, c, F, n)
  BY <1>2, <1>4, RunsExist
<1>6. g = Step(g)
  <2>1. ASSUME NEW i \in 0 .. n PROVE g[i] = IF i = 0 THEN c ELSE Visit(g[i - 1], t, known[i])
    <3>1. CASE i = 0
      BY <1>5, <3>1 DEF IsRun
    <3>2. CASE i # 0
      <4>1. i \in 1 .. n /\ i - 1 \in 0 .. n
        BY <1>2, <3>2
      <4>2. g[i - 1] \in X /\ g[i] = F[<<i, g[i - 1]>>]
        BY <1>5, <4>1 DEF IsRun
      <4>3. QED  BY <1>4, <3>2, <4>1, <4>2
    <3>3. QED  BY <3>1, <3>2
  <2> DEFINE s == Step(g)
  <2>2. \A i \in 0 .. n : s[i] = g[i]
    BY <2>1
  <2>3. s = [i \in 0 .. n |-> s[i]] /\ g = [i \in 0 .. n |-> g[i]]
    OBVIOUS
  <2> HIDE DEF s
  <2>4. QED  BY <2>2, <2>3 DEF s
<1>7. h = Step(h)
  <2> HIDE DEF Step
  <2>1. QED  BY <1>6
<1> HIDE DEF h
<1>8. h[0] = c /\ \A i \in 1 .. n : h[i] = Visit(h[i - 1], t, known[i])
  <2>1. h[0] = c
    BY <1>2, <1>7
  <2>2. ASSUME NEW i \in 1 .. n PROVE h[i] = Visit(h[i - 1], t, known[i])
    <3>1. i \in 0 .. n /\ i # 0
      BY <1>2
    <3>2. QED  BY <1>7, <3>1
  <2>3. QED  BY <2>1, <2>2
<1> HIDE DEF Step
<1> DEFINE Good(e, i) == /\ e \in SearchState(T, U) /\ Visiting(e, b, t, src, pairs)
                         /\ \A j \in 1 .. i : t \in {known[j].from, known[j].to} => Other(known[j], t) \in e.visited
           S == {m \in Nat : \A i \in 0 .. n : i = m => Good(h[i], i)}
<1>9. 0 \in S
  BY <1>1, <1>8
<1>10. ASSUME NEW m \in S PROVE m + 1 \in S
  <2> SUFFICES ASSUME NEW i \in 0 .. n, i = m + 1 PROVE Good(h[i], i)
    OBVIOUS
  <2>1. i \in 1 .. n /\ i - 1 = m /\ i - 1 \in 0 .. n
    BY <1>2
  <2>2. Good(h[i - 1], i - 1)
    BY <2>1
  <2> DEFINE d == h[i - 1]
             r == known[i]
  <2>3. h[i] = Visit(d, t, r) /\ r \in U
    BY <1>2, <1>8, <2>1
  <2>4. /\ d \in SearchState(T, U) /\ Visiting(d, b, t, src, pairs)
        /\ \A j \in 1 .. i - 1 : t \in {known[j].from, known[j].to} => Other(known[j], t) \in d.visited
    BY <2>2
  <2> HIDE DEF d, r
  <2>5. Ball(src, pairs, Far(b, t)) \subseteq b.visited
    BY DEF Searched, Waits, t
  <2>6. /\ h[i] \in SearchState(T, U) /\ Visiting(h[i], b, t, src, pairs)
        /\ d.visited \subseteq h[i].visited
        /\ t \in {r.from, r.to} => Other(r, t) \in h[i].visited
    <3> HIDE DEF Good, S
    <3>1. /\ Visit(d, t, r) \in SearchState(T, U)
          /\ Visiting(Visit(d, t, r), b, t, src, pairs)
          /\ d.visited \subseteq Visit(d, t, r).visited
          /\ t \in {r.from, r.to} => Other(r, t) \in Visit(d, t, r).visited
      BY <1>1, <2>3, <2>4, <2>5, VisitKeeps
    <3>2. QED  BY <2>3, <3>1
  <2>7. ASSUME NEW j \in 1 .. i, t \in {known[j].from, known[j].to} PROVE Other(known[j], t) \in h[i].visited
    <3>1. CASE j = i
      BY <2>6, <2>7, <3>1 DEF r
    <3>2. CASE j # i
      <4>1. j \in 1 .. i - 1
        BY <2>1, <3>2
      <4>2. QED  BY <2>4, <2>6, <2>7, <4>1
    <3>3. QED  BY <3>1, <3>2
  <2>8. QED  BY <2>6, <2>7
<1>11. Good(h[n], n)
  <2>1. S \in SUBSET Nat
    OBVIOUS
  <2> HIDE DEF S
  <2>2. n \in S
    BY <1>2, <1>9, <1>10, <2>1, Induct
  <2> HIDE DEF Good
  <2>3. QED  BY <1>2, <2>2 DEF S
<1> DEFINE e == h[n]
<1>12. /\ e \in SearchState(T, U) /\ Visiting(e, b, t, src, pairs)
       /\ \A j \in 1 .. n : t \in {known[j].from, known[j].to} => Other(known[j], t) \in e.visited
  BY <1>11
<1> HIDE DEF e
<1>13. \A r \in U : t \in {r.from, r.to} => Other(r, t) \in e.visited
  <2> SUFFICES ASSUME NEW r \in U, t \in {r.from, r.to} PROVE Other(r, t) \in e.visited
    OBVIOUS
  <2>1. r \in ToSet(known)
    BY DEF Enlists
  <2>2. PICK j \in DOMAIN known : known[j] = r
    BY <2>1 DEF ToSet
  <2>3. j \in 1 .. n
    BY PlacesOf DEF n, Enlists
  <2>4. QED  BY <1>12, <2>2, <2>3
<1>14. /\ Searched(e, U, src, pairs)
       /\ e.visited \ ToSet(e.queue) = (b.visited \ ToSet(b.queue)) \cup {t}
  <2> HIDE DEF Good, S
  <2>1. Visiting(e, b, b.queue[1], src, pairs)
        /\ AllVisited(b.queue[1], e, U)
    BY <1>12, <1>13 DEF t, AllVisited
  <2>2. /\ Searched(e, U, src, pairs)
        /\ e.visited \ ToSet(e.queue) = (b.visited \ ToSet(b.queue)) \cup {b.queue[1]}
    BY <1>12, <2>1, VisitedAll
  <2>3. QED  BY <2>2 DEF t
<1>15. QED  BY <1>3, <1>12, <1>14 DEF e, t

Started(src) == [queue |-> <<src>>, visited |-> {src}, path |-> [x \in {src} |-> <<>>]]

\* The search starts at its start.
LEMMA StartIs ==
  ASSUME NEW T, NEW U, NEW src \in T, NEW pairs
  PROVE  Started(src) \in SearchState(T, U) /\ Searched(Started(src), U, src, pairs)
<1> DEFINE q == <<src>>
           V == {src}
           f == [x \in V |-> <<>>]
           b == Started(src)
<1>1. q \in Seq(V) /\ q \in Seq(T) /\ q # <<>> /\ q[1] = src /\ DOMAIN q = 1 .. 1
  OBVIOUS
<1>2. f \in [V -> Seq(U)] /\ f[src] = <<>>
  OBVIOUS
<1>3. ToSet(q) = {src}
  BY <1>1 DEF ToSet
<1> HIDE DEF q, f
<1>4. b.queue = q /\ b.visited = V /\ b.path = f
      /\ b \in [queue : Seq(T), visited : SUBSET T, path : UNION {[W -> Seq(U)] : W \in SUBSET T}]
  <2>1. b = [queue |-> q, visited |-> V, path |-> f]
    BY DEF Started, q, f
  <2>2. f \in UNION {[W -> Seq(U)] : W \in SUBSET T}
    BY <1>2
  <2> HIDE DEF b
  <2>3. QED  BY <1>1, <2>1, <2>2
<1> HIDE DEF b
<1>5. b \in SearchState(T, U)
  BY <1>1, <1>2, <1>4 DEF SearchState
<1>6. Far(b, src) = 0
  BY <1>2, <1>4 DEF Far
<1>7. Leads(b.path[src], src, src)
  <2> DEFINE g == [i \in 0 .. 0 |-> src]
  <2>1. DOMAIN g = 0 .. 0 /\ g[0] = src
    OBVIOUS
  <2> HIDE DEF g
  <2>2. LeadsOver(g, <<>>, src, src)
    BY <2>1 DEF LeadsOver
  <2>3. QED  BY <1>2, <1>4, <2>2 DEF Leads
<1>8. Ball(src, pairs, 0) = {src}
  BY BallIs
<1>9. Shortest(b, src, pairs)
  <2>1. \A m \in Nat : 0 <= m
    OBVIOUS
  <2>2. QED  BY <1>4, <1>6, <1>7, <1>8, <2>1 DEF Shortest
<1>10. InTurn(b)
  <2>1. \A i, j \in 1 .. 1 : ~(i < j)
    OBVIOUS
  <2>2. QED  BY <1>1, <1>4, <2>1 DEF InTurn
<1>11. \A x \in ToSet(b.queue) : Far(b, x) <= Far(b, b.queue[1]) + 1
  <2>1. 0 <= 0 + 1
    OBVIOUS
  <2>2. QED  BY <1>1, <1>3, <1>4, <1>6, <2>1
<1>12. b.visited \ ToSet(b.queue) = {}
  BY <1>3, <1>4
<1>13. Ball(src, pairs, Far(b, b.queue[1])) \subseteq b.visited
  BY <1>1, <1>4, <1>6, <1>8
<1>14. Searched(b, U, src, pairs)
  BY <1>9, <1>10, <1>11, <1>12, <1>13 DEF Searched
<1>15. QED  BY <1>5, <1>14 DEF b

NextPop(b, known, dst) == IF b.queue = <<>> \/ Head(b.queue) = dst THEN b ELSE Popped(b, known)

SearchEnd(src, dst, known, n) ==
    LET after[i \in 0 .. n] == IF i = 0 THEN Started(src) ELSE NextPop(after[i - 1], known, dst)
    IN after[n]

Done(b) == b.visited \ ToSet(b.queue)

\* As many tables as there are suffice: then the queue is empty, or the table
\* looked for is found.
LEMMA SearchEnds ==
  ASSUME NEW T, IsFiniteSet(T), NEW U, \A r \in U : r.from \in T /\ r.to \in T,
         NEW known, Enlists(known, U), NEW src \in T, NEW dst,
         NEW pairs, LinkedBy(pairs, U)
  PROVE  LET e == SearchEnd(src, dst, known, Cardinality(T))
         IN e \in SearchState(T, U) /\ Searched(e, U, src, pairs) /\ (e.queue = <<>> \/ dst \in e.visited)
<1>0. ASSUME NEW d \in SearchState(T, U), Searched(d, U, src, pairs), Waits(d)
      PROVE  /\ Popped(d, known) \in SearchState(T, U)
             /\ Searched(Popped(d, known), U, src, pairs)
             /\ Popped(d, known).visited \ ToSet(Popped(d, known).queue) =
                  (d.visited \ ToSet(d.queue)) \cup {d.queue[1]}
  BY <1>0, PoppedIs
<1> DEFINE n == Cardinality(T)
           X == {d \in SearchState(T, U) : Searched(d, U, src, pairs)}
           F == [q \in (1 .. n) \X X |-> NextPop(q[2], known, dst)]
           start == Started(src)
           Step(g) == [i \in 0 .. n |-> IF i = 0 THEN start ELSE NextPop(g[i - 1], known, dst)]
           h == CHOOSE g : g = Step(g)
<1>1. n \in Nat
  BY FS_CardinalityType
<1>2. SearchEnd(src, dst, known, n) = h[n]
  BY DEF SearchEnd
<1> HIDE DEF n
<1>3. ASSUME NEW d \in X
      PROVE  /\ NextPop(d, known, dst) \in X
             /\ ~(d.queue = <<>> \/ Head(d.queue) = dst) =>
                  /\ Done(NextPop(d, known, dst)) = Done(d) \cup {d.queue[1]}
                  /\ d.queue[1] \notin Done(d)
  <2>1. CASE d.queue = <<>> \/ Head(d.queue) = dst
    BY <2>1 DEF NextPop
  <2>2. CASE ~(d.queue = <<>> \/ Head(d.queue) = dst)
    <3>1. d \in SearchState(T, U) /\ Searched(d, U, src, pairs) /\ Waits(d) /\ NextPop(d, known, dst) = Popped(d, known)
      BY <2>2 DEF NextPop, Waits
    <3> HIDE DEF X
    <3>2. /\ Popped(d, known) \in SearchState(T, U)
          /\ Searched(Popped(d, known), U, src, pairs)
          /\ Popped(d, known).visited \ ToSet(Popped(d, known).queue) =
               (d.visited \ ToSet(d.queue)) \cup {d.queue[1]}
      <4> HIDE DEF F, Step, h, start
      <4>1. QED  BY <1>0, <3>1
    <3>3. d.queue[1] \in ToSet(d.queue)
      BY <3>1, HeadTaken
    <3> DEFINE e == Popped(d, known)
    <3> HIDE DEF e
    <3>4. e \in X
      BY <3>2 DEF X, e
    <3>5. Done(e) = Done(d) \cup {d.queue[1]} /\ d.queue[1] \notin Done(d)
      BY <3>2, <3>3 DEF Done, e
    <3>6. QED  BY <3>1, <3>4, <3>5 DEF e
  <2>3. QED  BY <2>1, <2>2
<1>4. F \in [(1 .. n) \X X -> X] /\ start \in X
      /\ \A i \in 1 .. n : \A x \in X : F[<<i, x>>] = NextPop(x, known, dst)
  <2>1. start \in X
    BY StartIs
  <2> HIDE DEF X, start
  <2>2. F \in [(1 .. n) \X X -> X]
    BY <1>3
  <2>3. QED  BY <2>1, <2>2
<1> HIDE DEF F, X, start
<1>5. PICK g \in [0 .. n -> X] : IsRun(g, start, F, n)
  BY <1>1, <1>4, RunsExist
<1>6. g = Step(g)
  <2>1. ASSUME NEW i \in 0 .. n PROVE g[i] = IF i = 0 THEN start ELSE NextPop(g[i - 1], known, dst)
    <3>1. CASE i = 0
      BY <1>5, <3>1 DEF IsRun
    <3>2. CASE i # 0
      <4>1. i \in 1 .. n /\ i - 1 \in 0 .. n
        BY <1>1, <3>2
      <4>2. g[i - 1] \in X /\ g[i] = F[<<i, g[i - 1]>>]
        BY <1>5, <4>1 DEF IsRun
      <4>3. QED  BY <1>4, <3>2, <4>1, <4>2
    <3>3. QED  BY <3>1, <3>2
  <2> DEFINE s == Step(g)
  <2>2. \A i \in 0 .. n : s[i] = g[i]
    BY <2>1
  <2>3. s = [i \in 0 .. n |-> s[i]] /\ g = [i \in 0 .. n |-> g[i]]
    OBVIOUS
  <2> HIDE DEF s
  <2>4. QED  BY <2>2, <2>3 DEF s
<1>7. h = Step(h)
  <2> HIDE DEF Step
  <2>1. QED  BY <1>6
<1> HIDE DEF h
<1>8. h[0] = start /\ \A i \in 1 .. n : h[i] = NextPop(h[i - 1], known, dst)
  <2>1. h[0] = start
    BY <1>1, <1>7
  <2>2. ASSUME NEW i \in 1 .. n PROVE h[i] = NextPop(h[i - 1], known, dst)
    <3>1. i \in 0 .. n /\ i # 0
      BY <1>1
    <3>2. QED  BY <1>7, <3>1
  <2>3. QED  BY <2>1, <2>2
<1> HIDE DEF Step
<1> DEFINE Stops(d) == d.queue = <<>> \/ Head(d.queue) = dst
           Good(d, i) == d \in X /\ (Stops(d) \/ Cardinality(Done(d)) >= i)
           S == {m \in Nat : \A i \in 0 .. n : i = m => Good(h[i], i)}
<1>9. ASSUME NEW d \in X
      PROVE  IsFiniteSet(Done(d)) /\ Cardinality(Done(d)) \in Nat /\ Done(d) \subseteq T /\ d.visited \subseteq T
  <2>1. d.visited \subseteq T
    BY StateIs DEF X
  <2>2. Done(d) \in SUBSET T
    BY <2>1 DEF Done
  <2> DEFINE D == Done(d)
  <2> HIDE DEF D
  <2>3. D \in SUBSET T
    BY <2>2 DEF D
  <2>4. IsFiniteSet(D) /\ Cardinality(D) \in Nat
    BY <2>3, FS_Subset, FS_CardinalityType
  <2>5. QED  BY <2>1, <2>2, <2>4 DEF D
<1>10. 0 \in S
  <2>1. Cardinality(Done(start)) >= 0
    BY <1>4, <1>9
  <2>2. QED  BY <1>4, <1>8, <2>1
<1>11. ASSUME NEW m \in S PROVE m + 1 \in S
  <2> SUFFICES ASSUME NEW i \in 0 .. n, i = m + 1 PROVE Good(h[i], i)
    OBVIOUS
  <2>1. i \in 1 .. n /\ i - 1 = m /\ i - 1 \in 0 .. n
    BY <1>1
  <2> DEFINE d == h[i - 1]
             e == h[i]
  <2>2. d \in X /\ (Stops(d) \/ Cardinality(Done(d)) >= i - 1)
    BY <2>1
  <2>3. e = NextPop(d, known, dst)
    BY <1>8, <2>1
  <2> HIDE DEF d, e, S
  <2>4. e \in X
    BY <1>3, <2>2, <2>3
  <2>5. CASE Stops(d)
    <3>1. e = d
      BY <2>3, <2>5 DEF NextPop
    <3>2. QED  BY <2>4, <2>5, <3>1 DEF e
  <2>6. CASE ~Stops(d)
    <3>1. Done(e) = Done(d) \cup {d.queue[1]} /\ d.queue[1] \notin Done(d)
      BY <1>3, <2>2, <2>3, <2>6
    <3>2. Cardinality(Done(e)) = Cardinality(Done(d)) + 1
      <4> DEFINE D == Done(d)
                 t == d.queue[1]
      <4> HIDE DEF D, t
      <4>1. IsFiniteSet(D) /\ t \notin D /\ Done(e) = D \cup {t}
        BY <1>9, <2>2, <3>1 DEF D, t
      <4>2. Cardinality(D \cup {t}) = Cardinality(D) + 1
        BY <4>1, FS_AddElement
      <4>3. QED  BY <4>1, <4>2 DEF D
    <3>3. Cardinality(Done(d)) >= i - 1 /\ Cardinality(Done(d)) \in Nat
      BY <1>9, <2>2, <2>6
    <3> DEFINE x == Cardinality(Done(d))
               y == Cardinality(Done(e))
    <3> HIDE DEF x, y
    <3>4. y = x + 1 /\ x >= i - 1 /\ x \in Nat
      BY <3>2, <3>3 DEF x, y
    <3>5. y >= i
      BY <2>1, <3>4
    <3>6. QED  BY <2>4, <3>5 DEF y, e
  <2>7. QED  BY <2>5, <2>6
<1>12. Good(h[n], n)
  <2>1. S \in SUBSET Nat
    OBVIOUS
  <2> HIDE DEF S
  <2>2. n \in S
    BY <1>1, <1>10, <1>11, <2>1, Induct
  <2> HIDE DEF Good
  <2>3. n \in 0 .. n
    BY <1>1
  <2>4. QED  BY <2>2, <2>3 DEF S
<1> DEFINE e == h[n]
<1>13. e \in X /\ (Stops(e) \/ Cardinality(Done(e)) >= n)
  BY <1>12
<1> HIDE DEF e
<1>14. e \in SearchState(T, U) /\ Searched(e, U, src, pairs)
  BY <1>13 DEF X
<1>15. ToSet(e.queue) \subseteq e.visited /\ (e.queue # <<>> => e.queue[1] \in ToSet(e.queue) /\ Head(e.queue) = e.queue[1])
  <2>1. ToSet(e.queue) \subseteq e.visited
    BY <1>14, StateIs
  <2>2. ASSUME e.queue # <<>> PROVE e.queue[1] \in ToSet(e.queue) /\ Head(e.queue) = e.queue[1]
    <3>1. Waits(e)
      BY <2>2 DEF Waits
    <3>2. QED  BY <1>14, <3>1, HeadTaken
  <2>3. QED  BY <2>1, <2>2
<1>16. e.queue = <<>> \/ dst \in e.visited
  <2>1. CASE Stops(e)
    BY <1>15, <2>1
  <2>2. CASE ~Stops(e)
    <3>1. Cardinality(Done(e)) >= n /\ Done(e) \subseteq T /\ IsFiniteSet(Done(e)) /\ Cardinality(Done(e)) \in Nat
      BY <1>9, <1>13, <2>2
    <3>2. Done(e) = T
      <4> DEFINE D == Done(e)
      <4> HIDE DEF D
      <4>1. D \in SUBSET T /\ Cardinality(D) >= Cardinality(T) /\ Cardinality(D) \in Nat
        BY <3>1 DEF D, n
      <4>2. Cardinality(D) <= Cardinality(T) /\ (Cardinality(D) = Cardinality(T) => D = T) /\ Cardinality(T) \in Nat
        BY <4>1, FS_Subset, FS_CardinalityType
      <4>3. D = T
        BY <4>1, <4>2
      <4>4. QED  BY <4>3 DEF D
    <3>3. e.queue[1] \in e.visited /\ e.visited \subseteq T
      BY <1>9, <1>13, <1>15, <2>2
    <3>4. e.queue[1] \notin Done(e)
      BY <1>15, <2>2 DEF Done
    <3>5. QED  BY <3>2, <3>3, <3>4
  <2>3. QED  BY <2>1, <2>2
<1>17. SearchEnd(src, dst, known, Cardinality(T)) = e
  BY <1>2 DEF e, n
<1>18. QED  BY <1>14, <1>16, <1>17

\* get_join_path: the path is a shortest chain of relations that may be used, and
\* there is none only if the tables are not connected: the breadth-first search
\* takes the nearer table first, and takes each once.
THEOREM PathsCorrect ==
  ASSUME NEW R, NEW rels \in Seq(R), NEW allowed, IsFiniteSet(allowed), NEW src, NEW dst
  PROVE  PathIsShortest(rels, allowed, src, dst)
<1> DEFINE known == Relations(rels, allowed, "")
           used == ToSet(known)
           pairs == {<<r.from, r.to>> : r \in used} \cup {<<r.to, r.from>> : r \in used}
           near(n) == Ball(src, pairs, n)
           c == Cardinality(allowed)
           end == SearchEnd(src, dst, known, c)
           ok == {src, dst} \subseteq allowed /\ dst \in end.visited
           p == JoinPath(rels, allowed, src, dst)
           n == Len(p.path)
           at == CHOOSE g : g = [i \in 0 .. n |-> IF i = 0 THEN src ELSE Other(p.path[i], g[i - 1])]
<1>1. c \in Nat
  BY FS_CardinalityType
<1>2. known \in Seq(used) /\ \A r \in used : r.from \in allowed /\ r.to \in allowed
  <2> DEFINE I == {i \in DOMAIN rels : /\ rels[i].on /\ rels[i].from \in allowed /\ rels[i].to \in allowed
                                       /\ "" = "" \/ "" \in {rels[i].from, rels[i].to}}
  <2>1. known = Kept(rels, I)
    BY DEF Relations, Where
  <2>2. I \in SUBSET DOMAIN rels
    OBVIOUS
  <2> HIDE DEF known
  <2>3. \A i \in I : rels[i].from \in allowed /\ rels[i].to \in allowed
    OBVIOUS
  <2> HIDE DEF I
  <2>4. known \in Seq(R) /\ ToSet(known) = {rels[i] : i \in I}
    BY <2>1, <2>2, KeptOf
  <2>5. known \in Seq(used)
    <3>1. Len(known) \in Nat /\ DOMAIN known = 1 .. Len(known)
      BY <2>4
    <3>2. \A i \in 1 .. Len(known) : known[i] \in used
      BY <3>1 DEF ToSet
    <3> HIDE DEF used
    <3>3. QED  BY <2>4, <3>1, <3>2
  <2>6. QED  BY <2>3, <2>4, <2>5
<1>3. p = IF ok THEN [ok |-> TRUE, path |-> end.path[dst]] ELSE [ok |-> FALSE, path |-> <<>>]
  BY DEF JoinPath, SearchEnd, NextPop, Popped, Started
<1>4. LinkedBy(pairs, used)
  BY BothWays
<1> HIDE DEF known, used, pairs, c, end, p
<1>5. ASSUME src \in allowed
      PROVE  /\ end \in SearchState(allowed, used) /\ Searched(end, used, src, pairs)
             /\ end.queue = <<>> \/ dst \in end.visited
  <2>1. LET e == SearchEnd(src, dst, known, Cardinality(allowed))
        IN e \in SearchState(allowed, used) /\ Searched(e, used, src, pairs)
           /\ (e.queue = <<>> \/ dst \in e.visited)
    <3>1. Enlists(known, used)
      BY <1>2 DEF used, Enlists
    <3>2. QED  BY <1>2, <1>4, <1>5, <3>1, SearchEnds
  <2>2. QED  BY <2>1 DEF end, c
<1>6. CASE ~ok
  <2>1. ~p.ok
    BY <1>3, <1>6
  <2>2. ASSUME {src, dst} \subseteq allowed PROVE dst \notin near(c)
    <3>1. end \in SearchState(allowed, used) /\ Searched(end, used, src, pairs) /\ end.queue = <<>> /\ dst \notin end.visited
      BY <1>5, <1>6, <2>2
    <3>2. ToSet(end.queue) = {}
      BY <3>1 DEF ToSet
    <3>3. src \in end.visited
      BY <3>1 DEF Searched, Shortest
    <3>4. Further(pairs, end.visited) \subseteq end.visited
      <4>1. \A x \in end.visited, r \in used : x \in {r.from, r.to} => Other(r, x) \in end.visited
        BY <3>1, <3>2 DEF Searched
      <4>2. QED  BY <1>4, <4>1 DEF LinkedBy
    <3>5. near(c) \subseteq end.visited
      BY <1>1, <3>3, <3>4, BallGrows
    <3>6. QED  BY <3>1, <3>5
  <2>3. QED  BY <2>1, <2>2 DEF PathIsShortest, p, c, known, used, pairs
<1>7. CASE ok
  <2>1. p.ok /\ p.path = end.path[dst]
    BY <1>3, <1>7
  <2>2. end \in SearchState(allowed, used) /\ Searched(end, used, src, pairs) /\ dst \in end.visited
    BY <1>5, <1>7
  <2>3. p.path \in Seq(used) /\ Leads(p.path, src, dst) /\ n = Far(end, dst)
        /\ \A m \in Nat : dst \in near(m) => n <= m
    <3>1. end.path[dst] \in Seq(used)
      BY <2>2, StateIs
    <3>2. Leads(end.path[dst], src, dst) /\ \A m \in Nat : dst \in near(m) => Far(end, dst) <= m
      BY <2>2 DEF Searched, Shortest
    <3>3. n = Far(end, dst)
      BY <2>1 DEF Far
    <3>4. QED  BY <2>1, <3>1, <3>2, <3>3
  <2>4. n \in Nat /\ DOMAIN p.path = 1 .. n
    BY <2>3
  <2>5. ToSet(p.path) \subseteq used
    BY <2>3 DEF ToSet
  <2>6. n > 0 => dst \notin near(n - 1)
    <3>1. ASSUME n > 0, dst \in near(n - 1) PROVE FALSE
      <4>1. n - 1 \in Nat
        BY <2>4, <3>1
      <4>2. n <= n - 1
        BY <2>3, <3>1, <4>1
      <4>3. QED  BY <2>4, <4>2
    <3>2. QED  BY <3>1
  <2>7. PICK g : LeadsOver(g, p.path, src, dst)
    BY <2>3 DEF Leads
  <2> HIDE DEF n, near
  <2>8. /\ DOMAIN g = 0 .. n /\ g[0] = src /\ g[n] = dst
        /\ \A i \in 1 .. n : g[i - 1] \in {p.path[i].from, p.path[i].to} /\ g[i] = Other(p.path[i], g[i - 1])
    BY <2>7 DEF LeadsOver, n
  <2> DEFINE Step(f) == [i \in 0 .. n |-> IF i = 0 THEN src ELSE Other(p.path[i], f[i - 1])]
  <2>9. \E f : f = Step(f)
    <3> DEFINE f == [i \in 0 .. n |-> g[i]]
    <3>1. ASSUME NEW i \in 0 .. n PROVE f[i] = IF i = 0 THEN src ELSE Other(p.path[i], f[i - 1])
      <4>1. CASE i = 0
        BY <2>8, <4>1
      <4>2. CASE i # 0
        <5>1. i \in 1 .. n /\ i - 1 \in 0 .. n
          BY <2>4, <4>2
        <5>2. f[i] = g[i] /\ f[i - 1] = g[i - 1]
          BY <5>1
        <5> HIDE DEF f
        <5>3. QED  BY <2>8, <4>2, <5>1, <5>2
      <4>3. QED  BY <4>1, <4>2
    <3>2. f = [i \in 0 .. n |-> f[i]]
      OBVIOUS
    <3> HIDE DEF f
    <3> DEFINE s == Step(f)
    <3>3. \A i \in 0 .. n : s[i] = f[i]
      BY <3>1
    <3>4. s = [i \in 0 .. n |-> s[i]]
      OBVIOUS
    <3> HIDE DEF s
    <3>5. f = s
      BY <3>2, <3>3, <3>4
    <3>6. QED  BY <3>5 DEF s
  <2>10. at = Step(at)
    <3>1. at = CHOOSE f : f = Step(f)
      OBVIOUS
    <3> HIDE DEF Step, at
    <3>2. QED  BY <2>9, <3>1
  <2> HIDE DEF at
  <2>11. at[0] = src /\ \A i \in 1 .. n : at[i] = Other(p.path[i], at[i - 1])
    <3>1. at[0] = src
      BY <2>4, <2>10
    <3>2. ASSUME NEW i \in 1 .. n PROVE at[i] = Other(p.path[i], at[i - 1])
      <4>1. i \in 0 .. n /\ i # 0
        BY <2>4
      <4>2. QED  BY <2>10, <4>1
    <3>3. QED  BY <3>1, <3>2
  <2> HIDE DEF Step
  <2>12. \A i \in 0 .. n : at[i] = g[i]
    <3> DEFINE S == {m \in Nat : \A i \in 0 .. n : i = m => at[i] = g[i]}
    <3>1. 0 \in S
      BY <2>8, <2>11
    <3>2. ASSUME NEW m \in S PROVE m + 1 \in S
      <4> SUFFICES ASSUME NEW i \in 0 .. n, i = m + 1 PROVE at[i] = g[i]
        OBVIOUS
      <4>1. i \in 1 .. n /\ i - 1 = m /\ i - 1 \in 0 .. n
        BY <2>4
      <4>2. at[i - 1] = g[i - 1]
        BY <4>1
      <4>3. QED  BY <2>8, <2>11, <4>1, <4>2
    <3>3. S \in SUBSET Nat
      OBVIOUS
    <3> HIDE DEF S
    <3>4. \A m \in Nat : m \in S
      BY <3>1, <3>2, <3>3, Induct
    <3>5. QED  BY <2>4, <3>4 DEF S
  <2>13. at[n] = dst /\ \A i \in 1 .. n : at[i - 1] \in {p.path[i].from, p.path[i].to}
    <3>1. n \in 0 .. n /\ \A i \in 1 .. n : i - 1 \in 0 .. n
      BY <2>4
    <3>2. QED  BY <2>8, <2>12, <3>1
  <2>14. QED  BY <2>1, <2>5, <2>6, <2>13 DEF PathIsShortest, at, n, near, p, known, used, pairs
<1>8. QED  BY <1>6, <1>7

-----------------------------------------------------------------------------
(* The trace of the calls                                                    *)

\* The places of the calls made by some symbols, and the calls of a list of them.
CallsBy(edges, S) == {j \in DOMAIN edges : edges[j].from \in S}
CallsOf(edges, f) == FlattenSeq([i \in DOMAIN f |-> Where(edges, LAMBDA e : e.from = f[i])])

\* Two sets of symbols make the calls of both.
LEMMA CallsAddUp ==
  ASSUME NEW E, NEW edges \in Seq(E), NEW A, NEW B, A \cap B = {}
  PROVE  /\ IsFiniteSet(CallsBy(edges, A)) /\ Cardinality(CallsBy(edges, A)) \in Nat
         /\ Cardinality(CallsBy(edges, A \cup B)) =
              Cardinality(CallsBy(edges, A)) + Cardinality(CallsBy(edges, B))
<1> DEFINE X == CallsBy(edges, A)
           Y == CallsBy(edges, B)
<1>1. X \in SUBSET DOMAIN edges /\ Y \in SUBSET DOMAIN edges /\ X \cap Y = {}
      /\ CallsBy(edges, A \cup B) = X \cup Y
  BY DEF CallsBy
<1>2. IsFiniteSet(DOMAIN edges)
  BY PlacesOf
<1> HIDE DEF X, Y
<1>3. IsFiniteSet(X) /\ IsFiniteSet(Y)
  BY <1>1, <1>2, FS_Subset
<1>4. Cardinality(X) \in Nat /\ Cardinality(Y) \in Nat
  BY <1>3, FS_CardinalityType
<1>5. Cardinality(X \cup Y) = Cardinality(X) + Cardinality(Y) - Cardinality(X \cap Y)
  BY <1>3, FS_Union
<1>6. Cardinality(X \cap Y) = 0
  <2>1. Cardinality({}) = 0
    BY FS_EmptySet
  <2>2. QED  BY <1>1, <2>1
<1>7. Cardinality(X \cup Y) = Cardinality(X) + Cardinality(Y)
  BY <1>4, <1>5, <1>6
<1>8. QED  BY <1>1, <1>3, <1>4, <1>7 DEF X, Y

\* The calls of one symbol.
LEMMA CallsOfOne ==
  ASSUME NEW E, NEW edges \in Seq(E), NEW x
  PROVE  LET s == Where(edges, LAMBDA e : e.from = x)
         IN /\ s \in Seq(E) /\ Len(s) = Cardinality(CallsBy(edges, {x}))
            /\ ToSet(s) = {edges[j] : j \in CallsBy(edges, {x})}
<1> DEFINE I == CallsBy(edges, {x})
<1>1. I \in SUBSET DOMAIN edges
  BY DEF CallsBy
<1>2. Where(edges, LAMBDA e : e.from = x) = Kept(edges, I)
  <2>1. I = {j \in DOMAIN edges : edges[j].from = x}
    BY DEF CallsBy
  <2> HIDE DEF I
  <2>2. QED  BY <2>1 DEF Where
<1> HIDE DEF I
<1>3. Kept(edges, I) \in Seq(E) /\ Len(Kept(edges, I)) = Cardinality(I) /\ ToSet(Kept(edges, I)) = {edges[j] : j \in I}
  BY <1>1, KeptOf
<1>4. QED  BY <1>2, <1>3 DEF I

\* The calls of a list of symbols, none of which is there twice, are all the
\* calls they make, each once.
LEMMA CallsAre ==
  ASSUME NEW E, NEW edges \in Seq(E), NEW N, NEW f \in Seq(N), IsInjective(f)
  PROVE  /\ CallsOf(edges, f) \in Seq(E)
         /\ Len(CallsOf(edges, f)) = Cardinality(CallsBy(edges, ToSet(f)))
         /\ ToSet(CallsOf(edges, f)) = {edges[j] : j \in CallsBy(edges, ToSet(f))}
<1> DEFINE n == Len(f)
           ss == [i \in 1 .. n |-> Where(edges, LAMBDA e : e.from = f[i])]
           all == CallsOf(edges, f)
           upto(i) == {f[k] : k \in 1 .. i}
<1>1. n \in Nat /\ DOMAIN f = 1 .. n
  BY PlacesOf
<1>2. all = FlattenSeq(ss)
  BY <1>1 DEF CallsOf
<1> HIDE DEF n
<1>3. \A i \in 1 .. n : /\ ss[i] \in Seq(E) /\ Len(ss[i]) = Cardinality(CallsBy(edges, {f[i]}))
                        /\ ToSet(ss[i]) = {edges[j] : j \in CallsBy(edges, {f[i]})}
  <2> SUFFICES ASSUME NEW i \in 1 .. n
               PROVE  /\ ss[i] \in Seq(E) /\ Len(ss[i]) = Cardinality(CallsBy(edges, {f[i]}))
                      /\ ToSet(ss[i]) = {edges[j] : j \in CallsBy(edges, {f[i]})}
    OBVIOUS
  <2> DEFINE x == f[i]
             s == Where(edges, LAMBDA e : e.from = x)
  <2>1. ss[i] = s
    OBVIOUS
  <2> HIDE DEF x
  <2>2. s \in Seq(E) /\ Len(s) = Cardinality(CallsBy(edges, {x})) /\ ToSet(s) = {edges[j] : j \in CallsBy(edges, {x})}
    BY CallsOfOne
  <2> HIDE DEF s, ss
  <2>3. QED  BY <2>1, <2>2 DEF x
<1>4. DOMAIN ss = 1 .. n
  OBVIOUS
<1> HIDE DEF ss, all
<1>5. ss \in Seq(Seq(E)) /\ Len(ss) = n
  <2> DEFINE X == Seq(E)
  <2>0. ss = [i \in 1 .. n |-> ss[i]]
    BY DEF ss
  <2>1. \A i \in 1 .. n : ss[i] \in X
    BY <1>3
  <2> HIDE DEF X
  <2>2. ss \in [1 .. n -> X]
    BY <2>0, <2>1
  <2>3. ss \in Seq(X) /\ Len(ss) = n
    BY <1>1, <2>2, ListOf
  <2>4. QED  BY <2>3 DEF X
<1>6. all \in Seq(E) /\ \E c : Cuts(c, ss, all)
  BY <1>2, <1>5, FlattenOf
<1>7. PICK c : Cuts(c, ss, all)
  BY <1>6
<1>8. /\ c \in [0 .. n -> Nat] /\ c[0] = 0 /\ c[n] = Len(all)
      /\ \A i \in 1 .. n : c[i] = c[i - 1] + Len(ss[i])
      /\ \A i \in 1 .. n : \A k \in 1 .. Len(ss[i]) : all[c[i - 1] + k] = ss[i][k]
  BY <1>5, <1>7 DEF Cuts
<1>9. /\ \A i, j \in 0 .. n : i <= j => c[i] <= c[j]
      /\ \A m \in DOMAIN all : \E i \in 1 .. n :
            /\ c[i - 1] < m /\ m <= c[i]
            /\ m - c[i - 1] \in DOMAIN ss[i] /\ all[m] = ss[i][m - c[i - 1]]
  <2> HIDE DEF upto
  <2>1. all \in Seq(E) /\ ss \in Seq(Seq(E))
    BY <1>5, <1>6
  <2>2. /\ \A i, j \in 0 .. Len(ss) : i <= j => c[i] <= c[j]
        /\ \A m \in DOMAIN all : \E i \in 1 .. Len(ss) :
              /\ c[i - 1] < m /\ m <= c[i]
              /\ m - c[i - 1] \in DOMAIN ss[i] /\ all[m] = ss[i][m - c[i - 1]]
    BY <1>7, <2>1, CutsCover
  <2>3. QED  BY <1>5, <2>2
<1>10. ToSet(f) = upto(n)
  BY <1>1 DEF ToSet
<1>11. Len(all) = Cardinality(CallsBy(edges, upto(n)))
  <2> DEFINE S == {m \in Nat : \A i \in 0 .. n : i = m => c[i] = Cardinality(CallsBy(edges, upto(i)))}
  <2>1. 0 \in S
    <3>1. CallsBy(edges, upto(0)) = {}
      BY DEF CallsBy
    <3>2. Cardinality({}) = 0
      BY FS_EmptySet
    <3> HIDE DEF upto
    <3>3. QED  BY <1>8, <3>1, <3>2
  <2>2. ASSUME NEW m \in S PROVE m + 1 \in S
    <3> SUFFICES ASSUME NEW i \in 0 .. n, i = m + 1 PROVE c[i] = Cardinality(CallsBy(edges, upto(i)))
      OBVIOUS
    <3>1. i \in 1 .. n /\ i - 1 = m /\ i - 1 \in 0 .. n
      BY <1>1
    <3>2. c[i - 1] = Cardinality(CallsBy(edges, upto(i - 1)))
      BY <3>1
    <3>3. upto(i) = upto(i - 1) \cup {f[i]} /\ upto(i - 1) \cap {f[i]} = {}
      <4>1. \A k \in 1 .. i : k \in 1 .. i - 1 \/ k = i
        BY <3>1
      <4>2. \A k \in 1 .. i - 1 : k \in 1 .. i /\ k # i /\ k \in DOMAIN f /\ i \in DOMAIN f
        BY <1>1, <3>1
      <4>3. i \in 1 .. i
        BY <3>1
      <4>4. upto(i) = upto(i - 1) \cup {f[i]}
        BY <4>1, <4>2, <4>3
      <4>5. \A k \in 1 .. i - 1 : f[k] # f[i]
        BY <4>2 DEF IsInjective
      <4>6. QED  BY <4>4, <4>5
    <3> DEFINE A == upto(i - 1)
               B == {f[i]}
    <3>4. upto(i) = A \cup B /\ A \cap B = {}
      BY <3>3
    <3> HIDE DEF A, B, upto
    <3>5. Cardinality(CallsBy(edges, A \cup B)) =
              Cardinality(CallsBy(edges, A)) + Cardinality(CallsBy(edges, B))
      BY <3>4, CallsAddUp
    <3>6. c[i] = c[i - 1] + Len(ss[i]) /\ Len(ss[i]) = Cardinality(CallsBy(edges, B))
      BY <1>3, <1>8, <3>1 DEF B
    <3>7. QED  BY <3>2, <3>4, <3>5, <3>6 DEF A
  <2>3. S \in SUBSET Nat
    OBVIOUS
  <2> HIDE DEF S
  <2>4. n \in S
    BY <1>1, <2>1, <2>2, <2>3, Induct
  <2>5. n \in 0 .. n
    BY <1>1
  <2> HIDE DEF upto
  <2>6. QED  BY <1>8, <2>4, <2>5 DEF S
<1>12. ASSUME NEW y \in ToSet(all) PROVE \E j \in CallsBy(edges, upto(n)) : edges[j] = y
  <2>1. PICK m \in DOMAIN all : all[m] = y
    BY DEF ToSet
  <2>2. PICK i \in 1 .. n : m - c[i - 1] \in DOMAIN ss[i] /\ all[m] = ss[i][m - c[i - 1]]
    BY <1>9
  <2>3. y \in ToSet(ss[i])
    BY <2>1, <2>2 DEF ToSet
  <2>4. PICK j \in CallsBy(edges, {f[i]}) : edges[j] = y
    BY <1>3, <2>3
  <2>5. j \in CallsBy(edges, upto(n))
    BY <2>4 DEF CallsBy
  <2>6. QED  BY <2>4, <2>5
<1>13. ASSUME NEW j \in CallsBy(edges, upto(n)) PROVE edges[j] \in ToSet(all)
  <2>1. PICK i \in 1 .. n : edges[j].from = f[i]
    BY DEF CallsBy
  <2>2. j \in CallsBy(edges, {f[i]})
    BY <2>1 DEF CallsBy
  <2>3. edges[j] \in ToSet(ss[i])
    BY <1>3, <2>2
  <2>4. PICK k \in DOMAIN ss[i] : ss[i][k] = edges[j]
    BY <2>3 DEF ToSet
  <2> DEFINE s == ss[i]
  <2>5. s \in Seq(E)
    BY <1>3
  <2>6. DOMAIN s = 1 .. Len(s) /\ Len(s) \in Nat
    BY <2>5, PlacesOf
  <2>7. all[c[i - 1] + k] = edges[j] /\ k \in 1 .. Len(s)
    BY <1>8, <2>4, <2>6
  <2>8. i - 1 \in 0 .. n /\ i \in 0 .. n /\ n \in 0 .. n /\ i <= n
    BY <1>1
  <2>9. c[i] = c[i - 1] + Len(s) /\ c[i] <= c[n] /\ c[n] = Len(all) /\ c[i - 1] \in Nat
    BY <1>8, <1>9, <2>8
  <2>10. Len(all) \in Nat /\ DOMAIN all = 1 .. Len(all)
    BY <1>6, PlacesOf
  <2> HIDE DEF s
  <2> DEFINE m == c[i - 1] + k
             l == Len(s)
             a == c[i - 1]
             b == Len(all)
  <2>11. m \in 1 .. b
    <3>1. k \in 1 .. l /\ a + l <= b /\ a \in Nat /\ b \in Nat /\ m = a + k /\ l \in Nat
      BY <2>6, <2>7, <2>9, <2>10
    <3> HIDE DEF m, l, a, b
    <3>2. QED  BY <3>1
  <2>12. m \in DOMAIN all /\ all[m] = edges[j]
    BY <2>7, <2>10, <2>11
  <2> HIDE DEF m
  <2>13. QED  BY <2>12 DEF ToSet
<1>14. ToSet(all) = {edges[j] : j \in CallsBy(edges, upto(n))}
  <2> HIDE DEF upto
  <2>1. QED  BY <1>12, <1>13
<1>15. QED  BY <1>6, <1>10, <1>11, <1>14 DEF all

\* The symbols called next: those called that are none of the visited.
CalledNext(found, visited) ==
    WithoutRepeats(Where([i \in DOMAIN found |-> found[i].to], LAMBDA x : x # 0 /\ x \notin visited))

NextTrace(t, edges) ==
    LET found == CallsOf(edges, t.frontier)
        next == CalledNext(found, t.visited)
    IN [frontier |-> next, visited |-> t.visited \cup ToSet(next), path |-> t.path \o found]

\* Of all that has been visited, what has left the frontier has been traced.
Past(t) == t.visited \ ToSet(t.frontier)
Traced(t, edges, pairs) ==
    /\ IsInjective(t.frontier) /\ ToSet(t.frontier) \subseteq t.visited
    /\ Further(pairs, Past(t)) \subseteq t.visited
    /\ ToSet(t.path) = {edges[j] : j \in CallsBy(edges, Past(t))}
    /\ Len(t.path) = Cardinality(CallsBy(edges, Past(t)))

\* The symbols called next are new, and none is there twice.
LEMMA CalledNextIs ==
  ASSUME NEW E, NEW N, \A e \in E : e.to \in N, NEW found \in Seq(E), NEW visited
  PROVE  /\ CalledNext(found, visited) \in Seq(N) /\ IsInjective(CalledNext(found, visited))
         /\ \A y : y \in ToSet(CalledNext(found, visited)) <=>
                     y # 0 /\ y \notin visited /\ \E e \in ToSet(found) : e.to = y
<1> DEFINE to == [i \in DOMAIN found |-> found[i].to]
           I == {i \in DOMAIN to : to[i] # 0 /\ to[i] \notin visited}
           s == Kept(to, I)
<1>1. Len(found) \in Nat /\ DOMAIN found = 1 .. Len(found) /\ \A i \in DOMAIN found : found[i] \in E
  BY PlacesOf
<1>2. to \in [1 .. Len(found) -> N]
  BY <1>1
<1>3. \A i \in DOMAIN found : to[i] = found[i].to
  OBVIOUS
<1>4. CalledNext(found, visited) = WithoutRepeats(s)
  BY DEF CalledNext, Where
<1>5. DOMAIN to = DOMAIN found
  OBVIOUS
<1> HIDE DEF to
<1>6. to \in Seq(N)
  BY <1>1, <1>2, ListOf
<1>7. I \in SUBSET DOMAIN to
  OBVIOUS
<1>8. s \in Seq(N) /\ ToSet(s) = {to[i] : i \in I}
  <2> HIDE DEF I
  <2>1. QED  BY <1>6, <1>7, KeptOf
<1>9. \A y : y \in ToSet(s) <=> y # 0 /\ y \notin visited /\ \E e \in ToSet(found) : e.to = y
  <2> HIDE DEF s
  <2>1. ASSUME NEW y PROVE y \in ToSet(s) <=> y # 0 /\ y \notin visited /\ \E i \in DOMAIN found : found[i].to = y
    BY <1>3, <1>5, <1>8
  <2>2. QED  BY <2>1 DEF ToSet
<1> HIDE DEF s
<1>10. WithoutRepeats(s) \in Seq(N) /\ IsInjective(WithoutRepeats(s)) /\ ToSet(WithoutRepeats(s)) = ToSet(s)
  BY <1>8, FirstsOf
<1>11. QED  BY <1>4, <1>9, <1>10

\* The calls of symbols the graph knows.
Pairs(edges) == {<<e.from, e.to>> : e \in {x \in ToSet(edges) : x.to # 0}}

\* A hop visits what is one call further, and traces what was visited before.
LEMMA HopIs ==
  ASSUME NEW E, NEW N, \A e \in E : e.to \in N, NEW edges \in Seq(E),
         NEW t \in [frontier : Seq(N), visited : SUBSET N, path : Seq(E)],
         Traced(t, edges, Pairs(edges))
  PROVE  /\ NextTrace(t, edges) \in [frontier : Seq(N), visited : SUBSET N, path : Seq(E)]
         /\ Traced(NextTrace(t, edges), edges, Pairs(edges))
         /\ NextTrace(t, edges).visited = Further(Pairs(edges), t.visited)
         /\ Past(NextTrace(t, edges)) = t.visited
<1> DEFINE found == CallsOf(edges, t.frontier)
           next == CalledNext(found, t.visited)
           u == NextTrace(t, edges)
           front == ToSet(t.frontier)
           X == Past(t)
           pairs == Pairs(edges)
<1>1. t.frontier \in Seq(N) /\ t.visited \subseteq N /\ t.path \in Seq(E)
  OBVIOUS
<1>2. /\ IsInjective(t.frontier) /\ front \subseteq t.visited /\ Further(pairs, X) \subseteq t.visited
      /\ ToSet(t.path) = {edges[j] : j \in CallsBy(edges, X)}
      /\ Len(t.path) = Cardinality(CallsBy(edges, X))
  BY DEF Traced
<1> HIDE DEF pairs
<1>3. t.visited = X \cup front /\ X \cap front = {}
  BY <1>2 DEF Past
<1>4. /\ found \in Seq(E) /\ Len(found) = Cardinality(CallsBy(edges, front))
      /\ ToSet(found) = {edges[j] : j \in CallsBy(edges, front)}
  BY <1>1, <1>2, CallsAre
<1> HIDE DEF found
<1>5. /\ next \in Seq(N) /\ IsInjective(next)
      /\ \A y : y \in ToSet(next) <=> y # 0 /\ y \notin t.visited /\ \E e \in ToSet(found) : e.to = y
  BY <1>4, CalledNextIs
<1>6. u.frontier = next /\ u.visited = t.visited \cup ToSet(next) /\ u.path = t.path \o found
      /\ u = [frontier |-> next, visited |-> t.visited \cup ToSet(next), path |-> t.path \o found]
  BY DEF NextTrace, found
<1> HIDE DEF next, u, front, X
<1>7. ToSet(next) \subseteq N
  <2>1. DOMAIN next = 1 .. Len(next) /\ \A i \in DOMAIN next : next[i] \in N
    BY <1>5, PlacesOf
  <2>2. QED  BY <2>1 DEF ToSet
<1>8. \A S, y : y \in Further(pairs, S) <=>
           y \in S \/ \E j \in DOMAIN edges : edges[j].from \in S /\ edges[j].to = y /\ y # 0
  <2> SUFFICES ASSUME NEW S, NEW y
               PROVE  y \in Further(pairs, S) <=>
                        y \in S \/ \E j \in DOMAIN edges : edges[j].from \in S /\ edges[j].to = y /\ y # 0
    OBVIOUS
  <2>1. ASSUME NEW j \in DOMAIN edges, edges[j].from \in S, edges[j].to = y, y # 0
        PROVE  y \in Further(pairs, S)
    <3> DEFINE e == edges[j]
    <3>1. e \in ToSet(edges)
      BY DEF ToSet
    <3>2. <<e.from, e.to>> \in pairs
      BY <2>1, <3>1 DEF pairs, Pairs
    <3>3. <<e.from, e.to>>[1] = e.from /\ <<e.from, e.to>>[2] = e.to
      OBVIOUS
    <3> DEFINE p == <<e.from, e.to>>
    <3>4. p \in pairs /\ p[1] \in S /\ p[2] = y
      BY <2>1, <3>2, <3>3
    <3> HIDE DEF p
    <3>5. QED  BY <3>4 DEF Further
  <2>2. ASSUME NEW p \in pairs, p[1] \in S, y = p[2]
        PROVE  \E j \in DOMAIN edges : edges[j].from \in S /\ edges[j].to = y /\ y # 0
    <3>1. PICK e \in ToSet(edges) : e.to # 0 /\ p = <<e.from, e.to>>
      BY DEF pairs, Pairs
    <3>2. PICK j \in DOMAIN edges : edges[j] = e
      BY DEF ToSet
    <3>3. p[1] = e.from /\ p[2] = e.to
      BY <3>1
    <3>4. QED  BY <2>2, <3>1, <3>2, <3>3
  <2>3. y \in Further(pairs, S) => y \in S \/ \E p \in pairs : p[1] \in S /\ y = p[2]
    BY DEF Further
  <2>4. y \in S => y \in Further(pairs, S)
    BY DEF Further
  <2>5. QED  BY <2>1, <2>2, <2>3, <2>4
<1>9. u.visited = Further(pairs, t.visited)
  <2>1. ASSUME NEW y \in ToSet(next) PROVE y \in Further(pairs, t.visited)
    <3>1. y # 0 /\ \E j \in CallsBy(edges, front) : edges[j].to = y
      BY <1>4, <1>5
    <3>2. \E j \in DOMAIN edges : edges[j].from \in t.visited /\ edges[j].to = y /\ y # 0
      BY <1>2, <3>1 DEF CallsBy
    <3>3. QED  BY <1>8, <3>2
  <2>2. ASSUME NEW y \in Further(pairs, t.visited) PROVE y \in t.visited \/ y \in ToSet(next)
    <3>1. CASE y \in t.visited
      BY <3>1
    <3>2. CASE y \notin t.visited
      <4>1. PICK j \in DOMAIN edges : edges[j].from \in t.visited /\ edges[j].to = y /\ y # 0
        BY <1>8, <3>2
      <4>2. CASE edges[j].from \in X
        <5>1. y \in Further(pairs, X)
          BY <1>8, <4>1, <4>2
        <5>2. QED  BY <1>2, <5>1
      <4>3. CASE edges[j].from \in front
        <5>1. j \in CallsBy(edges, front)
          BY <4>3 DEF CallsBy
        <5>2. edges[j] \in ToSet(found)
          BY <1>4, <5>1
        <5>3. QED  BY <1>5, <3>2, <4>1, <5>2
      <4>4. QED  BY <1>3, <4>1, <4>2, <4>3
    <3>3. QED  BY <3>1, <3>2
  <2>3. \A y \in t.visited : y \in Further(pairs, t.visited)
    BY <1>8
  <2>4. QED  BY <1>6, <2>1, <2>2, <2>3
<1>10. Past(u) = t.visited
  BY <1>5, <1>6 DEF Past
<1>11. /\ u.path \in Seq(E)
       /\ ToSet(u.path) = {edges[j] : j \in CallsBy(edges, t.visited)}
       /\ Len(u.path) = Cardinality(CallsBy(edges, t.visited))
  <2> DEFINE p == t.path
  <2>0. p \in Seq(E)
    BY <1>1
  <2> HIDE DEF p
  <2>1. /\ p \o found \in Seq(E) /\ Len(p \o found) = Len(p) + Len(found)
        /\ ToSet(p \o found) = ToSet(p) \cup ToSet(found)
    BY <1>4, <2>0, JoinedLists, ZenonT(60)
  <2>2. Cardinality(CallsBy(edges, X \cup front)) = Cardinality(CallsBy(edges, X)) + Cardinality(CallsBy(edges, front))
    BY <1>3, CallsAddUp
  <2>3. CallsBy(edges, t.visited) = CallsBy(edges, X) \cup CallsBy(edges, front)
    BY <1>3 DEF CallsBy
  <2>4. ToSet(u.path) = {edges[j] : j \in CallsBy(edges, t.visited)}
    <3>1. ToSet(u.path) = {edges[j] : j \in CallsBy(edges, X)} \cup {edges[j] : j \in CallsBy(edges, front)}
      BY <1>2, <1>4, <1>6, <2>1 DEF p
    <3>2. QED  BY <2>3, <3>1
  <2>5. Len(u.path) = Cardinality(CallsBy(edges, t.visited))
    BY <1>2, <1>3, <1>4, <1>6, <2>1, <2>2 DEF p
  <2>6. QED  BY <1>6, <2>1, <2>4, <2>5 DEF p
<1>12. u \in [frontier : Seq(N), visited : SUBSET N, path : Seq(E)]
  <2> DEFINE V == t.visited \cup ToSet(next)
             P == t.path \o found
  <2>1. V \in SUBSET N /\ P \in Seq(E) /\ u = [frontier |-> next, visited |-> V, path |-> P]
    BY <1>1, <1>6, <1>7, <1>11
  <2> HIDE DEF V, P
  <2>2. QED  BY <1>5, <2>1
<1>13. Traced(u, edges, pairs)
  <2>1. ToSet(u.frontier) \subseteq u.visited /\ IsInjective(u.frontier)
    BY <1>5, <1>6
  <2>2. Further(pairs, Past(u)) \subseteq u.visited
    BY <1>9, <1>10
  <2>3. QED  BY <1>10, <1>11, <2>1, <2>2 DEF Traced
<1>14. QED  BY <1>9, <1>10, <1>12, <1>13 DEF u, pairs

\* trace_edges_bfs: a trace shows the calls of the symbols within its hops, each
\* once.
THEOREM TracesCorrect ==
  ASSUME NEW E, NEW edges \in Seq(E), NEW start, NEW hops \in Nat
  PROVE  TraceIsComplete(edges, start, hops)
<1> DEFINE N == {start} \cup {e.to : e \in E}
           pairs == Pairs(edges)
           X == {t \in [frontier : Seq(N), visited : SUBSET N, path : Seq(E)] : Traced(t, edges, pairs)}
           F == [q \in (1 .. hops) \X X |-> NextTrace(q[2], edges)]
           begin == [frontier |-> <<start>>, visited |-> {start}, path |-> <<>>]
           Step(g) == [n \in 0 .. hops |-> IF n = 0 THEN begin ELSE NextTrace(g[n - 1], edges)]
           h == CHOOSE g : g = Step(g)
           path == Trace(edges, start, hops)
<1>1. path = h[hops].path
  BY DEF Trace, NextTrace, CalledNext, CallsOf
<1>2. \A e \in E : e.to \in N
  OBVIOUS
<1>3. start \in N
  OBVIOUS
<1> HIDE DEF N, path
<1>4. begin \in X /\ begin.visited = {start}
  <2> DEFINE q == <<start>>
             V == {start}
             p == <<>>
  <2>1. q \in Seq(N) /\ V \in SUBSET N /\ p \in Seq(E) /\ DOMAIN q = 1 .. 1 /\ q[1] = start /\ Len(p) = 0
    BY <1>3
  <2>2. ToSet(q) = {start} /\ IsInjective(q)
    BY <2>1 DEF ToSet, IsInjective
  <2>3. DOMAIN p = {}
    OBVIOUS
  <2>4. ToSet(p) = {}
    BY <2>3 DEF ToSet
  <2> HIDE DEF q, V, p
  <2>5. begin = [frontier |-> q, visited |-> V, path |-> p]
    BY DEF q, V, p
  <2> HIDE DEF begin
  <2>6. begin.frontier = q /\ begin.visited = V /\ begin.path = p
        /\ begin \in [frontier : Seq(N), visited : SUBSET N, path : Seq(E)]
    BY <2>1, <2>5
  <2>7. Past(begin) = {}
    BY <2>2, <2>6 DEF Past, V
  <2>8. CallsBy(edges, {}) = {} /\ Further(pairs, {}) = {}
    BY DEF CallsBy, Further
  <2>9. Cardinality({}) = 0
    BY FS_EmptySet
  <2>10. Traced(begin, edges, pairs)
    BY <2>1, <2>2, <2>4, <2>6, <2>7, <2>8, <2>9 DEF Traced, V
  <2>11. QED  BY <2>6, <2>10 DEF V
<1>5. ASSUME NEW t \in X
      PROVE  /\ NextTrace(t, edges) \in X
             /\ NextTrace(t, edges).visited = Further(pairs, t.visited)
             /\ Past(NextTrace(t, edges)) = t.visited
  <2>1. t \in [frontier : Seq(N), visited : SUBSET N, path : Seq(E)] /\ Traced(t, edges, pairs)
    OBVIOUS
  <2> HIDE DEF F, Step, h, begin
  <2>2. /\ NextTrace(t, edges) \in [frontier : Seq(N), visited : SUBSET N, path : Seq(E)]
        /\ Traced(NextTrace(t, edges), edges, pairs)
        /\ NextTrace(t, edges).visited = Further(pairs, t.visited)
        /\ Past(NextTrace(t, edges)) = t.visited
    <3> HIDE DEF X
    <3>1. QED  BY <1>2, <2>1, HopIs
  <2>3. QED  BY <2>2
<1> HIDE DEF X, pairs, begin
<1>6. F \in [(1 .. hops) \X X -> X] /\ \A i \in 1 .. hops : \A x \in X : F[<<i, x>>] = NextTrace(x, edges)
  BY <1>5
<1> HIDE DEF F
<1>7. PICK g \in [0 .. hops -> X] : IsRun(g, begin, F, hops)
  BY <1>4, <1>6, RunsExist
<1>8. g = Step(g)
  <2>1. ASSUME NEW i \in 0 .. hops PROVE g[i] = IF i = 0 THEN begin ELSE NextTrace(g[i - 1], edges)
    <3>1. CASE i = 0
      BY <1>7, <3>1 DEF IsRun
    <3>2. CASE i # 0
      <4>1. i \in 1 .. hops /\ i - 1 \in 0 .. hops
        BY <3>2
      <4>2. g[i - 1] \in X /\ g[i] = F[<<i, g[i - 1]>>]
        BY <1>7, <4>1 DEF IsRun
      <4>3. QED  BY <1>6, <3>2, <4>1, <4>2
    <3>3. QED  BY <3>1, <3>2
  <2> DEFINE s == Step(g)
  <2>2. \A i \in 0 .. hops : s[i] = g[i]
    BY <2>1
  <2>3. s = [i \in 0 .. hops |-> s[i]] /\ g = [i \in 0 .. hops |-> g[i]]
    OBVIOUS
  <2> HIDE DEF s
  <2>4. QED  BY <2>2, <2>3 DEF s
<1>9. h = Step(h)
  <2> HIDE DEF Step
  <2>1. QED  BY <1>8
<1> HIDE DEF h
<1>10. h[0] = begin /\ \A i \in 1 .. hops : h[i] = NextTrace(h[i - 1], edges)
  <2>1. h[0] = begin
    BY <1>9
  <2>2. ASSUME NEW i \in 1 .. hops PROVE h[i] = NextTrace(h[i - 1], edges)
    <3>1. i \in 0 .. hops /\ i # 0
      OBVIOUS
    <3>2. QED  BY <1>9, <3>1
  <2>3. QED  BY <2>1, <2>2
<1> HIDE DEF Step
<1>11. ASSUME NEW k \in 0 .. hops PROVE h[k] \in X /\ h[k].visited = Ball(start, pairs, k)
  <2>0. Ball(start, pairs, 0) = {start} /\ \A n \in Nat : Ball(start, pairs, n + 1) = Further(pairs, Ball(start, pairs, n))
    BY BallIs
  <2> DEFINE S == {m \in Nat : \A i \in 0 .. hops : i = m => h[i] \in X /\ h[i].visited = Ball(start, pairs, i)}
  <2>1. 0 \in S
    BY <1>4, <1>10, <2>0
  <2>2. ASSUME NEW m \in S PROVE m + 1 \in S
    <3> SUFFICES ASSUME NEW i \in 0 .. hops, i = m + 1 PROVE h[i] \in X /\ h[i].visited = Ball(start, pairs, i)
      OBVIOUS
    <3>1. i \in 1 .. hops /\ i - 1 = m /\ i - 1 \in 0 .. hops /\ m \in Nat
      OBVIOUS
    <3>2. h[i - 1] \in X /\ h[i - 1].visited = Ball(start, pairs, m)
      BY <3>1
    <3>3. h[i] = NextTrace(h[i - 1], edges)
      BY <1>10, <3>1
    <3>4. Ball(start, pairs, i) = Further(pairs, Ball(start, pairs, m))
      BY <2>0, <3>1
    <3> HIDE DEF S
    <3>5. QED  BY <1>5, <3>2, <3>3, <3>4
  <2>3. S \in SUBSET Nat
    OBVIOUS
  <2> HIDE DEF S
  <2>4. \A m \in Nat : m \in S
    BY <2>1, <2>2, <2>3, Induct
  <2>5. k \in Nat
    OBVIOUS
  <2>6. QED  BY <2>4, <2>5 DEF S
<1>12. ASSUME hops > 0
       PROVE  LET within == Where(edges, LAMBDA e : e.from \in Ball(start, pairs, hops - 1))
              IN ToSet(path) = ToSet(within) /\ Len(path) = Len(within)
  <2> DEFINE B == Ball(start, pairs, hops - 1)
             I == CallsBy(edges, B)
             t == h[hops - 1]
  <2>1. hops - 1 \in 0 .. hops /\ hops \in 1 .. hops /\ hops \in 0 .. hops
    BY <1>12
  <2>2. t \in X /\ t.visited = B /\ h[hops] = NextTrace(t, edges) /\ h[hops] \in X
    BY <1>10, <1>11, <2>1
  <2> HIDE DEF t
  <2>3. Past(h[hops]) = B
    BY <1>5, <2>2
  <2>4. ToSet(path) = {edges[j] : j \in I} /\ Len(path) = Cardinality(I)
    <3>1. Traced(h[hops], edges, pairs)
      BY <2>2 DEF X
    <3>2. QED  BY <1>1, <2>3, <3>1 DEF Traced
  <2>5. Where(edges, LAMBDA e : e.from \in B) = Kept(edges, I)
    BY DEF Where, CallsBy
  <2>6. I \in SUBSET DOMAIN edges
    BY DEF CallsBy
  <2> HIDE DEF I, B
  <2>7. ToSet(Kept(edges, I)) = {edges[j] : j \in I} /\ Len(Kept(edges, I)) = Cardinality(I)
    BY <2>6, KeptOf
  <2>8. ToSet(path) = ToSet(Kept(edges, I)) /\ Len(path) = Len(Kept(edges, I))
    BY <2>4, <2>7
  <2>9. QED  BY <2>5, <2>8 DEF B
<1>13. QED  BY <1>12 DEF TraceIsComplete, path, pairs, Pairs

-----------------------------------------------------------------------------
(* Results                                                                   *)

\* The place of a column, and the last of some rows, as Cell and Matched find them.
PlaceOf(s, c) == SelectInSeq(s, LAMBDA x : x = c)
LastOf(I) == IF I # {} THEN Max(I) ELSE 0

\* The place of a column is the first one with its name.
LEMMA PlaceIs ==
  ASSUME NEW T, NEW s \in Seq(T), NEW c \in ToSet(s)
  PROVE  /\ PlaceOf(s, c) \in DOMAIN s /\ s[PlaceOf(s, c)] = c
         /\ \A i \in DOMAIN s : s[i] = c => PlaceOf(s, c) <= i
<1> DEFINE I == {i \in 1 .. Len(s) : s[i] = c}
<1>1. Len(s) \in Nat /\ DOMAIN s = 1 .. Len(s)
  BY PlacesOf
<1>2. PICK i \in DOMAIN s : s[i] = c
  BY DEF ToSet
<1>3. I \in SUBSET Nat /\ I # {} /\ i \in I
  BY <1>1, <1>2
<1>4. PlaceOf(s, c) = CHOOSE x \in I : \A y \in I : x =< y
  BY <1>3 DEF PlaceOf, SelectInSeq, Min
<1>5. PICK x \in I : \A y \in I : x <= y
  BY <1>3, LeastIs
<1>6. PlaceOf(s, c) \in I /\ \A y \in I : PlaceOf(s, c) <= y
  <2> HIDE DEF I
  <2>1. QED  BY <1>4, <1>5
<1>7. QED  BY <1>1, <1>6

\* The last of some rows is one of them, and no other comes after it.
LEMMA LastIs ==
  ASSUME NEW n \in Nat, NEW I \in SUBSET (1 .. n)
  PROVE  /\ I = {} => LastOf(I) = 0
         /\ I # {} => LastOf(I) \in I /\ LastOf(I) # 0 /\ \A j \in I : j <= LastOf(I)
<1>1. I = {} => LastOf(I) = 0
  BY DEF LastOf
<1>2. ASSUME I # {}
      PROVE  LastOf(I) \in I /\ LastOf(I) # 0 /\ \A j \in I : j <= LastOf(I)
  <2> DEFINE K == {k \in Nat : n - k \in I}
  <2>1. PICK i \in I : TRUE
    BY <1>2
  <2>2. i \in 1 .. n /\ n - i \in Nat /\ n - (n - i) = i
    BY <2>1
  <2>3. K # {} /\ K \in SUBSET Nat
    BY <2>1, <2>2
  <2>4. PICK k \in K : \A j \in K : k <= j
    BY <2>3, LeastIs
  <2>5. n - k \in I /\ k \in Nat
    OBVIOUS
  <2>6. ASSUME NEW j \in I PROVE n - k >= j
    <3>1. j \in 1 .. n /\ n - j \in Nat /\ n - (n - j) = j
      OBVIOUS
    <3>2. n - j \in K
      BY <3>1
    <3>3. k <= n - j
      BY <2>4, <3>2
    <3>4. QED  BY <2>5, <3>1, <3>3
  <2>7. \E x \in I : \A y \in I : x >= y
    BY <2>5, <2>6
  <2>8. LastOf(I) = CHOOSE x \in I : \A y \in I : x >= y
    BY <1>2 DEF LastOf, Max
  <2>9. LastOf(I) \in I /\ \A y \in I : LastOf(I) >= y
    BY <2>7, <2>8
  <2>10. QED  BY <2>9
<1>3. QED  BY <1>1, <1>2

\* A list of anything, and a table whose rows have a cell for every column.
Listed(s) == s \in Seq(ToSet(s))
Whole(t) ==
    /\ Listed(t.cols) /\ Listed(t.rows)
    /\ \A i \in DOMAIN t.rows : Listed(t.rows[i]) /\ Len(t.rows[i]) = Len(t.cols)

\* A function of the first numbers is a list.
LEMMA ListedIs ==
  ASSUME NEW n \in Nat, NEW f, DOMAIN f = 1 .. n, f = [i \in 1 .. n |-> f[i]]
  PROVE  Listed(f) /\ Len(f) = n
<1>1. f \in [1 .. n -> ToSet(f)]
  BY DEF ToSet
<1>2. f \in Seq(ToSet(f)) /\ Len(f) = n
  BY <1>1, ListOf
<1>3. QED  BY <1>2 DEF Listed

\* A list of elements of a type is a list, and the other way round.
LEMMA ListsAreListed ==
  ASSUME NEW T, NEW s \in Seq(T)
  PROVE  Listed(s) /\ Len(s) \in Nat /\ DOMAIN s = 1 .. Len(s)
<1>1. Len(s) \in Nat /\ DOMAIN s = 1 .. Len(s)
  BY PlacesOf
<1>2. s = [i \in 1 .. Len(s) |-> s[i]]
  OBVIOUS
<1> DEFINE n == Len(s)
<1>3. n \in Nat /\ DOMAIN s = 1 .. n /\ s = [i \in 1 .. n |-> s[i]]
  BY <1>1, <1>2
<1> HIDE DEF n
<1>4. Listed(s)
  BY <1>3, ListedIs
<1>5. QED  BY <1>1, <1>4

\* Two lists are one, q behind p.
Behind(p, q) ==
    /\ Listed(p \o q) /\ DOMAIN (p \o q) = 1 .. Len(p) + Len(q)
    /\ DOMAIN p = 1 .. Len(p) /\ DOMAIN q = 1 .. Len(q)
    /\ \A i \in DOMAIN p : (p \o q)[i] = p[i]
    /\ \A j \in DOMAIN q : (p \o q)[Len(p) + j] = q[j]

\* Two lists, one behind the other, whatever they are of.
LEMMA ListedJoined ==
  ASSUME NEW p, Listed(p), NEW q, Listed(q)
  PROVE  /\ Listed(p \o q) /\ Len(p \o q) = Len(p) + Len(q)
         /\ Len(p) \in Nat /\ DOMAIN p = 1 .. Len(p)
         /\ Len(q) \in Nat /\ DOMAIN q = 1 .. Len(q)
         /\ DOMAIN (p \o q) = 1 .. Len(p) + Len(q)
         /\ \A i \in DOMAIN p : (p \o q)[i] = p[i]
         /\ \A j \in DOMAIN q : (p \o q)[Len(p) + j] = q[j]
         /\ ToSet(p \o q) = ToSet(p) \cup ToSet(q) /\ Behind(p, q)
<1> DEFINE T == ToSet(p) \cup ToSet(q)
<1>1. p \in Seq(T) /\ q \in Seq(T)
  <2>1. p \in Seq(ToSet(p)) /\ q \in Seq(ToSet(q))
    BY DEF Listed
  <2>2. QED  BY <2>1
<1> HIDE DEF T
<1>2. p \o q \in Seq(T)
  BY <1>1, JoinedLists
<1>3. /\ Listed(p \o q)
      /\ Len(p) \in Nat /\ DOMAIN p = 1 .. Len(p)
      /\ Len(q) \in Nat /\ DOMAIN q = 1 .. Len(q)
  BY <1>1, <1>2, ListsAreListed
<1>4. /\ Len(p \o q) = Len(p) + Len(q) /\ DOMAIN (p \o q) = 1 .. Len(p) + Len(q)
      /\ (\A i \in DOMAIN p : (p \o q)[i] = p[i])
      /\ (\A j \in DOMAIN q : (p \o q)[Len(p) + j] = q[j])
      /\ ToSet(p \o q) = ToSet(p) \cup ToSet(q)
  BY <1>1, JoinedLists
<1>5. Behind(p, q)
  BY <1>3, <1>4, Zenon DEF Behind
<1>6. QED  BY <1>3, <1>4, <1>5

\* The places p of what is kept of a list, in their order.
KeptAt(p, s, I) ==
    /\ p \in [1 .. Cardinality(I) -> I]
    /\ \A i \in I : \E k \in 1 .. Cardinality(I) : p[k] = i
    /\ \A j, k \in 1 .. Cardinality(I) : p[j] < p[k] <=> j < k
    /\ \A k \in 1 .. Cardinality(I) : Kept(s, I)[k] = s[p[k]]

\* What is kept of a list is one, and as long as the places are many.
LEMMA ListedKept ==
  ASSUME NEW s, Listed(s), NEW I \in SUBSET DOMAIN s
  PROVE  /\ Listed(Kept(s, I)) /\ Len(Kept(s, I)) = Cardinality(I)
         /\ Cardinality(I) \in Nat /\ DOMAIN Kept(s, I) = 1 .. Cardinality(I)
         /\ ToSet(Kept(s, I)) = {s[i] : i \in I}
         /\ \E p : KeptAt(p, s, I)
<1> DEFINE T == ToSet(s)
<1>1. s \in Seq(T)
  BY DEF Listed
<1> HIDE DEF T
<1>2. Kept(s, I) \in Seq(T)
  BY <1>1, KeptOf
<1>3. Listed(Kept(s, I))
  BY <1>2, ListsAreListed
<1>4. \E p : KeptAt(p, s, I)
  <2>1. PICK p \in [1 .. Cardinality(I) -> I] :
               /\ \A i \in I : \E k \in 1 .. Cardinality(I) : p[k] = i
               /\ \A j, k \in 1 .. Cardinality(I) : p[j] < p[k] <=> j < k
               /\ \A k \in 1 .. Cardinality(I) : Kept(s, I)[k] = s[p[k]]
    BY <1>1, KeptOf
  <2>2. KeptAt(p, s, I)
    BY <2>1, Zenon DEF KeptAt
  <2>3. QED  BY <2>2
<1>5. QED  BY <1>1, <1>3, <1>4, KeptOf

\* The result of an SQL has a cell for every column.
LEMMA ResultsAreWhole ==
  ASSUME NEW t, IsResult(t)
  PROVE  Whole(t)
<1>1. /\ t.cols \in Seq(Seq(STRING)) /\ t.rows \in Seq(Seq(STRING))
      /\ \A i \in DOMAIN t.rows : Len(t.rows[i]) = Len(t.cols)
  BY DEF IsResult, Rectangular
<1>2. Listed(t.cols) /\ Listed(t.rows)
  BY <1>1, ListsAreListed
<1>3. ASSUME NEW i \in DOMAIN t.rows PROVE Listed(t.rows[i])
  <2>1. t.rows[i] \in Seq(STRING)
    BY <1>1, PlacesOf
  <2>2. QED  BY <2>1, ListsAreListed
<1>4. QED  BY <1>1, <1>2, <1>3 DEF Whole

-----------------------------------------------------------------------------
(* The join of two results                                                   *)

\* The rows of the right that a row of the left is joined with the last of.
Rights(l, r, key, i) == {j \in 1 .. Len(r.rows) : Cell(r, r.rows[j], key) = Cell(l, l.rows[i], key)}

\* What is matched, by the places p on the left and q on the right.
MatchedAt(m, l, r, key, p, q) ==
    /\ Listed(m) /\ Len(m) \in Nat /\ DOMAIN m = 1 .. Len(m)
    /\ p \in [DOMAIN m -> DOMAIN l.rows] /\ q \in [DOMAIN m -> DOMAIN r.rows]
    /\ \A i, j \in DOMAIN m : p[i] = p[j] => i = j
    /\ \A k \in DOMAIN m : /\ m[k] = <<l.rows[p[k]], r.rows[q[k]]>>
                           /\ q[k] \in Rights(l, r, key, p[k])
                           /\ \A j \in Rights(l, r, key, p[k]) : j <= q[k]
    /\ \A i \in DOMAIN l.rows : Rights(l, r, key, i) # {} => \E k \in DOMAIN m : p[k] = i

\* Each row of the left that has a match is matched once.
LEMMA MatchedIs ==
  ASSUME NEW l, Listed(l.rows), NEW r, Listed(r.rows), NEW key
  PROVE  \E p, q : MatchedAt(Matched(l, r, key), l, r, key, p, q)
<1> DEFINE R(i) == Rights(l, r, key, i)
           ps == [i \in DOMAIN l.rows |-> <<l.rows[i], LastOf(R(i))>>]
           I == {i \in DOMAIN ps : ps[i][2] # 0}
           f == Kept(ps, I)
           m == [k \in DOMAIN f |-> <<f[k][1], r.rows[f[k][2]]>>]
<1>1. Len(l.rows) \in Nat /\ DOMAIN l.rows = 1 .. Len(l.rows) /\ Len(r.rows) \in Nat
      /\ DOMAIN r.rows = 1 .. Len(r.rows)
  BY ListsAreListed DEF Listed
<1>2. Matched(l, r, key) = m
  BY DEF Matched, Where, Rights, LastOf, SelectLastInSeq
<1>3. Listed(ps) /\ DOMAIN ps = DOMAIN l.rows
  <2> DEFINE n == Len(l.rows)
  <2>1. n \in Nat /\ DOMAIN ps = 1 .. n /\ ps = [i \in 1 .. n |-> ps[i]]
    BY <1>1
  <2>2. DOMAIN ps = DOMAIN l.rows
    OBVIOUS
  <2> HIDE DEF n, ps
  <2>3. Listed(ps)
    BY <2>1, ListedIs
  <2>4. QED  BY <2>2, <2>3
<1>4. \A i \in DOMAIN ps : ps[i][1] = l.rows[i] /\ ps[i][2] = LastOf(R(i))
  OBVIOUS
<1>5. \A i \in DOMAIN ps : /\ ps[i][2] # 0 => ps[i][2] \in R(i) /\ \A j \in R(i) : j <= ps[i][2]
                           /\ R(i) # {} => ps[i][2] # 0
  <2> TAKE i \in DOMAIN ps
  <2>1. R(i) \in SUBSET (1 .. Len(r.rows))
    BY DEF Rights
  <2>2. /\ R(i) = {} => LastOf(R(i)) = 0
        /\ R(i) # {} => /\ LastOf(R(i)) \in R(i) /\ LastOf(R(i)) # 0
                       /\ \A j \in R(i) : j <= LastOf(R(i))
    BY <1>1, <2>1, LastIs
  <2>3. QED  BY <1>4, <2>2
<1>6. I \in SUBSET DOMAIN ps /\ \A i \in I : ps[i][2] # 0
  OBVIOUS
<1>7. \A i \in DOMAIN ps : ps[i][2] # 0 => i \in I
  OBVIOUS
<1> DEFINE c == Cardinality(I)
<1> HIDE DEF I, ps
<1>8. c \in Nat /\ DOMAIN f = 1 .. c /\ \E p : KeptAt(p, ps, I)
  BY <1>3, <1>6, ListedKept
<1>9. PICK p : /\ p \in [1 .. c -> I]
               /\ \A i \in I : \E k \in 1 .. c : p[k] = i
               /\ \A j, k \in 1 .. c : p[j] < p[k] <=> j < k
               /\ \A k \in 1 .. c : f[k] = ps[p[k]]
  BY <1>8 DEF KeptAt
<1> DEFINE q == [k \in 1 .. c |-> ps[p[k]][2]]
<1> HIDE DEF c
<1>10. /\ Listed(m) /\ Len(m) = c /\ DOMAIN m = 1 .. c
  <2>1. DOMAIN m = 1 .. c /\ m = [k \in 1 .. c |-> m[k]]
    BY <1>8
  <2> HIDE DEF m
  <2>2. QED  BY <1>8, <2>1, ListedIs
<1>11. \A k \in 1 .. c : /\ p[k] \in I /\ p[k] \in DOMAIN l.rows /\ q[k] \in R(p[k])
                         /\ \A j \in R(p[k]) : j <= q[k]
  <2> TAKE k \in 1 .. c
  <2>1. p[k] \in I
    BY <1>9
  <2>2. p[k] \in DOMAIN ps /\ ps[p[k]][2] # 0
    BY <2>1, <1>6
  <2>3. QED  BY <2>1, <2>2, <1>3, <1>5
<1>12. \A k \in 1 .. c : m[k] = <<l.rows[p[k]], r.rows[q[k]]>>
  <2> TAKE k \in 1 .. c
  <2>1. f[k] = ps[p[k]] /\ ps[p[k]][1] = l.rows[p[k]] /\ q[k] = ps[p[k]][2]
    BY <1>3, <1>4, <1>9, <1>11
  <2>2. m[k] = <<f[k][1], r.rows[f[k][2]]>>
    BY <1>8
  <2>3. QED  BY <2>1, <2>2
<1>13. \A i \in DOMAIN l.rows : R(i) # {} => \E k \in 1 .. c : p[k] = i
  BY <1>3, <1>5, <1>7, <1>9
<1>14. \A i, j \in 1 .. c : p[i] = p[j] => i = j
  <2> TAKE i, j \in 1 .. c
  <2>1. p[i] \in Nat /\ p[j] \in Nat /\ i \in Nat /\ j \in Nat
    BY <1>1, <1>8, <1>11
  <2>2. p[i] < p[j] <=> i < j
    BY <1>9
  <2>3. p[j] < p[i] <=> j < i
    BY <1>9
  <2>4. QED  BY <2>1, <2>2, <2>3
<1>15. \A k \in 1 .. c : q[k] \in DOMAIN r.rows
  BY <1>1, <1>11 DEF Rights
<1>16. p \in [DOMAIN m -> DOMAIN l.rows] /\ q \in [DOMAIN m -> DOMAIN r.rows]
  <2>1. p \in [1 .. c -> DOMAIN l.rows]
    BY <1>9, <1>11
  <2>2. q \in [1 .. c -> DOMAIN r.rows]
    BY <1>15
  <2>3. QED  BY <1>10, <2>1, <2>2
<1> HIDE DEF m, q
<1>17. MatchedAt(m, l, r, key, p, q)
  BY <1>8, <1>10, <1>11, <1>12, <1>13, <1>14, <1>16 DEF MatchedAt
<1>18. QED  BY <1>2, <1>17

\* What is joined by a key, by the places p on the left and q on the right.
JoinedAt(t, l, r, key, p, q) ==
    /\ p \in [DOMAIN t.rows -> DOMAIN l.rows] /\ q \in [DOMAIN t.rows -> DOMAIN r.rows]
    /\ \A i, j \in DOMAIN t.rows : p[i] = p[j] => i = j
    /\ \A k \in DOMAIN t.rows :
          /\ Cell(r, r.rows[q[k]], key) = Cell(l, l.rows[p[k]], key)
          /\ \A j \in DOMAIN r.rows : Cell(r, r.rows[j], key) = Cell(l, l.rows[p[k]], key) => j <= q[k]
          /\ \A c \in ToSet(t.cols) :
                Cell(t, t.rows[k], c) = IF c # key /\ c \in ToSet(r.cols)
                                        THEN Cell(r, r.rows[q[k]], c) ELSE Cell(l, l.rows[p[k]], c)
    /\ \A i \in DOMAIN l.rows, j \in DOMAIN r.rows :
          Cell(r, r.rows[j], key) = Cell(l, l.rows[i], key) => \E k \in DOMAIN t.rows : p[k] = i

\* The columns of two results: those of the left, and the other ones of the right.
LEMMA ColumnsJoined ==
  ASSUME NEW a, Listed(a), NEW b, Listed(b)
  PROVE  LET cols == a \o Where(b, LAMBDA c : c \notin ToSet(a))
         IN Listed(cols) /\ ToSet(cols) = ToSet(a) \cup ToSet(b)
<1> DEFINE I == {i \in DOMAIN b : b[i] \notin ToSet(a)}
           w == Kept(b, I)
<1>1. I \in SUBSET DOMAIN b
  OBVIOUS
<1>2. {b[i] : i \in I} = ToSet(b) \ ToSet(a)
  BY DEF ToSet
<1> HIDE DEF I
<1>3. Listed(w) /\ ToSet(w) = ToSet(b) \ ToSet(a)
  BY <1>1, <1>2, ListedKept
<1> HIDE DEF w
<1>4. Listed(a \o w) /\ ToSet(a \o w) = ToSet(a) \cup ToSet(w)
  BY <1>3, ListedJoined
<1>5. w = Where(b, LAMBDA c : c \notin ToSet(a))
  BY DEF w, I, Where
<1>6. Listed(a \o w) /\ ToSet(a \o w) = ToSet(a) \cup ToSet(b)
  BY <1>3, <1>4
<1>7. QED  BY <1>5, <1>6

\* A join by a key has a row for each row of the left with a match.
LEMMA JoinedByIs ==
  ASSUME NEW l, Whole(l), NEW r, Whole(r), NEW key
  PROVE  LET t == JoinedBy(l, r, key)
         IN /\ Whole(t) /\ ToSet(t.cols) = ToSet(l.cols) \cup ToSet(r.cols)
            /\ \E p, q : JoinedAt(t, l, r, key, p, q)
<1> DEFINE cols == l.cols \o Where(r.cols, LAMBDA c : c \notin ToSet(l.cols))
           m == Matched(l, r, key)
           value(p, c) == IF c # key /\ c \in ToSet(r.cols) THEN Cell(r, p[2], c) ELSE Cell(l, p[1], c)
           row(i) == [j \in DOMAIN cols |-> value(m[i], cols[j])]
           body == [i \in DOMAIN m |-> row(i)]
           t == [cols |-> cols, rows |-> body]
<1>1. JoinedBy(l, r, key) = t
  BY DEF JoinedBy
<1>2. Listed(l.cols) /\ Listed(r.cols) /\ Listed(l.rows) /\ Listed(r.rows)
  BY DEF Whole
<1>3. Listed(cols) /\ ToSet(cols) = ToSet(l.cols) \cup ToSet(r.cols)
  BY <1>2, ColumnsJoined
<1> HIDE DEF cols
<1>4. PICK p, q : MatchedAt(m, l, r, key, p, q)
  BY <1>2, MatchedIs
<1> HIDE DEF m
<1> DEFINE w == Len(cols)
<1>5. w \in Nat /\ DOMAIN cols = 1 .. w
  BY <1>3, ListsAreListed DEF Listed
<1> HIDE DEF w
<1>6. \A i : DOMAIN row(i) = 1 .. w /\ \A j \in 1 .. w : row(i)[j] = value(m[i], cols[j])
  BY <1>5
<1>7. \A i : Listed(row(i)) /\ Len(row(i)) = w
  <2> TAKE i
  <2>1. row(i) = [j \in 1 .. w |-> row(i)[j]]
    BY <1>5
  <2> DEFINE f == row(i)
  <2>2. DOMAIN f = 1 .. w /\ f = [j \in 1 .. w |-> f[j]]
    BY <1>6, <2>1
  <2> HIDE DEF f
  <2>3. Listed(f) /\ Len(f) = w
    BY <1>5, <2>2, ListedIs
  <2>4. QED  BY <2>3 DEF f
<1> HIDE DEF row
<1> DEFINE n == Len(m)
<1>8. n \in Nat /\ DOMAIN m = 1 .. n
  BY <1>4 DEF MatchedAt
<1> HIDE DEF n
<1>9. DOMAIN body = 1 .. n /\ \A i \in 1 .. n : body[i] = row(i)
  BY <1>8
<1>10. Listed(body)
  <2>1. body = [i \in 1 .. n |-> body[i]]
    BY <1>8
  <2> HIDE DEF body
  <2>2. QED  BY <1>8, <1>9, <2>1, ListedIs
<1> HIDE DEF body
<1>11. Whole(t)
  <2>1. t.cols = cols /\ t.rows = body
    OBVIOUS
  <2>2. \A i \in DOMAIN body : Listed(body[i]) /\ Len(body[i]) = Len(cols)
    BY <1>7, <1>9 DEF w
  <2> HIDE DEF t
  <2>3. QED  BY <2>1, <2>2, <1>3, <1>10 DEF Whole
<1>12. \A k \in 1 .. n, c \in ToSet(cols) : Cell(t, body[k], c) = value(m[k], c)
  <2> TAKE k \in 1 .. n, c \in ToSet(cols)
  <2>1. PlaceOf(cols, c) \in DOMAIN cols /\ cols[PlaceOf(cols, c)] = c
    <3>1. cols \in Seq(ToSet(cols))
      BY <1>3 DEF Listed
    <3>2. QED  BY <3>1, PlaceIs
  <2>2. Cell(t, body[k], c) = body[k][PlaceOf(cols, c)]
    BY DEF Cell, PlaceOf
  <2>3. body[k][PlaceOf(cols, c)] = value(m[k], cols[PlaceOf(cols, c)])
    <3>1. body[k] = row(k)
      BY <1>9
    <3>2. PlaceOf(cols, c) \in 1 .. w
      BY <2>1, <1>5
    <3> HIDE DEF value
    <3>3. QED  BY <3>1, <3>2, <1>6
  <2> HIDE DEF value, t
  <2>4. QED  BY <2>1, <2>2, <2>3
<1>13. JoinedAt(t, l, r, key, p, q)
  <2>1. /\ p \in [1 .. n -> DOMAIN l.rows] /\ q \in [1 .. n -> DOMAIN r.rows]
        /\ \A i, j \in 1 .. n : p[i] = p[j] => i = j
        /\ \A k \in 1 .. n : /\ m[k] = <<l.rows[p[k]], r.rows[q[k]]>>
                             /\ q[k] \in Rights(l, r, key, p[k])
                             /\ \A j \in Rights(l, r, key, p[k]) : j <= q[k]
        /\ \A i \in DOMAIN l.rows : Rights(l, r, key, i) # {} => \E k \in 1 .. n : p[k] = i
    BY <1>4, <1>8 DEF MatchedAt
  <2>2. t.cols = cols /\ t.rows = body /\ DOMAIN body = 1 .. n
    BY <1>9
  <2>3. \A k \in 1 .. n : Cell(r, r.rows[q[k]], key) = Cell(l, l.rows[p[k]], key)
    BY <2>1 DEF Rights
  <2>4. \A k \in 1 .. n : m[k][1] = l.rows[p[k]] /\ m[k][2] = r.rows[q[k]]
    BY <2>1
  <2>5. \A k \in 1 .. n : \A c \in ToSet(cols) :
            Cell(t, body[k], c) = IF c # key /\ c \in ToSet(r.cols)
                                  THEN Cell(r, r.rows[q[k]], c) ELSE Cell(l, l.rows[p[k]], c)
    <3> TAKE k \in 1 .. n
    <3> TAKE c \in ToSet(cols)
    <3>1. Cell(t, body[k], c) = value(m[k], c)
      BY <1>12
    <3> HIDE DEF t
    <3>2. QED  BY <3>1, <2>4
  <2>6. \A i \in DOMAIN l.rows, j \in DOMAIN r.rows :
          Cell(r, r.rows[j], key) = Cell(l, l.rows[i], key) => \E k \in 1 .. n : p[k] = i
    <3> TAKE i \in DOMAIN l.rows, j \in DOMAIN r.rows
    <3>1. DOMAIN r.rows = 1 .. Len(r.rows)
      BY <1>2, ListsAreListed DEF Listed
    <3>2. Cell(r, r.rows[j], key) = Cell(l, l.rows[i], key) => j \in Rights(l, r, key, i)
      BY <3>1 DEF Rights
    <3>3. QED  BY <3>2, <2>1
  <2>7. \A k \in 1 .. n : \A j \in DOMAIN r.rows :
          Cell(r, r.rows[j], key) = Cell(l, l.rows[p[k]], key) => j <= q[k]
    <3> TAKE k \in 1 .. n
    <3> TAKE j \in DOMAIN r.rows
    <3>1. DOMAIN r.rows = 1 .. Len(r.rows)
      BY <1>2, ListsAreListed DEF Listed
    <3>2. Cell(r, r.rows[j], key) = Cell(l, l.rows[p[k]], key) => j \in Rights(l, r, key, p[k])
      BY <3>1 DEF Rights
    <3>3. QED  BY <3>2, <2>1
  <2> HIDE DEF t
  <2>8. QED  BY <2>1, <2>2, <2>3, <2>5, <2>6, <2>7 DEF JoinedAt
<1>14. t.cols = cols
  OBVIOUS
<1> HIDE DEF t
<1>15. QED  BY <1>1, <1>3, <1>11, <1>13, <1>14

\* Two results side by side: rows of equal width.
LEMMA BesideIsWhole ==
  ASSUME NEW l, Whole(l), NEW r, Whole(r)
  PROVE  Whole(Beside(l, r))
<1> DEFINE rename(c) == Append(c, IF c \in ToSet(l.cols) THEN "_2" ELSE "_right")
           nulls(t) == [i \in DOMAIN t.cols |-> Null]
           cells(t, i) == IF i <= Len(t.rows) THEN t.rows[i] ELSE nulls(t)
           n == IF Len(l.rows) < Len(r.rows) THEN Len(r.rows) ELSE Len(l.rows)
           names == [i \in DOMAIN r.cols |-> rename(r.cols[i])]
           cols == l.cols \o names
           body == [i \in 1 .. n |-> cells(l, i) \o cells(r, i)]
           t == [cols |-> cols, rows |-> body]
<1>1. Beside(l, r) = t
  BY DEF Beside
<1>2. ASSUME NEW s, Whole(s)
      PROVE  /\ Len(s.cols) \in Nat /\ DOMAIN s.cols = 1 .. Len(s.cols)
             /\ Len(s.rows) \in Nat /\ DOMAIN s.rows = 1 .. Len(s.rows)
             /\ \A i \in 1 .. n : Listed(cells(s, i)) /\ Len(cells(s, i)) = Len(s.cols)
  <2>1. Listed(s.cols) /\ Listed(s.rows)
    BY <1>2 DEF Whole
  <2>2. /\ Len(s.cols) \in Nat /\ DOMAIN s.cols = 1 .. Len(s.cols)
        /\ Len(s.rows) \in Nat /\ DOMAIN s.rows = 1 .. Len(s.rows)
    BY <2>1, ListsAreListed DEF Listed
  <2>3. Listed(nulls(s)) /\ Len(nulls(s)) = Len(s.cols)
    <3> DEFINE w == Len(s.cols)
               f == nulls(s)
    <3>1. w \in Nat /\ DOMAIN f = 1 .. w /\ f = [i \in 1 .. w |-> f[i]]
      BY <2>2
    <3> HIDE DEF f, w
    <3>2. Listed(f) /\ Len(f) = w
      BY <3>1, ListedIs
    <3>3. QED  BY <3>2 DEF f, w
  <2>4. ASSUME NEW i \in 1 .. n PROVE Listed(cells(s, i)) /\ Len(cells(s, i)) = Len(s.cols)
    <3>1. CASE i <= Len(s.rows)
      <4>1. i \in DOMAIN s.rows
        BY <2>2, <3>1
      <4>2. Listed(s.rows[i]) /\ Len(s.rows[i]) = Len(s.cols)
        BY <1>2, <4>1 DEF Whole
      <4>3. QED  BY <3>1, <4>2
    <3>2. CASE ~(i <= Len(s.rows))
      <4> HIDE DEF nulls
      <4>1. QED  BY <3>2, <2>3
    <3>3. QED  BY <3>1, <3>2
  <2>5. QED  BY <2>2, <2>4
<1>3. /\ Len(r.cols) \in Nat /\ DOMAIN r.cols = 1 .. Len(r.cols)
      /\ Len(l.rows) \in Nat /\ Len(r.rows) \in Nat
      /\ \A i \in 1 .. n : Listed(cells(l, i)) /\ Len(cells(l, i)) = Len(l.cols)
      /\ \A i \in 1 .. n : Listed(cells(r, i)) /\ Len(cells(r, i)) = Len(r.cols)
  BY <1>2
<1>4. n \in Nat
  BY <1>3
<1>5. Listed(names) /\ Len(names) = Len(r.cols)
  <2> DEFINE w == Len(r.cols)
  <2>1. w \in Nat /\ DOMAIN names = 1 .. w /\ names = [i \in 1 .. w |-> names[i]]
    BY <1>3
  <2> HIDE DEF names, w
  <2>2. Listed(names) /\ Len(names) = w
    BY <2>1, ListedIs
  <2>3. QED  BY <2>2 DEF w
<1> HIDE DEF names
<1>6. Listed(l.cols)
  BY DEF Whole
<1>7. Listed(cols) /\ Len(cols) = Len(l.cols) + Len(r.cols)
  <2>1. Listed(l.cols \o names) /\ Len(l.cols \o names) = Len(l.cols) + Len(names)
    <3> DEFINE a == l.cols
    <3>1. Listed(a) /\ Listed(names)
      BY <1>5, <1>6
    <3> HIDE DEF a
    <3>2. Listed(a \o names) /\ Len(a \o names) = Len(a) + Len(names)
      BY <3>1, ListedJoined
    <3>3. QED  BY <3>2 DEF a
  <2>2. QED  BY <2>1, <1>5
<1> HIDE DEF n, cells, cols
<1>8. \A i \in 1 .. n : /\ Listed(cells(l, i) \o cells(r, i))
                        /\ Len(cells(l, i) \o cells(r, i)) = Len(cells(l, i)) + Len(cells(r, i))
  BY <1>3, ListedJoined
<1>9. \A i \in 1 .. n : Listed(body[i]) /\ Len(body[i]) = Len(cols)
  BY <1>3, <1>7, <1>8
<1>10. DOMAIN body = 1 .. n /\ body = [i \in 1 .. n |-> body[i]]
  OBVIOUS
<1>11. t.cols = cols /\ t.rows = body
  OBVIOUS
<1> HIDE DEF body, t
<1>12. Listed(body)
  BY <1>4, <1>10, ListedIs
<1>13. Whole(t)
  BY <1>7, <1>9, <1>10, <1>11, <1>12 DEF Whole
<1>14. QED  BY <1>1, <1>13

\* Whatever two results are, what they are joined to is a table.
LEMMA JoinIsWhole ==
  ASSUME NEW l, Whole(l), NEW r, Whole(r)
  PROVE  Whole(Join(l, r))
<1>1. Whole(Beside(l, r))
  BY BesideIsWhole
<1>2. Whole(JoinedBy(l, r, JoinKey(l.cols, r.cols)))
  BY JoinedByIs
<1>3. QED  BY <1>1, <1>2, Zenon DEF Join

\* Of some columns, one is ranked best.
LEMMA BestPlaceIs ==
  ASSUME NEW cols, NEW is \in SUBSET Nat, is # {}, NEW rank, rank \in [DOMAIN rank -> Nat]
  PROVE  BestPlace(cols, is, rank) \in is
<1> DEFINE of(i) == LET rs == {rank[w] : w \in ToSet(cols[i]) \cap DOMAIN rank}
                    IN IF rs = {} THEN Unranked ELSE CHOOSE r \in rs : \A s \in rs : r <= s
           f == [i \in is |-> of(i)]
           M == {f[i] : i \in is}
           best(i) == \A j \in is : f[i] < f[j] \/ (f[i] = f[j] /\ i <= j)
<1>1. BestPlace(cols, is, rank) = CHOOSE i \in is : best(i)
  BY DEF BestPlace
<1>2. \A i \in is : f[i] \in Nat
  <2> TAKE i \in is
  <2> DEFINE rs == {rank[w] : w \in ToSet(cols[i]) \cap DOMAIN rank}
  <2>1. rs \in SUBSET Nat
    OBVIOUS
  <2>2. f[i] = IF rs = {} THEN Unranked ELSE CHOOSE r \in rs : \A s \in rs : r <= s
    OBVIOUS
  <2> HIDE DEF rs, f
  <2>3. CASE rs = {}
    BY <2>2, <2>3 DEF Unranked
  <2>4. CASE rs # {}
    BY <2>1, <2>2, <2>4, Least
  <2>5. QED  BY <2>3, <2>4
<1> HIDE DEF f
<1>3. PICK m \in M : \A x \in M : m <= x
  <2>1. M \in SUBSET Nat /\ M # {}
    BY <1>2
  <2> HIDE DEF M
  <2>2. QED  BY <2>1, LeastIs
<1> DEFINE I == {i \in is : f[i] = m}
<1>4. PICK i \in I : \A j \in I : i <= j
  <2>1. I \in SUBSET Nat /\ I # {}
    BY <1>3
  <2> HIDE DEF I
  <2>2. QED  BY <2>1, LeastIs
<1>5. best(i)
  <2>1. m \in Nat /\ i \in is /\ f[i] = m
    BY <1>2, <1>3, <1>4
  <2>2. \A j \in is : f[j] \in Nat /\ m <= f[j] /\ (f[j] = m => i <= j)
    BY <1>2, <1>3, <1>4
  <2>3. QED  BY <2>1, <2>2
<1>6. i \in is
  BY <1>4
<1> HIDE DEF best, I
<1>7. QED  BY <1>1, <1>5, <1>6

\* The column two results are joined by is one both have.
LEMMA KeyIsShared ==
  ASSUME NEW a, Listed(a), NEW b, Common(a, b) # {}
  PROVE  JoinKey(a, b) \in ToSet(a) \cap ToSet(b)
<1>1. Common(a, b) \in SUBSET DOMAIN a /\ DOMAIN a = 1 .. Len(a) /\ Len(a) \in Nat
  BY ListsAreListed DEF Common, Listed
<1>2. Common(a, b) \in SUBSET Nat
  BY <1>1
<1>3. KeyRank \in [DOMAIN KeyRank -> Nat]
  BY ResultAssemblyAssumption
<1> DEFINE i == BestPlace(a, Common(a, b), KeyRank)
<1>4. i \in Common(a, b)
  BY <1>2, <1>3, BestPlaceIs
<1> HIDE DEF i
<1>5. a[i] \in ToSet(a) /\ a[i] \in ToSet(b)
  BY <1>4 DEF Common, ToSet
<1>6. QED  BY <1>5 DEF JoinKey, i

\* Two results that share a column share no other.
OneShared(l, r, key) == /\ key \in ToSet(l.cols) \cap ToSet(r.cols)
                        /\ \A c \in ToSet(l.cols) \cap ToSet(r.cols) : c = key

\* They are joined by it.
LEMMA JoinedByShared ==
  ASSUME NEW l, Whole(l), NEW r, Whole(r), l.rows # <<>>, r.rows # <<>>,
         NEW key, OneShared(l, r, key)
  PROVE  Join(l, r) = JoinedBy(l, r, key) /\ JoinKey(l.cols, r.cols) = key
<1>1. Listed(l.cols)
  BY DEF Whole
<1>2. Common(l.cols, r.cols) # {}
  BY DEF OneShared, Common, ToSet
<1>3. JoinKey(l.cols, r.cols) \in ToSet(l.cols) \cap ToSet(r.cols)
  BY <1>1, <1>2, KeyIsShared
<1>4. JoinKey(l.cols, r.cols) = key
  BY <1>3 DEF OneShared
<1>5. QED  BY <1>2, <1>4, Zenon DEF Join

\* Two rows with names, as one.
Merged(f, g) == [c \in DOMAIN f \cup DOMAIN g |-> IF c \in DOMAIN f THEN f[c] ELSE g[c]]

\* A joined row is the two it comes from.
LEMMA RowsMerged ==
  ASSUME NEW l, NEW r, NEW key, OneShared(l, r, key),
         NEW t, ToSet(t.cols) = ToSet(l.cols) \cup ToSet(r.cols),
         NEW p, NEW q, JoinedAt(t, l, r, key, p, q), NEW k \in DOMAIN t.rows
  PROVE  /\ p[k] \in DOMAIN l.rows /\ q[k] \in DOMAIN r.rows
         /\ Cell(r, r.rows[q[k]], key) = Cell(l, l.rows[p[k]], key)
         /\ Named(t, t.rows[k]) = Merged(Named(l, l.rows[p[k]]), Named(r, r.rows[q[k]]))
<1>1. /\ p[k] \in DOMAIN l.rows /\ q[k] \in DOMAIN r.rows
      /\ Cell(r, r.rows[q[k]], key) = Cell(l, l.rows[p[k]], key)
  BY DEF JoinedAt
<1> DEFINE C == ToSet(l.cols) \cup ToSet(r.cols)
           x == Named(l, l.rows[p[k]])
           y == Named(r, r.rows[q[k]])
<1>2. ASSUME NEW c \in C
      PROVE  Cell(t, t.rows[k], c) = IF c \in ToSet(l.cols) THEN Cell(l, l.rows[p[k]], c)
                                     ELSE Cell(r, r.rows[q[k]], c)
  <2>1. Cell(t, t.rows[k], c) = IF c # key /\ c \in ToSet(r.cols)
                                THEN Cell(r, r.rows[q[k]], c) ELSE Cell(l, l.rows[p[k]], c)
    BY DEF JoinedAt
  <2>2. CASE c \in ToSet(l.cols)
    BY <2>1, <2>2 DEF OneShared
  <2>3. CASE c \notin ToSet(l.cols)
    BY <2>1, <2>3 DEF OneShared
  <2>4. QED  BY <2>2, <2>3
<1>3. /\ DOMAIN x = ToSet(l.cols) /\ DOMAIN y = ToSet(r.cols)
      /\ \A c \in ToSet(l.cols) : x[c] = Cell(l, l.rows[p[k]], c)
      /\ \A c \in ToSet(r.cols) : y[c] = Cell(r, r.rows[q[k]], c)
  BY DEF Named
<1>4. Named(t, t.rows[k]) = [c \in C |-> Cell(t, t.rows[k], c)]
  BY DEF Named
<1> HIDE DEF x, y
<1>5. Merged(x, y) = [c \in C |-> IF c \in ToSet(l.cols) THEN x[c] ELSE y[c]]
  BY <1>3, Zenon DEF Merged
<1>6. \A c \in C : Cell(t, t.rows[k], c) = IF c \in ToSet(l.cols) THEN x[c] ELSE y[c]
  BY <1>2, <1>3
<1> HIDE DEF C
<1>7. Named(t, t.rows[k]) = Merged(x, y)
  BY <1>4, <1>5, <1>6
<1>8. QED  BY <1>1, <1>7 DEF x, y

\* The columns of a result are finitely many.
LEMMA ColumnsAreFinite ==
  ASSUME NEW s, Listed(s)
  PROVE  IsFiniteSet(ToSet(s))
<1> DEFINE n == Len(s)
<1>1. n \in Nat /\ DOMAIN s = 1 .. n /\ s \in Seq(ToSet(s))
  BY ListsAreListed DEF Listed
<1>2. s = [i \in DOMAIN s |-> s[i]]
  BY <1>1
<1>3. IsFiniteSet(DOMAIN s)
  BY <1>1, FS_Interval
<1>4. IsFiniteSet({s[i] : i \in DOMAIN s})
  BY <1>2, <1>3, ImageIsSmall
<1>5. ToSet(s) = {s[i] : i \in DOMAIN s}
  BY DEF ToSet
<1>6. QED  BY <1>4, <1>5

\* The rows of the right that match one of the left, and the pairs a join is of.
MatchesOf(l, r, key, i) == {j \in DOMAIN r.rows : Cell(r, r.rows[j], key) = Cell(l, l.rows[i], key)}
LastMatches(l, r, key) ==
    {p \in (DOMAIN l.rows) \X DOMAIN r.rows :
        p[2] \in MatchesOf(l, r, key, p[1]) /\ \A j \in MatchesOf(l, r, key, p[1]) : j <= p[2]}

\* The rows of a join are the pairs, each once.
LEMMA JoinedAreLast ==
  ASSUME NEW l, Whole(l), NEW r, Whole(r), NEW key, NEW t, NEW p, NEW q, JoinedAt(t, l, r, key, p, q)
  PROVE  /\ \A k \in DOMAIN t.rows : <<p[k], q[k]>> \in LastMatches(l, r, key)
         /\ \A z \in LastMatches(l, r, key) : \E k \in DOMAIN t.rows : p[k] = z[1] /\ q[k] = z[2]
<1>1. DOMAIN r.rows \subseteq Nat
  BY ListsAreListed DEF Whole, Listed
<1>2. \A k \in DOMAIN t.rows :
         /\ p[k] \in DOMAIN l.rows /\ q[k] \in DOMAIN r.rows
         /\ Cell(r, r.rows[q[k]], key) = Cell(l, l.rows[p[k]], key)
         /\ \A j \in DOMAIN r.rows : Cell(r, r.rows[j], key) = Cell(l, l.rows[p[k]], key) => j <= q[k]
  BY DEF JoinedAt
<1>3. \A i \in DOMAIN l.rows, j \in DOMAIN r.rows :
         Cell(r, r.rows[j], key) = Cell(l, l.rows[i], key) => \E k \in DOMAIN t.rows : p[k] = i
  BY Zenon DEF JoinedAt
<1>4. ASSUME NEW k \in DOMAIN t.rows PROVE <<p[k], q[k]>> \in LastMatches(l, r, key)
  BY <1>2 DEF LastMatches, MatchesOf
<1>5. ASSUME NEW z \in LastMatches(l, r, key) PROVE \E k \in DOMAIN t.rows : p[k] = z[1] /\ q[k] = z[2]
  <2>1. /\ z[1] \in DOMAIN l.rows /\ z[2] \in DOMAIN r.rows
        /\ Cell(r, r.rows[z[2]], key) = Cell(l, l.rows[z[1]], key)
        /\ \A j \in DOMAIN r.rows : Cell(r, r.rows[j], key) = Cell(l, l.rows[z[1]], key) => j <= z[2]
    BY DEF LastMatches, MatchesOf
  <2>2. PICK k \in DOMAIN t.rows : p[k] = z[1]
    BY <1>3, <2>1
  <2>3. q[k] <= z[2] /\ z[2] <= q[k] /\ q[k] \in Nat /\ z[2] \in Nat
    BY <1>1, <1>2, <2>1, <2>2
  <2>4. QED  BY <2>2, <2>3
<1>6. QED  BY <1>4, <1>5

\* They are as many as the rows of the left with a match.
LEMMA JoinedOnce ==
  ASSUME NEW l, Whole(l), NEW r, Whole(r), NEW key,
         NEW t, Whole(t), NEW p, NEW q, JoinedAt(t, l, r, key, p, q)
  PROVE  Len(t.rows) = Cardinality({i \in DOMAIN l.rows : MatchesOf(l, r, key, i) # {}})
<1> DEFINE n == Len(t.rows)
           M == {i \in DOMAIN l.rows : MatchesOf(l, r, key, i) # {}}
<1>1. n \in Nat /\ DOMAIN t.rows = 1 .. n
  BY ListsAreListed DEF Whole, Listed
<1>2. p \in [1 .. n -> DOMAIN l.rows]
  BY <1>1 DEF JoinedAt
<1>3. \A k \in 1 .. n : p[k] \in M
  BY <1>1 DEF JoinedAt, MatchesOf
<1>4. \A i \in M : \E k \in 1 .. n : p[k] = i
  BY <1>1 DEF JoinedAt, MatchesOf
<1>5. \A i, j \in 1 .. n : p[i] = p[j] => i = j
  BY <1>1 DEF JoinedAt
<1> HIDE DEF n, M
<1>6. p \in [1 .. n -> M]
  BY <1>2, <1>3
<1>7. p \in Bijection(1 .. n, M)
  BY <1>4, <1>5, <1>6 DEF Bijection, Injection, Surjection, IsInjective
<1>8. IsFiniteSet(1 .. n) /\ Cardinality(1 .. n) = n
  BY <1>1, FS_Interval
<1>9. Cardinality(M) = n
  BY <1>7, <1>8, FS_Bijection DEF ExistsBijection
<1>10. QED  BY <1>9 DEF n, M

\* Two results with one column in common are joined by it: a row of the left is
\* there once, with the last of its matches, if it has one, and nothing else is.
THEOREM JoinsCorrect ==
  ASSUME NEW l, Whole(l), NEW r, Whole(r)
  PROVE  JoinTakesLast(l, r) /\ Rectangular(Join(l, r))
<1> DEFINE key == JoinKey(l.cols, r.cols)
           S == ToSet(l.cols) \cap ToSet(r.cols)
           t == Join(l, r)
           x(i) == Named(l, l.rows[i])
           y(j) == Named(r, r.rows[j])
<1>1. Rectangular(t)
  BY JoinIsWhole DEF Whole, Rectangular
<1>2. ASSUME l.rows # <<>>, r.rows # <<>>, Cardinality(S) = 1
      PROVE  /\ RowsOf(t) = {Merged(x(z[1]), y(z[2])) : z \in LastMatches(l, r, key)}
             /\ Len(t.rows) = Cardinality({i \in DOMAIN l.rows : MatchesOf(l, r, key, i) # {}})
  <2>1. PICK k : S = {k}
    <3>1. IsFiniteSet(ToSet(l.cols))
      BY ColumnsAreFinite DEF Whole
    <3>2. IsFiniteSet(S)
      BY <3>1, FS_Subset
    <3> HIDE DEF S
    <3>3. QED  BY <1>2, <3>2, FS_Singleton
  <2>2. OneShared(l, r, k)
    BY <2>1 DEF OneShared
  <2>3. t = JoinedBy(l, r, k) /\ key = k
    BY <1>2, <2>2, JoinedByShared
  <2> HIDE DEF key, t
  <2>4. OneShared(l, r, key) /\ t = JoinedBy(l, r, key)
    BY <2>2, <2>3
  <2>5. /\ Whole(t) /\ ToSet(t.cols) = ToSet(l.cols) \cup ToSet(r.cols)
        /\ \E p, q : JoinedAt(t, l, r, key, p, q)
    BY <2>4, JoinedByIs
  <2>6. PICK p, q : JoinedAt(t, l, r, key, p, q)
    BY <2>5
  <2>7. RowsOf(t) = {Named(t, t.rows[i]) : i \in DOMAIN t.rows}
    BY DEF RowsOf
  <2>8. \A i \in DOMAIN t.rows : Named(t, t.rows[i]) = Merged(x(p[i]), y(q[i]))
    BY <2>4, <2>5, <2>6, RowsMerged
  <2> HIDE DEF x, y
  <2>9. /\ \A i \in DOMAIN t.rows : <<p[i], q[i]>> \in LastMatches(l, r, key)
        /\ \A z \in LastMatches(l, r, key) : \E i \in DOMAIN t.rows : p[i] = z[1] /\ q[i] = z[2]
    BY <2>6, JoinedAreLast
  <2>10. \A i \in DOMAIN t.rows : \E z \in LastMatches(l, r, key) :
            Named(t, t.rows[i]) = Merged(x(z[1]), y(z[2]))
    <3> TAKE i \in DOMAIN t.rows
    <3> DEFINE z == <<p[i], q[i]>>
    <3>1. z[1] = p[i] /\ z[2] = q[i] /\ z \in LastMatches(l, r, key)
      BY <2>9
    <3> HIDE DEF z
    <3>2. QED  BY <2>8, <3>1
  <2>11. \A z \in LastMatches(l, r, key) : \E i \in DOMAIN t.rows :
            Named(t, t.rows[i]) = Merged(x(z[1]), y(z[2]))
    BY <2>8, <2>9
  <2>12. RowsOf(t) = {Merged(x(z[1]), y(z[2])) : z \in LastMatches(l, r, key)}
    BY <2>7, <2>10, <2>11
  <2>13. QED  BY <2>5, <2>6, <2>12, JoinedOnce
<1>3. JoinTakesLast(l, r)
  BY <1>2, Zenon DEF JoinTakesLast, Merged, LastMatches, MatchesOf, key, t
<1>4. QED  BY <1>1, <1>3

-----------------------------------------------------------------------------
(* The pivot                                                                 *)

\* What a table becomes whose column "at" is pivoted.
DimsOf(dims, row) == [i \in DOMAIN dims |-> row[dims[i]]]
KeysOf(t, dims) == WithoutRepeats([k \in DOMAIN t.rows |-> DimsOf(dims, t.rows[k])])
LabelsOf(t, at) == WithoutRepeats([k \in DOMAIN t.rows |-> t.rows[k][at]])
WideOf(labels, vals) ==
    FlattenSeq([j \in DOMAIN labels |-> [v \in DOMAIN vals |-> <<labels[j], vals[v]>>]])
RowsWith(t, at, dims, k, w) ==
    {i \in 1 .. Len(t.rows) : DimsOf(dims, t.rows[i]) = k /\ Label(t.rows[i][at]) = Label(w[1])}
CellWith(t, at, dims, k, w) ==
    LET i == LastOf(RowsWith(t, at, dims, k, w)) IN IF i = 0 THEN Null ELSE t.rows[i][w[2]]
DimColumns(t, dims) == [i \in DOMAIN dims |-> t.cols[dims[i]]]
WideColumns(t, wide) == [j \in DOMAIN wide |-> <<Label(wide[j][1])>> \o t.cols[wide[j][2]]]
WideCells(t, at, dims, k, wide) == [j \in DOMAIN wide |-> CellWith(t, at, dims, k, wide[j])]
Pivoted(t, at, dims, keys, wide) ==
    [cols |-> DimColumns(t, dims) \o WideColumns(t, wide),
     rows |-> [k \in DOMAIN keys |-> keys[k] \o WideCells(t, at, dims, keys[k], wide)]]

\* A pivot is that, of the first column the hint names.
LEMMA PivotIs ==
  ASSUME NEW t, NEW hint, t.rows # <<>>, PivotAt(t, hint) # {}
  PROVE  LET at == CHOOSE i \in PivotAt(t, hint) : \A j \in PivotAt(t, hint) : i <= j
             vals == Places(t, ValuesAt(t, at))
             dims == Places(t, DOMAIN t.cols \ (ToSet(vals) \cup {at}))
         IN Pivot(t, hint) =
              Pivoted(t, at, dims, KeysOf(t, dims), WideOf(LabelsOf(t, at), vals))
<1> DEFINE at == CHOOSE i \in PivotAt(t, hint) : \A j \in PivotAt(t, hint) : i <= j
           vals == Places(t, ValuesAt(t, at))
           dims == Places(t, DOMAIN t.cols \ (ToSet(vals) \cup {at}))
           keys == KeysOf(t, dims)
           wide == WideOf(LabelsOf(t, at), vals)
<1>1. \A k, w : CellWith(t, at, dims, k, w) =
         LET i == SelectLastInSeq(t.rows, LAMBDA row :
                     DimsOf(dims, row) = k /\ Label(row[at]) = Label(w[1]))
         IN IF i = 0 THEN Null ELSE t.rows[i][w[2]]
  BY DEF CellWith, LastOf, RowsWith, SelectLastInSeq
<1>2. Pivot(t, hint) = Pivoted(t, at, dims, keys, wide)
  BY Zenon DEF Pivot, Pivoted, KeysOf, DimsOf, LabelsOf, WideOf, DimColumns, WideColumns,
     WideCells, CellWith, LastOf, RowsWith, SelectLastInSeq
<1>3. QED  BY <1>2

\* A list of some places.
ArePlaces(w, is) ==
    /\ Listed(w) /\ Len(w) \in Nat /\ DOMAIN w = 1 .. Len(w)
    /\ \A k \in DOMAIN w : w[k] \in is
    /\ \A d \in is : \E k \in DOMAIN w : w[k] = d

\* The places of some columns are listed.
LEMMA PlacesAre ==
  ASSUME NEW t, Listed(t.cols), NEW is \in SUBSET DOMAIN t.cols
  PROVE  ToSet(Places(t, is)) = is /\ ArePlaces(Places(t, is), is)
<1> DEFINE id == [i \in DOMAIN t.cols |-> i]
           I == {i \in DOMAIN id : id[i] \in is}
           w == Kept(id, I)
           n == Len(t.cols)
<1>1. n \in Nat /\ DOMAIN t.cols = 1 .. n
  BY ListsAreListed DEF Listed
<1>2. DOMAIN id = 1 .. n /\ id = [i \in 1 .. n |-> id[i]]
  BY <1>1
<1>3. I = is /\ {id[i] : i \in I} = is /\ I \in SUBSET DOMAIN id
  OBVIOUS
<1>4. Places(t, is) = w
  BY DEF Places, Where
<1> HIDE DEF id, n
<1>5. Listed(id)
  BY <1>1, <1>2, ListedIs
<1> HIDE DEF I
<1>6. Listed(w) /\ ToSet(w) = {id[i] : i \in I} /\ Len(w) = Cardinality(I) /\ Len(w) \in Nat
      /\ DOMAIN w = 1 .. Len(w)
  BY <1>3, <1>5, ListedKept
<1> HIDE DEF w
<1>7. ToSet(w) = is
  BY <1>3, <1>6
<1>8. /\ \A k \in DOMAIN w : w[k] \in is
      /\ \A d \in is : \E k \in DOMAIN w : w[k] = d
  BY <1>7 DEF ToSet
<1>9. ArePlaces(w, is)
  BY <1>6, <1>8, Zenon DEF ArePlaces
<1>10. QED  BY <1>4, <1>7, <1>9

\* The wide columns: one for each label and each value column.
AreWide(wide, labels, vals) ==
    \A j \in DOMAIN labels, v \in DOMAIN vals :
        \E m \in DOMAIN wide : wide[m] = <<labels[j], vals[v]>>

\* They are that.
LEMMA WideIs ==
  ASSUME NEW A, NEW labels \in Seq(A), NEW B, NEW vals \in Seq(B)
  PROVE  WideOf(labels, vals) \in Seq(A \X B) /\ AreWide(WideOf(labels, vals), labels, vals)
<1> DEFINE ss == [j \in DOMAIN labels |-> [v \in DOMAIN vals |-> <<labels[j], vals[v]>>]]
           all == FlattenSeq(ss)
           n == Len(labels)
           T == A \X B
<1>1. n \in Nat /\ DOMAIN labels = 1 .. n /\ DOMAIN vals = 1 .. Len(vals) /\ Len(vals) \in Nat
      /\ (\A j \in DOMAIN labels : labels[j] \in A) /\ (\A v \in DOMAIN vals : vals[v] \in B)
  BY PlacesOf
<1>2. \A j \in 1 .. n : ss[j] \in Seq(T) /\ Len(ss[j]) = Len(vals)
                        /\ \A v \in 1 .. Len(vals) : ss[j][v] = <<labels[j], vals[v]>>
  <2> TAKE j \in 1 .. n
  <2> DEFINE f == [v \in 1 .. Len(vals) |-> <<labels[j], vals[v]>>]
             m == Len(vals)
  <2>1. f \in [1 .. m -> T] /\ m \in Nat
    BY <1>1
  <2>2. ss[j] = f
    BY <1>1
  <2> HIDE DEF T, m
  <2>3. f \in Seq(T) /\ Len(f) = m
    BY <2>1, ListOf
  <2>4. \A v \in 1 .. Len(vals) : f[v] = <<labels[j], vals[v]>>
    OBVIOUS
  <2> HIDE DEF ss, f
  <2>5. QED  BY <2>2, <2>3, <2>4 DEF m
<1>3. ss \in Seq(Seq(T)) /\ Len(ss) = n /\ DOMAIN ss = 1 .. n
  <2> DEFINE X == Seq(T)
  <2>1. ss \in [1 .. n -> X]
    <3> HIDE DEF X
    <3>1. DOMAIN ss = 1 .. n /\ ss = [j \in 1 .. n |-> ss[j]]
      BY <1>1
    <3>2. \A j \in 1 .. n : ss[j] \in X
      BY <1>2 DEF X
    <3> HIDE DEF ss
    <3>3. QED  BY <3>1, <3>2
  <2> HIDE DEF X, ss, n
  <2>2. ss \in Seq(X) /\ Len(ss) = n /\ DOMAIN ss = 1 .. n
    BY <1>1, <2>1, ListOf
  <2>3. QED  BY <2>2 DEF X
<1> HIDE DEF ss, n, T
<1>4. all \in Seq(T) /\ \E c : Cuts(c, ss, all)
  BY <1>3, FlattenOf
<1>5. PICK c : Cuts(c, ss, all)
  BY <1>4
<1> HIDE DEF all
<1>6. \A i, j \in 0 .. n : i <= j => c[i] <= c[j]
  BY <1>3, <1>4, <1>5, CutsCover
<1>7. /\ c \in [0 .. n -> Nat] /\ c[n] = Len(all)
      /\ \A i \in 1 .. n : c[i] = c[i - 1] + Len(ss[i])
      /\ \A i \in 1 .. n : \A k \in 1 .. Len(ss[i]) : all[c[i - 1] + k] = ss[i][k]
  BY <1>3, <1>5 DEF Cuts
<1>8. ASSUME NEW j \in DOMAIN labels, NEW v \in DOMAIN vals
      PROVE  \E m \in DOMAIN all : all[m] = <<labels[j], vals[v]>>
  <2>1. j \in 1 .. n /\ j \in 0 .. n /\ j - 1 \in 0 .. n /\ n \in 0 .. n /\ j <= n
        /\ v \in 1 .. Len(vals) /\ v \in Nat
    BY <1>1
  <2>2. ss[j][v] = <<labels[j], vals[v]>> /\ Len(ss[j]) = Len(vals)
    BY <1>2, <2>1
  <2>3. all[c[j - 1] + v] = ss[j][v]
    BY <1>7, <2>1, <2>2
  <2> DEFINE a == c[j - 1]
             b == c[j]
             z == c[n]
             u == Len(vals)
  <2>4. a \in Nat /\ b \in Nat /\ z \in Nat /\ b = a + u /\ b <= z /\ u \in Nat
    BY <1>1, <1>6, <1>7, <2>1, <2>2
  <2>5. Len(all) = z /\ DOMAIN all = 1 .. z
    BY <1>4, <1>7, PlacesOf
  <2>6. v \in 1 .. u
    BY <2>1
  <2> HIDE DEF a, b, z, u
  <2>7. a + v \in DOMAIN all
    BY <2>4, <2>5, <2>6
  <2>8. all[a + v] = <<labels[j], vals[v]>>
    BY <2>2, <2>3 DEF a
  <2>9. QED  BY <2>7, <2>8
<1>9. WideOf(labels, vals) = all
  BY DEF WideOf, all, ss
<1>10. AreWide(all, labels, vals)
  BY <1>8, Zenon DEF AreWide
<1>11. QED  BY <1>4, <1>9, <1>10 DEF T

\* The first elements of two lists, one behind the other.
LEMMA FirstsJoined ==
  ASSUME NEW a, Listed(a), 1 \in DOMAIN a, NEW p, Listed(p), 1 \in DOMAIN p
  PROVE  /\ Listed(a \o p) /\ Len(a \o p) = Len(a) + Len(p)
         /\ (a \o p)[1] = a[1] /\ (a \o p)[Len(a) + 1] = p[1]
<1> DEFINE T == ToSet(a) \cup ToSet(p)
<1>1. a \in Seq(T) /\ p \in Seq(T)
  <2>1. a \in Seq(ToSet(a)) /\ p \in Seq(ToSet(p))
    BY DEF Listed
  <2>2. QED  BY <2>1
<1> HIDE DEF T
<1>2. a \o p \in Seq(T) /\ Len(a \o p) = Len(a) + Len(p)
      /\ (\A i \in DOMAIN a : (a \o p)[i] = a[i])
      /\ \A j \in DOMAIN p : (a \o p)[Len(a) + j] = p[j]
  BY <1>1, JoinedLists
<1>3. QED  BY <1>2, ListsAreListed

\* A word in front of a name of one word.
LEMMA FrontedWord ==
  ASSUME NEW a, Listed(a), Len(a) = 1, NEW p, Listed(p), Len(p) = 1
  PROVE  /\ Listed(a \o p) /\ Len(a \o p) = 2 /\ DOMAIN p = 1 .. 1
         /\ (a \o p)[1] = a[1] /\ (a \o p)[2] = p[1]
<1>1. DOMAIN a = 1 .. Len(a) /\ DOMAIN p = 1 .. Len(p)
  BY ListsAreListed DEF Listed
<1>2. 1 \in DOMAIN a /\ 1 \in DOMAIN p
  BY <1>1
<1>3. /\ Listed(a \o p) /\ Len(a \o p) = Len(a) + Len(p)
      /\ (a \o p)[1] = a[1] /\ (a \o p)[Len(a) + 1] = p[1]
  BY <1>2, FirstsJoined
<1>4. QED  BY <1>1, <1>3

\* A name of one word, and names that are the same with a word in front.
OneWord(p) == Listed(p) /\ Len(p) = 1
SameFronted(x, p, y, q) == <<x>> \o p = <<y>> \o q => x = y /\ p = q

\* A name with a word in front tells the word and the name.
LEMMA Fronted ==
  ASSUME NEW x, NEW p, OneWord(p), NEW y, NEW q, OneWord(q)
  PROVE  Listed(<<x>> \o p) /\ Len(<<x>> \o p) = 2 /\ SameFronted(x, p, y, q)
<1>0. Listed(p) /\ Len(p) = 1 /\ Listed(q) /\ Len(q) = 1
  BY DEF OneWord
<1>1. Listed(<<x>>) /\ Listed(<<y>>) /\ Len(<<x>>) = 1 /\ Len(<<y>>) = 1
      /\ DOMAIN <<x>> = 1 .. 1 /\ DOMAIN <<y>> = 1 .. 1
  <2>1. \A z : <<z>> \in Seq({z}) /\ Len(<<z>>) = 1 /\ DOMAIN <<z>> = 1 .. 1
    OBVIOUS
  <2>2. QED  BY <2>1, ListsAreListed
<1> DEFINE a == <<x>>
           b == <<y>>
<1>2. a[1] = x /\ b[1] = y /\ Listed(a) /\ Listed(b) /\ Len(a) = 1 /\ Len(b) = 1
      /\ DOMAIN a = 1 .. 1 /\ DOMAIN b = 1 .. 1
  BY <1>1
<1> HIDE DEF a, b
<1>3. /\ Listed(a \o p) /\ Len(a \o p) = 2 /\ DOMAIN p = 1 .. 1
      /\ (a \o p)[1] = x /\ (a \o p)[2] = p[1]
  BY <1>0, <1>2, FrontedWord
<1>4. DOMAIN q = 1 .. 1 /\ (b \o q)[1] = y /\ (b \o q)[2] = q[1]
  BY <1>0, <1>2, FrontedWord
<1>5. p = [i \in DOMAIN p |-> p[i]] /\ q = [i \in DOMAIN q |-> q[i]]
  <2>1. p \in Seq(ToSet(p)) /\ q \in Seq(ToSet(q))
    BY <1>0 DEF Listed
  <2>2. QED  BY <2>1
<1>6. ASSUME a \o p = b \o q PROVE x = y /\ p = q
  <2>1. x = y /\ p[1] = q[1]
    BY <1>3, <1>4, <1>6
  <2>2. \A i \in 1 .. 1 : p[i] = q[i]
    BY <2>1
  <2>3. p = q
    BY <1>3, <1>4, <1>5, <2>2
  <2>4. QED  BY <2>1, <2>3
<1>7. QED  BY <1>3, <1>6 DEF a, b, SameFronted

\* The columns of a pivot: the dimensions, then the wide ones.
AreHeads(t, dims, wide) ==
    /\ Listed(DimColumns(t, dims)) /\ Len(DimColumns(t, dims)) = Len(dims)
    /\ \A i \in DOMAIN dims : /\ DimColumns(t, dims)[i] = t.cols[dims[i]]
                              /\ Len(DimColumns(t, dims)[i]) = 1
    /\ Listed(WideColumns(t, wide)) /\ Len(WideColumns(t, wide)) = Len(wide)
    /\ \A j \in DOMAIN wide :
          /\ wide[j][2] \in DOMAIN t.cols
          /\ WideColumns(t, wide)[j] = <<Label(wide[j][1])>> \o t.cols[wide[j][2]]
          /\ Len(WideColumns(t, wide)[j]) = 2

\* They have one word, and two.
LEMMA PivotColumns ==
  ASSUME NEW t, IsResult(t), NEW dims, NEW D \in SUBSET DOMAIN t.cols, ArePlaces(dims, D),
         NEW A, NEW wide \in Seq(A \X DOMAIN t.cols)
  PROVE  AreHeads(t, dims, wide)
<1> DEFINE a == DimColumns(t, dims)
           b == WideColumns(t, wide)
           n == Len(dims)
           m == Len(wide)
<1>1. n \in Nat /\ DOMAIN dims = 1 .. n /\ \A i \in DOMAIN dims : dims[i] \in DOMAIN t.cols
  BY DEF ArePlaces
<1>2. m \in Nat /\ DOMAIN wide = 1 .. m /\ \A j \in DOMAIN wide : wide[j] \in A \X DOMAIN t.cols
  <2> DEFINE T == A \X DOMAIN t.cols
  <2>1. wide \in Seq(T)
    OBVIOUS
  <2> HIDE DEF T
  <2>2. m \in Nat /\ DOMAIN wide = 1 .. m /\ \A j \in DOMAIN wide : wide[j] \in T
    BY <2>1, PlacesOf
  <2>3. QED  BY <2>2 DEF T
<1>3. \A j \in DOMAIN wide : wide[j][2] \in DOMAIN t.cols
  BY <1>2
<1>4. \A i \in DOMAIN t.cols : Listed(t.cols[i]) /\ Len(t.cols[i]) = 1
  <2>1. t.cols \in Seq(Seq(STRING)) /\ \A i \in DOMAIN t.cols : Len(t.cols[i]) = 1
    BY DEF IsResult
  <2>2. \A i \in DOMAIN t.cols : t.cols[i] \in Seq(STRING)
    BY <2>1
  <2>3. QED  BY <2>1, <2>2, ListsAreListed
<1>5. DOMAIN a = 1 .. n /\ a = [i \in 1 .. n |-> a[i]] /\ \A i \in DOMAIN dims : a[i] = t.cols[dims[i]]
  BY <1>1 DEF DimColumns
<1>6. DOMAIN b = 1 .. m /\ b = [j \in 1 .. m |-> b[j]]
      /\ \A j \in DOMAIN wide : b[j] = <<Label(wide[j][1])>> \o t.cols[wide[j][2]]
  BY <1>2 DEF WideColumns
<1>7. \A j \in DOMAIN wide : Len(b[j]) = 2
  <2> TAKE j \in DOMAIN wide
  <2> DEFINE x == Label(wide[j][1])
             p == t.cols[wide[j][2]]
  <2>1. OneWord(p)
    BY <1>3, <1>4 DEF OneWord
  <2>2. b[j] = <<x>> \o p
    BY <1>6
  <2> HIDE DEF x, p
  <2>3. Len(<<x>> \o p) = 2
    BY <2>1, Fronted
  <2>4. QED  BY <2>2, <2>3
<1> HIDE DEF a, b, n, m
<1>8. Listed(a) /\ Len(a) = n
  BY <1>1, <1>5, ListedIs
<1>9. Listed(b) /\ Len(b) = m
  BY <1>2, <1>6, ListedIs
<1>10. \A i \in DOMAIN dims : Len(a[i]) = 1
  BY <1>1, <1>4, <1>5
<1>11. QED  BY <1>3, <1>5, <1>6, <1>7, <1>8, <1>9, <1>10 DEF a, b, n, m, AreHeads

\* The rows of a pivot: one for each key, with a cell for every column.
AreCells(t, at, dims, keys, wide) ==
    /\ Whole(Pivoted(t, at, dims, keys, wide))
    /\ \A i \in DOMAIN t.rows : \E k \in DOMAIN keys : keys[k] = DimsOf(dims, t.rows[i])
    /\ \A k \in DOMAIN keys : /\ Listed(keys[k]) /\ Len(keys[k]) = Len(dims)
                              /\ Listed(WideCells(t, at, dims, keys[k], wide))
                              /\ Len(WideCells(t, at, dims, keys[k], wide)) = Len(wide)

\* They are that.
LEMMA PivotedIsWhole ==
  ASSUME NEW t, IsResult(t), NEW at, NEW dims, NEW D \in SUBSET DOMAIN t.cols, ArePlaces(dims, D),
         NEW A, NEW wide \in Seq(A \X DOMAIN t.cols)
  PROVE  AreCells(t, at, dims, KeysOf(t, dims), wide)
<1> DEFINE s == [k \in DOMAIN t.rows |-> DimsOf(dims, t.rows[k])]
           K == ToSet(s)
           keys == KeysOf(t, dims)
           P == Pivoted(t, at, dims, keys, wide)
           n == Len(dims)
           m == Len(wide)
           N == Len(t.rows)
           cells(k) == WideCells(t, at, dims, keys[k], wide)
           cols == DimColumns(t, dims) \o WideColumns(t, wide)
           body == [k \in DOMAIN keys |-> keys[k] \o cells(k)]
<1>1. N \in Nat /\ DOMAIN t.rows = 1 .. N
  BY PlacesOf DEF IsResult
<1>2. n \in Nat /\ DOMAIN dims = 1 .. n
  BY DEF ArePlaces
<1>3. m \in Nat /\ DOMAIN wide = 1 .. m
  BY PlacesOf
<1>4. Listed(s) /\ DOMAIN s = DOMAIN t.rows
  <2>1. DOMAIN s = 1 .. N /\ s = [k \in 1 .. N |-> s[k]]
    BY <1>1
  <2> HIDE DEF s, N
  <2>2. QED  BY <1>1, <2>1, ListedIs
<1>5. keys = WithoutRepeats(s)
  BY DEF KeysOf
<1>6. \A k \in DOMAIN s : s[k] = DimsOf(dims, t.rows[k])
  OBVIOUS
<1> HIDE DEF s, keys
<1>7. keys \in Seq(K) /\ ToSet(keys) = K
  <2>1. s \in Seq(K)
    BY <1>4 DEF Listed
  <2> HIDE DEF K
  <2>2. WithoutRepeats(s) \in Seq(K) /\ ToSet(WithoutRepeats(s)) = ToSet(s)
    BY <2>1, FirstsOf
  <2>3. QED  BY <1>5, <2>2 DEF K
<1>8. ASSUME NEW i \in DOMAIN t.rows
      PROVE  \E k \in DOMAIN keys : keys[k] = DimsOf(dims, t.rows[i])
  <2>1. s[i] \in ToSet(keys)
    BY <1>4, <1>7 DEF ToSet
  <2>2. QED  BY <1>4, <1>6, <2>1 DEF ToSet
<1> DEFINE c == Len(keys)
<1>9. c \in Nat /\ DOMAIN keys = 1 .. c /\ Listed(keys)
  BY <1>7, ListsAreListed
<1>10. ASSUME NEW k \in DOMAIN keys PROVE Listed(keys[k]) /\ Len(keys[k]) = n
  <2>1. keys[k] \in ToSet(keys)
    BY DEF ToSet
  <2>2. PICK i \in DOMAIN s : s[i] = keys[k]
    BY <1>7, <2>1 DEF ToSet
  <2>3. keys[k] = [j \in 1 .. n |-> t.rows[i][dims[j]]]
    BY <1>2, <1>6, <2>2 DEF DimsOf
  <2> DEFINE f == keys[k]
  <2>4. DOMAIN f = 1 .. n /\ f = [j \in 1 .. n |-> f[j]]
    BY <2>3
  <2> HIDE DEF f, n
  <2>5. Listed(f) /\ Len(f) = n
    BY <1>2, <2>4, ListedIs
  <2>6. QED  BY <2>5 DEF f
<1>11. ASSUME NEW k PROVE Listed(cells(k)) /\ Len(cells(k)) = m
  <2> DEFINE f == cells(k)
  <2>1. DOMAIN f = 1 .. m /\ f = [j \in 1 .. m |-> f[j]]
    BY <1>3 DEF WideCells
  <2> HIDE DEF f, m
  <2>2. Listed(f) /\ Len(f) = m
    BY <1>3, <2>1, ListedIs
  <2>3. QED  BY <2>2 DEF f
<1> HIDE DEF cells
<1>12. \A k \in DOMAIN keys :
          Listed(keys[k] \o cells(k)) /\ Len(keys[k] \o cells(k)) = Len(keys[k]) + Len(cells(k))
  <2> HIDE DEF n, m
  <2>1. \A k \in DOMAIN keys : Listed(keys[k]) /\ Listed(cells(k))
    BY <1>10, <1>11
  <2>2. QED  BY <2>1, ListedJoined
<1>13. Listed(cols) /\ Len(cols) = n + m
  <2> DEFINE a == DimColumns(t, dims)
             b == WideColumns(t, wide)
  <2>1. Listed(a) /\ Listed(b) /\ Len(a) = n /\ Len(b) = m
    <3>1. AreHeads(t, dims, wide)
      BY PivotColumns
    <3>2. QED  BY <3>1 DEF AreHeads
  <2>2. Listed(a) /\ Listed(b)
    BY <2>1
  <2> HIDE DEF a, b, n, m
  <2>3. Listed(a \o b) /\ Len(a \o b) = Len(a) + Len(b)
    BY <2>2, ListedJoined
  <2>4. QED  BY <2>1, <2>3 DEF a, b
<1>14. Listed(body) /\ DOMAIN body = DOMAIN keys
  <2>1. DOMAIN body = 1 .. c /\ body = [k \in 1 .. c |-> body[k]]
    BY <1>9
  <2> HIDE DEF body, c
  <2>2. QED  BY <1>9, <2>1, ListedIs
<1>15. \A k \in DOMAIN keys : Listed(body[k]) /\ Len(body[k]) = Len(cols)
  BY <1>10, <1>11, <1>12, <1>13
<1>16. P.cols = cols /\ P.rows = body
  BY DEF Pivoted, cells
<1> HIDE DEF P, cols, body
<1>17. Whole(P)
  BY <1>13, <1>14, <1>15, <1>16 DEF Whole
<1>18. QED  BY <1>8, <1>10, <1>11, <1>17 DEF keys, P, cells, AreCells

\* No later row of a table has the dimensions and the label of the i-th.
LastOfItsKind(t, at, D, i) ==
    \A j \in DOMAIN t.rows : i < j =>
        \/ \E d \in D : t.rows[i][d] # t.rows[j][d]
        \/ Label(t.rows[i][at]) # Label(t.rows[j][at])

\* A row of a pivot tells a row of the table.
Tells(row, t, at, V, D, i) ==
    /\ \A d \in D : row[t.cols[d]] = t.rows[i][d]
    /\ \A v \in V : row[<<Label(t.rows[i][at])>> \o t.cols[v]] = t.rows[i][v]

\* The k-th row of a pivot is that of a row of the table, the m-th wide column
\* that of a label and a column, and what a pivot tells.
IsRowOf(keys, k, dims, t, i) == k \in DOMAIN keys /\ keys[k] = DimsOf(dims, t.rows[i])
IsColumnOf(wide, m, x, v) == m \in DOMAIN wide /\ wide[m] = <<x, v>>
Shows(P, k, c, x) == c \in ToSet(P.cols) /\ Cell(P, P.rows[k], c) = x

\* Where a dimension is in the columns of a pivot, and what its cell is.
LEMMA DimensionIsTold ==
  ASSUME NEW t, IsResult(t), NEW at, NEW dims, NEW D \in SUBSET DOMAIN t.cols, ArePlaces(dims, D),
         NEW keys, NEW wide, AreHeads(t, dims, wide), AreCells(t, at, dims, keys, wide),
         NEW i \in DOMAIN t.rows, NEW k, IsRowOf(keys, k, dims, t, i),
         NEW d \in D
  PROVE  Shows(Pivoted(t, at, dims, keys, wide), k, t.cols[d], t.rows[i][d])
<1> DEFINE a == DimColumns(t, dims)
           b == WideColumns(t, wide)
           u == keys[k]
           w == WideCells(t, at, dims, keys[k], wide)
           P == Pivoted(t, at, dims, keys, wide)
           n == Len(dims)
           x == PlaceOf(a \o b, t.cols[d])
<1>0. k \in DOMAIN keys /\ keys[k] = DimsOf(dims, t.rows[i])
  BY DEF IsRowOf
<1>1. PICK e \in DOMAIN dims : dims[e] = d
  BY DEF ArePlaces
<1>2. n \in Nat /\ DOMAIN dims = 1 .. n /\ \A e1 \in DOMAIN dims : dims[e1] \in D
  BY DEF ArePlaces
<1>3. Listed(a) /\ Len(a) = n /\ Listed(b) /\ \A e1 \in DOMAIN dims : a[e1] = t.cols[dims[e1]]
  BY DEF AreHeads
<1>4. Listed(u) /\ Len(u) = n /\ Listed(w)
  BY <1>0 DEF AreCells
<1>5. P.cols = a \o b /\ P.rows[k] = u \o w
  BY <1>0 DEF Pivoted
<1>6. u = [e1 \in DOMAIN dims |-> t.rows[i][dims[e1]]]
  BY <1>0 DEF DimsOf
<1> HIDE DEF a, b, u, w, P
<1>7. /\ DOMAIN a = 1 .. n /\ (\A e1 \in DOMAIN a : (a \o b)[e1] = a[e1])
      /\ Listed(a \o b) /\ DOMAIN (a \o b) = 1 .. Len(a) + Len(b) /\ Len(b) \in Nat
  <2> HIDE DEF n
  <2>1. /\ DOMAIN a = 1 .. Len(a) /\ (\A e1 \in DOMAIN a : (a \o b)[e1] = a[e1])
        /\ Listed(a \o b) /\ DOMAIN (a \o b) = 1 .. Len(a) + Len(b) /\ Len(b) \in Nat
    <3>1. Listed(a) /\ Listed(b)
      BY <1>3
    <3>2. QED  BY <3>1, ListedJoined, ListsAreListed DEF Behind, Listed
  <2>2. QED  BY <1>3, <2>1
<1>8. \A e1 \in 1 .. n : (u \o w)[e1] = u[e1]
  <2> HIDE DEF n
  <2>1. DOMAIN u = 1 .. Len(u) /\ \A e1 \in DOMAIN u : (u \o w)[e1] = u[e1]
    <3>1. Listed(u) /\ Listed(w)
      BY <1>4
    <3>2. QED  BY <3>1, ListedJoined, ListsAreListed DEF Behind, Listed
  <2>2. QED  BY <1>4, <2>1
<1>9. e \in DOMAIN a /\ e \in DOMAIN (a \o b) /\ (a \o b)[e] = t.cols[d]
  BY <1>1, <1>2, <1>3, <1>7
<1>10. t.cols[d] \in ToSet(a \o b)
  BY <1>9 DEF ToSet
<1>11. x \in DOMAIN (a \o b) /\ (a \o b)[x] = t.cols[d] /\ x <= e
  <2> DEFINE T == ToSet(a \o b)
             s == a \o b
  <2>1. s \in Seq(T) /\ t.cols[d] \in ToSet(s)
    BY <1>7, <1>10 DEF Listed
  <2>2. e \in DOMAIN s /\ s[e] = t.cols[d]
    BY <1>9
  <2> HIDE DEF T, s
  <2>3. PlaceOf(s, t.cols[d]) \in DOMAIN s /\ s[PlaceOf(s, t.cols[d])] = t.cols[d]
        /\ PlaceOf(s, t.cols[d]) <= e
    BY <2>1, <2>2, PlaceIs
  <2>4. QED  BY <2>3 DEF s
<1> HIDE DEF x
<1>12. x \in 1 .. n /\ x \in DOMAIN dims
  BY <1>2, <1>3, <1>7, <1>9, <1>11
<1>13. t.cols[dims[x]] = t.cols[d] /\ dims[x] \in DOMAIN t.cols
  BY <1>2, <1>3, <1>7, <1>11, <1>12
<1>14. dims[x] = d
  <2>1. IsInjective(t.cols) /\ d \in DOMAIN t.cols
    BY DEF IsResult
  <2>2. QED  BY <1>13, <2>1 DEF IsInjective
<1>15. (u \o w)[x] = t.rows[i][d]
  <2>1. u[x] = t.rows[i][dims[x]]
    BY <1>6, <1>12
  <2>2. (u \o w)[x] = u[x]
    BY <1>8, <1>12
  <2>3. QED  BY <1>14, <2>1, <2>2
<1>16. Cell(P, P.rows[k], t.cols[d]) = (u \o w)[x]
  BY <1>5 DEF Cell, PlaceOf, x
<1>17. QED  BY <1>5, <1>10, <1>15, <1>16 DEF P, Shows

\* The same of a value.
LEMMA ValueIsTold ==
  ASSUME NEW t, IsResult(t), NEW at, NEW dims, NEW D \in SUBSET DOMAIN t.cols, ArePlaces(dims, D),
         NEW keys, NEW wide, Listed(wide),
         AreHeads(t, dims, wide), AreCells(t, at, dims, keys, wide),
         NEW i \in DOMAIN t.rows, LastOfItsKind(t, at, D, i), NEW k, IsRowOf(keys, k, dims, t, i),
         NEW v \in DOMAIN t.cols, NEW m, IsColumnOf(wide, m, t.rows[i][at], v)
  PROVE  Shows(Pivoted(t, at, dims, keys, wide), k,
               <<Label(t.rows[i][at])>> \o t.cols[v], t.rows[i][v])
<1> DEFINE a == DimColumns(t, dims)
           b == WideColumns(t, wide)
           u == keys[k]
           w == WideCells(t, at, dims, keys[k], wide)
           P == Pivoted(t, at, dims, keys, wide)
           n == Len(dims)
           c == <<Label(t.rows[i][at])>> \o t.cols[v]
           x == PlaceOf(a \o b, c)
           y == x - n
<1>0. k \in DOMAIN keys /\ keys[k] = DimsOf(dims, t.rows[i])
  BY DEF IsRowOf
<1>1. /\ m \in DOMAIN wide /\ wide[m] = <<t.rows[i][at], v>>
      /\ DOMAIN wide = 1 .. Len(wide) /\ Len(wide) \in Nat
  BY ListsAreListed DEF IsColumnOf, Listed
<1>2. n \in Nat /\ DOMAIN dims = 1 .. n
  BY DEF ArePlaces
<1>3. /\ Listed(a) /\ Len(a) = n /\ Listed(b) /\ Len(b) = Len(wide)
      /\ \A e1 \in DOMAIN dims : Len(a[e1]) = 1
      /\ \A j \in DOMAIN wide : /\ wide[j][2] \in DOMAIN t.cols
                                /\ b[j] = <<Label(wide[j][1])>> \o t.cols[wide[j][2]]
                                /\ Len(b[j]) = 2
  BY DEF AreHeads
<1>4. Listed(u) /\ Len(u) = n /\ Listed(w) /\ Len(w) = Len(wide)
  BY <1>0 DEF AreCells
<1>5. P.cols = a \o b /\ P.rows[k] = u \o w
  BY <1>0 DEF Pivoted
<1>6. w = [j \in DOMAIN wide |-> CellWith(t, at, dims, u, wide[j])]
  BY DEF WideCells
<1>7. b[m] = c
  BY <1>1, <1>3
<1>8. Len(c) = 2
  BY <1>1, <1>3, <1>7
<1>9. ASSUME NEW j \in DOMAIN wide, b[j] = c
      PROVE  Label(wide[j][1]) = Label(t.rows[i][at]) /\ wide[j][2] = v
  <2> DEFINE p == t.cols[wide[j][2]]
             q == t.cols[v]
             l1 == Label(wide[j][1])
             l2 == Label(t.rows[i][at])
  <2>1. wide[j][2] \in DOMAIN t.cols /\ <<l1>> \o p = <<l2>> \o q
    BY <1>3, <1>9
  <2>2. /\ IsInjective(t.cols) /\ t.cols \in Seq(Seq(STRING))
        /\ \A e \in DOMAIN t.cols : Len(t.cols[e]) = 1
    BY DEF IsResult
  <2>3. p \in Seq(STRING) /\ q \in Seq(STRING) /\ Len(p) = 1 /\ Len(q) = 1
    BY <2>1, <2>2
  <2>4. OneWord(p) /\ OneWord(q)
    BY <2>3, ListsAreListed DEF OneWord
  <2>5. l1 = l2 /\ p = q
    <3> HIDE DEF p, q, l1, l2
    <3>1. SameFronted(l1, p, l2, q)
      BY <2>4, Fronted
    <3>2. QED  BY <2>1, <3>1 DEF SameFronted
  <2>6. QED  BY <2>1, <2>2, <2>5 DEF IsInjective
<1> HIDE DEF a, b, u, w, P, c
<1>10. /\ DOMAIN a = 1 .. n /\ (\A e1 \in DOMAIN a : (a \o b)[e1] = a[e1])
       /\ Listed(a \o b) /\ DOMAIN (a \o b) = 1 .. n + Len(wide)
       /\ (\A j \in DOMAIN wide : (a \o b)[n + j] = b[j])
  <2> HIDE DEF n
  <2>1. /\ DOMAIN a = 1 .. Len(a) /\ (\A e1 \in DOMAIN a : (a \o b)[e1] = a[e1])
        /\ Listed(a \o b) /\ DOMAIN (a \o b) = 1 .. Len(a) + Len(b) /\ DOMAIN b = 1 .. Len(b)
        /\ (\A j \in DOMAIN b : (a \o b)[Len(a) + j] = b[j])
    <3>1. Listed(a) /\ Listed(b)
      BY <1>3
    <3>2. QED  BY <3>1, ListedJoined, ListsAreListed DEF Behind, Listed
  <2>2. QED  BY <1>3, <2>1
<1>11. \A j \in DOMAIN wide : (u \o w)[n + j] = w[j]
  <2> HIDE DEF n
  <2>1. DOMAIN w = 1 .. Len(w) /\ \A j \in DOMAIN w : (u \o w)[Len(u) + j] = w[j]
    <3>1. Listed(u) /\ Listed(w)
      BY <1>4
    <3>2. QED  BY <3>1, ListedJoined, ListsAreListed DEF Behind, Listed
  <2>2. QED  BY <1>4, <2>1
<1>12. n + m \in DOMAIN (a \o b) /\ (a \o b)[n + m] = c
  <2>1. m \in 1 .. Len(wide) /\ m \in DOMAIN wide /\ Len(wide) \in Nat
    BY <1>1
  <2> HIDE DEF n
  <2>2. n + m \in 1 .. n + Len(wide)
    BY <1>2, <2>1
  <2>3. DOMAIN (a \o b) = 1 .. n + Len(wide)
    BY <1>10
  <2>4. (a \o b)[n + m] = b[m]
    BY <1>10, <2>1
  <2>5. n + m \in DOMAIN (a \o b)
    BY <2>2, <2>3
  <2>6. QED  BY <1>7, <2>4, <2>5
<1>13. c \in ToSet(a \o b)
  BY <1>12 DEF ToSet
<1>14. x \in DOMAIN (a \o b) /\ (a \o b)[x] = c
  <2> DEFINE T == ToSet(a \o b)
             s == a \o b
  <2>1. s \in Seq(T) /\ c \in ToSet(s)
    BY <1>10, <1>13 DEF Listed
  <2> HIDE DEF T, s
  <2>2. PlaceOf(s, c) \in DOMAIN s /\ s[PlaceOf(s, c)] = c
    BY <2>1, PlaceIs
  <2>3. QED  BY <2>2 DEF s
<1> HIDE DEF x, n
<1>15. ~(x \in 1 .. n)
  <2>1. ASSUME x \in 1 .. n PROVE Len(c) = 1
    <3>1. a[x] = c /\ Len(a[x]) = 1
      BY <1>2, <1>3, <1>10, <1>14, <2>1
    <3>2. QED  BY <3>1
  <2>2. Len(c) # 1
    BY <1>8
  <2>3. QED  BY <2>1, <2>2
<1>16. y \in DOMAIN wide /\ x = n + y
  BY <1>1, <1>2, <1>10, <1>14, <1>15
<1> HIDE DEF y
<1>17. b[y] = c
  BY <1>10, <1>14, <1>16
<1>18. Label(wide[y][1]) = Label(t.rows[i][at]) /\ wide[y][2] = v
  BY <1>9, <1>16, <1>17
<1> DEFINE I == RowsWith(t, at, dims, u, wide[y])
<1>19. DOMAIN t.rows = 1 .. Len(t.rows) /\ Len(t.rows) \in Nat
  BY PlacesOf DEF IsResult
<1>20. i \in I
  BY <1>0, <1>18, <1>19 DEF RowsWith, u
<1>21. ASSUME NEW j \in I PROVE ~(i < j)
  <2>1. j \in DOMAIN t.rows /\ DimsOf(dims, t.rows[j]) = DimsOf(dims, t.rows[i])
        /\ Label(t.rows[j][at]) = Label(t.rows[i][at])
    BY <1>0, <1>18, <1>19 DEF RowsWith, u
  <2>2. ASSUME NEW d \in D PROVE t.rows[j][d] = t.rows[i][d]
    <3>1. PICK e \in DOMAIN dims : dims[e] = d
      BY DEF ArePlaces
    <3>2. /\ DimsOf(dims, t.rows[j])[e] = t.rows[j][dims[e]]
          /\ DimsOf(dims, t.rows[i])[e] = t.rows[i][dims[e]]
      BY DEF DimsOf
    <3>3. QED  BY <2>1, <3>1, <3>2
  <2>3. QED  BY <2>1, <2>2 DEF LastOfItsKind
<1>22. LastOf(I) = i
  <2>1. I \in SUBSET (1 .. Len(t.rows))
    BY DEF RowsWith
  <2> HIDE DEF I
  <2>2. LastOf(I) \in I /\ i <= LastOf(I)
    BY <1>19, <1>20, <2>1, LastIs
  <2>3. ~(i < LastOf(I)) /\ i \in Nat /\ LastOf(I) \in Nat
    BY <1>19, <1>20, <1>21, <2>1, <2>2
  <2>4. QED  BY <2>2, <2>3
<1>23. w[y] = t.rows[i][v]
  <2>1. w[y] = CellWith(t, at, dims, u, wide[y])
    BY <1>6, <1>16
  <2>2. i # 0
    BY <1>19
  <2>3. QED  BY <1>18, <1>22, <2>1, <2>2 DEF CellWith
<1>24. (u \o w)[x] = t.rows[i][v]
  BY <1>11, <1>16, <1>23
<1>25. Cell(P, P.rows[k], c) = (u \o w)[x]
  BY <1>5 DEF Cell, PlaceOf, x
<1>26. QED  BY <1>5, <1>13, <1>24, <1>25 DEF P, c, Shows

\* The labels of a pivot are those of its rows.
LEMMA LabelsAre ==
  ASSUME NEW t, DOMAIN t.rows = 1 .. Len(t.rows), Len(t.rows) \in Nat, NEW at
  PROVE  \E L : /\ LabelsOf(t, at) \in Seq(L)
                /\ \A i \in DOMAIN t.rows : \E j \in DOMAIN LabelsOf(t, at) :
                      LabelsOf(t, at)[j] = t.rows[i][at]
<1> DEFINE s == [k \in DOMAIN t.rows |-> t.rows[k][at]]
           w == LabelsOf(t, at)
           L == ToSet(s)
           n == Len(t.rows)
<1>1. DOMAIN s = 1 .. n /\ s = [k \in 1 .. n |-> s[k]] /\ n \in Nat
  OBVIOUS
<1>2. \A i \in DOMAIN t.rows : i \in DOMAIN s /\ s[i] = t.rows[i][at]
  OBVIOUS
<1>3. w = WithoutRepeats(s)
  BY DEF LabelsOf
<1> HIDE DEF s, n, w
<1>4. s \in Seq(L)
  BY <1>1, ListedIs DEF Listed
<1> HIDE DEF L
<1>5. w \in Seq(L) /\ ToSet(w) = ToSet(s)
  BY <1>3, <1>4, FirstsOf
<1>6. ASSUME NEW i \in DOMAIN t.rows PROVE \E j \in DOMAIN w : w[j] = t.rows[i][at]
  <2>1. t.rows[i][at] \in ToSet(w)
    BY <1>2, <1>5 DEF ToSet
  <2>2. QED  BY <2>1 DEF ToSet
<1>7. QED  BY <1>5, <1>6 DEF w

\* A pivot tells the values of each row that is the last of its dimensions and
\* label, and what the table becomes has a cell for every column.
LEMMA PivotedTells ==
  ASSUME NEW t, IsResult(t), NEW at \in DOMAIN t.cols,
         NEW V \in SUBSET DOMAIN t.cols, NEW D \in SUBSET DOMAIN t.cols,
         NEW vals, ArePlaces(vals, V), NEW dims, ArePlaces(dims, D)
  PROVE  LET P == Pivoted(t, at, dims, KeysOf(t, dims), WideOf(LabelsOf(t, at), vals))
         IN /\ Whole(P)
            /\ \A i \in DOMAIN t.rows : LastOfItsKind(t, at, D, i) =>
                 \E row \in RowsOf(P) : Tells(row, t, at, V, D, i)
<1> DEFINE keys == KeysOf(t, dims)
           labels == LabelsOf(t, at)
           wide == WideOf(labels, vals)
           P == Pivoted(t, at, dims, keys, wide)
           C == DOMAIN t.cols
<1>1. DOMAIN t.rows = 1 .. Len(t.rows) /\ Len(t.rows) \in Nat
  BY PlacesOf DEF IsResult
<1>2. PICK L : /\ labels \in Seq(L)
               /\ \A i \in DOMAIN t.rows : \E j \in DOMAIN labels : labels[j] = t.rows[i][at]
  BY <1>1, LabelsAre
<1>3. vals \in Seq(C)
  <2> DEFINE n == Len(vals)
  <2>1. n \in Nat /\ DOMAIN vals = 1 .. n /\ (\A k \in DOMAIN vals : vals[k] \in C) /\ Listed(vals)
    BY DEF ArePlaces
  <2>2. vals = [k \in DOMAIN vals |-> vals[k]]
    BY <2>1 DEF Listed
  <2>3. vals \in [1 .. n -> C]
    <3> HIDE DEF n, C
    <3>1. QED  BY <2>1, <2>2
  <2> HIDE DEF n, C
  <2>4. QED  BY <2>1, <2>3, ListOf
<1> HIDE DEF labels, wide, keys
<1>4. /\ wide \in Seq(L \X C)
      /\ AreWide(wide, labels, vals)
  <2> HIDE DEF C
  <2>1. QED  BY <1>2, <1>3, WideIs DEF wide
<1>5. Listed(wide)
  <2> DEFINE T == L \X C
  <2>1. wide \in Seq(T)
    BY <1>4
  <2> HIDE DEF T
  <2>2. QED  BY <2>1, ListsAreListed
<1>6. AreHeads(t, dims, wide)
  BY <1>4, PivotColumns
<1>7. AreCells(t, at, dims, keys, wide)
  BY <1>4, PivotedIsWhole DEF keys
<1>8. Whole(P) /\ \A i \in DOMAIN t.rows : \E k \in DOMAIN keys : keys[k] = DimsOf(dims, t.rows[i])
  BY <1>7 DEF AreCells
<1>9. DOMAIN P.rows = DOMAIN keys
  BY DEF Pivoted
<1> HIDE DEF P
<1>10. ASSUME NEW i \in DOMAIN t.rows, LastOfItsKind(t, at, D, i)
       PROVE  \E row \in RowsOf(P) : Tells(row, t, at, V, D, i)
  <2>1. PICK k : IsRowOf(keys, k, dims, t, i)
    BY <1>8 DEF IsRowOf
  <2> DEFINE row == Named(P, P.rows[k])
  <2>2. row \in RowsOf(P)
    BY <1>9, <2>1 DEF RowsOf, IsRowOf
  <2>3. \A c \in ToSet(P.cols) : row[c] = Cell(P, P.rows[k], c)
    BY DEF Named
  <2> HIDE DEF row
  <2>4. ASSUME NEW d \in D PROVE row[t.cols[d]] = t.rows[i][d]
    <3>1. Shows(P, k, t.cols[d], t.rows[i][d])
      BY <1>6, <1>7, <2>1, DimensionIsTold DEF P
    <3>2. QED  BY <2>3, <3>1 DEF Shows
  <2>5. ASSUME NEW v \in V PROVE row[<<Label(t.rows[i][at])>> \o t.cols[v]] = t.rows[i][v]
    <3> DEFINE c == <<Label(t.rows[i][at])>> \o t.cols[v]
    <3>1. PICK j \in DOMAIN labels : labels[j] = t.rows[i][at]
      BY <1>2
    <3>2. PICK e \in DOMAIN vals : vals[e] = v
      BY DEF ArePlaces
    <3>3. PICK m \in DOMAIN wide : wide[m] = <<labels[j], vals[e]>>
      BY <1>4 DEF AreWide
    <3>4. IsColumnOf(wide, m, t.rows[i][at], v) /\ v \in DOMAIN t.cols
      BY <3>1, <3>2, <3>3 DEF IsColumnOf
    <3>5. Shows(P, k, c, t.rows[i][v])
      BY <1>5, <1>6, <1>7, <1>10, <2>1, <3>4, ValueIsTold DEF P
    <3> HIDE DEF c
    <3>6. row[c] = t.rows[i][v]
      BY <2>3, <3>5 DEF Shows
    <3>7. QED  BY <3>6 DEF c
  <2>6. Tells(row, t, at, V, D, i)
    BY <2>4, <2>5 DEF Tells
  <2>7. QED  BY <2>2, <2>6
<1>11. QED  BY <1>8, <1>10 DEF P, keys, wide, labels

\* A pivot shows the values of each row that no later one writes over, and every
\* row of it has a cell for every column.
THEOREM PivotsCorrect ==
  ASSUME NEW t, IsResult(t), NEW hint
  PROVE  PivotKeepsLast(t, hint) /\ Whole(Pivot(t, hint))
<1>1. CASE t.rows = <<>> \/ PivotAt(t, hint) = {}
  <2>1. Pivot(t, hint) = t
    BY <1>1, Zenon DEF Pivot
  <2>2. PivotKeepsLast(t, hint)
    BY <1>1, Zenon DEF PivotKeepsLast
  <2>3. QED  BY <2>1, <2>2, ResultsAreWhole
<1>2. CASE t.rows # <<>> /\ PivotAt(t, hint) # {}
  <2> DEFINE at == CHOOSE i \in PivotAt(t, hint) : \A j \in PivotAt(t, hint) : i <= j
             V == ValuesAt(t, at)
             vals == Places(t, V)
             D == DOMAIN t.cols \ (V \cup {at})
             dims == Places(t, D)
             P == Pivoted(t, at, dims, KeysOf(t, dims), WideOf(LabelsOf(t, at), vals))
  <2>1. at \in DOMAIN t.cols
    <3> DEFINE S == PivotAt(t, hint)
    <3>1. S \in SUBSET DOMAIN t.cols /\ DOMAIN t.cols = 1 .. Len(t.cols) /\ Len(t.cols) \in Nat
      BY PlacesOf DEF PivotAt, IsResult
    <3>2. S \in SUBSET Nat /\ S # {}
      BY <1>2, <3>1
    <3> HIDE DEF S
    <3>3. (CHOOSE i \in S : \A j \in S : i <= j) \in S
      BY <3>2, Least
    <3>4. QED  BY <3>1, <3>3 DEF S
  <2> HIDE DEF at
  <2>2. V \in SUBSET DOMAIN t.cols
    BY DEF ValuesAt
  <2> HIDE DEF V
  <2>3. D \in SUBSET DOMAIN t.cols /\ Listed(t.cols)
    BY ResultsAreWhole DEF Whole
  <2> HIDE DEF D
  <2>4. /\ ToSet(vals) = V /\ ArePlaces(vals, V) /\ ArePlaces(dims, D)
    BY <2>2, <2>3, PlacesAre
  <2>5. Pivot(t, hint) = P
    <3>1. dims = Places(t, DOMAIN t.cols \ (ToSet(vals) \cup {at}))
      BY <2>4 DEF D
    <3>2. Pivot(t, hint) =
            Pivoted(t, at, Places(t, DOMAIN t.cols \ (ToSet(vals) \cup {at})),
                    KeysOf(t, Places(t, DOMAIN t.cols \ (ToSet(vals) \cup {at}))),
                    WideOf(LabelsOf(t, at), vals))
      BY <1>2, PivotIs DEF at, V
    <3> HIDE DEF dims
    <3>3. QED  BY <3>1, <3>2
  <2> HIDE DEF vals, dims
  <2>6. /\ Whole(P)
        /\ \A i \in DOMAIN t.rows : LastOfItsKind(t, at, D, i) =>
             \E row \in RowsOf(P) : Tells(row, t, at, V, D, i)
    BY <2>1, <2>2, <2>3, <2>4, PivotedTells
  <2> HIDE DEF P
  <2>7. PivotKeepsLast(t, hint)
    BY <2>5, <2>6, Zenon DEF PivotKeepsLast, LastOfItsKind, Tells, at, V, D
  <2>8. QED  BY <2>5, <2>6, <2>7
<1>3. QED  BY <1>1, <1>2

-----------------------------------------------------------------------------
(* The comparison by day                                                     *)

\* The tables joined one after the other.
Chain(g, ts, n) == g[1] = ts[1] /\ \A i \in 2 .. n : g[i] = Join(g[i - 1], ts[i])

\* Results are joined one after the other.
LEMMA JoinAllIs ==
  ASSUME NEW ts, Listed(ts), ts # <<>>
  PROVE  \E g : Chain(g, ts, Len(ts)) /\ JoinAll(ts) = g[Len(ts)]
<1> DEFINE n == Len(ts)
           next(h, i) == IF i = 1 THEN ts[1] ELSE Join(h[i - 1], ts[i])
           Is(h, m) == h = [i \in 1 .. m |-> next(h, i)]
           S == {m \in Nat : \E h : Is(h, m)}
           g == CHOOSE h : Is(h, n)
<1>1. n \in Nat /\ DOMAIN ts = 1 .. n /\ n # 0
  <2>1. ts \in Seq(ToSet(ts))
    BY DEF Listed
  <2>2. QED  BY <2>1
<1>2. 0 \in S
  <2>1. Is(<<>>, 0)
    OBVIOUS
  <2>2. QED  BY <2>1
<1>3. ASSUME NEW m \in S PROVE m + 1 \in S
  <2>1. m \in Nat /\ m + 1 \in Nat
    OBVIOUS
  <2>2. PICK h : Is(h, m)
    OBVIOUS
  <2> DEFINE k == [i \in 1 .. m + 1 |-> IF i <= m THEN h[i] ELSE next(h, i)]
  <2>3. /\ DOMAIN k = 1 .. m + 1 /\ k = [i \in 1 .. m + 1 |-> k[i]]
        /\ \A i \in 1 .. m : k[i] = h[i]
        /\ k[m + 1] = next(h, m + 1)
    <3> HIDE DEF next
    <3>1. \A i \in 1 .. m : i \in 1 .. m + 1 /\ i <= m
      BY <2>1
    <3>2. m + 1 \in 1 .. m + 1 /\ ~(m + 1 <= m)
      BY <2>1
    <3>3. QED  BY <3>1, <3>2
  <2>4. \A i \in 1 .. m : h[i] = next(h, i)
    <3> HIDE DEF next
    <3>1. QED  BY <2>2
  <2> HIDE DEF k
  <2>5. ASSUME NEW i \in 1 .. m + 1 PROVE k[i] = next(k, i)
    <3>1. CASE i = 1 /\ i <= m
      <4>1. i \in 1 .. m
        BY <2>1, <3>1
      <4>2. QED  BY <2>3, <2>4, <3>1, <4>1
    <3>2. CASE i = 1 /\ ~(i <= m)
      <4>1. i = m + 1
        BY <2>1, <3>2
      <4>2. QED  BY <2>3, <3>2, <4>1
    <3>3. CASE i # 1 /\ i <= m
      <4>1. i \in 1 .. m /\ i - 1 \in 1 .. m
        BY <2>1, <3>3
      <4>2. k[i] = h[i] /\ k[i - 1] = h[i - 1] /\ h[i] = next(h, i)
        BY <2>3, <2>4, <4>1
      <4>3. QED  BY <3>3, <4>2
    <3>4. CASE i # 1 /\ ~(i <= m)
      <4>1. i = m + 1 /\ i - 1 \in 1 .. m
        BY <2>1, <3>4
      <4>2. k[i] = next(h, i) /\ k[i - 1] = h[i - 1]
        BY <2>3, <4>1
      <4>3. QED  BY <3>4, <4>2
    <3>5. QED  BY <3>1, <3>2, <3>3, <3>4
  <2>6. Is(k, m + 1)
    <3> HIDE DEF next
    <3>1. QED  BY <2>3, <2>5
  <2> HIDE DEF Is
  <2>7. QED  BY <2>1, <2>6
<1>4. \E h : Is(h, n)
  <2>1. S \in SUBSET Nat
    OBVIOUS
  <2> HIDE DEF S
  <2>2. \A m \in Nat : m \in S
    BY <1>2, <1>3, <2>1, Induct
  <2> HIDE DEF Is, n
  <2>3. QED  BY <1>1, <2>2 DEF S
<1>5. Is(g, n)
  <2> HIDE DEF Is
  <2>1. QED  BY <1>4
<1>6. JoinAll(ts) = g[n]
  BY <1>1, Zenon DEF JoinAll
<1> HIDE DEF g
<1>7. \A i \in 1 .. n : g[i] = next(g, i)
  <2> HIDE DEF next
  <2>1. QED  BY <1>5
<1>8. Chain(g, ts, n)
  <2>1. 1 \in 1 .. n /\ \A i \in 2 .. n : i \in 1 .. n /\ i # 1
    BY <1>1
  <2>2. QED  BY <1>7, <2>1 DEF Chain
<1>9. QED  BY <1>6, <1>8

\* Whatever results are joined, they become a table.
LEMMA JoinAllIsWhole ==
  ASSUME NEW ts, Listed(ts), ts # <<>>, \A i \in DOMAIN ts : Whole(ts[i])
  PROVE  Whole(JoinAll(ts))
<1> DEFINE n == Len(ts)
<1>1. PICK g : Chain(g, ts, n) /\ JoinAll(ts) = g[n]
  BY JoinAllIs
<1>2. n \in Nat /\ DOMAIN ts = 1 .. n /\ n # 0
  <2>1. ts \in Seq(ToSet(ts))
    BY DEF Listed
  <2>2. QED  BY <2>1
<1> HIDE DEF n
<1> DEFINE S == {m \in Nat : \A i \in 1 .. n : i = m + 1 => Whole(g[i])}
<1>3. 0 \in S
  <2>1. 1 \in 1 .. n /\ g[1] = ts[1]
    BY <1>1, <1>2 DEF Chain
  <2>2. QED  BY <1>2, <2>1
<1>4. ASSUME NEW m \in S PROVE m + 1 \in S
  <2>1. m \in Nat
    OBVIOUS
  <2>2. ASSUME NEW i \in 1 .. n, i = (m + 1) + 1 PROVE Whole(g[i])
    <3>1. i \in 2 .. n /\ i - 1 \in 1 .. n /\ i - 1 = m + 1
      BY <1>2, <2>1, <2>2
    <3>2. g[i] = Join(g[i - 1], ts[i]) /\ Whole(ts[i])
      BY <1>1, <1>2, <3>1 DEF Chain
    <3>3. Whole(g[i - 1])
      BY <3>1
    <3>4. QED  BY <3>2, <3>3, JoinIsWhole
  <2>3. QED  BY <2>1, <2>2
<1>5. \A m \in Nat : m \in S
  <2>1. S \in SUBSET Nat
    OBVIOUS
  <2> HIDE DEF S
  <2>2. QED  BY <1>3, <1>4, <2>1, Induct
<1>6. Whole(g[n])
  <2>1. n - 1 \in Nat /\ n \in 1 .. n /\ n = (n - 1) + 1
    BY <1>2
  <2>2. n - 1 \in S
    BY <1>5, <2>1
  <2>3. QED  BY <2>1, <2>2
<1>7. QED  BY <1>1, <1>6

\* A table with at most one row a day, and its days.
DayTable(t, d) == Whole(t) /\ d \in ToSet(t.cols) /\ Keyed(t, d)
DaysOf(t, d) == {row[d] : row \in RowsOf(t)}

\* A row that tells another.
Covers(row, x) == \A c \in DOMAIN x : x[c] = row[c]

\* The rows and the days of a table, by their places.
LEMMA RowsAre ==
  ASSUME NEW t, NEW d \in ToSet(t.cols)
  PROVE  /\ \A k \in DOMAIN t.rows : /\ Named(t, t.rows[k]) \in RowsOf(t)
                                     /\ Named(t, t.rows[k])[d] = Cell(t, t.rows[k], d)
                                     /\ DOMAIN Named(t, t.rows[k]) = ToSet(t.cols)
         /\ \A row \in RowsOf(t) : \E k \in DOMAIN t.rows : row = Named(t, t.rows[k])
         /\ \A x : x \in DaysOf(t, d) <=> \E k \in DOMAIN t.rows : x = Cell(t, t.rows[k], d)
<1>1. \A k \in DOMAIN t.rows : /\ Named(t, t.rows[k]) \in RowsOf(t)
                               /\ Named(t, t.rows[k])[d] = Cell(t, t.rows[k], d)
                               /\ DOMAIN Named(t, t.rows[k]) = ToSet(t.cols)
  BY DEF RowsOf, Named
<1>2. \A row \in RowsOf(t) : \E k \in DOMAIN t.rows : row = Named(t, t.rows[k])
  BY DEF RowsOf
<1>3. \A x : x \in DaysOf(t, d) <=> \E row \in RowsOf(t) : x = row[d]
  BY DEF DaysOf
<1>4. QED  BY <1>1, <1>2, <1>3

\* It has as many rows as days.
LEMMA RowADay ==
  ASSUME NEW t, NEW d, DayTable(t, d)
  PROVE  Len(t.rows) = Cardinality(DaysOf(t, d))
<1> DEFINE n == Len(t.rows)
           D == DaysOf(t, d)
           f == [k \in 1 .. n |-> Cell(t, t.rows[k], d)]
<1>1. n \in Nat /\ DOMAIN t.rows = 1 .. n
  BY ListsAreListed DEF DayTable, Whole, Listed
<1>2. \A x : x \in D <=> \E k \in DOMAIN t.rows : x = Cell(t, t.rows[k], d)
  BY RowsAre DEF DayTable
<1>3. \A i, j \in DOMAIN t.rows : Cell(t, t.rows[i], d) = Cell(t, t.rows[j], d) => i = j
  BY DEF DayTable, Keyed
<1> HIDE DEF n, D
<1>4. \A k \in 1 .. n : f[k] = Cell(t, t.rows[k], d)
  OBVIOUS
<1>5. f \in [1 .. n -> D]
  BY <1>1, <1>2
<1> HIDE DEF f
<1>6. /\ \A i, j \in 1 .. n : f[i] = f[j] => i = j
      /\ \A x \in D : \E k \in 1 .. n : f[k] = x
  BY <1>1, <1>2, <1>3, <1>4
<1>7. f \in Bijection(1 .. n, D)
  BY <1>5, <1>6 DEF Bijection, Injection, Surjection, IsInjective
<1>8. IsFiniteSet(1 .. n) /\ Cardinality(1 .. n) = n
  BY <1>1, FS_Interval
<1>9. Cardinality(D) = n
  BY <1>7, <1>8, FS_Bijection DEF ExistsBijection
<1>10. QED  BY <1>9 DEF n, D

\* What the join of two tables with a row a day is.
JoinedDays(t, l, r, d) ==
    /\ DayTable(t, d) /\ ToSet(t.cols) = ToSet(l.cols) \cup ToSet(r.cols)
    /\ \A x : x \in DaysOf(t, d) <=> x \in DaysOf(l, d) /\ x \in DaysOf(r, d)
    /\ \A row \in RowsOf(t) : /\ \E x \in RowsOf(l) : Covers(row, x)
                              /\ \E y \in RowsOf(r) : Covers(row, y)

\* Two such tables with rows are joined day by day.
LEMMA JoinOfDays ==
  ASSUME NEW l, NEW r, NEW d, DayTable(l, d), DayTable(r, d), OneShared(l, r, d),
         l.rows # <<>>, r.rows # <<>>
  PROVE  JoinedDays(Join(l, r), l, r, d)
<1> DEFINE t == Join(l, r)
<1>1. Whole(l) /\ Whole(r) /\ d \in ToSet(l.cols)
      /\ d \in ToSet(r.cols) /\ Keyed(l, d) /\ Keyed(r, d)
  BY DEF DayTable
<1>2. t = JoinedBy(l, r, d)
  BY <1>1, JoinedByShared
<1> HIDE DEF t
<1>3. /\ Whole(t) /\ ToSet(t.cols) = ToSet(l.cols) \cup ToSet(r.cols)
      /\ \E p, q : JoinedAt(t, l, r, d, p, q)
  BY <1>1, <1>2, JoinedByIs
<1>4. PICK p, q : JoinedAt(t, l, r, d, p, q)
  BY <1>3
<1>5. d \in ToSet(t.cols)
  BY <1>1, <1>3
<1>6. \A k \in DOMAIN t.rows :
         /\ p[k] \in DOMAIN l.rows /\ q[k] \in DOMAIN r.rows
         /\ Cell(r, r.rows[q[k]], d) = Cell(l, l.rows[p[k]], d)
         /\ Named(t, t.rows[k]) = Merged(Named(l, l.rows[p[k]]), Named(r, r.rows[q[k]]))
  BY <1>3, <1>4, RowsMerged
<1>7. \A k \in DOMAIN t.rows : Cell(t, t.rows[k], d) = Cell(l, l.rows[p[k]], d)
  BY <1>4, <1>5 DEF JoinedAt
<1>8. \A i \in DOMAIN l.rows, j \in DOMAIN r.rows :
          Cell(r, r.rows[j], d) = Cell(l, l.rows[i], d) => \E k \in DOMAIN t.rows : p[k] = i
  BY <1>4 DEF JoinedAt
<1>9. ASSUME NEW x
      PROVE  x \in DaysOf(t, d) <=> x \in DaysOf(l, d) /\ x \in DaysOf(r, d)
  <2>1. x \in DaysOf(t, d) <=> \E k \in DOMAIN t.rows : x = Cell(t, t.rows[k], d)
    BY <1>5, RowsAre
  <2>2. x \in DaysOf(l, d) <=> \E i \in DOMAIN l.rows : x = Cell(l, l.rows[i], d)
    BY <1>1, RowsAre
  <2>3. x \in DaysOf(r, d) <=> \E j \in DOMAIN r.rows : x = Cell(r, r.rows[j], d)
    BY <1>1, RowsAre
  <2>4. ASSUME NEW k \in DOMAIN t.rows, x = Cell(t, t.rows[k], d)
        PROVE  x \in DaysOf(l, d) /\ x \in DaysOf(r, d)
    BY <1>6, <1>7, <2>2, <2>3, <2>4
  <2>5. ASSUME NEW i \in DOMAIN l.rows, NEW j \in DOMAIN r.rows,
               x = Cell(l, l.rows[i], d), x = Cell(r, r.rows[j], d)
        PROVE  x \in DaysOf(t, d)
    <3>1. PICK k \in DOMAIN t.rows : p[k] = i
      BY <1>8, <2>5
    <3>2. QED  BY <1>7, <2>1, <2>5, <3>1
  <2>6. QED  BY <2>1, <2>2, <2>3, <2>4, <2>5
<1>10. Keyed(t, d)
  <2> SUFFICES ASSUME NEW i \in DOMAIN t.rows, NEW j \in DOMAIN t.rows,
                      Cell(t, t.rows[i], d) = Cell(t, t.rows[j], d)
               PROVE  i = j
    BY DEF Keyed
  <2>1. Cell(l, l.rows[p[i]], d) = Cell(l, l.rows[p[j]], d)
    BY <1>7
  <2>2. p[i] = p[j]
    BY <1>1, <1>6, <2>1 DEF Keyed
  <2>3. QED  BY <1>4, <2>2 DEF JoinedAt
<1>11. ASSUME NEW row \in RowsOf(t)
       PROVE  /\ \E x \in RowsOf(l) : Covers(row, x)
              /\ \E y \in RowsOf(r) : Covers(row, y)
  <2>1. PICK k \in DOMAIN t.rows : row = Named(t, t.rows[k])
    BY <1>5, RowsAre
  <2> DEFINE x == Named(l, l.rows[p[k]])
             y == Named(r, r.rows[q[k]])
  <2>2. row = Merged(x, y) /\ p[k] \in DOMAIN l.rows /\ q[k] \in DOMAIN r.rows
    BY <1>6, <2>1
  <2>3. x \in RowsOf(l) /\ x[d] = Cell(l, l.rows[p[k]], d) /\ DOMAIN x = ToSet(l.cols)
    BY <1>1, <2>2, RowsAre
  <2>4. y \in RowsOf(r) /\ y[d] = Cell(r, r.rows[q[k]], d) /\ DOMAIN y = ToSet(r.cols)
    BY <1>1, <2>2, RowsAre
  <2>5. x[d] = y[d]
    BY <1>6, <2>3, <2>4
  <2> HIDE DEF x, y
  <2>6. Covers(row, x)
    BY <2>2 DEF Covers, Merged
  <2>7. Covers(row, y)
    <3>1. ASSUME NEW c \in DOMAIN y PROVE y[c] = row[c]
      <4>1. row[c] = IF c \in DOMAIN x THEN x[c] ELSE y[c]
        BY <2>2 DEF Merged
      <4>2. c \in DOMAIN x => c = d
        BY <2>3, <2>4 DEF OneShared
      <4>3. QED  BY <2>5, <4>1, <4>2
    <3>2. QED  BY <3>1 DEF Covers
  <2>8. QED  BY <2>3, <2>4, <2>6, <2>7
<1>12. DayTable(t, d)
  BY <1>3, <1>5, <1>10 DEF DayTable
<1>13. JoinedDays(t, l, r, d)
  BY <1>3, <1>9, <1>11, <1>12, Zenon DEF JoinedDays
<1>14. QED  BY <1>13 DEF t

\* The tables from the k-th to the m-th, joined day by day.
DaysFrom(t, ts, k, m, d) ==
    /\ DayTable(t, d)
    /\ \A c : c \in ToSet(t.cols) <=> \E i \in k .. m : c \in ToSet(ts[i].cols)
    /\ \A x : x \in DaysOf(t, d) <=> \A i \in k .. m : x \in DaysOf(ts[i], d)
    /\ \A row \in RowsOf(t), i \in k .. m : \E x \in RowsOf(ts[i]) : Covers(row, x)

\* The join starts anew at the k-th table: some before it share no day.
NoneShared(ts, j, m, d) == \A x : ~ \A i \in j .. m : x \in DaysOf(ts[i], d)
StartsAt(ts, k, d) == k = 1 \/ \E j \in 1 .. (k - 1) : NoneShared(ts, j, k - 1, d)
DaysUpto(t, ts, m, d) == \E k \in 1 .. m : StartsAt(ts, k, d) /\ DaysFrom(t, ts, k, m, d)

\* One table is joined day by day.
LEMMA OneTable ==
  ASSUME NEW ts, NEW i \in Nat, NEW d, DayTable(ts[i], d)
  PROVE  DaysFrom(ts[i], ts, i, i, d)
<1>1. \A j : j \in i .. i <=> j = i
  OBVIOUS
<1>2. \A row \in RowsOf(ts[i]) : Covers(row, row)
  BY DEF Covers
<1> DEFINE one == i .. i
<1>3. \A j : j \in one <=> j = i
  BY <1>1
<1> HIDE DEF one
<1>4. /\ \A c : c \in ToSet(ts[i].cols) <=> \E j \in one : c \in ToSet(ts[j].cols)
      /\ \A x : x \in DaysOf(ts[i], d) <=> \A j \in one : x \in DaysOf(ts[j], d)
      /\ \A row \in RowsOf(ts[i]), j \in one : \E x \in RowsOf(ts[j]) : Covers(row, x)
  BY <1>2, <1>3
<1>5. QED  BY <1>4 DEF one, DaysFrom

\* What is joined so far, and the next table.
LEMMA NextOfDays ==
  ASSUME NEW ts, NEW i \in Nat, NEW k \in 1 .. (i - 1), NEW d,
         NEW t, DaysFrom(t, ts, k, i - 1, d), t.rows # <<>>,
         DayTable(ts[i], d), ts[i].rows # <<>>,
         \A j \in 1 .. (i - 1) : OneShared(ts[j], ts[i], d)
  PROVE  DaysFrom(Join(t, ts[i]), ts, k, i, d)
<1> DEFINE u == Join(t, ts[i])
           before == k .. (i - 1)
           upto == k .. i
<1>1. /\ \A j \in before : j \in 1 .. (i - 1) /\ j \in upto
      /\ \A j \in upto : j \in before \/ j = i
      /\ i \in upto
  OBVIOUS
<1>2. /\ DayTable(t, d)
      /\ \A c : c \in ToSet(t.cols) <=> \E j \in before : c \in ToSet(ts[j].cols)
      /\ \A x : x \in DaysOf(t, d) <=> \A j \in before : x \in DaysOf(ts[j], d)
      /\ \A row \in RowsOf(t), j \in before : \E x \in RowsOf(ts[j]) : Covers(row, x)
  BY DEF DaysFrom
<1>3. \A j \in before : OneShared(ts[j], ts[i], d)
  BY <1>1
<1> HIDE DEF before, upto
<1>4. OneShared(t, ts[i], d)
  <2>1. d \in ToSet(t.cols) /\ d \in ToSet(ts[i].cols)
    BY <1>2 DEF DayTable
  <2>2. ASSUME NEW c \in ToSet(t.cols) \cap ToSet(ts[i].cols) PROVE c = d
    <3>1. PICK j \in before : c \in ToSet(ts[j].cols)
      BY <1>2
    <3>2. QED  BY <1>3, <3>1 DEF OneShared
  <2>3. QED  BY <2>1, <2>2 DEF OneShared
<1>5. JoinedDays(u, t, ts[i], d)
  BY <1>2, <1>4, JoinOfDays
<1> HIDE DEF u
<1>6. DayTable(u, d)
  BY <1>5 DEF JoinedDays
<1>7. ASSUME NEW c
      PROVE  c \in ToSet(u.cols) <=> \E j \in upto : c \in ToSet(ts[j].cols)
  <2>1. c \in ToSet(u.cols) <=> c \in ToSet(t.cols) \/ c \in ToSet(ts[i].cols)
    BY <1>5 DEF JoinedDays
  <2>2. QED  BY <1>1, <1>2, <2>1
<1>8. ASSUME NEW x
      PROVE  x \in DaysOf(u, d) <=> \A j \in upto : x \in DaysOf(ts[j], d)
  <2>1. x \in DaysOf(u, d) <=> x \in DaysOf(t, d) /\ x \in DaysOf(ts[i], d)
    BY <1>5 DEF JoinedDays
  <2>2. QED  BY <1>1, <1>2, <2>1
<1>9. ASSUME NEW row \in RowsOf(u), NEW j \in upto
      PROVE  \E x \in RowsOf(ts[j]) : Covers(row, x)
  <2>1. CASE j = i
    BY <1>5, <2>1 DEF JoinedDays
  <2>2. CASE j \in before
    <3>1. PICK y \in RowsOf(t) : Covers(row, y)
      BY <1>5 DEF JoinedDays
    <3>2. PICK x \in RowsOf(ts[j]) : Covers(y, x)
      BY <1>2, <2>2
    <3>3. DOMAIN x = ToSet(ts[j].cols) /\ DOMAIN y = ToSet(t.cols)
      BY DEF RowsOf, Named
    <3>4. ToSet(ts[j].cols) \subseteq ToSet(t.cols)
      BY <1>2, <2>2
    <3>5. Covers(row, x)
      BY <3>1, <3>2, <3>3, <3>4 DEF Covers
    <3>6. QED  BY <3>5
  <2>3. QED  BY <1>1, <2>1, <2>2
<1>10. QED  BY <1>6, <1>7, <1>8, <1>9 DEF DaysFrom, u, upto

\* Tables with rows, at most one a day, and a column in common, joined one after
\* the other: from some table on, a row for each day all have, that tells the row
\* of each; and it is not the first only if some before it share no day.
LEMMA JoinAllOfDays ==
  ASSUME NEW ts, Listed(ts), ts # <<>>, NEW d,
         \A i \in DOMAIN ts : DayTable(ts[i], d) /\ ts[i].rows # <<>>,
         \A i, j \in DOMAIN ts : i # j => OneShared(ts[i], ts[j], d)
  PROVE  DaysUpto(JoinAll(ts), ts, Len(ts), d)
<1> DEFINE n == Len(ts)
<1>1. PICK g : Chain(g, ts, n) /\ JoinAll(ts) = g[n]
  BY JoinAllIs
<1>2. n \in Nat /\ DOMAIN ts = 1 .. n /\ n # 0
  <2>1. ts \in Seq(ToSet(ts))
    BY DEF Listed
  <2>2. QED  BY <2>1
<1> HIDE DEF n
<1> DEFINE S == {m \in Nat : \A i \in 1 .. n : i = m + 1 => DaysUpto(g[i], ts, i, d)}
<1>3. 0 \in S
  <2>1. 1 \in 1 .. n /\ g[1] = ts[1] /\ DayTable(ts[1], d)
    BY <1>1, <1>2 DEF Chain
  <2>2. DaysFrom(ts[1], ts, 1, 1, d) /\ StartsAt(ts, 1, d)
    BY <2>1, OneTable DEF StartsAt
  <2>3. 1 \in 1 .. 1
    OBVIOUS
  <2>4. DaysUpto(ts[1], ts, 1, d)
    BY <2>2, <2>3 DEF DaysUpto
  <2>5. \A i \in 1 .. n : i = 0 + 1 => DaysUpto(g[i], ts, i, d)
    BY <1>2, <2>1, <2>4
  <2>6. QED  BY <2>5
<1>4. ASSUME NEW m \in S PROVE m + 1 \in S
  <2>1. m \in Nat
    OBVIOUS
  <2>2. ASSUME NEW i \in 1 .. n, i = (m + 1) + 1 PROVE DaysUpto(g[i], ts, i, d)
    <3> DEFINE b == i - 1
    <3>1. i \in 2 .. n /\ b \in 1 .. n /\ b = m + 1 /\ i \in Nat /\ i # 1 /\ i \in 1 .. i
      BY <1>2, <2>1, <2>2
    <3>2. g[i] = Join(g[b], ts[i]) /\ DayTable(ts[i], d) /\ ts[i].rows # <<>>
      BY <1>1, <1>2, <3>1 DEF Chain
    <3>3. DaysUpto(g[b], ts, b, d)
      BY <3>1
    <3>4. PICK k \in 1 .. b : StartsAt(ts, k, d) /\ DaysFrom(g[b], ts, k, b, d)
      BY <3>3 DEF DaysUpto
    <3>5. k \in 1 .. i
      BY <3>1
    <3>6. CASE g[b].rows = <<>>
      <4>1. g[i] = ts[i]
        BY <3>2, <3>6 DEF Join
      <4>2. NoneShared(ts, k, b, d)
        <5> SUFFICES ASSUME NEW x, \A j \in k .. b : x \in DaysOf(ts[j], d) PROVE FALSE
          BY DEF NoneShared
        <5> HIDE DEF b
        <5>1. x \in DaysOf(g[b], d) /\ d \in ToSet(g[b].cols)
          BY <3>4 DEF DaysFrom, DayTable
        <5>2. PICK y \in DOMAIN g[b].rows : TRUE
          BY <5>1, RowsAre
        <5>3. DOMAIN <<>> = {}
          OBVIOUS
        <5>4. QED  BY <3>6, <5>2, <5>3
      <4>3. StartsAt(ts, i, d)
        BY <4>2 DEF StartsAt
      <4>4. DaysFrom(ts[i], ts, i, i, d)
        BY <3>1, <3>2, OneTable
      <4> HIDE DEF b
      <4>5. QED  BY <3>1, <4>1, <4>3, <4>4 DEF DaysUpto
    <3>7. CASE g[b].rows # <<>>
      <4>1. \A j \in 1 .. b : OneShared(ts[j], ts[i], d)
        <5>1. \A j \in 1 .. b : j \in DOMAIN ts /\ i \in DOMAIN ts /\ j # i
          BY <1>2, <3>1
        <5>2. QED  BY <5>1
      <4>2. DaysFrom(g[i], ts, k, i, d)
        BY <3>1, <3>2, <3>4, <3>7, <4>1, NextOfDays
      <4> HIDE DEF b
      <4>3. QED  BY <3>4, <3>5, <4>2 DEF DaysUpto
    <3>8. QED  BY <3>6, <3>7
  <2>3. QED  BY <2>1, <2>2
<1>5. \A m \in Nat : m \in S
  <2>1. S \in SUBSET Nat
    OBVIOUS
  <2> HIDE DEF S
  <2>2. QED  BY <1>3, <1>4, <2>1, Induct
<1>6. DaysUpto(g[n], ts, n, d)
  <2>1. n - 1 \in Nat /\ n \in 1 .. n /\ n = (n - 1) + 1
    BY <1>2
  <2>2. n - 1 \in S
    BY <1>5, <2>1
  <2>3. QED  BY <2>1, <2>2
<1>7. QED  BY <1>1, <1>6 DEF n

\* The column of the date is one of the columns.
LEMMA DateIsColumn ==
  ASSUME NEW cols, Listed(cols), cols # <<>>, NEW wanted
  PROVE  DateColumn(cols, wanted) \in ToSet(cols)
<1> DEFINE named == {i \in DOMAIN cols : wanted \in ToSet(cols[i])}
           dated == {i \in DOMAIN cols : ToSet(cols[i]) \cap DOMAIN DateRank # {}}
           first == CHOOSE i \in named : \A j \in named : i <= j
           best == BestPlace(cols, dated, DateRank)
<1>1. DateColumn(cols, wanted) = IF named # {} THEN cols[first]
                                 ELSE IF dated # {} THEN cols[best] ELSE JoinKey(cols, cols)
  BY DEF DateColumn
<1>2. DOMAIN cols \subseteq Nat /\ DOMAIN cols # {}
  <2>1. cols \in Seq(ToSet(cols))
    BY DEF Listed
  <2>2. QED  BY <2>1
<1>3. named \in SUBSET DOMAIN cols /\ dated \in SUBSET DOMAIN cols
  OBVIOUS
<1>4. \A i \in DOMAIN cols : cols[i] \in ToSet(cols)
  BY DEF ToSet
<1> HIDE DEF named, dated
<1>5. CASE named # {}
  <2>1. named \in SUBSET Nat
    BY <1>2, <1>3
  <2>2. first \in named
    BY <1>5, <2>1, Least
  <2> HIDE DEF first
  <2>3. QED  BY <1>1, <1>3, <1>4, <1>5, <2>2
<1>6. CASE named = {} /\ dated # {}
  <2>1. dated \in SUBSET Nat
    BY <1>2, <1>3
  <2>2. DateRank \in [DOMAIN DateRank -> Nat]
    BY ResultAssemblyAssumption
  <2>3. best \in dated
    BY <1>6, <2>1, <2>2, BestPlaceIs
  <2> HIDE DEF best, first
  <2>4. QED  BY <1>1, <1>3, <1>4, <1>6, <2>3
<1>7. CASE named = {} /\ dated = {}
  <2>1. Common(cols, cols) # {}
    BY <1>2, <1>4 DEF Common
  <2>2. JoinKey(cols, cols) \in ToSet(cols)
    BY <2>1, KeyIsShared
  <2> HIDE DEF best, first
  <2>3. QED  BY <1>1, <1>7, <2>2
<1>8. QED  BY <1>5, <1>6, <1>7

\* The name of a column in the comparison.
FrontName(label, date, c) == IF c = date THEN c ELSE <<label>> \o c
SameNames(l1, l2, date, c1, c2) ==
    FrontName(l1, date, c1) = FrontName(l2, date, c2) => c1 = c2 /\ (c1 = date \/ l1 = l2)

\* It tells the column, and but for the date the step.
LEMMA NamesAreTold ==
  ASSUME NEW l1, NEW l2, NEW date, OneWord(date), NEW c1, OneWord(c1), NEW c2, OneWord(c2)
  PROVE  SameNames(l1, l2, date, c1, c2)
<1> SUFFICES ASSUME FrontName(l1, date, c1) = FrontName(l2, date, c2)
             PROVE  c1 = c2 /\ (c1 = date \/ l1 = l2)
  BY DEF SameNames
<1>1. CASE c1 = date /\ c2 = date
  BY <1>1
<1>2. CASE c1 = date /\ c2 # date
  <2>1. date = <<l2>> \o c2
    BY <1>2 DEF FrontName
  <2>2. Len(<<l2>> \o c2) = 2
    BY Fronted
  <2>3. Len(date) = 2
    BY <2>1, <2>2
  <2>4. QED  BY <2>3 DEF OneWord
<1>3. CASE c1 # date /\ c2 = date
  <2>1. date = <<l1>> \o c1
    BY <1>3 DEF FrontName
  <2>2. Len(<<l1>> \o c1) = 2
    BY Fronted
  <2>3. Len(date) = 2
    BY <2>1, <2>2
  <2>4. QED  BY <2>3 DEF OneWord
<1>4. CASE c1 # date /\ c2 # date
  <2>1. SameFronted(l1, c1, l2, c2)
    BY Fronted
  <2>2. <<l1>> \o c1 = <<l2>> \o c2
    BY <1>4 DEF FrontName
  <2>3. QED  BY <2>1, <2>2 DEF SameFronted
<1>5. QED  BY <1>1, <1>2, <1>3, <1>4

\* A table with its columns renamed.
Renames(P, t, label, date) ==
    /\ P.rows = t.rows /\ Whole(P) /\ date \in ToSet(t.cols) /\ date \in ToSet(P.cols)
    /\ \A c : c \in ToSet(P.cols) <=> \E x \in ToSet(t.cols) : c = FrontName(label, date, x)
    /\ \A row : \A c \in ToSet(t.cols) : Cell(P, row, FrontName(label, date, c)) = Cell(t, row, c)

\* _prefix_value_columns renames the columns, and tells the same.
LEMMA PrefixedIs ==
  ASSUME NEW s, IsResult(s.table), s.table.rows # <<>>, NEW wanted
  PROVE  Renames(Prefixed(s, wanted), s.table, s.label, DateColumn(s.table.cols, wanted))
<1> DEFINE t == s.table
           date == DateColumn(s.table.cols, wanted)
           name(c) == FrontName(s.label, date, c)
           n == Len(t.cols)
           cols == [i \in DOMAIN t.cols |-> name(t.cols[i])]
           P == Prefixed(s, wanted)
<1>1. /\ t \in [cols : Seq(Seq(STRING)), rows : Seq(Seq(STRING))]
      /\ t.cols \in Seq(Seq(STRING)) /\ t.cols # <<>> /\ IsInjective(t.cols)
      /\ \A i \in DOMAIN t.cols : Len(t.cols[i]) = 1
  BY DEF IsResult
<1>2. Whole(t)
  BY ResultsAreWhole
<1>3. n \in Nat /\ DOMAIN t.cols = 1 .. n /\ Listed(t.cols) /\ Listed(t.rows)
  BY <1>2, ListsAreListed DEF Whole, Listed
<1>4. date \in ToSet(t.cols)
  BY <1>1, <1>3, DateIsColumn
<1>5. P.cols = cols /\ P.rows = t.rows
  BY <1>1 DEF Prefixed, FrontName
<1> HIDE DEF t, date, P
<1>6. \A c \in ToSet(t.cols) : OneWord(c)
  <2> TAKE c \in ToSet(t.cols)
  <2>1. PICK i \in DOMAIN t.cols : t.cols[i] = c
    BY DEF ToSet
  <2>2. c \in Seq(STRING) /\ Len(c) = 1
    BY <1>1, <2>1
  <2>3. QED  BY <2>2, ListsAreListed DEF OneWord
<1>7. \A i \in DOMAIN t.cols : t.cols[i] \in ToSet(t.cols)
  BY DEF ToSet
<1>8. \A c1, c2 \in ToSet(t.cols) : name(c1) = name(c2) => c1 = c2
  <2> TAKE c1, c2 \in ToSet(t.cols)
  <2>1. SameNames(s.label, s.label, date, c1, c2)
    BY <1>4, <1>6, NamesAreTold
  <2>2. QED  BY <2>1 DEF SameNames
<1>9. name(date) = date
  BY DEF FrontName
<1> HIDE DEF name
<1>10. /\ DOMAIN cols = 1 .. n /\ cols = [i \in 1 .. n |-> cols[i]]
       /\ \A i \in 1 .. n : cols[i] = name(t.cols[i])
  BY <1>3
<1> HIDE DEF cols, n
<1>11. Listed(cols) /\ Len(cols) = n
  BY <1>3, <1>10, ListedIs
<1>12. Whole(P)
  BY <1>2, <1>5, <1>11 DEF Whole, n
<1>13. \A c : c \in ToSet(cols) <=> \E x \in ToSet(t.cols) : c = name(x)
  BY <1>3, <1>10 DEF ToSet
<1>14. date \in ToSet(cols)
  BY <1>4, <1>9, <1>13
<1>15. ASSUME NEW row, NEW c \in ToSet(t.cols) PROVE Cell(P, row, name(c)) = Cell(t, row, c)
  <2> DEFINE x == PlaceOf(t.cols, c)
             y == PlaceOf(cols, name(c))
  <2>1. x \in DOMAIN t.cols /\ t.cols[x] = c
    BY <1>3, PlaceIs DEF Listed
  <2>2. name(c) \in ToSet(cols)
    BY <1>13
  <2>3. y \in DOMAIN cols /\ cols[y] = name(c)
    BY <1>11, <2>2, PlaceIs DEF Listed
  <2> HIDE DEF x, y
  <2>4. name(t.cols[y]) = name(c) /\ y \in DOMAIN t.cols
    BY <1>3, <1>10, <2>3
  <2>5. t.cols[y] = c
    BY <1>7, <1>8, <2>4
  <2>6. x = y
    BY <1>1, <2>1, <2>4, <2>5 DEF IsInjective
  <2>7. Cell(P, row, name(c)) = row[y] /\ Cell(t, row, c) = row[x]
    BY <1>5 DEF Cell, PlaceOf, x, y
  <2>8. QED  BY <2>6, <2>7
<1>16. Renames(P, t, s.label, date)
  BY <1>4, <1>5, <1>12, <1>13, <1>14, <1>15 DEF Renames, name
<1>17. QED  BY <1>16 DEF P, t, date

\* A table keyed by its days is so when it is renamed, and of the same days.
LEMMA RenamedDays ==
  ASSUME NEW P, NEW t, NEW label, NEW date, Renames(P, t, label, date),
         Keyed(t, date)
  PROVE  DayTable(P, date) /\ \A x : x \in DaysOf(P, date) <=> x \in DaysOf(t, date)
<1>1. P.rows = t.rows /\ Whole(P) /\ date \in ToSet(t.cols) /\ date \in ToSet(P.cols)
  BY DEF Renames
<1>2. \A row : Cell(P, row, date) = Cell(t, row, date)
  <2>1. FrontName(label, date, date) = date
    BY DEF FrontName
  <2>2. \A row : Cell(P, row, FrontName(label, date, date)) = Cell(t, row, date)
    BY <1>1 DEF Renames
  <2>3. QED  BY <2>1, <2>2
<1>3. Keyed(P, date)
  BY <1>1, <1>2 DEF Keyed
<1>4. ASSUME NEW x PROVE x \in DaysOf(P, date) <=> x \in DaysOf(t, date)
  <2>1. x \in DaysOf(P, date) <=> \E k \in DOMAIN P.rows : x = Cell(P, P.rows[k], date)
    BY <1>1, RowsAre
  <2>2. x \in DaysOf(t, date) <=> \E k \in DOMAIN t.rows : x = Cell(t, t.rows[k], date)
    BY <1>1, RowsAre
  <2>3. QED  BY <1>1, <1>2, <2>1, <2>2
<1>5. QED  BY <1>1, <1>3, <1>4 DEF DayTable

\* Renamed for different steps, two tables share the date only.
LEMMA RenamedShare ==
  ASSUME NEW P, NEW t, NEW l1, NEW date, Renames(P, t, l1, date), \A c \in ToSet(t.cols) : OneWord(c),
         NEW Q, NEW u, NEW l2, Renames(Q, u, l2, date), \A c \in ToSet(u.cols) : OneWord(c), l1 # l2
  PROVE  OneShared(P, Q, date)
<1>1. date \in ToSet(P.cols) /\ date \in ToSet(Q.cols) /\ date \in ToSet(t.cols)
  BY DEF Renames
<1>2. ASSUME NEW c \in ToSet(P.cols) \cap ToSet(Q.cols) PROVE c = date
  <2>1. PICK x \in ToSet(t.cols) : c = FrontName(l1, date, x)
    BY DEF Renames
  <2>2. PICK y \in ToSet(u.cols) : c = FrontName(l2, date, y)
    BY DEF Renames
  <2>3. SameNames(l1, l2, date, x, y)
    BY <1>1, NamesAreTold
  <2>4. x = date
    BY <2>1, <2>2, <2>3 DEF SameNames
  <2>5. QED  BY <2>1, <2>4 DEF FrontName
<1>3. QED  BY <1>1, <1>2 DEF OneShared

\* A row that tells another, by the names of the comparison.
CoversAs(row, x, label, date) == \A c \in DOMAIN x : x[c] = row[FrontName(label, date, c)]

\* What tells a row of a renamed table tells a row of the table.
LEMMA RenamedCovers ==
  ASSUME NEW P, NEW t, NEW label, NEW date, Renames(P, t, label, date),
         NEW row, NEW y \in RowsOf(P), Covers(row, y)
  PROVE  \E x \in RowsOf(t) : CoversAs(row, x, label, date)
<1>1. P.rows = t.rows
  BY DEF Renames
<1>2. PICK k \in DOMAIN t.rows : y = Named(P, t.rows[k])
  BY <1>1 DEF RowsOf
<1> DEFINE x == Named(t, t.rows[k])
<1>3. x \in RowsOf(t)
  BY DEF RowsOf
<1>4. DOMAIN x = ToSet(t.cols) /\ \A c \in ToSet(t.cols) : x[c] = Cell(t, t.rows[k], c)
  BY DEF Named
<1> HIDE DEF x
<1>5. DOMAIN y = ToSet(P.cols) /\ \A c \in ToSet(P.cols) : y[c] = Cell(P, t.rows[k], c)
  BY <1>2 DEF Named
<1>6. ASSUME NEW c \in DOMAIN x PROVE x[c] = row[FrontName(label, date, c)]
  <2> DEFINE z == FrontName(label, date, c)
  <2>1. z \in ToSet(P.cols) /\ Cell(P, t.rows[k], z) = Cell(t, t.rows[k], c)
    BY <1>4 DEF Renames
  <2> HIDE DEF z
  <2>2. z \in DOMAIN y /\ y[z] = x[c]
    BY <1>4, <1>5, <2>1
  <2>3. y[z] = row[z]
    BY <2>2 DEF Covers
  <2>4. QED  BY <2>2, <2>3 DEF z
<1>7. QED  BY <1>3, <1>6 DEF CoversAs

\* The columns of a result are of one word.
LEMMA OneWordColumns ==
  ASSUME NEW t, IsResult(t), NEW c \in ToSet(t.cols)
  PROVE  OneWord(c)
<1>1. PICK i \in DOMAIN t.cols : t.cols[i] = c
  BY DEF ToSet
<1>2. t.cols \in Seq(Seq(STRING)) /\ Len(t.cols[i]) = 1
  BY DEF IsResult
<1>3. c \in Seq(STRING) /\ Len(c) = 1
  BY <1>1, <1>2
<1>4. QED  BY <1>3, ListsAreListed DEF OneWord

\* The steps whose results have rows.
Full(results) == Where(results, LAMBDA s : s.table.rows # <<>>)
IsFull(full) == /\ Listed(full)
                /\ \A i \in DOMAIN full : IsResult(full[i].table) /\ full[i].table.rows # <<>>

\* They are results with rows.
LEMMA FullIs ==
  ASSUME NEW results, Listed(results), \A i \in DOMAIN results : IsResult(results[i].table)
  PROVE  IsFull(Full(results))
<1> DEFINE I == {i \in DOMAIN results : results[i].table.rows # <<>>}
           full == Kept(results, I)
<1>1. I \in SUBSET DOMAIN results /\ \A i \in I : results[i].table.rows # <<>>
  OBVIOUS
<1>2. Full(results) = full
  BY DEF Full, Where
<1> HIDE DEF I
<1>3. Listed(full) /\ ToSet(full) = {results[i] : i \in I}
  BY <1>1, ListedKept
<1> HIDE DEF full
<1>4. ASSUME NEW k \in DOMAIN full PROVE IsResult(full[k].table) /\ full[k].table.rows # <<>>
  <2>1. full[k] \in ToSet(full)
    BY DEF ToSet
  <2>2. PICK i \in I : full[k] = results[i]
    BY <1>3, <2>1
  <2>3. QED  BY <1>1, <2>2
<1>5. QED  BY <1>2, <1>3, <1>4 DEF IsFull

\* The tables of a comparison.
Renamed(full, wanted) == [i \in DOMAIN full |-> Prefixed(full[i], wanted)]

\* They are the results, renamed.
LEMMA RenamedAre ==
  ASSUME NEW full, IsFull(full), full # <<>>, NEW wanted
  PROVE  LET ts == Renamed(full, wanted)
         IN /\ Listed(ts) /\ ts # <<>> /\ Len(ts) = Len(full) /\ DOMAIN ts = DOMAIN full
            /\ DOMAIN full = 1 .. Len(full)
            /\ \A i \in DOMAIN full : Renames(ts[i], full[i].table, full[i].label,
                                              DateColumn(full[i].table.cols, wanted))
<1> DEFINE ts == Renamed(full, wanted)
           n == Len(full)
<1>1. n \in Nat /\ DOMAIN full = 1 .. n /\ n # 0
  <2>1. full \in Seq(ToSet(full))
    BY DEF IsFull, Listed
  <2>2. QED  BY <2>1
<1>2. DOMAIN ts = 1 .. n /\ ts = [i \in 1 .. n |-> ts[i]]
  BY <1>1 DEF Renamed
<1>3. \A i \in DOMAIN full : ts[i] = Prefixed(full[i], wanted)
  BY DEF Renamed
<1>4. \A i \in DOMAIN full : Renames(Prefixed(full[i], wanted), full[i].table, full[i].label,
                                     DateColumn(full[i].table.cols, wanted))
  BY PrefixedIs DEF IsFull
<1> HIDE DEF ts, n
<1>5. Listed(ts) /\ Len(ts) = n
  BY <1>1, <1>2, ListedIs
<1>6. ts # <<>>
  <2>1. DOMAIN <<>> = {} /\ 1 \in DOMAIN ts
    BY <1>1, <1>2
  <2>2. QED  BY <2>1
<1>7. \A i \in DOMAIN full : Renames(ts[i], full[i].table, full[i].label,
                                     DateColumn(full[i].table.cols, wanted))
  BY <1>3, <1>4
<1>8. QED  BY <1>1, <1>2, <1>5, <1>6, <1>7 DEF ts, n

\* What a comparison is.
LEMMA ComparedIs ==
  ASSUME NEW results, NEW wanted
  PROVE  Compared(results, wanted) = IF Full(results) = <<>> THEN [cols |-> <<>>, rows |-> <<>>]
                                   ELSE JoinAll(Renamed(Full(results), wanted))
BY Zenon DEF Compared, Full, Renamed

\* A comparison has a cell for every column.
LEMMA ComparedIsWhole ==
  ASSUME NEW results, Listed(results), \A i \in DOMAIN results : IsResult(results[i].table), NEW wanted
  PROVE  Whole(Compared(results, wanted))
<1> DEFINE full == Full(results)
           ts == Renamed(full, wanted)
<1>1. IsFull(full)
  BY FullIs
<1>2. Compared(results, wanted) = IF full = <<>> THEN [cols |-> <<>>, rows |-> <<>>] ELSE JoinAll(ts)
  BY ComparedIs
<1> HIDE DEF full
<1>3. CASE full = <<>>
  <2> DEFINE e == [cols |-> <<>>, rows |-> <<>>]
  <2>1. <<>> \in Seq({}) /\ DOMAIN <<>> = {} /\ e.cols = <<>> /\ e.rows = <<>>
    OBVIOUS
  <2>2. Listed(<<>>)
    BY <2>1, ListsAreListed
  <2> HIDE DEF e
  <2>3. Whole(e)
    BY <2>1, <2>2 DEF Whole
  <2>4. QED  BY <1>2, <1>3, <2>3 DEF e
<1>4. CASE full # <<>>
  <2>1. /\ Listed(ts) /\ ts # <<>> /\ DOMAIN ts = DOMAIN full
        /\ \A i \in DOMAIN full : Renames(ts[i], full[i].table, full[i].label,
                                          DateColumn(full[i].table.cols, wanted))
    BY <1>1, <1>4, RenamedAre
  <2>2. \A i \in DOMAIN ts : Whole(ts[i])
    BY <2>1 DEF Renames
  <2>3. Whole(JoinAll(ts))
    BY <2>1, <2>2, JoinAllIsWhole
  <2>4. QED  BY <1>2, <1>4, <2>3
<1>5. QED  BY <1>3, <1>4

\* The days that the results of a comparison have from the k-th to the m-th.
DayOf(full, wanted, i) == DateColumn(full[i].table.cols, wanted)
DaysIn(full, wanted, i) == DaysOf(full[i].table, DayOf(full, wanted, i))
SharedDays(full, wanted, k, m) ==
    {x \in DaysIn(full, wanted, k) : \A i \in k .. m : x \in DaysIn(full, wanted, i)}

\* Results keyed by a day of one name, of steps of different names.
AreKeyed(full, wanted) ==
    \A i, j \in DOMAIN full :
        /\ DayOf(full, wanted, i) = DayOf(full, wanted, j)
        /\ Keyed(full[i].table, DayOf(full, wanted, i))
        /\ full[i].label = full[j].label => i = j

\* What is shown is what the results from the k-th on have, day by day, and none
\* before is left out but where some share no day.
ShownFrom(t, full, wanted, k) ==
    /\ k = 1 \/ \E j \in 1 .. (k - 1) : SharedDays(full, wanted, j, k - 1) = {}
    /\ {row[DayOf(full, wanted, 1)] : row \in RowsOf(t)} = SharedDays(full, wanted, k, Len(full))
    /\ Len(t.rows) = Cardinality(SharedDays(full, wanted, k, Len(full)))
    /\ \A row \in RowsOf(t), i \in k .. Len(full) :
          \E x \in RowsOf(full[i].table) : CoversAs(row, x, full[i].label, DayOf(full, wanted, i))

\* A comparison of them is joined day by day.
LEMMA ComparedByDay ==
  ASSUME NEW full, IsFull(full), full # <<>>, NEW wanted, AreKeyed(full, wanted)
  PROVE  \E k \in DOMAIN full : ShownFrom(JoinAll(Renamed(full, wanted)), full, wanted, k)
<1> DEFINE d == DayOf(full, wanted, 1)
           ts == Renamed(full, wanted)
           t == JoinAll(ts)
           n == Len(full)
<1>1. /\ Listed(ts) /\ ts # <<>> /\ Len(ts) = n /\ DOMAIN ts = DOMAIN full
      /\ DOMAIN full = 1 .. n
  BY RenamedAre
<1>2. 1 \in DOMAIN full /\ n \in Nat
  <2>1. ts \in Seq(ToSet(ts))
    BY <1>1 DEF Listed
  <2> HIDE DEF ts
  <2>2. QED  BY <1>1, <2>1
<1>3. \A i \in DOMAIN full : DayOf(full, wanted, i) = d
  BY <1>2 DEF AreKeyed
<1>4. \A i \in DOMAIN full : Renames(ts[i], full[i].table, full[i].label, DayOf(full, wanted, i))
  BY RenamedAre DEF DayOf
<1> HIDE DEF ts
<1>5. \A i \in DOMAIN full : Renames(ts[i], full[i].table, full[i].label, d)
  BY <1>3, <1>4
<1>6. \A i \in DOMAIN full : Keyed(full[i].table, d) /\ full[i].table.rows # <<>>
                             /\ IsResult(full[i].table)
  <2>1. \A i \in DOMAIN full : Keyed(full[i].table, DayOf(full, wanted, i))
    BY DEF AreKeyed
  <2>2. QED  BY <1>3, <2>1 DEF IsFull
<1> HIDE DEF d
<1>7. \A i \in DOMAIN full : /\ DayTable(ts[i], d) /\ ts[i].rows # <<>>
                             /\ \A x : x \in DaysOf(ts[i], d) <=> x \in DaysIn(full, wanted, i)
  <2> TAKE i \in DOMAIN full
  <2>1. DayTable(ts[i], d) /\ \A x : x \in DaysOf(ts[i], d) <=> x \in DaysOf(full[i].table, d)
    BY <1>5, <1>6, RenamedDays
  <2>2. ts[i].rows = full[i].table.rows
    BY <1>5 DEF Renames
  <2>3. QED  BY <1>3, <1>6, <2>1, <2>2 DEF DaysIn
<1>8. ASSUME NEW i \in DOMAIN full, NEW j \in DOMAIN full, i # j PROVE OneShared(ts[i], ts[j], d)
  <2>1. full[i].label # full[j].label
    BY <1>8 DEF AreKeyed
  <2>2. /\ \A c \in ToSet(full[i].table.cols) : OneWord(c)
        /\ \A c \in ToSet(full[j].table.cols) : OneWord(c)
    BY <1>6, OneWordColumns
  <2>3. Renames(ts[i], full[i].table, full[i].label, d) /\ Renames(ts[j], full[j].table, full[j].label, d)
    BY <1>5
  <2>4. QED  BY <2>1, <2>2, <2>3, RenamedShare
<1>9. ASSUME NEW j \in DOMAIN full, NEW m \in DOMAIN full, j <= m, NEW x
      PROVE  x \in SharedDays(full, wanted, j, m) <=> \A i \in j .. m : x \in DaysOf(ts[i], d)
  <2>1. j \in j .. m /\ j .. m \subseteq DOMAIN full
    BY <1>1, <1>2, <1>9
  <2> DEFINE I == j .. m
  <2>2. x \in SharedDays(full, wanted, j, m) <=>
          x \in DaysIn(full, wanted, j) /\ \A i \in I : x \in DaysIn(full, wanted, i)
    BY DEF SharedDays
  <2> HIDE DEF I
  <2>3. x \in SharedDays(full, wanted, j, m) <=> \A i \in I : x \in DaysOf(ts[i], d)
    BY <1>7, <2>1, <2>2 DEF I
  <2>4. QED  BY <2>3 DEF I
<1>10. DaysUpto(t, ts, n, d)
  <2>1. \A i \in DOMAIN ts : DayTable(ts[i], d) /\ ts[i].rows # <<>>
    BY <1>1, <1>7
  <2>2. \A i, j \in DOMAIN ts : i # j => OneShared(ts[i], ts[j], d)
    BY <1>1, <1>8
  <2> HIDE DEF n, t
  <2>3. Listed(ts) /\ ts # <<>>
    BY <1>1
  <2>4. DaysUpto(JoinAll(ts), ts, Len(ts), d)
    BY <2>1, <2>2, <2>3, JoinAllOfDays
  <2>5. QED  BY <1>1, <2>4 DEF t
<1> HIDE DEF t
<1>11. PICK k \in 1 .. n : StartsAt(ts, k, d) /\ DaysFrom(t, ts, k, n, d)
  BY <1>10 DEF DaysUpto
<1> DEFINE D == SharedDays(full, wanted, k, n)
<1>12. k \in DOMAIN full /\ n \in DOMAIN full /\ k <= n /\ \A i \in k .. n : i \in DOMAIN full
  BY <1>1, <1>2
<1>13. k = 1 \/ \E j \in 1 .. (k - 1) : SharedDays(full, wanted, j, k - 1) = {}
  <2> SUFFICES ASSUME k # 1 PROVE \E j \in 1 .. (k - 1) : SharedDays(full, wanted, j, k - 1) = {}
    OBVIOUS
  <2>1. PICK j \in 1 .. (k - 1) : NoneShared(ts, j, k - 1, d)
    BY <1>11 DEF StartsAt
  <2>2. j \in DOMAIN full /\ k - 1 \in DOMAIN full /\ j <= k - 1
    BY <1>1, <1>2
  <2> HIDE DEF n
  <2>3. \A x : x \notin SharedDays(full, wanted, j, k - 1)
    BY <1>9, <2>1, <2>2 DEF NoneShared
  <2>4. QED  BY <2>3
<1> HIDE DEF n
<1>14. DayTable(t, d)
  BY <1>11 DEF DaysFrom
<1>15. DaysOf(t, d) = D
  <2>1. \A x : x \in DaysOf(t, d) <=> \A i \in k .. n : x \in DaysOf(ts[i], d)
    BY <1>11 DEF DaysFrom
  <2>2. \A x : x \in DaysOf(t, d) <=> x \in D
    BY <1>9, <1>12, <2>1
  <2> HIDE DEF D
  <2>3. QED  BY <2>2
<1>16. Len(t.rows) = Cardinality(D)
  BY <1>14, <1>15, RowADay
<1>17. ASSUME NEW row \in RowsOf(t), NEW i \in k .. n
       PROVE  \E x \in RowsOf(full[i].table) :
                 CoversAs(row, x, full[i].label, DayOf(full, wanted, i))
  <2>1. PICK y \in RowsOf(ts[i]) : Covers(row, y)
    BY <1>11 DEF DaysFrom
  <2>2. i \in DOMAIN full
    BY <1>12
  <2>3. \E x \in RowsOf(full[i].table) : CoversAs(row, x, full[i].label, d)
    BY <1>5, <2>1, <2>2, RenamedCovers
  <2>4. QED  BY <1>3, <2>2, <2>3
<1>18. {row[d] : row \in RowsOf(t)} = D
  BY <1>15 DEF DaysOf
<1> HIDE DEF D
<1>19. ShownFrom(t, full, wanted, k)
  BY <1>13, <1>16, <1>17, <1>18, Zenon DEF ShownFrom, D, d, n
<1>20. QED  BY <1>12, <1>19 DEF t, ts

\* A comparison by day of results keyed by it, of entities with different names,
\* shows the days that all have from some entity on, once each, and in the row of
\* a day the values of each; and whatever the steps, what is compared has a cell
\* for every column.
THEOREM ComparisonsCorrect ==
  ASSUME NEW results, Listed(results), \A i \in DOMAIN results : IsResult(results[i].table), NEW wanted
  PROVE  ComparisonIsPerDay(results, wanted) /\ Whole(Compared(results, wanted))
<1> DEFINE full == Full(results)
           t == Compared(results, wanted)
<1>1. IsFull(full)
  BY FullIs
<1> HIDE DEF full
<1>2. ASSUME full # <<>>, AreKeyed(full, wanted)
      PROVE  \E k \in DOMAIN full : ShownFrom(t, full, wanted, k)
  <2>1. t = JoinAll(Renamed(full, wanted))
    BY <1>2, ComparedIs DEF full
  <2> HIDE DEF t
  <2>2. QED  BY <1>1, <1>2, <2>1, ComparedByDay
<1>3. ComparisonIsPerDay(results, wanted)
  <2>1. ComparisonIsPerDay(results, wanted) =
          (full # <<>> /\ AreKeyed(full, wanted) => \E k \in DOMAIN full : ShownFrom(t, full, wanted, k))
    BY Zenon DEF ComparisonIsPerDay, full, Full, AreKeyed, ShownFrom, SharedDays, DaysIn, DaysOf,
                 DayOf, CoversAs, FrontName
  <2>2. QED  BY <1>2, <2>1
<1>4. QED  BY <1>3, ComparedIsWhole

-----------------------------------------------------------------------------
(* The one table                                                             *)

\* Whatever the results of the steps and the plan, the one table they become has
\* a cell for every column.
THEOREM AssembliesAreWhole ==
  ASSUME NEW results, Listed(results), \A i \in DOMAIN results : IsResult(results[i].table), NEW plan
  PROVE  AssemblyIsWhole(results, plan)
<1> DEFINE e == [cols |-> <<>>, rows |-> <<>>]
           ts == [i \in DOMAIN results |-> results[i].table]
           n == Len(results)
           compared == Compared(results, plan.wanted)
           pivoted == Pivot(results[n].table, HintOf(results, plan))
           is(mode, t) == [mode |-> mode, table |-> t]
           a == Assemble(results, plan)
<1>1. a = IF results = <<>> THEN is("empty", e)
          ELSE IF plan.byDate /\ compared.rows # <<>> THEN is("join_by_date", compared)
          ELSE IF Len(results) = 1 THEN is("single", results[1].table)
          ELSE IF HintOf(results, plan) # "" /\ pivoted.rows # <<>> THEN is("pivot", pivoted)
          ELSE is("join", JoinAll(ts))
  BY Zenon DEF Assemble
<1> HIDE DEF a
<1>2. n \in Nat /\ DOMAIN results = 1 .. n /\ (results # <<>> => n # 0)
  <2>1. results \in Seq(ToSet(results))
    BY DEF Listed
  <2>2. QED  BY <2>1
<1>3. Whole(compared)
  BY ComparisonsCorrect
<1>4. results # <<>> => Whole(results[1].table)
  <2>1. results # <<>> => 1 \in DOMAIN results
    BY <1>2
  <2>2. QED  BY <2>1, ResultsAreWhole
<1>5. results # <<>> => Whole(pivoted)
  <2>1. results # <<>> => n \in DOMAIN results
    BY <1>2
  <2>2. results # <<>> => IsResult(results[n].table)
    BY <2>1
  <2>3. QED  BY <2>2, PivotsCorrect
<1>6. results # <<>> => Whole(JoinAll(ts))
  <2> SUFFICES ASSUME results # <<>> PROVE Whole(JoinAll(ts))
    OBVIOUS
  <2>1. DOMAIN ts = 1 .. n /\ ts = [i \in 1 .. n |-> ts[i]]
    BY <1>2
  <2>2. \A i \in DOMAIN ts : Whole(ts[i])
    BY ResultsAreWhole
  <2> HIDE DEF ts, n
  <2>3. Listed(ts)
    BY <1>2, <2>1, ListedIs
  <2>4. ts # <<>>
    <3>1. DOMAIN <<>> = {} /\ 1 \in DOMAIN ts
      BY <1>2, <2>1
    <3>2. QED  BY <3>1
  <2>5. QED  BY <2>2, <2>3, <2>4, JoinAllIsWhole
<1>7. Rectangular(e)
  <2>1. e.rows = <<>> /\ DOMAIN <<>> = {}
    OBVIOUS
  <2> HIDE DEF e
  <2>2. QED  BY <2>1 DEF Rectangular
<1>8. \A t : Whole(t) => Rectangular(t)
  BY DEF Whole, Rectangular
<1>9. \A mode, t : is(mode, t).table = t
  OBVIOUS
<1> HIDE DEF e, ts, compared, pivoted, is, n
<1>10. Rectangular(a.table)
  BY <1>1, <1>3, <1>4, <1>5, <1>6, <1>7, <1>8, <1>9, ZenonT(60)
<1>11. QED  BY <1>10 DEF a, AssemblyIsWhole

-----------------------------------------------------------------------------
(* Theorems: the tools of a question                                         *)

\* Whatever the model answers, no call is made twice but one without a table,
\* and the loop keeps to its steps.
THEOREM CallsCorrect == AskSpec => []EachCallOnce
<1>1. AskInv => EachCallOnce
  BY DEF AskInv, LoopInv
<1>2. QED  BY <1>1, AskInvariant, PTL

\* Only the tools of the plan are run, and without the model they all are.
THEOREM PlanCorrect == AskSpec => []PlanIsFollowed
<1>1. AskInv => PlanIsFollowed
  BY DEF AskInv, LoopInv
<1>2. QED  BY <1>1, AskInvariant, PTL

\* What passes the gate keeps of the scope of its user what GateKeepsScope says, and
\* its result keeps to the limits, but for a FETCH.
THEOREM GateCorrect == AskSpec => []GateHolds
<1>1. AskInv => GateHolds
  <2> SUFFICES ASSUME input \in Gates PROVE GateHolds
    BY DEF AskInv, GateHolds
  <2>1. input.q.limit.n \in Nat /\ input.found \in Nat /\ HasNodes(input.q)
    BY AskToolsAssumption DEF IsGate, HasNodes
  <2>2. FewAreExact
    BY DEF FewAreExact, Rendered
  <2>3. QED  BY <2>1, <2>2, GateKeepsScope, GateKeepsDenial, RowsAreBounded DEF GateHolds
<1>2. QED  BY <1>1, AskInvariant, PTL

\* Whatever relations, recalled tables and answer of the model a plan is made of, a
\* statement is split where it must be only, and the plan has a shape that can run.
THEOREM ShapesCorrect == AskSpec => []ShapeHolds
<1>1. AskInv => ShapeHolds
  <2> SUFFICES ASSUME input \in Shapes PROVE ShapeHolds
    BY DEF AskInv, ShapeHolds
  <2>1. /\ input.raw.steps \in Seq(STRING) /\ input.raw.multi \in BOOLEAN
        /\ input.rels \in Seq(RelationRows) /\ IsFiniteSet(input.recalled)
        /\ input.mentioned \in Seq((DOMAIN HubRank) \X DOMAIN HubRank)
    BY AskToolsAssumption DEF RelationRows, IsShape
  <2>2. QED  BY <2>1, SplitCorrect, ShapeCorrect DEF ShapeHolds
<1>2. QED  BY <1>1, AskInvariant, PTL

\* Whatever a prompt is chosen from, the paths and the calls found are shortest
\* and complete, and the tables, the columns of active tables, the examples and the
\* observations shown are the first of those that may be.
THEOREM PromptsCorrect == AskSpec => []PromptHolds
<1>1. AskInv => PromptHolds
  <2> SUFFICES ASSUME input \in Prompts PROVE PromptHolds
    BY DEF AskInv, PromptHolds
  <2>1. IsPrompt(input)
    BY AskToolsAssumption
  <2>2. CASE input.kind = "path"
    <3>1. /\ IsFiniteSet(input.allowed)
          /\ input.rels \in Seq([from : STRING, to : STRING, on : BOOLEAN])
      BY <2>1, <2>2 DEF IsPrompt
    <3>2. PathIsShortest(input.rels, input.allowed, "a", input.to)
      BY <3>1, PathsCorrect
    <3>3. QED  BY <2>2, <3>2 DEF PromptHolds
  <2>3. CASE input.kind = "trace"
    <3>1. input.hops \in Nat /\ input.edges \in Seq([from : Nat, to : Nat])
      BY <2>1, <2>3 DEF IsPrompt
    <3>2. TraceIsComplete(input.edges, 1, input.hops)
      BY <3>1, TracesCorrect
    <3>3. QED  BY <2>3, <3>2 DEF PromptHolds
  <2>4. CASE input.kind = "tables"
    <3>1. input.tables \in Seq([table : STRING, score : Int])
      BY <2>1, <2>4 DEF IsPrompt
    <3>2. TablesAreBest(input.tables, input.artifacts, input.allowed)
      BY <3>1, TablesCorrect
    <3>3. QED  BY <2>4, <3>2 DEF PromptHolds
  <2>5. CASE input.kind = "columns"
    <3>1. /\ input.recalled \in Seq(STRING) /\ input.cols \in Seq([name : STRING, must : BOOLEAN])
          /\ input.active \in BOOLEAN
      BY <2>1, <2>5 DEF IsPrompt
    <3>2. ColumnsFit(input.active, input.cols, input.keys, input.recalled)
      BY <3>1, ColumnsCorrect
    <3>3. QED  BY <2>5, <3>2 DEF PromptHolds
  <2>6. CASE input.kind = "examples"
    <3> DEFINE E == [id : Int, priority : Int, score : Int, draft : BOOLEAN,
                     unreviewed : BOOLEAN, adminOnly : BOOLEAN,
                     role : STRING, tables : SUBSET STRING]
    <3>1. /\ input.examples \in Seq(E)
          /\ \A i, j \in DOMAIN input.examples :
                input.examples[i].id = input.examples[j].id => i = j
      BY <2>1, <2>6 DEF IsPrompt
    <3>2. \A x \in E : x.id \in Int /\ x.priority \in Int /\ x.score \in Int
      OBVIOUS
    <3> HIDE DEF E
    <3>3. ExamplesAreBest(input.examples, input.role, input.allowed)
      BY <3>1, <3>2, ExamplesCorrect
    <3>4. QED  BY <2>6, <3>3 DEF PromptHolds
  <2>7. CASE input.kind = "observations"
    <3> DEFINE O == [tool : STRING, table : STRING, lengths : Seq(Nat)]
    <3>1. input.candidates \in Seq(STRING) /\ input.obs \in Seq(O)
      BY <2>1, <2>7 DEF IsPrompt
    <3>2. \A o \in O : o.lengths \in Seq(Nat)
      OBVIOUS
    <3> HIDE DEF O
    <3>3. ObservationsFit(input.obs, input.candidates)
      BY <3>1, <3>2, ObservationsCorrect
    <3>4. QED  BY <2>7, <3>3 DEF PromptHolds
  <2>8. QED  BY <2>1, <2>2, <2>3, <2>4, <2>5, <2>6, <2>7 DEF IsPrompt
<1>2. QED  BY <1>1, AskInvariant, PTL

\* The one table that the results of several steps become has the last matches, the
\* last values of a label, the days the entities share, and a cell for every column.
THEOREM AssembliesCorrect == AskSpec => []AssemblyHolds
<1>1. AskInv => AssemblyHolds
  <2> SUFFICES ASSUME input \in Assemblies PROVE AssemblyHolds
    BY DEF AskInv, AssemblyHolds
  <2>1. IsAssembly(input)
    BY AskToolsAssumption
  <2>2. CASE input.kind = "join"
    <3>1. IsResult(input.l) /\ IsResult(input.r)
      BY <2>1, <2>2 DEF IsAssembly
    <3>2. Whole(input.l) /\ Whole(input.r)
      BY <3>1, ResultsAreWhole
    <3>3. JoinTakesLast(input.l, input.r) /\ Rectangular(Join(input.l, input.r))
      BY <3>2, JoinsCorrect
    <3>4. QED  BY <2>2, <3>3 DEF AssemblyHolds
  <2>3. CASE input.kind = "pivot"
    <3>1. IsResult(input.t)
      BY <2>1, <2>3 DEF IsAssembly
    <3>2. PivotKeepsLast(input.t, input.hint)
      BY <3>1, PivotsCorrect
    <3>3. QED  BY <2>3, <3>2 DEF AssemblyHolds
  <2>4. CASE input.kind = "steps"
    <3>1. /\ input.steps \in Seq({input.steps[i] : i \in DOMAIN input.steps})
          /\ \A i \in DOMAIN input.steps : IsResult(input.steps[i].table)
      BY <2>1, <2>4 DEF IsAssembly
    <3>2. Listed(input.steps)
      BY <3>1, ListsAreListed
    <3>3. ComparisonIsPerDay(input.steps, input.plan.wanted)
      BY <3>1, <3>2, ComparisonsCorrect
    <3>4. AssemblyIsWhole(input.steps, input.plan)
      BY <3>1, <3>2, AssembliesAreWhole
    <3>5. QED  BY <2>4, <3>3, <3>4 DEF AssemblyHolds
  <2>5. QED  BY <2>1, <2>2, <2>3, <2>4 DEF IsAssembly
<1>2. QED  BY <1>1, AskInvariant, PTL

-----------------------------------------------------------------------------
(* The runtime configuration                                                 *)

RowType == [exists : BOOLEAN, on : BOOLEAN, default : BOOLEAN, ver : 0 .. MaxVer]
ReqType == [pc : {"idle", "write", "refresh", "assign", "invalidate", "disposing"},
            op : Ops \cup {NoOp}, seen : BOOLEAN, view : [Kinds -> Config], at : 0 .. Len(Order)]

\* A request that is at work has an operation on a row, and one that assigns is
\* at a kind.
AtWork == \A a \in Admins :
    /\ Working(a) => req[a].op \in Ops
    /\ At(a, "assign") => req[a].at > 0

\* While nothing is stale at most one request is at work, and it knows how far
\* the cache is from the rows: not at all before it writes and after its
\* refresh, and in between up to the kinds it has assigned.
Serves == \A k \in Kinds : cache[k] = DefaultIn(rows, k)
FreshInv ==
    ~stale =>
        /\ \A a, b \in Admins : Working(a) /\ Working(b) => a = b
        /\ Quiet => Serves
        /\ \A a \in Admins :
             /\ At(a, "write") \/ At(a, "invalidate") \/ At(a, "disposing") => Serves
             /\ At(a, "refresh") /\ req[a].op.do = "test" => Serves
             /\ At(a, "assign") =>
                  /\ \A k \in Kinds : req[a].view[k] = DefaultIn(rows, k)
                  /\ \A n \in 1 .. Len(Order) : n < req[a].at =>
                        cache[Order[n]] = DefaultIn(rows, Order[n])

\* An engine that is closed is the singleton only while an invalidation that
\* awaits its disposal has not dropped it yet.
EngineInv == engine.id # 0 /\ engine.id \notin open => \E a \in Admins : At(a, "disposing")


-----------------------------------------------------------------------------
(* Rows                                                                      *)

\* What every handler keeps of the rows of the three tables.
OneDefault(r) ==
    /\ \A i, j \in Ids : (r[i].default /\ r[j].default /\ Kind[i] = Kind[j]) => i = j
    /\ \A i \in Ids : r[i].default => r[i].exists
RowsOK(r) ==
    /\ r \in [Ids -> RowType]
    /\ \A i \in Ids : r[i].exists => r[i].ver > 0
    /\ OneDefault(r)

ConfigInv == TypeOK /\ RowsOK(rows) /\ AtWork /\ FreshInv /\ EngineInv

\* The default of a kind is a row that was inserted, or the environment.
LEMMA DefaultInType ==
  ASSUME NEW r, RowsOK(r), NEW k
  PROVE  DefaultIn(r, k) \in Config
<1>1. CASE Candidates(r, k) = {}
  BY <1>1 DEF DefaultIn, Config
<1>2. CASE Candidates(r, k) # {}
  <2>1. PICK c \in Candidates(r, k) : c = CHOOSE i \in Candidates(r, k) : TRUE
    BY <1>2
  <2>2. c \in Ids /\ r[c].exists
    BY DEF Candidates
  <2>3. r[c] \in RowType /\ r[c].ver > 0
    BY <2>2 DEF RowsOK
  <2>4. r[c].ver \in 1 .. MaxVer
    BY <2>3, RuntimeConfigAssumption DEF RowType
  <2>5. DefaultIn(r, k) = [id |-> c, ver |-> r[c].ver]
    BY <1>2, <2>1 DEF DefaultIn, Of
  <2>6. QED  BY <2>2, <2>4, <2>5 DEF Config
<1>3. QED  BY <1>1, <1>2

\* A row may be replaced by one that exists, if no other of its kind is default.
LEMMA RowPut ==
  ASSUME NEW r, RowsOK(r), NEW i \in Ids, NEW new \in RowType,
         new.exists => new.ver > 0,
         new.default => /\ new.exists
                        /\ \A j \in Ids \ {i} : Kind[j] = Kind[i] => ~r[j].default
  PROVE  RowsOK([r EXCEPT ![i] = new])
<1> DEFINE w == [r EXCEPT ![i] = new]
<1>1. w \in [Ids -> RowType]
  BY DEF RowsOK
<1>2. w[i] = new /\ \A j \in Ids \ {i} : w[j] = r[j]
  BY DEF RowsOK
<1> HIDE DEF w
<1>3. \A j \in Ids : w[j].exists => w[j].ver > 0
  BY <1>2 DEF RowsOK
<1>4. OneDefault(w)
  BY <1>2 DEF RowsOK, OneDefault
<1>5. RowsOK(w)
  BY <1>1, <1>3, <1>4 DEF RowsOK
<1>6. QED  BY <1>5 DEF w

\* _clear_default: no row of the kind is default afterwards.
LEMMA DefaultClears ==
  ASSUME NEW r, RowsOK(r), NEW i \in Ids
  PROVE  /\ RowsOK(Default(r, i))
         /\ \A j \in Ids : Kind[j] = Kind[i] => ~Default(r, i)[j].default
         /\ \A j \in Ids : /\ Default(r, i)[j].exists = r[j].exists
                           /\ Default(r, i)[j].ver = r[j].ver
                           /\ Default(r, i)[j].default => r[j].default
<1> DEFINE w == Default(r, i)
<1>1. ASSUME NEW j \in Ids
      PROVE  /\ w[j] \in RowType /\ w[j].exists = r[j].exists /\ w[j].ver = r[j].ver
             /\ w[j].default => r[j].default
             /\ Kind[j] = Kind[i] => ~w[j].default
  <2>1. r[j] \in RowType /\ (r[j].default => r[j].exists)
    BY DEF RowsOK, OneDefault
  <2>2. CASE Kind[j] = Kind[i] /\ r[j].exists
    <3>1. w[j] = [r[j] EXCEPT !.default = FALSE]
      BY <2>2 DEF Default
    <3>2. QED  BY <2>1, <3>1 DEF RowType
  <2>3. CASE ~(Kind[j] = Kind[i] /\ r[j].exists)
    <3>1. w[j] = r[j]
      BY <2>3 DEF Default
    <3>2. QED  BY <2>1, <2>3, <3>1
  <2>4. QED  BY <2>2, <2>3
<1>2. w \in [Ids -> RowType]
  <2>1. w = [j \in Ids |-> w[j]]
    BY DEF Default
  <2>2. QED  BY <1>1, <2>1
<1> HIDE DEF w
<1>3. (\A j \in Ids : w[j].exists => w[j].ver > 0) /\ OneDefault(w)
  BY <1>1 DEF RowsOK, OneDefault
<1>4. RowsOK(w)
  BY <1>2, <1>3 DEF RowsOK
<1>5. QED  BY <1>1, <1>4 DEF w

\* However the statements of a handler meet the rows of now, they keep them right.
LEMMA WrittenRows ==
  ASSUME NEW r, RowsOK(r), NEW o \in Ops, o.edit => r[o.row].ver < MaxVer
  PROVE  RowsOK(Written(r, o))
<1> DEFINE i == o.row
<1>0. i \in Ids /\ o.on \in BOOLEAN /\ o.default \in BOOLEAN /\ o.edit \in BOOLEAN
  BY DEF Ops
<1>r. r[i] \in RowType /\ (r[i].exists => r[i].ver > 0)
  BY <1>0 DEF RowsOK
<1> HIDE DEF i
<1>1. CASE o.do = "create"
  <2> DEFINE base == IF o.default THEN Default(r, i) ELSE r
             new == [exists |-> TRUE, on |-> o.on, default |-> o.default, ver |-> 1]
  <2>1. RowsOK(base) /\ (o.default => \A j \in Ids : Kind[j] = Kind[i] => ~base[j].default)
    BY <1>0, DefaultClears
  <2>2. new \in RowType
    BY <1>0, RuntimeConfigAssumption DEF RowType
  <2>3. RowsOK([base EXCEPT ![i] = new])
    <3> HIDE DEF base
    <3>1. new.exists /\ new.ver > 0 /\ new.default = o.default
      OBVIOUS
    <3> HIDE DEF new
    <3>2. QED  BY <1>0, <2>1, <2>2, <3>1, RowPut
  <2>4. Written(r, o) = [base EXCEPT ![i] = new]
    BY <1>1 DEF Written, i
  <2>5. QED  BY <2>3, <2>4
<1>2. CASE o.do = "delete"
  <2> DEFINE new == [r[i] EXCEPT !.exists = FALSE, !.default = FALSE]
  <2>1. new \in RowType /\ ~new.exists /\ ~new.default
    BY <1>r DEF RowType
  <2>2. Written(r, o) = [r EXCEPT ![i] = new]
    BY <1>2 DEF Written, i
  <2> HIDE DEF new
  <2>3. RowsOK([r EXCEPT ![i] = new])
    BY <1>0, <2>1, RowPut
  <2>4. QED  BY <2>2, <2>3
<1>3. CASE o.do = "set_default" /\ r[i].exists
  <2> DEFINE base == Default(r, i)
             new == [base[i] EXCEPT !.default = TRUE]
  <2>1. /\ RowsOK(base) /\ \A j \in Ids : Kind[j] = Kind[i] => ~base[j].default
        /\ base[i].exists /\ base[i].ver > 0
    BY <1>0, <1>r, <1>3, DefaultClears
  <2>2. Written(r, o) = [base EXCEPT ![i] = new]
    BY <1>3 DEF Written, i
  <2> HIDE DEF base
  <2>3. base[i] \in RowType
    BY <1>0, <2>1 DEF RowsOK
  <2>4. new \in RowType /\ new.exists /\ new.ver > 0
    BY <2>1, <2>3 DEF RowType
  <2> HIDE DEF new
  <2>5. QED  BY <1>0, <2>1, <2>2, <2>4, RowPut, ZenonT(60)
<1>4. CASE o.do = "set_default" /\ ~r[i].exists
  BY <1>0, <1>4, DefaultClears DEF Written, i
<1>5. CASE o.do = "update" /\ r[i].exists
  <2> DEFINE new == [r[i] EXCEPT !.on = o.on, !.ver = IF o.edit THEN @ + 1 ELSE @]
  <2>1. Written(r, o) = [r EXCEPT ![i] = new]
    BY <1>5 DEF Written, i
  <2>2. new.exists = r[i].exists /\ new.default = r[i].default
    BY <1>r DEF RowType
  <2>3. new \in RowType /\ new.ver > 0
    <3>1. r[i].ver \in 0 .. MaxVer /\ r[i].ver > 0 /\ (o.edit => r[i].ver < MaxVer)
      BY <1>r, <1>5 DEF RowType, i
    <3> DEFINE v == IF o.edit THEN r[i].ver + 1 ELSE r[i].ver
    <3>2. v \in 0 .. MaxVer /\ v > 0
      BY <3>1, RuntimeConfigAssumption
    <3>3. new = [r[i] EXCEPT !.on = o.on, !.ver = v]
      BY <1>r DEF RowType
    <3> HIDE DEF v
    <3>4. QED  BY <1>0, <1>r, <3>2, <3>3 DEF RowType
  <2> HIDE DEF new
  <2>4. new.default => \A j \in Ids \ {i} : Kind[j] = Kind[i] => ~r[j].default
    BY <1>0, <2>2 DEF RowsOK, OneDefault
  <2>5. RowsOK([r EXCEPT ![i] = new])
    BY <1>0, <1>5, <2>2, <2>3, <2>4, RowPut
  <2>6. QED  BY <2>1, <2>5
<1>6. CASE o.do = "test" \/ (o.do = "update" /\ ~r[i].exists)
  BY <1>6 DEF Written, i
<1>7. QED
  <2>1. o.do \in {"create", "update", "delete", "set_default", "test"}
    BY DEF Ops
  <2>2. QED  BY <1>1, <1>2, <1>3, <1>4, <1>5, <1>6, <2>1

-----------------------------------------------------------------------------
(* Types                                                                     *)

LEMMA RequestTypes ==
  /\ NoOp \notin Ops /\ NoRequest \in ReqType /\ NoView \in [Kinds -> Config]
  /\ Len(Order) = 4 /\ \A n \in 1 .. 4 : Order[n] \in Kinds
<1>1. NoOp \notin Ops
  BY RuntimeConfigAssumption DEF NoOp, Ops
<1>2. NoView \in [Kinds -> Config]
  BY DEF NoView, Config
<1>3. Len(Order) = 4
  BY DEF Order
<1>4. NoRequest \in ReqType
  BY <1>2, <1>3 DEF NoRequest, ReqType
<1>5. ASSUME NEW n \in 1 .. 4 PROVE Order[n] \in Kinds
  BY <1>5 DEF Order, Kinds
<1>6. QED  BY <1>1, <1>2, <1>3, <1>4, <1>5

\* What a step of administrator a makes of its request; the others keep theirs.
LEMMA RequestPut ==
  ASSUME req \in [Admins -> ReqType], NEW a \in Admins, NEW new \in ReqType,
         req' = [req EXCEPT ![a] = new]
  PROVE  req' \in [Admins -> ReqType] /\ req'[a] = new /\ \A b \in Admins \ {a} : req'[b] = req[b]
  OBVIOUS

\* The same, for a request that only moves on.
LEMMA Moves ==
  ASSUME req \in [Admins -> ReqType], NEW a \in Admins,
         NEW s \in {"refresh", "disposing"}, Goto(a, s)
  PROVE  /\ req' \in [Admins -> ReqType] /\ \A b \in Admins \ {a} : req'[b] = req[b]
         /\ req'[a].pc = s /\ req'[a].op = req[a].op
<1> DEFINE new == [req[a] EXCEPT !.pc = s]
<1>1. new \in ReqType /\ new.pc = s /\ new.op = req[a].op
  BY DEF ReqType
<1>2. req' = [req EXCEPT ![a] = new]
  BY DEF Goto
<1> HIDE DEF new
<1>3. QED  BY <1>1, <1>2, RequestPut

LEMMA Ends ==
  ASSUME req \in [Admins -> ReqType], NEW a \in Admins, End(a)
  PROVE  /\ req' \in [Admins -> ReqType] /\ \A b \in Admins \ {a} : req'[b] = req[b]
         /\ req'[a].pc = "idle"
<1>1. req' = [req EXCEPT ![a] = NoRequest] /\ NoRequest.pc = "idle"
  BY DEF End, NoRequest
<1>2. QED  BY <1>1, RequestTypes, RequestPut

\* After an assignment the refresh goes on with the next kind, or is done.
LEMMA AfterAssignment ==
  ASSUME req \in [Admins -> ReqType], NEW a \in Admins, NEW n \in 2 .. 5, At(a, "assign"),
         AfterAssign(a, n)
  PROVE  /\ req' \in [Admins -> ReqType] /\ \A b \in Admins \ {a} : req'[b] = req[b]
         /\ req'[a].op = req[a].op \/ req'[a].pc = "idle"
         /\ n <= 4 => req'[a].pc = "assign" /\ req'[a].at = n /\ req'[a].view = req[a].view
         /\ n = 5 => req'[a].pc \in {"idle", "invalidate"}
<1>1. CASE n <= 4
  <2> DEFINE new == [req[a] EXCEPT !.at = n]
  <2>1. new \in ReqType /\ new.pc = "assign" /\ new.at = n /\ new.view = req[a].view /\ new.op = req[a].op
    BY <1>1, RequestTypes DEF ReqType, At
  <2>2. req' = [req EXCEPT ![a] = new]
    BY <1>1, RequestTypes DEF AfterAssign
  <2> HIDE DEF new
  <2>3. QED  BY <1>1, <2>1, <2>2, RequestPut
<1>2. CASE n = 5 /\ Invalidates(req[a].op, req[a].seen)
  <2> DEFINE new == [req[a] EXCEPT !.pc = "invalidate", !.view = NoView, !.at = 0]
  <2>0. NoView \in [Kinds -> Config] /\ 0 \in 0 .. Len(Order) /\ ~(n <= Len(Order)) /\ req[a] \in ReqType
    BY <1>2, RequestTypes
  <2>1. new \in ReqType /\ new.pc = "invalidate" /\ new.op = req[a].op
    <3> DEFINE half == [req[a] EXCEPT !.pc = "invalidate", !.view = NoView]
    <3>1. half \in ReqType /\ half.pc = "invalidate" /\ half.op = req[a].op
      <4> HIDE DEF NoView
      <4>1. QED  BY <2>0 DEF ReqType
    <3>2. new = [half EXCEPT !.at = 0]
      OBVIOUS
    <3> HIDE DEF half, new
    <3>3. QED  BY <2>0, <3>1, <3>2 DEF ReqType
  <2>2. req' = [req EXCEPT ![a] = new]
    BY <1>2, <2>0 DEF AfterAssign
  <2> HIDE DEF new
  <2>3. QED  BY <1>2, <2>1, <2>2, RequestPut
<1>3. CASE n = 5 /\ ~Invalidates(req[a].op, req[a].seen)
  <2>1. End(a)
    BY <1>3, RequestTypes DEF AfterAssign
  <2>2. QED  BY <1>3, <2>1, Ends
<1>4. QED  BY <1>1, <1>2, <1>3

LEMMA AtWorkStep ==
  ASSUME AtWork, NEW a \in Admins, \A b \in Admins \ {a} : req'[b] = req[b],
         req'[a].pc # "idle" => req'[a].op \in Ops,
         req'[a].pc = "assign" => req'[a].at > 0
  PROVE  AtWork'
BY DEF AtWork, Working, At

EngineType == [id : 0 .. made, url : Config, driver : {"none", "async", "excel", "sync", "http"}]
EnginesOK == engine \in EngineType /\ made \in 0 .. MaxEngines /\ open \subseteq 1 .. made

\* The parts of the type invariant that the steps of an administrator change.
LEMMA TypeParts ==
  /\ TypeOK => /\ rows \in [Ids -> RowType] /\ cache \in [Kinds -> Config] /\ EnginesOK
                /\ req \in [Admins -> ReqType] /\ requests \in 0 .. MaxRequests
                /\ faults \in 0 .. MaxFaults /\ stale \in BOOLEAN
                /\ qpc \in [Queries -> {"idle", "mirror", "running", "failed", "done"}]
                /\ runs \in [Queries -> Config]
  /\ (/\ RowsOK(rows') /\ cache' \in [Kinds -> Config] /\ EnginesOK'
      /\ req' \in [Admins -> ReqType] /\ requests' \in 0 .. MaxRequests
      /\ faults' \in 0 .. MaxFaults /\ stale' \in BOOLEAN
      /\ qpc' \in [Queries -> {"idle", "mirror", "running", "failed", "done"}]
      /\ runs' \in [Queries -> Config]) => TypeOK'
BY DEF TypeOK, RowType, ReqType, EngineType, EnginesOK, RowsOK

\* A handler keeps the types, the rows right, and knows what it is doing.
LEMMA AdminTypes ==
  ASSUME TypeOK, RowsOK(rows), AtWork, NEW a \in Admins, AdminStep(a)
  PROVE  TypeOK' /\ RowsOK(rows') /\ AtWork'
<1>0. /\ rows \in [Ids -> RowType] /\ cache \in [Kinds -> Config] /\ EnginesOK
      /\ req \in [Admins -> ReqType] /\ requests \in 0 .. MaxRequests
      /\ faults \in 0 .. MaxFaults /\ stale \in BOOLEAN
      /\ qpc \in [Queries -> {"idle", "mirror", "running", "failed", "done"}]
      /\ runs \in [Queries -> Config]
  BY TypeParts
<1>q. qpc' = qpc /\ runs' = runs
  BY DEF AdminStep, Request, Write, WriteFails, RefreshReads, TestOfNoDefault, Assign,
     RefreshFails, Dispose, DropEngine, queryVars
<1>r. req[a] \in ReqType
  BY <1>0
<1>1. ASSUME NEW o \in Ops, Request(a, o)
      PROVE  TypeOK' /\ RowsOK(rows') /\ AtWork'
  <2>1. /\ rows' = rows /\ cache' = cache /\ UNCHANGED engineVars /\ faults' = faults
        /\ requests' \in 0 .. MaxRequests /\ stale' \in BOOLEAN
    <3>1. /\ rows' = rows /\ cache' = cache /\ UNCHANGED engineVars /\ faults' = faults
          /\ requests < MaxRequests /\ requests' = requests + 1
          /\ stale' = (stale \/ OthersWork(a))
      BY <1>1 DEF Request
    <3>2. requests' \in 0 .. MaxRequests
      BY <1>0, <3>1, RuntimeConfigAssumption
    <3>3. QED  BY <3>1, <3>2
  <2>2. req' \in [Admins -> ReqType] /\ AtWork'
    <3> DEFINE begun(x) == [NoRequest EXCEPT !.pc = "write", !.op = o, !.seen = x]
    <3>1. ASSUME NEW x \in BOOLEAN, req' = [req EXCEPT ![a] = begun(x)]
          PROVE  req' \in [Admins -> ReqType] /\ AtWork'
      <4> DEFINE half == [NoRequest EXCEPT !.pc = "write", !.op = o]
      <4>1. begun(x) = [half EXCEPT !.seen = x]
        OBVIOUS
      <4>2. begun(x) \in ReqType /\ begun(x).pc = "write" /\ begun(x).op = o
        <5>1. half \in ReqType /\ half.pc = "write" /\ half.op = o
          <6>1. NoRequest \in ReqType
            BY RequestTypes
          <6>2. QED  BY <6>1 DEF ReqType
        <5> HIDE DEF begun, half
        <5>2. QED  BY <4>1, <5>1 DEF ReqType
      <4> HIDE DEF begun
      <4>3. req' \in [Admins -> ReqType] /\ req'[a] = begun(x) /\ \A b \in Admins \ {a} : req'[b] = req[b]
        BY <1>0, <3>1, <4>2, RequestPut
      <4>4. QED  BY <4>2, <4>3, AtWorkStep
    <3>2. CASE req' = req
      BY <1>0, <3>2 DEF AtWork, Working, At
    <3>3. (\E x \in BOOLEAN : req' = [req EXCEPT ![a] = begun(x)]) \/ req' = req
      <4>1. o.default \in BOOLEAN /\ rows[o.row].default \in BOOLEAN
        BY <1>0 DEF Ops, RowType
      <4>2. \/ req' = [req EXCEPT ![a] = begun(o.default)]
            \/ req' = [req EXCEPT ![a] = begun(rows[o.row].default)]
            \/ req' = req
        BY <1>1 DEF Request, NoRequest
      <4> HIDE DEF begun
      <4>3. QED  BY <4>1, <4>2
    <3> HIDE DEF begun
    <3>4. QED  BY <3>1, <3>2, <3>3
  <2>3. EnginesOK'
    BY <1>0, <2>1 DEF EnginesOK, EngineType, engineVars
  <2>4. QED  BY <1>0, <1>q, <2>1, <2>2, <2>3, TypeParts
<1>2. CASE Write(a)
  <2>0. req[a].op \in Ops
    BY <1>2 DEF Write, AtWork, At, Working
  <2>1. RowsOK(rows')
    BY <1>2, <2>0, WrittenRows DEF Write
  <2>2. /\ cache' = cache /\ UNCHANGED engineVars /\ faults' = faults
        /\ requests' = requests /\ stale' = stale
    BY <1>2 DEF Write
  <2>3. req' \in [Admins -> ReqType] /\ AtWork'
    <3>1. CASE Goto(a, "refresh")
      BY <1>0, <2>0, <3>1, Moves, AtWorkStep
    <3>2. CASE End(a)
      BY <1>0, <3>2, Ends, AtWorkStep
    <3>3. QED  BY <1>2, <3>1, <3>2 DEF Write
  <2>4. EnginesOK'
    BY <1>0, <2>2 DEF EnginesOK, EngineType, engineVars
  <2>5. QED  BY <1>0, <1>q, <2>1, <2>2, <2>3, <2>4, TypeParts
<1>3. CASE WriteFails(a) \/ TestOfNoDefault(a)
  <2>1. /\ rows' = rows /\ cache' = cache /\ UNCHANGED engineVars /\ End(a)
        /\ requests' = requests /\ stale' = stale
        /\ (faults < MaxFaults /\ faults' = faults + 1) \/ faults' = faults
    BY <1>3 DEF WriteFails, TestOfNoDefault
  <2>2. faults' \in 0 .. MaxFaults
    BY <1>0, <2>1, RuntimeConfigAssumption
  <2>3. req' \in [Admins -> ReqType] /\ AtWork'
    BY <1>0, <2>1, Ends, AtWorkStep
  <2>4. EnginesOK'
    BY <1>0, <2>1 DEF EnginesOK, EngineType, engineVars
  <2>5. QED  BY <1>0, <1>q, <2>1, <2>2, <2>3, <2>4, TypeParts
<1>4. CASE RefreshReads(a)
  <2> DEFINE v == [k \in Kinds |-> DefaultIn(rows, k)]
             half == [req[a] EXCEPT !.pc = "assign", !.at = 1]
             new == [half EXCEPT !.view = v]
  <2>1. /\ rows' = rows /\ cache' = cache /\ UNCHANGED engineVars /\ faults' = faults
        /\ requests' = requests /\ stale' \in BOOLEAN /\ req' = [req EXCEPT ![a] = new]
        /\ At(a, "refresh")
    BY <1>4 DEF RefreshReads
  <2>2. v \in [Kinds -> Config]
    BY DefaultInType
  <2>3. half \in ReqType /\ half.pc = "assign" /\ half.at = 1 /\ half.op = req[a].op
    <3>1. 1 \in 0 .. Len(Order)
      BY RequestTypes
    <3>2. QED  BY <1>r, <3>1 DEF ReqType
  <2> HIDE DEF v, half
  <2>4. new \in ReqType /\ new.pc = "assign" /\ new.at = 1 /\ new.op = req[a].op
    BY <2>2, <2>3 DEF ReqType
  <2> HIDE DEF new
  <2>5. req' \in [Admins -> ReqType] /\ req'[a] = new /\ \A b \in Admins \ {a} : req'[b] = req[b]
    BY <1>0, <2>1, <2>4, RequestPut
  <2>6. req[a].op \in Ops
    BY <2>1 DEF AtWork, At, Working
  <2>7. AtWork'
    BY <2>4, <2>5, <2>6, AtWorkStep
  <2>8. EnginesOK'
    BY <1>0, <2>1 DEF EnginesOK, EngineType, engineVars
  <2>9. QED  BY <1>0, <1>q, <2>1, <2>5, <2>7, <2>8, TypeParts
<1>5. CASE Assign(a) \/ RefreshFails(a)
  <2>1. /\ rows' = rows /\ UNCHANGED engineVars /\ requests' = requests /\ stale' \in BOOLEAN
        /\ (faults < MaxFaults /\ faults' = faults + 1) \/ faults' = faults
        /\ At(a, "assign")
    BY <1>0, <1>5 DEF Assign, RefreshFails
  <2>2. faults' \in 0 .. MaxFaults
    BY <1>0, <2>1, RuntimeConfigAssumption
  <2>3. req[a].at \in 1 .. 4 /\ req[a].op \in Ops /\ req[a].view \in [Kinds -> Config]
    BY <1>r, <2>1, RequestTypes DEF AtWork, ReqType, At, Working
  <2>4. cache' \in [Kinds -> Config]
    <3>1. CASE Assign(a)
      BY <1>0, <2>3, <3>1, RequestTypes DEF Assign
    <3>2. CASE RefreshFails(a)
      <4>1. Env \in Config
        BY DEF Config
      <4>2. QED  BY <1>0, <3>2, <4>1 DEF RefreshFails
    <3>3. QED  BY <1>5, <3>1, <3>2
  <2>5. PICK n \in 2 .. 5 : AfterAssign(a, n)
    <3>1. req[a].at + 1 \in 2 .. 5
      BY <2>3
    <3>2. CASE Assign(a)
      BY <3>1, <3>2 DEF Assign
    <3>3. CASE RefreshFails(a)
      <4>1. AfterAssign(a, 4) \/ AfterAssign(a, 5)
        BY <3>3, RequestTypes DEF RefreshFails
      <4>2. QED  BY <4>1
    <3>4. QED  BY <1>5, <3>2, <3>3
  <2>6. req' \in [Admins -> ReqType] /\ AtWork'
    <3>1. /\ req' \in [Admins -> ReqType] /\ \A b \in Admins \ {a} : req'[b] = req[b]
          /\ req'[a].op = req[a].op \/ req'[a].pc = "idle"
          /\ n <= 4 => req'[a].pc = "assign" /\ req'[a].at = n
          /\ n = 5 => req'[a].pc \in {"idle", "invalidate"}
      BY <1>0, <2>1, <2>5, AfterAssignment
    <3>2. req'[a].pc = "assign" => req'[a].at > 0
      BY <3>1
    <3>3. QED  BY <2>3, <3>1, <3>2, AtWorkStep
  <2>7. EnginesOK'
    BY <1>0, <2>1 DEF EnginesOK, EngineType, engineVars
  <2>8. QED  BY <1>0, <1>q, <2>1, <2>2, <2>4, <2>6, <2>7, TypeParts
<1>6. CASE Dispose(a)
  <2>1. /\ rows' = rows /\ cache' = cache /\ engine' = engine /\ made' = made /\ faults' = faults
        /\ requests' = requests /\ stale' = stale /\ open' \subseteq open
        /\ At(a, "invalidate") /\ Goto(a, "disposing")
    BY <1>6 DEF Dispose
  <2>2. req[a].op \in Ops
    BY <2>1 DEF AtWork, At, Working
  <2>3. req' \in [Admins -> ReqType] /\ AtWork'
    BY <1>0, <2>1, <2>2, Moves, AtWorkStep
  <2>4. EnginesOK'
    BY <1>0, <2>1 DEF EnginesOK, EngineType
  <2>5. QED  BY <1>0, <1>q, <2>1, <2>3, <2>4, TypeParts
<1>7. CASE DropEngine(a)
  <2>1. /\ rows' = rows /\ cache' = cache /\ engine' = NoEngine /\ made' = made /\ faults' = faults
        /\ requests' = requests /\ stale' = stale /\ open' \subseteq open /\ End(a)
    BY <1>7 DEF DropEngine
  <2>2. req' \in [Admins -> ReqType] /\ AtWork'
    BY <1>0, <2>1, Ends, AtWorkStep
  <2>3. EnginesOK'
    <3>1. Env \in Config /\ 0 \in 0 .. made
      BY <1>0 DEF Config, EnginesOK
    <3>2. QED  BY <1>0, <2>1, <3>1 DEF EnginesOK, EngineType, NoEngine
  <2>4. QED  BY <1>0, <1>q, <2>1, <2>2, <2>3, TypeParts
<1>8. QED  BY <1>1, <1>2, <1>3, <1>4, <1>5, <1>6, <1>7 DEF AdminStep

\* Asking for the engine keeps its types: a new one takes the next number.
LEMMA GetEngineTypes ==
  ASSUME EnginesOK, cache \in [Kinds -> Config], GetEngine
  PROVE  EnginesOK'
<1>0. /\ engine \in EngineType /\ made \in 0 .. MaxEngines /\ open \subseteq 1 .. made
      /\ cache["ds"] \in Config
  BY DEF EnginesOK, Kinds
<1>1. CASE Fitting
  BY <1>0, <1>1 DEF GetEngine, engineVars, EnginesOK, EngineType
<1>2. CASE ~Fitting /\ DriverOf(cache["ds"]) = "http"
  <2>1. /\ engine' = [id |-> 0, url |-> cache["ds"], driver |-> "http"]
        /\ made' = made /\ open' = open
    BY <1>2 DEF GetEngine
  <2>2. engine' \in EngineType'
    BY <1>0, <2>1 DEF EngineType
  <2>3. QED  BY <1>0, <2>1, <2>2 DEF EnginesOK
<1>3. CASE ~Fitting /\ DriverOf(cache["ds"]) # "http"
  <2>1. /\ made < MaxEngines /\ made' = made + 1
        /\ engine' = [id |-> made', url |-> cache["ds"], driver |-> DriverOf(cache["ds"])]
        /\ open' = open \cup {made'}
    BY <1>3 DEF GetEngine
  <2>2. made' \in 0 .. MaxEngines /\ made' \in 0 .. made' /\ open' \subseteq 1 .. made'
    BY <1>0, <2>1, RuntimeConfigAssumption
  <2>3. DriverOf(cache["ds"]) \in {"async", "excel", "sync", "http"}
    BY <1>0, RuntimeConfigAssumption DEF DriverOf, Config, Env
  <2>4. engine' \in EngineType'
    <3> DEFINE d == DriverOf(cache["ds"])
               c == cache["ds"]
    <3>1. /\ engine' = [id |-> made', url |-> c, driver |-> d] /\ c \in Config
          /\ d \in {"async", "excel", "sync", "http"} /\ made' \in 0 .. made'
      BY <1>0, <2>1, <2>2, <2>3
    <3> HIDE DEF d, c
    <3>2. QED  BY <3>1 DEF EngineType
  <2>5. QED  BY <2>2, <2>4 DEF EnginesOK
<1>4. QED  BY <1>1, <1>2, <1>3

\* A query changes nothing an administrator's handler reads.
LEMMA QueryTypes ==
  ASSUME TypeOK, RowsOK(rows), NEW q \in Queries, QueryStep(q)
  PROVE  TypeOK' /\ UNCHANGED <<rows, cache, adminVars, faults, stale>>
<1>0. /\ rows \in [Ids -> RowType] /\ cache \in [Kinds -> Config] /\ EnginesOK
      /\ req \in [Admins -> ReqType] /\ requests \in 0 .. MaxRequests
      /\ faults \in 0 .. MaxFaults /\ stale \in BOOLEAN
      /\ qpc \in [Queries -> {"idle", "mirror", "running", "failed", "done"}]
      /\ runs \in [Queries -> Config]
  BY TypeParts
<1>1. UNCHANGED <<rows, cache, adminVars, faults, stale>>
  BY DEF QueryStep, Execute, Mirrored, Answer
<1>2. EnginesOK'
  <2>1. CASE GetEngine
    BY <1>0, <2>1, GetEngineTypes
  <2>2. CASE UNCHANGED engineVars
    BY <1>0, <2>2 DEF EnginesOK, EngineType, engineVars
  <2>3. QED  BY <2>1, <2>2 DEF QueryStep, Execute, Mirrored, Answer
<1>3. /\ qpc' \in [Queries -> {"idle", "mirror", "running", "failed", "done"}]
      /\ runs' \in [Queries -> Config]
  <2>1. cache["ds"] \in Config
    BY <1>0 DEF Kinds
  <2>2. /\ \E s \in {"mirror", "running", "failed", "done"} : qpc' = [qpc EXCEPT ![q] = s]
        /\ runs' = runs \/ runs' = [runs EXCEPT ![q] = cache["ds"]]
    BY DEF QueryStep, Execute, Mirrored, Answer
  <2>3. QED  BY <1>0, <2>1, <2>2
<1>4. RowsOK(rows')
  BY <1>1
<1>5. QED  BY <1>0, <1>1, <1>2, <1>3, <1>4, TypeParts DEF adminVars

LEMMA InitConfig == Init => TypeOK /\ RowsOK(rows) /\ AtWork /\ FreshInv /\ EngineInv
<1> SUFFICES ASSUME Init PROVE TypeOK /\ RowsOK(rows) /\ AtWork /\ FreshInv /\ EngineInv
  OBVIOUS
<1>1. RowsOK(rows)
  <2>1. ASSUME NEW i \in Ids
        PROVE  /\ rows[i] \in RowType /\ (rows[i].exists => rows[i].ver > 0)
               /\ rows[i].default => i \in Seeded /\ rows[i].exists
    <3>1. rows[i] = [exists |-> i \in Seeded, on |-> TRUE, default |-> i \in Seeded,
                     ver |-> IF i \in Seeded THEN 1 ELSE 0]
      BY DEF Init
    <3>2. 0 \in 0 .. MaxVer /\ 1 \in 0 .. MaxVer
      BY RuntimeConfigAssumption
    <3>3. CASE i \in Seeded
      <4>1. rows[i] = [exists |-> TRUE, on |-> TRUE, default |-> TRUE, ver |-> 1]
        BY <3>1, <3>3
      <4>2. rows[i] \in RowType
        BY <3>2, <4>1 DEF RowType
      <4>3. rows[i].ver = 1 /\ rows[i].exists
        BY <4>1
      <4>4. QED  BY <3>3, <4>2, <4>3
    <3>4. CASE i \notin Seeded
      <4>1. (i \in Seeded) = FALSE
        BY <3>4
      <4>2. rows[i] = [exists |-> FALSE, on |-> TRUE, default |-> FALSE, ver |-> 0]
        BY <3>1, <3>4, <4>1, Zenon
      <4>3. rows[i] \in RowType
        BY <3>2, <4>2 DEF RowType
      <4>4. ~rows[i].exists /\ ~rows[i].default
        BY <4>2
      <4>5. QED  BY <4>3, <4>4
    <3>5. QED  BY <3>3, <3>4
  <2>2. rows \in [Ids -> RowType]
    <3>1. rows = [i \in Ids |-> rows[i]]
      BY DEF Init
    <3>2. QED  BY <2>1, <3>1
  <2>3. \A i \in Ids : rows[i].exists => rows[i].ver > 0
    BY <2>1
  <2>4. OneDefault(rows)
    BY <2>1, RuntimeConfigAssumption DEF OneDefault
  <2>5. QED  BY <2>2, <2>3, <2>4 DEF RowsOK
<1>2. req \in [Admins -> ReqType] /\ \A a \in Admins : req[a] = NoRequest /\ req[a].pc = "idle"
  BY RequestTypes DEF Init, NoRequest
<1>3. TypeOK
  <2>1. rows \in [Ids -> RowType]
    BY <1>1 DEF RowsOK
  <2>2. cache \in [Kinds -> Config]
    BY <1>1, DefaultInType DEF Init
  <2>3. EnginesOK
    BY RuntimeConfigAssumption DEF Init, EnginesOK, EngineType, NoEngine, Config
  <2>4. /\ qpc \in [Queries -> {"idle", "mirror", "running", "failed", "done"}]
        /\ runs \in [Queries -> Config] /\ requests \in 0 .. MaxRequests
        /\ faults \in 0 .. MaxFaults /\ stale \in BOOLEAN
    <3>1. Env \in Config
      BY DEF Config
    <3>2. /\ qpc \in [Queries -> {"idle", "mirror", "running", "failed", "done"}]
          /\ runs \in [Queries -> Config]
      BY <3>1 DEF Init
    <3>3. requests \in 0 .. MaxRequests /\ faults \in 0 .. MaxFaults /\ stale \in BOOLEAN
      <4>1. requests = 0 /\ faults = 0 /\ stale = FALSE
        BY DEF Init
      <4>2. requests \in 0 .. MaxRequests /\ faults \in 0 .. MaxFaults
        BY <4>1, RuntimeConfigAssumption
      <4>3. QED  BY <4>1, <4>2
    <3>4. QED  BY <3>2, <3>3
  <2>5. QED  BY <1>2, <2>1, <2>2, <2>3, <2>4 DEF TypeOK, RowType, ReqType, EngineType, EnginesOK
<1>4. AtWork
  BY <1>2 DEF AtWork, Working, At
<1>5. FreshInv
  <2>1. Serves
    BY DEF Init, Serves
  <2>2. QED  BY <1>2, <2>1 DEF FreshInv, Working, At, Quiet
<1>6. EngineInv
  BY DEF Init, EngineInv, NoEngine
<1>7. QED  BY <1>1, <1>3, <1>4, <1>5, <1>6

\* A step that changes nothing.
LEMMA StutterConfig == ConfigInv /\ UNCHANGED vars => ConfigInv'
<1> SUFFICES ASSUME ConfigInv, UNCHANGED vars PROVE ConfigInv'
  OBVIOUS
<1>0. /\ rows' = rows /\ cache' = cache /\ engine' = engine /\ open' = open /\ made' = made
      /\ req' = req /\ requests' = requests /\ qpc' = qpc /\ runs' = runs
      /\ faults' = faults /\ stale' = stale
  BY DEF vars, engineVars, adminVars, queryVars
<1>1. TypeOK'
  BY <1>0 DEF ConfigInv, TypeOK
<1>2. RowsOK(rows')
  BY <1>0 DEF ConfigInv
<1>3. AtWork'
  BY <1>0 DEF ConfigInv, AtWork, Working, At
<1>4. FreshInv'
  BY <1>0, Zenon DEF ConfigInv, FreshInv, Serves, Quiet, Working, At
<1>5. EngineInv'
  BY <1>0 DEF ConfigInv, EngineInv, At
<1>6. QED  BY <1>1, <1>2, <1>3, <1>4, <1>5 DEF ConfigInv

-----------------------------------------------------------------------------
(* The cache                                                                 *)

\* What is to be shown of the only request at work.
LEMMA FreshPut ==
  ASSUME NEW a \in Admins, \A b \in Admins \ {a} : req'[b].pc = "idle",
         req'[a].pc \in {"idle", "write", "invalidate", "disposing"} => Serves',
         req'[a].pc = "refresh" /\ req'[a].op.do = "test" => Serves',
         req'[a].pc = "assign" =>
            /\ \A k \in Kinds : req'[a].view[k] = DefaultIn(rows', k)
            /\ \A n \in 1 .. Len(Order) : n < req'[a].at => cache'[Order[n]] = DefaultIn(rows', Order[n])
  PROVE  FreshInv'
<1>1. \A b \in Admins : Working(b)' => b = a
  BY DEF Working
<1>2. Quiet' => Serves'
  BY DEF Quiet, Working
<1>3. ASSUME NEW b \in Admins
      PROVE  /\ (At(b, "write") \/ At(b, "invalidate") \/ At(b, "disposing"))' => Serves'
             /\ (At(b, "refresh") /\ req[b].op.do = "test")' => Serves'
             /\ At(b, "assign")' =>
                  /\ \A k \in Kinds : req'[b].view[k] = DefaultIn(rows', k)
                  /\ \A n \in 1 .. Len(Order) : n < req'[b].at =>
                        cache'[Order[n]] = DefaultIn(rows', Order[n])
  <2>1. CASE b = a
    BY <2>1 DEF At
  <2>2. CASE b # a
    BY <2>2, <1>3 DEF At
  <2>3. QED  BY <2>1, <2>2
<1>4. QED  BY <1>1, <1>2, <1>3, Zenon DEF FreshInv

\* Every kind has its place in the order the refresh assigns.
LEMMA OrderIsAll == \A k \in Kinds : \E n \in 1 .. 4 : Order[n] = k
<1>1. Order[1] = "chat" /\ Order[2] = "embedding" /\ Order[3] = "ds" /\ Order[4] = "param"
  BY DEF Order
<1>2. QED  BY <1>1 DEF Kinds

\* A step of a handler leaves the cache fresh, or knows that it may not be.
LEMMA AdminFresh ==
  ASSUME ConfigInv, NEW a \in Admins, AdminStep(a)
  PROVE  FreshInv'
<1>0. /\ TypeOK /\ AtWork /\ FreshInv /\ req \in [Admins -> ReqType]
      /\ cache \in [Kinds -> Config] /\ req[a] \in ReqType
  BY TypeParts DEF ConfigInv
<1> SUFFICES ASSUME ~stale' PROVE FreshInv'
  BY DEF FreshInv
<1>w. ASSUME ~stale, Working(a)
      PROVE  \A b \in Admins \ {a} : req[b].pc = "idle"
  BY <1>0, <1>w DEF FreshInv, Working
<1>s. ASSUME rows' = rows, cache' = cache, Serves PROVE Serves'
  BY <1>s DEF Serves
<1>1. ASSUME NEW o \in Ops, Request(a, o)
      PROVE  FreshInv'
  <2>1. ~stale /\ ~OthersWork(a) /\ rows' = rows /\ cache' = cache /\ At(a, "idle")
    BY <1>1 DEF Request
  <2>2. Quiet /\ \A b \in Admins \ {a} : req[b].pc = "idle"
    BY <2>1 DEF OthersWork, Working, Quiet, At
  <2>3. Serves'
    BY <1>0, <1>s, <2>1, <2>2 DEF FreshInv
  <2>4. req' = req \/ \E x : req' = [req EXCEPT ![a] = [NoRequest EXCEPT !.pc = "write", !.op = o, !.seen = x]]
    BY <1>1 DEF Request
  <2>5. (\A b \in Admins \ {a} : req'[b] = req[b]) /\ req'[a].pc \in {"idle", "write"}
    <3>1. CASE req' = req
      BY <2>1, <3>1 DEF At
    <3>2. ASSUME NEW x, req' = [req EXCEPT ![a] = [NoRequest EXCEPT !.pc = "write", !.op = o, !.seen = x]]
          PROVE  (\A b \in Admins \ {a} : req'[b] = req[b]) /\ req'[a].pc \in {"idle", "write"}
      <4> DEFINE half == [NoRequest EXCEPT !.pc = "write", !.op = o]
                 new == [half EXCEPT !.seen = x]
      <4>1. req' = [req EXCEPT ![a] = new]
        BY <3>2
      <4>2. half.pc = "write" /\ new.pc = half.pc
        BY DEF NoRequest
      <4> HIDE DEF half, new
      <4>3. QED  BY <1>0, <4>1, <4>2
    <3>3. QED  BY <2>4, <3>1, <3>2
  <2>6. QED  BY <2>2, <2>3, <2>5, FreshPut
<1>2. CASE Write(a)
  <2>1. At(a, "write") /\ ~stale /\ cache' = cache /\ rows' = Written(rows, req[a].op)
    BY <1>2 DEF Write
  <2>2. Serves /\ (\A b \in Admins \ {a} : req[b].pc = "idle") /\ req[a].op \in Ops
    BY <1>0, <1>w, <2>1 DEF FreshInv, At, Working, AtWork
  <2>3. req[a].op.do = "test" => Serves'
    <3>1. req[a].op.do = "test" => Written(rows, req[a].op) = rows
      BY DEF Written
    <3>2. QED  BY <1>s, <2>1, <2>2, <3>1
  <2>4. CASE Goto(a, "refresh")
    <3>1. /\ \A b \in Admins \ {a} : req'[b] = req[b]
          /\ req'[a].pc = "refresh" /\ req'[a].op = req[a].op
      BY <1>0, <2>4, Moves
    <3>2. QED  BY <2>2, <2>3, <3>1, FreshPut
  <2>5. CASE req[a].op.do = "test" /\ End(a)
    <3>1. (\A b \in Admins \ {a} : req'[b] = req[b]) /\ req'[a].pc = "idle"
      BY <1>0, <2>5, Ends
    <3>2. QED  BY <2>2, <2>3, <2>5, <3>1, FreshPut
  <2>6. QED  BY <1>2, <2>4, <2>5 DEF Write
<1>3. CASE WriteFails(a) \/ TestOfNoDefault(a) \/ DropEngine(a)
  <2>1. /\ ~stale /\ rows' = rows /\ cache' = cache /\ End(a)
        /\ \/ At(a, "write") \/ At(a, "invalidate") \/ At(a, "disposing")
           \/ At(a, "refresh") /\ req[a].op.do = "test"
    BY <1>3 DEF WriteFails, TestOfNoDefault, DropEngine
  <2>2. Serves /\ \A b \in Admins \ {a} : req[b].pc = "idle"
    BY <1>0, <1>w, <2>1 DEF FreshInv, At, Working
  <2>3. (\A b \in Admins \ {a} : req'[b] = req[b]) /\ req'[a].pc = "idle"
    BY <1>0, <2>1, Ends
  <2>4. QED  BY <1>s, <2>1, <2>2, <2>3, FreshPut
<1>4. CASE RefreshReads(a)
  <2> DEFINE v == [k \in Kinds |-> DefaultIn(rows, k)]
             half == [req[a] EXCEPT !.pc = "assign", !.at = 1]
             new == [half EXCEPT !.view = v]
  <2>1. /\ rows' = rows /\ cache' = cache /\ At(a, "refresh") /\ ~(stale /\ OthersWork(a))
        /\ req' = [req EXCEPT ![a] = new]
    BY <1>4 DEF RefreshReads
  <2>2. \A b \in Admins \ {a} : req[b].pc = "idle"
    BY <1>w, <2>1 DEF OthersWork, Working, At
  <2>3. half.pc = "assign" /\ half.at = 1 /\ new.pc = half.pc /\ new.at = half.at /\ new.view = v
    <3>1. half.pc = "assign" /\ half.at = 1 /\ half \in ReqType
      <4>1. 1 \in 0 .. Len(Order)
        BY RequestTypes
      <4>2. QED  BY <1>0, <4>1 DEF ReqType
    <3> HIDE DEF half, v
    <3>2. QED  BY <3>1 DEF ReqType
  <2>4. \A k \in Kinds : v[k] = DefaultIn(rows', k)
    BY <2>1
  <2> HIDE DEF half, new, v
  <2>5. (\A b \in Admins \ {a} : req'[b] = req[b]) /\ req'[a] = new
    BY <1>0, <2>1
  <2>6. \A n \in 1 .. Len(Order) : ~(n < 1)
    BY RequestTypes
  <2>7. QED  BY <2>2, <2>3, <2>4, <2>5, <2>6, FreshPut
<1>5. CASE Assign(a)
  <2>1. /\ ~stale /\ rows' = rows /\ At(a, "assign") /\ AfterAssign(a, req[a].at + 1)
        /\ cache' = [cache EXCEPT ![Order[req[a].at]] = req[a].view[Order[req[a].at]]]
    BY <1>5 DEF Assign
  <2>2. req[a].at \in 1 .. 4 /\ req[a].at + 1 \in 2 .. 5
    BY <1>0, <2>1, RequestTypes DEF AtWork, ReqType, At
  <2>3. /\ \A b \in Admins \ {a} : req[b].pc = "idle"
        /\ \A k \in Kinds : req[a].view[k] = DefaultIn(rows, k)
        /\ \A n \in 1 .. 4 : n < req[a].at => cache[Order[n]] = DefaultIn(rows, Order[n])
    BY <1>0, <1>w, <2>1, RequestTypes DEF FreshInv, At, Working
  <2>4. \A n \in 1 .. 4 : n < req[a].at + 1 => cache'[Order[n]] = DefaultIn(rows', Order[n])
    <3>1. TAKE n \in 1 .. 4
    <3>2. HAVE n < req[a].at + 1
    <3>3. Order[n] \in Kinds /\ Order[req[a].at] \in Kinds
      BY <2>2, RequestTypes
    <3>4. CASE Order[n] = Order[req[a].at]
      BY <1>0, <2>1, <2>3, <3>3, <3>4
    <3>5. CASE Order[n] # Order[req[a].at]
      <4>1. n < req[a].at
        <5>1. n # req[a].at
          BY <3>5
        <5>2. QED  BY <2>2, <3>2, <5>1
      <4>2. cache'[Order[n]] = cache[Order[n]]
        BY <1>0, <2>1, <3>3, <3>5
      <4>3. QED  BY <2>1, <2>3, <4>1, <4>2
    <3>6. QED  BY <3>4, <3>5
  <2>5. /\ \A b \in Admins \ {a} : req'[b] = req[b]
        /\ req[a].at + 1 <= 4 => req'[a].pc = "assign" /\ req'[a].at = req[a].at + 1 /\ req'[a].view = req[a].view
        /\ req[a].at + 1 = 5 => req'[a].pc \in {"idle", "invalidate"}
    BY <1>0, <2>1, <2>2, AfterAssignment
  <2>6. CASE req[a].at + 1 <= 4
    BY <2>1, <2>3, <2>4, <2>5, <2>6, RequestTypes, FreshPut
  <2>7. CASE req[a].at + 1 = 5
    <3>1. Serves'
      <4>1. \A n \in 1 .. 4 : cache'[Order[n]] = DefaultIn(rows', Order[n])
        BY <2>2, <2>4, <2>7
      <4>2. QED  BY <4>1, OrderIsAll DEF Serves
    <3>2. QED  BY <2>3, <2>5, <2>7, <3>1, FreshPut
  <2>8. QED  BY <2>2, <2>6, <2>7
<1>6. CASE RefreshFails(a)
  BY <1>6 DEF RefreshFails
<1>7. CASE Dispose(a)
  <2>1. ~stale /\ rows' = rows /\ cache' = cache /\ At(a, "invalidate") /\ Goto(a, "disposing")
    BY <1>7 DEF Dispose
  <2>2. Serves /\ \A b \in Admins \ {a} : req[b].pc = "idle"
    BY <1>0, <1>w, <2>1 DEF FreshInv, At, Working
  <2>3. (\A b \in Admins \ {a} : req'[b] = req[b]) /\ req'[a].pc = "disposing"
    BY <1>0, <2>1, Moves
  <2>4. QED  BY <1>s, <2>1, <2>2, <2>3, FreshPut
<1>8. QED  BY <1>1, <1>2, <1>3, <1>4, <1>5, <1>6, <1>7 DEF AdminStep

-----------------------------------------------------------------------------
(* The engine                                                                *)

\* Who awaits the disposal of the engine goes on awaiting it or drops it.
LEMMA AdminEngine ==
  ASSUME ConfigInv, NEW a \in Admins, AdminStep(a)
  PROVE  EngineInv'
<1>0. req \in [Admins -> ReqType] /\ EngineInv
  BY TypeParts DEF ConfigInv
<1>1. CASE DropEngine(a)
  BY <1>1 DEF DropEngine, EngineInv, NoEngine
<1>2. CASE Dispose(a)
  <2>1. req'[a].pc = "disposing"
    BY <1>0, <1>2, Moves DEF Dispose
  <2>2. QED  BY <2>1 DEF EngineInv, At
<1>3. CASE ~DropEngine(a) /\ ~Dispose(a)
  <2>1. engine' = engine /\ open' = open /\ ~At(a, "disposing")
    BY <1>3 DEF AdminStep, Request, Write, WriteFails, RefreshReads, TestOfNoDefault, Assign,
       RefreshFails, engineVars, At
  <2>2. \A b \in Admins \ {a} : req'[b] = req[b]
    BY <1>0, <1>3 DEF AdminStep, Request, Write, WriteFails, RefreshReads, TestOfNoDefault, Assign,
       RefreshFails, AfterAssign, Goto, End
  <2>3. QED  BY <1>0, <2>1, <2>2 DEF EngineInv, At
<1>4. QED  BY <1>1, <1>2, <1>3

\* The engine that is asked for is the one kept, none, or a new open one; none
\* and a new one are of the configuration the cache serves.
LEMMA GetEngineOpens ==
  ASSUME EnginesOK, EngineInv, GetEngine
  PROVE  /\ engine'.url = cache["ds"]
         /\ engine'.id # 0 /\ engine'.id \notin open' => \E a \in Admins : At(a, "disposing")
<1>1. CASE Fitting
  <2>1. engine' = engine /\ open' = open
    BY <1>1 DEF GetEngine, engineVars
  <2>2. QED  BY <1>1, <2>1 DEF EngineInv, Fitting
<1>2. CASE ~Fitting /\ DriverOf(cache["ds"]) = "http"
  BY <1>2 DEF GetEngine
<1>3. CASE ~Fitting /\ DriverOf(cache["ds"]) # "http"
  <2>1. /\ engine' = [id |-> made', url |-> cache["ds"], driver |-> DriverOf(cache["ds"])]
        /\ open' = open \cup {made'}
    BY <1>3 DEF GetEngine
  <2>2. QED  BY <2>1
<1>4. QED  BY <1>1, <1>2, <1>3

LEMMA QueryEngine ==
  ASSUME ConfigInv, NEW q \in Queries, QueryStep(q), req' = req
  PROVE  EngineInv'
<1>0. EnginesOK /\ EngineInv
  BY TypeParts DEF ConfigInv
<1>1. CASE GetEngine
  BY <1>0, <1>1, GetEngineOpens DEF EngineInv, At
<1>2. CASE UNCHANGED engineVars
  BY <1>0, <1>2, Zenon DEF EngineInv, At, engineVars
<1>3. QED  BY <1>1, <1>2 DEF QueryStep, Execute, Mirrored, Answer

-----------------------------------------------------------------------------
(* Theorems                                                                  *)

\* Rows, cache, engine and requests keep the invariant of the configuration.
THEOREM ConfigInvariant == Spec => []ConfigInv
<1>1. Init => ConfigInv
  BY InitConfig DEF ConfigInv
<1>2. ConfigInv /\ [Next]_vars => ConfigInv'
  <2> SUFFICES ASSUME ConfigInv, [Next]_vars PROVE ConfigInv'
    OBVIOUS
  <2>1. ASSUME NEW a \in Admins, AdminStep(a) PROVE ConfigInv'
    <3>1. TypeOK' /\ RowsOK(rows') /\ AtWork'
      BY <2>1, AdminTypes DEF ConfigInv
    <3>2. FreshInv' /\ EngineInv'
      BY <2>1, AdminFresh, AdminEngine
    <3>3. QED  BY <3>1, <3>2 DEF ConfigInv
  <2>2. ASSUME NEW q \in Queries, QueryStep(q) PROVE ConfigInv'
    <3>1. TypeOK' /\ UNCHANGED <<rows, cache, adminVars, faults, stale>>
      BY <2>2, QueryTypes DEF ConfigInv
    <3>2. rows' = rows /\ cache' = cache /\ req' = req /\ stale' = stale
      BY <3>1 DEF adminVars
    <3>3. RowsOK(rows') /\ AtWork'
      BY <3>2 DEF ConfigInv, AtWork, Working, At
    <3>4. FreshInv'
      BY <3>2, Zenon DEF ConfigInv, FreshInv, Serves, Quiet, Working, At
    <3>5. EngineInv'
      BY <2>2, <3>2, QueryEngine
    <3>6. QED  BY <3>1, <3>3, <3>4, <3>5 DEF ConfigInv
  <2>3. CASE UNCHANGED vars
    BY <2>3, StutterConfig
  <2>4. QED  BY <2>1, <2>2, <2>3 DEF Next
<1>3. QED  BY <1>1, <1>2, PTL DEF Spec

\* The variables of the configuration keep their types: no more engines than
\* were made, a version in a cache that some row has had.
THEOREM ConfigTypeCorrect == Spec => []TypeOK
<1>1. ConfigInv => TypeOK
  BY DEF ConfigInv
<1>2. QED  BY <1>1, ConfigInvariant, PTL

\* However _clear_default and the flag of the row interleave with the writes of
\* other administrators, a kind has at most one default and it exists.
THEOREM OneDefaultCorrect == Spec => []AtMostOneDefault
<1>1. ConfigInv => AtMostOneDefault
  BY DEF ConfigInv, RowsOK, OneDefault, AtMostOneDefault
<1>2. QED  BY <1>1, ConfigInvariant, PTL

\* Between requests the cache serves the defaults, unless a refresh failed or
\* overlapped and none has run alone since.
THEOREM CacheCorrect == Spec => []CacheServesDefault
<1>1. ConfigInv => CacheServesDefault
  BY DEF ConfigInv, FreshInv, Serves, CacheServesDefault
<1>2. QED  BY <1>1, ConfigInvariant, PTL

\* A query that gets its engine between requests runs on the default
\* datasource, on an engine that is open.
THEOREM QueryCorrect == Spec => QueryRunsOnDefault
<1> DEFINE Runs(q) == (qpc[q] # "running" /\ qpc'[q] = "running" /\ Quiet /\ ~stale)
          => /\ runs'[q] = DefaultIn(rows, "ds")
             /\ engine'.id # 0 => engine'.url = runs'[q] /\ engine'.id \in open'
<1>1. ConfigInv /\ [Next]_vars => [\A q \in Queries : Runs(q)]_vars
  <2> SUFFICES ASSUME ConfigInv, Next, NEW q \in Queries,
                      qpc[q] # "running", qpc'[q] = "running", Quiet, ~stale
               PROVE  /\ runs'[q] = DefaultIn(rows, "ds")
                      /\ engine'.id # 0 => engine'.url = runs'[q] /\ engine'.id \in open'
    OBVIOUS
  <2>0. /\ EnginesOK /\ EngineInv /\ Serves
        /\ qpc \in [Queries -> {"idle", "mirror", "running", "failed", "done"}]
        /\ runs \in [Queries -> Config]
    BY TypeParts DEF ConfigInv, FreshInv
  <2>1. ~(\E a \in Admins : AdminStep(a))
    BY DEF AdminStep, Request, Write, WriteFails, RefreshReads, TestOfNoDefault, Assign,
       RefreshFails, Dispose, DropEngine, queryVars
  <2>2. PICK p \in Queries : QueryStep(p)
    BY <2>1 DEF Next
  <2>3. p = q
    BY <2>0, <2>2 DEF QueryStep, Execute, Mirrored, Answer
  <2>4. GetEngine /\ runs' = [runs EXCEPT ![q] = cache["ds"]]
    BY <2>0, <2>2, <2>3 DEF QueryStep, Execute, Mirrored, Answer
  <2>5. runs'[q] = cache["ds"]
    BY <2>0, <2>4
  <2>6. cache["ds"] = DefaultIn(rows, "ds")
    BY <2>0 DEF Serves, Kinds
  <2>7. ~(\E a \in Admins : At(a, "disposing"))
    BY DEF Quiet, Working, At
  <2>8. QED  BY <2>0, <2>4, <2>5, <2>6, <2>7, GetEngineOpens
<1>2. QED  BY <1>1, ConfigInvariant, PTL DEF Spec, QueryRunsOnDefault

=============================================================================
