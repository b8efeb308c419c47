----------------------------- MODULE RuntimeConfig -----------------------------
(***************************************************************************)
(* The configuration an administrator edits and what the process serves    *)
(* from it: system/llm_repository.py, datasource_repository.py and         *)
(* param_repository.py, the handlers of api/admin_system.py, the cache of  *)
(* system/runtime_config.py, the engine singleton of db/business.py and    *)
(* the queries of sql/executor.py that run on it.                          *)
(*                                                                         *)
(* A row of copilot_llm_model (role chat or embedding), of                 *)
(* copilot_business_datasource or of copilot_sys_param is an id; ver       *)
(* stands for everything in it that is not a flag (url, key, value).  A    *)
(* handler reads under the snapshot of its transaction (REPEATABLE READ)   *)
(* and writes the current rows; after its commit refresh_runtime_config    *)
(* reads all defaults under one new snapshot and assigns the cache one by  *)
(* one, awaiting in between.                                               *)
(***************************************************************************)
EXTENDS Integers, FiniteSets, Sequences

CONSTANTS
    Ids,        \* rows that may exist
    Kind,       \* Kind[i]: "chat", "embedding", "ds" or "param"
    Driver,     \* Driver[i] of a datasource: "async", "excel", "sync" or "http"
    Seeded,     \* the rows seed_from_env inserts, each the default of its kind
    Admins,     \* administrators; each makes one request at a time
    MaxRequests,    \* bound: requests
    Queries,    \* SQL executions
    MaxVer,     \* bound: edits of a row
    MaxEngines, \* bound: engines created
    MaxFaults   \* bound: refreshes that fail, audits that roll back

Order == <<"chat", "embedding", "ds", "param">>
Kinds == {"chat", "embedding", "ds", "param"}

ASSUME RuntimeConfigAssumption ==
    /\ Kind \in [Ids -> Kinds]
    /\ Driver \in [Ids -> {"async", "excel", "sync", "http"}]
    /\ Seeded \subseteq Ids
    /\ \A i, j \in Seeded : Kind[i] = Kind[j] => i = j
    /\ "env" \notin Ids
    /\ MaxVer \in Nat \ {0} /\ MaxEngines \in Nat
    /\ MaxRequests \in Nat /\ MaxFaults \in Nat

VARIABLES
    rows,       \* [exists, on, default, ver] per id; ver = 0: never inserted
    cache,      \* _chat, _embedding, _business, _sql_max_rows
    engine,     \* the engine singleton: id (0: none), url, driver
    open,       \* engines created and not disposed
    made,       \* engines created so far
    req,        \* the request of each administrator
    requests,   \* requests so far
    qpc, runs,  \* queries, and the configuration each one runs on
    faults,
    stale       \* history: a refresh failed or overlapped another request

adminVars == <<req, requests>>
engineVars == <<engine, open, made>>
queryVars == <<qpc, runs>>
vars == <<rows, cache, engineVars, adminVars, queryVars, faults, stale>>

Env == [id |-> "env", ver |-> 0]
Of(r, i) == [id |-> i, ver |-> r[i].ver]
DriverOf(c) == IF c.id = "env" THEN "async" ELSE Driver[c.id]

\* get_default, or the value from the environment.
Candidates(r, k) == {i \in Ids : Kind[i] = k /\ r[i].exists /\ r[i].on /\ r[i].default}
DefaultIn(r, k) ==
    IF Candidates(r, k) = {} THEN Env
    ELSE Of(r, CHOOSE i \in Candidates(r, k) : TRUE)

NoEngine == [id |-> 0, url |-> Env, driver |-> "none"]
NoOp == [do |-> "none", row |-> "env", on |-> TRUE, default |-> FALSE, edit |-> FALSE]
NoView == [k \in Kinds |-> Env]

\* at: the kind refresh_runtime_config assigns next; seen: the row was default
\* when the request read it.
NoRequest == [pc |-> "idle", op |-> NoOp, seen |-> FALSE, view |-> NoView, at |-> 0]

\* The state after seed_system_config_from_env and its refresh.
Init ==
    /\ rows = [i \in Ids |-> [exists |-> i \in Seeded, on |-> TRUE,
                              default |-> i \in Seeded,
                              ver |-> IF i \in Seeded THEN 1 ELSE 0]]
    /\ cache = [k \in Kinds |-> DefaultIn(rows, k)]
    /\ engine = NoEngine /\ open = {} /\ made = 0
    /\ req = [a \in Admins |-> NoRequest] /\ requests = 0
    /\ qpc = [q \in Queries |-> "idle"] /\ runs = [q \in Queries |-> Env]
    /\ faults = 0 /\ stale = FALSE

Working(a) == req[a].pc # "idle"
OthersWork(a) == \E b \in Admins \ {a} : Working(b)
Quiet == \A a \in Admins : ~Working(a)
At(a, s) == req[a].pc = s
Goto(a, s) == req' = [req EXCEPT ![a].pc = s]
End(a) == req' = [req EXCEPT ![a] = NoRequest]

-----------------------------------------------------------------------------
(* The handlers of api/admin_system: read and check, write, commit.        *)

\* Nothing is read before the insert; the id is new.
Creates(o) == /\ o.do = "create" /\ rows[o.row].ver = 0
              /\ Kind[o.row] # "param"

\* soft_delete: only the default needs another enabled row of its kind.
OthersEnabled(i) ==
    \E j \in Ids \ {i} : Kind[j] = Kind[i] /\ rows[j].exists /\ rows[j].on
Accepts(o) ==
    /\ rows[o.row].exists
    /\ o.do = "delete" => (rows[o.row].default => OthersEnabled(o.row))
    /\ o.do = "set_default" => rows[o.row].on

Ops ==
    [do : {"create"}, row : Ids, on : BOOLEAN, default : BOOLEAN, edit : {FALSE}]
      \cup [do : {"update"}, row : Ids, on : BOOLEAN, default : {FALSE}, edit : BOOLEAN]
      \cup [do : {"delete", "set_default", "test"}, row : Ids, on : {TRUE},
            default : {FALSE}, edit : {FALSE}]

\* The handlers each kind has.
Offered(o) ==
    /\ Kind[o.row] = "param" => o.do = "update" /\ o.on
    /\ o.do = "test" => Kind[o.row] = "ds"

\* The first read of the request: the checks, and whether the row is default.
Request(a, o) ==
    /\ At(a, "idle") /\ Offered(o)
    /\ requests < MaxRequests /\ requests' = requests + 1
    /\ LET begun == [NoRequest EXCEPT !.pc = "write", !.op = o] IN
       \/ /\ Creates(o)
          /\ req' = [req EXCEPT ![a] = [begun EXCEPT !.seen = o.default]]
       \/ /\ o.do # "create" /\ rows[o.row].ver > 0
          /\ IF Accepts(o)
             THEN req' = [req EXCEPT ![a] = [begun EXCEPT !.seen = rows[o.row].default]]
             ELSE UNCHANGED req
    /\ stale' = (stale \/ OthersWork(a))
    /\ UNCHANGED <<rows, cache, engineVars, queryVars, faults>>

\* Mutant of Default: a disabled row keeps its flag.
DefaultOfEnabled(r, i) == [j \in Ids |-> IF Kind[j] = Kind[i] /\ r[j].exists /\ r[j].on
                                         THEN [r[j] EXCEPT !.default = FALSE] ELSE r[j]]

\* _clear_default, then the row itself.
Default(r, i) == [j \in Ids |-> IF Kind[j] = Kind[i] /\ r[j].exists
                                THEN [r[j] EXCEPT !.default = FALSE] ELSE r[j]]

Written(r, o) ==
    LET i == o.row IN
    IF o.do = "create"
    THEN [(IF o.default THEN Default(r, i) ELSE r) EXCEPT
            ![i] = [exists |-> TRUE, on |-> o.on, default |-> o.default, ver |-> 1]]
    ELSE IF o.do = "delete"
    THEN [r EXCEPT ![i].exists = FALSE, ![i].default = FALSE]
    ELSE IF o.do = "set_default" /\ r[i].exists
    THEN [Default(r, i) EXCEPT ![i].default = TRUE]
    ELSE IF o.do = "set_default"
    THEN Default(r, i)
    ELSE IF o.do = "update" /\ r[i].exists
    THEN [r EXCEPT ![i].on = o.on, ![i].ver = IF o.edit THEN @ + 1 ELSE @]
    ELSE r

\* Mutant of Write: the deletion ends without refresh_runtime_config.
WriteDeleteUnrefreshed(a) ==
    /\ At(a, "write")
    /\ req[a].op.edit => rows[req[a].op.row].ver < MaxVer
    /\ rows' = Written(rows, req[a].op)
    /\ IF req[a].op.do \in {"test", "delete"} THEN End(a) ELSE Goto(a, "refresh")
    /\ UNCHANGED <<cache, engineVars, requests, queryVars, faults, stale>>

\* The statements, the audit record and the commit.
Write(a) ==
    /\ At(a, "write")
    /\ req[a].op.edit => rows[req[a].op.row].ver < MaxVer
    /\ rows' = Written(rows, req[a].op)
    /\ \/ Goto(a, "refresh")
       \* the test of a datasource refreshes only for a default that answers
       \/ req[a].op.do = "test" /\ End(a)
    /\ UNCHANGED <<cache, engineVars, requests, queryVars, faults, stale>>

WriteFails(a) ==
    /\ At(a, "write") /\ faults < MaxFaults
    /\ faults' = faults + 1
    /\ End(a)
    /\ UNCHANGED <<rows, cache, engineVars, requests, queryVars, stale>>

-----------------------------------------------------------------------------
(* refresh_runtime_config                                                  *)

RefreshReads(a) ==
    /\ At(a, "refresh") /\ (req[a].op.do = "test" => req[a].seen)
    /\ req' = [req EXCEPT ![a].pc = "assign", ![a].at = 1,
                          ![a].view = [k \in Kinds |-> DefaultIn(rows, k)]]
    /\ stale' = (stale /\ OthersWork(a))
    /\ UNCHANGED <<rows, cache, engineVars, requests, queryVars, faults>>

TestOfNoDefault(a) ==
    /\ At(a, "refresh") /\ req[a].op.do = "test" /\ ~req[a].seen
    /\ End(a)
    /\ UNCHANGED <<rows, cache, engineVars, requests, queryVars, faults, stale>>

\* Handlers that call invalidate_business_engine after the refresh.
Invalidates(o, wasDefault) ==
    /\ Kind[o.row] = "ds"
    /\ o.do = "set_default" \/ (o.do \in {"create", "update"} /\ wasDefault)

AfterAssign(a, n) ==
    IF n <= Len(Order) THEN req' = [req EXCEPT ![a].at = n]
    ELSE IF Invalidates(req[a].op, req[a].seen)
    THEN req' = [req EXCEPT ![a].pc = "invalidate", ![a].view = NoView, ![a].at = 0]
    ELSE End(a)

Assign(a) ==
    /\ At(a, "assign")
    /\ LET k == Order[req[a].at] IN cache' = [cache EXCEPT ![k] = req[a].view[k]]
    /\ AfterAssign(a, req[a].at + 1)
    /\ UNCHANGED <<rows, engineVars, requests, queryVars, faults, stale>>

\* Fail-open: chat, embedding and business fall back together, the parameter
\* on its own.
RefreshFails(a) ==
    /\ At(a, "assign") /\ faults < MaxFaults
    /\ faults' = faults + 1
    /\ stale' = TRUE
    /\ LET param == req[a].at = Len(Order) IN
       /\ cache' = [k \in Kinds |-> IF (k = "param") = param THEN Env ELSE cache[k]]
       /\ AfterAssign(a, IF param THEN Len(Order) + 1 ELSE Len(Order))
    /\ UNCHANGED <<rows, engineVars, requests, queryVars>>

-----------------------------------------------------------------------------
(* The engine singleton.                                                   *)

\* invalidate_business_engine awaits the dispose of an asynchronous engine...
Dispose(a) ==
    /\ At(a, "invalidate") /\ engine.id # 0 /\ engine.driver \in {"async", "excel"}
    /\ Goto(a, "disposing")
    /\ open' = open \ {engine.id}
    /\ UNCHANGED <<rows, cache, engine, made, requests, queryVars, faults, stale>>

\* ... and drops whatever the singleton is then.
DropEngine(a) ==
    /\ \/ At(a, "disposing")
       \/ At(a, "invalidate") /\ engine.driver \in {"none", "sync", "http"}
    /\ End(a)
    /\ open' = IF engine.driver = "sync" THEN open \ {engine.id} ELSE open
    /\ engine' = NoEngine
    /\ UNCHANGED <<rows, cache, made, requests, queryVars, faults, stale>>

\* Mutant of Fitting: an engine of the same mode is kept.
FittingAnyUrl == engine.id # 0 /\ engine.driver = DriverOf(cache["ds"])

\* get_business_engine: kept when url and mode match; the old one is not disposed.
Fitting == engine.id # 0 /\ engine.url = cache["ds"] /\ engine.driver = DriverOf(cache["ds"])
GetEngine ==
    IF Fitting THEN UNCHANGED engineVars
    ELSE IF DriverOf(cache["ds"]) = "http"
    THEN /\ engine' = [id |-> 0, url |-> cache["ds"], driver |-> "http"]
         /\ UNCHANGED <<open, made>>
    ELSE /\ made < MaxEngines /\ made' = made + 1
         /\ engine' = [id |-> made', url |-> cache["ds"], driver |-> DriverOf(cache["ds"])]
         /\ open' = open \cup {made'}

-----------------------------------------------------------------------------
(* execute_readonly                                                        *)

\* DSN and mode are read together; an Excel source refreshes its mirror first.
Execute(q) ==
    /\ qpc[q] = "idle"
    /\ GetEngine
    /\ qpc' = [qpc EXCEPT ![q] = IF DriverOf(cache["ds"]) = "excel" THEN "mirror" ELSE "running"]
    /\ runs' = [runs EXCEPT ![q] = cache["ds"]]
    /\ UNCHANGED <<rows, cache, adminVars, faults, stale>>

\* After the mirror the engine is asked for again: it is the one of the
\* configuration of now, and no AsyncEngine if that has another driver.
Mirrored(q) ==
    /\ qpc[q] = "mirror"
    /\ GetEngine
    /\ IF DriverOf(cache["ds"]) \in {"async", "excel"}
       THEN /\ qpc' = [qpc EXCEPT ![q] = "running"]
            /\ runs' = [runs EXCEPT ![q] = cache["ds"]]
       ELSE qpc' = [qpc EXCEPT ![q] = "failed"] /\ UNCHANGED runs
    /\ UNCHANGED <<rows, cache, adminVars, faults, stale>>

Answer(q) ==
    /\ qpc[q] = "running" /\ qpc' = [qpc EXCEPT ![q] = "done"]
    /\ UNCHANGED <<rows, cache, engineVars, adminVars, runs, faults, stale>>

-----------------------------------------------------------------------------
AdminStep(a) ==
    \/ \E o \in Ops : Request(a, o)
    \/ Write(a) \/ WriteFails(a) \/ RefreshReads(a) \/ TestOfNoDefault(a)
    \/ Assign(a) \/ RefreshFails(a) \/ Dispose(a) \/ DropEngine(a)
QueryStep(q) == Execute(q) \/ Mirrored(q) \/ Answer(q)

Next == (\E a \in Admins : AdminStep(a)) \/ (\E q \in Queries : QueryStep(q))
Spec == Init /\ [][Next]_vars

-----------------------------------------------------------------------------
(* Properties                                                              *)

Config == {Env} \cup [id : Ids, ver : 1 .. MaxVer]
TypeOK ==
    /\ rows \in [Ids -> [exists : BOOLEAN, on : BOOLEAN, default : BOOLEAN, ver : 0 .. MaxVer]]
    /\ cache \in [Kinds -> Config]
    /\ engine \in [id : 0 .. made, url : Config,
                   driver : {"none", "async", "excel", "sync", "http"}]
    /\ made \in 0 .. MaxEngines /\ open \subseteq 1 .. made
    /\ req \in [Admins -> [pc : {"idle", "write", "refresh", "assign", "invalidate",
                                "disposing"},
                          op : Ops \cup {NoOp}, seen : BOOLEAN,
                          view : [Kinds -> Config], at : 0 .. Len(Order)]]
    /\ qpc \in [Queries -> {"idle", "mirror", "running", "failed", "done"}]
    /\ runs \in [Queries -> Config]
    /\ requests \in 0 .. MaxRequests
    /\ faults \in 0 .. MaxFaults /\ stale \in BOOLEAN

\* However the handlers interleave, a kind never has two default rows; a
\* deleted row is never one.
AtMostOneDefault ==
    /\ \A i, j \in Ids : (rows[i].default /\ rows[j].default /\ Kind[i] = Kind[j]) => i = j
    /\ \A i \in Ids : rows[i].default => rows[i].exists

\* Between requests the process serves what the database has as its default,
\* unless the last refreshes failed or overlapped; a later request that runs
\* alone repairs that.
CacheServesDefault ==
    (Quiet /\ ~stale) => \A k \in Kinds : cache[k] = DefaultIn(rows, k)

\* A query that gets its engine while nobody edits the configuration runs on
\* the default datasource in its current version, whatever engine an earlier
\* query, an invalidation or a mirror left behind.
QueryRunsOnDefault ==
    [][\A q \in Queries : (qpc[q] # "running" /\ qpc'[q] = "running" /\ Quiet /\ ~stale)
          => /\ runs'[q] = DefaultIn(rows, "ds")
             /\ engine'.id # 0 => engine'.url = runs'[q] /\ engine'.id \in open']_vars

\* What the plan says of a switch, dispose and clear the singleton: between
\* requests no engine is open but the current one.  An engine that a query
\* replaced, or whose default was deleted, is never disposed.
ReplacedEnginesDisposed ==
    (Quiet /\ \A q \in Queries : qpc[q] # "running") => open \subseteq {engine.id}

=============================================================================
