------------------------------- MODULE Sessions -------------------------------
(***************************************************************************)
(* Conversations (memory/session_service.py, api/sessions.py), the turns   *)
(* that questions add to them (agent/runner.py, memory/memory_service.py)  *)
(* and the brief reports made of their turns (brief_report/service.py).    *)
(*                                                                         *)
(* A user may have session_max_per_user conversations: the one least       *)
(* recently used makes room for a new one.  A client may also send an id   *)
(* of its own, which run_ask keeps unless it belongs to someone else, and  *)
(* which its first upsert creates.  A request reads under its snapshot and *)
(* writes when it commits; MySQL's upsert sees the row that is there.      *)
(***************************************************************************)
EXTENDS Integers, FiniteSets, Sequences

CONSTANTS
    Users,
    Sids,       \* ids of conversations, generated or chosen by a client
    Requests,   \* requests, each made once; it is also the id of its turn
    MaxActive,  \* session_max_per_user
    Policy,     \* session_evict_policy: "oldest" or "reject"
    MemoryTurns,    \* session_memory_max_turns
    Nobody

ASSUME SessionsAssumption ==
    /\ MaxActive \in Nat \ {0} /\ MemoryTurns \in Nat
    /\ Policy \in {"oldest", "reject"}
    /\ Nobody \notin Users /\ "" \notin Sids
    /\ IsFiniteSet(Sids)

VARIABLES
    sess,       \* [is, owner, count] per id: the row, its deletion mark, turn_count
    recent,     \* rows by updated_at: <<s, t>>, s was used before t
    turn,       \* the turn of each request: conversation, user, status
    finished,   \* turns in the order of their start (created_at)
    summary,    \* rows of copilot_session_summary that are not deleted
    req,        \* the requests
    memory,     \* turns a question remembers
    report,     \* the report of each request: status, turns, file
    extra       \* history: conversations made without room, per user

sessionVars == <<sess, recent>>
turnVars == <<turn, finished>>
vars == <<sessionVars, turnVars, summary, req, memory, report, extra>>

Store == INSTANCE SessionStore WITH is <- [s \in Sids |-> sess[s].is],
                                   owner <- [s \in Sids |-> sess[s].owner]

NoSession == [is |-> "none", owner |-> Nobody, count |-> 0]
NoTurn == [sid |-> "", user |-> Nobody, status |-> "none"]
NoReport == [status |-> "none", turns |-> {}, file |-> FALSE, lost |-> FALSE]
NewRequest == [pc |-> "new", do |-> "", user |-> Nobody, sid |-> "",
               victim |-> "", alone |-> TRUE]

Init ==
    /\ sess = [s \in Sids |-> NoSession] /\ recent = {}
    /\ turn = [c \in Requests |-> NoTurn] /\ finished = <<>>
    /\ summary = {}
    /\ req = [c \in Requests |-> NewRequest]
    /\ memory = [c \in Requests |-> {}]
    /\ report = [c \in Requests |-> NoReport]
    /\ extra = [u \in Users |-> 0]

Live(s) == sess[s].is = "live"
Mine(u) == {s \in Sids : Live(s) /\ sess[s].owner = u}
Unused(s) == sess[s].is = "none"

\* An id that was generated is not known to anyone before it is written.
Generated(s) == \E x \in Requests :
    req[x].pc = "write" /\ req[x].do \in {"create", "ask_new"} /\ req[x].sid = s

\* verify_owner, session_belongs_to_other_user.
Owns(u, s) == s \in Mine(u)
OfAnother(u, s) == Live(s) /\ sess[s].owner # u

At(c, p) == req[c].pc = p
Goto(c, p) == req' = [req EXCEPT ![c].pc = p]

\* updated_at = NOW().
Touch(q, s) == {p \in q : p[1] # s} \cup ((Sids \ {s}) \X {s})

\* Mutant of LeastRecent: the least recent of all users.
LeastRecentOfAll(u) ==
    LET all == {s \in Sids : Live(s)}
    IN {s \in all : \A t \in all \ {s} : <<s, t>> \in recent}

LeastRecent(u) == {s \in Mine(u) : \A t \in Mine(u) \ {s} : <<s, t>> \in recent}

\* The requests of u that have read and not written no longer know what is there.
Disturb(r, u, c) == [x \in Requests |->
    IF x # c /\ r[x].user = u /\ r[x].pc = "write" THEN [r[x] EXCEPT !.alone = FALSE]
    ELSE r[x]]

-----------------------------------------------------------------------------
(* create_session                                                          *)

Full(u) == Cardinality(Mine(u)) >= MaxActive

\* _evict_if_needed counts and picks; the id is a new uuid.
ReadToCreate(c, do, u, s) ==
    /\ At(c, "new") /\ Unused(s) /\ \A x \in Requests : req[x].sid # s
    /\ IF Full(u) /\ Policy = "reject"
       THEN Goto(c, "end")
       ELSE \E victim \in IF Full(u) THEN LeastRecent(u) ELSE {""} :
              req' = [req EXCEPT ![c] = [pc |-> "write", do |-> do, user |-> u, sid |-> s,
                                         victim |-> victim, alone |-> TRUE]]
    /\ UNCHANGED <<sessionVars, turnVars, summary, memory, report, extra>>

\* delete_session marks the row and its summary.
Deleted(q, s) == [q EXCEPT ![s].is = "gone"]
Evicted(c) == IF req[c].victim = "" THEN sess ELSE Deleted(sess, req[c].victim)

Inserted(q, s, u) == [q EXCEPT ![s] = [is |-> "live", owner |-> u, count |-> 0]]

\* Mutant of CommitSession: the victim is looked for and left.
CommitSessionUnevicted(c) ==
    LET u == req[c].user IN
    /\ sess' = Inserted(sess, req[c].sid, u)
    /\ recent' = Touch(recent, req[c].sid)
    /\ summary' = summary \ {req[c].victim}
    /\ extra' = [extra EXCEPT ![u] = IF req[c].alone THEN @ ELSE @ + 1]

\* The victim goes, the conversation comes.  A creation that was not alone may
\* have found room, or a victim, that another one has taken.
CommitSession(c) ==
    LET u == req[c].user IN
    /\ sess' = Inserted(Evicted(c), req[c].sid, u)
    /\ recent' = Touch(recent, req[c].sid)
    /\ summary' = summary \ {req[c].victim}
    /\ extra' = [extra EXCEPT ![u] = IF req[c].alone THEN @ ELSE @ + 1]

\* POST /sessions.
CreateSession(c, u, s) == ReadToCreate(c, "create", u, s)
SessionCreated(c) ==
    /\ At(c, "write") /\ req[c].do = "create"
    /\ CommitSession(c)
    /\ req' = Disturb([req EXCEPT ![c].pc = "end"], req[c].user, c)
    /\ UNCHANGED <<turnVars, memory, report>>

\* DELETE /sessions/{id}.
DeleteSession(c, u, s) ==
    /\ At(c, "new") /\ Owns(u, s)
    /\ sess' = Deleted(sess, s)
    /\ summary' = summary \ {s}
    /\ req' = Disturb([req EXCEPT ![c].pc = "end"], u, c)
    /\ UNCHANGED <<recent, turnVars, memory, report, extra>>

-----------------------------------------------------------------------------
(* run_ask                                                                 *)

\* Without an id, or with one that belongs to someone else.
AskInNewSession(c, u, s) == ReadToCreate(c, "ask_new", u, s)

\* With an id of his own, an unknown one, or one that is deleted.
AskInSession(c, u, s) ==
    /\ At(c, "new") /\ ~OfAnother(u, s) /\ ~Generated(s)
    /\ req' = [req EXCEPT ![c] = [pc |-> "write", do |-> "ask", user |-> u, sid |-> s,
                                  victim |-> "", alone |-> TRUE]]
    /\ UNCHANGED <<sessionVars, turnVars, summary, memory, report, extra>>

\* Mutant of Upserted: the row is made live again, as in the summary's upsert.
UpsertedLive(s, u, n) ==
    IF Unused(s) THEN [Inserted(sess, s, u) EXCEPT ![s].count = n]
    ELSE [sess EXCEPT ![s].count = @ + n, ![s].is = "live"]

\* upsert_on_ask: a row that exists keeps its owner and its deletion mark.
Upserted(s, u, n) ==
    IF Unused(s) THEN [Inserted(sess, s, u) EXCEPT ![s].count = n]
    ELSE [sess EXCEPT ![s].count = @ + n]

\* insert_turn_start and upsert_on_ask are committed before anything else.
AskBegins(c) ==
    LET r == req[c] IN
    /\ At(c, "write") /\ r.do \in {"ask", "ask_new"}
    /\ IF r.do = "ask_new"
       THEN CommitSession(c)
       ELSE /\ sess' = Upserted(r.sid, r.user, 0)
            /\ recent' = Touch(recent, r.sid)
            /\ extra' = [extra EXCEPT ![r.user] = IF Unused(r.sid) THEN @ + 1 ELSE @]
            /\ UNCHANGED summary
    /\ turn' = [turn EXCEPT ![c] = [sid |-> r.sid, user |-> r.user, status |-> "running"]]
    /\ finished' = Append(finished, c)
    /\ req' = Disturb([req EXCEPT ![c].pc = "load"], r.user, c)
    /\ UNCHANGED <<memory, report>>

\* load_session_memory: the last successful turns, of a conversation that is
\* there and his.
LoadMemory(c) ==
    LET r == req[c]
        good == {i \in DOMAIN finished :
                    turn[finished[i]] = [sid |-> r.sid, user |-> r.user, status |-> "success"]}
        last == {i \in good : Cardinality({k \in good : k > i}) < MemoryTurns}
    IN
    /\ At(c, "load")
    /\ memory' = [memory EXCEPT ![c] =
            IF Owns(r.user, r.sid) THEN {finished[i] : i \in last} ELSE {}]
    /\ Goto(c, "run")
    /\ UNCHANGED <<sessionVars, turnVars, summary, report, extra>>

\* upsert_on_ask counts the turn; clear_pending_clarification makes or revives
\* the summary row, and commits.
AskSucceeds(c) ==
    /\ At(c, "run")
    /\ sess' = Upserted(req[c].sid, req[c].user, 1)
    /\ recent' = Touch(recent, req[c].sid)
    /\ summary' = summary \cup {req[c].sid}
    /\ turn' = [turn EXCEPT ![c].status = "success"]
    /\ Goto(c, "end")
    /\ UNCHANGED <<finished, memory, report, extra>>

\* The question asks back (save_pending_clarification) or fails.
AskFails(c) ==
    /\ At(c, "run")
    /\ turn' = [turn EXCEPT ![c].status = "fail"]
    /\ \E asksBack \in BOOLEAN :
          summary' = IF asksBack THEN summary \cup {req[c].sid} ELSE summary
    /\ Goto(c, "end")
    /\ UNCHANGED <<sessionVars, finished, memory, report, extra>>

-----------------------------------------------------------------------------
(* Brief reports                                                           *)

Reportable(u, s) ==
    {x \in Requests : turn[x].sid = s /\ turn[x].user = u /\ turn[x].status = "success"}

\* _validate_session and load_turns.
LoadTurns(c, u, s) ==
    /\ At(c, "new") /\ Owns(u, s)
    /\ \E turns \in (SUBSET Reportable(u, s)) \ {{}} :
          report' = [report EXCEPT ![c].turns = turns]
    /\ req' = [req EXCEPT ![c].pc = "plan", ![c].user = u, ![c].sid = s]
    /\ UNCHANGED <<sessionVars, turnVars, summary, memory, extra>>

\* After the model has planned the texts the report is committed as pending.
StartReport(c) ==
    /\ At(c, "plan")
    /\ report' = [report EXCEPT ![c].status = "pending"]
    /\ Goto(c, "export")
    /\ UNCHANGED <<sessionVars, turnVars, summary, memory, extra>>

\* export_brief_report_pdf writes the file.
ExportPdf(c) ==
    /\ At(c, "export")
    /\ report' = [report EXCEPT ![c].file = TRUE]
    /\ Goto(c, "mark")
    /\ UNCHANGED <<sessionVars, turnVars, summary, memory, extra>>

MarkDone(c) ==
    /\ At(c, "mark")
    /\ report' = [report EXCEPT ![c].status = "done"]
    /\ Goto(c, "end")
    /\ UNCHANGED <<sessionVars, turnVars, summary, memory, extra>>

\* Mutant of ReportFails: the failure is not committed.
ReportFailsUncommitted(c) ==
    /\ req[c].pc \in {"export", "mark"}
    /\ Goto(c, "end")
    /\ UNCHANGED <<sessionVars, turnVars, summary, memory, report, extra>>

\* An exception while building, writing or marking.
ReportFails(c) ==
    /\ req[c].pc \in {"export", "mark"}
    /\ report' = [report EXCEPT ![c].status = "fail"]
    /\ Goto(c, "end")
    /\ UNCHANGED <<sessionVars, turnVars, summary, memory, extra>>

\* The process dies, or mark_report_failed fails as well.
ReportIsLost(c) ==
    /\ req[c].pc \in {"export", "mark"}
    /\ report' = [report EXCEPT ![c].lost = TRUE]
    /\ Goto(c, "end")
    /\ UNCHANGED <<sessionVars, turnVars, summary, memory, extra>>

-----------------------------------------------------------------------------
Next ==
    \E c \in Requests :
        \/ \E u \in Users, s \in Sids :
              \/ CreateSession(c, u, s) \/ DeleteSession(c, u, s)
              \/ AskInNewSession(c, u, s) \/ AskInSession(c, u, s)
              \/ LoadTurns(c, u, s)
        \/ SessionCreated(c) \/ AskBegins(c) \/ LoadMemory(c)
        \/ AskSucceeds(c) \/ AskFails(c)
        \/ StartReport(c) \/ ExportPdf(c) \/ MarkDone(c) \/ ReportFails(c) \/ ReportIsLost(c)

Spec == Init /\ [][Next]_vars

-----------------------------------------------------------------------------
Pcs == {"new", "write", "load", "run", "plan", "export", "mark", "end"}
SessionRecord == [is : {"none", "live", "gone"}, owner : Users \cup {Nobody}, count : Nat]
TurnRecord == [sid : Sids \cup {""}, user : Users \cup {Nobody},
               status : {"none", "running", "success", "fail"}]
RequestRecord == [pc : Pcs, do : {"", "create", "ask", "ask_new"},
                  user : Users \cup {Nobody}, sid : Sids \cup {""},
                  victim : Sids \cup {""}, alone : BOOLEAN]
ReportRecord == [status : {"none", "pending", "done", "fail"},
                 turns : SUBSET Requests, file : BOOLEAN, lost : BOOLEAN]

\* Types of all variables.
TypeOK ==
    /\ sess \in [Sids -> SessionRecord] /\ recent \subseteq Sids \X Sids
    /\ turn \in [Requests -> TurnRecord] /\ finished \in Seq(Requests)
    /\ summary \subseteq Sids
    /\ req \in [Requests -> RequestRecord]
    /\ memory \in [Requests -> SUBSET Requests]
    /\ report \in [Requests -> ReportRecord]
    /\ extra \in [Users -> Nat]

\* A user has no more conversations than the limit, but for those a client
\* named itself and those created while another request of the user created
\* or deleted one.
ActiveIsBounded ==
    \A u \in Users : Cardinality(Mine(u)) <= MaxActive + extra[u]

\* A conversation that was deleted or evicted stays deleted and keeps its
\* owner, whoever goes on asking under its id.
DeletedStaysDeleted ==
    [][\A s \in Sids : sess[s].is = "gone" =>
          sess'[s].is = "gone" /\ sess'[s].owner = sess[s].owner]_vars

\* The requests, each of which counts and picks a victim in one transaction and
\* writes in another, change the conversations as the store says: a creation takes
\* the place of one conversation of its user if, and only if, there is no room,
\* unless the user's requests overlapped or the client named the id; nobody else's
\* conversation is touched, and none comes back.
ImplementsStore == Store!StoreSpec

\* A question remembers, and a report shows, only successful turns of its own
\* user and conversation; a report that is done has its file, and one that is
\* pending is being made, or its request died.
ReportsAreWhole ==
    \A c \in Requests :
        /\ \A x \in memory[c] \cup report[c].turns :
              turn[x] = [sid |-> req[c].sid, user |-> req[c].user, status |-> "success"]
        /\ report[c].status = "done" => report[c].file
        /\ report[c].status = "pending" =>
              req[c].pc \in {"export", "mark"} \/ report[c].lost

=============================================================================
