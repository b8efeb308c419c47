---------------------------- MODULE Sessions_proofs ----------------------------
(* Theorems about Sessions, for any users, conversations and requests. *)
EXTENDS Sessions, FiniteSetTheorems, TLAPS

----------------------------------------------------------------------------
(* Types                                                                   *)

\* A request that works on a conversation has a user and an id.
Placed == \A c \in Requests : req[c].pc \in {"write", "load", "run"} =>
              req[c].sid \in Sids /\ req[c].user \in Users

\* Disturb takes a flag from other requests and leaves the rest.
LEMMA DisturbKeeps ==
  ASSUME NEW r \in [Requests -> RequestRecord], NEW u, NEW c
  PROVE  /\ Disturb(r, u, c) \in [Requests -> RequestRecord]
         /\ \A x \in Requests :
              /\ Disturb(r, u, c)[x].pc = r[x].pc /\ Disturb(r, u, c)[x].do = r[x].do
              /\ Disturb(r, u, c)[x].user = r[x].user /\ Disturb(r, u, c)[x].sid = r[x].sid
              /\ Disturb(r, u, c)[x].victim = r[x].victim
              /\ Disturb(r, u, c)[x].alone => r[x].alone
              /\ Disturb(r, u, c)[x].alone /\ x # c /\ r[x].pc = "write" => r[x].user # u
<1>1. ASSUME NEW x \in Requests
      PROVE  /\ Disturb(r, u, c)[x] \in RequestRecord
             /\ Disturb(r, u, c)[x].pc = r[x].pc /\ Disturb(r, u, c)[x].do = r[x].do
             /\ Disturb(r, u, c)[x].user = r[x].user /\ Disturb(r, u, c)[x].sid = r[x].sid
             /\ Disturb(r, u, c)[x].victim = r[x].victim
             /\ Disturb(r, u, c)[x].alone => r[x].alone
             /\ Disturb(r, u, c)[x].alone /\ x # c /\ r[x].pc = "write" => r[x].user # u
  <2>1. CASE x # c /\ r[x].user = u /\ r[x].pc = "write"
    <3>1. Disturb(r, u, c)[x] = [r[x] EXCEPT !.alone = FALSE]
      BY <2>1 DEF Disturb
    <3>2. QED  BY <3>1, ZenonT(60) DEF RequestRecord
  <2>2. CASE ~(x # c /\ r[x].user = u /\ r[x].pc = "write")
    <3>1. Disturb(r, u, c)[x] = r[x]
      BY <2>2, Zenon DEF Disturb
    <3>2. QED  BY <2>2, <3>1
  <2>3. QED  BY <2>1, <2>2
<1>2. Disturb(r, u, c) \in [Requests -> RequestRecord]
  BY <1>1 DEF Disturb
<1>3. QED  BY <1>1, <1>2

\* A request moves to another step, and may disturb others on the way.
LEMMA Moved ==
  ASSUME NEW r \in [Requests -> RequestRecord], NEW c \in Requests, NEW p \in Pcs
  PROVE  LET q == [r EXCEPT ![c].pc = p] IN
         /\ q \in [Requests -> RequestRecord]
         /\ q[c].pc = p /\ q[c].sid = r[c].sid /\ q[c].user = r[c].user
         /\ \A x \in Requests \ {c} : q[x] = r[x]
<1> DEFINE q == [r EXCEPT ![c].pc = p]
<1>1. q \in [Requests -> RequestRecord]
  BY DEF RequestRecord
<1>2. q[c].pc = p /\ q[c].sid = r[c].sid /\ q[c].user = r[c].user
  BY DEF RequestRecord
<1>3. \A x \in Requests \ {c} : q[x] = r[x]
  OBVIOUS
<1>4. QED  BY <1>1, <1>2, <1>3

\* The conversations of a creation that commits.
LEMMA CommitTypes ==
  ASSUME TypeOK, NEW c \in Requests, req[c].sid \in Sids, req[c].user \in Users,
         CommitSession(c)
  PROVE  /\ sess' \in [Sids -> SessionRecord] /\ recent' \subseteq Sids \X Sids
         /\ summary' \subseteq Sids /\ extra' \in [Users -> Nat]
<1>0. sess \in [Sids -> SessionRecord]
  BY DEF TypeOK
<1>1. Evicted(c) \in [Sids -> SessionRecord]
  BY <1>0 DEF Evicted, Deleted, SessionRecord
<1>2. sess' \in [Sids -> SessionRecord]
  BY <1>1 DEF CommitSession, Inserted, SessionRecord
<1>3. recent \subseteq Sids \X Sids /\ summary \subseteq Sids /\ extra \in [Users -> Nat]
  BY DEF TypeOK
<1>4. recent' \subseteq Sids \X Sids
  BY <1>3 DEF CommitSession, Touch
<1>5. summary' \subseteq Sids /\ extra' \in [Users -> Nat]
  BY <1>3 DEF CommitSession
<1>6. QED  BY <1>2, <1>4, <1>5

LEMMA UpsertTypes ==
  ASSUME TypeOK, NEW s \in Sids, NEW u \in Users, NEW n \in Nat
  PROVE  Upserted(s, u, n) \in [Sids -> SessionRecord]
<1>0. sess \in [Sids -> SessionRecord]
  BY DEF TypeOK
<1>1. CASE Unused(s)
  <2>1. Inserted(sess, s, u) \in [Sids -> SessionRecord]
    BY <1>0 DEF Inserted, SessionRecord
  <2>2. QED  BY <1>1, <2>1 DEF Upserted, SessionRecord
<1>2. CASE ~Unused(s)
  BY <1>0, <1>2 DEF Upserted, SessionRecord
<1>3. QED  BY <1>1, <1>2

\* A creation goes on to write, with v or "" as its victim.
Writes(c, do, u, s, v) ==
    /\ v \in IF Full(u) THEN LeastRecent(u) ELSE {""}
    /\ v \in Sids \cup {""}
    /\ req' = [req EXCEPT ![c] = [pc |-> "write", do |-> do, user |-> u, sid |-> s,
                                  victim |-> v, alone |-> TRUE]]
    /\ req'[c].pc = "write" /\ req'[c].sid = s /\ req'[c].user = u /\ req'[c].victim = v

\* A creation is refused, or goes on to write with or without a victim.
LEMMA Creation ==
  ASSUME TypeOK, NEW c \in Requests, NEW u \in Users, NEW s \in Sids,
         NEW do \in {"create", "ask_new"}, ReadToCreate(c, do, u, s)
  PROVE  /\ req[c].pc = "new" /\ Unused(s) /\ \A x \in Requests : req[x].sid # s
         /\ UNCHANGED <<sessionVars, turnVars, summary, memory, report, extra>>
         /\ \/ req' = [req EXCEPT ![c].pc = "end"]
            \/ \E v : Writes(c, do, u, s, v)
<1>req. req \in [Requests -> RequestRecord]
  BY DEF TypeOK
<1>1. /\ req[c].pc = "new" /\ Unused(s) /\ \A x \in Requests : req[x].sid # s
      /\ UNCHANGED <<sessionVars, turnVars, summary, memory, report, extra>>
  BY DEF ReadToCreate, At
<1>2. CASE req' = [req EXCEPT ![c].pc = "end"]
  BY <1>1, <1>2
<1>3. CASE req' # [req EXCEPT ![c].pc = "end"]
  <2>1. PICK v \in IF Full(u) THEN LeastRecent(u) ELSE {""} :
          req' = [req EXCEPT ![c] = [pc |-> "write", do |-> do, user |-> u, sid |-> s,
                                     victim |-> v, alone |-> TRUE]]
    BY <1>3, Zenon DEF ReadToCreate, Goto
  <2>2. v \in Sids \cup {""}
    BY <2>1 DEF LeastRecent, Mine
  <2>3. req'[c].pc = "write" /\ req'[c].sid = s /\ req'[c].user = u /\ req'[c].victim = v
    BY <1>req, <2>1
  <2>4. Writes(c, do, u, s, v)
    BY <2>1, <2>2, <2>3, Zenon DEF Writes
  <2>5. QED  BY <1>1, <2>4
<1>4. QED  BY <1>2, <1>3

\* A question under a given id goes on to write.
LEMMA Asking ==
  ASSUME TypeOK, NEW c \in Requests, NEW u \in Users, NEW s \in Sids, AskInSession(c, u, s)
  PROVE  /\ req' = [req EXCEPT ![c] = [pc |-> "write", do |-> "ask", user |-> u, sid |-> s,
                                       victim |-> "", alone |-> TRUE]]
         /\ req[c].pc = "new" /\ req'[c].pc = "write" /\ req'[c].do = "ask" /\ req'[c].sid = s
         /\ req'[c].user = u
         /\ UNCHANGED <<sessionVars, turnVars, summary, memory, report, extra>>
<1>req. req \in [Requests -> RequestRecord]
  BY DEF TypeOK
<1>1. /\ req' = [req EXCEPT ![c] = [pc |-> "write", do |-> "ask", user |-> u, sid |-> s,
                                    victim |-> "", alone |-> TRUE]]
      /\ req[c].pc = "new"
      /\ UNCHANGED <<sessionVars, turnVars, summary, memory, report, extra>>
  BY DEF AskInSession, At
<1>2. PICK none : req'[c] = [pc |-> "write", do |-> "ask", user |-> u, sid |-> s,
                             victim |-> none, alone |-> TRUE]
  BY <1>req, <1>1
<1>3. req'[c].pc = "write" /\ req'[c].do = "ask" /\ req'[c].sid = s /\ req'[c].user = u
  BY <1>2
<1>4. QED  BY <1>1, <1>3

\* A brief report takes its turns.
LEMMA Loading ==
  ASSUME TypeOK, NEW c \in Requests, NEW u \in Users, NEW s \in Sids, LoadTurns(c, u, s)
  PROVE  /\ req' \in [Requests -> RequestRecord] /\ req[c].pc = "new" /\ ~Unused(s)
         /\ req'[c].pc = "plan" /\ req'[c].sid = s /\ req'[c].user = u
         /\ \A x \in Requests \ {c} : req'[x] = req[x]
         /\ UNCHANGED <<sessionVars, turnVars, summary, memory, extra>>
         /\ \E turns \in (SUBSET Reportable(u, s)) \ {{}} :
              report' = [report EXCEPT ![c].turns = turns]
<1>req. req \in [Requests -> RequestRecord]
  BY DEF TypeOK
<1>1. /\ req' = [req EXCEPT ![c].pc = "plan", ![c].user = u, ![c].sid = s]
      /\ UNCHANGED <<sessionVars, turnVars, summary, memory, extra>>
      /\ req[c].pc = "new" /\ ~Unused(s)
      /\ \E turns \in (SUBSET Reportable(u, s)) \ {{}} :
           report' = [report EXCEPT ![c].turns = turns]
  BY DEF LoadTurns, At, Owns, Mine, Live, Unused
<1>2. req' \in [Requests -> RequestRecord]
  <2>1. [req[c] EXCEPT !.pc = "plan", !.user = u, !.sid = s] \in RequestRecord
    BY <1>req DEF RequestRecord, Pcs
  <2>2. req' = [req EXCEPT ![c] = [req[c] EXCEPT !.pc = "plan", !.user = u, !.sid = s]]
    BY <1>req, <1>1
  <2>3. QED  BY <1>req, <2>1, <2>2
<1>3. req'[c].pc = "plan"
  BY <1>req, <1>1 DEF RequestRecord
<1>r. req[c] \in RequestRecord
  BY <1>req
<1>e. req'[c] = [[[req[c] EXCEPT !.pc = "plan"] EXCEPT !.user = u] EXCEPT !.sid = s]
  BY <1>req, <1>1
<1>4. req'[c].sid = s /\ req'[c].user = u
  <2>1. req'[c].sid = s
    BY <1>r, <1>e DEF RequestRecord
  <2>2. req'[c].user = u
    BY <1>r, <1>e DEF RequestRecord
  <2>3. QED  BY <2>1, <2>2
<1>5. \A x \in Requests \ {c} : req'[x] = req[x]
  BY <1>req, <1>1
<1>6. QED  BY <1>1, <1>2, <1>3, <1>4, <1>5

\* A request goes to its next step, other requests stay what they are.
LEMMA Going ==
  ASSUME TypeOK, Placed, NEW c \in Requests, NEW p \in Pcs,
         p \in {"write", "load", "run"} => req[c].sid \in Sids /\ req[c].user \in Users,
         \/ req' = [req EXCEPT ![c].pc = p]
         \/ \E u \in Users : req' = Disturb([req EXCEPT ![c].pc = p], u, c)
  PROVE  req' \in [Requests -> RequestRecord] /\ Placed'
<1> DEFINE q == [req EXCEPT ![c].pc = p]
<1>req. req \in [Requests -> RequestRecord]
  BY DEF TypeOK
<1>1. /\ q \in [Requests -> RequestRecord]
      /\ q[c].pc = p /\ q[c].sid = req[c].sid /\ q[c].user = req[c].user
      /\ \A x \in Requests \ {c} : q[x] = req[x]
  BY <1>req, Moved
<1>2. CASE req' = q
  BY <1>1, <1>2 DEF Placed
<1>3. ASSUME NEW u \in Users, req' = Disturb(q, u, c)
      PROVE  req' \in [Requests -> RequestRecord] /\ Placed'
  <2> HIDE DEF q
  <2>1. /\ req' \in [Requests -> RequestRecord]
        /\ \A x \in Requests : /\ req'[x].pc = q[x].pc /\ req'[x].sid = q[x].sid
                               /\ req'[x].user = q[x].user
    BY <1>1, <1>3, DisturbKeeps
  <2>2. QED  BY <1>1, <2>1 DEF Placed
<1>4. QED  BY <1>2, <1>3

\* A field of a report changes.
LEMMA Reporting ==
  ASSUME report \in [Requests -> ReportRecord], NEW c \in Requests
  PROVE  /\ \A v \in {"pending", "done", "fail"} :
              [report EXCEPT ![c].status = v] \in [Requests -> ReportRecord]
         /\ \A v \in SUBSET Requests :
              [report EXCEPT ![c].turns = v] \in [Requests -> ReportRecord]
         /\ \A b \in BOOLEAN : [report EXCEPT ![c].file = b] \in [Requests -> ReportRecord]
         /\ \A b \in BOOLEAN : [report EXCEPT ![c].lost = b] \in [Requests -> ReportRecord]
<1>1. ASSUME NEW v \in {"pending", "done", "fail"}
      PROVE  [report EXCEPT ![c].status = v] \in [Requests -> ReportRecord]
  BY DEF ReportRecord
<1>2. ASSUME NEW v \in SUBSET Requests
      PROVE  [report EXCEPT ![c].turns = v] \in [Requests -> ReportRecord]
  BY DEF ReportRecord
<1>3. ASSUME NEW b \in BOOLEAN
      PROVE  [report EXCEPT ![c].file = b] \in [Requests -> ReportRecord]
  BY DEF ReportRecord
<1>4. ASSUME NEW b \in BOOLEAN
      PROVE  [report EXCEPT ![c].lost = b] \in [Requests -> ReportRecord]
  BY DEF ReportRecord
<1>5. QED  BY <1>1, <1>2, <1>3, <1>4

\* Every step keeps the types.
LEMMA StepTypes == TypeOK /\ Placed /\ [Next]_vars => TypeOK' /\ Placed'
<1> SUFFICES ASSUME TypeOK, Placed, [Next]_vars
             PROVE  TypeOK' /\ Placed'
  OBVIOUS
<1> DEFINE SessTyped == sess \in [Sids -> SessionRecord] /\ recent \subseteq Sids \X Sids
           TurnTyped == turn \in [Requests -> TurnRecord] /\ finished \in Seq(Requests)
           RestTyped == summary \subseteq Sids /\ extra \in [Users -> Nat]
           MemoryTyped == memory \in [Requests -> SUBSET Requests]
           ReportTyped == report \in [Requests -> ReportRecord]
           ReqTyped == req \in [Requests -> RequestRecord] /\ Placed
<1>now. SessTyped /\ TurnTyped /\ RestTyped /\ MemoryTyped /\ ReportTyped /\ ReqTyped
  BY DEF TypeOK
<1>all. ASSUME SessTyped', TurnTyped', RestTyped', MemoryTyped', ReportTyped', ReqTyped'
        PROVE  TypeOK' /\ Placed'
  BY <1>all DEF TypeOK
<1>s. UNCHANGED sessionVars => SessTyped'
  BY <1>now DEF sessionVars
<1>t. UNCHANGED turnVars => TurnTyped'
  BY <1>now DEF turnVars
<1>r. UNCHANGED <<summary, extra>> => RestTyped'
  BY <1>now
<1>m. UNCHANGED memory => MemoryTyped'
  BY <1>now
<1>p. UNCHANGED report => ReportTyped'
  BY <1>now
<1>f. ASSUME NEW c \in Requests PROVE report[c] \in ReportRecord /\ turn[c] \in TurnRecord
  BY <1>now
<1>creates. ASSUME NEW c \in Requests, NEW u \in Users, NEW s \in Sids,
                   NEW do \in {"create", "ask_new"}, ReadToCreate(c, do, u, s)
            PROVE  TypeOK' /\ Placed'
  <2>1. UNCHANGED <<sessionVars, turnVars, summary, memory, report, extra>>
    BY <1>creates, Creation
  <2>2. CASE req' = [req EXCEPT ![c].pc = "end"]
    <3>1. ReqTyped'
      BY <2>2, Going DEF Pcs
    <3>2. QED  BY <1>s, <1>t, <1>r, <1>m, <1>p, <1>all, <2>1, <3>1
  <2>3. ASSUME NEW v \in Sids \cup {""},
               req' = [req EXCEPT ![c] = [pc |-> "write", do |-> do, user |-> u, sid |-> s,
                                          victim |-> v, alone |-> TRUE]],
               req'[c].sid = s, req'[c].user = u
        PROVE  TypeOK' /\ Placed'
    <3>1. [pc |-> "write", do |-> do, user |-> u, sid |-> s, victim |-> v, alone |-> TRUE]
            \in RequestRecord
      BY DEF RequestRecord, Pcs
    <3>2. req' \in [Requests -> RequestRecord] /\ \A x \in Requests \ {c} : req'[x] = req[x]
      BY <1>now, <2>3, <3>1
    <3>3. ReqTyped'
      BY <2>3, <3>2 DEF Placed
    <3>4. QED  BY <1>s, <1>t, <1>r, <1>m, <1>p, <1>all, <2>1, <3>3
  <2>4. ASSUME req' # [req EXCEPT ![c].pc = "end"]
        PROVE  TypeOK' /\ Placed'
    <3>1. PICK v : Writes(c, do, u, s, v)
      BY <1>creates, <2>4, Creation
    <3>2. QED  BY <2>3, <3>1, Zenon DEF Writes
  <2>5. QED  BY <2>2, <2>4
<1>created. ASSUME NEW c \in Requests, SessionCreated(c) PROVE TypeOK' /\ Placed'
  <2>1. req[c].sid \in Sids /\ req[c].user \in Users
    BY <1>created DEF SessionCreated, At, Placed
  <2>2. SessTyped' /\ RestTyped'
    BY <1>created, <2>1, CommitTypes DEF SessionCreated
  <2>3. ReqTyped'
    BY <1>created, <2>1, Going DEF SessionCreated, Pcs
  <2>4. UNCHANGED <<turnVars, memory, report>>
    BY <1>created DEF SessionCreated
  <2>5. QED  BY <1>t, <1>m, <1>p, <1>all, <2>2, <2>3, <2>4
<1>deletes. ASSUME NEW c \in Requests, NEW u \in Users, NEW s \in Sids, DeleteSession(c, u, s)
            PROVE  TypeOK' /\ Placed'
  <2>1. /\ sess' = Deleted(sess, s) /\ summary' = summary \ {s}
        /\ UNCHANGED <<recent, turnVars, memory, report, extra>>
    BY <1>deletes DEF DeleteSession
  <2>2. SessTyped' /\ RestTyped'
    BY <1>now, <2>1 DEF Deleted, SessionRecord
  <2>3. ReqTyped'
    BY <1>deletes, Going DEF DeleteSession, Pcs
  <2>4. QED  BY <1>t, <1>m, <1>p, <1>all, <2>1, <2>2, <2>3
<1>asks. ASSUME NEW c \in Requests, NEW u \in Users, NEW s \in Sids, AskInSession(c, u, s)
         PROVE  TypeOK' /\ Placed'
  <2>1. UNCHANGED <<sessionVars, turnVars, summary, memory, report, extra>>
    BY <1>asks, Asking
  <2>2. req' = [req EXCEPT ![c] = [pc |-> "write", do |-> "ask", user |-> u, sid |-> s,
                                   victim |-> "", alone |-> TRUE]]
    BY <1>asks, Asking, ZenonT(60)
  <2>3. [pc |-> "write", do |-> "ask", user |-> u, sid |-> s, victim |-> "", alone |-> TRUE]
          \in RequestRecord
    BY DEF RequestRecord, Pcs
  <2>4. PICK none \in Sids \cup {""} :
          req' = [req EXCEPT ![c] = [pc |-> "write", do |-> "ask", user |-> u, sid |-> s,
                                     victim |-> none, alone |-> TRUE]]
    BY <2>2
  <2>5. req' \in [Requests -> RequestRecord] /\ \A x \in Requests \ {c} : req'[x] = req[x]
    BY <1>now, <2>2, <2>3
  <2>6. req'[c].sid = s /\ req'[c].user = u
    BY <1>now, <2>4
  <2>7. ReqTyped'
    BY <2>5, <2>6 DEF Placed
  <2>8. QED  BY <1>s, <1>t, <1>r, <1>m, <1>p, <1>all, <2>1, <2>7
<1>begins. ASSUME NEW c \in Requests, AskBegins(c) PROVE TypeOK' /\ Placed'
  <2>1. req[c].sid \in Sids /\ req[c].user \in Users
    BY <1>begins DEF AskBegins, At, Placed
  <2>2. SessTyped' /\ RestTyped'
    <3>1. CASE req[c].do = "ask_new"
      BY <1>begins, <2>1, <3>1, CommitTypes DEF AskBegins
    <3>2. CASE req[c].do # "ask_new"
      <4>1. /\ sess' = Upserted(req[c].sid, req[c].user, 0)
            /\ recent' = Touch(recent, req[c].sid)
            /\ extra' = [extra EXCEPT ![req[c].user] = IF Unused(req[c].sid) THEN @ + 1 ELSE @]
            /\ UNCHANGED summary
        BY <1>begins, <3>2 DEF AskBegins
      <4>2. sess' \in [Sids -> SessionRecord]
        BY <2>1, <4>1, UpsertTypes
      <4>3. recent' \subseteq Sids \X Sids
        BY <1>now, <2>1, <4>1 DEF Touch
      <4>4. RestTyped'
        BY <1>now, <2>1, <4>1
      <4>5. QED  BY <4>2, <4>3, <4>4
    <3>3. QED  BY <3>1, <3>2
  <2>3. ReqTyped'
    BY <1>begins, <2>1, Going DEF AskBegins, Pcs
  <2>4. TurnTyped'
    <3>1. [sid |-> req[c].sid, user |-> req[c].user, status |-> "running"] \in TurnRecord
      BY <2>1 DEF TurnRecord
    <3>2. turn' = [turn EXCEPT ![c] = [sid |-> req[c].sid, user |-> req[c].user,
                                       status |-> "running"]] /\ finished' = Append(finished, c)
      BY <1>begins DEF AskBegins
    <3>3. QED  BY <1>now, <3>1, <3>2
  <2>5. UNCHANGED <<memory, report>>
    BY <1>begins DEF AskBegins
  <2>6. QED  BY <1>m, <1>p, <1>all, <2>2, <2>3, <2>4, <2>5
<1>loads. ASSUME NEW c \in Requests, LoadMemory(c) PROVE TypeOK' /\ Placed'
  <2>1. req[c].sid \in Sids /\ req[c].user \in Users
    BY <1>loads DEF LoadMemory, At, Placed
  <2>2. ReqTyped'
    BY <1>loads, <2>1, Going DEF LoadMemory, Goto, Pcs
  <2>3. PICK I \in SUBSET DOMAIN finished :
          memory' = [memory EXCEPT ![c] =
              IF Owns(req[c].user, req[c].sid) THEN {finished[i] : i \in I} ELSE {}]
    BY <1>loads, Zenon DEF LoadMemory
  <2>4. {finished[i] : i \in I} \subseteq Requests
    BY <1>now, <2>3
  <2>5. MemoryTyped'
    BY <1>now, <2>3, <2>4
  <2>6. UNCHANGED <<sessionVars, turnVars, summary, report, extra>>
    BY <1>loads DEF LoadMemory
  <2>7. QED  BY <1>s, <1>t, <1>r, <1>p, <1>all, <2>2, <2>5, <2>6
<1>succeeds. ASSUME NEW c \in Requests, AskSucceeds(c) PROVE TypeOK' /\ Placed'
  <2>1. req[c].sid \in Sids /\ req[c].user \in Users
    BY <1>succeeds DEF AskSucceeds, At, Placed
  <2>2. ReqTyped'
    BY <1>succeeds, Going DEF AskSucceeds, Goto, Pcs
  <2>3. /\ sess' = Upserted(req[c].sid, req[c].user, 1) /\ recent' = Touch(recent, req[c].sid)
        /\ summary' = summary \cup {req[c].sid} /\ turn' = [turn EXCEPT ![c].status = "success"]
        /\ UNCHANGED <<finished, memory, report, extra>>
    BY <1>succeeds DEF AskSucceeds
  <2>4. SessTyped'
    <3>1. sess' \in [Sids -> SessionRecord]
      BY <2>1, <2>3, UpsertTypes
    <3>2. recent' \subseteq Sids \X Sids
      BY <1>now, <2>1, <2>3 DEF Touch
    <3>3. QED  BY <3>1, <3>2
  <2>5. TurnTyped'
    BY <1>now, <2>3 DEF TurnRecord
  <2>6. RestTyped'
    BY <1>now, <2>1, <2>3
  <2>7. QED  BY <1>m, <1>p, <1>all, <2>2, <2>3, <2>4, <2>5, <2>6
<1>fails. ASSUME NEW c \in Requests, AskFails(c) PROVE TypeOK' /\ Placed'
  <2>1. req[c].sid \in Sids
    BY <1>fails DEF AskFails, At, Placed
  <2>2. ReqTyped'
    BY <1>fails, Going DEF AskFails, Goto, Pcs
  <2>3. /\ turn' = [turn EXCEPT ![c].status = "fail"]
        /\ summary' \in {summary, summary \cup {req[c].sid}}
        /\ UNCHANGED <<sessionVars, finished, memory, report, extra>>
    BY <1>fails DEF AskFails
  <2>4. TurnTyped'
    BY <1>now, <2>3 DEF TurnRecord
  <2>5. RestTyped'
    BY <1>now, <2>1, <2>3
  <2>6. QED  BY <1>s, <1>m, <1>p, <1>all, <2>2, <2>3, <2>4, <2>5
<1>takes. ASSUME NEW c \in Requests, NEW u \in Users, NEW s \in Sids, LoadTurns(c, u, s)
          PROVE  TypeOK' /\ Placed'
  <2>1. /\ req' \in [Requests -> RequestRecord] /\ req'[c].pc = "plan"
        /\ \A x \in Requests \ {c} : req'[x] = req[x]
        /\ UNCHANGED <<sessionVars, turnVars, summary, memory, extra>>
    BY <1>takes, Loading
  <2>2. ReqTyped'
    BY <1>now, <2>1 DEF Placed
  <2>3. PICK turns \in SUBSET Reportable(u, s) : report' = [report EXCEPT ![c].turns = turns]
    BY <1>takes, Loading
  <2>4. turns \in SUBSET Requests
    BY <2>3 DEF Reportable
  <2>5. ReportTyped'
    BY <1>now, <2>3, <2>4, Reporting
  <2>6. QED  BY <1>s, <1>t, <1>r, <1>m, <1>all, <2>1, <2>2, <2>5
<1>reports. ASSUME NEW c \in Requests, NEW p \in {"export", "mark", "end"},
                   req' = [req EXCEPT ![c].pc = p], ReportTyped',
                   UNCHANGED <<sessionVars, turnVars, summary, memory, extra>>
            PROVE  TypeOK' /\ Placed'
  <2>1. ReqTyped'
    BY <1>reports, Going DEF Pcs
  <2>2. QED  BY <1>s, <1>t, <1>r, <1>m, <1>all, <1>reports, <2>1
<1>starts. ASSUME NEW c \in Requests, StartReport(c) PROVE TypeOK' /\ Placed'
  <2>1. ReportTyped'
    BY <1>starts, <1>now, Reporting DEF StartReport
  <2>2. QED  BY <1>starts, <1>reports, <2>1 DEF StartReport, Goto
<1>exports. ASSUME NEW c \in Requests, ExportPdf(c) PROVE TypeOK' /\ Placed'
  <2>1. \A b \in BOOLEAN : [report EXCEPT ![c].file = b] \in [Requests -> ReportRecord]
    BY <1>now, Reporting
  <2>2. ReportTyped'
    BY <1>exports, <2>1, Zenon DEF ExportPdf
  <2>3. QED  BY <1>exports, <1>reports, <2>2 DEF ExportPdf, Goto
<1>marks. ASSUME NEW c \in Requests, MarkDone(c) PROVE TypeOK' /\ Placed'
  <2>1. ReportTyped'
    BY <1>marks, <1>now, Reporting DEF MarkDone
  <2>2. QED  BY <1>marks, <1>reports, <2>1 DEF MarkDone, Goto
<1>breaks. ASSUME NEW c \in Requests, ReportFails(c) PROVE TypeOK' /\ Placed'
  <2>1. ReportTyped'
    BY <1>breaks, <1>now, Reporting DEF ReportFails
  <2>2. QED  BY <1>breaks, <1>reports, <2>1 DEF ReportFails, Goto
<1>dies. ASSUME NEW c \in Requests, ReportIsLost(c) PROVE TypeOK' /\ Placed'
  <2>1. \A b \in BOOLEAN : [report EXCEPT ![c].lost = b] \in [Requests -> ReportRecord]
    BY <1>now, Reporting
  <2>2. ReportTyped'
    BY <1>dies, <2>1, Zenon DEF ReportIsLost
  <2>3. QED  BY <1>dies, <1>reports, <2>2 DEF ReportIsLost, Goto
<1>same. CASE UNCHANGED vars
  <2>1. ReqTyped'
    BY <1>now, <1>same DEF vars, Placed
  <2>2. QED  BY <1>s, <1>t, <1>r, <1>m, <1>p, <1>all, <1>same, <2>1 DEF vars
<1>next. CASE Next
  BY <1>next, <1>creates, <1>created, <1>deletes, <1>asks, <1>begins, <1>loads, <1>succeeds,
     <1>fails, <1>takes, <1>starts, <1>exports, <1>marks, <1>breaks, <1>dies
     DEF Next, CreateSession, AskInNewSession
<1>end. QED  BY <1>same, <1>next

LEMMA InitTypes == Init => TypeOK /\ Placed
<1> SUFFICES ASSUME Init PROVE TypeOK /\ Placed
  OBVIOUS
<1>1. sess \in [Sids -> SessionRecord] /\ recent \subseteq Sids \X Sids
  BY DEF Init, NoSession, SessionRecord
<1>2. turn \in [Requests -> TurnRecord] /\ finished \in Seq(Requests)
  <2>1. NoTurn \in TurnRecord
    BY DEF NoTurn, TurnRecord
  <2>2. QED  BY <2>1 DEF Init
<1>3. req \in [Requests -> RequestRecord] /\ Placed
  <2>1. NewRequest \in RequestRecord
    BY DEF NewRequest, RequestRecord, Pcs
  <2>2. NewRequest.pc = "new"
    BY Zenon DEF NewRequest
  <2>3. QED  BY <2>1, <2>2 DEF Init, Placed
<1>4. memory \in [Requests -> SUBSET Requests] /\ extra \in [Users -> Nat] /\ summary \subseteq Sids
  BY DEF Init
<1>5. report \in [Requests -> ReportRecord]
  BY DEF Init, NoReport, ReportRecord
<1>6. QED  BY <1>1, <1>2, <1>3, <1>4, <1>5 DEF TypeOK

\* The variables keep their types, and a request that works on a conversation
\* has a user and an id.
THEOREM TypeCorrect == Spec => [](TypeOK /\ Placed)
<1>1. QED  BY InitTypes, StepTypes, PTL DEF Spec

----------------------------------------------------------------------------
(* What a step does to the conversations                                   *)

\* A request that holds an id nobody else knows.
Creating(c) == req[c].pc = "write" /\ req[c].do \in {"create", "ask_new"}

\* The steps of one request that take a user and a conversation, and all of them.
WithSession(c, u, s) ==
    \/ CreateSession(c, u, s) \/ DeleteSession(c, u, s)
    \/ AskInNewSession(c, u, s) \/ AskInSession(c, u, s)
    \/ LoadTurns(c, u, s)
StepOf(c) ==
    \/ \E u \in Users, s \in Sids : WithSession(c, u, s)
    \/ SessionCreated(c) \/ AskBegins(c) \/ LoadMemory(c) \/ AskSucceeds(c) \/ AskFails(c)
    \/ StartReport(c) \/ ExportPdf(c) \/ MarkDone(c) \/ ReportFails(c) \/ ReportIsLost(c)

LEMMA NextIsAStep == Next <=> \E c \in Requests : StepOf(c)
BY DEF Next, StepOf, WithSession

\* A change of a conversation forbids others of the user to rely on their reading.
Disturbed(u, c) == \A x \in Requests \ {c} :
    req[x].pc = "write" /\ req[x].user = u => ~req'[x].alone

\* The four things that happen to the conversations.
KeepsAll ==
    /\ \A s \in Sids : sess'[s].is = sess[s].is /\ sess'[s].owner = sess[s].owner
    /\ extra' = extra
Commits(c) ==
    /\ Creating(c) /\ req[c].sid \in Sids /\ req[c].user \in Users
    /\ sess'[req[c].sid].is = "live" /\ sess'[req[c].sid].owner = req[c].user
    /\ \A s \in Sids \ {req[c].sid} :
          /\ sess'[s].owner = sess[s].owner
          /\ sess'[s].is = IF s = req[c].victim THEN "gone" ELSE sess[s].is
    /\ extra' = [extra EXCEPT ![req[c].user] = IF req[c].alone THEN @ ELSE @ + 1]
    /\ Disturbed(req[c].user, c)
Names(c) ==
    /\ req[c].pc = "write" /\ req[c].do = "ask" /\ req[c].sid \in Sids /\ req[c].user \in Users
    /\ Unused(req[c].sid)
    /\ sess'[req[c].sid].is = "live" /\ sess'[req[c].sid].owner = req[c].user
    /\ \A s \in Sids \ {req[c].sid} : sess'[s] = sess[s]
    /\ extra' = [extra EXCEPT ![req[c].user] = @ + 1]
    /\ Disturbed(req[c].user, c)
Removes(c, u, s) ==
    /\ u \in Users /\ s \in Sids /\ Owns(u, s)
    /\ sess'[s].is = "gone" /\ sess'[s].owner = sess[s].owner
    /\ \A t \in Sids \ {s} : sess'[t] = sess[t]
    /\ extra' = extra
    /\ Disturbed(u, c)

\* A question whose conversation is there does not make it.
Present == \A c \in Requests : req[c].pc \in {"load", "run"} => ~Unused(req[c].sid)

\* A commit that disturbs.
LEMMA Disturbing ==
  ASSUME TypeOK, NEW c \in Requests, NEW u, NEW p \in Pcs,
         req' = Disturb([req EXCEPT ![c].pc = p], u, c)
  PROVE  Disturbed(u, c)
<1> DEFINE q == [req EXCEPT ![c].pc = p]
<1>1. q \in [Requests -> RequestRecord] /\ \A x \in Requests \ {c} : q[x] = req[x]
  BY Moved DEF TypeOK
<1>2. req' = Disturb(q, u, c)
  OBVIOUS
<1> HIDE DEF q
<1>3. \A x \in Requests \ {c} : req'[x].alone /\ q[x].pc = "write" => q[x].user # u
  BY <1>1, <1>2, DisturbKeeps
<1>4. QED  BY <1>1, <1>3 DEF Disturbed

LEMMA CommitEffect ==
  ASSUME TypeOK, NEW c \in Requests, req[c].sid \in Sids, CommitSession(c)
  PROVE  /\ sess'[req[c].sid].is = "live" /\ sess'[req[c].sid].owner = req[c].user
         /\ \A s \in Sids \ {req[c].sid} :
              /\ sess'[s].owner = sess[s].owner
              /\ sess'[s].is = IF s = req[c].victim THEN "gone" ELSE sess[s].is
<1>sess. sess \in [Sids -> SessionRecord]
  BY DEF TypeOK
<1>1. Evicted(c) \in [Sids -> SessionRecord]
  BY <1>sess DEF Evicted, Deleted, SessionRecord
<1>2. \A s \in Sids : /\ Evicted(c)[s].owner = sess[s].owner
                      /\ Evicted(c)[s].is = IF s = req[c].victim THEN "gone" ELSE sess[s].is
  <2>1. CASE req[c].victim = ""
    BY <2>1, SessionsAssumption DEF Evicted, SessionsAssumption
  <2>2. CASE req[c].victim # ""
    BY <1>sess, <2>2 DEF Evicted, Deleted, SessionRecord
  <2>3. QED  BY <2>1, <2>2
<1>3. sess' = [Evicted(c) EXCEPT ![req[c].sid] =
                  [is |-> "live", owner |-> req[c].user, count |-> 0]]
  BY DEF CommitSession, Inserted
<1>4. \A s \in Sids \ {req[c].sid} : sess'[s] = Evicted(c)[s]
  BY <1>1, <1>3
<1>5. sess'[req[c].sid] = [is |-> "live", owner |-> req[c].user, count |-> 0]
  BY <1>1, <1>3
<1>6. sess'[req[c].sid].is = "live" /\ sess'[req[c].sid].owner = req[c].user
  BY <1>5
<1>7. QED  BY <1>2, <1>4, <1>6

LEMMA UpsertEffect ==
  ASSUME TypeOK, NEW s \in Sids, NEW u \in Users, NEW n \in Nat, sess' = Upserted(s, u, n)
  PROVE  /\ \A t \in Sids \ {s} : sess'[t] = sess[t]
         /\ Unused(s) => sess'[s].is = "live" /\ sess'[s].owner = u
         /\ ~Unused(s) => sess'[s].is = sess[s].is /\ sess'[s].owner = sess[s].owner
<1>sess. sess \in [Sids -> SessionRecord]
  BY DEF TypeOK
<1>1. CASE Unused(s)
  <2> DEFINE r == [is |-> "live", owner |-> u, count |-> 0]
  <2>1. sess' = [[sess EXCEPT ![s] = r] EXCEPT ![s].count = n]
    BY <1>1 DEF Upserted, Inserted
  <2>2. sess'[s] = [r EXCEPT !.count = n] /\ \A t \in Sids \ {s} : sess'[t] = sess[t]
    BY <1>sess, <2>1
  <2>3. sess'[s].is = "live" /\ sess'[s].owner = u
    BY <2>2
  <2>4. QED  BY <1>1, <2>2, <2>3
<1>2. CASE ~Unused(s)
  <2>1. sess' = [sess EXCEPT ![s].count = sess[s].count + n]
    BY <1>2 DEF Upserted
  <2>2. \A t \in Sids \ {s} : sess'[t] = sess[t]
    BY <1>sess, <2>1
  <2>3. sess'[s].is = sess[s].is /\ sess'[s].owner = sess[s].owner
    BY <1>sess, <2>1 DEF SessionRecord
  <2>4. QED  BY <1>2, <2>2, <2>3
<1>3. QED  BY <1>1, <1>2

\* One of the four happens.
LEMMA Effect ==
  ASSUME TypeOK, Placed, Present, NEW c \in Requests, StepOf(c)
  PROVE  \/ KeepsAll \/ Commits(c) \/ Names(c)
         \/ \E u \in Users, s \in Sids : Removes(c, u, s)
<1>sess. sess \in [Sids -> SessionRecord]
  BY DEF TypeOK
<1>same. UNCHANGED <<sessionVars, extra>> => KeepsAll
  BY DEF sessionVars, KeepsAll
<1>1. ASSUME NEW u \in Users, NEW s \in Sids, WithSession(c, u, s)
      PROVE  KeepsAll \/ Removes(c, u, s)
  <2>1. CASE CreateSession(c, u, s)
    BY <1>same, <2>1, Creation DEF CreateSession
  <2>2. CASE AskInNewSession(c, u, s)
    BY <1>same, <2>2, Creation DEF AskInNewSession
  <2>3. CASE AskInSession(c, u, s)
    BY <1>same, <2>3 DEF AskInSession
  <2>4. CASE LoadTurns(c, u, s)
    BY <1>same, <2>4 DEF LoadTurns
  <2>5. CASE DeleteSession(c, u, s)
    <3>1. sess' = Deleted(sess, s) /\ Owns(u, s) /\ extra' = extra
      BY <2>5 DEF DeleteSession
    <3>2. \A t \in Sids \ {s} : sess'[t] = sess[t]
      BY <1>sess, <3>1 DEF Deleted
    <3>3. sess'[s].is = "gone" /\ sess'[s].owner = sess[s].owner
      BY <1>sess, <3>1 DEF Deleted, SessionRecord
    <3>4. Disturbed(u, c)
      BY <2>5, Disturbing DEF DeleteSession, Pcs
    <3>5. QED  BY <3>1, <3>2, <3>3, <3>4 DEF Removes
  <2>6. QED  BY <1>1, <2>1, <2>2, <2>3, <2>4, <2>5 DEF WithSession
<1>2. CASE SessionCreated(c)
  <2>1. /\ Creating(c) /\ CommitSession(c)
        /\ req' = Disturb([req EXCEPT ![c].pc = "end"], req[c].user, c)
    BY <1>2 DEF SessionCreated, Creating, At
  <2>2. req[c].sid \in Sids /\ req[c].user \in Users
    BY <2>1 DEF Creating, Placed
  <2>3. Disturbed(req[c].user, c)
    BY <2>1, Disturbing DEF Pcs
  <2>4. extra' = [extra EXCEPT ![req[c].user] = IF req[c].alone THEN @ ELSE @ + 1]
    BY <2>1 DEF CommitSession
  <2>5. Commits(c)
    BY <2>1, <2>2, <2>3, <2>4, CommitEffect DEF Commits
  <2>6. QED  BY <2>5
<1>3. CASE AskBegins(c)
  <2>1. req[c].sid \in Sids /\ req[c].user \in Users /\ req[c].pc = "write"
    BY <1>3 DEF AskBegins, At, Placed
  <2>2. Disturbed(req[c].user, c)
    BY <1>3, Disturbing DEF AskBegins, Pcs
  <2>3. CASE req[c].do = "ask_new"
    <3>1. CommitSession(c) /\ Creating(c)
      BY <1>3, <2>1, <2>3 DEF AskBegins, Creating
    <3>2. extra' = [extra EXCEPT ![req[c].user] = IF req[c].alone THEN @ ELSE @ + 1]
      BY <3>1 DEF CommitSession
    <3>3. Commits(c)
      BY <2>1, <2>2, <3>1, <3>2, CommitEffect DEF Commits
    <3>4. QED  BY <3>3
  <2>4. CASE req[c].do # "ask_new"
    <3>1. /\ req[c].do = "ask" /\ sess' = Upserted(req[c].sid, req[c].user, 0)
          /\ extra' = [extra EXCEPT ![req[c].user] = IF Unused(req[c].sid) THEN @ + 1 ELSE @]
      BY <1>3, <2>4 DEF AskBegins
    <3>2. extra \in [Users -> Nat]
      BY DEF TypeOK
    <3>3. CASE Unused(req[c].sid)
      <4>1. extra' = [extra EXCEPT ![req[c].user] = @ + 1]
        BY <3>1, <3>3
      <4>2. Names(c)
        BY <2>1, <2>2, <3>1, <3>3, <4>1, UpsertEffect DEF Names
      <4>3. QED  BY <4>2
    <3>4. CASE ~Unused(req[c].sid)
      <4>1. extra' = extra
        BY <3>1, <3>2, <3>4
      <4>2. \A s \in Sids : sess'[s].is = sess[s].is /\ sess'[s].owner = sess[s].owner
        BY <2>1, <3>1, <3>4, UpsertEffect
      <4>3. QED  BY <4>1, <4>2 DEF KeepsAll
    <3>5. QED  BY <3>3, <3>4
  <2>5. QED  BY <2>3, <2>4
<1>4. CASE AskSucceeds(c)
  <2>1. /\ req[c].sid \in Sids /\ req[c].user \in Users /\ ~Unused(req[c].sid)
        /\ sess' = Upserted(req[c].sid, req[c].user, 1) /\ extra' = extra
    BY <1>4 DEF AskSucceeds, At, Placed, Present
  <2>2. \A s \in Sids : sess'[s].is = sess[s].is /\ sess'[s].owner = sess[s].owner
    BY <2>1, UpsertEffect
  <2>3. QED  BY <2>1, <2>2 DEF KeepsAll
<1>5. CASE LoadMemory(c) \/ AskFails(c) \/ StartReport(c) \/ ExportPdf(c)
           \/ MarkDone(c) \/ ReportFails(c) \/ ReportIsLost(c)
  BY <1>same, <1>5 DEF LoadMemory, AskFails, StartReport, ExportPdf, MarkDone,
     ReportFails, ReportIsLost
<1>6. QED  BY <1>1, <1>2, <1>3, <1>4, <1>5 DEF StepOf

----------------------------------------------------------------------------
(* What a step does to the requests                                        *)

\* Steps that take no user and no conversation move the request to p.
LEMMA Advance ==
  ASSUME TypeOK, NEW c \in Requests, NEW p \in Pcs,
         \/ req' = [req EXCEPT ![c].pc = p]
         \/ \E u : req' = Disturb([req EXCEPT ![c].pc = p], u, c)
  PROVE  /\ req'[c].pc = p /\ req'[c].sid = req[c].sid /\ req'[c].user = req[c].user
         /\ \A x \in Requests \ {c} :
              /\ req'[x].pc = req[x].pc /\ req'[x].do = req[x].do
              /\ req'[x].user = req[x].user /\ req'[x].sid = req[x].sid
              /\ req'[x].victim = req[x].victim /\ (req'[x].alone => req[x].alone)
<1> DEFINE q == [req EXCEPT ![c].pc = p]
<1>1. /\ q \in [Requests -> RequestRecord]
      /\ q[c].pc = p /\ q[c].sid = req[c].sid /\ q[c].user = req[c].user
      /\ \A x \in Requests \ {c} : q[x] = req[x]
  BY Moved DEF TypeOK
<1>2. CASE req' = q
  BY <1>1, <1>2
<1>3. ASSUME NEW u, req' = Disturb(q, u, c)
      PROVE  /\ req'[c].pc = p /\ req'[c].sid = req[c].sid /\ req'[c].user = req[c].user
             /\ \A x \in Requests \ {c} :
                  /\ req'[x].pc = req[x].pc /\ req'[x].do = req[x].do
                  /\ req'[x].user = req[x].user /\ req'[x].sid = req[x].sid
                  /\ req'[x].victim = req[x].victim /\ (req'[x].alone => req[x].alone)
  <2> HIDE DEF q
  <2>1. \A x \in Requests :
          /\ req'[x].pc = q[x].pc /\ req'[x].do = q[x].do
          /\ req'[x].user = q[x].user /\ req'[x].sid = q[x].sid
          /\ req'[x].victim = q[x].victim /\ (req'[x].alone => q[x].alone)
    BY <1>1, <1>3, DisturbKeeps
  <2>2. QED  BY <1>1, <2>1
<1>4. QED  BY <1>2, <1>3

\* What a step leaves of the other requests.
Stays(x) ==
    /\ req'[x].pc = req[x].pc /\ req'[x].do = req[x].do
    /\ req'[x].user = req[x].user /\ req'[x].sid = req[x].sid
    /\ req'[x].victim = req[x].victim /\ (req'[x].alone => req[x].alone)

\* Where the step of a request leads from: a generated id is new, and a given
\* one is not generated.
Leads(c) ==
    /\ req'[c].pc # "new"
    /\ req'[c].pc = "write" =>
          /\ req[c].pc = "new" /\ UNCHANGED <<sessionVars, extra>>
          /\ req'[c].sid \in Sids /\ req'[c].user \in Users
          /\ \/ \E do \in {"create", "ask_new"} :
                  /\ Unused(req'[c].sid) /\ \A x \in Requests : req[x].sid # req'[c].sid
                  /\ Writes(c, do, req'[c].user, req'[c].sid, req'[c].victim)
             \/ req'[c].do = "ask" /\ ~Generated(req'[c].sid)
    /\ req'[c].pc = "plan" => req[c].pc = "new" /\ ~Unused(req'[c].sid)
    /\ req'[c].pc \notin {"write", "plan"} =>
          req'[c].sid = req[c].sid /\ req'[c].user = req[c].user
    /\ req'[c].pc = "load" => AskBegins(c)
    /\ req'[c].pc = "run" => LoadMemory(c)
    /\ req[c].pc # "new" => req'[c].pc \notin {"write", "plan"}

LEMMA OthersStay ==
  ASSUME TypeOK, NEW c \in Requests, StepOf(c)
  PROVE  Leads(c) /\ \A x \in Requests \ {c} : Stays(x)
<1>req. req \in [Requests -> RequestRecord]
  BY DEF TypeOK
<1>creates. ASSUME NEW u \in Users, NEW s \in Sids, NEW do \in {"create", "ask_new"},
                   ReadToCreate(c, do, u, s)
            PROVE  Leads(c) /\ \A x \in Requests \ {c} : Stays(x)
  <2>1. /\ req[c].pc = "new" /\ Unused(s) /\ \A x \in Requests : req[x].sid # s
        /\ UNCHANGED <<sessionVars, turnVars, summary, memory, report, extra>>
    BY <1>creates, Creation
  <2>2. CASE req' = [req EXCEPT ![c].pc = "end"]
    <3>1. req'[c].pc = "end" /\ req'[c].sid = req[c].sid /\ req'[c].user = req[c].user
          /\ \A x \in Requests \ {c} : req'[x] = req[x]
      BY <1>req, <2>2, Moved DEF Pcs
    <3>2. QED  BY <3>1 DEF Leads, Stays
  <2>3. CASE req' # [req EXCEPT ![c].pc = "end"]
    <3>1. PICK v : Writes(c, do, u, s, v)
      BY <1>creates, <2>3, Creation
    <3>2. req'[c].pc = "write" /\ req'[c].sid = s /\ req'[c].user = u /\ req'[c].victim = v
      BY <3>1 DEF Writes
    <3>3. \A x \in Requests \ {c} : req'[x] = req[x]
      BY <1>req, <3>1 DEF Writes
    <3>4. Leads(c)
      BY <2>1, <3>1, <3>2 DEF Leads
    <3>5. QED  BY <3>3, <3>4 DEF Stays
  <2>4. QED  BY <2>2, <2>3
<1>asks. ASSUME NEW u \in Users, NEW s \in Sids, AskInSession(c, u, s)
         PROVE  Leads(c) /\ \A x \in Requests \ {c} : Stays(x)
  <2>1. /\ req[c].pc = "new" /\ req'[c].pc = "write" /\ req'[c].do = "ask" /\ req'[c].sid = s
        /\ UNCHANGED <<sessionVars, extra>>
    BY <1>asks, Asking, ZenonT(60)
  <2>2. PICK r : req' = [req EXCEPT ![c] = r]
    BY <1>asks, Asking
  <2>3. req'[c].user = u
    BY <1>asks, Asking
  <2>4. \A x \in Requests \ {c} : req'[x] = req[x]
    BY <1>req, <2>2
  <2>5. ~Generated(s)
    BY <1>asks DEF AskInSession
  <2>6. Leads(c)
    BY <2>1, <2>3, <2>5 DEF Leads
  <2>7. QED  BY <2>4, <2>6 DEF Stays
<1>takes. ASSUME NEW u \in Users, NEW s \in Sids, LoadTurns(c, u, s)
          PROVE  Leads(c) /\ \A x \in Requests \ {c} : Stays(x)
  BY <1>takes, Loading DEF Leads, Stays
<1>goes. ASSUME NEW p \in {"load", "run", "export", "mark", "end"},
                \/ req' = [req EXCEPT ![c].pc = p]
                \/ \E u : req' = Disturb([req EXCEPT ![c].pc = p], u, c),
                p = "load" => AskBegins(c), p = "run" => LoadMemory(c)
         PROVE  Leads(c) /\ \A x \in Requests \ {c} : Stays(x)
  <2>1. /\ req'[c].pc = p /\ req'[c].sid = req[c].sid /\ req'[c].user = req[c].user
        /\ \A x \in Requests \ {c} :
              /\ req'[x].pc = req[x].pc /\ req'[x].do = req[x].do
              /\ req'[x].user = req[x].user /\ req'[x].sid = req[x].sid
              /\ req'[x].victim = req[x].victim /\ (req'[x].alone => req[x].alone)
    <3>1. p \in Pcs
      BY DEF Pcs
    <3>2. QED  BY <1>goes, <3>1, Advance, Zenon
  <2>2. QED  BY <1>goes, <2>1 DEF Leads, Stays
<1>1. ASSUME NEW u \in Users, NEW s \in Sids, WithSession(c, u, s)
      PROVE  Leads(c) /\ \A x \in Requests \ {c} : Stays(x)
  <2>1. CASE DeleteSession(c, u, s)
    BY <1>goes, <2>1 DEF DeleteSession
  <2>2. QED  BY <1>1, <1>creates, <1>asks, <1>takes, <2>1
             DEF WithSession, CreateSession, AskInNewSession
<1>2. CASE SessionCreated(c)
  BY <1>2, <1>goes DEF SessionCreated
<1>3. CASE AskBegins(c)
  BY <1>3, <1>goes DEF AskBegins
<1>4. CASE LoadMemory(c)
  BY <1>4, <1>goes DEF LoadMemory, Goto
<1>5. CASE AskSucceeds(c)
  BY <1>5, <1>goes DEF AskSucceeds, Goto
<1>6. CASE AskFails(c)
  BY <1>6, <1>goes DEF AskFails, Goto
<1>7. CASE StartReport(c)
  BY <1>7, <1>goes DEF StartReport, Goto
<1>8. CASE ExportPdf(c)
  BY <1>8, <1>goes DEF ExportPdf, Goto
<1>9. CASE MarkDone(c) \/ ReportFails(c) \/ ReportIsLost(c)
  BY <1>9, <1>goes DEF MarkDone, ReportFails, ReportIsLost, Goto
<1>10. QED  BY <1>1, <1>2, <1>3, <1>4, <1>5, <1>6, <1>7, <1>8, <1>9 DEF StepOf

----------------------------------------------------------------------------
(* Deletion                                                                *)

\* An id that a creation holds is its own until it commits; its victim is a
\* conversation of the user.
Fresh == \A c \in Requests : Creating(c) =>
    /\ Unused(req[c].sid)
    /\ \A x \in Requests \ {c} : req[x].sid # req[c].sid
    /\ req[c].victim # "" => ~Unused(req[c].victim) /\ sess[req[c].victim].owner = req[c].user

\* A row stays, keeps its owner and its mark; a row comes with the request
\* that holds its id.
SessionsStay ==
    \A s \in Sids :
        /\ ~Unused(s) => sess'[s].is # "none" /\ sess'[s].owner = sess[s].owner
        /\ sess[s].is = "gone" => sess'[s].is = "gone"

LEMMA Staying ==
  ASSUME TypeOK, Placed, Present, Fresh, NEW c \in Requests, StepOf(c)
  PROVE  /\ SessionsStay
         /\ \A s \in Sids : Unused(s) /\ sess'[s].is # "none" =>
              req[c].pc = "write" /\ s = req[c].sid
<1>1. CASE KeepsAll
  BY <1>1 DEF KeepsAll, SessionsStay, Unused
<1>2. CASE Commits(c)
  <2>1. Unused(req[c].sid) /\ (req[c].victim # "" => ~Unused(req[c].victim))
    BY <1>2 DEF Commits, Fresh
  <2>2. \A s \in Sids : s # ""
    BY SessionsAssumption DEF SessionsAssumption
  <2>3. \A s \in Sids \ {req[c].sid} :
          /\ sess'[s].owner = sess[s].owner
          /\ sess'[s].is = IF s = req[c].victim THEN "gone" ELSE sess[s].is
    BY <1>2 DEF Commits
  <2>4. req[c].pc = "write"
    BY <1>2 DEF Commits, Creating
  <2>5. QED  BY <2>1, <2>2, <2>3, <2>4 DEF SessionsStay, Unused
<1>3. CASE Names(c)
  BY <1>3 DEF Names, SessionsStay, Unused
<1>4. ASSUME NEW u \in Users, NEW s \in Sids, Removes(c, u, s)
      PROVE  SessionsStay /\ \A t \in Sids : Unused(t) => sess'[t].is = "none"
  <2>1. ~Unused(s)
    BY <1>4 DEF Removes, Owns, Mine, Live, Unused
  <2>2. QED  BY <1>4, <2>1 DEF Removes, SessionsStay, Unused
<1>5. QED  BY <1>1, <1>2, <1>3, <1>4, Effect

\* The id of a creation is not taken by another request.
LEMMA OwnId ==
  ASSUME TypeOK, Fresh, NEW c \in Requests, StepOf(c), NEW x \in Requests \ {c}, Creating(x)
  PROVE  req'[c].sid # req[x].sid
<1>1. Leads(c) /\ req[c].sid # req[x].sid /\ Unused(req[x].sid) /\ Generated(req[x].sid)
  BY OthersStay DEF Fresh, Creating, Generated
<1>2. CASE req'[c].pc = "write"
  BY <1>1, <1>2 DEF Leads
<1>3. CASE req'[c].pc = "plan"
  BY <1>1, <1>3 DEF Leads
<1>4. CASE req'[c].pc \notin {"write", "plan"}
  BY <1>1, <1>4 DEF Leads
<1>5. QED  BY <1>2, <1>3, <1>4

LEMMA FreshStep ==
  ASSUME TypeOK, Placed, Present, Fresh, NEW c \in Requests, StepOf(c)
  PROVE  Fresh' /\ Present'
<1>1. Leads(c) /\ \A x \in Requests \ {c} : Stays(x)
  BY OthersStay
<1>2. /\ SessionsStay
      /\ \A s \in Sids : Unused(s) /\ sess'[s].is # "none" => s = req[c].sid
  BY Staying
<1>3. ASSUME NEW x \in Requests \ {c}, Creating(x)'
      PROVE  /\ Unused(req[x].sid)'
             /\ \A y \in Requests \ {x} : req'[y].sid # req'[x].sid
             /\ req'[x].victim # "" => ~Unused(req[x].victim)'
                                         /\ sess'[req'[x].victim].owner = req'[x].user
  <2>1. Stays(x) /\ Creating(x) /\ req[x].sid \in Sids
    BY <1>1, <1>3 DEF Stays, Creating, Placed
  <2>2. Unused(req[x].sid)'
    BY <1>2, <2>1 DEF Fresh, Stays, Unused
  <2>3. \A y \in Requests \ {x} : req'[y].sid # req'[x].sid
    <3>1. req'[c].sid # req'[x].sid
      BY <2>1, OwnId DEF Stays
    <3>2. \A y \in Requests \ {x, c} : req'[y].sid = req[y].sid
      BY <1>1 DEF Stays
    <3>3. QED  BY <2>1, <3>1, <3>2, ZenonT(60) DEF Fresh, Stays
  <2>4. ASSUME req'[x].victim # ""
        PROVE  ~Unused(req[x].victim)' /\ sess'[req'[x].victim].owner = req'[x].user
    <3>1. /\ req[x].victim # "" /\ ~Unused(req[x].victim) /\ req[x].victim = req'[x].victim
          /\ sess[req[x].victim].owner = req[x].user /\ req[x].user = req'[x].user
      BY <2>1, <2>4 DEF Stays, Fresh
    <3>2. req[x].victim \in Sids
      BY <3>1 DEF TypeOK, RequestRecord
    <3>3. QED  BY <1>2, <3>1, <3>2 DEF SessionsStay, Unused
  <2>5. QED  BY <2>2, <2>3, <2>4
<1>4. ASSUME Creating(c)'
      PROVE  /\ Unused(req[c].sid)'
             /\ \A y \in Requests \ {c} : req'[y].sid # req'[c].sid
             /\ req'[c].victim # "" => ~Unused(req[c].victim)'
                                         /\ sess'[req'[c].victim].owner = req'[c].user
  <2>1. req'[c].pc = "write" /\ req'[c].do # "ask"
    BY <1>4 DEF Creating
  <2>2. PICK do \in {"create", "ask_new"} :
          /\ Unused(req'[c].sid) /\ \A x \in Requests : req[x].sid # req'[c].sid
          /\ Writes(c, do, req'[c].user, req'[c].sid, req'[c].victim)
    BY <1>1, <2>1 DEF Leads
  <2>3. sess' = sess
    BY <1>1, <2>1 DEF Leads, sessionVars
  <2>4. Unused(req[c].sid)'
    BY <2>2, <2>3 DEF Unused
  <2>5. \A y \in Requests \ {c} : req'[y].sid # req'[c].sid
    BY <1>1, <2>2 DEF Stays
  <2>6. ASSUME req'[c].victim # ""
        PROVE  ~Unused(req[c].victim)' /\ sess'[req'[c].victim].owner = req'[c].user
    <3>1. req'[c].victim \in LeastRecent(req'[c].user)
      BY <2>2, <2>6 DEF Writes
    <3>2. req'[c].victim \in Mine(req'[c].user)
      BY <3>1 DEF LeastRecent
    <3>3. QED  BY <2>3, <3>2 DEF Mine, Live, Unused
  <2>7. QED  BY <2>4, <2>5, <2>6
<1>5. Fresh'
  BY <1>3, <1>4 DEF Fresh
<1>6. ASSUME NEW x \in Requests \ {c}, req'[x].pc \in {"load", "run"}
      PROVE  ~Unused(req[x].sid)'
  <2>1. req[x].pc \in {"load", "run"} /\ req'[x].sid = req[x].sid
    BY <1>1, <1>6 DEF Stays
  <2>2. ~Unused(req[x].sid) /\ req[x].sid \in Sids
    BY <2>1 DEF Present, Placed
  <2>3. QED  BY <1>2, <2>1, <2>2 DEF SessionsStay, Unused
<1>7. ASSUME req'[c].pc = "load"
      PROVE  ~Unused(req[c].sid)'
  <2>1. AskBegins(c) /\ req'[c].sid = req[c].sid
    BY <1>1, <1>7 DEF Leads
  <2>2. req[c].sid \in Sids /\ req[c].user \in Users
    BY <2>1 DEF AskBegins, At, Placed
  <2>3. CASE req[c].do = "ask_new"
    <3>1. CommitSession(c)
      BY <2>1, <2>3 DEF AskBegins
    <3>2. QED  BY <2>1, <2>2, <3>1, CommitEffect DEF Unused
  <2>4. CASE req[c].do # "ask_new"
    <3>1. sess' = Upserted(req[c].sid, req[c].user, 0)
      BY <2>1, <2>4 DEF AskBegins
    <3>2. QED  BY <2>1, <2>2, <3>1, UpsertEffect DEF Unused
  <2>5. QED  BY <2>3, <2>4
<1>8. ASSUME req'[c].pc = "run"
      PROVE  ~Unused(req[c].sid)'
  <2>1. req[c].pc = "load" /\ sess' = sess /\ req'[c].sid = req[c].sid
    BY <1>1, <1>8 DEF Leads, LoadMemory, At, sessionVars
  <2>2. QED  BY <2>1 DEF Present, Unused
<1>9. Present'
  BY <1>6, <1>7, <1>8 DEF Present
<1>10. QED  BY <1>5, <1>9

\* What the theorems rest on.
Sound == TypeOK /\ Placed /\ Present /\ Fresh

LEMMA SoundStep == Sound /\ [Next]_vars => Sound'
<1> SUFFICES ASSUME Sound, [Next]_vars PROVE Sound'
  OBVIOUS
<1>1. TypeOK' /\ Placed'
  BY StepTypes DEF Sound
<1>2. CASE Next
  <2>1. PICK c \in Requests : StepOf(c)
    BY <1>2, NextIsAStep
  <2>2. QED  BY <1>1, <2>1, FreshStep DEF Sound
<1>3. CASE UNCHANGED vars
  <2>1. sess' = sess /\ req' = req
    BY <1>3 DEF vars, sessionVars
  <2>2. QED  BY <1>1, <2>1 DEF Sound, Fresh, Present, Creating, Unused
<1>4. QED  BY <1>2, <1>3

LEMMA InitSound == Init => Sound
<1> SUFFICES ASSUME Init PROVE Sound
  OBVIOUS
<1>1. \A c \in Requests : req[c] = NewRequest
  BY DEF Init
<1>2. NewRequest.pc = "new"
  BY Zenon DEF NewRequest
<1>3. QED  BY <1>1, <1>2, InitTypes DEF Sound, Fresh, Present, Creating

LEMMA AlwaysSound == Spec => []Sound
BY InitSound, SoundStep, PTL DEF Spec

\* A conversation that was deleted or evicted stays deleted and keeps its
\* owner, whoever goes on asking under its id.
THEOREM DeletionIsFinal == Spec => DeletedStaysDeleted
<1> DEFINE Final == \A s \in Sids : sess[s].is = "gone" =>
                        sess'[s].is = "gone" /\ sess'[s].owner = sess[s].owner
<1>1. Sound /\ [Next]_vars => [Final]_vars
  <2> SUFFICES ASSUME Sound, Next PROVE Final
    OBVIOUS
  <2>1. PICK c \in Requests : StepOf(c)
    BY NextIsAStep
  <2>2. SessionsStay
    BY <2>1, Staying DEF Sound
  <2>3. QED  BY <2>2 DEF SessionsStay, Unused
<1>2. QED  BY <1>1, AlwaysSound, PTL DEF Spec, DeletedStaysDeleted

----------------------------------------------------------------------------
(* Reports and memory                                                      *)

\* The turns that are shown or remembered are the right ones, and they change
\* no more: their requests have ended.
Right(c) == \A x \in memory[c] \cup report[c].turns :
    turn[x] = [sid |-> req[c].sid, user |-> req[c].user, status |-> "success"]
Whole ==
    /\ \A c \in Requests :
          /\ Right(c)
          /\ turn[c].status = "success" => req[c].pc = "end"
          /\ req[c].pc = "new" => memory[c] = {} /\ report[c].turns = {}
    /\ \A c \in Requests :
          /\ req[c].pc = "mark" => report[c].file
          /\ report[c].status = "done" => report[c].file
          /\ report[c].status = "pending" => req[c].pc \in {"export", "mark"} \/ report[c].lost

\* A step works on the turn, the memory and the report of its own request.
LEMMA OthersKeep ==
  ASSUME TypeOK, NEW c \in Requests, StepOf(c), NEW x \in Requests \ {c}
  PROVE  turn'[x] = turn[x] /\ memory'[x] = memory[x] /\ report'[x] = report[x]
<1>t. turn'[x] = turn[x]
  <2>1. ASSUME NEW u \in Users, NEW s \in Sids, WithSession(c, u, s) PROVE turn' = turn
    BY <2>1, Creation DEF WithSession, CreateSession, DeleteSession, AskInNewSession,
       AskInSession, LoadTurns, turnVars
  <2>2. SessionCreated(c) \/ LoadMemory(c) \/ StartReport(c) \/ ExportPdf(c) \/ MarkDone(c)
          \/ ReportFails(c) \/ ReportIsLost(c) => turn' = turn
    BY DEF SessionCreated, LoadMemory, StartReport, ExportPdf, MarkDone, ReportFails,
       ReportIsLost, turnVars
  <2>3. AskBegins(c) \/ AskSucceeds(c) \/ AskFails(c) => turn'[x] = turn[x]
    BY DEF AskBegins, AskSucceeds, AskFails, TypeOK
  <2>4. QED  BY <2>1, <2>2, <2>3 DEF StepOf
<1>m. memory'[x] = memory[x]
  <2>1. ASSUME NEW u \in Users, NEW s \in Sids, WithSession(c, u, s) PROVE memory' = memory
    BY <2>1, Creation DEF WithSession, CreateSession, DeleteSession, AskInNewSession,
       AskInSession, LoadTurns
  <2>2. LoadMemory(c) => memory'[x] = memory[x]
    <3>1. ASSUME NEW set, memory' = [memory EXCEPT ![c] = set] PROVE memory'[x] = memory[x]
      BY <3>1 DEF TypeOK
    <3>2. QED  BY <3>1, Zenon DEF LoadMemory
  <2>3. QED  BY <2>1, <2>2 DEF StepOf, SessionCreated, AskBegins, AskSucceeds, AskFails,
             StartReport, ExportPdf, MarkDone, ReportFails, ReportIsLost
<1>p. report'[x] = report[x]
  <2>1. ASSUME NEW u \in Users, NEW s \in Sids, WithSession(c, u, s)
        PROVE  report'[x] = report[x]
    BY <2>1, Creation DEF WithSession, CreateSession, DeleteSession, AskInNewSession,
       AskInSession, LoadTurns, TypeOK
  <2>2. StartReport(c) \/ ExportPdf(c) \/ MarkDone(c) \/ ReportFails(c) \/ ReportIsLost(c)
          => report'[x] = report[x]
    BY DEF StartReport, ExportPdf, MarkDone, ReportFails, ReportIsLost, TypeOK
  <2>3. SessionCreated(c) \/ AskBegins(c) \/ LoadMemory(c) \/ AskSucceeds(c) \/ AskFails(c)
          => report' = report
    BY DEF SessionCreated, AskBegins, LoadMemory, AskSucceeds, AskFails
  <2>4. QED  BY <2>1, <2>2, <2>3 DEF StepOf
<1>1. QED  BY <1>t, <1>m, <1>p

\* A request that has ended does nothing.
LEMMA Ended ==
  ASSUME TypeOK, NEW c \in Requests, StepOf(c)
  PROVE  req[c].pc # "end"
<1>1. \A u \in Users, s \in Sids : WithSession(c, u, s) => req[c].pc = "new"
  BY Creation, Loading, Asking DEF WithSession, CreateSession, DeleteSession,
     AskInNewSession, At
<1>2. QED  BY <1>1 DEF StepOf, SessionCreated, AskBegins, LoadMemory, AskSucceeds, AskFails,
           StartReport, ExportPdf, MarkDone, ReportFails, ReportIsLost, At

\* What is remembered or shown has succeeded.
LEMMA RightSucceeded ==
  ASSUME NEW c, Right(c), NEW x \in memory[c] \cup report[c].turns
  PROVE  turn[x].status = "success"
<1>1. turn[x] = [sid |-> req[c].sid, user |-> req[c].user, status |-> "success"]
  BY Zenon DEF Right
<1>2. QED  BY <1>1

\* A turn succeeds with the end of its question.
LEMMA OwnTurn ==
  ASSUME TypeOK, Whole, NEW c \in Requests, StepOf(c), turn'[c].status = "success"
  PROVE  req'[c].pc = "end"
<1>1. turn[c].status # "success"
  BY Ended DEF Whole
<1>2. turn \in [Requests -> TurnRecord]
  BY DEF TypeOK
<1>3. ASSUME NEW u \in Users, NEW s \in Sids PROVE ~WithSession(c, u, s)
  BY <1>1, Creation DEF WithSession, CreateSession, DeleteSession, AskInNewSession,
     AskInSession, LoadTurns, turnVars
<1>4. ~(SessionCreated(c) \/ LoadMemory(c) \/ StartReport(c) \/ ExportPdf(c) \/ MarkDone(c)
          \/ ReportFails(c) \/ ReportIsLost(c))
  BY <1>1 DEF SessionCreated, LoadMemory, StartReport, ExportPdf, MarkDone, ReportFails,
     ReportIsLost, turnVars
<1>5. ~AskBegins(c)
  <2>1. ASSUME AskBegins(c) PROVE turn'[c].status = "running"
    <3>1. turn' = [turn EXCEPT ![c] = [sid |-> req[c].sid, user |-> req[c].user,
                                       status |-> "running"]]
      BY <2>1 DEF AskBegins
    <3>2. turn'[c] = [sid |-> req[c].sid, user |-> req[c].user, status |-> "running"]
      BY <1>2, <3>1
    <3>3. QED  BY <3>2
  <2>2. QED  BY <2>1
<1>6. ~AskFails(c)
  <2>1. ASSUME AskFails(c) PROVE turn'[c].status = "fail"
    <3>1. turn' = [turn EXCEPT ![c].status = "fail"]
      BY <2>1 DEF AskFails
    <3>2. QED  BY <1>2, <3>1 DEF TurnRecord
  <2>2. QED  BY <2>1
<1>7. AskSucceeds(c)
  BY <1>3, <1>4, <1>5, <1>6 DEF StepOf
<1>8. QED  BY <1>7, Moved DEF AskSucceeds, Goto, TypeOK, Pcs

\* What a request remembers and shows is right after its own steps.
LEMMA OwnRight ==
  ASSUME TypeOK, Whole, NEW c \in Requests, StepOf(c)
  PROVE  Right(c)'
<1>turn. turn \in [Requests -> TurnRecord]
  BY DEF TypeOK
<1>1. Leads(c) /\ \A x \in Requests \ {c} : turn'[x] = turn[x]
  BY OthersStay, OthersKeep
<1>2. turn[c].status # "success"
  BY Ended DEF Whole
<1>3. \A x \in memory[c] \cup report[c].turns : x # c /\ x \in Requests
  <2>1. \A x \in memory[c] \cup report[c].turns : turn[x].status = "success"
    BY RightSucceeded DEF Whole
  <2>2. memory[c] \subseteq Requests /\ report[c].turns \subseteq Requests
    BY DEF TypeOK, ReportRecord
  <2>3. QED  BY <1>2, <2>1, <2>2
<1>4. CASE memory'[c] = memory[c] /\ report'[c].turns = report[c].turns
  <2>1. CASE req[c].pc = "new"
    BY <1>4, <2>1 DEF Whole, Right
  <2>2. CASE req[c].pc # "new"
    <3>1. req'[c].sid = req[c].sid /\ req'[c].user = req[c].user
      BY <1>1, <2>2 DEF Leads
    <3>2. QED  BY <1>1, <1>3, <1>4, <3>1 DEF Whole, Right
  <2>3. QED  BY <2>1, <2>2
<1>5. CASE LoadMemory(c)
  <2>1. req'[c].sid = req[c].sid /\ req'[c].user = req[c].user /\ turn' = turn /\ report' = report
    <3>1. req' = [req EXCEPT ![c].pc = "run"] /\ turn' = turn /\ report' = report
      BY <1>5 DEF LoadMemory, Goto, turnVars
    <3>2. QED  BY <3>1, Moved DEF TypeOK, Pcs
  <2>2. \A x \in memory'[c] :
          turn[x] = [sid |-> req[c].sid, user |-> req[c].user, status |-> "success"]
    <3> DEFINE good == {i \in DOMAIN finished : turn[finished[i]] =
                          [sid |-> req[c].sid, user |-> req[c].user, status |-> "success"]}
    <3>1. PICK I \in SUBSET good : memory' = [memory EXCEPT ![c] =
              IF Owns(req[c].user, req[c].sid) THEN {finished[i] : i \in I} ELSE {}]
      BY <1>5, Zenon DEF LoadMemory
    <3>2. memory'[c] \subseteq {finished[i] : i \in I}
      BY <3>1 DEF TypeOK
    <3>3. QED  BY <3>1, <3>2
  <2>3. \A x \in report[c].turns :
          turn[x] = [sid |-> req[c].sid, user |-> req[c].user, status |-> "success"]
    BY DEF Whole, Right
  <2>4. QED  BY <2>1, <2>2, <2>3, Zenon DEF Right
<1>6. ASSUME NEW u \in Users, NEW s \in Sids, LoadTurns(c, u, s)
      PROVE  Right(c)'
  <2>1. /\ req'[c].sid = s /\ req'[c].user = u /\ req[c].pc = "new"
        /\ turn' = turn /\ memory' = memory
    BY <1>6, Loading DEF turnVars
  <2>2. PICK turns \in SUBSET Reportable(u, s) : report' = [report EXCEPT ![c].turns = turns]
    BY <1>6, Loading
  <2>3. report'[c].turns \subseteq Reportable(u, s)
    <3>1. report \in [Requests -> ReportRecord]
      BY DEF TypeOK
    <3>2. QED  BY <2>2, <3>1 DEF ReportRecord
  <2>4. memory[c] = {}
    BY <2>1 DEF Whole
  <2>5. \A x \in Reportable(u, s) : turn[x] = [sid |-> s, user |-> u, status |-> "success"]
    BY <1>turn DEF Reportable, TurnRecord
  <2>6. QED  BY <2>1, <2>3, <2>4, <2>5 DEF Right
<1>7. ASSUME NEW u \in Users, NEW s \in Sids, WithSession(c, u, s), ~LoadTurns(c, u, s)
      PROVE  memory'[c] = memory[c] /\ report'[c].turns = report[c].turns
  BY <1>7, Creation DEF WithSession, CreateSession, DeleteSession, AskInNewSession,
     AskInSession
<1>8. SessionCreated(c) \/ AskBegins(c) \/ AskSucceeds(c) \/ AskFails(c)
        => memory' = memory /\ report' = report
  BY DEF SessionCreated, AskBegins, AskSucceeds, AskFails
<1>9. StartReport(c) \/ ExportPdf(c) \/ MarkDone(c) \/ ReportFails(c) \/ ReportIsLost(c)
        => memory' = memory /\ report'[c].turns = report[c].turns
  <2> report \in [Requests -> ReportRecord]
    BY DEF TypeOK
  <2>1. StartReport(c) \/ MarkDone(c) \/ ReportFails(c) => report'[c].turns = report[c].turns
    BY DEF StartReport, MarkDone, ReportFails, ReportRecord
  <2>2. ExportPdf(c) \/ ReportIsLost(c) => report'[c].turns = report[c].turns
    BY DEF ExportPdf, ReportIsLost, ReportRecord
  <2>3. QED  BY <2>1, <2>2 DEF StartReport, MarkDone, ReportFails, ExportPdf, ReportIsLost
<1>10. QED  BY <1>4, <1>5, <1>6, <1>7, <1>8, <1>9 DEF StepOf

\* A report is whole after the steps of its own request.
Kept(c) ==
    /\ req[c].pc = "mark" => report[c].file
    /\ report[c].status = "done" => report[c].file
    /\ report[c].status = "pending" => req[c].pc \in {"export", "mark"} \/ report[c].lost

LEMMA OwnReport ==
  ASSUME TypeOK, Whole, NEW c \in Requests, StepOf(c)
  PROVE  Kept(c)'
<1>req. req \in [Requests -> RequestRecord]
  BY DEF TypeOK
<1>rep. report \in [Requests -> ReportRecord]
  BY DEF TypeOK
<1>0. Kept(c) /\ Leads(c)
  BY OthersStay, Zenon DEF Whole, Kept
<1>1. ASSUME req'[c].pc # "mark", req[c].pc \notin {"export", "mark"},
             report'[c].status = report[c].status, report'[c].file = report[c].file,
             report'[c].lost = report[c].lost
      PROVE  Kept(c)'
  BY <1>0, <1>1, Zenon DEF Kept
<1>2. ASSUME NEW u \in Users, NEW s \in Sids, WithSession(c, u, s)
      PROVE  Kept(c)'
  <2>1. req[c].pc = "new"
    BY <1>2, Creation, Loading, Asking DEF WithSession, CreateSession, DeleteSession,
       AskInNewSession, At
  <2>2. req'[c].pc # "mark"
    <3>1. req'[c].pc \in {"end", "write", "plan"}
      <4>1. CASE DeleteSession(c, u, s)
        BY <4>1, Advance DEF DeleteSession, Pcs
      <4>2. ASSUME NEW do \in {"create", "ask_new"}, ReadToCreate(c, do, u, s)
            PROVE  req'[c].pc \in {"end", "write"}
        <5>1. CASE req' = [req EXCEPT ![c].pc = "end"]
          BY <1>req, <5>1, Moved DEF Pcs
        <5>2. CASE req' # [req EXCEPT ![c].pc = "end"]
          <6>1. PICK v : Writes(c, do, u, s, v)
            BY <4>2, <5>2, Creation
          <6>2. QED  BY <6>1, Zenon DEF Writes
        <5>3. QED  BY <5>1, <5>2
      <4>3. QED  BY <1>2, <4>1, <4>2, Loading, Asking
                 DEF WithSession, CreateSession, AskInNewSession
    <3>2. QED  BY <3>1
  <2>3. report' = report \/ LoadTurns(c, u, s)
    BY <1>2, Creation DEF WithSession, CreateSession, DeleteSession, AskInNewSession,
       AskInSession
  <2>4. LoadTurns(c, u, s) => \E turns : report' = [report EXCEPT ![c].turns = turns]
    BY Loading
  <2>5. ASSUME NEW turns, report' = [report EXCEPT ![c].turns = turns]
        PROVE  /\ report'[c].status = report[c].status
               /\ report'[c].file = report[c].file /\ report'[c].lost = report[c].lost
    <3>1. report'[c].status = report[c].status
      BY <1>rep, <2>5 DEF ReportRecord
    <3>2. report'[c].file = report[c].file
      BY <1>rep, <2>5 DEF ReportRecord
    <3>3. report'[c].lost = report[c].lost
      BY <1>rep, <2>5 DEF ReportRecord
    <3>4. QED  BY <3>1, <3>2, <3>3
  <2>6. QED  BY <1>1, <2>1, <2>2, <2>3, <2>4, <2>5
<1>3. CASE SessionCreated(c) \/ AskBegins(c) \/ LoadMemory(c) \/ AskSucceeds(c) \/ AskFails(c)
  <2>1. report' = report /\ req[c].pc \in {"write", "load", "run"}
    BY <1>3 DEF SessionCreated, AskBegins, LoadMemory, AskSucceeds, AskFails, At
  <2>2. req'[c].pc \in {"end", "load", "run"}
    BY <1>3, Advance DEF SessionCreated, AskBegins, LoadMemory, AskSucceeds, AskFails, Goto, Pcs
  <2>3. QED  BY <1>1, <2>1, <2>2
<1>4. CASE StartReport(c)
  <2>1. req'[c].pc = "export"
    BY <1>4, Advance DEF StartReport, Goto, Pcs
  <2>2. report'[c].status = "pending"
    BY <1>rep, <1>4 DEF StartReport, ReportRecord
  <2>3. QED  BY <2>1, <2>2 DEF Kept
<1>5. CASE ExportPdf(c)
  <2>1. req'[c].pc = "mark"
    BY <1>5, Advance DEF ExportPdf, Goto, Pcs
  <2>2. report'[c].file
    BY <1>rep, <1>5 DEF ExportPdf, ReportRecord
  <2>3. QED  BY <2>1, <2>2 DEF Kept
<1>6. CASE MarkDone(c)
  <2>1. req'[c].pc = "end"
    BY <1>6, Advance DEF MarkDone, Goto, Pcs
  <2>2. report[c].file
    BY <1>0, <1>6 DEF MarkDone, At, Kept
  <2>3. report'[c].status = "done"
    BY <1>rep, <1>6 DEF MarkDone, ReportRecord
  <2>4. report'[c].file = report[c].file
    BY <1>rep, <1>6 DEF MarkDone, ReportRecord
  <2>5. QED  BY <2>1, <2>2, <2>3, <2>4, Zenon DEF Kept
<1>7. CASE ReportFails(c)
  <2>1. req'[c].pc = "end"
    BY <1>7, Advance DEF ReportFails, Goto, Pcs
  <2>2. report'[c].status = "fail"
    BY <1>rep, <1>7 DEF ReportFails, ReportRecord
  <2>3. QED  BY <2>1, <2>2 DEF Kept
<1>8. CASE ReportIsLost(c)
  <2>1. req'[c].pc = "end"
    BY <1>8, Advance DEF ReportIsLost, Goto, Pcs
  <2>2. report'[c].lost
    BY <1>rep, <1>8 DEF ReportIsLost, ReportRecord
  <2>3. report'[c].status = report[c].status
    BY <1>rep, <1>8 DEF ReportIsLost, ReportRecord
  <2>4. report'[c].file = report[c].file
    BY <1>rep, <1>8 DEF ReportIsLost, ReportRecord
  <2>5. req'[c].pc # "mark"
    BY <2>1
  <2>6. QED  BY <1>0, <2>2, <2>3, <2>4, <2>5, Zenon DEF Kept
<1>9. QED  BY <1>2, <1>3, <1>4, <1>5, <1>6, <1>7, <1>8 DEF StepOf

LEMMA WholeStep == Sound /\ Whole /\ [Next]_vars => Whole'
<1> SUFFICES ASSUME Sound, Whole, [Next]_vars PROVE Whole'
  OBVIOUS
<1>1. ASSUME NEW c \in Requests, StepOf(c)
      PROVE  Whole'
  <2>0. TypeOK /\ Leads(c) /\ Kept(c)' /\ Right(c)'
    BY <1>1, OthersStay, OwnReport, OwnRight DEF Sound
  <2>1. ASSUME NEW x \in Requests \ {c}
        PROVE  Right(x)' /\ Kept(x)' /\ (turn'[x].status = "success" => req'[x].pc = "end")
               /\ (req'[x].pc = "new" => memory'[x] = {} /\ report'[x].turns = {})
    <3>1. turn'[x] = turn[x] /\ memory'[x] = memory[x] /\ report'[x] = report[x] /\ Stays(x)
      BY <1>1, <2>0, OthersKeep, OthersStay
    <3>2. \A y \in memory[x] \cup report[x].turns : y \in Requests \ {c}
      <4>1. \A y \in memory[x] \cup report[x].turns : turn[y].status = "success"
        BY RightSucceeded DEF Whole
      <4>2. turn[c].status # "success"
        BY <1>1, <2>0, Ended DEF Whole
      <4>3. memory[x] \subseteq Requests /\ report[x].turns \subseteq Requests
        BY <2>0 DEF TypeOK, ReportRecord
      <4>4. QED  BY <4>1, <4>2, <4>3
    <3>3. \A y \in Requests \ {c} : turn'[y] = turn[y]
      BY <1>1, <2>0, OthersKeep
    <3>4. Right(x)'
      BY <3>1, <3>2, <3>3 DEF Whole, Right, Stays
    <3>5. Kept(x)
      BY Zenon DEF Whole, Kept
    <3>6. Kept(x)'
      BY <3>1, <3>5, Zenon DEF Kept, Stays
    <3>7. QED  BY <3>1, <3>4, <3>6 DEF Whole, Stays
  <2>2. turn'[c].status = "success" => req'[c].pc = "end"
    BY <1>1, <2>0, OwnTurn
  <2>3. req'[c].pc # "new"
    BY <2>0 DEF Leads
  <2>4. \A x \in Requests : Right(x)' /\ (turn'[x].status = "success" => req'[x].pc = "end")
          /\ (req'[x].pc = "new" => memory'[x] = {} /\ report'[x].turns = {})
    BY <2>0, <2>1, <2>2, <2>3
  <2>5. \A x \in Requests : Kept(x)'
    BY <2>0, <2>1
  <2>6. QED  BY <2>4, <2>5, Zenon DEF Whole, Kept
<1>2. CASE UNCHANGED vars
  BY <1>2, Zenon DEF vars, turnVars, Whole, Right
<1>3. QED  BY <1>1, <1>2, NextIsAStep

LEMMA InitWhole == Init => Whole
<1> SUFFICES ASSUME Init, NEW c \in Requests
             PROVE  /\ Right(c) /\ Kept(c) /\ turn[c].status # "success"
                    /\ memory[c] = {} /\ report[c].turns = {}
  BY Zenon DEF Whole, Kept
<1>1. memory[c] = {} /\ report[c] = NoReport /\ turn[c] = NoTurn /\ req[c] = NewRequest
  BY DEF Init
<1>2. NoReport.status = "none" /\ NoReport.turns = {} /\ NoTurn.status = "none"
  BY Zenon DEF NoReport, NoTurn
<1>3. NewRequest.pc = "new"
  BY Zenon DEF NewRequest
<1>4. QED  BY <1>1, <1>2, <1>3 DEF Right, Kept

\* A question remembers, and a report shows, only successful turns of its own
\* user and conversation, and a report that is done has its file.
THEOREM ReportsHold == Spec => []ReportsAreWhole
<1>1. Whole => ReportsAreWhole
  <2> SUFFICES ASSUME Whole PROVE ReportsAreWhole
    OBVIOUS
  <2>1. \A c \in Requests : Right(c)
    BY DEF Whole
  <2>2. \A c \in Requests : Kept(c)
    BY Zenon DEF Whole, Kept
  <2>3. QED  BY <2>1, <2>2, Zenon DEF ReportsAreWhole, Right, Kept
<1>2. QED  BY <1>1, InitWhole, WholeStep, AlwaysSound, PTL DEF Spec

----------------------------------------------------------------------------
(* The limit                                                               *)

\* A creation that nothing disturbed still has the room it found, or a victim and
\* no room.
HasRoom(c) ==
    IF req[c].victim = "" THEN Cardinality(Mine(req[c].user)) < MaxActive
    ELSE req[c].victim \in Mine(req[c].user) /\ Full(req[c].user)
Roomy ==
    /\ ActiveIsBounded
    /\ \A c \in Requests : Creating(c) /\ req[c].alone => HasRoom(c)

LEMMA Below == \A a, b \in Nat : ~(a >= b) => a < b
OBVIOUS

LEMMA MineIsFinite == \A u : IsFiniteSet(Mine(u)) /\ Cardinality(Mine(u)) \in Nat
<1> TAKE u
<1>1. IsFiniteSet(Mine(u))
  BY FS_Subset, SessionsAssumption DEF Mine, SessionsAssumption
<1>2. QED  BY <1>1, FS_CardinalityType

\* One conversation comes and at most one goes.
LEMMA Replaced ==
  ASSUME NEW M, IsFiniteSet(M), NEW s, s \notin M, NEW v
  PROVE  /\ Cardinality((M \ {v}) \cup {s}) \in Nat
         /\ v \in M => Cardinality((M \ {v}) \cup {s}) = Cardinality(M)
         /\ v \notin M => Cardinality((M \ {v}) \cup {s}) = Cardinality(M) + 1
<1>1. IsFiniteSet(M \ {v}) /\ s \notin M \ {v}
  BY FS_RemoveElement
<1>2. Cardinality((M \ {v}) \cup {s}) = Cardinality(M \ {v}) + 1
  BY <1>1, FS_AddElement
<1>3. Cardinality(M \ {v}) = IF v \in M THEN Cardinality(M) - 1 ELSE Cardinality(M)
  BY FS_RemoveElement
<1>4. Cardinality(M) \in Nat /\ Cardinality(M \ {v}) \in Nat
  BY <1>1, FS_CardinalityType
<1>5. QED  BY <1>2, <1>3, <1>4

\* A step changes the conversations of one user, within the limit, and no other
\* creation of this user may rely on what it has read; or it changes none.
Within(c, u) ==
    /\ \A w \in Users \ {u} : Mine(w)' = Mine(w) /\ extra'[w] = extra[w]
    /\ Cardinality(Mine(u)') <= MaxActive + extra'[u]
    /\ Disturbed(u, c)
    /\ sess' # sess

LEMMA CommitsWithin ==
  ASSUME Sound, Roomy, NEW c \in Requests, Commits(c), NEW u \in Users, u = req[c].user
  PROVE  Within(c, u)
<1> DEFINE s == req[c].sid
           v == req[c].victim
<1>types. /\ extra \in [Users -> Nat] /\ MaxActive \in Nat /\ v \in Sids \cup {""}
          /\ "" \notin Sids /\ s \in Sids /\ u \in Users /\ sess \in [Sids -> SessionRecord]
  BY SessionsAssumption DEF Sound, TypeOK, RequestRecord, Commits, SessionsAssumption
<1>1. Unused(s) /\ (v # "" => ~Unused(v) /\ sess[v].owner = u)
  BY DEF Sound, Fresh, Commits
<1>2. /\ sess'[s].is = "live" /\ sess'[s].owner = u
      /\ \A t \in Sids \ {s} : /\ sess'[t].owner = sess[t].owner
                               /\ sess'[t].is = IF t = v THEN "gone" ELSE sess[t].is
      /\ extra' = [extra EXCEPT ![u] = IF req[c].alone THEN @ ELSE @ + 1]
      /\ Disturbed(u, c)
  BY DEF Commits
<1>3. s \notin Mine(u) /\ s # v
  BY <1>1, <1>types DEF Mine, Live, Unused
<1>4. Mine(u)' = (Mine(u) \ {v}) \cup {s}
  BY <1>types, <1>1, <1>2, <1>3 DEF Mine, Live
<1>5. ASSUME NEW w \in Users \ {u} PROVE Mine(w)' = Mine(w)
  BY <1>types, <1>1, <1>2 DEF Mine, Live, Unused
<1>6. sess' # sess
  BY <1>1, <1>2 DEF Unused
<1>7. \A w \in Users \ {u} : extra'[w] = extra[w]
  BY <1>types, <1>2
<1>8. Cardinality(Mine(u)') <= MaxActive + extra'[u]
  <2>1. Cardinality(Mine(u)) \in Nat /\ IsFiniteSet(Mine(u))
    BY MineIsFinite
  <2>2. Cardinality(Mine(u)) <= MaxActive + extra[u]
    BY <1>types DEF Roomy, ActiveIsBounded
  <2>3. /\ Cardinality(Mine(u)') \in Nat
        /\ v \in Mine(u) => Cardinality(Mine(u)') = Cardinality(Mine(u))
        /\ v \notin Mine(u) => Cardinality(Mine(u)') = Cardinality(Mine(u)) + 1
    BY <1>3, <1>4, <2>1, Replaced
  <2>4. extra[u] \in Nat /\ MaxActive \in Nat
    BY <1>types
  <2>5. CASE req[c].alone
    <3>1. extra'[u] = extra[u]
      BY <1>types, <1>2, <2>5
    <3>2. HasRoom(c)
      BY <2>5 DEF Roomy, Commits
    <3>3. CASE v = ""
      <4>1. Cardinality(Mine(u)) < MaxActive
        BY <3>2, <3>3 DEF HasRoom
      <4>2. v \notin Mine(u)
        BY <1>types, <3>3 DEF Mine
      <4>3. Cardinality(Mine(u)') = Cardinality(Mine(u)) + 1
        BY <2>3, <4>2
      <4>4. QED  BY <2>1, <2>4, <3>1, <4>1, <4>3
    <3>4. CASE v # ""
      <4>1. v \in Mine(u)
        BY <3>2, <3>4 DEF HasRoom
      <4>2. Cardinality(Mine(u)') = Cardinality(Mine(u))
        BY <2>3, <4>1
      <4>3. QED  BY <2>2, <3>1, <4>2
    <3>5. QED  BY <3>3, <3>4
  <2>6. CASE ~req[c].alone
    <3>1. extra'[u] = extra[u] + 1
      BY <1>types, <1>2, <2>6
    <3>2. Cardinality(Mine(u)') <= Cardinality(Mine(u)) + 1
      BY <2>1, <2>3
    <3>3. Cardinality(Mine(u)') \in Nat
      BY <2>3
    <3>4. QED  BY <2>1, <2>2, <2>4, <3>1, <3>2, <3>3
  <2>7. QED  BY <2>5, <2>6
<1>9. QED  BY <1>2, <1>5, <1>6, <1>7, <1>8 DEF Within

LEMMA NamesWithin ==
  ASSUME Sound, Roomy, NEW c \in Requests, Names(c), NEW u \in Users, u = req[c].user
  PROVE  Within(c, u)
<1> DEFINE s == req[c].sid
<1>types. extra \in [Users -> Nat] /\ MaxActive \in Nat /\ s \in Sids /\ u \in Users
  BY SessionsAssumption DEF Sound, TypeOK, Names, SessionsAssumption
<1>1. /\ Unused(s) /\ sess'[s].is = "live" /\ sess'[s].owner = u
      /\ \A t \in Sids \ {s} : sess'[t] = sess[t]
      /\ extra' = [extra EXCEPT ![u] = @ + 1] /\ Disturbed(u, c)
  BY DEF Names
<1>2. s \notin Mine(u) /\ Mine(u)' = Mine(u) \cup {s}
  BY <1>types, <1>1 DEF Mine, Live, Unused
<1>3. ASSUME NEW w \in Users \ {u} PROVE Mine(w)' = Mine(w)
  BY <1>types, <1>1 DEF Mine, Live, Unused
<1>4. sess' # sess
  BY <1>1 DEF Unused
<1>5. \A w \in Users \ {u} : extra'[w] = extra[w]
  BY <1>types, <1>1
<1>6. Cardinality(Mine(u)') <= MaxActive + extra'[u]
  <2>1. Cardinality(Mine(u)) \in Nat /\ IsFiniteSet(Mine(u))
    BY MineIsFinite
  <2>2. Cardinality(Mine(u)) <= MaxActive + extra[u]
    BY <1>types DEF Roomy, ActiveIsBounded
  <2>3. Cardinality(Mine(u)') = Cardinality(Mine(u)) + 1
    BY <1>2, <2>1, FS_AddElement
  <2>4. extra[u] \in Nat /\ extra'[u] = extra[u] + 1
    BY <1>types, <1>1
  <2>5. QED  BY <1>types, <2>1, <2>2, <2>3, <2>4
<1>7. QED  BY <1>1, <1>3, <1>4, <1>5, <1>6 DEF Within

LEMMA RemovesWithin ==
  ASSUME Sound, Roomy, NEW c \in Requests, NEW u \in Users, NEW s \in Sids, Removes(c, u, s)
  PROVE  Within(c, u)
<1>types. extra \in [Users -> Nat] /\ MaxActive \in Nat
  BY SessionsAssumption DEF Sound, TypeOK, SessionsAssumption
<1>1. /\ s \in Mine(u) /\ sess'[s].is = "gone" /\ sess'[s].owner = sess[s].owner
      /\ \A t \in Sids \ {s} : sess'[t] = sess[t]
      /\ extra' = extra /\ Disturbed(u, c)
  BY DEF Removes, Owns
<1>2. Mine(u)' = Mine(u) \ {s}
  BY <1>1 DEF Mine, Live
<1>3. ASSUME NEW w \in Users \ {u} PROVE Mine(w)' = Mine(w)
  BY <1>1 DEF Mine, Live
<1>4. sess' # sess
  BY <1>1 DEF Mine, Live
<1>5. Cardinality(Mine(u)') <= MaxActive + extra'[u]
  <2>1. Cardinality(Mine(u)) \in Nat /\ IsFiniteSet(Mine(u))
    BY MineIsFinite
  <2>2. Cardinality(Mine(u)) <= MaxActive + extra[u]
    BY DEF Roomy, ActiveIsBounded
  <2>3. Cardinality(Mine(u)') = Cardinality(Mine(u)) - 1
    BY <1>1, <1>2, <2>1, FS_RemoveElement
  <2>4. extra[u] \in Nat /\ extra'[u] = extra[u]
    BY <1>types, <1>1
  <2>5. QED  BY <1>types, <2>1, <2>2, <2>3, <2>4
<1>6. QED  BY <1>1, <1>3, <1>4, <1>5 DEF Within

\* A request that reads to create finds room or a victim.
LEMMA FindsRoom ==
  ASSUME NEW c \in Requests, NEW do, NEW u \in Users, NEW s, NEW v, Writes(c, do, u, s, v)
  PROVE  IF v = "" THEN Cardinality(Mine(u)) < MaxActive ELSE v \in Mine(u) /\ Full(u)
<1>1. v \in IF Full(u) THEN LeastRecent(u) ELSE {""}
  BY DEF Writes
<1>2. MaxActive \in Nat /\ "" \notin Sids
  BY SessionsAssumption DEF SessionsAssumption
<1>3. CASE Full(u)
  <2>1. v \in Mine(u)
    BY <1>1, <1>3 DEF LeastRecent
  <2>2. v # ""
    BY <1>2, <2>1 DEF Mine
  <2>3. QED  BY <1>3, <2>1, <2>2
<1>4. CASE ~Full(u)
  <2>1. Cardinality(Mine(u)) < MaxActive
    BY <1>2, <1>4, MineIsFinite, Below DEF Full
  <2>2. v = ""
    BY <1>1, <1>4
  <2>3. QED  BY <2>1, <2>2
<1>5. QED  BY <1>3, <1>4

LEMMA RoomyStep == Sound /\ Roomy /\ [Next]_vars => Roomy'
<1> SUFFICES ASSUME Sound, Roomy, [Next]_vars PROVE Roomy'
  OBVIOUS
<1>1. ASSUME NEW c \in Requests, StepOf(c)
      PROVE  Roomy'
  <2>0. /\ TypeOK /\ Placed /\ Present /\ Leads(c)
        /\ \A x \in Requests \ {c} : Stays(x)
    BY <1>1, OthersStay DEF Sound
  <2>users. \A x \in Requests : Creating(x) => req[x].user \in Users
    BY <2>0 DEF Placed, Creating
  <2>1. CASE KeepsAll
    <3>1. \A u : Mine(u)' = Mine(u)
      BY <2>1 DEF KeepsAll, Mine, Live
    <3>2. ActiveIsBounded'
      BY <2>1, <3>1 DEF Roomy, ActiveIsBounded, KeepsAll
    <3>3. ASSUME NEW x \in Requests \ {c}, Creating(x)', req'[x].alone
          PROVE  HasRoom(x)'
      <4>1. Creating(x) /\ req[x].alone /\ req'[x].user = req[x].user
              /\ req'[x].victim = req[x].victim
        BY <2>0, <3>3 DEF Stays, Creating
      <4>2. HasRoom(x)
        BY <4>1 DEF Roomy
      <4>3. PICK w : w = req[x].user
        OBVIOUS
      <4>4. Mine(w)' = Mine(w)
        BY <3>1
      <4>5. QED  BY <4>1, <4>2, <4>3, <4>4 DEF HasRoom, Full
    <3>4. ASSUME Creating(c)', req'[c].alone
          PROVE  HasRoom(c)'
      <4>1. PICK do : /\ Writes(c, do, req'[c].user, req'[c].sid, req'[c].victim)
                      /\ req'[c].user \in Users
        BY <2>0, <3>4 DEF Leads, Creating
      <4>2. PICK w \in Users : w = req'[c].user
        BY <4>1
      <4>3. IF req'[c].victim = "" THEN Cardinality(Mine(w)) < MaxActive
            ELSE req'[c].victim \in Mine(w) /\ Full(w)
        BY <4>1, <4>2, FindsRoom
      <4>4. Mine(w)' = Mine(w)
        BY <3>1
      <4>5. QED  BY <4>2, <4>3, <4>4 DEF HasRoom, Full
    <3>5. QED  BY <3>2, <3>3, <3>4 DEF Roomy
  <2>2. ASSUME NEW u \in Users, Within(c, u)
        PROVE  Roomy'
    <3>1. ActiveIsBounded'
      <4> SUFFICES ASSUME NEW w \in Users
                   PROVE  Cardinality(Mine(w)') <= MaxActive + extra'[w]
        BY DEF ActiveIsBounded
      <4>1. CASE w = u
        BY <2>2, <4>1 DEF Within
      <4>2. CASE w # u
        <5>1. Mine(w)' = Mine(w) /\ extra'[w] = extra[w]
          BY <2>2, <4>2 DEF Within
        <5>2. Cardinality(Mine(w)) <= MaxActive + extra[w]
          BY DEF Roomy, ActiveIsBounded
        <5>3. QED  BY <5>1, <5>2
      <4>3. QED  BY <4>1, <4>2
    <3>2. ASSUME NEW x \in Requests \ {c}, Creating(x)', req'[x].alone
          PROVE  HasRoom(x)'
      <4>1. Creating(x) /\ req[x].alone /\ req'[x].user = req[x].user
              /\ req'[x].victim = req[x].victim
        BY <2>0, <3>2 DEF Stays, Creating
      <4>2. HasRoom(x)
        BY <4>1 DEF Roomy
      <4>3. PICK w \in Users : w = req[x].user
        BY <2>users, <4>1
      <4>4. w # u
        BY <2>2, <3>2, <4>1, <4>3 DEF Within, Disturbed, Creating
      <4>5. Mine(w)' = Mine(w)
        BY <2>2, <4>4 DEF Within
      <4>6. QED  BY <4>1, <4>2, <4>3, <4>5 DEF HasRoom, Full
    <3>3. ~Creating(c)'
      BY <2>0, <2>2 DEF Leads, Creating, Within, sessionVars
    <3>4. QED  BY <3>1, <3>2, <3>3 DEF Roomy
  <2>3. ASSUME Commits(c) PROVE Roomy'
    <3>1. PICK u \in Users : u = req[c].user
      BY <2>3 DEF Commits
    <3>2. QED  BY <2>2, <2>3, <3>1, CommitsWithin
  <2>4. ASSUME Names(c) PROVE Roomy'
    <3>1. PICK u \in Users : u = req[c].user
      BY <2>4 DEF Names
    <3>2. QED  BY <2>2, <2>4, <3>1, NamesWithin
  <2>5. ASSUME NEW u \in Users, NEW s \in Sids, Removes(c, u, s) PROVE Roomy'
    BY <2>2, <2>5, RemovesWithin
  <2>6. QED  BY <1>1, <2>0, <2>1, <2>3, <2>4, <2>5, Effect
<1>2. CASE UNCHANGED vars
  <2>1. sess' = sess /\ req' = req /\ extra' = extra
    BY <1>2 DEF vars, sessionVars
  <2>2. \A u : Mine(u)' = Mine(u)
    BY <2>1 DEF Mine, Live
  <2>3. ActiveIsBounded'
    BY <2>1, <2>2 DEF Roomy, ActiveIsBounded
  <2>4. \A x \in Requests : HasRoom(x)' <=> HasRoom(x)
    BY <2>1 DEF HasRoom, Full, Mine, Live
  <2>5. QED  BY <2>1, <2>3, <2>4 DEF Roomy, Creating
<1>3. QED  BY <1>1, <1>2, NextIsAStep

LEMMA InitRoomy == Init => Roomy
<1> SUFFICES ASSUME Init PROVE Roomy
  OBVIOUS
<1>1. \A u : Mine(u) = {}
  <2>1. NoSession.is = "none"
    BY Zenon DEF NoSession
  <2>2. QED  BY <2>1 DEF Init, Mine, Live
<1>2. \A u \in Users : Cardinality(Mine(u)) = 0 /\ extra[u] = 0
  BY <1>1, FS_EmptySet DEF Init
<1>3. \A c \in Requests : ~Creating(c)
  <2>1. NewRequest.pc = "new"
    BY Zenon DEF NewRequest
  <2>2. QED  BY <2>1 DEF Init, Creating
<1>4. MaxActive \in Nat
  BY SessionsAssumption DEF SessionsAssumption
<1>5. QED  BY <1>2, <1>3, <1>4 DEF Roomy, ActiveIsBounded

\* A user has no more conversations than the limit, but for those a client
\* named itself and those created while another request of the user created
\* or deleted one.
THEOREM LimitIsKept == Spec => []ActiveIsBounded
<1>1. Roomy => ActiveIsBounded
  BY DEF Roomy
<1>2. QED  BY <1>1, InitRoomy, RoomyStep, AlwaysSound, PTL DEF Spec

----------------------------------------------------------------------------
(* Sessions implements SessionStore                                        *)

\* A new conversation s of u, and those of "out" go.
Brings(u, s, out) ==
    /\ Unused(s) /\ sess'[s].is = "live" /\ sess'[s].owner = u
    /\ \A t \in Sids \ {s} :
          /\ sess'[t].owner = sess[t].owner
          /\ sess'[t].is = IF t \in out THEN "gone" ELSE sess[t].is

\* A conversation comes, and at most the victim goes.
LEMMA ComesToStore ==
  ASSUME NEW u \in Users, NEW s \in Sids, NEW out, Brings(u, s, out)
  PROVE  Store!Comes(u, s, out)
<1> DEFINE is == [t \in Sids |-> sess[t].is]
           owner == [t \in Sids |-> sess[t].owner]
<1>1. is[s] = "none"
  BY DEF Unused, Brings
<1>2. [t \in Sids |-> sess'[t].is]
        = [t \in Sids |-> IF t = s THEN "live" ELSE IF t \in out THEN "gone" ELSE is[t]]
  BY DEF Brings
<1>3. [t \in Sids |-> sess'[t].owner] = [owner EXCEPT ![s] = u]
  BY DEF Brings
<1>4. QED  BY <1>1, <1>2, <1>3 DEF Store!Comes

\* The conversations of a user are those the store holds for him.
LEMMA HeldInStore ==
  ASSUME NEW u
  PROVE  Store!Held(u) = Mine(u) /\ (Store!AtLimit(u) <=> Full(u))
<1>1. Store!Held(u) = Mine(u)
  BY DEF Store!Held, Mine, Live
<1>2. QED  BY <1>1, Zenon DEF Store!AtLimit, Full, Store!Cardinality, Cardinality

\* What changes the store as one of its steps is one.
LEMMA IsStoreStep ==
  ASSUME NEW u \in Users, NEW s \in Sids,
         Store!Create(u, s) \/ Store!CreateBeyond(u, s) \/ Store!Delete(u, s)
  PROVE  Store!StoreNext
BY Zenon DEF Store!StoreNext

\* A creation that commits takes the place of a conversation if there is no room,
\* or is one that was not alone.
LEMMA CommitsToStore ==
  ASSUME Sound, Roomy, NEW c \in Requests, Commits(c),
         NEW s \in Sids, NEW u \in Users, NEW v,
         s = req[c].sid, u = req[c].user, v = req[c].victim
  PROVE  Store!StoreNext
<1>types. /\ TypeOK /\ extra \in [Users -> Nat] /\ v \in Sids \cup {""} /\ "" \notin Sids
          /\ s \in Sids /\ u \in Users /\ sess \in [Sids -> SessionRecord]
  BY SessionsAssumption DEF Sound, TypeOK, RequestRecord, Commits, SessionsAssumption
<1>1. Unused(s) /\ (v # "" => ~Unused(v) /\ sess[v].owner = u)
  BY DEF Sound, Fresh, Commits
<1>2. /\ sess'[s].is = "live" /\ sess'[s].owner = u
      /\ \A t \in Sids \ {s} : /\ sess'[t].owner = sess[t].owner
                               /\ sess'[t].is = IF t = v THEN "gone" ELSE sess[t].is
      /\ extra' = [extra EXCEPT ![u] = IF req[c].alone THEN @ ELSE @ + 1]
  BY DEF Commits
<1>3. req[c].alone => HasRoom(c)
  BY DEF Roomy, Commits
<1>4. HasRoom(c) => IF v = "" THEN ~Full(u) ELSE v \in Mine(u) /\ Full(u)
  <2>1. Cardinality(Mine(u)) < MaxActive => ~Full(u)
    <3>1. Cardinality(Mine(u)) \in Nat /\ MaxActive \in Nat
      BY <1>types, MineIsFinite, SessionsAssumption DEF SessionsAssumption
    <3>2. QED  BY <3>1 DEF Full
  <2>2. QED  BY <2>1 DEF HasRoom
<1>5. v \in Mine(u) => Store!Comes(u, s, {v})
  <2> SUFFICES ASSUME v \in Mine(u) PROVE Store!Comes(u, s, {v})
    OBVIOUS
  <2>1. Brings(u, s, {v})
    BY <1>1, <1>2 DEF Brings
  <2>2. QED  BY <1>types, <2>1, ComesToStore, ZenonT(60)
<1>6. v \notin Mine(u) => Store!Comes(u, s, {})
  <2> SUFFICES ASSUME v \notin Mine(u) PROVE Store!Comes(u, s, {})
    OBVIOUS
  <2>1. ASSUME NEW t \in Sids \ {s}, t = v PROVE sess[t].is = "gone"
    <3>1. v # "" /\ v \in Sids
      BY <1>types, <2>1
    <3>2. ~Unused(v) /\ ~Live(v)
      BY <1>1, <3>1 DEF Mine
    <3>3. sess[v].is \in {"none", "live", "gone"}
      BY <1>types, <3>1 DEF SessionRecord
    <3>4. QED  BY <2>1, <3>2, <3>3 DEF Unused, Live
  <2>2. Brings(u, s, {})
    BY <1>1, <1>2, <2>1 DEF Brings
  <2>3. QED  BY <1>types, <2>2, ComesToStore, ZenonT(60)
<1>7. Store!Held(u) = Mine(u) /\ (Store!AtLimit(u) <=> Full(u))
  BY HeldInStore
<1>8. CASE req[c].alone
  <2>1. extra' = extra
    BY <1>types, <1>2, <1>8
  <2>2. CASE v = ""
    <3>1. v \notin Mine(u) /\ ~Store!AtLimit(u)
      BY <1>types, <1>3, <1>4, <1>7, <1>8, <2>2 DEF Mine
    <3>2. Store!Create(u, s)
      BY <1>6, <2>1, <3>1, Zenon DEF Store!Create
    <3>3. QED  BY <1>types, <3>2, IsStoreStep, Zenon
  <2>3. CASE v # ""
    <3>1. v \in Store!Held(u) /\ Store!AtLimit(u) /\ v \in Mine(u)
      BY <1>3, <1>4, <1>7, <1>8, <2>3
    <3>2. Store!Create(u, s)
      BY <1>5, <2>1, <3>1, Zenon DEF Store!Create
    <3>3. QED  BY <1>types, <3>2, IsStoreStep, Zenon
  <2>4. QED  BY <2>2, <2>3
<1>9. CASE ~req[c].alone
  <2>1. extra' = [extra EXCEPT ![u] = @ + 1]
    BY <1>2, <1>9
  <2>2. Store!CreateBeyond(u, s)
    BY <1>5, <1>6, <1>7, <2>1, Zenon DEF Store!CreateBeyond
  <2>3. QED  BY <1>types, <2>2, IsStoreStep, Zenon
<1>10. QED  BY <1>8, <1>9

\* A conversation that a client names comes beyond the limit.
LEMMA NamesToStore ==
  ASSUME Sound, NEW c \in Requests, Names(c),
         NEW s \in Sids, NEW u \in Users, s = req[c].sid, u = req[c].user
  PROVE  Store!StoreNext
<1>1. /\ TypeOK /\ s \in Sids /\ u \in Users /\ Unused(s)
      /\ sess'[s].is = "live" /\ sess'[s].owner = u
      /\ \A t \in Sids \ {s} : sess'[t] = sess[t]
      /\ extra' = [extra EXCEPT ![u] = @ + 1]
  BY DEF Sound, Names
<1>2. Store!Comes(u, s, {})
  <2>1. Brings(u, s, {})
    BY <1>1 DEF Brings
  <2>2. QED  BY <1>1, <2>1, ComesToStore, ZenonT(60)
<1>3. Store!CreateBeyond(u, s)
  BY <1>1, <1>2, Zenon DEF Store!CreateBeyond
<1>4. QED  BY <1>1, <1>3, IsStoreStep, Zenon

\* What is removed is deleted by its owner.
LEMMA RemovesToStore ==
  ASSUME Sound, NEW c \in Requests, NEW u \in Users, NEW s \in Sids, Removes(c, u, s)
  PROVE  Store!StoreNext
<1> DEFINE is == [t \in Sids |-> sess[t].is]
<1>1. /\ s \in Mine(u) /\ sess'[s].is = "gone" /\ sess'[s].owner = sess[s].owner
      /\ \A t \in Sids \ {s} : sess'[t] = sess[t]
      /\ extra' = extra
  BY DEF Removes, Owns
<1>2. [t \in Sids |-> sess'[t].is] = [is EXCEPT ![s] = "gone"]
  BY <1>1
<1>3. [t \in Sids |-> sess'[t].owner] = [t \in Sids |-> sess[t].owner]
  BY <1>1
<1>4. Store!Delete(u, s)
  BY <1>1, <1>2, <1>3, HeldInStore DEF Store!Delete
<1>5. QED  BY <1>4, IsStoreStep, Zenon

\* What leaves the marks and the owners leaves the store.
LEMMA KeepsStore ==
  ASSUME \A s \in Sids : sess'[s].is = sess[s].is /\ sess'[s].owner = sess[s].owner,
         extra' = extra
  PROVE  UNCHANGED Store!store
<1>1. [t \in Sids |-> sess'[t].is] = [t \in Sids |-> sess[t].is]
  OBVIOUS
<1>2. [t \in Sids |-> sess'[t].owner] = [t \in Sids |-> sess[t].owner]
  OBVIOUS
<1>3. QED  BY <1>1, <1>2 DEF Store!store

\* Every step of the requests is a step of the store, or none.
LEMMA StoreStep == Sound /\ Roomy /\ [Next]_vars => [Store!StoreNext]_(Store!store)
<1> SUFFICES ASSUME Sound, Roomy, [Next]_vars PROVE Store!StoreNext \/ UNCHANGED Store!store
  OBVIOUS
<1>1. CASE Next
  <2>1. PICK c \in Requests : StepOf(c)
    BY <1>1, NextIsAStep
  <2>2. CASE KeepsAll
    BY <2>2, KeepsStore DEF KeepsAll
  <2>3. CASE Commits(c)
    <3>1. req[c].sid \in Sids /\ req[c].user \in Users
      BY <2>3 DEF Commits
    <3>2. QED  BY <2>3, <3>1, CommitsToStore
  <2>4. CASE Names(c)
    <3>1. req[c].sid \in Sids /\ req[c].user \in Users
      BY <2>4 DEF Names
    <3>2. QED  BY <2>4, <3>1, NamesToStore
  <2>5. ASSUME NEW u \in Users, NEW s \in Sids, Removes(c, u, s) PROVE Store!StoreNext
    BY <2>5, RemovesToStore
  <2>6. QED  BY <2>1, <2>2, <2>3, <2>4, <2>5, Effect DEF Sound
<1>2. CASE UNCHANGED vars
  <2>1. sess' = sess /\ extra' = extra
    BY <1>2 DEF vars, sessionVars
  <2>2. QED  BY <2>1, KeepsStore
<1>3. QED  BY <1>1, <1>2

\* The requests, each of which counts and picks a victim in one transaction and
\* writes in another, change the conversations as the store says.
THEOREM StoreRefinement == Spec => ImplementsStore
<1>1. Init => Store!StoreInit
  <2> SUFFICES ASSUME Init PROVE Store!StoreInit
    OBVIOUS
  <2>1. NoSession.is = "none" /\ NoSession.owner = Nobody
    BY Zenon DEF NoSession
  <2>2. /\ [s \in Sids |-> sess[s].is] = [s \in Sids |-> "none"]
        /\ [s \in Sids |-> sess[s].owner] = [s \in Sids |-> Nobody]
    BY <2>1 DEF Init
  <2>3. extra = [u \in Users |-> 0]
    BY DEF Init
  <2>4. QED  BY <2>2, <2>3 DEF Store!StoreInit
<1>2. QED
  BY <1>1, StoreStep, InitRoomy, RoomyStep, AlwaysSound, PTL
  DEF Spec, ImplementsStore, Store!StoreSpec

=============================================================================
