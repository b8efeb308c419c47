---------------------------- MODULE MetaIndex_proofs ----------------------------
(***************************************************************************)
(* Proofs about MetaIndex, for any registry, any number of administrators, *)
(* rebuilds and questions at once and any number of edits: its types and   *)
(* the three invariants.                                                   *)
(*                                                                         *)
(* A question's tables: whatever another question still holds of the       *)
(* whitelist was read after this one began.  An example: once reviewed it  *)
(* stays so, hence every copy of the registry and the index agree.  The    *)
(* index: while a rebuild is alone, the kinds it has passed are those of   *)
(* its snapshot, and the snapshot is the registry as long as the count of  *)
(* the edits is the one it began with.                                     *)
(***************************************************************************)
EXTENDS MetaIndex, TLAPS

-----------------------------------------------------------------------------
(* The inductive invariant                                                 *)

\* Requests in two steps change tables and columns.
Targets ==
    \A a \in Admins :
        /\ upd[a].do = "update" => upd[a].item \in OfKind("table")
        /\ upd[a].seen \cup upd[a].had \cup upd[a].were \subseteq OfKind("column")

\* What is reviewed stays reviewed, wherever a copy of it is.
ExamplesStayReviewed ==
    \A e \in OfKind("example") :
        /\ row[e].is = "none" => ~row[e].on
        /\ e \in index => row[e].on
        /\ \A b \in Rebuilds : rebuild[b].view[e].on => row[e].on
        /\ \A a \in Asks : ask[a].view[e].on => row[e].on

Selected ==
    \A a \in Asks : \A e \in ask[a].examples :
        /\ e \in OfKind("example") /\ row[e].on
        /\ Visible(ask[a].view, e)

\* The whitelists around that are not older than a question.
WhitelistsAreRecent ==
    \A a \in Asks : ask[a].pc # "idle" =>
        /\ Whitelist(row) \subseteq since[a]
        /\ ~ask[a].late =>
              /\ \A b \in Asks : ask[b].pc = "refresh" => ask[b].white \subseteq since[a]
              /\ ask[a].pc \in {"recall", "sql"} => allowed \subseteq since[a]
              /\ ask[a].ran \subseteq since[a]

\* A kind is up to date if it is emptied whenever it has rows, or always.
Rebuilt(r, k) ==
    (k = "value" \/ Indexable(r, k) # {}) => index \cap OfKind(k) = Indexable(r, k)

SnapshotsAreCounted ==
    \A b \in Rebuilds :
        /\ rebuild[b].edits <= edits
        /\ rebuild[b].pc # "idle" /\ rebuild[b].edits = edits => rebuild[b].view = row

LoneRebuild ==
    \A b \in Rebuilds : rebuild[b].pc # "idle" /\ rebuild[b].alone =>
        /\ \A c \in Rebuilds \ {b} : rebuild[c].pc = "idle"
        /\ \A n \in 1..Len(Order) : n < rebuild[b].at => Rebuilt(rebuild[b].view, Order[n])
        /\ rebuild[b].pc = "fill" => index \cap OfKind(KindAt(b)) = {}

FreshIsQuiet ==
    fresh # -1 => /\ NobodyRebuilds /\ fresh <= edits
                  /\ fresh = edits => \A k \in Kinds : Rebuilt(row, k)

IInv ==
    /\ TypeOK /\ Targets
    /\ ExamplesStayReviewed /\ Selected
    /\ WhitelistsAreRecent
    /\ SnapshotsAreCounted /\ LoneRebuild /\ FreshIsQuiet

-----------------------------------------------------------------------------
(* The registry                                                            *)

LEMMA IndexableAreOfKind ==
  ASSUME NEW r, NEW k
  PROVE  Indexable(r, k) \subseteq OfKind(k)
BY Zenon DEF Indexable

LEMMA KindsAreApart ==
  ASSUME NEW k, NEW l, k # l
  PROVE  OfKind(k) \cap OfKind(l) = {}
BY DEF OfKind

LEMMA TheOrder ==
  /\ Len(Order) = 5 /\ Order \in Seq(Kinds)
  /\ \A n \in 1..Len(Order) : Order[n] \in Kinds
  /\ \A k \in Kinds : \E n \in 1..Len(Order) : Order[n] = k
  /\ \A m, n \in 1..Len(Order) : Order[m] = Order[n] => m = n
  /\ Order[5] = "example"
<1>1. Len(Order) = 5 /\ Order \in Seq(Kinds) /\ Order[5] = "example"
  BY DEF Order, Kinds
<1>2. \A n \in 1..5 : n = 1 \/ n = 2 \/ n = 3 \/ n = 4 \/ n = 5
  OBVIOUS
<1>3. /\ Order[1] = "table" /\ Order[2] = "column" /\ Order[3] = "metric"
      /\ Order[4] = "value" /\ Order[5] = "example"
  BY DEF Order
<1>4. \A n \in 1..5 : Order[n] \in Kinds
  BY <1>2, <1>3 DEF Kinds
<1>5. \A k \in Kinds : \E n \in 1..5 : Order[n] = k
  <2>1. {1, 2, 3, 4, 5} \subseteq 1..5
    OBVIOUS
  <2>2. QED  BY <1>3, <2>1, Zenon DEF Kinds
<1>6. \A m, n \in 1..5 : Order[m] = Order[n] => m = n
  BY <1>2, <1>3
<1>7. QED  BY <1>1, <1>4, <1>5, <1>6

LEMMA IndexableItems ==
  ASSUME NEW r, NEW k
  PROVE  Indexable(r, k) \subseteq Items
BY Zenon DEF Indexable, OfKind

LEMMA WhitelistItems ==
  ASSUME NEW r
  PROVE  Whitelist(r) \subseteq Items
<1>1. EnabledTables(r) \subseteq Items
  BY Zenon DEF EnabledTables, OfKind
<1>2. TablesOfMetrics(r) \subseteq Items
  <2>1. \A m \in Items : Parent[m] \in Items
    BY MetaIndexAssumption
  <2>2. QED  BY <2>1, IndexableItems DEF TablesOfMetrics
<1>3. QED  BY <1>1, <1>2, Zenon DEF Whitelist

LEMMA RowTypes ==
  /\ \A on, open \in BOOLEAN : NewRow(on, open) \in Row
  /\ NoRow \in Row
BY DEF NewRow, NoRow, Row

\* A registry that takes no review back.
KeepsReviews(r) ==
    /\ r \in Registry
    /\ \A e \in OfKind("example") :
          (r[e].is = "none" => ~r[e].on) /\ (row[e].on => r[e].on)

LEMMA PutKeepsReviews ==
  ASSUME TypeOK, ExamplesStayReviewed, NEW i \in Items, NEW v \in Row,
         Kind[i] = "example" => (v.is = "none" => ~v.on) /\ (row[i].on => v.on)
  PROVE  KeepsReviews([row EXCEPT ![i] = v])
<1>1. row \in [Items -> Row]
  BY Zenon DEF TypeOK, Registry
<1>2. [row EXCEPT ![i] = v] \in [Items -> Row]
  BY <1>1
<1>3. \A e \in Items : [row EXCEPT ![i] = v][e] = IF e = i THEN v ELSE row[e]
  BY <1>1
<1>4. QED  BY <1>2, <1>3 DEF KeepsReviews, Registry, OfKind, ExamplesStayReviewed

LEMMA CreatedRows ==
  ASSUME TypeOK, ExamplesStayReviewed, NEW i \in Items, Create(i)
  PROVE  \E v \in Row : /\ Put(i, v)
                        /\ Kind[i] = "example" => v.is # "none" /\ ~row[i].on
<1> DEFINE News == CASE Kind[i] = "metric" -> MetricRows
                     [] Kind[i] = "value" -> FieldValueRows(i)
                     [] Kind[i] = "example" -> SqlExampleRows
                     [] OTHER -> {}
<1>1. PICK v \in News : Put(i, v)
  BY Zenon DEF Create
<1>2. Kind[i] \in Kinds
  BY MetaIndexAssumption
<1>3. \E on, open \in BOOLEAN : v = NewRow(on, open)
  <2>1. CASE Kind[i] = "metric"
    BY <2>1 DEF MetricRows
  <2>2. CASE Kind[i] = "value"
    BY <2>2 DEF FieldValueRows
  <2>3. CASE Kind[i] = "example"
    BY <2>3 DEF SqlExampleRows, Draft
  <2>4. CASE Kind[i] \notin {"metric", "value", "example"}
    BY <2>4
  <2>5. QED  BY <2>1, <2>2, <2>3, <2>4
<1>4. v \in Row /\ v.is = "live"
  BY <1>3 DEF NewRow, Row
<1>5. Kind[i] = "example" => ~row[i].on
  BY DEF Create, IsNew, ExamplesStayReviewed, OfKind
<1>6. QED  BY <1>1, <1>4, <1>5

LEMMA ChangedRows ==
  ASSUME TypeOK, NEW i \in Items, Update(i) \/ Delete(i)
  PROVE  \E v \in Row : /\ Put(i, v)
                        /\ Kind[i] = "example" => v.is # "none" /\ (row[i].on => v.on)
<1>1. row[i] \in Row
  BY DEF TypeOK, Registry
<1>2. CASE Update(i)
  <2>1. PICK v \in UpdatedRows(i) : Put(i, v)
    BY <1>2, Zenon DEF Update
  <2>2. CASE Kind[i] = "column"
    <3>1. v \in {NewRow(row[i].on, open) : open \in BOOLEAN}
      BY <2>2 DEF UpdatedRows
    <3>2. QED  BY <1>1, <2>1, <2>2, <3>1 DEF NewRow, Row
  <2>3. CASE Kind[i] = "example"
    <3>1. v \in ExampleUpdates(i)
      BY <2>3 DEF UpdatedRows
    <3>2. v \in Row /\ v.is = "live" /\ (row[i].on => v.on)
      <4>1. (\E open \in BOOLEAN : v = NewRow(row[i].on, open)) \/ v = NewRow(TRUE, TRUE)
        BY <3>1, Zenon DEF ExampleUpdates
      <4>2. row[i].on \in BOOLEAN
        BY <1>1 DEF Row
      <4>3. CASE v = NewRow(TRUE, TRUE)
        <5>1. v.on /\ v.is = "live"
          BY <4>3 DEF NewRow
        <5>2. QED  BY <4>3, <5>1, RowTypes
      <4>4. CASE \E open \in BOOLEAN : v = NewRow(row[i].on, open)
        BY <4>2, <4>4 DEF NewRow, Row
      <4>5. QED  BY <4>1, <4>3, <4>4
    <3>3. QED  BY <2>1, <3>2
  <2>4. CASE Kind[i] \in {"metric", "value"}
    <3>1. v \in {NewRow(on, TRUE) : on \in BOOLEAN}
      BY <2>4 DEF UpdatedRows
    <3>2. QED  BY <2>1, <2>4, <3>1 DEF NewRow, Row
  <2>5. CASE Kind[i] \notin {"column", "example", "metric", "value"}
    BY <2>1, <2>5 DEF UpdatedRows
  <2>6. QED  BY <2>2, <2>3, <2>4, <2>5
<1>3. CASE Delete(i)
  <2> DEFINE v == [row[i] EXCEPT !.is = "gone"]
  <2>1. v \in Row /\ v.is = "gone" /\ (row[i].on => v.on)
    BY <1>1 DEF Row
  <2>2. Put(i, v)
    BY <1>3, Zenon DEF Delete
  <2>3. QED  BY <2>1, <2>2
<1>4. QED  BY <1>2, <1>3

LEMMA EditsKeepReviews ==
  ASSUME TypeOK, ExamplesStayReviewed, EditRegistry
  PROVE  UNCHANGED upd /\ \E r : Commit(r) /\ KeepsReviews(r)
<1>1. ASSUME NEW t \in OfKind("table"), NEW on \in BOOLEAN, NEW hidden, RegisterTable(t, on, hidden)
      PROVE  UNCHANGED upd /\ \E r : Commit(r) /\ KeepsReviews(r)
  <2> DEFINE r == [i \in Items |->
                      IF i = t THEN NewRow(on, TRUE)
                      ELSE IF i \in Introspected(t) THEN NewRow(TRUE, i \notin hidden)
                      ELSE row[i]]
  <2>1. UNCHANGED upd /\ Commit(r)
    BY <1>1, Zenon DEF RegisterTable
  <2>2. \A i \in Items : r[i] \in Row
    BY RowTypes DEF TypeOK, Registry
  <2>3. r \in Registry
    BY <2>2 DEF Registry
  <2>4. \A e \in OfKind("example") : r[e] = row[e]
    BY DEF OfKind, Introspected, Columns
  <2>5. KeepsReviews(r)
    BY <2>3, <2>4 DEF KeepsReviews, ExamplesStayReviewed
  <2>6. QED  BY <2>1, <2>5
<1>2. ASSUME NEW i \in Items, Create(i) \/ Update(i) \/ Delete(i)
      PROVE  UNCHANGED upd /\ \E r : Commit(r) /\ KeepsReviews(r)
  <2>1. PICK v \in Row : Put(i, v) /\ (Kind[i] = "example" => v.is # "none" /\ (row[i].on => v.on))
    BY <1>2, CreatedRows, ChangedRows, Zenon
  <2>2. KeepsReviews([row EXCEPT ![i] = v])
    BY <2>1, PutKeepsReviews
  <2>3. QED  BY <2>1, <2>2, Zenon DEF Put
<1>3. QED  BY <1>1, <1>2, Zenon DEF EditRegistry

LEMMA AdministerKeepsReviews ==
  ASSUME TypeOK, Targets, ExamplesStayReviewed, NEW a \in Admins, Administer(a)
  PROVE  \/ UNCHANGED <<row, biz, edits, since, indexVars, askVars>>
         \/ \E r : Commit(r) /\ KeepsReviews(r)
<1>1. CASE \E t \in OfKind("table"), on \in BOOLEAN : UpdateTable(a, t, on)
  BY <1>1, Zenon DEF UpdateTable
<1>2. CASE \E t \in OfKind("table") : RefreshTable(a, t)
  BY <1>2, Zenon DEF RefreshTable
<1>3. CASE WriteTable(a)
  <2> DEFINE t == upd[a].item
             r == [row EXCEPT ![t].on = upd[a].on]
  <2>1. t \in Items /\ Kind[t] = "table" /\ Commit(r)
    BY <1>3 DEF WriteTable, Targets, OfKind
  <2>2. row[t] \in Row /\ upd[a].on \in BOOLEAN
    BY <2>1 DEF TypeOK, Registry
  <2>3. [row[t] EXCEPT !.on = upd[a].on] \in Row
    BY <2>2 DEF Row
  <2>4. r = [row EXCEPT ![t] = [row[t] EXCEPT !.on = upd[a].on]]
    OBVIOUS
  <2>5. KeepsReviews(r)
    BY <2>1, <2>3, <2>4, PutKeepsReviews
  <2>6. QED  BY <2>1, <2>5
<1>4. CASE WriteColumns(a)
  <2> DEFINE u == upd[a]
             new == u.seen \ u.had
             r == [i \in Items |->
                      IF i \in new THEN NewRow(TRUE, TRUE)
                      ELSE IF i \in u.seen THEN [row[i] EXCEPT !.on = TRUE]
                      ELSE IF i \in u.were THEN [row[i] EXCEPT !.on = FALSE]
                      ELSE row[i]]
  <2>1. UNCHANGED <<row, biz, edits, indexVars, askVars, since>> \/ Commit(r)
    BY <1>4, Zenon DEF WriteColumns
  <2>2. \A i \in Items : row[i] \in Row
    BY DEF TypeOK, Registry
  <2>3. \A x \in Row : \A on \in BOOLEAN : [x EXCEPT !.on = on] \in Row
    BY DEF Row
  <2>4. \A i \in Items : r[i] \in Row
    BY <2>2, <2>3, RowTypes
  <2>5. r \in Registry
    BY <2>4 DEF Registry
  <2>6. \A e \in OfKind("example") : e \notin u.seen \cup u.were
    BY DEF Targets, OfKind
  <2>7. \A e \in OfKind("example") : r[e] = row[e]
    BY <2>6 DEF OfKind
  <2>8. KeepsReviews(r)
    BY <2>5, <2>7 DEF KeepsReviews, ExamplesStayReviewed
  <2>9. QED  BY <2>1, <2>8, Zenon
<1>5. QED  BY <1>1, <1>2, <1>3, <1>4, Zenon DEF Administer

\* The steps of the administrators and of the business database.
RegistryStep ==
    AlterBusinessTable \/ EditRegistry \/ \E a \in Admins : Administer(a)

LEMMA RegistrySteps ==
  ASSUME TypeOK, Targets, ExamplesStayReviewed, RegistryStep
  PROVE  /\ UNCHANGED <<indexVars, askVars>>
         /\ edits' \in {edits, edits + 1} /\ edits' \in 0..MaxEdits
         /\ biz' \subseteq Items
         /\ \/ UNCHANGED <<row, since>>
            \/ Commit(row') /\ KeepsReviews(row')
<1> USE MetaIndexAssumption
<1>1. edits \in 0..MaxEdits /\ biz \subseteq Items
  BY Zenon DEF TypeOK
<1>2. ASSUME NEW r, Commit(r)
      PROVE  /\ UNCHANGED <<indexVars, askVars>> /\ row' = r /\ biz' = biz
             /\ edits' = edits + 1 /\ edits' \in 0..MaxEdits
  BY <1>1, <1>2 DEF Commit
<1>3. CASE AlterBusinessTable
  <2>1. UNCHANGED <<row, since, indexVars, askVars>> /\ edits' = edits + 1 /\ edits < MaxEdits
    BY <1>3, Zenon DEF AlterBusinessTable
  <2>2. biz' \subseteq Items
    BY <1>1, <1>3 DEF AlterBusinessTable, OfKind
  <2>3. QED  BY <1>1, <2>1, <2>2
<1>4. CASE EditRegistry
  <2>1. PICK r : Commit(r) /\ KeepsReviews(r)
    BY <1>4, EditsKeepReviews
  <2>2. QED  BY <1>1, <1>2, <2>1
<1>5. ASSUME NEW a \in Admins, Administer(a)
      PROVE  /\ UNCHANGED <<indexVars, askVars>>
             /\ edits' \in {edits, edits + 1} /\ edits' \in 0..MaxEdits
             /\ biz' \subseteq Items
             /\ \/ UNCHANGED <<row, since>>
                \/ Commit(row') /\ KeepsReviews(row')
  <2>1. CASE UNCHANGED <<row, biz, edits, since, indexVars, askVars>>
    BY <1>1, <2>1
  <2>2. CASE \E r : Commit(r) /\ KeepsReviews(r)
    <3>1. PICK r : Commit(r) /\ KeepsReviews(r)
      BY <2>2
    <3>2. QED  BY <1>1, <1>2, <3>1
  <2>3. QED  BY <1>5, <2>1, <2>2, AdministerKeepsReviews
<1>6. QED  BY <1>3, <1>4, <1>5, Zenon DEF RegistryStep

-----------------------------------------------------------------------------
(* Types                                                                   *)

UpdateRecord == [do : {"idle", "update", "refresh"}, item : Items \cup {""},
                 on : BOOLEAN, seen : SUBSET Items, had : SUBSET Items, were : SUBSET Items]
UpdatesTyped == upd \in [Admins -> UpdateRecord]

LEMMA IdleUpdate == NoUpdate \in UpdateRecord
BY DEF NoUpdate, UpdateRecord

LEMMA UpdatesPreserved ==
  ASSUME TypeOK, Targets, RegistryStep
  PROVE  UpdatesTyped' /\ Targets'
<1>1. UpdatesTyped
  BY Zenon DEF TypeOK, UpdatesTyped, UpdateRecord
<1>2. CASE upd' = upd
  BY <1>1, <1>2 DEF UpdatesTyped, Targets
<1>3. ASSUME NEW a \in Admins, NEW u \in UpdateRecord, upd' = [upd EXCEPT ![a] = u],
             u.do = "update" => u.item \in OfKind("table"),
             u.seen \cup u.had \cup u.were \subseteq OfKind("column")
      PROVE  UpdatesTyped' /\ Targets'
  BY <1>1, <1>3 DEF UpdatesTyped, Targets
<1>4. ASSUME NEW a \in Admins, upd' = [upd EXCEPT ![a] = NoUpdate]
      PROVE  UpdatesTyped' /\ Targets'
  <2>1. NoUpdate.do = "idle" /\ NoUpdate.seen \cup NoUpdate.had \cup NoUpdate.were = {}
    BY DEF NoUpdate
  <2>2. QED  BY <1>3, <1>4, <2>1, IdleUpdate
<1>5. ASSUME NEW a \in Admins, Administer(a) PROVE UpdatesTyped' /\ Targets'
  <2>1. ASSUME NEW t \in OfKind("table"), NEW on \in BOOLEAN, UpdateTable(a, t, on)
        PROVE  UpdatesTyped' /\ Targets'
    <3> DEFINE u == [NoUpdate EXCEPT !.do = "update", !.item = t, !.on = on]
    <3>1. u.do = "update" /\ u.item = t /\ u.seen \cup u.had \cup u.were = {}
      BY DEF NoUpdate
    <3>2. u \in UpdateRecord
      BY DEF NoUpdate, UpdateRecord, OfKind
    <3>3. upd' = [upd EXCEPT ![a] = u]
      BY <2>1, Zenon DEF UpdateTable
    <3>4. QED  BY <1>3, <3>1, <3>2, <3>3
  <2>2. ASSUME NEW t \in OfKind("table"), RefreshTable(a, t)
        PROVE  UpdatesTyped' /\ Targets'
    <3> DEFINE had == {c \in Columns(t) : Live(row, c)}
               u == [do |-> "refresh", item |-> t, on |-> FALSE, seen |-> Introspected(t),
                     had |-> had, were |-> {c \in had : row[c].on}]
    <3>1. upd' = [upd EXCEPT ![a] = u]
      BY <2>2, Zenon DEF RefreshTable
    <3>2. Columns(t) \subseteq OfKind("column") /\ Introspected(t) \subseteq Columns(t)
      BY Zenon DEF Columns, Introspected
    <3>3. u.do = "refresh" /\ u.seen \cup u.had \cup u.were \subseteq OfKind("column")
      BY <3>2
    <3>4. u \in UpdateRecord
      BY <3>2 DEF UpdateRecord, OfKind
    <3>5. QED  BY <1>3, <3>1, <3>3, <3>4
  <2>3. CASE WriteTable(a) \/ WriteColumns(a)
    BY <1>4, <2>3, Zenon DEF WriteTable, WriteColumns
  <2>4. QED  BY <1>5, <2>1, <2>2, <2>3, Zenon DEF Administer
<1>6. CASE AlterBusinessTable
  BY <1>2, <1>6, Zenon DEF AlterBusinessTable
<1>7. CASE EditRegistry
  <2>1. UNCHANGED upd
    BY <1>7, Zenon DEF EditRegistry, RegisterTable, Create, Update, Delete, Put
  <2>2. QED  BY <1>2, <2>1
<1>8. QED  BY <1>5, <1>6, <1>7, Zenon DEF RegistryStep

RebuildRecord == [pc : {"idle", "clear", "fill"}, at : 1..Len(Order),
                  view : Registry, edits : 0..MaxEdits, alone : BOOLEAN]
AskRecord == [pc : {"idle", "refresh", "recall", "sql", "ran"}, view : Registry,
              white : SUBSET Items, examples : SUBSET Items, ran : SUBSET Items,
              late : BOOLEAN]

LEMMA IdleRecords ==
  /\ NoRebuild \in RebuildRecord
  /\ NoRebuild.pc = "idle" /\ NoRebuild.edits = 0 /\ NoRebuild.alone = FALSE
  /\ NoAsk \in AskRecord
  /\ NoAsk.pc = "idle" /\ NoAsk.examples = {} /\ NoAsk.ran = {} /\ NoAsk.late = FALSE
  /\ \A i \in Items : ~NoRebuild.view[i].on /\ ~NoAsk.view[i].on
<1>1. [i \in Items |-> NoRow] \in Registry
  BY RowTypes DEF Registry
<1>2. Len(Order) = 5 /\ 0 \in 0..MaxEdits
  BY TheOrder, MetaIndexAssumption
<1>3. NoRebuild \in RebuildRecord
  BY <1>1, <1>2 DEF NoRebuild, RebuildRecord
<1>4. NoAsk \in AskRecord
  BY <1>1 DEF NoAsk, AskRecord
<1>5. QED  BY <1>3, <1>4 DEF NoRebuild, NoAsk, NoRow

\* The smallest of the kinds ahead.
LEMMA FirstIsLeast ==
  ASSUME NEW S \in SUBSET (1..5), S # {}
  PROVE  First(S) \in S /\ \A k \in S : First(S) <= k
<1>1. \E n \in S : \A k \in S : n <= k
  <2>1. \A n \in 1..5 : n = 1 \/ n = 2 \/ n = 3 \/ n = 4 \/ n = 5
    OBVIOUS
  <2>2. CASE 1 \in S
    BY <2>2
  <2>3. CASE 1 \notin S /\ 2 \in S
    BY <2>1, <2>3
  <2>4. CASE 1 \notin S /\ 2 \notin S /\ 3 \in S
    BY <2>1, <2>4
  <2>5. CASE 1 \notin S /\ 2 \notin S /\ 3 \notin S /\ 4 \in S
    BY <2>1, <2>5
  <2>6. CASE 1 \notin S /\ 2 \notin S /\ 3 \notin S /\ 4 \notin S
    <3>1. \A n \in S : n = 5
      BY <2>1, <2>6
    <3>2. PICK n \in S : TRUE
      OBVIOUS
    <3>3. \A k \in S : n <= k
      BY <3>1
    <3>4. QED  BY <3>3
  <2>7. QED  BY <2>2, <2>3, <2>4, <2>5, <2>6
<1>2. QED  BY <1>1 DEF First

LEMMA AheadInOrder ==
  ASSUME NEW r, NEW n \in 0..5
  PROVE  /\ Ahead(r, n) \subseteq 1..5
         /\ n < 4 => Ahead(r, n) # {}
         /\ Ahead(r, n) # {} => First(Ahead(r, n)) \in n + 1..5
         /\ \A m \in n + 1..5 : m \notin Ahead(r, n) => ~(Order[m] = "value" \/ Indexable(r, Order[m]) # {})
         /\ Ahead(r, n) # {} => \A m \in n + 1..5 : m < First(Ahead(r, n)) => m \notin Ahead(r, n)
<1>1. Len(Order) = 5
  BY TheOrder
<1>2. Ahead(r, n) \subseteq n + 1..5
  BY <1>1, Zenon DEF Ahead
<1>3. n + 1..5 \subseteq 1..5
  OBVIOUS
<1>4. Ahead(r, n) \subseteq 1..5
  BY <1>2, <1>3
<1>5. n < 4 => 4 \in Ahead(r, n)
  BY <1>1 DEF Ahead, Order
<1>6. \A m \in n + 1..5 : m \notin Ahead(r, n) => ~(Order[m] = "value" \/ Indexable(r, Order[m]) # {})
  BY <1>1, Zenon DEF Ahead
<1>7. CASE Ahead(r, n) # {}
  <2>1. First(Ahead(r, n)) \in Ahead(r, n) /\ \A k \in Ahead(r, n) : First(Ahead(r, n)) <= k
    BY <1>4, <1>7, FirstIsLeast
  <2>2. First(Ahead(r, n)) \in n + 1..5
    BY <1>2, <2>1
  <2>3. \A m \in n + 1..5 : m < First(Ahead(r, n)) => m \notin Ahead(r, n)
    BY <2>1, <2>2
  <2>4. QED  BY <1>4, <1>5, <1>6, <2>2, <2>3
<1>8. CASE Ahead(r, n) = {}
  BY <1>4, <1>5, <1>6, <1>8
<1>9. QED  BY <1>7, <1>8

RebuildsTyped == rebuild \in [Rebuilds -> RebuildRecord]
AsksTyped == ask \in [Asks -> AskRecord]

LEMMA RecordsTyped ==
  ASSUME TypeOK
  PROVE  /\ UpdatesTyped /\ RebuildsTyped /\ AsksTyped
         /\ row \in Registry /\ index \subseteq Items /\ allowed \subseteq Items
         /\ edits \in 0..MaxEdits /\ rebuilds \in 0..MaxRebuilds /\ fresh \in -1..MaxEdits
         /\ since \in [Asks -> SUBSET Items]
BY Zenon DEF TypeOK, UpdatesTyped, UpdateRecord, RebuildsTyped, RebuildRecord, AsksTyped,
   AskRecord

\* Where a rebuild puts its record; another that begins is no longer alone.
LEMMA RebuildPut ==
  ASSUME TypeOK, NEW b \in Rebuilds, NEW v \in RebuildRecord
  PROVE  /\ [rebuild EXCEPT ![b] = v] \in [Rebuilds -> RebuildRecord]
         /\ [rebuild EXCEPT ![b] = v][b] = v
         /\ \A c \in Rebuilds \ {b} : [rebuild EXCEPT ![b] = v][c] = rebuild[c]
BY RecordsTyped DEF RebuildsTyped

LEMMA AskPut ==
  ASSUME TypeOK, NEW a \in Asks, NEW v \in AskRecord
  PROVE  /\ [ask EXCEPT ![a] = v] \in [Asks -> AskRecord]
         /\ [ask EXCEPT ![a] = v][a] = v
         /\ \A c \in Asks \ {a} : [ask EXCEPT ![a] = v][c] = ask[c]
BY RecordsTyped DEF AsksTyped

LEMMA RebuildFields ==
  ASSUME TypeOK, NEW b \in Rebuilds
  PROVE  /\ rebuild[b] \in RebuildRecord /\ rebuild[b].view \in Registry
         /\ rebuild[b].at \in 1..5 /\ rebuild[b].edits \in 0..MaxEdits
         /\ rebuild[b].alone \in BOOLEAN /\ rebuild[b].edits \in Nat
         /\ Order[rebuild[b].at] \in Kinds
<1>1. rebuild[b] \in RebuildRecord
  BY RecordsTyped DEF RebuildsTyped
<1>2. Len(Order) = 5
  BY TheOrder
<1>3. rebuild[b].at \in 1..5
  BY <1>1, <1>2 DEF RebuildRecord
<1>4. Order[rebuild[b].at] \in Kinds
  BY <1>2, <1>3, TheOrder
<1>5. /\ rebuild[b].view \in Registry /\ rebuild[b].edits \in 0..MaxEdits
      /\ rebuild[b].alone \in BOOLEAN
  BY <1>1, Zenon DEF RebuildRecord
<1>6. rebuild[b].edits \in Nat
  BY <1>5, MetaIndexAssumption
<1>7. QED  BY <1>1, <1>3, <1>4, <1>5, <1>6

LEMMA AskFields ==
  ASSUME TypeOK, NEW a \in Asks
  PROVE  /\ ask[a] \in AskRecord /\ ask[a].view \in Registry
         /\ ask[a].white \subseteq Items /\ ask[a].late \in BOOLEAN
<1>1. ask[a] \in AskRecord
  BY RecordsTyped DEF AsksTyped
<1>2. QED  BY <1>1, Zenon DEF AskRecord

NextKind(b, n, alone) == [rebuild[b] EXCEPT !.pc = "clear", !.at = n, !.alone = alone]
KindsAhead(b) == Ahead(rebuild[b].view, rebuild[b].at)

\* The record of a rebuild after each of its steps.
LEMMA RebuildRecords ==
  ASSUME TypeOK, NEW b \in Rebuilds
  PROVE  /\ [pc |-> "clear", at |-> First(Ahead(row, 0)), view |-> row,
             edits |-> edits, alone |-> NobodyRebuilds] \in RebuildRecord
         /\ [rebuild[b] EXCEPT !.alone = FALSE] \in RebuildRecord
         /\ [rebuild[b] EXCEPT !.pc = "fill"] \in RebuildRecord
         /\ \A alone \in BOOLEAN : \A n \in 1..5 : NextKind(b, n, alone) \in RebuildRecord
<1>1. Len(Order) = 5
  BY TheOrder
<1>2. First(Ahead(row, 0)) \in 1..5
  BY AheadInOrder
<1>3. row \in Registry /\ edits \in 0..MaxEdits
  BY RecordsTyped
<1>4. NobodyRebuilds \in BOOLEAN
  BY Zenon DEF NobodyRebuilds
<1>5. rebuild[b] \in RebuildRecord
  BY RebuildFields
<1>6. [pc |-> "clear", at |-> First(Ahead(row, 0)), view |-> row,
       edits |-> edits, alone |-> NobodyRebuilds] \in RebuildRecord
  BY <1>1, <1>2, <1>3, <1>4 DEF RebuildRecord
<1>7. [rebuild[b] EXCEPT !.alone = FALSE] \in RebuildRecord
  BY <1>5 DEF RebuildRecord
<1>8. [rebuild[b] EXCEPT !.pc = "fill"] \in RebuildRecord
  BY <1>5 DEF RebuildRecord
<1>9. ASSUME NEW alone \in BOOLEAN, NEW n \in 1..5
      PROVE  NextKind(b, n, alone) \in RebuildRecord
  BY <1>1, <1>5 DEF RebuildRecord, NextKind
<1>10. QED  BY <1>6, <1>7, <1>8, <1>9

\* What a step of a rebuild does to the index and to its record.
LEMMA IndexSteps ==
  ASSUME TypeOK, NEW b \in Rebuilds, NEW docs \in SUBSET Items, NEW alone \in BOOLEAN,
         Index(b, docs, alone)
  PROVE  /\ UNCHANGED <<registryVars, rebuilds, askVars, since>>
         /\ rebuild[b].pc = "fill" /\ index' = index \cup docs
         /\ \/ /\ KindsAhead(b) = {} /\ rebuild' = [rebuild EXCEPT ![b] = NoRebuild]
               /\ alone => fresh' = rebuild[b].edits
               /\ ~alone => fresh' = fresh
            \/ /\ KindsAhead(b) # {} /\ fresh' = fresh
               /\ First(KindsAhead(b)) \in rebuild[b].at + 1..5
               /\ rebuild' = [rebuild EXCEPT ![b] = NextKind(b, First(KindsAhead(b)), alone)]
<1>1. /\ UNCHANGED <<registryVars, rebuilds, askVars, since>>
      /\ rebuild[b].pc = "fill" /\ index' = index \cup docs
  BY Zenon DEF Index
<1>2. CASE KindsAhead(b) = {}
  <2>1. rebuild' = [rebuild EXCEPT ![b] = NoRebuild]
    BY <1>2, Zenon DEF Index, KindsAhead
  <2>2. fresh' = IF alone THEN rebuild[b].edits ELSE fresh
    BY <1>2, Zenon DEF Index, KindsAhead
  <2>3. QED  BY <1>1, <1>2, <2>1, <2>2
<1>3. CASE KindsAhead(b) # {}
  <2> DEFINE n == First(KindsAhead(b))
  <2>1. /\ rebuild' = [rebuild EXCEPT ![b].pc = "clear", ![b].at = n, ![b].alone = alone]
        /\ fresh' = fresh
    BY <1>3, Zenon DEF Index, KindsAhead
  <2>2. n \in rebuild[b].at + 1..5
    <3>1. rebuild[b].at \in 0..5
      BY RebuildFields
    <3>2. QED  BY <1>3, <3>1, AheadInOrder DEF KindsAhead
  <2> HIDE DEF n
  <2>3. rebuild' = [rebuild EXCEPT ![b] = NextKind(b, n, alone)]
    BY <2>1, RecordsTyped DEF RebuildsTyped, NextKind
  <2>4. QED  BY <1>1, <1>3, <2>1, <2>2, <2>3 DEF n
<1>4. QED  BY <1>2, <1>3

LEMMA TypePreserved ==
  ASSUME TypeOK, Targets, ExamplesStayReviewed, [Next]_vars
  PROVE  TypeOK'
<1> DEFINE Typed ==
      /\ UpdatesTyped /\ RebuildsTyped /\ AsksTyped
      /\ row \in Registry /\ biz \subseteq Items /\ index \subseteq Items /\ allowed \subseteq Items
      /\ edits \in 0..MaxEdits /\ rebuilds \in 0..MaxRebuilds /\ fresh \in -1..MaxEdits
      /\ since \in [Asks -> SUBSET Items]
<1>1. Typed /\ (Typed' => TypeOK')
  <2>1. Typed
    BY RecordsTyped DEF TypeOK
  <2>2. Typed' => TypeOK'
    BY Zenon DEF TypeOK, UpdatesTyped, UpdateRecord, RebuildsTyped, RebuildRecord, AsksTyped,
       AskRecord
  <2>3. QED  BY <2>1, <2>2
<1> HIDE DEF Typed
<1>2. CASE UNCHANGED vars
  BY <1>2 DEF TypeOK, vars, registryVars, indexVars, askVars
<1>3. CASE RegistryStep
  <2>1. /\ UNCHANGED <<indexVars, askVars>>
        /\ edits' \in 0..MaxEdits /\ biz' \subseteq Items
        /\ UNCHANGED <<row, since>> \/ (Commit(row') /\ KeepsReviews(row'))
    BY <1>3, RegistrySteps
  <2>2. UpdatesTyped'
    BY <1>3, UpdatesPreserved
  <2>3. row' \in Registry /\ since' \in [Asks -> SUBSET Items]
    <3>1. CASE UNCHANGED <<row, since>>
      BY <3>1, RecordsTyped
    <3>2. CASE Commit(row') /\ KeepsReviews(row')
      <4>1. since' = [a \in Asks |-> IF ask[a].pc = "idle" THEN {}
                                     ELSE since[a] \cup Whitelist(row')]
        BY <3>2, Zenon DEF Commit
      <4>2. Whitelist(row') \subseteq Items /\ since \in [Asks -> SUBSET Items]
        BY WhitelistItems, RecordsTyped
      <4>3. QED  BY <3>2, <4>1, <4>2 DEF KeepsReviews
    <3>3. QED  BY <2>1, <3>1, <3>2
  <2>4. RebuildsTyped' /\ AsksTyped' /\ index' = index /\ allowed' = allowed
        /\ rebuilds' = rebuilds /\ fresh' = fresh
    BY <2>1, RecordsTyped DEF indexVars, askVars, RebuildsTyped, AsksTyped
  <2>5. Typed'
    BY <1>1, <2>1, <2>2, <2>3, <2>4 DEF Typed
  <2>6. QED  BY <1>1, <2>5
<1>4. ASSUME NEW b \in Rebuilds, Reindex(b) PROVE TypeOK'
  <2>1. SUFFICES ASSUME UNCHANGED <<registryVars, askVars, since>>
                 PROVE  /\ RebuildsTyped' /\ index' \subseteq Items
                        /\ rebuilds' \in 0..MaxRebuilds /\ fresh' \in -1..MaxEdits
    <3>1. UNCHANGED <<registryVars, askVars, since>>
      BY <1>4, Zenon DEF Reindex, RebuildBegins, Recreate, Fill, FillPartly, Index, RebuildFails
    <3>2. UpdatesTyped' /\ AsksTyped'
      BY <1>1, <3>1 DEF Typed, UpdatesTyped, AsksTyped, registryVars, askVars
    <3>3. QED  BY <1>1, <2>1, <3>1, <3>2 DEF Typed, registryVars, askVars
  <2>2. /\ RebuildsTyped /\ index \subseteq Items /\ MaxEdits \in Nat /\ MaxRebuilds \in Nat
        /\ rebuilds \in 0..MaxRebuilds /\ fresh \in -1..MaxEdits
    BY RecordsTyped, MetaIndexAssumption
  <2>3. CASE RebuildBegins(b)
    <3>1. rebuilds' = rebuilds + 1 /\ rebuilds < MaxRebuilds /\ fresh' = -1 /\ index' = index
      BY <2>3, Zenon DEF RebuildBegins
    <3>2. RebuildsTyped'
      BY <2>3, RebuildRecords DEF RebuildBegins, RebuildsTyped
    <3>3. QED  BY <2>2, <3>1, <3>2
  <2>4. CASE Recreate(b)
    <3>1. /\ rebuild' = [rebuild EXCEPT ![b] = [rebuild[b] EXCEPT !.pc = "fill"]]
          /\ index' \subseteq index /\ UNCHANGED <<rebuilds, fresh>>
      BY <2>4 DEF Recreate
    <3>2. RebuildsTyped'
      BY <3>1, RebuildRecords, RebuildPut DEF RebuildsTyped
    <3>3. QED  BY <2>2, <3>1, <3>2
  <2>5. ASSUME NEW docs \in SUBSET Items, NEW alone \in BOOLEAN, Index(b, docs, alone)
        PROVE  /\ RebuildsTyped' /\ index' \subseteq Items
               /\ rebuilds' \in 0..MaxRebuilds /\ fresh' \in -1..MaxEdits
    <3>1. /\ rebuilds' = rebuilds /\ index' = index \cup docs
          /\ fresh' \in {rebuild[b].edits, fresh}
          /\ \/ rebuild' = [rebuild EXCEPT ![b] = NoRebuild]
             \/ \E n \in 1..5 : rebuild' = [rebuild EXCEPT ![b] = NextKind(b, n, alone)]
      <4>1. \A n \in rebuild[b].at + 1..5 : n \in 1..5
        BY RebuildFields
      <4>2. QED  BY <2>5, <4>1, IndexSteps
    <3>2. RebuildsTyped'
      <4>1. CASE rebuild' = [rebuild EXCEPT ![b] = NoRebuild]
        BY <4>1, IdleRecords, RebuildPut DEF RebuildsTyped
      <4>2. ASSUME NEW n \in 1..5, rebuild' = [rebuild EXCEPT ![b] = NextKind(b, n, alone)]
            PROVE  RebuildsTyped'
        BY <4>2, RebuildRecords, RebuildPut DEF RebuildsTyped
      <4>3. QED  BY <3>1, <4>1, <4>2
    <3>3. rebuild[b].edits \in -1..MaxEdits
      BY <2>2, RebuildFields
    <3>4. QED  BY <2>2, <3>1, <3>2, <3>3
  <2>6. CASE Fill(b)
    BY <2>5, <2>6, IndexableItems, RebuildFields, Zenon DEF Fill
  <2>7. CASE FillPartly(b)
    <3>1. PICK some \in SUBSET Indexable(rebuild[b].view, KindAt(b)) : Index(b, some, FALSE)
      BY <2>7, Zenon DEF FillPartly
    <3>2. some \in SUBSET Items
      BY IndexableItems
    <3>3. QED  BY <2>5, <3>1, <3>2
  <2>8. CASE RebuildFails(b)
    <3>1. rebuild' = [rebuild EXCEPT ![b] = NoRebuild] /\ UNCHANGED <<index, rebuilds, fresh>>
      BY <2>8, Zenon DEF RebuildFails
    <3>2. RebuildsTyped'
      BY <3>1, IdleRecords, RebuildPut DEF RebuildsTyped
    <3>3. QED  BY <2>2, <3>1, <3>2
  <2>9. QED  BY <1>4, <2>3, <2>4, <2>6, <2>7, <2>8, Zenon DEF Reindex
<1>5. ASSUME NEW a \in Asks, Question(a) PROVE TypeOK'
  <2>1. SUFFICES ASSUME UNCHANGED <<registryVars, indexVars>>
                 PROVE  /\ AsksTyped' /\ allowed' \subseteq Items
                        /\ since' \in [Asks -> SUBSET Items]
    <3>1. UNCHANGED <<registryVars, indexVars>>
      BY <1>5, Zenon DEF Question, Begin, Refresh, Recall, RunSql, EndAsk
    <3>2. UpdatesTyped' /\ RebuildsTyped'
      BY <1>1, <3>1 DEF Typed, UpdatesTyped, RebuildsTyped, registryVars, indexVars
    <3>3. QED  BY <1>1, <2>1, <3>1, <3>2 DEF Typed, registryVars, indexVars
  <2>2. AsksTyped /\ allowed \subseteq Items /\ since \in [Asks -> SUBSET Items]
    BY RecordsTyped
  <2>3. ask[a] \in AskRecord /\ ask[a].white \subseteq Items /\ ask[a].late \in BOOLEAN
    BY AskFields
  <2>4. ASSUME NEW v \in AskRecord, ask' = [ask EXCEPT ![a] = v] PROVE AsksTyped'
    BY <2>4, AskPut DEF AsksTyped
  <2>5. CASE Begin(a)
    <3> DEFINE v == [NoAsk EXCEPT !.pc = "refresh", !.view = row, !.white = Whitelist(row),
                                  !.late = \E b \in Asks \ {a} : At(b, "refresh")]
    <3>1. row \in Registry /\ Whitelist(row) \subseteq Items
          /\ (\E b \in Asks \ {a} : At(b, "refresh")) \in BOOLEAN
      BY RecordsTyped, WhitelistItems, Zenon
    <3>2. v \in AskRecord
      BY <3>1, IdleRecords DEF AskRecord
    <3>3. ask' = [ask EXCEPT ![a] = v] /\ allowed' = allowed
          /\ since' = [since EXCEPT ![a] = Whitelist(row)]
      BY <2>5, Zenon DEF Begin
    <3>4. QED  BY <2>2, <2>4, <3>1, <3>2, <3>3
  <2>6. CASE Refresh(a)
    <3> DEFINE v == [ask[a] EXCEPT !.pc = "recall", !.white = {}]
    <3>1. v \in AskRecord
      BY <2>3 DEF AskRecord
    <3>2. ask' = [ask EXCEPT ![a] = v]
      BY <2>2, <2>6 DEF Refresh, AsksTyped
    <3>3. allowed' = ask[a].white /\ since' = since
      BY <2>6, Zenon DEF Refresh
    <3>4. QED  BY <2>2, <2>3, <2>4, <3>1, <3>2, <3>3
  <2>7. CASE Recall(a)
    <3>1. PICK hits \in Hits(ask[a].view, "example") :
              ask' = [ask EXCEPT ![a].pc = "sql",
                                 ![a].examples = {e \in hits : Visible(ask[a].view, e)}]
      BY <2>7, Zenon DEF Recall
    <3>2. hits \subseteq Items
      BY IndexableItems DEF Hits, FromIndex, ByKeywords, OfKind
    <3> DEFINE some == {e \in hits : Visible(ask[a].view, e)}
               v == [ask[a] EXCEPT !.pc = "sql", !.examples = some]
    <3>3. some \subseteq Items
      BY <3>2
    <3>4. v \in AskRecord
      <4> HIDE DEF some
      <4>1. QED  BY <2>3, <3>3 DEF AskRecord
    <3>5. ask' = [ask EXCEPT ![a] = v]
      BY <2>2, <3>1 DEF AsksTyped
    <3>6. allowed' = allowed /\ since' = since
      BY <2>7, Zenon DEF Recall
    <3>7. QED  BY <2>2, <2>4, <3>4, <3>5, <3>6
  <2>8. CASE RunSql(a)
    <3>1. PICK tables \in SUBSET OfKind("table") :
              ask' = [ask EXCEPT ![a] = [NoAsk EXCEPT !.pc = "ran", !.ran = tables,
                                                       !.late = ask[a].late]]
      BY <2>8, Zenon DEF RunSql
    <3> DEFINE v == [NoAsk EXCEPT !.pc = "ran", !.ran = tables, !.late = ask[a].late]
    <3>2. tables \subseteq Items
      BY DEF OfKind
    <3>3. v \in AskRecord
      BY <2>3, <3>2, IdleRecords DEF AskRecord
    <3>4. allowed' = allowed /\ since' = since
      BY <2>8, Zenon DEF RunSql
    <3>5. QED  BY <2>2, <2>4, <3>1, <3>3, <3>4
  <2>9. CASE EndAsk(a)
    <3>1. /\ ask' = [ask EXCEPT ![a] = NoAsk] /\ allowed' = allowed
          /\ since' = [since EXCEPT ![a] = {}]
      BY <2>9, Zenon DEF EndAsk
    <3>2. QED  BY <2>2, <2>4, <3>1, IdleRecords
  <2>10. QED  BY <1>5, <2>5, <2>6, <2>7, <2>8, <2>9, Zenon DEF Question
<1>6. QED
  BY <1>2, <1>3, <1>4, <1>5, Zenon DEF Next, RegistryStep

-----------------------------------------------------------------------------
(* Questions: examples and whitelists                                      *)

\* What any step of a rebuild leaves alone, and where its views come from.
LEMMA ReindexFrame ==
  ASSUME TypeOK, NEW b \in Rebuilds, Reindex(b)
  PROVE  /\ UNCHANGED <<registryVars, askVars, since>>
         /\ \A c \in Rebuilds : rebuild'[c].view \in {rebuild[c].view, row, NoRebuild.view}
         /\ \A e \in index' \ index : \E k : e \in Indexable(rebuild[b].view, k)
<1>1. UNCHANGED <<registryVars, askVars, since>>
  BY Zenon DEF Reindex, RebuildBegins, Recreate, Fill, FillPartly, Index, RebuildFails
<1>2. rebuild \in [Rebuilds -> RebuildRecord]
  BY RecordsTyped DEF RebuildsTyped
<1>3. CASE RebuildBegins(b)
  <2>1. index' = index
    BY <1>3, Zenon DEF RebuildBegins
  <2>2. \A c \in Rebuilds : rebuild'[c] =
            IF c = b THEN [pc |-> "clear", at |-> First(Ahead(row, 0)), view |-> row,
                           edits |-> edits, alone |-> NobodyRebuilds]
            ELSE [rebuild[c] EXCEPT !.alone = FALSE]
    BY <1>3 DEF RebuildBegins
  <2>3. \A c \in Rebuilds : [rebuild[c] EXCEPT !.alone = FALSE].view = rebuild[c].view
    BY <1>2 DEF RebuildRecord
  <2>4. rebuild'[b].view = row
    <3>1. rebuild'[b] = [pc |-> "clear", at |-> First(Ahead(row, 0)), view |-> row,
                         edits |-> edits, alone |-> NobodyRebuilds]
      BY <2>2, Zenon
    <3>2. QED  BY <3>1
  <2>5. \A c \in Rebuilds \ {b} : rebuild'[c].view = rebuild[c].view
    BY <2>2, <2>3, Zenon
  <2>6. QED  BY <1>1, <2>1, <2>4, <2>5
<1>4. CASE Recreate(b)
  <2>1. index' \subseteq index /\ rebuild' = [rebuild EXCEPT ![b].pc = "fill"]
    BY <1>4 DEF Recreate
  <2>2. \A c \in Rebuilds : rebuild'[c].view = rebuild[c].view
    BY <1>2, <2>1 DEF RebuildRecord
  <2>3. QED  BY <1>1, <2>1, <2>2
<1>5. ASSUME NEW docs \in SUBSET Indexable(rebuild[b].view, KindAt(b)), NEW alone \in BOOLEAN,
             Index(b, docs, alone)
      PROVE  /\ \A c \in Rebuilds : rebuild'[c].view \in {rebuild[c].view, row, NoRebuild.view}
             /\ \A e \in index' \ index : \E k : e \in Indexable(rebuild[b].view, k)
  <2>1. docs \in SUBSET Items
    BY IndexableItems
  <2>2. index' = index \cup docs
    BY <1>5, <2>1, IndexSteps
  <2>3. \A n : NextKind(b, n, alone).view = rebuild[b].view
    BY <1>2 DEF NextKind, RebuildRecord
  <2>4. \/ rebuild' = [rebuild EXCEPT ![b] = NoRebuild]
        \/ \E n : rebuild' = [rebuild EXCEPT ![b] = NextKind(b, n, alone)]
    <3>1. \/ rebuild' = [rebuild EXCEPT ![b] = NoRebuild]
          \/ rebuild' = [rebuild EXCEPT ![b] = NextKind(b, First(KindsAhead(b)), alone)]
      BY <1>5, <2>1, IndexSteps
    <3>2. QED  BY <3>1, Zenon
  <2>5. \A c \in Rebuilds : rebuild'[c].view \in {rebuild[c].view, NoRebuild.view}
    BY <1>2, <2>3, <2>4
  <2>6. QED  BY <2>2, <2>5
<1>6. CASE Fill(b)
  <2>1. Index(b, Indexable(rebuild[b].view, KindAt(b)), rebuild[b].alone)
    BY <1>6, Zenon DEF Fill
  <2>2. rebuild[b].alone \in BOOLEAN
    BY RebuildFields
  <2>3. QED  BY <1>1, <1>5, <2>1, <2>2
<1>7. CASE FillPartly(b)
  BY <1>1, <1>5, <1>7, Zenon DEF FillPartly
<1>8. CASE RebuildFails(b)
  <2>1. index' = index /\ rebuild' = [rebuild EXCEPT ![b] = NoRebuild]
    BY <1>8, Zenon DEF RebuildFails
  <2>2. \A c \in Rebuilds : rebuild'[c].view \in {rebuild[c].view, NoRebuild.view}
    BY <1>2, <2>1
  <2>3. QED  BY <1>1, <2>1, <2>2
<1>9. QED  BY <1>3, <1>4, <1>6, <1>7, <1>8, Zenon DEF Reindex

LEMMA IndexedExamplesAreOn ==
  ASSUME NEW r, NEW k, NEW e \in OfKind("example"), e \in Indexable(r, k)
  PROVE  r[e].on
BY Zenon DEF Indexable, On

\* What each step of a question makes of its record.
LEMMA QuestionSteps ==
  ASSUME TypeOK, NEW a \in Asks, Question(a)
  PROVE  /\ UNCHANGED <<registryVars, indexVars>>
         /\ \A c \in Asks \ {a} : ask'[c] = ask[c] /\ since'[c] = since[c]
         /\ \/ /\ ask'[a].pc = "refresh" /\ ask'[a].view = row /\ ask'[a].examples = {}
               /\ ask'[a].white = Whitelist(row) /\ ask'[a].ran = {}
               /\ ask'[a].late = \E b \in Asks \ {a} : At(b, "refresh")
               /\ since'[a] = Whitelist(row) /\ allowed' = allowed
            \/ /\ ask[a].pc = "refresh" /\ ask'[a].pc = "recall"
               /\ ask'[a].view = ask[a].view /\ ask'[a].examples = ask[a].examples
               /\ ask'[a].ran = ask[a].ran /\ ask'[a].late = ask[a].late
               /\ since'[a] = since[a] /\ allowed' = ask[a].white
            \/ /\ ask[a].pc = "recall" /\ ask'[a].pc = "sql"
               /\ ask'[a].view = ask[a].view /\ ask'[a].ran = ask[a].ran
               /\ ask'[a].late = ask[a].late
               /\ \E hits \in Hits(ask[a].view, "example") :
                     ask'[a].examples = {e \in hits : Visible(ask[a].view, e)}
               /\ since'[a] = since[a] /\ allowed' = allowed
            \/ /\ ask[a].pc = "sql" /\ ask'[a].pc = "ran" /\ ask'[a].view = NoAsk.view
               /\ ask'[a].examples = {} /\ ask'[a].ran \subseteq allowed
               /\ ask'[a].late = ask[a].late
               /\ since'[a] = since[a] /\ allowed' = allowed
            \/ ask'[a] = NoAsk /\ allowed' = allowed
<1>1. ask \in [Asks -> AskRecord] /\ since \in [Asks -> SUBSET Items]
  BY RecordsTyped DEF AsksTyped
<1>2. ask[a] \in AskRecord /\ NoAsk \in AskRecord /\ NoAsk.examples = {} /\ NoAsk.ran = {}
  BY <1>1, IdleRecords
<1>3. UNCHANGED <<registryVars, indexVars>>
  BY Zenon DEF Question, Begin, Refresh, Recall, RunSql, EndAsk
<1>4. CASE Begin(a)
  <2> DEFINE late == \E b \in Asks \ {a} : At(b, "refresh")
  <2>1. /\ ask' = [ask EXCEPT ![a] = [NoAsk EXCEPT !.pc = "refresh", !.view = row,
                               !.white = Whitelist(row), !.late = late]]
        /\ since' = [since EXCEPT ![a] = Whitelist(row)] /\ allowed' = allowed
    BY <1>4, Zenon DEF Begin
  <2>2. (\A c \in Asks \ {a} : ask'[c] = ask[c] /\ since'[c] = since[c])
        /\ since'[a] = Whitelist(row)
    BY <1>1, <2>1
  <2> HIDE DEF late
  <2>3. /\ ask'[a].pc = "refresh" /\ ask'[a].view = row /\ ask'[a].examples = {}
        /\ ask'[a].white = Whitelist(row) /\ ask'[a].ran = {} /\ ask'[a].late = late
    BY <1>1, <1>2, <2>1 DEF AskRecord
  <2>4. QED  BY <1>3, <2>1, <2>2, <2>3 DEF late
<1>5. CASE Refresh(a)
  <2>1. /\ ask[a].pc = "refresh" /\ allowed' = ask[a].white /\ since' = since
        /\ ask' = [ask EXCEPT ![a].pc = "recall", ![a].white = {}]
    BY <1>5, Zenon DEF Refresh, At
  <2>2. \A c \in Asks \ {a} : ask'[c] = ask[c]
    BY <1>1, <2>1
  <2>3. /\ ask'[a].pc = "recall" /\ ask'[a].view = ask[a].view
        /\ ask'[a].examples = ask[a].examples /\ ask'[a].ran = ask[a].ran
        /\ ask'[a].late = ask[a].late
    BY <1>1, <1>2, <2>1 DEF AskRecord
  <2>4. QED  BY <1>3, <2>1, <2>2, <2>3
<1>6. CASE Recall(a)
  <2>1. PICK hits \in Hits(ask[a].view, "example") :
            ask' = [ask EXCEPT ![a].pc = "sql",
                               ![a].examples = {e \in hits : Visible(ask[a].view, e)}]
    BY <1>6, Zenon DEF Recall
  <2> DEFINE some == {e \in hits : Visible(ask[a].view, e)}
  <2>2. ask[a].pc = "recall" /\ allowed' = allowed /\ since' = since
    BY <1>6, Zenon DEF Recall, At
  <2>3. ask' = [ask EXCEPT ![a].pc = "sql", ![a].examples = some]
    BY <2>1
  <2> HIDE DEF some
  <2>4. \A c \in Asks \ {a} : ask'[c] = ask[c]
    BY <1>1, <2>3
  <2>5. /\ ask'[a].pc = "sql" /\ ask'[a].view = ask[a].view /\ ask'[a].examples = some
        /\ ask'[a].ran = ask[a].ran /\ ask'[a].late = ask[a].late
    BY <1>1, <1>2, <2>3 DEF AskRecord
  <2>6. QED  BY <1>3, <2>1, <2>2, <2>4, <2>5 DEF some
<1>7. CASE RunSql(a)
  <2>1. PICK tables \in SUBSET OfKind("table") :
            /\ tables \subseteq allowed
            /\ ask' = [ask EXCEPT ![a] = [NoAsk EXCEPT !.pc = "ran", !.ran = tables,
                                                       !.late = ask[a].late]]
    BY <1>7, Zenon DEF RunSql, Accepted
  <2>2. ask[a].pc = "sql" /\ allowed' = allowed /\ since' = since
    BY <1>7, Zenon DEF RunSql, At
  <2>3. \A c \in Asks \ {a} : ask'[c] = ask[c]
    BY <1>1, <2>1
  <2>4. /\ ask'[a].pc = "ran" /\ ask'[a].view = NoAsk.view /\ ask'[a].examples = {}
        /\ ask'[a].ran = tables /\ ask'[a].late = ask[a].late
    BY <1>1, <1>2, <2>1 DEF AskRecord
  <2>5. QED  BY <1>3, <2>1, <2>2, <2>3, <2>4
<1>8. CASE EndAsk(a)
  <2>1. /\ ask' = [ask EXCEPT ![a] = NoAsk] /\ allowed' = allowed
        /\ since' = [since EXCEPT ![a] = {}]
    BY <1>8, Zenon DEF EndAsk
  <2>2. /\ \A c \in Asks \ {a} : ask'[c] = ask[c] /\ since'[c] = since[c]
        /\ ask'[a] = NoAsk
    BY <1>1, <2>1
  <2>3. QED  BY <1>3, <2>1, <2>2
<1>9. QED  BY <1>4, <1>5, <1>6, <1>7, <1>8, Zenon DEF Question

\* No step takes a review back, so every copy agrees on what is reviewed.
LEMMA ReviewsPreserved ==
  ASSUME TypeOK, Targets, ExamplesStayReviewed, Selected, [Next]_vars
  PROVE  ExamplesStayReviewed' /\ Selected'
<1>1. CASE UNCHANGED vars
  BY <1>1 DEF ExamplesStayReviewed, Selected, vars, registryVars, indexVars, askVars
<1>2. CASE RegistryStep
  <2>1. UNCHANGED <<indexVars, askVars>>
    BY <1>2, RegistrySteps
  <2>2. \A e \in OfKind("example") :
            (row'[e].is = "none" => ~row'[e].on) /\ (row[e].on => row'[e].on)
    <3>1. row' = row \/ KeepsReviews(row')
      BY <1>2, RegistrySteps
    <3>2. QED  BY <3>1, Zenon DEF ExamplesStayReviewed, KeepsReviews
  <2>3. index' = index /\ rebuild' = rebuild /\ ask' = ask
    BY <2>1 DEF indexVars, askVars
  <2>4. ExamplesStayReviewed'
    BY <2>2, <2>3, Zenon DEF ExamplesStayReviewed
  <2>5. Selected'
    BY <2>2, <2>3, Zenon DEF Selected
  <2>6. QED  BY <2>4, <2>5
<1>3. ASSUME NEW b \in Rebuilds, Reindex(b)
      PROVE  ExamplesStayReviewed' /\ Selected'
  <2>1. /\ row' = row /\ ask' = ask
        /\ \A c \in Rebuilds : rebuild'[c].view \in {rebuild[c].view, row, NoRebuild.view}
        /\ \A e \in index' \ index : \E k : e \in Indexable(rebuild[b].view, k)
    BY <1>3, ReindexFrame DEF registryVars, askVars
  <2>2. \A e \in OfKind("example") : e \in index' => row[e].on
    BY <2>1, IndexedExamplesAreOn DEF ExamplesStayReviewed
  <2>3. \A e \in OfKind("example") : ~NoRebuild.view[e].on
    BY IdleRecords DEF OfKind
  <2>4. \A e \in OfKind("example") : \A c \in Rebuilds : rebuild'[c].view[e].on => row[e].on
    BY <2>1, <2>3 DEF ExamplesStayReviewed
  <2>5. QED  BY <2>1, <2>2, <2>4, Zenon DEF ExamplesStayReviewed, Selected
<1>4. ASSUME NEW a \in Asks, Question(a)
      PROVE  ExamplesStayReviewed' /\ Selected'
  <2>1. /\ row' = row /\ index' = index /\ rebuild' = rebuild
        /\ \A c \in Asks \ {a} : ask'[c] = ask[c]
    BY <1>4, QuestionSteps DEF registryVars, indexVars
  <2>2. ask'[a].view \in {row, ask[a].view, NoAsk.view}
    BY <1>4, QuestionSteps
  <2>3. \A e \in OfKind("example") : ~NoAsk.view[e].on
    BY IdleRecords DEF OfKind
  <2>4. \A e \in OfKind("example") : \A c \in Asks : ask'[c].view[e].on => row[e].on
    BY <2>1, <2>2, <2>3 DEF ExamplesStayReviewed
  <2>5. ExamplesStayReviewed'
    BY <2>1, <2>4, Zenon DEF ExamplesStayReviewed
  <2>6. ASSUME NEW e \in ask'[a].examples
        PROVE  e \in OfKind("example") /\ row[e].on /\ Visible(ask'[a].view, e)
    <3>1. CASE ask'[a].examples = {}
      BY <2>6, <3>1
    <3>2. CASE ask'[a].examples = ask[a].examples /\ ask'[a].view = ask[a].view
      BY <2>6, <3>2, Zenon DEF Selected
    <3>3. CASE \E hits \in Hits(ask[a].view, "example") :
                  /\ ask'[a].examples = {x \in hits : Visible(ask[a].view, x)}
                  /\ ask'[a].view = ask[a].view
      <4>1. PICK hits \in Hits(ask[a].view, "example") :
                  /\ ask'[a].examples = {x \in hits : Visible(ask[a].view, x)}
                  /\ ask'[a].view = ask[a].view
        BY <3>3
      <4>2. e \in hits /\ Visible(ask'[a].view, e)
        BY <2>6, <4>1
      <4>3. CASE hits \in FromIndex("example")
        BY <4>2, <4>3 DEF FromIndex, ExamplesStayReviewed
      <4>4. CASE hits \in ByKeywords(ask[a].view, "example")
        <5>1. e \in Indexable(ask[a].view, "example")
          BY <4>2, <4>4 DEF ByKeywords
        <5>2. e \in OfKind("example")
          BY <5>1, IndexableAreOfKind
        <5>3. ask[a].view[e].on
          BY <5>1, <5>2, IndexedExamplesAreOn
        <5>4. QED  BY <4>2, <5>2, <5>3 DEF ExamplesStayReviewed
      <4>5. QED  BY <4>1, <4>3, <4>4 DEF Hits
    <3>4. CASE ask'[a] = NoAsk
      BY <3>1, <3>4, IdleRecords
    <3>5. QED  BY <1>4, <3>1, <3>2, <3>3, <3>4, QuestionSteps, Zenon
  <2>7. Selected'
    BY <2>1, <2>6, Zenon DEF Selected
  <2>8. QED  BY <2>5, <2>7
<1>5. QED  BY <1>1, <1>2, <1>3, <1>4, Zenon DEF Next, RegistryStep

LEMMA WhitelistsPreserved ==
  ASSUME TypeOK, Targets, ExamplesStayReviewed, WhitelistsAreRecent, [Next]_vars
  PROVE  WhitelistsAreRecent'
<1>1. CASE UNCHANGED vars
  BY <1>1 DEF WhitelistsAreRecent, vars, registryVars, indexVars, askVars
<1>2. CASE RegistryStep
  <2>1. ask' = ask /\ allowed' = allowed
    BY <1>2, RegistrySteps DEF askVars
  <2>2. CASE UNCHANGED <<row, since>>
    BY <2>1, <2>2 DEF WhitelistsAreRecent
  <2>3. CASE Commit(row')
    <3>1. since' = [a \in Asks |-> IF ask[a].pc = "idle" THEN {}
                                   ELSE since[a] \cup Whitelist(row')]
      BY <2>3, Zenon DEF Commit
    <3>2. \A a \in Asks : ask[a].pc # "idle" => since'[a] = since[a] \cup Whitelist(row')
      BY <3>1
    <3>3. QED  BY <2>1, <3>2 DEF WhitelistsAreRecent
  <2>4. QED  BY <1>2, <2>2, <2>3, RegistrySteps
<1>3. ASSUME NEW b \in Rebuilds, Reindex(b) PROVE WhitelistsAreRecent'
  <2>1. row' = row /\ ask' = ask /\ allowed' = allowed /\ since' = since
    BY <1>3, ReindexFrame DEF registryVars, askVars
  <2>2. QED  BY <2>1, Zenon DEF WhitelistsAreRecent
<1>4. ASSUME NEW a \in Asks, Question(a) PROVE WhitelistsAreRecent'
  <2>1. /\ row' = row
        /\ \A c \in Asks \ {a} : ask'[c] = ask[c] /\ since'[c] = since[c]
    BY <1>4, QuestionSteps DEF registryVars
  <2>2. CASE /\ ask'[a].pc = "refresh" /\ ask'[a].white = Whitelist(row) /\ ask'[a].ran = {}
             /\ ask'[a].late = \E b \in Asks \ {a} : At(b, "refresh")
             /\ since'[a] = Whitelist(row) /\ allowed' = allowed
    <3>1. ~ask'[a].late => \A b \in Asks \ {a} : ask'[b].pc # "refresh"
      BY <2>1, <2>2 DEF At
    <3>2. QED  BY <2>1, <2>2, <3>1 DEF WhitelistsAreRecent
  <2>3. CASE /\ ask[a].pc = "refresh" /\ ask'[a].pc = "recall"
             /\ ask'[a].ran = ask[a].ran /\ ask'[a].late = ask[a].late
             /\ since'[a] = since[a] /\ allowed' = ask[a].white
    BY <2>1, <2>3 DEF WhitelistsAreRecent
  <2>4. CASE /\ ask[a].pc = "recall" /\ ask'[a].pc = "sql"
             /\ ask'[a].ran = ask[a].ran /\ ask'[a].late = ask[a].late
             /\ since'[a] = since[a] /\ allowed' = allowed
    BY <2>1, <2>4 DEF WhitelistsAreRecent
  <2>5. CASE /\ ask[a].pc = "sql" /\ ask'[a].pc = "ran" /\ ask'[a].ran \subseteq allowed
             /\ ask'[a].late = ask[a].late
             /\ since'[a] = since[a] /\ allowed' = allowed
    BY <2>1, <2>5 DEF WhitelistsAreRecent
  <2>6. CASE ask'[a] = NoAsk /\ allowed' = allowed
    BY <2>1, <2>6, IdleRecords DEF WhitelistsAreRecent
  <2>7. QED  BY <1>4, <2>2, <2>3, <2>4, <2>5, <2>6, QuestionSteps, Zenon
<1>5. QED  BY <1>1, <1>2, <1>3, <1>4, Zenon DEF Next, RegistryStep

-----------------------------------------------------------------------------
(* The index                                                               *)

\* A kind stays rebuilt while its part of the index does.
LEMMA RebuiltStays ==
  ASSUME NEW r, NEW k, Rebuilt(r, k), index' \cap OfKind(k) = index \cap OfKind(k)
  PROVE  (k = "value" \/ Indexable(r, k) # {}) => index' \cap OfKind(k) = Indexable(r, k)
BY Zenon DEF Rebuilt

\* Once a kind is filled, it and those before it are rebuilt.
LEMMA FilledKinds ==
  ASSUME TypeOK, LoneRebuild, NEW b \in Rebuilds,
         rebuild[b].pc = "fill", rebuild[b].alone,
         index' = index \cup Indexable(rebuild[b].view, KindAt(b)),
         NEW n \in 1..5, n <= rebuild[b].at \/ n \notin KindsAhead(b)
  PROVE  LET k == Order[n]
             v == rebuild[b].view
         IN  (k = "value" \/ Indexable(v, k) # {}) => index' \cap OfKind(k) = Indexable(v, k)
<1> DEFINE v == rebuild[b].view
           at == rebuild[b].at
<1>1. at \in 1..5 /\ Len(Order) = 5
  BY RebuildFields, TheOrder
<1>2. Indexable(v, KindAt(b)) \subseteq OfKind(KindAt(b))
  BY IndexableAreOfKind
<1>3. index \cap OfKind(KindAt(b)) = {}
  BY DEF LoneRebuild
<1>4. CASE n = at
  <2>1. index' \cap OfKind(KindAt(b)) = Indexable(v, KindAt(b))
    BY <1>2, <1>3
  <2>2. QED  BY <1>4, <2>1 DEF KindAt
<1>5. CASE n < at
  <2>1. Rebuilt(v, Order[n])
    BY <1>1, <1>5 DEF LoneRebuild
  <2>2. Order[n] # KindAt(b)
    BY <1>1, <1>5, TheOrder DEF KindAt
  <2>3. OfKind(Order[n]) \cap OfKind(KindAt(b)) = {}
    BY <2>2, KindsAreApart
  <2>4. index' \cap OfKind(Order[n]) = index \cap OfKind(Order[n])
    BY <1>2, <2>3
  <2>5. QED  BY <2>1, <2>4, RebuiltStays
<1>6. CASE n > at
  <2>1. n \in at + 1..5 /\ n \notin Ahead(v, at) /\ at \in 0..5
    BY <1>1, <1>6 DEF KindsAhead
  <2>2. ~(Order[n] = "value" \/ Indexable(v, Order[n]) # {})
    BY <2>1, AheadInOrder
  <2>3. QED  BY <2>2
<1>7. QED  BY <1>1, <1>4, <1>5, <1>6

\* Neither the registry nor a question changes what a rebuild has done.
LEMMA IndexKeptByOthers ==
  ASSUME TypeOK, SnapshotsAreCounted, LoneRebuild, FreshIsQuiet,
         UNCHANGED indexVars, edits' \in {edits, edits + 1}, edits' = edits => row' = row
  PROVE  SnapshotsAreCounted' /\ LoneRebuild' /\ FreshIsQuiet'
<1>1. index' = index /\ rebuild' = rebuild /\ fresh' = fresh
  BY DEF indexVars
<1>2. edits \in Nat /\ \A b \in Rebuilds : rebuild[b].edits \in Nat
  BY RecordsTyped, RebuildFields, MetaIndexAssumption
<1>3. SnapshotsAreCounted'
  <2>1. ASSUME NEW b \in Rebuilds PROVE rebuild[b].edits <= edits'
    BY <1>2 DEF SnapshotsAreCounted
  <2>2. ASSUME NEW b \in Rebuilds, rebuild[b].pc # "idle", rebuild[b].edits = edits'
        PROVE  rebuild[b].view = row'
    <3>1. rebuild[b].edits <= edits
      BY DEF SnapshotsAreCounted
    <3>2. edits' = edits
      BY <1>2, <2>2, <3>1
    <3>3. QED  BY <2>2, <3>2 DEF SnapshotsAreCounted
  <2>3. QED  BY <1>1, <2>1, <2>2 DEF SnapshotsAreCounted
<1>4. LoneRebuild'
  BY <1>1, Zenon DEF LoneRebuild, Rebuilt, KindAt
<1>5. FreshIsQuiet'
  <2>1. SUFFICES ASSUME fresh # -1
                 PROVE  /\ NobodyRebuilds /\ fresh <= edits'
                        /\ fresh = edits' => \A k \in Kinds : Rebuilt(row', k)
    BY <1>1, <2>1, Zenon DEF FreshIsQuiet, NobodyRebuilds, Rebuilt
  <2>2. NobodyRebuilds /\ fresh <= edits /\ fresh \in -1..MaxEdits /\ MaxEdits \in Nat
    BY <2>1, RecordsTyped, MetaIndexAssumption DEF FreshIsQuiet
  <2>3. fresh <= edits' /\ (fresh = edits' => edits' = edits)
    BY <1>2, <2>2
  <2>4. QED  BY <2>1, <2>2, <2>3 DEF FreshIsQuiet
<1>6. QED  BY <1>3, <1>4, <1>5

\* A rebuild that is at work: nobody else is alone, and nothing is fresh.
LEMMA AtWork ==
  ASSUME TypeOK, LoneRebuild, FreshIsQuiet, NEW b \in Rebuilds, rebuild[b].pc # "idle"
  PROVE  /\ fresh = -1
         /\ \A c \in Rebuilds \ {b} : ~(rebuild[c].pc # "idle" /\ rebuild[c].alone)
BY DEF FreshIsQuiet, NobodyRebuilds, LoneRebuild

LEMMA ReindexKeepsCount ==
  ASSUME TypeOK, SnapshotsAreCounted, NEW b \in Rebuilds, NEW v \in RebuildRecord,
         row' = row, edits' = edits, rebuild' = [rebuild EXCEPT ![b] = v],
         v.edits <= edits, v.pc # "idle" /\ v.edits = edits => v.view = row
  PROVE  SnapshotsAreCounted'
<1>1. rebuild'[b] = v /\ \A c \in Rebuilds \ {b} : rebuild'[c] = rebuild[c]
  BY RebuildPut
<1>2. QED  BY <1>1 DEF SnapshotsAreCounted

LEMMA IndexPreserved ==
  ASSUME TypeOK, SnapshotsAreCounted, LoneRebuild, FreshIsQuiet,
         NEW b \in Rebuilds, Reindex(b)
  PROVE  SnapshotsAreCounted' /\ LoneRebuild' /\ FreshIsQuiet'
<1>1. row' = row /\ edits' = edits
  BY ReindexFrame DEF registryVars
<1>2. edits \in Nat /\ Len(Order) = 5 /\ rebuild[b] \in RebuildRecord
  BY RecordsTyped, MetaIndexAssumption, TheOrder, RebuildFields
<1>3. NoRebuild.edits <= edits /\ NoRebuild.pc = "idle" /\ NoRebuild \in RebuildRecord
  BY <1>2, IdleRecords
\* A rebuild that ends, or fails.
<1>4. ASSUME rebuild[b].pc # "idle", rebuild' = [rebuild EXCEPT ![b] = NoRebuild]
      PROVE  SnapshotsAreCounted' /\ LoneRebuild'
  <2>1. SnapshotsAreCounted'
    BY <1>1, <1>3, <1>4, ReindexKeepsCount
  <2>2. rebuild'[b] = NoRebuild /\ \A c \in Rebuilds \ {b} : rebuild'[c] = rebuild[c]
    BY <1>3, <1>4, RebuildPut
  <2>3. \A c \in Rebuilds : ~(rebuild'[c].pc # "idle" /\ rebuild'[c].alone)
    BY <1>3, <1>4, <2>2, AtWork
  <2>4. LoneRebuild'
    BY <2>3, Zenon DEF LoneRebuild
  <2>5. QED  BY <2>1, <2>4
<1>5. CASE RebuildBegins(b)
  <2> DEFINE v == [pc |-> "clear", at |-> First(Ahead(row, 0)), view |-> row,
                   edits |-> edits, alone |-> NobodyRebuilds]
  <2>1. fresh' = -1 /\ index' = index /\ rebuild[b].pc = "idle"
    BY <1>5, Zenon DEF RebuildBegins
  <2>2. rebuild'[b] = v /\ \A c \in Rebuilds \ {b} : rebuild'[c] = [rebuild[c] EXCEPT !.alone = FALSE]
    BY <1>5 DEF RebuildBegins
  <2>3. \A c \in Rebuilds \ {b} :
            /\ rebuild'[c].pc = rebuild[c].pc /\ rebuild'[c].view = rebuild[c].view
            /\ rebuild'[c].edits = rebuild[c].edits /\ rebuild'[c].alone = FALSE
    BY <2>2, RebuildFields DEF RebuildRecord
  <2>4. /\ rebuild'[b].pc = "clear" /\ rebuild'[b].at = First(Ahead(row, 0))
        /\ rebuild'[b].view = row /\ rebuild'[b].edits = edits
        /\ rebuild'[b].alone = NobodyRebuilds
    BY <2>2
  <2>5. SnapshotsAreCounted'
    BY <1>1, <1>2, <2>3, <2>4 DEF SnapshotsAreCounted
  <2>6. \A n \in 1..5 : n < First(Ahead(row, 0)) => Rebuilt(row, Order[n])'
    <3>1. \A n \in 0 + 1..5 : n < First(Ahead(row, 0)) =>
              ~(Order[n] = "value" \/ Indexable(row, Order[n]) # {})
      <4>1. Ahead(row, 0) # {} /\ 0 \in 0..5
        BY AheadInOrder
      <4>2. QED  BY <4>1, AheadInOrder
    <3>2. 0 + 1..5 = 1..5
      OBVIOUS
    <3>3. QED  BY <1>1, <3>1, <3>2, Zenon DEF Rebuilt
  <2>7. LoneRebuild'
    <3>1. NobodyRebuilds => \A c \in Rebuilds \ {b} : rebuild'[c].pc = "idle"
      BY <2>3 DEF NobodyRebuilds
    <3>2. QED  BY <1>1, <1>2, <2>3, <2>4, <2>6, <3>1 DEF LoneRebuild, Rebuilt
  <2>8. FreshIsQuiet'
    BY <2>1 DEF FreshIsQuiet
  <2>9. QED  BY <2>5, <2>7, <2>8
<1>6. CASE Recreate(b)
  <2> DEFINE v == [rebuild[b] EXCEPT !.pc = "fill"]
  <2>1. /\ rebuild[b].pc = "clear" /\ fresh' = fresh
        /\ index' = index \ OfKind(KindAt(b))
        /\ rebuild' = [rebuild EXCEPT ![b] = v]
    BY <1>6 DEF Recreate
  <2>2. /\ v \in RebuildRecord /\ v.pc = "fill" /\ v.at = rebuild[b].at
        /\ v.view = rebuild[b].view /\ v.edits = rebuild[b].edits
        /\ v.alone = rebuild[b].alone
    BY <1>2, RebuildRecords DEF RebuildRecord
  <2> HIDE DEF v
  <2>3. rebuild'[b] = v /\ \A c \in Rebuilds \ {b} : rebuild'[c] = rebuild[c]
    BY <2>1, <2>2, RebuildPut
  <2>4. SnapshotsAreCounted'
    BY <1>1, <2>1, <2>2, ReindexKeepsCount DEF SnapshotsAreCounted
  <2>5. FreshIsQuiet'
    BY <2>1, AtWork DEF FreshIsQuiet
  <2>6. \A c \in Rebuilds \ {b} : ~(rebuild'[c].pc # "idle" /\ rebuild'[c].alone)
    BY <2>1, <2>3, AtWork
  <2>7. ASSUME rebuild[b].alone, NEW n \in 1..5, n < rebuild[b].at
        PROVE  Rebuilt(rebuild[b].view, Order[n])' 
    <3>1. Rebuilt(rebuild[b].view, Order[n])
      BY <1>2, <2>1, <2>7 DEF LoneRebuild
    <3>2. Order[n] # KindAt(b)
      BY <1>2, <2>7, TheOrder, RebuildFields DEF KindAt
    <3>3. index' \cap OfKind(Order[n]) = index \cap OfKind(Order[n])
      BY <2>1, <3>2, KindsAreApart
    <3>4. rebuild'[b].view = rebuild[b].view
      BY <2>2, <2>3
    <3>5. QED  BY <3>1, <3>3, <3>4, RebuiltStays DEF Rebuilt
  <2>8. index' \cap OfKind(KindAt(b)) = {} /\ KindAt(b)' = KindAt(b)
    BY <2>1, <2>2, <2>3 DEF KindAt
  <2>9. rebuild[b].alone => \A c \in Rebuilds \ {b} : rebuild'[c].pc = "idle"
    BY <2>1, <2>3 DEF LoneRebuild
  <2>10. LoneRebuild'
    BY <1>2, <2>2, <2>3, <2>6, <2>7, <2>8, <2>9, Zenon DEF LoneRebuild
  <2>11. QED  BY <2>4, <2>5, <2>10
<1>7. ASSUME NEW docs \in SUBSET Items, NEW alone \in BOOLEAN, Index(b, docs, alone),
             alone => rebuild[b].alone /\ docs = Indexable(rebuild[b].view, KindAt(b))
      PROVE  SnapshotsAreCounted' /\ LoneRebuild' /\ FreshIsQuiet'
  <2>1. rebuild[b].pc = "fill" /\ index' = index \cup docs
    BY <1>7, IndexSteps, ZenonT(60)
  <2>2. ASSUME alone, NEW n \in 1..5, n <= rebuild[b].at \/ n \notin KindsAhead(b),
               NEW r, r = rebuild[b].view
        PROVE  (Order[n] = "value" \/ Indexable(r, Order[n]) # {}) =>
                    index' \cap OfKind(Order[n]) = Indexable(r, Order[n])
    BY <1>7, <2>1, <2>2, FilledKinds
  <2>3. CASE /\ KindsAhead(b) = {} /\ rebuild' = [rebuild EXCEPT ![b] = NoRebuild]
             /\ alone => fresh' = rebuild[b].edits
             /\ ~alone => fresh' = fresh
    <3>1. SnapshotsAreCounted' /\ LoneRebuild'
      BY <1>4, <2>1, <2>3
    <3>2. CASE ~alone
      <4>1. fresh' = fresh
        BY <2>3, <3>2, Zenon
      <4>2. fresh = -1
        BY <2>1, AtWork
      <4>3. QED  BY <3>1, <4>1, <4>2 DEF FreshIsQuiet
    <3>3. CASE alone
      <4>1. \A c \in Rebuilds : rebuild'[c].pc = "idle"
        <5>1. rebuild'[b] = NoRebuild /\ \A c \in Rebuilds \ {b} : rebuild'[c] = rebuild[c]
          BY <1>3, <2>3, RebuildPut
        <5>2. QED  BY <1>3, <1>7, <2>1, <3>3, <5>1 DEF LoneRebuild
      <4>2. fresh' = rebuild[b].edits /\ rebuild[b].edits <= edits
        BY <2>3, <3>3 DEF SnapshotsAreCounted
      <4>3. fresh' = edits => row = rebuild[b].view
        BY <2>1, <4>2 DEF SnapshotsAreCounted
      <4>4. ASSUME fresh' = edits, NEW k \in Kinds PROVE Rebuilt(row, k)'
        <5>1. PICK n \in 1..5 : Order[n] = k
          BY <1>2, TheOrder
        <5>2. (k = "value" \/ Indexable(row, k) # {}) => index' \cap OfKind(k) = Indexable(row, k)
          BY <2>2, <2>3, <3>3, <4>3, <4>4, <5>1
        <5>3. QED  BY <1>1, <5>2, Zenon DEF Rebuilt
      <4>5. fresh' <= edits'
        BY <1>1, <4>2
      <4>6. QED  BY <1>1, <3>1, <4>1, <4>4, <4>5, Zenon DEF FreshIsQuiet, NobodyRebuilds
    <3>4. QED  BY <3>1, <3>2, <3>3
  <2>4. CASE /\ KindsAhead(b) # {} /\ fresh' = fresh
             /\ First(KindsAhead(b)) \in rebuild[b].at + 1..5
             /\ rebuild' = [rebuild EXCEPT ![b] = NextKind(b, First(KindsAhead(b)), alone)]
    <3> DEFINE m == First(KindsAhead(b))
               v == NextKind(b, m, alone)
    <3>1. m \in 1..5
      BY <2>4, RebuildFields
    <3> HIDE DEF m
    <3>2. v \in RebuildRecord
      BY <3>1, RebuildRecords
    <3>3. /\ v.pc = "clear" /\ v.at = m /\ v.alone = alone
          /\ v.view = rebuild[b].view /\ v.edits = rebuild[b].edits
      BY <1>2 DEF NextKind, RebuildRecord
    <3>4. rebuild' = [rebuild EXCEPT ![b] = v]
      BY <2>4 DEF m
    <3> HIDE DEF v
    <3>5. rebuild'[b] = v /\ \A c \in Rebuilds \ {b} : rebuild'[c] = rebuild[c]
      BY <3>2, <3>4, RebuildPut
    <3>6. SnapshotsAreCounted'
      BY <1>1, <2>1, <3>2, <3>3, <3>4, ReindexKeepsCount DEF SnapshotsAreCounted
    <3>7. FreshIsQuiet'
      BY <2>1, <2>4, AtWork DEF FreshIsQuiet
    <3>8. \A c \in Rebuilds \ {b} : ~(rebuild'[c].pc # "idle" /\ rebuild'[c].alone)
      BY <2>1, <3>5, AtWork
    <3>9. alone => \A c \in Rebuilds \ {b} : rebuild'[c].pc = "idle"
      BY <1>7, <2>1, <3>5 DEF LoneRebuild
    <3>10. ASSUME alone, NEW n \in 1..5, n < m
           PROVE  Rebuilt(rebuild[b].view, Order[n])'
      <4>1. rebuild[b].at \in 0..5 /\ rebuild[b].at \in Nat
        BY RebuildFields
      <4>2. n <= rebuild[b].at \/ n \in rebuild[b].at + 1..5
        BY <4>1
      <4>3. n \in rebuild[b].at + 1..5 => n \notin KindsAhead(b)
        BY <2>4, <3>10, <4>1, AheadInOrder DEF m, KindsAhead
      <4>4. rebuild'[b].view = rebuild[b].view
        BY <3>3, <3>5
      <4>5. QED  BY <2>2, <3>10, <4>2, <4>3, <4>4 DEF Rebuilt
    <3>11. LoneRebuild'
      BY <1>2, <3>3, <3>5, <3>8, <3>9, <3>10 DEF LoneRebuild
    <3>12. QED  BY <3>6, <3>7, <3>11
  <2>5. \/ /\ KindsAhead(b) = {} /\ rebuild' = [rebuild EXCEPT ![b] = NoRebuild]
           /\ alone => fresh' = rebuild[b].edits
           /\ ~alone => fresh' = fresh
        \/ /\ KindsAhead(b) # {} /\ fresh' = fresh
           /\ First(KindsAhead(b)) \in rebuild[b].at + 1..5
           /\ rebuild' = [rebuild EXCEPT ![b] = NextKind(b, First(KindsAhead(b)), alone)]
    BY <1>7, IndexSteps
  <2>6. QED  BY <2>3, <2>4, <2>5, Zenon
<1>8. CASE Fill(b)
  <2>1. Index(b, Indexable(rebuild[b].view, KindAt(b)), rebuild[b].alone)
    BY <1>8, Zenon DEF Fill
  <2>2. Indexable(rebuild[b].view, KindAt(b)) \in SUBSET Items /\ rebuild[b].alone \in BOOLEAN
    BY IndexableItems, RebuildFields
  <2>3. QED  BY <1>7, <2>1, <2>2
<1>9. CASE FillPartly(b)
  <2>1. PICK some \in SUBSET Indexable(rebuild[b].view, KindAt(b)) : Index(b, some, FALSE)
    BY <1>9, Zenon DEF FillPartly
  <2>2. some \in SUBSET Items
    BY IndexableItems
  <2>3. QED  BY <1>7, <2>1, <2>2
<1>10. CASE RebuildFails(b)
  <2>1. /\ rebuild[b].pc # "idle" /\ rebuild' = [rebuild EXCEPT ![b] = NoRebuild]
        /\ fresh' = fresh
    BY <1>10, Zenon DEF RebuildFails
  <2>2. FreshIsQuiet'
    BY <2>1, AtWork DEF FreshIsQuiet
  <2>3. QED  BY <1>4, <2>1, <2>2
<1>11. QED  BY <1>5, <1>6, <1>8, <1>9, <1>10, Zenon DEF Reindex

-----------------------------------------------------------------------------
(* Theorems                                                                *)

LEMMA IInvInit == Init => IInv
<1> SUFFICES ASSUME Init PROVE IInv
  OBVIOUS
<1>1. row \in Registry /\ \A i \in Items : row[i] \in {NewRow(TRUE, TRUE), NoRow}
  BY RowTypes DEF Init, Registry
<1>2. \A k \in Kinds : Indexable(row, k) \subseteq index
  BY Zenon DEF Init
<1>3. \A i \in index : \E k \in Kinds : i \in Indexable(row, k)
  BY Zenon DEF Init
<1>4. \A b \in Rebuilds : rebuild[b] = NoRebuild
  BY DEF Init
<1>5. \A a \in Asks : ask[a] = NoAsk
  BY DEF Init
<1>6. TypeOK
  <2>1. /\ rebuild \in [Rebuilds -> RebuildRecord] /\ ask \in [Asks -> AskRecord]
        /\ upd \in [Admins -> UpdateRecord]
    BY IdleRecords, IdleUpdate DEF Init
  <2>2. index \subseteq Items
    BY <1>3, IndexableItems
  <2>3. allowed \subseteq Items /\ biz \subseteq Items /\ since \in [Asks -> SUBSET Items]
    BY WhitelistItems DEF Init, OfKind
  <2>4. edits \in 0..MaxEdits /\ rebuilds \in 0..MaxRebuilds /\ fresh \in -1..MaxEdits
    BY MetaIndexAssumption DEF Init
  <2>5. QED
    BY <1>1, <2>1, <2>2, <2>3, <2>4, Zenon
       DEF TypeOK, RebuildRecord, AskRecord, UpdateRecord
<1>7. Targets
  BY DEF Init, Targets, NoUpdate
<1>8. ExamplesStayReviewed
  <2>1. ASSUME NEW e \in OfKind("example"), e \in index PROVE row[e].on
    BY <1>3, <2>1, IndexedExamplesAreOn
  <2>2. ASSUME NEW e \in OfKind("example"), row[e].is = "none" PROVE ~row[e].on
    BY <1>1, <2>2 DEF NewRow, NoRow, OfKind
  <2>3. QED  BY <1>4, <1>5, <2>1, <2>2, IdleRecords DEF ExamplesStayReviewed, OfKind
<1>9. Selected /\ WhitelistsAreRecent
  BY <1>5, IdleRecords DEF Selected, WhitelistsAreRecent
<1>10. SnapshotsAreCounted
  BY <1>4, IdleRecords DEF Init, SnapshotsAreCounted
<1>11. LoneRebuild
  BY <1>4, IdleRecords DEF LoneRebuild
<1>12. FreshIsQuiet
  <2>1. ASSUME NEW k \in Kinds PROVE index \cap OfKind(k) = Indexable(row, k)
    <3>1. \A l \in Kinds : Indexable(row, l) \subseteq OfKind(l)
      BY IndexableAreOfKind
    <3>2. \A l \in Kinds \ {k} : OfKind(l) \cap OfKind(k) = {}
      BY KindsAreApart
    <3>3. QED  BY <1>2, <1>3, <3>1, <3>2
  <2>2. fresh = 0 /\ edits = 0 /\ NobodyRebuilds
    BY <1>4, IdleRecords DEF Init, NobodyRebuilds
  <2>3. QED  BY <2>1, <2>2 DEF FreshIsQuiet, Rebuilt
<1>13. QED
  BY <1>6, <1>7, <1>8, <1>9, <1>10, <1>11, <1>12, Zenon DEF IInv

LEMMA IInvNext == IInv /\ [Next]_vars => IInv'
<1> SUFFICES ASSUME IInv, [Next]_vars PROVE IInv'
  OBVIOUS
<1> USE DEF IInv
<1>1. TypeOK' /\ ExamplesStayReviewed' /\ Selected' /\ WhitelistsAreRecent'
  BY TypePreserved, ReviewsPreserved, WhitelistsPreserved
<1>2. CASE UNCHANGED vars
  <2>1. UNCHANGED indexVars /\ edits' = edits /\ row' = row /\ upd' = upd
    BY <1>2 DEF vars, indexVars, registryVars
  <2>2. edits' \in {edits, edits + 1}
    BY <2>1
  <2>3. QED  BY <1>1, <2>1, <2>2, IndexKeptByOthers DEF Targets
<1>3. CASE RegistryStep
  <2>1. /\ UNCHANGED indexVars /\ edits' \in {edits, edits + 1}
        /\ UNCHANGED <<row, since>> \/ Commit(row')
    BY <1>3, RegistrySteps
  <2>2. edits' = edits => row' = row
    <3>1. edits \in Nat
      BY RecordsTyped, MetaIndexAssumption
    <3>2. Commit(row') => edits' = edits + 1
      BY Zenon DEF Commit
    <3>3. QED  BY <2>1, <3>1, <3>2
  <2>3. Targets'
    BY <1>3, UpdatesPreserved
  <2>4. QED  BY <1>1, <2>1, <2>2, <2>3, IndexKeptByOthers
<1>4. ASSUME NEW b \in Rebuilds, Reindex(b) PROVE IInv'
  <2>1. Targets'
    BY <1>4, ReindexFrame DEF registryVars, Targets
  <2>2. QED  BY <1>1, <1>4, <2>1, IndexPreserved
<1>5. ASSUME NEW a \in Asks, Question(a) PROVE IInv'
  <2>1. UNCHANGED indexVars /\ edits' = edits /\ row' = row /\ upd' = upd
    BY <1>5, QuestionSteps DEF registryVars
  <2>2. edits' \in {edits, edits + 1}
    BY <2>1
  <2>3. QED  BY <1>1, <2>1, <2>2, IndexKeptByOthers DEF Targets
<1>6. QED  BY <1>2, <1>3, <1>4, <1>5, Zenon DEF Next, RegistryStep

THEOREM Inductive == Spec => []IInv
BY IInvInit, IInvNext, PTL DEF Spec

\* Every variable keeps its type: rows, requests in two steps, rebuilds and
\* questions, in any registry.
THEOREM TypeCorrect == Spec => []TypeOK
<1>1. IInv => TypeOK
  BY DEF IInv
<1>2. QED  BY <1>1, Inductive, PTL

\* refresh_allowed_tables and validate_sql: however many questions put their
\* whitelist into the process-wide one, a question queries tables the registry
\* allowed since it began, unless another was about to assign its own then.
THEOREM WhitelistHolds == Spec => []QueriesAllowedTables
<1>1. IInv => QueriesAllowedTables
  BY DEF IInv, WhitelistsAreRecent, QueriesAllowedTables
<1>2. QED  BY <1>1, Inductive, PTL

\* recall_sql_examples: what the prompt shows was reviewed and is published in
\* the snapshot of the question, however old the index is.
THEOREM PromptShowsPublished == Spec => []SelectedIsPublished
<1>1. IInv => SelectedIsPublished
  BY DEF IInv, Selected, Visible, SelectedIsPublished
<1>2. QED  BY <1>1, Inductive, PTL

\* rebuild_all: the index of an undisturbed rebuild is the registry, kind by
\* kind, as long as the registry does not change.
THEOREM RebuildIsFaithful == Spec => []FreshIndexIsRegistry
<1>1. IInv => FreshIndexIsRegistry
  <2>1. SUFFICES ASSUME IInv, fresh = edits, NEW k \in Kinds
                 PROVE  (k = "value" \/ Indexable(row, k) # {}) =>
                            index \cap OfKind(k) = Indexable(row, k)
    BY <2>1, Zenon DEF FreshIndexIsRegistry
  <2>2. edits \in Nat
    BY <2>1, RecordsTyped, MetaIndexAssumption DEF IInv
  <2>3. Rebuilt(row, k)
    BY <2>1, <2>2 DEF IInv, FreshIsQuiet
  <2>4. QED  BY <2>3, Zenon DEF Rebuilt
<1>2. QED  BY <1>1, Inductive, PTL

=============================================================================
