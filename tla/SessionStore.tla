----------------------------- MODULE SessionStore -----------------------------
(***************************************************************************)
(* What copilot_ask_session promises of the conversations of users, one    *)
(* committed change at a time: a conversation comes, and takes the place   *)
(* of one of the same user when he has as many as he may; or one is        *)
(* deleted by its owner.  No request, reading or victim appears here;      *)
(* Sessions, where a creation counts first and writes later, is shown to   *)
(* implement this store.                                                   *)
(***************************************************************************)
EXTENDS Naturals, FiniteSets

CONSTANTS
    Users,
    Sids,
    MaxActive,  \* session_max_per_user
    Nobody

VARIABLES
    is,         \* "none", "live" or "gone", per conversation
    owner,
    extra       \* how many came without room for them, per user

store == <<is, owner, extra>>

StoreInit ==
    /\ is = [s \in Sids |-> "none"] /\ owner = [s \in Sids |-> Nobody]
    /\ extra = [u \in Users |-> 0]

Held(u) == {s \in Sids : is[s] = "live" /\ owner[s] = u}
AtLimit(u) == Cardinality(Held(u)) >= MaxActive

\* A conversation s of u comes, and those of "out" go.
Comes(u, s, out) ==
    /\ is[s] = "none"
    /\ is' = [t \in Sids |-> IF t = s THEN "live" ELSE IF t \in out THEN "gone" ELSE is[t]]
    /\ owner' = [owner EXCEPT ![s] = u]

\* Another one of the same user makes room for it if there is none.
Create(u, s) ==
    /\ IF AtLimit(u) THEN \E v \in Held(u) : Comes(u, s, {v}) ELSE Comes(u, s, {})
    /\ UNCHANGED extra

\* A client named it, or the room, or the victim, was another's by then: it
\* comes all the same, and at most one of the same user goes.
CreateBeyond(u, s) ==
    /\ Comes(u, s, {}) \/ \E v \in Held(u) : Comes(u, s, {v})
    /\ extra' = [extra EXCEPT ![u] = @ + 1]

Delete(u, s) ==
    /\ s \in Held(u)
    /\ is' = [is EXCEPT ![s] = "gone"]
    /\ UNCHANGED <<owner, extra>>

StoreNext ==
    \E u \in Users, s \in Sids : Create(u, s) \/ CreateBeyond(u, s) \/ Delete(u, s)

StoreSpec == StoreInit /\ [][StoreNext]_store

=============================================================================
