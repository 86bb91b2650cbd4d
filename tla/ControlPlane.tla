---------------------------- MODULE ControlPlane ----------------------------
(***************************************************************************)
(* The persistent control plane: the registry of applications, their       *)
(* capabilities and quota policies, their credentials and the audit trail  *)
(* (admin/storage.py), and the administrative handlers that change them    *)
(* (admin/routes.py).                                                      *)
(*                                                                         *)
(* The handlers run concurrently in FastAPI's thread pool.  Every store    *)
(* method opens its own SQLite connection and is one transaction, so a     *)
(* handler is a sequence of atomic steps with everybody else's steps in    *)
(* between.  A step may fail (a busy or broken database: the handler ends  *)
(* with 500) and the process may die between any two; a restart runs       *)
(* bootstrap before traffic is accepted.                                   *)
(*                                                                         *)
(* The session check every handler starts with is module AdminSession's;   *)
(* here a handler starts with it passed.                                   *)
(***************************************************************************)
EXTENDS Naturals, Sequences, FiniteSets

CONSTANTS App,        \* application ids
          GgOferta,   \* the application bootstrap creates active
          Claudiao,   \* the application bootstrap creates reserved and protected
          Cap,        \* capabilities
          MaxLimit,   \* largest limit_per_minute (bound of the model)
          Cred,       \* credential ids (secrets.token_urlsafe: never repeated)
          Handler,    \* admin requests, each handled once (bound of the model)
          LegacyKey,  \* SecurityConfig().is_configured: gg_oferta's key file exists
          Faults      \* the kinds of fault that may happen

ASSUME ControlPlaneAssumption ==
    /\ GgOferta \in App /\ Claudiao \in App /\ GgOferta # Claudiao
    /\ Cap # {}
    /\ MaxLimit \in Nat \ {0}
    /\ LegacyKey \in BOOLEAN
    /\ Faults \subseteq {"busy", "crash"}

VARIABLES
    \* SQLite
    state,      \* applications.state, "none" when there is no row
    caps,       \* application_capabilities
    quota,      \* quota_policies: quota[a][c], 0 when there is no row
    issued,     \* the rows of api_credentials
    owner,      \* owner[c]: application_id of a row
    live,       \* the credentials with revoked_at IS NULL
    audit,      \* admin_audit_events: <<handler, action, outcome>>
    \* the process
    running,
    pc,         \* pc[h]: the next step of handler h
    op,         \* op[h]: what h was asked to do
    seen,       \* seen[h]: the application as h read it first
    todo,       \* todo[h]: the audit events h still has to write
    \* history
    mutated,    \* handlers whose change was committed
    broken,     \* handlers cut short by a failure or a crash
    stripped    \* stripped[h]: a credential of h's application was revoked since h counted

tables  == <<state, caps, quota, issued, owner, live>>
locals  == <<op, seen, todo>>
history == <<mutated, broken, stripped>>
vars    == <<tables, audit, running, pc, locals, history>>

Protected(a) == a = Claudiao

NoQuota == [c \in Cap |-> 0]
Row(a) == [state |-> state[a], caps |-> caps[a], quota |-> quota[a]]
NoRow  == [state |-> "none", caps |-> {}, quota |-> NoQuota]

\* ApplicationUpdate: quotas is a partial map to positive limits, 0 for no key.
\* Keys that are none of its capabilities are ignored, so there are none here.
Payload ==
    {p \in [state : {"active", "disabled"}, caps : SUBSET Cap, quota : [Cap -> 0..MaxLimit]] :
        \A c \in Cap \ p.caps : p.quota[c] = 0}
NoPayload == [state |-> "disabled", caps |-> {}, quota |-> NoQuota]

Op(kind, a, c, p) == [kind |-> kind, app |-> a, cred |-> c, payload |-> p]
AnyCred == CHOOSE c \in Cred : TRUE
NoOp == Op("none", GgOferta, AnyCred, NoPayload)

ActiveCredentials(a) == {c \in live : owner[c] = a}
Legacy(a) == a = GgOferta /\ LegacyKey

Done == {"done", "broken"}

-----------------------------------------------------------------------------
(* Start-up                                                                *)

\* The registry after a bootstrap, of a new database or of one on which an
\* administrator has worked before: gg_oferta, its limits and its credentials.
Init ==
    /\ \E l \in [Cap -> 1..MaxLimit] :
          quota = [a \in App |-> IF a = GgOferta THEN l ELSE NoQuota]
    /\ \E s \in {"active", "disabled"} :
          state = [a \in App |-> CASE a = GgOferta -> s
                                   [] a = Claudiao -> "reserved"
                                   [] OTHER -> "none"]
    /\ caps = [a \in App |-> IF a = GgOferta THEN Cap ELSE {}]
    /\ issued \in SUBSET Cred
    /\ owner = [c \in Cred |-> GgOferta]
    /\ live \in SUBSET issued
    /\ audit = {}
    /\ running = TRUE
    /\ pc = [h \in Handler |-> "idle"]
    /\ op = [h \in Handler |-> NoOp]
    /\ seen = [h \in Handler |-> NoRow]
    /\ todo = [h \in Handler |-> <<>>]
    /\ mutated = {}
    /\ broken = {}
    /\ stripped = {}

\* Mutant: the limits of the environment replace the ones an administrator set.
BootstrapReplacing ==
    /\ ~running
    /\ running' = TRUE
    /\ caps' = [caps EXCEPT ![GgOferta] = Cap]
    /\ \E l \in [Cap -> 1..MaxLimit] : quota' = [quota EXCEPT ![GgOferta] = l]
    /\ UNCHANGED <<state, issued, owner, live, audit, pc, locals, history>>

\* get_store(): migrate, then bootstrap's INSERT OR IGNOREs in one transaction.
\* The two application rows exist already; a missing capability or quota row
\* of gg_oferta is inserted.
Bootstrap ==
    /\ ~running
    /\ running' = TRUE
    /\ caps' = [caps EXCEPT ![GgOferta] = Cap]
    /\ \E l \in [Cap -> 1..MaxLimit] :
          quota' = [quota EXCEPT ![GgOferta] =
                       [c \in Cap |-> IF quota[GgOferta][c] = 0 THEN l[c] ELSE quota[GgOferta][c]]]
    /\ UNCHANGED <<state, issued, owner, live, audit, pc, locals, history>>

\* The process dies: what was committed stays, the handlers do not.
Crash ==
    /\ "crash" \in Faults
    /\ running
    /\ running' = FALSE
    /\ pc' = [h \in Handler |-> IF pc[h] \in Done \cup {"idle"} THEN pc[h] ELSE "broken"]
    /\ broken' = broken \cup {h \in Handler : pc[h] \notin Done \cup {"idle"}}
    /\ op' = [h \in Handler |-> NoOp]
    /\ seen' = [h \in Handler |-> NoRow]
    /\ todo' = [h \in Handler |-> <<>>]
    /\ UNCHANGED <<tables, audit, mutated, stripped>>

-----------------------------------------------------------------------------
(* Handlers                                                                *)

At(h, label) == running /\ pc[h] = label
Goto(h, label) == pc' = [pc EXCEPT ![h] = label]
Continue(h, label) == Goto(h, label) /\ UNCHANGED locals
\* The handler returns; its local variables are gone.
Finish(h, label) ==
    /\ Goto(h, label)
    /\ op' = [op EXCEPT ![h] = NoOp]
    /\ seen' = [seen EXCEPT ![h] = NoRow]
    /\ todo' = [todo EXCEPT ![h] = <<>>]
\* The handler ends with an error response and no change.
Reject(h) == Finish(h, "done")
\* The handler goes on to write these audit events, in this order.
ThenAudit(h, events) ==
    /\ Goto(h, "audit")
    /\ todo' = [todo EXCEPT ![h] = events]
    /\ UNCHANGED <<op, seen>>

Begin(h, o, label) ==
    /\ At(h, "idle")
    /\ op' = [op EXCEPT ![h] = o]
    /\ Goto(h, label)
    /\ UNCHANGED <<tables, audit, running, seen, todo, history>>

BeginCreateApplication(h, a) == Begin(h, Op("create", a, AnyCred, NoPayload), "create")
BeginUpdateApplication(h, a, p) == Begin(h, Op("update", a, AnyCred, p), "read")
BeginCreateCredential(h, a) == Begin(h, Op("credential", a, AnyCred, NoPayload), "read")
BeginRevokeCredential(h, c) == Begin(h, Op("revoke", GgOferta, c, NoPayload), "revoke")

\* Mutant: a state the CHECK constraint does not know.
CreateDraft(h) ==
    /\ At(h, "create")
    /\ state[op[h].app] = "none"
    /\ state' = [state EXCEPT ![op[h].app] = "draft"]
    /\ mutated' = mutated \cup {h}
    /\ ThenAudit(h, <<<<"application.create", "success">>>>)
    /\ UNCHANGED <<caps, quota, issued, owner, live, audit, running, broken, stripped>>

\* create_application: the INSERT commits, or violates the primary key or the
\* UNIQUE client_id; the read-back is inside the same try, so a failure of it
\* is audited as "failed" although the row is there.
CreateApplication(h) ==
    LET a == op[h].app
    IN  /\ At(h, "create")
        /\ \/ /\ ThenAudit(h, <<<<"application.create", "failed">>>>)
              /\ UNCHANGED <<state, mutated>>
           \/ /\ state[a] = "none"
              /\ state' = [state EXCEPT ![a] = "disabled"]
              /\ mutated' = mutated \cup {h}
              /\ \/ ThenAudit(h, <<<<"application.create", "success">>>>)
                 \/ "busy" \in Faults /\ ThenAudit(h, <<<<"application.create", "failed">>>>)
        /\ UNCHANGED <<caps, quota, issued, owner, live, audit, running, broken, stripped>>

\* payload.state == "active" needs capabilities, each with a quota.
ActivationPayload(p) == p.caps # {} /\ \A c \in p.caps : p.quota[c] >= 1

\* Mutant: the protected flag is not looked at.
ReadUnprotected(h) ==
    LET a == op[h].app
        p == op[h].payload
        proceed(label) == /\ Goto(h, label)
                          /\ seen' = [seen EXCEPT ![h] = Row(a)]
                          /\ UNCHANGED <<op, todo>>
    IN  /\ At(h, "read")
        /\ IF state[a] = "none" THEN Reject(h)
           ELSE IF op[h].kind = "credential" THEN proceed("insert")
           ELSE IF p.state = "active" /\ ~ActivationPayload(p) THEN Reject(h)
           ELSE proceed(IF p.state = "active" /\ ~Legacy(a) THEN "count" ELSE "write")
        /\ UNCHANGED <<tables, audit, running, history>>

\* update_application and create_credential read the application first.
ReadApplication(h) ==
    LET a == op[h].app
        p == op[h].payload
        updating == op[h].kind = "update"
        proceed(label) == /\ Goto(h, label)
                          /\ seen' = [seen EXCEPT ![h] = Row(a)]
                          /\ UNCHANGED <<op, todo>>
    IN  /\ At(h, "read")
        /\ IF state[a] = "none" THEN Reject(h)
           ELSE IF Protected(a) \/ (~updating /\ state[a] = "reserved")
             THEN ThenAudit(h, <<<<IF updating THEN "application.update"
                                               ELSE "credential.create", "denied">>>>)
           ELSE IF ~updating THEN proceed("insert")
           ELSE IF p.state = "active" /\ ~ActivationPayload(p) THEN Reject(h)
           ELSE proceed(IF p.state = "active" /\ ~Legacy(a) THEN "count" ELSE "write")
        /\ UNCHANGED <<tables, audit, running, history>>

\* Mutant: activation does not count the credentials.
CountNothing(h) ==
    /\ At(h, "count")
    /\ Continue(h, "write")
    /\ UNCHANGED <<tables, audit, running, history>>

\* active_credential_count
CountCredentials(h) ==
    /\ At(h, "count")
    /\ IF ActiveCredentials(op[h].app) = {} THEN Reject(h)
       ELSE Continue(h, "write")
    /\ UNCHANGED <<tables, audit, running, history>>

\* Mutant: the rows written before the KeyError are committed.
WriteWithoutRollback(h) ==
    LET a == op[h].app
        p == op[h].payload
    IN  /\ At(h, "write")
        /\ state' = [state EXCEPT ![a] = p.state]
        /\ caps' = [caps EXCEPT ![a] = p.caps]
        /\ quota' = [quota EXCEPT ![a] =
                        [c \in Cap |-> IF c \in p.caps THEN p.quota[c] ELSE @[c]]]
        /\ mutated' = mutated \cup {h}
        /\ Continue(h, "result")
        /\ UNCHANGED <<issued, owner, live, audit, running, broken, stripped>>

\* store.update_application: one transaction.  quotas[capability] raises
\* KeyError for a capability without quota, and the transaction is undone.
\* Quota rows of capabilities taken away are kept.
WriteUpdate(h) ==
    LET a == op[h].app
        p == op[h].payload
    IN  /\ At(h, "write")
        /\ IF \E c \in p.caps : p.quota[c] = 0
             THEN Reject(h) /\ UNCHANGED <<state, caps, quota, mutated>>
             ELSE /\ state' = [state EXCEPT ![a] = p.state]
                  /\ caps' = [caps EXCEPT ![a] = p.caps]
                  /\ quota' = [quota EXCEPT ![a] =
                                  [c \in Cap |-> IF c \in p.caps THEN p.quota[c] ELSE @[c]]]
                  /\ mutated' = mutated \cup {h}
                  /\ Continue(h, "result")
        /\ UNCHANGED <<issued, owner, live, audit, running, broken, stripped>>

\* The audit events of an update: what h read first against what it reads now.
UpdateEvents(before, after) ==
    <<<<"application.update", "success">>>>
      \o (IF before.state # after.state
            THEN <<<<"application.status_change", "success">>>> ELSE <<>>)
      \o (IF before.caps # after.caps
            THEN <<<<"application.capability_change", "success">>>> ELSE <<>>)
      \o (IF before.quota # after.quota
            THEN <<<<"application.quota_change", "success">>>> ELSE <<>>)

ReadResult(h) ==
    /\ At(h, "result")
    /\ ThenAudit(h, UpdateEvents(seen[h], Row(op[h].app)))
    /\ UNCHANGED <<tables, audit, running, history>>

\* read_required fails: 503, nothing stored and nothing audited.
PepperUnreadable(h) ==
    /\ At(h, "insert")
    /\ Reject(h)
    /\ UNCHANGED <<tables, audit, running, history>>

\* issue_credential draws a fresh id and insert_credential stores it; the plain
\* secret exists only in the response.
InsertCredential(h) ==
    /\ At(h, "insert")
    /\ \E c \in Cred \ issued :
          /\ issued' = issued \cup {c}
          /\ owner' = [owner EXCEPT ![c] = op[h].app]
          /\ live' = live \cup {c}
    /\ mutated' = mutated \cup {h}
    /\ ThenAudit(h, <<<<"credential.create", "success">>>>)
    /\ UNCHANGED <<state, caps, quota, audit, running, broken, stripped>>

\* Mutant: the handler audits without looking at rowcount.
RevokeUnchecked(h) ==
    LET c == op[h].cred
    IN  /\ At(h, "revoke")
        /\ live' = live \ {c}
        /\ mutated' = IF c \in live THEN mutated \cup {h} ELSE mutated
        /\ ThenAudit(h, <<<<"credential.revoke", "success">>>>)
        /\ UNCHANGED <<state, caps, quota, issued, owner, audit, running, broken, stripped>>

\* Mutant: the handler forgets the audit.
RevokeUnaudited(h) ==
    LET c == op[h].cred
    IN  /\ At(h, "revoke")
        /\ live' = live \ {c}
        /\ mutated' = IF c \in live THEN mutated \cup {h} ELSE mutated
        /\ Reject(h)
        /\ UNCHANGED <<state, caps, quota, issued, owner, audit, running, broken, stripped>>

\* UPDATE ... WHERE id=? AND revoked_at IS NULL; rowcount 0 is a 404.
RevokeCredential(h) ==
    LET c == op[h].cred
    IN  /\ At(h, "revoke")
        /\ IF c \in live
             THEN /\ live' = live \ {c}
                  /\ mutated' = mutated \cup {h}
                  /\ stripped' = stripped \cup
                        {g \in Handler : pc[g] = "write" /\ op[g].app = owner[c]}
                  /\ ThenAudit(h, <<<<"credential.revoke", "success">>>>)
             ELSE Reject(h) /\ UNCHANGED <<live, mutated, stripped>>
        /\ UNCHANGED <<state, caps, quota, issued, owner, audit, running, broken>>

\* store.audit: a transaction of its own for every event.
WriteAudit(h) ==
    /\ At(h, "audit")
    /\ audit' = audit \cup {<<h, todo[h][1][1], todo[h][1][2]>>}
    /\ IF Len(todo[h]) = 1 THEN Finish(h, "done") ELSE ThenAudit(h, Tail(todo[h]))
    /\ UNCHANGED <<tables, running, history>>

\* Any store call may raise (locked past busy_timeout, disk): 500, nothing
\* committed by that call, no later call made.
StoreFails(h) ==
    /\ "busy" \in Faults
    /\ running
    /\ pc[h] \in {"read", "count", "write", "result", "insert", "revoke", "audit"}
    /\ Finish(h, "broken")
    /\ broken' = broken \cup {h}
    /\ UNCHANGED <<tables, audit, running, mutated, stripped>>

-----------------------------------------------------------------------------
Step(h) ==
    \/ CreateApplication(h) \/ ReadApplication(h) \/ CountCredentials(h)
    \/ WriteUpdate(h) \/ ReadResult(h) \/ PepperUnreadable(h) \/ InsertCredential(h)
    \/ RevokeCredential(h) \/ WriteAudit(h)

Start(h) ==
    \/ \E a \in App : BeginCreateApplication(h, a)
    \/ \E a \in App, p \in Payload : BeginUpdateApplication(h, a, p)
    \/ \E a \in App : BeginCreateCredential(h, a)
    \/ \E c \in issued : BeginRevokeCredential(h, c)

Next ==
    \/ \E h \in Handler : Start(h) \/ Step(h) \/ StoreFails(h)
    \/ Crash
    \/ Bootstrap

Spec == Init /\ [][Next]_vars

-----------------------------------------------------------------------------
(* Properties                                                              *)

States == {"none", "active", "disabled", "reserved"}
PC == {"idle", "create", "read", "count", "write", "result", "insert", "revoke", "audit"}
        \cup Done

TypeOK ==
    /\ state \in [App -> States]
    /\ caps \in [App -> SUBSET Cap]
    /\ quota \in [App -> [Cap -> 0..MaxLimit]]
    /\ issued \in SUBSET Cred
    /\ owner \in [Cred -> App]
    /\ live \in SUBSET issued
    /\ running \in BOOLEAN
    /\ pc \in [Handler -> PC]
    /\ mutated \in SUBSET Handler
    /\ broken \in SUBSET Handler
    /\ stripped \in SUBSET Handler

\* Every capability an application holds has a positive limit, and an active
\* application holds one: whatever updates, failures and restarts interleave,
\* authorize_capability never lets a request on to a missing quota row.
CapabilitiesHaveQuota ==
    \A a \in App :
        /\ \A c \in caps[a] : quota[a][c] >= 1
        /\ state[a] = "active" => caps[a] # {}

\* The protected application stays reserved, powerless and without credential.
ProtectedUntouched ==
    \A a \in App : Protected(a) =>
        /\ state[a] = "reserved" /\ caps[a] = {}
        /\ ActiveCredentials(a) = {}

\* A success in the audit trail is the truth: its change was committed.
AuditTruthful == \A e \in audit : e[3] = "success" => e[1] \in mutated

\* An application is activated with a live credential (or the legacy key), or
\* its last one was revoked by another request after this one had counted.
ActivationCounted ==
    [][\A a \in App :
         (running /\ state[a] # "active" /\ state'[a] = "active") =>
            \/ Legacy(a)
            \/ ActiveCredentials(a) # {}
            \/ \E h \in stripped : pc[h] = "write" /\ pc'[h] = "result" /\ op[h].app = a]_vars

\* A restart over whatever edits and crashes left changes no application's
\* state, no existing limit - whatever bootstrap is told of the environment's - no
\* credential and no capability, except that gg_oferta gets back the capability
\* rows an administrator removed.
RestartKeepsPolicies ==
    [][(~running /\ running') =>
          /\ state' = state /\ live' = live /\ owner' = owner
          /\ \A a \in App, c \in Cap : quota[a][c] # 0 => quota'[a][c] = quota[a][c]
          /\ \A a \in App : caps[a] \subseteq caps'[a] /\ (a # GgOferta => caps'[a] = caps[a])]_vars

\* A handler that committed a change and is over has left a trace of it in the
\* audit trail, unless a failure cut it short between its transactions.
MutationsAudited ==
    \A h \in mutated \ broken : pc[h] \in Done => \E e \in audit : e[1] = h
=============================================================================
