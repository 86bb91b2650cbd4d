------------------------------- MODULE Gateway -------------------------------
(***************************************************************************)
(* The path of a public request - POST /v1/ai/generate, /v1/search,        *)
(* /v1/fetch - through the Core: authenticate, authorize_capability,       *)
(* get_quota, the quota gate, the policy rules built for this request,     *)
(* body validation, policy.resolve, the one upstream call, record_usage.   *)
(*                                                                         *)
(* Every step reads the registry afresh, in a transaction of its own, and  *)
(* an administrator may disable the application, change its capabilities   *)
(* or revoke the credential between any two of them.  The administrator's  *)
(* handlers are module ControlPlane's; here an edit is one atomic commit.  *)
(* The quota gate is the window that module Quota implements: module       *)
(* QuotaWindow, with every key covered by its promise.  A request asks it  *)
(* with the key of its application and capability and the limit it read.   *)
(***************************************************************************)
EXTENDS Naturals, Sequences, FiniteSets

CONSTANTS Request,   \* public requests, each handled once (bound of the model)
          App,       \* applications
          Cap,       \* capabilities served: a subset of {"ai", "search", "fetch"}
          Cred,      \* credentials
          Owner,     \* Owner[c]: the application of credential c
          Legacy,    \* credentials accepted from the key file: never revoked
          Target,    \* Target[c]: what the environment configures for capability c
          Payload,   \* the request bodies and headers that may arrive
          MaxLimit,  \* largest limit_per_minute (bound of the model)
          Window,    \* the quota window, in ticks
          Faults     \* the kinds of fault that may happen

Forms == {"ok", "bad header", "empty header", "bad body"}

ASSUME GatewayAssumption ==
    /\ Cap \subseteq {"ai", "search", "fetch"}
    /\ Cap # {}
    /\ Cred # {}
    /\ Owner \in [Cred -> App]
    /\ Legacy \subseteq Cred
    /\ Target \in [Cap -> [enabled : BOOLEAN, key : BOOLEAN, paid : BOOLEAN, enforces : BOOLEAN]]
    /\ Payload \subseteq [form : Forms, wants : SUBSET {"free only", "over limit", "max tokens"}]
    /\ MaxLimit \in Nat \ {0}
    /\ Window \in Nat
    /\ Faults \subseteq {"store", "secret", "dropped", "crash"}

VARIABLES
    \* SQLite
    active,    \* the applications in state active
    caps,      \* caps[a]: application_capabilities
    limit,     \* limit[a][c]: quota_policies, 0 when there is no row
    live,      \* the credentials not revoked
    \* the quota gate
    charged, left, verdict,
    \* the request
    pc,
    cred, cap, load,   \* what r carries
    lim,       \* lim[r]: the limit r read
    rule,      \* rule[r]: the rules built for r hold a target for its application
    answer,    \* answer[r]: the status class r is about to record
    \* history
    calls,     \* calls[r]: calls to the upstream
    recorded,  \* recorded[r]: the status classes added to usage_rollups for r
    late,      \* requests that arrived with a credential already revoked
    entitled,  \* requests whose application was active and held the capability
               \* at some moment since they were charged
    cut        \* requests not yet past resolve when their application was
               \* disabled, while it stays so

registry == <<active, caps, limit, live>>
gate     == <<charged, left, verdict>>
locals   == <<cred, cap, load, lim, rule, answer>>
history  == <<calls, recorded, late, entitled, cut>>
vars     == <<registry, gate, pc, locals, history>>

AppOf(r) == Owner[cred[r]]
Key == App \X Cap
KeyOf(r) == <<AppOf(r), cap[r]>>
Gate == INSTANCE QuotaWindow WITH void <- {}, key <- [r \in Request |-> KeyOf(r)]

Rejections == {"rejected", "invalid", "exceeded", "unavailable"}
Final == Rejections \cup {"served", "failed", "internal", "aborted"}
Running == {"authenticate", "is active", "authorize", "get quota", "check quota", "quota reply",
            "context", "manager", "validate", "target", "resolve", "upstream", "record", "respond"}
NoLoad == [form |-> "ok", wants |-> {}]

Goto(r, label) == pc' = [pc EXCEPT ![r] = label]

-----------------------------------------------------------------------------
Init ==
    /\ active \in SUBSET App
    /\ caps \in [App -> SUBSET Cap]
    /\ limit \in [App -> [Cap -> 0..MaxLimit]]
    /\ \A a \in App : \A c \in caps[a] : limit[a][c] >= 1
    /\ live = Cred
    /\ pc = [r \in Request |-> "new"]
    /\ cred = [r \in Request |-> CHOOSE c \in Cred : TRUE]
    /\ cap = [r \in Request |-> CHOOSE c \in Cap : TRUE]
    /\ load = [r \in Request |-> NoLoad]
    /\ lim = [r \in Request |-> 0]
    /\ Gate!Init
    /\ rule = [r \in Request |-> FALSE]
    /\ answer = [r \in Request |-> "none"]
    /\ calls = [r \in Request |-> 0]
    /\ recorded = [r \in Request |-> <<>>]
    /\ late = {}
    /\ entitled = {}
    /\ cut = {}

\* A request whose body is JSON arrives.
Arrive(r, k, c, p) ==
    /\ pc[r] = "new"
    /\ cred' = [cred EXCEPT ![r] = k]
    /\ cap' = [cap EXCEPT ![r] = c]
    /\ load' = [load EXCEPT ![r] = p]
    /\ late' = IF k \in live THEN late ELSE late \cup {r}
    /\ cut' = IF Owner[k] \in active THEN cut ELSE cut \cup {r}
    /\ Goto(r, "authenticate")
    /\ UNCHANGED <<registry, gate, lim, rule, answer, calls, recorded, entitled>>

-----------------------------------------------------------------------------
(* Dependencies                                                            *)

\* Mutant: credential_digest without "revoked_at IS NULL".
AuthenticateRevoked(r) ==
    /\ pc[r] = "authenticate"
    /\ Goto(r, "is active")
    /\ UNCHANGED <<registry, gate, locals, history>>

\* authenticate: the digest of a credential that is not revoked, or the key file.
Authenticate(r) ==
    /\ pc[r] = "authenticate"
    /\ Goto(r, IF cred[r] \in live THEN "is active" ELSE "rejected")
    /\ UNCHANGED <<registry, gate, locals, history>>

\* The pepper or the key file cannot be read: 503 before anything is charged.
SecretUnreadable(r) ==
    /\ "secret" \in Faults
    /\ pc[r] = "authenticate"
    /\ Goto(r, "rejected")
    /\ UNCHANGED <<registry, gate, locals, history>>

\* is_active, the end of authenticate.  When a required header is missing
\* FastAPI skips the context dependency - and with it the quota - but not the
\* manager's.
IsActive(r) ==
    /\ pc[r] = "is active"
    /\ Goto(r, IF AppOf(r) \notin active THEN "rejected"
               ELSE IF load[r].form = "bad header" THEN "manager"
               ELSE "authorize")
    /\ UNCHANGED <<registry, gate, locals, history>>

Allows(a, c) == a \in active /\ c \in caps[a]

\* authorize_capability
Authorize(r) ==
    /\ pc[r] = "authorize"
    /\ Goto(r, IF Allows(AppOf(r), cap[r]) THEN "get quota" ELSE "rejected")
    /\ UNCHANGED <<registry, gate, locals, history>>

GetQuota(r) ==
    LET l == limit[AppOf(r)][cap[r]]
    IN  /\ pc[r] = "get quota"
        /\ lim' = [lim EXCEPT ![r] = l]
        /\ Goto(r, IF l = 0 THEN "rejected" ELSE "check quota")
        /\ UNCHANGED <<registry, gate, cred, cap, load, rule, answer, history>>

\* QUOTA_LIMITER.check: the store admits or refuses by the limit read just
\* before, or fails first (503).
CheckQuota(r) ==
    /\ pc[r] = "check quota"
    /\ UNCHANGED <<registry, locals, calls, recorded, late, cut>>
    /\ \/ (Gate!Admit(r) \/ Gate!Refuse(r)) /\ Goto(r, "quota reply")
       \/ Gate!Fail({r}) /\ Goto(r, "unavailable")
    /\ entitled' = IF Allows(AppOf(r), cap[r]) THEN entitled \cup {r} ELSE entitled

\* Mutant: a lost answer lets the request through.
QuotaReplyOpen(r) ==
    /\ pc[r] = "quota reply"
    /\ UNCHANGED <<registry, locals, history>>
    /\ \/ Goto(r, IF verdict[r] = "yes" THEN "context" ELSE "exceeded") /\ UNCHANGED gate
       \/ Gate!Fail({r}) /\ Goto(r, "context")

\* The store's answer arrives (429 for a refusal) or is lost: 503, and a
\* charge that was made stays.
QuotaReply(r) ==
    /\ pc[r] = "quota reply"
    /\ UNCHANGED <<registry, locals, history>>
    /\ \/ Goto(r, IF verdict[r] = "yes" THEN "context" ELSE "exceeded") /\ UNCHANGED gate
       \/ Gate!Fail({r}) /\ Goto(r, "unavailable")

\* ApplicationContext is built after the charge: an empty X-Service or
\* X-Purpose fails its min_length there, as a 500.
BuildContext(r) ==
    /\ pc[r] = "context"
    /\ Goto(r, IF load[r].form = "empty header" THEN "internal" ELSE "manager")
    /\ UNCHANGED <<registry, gate, locals, history>>

\* get_ai_manager and its siblings: a rule for every application that is
\* active and holds the capability now.
GetManager(r) ==
    /\ pc[r] = "manager"
    /\ rule' = [rule EXCEPT ![r] = Target[cap[r]].enabled /\ Allows(AppOf(r), cap[r])]
    /\ Goto(r, "validate")
    /\ UNCHANGED <<registry, gate, cred, cap, load, lim, answer, history>>

\* Body validation comes after all dependencies: the quota is spent.
ValidateBody(r) ==
    /\ pc[r] = "validate"
    /\ Goto(r, IF load[r].form \in {"bad header", "bad body"} THEN "invalid"
               ELSE IF cap[r] = "fetch" THEN "target" ELSE "resolve")
    /\ UNCHANGED <<registry, gate, locals, history>>

-----------------------------------------------------------------------------
(* The route handler                                                       *)

\* The handler has its answer and goes on to record it.
Answer(r, status) ==
    /\ answer' = [answer EXCEPT ![r] = status]
    /\ Goto(r, "record")
    /\ UNCHANGED <<cred, cap, load, lim, rule>>

\* reject_ssrf_target: what the resolver says is up to the network.
CheckTarget(r) ==
    /\ pc[r] = "target"
    /\ \/ Goto(r, "resolve") /\ UNCHANGED locals
       \/ Answer(r, "error")
    /\ UNCHANGED <<registry, gate, history>>

\* What the target configured for capability c refuses of a payload p.
Refused(c, p) ==
    \/ "free only" \in p.wants /\ Target[c].paid
    \/ "over limit" \in p.wants /\ c \in {"ai", "search"}
    \/ "max tokens" \in p.wants /\ c = "ai" /\ ~Target[c].enforces

\* Mutant: resolve no longer asks whether the application is active.
ResolveStale(r) ==
    /\ pc[r] = "resolve"
    /\ IF rule[r] /\ ~Refused(cap[r], load[r]) /\ Target[cap[r]].key
         THEN Goto(r, "upstream") /\ UNCHANGED locals
         ELSE Answer(r, "error")
    /\ UNCHANGED <<registry, gate, history>>

\* Mutant: a missing rule makes the handler build the rules again.
ResolveWaiting(r) ==
    /\ pc[r] = "resolve"
    /\ IF ~rule[r]
         THEN Goto(r, "manager") /\ UNCHANGED locals
         ELSE IF AppOf(r) \in active /\ ~Refused(cap[r], load[r]) /\ Target[cap[r]].key
         THEN Goto(r, "upstream") /\ UNCHANGED locals
         ELSE Answer(r, "error")
    /\ UNCHANGED <<registry, gate, history>>

\* policy.resolve reads the application once more; then the provider, which is
\* the unavailable one when the OmniRoute key of the capability is missing.
Resolve(r) ==
    /\ pc[r] = "resolve"
    /\ IF AppOf(r) \in active /\ rule[r] /\ ~Refused(cap[r], load[r]) /\ Target[cap[r]].key
         THEN Goto(r, "upstream") /\ UNCHANGED locals
         ELSE Answer(r, "error")
    /\ UNCHANGED <<registry, gate, history>>

\* One call of the provider (for AI: module AIProvider).  401/403, other 4xx,
\* 5xx, a timeout, a refused connection, an unreadable OmniRoute key and an
\* envelope that does not parse become the errors the route knows.
CallUpstream(r) ==
    /\ pc[r] = "upstream"
    /\ calls' = [calls EXCEPT ![r] = @ + 1]
    /\ \E status \in {"success", "error"} : Answer(r, status)
    /\ UNCHANGED <<registry, gate, recorded, late, entitled, cut>>

\* A connection that breaks while the answer is read (httpx.ReadError,
\* RemoteProtocolError) or a body that is not JSON is none of those.
CallBreaks(r) ==
    /\ "dropped" \in Faults
    /\ pc[r] = "upstream"
    /\ calls' = [calls EXCEPT ![r] = @ + 1]
    /\ Goto(r, "internal")
    /\ UNCHANGED <<registry, gate, locals, recorded, late, entitled, cut>>

\* Mutant: an error of a request that was answered is recorded on top.
RecordTwice(r) ==
    /\ pc[r] = "record"
    /\ recorded' = [recorded EXCEPT ![r] = Append(@, answer[r])]
    /\ IF answer[r] = "success" /\ recorded[r] = <<>>
         THEN Answer(r, "error")
         ELSE Goto(r, "respond") /\ UNCHANGED locals
    /\ UNCHANGED <<registry, gate, calls, late, entitled, cut>>

\* record_usage: a transaction of its own, committed before the response is
\* there.
Record(r) ==
    /\ pc[r] = "record"
    /\ recorded' = [recorded EXCEPT ![r] = Append(@, answer[r])]
    /\ Goto(r, "respond")
    /\ UNCHANGED <<registry, gate, locals, calls, late, entitled, cut>>

\* The response of the handler, or of _error_response.
Respond(r) ==
    /\ pc[r] = "respond"
    /\ Goto(r, IF answer[r] = "success" THEN "served" ELSE "failed")
    /\ UNCHANGED <<registry, gate, locals, history>>

\* sqlite3.Error in any step that uses the store is caught by nobody: 500.
StoreFails(r) ==
    /\ "store" \in Faults
    /\ pc[r] \in {"authenticate", "is active", "authorize", "get quota", "manager",
                  "resolve", "record"}
    /\ Goto(r, "internal")
    /\ UNCHANGED <<registry, gate, locals, history>>

-----------------------------------------------------------------------------
(* Around the requests                                                     *)

\* The administrator commits an update of application a (WriteUpdate of module
\* ControlPlane): quota rows are never deleted.
Update(a, on, C, l) ==
    /\ on => C # {}
    /\ active' = IF on THEN active \cup {a} ELSE active \ {a}
    /\ caps' = [caps EXCEPT ![a] = C]
    /\ limit' = [limit EXCEPT ![a] = [c \in Cap |-> IF c \in C THEN l ELSE @[c]]]
    /\ LET mine == {r \in Request : AppOf(r) = a}
       IN  /\ entitled' = IF on THEN entitled \cup {r \in mine : verdict[r] = "yes" /\ cap[r] \in C}
                                ELSE entitled
           /\ cut' = IF on THEN cut \ mine
                           ELSE cut \cup {r \in mine : pc[r] \in Running \ {"upstream", "record", "respond"}}
    /\ UNCHANGED <<live, gate, pc, locals, calls, recorded, late>>

Revoke(c) ==
    /\ c \in live \ Legacy
    /\ live' = live \ {c}
    /\ UNCHANGED <<active, caps, limit, gate, pc, locals, history>>

Crash ==
    /\ "crash" \in Faults
    /\ \E r \in Request : pc[r] \in Running
    /\ pc' = [r \in Request |-> IF pc[r] \in Running THEN "aborted" ELSE pc[r]]
    /\ UNCHANGED <<registry, gate, locals, history>>

Tick == UNCHANGED <<registry, pc, locals, history>> /\ Gate!Pass

-----------------------------------------------------------------------------
Step(r) ==
    \/ Authenticate(r) \/ SecretUnreadable(r) \/ IsActive(r) \/ Authorize(r) \/ GetQuota(r)
    \/ CheckQuota(r) \/ QuotaReply(r) \/ BuildContext(r) \/ GetManager(r) \/ ValidateBody(r)
    \/ CheckTarget(r) \/ Resolve(r) \/ CallUpstream(r) \/ CallBreaks(r)
    \/ Record(r) \/ Respond(r) \/ StoreFails(r)

Next ==
    \/ \E r \in Request, k \in Cred, c \in Cap, p \in Payload : Arrive(r, k, c, p)
    \/ \E r \in Request : Step(r)
    \/ \E a \in App, on \in BOOLEAN, C \in SUBSET Cap, l \in 1..MaxLimit : Update(a, on, C, l)
    \/ \E c \in Cred : Revoke(c)
    \/ Crash
    \/ Tick

Spec == Init /\ [][Next]_vars

\* Every step of a request ends: local work, or a call with a timeout.
FairSpec == Spec /\ \A r \in Request : WF_vars(Step(r))

-----------------------------------------------------------------------------
(* Properties                                                              *)

TypeOK ==
    /\ active \in SUBSET App
    /\ caps \in [App -> SUBSET Cap]
    /\ limit \in [App -> [Cap -> 0..MaxLimit]]
    /\ live \in SUBSET Cred
    /\ charged \in [Key -> SUBSET Request]
    /\ left \in [Key -> 0..Window]
    /\ verdict \in [Request -> {"none", "yes", "no", "error"}]
    /\ pc \in [Request -> {"new"} \cup Running \cup Final]
    /\ cred \in [Request -> Cred]
    /\ cap \in [Request -> Cap]
    /\ load \in [Request -> Payload \cup {NoLoad}]
    /\ lim \in [Request -> 0..MaxLimit]
    /\ rule \in [Request -> BOOLEAN]
    /\ answer \in [Request -> {"none", "success", "error"}]
    /\ calls \in [Request -> Nat]
    /\ recorded \in [Request -> Seq({"success", "error"})]
    /\ late \in SUBSET Request
    /\ entitled \in SUBSET Request
    /\ cut \in SUBSET Request

\* Nothing reaches the upstream for free, twice, or without a right to it: the
\* request was admitted by the quota gate, and at some moment after that its
\* application was active and held the capability - although the registry is
\* read five times, each time afresh, and may change between any two reads.
UpstreamGated ==
    \A r \in Request :
        /\ calls[r] <= 1
        /\ calls[r] = 1 => verdict[r] = "yes" /\ r \in entitled

\* Revocation is final: a request that arrives with a revoked credential costs
\* the application no quota and reaches no upstream.
RevokedNeverCharged == \A r \in late : verdict[r] = "none" /\ calls[r] = 0

\* Disabling an application stops every request but the calls under way.
DisablingStops == [][\A r \in cut : calls'[r] = calls[r]]_vars

\* usage_rollups tells what the callers were told: one success for every 200,
\* one error for every normalised error, nothing for a request turned away
\* before the route or ended by a 500, never two entries for one request, and
\* no success without the upstream.  A row without an answer is left only by a
\* process that died between record_usage's commit and the response.
RecordedAsAnswered ==
    \A r \in Request :
        /\ pc[r] = "served" => recorded[r] = <<"success">>
        /\ pc[r] = "failed" => recorded[r] = <<"error">>
        /\ recorded[r] # <<>> =>
              /\ pc[r] \in {"respond", "served", "failed", "aborted"}
              /\ recorded[r] = <<answer[r]>>
              /\ answer[r] = "success" => calls[r] = 1

\* Every request is answered, whatever the registry, the store and the
\* upstream do.
Answered == \A r \in Request : pc[r] \in Running ~> pc[r] \in Final
=============================================================================
