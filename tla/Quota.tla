-------------------------------- MODULE Quota --------------------------------
(***************************************************************************)
(* The durable quota gate of the gateway: QuotaLimiter.check over          *)
(* RedisQuotaStore.consume (security/quota.py), fed with the limit that    *)
(* _authorized_context read from SQLite just before (api/deps.py).         *)
(*                                                                         *)
(* A request talks to Redis in three round trips - CONFIG GET, INFO, EVAL  *)
(* - and everything else may happen between two of them: other requests,   *)
(* an administrator changing the limit, Redis crashing, restarting or      *)
(* being reconfigured, the answer of the EVAL being lost.                  *)
(*                                                                         *)
(* Time is counted down in ticks of the Redis clock.  An entry whose ttl   *)
(* is 0 is in its last tick: Redis still returns it, with PTTL 0.          *)
(***************************************************************************)
EXTENDS Integers, FiniteSets

CONSTANTS Request,         \* the requests that reach the quota gate
          Key,             \* namespace:application:capability
          MaxLimit,        \* largest limit_per_minute (bound of the model)
          Window,          \* window_seconds, in ticks
          TicksPerSecond,  \* resolution of PTTL against Retry-After
          Faults           \* the kinds of fault the environment may produce

ASSUME QuotaAssumption ==
    /\ IsFiniteSet(Request)
    /\ MaxLimit \in Nat \ {0}
    /\ Window \in Nat \ {0}
    /\ TicksPerSecond \in Nat \ {0}
    /\ Faults \subseteq {"gateway", "redis", "config", "aof", "evict", "tamper"}

VARIABLES
    \* the gateway
    pc,        \* pc[r]: the round trip r is about to make, or its outcome
    key,       \* key[r]: the key r is charged to
    lim,       \* lim[r]: the limit r read from quota_policies
    reply,     \* reply[r]: the answer of r's EVAL, while it travels
    wait,      \* wait[r]: what is left of the Retry-After announced to r
    \* SQLite
    limit,     \* limit[k]: limit_per_minute of k, 0 when there is no row
    \* Redis
    up,        \* reachable
    persist,   \* appendonly, appendfsync and no-appendfsync-on-rewrite as required
    noevict,   \* maxmemory-policy noeviction
    aofOk,     \* aof_last_write_status is ok
    mem,       \* mem[k]: the entry in memory
    disk,      \* disk[k]: the entry a restart loads
    \* history
    charged,   \* charged[k]: requests charged since k's window opened
    left,      \* left[k]: what is left of that window
    refused,   \* refused[k]: requests that window refused
    charges,   \* charges[r]: how often r was charged
    exposed,   \* requests past their check when durability was withdrawn
    tainted    \* keys that lost a charge to that race, were evicted or overwritten

gateway == <<pc, key, lim, reply, wait>>
redisState == <<up, persist, noevict, aofOk>>
history == <<charged, left, refused, charges, exposed, tainted>>
vars == <<gateway, limit, redisState, mem, disk, history>>

-----------------------------------------------------------------------------
(* Entries of the store and the Lua script                                 *)

Absent  == [n |-> 0, ttl |-> 0]
\* Anything the script refuses: not a positive integer, or no expiry.
Corrupt == [n |-> -1, ttl |-> -1]

\* One tick of the Redis clock.
Aged(e) ==
    IF e.ttl > 0 THEN [e EXCEPT !.ttl = @ - 1]
    ELSE IF e.ttl = 0 THEN Absent
    ELSE e

Result(entry, allowed, ttl) == [entry |-> entry, allowed |-> allowed, ttl |-> ttl]

ScriptError(e) == e # Absent /\ (e.n < 1 \/ e.ttl < 0)

\* Mutants of the script: '>' for '>='; the next count compared with '>='; the
\* TTL prolonged by every INCR; SET without PX.
ConsumeOneTooMany(e, l) ==
    IF e = Absent THEN Result([n |-> 1, ttl |-> Window], TRUE, Window)
    ELSE IF e.n > l THEN Result(e, FALSE, e.ttl)
    ELSE Result([e EXCEPT !.n = @ + 1], TRUE, e.ttl)

ConsumeOneTooFew(e, l) ==
    IF e = Absent THEN Result([n |-> 1, ttl |-> Window], TRUE, Window)
    ELSE IF e.n + 1 >= l THEN Result(e, FALSE, e.ttl)
    ELSE Result([e EXCEPT !.n = @ + 1], TRUE, e.ttl)

ConsumeProlonging(e, l) ==
    IF e = Absent THEN Result([n |-> 1, ttl |-> Window], TRUE, Window)
    ELSE IF e.n >= l THEN Result(e, FALSE, e.ttl)
    ELSE Result([n |-> e.n + 1, ttl |-> e.ttl + Window], TRUE, e.ttl)

ConsumeWithoutExpiry(e, l) ==
    IF e = Absent THEN Result([n |-> 1, ttl |-> -1], TRUE, Window)
    ELSE IF e.n >= l THEN Result(e, FALSE, e.ttl)
    ELSE Result([e EXCEPT !.n = @ + 1], TRUE, e.ttl)

CONSUME(e, l) ==
    IF e = Absent THEN Result([n |-> 1, ttl |-> Window], TRUE, Window)
    ELSE IF e.n >= l THEN Result(e, FALSE, e.ttl)
    ELSE Result([e EXCEPT !.n = @ + 1], TRUE, e.ttl)

\* Mutant: the seconds rounded down.
RetryAfterFloor(ttl) ==
    LET seconds == ttl \div TicksPerSecond
    IN  TicksPerSecond * (IF seconds < 1 THEN 1 ELSE seconds)

\* max(1, ceil(ttl / 1000)) seconds, in ticks.
RetryAfter(ttl) ==
    LET seconds == (ttl + TicksPerSecond - 1) \div TicksPerSecond
    IN  TicksPerSecond * (IF seconds < 1 THEN 1 ELSE seconds)

-----------------------------------------------------------------------------
Talking  == {"config", "info", "eval", "reply"}
InFlight == Talking \cup {"admitted"}
Failed   == {"unavailable", "misconfigured", "denied", "aborted"}
Final    == Failed \cup {"exceeded", "served"}
PC       == {"idle"} \cup InFlight \cup Final

NoReply == [allowed |-> FALSE, ttl |-> 0]

Durable == persist /\ aofOk

Init ==
    /\ pc = [r \in Request |-> "idle"]
    /\ key \in [Request -> Key]
    /\ lim = [r \in Request |-> 0]
    /\ reply = [r \in Request |-> NoReply]
    /\ wait = [r \in Request |-> 0]
    /\ limit \in [Key -> 0..MaxLimit]
    /\ up = TRUE
    /\ persist = TRUE
    /\ noevict = TRUE
    /\ aofOk = TRUE
    /\ mem = [k \in Key |-> Absent]
    /\ disk = [k \in Key |-> Absent]
    /\ charged = [k \in Key |-> {}]
    /\ left = [k \in Key |-> 0]
    /\ refused = [k \in Key |-> {}]
    /\ charges = [r \in Request |-> 0]
    /\ exposed = {}
    /\ tainted = {}

Goto(r, label) == pc' = [pc EXCEPT ![r] = label]

-----------------------------------------------------------------------------
(* The request                                                             *)

\* get_quota: its own SQLite read, never repeated.  No row: 403.
GetQuota(r) ==
    /\ pc[r] = "idle"
    /\ lim' = [lim EXCEPT ![r] = limit[key[r]]]
    /\ Goto(r, IF limit[key[r]] = 0 THEN "denied" ELSE "config")
    /\ UNCHANGED <<key, reply, wait, limit, redisState, mem, disk, history>>

\* Mutant: the configuration is not compared.
ConfigGetUnchecked(r) ==
    /\ pc[r] = "config"
    /\ up
    /\ Goto(r, "info")
    /\ UNCHANGED <<key, lim, reply, wait, limit, redisState, mem, disk, history>>

\* _durable, first round trip.
ConfigGet(r) ==
    /\ pc[r] = "config"
    /\ up
    /\ Goto(r, IF persist /\ noevict THEN "info" ELSE "misconfigured")
    /\ UNCHANGED <<key, lim, reply, wait, limit, redisState, mem, disk, history>>

\* _durable, second round trip.
Info(r) ==
    /\ pc[r] = "info"
    /\ up
    /\ Goto(r, IF aofOk THEN "eval" ELSE "unavailable")
    /\ UNCHANGED <<key, lim, reply, wait, limit, redisState, mem, disk, history>>

\* The script runs on the server.  Its write reaches the disk for certain
\* only while Redis is durable.
EvalRuns(r) ==
    LET k == key[r]
        result == CONSUME(mem[k], lim[r])
    IN  /\ pc[r] = "eval"
        /\ up
        /\ ~ScriptError(mem[k])
        /\ \E persisted \in BOOLEAN :
              /\ Durable => persisted
              /\ mem' = [mem EXCEPT ![k] = result.entry]
              /\ disk' = IF persisted THEN [disk EXCEPT ![k] = result.entry] ELSE disk
              /\ tainted' = IF result.allowed /\ ~persisted /\ r \in exposed
                              THEN tainted \cup {k} ELSE tainted
        /\ reply' = [reply EXCEPT ![r] = [allowed |-> result.allowed, ttl |-> result.ttl]]
        /\ Goto(r, "reply")
        /\ IF result.allowed
             THEN /\ charged' = [charged EXCEPT ![k] = @ \cup {r}]
                  /\ left' = [left EXCEPT ![k] = IF charged[k] = {} THEN Window ELSE @]
                  /\ charges' = [charges EXCEPT ![r] = @ + 1]
                  /\ UNCHANGED refused
             ELSE /\ refused' = [refused EXCEPT ![k] = @ \cup {r}]
                  /\ UNCHANGED <<charged, left, charges>>
        /\ UNCHANGED <<key, lim, wait, limit, redisState, exposed>>

\* redis.error_reply('Invalid quota state')
EvalErrors(r) ==
    /\ pc[r] = "eval"
    /\ up
    /\ ScriptError(mem[key[r]])
    /\ Goto(r, "unavailable")
    /\ UNCHANGED <<key, lim, reply, wait, limit, redisState, mem, disk, history>>

\* The answer arrives and check() lets the request through or raises 429.
ReplyArrives(r) ==
    /\ pc[r] = "reply"
    /\ Goto(r, IF reply[r].allowed THEN "admitted" ELSE "exceeded")
    /\ wait' = [wait EXCEPT ![r] = IF reply[r].allowed THEN 0 ELSE RetryAfter(reply[r].ttl)]
    /\ reply' = [reply EXCEPT ![r] = NoReply]
    /\ UNCHANGED <<key, lim, limit, redisState, mem, disk, history>>

\* Mutants: the EVAL is sent again after a lost answer; the whole consume()
\* is tried again.
StoreRetriesEval(r) ==
    /\ pc[r] \in Talking
    /\ Goto(r, IF pc[r] = "reply" THEN "eval" ELSE "unavailable")
    /\ reply' = [reply EXCEPT ![r] = NoReply]
    /\ UNCHANGED <<key, lim, wait, limit, redisState, mem, disk, history>>

StoreRetriesForever(r) ==
    /\ pc[r] \in {"info", "eval", "reply"}
    /\ Goto(r, "config")
    /\ reply' = [reply EXCEPT ![r] = NoReply]
    /\ UNCHANGED <<key, lim, wait, limit, redisState, mem, disk, history>>

\* RedisError or OSError on any of the round trips - a refused connection, a
\* timeout, an answer that never comes.  There is no retry.
StoreFails(r) ==
    /\ pc[r] \in Talking
    /\ Goto(r, "unavailable")
    /\ reply' = [reply EXCEPT ![r] = NoReply]
    /\ UNCHANGED <<key, lim, wait, limit, redisState, mem, disk, history>>

\* The route handler runs: the one place that reaches the upstream.
Serve(r) ==
    /\ pc[r] = "admitted"
    /\ Goto(r, "served")
    /\ UNCHANGED <<key, lim, reply, wait, limit, redisState, mem, disk, history>>

-----------------------------------------------------------------------------
(* Everything around the request                                           *)

\* PUT /admin/api/applications/{id}: UPSERT of quota_policies.
SetLimit(k, l) ==
    /\ limit' = [limit EXCEPT ![k] = l]
    /\ UNCHANGED <<gateway, redisState, mem, disk, history>>

\* The gateway process dies with every request in it.
GatewayCrash ==
    /\ "gateway" \in Faults
    /\ \E r \in Request : pc[r] \in InFlight
    /\ pc' = [r \in Request |-> IF pc[r] \in InFlight THEN "aborted" ELSE pc[r]]
    /\ reply' = [r \in Request |-> NoReply]
    /\ UNCHANGED <<key, lim, wait, limit, redisState, mem, disk, history>>

RedisCrash ==
    /\ "redis" \in Faults
    /\ up
    /\ up' = FALSE
    /\ UNCHANGED <<gateway, limit, persist, noevict, aofOk, mem, disk, history>>

\* The container comes back with redis.conf and what the AOF holds.
RedisRestart ==
    /\ ~up
    /\ up' = TRUE
    /\ persist' = TRUE
    /\ noevict' = TRUE
    /\ aofOk' = TRUE
    /\ mem' = disk
    /\ UNCHANGED <<gateway, limit, disk, history>>

\* An operator weakens persistence at run time (the Core never does).
WeakenPersistence ==
    /\ "config" \in Faults
    /\ up /\ persist
    /\ persist' = FALSE
    /\ exposed' = exposed \cup {r \in Request : pc[r] \in {"info", "eval"}}
    /\ UNCHANGED <<gateway, limit, up, noevict, aofOk, mem, disk,
                   charged, left, refused, charges, tainted>>

AllowEviction ==
    /\ "evict" \in Faults
    /\ up /\ noevict
    /\ noevict' = FALSE
    /\ UNCHANGED <<gateway, limit, up, persist, aofOk, mem, disk, history>>

AofWriteFails ==
    /\ "aof" \in Faults
    /\ up /\ aofOk
    /\ aofOk' = FALSE
    /\ exposed' = exposed \cup {r \in Request : pc[r] = "eval"}
    /\ UNCHANGED <<gateway, limit, up, persist, noevict, mem, disk,
                   charged, left, refused, charges, tainted>>

\* The operator puts things right: the AOF is rewritten from memory.
RepairStore ==
    /\ up
    /\ ~(Durable /\ noevict)
    /\ persist' = TRUE
    /\ noevict' = TRUE
    /\ aofOk' = TRUE
    /\ disk' = mem
    /\ UNCHANGED <<gateway, limit, up, mem, history>>

Evict(k) ==
    /\ up /\ ~noevict
    /\ mem[k] # Absent
    /\ mem' = [mem EXCEPT ![k] = Absent]
    /\ disk' = [disk EXCEPT ![k] = Absent]
    /\ tainted' = tainted \cup {k}
    /\ UNCHANGED <<gateway, limit, redisState, charged, left, refused, charges, exposed>>

\* Somebody else writes the key (PERSIST, a value that is no counter).
Tamper(k) ==
    /\ "tamper" \in Faults
    /\ up
    /\ mem[k] # Corrupt
    /\ mem' = [mem EXCEPT ![k] = Corrupt]
    /\ disk' = [disk EXCEPT ![k] = Corrupt]
    /\ tainted' = tainted \cup {k}
    /\ UNCHANGED <<gateway, limit, redisState, charged, left, refused, charges, exposed>>

Tick ==
    /\ mem' = [k \in Key |-> Aged(mem[k])]
    /\ disk' = [k \in Key |-> Aged(disk[k])]
    /\ wait' = [r \in Request |-> IF wait[r] > 0 THEN wait[r] - 1 ELSE 0]
    /\ charged' = [k \in Key |-> IF left[k] = 0 THEN {} ELSE charged[k]]
    /\ refused' = [k \in Key |-> IF left[k] = 0 THEN {} ELSE refused[k]]
    /\ left' = [k \in Key |-> IF left[k] = 0 THEN 0 ELSE left[k] - 1]
    /\ UNCHANGED <<pc, key, lim, reply, limit, redisState, charges, exposed, tainted>>

-----------------------------------------------------------------------------
\* What the gateway does for request r once it has been accepted.
Step(r) ==
    \/ ConfigGet(r) \/ Info(r) \/ EvalRuns(r) \/ EvalErrors(r)
    \/ ReplyArrives(r) \/ StoreFails(r) \/ Serve(r)

Environment ==
    \/ \E k \in Key, l \in 1..MaxLimit : SetLimit(k, l)
    \/ GatewayCrash
    \/ RedisCrash \/ RedisRestart
    \/ WeakenPersistence \/ AllowEviction \/ AofWriteFails \/ RepairStore
    \/ \E k \in Key : Evict(k) \/ Tamper(k)

Next ==
    \/ \E r \in Request : GetQuota(r) \/ Step(r)
    \/ Environment
    \/ Tick

Spec == Init /\ [][Next]_vars

\* The gateway's own steps are fair: its round trips end, by an answer or by
\* the socket timeout, and the Redis clock advances.
Fairness == (\A r \in Request : WF_vars(Step(r))) /\ WF_vars(Tick)

FairSpec == Spec /\ Fairness

-----------------------------------------------------------------------------
(* Properties                                                              *)

Entry == [n : Nat \cup {-1}, ttl : -1..Window]

TypeOK ==
    /\ pc \in [Request -> PC]
    /\ key \in [Request -> Key]
    /\ lim \in [Request -> 0..MaxLimit]
    /\ reply \in [Request -> [allowed : BOOLEAN, ttl : -1..Window]]
    /\ wait \in [Request -> Nat]
    /\ limit \in [Key -> 0..MaxLimit]
    /\ up \in BOOLEAN /\ persist \in BOOLEAN /\ noevict \in BOOLEAN /\ aofOk \in BOOLEAN
    /\ mem \in [Key -> Entry]
    /\ disk \in [Key -> Entry]
    /\ charged \in [Key -> SUBSET Request]
    /\ left \in [Key -> 0..Window]
    /\ refused \in [Key -> SUBSET Request]
    /\ charges \in [Request -> Nat]
    /\ exposed \in SUBSET Request
    /\ tainted \in SUBSET Key

\* The entry the store should hold for k, by what was really charged.
Ideal(k) ==
    IF charged[k] = {} THEN Absent
    ELSE [n |-> Cardinality(charged[k]), ttl |-> left[k]]

\* Redis's counter is exactly the number of requests charged in the window
\* and expires when the window does, across crashes, restarts, operators
\* weakening the configuration and lost answers - because consume() checks
\* durability before every EVAL.  The only exceptions are the keys of tainted.
ExactCount == \A k \in Key \ tainted : mem[k] = Ideal(k) /\ disk[k] = Ideal(k)

\* However edits of the limit interleave with requests that already read the
\* old one, no window admits more than l requests among those that were held
\* to a limit of l or less.
WindowBound ==
    \A k \in Key \ tainted, l \in 0..MaxLimit :
        Cardinality({r \in charged[k] : lim[r] <= l}) <= l

\* Nothing reaches the upstream for free and nothing is charged twice: a
\* request let through has been charged once, a refused one never, and a
\* request that failed at most once (its EVAL may have run, its answer lost).
ChargedOnce ==
    \A r \in Request :
        /\ charges[r] <= 1
        /\ pc[r] \in {"admitted", "served"} => charges[r] = 1
        /\ pc[r] \in {"exceeded", "denied", "misconfigured"} => charges[r] = 0

\* As long as the window that refused a request is open, what is left of it is
\* covered by what is left of the Retry-After the request was given.
RetryAfterCovers ==
    \A k \in Key \ tainted : \A r \in refused[k] :
        pc[r] = "exceeded" => left[k] <= wait[r]

\* Every request that enters the gate is answered, whatever Redis does.
Answered == \A r \in Request : pc[r] \in InFlight ~> pc[r] \in Final

\* A used-up quota comes back: every counter the Core wrote expires.
QuotaComesBack == \A k \in Key : mem[k] # Absent ~> (mem[k] = Absent \/ k \in tainted)

-----------------------------------------------------------------------------
(* The inductive strengthening                                             *)

\* A request may write undurably only if durability was withdrawn behind it.
Exposure ==
    \A r \in Request :
        /\ pc[r] = "info" /\ ~persist => r \in exposed
        /\ pc[r] = "eval" /\ ~Durable => r \in exposed

\* Where a request stands determines whether it has been charged.
ChargeOfPC ==
    \A r \in Request :
        /\ charges[r] \in {0, 1}
        /\ pc[r] \in {"idle", "config", "info", "eval", "exceeded", "denied", "misconfigured"}
              => charges[r] = 0
        /\ pc[r] = "reply" => charges[r] = IF reply[r].allowed THEN 1 ELSE 0
        /\ pc[r] \in {"admitted", "served"} => charges[r] = 1

\* The members of a window were charged, under the positive limit they read;
\* nobody has a limit without having read it.
Members ==
    /\ \A r \in Request : pc[r] = "idle" => lim[r] = 0
    /\ \A r \in Request : pc[r] \in {"config", "info", "eval"} => lim[r] >= 1
    /\ \A k \in Key : \A r \in charged[k] : charges[r] = 1

\* Refusals belong to an open window and remember how much of it was left.
Refusals ==
    \A k \in Key \ tainted :
        /\ refused[k] # {} => charged[k] # {}
        /\ \A r \in refused[k] :
              /\ pc[r] \in {"reply", "exceeded", "unavailable", "aborted"}
              /\ pc[r] = "reply" => ~reply[r].allowed /\ left[k] <= reply[r].ttl

IInv == TypeOK /\ Exposure /\ ChargeOfPC /\ Members /\ ExactCount /\ WindowBound
          /\ Refusals /\ RetryAfterCovers

-----------------------------------------------------------------------------
(* Refinement                                                              *)

VerdictOf(r) ==
    CASE pc[r] \in {"idle", "config", "info", "eval"} -> "none"
      [] pc[r] = "reply" -> IF reply[r].allowed THEN "yes" ELSE "no"
      [] pc[r] = "admitted" -> "yes"
      [] pc[r] = "exceeded" -> "no"
      [] pc[r] = "served" -> "served"
      [] OTHER -> "error"

Promise == INSTANCE QuotaWindow WITH
    verdict <- [r \in Request |-> VerdictOf(r)],
    void <- tainted

\* The gate over Redis implements the fixed window it promises: a request is
\* admitted exactly when its key's window holds fewer admissions than the limit
\* that was read for this request, and refused only by a window that is open
\* and full by that limit, whatever limits the others read, whatever happens
\* between its round trips, and whatever became of earlier answers.
ImplementsWindow == Promise!Spec
=============================================================================
