---------------------------- MODULE AdminSession ----------------------------
(***************************************************************************)
(* The administrator's way in: the login with its throttle in Redis        *)
(* (admin/auth.py, rate_limit_login), the sessions in SQLite               *)
(* (admin/storage.py) and the check every administrative handler starts    *)
(* with (require_session).                                                 *)
(*                                                                         *)
(* The throttle is INCR and, for the first attempt, EXPIRE: two commands   *)
(* with a gap.  validate_session takes the time first, reads the row,      *)
(* decides, and then writes last_seen_at; other requests and logouts come  *)
(* in between, because the SELECT opens no transaction.                    *)
(*                                                                         *)
(* A tick is long against the socket timeout of Redis (one second): time   *)
(* does not pass between INCR and EXPIRE.                                  *)
(***************************************************************************)
EXTENDS Integers, FiniteSets

CONSTANTS Login,     \* login attempts, each made once (bound of the model)
          Address,   \* client addresses
          Request,   \* requests with a session cookie, each made once (bound of the model)
          Session,   \* session tokens
          Limit,     \* login_attempts_per_minute
          Minute,    \* 60 seconds, in ticks
          Idle,      \* session_idle_seconds, in ticks
          Absolute,  \* session_absolute_seconds, in ticks
          MaxTime,   \* the clock stops here (bound of the model)
          Faults     \* the kinds of fault that may happen

ASSUME AdminSessionAssumption ==
    /\ Limit \in Nat \ {0} /\ Minute \in Nat \ {0}
    /\ Idle \in Nat \ {0} /\ Absolute \in Nat \ {0}
    /\ MaxTime \in Nat
    /\ Faults \subseteq {"redis", "store", "crash"}

Never == -1
Time == 0..MaxTime

VARIABLES
    clock,
    \* Redis: the counter of an address, absent when n = 0
    counter,    \* counter[a] = [n, expires], expires = Never without a TTL
    \* SQLite: admin_sessions
    issued, created, lastSeen, revoked,
    audited,    \* the logins and requests with an event in audit_log
    \* logins
    lpc, addr, count,
    \* requests
    rpc, token, op, csrf, now,
    \* history
    opener,     \* opener[s]: the login that opened session s
    lastTry,    \* lastTry[a]: when a login last reached the counter of a
    quiet,      \* logins before which their address made no attempt for a minute
    counted,    \* counted[a]: the logins the counter of a has counted since it was created
    activity,   \* activity[s]: the times of the login and of the accepted requests
    tooLate     \* requests whose session was revoked when they began

redis == counter
sessions == <<issued, created, lastSeen, revoked, audited>>
logins == <<lpc, addr, count>>
requests == <<rpc, token, op, csrf, now>>
history == <<opener, lastTry, quiet, counted, activity, tooLate>>
vars == <<clock, redis, sessions, logins, requests, history>>

Gone == [n |-> 0, expires |-> Never]
LoginDone == {"unavailable", "throttled", "denied", "logged in", "error", "aborted"}
RequestDone == {"rejected", "accepted", "logged out", "error", "aborted"}

-----------------------------------------------------------------------------
Init ==
    /\ clock = 0
    /\ counter = [a \in Address |-> Gone]
    /\ issued = {}
    /\ created = [s \in Session |-> 0]
    /\ lastSeen = [s \in Session |-> 0]
    /\ revoked = {}
    /\ audited = {}
    /\ lpc = [l \in Login |-> "incr"]
    /\ addr \in [Login -> Address]
    /\ count = [l \in Login |-> 0]
    /\ rpc = [r \in Request |-> "idle"]
    /\ token \in [Request -> Session]
    /\ op = [r \in Request |-> "read"]
    /\ csrf = [r \in Request |-> FALSE]
    /\ now = [r \in Request |-> 0]
    /\ opener = [s \in Session |-> "nobody"]
    /\ lastTry = [a \in Address |-> Never]
    /\ quiet = {}
    /\ counted = [a \in Address |-> {}]
    /\ activity = [s \in Session |-> {}]
    /\ tooLate = {}

-----------------------------------------------------------------------------
(* Login                                                                   *)

\* INCR
Incr(l) ==
    LET a == addr[l]
        n == counter[a].n + 1
    IN  /\ lpc[l] = "incr"
        /\ counter' = [counter EXCEPT ![a].n = n]
        /\ count' = [count EXCEPT ![l] = n]
        /\ lastTry' = [lastTry EXCEPT ![a] = clock]
        /\ quiet' = IF lastTry[a] = Never \/ clock - lastTry[a] >= Minute
                      THEN quiet \cup {l} ELSE quiet
        /\ counted' = [counted EXCEPT ![a] = @ \cup {l}]
        /\ lpc' = [lpc EXCEPT ![l] = IF n = 1 THEN "expire" ELSE "compare"]
        /\ UNCHANGED <<clock, sessions, addr, requests, opener, activity, tooLate>>

\* Mutant: the counter is kept for two minutes.
ExpireLate(l) ==
    /\ lpc[l] = "expire"
    /\ counter' = [counter EXCEPT ![addr[l]].expires = clock + 2 * Minute]
    /\ lpc' = [lpc EXCEPT ![l] = "compare"]
    /\ UNCHANGED <<clock, sessions, addr, count, requests, history>>

\* EXPIRE key 60, only by the attempt that created the key.
Expire(l) ==
    /\ lpc[l] = "expire"
    /\ counter' = [counter EXCEPT ![addr[l]].expires = clock + Minute]
    /\ lpc' = [lpc EXCEPT ![l] = "compare"]
    /\ UNCHANGED <<clock, sessions, addr, count, requests, history>>

\* RedisError or OSError, before a command runs or after it, when only its
\* reply is lost: 503.
ThrottleFails(l) ==
    /\ "redis" \in Faults
    /\ lpc[l] \in {"incr", "expire", "compare"}
    /\ lpc' = [lpc EXCEPT ![l] = "unavailable"]
    /\ UNCHANGED <<clock, redis, sessions, addr, count, requests, history>>

\* Mutant: one attempt more than the limit.
CompareOneMore(l) ==
    /\ lpc[l] = "compare"
    /\ lpc' = [lpc EXCEPT ![l] = IF count[l] <= Limit + 1 THEN "verify" ELSE "throttled"]
    /\ UNCHANGED <<clock, redis, sessions, addr, count, requests, history>>

\* count > login_attempts_per_minute: 429.
Compare(l) ==
    /\ lpc[l] = "compare"
    /\ lpc' = [lpc EXCEPT ![l] = IF count[l] <= Limit THEN "verify" ELSE "throttled"]
    /\ UNCHANGED <<clock, redis, sessions, addr, count, requests, history>>

\* verify_password fails, or succeeds and issue_session inserts a fresh row.
VerifyPassword(l) ==
    /\ lpc[l] = "verify"
    /\ \/ /\ lpc' = [lpc EXCEPT ![l] = "audit denied"]
          /\ UNCHANGED <<issued, created, lastSeen, opener, activity>>
       \/ \E s \in Session \ issued :
             /\ issued' = issued \cup {s}
             /\ created' = [created EXCEPT ![s] = clock]
             /\ lastSeen' = [lastSeen EXCEPT ![s] = clock]
             /\ opener' = [opener EXCEPT ![s] = l]
             /\ activity' = [activity EXCEPT ![s] = @ \cup {clock}]
             /\ lpc' = [lpc EXCEPT ![l] = "audit"]
    /\ UNCHANGED <<clock, redis, revoked, audited, addr, count, requests, lastTry, quiet, counted,
                   tooLate>>

\* Mutant: an audit event that cannot be written is passed over.
AuditLoginLossy(l) ==
    /\ lpc[l] \in {"audit denied", "audit"}
    /\ audited' \in {audited, audited \cup {l}}
    /\ lpc' = [lpc EXCEPT ![l] = IF @ = "audit" THEN "logged in" ELSE "denied"]
    /\ UNCHANGED <<clock, redis, issued, created, lastSeen, revoked, addr, count, requests, history>>

\* _audit, then the response: with the cookie, or 401.
AuditLogin(l) ==
    /\ lpc[l] \in {"audit denied", "audit"}
    /\ audited' = audited \cup {l}
    /\ lpc' = [lpc EXCEPT ![l] = IF @ = "audit" THEN "logged in" ELSE "denied"]
    /\ UNCHANGED <<clock, redis, issued, created, lastSeen, revoked, addr, count, requests, history>>

\* sqlite3.Error while the session or the event is written: 500, no cookie.
LoginStoreFails(l) ==
    /\ "store" \in Faults
    /\ lpc[l] \in {"verify", "audit denied", "audit"}
    /\ lpc' = [lpc EXCEPT ![l] = "error"]
    /\ UNCHANGED <<clock, redis, sessions, addr, count, requests, history>>

-----------------------------------------------------------------------------
(* Requests                                                                *)

\* A request with a cookie that a login's response set: require_session up to
\* the call, and validate_session takes the time.
Begin(r, kind, hasToken) ==
    /\ rpc[r] = "idle"
    /\ op' = [op EXCEPT ![r] = kind]
    /\ csrf' = [csrf EXCEPT ![r] = hasToken]
    /\ token[r] \in issued /\ lpc[opener[token[r]]] = "logged in"
    /\ now' = [now EXCEPT ![r] = clock]
    /\ rpc' = [rpc EXCEPT ![r] = "select"]
    /\ tooLate' = IF token[r] \in revoked THEN tooLate \cup {r} ELSE tooLate
    /\ UNCHANGED <<clock, redis, sessions, logins, token, opener, lastTry, quiet, counted, activity>>

\* Mutants: no idle check; revoked_at not looked at.
ValidIdleForever(r) ==
    LET s == token[r]
    IN  /\ s \in issued \ revoked
        /\ created[s] + Absolute > now[r]
        /\ op[r] = "read" \/ csrf[r]

ValidRevoked(r) ==
    LET s == token[r]
    IN  /\ s \in issued
        /\ created[s] + Absolute > now[r]
        /\ lastSeen[s] + Idle > now[r]
        /\ op[r] = "read" \/ csrf[r]

\* The conditions of validate_session; a write also needs the session's CSRF token.
Valid(r) ==
    LET s == token[r]
    IN  /\ s \in issued \ revoked
        /\ created[s] + Absolute > now[r]
        /\ lastSeen[s] + Idle > now[r]
        /\ op[r] = "read" \/ csrf[r]

Select(r) ==
    /\ rpc[r] = "select"
    /\ rpc' = [rpc EXCEPT ![r] = IF Valid(r) THEN "touch" ELSE "rejected"]
    /\ UNCHANGED <<clock, redis, sessions, logins, token, op, csrf, now, history>>

\* UPDATE last_seen_at, with the time taken before the SELECT.
Touch(r) ==
    LET s == token[r]
    IN  /\ rpc[r] = "touch"
        /\ lastSeen' = [lastSeen EXCEPT ![s] = now[r]]
        /\ activity' = [activity EXCEPT ![s] = @ \cup {now[r]}]
        /\ rpc' = [rpc EXCEPT ![r] = IF op[r] = "logout" THEN "revoke" ELSE "accepted"]
        /\ UNCHANGED <<clock, redis, issued, created, revoked, audited, logins, token, op, csrf, now,
                       opener, lastTry, quiet, counted, tooLate>>

\* logout: revoke_session
RevokeSession(r) ==
    /\ rpc[r] = "revoke"
    /\ revoked' = revoked \cup {token[r]}
    /\ rpc' = [rpc EXCEPT ![r] = "audit"]
    /\ UNCHANGED <<clock, redis, issued, created, lastSeen, audited, logins, token, op, csrf, now,
                   history>>

AuditLogout(r) ==
    /\ rpc[r] = "audit"
    /\ audited' = audited \cup {r}
    /\ rpc' = [rpc EXCEPT ![r] = "logged out"]
    /\ UNCHANGED <<clock, redis, issued, created, lastSeen, revoked, logins, token, op, csrf, now,
                   history>>

\* sqlite3.Error in any transaction of the request: 500.
RequestStoreFails(r) ==
    /\ "store" \in Faults
    /\ rpc[r] \in {"select", "touch", "revoke", "audit"}
    /\ rpc' = [rpc EXCEPT ![r] = "error"]
    /\ UNCHANGED <<clock, redis, sessions, logins, token, op, csrf, now, history>>

-----------------------------------------------------------------------------
Crash ==
    /\ "crash" \in Faults
    /\ lpc' = [l \in Login |-> IF lpc[l] \in LoginDone \cup {"incr"} THEN lpc[l] ELSE "aborted"]
    /\ rpc' = [r \in Request |-> IF rpc[r] \in RequestDone \cup {"idle"} THEN rpc[r] ELSE "aborted"]
    /\ <<lpc, rpc>>' # <<lpc, rpc>>
    /\ UNCHANGED <<clock, redis, sessions, addr, count, token, op, csrf, now, history>>

\* Time passes, and Redis drops the counters that expire.
Tick ==
    LET gone == {a \in Address : counter[a].expires = clock + 1}
    IN  /\ clock < MaxTime
        /\ \A l \in Login : lpc[l] # "expire"
        /\ clock' = clock + 1
        /\ counter' = [a \in Address |-> IF a \in gone THEN Gone ELSE counter[a]]
        /\ counted' = [a \in Address |-> IF a \in gone THEN {} ELSE counted[a]]
        /\ UNCHANGED <<sessions, logins, requests, opener, lastTry, quiet, activity, tooLate>>

LoginStep(l) ==
    \/ Incr(l) \/ Expire(l) \/ ThrottleFails(l) \/ Compare(l)
    \/ VerifyPassword(l) \/ AuditLogin(l) \/ LoginStoreFails(l)

RequestStep(r) ==
    \/ \E kind \in {"read", "write", "logout"}, hasToken \in BOOLEAN : Begin(r, kind, hasToken)
    \/ Select(r) \/ Touch(r)
    \/ RevokeSession(r) \/ AuditLogout(r) \/ RequestStoreFails(r)

Next ==
    \/ \E l \in Login : LoginStep(l)
    \/ \E r \in Request : RequestStep(r)
    \/ Crash
    \/ Tick

Spec == Init /\ [][Next]_vars

-----------------------------------------------------------------------------
(* Properties                                                              *)

TypeOK ==
    /\ clock \in Time
    /\ counter \in [Address -> [n : Nat, expires : Nat \cup {Never}]]
    /\ issued \in SUBSET Session
    /\ created \in [Session -> Time]
    /\ lastSeen \in [Session -> Time]
    /\ revoked \in SUBSET issued
    /\ audited \in SUBSET (Login \cup Request)
    /\ lpc \in [Login -> {"incr", "expire", "compare", "verify", "audit", "audit denied"}
                            \cup LoginDone]
    /\ rpc \in [Request -> {"idle", "select", "touch", "revoke", "audit"} \cup RequestDone]
    /\ now \in [Request -> Time]
    /\ tooLate \in SUBSET Request

\* However logins of an address interleave, fail or are cut short, the life of
\* one counter lets at most login_attempts_per_minute of them try a password.
GuessesBounded ==
    \A a \in Address :
        Cardinality({l \in counted[a] :
                       lpc[l] \in {"verify", "audit", "audit denied", "denied", "logged in",
                                  "error"}}) <= Limit

Inside == {"revoke", "audit", "accepted", "logged out"}

\* Logging out is final: no request that begins after the revocation is let in,
\* even by one that was validated before and still has to write last_seen_at.
LogoutFinal == \A r \in tooLate : rpc[r] \notin Inside \cup {"touch"}

\* Whatever the order in which overlapping requests write last_seen_at: a
\* request let in at t found real activity - the login or an accepted request -
\* less than Idle before t, and t lies within the session's absolute lifetime.
SessionBounded ==
    [][\A r \in Request : rpc[r] = "select" /\ rpc'[r] = "touch" =>
          /\ \E t \in activity[token[r]] : t <= now[r] /\ now[r] - t < Idle
          /\ now[r] - created[token[r]] < Absolute]_vars

\* Nobody works in a session whose opening the audit log does not show, even
\* when the event could not be written after the session was.
LoginsAudited == \A r \in Request : rpc[r] \in Inside => opener[token[r]] \in audited

\* What admin/config.py calls login_attempts_per_minute: an address that made no
\* other attempt for a minute is turned away for too many only if the EXPIRE of
\* the attempt that created its counter failed; that counter stays for good.
QuietAddressAdmitted ==
    \A l \in quiet : lpc[l] = "throttled" => counter[addr[l]].expires = Never
=============================================================================
