-------------------------- MODULE AdminSessionProofs --------------------------
(***************************************************************************)
(* Proofs about the administrator's login and sessions, module             *)
(* AdminSession, for every set of logins, addresses, requests and          *)
(* sessions, every limit and every duration.                               *)
(*                                                                         *)
(* The throttle: the logins one counter has counted carry different        *)
(* numbers (Numbered), so at most Limit of them carry one within the limit *)
(* (Guessing).  A counter that expires does so within a minute of the last *)
(* attempt (Expiring), so what a quiet address finds is either gone or     *)
(* will stay for good (Silent).                                            *)
(*                                                                         *)
(* The sessions: last_seen_at may be written out of order, but from the    *)
(* login to the latest activity there is no gap as long as Idle (Dense),   *)
(* because a request is let in only on an activity it can reach (Reaches). *)
(***************************************************************************)
EXTENDS AdminSession, FiniteSetTheorems, FunctionTheorems, TLAPS

-----------------------------------------------------------------------------
(* The inductive invariant                                                 *)

\* The types of the variables TypeOK does not mention.
Fields ==
    /\ addr \in [Login -> Address]
    /\ count \in [Login -> Nat]
    /\ token \in [Request -> Session]
    /\ op \in [Request -> {"read", "write", "logout"}]
    /\ csrf \in [Request -> BOOLEAN]
    /\ opener \in [Session -> Login \cup {"nobody"}]
    /\ lastTry \in [Address -> Time \cup {Never}]
    /\ quiet \in SUBSET Login
    /\ counted \in [Address -> SUBSET Login]
    /\ activity \in [Session -> SUBSET Time]

\* The logins of one counter took different numbers, none above the counter.
Numbered ==
    \A a \in Address :
        /\ \A l \in counted[a] :
              lpc[l] # "incr" /\ addr[l] = a /\ count[l] \in 1..counter[a].n
        /\ \A l, m \in counted[a] : count[l] = count[m] => l = m

Guesses == {"verify", "audit", "audit denied", "denied", "logged in", "error"}

\* Only a login whose number is within the limit tries a password, and only
\* one whose number is above it is throttled.
Guessing ==
    \A l \in Login :
        /\ lpc[l] \in Guesses => count[l] <= Limit
        /\ lpc[l] = "throttled" => count[l] > Limit

\* A counter that exists was tried, and expires, if it does, in the future and
\* within a minute of the last attempt; EXPIRE follows its INCR in one tick.
Expiring ==
    /\ \A a \in Address :
          /\ counter[a].n = 0 => counter[a].expires = Never
          /\ counter[a].n # 0 => lastTry[a] # Never
          /\ lastTry[a] <= clock
          /\ counter[a].expires # Never =>
                clock < counter[a].expires /\ counter[a].expires <= lastTry[a] + Minute
    /\ \A l \in Login :
          lpc[l] = "expire" => counter[addr[l]].n # 0 /\ lastTry[addr[l]] = clock

\* A counter of address a that will never expire.
Stuck(a) ==
    /\ counter[a].n # 0 /\ counter[a].expires = Never
    /\ \A l \in Login : addr[l] = a => lpc[l] # "expire"

\* A login after a quiet minute was the first of its counter, or found a
\* counter that stays for good.
Silent ==
    \A l \in quiet : lpc[l] # "incr" /\ (count[l] <= 1 \/ Stuck(addr[l]))

\* Sessions and requests know where they come from: a session has its login, a
\* request an issued session whose opening was audited before.
Rooted ==
    /\ \A l \in Login : lpc[l] = "logged in" => l \in audited
    /\ \A s \in issued : opener[s] \in Login /\ created[s] <= clock /\ lastSeen[s] \in activity[s]
    /\ \A s \in Session \ issued : activity[s] = {}
    /\ \A r \in Request : rpc[r] # "idle" =>
          /\ token[r] \in issued
          /\ opener[token[r]] \in audited
          /\ created[token[r]] <= now[r]

\* Between the login and any activity there is activity less than Idle before
\* every moment.
Covered(s, n) == \E u \in activity[s] : u <= n /\ n - u < Idle

Dense ==
    \A s \in issued : \A t \in activity[s] : \A n \in Time :
        created[s] <= n /\ n <= t => Covered(s, n)

\* A request that was let in reaches an activity of its session.
Reaches ==
    \A r \in Request : rpc[r] = "touch" =>
        \E m \in activity[token[r]] : now[r] < m + Idle

\* A request that began too late carries a session that is revoked.
Late == \A r \in tooLate : token[r] \in revoked /\ rpc[r] # "idle"

IInv == TypeOK /\ Fields /\ Numbered /\ Guessing /\ Expiring /\ Silent
          /\ Rooted /\ Dense /\ Reaches /\ Late /\ LogoutFinal

-----------------------------------------------------------------------------
(* Constants                                                               *)

\* The arithmetic the types need: the durations are positive, no time is Never.
LEMMA Durations ==
  /\ Limit \in Nat /\ Limit >= 1
  /\ Minute \in Nat /\ Minute >= 1
  /\ Idle \in Nat /\ Idle >= 1
  /\ Absolute \in Nat
  /\ 0 \in Time /\ Time \subseteq Nat /\ Never \notin Nat
  /\ \A t \in Time : t < MaxTime => t + 1 \in Time
  BY AdminSessionAssumption DEF Time, Never

\* What was before some time is before every later one.
LEMMA Later == \A x, y, z \in Time : x <= y /\ y <= z => x <= z
  BY Durations

-----------------------------------------------------------------------------
(* The kinds of step                                                       *)

\* The steps of the throttle, the rest of a login, and the requests.
Throttle(l) == Incr(l) \/ Expire(l) \/ ThrottleFails(l) \/ Compare(l)
Enter(l) == VerifyPassword(l) \/ AuditLogin(l) \/ LoginStoreFails(l)

\* What a step is.
LEMMA Kinds ==
  ASSUME [Next]_vars
  PROVE  \/ \E l \in Login : Throttle(l) \/ Enter(l)
         \/ \E r \in Request : RequestStep(r)
         \/ Crash
         \/ Tick
         \/ UNCHANGED vars
  BY DEF Next, LoginStep, Throttle, Enter

\* The throttle knows nothing of sessions and requests.
LEMMA ThrottleFrame ==
  ASSUME NEW l \in Login, Throttle(l)
  PROVE  UNCHANGED <<clock, sessions, addr, requests, opener, activity, tooLate>>
  BY DEF Throttle, Incr, Expire, ThrottleFails, Compare, history

\* Past the throttle a login touches neither its counter nor a request.
LEMMA EnterFrame ==
  ASSUME NEW l \in Login, Enter(l)
  PROVE  UNCHANGED <<clock, redis, revoked, addr, count, requests, lastTry, quiet, counted, tooLate>>
  BY DEF Enter, VerifyPassword, AuditLogin, LoginStoreFails, sessions, history

\* A request touches no login and no counter.
LEMMA RequestFrame ==
  ASSUME NEW r \in Request, RequestStep(r)
  PROVE  UNCHANGED <<clock, redis, issued, created, logins, token, opener, lastTry, quiet, counted>>
  BY DEF RequestStep, Begin, Select, Touch, RevokeSession, AuditLogout, RequestStoreFails,
     sessions, history

-----------------------------------------------------------------------------
(* Types                                                                   *)

\* The initial states are well typed.
LEMMA InitType == Init => TypeOK /\ Fields
  BY Durations DEF Init, TypeOK, Fields, Gone

\* Every step keeps the types of the throttle's and the logins' variables.
LEMMA LoginTypeStep ==
  ASSUME TypeOK, Fields, NEW l \in Login, Throttle(l) \/ Enter(l)
  PROVE  TypeOK' /\ Fields'
  <1>0. /\ clock \in Nat /\ clock + Minute \in Nat
        /\ addr[l] \in Address /\ counter[addr[l]].n + 1 \in Nat
    <2>1. addr[l] \in Address /\ counter \in [Address -> [n : Nat, expires : Nat \cup {Never}]]
      BY DEF TypeOK, Fields
    <2>2. counter[addr[l]].n \in Nat
      BY <2>1
    <2>3. clock \in Time
      BY DEF TypeOK
    <2> QED
      BY <2>1, <2>2, <2>3, Durations
  <1> USE DEF TypeOK, Fields, LoginDone, sessions, logins, requests, history, redis
  <1>1. CASE Incr(l)
    <2>1. addr[l] \in Address /\ counter[addr[l]].n + 1 \in Nat
      BY <1>0
    <2>2. counter' \in [Address -> [n : Nat, expires : Nat \cup {Never}]]
      BY <1>1, <2>1 DEF Incr
    <2>3. lpc' \in [Login -> {"incr", "expire", "compare", "verify", "audit", "audit denied"}
                               \cup LoginDone]
      BY <1>1 DEF Incr
    <2> QED
      BY <1>1, <2>1, <2>2, <2>3 DEF Incr
  <1>2. CASE Expire(l)
    <2>1. clock + Minute \in Nat
      BY <1>0
    <2>2. counter' \in [Address -> [n : Nat, expires : Nat \cup {Never}]]
      BY <1>2, <2>1 DEF Expire
    <2> QED
      BY <1>2, <2>2 DEF Expire
  <1>3. CASE ThrottleFails(l) \/ Compare(l)
    BY <1>3 DEF ThrottleFails, Compare
  <1>4. CASE VerifyPassword(l)
    <2>1. lpc' \in [Login -> {"incr", "expire", "compare", "verify", "audit", "audit denied"}
                               \cup LoginDone]
      <3>1. \/ lpc' = [lpc EXCEPT ![l] = "audit denied"]
            \/ lpc' = [lpc EXCEPT ![l] = "audit"]
        BY <1>4 DEF VerifyPassword
      <3> QED
        BY <3>1
    <2>2. CASE UNCHANGED <<issued, created, lastSeen, opener, activity>>
      BY <1>4, <2>1, <2>2 DEF VerifyPassword
    <2>3. ASSUME NEW s \in Session,
                 /\ issued' = issued \cup {s}
                 /\ created' = [created EXCEPT ![s] = clock]
                 /\ lastSeen' = [lastSeen EXCEPT ![s] = clock]
                 /\ opener' = [opener EXCEPT ![s] = l]
                 /\ activity' = [activity EXCEPT ![s] = @ \cup {clock}]
          PROVE  TypeOK' /\ Fields'
      <3>1. /\ created' \in [Session -> Time] /\ lastSeen' \in [Session -> Time]
            /\ opener' \in [Session -> Login \cup {"nobody"}]
            /\ activity' \in [Session -> SUBSET Time]
        BY <2>3
      <3>2. issued' \in SUBSET Session /\ revoked' \in SUBSET issued'
        BY <1>4, <2>3 DEF VerifyPassword
      <3> QED
        BY <1>4, <2>1, <3>1, <3>2 DEF VerifyPassword
    <2> QED
      BY <1>4, <2>2, <2>3 DEF VerifyPassword
  <1>5. CASE AuditLogin(l) \/ LoginStoreFails(l)
    <2>1. lpc' \in [Login -> {"incr", "expire", "compare", "verify", "audit", "audit denied"}
                               \cup LoginDone]
      <3>1. \E place \in {"logged in", "denied", "error"} : lpc' = [lpc EXCEPT ![l] = place]
        BY <1>5 DEF AuditLogin, LoginStoreFails
      <3> QED
        BY <3>1 DEF LoginDone
    <2>2. audited' \in SUBSET (Login \cup Request)
      BY <1>5 DEF AuditLogin, LoginStoreFails
    <2> QED
      BY <1>5, <2>1, <2>2 DEF AuditLogin, LoginStoreFails
  <1> QED
    BY <1>1, <1>2, <1>3, <1>4, <1>5 DEF Throttle, Enter

\* A request revokes only a session that was issued.
LEMMA RequestTypeStep ==
  ASSUME TypeOK, Fields, Rooted, NEW r \in Request, RequestStep(r)
  PROVE  TypeOK' /\ Fields'
  <1> USE DEF TypeOK, Fields, RequestDone, sessions, logins, requests, history, redis
  <1>1. ASSUME NEW kind \in {"read", "write", "logout"}, NEW hasToken \in BOOLEAN,
               Begin(r, kind, hasToken)
        PROVE  TypeOK' /\ Fields'
    BY <1>1 DEF Begin
  <1>2. CASE Select(r) \/ RequestStoreFails(r)
    BY <1>2 DEF Select, RequestStoreFails
  <1>3. CASE Touch(r)
    BY <1>3 DEF Touch
  <1>4. CASE RevokeSession(r)
    BY <1>4 DEF RevokeSession, Rooted
  <1>5. CASE AuditLogout(r)
    BY <1>5 DEF AuditLogout
  <1> QED
    BY <1>1, <1>2, <1>3, <1>4, <1>5 DEF RequestStep

\* Every step keeps the types.
LEMMA TypeStep == TypeOK /\ Fields /\ Rooted /\ [Next]_vars => TypeOK' /\ Fields'
  <1> SUFFICES ASSUME TypeOK, Fields, Rooted, [Next]_vars
               PROVE  TypeOK' /\ Fields'
    OBVIOUS
  <1> USE DEF TypeOK, Fields, sessions, logins, requests, history, redis
  <1>1. CASE Crash
    BY <1>1 DEF Crash, LoginDone, RequestDone
  <1>2. CASE Tick
    BY <1>2, Durations DEF Tick, Gone
  <1>3. CASE UNCHANGED vars
    BY <1>3 DEF vars
  <1> QED
    BY <1>1, <1>2, <1>3, LoginTypeStep, RequestTypeStep, Kinds

-----------------------------------------------------------------------------
(* The throttle                                                            *)

ThrottleInv == Numbered /\ Guessing /\ Expiring /\ Silent

\* A step that leaves the counters alone, and moves logins only within the
\* password check or to a failure, keeps what is known of the throttle.
LEMMA ThrottleIdle ==
  ASSUME ThrottleInv, TypeOK, Fields,
         UNCHANGED <<clock, counter, addr, count, lastTry, quiet, counted>>,
         \A m \in Login : \/ lpc'[m] = lpc[m]
                          \/ lpc[m] \in Guesses /\ lpc'[m] \in Guesses
                          \/ lpc'[m] \in {"aborted", "unavailable"}
  PROVE  ThrottleInv'
  <1>1. Numbered'
    BY DEF ThrottleInv, Numbered, Guesses, Fields
  <1>2. Guessing'
    BY DEF ThrottleInv, Guessing, Guesses
  <1>3. \A m \in Login : lpc'[m] = "expire" => lpc[m] = "expire"
    BY DEF Guesses
  <1>4. Expiring'
    BY <1>3 DEF ThrottleInv, Expiring
  <1>5. \A m \in Login : lpc'[m] = "incr" => lpc[m] = "incr"
    BY DEF Guesses
  <1>6. Silent'
    BY <1>3, <1>5 DEF ThrottleInv, Silent, Stuck, Fields
  <1> QED
    BY <1>1, <1>2, <1>4, <1>6 DEF ThrottleInv

\* INCR gives the login a number no other login of this counter has, and finds
\* the counter of a quiet address gone or stuck.
LEMMA IncrStep ==
  ASSUME ThrottleInv, TypeOK, Fields, NEW l \in Login, Incr(l)
  PROVE  ThrottleInv'
  <1> DEFINE a == addr[l]
             n == counter[a].n + 1
  <1>1. a \in Address /\ counter[a].n \in Nat /\ clock \in Time
        /\ \A b \in Address : counter[b].n \in Nat /\ counter[b].expires \in Nat \cup {Never}
    BY DEF TypeOK, Fields
  <1>2. /\ lpc[l] = "incr"
        /\ lpc'[l] = (IF n = 1 THEN "expire" ELSE "compare")
        /\ \A m \in Login : m # l => lpc'[m] = lpc[m]
        /\ count'[l] = n
        /\ \A m \in Login : m # l => count'[m] = count[m]
        /\ addr' = addr /\ clock' = clock
    BY DEF Incr, TypeOK, Fields
  <1>3. /\ counter'[a].n = n /\ counter'[a].expires = counter[a].expires
        /\ \A b \in Address : b # a => counter'[b] = counter[b]
    BY <1>1 DEF Incr, TypeOK
  <1>4. /\ counted'[a] = counted[a] \cup {l}
        /\ \A b \in Address : b # a => counted'[b] = counted[b]
        /\ lastTry'[a] = clock
        /\ \A b \in Address : b # a => lastTry'[b] = lastTry[b]
    BY <1>1 DEF Incr, Fields
  <1>5. quiet' = IF lastTry[a] = Never \/ clock - lastTry[a] >= Minute
                   THEN quiet \cup {l} ELSE quiet
    BY DEF Incr
  <1>6. n \in Nat /\ n >= 1
    BY <1>1
  <1>7. \A b \in Address : l \notin counted[b]
    BY <1>2 DEF ThrottleInv, Numbered
  <1> HIDE DEF n
  <1>8. Numbered'
    <2> SUFFICES ASSUME NEW b \in Address
                 PROVE  /\ \A m \in counted'[b] : lpc'[m] # "incr" /\ addr[m] = b
                                                    /\ count'[m] \in 1..counter'[b].n
                        /\ \A m, k \in counted'[b] : count'[m] = count'[k] => m = k
      BY <1>2 DEF Numbered
    <2>1. /\ \A m \in counted[b] : m \in Login /\ lpc[m] # "incr" /\ addr[m] = b
                                     /\ count[m] \in 1..counter[b].n
          /\ \A m, k \in counted[b] : count[m] = count[k] => m = k
      BY DEF ThrottleInv, Numbered, Fields
    <2>2. CASE b = a
      <3>1. \A m \in counted[a] : m # l /\ count'[m] = count[m] /\ count[m] \in 1..counter[a].n
        BY <1>2, <1>7, <2>1, <2>2
      <3>2. n = counter[a].n + 1
        BY DEF n
      <3>3. \A m \in counted[a] : count'[m] \in 1..n /\ count'[m] # n
        BY <1>1, <3>1, <3>2
      <3> QED
        BY <1>2, <1>3, <1>4, <1>6, <2>1, <2>2, <3>1, <3>3
    <2>3. CASE b # a
      <3>1. counted'[b] = counted[b] /\ counter'[b] = counter[b] /\ \A m \in counted[b] : m # l
        BY <1>3, <1>4, <1>7, <2>3
      <3> QED
        BY <1>2, <2>1, <3>1
    <2> QED
      BY <2>2, <2>3
  <1>9. Guessing'
    BY <1>2 DEF ThrottleInv, Guessing, Guesses
  <1>10. Expiring'
    <2>1. \A b \in Address : counter[b].expires # Never =>
             clock < counter[b].expires /\ counter[b].expires <= lastTry[b] + Minute
      BY DEF ThrottleInv, Expiring
    <2>2. lastTry[a] = Never \/ lastTry[a] \in Time
      BY <1>1 DEF Fields
    <2>3. clock # Never /\ clock \in Nat
      BY <1>1, Durations
    <2>4. counter[a].expires # Never => counter[a].expires <= clock + Minute
      <3>1. lastTry[a] \in Int /\ lastTry[a] <= clock
        BY <1>1, <2>2 DEF ThrottleInv, Expiring, Time, Never
      <3> QED
        BY <1>1, <2>1, <2>3, <3>1, Durations
    <2>5. ASSUME NEW b \in Address
          PROVE  /\ counter'[b].n = 0 => counter'[b].expires = Never
                 /\ counter'[b].n # 0 => lastTry'[b] # Never
                 /\ lastTry'[b] <= clock
                 /\ counter'[b].expires # Never =>
                      clock < counter'[b].expires /\ counter'[b].expires <= lastTry'[b] + Minute
      <3>1. CASE b = a
        BY <1>3, <1>4, <1>6, <2>1, <2>3, <2>4, <3>1
      <3>2. CASE b # a
        BY <1>3, <1>4, <3>2 DEF ThrottleInv, Expiring
      <3> QED
        BY <3>1, <3>2
    <2>6. ASSUME NEW m \in Login, lpc'[m] = "expire"
          PROVE  counter'[addr[m]].n # 0 /\ lastTry'[addr[m]] = clock
      <3>1. CASE addr[m] = a
        BY <1>3, <1>4, <1>6, <3>1
      <3>2. CASE addr[m] # a
        <4>1. addr[m] \in Address /\ lpc[m] = "expire"
          BY <1>2, <2>6, <3>2 DEF Fields
        <4> QED
          BY <1>3, <1>4, <3>2, <4>1 DEF ThrottleInv, Expiring
      <3> QED
        BY <3>1, <3>2
    <2> QED
      BY <1>2, <2>5, <2>6 DEF Expiring
  <1>11. Silent'
    <2>1. \A b \in Address : Stuck(b) => Stuck(b)'
      <3> SUFFICES ASSUME NEW b \in Address, Stuck(b)
                   PROVE  /\ counter'[b].n # 0 /\ counter'[b].expires = Never
                          /\ \A m \in Login : addr[m] = b => lpc'[m] # "expire"
        BY <1>2 DEF Stuck
      <3>1. counter[b].n # 0 /\ counter[b].expires = Never
            /\ \A m \in Login : addr[m] = b => lpc[m] # "expire"
        BY DEF Stuck
      <3>2. CASE b = a
        <4>1. n # 1 /\ n # 0
          BY <1>1, <3>1, <3>2 DEF n
        <4> QED
          BY <1>2, <1>3, <3>1, <3>2, <4>1
      <3>3. CASE b # a
        BY <1>2, <1>3, <3>1, <3>3
      <3> QED
        BY <3>2, <3>3
    <2>2. ASSUME NEW m \in quiet, m # l
          PROVE  lpc'[m] # "incr" /\ (count'[m] <= 1 \/ Stuck(addr[m])')
      <3>1. m \in Login /\ lpc[m] # "incr" /\ (count[m] <= 1 \/ Stuck(addr[m])) /\ addr[m] \in Address
        BY DEF ThrottleInv, Silent, Fields
      <3>2. Stuck(addr[m]) => Stuck(addr[m])'
        BY <1>2, <2>1, <3>1 DEF Stuck
      <3> QED
        BY <1>2, <2>2, <3>1, <3>2
    <2>3. ASSUME lastTry[a] = Never \/ clock - lastTry[a] >= Minute
          PROVE  lpc'[l] # "incr" /\ (count'[l] <= 1 \/ Stuck(addr[l])')
      <3>1. lpc'[l] # "incr"
        BY <1>2
      <3>2. CASE counter[a].n = 0
        <4>1. n = 1
          BY <3>2 DEF n
        <4> QED
          BY <1>2, <3>1, <4>1
      <3>3. CASE counter[a].n # 0
        <4>1. lastTry[a] \in Nat /\ clock \in Nat /\ clock - lastTry[a] >= Minute
          BY <1>1, <2>3, <3>3, Durations DEF ThrottleInv, Expiring, Fields
        <4>2. counter[a].expires = Never
          <5> SUFFICES ASSUME counter[a].expires # Never
                       PROVE  FALSE
            OBVIOUS
          <5>1. /\ clock < counter[a].expires /\ counter[a].expires <= lastTry[a] + Minute
                /\ counter[a].expires \in Nat
            BY <1>1 DEF ThrottleInv, Expiring
          <5> QED
            BY <4>1, <5>1, Durations
        <4>3. ASSUME NEW m \in Login, addr[m] = a
              PROVE  lpc[m] # "expire"
          <5>1. lastTry[a] # clock
            BY <4>1, Durations
          <5> QED
            BY <4>3, <5>1 DEF ThrottleInv, Expiring
        <4>4. Stuck(a)
          BY <3>3, <4>2, <4>3 DEF Stuck
        <4>5. Stuck(addr[l])'
          BY <1>1, <1>2, <2>1, <4>4 DEF Stuck
        <4> QED
          BY <3>1, <4>5
      <3> QED
        BY <3>2, <3>3
    <2>4. l \notin quiet
      BY <1>2 DEF ThrottleInv, Silent
    <2> QED
      BY <1>5, <2>2, <2>3, <2>4 DEF Silent
  <1> QED
    BY <1>8, <1>9, <1>10, <1>11 DEF ThrottleInv

\* EXPIRE comes in the tick of its INCR, to a counter no quiet login is stuck at.
LEMMA ExpireStep ==
  ASSUME ThrottleInv, TypeOK, Fields, NEW l \in Login, Expire(l)
  PROVE  ThrottleInv'
  <1> DEFINE a == addr[l]
  <1>1. a \in Address /\ clock \in Nat /\ clock # Never
    BY Durations DEF TypeOK, Fields
  <1>2. /\ lpc[l] = "expire" /\ lpc'[l] = "compare"
        /\ \A m \in Login : m # l => lpc'[m] = lpc[m]
        /\ UNCHANGED <<clock, addr, count, lastTry, quiet, counted>>
    BY DEF Expire, TypeOK, logins, history
  <1>3. /\ counter'[a].n = counter[a].n /\ counter'[a].expires = clock + Minute
        /\ \A b \in Address : b # a => counter'[b] = counter[b]
    BY <1>1 DEF Expire, TypeOK
  <1>4. counter[a].n # 0 /\ lastTry[a] = clock
    BY <1>2 DEF ThrottleInv, Expiring
  <1>5. \A b \in Address : counter'[b].n = counter[b].n
    BY <1>3
  <1>6. \A m \in Login : lpc'[m] # lpc[m] => m = l
    BY <1>2
  <1>7. Numbered'
    BY <1>2, <1>5 DEF ThrottleInv, Numbered, Fields
  <1>8. Guessing'
    BY <1>2 DEF ThrottleInv, Guessing, Guesses
  <1>9. Expiring'
    <2>1. clock < clock + Minute /\ clock + Minute <= lastTry[a] + Minute
      BY <1>1, <1>4, Durations
    <2>2. ASSUME NEW b \in Address
          PROVE  /\ counter'[b].n = 0 => counter'[b].expires = Never
                 /\ counter'[b].n # 0 => lastTry[b] # Never
                 /\ lastTry[b] <= clock
                 /\ counter'[b].expires # Never =>
                      clock < counter'[b].expires /\ counter'[b].expires <= lastTry[b] + Minute
      <3>1. CASE b = a
        BY <1>1, <1>3, <1>4, <2>1, <3>1 DEF ThrottleInv, Expiring
      <3>2. CASE b # a
        BY <1>3, <3>2 DEF ThrottleInv, Expiring
      <3> QED
        BY <3>1, <3>2
    <2>3. ASSUME NEW m \in Login, lpc'[m] = "expire"
          PROVE  counter'[addr[m]].n # 0 /\ lastTry[addr[m]] = clock
      <3>1. lpc[m] = "expire" /\ addr[m] \in Address
        BY <1>2, <2>3 DEF Fields
      <3> QED
        BY <1>5, <3>1 DEF ThrottleInv, Expiring
    <2> QED
      BY <1>2, <2>2, <2>3 DEF Expiring
  <1>10. Silent'
    <2>1. ASSUME NEW m \in quiet, Stuck(addr[m])
          PROVE  Stuck(addr[m])'
      <3>1. m \in Login /\ addr[m] \in Address /\ addr[m] # a
        BY <1>2, <2>1 DEF Stuck, Fields
      <3>2. counter'[addr[m]] = counter[addr[m]]
        BY <1>3, <3>1
      <3>3. \A k \in Login : lpc'[k] = "expire" => lpc[k] = "expire"
        BY <1>2
      <3> QED
        BY <1>2, <2>1, <3>2, <3>3 DEF Stuck
    <2>2. \A m \in Login : lpc'[m] = "incr" => lpc[m] = "incr"
      BY <1>2
    <2>3. quiet \subseteq Login
      BY DEF Fields
    <2> QED
      BY <1>2, <2>1, <2>2, <2>3 DEF ThrottleInv, Silent
  <1> QED
    BY <1>7, <1>8, <1>9, <1>10 DEF ThrottleInv

\* The comparison sorts the logins by their number.
LEMMA CompareStep ==
  ASSUME ThrottleInv, TypeOK, Fields, NEW l \in Login, Compare(l)
  PROVE  ThrottleInv'
  <1>1. /\ lpc[l] = "compare"
        /\ lpc'[l] = (IF count[l] <= Limit THEN "verify" ELSE "throttled")
        /\ \A m \in Login : m # l => lpc'[m] = lpc[m]
        /\ UNCHANGED <<clock, counter, addr, count, lastTry, quiet, counted>>
        /\ count[l] \in Nat
    BY DEF Compare, TypeOK, Fields, redis, history
  <1>2. \A m \in Login : /\ lpc'[m] = "expire" => lpc[m] = "expire"
                         /\ lpc'[m] = "incr" => lpc[m] = "incr"
    BY <1>1
  <1>3. Numbered'
    BY <1>1, <1>2 DEF ThrottleInv, Numbered, Fields
  <1>4. Guessing'
    <2>1. ~(count[l] <= Limit) => count[l] > Limit
      BY <1>1, Durations
    <2> QED
      BY <1>1, <2>1 DEF ThrottleInv, Guessing, Guesses
  <1>5. Expiring'
    BY <1>1, <1>2 DEF ThrottleInv, Expiring
  <1>6. Silent'
    BY <1>1, <1>2 DEF ThrottleInv, Silent, Stuck, Fields
  <1> QED
    BY <1>3, <1>4, <1>5, <1>6 DEF ThrottleInv

\* A counter that expires takes its count along; one without a TTL stays.
LEMMA TickStep ==
  ASSUME ThrottleInv, TypeOK, Fields, Tick
  PROVE  ThrottleInv'
  <1> DEFINE gone == {a \in Address : counter[a].expires = clock + 1}
  <1>1. clock \in Nat /\ clock' = clock + 1 /\ \A l \in Login : lpc[l] # "expire"
    BY Durations DEF Tick, TypeOK
  <1>2. UNCHANGED <<lpc, addr, count, lastTry, quiet>>
    BY DEF Tick, logins
  <1>3. \A a \in Address :
           /\ a \in gone => counter'[a] = Gone /\ counted'[a] = {}
           /\ a \notin gone => counter'[a] = counter[a] /\ counted'[a] = counted[a]
    BY DEF Tick
  <1>4. Numbered'
    BY <1>2, <1>3 DEF ThrottleInv, Numbered
  <1>5. Guessing'
    BY <1>2 DEF ThrottleInv, Guessing
  <1>6. Expiring'
    <2>1. ASSUME NEW b \in Address
          PROVE  /\ counter'[b].n = 0 => counter'[b].expires = Never
                 /\ counter'[b].n # 0 => lastTry[b] # Never
                 /\ lastTry[b] <= clock + 1
                 /\ counter'[b].expires # Never =>
                      clock + 1 < counter'[b].expires /\ counter'[b].expires <= lastTry[b] + Minute
      <3>1. lastTry[b] <= clock /\ lastTry[b] \in Int /\ counter[b].expires \in Int
        <4>1. lastTry[b] \in Nat \cup {Never} /\ counter[b].expires \in Nat \cup {Never}
          BY Durations DEF Fields, TypeOK
        <4>2. Never \in Int
          BY DEF Never
        <4> QED
          BY <4>1, <4>2 DEF ThrottleInv, Expiring
      <3>2. lastTry[b] <= clock + 1
        BY <1>1, <3>1
      <3>3. CASE b \in gone
        BY <1>3, <3>2, <3>3 DEF Gone
      <3>4. CASE b \notin gone
        <4>1. counter[b].expires # clock + 1
          BY <3>4
        <4>2. counter[b].expires # Never => clock + 1 < counter[b].expires
          BY <1>1, <3>1, <4>1 DEF ThrottleInv, Expiring
        <4> QED
          BY <1>3, <3>2, <3>4, <4>2 DEF ThrottleInv, Expiring
      <3> QED
        BY <3>3, <3>4
    <2> QED
      BY <1>1, <1>2, <2>1 DEF Expiring
  <1>7. Silent'
    <2>1. \A a \in Address : Stuck(a) => Stuck(a)'
      <3> SUFFICES ASSUME NEW a \in Address, Stuck(a)
                   PROVE  Stuck(a)'
        OBVIOUS
      <3>1. counter[a].expires # clock + 1
        BY <1>1, Durations DEF Stuck
      <3> QED
        BY <1>2, <1>3, <3>1 DEF Stuck
    <2>2. \A l \in quiet : addr[l] \in Address
      BY DEF Fields
    <2>3. ASSUME NEW l \in quiet, Stuck(addr[l])
          PROVE  Stuck(addr[l])'
      BY <1>2, <2>1, <2>2, <2>3 DEF Stuck
    <2> QED
      BY <1>2, <2>3 DEF ThrottleInv, Silent
  <1> QED
    BY <1>4, <1>5, <1>6, <1>7 DEF ThrottleInv

\* Every step keeps what is known of the throttle.
LEMMA ThrottleStep == ThrottleInv /\ TypeOK /\ Fields /\ [Next]_vars => ThrottleInv'
  <1> SUFFICES ASSUME ThrottleInv, TypeOK, Fields, [Next]_vars
               PROVE  ThrottleInv'
    OBVIOUS
  <1>1. ASSUME NEW l \in Login, ThrottleFails(l)
        PROVE  ThrottleInv'
    <2>1. UNCHANGED <<clock, counter, addr, count, lastTry, quiet, counted>>
      BY <1>1 DEF ThrottleFails, redis, history
    <2>2. \A m \in Login : lpc'[m] = lpc[m] \/ lpc'[m] = "unavailable"
      BY <1>1 DEF ThrottleFails, TypeOK
    <2> QED
      BY <2>1, <2>2, ThrottleIdle
  <1>2. ASSUME NEW l \in Login, Throttle(l)
        PROVE  ThrottleInv'
    BY <1>1, <1>2, IncrStep, ExpireStep, CompareStep DEF Throttle
  <1>3. ASSUME NEW l \in Login, Enter(l)
        PROVE  ThrottleInv'
    <2>1. UNCHANGED <<clock, counter, addr, count, lastTry, quiet, counted>>
      BY <1>3, EnterFrame DEF redis
    <2>2. /\ lpc[l] \in Guesses /\ lpc'[l] \in Guesses
          /\ \A m \in Login : m # l => lpc'[m] = lpc[m]
      BY <1>3 DEF Enter, VerifyPassword, AuditLogin, LoginStoreFails, TypeOK, Guesses
    <2> QED
      BY <2>1, <2>2, ThrottleIdle
  <1>4. ASSUME NEW r \in Request, RequestStep(r)
        PROVE  ThrottleInv'
    <2>1. UNCHANGED <<clock, counter, lpc, addr, count, lastTry, quiet, counted>>
      BY <1>4, RequestFrame DEF redis, logins
    <2> QED
      BY <2>1, ThrottleIdle
  <1>5. CASE Crash
    <2>1. UNCHANGED <<clock, counter, addr, count, lastTry, quiet, counted>>
      BY <1>5 DEF Crash, redis, history
    <2>2. \A m \in Login : lpc'[m] = lpc[m] \/ lpc'[m] = "aborted"
      BY <1>5 DEF Crash
    <2> QED
      BY <2>1, <2>2, ThrottleIdle
  <1>6. CASE UNCHANGED vars
    <2>1. UNCHANGED <<clock, counter, lpc, addr, count, lastTry, quiet, counted>>
      BY <1>6 DEF vars, redis, logins, history
    <2> QED
      BY <2>1, ThrottleIdle
  <1> QED
    BY <1>2, <1>3, <1>4, <1>5, <1>6, TickStep, Kinds

-----------------------------------------------------------------------------
(* The sessions                                                            *)

SessionInv == Rooted /\ Dense /\ Reaches /\ Late /\ LogoutFinal

\* Time, the throttle, the audit log and failures leave what is known of the
\* sessions and their requests.
LEMMA SessionIdle ==
  ASSUME SessionInv, TypeOK, Fields,
         UNCHANGED <<issued, created, lastSeen, token, now, opener, activity, tooLate>>,
         revoked \subseteq revoked', audited \subseteq audited',
         clock' \in Time, clock <= clock',
         \A l \in Login : lpc'[l] = "logged in" => l \in audited',
         \A r \in Request : rpc'[r] = rpc[r] \/ (rpc[r] # "idle" /\ rpc'[r] \in {"aborted", "error"})
  PROVE  SessionInv'
  <1>1. Rooted'
    <2>1. ASSUME NEW s \in issued
          PROVE  created[s] <= clock'
      <3>1. created[s] \in Time /\ clock \in Time /\ created[s] <= clock
        BY DEF SessionInv, Rooted, TypeOK
      <3> QED
        BY <3>1, Later
    <2> QED
      BY <2>1 DEF SessionInv, Rooted
  <1>2. Dense'
    BY DEF SessionInv, Dense, Covered
  <1>3. Reaches'
    BY DEF SessionInv, Reaches
  <1>4. Late' /\ LogoutFinal'
    BY DEF SessionInv, Late, LogoutFinal, Inside, TypeOK
  <1> QED
    BY <1>1, <1>2, <1>3, <1>4 DEF SessionInv

\* A login opens a session that is not in use: its first activity is the login.
LEMMA OpenStep ==
  ASSUME SessionInv, TypeOK, Fields, NEW l \in Login, NEW s \in Session \ issued,
         lpc[l] = "verify", lpc' = [lpc EXCEPT ![l] = "audit"],
         issued' = issued \cup {s},
         created' = [created EXCEPT ![s] = clock],
         lastSeen' = [lastSeen EXCEPT ![s] = clock],
         opener' = [opener EXCEPT ![s] = l],
         activity' = [activity EXCEPT ![s] = @ \cup {clock}],
         UNCHANGED <<clock, revoked, audited, requests, tooLate>>
  PROVE  SessionInv'
  <1>1. /\ created'[s] = clock /\ lastSeen'[s] = clock /\ opener'[s] = l /\ activity'[s] = {clock}
        /\ \A q \in Session : q # s =>
              /\ created'[q] = created[q] /\ lastSeen'[q] = lastSeen[q]
              /\ opener'[q] = opener[q] /\ activity'[q] = activity[q]
    BY DEF SessionInv, Rooted, TypeOK, Fields
  <1>2. clock \in Nat /\ clock \in Time
    BY Durations DEF TypeOK
  <1>3. issued \subseteq Session /\ s \notin issued /\ \A r \in Request : rpc[r] # "idle" => token[r] # s
    BY DEF SessionInv, Rooted, TypeOK
  <1>4. /\ UNCHANGED <<rpc, token, now>>
        /\ \A m \in Login : lpc'[m] = "logged in" => lpc[m] = "logged in"
    BY DEF requests, TypeOK
  <1>5. Rooted'
    <2>1. \A m \in Login : lpc'[m] = "logged in" => m \in audited
      BY <1>4 DEF SessionInv, Rooted
    <2>2. ASSUME NEW q \in issued'
          PROVE  opener'[q] \in Login /\ created'[q] <= clock /\ lastSeen'[q] \in activity'[q]
      <3>1. CASE q = s
        BY <1>1, <1>2, <3>1
      <3>2. CASE q # s
        <4>1. q \in issued /\ q \in Session
          BY <1>3, <3>2
        <4> QED
          BY <1>1, <3>2, <4>1 DEF SessionInv, Rooted
      <3> QED
        BY <3>1, <3>2
    <2>3. \A q \in Session \ issued' : activity'[q] = {}
      BY <1>1 DEF SessionInv, Rooted
    <2>4. ASSUME NEW r \in Request, rpc'[r] # "idle"
          PROVE  /\ token'[r] \in issued' /\ opener'[token'[r]] \in audited'
                 /\ created'[token'[r]] <= now'[r]
      <3>1. rpc[r] # "idle" /\ token'[r] = token[r] /\ now'[r] = now[r]
        BY <1>4, <2>4
      <3>2. /\ token[r] \in issued /\ opener[token[r]] \in audited
            /\ created[token[r]] <= now[r]
        BY <3>1 DEF SessionInv, Rooted
      <3>3. token[r] # s /\ token[r] \in Session
        BY <1>3, <3>1, <3>2
      <3>4. opener'[token[r]] = opener[token[r]] /\ created'[token[r]] = created[token[r]]
        BY <1>1, <3>3
      <3> QED
        BY <3>1, <3>2, <3>4
    <2>5. clock' = clock /\ audited' = audited
      OBVIOUS
    <2>6. \A q \in issued' : created'[q] <= clock'
      BY <2>2, <2>5
    <2> QED
      BY <2>1, <2>2, <2>3, <2>4, <2>5, <2>6 DEF Rooted
  <1>6. Dense'
    <2> SUFFICES ASSUME NEW q \in issued', NEW t \in activity'[q], NEW n \in Time,
                        created'[q] <= n, n <= t
                 PROVE  \E u \in activity'[q] : u <= n /\ n - u < Idle
      BY DEF Dense, Covered
    <2>1. CASE q = s
      <3>1. t = clock /\ n \in Nat /\ clock <= n
        BY <1>1, <2>1, Durations
      <3>2. n = clock /\ n - clock < Idle
        BY <1>2, <3>1, Durations
      <3> QED
        BY <1>1, <1>2, <2>1, <3>2
    <2>2. CASE q # s
      <3>1. q \in issued /\ t \in activity[q] /\ created[q] <= n
        BY <1>1, <1>3, <2>2
      <3>2. Covered(q, n)
        BY <3>1 DEF SessionInv, Dense
      <3> QED
        BY <1>1, <1>3, <2>2, <3>1, <3>2 DEF Covered
    <2> QED
      BY <2>1, <2>2
  <1>7. Reaches'
    BY <1>1, <1>3, <1>4 DEF SessionInv, Reaches, Fields
  <1>8. Late' /\ LogoutFinal'
    BY <1>4 DEF SessionInv, Late, LogoutFinal
  <1> QED
    BY <1>5, <1>6, <1>7, <1>8 DEF SessionInv

\* A request begins with a session whose login was answered, hence audited.
LEMMA BeginStep ==
  ASSUME SessionInv, TypeOK, Fields, NEW r \in Request,
         NEW kind \in {"read", "write", "logout"}, NEW hasToken \in BOOLEAN,
         Begin(r, kind, hasToken)
  PROVE  SessionInv'
  <1>1. /\ rpc[r] = "idle" /\ rpc'[r] = "select" /\ now'[r] = clock
        /\ \A q \in Request : q # r => rpc'[q] = rpc[q] /\ now'[q] = now[q]
        /\ token[r] \in issued /\ lpc[opener[token[r]]] = "logged in"
        /\ tooLate' = IF token[r] \in revoked THEN tooLate \cup {r} ELSE tooLate
        /\ UNCHANGED <<clock, issued, created, lastSeen, revoked, audited, lpc, token, opener, activity>>
    BY DEF Begin, TypeOK, sessions, logins
  <1>2. opener[token[r]] \in audited /\ created[token[r]] <= clock
    BY <1>1 DEF SessionInv, Rooted
  <1>3. Rooted'
    BY <1>1, <1>2 DEF SessionInv, Rooted
  <1>4. Dense'
    BY <1>1 DEF SessionInv, Dense, Covered
  <1>5. Reaches'
    BY <1>1 DEF SessionInv, Reaches
  <1>6. Late' /\ LogoutFinal'
    BY <1>1 DEF SessionInv, Late, LogoutFinal, Inside, TypeOK
  <1> QED
    BY <1>3, <1>4, <1>5, <1>6 DEF SessionInv

\* validate_session lets in only a request whose session is not revoked and was
\* active less than Idle before, or later.
LEMMA SelectStep ==
  ASSUME SessionInv, TypeOK, Fields, NEW r \in Request, Select(r)
  PROVE  SessionInv'
  <1>1. /\ rpc[r] = "select" /\ rpc'[r] = (IF Valid(r) THEN "touch" ELSE "rejected")
        /\ \A q \in Request : q # r => rpc'[q] = rpc[q]
        /\ UNCHANGED <<clock, issued, created, lastSeen, revoked, audited, lpc, token, now, opener,
                       activity, tooLate>>
    <2>1. rpc[r] = "select" /\ rpc' = [rpc EXCEPT ![r] = IF Valid(r) THEN "touch" ELSE "rejected"]
      BY DEF Select
    <2>2. rpc'[r] = (IF Valid(r) THEN "touch" ELSE "rejected") /\ \A q \in Request : q # r => rpc'[q] = rpc[q]
      BY <2>1 DEF TypeOK
    <2>3. UNCHANGED <<clock, issued, created, lastSeen, revoked, audited, lpc, token, now, opener,
                      activity, tooLate>>
      BY DEF Select, sessions, logins, history
    <2> QED
      BY <2>1, <2>2, <2>3
  <1>2. Valid(r) => token[r] \in issued \ revoked /\ now[r] < lastSeen[token[r]] + Idle
    <2>1. now[r] \in Nat /\ lastSeen[token[r]] \in Nat
      BY Durations DEF TypeOK, Fields
    <2> QED
      BY <2>1, Durations DEF Valid
  <1>3. Rooted'
    BY <1>1 DEF SessionInv, Rooted
  <1>4. Dense'
    BY <1>1 DEF SessionInv, Dense, Covered
  <1>5. Reaches'
    BY <1>1, <1>2 DEF SessionInv, Reaches, Rooted
  <1>6. Late' /\ LogoutFinal'
    BY <1>1, <1>2 DEF SessionInv, Late, LogoutFinal, Inside, TypeOK
  <1> QED
    BY <1>3, <1>4, <1>5, <1>6 DEF SessionInv

\* Writing last_seen_at, however late, adds an activity that leaves no gap.
LEMMA TouchStep ==
  ASSUME SessionInv, TypeOK, Fields, NEW r \in Request, Touch(r)
  PROVE  SessionInv'
  <1> DEFINE s == token[r]
  <1>1. /\ rpc[r] = "touch" /\ rpc'[r] \in {"revoke", "accepted"}
        /\ \A q \in Request : q # r => rpc'[q] = rpc[q]
        /\ UNCHANGED <<clock, issued, created, revoked, audited, lpc, token, now, opener, tooLate>>
    BY DEF Touch, TypeOK, logins
  <1>2. s \in issued /\ s \in Session /\ now[r] \in Time
    BY <1>1 DEF SessionInv, Rooted, Fields, TypeOK
  <1>3. /\ lastSeen'[s] = now[r] /\ activity'[s] = activity[s] \cup {now[r]}
        /\ \A q \in Session : q # s => lastSeen'[q] = lastSeen[q] /\ activity'[q] = activity[q]
    BY <1>2 DEF Touch, TypeOK, Fields
  <1>4. \A q \in Session : activity[q] \subseteq activity'[q]
    BY <1>2, <1>3
  <1>5. issued \subseteq Session
    BY DEF TypeOK
  <1> HIDE DEF s
  <1>6. Rooted'
    <2>1. \A q \in issued : lastSeen'[q] \in activity'[q]
      BY <1>2, <1>3, <1>5 DEF SessionInv, Rooted
    <2>2. \A q \in Session \ issued : activity'[q] = {}
      BY <1>2, <1>3 DEF SessionInv, Rooted
    <2>3. \A q \in Request : rpc'[q] # "idle" => rpc[q] # "idle"
      BY <1>1
    <2> QED
      BY <1>1, <2>1, <2>2, <2>3 DEF SessionInv, Rooted
  <1>7. Dense'
    <2> SUFFICES ASSUME NEW q \in issued, NEW t \in activity'[q], NEW n \in Time,
                        created[q] <= n, n <= t
                 PROVE  \E u \in activity'[q] : u <= n /\ n - u < Idle
      BY <1>1 DEF Dense, Covered
    <2>1. ASSUME Covered(q, n)
          PROVE  \E u \in activity'[q] : u <= n /\ n - u < Idle
      BY <1>4, <1>5, <2>1 DEF Covered
    <2>2. CASE t \in activity[q]
      BY <2>1, <2>2 DEF SessionInv, Dense
    <2>3. CASE t \notin activity[q]
      <3>1. q = s /\ t = now[r]
        BY <1>2, <1>3, <1>5, <2>3
      <3>2. PICK m \in activity[s] : now[r] < m + Idle
        BY <1>1 DEF SessionInv, Reaches, s
      <3>3. activity[s] \subseteq Time
        BY <1>2 DEF Fields
      <3>4. m \in Nat /\ n \in Nat /\ now[r] \in Nat /\ Idle \in Nat
        BY <1>2, <3>3, Durations
      <3>5. CASE n <= m
        <4>1. Covered(q, n)
          BY <3>1, <3>2, <3>5 DEF SessionInv, Dense
        <4> QED
          BY <2>1, <4>1
      <3>6. CASE m <= n
        <4>1. n - m < Idle
          BY <3>1, <3>2, <3>4
        <4> QED
          BY <1>2, <1>4, <3>1, <3>6, <4>1
      <3> QED
        BY <3>4, <3>5, <3>6
    <2> QED
      BY <2>2, <2>3
  <1>8. Reaches'
    <2> SUFFICES ASSUME NEW q \in Request, rpc'[q] = "touch"
                 PROVE  \E m \in activity'[token[q]] : now[q] < m + Idle
      BY <1>1 DEF Reaches
    <2>1. rpc[q] = "touch" /\ token[q] \in Session
      BY <1>1 DEF Fields
    <2> QED
      BY <1>4, <2>1 DEF SessionInv, Reaches
  <1>9. Late' /\ LogoutFinal'
    <2>1. r \notin tooLate
      BY <1>1 DEF SessionInv, LogoutFinal
    <2> QED
      BY <1>1, <2>1 DEF SessionInv, Late, LogoutFinal, TypeOK
  <1> QED
    BY <1>6, <1>7, <1>8, <1>9 DEF SessionInv

\* Once inside, a logout revokes and is audited; it did not begin too late.
LEMMA LogoutStep ==
  ASSUME SessionInv, TypeOK, Fields, NEW r \in Request, RevokeSession(r) \/ AuditLogout(r)
  PROVE  SessionInv'
  <1>1. /\ rpc[r] \in {"revoke", "audit"} /\ rpc'[r] \in {"audit", "logged out"}
        /\ \A q \in Request : q # r => rpc'[q] = rpc[q]
        /\ UNCHANGED <<clock, issued, created, lastSeen, lpc, token, now, opener, activity, tooLate>>
        /\ revoked \subseteq revoked' /\ audited \subseteq audited'
    BY DEF RevokeSession, AuditLogout, TypeOK, logins, history
  <1>2. Rooted'
    <2>1. \A q \in Request : rpc'[q] # "idle" => rpc[q] # "idle"
      BY <1>1
    <2> QED
      BY <1>1, <2>1 DEF SessionInv, Rooted
  <1>3. Dense'
    BY <1>1 DEF SessionInv, Dense, Covered
  <1>4. Reaches'
    BY <1>1 DEF SessionInv, Reaches
  <1>5. Late' /\ LogoutFinal'
    <2>1. r \notin tooLate
      BY <1>1 DEF SessionInv, LogoutFinal, Inside
    <2> QED
      BY <1>1, <2>1 DEF SessionInv, Late, LogoutFinal, TypeOK
  <1> QED
    BY <1>2, <1>3, <1>4, <1>5 DEF SessionInv

\* Every step keeps what is known of the sessions.
LEMMA SessionStep == SessionInv /\ TypeOK /\ TypeOK' /\ Fields /\ [Next]_vars => SessionInv'
  <1> SUFFICES ASSUME SessionInv, TypeOK, TypeOK', Fields, [Next]_vars
               PROVE  SessionInv'
    OBVIOUS
  <1>0. clock \in Nat /\ clock' \in Time /\ clock <= clock
    <2>1. clock \in Time /\ clock' \in Time
      BY DEF TypeOK
    <2>2. clock \in Nat
      BY <2>1, Durations
    <2> QED
      BY <2>1, <2>2
  <1>1. \A l \in Login : lpc[l] = "logged in" => l \in audited
    BY DEF SessionInv, Rooted
  <1>2. ASSUME NEW l \in Login, Throttle(l)
        PROVE  SessionInv'
    <2>1. \A m \in Login : lpc'[m] = "logged in" => lpc[m] = "logged in"
      BY <1>2 DEF Throttle, Incr, Expire, ThrottleFails, Compare, TypeOK
    <2>2. UNCHANGED <<clock, issued, created, lastSeen, revoked, audited, rpc, token, now, opener,
                      activity, tooLate>>
      BY <1>2, ThrottleFrame DEF sessions, requests
    <2> QED
      BY <1>0, <1>1, <2>1, <2>2, SessionIdle
  <1>3. ASSUME NEW l \in Login, AuditLogin(l) \/ LoginStoreFails(l)
        PROVE  SessionInv'
    <2>1. \A m \in Login : lpc'[m] = "logged in" => lpc[m] = "logged in" \/ m \in audited'
      BY <1>3 DEF AuditLogin, LoginStoreFails, TypeOK
    <2>2. /\ UNCHANGED <<clock, issued, created, lastSeen, revoked, rpc, token, now, opener,
                         activity, tooLate>>
          /\ audited \subseteq audited'
      BY <1>3 DEF AuditLogin, LoginStoreFails, sessions, requests, history
    <2> QED
      BY <1>0, <1>1, <2>1, <2>2, SessionIdle
  <1>4. ASSUME NEW l \in Login, VerifyPassword(l)
        PROVE  SessionInv'
    <2>1. lpc[l] = "verify" /\ UNCHANGED <<clock, revoked, audited, requests, tooLate>>
      BY <1>4 DEF VerifyPassword
    <2>2. CASE /\ lpc' = [lpc EXCEPT ![l] = "audit denied"]
               /\ UNCHANGED <<issued, created, lastSeen, opener, activity>>
      <3>1. \A m \in Login : lpc'[m] = "logged in" => lpc[m] = "logged in"
        BY <2>2 DEF TypeOK
      <3>2. UNCHANGED <<rpc, token, now>>
        BY <2>1 DEF requests
      <3> QED
        BY <1>0, <1>1, <2>1, <2>2, <3>1, <3>2, SessionIdle
    <2>3. CASE \E s \in Session \ issued :
                 /\ issued' = issued \cup {s}
                 /\ created' = [created EXCEPT ![s] = clock]
                 /\ lastSeen' = [lastSeen EXCEPT ![s] = clock]
                 /\ opener' = [opener EXCEPT ![s] = l]
                 /\ activity' = [activity EXCEPT ![s] = @ \cup {clock}]
                 /\ lpc' = [lpc EXCEPT ![l] = "audit"]
      BY <2>1, <2>3, OpenStep
    <2> QED
      BY <1>4, <2>2, <2>3 DEF VerifyPassword
  <1>5. ASSUME NEW r \in Request, RequestStep(r)
        PROVE  SessionInv'
    <2>1. CASE RequestStoreFails(r)
      <3>1. UNCHANGED <<clock, issued, created, lastSeen, revoked, audited, lpc, token, now, opener,
                        activity, tooLate>>
        BY <2>1 DEF RequestStoreFails, sessions, logins, history
      <3>2. \A q \in Request : rpc'[q] = rpc[q] \/ (rpc[q] # "idle" /\ rpc'[q] = "error")
        BY <2>1 DEF RequestStoreFails, TypeOK
      <3> QED
        BY <1>0, <1>1, <3>1, <3>2, SessionIdle
    <2> QED
      BY <1>5, <2>1, BeginStep, SelectStep, TouchStep, LogoutStep DEF RequestStep
  <1>6. CASE Crash
    <2>1. UNCHANGED <<clock, issued, created, lastSeen, revoked, audited, token, now, opener,
                      activity, tooLate>>
      BY <1>6 DEF Crash, sessions, history
    <2>2. \A m \in Login : lpc'[m] = "logged in" => lpc[m] = "logged in"
      BY <1>6 DEF Crash
    <2>3. \A q \in Request : rpc'[q] = rpc[q] \/ (rpc[q] # "idle" /\ rpc'[q] = "aborted")
      BY <1>6 DEF Crash
    <2> QED
      BY <1>0, <1>1, <2>1, <2>2, <2>3, SessionIdle
  <1>7. CASE Tick
    <2>1. UNCHANGED <<issued, created, lastSeen, revoked, audited, lpc, rpc, token, now, opener,
                      activity, tooLate>>
      BY <1>7 DEF Tick, sessions, logins, requests
    <2>2. clock <= clock'
      BY <1>0, <1>7 DEF Tick
    <2> QED
      BY <1>0, <1>1, <2>1, <2>2, SessionIdle
  <1>8. CASE UNCHANGED vars
    <2>1. UNCHANGED <<clock, issued, created, lastSeen, revoked, audited, lpc, rpc, token, now, opener,
                      activity, tooLate>>
      BY <1>8 DEF vars, sessions, logins, requests, history
    <2> QED
      BY <1>0, <1>1, <2>1, SessionIdle
  <1> QED
    BY <1>2, <1>3, <1>4, <1>5, <1>6, <1>7, <1>8, Kinds DEF Enter

-----------------------------------------------------------------------------
(* Theorems                                                                *)

\* IInv holds initially and is preserved by every step.
THEOREM InductiveInvariant == Spec => []IInv
  <1>1. Init => IInv
    <2> SUFFICES ASSUME Init PROVE IInv
      OBVIOUS
    <2>1. TypeOK /\ Fields
      BY InitType
    <2>2. /\ lpc = [l \in Login |-> "incr"] /\ rpc = [r \in Request |-> "idle"] /\ clock = 0
          /\ issued = {} /\ quiet = {} /\ tooLate = {}
          /\ counted = [a \in Address |-> {}] /\ lastTry = [a \in Address |-> Never]
          /\ counter = [a \in Address |-> Gone] /\ activity = [s \in Session |-> {}]
      BY DEF Init
    <2>3. Numbered /\ Guessing /\ Silent
      BY <2>2 DEF Numbered, Guessing, Guesses, Silent
    <2>4. Expiring
      <3>1. Never <= 0
        BY DEF Never
      <3> QED
        BY <2>2, <3>1 DEF Expiring, Gone
    <2>5. Rooted /\ Dense /\ Reaches /\ Late /\ LogoutFinal
      BY <2>2 DEF Rooted, Dense, Reaches, Late, LogoutFinal
    <2> QED
      BY <2>1, <2>3, <2>4, <2>5 DEF IInv
  <1>2. IInv /\ [Next]_vars => IInv'
    <2> SUFFICES ASSUME IInv, [Next]_vars PROVE IInv'
      OBVIOUS
    <2>1. TypeOK /\ Fields /\ ThrottleInv /\ SessionInv
      BY DEF IInv, ThrottleInv, SessionInv
    <2>2. TypeOK' /\ Fields'
      BY <2>1, TypeStep DEF SessionInv
    <2>3. ThrottleInv' /\ SessionInv'
      BY <2>1, <2>2, ThrottleStep, SessionStep
    <2> QED
      BY <2>2, <2>3 DEF IInv, ThrottleInv, SessionInv
  <1> QED
    BY <1>1, <1>2, PTL DEF Spec

\* Spec keeps every variable in its type.
THEOREM TypeCorrect == Spec => []TypeOK
  BY InductiveInvariant, PTL DEF IInv

\* The life of one counter lets at most Limit logins try a password: those that
\* do carry different numbers from 1 to Limit.
THEOREM GuessesAlwaysBounded == Spec => []GuessesBounded
  <1>1. IInv => GuessesBounded
    <2> SUFFICES ASSUME IInv, NEW a \in Address
                 PROVE  Cardinality({l \in counted[a] : lpc[l] \in Guesses}) <= Limit
      BY DEF GuessesBounded, Guesses
    <2> DEFINE S == {l \in counted[a] : lpc[l] \in Guesses}
               f == [l \in S |-> count[l]]
    <2>1. /\ \A l \in S : l \in Login /\ count[l] \in Nat /\ count[l] >= 1 /\ count[l] <= Limit
          /\ \A l, m \in S : count[l] = count[m] => l = m
      <3>1. \A l \in S : l \in counted[a] /\ l \in Login /\ lpc[l] \in Guesses
        BY DEF IInv, Fields
      <3>2. \A l \in S : count[l] \in 1..counter[a].n /\ counter[a].n \in Nat
        BY <3>1 DEF IInv, Numbered, TypeOK
      <3>3. \A l \in S : count[l] <= Limit
        BY <3>1 DEF IInv, Guessing
      <3>4. \A l, m \in S : count[l] = count[m] => l = m
        BY <3>1 DEF IInv, Numbered
      <3> QED
        BY <3>1, <3>2, <3>3, <3>4
    <2> HIDE DEF S
    <2>2. \A l \in S : count[l] \in 1..Limit
      BY <2>1, Durations
    <2>3. f \in Injection(S, 1..Limit)
      BY <2>1, <2>2 DEF Injection, IsInjective
    <2>4. IsFiniteSet(1..Limit) /\ Cardinality(1..Limit) = Limit
      <3>1. Limit \in Int /\ ~(1 > Limit) /\ Limit - 1 + 1 = Limit
        BY Durations
      <3> QED
        BY <3>1, FS_Interval
    <2>5. Cardinality(S) <= Cardinality(1..Limit)
      BY <2>3, <2>4, FS_Injection
    <2> QED
      BY <2>4, <2>5 DEF S
  <1> QED
    BY <1>1, InductiveInvariant, PTL

\* No request that begins after the revocation of its session is let in.
THEOREM LogoutAlwaysFinal == Spec => []LogoutFinal
  BY InductiveInvariant, PTL DEF IInv

\* Whoever is let in came with a session whose opening is in the audit log.
THEOREM LoginsAlwaysAudited == Spec => []LoginsAudited
  <1>1. IInv => LoginsAudited
    BY DEF IInv, Rooted, LoginsAudited, Inside
  <1> QED
    BY <1>1, InductiveInvariant, PTL

\* A login after a quiet minute is throttled only by a counter that lost its
\* EXPIRE and stays for good.
THEOREM QuietAlwaysAdmitted == Spec => []QuietAddressAdmitted
  <1>1. IInv => QuietAddressAdmitted
    <2> SUFFICES ASSUME IInv, NEW l \in quiet, lpc[l] = "throttled"
                 PROVE  counter[addr[l]].expires = Never
      BY DEF QuietAddressAdmitted
    <2>1. l \in Login /\ count[l] \in Nat /\ count[l] > Limit
      BY DEF IInv, Fields, Guessing
    <2>2. ~(count[l] <= 1)
      BY <2>1, Durations
    <2> QED
      BY <2>2 DEF IInv, Silent, Stuck
  <1> QED
    BY <1>1, InductiveInvariant, PTL

\* A request is let in only on real activity less than Idle before it, and
\* within the lifetime of its session, however last_seen_at was overwritten.
THEOREM SessionsAlwaysBounded == Spec => SessionBounded
  <1>1. IInv /\ [Next]_vars =>
          [\A r \in Request : rpc[r] = "select" /\ rpc'[r] = "touch" =>
             /\ \E t \in activity[token[r]] : t <= now[r] /\ now[r] - t < Idle
             /\ now[r] - created[token[r]] < Absolute]_vars
    <2> SUFFICES ASSUME IInv, Next, NEW r \in Request, rpc[r] = "select", rpc'[r] = "touch"
                 PROVE  /\ \E t \in activity[token[r]] : t <= now[r] /\ now[r] - t < Idle
                        /\ now[r] - created[token[r]] < Absolute
      OBVIOUS
    <2> DEFINE s == token[r]
    <2>1. Select(r)
      <3>1. TypeOK
        BY DEF IInv
      <3>2. \A l \in Login : Throttle(l) \/ Enter(l) => rpc' = rpc
        BY ThrottleFrame, EnterFrame DEF requests
      <3>3. Tick => rpc' = rpc
        BY DEF Tick, requests
      <3>4. ~Crash
        BY DEF Crash
      <3>5. \A q \in Request : RequestStep(q) => q = r
        BY <3>1 DEF TypeOK, RequestStep, Begin, Select, Touch, RevokeSession, AuditLogout,
           RequestStoreFails
      <3>6. RequestStep(r) => Select(r)
        BY <3>1 DEF TypeOK, RequestStep, Begin, Touch, RevokeSession, AuditLogout,
           RequestStoreFails
      <3> QED
        BY <3>2, <3>3, <3>4, <3>5, <3>6 DEF Next, LoginStep, Throttle, Enter
    <2>2. Valid(r)
      BY <2>1 DEF Select, IInv, TypeOK
    <2>3. /\ s \in issued /\ s \in Session
          /\ created[s] + Absolute > now[r] /\ lastSeen[s] + Idle > now[r]
      BY <2>2 DEF Valid, IInv, TypeOK
    <2>4. now[r] \in Time /\ created[s] \in Time /\ lastSeen[s] \in Time /\ activity[s] \subseteq Time
      BY <2>3 DEF IInv, TypeOK, Fields
    <2>5. lastSeen[s] \in activity[s] /\ created[s] <= now[r]
      BY <2>3 DEF IInv, Rooted
    <2>6. Dense
      BY DEF IInv
    <2> HIDE DEF s
    <2>7. now[r] \in Nat /\ created[s] \in Nat /\ lastSeen[s] \in Nat
      BY <2>4, Durations
    <2>8. now[r] - created[s] < Absolute
      BY <2>3, <2>7, Durations
    <2>9. CASE lastSeen[s] <= now[r]
      <3>1. now[r] - lastSeen[s] < Idle
        BY <2>3, <2>7, Durations
      <3> QED
        BY <2>5, <2>8, <2>9, <3>1 DEF s
    <2>10. CASE now[r] <= lastSeen[s]
      <3>1. Covered(s, now[r])
        BY <2>3, <2>4, <2>5, <2>6, <2>10 DEF Dense
      <3> QED
        BY <2>8, <3>1 DEF Covered, s
    <2> QED
      BY <2>7, <2>9, <2>10
  <1> QED
    BY <1>1, InductiveInvariant, PTL DEF Spec, SessionBounded
=============================================================================
