---------------------------- MODULE GatewayProofs ----------------------------
(***************************************************************************)
(* Proofs about the path of a public request, module Gateway, for every    *)
(* set of requests, applications, capabilities, credentials and payloads,  *)
(* every configuration of the targets and every fault.                     *)
(*                                                                         *)
(* A request reads the registry five times and keeps what it saw in pc,    *)
(* lim and rule.  The inductive invariant says, for each place a request   *)
(* can stand, what the gate told it (Gated), whether it can have called    *)
(* the upstream (Called), what its rules stand for (Ruled) and what is     *)
(* recorded (Recording); and for the requests that came too late or whose  *)
(* application was disabled, where they can no longer be (Late, Stopped).  *)
(***************************************************************************)
EXTENDS Gateway, SequenceTheorems, TLAPS

-----------------------------------------------------------------------------
(* The inductive invariant                                                 *)

BeforeGate == {"new", "authenticate", "is active", "authorize", "get quota", "check quota"}

\* Where a request stands tells what the quota gate answered it; only a
\* request whose header is missing gets as far as validation without a charge.
Gated ==
    \A r \in Request :
        /\ pc[r] \in BeforeGate => verdict[r] = "none"
        /\ pc[r] = "quota reply" => verdict[r] \in {"yes", "no"}
        /\ pc[r] = "context" => verdict[r] = "yes"
        /\ pc[r] \in {"manager", "validate"} =>
              verdict[r] = "yes" \/ (verdict[r] = "none" /\ load[r].form = "bad header")
        /\ pc[r] \in {"target", "resolve", "upstream", "record", "respond"} => verdict[r] = "yes"

\* The upstream is called on the way from "upstream" to an outcome, nowhere else.
Called ==
    \A r \in Request :
        /\ calls[r] \in {0, 1}
        /\ \/ pc[r] \in {"record", "respond", "served", "failed", "internal", "aborted"}
           \/ calls[r] = 0

\* Rules are built after the gate, and hold a target only for an application
\* that was entitled after the charge.
Ruled ==
    \A r \in Request :
        /\ verdict[r] = "yes" /\ Allows(AppOf(r), cap[r]) => r \in entitled
        /\ pc[r] \in BeforeGate \cup {"quota reply", "context", "manager"} => ~rule[r]
        /\ verdict[r] = "yes" /\ rule[r] => r \in entitled
        /\ pc[r] = "upstream" => rule[r]

\* An answer is recorded once, on the way to the response that carries it.
Recording ==
    \A r \in Request :
        /\ pc[r] \in {"record", "respond"} =>
              /\ answer[r] \in {"success", "error"}
              /\ answer[r] = "success" => calls[r] = 1
        /\ pc[r] = "respond" => recorded[r] = <<answer[r]>>

\* A request that came with a revoked credential gets no further than
\* authentication.
Late ==
    \A r \in late :
        /\ cred[r] \notin live
        /\ pc[r] \in {"authenticate", "rejected", "internal", "aborted"}

\* A request cut off has a disabled application, and is not at the upstream.
Stopped ==
    \A r \in cut : AppOf(r) \notin active /\ pc[r] \notin {"new", "upstream"}

IInv == TypeOK /\ Gated /\ Called /\ Ruled /\ Recording /\ Late /\ Stopped
          /\ UpstreamGated /\ RevokedNeverCharged /\ RecordedAsAnswered

-----------------------------------------------------------------------------
(* Types                                                                   *)

\* What the types need of the constants.
LEMMA Constants ==
  /\ Owner \in [Cred -> App]
  /\ MaxLimit \in Nat \ {0}
  /\ Window \in Nat
  BY GatewayAssumption

\* The arithmetic of limits, windows and counters.
LEMMA Ranges ==
  /\ 1..MaxLimit \subseteq 0..MaxLimit /\ 0 \in 0..MaxLimit
  /\ Window \in 0..Window
  /\ \A n \in 0..Window : (IF n = 0 THEN 0 ELSE n - 1) \in 0..Window
  /\ \A n \in Nat : n + 1 \in Nat
  BY Constants

\* The application and the key of a request.
LEMMA AppType ==
  ASSUME TypeOK, NEW r \in Request
  PROVE  AppOf(r) \in App /\ KeyOf(r) \in Key
  BY Constants DEF TypeOK, AppOf, KeyOf, Key

\* The initial states are well typed.
LEMMA InitType == Init => TypeOK
  <1> SUFFICES ASSUME Init PROVE TypeOK
    OBVIOUS
  <1>1. (CHOOSE c \in Cred : TRUE) \in Cred /\ (CHOOSE c \in Cap : TRUE) \in Cap
    BY GatewayAssumption
  <1>2. cred \in [Request -> Cred] /\ cap \in [Request -> Cap]
    BY <1>1 DEF Init
  <1>3. recorded \in [Request -> Seq({"success", "error"})]
    BY DEF Init
  <1>4. /\ charged \in [Key -> SUBSET Request] /\ left \in [Key -> 0..Window]
        /\ verdict \in [Request -> {"none", "yes", "no", "error"}]
    BY Constants DEF Init, Gate!Init
  <1> QED
    BY <1>2, <1>3, <1>4, Ranges DEF Init, TypeOK, Running, Final, Rejections, NoLoad

\* Every step keeps the types.
LEMMA TypeStep == TypeOK /\ Recording /\ [Next]_vars => TypeOK'
  <1> SUFFICES ASSUME TypeOK, Recording, [Next]_vars
               PROVE  TypeOK'
    OBVIOUS
  <1> USE DEF TypeOK, Goto, Running, Final, Rejections, registry, gate, locals, history
  <1>1. ASSUME NEW r \in Request, NEW k \in Cred, NEW c \in Cap, NEW p \in Payload,
               Arrive(r, k, c, p)
        PROVE  TypeOK'
    BY <1>1 DEF Arrive
  <1>2. ASSUME NEW r \in Request,
               \/ Authenticate(r) \/ SecretUnreadable(r) \/ IsActive(r) \/ Authorize(r)
               \/ BuildContext(r) \/ ValidateBody(r) \/ StoreFails(r)
        PROVE  TypeOK'
    BY <1>2 DEF Authenticate, SecretUnreadable, IsActive, Authorize, BuildContext,
       ValidateBody, StoreFails
  <1>3. ASSUME NEW r \in Request, GetQuota(r)
        PROVE  TypeOK'
    <2>1. AppOf(r) \in App /\ cap[r] \in Cap
      BY AppType
    <2>2. limit[AppOf(r)] \in [Cap -> 0..MaxLimit]
      BY <2>1
    <2>3. limit[AppOf(r)][cap[r]] \in 0..MaxLimit
      BY <2>1, <2>2
    <2> QED
      BY <1>3, <2>3 DEF GetQuota
  <1>4. ASSUME NEW r \in Request, CheckQuota(r)
        PROVE  TypeOK'
    <2> DEFINE k == KeyOf(r)
    <2>1. k \in Key
      BY AppType
    <2>2. charged' \in [Key -> SUBSET Request] /\ left' \in [Key -> 0..Window]
      <3>1. CASE Gate!Admit(r)
        <4>1. /\ charged' = [charged EXCEPT ![k] = @ \cup {r}]
              /\ left' = [left EXCEPT ![k] = IF Gate!Open(k) THEN @ ELSE Window]
          BY <3>1 DEF Gate!Admit
        <4>2. Window \in 0..Window
          BY Ranges
        <4> HIDE DEF k
        <4> QED
          BY <2>1, <4>1, <4>2
      <3>2. CASE Gate!Refuse(r) \/ Gate!Fail({r})
        BY <3>2 DEF Gate!Refuse, Gate!Fail
      <3> QED
        BY <1>4, <3>1, <3>2 DEF CheckQuota
    <2>3. verdict' \in [Request -> {"none", "yes", "no", "error"}]
      <3>1. \/ \E v \in {"yes", "no"} : verdict' = [verdict EXCEPT ![r] = v]
            \/ verdict' = [q \in Request |-> IF q \in {r} THEN "error" ELSE verdict[q]]
        BY <1>4 DEF CheckQuota, Gate!Admit, Gate!Refuse, Gate!Fail
      <3> QED
        BY <3>1
    <2>4. pc' \in [Request -> {"new"} \cup Running \cup Final]
      <3>1. \E place \in {"quota reply", "unavailable"} : Goto(r, place)
        BY <1>4 DEF CheckQuota
      <3> QED
        BY <3>1 DEF Goto, Running, Final
    <2> QED
      BY <1>4, <2>2, <2>3, <2>4 DEF CheckQuota
  <1>5. ASSUME NEW r \in Request, QuotaReply(r)
        PROVE  TypeOK'
    <2>1. charged' = charged /\ left' = left
      BY <1>5 DEF QuotaReply, Gate!Fail
    <2>2. verdict' \in [Request -> {"none", "yes", "no", "error"}]
      <3>1. \/ verdict' = verdict
            \/ verdict' = [q \in Request |-> IF q \in {r} THEN "error" ELSE verdict[q]]
        BY <1>5 DEF QuotaReply, Gate!Fail
      <3> QED
        BY <3>1
    <2>3. pc' \in [Request -> {"new"} \cup Running \cup Final]
      <3>1. \E place \in {"context", "exceeded", "unavailable"} : Goto(r, place)
        BY <1>5 DEF QuotaReply
      <3> QED
        BY <3>1 DEF Goto, Running, Final
    <2> QED
      BY <1>5, <2>1, <2>2, <2>3 DEF QuotaReply
  <1>6. ASSUME NEW r \in Request, GetManager(r)
        PROVE  TypeOK'
    <2>1. (Target[cap[r]].enabled /\ Allows(AppOf(r), cap[r])) \in BOOLEAN
      BY DEF Allows
    <2> QED
      BY <1>6, <2>1 DEF GetManager
  <1>7. ASSUME NEW r \in Request,
               \/ CheckTarget(r) \/ Resolve(r) \/ CallUpstream(r) \/ CallBreaks(r)
        PROVE  TypeOK'
    <2>1. pc' \in [Request -> {"new"} \cup Running \cup Final]
      <3>1. \E place \in {"resolve", "upstream", "record", "internal"} : Goto(r, place)
        BY <1>7 DEF CheckTarget, Resolve, CallUpstream, CallBreaks, Answer
      <3> QED
        BY <3>1 DEF Goto, Running, Final
    <2>2. answer' \in [Request -> {"none", "success", "error"}]
      BY <1>7 DEF CheckTarget, Resolve, CallUpstream, CallBreaks, Answer
    <2>3. calls' \in [Request -> Nat]
      <3>1. calls' = calls \/ calls' = [calls EXCEPT ![r] = calls[r] + 1]
        BY <1>7 DEF CheckTarget, Resolve, CallUpstream, CallBreaks
      <3>2. calls[r] + 1 \in Nat
        BY Ranges
      <3> QED
        BY <3>1, <3>2
    <2>4. /\ UNCHANGED <<registry, gate, cred, cap, load, lim, rule>>
          /\ UNCHANGED <<recorded, late, entitled, cut>>
      BY <1>7 DEF CheckTarget, Resolve, CallUpstream, CallBreaks, Answer
    <2> QED
      BY <2>1, <2>2, <2>3, <2>4
  <1>8. ASSUME NEW r \in Request, Record(r)
        PROVE  TypeOK'
    <2>1. pc' \in [Request -> {"new"} \cup Running \cup Final]
      BY <1>8 DEF Record
    <2>2. answer' \in [Request -> {"none", "success", "error"}]
      BY <1>8 DEF Record
    <2>3. recorded' \in [Request -> Seq({"success", "error"})]
      <3>1. recorded' = [recorded EXCEPT ![r] = Append(recorded[r], answer[r])]
        BY <1>8 DEF Record
      <3>2. answer[r] \in {"success", "error"}
        BY <1>8 DEF Record, Recording
      <3>3. Append(recorded[r], answer[r]) \in Seq({"success", "error"})
        BY <3>2, AppendProperties
      <3> QED
        BY <3>1, <3>3
    <2>4. UNCHANGED <<registry, gate, cred, cap, load, lim, rule, calls, late, entitled, cut>>
      BY <1>8 DEF Record
    <2> QED
      BY <2>1, <2>2, <2>3, <2>4
  <1>14. ASSUME NEW r \in Request, Respond(r)
         PROVE  TypeOK'
    BY <1>14 DEF Respond
  <1>9. ASSUME NEW a \in App, NEW on \in BOOLEAN, NEW C \in SUBSET Cap, NEW l \in 1..MaxLimit,
               Update(a, on, C, l)
        PROVE  TypeOK'
    <2>1. caps' \in [App -> SUBSET Cap] /\ active' \in SUBSET App
      BY <1>9 DEF Update
    <2>2. limit' \in [App -> [Cap -> 0..MaxLimit]]
      <3>1. limit[a] \in [Cap -> 0..MaxLimit] /\ l \in 0..MaxLimit
        BY Ranges
      <3>2. [c \in Cap |-> IF c \in C THEN l ELSE limit[a][c]] \in [Cap -> 0..MaxLimit]
        BY <3>1
      <3>3. limit' = [limit EXCEPT ![a] = [c \in Cap |-> IF c \in C THEN l ELSE limit[a][c]]]
        BY <1>9 DEF Update
      <3> QED
        BY <3>2, <3>3
    <2>3. entitled' \in SUBSET Request /\ cut' \in SUBSET Request
      BY <1>9 DEF Update
    <2>4. UNCHANGED <<live, gate, pc, locals, calls, recorded, late>>
      BY <1>9 DEF Update
    <2> QED
      BY <2>1, <2>2, <2>3, <2>4
  <1>10. ASSUME NEW c \in Cred, Revoke(c)
         PROVE  TypeOK'
    BY <1>10 DEF Revoke
  <1>11. CASE Crash
    BY <1>11 DEF Crash
  <1>12. CASE Tick
    <2>1. charged' \in [Key -> SUBSET Request]
      BY <1>12 DEF Tick, Gate!Pass
    <2>2. left' \in [Key -> 0..Window]
      BY <1>12, Ranges DEF Tick, Gate!Pass
    <2>3. UNCHANGED <<registry, verdict, pc, locals, history>>
      BY <1>12 DEF Tick, Gate!Pass
    <2> QED
      BY <2>1, <2>2, <2>3
  <1>13. CASE UNCHANGED vars
    BY <1>13 DEF vars
  <1> QED
    BY <1>1, <1>2, <1>3, <1>4, <1>5, <1>6, <1>7, <1>8, <1>9, <1>10, <1>11, <1>12, <1>13,
       <1>14 DEF Next, Step

-----------------------------------------------------------------------------
(* What a step of a request does                                           *)

\* A request moves alone: its step leaves the registry and every other
\* request as they are, and what it carries itself.
LEMMA Alone ==
  ASSUME TypeOK, NEW r \in Request, Step(r)
  PROVE  /\ UNCHANGED <<registry, cred, cap, load, late, cut>>
         /\ \A q \in Request : q # r =>
               /\ pc'[q] = pc[q] /\ verdict'[q] = verdict[q] /\ calls'[q] = calls[q]
               /\ rule'[q] = rule[q] /\ answer'[q] = answer[q] /\ recorded'[q] = recorded[q]
               /\ q \in entitled' <=> q \in entitled
  <1> USE DEF Goto, registry, gate, locals, history
  <1>1. UNCHANGED <<registry, cred, cap, load, late, cut>>
    BY DEF Step, Authenticate, SecretUnreadable, IsActive, Authorize, GetQuota, CheckQuota,
       QuotaReply, BuildContext, GetManager, ValidateBody, CheckTarget, Resolve, CallUpstream,
       CallBreaks, Record, Respond, StoreFails, Answer
  <1> SUFFICES ASSUME NEW q \in Request, q # r
               PROVE  /\ pc'[q] = pc[q] /\ verdict'[q] = verdict[q] /\ calls'[q] = calls[q]
                      /\ rule'[q] = rule[q] /\ answer'[q] = answer[q]
                      /\ recorded'[q] = recorded[q]
                      /\ q \in entitled' <=> q \in entitled
    BY <1>1
  <1>2. pc'[q] = pc[q]
    <2>1. CASE Authenticate(r) \/ SecretUnreadable(r) \/ IsActive(r) \/ Authorize(r) \/ GetQuota(r)
      BY <2>1 DEF TypeOK, Authenticate, SecretUnreadable, IsActive, Authorize, GetQuota
    <2>2. CASE CheckQuota(r) \/ QuotaReply(r) \/ BuildContext(r) \/ GetManager(r) \/ ValidateBody(r)
      BY <2>2 DEF TypeOK, CheckQuota, QuotaReply, BuildContext, GetManager, ValidateBody
    <2>3. CASE CheckTarget(r) \/ Resolve(r) \/ CallUpstream(r) \/ CallBreaks(r)
      BY <2>3 DEF TypeOK, CheckTarget, Resolve, CallUpstream, CallBreaks, Answer
    <2>4. CASE Record(r) \/ Respond(r) \/ StoreFails(r)
      BY <2>4 DEF TypeOK, Record, Respond, StoreFails
    <2> QED
      BY <2>1, <2>2, <2>3, <2>4 DEF Step
  <1>3. verdict'[q] = verdict[q]
    <2>1. CASE CheckQuota(r) \/ QuotaReply(r)
      BY <2>1 DEF TypeOK, CheckQuota, QuotaReply, Gate!Admit, Gate!Refuse, Gate!Fail
    <2>2. CASE ~(CheckQuota(r) \/ QuotaReply(r))
      BY <2>2 DEF Step, Authenticate, SecretUnreadable, IsActive, Authorize, GetQuota,
         BuildContext, GetManager, ValidateBody, CheckTarget, Resolve, CallUpstream,
         CallBreaks, Record, Respond, StoreFails
    <2> QED
      BY <2>1, <2>2
  <1>4. rule'[q] = rule[q] /\ answer'[q] = answer[q]
    <2>1. CASE GetManager(r)
      BY <2>1 DEF TypeOK, GetManager
    <2>2. CASE CheckTarget(r) \/ Resolve(r) \/ CallUpstream(r)
      BY <2>2 DEF TypeOK, CheckTarget, Resolve, CallUpstream, Answer
    <2>3. CASE ~(GetManager(r) \/ CheckTarget(r) \/ Resolve(r) \/ CallUpstream(r))
      BY <2>3 DEF Step, Authenticate, SecretUnreadable, IsActive, Authorize, GetQuota,
         CheckQuota, QuotaReply, BuildContext, ValidateBody, CallBreaks, Record, Respond,
         StoreFails
    <2> QED
      BY <2>1, <2>2, <2>3
  <1>5. calls'[q] = calls[q] /\ recorded'[q] = recorded[q] /\ (q \in entitled' <=> q \in entitled)
    BY DEF TypeOK, Step, Authenticate, SecretUnreadable, IsActive, Authorize, GetQuota,
       CheckQuota, QuotaReply, BuildContext, GetManager, ValidateBody, CheckTarget, Resolve,
       CallUpstream, CallBreaks, Record, Respond, StoreFails
  <1> QED
    BY <1>2, <1>3, <1>4, <1>5

\* Where a request may go, and what it takes along; a failing store may end it
\* at any step that reads or writes.
LEMMA Moves ==
  ASSUME TypeOK, NEW r \in Request, Step(r)
  PROVE  /\ pc[r] = "authenticate" =>
              pc'[r] \in {"rejected", "internal"} \/ (pc'[r] = "is active" /\ cred[r] \in live)
         /\ pc[r] = "is active" =>
              \/ pc'[r] \in {"rejected", "internal", "authorize"}
              \/ pc'[r] = "manager" /\ load[r].form = "bad header"
         /\ pc[r] = "authorize" => pc'[r] \in {"rejected", "internal", "get quota"}
         /\ pc[r] = "get quota" => pc'[r] \in {"rejected", "internal", "check quota"}
         /\ pc[r] = "check quota" =>
              /\ \/ pc'[r] = "quota reply" /\ verdict'[r] \in {"yes", "no"}
                 \/ pc'[r] = "unavailable" /\ verdict'[r] = "error"
              /\ Allows(AppOf(r), cap[r]) => r \in entitled'
         /\ pc[r] = "quota reply" =>
              \/ pc'[r] = "context" /\ verdict[r] = "yes" /\ verdict'[r] = verdict[r]
              \/ pc'[r] = "exceeded" /\ verdict'[r] = verdict[r]
              \/ pc'[r] = "unavailable" /\ verdict'[r] = "error"
         /\ pc[r] = "context" => pc'[r] \in {"internal", "manager"}
         /\ pc[r] = "manager" =>
              \/ pc'[r] = "internal" /\ rule'[r] = rule[r]
              \/ pc'[r] = "validate" /\ (rule'[r] => Allows(AppOf(r), cap[r]))
         /\ pc[r] = "validate" =>
              \/ pc'[r] = "invalid"
              \/ pc'[r] \in {"target", "resolve"} /\ load[r].form # "bad header"
         /\ pc[r] = "target" => pc'[r] = "resolve" \/ (pc'[r] = "record" /\ answer'[r] = "error")
         /\ pc[r] = "resolve" =>
              \/ pc'[r] = "internal"
              \/ pc'[r] = "record" /\ answer'[r] = "error"
              \/ pc'[r] = "upstream" /\ AppOf(r) \in active /\ rule[r]
         /\ pc[r] = "upstream" =>
              /\ calls'[r] = calls[r] + 1
              /\ \/ pc'[r] = "internal"
                 \/ pc'[r] = "record" /\ answer'[r] \in {"success", "error"}
         /\ pc[r] = "record" =>
              \/ pc'[r] = "internal" /\ recorded'[r] = recorded[r]
              \/ pc'[r] = "respond" /\ recorded'[r] = Append(recorded[r], answer[r])
         /\ pc[r] = "respond" => pc'[r] = IF answer[r] = "success" THEN "served" ELSE "failed"
         /\ pc[r] \in {"record", "respond"} => answer'[r] = answer[r]
         /\ pc[r] \notin {"check quota", "quota reply"} => verdict'[r] = verdict[r]
         /\ pc[r] # "check quota" => entitled' = entitled
         /\ pc[r] # "manager" => rule'[r] = rule[r]
         /\ pc[r] # "upstream" => calls'[r] = calls[r]
         /\ pc[r] # "record" => recorded'[r] = recorded[r]
         /\ pc[r] \in Running
  <1> USE DEF TypeOK, Goto, registry, gate, locals, history, Running
  <1>1. CASE Authenticate(r) \/ SecretUnreadable(r)
    BY <1>1 DEF Authenticate, SecretUnreadable
  <1>2. CASE IsActive(r)
    BY <1>2 DEF IsActive
  <1>3. CASE Authorize(r) \/ GetQuota(r)
    BY <1>3 DEF Authorize, GetQuota
  <1>4. CASE CheckQuota(r)
    BY <1>4 DEF CheckQuota, Gate!Admit, Gate!Refuse, Gate!Fail
  <1>5. CASE QuotaReply(r)
    BY <1>5 DEF QuotaReply, Gate!Fail
  <1>6. CASE BuildContext(r)
    BY <1>6 DEF BuildContext
  <1>7. CASE GetManager(r)
    BY <1>7 DEF GetManager
  <1>8. CASE ValidateBody(r)
    BY <1>8 DEF ValidateBody
  <1>9. CASE CheckTarget(r)
    BY <1>9 DEF CheckTarget, Answer
  <1>10. CASE Resolve(r)
    BY <1>10 DEF Resolve, Answer
  <1>11. CASE CallUpstream(r)
    BY <1>11 DEF CallUpstream, Answer
  <1>12. CASE CallBreaks(r)
    BY <1>12 DEF CallBreaks
  <1>13. CASE Record(r) \/ Respond(r)
    BY <1>13 DEF Record, Respond
  <1>14. CASE StoreFails(r)
    BY <1>14 DEF StoreFails
  <1> QED
    BY <1>1, <1>2, <1>3, <1>4, <1>5, <1>6, <1>7, <1>8, <1>9, <1>10, <1>11, <1>12, <1>13, <1>14
       DEF Step

-----------------------------------------------------------------------------
(* The steps around the requests                                           *)

\* An edit of the registry, a revocation and a tick leave every request where
\* it stands.
Around ==
    \/ \E a \in App, on \in BOOLEAN, C \in SUBSET Cap, l \in 1..MaxLimit : Update(a, on, C, l)
    \/ \E c \in Cred : Revoke(c)
    \/ Tick
    \/ UNCHANGED vars

\* The steps around the requests move no request and charge none.
LEMMA AroundFrame ==
  Around => UNCHANGED <<verdict, pc, locals, calls, recorded, late>>
  BY DEF Around, Update, Revoke, Tick, Gate!Pass, vars, registry, gate, history

\* A crash ends the requests that were running and changes nothing else.
LEMMA CrashFrame ==
  ASSUME TypeOK, Crash
  PROVE  /\ UNCHANGED <<registry, gate, locals, history>>
         /\ \A r \in Request : pc'[r] = IF pc[r] \in Running THEN "aborted" ELSE pc[r]
  BY DEF Crash

\* An arrival moves one new request, and sets what it carries.
LEMMA ArriveFrame ==
  ASSUME TypeOK, NEW r \in Request, NEW k \in Cred, NEW c \in Cap, NEW p \in Payload,
         Arrive(r, k, c, p)
  PROVE  /\ pc[r] = "new" /\ pc'[r] = "authenticate" /\ cred'[r] = k
         /\ UNCHANGED <<registry, gate, lim, rule, answer, calls, recorded, entitled>>
         /\ \A q \in Request : q # r =>
               /\ pc'[q] = pc[q] /\ cred'[q] = cred[q] /\ cap'[q] = cap[q] /\ load'[q] = load[q]
               /\ q \in late' <=> q \in late
               /\ q \in cut' <=> q \in cut
         /\ r \in late' => k \notin live \/ r \in late
         /\ r \in cut' => Owner[k] \notin active \/ r \in cut
  BY DEF Arrive, Goto, TypeOK

\* The four kinds of step.
LEMMA Kinds ==
  ASSUME [Next]_vars
  PROVE  \/ \E r \in Request, k \in Cred, c \in Cap, p \in Payload : Arrive(r, k, c, p)
         \/ \E r \in Request : Step(r)
         \/ Around
         \/ Crash
  BY DEF Next, Around

-----------------------------------------------------------------------------
(* The inductive invariant, one conjunct at a time                         *)

\* The gate's answer is the only thing that moves a request past the gate.
LEMMA GatedStep == TypeOK /\ Gated /\ [Next]_vars => Gated'
  <1> SUFFICES ASSUME TypeOK, Gated, [Next]_vars, NEW q \in Request
               PROVE  /\ pc'[q] \in BeforeGate => verdict'[q] = "none"
                      /\ pc'[q] = "quota reply" => verdict'[q] \in {"yes", "no"}
                      /\ pc'[q] = "context" => verdict'[q] = "yes"
                      /\ pc'[q] \in {"manager", "validate"} =>
                           \/ verdict'[q] = "yes"
                           \/ verdict'[q] = "none" /\ load'[q].form = "bad header"
                      /\ pc'[q] \in {"target", "resolve", "upstream", "record", "respond"}
                           => verdict'[q] = "yes"
    BY DEF Gated
  <1> USE DEF Gated, BeforeGate
  <1>1. ASSUME NEW r \in Request, NEW k \in Cred, NEW c \in Cap, NEW p \in Payload,
               Arrive(r, k, c, p)
        PROVE  /\ verdict'[q] = verdict[q]
               /\ \/ pc'[q] = pc[q] /\ load'[q] = load[q]
                  \/ pc[q] = "new" /\ pc'[q] = "authenticate"
    BY <1>1, ArriveFrame DEF gate
  <1>2. ASSUME NEW r \in Request, Step(r), q # r
        PROVE  pc'[q] = pc[q] /\ verdict'[q] = verdict[q] /\ load'[q] = load[q]
    BY <1>2, Alone
  <1>3. CASE Step(q)
    <2>1. load' = load
      BY <1>3, Alone
    <2> QED
      BY <1>3, <2>1, Moves DEF Running
  <1>4. ASSUME Around
        PROVE  pc'[q] = pc[q] /\ verdict'[q] = verdict[q] /\ load'[q] = load[q]
    BY <1>4, AroundFrame DEF locals
  <1>5. ASSUME Crash
        PROVE  (pc'[q] = "aborted" \/ pc'[q] = pc[q]) /\ verdict'[q] = verdict[q] /\ load'[q] = load[q]
    BY <1>5, CrashFrame DEF gate, locals
  <1> QED
    BY <1>1, <1>2, <1>3, <1>4, <1>5, Kinds

\* Only a step at "upstream" calls, and it leaves that place.
LEMMA CalledStep == TypeOK /\ Called /\ [Next]_vars => Called'
  <1> SUFFICES ASSUME TypeOK, Called, [Next]_vars, NEW q \in Request
               PROVE  /\ calls'[q] \in {0, 1}
                      /\ \/ pc'[q] \in {"record", "respond", "served", "failed", "internal",
                                      "aborted"}
                         \/ calls'[q] = 0
    BY DEF Called
  <1> USE DEF Called
  <1>1. ASSUME NEW r \in Request, NEW k \in Cred, NEW c \in Cap, NEW p \in Payload,
               Arrive(r, k, c, p)
        PROVE  calls'[q] = calls[q] /\ (pc'[q] = pc[q] \/ pc[q] = "new")
    BY <1>1, ArriveFrame
  <1>2. ASSUME NEW r \in Request, Step(r), q # r
        PROVE  pc'[q] = pc[q] /\ calls'[q] = calls[q]
    BY <1>2, Alone
  <1>3. CASE Step(q)
    <2>1. CASE pc[q] = "upstream"
      <3>1. calls[q] = 0 /\ calls'[q] = calls[q] + 1 /\ pc'[q] \in {"internal", "record"}
        BY <1>3, <2>1, Moves
      <3> QED
        BY <3>1
    <2>2. CASE pc[q] # "upstream"
      <3>1. calls'[q] = calls[q]
        BY <1>3, <2>2, Moves
      <3>2. /\ pc[q] = "record" => pc'[q] \in {"internal", "respond"}
            /\ pc[q] = "respond" => pc'[q] \in {"served", "failed"}
        BY <1>3, Moves
      <3>3. pc[q] \in Running
        BY <1>3, Moves
      <3> QED
        BY <3>1, <3>2, <3>3 DEF Running
    <2> QED
      BY <2>1, <2>2
  <1>4. ASSUME Around
        PROVE  pc'[q] = pc[q] /\ calls'[q] = calls[q]
    BY <1>4, AroundFrame
  <1>5. ASSUME Crash
        PROVE  (pc'[q] = "aborted" \/ pc'[q] = pc[q]) /\ calls'[q] = calls[q]
    BY <1>5, CrashFrame DEF history
  <1> QED
    BY <1>1, <1>2, <1>3, <1>4, <1>5, Kinds

\* The registry may change between any two reads, but an edit that gives the
\* application the capability back entitles the requests charged before it, and
\* rules are built only from a registry that allows the request.
LEMMA RuledStep == TypeOK /\ Gated /\ Ruled /\ [Next]_vars => Ruled'
  <1> DEFINE May(q) == AppOf(q) \in active /\ cap[q] \in caps[AppOf(q)]
  <1> SUFFICES ASSUME TypeOK, Gated, Ruled, [Next]_vars, NEW q \in Request
               PROVE  /\ verdict'[q] = "yes" /\ May(q)' => q \in entitled'
                      /\ pc'[q] \in BeforeGate \cup {"quota reply", "context", "manager"}
                           => ~rule'[q]
                      /\ verdict'[q] = "yes" /\ rule'[q] => q \in entitled'
                      /\ pc'[q] = "upstream" => rule'[q]
    BY DEF Ruled, Allows
  <1>0. /\ verdict[q] = "yes" /\ May(q) => q \in entitled
        /\ pc[q] \in BeforeGate \cup {"quota reply", "context", "manager"} => ~rule[q]
        /\ verdict[q] = "yes" /\ rule[q] => q \in entitled
        /\ pc[q] = "upstream" => rule[q]
    BY DEF Ruled, Allows
  <1>1. ASSUME NEW r \in Request, NEW k \in Cred, NEW c \in Cap, NEW p \in Payload,
               Arrive(r, k, c, p), q = r
        PROVE  verdict'[q] = "none" /\ pc'[q] = "authenticate" /\ ~rule'[q]
    <2>1. pc[q] = "new" /\ pc'[q] = "authenticate" /\ rule' = rule /\ verdict' = verdict
      BY <1>1, ArriveFrame DEF gate
    <2>2. verdict[q] = "none" /\ ~rule[q]
      BY <1>0, <2>1 DEF Gated, BeforeGate
    <2> QED
      BY <2>1, <2>2
  <1>2. ASSUME NEW r \in Request, NEW k \in Cred, NEW c \in Cap, NEW p \in Payload,
               Arrive(r, k, c, p), q # r
        PROVE  /\ pc'[q] = pc[q] /\ verdict'[q] = verdict[q] /\ rule'[q] = rule[q]
               /\ entitled' = entitled /\ May(q)' = May(q)
    BY <1>2, ArriveFrame DEF gate, registry, AppOf
  <1>3. ASSUME NEW r \in Request, Step(r)
        PROVE  May(q)' = May(q)
    BY <1>3, Alone DEF registry, AppOf
  <1>4. ASSUME NEW r \in Request, Step(r), q # r
        PROVE  /\ pc'[q] = pc[q] /\ verdict'[q] = verdict[q] /\ rule'[q] = rule[q]
               /\ q \in entitled' <=> q \in entitled
    BY <1>4, Alone
  <1>5. ASSUME Step(q)
        PROVE  /\ verdict'[q] = "yes" /\ May(q) => q \in entitled'
               /\ pc'[q] \in BeforeGate \cup {"quota reply", "context", "manager"} => ~rule'[q]
               /\ verdict'[q] = "yes" /\ rule'[q] => q \in entitled'
               /\ pc'[q] = "upstream" => rule'[q]
    <2>1. Allows(AppOf(q), cap[q]) <=> May(q)
      BY DEF Allows
    <2> HIDE DEF May
    <2>2. CASE pc[q] = "check quota"
      BY <1>0, <1>5, <2>1, <2>2, Moves DEF BeforeGate
    <2>3. CASE pc[q] = "manager"
      BY <1>0, <1>5, <2>1, <2>3, Moves DEF BeforeGate
    <2>4. CASE pc[q] \notin {"check quota", "manager"}
      <3>1. rule'[q] = rule[q] /\ entitled' = entitled /\ (verdict'[q] = "yes" => verdict[q] = "yes")
        BY <1>5, <2>4, Moves
      <3>2. pc'[q] \in BeforeGate \cup {"quota reply", "context", "manager"} =>
              pc[q] \in BeforeGate \cup {"quota reply", "context", "manager"}
        BY <1>5, <2>4, Moves DEF Running, BeforeGate
      <3>3. pc'[q] = "upstream" => rule[q]
        BY <1>5, <2>4, Moves DEF Running
      <3> QED
        BY <1>0, <3>1, <3>2, <3>3
    <2> QED
      BY <2>2, <2>3, <2>4
  <1>6. ASSUME Around
        PROVE  /\ pc'[q] = pc[q] /\ verdict'[q] = verdict[q] /\ rule'[q] = rule[q]
               /\ entitled \subseteq entitled'
               /\ verdict[q] = "yes" /\ May(q)' => May(q) \/ q \in entitled'
    <2>1. UNCHANGED <<verdict, pc, rule, cred, cap>>
      BY <1>6, AroundFrame DEF locals
    <2>2. ASSUME NEW a \in App, NEW on \in BOOLEAN, NEW C \in SUBSET Cap, NEW l \in 1..MaxLimit,
                 Update(a, on, C, l)
          PROVE  /\ entitled \subseteq entitled'
                 /\ verdict[q] = "yes" /\ May(q)' => May(q) \/ q \in entitled'
      <3>1. active' = (IF on THEN active \cup {a} ELSE active \ {a}) /\ caps' = [caps EXCEPT ![a] = C]
        BY <2>2 DEF Update
      <3>2. entitled' = IF on THEN entitled \cup {r \in {r \in Request : AppOf(r) = a} :
                                                     verdict[r] = "yes" /\ cap[r] \in C}
                              ELSE entitled
        BY <2>2 DEF Update
      <3>3. AppOf(q)' = AppOf(q) /\ AppOf(q) \in App /\ caps \in [App -> SUBSET Cap]
        BY <2>1, AppType DEF AppOf, TypeOK
      <3>4. CASE AppOf(q) = a /\ on
        <4>1. May(q)' => cap[q] \in C
          BY <2>1, <3>1, <3>3, <3>4
        <4> QED
          BY <3>2, <3>4, <4>1
      <3>5. CASE AppOf(q) = a /\ ~on
        BY <3>1, <3>2, <3>3, <3>5
      <3>6. CASE AppOf(q) # a
        <4>1. May(q)' => May(q)
          BY <2>1, <3>1, <3>3, <3>6
        <4> QED
          BY <3>2, <4>1
      <3> QED
        BY <3>4, <3>5, <3>6
    <2>3. CASE (\E c \in Cred : Revoke(c)) \/ Tick \/ UNCHANGED vars
      <3>1. UNCHANGED <<active, caps, entitled>>
        BY <2>3 DEF Revoke, Tick, vars, registry, history
      <3> QED
        BY <2>1, <3>1 DEF AppOf
    <2> QED
      BY <1>6, <2>1, <2>2, <2>3 DEF Around
  <1>7. ASSUME Crash
        PROVE  /\ (pc'[q] = "aborted" \/ pc'[q] = pc[q]) /\ verdict'[q] = verdict[q]
               /\ rule'[q] = rule[q] /\ entitled' = entitled /\ May(q)' = May(q)
    BY <1>7, CrashFrame DEF gate, locals, registry, history, AppOf
  <1> HIDE DEF May
  <1>8. ASSUME NEW r \in Request, NEW k \in Cred, NEW c \in Cap, NEW p \in Payload,
               Arrive(r, k, c, p)
        PROVE  \/ verdict'[q] = "none" /\ pc'[q] = "authenticate" /\ ~rule'[q]
               \/ /\ pc'[q] = pc[q] /\ verdict'[q] = verdict[q] /\ rule'[q] = rule[q]
                  /\ entitled' = entitled /\ May(q)' = May(q)
    BY <1>1, <1>2, <1>8
  <1>9. CASE \E r \in Request, k \in Cred, c \in Cap, p \in Payload : Arrive(r, k, c, p)
    BY <1>0, <1>8, <1>9
  <1>10. CASE \E r \in Request : Step(r)
    BY <1>0, <1>3, <1>4, <1>5, <1>10
  <1>11. CASE Around
    BY <1>0, <1>6, <1>11
  <1>12. CASE Crash
    BY <1>0, <1>7, <1>12 DEF BeforeGate
  <1> QED
    BY <1>9, <1>10, <1>11, <1>12, Kinds

\* A request is charged before it calls, its rules show it was entitled, and
\* neither the verdict nor the entitlement is taken back after the call.
LEMMA UpstreamStep ==
  TypeOK /\ Gated /\ Called /\ Ruled /\ UpstreamGated /\ [Next]_vars => UpstreamGated'
  <1> SUFFICES ASSUME TypeOK, Gated, Called, Ruled, UpstreamGated, [Next]_vars, NEW q \in Request
               PROVE  /\ calls'[q] <= 1
                      /\ calls'[q] = 1 => verdict'[q] = "yes" /\ q \in entitled'
    BY DEF UpstreamGated
  <1>0. calls'[q] \in {0, 1}
    BY CalledStep DEF Called
  <1>1. calls[q] = 1 => verdict[q] = "yes" /\ q \in entitled
    BY DEF UpstreamGated
  <1>2. ASSUME NEW r \in Request, NEW k \in Cred, NEW c \in Cap, NEW p \in Payload,
               Arrive(r, k, c, p)
        PROVE  calls'[q] = calls[q] /\ verdict'[q] = verdict[q] /\ entitled' = entitled
    BY <1>2, ArriveFrame DEF gate
  <1>3. ASSUME NEW r \in Request, Step(r), q # r
        PROVE  calls'[q] = calls[q] /\ verdict'[q] = verdict[q] /\ (q \in entitled' <=> q \in entitled)
    BY <1>3, Alone
  <1>4. ASSUME Step(q)
        PROVE  calls'[q] = 1 => verdict'[q] = "yes" /\ q \in entitled'
    <2>1. CASE pc[q] = "upstream"
      <3>1. verdict[q] = "yes" /\ q \in entitled
        BY <2>1 DEF Gated, Ruled
      <3>2. verdict'[q] = verdict[q] /\ entitled' = entitled
        BY <1>4, <2>1, Moves
      <3> QED
        BY <3>1, <3>2
    <2>2. CASE pc[q] \in {"check quota", "quota reply"}
      <3>1. calls[q] = 0
        BY <2>2 DEF Called
      <3>2. calls'[q] = calls[q]
        BY <1>4, <2>2, Moves
      <3> QED
        BY <3>1, <3>2
    <2>3. CASE pc[q] \notin {"check quota", "quota reply", "upstream"}
      <3>1. calls'[q] = calls[q] /\ verdict'[q] = verdict[q] /\ entitled' = entitled
        BY <1>4, <2>3, Moves
      <3> QED
        BY <1>1, <3>1
    <2> QED
      BY <2>1, <2>2, <2>3
  <1>5. ASSUME Around
        PROVE  calls'[q] = calls[q] /\ verdict'[q] = verdict[q] /\ entitled \subseteq entitled'
    <2>1. UNCHANGED <<verdict, calls>>
      BY <1>5, AroundFrame
    <2>2. entitled \subseteq entitled'
      BY <1>5 DEF Around, Update, Revoke, Tick, vars, history
    <2> QED
      BY <2>1, <2>2
  <1>6. ASSUME Crash
        PROVE  calls'[q] = calls[q] /\ verdict'[q] = verdict[q] /\ entitled' = entitled
    BY <1>6, CrashFrame DEF gate, history
  <1> QED
    BY <1>0, <1>1, <1>2, <1>3, <1>4, <1>5, <1>6, Kinds

\* A late request is still where authentication left it.
LEMMA LateStep ==
  /\ TypeOK /\ TypeOK' /\ Gated /\ Called /\ Late /\ RevokedNeverCharged /\ [Next]_vars
  => Late' /\ RevokedNeverCharged'
  <1> SUFFICES ASSUME TypeOK, TypeOK', Gated, Called, Late, RevokedNeverCharged, [Next]_vars,
                      NEW q \in Request, q \in late'
               PROVE  /\ cred'[q] \notin live'
                      /\ pc'[q] \in {"authenticate", "rejected", "internal", "aborted"}
                      /\ verdict'[q] = "none" /\ calls'[q] = 0
    BY DEF Late, RevokedNeverCharged, TypeOK
  <1>0. q \in late => /\ cred[q] \notin live
                      /\ pc[q] \in {"authenticate", "rejected", "internal", "aborted"}
                      /\ verdict[q] = "none" /\ calls[q] = 0
    BY DEF Late, RevokedNeverCharged
  <1>1. ASSUME NEW r \in Request, NEW k \in Cred, NEW c \in Cap, NEW p \in Payload,
               Arrive(r, k, c, p), q = r
        PROVE  /\ cred'[q] \notin live' /\ pc'[q] = "authenticate"
               /\ verdict'[q] = "none" /\ calls'[q] = 0
    <2>1. pc[q] = "new" /\ pc'[q] = "authenticate" /\ calls' = calls /\ verdict' = verdict
      BY <1>1, ArriveFrame DEF gate
    <2>2. verdict[q] = "none" /\ calls[q] = 0
      BY <2>1 DEF Gated, BeforeGate, Called
    <2>3. cred'[q] \notin live'
      BY <1>0, <1>1, <2>1, ArriveFrame DEF registry
    <2>4. QED
      BY ONLY <2>1, <2>2, <2>3
  <1>2. ASSUME NEW r \in Request, NEW k \in Cred, NEW c \in Cap, NEW p \in Payload,
               Arrive(r, k, c, p), q # r
        PROVE  /\ q \in late /\ pc'[q] = pc[q] /\ cred'[q] = cred[q] /\ live' = live
               /\ verdict'[q] = verdict[q] /\ calls'[q] = calls[q]
    BY <1>2, ArriveFrame DEF gate, registry
  <1>3. ASSUME NEW r \in Request, Step(r), q # r
        PROVE  /\ q \in late /\ pc'[q] = pc[q] /\ cred'[q] = cred[q] /\ live' = live
               /\ verdict'[q] = verdict[q] /\ calls'[q] = calls[q]
    BY <1>3, Alone DEF registry
  <1>4. ASSUME Step(q)
        PROVE  /\ cred'[q] \notin live' /\ pc'[q] \in {"rejected", "internal"}
               /\ verdict'[q] = "none" /\ calls'[q] = 0
    <2>1. q \in late /\ cred' = cred /\ live' = live
      BY <1>4, Alone DEF registry
    <2>2. pc[q] = "authenticate"
      BY <1>0, <1>4, <2>1, Moves DEF Running
    <2> QED
      BY <1>0, <1>4, <2>1, <2>2, Moves
  <1>5. ASSUME Around
        PROVE  /\ q \in late /\ pc'[q] = pc[q] /\ cred'[q] = cred[q] /\ live' \subseteq live
               /\ verdict'[q] = verdict[q] /\ calls'[q] = calls[q]
    <2>1. UNCHANGED <<verdict, pc, cred, calls, late>>
      BY <1>5, AroundFrame DEF locals
    <2>2. live' \subseteq live
      BY <1>5 DEF Around, Update, Revoke, Tick, vars, registry
    <2> QED
      BY <2>1, <2>2
  <1>6. ASSUME Crash
        PROVE  /\ q \in late /\ (pc'[q] = pc[q] \/ pc'[q] = "aborted") /\ cred'[q] = cred[q]
               /\ live' = live /\ verdict'[q] = verdict[q] /\ calls'[q] = calls[q]
    BY <1>6, CrashFrame DEF gate, locals, registry, history
  <1> QED
    BY <1>0, <1>1, <1>2, <1>3, <1>4, <1>5, <1>6, Kinds

\* What Recording and RecordedAsAnswered say of one request.
RecordOf(r) ==
    /\ pc[r] \in {"record", "respond"} =>
          /\ answer[r] \in {"success", "error"}
          /\ answer[r] = "success" => calls[r] = 1
    /\ pc[r] = "respond" => recorded[r] = <<answer[r]>>
    /\ pc[r] = "served" => recorded[r] = <<"success">>
    /\ pc[r] = "failed" => recorded[r] = <<"error">>
    /\ recorded[r] # <<>> =>
          /\ pc[r] \in {"respond", "served", "failed", "aborted"}
          /\ recorded[r] = <<answer[r]>>
          /\ answer[r] = "success" => calls[r] = 1

\* Together, for every request, they are those two invariants.
LEMMA RecordOfAll == (\A r \in Request : RecordOf(r)) <=> Recording /\ RecordedAsAnswered
  BY DEF RecordOf, Recording, RecordedAsAnswered

\* A request records once, what it then responds with.
LEMMA RecordMove ==
  ASSUME TypeOK, Called, NEW q \in Request, RecordOf(q), Step(q)
  PROVE  RecordOf(q)'
  <1>0. pc[q] \in Running
    BY Moves
  <1>1. CASE pc[q] = "record"
    <2>1. /\ recorded[q] = <<>> /\ answer[q] \in {"success", "error"}
          /\ answer[q] = "success" => calls[q] = 1
      BY <1>1 DEF RecordOf
    <2>2. answer'[q] = answer[q] /\ calls'[q] = calls[q]
      BY <1>1, Moves
    <2>3. CASE pc'[q] = "internal" /\ recorded'[q] = recorded[q]
      BY <2>1, <2>2, <2>3 DEF RecordOf
    <2>4. CASE pc'[q] = "respond" /\ recorded'[q] = Append(recorded[q], answer[q])
      <3>1. recorded'[q] = <<answer[q]>>
        BY <2>1, <2>4
      <3> QED
        BY <2>1, <2>2, <2>4, <3>1 DEF RecordOf
    <2> QED
      BY <1>1, <2>3, <2>4, Moves
  <1>2. CASE pc[q] = "respond"
    <2>1. /\ recorded[q] = <<answer[q]>> /\ answer[q] \in {"success", "error"}
          /\ answer[q] = "success" => calls[q] = 1
      BY <1>2 DEF RecordOf
    <2>2. /\ answer'[q] = answer[q] /\ calls'[q] = calls[q] /\ recorded'[q] = recorded[q]
          /\ pc'[q] = IF answer[q] = "success" THEN "served" ELSE "failed"
      BY <1>2, Moves
    <2> QED
      BY <2>1, <2>2 DEF RecordOf
  <1>3. CASE pc[q] = "upstream"
    <2>1. calls[q] = 0 /\ calls'[q] = calls[q] + 1
      BY <1>3, Moves DEF Called
    <2>2. recorded'[q] = <<>>
      BY <1>3, Moves DEF RecordOf
    <2>3. pc'[q] = "internal" \/ (pc'[q] = "record" /\ answer'[q] \in {"success", "error"})
      BY <1>3, Moves
    <2> QED
      BY <2>1, <2>2, <2>3 DEF RecordOf
  <1>4. CASE pc[q] \notin {"record", "respond", "upstream"}
    <2>1. recorded'[q] = <<>>
      BY <1>0, <1>4, Moves DEF RecordOf, Running
    <2>2. /\ pc'[q] \notin {"respond", "served", "failed"}
          /\ pc'[q] = "record" => answer'[q] = "error"
      BY <1>0, <1>4, Moves DEF Running
    <2> QED
      BY <2>1, <2>2 DEF RecordOf
  <1> QED
    BY <1>1, <1>2, <1>3, <1>4

\* No other step touches what a request recorded, and a crash after the commit
\* leaves the row as it is.
LEMMA RecordedStep ==
  /\ TypeOK /\ Called /\ Recording /\ RecordedAsAnswered /\ [Next]_vars
  => Recording' /\ RecordedAsAnswered'
  <1> SUFFICES ASSUME TypeOK, Called, [Next]_vars, NEW q \in Request, RecordOf(q)
               PROVE  RecordOf(q)'
    BY RecordOfAll DEF RecordOf, Recording, RecordedAsAnswered
  <1>1. ASSUME NEW r \in Request, NEW k \in Cred, NEW c \in Cap, NEW p \in Payload,
               Arrive(r, k, c, p)
        PROVE  RecordOf(q)'
    <2>1. /\ pc'[q] = pc[q] \/ (pc[q] = "new" /\ pc'[q] = "authenticate")
          /\ answer'[q] = answer[q] /\ calls'[q] = calls[q] /\ recorded'[q] = recorded[q]
      BY <1>1, ArriveFrame
    <2> QED
      BY <2>1 DEF RecordOf
  <1>2. ASSUME NEW r \in Request, Step(r), q # r
        PROVE  RecordOf(q)'
    <2>1. /\ pc'[q] = pc[q] /\ answer'[q] = answer[q] /\ calls'[q] = calls[q]
          /\ recorded'[q] = recorded[q]
      BY <1>2, Alone
    <2> QED
      BY <2>1 DEF RecordOf
  <1>3. ASSUME Step(q)
        PROVE  RecordOf(q)'
    BY <1>3, RecordMove
  <1>4. ASSUME Around
        PROVE  RecordOf(q)'
    <2>1. UNCHANGED <<pc, answer, calls, recorded>>
      BY <1>4, AroundFrame DEF locals
    <2> QED
      BY <2>1 DEF RecordOf
  <1>5. ASSUME Crash
        PROVE  RecordOf(q)'
    <2>1. /\ pc'[q] = pc[q] \/ (pc[q] \in Running /\ pc'[q] = "aborted")
          /\ answer'[q] = answer[q] /\ calls'[q] = calls[q] /\ recorded'[q] = recorded[q]
      BY <1>5, CrashFrame DEF locals, history
    <2> QED
      BY <2>1 DEF RecordOf, Running
  <1> QED
    BY <1>1, <1>2, <1>3, <1>4, <1>5, Kinds

\* resolve asks once more whether the application is active, so a request that
\* was cut off does not reach the upstream until the application is back.
LEMMA StoppedStep == TypeOK /\ TypeOK' /\ Stopped /\ [Next]_vars => Stopped'
  <1> SUFFICES ASSUME TypeOK, TypeOK', Stopped, [Next]_vars, NEW q \in Request, q \in cut'
               PROVE  AppOf(q)' \notin active' /\ pc'[q] \notin {"new", "upstream"}
    BY DEF Stopped, TypeOK, AppOf
  <1>0. q \in cut => AppOf(q) \notin active /\ pc[q] \notin {"new", "upstream"}
    BY DEF Stopped
  <1>1. ASSUME NEW r \in Request, NEW k \in Cred, NEW c \in Cap, NEW p \in Payload,
               Arrive(r, k, c, p), q = r
        PROVE  AppOf(q)' \notin active' /\ pc'[q] = "authenticate"
    BY <1>0, <1>1, ArriveFrame DEF AppOf, registry
  <1>2. ASSUME NEW r \in Request, NEW k \in Cred, NEW c \in Cap, NEW p \in Payload,
               Arrive(r, k, c, p), q # r
        PROVE  q \in cut /\ AppOf(q)' = AppOf(q) /\ active' = active /\ pc'[q] = pc[q]
    BY <1>2, ArriveFrame DEF AppOf, registry
  <1>3. ASSUME NEW r \in Request, Step(r)
        PROVE  q \in cut /\ AppOf(q)' = AppOf(q) /\ active' = active
    BY <1>3, Alone DEF AppOf, registry
  <1>4. ASSUME NEW r \in Request, Step(r), q # r
        PROVE  pc'[q] = pc[q]
    BY <1>4, Alone
  <1>5. ASSUME Step(q)
        PROVE  pc'[q] \notin {"new", "upstream"}
    <2>1. AppOf(q) \notin active
      BY <1>0, <1>3, <1>5
    <2> QED
      BY <1>5, <2>1, Moves DEF Running
  <1>6. ASSUME NEW a \in App, NEW on \in BOOLEAN, NEW C \in SUBSET Cap, NEW l \in 1..MaxLimit,
               Update(a, on, C, l)
        PROVE  AppOf(q)' \notin active' /\ pc'[q] \notin {"new", "upstream"}
    <2>1. AppOf(q)' = AppOf(q) /\ pc' = pc
      BY <1>6 DEF Update, locals, AppOf
    <2>2. active' = IF on THEN active \cup {a} ELSE active \ {a}
      BY <1>6 DEF Update
    <2>3. cut' = IF on THEN cut \ {r \in Request : AppOf(r) = a}
                 ELSE cut \cup {r \in {r \in Request : AppOf(r) = a} :
                                  pc[r] \in Running \ {"upstream", "record", "respond"}}
      BY <1>6 DEF Update
    <2>4. CASE on
      BY <1>0, <2>1, <2>2, <2>3, <2>4
    <2>5. CASE ~on
      BY <1>0, <2>1, <2>2, <2>3, <2>5 DEF Running
    <2> QED
      BY <2>4, <2>5
  <1>7. CASE (\E c \in Cred : Revoke(c)) \/ Tick \/ UNCHANGED vars
    <2>1. UNCHANGED <<active, cred, pc, cut>>
      BY <1>7 DEF Revoke, Tick, vars, registry, locals, history
    <2> QED
      BY <1>0, <2>1 DEF AppOf
  <1>8. CASE Around
    BY <1>6, <1>7, <1>8 DEF Around
  <1>9. CASE Crash
    <2>1. q \in cut /\ AppOf(q)' = AppOf(q) /\ active' = active
      BY <1>9, CrashFrame DEF history, locals, registry, AppOf
    <2>2. pc'[q] = pc[q] \/ pc'[q] = "aborted"
      BY <1>9, CrashFrame
    <2> QED
      BY <1>0, <2>1, <2>2
  <1> QED
    BY <1>0, <1>1, <1>2, <1>3, <1>4, <1>5, <1>8, <1>9, Kinds

-----------------------------------------------------------------------------
(* Theorems                                                                *)

\* IInv holds initially and is preserved by every step.
THEOREM InductiveInvariant == Spec => []IInv
  <1>1. Init => IInv
    <2> SUFFICES ASSUME Init PROVE IInv
      OBVIOUS
    <2>1. /\ pc = [r \in Request |-> "new"] /\ calls = [r \in Request |-> 0]
          /\ rule = [r \in Request |-> FALSE] /\ recorded = [r \in Request |-> <<>>]
          /\ verdict = [r \in Request |-> "none"] /\ late = {} /\ cut = {}
      BY DEF Init, Gate!Init
    <2>2. TypeOK
      BY InitType
    <2>3. Gated /\ Called /\ Ruled /\ Recording
      BY <2>1 DEF Gated, BeforeGate, Called, Ruled, Recording
    <2>4. Late /\ Stopped /\ UpstreamGated /\ RevokedNeverCharged /\ RecordedAsAnswered
      BY <2>1 DEF Late, Stopped, UpstreamGated, RevokedNeverCharged, RecordedAsAnswered
    <2> QED
      BY <2>2, <2>3, <2>4 DEF IInv
  <1>2. IInv /\ [Next]_vars => IInv'
    <2> SUFFICES ASSUME IInv, [Next]_vars PROVE IInv'
      OBVIOUS
    <2>1. TypeOK'
      BY TypeStep DEF IInv
    <2>2. Gated' /\ Called' /\ Ruled' /\ UpstreamGated'
      BY GatedStep, CalledStep, RuledStep, UpstreamStep DEF IInv
    <2>3. Recording' /\ RecordedAsAnswered'
      BY RecordedStep DEF IInv
    <2>4. Late' /\ RevokedNeverCharged' /\ Stopped'
      BY <2>1, LateStep, StoppedStep DEF IInv
    <2> QED
      BY <2>1, <2>2, <2>3, <2>4 DEF IInv
  <1> QED
    BY <1>1, <1>2, PTL DEF Spec

\* Spec keeps every variable in its type.
THEOREM TypeCorrect == Spec => []TypeOK
  BY InductiveInvariant, PTL DEF IInv

\* Whatever an administrator commits between the five reads of the registry, a
\* request reaches the upstream at most once, charged, and for an application
\* that was active and held the capability after the charge.
THEOREM UpstreamAlwaysGated == Spec => []UpstreamGated
  BY InductiveInvariant, PTL DEF IInv

\* A request that arrives with a revoked credential is never charged and never
\* reaches the upstream.
THEOREM RevocationFinal == Spec => []RevokedNeverCharged
  BY InductiveInvariant, PTL DEF IInv

\* What usage_rollups gets is what the caller was told, once, or would have
\* been told had the process not died after the commit.
THEOREM UsageMatchesAnswers == Spec => []RecordedAsAnswered
  BY InductiveInvariant, PTL DEF IInv

\* While its application is disabled, a request that had not passed resolve
\* makes no call.
THEOREM DisablingAlwaysStops == Spec => DisablingStops
  <1>1. IInv /\ [Next]_vars => [\A r \in cut : calls'[r] = calls[r]]_vars
    <2> SUFFICES ASSUME IInv, Next, NEW q \in cut
                 PROVE  calls'[q] = calls[q]
      OBVIOUS
    <2>0. TypeOK /\ q \in Request /\ pc[q] # "upstream" /\ [Next]_vars
      BY DEF IInv, TypeOK, Stopped
    <2>1. ASSUME NEW r \in Request, NEW k \in Cred, NEW c \in Cap, NEW p \in Payload,
                 Arrive(r, k, c, p)
          PROVE  calls'[q] = calls[q]
      BY <2>0, <2>1, ArriveFrame
    <2>2. ASSUME NEW r \in Request, Step(r)
          PROVE  calls'[q] = calls[q]
      BY <2>0, <2>2, Alone, Moves
    <2>3. CASE Around \/ Crash
      BY <2>0, <2>3, AroundFrame, CrashFrame DEF history
    <2> QED
      BY <2>0, <2>1, <2>2, <2>3, Kinds
  <1> QED
    BY <1>1, InductiveInvariant, PTL DEF Spec, DisablingStops
=============================================================================
