----------------------------- MODULE QuotaProofs -----------------------------
(***************************************************************************)
(* Proofs about the quota gate of module Quota, for every set of requests, *)
(* keys and faults and every limit and window length.                      *)
(*                                                                         *)
(* The type invariant is proved on its own.  The other invariants are      *)
(* proved together as IInv: exactness of the counter needs to know which   *)
(* requests may write undurably (Exposure) and that a request about to run *)
(* its EVAL is in no window yet (ChargeOfPC, Members); the bound on a      *)
(* window needs the exact counter.  With IInv at hand every step is one of *)
(* the promised window of QuotaWindow, or a stutter.                       *)
(***************************************************************************)
EXTENDS Quota, FiniteSetTheorems, TLAPS

USE QuotaAssumption

-----------------------------------------------------------------------------
(* Operators                                                               *)

\* A tick leaves an entry well typed.
LEMMA AgedType == \A e \in Entry : Aged(e) \in Entry
  BY DEF Aged, Entry, Absent

\* No entry and a corrupted entry are entries.
LEMMA SpecialEntries == Absent \in Entry /\ Corrupt \in Entry
  BY DEF Absent, Corrupt, Entry

\* The script returns a well-typed entry and TTL for an entry it accepts.
LEMMA ConsumeType ==
  ASSUME NEW e \in Entry, NEW l \in 0..MaxLimit, ~ScriptError(e)
  PROVE  /\ CONSUME(e, l).entry \in Entry
         /\ CONSUME(e, l).allowed \in BOOLEAN
         /\ CONSUME(e, l).ttl \in -1..Window
  BY DEF CONSUME, Result, ScriptError, Entry, Absent

\* The announced wait covers the TTL the script reported.
LEMMA RetryAfterLemma ==
  ASSUME NEW t \in -1..Window
  PROVE  RetryAfter(t) \in Nat /\ RetryAfter(t) >= t
  <1> DEFINE T == TicksPerSecond
             q == (t + T - 1) \div T
  <1>1. q \in Int /\ T * q <= t + T - 1 /\ t + T - 1 < T * q + T
    OBVIOUS
  <1>2. CASE q < 1
    BY <1>1, <1>2 DEF RetryAfter
  <1>3. CASE q >= 1
    <2>1. RetryAfter(t) = T * q
      BY <1>1, <1>3 DEF RetryAfter
    <2>2. T * q \in Nat
      BY <1>1, <1>3
    <2> QED
      BY <1>1, <2>1, <2>2
  <1> QED
    BY <1>1, <1>2, <1>3
-----------------------------------------------------------------------------
(* Types                                                                   *)

\* Spec keeps every variable in its type.
THEOREM TypeCorrect == Spec => []TypeOK
  <1>1. Init => TypeOK
    BY DEF Init, TypeOK, PC, InFlight, Talking, Final, Failed, Absent, Entry, NoReply
  <1>2. TypeOK /\ [Next]_vars => TypeOK'
    <2> SUFFICES ASSUME TypeOK, [Next]_vars
                 PROVE  TypeOK'
      OBVIOUS
    <2> USE DEF TypeOK, PC, InFlight, Talking, Final, Failed, Goto, NoReply,
                gateway, redisState, history
    <2>1. ASSUME NEW r \in Request, GetQuota(r) PROVE TypeOK'
      BY <2>1 DEF GetQuota
    <2>2. ASSUME NEW r \in Request, ConfigGet(r) PROVE TypeOK'
      BY <2>2 DEF ConfigGet
    <2>3. ASSUME NEW r \in Request, Info(r) PROVE TypeOK'
      BY <2>3 DEF Info
    <2>4. ASSUME NEW r \in Request, EvalRuns(r) PROVE TypeOK'
      <3> DEFINE k == key[r]
                 result == CONSUME(mem[k], lim[r])
      <3>1. result.entry \in Entry /\ result.allowed \in BOOLEAN /\ result.ttl \in -1..Window
        BY <2>4, ConsumeType DEF EvalRuns
      <3>2. mem' \in [Key -> Entry] /\ disk' \in [Key -> Entry] /\ tainted' \in SUBSET Key
        BY <2>4, <3>1 DEF EvalRuns
      <3>3. reply' \in [Request -> [allowed : BOOLEAN, ttl : -1..Window]]
        BY <2>4, <3>1 DEF EvalRuns
      <3>4. /\ charged' \in [Key -> SUBSET Request]
            /\ left' \in [Key -> 0..Window]
            /\ refused' \in [Key -> SUBSET Request]
            /\ charges' \in [Request -> Nat]
        <4>1. CASE result.allowed
          <5>1. charged' = [charged EXCEPT ![k] = @ \cup {r}]
            BY <2>4, <4>1 DEF EvalRuns
          <5>2. left' = [left EXCEPT ![k] = IF charged[k] = {} THEN Window ELSE @]
            BY <2>4, <4>1 DEF EvalRuns
          <5>3. charges' = [charges EXCEPT ![r] = @ + 1] /\ refused' = refused
            BY <2>4, <4>1 DEF EvalRuns
          <5> QED
            BY <5>1, <5>2, <5>3
        <4>2. CASE ~result.allowed
          BY <2>4, <4>2 DEF EvalRuns
        <4> QED
          BY <4>1, <4>2
      <3> QED
        BY <2>4, <3>2, <3>3, <3>4 DEF EvalRuns
    <2>5. ASSUME NEW r \in Request, EvalErrors(r) PROVE TypeOK'
      BY <2>5 DEF EvalErrors
    <2>6. ASSUME NEW r \in Request, ReplyArrives(r) PROVE TypeOK'
      BY <2>6, RetryAfterLemma DEF ReplyArrives
    <2>7. ASSUME NEW r \in Request, StoreFails(r) PROVE TypeOK'
      BY <2>7 DEF StoreFails
    <2>8. ASSUME NEW r \in Request, Serve(r) PROVE TypeOK'
      BY <2>8 DEF Serve
    <2>9. ASSUME NEW k \in Key, NEW l \in 1..MaxLimit, SetLimit(k, l) PROVE TypeOK'
      BY <2>9 DEF SetLimit
    <2>10. CASE GatewayCrash
      BY <2>10 DEF GatewayCrash
    <2>11. CASE RedisCrash \/ RedisRestart
      BY <2>11 DEF RedisCrash, RedisRestart
    <2>12. CASE WeakenPersistence \/ AllowEviction \/ AofWriteFails \/ RepairStore
      BY <2>12 DEF WeakenPersistence, AllowEviction, AofWriteFails, RepairStore
    <2>13. ASSUME NEW k \in Key, Evict(k) \/ Tamper(k) PROVE TypeOK'
      BY <2>13, SpecialEntries DEF Evict, Tamper
    <2>14. CASE Tick
      BY <2>14, AgedType DEF Tick
    <2>15. CASE UNCHANGED vars
      BY <2>15 DEF vars
    <2> QED
      BY <2>1, <2>2, <2>3, <2>4, <2>5, <2>6, <2>7, <2>8, <2>9, <2>10, <2>11, <2>12,
         <2>13, <2>14, <2>15 DEF Next, Step, Environment
  <1> QED
    BY <1>1, <1>2, PTL DEF Spec

-----------------------------------------------------------------------------
(* The inductive invariant, one conjunct at a time                         *)

\* WeakenPersistence and AofWriteFails expose the requests they overtake, and
\* a request only comes to "eval" through the two checks.
LEMMA ExposureStep == TypeOK /\ Exposure /\ [Next]_vars => Exposure'
  <1> SUFFICES ASSUME TypeOK, Exposure, [Next]_vars
               PROVE  Exposure'
    OBVIOUS
  <1> USE DEF TypeOK, Exposure, Durable, Goto, gateway, redisState, history
  <1>1. ASSUME NEW r \in Request, GetQuota(r) \/ ConfigGet(r) \/ Info(r)
        PROVE  Exposure'
    BY <1>1 DEF GetQuota, ConfigGet, Info
  <1>2. ASSUME NEW r \in Request,
               EvalErrors(r) \/ ReplyArrives(r) \/ StoreFails(r) \/ Serve(r)
        PROVE  Exposure'
    BY <1>2 DEF EvalErrors, ReplyArrives, StoreFails, Serve
  <1>3. ASSUME NEW r \in Request, EvalRuns(r)
        PROVE  Exposure'
    BY <1>3 DEF EvalRuns
  <1>4. ASSUME NEW k \in Key, NEW l \in 1..MaxLimit, SetLimit(k, l)
        PROVE  Exposure'
    BY <1>4 DEF SetLimit
  <1>5. CASE GatewayCrash
    BY <1>5 DEF GatewayCrash
  <1>6. CASE RedisCrash \/ RedisRestart
    BY <1>6 DEF RedisCrash, RedisRestart
  <1>7. CASE WeakenPersistence \/ AllowEviction \/ AofWriteFails \/ RepairStore
    BY <1>7 DEF WeakenPersistence, AllowEviction, AofWriteFails, RepairStore
  <1>8. ASSUME NEW k \in Key, Evict(k) \/ Tamper(k)
        PROVE  Exposure'
    BY <1>8 DEF Evict, Tamper
  <1>9. CASE Tick \/ UNCHANGED vars
    BY <1>9 DEF Tick, vars
  <1> QED
    BY <1>1, <1>2, <1>3, <1>4, <1>5, <1>6, <1>7, <1>8, <1>9 DEF Next, Step, Environment

\* Only EvalRuns charges, it charges the request it runs for, once, and sends
\* it past "eval"; no step sends a request back.
LEMMA ChargeStep ==
  TypeOK /\ ChargeOfPC /\ Members /\ [Next]_vars => ChargeOfPC' /\ Members'
  <1> SUFFICES ASSUME TypeOK, ChargeOfPC, Members, [Next]_vars
               PROVE  ChargeOfPC' /\ Members'
    OBVIOUS
  <1> USE DEF TypeOK, ChargeOfPC, Members, Goto, gateway, redisState, history
  <1>1. ASSUME NEW r \in Request, GetQuota(r) \/ ConfigGet(r) \/ Info(r)
        PROVE  ChargeOfPC' /\ Members'
    <2>1. CASE GetQuota(r)
      <3>1. /\ pc[r] = "idle" /\ lim' = [lim EXCEPT ![r] = limit[key[r]]]
            /\ pc' = [pc EXCEPT ![r] = IF limit[key[r]] = 0 THEN "denied" ELSE "config"]
            /\ UNCHANGED <<reply, charged, charges>>
        BY <2>1 DEF GetQuota
      <3>2. limit[key[r]] \in 0..MaxLimit
        OBVIOUS
      <3>3. ChargeOfPC'
        BY <3>1
      <3>4. Members'
        BY <3>1, <3>2
      <3> QED
        BY <3>3, <3>4
    <2>2. CASE ConfigGet(r) \/ Info(r)
      BY <2>2 DEF ConfigGet, Info
    <2> QED
      BY <1>1, <2>1, <2>2
  <1>2. ASSUME NEW r \in Request,
               EvalErrors(r) \/ ReplyArrives(r) \/ StoreFails(r) \/ Serve(r)
        PROVE  ChargeOfPC' /\ Members'
    BY <1>2 DEF EvalErrors, ReplyArrives, StoreFails, Serve, Talking
  <1>3. ASSUME NEW r \in Request, EvalRuns(r)
        PROVE  ChargeOfPC' /\ Members'
    <2> DEFINE k == key[r]
               result == CONSUME(mem[k], lim[r])
    <2>1. /\ pc[r] = "eval" /\ pc' = [pc EXCEPT ![r] = "reply"]
          /\ reply' = [reply EXCEPT ![r] = [allowed |-> result.allowed, ttl |-> result.ttl]]
          /\ lim' = lim
          /\ k \in Key
      BY <1>3 DEF EvalRuns
    <2>2. CASE result.allowed
      <3>1. /\ charged' = [charged EXCEPT ![k] = @ \cup {r}]
            /\ charges' = [charges EXCEPT ![r] = @ + 1]
        BY <1>3, <2>2 DEF EvalRuns
      <3> QED
        BY <2>1, <2>2, <3>1
    <2>3. CASE ~result.allowed
      <3>1. charged' = charged /\ charges' = charges
        BY <1>3, <2>3 DEF EvalRuns
      <3> QED
        BY <2>1, <2>3, <3>1
    <2> QED
      BY <2>2, <2>3
  <1>4. ASSUME NEW k \in Key, NEW l \in 1..MaxLimit, SetLimit(k, l)
        PROVE  ChargeOfPC' /\ Members'
    BY <1>4 DEF SetLimit
  <1>5. CASE GatewayCrash
    BY <1>5 DEF GatewayCrash, InFlight, Talking
  <1>6. CASE RedisCrash \/ RedisRestart
    BY <1>6 DEF RedisCrash, RedisRestart
  <1>7. CASE WeakenPersistence \/ AllowEviction \/ AofWriteFails \/ RepairStore
    BY <1>7 DEF WeakenPersistence, AllowEviction, AofWriteFails, RepairStore
  <1>8. ASSUME NEW k \in Key, Evict(k) \/ Tamper(k)
        PROVE  ChargeOfPC' /\ Members'
    BY <1>8 DEF Evict, Tamper
  <1>9. CASE Tick \/ UNCHANGED vars
    BY <1>9 DEF Tick, vars
  <1> QED
    BY <1>1, <1>2, <1>3, <1>4, <1>5, <1>6, <1>7, <1>8, <1>9 DEF Next, Step, Environment

\* A charged request joins its window: the ideal entry counts one more.
LEMMA IdealAfterCharge ==
  ASSUME TypeOK, NEW k \in Key, NEW r \in Request, r \notin charged[k]
  PROVE  /\ IsFiniteSet(charged[k])
         /\ Cardinality(charged[k]) \in Nat
         /\ Cardinality(charged[k] \cup {r}) = Cardinality(charged[k]) + 1
         /\ charged[k] = {} <=> Cardinality(charged[k]) = 0
  <1>1. IsFiniteSet(charged[k])
    BY FS_Subset DEF TypeOK
  <1> QED
    BY <1>1, FS_AddElement, FS_CardinalityType, FS_EmptySet

\* The counter stays exact: a write on an untainted key reaches memory and
\* disk together, a restart loads what memory held, and entry and window age
\* together.
LEMMA ExactStep ==
  TypeOK /\ Exposure /\ ChargeOfPC /\ Members /\ ExactCount /\ [Next]_vars => ExactCount'
  <1> SUFFICES ASSUME TypeOK, Exposure, ChargeOfPC, Members, ExactCount, [Next]_vars
               PROVE  ExactCount'
    OBVIOUS
  <1> USE DEF ExactCount
  <1>1. ASSUME NEW r \in Request, GetQuota(r) \/ ConfigGet(r) \/ Info(r)
        PROVE  ExactCount'
    BY <1>1 DEF GetQuota, ConfigGet, Info, history, Ideal
  <1>2. ASSUME NEW r \in Request,
               EvalErrors(r) \/ ReplyArrives(r) \/ StoreFails(r) \/ Serve(r)
        PROVE  ExactCount'
    BY <1>2 DEF EvalErrors, ReplyArrives, StoreFails, Serve, history, Ideal
  <1>3. ASSUME NEW r \in Request, EvalRuns(r)
        PROVE  ExactCount'
    <2>0. PICK k \in Key : k = key[r]
      BY DEF TypeOK
    <2> DEFINE result == CONSUME(mem[k], lim[r])
    <2>1. r \notin charged[k]
      BY <1>3, <2>0 DEF EvalRuns, TypeOK, ChargeOfPC, Members
    <2>2. tainted \subseteq tainted'
      BY <1>3 DEF EvalRuns
    <2>3. CASE ~result.allowed
      <3>1. result.entry = mem[k]
        BY <2>3 DEF CONSUME, Result
      <3>2. charged' = charged /\ left' = left /\ tainted' = tainted /\ mem' = mem
        BY <1>3, <2>0, <2>3, <3>1 DEF EvalRuns, TypeOK
      <3>3. disk' = disk \/ disk' = [disk EXCEPT ![k] = mem[k]]
        BY <1>3, <2>0, <3>1 DEF EvalRuns
      <3>4. k \notin tainted => disk[k] = mem[k]
        BY <2>1
      <3>5. \A j \in Key \ tainted : disk'[j] = disk[j]
        BY <3>3, <3>4, <2>1 DEF TypeOK
      <3> QED
        BY <3>2, <3>5 DEF Ideal
    <2>4. CASE result.allowed
      <3>1. /\ mem' = [mem EXCEPT ![k] = result.entry]
            /\ charged' = [charged EXCEPT ![k] = @ \cup {r}]
            /\ left' = [left EXCEPT ![k] = IF charged[k] = {} THEN Window ELSE @]
        BY <1>3, <2>0, <2>4 DEF EvalRuns
      <3>2. disk' = [disk EXCEPT ![k] = result.entry] \/ (disk' = disk /\ k \in tainted')
        BY <1>3, <2>0, <2>4 DEF EvalRuns, Exposure
      <3>3. ASSUME NEW j \in Key, j \notin tainted', j # k
            PROVE  mem'[j] = Ideal(j)' /\ disk'[j] = Ideal(j)'
        BY <2>1, <2>2, <3>1, <3>2, <3>3 DEF Ideal, TypeOK
      <3>4. ASSUME k \notin tainted'
            PROVE  mem'[k] = Ideal(k)' /\ disk'[k] = Ideal(k)'
        <4>1. mem[k] = Ideal(k)
          BY <2>1, <2>2, <3>4
        <4>2. mem'[k] = result.entry /\ disk'[k] = result.entry
          BY <2>1, <3>1, <3>2, <3>4 DEF TypeOK
        <4>3. Ideal(k)' = [n |-> Cardinality(charged[k]) + 1,
                           ttl |-> IF charged[k] = {} THEN Window ELSE left[k]]
          <5>1. charged'[k] = charged[k] \cup {r} /\ charged'[k] # {}
            BY <2>1, <3>1 DEF TypeOK
          <5>2. left'[k] = IF charged[k] = {} THEN Window ELSE left[k]
            BY <2>1, <3>1 DEF TypeOK
          <5> QED
            BY <2>1, <5>1, <5>2, IdealAfterCharge DEF Ideal
        <4>4. CASE charged[k] = {}
          <5>1. Cardinality(charged[k]) = 0
            BY <2>1, <4>4, IdealAfterCharge
          <5>2. result.entry = [n |-> 1, ttl |-> Window]
            BY <4>1, <4>4 DEF Ideal, CONSUME, Result
          <5> QED
            BY <4>2, <4>3, <4>4, <5>1, <5>2
        <4>5. CASE charged[k] # {}
          <5>1. Cardinality(charged[k]) \in Nat /\ Cardinality(charged[k]) # 0
            BY <2>1, <4>5, IdealAfterCharge
          <5>2. mem[k] = [n |-> Cardinality(charged[k]), ttl |-> left[k]]
            BY <4>1, <4>5 DEF Ideal
          <5>3. mem[k] # Absent
            BY <5>1, <5>2 DEF Absent
          <5>4. result.entry = [n |-> Cardinality(charged[k]) + 1, ttl |-> left[k]]
            BY <2>4, <5>2, <5>3 DEF CONSUME, Result
          <5> QED
            BY <4>2, <4>3, <4>5, <5>4
        <4> QED
          BY <4>4, <4>5
      <3> QED
        BY <3>3, <3>4 DEF ExactCount
    <2> QED
      BY <2>3, <2>4
  <1>4. ASSUME NEW k \in Key, NEW l \in 1..MaxLimit, SetLimit(k, l)
        PROVE  ExactCount'
    BY <1>4 DEF SetLimit, history, Ideal
  <1>5. CASE GatewayCrash
    BY <1>5 DEF GatewayCrash, history, Ideal
  <1>6. CASE RedisCrash \/ RedisRestart
    BY <1>6 DEF RedisCrash, RedisRestart, history, Ideal
  <1>7. CASE WeakenPersistence \/ AllowEviction \/ AofWriteFails \/ RepairStore
    BY <1>7 DEF WeakenPersistence, AllowEviction, AofWriteFails, RepairStore, history, Ideal
  <1>8. ASSUME NEW k \in Key, Evict(k) \/ Tamper(k)
        PROVE  ExactCount'
    <2>1. ASSUME NEW j \in Key, j \notin tainted'
          PROVE  j # k /\ j \notin tainted
      BY <1>8, <2>1 DEF Evict, Tamper
    <2>2. \A j \in Key : j # k => mem'[j] = mem[j] /\ disk'[j] = disk[j]
      BY <1>8 DEF Evict, Tamper, TypeOK
    <2> QED
      BY <1>8, <2>1, <2>2 DEF Evict, Tamper, Ideal
  <1>9. CASE Tick
    <2> SUFFICES ASSUME NEW k \in Key, k \notin tainted
                 PROVE  Aged(Ideal(k)) = Ideal(k)'
      BY <1>9 DEF Tick
    <2>1. /\ charged'[k] = IF left[k] = 0 THEN {} ELSE charged[k]
          /\ left'[k] = IF left[k] = 0 THEN 0 ELSE left[k] - 1
          /\ left[k] \in 0..Window
      BY <1>9 DEF Tick, TypeOK
    <2> QED
      BY <2>1 DEF Ideal, Aged, Absent
  <1>10. CASE UNCHANGED vars
    BY <1>10 DEF vars, history, Ideal
  <1> QED
    BY <1>1, <1>2, <1>3, <1>4, <1>5, <1>6, <1>7, <1>8, <1>9, <1>10 DEF Next, Step, Environment

\* The bound on a window survives a charge: a request joins only a window that
\* holds fewer members than the limit it read, and only the bounds at or above
\* that limit count it.
LEMMA BoundStep ==
  IInv /\ [Next]_vars => WindowBound'
  <1> SUFFICES ASSUME IInv, [Next]_vars
               PROVE  WindowBound'
    OBVIOUS
  <1> USE DEF IInv
  <1> DEFINE Held(k, l) == {r \in charged[k] : lim[r] <= l}
  <1>1. ASSUME charged' = charged, lim' = lim, tainted \subseteq tainted'
        PROVE  WindowBound'
    BY <1>1 DEF WindowBound
  <1>2. ASSUME NEW r \in Request, GetQuota(r)
        PROVE  WindowBound'
    <2>1. charged' = charged /\ tainted' = tainted /\ \A q \in Request : q # r => lim'[q] = lim[q]
      BY <1>2 DEF GetQuota, history, TypeOK
    <2>2. \A k \in Key : r \notin charged[k]
      BY <1>2 DEF GetQuota, ChargeOfPC, Members
    <2>3. \A k \in Key, l \in 0..MaxLimit : {q \in charged'[k] : lim'[q] <= l} = Held(k, l)
      BY <2>1, <2>2 DEF TypeOK
    <2> QED
      BY <2>1, <2>3 DEF WindowBound
  <1>3. ASSUME NEW r \in Request, EvalRuns(r)
        PROVE  WindowBound'
    <2>0. PICK k \in Key : k = key[r]
      BY DEF TypeOK
    <2> DEFINE result == CONSUME(mem[k], lim[r])
    <2>1. r \notin charged[k] /\ lim[r] \in 1..MaxLimit /\ lim' = lim /\ tainted \subseteq tainted'
      BY <1>3, <2>0 DEF EvalRuns, TypeOK, ChargeOfPC, Members
    <2>2. CASE ~result.allowed
      BY <1>1, <1>3, <2>0, <2>1, <2>2 DEF EvalRuns
    <2>3. CASE result.allowed
      <3>1. charged' = [charged EXCEPT ![k] = @ \cup {r}]
        BY <1>3, <2>0, <2>3 DEF EvalRuns
      <3>2. SUFFICES ASSUME NEW j \in Key, j \notin tainted, NEW l \in 0..MaxLimit
                     PROVE  Cardinality({q \in charged'[j] : lim[q] <= l}) <= l
        BY <2>1 DEF WindowBound
      <3>3. CASE j # k \/ l < lim[r]
        <4>1. {q \in charged'[j] : lim[q] <= l} = Held(j, l)
          <5>1. CASE j # k
            BY <3>1, <5>1 DEF TypeOK
          <5>2. CASE j = k /\ l < lim[r]
            <6>1. charged'[k] = charged[k] \cup {r} /\ ~(lim[r] <= l)
              BY <2>1, <3>1, <5>2 DEF TypeOK
            <6> QED
              BY <5>2, <6>1
          <5> QED
            BY <3>3, <5>1, <5>2
        <4> QED
          BY <3>2, <4>1 DEF WindowBound
      <3>4. CASE j = k /\ lim[r] <= l
        <4>1. /\ IsFiniteSet(charged[k])
              /\ Cardinality(charged[k]) \in Nat
              /\ Cardinality(charged[k] \cup {r}) = Cardinality(charged[k]) + 1
              /\ charged[k] = {} <=> Cardinality(charged[k]) = 0
          BY <2>1, IdealAfterCharge
        <4>2. charged'[k] = charged[k] \cup {r} /\ IsFiniteSet(charged[k] \cup {r})
          <5>1. charged'[k] = charged[k] \cup {r}
            BY <3>1 DEF TypeOK
          <5>2. IsFiniteSet(charged[k] \cup {r})
            BY <4>1, FS_AddElement
          <5> QED
            BY <5>1, <5>2
        <4>3. /\ Cardinality({q \in charged'[k] : lim[q] <= l}) \in Nat
              /\ Cardinality({q \in charged'[k] : lim[q] <= l}) <= Cardinality(charged[k]) + 1
          <5> DEFINE S == {q \in charged'[k] : lim[q] <= l}
          <5>1. S \subseteq charged[k] \cup {r}
            BY <4>2
          <5>2. IsFiniteSet(S) /\ Cardinality(S) <= Cardinality(charged[k] \cup {r})
            BY <4>2, <5>1, FS_Subset
          <5>3. Cardinality(S) \in Nat
            BY <5>2, FS_CardinalityType
          <5> QED
            BY <4>1, <5>2, <5>3
        <4>4. Cardinality(charged[k]) + 1 <= lim[r]
          <5>1. CASE charged[k] = {}
            BY <2>1, <4>1, <5>1
          <5>2. CASE charged[k] # {}
            <6>1. mem[k] = [n |-> Cardinality(charged[k]), ttl |-> left[k]] /\ mem[k] # Absent
              BY <3>2, <3>4, <4>1, <5>2 DEF ExactCount, Ideal, Absent
            <6>2. ~(mem[k].n >= lim[r])
              BY <2>3, <6>1 DEF CONSUME, Result
            <6> QED
              BY <2>1, <4>1, <6>1, <6>2
          <5> QED
            BY <5>1, <5>2
        <4> QED
          BY <2>1, <3>4, <4>1, <4>3, <4>4
      <3> QED
        BY <2>1, <3>3, <3>4
    <2> QED
      BY <2>2, <2>3
  <1>4. ASSUME NEW r \in Request,
               \/ ConfigGet(r) \/ Info(r) \/ EvalErrors(r) \/ ReplyArrives(r)
               \/ StoreFails(r) \/ Serve(r)
        PROVE  WindowBound'
    BY <1>1, <1>4 DEF ConfigGet, Info, EvalErrors, ReplyArrives, StoreFails, Serve, history
  <1>5. CASE Environment
    BY <1>1, <1>5 DEF Environment, SetLimit, GatewayCrash, RedisCrash, RedisRestart,
       WeakenPersistence, AllowEviction, AofWriteFails, RepairStore, Evict, Tamper,
       gateway, history
  <1>6. CASE Tick
    <2> SUFFICES ASSUME NEW k \in Key, k \notin tainted, NEW l \in 0..MaxLimit
                 PROVE  Cardinality({r \in charged'[k] : lim[r] <= l}) <= l
      BY <1>6 DEF Tick, WindowBound
    <2>1. CASE left[k] = 0
      <3>1. {r \in charged'[k] : lim[r] <= l} = {}
        BY <1>6, <2>1 DEF Tick
      <3> QED
        BY <3>1, FS_EmptySet
    <2>2. CASE left[k] # 0
      BY <1>6, <2>2 DEF Tick, WindowBound
    <2> QED
      BY <2>1, <2>2
  <1>7. CASE UNCHANGED vars
    BY <1>1, <1>7 DEF vars, gateway, history
  <1> QED
    BY <1>2, <1>3, <1>4, <1>5, <1>6, <1>7 DEF Next, Step

\* A refusal is answered with a wait of at least what is left of the window
\* that refused, and both shrink together.
LEMMA RefusalStep ==
  IInv /\ [Next]_vars => Refusals' /\ RetryAfterCovers'
  <1> SUFFICES ASSUME IInv, [Next]_vars
               PROVE  Refusals' /\ RetryAfterCovers'
    OBVIOUS
  <1> USE DEF IInv
  <1>1. ASSUME NEW r \in Request,
               \/ GetQuota(r) \/ ConfigGet(r) \/ Info(r) \/ EvalErrors(r)
               \/ StoreFails(r) \/ Serve(r)
        PROVE  Refusals' /\ RetryAfterCovers'
    BY <1>1 DEF GetQuota, ConfigGet, Info, EvalErrors, StoreFails, Serve, Goto, history,
       Talking, Refusals, RetryAfterCovers, TypeOK
  <1>2. ASSUME NEW r \in Request, EvalRuns(r)
        PROVE  Refusals' /\ RetryAfterCovers'
    <2>0. PICK k \in Key : k = key[r]
      BY DEF TypeOK
    <2> DEFINE result == CONSUME(mem[k], lim[r])
    <2>1. /\ pc[r] = "eval" /\ pc' = [pc EXCEPT ![r] = "reply"]
          /\ reply' = [reply EXCEPT ![r] = [allowed |-> result.allowed, ttl |-> result.ttl]]
          /\ wait' = wait /\ tainted \subseteq tainted'
      BY <1>2, <2>0 DEF EvalRuns, Goto
    <2>2. \A j \in Key \ tainted : r \notin refused[j]
      BY <2>1 DEF Refusals
    <2>3. CASE result.allowed
      <3>1. /\ charged' = [charged EXCEPT ![k] = @ \cup {r}]
            /\ left' = [left EXCEPT ![k] = IF charged[k] = {} THEN Window ELSE @]
            /\ refused' = refused
        BY <1>2, <2>0, <2>3 DEF EvalRuns
      <3>2. \A j \in Key : refused[j] # {} /\ j \notin tainted
                             => left'[j] = left[j] /\ charged'[j] # {}
        BY <3>1 DEF Refusals, TypeOK
      <3> QED
        BY <2>1, <2>2, <3>1, <3>2 DEF Refusals, RetryAfterCovers, TypeOK
    <2>4. CASE ~result.allowed
      <3>1. /\ refused' = [refused EXCEPT ![k] = @ \cup {r}]
            /\ charged' = charged /\ left' = left
        BY <1>2, <2>0, <2>4 DEF EvalRuns
      <3>2. mem[k] # Absent /\ result.ttl = mem[k].ttl
        BY <2>4 DEF CONSUME, Result
      <3>3. k \notin tainted => charged[k] # {} /\ result.ttl = left[k]
        <4> SUFFICES ASSUME k \notin tainted
                     PROVE  charged[k] # {} /\ mem[k].ttl = left[k]
          BY <3>2
        <4>1. mem[k] = Ideal(k)
          BY DEF ExactCount
        <4>2. charged[k] # {}
          BY <3>2, <4>1 DEF Ideal
        <4>3. mem[k] = [n |-> Cardinality(charged[k]), ttl |-> left[k]]
          BY <4>1, <4>2 DEF Ideal
        <4> QED
          BY <4>2, <4>3
      <3>4. reply'[r] = [allowed |-> FALSE, ttl |-> result.ttl] /\ pc'[r] = "reply"
        BY <2>1, <2>4 DEF TypeOK, CONSUME, Result
      <3>5. \A q \in Request : q # r => reply'[q] = reply[q] /\ pc'[q] = pc[q]
        BY <2>1 DEF TypeOK
      <3>6. ASSUME NEW j \in Key, j \notin tainted'
            PROVE  /\ refused'[j] # {} => charged'[j] # {}
                   /\ \A q \in refused'[j] :
                        /\ pc'[q] \in {"reply", "exceeded", "unavailable", "aborted"}
                        /\ pc'[q] = "reply" => ~reply'[q].allowed /\ left'[j] <= reply'[q].ttl
                        /\ pc'[q] = "exceeded" => left'[j] <= wait'[q]
        <4>1. j \notin tainted
          BY <2>1, <3>6
        <4>2. CASE j = k
          <5>1. refused'[j] = refused[k] \cup {r} /\ left[k] \in Int
            BY <3>1, <4>2 DEF TypeOK
          <5>2. refused[k] \subseteq Request /\ r \notin refused[k]
            BY <2>2, <4>1, <4>2 DEF TypeOK
          <5> QED
            BY <2>1, <3>1, <3>3, <3>4, <3>5, <4>1, <4>2, <5>1, <5>2
               DEF Refusals, RetryAfterCovers
        <4>3. CASE j # k
          <5>1. refused'[j] = refused[j] /\ refused[j] \subseteq Request /\ r \notin refused[j]
            BY <2>2, <3>1, <4>1, <4>3 DEF TypeOK
          <5> QED
            BY <2>1, <3>1, <3>5, <4>1, <5>1 DEF Refusals, RetryAfterCovers
        <4> QED
          BY <4>2, <4>3
      <3> QED
        BY <3>6 DEF Refusals, RetryAfterCovers
    <2> QED
      BY <2>3, <2>4
  <1>3. ASSUME NEW r \in Request, ReplyArrives(r)
        PROVE  Refusals' /\ RetryAfterCovers'
    <2>1. /\ pc[r] = "reply" /\ reply[r].ttl \in -1..Window
          /\ refused' = refused /\ charged' = charged /\ left' = left /\ tainted' = tainted
          /\ \A q \in Request : q # r => pc'[q] = pc[q] /\ wait'[q] = wait[q] /\ reply'[q] = reply[q]
      BY <1>3 DEF ReplyArrives, Goto, history, TypeOK
    <2>2. ~reply[r].allowed => pc'[r] = "exceeded" /\ wait'[r] = RetryAfter(reply[r].ttl)
      BY <1>3 DEF ReplyArrives, Goto, TypeOK
    <2>3. RetryAfter(reply[r].ttl) \in Nat /\ RetryAfter(reply[r].ttl) >= reply[r].ttl
      BY <2>1, RetryAfterLemma
    <2>4. ASSUME NEW j \in Key, j \notin tainted, NEW q \in refused[j]
          PROVE  /\ pc'[q] \in {"reply", "exceeded", "unavailable", "aborted"}
                 /\ pc'[q] = "reply" => ~reply'[q].allowed /\ left[j] <= reply'[q].ttl
                 /\ pc'[q] = "exceeded" => left[j] <= wait'[q]
      <3>1. CASE q = r
        <4>1. ~reply[r].allowed /\ left[j] <= reply[r].ttl /\ left[j] \in Int
          BY <2>1, <2>4, <3>1 DEF Refusals, TypeOK
        <4> QED
          BY <2>1, <2>2, <2>3, <3>1, <4>1
      <3>2. CASE q # r
        BY <2>1, <2>4, <3>2 DEF Refusals, RetryAfterCovers, TypeOK
      <3> QED
        BY <3>1, <3>2
    <2> QED
      BY <2>1, <2>4 DEF Refusals, RetryAfterCovers
  <1>4. CASE Environment
    <2>1. /\ refused' = refused /\ charged' = charged /\ left' = left
          /\ tainted \subseteq tainted' /\ wait' = wait
      BY <1>4 DEF Environment, SetLimit, GatewayCrash, RedisCrash, RedisRestart,
         WeakenPersistence, AllowEviction, AofWriteFails, RepairStore, Evict, Tamper,
         gateway, history
    <2>2. CASE GatewayCrash
      BY <2>1, <2>2 DEF GatewayCrash, InFlight, Talking, Refusals, RetryAfterCovers, TypeOK
    <2>3. CASE ~GatewayCrash
      <3>1. pc' = pc /\ reply' = reply
        BY <1>4, <2>3 DEF Environment, SetLimit, RedisCrash, RedisRestart,
           WeakenPersistence, AllowEviction, AofWriteFails, RepairStore, Evict, Tamper, gateway
      <3> QED
        BY <2>1, <3>1 DEF Refusals, RetryAfterCovers
    <2> QED
      BY <2>2, <2>3
  <1>5. CASE Tick
    <2>1. ASSUME NEW j \in Key, j \notin tainted
          PROVE  /\ refused'[j] # {} => charged'[j] # {}
                 /\ \A q \in refused'[j] :
                      /\ pc'[q] \in {"reply", "exceeded", "unavailable", "aborted"}
                      /\ pc'[q] = "reply" => ~reply'[q].allowed /\ left'[j] <= reply'[q].ttl
                      /\ pc'[q] = "exceeded" => left'[j] <= wait'[q]
      <3>1. CASE left[j] = 0
        <4>1. refused'[j] = {}
          BY <1>5, <3>1 DEF Tick
        <4> QED
          BY <4>1
      <3>2. CASE left[j] # 0
        <4>1. /\ refused'[j] = refused[j] /\ charged'[j] = charged[j] /\ left'[j] = left[j] - 1
              /\ pc' = pc /\ reply' = reply /\ left[j] \in Nat
          BY <1>5, <3>2 DEF Tick, TypeOK
        <4>2. \A q \in refused[j] : /\ q \in Request /\ wait[q] \in Nat /\ reply[q].ttl \in Int
                                    /\ wait'[q] = IF wait[q] > 0 THEN wait[q] - 1 ELSE 0
          BY <1>5 DEF Tick, TypeOK
        <4> QED
          BY <2>1, <3>2, <4>1, <4>2 DEF Refusals, RetryAfterCovers
      <3> QED
        BY <3>1, <3>2
    <2> QED
      BY <1>5, <2>1 DEF Tick, Refusals, RetryAfterCovers
  <1>6. CASE UNCHANGED vars
    BY <1>6 DEF vars, gateway, history, Refusals, RetryAfterCovers
  <1> QED
    BY <1>1, <1>2, <1>3, <1>4, <1>5, <1>6 DEF Next, Step

-----------------------------------------------------------------------------
(* Theorems                                                                *)

\* IInv holds initially and is preserved by every step.
THEOREM InductiveInvariant == Spec => []IInv
  <1>1. Init => IInv
    <2> SUFFICES ASSUME Init PROVE IInv
      OBVIOUS
    <2>1. TypeOK
      BY DEF Init, TypeOK, PC, InFlight, Talking, Final, Failed, Absent, Entry, NoReply
    <2>2. Exposure /\ ChargeOfPC /\ Members /\ Refusals /\ RetryAfterCovers
      BY DEF Init, Exposure, ChargeOfPC, Members, Refusals, RetryAfterCovers
    <2>3. ExactCount
      BY DEF Init, ExactCount, Ideal
    <2>4. WindowBound
      <3>1. \A k \in Key, l \in 0..MaxLimit : {r \in charged[k] : lim[r] <= l} = {}
        BY DEF Init
      <3> QED
        BY <3>1, FS_EmptySet DEF WindowBound
    <2> QED
      BY <2>1, <2>2, <2>3, <2>4 DEF IInv
  <1>2. TypeOK /\ TypeOK' /\ IInv /\ [Next]_vars => IInv'
    BY ExposureStep, ChargeStep, ExactStep, BoundStep, RefusalStep DEF IInv
  <1> QED
    BY <1>1, <1>2, TypeCorrect, PTL DEF Spec

\* Redis's counter equals the charges of the window, in memory and on disk,
\* through every crash, restart, reconfiguration and lost answer.
THEOREM CounterExact == Spec => []ExactCount
  BY InductiveInvariant, PTL DEF IInv

\* No window admits more than l of the requests held to a limit of at most l,
\* whatever edits of the limit run concurrently.
THEOREM WindowBounded == Spec => []WindowBound
  BY InductiveInvariant, PTL DEF IInv

\* What reaches the upstream was charged, and nothing is charged twice.
THEOREM NoFreeUpstream == Spec => []ChargedOnce
  <1>1. IInv => ChargedOnce
    BY DEF IInv, ChargeOfPC, ChargedOnce
  <1> QED
    BY <1>1, InductiveInvariant, PTL

\* The announced Retry-After covers the rest of the window that refused.
THEOREM RetryAfterSound == Spec => []RetryAfterCovers
  BY InductiveInvariant, PTL DEF IInv

-----------------------------------------------------------------------------
(* The refinement of QuotaWindow                                           *)

\* What the requests were told, as QuotaWindow sees it.
Told == [r \in Request |-> VerdictOf(r)]

\* The instance counts as this module does.
LEMMA SameCardinality == \A S : Promise!Cardinality(S) = Cardinality(S)
  BY DEF Promise!Cardinality, Cardinality

\* A step that leaves the windows alone and tells nobody anything stutters.
LEMMA StutterStep ==
  ASSUME \A r \in Request : VerdictOf(r)' = VerdictOf(r),
         key' = key, lim' = lim, charged' = charged, left' = left, tainted' = tainted
  PROVE  UNCHANGED Promise!vars
  <1>1. Told' = Told
    BY DEF Told
  <1> QED
    BY <1>1 DEF Promise!vars, Told

\* Requests that had not been served and now see an error have failed.
LEMMA FailStep ==
  ASSUME NEW R \in SUBSET Request,
         \A r \in R : VerdictOf(r) \in {"none", "yes", "no"} /\ VerdictOf(r)' = "error",
         \A r \in Request \ R : VerdictOf(r)' = VerdictOf(r),
         key' = key, lim' = lim, charged' = charged, left' = left, tainted' = tainted
  PROVE  Promise!Next
  <1>1. Told' = [r \in Request |-> IF r \in R THEN "error" ELSE Told[r]]
    BY DEF Told
  <1>2. \A r \in R : Told[r] \in {"none", "yes", "no"}
    BY DEF Told
  <1>3. Promise!Fail(R)
    BY <1>1, <1>2 DEF Promise!Fail, Told
  <1> QED
    BY <1>3 DEF Promise!Next

\* The EVAL admits exactly when the open window has room and refuses only a
\* full open window, since the entry it reads is the ideal one.
LEMMA EvalStep ==
  ASSUME IInv, NEW r \in Request, EvalRuns(r)
  PROVE  Promise!Next
  <1> USE DEF IInv
  <1>0. PICK k \in Key : k = key[r]
    BY DEF TypeOK
  <1> DEFINE result == CONSUME(mem[k], lim[r])
  <1>1. /\ pc[r] = "eval" /\ pc' = [pc EXCEPT ![r] = "reply"]
        /\ reply' = [reply EXCEPT ![r] = [allowed |-> result.allowed, ttl |-> result.ttl]]
        /\ result.allowed \in BOOLEAN
        /\ key' = key /\ lim' = lim
    BY <1>0, ConsumeType DEF EvalRuns, Goto, TypeOK
  <1>2. r \notin charged[k] /\ lim[r] \in 1..MaxLimit
    BY <1>0, <1>1 DEF TypeOK, ChargeOfPC, Members
  <1>3. VerdictOf(r) = "none" /\ \A q \in Request : q # r => VerdictOf(q)' = VerdictOf(q)
    BY <1>1 DEF VerdictOf, TypeOK
  <1>4. VerdictOf(r)' = IF result.allowed THEN "yes" ELSE "no"
    <2>1. pc'[r] = "reply" /\ reply'[r].allowed = result.allowed
      BY <1>1 DEF TypeOK
    <2> QED
      BY <2>1 DEF VerdictOf
  <1>5. Told[r] = "none" /\ Told' = [Told EXCEPT ![r] = IF result.allowed THEN "yes" ELSE "no"]
    BY <1>3, <1>4 DEF Told
  <1>6. IsFiniteSet(charged[k]) /\ Cardinality(charged[k]) \in Nat
    BY <1>2, IdealAfterCharge
  <1>7. CASE result.allowed
    <2>1. /\ charged' = [charged EXCEPT ![k] = @ \cup {r}]
          /\ left' = [left EXCEPT ![k] = IF charged[k] = {} THEN Window ELSE @]
          /\ tainted' \in {tainted, tainted \cup {k}}
      BY <1>0, <1>7 DEF EvalRuns
    <2>2. k \in tainted \/ Cardinality(charged[k]) < lim[r]
      <3>1. CASE charged[k] = {}
        BY <1>2, <3>1, FS_EmptySet
      <3>2. CASE charged[k] # {} /\ k \notin tainted
        <4>1. mem[k] = [n |-> Cardinality(charged[k]), ttl |-> left[k]]
          BY <3>2 DEF ExactCount, Ideal
        <4>2. Cardinality(charged[k]) # 0
          BY <1>2, <3>2, IdealAfterCharge
        <4>3. ~(mem[k].n >= lim[r])
          BY <1>7, <4>1, <4>2 DEF CONSUME, Result, Absent
        <4> QED
          BY <1>2, <1>6, <4>1, <4>3
      <3> QED
        BY <3>1, <3>2
    <2>3. left' = [left EXCEPT ![k] = IF Promise!Open(k) THEN @ ELSE Window]
      BY <2>1 DEF Promise!Open
    <2>4. Told[r] = "none" /\ Told' = [Told EXCEPT ![r] = "yes"]
      BY <1>5, <1>7
    <2> HIDE DEF IInv, result
    <2>5. Promise!Asking(r)
      BY <1>2, <2>4 DEF Promise!Asking, Told
    <2>6. k \in tainted \/ Promise!Room(r)
      BY <1>0, <2>2, SameCardinality DEF Promise!Room
    <2>7. Promise!Admit(r)
      BY <1>0, <1>1, <2>1, <2>3, <2>4, <2>5, <2>6 DEF Promise!Admit, Told
    <2> QED
      BY <2>7 DEF Promise!Next
  <1>8. CASE ~result.allowed
    <2>1. charged' = charged /\ left' = left /\ tainted' = tainted
      BY <1>0, <1>8 DEF EvalRuns
    <2>2. k \in tainted \/ (Promise!Open(k) /\ Cardinality(charged[k]) >= lim[r])
      <3> SUFFICES ASSUME k \notin tainted
                   PROVE  charged[k] # {} /\ Cardinality(charged[k]) >= lim[r]
        BY DEF Promise!Open
      <3>1. mem[k] # Absent /\ mem[k].n >= lim[r]
        BY <1>8 DEF CONSUME, Result
      <3>2. mem[k] = Ideal(k)
        BY DEF ExactCount
      <3>3. charged[k] # {}
        BY <3>1, <3>2 DEF Ideal
      <3>4. mem[k] = [n |-> Cardinality(charged[k]), ttl |-> left[k]]
        BY <3>2, <3>3 DEF Ideal
      <3> QED
        BY <3>1, <3>3, <3>4
    <2>3. Told[r] = "none" /\ Told' = [Told EXCEPT ![r] = "no"]
      BY <1>5, <1>8
    <2> HIDE DEF IInv, result
    <2>4. Promise!Asking(r)
      BY <1>2, <2>3 DEF Promise!Asking, Told
    <2>5. k \in tainted \/ (Promise!Open(k) /\ ~Promise!Room(r))
      BY <1>0, <1>2, <1>6, <2>2, SameCardinality DEF Promise!Room
    <2>6. Promise!Refuse(r)
      BY <1>0, <1>1, <2>1, <2>3, <2>4, <2>5 DEF Promise!Refuse, Told
    <2> QED
      BY <2>6 DEF Promise!Next
  <1> QED
    BY <1>1, <1>7, <1>8

\* Every step of the gate is a step of the promised window or a stutter.
LEMMA RefinementStep == IInv /\ [Next]_vars => [Promise!Next]_(Promise!vars)
  <1> SUFFICES ASSUME IInv, [Next]_vars
               PROVE  Promise!Next \/ UNCHANGED Promise!vars
    OBVIOUS
  <1>0. TypeOK /\ Members
    BY DEF IInv
  <1>10. ASSUME NEW r \in Request, GetQuota(r), limit[key[r]] # 0
         PROVE  Promise!Next
    <2>1. /\ key' = key /\ charged' = charged /\ left' = left /\ tainted' = tainted
          /\ lim' = [lim EXCEPT ![r] = limit[key[r]]] /\ reply' = reply
          /\ pc[r] = "idle" /\ pc' = [pc EXCEPT ![r] = "config"]
      BY <1>10 DEF GetQuota, Goto, history
    <2>2. \A q \in Request : VerdictOf(q)' = VerdictOf(q)
      BY <1>0, <2>1 DEF VerdictOf, TypeOK
    <2>3. Told' = Told /\ Told[r] = "none"
      BY <2>1, <2>2 DEF Told, VerdictOf
    <2>4. limit[key[r]] \in 1..MaxLimit /\ lim[r] = 0
      BY <1>0, <1>10, <2>1 DEF TypeOK, Members
    <2>5. Promise!Ask(r, limit[key[r]])
      BY <2>1, <2>3, <2>4 DEF Promise!Ask, Told
    <2> QED
      BY <2>4, <2>5 DEF Promise!Next
  <1>1. ASSUME NEW r \in Request,
               \/ GetQuota(r) /\ limit[key[r]] = 0
               \/ ConfigGet(r) \/ Info(r) \/ EvalErrors(r) \/ StoreFails(r)
        PROVE  Promise!Next \/ UNCHANGED Promise!vars
    <2>0. key' = key /\ lim' = lim
      BY <1>0, <1>1 DEF GetQuota, ConfigGet, Info, EvalErrors, StoreFails, TypeOK, Members
    <2>1. /\ charged' = charged /\ left' = left /\ tainted' = tainted
          /\ \A q \in Request : q # r => pc'[q] = pc[q] /\ reply'[q] = reply[q]
          /\ pc[r] \in {"idle", "config", "info", "eval", "reply"}
          /\ pc'[r] \in {"config", "info", "eval", "denied", "misconfigured", "unavailable"}
          /\ pc[r] = "reply" => pc'[r] = "unavailable"
      BY <1>0, <1>1 DEF GetQuota, ConfigGet, Info, EvalErrors, StoreFails, Goto, Talking,
         history, TypeOK
    <2>2. \A q \in Request : q # r => VerdictOf(q)' = VerdictOf(q)
      BY <2>1 DEF VerdictOf
    <2>3. CASE pc'[r] \in {"config", "info", "eval"}
      <3>1. VerdictOf(r)' = VerdictOf(r)
        BY <2>1, <2>3 DEF VerdictOf
      <3> QED
        BY <2>0, <2>1, <2>2, <3>1, StutterStep
    <2>4. CASE pc'[r] \in {"denied", "misconfigured", "unavailable"}
      <3>1. VerdictOf(r) \in {"none", "yes", "no"} /\ VerdictOf(r)' = "error"
        BY <2>1, <2>4 DEF VerdictOf
      <3>2. /\ {r} \in SUBSET Request
            /\ \A q \in {r} : VerdictOf(q) \in {"none", "yes", "no"} /\ VerdictOf(q)' = "error"
            /\ \A q \in Request \ {r} : VerdictOf(q)' = VerdictOf(q)
        BY <2>2, <3>1
      <3> QED
        BY <2>0, <2>1, <3>2, FailStep
    <2> QED
      BY <2>1, <2>3, <2>4
  <1>2. ASSUME NEW r \in Request, EvalRuns(r)
        PROVE  Promise!Next
    BY <1>2, EvalStep
  <1>3. ASSUME NEW r \in Request, ReplyArrives(r)
        PROVE  UNCHANGED Promise!vars
    <2>1. /\ key' = key /\ lim' = lim /\ charged' = charged /\ left' = left /\ tainted' = tainted
          /\ \A q \in Request : q # r => pc'[q] = pc[q] /\ reply'[q] = reply[q]
          /\ pc[r] = "reply"
          /\ pc'[r] = IF reply[r].allowed THEN "admitted" ELSE "exceeded"
      BY <1>0, <1>3 DEF ReplyArrives, Goto, history, TypeOK
    <2>2. \A q \in Request : VerdictOf(q)' = VerdictOf(q)
      BY <2>1 DEF VerdictOf
    <2> QED
      BY <2>1, <2>2, StutterStep
  <1>4. ASSUME NEW r \in Request, Serve(r)
        PROVE  Promise!Next
    <2>1. /\ key' = key /\ lim' = lim /\ charged' = charged /\ left' = left /\ tainted' = tainted
          /\ \A q \in Request : q # r => pc'[q] = pc[q] /\ reply'[q] = reply[q]
          /\ pc[r] = "admitted" /\ pc'[r] = "served"
      BY <1>0, <1>4 DEF Serve, Goto, history, TypeOK
    <2>2. /\ VerdictOf(r) = "yes" /\ VerdictOf(r)' = "served"
          /\ \A q \in Request : q # r => VerdictOf(q)' = VerdictOf(q)
      BY <2>1 DEF VerdictOf
    <2>3. Told[r] = "yes" /\ Told' = [Told EXCEPT ![r] = "served"]
      BY <2>2 DEF Told
    <2>4. Promise!Serve(r)
      BY <2>1, <2>3 DEF Promise!Serve, Told
    <2> QED
      BY <2>4 DEF Promise!Next
  <1>5. CASE GatewayCrash
    <2> DEFINE R == {r \in Request : pc[r] \in InFlight}
    <2>1. /\ key' = key /\ lim' = lim
          /\ charged' = charged /\ left' = left /\ tainted' = tainted
      BY <1>5 DEF GatewayCrash, history
    <2>2. \A r \in R : VerdictOf(r) \in {"none", "yes", "no"} /\ VerdictOf(r)' = "error"
      BY <1>5 DEF GatewayCrash, InFlight, Talking, VerdictOf
    <2>3. \A r \in Request \ R : VerdictOf(r)' = VerdictOf(r)
      BY <1>5 DEF GatewayCrash, InFlight, Talking, VerdictOf
    <2> QED
      BY <2>1, <2>2, <2>3, FailStep
  <1>6. CASE RedisCrash \/ RedisRestart \/ WeakenPersistence \/ AllowEviction
               \/ AofWriteFails \/ RepairStore \/ (\E k \in Key, l \in 1..MaxLimit : SetLimit(k, l))
    <2>1. /\ pc' = pc /\ reply' = reply /\ key' = key /\ lim' = lim
          /\ charged' = charged /\ left' = left /\ tainted' = tainted
      BY <1>6 DEF RedisCrash, RedisRestart, WeakenPersistence, AllowEviction, AofWriteFails,
         RepairStore, SetLimit, gateway, history
    <2>2. \A r \in Request : VerdictOf(r)' = VerdictOf(r)
      BY <2>1 DEF VerdictOf
    <2> QED
      BY <2>1, <2>2, StutterStep
  <1>7. ASSUME NEW k \in Key, Evict(k) \/ Tamper(k)
        PROVE  Promise!Next
    <2>1. /\ pc' = pc /\ reply' = reply /\ key' = key /\ lim' = lim
          /\ charged' = charged /\ left' = left
          /\ tainted' = tainted \cup {k}
      BY <1>7 DEF Evict, Tamper, gateway
    <2>2. Told' = Told
      BY <2>1 DEF Told, VerdictOf
    <2>3. Promise!Void(k)
      BY <2>1, <2>2 DEF Promise!Void, Told
    <2> QED
      BY <2>3 DEF Promise!Next
  <1>8. CASE Tick
    <2>1. /\ pc' = pc /\ reply' = reply /\ key' = key /\ lim' = lim
          /\ tainted' = tainted
          /\ charged' = [k \in Key |-> IF left[k] = 0 THEN {} ELSE charged[k]]
          /\ left' = [k \in Key |-> IF left[k] = 0 THEN 0 ELSE left[k] - 1]
      BY <1>8 DEF Tick
    <2>2. Told' = Told
      BY <2>1 DEF Told, VerdictOf
    <2>3. Promise!Pass
      BY <2>1, <2>2 DEF Promise!Pass, Told
    <2> QED
      BY <2>3 DEF Promise!Next
  <1>9. CASE UNCHANGED vars
    <2>1. /\ pc' = pc /\ reply' = reply /\ key' = key /\ lim' = lim
          /\ charged' = charged /\ left' = left /\ tainted' = tainted
      BY <1>9 DEF vars, gateway, history
    <2>2. \A r \in Request : VerdictOf(r)' = VerdictOf(r)
      BY <2>1 DEF VerdictOf
    <2> QED
      BY <2>1, <2>2, StutterStep
  <1> QED
    BY <1>1, <1>2, <1>3, <1>4, <1>5, <1>6, <1>7, <1>8, <1>9, <1>10 DEF Next, Step, Environment

\* The gate over Redis, with its round trips, crashes, restarts and operators,
\* implements the fixed window of QuotaWindow: initial states map to initial
\* states and every step to a step or a stutter.
THEOREM GateImplementsWindow == Spec => ImplementsWindow
  <1>1. Init => Promise!Init
    BY DEF Init, Promise!Init, VerdictOf
  <1> QED
    BY <1>1, RefinementStep, InductiveInvariant, PTL DEF Spec, ImplementsWindow, Promise!Spec
=============================================================================
