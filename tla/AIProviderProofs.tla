--------------------------- MODULE AIProviderProofs ---------------------------
(***************************************************************************)
(* Proofs about OmniRouteAIProvider.complete, module AIProvider, for every *)
(* cap, every length of the completions and of the tool results, and       *)
(* whatever the upstream answers and reports.                              *)
(*                                                                         *)
(* The inductive invariant says how many calls were sent and answered at   *)
(* each place the request can stand (Calls), under which cap each was sent *)
(* (Caps), and what had been verified when it ends in success (Ended).     *)
(***************************************************************************)
EXTENDS AIProvider, SequenceTheorems, TLAPS

-----------------------------------------------------------------------------
(* The inductive invariant                                                 *)

\* The types TypeOK leaves open.
Fields ==
    /\ sent \in Seq({None} \cup 1..MaxCap)
    /\ made \in Seq(Tokens)
    /\ reports \in Seq(Usage)

\* The place tells how many calls were sent and answered; the usage of the first
\* call is kept apart only for grounding.
Calls ==
    /\ Len(reports) = Len(made) /\ Len(made) <= Len(sent) /\ Len(sent) <= 2
    /\ pc = "start" => Len(sent) = 0
    /\ pc = "first" => Len(sent) = 1 /\ Len(made) = 0
    /\ pc = "second" => Len(sent) = 2 /\ Len(made) = 1
    /\ pc \in {"finish", "success"} => Len(made) = Len(sent) /\ Len(made) # 0
    /\ pc \in {"finish", "success"} /\ grounding => Len(made) = 2
    /\ Len(made) = 2 => Len(sent) = 2
    /\ Len(sent) < 2 /\ pc # "response" => usage1 = NoUsage

\* The first call is sent with the cap, the second with what is left of it, and
\* only after evidence and with something left.
Caps ==
    /\ Len(sent) > 0 => sent[1] = cap
    /\ Len(sent) = 2 =>
          /\ Len(made) > 0
          /\ usage1 = reports[1]
          /\ Grounded(evidence)
          /\ sent[2] = Remaining(cap, reports[1])
          /\ cap # None => reports[1].completion # None /\ sent[2] >= 1

\* A success was verified.
Ended ==
    pc = "success" =>
        Verified(cap, SumUsage(usage1, reports[Len(reports)]))

IInv == TypeOK /\ Fields /\ Calls /\ Caps /\ Ended

-----------------------------------------------------------------------------
(* The sum of the completions                                              *)

\* g adds up f over the subsets of S, in the order CHOOSE gives.
AddsUp(f, S, g) ==
    g = [s \in SUBSET S |-> IF s = {} THEN 0
                            ELSE LET x == CHOOSE x \in s : TRUE IN f[x] + g[s \ {x}]]

\* What Produced folds is such a sum.
LEMMA ProducedIs ==
    Produced = (CHOOSE g : AddsUp(made, DOMAIN made, g))[DOMAIN made]
BY DEF Produced, FoldSeq, FoldFunction, FoldFunctionOnSet, MapThenFoldSet, AddsUp

\* There is one for any two numbers.
LEMMA SumExists ==
    ASSUME NEW f, NEW S, S \subseteq {1, 2}, \A i \in S : f[i] \in Int
    PROVE  \E g : AddsUp(f, S, g)
<1> DEFINE One(s) == IF s = {} THEN 0 ELSE f[CHOOSE x \in s : TRUE]
           g == [s \in SUBSET S |-> IF s = {} THEN 0
                    ELSE f[CHOOSE x \in s : TRUE] + One(s \ {CHOOSE x \in s : TRUE})]
<1>1. ASSUME NEW s \in SUBSET S, s # {}
      PROVE  g[s \ {CHOOSE x \in s : TRUE}] = One(s \ {CHOOSE x \in s : TRUE})
  <2> DEFINE x == CHOOSE x \in s : TRUE
             t == s \ {x}
             y == CHOOSE y \in t : TRUE
  <2>1. x \in s
    BY <1>1
  <2>2. CASE t = {}
    BY <2>2
  <2>3. CASE t # {}
    <3>1. y \in t
      BY <2>3
    <3>2. t \ {y} = {} /\ y \in S /\ f[y] \in Int
      BY <2>1, <3>1
    <3>3. g[t] = f[y] + One(t \ {y})
      BY <2>3
    <3> QED  BY <2>3, <3>2, <3>3
  <2> QED  BY <2>2, <2>3
<1>2. AddsUp(f, S, g)
  BY <1>1 DEF AddsUp
<1> QED  BY <1>2

\* Whatever the order, it is the sum.
LEMMA SumOf ==
    ASSUME NEW f, NEW S, S \subseteq {1, 2}, \A i \in S : f[i] \in Int,
           NEW g, AddsUp(f, S, g)
    PROVE  /\ g[{}] = 0
           /\ \A i \in S : g[{i}] = f[i]
           /\ S = {1, 2} => g[S] = f[1] + f[2]
<1>1. g[{}] = 0
  BY DEF AddsUp
<1>2. ASSUME NEW i \in S PROVE g[{i}] = f[i]
  <2>1. (CHOOSE x \in {i} : TRUE) = i
    OBVIOUS
  <2>2. g[{i}] = f[i] + g[{i} \ {i}]
    BY <2>1 DEF AddsUp
  <2>3. {i} \ {i} = {}
    OBVIOUS
  <2> QED  BY <1>1, <2>2, <2>3
<1>3. ASSUME S = {1, 2} PROVE g[S] = f[1] + f[2]
  <2> DEFINE x == CHOOSE x \in S : TRUE
  <2>1. x \in {1, 2}
    BY <1>3
  <2>2. g[S] = f[x] + g[S \ {x}]
    BY <1>3 DEF AddsUp
  <2> HIDE DEF x
  <2>3. CASE x = 1
    <3>1. S \ {x} = {2}
      BY <1>3, <2>3
    <3> QED  BY <1>2, <1>3, <2>2, <2>3, <3>1
  <2>4. CASE x = 2
    <3>1. S \ {x} = {1}
      BY <1>3, <2>4
    <3>2. f[1] \in Int /\ f[2] \in Int
      BY <1>3
    <3>3. g[{1}] = f[1]
      BY <1>2, <1>3
    <3>4. f[2] + f[1] = f[1] + f[2]
      BY <3>2
    <3> QED  BY <2>2, <2>4, <3>1, <3>3, <3>4
  <2> QED  BY <2>1, <2>3, <2>4
<1> QED  BY <1>1, <1>2, <1>3

\* What up to two calls produced.
LEMMA ProducedBy ==
    ASSUME made \in Seq(Tokens), MaxTokens \in Nat
    PROVE  /\ Len(made) = 0 => Produced = 0
           /\ Len(made) = 1 => Produced = made[1]
           /\ Len(made) = 2 => Produced = made[1] + made[2]
<1> DEFINE g == CHOOSE g : AddsUp(made, DOMAIN made, g)
<1>1. Produced = g[DOMAIN made]
  BY ProducedIs
<1>2. ASSUME Len(made) \in 0..2
      PROVE  /\ g[{}] = 0
             /\ \A i \in DOMAIN made : g[{i}] = made[i]
             /\ DOMAIN made = {1, 2} => g[DOMAIN made] = made[1] + made[2]
  <2>1. DOMAIN made \subseteq {1, 2} /\ \A i \in DOMAIN made : made[i] \in Int
    BY <1>2 DEF Tokens
  <2>2. AddsUp(made, DOMAIN made, g)
    BY <2>1, SumExists
  <2> HIDE DEF g
  <2> QED  BY <2>1, <2>2, SumOf
<1> HIDE DEF g
<1>3. CASE Len(made) = 0
  <2>1. DOMAIN made = {}
    BY <1>3
  <2> QED  BY <1>1, <1>2, <1>3, <2>1
<1>4. CASE Len(made) = 1
  <2>1. DOMAIN made = {1}
    BY <1>4
  <2> QED  BY <1>1, <1>2, <1>4, <2>1
<1>5. CASE Len(made) = 2
  <2>1. DOMAIN made = {1, 2}
    BY <1>5
  <2> QED  BY <1>1, <1>2, <1>5, <2>1
<1> QED  BY <1>3, <1>4, <1>5

-----------------------------------------------------------------------------
(* The invariant                                                           *)

\* The fields of a usage.
LEMMA UsageTyped ==
    ASSUME NEW u \in Usage
    PROVE  u.reported \in BOOLEAN /\ u.completion \in {None} \cup 0..MaxTokens
<1>1. CASE u = NoUsage
  BY <1>1 DEF NoUsage
<1>2. ASSUME NEW n \in Tokens \cup {None}, u = Report(n)
      PROVE  u.reported \in BOOLEAN /\ u.completion \in {None} \cup 0..MaxTokens
  BY <1>2 DEF Report, Tokens
<1> QED  BY <1>1, <1>2 DEF Usage

\* The sum of two usages is a usage, or the report of the sum.
LEMMA SumTyped ==
    ASSUME NEW u \in Usage, NEW v \in Usage, AIProviderAssumption
    PROVE  SumUsage(u, v).completion \in {None} \cup 0..(2 * MaxTokens)
<1>1. /\ u.reported \in BOOLEAN /\ u.completion \in {None} \cup 0..MaxTokens
      /\ v.reported \in BOOLEAN /\ v.completion \in {None} \cup 0..MaxTokens
  BY UsageTyped
<1>2. \A m, n \in 0..MaxTokens : m + n \in 0..(2 * MaxTokens) /\ m \in 0..(2 * MaxTokens)
  BY DEF AIProviderAssumption
<1> QED  BY <1>1, <1>2 DEF SumUsage, Report, None

\* What is left of a cap is no more than it was.
LEMMA RemainingTyped ==
    ASSUME NEW m \in {None} \cup 1..MaxCap, NEW u \in Usage, AIProviderAssumption,
           m # None => u.completion # None /\ Remaining(m, u) >= 1
    PROVE  Remaining(m, u) \in {None} \cup 1..MaxCap
<1>1. u.completion \in {None} \cup 0..MaxTokens
  BY UsageTyped
<1> QED  BY <1>1 DEF Remaining, None, AIProviderAssumption

\* What appending an element to a sequence leaves as it is.
LEMMA Appended ==
    ASSUME NEW S, NEW s \in Seq(S), NEW m \in S
    PROVE  /\ Append(s, m) \in Seq(S) /\ Len(Append(s, m)) = Len(s) + 1
           /\ \A i \in 1..Len(s) : Append(s, m)[i] = s[i]
           /\ Append(s, m)[Len(s) + 1] = m
<1>1. Append(s, m) \in Seq(S) /\ Len(Append(s, m)) = Len(s) + 1
  BY AppendProperties
<1>2. \A i \in 1..Len(s) : Append(s, m)[i] = s[i]
  BY AppendProperties
<1>3. Append(s, m)[Len(s) + 1] = m
  BY AppendProperties
<1> QED  BY <1>1, <1>2, <1>3

\* The second element of a sequence.
LEMMA SecondAppended ==
    ASSUME NEW S, NEW s \in Seq(S), Len(s) = 1, NEW m \in S
    PROVE  /\ Append(s, m) \in Seq(S) /\ Len(Append(s, m)) = 2
           /\ Append(s, m)[1] = s[1] /\ Append(s, m)[2] = m
<1>1. /\ Append(s, m) \in Seq(S) /\ Len(Append(s, m)) = Len(s) + 1
      /\ \A i \in 1..Len(s) : Append(s, m)[i] = s[i]
      /\ Append(s, m)[Len(s) + 1] = m
  BY Appended
<1>2. 1 \in 1..Len(s) /\ Len(s) + 1 = 2
  OBVIOUS
<1> QED  BY <1>1, <1>2

\* The invariant holds at first and every step of the request keeps it.
THEOREM InductiveInvariant == Spec => []IInv
<1> USE AIProviderAssumption
<1>1. Init => IInv
  <2> SUFFICES ASSUME Init PROVE IInv
    OBVIOUS
  <2>1. TypeOK
    BY DEF Init, TypeOK, Usage, NoUsage, AIProviderAssumption
  <2>2. Fields /\ Calls /\ Caps /\ Ended
    BY DEF Init, Fields, Calls, Caps, Ended
  <2> QED  BY <2>1, <2>2 DEF IInv
<1>2. IInv /\ [Next]_vars => IInv'
  <2> SUFFICES ASSUME IInv, [Next]_vars PROVE IInv'
    OBVIOUS
  <2> USE DEF IInv
  <2>1. CASE Call
    <3>1. sent' = <<cap>> /\ Len(sent') = 1 /\ sent'[1] = cap
      BY <2>1 DEF Call, Fields, Calls
    <3>2. TypeOK'
      BY <2>1, <3>1 DEF Call, TypeOK, Calls, request
    <3>3. Fields'
      BY <2>1, <3>1 DEF Call, TypeOK, Fields, request
    <3>4. Calls' /\ Caps' /\ Ended'
      BY <2>1, <3>1 DEF Call, Calls, Caps, Ended, request
    <3> QED  BY <3>2, <3>3, <3>4
  <2>2. CASE CallFails
    <3>1. TypeOK' /\ Fields'
      BY <2>2 DEF CallFails, TypeOK, Fields, Failed, request, history
    <3>2. Calls' /\ Caps' /\ Ended'
      BY <2>2 DEF CallFails, Calls, Caps, Ended, request, history
    <3> QED  BY <3>1, <3>2
  <2>3. ASSUME NEW n \in Tokens, NEW u \in Usage, AnswerPlain(n, u) PROVE IInv'
    <3>1. /\ made' \in Seq(Tokens) /\ Len(made') = 1
          /\ reports' \in Seq(Usage) /\ Len(reports') = 1 /\ reports'[1] = u
      <4>1. made = <<>> /\ reports = <<>>
        BY <2>3 DEF AnswerPlain, Fields, Calls
      <4> QED  BY <2>3, <4>1 DEF AnswerPlain
    <3>2. TypeOK'
      BY <2>3, <3>1 DEF AnswerPlain, TypeOK, Calls, request
    <3>3. Fields'
      BY <2>3, <3>1 DEF AnswerPlain, Fields
    <3>4. Calls' /\ Caps' /\ Ended'
      BY <2>3, <3>1 DEF AnswerPlain, Calls, Caps, Ended, request
    <3> QED  BY <3>2, <3>3, <3>4
  <2>4. ASSUME NEW n \in Tokens, NEW u \in Usage, AnswerFollowup(n, u) PROVE IInv'
    <3>1. /\ made' \in Seq(Tokens) /\ Len(made') = 2
          /\ reports' \in Seq(Usage) /\ Len(reports') = 2 /\ reports'[1] = reports[1]
      BY <2>4 DEF AnswerFollowup, Fields, Calls
    <3>2. TypeOK'
      BY <2>4, <3>1 DEF AnswerFollowup, TypeOK, Calls, request
    <3>3. Fields'
      BY <2>4, <3>1 DEF AnswerFollowup, Fields
    <3>4. Calls' /\ Caps' /\ Ended'
      BY <2>4, <3>1 DEF AnswerFollowup, Calls, Caps, Ended, request
    <3> QED  BY <3>2, <3>3, <3>4
  <2>5. ASSUME NEW n \in Tokens, NEW u \in Usage, NEW e \in Evidence, AnswerGrounding(n, u, e)
        PROVE  IInv'
    <3>1. /\ made' \in Seq(Tokens) /\ Len(made') = 1
          /\ reports' \in Seq(Usage) /\ Len(reports') = 1 /\ reports'[1] = u
      <4>1. made = <<>> /\ reports = <<>>
        BY <2>5 DEF AnswerGrounding, Fields, Calls
      <4> QED  BY <2>5, <4>1 DEF AnswerGrounding
    <3>2. CASE pc' = "second"
      <4>1. /\ Grounded(e)
            /\ cap # None => u.completion # None /\ Remaining(cap, u) >= 1
            /\ sent' = Append(sent, Remaining(cap, u))
        BY <2>5, <3>2 DEF AnswerGrounding
      <4>2. Remaining(cap, u) \in {None} \cup 1..MaxCap
        BY <4>1, RemainingTyped DEF TypeOK
      <4>3. /\ sent' \in Seq({None} \cup 1..MaxCap) /\ Len(sent') = 2
            /\ sent'[1] = sent[1] /\ sent'[2] = Remaining(cap, u)
        <5>1. sent \in Seq({None} \cup 1..MaxCap) /\ Len(sent) = 1
          BY <2>5 DEF AnswerGrounding, Fields, Calls
        <5> QED  BY <4>1, <4>2, <5>1, SecondAppended
      <4>4. TypeOK'
        <5>1. \A i \in DOMAIN sent' : sent'[i] \in {None} \cup 1..MaxCap
          <6>1. DOMAIN sent' = 1..Len(sent')
            BY <4>3
          <6> QED  BY <4>3, <6>1, ElementOfSeq
        <5> QED  BY <2>5, <3>1, <3>2, <4>3, <5>1 DEF AnswerGrounding, TypeOK, request
      <4>5. Fields'
        BY <2>5, <3>1, <4>3 DEF Fields
      <4>6. Calls'
        BY <2>5, <3>1, <3>2, <4>3 DEF AnswerGrounding, Calls
      <4>7. Caps' /\ Ended'
        BY <2>5, <3>1, <3>2, <4>1, <4>3 DEF AnswerGrounding, Calls, Caps, Ended, request
      <4> QED  BY <4>4, <4>5, <4>6, <4>7
    <3>3. CASE pc' = "response" /\ UNCHANGED sent
      <4>1. TypeOK'
        BY <2>5, <3>1, <3>3 DEF AnswerGrounding, TypeOK, Calls, Failed, request
      <4>2. Fields'
        BY <2>5, <3>1, <3>3 DEF Fields
      <4>3. Calls' /\ Caps' /\ Ended'
        BY <2>5, <3>1, <3>3 DEF AnswerGrounding, Calls, Caps, Ended, request
      <4> QED  BY <4>1, <4>2, <4>3
    <3> QED  BY <2>5, <3>2, <3>3 DEF AnswerGrounding
  <2>6. ASSUME NEW text \in BOOLEAN, Finish(text) PROVE IInv'
    <3> DEFINE v == SumUsage(usage1, reports[Len(reports)])
    <3>1. \/ pc' = "success" /\ Verified(cap, v) /\ total' = v
          \/ pc' = "response" /\ total' = total
      <4>1. Last(reports) = reports[Len(reports)]
        BY DEF Last
      <4> QED  BY <2>6, <4>1 DEF Finish
    <3>2. v.completion \in {None} \cup 0..(2 * MaxTokens)
      BY <2>6, SumTyped DEF Finish, TypeOK, Fields, Calls
    <3> HIDE DEF v
    <3>3. TypeOK'
      BY <2>6, <3>1, <3>2 DEF Finish, TypeOK, Failed, request, history
    <3>4. Fields' /\ Calls' /\ Caps'
      BY <2>6, <3>1 DEF Finish, Fields, Calls, Caps, request, history
    <3>5. Ended'
      BY <2>6, <3>1 DEF Finish, Ended, v, request, history
    <3> QED  BY <3>3, <3>4, <3>5
  <2>7. CASE UNCHANGED vars
    BY <2>7 DEF TypeOK, Fields, Calls, Caps, Ended, vars, request, history
  <2> QED  BY <2>1, <2>2, <2>3, <2>4, <2>5, <2>6, <2>7 DEF Next
<1> QED  BY <1>1, <1>2, PTL DEF Spec

-----------------------------------------------------------------------------
(* The properties                                                          *)

\* The variables have their types.
THEOREM TypeCorrect == Spec => []TypeOK
<1>1. IInv => TypeOK
  BY DEF IInv
<1> QED  BY <1>1, InductiveInvariant, PTL

\* The first call was sent under the cap, the second under what the first left: an
\* upstream that keeps to both, and reports the first truthfully, keeps to the cap.
THEOREM BudgetAlwaysShared == Spec => []BudgetShared
<1>1. IInv => BudgetShared
  <2> SUFFICES ASSUME IInv, cap # None,
                      \A i \in DOMAIN made : Obeyed(i) /\ (i = 1 => Truthful(i))
               PROVE  Produced <= cap
    BY DEF BudgetShared
  <2>1. cap \in Nat \ {0} /\ made \in Seq(Tokens) /\ Len(made) \in 0..2
    BY AIProviderAssumption DEF IInv, TypeOK, Fields, Calls, None
  <2>2. /\ Len(made) = 0 => Produced = 0
        /\ Len(made) = 1 => Produced = made[1]
        /\ Len(made) = 2 => Produced = made[1] + made[2]
    BY <2>1, ProducedBy, AIProviderAssumption
  <2>3. CASE Len(made) = 0
    BY <2>1, <2>2, <2>3
  <2>4. CASE Len(made) = 1
    <3>1. 1 \in DOMAIN made
      BY <2>1, <2>4
    <3>2. sent[1] = cap
      BY <2>4 DEF IInv, Calls, Caps, Fields
    <3> QED  BY <2>2, <2>4, <3>1, <3>2 DEF Obeyed
  <2>5. CASE Len(made) = 2
    <3>1. 1 \in DOMAIN made /\ 2 \in DOMAIN made /\ made[1] \in Nat /\ made[2] \in Nat
      <4>1. 1 \in DOMAIN made /\ 2 \in DOMAIN made
        BY <2>1, <2>5
      <4>2. made[1] \in Tokens /\ made[2] \in Tokens
        BY <2>1, <4>1, ElementOfSeq
      <4> QED  BY <4>1, <4>2, AIProviderAssumption DEF Tokens
    <3>2. Len(sent) = 2
      BY <2>5 DEF IInv, Calls
    <3>3. sent[2] = cap - reports[1].completion /\ sent[2] >= 1
      BY <3>2 DEF IInv, Caps, Remaining
    <3>4. reports[1].completion = made[1]
      BY <3>1 DEF Truthful
    <3>5. sent[2] # None => made[2] <= sent[2]
      BY <3>1 DEF Obeyed
    <3> QED  BY <2>1, <2>2, <2>5, <3>1, <3>3, <3>4, <3>5 DEF None
  <2> QED  BY <2>1, <2>3, <2>4, <2>5
<1> QED  BY <1>1, InductiveInvariant, PTL

\* The usage verified before a success is the sum of what both calls reported.
THEOREM OverrunAlwaysRefused == Spec => []OverrunRefused
<1>1. IInv => OverrunRefused
  <2> SUFFICES ASSUME IInv, pc = "success", cap # None, \A i \in DOMAIN made : Truthful(i)
               PROVE  Produced <= cap
    BY DEF OverrunRefused
  <2>1. /\ cap \in Nat \ {0} /\ made \in Seq(Tokens) /\ reports \in Seq(Usage)
        /\ Len(made) \in 1..2 /\ Len(reports) = Len(made)
    BY AIProviderAssumption DEF IInv, TypeOK, Fields, Calls, None
  <2>2. /\ Len(made) = 1 => Produced = made[1]
        /\ Len(made) = 2 => Produced = made[1] + made[2]
    BY <2>1, ProducedBy, AIProviderAssumption
  <2>3. ASSUME NEW i \in DOMAIN made
        PROVE  made[i] \in Nat /\ reports[i].completion = made[i] /\ reports[i].reported
    <3>1. made[i] \in Nat /\ reports[i] \in Usage
      <4>1. made[i] \in Tokens /\ reports[i] \in Usage
        BY <2>1, ElementOfSeq
      <4> QED  BY <4>1, AIProviderAssumption DEF Tokens
    <3>2. reports[i].completion = made[i]
      BY DEF Truthful
    <3>3. reports[i].completion # None => reports[i].reported
      BY <3>1 DEF Usage, NoUsage, Report
    <3> QED  BY <3>1, <3>2, <3>3 DEF None
  <2>4. Verified(cap, SumUsage(usage1, reports[Len(reports)]))
    BY DEF IInv, Ended
  <2>5. CASE Len(made) = 1
    <3>1. usage1 = NoUsage
      <4>1. Len(sent) = 1 /\ pc # "response"
        BY <2>5 DEF IInv, Calls
      <4> QED  BY <4>1 DEF IInv, Calls
    <3>2. SumUsage(usage1, reports[Len(reports)]) = reports[1]
      BY <2>1, <2>5, <3>1 DEF SumUsage, NoUsage
    <3>3. 1 \in DOMAIN made
      BY <2>1, <2>5
    <3> QED  BY <2>2, <2>3, <2>4, <2>5, <3>2, <3>3 DEF Verified
  <2>6. CASE Len(made) = 2
    <3>1. usage1 = reports[1]
      BY <2>6 DEF IInv, Calls, Caps
    <3>2. 1 \in DOMAIN made /\ 2 \in DOMAIN made
      BY <2>1, <2>6
    <3>3. /\ made[1] \in Nat /\ reports[1].completion = made[1] /\ reports[1].reported
          /\ made[2] \in Nat /\ reports[2].completion = made[2] /\ reports[2].reported
      BY <2>3, <3>2
    <3>4. SumUsage(usage1, reports[Len(reports)]).completion = made[1] + made[2]
      BY <2>1, <2>6, <3>1, <3>3 DEF SumUsage, Report, None
    <3> QED  BY <2>2, <2>4, <2>6, <3>4 DEF Verified
  <2> QED  BY <2>1, <2>5, <2>6
<1> QED  BY <1>1, InductiveInvariant, PTL

\* The second call of a grounded success was sent on evidence that was checked.
THEOREM GroundedAlwaysOnEvidence == Spec => []GroundedOnEvidence
<1>1. IInv => GroundedOnEvidence
  <2> SUFFICES ASSUME IInv, pc = "success", grounding
               PROVE  /\ Len(made) = 2
                      /\ \A i \in DOMAIN evidence.results :
                            evidence.results[i] \notin {"failure", "garbage", "foreign"}
                      /\ \E i \in DOMAIN evidence.results : evidence.results[i] = "urls"
    BY DEF GroundedOnEvidence
  <2>1. Len(made) = 2 /\ Grounded(evidence)
    BY DEF IInv, Calls, Caps
  <2> QED  BY <2>1 DEF Grounded, Range
<1> QED  BY <1>1, InductiveInvariant, PTL
===============================================================================
