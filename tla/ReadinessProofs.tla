--------------------------- MODULE ReadinessProofs ---------------------------
(***************************************************************************)
(* Proofs about GET /ready, module Readiness, for every configuration the  *)
(* environment may give and however many dependencies break, how often.    *)
(*                                                                         *)
(* A verdict is put together from probes made at different moments.  The   *)
(* inductive invariant says, for each step of the probe, what it has seen  *)
(* work by then: a dependency it has seen is not missing any more (Seen,   *)
(* Asked), and one that never broke cannot have stopped it (Steady).       *)
(***************************************************************************)
EXTENDS Readiness, SequenceTheorems, TLAPS

-----------------------------------------------------------------------------
(* The inductive invariant                                                 *)

Asking == {"rejects wrong key", "accepts our key"}
Probing == {"credential", "quota", "searxng", "health"} \cup Asking

\* The types of the variables, and what the history variables remember.
Typed ==
    /\ config \in Configs
    /\ good \subseteq Dep
    /\ pc \in {"idle", "conclude"} \cup Probing
    /\ todo \in Seq(Configured)
    /\ ready \in BOOLEAN
    /\ steady \in BOOLEAN
    /\ missing \subseteq Required /\ missing \cap good = {}
    /\ steady => Required \subseteq good

\* The dependency worked at some moment of this probe.
Found(name) == <<name, "core">> \notin missing
\* Every probe was made and found in order.
Complied == pc = "conclude" /\ ready /\ Configured # {}
UsesSearxng == HasGeneralWebProvider(config.search) /\ config.search.url

\* Without a capability nothing is probed; otherwise the probes before this one
\* have each found their dependency at work.
Seen ==
    /\ pc \in Probing => Configured # {}
    /\ pc \in Probing \ {"credential"} \/ Complied =>
          IF config.keyFile THEN Found("key file")
          ELSE Found("sqlite") /\ Found("pepper") /\ Found("credential")
    /\ pc \in Probing \ {"credential", "quota"} \/ Complied => Found("redis") /\ Found("durable")
    /\ (pc \in {"health"} \cup Asking \/ Complied) /\ UsesSearxng => Found("searxng")

Left(s) == {s[i] : i \in DOMAIN s}

\* The clients that are not left to be asked were asked, at a time OmniRoute worked.
Asked ==
    /\ pc \in Asking => todo # <<>> /\ Found("omniroute")
    /\ pc = "accepts our key" /\ ready => <<"rejects wrong key", Head(todo)>> \notin missing
    /\ Complied => todo = <<>>
    /\ pc \in Probing \/ Complied =>
          \A c \in Configured \ Left(todo) :
              /\ Found("omniroute")
              /\ ready => \A label \in Asking : <<label, c>> \notin missing

Undisturbed == steady /\ Complete /\ ~LeftOver

\* Nothing stops a probe during which everything works.
Steady == Undisturbed /\ pc # "idle" => ready

IInv == Typed /\ Seen /\ Asked /\ Steady /\ ReadyEarned /\ SteadyIsReady

-----------------------------------------------------------------------------
(* The configuration                                                       *)

\* The configuration does not change, nor what follows from it.
LEMMA Kept ==
    ASSUME config' = config
    PROVE  /\ Configured' = Configured /\ Required' = Required /\ Unprobed' = Unprobed
           /\ UsesSearxng' = UsesSearxng /\ Complete' = Complete /\ LeftOver' = LeftOver
BY DEF Configured, Required, Unprobed, UsesSearxng, Complete, LeftOver

\* What is in one sequence or the other.
LEMMA Joined ==
    ASSUME NEW S, NEW s \in Seq(S), NEW t \in Seq(S)
    PROVE  s \o t \in Seq(S) /\ Left(s \o t) = Left(s) \cup Left(t)
<1>1. /\ s \o t \in Seq(S) /\ Len(s \o t) = Len(s) + Len(t)
      /\ Len(s) \in Nat /\ Len(t) \in Nat
      /\ \A i \in 1..(Len(s) + Len(t)) :
            (s \o t)[i] = IF i <= Len(s) THEN s[i] ELSE t[i - Len(s)]
  BY ConcatProperties
<1>2. ASSUME NEW i \in DOMAIN (s \o t) PROVE (s \o t)[i] \in Left(s) \cup Left(t)
  <2>1. CASE i <= Len(s)
    BY <1>1, <2>1 DEF Left
  <2>2. CASE ~(i <= Len(s))
    <3>1. i - Len(s) \in DOMAIN t /\ (s \o t)[i] = t[i - Len(s)]
      BY <1>1, <2>2
    <3> QED  BY <3>1 DEF Left
  <2> QED  BY <2>1, <2>2
<1>3. ASSUME NEW i \in DOMAIN s PROVE s[i] \in Left(s \o t)
  <2>1. i \in DOMAIN (s \o t) /\ (s \o t)[i] = s[i]
    BY <1>1
  <2> QED  BY <2>1 DEF Left
<1>4. ASSUME NEW i \in DOMAIN t PROVE t[i] \in Left(s \o t)
  <2>1. i + Len(s) \in DOMAIN (s \o t) /\ (s \o t)[i + Len(s)] = t[i]
    BY <1>1
  <2> QED  BY <2>1 DEF Left
<1> QED  BY <1>1, <1>2, <1>3, <1>4 DEF Left

\* The clients are those of the configured capabilities.
LEMMA AllClients == Clients \in Seq(Configured) /\ Left(Clients) = Configured
<1>1. ASSUME NEW c
      PROVE  Client(c) \in Seq(Configured) /\ Left(Client(c)) = Configured \cap {c}
  <2>1. CASE c \in Configured
    BY <2>1 DEF Client, Left
  <2>2. CASE c \notin Configured
    BY <2>2 DEF Client, Left
  <2> QED  BY <2>1, <2>2
<1>2. Configured \subseteq {"ai", "search", "fetch"}
  BY DEF Configured, Cap
<1>3. /\ Client("ai") \o Client("search") \in Seq(Configured)
      /\ Left(Client("ai") \o Client("search")) = Configured \cap {"ai", "search"}
  BY <1>1, Joined
<1>4. /\ Clients \in Seq(Configured)
      /\ Left(Clients) = Configured \cap {"ai", "search", "fetch"}
  <2>1. Client("fetch") \in Seq(Configured) /\ Left(Client("fetch")) = Configured \cap {"fetch"}
    BY <1>1
  <2>2. ASSUME NEW s \in Seq(Configured)
        PROVE  /\ s \o Client("fetch") \in Seq(Configured)
               /\ Left(s \o Client("fetch")) = Left(s) \cup Left(Client("fetch"))
    BY <2>1, Joined
  <2>3. /\ Clients \in Seq(Configured)
        /\ Left(Clients) = Left(Client("ai") \o Client("search")) \cup Left(Client("fetch"))
    BY <1>3, <2>2 DEF Clients
  <2> QED  BY <1>3, <2>1, <2>3
<1> QED  BY <1>2, <1>4

\* A client is the next or one of the others.
LEMMA NextAndRest ==
    ASSUME NEW S, NEW s \in Seq(S), s # <<>>
    PROVE  /\ Head(s) \in S /\ Tail(s) \in Seq(S)
           /\ Left(s) = {Head(s)} \cup Left(Tail(s))
<1>1. /\ Head(s) \in S /\ Tail(s) \in Seq(S) /\ Head(s) = s[1]
      /\ Len(s) \in Nat \ {0} /\ Len(Tail(s)) = Len(s) - 1
      /\ \A i \in 1..Len(Tail(s)) : Tail(s)[i] = s[i + 1]
  OBVIOUS
<1>2. ASSUME NEW i \in DOMAIN s PROVE s[i] \in {Head(s)} \cup Left(Tail(s))
  <2>1. CASE i = 1
    BY <1>1, <2>1
  <2>2. CASE i # 1
    <3>1. i - 1 \in DOMAIN Tail(s) /\ Tail(s)[i - 1] = s[i]
      BY <1>1, <2>2
    <3> QED  BY <3>1 DEF Left
  <2> QED  BY <2>1, <2>2
<1>3. ASSUME NEW i \in DOMAIN Tail(s) PROVE Tail(s)[i] \in Left(s)
  <2>1. i + 1 \in DOMAIN s /\ Tail(s)[i] = s[i + 1]
    BY <1>1
  <2> QED  BY <2>1 DEF Left
<1>4. Head(s) \in Left(s)
  BY <1>1 DEF Left
<1> QED  BY <1>1, <1>2, <1>3, <1>4 DEF Left

\* What is required, dependency by dependency.
LEMMA Needed ==
    /\ <<"sqlite", "core">> \in Required
    /\ Configured # {} =>
          /\ \A name \in {"redis", "durable", "omniroute"} : <<name, "core">> \in Required
          /\ \A label \in Asking, c \in Configured : <<label, c>> \in Required
          /\ config.keyFile => <<"key file", "core">> \in Required
          /\ ~config.keyFile => /\ <<"pepper", "core">> \in Required
                                /\ <<"credential", "core">> \in Required
          /\ UsesSearxng /\ ~LeftOver => <<"searxng", "core">> \in Required
<1>1. UsesSearxng /\ ~LeftOver => "search" \in Configured
  BY DEF UsesSearxng, LeftOver, Configured, Cap
<1> QED  BY <1>1 DEF Required, Shared, PerClient, Asking, UsesSearxng

-----------------------------------------------------------------------------
(* The steps of the probe                                                  *)

\* What a step keeps that only moves the probe.
LEMMA Moving ==
    ASSUME IInv, UNCHANGED <<environment, missing, steady>>,
           todo' \in Seq(Configured), ready' \in BOOLEAN,
           pc' \in {"idle", "conclude"} \cup Probing
    PROVE  Typed' /\ Undisturbed' = Undisturbed
BY Kept DEF IInv, Typed, Undisturbed, environment

\* What works is not missing, and what is required works if nothing disturbed.
LEMMA Working ==
    ASSUME IInv
    PROVE  /\ \A d \in good : d \notin missing
           /\ \A name : Works(name) => Found(name)
           /\ Undisturbed => \A d \in Required : d \in good
BY DEF IInv, Typed, Works, Found, Undisturbed

\* A probe that ends with an exception was disturbed.
LEMMA NotReadyKeeps ==
    ASSUME IInv, NotReady, ~Undisturbed
    PROVE  IInv'
<1>1. Typed' /\ ~Undisturbed'
  <2>1. UNCHANGED <<environment, missing, steady>> /\ todo' = todo
    BY DEF NotReady
  <2>2. pc' \in {"idle", "conclude"} \cup Probing /\ ready' \in BOOLEAN
    BY DEF NotReady, Goto
  <2>3. todo' \in Seq(Configured)
    BY <2>1 DEF IInv, Typed
  <2> QED  BY <2>1, <2>2, <2>3, Moving
<1>2. pc' = "conclude" /\ ready' = FALSE
  BY DEF NotReady, Goto
<1>3. Seen' /\ Asked'
  BY <1>2 DEF Seen, Asked, Complied, Probing, Asking
<1>4. Steady' /\ ReadyEarned' /\ SteadyIsReady'
  BY <1>1, <1>2 DEF Steady, ReadyEarned, SteadyIsReady, Undisturbed
<1> QED  BY <1>1, <1>3, <1>4 DEF IInv

\* An answer is right when it is ok only for what was found and nothing else when
\* nothing disturbed.
LEMMA ReplyKeeps ==
    ASSUME IInv, NEW s, NEW why, Reply(s, why),
           s = "ok" => missing \subseteq Unprobed,
           Undisturbed => s = "ok"
    PROVE  IInv'
<1>1. Typed' /\ Undisturbed' = Undisturbed
  BY Moving DEF Reply, Goto, IInv, Typed
<1>2. pc' = "idle" /\ status' = s /\ missing' = missing /\ Unprobed' = Unprobed
  BY Kept DEF Reply, Goto, environment
<1>3. Seen' /\ Asked'
  BY <1>2 DEF Seen, Asked, Complied, Probing, Asking
<1>4. Steady' /\ ReadyEarned' /\ SteadyIsReady'
  BY <1>1, <1>2 DEF Steady, ReadyEarned, SteadyIsReady, Undisturbed
<1> QED  BY <1>1, <1>3, <1>4 DEF IInv

\* A probe that goes on is in order where it goes to.
LEMMA ContinueKeeps ==
    ASSUME IInv, NEW label \in {"conclude"} \cup Probing, Continue(label), pc # "idle",
           Seen', Asked'
    PROVE  IInv'
<1>1. Typed' /\ Undisturbed' = Undisturbed
  BY Moving DEF Continue, Goto, IInv, Typed
<1>2. pc' = label /\ ready' = ready
  BY DEF Continue, Goto
<1>3. Steady' /\ ReadyEarned' /\ SteadyIsReady'
  BY <1>1, <1>2 DEF IInv, Steady, ReadyEarned, SteadyIsReady, Probing, Asking
<1> QED  BY <1>1, <1>3 DEF IInv

\* A new probe starts with everything to be asked and no verdict.
LEMMA BeginStep ==
    ASSUME IInv, Begin
    PROVE  IInv'
<1>1. /\ config' = config /\ good' = good /\ todo' = Clients /\ ready' = TRUE
      /\ missing' = Required \ good /\ steady' = (Required \subseteq good)
      /\ pc' = IF Configured = {} THEN "conclude" ELSE "credential"
  BY DEF Begin, Goto, environment
<1>2. Configured' = Configured /\ Required' = Required
  BY <1>1, Kept
<1>3. Typed'
  <2>1. steady' \in BOOLEAN /\ (steady' => Required \subseteq good)
    BY <1>1
  <2> QED  BY <1>1, <1>2, <2>1, AllClients DEF IInv, Typed, Probing
<1>4. Seen'
  BY <1>1, <1>2 DEF Seen, Complied, Probing, Asking
<1>5. Asked'
  BY <1>1, <1>2, AllClients DEF Asked, Complied, Probing, Asking
<1>6. Steady' /\ ReadyEarned' /\ SteadyIsReady'
  BY <1>1 DEF Steady, ReadyEarned, SteadyIsReady
<1> QED  BY <1>3, <1>4, <1>5, <1>6 DEF IInv

\* The credential is found where it should be, or the probe is over.
LEMMA CredentialStep ==
    ASSUME IInv, CheckCredential
    PROVE  IInv'
<1>1. pc = "credential" /\ Configured # {}
  BY DEF CheckCredential, IInv, Seen, Probing
<1>2. CASE Continue("quota") /\ (IF config.keyFile THEN Works("key file")
                                 ELSE Works("pepper") /\ Works("sqlite") /\ Works("credential"))
  <2>1. /\ pc' = "quota" /\ config' = config /\ missing' = missing /\ todo' = todo /\ ready' = ready
        /\ Configured' = Configured
    BY <1>2, Kept DEF Continue, Goto, environment
  <2>2. IF config.keyFile THEN Found("key file")
        ELSE Found("sqlite") /\ Found("pepper") /\ Found("credential")
    BY <1>2, Working
  <2>3. Seen'
    BY <1>1, <2>1, <2>2 DEF Seen, Found, Complied, Probing, Asking
  <2>4. Asked'
    BY <1>1, <2>1 DEF IInv, Asked, Found, Complied, Probing, Asking
  <2> QED  BY <1>1, <1>2, <2>3, <2>4, ContinueKeeps DEF Probing
<1>3. CASE NotReady /\ (IF config.keyFile THEN ~Works("key file")
                         ELSE ~Works("pepper") \/ ~Works("credential"))
  <2>1. ~Undisturbed
    BY <1>1, <1>3, Needed, Working DEF Works
  <2> QED  BY <1>3, <2>1, NotReadyKeeps
<1>4. CASE Reply("error", "none") /\ ~Works("sqlite")
  <2>1. ~Undisturbed
    BY <1>4, Needed, Working DEF Works
  <2> QED  BY <1>4, <2>1, ReplyKeeps
<1> QED  BY <1>2, <1>3, <1>4 DEF CheckCredential

\* The quota store answers for itself; a capability without key file is incomplete.
LEMMA QuotaStep ==
    ASSUME IInv, CheckQuota
    PROVE  IInv'
<1>1. pc = "quota" /\ Configured # {}
  BY DEF CheckQuota, IInv, Seen, Probing
<1>2. CASE Continue("searxng") /\ Works("redis") /\ Works("durable")
  <2>1. /\ pc' = "searxng" /\ config' = config /\ missing' = missing /\ todo' = todo
        /\ ready' = ready /\ Configured' = Configured
    BY <1>2, Kept DEF Continue, Goto, environment
  <2>2. Found("redis") /\ Found("durable")
    BY <1>2, Working
  <2>3. Seen'
    BY <1>1, <2>1, <2>2 DEF IInv, Seen, Found, Complied, Probing, Asking
  <2>4. Asked'
    BY <1>1, <2>1 DEF IInv, Asked, Found, Complied, Probing, Asking
  <2> QED  BY <1>1, <1>2, <2>3, <2>4, ContinueKeeps DEF Probing
<1>3. CASE NotReady /\ ~(Configured \subseteq config.keys)
  BY <1>3, NotReadyKeeps DEF Undisturbed, Complete
<1>4. ASSUME NEW why, Reply("degraded", why), ~Works("redis") \/ ~Works("durable") PROVE IInv'
  <2>1. ~Undisturbed
    BY <1>1, <1>4, Needed, Working DEF Works
  <2> QED  BY <1>4, <2>1, ReplyKeeps
<1> QED  BY <1>2, <1>3, <1>4 DEF CheckQuota

\* SearXNG is required when it is asked, unless it was left over.
LEMMA SearxngStep ==
    ASSUME IInv, ProbeSearxng
    PROVE  IInv'
<1>1. pc = "searxng" /\ Configured # {}
  BY DEF ProbeSearxng, IInv, Seen, Probing
<1>2. CASE Continue("health") /\ (UsesSearxng => Works("searxng"))
  <2>1. /\ pc' = "health" /\ config' = config /\ missing' = missing /\ todo' = todo
        /\ ready' = ready /\ Configured' = Configured /\ UsesSearxng' = UsesSearxng
    BY <1>2, Kept DEF Continue, Goto, environment
  <2>2. UsesSearxng => Found("searxng")
    BY <1>2, Working
  <2>3. Seen'
    BY <1>1, <2>1, <2>2 DEF IInv, Seen, Found, Complied, Probing, Asking
  <2>4. Asked'
    BY <1>1, <2>1 DEF IInv, Asked, Found, Complied, Probing, Asking
  <2> QED  BY <1>1, <1>2, <2>3, <2>4, ContinueKeeps DEF Probing
<1>3. CASE NotReady /\ UsesSearxng /\ ~Works("searxng")
  <2>1. ~Undisturbed
    BY <1>1, <1>3, Needed, Working DEF Works, Undisturbed
  <2> QED  BY <1>3, <2>1, NotReadyKeeps
<1> QED  BY <1>2, <1>3 DEF ProbeSearxng, UsesSearxng

\* OmniRoute's health is asked for every client that is left.
LEMMA HealthStep ==
    ASSUME IInv, ProbeHealth
    PROVE  IInv'
<1>1. pc = "health" /\ Configured # {}
  BY DEF ProbeHealth, IInv, Seen, Probing
<1>2. ASSUME NEW label, Continue(label)
      PROVE  /\ pc' = label /\ config' = config /\ missing' = missing /\ todo' = todo
             /\ ready' = ready /\ Configured' = Configured /\ UsesSearxng' = UsesSearxng
  BY <1>2, Kept DEF Continue, Goto, environment
<1>3. CASE Continue("conclude") /\ todo = <<>>
  <2>1. Seen'
    BY <1>1, <1>2, <1>3 DEF IInv, Seen, Found, Complied, Probing, Asking
  <2>2. Asked'
    <3>1. /\ pc' = "conclude" /\ missing' = missing /\ todo' = todo /\ ready' = ready
          /\ Configured' = Configured
      BY <1>2, <1>3
    <3> QED  BY <1>1, <1>3, <3>1 DEF IInv, Asked, Found, Complied, Probing, Asking
  <2> QED  BY <1>1, <1>3, <2>1, <2>2, ContinueKeeps
<1>4. CASE Continue("rejects wrong key") /\ todo # <<>> /\ Works("omniroute")
  <2>1. Found("omniroute")
    BY <1>4, Working
  <2>2. Seen'
    BY <1>1, <1>2, <1>4 DEF IInv, Seen, Found, Complied, Probing, Asking
  <2>3. Asked'
    <3>1. /\ pc' = "rejects wrong key" /\ missing' = missing /\ todo' = todo /\ ready' = ready
          /\ Configured' = Configured
      BY <1>2, <1>4
    <3> QED  BY <1>1, <1>4, <2>1, <3>1 DEF IInv, Asked, Found, Complied, Probing, Asking
  <2> QED  BY <1>1, <1>4, <2>2, <2>3, ContinueKeeps DEF Probing, Asking
<1>5. CASE NotReady /\ ~Works("omniroute")
  <2>1. ~Undisturbed
    BY <1>1, <1>5, Needed, Working DEF Works
  <2> QED  BY <1>5, <2>1, NotReadyKeeps
<1> QED  BY <1>3, <1>4, <1>5 DEF ProbeHealth

\* A client is crossed off after both questions; ready tells whether all went well.
LEMMA ClientStep ==
    ASSUME IInv, NEW label \in Asking, ProbeClient(label)
    PROVE  IInv'
<1>1. pc = label /\ Configured # {} /\ todo # <<>> /\ Found("omniroute") /\ todo \in Seq(Configured)
  BY DEF ProbeClient, IInv, Typed, Seen, Asked, Probing
<1>2. CASE NotReady /\ ~Works("omniroute")
  <2>1. ~Undisturbed
    BY <1>1, <1>2, Needed, Working DEF Works
  <2> QED  BY <1>2, <2>1, NotReadyKeeps
<1>3. CASE ~(ready /\ ~Works("omniroute"))
  <2>1. /\ ready' = (ready /\ <<label, Head(todo)>> \in good)
        /\ todo' = IF label = "accepts our key" THEN Tail(todo) ELSE todo
        /\ pc' = NextClient(label)
        /\ UNCHANGED <<environment, missing, steady>>
    BY <1>3 DEF ProbeClient, Goto
  <2>2. /\ Head(todo) \in Configured /\ Tail(todo) \in Seq(Configured)
        /\ Left(todo) = {Head(todo)} \cup Left(Tail(todo))
    BY <1>1, NextAndRest
  <2>3. /\ config' = config /\ missing' = missing /\ Configured' = Configured
        /\ UsesSearxng' = UsesSearxng
    BY <2>1, Kept DEF environment
  <2>4. Typed' /\ Undisturbed' = Undisturbed
    <3>1. todo' \in Seq(Configured) /\ ready' \in BOOLEAN
      BY <1>1, <2>1, <2>2
    <3>2. pc' \in {"idle", "conclude"} \cup Probing
      BY <2>1 DEF NextClient, Probing, Asking
    <3> QED  BY <2>1, <3>1, <3>2, Moving
  <2>5. ready' => ready /\ <<label, Head(todo)>> \notin missing
    BY <2>1, Working
  <2>6. ASSUME label = "rejects wrong key" PROVE Seen' /\ Asked'
    <3>1. pc' = "accepts our key" /\ todo' = todo
      BY <2>1, <2>6 DEF NextClient
    <3>2. Seen'
      BY <1>1, <2>3, <2>6, <3>1 DEF IInv, Seen, Found, Complied, Probing, Asking
    <3>3. Asked'
      BY <1>1, <2>3, <2>5, <2>6, <3>1 DEF IInv, Asked, Found, Complied, Probing, Asking
    <3> QED  BY <3>2, <3>3
  <2>7. ASSUME label = "accepts our key" PROVE Seen' /\ Asked'
    <3>1. pc' = "health" /\ todo' = Tail(todo)
      BY <2>1, <2>7 DEF NextClient
    <3>2. Seen'
      BY <1>1, <2>3, <2>7, <3>1 DEF IInv, Seen, Found, Complied, Probing, Asking
    <3>3. ASSUME NEW c \in Configured \ Left(Tail(todo)), ready', NEW question \in Asking
          PROVE  <<question, c>> \notin missing
      <4>1. CASE c = Head(todo)
        BY <1>1, <2>5, <2>7, <3>3, <4>1 DEF IInv, Asked, Asking
      <4>2. CASE c # Head(todo)
        BY <1>1, <2>2, <2>5, <2>7, <3>3, <4>2 DEF IInv, Asked, Probing, Asking
      <4> QED  BY <4>1, <4>2
    <3>4. Asked'
      BY <1>1, <2>3, <3>1, <3>3 DEF Asked, Found, Complied, Probing, Asking
    <3> QED  BY <3>2, <3>4
  <2>8. Steady' /\ ReadyEarned' /\ SteadyIsReady'
    <3>1. pc' # "idle"
      BY <2>1 DEF NextClient
    <3>2. Undisturbed => ready'
      BY <1>1, <2>1, <2>2, Needed, Working DEF IInv, Steady, Asking
    <3> QED  BY <2>4, <3>1, <3>2 DEF Steady, ReadyEarned, SteadyIsReady
  <2> QED  BY <2>4, <2>6, <2>7, <2>8 DEF IInv, Asking
<1> QED  BY <1>2, <1>3 DEF ProbeClient

\* The members of a product.
LEMMA Pairs ==
    ASSUME NEW A, NEW B, NEW d \in A \X B
    PROVE  \E a \in A, b \in B : d = <<a, b>>
OBVIOUS

\* The verdict: what is required was found, or everything worked.
LEMMA ConcludeStep ==
    ASSUME IInv, Conclude
    PROVE  IInv'
<1> DEFINE byFile == config.keyFile /\ Works("key file")
           authenticated == byFile \/ (Works("pepper") /\ Works("credential"))
<1>1. pc = "conclude"
  BY DEF Conclude
<1>2. CASE Reply("error", "none") /\ ~Works("sqlite")
  <2>1. ~Undisturbed
    BY <1>2, Needed, Working DEF Works
  <2> QED  BY <1>2, <2>1, ReplyKeeps
<1>3. ASSUME Reply(IF Configured = {} \/ (authenticated /\ ready) THEN "ok" ELSE "degraded", "none")
      PROVE  IInv'
  <2>1. ASSUME Configured = {} PROVE missing \subseteq Unprobed
    BY <2>1 DEF IInv, Typed, Required, Unprobed
  <2>2. ASSUME Configured # {}, ready PROVE missing \subseteq Unprobed
    <3>1. Complied /\ Left(todo) = {}
      BY <1>1, <2>2 DEF IInv, Asked, Complied, Left
    <3>2. \A c \in Configured : /\ Found("omniroute")
                                 /\ \A label \in Asking : <<label, c>> \notin missing
      BY <2>2, <3>1 DEF IInv, Asked
    <3>3. /\ Found("omniroute") /\ Found("redis") /\ Found("durable")
          /\ IF config.keyFile THEN Found("key file")
             ELSE Found("sqlite") /\ Found("pepper") /\ Found("credential")
          /\ UsesSearxng => Found("searxng")
      BY <2>2, <3>1, <3>2 DEF IInv, Seen
    <3>4. ASSUME NEW d \in Required, d \notin Unprobed PROVE d \notin missing
      <4>1. CASE d \in PerClient(Configured)
        <5>1. PICK label \in Asking, c \in Configured : d = <<label, c>>
          <6>1. d \in Asking \X Configured
            BY <4>1 DEF PerClient, Asking
          <6> QED  BY <6>1, Pairs
        <5> QED  BY <3>2, <5>1
      <4>2. CASE d \notin PerClient(Configured)
        <5> DEFINE Always == {"sqlite", "redis", "durable", "omniroute"}
                   Key == IF config.keyFile THEN {"key file"} ELSE {"pepper", "credential"}
                   Search == IF "search" \in Configured /\ UsesSearxng THEN {"searxng"} ELSE {}
        <5>1. d \in Shared(Always) \cup Shared(Key) \cup Shared(Search)
          BY <2>2, <4>2 DEF Required, UsesSearxng
        <5>2. \E name \in Always \cup Key \cup Search : d = <<name, "core">>
          <6> HIDE DEF Always, Key, Search
          <6>1. ASSUME NEW names, d \in Shared(names)
                PROVE  \E name \in names : d = <<name, "core">>
            BY <6>1, Pairs DEF Shared
          <6> QED  BY <5>1, <6>1
        <5>3. config.keyFile => <<"sqlite", "core">> \in Unprobed
          BY DEF Unprobed, Shared
        <5>4. d # <<"sqlite", "core">> \/ ~config.keyFile
          BY <3>4, <5>3
        <5> QED  BY <3>3, <5>2, <5>4 DEF Found
      <4> QED  BY <4>1, <4>2
    <3> QED  BY <3>4 DEF IInv, Typed
  <2>3. Undisturbed => Configured = {} \/ (authenticated /\ ready)
    BY <1>1, Needed, Working DEF Works, IInv, Steady
  <2> HIDE DEF authenticated
  <2> QED  BY <1>3, <2>1, <2>2, <2>3, ReplyKeeps
<1> QED  BY <1>2, <1>3 DEF Conclude

\* A dependency that breaks leaves what was found found; one that recovers is found.
LEMMA ChangeStep ==
    ASSUME IInv, NEW d \in Dep, Change(d)
    PROVE  IInv'
<1>1. /\ UNCHANGED <<config, pc, todo, ready, status, reason>>
      /\ good' \subseteq Dep /\ missing' = missing \ good'
      /\ steady' = (steady /\ Required \subseteq good')
  BY DEF Change, probe, IInv, Typed
<1>2. /\ Configured' = Configured /\ Required' = Required /\ Unprobed' = Unprobed
      /\ UsesSearxng' = UsesSearxng /\ Complete' = Complete /\ LeftOver' = LeftOver
  BY <1>1, Kept
<1>3. missing' \subseteq missing /\ (Undisturbed' => Undisturbed)
  BY <1>1, <1>2 DEF Undisturbed
<1>4. Typed'
  <2>1. steady' \in BOOLEAN /\ (steady' => Required \subseteq good')
    BY <1>1
  <2> QED  BY <1>1, <1>2, <2>1 DEF IInv, Typed
<1>5. Seen'
  BY <1>1, <1>2, <1>3 DEF IInv, Seen, Found, Complied
<1>6. Asked'
  BY <1>1, <1>2, <1>3 DEF IInv, Asked, Found, Complied
<1>7. Steady' /\ ReadyEarned' /\ SteadyIsReady'
  BY <1>1, <1>2, <1>3 DEF IInv, Steady, ReadyEarned, SteadyIsReady, Undisturbed
<1> QED  BY <1>4, <1>5, <1>6, <1>7 DEF IInv

-----------------------------------------------------------------------------
(* The theorems                                                            *)

\* The invariant holds at first, when nothing was asked yet, and every step of a
\* probe and every change of a dependency keeps it.
THEOREM InductiveInvariant == Spec => []IInv
<1>1. Init => IInv
  <2> SUFFICES ASSUME Init PROVE IInv
    OBVIOUS
  <2>1. Typed
    <3>1. good \subseteq Dep /\ todo \in Seq(Configured)
      BY DEF Init
    <3> QED  BY <3>1 DEF Init, Typed
  <2>2. Seen /\ Asked /\ Steady /\ ReadyEarned /\ SteadyIsReady
    BY DEF Init, Seen, Asked, Steady, ReadyEarned, SteadyIsReady, Complied, Probing, Asking
  <2> QED  BY <2>1, <2>2 DEF IInv
<1>2. IInv /\ [Next]_vars => IInv'
  <2> SUFFICES ASSUME IInv, [Next]_vars PROVE IInv'
    OBVIOUS
  <2>1. CASE Step
    BY <2>1, BeginStep, CredentialStep, QuotaStep, SearxngStep, HealthStep, ClientStep,
       ConcludeStep DEF Step, Asking
  <2>2. ASSUME NEW d \in Dep, Change(d) PROVE IInv'
    BY <2>2, ChangeStep
  <2>3. CASE UNCHANGED vars
    <3>1. /\ UNCHANGED <<config, good, pc, todo, ready, status, missing, steady>>
      BY <2>3 DEF vars, environment, probe
    <3>2. /\ Configured' = Configured /\ Required' = Required /\ Unprobed' = Unprobed
          /\ UsesSearxng' = UsesSearxng /\ Complete' = Complete /\ LeftOver' = LeftOver
      BY <3>1, Kept
    <3>3. Typed' /\ Seen' /\ Asked'
      BY <3>1, <3>2 DEF IInv, Typed, Seen, Asked, Found, Complied
    <3>4. Steady' /\ ReadyEarned' /\ SteadyIsReady'
      BY <3>1, <3>2 DEF IInv, Steady, ReadyEarned, SteadyIsReady, Undisturbed
    <3> QED  BY <3>3, <3>4 DEF IInv
  <2> QED  BY <2>1, <2>2, <2>3 DEF Next
<1> QED  BY <1>1, <1>2, PTL DEF Spec

\* No false ok: ok is answered by a probe that found everything it looks at.
THEOREM ReadyAlwaysEarned == Spec => []ReadyEarned
<1>1. IInv => ReadyEarned
  BY DEF IInv
<1> QED  BY <1>1, InductiveInvariant, PTL

\* No false alarm: what always worked stops no probe.
THEOREM SteadyAlwaysReady == Spec => []SteadyIsReady
<1>1. IInv => SteadyIsReady
  BY DEF IInv
<1> QED  BY <1>1, InductiveInvariant, PTL
===============================================================================
