------------------------------ MODULE Readiness ------------------------------
(***************************************************************************)
(* GET /ready (health/service.py, probe_readiness): the container's        *)
(* healthcheck asks it over and over whether the Core can serve the        *)
(* capabilities that are configured.                                       *)
(*                                                                         *)
(* One answer is a sequence of probes - the application credential, the    *)
(* quota store, SearXNG, then for each configured capability the health of *)
(* OmniRoute, that it rejects a wrong key and that it accepts ours - and   *)
(* each dependency may fail or recover between any two of them.  At the    *)
(* end get_readiness looks at the application credential once more.        *)
(***************************************************************************)
EXTENDS Naturals, Sequences, FiniteSets

CONSTANTS Configs,     \* the configurations the environment variables may give
          MaxBroken,   \* how many dependencies are broken at once (bound of the model)
          MaxChanges   \* how often a dependency changes (bound of the model)

Cap == {"ai", "search", "fetch"}

\* What the settings objects read from the environment.  search.provider is
\* what provider_for selects, before the health URL is looked at.
Config == [ai : BOOLEAN, fetch : BOOLEAN,
           search : [enabled : BOOLEAN, provider : {"none", "searxng", "other"},
                     technical : BOOLEAN, url : BOOLEAN],
           keyFile : BOOLEAN,      \* gg_oferta_api_key_file is set
           keys : SUBSET Cap]      \* the OmniRoute key files that are set

ASSUME ReadinessAssumption ==
    Configs \subseteq Config /\ MaxBroken \in Nat /\ MaxChanges \in Nat

\* What /ready depends on; "accepts" includes that our key can be read.
Shared(names) == names \X {"core"}
PerClient(C) == {"rejects wrong key", "accepts our key"} \X C
Dep == Shared({"key file", "pepper", "credential", "sqlite", "redis", "durable", "searxng",
               "omniroute"})
         \cup PerClient(Cap)

VARIABLES
    config,
    good,       \* the dependencies that work
    changes,    \* how often one has changed
    pc, todo,   \* the probe: its next step, and the clients still to be asked
    ready,      \* dependencies_ready
    status, reason,   \* the last answer
    \* history
    missing,    \* required dependencies that did not work at any moment of this probe
    steady      \* every required dependency has worked since this probe began

environment == <<config, good, changes>>
probe == <<pc, todo, ready, status, reason>>
vars == <<environment, probe, missing, steady>>

-----------------------------------------------------------------------------
(* Configuration                                                           *)

HasGeneralWebProvider(s) == s.provider = "other" \/ (s.provider = "searxng" /\ s.url)

\* The capabilities whose config says is_configured.
Configured ==
    {c \in Cap : CASE c = "ai" -> config.ai
                   [] c = "fetch" -> config.fetch
                   [] c = "search" -> /\ config.search.enabled
                                      /\ HasGeneralWebProvider(config.search)
                                            \/ config.search.technical}

\* The order in which probe_readiness asks.
Client(c) == IF c \in Configured THEN <<c>> ELSE <<>>
Clients == Client("ai") \o Client("search") \o Client("fetch")

\* What the Core and the capabilities that are configured cannot do without:
\* the registry is read by every request.
Required ==
    IF Configured = {} THEN Shared({"sqlite"})
    ELSE Shared({"sqlite", "redis", "durable", "omniroute"})
           \cup PerClient(Configured)
           \cup Shared(IF config.keyFile THEN {"key file"} ELSE {"pepper", "credential"})
           \cup Shared(IF "search" \in Configured /\ HasGeneralWebProvider(config.search)
                             /\ config.search.url
                         THEN {"searxng"} ELSE {})

-----------------------------------------------------------------------------
Init ==
    /\ config \in Configs
    /\ good \in {Dep \ B : B \in {{}} \cup {{d} : d \in Dep}}
    /\ changes = 0
    /\ pc = "idle"
    /\ todo = <<>>
    /\ ready = FALSE
    /\ status = "none"
    /\ reason = "none"
    /\ missing = {}
    /\ steady = FALSE

Works(name) == <<name, "core">> \in good

Goto(label) == pc' = label
\* The step leaves everything but its position alone.
Continue(label) ==
    Goto(label) /\ UNCHANGED <<environment, todo, ready, status, reason, missing, steady>>
\* An exception that is caught: get_readiness(dependencies_ready=False).
NotReady ==
    /\ Goto("conclude")
    /\ ready' = FALSE
    /\ UNCHANGED <<environment, todo, status, reason, missing, steady>>
\* The answer is given.
Reply(s, why) ==
    /\ Goto("idle")
    /\ status' = s
    /\ reason' = why
    /\ UNCHANGED <<environment, todo, ready, missing, steady>>

\* Mutant: what the last probe found sticks.
BeginSticky ==
    /\ pc = "idle"
    /\ Goto(IF Configured = {} THEN "conclude" ELSE "credential")
    /\ todo' = Clients
    /\ ready' = (status \in {"none", "ok"})
    /\ status' = "none"
    /\ reason' = "none"
    /\ missing' = Required \ good
    /\ steady' = (Required \subseteq good)
    /\ UNCHANGED environment

\* The configuration is read; without a configured capability nothing is probed.
Begin ==
    /\ pc = "idle"
    /\ Goto(IF Configured = {} THEN "conclude" ELSE "credential")
    /\ todo' = Clients
    /\ ready' = TRUE
    /\ status' = "none"
    /\ reason' = "none"
    /\ missing' = Required \ good
    /\ steady' = (Required \subseteq good)
    /\ UNCHANGED environment

\* The key file, if one is set; otherwise the pepper and a credential that is
\* not revoked.  sqlite3.Error is neither OSError nor ValueError: 500.
CheckCredential ==
    /\ pc = "credential"
    /\ IF config.keyFile
         THEN IF Works("key file") THEN Continue("quota") ELSE NotReady
         ELSE IF ~Works("pepper") THEN NotReady
         ELSE IF ~Works("sqlite") THEN Reply("error", "none")
         ELSE IF Works("credential") THEN Continue("quota") ELSE NotReady

\* probe_quota_storage, which answers by itself; then for_capability, which
\* raises ValueError for a capability without key file.
CheckQuota ==
    /\ pc = "quota"
    /\ IF ~Works("redis") THEN Reply("degraded", "quota_store_unavailable")
       ELSE IF ~Works("durable") THEN Reply("degraded", "quota_store_misconfigured")
       ELSE IF ~(Configured \subseteq config.keys) THEN NotReady
       ELSE Continue("searxng")

\* Mutant: the health URL is asked even if only technical documentation is searched.
ProbeSearxngAlways ==
    /\ pc = "searxng"
    /\ IF config.search.url /\ ~Works("searxng") THEN NotReady ELSE Continue("health")

\* The health URL is asked whenever a general Web provider is named: enabled
\* is not looked at.
ProbeSearxng ==
    /\ pc = "searxng"
    /\ IF HasGeneralWebProvider(config.search) /\ config.search.url /\ ~Works("searxng")
         THEN NotReady
         ELSE Continue("health")

ProbeHealth ==
    /\ pc = "health"
    /\ IF todo = <<>> THEN Continue("conclude")
       ELSE IF ~Works("omniroute") THEN NotReady
       ELSE Continue("rejects wrong key")

NextClient(label) == IF label = "rejects wrong key" THEN "accepts our key" ELSE "health"

\* Mutant: the answer about the last client is the answer about all.
ProbeClientLast(label) ==
    /\ pc = label
    /\ IF ~Works("omniroute") THEN NotReady
       ELSE /\ ready' = (<<label, Head(todo)>> \in good)
            /\ todo' = IF label = "accepts our key" THEN Tail(todo) ELSE todo
            /\ Goto(NextClient(label))
            /\ UNCHANGED <<environment, status, reason, missing, steady>>

\* authentication_enforced = authentication_enforced and await ...: once it is
\* false nothing more is asked of this client, but the next one's health is.
ProbeClient(label) ==
    /\ pc = label
    /\ IF ready /\ ~Works("omniroute") THEN NotReady
       ELSE /\ ready' = (ready /\ <<label, Head(todo)>> \in good)
            /\ todo' = IF label = "accepts our key" THEN Tail(todo) ELSE todo
            /\ Goto(NextClient(label))
            /\ UNCHANGED <<environment, status, reason, missing, steady>>

\* get_readiness: application_authentication is read afresh, from the key file
\* or else from the pepper and the store.
Conclude ==
    LET byFile == config.keyFile /\ Works("key file")
        authenticated == byFile \/ (Works("pepper") /\ Works("credential"))
    IN  /\ pc = "conclude"
        /\ IF ~byFile /\ Works("pepper") /\ ~Works("sqlite")
             THEN Reply("error", "none")
             ELSE Reply(IF Configured = {} \/ (authenticated /\ ready)
                          THEN "ok" ELSE "degraded", "none")

\* A dependency breaks or recovers.
Change(d) ==
    /\ changes < MaxChanges
    /\ d \in good => Cardinality(Dep \ good) < MaxBroken
    /\ good' = IF d \in good THEN good \ {d} ELSE good \cup {d}
    /\ changes' = changes + 1
    /\ missing' = missing \ good'
    /\ steady' = (steady /\ Required \subseteq good')
    /\ UNCHANGED <<config, probe>>

-----------------------------------------------------------------------------
Step ==
    \/ Begin \/ CheckCredential \/ CheckQuota \/ ProbeSearxng \/ ProbeHealth
    \/ ProbeClient("rejects wrong key") \/ ProbeClient("accepts our key")
    \/ Conclude

Next == Step \/ \E d \in Dep : Change(d)

Spec == Init /\ [][Next]_vars

\* Every probe has a timeout, and the container's healthcheck asks again.
FairSpec == Spec /\ WF_vars(Step)

-----------------------------------------------------------------------------
(* Properties                                                              *)

\* What no probe looks at: the registry, when the key file or the absence of
\* capabilities makes the list of credentials unnecessary.
Unprobed == IF config.keyFile \/ Configured = {} THEN Shared({"sqlite"}) ELSE {}

\* Never a false "ok" about what is probed: every dependency of every configured
\* capability worked at some moment of the probe that answered so, however they
\* came and went.
ReadyEarned == pc = "idle" /\ status = "ok" => missing \subseteq Unprobed

Complete == Configured \subseteq config.keys
LeftOver == ~config.search.enabled /\ HasGeneralWebProvider(config.search)

\* Never a false alarm: when everything the configured capabilities need has
\* worked during the whole probe, the answer is ok - unless Search was disabled
\* and its provider left in the environment.
SteadyIsReady == pc = "idle" /\ steady /\ Complete /\ ~LeftOver => status = "ok"

\* docs/adr/0018: recovery needs no restart.  Once the dependencies stay up the
\* healthcheck only hears ok.
Recovers ==
    <>[](Required \subseteq good /\ Complete /\ ~LeftOver)
        => <>[](pc = "idle" => status = "ok")
=============================================================================
