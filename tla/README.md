# Formal model of César Core

César Core is a gateway between applications (first of them GG Oferta) and an
OmniRoute instance that does the actual AI, Web search and Web fetch work.  This
directory holds TLA+ models of the parts of the Core in which order, concurrency and
failure decide whether it is correct, TLC configurations that check them on small
instances, and TLAPS proofs of every safety property and of the refinement the passing
runs check, for all values of the constants.  Both halves of the system are covered: the
Core itself (Python) and the panel its administrators use (React).

Paths below are relative to `src/src/cesar_core/` unless they start with `src/`; those of
the panel are relative to `src/frontend/src/`.

## 1. Inventory of the system

### Components, their state and operations

| Component | Source | State | Operations |
|---|---|---|---|
| Quota gate | `security/quota.py` | one Redis key per namespace, application and capability: a counter with a TTL; Redis's AOF on disk | `consume`: CONFIG GET, INFO, then the Lua script; `QuotaLimiter.check` |
| Control plane registry | `admin/storage.py`, `admin/routes.py` | SQLite: applications, capabilities, quota policies, credentials, audit events | create and update application, create and revoke credential, audit, `bootstrap` at start |
| Administrator's login and sessions | `admin/auth.py`, `admin/storage.py` | a Redis counter per address; SQLite: sessions | login, validate session, touch, logout |
| Public request pipeline | `api/deps.py`, `api/routes/*`, `security/authentication.py`, `applications/registry.py` | none of its own: it reads the registry several times per request and writes `usage_rollups` | POST `/v1/ai/generate`, `/v1/search`, `/v1/fetch` |
| Policies and routing | `ai/policy.py`, `search/policy.py`, `fetch/policy.py` and the three `config.py` | rules, built anew for every request from registry and environment | `resolve` |
| AI provider | `ai/providers/omniroute.py` | locals of one request | one chat completion, or two with Web grounding, under one token budget |
| Search and Fetch providers | `search/providers/omniroute.py`, `fetch/providers/omniroute.py` | none | one call, normalisation of its result |
| OmniRoute client | `omniroute/client.py` | none | HTTP with a timeout, mapping of failures, credential probes |
| Readiness | `health/service.py` | none | `/ready`: a sequence of probes |
| Detailed health | `admin/health.py` | none | four probes in parallel, for the panel |
| Fetch target checks | `fetch/contracts.py` | none | `reject_ssrf_target` |
| Migrations | `admin/storage.py`, `admin/migrations/` | `schema_migrations` | versions 1 and 2 |
| Usage rollups | `admin/storage.py` | hourly counters | record, aggregate, prune |
| Telemetry | `telemetry/` | counters in memory, log lines | increment, render |
| Panel: way in | `App.tsx`, `api.ts` | per browser the session cookie, per tab the CSRF token (memory and sessionStorage), spinner, login form or shell | check the session on load, login, logout |
| Panel: screens | `App.tsx`, `screens/*.tsx`, `components.tsx` | the mounted screen: data shown, error, loading, dialogs, displayed secret, period | load, navigate, refresh, create and edit applications, create and revoke keys, choose a period |

### How they interact

A public request is authenticated against the registry (or the key file of
GG Oferta), authorised against it again, has its limit read from it, spends quota in
Redis, gets policy rules built from yet another read, has its body validated, is
resolved (a last read), calls the provider, and is recorded in `usage_rollups`.  Each
read is a transaction of its own.  Meanwhile an administrator, let in through a
session, changes the registry with handlers that are themselves sequences of
transactions, in FastAPI's thread pool.  The container's healthcheck polls `/ready`
every 30 seconds.  The process may be killed at any point; `bootstrap` runs at start.
The panel calls the administrative API from several tabs that share one cookie; every
call is asynchronous, none is cancelled, and answers come in any order.

### What is hard here, and what makes each part correct

- **Quota**: three round trips with a gap between the durability check and the write;
  answers that get lost; Redis dying and coming back with what its AOF holds; limits
  changed while requests are under way; milliseconds turned into seconds.  Correct:
  the counter is what was charged, no window admits too much, nothing is free or
  charged twice, a window ends.
- **Control plane**: check and write in different transactions, the change and its audit
  in different transactions, restarts over an edited registry.  Correct: every
  capability has its quota, the protected application is never touched, the audit
  trail tells the truth, restarts preserve policies.
- **Sessions**: a counter and its expiry set by two commands, a session row read and
  written by overlapping requests.  Correct: bounded guesses, final logout, both
  expiries, audited logins.
- **Pipeline**: five reads of a registry that changes.  Correct: nothing upstream
  without charge and right, disabling stops what was not sent, usage tells what
  callers were told.
- **AI provider**: a budget shared by two calls to an upstream that is not trusted.
  Correct: never more than the budget, never an overrun passed off as success,
  grounding only on evidence.
- **Readiness**: one verdict from many probes taken at different times.  Correct: no
  false ok, no false alarm, recovery without restart.
- **Panel, way in**: a cookie shared by tabs and a token that is not; pages reloaded and
  closed while calls are under way; a logout that fails halfway.  Correct: the tab that
  logged in can write, the login form means the session is over, nothing spins forever.
- **Panel, screens**: loads and writes answered late, out of order or never, to screens
  that are gone.  Correct: what is shown is what the server has, "nothing there" is
  never said of what was not asked, a new key's secret is seen, loading ends.

`PROJECT.json` lists each of these as a hazard at the line where it bites, with the
properties that would catch it.

## 2. Modules

| Module | Models | Extends or uses |
|---|---|---|
| `QuotaWindow` | abstract promise: a fixed window per key, anchored at its first admission; each request is held to the limit it asks with | |
| `Quota` | the gate over Redis | refines `QuotaWindow` |
| `QuotaProofs` | theorems about `Quota`, among them its refinement of `QuotaWindow` | `Quota`, TLAPS |
| `ControlPlane` | registry, credentials, audit, bootstrap and their handlers | |
| `AdminSession` | login throttle, sessions, logout | |
| `Gateway` | the public pipeline, concurrent with the administrator | composes `QuotaWindow` as its quota gate |
| `AIProvider` | one grounded or plain completion | |
| `Readiness` | `/ready` and the dependencies behind it | |
| `ControlPlaneProofs`, `AdminSessionProofs`, `GatewayProofs`, `AIProviderProofs`, `ReadinessProofs` | theorems about these five | the module each is named after, TLAPS |
| `PanelSession` | session check, login, logout and token in the tabs of one browser | the server is the promise of `AdminSession` |
| `PanelSessionProofs` | theorems about `PanelSession` | `PanelSession`, TLAPS |
| `Panel` | the shell and its six screens over the administrative API | the server's handlers are the ones of `ControlPlane`, one step each |
| `PanelProofs` | theorems about `Panel` | `Panel`, TLAPS |
| `MC*` | values of the constants for TLC | the module each is named after |

### Quota

`pc[r]` is the round trip request `r` is about to make: `config` and `info` are the two
commands of `_durable`, `eval` the script, `reply` its answer on the way back.
`GetQuota` is the read of the limit in `_authorized_context`, which is not repeated; what
it read is `lim[r]`, and that is the limit `QuotaWindow` holds the request to (its `Ask`).
`CONSUME` is the Lua script on one entry `[n, ttl]`; `ttl = 0` is a key in its last
millisecond, which Redis still returns with PTTL 0, and `Corrupt` anything the script
answers with its error.  `StoreFails` is every `RedisError` or `OSError`: it can strike
before a command or after it, when only the answer is lost.

Redis is `mem` and `disk`.  A write reaches the disk for certain only while
`persist /\ aofOk`; otherwise TLC chooses.  `RedisRestart` loads the disk and the
configuration file.  An operator may weaken persistence, allow eviction, repair, or
overwrite a key.  The history variables say what the counter ought to be (`charged`,
`left`) and where the code gives no guarantee: `exposed` are the requests that had
already passed their check when durability was withdrawn, `tainted` the keys that
lost a charge through such a request, were evicted, or overwritten by somebody else.
This is the residual window of the code: the check and the EVAL are not one step.

### ControlPlane

Each store method is one transaction and one action; a handler is the sequence of
them that `admin/routes.py` makes.  `update_application` is read, count (only when it
activates and there is no legacy key), write, read again, then one to four audit
events, each a transaction.  `WriteUpdate` includes the KeyError of a capability
without quota, which undoes the transaction.  `CreateApplication` contains the
try-block as it is: a failing read-back is audited as "failed" although the row is
there.  `StoreFails` ends a handler anywhere with a 500; `Crash` ends all of them;
`Bootstrap` fills in the rows of GG Oferta that are missing.

### AdminSession

`Incr`, `Expire` and `Compare` are `rate_limit_login`; a tick is long against the one
second socket timeout of Redis, so time does not pass between INCR and EXPIRE, and
Redis is assumed to keep the counter's key until it expires.
`VerifyPassword` inserts the session row, `AuditLogin` the event and sends the cookie:
a request can only carry a cookie that was sent.  `Begin`, `Select` and `Touch` are
`require_session` and `validate_session`, with the time taken before the SELECT and
written after it.  Cookie, Host, Origin and CSRF comparison are one Boolean of the
request: whether it holds the session's CSRF token.

### Gateway

One action per dependency, in the order FastAPI solves them, and one per step of the
route handlers; the three routes share them because they differ only in what a policy
refuses (`Refused`) and in the target check of Fetch.  Details kept because they
decide what is charged and recorded: a missing header skips the context dependency
and with it the quota, but not the manager's; an empty header fails only after the
charge, as a 500; the body is validated after all dependencies; `sqlite3.Error` is
caught by nobody; not every exception of httpx is translated.
`Record` is the commit of `record_usage`, `Respond` the answer made after it: a crash may
fall between the two.
An administrator's edit is one atomic commit here (`WriteUpdate` of `ControlPlane`).
`get_application`'s two SELECTs are one read.  The quota gate is `QuotaWindow` with no
void key, and with the limit the request read: that is what `Quota` is shown to implement.

### AIProvider

The upstream may fail either call, ignore its cap, leave out or falsify its usage, and
return any sequence of tool results.  `Remaining`, `SumUsage`, `Verified` and
`Grounded` are the pure helpers of the file; texts, models and URLs are left out, a
tool result is one of five kinds.

### Readiness

`good` is the set of dependencies that work, any of which may change between two
probes.  `Config` is what the settings objects read from the environment, including
half-set combinations.  `missing` and `steady` remember, for the probe under way, which
required dependencies never worked and whether all of them always did.

### PanelSession

`calls` is the network: a call carries the cookie and the token of the moment it is sent,
waits for the server (`sent`, for a logout also `validated`), then for the browser
(`answered`).  `LoadPage` is the start of `api.ts` and the first effect of `App`;
`authenticated` is App's state with the values null, true, false.  `SubmitLogin` and
`LoginAnswer` are the two halves of Login's handler around its await, `ClickLogout` and
`LogoutAnswer` those of "Sair".  A page that is reloaded or closed leaves its calls
behind (`Orphaned`): the server still handles them, no handler runs, and TLC chooses
whether the browser still applies their Set-Cookie.  A session and its CSRF token are
issued together, so one model value stands for both.  `owner` is the tab whose login gave
the browser its cookie: the only tab for which the code makes sure that token and cookie
fit.  One simplification: the browser's Set-Cookie and the handler of the same answer are
one step.  In a browser the cookie changes when the headers arrive and the handler runs a
few tasks later; a call another tab sends in between already carries the new cookie, as it
would right after the step.

### Panel

One screen is mounted at a time; `Mount` is `<Current key={nonce} />`, which both
navigation and "Atualizar" reach, and starts from the initial state of the screen's hooks.
`ApplicationsView` ... `RoutesView` are what the six components render, reduced to what the
properties tell apart: a loading text, an error, rows, buttons, and a text that says
nothing is there.  `LoadAnswer` is then, catch and finally of a load, `Reload` the call of
`load()` after a write, `ApplicationAnswer`, `KeyAnswer` and `RevokeAnswer` what follows the
await of each form, `WriteFailed` its catch (Revoke has none: the rejection goes to the
console).  A row of the registry is the set of settings that are on; `Offered` are those
Edit's form has inputs for.  `due` remembers the keys whose secret the administrator still
has to have in view: from the moment the server creates one for the mounted screen until
its answer is lost, the screen is left, or another key is asked for (a form submitted twice is
the exception stated in section 3).  The two calls of Credentials' load are one.  The dialogs are
not modal in the model, so it allows more than Radix does.

## 3. Runs

| Run | Question | Result |
|---|---|---|
| `quota_safety` | exact counter, bounded window, one charge, Retry-After, refinement | pass, 978 000 states |
| `quota_live` | every request answered, every window ends | pass, 116 000 states |
| `controlplane_safety` | consistent registry, protected application, truthful and complete audit, activation, restarts over edited limits | pass, 3.1 million states |
| `gateway_safety` | charge and right before the upstream, revocation, disabling | pass, 2.4 million states |
| `gateway_answer` | usage matches the answer; every request answered | pass, 300 000 states |
| `provider_budget` | shared budget, overruns, evidence | pass, 35 000 states |
| `provider_hardcap` | is max_tokens proven by reported usage? | violated |
| `session_safety` | guesses, lockout, logout, expiries, audited logins | pass, 1.8 million states |
| `readiness` | no false ok, no false alarm, recovery | pass, 36 000 states |
| `panel_session` | token fits cookie, logout ends the session, no spinner stays | pass, 362 000 states |
| `panel_screens` | shown data current, empty texts true, secrets delivered, loading ends | pass, 873 000 states |
| `panel_fetch` | does an edit keep what its form has no input for? | violated |

`mutants` in `PROJECT.json` names, for every property of a passing run, a plausible
bug in the modelled code that the property catches on the same instance.

`TypeOK` is checked where it says more than the other properties of a run need;
in `Gateway`, `AIProvider` and `AdminSession` it documents the variables.  That a window's
expiry never moves back is part of `ExactCount`: the TTL of a key is exactly what is
left of the window.  That a probe never settles on ok while a dependency is down is
part of `ReadyEarned`.

### What the violated runs show

- `provider_hardcap`: `_sum_usage` falls back to the first call's usage when the second
  reports none, and `_verify_max_tokens` accepts that sum.  ADR 0014 says missing
  usage is never silent success.
- `panel_fetch`: Edit collects `["ai", "search"].filter(...)` and the PUT replaces the whole
  set of capabilities.  Renaming GG Oferta takes its fetch capability away (its row in
  `quota_policies` stays), until the next start of the Core gives the row back.
  `gg-oferta-core.md` says of the administrative API that it takes `fetch` by the same flow
  as `ai` and `search`; of the panel it says so only indirectly.

### Exceptions stated in passing properties

Other places where the code does less than one might expect are visible as explicit
exceptions in properties that hold:

- `ActivationCounted`: a revocation between the count and the write activates an
  application without a credential (ADR 0020: activation requires one).
- `MutationsAudited`: a handler cut short between its change and its audit leaves the
  change without event (ADR 0020: every mutation is audited).
- `SteadyIsReady`, exception `LeftOver`: SearXNG's health is asked although Search is
  disabled when its provider is still named (ADR 0008: what is not configured never
  blocks readiness).
- `ReadyEarned`, exception `Unprobed`: with the key file set nothing probes SQLite, which
  every request reads (ADR 0008: never ok with a mandatory dependency broken).
- `RestartKeepsPolicies` lets a restart add capabilities to GG Oferta: `bootstrap` inserts its
  capability rows at every start, so one an administrator removed is back after a restart.
  ADR 0020 says its INSERT OR IGNORE never overwrites edits; that holds of the rows that are
  there, their limits included, and not of those an edit deleted.
- `RevokedNeverCharged` and `LogoutFinal` speak of requests that arrive after the revocation or
  the logout.  One that had passed its check before is served, as the code does.
- `QuietAddressAdmitted`: only the attempt whose INCR returned 1 sends EXPIRE; if that one
  command fails the counter never expires and the address is refused for good.
- `RecordedAsAnswered`, fault "dropped": a connection that breaks while the answer is read,
  or a 200 whose body is no JSON, goes through every except clause: a 500, nothing
  recorded, the quota spent (ADR 0014: the adapter normalises failures).
- `RecordedAsAnswered`, place "aborted": a crash between the commit of `record_usage` and the
  answer leaves a row for a request nobody answered.
- `SecretDelivered`, a form submitted twice: if Create is pressed again before the first answer
  came, two keys are created and the answer handled second replaces the secret of the
  first, which is then never seen again.
- `TokenKept` speaks of the tab that logged in.  A second tab shows the shell on the strength
  of the cookie, without token, so its writes and its "Sair" are refused; a login in
  another tab, or a reload before the login is answered, does the same to this one.
- `LogoutEndsSession`, exception `twice`: "Sair" pressed again before it was answered; the
  second answer can delete the cookie of a later login and leave that session valid.
- `ShownIsCurrent`, exception `Overtaken`: of two loads under way the older may be answered
  last and stays on display.
- `EmptyTextTrue`: Routes and Usage have no state for loading and say that nothing is there
  until the answer comes.

### Bounds

- `Quota`: two requests and one key, limits up to two, so that a window fills, refuses,
  expires and is reopened, and two requests held to different limits meet; a window
  of three ticks at two ticks per second is the smallest in which rounding
  Retry-After down is wrong.  Requests are symmetric.  Keys do not interact: the script
  touches one, and the proofs cover any number.
- `ControlPlane`: three handlers, so that a third can change what two are racing over;
  three applications (GG Oferta, the protected one, a dynamic one), one capability,
  one credential, limits 0 (no row), 1 and 2, so that an edited limit and the one bootstrap
  is told differ.
- `AdminSession`: two logins against a limit of one; two overlapping requests are
  enough for every race of a SELECT, a touch and a revocation.  Idle 2, absolute 3 and
  a clock up to 4 reach both expiries, a minute of 2 an expiring counter.
- `Gateway`: two requests of one application with a key-file and a dynamic credential,
  two capabilities, a limit of one (safety; a crash only stops requests where they are, so it
  is left to the other run and to the proofs); one request with every form of body, three
  capabilities whose targets are paid, switched off and without key (answer).
- `AIProvider`: caps up to 3, completions up to 4, so that one or two calls fall below,
  meet and exceed the cap; up to two tool results.
- `PanelSession`: two tabs, two sessions and five calls: a login, a second tab, a logout
  pressed twice, and the login that its late answer meets.
- `Panel`: five calls (a load, two writes and the load after each), GG Oferta, the
  protected and a new application, two keys, two periods, one offered setting and one
  that is not, one edit by somebody else.
- `Readiness`: five configurations, two dependencies broken at once, three changes: a
  failure, a recovery and another failure within one probe.

### Fairness

- `Quota`: weak fairness of each request's own steps: every command has a socket timeout
  and then raises, and the handler runs on.  Weak fairness of the clock.  Nothing is
  assumed of Redis, the operator or the administrator.
- `Gateway`: weak fairness of each request's steps, for the same reason: local work, or
  a call with a timeout.
- `Readiness`: weak fairness of the probe's next step: every probe has a timeout, and the
  healthcheck of the image asks again every 30 seconds.
- `PanelSession`, `Panel`: weak fairness of each call: a fetch settles, with an answer or an
  error, and the browser runs the handler.  Nothing is assumed of the administrator.

`CHECK_DEADLOCK FALSE` appears where the bounded set of handlers, logins or calls is used up
and the model rightly stops.

## 4. Proofs

Every invariant and every safety action property of the passing runs is a theorem about
the module's `Spec`, and so is the refinement `Quota => QuotaWindow`.  The theorems hold
for every value of the constants the assumption of the module admits, so they remove the
bounds of section 3.  None of the properties is inductive as it stands.  Each proof module
defines an inductive invariant `IInv`, checked by TLC on the instance of the run before it
was proved, and has the same shape: lemmas about types and operators, one lemma per part
of `IInv` (or per action, where one action disturbs most parts), `InductiveInvariant`, and
a theorem per property.  What follows says for each module what was missing.

### QuotaProofs (any finite set of requests, any keys, limits, window, resolution, faults)

`TypeCorrect`, `CounterExact` (`ExactCount`), `WindowBounded` (`WindowBound`), `NoFreeUpstream`
(`ChargedOnce`), `RetryAfterSound` (`RetryAfterCovers`), `GateImplementsWindow`
(`ImplementsWindow`).

- `Exposure`: who stands before the EVAL while the store is not durable is in `exposed`.
  Without it an undurable write could not be blamed on the race, and `ExactCount`
  would not survive `EvalRuns`.
- `ChargeOfPC`: where a request stands determines whether it was charged; so the request
  that runs the script is not yet a member of any window, and the cardinality grows
  by exactly one.
- `Members`: members of a window were charged, and a request that comes to the script
  read a positive limit; so opening a window respects `WindowBound`.
- `Refusals`: a refusal belongs to an open window and its reply, while it travels, carries
  at least what is left of it; `RetryAfterLemma` (rounding up never falls short) then
  gives `RetryAfterCovers`.

`WindowBound` follows from `ExactCount`: the script admits only if the counter, which
is the cardinality of the window, is below the limit the request read.

The refinement needs the same invariant.  The abstract window shares `key`, `lim`, `charged` and
`left` with the gate.  `GetQuota` maps to `Ask` with the limit read, `EvalRuns` to `Admit` or
`Refuse`, whose guards compare the window of the request's own key with its own limit; a
tick maps to `Pass`, the call upstream to `Serve`, an error or a crash of the
gateway to `Fail`, lost or overwritten keys to `Void`, and every other round trip to a
stutter.  That the counter read by the
script is the cardinality of the abstract window (`ExactCount`) is what makes the
concrete comparison the abstract guard; keys with a lost charge are void in both.  `Members`
says that a request still idle has no limit yet, so each asks once.

### ControlPlaneProofs (any applications, capabilities, credentials, limits, handlers, faults)

`TypeCorrect`, `CapabilitiesAlwaysHaveQuota`, `ProtectedStaysUntouched`, `AuditAlwaysTruthful`,
`MutationsAlwaysAudited`, `ActivationIsCounted`, `RestartsKeepPolicies`; the last two are action
properties.  `CapabilitiesHaveQuota` has no converse: the quota rows of a removed capability stay.

A handler is a sequence of transactions, so the invariant says what it still knows in the
later ones of what it read in the first:

- `Allowed`: past the first read a handler works on an application that is not protected;
  `protected` never changes, so the check need not be repeated in the write.
- `Activating`: an activation on its way has a payload with capabilities and limits.
- `Counted`: at the write there is still a credential, or the revocation of the last one
  has marked the handler (`stripped`).  This is the exception of `ActivationCounted`.
- `Announced`: an event still to be written is as true as one that was, so writing it
  keeps `AuditTruthful`; `Traced`: who changed something still has its event to write,
  has written one, or was cut short.  Together they give `MutationsAudited`.

### AdminSessionProofs (any logins, addresses, requests, sessions, limits and durations)

`TypeCorrect`, `GuessesAlwaysBounded`, `QuietAlwaysAdmitted`, `LogoutAlwaysFinal`,
`LoginsAlwaysAudited`, `SessionsAlwaysBounded` (the action property `SessionBounded`).

- `Numbered`, `Guessing`: the logins one counter counted took different numbers, and only
  numbers within the limit try a password: an injection into `1..Limit` bounds the guesses.
- `Expiring`: a counter with a TTL expires within a minute of the last attempt, and EXPIRE
  follows its INCR within a tick; `Silent`: so what a quiet address finds is gone, or has
  lost its EXPIRE and stays (`Stuck`), the exception of `QuietAddressAdmitted`.
- `Rooted`: a session has its audited login, a request its issued session.
- `Dense`, `Reaches`: `last_seen_at` may be written out of order, so no single timestamp is
  inductive.  What is: from the login to the latest activity there is no gap as long as
  `Idle`, because a request is let in only on an activity within reach of its own time.
- `Late`: a request that began after the logout carries a revoked session, and revocation
  is final.

### GatewayProofs (any requests, applications, credentials, payloads, targets, faults)

`TypeCorrect`, `UpstreamAlwaysGated`, `RevocationFinal` (`RevokedNeverCharged`),
`UsageMatchesAnswers` (`RecordedAsAnswered`), `DisablingAlwaysStops` (`DisablingStops`, an action
property).

The pipeline reads the registry five times and keeps only `pc`, `lim` and `rule`:

- `Gated`: what the quota gate answered follows from where the request stands; only a
  missing header passes without a charge, and never further than validation.
- `Called`: the upstream is called between `upstream` and an outcome, and once.
- `Ruled`: rules that allow something were built after the charge, for an application
  entitled at that moment; so nothing else can be sent upstream.
- `Recording`: what is about to be recorded is what the caller is about to be told, and once
  recorded it is the one row; so whether the answer or a crash comes next, the row is right.
- `Late`, `Stopped`: a request with a revoked credential never leaves authentication; one
  that was cut off by a disabling is not at the upstream, and its application is not
  active.

The quota gate inside is `QuotaWindow`, and `GateImplementsWindow` is what allows that.

### AIProviderProofs (any caps, completions and tool results)

`BudgetAlwaysShared`, `OverrunAlwaysRefused`, `GroundedAlwaysOnEvidence`, and `TypeCorrect`, which no
run lists.

- `Calls`: each place tells how many calls were sent and answered; `Caps`: under which cap
  each was sent, the second with what the first left; `Ended`: a success was verified
  against the sum of the reports.
- `Produced` is a fold, and induction over data is out of reach; since at most two calls are
  made, `SumOf` and `ProducedBy` unfold it for sequences of length up to two, whatever order the fold
  takes.

### ReadinessProofs (any configurations, any number of failures and recoveries)

`ReadyAlwaysEarned` (`ReadyEarned`), `SteadyAlwaysReady` (`SteadyIsReady`).

- `Seen`, `Asked`: by each step of the probe, what was found at work at some moment of it;
  a dependency once found is not missing any more, although it may be down again.
  `ReadyEarned` is their conjunction at the last step.
- `Steady`: while nothing required breaks, no probe so far has failed.

The clients asked are concatenated from three optional ones (`Clients`), as the code appends
them one after the other.

### PanelSessionProofs (any tabs, sessions, number of calls, faults)

`TypeCorrect`, `TokenAlwaysKept` (`TokenKept`), `LogoutEnds` (`LogoutEndsSession`, an action
property).

- `PageCalls`: what a call of a page that is still there says about its tab: a session check
  runs under the spinner, a login under the disabled form, a logout under the shell and with
  the token the tab still holds.  So only a logout's answer replaces the shell by the form,
  and the token it was sent with is the tab's.
- `Alone`: which calls of one page can be under way together.  Handling one answer changes
  what the tab shows; `PageCalls` survives because no other call relies on it, except
  a second logout, which is what `twice` records.
- `Logouts`: a logout the server let in is for the session of its token, and once answered
  that session is no longer live.  It needs that a session is never issued again.
- `TokenFits`: `TokenKept` whatever the tab shows, since a reload passes through the spinner.

### PanelProofs (any applications, settings, keys, periods, number of calls and edits)

`TypeCorrect`, `ShownAlwaysCurrent` (`ShownIsCurrent`), `EmptyTextsTrue` (`EmptyTextTrue`),
`SecretsDelivered` (`SecretDelivered`).

- `Latest(L)`: a screen has a latest load `L`; every other of its loads was sent before; it is
  under way, or it was answered, or an error is shown; and what it brings is `Fresh`: true
  about everything whose last change was acknowledged.  It is so because a write is
  acknowledged only by the handler that also sends the next load, while a change by
  somebody else, or by a call not yet answered, takes its object out of the claim.
  When nothing is under way and no answer was overtaken, `L` is what is shown.
- `Told`: an acknowledged write is over, so no call under way can write in its name.
- `Placed`: the calls of a screen are those it makes, so what a load brings fits the screen.
- `Roomy`: the bound on the calls always leaves room for the load after each write under
  way; without it `MaxCalls` could stop a reload in the middle, and `TypeOK` would fail.
- `Secrets`: the secret of each key in `due` is displayed or brought by an answer under way,
  and while a due one is displayed no other creation is under way that could replace it.
  It is an invariant of its own on top of `IInv`, with one lemma per kind of step.
- `ListAnswered`: without loading text and error, a list has been answered.

The lemmas `CallAdded`, `CallAnswered`, `CallHandled`, `CallFollowed`, `CallsAbandoned`
(and in `PanelSessionProofs` `CallReplaced`, `ServerStep`, `PageGone`, `PageSends`) state what a step does
to the sequence of calls; the step lemmas use them and never look inside the sequence.

### Assumptions

The assumptions are the ones the code gives: positive limits and durations (pydantic's and
SQLite's checks), bounds of the model that are numbers, faults from the lists the modules
name.  Some are there for the proofs.  `Cap # {}` (`ControlPlane`, `Gateway`): the code knows
three capabilities.  `Cred # {}` (`Gateway`): the variables that hold a credential have a value
from the start.  `IsFiniteSet(Request)` (`Quota`): windows have a cardinality.  In `Panel`,
`MaxCalls` is positive because the mounted screen's first load is always sent, and
`Nothing` is no application, key or table, as React's null and empty lists are none.  The
runs evaluate all of them.

### Only model-checked

All liveness (`Answered`, `QuotaComesBack`, `Recovers`, `PageSettles`, `LoadingEnds`): fairness and
ENABLED are outside the prover.  The two violated properties (`CapProven`, `UnofferedKept`) are counterexamples of
TLC.

## 5. What is not modelled

- `snapshot` and `reset` of the quota store, used by tests only.
- Migrations (each script and its version are one transaction), the hourly aggregation
  and pruning of usage, the figures the read-only administrative handlers compute,
  detailed health.
- Which target a request gets by purpose, service class and profile; how results of
  Search and Fetch are normalised; the address classes `reject_ssrf_target` tells
  apart (the model only knows that it accepts or rejects).
- Telemetry: no control flow depends on it.
- Of the panel: theme, mobile menu, wording, the messages inside dialogs (those of Create and
  Edit are not cleared by a later success), the doubled effects of StrictMode in
  development, and changes of the address bar (`App` does not listen to hashchange).
- Developer scripts and the command line.
- That `get_store` publishes its object before it is migrated: traffic starts after the
  lifespan hook has succeeded.

## 6. Plan

1. Routing: `resolve` of the three policies as operators over purpose, service class and
   profile, checked against a declarative definition of the target; used by `Gateway`.
2. Usage rollups: recording concurrent with aggregation and pruning at the hour.
3. Result normalisation of Search and Fetch, and the classes of fetch targets.
4. The messages of the panel's dialogs.
5. Proofs: the invariants items 1 and 2 bring, in the proof modules of the modules that
   use them, and that a server step of `Panel` and `PanelSession` is one the server's own
   module (`ControlPlane`, `AdminSession`) allows, which is so far only stated in words.
