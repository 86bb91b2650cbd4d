---------------------------- MODULE PanelSession ----------------------------
(***************************************************************************)
(* The panel's way in, seen from the browser: the session check when a     *)
(* page loads, the login form, the button "Sair" (frontend/src/App.tsx)    *)
(* and the CSRF token every write carries (frontend/src/api.ts), in        *)
(* several tabs of one browser.                                            *)
(*                                                                         *)
(* The tabs share the session cookie, which answers set and delete when    *)
(* they arrive; each tab has its own sessionStorage and its own copy of    *)
(* the token.  A call carries the cookie and the token of the moment it    *)
(* is sent, the server handles it later, and its answer arrives later      *)
(* still: in any order, to a page that may have been reloaded or closed.   *)
(*                                                                         *)
(* The server is the promise of module AdminSession: a session is valid    *)
(* until it expires or is revoked, and a write needs its CSRF token.       *)
(* Session and token are issued together, so one value stands for both.    *)
(***************************************************************************)
EXTENDS Naturals, Sequences

CONSTANTS Tab,       \* tabs of the browser
          Session,   \* sessions, each with the CSRF token issued with it
          Nothing,   \* no cookie, no token, no session
          MaxCalls,  \* calls of all tabs together (bound of the model)
          Faults     \* the kinds of fault that may happen

ASSUME PanelSessionAssumption ==
    /\ Nothing \notin Session \cup Tab
    /\ MaxCalls \in Nat
    /\ Faults \subseteq {"network", "store"}

VARIABLES
    \* the server
    issued,         \* sessions ever created
    live,           \* sessions validate_session accepts
    \* the browser
    cookie,         \* the session cookie
    \* each tab
    authenticated,  \* App's state: "null", "true", "false"; "closed" without a page
    csrf,           \* the module variable of api.ts
    stored,         \* the copy in sessionStorage
    busy,           \* Login's state
    \* the network
    calls,          \* every call made, in the order they were sent
    \* history
    owner,          \* the tab whose login gave the browser its cookie
    twice           \* tabs in which "Sair" was pressed again before it was answered

server == <<issued, live>>
tabs == <<authenticated, csrf, stored, busy>>
history == <<owner, twice>>
vars == <<server, cookie, tabs, calls, history>>

-----------------------------------------------------------------------------
(* Calls                                                                   *)

Call == [tab : Tab, kind : {"session", "login", "logout"},
         page : BOOLEAN,                  \* the page that sent it is still there
         cookie : Session \cup {Nothing}, \* sent with it
         csrf : Session \cup {Nothing},   \* X-CSRF-Token
         stage : {"sent", "validated", "answered"},
         ok : BOOLEAN,                    \* response.ok
         session : Session \cup {Nothing}] \* what a login's answer brings

\* A call that is over is forgotten.
Over == [stage |-> "over"]

Pending == {i \in DOMAIN calls : calls[i] # Over}
Of(t) == {i \in Pending : calls[i].tab = t /\ calls[i].page}

\* api(): the browser adds the cookie, the token goes with every method but GET.
Request(t, kind, token) ==
    [tab |-> t, kind |-> kind, page |-> TRUE, cookie |-> cookie, csrf |-> token,
     stage |-> "sent", ok |-> FALSE, session |-> Nothing]

Send(t, kind, token) ==
    /\ Len(calls) < MaxCalls
    /\ calls' = Append(calls, Request(t, kind, token))

\* The page of t goes away; the calls it made are still under way.
Orphaned(t) == [i \in DOMAIN calls |-> IF i \in Of(t) THEN [calls[i] EXCEPT !.page = FALSE]
                                                      ELSE calls[i]]

Init ==
    /\ issued = {}
    /\ live = {}
    /\ cookie = Nothing
    /\ authenticated = [t \in Tab |-> "closed"]
    /\ csrf = [t \in Tab |-> Nothing]
    /\ stored = [t \in Tab |-> Nothing]
    /\ busy = [t \in Tab |-> FALSE]
    /\ calls = <<>>
    /\ owner = Nothing
    /\ twice = {}

-----------------------------------------------------------------------------
(* What the administrator does                                             *)

\* A page is loaded, in a new tab (whose sessionStorage is empty) or again in
\* an old one: api.ts reads the token, App mounts and asks for the session.
LoadPage(t) ==
    /\ Len(calls) < MaxCalls
    /\ authenticated' = [authenticated EXCEPT ![t] = "null"]
    /\ csrf' = [csrf EXCEPT ![t] = stored[t]]
    /\ busy' = [busy EXCEPT ![t] = FALSE]
    /\ calls' = Append(Orphaned(t), Request(t, "session", Nothing))
    /\ twice' = twice \ {t}
    /\ UNCHANGED <<server, cookie, stored, owner>>

\* A closed tab takes its sessionStorage with it, the cookie stays.
CloseTab(t) ==
    /\ authenticated[t] # "closed"
    /\ authenticated' = [authenticated EXCEPT ![t] = "closed"]
    /\ csrf' = [csrf EXCEPT ![t] = Nothing]
    /\ stored' = [stored EXCEPT ![t] = Nothing]
    /\ busy' = [busy EXCEPT ![t] = FALSE]
    /\ calls' = Orphaned(t)
    /\ owner' = IF owner = t THEN Nothing ELSE owner
    /\ twice' = twice \ {t}
    /\ UNCHANGED <<server, cookie>>

\* Login's form is submitted; its button is disabled while busy.
SubmitLogin(t) ==
    /\ authenticated[t] = "false"
    /\ ~busy[t]
    /\ busy' = [busy EXCEPT ![t] = TRUE]
    /\ Send(t, "login", csrf[t])
    /\ UNCHANGED <<server, cookie, authenticated, csrf, stored, history>>

\* Mutant: the login form is shown without waiting for the answer.
ClickLogoutHasty(t) ==
    /\ authenticated[t] = "true"
    /\ Send(t, "logout", csrf[t])
    /\ authenticated' = [authenticated EXCEPT ![t] = "false"]
    /\ stored' = [stored EXCEPT ![t] = Nothing]
    /\ UNCHANGED <<server, cookie, csrf, busy, history>>

\* "Sair" is pressed: nothing disables it while an earlier call is under way.
ClickLogout(t) ==
    /\ authenticated[t] = "true"
    /\ Send(t, "logout", csrf[t])
    /\ twice' = IF \E i \in Of(t) : calls[i].kind = "logout" THEN twice \cup {t} ELSE twice
    /\ UNCHANGED <<server, cookie, tabs, owner>>

-----------------------------------------------------------------------------
(* The server                                                              *)

Answered(i, ok, s) ==
    [calls EXCEPT ![i] = [@ EXCEPT !.stage = "answered", !.ok = ok, !.session = s]]

\* GET /session: require_session.
ServeSession(i) ==
    /\ calls[i].kind = "session" /\ calls[i].stage = "sent"
    /\ calls' = Answered(i, calls[i].cookie \in live, Nothing)
    /\ UNCHANGED <<server, cookie, tabs, history>>

\* POST /login with the right password: a new session, Set-Cookie and its token.
\* When the audit event cannot be written the session exists and the answer is 500.
ServeLogin(i) ==
    /\ calls[i].kind = "login" /\ calls[i].stage = "sent"
    /\ \E s \in Session \ issued :
          /\ issued' = issued \cup {s}
          /\ live' = live \cup {s}
          /\ \/ calls' = Answered(i, TRUE, s)
             \/ "store" \in Faults /\ calls' = Answered(i, FALSE, Nothing)
    /\ UNCHANGED <<cookie, tabs, history>>

\* POST /logout: require_session with the token ...
ValidateLogout(i) ==
    /\ calls[i].kind = "logout" /\ calls[i].stage = "sent"
    /\ calls' = IF calls[i].cookie \in live /\ calls[i].csrf = calls[i].cookie
                  THEN [calls EXCEPT ![i] = [@ EXCEPT !.stage = "validated"]]
                  ELSE Answered(i, FALSE, Nothing)
    /\ UNCHANGED <<server, cookie, tabs, history>>

\* ... then the session is revoked and the answer deletes the cookie, or is 500
\* when the audit event cannot be written.
RevokeSession(i) ==
    /\ calls[i].kind = "logout" /\ calls[i].stage = "validated"
    /\ live' = live \ {calls[i].cookie}
    /\ \/ calls' = Answered(i, TRUE, Nothing)
       \/ "store" \in Faults /\ calls' = Answered(i, FALSE, Nothing)
    /\ UNCHANGED <<issued, cookie, tabs, history>>

\* The call is refused (wrong password, 429, 503) or never gets there.
Refuse(i) ==
    /\ calls[i].stage = "sent"
    /\ calls[i].kind = "login" \/ "network" \in Faults
    /\ calls' = Answered(i, FALSE, Nothing)
    /\ UNCHANGED <<server, cookie, tabs, history>>

\* The answer gets lost on its way back.
LoseAnswer(i) ==
    /\ "network" \in Faults
    /\ calls[i].stage = "answered" /\ calls[i].ok
    /\ calls' = Answered(i, FALSE, Nothing)
    /\ UNCHANGED <<server, cookie, tabs, history>>

\* Idle or absolute expiry.
Expire(s) ==
    /\ s \in live
    /\ live' = live \ {s}
    /\ UNCHANGED <<issued, cookie, tabs, calls, history>>

-----------------------------------------------------------------------------
(* Answers                                                                 *)

Ready(i, kind) == calls[i].kind = kind /\ calls[i].stage = "answered" /\ calls[i].page
Forget(i) == [calls EXCEPT ![i] = Over]

\* Mutants: the answer's body is kept as the state; a failed check is not caught.
SessionAnswerRaw(i) ==
    /\ Ready(i, "session")
    /\ authenticated' = [authenticated EXCEPT ![calls[i].tab] = IF calls[i].ok THEN "body" ELSE "false"]
    /\ calls' = Forget(i)
    /\ UNCHANGED <<server, cookie, csrf, stored, busy, history>>

SessionAnswerUncaught(i) ==
    /\ Ready(i, "session")
    /\ authenticated' = [authenticated EXCEPT ![calls[i].tab] = IF calls[i].ok THEN "true" ELSE @]
    /\ calls' = Forget(i)
    /\ UNCHANGED <<server, cookie, csrf, stored, busy, history>>

\* The effect of App: .then and .catch of the check.
SessionAnswer(i) ==
    /\ Ready(i, "session")
    /\ authenticated' = [authenticated EXCEPT ![calls[i].tab] =
                            IF calls[i].ok THEN "true" ELSE "false"]
    /\ calls' = Forget(i)
    /\ UNCHANGED <<server, cookie, csrf, stored, busy, history>>

\* setCsrf: the token of tab t, in the module and in sessionStorage.
setCsrf(t, s) ==
    /\ csrf' = [csrf EXCEPT ![t] = s]
    /\ stored' = [stored EXCEPT ![t] = s]

\* Mutant: setCsrf keeps the token in the module only.
LoginAnswerUnstored(i) ==
    LET t == calls[i].tab
        s == calls[i].session
    IN  /\ Ready(i, "login")
        /\ calls' = Forget(i)
        /\ busy' = [busy EXCEPT ![t] = FALSE]
        /\ IF calls[i].ok
             THEN /\ cookie' = s /\ owner' = t
                  /\ csrf' = [csrf EXCEPT ![t] = s]
                  /\ authenticated' = [authenticated EXCEPT ![t] = "true"]
             ELSE UNCHANGED <<cookie, owner, csrf, authenticated>>
        /\ UNCHANGED <<server, stored, twice>>

\* Set-Cookie, then Login's handler: setCsrf, onLogin, finally setBusy(false).
LoginAnswer(i) ==
    LET t == calls[i].tab
        s == calls[i].session
    IN  /\ Ready(i, "login")
        /\ calls' = Forget(i)
        /\ busy' = [busy EXCEPT ![t] = FALSE]
        /\ IF calls[i].ok
             THEN /\ cookie' = s /\ owner' = t
                  /\ setCsrf(t, s)
                  /\ authenticated' = [authenticated EXCEPT ![t] = "true"]
             ELSE UNCHANGED <<cookie, owner, csrf, stored, authenticated>>
        /\ UNCHANGED <<server, twice>>

\* The cookie is deleted, then sessionStorage.clear() and setAuthenticated(false);
\* a failure is left to the console.
LogoutAnswer(i) ==
    LET t == calls[i].tab
    IN  /\ Ready(i, "logout")
        /\ calls' = Forget(i)
        /\ IF calls[i].ok
             THEN /\ cookie' = Nothing /\ owner' = Nothing
                  /\ stored' = [stored EXCEPT ![t] = Nothing]
                  /\ authenticated' = [authenticated EXCEPT ![t] = "false"]
             ELSE UNCHANGED <<cookie, owner, stored, authenticated>>
        /\ UNCHANGED <<server, csrf, busy, twice>>

\* The answer to a page that is gone: nobody handles it, and whether the browser
\* still applies its Set-Cookie depends on how far it had got.
OrphanAnswer(i) ==
    /\ calls[i].stage = "answered" /\ ~calls[i].page
    /\ calls' = Forget(i)
    /\ \/ UNCHANGED <<cookie, owner>>
       \/ /\ calls[i].ok /\ calls[i].kind # "session"
          /\ cookie' = calls[i].session
          /\ owner' = Nothing
    /\ UNCHANGED <<server, tabs, twice>>

-----------------------------------------------------------------------------
Serve(i) == ServeSession(i) \/ ServeLogin(i) \/ ValidateLogout(i) \/ RevokeSession(i) \/ Refuse(i)
Handle(i) == SessionAnswer(i) \/ LoginAnswer(i) \/ LogoutAnswer(i) \/ OrphanAnswer(i)

Next ==
    \/ \E t \in Tab : LoadPage(t) \/ CloseTab(t) \/ SubmitLogin(t) \/ ClickLogout(t)
    \/ \E i \in Pending : Serve(i) \/ Handle(i) \/ LoseAnswer(i)
    \/ \E s \in Session : Expire(s)

Spec == Init /\ [][Next]_vars

\* Every call is settled: the server answers or the connection breaks, and the
\* browser runs the handler.
Fairness ==
    \A i \in 1..MaxCalls : WF_vars(i \in Pending /\ (Serve(i) \/ Handle(i)))

FairSpec == Spec /\ Fairness

-----------------------------------------------------------------------------
(* Properties                                                              *)

TypeOK ==
    /\ issued \in SUBSET Session
    /\ live \in SUBSET issued
    /\ cookie \in Session \cup {Nothing}
    /\ authenticated \in [Tab -> {"null", "true", "false", "closed"}]
    /\ csrf \in [Tab -> Session \cup {Nothing}]
    /\ stored \in [Tab -> Session \cup {Nothing}]
    /\ busy \in [Tab -> BOOLEAN]
    /\ calls \in Seq(Call \cup {Over}) /\ Len(calls) <= MaxCalls
    /\ owner \in Tab \cup {Nothing}
    /\ twice \in SUBSET Tab

\* In the tab that logged the browser in, the shell can always write: its CSRF
\* token is the one of the cookie, in memory and in sessionStorage, across
\* reloads, failed logouts, and calls of this and other tabs in any order.  Not
\* so in the tabs that are not the owner: a second tab shows the shell on the
\* strength of the cookie alone, a reload during the login loses the token, a
\* login elsewhere replaces the cookie.
TokenKept ==
    \A t \in Tab : owner = t /\ authenticated[t] = "true" => csrf[t] = cookie /\ stored[t] = cookie

\* When the panel puts the login form in the place of the shell, the browser holds
\* no usable session any more, and the session this tab held the token of is
\* revoked - unless "Sair" was pressed twice, when the second answer may end a
\* later login in the browser and leave its session valid on the server.
LogoutEndsSession ==
    [][\A t \in Tab : authenticated[t] = "true" /\ authenticated'[t] = "false" =>
            /\ cookie' \notin live'
            /\ csrf'[t] \in live' => t \in twice]_vars

\* A page never keeps its spinner and the login button never stays disabled.
PageSettles ==
    \A t \in Tab : /\ authenticated[t] = "null" ~> authenticated[t] # "null"
                   /\ busy[t] ~> ~busy[t]
=============================================================================
