-------------------------------- MODULE Panel --------------------------------
(***************************************************************************)
(* The six screens of the Control Plane panel (frontend/src/screens) and   *)
(* the shell that mounts one of them at a time (frontend/src/App.tsx),     *)
(* over the administrative API.                                            *)
(*                                                                         *)
(* Every call is asynchronous: it is sent, handled by the server, and      *)
(* answered later, in any order.  Nothing is cancelled.  The answer to a   *)
(* screen that was left, or mounted again by "Atualizar", changes nothing  *)
(* in the panel, but what the server did stays done.  A call can fail for  *)
(* many reasons (an expired session, a refusal, a broken connection), and  *)
(* a write can fail for the panel although the server committed it.        *)
(*                                                                         *)
(* A row of the registry is the set of its settings that are on: the state *)
(* and the capabilities with their quotas.  What a handler of the server   *)
(* does is one step here; module ControlPlane has the steps inside it.     *)
(***************************************************************************)
EXTENDS Naturals, Sequences, FiniteSets

CONSTANTS App,           \* application ids
          Bootstrapped,  \* the applications that exist from the start
          Protected,     \* the ones with protected = true
          Setting,       \* what can be on in an application
          Offered,       \* the settings Edit's form has an input for
          Key,           \* ids of API credentials
          Period,        \* the periods of Usage's selector
          Default,       \* the one selected first
          Nothing,       \* no data, no secret, no dialog
          MaxCalls,      \* calls of the panel (bound of the model)
          MaxEdits       \* changes made by somebody else (bound of the model)

Lists == {"applications", "credentials"}
Screen == Lists \cup {"overview", "usage", "routes", "health"}
Missing == {"no such application"}
Row == (SUBSET Setting) \cup {Missing}
State == {"none", "live", "revoked"}

ASSUME PanelAssumption ==
    /\ Protected \subseteq Bootstrapped /\ Bootstrapped \subseteq App
    /\ Bootstrapped # {}
    /\ Offered \subseteq Setting
    /\ Default \in Period
    /\ Nothing \notin App \cup Key \cup [App -> Row] \cup [Key -> State]
    /\ MaxCalls \in Nat \ {0} /\ MaxEdits \in Nat

VARIABLES
    \* the server
    registry,   \* registry[a]: the row of an application
    keys,       \* keys[k]: a credential's state
    edits,      \* changes made by somebody else so far
    \* the shell and the screen it has mounted
    screen,
    shown,      \* the data of the last successful load
    error,      \* pageError or error is set
    loading,
    open,       \* the dialog of a new application or key is open
    editing,    \* the application in Edit's dialog
    secret,     \* the key whose secret is on display
    days,       \* Usage's period
    \* the network
    calls,      \* every call made, in the order they were sent
    \* history
    by,         \* the load whose answer is shown, 0 for none
    newest,     \* the latest load that was answered with data
    writer,     \* writer[x]: the call that last changed x, 0 for somebody else
    acked,      \* writes the panel was told of
    due         \* keys whose secret the administrator still has to have in view

server == <<registry, keys, edits>>
dialogs == <<open, editing>>
ui == <<screen, shown, error, loading, dialogs, secret, days>>
history == <<by, newest, writer, acked, due>>
vars == <<server, ui, calls, history>>

-----------------------------------------------------------------------------
(* Calls                                                                   *)

Writes == {"create app", "save app", "create key", "revoke key"}

\* A call that is over is forgotten.
Over == [stage |-> "over"]
Pending == {i \in DOMAIN calls : calls[i] # Over}
\* Calls of the screen that is mounted.
Mine == {i \in Pending : calls[i].mounted}
Settled == Mine = {}

Request(kind, target, value) ==
    [kind |-> kind, target |-> target, value |-> value, mounted |-> TRUE, stage |-> "sent",
     ok |-> FALSE, answer |-> Nothing]

\* Room for n more calls and for the load that follows each write under way.
Room(n) == Len(calls) + Cardinality({i \in Mine : calls[i].kind \in Writes}) + n <= MaxCalls

Submit(kind, target, value) ==
    /\ Room(2)
    /\ calls' = Append(calls, Request(kind, target, value))

\* A screen's request for its data; target is the screen, value Usage's period.
Load(s, d) == Request("load", s, d)

\* What remains of the calls when their screen is unmounted.
Abandoned ==
    [i \in DOMAIN calls |-> CASE i \notin Mine -> calls[i]
                              [] i \in Mine /\ calls[i].kind = "load" -> Over
                              [] OTHER -> [calls[i] EXCEPT !.mounted = FALSE]]

-----------------------------------------------------------------------------
(* What the screens display                                                *)

\* The rows of the two tables; before any answer, and when there is none, no rows.
AppRows == IF shown = Nothing THEN {} ELSE {a \in App : shown[a] # Missing}
KeyRows == IF shown = Nothing THEN {} ELSE {k \in Key : shown[k] # "none"}

\* The loading row, the row that says there is nothing, the error and the rows
\* of Applications, whose buttons stay while it loads.
ApplicationsView ==
    [loading |-> loading, error |-> error, rows |-> AppRows,
     empty |-> ~loading /\ ~error /\ AppRows = {}]

\* The same of Credentials; only keys shown as active have a button to revoke them
\* (the key file of GG Oferta, listed as read_only, never has one).
CredentialsView ==
    [loading |-> loading, error |-> error, rows |-> KeyRows, secret |-> secret,
     revocable |-> {k \in KeyRows : shown[k] = "live"},
     empty |-> ~loading /\ ~error /\ KeyRows = {}]

\* An error replaces the whole screen of Usage, the selector with it; without
\* data the totals are zero and the table says there was no use.
UsageView ==
    [loading |-> FALSE, error |-> error, selector |-> ~error, period |-> shown,
     empty |-> ~error /\ shown = Nothing]

\* Overview and Health: the error, or the text that it is loading, or the data.
OverviewView == [loading |-> ~error /\ shown = Nothing, error |-> error, empty |-> FALSE]
HealthView == [loading |-> ~error /\ shown = Nothing, error |-> error, empty |-> FALSE]

\* Routes says that no route is published also before the answer is there.
RoutesView == [loading |-> FALSE, error |-> error, empty |-> ~error /\ shown = Nothing]

View ==
    CASE screen = "applications" -> ApplicationsView
      [] screen = "credentials" -> CredentialsView
      [] screen = "usage" -> UsageView
      [] screen = "overview" -> OverviewView
      [] screen = "health" -> HealthView
      [] screen = "routes" -> RoutesView

-----------------------------------------------------------------------------
(* The shell                                                               *)

Init ==
    /\ registry = [a \in App |-> IF a \notin Bootstrapped THEN Missing
                                ELSE IF a \in Protected THEN {} ELSE Setting]
    /\ keys = [k \in Key |-> "none"]
    /\ edits = 0
    /\ screen \in Screen /\ shown = Nothing /\ error = FALSE /\ loading = (screen \in Lists)
    /\ open = FALSE /\ editing = Nothing /\ secret = Nothing /\ days = Default
    /\ calls = <<Load(screen, Default)>>
    /\ by = 0 /\ newest = 0
    /\ writer = [x \in App \cup Key |-> 0]
    /\ acked = {}
    /\ due = {}

\* <Current key={nonce} />: the old screen is unmounted, the new one starts from
\* its initial state, and its effect asks for its data.
Mount(s) ==
    /\ Room(1)
    /\ screen' = s
    /\ shown' = Nothing /\ error' = FALSE /\ loading' = (s \in Lists)
    /\ open' = FALSE /\ editing' = Nothing /\ secret' = Nothing /\ days' = Default
    /\ calls' = Append(Abandoned, Load(s, Default))
    /\ by' = 0 /\ newest' = 0
    /\ due' = {}
    /\ UNCHANGED <<server, writer, acked>>

\* navigate(id); the button of the screen that is mounted changes nothing.
Navigate(s) == s # screen /\ Mount(s)

\* setNonce: the same screen, mounted again.
Refresh == Mount(screen)

-----------------------------------------------------------------------------
(* What the administrator does on a screen                                 *)

Untouched == UNCHANGED <<screen, shown, error, loading, secret, days>>

OpenDialog ==
    /\ screen \in Lists
    /\ ~open
    /\ open' = TRUE
    /\ Untouched /\ UNCHANGED <<server, editing, calls, history>>

\* The pencil of a row, also of one that is out of date.
OpenEdit(a) ==
    /\ screen = "applications"
    /\ a \in ApplicationsView.rows /\ editing # a
    /\ editing' = a
    /\ Untouched /\ UNCHANGED <<server, open, calls, history>>

\* Modal's onOpenChange(false).
CloseDialogs ==
    /\ open \/ editing # Nothing
    /\ open' = FALSE /\ editing' = Nothing
    /\ Untouched /\ UNCHANGED <<server, calls, history>>

\* Create's form; nothing stops a second submission.
SubmitApplication(a) ==
    /\ screen = "applications" /\ open
    /\ Submit("create app", a, {})
    /\ UNCHANGED <<server, ui, history>>

\* Edit's form: every setting it has an input for, ticked or not.  The button is
\* disabled for a protected application.
SubmitEdit(form) ==
    /\ screen = "applications" /\ editing # Nothing /\ editing \notin Protected
    /\ form \subseteq Offered
    /\ Submit("save app", editing, form)
    /\ UNCHANGED <<server, ui, history>>

\* The form of a new key; nothing stops a second submission.  Whoever asks for
\* another key has had the one on display.
SubmitKey ==
    /\ screen = "credentials" /\ open
    /\ Submit("create key", Nothing, {})
    /\ due' = due \ {secret}
    /\ UNCHANGED <<server, ui, by, newest, writer, acked>>

\* Revoke's dialog is confirmed; it closes by itself.
ConfirmRevoke(k) ==
    /\ screen = "credentials" /\ k \in CredentialsView.revocable
    /\ Submit("revoke key", k, {})
    /\ UNCHANGED <<server, ui, history>>

\* Mutant: the text of the option is not turned into a number.
SelectPeriodRaw(d) ==
    /\ screen = "usage" /\ UsageView.selector /\ d # days
    /\ Room(1)
    /\ days' = "text"
    /\ error' = FALSE
    /\ calls' = Append(calls, Load("usage", d))
    /\ UNCHANGED <<server, screen, shown, loading, dialogs, secret, history>>

\* Usage's selector: setDays and the effect that follows.
SelectPeriod(d) ==
    /\ screen = "usage" /\ UsageView.selector /\ d # days
    /\ Room(1)
    /\ days' = d
    /\ error' = FALSE
    /\ calls' = Append(calls, Load("usage", d))
    /\ UNCHANGED <<server, screen, shown, loading, dialogs, secret, history>>

-----------------------------------------------------------------------------
(* The server                                                              *)

Sent(i, kind) == calls[i].kind = kind /\ calls[i].stage = "sent"
Answered(i, ok, answer) ==
    [calls EXCEPT ![i].stage = "answered", ![i].ok = ok, ![i].answer = answer]
Wrote(i, x) == writer' = [writer EXCEPT ![x] = i]

\* The GET handlers.  Credentials asks for the applications too, for the selector
\* of its form; its load fails when either call does.
ServeLoad(i) ==
    /\ Sent(i, "load")
    /\ calls' = Answered(i, TRUE, CASE calls[i].target = "applications" -> registry
                                    [] calls[i].target = "credentials" -> keys
                                    [] OTHER -> calls[i].value)
    /\ UNCHANGED <<server, ui, history>>

\* POST /applications: a disabled application without capabilities, or 409.
ServeCreate(i) ==
    LET a == calls[i].target
    IN  /\ Sent(i, "create app")
        /\ IF registry[a] = Missing
             THEN /\ registry' = [registry EXCEPT ![a] = {}]
                  /\ Wrote(i, a)
                  /\ calls' = Answered(i, TRUE, Nothing)
             ELSE /\ calls' = Answered(i, FALSE, Nothing)
                  /\ UNCHANGED <<registry, writer>>
        /\ UNCHANGED <<keys, edits, ui, by, newest, acked, due>>

\* PUT /applications/{id}: the row becomes what the form sent.
ServeSave(i) ==
    /\ Sent(i, "save app")
    /\ registry' = [registry EXCEPT ![calls[i].target] = calls[i].value]
    /\ Wrote(i, calls[i].target)
    /\ calls' = Answered(i, TRUE, Nothing)
    /\ UNCHANGED <<keys, edits, ui, by, newest, acked, due>>

\* POST /credentials: a key with a fresh id, no matter which; its secret is in
\* this answer and nowhere else.
ServeKey(i) ==
    LET fresh == {k \in Key : keys[k] = "none"}
        k == CHOOSE x \in fresh : TRUE
    IN  /\ Sent(i, "create key")
        /\ fresh # {}
        /\ keys' = [keys EXCEPT ![k] = "live"]
        /\ Wrote(i, k)
        /\ calls' = Answered(i, TRUE, k)
        /\ due' = IF calls[i].mounted THEN due \cup {k} ELSE due
        /\ UNCHANGED <<registry, edits, ui, by, newest, acked>>

\* POST /credentials/{id}/revoke: 404 when it is revoked already.
ServeRevoke(i) ==
    LET k == calls[i].target
    IN  /\ Sent(i, "revoke key")
        /\ IF keys[k] = "live"
             THEN /\ keys' = [keys EXCEPT ![k] = "revoked"]
                  /\ Wrote(i, k)
                  /\ calls' = Answered(i, TRUE, Nothing)
             ELSE /\ calls' = Answered(i, FALSE, Nothing)
                  /\ UNCHANGED <<keys, writer>>
        /\ UNCHANGED <<registry, edits, ui, by, newest, acked, due>>

\* The call is refused, or never gets there.
Refuse(i) ==
    /\ calls[i].stage = "sent"
    /\ calls' = Answered(i, FALSE, Nothing)
    /\ UNCHANGED <<server, ui, history>>

\* The server has done its part, but the answer is an error (its audit event could
\* not be written) or gets lost.
LoseAnswer(i) ==
    /\ calls[i].stage = "answered" /\ calls[i].ok
    /\ calls' = Answered(i, FALSE, Nothing)
    /\ due' = IF calls[i].kind = "create key" THEN due \ {calls[i].answer} ELSE due
    /\ UNCHANGED <<server, ui, by, newest, writer, acked>>

\* Somebody else saves an application or revokes a key.
OtherEdit ==
    /\ edits < MaxEdits
    /\ edits' = edits + 1
    /\ \/ \E a \in App \ Protected, row \in SUBSET Setting :
             /\ registry[a] # Missing
             /\ registry' = [registry EXCEPT ![a] = row]
             /\ Wrote(0, a)
             /\ UNCHANGED keys
       \/ \E k \in Key :
             /\ keys[k] = "live"
             /\ keys' = [keys EXCEPT ![k] = "revoked"]
             /\ Wrote(0, k)
             /\ UNCHANGED registry
    /\ UNCHANGED <<ui, calls, by, newest, acked, due>>

-----------------------------------------------------------------------------
(* Answers                                                                 *)

Ready(i, kinds) == i \in Mine /\ calls[i].kind \in kinds /\ calls[i].stage = "answered"
Forget(i) == [calls EXCEPT ![i] = Over]

\* Mutant: loading is reset by then, not by finally.
LoadAnswerThen(i) ==
    /\ Ready(i, {"load"})
    /\ calls' = Forget(i)
    /\ IF calls[i].ok
         THEN /\ shown' = calls[i].answer /\ loading' = FALSE
              /\ by' = i /\ newest' = IF i > newest THEN i ELSE newest
              /\ UNCHANGED error
         ELSE error' = TRUE /\ UNCHANGED <<shown, loading, by, newest>>
    /\ UNCHANGED <<server, screen, dialogs, secret, days, writer, acked, due>>

\* .then(setX) .catch(setError) .finally(setLoading(false)).
LoadAnswer(i) ==
    /\ Ready(i, {"load"})
    /\ calls' = Forget(i)
    /\ loading' = FALSE
    /\ IF calls[i].ok
         THEN /\ shown' = calls[i].answer
              /\ by' = i /\ newest' = IF i > newest THEN i ELSE newest
              /\ UNCHANGED error
         ELSE error' = TRUE /\ UNCHANGED <<shown, by, newest>>
    /\ UNCHANGED <<server, screen, dialogs, secret, days, writer, acked, due>>

\* Mutants: load resets the error and leaves loading to useState; no load at all.
ReloadQuietly(i) ==
    /\ error' = FALSE
    /\ calls' = Append(Forget(i), Load(screen, Default))
    /\ UNCHANGED loading

ReloadNever(i) == calls' = Forget(i) /\ UNCHANGED <<loading, error>>

\* load(), called when a write has succeeded.
Reload(i) ==
    /\ loading' = TRUE
    /\ error' = FALSE
    /\ calls' = Append(Forget(i), Load(screen, Default))

\* done() of Create and Edit: the dialog is closed, whichever is open by now.
ApplicationAnswer(i) ==
    /\ Ready(i, {"create app", "save app"}) /\ calls[i].ok
    /\ open' = IF calls[i].kind = "create app" THEN FALSE ELSE open
    /\ editing' = IF calls[i].kind = "save app" THEN Nothing ELSE editing
    /\ Reload(i)
    /\ acked' = acked \cup {i}
    /\ UNCHANGED <<server, screen, shown, secret, days, by, newest, writer, due>>

\* Other creations of this screen under way.
Rivals(i) == {j \in Mine \ {i} : calls[j].kind = "create key"}

\* Mutant: the secret is set and cleared again with the dialog.
KeyAnswerForgetful(i) ==
    /\ Ready(i, {"create key"}) /\ calls[i].ok
    /\ secret' = Nothing
    /\ open' = FALSE
    /\ Reload(i)
    /\ acked' = acked \cup {i}
    /\ due' = IF Rivals(i) = {} THEN due ELSE due \ {calls[i].answer}
    /\ UNCHANGED <<server, screen, shown, editing, days, by, newest, writer>>

\* setSecret, setOpen(false), load.  The secret replaces the one on display; one that
\* comes while another creation is under way may be replaced at any moment.
KeyAnswer(i) ==
    /\ Ready(i, {"create key"}) /\ calls[i].ok
    /\ secret' = calls[i].answer
    /\ open' = FALSE
    /\ Reload(i)
    /\ acked' = acked \cup {i}
    /\ due' = IF Rivals(i) = {} THEN due ELSE due \ {calls[i].answer}
    /\ UNCHANGED <<server, screen, shown, editing, days, by, newest, writer>>

\* Revoke's done.
RevokeAnswer(i) ==
    /\ Ready(i, {"revoke key"}) /\ calls[i].ok
    /\ Reload(i)
    /\ acked' = acked \cup {i}
    /\ UNCHANGED <<server, screen, shown, dialogs, secret, days, by, newest, writer, due>>

\* A failed write puts a message into its dialog - a failed revocation nowhere -
\* and leaves everything else as it is.
WriteFailed(i) ==
    /\ Ready(i, Writes) /\ ~calls[i].ok
    /\ calls' = Forget(i)
    /\ UNCHANGED <<server, ui, history>>

\* The answer to a screen that is gone.
LateAnswer(i) ==
    /\ i \notin Mine /\ calls[i].stage = "answered"
    /\ calls' = Forget(i)
    /\ UNCHANGED <<server, ui, history>>

-----------------------------------------------------------------------------
Serve(i) ==
    \/ ServeLoad(i) \/ ServeCreate(i) \/ ServeSave(i) \/ ServeKey(i) \/ ServeRevoke(i) \/ Refuse(i)
Handle(i) ==
    \/ LoadAnswer(i) \/ ApplicationAnswer(i) \/ KeyAnswer(i) \/ RevokeAnswer(i)
    \/ WriteFailed(i) \/ LateAnswer(i)

Next ==
    \/ (\E s \in Screen : Navigate(s)) \/ Refresh
    \/ OpenDialog \/ CloseDialogs \/ SubmitKey
    \/ \E a \in App : OpenEdit(a) \/ SubmitApplication(a)
    \/ \E form \in SUBSET Offered : SubmitEdit(form)
    \/ \E k \in Key : ConfirmRevoke(k)
    \/ \E d \in Period : SelectPeriod(d)
    \/ \E i \in Pending : Serve(i) \/ Handle(i) \/ LoseAnswer(i)
    \/ OtherEdit

Spec == Init /\ [][Next]_vars

\* Every call is settled: the server answers or the connection breaks, and the
\* browser runs the handler.
Fairness == \A i \in 1..MaxCalls : WF_vars(i \in Pending /\ (Serve(i) \/ Handle(i)))

FairSpec == Spec /\ Fairness

-----------------------------------------------------------------------------
(* Properties                                                              *)

TypeOK ==
    /\ registry \in [App -> Row]
    /\ keys \in [Key -> State]
    /\ edits \in 0..MaxEdits
    /\ screen \in Screen
    /\ error \in BOOLEAN /\ loading \in BOOLEAN /\ open \in BOOLEAN
    /\ editing \in App \cup {Nothing}
    /\ secret \in Key \cup {Nothing}
    /\ days \in Period
    /\ Len(calls) <= MaxCalls
    /\ by \in 0..MaxCalls /\ newest \in 0..MaxCalls
    /\ writer \in [App \cup Key -> 0..MaxCalls]
    /\ acked \in SUBSET (1..MaxCalls)
    /\ due \in SUBSET Key

\* An answer that was sent off earlier has replaced a newer one.
Overtaken == by < newest

\* Once nothing is under way and no error is shown, a screen shows what was asked
\* for: Applications and Credentials tell the truth about everything whose last
\* change was made by the panel and confirmed to it (an application created or
\* saved, a key created or revoked, on this screen or an earlier one), and Usage
\* shows the figures of the period that is selected.  The one exception are
\* answers that came in the wrong order: nothing makes a screen ignore the older.
ShownIsCurrent ==
    Settled /\ ~error /\ ~Overtaken =>
        /\ screen = "applications" =>
              \A a \in App : writer[a] \in acked => shown # Nothing /\ shown[a] = registry[a]
        /\ screen = "credentials" =>
              \A k \in Key : writer[k] \in acked => shown # Nothing /\ shown[k] = keys[k]
        /\ screen = "usage" => shown = days

\* Applications and Credentials say that nothing is there only when the server has
\* said so; Overview and Health never do.  Routes and Usage have no state for
\* loading and say so until the answer is there.
EmptyTextTrue == View.empty /\ screen \notin {"routes", "usage"} => by # 0

\* Nobody ends up with a key without having had its secret in view.  The secret of a
\* key created from the mounted screen is on its way there or on display, and stays
\* on display through reloads, errors and dialogs until the administrator leaves the
\* screen or asks for another key.  Exceptions: the answer failed, the screen was left
\* before it came, or the form was submitted again before it came; then the other
\* answer may replace the secret as soon as it is displayed.  The server cannot show
\* it again.
SecretDelivered ==
    \A k \in due :
        \/ screen = "credentials" /\ CredentialsView.secret = k
        \/ \E i \in Mine : /\ calls[i].kind = "create key" /\ calls[i].stage = "answered"
                          /\ calls[i].ok /\ calls[i].answer = k

\* A screen does not stay in its loading state, whatever fails.
LoadingEnds == View.loading ~> ~View.loading

\* A save switches nothing off that the administrator did not untick: a setting the
\* form has no input for stays as it was.  docs/architecture/gg-oferta-core.md says
\* of the administrative API the panel uses that it takes fetch by the same flow as
\* ai and search.
UnofferedKept ==
    [][\A i \in Pending :
          LET a == calls[i].target
          IN  calls[i].kind = "save app" /\ calls[i].stage = "sent" /\ calls'[i].ok =>
                  registry[a] \ Offered \subseteq registry'[a]]_vars
==============================================================================
