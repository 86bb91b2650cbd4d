------------------------- MODULE PanelSessionProofs -------------------------
(***************************************************************************)
(* Theorems about PanelSession, for any number of tabs, sessions and calls *)
(* and any faults: its types, TokenKept and LogoutEndsSession.             *)
(***************************************************************************)
EXTENDS PanelSession, SequenceTheorems, TLAPS

-----------------------------------------------------------------------------
(* The inductive invariant                                                 *)

\* What a call of a page that is still there says about its tab: a session check
\* runs under the spinner, a login under the disabled form, and a logout under
\* the shell and with the token it was sent with, unless "Sair" was pressed again.
PageCalls ==
    \A i \in Pending : calls[i].page =>
        /\ calls[i].kind = "session" => authenticated[calls[i].tab] = "null"
        /\ calls[i].kind = "login" => authenticated[calls[i].tab] = "false" /\ busy[calls[i].tab]
        /\ calls[i].kind = "logout" =>
              \/ calls[i].tab \in twice
              \/ authenticated[calls[i].tab] = "true" /\ csrf[calls[i].tab] = calls[i].csrf

\* Which calls of one page can be under way together.
Alone ==
    \A i, j \in Pending :
        (i # j /\ calls[i].page /\ calls[j].page /\ calls[i].tab = calls[j].tab) =>
            /\ calls[i].kind # "session"
            /\ ~(calls[i].kind = "login" /\ calls[j].kind = "login")
            /\ calls[i].kind = "logout" /\ calls[j].kind = "logout" => calls[i].tab \in twice

\* A logout that the server accepted was for the session of its token, and once it
\* is answered that session is over.
Logouts ==
    \A i \in Pending : calls[i].kind = "logout" =>
        /\ calls[i].stage = "validated" => calls[i].csrf = calls[i].cookie /\ calls[i].csrf \in issued
        /\ calls[i].stage = "answered" /\ calls[i].ok => calls[i].csrf \in issued \ live

\* TokenKept without looking at what the tab shows.
TokenFits == \A t \in Tab : owner = t => csrf[t] = cookie /\ stored[t] = cookie

IInv == TypeOK /\ PageCalls /\ Alone /\ Logouts /\ TokenFits

-----------------------------------------------------------------------------
(* Sequences                                                               *)

\* What replacing one element of a sequence leaves as it is.
LEMMA SeqExcept ==
    ASSUME NEW S, NEW q \in Seq(S), NEW i \in DOMAIN q, NEW v \in S
    PROVE  LET r == [q EXCEPT ![i] = v]
           IN  /\ r \in Seq(S) /\ Len(r) = Len(q) /\ DOMAIN r = DOMAIN q
               /\ r[i] = v
               /\ \A j \in DOMAIN q : j # i => r[j] = q[j]
  BY ExceptSeq

\* What appending an element to a sequence leaves as it is.
LEMMA SeqAppend ==
    ASSUME NEW S, NEW q \in Seq(S), NEW v \in S
    PROVE  LET r == Append(q, v)
           IN  /\ r \in Seq(S) /\ Len(r) = Len(q) + 1
               /\ DOMAIN r = DOMAIN q \cup {Len(q) + 1}
               /\ Len(q) + 1 \notin DOMAIN q
               /\ r[Len(q) + 1] = v
               /\ \A j \in DOMAIN q : r[j] = q[j]
  BY SMT

-----------------------------------------------------------------------------
(* Calls                                                                   *)

\* A pending call is a record with all its fields.
LEMMA PendingCall ==
    ASSUME TypeOK, NEW i \in Pending
    PROVE  /\ i \in DOMAIN calls /\ calls[i] \in Call
           /\ calls[i].tab \in Tab /\ calls[i].kind \in {"session", "login", "logout"}
           /\ calls[i].page \in BOOLEAN /\ calls[i].ok \in BOOLEAN
           /\ calls[i].csrf \in Session \cup {Nothing}
           /\ calls[i].cookie \in Session \cup {Nothing}
           /\ calls[i].session \in Session \cup {Nothing}
  <1>1. i \in DOMAIN calls /\ calls[i] \in Call
    BY DEF TypeOK, Pending
  <1> QED
    BY <1>1 DEF Call

\* The same call with another stage, answer or page.
LEMMA EditedCall ==
    ASSUME NEW c \in Call, NEW ok \in BOOLEAN, NEW s \in Session \cup {Nothing}
    PROVE  /\ [c EXCEPT !.page = FALSE] \in Call
           /\ [c EXCEPT !.stage = "validated"] \in Call
           /\ [c EXCEPT !.stage = "answered", !.ok = ok, !.session = s] \in Call
  BY DEF Call

\* The calls after the page of a tab went away: those of the tab are orphaned.
LEMMA OrphanedCalls ==
    ASSUME TypeOK, NEW t \in Tab
    PROVE  LET r == Orphaned(t)
           IN  /\ r \in Seq(Call \cup {Over}) /\ Len(r) = Len(calls) /\ DOMAIN r = DOMAIN calls
               /\ \A j \in DOMAIN calls :
                     \/ r[j] = calls[j] /\ j \notin Of(t)
                     \/ j \in Of(t) /\ r[j] = [calls[j] EXCEPT !.page = FALSE] /\ r[j] \in Call
  <1>1. \A j \in Of(t) : [calls[j] EXCEPT !.page = FALSE] \in Call
    BY PendingCall, EditedCall DEF Of
  <1>2. /\ DOMAIN Orphaned(t) = DOMAIN calls
        /\ \A j \in DOMAIN calls : Orphaned(t)[j] = IF j \in Of(t) THEN [calls[j] EXCEPT !.page = FALSE]
                                                                  ELSE calls[j]
    BY DEF Orphaned
  <1>3. \A j \in DOMAIN calls : Orphaned(t)[j] \in Call \cup {Over}
    BY <1>1, <1>2 DEF TypeOK
  <1>4. DOMAIN calls = 1..Len(calls) /\ Len(calls) \in Nat
    BY DEF TypeOK
  <1>5. Orphaned(t) \in [1..Len(calls) -> Call \cup {Over}]
    BY <1>2, <1>3, <1>4 DEF Orphaned
  <1>6. Orphaned(t) \in Seq(Call \cup {Over}) /\ Len(Orphaned(t)) = Len(calls)
    BY <1>4, <1>5, SMT
  <1> QED
    BY <1>1, <1>2, <1>6

\* No call comes to exist or to life: a step of the server, of a handler, or the
\* end of a page.
Fewer ==
    \A j \in Pending' :
        /\ j \in Pending
        /\ calls'[j].tab = calls[j].tab /\ calls'[j].kind = calls[j].kind
        /\ calls'[j].csrf = calls[j].csrf
        /\ calls'[j].page => calls[j].page

\* Then what the calls of a page say about its tab stays true.
LEMMA FewerKeeps ==
    ASSUME IInv, Fewer, UNCHANGED <<authenticated, csrf, busy, twice>>
    PROVE  PageCalls' /\ Alone'
  <1>1. PageCalls'
    BY DEF IInv, PageCalls, Fewer
  <1>2. Alone'
    BY DEF IInv, Alone, Fewer
  <1> QED
    BY <1>1, <1>2

\* A call is answered, validated or forgotten.
LEMMA CallReplaced ==
    ASSUME TypeOK, NEW i \in Pending, NEW c \in Call \cup {Over},
           calls' = [calls EXCEPT ![i] = c],
           c # Over => /\ c.tab = calls[i].tab /\ c.kind = calls[i].kind
                       /\ c.csrf = calls[i].csrf /\ c.page = calls[i].page
    PROVE  /\ calls' \in Seq(Call \cup {Over}) /\ Len(calls') <= MaxCalls
           /\ DOMAIN calls' = DOMAIN calls
           /\ calls'[i] = c
           /\ \A j \in DOMAIN calls : j # i => calls'[j] = calls[j]
           /\ Fewer
  <1>1. calls \in Seq(Call \cup {Over}) /\ Len(calls) <= MaxCalls /\ i \in DOMAIN calls
    BY DEF TypeOK, Pending
  <1>2. /\ calls' \in Seq(Call \cup {Over}) /\ Len(calls') = Len(calls)
        /\ DOMAIN calls' = DOMAIN calls /\ calls'[i] = c
        /\ \A j \in DOMAIN calls : j # i => calls'[j] = calls[j]
    BY <1>1, SeqExcept
  <1>3. Fewer
    BY <1>2 DEF Fewer, Pending
  <1> QED
    BY <1>1, <1>2, <1>3

\* The answer of the server to a call.
LEMMA CallAnswered ==
    ASSUME TypeOK, NEW i \in Pending, NEW ok \in BOOLEAN, NEW s \in Session \cup {Nothing},
           calls' = Answered(i, ok, s)
    PROVE  /\ calls' \in Seq(Call \cup {Over}) /\ Len(calls') <= MaxCalls
           /\ DOMAIN calls' = DOMAIN calls
           /\ calls'[i] = [calls[i] EXCEPT !.stage = "answered", !.ok = ok, !.session = s]
           /\ calls'[i].stage = "answered" /\ calls'[i].ok = ok
           /\ \A j \in DOMAIN calls : j # i => calls'[j] = calls[j]
           /\ Fewer
  <1> DEFINE c == [calls[i] EXCEPT !.stage = "answered", !.ok = ok, !.session = s]
  <1>1. calls[i] \in Call /\ i \in DOMAIN calls
    BY PendingCall
  <1>2. c \in Call
    BY <1>1, EditedCall
  <1>3. /\ c.tab = calls[i].tab /\ c.kind = calls[i].kind /\ c.csrf = calls[i].csrf
        /\ c.page = calls[i].page /\ c.stage = "answered" /\ c.ok = ok
    BY <1>1 DEF Call
  <1>4. calls' = [calls EXCEPT ![i] = c]
    BY DEF Answered
  <1> HIDE DEF c
  <1>5. /\ calls' \in Seq(Call \cup {Over}) /\ Len(calls') <= MaxCalls
        /\ DOMAIN calls' = DOMAIN calls /\ calls'[i] = c
        /\ \A j \in DOMAIN calls : j # i => calls'[j] = calls[j]
        /\ Fewer
    BY <1>2, <1>3, <1>4, CallReplaced
  <1> QED
    BY <1>3, <1>5 DEF c

\* A logout is let in.
LEMMA CallValidated ==
    ASSUME TypeOK, NEW i \in Pending,
           calls' = [calls EXCEPT ![i] = [@ EXCEPT !.stage = "validated"]]
    PROVE  /\ calls' \in Seq(Call \cup {Over}) /\ Len(calls') <= MaxCalls
           /\ DOMAIN calls' = DOMAIN calls
           /\ calls'[i].stage = "validated" /\ calls'[i].cookie = calls[i].cookie
           /\ \A j \in DOMAIN calls : j # i => calls'[j] = calls[j]
           /\ Fewer
  <1> DEFINE c == [calls[i] EXCEPT !.stage = "validated"]
  <1>1. calls[i] \in Call /\ i \in DOMAIN calls
    BY PendingCall
  <1>2. c \in Call
    BY <1>1, EditedCall
  <1>3. /\ c.tab = calls[i].tab /\ c.kind = calls[i].kind /\ c.csrf = calls[i].csrf
        /\ c.page = calls[i].page /\ c.stage = "validated" /\ c.cookie = calls[i].cookie
    BY <1>1 DEF Call
  <1>4. calls' = [calls EXCEPT ![i] = c]
    OBVIOUS
  <1> HIDE DEF c
  <1> QED
    BY <1>2, <1>3, <1>4, CallReplaced

\* What the server and the network do to a call, and to nothing else of the browser.
LEMMA ServerStep ==
    ASSUME TypeOK, NEW i \in Pending, Serve(i) \/ LoseAnswer(i)
    PROVE  /\ calls' \in Seq(Call \cup {Over}) /\ Len(calls') <= MaxCalls
           /\ DOMAIN calls' = DOMAIN calls
           /\ \A j \in DOMAIN calls : j # i => calls'[j] = calls[j]
           /\ Fewer
           /\ UNCHANGED <<cookie, tabs, history>>
           /\ issued' \in SUBSET Session /\ live' \in SUBSET issued'
  <1>0. Nothing \in Session \cup {Nothing} /\ issued \in SUBSET Session /\ live \in SUBSET issued
    BY DEF TypeOK
  <1>1. CASE ServeSession(i)
    <2> DEFINE ok == calls[i].cookie \in live
    <2>1. ok \in BOOLEAN
      OBVIOUS
    <2>2. calls' = Answered(i, ok, Nothing) /\ UNCHANGED <<server, cookie, tabs, history>>
      BY <1>1 DEF ServeSession
    <2> HIDE DEF ok
    <2> QED
      BY <1>0, <2>1, <2>2, CallAnswered DEF server
  <1>2. CASE ServeLogin(i)
    <2>1. \E ok \in BOOLEAN, s \in Session \cup {Nothing} : calls' = Answered(i, ok, s)
      BY <1>2 DEF ServeLogin
    <2> QED
      BY <1>0, <1>2, <2>1, CallAnswered DEF ServeLogin
  <1>3. CASE ValidateLogout(i)
    BY <1>0, <1>3, CallAnswered, CallValidated DEF ValidateLogout, server
  <1>4. CASE RevokeSession(i)
    <2>1. \E ok \in BOOLEAN : calls' = Answered(i, ok, Nothing)
      BY <1>4 DEF RevokeSession
    <2> QED
      BY <1>0, <1>4, <2>1, CallAnswered DEF RevokeSession
  <1>5. CASE Refuse(i) \/ LoseAnswer(i)
    BY <1>0, <1>5, CallAnswered DEF Refuse, LoseAnswer, server
  <1> QED
    BY <1>1, <1>2, <1>3, <1>4, <1>5 DEF Serve

\* A handled call is forgotten.
LEMMA CallForgotten ==
    ASSUME TypeOK, NEW i \in Pending, calls' = Forget(i)
    PROVE  /\ calls' \in Seq(Call \cup {Over}) /\ Len(calls') <= MaxCalls
           /\ DOMAIN calls' = DOMAIN calls
           /\ calls'[i] = Over
           /\ \A j \in DOMAIN calls : j # i => calls'[j] = calls[j]
           /\ Fewer
  BY CallReplaced DEF Forget

\* A call is sent.
LEMMA CallSent ==
    ASSUME TypeOK, NEW t \in Tab, NEW kind \in {"session", "login", "logout"},
           NEW token \in Session \cup {Nothing}, Send(t, kind, token)
    PROVE  LET n == Len(calls) + 1
           IN  /\ calls' \in Seq(Call \cup {Over}) /\ Len(calls') <= MaxCalls
               /\ DOMAIN calls' = DOMAIN calls \cup {n} /\ n \notin DOMAIN calls
               /\ calls'[n] = Request(t, kind, token)
               /\ \A j \in DOMAIN calls : calls'[j] = calls[j]
  <1>1. Request(t, kind, token) \in Call
    BY DEF Request, Call, TypeOK
  <1>2. Len(calls) \in Nat /\ Len(calls) < MaxCalls /\ calls' = Append(calls, Request(t, kind, token))
    BY DEF Send, TypeOK
  <1>3. calls \in Seq(Call \cup {Over})
    BY DEF TypeOK
  <1> HIDE DEF Call, Over
  <1> QED
    BY <1>1, <1>2, <1>3, SeqAppend, PanelSessionAssumption

-----------------------------------------------------------------------------
(* Types                                                                   *)

\* The invariant holds before any page is loaded.
LEMMA InitInv == Init => IInv
  <1> SUFFICES ASSUME Init PROVE IInv
    OBVIOUS
  <1>1. calls = <<>> /\ Pending = {}
    BY DEF Init, Pending
  <1>2. TypeOK
    BY <1>1, PanelSessionAssumption DEF Init, TypeOK
  <1>3. PageCalls /\ Alone /\ Logouts
    BY <1>1 DEF PageCalls, Alone, Logouts
  <1>4. TokenFits
    BY PanelSessionAssumption DEF Init, TokenFits
  <1> QED
    BY <1>2, <1>3, <1>4 DEF IInv

\* Every step keeps the types.
LEMMA TypeStep ==
    ASSUME TypeOK, [Next]_vars
    PROVE  TypeOK'
  <1>1. ASSUME NEW t \in Tab, LoadPage(t) PROVE TypeOK'
    <2>1. Request(t, "session", Nothing) \in Call
      BY DEF Request, Call, TypeOK
    <2>2. Orphaned(t) \in Seq(Call \cup {Over}) /\ Len(Orphaned(t)) = Len(calls)
      BY OrphanedCalls
    <2>3. calls' = Append(Orphaned(t), Request(t, "session", Nothing)) /\ Len(calls) < MaxCalls
      BY <1>1 DEF LoadPage
    <2>4. calls' \in Seq(Call \cup {Over}) /\ Len(calls') = Len(calls) + 1
      BY <2>1, <2>2, <2>3, SeqAppend
    <2>5. Len(calls') <= MaxCalls
      BY <2>2, <2>3, <2>4, PanelSessionAssumption, LenProperties DEF TypeOK
    <2> QED
      BY <1>1, <2>4, <2>5 DEF LoadPage, server, TypeOK
  <1>2. ASSUME NEW t \in Tab, CloseTab(t) PROVE TypeOK'
    BY <1>2, OrphanedCalls DEF CloseTab, server, TypeOK
  <1>3. ASSUME NEW t \in Tab, SubmitLogin(t) PROVE TypeOK'
    <2>1. csrf[t] \in Session \cup {Nothing} /\ Send(t, "login", csrf[t])
      BY <1>3 DEF SubmitLogin, TypeOK
    <2>2. calls' \in Seq(Call \cup {Over}) /\ Len(calls') <= MaxCalls
      BY <2>1, CallSent
    <2> QED
      BY <1>3, <2>2 DEF SubmitLogin, server, history, TypeOK
  <1>4. ASSUME NEW t \in Tab, ClickLogout(t) PROVE TypeOK'
    <2>1. csrf[t] \in Session \cup {Nothing} /\ Send(t, "logout", csrf[t])
      BY <1>4 DEF ClickLogout, TypeOK
    <2>2. calls' \in Seq(Call \cup {Over}) /\ Len(calls') <= MaxCalls
      BY <2>1, CallSent
    <2> QED
      BY <1>4, <2>2 DEF ClickLogout, server, tabs, TypeOK
  <1>5. ASSUME NEW i \in Pending, Serve(i) \/ LoseAnswer(i) PROVE TypeOK'
    BY <1>5, ServerStep DEF tabs, history, TypeOK
  <1>6. ASSUME NEW i \in Pending, Handle(i) PROVE TypeOK'
    <2>1. calls' \in Seq(Call \cup {Over}) /\ Len(calls') <= MaxCalls
      BY <1>6, CallForgotten DEF Handle, SessionAnswer, LoginAnswer, LogoutAnswer, OrphanAnswer
    <2>2. calls[i].tab \in Tab /\ calls[i].session \in Session \cup {Nothing}
      BY PendingCall
    <2>3. CASE SessionAnswer(i)
      BY <2>1, <2>2, <2>3 DEF SessionAnswer, server, history, TypeOK
    <2>4. CASE LoginAnswer(i)
      BY <2>1, <2>2, <2>4 DEF LoginAnswer, setCsrf, server, TypeOK
    <2>5. CASE LogoutAnswer(i)
      BY <2>1, <2>2, <2>5 DEF LogoutAnswer, server, TypeOK
    <2>6. CASE OrphanAnswer(i)
      BY <2>1, <2>2, <2>6 DEF OrphanAnswer, server, tabs, TypeOK
    <2> QED
      BY <1>6, <2>3, <2>4, <2>5, <2>6 DEF Handle
  <1>7. ASSUME NEW s \in Session, Expire(s) PROVE TypeOK'
    BY <1>7 DEF Expire, tabs, history, TypeOK
  <1>8. CASE UNCHANGED vars
    BY <1>8 DEF vars, server, tabs, history, TypeOK
  <1> QED
    BY <1>1, <1>2, <1>3, <1>4, <1>5, <1>6, <1>7, <1>8 DEF Next

-----------------------------------------------------------------------------
(* The calls of a page                                                     *)

\* After a load or a close the tab has no call left but the check of the new page.
LEMMA PageGone ==
    ASSUME IInv, NEW t \in Tab, LoadPage(t) \/ CloseTab(t)
    PROVE  /\ \A j \in Pending' : calls'[j].page =>
                 \/ /\ j \in Pending /\ calls'[j] = calls[j] /\ calls[j].tab # t
                 \/ /\ j = Len(calls) + 1 /\ LoadPage(t)
                    /\ calls'[j] = Request(t, "session", Nothing)
           /\ \A j \in Pending' : calls'[j].kind = "logout" =>
                 /\ j \in Pending /\ calls'[j].kind = calls[j].kind
                 /\ calls'[j].csrf = calls[j].csrf /\ calls'[j].cookie = calls[j].cookie
                 /\ calls'[j].stage = calls[j].stage /\ calls'[j].ok = calls[j].ok
  <1> DEFINE r == Orphaned(t)
  <1>1. /\ r \in Seq(Call \cup {Over}) /\ Len(r) = Len(calls) /\ DOMAIN r = DOMAIN calls
        /\ \A j \in DOMAIN calls :
              \/ r[j] = calls[j] /\ j \notin Of(t)
              \/ j \in Of(t) /\ r[j] = [calls[j] EXCEPT !.page = FALSE] /\ r[j] \in Call
    BY OrphanedCalls DEF IInv
  <1>2. ASSUME NEW j \in DOMAIN calls, r[j] # Over
        PROVE  /\ j \in Pending
               /\ r[j].page => r[j] = calls[j] /\ calls[j].tab # t
               /\ r[j].kind = calls[j].kind /\ r[j].csrf = calls[j].csrf
               /\ r[j].cookie = calls[j].cookie /\ r[j].stage = calls[j].stage
               /\ r[j].ok = calls[j].ok
    <2>1. CASE r[j] = calls[j] /\ j \notin Of(t)
      BY <1>2, <2>1 DEF Of, Pending
    <2>2. CASE j \in Of(t) /\ r[j] = [calls[j] EXCEPT !.page = FALSE]
      <3>1. j \in Pending /\ calls[j] \in Call
        BY <2>2, PendingCall DEF Of, IInv
      <3> QED
        BY <2>2, <3>1 DEF Call
    <2> QED
      BY <1>1, <1>2, <2>1, <2>2
  <1> HIDE DEF r
  <1>3. CASE CloseTab(t)
    <2>1. calls' = r
      BY <1>3 DEF CloseTab, r
    <2> QED
      BY <1>1, <1>2, <2>1 DEF Pending
  <1>4. CASE LoadPage(t)
    <2> DEFINE q == Request(t, "session", Nothing)
    <2>1. q \in Call /\ q.kind = "session"
      BY DEF Request, Call, IInv, TypeOK
    <2>2. calls' = Append(r, q)
      BY <1>4 DEF LoadPage, r
    <2> HIDE DEF q
    <2>3. /\ DOMAIN calls' = DOMAIN calls \cup {Len(calls) + 1}
          /\ calls'[Len(calls) + 1] = q
          /\ \A j \in DOMAIN calls : calls'[j] = r[j]
      BY <1>1, <2>1, <2>2, SeqAppend
    <2>4. \A j \in Pending' :
             \/ j \in DOMAIN calls /\ r[j] # Over /\ calls'[j] = r[j]
             \/ j = Len(calls) + 1 /\ calls'[j] = q
      BY <2>3 DEF Pending
    <2> QED
      BY <1>2, <1>4, <2>1, <2>4 DEF q
  <1> QED
    BY <1>3, <1>4

\* What a new call adds.
LEMMA PageSends ==
    ASSUME IInv, NEW t \in Tab, NEW kind \in {"login", "logout"}, Send(t, kind, csrf[t])
    PROVE  \A j \in Pending' :
              \/ j \in Pending /\ calls'[j] = calls[j]
              \/ /\ j = Len(calls) + 1 /\ j \notin Pending
                 /\ calls'[j].tab = t /\ calls'[j].kind = kind /\ calls'[j].csrf = csrf[t]
                 /\ calls'[j].stage = "sent" /\ calls'[j].page
  <1>1. csrf[t] \in Session \cup {Nothing}
    BY DEF IInv, TypeOK
  <1>2. /\ DOMAIN calls' = DOMAIN calls \cup {Len(calls) + 1} /\ Len(calls) + 1 \notin DOMAIN calls
        /\ calls'[Len(calls) + 1] = Request(t, kind, csrf[t])
        /\ \A j \in DOMAIN calls : calls'[j] = calls[j]
    BY <1>1, CallSent DEF IInv
  <1> QED
    BY <1>2 DEF Pending, Request

\* No step breaks what the calls of a page say about its tab, or lets two calls
\* of one page that exclude each other be under way together.
LEMMA PagesStep ==
    ASSUME IInv, [Next]_vars
    PROVE  PageCalls' /\ Alone'
  <1> USE DEF IInv
  <1>1. ASSUME NEW t \in Tab, LoadPage(t) \/ CloseTab(t) PROVE PageCalls' /\ Alone'
    <2>1. \A u \in Tab : u # t => /\ authenticated'[u] = authenticated[u] /\ csrf'[u] = csrf[u]
                                  /\ busy'[u] = busy[u]
      BY <1>1 DEF LoadPage, CloseTab, TypeOK
    <2>2. twice' = twice \ {t} /\ (LoadPage(t) => authenticated'[t] = "null")
      BY <1>1 DEF LoadPage, CloseTab, TypeOK
    <2>3. \A j \in Pending : calls[j].tab \in Tab
      BY PendingCall
    <2>4. \A j \in Pending' : calls'[j].page =>
             \/ /\ j \in Pending /\ calls'[j] = calls[j] /\ calls[j].tab # t
             \/ /\ j = Len(calls) + 1 /\ LoadPage(t)
                /\ calls'[j].tab = t /\ calls'[j].kind = "session"
      <3>1. /\ Request(t, "session", Nothing).tab = t
            /\ Request(t, "session", Nothing).kind = "session"
        BY DEF Request
      <3>2. IInv
        OBVIOUS
      <3> HIDE DEF IInv
      <3> QED
        BY <1>1, <3>1, <3>2, PageGone
    <2>5. PageCalls'
      BY <2>1, <2>2, <2>3, <2>4 DEF PageCalls
    <2>6. Alone'
      BY <2>2, <2>3, <2>4 DEF Alone
    <2> QED
      BY <2>5, <2>6
  <1>2. ASSUME NEW t \in Tab, SubmitLogin(t) PROVE PageCalls' /\ Alone'
    <2>1. /\ authenticated[t] = "false" /\ ~busy[t] /\ Send(t, "login", csrf[t])
          /\ UNCHANGED <<authenticated, csrf, twice>>
          /\ busy'[t] /\ \A u \in Tab : u # t => busy'[u] = busy[u]
      BY <1>2 DEF SubmitLogin, history, TypeOK
    <2>2. \A j \in Pending : calls[j].tab \in Tab
      BY PendingCall
    <2>3. \A j \in Pending' :
             \/ j \in Pending /\ calls'[j] = calls[j]
             \/ j = Len(calls) + 1 /\ calls'[j].tab = t /\ calls'[j].kind = "login"
      BY <2>1, PageSends
    <2>4. \A j \in Pending : calls[j].page /\ calls[j].tab = t => calls[j].kind = "logout"
      BY <2>1, PendingCall DEF PageCalls
    <2>5. PageCalls'
      BY <2>1, <2>2, <2>3 DEF PageCalls
    <2>6. Alone'
      BY <2>1, <2>3, <2>4 DEF Alone
    <2> QED
      BY <2>5, <2>6
  <1>3. ASSUME NEW t \in Tab, ClickLogout(t) PROVE PageCalls' /\ Alone'
    <2>1. /\ authenticated[t] = "true" /\ Send(t, "logout", csrf[t])
          /\ UNCHANGED <<authenticated, csrf, busy>>
          /\ twice' = IF \E i \in Of(t) : calls[i].kind = "logout" THEN twice \cup {t} ELSE twice
      BY <1>3 DEF ClickLogout, tabs
    <2>2. \A j \in Pending' :
             \/ j \in Pending /\ calls'[j] = calls[j]
             \/ /\ j = Len(calls) + 1
                /\ calls'[j].tab = t /\ calls'[j].kind = "logout" /\ calls'[j].csrf = csrf[t]
      BY <2>1, PageSends
    <2>3. \A j \in Pending : calls[j].page /\ calls[j].tab = t => calls[j].kind = "logout"
      BY <2>1, PendingCall DEF PageCalls
    <2>4. \A j \in Pending : calls[j].page /\ calls[j].tab = t => t \in twice'
      BY <2>1, <2>3 DEF Of
    <2>5. twice \subseteq twice'
      BY <2>1
    <2>6. PageCalls'
      BY <2>1, <2>2, <2>5 DEF PageCalls
    <2>7. Alone'
      BY <2>2, <2>3, <2>4, <2>5 DEF Alone
    <2> QED
      BY <2>6, <2>7
  <1>4. ASSUME NEW i \in Pending, Serve(i) \/ LoseAnswer(i) PROVE PageCalls' /\ Alone'
    BY <1>4, ServerStep, FewerKeeps DEF tabs, history
  <1>5. ASSUME NEW i \in Pending, Handle(i) PROVE PageCalls' /\ Alone'
    <2>0. /\ calls' = Forget(i) /\ twice' = twice
      BY <1>5 DEF Handle, SessionAnswer, LoginAnswer, LogoutAnswer, OrphanAnswer, history
    <2>1. /\ DOMAIN calls' = DOMAIN calls /\ calls'[i] = Over
          /\ \A j \in DOMAIN calls : j # i => calls'[j] = calls[j]
      BY <2>0, CallForgotten
    <2>2. \A j \in Pending' : j \in Pending /\ j # i /\ calls'[j] = calls[j]
      BY <2>1 DEF Pending
    <2>3. Alone'
      BY <2>0, <2>2 DEF Alone
    <2>4. \A j \in Pending : calls[j].tab \in Tab
      BY PendingCall
    <2> DEFINE t == calls[i].tab
    <2>5. ASSUME calls[i].page, NEW j \in Pending, j # i, calls[j].page, calls[j].tab = t
          PROVE  /\ calls[j].kind # "session"
                 /\ ~(calls[i].kind = "login" /\ calls[j].kind = "login")
                 /\ calls[i].kind = "logout" /\ calls[j].kind = "logout" => t \in twice
                 /\ calls[i].kind # "session"
      BY <2>5 DEF Alone
    <2>6. CASE SessionAnswer(i)
      <3>1. /\ calls[i].page /\ calls[i].kind = "session"
            /\ \A u \in Tab : u # t => authenticated'[u] = authenticated[u]
            /\ UNCHANGED <<csrf, busy>>
        BY <2>6 DEF SessionAnswer, Ready, TypeOK
      <3> QED
        BY <2>0, <2>2, <2>3, <2>4, <2>5, <3>1 DEF PageCalls
    <2>7. CASE LoginAnswer(i)
      <3>1. /\ calls[i].page /\ calls[i].kind = "login" /\ authenticated[t] = "false"
            /\ \A u \in Tab : u # t => /\ authenticated'[u] = authenticated[u]
                                       /\ csrf'[u] = csrf[u] /\ busy'[u] = busy[u]
        BY <2>4, <2>7 DEF LoginAnswer, setCsrf, Ready, TypeOK, PageCalls
      <3>2. \A j \in Pending' : calls'[j].page /\ calls'[j].tab = t =>
               calls'[j].kind = "logout" /\ t \in twice
        BY <2>2, <2>5, <3>1, PendingCall DEF PageCalls
      <3> QED
        BY <2>0, <2>2, <2>3, <2>4, <3>1, <3>2 DEF PageCalls
    <2>8. CASE LogoutAnswer(i)
      <3>1. /\ calls[i].page /\ calls[i].kind = "logout"
            /\ authenticated'[t] \in {"false", authenticated[t]}
            /\ \A u \in Tab : u # t => authenticated'[u] = authenticated[u]
            /\ UNCHANGED <<csrf, busy>>
        BY <2>4, <2>8 DEF LogoutAnswer, Ready, TypeOK
      <3>2. \A j \in Pending' : calls'[j].page /\ calls'[j].tab = t =>
               /\ calls'[j].kind # "session"
               /\ calls'[j].kind = "logout" => t \in twice
        BY <2>2, <2>5, <3>1
      <3> QED
        BY <2>0, <2>2, <2>3, <2>4, <3>1, <3>2 DEF PageCalls
    <2>9. CASE OrphanAnswer(i)
      <3>1. UNCHANGED <<authenticated, csrf, busy>>
        BY <2>9 DEF OrphanAnswer, tabs
      <3> QED
        BY <2>0, <2>2, <2>3, <3>1 DEF PageCalls
    <2> QED
      BY <1>5, <2>6, <2>7, <2>8, <2>9 DEF Handle
  <1>6. ASSUME NEW s \in Session, Expire(s) PROVE PageCalls' /\ Alone'
    BY <1>6 DEF Expire, tabs, history, PageCalls, Alone, Pending
  <1>7. CASE UNCHANGED vars
    BY <1>7 DEF vars, tabs, history, PageCalls, Alone, Pending
  <1> QED
    BY <1>1, <1>2, <1>3, <1>4, <1>5, <1>6, <1>7 DEF Next

-----------------------------------------------------------------------------
(* Logouts and tokens                                                      *)

\* Logouts survives when the logouts under way stay as they are and no session
\* comes back to life.
LEMMA LogoutsKept ==
    ASSUME IInv, issued \subseteq issued', issued \cap live' \subseteq live,
           \A j \in Pending' : calls'[j].kind = "logout" =>
              \/ calls'[j].stage = "sent"
              \/ calls'[j].stage = "answered" /\ ~calls'[j].ok
              \/ /\ j \in Pending /\ calls[j].kind = "logout"
                 /\ calls'[j].csrf = calls[j].csrf /\ calls'[j].cookie = calls[j].cookie
                 /\ calls'[j].stage = calls[j].stage /\ calls'[j].ok = calls[j].ok
    PROVE  Logouts'
  BY DEF IInv, Logouts

\* No step lets the session of a logout that was answered come back.
LEMMA LogoutsStep ==
    ASSUME IInv, [Next]_vars
    PROVE  Logouts'
  <1>0. TypeOK
    BY DEF IInv
  <1>1. ASSUME NEW t \in Tab, LoadPage(t) \/ CloseTab(t) PROVE Logouts'
    <2>1. UNCHANGED <<issued, live>>
      BY <1>1 DEF LoadPage, CloseTab, server
    <2> QED
      BY <1>1, <2>1, PageGone, LogoutsKept
  <1>2. ASSUME NEW t \in Tab, SubmitLogin(t) \/ ClickLogout(t) PROVE Logouts'
    <2>1. UNCHANGED <<issued, live>> /\ \E kind \in {"login", "logout"} : Send(t, kind, csrf[t])
      BY <1>2 DEF SubmitLogin, ClickLogout, server
    <2> QED
      BY <2>1, PageSends, LogoutsKept
  <1>3. ASSUME NEW i \in Pending, Serve(i) \/ LoseAnswer(i) PROVE Logouts'
    <2>1. \A j \in Pending' : j # i => j \in Pending /\ calls'[j] = calls[j]
      BY <1>0, <1>3, ServerStep DEF Pending
    <2>2. i \in Pending' => calls'[i].kind = calls[i].kind /\ calls'[i].csrf = calls[i].csrf
      BY <1>0, <1>3, ServerStep DEF Fewer
    <2>3. live \subseteq issued /\ issued \subseteq Session
      BY <1>0 DEF TypeOK
    <2>4. CASE ServeSession(i) \/ ServeLogin(i)
      <3>1. calls[i].kind # "logout" /\ issued \subseteq issued' /\ issued \cap live' \subseteq live
        BY <2>3, <2>4 DEF ServeSession, ServeLogin, server
      <3> QED
        BY <2>1, <2>2, <3>1, LogoutsKept
    <2>5. CASE ValidateLogout(i)
      <3>1. UNCHANGED <<issued, live>>
        BY <2>5 DEF ValidateLogout, server
      <3>2. CASE calls[i].cookie \in live /\ calls[i].csrf = calls[i].cookie
        <4>1. calls'[i].stage = "validated" /\ calls'[i].cookie = calls[i].cookie
          BY <1>0, <2>5, <3>2, CallValidated DEF ValidateLogout
        <4> QED
          BY <2>1, <2>2, <2>3, <3>1, <3>2, <4>1 DEF IInv, Logouts
      <3>3. CASE ~(calls[i].cookie \in live /\ calls[i].csrf = calls[i].cookie)
        <4>1. calls'[i].stage = "answered" /\ calls'[i].ok = FALSE
          BY <1>0, <2>5, <3>3, CallAnswered DEF ValidateLogout
        <4> QED
          BY <2>1, <3>1, <4>1, LogoutsKept
      <3> QED
        BY <3>2, <3>3
    <2>6. CASE RevokeSession(i)
      <3>1. /\ calls[i].kind = "logout" /\ calls[i].stage = "validated"
            /\ issued' = issued /\ live' = live \ {calls[i].cookie}
            /\ \E ok \in BOOLEAN : calls' = Answered(i, ok, Nothing)
        BY <2>6 DEF RevokeSession
      <3>2. calls'[i].stage = "answered"
        BY <1>0, <3>1, CallAnswered
      <3>3. calls[i].csrf \in issued' \ live'
        BY <3>1 DEF IInv, Logouts
      <3> QED
        BY <2>1, <2>2, <3>1, <3>2, <3>3 DEF IInv, Logouts
    <2>7. CASE Refuse(i) \/ LoseAnswer(i)
      <3>1. UNCHANGED <<issued, live>> /\ calls' = Answered(i, FALSE, Nothing)
        BY <2>7 DEF Refuse, LoseAnswer, server
      <3>2. calls'[i].stage = "answered" /\ calls'[i].ok = FALSE
        BY <1>0, <3>1, CallAnswered
      <3> QED
        BY <2>1, <3>1, <3>2, LogoutsKept
    <2> QED
      BY <1>3, <2>4, <2>5, <2>6, <2>7 DEF Serve
  <1>4. ASSUME NEW i \in Pending, Handle(i) PROVE Logouts'
    <2>1. calls' = Forget(i) /\ UNCHANGED <<issued, live>>
      BY <1>4 DEF Handle, SessionAnswer, LoginAnswer, LogoutAnswer, OrphanAnswer, server
    <2>2. \A j \in Pending' : j \in Pending /\ calls'[j] = calls[j]
      BY <1>0, <2>1, CallForgotten DEF Pending
    <2> QED
      BY <2>1, <2>2, LogoutsKept
  <1>5. ASSUME NEW s \in Session, Expire(s) PROVE Logouts'
    <2>1. issued' = issued /\ live' \subseteq live /\ calls' = calls /\ Pending' = Pending
      BY <1>5 DEF Expire, Pending
    <2> QED
      BY <2>1, LogoutsKept
  <1>6. CASE UNCHANGED vars
    BY <1>6 DEF vars, server, IInv, Logouts, Pending
  <1> QED
    BY <1>1, <1>2, <1>3, <1>4, <1>5, <1>6 DEF Next

\* The owner of the cookie keeps its token: the steps that change the cookie, or
\* the token of a tab, also say who the owner is.
LEMMA TokenStep ==
    ASSUME IInv, [Next]_vars
    PROVE  TokenFits'
  <1>0. TypeOK /\ TokenFits
    BY DEF IInv
  <1>1. ASSUME NEW t \in Tab, LoadPage(t) PROVE TokenFits'
    BY <1>0, <1>1 DEF LoadPage, TokenFits, TypeOK
  <1>2. ASSUME NEW t \in Tab, CloseTab(t) PROVE TokenFits'
    BY <1>0, <1>2, PanelSessionAssumption DEF CloseTab, TokenFits, TypeOK
  <1>3. ASSUME NEW t \in Tab, SubmitLogin(t) \/ ClickLogout(t) PROVE TokenFits'
    BY <1>0, <1>3 DEF SubmitLogin, ClickLogout, tabs, history, TokenFits
  <1>4. ASSUME NEW i \in Pending, Serve(i) \/ LoseAnswer(i) PROVE TokenFits'
    <2>1. UNCHANGED <<cookie, tabs, history>>
      BY <1>0, <1>4, ServerStep
    <2> QED
      BY <1>0, <2>1 DEF tabs, history, TokenFits
  <1>5. ASSUME NEW i \in Pending, Handle(i) PROVE TokenFits'
    <2>1. calls[i].tab \in Tab
      BY <1>0, PendingCall
    <2>2. CASE SessionAnswer(i)
      BY <1>0, <2>2 DEF SessionAnswer, history, TokenFits
    <2>3. CASE LoginAnswer(i)
      BY <1>0, <2>1, <2>3 DEF LoginAnswer, setCsrf, TokenFits, TypeOK
    <2>4. CASE LogoutAnswer(i)
      BY <1>0, <2>4, PanelSessionAssumption DEF LogoutAnswer, TokenFits
    <2>5. CASE OrphanAnswer(i)
      BY <1>0, <2>5, PanelSessionAssumption DEF OrphanAnswer, tabs, TokenFits
    <2> QED
      BY <1>5, <2>2, <2>3, <2>4, <2>5 DEF Handle
  <1>6. ASSUME NEW s \in Session, Expire(s) PROVE TokenFits'
    BY <1>0, <1>6 DEF Expire, tabs, history, TokenFits
  <1>7. CASE UNCHANGED vars
    BY <1>0, <1>7 DEF vars, tabs, history, TokenFits
  <1> QED
    BY <1>1, <1>2, <1>3, <1>4, <1>5, <1>6, <1>7 DEF Next

-----------------------------------------------------------------------------
(* Theorems                                                                *)

\* The invariant holds in every reachable state.
THEOREM InductiveInvariant == Spec => []IInv
  <1>1. IInv /\ [Next]_vars => IInv'
    <2> SUFFICES ASSUME IInv, [Next]_vars PROVE IInv'
      OBVIOUS
    <2>1. TypeOK'
      BY TypeStep DEF IInv
    <2>2. PageCalls' /\ Alone' /\ Logouts' /\ TokenFits'
      BY PagesStep, LogoutsStep, TokenStep
    <2> QED
      BY <2>1, <2>2 DEF IInv
  <1> QED
    BY InitInv, <1>1, PTL DEF Spec

\* The variables of the browser, of the server and of the network keep their types:
\* the live sessions are among those issued, and no tab shows anything but the
\* spinner, the login form or the shell.
THEOREM TypeCorrect == Spec => []TypeOK
  <1>1. IInv => TypeOK
    BY DEF IInv
  <1> QED
    BY InductiveInvariant, <1>1, PTL

\* TokenKept, for any number of tabs, sessions and calls: the tab that logged the
\* browser in holds the CSRF token of the cookie, in memory and in sessionStorage.
THEOREM TokenAlwaysKept == Spec => []TokenKept
  <1>1. IInv => TokenKept
    BY DEF IInv, TokenFits, TokenKept
  <1> QED
    BY InductiveInvariant, <1>1, PTL

\* LogoutEndsSession, for any number of tabs, sessions and calls: the login form
\* replaces the shell only on the answer of a logout that the server carried out.
THEOREM LogoutEnds == Spec => LogoutEndsSession
  <1> DEFINE Left(t) == authenticated[t] = "true" /\ authenticated'[t] = "false"
             Ends(t) == cookie' \notin live' /\ (csrf'[t] \in live' => t \in twice)
  <1>1. ASSUME IInv, [Next]_vars, NEW t \in Tab, Left(t) PROVE Ends(t)
    <2>0. TypeOK
      BY <1>1 DEF IInv
    <2>1. PICK i \in Pending : LogoutAnswer(i) /\ calls[i].tab = t /\ calls[i].ok
      <3>1. ASSUME NEW u \in Tab, LoadPage(u) \/ CloseTab(u) \/ SubmitLogin(u) \/ ClickLogout(u)
            PROVE  FALSE
        BY <1>1, <2>0, <3>1 DEF LoadPage, CloseTab, SubmitLogin, ClickLogout, tabs, TypeOK
      <3>2. ASSUME NEW i \in Pending, Serve(i) \/ LoseAnswer(i) PROVE FALSE
        <4>1. UNCHANGED tabs
          BY <2>0, <3>2, ServerStep
        <4> QED
          BY <1>1, <4>1 DEF tabs
      <3>3. ASSUME NEW i \in Pending, Handle(i)
            PROVE  LogoutAnswer(i) /\ calls[i].tab = t /\ calls[i].ok
        <4>1. CASE SessionAnswer(i)
          <5>1. calls[i].tab # t
            BY <1>1, <4>1 DEF SessionAnswer, Ready, IInv, PageCalls
          <5> QED
            BY <1>1, <2>0, <4>1, <5>1 DEF SessionAnswer, TypeOK
        <4>2. CASE LoginAnswer(i)
          BY <1>1, <2>0, <4>2 DEF LoginAnswer, TypeOK
        <4>3. CASE LogoutAnswer(i)
          BY <1>1, <2>0, <4>3 DEF LogoutAnswer, TypeOK
        <4>4. CASE OrphanAnswer(i)
          BY <1>1, <4>4 DEF OrphanAnswer, tabs
        <4> QED
          BY <3>3, <4>1, <4>2, <4>3, <4>4 DEF Handle
      <3>4. ASSUME NEW s \in Session, Expire(s) PROVE FALSE
        BY <1>1, <3>4 DEF Expire, tabs
      <3>5. ~UNCHANGED vars
        BY <1>1 DEF vars, tabs
      <3> QED
        BY <1>1, <3>1, <3>2, <3>3, <3>4, <3>5 DEF Next
    <2>2. /\ calls[i].kind = "logout" /\ calls[i].stage = "answered" /\ calls[i].page
          /\ cookie' = Nothing /\ csrf' = csrf /\ live' = live
      BY <2>1 DEF LogoutAnswer, Ready, server
    <2>3. cookie' \notin live'
      BY <2>0, <2>2, PanelSessionAssumption DEF TypeOK
    <2>4. calls[i].csrf \notin live
      BY <1>1, <2>1, <2>2 DEF IInv, Logouts
    <2>5. t \in twice \/ csrf[t] = calls[i].csrf
      BY <1>1, <2>1, <2>2 DEF IInv, PageCalls
    <2> QED
      BY <2>2, <2>3, <2>4, <2>5
  <1>2. IInv /\ [Next]_vars =>
          [\A t \in Tab : authenticated[t] = "true" /\ authenticated'[t] = "false" =>
                /\ cookie' \notin live'
                /\ csrf'[t] \in live' => t \in twice]_vars
    BY <1>1
  <1> QED
    BY InductiveInvariant, <1>2, PTL DEF Spec, LogoutEndsSession
=============================================================================
