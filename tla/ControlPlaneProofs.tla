------------------------- MODULE ControlPlaneProofs -------------------------
(***************************************************************************)
(* Theorems about ControlPlane, for any applications, capabilities,        *)
(* credentials, limits and handlers and any faults: its types, the         *)
(* invariants of the registry and of the audit trail, and what activation  *)
(* and a restart may do.                                                   *)
(***************************************************************************)
EXTENDS ControlPlane, SequenceTheorems, TLAPS

-----------------------------------------------------------------------------
(* The inductive invariant                                                 *)

Operation == [kind : {"none", "create", "update", "credential", "revoke"}, app : App,
              cred : Cred \cup {AnyCred}, payload : Payload]
Action == {"application.create", "application.update", "application.status_change",
           "application.capability_change", "application.quota_change", "credential.create",
           "credential.revoke"}
Event == Action \X {"success", "failed", "denied"}

\* The types of what a handler carries from one transaction to the next.
LocalsOK ==
    /\ op \in [Handler -> Operation]
    /\ todo \in [Handler -> Seq(Event)]

\* Who is past the first read works on an application that is not protected.
Allowed ==
    \A h \in Handler : pc[h] \in {"count", "write", "insert"} => ~Protected(op[h].app)

\* Who is about to activate has a payload that names capabilities and limits.
Activating ==
    \A h \in Handler : pc[h] \in {"count", "write"} /\ op[h].payload.state = "active" =>
        ActivationPayload(op[h].payload)

\* Who is about to write an activation found a credential, which is still there
\* or was revoked since.
Counted ==
    \A h \in Handler : pc[h] = "write" /\ op[h].payload.state = "active" =>
        Legacy(op[h].app) \/ ActiveCredentials(op[h].app) # {} \/ h \in stripped

\* The events still to be written are as true as those that were.
Announced ==
    \A h \in Handler :
        /\ pc[h] = "result" => h \in mutated
        /\ pc[h] = "audit" =>
              /\ todo[h] # <<>>
              /\ \A i \in DOMAIN todo[h] : todo[h][i][2] = "success" => h \in mutated

\* A handler that committed a change still has its trace to leave, was cut short,
\* or has left it.
Traced ==
    \A h \in mutated : \/ pc[h] \in {"result", "audit"}
                       \/ h \in broken
                       \/ \E e \in audit : e[1] = h

Registry == CapabilitiesHaveQuota /\ ProtectedUntouched /\ Allowed /\ Activating /\ Counted
Trail == AuditTruthful /\ Announced /\ Traced

IInv == TypeOK /\ LocalsOK /\ Registry /\ Trail

-----------------------------------------------------------------------------
(* Operators                                                               *)

\* The neutral values have the types of what they stand for.
LEMMA NeutralValues == NoOp \in Operation /\ NoPayload \in Payload /\ NoQuota \in [Cap -> 0..MaxLimit]
  <1>1. NoQuota \in [Cap -> 0..MaxLimit]
    BY ControlPlaneAssumption DEF NoQuota
  <1>2. NoPayload \in Payload
    <2>1. /\ NoPayload \in [state : {"active", "disabled"}, caps : SUBSET Cap, quota : [Cap -> 0..MaxLimit]]
          /\ \A c \in Cap : NoPayload.quota[c] = 0
      BY <1>1 DEF NoPayload, NoQuota
    <2>2. QED
      BY <2>1 DEF Payload
  <1> QED
    BY <1>1, <1>2, ControlPlaneAssumption DEF NoOp, Op, Operation

\* The operation a request asks for.
LEMMA OpType ==
    ASSUME NEW kind \in {"create", "update", "credential", "revoke"}, NEW a \in App,
           NEW c \in Cred \cup {AnyCred}, NEW p \in Payload
    PROVE  Op(kind, a, c, p) \in Operation
  BY DEF Op, Operation

\* One or two events in a row.
LEMMA OneEvent ==
    ASSUME NEW action \in Action, NEW outcome \in {"success", "failed", "denied"}
    PROVE  LET q == <<<<action, outcome>>>>
           IN  q \in Seq(Event) /\ Len(q) = 1 /\ q # <<>> /\ q[1][2] = outcome
                  /\ \A i \in DOMAIN q : q[i][2] = outcome
  BY DEF Event

\* An update announces at least one event, and only successes.
LEMMA UpdateEventsType ==
    ASSUME NEW before, NEW after
    PROVE  LET q == UpdateEvents(before, after)
           IN  q \in Seq(Action \X {"success"}) /\ q # <<>>
  <1> DEFINE S == Action \X {"success"}
             q1 == <<<<"application.update", "success">>>>
             q2 == IF before.state # after.state
                     THEN <<<<"application.status_change", "success">>>> ELSE <<>>
             q3 == IF before.caps # after.caps
                     THEN <<<<"application.capability_change", "success">>>> ELSE <<>>
             q4 == IF before.quota # after.quota
                     THEN <<<<"application.quota_change", "success">>>> ELSE <<>>
  <1>1. UpdateEvents(before, after) = ((q1 \o q2) \o q3) \o q4
    BY DEF UpdateEvents
  <1>2. q1 \in Seq(S) /\ Len(q1) = 1 /\ q2 \in Seq(S) /\ q3 \in Seq(S) /\ q4 \in Seq(S)
    <2>1. \A e \in S : <<e>> \in Seq(S) /\ Len(<<e>>) = 1
      OBVIOUS
    <2>2. /\ <<"application.update", "success">> \in S
          /\ <<"application.status_change", "success">> \in S
          /\ <<"application.capability_change", "success">> \in S
          /\ <<"application.quota_change", "success">> \in S
      BY DEF Action
    <2>3. <<>> \in Seq(S)
      OBVIOUS
    <2> HIDE DEF S
    <2>4. q1 \in Seq(S) /\ Len(q1) = 1
      BY <2>1, <2>2, Zenon
    <2>5. q2 \in Seq(S)
      BY <2>1, <2>2, <2>3, Zenon
    <2>6. q3 \in Seq(S)
      BY <2>1, <2>2, <2>3, Zenon
    <2>7. q4 \in Seq(S)
      BY <2>1, <2>2, <2>3, Zenon
    <2> QED
      BY <2>4, <2>5, <2>6, <2>7, Zenon
  <1> HIDE DEF S, q1, q2, q3, q4
  <1>3. q1 \o q2 \in Seq(S) /\ Len(q1 \o q2) >= 1
    BY <1>2, ConcatProperties, LenProperties
  <1>4. (q1 \o q2) \o q3 \in Seq(S) /\ Len((q1 \o q2) \o q3) >= 1
    BY <1>2, <1>3, ConcatProperties, LenProperties
  <1>5. ((q1 \o q2) \o q3) \o q4 \in Seq(S) /\ Len(((q1 \o q2) \o q3) \o q4) >= 1
    BY <1>2, <1>4, ConcatProperties, LenProperties
  <1>6. ((q1 \o q2) \o q3) \o q4 # <<>>
    BY <1>5, EmptySeq
  <1> QED
    BY <1>1, <1>5, <1>6 DEF S

-----------------------------------------------------------------------------
(* Types                                                                   *)

Typed == TypeOK /\ LocalsOK

\* The types hold after a bootstrap.
LEMMA InitTyped == Init => Typed
  BY ControlPlaneAssumption, NeutralValues
     DEF Init, Typed, TypeOK, LocalsOK, States, PC, Done, NoQuota

\* A handler that starts, goes on, returns or is about to audit: what it carries
\* keeps its type, and the other handlers are not touched.
LEMMA HandlerMoves ==
    ASSUME Typed, NEW h \in Handler, NEW label \in PC, Goto(h, label),
           \/ op' = op
           \/ \E o \in Operation : op' = [op EXCEPT ![h] = o],
           \/ todo' = todo
           \/ \E q \in Seq(Event) : todo' = [todo EXCEPT ![h] = q]
    PROVE  /\ pc' \in [Handler -> PC] /\ LocalsOK'
           /\ pc'[h] = label
           /\ \A g \in Handler : g # h => pc'[g] = pc[g] /\ op'[g] = op[g] /\ todo'[g] = todo[g]
  BY DEF Typed, TypeOK, LocalsOK, Goto

\* A handler that returns carries nothing any more.
LEMMA HandlerEnds ==
    ASSUME Typed, NEW h \in Handler, NEW label \in Done, Finish(h, label)
    PROVE  /\ pc' \in [Handler -> PC] /\ LocalsOK'
           /\ pc'[h] = label
           /\ \A g \in Handler : g # h => pc'[g] = pc[g] /\ op'[g] = op[g] /\ todo'[g] = todo[g]
  <1>1. label \in PC /\ <<>> \in Seq(Event)
    BY DEF PC
  <1> QED
    BY <1>1, HandlerMoves, NeutralValues DEF Finish

\* A handler that goes on to audit carries the events it was given.
LEMMA HandlerAudits ==
    ASSUME Typed, NEW h \in Handler, NEW q \in Seq(Event), ThenAudit(h, q)
    PROVE  /\ pc' \in [Handler -> PC] /\ LocalsOK'
           /\ pc'[h] = "audit" /\ todo'[h] = q
           /\ \A g \in Handler : g # h => pc'[g] = pc[g] /\ op'[g] = op[g] /\ todo'[g] = todo[g]
  <1>1. "audit" \in PC
    BY DEF PC
  <1>2. todo'[h] = q
    BY DEF ThenAudit, Typed, LocalsOK
  <1> QED
    BY <1>1, <1>2, HandlerMoves DEF ThenAudit

\* What a step of handler h leaves alone: the other handlers, and every history.
Others(h) ==
    /\ running /\ running' = running
    /\ \A g \in Handler : g # h => pc'[g] = pc[g] /\ op'[g] = op[g] /\ todo'[g] = todo[g]
    /\ mutated \subseteq mutated' /\ mutated' \subseteq mutated \cup {h}
    /\ broken \subseteq broken' /\ audit \subseteq audit' /\ stripped \subseteq stripped'

\* A handler starts.
LEMMA StartStep ==
    ASSUME Typed, NEW h \in Handler, Start(h)
    PROVE  /\ Typed' /\ Others(h) /\ pc'[h] \in {"create", "read", "revoke"}
           /\ UNCHANGED <<tables, audit, history>>
  <1>1. PICK o \in Operation, label \in {"create", "read", "revoke"} : Begin(h, o, label)
    <2>1. AnyCred \in Cred \cup {AnyCred} /\ NoPayload \in Payload
      BY NeutralValues
    <2>2. CASE \E a \in App : BeginCreateApplication(h, a)
      BY <2>1, <2>2, OpType DEF BeginCreateApplication
    <2>3. CASE \E a \in App, p \in Payload : BeginUpdateApplication(h, a, p)
      BY <2>1, <2>3, OpType DEF BeginUpdateApplication
    <2>4. CASE \E a \in App : BeginCreateCredential(h, a)
      BY <2>1, <2>4, OpType DEF BeginCreateCredential
    <2>5. CASE \E c \in issued : BeginRevokeCredential(h, c)
      BY <2>1, <2>5, OpType, ControlPlaneAssumption DEF BeginRevokeCredential, Typed, TypeOK
    <2> QED
      BY <2>2, <2>3, <2>4, <2>5 DEF Start
  <1>2. label \in PC
    BY DEF PC
  <1>3. /\ pc' \in [Handler -> PC] /\ LocalsOK' /\ pc'[h] = label
        /\ \A g \in Handler : g # h => pc'[g] = pc[g] /\ op'[g] = op[g] /\ todo'[g] = todo[g]
    BY <1>1, <1>2, HandlerMoves DEF Begin
  <1> QED
    BY <1>1, <1>3 DEF Begin, At, Others, tables, history, Typed, TypeOK

\* A handler goes on.
LEMMA GoesOn ==
    ASSUME Typed, Announced, NEW h \in Handler, Step(h) \/ StoreFails(h)
    PROVE  Typed' /\ Others(h)
  <1>0. op[h] \in Operation /\ op[h].app \in App /\ op[h].payload \in Payload
    BY DEF Typed, LocalsOK, Operation
  <1>1. CASE CreateApplication(h)
    <2>1. PICK outcome \in {"success", "failed"} :
             ThenAudit(h, <<<<"application.create", outcome>>>>)
      BY <1>1 DEF CreateApplication
    <2>2. <<<<"application.create", outcome>>>> \in Seq(Event)
      BY OneEvent DEF Action
    <2>3. /\ pc' \in [Handler -> PC] /\ LocalsOK'
          /\ \A g \in Handler : g # h => pc'[g] = pc[g] /\ op'[g] = op[g] /\ todo'[g] = todo[g]
      BY <2>1, <2>2, HandlerAudits
    <2>4. state' \in [App -> States] /\ mutated' \in {mutated, mutated \cup {h}}
      BY <1>0, <1>1 DEF CreateApplication, States, Typed, TypeOK
    <2> QED
      BY <1>1, <2>3, <2>4 DEF CreateApplication, At, Others, Typed, TypeOK
  <1>2. CASE ReadApplication(h)
    <2>1. /\ pc' \in [Handler -> PC] /\ LocalsOK'
          /\ \A g \in Handler : g # h => pc'[g] = pc[g] /\ op'[g] = op[g] /\ todo'[g] = todo[g]
      <3>1. CASE Reject(h)
        BY <3>1, HandlerEnds DEF Reject, Done
      <3>2. CASE \E q \in Seq(Event) : ThenAudit(h, q)
        BY <3>2, HandlerAudits
      <3>3. CASE \E label \in PC : Goto(h, label) /\ UNCHANGED <<op, todo>>
        BY <3>3, HandlerMoves
      <3>4. /\ <<<<"application.update", "denied">>>> \in Seq(Event)
            /\ <<<<"credential.create", "denied">>>> \in Seq(Event)
        BY OneEvent DEF Action
      <3> QED
        BY <1>2, <3>1, <3>2, <3>3, <3>4 DEF ReadApplication, PC
    <2> QED
      BY <1>2, <2>1 DEF ReadApplication, At, Others, tables, history, Typed, TypeOK
  <1>3. CASE CountCredentials(h) \/ PepperUnreadable(h)
    <2>1. Reject(h) \/ Continue(h, "write")
      BY <1>3 DEF CountCredentials, PepperUnreadable
    <2>2. /\ pc' \in [Handler -> PC] /\ LocalsOK'
          /\ \A g \in Handler : g # h => pc'[g] = pc[g] /\ op'[g] = op[g] /\ todo'[g] = todo[g]
      BY <2>1, HandlerEnds, HandlerMoves DEF Reject, Continue, locals, Done, PC
    <2> QED
      BY <1>3, <2>2 DEF CountCredentials, PepperUnreadable, At, Others, tables, history, Typed, TypeOK
  <1>4. CASE WriteUpdate(h)
    <2>1. /\ pc' \in [Handler -> PC] /\ LocalsOK'
          /\ \A g \in Handler : g # h => pc'[g] = pc[g] /\ op'[g] = op[g] /\ todo'[g] = todo[g]
      BY <1>4, HandlerEnds, HandlerMoves DEF WriteUpdate, Reject, Continue, locals, Done, PC
    <2>2. /\ state' \in [App -> States] /\ caps' \in [App -> SUBSET Cap]
          /\ quota' \in [App -> [Cap -> 0..MaxLimit]]
          /\ mutated' \in {mutated, mutated \cup {h}}
      <3> DEFINE a == op[h].app
                 p == op[h].payload
                 q == [c \in Cap |-> IF c \in p.caps THEN p.quota[c] ELSE quota[a][c]]
      <3>1. /\ a \in App /\ p.state \in States /\ p.caps \in SUBSET Cap
            /\ p.quota \in [Cap -> 0..MaxLimit]
        BY <1>0 DEF Payload, States
      <3>2. quota[a] \in [Cap -> 0..MaxLimit]
        BY <3>1 DEF Typed, TypeOK
      <3>3. q \in [Cap -> 0..MaxLimit]
        BY <3>1, <3>2
      <3>4. \/ UNCHANGED <<state, caps, quota, mutated>>
            \/ /\ state' = [state EXCEPT ![a] = p.state]
               /\ caps' = [caps EXCEPT ![a] = p.caps]
               /\ quota' = [quota EXCEPT ![a] = q]
               /\ mutated' = mutated \cup {h}
        BY <1>4 DEF WriteUpdate
      <3> HIDE DEF a, p, q
      <3>5. /\ state \in [App -> States] /\ caps \in [App -> SUBSET Cap]
            /\ quota \in [App -> [Cap -> 0..MaxLimit]]
        BY DEF Typed, TypeOK
      <3>6. state' \in [App -> States]
        BY <3>1, <3>4, <3>5
      <3>7. caps' \in [App -> SUBSET Cap]
        BY <3>1, <3>4, <3>5
      <3>8. quota' \in [App -> [Cap -> 0..MaxLimit]]
        BY <3>1, <3>3, <3>4, <3>5
      <3> QED
        BY <3>4, <3>6, <3>7, <3>8
    <2> QED
      BY <1>4, <2>1, <2>2 DEF WriteUpdate, At, Others, Typed, TypeOK
  <1>5. CASE ReadResult(h)
    <2>1. PICK q \in Seq(Event) : ThenAudit(h, q)
      <3>1. UpdateEvents(seen[h], Row(op[h].app)) \in Seq(Action \X {"success"})
        BY UpdateEventsType
      <3>2. Action \X {"success"} \subseteq Event
        BY DEF Event
      <3>3. UpdateEvents(seen[h], Row(op[h].app)) \in Seq(Event)
        BY <3>1, <3>2, SeqMonotonic
      <3> QED
        BY <1>5, <3>3 DEF ReadResult
    <2>2. /\ pc' \in [Handler -> PC] /\ LocalsOK'
          /\ \A g \in Handler : g # h => pc'[g] = pc[g] /\ op'[g] = op[g] /\ todo'[g] = todo[g]
      BY <2>1, HandlerAudits
    <2> QED
      BY <1>5, <2>2 DEF ReadResult, At, Others, tables, history, Typed, TypeOK
  <1>6. CASE InsertCredential(h)
    <2>1. <<<<"credential.create", "success">>>> \in Seq(Event)
      BY OneEvent DEF Action
    <2>2. /\ pc' \in [Handler -> PC] /\ LocalsOK'
          /\ \A g \in Handler : g # h => pc'[g] = pc[g] /\ op'[g] = op[g] /\ todo'[g] = todo[g]
      BY <1>6, <2>1, HandlerAudits DEF InsertCredential
    <2>3. issued' \in SUBSET Cred /\ owner' \in [Cred -> App] /\ live' \in SUBSET issued'
      BY <1>0, <1>6 DEF InsertCredential, Typed, TypeOK
    <2> QED
      BY <1>6, <2>2, <2>3 DEF InsertCredential, At, Others, Typed, TypeOK
  <1>7. CASE RevokeCredential(h)
    <2>1. <<<<"credential.revoke", "success">>>> \in Seq(Event)
      BY OneEvent DEF Action
    <2>2. /\ pc' \in [Handler -> PC] /\ LocalsOK'
          /\ \A g \in Handler : g # h => pc'[g] = pc[g] /\ op'[g] = op[g] /\ todo'[g] = todo[g]
      BY <1>7, <2>1, HandlerAudits, HandlerEnds DEF RevokeCredential, Reject, Done
    <2>3. live' \in SUBSET issued' /\ stripped \subseteq stripped' /\ stripped' \in SUBSET Handler
      BY <1>7 DEF RevokeCredential, Typed, TypeOK
    <2> QED
      BY <1>7, <2>2, <2>3 DEF RevokeCredential, At, Others, Typed, TypeOK
  <1>8. CASE WriteAudit(h)
    <2>1. /\ pc' \in [Handler -> PC] /\ LocalsOK'
          /\ \A g \in Handler : g # h => pc'[g] = pc[g] /\ op'[g] = op[g] /\ todo'[g] = todo[g]
      <3>1. CASE Finish(h, "done")
        BY <3>1, HandlerEnds DEF Done
      <3>2. CASE ThenAudit(h, Tail(todo[h]))
        <4>1. todo[h] \in Seq(Event) /\ todo[h] # <<>>
          BY <1>8 DEF WriteAudit, At, Announced, Typed, LocalsOK
        <4>2. Tail(todo[h]) \in Seq(Event)
          BY <4>1, HeadTailProperties
        <4> QED
          BY <3>2, <4>2, HandlerAudits
      <3> QED
        BY <1>8, <3>1, <3>2 DEF WriteAudit
    <2> QED
      BY <1>8, <2>1 DEF WriteAudit, At, Others, tables, history, Typed, TypeOK
  <1>9. CASE StoreFails(h)
    <2>1. /\ pc' \in [Handler -> PC] /\ LocalsOK'
          /\ \A g \in Handler : g # h => pc'[g] = pc[g] /\ op'[g] = op[g] /\ todo'[g] = todo[g]
      BY <1>9, HandlerEnds DEF StoreFails, Done
    <2> QED
      BY <1>9, <2>1 DEF StoreFails, Others, tables, Typed, TypeOK
  <1> QED
    BY <1>1, <1>2, <1>3, <1>4, <1>5, <1>6, <1>7, <1>8, <1>9 DEF Step

\* A crash and a bootstrap.
LEMMA RestartTyped ==
    ASSUME Typed, Crash \/ Bootstrap
    PROVE  Typed'
  <1>1. CASE Crash
    <2>1. pc' \in [Handler -> PC] /\ broken' \in SUBSET Handler
      BY <1>1 DEF Crash, Typed, TypeOK, PC, Done
    <2>2. LocalsOK'
      BY <1>1, NeutralValues DEF Crash, LocalsOK
    <2> QED
      BY <1>1, <2>1, <2>2 DEF Crash, tables, Typed, TypeOK
  <1>2. CASE Bootstrap
    <2>1. PICK l \in [Cap -> 1..MaxLimit] :
             quota' = [quota EXCEPT ![GgOferta] =
                         [c \in Cap |-> IF quota[GgOferta][c] = 0 THEN l[c] ELSE quota[GgOferta][c]]]
      BY <1>2 DEF Bootstrap
    <2> DEFINE q == [c \in Cap |-> IF quota[GgOferta][c] = 0 THEN l[c] ELSE quota[GgOferta][c]]
    <2>2. quota \in [App -> [Cap -> 0..MaxLimit]] /\ GgOferta \in App
      BY ControlPlaneAssumption DEF Typed, TypeOK
    <2>3. q \in [Cap -> 0..MaxLimit]
      BY <2>2, ControlPlaneAssumption
    <2>4. quota' = [quota EXCEPT ![GgOferta] = q]
      BY <2>1
    <2> HIDE DEF q
    <2>5. quota' \in [App -> [Cap -> 0..MaxLimit]]
      BY <2>2, <2>3, <2>4
    <2>6. caps' \in [App -> SUBSET Cap]
      BY <1>2, <2>2 DEF Bootstrap, Typed, TypeOK
    <2> QED
      BY <1>2, <2>5, <2>6 DEF Bootstrap, locals, history, Typed, TypeOK, LocalsOK
  <1> QED
    BY <1>1, <1>2

\* Every step keeps the types.
LEMMA TypedStep ==
    ASSUME IInv, [Next]_vars
    PROVE  Typed'
  <1>1. Typed /\ Announced
    BY DEF IInv, Trail, Typed
  <1>2. CASE UNCHANGED vars
    BY <1>1, <1>2 DEF vars, tables, locals, history, Typed, TypeOK, LocalsOK
  <1> QED
    BY <1>1, <1>2, StartStep, GoesOn, RestartTyped DEF Next

-----------------------------------------------------------------------------
(* The handlers                                                            *)

\* Where a step takes a handler, and what it checked on the way there.
LEMMA WhereTo ==
    ASSUME Typed, NEW h \in Handler, Step(h) \/ StoreFails(h)
    PROVE  LET a == op[h].app
               activating == op[h].payload.state = "active"
           IN  \/ pc'[h] \in Done \cup {"audit"}
               \/ WriteUpdate(h) /\ pc'[h] = "result" /\ h \in mutated'
               \/ /\ op' = op /\ pc'[h] \in {"count", "write"} /\ ~Protected(a)
                  /\ activating => ActivationPayload(op[h].payload)
                  /\ pc'[h] = "write" => ~activating \/ Legacy(a)
               \/ op' = op /\ pc'[h] = "insert" /\ ~Protected(a)
               \/ /\ op' = op /\ pc[h] = "count" /\ pc'[h] = "write"
                  /\ UNCHANGED tables /\ ActiveCredentials(a) # {}
  <1>0. pc \in [Handler -> PC]
    BY DEF Typed, TypeOK
  <1>1. CASE CreateApplication(h) \/ ReadResult(h) \/ InsertCredential(h)
    BY <1>0, <1>1 DEF CreateApplication, ReadResult, InsertCredential, ThenAudit, Goto
  <1>2. CASE RevokeCredential(h) \/ WriteAudit(h) \/ PepperUnreadable(h) \/ StoreFails(h)
    BY <1>0, <1>2 DEF RevokeCredential, WriteAudit, PepperUnreadable, StoreFails, ThenAudit, Reject,
                      Finish, Goto, Done
  <1>3. CASE ReadApplication(h)
    BY <1>0, <1>3 DEF ReadApplication, ThenAudit, Reject, Finish, Goto, Done
  <1>4. CASE CountCredentials(h)
    BY <1>0, <1>4 DEF CountCredentials, At, Continue, Reject, Finish, Goto, Done, locals
  <1>5. CASE WriteUpdate(h)
    BY <1>0, <1>5 DEF WriteUpdate, Continue, Reject, Finish, Goto, Done
  <1> QED
    BY <1>1, <1>2, <1>3, <1>4, <1>5 DEF Step

\* Allowed and Activating: the first read decides, nothing later changes what the
\* handler was asked to do.
LEMMA ChecksStep ==
    ASSUME IInv, [Next]_vars
    PROVE  Allowed' /\ Activating'
  <1>0. Typed /\ Announced /\ Allowed /\ Activating
    BY DEF IInv, Registry, Trail, Typed
  <1>1. ASSUME NEW h \in Handler, Start(h) PROVE Allowed' /\ Activating'
    BY <1>0, <1>1, StartStep DEF Others, Allowed, Activating
  <1>2. ASSUME NEW h \in Handler, Step(h) \/ StoreFails(h) PROVE Allowed' /\ Activating'
    <2>1. \A g \in Handler : g # h => pc'[g] = pc[g] /\ op'[g] = op[g]
      BY <1>0, <1>2, GoesOn DEF Others
    <2>2. /\ pc'[h] \in {"count", "write", "insert"} => ~Protected(op'[h].app)
          /\ pc'[h] \in {"count", "write"} /\ op'[h].payload.state = "active"
                => ActivationPayload(op'[h].payload)
      BY <1>0, <1>2, WhereTo DEF Allowed, Activating, Done
    <2>3. Allowed'
      BY <1>0, <2>1, <2>2 DEF Allowed, Protected
    <2>4. Activating'
      BY <1>0, <2>1, <2>2 DEF Activating, ActivationPayload
    <2> QED
      BY <2>3, <2>4
  <1>3. CASE Crash
    <2>1. \A h \in Handler : pc'[h] \notin {"count", "write", "insert"}
      BY <1>3 DEF Crash, Done
    <2> QED
      BY <2>1 DEF Allowed, Activating
  <1>4. CASE Bootstrap \/ UNCHANGED vars
    BY <1>0, <1>4 DEF Bootstrap, locals, vars, Allowed, Activating, Protected, ActivationPayload
  <1> QED
    BY <1>1, <1>2, <1>3, <1>4 DEF Next

-----------------------------------------------------------------------------
(* The registry                                                            *)

\* What an update that commits writes.
LEMMA UpdateWrites ==
    ASSUME Typed, NEW h \in Handler, WriteUpdate(h)
    PROVE  LET a == op[h].app
               p == op[h].payload
           IN  \/ UNCHANGED <<state, caps, quota>> /\ pc'[h] = "done"
               \/ /\ a \in App /\ p \in Payload /\ pc'[h] = "result"
                  /\ state' = [state EXCEPT ![a] = p.state]
                  /\ caps' = [caps EXCEPT ![a] = p.caps]
                  /\ \A b \in App : b # a => quota'[b] = quota[b]
                  /\ \A c \in p.caps : quota'[a][c] = p.quota[c] /\ p.quota[c] >= 1
  <1> DEFINE a == op[h].app
             p == op[h].payload
             q == [c \in Cap |-> IF c \in p.caps THEN p.quota[c] ELSE quota[a][c]]
  <1>1. a \in App /\ p \in Payload /\ pc \in [Handler -> PC]
    BY DEF Typed, TypeOK, LocalsOK, Operation
  <1>2. p.caps \in SUBSET Cap /\ p.quota \in [Cap -> 0..MaxLimit]
    BY <1>1 DEF Payload
  <1>3. CASE \E c \in p.caps : p.quota[c] = 0
    BY <1>1, <1>3 DEF WriteUpdate, Reject, Finish, Goto
  <1>4. CASE ~\E c \in p.caps : p.quota[c] = 0
    <2>1. /\ state' = [state EXCEPT ![a] = p.state]
          /\ caps' = [caps EXCEPT ![a] = p.caps]
          /\ quota' = [quota EXCEPT ![a] = q]
          /\ pc'[h] = "result"
      BY <1>1, <1>4 DEF WriteUpdate, Continue, Goto
    <2>2. \A c \in p.caps : q[c] = p.quota[c] /\ p.quota[c] >= 1
      BY <1>2, <1>4, ControlPlaneAssumption
    <2> HIDE DEF q
    <2>3. quota'[a] = q /\ \A b \in App : b # a => quota'[b] = quota[b]
      BY <1>1, <2>1 DEF Typed, TypeOK
    <2> QED
      BY <1>1, <2>1, <2>2, <2>3
  <1> QED
    BY <1>3, <1>4

\* Only an update and a bootstrap touch capabilities and limits; both leave every
\* capability with a limit, and who activates brings capabilities.
LEMMA CapabilitiesStep ==
    ASSUME IInv, [Next]_vars
    PROVE  CapabilitiesHaveQuota'
  <1>0. Typed /\ Activating /\ CapabilitiesHaveQuota
    BY DEF IInv, Registry, Trail, Typed
  <1>1. CASE UNCHANGED tables
    BY <1>0, <1>1 DEF tables, CapabilitiesHaveQuota
  <1>2. ASSUME NEW h \in Handler, Start(h) \/ Step(h) \/ StoreFails(h)
        PROVE  CapabilitiesHaveQuota'
    <2>1. CASE CreateApplication(h)
      BY <1>0, <2>1 DEF CreateApplication, CapabilitiesHaveQuota, Typed, TypeOK
    <2>2. CASE WriteUpdate(h)
      <3> DEFINE a == op[h].app
                 p == op[h].payload
      <3>1. CASE UNCHANGED <<state, caps, quota>>
        BY <1>0, <3>1 DEF CapabilitiesHaveQuota
      <3>2. CASE /\ a \in App /\ p \in Payload
                 /\ state' = [state EXCEPT ![a] = p.state]
                 /\ caps' = [caps EXCEPT ![a] = p.caps]
                 /\ \A b \in App : b # a => quota'[b] = quota[b]
                 /\ \A c \in p.caps : quota'[a][c] = p.quota[c] /\ p.quota[c] >= 1
        <4>1. p.state = "active" => p.caps # {}
          BY <1>0, <2>2 DEF WriteUpdate, At, Activating, ActivationPayload
        <4> HIDE DEF a, p
        <4>2. /\ state'[a] = p.state /\ caps'[a] = p.caps
              /\ \A b \in App : b # a => state'[b] = state[b] /\ caps'[b] = caps[b]
          BY <1>0, <3>2 DEF Typed, TypeOK
        <4> QED
          BY <1>0, <3>2, <4>1, <4>2 DEF CapabilitiesHaveQuota
      <3> QED
        BY <1>0, <2>2, <3>1, <3>2, UpdateWrites
    <2>3. CASE InsertCredential(h) \/ RevokeCredential(h)
      BY <1>0, <2>3 DEF InsertCredential, RevokeCredential, CapabilitiesHaveQuota
    <2>4. CASE \/ Start(h) \/ ReadApplication(h) \/ CountCredentials(h) \/ ReadResult(h)
               \/ PepperUnreadable(h) \/ WriteAudit(h) \/ StoreFails(h)
      <3>1. UNCHANGED tables
        BY <1>0, <2>4, StartStep DEF ReadApplication, CountCredentials, ReadResult,
                                     PepperUnreadable, WriteAudit, StoreFails
      <3> QED
        BY <1>1, <3>1
    <2> QED
      BY <1>2, <2>1, <2>2, <2>3, <2>4 DEF Step
  <1>3. CASE Bootstrap
    <2>1. PICK l \in [Cap -> 1..MaxLimit] :
             quota' = [quota EXCEPT ![GgOferta] =
                         [c \in Cap |-> IF quota[GgOferta][c] = 0 THEN l[c] ELSE quota[GgOferta][c]]]
      BY <1>3 DEF Bootstrap
    <2>2. /\ quota \in [App -> [Cap -> 0..MaxLimit]] /\ GgOferta \in App
          /\ caps \in [App -> SUBSET Cap]
      BY <1>0, ControlPlaneAssumption DEF Typed, TypeOK
    <2>3. \A c \in Cap : quota'[GgOferta][c] >= 1
      BY <2>1, <2>2, ControlPlaneAssumption
    <2>4. \A b \in App : b # GgOferta => quota'[b] = quota[b] /\ caps'[b] = caps[b]
      BY <1>3, <2>1, <2>2 DEF Bootstrap
    <2>5. caps'[GgOferta] = Cap /\ state' = state
      BY <1>3, <2>2 DEF Bootstrap
    <2> QED
      BY <1>0, <2>2, <2>3, <2>4, <2>5, ControlPlaneAssumption DEF CapabilitiesHaveQuota
  <1>4. CASE Crash \/ UNCHANGED vars
    BY <1>1, <1>4 DEF Crash, vars
  <1> QED
    BY <1>2, <1>3, <1>4 DEF Next

\* Nobody who is past the first read works on the protected application, and it is
\* there already when somebody creates one.
LEMMA ProtectedStep ==
    ASSUME IInv, [Next]_vars
    PROVE  ProtectedUntouched'
  <1>0. Typed /\ Allowed /\ ProtectedUntouched /\ Claudiao \in App
    BY ControlPlaneAssumption DEF IInv, Registry, Typed
  <1>a. state[Claudiao] = "reserved" /\ caps[Claudiao] = {} /\ ActiveCredentials(Claudiao) = {}
    BY <1>0 DEF ProtectedUntouched, Protected
  <1>b. SUFFICES /\ state'[Claudiao] = "reserved" /\ caps'[Claudiao] = {}
                 /\ ActiveCredentials(Claudiao)' = {}
    BY DEF ProtectedUntouched, Protected
  <1>1. CASE UNCHANGED tables
    BY <1>a, <1>1 DEF tables, ActiveCredentials
  <1>2. ASSUME NEW h \in Handler, Start(h) \/ Step(h) \/ StoreFails(h)
        PROVE  /\ state'[Claudiao] = "reserved" /\ caps'[Claudiao] = {}
               /\ ActiveCredentials(Claudiao)' = {}
    <2>1. CASE CreateApplication(h)
      BY <1>0, <1>a, <2>1 DEF CreateApplication, ActiveCredentials, Typed, TypeOK
    <2>2. CASE WriteUpdate(h)
      <3>1. op[h].app # Claudiao
        BY <1>0, <2>2 DEF WriteUpdate, At, Allowed, Protected
      <3>2. state'[Claudiao] = state[Claudiao] /\ caps'[Claudiao] = caps[Claudiao]
        BY <1>0, <2>2, <3>1, UpdateWrites DEF Typed, TypeOK
      <3>3. live' = live /\ owner' = owner
        BY <2>2 DEF WriteUpdate
      <3> QED
        BY <1>a, <3>2, <3>3 DEF ActiveCredentials
    <2>3. CASE InsertCredential(h)
      <3>1. op[h].app # Claudiao
        BY <1>0, <2>3 DEF InsertCredential, At, Allowed, Protected
      <3>2. PICK c \in Cred \ issued : owner' = [owner EXCEPT ![c] = op[h].app] /\ live' = live \cup {c}
        BY <2>3 DEF InsertCredential
      <3>3. ActiveCredentials(Claudiao)' = {}
        BY <1>0, <1>a, <3>1, <3>2 DEF ActiveCredentials, Typed, TypeOK
      <3> QED
        BY <1>a, <2>3, <3>3 DEF InsertCredential
    <2>4. CASE RevokeCredential(h)
      BY <1>a, <2>4 DEF RevokeCredential, ActiveCredentials
    <2>5. CASE \/ Start(h) \/ ReadApplication(h) \/ CountCredentials(h) \/ ReadResult(h)
               \/ PepperUnreadable(h) \/ WriteAudit(h) \/ StoreFails(h)
      <3>1. UNCHANGED tables
        BY <1>0, <2>5, StartStep DEF ReadApplication, CountCredentials, ReadResult,
                                     PepperUnreadable, WriteAudit, StoreFails
      <3> QED
        BY <1>1, <3>1
    <2> QED
      BY <1>2, <2>1, <2>2, <2>3, <2>4, <2>5 DEF Step
  <1>3. CASE Bootstrap
    <2>1. Claudiao # GgOferta
      BY ControlPlaneAssumption
    <2> QED
      BY <1>0, <1>a, <1>3, <2>1 DEF Bootstrap, ActiveCredentials, Typed, TypeOK
  <1>4. CASE Crash \/ UNCHANGED vars
    BY <1>1, <1>4 DEF Crash, vars
  <1> QED
    BY <1>2, <1>3, <1>4 DEF Next

\* Counted: the only step that can take the last credential of an application away
\* marks everybody who counted it.
LEMMA CountedStep ==
    ASSUME IInv, [Next]_vars
    PROVE  Counted'
  <1>0. Typed /\ Announced /\ Counted
    BY DEF IInv, Registry, Trail, Typed
  <1>1. ASSUME NEW h \in Handler, Start(h) PROVE Counted'
    BY <1>0, <1>1, StartStep DEF Others, Counted, ActiveCredentials, Legacy, tables, history
  <1>2. ASSUME NEW h \in Handler, Step(h) \/ StoreFails(h) PROVE Counted'
    <2>1. Others(h)
      BY <1>0, <1>2, GoesOn
    <2>2. ASSUME NEW g \in Handler, pc[g] = "write", op'[g] = op[g]
          PROVE  \/ ActiveCredentials(op[g].app) \subseteq ActiveCredentials(op[g].app)'
                 \/ g \in stripped'
      <3>1. CASE InsertCredential(h)
        BY <1>0, <2>2, <3>1 DEF InsertCredential, ActiveCredentials, Typed, TypeOK
      <3>2. CASE RevokeCredential(h)
        BY <2>2, <3>2 DEF RevokeCredential, ActiveCredentials
      <3>3. CASE ~(InsertCredential(h) \/ RevokeCredential(h))
        <4>1. live' = live /\ owner' = owner
          BY <1>2, <3>3 DEF Step, CreateApplication, ReadApplication, CountCredentials, WriteUpdate,
                            ReadResult, PepperUnreadable, WriteAudit, StoreFails, tables
        <4> QED
          BY <2>2, <4>1 DEF ActiveCredentials
      <3> QED
        BY <3>1, <3>2, <3>3
    <2>3. ASSUME NEW g \in Handler, g # h, pc'[g] = "write", op'[g].payload.state = "active"
          PROVE  Legacy(op'[g].app) \/ ActiveCredentials(op[g].app)' # {} \/ g \in stripped'
      BY <1>0, <2>1, <2>2, <2>3 DEF Others, Counted, Legacy
    <2>4. ASSUME pc'[h] = "write", op'[h].payload.state = "active"
          PROVE  op' = op /\ (Legacy(op'[h].app) \/ ActiveCredentials(op[h].app)' # {})
      BY <1>0, <1>2, <2>4, WhereTo DEF Done, tables, ActiveCredentials, Legacy
    <2>5. \A g \in Handler : pc'[g] = "write" /\ op'[g].payload.state = "active" => op'[g] = op[g]
      BY <2>1, <2>4 DEF Others
    <2> QED
      BY <2>3, <2>4, <2>5 DEF Counted, ActiveCredentials, Legacy
  <1>3. CASE Crash
    <2>1. \A h \in Handler : pc'[h] # "write"
      BY <1>3 DEF Crash, Done
    <2> QED
      BY <2>1 DEF Counted
  <1>4. CASE Bootstrap \/ UNCHANGED vars
    BY <1>0, <1>4 DEF Bootstrap, locals, history, tables, vars, Counted, ActiveCredentials, Legacy
  <1> QED
    BY <1>1, <1>2, <1>3, <1>4 DEF Next

-----------------------------------------------------------------------------
(* The audit trail                                                         *)

\* Announced: a success is announced together with the change, or by who made it.
LEMMA AnnouncedStep ==
    ASSUME IInv, [Next]_vars
    PROVE  Announced'
  <1>0. Typed /\ Announced
    BY DEF IInv, Trail, Typed
  <1>1. ASSUME NEW h \in Handler, Start(h) PROVE Announced'
    BY <1>0, <1>1, StartStep DEF Others, Announced
  <1>2. ASSUME NEW h \in Handler, Step(h) \/ StoreFails(h) PROVE Announced'
    <2>1. Others(h)
      BY <1>0, <1>2, GoesOn
    <2>2. ASSUME NEW g \in Handler, g # h
          PROVE  /\ pc'[g] = "result" => g \in mutated'
                 /\ pc'[g] = "audit" =>
                       /\ todo'[g] # <<>>
                       /\ \A i \in DOMAIN todo'[g] : todo'[g][i][2] = "success" => g \in mutated'
      BY <1>0, <2>1, <2>2 DEF Others, Announced
    <2>3. pc'[h] = "result" => h \in mutated'
      BY <1>0, <1>2, WhereTo DEF Done
    <2>4. ASSUME pc'[h] = "audit"
          PROVE  /\ todo'[h] # <<>>
                 /\ \A i \in DOMAIN todo'[h] : todo'[h][i][2] = "success" => h \in mutated'
      <3>1. CASE \E action \in Action, outcome \in {"success", "failed", "denied"} :
                    /\ ThenAudit(h, <<<<action, outcome>>>>)
                    /\ outcome = "success" => h \in mutated'
        <4>1. PICK action \in Action, outcome \in {"success", "failed", "denied"} :
                    /\ ThenAudit(h, <<<<action, outcome>>>>)
                    /\ outcome = "success" => h \in mutated'
          BY <3>1
        <4> DEFINE q == <<<<action, outcome>>>>
        <4>2. q \in Seq(Event) /\ q # <<>> /\ \A i \in DOMAIN q : q[i][2] = outcome
          BY OneEvent
        <4>3. todo'[h] = q
          BY <1>0, <4>1, <4>2, HandlerAudits
        <4> HIDE DEF q
        <4> QED
          BY <4>1, <4>2, <4>3
      <3>2. CASE CreateApplication(h) \/ InsertCredential(h) \/ RevokeCredential(h)
        <4>1. pc'[h] = "done" \/ \E action \in Action, outcome \in {"success", "failed", "denied"} :
                                    /\ ThenAudit(h, <<<<action, outcome>>>>)
                                    /\ outcome = "success" => h \in mutated'
          BY <1>0, <3>2 DEF CreateApplication, InsertCredential, RevokeCredential, Reject, Finish, Goto,
                            Action, Typed, TypeOK
        <4> QED
          BY <2>4, <3>1, <4>1
      <3>3. CASE ReadApplication(h)
        <4>1. \/ pc'[h] \in {"done", "insert", "count", "write"}
              \/ \E action \in Action : ThenAudit(h, <<<<action, "denied">>>>)
          BY <1>0, <3>3 DEF ReadApplication, Reject, Finish, Goto, Action, Typed, TypeOK
        <4> QED
          BY <2>4, <3>1, <4>1
      <3>4. CASE ReadResult(h)
        <4> DEFINE q == UpdateEvents(seen[h], Row(op[h].app))
        <4>1. q \in Seq(Action \X {"success"}) /\ q # <<>>
          BY UpdateEventsType
        <4>2. ThenAudit(h, q) /\ h \in mutated'
          BY <1>0, <2>1, <3>4 DEF ReadResult, At, Announced, Others
        <4> HIDE DEF q
        <4>3. todo'[h] = q
          BY <1>0, <4>2 DEF ThenAudit, Typed, LocalsOK
        <4> QED
          BY <4>1, <4>2, <4>3
      <3>5. CASE WriteAudit(h)
        <4>1. /\ todo[h] \in Seq(Event) /\ todo[h] # <<>>
              /\ \A i \in DOMAIN todo[h] : todo[h][i][2] = "success" => h \in mutated
          BY <1>0, <3>5 DEF WriteAudit, At, Announced, Typed, LocalsOK
        <4>2. CASE Finish(h, "done")
          BY <1>0, <2>4, <4>2, HandlerEnds DEF Done
        <4>3. CASE Len(todo[h]) # 1 /\ ThenAudit(h, Tail(todo[h]))
          <5> DEFINE q == todo[h]
                     r == Tail(q)
          <5>1. /\ r \in Seq(Event) /\ Len(r) = Len(q) - 1 /\ Len(q) \in Nat /\ Len(q) > 1
                /\ DOMAIN r = 1..Len(r) /\ DOMAIN q = 1..Len(q)
                /\ \A i \in 1..Len(r) : r[i] = q[i + 1]
            <6>1. q \in Seq(Event) /\ q # <<>> /\ Len(q) # 1
              BY <4>1, <4>3
            <6> HIDE DEF q, Event
            <6>2. DOMAIN q = 1..Len(q) /\ Len(q) \in Nat /\ Len(q) > 1
              BY <6>1
            <6>3. r \in Seq(Event) /\ Len(r) = Len(q) - 1 /\ \A i \in 1..Len(r) : r[i] = q[i + 1]
              BY <6>1, HeadTailProperties
            <6>4. DOMAIN r = 1..Len(r)
              BY <6>3
            <6> QED
              BY <6>2, <6>3, <6>4
          <5>2. todo'[h] = r
            BY <1>0, <4>3 DEF ThenAudit, Typed, LocalsOK
          <5>3. \A i \in DOMAIN q : q[i][2] = "success" => h \in mutated'
            BY <2>1, <4>1 DEF Others
          <5> HIDE DEF q, r
          <5>4. r # <<>>
            BY <5>1
          <5>5. \A i \in DOMAIN r : r[i][2] = "success" => h \in mutated'
            BY <5>1, <5>3
          <5> QED
            BY <5>2, <5>4, <5>5
        <4> QED
          BY <3>5, <4>2, <4>3 DEF WriteAudit
      <3>6. CASE CountCredentials(h) \/ WriteUpdate(h) \/ PepperUnreadable(h) \/ StoreFails(h)
        BY <1>0, <2>4, <3>6 DEF CountCredentials, WriteUpdate, PepperUnreadable, StoreFails, Continue,
                                Reject, Finish, Goto, Typed, TypeOK
      <3> QED
        BY <1>2, <3>2, <3>3, <3>4, <3>5, <3>6 DEF Step
    <2> QED
      BY <2>2, <2>3, <2>4 DEF Announced
  <1>3. CASE Crash
    <2>1. \A h \in Handler : pc'[h] \notin {"result", "audit"}
      BY <1>3 DEF Crash, Done
    <2> QED
      BY <2>1 DEF Announced
  <1>4. CASE Bootstrap \/ UNCHANGED vars
    BY <1>0, <1>4 DEF Bootstrap, locals, history, vars, Announced
  <1> QED
    BY <1>1, <1>2, <1>3, <1>4 DEF Next

\* What is written was announced, and who committed a change goes by way of the
\* trail.
LEMMA TrailStep ==
    ASSUME IInv, [Next]_vars
    PROVE  AuditTruthful' /\ Traced'
  <1>0. Typed /\ Announced /\ AuditTruthful /\ Traced
    BY DEF IInv, Trail, Typed
  <1>1. ASSUME NEW h \in Handler, Start(h) PROVE AuditTruthful' /\ Traced'
    <2>1. audit' = audit /\ mutated' = mutated /\ broken' = broken /\ pc[h] = "idle"
      BY <1>0, <1>1, StartStep
         DEF history, Start, BeginCreateApplication, BeginUpdateApplication, BeginCreateCredential,
             BeginRevokeCredential, Begin, At
    <2>2. \A g \in Handler : g # h => pc'[g] = pc[g]
      BY <1>0, <1>1, StartStep DEF Others
    <2>3. mutated \subseteq Handler
      BY <1>0 DEF Typed, TypeOK
    <2> QED
      BY <1>0, <2>1, <2>2, <2>3 DEF AuditTruthful, Traced
  <1>2. ASSUME NEW h \in Handler, Step(h) \/ StoreFails(h) PROVE AuditTruthful' /\ Traced'
    <2>1. Others(h) /\ mutated \subseteq Handler
      BY <1>0, <1>2, GoesOn DEF Typed, TypeOK
    <2>2. ASSUME NEW e \in audit', e \notin audit, e[3] = "success" PROVE e[1] \in mutated'
      <3>1. WriteAudit(h)
        BY <1>2, <2>2 DEF Step, CreateApplication, ReadApplication, CountCredentials, WriteUpdate,
                          ReadResult, PepperUnreadable, InsertCredential, RevokeCredential, StoreFails
      <3>2. e = <<h, todo[h][1][1], todo[h][1][2]>> /\ pc[h] = "audit"
        BY <2>2, <3>1 DEF WriteAudit, At
      <3>3. todo[h] \in Seq(Event) /\ todo[h] # <<>>
        BY <1>0, <3>2 DEF Announced, Typed, LocalsOK
      <3>4. 1 \in DOMAIN todo[h]
        BY <3>3
      <3>5. e[1] = h /\ todo[h][1][2] = "success"
        BY <2>2, <3>2
      <3> QED
        BY <1>0, <2>1, <3>2, <3>4, <3>5 DEF Announced, Others
    <2>3. AuditTruthful'
      BY <1>0, <2>1, <2>2 DEF AuditTruthful, Others
    <2>4. ASSUME h \in mutated'
          PROVE  \/ pc'[h] \in {"result", "audit"} \/ h \in broken' \/ \E e \in audit' : e[1] = h
      <3>1. CASE StoreFails(h)
        BY <3>1 DEF StoreFails
      <3>2. CASE WriteAudit(h)
        <4>1. <<h, todo[h][1][1], todo[h][1][2]>> \in audit'
          BY <3>2 DEF WriteAudit
        <4> QED
          BY <4>1
      <3>3. CASE CreateApplication(h) \/ ReadResult(h) \/ InsertCredential(h)
        BY <1>0, <3>3 DEF CreateApplication, ReadResult, InsertCredential, ThenAudit, Goto, Typed, TypeOK
      <3>4. CASE WriteUpdate(h) \/ RevokeCredential(h)
        <4>1. pc'[h] \in {"result", "audit"} \/ (mutated' = mutated /\ pc[h] \in {"write", "revoke"})
          BY <1>0, <3>4 DEF WriteUpdate, RevokeCredential, At, Continue, ThenAudit, Goto, Typed, TypeOK
        <4> QED
          BY <1>0, <2>1, <2>4, <4>1 DEF Traced, Others
      <3>5. CASE ReadApplication(h) \/ CountCredentials(h) \/ PepperUnreadable(h)
        <4>1. mutated' = mutated /\ pc[h] \in {"read", "count", "insert"}
          BY <3>5 DEF ReadApplication, CountCredentials, PepperUnreadable, At, history
        <4> QED
          BY <1>0, <2>1, <2>4, <4>1 DEF Traced, Others
      <3> QED
        BY <1>2, <3>1, <3>2, <3>3, <3>4, <3>5 DEF Step
    <2>5. Traced'
      BY <1>0, <2>1, <2>4 DEF Traced, Others
    <2> QED
      BY <2>3, <2>5
  <1>3. CASE Crash
    <2>1. /\ audit' = audit /\ mutated' = mutated /\ broken \subseteq broken'
          /\ \A h \in Handler : pc[h] \in {"result", "audit"} => h \in broken'
          /\ mutated \subseteq Handler
      BY <1>0, <1>3 DEF Crash, Done, Typed, TypeOK
    <2> QED
      BY <1>0, <2>1 DEF AuditTruthful, Traced
  <1>4. CASE Bootstrap \/ UNCHANGED vars
    BY <1>0, <1>4 DEF Bootstrap, history, vars, AuditTruthful, Traced
  <1> QED
    BY <1>1, <1>2, <1>3, <1>4 DEF Next

-----------------------------------------------------------------------------
(* Theorems                                                                *)

\* The invariant holds after a bootstrap, of a new database or of an old one.
LEMMA InitInv == Init => IInv
  <1> SUFFICES ASSUME Init PROVE IInv
    OBVIOUS
  <1>1. Typed
    BY InitTyped
  <1>2. \A h \in Handler : pc[h] = "idle"
    BY DEF Init
  <1>3. CapabilitiesHaveQuota
    <2>1. PICK l \in [Cap -> 1..MaxLimit] : quota = [a \in App |-> IF a = GgOferta THEN l ELSE NoQuota]
      BY DEF Init
    <2>2. /\ caps = [a \in App |-> IF a = GgOferta THEN Cap ELSE {}]
          /\ \A a \in App : state[a] = "active" => a = GgOferta
      BY DEF Init
    <2> QED
      BY <2>1, <2>2, ControlPlaneAssumption DEF CapabilitiesHaveQuota
  <1>4. ProtectedUntouched
    BY ControlPlaneAssumption DEF Init, ProtectedUntouched, Protected, ActiveCredentials
  <1>5. Registry
    BY <1>2, <1>3, <1>4 DEF Registry, Allowed, Activating, Counted
  <1>6. Trail
    BY <1>2 DEF Init, Trail, AuditTruthful, Announced, Traced
  <1> QED
    BY <1>1, <1>5, <1>6 DEF IInv, Typed

\* The invariant holds in every reachable state.
THEOREM InductiveInvariant == Spec => []IInv
  <1>1. IInv /\ [Next]_vars => IInv'
    BY TypedStep, ChecksStep, CapabilitiesStep, ProtectedStep, CountedStep, AnnouncedStep, TrailStep
       DEF IInv, Typed, Registry, Trail
  <1> QED
    BY InitInv, <1>1, PTL DEF Spec

\* The tables, the handlers and the histories keep their types: every credential
\* that is live was issued, every limit is a limit.
THEOREM TypeCorrect == Spec => []TypeOK
  <1>1. IInv => TypeOK
    BY DEF IInv
  <1> QED
    BY InductiveInvariant, <1>1, PTL

\* CapabilitiesHaveQuota, for any handlers and applications: no interleaving of
\* updates, failures and restarts leaves a capability without a quota row, or an
\* active application without a capability.
THEOREM CapabilitiesAlwaysHaveQuota == Spec => []CapabilitiesHaveQuota
  <1>1. IInv => CapabilitiesHaveQuota
    BY DEF IInv, Registry
  <1> QED
    BY InductiveInvariant, <1>1, PTL

\* ProtectedUntouched, for any handlers and applications: nobody gives the
\* protected application a state, a capability or a credential.
THEOREM ProtectedStaysUntouched == Spec => []ProtectedUntouched
  <1>1. IInv => ProtectedUntouched
    BY DEF IInv, Registry
  <1> QED
    BY InductiveInvariant, <1>1, PTL

\* AuditTruthful, for any handlers: the audit trail claims no change that was not
\* committed, whoever else reads and writes in between.
THEOREM AuditAlwaysTruthful == Spec => []AuditTruthful
  <1>1. IInv => AuditTruthful
    BY DEF IInv, Trail
  <1> QED
    BY InductiveInvariant, <1>1, PTL

\* MutationsAudited, for any handlers: the audit trail misses no committed change,
\* except where a failure or a crash cut the handler short.
THEOREM MutationsAlwaysAudited == Spec => []MutationsAudited
  <1>1. IInv => MutationsAudited
    BY DEF IInv, Trail, Traced, MutationsAudited, Done
  <1> QED
    BY InductiveInvariant, <1>1, PTL

\* ActivationCounted, for any handlers and credentials: an application becomes
\* active with a live credential or the legacy key, or because the last one was
\* revoked after the activation had counted it.
THEOREM ActivationIsCounted == Spec => ActivationCounted
  <1>1. ASSUME IInv, [Next]_vars, NEW a \in App, running, state[a] # "active", state'[a] = "active"
        PROVE  \/ Legacy(a)
               \/ ActiveCredentials(a) # {}
               \/ \E h \in stripped : pc[h] = "write" /\ pc'[h] = "result" /\ op[h].app = a
    <2>0. Typed /\ Counted
      BY <1>1 DEF IInv, Registry, Typed
    <2>1. PICK h \in Handler : WriteUpdate(h)
      <3>1. ~UNCHANGED state
        BY <1>1
      <3>2. ~Crash /\ ~Bootstrap /\ ~UNCHANGED vars
        BY <3>1 DEF Crash, Bootstrap, tables, vars
      <3>3. ASSUME NEW h \in Handler, Start(h) \/ Step(h) \/ StoreFails(h) PROVE WriteUpdate(h)
        <4>1. CASE CreateApplication(h)
          BY <1>1, <2>0, <4>1 DEF CreateApplication, Typed, TypeOK
        <4>2. CASE \/ Start(h) \/ ReadApplication(h) \/ CountCredentials(h) \/ ReadResult(h)
                   \/ PepperUnreadable(h) \/ WriteAudit(h) \/ StoreFails(h)
                   \/ InsertCredential(h) \/ RevokeCredential(h)
          <5>1. state' = state
            BY <2>0, <4>2, StartStep DEF ReadApplication, CountCredentials, ReadResult, PepperUnreadable,
                                         WriteAudit, StoreFails, InsertCredential, RevokeCredential, tables
          <5> QED
            BY <3>1, <5>1
        <4> QED
          BY <3>3, <4>1, <4>2 DEF Step
      <3> QED
        BY <1>1, <3>2, <3>3 DEF Next
    <2>2. op[h].app = a /\ op[h].payload.state = "active" /\ pc'[h] = "result"
      BY <1>1, <2>0, <2>1, UpdateWrites DEF Typed, TypeOK
    <2>3. pc[h] = "write"
      BY <2>1 DEF WriteUpdate, At
    <2> QED
      BY <2>0, <2>2, <2>3 DEF Counted
  <1>2. IInv /\ [Next]_vars =>
          [\A a \in App :
             (running /\ state[a] # "active" /\ state'[a] = "active") =>
                \/ Legacy(a)
                \/ ActiveCredentials(a) # {}
                \/ \E h \in stripped : pc[h] = "write" /\ pc'[h] = "result" /\ op[h].app = a]_vars
    BY <1>1
  <1> QED
    BY InductiveInvariant, <1>2, PTL DEF Spec, ActivationCounted

\* RestartKeepsPolicies, for any database an interrupted process may have left.
THEOREM RestartsKeepPolicies == Spec => RestartKeepsPolicies
  <1>1. ASSUME IInv, [Next]_vars, ~running, running'
        PROVE  /\ state' = state /\ live' = live /\ owner' = owner
               /\ \A a \in App, c \in Cap : quota[a][c] # 0 => quota'[a][c] = quota[a][c]
               /\ \A a \in App : caps[a] \subseteq caps'[a] /\ (a # GgOferta => caps'[a] = caps[a])
    <2>0. Typed /\ Announced
      BY <1>1 DEF IInv, Trail, Typed
    <2>1. Bootstrap
      BY <1>1, <2>0, StartStep, GoesOn DEF Next, Others, Crash, vars
    <2>2. GgOferta \in App /\ caps \in [App -> SUBSET Cap] /\ quota \in [App -> [Cap -> 0..MaxLimit]]
      BY <2>0, ControlPlaneAssumption DEF Typed, TypeOK
    <2>3. \A a \in App : caps[a] \subseteq caps'[a] /\ (a # GgOferta => caps'[a] = caps[a])
      BY <2>1, <2>2 DEF Bootstrap
    <2>4. \A a \in App, c \in Cap : quota[a][c] # 0 => quota'[a][c] = quota[a][c]
      BY <2>1, <2>2 DEF Bootstrap
    <2> QED
      BY <2>1, <2>3, <2>4 DEF Bootstrap
  <1>2. IInv /\ [Next]_vars =>
          [(~running /\ running') =>
             /\ state' = state /\ live' = live /\ owner' = owner
             /\ \A a \in App, c \in Cap : quota[a][c] # 0 => quota'[a][c] = quota[a][c]
             /\ \A a \in App : caps[a] \subseteq caps'[a] /\ (a # GgOferta => caps'[a] = caps[a])]_vars
    BY <1>1
  <1> QED
    BY InductiveInvariant, <1>2, PTL DEF Spec, RestartKeepsPolicies
=============================================================================
