----------------------------- MODULE PanelProofs -----------------------------
(***************************************************************************)
(* Proofs about the screens of the panel, module Panel, for every set of   *)
(* applications, settings, keys and periods and any number of calls.       *)
(*                                                                         *)
(* What a screen shows is current because of its latest load: every write  *)
(* the panel is told of is followed by a load, so the latest load of a     *)
(* screen was sent after every acknowledged write was done (Latest).       *)
(* A secret stays in view because no other creation can be answered while  *)
(* it is due (Secrets).                                                    *)
(***************************************************************************)
EXTENDS Panel, FiniteSetTheorems, SequenceTheorems, TLAPS

-----------------------------------------------------------------------------
(* The inductive invariant                                                 *)

Answer == [App -> Row] \cup [Key -> State] \cup Key \cup Period \cup {Nothing}
Call == [kind : Writes \cup {"load"}, target : App \cup Key \cup Screen \cup {Nothing},
         value : (SUBSET Setting) \cup Period, mounted : BOOLEAN, stage : {"sent", "answered"},
         ok : BOOLEAN, answer : Answer]

Slot == Call \cup {Over}

\* A call has what its kind needs, and an answered creation the key.
CallOK(c) ==
    /\ c.kind = "load" => c.value \in Period
    /\ c.kind \in {"create app", "save app"} => c.target \in App
    /\ c.kind = "save app" => c.value \in SUBSET Setting
    /\ c.kind = "revoke key" => c.target \in Key
    /\ c.kind = "create key" /\ c.stage = "answered" /\ c.ok => c.answer \in Key

Targets == calls \in Seq(Slot) /\ \A i \in Pending : CallOK(calls[i])

WritesOf(S) == {i \in S : calls[i].kind \in Writes}

\* There is room for the load that follows each write under way.
Roomy == Len(calls) + Cardinality(WritesOf(Mine)) <= MaxCalls

\* The calls of a screen are the ones it makes.
Placed ==
    \A i \in Mine :
        /\ calls[i].kind = "load" => calls[i].target = screen
        /\ calls[i].kind \in {"create app", "save app"} => screen = "applications"
        /\ calls[i].kind \in {"create key", "revoke key"} => screen = "credentials"

\* A write the panel was told of is over.
Told == \A i \in acked : i \in DOMAIN calls /\ calls[i] = Over

\* Without loading text and error a list has been answered.
ListAnswered == screen \in Lists /\ ~loading /\ ~error => by # 0

\* The data tell the truth about everything whose last change was acknowledged.
Fresh(data) ==
    /\ screen = "applications" =>
          data \in [App -> Row] /\ \A a \in App : writer[a] \in acked => data[a] = registry[a]
    /\ screen = "credentials" =>
          data \in [Key -> State] /\ \A k \in Key : writer[k] \in acked => data[k] = keys[k]
    /\ screen = "usage" => data = days

\* L is the latest load of the screen: without an error it is under way or it has
\* been answered, and what it brings, or brought, is current.
Latest(L) ==
    /\ L \in DOMAIN calls
    /\ \A i \in Mine : calls[i].kind = "load" => i <= L
    /\ by <= newest /\ newest <= L
    /\ error \/ newest = L \/ L \in Mine
    /\ L \in Mine =>
          /\ calls[L].kind = "load"
          /\ screen = "usage" => calls[L].value = days
          /\ calls[L].stage = "answered" /\ calls[L].ok => Fresh(calls[L].answer)
    /\ by = L => Fresh(shown)

IInv ==
    /\ TypeOK /\ Targets /\ Roomy /\ Placed /\ Told /\ ListAnswered
    /\ \E L \in DOMAIN calls : Latest(L)

-----------------------------------------------------------------------------
(* Sequences of calls                                                      *)

\* What replacing one element of a sequence leaves as it is.
LEMMA SeqExcept ==
    ASSUME NEW S, NEW q \in Seq(S), NEW i \in DOMAIN q, NEW v \in S
    PROVE  LET r == [q EXCEPT ![i] = v]
           IN  /\ r \in Seq(S) /\ Len(r) = Len(q) /\ DOMAIN r = DOMAIN q
               /\ r[i] = v
               /\ \A j \in DOMAIN q : j # i => r[j] = q[j]
BY ExceptSeq

\* What appending an element to a sequence leaves as it is.
LEMMA SeqAppend ==
    ASSUME NEW S, NEW q \in Seq(S), NEW v \in S
    PROVE  LET r == Append(q, v)
           IN  /\ r \in Seq(S) /\ Len(r) = Len(q) + 1
               /\ DOMAIN r = DOMAIN q \cup {Len(q) + 1}
               /\ Len(q) + 1 \notin DOMAIN q
               /\ r[Len(q) + 1] = v
               /\ \A j \in DOMAIN q : r[j] = q[j]
BY SMT

\* The positions of a sequence are numbers from 1 to its length.
LEMMA Positions ==
    ASSUME Targets
    PROVE  /\ Len(calls) \in Nat /\ Len(calls) + 1 \in Nat /\ DOMAIN calls = 1..Len(calls)
           /\ \A i \in DOMAIN calls : i \in Nat /\ i # 0 /\ i <= Len(calls)
           /\ Len(calls) + 1 \notin DOMAIN calls
<1>1. calls \in Seq(Slot)
  BY DEF Targets
<1>2. Len(calls) \in Nat /\ Len(calls) + 1 \in Nat /\ DOMAIN calls = 1..Len(calls)
  BY <1>1
<1> QED  BY <1>2

\* A call is no mark that a call is over.
LEMMA CallIsNotOver ==
    ASSUME NEW c \in Call
    PROVE  c # Over /\ c \in Slot
BY DEF Call, Over, Slot

\* A pending call is a record with all its fields.
LEMMA PendingCall ==
    ASSUME Targets, NEW i \in Pending
    PROVE  /\ i \in DOMAIN calls /\ calls[i] \in Call
           /\ calls[i].kind \in Writes \cup {"load"}
           /\ calls[i].stage \in {"sent", "answered"}
           /\ calls[i].mounted \in BOOLEAN /\ calls[i].ok \in BOOLEAN
           /\ calls[i].answer \in Answer
<1>1. i \in DOMAIN calls /\ calls[i] \in Call
  <2>1. calls \in Seq(Slot) /\ i \in DOMAIN calls /\ calls[i] # Over
    BY DEF Targets, Pending
  <2>2. calls[i] \in Slot
    BY <2>1, ElementOfSeq
  <2> QED  BY <2>1, <2>2 DEF Slot
<1> QED  BY <1>1 DEF Call

\* A new call is a call.
LEMMA RequestIsCall ==
    ASSUME NEW kind \in Writes \cup {"load"}, NEW target \in App \cup Key \cup Screen \cup {Nothing},
           NEW value \in (SUBSET Setting) \cup Period
    PROVE  LET c == Request(kind, target, value)
           IN  /\ c \in Call /\ c.kind = kind /\ c.target = target /\ c.value = value
               /\ c.mounted /\ c.stage = "sent" /\ c.ok = FALSE
BY DEF Request, Call, Answer

\* So is a load.
LEMMA LoadIsCall ==
    ASSUME NEW s \in Screen, NEW d \in Period
    PROVE  LET c == Load(s, d)
           IN  /\ c \in Call /\ c.kind = "load" /\ c.target = s /\ c.value = d
               /\ c.mounted /\ c.stage = "sent" /\ c.ok = FALSE
<1>1. /\ "load" \in Writes \cup {"load"} /\ s \in App \cup Key \cup Screen \cup {Nothing}
      /\ d \in (SUBSET Setting) \cup Period
  OBVIOUS
<1> QED  BY <1>1 DEF Load, Request, Call, Answer

\* One more call.
LEMMA CallAdded ==
    ASSUME Targets, NEW c \in Call, c.mounted, calls' = Append(calls, c)
    PROVE  LET n == Len(calls) + 1
           IN  /\ calls' \in Seq(Slot) /\ Len(calls') = n
               /\ n \notin DOMAIN calls /\ DOMAIN calls' = DOMAIN calls \cup {n}
               /\ calls'[n] = c /\ \A j \in DOMAIN calls : calls'[j] = calls[j]
               /\ Pending' = Pending \cup {n} /\ Mine' = Mine \cup {n}
<1> DEFINE n == Len(calls) + 1
<1>1. calls \in Seq(Slot) /\ c \in Slot /\ c # Over
  BY CallIsNotOver DEF Targets
<1>2. /\ calls' \in Seq(Slot) /\ Len(calls') = n
      /\ n \notin DOMAIN calls /\ DOMAIN calls' = DOMAIN calls \cup {n}
      /\ calls'[n] = c /\ \A j \in DOMAIN calls : calls'[j] = calls[j]
  BY <1>1, SeqAppend
<1> HIDE DEF n
<1>3. Pending' = Pending \cup {n}
  BY <1>1, <1>2 DEF Pending
<1>4. Mine' = Mine \cup {n}
  BY <1>2, <1>3 DEF Mine, Pending
<1> QED  BY <1>2, <1>3, <1>4 DEF n

\* A call is answered, or its answer is lost.
LEMMA CallAnswered ==
    ASSUME Targets, NEW i \in Pending, NEW ok \in BOOLEAN, NEW answer \in Answer,
           calls' = Answered(i, ok, answer)
    PROVE  /\ calls' \in Seq(Slot) /\ Len(calls') = Len(calls) /\ DOMAIN calls' = DOMAIN calls
           /\ \A j \in DOMAIN calls : j # i => calls'[j] = calls[j]
           /\ calls'[i].kind = calls[i].kind /\ calls'[i].target = calls[i].target
           /\ calls'[i].value = calls[i].value /\ calls'[i].mounted = calls[i].mounted
           /\ calls'[i].stage = "answered" /\ calls'[i].ok = ok /\ calls'[i].answer = answer
           /\ Pending' = Pending /\ Mine' = Mine
<1> DEFINE c == [calls[i] EXCEPT !.stage = "answered", !.ok = ok, !.answer = answer]
<1>1. calls \in Seq(Slot) /\ calls[i] \in Call /\ i \in DOMAIN calls /\ calls[i] # Over
  BY PendingCall, CallIsNotOver DEF Targets
<1>2. /\ c \in Call /\ c.kind = calls[i].kind /\ c.target = calls[i].target
      /\ c.value = calls[i].value /\ c.mounted = calls[i].mounted
      /\ c.stage = "answered" /\ c.ok = ok /\ c.answer = answer
  BY <1>1 DEF Call
<1>3. calls' = [calls EXCEPT ![i] = c]
  BY DEF Answered
<1> HIDE DEF c
<1>4. c \in Slot /\ c # Over
  BY <1>2, CallIsNotOver
<1>5. /\ calls' \in Seq(Slot) /\ Len(calls') = Len(calls) /\ DOMAIN calls' = DOMAIN calls
      /\ calls'[i] = c /\ \A j \in DOMAIN calls : j # i => calls'[j] = calls[j]
  BY <1>1, <1>3, <1>4, SeqExcept
<1>6. Pending' = Pending
  BY <1>1, <1>4, <1>5 DEF Pending
<1>7. Mine' = Mine
  BY <1>2, <1>5, <1>6 DEF Mine, Pending
<1> QED  BY <1>2, <1>5, <1>6, <1>7

\* A call is over.
LEMMA CallForgotten ==
    ASSUME Targets, NEW i \in Pending
    PROVE  LET r == Forget(i)
           IN  /\ r \in Seq(Slot) /\ Len(r) = Len(calls) /\ DOMAIN r = DOMAIN calls
               /\ r[i] = Over /\ \A j \in DOMAIN calls : j # i => r[j] = calls[j]
<1>1. calls \in Seq(Slot) /\ i \in DOMAIN calls /\ Over \in Slot
  BY PendingCall DEF Targets, Slot
<1> QED  BY <1>1, SeqExcept DEF Forget

\* A handled call is no longer under way.
LEMMA CallHandled ==
    ASSUME Targets, NEW i \in Pending, calls' = Forget(i)
    PROVE  /\ calls' \in Seq(Slot) /\ Len(calls') = Len(calls) /\ DOMAIN calls' = DOMAIN calls
           /\ calls'[i] = Over /\ \A j \in DOMAIN calls : j # i => calls'[j] = calls[j]
           /\ Pending' = Pending \ {i} /\ Mine' = Mine \ {i}
<1>1. /\ calls' \in Seq(Slot) /\ Len(calls') = Len(calls) /\ DOMAIN calls' = DOMAIN calls
      /\ calls'[i] = Over /\ \A j \in DOMAIN calls : j # i => calls'[j] = calls[j]
  BY CallForgotten
<1>2. Pending' = Pending \ {i}
  BY <1>1 DEF Pending
<1>3. Mine' = Mine \ {i}
  BY <1>1, <1>2 DEF Mine, Pending
<1> QED  BY <1>1, <1>2, <1>3

\* A handled write is followed by a load.
LEMMA CallFollowed ==
    ASSUME Targets, NEW i \in Pending, NEW c \in Call, c.mounted, calls' = Append(Forget(i), c)
    PROVE  LET n == Len(calls) + 1
           IN  /\ calls' \in Seq(Slot) /\ Len(calls') = n
               /\ n \notin DOMAIN calls /\ DOMAIN calls' = DOMAIN calls \cup {n}
               /\ calls'[i] = Over /\ calls'[n] = c
               /\ \A j \in DOMAIN calls : j # i => calls'[j] = calls[j]
               /\ Pending' = (Pending \ {i}) \cup {n} /\ Mine' = (Mine \ {i}) \cup {n}
<1> DEFINE n == Len(calls) + 1
           r == Forget(i)
<1>1. c \in Slot /\ c # Over /\ i \in DOMAIN calls
  BY CallIsNotOver, PendingCall
<1>2. /\ r \in Seq(Slot) /\ Len(r) = Len(calls) /\ DOMAIN r = DOMAIN calls
      /\ r[i] = Over /\ \A j \in DOMAIN calls : j # i => r[j] = calls[j]
  BY CallForgotten
<1> HIDE DEF r
<1>3. /\ calls' \in Seq(Slot) /\ Len(calls') = n
      /\ n \notin DOMAIN calls /\ DOMAIN calls' = DOMAIN calls \cup {n}
      /\ calls'[n] = c /\ \A j \in DOMAIN calls : calls'[j] = r[j]
  BY <1>1, <1>2, SeqAppend DEF r
<1> HIDE DEF n
<1>4. calls'[i] = Over /\ \A j \in DOMAIN calls : j # i => calls'[j] = calls[j]
  BY <1>1, <1>2, <1>3
<1>5. Pending' = (Pending \ {i}) \cup {n}
  BY <1>1, <1>3, <1>4 DEF Pending
<1>6. Mine' = (Mine \ {i}) \cup {n}
  BY <1>1, <1>3, <1>4, <1>5 DEF Mine, Pending
<1> QED  BY <1>3, <1>4, <1>5, <1>6 DEF n

\* The calls of a screen that is left: loads are forgotten, writes go on without it.
LEMMA CallsAbandoned ==
    ASSUME Targets, NEW c \in Call, c.mounted, calls' = Append(Abandoned, c)
    PROVE  LET n == Len(calls) + 1
           IN  /\ calls' \in Seq(Slot) /\ Len(calls') = n
               /\ n \notin DOMAIN calls /\ DOMAIN calls' = DOMAIN calls \cup {n}
               /\ calls'[n] = c
               /\ \A j \in DOMAIN calls \ Mine : calls'[j] = calls[j]
               /\ \A j \in Mine : calls'[j] = Over \/ calls'[j] = [calls[j] EXCEPT !.mounted = FALSE]
               /\ Pending' \subseteq Pending \cup {n} /\ n \in Pending' /\ Mine' = {n}
<1> DEFINE n == Len(calls) + 1
           r == Abandoned
<1>1. c \in Slot /\ c # Over /\ calls \in Seq(Slot)
  BY CallIsNotOver DEF Targets
<1>2. /\ DOMAIN r = DOMAIN calls
      /\ \A j \in DOMAIN calls \ Mine : r[j] = calls[j]
      /\ \A j \in Mine : r[j] = Over \/ r[j] = [calls[j] EXCEPT !.mounted = FALSE]
  BY DEF Abandoned, Mine, Pending
<1>3. \A j \in Mine : [calls[j] EXCEPT !.mounted = FALSE] \in Call
  BY PendingCall DEF Mine, Call
<1>4. \A j \in DOMAIN calls : r[j] \in Slot
  <2>1. \A j \in DOMAIN calls : calls[j] \in Slot
    BY <1>1, ElementOfSeq, Positions
  <2> QED  BY <1>2, <1>3, <2>1 DEF Slot
<1>5. r \in Seq(Slot) /\ Len(r) = Len(calls)
  <2>1. r \in [1..Len(calls) -> Slot] /\ Len(calls) \in Nat
    BY <1>2, <1>4, Positions DEF Abandoned
  <2> HIDE DEF r
  <2> QED  BY <2>1
<1>6. \A j \in Mine : r[j] # Over => ~r[j].mounted
  <2>1. ASSUME NEW j \in Mine PROVE ~[calls[j] EXCEPT !.mounted = FALSE].mounted
    BY PendingCall DEF Mine, Call
  <2> QED  BY <1>2, <2>1
<1> HIDE DEF r
<1>7. /\ calls' \in Seq(Slot) /\ Len(calls') = n
      /\ n \notin DOMAIN calls /\ DOMAIN calls' = DOMAIN calls \cup {n}
      /\ calls'[n] = c /\ \A j \in DOMAIN calls : calls'[j] = r[j]
  BY <1>1, <1>2, <1>5, SeqAppend DEF r
<1> HIDE DEF n
<1>8. Mine \subseteq DOMAIN calls /\ \A j \in DOMAIN calls \ Mine : calls[j] = Over \/ ~calls[j].mounted
  BY DEF Mine, Pending
<1>9. Pending' \subseteq Pending \cup {n} /\ n \in Pending'
  BY <1>1, <1>2, <1>7, <1>8 DEF Pending, Mine
<1>10. Mine' = {n}
  BY <1>1, <1>2, <1>6, <1>7, <1>8, <1>9 DEF Mine, Pending
<1> QED  BY <1>2, <1>7, <1>8, <1>9, <1>10 DEF n

-----------------------------------------------------------------------------
(* Room                                                                    *)

\* The writes of a screen are finitely many.
LEMMA FiniteWrites ==
    ASSUME Targets
    PROVE  IsFiniteSet(WritesOf(Mine)) /\ Cardinality(WritesOf(Mine)) \in Nat
<1>1. IsFiniteSet(1..Len(calls))
  BY Positions, FS_Interval
<1>2. WritesOf(Mine) \subseteq 1..Len(calls)
  BY Positions DEF WritesOf, Mine, Pending
<1> QED  BY <1>1, <1>2, FS_Subset, FS_CardinalityType

\* A new write counts for itself.
LEMMA WriteAdded ==
    ASSUME Targets, NEW c \in Call, c.mounted, calls' = Append(calls, c)
    PROVE  Cardinality(WritesOf(Mine))' =
               Cardinality(WritesOf(Mine)) + (IF c.kind \in Writes THEN 1 ELSE 0)
<1> DEFINE n == Len(calls) + 1
<1>1. /\ n \notin DOMAIN calls /\ calls'[n] = c /\ \A j \in DOMAIN calls : calls'[j] = calls[j]
      /\ Mine' = Mine \cup {n} /\ Mine \subseteq DOMAIN calls
  BY CallAdded DEF Mine, Pending
<1> HIDE DEF n
<1>2. WritesOf(Mine)' = IF c.kind \in Writes THEN WritesOf(Mine) \cup {n} ELSE WritesOf(Mine)
  BY <1>1 DEF WritesOf
<1>3. n \notin WritesOf(Mine)
  BY <1>1 DEF WritesOf
<1>4. Cardinality(WritesOf(Mine) \cup {n}) = Cardinality(WritesOf(Mine)) + 1
  BY <1>3, FiniteWrites, FS_AddElement
<1> QED  BY <1>2, <1>4, FiniteWrites

\* An answered write does not count any more.
LEMMA WriteRemoved ==
    ASSUME Targets, NEW i \in Pending, NEW n, n \notin DOMAIN calls,
           Mine' = Mine \ {i} \/ (Mine' = (Mine \ {i}) \cup {n} /\ calls'[n].kind \notin Writes),
           \A j \in DOMAIN calls : j # i => calls'[j] = calls[j]
    PROVE  Cardinality(WritesOf(Mine))' =
               Cardinality(WritesOf(Mine)) - (IF i \in WritesOf(Mine) THEN 1 ELSE 0)
<1>1. WritesOf(Mine)' = WritesOf(Mine) \ {i}
  BY DEF WritesOf, Mine, Pending
<1>2. CASE i \in WritesOf(Mine)
  BY <1>1, <1>2, FiniteWrites, FS_RemoveElement
<1>3. CASE i \notin WritesOf(Mine)
  <2>1. WritesOf(Mine)' = WritesOf(Mine)
    BY <1>1, <1>3
  <2> QED  BY <1>3, <2>1, FiniteWrites
<1> QED  BY <1>2, <1>3

\* An answer on its way changes no count.
LEMMA WritesSame ==
    ASSUME Mine' = Mine, \A j \in Mine : calls'[j].kind = calls[j].kind
    PROVE  Cardinality(WritesOf(Mine))' = Cardinality(WritesOf(Mine))
<1>1. WritesOf(Mine)' = WritesOf(Mine)
  BY DEF WritesOf
<1> QED  BY <1>1

\* Room for a call and the load after it.
LEMMA RoomLeft ==
    ASSUME NEW l \in Nat, NEW w \in Nat, NEW m \in Nat
    PROVE  /\ l + w + 2 <= m => (l + 1) + (w + 1) <= m /\ l + 1 <= m
           /\ l + w + 1 <= m => (l + 1) + w <= m /\ l + 1 <= m
           /\ w # 0 /\ l + w <= m => (l + 1) + (w - 1) <= m /\ l + 1 <= m
           /\ w # 0 /\ l + w <= m => l + (w - 1) <= m
           /\ l + w <= m => l <= m
OBVIOUS

-----------------------------------------------------------------------------
(* What the panel does                                                     *)

\* A step that touches neither calls nor data: a dialog opened or closed.
LEMMA DialogKeeps ==
    ASSUME IInv, UNCHANGED <<server, screen, shown, error, loading, secret, days, calls, history>>,
           open' \in BOOLEAN, editing' \in App \cup {Nothing}
    PROVE  IInv'
<1> USE DEF server, history
<1>1. Pending' = Pending /\ Mine' = Mine
  BY DEF Pending, Mine
<1>2. TypeOK'
  BY DEF IInv, TypeOK
<1>3. Targets' /\ Roomy' /\ Placed'
  BY <1>1, WritesSame DEF IInv, Targets, Roomy, Placed
<1>4. Told' /\ ListAnswered'
  BY <1>1 DEF IInv, Told, ListAnswered
<1>5. \E L \in DOMAIN calls' : Latest(L)'
  <2>1. PICK L \in DOMAIN calls : Latest(L)
    BY DEF IInv
  <2>2. Latest(L)'
    BY <1>1, <2>1 DEF Latest, Fresh
  <2> QED  BY <2>2 DEF Latest
<1> QED  BY <1>2, <1>3, <1>4, <1>5 DEF IInv

\* A write is submitted on a screen that has it.
LEMMA SubmitKeeps ==
    ASSUME IInv, NEW kind \in Writes, NEW target \in App \cup Key \cup {Nothing},
           NEW value \in SUBSET Setting,
           Submit(kind, target, value), UNCHANGED <<server, ui, by, newest, writer, acked>>,
           due' \in SUBSET Key,
           kind \in {"create app", "save app"} => screen = "applications" /\ target \in App,
           kind \in {"create key", "revoke key"} => screen = "credentials",
           kind = "revoke key" => target \in Key
    PROVE  IInv'
<1> DEFINE c == Request(kind, target, value)
           n == Len(calls) + 1
<1>1. /\ c \in Call /\ c.kind = kind /\ c.target = target /\ c.value = value
      /\ c.mounted /\ c.stage = "sent" /\ c.ok = FALSE
  <2>1. /\ kind \in Writes \cup {"load"} /\ target \in App \cup Key \cup Screen \cup {Nothing}
        /\ value \in (SUBSET Setting) \cup Period
    OBVIOUS
  <2> QED  BY <2>1 DEF Request, Call, Answer
<1>2. calls' = Append(calls, c) /\ Room(2)
  BY DEF Submit
<1> HIDE DEF c
<1>3. Targets
  BY DEF IInv
<1>4. /\ calls' \in Seq(Slot) /\ Len(calls') = n
      /\ n \notin DOMAIN calls /\ DOMAIN calls' = DOMAIN calls \cup {n}
      /\ calls'[n] = c /\ \A j \in DOMAIN calls : calls'[j] = calls[j]
      /\ Pending' = Pending \cup {n} /\ Mine' = Mine \cup {n}
  BY <1>1, <1>2, <1>3, CallAdded
<1>5. Len(calls') + Cardinality(WritesOf(Mine))' <= MaxCalls /\ Len(calls') <= MaxCalls
  <2>1. Cardinality(WritesOf(Mine))' = Cardinality(WritesOf(Mine)) + 1
    BY <1>1, <1>2, <1>3, WriteAdded
  <2>2. Len(calls) + Cardinality(WritesOf(Mine)) + 2 <= MaxCalls
    BY <1>2 DEF Room, WritesOf
  <2>3. Len(calls) \in Nat /\ Cardinality(WritesOf(Mine)) \in Nat /\ MaxCalls \in Nat
    BY <1>3, Positions, FiniteWrites, PanelAssumption
  <2>4. (Len(calls) + 1) + (Cardinality(WritesOf(Mine)) + 1) <= MaxCalls /\ Len(calls) + 1 <= MaxCalls
    BY <2>2, <2>3, RoomLeft
  <2> QED  BY <1>4, <2>1, <2>4
<1>6. n \in Nat /\ Mine \subseteq Pending /\ Pending \subseteq DOMAIN calls
  <2>1. Len(calls) + 1 \in Nat
    BY <1>3, Positions
  <2> QED  BY <2>1 DEF Mine, Pending
<1> HIDE DEF n
<1>8. TypeOK'
  BY <1>5 DEF IInv, TypeOK, server, ui, dialogs
<1>9. Targets'
  <2>1. CallOK(c)
    BY <1>1 DEF CallOK, Writes
  <2> QED  BY <1>3, <1>4, <1>6, <2>1 DEF Targets
<1>10. Roomy' /\ Placed' /\ Told'
  BY <1>1, <1>4, <1>5, <1>6 DEF IInv, Roomy, Placed, Told, Writes, ui
<1>11. ListAnswered'
  BY DEF IInv, ListAnswered, ui
<1>12. \E L \in DOMAIN calls' : Latest(L)'
  <2>1. PICK L \in DOMAIN calls : Latest(L)
    BY DEF IInv
  <2>2. /\ screen' = screen /\ shown' = shown /\ error' = error /\ days' = days
        /\ registry' = registry /\ keys' = keys /\ by' = by /\ newest' = newest
        /\ writer' = writer /\ acked' = acked
    BY DEF server, ui
  <2>3. c.kind # "load"
    BY <1>1 DEF Writes
  <2>4. \A i \in Mine' : calls'[i].kind = "load" => i \in Mine /\ calls'[i] = calls[i]
    BY <1>4, <1>6, <2>3
  <2>5. L \in DOMAIN calls' /\ calls'[L] = calls[L] /\ (L \in Mine' <=> L \in Mine)
    BY <1>4, <2>1
  <2>6. \A i \in Mine' : calls'[i].kind = "load" => i <= L
    BY <2>1, <2>4 DEF Latest
  <2>7. Fresh(shown) => Fresh(shown)'
    BY <2>2 DEF Fresh
  <2>8. Fresh(calls[L].answer) => Fresh(calls[L].answer)'
    BY <2>2, <2>5 DEF Fresh
  <2>9. Latest(L)'
    BY <2>1, <2>2, <2>5, <2>6, <2>7, <2>8 DEF Latest
  <2> QED  BY <2>5, <2>9
<1> QED  BY <1>8, <1>9, <1>10, <1>11, <1>12 DEF IInv
\* A load just sent is the latest one of its screen.
LEMMA NewestLoad ==
    ASSUME NEW n \in Nat, n \in Mine', n \in DOMAIN calls', \A i \in Mine' : i <= n,
           calls'[n].kind = "load", calls'[n].stage = "sent",
           screen' = "usage" => calls'[n].value = days',
           by' \in Nat, newest' \in Nat, by' <= newest', newest' < n
    PROVE  Latest(n)'
BY DEF Latest

\* The numbers of a state.
LEMMA Bounds ==
    ASSUME IInv
    PROVE  /\ Len(calls) \in Nat /\ Len(calls) + 1 \in Nat /\ MaxCalls \in Nat
           /\ Cardinality(WritesOf(Mine)) \in Nat
           /\ by \in Nat /\ newest \in Nat
           /\ by <= newest /\ newest < Len(calls) + 1
           /\ \A i \in Mine : i \in Pending /\ i \in DOMAIN calls /\ i \in Nat /\ i # 0 /\ i <= Len(calls) + 1
           /\ Len(calls) + 1 <= Len(calls) + 1
           /\ \A i \in Pending : i \in DOMAIN calls
           /\ \A i \in acked : i \notin Pending /\ i \in DOMAIN calls
<1>1. /\ Len(calls) \in Nat /\ Len(calls) + 1 \in Nat
      /\ \A i \in DOMAIN calls : i \in Nat /\ i # 0 /\ i <= Len(calls)
  BY Positions DEF IInv
<1>2. MaxCalls \in Nat /\ Cardinality(WritesOf(Mine)) \in Nat
  BY PanelAssumption, FiniteWrites DEF IInv
<1>3. by \in Nat /\ newest \in Nat
  BY <1>2 DEF IInv, TypeOK
<1>4. PICK L \in DOMAIN calls : Latest(L)
  BY DEF IInv
<1>5. L \in Nat /\ L <= Len(calls) /\ by <= newest /\ newest <= L
  BY <1>1, <1>4 DEF Latest
<1>6. newest < Len(calls) + 1
  BY <1>1, <1>3, <1>5
<1>7. \A i \in Mine : i \in Pending /\ i \in DOMAIN calls
  BY DEF Mine, Pending
<1>8. Len(calls) + 1 <= Len(calls) + 1 /\ \A i \in DOMAIN calls : i <= Len(calls) + 1
  BY <1>1
<1>9. \A i \in acked : i \notin Pending /\ i \in DOMAIN calls
  BY DEF IInv, Told, Pending
<1>10. \A i \in Pending : i \in DOMAIN calls
  BY DEF Pending
<1> QED  BY <1>1, <1>2, <1>3, <1>5, <1>6, <1>7, <1>8, <1>9, <1>10

\* Another period of Usage.
LEMMA SelectKeeps ==
    ASSUME IInv, NEW d \in Period, SelectPeriod(d)
    PROVE  IInv'
<1> DEFINE c == Load("usage", d)
<1>0. PICK n : n = Len(calls) + 1
  OBVIOUS
<1>1. /\ c \in Call /\ c.kind = "load" /\ c.target = "usage" /\ c.value = d
      /\ c.mounted /\ c.stage = "sent" /\ c.ok = FALSE
  <2>1. "usage" \in Screen
    BY DEF Screen
  <2> QED  BY <2>1, LoadIsCall
<1>2. /\ calls' = Append(calls, c) /\ Room(1) /\ days' = d /\ error' = FALSE /\ screen = "usage"
      /\ UNCHANGED <<server, screen, shown, loading, dialogs, secret, history>>
  BY DEF SelectPeriod
<1> HIDE DEF c
<1>3. Targets
  BY DEF IInv
<1>4. /\ calls' \in Seq(Slot) /\ Len(calls') = n
      /\ n \notin DOMAIN calls /\ DOMAIN calls' = DOMAIN calls \cup {n}
      /\ calls'[n] = c /\ \A j \in DOMAIN calls : calls'[j] = calls[j]
      /\ Pending' = Pending \cup {n} /\ Mine' = Mine \cup {n}
  BY <1>0, <1>1, <1>2, <1>3, CallAdded
<1>5. Len(calls') + Cardinality(WritesOf(Mine))' <= MaxCalls /\ Len(calls') <= MaxCalls
  <2>1. Cardinality(WritesOf(Mine))' = Cardinality(WritesOf(Mine))
    <3>1. Cardinality(WritesOf(Mine))' = Cardinality(WritesOf(Mine)) + 0
      BY <1>1, <1>2, <1>3, WriteAdded DEF Writes
    <3> QED  BY <3>1, Bounds
  <2>2. Len(calls) + Cardinality(WritesOf(Mine)) + 1 <= MaxCalls
    BY <1>2 DEF Room, WritesOf
  <2>3. (Len(calls) + 1) + Cardinality(WritesOf(Mine)) <= MaxCalls /\ Len(calls) + 1 <= MaxCalls
    BY <2>2, Bounds, RoomLeft
  <2> QED  BY <1>0, <1>4, <2>1, <2>3
<1>6. /\ n \in Nat /\ by \in Nat /\ newest \in Nat /\ by <= newest /\ newest < n
      /\ \A i \in Mine : i <= n
  BY <1>0, Bounds
<1>7. Mine \subseteq Pending /\ Pending \subseteq DOMAIN calls /\ \A i \in acked : i \in DOMAIN calls
  BY Bounds
<1>8. TypeOK'
  <2>1. /\ registry' = registry /\ keys' = keys /\ edits' = edits /\ screen' = screen
        /\ loading' = loading /\ open' = open /\ editing' = editing /\ secret' = secret
        /\ by' = by /\ newest' = newest /\ writer' = writer /\ acked' = acked /\ due' = due
    BY <1>2 DEF server, dialogs, history
  <2> QED  BY <1>2, <1>5, <2>1 DEF IInv, TypeOK
<1>9. Targets'
  <2>1. CallOK(c)
    BY <1>1 DEF CallOK, Writes
  <2> QED  BY <1>3, <1>4, <1>7, <2>1 DEF Targets
<1>10. Roomy' /\ Placed' /\ Told'
  <2>1. Roomy'
    BY <1>5 DEF Roomy
  <2>2. Placed'
    <3>1. screen' = screen /\ Placed
      BY <1>2 DEF IInv
    <3>2. /\ calls'[n].kind = "load" /\ calls'[n].target = screen
          /\ \A j \in Mine : calls'[j] = calls[j]
      BY <1>1, <1>2, <1>4, <1>7
    <3> QED  BY <1>4, <3>1, <3>2 DEF Placed
  <2>3. Told'
    BY <1>2, <1>4, <1>7 DEF IInv, Told, history
  <2> QED  BY <2>1, <2>2, <2>3
<1>12. ListAnswered'
  BY <1>2 DEF ListAnswered, Lists
<1>13. Latest(n)'
  <2>1. n \in Mine' /\ n \in DOMAIN calls' /\ \A i \in Mine' : i <= n
    BY <1>4, <1>6
  <2>2. calls'[n].kind = "load" /\ calls'[n].stage = "sent" /\ calls'[n].value = days'
    BY <1>1, <1>2, <1>4
  <2>3. by' = by /\ newest' = newest
    BY <1>2 DEF history
  <2>4. by' \in Nat /\ newest' \in Nat /\ by' <= newest' /\ newest' < n
    BY <1>6, <2>3
  <2> QED  BY <1>6, <2>1, <2>2, <2>4, NewestLoad
<1>14. \E L \in DOMAIN calls' : Latest(L)'
  BY <1>4, <1>13
<1> QED  BY <1>8, <1>9, <1>10, <1>12, <1>14 DEF IInv

\* A screen is mounted: its only call is its load.
LEMMA MountKeeps ==
    ASSUME IInv, NEW s \in Screen, Mount(s)
    PROVE  IInv'
<1> DEFINE c == Load(s, Default)
<1>0. PICK n : n = Len(calls) + 1
  OBVIOUS
<1>1. /\ c \in Call /\ c.kind = "load" /\ c.target = s /\ c.value = Default
      /\ c.mounted /\ c.stage = "sent" /\ c.ok = FALSE
  <2>1. Default \in Period
    BY PanelAssumption
  <2> QED  BY <2>1, LoadIsCall
<1>2. /\ calls' = Append(Abandoned, c) /\ Room(1)
      /\ screen' = s /\ error' = FALSE /\ loading' = (s \in Lists)
      /\ open' = FALSE /\ editing' = Nothing /\ secret' = Nothing /\ days' = Default
      /\ by' = 0 /\ newest' = 0
      /\ due' = {}
      /\ UNCHANGED <<server, writer, acked>>
  BY DEF Mount
<1> HIDE DEF c
<1>3. Targets
  BY DEF IInv
<1>4. /\ calls' \in Seq(Slot) /\ Len(calls') = n
      /\ n \notin DOMAIN calls /\ DOMAIN calls' = DOMAIN calls \cup {n}
      /\ calls'[n] = c /\ \A j \in DOMAIN calls \ Mine : calls'[j] = calls[j]
      /\ \A j \in Mine : calls'[j] = Over \/ calls'[j] = [calls[j] EXCEPT !.mounted = FALSE]
      /\ Pending' \subseteq Pending \cup {n} /\ Mine' = {n}
  BY <1>0, <1>1, <1>2, <1>3, CallsAbandoned
<1>5. Roomy' /\ Len(calls') <= MaxCalls
  <2>1. Cardinality(WritesOf(Mine)') = 0
    <3>1. WritesOf(Mine)' = {}
      BY <1>1, <1>4 DEF WritesOf, Writes
    <3> QED  BY <3>1, FS_EmptySet
  <2>2. Len(calls) + Cardinality(WritesOf(Mine)) + 1 <= MaxCalls
    BY <1>2 DEF Room, WritesOf
  <2>3. Len(calls) + 1 <= MaxCalls
    BY <2>2, Bounds, RoomLeft
  <2>4. n + 0 <= MaxCalls
    BY <1>0, <2>3, Bounds
  <2> QED  BY <1>4, <2>1, <2>3, <2>4, <1>0 DEF Roomy
<1>6. n \in Nat /\ 0 < n
  BY <1>0, Bounds
<1>7. TypeOK'
  <2>1. due' \in SUBSET Key
    BY <1>2 DEF IInv, TypeOK
  <2>2. 0 \in 0..MaxCalls
    BY Bounds
  <2>3. by' \in 0..MaxCalls /\ newest' \in 0..MaxCalls
    BY <1>2, <2>2
  <2>4. /\ screen' \in Screen /\ error' \in BOOLEAN /\ loading' \in BOOLEAN /\ open' \in BOOLEAN
        /\ editing' \in App \cup {Nothing} /\ secret' \in Key \cup {Nothing} /\ days' \in Period
    <3>1. loading' \in BOOLEAN
      <4>1. loading' = (s \in Lists)
        BY <1>2
      <4>2. (s \in Lists) \in BOOLEAN
        OBVIOUS
      <4> QED  BY <4>1, <4>2
    <3>2. Default \in Period
      BY PanelAssumption
    <3> QED  BY <1>2, <3>1, <3>2
  <2>5. registry' = registry /\ keys' = keys /\ edits' = edits /\ writer' = writer /\ acked' = acked
    BY <1>2 DEF server
  <2> QED  BY <1>5, <2>1, <2>3, <2>4, <2>5 DEF IInv, TypeOK
<1>8. Targets'
  <2>1. ASSUME NEW j \in Pending'
        PROVE  CallOK(calls'[j])
    <3>1. CASE j = n
      BY <1>1, <1>4, <3>1, PanelAssumption DEF CallOK, Writes
    <3>2. CASE j # n
      <4>1. j \in Pending /\ calls'[j] # Over /\ j \in DOMAIN calls /\ calls[j] \in Call
        BY <1>3, <1>4, <2>1, <3>2, PendingCall DEF Pending
      <4>2. CallOK(calls[j])
        BY <1>3, <4>1 DEF Targets
      <4>3. CASE j \notin Mine
        BY <1>4, <4>1, <4>2, <4>3
      <4>4. CASE j \in Mine
        <5>1. calls'[j] = [calls[j] EXCEPT !.mounted = FALSE]
          BY <1>4, <4>1, <4>4
        <5>2. /\ calls'[j].kind = calls[j].kind /\ calls'[j].target = calls[j].target
              /\ calls'[j].value = calls[j].value /\ calls'[j].stage = calls[j].stage
              /\ calls'[j].ok = calls[j].ok /\ calls'[j].answer = calls[j].answer
          BY <4>1, <5>1 DEF Call
        <5> QED  BY <4>2, <5>2 DEF CallOK
      <4> QED  BY <4>3, <4>4
    <3> QED  BY <3>1, <3>2
  <2> QED  BY <1>4, <2>1 DEF Targets
<1>9. Placed'
  BY <1>1, <1>2, <1>4 DEF Placed, Writes
<1>10. Told'
  <2>1. \A i \in acked : i \in DOMAIN calls \ Mine /\ calls[i] = Over
    BY Bounds DEF IInv, Told
  <2> QED  BY <1>2, <1>4, <2>1 DEF Told
<1>12. ListAnswered'
  BY <1>2 DEF ListAnswered
<1>13. Latest(n)'
  <2>1. n \in Mine' /\ n \in DOMAIN calls' /\ \A i \in Mine' : i <= n
    BY <1>4, <1>6
  <2>2. calls'[n].kind = "load" /\ calls'[n].stage = "sent" /\ calls'[n].value = days'
    BY <1>1, <1>2, <1>4
  <2>3. by' \in Nat /\ newest' \in Nat /\ by' <= newest' /\ newest' < n
    <3>1. by' = 0 /\ newest' = 0
      BY <1>2
    <3> QED  BY <1>6, <3>1
  <2> QED  BY <1>6, <2>1, <2>2, <2>3, NewestLoad
<1>14. \E L \in DOMAIN calls' : Latest(L)'
  BY <1>4, <1>13
<1> QED  BY <1>5, <1>7, <1>8, <1>9, <1>10, <1>12, <1>14 DEF IInv

-----------------------------------------------------------------------------
(* What the server does                                                    *)

\* What was current stays so while no acknowledged write is undone.
LEMMA FreshStays ==
    ASSUME NEW data, Fresh(data), UNCHANGED <<screen, days, acked>>,
           \A a \in App : writer'[a] \in acked => writer[a] \in acked /\ registry'[a] = registry[a],
           \A k \in Key : writer'[k] \in acked => writer[k] \in acked /\ keys'[k] = keys[k]
    PROVE  Fresh(data)'
BY DEF Fresh

\* A call is served or refused, or its answer is lost: no acknowledged write is undone.
LEMMA ServedKeeps ==
    ASSUME IInv, NEW i \in Pending, NEW ok \in BOOLEAN, NEW answer \in Answer,
           calls' = Answered(i, ok, answer),
           UNCHANGED <<edits, ui, by, newest, acked>>,
           registry' \in [App -> Row], keys' \in [Key -> State],
           writer' \in [App \cup Key -> 0..MaxCalls], due' \in SUBSET Key,
           \A a \in App : writer'[a] \in acked => writer[a] \in acked /\ registry'[a] = registry[a],
           \A k \in Key : writer'[k] \in acked => writer[k] \in acked /\ keys'[k] = keys[k],
           calls[i].kind = "create key" /\ ok => answer \in Key,
           ok /\ i \in Mine /\ Latest(i) => Fresh(answer)
    PROVE  IInv'
<1>1. Targets
  BY DEF IInv
<1>2. /\ calls' \in Seq(Slot) /\ Len(calls') = Len(calls) /\ DOMAIN calls' = DOMAIN calls
      /\ \A j \in DOMAIN calls : j # i => calls'[j] = calls[j]
      /\ calls'[i].kind = calls[i].kind /\ calls'[i].target = calls[i].target
      /\ calls'[i].value = calls[i].value /\ calls'[i].mounted = calls[i].mounted
      /\ calls'[i].stage = "answered" /\ calls'[i].ok = ok /\ calls'[i].answer = answer
      /\ Pending' = Pending /\ Mine' = Mine
  BY <1>1, CallAnswered
<1>3. /\ screen' = screen /\ shown' = shown /\ error' = error /\ loading' = loading /\ open' = open
      /\ editing' = editing /\ secret' = secret /\ days' = days
      /\ edits' = edits /\ by' = by /\ newest' = newest /\ acked' = acked
  BY DEF ui, dialogs
<1>4. /\ Mine \subseteq DOMAIN calls /\ Pending \subseteq DOMAIN calls
      /\ \A j \in acked : j \in DOMAIN calls /\ j # i
  BY Bounds
<1>5. TypeOK'
  BY <1>2, <1>3 DEF IInv, TypeOK
<1>6. Targets'
  <2>1. ASSUME NEW j \in Pending
        PROVE  CallOK(calls'[j])
    <3>1. CallOK(calls[j])
      BY <1>1 DEF Targets
    <3>2. CASE j = i
      BY <1>2, <3>1, <3>2 DEF CallOK
    <3>3. CASE j # i
      BY <1>2, <1>4, <3>1, <3>3
    <3> QED  BY <3>2, <3>3
  <2> QED  BY <1>2, <2>1 DEF Targets
<1>7. Roomy'
  <2>1. \A j \in Mine : calls'[j].kind = calls[j].kind
    BY <1>2, <1>4
  <2>2. Cardinality(WritesOf(Mine))' = Cardinality(WritesOf(Mine))
    BY <1>2, <2>1, WritesSame
  <2> QED  BY <1>2, <2>2 DEF IInv, Roomy
<1>8. Placed'
  <2>1. /\ screen' = screen /\ Mine' = Mine
        /\ \A j \in Mine : calls'[j].kind = calls[j].kind /\ calls'[j].target = calls[j].target
    BY <1>2, <1>3, <1>4
  <2> QED  BY <2>1 DEF IInv, Placed
<1>9. Told' /\ ListAnswered'
  BY <1>2, <1>3, <1>4 DEF IInv, Told, ListAnswered
<1>11. \E L \in DOMAIN calls' : Latest(L)'
  <2>1. PICK L \in DOMAIN calls : Latest(L)
    BY DEF IInv
  <2>2. by' = L => Fresh(shown)'
    <3>1. ASSUME by = L PROVE Fresh(shown)'
      <4>1. Fresh(shown)
        BY <2>1, <3>1 DEF Latest
      <4> QED  BY <1>3, <4>1 DEF Fresh
    <3> QED  BY <1>3, <3>1
  <2>3. ASSUME L \in Mine
        PROVE  /\ calls'[L].kind = "load"
               /\ screen' = "usage" => calls'[L].value = days'
               /\ calls'[L].stage = "answered" /\ calls'[L].ok => Fresh(calls[L].answer)'
    <3>1. calls'[L].kind = "load" /\ (screen' = "usage" => calls'[L].value = days')
      BY <1>2, <1>3, <2>1, <2>3 DEF Latest
    <3>2. CASE L = i
      <4>1. ok => Fresh(answer)
        BY <2>1, <2>3, <3>2
      <4>2. ok => Fresh(answer)'
        BY <1>3, <4>1, FreshStays
      <4>3. calls'[L].answer = answer /\ calls'[L].ok = ok
        BY <1>2, <3>2
      <4>4. ok => Fresh(calls[L].answer)'
        BY <4>2, <4>3 DEF Fresh
      <4> QED  BY <3>1, <4>3, <4>4
    <3>3. CASE L # i
      <4>1. calls'[L] = calls[L]
        BY <1>2, <2>1, <3>3
      <4>2. calls[L].stage = "answered" /\ calls[L].ok => Fresh(calls[L].answer)
        BY <2>1, <2>3 DEF Latest
      <4> QED  BY <1>3, <3>1, <4>1, <4>2 DEF Fresh
    <3> QED  BY <3>2, <3>3
  <2>4. /\ L \in DOMAIN calls' /\ by' <= newest' /\ newest' <= L
        /\ error' \/ newest' = L \/ L \in Mine'
    BY <1>2, <1>3, <2>1 DEF Latest
  <2>5. \A j \in Mine' : calls'[j].kind = "load" => j <= L
    <3>1. \A j \in Mine : calls[j].kind = "load" => j <= L
      BY <2>1 DEF Latest
    <3>2. Mine' = Mine /\ \A j \in Mine : calls'[j].kind = calls[j].kind
      BY <1>2, <1>4
    <3> QED  BY <3>1, <3>2
  <2>6. Latest(L)'
    BY <1>2, <2>2, <2>3, <2>4, <2>5 DEF Latest
  <2> QED  BY <1>2, <2>6
<1> QED  BY <1>5, <1>6, <1>7, <1>8, <1>9, <1>11 DEF IInv
\* A change by a call that is no acknowledged write, or by somebody else.
LEMMA Written ==
    ASSUME TypeOK, NEW x \in App \cup Key, NEW j \in 0..MaxCalls, j \notin acked, Wrote(j, x)
    PROVE  /\ writer' \in [App \cup Key -> 0..MaxCalls]
           /\ \A y \in App \cup Key : writer'[y] \in acked => y # x /\ writer[y] \in acked
BY DEF Wrote, TypeOK

\* A call under way is none of the acknowledged writes.
LEMMA PendingNumber ==
    ASSUME IInv, NEW i \in Pending
    PROVE  i \in 0..MaxCalls /\ i \in 1..MaxCalls /\ i \notin acked /\ i # 0
<1>1. i \in Nat /\ i # 0 /\ i <= Len(calls) /\ Len(calls) \in Nat
  BY Positions DEF IInv, Pending
<1>2. Len(calls) <= MaxCalls /\ MaxCalls \in Nat
  BY PanelAssumption DEF IInv, TypeOK
<1>3. i \notin acked
  BY Bounds
<1> QED  BY <1>1, <1>2, <1>3

\* A load is answered with the data of that moment.
LEMMA ServeLoadKeeps ==
    ASSUME IInv, NEW i \in Pending, ServeLoad(i)
    PROVE  IInv'
<1>1. PICK answer : answer = CASE calls[i].target = "applications" -> registry
                               [] calls[i].target = "credentials" -> keys
                               [] OTHER -> calls[i].value
  OBVIOUS
<1>2. /\ calls[i].kind = "load" /\ calls' = Answered(i, TRUE, answer) /\ UNCHANGED <<server, ui, history>>
  BY <1>1 DEF ServeLoad, Sent
<1>3. /\ registry \in [App -> Row] /\ keys \in [Key -> State] /\ calls[i].value \in Period
      /\ writer \in [App \cup Key -> 0..MaxCalls] /\ due \in SUBSET Key
  BY <1>2 DEF IInv, TypeOK, Targets, CallOK
<1>4. answer \in Answer
  BY <1>1, <1>3 DEF Answer
<1>5. i \in Mine /\ Latest(i) => Fresh(answer)
  <2>1. HAVE i \in Mine /\ Latest(i)
  <2>2. calls[i].target = screen
    BY <1>2, <2>1 DEF IInv, Placed
  <2>3. screen = "usage" => calls[i].value = days
    BY <2>1 DEF Latest
  <2> QED  BY <1>1, <1>3, <2>2, <2>3 DEF Fresh
<1>6. calls[i].kind # "create key"
  BY <1>2
<1>7. /\ registry' = registry /\ keys' = keys /\ edits' = edits /\ writer' = writer /\ due' = due
      /\ UNCHANGED <<edits, ui, by, newest, acked>>
  BY <1>2 DEF server, history
<1> QED  BY <1>2, <1>3, <1>4, <1>5, <1>6, <1>7, ServedKeeps

\* An application is created or saved.
LEMMA ServeApplicationKeeps ==
    ASSUME IInv, NEW i \in Pending, ServeCreate(i) \/ ServeSave(i)
    PROVE  IInv'
<1> DEFINE a == calls[i].target
<1>1. /\ calls[i].kind \in {"create app", "save app"} /\ UNCHANGED <<keys, edits, ui, by, newest, acked, due>>
      /\ \/ \E row \in Row : /\ registry' = [registry EXCEPT ![a] = row] /\ Wrote(i, a)
                             /\ calls' = Answered(i, TRUE, Nothing)
         \/ calls' = Answered(i, FALSE, Nothing) /\ UNCHANGED <<registry, writer>>
  <2>1. CASE ServeCreate(i)
    BY <2>1 DEF ServeCreate, Sent, Row
  <2>2. CASE ServeSave(i)
    <3>1. calls[i].value \in Row
      BY <2>2 DEF IInv, Targets, CallOK, ServeSave, Sent, Row
    <3> QED  BY <2>2, <3>1 DEF ServeSave, Sent
  <2> QED  BY <2>1, <2>2
<1>2. a \in App
  BY <1>1 DEF IInv, Targets, CallOK
<1>3. /\ TypeOK /\ registry \in [App -> Row] /\ keys \in [Key -> State]
      /\ writer \in [App \cup Key -> 0..MaxCalls] /\ due \in SUBSET Key
  BY DEF IInv, TypeOK
<1>4. Nothing \in Answer
  BY DEF Answer
<1>5. i \in Mine => ~Latest(i)
  BY <1>1 DEF Latest
<1>6. calls[i].kind # "create key"
  BY <1>1
<1>7. /\ registry' \in [App -> Row] /\ writer' \in [App \cup Key -> 0..MaxCalls]
      /\ \A b \in App : writer'[b] \in acked => writer[b] \in acked /\ registry'[b] = registry[b]
      /\ \A k \in Key : writer'[k] \in acked => writer[k] \in acked
  <2>1. CASE UNCHANGED <<registry, writer>>
    BY <1>3, <2>1
  <2>2. ASSUME NEW row \in Row, registry' = [registry EXCEPT ![a] = row], Wrote(i, a)
        PROVE  <1>7!:
    <3>1. /\ writer' \in [App \cup Key -> 0..MaxCalls]
          /\ \A y \in App \cup Key : writer'[y] \in acked => y # a /\ writer[y] \in acked
      BY <1>2, <1>3, <2>2, PendingNumber, Written
    <3> HIDE DEF a
    <3> QED  BY <1>2, <1>3, <2>2, <3>1
  <2> QED  BY <1>1, <2>1, <2>2
<1>8. \E ok \in BOOLEAN : calls' = Answered(i, ok, Nothing)
  BY <1>1
<1> QED  BY <1>1, <1>3, <1>4, <1>5, <1>6, <1>7, <1>8, ServedKeeps
\* A key is created, which nobody has seen yet.
LEMMA ServeKeyKeeps ==
    ASSUME IInv, NEW i \in Pending, ServeKey(i)
    PROVE  IInv'
<1>1. PICK k \in Key :
        /\ calls[i].kind = "create key" /\ calls[i].stage = "sent"
        /\ keys' = [keys EXCEPT ![k] = "live"] /\ Wrote(i, k) /\ calls' = Answered(i, TRUE, k)
        /\ due' = (IF calls[i].mounted THEN due \cup {k} ELSE due)
        /\ UNCHANGED <<registry, edits, ui, by, newest, acked>>
  <2> DEFINE fresh == {x \in Key : keys[x] = "none"}
  <2>1. fresh # {}
    BY DEF ServeKey
  <2>2. (CHOOSE x \in fresh : TRUE) \in fresh
    BY <2>1
  <2>3. (CHOOSE x \in fresh : TRUE) \in Key
    BY <2>2
  <2> QED  BY <2>3 DEF ServeKey, Sent
<1>2. /\ TypeOK /\ registry \in [App -> Row] /\ keys \in [Key -> State]
      /\ writer \in [App \cup Key -> 0..MaxCalls] /\ due \in SUBSET Key
  BY DEF IInv, TypeOK
<1>3. k \in Answer
  BY DEF Answer
<1>4. i \in Mine => ~Latest(i)
  BY <1>1 DEF Latest
<1>5. /\ writer' \in [App \cup Key -> 0..MaxCalls]
      /\ \A y \in App \cup Key : writer'[y] \in acked => y # k /\ writer[y] \in acked
  BY <1>1, <1>2, PendingNumber, Written
<1>6. /\ keys' \in [Key -> State]
      /\ \A b \in Key : writer'[b] \in acked => writer[b] \in acked /\ keys'[b] = keys[b]
      /\ \A a \in App : writer'[a] \in acked => writer[a] \in acked
  BY <1>1, <1>2, <1>5 DEF State
<1>8. due' \in SUBSET Key
  BY <1>1, <1>2
<1> QED  BY <1>1, <1>2, <1>3, <1>4, <1>5, <1>6, <1>8, ServedKeeps

\* A key is revoked.
LEMMA ServeRevokeKeeps ==
    ASSUME IInv, NEW i \in Pending, ServeRevoke(i)
    PROVE  IInv'
<1> DEFINE k == calls[i].target
<1>1. /\ calls[i].kind = "revoke key" /\ UNCHANGED <<registry, edits, ui, by, newest, acked, due>>
      /\ \/ /\ keys' = [keys EXCEPT ![k] = "revoked"] /\ Wrote(i, k)
            /\ calls' = Answered(i, TRUE, Nothing)
         \/ calls' = Answered(i, FALSE, Nothing) /\ UNCHANGED <<keys, writer>>
  BY DEF ServeRevoke, Sent
<1>2. k \in Key
  BY <1>1 DEF IInv, Targets, CallOK
<1>3. /\ TypeOK /\ registry \in [App -> Row] /\ keys \in [Key -> State]
      /\ writer \in [App \cup Key -> 0..MaxCalls] /\ due \in SUBSET Key
  BY DEF IInv, TypeOK
<1>4. Nothing \in Answer
  BY DEF Answer
<1>5. i \in Mine => ~Latest(i)
  BY <1>1 DEF Latest
<1>6. calls[i].kind # "create key"
  BY <1>1
<1>7. /\ keys' \in [Key -> State] /\ writer' \in [App \cup Key -> 0..MaxCalls]
      /\ \A b \in Key : writer'[b] \in acked => writer[b] \in acked /\ keys'[b] = keys[b]
      /\ \A a \in App : writer'[a] \in acked => writer[a] \in acked
  <2>1. CASE UNCHANGED <<keys, writer>>
    BY <1>3, <2>1
  <2>2. CASE keys' = [keys EXCEPT ![k] = "revoked"] /\ Wrote(i, k)
    <3>1. /\ writer' \in [App \cup Key -> 0..MaxCalls]
          /\ \A y \in App \cup Key : writer'[y] \in acked => y # k /\ writer[y] \in acked
      BY <1>2, <1>3, <2>2, PendingNumber, Written
    <3> HIDE DEF k
    <3> QED  BY <1>2, <1>3, <2>2, <3>1 DEF State
  <2> QED  BY <1>1, <2>1, <2>2
<1>8. \E ok \in BOOLEAN : calls' = Answered(i, ok, Nothing)
  BY <1>1
<1> QED  BY <1>1, <1>3, <1>4, <1>5, <1>6, <1>7, <1>8, ServedKeeps

\* A call is refused, or its answer is lost; a key whose answer is lost is nobody's to show.
LEMMA RefuseKeeps ==
    ASSUME IInv, NEW i \in Pending, Refuse(i) \/ LoseAnswer(i)
    PROVE  IInv'
<1>1. /\ calls' = Answered(i, FALSE, Nothing) /\ UNCHANGED <<server, ui, by, newest, writer, acked>>
      /\ due' \subseteq due
  BY DEF Refuse, LoseAnswer, history
<1>2. /\ registry \in [App -> Row] /\ keys \in [Key -> State]
      /\ writer \in [App \cup Key -> 0..MaxCalls] /\ due \in SUBSET Key
  BY DEF IInv, TypeOK
<1>3. Nothing \in Answer
  BY DEF Answer
<1>4. /\ registry' = registry /\ keys' = keys /\ writer' = writer /\ due' \in SUBSET Key
      /\ UNCHANGED <<edits, ui, by, newest, acked>>
  BY <1>1, <1>2 DEF server
<1> QED  BY <1>1, <1>2, <1>3, <1>4, ServedKeeps

\* A call is served or refused.
LEMMA ServeKeeps ==
    ASSUME IInv, NEW i \in Pending, Serve(i)
    PROVE  IInv'
BY ServeLoadKeeps, ServeApplicationKeeps, ServeKeyKeeps, ServeRevokeKeeps, RefuseKeeps DEF Serve

\* Somebody else saves an application or revokes a key: what the panel was told of it
\* is no longer its last change.
LEMMA OtherEditKeeps ==
    ASSUME IInv, OtherEdit
    PROVE  IInv'
<1>1. /\ edits < MaxEdits /\ edits' = edits + 1 /\ UNCHANGED <<ui, calls, by, newest, acked, due>>
      /\ \/ \E a \in App, row \in Row : /\ registry' = [registry EXCEPT ![a] = row] /\ Wrote(0, a)
                                        /\ UNCHANGED keys
         \/ \E k \in Key : /\ keys' = [keys EXCEPT ![k] = "revoked"] /\ Wrote(0, k)
                           /\ UNCHANGED registry
  BY DEF OtherEdit, Row
<1>2. /\ TypeOK /\ registry \in [App -> Row] /\ keys \in [Key -> State]
      /\ writer \in [App \cup Key -> 0..MaxCalls]
  BY DEF IInv, TypeOK
<1>3. 0 \in 0..MaxCalls /\ 0 \notin acked
  BY Bounds DEF IInv, TypeOK
<1>4. edits' \in 0..MaxEdits
  BY <1>1, PanelAssumption DEF IInv, TypeOK
<1>5. /\ registry' \in [App -> Row] /\ keys' \in [Key -> State]
      /\ writer' \in [App \cup Key -> 0..MaxCalls]
      /\ \A a \in App : writer'[a] \in acked => writer[a] \in acked /\ registry'[a] = registry[a]
      /\ \A k \in Key : writer'[k] \in acked => writer[k] \in acked /\ keys'[k] = keys[k]
  <2>1. ASSUME NEW a \in App, NEW row \in Row,
               registry' = [registry EXCEPT ![a] = row], Wrote(0, a), UNCHANGED keys
        PROVE  <1>5!:
    <3>1. /\ writer' \in [App \cup Key -> 0..MaxCalls]
          /\ \A y \in App \cup Key : writer'[y] \in acked => y # a /\ writer[y] \in acked
      BY <1>2, <1>3, <2>1, Written
    <3> QED  BY <1>2, <2>1, <3>1
  <2>2. ASSUME NEW k \in Key, keys' = [keys EXCEPT ![k] = "revoked"], Wrote(0, k), UNCHANGED registry
        PROVE  <1>5!:
    <3>1. /\ writer' \in [App \cup Key -> 0..MaxCalls]
          /\ \A y \in App \cup Key : writer'[y] \in acked => y # k /\ writer[y] \in acked
      BY <1>2, <1>3, <2>2, Written
    <3> QED  BY <1>2, <2>2, <3>1 DEF State
  <2> QED  BY <1>1, <2>1, <2>2
<1>6. /\ screen' = screen /\ shown' = shown /\ error' = error /\ loading' = loading /\ open' = open
      /\ editing' = editing /\ secret' = secret /\ days' = days
      /\ calls' = calls /\ by' = by /\ newest' = newest /\ acked' = acked /\ due' = due
  BY <1>1 DEF ui, dialogs
<1>7. Pending' = Pending /\ Mine' = Mine
  BY <1>6 DEF Pending, Mine
<1>8. TypeOK'
  BY <1>4, <1>5, <1>6 DEF IInv, TypeOK
<1>9. Targets' /\ Roomy' /\ Placed'
  BY <1>6, <1>7, WritesSame DEF IInv, Targets, Roomy, Placed
<1>10. Told' /\ ListAnswered'
  BY <1>6, <1>7 DEF IInv, Told, ListAnswered
<1>11. \E L \in DOMAIN calls' : Latest(L)'
  <2>1. PICK L \in DOMAIN calls : Latest(L)
    BY DEF IInv
  <2>2. PICK brought : brought = calls[L].answer
    OBVIOUS
  <2>3. Fresh(brought) => Fresh(brought)'
    BY <1>5, <1>6, FreshStays
  <2>4. PICK data : data = shown
    OBVIOUS
  <2>5. Fresh(data) => Fresh(data)'
    BY <1>5, <1>6, FreshStays
  <2>6. Fresh(calls[L].answer) => Fresh(calls[L].answer)'
    BY <1>6, <2>2, <2>3 DEF Fresh
  <2>7. Fresh(shown) => Fresh(shown)'
    BY <1>6, <2>4, <2>5 DEF Fresh
  <2>8. Latest(L)'
    BY <1>6, <1>7, <2>1, <2>6, <2>7 DEF Latest
  <2> QED  BY <1>6, <2>8
<1> QED  BY <1>8, <1>9, <1>10, <1>11 DEF IInv
-----------------------------------------------------------------------------
(* Answers                                                                 *)

\* The answer to a load is displayed: the latest one brings the current data.
LEMMA LoadAnswerKeeps ==
    ASSUME IInv, NEW i \in Pending, LoadAnswer(i)
    PROVE  IInv'
<1>1. /\ i \in Mine /\ calls[i].kind = "load" /\ calls[i].stage = "answered"
      /\ calls' = Forget(i) /\ loading' = FALSE
      /\ UNCHANGED <<server, screen, dialogs, secret, days, writer, acked, due>>
  BY DEF LoadAnswer, Ready
<1>2. \/ /\ calls[i].ok /\ shown' = calls[i].answer /\ by' = i /\ error' = error
         /\ newest' = IF i > newest THEN i ELSE newest
      \/ ~calls[i].ok /\ error' = TRUE /\ shown' = shown /\ by' = by /\ newest' = newest
  BY DEF LoadAnswer
<1>3. Targets
  BY DEF IInv
<1>4. /\ calls' \in Seq(Slot) /\ Len(calls') = Len(calls) /\ DOMAIN calls' = DOMAIN calls
      /\ calls'[i] = Over /\ \A j \in DOMAIN calls : j # i => calls'[j] = calls[j]
      /\ Pending' = Pending \ {i} /\ Mine' = Mine \ {i}
  BY <1>1, <1>3, CallHandled
<1>5. /\ registry' = registry /\ keys' = keys /\ edits' = edits /\ screen' = screen
      /\ open' = open /\ editing' = editing /\ secret' = secret /\ days' = days
      /\ writer' = writer /\ acked' = acked /\ due' = due
  BY <1>1 DEF server, dialogs
<1>6. i \in Nat /\ i # 0 /\ by \in Nat /\ newest \in Nat /\ by <= newest /\ i \in DOMAIN calls
  BY <1>1, Bounds
<1>7. i \in 0..MaxCalls
  BY PendingNumber
<1>8. /\ by' \in Nat /\ newest' \in Nat /\ by' <= newest'
      /\ by' \in 0..MaxCalls /\ newest' \in 0..MaxCalls
  <2>1. by \in 0..MaxCalls /\ newest \in 0..MaxCalls
    BY DEF IInv, TypeOK
  <2> QED  BY <1>2, <1>6, <1>7, <2>1
<1>9. TypeOK'
  BY <1>1, <1>2, <1>4, <1>5, <1>8 DEF IInv, TypeOK
<1>10. Mine \subseteq Pending /\ Pending \subseteq DOMAIN calls /\ \A j \in acked : j \in DOMAIN calls /\ j # i
  BY Bounds
<1>11. Targets'
  BY <1>3, <1>4, <1>10 DEF Targets
<1>12. Roomy'
  <2>1. i \notin WritesOf(Mine) /\ Len(calls) + 1 \notin DOMAIN calls
    BY <1>1, <1>3, Positions DEF WritesOf, Writes
  <2>2. Cardinality(WritesOf(Mine))' = Cardinality(WritesOf(Mine)) - 0
    BY <1>3, <1>4, <2>1, WriteRemoved
  <2>3. Cardinality(WritesOf(Mine))' = Cardinality(WritesOf(Mine))
    BY <2>2, Bounds
  <2> QED  BY <1>4, <2>3 DEF IInv, Roomy
<1>13. Placed' /\ Told'
  BY <1>4, <1>5, <1>10 DEF IInv, Placed, Told
<1>15. ListAnswered'
  BY <1>2, <1>6 DEF ListAnswered
<1>16. \E L \in DOMAIN calls' : Latest(L)'
  <2>1. PICK L \in DOMAIN calls : Latest(L)
    BY DEF IInv
  <2>2. L \in Nat /\ i <= L
    BY <1>1, <1>3, <2>1, Positions DEF Latest
  <2>3. newest <= L /\ (error \/ newest = L \/ L \in Mine)
    BY <2>1 DEF Latest
  <2>4. newest' <= L /\ (error' \/ newest' = L \/ L \in Mine')
    <3>1. CASE calls[i].ok
      BY <1>2, <1>4, <1>6, <2>2, <2>3, <3>1
    <3>2. CASE ~calls[i].ok
      BY <1>2, <2>3, <3>2
    <3> QED  BY <3>1, <3>2
  <2>5. by' = L => Fresh(shown)'
    <3>1. CASE calls[i].ok
      <4>1. i = L => Fresh(calls[i].answer)
        BY <1>1, <2>1, <3>1 DEF Latest
      <4>2. shown' = calls[i].answer /\ by' = i
        BY <1>2, <3>1
      <4> QED  BY <1>5, <4>1, <4>2 DEF Fresh
    <3>2. CASE ~calls[i].ok
      <4>1. by = L => Fresh(shown)
        BY <2>1 DEF Latest
      <4>2. shown' = shown /\ by' = by
        BY <1>2, <3>2
      <4> QED  BY <1>5, <4>1, <4>2 DEF Fresh
    <3> QED  BY <3>1, <3>2
  <2>6. ASSUME L \in Mine'
        PROVE  /\ calls'[L].kind = "load"
               /\ screen' = "usage" => calls'[L].value = days'
               /\ calls'[L].stage = "answered" /\ calls'[L].ok => Fresh(calls[L].answer)'
    <3>1. L \in Mine /\ calls'[L] = calls[L]
      BY <1>4, <2>1, <2>6
    <3>2. Fresh(calls[L].answer) => Fresh(calls[L].answer)'
      BY <1>5, <3>1 DEF Fresh
    <3> QED  BY <1>5, <2>1, <3>1, <3>2 DEF Latest
  <2>7. \A j \in Mine' : calls'[j].kind = "load" => j <= L
    BY <1>4, <1>10, <2>1 DEF Latest
  <2>8. L \in DOMAIN calls' /\ by' <= newest'
    BY <1>4, <1>8, <2>1
  <2>9. Latest(L)'
    BY <2>4, <2>5, <2>6, <2>7, <2>8 DEF Latest
  <2> QED  BY <2>8, <2>9
<1> QED  BY <1>9, <1>11, <1>12, <1>13, <1>15, <1>16 DEF IInv

\* A write has succeeded: the panel knows it, and asks for the data again.
LEMMA ReloadKeeps ==
    ASSUME IInv, NEW i \in Mine, calls[i].kind \in Writes, Reload(i), acked' = acked \cup {i},
           UNCHANGED <<server, screen, shown, days, by, newest, writer>>,
           open' \in BOOLEAN, editing' \in App \cup {Nothing}, secret' \in Key \cup {Nothing},
           due' \subseteq due
    PROVE  IInv'
<1> DEFINE c == Load(screen, Default)
<1>0. PICK n : n = Len(calls) + 1
  OBVIOUS
<1>1. /\ c \in Call /\ c.kind = "load" /\ c.target = screen /\ c.value = Default
      /\ c.mounted /\ c.stage = "sent" /\ c.ok = FALSE
  <2>1. Default \in Period
    BY PanelAssumption
  <2>2. screen \in Screen
    BY DEF IInv, TypeOK
  <2> QED  BY ONLY <2>1, <2>2, LoadIsCall
<1>2. calls' = Append(Forget(i), c) /\ loading' = TRUE /\ error' = FALSE
  BY DEF Reload
<1> HIDE DEF c
<1>3. Targets /\ i \in Pending /\ i \in DOMAIN calls
  BY Bounds DEF IInv
<1>4. /\ calls' \in Seq(Slot) /\ Len(calls') = n
      /\ n \notin DOMAIN calls /\ DOMAIN calls' = DOMAIN calls \cup {n}
      /\ calls'[i] = Over /\ calls'[n] = c
      /\ \A j \in DOMAIN calls : j # i => calls'[j] = calls[j]
      /\ Pending' = (Pending \ {i}) \cup {n} /\ Mine' = (Mine \ {i}) \cup {n}
  BY <1>0, <1>1, <1>2, <1>3, CallFollowed
<1>5. Len(calls') + Cardinality(WritesOf(Mine))' <= MaxCalls /\ Len(calls') <= MaxCalls
  <2>1. i \in WritesOf(Mine)
    BY DEF WritesOf
  <2>2. Cardinality(WritesOf(Mine))' = Cardinality(WritesOf(Mine)) - 1
    <3>1. calls'[n].kind \notin Writes
      BY <1>1, <1>4 DEF Writes
    <3>2. Cardinality(WritesOf(Mine))' =
            Cardinality(WritesOf(Mine)) - (IF i \in WritesOf(Mine) THEN 1 ELSE 0)
      BY <1>3, <1>4, <3>1, WriteRemoved
    <3> QED  BY <2>1, <3>2
  <2>3. Cardinality(WritesOf(Mine)) # 0
    BY <1>3, <2>1, FiniteWrites, FS_EmptySet
  <2>4. Len(calls) + Cardinality(WritesOf(Mine)) <= MaxCalls
    BY DEF IInv, Roomy
  <2>5. (Len(calls) + 1) + (Cardinality(WritesOf(Mine)) - 1) <= MaxCalls /\ Len(calls) + 1 <= MaxCalls
    BY <2>3, <2>4, Bounds, RoomLeft
  <2> QED  BY <1>0, <1>4, <2>2, <2>5
<1>6. /\ n \in Nat /\ by \in Nat /\ newest \in Nat /\ by <= newest /\ newest < n
      /\ n <= n /\ \A j \in Mine : j <= n
  BY <1>0, Bounds
<1>7. Mine \subseteq Pending /\ Pending \subseteq DOMAIN calls /\ \A j \in acked : j \in DOMAIN calls /\ j # i
  BY <1>3, Bounds
<1>8. TypeOK'
  <2>1. i \in 1..MaxCalls
    BY <1>3, PendingNumber
  <2> QED  BY <1>2, <1>5, <2>1 DEF IInv, TypeOK, server
<1>9. Targets'
  <2>1. CallOK(c)
    BY <1>1, PanelAssumption DEF CallOK, Writes
  <2> QED  BY <1>3, <1>4, <1>7, <2>1 DEF Targets
<1>10. Roomy' /\ Told'
  <2>1. Roomy'
    BY <1>5 DEF Roomy
  <2>2. Told'
    BY <1>3, <1>4, <1>7 DEF IInv, Told
  <2> QED  BY <2>1, <2>2
<1>11. Placed'
  <2>1. screen' = screen /\ Placed
    BY DEF IInv
  <2>2. /\ calls'[n].kind = "load" /\ calls'[n].target = screen
        /\ \A j \in Mine \ {i} : calls'[j] = calls[j]
    BY <1>1, <1>4, <1>7
  <2> QED  BY <1>4, <2>1, <2>2 DEF Placed
<1>13. ListAnswered'
  BY <1>2 DEF ListAnswered
<1>14. Latest(n)'
  <2>1. n \in Mine' /\ n \in DOMAIN calls' /\ \A j \in Mine' : j <= n
    BY <1>4, <1>6
  <2>2. calls'[n].kind = "load" /\ calls'[n].stage = "sent"
    BY <1>1, <1>4
  <2>3. screen # "usage"
    BY DEF IInv, Placed, Writes
  <2>4. by' \in Nat /\ newest' \in Nat /\ by' <= newest' /\ newest' < n
    BY <1>6
  <2> QED  BY <1>6, <2>1, <2>2, <2>3, <2>4, NewestLoad
<1>15. \E L \in DOMAIN calls' : Latest(L)'
  BY <1>4, <1>14
<1> QED  BY <1>8, <1>9, <1>10, <1>11, <1>13, <1>15 DEF IInv

\* A write has failed, or an answer comes too late: nothing is displayed.
LEMMA ForgetKeeps ==
    ASSUME IInv, NEW i \in Pending, calls' = Forget(i), UNCHANGED <<server, ui, history>>,
           i \in Mine => calls[i].kind \in Writes /\ ~calls[i].ok
    PROVE  IInv'
<1>1. Targets
  BY DEF IInv
<1>2. /\ calls' \in Seq(Slot) /\ Len(calls') = Len(calls) /\ DOMAIN calls' = DOMAIN calls
      /\ calls'[i] = Over /\ \A j \in DOMAIN calls : j # i => calls'[j] = calls[j]
      /\ Pending' = Pending \ {i} /\ Mine' = Mine \ {i}
  BY <1>1, CallHandled
<1>3. /\ registry' = registry /\ keys' = keys /\ edits' = edits /\ screen' = screen /\ shown' = shown
      /\ error' = error /\ loading' = loading /\ open' = open /\ editing' = editing /\ secret' = secret
      /\ days' = days /\ by' = by /\ newest' = newest /\ writer' = writer /\ acked' = acked
      /\ due' = due
  BY DEF server, ui, dialogs, history
<1>4. Mine \subseteq Pending /\ Pending \subseteq DOMAIN calls /\ \A j \in acked : j \in DOMAIN calls /\ j # i
  BY Bounds
<1>5. TypeOK' /\ ListAnswered'
  BY <1>2, <1>3 DEF IInv, TypeOK, ListAnswered
<1>6. Targets'
  BY <1>1, <1>2, <1>4 DEF Targets
<1>7. Roomy'
  <2>1. Len(calls) + 1 \notin DOMAIN calls
    BY <1>1, Positions
  <2>2. Cardinality(WritesOf(Mine))' =
          Cardinality(WritesOf(Mine)) - (IF i \in WritesOf(Mine) THEN 1 ELSE 0)
    BY <1>1, <1>2, <2>1, WriteRemoved
  <2>3. Len(calls) + Cardinality(WritesOf(Mine)) <= MaxCalls
    BY DEF IInv, Roomy
  <2>4. i \in WritesOf(Mine) => Cardinality(WritesOf(Mine)) # 0
    BY <1>1, FiniteWrites, FS_EmptySet
  <2>5. Len(calls) + Cardinality(WritesOf(Mine))' <= MaxCalls
    <3>1. CASE i \in WritesOf(Mine)
      <4>1. Len(calls) + (Cardinality(WritesOf(Mine)) - 1) <= MaxCalls
        BY <2>3, <2>4, <3>1, Bounds, RoomLeft
      <4> QED  BY <2>2, <3>1, <4>1
    <3>2. CASE i \notin WritesOf(Mine)
      <4>1. Cardinality(WritesOf(Mine))' = Cardinality(WritesOf(Mine)) - 0
        BY <2>2, <3>2
      <4>2. Cardinality(WritesOf(Mine))' = Cardinality(WritesOf(Mine))
        BY <4>1, Bounds
      <4> QED  BY <2>3, <4>2
    <3> QED  BY <3>1, <3>2
  <2> QED  BY <1>2, <2>5 DEF Roomy
<1>8. Placed' /\ Told'
  BY <1>2, <1>3, <1>4 DEF IInv, Placed, Told
<1>10. \E L \in DOMAIN calls' : Latest(L)'
  <2>1. PICK L \in DOMAIN calls : Latest(L)
    BY DEF IInv
  <2>2. L \in Mine => L # i
    BY <2>1 DEF Latest, Writes
  <2>3. L \in Mine => L \in Mine' /\ calls'[L] = calls[L]
    BY <1>2, <2>1, <2>2
  <2>4. Fresh(shown) => Fresh(shown)'
    BY <1>3 DEF Fresh
  <2>5. L \in Mine /\ Fresh(calls[L].answer) => Fresh(calls[L].answer)'
    BY <1>3, <2>3 DEF Fresh
  <2>6. \A j \in Mine' : calls'[j].kind = "load" => j <= L
    BY <1>2, <1>4, <2>1 DEF Latest
  <2>7. Latest(L)'
    BY <1>2, <1>3, <2>1, <2>3, <2>4, <2>5, <2>6 DEF Latest
  <2> QED  BY <1>2, <2>7
<1> QED  BY <1>5, <1>6, <1>7, <1>8, <1>10 DEF IInv
\* A screen handles an answer.
LEMMA HandleKeeps ==
    ASSUME IInv, NEW i \in Pending, Handle(i)
    PROVE  IInv'
<1>1. CASE LoadAnswer(i)
  BY <1>1, LoadAnswerKeeps
<1>2. open \in BOOLEAN /\ editing \in App \cup {Nothing} /\ secret \in Key \cup {Nothing}
  BY DEF IInv, TypeOK
<1>3. CASE ApplicationAnswer(i)
  <2>1. i \in Mine /\ calls[i].kind \in {"create app", "save app"} /\ Reload(i) /\ acked' = acked \cup {i}
    BY <1>3 DEF ApplicationAnswer, Ready
  <2>2. calls[i].kind \in Writes /\ calls[i].kind # "create key"
    BY <2>1 DEF Writes
  <2>3. /\ open' \in BOOLEAN /\ editing' \in App \cup {Nothing} /\ secret' \in Key \cup {Nothing}
        /\ UNCHANGED <<server, screen, shown, days, by, newest, writer>> /\ due' \subseteq due
    BY <1>2, <1>3 DEF ApplicationAnswer
  <2> QED  BY <2>1, <2>2, <2>3, ReloadKeeps
<1>4. CASE KeyAnswer(i)
  <2>1. i \in Mine /\ calls[i].kind = "create key" /\ Reload(i) /\ acked' = acked \cup {i}
    BY <1>4 DEF KeyAnswer, Ready
  <2>2. calls[i].kind \in Writes
    BY <2>1 DEF Writes
  <2>3. calls[i].answer \in Key
    BY <1>4 DEF KeyAnswer, Ready, IInv, Targets, CallOK
  <2>4. /\ open' \in BOOLEAN /\ editing' \in App \cup {Nothing} /\ secret' \in Key \cup {Nothing}
        /\ UNCHANGED <<server, screen, shown, days, by, newest, writer>>
        /\ due' \subseteq due
    BY <1>2, <1>4, <2>3 DEF KeyAnswer
  <2> QED  BY <2>1, <2>2, <2>4, ReloadKeeps
<1>5. CASE RevokeAnswer(i)
  <2>1. i \in Mine /\ calls[i].kind = "revoke key" /\ Reload(i) /\ acked' = acked \cup {i}
    BY <1>5 DEF RevokeAnswer, Ready
  <2>2. calls[i].kind \in Writes /\ calls[i].kind # "create key"
    BY <2>1 DEF Writes
  <2>3. /\ open' \in BOOLEAN /\ editing' \in App \cup {Nothing} /\ secret' \in Key \cup {Nothing}
        /\ UNCHANGED <<server, screen, shown, days, by, newest, writer>> /\ due' \subseteq due
    BY <1>2, <1>5 DEF RevokeAnswer, dialogs
  <2> QED  BY <2>1, <2>2, <2>3, ReloadKeeps
<1>6. CASE WriteFailed(i)
  BY <1>6, ForgetKeeps DEF WriteFailed, Ready
<1>7. CASE LateAnswer(i)
  BY <1>7, ForgetKeeps DEF LateAnswer
<1> QED  BY <1>1, <1>3, <1>4, <1>5, <1>6, <1>7 DEF Handle

-----------------------------------------------------------------------------
(* The theorems                                                            *)

\* The first screen has its load under way.
LEMMA Initially ==
    ASSUME Init
    PROVE  IInv
<1> DEFINE c == Load(screen, Default)
<1>1. /\ c \in Call /\ c.kind = "load" /\ c.target = screen /\ c.value = Default
      /\ c.mounted /\ c.stage = "sent" /\ c.ok = FALSE
  <2>1. Default \in Period /\ screen \in Screen
    BY PanelAssumption DEF Init
  <2> QED  BY <2>1, LoadIsCall
<1>2. /\ calls = <<c>> /\ by = 0 /\ newest = 0 /\ acked = {} /\ due = {} /\ loading = (screen \in Lists)
      /\ days = Default
  BY DEF Init
<1> HIDE DEF c
<1>3. c \in Slot /\ c # Over
  BY <1>1, CallIsNotOver
<1>4. calls \in Seq(Slot) /\ Len(calls) = 1 /\ DOMAIN calls = {1} /\ calls[1] = c
  BY <1>2, <1>3
<1>5. Pending = {1} /\ Mine = {1}
  BY <1>1, <1>3, <1>4 DEF Pending, Mine
<1>6. 1 <= MaxCalls /\ 0 \in 0..MaxCalls /\ 0 \in 0..MaxEdits
  BY PanelAssumption
<1>7. TypeOK
  <2>1. registry \in [App -> Row] /\ keys \in [Key -> State]
    BY DEF Init, Row, State
  <2>2. /\ edits \in 0..MaxEdits /\ by \in 0..MaxCalls /\ newest \in 0..MaxCalls
        /\ writer \in [App \cup Key -> 0..MaxCalls]
    BY <1>6 DEF Init
  <2>3. loading \in BOOLEAN
    <3>1. (screen \in Lists) \in BOOLEAN
      OBVIOUS
    <3> QED  BY <1>2, <3>1
  <2>4. /\ screen \in Screen /\ error \in BOOLEAN /\ open \in BOOLEAN /\ editing \in App \cup {Nothing}
        /\ secret \in Key \cup {Nothing} /\ days \in Period
    <3>1. Default \in Period
      BY PanelAssumption
    <3> QED  BY <3>1 DEF Init
  <2> QED  BY <1>2, <1>4, <1>6, <2>1, <2>2, <2>3, <2>4 DEF TypeOK
<1>8. Targets
  <2>1. CallOK(c)
    BY <1>1, PanelAssumption DEF CallOK, Writes
  <2> QED  BY <1>4, <1>5, <2>1 DEF Targets
<1>9. Roomy
  <2>1. WritesOf(Mine) = {}
    BY <1>1, <1>4, <1>5 DEF WritesOf, Writes
  <2>2. Cardinality(WritesOf(Mine)) = 0
    BY <2>1, FS_EmptySet
  <2> QED  BY <1>4, <1>6, <2>2 DEF Roomy
<1>10. Placed /\ Told /\ ListAnswered
  BY <1>1, <1>2, <1>4, <1>5 DEF Placed, Told, ListAnswered
<1>11. Latest(1)
  BY <1>1, <1>2, <1>4, <1>5 DEF Latest
<1> QED  BY <1>4, <1>7, <1>8, <1>9, <1>10, <1>11 DEF IInv

\* Every step keeps the invariant.
LEMMA StepKeeps ==
    ASSUME IInv, [Next]_vars
    PROVE  IInv'
<1>1. CASE \E s \in Screen : Navigate(s)
  BY <1>1, MountKeeps DEF Navigate
<1>2. CASE Refresh
  BY <1>2, MountKeeps DEF Refresh, IInv, TypeOK
<1>3. CASE OpenDialog \/ CloseDialogs \/ \E a \in App : OpenEdit(a)
  <2>1. open' \in BOOLEAN /\ editing' \in App \cup {Nothing}
    BY <1>3 DEF OpenDialog, CloseDialogs, OpenEdit, IInv, TypeOK
  <2>2. UNCHANGED <<server, screen, shown, error, loading, secret, days, calls, history>>
    BY <1>3 DEF OpenDialog, CloseDialogs, OpenEdit, Untouched
  <2> QED  BY <2>1, <2>2, DialogKeeps
<1>4. CASE SubmitKey
  <2>1. "create key" \in Writes /\ Nothing \in App \cup Key \cup {Nothing} /\ {} \in SUBSET Setting
    BY DEF Writes
  <2>2. /\ screen = "credentials" /\ Submit("create key", Nothing, {})
        /\ UNCHANGED <<server, ui, by, newest, writer, acked>> /\ due' \in SUBSET Key
    BY <1>4 DEF SubmitKey, IInv, TypeOK
  <2> QED  BY <2>1, <2>2, SubmitKeeps
<1>5. ASSUME NEW a \in App, SubmitApplication(a)
      PROVE  IInv'
  <2>1. "create app" \in Writes /\ a \in App \cup Key \cup {Nothing} /\ {} \in SUBSET Setting
    BY <1>5 DEF Writes
  <2>2. /\ screen = "applications" /\ Submit("create app", a, {})
        /\ UNCHANGED <<server, ui, by, newest, writer, acked>> /\ due' \in SUBSET Key
    BY <1>5 DEF SubmitApplication, IInv, TypeOK, history
  <2> QED  BY <1>5, <2>1, <2>2, SubmitKeeps
<1>6. ASSUME NEW form \in SUBSET Offered, SubmitEdit(form)
      PROVE  IInv'
  <2>1. editing \in App /\ form \in SUBSET Setting
    BY <1>6, PanelAssumption DEF IInv, TypeOK, SubmitEdit
  <2>2. UNCHANGED <<server, ui, by, newest, writer, acked>> /\ due' \in SUBSET Key
    BY <1>6 DEF SubmitEdit, IInv, TypeOK, history
  <2> QED  BY <1>6, <2>1, <2>2, SubmitKeeps DEF SubmitEdit, Writes
<1>7. ASSUME NEW k \in Key, ConfirmRevoke(k)
      PROVE  IInv'
  <2>1. "revoke key" \in Writes /\ k \in App \cup Key \cup {Nothing} /\ {} \in SUBSET Setting
    BY <1>7 DEF Writes
  <2>2. /\ screen = "credentials" /\ Submit("revoke key", k, {})
        /\ UNCHANGED <<server, ui, by, newest, writer, acked>> /\ due' \in SUBSET Key
    BY <1>7 DEF ConfirmRevoke, IInv, TypeOK, history
  <2> QED  BY <1>7, <2>1, <2>2, SubmitKeeps
<1>8. CASE \E d \in Period : SelectPeriod(d)
  BY <1>8, SelectKeeps
<1>9. ASSUME NEW i \in Pending, Serve(i) \/ Handle(i) \/ LoseAnswer(i)
      PROVE  IInv'
  BY <1>9, ServeKeeps, HandleKeeps, RefuseKeeps
<1>10. CASE OtherEdit
  BY <1>10, OtherEditKeeps
<1>11. CASE UNCHANGED vars
  <2>1. /\ UNCHANGED <<server, screen, shown, error, loading, secret, days, calls, history>>
        /\ open' = open /\ editing' = editing
    BY <1>11 DEF vars, ui, dialogs
  <2>2. open' \in BOOLEAN /\ editing' \in App \cup {Nothing}
    BY <2>1 DEF IInv, TypeOK
  <2> QED  BY <2>1, <2>2, DialogKeeps
<1> QED
  BY <1>1, <1>2, <1>3, <1>4, <1>5, <1>6, <1>7, <1>8, <1>9, <1>10, <1>11 DEF Next

\* The invariant holds in every state of the panel.
THEOREM InductiveInvariant == Spec => []IInv
BY Initially, StepKeeps, PTL DEF Spec

\* The variables keep their types, and the panel never has more calls than it has
\* room for.
THEOREM TypeCorrect == Spec => []TypeOK
<1>1. IInv => TypeOK
  BY DEF IInv
<1> QED  BY InductiveInvariant, <1>1, PTL

\* Once nothing is under way and no error is shown, a screen tells the truth about
\* every change that was confirmed to the panel, unless answers overtook each
\* other: its latest load has been answered, and is what is shown.
THEOREM ShownAlwaysCurrent == Spec => []ShownIsCurrent
<1>1. IInv => ShownIsCurrent
  <2>1. SUFFICES ASSUME IInv, Settled, ~error, ~Overtaken
                 PROVE  Fresh(shown) /\ Nothing \notin [App -> Row] \cup [Key -> State]
    BY DEF ShownIsCurrent, Fresh
  <2>2. PICK L \in DOMAIN calls : Latest(L)
    BY <2>1 DEF IInv
  <2>3. newest = L /\ by <= newest
    BY <2>1, <2>2 DEF Latest, Settled
  <2>4. by = L
    BY <2>1, <2>3, Bounds DEF Overtaken
  <2>5. Fresh(shown)
    BY <2>2, <2>4 DEF Latest
  <2> QED  BY <2>5, PanelAssumption
<1> QED  BY InductiveInvariant, <1>1, PTL

\* Applications and Credentials say that there is nothing only after an answer.
THEOREM EmptyTextsTrue == Spec => []EmptyTextTrue
<1>1. IInv => EmptyTextTrue
  <2>1. SUFFICES ASSUME IInv, View.empty, screen \notin {"routes", "usage"}
                 PROVE  by # 0
    BY DEF EmptyTextTrue
  <2>2. screen \in Lists \cup {"overview", "health"}
    BY <2>1 DEF IInv, TypeOK, Screen
  <2>3. CASE screen \in {"overview", "health"}
    BY <2>1, <2>3 DEF View, OverviewView, HealthView
  <2>4. CASE screen \in Lists
    <3>1. ~loading /\ ~error
      BY <2>1, <2>4 DEF View, ApplicationsView, CredentialsView, Lists
    <3> QED  BY <2>1, <2>4, <3>1 DEF IInv, ListAnswered
  <2> QED  BY <2>2, <2>3, <2>4
<1> QED  BY InductiveInvariant, <1>1, PTL

-----------------------------------------------------------------------------
(* Secrets of new keys                                                     *)

\* An answer that brings the secret of key k.
Carries(c, k) == c.kind = "create key" /\ c.stage = "answered" /\ c.ok /\ c.answer = k

Creating(c) == c.kind = "create key"

\* SecretDelivered is not inductive: the answer to another creation would replace a
\* secret that is due.  While one is on display no other creation is under way, and
\* the keys displayed or brought by an answer are none the server can give again.
Secrets ==
    /\ \A k \in due : screen = "credentials" /\ (secret = k \/ \E i \in Mine : Carries(calls[i], k))
    /\ secret \in due => \A i \in Mine : ~Creating(calls[i])
    /\ secret \in Key => keys[secret] # "none"
    /\ \A i \in Pending, k \in Key : Carries(calls[i], k) => keys[k] # "none"

\* What is due stays due, on its way or on display, when no answer that brings a
\* secret is given, lost or handled.
LEMMA SecretsStay ==
    ASSUME Secrets, UNCHANGED <<screen, secret>>, due' \subseteq due,
           \A k \in Key : keys[k] # "none" => keys'[k] # "none",
           \A k \in Key, j \in Pending' : Carries(calls'[j], k) => j \in Pending /\ Carries(calls[j], k),
           \/ secret \notin due'
           \/ \A j \in Mine' : Creating(calls'[j]) => j \in Mine /\ Creating(calls[j]),
           \A k \in due', j \in Mine : Carries(calls[j], k) => j \in Mine' /\ Carries(calls'[j], k)
    PROVE  Secrets'
<1>1. \A k \in due' :
        screen' = "credentials" /\ (secret' = k \/ \E i \in Mine' : Carries(calls'[i], k))
  BY DEF Secrets
<1>2. secret' \in due' => \A i \in Mine' : ~Creating(calls'[i])
  BY DEF Secrets
<1>3. secret' \in Key => keys'[secret'] # "none"
  BY DEF Secrets
<1>4. \A i \in Pending', k \in Key : Carries(calls'[i], k) => keys'[k] # "none"
  BY DEF Secrets
<1> HIDE DEF Carries, Creating
<1> QED  BY <1>1, <1>2, <1>3, <1>4 DEF Secrets

\* A call is sent; before another creation the administrator has had the secret.
LEMMA SecretsSent ==
    ASSUME IInv, Secrets, NEW c \in Call, c.mounted, c.stage = "sent", calls' = Append(calls, c),
           UNCHANGED <<screen, secret, keys>>, due' \subseteq due,
           Creating(c) => secret \notin due'
    PROVE  Secrets'
<1> DEFINE n == Len(calls) + 1
<1>1. /\ n \notin DOMAIN calls /\ calls'[n] = c /\ \A j \in DOMAIN calls : calls'[j] = calls[j]
      /\ Pending' = Pending \cup {n} /\ Mine' = Mine \cup {n}
  BY CallAdded DEF IInv
<1> HIDE DEF n
<1>2. Mine \subseteq Pending /\ Pending \subseteq DOMAIN calls
  BY DEF Mine, Pending
<1>3. \A k \in Key : ~Carries(c, k)
  BY DEF Carries
<1>4. \A k \in Key, j \in Pending' : Carries(calls'[j], k) => j \in Pending /\ Carries(calls[j], k)
  BY <1>1, <1>2, <1>3
<1>5. \/ secret \notin due'
      \/ \A j \in Mine' : Creating(calls'[j]) => j \in Mine /\ Creating(calls[j])
  BY <1>1, <1>2
<1>6. \A k \in due', j \in Mine : Carries(calls[j], k) => j \in Mine' /\ Carries(calls'[j], k)
  BY <1>1, <1>2
<1> QED  BY <1>4, <1>5, <1>6, SecretsStay

\* A call is answered without a secret, or its answer is lost.
LEMMA SecretsAnswered ==
    ASSUME IInv, Secrets, NEW i \in Pending, NEW ok \in BOOLEAN, NEW answer \in Answer,
           calls' = Answered(i, ok, answer), Creating(calls[i]) => ~ok,
           UNCHANGED <<screen, secret>>, due' \subseteq due,
           \A k \in Key : keys[k] # "none" => keys'[k] # "none",
           \A k \in due' : ~Carries(calls[i], k)
    PROVE  Secrets'
<1>1. /\ \A j \in DOMAIN calls : j # i => calls'[j] = calls[j]
      /\ calls'[i].kind = calls[i].kind /\ calls'[i].ok = ok
      /\ Pending' = Pending /\ Mine' = Mine
  BY CallAnswered DEF IInv
<1>2. Mine \subseteq Pending /\ Pending \subseteq DOMAIN calls
  BY DEF Mine, Pending
<1>3. \A k \in Key : ~Carries(calls'[i], k)
  BY <1>1 DEF Carries, Creating
<1>4. \A k \in Key, j \in Pending' : Carries(calls'[j], k) => j \in Pending /\ Carries(calls[j], k)
  BY <1>1, <1>2, <1>3
<1>5. \A j \in Mine' : Creating(calls'[j]) => j \in Mine /\ Creating(calls[j])
  BY <1>1, <1>2 DEF Creating
<1>6. \A k \in due', j \in Mine : Carries(calls[j], k) => j \in Mine' /\ Carries(calls'[j], k)
  BY <1>1, <1>2
<1> QED  BY <1>4, <1>5, <1>6, SecretsStay

\* An answer without a secret is handled, with or without the load that follows it.
LEMMA SecretsHandled ==
    ASSUME IInv, Secrets, NEW i \in Pending,
           calls' = Forget(i) \/ calls' = Append(Forget(i), Load(screen, Default)),
           i \in Mine => \A k \in due : ~Carries(calls[i], k),
           UNCHANGED <<screen, secret, keys, due>>
    PROVE  Secrets'
<1> DEFINE c == Load(screen, Default)
           n == Len(calls) + 1
<1>1. c \in Call /\ c.kind = "load" /\ c.mounted
  <2>1. screen \in Screen /\ Default \in Period
    BY PanelAssumption DEF IInv, TypeOK
  <2> QED  BY <2>1, LoadIsCall
<1> HIDE DEF c
<1>2. Mine \subseteq Pending /\ Pending \subseteq DOMAIN calls
  BY DEF Mine, Pending
<1>3. /\ \A j \in DOMAIN calls : j # i => calls'[j] = calls[j]
      /\ \/ Pending' = Pending \ {i} /\ Mine' = Mine \ {i}
         \/ /\ n \notin DOMAIN calls /\ calls'[n] = c
            /\ Pending' = (Pending \ {i}) \cup {n} /\ Mine' = (Mine \ {i}) \cup {n}
  <2>1. Targets
    BY DEF IInv
  <2>2. CASE calls' = Forget(i)
    BY <2>1, <2>2, CallHandled
  <2>3. CASE calls' = Append(Forget(i), c)
    BY <1>1, <2>1, <2>3, CallFollowed
  <2> QED  BY <2>2, <2>3 DEF c
<1> HIDE DEF n
<1>4. ~Creating(c) /\ \A k \in Key : ~Carries(c, k)
  BY <1>1 DEF Creating, Carries
<1>5. \A k \in Key, j \in Pending' : Carries(calls'[j], k) => j \in Pending /\ Carries(calls[j], k)
  BY <1>2, <1>3, <1>4
<1>6. \A j \in Mine' : Creating(calls'[j]) => j \in Mine /\ Creating(calls[j])
  BY <1>2, <1>3, <1>4
<1>7. \A k \in due', j \in Mine : Carries(calls[j], k) => j \in Mine' /\ Carries(calls'[j], k)
  BY <1>2, <1>3
<1> QED  BY <1>5, <1>6, <1>7, SecretsStay

\* A key is created: it is new, so it is not the one on display.
LEMMA SecretsCreated ==
    ASSUME IInv, Secrets, NEW i \in Pending, ServeKey(i)
    PROVE  Secrets'
<1>1. PICK k \in Key :
        /\ calls[i].kind = "create key" /\ calls[i].stage = "sent" /\ keys[k] = "none"
        /\ keys' = [keys EXCEPT ![k] = "live"] /\ calls' = Answered(i, TRUE, k)
        /\ due' = (IF calls[i].mounted THEN due \cup {k} ELSE due)
        /\ screen' = screen /\ secret' = secret
  <2> DEFINE fresh == {x \in Key : keys[x] = "none"}
  <2>1. fresh # {}
    BY DEF ServeKey
  <2>2. (CHOOSE x \in fresh : TRUE) \in fresh
    BY <2>1
  <2>3. (CHOOSE x \in fresh : TRUE) \in Key /\ keys[CHOOSE x \in fresh : TRUE] = "none"
    BY <2>2
  <2> QED  BY <2>3 DEF ServeKey, Sent, ui
<1>2. /\ \A j \in DOMAIN calls : j # i => calls'[j] = calls[j]
      /\ calls'[i].kind = calls[i].kind /\ calls'[i].stage = "answered"
      /\ calls'[i].ok = TRUE /\ calls'[i].answer = k
      /\ Pending' = Pending /\ Mine' = Mine
  <2>1. k \in Answer /\ Targets
    BY DEF Answer, IInv
  <2> QED  BY <1>1, <2>1, CallAnswered
<1>3. Mine \subseteq Pending /\ Pending \subseteq DOMAIN calls /\ (calls[i].mounted <=> i \in Mine)
  BY DEF Mine, Pending
<1>4. /\ Carries(calls'[i], k) /\ \A b \in Key : Carries(calls'[i], b) => b = k
      /\ \A b \in Key : ~Carries(calls[i], b)
      /\ Creating(calls[i]) /\ Creating(calls'[i])
  BY <1>1, <1>2 DEF Carries, Creating
<1>5. /\ keys'[k] # "none" /\ \A b \in Key : keys[b] # "none" => keys'[b] # "none"
      /\ due \subseteq Key
  BY <1>1 DEF IInv, TypeOK
<1>6. ASSUME NEW b \in due'
      PROVE  screen = "credentials" /\ (secret = b \/ \E j \in Mine : Carries(calls'[j], b))
  <2>1. CASE b \in due
    BY <1>2, <1>3, <1>4, <1>5, <2>1 DEF Secrets
  <2>2. CASE b \notin due
    <3>1. b = k /\ i \in Mine
      BY <1>1, <1>3, <2>2
    <3>2. screen = "credentials"
      BY <1>1, <3>1 DEF IInv, Placed
    <3> QED  BY <1>4, <3>1, <3>2
  <2> QED  BY <2>1, <2>2
<1>7. ASSUME secret \in due', NEW j \in Mine
      PROVE  ~Creating(calls'[j])
  <2>1. secret # k
    BY <1>1 DEF Secrets
  <2>2. secret \in due
    BY <1>1, <1>7, <2>1
  <2>3. ~Creating(calls[j])
    BY <2>2 DEF Secrets
  <2> QED  BY <1>2, <1>3, <1>4, <2>3
<1>8. secret \in Key => keys'[secret] # "none"
  BY <1>5 DEF Secrets
<1>9. ASSUME NEW j \in Pending, NEW b \in Key, Carries(calls'[j], b)
      PROVE  keys'[b] # "none"
  BY <1>2, <1>3, <1>4, <1>5, <1>9 DEF Secrets
<1> QED  BY <1>1, <1>2, <1>6, <1>7, <1>8, <1>9 DEF Secrets

\* The secret of a key is displayed: what it replaces was not due any more.
LEMMA SecretsDisplayed ==
    ASSUME IInv, Secrets, NEW i \in Pending, KeyAnswer(i)
    PROVE  Secrets'
<1> DEFINE c == Load(screen, Default)
           n == Len(calls) + 1
<1>1. /\ i \in Mine /\ calls[i].kind = "create key" /\ calls[i].stage = "answered" /\ calls[i].ok
      /\ secret' = calls[i].answer /\ calls' = Append(Forget(i), c)
      /\ due' = (IF Rivals(i) = {} THEN due ELSE due \ {calls[i].answer})
      /\ screen' = screen /\ keys' = keys
  BY DEF KeyAnswer, Ready, Reload, server
<1>2. c \in Call /\ c.kind = "load" /\ c.mounted
  <2>1. screen \in Screen /\ Default \in Period
    BY PanelAssumption DEF IInv, TypeOK
  <2> QED  BY <2>1, LoadIsCall
<1> HIDE DEF c
<1>3. Mine \subseteq Pending /\ Pending \subseteq DOMAIN calls
  BY DEF Mine, Pending
<1>4. /\ n \notin DOMAIN calls /\ calls'[n] = c
      /\ \A j \in DOMAIN calls : j # i => calls'[j] = calls[j]
      /\ Pending' = (Pending \ {i}) \cup {n} /\ Mine' = (Mine \ {i}) \cup {n}
  <2>1. Targets
    BY DEF IInv
  <2> QED  BY <1>1, <1>2, <2>1, CallFollowed
<1> HIDE DEF n
<1>5. ~Creating(c) /\ \A k \in Key : ~Carries(c, k)
  BY <1>2 DEF Creating, Carries
<1>6. secret \notin due /\ due \subseteq Key
  BY <1>1 DEF Secrets, Creating, IInv, TypeOK
<1>7. ASSUME NEW k \in due'
      PROVE  screen = "credentials" /\ (secret' = k \/ \E j \in Mine' : Carries(calls'[j], k))
  <2>1. k \in due /\ secret # k
    BY <1>1, <1>6
  <2>2. PICK j \in Mine : Carries(calls[j], k)
    BY <2>1 DEF Secrets
  <2>3. screen = "credentials"
    BY <2>1 DEF Secrets
  <2>4. CASE j = i
    BY <1>1, <2>2, <2>3, <2>4 DEF Carries
  <2>5. CASE j # i
    BY <1>3, <1>4, <2>2, <2>3, <2>5
  <2> QED  BY <2>4, <2>5
<1>8. ASSUME secret' \in due', NEW j \in Mine'
      PROVE  ~Creating(calls'[j])
  <2>1. Rivals(i) = {}
    BY <1>1, <1>8
  <2>2. j # n => j \in Mine \ {i} /\ calls'[j] = calls[j]
    BY <1>3, <1>4
  <2> QED  BY <1>4, <1>5, <2>1, <2>2 DEF Rivals, Creating
<1>9. secret' \in Key => keys[secret'] # "none"
  <2>1. Carries(calls[i], secret')
    BY <1>1 DEF Carries
  <2> QED  BY <2>1 DEF Secrets
<1>10. ASSUME NEW j \in Pending', NEW k \in Key, Carries(calls'[j], k)
       PROVE  keys[k] # "none"
  BY <1>3, <1>4, <1>5, <1>10 DEF Secrets
<1> QED  BY <1>1, <1>7, <1>8, <1>9, <1>10 DEF Secrets

\* The screen is left, or mounted again.
LEMMA SecretsLeft ==
    ASSUME IInv, Secrets, NEW s \in Screen, Mount(s)
    PROVE  Secrets'
<1> DEFINE c == Load(s, Default)
           n == Len(calls) + 1
<1>1. /\ calls' = Append(Abandoned, c) /\ secret' = Nothing /\ due' = {} /\ keys' = keys
  BY DEF Mount, server
<1>2. c \in Call /\ c.kind = "load" /\ c.mounted
  <2>1. Default \in Period
    BY PanelAssumption
  <2> QED  BY <2>1, LoadIsCall
<1> HIDE DEF c
<1>3. /\ calls'[n] = c
      /\ \A j \in DOMAIN calls \ Mine : calls'[j] = calls[j]
      /\ \A j \in Mine : calls'[j] = Over \/ calls'[j] = [calls[j] EXCEPT !.mounted = FALSE]
      /\ Pending' \subseteq Pending \cup {n}
  <2>1. Targets
    BY DEF IInv
  <2> QED  BY <1>1, <1>2, <2>1, CallsAbandoned
<1> HIDE DEF n
<1>4. ASSUME NEW j \in Pending', NEW k \in Key, Carries(calls'[j], k)
      PROVE  keys[k] # "none"
  <2>1. j # n
    BY <1>2, <1>3, <1>4 DEF Carries
  <2>2. j \in Pending /\ calls[j] \in Call /\ j \in DOMAIN calls /\ calls'[j] # Over
    <3>1. j \in Pending /\ calls'[j] # Over
      BY <1>3, <2>1 DEF Pending
    <3> QED  BY <3>1, PendingCall DEF IInv
  <2>3. \/ calls'[j] = calls[j]
        \/ calls'[j] = [calls[j] EXCEPT !.mounted = FALSE]
    BY <1>3, <2>2
  <2>4. Carries(calls[j], k)
    BY <1>4, <2>2, <2>3 DEF Carries, Call
  <2> QED  BY <2>2, <2>4 DEF Secrets
<1>5. Nothing \notin Key
  BY PanelAssumption
<1> QED  BY <1>1, <1>4, <1>5 DEF Secrets

\* Every step keeps the secrets.
LEMMA SecretsStep ==
    ASSUME IInv, Secrets, [Next]_vars
    PROVE  Secrets'
<1>0. /\ "create key" \in Writes \cup {"load"} /\ Nothing \in App \cup Key \cup Screen \cup {Nothing}
      /\ {} \in (SUBSET Setting) \cup Period /\ Nothing \in Answer
  BY DEF Writes, Answer
<1>1. CASE (\E s \in Screen : Navigate(s)) \/ Refresh
  BY <1>1, SecretsLeft DEF Navigate, Refresh, IInv, TypeOK
<1>2. CASE OpenDialog \/ CloseDialogs \/ (\E a \in App : OpenEdit(a)) \/ OtherEdit \/ UNCHANGED vars
  <2>1. UNCHANGED <<screen, secret, calls, due>>
    BY <1>2 DEF OpenDialog, CloseDialogs, OpenEdit, OtherEdit, Untouched, vars, ui, history
  <2>2. \A k \in Key : keys[k] # "none" => keys'[k] # "none"
    BY <1>2 DEF OpenDialog, CloseDialogs, OpenEdit, OtherEdit, vars, server, IInv, TypeOK
  <2>3. Pending' = Pending /\ Mine' = Mine
    BY <2>1 DEF Pending, Mine
  <2> HIDE DEF Pending, Mine
  <2> QED  BY <2>1, <2>2, <2>3, SecretsStay
<1>3. CASE SubmitKey
  <2> DEFINE c == Request("create key", Nothing, {})
  <2>1. /\ calls' = Append(calls, c) /\ due' = due \ {secret} /\ screen' = screen /\ secret' = secret
        /\ keys' = keys
    BY <1>3 DEF SubmitKey, Submit, ui, server
  <2>2. c \in Call /\ c.mounted /\ c.stage = "sent"
    BY <1>0, RequestIsCall
  <2> QED  BY <2>1, <2>2, SecretsSent
<1>4. ASSUME NEW kind \in {"create app", "save app", "revoke key"},
             NEW target \in App \cup Key, NEW value \in SUBSET Setting,
             Submit(kind, target, value), UNCHANGED <<server, ui, history>>
      PROVE  Secrets'
  <2> DEFINE c == Request(kind, target, value)
  <2>1. /\ calls' = Append(calls, c) /\ due' = due /\ screen' = screen /\ secret' = secret
        /\ keys' = keys
    BY <1>4 DEF Submit, ui, server, history
  <2>2. /\ kind \in Writes \cup {"load"} /\ target \in App \cup Key \cup Screen \cup {Nothing}
        /\ value \in (SUBSET Setting) \cup Period
    BY DEF Writes
  <2>3. c \in Call /\ c.kind = kind /\ c.mounted /\ c.stage = "sent"
    BY <2>2 DEF Request, Call, Answer
  <2>4. ~Creating(c)
    BY <2>3 DEF Creating
  <2> QED  BY <2>1, <2>3, <2>4, SecretsSent
<1>5. ASSUME NEW a \in App, SubmitApplication(a)
      PROVE  Secrets'
  <2>1. a \in App \cup Key /\ {} \in SUBSET Setting
    OBVIOUS
  <2>2. Submit("create app", a, {}) /\ UNCHANGED <<server, ui, history>>
    BY <1>5 DEF SubmitApplication
  <2> QED  BY <1>4, <2>1, <2>2
<1>6. ASSUME NEW form \in SUBSET Offered, SubmitEdit(form)
      PROVE  Secrets'
  <2>1. editing \in App /\ form \in SUBSET Setting
    BY <1>6, PanelAssumption DEF IInv, TypeOK, SubmitEdit
  <2> QED  BY <1>4, <1>6, <2>1 DEF SubmitEdit
<1>7. ASSUME NEW k \in Key, ConfirmRevoke(k)
      PROVE  Secrets'
  <2>1. k \in App \cup Key /\ {} \in SUBSET Setting
    OBVIOUS
  <2>2. Submit("revoke key", k, {}) /\ UNCHANGED <<server, ui, history>>
    BY <1>7 DEF ConfirmRevoke
  <2> QED  BY <1>4, <2>1, <2>2
<1>8. ASSUME NEW d \in Period, SelectPeriod(d)
      PROVE  Secrets'
  <2> DEFINE c == Load("usage", d)
  <2>1. /\ calls' = Append(calls, c) /\ due' = due /\ screen' = screen /\ secret' = secret
        /\ keys' = keys
    BY <1>8 DEF SelectPeriod, server, history
  <2>2. c \in Call /\ c.kind = "load" /\ c.mounted /\ c.stage = "sent"
    <3>1. "usage" \in Screen
      BY DEF Screen
    <3> QED  BY <3>1, LoadIsCall
  <2>3. ~Creating(c)
    BY <2>2 DEF Creating
  <2> QED  BY <2>1, <2>2, <2>3, SecretsSent
<1>9. ASSUME NEW i \in Pending, NEW ok \in BOOLEAN, NEW answer \in Answer,
             calls' = Answered(i, ok, answer), UNCHANGED <<ui, due>>,
             Creating(calls[i]) => ~ok /\ calls[i].stage = "sent",
             \A k \in Key : keys[k] # "none" => keys'[k] # "none"
      PROVE  Secrets'
  <2>1. \A k \in due' : ~Carries(calls[i], k)
    BY <1>9 DEF Carries, Creating
  <2>2. UNCHANGED <<screen, secret>> /\ due' \subseteq due
    BY <1>9 DEF ui
  <2> QED  BY <1>9, <2>1, <2>2, SecretsAnswered
<1>10. ASSUME NEW i \in Pending, ServeLoad(i)
       PROVE  Secrets'
  <2>1. PICK answer : answer = CASE calls[i].target = "applications" -> registry
                                 [] calls[i].target = "credentials" -> keys
                                 [] OTHER -> calls[i].value
    OBVIOUS
  <2>2. /\ calls[i].kind = "load" /\ calls' = Answered(i, TRUE, answer)
        /\ UNCHANGED <<server, ui, history>>
    BY <1>10, <2>1 DEF ServeLoad, Sent
  <2>3. answer \in Answer
    BY <2>1, <2>2 DEF Answer, IInv, TypeOK, Targets, CallOK
  <2>4. UNCHANGED <<ui, due>> /\ keys' = keys /\ ~Creating(calls[i])
    BY <2>2 DEF server, history, Creating
  <2> QED  BY <1>9, <2>2, <2>3, <2>4
<1>11. ASSUME NEW i \in Pending, ServeCreate(i) \/ ServeSave(i) \/ ServeRevoke(i) \/ Refuse(i)
       PROVE  Secrets'
  <2>1. /\ \E ok \in BOOLEAN : calls' = Answered(i, ok, Nothing) /\ (Creating(calls[i]) => ~ok)
        /\ calls[i].stage = "sent" /\ UNCHANGED <<ui, due>>
    BY <1>11 DEF ServeCreate, ServeSave, ServeRevoke, Refuse, Sent, Creating, history
  <2>2. \A k \in Key : keys[k] # "none" => keys'[k] # "none"
    BY <1>11 DEF ServeCreate, ServeSave, ServeRevoke, Refuse, server, IInv, TypeOK
  <2> QED  BY <1>0, <1>9, <2>1, <2>2
<1>12. ASSUME NEW i \in Pending, LoseAnswer(i)
       PROVE  Secrets'
  <2>1. /\ calls' = Answered(i, FALSE, Nothing) /\ UNCHANGED <<screen, secret, keys>>
        /\ due' \subseteq due
    BY <1>12 DEF LoseAnswer, ui, server
  <2>2. \A k \in due' : ~Carries(calls[i], k)
    BY <1>12 DEF LoseAnswer, Carries
  <2> QED  BY <1>0, <2>1, <2>2, SecretsAnswered
<1>13. ASSUME NEW i \in Pending, Handle(i), ~KeyAnswer(i)
       PROVE  Secrets'
  <2>1. calls' = Forget(i) \/ calls' = Append(Forget(i), Load(screen, Default))
    BY <1>13 DEF Handle, LoadAnswer, ApplicationAnswer, RevokeAnswer, WriteFailed, LateAnswer, Reload
  <2>2. UNCHANGED <<screen, secret, keys, due>>
    BY <1>13 DEF Handle, LoadAnswer, ApplicationAnswer, RevokeAnswer, WriteFailed, LateAnswer,
                 server, ui, history
  <2>3. i \in Mine => \A k \in due : ~Carries(calls[i], k)
    BY <1>13 DEF Handle, LoadAnswer, ApplicationAnswer, RevokeAnswer, WriteFailed, LateAnswer,
                 Ready, Carries
  <2> QED  BY <2>1, <2>2, <2>3, SecretsHandled
<1> QED
  BY <1>1, <1>2, <1>3, <1>5, <1>6, <1>7, <1>8, <1>10, <1>11, <1>12, <1>13,
     SecretsCreated, SecretsDisplayed DEF Next, Serve

\* The secret of a key created from the mounted screen is on its way to it or on
\* display, and stays there until the administrator leaves or asks for another key.
THEOREM SecretsDelivered == Spec => []SecretDelivered
<1>1. Init => Secrets
  <2>1. SUFFICES ASSUME Init PROVE Secrets
    OBVIOUS
  <2>2. due = {} /\ secret = Nothing /\ calls = <<Load(screen, Default)>>
    BY <2>1 DEF Init
  <2>3. DOMAIN calls = {1} /\ calls[1].kind = "load"
    BY <2>2 DEF Load, Request
  <2>4. \A i \in Pending, k \in Key : ~Carries(calls[i], k)
    BY <2>3 DEF Pending, Carries
  <2>5. Nothing \notin Key
    BY PanelAssumption
  <2> QED  BY <2>2, <2>4, <2>5 DEF Secrets
<1>2. IInv /\ Secrets /\ [Next]_vars => Secrets'
  BY SecretsStep
<1>3. Secrets => SecretDelivered
  BY DEF Secrets, Carries, SecretDelivered, CredentialsView
<1> QED  BY InductiveInvariant, <1>1, <1>2, <1>3, PTL DEF Spec
===============================================================================
