----------------------------- MODULE QuotaWindow -----------------------------
(***************************************************************************)
(* What the shared quota promises to its callers, with no store, no round  *)
(* trips and no failures of a store in it.                                 *)
(*                                                                         *)
(* Each key (an application and a capability) has at most one open fixed   *)
(* window.  The first admission opens it, it lasts Window ticks whatever   *)
(* happens inside it.  A request asks once, with its key and the limit     *)
(* read for it, and is then admitted exactly when the window of its key    *)
(* holds fewer admissions than that limit, whatever limits the others were *)
(* held to.  A request may always fail instead; it is served only after    *)
(* having been admitted.                                                   *)
(* The promise is void for the keys in void: those the store was allowed   *)
(* to forget or that somebody else wrote.                                  *)
(***************************************************************************)
EXTENDS Naturals, FiniteSets

CONSTANTS Request,   \* the requests
          Key,       \* the quota keys, one per application and capability
          MaxLimit,  \* the largest limit of a quota policy
          Window     \* the length of a window, in ticks of the store's clock

VARIABLES key,       \* key[r]: the key r is charged to
          lim,       \* lim[r]: the limit r asks to be held to, 0 before it asks
          charged,   \* charged[k]: the requests admitted in k's open window
          left,      \* left[k]: what is left of k's open window
          verdict,   \* verdict[r]: what request r was told
          void       \* the keys the promise does not cover

vars == <<key, lim, charged, left, verdict, void>>

Verdict == {"none", "yes", "no", "served", "error"}

Init ==
    /\ key \in [Request -> Key]
    /\ lim = [r \in Request |-> 0]
    /\ charged = [k \in Key |-> {}]
    /\ left = [k \in Key |-> 0]
    /\ verdict = [r \in Request |-> "none"]
    /\ void = {}

Open(k) == charged[k] # {}

\* r comes with the limit that was read for it.
Ask(r, l) ==
    /\ verdict[r] = "none" /\ lim[r] = 0
    /\ lim' = [lim EXCEPT ![r] = l]
    /\ UNCHANGED <<key, charged, left, verdict, void>>

Asking(r) == verdict[r] = "none" /\ lim[r] # 0

\* There is room for r: its window holds fewer admissions than its limit.
Room(r) == Cardinality(charged[key[r]]) < lim[r]

\* r is admitted; the charge may be one the store will forget.
Admit(r) ==
    /\ Asking(r)
    /\ key[r] \in void \/ Room(r)
    /\ charged' = [charged EXCEPT ![key[r]] = @ \cup {r}]
    /\ left' = [left EXCEPT ![key[r]] = IF Open(key[r]) THEN @ ELSE Window]
    /\ verdict' = [verdict EXCEPT ![r] = "yes"]
    /\ void' \in {void, void \cup {key[r]}}
    /\ UNCHANGED <<key, lim>>

\* r is refused, only by a window that is open and full; nothing is charged.
Refuse(r) ==
    /\ Asking(r)
    /\ key[r] \in void \/ (Open(key[r]) /\ ~Room(r))
    /\ verdict' = [verdict EXCEPT ![r] = "no"]
    /\ UNCHANGED <<key, lim, charged, left, void>>

Serve(r) ==
    /\ verdict[r] = "yes"
    /\ verdict' = [verdict EXCEPT ![r] = "served"]
    /\ UNCHANGED <<key, lim, charged, left, void>>

\* A set of requests fail; a charge they made is not refunded.
Fail(R) ==
    /\ \A r \in R : verdict[r] \in {"none", "yes", "no"}
    /\ verdict' = [r \in Request |-> IF r \in R THEN "error" ELSE verdict[r]]
    /\ UNCHANGED <<key, lim, charged, left, void>>

\* Time passes: an open window shrinks, and closes when nothing is left of it.
Pass ==
    /\ charged' = [k \in Key |-> IF left[k] = 0 THEN {} ELSE charged[k]]
    /\ left' = [k \in Key |-> IF left[k] = 0 THEN 0 ELSE left[k] - 1]
    /\ UNCHANGED <<key, lim, verdict, void>>

Void(k) ==
    /\ void' = void \cup {k}
    /\ UNCHANGED <<key, lim, charged, left, verdict>>

Next ==
    \/ \E r \in Request, l \in 1..MaxLimit : Ask(r, l)
    \/ \E r \in Request : Admit(r) \/ Refuse(r) \/ Serve(r)
    \/ \E R \in SUBSET Request : Fail(R)
    \/ Pass
    \/ \E k \in Key : Void(k)

Spec == Init /\ [][Next]_vars
=============================================================================
