----------------------------- MODULE AIProvider -----------------------------
(***************************************************************************)
(* OmniRouteAIProvider.complete (ai/providers/omniroute.py): one chat      *)
(* completion, or two when Web grounding is required - the first makes the *)
(* upstream search, the second answers from the evidence with what is left *)
(* of the max_tokens budget.                                               *)
(*                                                                         *)
(* The upstream is not trusted: it may fail either call, ignore the cap it *)
(* was sent, leave out or falsify its usage report, and return evidence    *)
(* that is missing, malformed or belongs to no tool call of its own.       *)
(***************************************************************************)
EXTENDS Integers, Sequences, SequencesExt

CONSTANTS MaxCap,      \* largest max_tokens (bound of the model)
          MaxTokens,   \* largest completion (bound of the model)
          MaxResults   \* longest tool_results (bound of the model)

ASSUME AIProviderAssumption ==
    MaxCap \in Nat \ {0} /\ MaxTokens \in Nat /\ MaxResults \in Nat

None == -1            \* a Python None where a number may stand
Tokens == 0..MaxTokens

\* A usage report: no usage object at all, or its completion_tokens.
NoUsage == [reported |-> FALSE, completion |-> None]
Report(n) == [reported |-> TRUE, completion |-> n]
Usage == {NoUsage} \cup {Report(n) : n \in Tokens \cup {None}}

\* A tool result: evidence with or without URLs, evidence that reports failure
\* or is empty, output that does not parse, a result of another tool call.
ToolResult == {"urls", "no urls", "failure", "garbage", "foreign"}
\* The tool_results of a body, or a body without a usable tool call.
Evidence == [called : BOOLEAN, results : BoundedSeq(ToolResult, MaxResults)]

VARIABLES
    pc,
    cap,        \* max_tokens of the request, None when absent
    grounding,  \* require_search_grounding
    usage1,     \* grounding_usage
    evidence,   \* what the first call returned
    total,      \* the usage of the response
    \* history
    sent,       \* the max_tokens sent with each call
    made,       \* the completion tokens each call really produced
    reports     \* what each call reported

request == <<cap, grounding>>
history == <<sent, made, reports>>
vars == <<pc, request, usage1, evidence, total, history>>

Failed == {"auth", "request", "response", "unavailable"}

-----------------------------------------------------------------------------
(* Pure helpers                                                            *)

\* Mutant: tool results that are no evidence are skipped.
SkippingEvidence(e) == e.called /\ "urls" \in Range(e.results)

\* _grounded_followup_payload up to the sources: a web_search tool call, every
\* result its own and evidence, and at least one source.
Grounded(e) ==
    /\ e.called
    /\ Range(e.results) \subseteq {"urls", "no urls"}
    /\ "urls" \in Range(e.results)

\* Mutant: the second call is given the whole budget again.
RemainingWhole(m, u) == m

\* The rest of the budget; meaningful when a cap was given and usage reported.
Remaining(m, u) == IF m = None THEN None ELSE m - u.completion

\* Mutant: only the second call counts.
SumSecond(first, second) == second

\* _sum_usage
SumUsage(first, second) ==
    IF ~first.reported THEN second
    ELSE IF ~second.reported THEN first
    ELSE Report(IF first.completion = None \/ second.completion = None
                THEN None ELSE first.completion + second.completion)

\* _verify_max_tokens
Verified(m, u) == m = None \/ (u.completion # None /\ u.completion <= m)

-----------------------------------------------------------------------------
Init ==
    /\ pc = "start"
    /\ cap \in {None} \cup 1..MaxCap
    /\ grounding \in BOOLEAN
    /\ usage1 = NoUsage
    /\ evidence = [called |-> FALSE, results |-> <<>>]
    /\ total = NoUsage
    /\ sent = <<>> /\ made = <<>> /\ reports = <<>>

\* The first chat_completions call, with the request's max_tokens if any.
Call ==
    /\ pc = "start"
    /\ sent' = Append(sent, cap)
    /\ pc' = "first"
    /\ UNCHANGED <<request, usage1, evidence, total, made, reports>>

\* Either call ends with an OmniRoute error and becomes the AI error for it.
CallFails ==
    /\ pc \in {"first", "second"}
    /\ pc' \in {"auth", "request", "unavailable"}
    /\ UNCHANGED <<request, usage1, evidence, total, history>>

\* The first call succeeds and is the only one.
AnswerPlain(n, u) ==
    /\ pc = "first" /\ ~grounding
    /\ made' = Append(made, n)
    /\ reports' = Append(reports, u)
    /\ pc' = "finish"
    /\ UNCHANGED <<request, usage1, evidence, total, sent>>

\* The first of two calls succeeds: without evidence, or with no known budget
\* left, the request ends here; otherwise the second call is sent.
AnswerGrounding(n, u, e) ==
    /\ pc = "first" /\ grounding
    /\ made' = Append(made, n)
    /\ reports' = Append(reports, u)
    /\ usage1' = u
    /\ evidence' = e
    /\ IF /\ Grounded(e)
          /\ cap # None => u.completion # None /\ Remaining(cap, u) >= 1
         THEN pc' = "second" /\ sent' = Append(sent, Remaining(cap, u))
         ELSE pc' = "response" /\ UNCHANGED sent
    /\ UNCHANGED <<request, total>>

AnswerFollowup(n, u) ==
    /\ pc = "second"
    /\ made' = Append(made, n)
    /\ reports' = Append(reports, u)
    /\ pc' = "finish"
    /\ UNCHANGED <<request, usage1, evidence, total, sent>>

\* The envelope of the last answer is read (it may be no text), the usage
\* added up and held against the cap.
Finish(text) ==
    LET u == SumUsage(usage1, Last(reports))
    IN  /\ pc = "finish"
        /\ IF text /\ Verified(cap, u)
             THEN pc' = "success" /\ total' = u
             ELSE pc' = "response" /\ UNCHANGED total
        /\ UNCHANGED <<request, usage1, evidence, history>>

Next ==
    \/ Call
    \/ CallFails
    \/ \E n \in Tokens, u \in Usage : AnswerPlain(n, u) \/ AnswerFollowup(n, u)
    \/ \E n \in Tokens, u \in Usage, e \in Evidence : AnswerGrounding(n, u, e)
    \/ \E text \in BOOLEAN : Finish(text)

Spec == Init /\ [][Next]_vars

-----------------------------------------------------------------------------
(* Properties                                                              *)

TypeOK ==
    /\ pc \in {"start", "first", "second", "finish", "success"} \cup Failed
    /\ cap \in {None} \cup 1..MaxCap
    /\ grounding \in BOOLEAN
    /\ usage1 \in Usage
    /\ total.completion \in {None} \cup 0..(2 * MaxTokens)
    /\ Len(sent) <= 2 /\ Len(made) <= Len(sent) /\ Len(reports) = Len(made)
    /\ \A i \in DOMAIN sent : sent[i] \in {None} \cup 1..MaxCap

Produced == FoldSeq(LAMBDA n, sum : n + sum, 0, made)
Obeyed(i) == sent[i] # None => made[i] <= sent[i]
Truthful(i) == reports[i].completion = made[i]

\* The two calls share one budget: if the upstream keeps to each cap it is sent
\* and reports what it used in the first call, the two together never produce
\* more than max_tokens.
BudgetShared ==
    cap # None /\ (\A i \in DOMAIN made : Obeyed(i) /\ (i = 1 => Truthful(i)))
        => Produced <= cap

\* An upstream that ignores the caps but reports truthfully never turns an
\* overrun, of one call or of the two together, into a success.
OverrunRefused ==
    pc = "success" /\ cap # None /\ (\A i \in DOMAIN made : Truthful(i)) => Produced <= cap

\* A grounded success rests on evidence: a second call was made, and every tool
\* result that went into it was evidence of the upstream's own search, with at
\* least one source.
GroundedOnEvidence ==
    pc = "success" /\ grounding =>
        /\ Len(made) = 2
        /\ \A i \in DOMAIN evidence.results :
              evidence.results[i] \notin {"failure", "garbage", "foreign"}
        /\ \E i \in DOMAIN evidence.results : evidence.results[i] = "urls"

\* docs/adr/0014: success only "quando o usage traz completion_tokens <=
\* max_tokens; usage ausente [...] nunca sucesso silencioso".
CapProven ==
    pc = "success" /\ cap # None => \A i \in DOMAIN reports : reports[i].completion # None
=============================================================================
