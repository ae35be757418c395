----------------------------- MODULE BudgetGate -----------------------------
(***************************************************************************)
(* The per-user budget (src/codagent/server/budgets.py) shared by all the   *)
(* runs of an app, each seen as run_task uses it: one pre-emptive check     *)
(* before the upstream call, then record_token and check for every token.   *)
(*                                                                         *)
(* The store is synchronous and nothing is awaited between record_token,    *)
(* check and the publish they guard, so each is one step of one event loop; *)
(* the runs of a user interleave between tokens.                            *)
(***************************************************************************)
EXTENDS Integers, FiniteSets

CONSTANTS Users,
          Runs,
          UserOf,      \* identify: the user of each run
          None,        \* a limit that is not configured
          Ceilings,    \* BudgetConfig: the ceiling of each limit, or None
          OutputPrice, \* price of an output token, 0 for an unpriced model
          InputPrice,  \* price of an input token, 0 for an unpriced model
          MaxTokens,   \* bound on the tokens of one run
          MaxInput     \* bound on the input tokens the application records

LimitNames == {"input_tokens", "output_tokens", "usd", "steps"}

ASSUME ConfigIsTyped ==
    /\ UserOf \in [Runs -> Users]
    /\ None \notin Nat \cup LimitNames
    /\ Ceilings \in [LimitNames -> Nat \cup {None}]
    /\ OutputPrice \in Nat /\ InputPrice \in Nat
    /\ MaxTokens \in Nat /\ MaxInput \in Nat
ASSUME RunsAreFinite == IsFiniteSet(Runs)

VARIABLES usage,     \* the budget store: what each user has used of each limit
          phase,     \* "queued", "streaming", "ended", or how the budget ended
                     \* it: "rejected" before the first token, "tripped" by one
          verdict,   \* the limit named by run.budget_exceeded, or None
          recorded,  \* tokens each run has recorded
          published, \* tokens published to each user's subscribers
          prompted   \* input tokens each user's upstream calls consumed

vars == <<usage, phase, verdict, recorded, published, prompted>>

----------------------------------------------------------------------------

Exceeded(used) ==
    {l \in LimitNames : Ceilings[l] # None /\ used[l] >= Ceilings[l]}

Rank == [l \in LimitNames |-> CASE l = "input_tokens" -> 1
                                [] l = "output_tokens" -> 2
                                [] l = "usd" -> 3
                                [] l = "steps" -> 4]

\* Mutant of Check: only the first limit configured is looked at.
CheckFirstConfigured(used) ==
    LET configured == {l \in LimitNames : Ceilings[l] # None}
        l == CHOOSE l \in configured :
                 \A m \in configured : Rank[l] <= Rank[m]
    IN IF configured # {} /\ l \in Exceeded(used) THEN l ELSE None

\* BudgetGate.check: the first limit reached, in the order of the code.
Check(used) ==
    IF Exceeded(used) = {} THEN None
    ELSE CHOOSE l \in Exceeded(used) :
             \A m \in Exceeded(used) : Rank[l] <= Rank[m]

\* Mutant of RecordOutput: a step is counted, the output token is not.
RecordStepOnly(used) ==
    [used EXCEPT !["steps"] = @ + 1, !["usd"] = @ + OutputPrice]

\* BudgetGate.record_token(user, "output", 1).
RecordOutput(used) ==
    [used EXCEPT !["output_tokens"] = @ + 1,
                 !["steps"] = @ + 1,
                 !["usd"] = @ + OutputPrice]

\* BudgetGate.record_token(user, "input", 1).
RecordInput(used) ==
    [used EXCEPT !["input_tokens"] = @ + 1,
                 !["steps"] = @ + 1,
                 !["usd"] = @ + InputPrice]

----------------------------------------------------------------------------

Init ==
    /\ usage = [u \in Users |-> [l \in LimitNames |-> 0]]
    /\ phase = [r \in Runs |-> "queued"]
    /\ verdict = [r \in Runs |-> None]
    /\ recorded = [r \in Runs |-> 0]
    /\ published = [u \in Users |-> 0]
    /\ prompted = [u \in Users |-> 0]

\* The pre-emptive check: over the ceiling, or the upstream is called with the
\* prompt.
Open(r) ==
    LET limit == Check(usage[UserOf[r]])
    IN /\ phase[r] = "queued"
       /\ verdict' = [verdict EXCEPT ![r] = limit]
       /\ IF limit # None
          THEN /\ phase' = [phase EXCEPT ![r] = "rejected"]
               /\ UNCHANGED prompted
          ELSE /\ phase' = [phase EXCEPT ![r] = "streaming"]
               /\ prompted' = [prompted EXCEPT ![UserOf[r]] = @ + 1]
       /\ UNCHANGED <<usage, recorded, published>>

\* Mutant of Token: the budget is only checked before the run.
TokenUnchecked(r) ==
    /\ phase[r] = "streaming"
    /\ recorded[r] < MaxTokens
    /\ recorded' = [recorded EXCEPT ![r] = @ + 1]
    /\ usage' = [usage EXCEPT ![UserOf[r]] = RecordOutput(@)]
    /\ published' = [published EXCEPT ![UserOf[r]] = @ + 1]
    /\ UNCHANGED <<phase, verdict, prompted>>

\* A token arrives: recorded, checked, and published only if no limit trips.
Token(r) ==
    LET u == UserOf[r]
        used == RecordOutput(usage[u])
        limit == Check(used)
    IN /\ phase[r] = "streaming"
       /\ recorded[r] < MaxTokens
       /\ recorded' = [recorded EXCEPT ![r] = @ + 1]
       /\ usage' = [usage EXCEPT ![u] = used]
       /\ verdict' = [verdict EXCEPT ![r] = limit]
       /\ IF limit # None
          THEN phase' = [phase EXCEPT ![r] = "tripped"] /\ UNCHANGED published
          ELSE published' = [published EXCEPT ![u] = @ + 1] /\ UNCHANGED phase
       /\ UNCHANGED prompted

\* The upstream ends or raises, or the run is cancelled.
Finish(r) ==
    /\ phase[r] = "streaming"
    /\ phase' = [phase EXCEPT ![r] = "ended"]
    /\ UNCHANGED <<usage, verdict, recorded, published, prompted>>

\* Application code records input tokens on the gate it gave the registry; the
\* server itself never does.
CountInput(u) ==
    /\ usage[u]["input_tokens"] < MaxInput
    /\ usage' = [usage EXCEPT ![u] = RecordInput(@)]
    /\ UNCHANGED <<phase, verdict, recorded, published, prompted>>

Next ==
    \/ \E r \in Runs : Open(r) \/ Token(r) \/ Finish(r)
    \/ \E u \in Users : CountInput(u)

Spec == Init /\ [][Next]_vars

----------------------------------------------------------------------------
(* Properties.                                                              *)

RunsOf(u) == {r \in Runs : UserOf[r] = u}
Tripped(u) == {r \in RunsOf(u) : phase[r] = "tripped"}

\* The counters are counts and each run is in one phase.
TypeOK ==
    /\ usage \in [Users -> [LimitNames -> Nat]]
    /\ phase \in [Runs -> {"queued", "streaming", "ended", "rejected", "tripped"}]
    /\ verdict \in [Runs -> LimitNames \cup {None}]
    /\ recorded \in [Runs -> 0 .. MaxTokens]
    /\ published \in [Users -> Nat]
    /\ prompted \in [Users -> Nat]

\* What a user was charged is what the user received, plus the one token that
\* tripped each run the budget stopped: concurrent runs lose no update and
\* charge no one else.
ChargedIsPublished ==
    \A u \in Users :
        usage[u]["output_tokens"] = published[u] + Cardinality(Tripped(u))

\* A user's subscribers, over all concurrent runs, get fewer tokens than the
\* output ceiling: the token that reaches it is withheld.
PublishedBelowCeiling ==
    Ceilings["output_tokens"] # None =>
        \A u \in Users :
            published[u] = 0 \/ published[u] < Ceilings["output_tokens"]

\* Concurrent runs overshoot a ceiling by at most one token per run stopped
\* after the first: those already streaming when it is reached.
OvershootIsBounded ==
    (Ceilings["output_tokens"] # None /\ Ceilings["output_tokens"] > 0) =>
        \A u \in Users :
            usage[u]["output_tokens"]
                <= Ceilings["output_tokens"] - 1 + Cardinality(Tripped(u))

\* "a user who blew their budget in run N is rejected immediately on run N+1"
\* (budgets.py:5-6), and receives nothing more from the runs in progress.
OverMeansSilent ==
    [][\A u \in Users : Exceeded(usage[u]) # {} =>
           /\ published'[u] = published[u]
           /\ prompted'[u] = prompted[u]]_vars

\* The limit named by run.budget_exceeded is configured and is, and stays,
\* reached.
VerdictIsTrue ==
    \A r \in Runs :
        /\ verdict[r] # None <=> phase[r] \in {"rejected", "tripped"}
        /\ verdict[r] # None => verdict[r] \in Exceeded(usage[UserOf[r]])

=============================================================================
