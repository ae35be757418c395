----------------------------- MODULE HarnessRuns -----------------------------
(***************************************************************************)
(* A Harness (src/codagent/harness) shared by the runs of one application:   *)
(* each run retrieves documents and hands them to the faithfulness contract, *)
(* asks the model through the integration that the application uses to add   *)
(* the harness's addendum, and has the answer validated; a model call that   *)
(* failed, or an answer that was refused, is asked for again with the same   *)
(* messages, or with the same agent object.                                 *)
(*                                                                         *)
(* An answer is the set of marks that the contracts' patterns find in it,    *)
(* and a judge's reply is one of the forms its parser tells apart.  Messages *)
(* are a count of the addenda in them.  Contracts hold no lock and no state, *)
(* but for the faithfulness contract's current context; runs may be threads, *)
(* so reading what messages hold and writing it back are two steps.          *)
(***************************************************************************)
EXTENDS Naturals, FiniteSetsExt, SequencesExt

CONSTANTS Runs,
          None,
          Stacks,    \* lists of contracts: records of kind, name, judge and
                     \* text, whether its addendum says anything
          Answers,   \* the model's answers, sets of marks
          MaxAsks    \* bound on how often a run asks the model

Kinds == {"AssumptionSurface", "VerificationLoop", "ToolCallSurface",
          "RefusalPattern", "CitationRequired", "Faithfulness", "MetaAgent",
          "Guardrails", "Nemo", "Markdown"}

ASSUME NoneIsNoRun == None \notin Runs
ASSUME StacksAreContracts ==
    Stacks \subseteq Seq([kind : Kinds, name : STRING, judge : BOOLEAN, text : BOOLEAN])
\* A meta agent's addendum is empty by default, that of rails is their intent.
ASSUME MostContractsSpeak ==
    \A s \in Stacks : \A i \in 1 .. Len(s) :
        s[i].text \/ s[i].kind \in {"MetaAgent", "Nemo"}
ASSUME BoundIsNat == MaxAsks \in Nat

VARIABLES contracts, \* Harness.contracts
          provider,  \* the faithfulness contract has a context_provider
          use,       \* the integration of the application, the form of its
                     \* messages or agent, and whether the runs share them
          context,   \* whose documents its _current_context holds, or None
          held,      \* the messages or agent of each run, and (at None) those
                     \* all share: the addenda in them now, and how often one
                     \* was written into them
          run        \* each run: what it read and sent, and how the last
                     \* answer was judged

harnessVars == <<contracts, provider, use, context, held, run>>

----------------------------------------------------------------------------
(* One contract's verdict.                                                  *)

\* _judge_yes_no; an unclear reply fails.
JudgeYes(reply) == reply = "yes"

\* A built-in contract accepts what its regular expressions accept, and asks its
\* judge, if it has one, about the rest.
JudgedUnless(accepted, judge) ==
    IF accepted THEN {TRUE}
    ELSE IF judge THEN {JudgeYes(reply) : reply \in {"yes", "no", "unclear"}}
    ELSE {FALSE}

AssumptionSurface(answer, judge) == JudgedUnless("assumptions" \in answer, judge)

VerificationLoop(answer, judge) ==
    JudgedUnless("hedge" \notin answer /\ answer \cap {"evidence", "not verified"} # {},
                 judge)

ToolCallSurface(answer, judge) ==
    JudgedUnless("tool" \in answer => "toolcall" \in answer, judge)

\* The keywords are looked for in the answer, not in the request.
RefusalPattern(answer, judge) ==
    JudgedUnless("sensitive" \in answer => "refusal" \in answer, judge)

CitationRequired(answer, judge) == JudgedUnless("citation" \in answer, judge)

\* Without a judge or documents there is nothing to check.
Faithfulness(docs, judge) ==
    IF ~judge \/ docs = None THEN {TRUE}
    ELSE {reply = "faithful" : reply \in {"faithful", "unfaithful", "unclear"}}

\* The marker may be negated by a word of its own, but a negation that is fused
\* with it (NONCOMPLIANT) is not seen.
Compliant(reply) == reply \in {"marker", "fused"}

MetaAgent == {Compliant(reply) : reply \in {"marker", "negated", "fused", "unclear"}}

\* An external guard that raises has refused the answer.
Guardrails == BOOLEAN

\* Rails without a check accept every answer.
Nemo(check) == IF check THEN BOOLEAN ELSE {TRUE}

\* Whether contract c may accept the answer, judged against documents docs.
MayAccept(c, answer, docs) ==
    CASE c.kind = "AssumptionSurface" -> AssumptionSurface(answer, c.judge)
      [] c.kind = "VerificationLoop" -> VerificationLoop(answer, c.judge)
      [] c.kind = "ToolCallSurface" -> ToolCallSurface(answer, c.judge)
      [] c.kind = "RefusalPattern" -> RefusalPattern(answer, c.judge)
      [] c.kind = "CitationRequired" -> CitationRequired(answer, c.judge)
      [] c.kind = "Faithfulness" -> Faithfulness(docs, c.judge)
      [] c.kind = "MetaAgent" -> MetaAgent
      [] c.kind = "Guardrails" -> Guardrails
      [] c.kind = "Nemo" -> Nemo(c.judge)
      [] c.kind = "Markdown" -> {TRUE}

----------------------------------------------------------------------------
(* The integrations, and the forms of messages each adds the addendum to: the *)
(* usual one, a list that begins with a dict or an agent whose prompt can be  *)
(* set, a list of message objects, an empty list, and an agent whose prompt   *)
(* is frozen.                                                                *)

WrapMessages == {"usual", "empty"}
HarnessRunnable == {"usual"}
LangChainCallback == {"usual", "objects"}
LlamaIndexCallback == {"usual", "objects"}
AssumptionNode == {"usual"}
PydanticAIPrompt == {"usual"}

\* The new text is handed to the caller when it cannot be set.
CrewAIAgent == {"usual", "frozen"}

\* An agent that cannot be set is left alone in silence.
AutoGenAgent == {"usual"}

\* The wrapper validates and adds nothing.
DSPyModule == {}

Injecting ==
    [wrap_messages |-> WrapMessages, runnable |-> HarnessRunnable,
     langchain |-> LangChainCallback, llamaindex |-> LlamaIndexCallback,
     langgraph |-> AssumptionNode, pydantic_ai |-> PydanticAIPrompt,
     crewai |-> CrewAIAgent, autogen |-> AutoGenAgent, dspy |-> DSPyModule]

\* The forms each may be given.
Forms(via) ==
    CASE via \in {"runnable", "langchain", "llamaindex"} -> {"usual", "objects", "empty"}
      [] via = "wrap_messages" -> {"usual", "empty"}
      [] via \in {"crewai", "autogen"} -> {"usual", "frozen"}
      [] OTHER -> {"usual"}

\* The integrations that add to an agent, which can be asked again as it is.
Agents == {"crewai", "autogen", "pydantic_ai"}

\* The runs may share a system message that their lists begin with, or an agent,
\* but a graph's state is a run's own.
Uses ==
    {u \in [via : DOMAIN Injecting, form : {"usual", "objects", "empty", "frozen"},
            shared : BOOLEAN] :
        /\ u.form \in Forms(u.via)
        /\ u.shared => u.form = "usual" /\ u.via # "langgraph"}

\* Harness.system_addendum is not empty; the graph's node has a contract of its
\* own.
HasRules == use.via = "langgraph" \/ \E i \in 1 .. Len(contracts) : contracts[i].text

\* An empty addendum leaves messages and prompts as they are, or adds an empty
\* text.
Added == IF HasRules /\ use.form \in Injecting[use.via] THEN 1 ELSE 0

\* The callbacks write to the list, or to the system message, of the caller, the
\* agents' wrappers to its agent and the graph's node to the graph's state; the
\* others make a copy.
InPlace ==
    /\ use.via \in {"langchain", "llamaindex", "langgraph", "crewai", "autogen"}
    /\ use.form \in Injecting[use.via] \ {"frozen"}

----------------------------------------------------------------------------
(* The harness's verdict.                                                   *)

Names == {contracts[i].name : i \in 1 .. Len(contracts)}
LastNamed(n) == Max({i \in 1 .. Len(contracts) : contracts[i].name = n})

\* Mutant of AllOk: the last contract decides.
AllOkOfLast(oks) == Len(oks) = 0 \/ oks[Len(oks)]

AllOk(oks) == \A i \in 1 .. Len(oks) : oks[i]

\* Harness.validate: the results by name, then all_ok under its own.
Results(oks) ==
    [n \in Names \cup {"all_ok"} |->
        IF n = "all_ok" THEN AllOk(oks) ELSE oks[LastNamed(n)]]

\* _validate_with_harness: the violations a run announces.
Violations(results) == {n \in DOMAIN results \ {"all_ok"} : ~results[n]}

----------------------------------------------------------------------------
(* The runs.                                                                *)

New == [phase |-> "new", copy |-> 0, sent |-> 0, asks |-> 0, answer |-> {},
        retrieved |-> FALSE, judgedBy |-> None, allOk |-> TRUE, passed |-> TRUE]

HarnessInit ==
    /\ contracts \in Stacks
    /\ provider \in BOOLEAN
    /\ use \in Uses
    /\ context = None
    /\ held = [o \in Runs \cup {None} |-> [now |-> 0, made |-> 0]]
    /\ run = [r \in Runs |-> New]

Grounded == \E i \in 1 .. Len(contracts) : contracts[i].kind = "Faithfulness"
Judging == \E i \in 1 .. Len(contracts) :
               contracts[i].kind = "Faithfulness" /\ contracts[i].judge

\* set_context with the documents the run retrieved, or with none.
Retrieve(r) ==
    /\ Grounded
    /\ run[r].phase \in {"new", "asked"}
    /\ context' \in {r, None}
    /\ run' = [run EXCEPT ![r].retrieved = (context' = r)]
    /\ UNCHANGED <<contracts, provider, use, held>>

\* The messages or the agent that run r asks with.
Messages(r) == IF use.shared THEN None ELSE r

\* A request begins: the integration reads what the messages say.
Prepare(r) ==
    /\ run[r].phase \in {"new", "asked", "validated"}
    /\ run[r].asks < MaxAsks
    /\ run' = [run EXCEPT ![r].phase = "reading", ![r].copy = held[Messages(r)].now]
    /\ UNCHANGED <<contracts, provider, use, context, held>>

\* What messages m become when text is written to them.
Written(m, text) ==
    [held EXCEPT ![m] = [now |-> text, made |-> held[m].made + Added]]

\* Mutant of Inject: wrap_messages extends the caller's own system message.
InjectAliased(r) ==
    /\ run[r].phase = "reading"
    /\ run' = [run EXCEPT ![r].phase = "ready", ![r].copy = run[r].copy + Added]
    /\ held' = Written(Messages(r), run[r].copy + Added)
    /\ UNCHANGED <<contracts, provider, use, context>>

\* The addendum is added to what was read, in a copy or in place.
Inject(r) ==
    /\ run[r].phase = "reading"
    /\ run' = [run EXCEPT ![r].phase = "ready", ![r].copy = run[r].copy + Added]
    /\ held' = IF InPlace THEN Written(Messages(r), run[r].copy + Added) ELSE held
    /\ UNCHANGED <<contracts, provider, use, context>>

\* The request is sent, with what the messages say by now; it fails or is
\* answered.  An agent may be asked again without being wrapped again.
Send(r) ==
    /\ \/ run[r].phase = "ready"
       \/ use.via \in Agents /\ run[r].phase \in {"asked", "validated"}
    /\ run[r].asks < MaxAsks
    /\ \E answer \in Answers \cup {None} :
           run' = [run EXCEPT ![r] = [run[r] EXCEPT
               !.phase = IF answer = None THEN "asked" ELSE "answered",
               !.answer = IF answer = None THEN {} ELSE answer,
               !.asks = run[r].asks + 1,
               !.sent = IF InPlace THEN held[Messages(r)].now ELSE run[r].copy]]
    /\ UNCHANGED <<contracts, provider, use, context, held>>

\* _resolve_context: a provider is called without a word about the run, so it
\* may return any run's documents, or none.
Documents == IF provider THEN Runs \cup {None} ELSE {context}

Judged(r, oks, docs) ==
    run' = [run EXCEPT ![r] = [@ EXCEPT
        !.phase = "validated",
        !.judgedBy = IF Judging THEN docs ELSE None,
        !.allOk = Results(oks)["all_ok"],
        !.passed = Violations(Results(oks)) = {}]]

Verdicts(r, docs) ==
    {oks \in [1 .. Len(contracts) -> BOOLEAN] :
        \A i \in 1 .. Len(contracts) :
            oks[i] \in MayAccept(contracts[i], run[r].answer, docs)}

\* The answer is validated; the context stays as it is.
Validate(r) ==
    /\ run[r].phase = "answered"
    /\ \E docs \in Documents : \E oks \in Verdicts(r, docs) : Judged(r, oks, docs)
    /\ UNCHANGED <<contracts, provider, use, context, held>>

HarnessNext ==
    \E r \in Runs : Retrieve(r) \/ Prepare(r) \/ Inject(r) \/ Send(r) \/ Validate(r)

HarnessSpec == HarnessInit /\ [][HarnessNext]_harnessVars

----------------------------------------------------------------------------
(* Properties.                                                              *)

Distinct ==
    /\ Cardinality(Names) = Len(contracts)
    /\ "all_ok" \notin Names

\* The server passes a run by the results under the contracts' names, other
\* callers by all_ok: the two agree as long as no two contracts share a name and
\* none is called all_ok, and all_ok never hides a violation.
PassMeansAllOk ==
    \A r \in Runs : run[r].phase = "validated" =>
        /\ run[r].allOk => run[r].passed
        /\ Distinct => (run[r].passed <=> run[r].allOk)

\* What run r sent last, beside what was written into the messages it holds.
SentMatches(r) ==
    LET sent == run[r].sent
        made == held[Messages(r)].made
    IN /\ HasRules /\ use.form = "usual" /\ use.via # "dspy" => sent >= 1
       /\ ~HasRules => sent = 0
       /\ sent <= IF InPlace THEN made ELSE 1
       /\ InPlace /\ ~use.shared /\ run[r].phase # "ready" => sent = made

\* A request in its usual form never goes out without the rules, if there are
\* any, except through the DSPy stub: also when several threads write into one
\* system message or agent, of which each may overwrite what another wrote.  An
\* integration that copies sends them once, however often a request is retried;
\* one that writes in place sends them at most as often as they were written,
\* and exactly as often if the messages are the run's own.
AddendaMatchInjections == \A r \in Runs : run[r].asks > 0 => SentMatches(r)

\* "Validates that every factual claim in the agent's response is supported by
\* retrieved context": a run that did what the contract asks for, "call
\* set_context after retrieval and before validation" (harness/builtin.py:351
\* and 356), is judged by the documents it retrieved.
JudgedByOwn ==
    \A r \in Runs :
        run[r].phase = "validated" /\ run[r].retrieved /\ Judging /\ ~provider
            => run[r].judgedBy = r
=============================================================================
