------------------------------ MODULE MCHarness -------------------------------
(***************************************************************************)
(* TLC instances of a harness: the runs that share it (HarnessRuns), the    *)
(* files it is applied to (HarnessTargets) and the clients it wraps         *)
(* (PatchedClients).  None of the three reads or writes a variable of       *)
(* another, so one run explores each with the others at rest.               *)
(***************************************************************************)
EXTENDS HarnessRuns, HarnessTargets, PatchedClients

Contract(k, n, j) == [kind |-> k, name |-> n, judge |-> j, text |-> TRUE]
Silent(k, n, j) == [kind |-> k, name |-> n, judge |-> j, text |-> FALSE]

\* Every kind of contract, with a judge and without; names that collide, one
\* that is the name of the overall result, and bundles without any rule.
Bundles ==
    {<<>>,
     <<Contract("CitationRequired", "Citation", FALSE),
       Contract("Faithfulness", "Faithfulness", TRUE)>>,
     <<Contract("AssumptionSurface", "all_ok", FALSE),
       Contract("VerificationLoop", "Verification", TRUE)>>,
     <<Contract("Guardrails", "Guard", FALSE), Silent("Nemo", "Rails", TRUE)>>,
     <<Contract("ToolCallSurface", "Rule", FALSE),
       Contract("RefusalPattern", "Rule", FALSE)>>,
     <<Contract("Markdown", "markdown:CLAUDE.md", FALSE),
       Contract("Faithfulness", "Faithfulness", FALSE)>>,
     <<Silent("MetaAgent", "Meta", TRUE)>>}

SomeAnswers ==
    {{"citation", "assumptions", "tool", "sensitive", "refusal"},
     {"evidence", "hedge", "toolcall"}}

HarnessSymmetry == Permutations(Runs) \cup Permutations(Files)

\* Files and clients are explored beside runs that have done nothing, in one
\* of their initial states.
RunsRest ==
    /\ contracts = <<>> /\ ~provider /\ context = None
    /\ use = [via |-> "wrap_messages", form |-> "usual", shared |-> FALSE]
    /\ run = [r \in Runs |-> New]
FilesRest == Init
ClientsRest == ClientInit

AllInit == HarnessInit /\ Init /\ ClientInit

AllNext ==
    \/ FilesRest /\ ClientsRest /\ HarnessNext /\ UNCHANGED <<vars, create>>
    \/ RunsRest /\ ClientsRest /\ Next /\ UNCHANGED <<harnessVars, create>>
    \/ RunsRest /\ FilesRest /\ ClientNext /\ UNCHANGED <<harnessVars, vars>>

AllSpec == AllInit /\ [][AllNext]_<<harnessVars, vars, create>>
=============================================================================
