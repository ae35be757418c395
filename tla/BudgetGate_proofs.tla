---------------------------- MODULE BudgetGate_proofs ----------------------------
(***************************************************************************)
(* Proofs about BudgetGate, for any number of users and runs, any ceilings   *)
(* and any interleaving of the runs.                                         *)
(***************************************************************************)
EXTENDS BudgetGate, FiniteSetTheorems, TLAPS

\* The code's order of the limits picks one of any non-empty set of them.
LEMMA FirstLimit ==
    ASSUME NEW E \in SUBSET LimitNames, E # {}
    PROVE  \E l \in E : \A m \in E : Rank[l] <= Rank[m]
  <1>1. /\ Rank["input_tokens"] = 1 /\ Rank["output_tokens"] = 2
        /\ Rank["usd"] = 3 /\ Rank["steps"] = 4
    BY DEF Rank, LimitNames
  <1>2. CASE "input_tokens" \in E
    BY <1>1, <1>2 DEF LimitNames
  <1>3. CASE "input_tokens" \notin E /\ "output_tokens" \in E
    BY <1>1, <1>3 DEF LimitNames
  <1>4. CASE "input_tokens" \notin E /\ "output_tokens" \notin E /\ "usd" \in E
    BY <1>1, <1>4 DEF LimitNames
  <1>5. CASE E = {"steps"}
    BY <1>1, <1>5
  <1>6. QED
    BY <1>2, <1>3, <1>4, <1>5 DEF LimitNames

\* check names an exceeded limit when there is one, and None otherwise.
LEMMA CheckNamesALimit ==
    ASSUME NEW used
    PROVE  /\ Exceeded(used) = {} => Check(used) = None
           /\ Exceeded(used) # {} => Check(used) \in Exceeded(used)
           /\ Check(used) # None <=> Exceeded(used) # {}
  <1>1. Exceeded(used) \subseteq LimitNames
    BY DEF Exceeded
  <1>2. Exceeded(used) = {} => Check(used) = None
    BY DEF Check
  <1>3. Exceeded(used) # {} => Check(used) \in Exceeded(used)
    BY <1>1, FirstLimit DEF Check
  <1>4. QED
    BY <1>1, <1>2, <1>3, ConfigIsTyped

\* Recording a token adds one to the output tokens and to the steps, and lowers
\* no counter: a limit once exceeded stays exceeded.
LEMMA RecordOnlyAdds ==
    ASSUME NEW used \in [LimitNames -> Nat], NEW more,
           more = RecordOutput(used) \/ more = RecordInput(used)
    PROVE  /\ more \in [LimitNames -> Nat]
           /\ \A l \in LimitNames : more[l] >= used[l]
           /\ more["output_tokens"] =
                IF more = RecordOutput(used) THEN used["output_tokens"] + 1
                                             ELSE used["output_tokens"]
           /\ Exceeded(used) \subseteq Exceeded(more)
  <1>1. more \in [LimitNames -> Nat] /\ \A l \in LimitNames : more[l] >= used[l]
    BY ConfigIsTyped DEF RecordOutput, RecordInput, LimitNames
  <1>2. RecordOutput(used)["output_tokens"] = used["output_tokens"] + 1
    BY DEF RecordOutput, LimitNames
  <1>3. RecordInput(used)["output_tokens"] = used["output_tokens"]
    BY DEF RecordInput, LimitNames
  <1>4. Exceeded(used) \subseteq Exceeded(more)
    BY <1>1, ConfigIsTyped DEF Exceeded
  <1>5. QED
    BY <1>1, <1>2, <1>3, <1>4

----------------------------------------------------------------------------

\* The inductive invariant.
BudgetInv ==
    TypeOK /\ ChargedIsPublished /\ PublishedBelowCeiling /\ VerdictIsTrue

\* It holds before any run has started.
LEMMA InitBudgetInv == Init => BudgetInv
  <1> SUFFICES ASSUME Init PROVE BudgetInv
    OBVIOUS
  <1>1. TypeOK
    BY ConfigIsTyped DEF Init, TypeOK
  <1>2. \A u \in Users : Tripped(u) = {}
    BY DEF Init, Tripped, RunsOf
  <1>3. ChargedIsPublished
    BY <1>2, FS_EmptySet DEF Init, ChargedIsPublished, LimitNames
  <1>4. PublishedBelowCeiling /\ VerdictIsTrue
    BY DEF Init, PublishedBelowCeiling, VerdictIsTrue
  <1>5. QED
    BY <1>1, <1>3, <1>4 DEF BudgetInv

\* A step that stops no run by its budget leaves the runs stopped the same.
LEMMA SameTripped ==
    ASSUME NEW u \in Users,
           \A r \in Runs : phase'[r] = "tripped" <=> phase[r] = "tripped"
    PROVE  Tripped(u)' = Tripped(u)
  BY DEF Tripped, RunsOf

\* The runs a user's budget stopped are finitely many.
LEMMA TrippedIsFinite ==
    ASSUME NEW u \in Users
    PROVE  IsFiniteSet(Tripped(u)) /\ Cardinality(Tripped(u)) \in Nat
  <1>1. Tripped(u) \subseteq Runs
    BY DEF Tripped, RunsOf
  <1>2. QED
    BY <1>1, RunsAreFinite, FS_Subset, FS_CardinalityType

\* The pre-emptive check preserves the invariant.
LEMMA OpenKeeps ==
    ASSUME BudgetInv, NEW r \in Runs, Open(r)
    PROVE  BudgetInv'
  <1> DEFINE limit == Check(usage[UserOf[r]])
  <1>1. UserOf[r] \in Users
    BY ConfigIsTyped
  <1>2. /\ limit # None <=> Exceeded(usage[UserOf[r]]) # {}
        /\ limit # None => limit \in Exceeded(usage[UserOf[r]])
    BY CheckNamesALimit
  <1>3. limit \in LimitNames \cup {None}
    BY <1>2 DEF Exceeded
  <1> HIDE DEF limit
  <1>4. /\ phase[r] = "queued" /\ verdict' = [verdict EXCEPT ![r] = limit]
        /\ phase' = [phase EXCEPT ![r] =
                        IF limit # None THEN "rejected" ELSE "streaming"]
        /\ UNCHANGED <<usage, recorded, published>>
    BY DEF Open, limit
  <1>5. prompted' \in [Users -> Nat]
    BY <1>1 DEF Open, BudgetInv, TypeOK
  <1>6. TypeOK'
    BY <1>3, <1>4, <1>5 DEF BudgetInv, TypeOK
  <1>7. ChargedIsPublished'
    <2>1. \A q \in Runs : phase'[q] = "tripped" <=> phase[q] = "tripped"
      BY <1>4 DEF BudgetInv, TypeOK
    <2>2. QED
      BY <1>4, <2>1, SameTripped DEF BudgetInv, ChargedIsPublished
  <1>8. PublishedBelowCeiling'
    BY <1>4 DEF BudgetInv, PublishedBelowCeiling
  <1>9. VerdictIsTrue'
    BY <1>2, <1>4 DEF BudgetInv, TypeOK, VerdictIsTrue
  <1>10. QED
    BY <1>6, <1>7, <1>8, <1>9 DEF BudgetInv

\* A step that adds to a user's counters keeps every verdict that is not its own
\* true.
LEMMA VerdictsStayTrue ==
    ASSUME BudgetInv, NEW u \in Users, NEW more,
           more = RecordOutput(usage[u]) \/ more = RecordInput(usage[u]),
           usage' = [usage EXCEPT ![u] = more]
    PROVE  \A q \in Runs :
               verdict[q] # None => verdict[q] \in Exceeded(usage'[UserOf[q]])
  <1>1. usage[u] \in [LimitNames -> Nat]
    BY DEF BudgetInv, TypeOK
  <1>2. Exceeded(usage[u]) \subseteq Exceeded(more)
    BY <1>1, RecordOnlyAdds
  <1>3. \A v \in Users : usage'[v] = IF v = u THEN more ELSE usage[v]
    BY DEF BudgetInv, TypeOK
  <1>4. QED
    BY <1>2, <1>3, ConfigIsTyped DEF BudgetInv, VerdictIsTrue

\* A token preserves the invariant: it is charged, and either published below
\* the ceiling or it stops its run.
LEMMA TokenKeeps ==
    ASSUME BudgetInv, NEW r \in Runs, Token(r)
    PROVE  BudgetInv'
  <1> DEFINE u == UserOf[r]
             used == RecordOutput(usage[u])
             limit == Check(used)
  <1>1. u \in Users /\ usage[u] \in [LimitNames -> Nat]
    BY ConfigIsTyped DEF BudgetInv, TypeOK
  <1>2. /\ used \in [LimitNames -> Nat]
        /\ used["output_tokens"] = usage[u]["output_tokens"] + 1
    BY <1>1, RecordOnlyAdds
  <1>3. /\ limit # None <=> Exceeded(used) # {}
        /\ limit # None => limit \in Exceeded(used)
    BY CheckNamesALimit
  <1>4. limit \in LimitNames \cup {None}
    BY <1>3 DEF Exceeded
  <1>5. /\ phase[r] = "streaming" /\ recorded[r] < MaxTokens
        /\ recorded' = [recorded EXCEPT ![r] = @ + 1]
        /\ usage' = [usage EXCEPT ![u] = used]
        /\ verdict' = [verdict EXCEPT ![r] = limit]
        /\ limit # None => /\ phase' = [phase EXCEPT ![r] = "tripped"]
                           /\ published' = published
        /\ limit = None => /\ published' = [published EXCEPT ![u] = @ + 1]
                           /\ phase' = phase
        /\ prompted' = prompted
    BY DEF Token
  <1>6. \A q \in Runs :
            verdict[q] # None => verdict[q] \in Exceeded(usage'[UserOf[q]])
    BY <1>1, <1>5, VerdictsStayTrue
  <1> HIDE DEF used, limit, u
  <1>7. TypeOK'
    <2>1. usage' \in [Users -> [LimitNames -> Nat]]
      BY <1>1, <1>2, <1>5 DEF BudgetInv, TypeOK
    <2>2. recorded' \in [Runs -> 0 .. MaxTokens]
      BY <1>5, ConfigIsTyped DEF BudgetInv, TypeOK
    <2>3. published' \in [Users -> Nat]
      BY <1>1, <1>5 DEF BudgetInv, TypeOK
    <2>4. QED
      BY <1>4, <1>5, <2>1, <2>2, <2>3 DEF BudgetInv, TypeOK
  <1>8. /\ usage'[u] = used
        /\ \A v \in Users \ {u} : usage'[v] = usage[v] /\ published'[v] = published[v]
    BY <1>1, <1>5 DEF BudgetInv, TypeOK
  <1>9. ASSUME NEW v \in Users \ {u} PROVE Tripped(v)' = Tripped(v)
    BY <1>5, <1>9 DEF Tripped, RunsOf, u, BudgetInv, TypeOK
  <1>10. /\ usage[u]["output_tokens"] = published[u] + Cardinality(Tripped(u))
         /\ Cardinality(Tripped(u)) \in Nat /\ IsFiniteSet(Tripped(u))
         /\ published[u] \in Nat
    BY <1>1, TrippedIsFinite DEF BudgetInv, ChargedIsPublished, TypeOK
  <1>11. used["output_tokens"] = published'[u] + Cardinality(Tripped(u)')
    <2>1. CASE limit = None
      <3>1. Tripped(u)' = Tripped(u)
        BY <1>5, <2>1 DEF Tripped, RunsOf
      <3>2. published'[u] = published[u] + 1
        BY <1>1, <1>5, <2>1 DEF BudgetInv, TypeOK
      <3>3. QED
        BY <1>2, <1>10, <3>1, <3>2
    <2>2. CASE limit # None
      <3>1. Tripped(u)' = Tripped(u) \cup {r} /\ r \notin Tripped(u)
        BY <1>5, <2>2 DEF Tripped, RunsOf, u, BudgetInv, TypeOK
      <3>2. Cardinality(Tripped(u)') = Cardinality(Tripped(u)) + 1
        BY <1>10, <3>1, FS_AddElement
      <3>3. published'[u] = published[u]
        BY <1>5, <2>2
      <3>4. QED
        BY <1>2, <1>10, <3>2, <3>3
    <2>3. QED
      BY <2>1, <2>2
  <1>12. ChargedIsPublished'
    <2>1. ASSUME NEW v \in Users
          PROVE  usage'[v]["output_tokens"]
                     = published'[v] + Cardinality(Tripped(v)')
      <3>1. CASE v = u
        BY <1>8, <1>11, <3>1
      <3>2. CASE v # u
        BY <1>8, <1>9, <3>2 DEF BudgetInv, ChargedIsPublished
      <3>3. QED
        BY <3>1, <3>2
    <2>2. QED
      BY <2>1 DEF ChargedIsPublished
  <1>13. PublishedBelowCeiling'
    <2>1. SUFFICES ASSUME Ceilings["output_tokens"] # None, NEW v \in Users
                   PROVE  \/ published'[v] = 0
                          \/ published'[v] < Ceilings["output_tokens"]
      BY DEF PublishedBelowCeiling
    <2>2. CASE v # u \/ limit # None
      BY <1>5, <1>8, <2>1, <2>2 DEF BudgetInv, PublishedBelowCeiling
    <2>3. CASE v = u /\ limit = None
      <3>1. "output_tokens" \in LimitNames /\ Ceilings["output_tokens"] \in Nat
        BY <2>1, ConfigIsTyped DEF LimitNames
      <3>2. ~(used["output_tokens"] >= Ceilings["output_tokens"])
        BY <1>3, <2>1, <2>3, <3>1 DEF Exceeded
      <3>3. published'[u] = published[u] + 1
        BY <1>1, <1>5, <2>3 DEF BudgetInv, TypeOK
      <3>4. QED
        BY <1>2, <1>10, <2>3, <3>1, <3>2, <3>3
    <2>4. QED
      BY <2>2, <2>3
  <1>14. VerdictIsTrue'
    <2>1. ASSUME NEW q \in Runs
          PROVE  /\ verdict'[q] # None <=> phase'[q] \in {"rejected", "tripped"}
                 /\ verdict'[q] # None => verdict'[q] \in Exceeded(usage'[UserOf[q]])
      <3>1. CASE q = r
        <4>1. verdict'[r] = limit /\ usage'[UserOf[r]] = used
          BY <1>5, <1>8 DEF BudgetInv, TypeOK, u
        <4>2. phase'[r] = IF limit # None THEN "tripped" ELSE "streaming"
          BY <1>5 DEF BudgetInv, TypeOK
        <4>3. QED
          BY <1>3, <3>1, <4>1, <4>2
      <3>2. CASE q # r
        <4>1. verdict'[q] = verdict[q] /\ phase'[q] = phase[q]
          BY <1>5, <3>2 DEF BudgetInv, TypeOK
        <4>2. QED
          BY <1>6, <4>1 DEF BudgetInv, VerdictIsTrue
      <3>3. QED
        BY <3>1, <3>2
    <2>2. QED
      BY <2>1 DEF VerdictIsTrue
  <1>15. QED
    BY <1>7, <1>12, <1>13, <1>14 DEF BudgetInv

\* Input tokens the application records preserve the invariant.
LEMMA CountInputKeeps ==
    ASSUME BudgetInv, NEW u \in Users, CountInput(u)
    PROVE  BudgetInv'
  <1>1. /\ usage' = [usage EXCEPT ![u] = RecordInput(usage[u])]
        /\ UNCHANGED <<phase, verdict, recorded, published, prompted>>
    BY DEF CountInput
  <1>2. usage[u] \in [LimitNames -> Nat]
    BY DEF BudgetInv, TypeOK
  <1>3. /\ RecordInput(usage[u]) \in [LimitNames -> Nat]
        /\ RecordInput(usage[u])["output_tokens"] = usage[u]["output_tokens"]
    <2>1. RecordInput(usage[u])["output_tokens"] = usage[u]["output_tokens"]
      BY <1>2 DEF RecordInput, LimitNames
    <2>2. QED
      BY <1>2, <2>1, RecordOnlyAdds
  <1>4. \A v \in Users : usage'[v]["output_tokens"] = usage[v]["output_tokens"]
    BY <1>1, <1>3 DEF BudgetInv, TypeOK
  <1>5. TypeOK'
    BY <1>1, <1>3 DEF BudgetInv, TypeOK
  <1>6. \A v \in Users : Tripped(v)' = Tripped(v)
    BY <1>1 DEF Tripped, RunsOf
  <1>7. ChargedIsPublished' /\ PublishedBelowCeiling'
    BY <1>1, <1>4, <1>6 DEF BudgetInv, ChargedIsPublished, PublishedBelowCeiling
  <1>8. VerdictIsTrue'
    <2>1. \A q \in Runs :
              verdict[q] # None => verdict[q] \in Exceeded(usage'[UserOf[q]])
      BY <1>1, VerdictsStayTrue
    <2>2. QED
      BY <1>1, <2>1 DEF BudgetInv, VerdictIsTrue
  <1>9. QED
    BY <1>5, <1>7, <1>8 DEF BudgetInv

\* Every step preserves the invariant.
LEMMA StepKeepsBudgetInv == BudgetInv /\ [Next]_vars => BudgetInv'
  <1> SUFFICES ASSUME BudgetInv, [Next]_vars PROVE BudgetInv'
    OBVIOUS
  <1>1. ASSUME NEW r \in Runs, Finish(r) PROVE BudgetInv'
    <2>1. \A q \in Runs : phase'[q] = "tripped" <=> phase[q] = "tripped"
      BY <1>1 DEF Finish, BudgetInv, TypeOK
    <2>2. ChargedIsPublished'
      BY <1>1, <2>1, SameTripped DEF Finish, BudgetInv, ChargedIsPublished
    <2>3. TypeOK' /\ PublishedBelowCeiling'
      BY <1>1 DEF Finish, BudgetInv, TypeOK, PublishedBelowCeiling
    <2>4. VerdictIsTrue'
      BY <1>1 DEF Finish, BudgetInv, TypeOK, VerdictIsTrue
    <2>5. QED
      BY <2>2, <2>3, <2>4 DEF BudgetInv
  <1>2. CASE UNCHANGED vars
    <2>1. \A u \in Users : Tripped(u)' = Tripped(u)
      BY <1>2 DEF vars, Tripped, RunsOf
    <2>2. QED
      BY <1>2, <2>1 DEF vars, BudgetInv, TypeOK, ChargedIsPublished,
                        PublishedBelowCeiling, VerdictIsTrue
  <1>3. QED
    BY <1>1, <1>2, OpenKeeps, TokenKeeps, CountInputKeeps DEF Next

\* The inductive invariant holds in every execution.
THEOREM BudgetInvHolds == Spec => []BudgetInv
  BY InitBudgetInv, StepKeepsBudgetInv, PTL DEF Spec

\* Each user is charged exactly what that user received, plus one token for each
\* run the budget stopped, however the runs interleave.
THEOREM ChargesAreExact == Spec => []ChargedIsPublished
  <1>1. BudgetInv => ChargedIsPublished
    BY DEF BudgetInv
  <1>2. QED
    BY <1>1, BudgetInvHolds, PTL

\* No user receives as many tokens as the output ceiling, over all runs.
THEOREM CeilingIsNeverPublished == Spec => []PublishedBelowCeiling
  <1>1. BudgetInv => PublishedBelowCeiling
    BY DEF BudgetInv
  <1>2. QED
    BY <1>1, BudgetInvHolds, PTL

\* A run stopped by its budget names a limit that is configured and reached.
THEOREM VerdictsAreTrue == Spec => []VerdictIsTrue
  <1>1. BudgetInv => VerdictIsTrue
    BY DEF BudgetInv
  <1>2. QED
    BY <1>1, BudgetInvHolds, PTL

\* Concurrent runs overshoot the ceiling by at most one token for each run the
\* budget stopped after the first.
THEOREM OvershootBound == Spec => []OvershootIsBounded
  <1>1. BudgetInv => OvershootIsBounded
    <2>1. SUFFICES ASSUME BudgetInv, Ceilings["output_tokens"] # None,
                          Ceilings["output_tokens"] > 0, NEW u \in Users
                   PROVE  usage[u]["output_tokens"]
                             <= Ceilings["output_tokens"] - 1
                                   + Cardinality(Tripped(u))
      BY DEF OvershootIsBounded
    <2>2. Ceilings["output_tokens"] \in Nat
      BY <2>1, ConfigIsTyped DEF LimitNames
    <2>3. Cardinality(Tripped(u)) \in Nat /\ published[u] \in Nat
      BY <2>1, TrippedIsFinite DEF BudgetInv, TypeOK
    <2>4. QED
      BY <2>1, <2>2, <2>3
         DEF BudgetInv, ChargedIsPublished, PublishedBelowCeiling
  <1>2. QED
    BY <1>1, BudgetInvHolds, PTL

\* Once a limit is reached the user receives nothing more and calls no model,
\* in the runs in progress and in new ones.
THEOREM OverBudgetIsSilent == Spec => OverMeansSilent
  <1>1. BudgetInv /\ [Next]_vars =>
            [\A u \in Users : Exceeded(usage[u]) # {} =>
                 /\ published'[u] = published[u]
                 /\ prompted'[u] = prompted[u]]_vars
    <2>1. SUFFICES ASSUME BudgetInv, [Next]_vars, NEW u \in Users,
                          Exceeded(usage[u]) # {}
                   PROVE  published'[u] = published[u] /\ prompted'[u] = prompted[u]
      OBVIOUS
    <2>2. ASSUME NEW r \in Runs, Open(r)
          PROVE  published'[u] = published[u] /\ prompted'[u] = prompted[u]
      BY <2>1, <2>2, CheckNamesALimit DEF Open, BudgetInv, TypeOK
    <2>3. ASSUME NEW r \in Runs, Token(r)
          PROVE  published'[u] = published[u] /\ prompted'[u] = prompted[u]
      <3>1. CASE UserOf[r] = u
        <4>1. usage[u] \in [LimitNames -> Nat]
          BY <2>1 DEF BudgetInv, TypeOK
        <4>2. Exceeded(usage[u]) \subseteq Exceeded(RecordOutput(usage[u]))
          BY <4>1, RecordOnlyAdds
        <4>3. Check(RecordOutput(usage[u])) # None
          BY <2>1, <4>2, CheckNamesALimit
        <4>4. QED
          BY <2>3, <3>1, <4>3 DEF Token
      <3>2. CASE UserOf[r] # u
        BY <2>1, <2>3, <3>2 DEF Token, BudgetInv, TypeOK
      <3>3. QED
        BY <3>1, <3>2
    <2>4. QED
      BY <2>1, <2>2, <2>3 DEF Next, Finish, CountInput, vars
  <1>2. QED
    BY <1>1, BudgetInvHolds, PTL DEF Spec, OverMeansSilent
=============================================================================
