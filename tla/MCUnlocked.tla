----------------------------- MODULE MCUnlocked ------------------------------
(***************************************************************************)
(* TLC instances of what threads share without a lock: the node wrappers    *)
(* (NodeStack) and the tracker with its caps (SpendCaps).  Neither reads or *)
(* writes a variable of the other, so one run explores each with the other  *)
(* at rest, in one of its initial states.                                   *)
(***************************************************************************)
EXTENDS NodeStack, SpendCaps, TLC

CONSTANTS a, b, big, new

Reports == {[input |-> 1, output |-> 0, model |-> None],
            [input |-> 0, output |-> 1, model |-> big],
            [input |-> 1, output |-> 1, model |-> new]}
PricesFile == big :> [input |-> 1, output |-> 2]
PricesOverride == big :> [input |-> 1, output |-> 1] @@ new :> [input |-> 1, output |-> 1]
TwoCaps == a :> 2 @@ b :> 3

StackRest == StackInit
CapsRest == registry = <<>> /\ tracker = NewTracker(<<>>, None) /\ steps = 0
            /\ trackers = 1

AllInit == StackInit /\ Init

AllNext ==
    \/ CapsRest /\ StackNext /\ UNCHANGED vars
    \/ StackRest /\ Next /\ UNCHANGED stackVars

AllSpec == AllInit /\ [][AllNext]_<<stackVars, vars>>

StackSymmetry == Permutations(Threads) \cup Permutations(Keys)
=============================================================================
