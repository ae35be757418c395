--------------------------- MODULE PatchedClients ---------------------------
(***************************************************************************)
(* SDK clients whose create function is replaced by a wrapper:              *)
(* wrap_openai and unwrap_openai (src/codagent/harness/targets/            *)
(* openai_client.py) and the same pair for Anthropic (src/codagent/         *)
(* integrations/anthropic_client.py).                                       *)
(*                                                                         *)
(* A client's create function is a stack of wrappers around the SDK's own,  *)
(* the outermost last; each wrapper of codagent's adds its addendum to the  *)
(* request.  codagent marks its wrapper with two attributes and looks for   *)
(* them on the outermost one only.  Other libraries wrap clients too: an    *)
(* opaque wrapper hides the attributes of what it wraps, one made with      *)
(* functools.wraps carries a copy of them.                                  *)
(***************************************************************************)
EXTENDS Naturals, Sequences

CONSTANTS Clients, MaxWrappers \* bound of a stack

ASSUME MaxWrappersIsNat == MaxWrappers \in Nat

Foreign == {"opaque", "copying"}
Wrappers == Foreign \cup {"codagent"}

VARIABLE create \* each client's stack of wrappers

ClientInit == create = [c \in Clients |-> <<>>]

\* The positions of the codagent wrappers whose attributes the outermost
\* wrapper shows, at most one.
Shown(s) ==
    {i \in DOMAIN s : s[i] = "codagent"
                      /\ \A j \in DOMAIN s : j > i => s[j] = "copying"}

Put(c, w) ==
    /\ Len(create[c]) < MaxWrappers
    /\ create' = [create EXCEPT ![c] = Append(@, w)]

\* A wrapper is undone by putting back the function it wrapped, and whatever
\* was wrapped around it since is gone with it.
PutBack(c, i) == create' = [create EXCEPT ![c] = SubSeq(@, 1, i - 1)]

\* Mutant of Wrap: without the check.
WrapAgain(c) == Put(c, "codagent")

\* wrap_openai, apply_to_openai, wrap_anthropic: RuntimeError when the
\* attribute is there.
Wrap(c) ==
    /\ Shown(create[c]) = {}
    /\ Put(c, "codagent")

\* unwrap_openai, unwrap_anthropic: nothing without the attribute.
Unwrap(c) == \E i \in Shown(create[c]) : PutBack(c, i)

\* Another library wraps the client, and undoes that some time later.
ForeignWrap(c) == \E w \in Foreign : Put(c, w)
ForeignUnwrap(c) ==
    \E i \in DOMAIN create[c] : create[c][i] \in Foreign /\ PutBack(c, i)

ClientNext ==
    \E c \in Clients : Wrap(c) \/ Unwrap(c) \/ ForeignWrap(c) \/ ForeignUnwrap(c)

ClientSpec == ClientInit /\ [][ClientNext]_create

----------------------------------------------------------------------------

ClientTypeOK == create \in [Clients -> Seq(Wrappers)]

\* A request carries the addendum of one harness: the client is not wrapped
\* twice (openai_client.py:46-50, anthropic_client.py:54-58), whatever was
\* wrapped and undone in between, except through an opaque wrapper, where wrap
\* sees a client it does not know.
AddendumOnce ==
    \A c \in Clients : \A i, j \in DOMAIN create[c] :
        i < j /\ create[c][i] = "codagent" /\ create[c][j] = "codagent" =>
            \E k \in DOMAIN create[c] : i < k /\ k < j /\ create[c][k] = "opaque"
=============================================================================
