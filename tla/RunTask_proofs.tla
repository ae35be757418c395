--------------------------- MODULE RunTask_proofs ---------------------------
(***************************************************************************)
(* Proofs about RunTask, for any stack of hooks, any ceiling, any faults    *)
(* and any number of tokens, events, cancels and other runs.                *)
(*                                                                         *)
(* The inductive invariant has four parts.  Publishing says what the events, *)
(* the publishes in progress and the store have to do with each other;      *)
(* Control what run_task has decided at each await; Announced what the      *)
(* terminal event says; Counted what the counters say.                      *)
(*                                                                         *)
(* The last part is about ServedRun, run_task and the clients of the run    *)
(* together: run_task drives a stream that RunStream describes, so what is  *)
(* proved of streams in RunStream_proofs and of run_task here meets.        *)
(***************************************************************************)
EXTENDS ServedRun, SequenceTheorems, FiniteSetTheorems, TLAPS

Frames == [event : Nat, hook : Nat]

\* The publishes fs in progress, the events ev and the stored ids st: the inner
\* publish is of the newer event, whatever follows the outermost one's event was
\* published by hooks, and an event is stored when its publish ends.
Publishing(fs, ev, st) ==
    /\ ev \in Seq(EventNames) /\ fs \in Seq(Frames) /\ st \in Seq(Nat)
    /\ \A i \in 1 .. Len(fs) :
           fs[i].event \in 1 .. Len(ev) /\ fs[i].hook \in 1 .. Len(Hooks)
    /\ \A i, j \in 1 .. Len(fs) : i < j => fs[i].event < fs[j].event
    /\ \A k \in 1 .. Len(ev) : fs # <<>> /\ fs[1].event < k => ev[k] = "note"
    /\ \A i \in 1 .. Len(st) :
           /\ st[i] \in 1 .. Len(ev)
           /\ \A j \in 1 .. Len(fs) : st[i] # fs[j].event
    /\ \A i, j \in 1 .. Len(st) : i < j =>
           st[i] < st[j] \/ (st[i] > st[j] /\ ev[st[i]] = "note")

\* Every event is stored, or its publish is in progress.
Whole(fs, ev, st) ==
    /\ \A k \in 1 .. Len(ev) :
           \/ \E i \in 1 .. Len(st) : st[i] = k
           \/ \E j \in 1 .. Len(fs) : fs[j].event = k
    /\ Len(st) + Len(fs) = Len(ev)

\* A mirror is configured, and nothing keeps it from storing every event.
HasMirror == \E i \in 1 .. Len(Hooks) : Hooks[i] = "mirror"
Faithful == hardCancels = 0 /\ "mirror" \notin faulty /\ HasMirror

\* The awaits before the outcome is chosen and after it.
Early == {"created", "before", "started", "streaming", "token"}
Late == {"terminal", "afterRun", "exited"}
Places == Early \cup Late \cup {"closing", "aborted", "crashed"}

\* The await run_task is in and its locals.
Control ==
    /\ pc \in Places
    /\ {cancel, failed, over, done} \subseteq BOOLEAN
    /\ accumulated \in Nat /\ hardCancels \in Nat
    /\ pending \in {"none", "error", "cancelled"}
    /\ pc \in {"before", "afterRun"} => hook \in 1 .. Len(Hooks)
    /\ pc \in {"created", "before"} => status = "queued"
    /\ pc \in {"started", "streaming", "token", "closing", "crashed"}
           => status = "running"
    /\ pc \in Early => ~failed /\ ~over /\ pending = "none"
    /\ pc = "closing" => ~failed /\ (over => pending = "none")
    /\ pc = "aborted" => hardCancels > 0
    /\ pc = "crashed" => "judge" \in faulty
    /\ pc \in {"afterRun", "exited"} => done

\* The publish that run_task itself is in.
Outer ==
    /\ pc \in {"created", "streaming", "closing", "exited", "aborted", "crashed"}
           => frames = <<>>
    /\ pc \in {"started", "token", "terminal"} => frames # <<>>
    /\ frames # <<>> =>
           LET name == events[frames[1].event]
           IN /\ pc = "started" => name = "run.started"
              /\ pc = "token" => name = "token"
              /\ pc = "terminal" => name \in TerminalNames
              /\ pc \in {"before", "afterRun"} => name = "note"

\* The terminal event: there is one from the step that chose it on, it names the
\* budget or not, and the stream is closed only after it.
Announced ==
    /\ pc \in Early \cup {"closing", "crashed"} => TerminalIds = {}
    /\ pc \in Late => TerminalIds # {}
    /\ \A i, j \in TerminalIds : i = j
    /\ TerminalIsLast
    /\ \A i \in TerminalIds : over <=> events[i] = "run.budget_exceeded"
    /\ done => TerminalIds # {}

\* While nothing was interrupted each token is counted when its publish ends, and
\* the outcome when its publish ends.
Counted ==
    /\ counts \in [started : Nat, tokens : Nat, terminals : Nat]
    /\ hardCancels = 0 =>
           /\ counts.tokens + (IF pc = "token" THEN 1 ELSE 0) = Tokens
           /\ counts.terminals = IF pc \in {"afterRun", "exited"} THEN 1 ELSE 0
    /\ pc \in Early => Tokens = accumulated
    /\ pc = "closing" => over \/ Tokens = accumulated

\* While the store is faithful it has the whole history.
Mirrored ==
    Faithful => /\ Whole(frames, events, stored)
                /\ pc = "exited" => saved = status

\* The inductive invariant.
TaskInv ==
    /\ Publishing(frames, events, stored)
    /\ Control /\ Outer /\ Announced /\ Counted /\ Mirrored

----------------------------------------------------------------------------
(* What an event adds to the history.                                       *)

\* Append, with its facts in the form the steps need.
LEMMA Appended ==
    ASSUME NEW S, NEW s \in Seq(S), NEW x \in S
    PROVE  /\ Append(s, x) \in Seq(S)
           /\ Len(s) \in Nat
           /\ Len(Append(s, x)) = Len(s) + 1
           /\ \A i \in 1 .. Len(s) : Append(s, x)[i] = s[i]
           /\ Append(s, x)[Len(s) + 1] = x
           /\ Append(s, x) # <<>>
BY AppendProperties, LenProperties

\* The indices of the events with these names.
Indices(s, names) == {i \in 1 .. Len(s) : s[i] \in names}

\* One more event adds its index, or none.
LEMMA IndicesAppended ==
    ASSUME NEW s \in Seq(EventNames), NEW x \in EventNames, NEW names
    PROVE  /\ IsFiniteSet(Indices(s, names)) /\ Cardinality(Indices(s, names)) \in Nat
           /\ Indices(Append(s, x), names) =
                  IF x \in names THEN Indices(s, names) \cup {Len(s) + 1}
                  ELSE Indices(s, names)
           /\ Cardinality(Indices(Append(s, x), names)) =
                  IF x \in names THEN Cardinality(Indices(s, names)) + 1
                  ELSE Cardinality(Indices(s, names))
<1>1. /\ Len(s) \in Nat /\ Len(Append(s, x)) = Len(s) + 1
      /\ \A i \in 1 .. Len(s) : Append(s, x)[i] = s[i]
      /\ Append(s, x)[Len(s) + 1] = x
  BY Appended
<1>2. IsFiniteSet(Indices(s, names))
  <2>1. IsFiniteSet(1 .. Len(s))
    BY <1>1, FS_Interval
  <2>2. QED
    BY <2>1, FS_Subset DEF Indices
<1>3. Indices(Append(s, x), names) =
          IF x \in names THEN Indices(s, names) \cup {Len(s) + 1} ELSE Indices(s, names)
  BY <1>1 DEF Indices
<1>4. Len(s) + 1 \notin Indices(s, names)
  BY <1>1 DEF Indices
<1>5. /\ Cardinality(Indices(s, names)) \in Nat
      /\ Cardinality(Indices(s, names) \cup {Len(s) + 1}) = Cardinality(Indices(s, names)) + 1
  BY <1>2, <1>4, FS_CardinalityType, FS_AddElement
<1>6. QED
  BY <1>2, <1>3, <1>5

\* One more event in the history of the run.
LEMMA EventPublished ==
    ASSUME events \in Seq(EventNames), NEW name \in EventNames,
           events' = Append(events, name)
    PROVE  /\ Len(events) \in Nat /\ Len(events') = Len(events) + 1
           /\ \A i \in 1 .. Len(events) : events'[i] = events[i]
           /\ events'[Len(events) + 1] = name
           /\ TerminalIds' = IF name \in TerminalNames
                             THEN TerminalIds \cup {Len(events) + 1} ELSE TerminalIds
           /\ Tokens \in Nat
           /\ Tokens' = IF name = "token" THEN Tokens + 1 ELSE Tokens
<1>1. /\ Len(events) \in Nat /\ Len(events') = Len(events) + 1
      /\ \A i \in 1 .. Len(events) : events'[i] = events[i]
      /\ events'[Len(events) + 1] = name
  BY Appended
<1>2. TerminalIds' = IF name \in TerminalNames
                     THEN TerminalIds \cup {Len(events) + 1} ELSE TerminalIds
  BY <1>1 DEF TerminalIds
<1>3. Tokens \in Nat /\ Tokens' = IF name = "token" THEN Tokens + 1 ELSE Tokens
  <2>1. Tokens = Cardinality(Indices(events, {"token"}))
    BY DEF Tokens, Indices
  <2>2. Tokens' = Cardinality(Indices(Append(events, name), {"token"}))
    BY DEF Tokens, Indices
  <2>3. QED
    BY <2>1, <2>2, IndicesAppended
<1>4. QED
  BY <1>1, <1>2, <1>3

----------------------------------------------------------------------------
(* Publishes open and close like brackets.                                  *)

\* Nothing is in progress any more.
LEMMA PublishesDropped ==
    ASSUME NEW fs, NEW ev, NEW st, Publishing(fs, ev, st)
    PROVE  Publishing(<<>>, ev, st)
BY EmptySeq DEF Publishing

\* run_task publishes.
LEMMA PublishOpened ==
    ASSUME NEW ev, NEW st, Publishing(<<>>, ev, st), NEW name \in EventNames
    PROVE  Publishing(<<Frame(Len(ev) + 1)>>, Append(ev, name), st)
<1> DEFINE fs == <<Frame(Len(ev) + 1)>>
           more == Append(ev, name)
<1>1. /\ more \in Seq(EventNames) /\ Len(ev) \in Nat /\ Len(more) = Len(ev) + 1
      /\ \A i \in 1 .. Len(ev) : more[i] = ev[i]
  BY Appended DEF Publishing
<1>2. /\ fs \in Seq(Frames) /\ Len(fs) = 1 /\ fs[1].event = Len(ev) + 1 /\ fs[1].hook = 1
  BY <1>1 DEF Frame, Frames
<1>3. 1 \in 1 .. Len(Hooks)
  BY HooksAreKnown, LenProperties
<1> HIDE DEF fs, more
<1>4. \A i \in 1 .. Len(fs) : i = 1
  BY <1>2
<1>5. /\ st \in Seq(Nat)
      /\ \A i \in 1 .. Len(st) : st[i] \in 1 .. Len(ev)
      /\ \A i, j \in 1 .. Len(st) : i < j =>
             st[i] < st[j] \/ (st[i] > st[j] /\ ev[st[i]] = "note")
  BY DEF Publishing
<1>6. /\ \A i \in 1 .. Len(st) :
             /\ st[i] \in 1 .. Len(more)
             /\ \A j \in 1 .. Len(fs) : st[i] # fs[j].event
      /\ \A i, j \in 1 .. Len(st) : i < j =>
             st[i] < st[j] \/ (st[i] > st[j] /\ more[st[i]] = "note")
  <2>1. ASSUME NEW i \in 1 .. Len(st)
        PROVE  /\ st[i] \in 1 .. Len(more) /\ more[st[i]] = ev[st[i]]
               /\ \A j \in 1 .. Len(fs) : st[i] # fs[j].event
    <3>1. st[i] \in 1 .. Len(ev)
      BY <1>5
    <3>2. \A j \in 1 .. Len(fs) : fs[j].event = Len(ev) + 1
      BY <1>2, <1>4
    <3>3. QED
      BY <1>1, <3>1, <3>2
  <2>2. QED
    BY <1>5, <2>1
<1>7. QED
  BY <1>1, <1>2, <1>3, <1>4, <1>5, <1>6 DEF Publishing, fs, more

\* A hook publishes inside a publish in progress.
LEMMA PublishNested ==
    ASSUME NEW fs, NEW ev, NEW st, Publishing(fs, ev, st)
    PROVE  Publishing(Append(fs, Frame(Len(ev) + 1)), Append(ev, "note"), st)
<1> DEFINE inner == Append(fs, Frame(Len(ev) + 1))
           more == Append(ev, "note")
<1>1. /\ more \in Seq(EventNames) /\ Len(ev) \in Nat /\ Len(more) = Len(ev) + 1
      /\ \A i \in 1 .. Len(ev) : more[i] = ev[i]
      /\ more[Len(ev) + 1] = "note"
  BY Appended DEF Publishing, EventNames
<1>2. /\ Frame(Len(ev) + 1) \in Frames
      /\ Frame(Len(ev) + 1).event = Len(ev) + 1 /\ Frame(Len(ev) + 1).hook = 1
  BY <1>1 DEF Frame, Frames
<1>3. /\ inner \in Seq(Frames) /\ Len(fs) \in Nat /\ Len(inner) = Len(fs) + 1
      /\ \A i \in 1 .. Len(fs) : inner[i] = fs[i]
      /\ inner[Len(fs) + 1] = Frame(Len(ev) + 1)
  BY <1>2, Appended DEF Publishing
<1>4. 1 \in 1 .. Len(Hooks)
  BY HooksAreKnown, LenProperties
<1>5. fs = <<>> \/ 1 \in 1 .. Len(fs)
  BY <1>3, EmptySeq DEF Publishing
<1> HIDE DEF inner, more
<1>6. \A i \in 1 .. Len(inner) : i \in 1 .. Len(fs) \/ i = Len(fs) + 1
  BY <1>3
<1>7. ASSUME NEW i \in 1 .. Len(fs)
      PROVE  /\ inner[i] = fs[i] /\ fs[i].event \in 1 .. Len(ev)
             /\ fs[i].hook \in 1 .. Len(Hooks)
  BY <1>3 DEF Publishing
<1>8. /\ \A i \in 1 .. Len(inner) :
             inner[i].event \in 1 .. Len(more) /\ inner[i].hook \in 1 .. Len(Hooks)
      /\ \A i, j \in 1 .. Len(inner) : i < j => inner[i].event < inner[j].event
  <2>1. \A i, j \in 1 .. Len(fs) : i < j => inner[i].event < inner[j].event
    BY <1>7 DEF Publishing
  <2>2. QED
    <3>1. \A i \in 1 .. Len(fs) : inner[i].event < inner[Len(fs) + 1].event
      BY <1>1, <1>2, <1>3, <1>7
    <3>2. inner[Len(fs) + 1].event \in 1 .. Len(more) /\ inner[Len(fs) + 1].hook = 1
      BY <1>1, <1>2, <1>3
    <3>3. \A i \in 1 .. Len(fs) :
              inner[i].event \in 1 .. Len(more) /\ inner[i].hook \in 1 .. Len(Hooks)
      BY <1>1, <1>7
    <3>4. \A i, j \in 1 .. Len(inner) : i < j => i \in 1 .. Len(fs)
      BY <1>3
    <3>5. QED
      BY <1>4, <1>6, <2>1, <3>1, <3>2, <3>3, <3>4
<1>9. \A k \in 1 .. Len(more) : inner[1].event < k => more[k] = "note"
  <2>1. ASSUME NEW k \in 1 .. Len(more), inner[1].event < k PROVE more[k] = "note"
    <3>1. CASE fs = <<>>
      BY <1>1, <1>2, <1>3, <2>1, <3>1
    <3>2. CASE 1 \in 1 .. Len(fs) /\ k \in 1 .. Len(ev)
      BY <1>1, <1>7, <2>1, <3>2 DEF Publishing
    <3>3. CASE k = Len(ev) + 1
      BY <1>1, <3>3
    <3>4. QED
      BY <1>1, <1>5, <3>1, <3>2, <3>3
  <2>2. QED
    BY <2>1
<1>10. ASSUME NEW i \in 1 .. Len(st)
       PROVE  /\ st[i] \in 1 .. Len(ev) /\ st[i] \in 1 .. Len(more)
              /\ more[st[i]] = ev[st[i]]
              /\ \A j \in 1 .. Len(inner) : st[i] # inner[j].event
  <2>1. /\ st[i] \in 1 .. Len(ev)
        /\ \A j \in 1 .. Len(fs) : st[i] # fs[j].event
    BY DEF Publishing
  <2>2. QED
    <3>1. inner[Len(fs) + 1].event = Len(ev) + 1
      BY <1>2, <1>3
    <3>2. \A j \in 1 .. Len(fs) : inner[j].event = fs[j].event
      BY <1>7
    <3>3. st[i] # Len(ev) + 1 /\ st[i] \in 1 .. Len(more) /\ more[st[i]] = ev[st[i]]
      BY <1>1, <2>1
    <3>4. QED
      BY <1>6, <2>1, <3>1, <3>2, <3>3
<1>11. \A i, j \in 1 .. Len(st) : i < j =>
             st[i] < st[j] \/ (st[i] > st[j] /\ more[st[i]] = "note")
  BY <1>10 DEF Publishing
<1>12. QED
  BY <1>1, <1>3, <1>8, <1>9, <1>10, <1>11 DEF Publishing, inner, more

\* The publishes in progress without the innermost.
LEMMA Popped ==
    ASSUME NEW fs \in Seq(Frames), fs # <<>>
    PROVE  LET rest == SubSeq(fs, 1, Len(fs) - 1)
           IN /\ Len(fs) \in Nat \ {0} /\ rest \in Seq(Frames) /\ Len(rest) = Len(fs) - 1
              /\ \A i \in 1 .. Len(rest) : rest[i] = fs[i]
<1> DEFINE rest == SubSeq(fs, 1, Len(fs) - 1)
<1>1. Len(fs) \in Nat \ {0}
  BY EmptySeq
<1>2. \A i \in 1 .. Len(fs) - 1 : fs[i] \in Frames
  BY <1>1, ElementOfSeq
<1>3. /\ rest \in Seq(Frames)
      /\ Len(rest) = IF 1 <= Len(fs) - 1 THEN Len(fs) - 1 - 1 + 1 ELSE 0
      /\ \A i \in 1 .. Len(fs) - 1 - 1 + 1 : rest[i] = fs[1 + i - 1]
  BY <1>1, <1>2, SubSeqProperties
<1> HIDE DEF rest
<1>4. Len(rest) = Len(fs) - 1
  <2>1. CASE Len(fs) = 1
    BY <1>3, <2>1
  <2>2. CASE Len(fs) \in Nat /\ Len(fs) >= 2
    BY <1>3, <2>2
  <2>3. QED
    BY <1>1, <2>1, <2>2
<1>5. \A i \in 1 .. Len(rest) : rest[i] = fs[i]
  <2>1. \A i \in 1 .. Len(rest) : i \in 1 .. Len(fs) - 1 - 1 + 1 /\ 1 + i - 1 = i
    BY <1>1, <1>4
  <2>2. QED
    BY <1>3, <2>1
<1>6. QED
  BY <1>1, <1>3, <1>4, <1>5 DEF rest

\* The innermost publish ends, and the store has its event or not.
LEMMA PublishEnded ==
    ASSUME NEW fs, NEW ev, NEW st, Publishing(fs, ev, st), fs # <<>>
    PROVE  LET rest == SubSeq(fs, 1, Len(fs) - 1)
           IN /\ Publishing(rest, ev, st)
              /\ Publishing(rest, ev, Append(st, fs[Len(fs)].event))
<1> DEFINE rest == SubSeq(fs, 1, Len(fs) - 1)
           id == fs[Len(fs)].event
           more == Append(st, id)
<1>1. /\ Len(fs) \in Nat \ {0} /\ rest \in Seq(Frames) /\ Len(rest) = Len(fs) - 1
      /\ \A i \in 1 .. Len(rest) : rest[i] = fs[i]
  BY Popped DEF Publishing
<1>2. /\ Len(ev) \in Nat /\ id \in 1 .. Len(ev) /\ id \in Nat
      /\ \A i \in 1 .. Len(fs) - 1 : fs[i].event < id
  BY <1>1, LenProperties DEF Publishing
<1>3. /\ more \in Seq(Nat) /\ Len(st) \in Nat /\ Len(more) = Len(st) + 1
      /\ \A i \in 1 .. Len(st) : more[i] = st[i]
      /\ more[Len(st) + 1] = id
  BY <1>2, Appended DEF Publishing
<1> HIDE DEF rest, id, more
<1>4. /\ ev \in Seq(EventNames) /\ rest \in Seq(Frames)
      /\ \A i \in 1 .. Len(rest) :
             rest[i].event \in 1 .. Len(ev) /\ rest[i].hook \in 1 .. Len(Hooks)
      /\ \A i, j \in 1 .. Len(rest) : i < j => rest[i].event < rest[j].event
  BY <1>1 DEF Publishing
<1>5. \A k \in 1 .. Len(ev) : rest # <<>> /\ rest[1].event < k => ev[k] = "note"
  <2>1. rest # <<>> => 1 \in 1 .. Len(rest)
    BY <1>1, EmptySeq
  <2>2. QED
    BY <1>1, <2>1 DEF Publishing
<1>6. ASSUME NEW i \in 1 .. Len(st)
      PROVE  /\ st[i] \in 1 .. Len(ev) /\ st[i] # id
             /\ \A j \in 1 .. Len(rest) : st[i] # rest[j].event
             /\ st[i] < id \/ (st[i] > id /\ ev[st[i]] = "note")
  <2>1. st[i] \in 1 .. Len(ev) /\ \A j \in 1 .. Len(fs) : st[i] # fs[j].event
    BY DEF Publishing
  <2>2. st[i] # id
    BY <1>1, <2>1 DEF id
  <2>3. fs[1].event <= id
    <3>1. CASE Len(fs) = 1
      BY <1>2, <3>1 DEF id
    <3>2. CASE 1 \in 1 .. Len(fs) - 1
      <4>1. fs[1].event \in 1 .. Len(ev) /\ fs[1].event < id
        BY <1>1, <1>2, <3>2 DEF Publishing
      <4>2. QED
        BY <1>2, <4>1
    <3>3. QED
      BY <1>1, <3>1, <3>2
  <2>4. fs[1].event \in 1 .. Len(ev)
    BY <1>1 DEF Publishing
  <2>5. st[i] > id => ev[st[i]] = "note"
    BY <1>2, <2>1, <2>3, <2>4 DEF Publishing
  <2>6. QED
    BY <1>1, <1>2, <2>1, <2>2, <2>5
<1>7. Publishing(rest, ev, st)
  BY <1>4, <1>5, <1>6 DEF Publishing
<1>8. \A i \in 1 .. Len(more) : i \in 1 .. Len(st) \/ i = Len(st) + 1
  BY <1>3
<1>9. \A i \in 1 .. Len(more) :
          /\ more[i] \in 1 .. Len(ev)
          /\ \A j \in 1 .. Len(rest) : more[i] # rest[j].event
  <2>1. \A j \in 1 .. Len(rest) : id # rest[j].event /\ rest[j].event < id
    BY <1>1, <1>2, <1>4
  <2>2. QED
    BY <1>2, <1>3, <1>6, <1>8, <2>1
<1>10. \A i, j \in 1 .. Len(more) : i < j =>
             more[i] < more[j] \/ (more[i] > more[j] /\ ev[more[i]] = "note")
  <2>1. \A i, j \in 1 .. Len(more) : i < j => i \in 1 .. Len(st)
    BY <1>3
  <2>2. QED
    BY <1>3, <1>6, <1>8, <2>1 DEF Publishing
<1>11. Publishing(rest, ev, more)
  BY <1>3, <1>4, <1>5, <1>9, <1>10 DEF Publishing
<1>12. QED
  BY <1>7, <1>11 DEF rest, more, id

\* The innermost publish goes on to its next hook.
LEMMA PublishGoesOn ==
    ASSUME NEW fs, NEW ev, NEW st, Publishing(fs, ev, st), fs # <<>>,
           fs[Len(fs)].hook < Len(Hooks)
    PROVE  LET on == [fs EXCEPT ![Len(fs)].hook = @ + 1]
           IN /\ Publishing(on, ev, st) /\ Len(on) = Len(fs) /\ on # <<>>
              /\ \A i \in 1 .. Len(fs) : on[i].event = fs[i].event
<1> DEFINE on == [fs EXCEPT ![Len(fs)].hook = @ + 1]
           top == [fs[Len(fs)] EXCEPT !.hook = @ + 1]
<1>1. Len(fs) \in Nat \ {0} /\ Len(Hooks) \in Nat /\ Len(fs) \in 1 .. Len(fs)
  BY EmptySeq, HooksAreKnown, LenProperties DEF Publishing
<1>2. fs[Len(fs)] \in Frames /\ fs[Len(fs)].hook \in 1 .. Len(Hooks)
  BY <1>1, ElementOfSeq DEF Publishing
<1>3. top \in Frames /\ top.event = fs[Len(fs)].event /\ top.hook \in 1 .. Len(Hooks)
  BY <1>1, <1>2 DEF Frames
<1>4. on = [fs EXCEPT ![Len(fs)] = top]
  OBVIOUS
<1> HIDE DEF on, top
<1>5. /\ on \in Seq(Frames) /\ Len(on) = Len(fs)
      /\ \A j \in 1 .. Len(fs) : on[j] = IF j = Len(fs) THEN top ELSE fs[j]
  <2>1. fs \in Seq(Frames)
    BY DEF Publishing
  <2>2. QED
    BY <1>1, <1>3, <1>4, <2>1, ExceptSeq
<1>6. on # <<>>
  BY <1>1, <1>5, EmptySeq
<1>7. \A i \in 1 .. Len(on) :
          on[i].event = fs[i].event /\ on[i].hook \in 1 .. Len(Hooks)
  BY <1>3, <1>5 DEF Publishing
<1>8. Publishing(on, ev, st)
  <2>1. 1 \in 1 .. Len(on)
    BY <1>1, <1>5
  <2>2. /\ \A i \in 1 .. Len(on) : on[i].event \in 1 .. Len(ev)
        /\ \A i, j \in 1 .. Len(on) : i < j => on[i].event < on[j].event
        /\ \A k \in 1 .. Len(ev) : on[1].event < k => ev[k] = "note"
        /\ \A i \in 1 .. Len(st) : \A j \in 1 .. Len(on) : st[i] # on[j].event
    BY <1>5, <1>7, <2>1 DEF Publishing
  <2>3. QED
    BY <1>5, <1>7, <2>2 DEF Publishing
<1>9. QED
  BY <1>1, <1>5, <1>6, <1>7, <1>8 DEF on

----------------------------------------------------------------------------
(* A store that works misses nothing.                                       *)

\* An event published by run_task is in progress.
LEMMA WholeOpened ==
    ASSUME NEW ev, NEW st, Publishing(<<>>, ev, st), Whole(<<>>, ev, st),
           NEW name \in EventNames
    PROVE  Whole(<<Frame(Len(ev) + 1)>>, Append(ev, name), st)
<1> DEFINE fs == <<Frame(Len(ev) + 1)>>
           more == Append(ev, name)
<1>1. Len(ev) \in Nat /\ Len(more) = Len(ev) + 1 /\ Len(st) \in Nat
  BY Appended, LenProperties DEF Publishing
<1>2. Len(fs) = 1 /\ fs[1].event = Len(ev) + 1
  BY DEF Frame
<1>3. Len(st) = Len(ev) /\ \A k \in 1 .. Len(ev) : \E i \in 1 .. Len(st) : st[i] = k
  BY <1>1 DEF Whole
<1> HIDE DEF fs, more
<1>4. \A k \in 1 .. Len(more) : k \in 1 .. Len(ev) \/ k = Len(ev) + 1
  BY <1>1
<1>5. QED
  BY <1>1, <1>2, <1>3, <1>4 DEF Whole, fs, more

\* So is one published by a hook.
LEMMA WholeNested ==
    ASSUME NEW fs, NEW ev, NEW st, Publishing(fs, ev, st), Whole(fs, ev, st)
    PROVE  Whole(Append(fs, Frame(Len(ev) + 1)), Append(ev, "note"), st)
<1> DEFINE inner == Append(fs, Frame(Len(ev) + 1))
           more == Append(ev, "note")
<1>1. Len(ev) \in Nat /\ Len(more) = Len(ev) + 1 /\ Len(st) \in Nat
  BY Appended, LenProperties DEF Publishing, EventNames
<1>2. Frame(Len(ev) + 1) \in Frames /\ Frame(Len(ev) + 1).event = Len(ev) + 1
  BY <1>1 DEF Frame, Frames
<1>3. /\ Len(fs) \in Nat /\ Len(inner) = Len(fs) + 1
      /\ \A i \in 1 .. Len(fs) : inner[i] = fs[i]
      /\ inner[Len(fs) + 1] = Frame(Len(ev) + 1)
  BY <1>2, Appended DEF Publishing
<1> HIDE DEF inner, more
<1>4. \A k \in 1 .. Len(more) : k \in 1 .. Len(ev) \/ k = Len(ev) + 1
  BY <1>1
<1>5. ASSUME NEW k \in 1 .. Len(more)
      PROVE  \/ \E i \in 1 .. Len(st) : st[i] = k
             \/ \E j \in 1 .. Len(inner) : inner[j].event = k
  <2>1. CASE k \in 1 .. Len(ev)
    <3>1. \A j \in 1 .. Len(fs) : j \in 1 .. Len(inner) /\ inner[j].event = fs[j].event
      BY <1>3
    <3>2. QED
      BY <2>1, <3>1 DEF Whole
  <2>2. CASE k = Len(ev) + 1
    <3>1. Len(fs) + 1 \in 1 .. Len(inner)
      BY <1>3
    <3>2. QED
      BY <1>2, <1>3, <2>2, <3>1
  <2>3. QED
    BY <1>4, <2>1, <2>2
<1>6. Len(st) + Len(inner) = Len(more)
  <2>1. Len(st) + Len(fs) = Len(ev)
    BY DEF Whole
  <2>2. QED
    BY <1>1, <1>3, <2>1
<1>7. QED
  BY <1>5, <1>6 DEF Whole, inner, more

\* The store has an event when its publish ends.
LEMMA WholeEnded ==
    ASSUME NEW fs, NEW ev, NEW st, Publishing(fs, ev, st), Whole(fs, ev, st),
           fs # <<>>
    PROVE  Whole(SubSeq(fs, 1, Len(fs) - 1), ev, Append(st, fs[Len(fs)].event))
<1> DEFINE rest == SubSeq(fs, 1, Len(fs) - 1)
           id == fs[Len(fs)].event
           more == Append(st, id)
<1>1. /\ Len(fs) \in Nat \ {0} /\ Len(rest) = Len(fs) - 1
      /\ \A i \in 1 .. Len(rest) : rest[i] = fs[i]
  BY Popped DEF Publishing
<1>2. id \in Nat
  BY <1>1 DEF Publishing
<1>3. /\ Len(st) \in Nat /\ Len(more) = Len(st) + 1
      /\ \A i \in 1 .. Len(st) : more[i] = st[i]
      /\ more[Len(st) + 1] = id
  BY <1>2, Appended DEF Publishing
<1> HIDE DEF rest, more
<1>4. ASSUME NEW k \in 1 .. Len(ev)
      PROVE  \/ \E i \in 1 .. Len(more) : more[i] = k
             \/ \E j \in 1 .. Len(rest) : rest[j].event = k
  <2>1. ASSUME NEW i \in 1 .. Len(st), st[i] = k
        PROVE  \E n \in 1 .. Len(more) : more[n] = k
    BY <1>3, <2>1
  <2>2. ASSUME NEW j \in 1 .. Len(fs), fs[j].event = k
        PROVE  \/ \E i \in 1 .. Len(more) : more[i] = k
               \/ \E n \in 1 .. Len(rest) : rest[n].event = k
    <3>1. CASE j = Len(fs)
      <4>1. Len(st) + 1 \in 1 .. Len(more) /\ more[Len(st) + 1] = k
        BY <1>3, <2>2, <3>1
      <4>2. QED
        BY <4>1
    <3>2. CASE j \in 1 .. Len(rest)
      BY <1>1, <2>2, <3>2
    <3>3. QED
      BY <1>1, <3>1, <3>2
  <2>3. QED
    BY <2>1, <2>2 DEF Whole
<1>5. Len(more) + Len(rest) = Len(ev)
  <2>1. Len(st) + Len(fs) = Len(ev)
    BY DEF Whole
  <2>2. QED
    BY <1>1, <1>3, <2>1
<1>6. QED
  BY <1>4, <1>5 DEF Whole, rest, more

----------------------------------------------------------------------------
(* The first state, and the steps that neither publish nor decide.          *)

\* A run that was just created has done nothing.
LEMMA InitTaskInv == Init => TaskInv
<1> SUFFICES ASSUME Init PROVE TaskInv
  OBVIOUS
<1> USE DEF Init
<1>1. Publishing(<<>>, <<>>, <<>>)
  BY EmptySeq DEF Publishing
<1>2. TerminalIds = {} /\ Tokens = 0
  <2>1. {i \in 1 .. Len(events) : events[i] = "token"} = {}
    BY EmptySeq
  <2>2. TerminalIds = {}
    BY EmptySeq DEF TerminalIds
  <2>3. QED
    BY <2>1, <2>2, FS_EmptySet DEF Tokens
<1>3. Control
  BY DEF Control, Early, Late, Places
<1>4. Outer /\ Announced
  BY <1>2 DEF Outer, Announced, TerminalIsLast, Early, Late
<1>5. Counted
  BY <1>2 DEF Counted, Early
<1>6. Mirrored
  BY EmptySeq DEF Mirrored, Whole
<1>7. QED
  BY <1>1, <1>3, <1>4, <1>5, <1>6 DEF TaskInv

\* What depends on the events alone does not change while none is published.
LEMMA QuietEvents ==
    ASSUME events' = events
    PROVE  /\ TerminalIds' = TerminalIds /\ Tokens' = Tokens
           /\ TerminalIsLast' <=> TerminalIsLast
<1>1. TerminalIds' = TerminalIds /\ Tokens' = Tokens
  BY DEF TerminalIds, Tokens
<1>2. QED
  BY <1>1 DEF TerminalIsLast

\* Steps that publish nothing and end no publish.
LEMMA QuietSteps ==
    ASSUME TaskInv, UNCHANGED <<events, frames, stored, counts, hardCancels, faulty>>,
           \/ Start \/ BeforeReturns \/ AfterRunReturns
           \/ Token \/ UpstreamEnds \/ UpstreamRaises
           \/ RequestCancel \/ OthersSpend \/ UNCHANGED vars
    PROVE  TaskInv'
<1>1. Publishing(frames', events', stored')
  BY DEF TaskInv
<1>2. Len(Hooks) \in Nat \ {0}
  BY HooksAreKnown, LenProperties
<1> USE DEF TaskInv, InHook
<1>3. ~(pc = "streaming" /\ pc' = "token")
  BY DEF Start, BeforeReturns, AfterRunReturns, Token, PublishFromTask, UpstreamEnds,
         UpstreamRaises, LeaveLoop, RequestCancel, OthersSpend, vars, taskVars, Outer
<1>4. Control'
  <2> USE DEF Control, Early, Late, Places
  <2>1. CASE Start
    BY <1>2, <2>1 DEF Start, runVars, outsideVars
  <2>2. CASE BeforeReturns
    BY <1>2, <2>2 DEF BeforeReturns, runVars
  <2>3. CASE AfterRunReturns
    BY <1>2, <2>3 DEF AfterRunReturns, runVars
  <2>4. CASE Token
    <3>1. \A n : OverCeiling(n) \in BOOLEAN
      BY DEF OverCeiling
    <3>2. /\ pc = "streaming" /\ pc' = "closing"
          /\ UNCHANGED <<status, pending, failed, done>>
          /\ accumulated' \in Nat /\ over' \in BOOLEAN /\ cancel' \in BOOLEAN
      BY <1>3, <2>4, <3>1 DEF Token, LeaveLoop
    <3>3. QED
      BY <3>2
  <2>5. CASE UpstreamEnds \/ UpstreamRaises
    BY <2>5 DEF UpstreamEnds, UpstreamRaises, LeaveLoop, outsideVars
  <2>6. CASE RequestCancel \/ OthersSpend \/ UNCHANGED vars
    <3>1. /\ UNCHANGED <<pc, hook, failed, over, pending, accumulated, status, done>>
          /\ cancel' \in BOOLEAN
      BY <2>6 DEF RequestCancel, OthersSpend, vars, taskVars, runVars, outsideVars
    <3>2. QED
      BY <3>1
  <2>7. QED
    BY <2>1, <2>2, <2>3, <2>4, <2>5, <2>6
<1>5. /\ pc' = pc /\ over' = over /\ done' = done /\ accumulated' = accumulated
      \/ /\ pc = "created" /\ pc' = "before"
         /\ over' = over /\ done' = done /\ accumulated' = accumulated
      \/ /\ pc = "afterRun" /\ pc' = "exited" /\ over' = over /\ done' = done
         /\ frames = <<>>
      \/ /\ pc = "streaming" /\ pc' = "closing" /\ done' = done
         /\ over' \/ accumulated' = accumulated
  BY <1>3 DEF Start, BeforeReturns, AfterRunReturns, Token, UpstreamEnds, Control, Early,
              UpstreamRaises, LeaveLoop, RequestCancel, OthersSpend, vars, taskVars, runVars
<1>6. Outer'
  BY <1>5 DEF Outer
<1>7. Announced'
  BY <1>5, QuietEvents DEF Announced, Control, Early, Late
<1>8. Counted'
  BY <1>5, QuietEvents DEF Counted, Early
<1>9. Mirrored'
  <2>1. CASE AfterRunReturns
    <3>1. Faithful /\ pc' = "exited" => Hooks[hook] = "mirror" /\ "mirror" \notin faulty
      BY <2>1, MirrorIsLast DEF AfterRunReturns, Faithful, HasMirror, Control
    <3>2. Faithful /\ pc' = "exited" => saved' = status'
      BY <2>1, <3>1 DEF AfterRunReturns, MirrorSnapshot, runVars
    <3>3. QED
      BY <3>2 DEF Mirrored, Faithful
  <2>2. CASE ~AfterRunReturns
    <3>1. pc' = "exited" => pc = "exited" /\ saved' = saved /\ status' = status
      BY <2>2 DEF Start, BeforeReturns, Token, UpstreamEnds, UpstreamRaises, LeaveLoop,
                  PublishFromTask, RequestCancel, OthersSpend, vars, taskVars, runVars,
                  outsideVars, Control, Places
    <3>2. QED
      BY <3>1 DEF Mirrored, Faithful
  <2>3. QED
    BY <2>1, <2>2
<1>10. QED
  BY <1>1, <1>4, <1>6, <1>7, <1>8, <1>9

----------------------------------------------------------------------------
(* Steps that end a publish.                                                *)

\* The innermost publish is run_task's own or a hook's.
LEMMA TopIsNote ==
    ASSUME TaskInv, frames # <<>>
    PROVE  /\ Len(frames) \in Nat /\ (Len(frames) = 1 \/ Len(frames) > 1)
           /\ Top.event \in 1 .. Len(events)
           /\ Top.hook \in 1 .. Len(Hooks)
           /\ Len(frames) > 1 \/ pc \in {"before", "afterRun"} => events[Top.event] = "note"
           /\ Len(frames) = 1 => Top = frames[1] /\ Pop = <<>>
           /\ Len(frames) > 1 => Pop # <<>> /\ Pop[1] = frames[1]
<1>1. /\ Len(frames) \in Nat \ {0} /\ Pop \in Seq(Frames) /\ Len(Pop) = Len(frames) - 1
      /\ \A i \in 1 .. Len(Pop) : Pop[i] = frames[i]
  BY Popped DEF TaskInv, Publishing, Pop
<1>2. Top.event \in 1 .. Len(events) /\ Top.hook \in 1 .. Len(Hooks)
  BY <1>1 DEF TaskInv, Publishing, Top
<1>3. CASE Len(frames) = 1
  BY <1>1, <1>2, <1>3, EmptySeq DEF TaskInv, Outer, Top
<1>4. CASE Len(frames) > 1
  <2>1. frames[1].event < Top.event
    BY <1>1, <1>4 DEF TaskInv, Publishing, Top
  <2>2. events[Top.event] = "note"
    BY <1>2, <2>1 DEF TaskInv, Publishing
  <2>3. Pop # <<>> /\ Pop[1] = frames[1]
    BY <1>1, <1>4, EmptySeq
  <2>4. QED
    BY <1>1, <1>2, <1>4, <2>2, <2>3
<1>5. QED
  BY <1>1, <1>3, <1>4

\* What the last hooks of a publish do: the store has the event, unless it
\* failed, and the counters have it.
LEMMA HooksFinished ==
    ASSUME TaskInv, AtLastHook, FinishHooks
    PROVE  /\ Publishing(Pop, events, stored')
           /\ Faithful => Whole(Pop, events, stored')
           /\ counts' \in [started : Nat, tokens : Nat, terminals : Nat]
           /\ counts'.tokens = IF events[Top.event] = "token"
                               THEN counts.tokens + 1 ELSE counts.tokens
           /\ counts'.terminals = IF events[Top.event] \in TerminalNames
                                  THEN counts.terminals + 1 ELSE counts.terminals
<1>1. Publishing(frames, events, stored) /\ frames # <<>>
  BY DEF TaskInv, AtLastHook
<1>2. stored' = stored \/ stored' = Append(stored, Top.event)
  BY DEF FinishHooks, MirrorEvent
<1>3. Publishing(Pop, events, stored')
  BY <1>1, <1>2, PublishEnded DEF Pop, Top
<1>4. ASSUME Faithful PROVE Whole(Pop, events, stored')
  <2>1. Hooks[Top.hook] = "mirror"
    BY <1>4, MirrorIsLast DEF AtLastHook, Faithful, HasMirror
  <2>2. stored' = Append(stored, Top.event)
    BY <1>4, <2>1 DEF FinishHooks, MirrorEvent, Faithful
  <2>3. QED
    BY <1>1, <1>4, <2>2, WholeEnded DEF TaskInv, Mirrored, Pop, Top
<1>5. counts \in [started : Nat, tokens : Nat, terminals : Nat]
  BY DEF TaskInv, Counted
<1>6. counts' = [counts EXCEPT
          !.tokens = IF events[Top.event] = "token" THEN @ + 1 ELSE @,
          !.terminals = IF events[Top.event] \in TerminalNames THEN @ + 1 ELSE @]
  BY DEF FinishHooks, CountEvent
<1>7. /\ counts' \in [started : Nat, tokens : Nat, terminals : Nat]
      /\ counts'.tokens = IF events[Top.event] = "token"
                          THEN counts.tokens + 1 ELSE counts.tokens
      /\ counts'.terminals = IF events[Top.event] \in TerminalNames
                             THEN counts.terminals + 1 ELSE counts.terminals
  <2> DEFINE t == IF events[Top.event] = "token" THEN counts.tokens + 1 ELSE counts.tokens
             u == IF events[Top.event] \in TerminalNames
                  THEN counts.terminals + 1 ELSE counts.terminals
  <2>1. t \in Nat /\ u \in Nat
    BY <1>5
  <2>2. counts' = [counts EXCEPT !.tokens = t, !.terminals = u]
    BY <1>6
  <2> HIDE DEF t, u
  <2>3. /\ counts' \in [started : Nat, tokens : Nat, terminals : Nat]
        /\ counts'.tokens = t /\ counts'.terminals = u
    BY <1>5, <2>1, <2>2
  <2>4. QED
    BY <2>3 DEF t, u
<1>8. QED
  BY <1>3, <1>4, <1>7

\* A hook's own publish returns to the hook: what it published is a note.
LEMMA NestedReturnsKeeps == ASSUME TaskInv, NestedReturns PROVE TaskInv'
<1>1. /\ frames # <<>> /\ frames' = Pop /\ events' = events
      /\ UNCHANGED <<pc, hook, failed, over, pending, accumulated, status, cancel, done,
                     saved, hardCancels, faulty>>
      /\ Len(frames) > 1 \/ pc \in {"before", "afterRun"}
  BY DEF NestedReturns, AtLastHook, runVars
<1>2. events[Top.event] = "note"
  BY <1>1, TopIsNote
<1>3. /\ Publishing(Pop, events, stored')
      /\ Faithful => Whole(Pop, events, stored')
      /\ counts' \in [started : Nat, tokens : Nat, terminals : Nat]
      /\ counts'.tokens = counts.tokens /\ counts'.terminals = counts.terminals
  BY <1>2, HooksFinished DEF NestedReturns, TerminalNames
<1>4. Publishing(frames', events', stored')
  BY <1>1, <1>3
<1>5. Control'
  BY <1>1 DEF TaskInv, Control
<1>6. Outer'
  <2>1. CASE Len(frames) > 1
    BY <1>1, <2>1, TopIsNote DEF TaskInv, Outer
  <2>2. CASE Len(frames) = 1
    BY <1>1, <2>2, TopIsNote DEF TaskInv, Outer
  <2>3. QED
    BY <1>1, <2>1, <2>2, TopIsNote
<1>7. Announced'
  BY <1>1, QuietEvents DEF TaskInv, Announced
<1>8. Counted'
  BY <1>1, <1>3, QuietEvents DEF TaskInv, Counted
<1>9. Mirrored'
  BY <1>1, <1>3 DEF TaskInv, Mirrored, Faithful
<1>10. QED
  BY <1>4, <1>5, <1>6, <1>7, <1>8, <1>9 DEF TaskInv

\* A publish goes on to its next hook, which is not the one that stores.
LEMMA NextHookKeeps == ASSUME TaskInv, NextHook PROVE TaskInv'
<1>1. /\ frames # <<>> /\ events' = events
      /\ UNCHANGED <<pc, hook, failed, over, pending, accumulated, status, cancel, done,
                     saved, counts, hardCancels, faulty>>
      /\ frames' = [frames EXCEPT ![Len(frames)].hook = @ + 1]
  BY DEF NextHook, runVars
<1>2. stored' = stored
  <2>1. Top.hook \in 1 .. Len(Hooks) /\ Top.hook < Len(Hooks)
    BY <1>1, TopIsNote DEF NextHook
  <2>2. Hooks[Top.hook] # "mirror"
    BY <2>1, MirrorIsLast, HooksAreKnown, LenProperties
  <2>3. QED
    BY <2>2 DEF NextHook, MirrorEvent
<1>3. /\ Publishing(frames', events, stored) /\ Len(frames') = Len(frames)
      /\ frames' # <<>>
      /\ \A i \in 1 .. Len(frames) : frames'[i].event = frames[i].event
  <2>1. Publishing(frames, events, stored) /\ frames[Len(frames)].hook < Len(Hooks)
    BY DEF TaskInv, NextHook, Top
  <2>2. QED
    BY <1>1, <2>1, PublishGoesOn
<1>4. Publishing(frames', events', stored')
  BY <1>1, <1>2, <1>3
<1>5. Control'
  BY <1>1 DEF TaskInv, Control
<1>6. Outer'
  <2>1. 1 \in 1 .. Len(frames)
    BY <1>1, TopIsNote
  <2>2. QED
    BY <1>1, <1>3, <2>1 DEF TaskInv, Outer
<1>7. Announced'
  BY <1>1, QuietEvents DEF TaskInv, Announced
<1>8. Counted'
  BY <1>1, QuietEvents DEF TaskInv, Counted
<1>9. Mirrored'
  BY <1>1, <1>2, <1>3 DEF TaskInv, Mirrored, Faithful, Whole
<1>10. QED
  BY <1>4, <1>5, <1>6, <1>7, <1>8, <1>9 DEF TaskInv

----------------------------------------------------------------------------
(* Steps that publish.                                                      *)

\* run_task publishes, with no other publish in progress.
LEMMA TaskPublishes ==
    ASSUME Publishing(<<>>, events, stored'), NEW name \in EventNames,
           PublishFromTask(name)
    PROVE  /\ Publishing(frames', events', stored')
           /\ Whole(<<>>, events, stored') => Whole(frames', events', stored')
           /\ Len(events) \in Nat
           /\ frames' # <<>> /\ frames'[1].event = Len(events) + 1
           /\ events'[Len(events) + 1] = name
           /\ TerminalIds' = IF name \in TerminalNames
                             THEN TerminalIds \cup {Len(events) + 1} ELSE TerminalIds
           /\ Tokens' = IF name = "token" THEN Tokens + 1 ELSE Tokens
           /\ Tokens \in Nat
<1>1. /\ events' = Append(events, name) /\ frames' = <<Frame(Len(events) + 1)>>
      /\ events \in Seq(EventNames)
  BY DEF PublishFromTask, Publishing
<1>2. /\ Publishing(frames', events', stored')
      /\ Whole(<<>>, events, stored') => Whole(frames', events', stored')
  BY <1>1, PublishOpened, WholeOpened
<1>3. frames' # <<>> /\ frames'[1].event = Len(events) + 1
  BY <1>1 DEF Frame
<1>4. QED
  BY <1>1, <1>2, <1>3, EventPublished

\* No event but the first follows the first outcome.
LEMMA NothingFollows ==
    ASSUME Len(events) \in Nat, TerminalIds' = {Len(events) + 1},
           Len(events') = Len(events) + 1
    PROVE  TerminalIsLast'
BY DEF TerminalIsLast

\* The end of the run is chosen: a terminal event that agrees with what was
\* decided, or none because a contract raised.
LEMMA Settled ==
    ASSUME Settle, Publishing(<<>>, events, stored'), TerminalIds = {},
           ~done, done' = done, failed' \in BOOLEAN, over' \in BOOLEAN,
           cancel' \in BOOLEAN, ~(failed' /\ over')
    PROVE  /\ Publishing(frames', events', stored')
           /\ Whole(<<>>, events, stored') => Whole(frames', events', stored')
           /\ Outer' /\ Announced' /\ Tokens' = Tokens
           /\ \/ /\ pc' = "crashed" /\ "judge" \in faulty
                 /\ ~failed' /\ ~over' /\ ~cancel' /\ UNCHANGED <<status, events>>
              \/ /\ pc' = "terminal" /\ Len(events) \in Nat
                 /\ TerminalIds' = {Len(events) + 1}
                 /\ LET o == events'[Len(events) + 1]
                    IN \/ failed' /\ o = "run.failed" /\ status' = "failed"
                       \/ over' /\ o = "run.budget_exceeded" /\ status' = "failed"
                       \/ cancel' /\ o = "run.cancelled" /\ status' = "cancelled"
                       \/ /\ ~failed' /\ ~over' /\ ~cancel'
                          /\ \/ o = "run.done" /\ status' = "completed"
                             \/ o = "run.contract_failed" /\ status' = "failed"
<1>1. ASSUME NEW name \in TerminalNames, NEW st, Conclude(name, st),
             over' <=> name = "run.budget_exceeded"
      PROVE  /\ Publishing(frames', events', stored')
             /\ Whole(<<>>, events, stored') => Whole(frames', events', stored')
             /\ Outer' /\ Announced' /\ Tokens' = Tokens
             /\ pc' = "terminal" /\ Len(events) \in Nat
             /\ TerminalIds' = {Len(events) + 1}
             /\ events'[Len(events) + 1] = name /\ status' = st
  <2>1. name \in EventNames /\ name # "token"
    BY DEF EventNames, TerminalNames
  <2>2. /\ Publishing(frames', events', stored')
        /\ Whole(<<>>, events, stored') => Whole(frames', events', stored')
        /\ Len(events) \in Nat
        /\ frames' # <<>> /\ frames'[1].event = Len(events) + 1
        /\ events'[Len(events) + 1] = name
        /\ TerminalIds' = {Len(events) + 1} /\ Tokens' = Tokens
    BY <1>1, <2>1, TaskPublishes DEF Conclude
  <2>3. Outer'
    BY <1>1, <2>2 DEF Outer, Conclude
  <2>4. Len(events') = Len(events) + 1
    BY <1>1, <2>1, Appended DEF Conclude, PublishFromTask, Publishing
  <2>5. Announced'
    BY <1>1, <2>2, <2>4, NothingFollows DEF Announced, Conclude, Early, Late
  <2>6. QED
    BY <1>1, <2>2, <2>3, <2>5 DEF Conclude
<1>2. CASE failed' /\ Conclude("run.failed", "failed")
  BY <1>1, <1>2 DEF TerminalNames
<1>3. CASE ~failed' /\ over' /\ Conclude("run.budget_exceeded", "failed")
  BY <1>1, <1>3 DEF TerminalNames
<1>4. CASE ~failed' /\ ~over' /\ cancel' /\ Conclude("run.cancelled", "cancelled")
  BY <1>1, <1>4 DEF TerminalNames
<1>5. CASE ~failed' /\ ~over' /\ ~cancel' /\ Conclude("run.done", "completed")
  BY <1>1, <1>5 DEF TerminalNames
<1>6. CASE ~failed' /\ ~over' /\ ~cancel' /\ Conclude("run.contract_failed", "failed")
  BY <1>1, <1>6 DEF TerminalNames
<1>7. CASE /\ ~failed' /\ ~over' /\ ~cancel' /\ "judge" \in faulty
           /\ pc' = "crashed" /\ frames' = <<>> /\ UNCHANGED <<status, events>>
  <2>1. TerminalIds' = {} /\ Tokens' = Tokens /\ TerminalIsLast'
    BY <1>7, QuietEvents DEF TerminalIsLast
  <2>2. Outer' /\ Announced'
    BY <1>7, <2>1 DEF Outer, Announced, Early, Late
  <2>3. QED
    BY <1>7, <2>1, <2>2
<1>8. QED
  BY <1>2, <1>3, <1>4, <1>5, <1>6, <1>7 DEF Settle

\* A publish of run_task's own ends: nothing is in progress any more.
LEMMA OuterReturns ==
    ASSUME TaskInv, NEW p, ReturningTo(p), FinishHooks
    PROVE  /\ pc = p /\ frames # <<>> /\ Top = frames[1]
           /\ Publishing(<<>>, events, stored')
           /\ Faithful => Whole(<<>>, events, stored')
           /\ counts' \in [started : Nat, tokens : Nat, terminals : Nat]
           /\ counts'.tokens = IF events[frames[1].event] = "token"
                               THEN counts.tokens + 1 ELSE counts.tokens
           /\ counts'.terminals = IF events[frames[1].event] \in TerminalNames
                                  THEN counts.terminals + 1 ELSE counts.terminals
<1>1. pc = p /\ frames # <<>> /\ Len(frames) = 1 /\ AtLastHook
  BY DEF ReturningTo, AtLastHook
<1>2. Top = frames[1] /\ Pop = <<>>
  BY <1>1, TopIsNote
<1>3. QED
  BY <1>1, <1>2, HooksFinished

\* The last before_run hook returns and the run starts.
LEMMA BeforeDoneKeeps == ASSUME TaskInv, BeforeDone PROVE TaskInv'
<1>1. /\ pc = "before" /\ pc' = "started" /\ frames = <<>> /\ status' = "running"
      /\ PublishFromTask("run.started")
      /\ UNCHANGED <<hook, failed, over, pending, accumulated, cancel, done, stored,
                     hardCancels, faulty>>
      /\ counts' = [counts EXCEPT !.started = @ + 1]
  BY DEF BeforeDone, InHook
<1>2. "run.started" \in EventNames \ TerminalNames
  BY DEF EventNames, TerminalNames
<1>3. /\ Publishing(frames', events', stored')
      /\ Whole(<<>>, events, stored') => Whole(frames', events', stored')
      /\ frames' # <<>> /\ events'[frames'[1].event] = "run.started"
      /\ TerminalIds' = TerminalIds /\ Tokens' = Tokens
  BY <1>1, <1>2, TaskPublishes DEF TaskInv
<1>4. TerminalIds = {}
  BY <1>1 DEF TaskInv, Announced, Early
<1>5. Control'
  BY <1>1 DEF TaskInv, Control, Early, Places
<1>6. Outer'
  BY <1>1, <1>3 DEF Outer
<1>7. Announced'
  BY <1>1, <1>3, <1>4 DEF TaskInv, Announced, TerminalIsLast, Late
<1>8. Counted'
  BY <1>1, <1>3 DEF TaskInv, Counted, Early
<1>9. Mirrored'
  BY <1>1, <1>3 DEF TaskInv, Mirrored, Faithful
<1>10. QED
  BY <1>3, <1>5, <1>6, <1>7, <1>8, <1>9 DEF TaskInv

\* The upstream's token is published.
LEMMA TokenKeeps ==
    ASSUME TaskInv, Token, pc' = "token" PROVE TaskInv'
<1>1. /\ pc = "streaming" /\ ~cancel /\ accumulated' = accumulated + 1
      /\ over' = OverCeiling(spent') /\ ~over' /\ cancel' = over'
      /\ PublishFromTask("token")
      /\ UNCHANGED <<hook, failed, pending, status, done, saved, stored, counts,
                     hardCancels, faulty>>
  BY DEF Token, LeaveLoop
<1>2. frames = <<>> /\ TerminalIds = {} /\ "token" \in EventNames \ TerminalNames
  BY <1>1 DEF TaskInv, Outer, Announced, Early, EventNames, TerminalNames
<1>3. /\ Publishing(frames', events', stored')
      /\ Whole(<<>>, events, stored') => Whole(frames', events', stored')
      /\ frames' # <<>> /\ events'[frames'[1].event] = "token"
      /\ TerminalIds' = TerminalIds /\ Tokens' = Tokens + 1 /\ Tokens \in Nat
  BY <1>1, <1>2, TaskPublishes DEF TaskInv
<1>4. over' = FALSE /\ cancel' = FALSE
  BY <1>1 DEF OverCeiling
<1>5. Control'
  <2>1. /\ pc' = "token" /\ over' = FALSE /\ cancel' = FALSE /\ failed' = FALSE
        /\ pending' = "none" /\ status' = "running" /\ done' \in BOOLEAN
        /\ accumulated' \in Nat /\ hardCancels' \in Nat
    BY <1>1, <1>4 DEF TaskInv, Control, Early
  <2>2. QED
    BY <2>1 DEF Control, Early, Late, Places
<1>6. Outer'
  BY <1>1, <1>3 DEF Outer
<1>7. Announced'
  BY <1>1, <1>2, <1>3 DEF TaskInv, Announced, TerminalIsLast, Late
<1>8. Counted'
  BY <1>1, <1>3 DEF TaskInv, Counted, Control, Early
<1>9. Mirrored'
  BY <1>1, <1>2, <1>3 DEF TaskInv, Mirrored, Faithful
<1>10. QED
  BY <1>3, <1>5, <1>6, <1>7, <1>8, <1>9 DEF TaskInv

\* The step that chooses the end of the run keeps the invariant.
LEMMA SettleKeeps ==
    ASSUME Settle, Publishing(<<>>, events, stored'), TerminalIds = {},
           Faithful' => Whole(<<>>, events, stored'),
           done = FALSE, done' = FALSE, failed' \in BOOLEAN, over' \in BOOLEAN,
           cancel' \in BOOLEAN, failed' = FALSE \/ over' = FALSE,
           status = "running" \/ failed' = TRUE \/ cancel' = TRUE,
           pending' \in {"none", "error", "cancelled"},
           accumulated' \in Nat, hardCancels' \in Nat, faulty' = faulty,
           counts' \in [started : Nat, tokens : Nat, terminals : Nat],
           hardCancels' = 0 => counts'.tokens = Tokens /\ counts'.terminals = 0
    PROVE  TaskInv'
<1>1. /\ Publishing(frames', events', stored')
      /\ Whole(<<>>, events, stored') => Whole(frames', events', stored')
      /\ Outer' /\ Announced' /\ Tokens' = Tokens
      /\ \/ /\ pc' = "crashed" /\ status' = status /\ "judge" \in faulty
            /\ ~failed' /\ ~cancel'
         \/ pc' = "terminal"
  BY Settled
<1>2. Control'
  <2>1. CASE pc' = "terminal"
    BY <2>1 DEF Control, Early, Late, Places
  <2>2. CASE pc' = "crashed"
    <3>1. "judge" \in faulty' /\ status' = "running"
      BY <1>1, <2>2
    <3>2. QED
      BY <2>2, <3>1 DEF Control, Early, Late, Places
  <2>3. QED
    BY <1>1, <2>1, <2>2
<1>3. Counted'
  <2>1. counts'.tokens \in Nat /\ Tokens' = Tokens
    BY <1>1
  <2>2. pc' \in {"terminal", "crashed"}
    BY <1>1
  <2>3. QED
    BY <2>1, <2>2 DEF Counted, Early
<1>4. Mirrored'
  BY <1>1 DEF Mirrored
<1>5. QED
  BY <1>1, <1>2, <1>3, <1>4 DEF TaskInv

\* run.started is out: the run is over the budget, cancelled, or calls the
\* upstream.
LEMMA StartedReturnsKeeps == ASSUME TaskInv, StartedReturns PROVE TaskInv'
<1>1. /\ pc = "started" /\ ReturningTo("started") /\ FinishHooks
      /\ UNCHANGED <<hook, failed, pending, accumulated, done, saved, hardCancels, faulty>>
  BY DEF StartedReturns, ReturningTo
<1>2. over' \in BOOLEAN /\ cancel' \in BOOLEAN
  BY DEF StartedReturns, OverCeiling, TaskInv, Control
<1>3. /\ failed = FALSE /\ pending = "none" /\ done = FALSE /\ status = "running"
      /\ TerminalIds = {} /\ accumulated \in Nat /\ hardCancels \in Nat
      /\ Tokens = accumulated
      /\ hardCancels = 0 => counts.tokens = Tokens /\ counts.terminals = 0
  BY <1>1 DEF TaskInv, Control, Announced, Counted, Early
<1>4. /\ Publishing(<<>>, events, stored')
      /\ Faithful => Whole(<<>>, events, stored')
      /\ counts' \in [started : Nat, tokens : Nat, terminals : Nat]
      /\ counts'.tokens = counts.tokens /\ counts'.terminals = counts.terminals
  BY <1>1, OuterReturns DEF TaskInv, Outer, TerminalNames
<1>5. failed' = FALSE /\ done' = FALSE /\ Faithful' = Faithful
  BY <1>1, <1>3 DEF Faithful
<1>6. CASE Settle
  BY <1>1, <1>2, <1>3, <1>4, <1>5, <1>6, SettleKeeps
<1>7. CASE ~cancel' /\ pc' = "streaming" /\ frames' = <<>> /\ UNCHANGED <<status, events>>
  <2>1. over' = FALSE
    BY <1>2, <1>7 DEF StartedReturns
  <2>2. Control'
    <3>1. /\ pc' = "streaming" /\ status' = "running" /\ over' = FALSE /\ failed' = FALSE
          /\ cancel' \in BOOLEAN /\ done' = FALSE
          /\ pending' = "none" /\ accumulated' \in Nat /\ hardCancels' \in Nat
      BY <1>1, <1>2, <1>3, <1>7, <2>1
    <3>2. QED
      BY <3>1 DEF Control, Early, Late, Places
  <2>3. Outer' /\ Announced'
    BY <1>3, <1>5, <1>7, QuietEvents DEF TaskInv, Outer, Announced, Early, Late
  <2>4. Counted'
    BY <1>1, <1>3, <1>4, <1>7, QuietEvents DEF Counted, Early
  <2>5. Mirrored'
    BY <1>4, <1>5, <1>7 DEF Mirrored
  <2>6. QED
    BY <1>4, <1>7, <2>2, <2>3, <2>4, <2>5 DEF TaskInv
<1>8. QED
  BY <1>6, <1>7 DEF StartedReturns

\* A token is out.
LEMMA TokenReturnsKeeps == ASSUME TaskInv, TokenReturns PROVE TaskInv'
<1>1. /\ pc = "token" /\ ReturningTo("token") /\ FinishHooks /\ frames' = <<>>
      /\ pc' = "streaming" /\ events' = events
      /\ UNCHANGED <<failed, over, pending, accumulated, status, cancel, done,
                     hardCancels, faulty>>
  BY DEF TokenReturns, ReturningTo, runVars
<1>2. /\ Publishing(<<>>, events, stored')
      /\ Faithful => Whole(<<>>, events, stored')
      /\ counts' \in [started : Nat, tokens : Nat, terminals : Nat]
      /\ counts'.tokens = counts.tokens + 1 /\ counts'.terminals = counts.terminals
  BY <1>1, OuterReturns DEF TaskInv, Outer, TerminalNames
<1>3. Control'
  BY <1>1 DEF TaskInv, Control, Early, Late, Places
<1>4. Outer' /\ Announced'
  BY <1>1, QuietEvents DEF TaskInv, Outer, Announced, Early, Late
<1>5. Counted'
  BY <1>1, <1>2, QuietEvents DEF TaskInv, Counted, Early
<1>6. Mirrored'
  BY <1>1, <1>2 DEF Mirrored, Faithful
<1>7. QED
  BY <1>1, <1>2, <1>3, <1>4, <1>5, <1>6 DEF TaskInv

\* The terminal event is out: it is counted and the stream is closed.
LEMMA TerminalReturnsKeeps == ASSUME TaskInv, TerminalReturns PROVE TaskInv'
<1>1. /\ pc = "terminal" /\ ReturningTo("terminal") /\ FinishHooks /\ frames' = <<>>
      /\ pc' = "afterRun" /\ hook' = 1 /\ done' = TRUE /\ events' = events
      /\ UNCHANGED <<failed, over, pending, accumulated, status, cancel,
                     hardCancels, faulty>>
  BY DEF TerminalReturns, ReturningTo
<1>2. /\ Publishing(<<>>, events, stored')
      /\ Faithful => Whole(<<>>, events, stored')
      /\ counts' \in [started : Nat, tokens : Nat, terminals : Nat]
      /\ counts'.tokens = counts.tokens /\ counts'.terminals = counts.terminals + 1
  BY <1>1, OuterReturns DEF TaskInv, Outer, TerminalNames
<1>3. 1 \in 1 .. Len(Hooks)
  BY HooksAreKnown, LenProperties
<1>4. Control'
  <2>1. /\ cancel' \in BOOLEAN /\ failed' \in BOOLEAN /\ over' \in BOOLEAN
        /\ accumulated' \in Nat /\ hardCancels' \in Nat
        /\ pending' \in {"none", "error", "cancelled"}
    BY <1>1 DEF TaskInv, Control
  <2>2. QED
    BY <1>1, <1>3, <2>1 DEF Control, Early, Late, Places
<1>5. Outer' /\ Announced'
  BY <1>1, QuietEvents DEF TaskInv, Outer, Announced, Early, Late
<1>6. Counted'
  BY <1>1, <1>2, QuietEvents DEF TaskInv, Counted, Early
<1>7. Mirrored'
  BY <1>1, <1>2 DEF Mirrored, Faithful
<1>8. QED
  BY <1>1, <1>2, <1>4, <1>5, <1>6, <1>7 DEF TaskInv

\* A hook publishes, inside another publish or not.
LEMMA HookPublishesKeeps == ASSUME TaskInv, HookPublishes PROVE TaskInv'
<1>1. /\ events' = Append(events, "note")
      /\ frames' = Append(frames, Frame(Len(events) + 1))
      /\ UNCHANGED <<pc, hook, failed, over, pending, accumulated, status, cancel, done,
                     saved, stored, counts, hardCancels, faulty>>
      /\ frames # <<>> \/ pc \in {"before", "afterRun"}
  BY DEF HookPublishes, outsideVars, RunningHook
<1>2. /\ Publishing(frames', events', stored')
      /\ Faithful => Whole(frames', events', stored')
  BY <1>1, PublishNested, WholeNested DEF TaskInv, Mirrored
<1>3. events \in Seq(EventNames) /\ "note" \in EventNames
  BY DEF TaskInv, Publishing, EventNames
<1>4. /\ Len(events) \in Nat /\ Len(events') = Len(events) + 1
      /\ \A i \in 1 .. Len(events) : events'[i] = events[i]
      /\ events'[Len(events) + 1] = "note"
      /\ TerminalIds' = TerminalIds /\ Tokens' = Tokens
  BY <1>1, <1>3, EventPublished DEF TerminalNames
<1>5. \A i \in TerminalIds : i \in 1 .. Len(events) /\ events'[i] = events[i]
  BY <1>4 DEF TerminalIds
<1>6. /\ frames' # <<>>
      /\ IF frames = <<>> THEN frames'[1].event = Len(events) + 1
         ELSE frames'[1] = frames[1] /\ frames[1].event \in 1 .. Len(events)
  <2>1. Frame(Len(events) + 1) \in Frames /\ Frame(Len(events) + 1).event = Len(events) + 1
    BY <1>4 DEF Frame, Frames
  <2>2. /\ frames \in Seq(Frames) /\ Len(frames) \in Nat /\ frames' # <<>>
        /\ \A i \in 1 .. Len(frames) : frames'[i] = frames[i]
        /\ frames'[Len(frames) + 1] = Frame(Len(events) + 1)
        /\ \A i \in 1 .. Len(frames) : frames[i].event \in 1 .. Len(events)
    BY <1>1, <2>1, Appended DEF TaskInv, Publishing
  <2>3. frames = <<>> => Len(frames) = 0
    BY EmptySeq
  <2>4. frames # <<>> => 1 \in 1 .. Len(frames)
    BY <2>2, EmptySeq
  <2>5. QED
    BY <2>1, <2>2, <2>3, <2>4
<1>7. Control'
  BY <1>1 DEF TaskInv, Control
<1>8. Outer'
  BY <1>1, <1>4, <1>6 DEF TaskInv, Outer
<1>9. Announced'
  <2>1. TerminalIsLast'
    <3>1. \A i \in TerminalIds : \A j \in i + 1 .. Len(events) : events[j] = "note"
      BY DEF TaskInv, Announced, TerminalIsLast
    <3>2. \A i \in TerminalIds : \A j \in i + 1 .. Len(events') :
              j \in i + 1 .. Len(events) \/ j = Len(events) + 1
      BY <1>4, <1>5
    <3>3. \A i \in TerminalIds : i + 1 .. Len(events) \subseteq 1 .. Len(events)
      BY <1>4, <1>5
    <3>4. \A i \in TerminalIds : \A j \in i + 1 .. Len(events') : events'[j] = "note"
      BY <1>4, <3>1, <3>2, <3>3
    <3>5. QED
      BY <1>4, <3>4 DEF TerminalIsLast
  <2>2. QED
    BY <1>1, <1>4, <1>5, <2>1 DEF TaskInv, Announced
<1>10. Counted'
  BY <1>1, <1>4 DEF TaskInv, Counted
<1>11. Mirrored'
  BY <1>1, <1>2 DEF TaskInv, Mirrored, Faithful
<1>12. QED
  BY <1>2, <1>7, <1>8, <1>9, <1>10, <1>11 DEF TaskInv

\* A before_run hook raises: the run fails.
LEMMA BeforeRaisesKeeps == ASSUME TaskInv, BeforeRaises PROVE TaskInv'
<1>1. /\ pc = "before" /\ frames = <<>> /\ Settle /\ failed' = TRUE
      /\ UNCHANGED <<over, cancel, pending, accumulated, done, stored, counts,
                     hardCancels, faulty>>
  BY DEF BeforeRaises, InHook
<1>2. /\ over = FALSE /\ cancel \in BOOLEAN /\ pending = "none"
      /\ accumulated \in Nat /\ hardCancels \in Nat
  BY <1>1 DEF TaskInv, Control, Early
<1>3. done = FALSE /\ TerminalIds = {}
  BY <1>1 DEF TaskInv, Control, Announced, Early
<1>4. /\ counts \in [started : Nat, tokens : Nat, terminals : Nat]
      /\ hardCancels = 0 => counts.tokens = Tokens /\ counts.terminals = 0
  BY <1>1 DEF TaskInv, Counted
<1>5. Publishing(<<>>, events, stored') /\ (Faithful' => Whole(<<>>, events, stored'))
  BY <1>1 DEF TaskInv, Mirrored, Faithful
<1>6. /\ failed' \in BOOLEAN /\ over' = FALSE /\ cancel' \in BOOLEAN /\ done' = FALSE
  BY <1>1, <1>2, <1>3
<1>7. QED
  BY <1>1, <1>2, <1>3, <1>4, <1>5, <1>6, SettleKeeps

\* The upstream is closed, after an exception or not.
LEMMA ClosedKeeps ==
    ASSUME TaskInv, pc = "closing", Settle,
           failed' = (pending = "error"), cancel' = (cancel \/ pending = "cancelled"),
           UNCHANGED <<over, pending, accumulated, done, stored, counts, faulty>>,
           hardCancels' = hardCancels \/ hardCancels' = hardCancels + 1
    PROVE  TaskInv'
<1>1. frames = <<>>
  BY DEF TaskInv, Outer
<1>2. /\ over \in BOOLEAN /\ cancel \in BOOLEAN
      /\ over => pending = "none"
      /\ pending \in {"none", "error", "cancelled"} /\ status = "running"
      /\ accumulated \in Nat /\ hardCancels \in Nat
  BY DEF TaskInv, Control
<1>3. done = FALSE /\ TerminalIds = {}
  BY DEF TaskInv, Control, Announced
<1>4. /\ counts \in [started : Nat, tokens : Nat, terminals : Nat]
      /\ hardCancels = 0 => counts.tokens = Tokens /\ counts.terminals = 0
  BY DEF TaskInv, Counted
<1>5. Publishing(<<>>, events, stored') /\ (Faithful' => Whole(<<>>, events, stored'))
  <2>1. Faithful' => Faithful
    BY <1>2 DEF Faithful
  <2>2. QED
    BY <1>1, <2>1 DEF TaskInv, Mirrored
<1>6. /\ failed' \in BOOLEAN /\ over' \in BOOLEAN /\ cancel' \in BOOLEAN
      /\ done' = FALSE
  <2>1. failed' \in BOOLEAN
    OBVIOUS
  <2>2. cancel' \in BOOLEAN
    OBVIOUS
  <2>3. over' \in BOOLEAN /\ done' = FALSE
    BY <1>2, <1>3
  <2>4. QED
    BY <2>1, <2>2, <2>3
<1>7. failed' = FALSE \/ over' = FALSE
  <2>1. CASE pending = "none"
    BY <2>1
  <2>2. CASE pending # "none"
    <3>1. over = FALSE
      BY <1>2, <2>2
    <3>2. QED
      BY <3>1
  <2>3. QED
    BY <2>1, <2>2
<1>8. /\ hardCancels' \in Nat
      /\ hardCancels' = 0 => counts'.tokens = Tokens /\ counts'.terminals = 0
  BY <1>2, <1>4
<1>9. /\ pending' \in {"none", "error", "cancelled"} /\ accumulated' \in Nat
      /\ counts' \in [started : Nat, tokens : Nat, terminals : Nat]
  BY <1>2, <1>4
<1>10. QED
  BY <1>2, <1>3, <1>5, <1>6, <1>7, <1>8, <1>9, SettleKeeps

\* aclose() returns: the run is closed for the reason it was being closed for.
LEMMA CloseReturnsKeeps == ASSUME TaskInv, CloseReturns PROVE TaskInv'
BY ClosedKeeps DEF CloseReturns, outsideVars

\* Task.cancel(), at whatever await the task is in.
LEMMA HardCancelKeeps == ASSUME TaskInv, HardCancel PROVE TaskInv'
<1>1. /\ hardCancels' = hardCancels + 1
      /\ UNCHANGED <<hook, accumulated, finished, done, spent, counts, faulty>>
  BY DEF HardCancel
<1>2. /\ accumulated \in Nat /\ hardCancels \in Nat /\ hardCancels' \in Nat
      /\ hardCancels' > 0 /\ ~Faithful'
  BY <1>1 DEF TaskInv, Control, Faithful
<1>3. Publishing(<<>>, events, stored')
  <2>1. \/ stored' = stored
        \/ frames # <<>> /\ stored' = Append(stored, Top.event)
    BY DEF HardCancel
  <2>2. Publishing(frames, events, stored)
    BY DEF TaskInv
  <2>3. CASE stored' = stored
    BY <2>2, <2>3, PublishesDropped
  <2>4. CASE frames # <<>> /\ stored' = Append(stored, Top.event)
    <3>1. Publishing(SubSeq(frames, 1, Len(frames) - 1), events, stored')
      BY <2>2, <2>4, PublishEnded DEF Top
    <3>2. QED
      BY <3>1, PublishesDropped
  <2>5. QED
    BY <2>1, <2>3, <2>4
<1>4. counts' \in [started : Nat, tokens : Nat, terminals : Nat]
  BY <1>1 DEF TaskInv, Counted
<1>5. CASE pc \in CaughtAt /\ cancel' = TRUE /\ UNCHANGED <<failed, over, pending>> /\ Settle
  <2>1. failed = FALSE /\ over = FALSE /\ pending = "none"
    BY <1>5 DEF TaskInv, Control, Early, CaughtAt
  <2>2. done = FALSE /\ TerminalIds = {}
    BY <1>5 DEF TaskInv, Control, Announced, Early, CaughtAt
  <2>3. /\ failed' = FALSE /\ over' = FALSE /\ pending' = "none" /\ done' = FALSE
        /\ cancel' \in BOOLEAN /\ accumulated' \in Nat
    BY <1>1, <1>2, <1>5, <2>1, <2>2
  <2>4. /\ cancel' = TRUE /\ faulty' = faulty /\ Settle
        /\ Faithful' => Whole(<<>>, events, stored')
        /\ hardCancels' = 0 => counts'.tokens = Tokens /\ counts'.terminals = 0
    BY <1>1, <1>2, <1>5
  <2>5. QED
    BY <1>2, <1>3, <1>4, <2>2, <2>3, <2>4, SettleKeeps
<1>6. CASE /\ pc \in {"streaming", "token"} /\ pending' = "cancelled" /\ pc' = "closing"
           /\ frames' = <<>> /\ UNCHANGED <<failed, over, cancel, status, events>>
  <2>1. Control'
    <3>1. failed = FALSE /\ over = FALSE /\ cancel \in BOOLEAN /\ status = "running"
      BY <1>6 DEF TaskInv, Control, Early
    <3>2. done \in BOOLEAN
      BY DEF TaskInv, Control
    <3>3. /\ pc' = "closing" /\ failed' = FALSE /\ over' = FALSE /\ cancel' \in BOOLEAN
          /\ status' = "running" /\ done' \in BOOLEAN /\ accumulated' \in Nat
          /\ pending' = "cancelled"
      BY <1>1, <1>2, <1>6, <3>1, <3>2
    <3>4. QED
      BY <1>2, <3>3 DEF Control, Early, Late, Places
  <2>2. Outer' /\ Announced'
    BY <1>1, <1>6, QuietEvents DEF TaskInv, Outer, Announced, Early, Late
  <2>3. Counted'
    BY <1>1, <1>2, <1>4, <1>6, QuietEvents DEF TaskInv, Counted, Early
  <2>4. Mirrored'
    BY <1>2 DEF Mirrored
  <2>5. QED
    BY <1>3, <1>6, <2>1, <2>2, <2>3, <2>4 DEF TaskInv
<1>7. CASE /\ pc = "closing" /\ failed' = (pending = "error")
           /\ cancel' = (cancel \/ pending = "cancelled")
           /\ UNCHANGED <<over, pending>> /\ Settle
  <2>1. stored' = stored
    BY <1>7 DEF HardCancel, TaskInv, Outer
  <2>2. QED
    BY <1>1, <1>7, <2>1, ClosedKeeps
<1>8. CASE /\ pc \in {"created", "terminal", "afterRun"} /\ pc' = "aborted" /\ frames' = <<>>
           /\ UNCHANGED <<failed, over, pending, cancel, status, events>>
  <2>1. Control'
    <3>1. /\ failed \in BOOLEAN /\ over \in BOOLEAN /\ cancel \in BOOLEAN /\ done \in BOOLEAN
          /\ pending \in {"none", "error", "cancelled"}
      BY DEF TaskInv, Control
    <3>2. QED
      BY <1>1, <1>2, <1>8, <3>1 DEF Control, Early, Late, Places
  <2>2. Outer' /\ Announced'
    BY <1>1, <1>8, QuietEvents DEF TaskInv, Outer, Announced, Early, Late
  <2>3. Counted'
    BY <1>1, <1>2, <1>4, <1>8, QuietEvents DEF TaskInv, Counted, Early
  <2>4. Mirrored'
    BY <1>2 DEF Mirrored
  <2>5. QED
    BY <1>3, <1>8, <2>1, <2>2, <2>3, <2>4 DEF TaskInv
<1>9. QED
  BY <1>5, <1>6, <1>7, <1>8 DEF HardCancel

----------------------------------------------------------------------------
(* The invariant.                                                           *)

\* Every step keeps the invariant, and so does a step that changes nothing.
LEMMA StepKeepsTaskInv == TaskInv /\ [Next]_vars => TaskInv'
<1> SUFFICES ASSUME TaskInv, [Next]_vars PROVE TaskInv'
  OBVIOUS
<1>1. CASE Start
  BY <1>1, QuietSteps DEF Start, runVars, outsideVars
<1>2. CASE BeforeReturns
  BY <1>2, QuietSteps DEF BeforeReturns, runVars
<1>3. CASE AfterRunReturns
  BY <1>3, QuietSteps DEF AfterRunReturns, runVars
<1>4. CASE Token
  <2>1. CASE pc' = "token"
    BY <1>4, <2>1, TokenKeeps
  <2>2. CASE pc' # "token"
    BY <1>4, <2>2, QuietSteps DEF Token, LeaveLoop
  <2>3. QED
    BY <2>1, <2>2
<1>5. CASE UpstreamEnds
  BY <1>5, QuietSteps DEF UpstreamEnds, LeaveLoop, outsideVars
<1>6. CASE UpstreamRaises
  BY <1>6, QuietSteps DEF UpstreamRaises, LeaveLoop, outsideVars
<1>7. CASE RequestCancel
  BY <1>7, QuietSteps DEF RequestCancel, taskVars, outsideVars
<1>8. CASE OthersSpend
  BY <1>8, QuietSteps DEF OthersSpend, taskVars, runVars
<1>9. CASE UNCHANGED vars
  BY <1>9, QuietSteps DEF vars, taskVars, runVars, outsideVars
<1>10. CASE NextHook
  BY <1>10, NextHookKeeps
<1>11. CASE NestedReturns
  BY <1>11, NestedReturnsKeeps
<1>12. CASE BeforeDone
  BY <1>12, BeforeDoneKeeps
<1>13. CASE StartedReturns
  BY <1>13, StartedReturnsKeeps
<1>14. CASE TokenReturns
  BY <1>14, TokenReturnsKeeps
<1>15. CASE TerminalReturns
  BY <1>15, TerminalReturnsKeeps
<1>16. CASE CloseReturns
  BY <1>16, CloseReturnsKeeps
<1>17. CASE HookPublishes
  BY <1>17, HookPublishesKeeps
<1>18. CASE BeforeRaises
  BY <1>18, BeforeRaisesKeeps
<1>19. CASE HardCancel
  BY <1>19, HardCancelKeeps
<1>20. QED
  BY <1>1, <1>2, <1>3, <1>4, <1>5, <1>6, <1>7, <1>8, <1>9, <1>10, <1>11, <1>12,
     <1>13, <1>14, <1>15, <1>16, <1>17, <1>18, <1>19 DEF Next, TaskStep, HookStep

\* The invariant holds in every state.
THEOREM TaskInvHolds == Spec => []TaskInv
  BY InitTaskInv, StepKeepsTaskInv, PTL DEF Spec

----------------------------------------------------------------------------
(* What the invariant says of the outcome, the counters and the store.       *)

\* Only notes follow the terminal event.
THEOREM NothingAfterTheEnd == Spec => []TerminalIsLast
<1>1. TaskInv => TerminalIsLast
  BY DEF TaskInv, Announced
<1>2. QED
  BY <1>1, TaskInvHolds, PTL

\* The outcome is the one terminal event.
LEMMA TheOutcome ==
    ASSUME events \in Seq(EventNames)
    PROVE  /\ TerminalIds = {} => Outcome = "none"
           /\ \A i : TerminalIds = {i} => Outcome = events[i] /\ Outcome \in TerminalNames
<1>1. Len(events) \in Nat
  BY LenProperties
<1>2. ASSUME NEW i, TerminalIds = {i}
      PROVE  Outcome = events[i] /\ Outcome \in TerminalNames
  <2>1. i \in 1 .. Len(events) /\ events[i] \in TerminalNames
    BY <1>2 DEF TerminalIds
  <2>2. i <= i
    BY <1>1, <2>1
  <2>3. (CHOOSE k \in TerminalIds : \A j \in TerminalIds : k <= j) = i
    BY <1>2, <2>2
  <2>4. QED
    BY <1>2, <2>1, <2>3 DEF Outcome
<1>3. QED
  BY <1>2 DEF Outcome

\* There is at most one terminal event.
LEMMA OneTerminal ==
    ASSUME TaskInv PROVE TerminalIds = {} \/ \E i : TerminalIds = {i}
BY DEF TaskInv, Announced

\* A budget violation is announced as one, and only then.
THEOREM BudgetOutcomes == Spec => []BudgetIsNamed
<1>1. TaskInv => BudgetIsNamed
  <2> SUFFICES ASSUME TaskInv, Outcome # "none"
               PROVE  over <=> Outcome = "run.budget_exceeded"
    BY DEF BudgetIsNamed
  <2>1. events \in Seq(EventNames)
    BY DEF TaskInv, Publishing
  <2>2. PICK i : TerminalIds = {i}
    BY <2>1, OneTerminal, TheOutcome
  <2>3. Outcome = events[i]
    BY <2>1, <2>2, TheOutcome
  <2>4. QED
    BY <2>2, <2>3 DEF TaskInv, Announced
<1>2. QED
  BY <1>1, TaskInvHolds, PTL

\* Where a Task.cancel() may find a run that it ends: nothing is published before
\* the first step, and once the outcome is chosen the status is final.
KilledWhere ==
    /\ pc = "created" => events = <<>>
    /\ pc \in Late => status \in FinalStatuses
    /\ pc = "aborted" => \/ status = "queued" /\ events = <<>>
                         \/ status \in FinalStatuses /\ TerminalIds # {}

\* No step takes the outcome back, and choosing one makes the status final.
LEMMA StepKeepsKilledWhere ==
    ASSUME TaskInv, KilledWhere, [Next]_vars PROVE KilledWhere'
<1> USE DEF KilledWhere
<1>1. events \in Seq(EventNames)
  BY DEF TaskInv, Publishing
<1>2. ASSUME Settle, pc \in {"before", "started", "closing"} PROVE KilledWhere'
  BY <1>2 DEF Settle, Conclude, FinalStatuses, Late
<1>3. CASE \/ Start \/ BeforeReturns \/ BeforeDone \/ TokenReturns \/ NextHook \/ NestedReturns
           \/ Token \/ UpstreamEnds \/ UpstreamRaises \/ RequestCancel \/ OthersSpend
           \/ UNCHANGED vars
  <2>1. \/ UNCHANGED <<pc, status, events>>
        \/ pc' \in {"before", "started", "token", "streaming", "closing"}
    BY <1>3 DEF Start, BeforeReturns, BeforeDone, TokenReturns, NextHook, NestedReturns, Token,
                LeaveLoop, UpstreamEnds, UpstreamRaises, RequestCancel, OthersSpend, InHook,
                vars, taskVars, runVars
  <2>2. QED
    BY <2>1, QuietEvents DEF Late
<1>4. CASE AfterRunReturns \/ TerminalReturns
  BY <1>4 DEF AfterRunReturns, TerminalReturns, ReturningTo, InHook, runVars, Late
<1>5. CASE HookPublishes
  <2>1. pc \notin {"created", "aborted"}
    BY <1>5 DEF HookPublishes, RunningHook, TaskInv, Outer
  <2>2. QED
    BY <1>5, <2>1 DEF HookPublishes
<1>6. CASE StartedReturns \/ CloseReturns \/ BeforeRaises
  <2>1. \/ Settle /\ pc \in {"before", "started", "closing"}
        \/ pc' = "streaming"
    BY <1>6 DEF StartedReturns, CloseReturns, BeforeRaises, ReturningTo, InHook
  <2>2. QED
    BY <1>2, <2>1 DEF Late
<1>7. CASE HardCancel
  <2>1. \/ Settle /\ pc \in {"before", "started", "closing"}
        \/ pc' = "closing"
        \/ pc' = "aborted" /\ pc \in {"created", "terminal", "afterRun"}
           /\ UNCHANGED <<status, events>>
    BY <1>7 DEF HardCancel, CaughtAt
  <2>2. CASE pc' = "aborted" /\ pc \in {"created", "terminal", "afterRun"}
             /\ UNCHANGED <<status, events>>
    <3>1. pc = "created" => status = "queued"
      BY DEF TaskInv, Control
    <3>2. pc # "created" => TerminalIds' # {} /\ status' \in FinalStatuses
      BY <2>2, QuietEvents DEF TaskInv, Announced, Late
    <3>3. QED
      BY <2>2, <3>1, <3>2 DEF Late
  <2>3. QED
    BY <1>2, <2>1, <2>2 DEF Late
<1>8. QED
  BY <1>3, <1>4, <1>5, <1>6, <1>7 DEF Next, TaskStep, HookStep

\* A run that is running always gets its outcome and its end of stream, unless a
\* contract raises; a Task.cancel() takes something away only before the first
\* step or once the outcome is published.
THEOREM EndsAreAnnounced == Spec => []EndUnlessKilled
<1>1. Init => KilledWhere
  BY DEF Init, KilledWhere, Late
<1>2. Spec => []KilledWhere
  BY <1>1, TaskInvHolds, StepKeepsKilledWhere, PTL DEF Spec
<1>3. TaskInv /\ KilledWhere => EndUnlessKilled
  <2> SUFFICES ASSUME TaskInv, KilledWhere, Over PROVE EndUnlessKilled
    BY DEF EndUnlessKilled
  <2>1. TerminalIds # {} => Cardinality(TerminalIds) = 1
    BY OneTerminal, FS_Singleton
  <2>2. CASE pc = "exited"
    BY <2>1, <2>2 DEF TaskInv, Control, Announced, Late, EndUnlessKilled
  <2>3. CASE pc = "aborted"
    BY <2>1, <2>3 DEF TaskInv, Control, KilledWhere, EndUnlessKilled
  <2>4. CASE pc = "crashed"
    BY <2>4 DEF TaskInv, Control, EndUnlessKilled
  <2>5. QED
    BY <2>2, <2>3, <2>4 DEF Over
<1>4. QED
  BY <1>2, <1>3, TaskInvHolds, PTL

\* The counter of starts is the number of starts announced.
StartsCounted == counts.started = Starts

\* One step of publishing, as the counter of starts sees it.
LEMMA StartPublished ==
    ASSUME events \in Seq(EventNames), NEW name \in EventNames,
           events' = Append(events, name)
    PROVE  /\ Starts \in Nat
           /\ Starts' = IF name = "run.started" THEN Starts + 1 ELSE Starts
<1>1. /\ Starts = Cardinality(Indices(events, {"run.started"}))
      /\ Starts' = Cardinality(Indices(events', {"run.started"}))
  BY DEF Starts, Indices
<1>2. QED
  BY <1>1, IndicesAppended

\* Only the step that announces a start counts one.
LEMMA StepKeepsStarts ==
    ASSUME TaskInv, StartsCounted, [Next]_vars PROVE StartsCounted'
<1> USE DEF StartsCounted
<1>1. /\ events \in Seq(EventNames)
      /\ counts \in [started : Nat, tokens : Nat, terminals : Nat]
  BY DEF TaskInv, Publishing, Counted
<1>2. ASSUME events' = events PROVE Starts' = Starts
  BY <1>2 DEF Starts
<1>3. ASSUME NEW name \in EventNames \ {"run.started"}, events' = Append(events, name)
      PROVE  Starts' = Starts
  BY <1>1, <1>3, StartPublished
<1>4. ASSUME Settle PROVE Starts' = Starts
  <2>1. \/ events' = events
        \/ \E name \in TerminalNames : events' = Append(events, name)
    BY <1>4 DEF Settle, Conclude, PublishFromTask, TerminalNames
  <2>2. TerminalNames \subseteq EventNames \ {"run.started"}
    BY DEF TerminalNames, EventNames
  <2>3. QED
    BY <1>2, <1>3, <2>1, <2>2
<1>5. ASSUME NEW id, CountEvent(id) PROVE counts'.started = counts.started
  BY <1>1, <1>5 DEF CountEvent
<1>6. CASE \/ Start \/ BeforeReturns \/ AfterRunReturns \/ NextHook
           \/ UpstreamEnds \/ UpstreamRaises \/ RequestCancel \/ OthersSpend \/ UNCHANGED vars
  BY <1>2, <1>6
  DEF Start, BeforeReturns, AfterRunReturns, NextHook, UpstreamEnds, UpstreamRaises, LeaveLoop,
      RequestCancel, OthersSpend, vars, taskVars, runVars, outsideVars
<1>7. CASE NestedReturns \/ TokenReturns \/ TerminalReturns
  <2>1. CountEvent(Top.event) /\ events' = events
    BY <1>7 DEF NestedReturns, TokenReturns, TerminalReturns, FinishHooks, runVars
  <2>2. QED
    BY <1>2, <1>5, <2>1
<1>8. CASE StartedReturns
  <2>1. CountEvent(Top.event) /\ (Settle \/ events' = events)
    BY <1>8 DEF StartedReturns, FinishHooks
  <2>2. QED
    BY <1>2, <1>4, <1>5, <2>1
<1>9. CASE BeforeRaises \/ CloseReturns \/ HardCancel
  <2>1. counts' = counts /\ (Settle \/ events' = events)
    BY <1>9 DEF BeforeRaises, CloseReturns, HardCancel, outsideVars
  <2>2. QED
    BY <1>2, <1>4, <2>1
<1>10. CASE Token \/ HookPublishes
  <2>1. /\ counts' = counts
        /\ \/ events' = events
           \/ events' = Append(events, "token") \/ events' = Append(events, "note")
    BY <1>10 DEF Token, HookPublishes, LeaveLoop, PublishFromTask, outsideVars
  <2>2. {"token", "note"} \subseteq EventNames \ {"run.started"}
    BY DEF EventNames, TerminalNames
  <2>3. QED
    BY <1>2, <1>3, <2>1, <2>2
<1>11. CASE BeforeDone
  <2>1. /\ events' = Append(events, "run.started")
        /\ counts' = [counts EXCEPT !.started = @ + 1]
    BY <1>11 DEF BeforeDone, PublishFromTask
  <2>2. Starts' = Starts + 1
    BY <1>1, <2>1, StartPublished DEF EventNames
  <2>3. counts'.started = counts.started + 1
    BY <1>1, <2>1
  <2>4. QED
    BY <2>2, <2>3
<1>12. QED
  BY <1>6, <1>7, <1>8, <1>9, <1>10, <1>11 DEF Next, TaskStep, HookStep

\* Each token, each outcome and each announced start is counted once when the
\* task ends normally.
THEOREM MetricsAreExact == Spec => []MetricsMatchHistory
<1>1. Init => StartsCounted
  <2> SUFFICES ASSUME Init PROVE StartsCounted
    OBVIOUS
  <2>1. {i \in 1 .. Len(events) : events[i] = "run.started"} = {}
    BY DEF Init
  <2>2. QED
    BY <2>1, FS_EmptySet DEF Init, StartsCounted, Starts
<1>2. Spec => []StartsCounted
  BY <1>1, TaskInvHolds, StepKeepsStarts, PTL DEF Spec
<1>3. TaskInv /\ StartsCounted => MetricsMatchHistory
  BY DEF TaskInv, Counted, StartsCounted, MetricsMatchHistory
<1>4. QED
  BY <1>2, <1>3, TaskInvHolds, PTL

\* The store has gaps at worst: no repetition, and no event before an older one
\* but a hook's own.
THEOREM StoreKeepsOrder == Spec => []StoreInOrder
<1>1. TaskInv => StoreInOrder
  BY DEF TaskInv, Publishing, StoreInOrder
<1>2. QED
  BY <1>1, TaskInvHolds, PTL

\* A store that works has the whole history and the final status in the end.
THEOREM StoreHasAll == Spec => []StoreIsComplete
<1>1. TaskInv => StoreIsComplete
  <2> SUFFICES ASSUME TaskInv, pc = "exited", Faithful
               PROVE  /\ saved = status
                      /\ {stored[i] : i \in 1 .. Len(stored)} = 1 .. Len(events)
                      /\ Len(stored) = Len(events)
    BY DEF StoreIsComplete, Faithful, HasMirror
  <2>1. /\ frames = <<>> /\ saved = status
        /\ Whole(<<>>, events, stored) /\ Publishing(<<>>, events, stored)
    BY DEF TaskInv, Outer, Mirrored
  <2>2. Len(stored) \in Nat /\ Len(events) \in Nat
    BY <2>1, LenProperties DEF Publishing
  <2>3. Len(stored) = Len(events)
    BY <2>1, <2>2 DEF Whole
  <2>4. \A k \in 1 .. Len(events) : \E i \in 1 .. Len(stored) : stored[i] = k
    BY <2>1 DEF Whole
  <2>5. \A i \in 1 .. Len(stored) : stored[i] \in 1 .. Len(events)
    BY <2>1 DEF Publishing
  <2>6. QED
    BY <2>1, <2>3, <2>4, <2>5
<1>2. QED
  BY <1>1, TaskInvHolds, PTL

----------------------------------------------------------------------------
(* The step that chooses the outcome.                                       *)

\* The outcome that Settle publishes agrees with the status it sets and with
\* what was decided.
LEMMA OutcomeSettled ==
    ASSUME events \in Seq(EventNames), TerminalIds = {}, TerminalIds' # {}, Settle
    PROVE  /\ Tokens' = Tokens
           /\ Outcome' \in DOMAIN Promise!StatusOf /\ status' = Promise!StatusOf[Outcome']
           /\ \/ failed' /\ Outcome' = "run.failed"
              \/ over' /\ Outcome' = "run.budget_exceeded"
              \/ cancel' /\ Outcome' = "run.cancelled"
              \/ /\ ~over' /\ ~cancel' /\ ~failed'
                 /\ Outcome' \in {"run.done", "run.contract_failed"}
<1>1. ASSUME NEW name \in TerminalNames, NEW st, Conclude(name, st)
      PROVE  Tokens' = Tokens /\ Outcome' = name /\ status' = st
  <2>1. name \in EventNames /\ name # "token"
    BY DEF EventNames, TerminalNames
  <2>2. events' = Append(events, name)
    BY <1>1 DEF Conclude, PublishFromTask
  <2>3. /\ TerminalIds' = {Len(events) + 1} /\ Tokens' = Tokens
        /\ events'[Len(events) + 1] = name /\ Len(events) \in Nat
    BY <2>1, <2>2, EventPublished
  <2>4. (CHOOSE k \in TerminalIds' : \A j \in TerminalIds' : k <= j) = Len(events) + 1
    <3>1. Len(events) + 1 <= Len(events) + 1
      BY <2>3
    <3>2. QED
      BY <2>3, <3>1
  <2>5. QED
    BY <1>1, <2>3, <2>4 DEF Outcome, Conclude
<1>2. events' # events
  BY QuietEvents
<1>3. CASE failed' /\ Conclude("run.failed", "failed")
  BY <1>1, <1>3 DEF TerminalNames, Promise!StatusOf
<1>4. CASE ~failed' /\ over' /\ Conclude("run.budget_exceeded", "failed")
  BY <1>1, <1>4 DEF TerminalNames, Promise!StatusOf
<1>5. CASE ~failed' /\ ~over' /\ cancel' /\ Conclude("run.cancelled", "cancelled")
  BY <1>1, <1>5 DEF TerminalNames, Promise!StatusOf
<1>6. CASE ~failed' /\ ~over' /\ ~cancel' /\ Conclude("run.done", "completed")
  BY <1>1, <1>6 DEF TerminalNames, Promise!StatusOf
<1>7. CASE ~failed' /\ ~over' /\ ~cancel' /\ Conclude("run.contract_failed", "failed")
  BY <1>1, <1>7 DEF TerminalNames, Promise!StatusOf
<1>8. QED
  BY <1>2, <1>3, <1>4, <1>5, <1>6, <1>7 DEF Settle

\* Where it is chosen.
LEMMA SettleSteps ==
    ASSUME TaskInv, [Next]_vars, TerminalIds = {}, TerminalIds' # {}
    PROVE  /\ Settle /\ UNCHANGED <<accumulated, done>>
           /\ pc \in {"before", "started", "closing"}
           /\ pc = "before" => over' = FALSE /\ (failed' = TRUE \/ cancel' = TRUE)
           /\ pc = "closing" => over' = over
<1>1. events' # events
  BY QuietEvents
<1>2. events \in Seq(EventNames)
  BY DEF TaskInv, Publishing
<1>3. ASSUME NEW name \in EventNames \ TerminalNames, events' = Append(events, name)
      PROVE  FALSE
  BY <1>2, <1>3, EventPublished
<1>4. ~BeforeDone /\ ~HookPublishes /\ ~(Token /\ pc' = "token")
  BY <1>3 DEF BeforeDone, HookPublishes, Token, LeaveLoop, PublishFromTask,
              EventNames, TerminalNames
<1>5. CASE StartedReturns
  BY <1>1, <1>5 DEF StartedReturns, ReturningTo
<1>6. CASE CloseReturns
  BY <1>6 DEF CloseReturns
<1>7. CASE BeforeRaises
  BY <1>7 DEF BeforeRaises, InHook, TaskInv, Control, Early
<1>8. CASE HardCancel
  <2>1. \/ pc \in CaughtAt /\ cancel' = TRUE /\ over' = over /\ Settle
        \/ pc = "closing" /\ over' = over /\ Settle
    BY <1>1, <1>8 DEF HardCancel
  <2>2. UNCHANGED <<accumulated, done>>
    BY <1>8 DEF HardCancel
  <2>3. pc = "before" => over = FALSE
    BY DEF TaskInv, Control, Early
  <2>4. QED
    BY <2>1, <2>2, <2>3 DEF CaughtAt
<1>9. CASE \/ Start \/ NextHook \/ NestedReturns \/ BeforeReturns \/ TokenReturns
           \/ TerminalReturns \/ AfterRunReturns \/ UpstreamEnds \/ UpstreamRaises
           \/ RequestCancel \/ OthersSpend \/ UNCHANGED vars
  BY <1>1, <1>9 DEF Start, NextHook, NestedReturns, BeforeReturns, TokenReturns,
                    TerminalReturns, AfterRunReturns, UpstreamEnds, UpstreamRaises,
                    LeaveLoop, RequestCancel, OthersSpend, vars, taskVars, runVars
<1>10. CASE Token /\ pc' # "token"
  BY <1>1, <1>10 DEF Token, LeaveLoop
<1>11. QED
  BY <1>4, <1>5, <1>6, <1>7, <1>8, <1>9, <1>10 DEF Next, TaskStep, HookStep

\* The step that makes a natural end.
LEMMA NaturalStep ==
    ASSUME TaskInv, [Next]_vars, Outcome = "none",
           Outcome' \in {"run.done", "run.contract_failed"}
    PROVE  ~cancel' /\ Tokens' = accumulated'
<1>1. events \in Seq(EventNames)
  BY DEF TaskInv, Publishing
<1>2. TerminalIds = {}
  BY <1>1, OneTerminal, TheOutcome DEF TerminalNames
<1>3. TerminalIds' # {}
  BY DEF Outcome
<1>4. /\ Settle /\ accumulated' = accumulated
      /\ pc \in {"before", "started", "closing"}
      /\ pc = "closing" => over' = over
  BY <1>2, <1>3, SettleSteps
<1>5. Tokens' = Tokens /\ ~over' /\ ~cancel'
  BY <1>1, <1>2, <1>3, <1>4, OutcomeSettled
<1>6. Tokens = accumulated
  BY <1>4, <1>5 DEF TaskInv, Counted, Early
<1>7. QED
  BY <1>4, <1>5, <1>6

\* A run ends naturally only if nobody had cancelled it, and then it has
\* published every token it accumulated.
THEOREM NaturalEnds == Spec => NaturalEndIsWhole
<1>1. TaskInv /\ [Next]_vars =>
          (Outcome = "none" /\ Outcome' \in {"run.done", "run.contract_failed"}
               => ~cancel' /\ Tokens' = accumulated')
  BY NaturalStep
<1>2. QED
  BY <1>1, TaskInvHolds, PTL DEF Spec, NaturalEndIsWhole

----------------------------------------------------------------------------
(* run_task keeps what RunOutcome promises.                                 *)

\* A contract that raises leaves the status.
LEMMA NothingSettled ==
    ASSUME events \in Seq(EventNames), Settle, TerminalIds' = {}
    PROVE  status' = status
<1>1. ASSUME NEW name \in TerminalNames, NEW st, Conclude(name, st) PROVE FALSE
  <2>1. events' = Append(events, name) /\ name \in EventNames
    BY <1>1 DEF Conclude, PublishFromTask, EventNames
  <2>2. TerminalIds' = TerminalIds \cup {Len(events) + 1}
    BY <2>1, EventPublished
  <2>3. QED
    BY <2>2
<1>2. QED
  BY <1>1 DEF Settle, TerminalNames

\* A step that chooses no outcome begins the run, closes its stream or changes
\* neither status nor stream.
LEMMA OtherSteps ==
    ASSUME TaskInv, [Next]_vars, TerminalIds = {} => TerminalIds' = {}
    PROVE  /\ Outcome' = Outcome
           /\ \/ status = "queued" /\ status' = "running" /\ done' = done
              \/ status' = status /\ done' = TRUE /\ Outcome # "none"
              \/ status' = status /\ done' = done
<1>1. events \in Seq(EventNames)
  BY DEF TaskInv, Publishing
<1>2. CASE TerminalIds = {}
  <2>1. Outcome = "none" /\ Outcome' = "none"
    BY <1>2 DEF Outcome
  <2>2. pc # "terminal"
    BY <1>2 DEF TaskInv, Announced, Late
  <2>3. Settle => status' = status
    BY <1>1, <1>2, NothingSettled
  <2>4. CASE BeforeDone
    BY <2>1, <2>4 DEF BeforeDone, InHook, TaskInv, Control
  <2>5. CASE \/ StartedReturns \/ CloseReturns \/ BeforeRaises \/ HardCancel
    BY <2>1, <2>3, <2>5 DEF StartedReturns, CloseReturns, BeforeRaises, HardCancel
  <2>6. CASE TerminalReturns
    BY <2>2, <2>6 DEF TerminalReturns, ReturningTo
  <2>7. CASE \/ Start \/ NextHook \/ NestedReturns \/ BeforeReturns \/ TokenReturns
             \/ AfterRunReturns \/ UpstreamEnds \/ UpstreamRaises \/ Token
             \/ RequestCancel \/ OthersSpend \/ HookPublishes \/ UNCHANGED vars
    BY <2>1, <2>7 DEF Start, NextHook, NestedReturns, BeforeReturns, TokenReturns,
                      AfterRunReturns, UpstreamEnds, UpstreamRaises, Token,
                      RequestCancel, OthersSpend, HookPublishes, vars, runVars
  <2>8. QED
    BY <2>4, <2>5, <2>6, <2>7 DEF Next, TaskStep, HookStep
<1>3. CASE TerminalIds # {}
  <2>1. pc \in {"terminal", "afterRun", "exited", "aborted"}
    BY <1>3 DEF TaskInv, Announced, Control, Early, Late, Places
  <2>2. PICK i : TerminalIds = {i}
    BY <1>3, OneTerminal
  <2>3. Outcome = events[i] /\ Outcome \in TerminalNames
    BY <1>1, <2>2, TheOutcome
  <2>4. ASSUME events' = events PROVE Outcome' = Outcome
    BY <2>4, QuietEvents DEF Outcome
  <2>5. ASSUME events' = Append(events, "note") PROVE Outcome' = Outcome
    <3>1. "note" \in EventNames \ TerminalNames
      BY DEF EventNames, TerminalNames
    <3>2. /\ TerminalIds' = TerminalIds
          /\ \A k \in 1 .. Len(events) : events'[k] = events[k]
      BY <1>1, <2>5, <3>1, EventPublished
    <3>3. i \in 1 .. Len(events)
      BY <2>2 DEF TerminalIds
    <3>4. (CHOOSE k \in TerminalIds : \A j \in TerminalIds : k <= j) = i
      <4>1. i <= i
        BY <1>1, <3>3, LenProperties
      <4>2. QED
        BY <2>2, <4>1
    <3>5. QED
      BY <2>2, <3>2, <3>3, <3>4 DEF Outcome
  <2>6. /\ events' = events \/ events' = Append(events, "note")
        /\ status' = status /\ (done' = TRUE \/ done' = done)
    <3>1. CASE \/ TerminalReturns \/ HardCancel
      BY <2>1, <3>1 DEF TerminalReturns, HardCancel, CaughtAt
    <3>2. CASE \/ NextHook \/ NestedReturns \/ AfterRunReturns
               \/ RequestCancel \/ OthersSpend \/ HookPublishes \/ UNCHANGED vars
      BY <3>2 DEF NextHook, NestedReturns, AfterRunReturns, RequestCancel, OthersSpend,
                  HookPublishes, vars, runVars
    <3>3. ~(\/ Start \/ BeforeReturns \/ BeforeDone \/ StartedReturns \/ TokenReturns
            \/ CloseReturns \/ BeforeRaises \/ Token \/ UpstreamEnds \/ UpstreamRaises)
      BY <2>1 DEF Start, BeforeReturns, BeforeDone, InHook, StartedReturns, TokenReturns,
                  ReturningTo, CloseReturns, BeforeRaises, Token, UpstreamEnds, UpstreamRaises
    <3>4. QED
      BY <3>1, <3>2, <3>3 DEF Next, TaskStep, HookStep
  <2>7. QED
    BY <2>3, <2>4, <2>5, <2>6 DEF TerminalNames
<1>4. QED
  BY <1>2, <1>3

\* Every step is one of RunOutcome or leaves its variables alone.
LEMMA StepRefinesOutcome ==
    TaskInv /\ [Next]_vars => [Promise!OutcomeNext]_(Promise!outcomeVars)
<1> SUFFICES ASSUME TaskInv, [Next]_vars
             PROVE  [Promise!OutcomeNext]_(Promise!outcomeVars)
  OBVIOUS
<1>1. CASE TerminalIds = {} /\ TerminalIds' # {}
  <2>1. events \in Seq(EventNames) /\ Outcome = "none"
    BY <1>1 DEF TaskInv, Publishing, Outcome
  <2>2. /\ Settle /\ done' = done /\ pc \in {"before", "started", "closing"}
        /\ pc = "before" => over' = FALSE /\ (failed' = TRUE \/ cancel' = TRUE)
    BY <1>1, SettleSteps
  <2>3. /\ Outcome' \in DOMAIN Promise!StatusOf /\ status' = Promise!StatusOf[Outcome']
        /\ \/ failed' /\ Outcome' = "run.failed"
           \/ over' /\ Outcome' = "run.budget_exceeded"
           \/ cancel' /\ Outcome' = "run.cancelled"
           \/ ~over' /\ ~cancel' /\ ~failed'
    BY <1>1, <2>1, <2>2, OutcomeSettled
  <2>4. status = "queued" => Outcome' \in {"run.failed", "run.cancelled"}
    <3>1. status = "queued" => pc = "before"
      BY <2>2 DEF TaskInv, Control
    <3>2. QED
      BY <2>2, <2>3, <3>1
  <2>5. Promise!Conclude(Outcome')
    BY <2>1, <2>2, <2>3, <2>4 DEF Promise!Conclude
  <2>6. QED
    BY <2>3, <2>5 DEF Promise!OutcomeNext
<1>2. CASE TerminalIds = {} => TerminalIds' = {}
  <2>1. /\ Outcome' = Outcome
        /\ \/ status = "queued" /\ status' = "running" /\ done' = done
           \/ status' = status /\ done' = TRUE /\ Outcome # "none"
           \/ status' = status /\ done' = done
    BY <1>2, OtherSteps
  <2>2. QED
    BY <2>1 DEF Promise!OutcomeNext, Promise!Begin, Promise!CloseStream, Promise!outcomeVars
<1>3. QED
  BY <1>1, <1>2

\* The status moves forward, the outcome is announced once, agrees with the
\* status, and the stream is closed only after it.
THEOREM TaskKeepsPromise == Spec => ImplementsRunOutcome
<1>1. Init => Promise!OutcomeInit
  <2> SUFFICES ASSUME Init PROVE Promise!OutcomeInit
    OBVIOUS
  <2>1. TerminalIds = {}
    BY EmptySeq DEF Init, TerminalIds
  <2>2. QED
    BY <2>1 DEF Init, Promise!OutcomeInit, Outcome
<1>2. QED
  BY <1>1, StepRefinesOutcome, TaskInvHolds, PTL
  DEF Spec, ImplementsRunOutcome, Promise!OutcomeSpec

----------------------------------------------------------------------------
(* What a cancel does before fairness: the part of CancelLands that does not *)
(* depend on it.                                                            *)

\* How far run_task has come; a token's publish is before the next token.
Stage ==
    [p \in Places |->
        CASE p = "created" -> 0
          [] p = "before" -> 1
          [] p = "started" -> 2
          [] p = "token" -> 3
          [] p = "streaming" -> 4
          [] p = "closing" -> 5
          [] p = "terminal" -> 6
          [] p = "afterRun" -> 7
          [] OTHER -> 8]

\* From the cancel on nothing takes it back, no token is accumulated or
\* published, and run_task only moves on: past the token it is publishing, never
\* to another one.
CancelMovesOn ==
    cancel => /\ cancel'
              /\ Tokens' = Tokens /\ accumulated' = accumulated
              /\ Stage[pc] <= Stage[pc']

\* A requested cancel stops the tokens at once, whoever requested it and
\* wherever run_task is, hooks and their publishes included (runs.py:272-275).
THEOREM CancelStopsTokens == Spec => [][CancelMovesOn]_vars
<1>1. TaskInv /\ TaskInv' /\ [Next]_vars => CancelMovesOn
  <2> SUFFICES ASSUME TaskInv, TaskInv', [Next]_vars, cancel
               PROVE  /\ cancel'
                      /\ Tokens' = Tokens /\ accumulated' = accumulated
                      /\ Stage[pc] <= Stage[pc']
    BY DEF CancelMovesOn
  <2> USE DEF TaskInv
  <2>1. events \in Seq(EventNames) /\ pc \in Places /\ pc' \in Places
    BY DEF Publishing, Control
  <2>2. CASE \/ Start \/ BeforeReturns \/ AfterRunReturns \/ NextHook \/ NestedReturns
             \/ TokenReturns \/ UpstreamEnds \/ UpstreamRaises \/ Token
             \/ RequestCancel \/ OthersSpend \/ TerminalReturns \/ UNCHANGED vars
    <3>1. cancel' = cancel /\ events' = events /\ accumulated' = accumulated
      BY <2>2 DEF Start, BeforeReturns, AfterRunReturns, NextHook, NestedReturns,
                  TokenReturns, UpstreamEnds, UpstreamRaises, Token, LeaveLoop,
                  RequestCancel, OthersSpend, TerminalReturns, vars, taskVars, runVars
    <3>2. \/ pc' = pc
          \/ pc = "created" /\ pc' = "before"
          \/ pc = "afterRun" /\ pc' = "exited"
          \/ pc = "token" /\ pc' = "streaming"
          \/ pc = "streaming" /\ pc' = "closing"
          \/ pc = "terminal" /\ pc' = "afterRun"
      BY <2>2 DEF Start, BeforeReturns, AfterRunReturns, NextHook, NestedReturns,
                  TokenReturns, UpstreamEnds, UpstreamRaises, Token, LeaveLoop, InHook,
                  RequestCancel, OthersSpend, TerminalReturns, ReturningTo, vars, taskVars
    <3>3. Stage[pc] <= Stage[pc']
      BY <2>1, <3>2 DEF Stage
    <3>4. QED
      BY <3>1, <3>3, QuietEvents
  <2>3. CASE BeforeDone
    <3>1. "run.started" \in EventNames \ {"token"}
      BY DEF EventNames
    <3>2. /\ events' = Append(events, "run.started") /\ cancel' = cancel
          /\ accumulated' = accumulated /\ pc = "before" /\ pc' = "started"
      BY <2>3 DEF BeforeDone, InHook, PublishFromTask
    <3>3. Stage[pc] <= Stage[pc']
      BY <2>1, <3>2 DEF Stage
    <3>4. QED
      BY <2>1, <3>1, <3>2, <3>3, EventPublished
  <2>4. CASE HookPublishes
    <3>1. "note" \in EventNames \ {"token"}
      BY DEF EventNames
    <3>2. /\ events' = Append(events, "note") /\ cancel' = cancel
          /\ accumulated' = accumulated /\ pc' = pc
      BY <2>4 DEF HookPublishes
    <3>3. Stage[pc] <= Stage[pc']
      BY <2>1, <3>2 DEF Stage
    <3>4. QED
      BY <2>1, <3>1, <3>2, <3>3, EventPublished
  <2>5. CASE StartedReturns \/ CloseReturns \/ BeforeRaises \/ HardCancel
    <3>1. ASSUME Settle
          PROVE  /\ pc' \in {"terminal", "crashed"}
                 /\ \/ events' = events
                    \/ \E name \in TerminalNames : events' = Append(events, name)
      BY <3>1 DEF Settle, Conclude, PublishFromTask, TerminalNames
    <3>2. accumulated' = accumulated /\ cancel'
      BY <2>5 DEF StartedReturns, CloseReturns, BeforeRaises, HardCancel
    <3>3. \/ Settle /\ pc \in {"before", "started", "closing"}
          \/ events' = events /\ pc \in {"streaming", "token"} /\ pc' = "closing"
          \/ events' = events /\ pc' = "aborted"
      BY <2>5, <3>2 DEF StartedReturns, CloseReturns, BeforeRaises, HardCancel,
                        ReturningTo, InHook, CaughtAt
    <3>4. Stage[pc] <= Stage[pc']
      BY <2>1, <3>1, <3>3 DEF Stage, Places, Early, Late
    <3>5. Tokens' = Tokens
      <4>1. ASSUME NEW name \in TerminalNames PROVE name \in EventNames \ {"token"}
        BY DEF EventNames, TerminalNames
      <4>2. QED
        BY <2>1, <3>1, <3>3, <4>1, EventPublished, QuietEvents
    <3>6. QED
      BY <3>2, <3>4, <3>5
  <2>6. QED
    BY <2>2, <2>3, <2>4, <2>5 DEF Next, TaskStep, HookStep
<1>2. QED
  BY <1>1, TaskInvHolds, PTL DEF Spec

----------------------------------------------------------------------------
(* The run as its clients see it: run_task drives the stream that RunStream  *)
(* describes, so what is proved of every such stream is true of this one.    *)

\* The proofs about RunStream, of the stream of this run.
StreamFacts == INSTANCE RunStream_proofs WITH
    MaxId <- 1 + MaxTokens + MaxNotes,
    Late <- MaxNotes,
    nextId <- Len(events),
    events <- retained,
    terminal <- TerminalId

\* run.started has not been published, unless a cancel took its place.
NotStarted == pc \in {"created", "before"}

\* How much has been published: before the terminal event at most run.started,
\* a token for each one accumulated and the notes, after it only notes.
PublishesBounded ==
    /\ Notes \in 0 .. MaxNotes
    /\ accumulated \in 0 .. MaxTokens
    /\ Tokens \in 0 .. accumulated
    /\ TerminalIds = {} => Len(events) <= Notes + Tokens + (IF NotStarted THEN 0 ELSE 1)
    /\ TerminalIds # {} => Len(events) <= TerminalId + Notes

\* What the terminal event says of the status and of the answer.
OutcomeHolds ==
    /\ Outcome # "none" =>
           Outcome \in DOMAIN Promise!StatusOf /\ status = Promise!StatusOf[Outcome]
    /\ Outcome \in {"run.done", "run.contract_failed"} => Tokens = accumulated

\* The terminal event's id.
LEMMA TerminalIdIs ==
    ASSUME events \in Seq(EventNames)
    PROVE  /\ TerminalIds = {} => TerminalId = 0
           /\ \A i : TerminalIds = {i} =>
                  TerminalId = i /\ i \in 1 .. Len(events) /\ Outcome = events[i]
<1>1. ASSUME NEW i, TerminalIds = {i}
      PROVE  TerminalId = i /\ i \in 1 .. Len(events)
  <2>1. i \in 1 .. Len(events) /\ Len(events) \in Nat
    BY <1>1, LenProperties DEF TerminalIds
  <2>2. i <= i
    BY <2>1
  <2>3. (CHOOSE k \in TerminalIds : \A j \in TerminalIds : k <= j) = i
    BY <1>1, <2>2
  <2>4. QED
    BY <1>1, <2>1, <2>3 DEF TerminalId
<1>2. QED
  BY <1>1, TheOutcome DEF TerminalId

\* One more event, and how many of them are notes.
LEMMA NotesCounted ==
    ASSUME events \in Seq(EventNames)
    PROVE  /\ Notes \in Nat
           /\ \A name \in EventNames :
                  events' = Append(events, name) =>
                      Notes' = IF name = "note" THEN Notes + 1 ELSE Notes
<1>1. Notes = Cardinality(Indices(events, {"note"}))
  BY DEF Notes, Indices
<1>2. ASSUME NEW name \in EventNames, events' = Append(events, name)
      PROVE  Notes' = Cardinality(Indices(Append(events, name), {"note"}))
  BY <1>2 DEF Notes, Indices
<1>3. "note" \in EventNames
  BY DEF EventNames
<1>4. QED
  BY <1>1, <1>2, <1>3, IndicesAppended

\* What run_task publishes in one step, and where: nothing, or one event.
LEMMA StepPublishes ==
    ASSUME TaskInv, [Next]_vars
    PROVE  /\ NotStarted' => NotStarted
           /\ \/ /\ events' = events
                 /\ \/ accumulated' = accumulated
                    \/ accumulated' = accumulated + 1 /\ accumulated < MaxTokens
              \/ /\ events' = Append(events, "run.started")
                 /\ NotStarted /\ TerminalIds = {} /\ ~NotStarted'
                 /\ accumulated' = accumulated
              \/ /\ events' = Append(events, "token")
                 /\ ~NotStarted /\ TerminalIds = {}
                 /\ accumulated' = accumulated + 1 /\ accumulated < MaxTokens
              \/ /\ events' = Append(events, "note")
                 /\ Notes < MaxNotes /\ accumulated' = accumulated
                 /\ NotStarted' = NotStarted
              \/ /\ \E name \in TerminalNames : events' = Append(events, name)
                 /\ TerminalIds = {} /\ accumulated' = accumulated
<1> USE DEF NotStarted
<1>1. pc \in Early \cup {"closing"} => TerminalIds = {}
  BY DEF TaskInv, Announced
<1>2. CASE \/ Start \/ BeforeReturns \/ AfterRunReturns \/ NextHook \/ NestedReturns
           \/ TokenReturns \/ TerminalReturns \/ UpstreamEnds \/ UpstreamRaises
           \/ RequestCancel \/ OthersSpend \/ UNCHANGED vars
  BY <1>2 DEF Start, BeforeReturns, AfterRunReturns, NextHook, NestedReturns,
              TokenReturns, TerminalReturns, UpstreamEnds, UpstreamRaises, LeaveLoop,
              ReturningTo, InHook, RequestCancel, OthersSpend, vars, taskVars, runVars
<1>3. CASE BeforeDone
  BY <1>1, <1>3 DEF BeforeDone, InHook, PublishFromTask, Early
<1>4. CASE Token
  BY <1>1, <1>4 DEF Token, LeaveLoop, PublishFromTask, Early
<1>5. CASE HookPublishes
  BY <1>5 DEF HookPublishes
<1>6. CASE StartedReturns \/ CloseReturns \/ BeforeRaises \/ HardCancel
  <2>1. ASSUME Settle
        PROVE  /\ ~NotStarted'
               /\ \/ events' = events
                  \/ \E name \in TerminalNames : events' = Append(events, name)
    BY <2>1 DEF Settle, Conclude, PublishFromTask, TerminalNames
  <2>2. accumulated' = accumulated
    BY <1>6 DEF StartedReturns, CloseReturns, BeforeRaises, HardCancel
  <2>3. \/ Settle /\ pc \in {"before", "started", "closing"}
        \/ ~NotStarted' /\ events' = events
    BY <1>6 DEF StartedReturns, CloseReturns, BeforeRaises, HardCancel, ReturningTo,
                InHook, CaughtAt
  <2>4. QED
    BY <1>1, <2>1, <2>2, <2>3 DEF Early
<1>7. QED
  BY <1>2, <1>3, <1>4, <1>5, <1>6 DEF Next, TaskStep, HookStep

\* The terminal event's id after a step.
LEMMA NewTerminal ==
    ASSUME events' \in Seq(EventNames), NEW i, TerminalIds' = {i}
    PROVE  TerminalId' = i
<1>1. i \in 1 .. Len(events') /\ Len(events') \in Nat
  BY LenProperties DEF TerminalIds
<1>2. i <= i
  BY <1>1
<1>3. (CHOOSE k \in TerminalIds' : \A j \in TerminalIds' : k <= j) = i
  BY <1>2
<1>4. QED
  BY <1>3 DEF TerminalId

\* run_task publishes no more than that.
LEMMA StepKeepsBounds ==
    TaskInv /\ TaskInv' /\ PublishesBounded /\ [Next]_vars => PublishesBounded'
<1> SUFFICES ASSUME TaskInv, TaskInv', PublishesBounded, [Next]_vars
             PROVE  PublishesBounded'
  OBVIOUS
<1>1. events \in Seq(EventNames) /\ events' \in Seq(EventNames)
  BY DEF TaskInv, Publishing
<1>2. /\ Len(events) \in Nat /\ Notes \in 0 .. MaxNotes /\ Notes \in Nat /\ MaxNotes \in Nat
      /\ accumulated \in 0 .. MaxTokens /\ MaxTokens \in Nat /\ Tokens \in 0 .. accumulated
  BY <1>1, NotesCounted, LenProperties, BoundsAreNat DEF PublishesBounded
<1>3. \/ TerminalIds = {} /\ Len(events) <= Notes + Tokens + (IF NotStarted THEN 0 ELSE 1)
      \/ \E i \in 1 .. Len(events) :
             TerminalIds = {i} /\ TerminalId = i /\ Len(events) <= i + Notes
  BY <1>1, OneTerminal, TerminalIdIs DEF PublishesBounded
<1>4. ASSUME NEW i, TerminalIds' = {i} PROVE TerminalId' = i
  BY <1>1, <1>4, NewTerminal
<1>5. ASSUME NEW name \in EventNames, events' = Append(events, name)
      PROVE  /\ Len(events') = Len(events) + 1
             /\ Tokens' = IF name = "token" THEN Tokens + 1 ELSE Tokens
             /\ Notes' = IF name = "note" THEN Notes + 1 ELSE Notes
             /\ TerminalIds' = IF name \in TerminalNames
                               THEN TerminalIds \cup {Len(events) + 1} ELSE TerminalIds
  BY <1>1, <1>5, EventPublished, NotesCounted
<1>6. NotStarted' => NotStarted
  BY StepPublishes
<1>7. CASE /\ events' = events
           /\ \/ accumulated' = accumulated
              \/ accumulated' = accumulated + 1 /\ accumulated < MaxTokens
  <2>1. TerminalIds' = TerminalIds /\ Tokens' = Tokens /\ Notes' = Notes /\ TerminalId' = TerminalId
    BY <1>7, QuietEvents DEF Notes, TerminalId
  <2>2. QED
    BY <1>2, <1>3, <1>6, <1>7, <2>1 DEF PublishesBounded
<1>8. CASE /\ events' = Append(events, "run.started")
           /\ NotStarted /\ TerminalIds = {} /\ ~NotStarted'
           /\ accumulated' = accumulated
  <2>1. "run.started" \in EventNames \ TerminalNames
    BY DEF EventNames, TerminalNames
  <2>2. QED
    BY <1>2, <1>3, <1>5, <1>8, <2>1 DEF PublishesBounded
<1>9. CASE /\ events' = Append(events, "token")
           /\ ~NotStarted /\ TerminalIds = {}
           /\ accumulated' = accumulated + 1 /\ accumulated < MaxTokens
  <2>1. "token" \in EventNames \ TerminalNames
    BY DEF EventNames, TerminalNames
  <2>2. QED
    BY <1>2, <1>3, <1>5, <1>6, <1>9, <2>1 DEF PublishesBounded
<1>10. CASE /\ events' = Append(events, "note")
            /\ Notes < MaxNotes /\ accumulated' = accumulated
            /\ NotStarted' = NotStarted
  <2>1. "note" \in EventNames \ TerminalNames
    BY DEF EventNames, TerminalNames
  <2>2. /\ Len(events') = Len(events) + 1 /\ Tokens' = Tokens
        /\ Notes' = Notes + 1 /\ TerminalIds' = TerminalIds
    BY <1>5, <1>10, <2>1
  <2>3. CASE TerminalIds = {}
    BY <1>2, <1>3, <1>10, <2>2, <2>3 DEF PublishesBounded
  <2>4. ASSUME NEW i \in 1 .. Len(events), TerminalIds = {i}, Len(events) <= i + Notes
        PROVE  PublishesBounded'
    <3>1. TerminalIds' = {i} /\ TerminalIds' # {} /\ TerminalId' = i
      BY <1>4, <2>2, <2>4
    <3>2. Len(events') <= i + Notes'
      BY <1>2, <2>2, <2>4
    <3>3. /\ Notes' \in 0 .. MaxNotes /\ accumulated' \in 0 .. MaxTokens
          /\ Tokens' \in 0 .. accumulated'
      BY <1>2, <1>10, <2>2
    <3>4. QED
      BY <3>1, <3>2, <3>3 DEF PublishesBounded
  <2>5. QED
    BY <1>3, <2>3, <2>4
<1>11. CASE /\ \E name \in TerminalNames : events' = Append(events, name)
            /\ TerminalIds = {} /\ accumulated' = accumulated
  <2>1. PICK name \in TerminalNames : events' = Append(events, name)
    BY <1>11
  <2>2. name \in EventNames /\ name # "token" /\ name # "note"
    BY DEF EventNames, TerminalNames
  <2>3. /\ Len(events') = Len(events) + 1 /\ Tokens' = Tokens
        /\ Notes' = Notes /\ TerminalIds' = {Len(events) + 1}
    BY <1>5, <1>11, <2>1, <2>2
  <2>4. TerminalId' = Len(events) + 1
    BY <1>4, <2>3
  <2>5. QED
    BY <1>2, <1>11, <2>3, <2>4 DEF PublishesBounded
<1>12. QED
  BY StepPublishes, <1>7, <1>8, <1>9, <1>10, <1>11

\* Once the outcome is chosen no token is accumulated or published any more.
LEMMA AnswerStays ==
    ASSUME TaskInv, [Next]_vars, TerminalIds # {}
    PROVE  Tokens' = Tokens /\ accumulated' = accumulated
<1>1. events \in Seq(EventNames) /\ pc # "streaming"
  BY DEF TaskInv, Publishing, Announced, Early
<1>2. accumulated' = accumulated
  BY <1>1 DEF Next, TaskStep, HookStep, Start, BeforeReturns, BeforeDone, AfterRunReturns,
              NextHook, NestedReturns, StartedReturns, TokenReturns, TerminalReturns,
              CloseReturns, HookPublishes, BeforeRaises, Token, UpstreamEnds,
              UpstreamRaises, RequestCancel, OthersSpend, HardCancel, vars, taskVars
<1>3. events' = events \/ events' = Append(events, "note")
  BY StepPublishes, <1>2 DEF TaskInv, Control
<1>4. "note" \in EventNames \ {"token"}
  BY DEF EventNames
<1>5. QED
  BY <1>1, <1>2, <1>3, <1>4, EventPublished, QuietEvents

\* The status agrees with the outcome, and a natural end with the tokens.
LEMMA StepKeepsOutcome ==
    TaskInv /\ OutcomeHolds /\ [Next]_vars => OutcomeHolds'
<1> SUFFICES ASSUME TaskInv, OutcomeHolds, [Next]_vars PROVE OutcomeHolds'
  OBVIOUS
<1>1. [Promise!OutcomeNext]_(Promise!outcomeVars)
  BY StepRefinesOutcome
<1>2. Outcome' # "none" =>
          Outcome' \in DOMAIN Promise!StatusOf /\ status' = Promise!StatusOf[Outcome']
  <2>1. CASE Promise!Begin
    BY <2>1 DEF Promise!Begin, Promise!StatusOf, OutcomeHolds
  <2>2. CASE \E o \in DOMAIN Promise!StatusOf : Promise!Conclude(o)
    BY <2>2 DEF Promise!Conclude
  <2>3. CASE Promise!CloseStream \/ UNCHANGED Promise!outcomeVars
    BY <2>3 DEF Promise!CloseStream, Promise!outcomeVars, OutcomeHolds
  <2>4. QED
    BY <1>1, <2>1, <2>2, <2>3 DEF Promise!OutcomeNext
<1>3. Outcome = "none" \/ Outcome' = Outcome
  BY <1>1 DEF Promise!OutcomeNext, Promise!Begin, Promise!Conclude, Promise!CloseStream,
              Promise!outcomeVars
<1>4. ASSUME Outcome' \in {"run.done", "run.contract_failed"}
      PROVE  Tokens' = accumulated'
  <2>1. CASE Outcome = "none"
    BY <1>4, <2>1, NaturalStep
  <2>2. CASE Outcome' = Outcome
    <3>1. TerminalIds # {}
      BY <1>4, <2>2 DEF Outcome
    <3>2. QED
      BY <1>4, <2>2, <3>1, AnswerStays DEF OutcomeHolds
  <2>3. QED
    BY <1>3, <2>1, <2>2
<1>5. QED
  BY <1>2, <1>4 DEF OutcomeHolds

\* Clients leave run_task alone, or ask it to cancel, which is a step of RunTask.
LEMMA ServedStep == [ServedNext]_servedVars => [Next]_vars
BY DEF ServedNext, TaskMoves, ClientMoves, servedVars

\* The composed run is a run of RunTask.
LEMMA ServedIsTask == ServedSpec => Spec
BY ServedStep, PTL DEF ServedSpec, ServedInit, Spec

\* Every step of the composed run is one of RunStream.
LEMMA ServedStepDrives ==
    TaskInv /\ TaskInv' /\ PublishesBounded /\ [ServedNext]_servedVars
        => [Stream!Next]_(Stream!vars)
<1> SUFFICES ASSUME TaskInv, TaskInv', PublishesBounded, [ServedNext]_servedVars
             PROVE  [Stream!Next]_(Stream!vars)
  OBVIOUS
<1>1. events \in Seq(EventNames) /\ Len(events) \in Nat
  BY LenProperties DEF TaskInv, Publishing
<1>2. ASSUME events' = events
      PROVE  Len(events') = Len(events) /\ TerminalId' = TerminalId
  BY <1>2, QuietEvents DEF TerminalId
<1>3. ASSUME NEW c \in Clients, ClientMoves(c) PROVE Stream!Next
  BY <1>3 DEF ClientMoves, Stream!Next
<1>4. CASE TaskMoves /\ events' # events
  <2>1. Stream!Record /\ [Next]_vars
    BY <1>4 DEF TaskMoves, Broadcast
  <2>2. CASE TerminalIds = {}
    <3>1. TerminalId = 0
      BY <2>2 DEF TerminalId
    <3>2. PICK name \in EventNames : events' = Append(events, name) /\
              (name \in TerminalNames \/ Len(events) < 1 + MaxTokens + MaxNotes)
      <4>1. "run.started" \in EventNames /\ "token" \in EventNames /\ "note" \in EventNames
            /\ TerminalNames \subseteq EventNames
        BY DEF EventNames
      <4>2. /\ Len(events) <= Notes + Tokens + (IF NotStarted THEN 0 ELSE 1)
            /\ Notes \in 0 .. MaxNotes /\ accumulated \in 0 .. MaxTokens
            /\ Tokens \in 0 .. accumulated
            /\ MaxNotes \in Nat /\ MaxTokens \in Nat
        BY <2>2, BoundsAreNat DEF PublishesBounded
      <4>3. \/ events' = Append(events, "run.started") /\ NotStarted
            \/ events' = Append(events, "token") /\ accumulated < MaxTokens
            \/ events' = Append(events, "note") /\ Notes < MaxNotes
            \/ \E name \in TerminalNames : events' = Append(events, name)
        BY <1>4, <2>1, StepPublishes
      <4>4. \/ NotStarted \/ accumulated < MaxTokens \/ Notes < MaxNotes
            => Len(events) < 1 + MaxTokens + MaxNotes
        BY <1>1, <4>2
      <4>5. QED
        BY <4>1, <4>3, <4>4
    <3>3. CASE name \in TerminalNames
      <4>1. TerminalIds' = {Len(events) + 1} /\ Len(events') = Len(events) + 1
        BY <1>1, <2>2, <3>2, <3>3, EventPublished
      <4>2. TerminalId' = Len(events')
        BY <4>1, NewTerminal DEF TaskInv, Publishing
      <4>3. Stream!PublishTerminal
        BY <2>1, <3>1, <4>2 DEF Stream!PublishTerminal
      <4>4. QED
        BY <4>3 DEF Stream!Next, Stream!Produce
    <3>4. CASE name \notin TerminalNames
      <4>1. TerminalIds' = {}
        BY <1>1, <2>2, <3>2, <3>4, EventPublished
      <4>2. TerminalId' = 0
        BY <4>1 DEF TerminalId
      <4>3. Stream!Publish
        BY <2>1, <3>1, <3>2, <3>4, <4>2 DEF Stream!Publish
      <4>4. QED
        BY <4>3 DEF Stream!Next, Stream!Produce
    <3>5. QED
      BY <3>3, <3>4
  <2>3. CASE TerminalIds # {}
    <3>1. PICK i : TerminalIds = {i}
      BY <2>3, OneTerminal
    <3>2. TerminalId = i /\ i \in 1 .. Len(events)
      BY <1>1, <3>1, TerminalIdIs
    <3>3. events' = Append(events, "note") /\ Notes < MaxNotes
      BY <1>4, <2>1, <2>3, StepPublishes
    <3>4. "note" \in EventNames \ TerminalNames
      BY DEF EventNames, TerminalNames
    <3>5. TerminalIds' = TerminalIds
      BY <1>1, <3>3, <3>4, EventPublished
    <3>6. TerminalId' = TerminalId
      BY <3>5 DEF TerminalId
    <3>7. TerminalId # 0 /\ Len(events) < TerminalId + MaxNotes
      <4>1. Len(events) <= TerminalId + Notes /\ Notes \in 0 .. MaxNotes /\ MaxNotes \in Nat
        BY <2>3, BoundsAreNat DEF PublishesBounded
      <4>2. QED
        BY <1>1, <3>2, <3>3, <4>1
    <3>8. Stream!PublishLate
      BY <2>1, <3>6, <3>7 DEF Stream!PublishLate
    <3>9. QED
      BY <3>8 DEF Stream!Next, Stream!Produce
  <2>4. QED
    BY <2>2, <2>3
<1>5. CASE TaskMoves /\ events' = events
  <2>1. CASE done' # done
    BY <1>5, <2>1 DEF TaskMoves, Broadcast, Stream!Next, Stream!Produce
  <2>2. CASE done' = done
    BY <1>2, <1>5, <2>2 DEF TaskMoves, Broadcast, streamVars, Stream!vars,
                            Stream!producerVars, Stream!clientVars
  <2>3. QED
    BY <2>1, <2>2
<1>6. CASE UNCHANGED servedVars
  BY <1>2, <1>6 DEF servedVars, streamVars, vars, runVars, Stream!vars,
                    Stream!producerVars, Stream!clientVars
<1>7. QED
  BY <1>3, <1>4, <1>5, <1>6 DEF ServedNext

\* What the composed run keeps true of run_task.
LEMMA ServedInvariants == ServedSpec => [](TaskInv /\ PublishesBounded /\ OutcomeHolds)
<1>1. Init => PublishesBounded /\ OutcomeHolds
  <2> SUFFICES ASSUME Init PROVE PublishesBounded /\ OutcomeHolds
    OBVIOUS
  <2>1. events = <<>> /\ accumulated = 0 /\ NotStarted
    BY DEF Init, NotStarted
  <2>2. TerminalIds = {} /\ Tokens = 0 /\ Notes = 0 /\ Outcome = "none"
    <3>1. /\ {i \in 1 .. Len(events) : events[i] = "token"} = {}
          /\ {i \in 1 .. Len(events) : events[i] = "note"} = {}
          /\ TerminalIds = {}
      BY <2>1, EmptySeq DEF TerminalIds
    <3>2. QED
      BY <3>1, FS_EmptySet DEF Tokens, Notes, Outcome
  <2>3. QED
    BY <2>1, <2>2, EmptySeq, BoundsAreNat DEF PublishesBounded, OutcomeHolds
<1>2. QED
  BY <1>1, InitTaskInv, StepKeepsTaskInv, StepKeepsBounds, StepKeepsOutcome, ServedStep, PTL
  DEF ServedSpec, ServedInit

\* run_task publishes and closes as RunStream assumes it does: the stream of
\* every run is one that RunStream describes.
THEOREM TaskDrivesStream == ServedSpec => DrivesRunStream
<1>1. ServedInit => Stream!Init
  BY DEF ServedInit
<1>2. QED
  BY <1>1, ServedStepDrives, ServedInvariants, PTL DEF ServedSpec, DrivesRunStream, Stream!Spec

\* So all that is proved of such streams holds of it.
LEMMA StreamFactsHold ==
    ServedSpec => [](StreamFacts!StreamInv /\ StreamFacts!SeenIsWhole)
<1>1. Stream!Init => StreamFacts!Init
  BY DEF Stream!Init, StreamFacts!Init
<1>2. [Stream!Next]_(Stream!vars) => [StreamFacts!Next]_(StreamFacts!vars)
  <2>1. \A S : Stream!Cardinality(S) = StreamFacts!Cardinality(S)
    BY DEF Stream!Cardinality, StreamFacts!Cardinality
  <2>2. \A q, x : Stream!Offer(q, x) = StreamFacts!Offer(q, x)
    BY DEF Stream!Offer, Stream!Full, StreamFacts!Offer, StreamFacts!Full
  <2>3. \A h, x : Stream!Backlog(h, x) = StreamFacts!Backlog(h, x)
    BY DEF Stream!Backlog, Stream!FirstAfter, Stream!Newest, StreamFacts!Backlog,
           StreamFacts!FirstAfter, StreamFacts!Newest
  <2>4. Stream!Record => StreamFacts!Record
    BY <2>1, <2>2 DEF Stream!Record, Stream!Retain, Stream!Full, Stream!clientVars,
                      StreamFacts!Record, StreamFacts!Retain, StreamFacts!Full,
                      StreamFacts!clientVars
  <2>5. Stream!Produce => StreamFacts!Produce
    BY <2>2, <2>4 DEF Stream!Produce, Stream!Publish, Stream!PublishTerminal,
           Stream!PublishLate, Stream!MarkDone, Stream!Sentinel, Stream!clientVars,
           StreamFacts!Produce, StreamFacts!Publish, StreamFacts!PublishTerminal,
           StreamFacts!PublishLate, StreamFacts!MarkDone, StreamFacts!Sentinel,
           StreamFacts!clientVars
  <2>6. \A c \in Clients : Stream!Attach(c) => StreamFacts!Attach(c)
    BY <2>2, <2>3 DEF Stream!Attach, Stream!LastSeen, Stream!Sentinel,
           Stream!producerVars, StreamFacts!Attach, StreamFacts!LastSeen,
           StreamFacts!Sentinel, StreamFacts!producerVars
  <2>7. \A c \in Clients :
            Stream!Deliver(c) \/ Stream!Finish(c) \/ Stream!Disconnect(c)
                => StreamFacts!Deliver(c) \/ StreamFacts!Finish(c) \/ StreamFacts!Disconnect(c)
    BY DEF Stream!Deliver, Stream!Finish, Stream!Disconnect, Stream!Sentinel,
           Stream!producerVars, StreamFacts!Deliver, StreamFacts!Finish,
           StreamFacts!Disconnect, StreamFacts!Sentinel, StreamFacts!producerVars
  <2>8. UNCHANGED Stream!vars => UNCHANGED StreamFacts!vars
    BY DEF Stream!vars, Stream!producerVars, Stream!clientVars, StreamFacts!vars,
           StreamFacts!producerVars, StreamFacts!clientVars
  <2>9. QED
    BY <2>5, <2>6, <2>7, <2>8 DEF Stream!Next, StreamFacts!Next
<1>3. Stream!Spec => StreamFacts!Spec
  BY <1>1, <1>2, PTL DEF Stream!Spec, StreamFacts!Spec
<1>4. StreamFacts!BoundsAreNat
  BY BoundsAreNat, LimitsAreNat DEF StreamFacts!BoundsAreNat
<1>5. StreamFacts!ClientsAreFinite
  BY ClientsAreFinite DEF StreamFacts!ClientsAreFinite, StreamFacts!IsFiniteSet, IsFiniteSet
<1>6. StreamFacts!Spec => []StreamFacts!StreamInv
  BY <1>4, <1>5, StreamFacts!StreamInvHolds, PTL
<1>7. StreamFacts!Spec => []StreamFacts!SeenIsWhole
  BY <1>4, <1>5, StreamFacts!NothingLostWithoutLimits, PTL
<1>8. QED
  BY <1>3, <1>6, <1>7, TaskDrivesStream, PTL DEF DrivesRunStream

\* However clients attach, lag, break off and come back, and whatever hooks,
\* cancels and faults do to the run, no client receives two outcomes, and one that
\* is told the end has received the outcome that the status says, if the limits
\* leave room for it (runs.py:236, app.py:161-173).
THEOREM OutcomeIsSeen == ServedSpec => []ClientsSeeOutcome
<1>1. TaskInv /\ OutcomeHolds /\ StreamFacts!StreamInv => ClientsSeeOutcome
  <2> SUFFICES ASSUME TaskInv, OutcomeHolds, StreamFacts!StreamInv, NEW c \in Clients
               PROVE  /\ \A i, j \in DOMAIN Received(c) :
                             Received(c)[i] \in TerminalNames /\ Received(c)[j] \in TerminalNames
                                 => i = j
                      /\ Stream!RoomForTerminal /\ conn[c] = "ended" =>
                             \E i \in DOMAIN Received(c) :
                                 /\ Received(c)[i] \in DOMAIN Promise!StatusOf
                                 /\ Promise!StatusOf[Received(c)[i]] = status
    BY DEF ClientsSeeOutcome
  <2>1. /\ events \in Seq(EventNames) /\ Len(events) \in Nat
        /\ \A i, j \in TerminalIds : i = j
    BY LenProperties DEF TaskInv, Publishing, Announced
  <2>2. StreamFacts!SeenInv(c) /\ StreamFacts!EndInv(c) /\ StreamFacts!TypeOK
        /\ StreamFacts!PhaseInv
    BY DEF StreamFacts!StreamInv, StreamFacts!ClientInv
  <2>3. /\ seen[c] \in Seq(Nat) /\ Len(seen[c]) \in Nat
        /\ \A i \in 1 .. Len(seen[c]) : seen[c][i] \in 1 .. Len(events)
        /\ \A i, j \in 1 .. Len(seen[c]) : i < j => seen[c][i] < seen[c][j]
    BY <2>2, LenProperties DEF StreamFacts!SeenInv, StreamFacts!TypeOK
  <2>4. /\ DOMAIN Received(c) = 1 .. Len(seen[c])
        /\ \A i \in 1 .. Len(seen[c]) : Received(c)[i] = events[seen[c][i]]
    BY DEF Received
  <2>5. ASSUME NEW i \in 1 .. Len(seen[c]), NEW j \in 1 .. Len(seen[c]),
               Received(c)[i] \in TerminalNames, Received(c)[j] \in TerminalNames
        PROVE  i = j
    <3>1. seen[c][i] \in TerminalIds /\ seen[c][j] \in TerminalIds
      BY <2>3, <2>4, <2>5 DEF TerminalIds
    <3>2. seen[c][i] = seen[c][j] /\ seen[c][i] \in Nat
      BY <2>1, <2>3, <3>1
    <3>3. ~(i < j) /\ ~(j < i)
      BY <2>3, <3>2
    <3>4. QED
      BY <2>3, <3>3
  <2>6. ASSUME Stream!RoomForTerminal, conn[c] = "ended"
        PROVE  \E i \in DOMAIN Received(c) :
                   /\ Received(c)[i] \in DOMAIN Promise!StatusOf
                   /\ Promise!StatusOf[Received(c)[i]] = status
    <3>1. StreamFacts!RoomForTerminal
      BY <2>6 DEF Stream!RoomForTerminal, StreamFacts!RoomForTerminal
    <3>2. PICK i \in 1 .. Len(seen[c]) : seen[c][i] = TerminalId
      BY <2>2, <2>6, <3>1 DEF StreamFacts!EndInv, StreamFacts!SawTerminal
    <3>3. TerminalIds # {}
      BY <2>2, <2>6 DEF StreamFacts!PhaseInv, TerminalId
    <3>4. Outcome = events[TerminalId] /\ Outcome # "none"
      <4>1. PICK k : TerminalIds = {k}
        BY <3>3, OneTerminal
      <4>2. TerminalId = k /\ Outcome = events[k] /\ Outcome \in TerminalNames
        BY <2>1, <4>1, TerminalIdIs, TheOutcome
      <4>3. QED
        BY <4>2 DEF TerminalNames
    <3>5. Received(c)[i] = Outcome
      BY <2>4, <3>2, <3>4
    <3>6. QED
      BY <2>4, <3>4, <3>5 DEF OutcomeHolds
  <2>7. QED
    BY <2>4, <2>5, <2>6
<1>2. QED
  BY <1>1, ServedInvariants, StreamFactsHold, PTL

\* Without limits a client that is told the stream of a natural end is over has
\* received every token that the contracts judged, each at its own place.
THEOREM WholeAnswerIsSeen == ServedSpec => []AnswerIsWhole
<1>1. TaskInv /\ OutcomeHolds /\ StreamFacts!StreamInv /\ StreamFacts!SeenIsWhole
          => AnswerIsWhole
  <2> SUFFICES ASSUME TaskInv, OutcomeHolds, StreamFacts!StreamInv,
                      StreamFacts!SeenIsWhole, NEW c \in Clients,
                      MaxQueue = 0, MaxHistory = 0, conn[c] = "ended",
                      Outcome \in {"run.done", "run.contract_failed"}
               PROVE  /\ Tokens = accumulated
                      /\ \A id \in 1 .. TerminalId :
                             id \in DOMAIN seen[c] /\ seen[c][id] = id
    BY DEF AnswerIsWhole
  <2>1. StreamFacts!Unbounded
    BY DEF StreamFacts!Unbounded
  <2>2. /\ seen[c] \in Seq(Nat) /\ Len(seen[c]) \in Nat /\ DOMAIN seen[c] = 1 .. Len(seen[c])
        /\ TerminalId <= doneAt
    BY LenProperties DEF StreamFacts!StreamInv, StreamFacts!TypeOK, StreamFacts!PhaseInv,
                         StreamFacts!ClientInv, StreamFacts!EndInv
  <2>3. /\ doneAt \in 0 .. Len(seen[c])
        /\ \A i \in 1 .. Len(seen[c]) : seen[c][i] = i
    BY <2>1 DEF StreamFacts!SeenIsWhole, StreamFacts!SeenFromStart
  <2>4. TerminalId \in Nat
    <3>1. Outcome # "none" /\ events \in Seq(EventNames)
      BY DEF TaskInv, Publishing
    <3>2. PICK k : TerminalIds = {k}
      BY <3>1, OneTerminal, TheOutcome
    <3>3. TerminalId = k /\ k \in 1 .. Len(events) /\ Len(events) \in Nat
      BY <3>1, <3>2, TerminalIdIs, LenProperties
    <3>4. QED
      BY <3>3
  <2>5. QED
    BY <2>2, <2>3, <2>4 DEF OutcomeHolds
<1>2. QED
  BY <1>1, ServedInvariants, StreamFactsHold, PTL
=============================================================================
