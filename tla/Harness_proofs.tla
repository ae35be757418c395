--------------------------- MODULE Harness_proofs ---------------------------
(***************************************************************************)
(* Proofs about HarnessTargets, for any files, edits and installs, about     *)
(* PatchedClients, for any clients and any depth of wrappers, and about      *)
(* HarnessRuns, for any runs, contracts and answers.                        *)
(***************************************************************************)
EXTENDS HarnessTargets, PatchedClients, HarnessRuns, FiniteSetTheorems,
        WellFoundedInduction, TLAPS

Places == {"idle", "loading", "next", "backup", "copy", "empty", "write"}

TypeOK ==
    /\ file \in [Files -> (SUBSET Pieces) \cup {NoFile}]
    /\ backup \in [Files -> (SUBSET Pieces) \cup {NoFile}]
    /\ edits \in [Files -> 0 .. MaxEdits]
    /\ install \in [at : Places, mode : Modes, targets : Seq(Files),
                    text : SUBSET Pieces]
    /\ backedUp \in [Files -> 0 .. 2]
    /\ torn \in [Files -> BOOLEAN]
    /\ install.at \in {"backup", "copy", "empty", "write"} => install.targets # <<>>

LastText(f) == User(edits[f])
InFile(f) == Holds(file[f], LastText(f))
InBackup(f) == backedUp[f] = 1 /\ Holds(backup[f], LastText(f))
InHand(f) == LastText(f) \in install.text
On(f, places) == install.at \in places /\ Target = f

\* Where the user's last text is while one backup at most was made of it and no
\* append died over it: replace goes over the backup, append over the text read.
Kept(f) ==
    /\ InFile(f) \/ InBackup(f) \/ (On(f, {"write"}) /\ InHand(f))
    /\ On(f, {"copy"}) => backedUp[f] = 1 /\ InFile(f)
    /\ On(f, {"empty", "write"}) =>
           InBackup(f) \/ (install.mode = "append" /\ InHand(f))

FileInv(f) ==
    edits[f] > 0 => /\ file[f] # NoFile
                    /\ backedUp[f] <= 1 /\ ~torn[f] => Kept(f)

TargetsInv == TypeOK /\ \A f \in Files : FileInv(f)

\* The user's edit is in the file, and nothing else is kept of it.
LEMMA EditKeeps ==
    ASSUME TargetsInv, NEW g \in Files, Edit(g) PROVE TargetsInv'
  <1> USE BoundsAreNat DEF TargetsInv
  <1>1. PICK kept \in {{}, Text(g) \cap {Rules}} :
            file' = [file EXCEPT ![g] = kept \cup {User(edits[g] + 1)}]
    BY DEF Edit
  <1>2. kept \cup {User(edits[g] + 1)} \in SUBSET Pieces
    <2>1. edits[g] + 1 \in 1 .. MaxEdits
      BY DEF Edit, TypeOK
    <2>2. kept \subseteq {Rules}
      BY <1>1
    <2>3. QED
      BY <2>1, <2>2 DEF Pieces
  <1>3. kept \cup {User(edits[g] + 1)} # NoFile
    BY <1>2, NoFileIsNoText
  <1>4. TypeOK'
    BY <1>1, <1>2 DEF Edit, TypeOK
  <1>5. ASSUME NEW f \in Files, f # g PROVE FileInv(f)'
    BY <1>1, <1>5 DEF Edit, TypeOK, FileInv, Kept, InFile, InBackup, InHand, On,
                      Target, LastText, Holds
  <1>6. FileInv(g)'
    BY <1>1, <1>3 DEF Edit, TypeOK, FileInv, Kept, InFile, On, LastText, Holds
  <1>7. QED
    BY <1>4, <1>5, <1>6

\* Steps that write no file.
LEMMA QuietStepKeeps ==
    ASSUME TargetsInv, Start \/ Load \/ Finish \/ UNCHANGED vars
    PROVE  TargetsInv'
  <1>1. CASE Start
    <2>0. PICK m \in Modes, n \in 1 .. MaxTargets : \E ts \in [1 .. n -> Files] :
              install' = [install EXCEPT !.at = "loading", !.mode = m, !.targets = ts]
      BY <1>1 DEF Start
    <2>1. PICK ts \in [1 .. n -> Files] :
              install' = [install EXCEPT !.at = "loading", !.mode = m, !.targets = ts]
      BY <2>0
    <2>2. ts \in Seq(Files)
      BY BoundsAreNat
    <2>3. TypeOK'
      BY <1>1, <2>1, <2>2 DEF Start, Places, TargetsInv, TypeOK
    <2>4. ASSUME NEW f \in Files PROVE FileInv(f)'
      BY <1>1, <2>1 DEF Start, TargetsInv, TypeOK, FileInv, Kept, InFile, InBackup, On,
                        LastText, Holds
    <2>5. QED
      BY <2>3, <2>4 DEF TargetsInv
  <1>2. CASE Load
    BY <1>2 DEF Load, Places, TargetsInv, TypeOK, FileInv, Kept, InFile, InBackup, On,
                LastText, Holds
  <1>3. CASE Finish
    BY <1>3 DEF Finish, Idle, Places, Modes, TargetsInv, TypeOK, FileInv, Kept, InFile,
                InBackup, On, LastText, Holds
  <1>4. CASE UNCHANGED vars
    BY <1>4 DEF vars, TargetsInv, TypeOK, FileInv, Kept, InFile, InBackup, InHand, On,
                Target, LastText, Holds
  <1>5. QED
    BY <1>1, <1>2, <1>3, <1>4

\* Replace finds the file and makes a backup first, append has its text in hand.
LEMMA ApplyKeeps == ASSUME TargetsInv, Apply PROVE TargetsInv'
  <1>0. PICK t \in Files : t = Target
    BY DEF Apply, TargetsInv, TypeOK, Target
  <1>1. t = Target /\ install.targets # <<>> /\ install.at = "next"
    BY <1>0 DEF Apply
  <1>2. Text(t) \in SUBSET Pieces
    <2>1. file[t] \in (SUBSET Pieces) \cup {NoFile}
      BY <1>1 DEF TargetsInv, TypeOK
    <2>2. Text(t) = {} \/ (Text(t) = file[t] /\ file[t] # NoFile)
      BY Zenon DEF Text
    <2>3. QED
      BY <2>1, <2>2
  <1>3. TypeOK' /\ Target' = t
    BY <1>1, <1>2 DEF Apply, TargetsInv, TypeOK, Places, Pieces, Target
  <1>4. ASSUME NEW f \in Files PROVE FileInv(f)'
    <2>1. SUFFICES ASSUME edits[f] > 0, backedUp[f] <= 1, ~torn[f]
                   PROVE  Kept(f)'
      BY <1>4 DEF Apply, TargetsInv, FileInv
    <2>2. file[f] # NoFile /\ (InFile(f) \/ InBackup(f))
      BY <1>1, <2>1 DEF TargetsInv, FileInv, Kept, On
    <2>3. CASE f # t
      BY <1>3, <2>2, <2>3 DEF Apply, Kept, InFile, InBackup, InHand, On, LastText, Holds
    <2>4. CASE f = t /\ install.mode = "replace"
      BY <1>1, <1>3, <2>2, <2>4
      DEF Apply, BacksUp, Kept, InFile, InBackup, On, LastText, Holds, TargetsInv, TypeOK
    <2>5. CASE f = t /\ install.mode = "append"
      <3>1. /\ install'.at = "empty" /\ install'.mode = "append"
            /\ install'.text = {Rules} \cup Text(t)
        BY <1>1, <2>5 DEF Apply, BacksUp, TargetsInv, TypeOK
      <3>2. InFile(f) => InHand(f)'
        BY <2>5, <3>1 DEF Apply, InFile, InHand, Holds, LastText, Text
      <3>3. QED
        BY <2>2, <3>1, <3>2 DEF Apply, Kept, InFile, InBackup, On, LastText, Holds
    <2>6. QED
      BY <2>3, <2>4, <2>5 DEF TargetsInv, TypeOK, Modes
  <1>5. QED
    BY <1>3, <1>4 DEF TargetsInv

\* Each write of an install, of its target alone.
LEMMA WriteKeeps ==
    ASSUME TargetsInv, EmptyBackup \/ WriteBackup \/ EmptyFile \/ WriteFile
    PROVE  TargetsInv'
  <1>0. PICK t \in Files : t = Target
    BY DEF EmptyBackup, WriteBackup, EmptyFile, WriteFile, TargetsInv, TypeOK, Target
  <1>1. t = Target /\ install.targets # <<>> /\ Tail(install.targets) \in Seq(Files)
    BY <1>0 DEF EmptyBackup, WriteBackup, EmptyFile, WriteFile, TargetsInv, TypeOK
  <1>2. {} # NoFile /\ install.text # NoFile /\ {} \in SUBSET Pieces
    BY NoFileIsNoText DEF TargetsInv, TypeOK
  <1>3. ASSUME NEW f \in Files, f # t PROVE FileInv(f)'
    BY <1>1, <1>3 DEF EmptyBackup, WriteBackup, EmptyFile, WriteFile, TargetsInv,
                      TypeOK, FileInv, Kept, InFile, InBackup, InHand, On, Target,
                      LastText, Holds
  <1>4. CASE EmptyBackup
    <2>1. TypeOK'
      <3>1. backup' \in [Files -> (SUBSET Pieces) \cup {NoFile}]
        BY <1>1, <1>2, <1>4 DEF EmptyBackup, TargetsInv, TypeOK
      <3>2. backedUp' \in [Files -> 0 .. 2]
        BY <1>1, <1>4 DEF EmptyBackup, TargetsInv, TypeOK
      <3>3. QED
        BY <1>1, <1>4, <3>1, <3>2 DEF EmptyBackup, Places, TargetsInv, TypeOK
    <2>2. FileInv(t)'
      BY <1>1, <1>2, <1>4
      DEF EmptyBackup, TargetsInv, TypeOK, FileInv, Kept, InFile, InBackup, InHand, On,
          Target, LastText, Holds
    <2>3. QED
      BY <1>3, <2>1, <2>2 DEF TargetsInv
  <1>5. CASE WriteBackup
    <2>1. TypeOK'
      BY <1>1, <1>2, <1>5 DEF WriteBackup, Places, TargetsInv, TypeOK, Target
    <2>2. FileInv(t)'
      BY <1>1, <1>2, <1>5
      DEF WriteBackup, TargetsInv, TypeOK, FileInv, Kept, InFile, InBackup, InHand, On,
          Target, LastText, Holds
    <2>3. QED
      BY <1>3, <2>1, <2>2 DEF TargetsInv
  <1>6. CASE EmptyFile
    <2>1. TypeOK'
      BY <1>1, <1>2, <1>6 DEF EmptyFile, Places, TargetsInv, TypeOK, Target
    <2>2. FileInv(t)'
      BY <1>1, <1>2, <1>6
      DEF EmptyFile, TargetsInv, TypeOK, FileInv, Kept, InFile, InBackup, InHand, On,
          Target, LastText, Holds
    <2>3. QED
      BY <1>3, <2>1, <2>2 DEF TargetsInv
  <1>7. CASE WriteFile
    <2>1. TypeOK'
      BY <1>1, <1>2, <1>7 DEF WriteFile, Places, TargetsInv, TypeOK, Target
    <2>2. FileInv(t)'
      BY <1>1, <1>2, <1>7
      DEF WriteFile, TargetsInv, TypeOK, FileInv, Kept, InFile, InBackup, InHand, On,
          Target, LastText, Holds
    <2>3. QED
      BY <1>3, <2>1, <2>2 DEF TargetsInv
  <1>8. QED
    BY <1>4, <1>5, <1>6, <1>7

\* A process that dies leaves the file or its backup, unless it was appending.
LEMMA DieKeeps == ASSUME TargetsInv, Die PROVE TargetsInv'
  <1>1. TypeOK'
    BY DEF Die, Idle, TargetsInv, TypeOK, Places, Modes, Target
  <1>2. ASSUME NEW f \in Files PROVE FileInv(f)'
    BY <1>2 DEF Die, Idle, TargetsInv, TypeOK, Modes, FileInv, Kept, InFile,
                InBackup, InHand, On, Target, LastText, Holds
  <1>3. QED
    BY <1>1, <1>2 DEF TargetsInv

\* What the user last wrote survives installs, crashes and repeated installs,
\* for any number of files, edits and targets, with the two exceptions named.
THEOREM UserTextIsKept == Spec => []UserTextSurvives
  <1>1. Init => TargetsInv
    <2> SUFFICES ASSUME Init PROVE TargetsInv
      OBVIOUS
    <2>1. TypeOK
      <3>1. /\ install \in [at : Places, mode : Modes, targets : Seq(Files),
                              text : SUBSET Pieces]
            /\ install.at = "idle"
        BY DEF Init, Idle, Places, Modes
      <3>2. 0 \in 0 .. MaxEdits /\ 0 \in 0 .. 2
        BY BoundsAreNat
      <3>3. QED
        BY <3>1, <3>2 DEF Init, TypeOK
    <2>2. ASSUME NEW f \in Files PROVE FileInv(f)
      BY DEF Init, FileInv
    <2>3. QED
      BY <2>1, <2>2 DEF TargetsInv
  <1>2. TargetsInv /\ [Next]_vars => TargetsInv'
    BY EditKeeps, QuietStepKeeps, ApplyKeeps, WriteKeeps, DieKeeps
    DEF Next, InstallStep
  <1>3. TargetsInv => UserTextSurvives
    <2> SUFFICES ASSUME TargetsInv, NEW f \in Files, edits[f] > 0,
                        ~(backedUp[f] > 1), ~torn[f]
                 PROVE  \/ Holds(file[f], User(edits[f]))
                        \/ Holds(backup[f], User(edits[f]))
                        \/ /\ install.at = "write" /\ Target = f
                           /\ User(edits[f]) \in install.text
      BY Zenon DEF UserTextSurvives
    <2>1. Kept(f)
      <3>1. backedUp[f] \in 0 .. 2 /\ FileInv(f)
        BY DEF TargetsInv, TypeOK
      <3>2. backedUp[f] <= 1
        BY <3>1
      <3>3. QED
        BY <3>1, <3>2, Zenon DEF FileInv
    <2>2. QED
      BY <2>1 DEF Kept, InFile, InBackup, InHand, On, LastText
  <1>4. QED
    BY <1>1, <1>2, <1>3, PTL DEF Spec

----------------------------------------------------------------------------
(* PatchedClients.                                                          *)

\* The stack's first n wrappers show a codagent wrapper.
ShowsAt(s, n) ==
    \E j \in 1 .. n : s[j] = "codagent" /\ \A m \in j + 1 .. n : s[m] = "copying"

\* However far the stack is undone, each codagent wrapper is seen by wrap,
\* directly or as a later one, or an opaque wrapper covers it.
SeenOrCovered(s) ==
    \A n \in 0 .. Len(s) : \A i \in 1 .. n :
        s[i] = "codagent" => ShowsAt(s, n) \/ \E k \in i + 1 .. n : s[k] = "opaque"

OnceIn(s) ==
    \A i, j \in DOMAIN s :
        i < j /\ s[i] = "codagent" /\ s[j] = "codagent" =>
            \E k \in DOMAIN s : i < k /\ k < j /\ s[k] = "opaque"

ClientInv ==
    /\ ClientTypeOK
    /\ \A c \in Clients : SeenOrCovered(create[c]) /\ OnceIn(create[c])

\* One more wrapper keeps both facts, a codagent wrapper only where none shows.
LEMMA AppendKeeps ==
    ASSUME NEW s \in Seq(Wrappers), SeenOrCovered(s), OnceIn(s),
           NEW w \in Wrappers, w = "codagent" => Shown(s) = {}
    PROVE  SeenOrCovered(Append(s, w)) /\ OnceIn(Append(s, w))
  <1> DEFINE t == Append(s, w)
             N == Len(s)
  <1>1. /\ N \in Nat /\ Len(t) = N + 1
        /\ \A i \in 1 .. N : t[i] = s[i]
        /\ t[N + 1] = w
        /\ DOMAIN s = 1 .. N /\ DOMAIN t = 1 .. N + 1
    OBVIOUS
  <1> HIDE DEF t, N
  <1>2. w \in {"codagent", "opaque", "copying"}
    BY DEF Wrappers, Foreign
  <1>3. ASSUME NEW n \in 0 .. N + 1, NEW i \in 1 .. n, t[i] = "codagent"
        PROVE  ShowsAt(t, n) \/ \E k \in i + 1 .. n : t[k] = "opaque"
    <2>1. CASE n <= N
      <3>1. ShowsAt(s, n) \/ \E k \in i + 1 .. n : s[k] = "opaque"
        BY <1>1, <1>3, <2>1 DEF SeenOrCovered, N
      <3>2. QED
        BY <1>1, <2>1, <3>1 DEF ShowsAt
    <2>2. CASE n = N + 1 /\ w = "codagent"
      BY <1>1, <2>2 DEF ShowsAt
    <2>3. CASE n = N + 1 /\ w = "opaque"
      BY <1>1, <1>3, <2>3
    <2>4. CASE n = N + 1 /\ w = "copying"
      <3>1. i \in 1 .. N /\ s[i] = "codagent"
        BY <1>1, <1>3, <2>4
      <3>2. ShowsAt(s, N) \/ \E k \in i + 1 .. N : s[k] = "opaque"
        BY <1>1, <3>1 DEF SeenOrCovered, N
      <3>3. QED
        BY <1>1, <2>4, <3>2 DEF ShowsAt
    <2>5. QED
      BY <1>1, <1>2, <2>1, <2>2, <2>3, <2>4
  <1>4. ASSUME NEW i \in 1 .. N + 1, NEW j \in 1 .. N + 1, i < j,
               t[i] = "codagent", t[j] = "codagent"
        PROVE  \E k \in 1 .. N + 1 : i < k /\ k < j /\ t[k] = "opaque"
    <2>1. CASE j <= N
      <3>1. \E k \in 1 .. N : i < k /\ k < j /\ s[k] = "opaque"
        BY <1>1, <1>4, <2>1 DEF OnceIn
      <3>2. QED
        BY <1>1, <3>1
    <2>2. CASE j = N + 1
      <3>1. i \in 1 .. N /\ s[i] = "codagent" /\ w = "codagent"
        BY <1>1, <1>4, <2>2
      <3>2. ~ShowsAt(s, N)
        BY <1>1, <3>1 DEF ShowsAt, Shown
      <3>3. \E k \in i + 1 .. N : s[k] = "opaque"
        BY <1>1, <3>1, <3>2 DEF SeenOrCovered, N
      <3>4. QED
        BY <1>1, <2>2, <3>3
    <2>3. QED
      BY <1>1, <2>1, <2>2
  <1>5. QED
    BY <1>1, <1>3, <1>4 DEF SeenOrCovered, OnceIn, t

\* Undoing wrappers keeps both.
LEMMA PrefixKeeps ==
    ASSUME NEW s \in Seq(Wrappers), SeenOrCovered(s), OnceIn(s),
           NEW i \in DOMAIN s
    PROVE  /\ SeenOrCovered(SubSeq(s, 1, i - 1)) /\ OnceIn(SubSeq(s, 1, i - 1))
           /\ SubSeq(s, 1, i - 1) \in Seq(Wrappers)
  <1> DEFINE t == SubSeq(s, 1, i - 1)
             N == Len(s)
  <1>1. /\ N \in Nat /\ i \in 1 .. N /\ Len(t) = i - 1
        /\ \A j \in 1 .. i - 1 : t[j] = s[j]
        /\ DOMAIN s = 1 .. N /\ DOMAIN t = 1 .. i - 1
        /\ t \in Seq(Wrappers)
    OBVIOUS
  <1> HIDE DEF t, N
  <1>2. ASSUME NEW n \in 0 .. i - 1, NEW j \in 1 .. n, t[j] = "codagent"
        PROVE  ShowsAt(t, n) \/ \E k \in j + 1 .. n : t[k] = "opaque"
    <2>1. ShowsAt(s, n) \/ \E k \in j + 1 .. n : s[k] = "opaque"
      BY <1>1, <1>2 DEF SeenOrCovered, N
    <2>2. QED
      BY <1>1, <2>1 DEF ShowsAt
  <1>3. ASSUME NEW j \in 1 .. i - 1, NEW l \in 1 .. i - 1, j < l,
               t[j] = "codagent", t[l] = "codagent"
        PROVE  \E k \in 1 .. i - 1 : j < k /\ k < l /\ t[k] = "opaque"
    <2>1. \E k \in 1 .. N : j < k /\ k < l /\ s[k] = "opaque"
      BY <1>1, <1>3 DEF OnceIn
    <2>2. QED
      BY <1>1, <2>1
  <1>4. SeenOrCovered(t)
    BY <1>1, <1>2 DEF SeenOrCovered
  <1>5. OnceIn(t)
    BY <1>1, <1>3 DEF OnceIn
  <1>6. QED
    BY <1>1, <1>4, <1>5 DEF t

\* So does any wrap of a client, by codagent only where its wrapper does not show.
LEMMA PutKeeps ==
    ASSUME ClientInv, NEW c \in Clients, NEW w \in Wrappers, Put(c, w),
           w = "codagent" => Shown(create[c]) = {}
    PROVE  ClientInv'
  <1>1. create[c] \in Seq(Wrappers)
    BY DEF ClientInv, ClientTypeOK
  <1>2. /\ SeenOrCovered(Append(create[c], w)) /\ OnceIn(Append(create[c], w))
        /\ Append(create[c], w) \in Seq(Wrappers)
    BY <1>1, AppendKeeps DEF ClientInv
  <1>3. create' = [create EXCEPT ![c] = Append(create[c], w)]
    BY DEF Put
  <1>4. QED
    BY <1>2, <1>3 DEF ClientInv, ClientTypeOK

\* And any unwrap.
LEMMA PutBackKeeps ==
    ASSUME ClientInv, NEW c \in Clients, NEW i \in DOMAIN create[c], PutBack(c, i)
    PROVE  ClientInv'
  <1>1. create[c] \in Seq(Wrappers)
    BY DEF ClientInv, ClientTypeOK
  <1>2. /\ SeenOrCovered(SubSeq(create[c], 1, i - 1))
        /\ OnceIn(SubSeq(create[c], 1, i - 1))
        /\ SubSeq(create[c], 1, i - 1) \in Seq(Wrappers)
    BY <1>1, PrefixKeeps DEF ClientInv
  <1>3. create' = [create EXCEPT ![c] = SubSeq(create[c], 1, i - 1)]
    BY DEF PutBack
  <1>4. QED
    BY <1>2, <1>3 DEF ClientInv, ClientTypeOK

\* A client is not wrapped twice by codagent, whatever was wrapped and undone in
\* between, except through an opaque wrapper.
THEOREM WrappedOnce == ClientSpec => []AddendumOnce
  <1>1. ClientInit => ClientInv
    BY DEF ClientInit, ClientInv, ClientTypeOK, SeenOrCovered, OnceIn
  <1>2. ClientInv /\ [ClientNext]_create => ClientInv'
    <2> SUFFICES ASSUME ClientInv, [ClientNext]_create PROVE ClientInv'
      OBVIOUS
    <2>1. ASSUME NEW c \in Clients, Wrap(c) PROVE ClientInv'
      BY <2>1, PutKeeps DEF Wrap, Wrappers
    <2>2. ASSUME NEW c \in Clients, Unwrap(c) PROVE ClientInv'
      BY <2>2, PutBackKeeps DEF Unwrap, Shown
    <2>3. ASSUME NEW c \in Clients, ForeignWrap(c) PROVE ClientInv'
      BY <2>3, PutKeeps DEF ForeignWrap, Wrappers, Foreign
    <2>4. ASSUME NEW c \in Clients, ForeignUnwrap(c) PROVE ClientInv'
      BY <2>4, PutBackKeeps DEF ForeignUnwrap
    <2>5. CASE UNCHANGED create
      BY <2>5 DEF ClientInv, ClientTypeOK
    <2>6. QED
      BY <2>1, <2>2, <2>3, <2>4, <2>5 DEF ClientNext
  <1>3. ClientInv => AddendumOnce
    BY DEF ClientInv, OnceIn, AddendumOnce
  <1>4. QED
    BY <1>1, <1>2, <1>3, PTL DEF ClientSpec

----------------------------------------------------------------------------
(* Runs that share a harness.                                               *)

RunState ==
    [phase : {"new", "reading", "ready", "asked", "answered", "validated"},
     copy : Nat, sent : Nat, asks : Nat, answer : Answers \cup {{}},
     retrieved : BOOLEAN, judgedBy : Runs \cup {None}, allOk : BOOLEAN, passed : BOOLEAN]

RunsTypeOK ==
    /\ contracts \in Stacks /\ provider \in BOOLEAN /\ use \in Uses
    /\ context \in Runs \cup {None}
    /\ held \in [Runs \cup {None} -> [now : Nat, made : Nat]]
    /\ run \in [Runs -> RunState]

\* Messages m hold no more than was written into them and, once something was,
\* never nothing; those of one run hold all of it.
HeldOK(m) ==
    /\ held[m].now <= held[m].made
    /\ held[m].made > 0 => held[m].now > 0
    /\ Added = 0 \/ ~InPlace => held[m].made = 0
    /\ ~use.shared => held[m].now = held[m].made

\* What run r read was written, and what it will send has the addendum.
CopyOK(r) ==
    /\ run[r].phase = "reading" =>
           /\ run[r].copy <= held[Messages(r)].made
           /\ ~use.shared => run[r].copy = held[Messages(r)].now
    /\ run[r].phase \in {"ready", "asked", "answered", "validated"} =>
           /\ ~InPlace => run[r].copy = Added
           /\ InPlace /\ Added = 1 => held[Messages(r)].made > 0
    /\ run[r].asks > 0 => SentMatches(r)

HarnessInv ==
    /\ RunsTypeOK /\ PassMeansAllOk
    /\ \A m \in Runs \cup {None} : HeldOK(m)
    /\ \A r \in Runs : CopyOK(r)

\* A set of indices with a member has a last one.
LEMMA LastIndex ==
    ASSUME NEW n \in Nat, NEW S \in SUBSET (1 .. n), S # {}
    PROVE  Max(S) \in S
  <1> DEFINE T == {n - i : i \in S}
             R == OpToRel(<, Nat)
  <1>1. T \subseteq Nat /\ T # {}
    <2>1. ASSUME NEW i \in S PROVE n - i \in Nat
      <3>1. i \in 1 .. n
        OBVIOUS
      <3>2. QED
        BY <3>1
    <2>2. QED
      BY <2>1
  <1>2. PICK t \in T : \A u \in T : <<u, t>> \notin R
    <2>1. IsWellFoundedOn(R, Nat)
      BY NatLessThanWellFounded
    <2> HIDE DEF T, R
    <2>2. QED
      BY <1>1, <2>1, WFMin
  <1>3. PICK m \in S : t = n - m
    OBVIOUS
  <1>4. \A i \in S : i <= m
    <2>1. SUFFICES ASSUME NEW i \in S, i > m PROVE FALSE
      OBVIOUS
    <2>2. n - i \in T /\ n - i < t /\ n - i \in Nat /\ t \in Nat
      BY <1>3, <2>1
    <2>3. QED
      BY <1>2, <2>2 DEF OpToRel
  <1>5. QED
    BY <1>4 DEF Max

\* A result is that of a contract of its name.
LEMMA ResultsAreNamed ==
    ASSUME contracts \in Stacks, NEW n \in Names
    PROVE  LastNamed(n) \in 1 .. Len(contracts) /\ contracts[LastNamed(n)].name = n
  <1> DEFINE S == {i \in 1 .. Len(contracts) : contracts[i].name = n}
  <1>1. Len(contracts) \in Nat
    BY StacksAreContracts
  <1>2. S \in SUBSET (1 .. Len(contracts)) /\ S # {}
    BY DEF Names
  <1>3. Max(S) \in S
    <2> HIDE DEF S
    <2>1. QED
      BY <1>1, <1>2, LastIndex
  <1>4. QED
    BY <1>3 DEF LastNamed

\* With as many names as contracts, each name is that of one contract.
LEMMA DistinctNames ==
    ASSUME contracts \in Stacks, Distinct, NEW i \in 1 .. Len(contracts)
    PROVE  LastNamed(contracts[i].name) = i
  <1> DEFINE name == [j \in 1 .. Len(contracts) |-> contracts[j].name]
  <1>1. Len(contracts) \in Nat
    BY StacksAreContracts
  <1>2. name \in Surjection(1 .. Len(contracts), Names)
    BY DEF Surjection, Names
  <1>3. /\ IsFiniteSet(1 .. Len(contracts))
        /\ Cardinality(1 .. Len(contracts)) = Len(contracts)
    <2>1. /\ IsFiniteSet(1 .. Len(contracts))
          /\ Cardinality(1 .. Len(contracts))
               = IF 1 > Len(contracts) THEN 0 ELSE Len(contracts) - 1 + 1
      BY <1>1, FS_Interval
    <2>2. QED
      BY <1>1, <2>1
  <1>4. name \in Injection(1 .. Len(contracts), Names)
    <2> HIDE DEF name
    <2>1. Cardinality(Names) = Cardinality(1 .. Len(contracts))
      BY <1>3 DEF Distinct
    <2>2. QED
      BY <1>2, <1>3, <2>1, FS_Surjection
  <1>5. contracts[i].name \in Names
    BY DEF Names
  <1>6. name[LastNamed(contracts[i].name)] = name[i]
    BY <1>5, ResultsAreNamed
  <1>7. QED
    <2>1. LastNamed(contracts[i].name) \in 1 .. Len(contracts)
      BY <1>5, ResultsAreNamed
    <2>2. \A j, k \in 1 .. Len(contracts) : name[j] = name[k] => j = k
      BY <1>4 DEF Injection, IsInjective
    <2> HIDE DEF name
    <2>3. QED
      BY <1>6, <2>1, <2>2

\* all_ok hides no violation, and is missing none if the names are distinct.
LEMMA VerdictsAgree ==
    ASSUME contracts \in Stacks, NEW oks \in [1 .. Len(contracts) -> BOOLEAN]
    PROVE  /\ Results(oks)["all_ok"] \in BOOLEAN
           /\ Results(oks)["all_ok"] => Violations(Results(oks)) = {}
           /\ Distinct => (Violations(Results(oks)) = {} <=> Results(oks)["all_ok"])
  <1>1. Len(oks) = Len(contracts) /\ Results(oks)["all_ok"] = AllOk(oks)
    <2>1. Len(contracts) \in Nat
      BY StacksAreContracts
    <2>2. QED
      BY <2>1 DEF Results
  <1>2. AllOk(oks) \in BOOLEAN
    BY DEF AllOk
  <1>3. \A n \in Names \ {"all_ok"} : Results(oks)[n] = oks[LastNamed(n)]
    BY DEF Results
  <1>4. Violations(Results(oks)) = {n \in Names \ {"all_ok"} : ~Results(oks)[n]}
    BY DEF Results, Violations
  <1>5. ASSUME AllOk(oks) PROVE Violations(Results(oks)) = {}
    BY <1>1, <1>3, <1>4, <1>5, ResultsAreNamed DEF AllOk
  <1>6. ASSUME Distinct, Violations(Results(oks)) = {} PROVE AllOk(oks)
    <2>1. SUFFICES ASSUME NEW i \in 1 .. Len(contracts) PROVE oks[i]
      BY <1>1 DEF AllOk
    <2>2. contracts[i].name \in Names \ {"all_ok"}
      BY <1>6 DEF Names, Distinct
    <2>3. oks[LastNamed(contracts[i].name)]
      BY <1>3, <1>4, <1>6, <2>2
    <2>4. QED
      BY <1>6, <2>3, DistinctNames
  <1>7. QED
    BY <1>1, <1>2, <1>5, <1>6

\* The use of the harness, which never changes.
LEMMA TheUse ==
    ASSUME use \in Uses
    PROVE  /\ use.via \in DOMAIN Injecting /\ use.shared \in BOOLEAN
           /\ Added \in {0, 1}
           /\ ~HasRules => Added = 0
           /\ HasRules /\ use.form = "usual" /\ use.via # "dspy" => Added = 1
           /\ \A r \in Runs : Messages(r) \in Runs \cup {None}
           /\ ~use.shared => \A r \in Runs : Messages(r) = r
  <1>1. use.via \in DOMAIN Injecting /\ use.shared \in BOOLEAN
    BY DEF Uses
  <1>2. use.form = "usual" /\ use.via # "dspy" => use.form \in Injecting[use.via]
    BY <1>1
    DEF Injecting, WrapMessages, HarnessRunnable, LangChainCallback, LlamaIndexCallback,
        AssumptionNode, PydanticAIPrompt, CrewAIAgent, AutoGenAgent
  <1>3. QED
    BY <1>1, <1>2 DEF Added, Messages

\* The operators that read nothing but the contracts and the use.
LEMMA UseStays ==
    ASSUME UNCHANGED <<contracts, use>>
    PROVE  /\ Added' = Added /\ InPlace' = InPlace /\ HasRules' = HasRules
           /\ \A r : Messages(r)' = Messages(r)
           /\ Distinct' = Distinct
  BY DEF Added, InPlace, HasRules, Messages, Distinct, Names

\* Nothing has been written, asked or judged at first.
LEMMA InitHarnessInv == HarnessInit => HarnessInv
  <1> SUFFICES ASSUME HarnessInit PROVE HarnessInv
    OBVIOUS
  <1>1. New \in RunState
    BY DEF New, RunState
  <1>2. RunsTypeOK
    BY <1>1 DEF HarnessInit, RunsTypeOK
  <1>3. ASSUME NEW r \in Runs PROVE run[r].phase = "new" /\ run[r].asks = 0
    BY DEF HarnessInit, New
  <1>4. ASSUME NEW m \in Runs \cup {None} PROVE HeldOK(m)
    BY DEF HarnessInit, HeldOK
  <1>5. QED
    BY <1>2, <1>3, <1>4 DEF HarnessInv, PassMeansAllOk, CopyOK

\* A run is not disturbed by what others write: shared messages only gain.
LEMMA OthersKeep ==
    ASSUME HarnessInv, UNCHANGED <<contracts, use>>, NEW q \in Runs, run'[q] = run[q],
           held'[Messages(q)].made \in Nat,
           held'[Messages(q)].made >= held[Messages(q)].made,
           ~use.shared => held'[Messages(q)] = held[Messages(q)]
    PROVE  CopyOK(q)'
  <1>1. use \in Uses /\ CopyOK(q) /\ run[q] \in RunState
        /\ held \in [Runs \cup {None} -> [now : Nat, made : Nat]]
    BY DEF HarnessInv, RunsTypeOK
  <1>2. Messages(q) \in Runs \cup {None} /\ use.shared \in BOOLEAN
    BY <1>1, TheUse
  <1>3. held[Messages(q)].made \in Nat /\ run[q].copy \in Nat /\ run[q].sent \in Nat
    BY <1>1, <1>2 DEF RunState
  <1>4. Messages(q)' = Messages(q) /\ held'[Messages(q)'] = held'[Messages(q)]
    BY UseStays
  <1>5. ASSUME SentMatches(q) PROVE SentMatches(q)'
    BY <1>2, <1>3, <1>4, <1>5, UseStays DEF SentMatches
  <1>6. QED
    BY <1>1, <1>2, <1>3, <1>4, <1>5, UseStays DEF CopyOK

\* A step of run r that leaves the messages as they are, or writes its own.
LEMMA HarnessStepKeeps ==
    ASSUME HarnessInv, NEW r \in Runs, UNCHANGED <<contracts, provider, use>>,
           context' \in Runs \cup {None},
           run'[r] \in RunState, run' = [run EXCEPT ![r] = run'[r]],
           held'[Messages(r)] \in [now : Nat, made : Nat],
           held'[Messages(r)].made >= held[Messages(r)].made,
           held' = [held EXCEPT ![Messages(r)] = held'[Messages(r)]],
           HeldOK(Messages(r))', CopyOK(r)',
           run'[r].phase = "validated" =>
               /\ run'[r].allOk => run'[r].passed
               /\ Distinct => (run'[r].passed <=> run'[r].allOk)
    PROVE  HarnessInv'
  <1>1. /\ use \in Uses /\ run \in [Runs -> RunState]
        /\ held \in [Runs \cup {None} -> [now : Nat, made : Nat]]
    BY DEF HarnessInv, RunsTypeOK
  <1>2. Messages(r) \in Runs \cup {None}
    BY <1>1, TheUse
  <1>3. RunsTypeOK'
    BY <1>1, <1>2 DEF HarnessInv, RunsTypeOK
  <1>4. PassMeansAllOk'
    BY <1>1, UseStays DEF HarnessInv, PassMeansAllOk
  <1>5. ASSUME NEW m \in Runs \cup {None} PROVE HeldOK(m)'
    <2>1. CASE m = Messages(r)
      <3>1. Messages(r)' = Messages(r)
        BY UseStays
      <3>2. QED
        BY <2>1, <3>1 DEF HeldOK
    <2>2. CASE m # Messages(r)
      <3>1. held'[m] = held[m] /\ HeldOK(m)
        BY <1>1, <1>2, <2>2 DEF HarnessInv
      <3>2. QED
        BY <3>1, UseStays DEF HeldOK
    <2>3. QED
      BY <2>1, <2>2
  <1>6. ASSUME NEW q \in Runs PROVE CopyOK(q)'
    <2>1. CASE q # r
      <3>1. run'[q] = run[q] /\ Messages(q) \in Runs \cup {None}
        BY <1>1, <2>1, TheUse
      <3>2. ~use.shared => Messages(q) # Messages(r)
        BY <1>1, <2>1, TheUse
      <3>3. /\ held'[Messages(q)].made \in Nat
            /\ held'[Messages(q)].made >= held[Messages(q)].made
            /\ ~use.shared => held'[Messages(q)] = held[Messages(q)]
        <4>1. CASE Messages(q) = Messages(r)
          <5>1. held'[Messages(q)] = held'[Messages(r)]
            BY <4>1
          <5>2. held'[Messages(q)].made \in Nat
            BY <5>1
          <5>3. QED
            BY <3>2, <4>1, <5>1, <5>2
        <4>2. CASE Messages(q) # Messages(r)
          <5>1. held'[Messages(q)] = held[Messages(q)]
            BY <1>1, <1>2, <3>1, <4>2
          <5>2. held[Messages(q)].made \in Nat
            BY <1>1, <3>1
          <5>3. QED
            BY <5>1, <5>2
        <4>3. QED
          BY <4>1, <4>2
      <3>4. QED
        BY <3>1, <3>3, OthersKeep
    <2>2. QED
      BY <2>1
  <1>7. QED
    BY <1>3, <1>4, <1>5, <1>6 DEF HarnessInv

\* What the lemmas of the steps need of run r and of its messages.
LEMMA TheRun ==
    ASSUME HarnessInv, NEW r \in Runs
    PROVE  /\ use \in Uses /\ run \in [Runs -> RunState] /\ run[r] \in RunState
           /\ held \in [Runs \cup {None} -> [now : Nat, made : Nat]]
           /\ Messages(r) \in Runs \cup {None}
           /\ held[Messages(r)] \in [now : Nat, made : Nat]
           /\ held[Messages(r)].now \in Nat /\ held[Messages(r)].made \in Nat
           /\ HeldOK(Messages(r)) /\ CopyOK(r)
           /\ run[r].copy \in Nat /\ run[r].sent \in Nat /\ run[r].asks \in Nat
  <1>1. /\ use \in Uses /\ run \in [Runs -> RunState]
        /\ held \in [Runs \cup {None} -> [now : Nat, made : Nat]]
    BY DEF HarnessInv, RunsTypeOK
  <1>2. Messages(r) \in Runs \cup {None}
    BY <1>1, TheUse
  <1>3. run[r] \in RunState /\ held[Messages(r)] \in [now : Nat, made : Nat]
    BY <1>1, <1>2
  <1>4. run[r].copy \in Nat /\ run[r].sent \in Nat /\ run[r].asks \in Nat
    BY <1>3 DEF RunState
  <1>5. HeldOK(Messages(r)) /\ CopyOK(r)
    BY <1>2 DEF HarnessInv
  <1>6. QED
    BY <1>1, <1>2, <1>3, <1>4, <1>5

\* The messages that r holds may only gain, and are the only ones to change.
StaysHeld(r) ==
    /\ held'[Messages(r)] \in [now : Nat, made : Nat]
    /\ held'[Messages(r)].made >= held[Messages(r)].made
    /\ held' = [held EXCEPT ![Messages(r)] = held'[Messages(r)]]

LEMMA QuietHeld ==
    ASSUME HarnessInv, NEW r \in Runs, held' = held PROVE StaysHeld(r)
  BY TheRun DEF StaysHeld

\* A run whose messages, copy and requests stay as they are keeps its facts.
LEMMA QuietCopy ==
    ASSUME HarnessInv, NEW r \in Runs, UNCHANGED <<contracts, use, held>>,
           run'[r].copy = run[r].copy, run'[r].sent = run[r].sent,
           run'[r].asks = run[r].asks,
           \/ run'[r].phase = run[r].phase
           \/ run[r].phase = "answered" /\ run'[r].phase = "validated"
    PROVE  CopyOK(r)' /\ HeldOK(Messages(r))'
  <1>1. CopyOK(r) /\ HeldOK(Messages(r)) /\ Messages(r)' = Messages(r)
    BY TheRun, UseStays
  <1>2. SentMatches(r) => SentMatches(r)'
    BY <1>1, UseStays DEF SentMatches
  <1>3. QED
    BY <1>1, <1>2, UseStays DEF CopyOK, HeldOK

LEMMA RetrieveKeeps == ASSUME HarnessInv, NEW r \in Runs, Retrieve(r) PROVE HarnessInv'
  <1>1. run[r] \in RunState /\ run \in [Runs -> RunState]
    BY TheRun
  <1>2. run' = [run EXCEPT ![r] = run'[r]] /\ run'[r] =
            [phase |-> run[r].phase, copy |-> run[r].copy, sent |-> run[r].sent,
             asks |-> run[r].asks, answer |-> run[r].answer,
             retrieved |-> (context' = r), judgedBy |-> run[r].judgedBy,
             allOk |-> run[r].allOk, passed |-> run[r].passed]
    BY <1>1 DEF Retrieve, RunState
  <1>3. run'[r] \in RunState
    BY <1>1, <1>2 DEF RunState
  <1>4. CopyOK(r)' /\ HeldOK(Messages(r))'
    BY <1>2, QuietCopy DEF Retrieve
  <1>5. run'[r].phase # "validated"
    BY <1>2 DEF Retrieve
  <1>6. /\ UNCHANGED <<contracts, provider, use>> /\ held' = held
        /\ context' \in Runs \cup {None}
    BY DEF Retrieve
  <1>7. StaysHeld(r)
    BY <1>6, QuietHeld
  <1>8. QED
    BY <1>2, <1>3, <1>4, <1>5, <1>6, <1>7, HarnessStepKeeps DEF StaysHeld

\* What is read was written.
LEMMA PrepareKeeps == ASSUME HarnessInv, NEW r \in Runs, Prepare(r) PROVE HarnessInv'
  <1> DEFINE m == held[Messages(r)]
  <1>1. run[r] \in RunState /\ run \in [Runs -> RunState] /\ m.now \in Nat
    BY TheRun
  <1>2. run' = [run EXCEPT ![r] = run'[r]] /\ run'[r] =
            [phase |-> "reading", copy |-> m.now, sent |-> run[r].sent,
             asks |-> run[r].asks, answer |-> run[r].answer,
             retrieved |-> run[r].retrieved, judgedBy |-> run[r].judgedBy,
             allOk |-> run[r].allOk, passed |-> run[r].passed]
    BY <1>1 DEF Prepare, RunState
  <1>3. run'[r] \in RunState
    BY <1>1, <1>2 DEF RunState
  <1>4. /\ UNCHANGED <<contracts, provider, use, context>> /\ held' = held
        /\ run[r].phase \in {"new", "asked", "validated"}
    BY DEF Prepare
  <1>5. Messages(r)' = Messages(r) /\ held'[Messages(r)'] = m
    BY <1>4, UseStays
  <1>6. HeldOK(Messages(r))'
    BY <1>4, <1>5, TheRun, UseStays DEF HeldOK
  <1>7. run[r].asks > 0 => SentMatches(r)'
    BY <1>2, <1>4, <1>5, TheRun, UseStays DEF CopyOK, SentMatches
  <1>8. CopyOK(r)'
    BY <1>2, <1>5, <1>7, TheRun, UseStays DEF CopyOK, HeldOK
  <1>9. StaysHeld(r) /\ context' \in Runs \cup {None}
    BY <1>4, QuietHeld DEF HarnessInv, RunsTypeOK
  <1>10. run'[r].phase # "validated"
    BY <1>2
  <1>11. QED
    BY <1>2, <1>3, <1>4, <1>6, <1>8, <1>9, <1>10, HarnessStepKeeps DEF StaysHeld

\* What is written has the addendum, also over what another run wrote.
LEMMA InjectKeeps == ASSUME HarnessInv, NEW r \in Runs, Inject(r) PROVE HarnessInv'
  <1> DEFINE m == held[Messages(r)]
             text == run[r].copy + Added
             new == IF InPlace THEN [now |-> text, made |-> m.made + Added] ELSE m
  <1>1. /\ run[r] \in RunState /\ run \in [Runs -> RunState] /\ use \in Uses
        /\ m.now \in Nat /\ m.made \in Nat /\ run[r].copy \in Nat
        /\ HeldOK(Messages(r)) /\ CopyOK(r) /\ m \in [now : Nat, made : Nat]
        /\ Messages(r) \in Runs \cup {None}
        /\ held \in [Runs \cup {None} -> [now : Nat, made : Nat]]
    BY TheRun
  <1>2. /\ Added \in {0, 1} /\ text \in Nat /\ use.shared \in BOOLEAN
    BY <1>1, TheUse
  <1>3. run' = [run EXCEPT ![r] = run'[r]] /\ run'[r] =
            [phase |-> "ready", copy |-> text, sent |-> run[r].sent,
             asks |-> run[r].asks, answer |-> run[r].answer,
             retrieved |-> run[r].retrieved, judgedBy |-> run[r].judgedBy,
             allOk |-> run[r].allOk, passed |-> run[r].passed]
    BY <1>1 DEF Inject, RunState
  <1>4. run'[r] \in RunState
    BY <1>1, <1>2, <1>3 DEF RunState
  <1>5. /\ UNCHANGED <<contracts, provider, use, context>>
        /\ run[r].phase = "reading"
        /\ held' = IF InPlace THEN Written(Messages(r), text) ELSE held
    BY DEF Inject
  <1>6. new \in [now : Nat, made : Nat] /\ new.made >= m.made
    BY <1>1, <1>2
  <1>7. held' = [held EXCEPT ![Messages(r)] = new]
    BY <1>1, <1>5 DEF Written
  <1>8. /\ Messages(r)' = Messages(r) /\ held'[Messages(r)] = new
        /\ held' = [held EXCEPT ![Messages(r)] = held'[Messages(r)]]
    BY <1>1, <1>5, <1>7, UseStays
  <1>9. /\ run[r].copy <= m.made
        /\ ~use.shared => run[r].copy = m.now /\ m.now = m.made
        /\ Added = 0 \/ ~InPlace => m.made = 0
        /\ m.now <= m.made
    BY <1>1, <1>5 DEF CopyOK, HeldOK
  <1>10. /\ new.now <= new.made
         /\ new.made > 0 => new.now > 0
         /\ Added = 0 \/ ~InPlace => new.made = 0
         /\ ~use.shared => new.now = new.made
         /\ InPlace /\ Added = 1 => new.made > 0
         /\ ~InPlace => text = Added
    BY <1>1, <1>2, <1>9
  <1> HIDE DEF new, text
  <1>11. HeldOK(Messages(r))'
    BY <1>5, <1>8, <1>10, UseStays DEF HeldOK
  <1>12. run[r].asks > 0 => SentMatches(r)'
    <2>1. run[r].asks > 0 => SentMatches(r)
      BY <1>1 DEF CopyOK
    <2>2. run'[r].phase = "ready" /\ run'[r].sent = run[r].sent
      BY <1>3
    <2>3. run[r].sent \in Nat /\ new.made \in Nat
      BY <1>1, <1>6 DEF RunState
    <2>4. QED
      BY <1>1, <1>5, <1>6, <1>8, <2>1, <2>2, <2>3, UseStays DEF SentMatches
  <1>13. CopyOK(r)'
    BY <1>3, <1>5, <1>8, <1>10, <1>12, UseStays DEF CopyOK
  <1>14. run'[r].phase # "validated" /\ context' \in Runs \cup {None}
    BY <1>3, <1>5 DEF HarnessInv, RunsTypeOK
  <1>15. QED
    BY <1>3, <1>4, <1>5, <1>6, <1>8, <1>11, <1>13, <1>14, HarnessStepKeeps

\* What is sent is the copy, or what the messages say by now.
LEMMA SendKeeps == ASSUME HarnessInv, NEW r \in Runs, Send(r) PROVE HarnessInv'
  <1> DEFINE m == held[Messages(r)]
             sent == IF InPlace THEN m.now ELSE run[r].copy
  <1>1. /\ run[r] \in RunState /\ run \in [Runs -> RunState] /\ use \in Uses
        /\ m.now \in Nat /\ m.made \in Nat /\ run[r].copy \in Nat
        /\ HeldOK(Messages(r)) /\ CopyOK(r)
    BY TheRun
  <1>2. Added \in {0, 1} /\ sent \in Nat /\ use.shared \in BOOLEAN
    BY <1>1, TheUse
  <1>3. PICK answer \in Answers \cup {None} :
            run' = [run EXCEPT ![r] = [run[r] EXCEPT
                !.phase = IF answer = None THEN "asked" ELSE "answered",
                !.answer = IF answer = None THEN {} ELSE answer,
                !.asks = run[r].asks + 1, !.sent = sent]]
    BY DEF Send
  <1> HIDE DEF sent
  <1>4. run' = [run EXCEPT ![r] = run'[r]] /\ run'[r] =
            [phase |-> IF answer = None THEN "asked" ELSE "answered",
             copy |-> run[r].copy, sent |-> sent, asks |-> run[r].asks + 1,
             answer |-> IF answer = None THEN {} ELSE answer,
             retrieved |-> run[r].retrieved, judgedBy |-> run[r].judgedBy,
             allOk |-> run[r].allOk, passed |-> run[r].passed]
    <2>1. run'[r] = [run[r] EXCEPT
              !.phase = IF answer = None THEN "asked" ELSE "answered",
              !.answer = IF answer = None THEN {} ELSE answer,
              !.asks = run[r].asks + 1, !.sent = sent]
      BY <1>1, <1>3
    <2>2. run' = [run EXCEPT ![r] = run'[r]]
      BY <1>1, <1>3
    <2>3. run[r] \in RunState
      BY <1>1
    <2>4. QED
      BY ONLY <2>1, <2>2, <2>3 DEF RunState
  <1>5. run'[r] \in RunState
    BY <1>1, <1>2, <1>4 DEF RunState
  <1>6. /\ UNCHANGED <<contracts, provider, use, context>> /\ held' = held
        /\ run[r].phase \in {"ready", "asked", "validated"}
    BY DEF Send
  <1>7. Messages(r)' = Messages(r) /\ held'[Messages(r)'] = m
    BY <1>6, UseStays
  <1>8. HeldOK(Messages(r))'
    BY <1>1, <1>6, <1>7, UseStays DEF HeldOK
  <1>9. /\ ~InPlace => run[r].copy = Added
        /\ InPlace /\ Added = 1 => m.made > 0
    BY <1>1, <1>6 DEF CopyOK
  <1>10. /\ HasRules /\ use.form = "usual" /\ use.via # "dspy" => sent >= 1
         /\ ~HasRules => sent = 0
         /\ sent <= IF InPlace THEN m.made ELSE 1
         /\ InPlace /\ ~use.shared => sent = m.made
    BY <1>1, <1>2, <1>9, TheUse DEF HeldOK, sent
  <1>11. SentMatches(r)'
    BY <1>4, <1>6, <1>7, <1>10, UseStays DEF SentMatches
  <1>12. CopyOK(r)'
    BY <1>4, <1>6, <1>7, <1>9, <1>11, UseStays DEF CopyOK
  <1>13. StaysHeld(r) /\ context' \in Runs \cup {None}
    BY <1>6, QuietHeld DEF HarnessInv, RunsTypeOK
  <1>14. run'[r].phase # "validated"
    BY <1>4
  <1>15. QED
    BY <1>4, <1>5, <1>6, <1>8, <1>12, <1>13, <1>14, HarnessStepKeeps DEF StaysHeld

\* The verdicts agree, whatever documents an answer is judged by.
LEMMA ValidateKeeps == ASSUME HarnessInv, NEW r \in Runs, Validate(r) PROVE HarnessInv'
  <1>1. PICK docs \in Documents : \E oks \in Verdicts(r, docs) : Judged(r, oks, docs)
    BY DEF Validate
  <1>2. PICK oks \in Verdicts(r, docs) : Judged(r, oks, docs)
    BY <1>1
  <1>3. oks \in [1 .. Len(contracts) -> BOOLEAN]
    BY DEF Verdicts
  <1>4. run[r] \in RunState /\ run \in [Runs -> RunState]
    BY TheRun
  <1> DEFINE allOk == Results(oks)["all_ok"]
             passed == Violations(Results(oks)) = {}
             judge == IF Judging THEN docs ELSE None
  <1>5. run' = [run EXCEPT ![r] = run'[r]] /\ run'[r] =
            [phase |-> "validated", copy |-> run[r].copy, sent |-> run[r].sent,
             asks |-> run[r].asks, answer |-> run[r].answer,
             retrieved |-> run[r].retrieved, judgedBy |-> judge,
             allOk |-> allOk, passed |-> passed]
    BY <1>2, <1>4 DEF RunState, Judged
  <1>6. /\ allOk \in BOOLEAN /\ passed \in BOOLEAN
        /\ allOk => passed
        /\ Distinct => (passed <=> allOk)
    BY <1>3, VerdictsAgree DEF HarnessInv, RunsTypeOK
  <1>7. judge \in Runs \cup {None}
    BY DEF HarnessInv, RunsTypeOK, Documents
  <1> HIDE DEF allOk, passed, judge
  <1>8. run'[r] \in RunState
    BY <1>4, <1>5, <1>6, <1>7 DEF RunState
  <1>9. /\ UNCHANGED <<contracts, provider, use, context>> /\ held' = held
        /\ run[r].phase = "answered"
    BY DEF Validate
  <1>10. CopyOK(r)' /\ HeldOK(Messages(r))'
    BY <1>5, <1>9, QuietCopy
  <1>11. StaysHeld(r) /\ context' \in Runs \cup {None}
    BY <1>9, QuietHeld DEF HarnessInv, RunsTypeOK
  <1>12. /\ run'[r].allOk => run'[r].passed
         /\ Distinct => (run'[r].passed <=> run'[r].allOk)
    BY <1>5, <1>6
  <1>13. QED
    BY <1>5, <1>8, <1>9, <1>10, <1>11, <1>12, HarnessStepKeeps DEF StaysHeld

\* For any runs, contracts, answers and integrations, the harness's invariant.
LEMMA HarnessInvHolds == HarnessSpec => []HarnessInv
  <1>1. HarnessInv /\ [HarnessNext]_harnessVars => HarnessInv'
    <2>1. SUFFICES ASSUME HarnessInv, [HarnessNext]_harnessVars PROVE HarnessInv'
      OBVIOUS
    <2>2. CASE UNCHANGED harnessVars
      <3>1. UNCHANGED <<contracts, provider, use, context, held, run>>
        BY <2>2 DEF harnessVars
      <3>2. RunsTypeOK' /\ PassMeansAllOk'
        BY <2>1, <3>1, UseStays DEF HarnessInv, RunsTypeOK, PassMeansAllOk
      <3>3. \A m \in Runs \cup {None} : HeldOK(m)'
        BY <2>1, <3>1, UseStays DEF HarnessInv, HeldOK
      <3>4. \A r \in Runs : CopyOK(r)'
        BY <2>1, <3>1, QuietCopy
      <3>5. QED
        BY <3>2, <3>3, <3>4 DEF HarnessInv
    <2>3. QED
      BY <2>1, <2>2, RetrieveKeeps, PrepareKeeps, InjectKeeps, SendKeeps, ValidateKeeps
      DEF HarnessNext
  <1>2. QED
    BY <1>1, InitHarnessInv, PTL DEF HarnessSpec

\* A run passes on the server exactly when all_ok says so to other callers, if
\* the contracts have distinct names, and all_ok never hides a violation.
THEOREM ServerAndCallerAgree == HarnessSpec => []PassMeansAllOk
  BY HarnessInvHolds, PTL DEF HarnessInv

\* Whatever threads write into one system message or agent, no request goes out
\* without the rules, and none with more of them than were written.
THEOREM RulesAreSent == HarnessSpec => []AddendaMatchInjections
  <1>1. HarnessInv => AddendaMatchInjections
    BY DEF HarnessInv, CopyOK, AddendaMatchInjections
  <1>2. QED
    BY <1>1, HarnessInvHolds, PTL
=============================================================================
