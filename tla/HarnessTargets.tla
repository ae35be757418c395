--------------------------- MODULE HarnessTargets ---------------------------
(***************************************************************************)
(* The files a harness is applied to, through `codagent install`            *)
(* (src/codagent/cli.py:73-92) or Harness.apply: CLAUDE.md, AGENTS.md, the  *)
(* Cursor and the Copilot rules all share src/codagent/harness/targets/     *)
(* _file_target.py.  The target that is a client is in PatchedClients.      *)
(*                                                                         *)
(* An install loads its sources before it touches a file, then writes one   *)
(* target after the other.  A write is two steps: open() empties the file,  *)
(* the text follows.  The process may die between any two steps and the     *)
(* install be run again.  Users edit their files while no install runs.     *)
(* The text of a file is the set of pieces in it: the user's, numbered, and *)
(* the rules that codagent renders.                                         *)
(***************************************************************************)
EXTENDS Naturals, Sequences

CONSTANTS Files,       \* the paths of the file targets
          NoFile,      \* no such file
          MaxEdits,    \* bound: texts the user writes in each file
          MaxTargets   \* bound: targets of an install

Modes == {"replace", "append"}

User(n) == <<"user", n>>
Rules == <<"codagent", 0>>
Pieces == {Rules} \cup {User(n) : n \in 1 .. MaxEdits}

ASSUME BoundsAreNat == MaxEdits \in Nat /\ MaxTargets \in Nat
ASSUME NoFileIsNoText == \A text \in SUBSET Pieces : text # NoFile

VARIABLES file,     \* the text of each path, or NoFile
          backup,   \* the text of each path's .bak, or NoFile
          edits,    \* how often the user wrote each file
          install,  \* the install that runs: where it is, its mode, the
                    \* targets left, the text to write
          backedUp, \* history: backups begun since the user last wrote the
                    \* file: 0, 1, or 2 for more
          torn      \* history: append mode died while it wrote the file

vars == <<file, backup, edits, install, backedUp, torn>>

Idle == [at |-> "idle", mode |-> "replace", targets |-> <<>>, text |-> {}]

Init ==
    /\ file = [f \in Files |-> NoFile]
    /\ backup = [f \in Files |-> NoFile]
    /\ edits = [f \in Files |-> 0]
    /\ install = Idle
    /\ backedUp = [f \in Files |-> 0]
    /\ torn = [f \in Files |-> FALSE]

Text(f) == IF file[f] = NoFile THEN {} ELSE file[f]

\* The user writes the file, or edits it around what codagent wrote.
Edit(f) ==
    /\ install.at = "idle"
    /\ edits[f] < MaxEdits
    /\ edits' = [edits EXCEPT ![f] = @ + 1]
    /\ \E kept \in {{}, Text(f) \cap {Rules}} :
          file' = [file EXCEPT ![f] = kept \cup {User(edits[f] + 1)}]
    /\ backedUp' = [backedUp EXCEPT ![f] = 0]
    /\ torn' = [torn EXCEPT ![f] = FALSE]
    /\ UNCHANGED <<backup, install>>

Start ==
    /\ install.at = "idle"
    /\ \E m \in Modes, n \in 1..MaxTargets : \E ts \in [1..n -> Files] :
          install' = [install EXCEPT !.at = "loading", !.mode = m, !.targets = ts]
    /\ UNCHANGED <<file, backup, edits, backedUp, torn>>

\* compose: every source is loaded, or one raises (see Die) and nothing is
\* written.
Load ==
    /\ install.at = "loading"
    /\ install' = [install EXCEPT !.at = "next"]
    /\ UNCHANGED <<file, backup, edits, backedUp, torn>>

Target == Head(install.targets)

\* Mutant of BacksUp: a backup that exists is left alone.
BacksUpOnce(f) == install.mode = "replace" /\ file[f] # NoFile /\ backup[f] = NoFile

BacksUp(f) == install.mode = "replace" /\ file[f] # NoFile

\* apply, as far as the first write: what is there, and what to write.
Apply ==
    /\ install.at = "next" /\ install.targets # <<>>
    /\ install' = [install EXCEPT
           !.at = IF BacksUp(Target) THEN "backup" ELSE "empty",
           !.text = {Rules}
                        \cup (IF install.mode = "append" THEN Text(Target) ELSE {})]
    /\ UNCHANGED <<file, backup, edits, backedUp, torn>>

EmptyBackup ==
    /\ install.at = "backup"
    /\ backup' = [backup EXCEPT ![Target] = {}]
    /\ backedUp' = [backedUp EXCEPT ![Target] = IF @ = 0 THEN 1 ELSE 2]
    /\ install' = [install EXCEPT !.at = "copy"]
    /\ UNCHANGED <<file, edits, torn>>

WriteBackup ==
    /\ install.at = "copy"
    /\ backup' = [backup EXCEPT ![Target] = file[Target]]
    /\ install' = [install EXCEPT !.at = "empty"]
    /\ UNCHANGED <<file, edits, backedUp, torn>>

\* write_text opens the file, which empties it or makes it, and then writes.
EmptyFile ==
    /\ install.at = "empty"
    /\ file' = [file EXCEPT ![Target] = {}]
    /\ install' = [install EXCEPT !.at = "write"]
    /\ UNCHANGED <<backup, edits, backedUp, torn>>

WriteFile ==
    /\ install.at = "write"
    /\ file' = [file EXCEPT ![Target] = install.text]
    /\ install' = [install EXCEPT !.at = "next", !.targets = Tail(@)]
    /\ UNCHANGED <<backup, edits, backedUp, torn>>

Finish ==
    /\ install.at = "next" /\ install.targets = <<>>
    /\ install' = Idle
    /\ UNCHANGED <<file, backup, edits, backedUp, torn>>

\* An error of the file system or the network, an interrupt, a crash.
Die ==
    /\ install.at # "idle"
    /\ torn' = IF install.at = "write" /\ install.mode = "append"
               THEN [torn EXCEPT ![Target] = TRUE] ELSE torn
    /\ install' = Idle
    /\ UNCHANGED <<file, backup, edits, backedUp>>

InstallStep ==
    Start \/ Load \/ Apply \/ EmptyBackup \/ WriteBackup \/ EmptyFile \/ WriteFile
          \/ Finish \/ Die

Next == (\E f \in Files : Edit(f)) \/ InstallStep

Spec == Init /\ [][Next]_vars

----------------------------------------------------------------------------

Holds(text, p) == text # NoFile /\ p \in text

\* What the user last wrote in a file is in the file, in its backup or in the
\* hands of the install that rewrites it, through crashes and installs run
\* again, with two exceptions: a second backup since then replaces the first,
\* also when the first install died or names a target twice
\* (_file_target.py:41-43), and append mode, which makes no backup, died after
\* it opened the file for writing (_file_target.py:38).
UserTextSurvives ==
    \A f \in Files :
        edits[f] > 0 =>
            \/ Holds(file[f], User(edits[f])) \/ Holds(backup[f], User(edits[f]))
            \/ install.at = "write" /\ Target = f /\ User(edits[f]) \in install.text
            \/ backedUp[f] > 1 \/ torn[f]
=============================================================================
