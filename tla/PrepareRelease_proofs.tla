------------------------ MODULE PrepareRelease_proofs ------------------------
(***************************************************************************)
(* Preparing releases, for any number of clones, versions and fragments.   *)
(*                                                                         *)
(* Control says where a clone's tree can differ from its branch, Working   *)
(* how: a run changes the changelog only by one section of all fragments,  *)
(* which it then deletes.  So every commit removes only what it lists, and *)
(* a branch is known from its commits (Recorded): that nothing is lost     *)
(* follows.  A merge without a conflict takes CHANGELOG.md from one side;  *)
(* that this loses no release takes Anchored, which says that a branch     *)
(* that has a commit of main has its sections as they are on main.  With   *)
(* Exact, every entry is listed once, and main follows the ledger.  Last,  *)
(* a release branch at the remote has commits of one clone only (Alone),   *)
(* which is why nobody else asks for a pull request (Asking, Single).      *)
(***************************************************************************)
EXTENDS PrepareRelease, TLAPS

(* The script runs for a version.                                          *)
Started(c) == pc[c] # "idle" => version[c] \in Versions

(* What is checked out is a branch that the clone has.                     *)
Standing(c) == on[c] # NoVersion => local[c][on[c]] # Absent

(* Where a run is the tree is that of its branch, or the run is about to   *)
(* make it so: from the checkout to the commit the branch is the run's     *)
(* own, and before and after it the tree is clean.  A dirty tree belongs   *)
(* to the run that died.                                                   *)
Steady(c) ==
  /\ pc[c] \notin {"idle", "branch", "failed"} => on[c] = version[c]
  /\ pc[c] \in {"idle", "branch", "push", "list", "create"} => ~ Dirty(c)
  /\ pc[c] = "failed" /\ Dirty(c) => on[c] = version[c]

(* The types, and how a clone's branch and tree go with its place in the   *)
(* script.                                                                 *)
Control == TypeOK /\ \A c \in Clones : Started(c) /\ Standing(c) /\ Steady(c)

(* The branch main at the start is a branch.                               *)
LEMMA StartIsBranch == Start0 \in Branch
<1>1. << >> \in [{} -> SUBSET Fragments]
  OBVIOUS
<1>2. << >> \in Sections
  BY <1>1 DEF Sections
<1>3. QED
  BY <1>2, NamesAssumption DEF Start0, Branch, Tree

(* So is what a clone has checked out.                                     *)
LEMMA CheckedOutIsBranch ==
  ASSUME TypeOK, NEW c \in Clones, Standing(c)
  PROVE  CheckedOut(c) \in Branch
BY StartIsBranch DEF CheckedOut, TypeOK, Standing

(* And what commit_release_changes, or a commit by hand, makes of it.      *)
LEMMA CommittedIsBranch ==
  ASSUME TypeOK, NEW c \in Clones, CheckedOut(c) \in Branch, version[c] \in Versions
  PROVE  /\ Committed(c) \in Branch
         /\ Committed(c) # Absent
         /\ Committed(c).tree = work[c]
<1>1. CheckedOut(c).tree \in Tree /\ CheckedOut(c).log \subseteq Commit
  BY DEF Branch
<1>2. CheckedOut(c).tree.fragments \ work[c].fragments \subseteq Fragments
  BY <1>1 DEF Tree
<1>3. NewCommit(c) \in Commit
  BY <1>2 DEF NewCommit, Commit
<1>4. work[c] \in Tree
  BY DEF TypeOK
<1>5. Committed(c) \in Branch
  BY <1>1, <1>3, <1>4 DEF Committed, Branch
<1>6. QED
  BY <1>5, AbsentAssumption DEF Committed

(* A three-way merge makes a tree of two trees.                            *)
LEMMA MergedIsTree ==
  ASSUME NEW X \in Branch, NEW M \in Branch
  PROVE  MergedTree(X, M) \in Tree
BY DEF MergedTree, Branch, Tree

(* prepare_changelog's new section makes sections of sections.             *)
LEMMA SectionAdded ==
  ASSUME NEW sections \in Sections, NEW v \in Versions, NEW entries \in SUBSET Fragments
  PROVE  [ w \in DOMAIN sections \cup {v} |-> IF w = v THEN entries ELSE sections[w] ] \in Sections
<1>1. PICK vs \in SUBSET Versions : sections \in [vs -> SUBSET Fragments]
  BY DEF Sections
<1>2. vs \cup {v} \in SUBSET Versions /\ DOMAIN sections = vs
  BY <1>1
<1>3. [ w \in DOMAIN sections \cup {v} |-> IF w = v THEN entries ELSE sections[w] ]
        \in [vs \cup {v} -> SUBSET Fragments]
  BY <1>1, <1>2
<1>4. QED
  BY <1>2, <1>3 DEF Sections

(* What a clone's step leaves alone in the other clones.                   *)
Same(c) ==
  /\ local'[c] = local[c] /\ on'[c] = on[c] /\ work'[c] = work[c]
  /\ pc'[c] = pc[c] /\ version'[c] = version[c]

(* A clone whose own variables stay is where it was.                       *)
LEMMA SameClone ==
  ASSUME NEW c \in Clones, Same(c), Started(c), Standing(c), Steady(c)
  PROVE  /\ CheckedOut(c)' = CheckedOut(c)
         /\ Started(c)' /\ Standing(c)' /\ Steady(c)'
<1>1. CheckedOut(c)' = CheckedOut(c)
  BY DEF Same, CheckedOut
<1>2. Dirty(c)' = Dirty(c)
  BY <1>1 DEF Same, Dirty
<1>3. QED
  BY <1>1, <1>2 DEF Same, Started, Standing, Steady

(* So only the clone that takes the step has to be looked at.              *)
LEMMA ControlOfOthers ==
  ASSUME Control, TypeOK', NEW c \in Clones, \A d \in Clones \ {c} : Same(d),
         Started(c)', Standing(c)', Steady(c)'
  PROVE  Control'
BY SameClone DEF Control

(* Before the first run every tree is clean and no script runs.            *)
LEMMA ControlHoldsAtFirst == Init => Control
<1> SUFFICES ASSUME Init PROVE Control
  OBVIOUS
<1>1. TypeOK
  <2>1. Start0.tree \in Tree
    BY StartIsBranch DEF Branch
  <2>2. << >> \in Seq({"open", "closed", "merged"})
    OBVIOUS
  <2>3. main \in Branch /\ work \in [Clones -> Tree]
    BY StartIsBranch, <2>1 DEF Init
  <2>4. /\ pushed \in [Versions -> Branch \cup {Absent}]
        /\ pulls \in [Versions -> Seq({"open", "closed", "merged"})]
        /\ local \in [Clones -> [Versions -> Branch \cup {Absent}]]
    BY <2>2 DEF Init
  <2>5. /\ on \in [Clones -> Versions \cup {NoVersion}]
        /\ version \in [Clones -> Versions \cup {NoVersion}]
    BY DEF Init
  <2>6. runs \in 0 .. MaxRuns /\ failures \in 0 .. MaxFailures /\ handCommits \in 0 .. MaxHandCommits
    BY BoundsAssumption DEF Init
  <2>7. QED
    BY <2>3, <2>4, <2>5, <2>6 DEF Init, TypeOK
<1>2. ASSUME NEW c \in Clones PROVE Started(c) /\ Standing(c) /\ Steady(c)
  BY DEF Init, Started, Standing, Steady, Dirty, CheckedOut
<1>3. QED
  BY <1>1, <1>2 DEF Control

(* Steps of the script that change only the working tree.                  *)
LEMMA ControlOfWork ==
  ASSUME Control, NEW c \in Clones,
         pc[c] \in {"manifest", "lock", "changelog", "unlink", "samples"},
         pc'[c] \in {"lock", "changelog", "unlink", "samples", "commit"},
         NEW tree \in Tree, work' = [work EXCEPT ![c] = tree],
         pc' = [pc EXCEPT ![c] = pc'[c]],
         UNCHANGED << remote, local, on, version, runs, handCommits, halfCommitted >>,
         failures' \in 0 .. MaxFailures
  PROVE  Control'
<1>1. TypeOK'
  BY DEF Control, TypeOK, remote
<1>2. \A d \in Clones \ {c} : Same(d)
  BY DEF Same, Control, TypeOK
<1>3. Started(c)' /\ Standing(c)' /\ Steady(c)'
  BY DEF Control, TypeOK, Started, Standing, Steady
<1>4. QED
  BY <1>1, <1>2, <1>3, ControlOfOthers

(* Commits, by the script or by hand.                                      *)
LEMMA ControlOfCommit ==
  ASSUME Control, NEW c \in Clones, version[c] \in Versions, on[c] = version[c],
         local' = [local EXCEPT ![c][version[c]] = Committed(c)],
         pc'[c] \in {"failed", "push"}, pc' = [pc EXCEPT ![c] = pc'[c]],
         UNCHANGED << remote, on, work, version, runs, failures >>,
         handCommits' \in 0 .. MaxHandCommits, halfCommitted' \in BOOLEAN
  PROVE  Control'
<1>1. /\ Committed(c) \in Branch /\ Committed(c) # Absent
      /\ Committed(c).tree = work[c]
  BY CheckedOutIsBranch, CommittedIsBranch DEF Control
<1>2. TypeOK'
  BY <1>1 DEF Control, TypeOK, remote
<1>3. \A d \in Clones \ {c} : Same(d)
  BY DEF Same, Control, TypeOK
<1>4. CheckedOut(c)' = Committed(c)
  BY NamesAssumption DEF CheckedOut, Control, TypeOK
<1>5. ~ Dirty(c)'
  BY <1>1, <1>4 DEF Dirty
<1>6. Started(c)' /\ Standing(c)' /\ Steady(c)'
  BY <1>1, <1>5 DEF Control, TypeOK, Started, Standing, Steady
<1>7. QED
  BY <1>2, <1>3, <1>6, ControlOfOthers

(* Steps that only talk to the remote.                                     *)
LEMMA ControlOfTalk ==
  ASSUME Control, TypeOK', NEW c \in Clones, pc[c] \in {"push", "list", "create"},
         UNCHANGED << local, on, work >>,
         \/ Goes(c, pc[c], "list") /\ UNCHANGED version
         \/ Goes(c, pc[c], "create") /\ UNCHANGED version
         \/ Returns(c, pc[c])
  PROVE  Control'
<1>1. \A d \in Clones \ {c} : Same(d)
  BY DEF Same, Goes, Returns, Control, TypeOK
<1>2. CheckedOut(c)' = CheckedOut(c) /\ Dirty(c)' = Dirty(c)
  BY DEF CheckedOut, Dirty
<1>3. Started(c)' /\ Standing(c)' /\ Steady(c)'
  BY <1>2 DEF Goes, Returns, Control, TypeOK, Started, Standing, Steady
<1>4. QED
  BY <1>1, <1>3, ControlOfOthers

(* GitHub changes the state of a pull request and adds or drops none.      *)
LEMMA SettledPulls ==
  ASSUME TypeOK, NEW v \in Versions, NEW from, NEW to \in {"open", "closed", "merged"},
         Settle(v, from, to)
  PROVE  /\ pulls' \in [Versions -> Seq({"open", "closed", "merged"})]
         /\ \A w \in Versions : DOMAIN pulls'[w] = DOMAIN pulls[w] /\ Len(pulls'[w]) = Len(pulls[w])
         /\ \A w \in Versions \ {v} : pulls'[w] = pulls[w]
<1>1. PICK n \in DOMAIN pulls[v] : pulls' = [pulls EXCEPT ![v] = [pulls[v] EXCEPT ![n] = to]]
  BY DEF Settle, TypeOK
<1>2. pulls[v] \in Seq({"open", "closed", "merged"})
  BY DEF TypeOK
<1>3. [pulls[v] EXCEPT ![n] = to] \in Seq({"open", "closed", "merged"})
  BY <1>1, <1>2
<1>4. Len([pulls[v] EXCEPT ![n] = to]) = Len(pulls[v])
  BY <1>1, <1>2
<1>5. QED
  BY <1>1, <1>2, <1>3, <1>4 DEF TypeOK

(* Every step of the script, of its operators and of GitHub keeps Control. *)
LEMMA ControlStep ==
  ASSUME Control, [Next]_vars
  PROVE  Control'
<1> USE DEF Control
<1>1. ASSUME NEW c \in Clones, Run(c)
      PROVE  Control'
  <2>0. /\ version'[c] \in Versions /\ version' = [version EXCEPT ![c] = version'[c]]
        /\ runs' \in 0 .. MaxRuns /\ ~ Dirty(c)
        /\ pc' = [pc EXCEPT ![c] = "branch"]
        /\ UNCHANGED << remote, local, on, work, failures, handCommits, halfCommitted >>
    <3>1. CASE pc[c] = "idle"
      <4>1. PICK v \in Asked[c] : version' = [version EXCEPT ![c] = v]
        BY <1>1, <3>1 DEF Run
      <4>2. v \in Versions
        BY <4>1, NamesAssumption
      <4>3. runs' \in 0 .. MaxRuns
        BY <1>1, <3>1, BoundsAssumption DEF Run, TypeOK
      <4>4. QED
        BY <1>1, <4>1, <4>2, <4>3 DEF Run, PassesCleanCheck, TypeOK
    <3>2. CASE pc[c] # "idle"
      BY <1>1, <3>2 DEF Run, PassesCleanCheck, TypeOK, Started
    <3>3. QED
      BY <3>1, <3>2
  <2>1. TypeOK'
    BY <2>0 DEF TypeOK, remote
  <2>2. \A d \in Clones \ {c} : Same(d)
    BY <2>0 DEF Same, TypeOK
  <2>3. CheckedOut(c)' = CheckedOut(c) /\ Dirty(c)' = Dirty(c)
    BY <2>0 DEF CheckedOut, Dirty
  <2>4. Started(c)' /\ Standing(c)' /\ Steady(c)'
    BY <2>0, <2>3 DEF TypeOK, Started, Standing, Steady
  <2>5. QED
    BY <2>1, <2>2, <2>4, ControlOfOthers
<1>2. ASSUME NEW c \in Clones, CreateReleaseBranch(c)
      PROVE  Control'
  <2> DEFINE v == version[c]
             branch == IF local[c][v] # Absent THEN local[c][v] ELSE main
  <2>1. v \in Versions /\ branch \in Branch /\ branch # Absent
    BY <1>2, AbsentAssumption DEF CreateReleaseBranch, Goes, Started, TypeOK
  <2>2. branch.tree \in Tree
    BY <2>1 DEF Branch
  <2>3. /\ pc[c] = "branch" /\ pc' = [pc EXCEPT ![c] = "manifest"]
        /\ local' = [local EXCEPT ![c][v] = branch]
        /\ on' = [on EXCEPT ![c] = v]
        /\ work' = [work EXCEPT ![c] = IF on[c] = v THEN @ ELSE branch.tree]
        /\ UNCHANGED << remote, version, history >>
    BY <1>2 DEF CreateReleaseBranch, Goes
  <2>4. TypeOK'
    BY <2>1, <2>2, <2>3 DEF TypeOK, remote, history
  <2>5. \A d \in Clones \ {c} : Same(d)
    BY <2>3 DEF Same, TypeOK
  <2>6. Started(c)' /\ Standing(c)' /\ Steady(c)'
    BY <2>1, <2>3 DEF TypeOK, Started, Standing, Steady
  <2>7. QED
    BY <2>4, <2>5, <2>6, ControlOfOthers
<1>3. ASSUME NEW c \in Clones, WriteManifest(c)
      PROVE  Control'
  <2>1. [work[c] EXCEPT !.manifest = version[c]] \in Tree
    BY DEF TypeOK, Tree
  <2>2. work' = [work EXCEPT ![c] = [work[c] EXCEPT !.manifest = version[c]]]
    BY <1>3 DEF WriteManifest, TypeOK
  <2>3. QED
    BY <1>3, <2>1, <2>2, ControlOfWork DEF WriteManifest, Goes, TypeOK, history
<1>4. ASSUME NEW c \in Clones, WriteLock(c)
      PROVE  Control'
  <2>1. [work[c] EXCEPT !.lock = version[c]] \in Tree
    BY DEF TypeOK, Tree
  <2>2. work' = [work EXCEPT ![c] = [work[c] EXCEPT !.lock = version[c]]]
    BY <1>4 DEF WriteLock, TypeOK
  <2>3. QED
    BY <1>4, <2>1, <2>2, ControlOfWork DEF WriteLock, Goes, TypeOK, history
<1>5. ASSUME NEW c \in Clones, WriteChangelog(c)
      PROVE  Control'
  <2>1. CASE version[c] \in DOMAIN work[c].sections
    <3>1. work' = [work EXCEPT ![c] = work[c]] /\ work[c] \in Tree
      BY <1>5, <2>1 DEF WriteChangelog, TypeOK
    <3>2. QED
      BY <1>5, <2>1, <3>1, ControlOfWork DEF WriteChangelog, Goes, TypeOK, history
  <2>2. CASE version[c] \notin DOMAIN work[c].sections
    <3> DEFINE sections == [ w \in DOMAIN work[c].sections \cup {version[c]} |->
                               IF w = version[c] THEN work[c].fragments ELSE work[c].sections[w] ]
    <3>1. version[c] \in Versions /\ pc[c] = "changelog"
      BY <1>5, <2>2 DEF WriteChangelog, Goes, Started
    <3>2. sections \in Sections
      <4>1. work[c].fragments \in SUBSET Fragments /\ work[c].sections \in Sections
        BY DEF TypeOK, Tree
      <4>2. QED
        BY <3>1, <4>1, SectionAdded
    <3>3. [work[c] EXCEPT !.sections = sections] \in Tree
      BY <3>2 DEF TypeOK, Tree
    <3>4. work' = [work EXCEPT ![c] = [work[c] EXCEPT !.sections = sections]]
      BY <1>5, <2>2 DEF WriteChangelog, TypeOK
    <3>5. /\ pc'[c] \in {"samples", "unlink"} /\ pc' = [pc EXCEPT ![c] = pc'[c]]
          /\ UNCHANGED << remote, local, on, version, history >>
      BY <1>5, <2>2 DEF WriteChangelog, Goes, TypeOK
    <3> HIDE DEF sections
    <3>6. QED
      BY <3>1, <3>3, <3>4, <3>5, ControlOfWork DEF TypeOK, history
  <2>3. QED
    BY <2>1, <2>2
<1>6. ASSUME NEW c \in Clones, UnlinkFragment(c)
      PROVE  Control'
  <2>1. PICK fragment \in work[c].fragments :
          work' = [work EXCEPT ![c] = [work[c] EXCEPT !.fragments = @ \ {fragment}]]
    BY <1>6 DEF UnlinkFragment, TypeOK
  <2>2. [work[c] EXCEPT !.fragments = @ \ {fragment}] \in Tree
    BY DEF TypeOK, Tree
  <2>3. /\ pc[c] = "unlink" /\ pc'[c] \in {"samples", "unlink"} /\ pc' = [pc EXCEPT ![c] = pc'[c]]
        /\ UNCHANGED << remote, local, on, version, history >>
    BY <1>6 DEF UnlinkFragment, Goes, TypeOK
  <2>4. QED
    BY <2>1, <2>2, <2>3, ControlOfWork DEF TypeOK, history
<1>7. ASSUME NEW c \in Clones, RegenerateSamples(c)
      PROVE  Control'
  <2>1. PICK stray \in BOOLEAN :
          /\ work' = [work EXCEPT ![c] = [work[c] EXCEPT !.stray = stray]]
          /\ stray => failures < MaxFailures
          /\ failures' = failures + (IF stray THEN 1 ELSE 0)
    BY <1>7 DEF RegenerateSamples, TypeOK
  <2>2. [work[c] EXCEPT !.stray = stray] \in Tree
    BY DEF TypeOK, Tree
  <2>3. failures' \in 0 .. MaxFailures
    BY <2>1, BoundsAssumption DEF TypeOK
  <2>4. QED
    BY <1>7, <2>1, <2>2, <2>3, ControlOfWork DEF RegenerateSamples, Goes, TypeOK
<1>8. ASSUME NEW c \in Clones, CommitReleaseChanges(c)
      PROVE  Control'
  <2>1. /\ pc[c] = "commit" /\ version[c] \in Versions /\ on[c] = version[c]
        /\ pc'[c] \in {"failed", "push"} /\ pc' = [pc EXCEPT ![c] = pc'[c]]
        /\ UNCHANGED << remote, on, work, version, history >>
    BY <1>8 DEF CommitReleaseChanges, Goes, TypeOK, Started, Steady
  <2>2. \/ local' = [local EXCEPT ![c][version[c]] = Committed(c)]
        \/ pc'[c] = "push" /\ UNCHANGED local /\ ~ Dirty(c)
        \/ pc'[c] = "failed" /\ UNCHANGED local
    BY <1>8 DEF CommitReleaseChanges, Goes, TypeOK
  <2>3. CASE local' = [local EXCEPT ![c][version[c]] = Committed(c)]
    BY <2>1, <2>3, ControlOfCommit DEF history, TypeOK
  <2>4. CASE UNCHANGED local /\ (pc'[c] = "push" => ~ Dirty(c))
    <3>1. TypeOK'
      BY <2>1, <2>4 DEF TypeOK, remote, history
    <3>2. \A d \in Clones \ {c} : Same(d)
      BY <2>1, <2>4 DEF Same, TypeOK
    <3>3. CheckedOut(c)' = CheckedOut(c) /\ Dirty(c)' = Dirty(c)
      BY <2>1, <2>4 DEF CheckedOut, Dirty
    <3>4. Started(c)' /\ Standing(c)' /\ Steady(c)'
      BY <2>1, <2>4, <3>3 DEF Started, Standing, Steady
    <3>5. QED
      BY <3>1, <3>2, <3>4, ControlOfOthers
  <2>5. QED
    BY <2>2, <2>3, <2>4
<1>9. ASSUME NEW c \in Clones, PushReleaseBranch(c)
      PROVE  Control'
  <2>1. /\ pc[c] = "push" /\ version[c] \in Versions /\ on[c] = version[c]
        /\ local[c][version[c]] \in Branch
        /\ UNCHANGED << main, pulls, local, on, work, history >>
    <3>1. pc[c] = "push" /\ UNCHANGED << main, pulls, local, on, work, history >>
      BY <1>9 DEF PushReleaseBranch
    <3>2. version[c] \in Versions /\ on[c] = version[c]
      BY <3>1 DEF Started, Steady
    <3>3. local[c][version[c]] \in Branch
      BY <3>2, NamesAssumption DEF Standing, TypeOK
    <3>4. QED
      BY <3>1, <3>2, <3>3
  <2>2. /\ pushed' \in { pushed, [pushed EXCEPT ![version[c]] = local[c][version[c]]] }
        /\ \/ Goes(c, "push", "list") /\ UNCHANGED version
           \/ Returns(c, "push")
    BY <1>9 DEF PushReleaseBranch
  <2>3. TypeOK'
    BY <2>1, <2>2 DEF TypeOK, Goes, Returns, history
  <2>4. QED
    BY <2>1, <2>2, <2>3, ControlOfTalk
<1>10. ASSUME NEW c \in Clones, ListPulls(c)
       PROVE  Control'
  <2>1. /\ pc[c] = "list" /\ UNCHANGED << remote, local, on, work, history >>
        /\ (Goes(c, "list", "create") /\ UNCHANGED version) \/ Returns(c, "list")
    BY <1>10 DEF ListPulls, Goes, Returns
  <2>2. TypeOK'
    BY <2>1 DEF TypeOK, Goes, Returns, remote, history
  <2>3. QED
    BY <2>1, <2>2, ControlOfTalk
<1>11. ASSUME NEW c \in Clones, CreatePull(c)
       PROVE  Control'
  <2>1. /\ pc[c] = "create" /\ Returns(c, "create") /\ version[c] \in Versions
        /\ pulls' \in { pulls, [pulls EXCEPT ![version[c]] = Append(@, "open")] }
        /\ UNCHANGED << main, pushed, local, on, work, history >>
    BY <1>11 DEF CreatePull, Started
  <2>2. Append(pulls[version[c]], "open") \in Seq({"open", "closed", "merged"})
    BY <2>1 DEF TypeOK
  <2>3. pulls' \in [Versions -> Seq({"open", "closed", "merged"})]
    BY <2>1, <2>2 DEF TypeOK
  <2>4. TypeOK'
    BY <2>1, <2>3 DEF TypeOK, Goes, Returns, history
  <2>5. QED
    BY <2>1, <2>4, ControlOfTalk
<1>12. ASSUME NEW c \in Clones, Die(c)
       PROVE  Control'
  <2>1. TypeOK'
    BY <1>12, BoundsAssumption DEF Die, TypeOK, remote
  <2>2. \A d \in Clones \ {c} : Same(d)
    BY <1>12 DEF Die, Same, TypeOK
  <2>3. CheckedOut(c)' = CheckedOut(c) /\ Dirty(c)' = Dirty(c)
    BY <1>12 DEF Die, CheckedOut, Dirty
  <2>4. Started(c)' /\ Standing(c)' /\ Steady(c)'
    BY <1>12, <2>3 DEF Die, TypeOK, Started, Standing, Steady
  <2>5. QED
    BY <2>1, <2>2, <2>4, ControlOfOthers
<1>13. ASSUME NEW c \in Clones, Discard(c)
       PROVE  Control'
  <2>1. CheckedOut(c) \in Branch
    BY CheckedOutIsBranch
  <2>2. TypeOK'
    BY <1>13, <2>1 DEF Discard, TypeOK, remote, history, Branch
  <2>3. \A d \in Clones \ {c} : Same(d)
    BY <1>13 DEF Discard, Same, TypeOK
  <2>4. CheckedOut(c)' = CheckedOut(c) /\ ~ Dirty(c)'
    BY <1>13 DEF Discard, CheckedOut, Dirty, TypeOK
  <2>5. Started(c)' /\ Standing(c)' /\ Steady(c)'
    BY <1>13, <2>4 DEF Discard, TypeOK, Started, Standing, Steady
  <2>6. QED
    BY <2>2, <2>3, <2>5, ControlOfOthers
<1>14. ASSUME NEW c \in Clones, CommitByHand(c)
       PROVE  Control'
  <2>1. /\ version[c] \in Versions /\ on[c] = version[c]
        /\ pc'[c] = "failed" /\ pc' = [pc EXCEPT ![c] = pc'[c]]
        /\ handCommits' \in 0 .. MaxHandCommits /\ halfCommitted' \in BOOLEAN
    BY <1>14, BoundsAssumption DEF CommitByHand, TypeOK, Started, Steady
  <2>2. QED
    BY <1>14, <2>1, ControlOfCommit DEF CommitByHand
<1>15. ASSUME NEW c \in Clones, UpdateFromMain(c)
       PROVE  Control'
  <2> DEFINE merged == [ tree |-> MergedTree(CheckedOut(c), main), log |-> CheckedOut(c).log \cup main.log ]
  <2>1. /\ pc[c] = "idle" /\ on[c] \in Versions
        /\ local' = [local EXCEPT ![c][on[c]] = merged]
        /\ work' = [work EXCEPT ![c] = merged.tree]
        /\ UNCHANGED << remote, on, pc, version, history >>
    BY <1>15 DEF UpdateFromMain, TypeOK
  <2>2. merged \in Branch /\ merged # Absent /\ merged.tree \in Tree
    <3>1. CheckedOut(c) \in Branch /\ main \in Branch
      BY CheckedOutIsBranch DEF TypeOK
    <3>2. MergedTree(CheckedOut(c), main) \in Tree
      BY <3>1, MergedIsTree
    <3>3. QED
      BY <3>1, <3>2, AbsentAssumption DEF Branch
  <2> HIDE DEF merged
  <2>3. TypeOK'
    BY <2>1, <2>2 DEF TypeOK, remote, history
  <2>4. \A d \in Clones \ {c} : Same(d)
    BY <2>1 DEF Same, TypeOK
  <2>5. CheckedOut(c)' = merged
    BY <2>1, NamesAssumption DEF CheckedOut, TypeOK
  <2>6. ~ Dirty(c)'
    BY <2>1, <2>5 DEF Dirty, TypeOK
  <2>7. Started(c)' /\ Standing(c)' /\ Steady(c)'
    BY <2>1, <2>2, <2>6 DEF TypeOK, Started, Standing, Steady
  <2>8. QED
    BY <2>3, <2>4, <2>7, ControlOfOthers
<1>16. ASSUME main' \in Branch, pulls' \in [Versions -> Seq({"open", "closed", "merged"})],
              pushed' \in [Versions -> Branch \cup {Absent}],
              UNCHANGED << local, on, work, pc, version, history >>
       PROVE  Control'
  <2>1. TypeOK'
    BY <1>16 DEF TypeOK, history
  <2>2. \A d \in Clones : Same(d)
    BY <1>16 DEF Same
  <2>3. QED
    BY <2>1, <2>2, SameClone
<1>17. ASSUME Develop PROVE Control'
  <2>1. PICK fragment \in Fragments :
          main' = [ tree |-> [ main.tree EXCEPT !.fragments = @ \cup {fragment} ],
                    log |-> main.log \cup
                      { [ by |-> "main", for |-> NoVersion, adds |-> {fragment},
                          removes |-> {}, release |-> FALSE ] } ]
    BY <1>17 DEF Develop
  <2>2. main' \in Branch
    <3>1. [ by |-> "main", for |-> NoVersion, adds |-> {fragment},
            removes |-> {}, release |-> FALSE ] \in Commit
      BY DEF Commit
    <3>2. [ main.tree EXCEPT !.fragments = @ \cup {fragment} ] \in Tree
      BY DEF TypeOK, Branch, Tree
    <3>3. QED
      BY <2>1, <3>1, <3>2 DEF TypeOK, Branch
  <2>3. QED
    BY <1>16, <1>17, <2>2 DEF Develop, TypeOK
<1>18. ASSUME NEW v \in Versions, MergePull(v)
       PROVE  Control'
  <2> DEFINE commit == [ by |-> "main", for |-> v, adds |-> {},
                         removes |-> Removed(pushed[v]) \ Removed(main), release |-> TRUE ]
  <2>1. pushed[v] \in Branch
    BY <1>18 DEF MergePull, Settle, TypeOK
  <2>2. MergedTree(pushed[v], main) \in Tree
    BY <2>1, MergedIsTree DEF TypeOK
  <2>3. Removed(pushed[v]) \subseteq Fragments
    BY <2>1 DEF Removed, Branch, Commit
  <2>4. commit \in Commit
    BY <2>3 DEF Commit
  <2>5. main' = [ tree |-> MergedTree(pushed[v], main), log |-> main.log \cup {commit} ]
    BY <1>18 DEF MergePull
  <2> HIDE DEF commit
  <2>6. main' \in Branch
    BY <2>2, <2>4, <2>5 DEF Branch, TypeOK
  <2>7. pulls' \in [Versions -> Seq({"open", "closed", "merged"})]
    BY <1>18, SettledPulls DEF MergePull
  <2>8. QED
    BY <1>16, <1>18, <2>6, <2>7 DEF MergePull, TypeOK
<1>19. ASSUME NEW v \in Versions, ClosePull(v)
       PROVE  Control'
  <2>1. pulls' \in [Versions -> Seq({"open", "closed", "merged"})]
    BY <1>19, SettledPulls DEF ClosePull
  <2>2. QED
    BY <1>16, <1>19, <2>1 DEF ClosePull, TypeOK
<1>20. CASE UNCHANGED vars
  BY <1>16, <1>20 DEF vars, remote, TypeOK
<1>21. QED
  BY <1>1, <1>2, <1>3, <1>4, <1>5, <1>6, <1>7, <1>8, <1>9, <1>10, <1>11, <1>12, <1>13,
     <1>14, <1>15, <1>17, <1>18, <1>19, <1>20 DEF Next, ScriptStep

(* A step moves a clone only if it is the clone's own.                     *)
LEMMA StepOfClone ==
  ASSUME TypeOK, [Next]_vars, NEW c \in Clones
  PROVE  \/ Same(c)
         \/ ScriptStep(c) \/ Run(c) \/ Die(c) \/ Discard(c) \/ CommitByHand(c) \/ UpdateFromMain(c)
<1> USE DEF TypeOK, Same
<1>1. ASSUME NEW d \in Clones \ {c}, Run(d) PROVE Same(c)
  BY <1>1 DEF Run
<1>2. ASSUME NEW d \in Clones \ {c}, ScriptStep(d) PROVE Same(c)
  <2>1. CASE CreateReleaseBranch(d)
    BY <2>1 DEF CreateReleaseBranch, Goes
  <2>2. CASE WriteManifest(d) \/ WriteLock(d)
    BY <2>2 DEF WriteManifest, WriteLock, Goes
  <2>3. CASE WriteChangelog(d)
    BY <2>3 DEF WriteChangelog, Goes
  <2>4. CASE UnlinkFragment(d)
    BY <2>4 DEF UnlinkFragment, Goes
  <2>5. CASE RegenerateSamples(d)
    BY <2>5 DEF RegenerateSamples, Goes
  <2>6. CASE CommitReleaseChanges(d)
    BY <2>6 DEF CommitReleaseChanges, Goes
  <2>7. CASE PushReleaseBranch(d)
    BY <2>7 DEF PushReleaseBranch, Goes, Returns
  <2>8. CASE ListPulls(d) \/ CreatePull(d)
    BY <2>8 DEF ListPulls, CreatePull, Goes, Returns
  <2>9. QED
    BY <1>2, <2>1, <2>2, <2>3, <2>4, <2>5, <2>6, <2>7, <2>8 DEF ScriptStep
<1>3. ASSUME NEW d \in Clones \ {c}, Die(d) \/ Discard(d) PROVE Same(c)
  BY <1>3 DEF Die, Discard
<1>4. ASSUME NEW d \in Clones \ {c}, CommitByHand(d) \/ UpdateFromMain(d) PROVE Same(c)
  BY <1>4 DEF CommitByHand, UpdateFromMain
<1>5. ASSUME Develop PROVE Same(c)
  BY <1>5 DEF Develop
<1>6. ASSUME NEW v \in Versions, MergePull(v) \/ ClosePull(v) PROVE Same(c)
  BY <1>6 DEF MergePull, ClosePull
<1>7. ASSUME UNCHANGED vars PROVE Same(c)
  BY <1>7 DEF vars
<1>8. QED
  BY <1>1, <1>2, <1>3, <1>4, <1>5, <1>6, <1>7 DEF Next

-----------------------------------------------------------------------------
(* What a run has done to the tree it started from.                        *)

(* The changelog of the tree is that of the branch.                        *)
Untouched(c) ==
  /\ work[c].sections = CheckedOut(c).tree.sections
  /\ work[c].fragments = CheckedOut(c).tree.fragments

(* The changelog lists every fragment; some of them are still there.       *)
Listing(c) ==
  LET start == CheckedOut(c).tree
  IN  /\ version[c] \notin DOMAIN start.sections
      /\ work[c].sections = [ w \in DOMAIN start.sections \cup {version[c]} |->
                                IF w = version[c] THEN start.fragments ELSE start.sections[w] ]
      /\ work[c].fragments \subseteq start.fragments

(* The tree holds everything that belongs to a release.                    *)
Complete(tree, v) == tree.manifest = v /\ tree.lock = v /\ v \in DOMAIN tree.sections

(* What a run that has got this far, or died, can have done to the         *)
(* changelog: nothing, or one section of every fragment with some of these *)
(* deleted; and what it has written already.                               *)
Working(c) ==
  /\ Untouched(c) \/ Listing(c)
  /\ pc[c] \in {"branch", "manifest", "lock", "changelog"} => Untouched(c)
  /\ pc[c] \in {"lock", "changelog"} => work[c].manifest = version[c]
  /\ pc[c] = "changelog" => work[c].lock = version[c]
  /\ pc[c] = "unlink" => Listing(c)
  /\ pc[c] \in {"samples", "commit"} => Untouched(c) \/ work[c].fragments = {}
  /\ pc[c] \in {"unlink", "samples", "commit", "push", "list", "create"} =>
       Complete(work[c], version[c])

(* A clean tree has the changelog of its branch.                           *)
LEMMA CleanIsUntouched ==
  ASSUME NEW c \in Clones, ~ Dirty(c) PROVE Untouched(c)
BY DEF Dirty, Untouched

(* A run changes the changelog only in that way, also when it starts again *)
(* after one that died: it starts from a clean tree.                       *)
LEMMA WorkingStep ==
  ASSUME Control, Control', [Next]_vars, NEW c \in Clones, Working(c)
  PROVE  Working(c)'
<1> USE DEF Control
<1>1. work[c] \in Tree /\ CheckedOut(c) \in Branch
  BY CheckedOutIsBranch DEF TypeOK
<1>2. CASE Same(c)
  <2>1. CheckedOut(c)' = CheckedOut(c)
    BY <1>2, SameClone
  <2>2. QED
    BY <1>2, <2>1 DEF Same, Working, Untouched, Listing, Complete
<1>3. ASSUME ~ Dirty(c)', pc'[c] \notin {"changelog", "lock", "unlink", "samples", "commit"},
             \/ pc'[c] \notin {"push", "list", "create"}
             \/ Complete(work[c], version[c]) /\ work'[c] = work[c] /\ version'[c] = version[c]
      PROVE  Working(c)'
  <2>1. Untouched(c)'
    BY <1>3 DEF Dirty, Untouched
  <2>2. QED
    BY <1>3, <2>1 DEF Working, Complete
<1>4. CASE Run(c)
  <2>1. ~ Dirty(c)' /\ pc'[c] = "branch"
    BY <1>4 DEF Run, TypeOK, Steady
  <2>2. QED
    BY <1>3, <2>1
<1>5. CASE CreateReleaseBranch(c)
  <2> DEFINE branch == IF local[c][version[c]] # Absent THEN local[c][version[c]] ELSE main
  <2>1. /\ pc[c] = "branch" /\ pc'[c] = "manifest" /\ version[c] \in Versions /\ ~ Dirty(c)
        /\ local'[c] = [local[c] EXCEPT ![version[c]] = branch]
        /\ on'[c] = version[c]
        /\ work'[c] = IF on[c] = version[c] THEN work[c] ELSE branch.tree
    BY <1>5 DEF CreateReleaseBranch, Goes, TypeOK, Started, Steady
  <2>2. CheckedOut(c)' = branch
    BY <2>1, NamesAssumption DEF CheckedOut, TypeOK
  <2>3. on[c] = version[c] => CheckedOut(c) = branch
    BY <2>1, NamesAssumption DEF CheckedOut, Standing
  <2>4. work'[c] = branch.tree
    BY <2>1, <2>3 DEF Dirty
  <2>5. ~ Dirty(c)'
    BY <2>2, <2>4 DEF Dirty
  <2>6. QED
    BY <1>3, <2>1, <2>5
<1>6. CASE WriteManifest(c) \/ WriteLock(c)
  <2>1. CheckedOut(c)' = CheckedOut(c)
    BY <1>6 DEF WriteManifest, WriteLock, CheckedOut
  <2>2. /\ \/ /\ pc[c] = "manifest" /\ pc'[c] = "lock"
              /\ work'[c] = [work[c] EXCEPT !.manifest = version[c]]
           \/ /\ pc[c] = "lock" /\ pc'[c] = "changelog"
              /\ work'[c] = [work[c] EXCEPT !.lock = version[c]]
        /\ version'[c] = version[c]
    BY <1>6 DEF WriteManifest, WriteLock, Goes, TypeOK
  <2>3. /\ work'[c].sections = work[c].sections /\ work'[c].fragments = work[c].fragments
        /\ pc[c] = "manifest" => work'[c].manifest = version[c]
        /\ pc[c] = "lock" => work'[c].lock = version[c] /\ work'[c].manifest = work[c].manifest
    BY <1>1, <2>2 DEF Tree
  <2>4. QED
    BY <2>1, <2>2, <2>3 DEF Working, Untouched
<1>7. CASE WriteChangelog(c)
  <2>1. /\ CheckedOut(c)' = CheckedOut(c) /\ pc[c] = "changelog" /\ version'[c] = version[c]
        /\ Untouched(c) /\ work[c].manifest = version[c] /\ work[c].lock = version[c]
    BY <1>7 DEF WriteChangelog, CheckedOut, Working, Goes, history
  <2>2. CASE version[c] \in DOMAIN work[c].sections
    <3>1. pc'[c] = "samples" /\ work'[c] = work[c]
      BY <1>7, <2>2 DEF WriteChangelog, Goes, TypeOK
    <3>2. QED
      BY <2>1, <2>2, <3>1 DEF Working, Untouched, Complete
  <2>3. CASE version[c] \notin DOMAIN work[c].sections
    <3> DEFINE sections == [ w \in DOMAIN work[c].sections \cup {version[c]} |->
                               IF w = version[c] THEN work[c].fragments ELSE work[c].sections[w] ]
    <3>1. /\ work'[c] = [work[c] EXCEPT !.sections = sections]
          /\ pc'[c] = IF work[c].fragments = {} THEN "samples" ELSE "unlink"
      BY <1>7, <2>3 DEF WriteChangelog, Goes, TypeOK
    <3>2. work'[c].sections = sections /\ work'[c].fragments = work[c].fragments
          /\ work'[c].manifest = work[c].manifest /\ work'[c].lock = work[c].lock
      BY <1>1, <3>1 DEF Tree
    <3>3. Listing(c)'
      BY <2>1, <2>3, <3>2 DEF Listing, Untouched
    <3>4. QED
      BY <2>1, <3>1, <3>2, <3>3 DEF Working, Complete
  <2>4. QED
    BY <2>2, <2>3
<1>8. CASE UnlinkFragment(c)
  <2>1. /\ CheckedOut(c)' = CheckedOut(c) /\ pc[c] = "unlink" /\ version'[c] = version[c]
        /\ Listing(c) /\ Complete(work[c], version[c])
    BY <1>8 DEF UnlinkFragment, CheckedOut, Working, history
  <2>2. work[c].fragments \cap work[c].sections[version[c]] = work[c].fragments
    BY <2>1 DEF Listing
  <2>3. PICK fragment \in work[c].fragments :
          /\ work'[c] = [work[c] EXCEPT !.fragments = @ \ {fragment}]
          /\ pc'[c] = IF work[c].fragments = {fragment} THEN "samples" ELSE "unlink"
    BY <1>8, <2>2 DEF UnlinkFragment, Goes, TypeOK
  <2>4. /\ work'[c].fragments = work[c].fragments \ {fragment}
        /\ work'[c].sections = work[c].sections
        /\ work'[c].manifest = work[c].manifest /\ work'[c].lock = work[c].lock
    BY <1>1, <2>3 DEF Tree
  <2>5. Listing(c)'
    BY <2>1, <2>4 DEF Listing
  <2>6. QED
    BY <2>1, <2>3, <2>4, <2>5 DEF Working, Complete
<1>9. CASE RegenerateSamples(c)
  <2>1. /\ CheckedOut(c)' = CheckedOut(c) /\ version'[c] = version[c]
        /\ pc[c] = "samples" /\ pc'[c] = "commit"
    BY <1>9 DEF RegenerateSamples, CheckedOut, Goes, TypeOK
  <2>2. PICK stray \in BOOLEAN : work'[c] = [work[c] EXCEPT !.stray = stray]
    BY <1>9 DEF RegenerateSamples, TypeOK
  <2>3. /\ work'[c].fragments = work[c].fragments /\ work'[c].sections = work[c].sections
        /\ work'[c].manifest = work[c].manifest /\ work'[c].lock = work[c].lock
    BY <1>1, <2>2 DEF Tree
  <2>4. QED
    BY <2>1, <2>3 DEF Working, Complete, Untouched, Listing
<1>10. CASE CommitReleaseChanges(c)
  <2>1. /\ pc[c] = "commit" /\ pc'[c] \in {"failed", "push"}
        /\ work'[c] = work[c] /\ version'[c] = version[c]
        /\ pc'[c] = "failed" => local'[c] = local[c] /\ on'[c] = on[c]
    BY <1>10 DEF CommitReleaseChanges, Goes, TypeOK
  <2>2. CASE pc'[c] = "push"
    <3>1. ~ Dirty(c)' /\ Complete(work[c], version[c])
      BY <2>1, <2>2 DEF Steady, Working
    <3>2. QED
      BY <1>3, <2>1, <2>2, <3>1
  <2>3. CASE pc'[c] = "failed"
    <3>1. CheckedOut(c)' = CheckedOut(c)
      BY <2>1, <2>3 DEF CheckedOut
    <3>2. QED
      BY <2>1, <2>3, <3>1 DEF Working, Untouched, Listing
  <2>4. QED
    BY <2>1, <2>2, <2>3
<1>11. CASE PushReleaseBranch(c) \/ ListPulls(c) \/ CreatePull(c)
  <2>1. /\ pc[c] \in {"push", "list", "create"} /\ work'[c] = work[c]
        /\ pc'[c] = "idle" \/ (pc'[c] \in {"list", "create"} /\ version'[c] = version[c])
    BY <1>11 DEF PushReleaseBranch, ListPulls, CreatePull, Goes, Returns, TypeOK
  <2>2. ~ Dirty(c)' /\ Complete(work[c], version[c])
    BY <2>1 DEF Steady, Working
  <2>3. QED
    BY <1>3, <2>1, <2>2
<1>12. CASE Die(c)
  <2>1. /\ CheckedOut(c)' = CheckedOut(c) /\ version'[c] = version[c]
        /\ work'[c] = work[c] /\ pc'[c] = "failed"
    BY <1>12 DEF Die, CheckedOut, TypeOK
  <2>2. QED
    BY <2>1 DEF Working, Untouched, Listing
<1>13. CASE Discard(c)
  <2>1. work'[c] = CheckedOut(c)'.tree /\ pc'[c] = "failed"
    BY <1>13 DEF Discard, CheckedOut, TypeOK
  <2>2. QED
    BY <1>3, <2>1 DEF Dirty
<1>14. CASE CommitByHand(c)
  <2>1. /\ on[c] = version[c] /\ version[c] \in Versions /\ pc'[c] = "failed"
        /\ local' = [local EXCEPT ![c][version[c]] = Committed(c)]
        /\ on' = on /\ work' = work
    BY <1>14 DEF CommitByHand, Steady, Started
  <2>2. CheckedOut(c)' = Committed(c)
    BY <2>1, NamesAssumption DEF CheckedOut, TypeOK
  <2>3. Committed(c).tree = work[c]
    BY DEF Committed
  <2>4. ~ Dirty(c)'
    BY <2>1, <2>2, <2>3 DEF Dirty
  <2>5. QED
    BY <1>3, <2>1, <2>4
<1>15. CASE UpdateFromMain(c)
  <2>1. ~ Dirty(c)' /\ pc'[c] = "idle"
    BY <1>15 DEF UpdateFromMain, Steady
  <2>2. QED
    BY <1>3, <2>1
<1>16. QED
  BY <1>2, <1>4, <1>5, <1>6, <1>7, <1>8, <1>9, <1>10, <1>11, <1>12, <1>13, <1>14, <1>15,
     StepOfClone DEF ScriptStep

-----------------------------------------------------------------------------
(* How the branches change.                                                *)

(* The branch after UpdateFromMain.                                        *)
UpdatedFromMain(c) ==
  [ tree |-> MergedTree(CheckedOut(c), main), log |-> CheckedOut(c).log \cup main.log ]

(* A clone's branch stays, is main as just fetched, is committed to, with  *)
(* the whole list of fragments deleted or none of it as long as nobody     *)
(* commits half of it by hand, or gets main merged into it.                *)
LEMMA LocalChanges ==
  ASSUME Control, [Next]_vars, NEW c \in Clones, Working(c), NEW v \in Versions
  PROVE  \/ local'[c][v] = local[c][v]
         \/ local'[c][v] = main
         \/ /\ on[c] = v /\ version[c] = v /\ local'[c][v] = Committed(c)
            /\ halfCommitted' \/ Untouched(c) \/ work[c].fragments = {}
         \/ /\ on[c] = v /\ local'[c][v] = UpdatedFromMain(c)
            /\ ~ Conflict(main, CheckedOut(c))
<1> USE DEF Control
<1>1. CASE Same(c)
  BY <1>1 DEF Same
<1>2. CASE CreateReleaseBranch(c)
  BY <1>2 DEF CreateReleaseBranch, TypeOK
<1>3. CASE CommitReleaseChanges(c)
  <2>1. pc[c] = "commit" /\ on[c] = version[c]
    BY <1>3 DEF CommitReleaseChanges, Goes, Steady
  <2>2. Untouched(c) \/ work[c].fragments = {}
    BY <2>1 DEF Working
  <2>3. QED
    BY <1>3, <2>1, <2>2 DEF CommitReleaseChanges, TypeOK
<1>4. CASE CommitByHand(c)
  <2>1. /\ on[c] = version[c]
        /\ local' = [local EXCEPT ![c][version[c]] = Committed(c)]
        /\ halfCommitted' \/ work[c].fragments \cap Listed(work[c]) = {}
    BY <1>4 DEF CommitByHand, Steady
  <2>2. ASSUME Listing(c) PROVE work[c].fragments \subseteq Listed(work[c])
    <3>1. /\ version[c] \in DOMAIN work[c].sections
          /\ work[c].sections[version[c]] = CheckedOut(c).tree.fragments
      BY <2>2 DEF Listing
    <3>2. work[c].sections[version[c]] \subseteq Listed(work[c])
      BY <3>1 DEF Listed
    <3>3. QED
      BY <2>2, <3>1, <3>2 DEF Listing
  <2>3. halfCommitted' \/ Untouched(c) \/ work[c].fragments = {}
    BY <2>1, <2>2 DEF Working
  <2>4. QED
    BY <2>1, <2>3 DEF TypeOK
<1>5. CASE UpdateFromMain(c)
  BY <1>5 DEF UpdateFromMain, UpdatedFromMain, TypeOK
<1>6. CASE Run(c) \/ Die(c) \/ Discard(c)
  BY <1>6 DEF Run, Die, Discard
<1>7. CASE WriteManifest(c) \/ WriteLock(c) \/ UnlinkFragment(c) \/ RegenerateSamples(c)
  BY <1>7 DEF WriteManifest, WriteLock, UnlinkFragment, RegenerateSamples
<1>8. CASE WriteChangelog(c)
  BY <1>8 DEF WriteChangelog
<1>9. CASE PushReleaseBranch(c) \/ ListPulls(c) \/ CreatePull(c)
  BY <1>9 DEF PushReleaseBranch, ListPulls, CreatePull
<1>10. QED
  BY <1>1, <1>2, <1>3, <1>4, <1>5, <1>6, <1>7, <1>8, <1>9, StepOfClone DEF ScriptStep

(* Nothing else than these steps reaches the remote.                       *)
LEMMA RemoteChanges ==
  ASSUME [Next]_vars
  PROVE  \/ \E c \in Clones : PushReleaseBranch(c)
         \/ \E c \in Clones : CreatePull(c)
         \/ Develop
         \/ \E v \in Versions : MergePull(v) \/ ClosePull(v)
         \/ UNCHANGED remote
<1>1. ASSUME NEW c \in Clones, ScriptStep(c), ~ PushReleaseBranch(c), ~ CreatePull(c)
      PROVE  UNCHANGED remote
  <2>1. CASE CreateReleaseBranch(c) \/ WriteManifest(c) \/ WriteLock(c)
    BY <2>1 DEF CreateReleaseBranch, WriteManifest, WriteLock
  <2>2. CASE WriteChangelog(c) \/ UnlinkFragment(c) \/ RegenerateSamples(c)
    BY <2>2 DEF WriteChangelog, UnlinkFragment, RegenerateSamples
  <2>3. CASE CommitReleaseChanges(c) \/ ListPulls(c)
    BY <2>3 DEF CommitReleaseChanges, ListPulls
  <2>4. QED
    BY <1>1, <2>1, <2>2, <2>3 DEF ScriptStep
<1>2. ASSUME NEW c \in Clones, Run(c) \/ Die(c) \/ Discard(c) \/ CommitByHand(c) \/ UpdateFromMain(c)
      PROVE  UNCHANGED remote
  BY <1>2 DEF Run, Die, Discard, CommitByHand, UpdateFromMain
<1>3. UNCHANGED vars => UNCHANGED remote
  BY DEF vars
<1>4. QED
  BY <1>1, <1>2, <1>3 DEF Next

-----------------------------------------------------------------------------
(* Nothing is lost: what a branch has seen is one of its fragments until a *)
(* commit removes it, and is then listed.                                  *)

(* The fragments of a branch are those that its commits added and did not  *)
(* remove; what was removed is listed, and by a commit on the release      *)
(* files.                                                                  *)
Recorded(X) ==
  /\ X.tree.fragments = Added(X) \ Removed(X)
  /\ Removed(X) \subseteq Listed(X.tree)
  /\ Listed(X.tree) \subseteq Added(X)
  /\ \A commit \in X.log : commit.removes # {} => commit.release

(* Fragments come from the branch main.                                    *)
Rooted(X, trunk) == \A commit \in X.log : commit.adds # {} => commit \in trunk.log

(* All branches are like that, and know no fragment that main does not.    *)
AllRecorded ==
  /\ Recorded(main)
  /\ \A v \in Versions : pushed[v] # Absent => Recorded(pushed[v]) /\ Rooted(pushed[v], main)
  /\ \A c \in Clones, v \in Versions :
       local[c][v] # Absent => Recorded(local[c][v]) /\ Rooted(local[c][v], main)

(* So is main at the start, whose log is empty.                            *)
LEMMA StartRecorded == Recorded(Start0)
BY DEF Recorded, Start0, Added, Removed, Listed

(* What a listing tree lists.                                              *)
LEMMA ListedByListing ==
  ASSUME NEW c \in Clones, Listing(c)
  PROVE  Listed(work[c]) = Listed(CheckedOut(c).tree) \cup CheckedOut(c).tree.fragments
<1>1. /\ DOMAIN work[c].sections = DOMAIN CheckedOut(c).tree.sections \cup {version[c]}
      /\ work[c].sections[version[c]] = CheckedOut(c).tree.fragments
      /\ \A w \in DOMAIN CheckedOut(c).tree.sections :
           work[c].sections[w] = CheckedOut(c).tree.sections[w]
  BY DEF Listing
<1>2. QED
  BY <1>1 DEF Listed

(* What a commit adds to the log.                                          *)
LEMMA CommittedLog ==
  ASSUME NEW c \in Clones
  PROVE  /\ Added(Committed(c)) = Added(CheckedOut(c))
         /\ Removed(Committed(c)) =
              Removed(CheckedOut(c)) \cup (CheckedOut(c).tree.fragments \ work[c].fragments)
         /\ Committed(c).log = CheckedOut(c).log \cup {NewCommit(c)}
         /\ Committed(c).tree = work[c]
<1>1. /\ Committed(c).log = CheckedOut(c).log \cup {NewCommit(c)}
      /\ Committed(c).tree = work[c]
  BY DEF Committed
<1>2. /\ NewCommit(c).adds = {}
      /\ NewCommit(c).removes = CheckedOut(c).tree.fragments \ work[c].fragments
  BY DEF NewCommit
<1>3. QED
  BY <1>1, <1>2 DEF Added, Removed

(* A commit of a run removes only what the tree lists.                     *)
LEMMA CommittedRecorded ==
  ASSUME NEW c \in Clones, CheckedOut(c) \in Branch, work[c] \in Tree,
         Recorded(CheckedOut(c)), Untouched(c) \/ Listing(c)
  PROVE  Recorded(Committed(c))
<1> DEFINE start == CheckedOut(c).tree
<1>1. /\ work[c].fragments \subseteq start.fragments
      /\ Listed(start) \subseteq Listed(work[c])
      /\ Listed(work[c]) \subseteq Listed(start) \cup start.fragments
      /\ start.fragments \ work[c].fragments \subseteq Listed(work[c])
  <2>1. CASE Untouched(c)
    BY <2>1 DEF Untouched, Listed
  <2>2. CASE Listing(c)
    BY <2>2, ListedByListing DEF Listing
  <2>3. QED
    BY <2>1, <2>2
<1>2. NewCommit(c).removes # {} => NewCommit(c).release
  <2>1. SUFFICES ASSUME start.fragments \ work[c].fragments # {}
                 PROVE  [ work[c] EXCEPT !.fragments = {} ] # [ start EXCEPT !.fragments = {} ]
    BY DEF NewCommit
  <2>2. Listing(c)
    BY <2>1 DEF Untouched
  <2>3. work[c].sections # start.sections
    BY <2>2 DEF Listing
  <2>4. /\ [ work[c] EXCEPT !.fragments = {} ].sections = work[c].sections
        /\ [ start EXCEPT !.fragments = {} ].sections = start.sections
    BY DEF Branch, Tree
  <2>5. QED
    BY <2>3, <2>4
<1> HIDE DEF start
<1>3. QED
  BY <1>1, <1>2, CommittedLog DEF Recorded, start

(* A side without release commits of its own has removed nothing of its own. *)
LEMMA RemovedByReleases ==
  ASSUME NEW X, NEW M, Recorded(X), ReleaseCommits(X, M) = {}
  PROVE  Removed(X) \subseteq Removed(M)
BY DEF Recorded, ReleaseCommits, Removed

(* A merge without a conflict takes the sections of one side; the other    *)
(* has then removed nothing that this one does not list.                   *)
LEMMA MergedRecorded ==
  ASSUME NEW X \in Branch, NEW M \in Branch, Recorded(X), Recorded(M), ~ Conflict(X, M),
         NEW Y, Y.tree = MergedTree(X, M),
         Added(Y) = Added(X) \cup Added(M), Removed(Y) = Removed(X) \cup Removed(M),
         \A commit \in Y.log : commit.removes # {} => commit.release
  PROVE  Recorded(Y)
<1>1. Y.tree.fragments = (X.tree.fragments \cup M.tree.fragments) \ (Removed(X) \cup Removed(M))
  BY DEF MergedTree, Branch, Tree
<1>2. Y.tree.fragments = Added(Y) \ Removed(Y)
  BY <1>1 DEF Recorded
<1>3. CASE ReleaseCommits(X, M) # {}
  <2>1. Y.tree.sections = X.tree.sections
    BY <1>3 DEF MergedTree, Branch, Tree
  <2>2. Removed(M) \subseteq Removed(X)
    BY <1>3, RemovedByReleases DEF Conflict
  <2>3. QED
    BY <1>2, <2>1, <2>2 DEF Recorded, Listed
<1>4. CASE ReleaseCommits(X, M) = {}
  <2>1. Y.tree.sections = M.tree.sections
    BY <1>4 DEF MergedTree, Branch, Tree
  <2>2. Removed(X) \subseteq Removed(M)
    BY <1>4, RemovedByReleases
  <2>3. QED
    BY <1>2, <2>1, <2>2 DEF Recorded, Listed
<1>5. QED
  BY <1>3, <1>4

(* The logs of merged branches.                                            *)
LEMMA UpdatedLog ==
  ASSUME NEW c \in Clones
  PROVE  /\ UpdatedFromMain(c).tree = MergedTree(CheckedOut(c), main)
         /\ UpdatedFromMain(c).log = CheckedOut(c).log \cup main.log
         /\ Added(UpdatedFromMain(c)) = Added(CheckedOut(c)) \cup Added(main)
         /\ Removed(UpdatedFromMain(c)) = Removed(CheckedOut(c)) \cup Removed(main)
<1>1. /\ UpdatedFromMain(c).tree = MergedTree(CheckedOut(c), main)
      /\ UpdatedFromMain(c).log = CheckedOut(c).log \cup main.log
  BY DEF UpdatedFromMain
<1>2. QED
  BY <1>1 DEF Added, Removed

(* The commit that MergePull adds to main.                                 *)
MergeCommit(v) ==
  [ by |-> "main", for |-> v, adds |-> {},
    removes |-> Removed(pushed[v]) \ Removed(main), release |-> TRUE ]

(* A branch has seen no fragment that the trunk has not.                   *)
LEMMA RootedAdds ==
  ASSUME NEW X, NEW trunk, Rooted(X, trunk)
  PROVE  Added(X) \subseteq Added(trunk)
BY DEF Rooted, Added

(* main after the merge of a release pull request.                         *)
LEMMA MergedLog ==
  ASSUME TypeOK, NEW v \in Versions, MergePull(v), Rooted(pushed[v], main)
  PROVE  /\ pushed[v] \in Branch /\ ~ Conflict(pushed[v], main)
         /\ main'.tree = MergedTree(pushed[v], main)
         /\ main'.log = main.log \cup {MergeCommit(v)}
         /\ Added(main') = Added(pushed[v]) \cup Added(main)
         /\ Removed(main') = Removed(pushed[v]) \cup Removed(main)
<1>1. /\ pushed[v] \in Branch /\ ~ Conflict(pushed[v], main)
      /\ main'.tree = MergedTree(pushed[v], main)
      /\ main'.log = main.log \cup {MergeCommit(v)}
  BY DEF MergePull, Settle, TypeOK, MergeCommit
<1>2. /\ MergeCommit(v).adds = {}
      /\ MergeCommit(v).removes = Removed(pushed[v]) \ Removed(main)
  BY DEF MergeCommit
<1>3. Added(main') = Added(main)
  BY <1>1, <1>2 DEF Added
<1>4. Removed(main') = Removed(pushed[v]) \cup Removed(main)
  BY <1>1, <1>2 DEF Removed
<1>5. QED
  BY <1>1, <1>3, <1>4, RootedAdds

(* main after a pull request with a new fragment.                          *)
LEMMA DevelopedLog ==
  ASSUME TypeOK, Develop
  PROVE  \E fragment \in Fragments \ Added(main) :
           /\ main'.tree = [ main.tree EXCEPT !.fragments = @ \cup {fragment} ]
           /\ Added(main') = Added(main) \cup {fragment}
           /\ Removed(main') = Removed(main)
           /\ main'.log = main.log \cup
                { [ by |-> "main", for |-> NoVersion, adds |-> {fragment},
                    removes |-> {}, release |-> FALSE ] }
<1>1. PICK fragment \in Fragments \ Added(main) :
        main' = [ tree |-> [ main.tree EXCEPT !.fragments = @ \cup {fragment} ],
                  log |-> main.log \cup
                    { [ by |-> "main", for |-> NoVersion, adds |-> {fragment},
                        removes |-> {}, release |-> FALSE ] } ]
  BY DEF Develop
<1> DEFINE commit == [ by |-> "main", for |-> NoVersion, adds |-> {fragment},
                       removes |-> {}, release |-> FALSE ]
<1>2. commit.adds = {fragment} /\ commit.removes = {}
  OBVIOUS
<1>3. main'.log = main.log \cup {commit}
  BY <1>1
<1> HIDE DEF commit
<1>4. Added(main') = Added(main) \cup {fragment} /\ Removed(main') = Removed(main)
  BY <1>2, <1>3 DEF Added, Removed
<1>5. QED
  BY <1>1, <1>4

(* What happens to main, whoever does it.                                  *)
LEMMA MainGrows ==
  ASSUME Control, [Next]_vars
  PROVE  main.log \subseteq main'.log
<1>1. ASSUME NEW c \in Clones, PushReleaseBranch(c) \/ CreatePull(c) PROVE main' = main
  BY <1>1 DEF PushReleaseBranch, CreatePull
<1>2. ASSUME Develop PROVE main.log \subseteq main'.log
  BY <1>2, DevelopedLog DEF Control
<1>3. ASSUME NEW v \in Versions, MergePull(v) \/ ClosePull(v) PROVE main.log \subseteq main'.log
  BY <1>3 DEF MergePull, ClosePull
<1>4. QED
  BY <1>1, <1>2, <1>3, RemoteChanges DEF remote

(* A release branch at the remote is what a clone pushed, until it is      *)
(* deleted.                                                                *)
LEMMA PushedChanges ==
  ASSUME TypeOK, [Next]_vars, NEW v \in Versions
  PROVE  \/ pushed'[v] = pushed[v] \/ pushed'[v] = Absent
         \/ \E c \in Clones : PushReleaseBranch(c) /\ version[c] = v /\ pushed'[v] = local[c][v]
<1>1. ASSUME NEW c \in Clones, PushReleaseBranch(c)
      PROVE  pushed'[v] = pushed[v] \/ (version[c] = v /\ pushed'[v] = local[c][v])
  BY <1>1 DEF PushReleaseBranch, TypeOK
<1>2. ASSUME NEW w \in Versions, MergePull(w) PROVE pushed'[v] = pushed[v] \/ pushed'[v] = Absent
  BY <1>2 DEF MergePull, TypeOK
<1>3. QED
  BY <1>1, <1>2, RemoteChanges DEF CreatePull, Develop, ClosePull, remote

(* There is only main at the start.                                        *)
LEMMA RecordedAtFirst == Init => AllRecorded
BY StartRecorded DEF Init, AllRecorded

(* Every step keeps the branches like that.                                *)
LEMMA RecordedStep ==
  ASSUME Control, Control', [Next]_vars, AllRecorded, \A c \in Clones : Working(c)
  PROVE  AllRecorded'
<1>1. ASSUME NEW X, Rooted(X, main) PROVE Rooted(X, main')
  BY <1>1, MainGrows DEF Rooted
<1>2. Rooted(main, main)
  BY DEF Rooted
<1>3. ASSUME NEW c \in Clones, NEW v \in Versions, local'[c][v] # Absent
      PROVE  Recorded(local'[c][v]) /\ Rooted(local'[c][v], main)
  <2>1. CASE local'[c][v] = local[c][v]
    BY <1>3, <2>1 DEF AllRecorded
  <2>2. CASE local'[c][v] = main
    BY <1>2, <2>2 DEF AllRecorded
  <2> DEFINE start == CheckedOut(c)
  <2>3. ASSUME on[c] = v
        PROVE  start \in Branch /\ Recorded(start) /\ Rooted(start, main)
    <3>1. start = local[c][v] /\ local[c][v] # Absent
      BY <2>3, NamesAssumption DEF CheckedOut, Control, Standing
    <3>2. QED
      BY <3>1, CheckedOutIsBranch DEF AllRecorded, Control
  <2>4. CASE on[c] = v /\ local'[c][v] = Committed(c)
    <3>1. Recorded(Committed(c))
      BY <2>3, <2>4, CommittedRecorded DEF Control, TypeOK, Working
    <3>2. Committed(c).log = start.log \cup {NewCommit(c)} /\ NewCommit(c).adds = {}
      BY CommittedLog DEF NewCommit
    <3>3. Rooted(Committed(c), main)
      BY <2>3, <2>4, <3>2 DEF Rooted
    <3>4. QED
      BY <2>4, <3>1, <3>3
  <2>5. CASE /\ on[c] = v /\ local'[c][v] = UpdatedFromMain(c)
             /\ ~ Conflict(main, CheckedOut(c))
    <3>1. main \in Branch /\ Recorded(main)
      BY DEF Control, TypeOK, AllRecorded
    <3>2. \A commit \in UpdatedFromMain(c).log : commit.removes # {} => commit.release
      BY <2>3, <2>5, <3>1, UpdatedLog DEF Recorded
    <3>3. Recorded(UpdatedFromMain(c))
      BY <2>3, <2>5, <3>1, <3>2, UpdatedLog, MergedRecorded DEF Conflict
    <3>4. Rooted(UpdatedFromMain(c), main)
      BY <2>3, <2>5, UpdatedLog DEF Rooted
    <3>5. QED
      BY <2>5, <3>3, <3>4
  <2>6. QED
    BY <2>1, <2>2, <2>4, <2>5, LocalChanges
<1>4. ASSUME NEW v \in Versions, pushed'[v] # Absent
      PROVE  Recorded(pushed'[v]) /\ Rooted(pushed'[v], main)
  <2>1. CASE pushed'[v] = pushed[v]
    BY <1>4, <2>1 DEF AllRecorded
  <2>2. ASSUME NEW c \in Clones, pushed'[v] = local[c][v]
        PROVE  Recorded(pushed'[v]) /\ Rooted(pushed'[v], main)
    BY <1>4, <2>2 DEF AllRecorded
  <2>3. QED
    BY <1>4, <2>1, <2>2, PushedChanges DEF Control
<1>5. Recorded(main')
  <2>1. CASE main' = main
    BY <2>1 DEF AllRecorded
  <2>2. CASE Develop
    <3>1. PICK fragment \in Fragments \ Added(main) :
            /\ main'.tree = [ main.tree EXCEPT !.fragments = @ \cup {fragment} ]
            /\ Added(main') = Added(main) \cup {fragment}
            /\ Removed(main') = Removed(main)
            /\ main'.log = main.log \cup
                 { [ by |-> "main", for |-> NoVersion, adds |-> {fragment},
                     removes |-> {}, release |-> FALSE ] }
      BY <2>2, DevelopedLog DEF Control
    <3>2. /\ main'.tree.fragments = main.tree.fragments \cup {fragment}
          /\ main'.tree.sections = main.tree.sections
      BY <3>1 DEF Control, TypeOK, Branch, Tree
    <3>3. Listed(main'.tree) = Listed(main.tree)
      BY <3>2 DEF Listed
    <3>4. \A commit \in main'.log : commit.removes # {} => commit.release
      BY <3>1 DEF AllRecorded, Recorded
    <3>5. fragment \notin Removed(main)
      BY DEF AllRecorded, Recorded
    <3>6. QED
      BY <3>1, <3>2, <3>3, <3>4, <3>5 DEF AllRecorded, Recorded
  <2>3. ASSUME NEW v \in Versions, MergePull(v) PROVE Recorded(main')
    <3>1. Recorded(pushed[v]) /\ Rooted(pushed[v], main) /\ Recorded(main) /\ main \in Branch
      BY <2>3 DEF MergePull, Settle, AllRecorded, Control, TypeOK
    <3>2. MergeCommit(v).release
      BY DEF MergeCommit
    <3>3. \A commit \in main'.log : commit.removes # {} => commit.release
      BY <2>3, <3>1, <3>2, MergedLog DEF Recorded, Control
    <3>4. QED
      BY <2>3, <3>1, <3>3, MergedLog, MergedRecorded DEF Control
  <2>4. QED
    BY <2>1, <2>2, <2>3, RemoteChanges DEF remote, PushReleaseBranch, CreatePull, ClosePull
<1>6. QED
  BY <1>1, <1>3, <1>4, <1>5 DEF AllRecorded

-----------------------------------------------------------------------------
(* Releases: a branch has the sections of the releases of main that it     *)
(* knows, and one section of its own.                                      *)

(* Every section was committed, those of other versions on main; and what  *)
(* a branch has of main's releases is as it is on main.                    *)
Anchored(X, v, trunk) ==
  /\ \A commit \in X.log : commit.by = "main" => commit \in trunk.log
  /\ \A w \in DOMAIN X.tree.sections :
       \E commit \in X.log : commit.release /\ commit.for = w /\ (w # v => commit.by = "main")
  /\ \A commit \in X.log : commit.by = "main" /\ commit.release =>
       /\ commit.for \in DOMAIN X.tree.sections /\ commit.for \in DOMAIN trunk.tree.sections
       /\ X.tree.sections[commit.for] = trunk.tree.sections[commit.for]

(* All branches are like that; main has only commits of its own, and what  *)
(* was pushed is complete.                                                 *)
AllAnchored ==
  /\ Anchored(main, NoVersion, main)
  /\ \A commit \in main.log : commit.by = "main"
  /\ \A v \in Versions :
       pushed[v] # Absent => Anchored(pushed[v], v, main) /\ Complete(pushed[v].tree, v)
  /\ \A c \in Clones, v \in Versions : local[c][v] # Absent => Anchored(local[c][v], v, main)

(* Releases of the trunk stay.                                             *)
Extends(trunk, later) ==
  /\ trunk.log \subseteq later.log
  /\ \A w \in DOMAIN trunk.tree.sections :
       /\ w \in DOMAIN later.tree.sections
       /\ later.tree.sections[w] = trunk.tree.sections[w]

(* Releases of the trunk stay, so a branch need not follow it.             *)
LEMMA AnchoredLater ==
  ASSUME NEW X, NEW v, NEW trunk, NEW later, Anchored(X, v, trunk), Extends(trunk, later)
  PROVE  Anchored(X, v, later)
BY DEF Anchored, Extends

(* The trunk is anchored in itself, whoever makes a release branch of it.  *)
LEMMA AnchoredTrunk ==
  ASSUME NEW trunk, Anchored(trunk, NoVersion, trunk), \A commit \in trunk.log : commit.by = "main",
         NEW v
  PROVE  Anchored(trunk, v, trunk)
BY DEF Anchored

(* A commit of a run adds at most the section of its version.              *)
LEMMA CommittedAnchored ==
  ASSUME NEW c \in Clones, CheckedOut(c) \in Branch, work[c] \in Tree, NEW trunk,
         Anchored(CheckedOut(c), version[c], trunk), Untouched(c) \/ Listing(c)
  PROVE  Anchored(Committed(c), version[c], trunk)
<1> DEFINE start == CheckedOut(c)
<1>1. /\ Committed(c).tree = work[c] /\ Committed(c).log = start.log \cup {NewCommit(c)}
      /\ NewCommit(c).by # "main" /\ NewCommit(c).for = version[c]
  BY CommittedLog, NamesAssumption DEF NewCommit
<1>2. CASE Untouched(c)
  BY <1>1, <1>2 DEF Anchored, Untouched
<1>3. CASE Listing(c)
  <2>1. /\ DOMAIN work[c].sections = DOMAIN start.tree.sections \cup {version[c]}
        /\ \A w \in DOMAIN start.tree.sections : work[c].sections[w] = start.tree.sections[w]
        /\ version[c] \notin DOMAIN start.tree.sections
    BY <1>3 DEF Listing
  <2>2. NewCommit(c).release
    <3>1. work[c].sections # start.tree.sections
      BY <2>1
    <3>2. /\ [ work[c] EXCEPT !.fragments = {} ].sections = work[c].sections
          /\ [ start.tree EXCEPT !.fragments = {} ].sections = start.tree.sections
      BY DEF Branch, Tree
    <3>3. QED
      BY <3>1, <3>2 DEF NewCommit
  <2> HIDE DEF start
  <2>3. QED
    BY <1>1, <2>1, <2>2 DEF Anchored, start
<1>4. QED
  BY <1>2, <1>3

(* Merging keeps the trunk's releases and adds the branch's own.           *)
LEMMA MergedSections ==
  ASSUME NEW X \in Branch, NEW trunk \in Branch, NEW v, Anchored(X, v, trunk),
         Anchored(trunk, NoVersion, trunk), \A commit \in trunk.log : commit.by = "main",
         ~ Conflict(X, trunk)
  PROVE  /\ \/ MergedTree(X, trunk).sections = trunk.tree.sections
            \/ MergedTree(X, trunk).sections = X.tree.sections
         /\ \A w \in DOMAIN trunk.tree.sections :
              /\ w \in DOMAIN MergedTree(X, trunk).sections
              /\ MergedTree(X, trunk).sections[w] = trunk.tree.sections[w]
         /\ DOMAIN X.tree.sections \subseteq DOMAIN MergedTree(X, trunk).sections
         /\ DOMAIN MergedTree(X, trunk).sections \subseteq DOMAIN trunk.tree.sections \cup {v}
<1>1. CASE ReleaseCommits(X, trunk) # {}
  <2>1. MergedTree(X, trunk).sections = X.tree.sections
    BY <1>1 DEF MergedTree, Branch, Tree
  <2>2. ReleaseCommits(trunk, X) = {}
    BY <1>1 DEF Conflict
  <2>3. ASSUME NEW w \in DOMAIN trunk.tree.sections
        PROVE  w \in DOMAIN X.tree.sections /\ X.tree.sections[w] = trunk.tree.sections[w]
    <3>1. PICK commit \in trunk.log : commit.release /\ commit.for = w /\ commit.by = "main"
      BY <2>3 DEF Anchored
    <3>2. commit \in X.log
      BY <2>2, <3>1 DEF ReleaseCommits
    <3>3. QED
      BY <3>1, <3>2 DEF Anchored
  <2>4. DOMAIN X.tree.sections \subseteq DOMAIN trunk.tree.sections \cup {v}
    BY DEF Anchored
  <2>5. QED
    BY <2>1, <2>3, <2>4
<1>2. CASE ReleaseCommits(X, trunk) = {}
  <2>1. MergedTree(X, trunk).sections = trunk.tree.sections
    BY <1>2 DEF MergedTree, Branch, Tree
  <2>2. ASSUME NEW w \in DOMAIN X.tree.sections PROVE w \in DOMAIN trunk.tree.sections
    <3>1. PICK commit \in X.log : commit.release /\ commit.for = w
      BY <2>2 DEF Anchored
    <3>2. commit \in trunk.log
      BY <1>2, <3>1 DEF ReleaseCommits
    <3>3. QED
      BY <3>1, <3>2 DEF Anchored
  <2>3. QED
    BY <2>1, <2>2
<1>3. QED
  BY <1>1, <1>2

(* Merging a release pull request keeps main's releases, and main has the  *)
(* new one.                                                                *)
LEMMA MergeExtends ==
  ASSUME Control, NEW v \in Versions, MergePull(v), AllRecorded, AllAnchored
  PROVE  /\ Extends(main, main')
         /\ DOMAIN main'.tree.sections \subseteq DOMAIN main.tree.sections \cup {v}
         /\ v \in DOMAIN main'.tree.sections
<1>1. /\ pushed[v] # Absent /\ Rooted(pushed[v], main) /\ Anchored(pushed[v], v, main)
      /\ v \in DOMAIN pushed[v].tree.sections /\ main \in Branch
  BY DEF MergePull, Settle, AllRecorded, AllAnchored, Complete, Control, TypeOK
<1>2. QED
  BY <1>1, MergedLog, MergedSections DEF Extends, AllAnchored, Control

(* No step takes a release from main or changes it.                        *)
LEMMA TrunkExtends ==
  ASSUME Control, [Next]_vars, AllRecorded, AllAnchored
  PROVE  Extends(main, main')
<1>1. CASE main' = main
  BY <1>1 DEF Extends
<1>2. CASE Develop
  <2>1. main'.tree.sections = main.tree.sections /\ main.log \subseteq main'.log
    BY <1>2, DevelopedLog DEF Control, TypeOK, Branch, Tree
  <2>2. QED
    BY <2>1 DEF Extends
<1>3. ASSUME NEW v \in Versions, MergePull(v) PROVE Extends(main, main')
  BY <1>3, MergeExtends
<1>4. QED
  BY <1>1, <1>2, <1>3, RemoteChanges DEF remote, PushReleaseBranch, CreatePull, ClosePull

(* main has no release at the start, and there is no other branch.         *)
LEMMA AnchoredAtFirst == Init => AllAnchored
BY DEF Init, AllAnchored, Anchored, Start0

(* Every step keeps all branches anchored.                                 *)
LEMMA AnchoredStep ==
  ASSUME Control, Control', [Next]_vars, AllRecorded, AllAnchored, \A c \in Clones : Working(c)
  PROVE  AllAnchored'
<1>1. Extends(main, main')
  BY TrunkExtends
<1>2. ASSUME NEW c \in Clones, NEW v \in Versions, local'[c][v] # Absent
      PROVE  Anchored(local'[c][v], v, main)
  <2> DEFINE start == CheckedOut(c)
  <2>1. CASE local'[c][v] = local[c][v]
    BY <1>2, <2>1 DEF AllAnchored
  <2>2. CASE local'[c][v] = main
    BY <2>2, AnchoredTrunk DEF AllAnchored
  <2>3. ASSUME on[c] = v
        PROVE  start \in Branch /\ Anchored(start, v, main)
    <3>1. start = local[c][v] /\ local[c][v] # Absent
      BY <2>3, NamesAssumption DEF CheckedOut, Control, Standing
    <3>2. QED
      BY <3>1, CheckedOutIsBranch DEF AllAnchored, Control
  <2>4. CASE on[c] = v /\ version[c] = v /\ local'[c][v] = Committed(c)
    BY <2>3, <2>4, CommittedAnchored DEF Control, TypeOK, Working
  <2>5. CASE /\ on[c] = v /\ local'[c][v] = UpdatedFromMain(c)
             /\ ~ Conflict(main, CheckedOut(c))
    <3> DEFINE merged == UpdatedFromMain(c)
    <3>1. main \in Branch /\ Anchored(main, NoVersion, main) /\ ~ Conflict(start, main)
          /\ \A commit \in main.log : commit.by = "main"
      BY <2>5 DEF Control, TypeOK, AllAnchored, Conflict
    <3>2. /\ merged.tree.sections = main.tree.sections \/ merged.tree.sections = start.tree.sections
          /\ \A w \in DOMAIN main.tree.sections :
               /\ w \in DOMAIN merged.tree.sections
               /\ merged.tree.sections[w] = main.tree.sections[w]
          /\ merged.log = start.log \cup main.log
      BY <2>3, <2>5, <3>1, UpdatedLog, MergedSections
    <3>3. \A commit \in merged.log : commit.by = "main" => commit \in main.log
      BY <2>3, <2>5, <3>2 DEF Anchored
    <3>4. ASSUME NEW w \in DOMAIN merged.tree.sections
          PROVE  \E commit \in merged.log :
                   commit.release /\ commit.for = w /\ (w # v => commit.by = "main")
      <4>1. CASE w \in DOMAIN main.tree.sections
        BY <3>1, <3>2, <4>1 DEF Anchored
      <4>2. CASE w \in DOMAIN start.tree.sections
        BY <2>3, <2>5, <3>2, <4>2 DEF Anchored
      <4>3. QED
        BY <3>2, <4>1, <4>2
    <3>5. ASSUME NEW commit \in merged.log, commit.by = "main", commit.release
          PROVE  /\ commit.for \in DOMAIN merged.tree.sections
                 /\ commit.for \in DOMAIN main.tree.sections
                 /\ merged.tree.sections[commit.for] = main.tree.sections[commit.for]
      BY <3>1, <3>2, <3>3, <3>5 DEF Anchored
    <3>6. QED
      BY <2>5, <3>3, <3>4, <3>5 DEF Anchored
  <2>6. QED
    BY <2>1, <2>2, <2>4, <2>5, LocalChanges
<1>3. ASSUME NEW v \in Versions, pushed'[v] # Absent
      PROVE  Anchored(pushed'[v], v, main) /\ Complete(pushed'[v].tree, v)
  <2>1. CASE pushed'[v] = pushed[v]
    BY <1>3, <2>1 DEF AllAnchored
  <2>2. ASSUME NEW c \in Clones, PushReleaseBranch(c), version[c] = v, pushed'[v] = local[c][v]
        PROVE  Anchored(pushed'[v], v, main) /\ Complete(pushed'[v].tree, v)
    <3>1. pc[c] = "push" /\ on[c] = v /\ ~ Dirty(c) /\ Complete(work[c], v)
      BY <2>2 DEF PushReleaseBranch, Control, Steady, Working
    <3>2. local[c][v] # Absent /\ CheckedOut(c) = local[c][v]
      BY <1>3, <2>2, <3>1, NamesAssumption DEF CheckedOut
    <3>3. local[c][v].tree = work[c]
      BY <3>1, <3>2 DEF Dirty
    <3>4. QED
      BY <2>2, <3>1, <3>2, <3>3 DEF AllAnchored
  <2>3. QED
    BY <1>3, <2>1, <2>2, PushedChanges DEF Control
<1>4. Anchored(main', NoVersion, main') /\ \A commit \in main'.log : commit.by = "main"
  <2>1. CASE main' = main
    BY <2>1 DEF AllAnchored
  <2>2. CASE Develop
    <3>1. /\ main'.tree.sections = main.tree.sections
          /\ \A commit \in main'.log \ main.log : commit.by = "main" /\ ~ commit.release
      BY <2>2, DevelopedLog DEF Control, TypeOK, Branch, Tree
    <3>2. QED
      BY <1>1, <3>1 DEF AllAnchored, Anchored, Extends
  <2>3. ASSUME NEW v \in Versions, MergePull(v)
        PROVE  Anchored(main', NoVersion, main') /\ \A commit \in main'.log : commit.by = "main"
    <3>1. /\ main'.log = main.log \cup {MergeCommit(v)}
          /\ MergeCommit(v).by = "main" /\ MergeCommit(v).for = v /\ MergeCommit(v).release
      BY <2>3, MergedLog DEF MergePull, Settle, AllRecorded, MergeCommit, Control
    <3>2. /\ Extends(main, main') /\ v \in DOMAIN main'.tree.sections
          /\ DOMAIN main'.tree.sections \subseteq DOMAIN main.tree.sections \cup {v}
      BY <2>3, MergeExtends
    <3>3. QED
      BY <3>1, <3>2 DEF AllAnchored, Anchored, Extends
  <2>4. QED
    BY <2>1, <2>2, <2>3, RemoteChanges DEF remote, PushReleaseBranch, CreatePull, ClosePull
<1>5. QED
  BY <1>1, <1>2, <1>3, <1>4, AnchoredLater DEF AllAnchored

-----------------------------------------------------------------------------
(* Listed once: as long as nobody commits half of a changelog, what a      *)
(* branch lists was removed from its fragments.                            *)

(* What is listed was removed, and is listed in one section.               *)
Exact(X) ==
  /\ Listed(X.tree) \subseteq Removed(X)
  /\ \A v, w \in DOMAIN X.tree.sections :
       v # w => X.tree.sections[v] \cap X.tree.sections[w] = {}

(* All branches are like that, unless half of a changelog was committed by *)
(* hand.                                                                   *)
AllExact ==
  \/ halfCommitted
  \/ /\ Exact(main)
     /\ \A v \in Versions : pushed[v] # Absent => Exact(pushed[v])
     /\ \A c \in Clones, v \in Versions : local[c][v] # Absent => Exact(local[c][v])

(* A commit that removes every fragment it lists, or lists none, is exact. *)
LEMMA CommittedExact ==
  ASSUME NEW c \in Clones, Recorded(CheckedOut(c)), Exact(CheckedOut(c)),
         Untouched(c) \/ (Listing(c) /\ work[c].fragments = {})
  PROVE  Exact(Committed(c))
<1> DEFINE start == CheckedOut(c)
<1>1. CASE Untouched(c)
  BY <1>1, CommittedLog DEF Exact, Untouched, Listed
<1>2. CASE Listing(c) /\ work[c].fragments = {}
  <2>1. /\ Listed(work[c]) = Listed(start.tree) \cup start.tree.fragments
        /\ Removed(Committed(c)) = Removed(start) \cup start.tree.fragments
        /\ Committed(c).tree = work[c]
    BY <1>2, ListedByListing, CommittedLog
  <2>2. start.tree.fragments \cap Listed(start.tree) = {}
    BY DEF Recorded, Exact
  <2>3. \A w \in DOMAIN start.tree.sections : start.tree.sections[w] \subseteq Listed(start.tree)
    BY DEF Listed
  <2>4. /\ DOMAIN work[c].sections = DOMAIN start.tree.sections \cup {version[c]}
        /\ work[c].sections[version[c]] = start.tree.fragments
        /\ version[c] \notin DOMAIN start.tree.sections
        /\ \A w \in DOMAIN start.tree.sections : work[c].sections[w] = start.tree.sections[w]
    BY <1>2 DEF Listing
  <2> HIDE DEF start
  <2>5. \A v, w \in DOMAIN work[c].sections :
          v # w => work[c].sections[v] \cap work[c].sections[w] = {}
    BY <2>2, <2>3, <2>4 DEF Exact, start
  <2>6. QED
    BY <2>1, <2>5 DEF Exact, start
<1>3. QED
  BY <1>1, <1>2

(* A merge takes the sections of one side and the removals of both.        *)
LEMMA MergedExact ==
  ASSUME NEW X, NEW M, Exact(X), Exact(M), NEW Y, Removed(Y) = Removed(X) \cup Removed(M),
         Y.tree.sections = X.tree.sections \/ Y.tree.sections = M.tree.sections
  PROVE  Exact(Y)
BY DEF Exact, Listed

(* CHANGELOG.md is merged without a conflict only if one side has not      *)
(* changed it.                                                             *)
LEMMA MergedSectionsAreOneSide ==
  ASSUME NEW X \in Branch, NEW M \in Branch
  PROVE  MergedTree(X, M).sections \in { X.tree.sections, M.tree.sections }
BY DEF MergedTree, Branch, Tree

(* The history forgets nothing.                                            *)
LEMMA HalfCommittedStays ==
  ASSUME [Next]_vars, halfCommitted
  PROVE  halfCommitted'
<1>1. ASSUME NEW c \in Clones, ScriptStep(c) PROVE halfCommitted'
  <2>1. CASE CreateReleaseBranch(c) \/ WriteManifest(c) \/ WriteLock(c)
    BY <2>1 DEF CreateReleaseBranch, WriteManifest, WriteLock, history
  <2>2. CASE WriteChangelog(c) \/ UnlinkFragment(c) \/ RegenerateSamples(c)
    BY <2>2 DEF WriteChangelog, UnlinkFragment, RegenerateSamples, history
  <2>3. CASE CommitReleaseChanges(c) \/ PushReleaseBranch(c) \/ ListPulls(c) \/ CreatePull(c)
    BY <2>3 DEF CommitReleaseChanges, PushReleaseBranch, ListPulls, CreatePull, history
  <2>4. QED
    BY <1>1, <2>1, <2>2, <2>3 DEF ScriptStep
<1>2. ASSUME NEW c \in Clones, Run(c) \/ Die(c) \/ Discard(c) \/ CommitByHand(c) \/ UpdateFromMain(c)
      PROVE  halfCommitted'
  BY <1>2 DEF Run, Die, Discard, CommitByHand, UpdateFromMain, history
<1>3. ASSUME NEW v \in Versions, MergePull(v) \/ ClosePull(v) PROVE halfCommitted'
  BY <1>3 DEF MergePull, ClosePull, history
<1>4. QED
  BY <1>1, <1>2, <1>3 DEF Next, Develop, vars, history

(* Nothing is listed at the start.                                         *)
LEMMA ExactAtFirst == Init => AllExact
BY DEF Init, AllExact, Exact, Start0, Listed

(* Every step keeps the branches exact, or commits half a changelog by     *)
(* hand.                                                                   *)
LEMMA ExactStep ==
  ASSUME Control, [Next]_vars, AllRecorded, AllAnchored, AllExact,
         \A c \in Clones : Working(c)
  PROVE  AllExact'
<1> SUFFICES ASSUME ~ halfCommitted'
             PROVE  AllExact'
  BY DEF AllExact
<1>1. /\ Exact(main)
      /\ \A v \in Versions : pushed[v] # Absent => Exact(pushed[v])
      /\ \A c \in Clones, v \in Versions : local[c][v] # Absent => Exact(local[c][v])
  BY HalfCommittedStays DEF AllExact
<1>2. ASSUME NEW c \in Clones, NEW v \in Versions, local'[c][v] # Absent
      PROVE  Exact(local'[c][v])
  <2> DEFINE start == CheckedOut(c)
  <2>1. CASE local'[c][v] = local[c][v] \/ local'[c][v] = main
    BY <1>1, <1>2, <2>1
  <2>2. ASSUME on[c] = v
        PROVE  start \in Branch /\ Recorded(start) /\ Exact(start)
    <3>1. start = local[c][v] /\ local[c][v] # Absent
      BY <2>2, NamesAssumption DEF CheckedOut, Control, Standing
    <3>2. QED
      BY <1>1, <3>1, CheckedOutIsBranch DEF AllRecorded, Control
  <2>3. CASE /\ on[c] = v /\ local'[c][v] = Committed(c)
             /\ Untouched(c) \/ work[c].fragments = {}
    BY <2>2, <2>3, CommittedExact DEF Working
  <2>4. CASE on[c] = v /\ local'[c][v] = UpdatedFromMain(c)
    <3>1. UpdatedFromMain(c).tree.sections \in { start.tree.sections, main.tree.sections }
      BY <2>2, <2>4, UpdatedLog, MergedSectionsAreOneSide DEF Control, TypeOK
    <3>2. QED
      BY <1>1, <2>2, <2>4, <3>1, UpdatedLog, MergedExact
  <2>5. QED
    BY <2>1, <2>3, <2>4, LocalChanges
<1>3. ASSUME NEW v \in Versions, pushed'[v] # Absent
      PROVE  Exact(pushed'[v])
  BY <1>1, <1>3, PushedChanges DEF Control
<1>4. Exact(main')
  <2>1. CASE main' = main
    BY <1>1, <2>1
  <2>2. CASE Develop
    <3>1. main'.tree.sections = main.tree.sections /\ Removed(main') = Removed(main)
      BY <2>2, DevelopedLog DEF Control, TypeOK, Branch, Tree
    <3>2. QED
      BY <1>1, <3>1 DEF Exact, Listed
  <2>3. ASSUME NEW v \in Versions, MergePull(v) PROVE Exact(main')
    <3>1. pushed[v] # Absent /\ Rooted(pushed[v], main)
      BY <2>3 DEF MergePull, Settle, AllRecorded
    <3>2. /\ main'.tree.sections \in { pushed[v].tree.sections, main.tree.sections }
          /\ Removed(main') = Removed(pushed[v]) \cup Removed(main)
      BY <2>3, <3>1, MergedLog, MergedSectionsAreOneSide DEF Control, TypeOK
    <3>3. QED
      BY <1>1, <3>1, <3>2, MergedExact
  <2>4. QED
    BY <2>1, <2>2, <2>3, RemoteChanges DEF remote, PushReleaseBranch, CreatePull, ClosePull
<1>5. QED
  BY <1>2, <1>3, <1>4 DEF AllExact

-----------------------------------------------------------------------------
(* main follows the ledger.                                                *)

(* A new fragment is a step of the ledger.                                 *)
LEMMA LedgerOfDevelop ==
  ASSUME Control, Develop, AllRecorded
  PROVE  Ledger!Add
<1>1. PICK fragment \in Fragments \ Added(main) :
        main'.tree = [ main.tree EXCEPT !.fragments = @ \cup {fragment} ]
  BY DevelopedLog DEF Control
<1>2. /\ main'.tree.fragments = main.tree.fragments \cup {fragment}
      /\ main'.tree.sections = main.tree.sections
  BY <1>1 DEF Control, TypeOK, Branch, Tree
<1>3. fragment \notin main.tree.fragments /\ fragment \notin Listed(main.tree)
  BY DEF AllRecorded, Recorded
<1>4. {fragment} \in SUBSET (main'.tree.fragments \ main.tree.fragments)
  BY <1>2, <1>3
<1>5. {fragment} # {} /\ {fragment} \cap Ledger!Taken = {}
  BY <1>3 DEF Ledger!Taken, Listed
<1>6. QED
  BY <1>2, <1>4, <1>5 DEF Ledger!Add

(* A merged release has a section that main did not have, or says nothing  *)
(* new.                                                                    *)
LEMMA LedgerOfMerge ==
  ASSUME Control, NEW v \in Versions, MergePull(v), AllRecorded, AllRecorded', AllAnchored,
         Exact(main), Exact(main')
  PROVE  Ledger!Release \/ UNCHANGED Ledger!vars
<1>1. /\ pushed[v] \in Branch /\ Rooted(pushed[v], main) /\ main \in Branch
  BY DEF MergePull, Settle, AllRecorded, Control, TypeOK
<1>2. /\ Added(main') = Added(main)
      /\ Removed(main) \subseteq Removed(main')
      /\ main'.tree = MergedTree(pushed[v], main)
  BY <1>1, MergedLog, RootedAdds DEF Control
<1>3. /\ \A w \in DOMAIN main.tree.sections :
           /\ w \in DOMAIN main'.tree.sections
           /\ main'.tree.sections[w] = main.tree.sections[w]
      /\ DOMAIN main'.tree.sections \subseteq DOMAIN main.tree.sections \cup {v}
      /\ v \in DOMAIN main'.tree.sections
  BY MergeExtends DEF Extends
<1>4. /\ main.tree.fragments = Added(main) \ Removed(main)
      /\ main'.tree.fragments = Added(main) \ Removed(main')
      /\ Removed(main) = Listed(main.tree) /\ Removed(main') = Listed(main'.tree)
      /\ Removed(main') \subseteq Added(main)
  BY <1>2 DEF AllRecorded, Recorded, Exact
<1>5. CASE v \in DOMAIN main.tree.sections
  <2>1. DOMAIN main'.tree.sections = DOMAIN main.tree.sections
    BY <1>3, <1>5
  <2>2. Listed(main'.tree) = Listed(main.tree)
    BY <1>3, <2>1 DEF Listed
  <2>3. main'.tree.fragments = main.tree.fragments
    BY <1>4, <2>2
  <2>4. main'.tree.sections = main.tree.sections
    <3>1. main'.tree \in Tree /\ main.tree \in Tree
      BY <1>1, <1>2, MergedIsTree DEF Branch
    <3>2. /\ main'.tree.sections \in Sections
          /\ main.tree.sections \in Sections
      BY <3>1 DEF Tree
    <3>3. /\ main'.tree.sections = [ w \in DOMAIN main'.tree.sections |-> main'.tree.sections[w] ]
          /\ main.tree.sections = [ w \in DOMAIN main.tree.sections |-> main.tree.sections[w] ]
      BY <3>2 DEF Sections
    <3>4. QED
      BY <1>3, <2>1, <3>3
  <2>5. QED
    BY <2>3, <2>4 DEF Ledger!vars
<1>6. CASE v \notin DOMAIN main.tree.sections
  <2>1. DOMAIN main'.tree.sections = DOMAIN main.tree.sections \cup {v}
    BY <1>3
  <2>2. Listed(main'.tree) = Listed(main.tree) \cup main'.tree.sections[v]
    BY <1>3, <2>1 DEF Listed
  <2>3. main'.tree.sections[v] \cap Listed(main.tree) = {}
    BY <1>3, <1>6 DEF Exact, Listed
  <2>4. main'.tree.sections[v] \subseteq main.tree.fragments
    BY <1>4, <2>2, <2>3
  <2>5. main'.tree.fragments = main.tree.fragments \ main'.tree.sections[v]
    BY <1>4, <2>2
  <2>6. v \in DOMAIN main'.tree.sections \ DOMAIN main.tree.sections
    BY <1>3, <1>6
  <2>7. QED
    BY <1>3, <2>1, <2>4, <2>5, <2>6 DEF Ledger!Release
<1>7. QED
  BY <1>5, <1>6

(* main takes steps of the ledger only.                                    *)
LEMMA LedgerStep ==
  ASSUME Control, [Next]_vars, AllRecorded, AllRecorded', AllAnchored, AllExact, AllExact'
  PROVE  Ledger!Next \/ UNCHANGED Ledger!vars \/ halfCommitted
<1>1. CASE main' = main
  BY <1>1 DEF Ledger!vars
<1>2. CASE Develop
  BY <1>2, LedgerOfDevelop DEF Ledger!Next
<1>3. ASSUME NEW v \in Versions, MergePull(v), ~ halfCommitted
      PROVE  Ledger!Next \/ UNCHANGED Ledger!vars
  <2>1. ~ halfCommitted'
    BY <1>3 DEF MergePull, history
  <2>2. Exact(main) /\ Exact(main')
    BY <1>3, <2>1 DEF AllExact
  <2>3. QED
    BY <1>3, <2>2, LedgerOfMerge DEF Ledger!Next
<1>4. QED
  BY <1>1, <1>2, <1>3, RemoteChanges DEF remote, PushReleaseBranch, CreatePull, ClosePull

-----------------------------------------------------------------------------
(* One pull request: the remote's branch of a version has commits of one   *)
(* clone, so only that clone gets past the push.                           *)

(* The commits of a branch are one clone's and main's.                     *)
Alone(X, c) == \A commit \in X.log : commit.by \in {"main", c}

(* All branches are like that.                                             *)
AllAlone ==
  /\ \A c \in Clones, v \in Versions : local[c][v] # Absent => Alone(local[c][v], c)
  /\ \A v \in Versions : pushed[v] # Absent => \E c \in Clones : Alone(pushed[v], c)

(* A clone that is about to ask for a first pull request has pushed.       *)
Asking(c) ==
  /\ pc[c] \in {"list", "create"} /\ pulls[version[c]] = << >> =>
       /\ pushed[version[c]] # Absent
       /\ \E commit \in pushed[version[c]].log : commit.by = c
  /\ pc[c] = "create" => pulls[version[c]] = << >>

(* A version has at most one pull request, an open one has its branch, and *)
(* a version without one is not on main.                                   *)
Single(v) ==
  /\ Len(pulls[v]) <= 1
  /\ IsOpen(v) => pushed[v] # Absent
  /\ pulls[v] = << >> => \A commit \in main.log : commit.for # v

(* A clone gets commits only from main, and pushes over another's only if  *)
(* it has them.                                                            *)
LEMMA AloneStep ==
  ASSUME Control, [Next]_vars, AllAnchored, AllAlone, \A c \in Clones : Working(c)
  PROVE  AllAlone'
<1>1. ASSUME NEW c \in Clones, NEW v \in Versions, local'[c][v] # Absent
      PROVE  Alone(local'[c][v], c)
  <2>1. CASE local'[c][v] = local[c][v]
    BY <1>1, <2>1 DEF AllAlone
  <2>2. CASE local'[c][v] = main
    BY <2>2 DEF AllAnchored, Alone
  <2>3. ASSUME on[c] = v PROVE Alone(CheckedOut(c), c)
    BY <2>3, NamesAssumption DEF CheckedOut, Control, Standing, AllAlone
  <2>4. CASE on[c] = v /\ local'[c][v] = Committed(c)
    <3>1. Committed(c).log = CheckedOut(c).log \cup {NewCommit(c)} /\ NewCommit(c).by = c
      BY CommittedLog DEF NewCommit
    <3>2. QED
      BY <2>3, <2>4, <3>1 DEF Alone
  <2>5. CASE on[c] = v /\ local'[c][v] = UpdatedFromMain(c)
    BY <2>3, <2>5, UpdatedLog DEF Alone, AllAnchored
  <2>6. QED
    BY <2>1, <2>2, <2>4, <2>5, LocalChanges
<1>2. ASSUME NEW v \in Versions, pushed'[v] # Absent
      PROVE  \E c \in Clones : Alone(pushed'[v], c)
  BY <1>2, PushedChanges DEF Control, AllAlone
<1>3. QED
  BY <1>1, <1>2 DEF AllAlone

(* Pull requests come only by CreatePull, one at a time, and never go.     *)
LEMMA PullsChange ==
  ASSUME TypeOK, [Next]_vars, NEW v \in Versions
  PROVE  \/ pulls'[v] = pulls[v]
         \/ /\ \E c \in Clones : CreatePull(c) /\ version[c] = v
            /\ pushed[v] # Absent
            /\ pulls'[v] = Append(pulls[v], "open")
         \/ /\ \E from, to \in {"open", "closed", "merged"} : Settle(v, from, to)
            /\ pulls[v] # << >>
            /\ Len(pulls'[v]) = Len(pulls[v]) /\ pulls'[v] # << >>
<1>1. ASSUME NEW c \in Clones, CreatePull(c), pulls'[v] # pulls[v]
      PROVE  version[c] = v /\ pushed[v] # Absent /\ pulls'[v] = Append(pulls[v], "open")
  BY <1>1 DEF CreatePull, TypeOK
<1>2. ASSUME NEW w \in Versions, NEW from \in {"open", "closed", "merged"},
             NEW to \in {"open", "closed", "merged"}, Settle(w, from, to)
      PROVE  \/ pulls'[v] = pulls[v]
             \/ /\ Settle(v, from, to) /\ pulls[v] # << >>
                /\ Len(pulls'[v]) = Len(pulls[v]) /\ pulls'[v] # << >>
  <2>1. CASE v = w
    <3>1. /\ DOMAIN pulls'[v] = DOMAIN pulls[v] /\ Len(pulls'[v]) = Len(pulls[v])
      BY <1>2, <2>1, SettledPulls
    <3>2. DOMAIN pulls[v] # {}
      BY <1>2, <2>1 DEF Settle
    <3>3. DOMAIN << >> = {}
      OBVIOUS
    <3>4. QED
      BY <1>2, <2>1, <3>1, <3>2, <3>3
  <2>2. CASE v # w
    BY <1>2, <2>2, SettledPulls
  <2>3. QED
    BY <2>1, <2>2
<1>3. ASSUME NEW w \in Versions, MergePull(w) \/ ClosePull(w)
      PROVE  \E from, to \in {"open", "closed", "merged"} : Settle(w, from, to)
  BY <1>3 DEF MergePull, ClosePull
<1>4. QED
  BY <1>1, <1>2, <1>3, RemoteChanges DEF Develop, PushReleaseBranch, remote

(* A clone that talks to the remote has just pushed or listed, or waits.   *)
LEMMA TalkingClone ==
  ASSUME Control, [Next]_vars, NEW c \in Clones, pc'[c] \in {"list", "create"}
  PROVE  \/ Same(c)
         \/ PushReleaseBranch(c) /\ pc'[c] = "list"
         \/ ListPulls(c) /\ pc[c] = "list" /\ pc'[c] = "create"
<1> USE DEF Control, TypeOK
<1>1. CASE Run(c) \/ Die(c) \/ Discard(c) \/ CommitByHand(c) \/ UpdateFromMain(c)
  BY <1>1 DEF Run, Die, Discard, CommitByHand, UpdateFromMain
<1>2. CASE CreateReleaseBranch(c) \/ WriteManifest(c) \/ WriteLock(c)
  BY <1>2 DEF CreateReleaseBranch, WriteManifest, WriteLock, Goes
<1>3. CASE WriteChangelog(c) \/ UnlinkFragment(c)
  BY <1>3 DEF WriteChangelog, UnlinkFragment, Goes
<1>4. CASE RegenerateSamples(c) \/ CommitReleaseChanges(c)
  BY <1>4 DEF RegenerateSamples, CommitReleaseChanges, Goes
<1>5. CASE PushReleaseBranch(c)
  BY <1>5 DEF PushReleaseBranch, Goes, Returns
<1>6. CASE ListPulls(c)
  BY <1>6 DEF ListPulls, Goes, Returns
<1>7. CASE CreatePull(c)
  BY <1>7 DEF CreatePull, Goes, Returns
<1>8. QED
  BY <1>1, <1>2, <1>3, <1>4, <1>5, <1>6, <1>7, StepOfClone DEF ScriptStep

(* What is pushed as a first release has a commit of its clone.            *)
LEMMA PushedOwn ==
  ASSUME Control, AllAnchored, AllAlone, NEW c \in Clones, Working(c), pc[c] = "push",
         Single(version[c]), pulls[version[c]] = << >>
  PROVE  \E commit \in local[c][version[c]].log : commit.by = c
<1>1. /\ version[c] \in Versions /\ on[c] = version[c] /\ ~ Dirty(c)
      /\ local[c][version[c]] # Absent /\ CheckedOut(c) = local[c][version[c]]
  <2>1. version[c] \in Versions /\ on[c] = version[c] /\ ~ Dirty(c)
    BY DEF Control, Started, Steady
  <2>2. QED
    BY <2>1, NamesAssumption DEF Control, Standing, CheckedOut
<1>2. version[c] \in DOMAIN local[c][version[c]].tree.sections
  BY <1>1 DEF Working, Complete, Dirty
<1>3. Anchored(local[c][version[c]], version[c], main) /\ Alone(local[c][version[c]], c)
  BY <1>1 DEF AllAnchored, AllAlone
<1>4. PICK commit \in local[c][version[c]].log : commit.for = version[c]
  BY <1>2, <1>3 DEF Anchored
<1>5. commit.by # "main"
  BY <1>3, <1>4 DEF Anchored, Single
<1>6. QED
  BY <1>3, <1>4, <1>5 DEF Alone

(* Two clones that got past the push for one version would both have       *)
(* commits in its branch; one of them has none of the other's.             *)
LEMMA AskingStep ==
  ASSUME Control, [Next]_vars, AllAnchored, AllAlone, \A c \in Clones : Working(c),
         \A v \in Versions : Single(v), \A c \in Clones : Asking(c), NEW c \in Clones
  PROVE  Asking(c)'
<1> SUFFICES ASSUME pc'[c] \in {"list", "create"}
             PROVE  Asking(c)'
  BY DEF Asking
<1> DEFINE v == version[c]
<1>1. pc[c] \in {"push", "list", "create"} /\ version'[c] = v /\ v \in Versions
  BY TalkingClone DEF PushReleaseBranch, ListPulls, Goes, Returns, Same, Control, TypeOK, Started
<1> HIDE DEF v
<1>2. pulls'[v] = << >> => pulls[v] = << >>
  <2>1. pulls[v] \in Seq({"open", "closed", "merged"})
    BY <1>1 DEF Control, TypeOK
  <2>2. Append(pulls[v], "open") # << >>
    BY <2>1
  <2>3. QED
    BY <1>1, <2>2, PullsChange DEF Control
<1>3. ASSUME pulls'[v] = << >>
      PROVE  pushed'[v] # Absent /\ \E commit \in pushed'[v].log : commit.by = c
  <2>1. CASE PushReleaseBranch(c) /\ pc'[c] = "list"
    <3>1. pushed'[v] = local[c][v] /\ pc[c] = "push"
      BY <1>1, <2>1 DEF PushReleaseBranch, Returns, Goes, Control, TypeOK, v
    <3>2. \E commit \in local[c][v].log : commit.by = c
      BY <1>1, <1>2, <1>3, <3>1, PushedOwn DEF v
    <3>3. local[c][v] # Absent
      BY <1>1, <3>1, NamesAssumption DEF Control, Steady, Standing, v
    <3>4. QED
      BY <3>1, <3>2, <3>3
  <2>2. CASE pc[c] \in {"list", "create"}
    <3>1. pushed[v] # Absent /\ \E commit \in pushed[v].log : commit.by = c
      BY <1>2, <1>3, <2>2 DEF Asking, v
    <3>2. ASSUME NEW d \in Clones, PushReleaseBranch(d)
          PROVE  pushed'[v] # Absent /\ pushed[v].log \subseteq pushed'[v].log
      <4>1. \/ pushed'[v] = pushed[v]
            \/ /\ pc[d] = "push" /\ version[d] = v
               /\ pushed'[v] = local[d][v] /\ IsAncestor(pushed[v], local[d][v])
        BY <3>1, <3>2, <1>1 DEF PushReleaseBranch, Control, TypeOK
      <4>2. pc[d] = "push" /\ version[d] = v => local[d][v] # Absent
        BY <1>1, NamesAssumption DEF Control, Steady, Standing
      <4>3. QED
        BY <3>1, <4>1, <4>2 DEF IsAncestor
    <3>3. ASSUME NEW w \in Versions, MergePull(w) PROVE pushed'[v] = pushed[v]
      <4>1. w # v
        <5>1. DOMAIN << >> = {}
          OBVIOUS
        <5>2. DOMAIN pulls[w] # {}
          BY <3>3 DEF MergePull, Settle
        <5>3. QED
          BY <1>2, <1>3, <5>1, <5>2
      <4>2. QED
        BY <3>3, <4>1, <1>1 DEF MergePull, Control, TypeOK
    <3>4. \/ pushed'[v] = pushed[v]
          \/ pushed'[v] # Absent /\ pushed[v].log \subseteq pushed'[v].log
      BY <3>2, <3>3, RemoteChanges DEF CreatePull, Develop, ClosePull, remote
    <3>5. QED
      BY <3>1, <3>4
  <2>3. QED
    BY <2>1, <2>2, TalkingClone DEF Same
<1>4. ASSUME pc'[c] = "create"
      PROVE  pulls'[v] = << >>
  <2>1. pulls[v] = << >>
    BY <1>4, TalkingClone DEF Asking, Same, ListPulls, Returns, Goes, Control, TypeOK, v
  <2>2. ASSUME NEW d \in Clones, CreatePull(d), version[d] = v PROVE FALSE
    <3>1. pc[d] = "create" /\ pc'[d] = "idle"
      BY <2>2 DEF CreatePull, Returns, Goes, Control, TypeOK
    <3>2. pc[c] \in {"list", "create"} /\ d # c
      BY <1>4, <2>2, <3>1, TalkingClone DEF Same
    <3>3. /\ \E commit \in pushed[v].log : commit.by = d
          /\ \E commit \in pushed[v].log : commit.by = c
          /\ pushed[v] # Absent
      BY <2>1, <2>2, <3>1, <3>2 DEF Asking, v
    <3>4. \E e \in Clones : Alone(pushed[v], e)
      BY <1>1, <3>3 DEF AllAlone
    <3>5. QED
      BY <3>2, <3>3, <3>4, NamesAssumption DEF Alone
  <2>3. QED
    BY <1>1, <2>1, <2>2, PullsChange DEF Control
<1>5. QED
  BY <1>1, <1>3, <1>4 DEF Asking

(* So the second pull request is never asked for: the first one is listed. *)
LEMMA SingleStep ==
  ASSUME Control, [Next]_vars, AllRecorded, \A c \in Clones : Asking(c),
         NEW v \in Versions, Single(v)
  PROVE  Single(v)'
<1>1. pulls[v] \in Seq({"open", "closed", "merged"})
  BY DEF Control, TypeOK
<1>2. Len(pulls'[v]) <= 1
  <2>1. ASSUME NEW c \in Clones, CreatePull(c), version[c] = v PROVE pulls[v] = << >>
    BY <2>1 DEF CreatePull, Asking
  <2>2. CASE pulls'[v] = pulls[v]
    BY <2>2 DEF Single
  <2>3. CASE pulls[v] = << >> /\ pulls'[v] = Append(pulls[v], "open")
    BY <2>3
  <2>4. CASE Len(pulls'[v]) = Len(pulls[v])
    BY <2>4 DEF Single
  <2>5. QED
    BY <2>1, <2>2, <2>3, <2>4, PullsChange DEF Control
<1>3. IsOpen(v)' => pushed'[v] # Absent
  <2>1. ASSUME MergePull(v) PROVE ~ IsOpen(v)'
    <3>1. PICK n \in DOMAIN pulls[v] : pulls' = [pulls EXCEPT ![v][n] = "merged"]
      BY <2>1 DEF MergePull, Settle
    <3>2. DOMAIN pulls[v] \subseteq {1}
      BY <1>1 DEF Single
    <3>3. DOMAIN pulls'[v] = DOMAIN pulls[v] /\ pulls'[v][n] = "merged"
      BY <3>1 DEF Control, TypeOK
    <3>4. QED
      BY <3>2, <3>3 DEF IsOpen
  <2>2. CASE pushed'[v] = pushed[v]
    <3>1. CASE pulls'[v] = pulls[v]
      BY <2>2, <3>1 DEF IsOpen, Single
    <3>2. CASE pushed[v] # Absent
      BY <2>2, <3>2
    <3>3. QED
      BY <3>1, <3>2, PullsChange DEF Settle, Control
  <2>3. ASSUME NEW c \in Clones, PushReleaseBranch(c), pushed'[v] # pushed[v]
        PROVE  pushed'[v] # Absent
    <3>1. pc[c] = "push" /\ version[c] = v /\ pushed'[v] = local[c][v]
      BY <2>3 DEF PushReleaseBranch, Control, TypeOK
    <3>2. QED
      BY <3>1, NamesAssumption DEF Control, Steady, Standing
  <2>4. ASSUME NEW w \in Versions \ {v}, MergePull(w) PROVE pushed'[v] = pushed[v]
    BY <2>4 DEF MergePull, Control, TypeOK
  <2>5. QED
    BY <2>1, <2>2, <2>3, <2>4, RemoteChanges DEF CreatePull, Develop, ClosePull, remote
<1>4. ASSUME pulls'[v] = << >>
      PROVE  \A commit \in main'.log : commit.for # v
  <2>1. Append(pulls[v], "open") # << >>
    BY <1>1
  <2>2. pulls'[v] = pulls[v]
    BY <1>4, <2>1, PullsChange DEF Control
  <2>3. \A commit \in main.log : commit.for # v
    BY <1>4, <2>2 DEF Single
  <2>4. CASE Develop
    <3>1. PICK fragment \in Fragments :
            main'.log = main.log \cup
              { [ by |-> "main", for |-> NoVersion, adds |-> {fragment},
                  removes |-> {}, release |-> FALSE ] }
      BY <2>4, DevelopedLog DEF Control
    <3>2. QED
      BY <2>3, <3>1, NamesAssumption
  <2>5. ASSUME NEW w \in Versions, MergePull(w) PROVE \A commit \in main'.log : commit.for # v
    <3>1. DOMAIN << >> = {} /\ DOMAIN pulls[w] # {}
      BY <2>5 DEF MergePull, Settle
    <3>2. w # v
      BY <1>4, <2>2, <3>1
    <3>3. main'.log = main.log \cup {MergeCommit(w)} /\ MergeCommit(w).for = w
      BY <2>5, MergedLog DEF MergePull, Settle, AllRecorded, MergeCommit, Control
    <3>4. QED
      BY <2>3, <3>2, <3>3
  <2>6. QED
    BY <2>3, <2>4, <2>5, RemoteChanges DEF remote, PushReleaseBranch, CreatePull, ClosePull
<1>5. QED
  BY <1>2, <1>3, <1>4 DEF Single

-----------------------------------------------------------------------------
(* The theorems.                                                           *)

(* The inductive invariant.                                                *)
Invariant ==
  /\ Control
  /\ \A c \in Clones : Working(c)
  /\ AllRecorded /\ AllAnchored /\ AllExact
  /\ AllAlone /\ \A c \in Clones : Asking(c)
  /\ \A v \in Versions : Single(v)

(* Nothing is pushed and nothing is asked for at the start.                *)
LEMMA SingleAtFirst ==
  Init => AllAlone /\ (\A c \in Clones : Asking(c)) /\ (\A v \in Versions : Single(v))
<1> SUFFICES ASSUME Init
             PROVE  AllAlone /\ (\A c \in Clones : Asking(c)) /\ (\A v \in Versions : Single(v))
  OBVIOUS
<1>1. AllAlone /\ \A c \in Clones : Asking(c)
  BY DEF Init, AllAlone, Asking
<1>2. ASSUME NEW v \in Versions PROVE Single(v)
  <2>1. DOMAIN << >> = {} /\ Len(<< >>) = 0
    OBVIOUS
  <2>2. QED
    BY <2>1 DEF Init, Single, IsOpen, Start0
<1>3. QED
  BY <1>1, <1>2

(* No tree has been changed at the start.                                  *)
LEMMA WorkingAtFirst == Init => \A c \in Clones : Working(c)
BY CleanIsUntouched DEF Init, Working, Untouched, CheckedOut

(* The invariant holds of every run, whatever the number of clones,        *)
(* versions and fragments and wherever runs die.                           *)
THEOREM Invariance == Spec => []Invariant
<1>1. Init => Invariant
  BY ControlHoldsAtFirst, WorkingAtFirst, RecordedAtFirst, AnchoredAtFirst, ExactAtFirst,
     SingleAtFirst
  DEF Invariant
<1>2. Invariant /\ [Next]_vars => Invariant'
  <2> SUFFICES ASSUME Invariant, [Next]_vars PROVE Invariant'
    OBVIOUS
  <2>1. Control'
    BY ControlStep DEF Invariant
  <2>2. \A c \in Clones : Working(c)'
    BY <2>1, WorkingStep DEF Invariant
  <2>3. AllRecorded' /\ AllAnchored' /\ AllExact'
    BY <2>1, RecordedStep, AnchoredStep, ExactStep DEF Invariant
  <2>4. AllAlone' /\ \A c \in Clones : Asking(c)'
    BY AloneStep, AskingStep DEF Invariant
  <2>5. \A v \in Versions : Single(v)'
    BY SingleStep DEF Invariant
  <2>6. QED
    BY <2>1, <2>2, <2>3, <2>4, <2>5 DEF Invariant
<1>3. QED
  BY <1>1, <1>2, PTL DEF Spec

(* The variables keep their types: the type invariant of PrepareRelease.   *)
THEOREM Typing == Spec => []TypeOK
<1>1. Invariant => TypeOK
  BY DEF Invariant, Control
<1>2. QED
  BY <1>1, Invariance, PTL

(* No entry is lost: what a branch of prepare_release.py or its working    *)
(* tree has seen is a fragment or a line of a release there, wherever runs *)
(* died, whoever started them again and whatever was merged in between.    *)
THEOREM NothingIsLost == Spec => []NothingLost
<1>1. Invariant => NothingLost
  <2> SUFFICES ASSUME Invariant PROVE NothingLost
    OBVIOUS
  <2> DEFINE Keeps(tree, branch) == Added(branch) \subseteq tree.fragments \cup Listed(tree)
  <2>1. ASSUME NEW X, Recorded(X) PROVE Keeps(X.tree, X)
    BY <2>1 DEF Recorded
  <2>2. ASSUME NEW c \in Clones PROVE Keeps(work[c], CheckedOut(c))
    <3>1. Recorded(CheckedOut(c))
      BY StartRecorded DEF Invariant, AllRecorded, Control, TypeOK, Standing, CheckedOut
    <3>2. CASE Untouched(c)
      BY <3>1, <3>2 DEF Recorded, Untouched, Listed
    <3>3. CASE Listing(c)
      BY <3>1, <3>3, ListedByListing DEF Recorded
    <3>4. QED
      BY <3>2, <3>3 DEF Invariant, Working
  <2>3. QED
    BY <2>1, <2>2 DEF NothingLost, Invariant, AllRecorded
<1>2. QED
  BY <1>1, Invariance, PTL

(* No entry of main is listed twice, or listed and still a fragment,       *)
(* unless half of a changelog was committed by hand.                       *)
THEOREM EntriesListedOnce == Spec => []ListedOnce
<1>1. Invariant => ListedOnce
  <2> SUFFICES ASSUME Invariant, ~ halfCommitted PROVE Ledger!EachEntryOnce
    BY DEF ListedOnce
  <2>1. Recorded(main) /\ Exact(main)
    BY DEF Invariant, AllRecorded, AllExact
  <2>2. main.tree.fragments \cap Listed(main.tree) = {}
    BY <2>1 DEF Recorded, Exact
  <2>3. QED
    BY <2>1, <2>2 DEF Ledger!EachEntryOnce, Ledger!Taken, Listed, Exact
<1>2. QED
  BY <1>1, Invariance, PTL

(* The changelog of main follows the ledger: every step of the script, of  *)
(* its operators and of GitHub is a step of ReleaseLedger or leaves main's *)
(* changelog alone, unless half of a changelog was committed by hand.      *)
THEOREM Implementation == Spec => ImplementsReleaseLedger
<1>1. Init => Ledger!Init
  BY DEF Init, Start0, Ledger!Init
<1>2. Invariant /\ Invariant' /\ [Next]_vars
        => [ Ledger!Next \/ UNCHANGED Ledger!vars \/ halfCommitted ]_vars
  BY LedgerStep DEF Invariant
<1>3. QED
  BY <1>1, <1>2, Invariance, PTL DEF Spec, ImplementsReleaseLedger

(* create_release_pr never opens a second pull request for a version, in   *)
(* one clone or in two, before or after the first one was merged.          *)
THEOREM OnePull == Spec => []OnePullPerVersion
<1>1. Invariant => OnePullPerVersion
  BY DEF Invariant, Single, OnePullPerVersion
<1>2. QED
  BY <1>1, Invariance, PTL

(* An open release pull request has both versions, the section and none of *)
(* the fragments that the section lists.                                   *)
THEOREM OpenPullsHoldTheRelease == Spec => []OpenPullsAreComplete
<1>1. Invariant => OpenPullsAreComplete
  <2> SUFFICES ASSUME Invariant, NEW v \in Versions, IsOpen(v)
               PROVE  LET tree == pushed[v].tree
                      IN  /\ tree.manifest = v /\ tree.lock = v /\ v \in DOMAIN tree.sections
                          /\ halfCommitted \/ tree.fragments \cap Listed(tree) = {}
    BY DEF OpenPullsAreComplete
  <2>1. pushed[v] # Absent
    BY DEF Invariant, Single
  <2>2. Complete(pushed[v].tree, v) /\ Recorded(pushed[v]) /\ (halfCommitted \/ Exact(pushed[v]))
    BY <2>1 DEF Invariant, AllAnchored, AllRecorded, AllExact
  <2>3. QED
    BY <2>2 DEF Complete, Recorded, Exact
<1>2. QED
  BY <1>1, Invariance, PTL
=============================================================================
