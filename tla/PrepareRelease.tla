--------------------------- MODULE PrepareRelease ---------------------------
(***************************************************************************)
(* src/scripts/prepare_release.py: maintainers prepare releases, each in a *)
(* clone of its own.  The script may die between any two of its steps, and *)
(* its operator runs it again; meanwhile pull requests reach main.         *)
(*                                                                         *)
(* A tree is reduced to what the script reads and writes.  A branch is its *)
(* tree with its log, the set of its commits: one branch is an ancestor of *)
(* another when its log is a subset.  A commit keeps what it removed and   *)
(* whether it touched the release files (CHANGELOG.md and the versions),   *)
(* which is all that merging it needs.  Git, GitHub and the operators are  *)
(* modelled from how the script uses them.                                 *)
(***************************************************************************)
EXTENDS Naturals, Sequences

CONSTANTS
  Clones,        (* The clones of the repository, one operator each.       *)
  Versions,      (* Versions that may be released.                         *)
  Asked,         (* The versions that each clone's operator may ask for.   *)
  Fragments,     (* Changelog fragments that will ever be written.         *)
  Early,         (* Those on main at the start.                            *)
  NoVersion,     (* No version asked for; the version before all others.   *)
  Absent,        (* No such branch.                                        *)
  MaxRuns,       (* Bound on calls of the script; one that died is called  *)
                 (* again as often as it takes.                            *)
  MaxFailures,   (* Bound on runs of the script that die.                  *)
  MaxHandCommits (* Bound on interrupted work committed by hand.           *)

ASSUME NamesAssumption ==
  /\ "main" \notin Clones
  /\ NoVersion \notin Versions /\ Early \subseteq Fragments
  /\ Asked \in [Clones -> SUBSET Versions]
ASSUME BoundsAssumption == MaxRuns \in Nat /\ MaxFailures \in Nat /\ MaxHandCommits \in Nat

VARIABLES
  main,          (* The branch main at the remote.                         *)
  pushed,        (* The remote's release branch of each version, if any.   *)
  pulls,         (* The states of the pull requests of each version.       *)
  local,         (* Each clone's release branch of each version, if any.   *)
  on,            (* The version whose branch is checked out, or none: main.*)
  work,          (* The working tree of each clone.                        *)
  pc, version,   (* The script's next step and its argument, per clone.    *)
  runs,          (* How often the script was called.                       *)
  failures,      (* How often it has died.                                 *)
  handCommits,   (* How often interrupted work was committed by hand.      *)
  halfCommitted  (* Was work committed whose fragments were half consumed? *)

remote == << main, pushed, pulls >>
history == << runs, failures, handCommits, halfCommitted >>
vars == << remote, local, on, work, pc, version, history >>

-----------------------------------------------------------------------------
(* Trees, commits and branches.                                            *)

Sections == UNION { [vs -> SUBSET Fragments] : vs \in SUBSET Versions }
Tree ==
  [ fragments : SUBSET Fragments, sections : Sections,
    manifest : Versions \cup {NoVersion}, lock : Versions \cup {NoVersion},
    stray : BOOLEAN ]
Commit ==
  [ by : Clones \cup {"main"}, for : Versions \cup {NoVersion}, adds : SUBSET Fragments,
    removes : SUBSET Fragments, release : BOOLEAN ]
Branch == [ tree : Tree, log : SUBSET Commit ]

ASSUME AbsentAssumption == Absent \notin Branch

(* The branch main before anything happened.                               *)
Start0 ==
  [ tree |-> [ fragments |-> Early, sections |-> << >>, manifest |-> NoVersion,
               lock |-> NoVersion, stray |-> FALSE ],
    log |-> {} ]

Listed(tree) == UNION { tree.sections[v] : v \in DOMAIN tree.sections }
Added(branch) == Early \cup UNION { commit.adds : commit \in branch.log }
Removed(branch) == UNION { commit.removes : commit \in branch.log }

IsAncestor(branch, other) == branch.log \subseteq other.log

(* Commits of a branch on the release files that another does not have.    *)
ReleaseCommits(branch, other) == { commit \in branch.log \ other.log : commit.release }

(* Both sides changed the same lines of the release files.                 *)
Conflict(branch, other) ==
  ReleaseCommits(branch, other) # {} /\ ReleaseCommits(other, branch) # {}

(* The three-way merge of two branches without a conflict.                 *)
MergedTree(branch, other) ==
  [ IF ReleaseCommits(branch, other) # {} THEN branch.tree ELSE other.tree EXCEPT
      !.fragments = (branch.tree.fragments \cup other.tree.fragments)
                      \ (Removed(branch) \cup Removed(other)) ]

CheckedOut(c) == IF on[c] = NoVersion THEN Start0 ELSE local[c][on[c]]

(* changed_files is not empty.                                             *)
Dirty(c) == work[c] # CheckedOut(c).tree

(* Faulty variant: deleted files are not added to the commit.              *)
CommittedWithoutDeletions(c) ==
  [ tree |-> [ work[c] EXCEPT !.fragments = CheckedOut(c).tree.fragments ],
    log |-> CheckedOut(c).log \cup
      { [ by |-> c, for |-> version[c], adds |-> {}, removes |-> {}, release |-> TRUE ] } ]

(* The working tree, committed to the release branch.                      *)
NewCommit(c) ==
  [ by |-> c, for |-> version[c], adds |-> {},
    removes |-> CheckedOut(c).tree.fragments \ work[c].fragments,
    release |-> [ work[c] EXCEPT !.fragments = {} ]
                  # [ CheckedOut(c).tree EXCEPT !.fragments = {} ] ]
Committed(c) == [ tree |-> work[c], log |-> CheckedOut(c).log \cup {NewCommit(c)} ]

-----------------------------------------------------------------------------
Init ==
  /\ main = Start0
  /\ pushed = [ v \in Versions |-> Absent ]
  /\ pulls = [ v \in Versions |-> << >> ]
  /\ local = [ c \in Clones |-> [ v \in Versions |-> Absent ] ]
  /\ on = [ c \in Clones |-> NoVersion ]
  /\ work = [ c \in Clones |-> Start0.tree ]
  /\ pc = [ c \in Clones |-> "idle" ]
  /\ version = [ c \in Clones |-> NoVersion ]
  /\ runs = 0 /\ failures = 0 /\ handCommits = 0 /\ halfCommitted = FALSE

(* The script goes from one step to the next.                              *)
Goes(c, from, to) ==
  /\ pc[c] = from
  /\ pc' = [pc EXCEPT ![c] = to]

(* It ends without an error.                                               *)
Returns(c, from) == Goes(c, from, "idle") /\ version' = [version EXCEPT ![c] = NoVersion]

(* Faulty variant: the state of the working tree does not matter.          *)
PassesAnyCheck(c) == TRUE

(* ensure_clean_worktree lets a run go on only without changes.            *)
PassesCleanCheck(c) == ~ Dirty(c)

(* main is called for a version; a run that died is started again.         *)
Run(c) ==
  /\ PassesCleanCheck(c)
  /\ \/ /\ pc[c] = "idle" /\ runs < MaxRuns
        /\ \E v \in Asked[c] : version' = [version EXCEPT ![c] = v]
        /\ runs' = runs + 1
     \/ pc[c] = "failed" /\ UNCHANGED << version, runs >>
  /\ pc' = [pc EXCEPT ![c] = "branch"]
  /\ UNCHANGED << remote, local, on, work, failures, handCommits, halfCommitted >>

(* create_release_branch: the branch that is checked out, or the clone's   *)
(* own of that name as it is, or a new one from main as just fetched.  A   *)
(* branch that is only at the remote is not looked for.                    *)
CreateReleaseBranch(c) ==
  LET v == version[c]
      branch == IF local[c][v] # Absent THEN local[c][v] ELSE main
  IN  /\ Goes(c, "branch", "manifest")
      /\ local' = [local EXCEPT ![c][v] = branch]
      /\ on' = [on EXCEPT ![c] = v]
      /\ work' = [work EXCEPT ![c] = IF on[c] = v THEN @ ELSE branch.tree]
      /\ UNCHANGED << remote, version, history >>

WriteManifest(c) ==
  /\ Goes(c, "manifest", "lock")
  /\ work' = [work EXCEPT ![c].manifest = version[c]]
  /\ UNCHANGED << remote, local, on, version, history >>

(* The lock file is written, and verified against the manifest.            *)
WriteLock(c) ==
  /\ Goes(c, "lock", "changelog")
  /\ work' = [work EXCEPT ![c].lock = version[c]]
  /\ UNCHANGED << remote, local, on, version, history >>

(* Faulty variant: a version that has a section consumes what came later.  *)
WriteChangelogAgain(c) ==
  LET v == version[c]
      sections == work[c].sections
  IN  /\ Goes(c, "changelog", "samples")
      /\ work' = [work EXCEPT
            ![c].fragments = {},
            ![c].sections = IF v \in DOMAIN sections THEN sections
                            ELSE [ w \in DOMAIN sections \cup {v} |->
                                     IF w = v THEN work[c].fragments ELSE sections[w] ]]
      /\ UNCHANGED << remote, local, on, version, history >>

(* Faulty variant: the fragments are listed and kept.                      *)
WriteChangelogOnly(c) ==
  LET v == version[c]
      sections == work[c].sections
  IN  /\ Goes(c, "changelog", "samples")
      /\ work' = [work EXCEPT ![c].sections =
                    IF v \in DOMAIN sections THEN sections
                    ELSE [ w \in DOMAIN sections \cup {v} |->
                             IF w = v THEN work[c].fragments ELSE sections[w] ]]
      /\ UNCHANGED << remote, local, on, version, history >>

(* prepare_changelog up to the write: a version that has a section is      *)
(* left as it is; otherwise every fragment is listed.                      *)
WriteChangelog(c) ==
  LET v == version[c]
      sections == work[c].sections
      fragments == work[c].fragments
  IN  IF v \in DOMAIN sections
      THEN Goes(c, "changelog", "samples") /\ UNCHANGED << remote, local, on, work, version, history >>
      ELSE /\ Goes(c, "changelog", IF fragments = {} THEN "samples" ELSE "unlink")
           /\ work' = [work EXCEPT ![c].sections =
                         [ w \in DOMAIN sections \cup {v} |->
                             IF w = v THEN fragments ELSE sections[w] ]]
           /\ UNCHANGED << remote, local, on, version, history >>

(* The fragments that were listed are deleted one by one.                  *)
UnlinkFragment(c) ==
  /\ pc[c] = "unlink"
  /\ LET consumed == work[c].fragments \cap work[c].sections[version[c]]
     IN  \E fragment \in consumed :
           /\ Goes(c, "unlink", IF consumed = {fragment} THEN "samples" ELSE "unlink")
           /\ work' = [work EXCEPT ![c].fragments = @ \ {fragment}]
  /\ UNCHANGED << remote, local, on, version, history >>

(* regenerate_samples; with bad luck it changes a file it should not.      *)
RegenerateSamples(c) ==
  /\ Goes(c, "samples", "commit")
  /\ \E stray \in BOOLEAN :
       /\ work' = [work EXCEPT ![c].stray = stray]
       /\ stray => failures < MaxFailures
       /\ failures' = failures + (IF stray THEN 1 ELSE 0)
  /\ UNCHANGED << remote, local, on, version, runs, handCommits, halfCommitted >>

(* Faulty variant: there must be something to commit.                      *)
CommitSomething(c) ==
  /\ Goes(c, "commit", IF work[c].stray \/ ~ Dirty(c) THEN "failed" ELSE "push")
  /\ IF ~ work[c].stray /\ Dirty(c)
     THEN local' = [local EXCEPT ![c][version[c]] = Committed(c)]
     ELSE UNCHANGED local
  /\ UNCHANGED << remote, on, work, version, history >>

(* ensure_only_release_changes raises; otherwise commit_release_changes    *)
(* commits what has changed, if anything has.  A fragment that was deleted *)
(* is always one that main listed before: the tree was clean then.         *)
CommitReleaseChanges(c) ==
  /\ Goes(c, "commit", IF work[c].stray THEN "failed" ELSE "push")
  /\ IF ~ work[c].stray /\ Dirty(c)
     THEN local' = [local EXCEPT ![c][version[c]] = Committed(c)]
     ELSE UNCHANGED local
  /\ UNCHANGED << remote, on, work, version, history >>

(* push_release_branch: the remote refuses to lose commits, and the run    *)
(* ends with its error.                                                    *)
PushReleaseBranch(c) ==
  /\ pc[c] = "push"
  /\ LET v == version[c]
     IN  IF pushed[v] # Absent => IsAncestor(pushed[v], local[c][v])
         THEN /\ Goes(c, "push", "list") /\ UNCHANGED version
              /\ pushed' = [pushed EXCEPT ![v] = local[c][v]]
         ELSE Returns(c, "push") /\ UNCHANGED pushed
  /\ UNCHANGED << main, pulls, local, on, work, history >>

IsOpen(v) == \E n \in DOMAIN pulls[v] : pulls[v][n] = "open"

(* Faulty variant: pull requests that are not open do not matter.          *)
ListOpenPulls(c) ==
  /\ pc[c] = "list"
  /\ IF IsOpen(version[c]) THEN Returns(c, "list")
     ELSE Goes(c, "list", "create") /\ UNCHANGED version
  /\ UNCHANGED << remote, local, on, work, history >>

(* create_release_pr up to the existing pull requests: an open one is the  *)
(* result, and any other ends the run with an error.                       *)
ListPulls(c) ==
  /\ pc[c] = "list"
  /\ LET v == version[c]
     IN  \/ pulls[v] # << >> /\ Returns(c, "list")
         \/ pulls[v] = << >> /\ Goes(c, "list", "create") /\ UNCHANGED version
  /\ UNCHANGED << remote, local, on, work, history >>

(* Faulty variant: the pull request is only a draft.                       *)
CreateDraft(c) ==
  /\ pc[c] = "create"
  /\ pulls' = [pulls EXCEPT ![version[c]] = Append(@, "draft")]
  /\ Returns(c, "create")
  /\ UNCHANGED << main, pushed, local, on, work, history >>

(* gh pr create, an error unless the branch has commits of its own and no  *)
(* open pull request.                                                      *)
CreatePull(c) ==
  /\ pc[c] = "create"
  /\ LET v == version[c]
     IN  IF pushed[v] # Absent /\ ~ IsAncestor(pushed[v], main) /\ ~ IsOpen(v)
         THEN pulls' = [pulls EXCEPT ![v] = Append(@, "open")]
         ELSE UNCHANGED pulls
  /\ Returns(c, "create")
  /\ UNCHANGED << main, pushed, local, on, work, history >>

-----------------------------------------------------------------------------
(* What the script does not control.                                       *)

(* The script dies before its next step: killed, or a command it ran       *)
(* failed.                                                                 *)
Die(c) ==
  /\ pc[c] \notin {"idle", "failed"}
  /\ failures < MaxFailures
  /\ pc' = [pc EXCEPT ![c] = "failed"]
  /\ failures' = failures + 1
  /\ UNCHANGED << remote, local, on, work, version, runs, handCommits, halfCommitted >>

(* The operator gets a clean tree by throwing the changes away.            *)
Discard(c) ==
  /\ pc[c] = "failed" /\ Dirty(c)
  /\ work' = [work EXCEPT ![c] = CheckedOut(c).tree]
  /\ UNCHANGED << remote, local, on, pc, version, history >>

(* Or by committing them, wherever the script died.                        *)
CommitByHand(c) ==
  /\ pc[c] = "failed" /\ Dirty(c) /\ ~ work[c].stray
  /\ handCommits < MaxHandCommits
  /\ local' = [local EXCEPT ![c][version[c]] = Committed(c)]
  /\ handCommits' = handCommits + 1
  /\ halfCommitted' = (halfCommitted \/ work[c].fragments \cap Listed(work[c]) # {})
  /\ UNCHANGED << remote, on, work, pc, version, runs, failures >>

(* The operator merges main into a release branch between calls.           *)
UpdateFromMain(c) ==
  /\ pc[c] = "idle" /\ on[c] # NoVersion /\ ~ Dirty(c)
  /\ ~ IsAncestor(main, CheckedOut(c)) /\ ~ Conflict(main, CheckedOut(c))
  /\ LET merged == [ tree |-> MergedTree(CheckedOut(c), main), log |-> CheckedOut(c).log \cup main.log ]
     IN  /\ local' = [local EXCEPT ![c][on[c]] = merged]
         /\ work' = [work EXCEPT ![c] = merged.tree]
  /\ UNCHANGED << remote, on, pc, version, history >>

(* A pull request with a new fragment reaches main.                        *)
Develop ==
  /\ \E fragment \in Fragments \ Added(main) :
       main' = [ tree |-> [ main.tree EXCEPT !.fragments = @ \cup {fragment} ],
                 log |-> main.log \cup
                   { [ by |-> "main", for |-> NoVersion, adds |-> {fragment},
                       removes |-> {}, release |-> FALSE ] } ]
  /\ UNCHANGED << pushed, pulls, local, on, work, pc, version, history >>

(* The state of a version's pull request changes.  GitHub neither merges   *)
(* nor opens one whose branch is gone.                                     *)
Settle(v, from, to) ==
  /\ pushed[v] # Absent
  /\ \E n \in DOMAIN pulls[v] :
       pulls[v][n] = from /\ pulls' = [pulls EXCEPT ![v][n] = to]

(* A release pull request is merged, as one commit, and its branch is      *)
(* deleted.                                                                *)
MergePull(v) ==
  /\ Settle(v, "open", "merged")
  /\ ~ Conflict(pushed[v], main)
  /\ main' = [ tree |-> MergedTree(pushed[v], main),
               log |-> main.log \cup
                 { [ by |-> "main", for |-> v, adds |-> {},
                     removes |-> Removed(pushed[v]) \ Removed(main), release |-> TRUE ] } ]
  /\ pushed' = [pushed EXCEPT ![v] = Absent]
  /\ UNCHANGED << local, on, work, pc, version, history >>

(* It is closed, or opened again if no other one is open.                  *)
ClosePull(v) ==
  /\ Settle(v, "open", "closed") \/ (~ IsOpen(v) /\ Settle(v, "closed", "open"))
  /\ UNCHANGED << main, pushed, local, on, work, pc, version, history >>

ScriptStep(c) ==
  \/ CreateReleaseBranch(c) \/ WriteManifest(c) \/ WriteLock(c) \/ WriteChangelog(c)
  \/ UnlinkFragment(c) \/ RegenerateSamples(c) \/ CommitReleaseChanges(c)
  \/ PushReleaseBranch(c) \/ ListPulls(c) \/ CreatePull(c)

Next ==
  \/ \E c \in Clones :
       \/ Run(c) \/ ScriptStep(c) \/ Die(c)
       \/ Discard(c) \/ CommitByHand(c) \/ UpdateFromMain(c)
  \/ Develop
  \/ \E v \in Versions : MergePull(v) \/ ClosePull(v)

(* The script goes on, and an operator whose run died clears the tree and  *)
(* starts it again.                                                        *)
Fairness ==
  \A c \in Clones :
    /\ WF_vars(ScriptStep(c))
    /\ WF_vars(pc[c] = "failed" /\ (Discard(c) \/ Run(c)))

Spec == Init /\ [][Next]_vars /\ Fairness

-----------------------------------------------------------------------------
(* Properties.                                                             *)

TypeOK ==
  /\ main \in Branch
  /\ pushed \in [Versions -> Branch \cup {Absent}]
  /\ pulls \in [Versions -> Seq({"open", "closed", "merged"})]
  /\ local \in [Clones -> [Versions -> Branch \cup {Absent}]]
  /\ on \in [Clones -> Versions \cup {NoVersion}]
  /\ work \in [Clones -> Tree]
  /\ pc \in [Clones -> {"idle", "branch", "manifest", "lock", "changelog", "unlink", "samples",
                        "commit", "push", "list", "create", "failed"}]
  /\ version \in [Clones -> Versions \cup {NoVersion}]
  /\ runs \in 0 .. MaxRuns /\ failures \in 0 .. MaxFailures
  /\ handCommits \in 0 .. MaxHandCommits
  /\ halfCommitted \in BOOLEAN

(* Every entry that a branch or a working tree has seen is still there, as *)
(* a fragment or as a line of a release: wherever the script died, whoever *)
(* started it again and whatever was merged in between.                    *)
NothingLost ==
  LET Keeps(tree, branch) == Added(branch) \subseteq tree.fragments \cup Listed(tree)
  IN  /\ Keeps(main.tree, main)
      /\ \A v \in Versions : pushed[v] # Absent => Keeps(pushed[v].tree, pushed[v])
      /\ \A c \in Clones : Keeps(work[c], CheckedOut(c))

(* A release pull request that is open holds the whole release: both       *)
(* versions, the section, and no fragment that the section lists.  It was  *)
(* prepared in one run or in many, unless half of it was committed by hand.*)
OpenPullsAreComplete ==
  \A v \in Versions :
    IsOpen(v) =>
      LET tree == pushed[v].tree
      IN  /\ tree.manifest = v /\ tree.lock = v /\ v \in DOMAIN tree.sections
          /\ halfCommitted \/ tree.fragments \cap Listed(tree) = {}

(* Two clones that prepare one version, or a clone that prepares a version *)
(* again after it was merged and its branch deleted, do not open a second  *)
(* pull request for it.                                                    *)
OnePullPerVersion == \A v \in Versions : Len(pulls[v]) <= 1

(* main changes only by whole steps of the ledger: an entry comes, or a    *)
(* release takes entries that no other has.  It is the script's doing only *)
(* as long as nobody commits a changelog with half of its fragments.       *)
Ledger ==
  INSTANCE ReleaseLedger WITH
    pending <- main.tree.fragments, released <- main.tree.sections
ImplementsReleaseLedger ==
  Ledger!Init /\ [][ Ledger!Next \/ UNCHANGED Ledger!vars \/ halfCommitted ]_vars
ListedOnce == Ledger!EachEntryOnce \/ halfCommitted

(* A version that somebody starts to release gets its pull request, if its *)
(* operators persist: runs that die leave nothing that a later run cannot  *)
(* take up.                                                                *)
EveryReleaseGetsItsPull ==
  \A v \in Versions : (\E c \in Clones : version[c] = v) ~> pulls[v] # << >>
=============================================================================
