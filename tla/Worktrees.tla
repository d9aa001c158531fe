------------------------------ MODULE Worktrees ------------------------------
(***************************************************************************)
(* Which directory a worktree id means, and what a local directory is to   *)
(* the registered workspaces: src/src/workspace/worktrees.ts and           *)
(* local-target.ts.                                                        *)
(*                                                                         *)
(* A disk says what is at each directory and which linked worktrees each   *)
(* repository has on record.  A worktree made from Windows has pointers    *)
(* ("unc" or "drive") that Git under WSL cannot follow: Git calls its      *)
(* record prunable, and only a reader that may cross namespaces follows    *)
(* them.  Symbolic links are not modelled: a path is its real path.        *)
(***************************************************************************)
EXTENDS Integers, SequencesExt, FiniteSetsExt

CONSTANTS Dirs, Around, Nowhere
  \* the directories that matter, the ones among them that contain each (itself too), and none of them

ASSUME DirsAreNested ==
  /\ Nowhere \notin Dirs
  /\ \A d \in Dirs : /\ d \in Around[d] /\ Around[d] \subseteq Dirs /\ IsFiniteSet(Around[d])
                     /\ \A e \in Around[d] : Around[e] \subseteq Around[d] /\ (d \in Around[e] => e = d)

Depth(d) == Cardinality(Around[d])
Deepest(dirs) == CHOOSE d \in dirs : \A e \in dirs : Depth(e) <= Depth(d)

\* What is at a directory: via is how the pointer of a linked worktree is written.
Entry(kind, repo, via) == [kind |-> kind, repo |-> repo, via |-> via]
Absent == Entry("absent", Nowhere, "posix")

\* A disk has one record of a directory in each repository.
Vias == {"posix", "unc", "drive"}
Entries == [kind : {"absent", "plain", "main", "bare"}, repo : {Nowhere}, via : {"posix"}]
             \union [kind : {"linked"}, repo : Dirs, via : Vias]
IsDisk(disk) ==
  /\ disk \in [at : [Dirs -> Entries], records : [Dirs -> SUBSET [root : Dirs, via : Vias]]]
  /\ \A d \in Dirs : \A r, s \in disk.records[d] : r.root = s.root => r = s

-----------------------------------------------------------------------------
(* Git, as the code uses it. *)

canonicalDirectory(disk, d) == disk.at[d].kind # "absent"

\* The repository whose record of d can be followed, Nowhere when it cannot.
RepositoryOf(disk, d) ==
  LET e == disk.at[d]
  IN  IF e.kind = "main" THEN d
      ELSE IF /\ e.kind = "linked" /\ disk.at[e.repo].kind \in {"main", "bare"}
              /\ [root |-> d, via |-> e.via] \in disk.records[e.repo] THEN e.repo
      ELSE Nowhere

\* rev-parse --show-toplevel: the nearest directory that is some repository's decides.
gitTopLevel(disk, d) ==
  LET owned == {e \in Around[d] : disk.at[e].kind \notin {"absent", "plain"}}
      top   == Deepest(owned)
  IN  IF canonicalDirectory(disk, d) /\ owned # {} /\ disk.at[top].via = "posix" /\ RepositoryOf(disk, top) # Nowhere
      THEN top ELSE Nowhere

\* rev-parse --git-common-dir: a repository is identified by where it is.
gitCommonDirectory(disk, d) ==
  LET top == gitTopLevel(disk, d) IN IF top = Nowhere THEN Nowhere ELSE RepositoryOf(disk, top)

\* worktree list calls a record prunable when it finds no .git where it points.
Prunable(disk, record) == record.via # "posix" \/ disk.at[record.root].kind \notin {"main", "linked"}

-----------------------------------------------------------------------------
(* worktrees.ts *)

worktreeIdFor(identity, root) == <<identity, root>>

\* The repository a directory is in: its records, and its main root unless it is bare.
Inventory(disk, repo) ==
  [records |-> IF repo = Nowhere THEN {} ELSE disk.records[repo],
   main |-> IF repo # Nowhere /\ disk.at[repo].kind = "main" THEN repo ELSE Nowhere]
readInventory(disk, d) == Inventory(disk, gitCommonDirectory(disk, d))

\* Both pointers of a worktree agree, read without asking Git to follow them.
validateExplicitWorktreeTarget(disk, root, identity) ==
  /\ disk.at[root].kind = "linked" /\ disk.at[root].repo = identity
  /\ RepositoryOf(disk, root) = identity

Candidate(identity, root, explicit) == [id |-> worktreeIdFor(identity, root), root |-> root, explicit |-> explicit]

candidateRoot(disk, record, cross) == (record.via = "posix" \/ cross) /\ canonicalDirectory(disk, record.root)

\* A record is a worktree when Git says so, or when both of its pointers are paths of this distribution.
validateCandidate(disk, record, identity, cross) ==
  LET root == record.root
  IN  IF ~candidateRoot(disk, record, cross) THEN {}
      ELSE IF ~Prunable(disk, record) /\ gitTopLevel(disk, root) = root /\ gitCommonDirectory(disk, root) = identity
      THEN {Candidate(identity, root, FALSE)}
      ELSE IF cross /\ disk.at[root].via = "unc" /\ validateExplicitWorktreeTarget(disk, root, identity)
      THEN {Candidate(identity, root, TRUE)}
      ELSE {}

\* The worktrees of a main root: what list_worktrees shows.
derivedWorktrees(disk, mainRoot) ==
  LET inventory == readInventory(disk, mainRoot)
  IN  IF inventory.main # mainRoot THEN {}
      ELSE UNION {validateCandidate(disk, record, mainRoot, TRUE) : record \in inventory.records}

\* An id is looked up among the records, then only that record is validated.
resolveDerivedWorktree(disk, mainRoot, id) ==
  LET inventory == readInventory(disk, mainRoot)
      named == {record \in inventory.records :
                  candidateRoot(disk, record, TRUE) /\ worktreeIdFor(mainRoot, record.root) = id}
  IN  IF inventory.main # mainRoot \/ named = {} THEN {}
      ELSE validateCandidate(disk, CHOOSE record \in named : TRUE, mainRoot, TRUE)

\* Mutant: the worktree is not looked at again after it has been resolved.
AssertNothing(disk, mainRoot, candidate) == canonicalDirectory(disk, candidate.root)

\* A selected worktree is looked at again immediately before it is used.
assertDerivedWorktreeCurrent(disk, mainRoot, candidate) ==
  /\ gitTopLevel(disk, mainRoot) = mainRoot
  /\ worktreeIdFor(gitCommonDirectory(disk, mainRoot), candidate.root) = candidate.id
  /\ IF candidate.explicit THEN validateExplicitWorktreeTarget(disk, candidate.root, mainRoot)
     ELSE /\ gitTopLevel(disk, candidate.root) = candidate.root
          /\ gitCommonDirectory(disk, candidate.root) = gitCommonDirectory(disk, mainRoot)

\* What a local command takes a directory for; it never crosses namespaces.
LocalWorktree(kind, main) == [kind |-> kind, main |-> main]
LocalWorktreeOf(disk, inventory, d) ==
  LET linked == {record \in inventory.records :
                   record.root = d /\ validateCandidate(disk, record, inventory.main, FALSE) # {}}
  IN  IF inventory.main = Nowhere THEN LocalWorktree("none", Nowhere)
      ELSE IF d = inventory.main THEN LocalWorktree("main", d)
      ELSE LocalWorktree(IF linked = {} THEN "none" ELSE "linked", inventory.main)
resolveLocalWorktree(disk, d) == LocalWorktreeOf(disk, readInventory(disk, d), d)

-----------------------------------------------------------------------------
(* local-target.ts, over a list of registrations. *)

\* The first registration of a root, if it has one.
registrationForRoot(registrations, root) ==
  LET found == {k \in DOMAIN registrations : registrations[k].root = root}
  IN  IF found = {} THEN <<>> ELSE <<registrations[Min(found)]>>

Target(kind, root, registration) == [kind |-> kind, root |-> root, registration |-> registration]

resolveLocalTarget(disk, registrations, d) ==
  LET exact  == registrationForRoot(registrations, d)
      found  == resolveLocalWorktree(disk, d)
      parent == registrationForRoot(registrations, found.main)
  IN  IF exact # <<>> THEN Target("exact", d, exact)
      ELSE IF found.kind = "linked" /\ parent # <<>> THEN Target("derived", d, parent)
      ELSE Target("unregistered", d, <<>>)

\* The deepest registered or derived directory around d; an explicit registration wins a tie.
resolveContainingLocalTarget(disk, registrations, d) ==
  LET Explicit(e) == registrationForRoot(registrations, e)
      Derived(e)  == LET found == resolveLocalWorktree(disk, e)
                     IN  IF found.kind = "none" THEN <<>> ELSE registrationForRoot(registrations, found.main)
      candidates  == {e \in Around[d] : Explicit(e) # <<>> \/ Derived(e) # <<>>}
      root        == Deepest(candidates)
  IN  IF candidates = {} THEN Target("unregistered", d, <<>>)
      ELSE IF Explicit(root) # <<>> THEN Target("exact", root, Explicit(root))
      ELSE Target("derived", root, Derived(root))

-----------------------------------------------------------------------------
(* What the user does to a disk. *)

\* `git worktree add`, from the main worktree, under Linux or Windows.
WithWorktree(disk, repo, d, via) ==
  [at |-> [disk.at EXCEPT ![d] = Entry("linked", repo, via)],
   records |-> [disk.records EXCEPT ![repo] = {r \in @ : r.root # d} \union {[root |-> d, via |-> via]}]]

\* `git worktree remove` forgets the record; deleting a directory deletes what is in it, records too.
Inner(d) == {e \in Dirs : d \in Around[e]}
Deleted(disk, d, forget) ==
  [at |-> [e \in Dirs |-> IF e \in Inner(d) THEN Absent ELSE disk.at[e]],
   records |-> [e \in Dirs |-> IF e \in Inner(d) THEN {} ELSE {r \in disk.records[e] : ~forget \/ r.root # d}]]

\* mkdir, `git init` or `git clone` where nothing is.
WithDirectory(disk, d, kind) == [disk EXCEPT !.at[d] = Entry(kind, Nowhere, "posix")]

Changes(disk) ==
  LET Free(d) == disk.at[d].kind = "absent" /\ \A e \in Around[d] \ {d} : disk.at[e].kind # "absent"
  IN  {WithWorktree(disk, repo, d, via) :
         repo \in {e \in Dirs : disk.at[e].kind \in {"main", "bare"}}, d \in {e \in Dirs : Free(e)}, via \in Vias}
      \union {WithDirectory(disk, d, kind) : d \in {e \in Dirs : Free(e)}, kind \in {"plain", "main", "bare"}}
      \union {Deleted(disk, d, forget) : d \in {e \in Dirs : disk.at[e].kind # "absent"}, forget \in BOOLEAN}

=============================================================================
