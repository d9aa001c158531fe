----------------------------- MODULE PatchApply -----------------------------
(***************************************************************************)
(* One run of commitPreparedPatch (src/write-requests/apply.ts) and of the *)
(* transaction it returns: stage every result, make the missing            *)
(* directories, replace the targets one by one, and on any failure put     *)
(* back what was replaced.  The broker's own writers are serialized by     *)
(* LifecycleMutex; editors, Git and build tools are not, so their edits    *)
(* interleave here between any two system calls.                           *)
(*                                                                         *)
(* A content is "base" (the bytes the patch was prepared from), "result",  *)
(* "foreign" (anything else) or "absent".  Code tells contents apart by    *)
(* their SHA-256 only.                                                     *)
(***************************************************************************)
EXTENDS Integers

CONSTANTS
  N,          \* the patch has files 1..N, in the order of the patch
  D,          \* and plans to create the directories 1..D, parents first
  Op,         \* Op[f]: "update" or "create"
  Home,       \* Home[f]: the planned directory f is created in, 0 if it existed
  Above,      \* Above[d]: the planned parent of directory d, 0 if it existed
  MaxEdits,   \* bound on the edits of other programs
  MaxFaults   \* bound on the system calls that fail for no reason modelled here

Files == 1..N
Dirs == 1..D

ASSUME PlanAssumption ==
  /\ N \in Nat \ {0} /\ D \in Nat
  /\ Op \in [Files -> {"update", "create"}]
  /\ Home \in [Files -> 0..D]
  /\ Above \in [Dirs -> 0..D] /\ \A d \in Dirs : Above[d] < d
  /\ \A f \in Files : Op[f] = "update" => Home[f] = 0
  /\ MaxEdits \in Nat /\ MaxFaults \in Nat

VARIABLES
  disk,       \* content of each target
  dir,        \* each planned directory: "absent", "dir" or "other" (not a directory)
  strays,     \* planned directories in which another program put an entry
  temps,      \* files whose staged result exists on disk
  committed,  \* entries marked committed
  made,       \* directories this transaction created (createdDirectories)
  unresolved, \* paths rollback gave up on
  failure,    \* why the transaction is undone: "none", "stale", "failed", "receipt"
  step, at,     \* the step, and the file or directory it is at
  edits, faults,
  edited,     \* history: files another program has touched
  raced,      \* history: files touched between a guard and the call it guards
  ours        \* history: existing directories made by this transaction

world == <<disk, dir, strays>>
transaction == <<temps, committed, made, unresolved, failure>>
history == <<edited, raced, ours>>
patchVars == <<world, transaction, step, at, edits, faults, history>>

Initially(f) == IF Op[f] = "update" THEN "base" ELSE "absent"

PatchInit ==
  /\ disk = [f \in Files |-> Initially(f)]
  /\ dir = [d \in Dirs |-> "absent"]
  /\ strays = {} /\ temps = {} /\ committed = {} /\ made = {} /\ unresolved = {}
  /\ failure = "none"
  /\ step = "stage" /\ at = 1
  /\ edits = 0 /\ faults = 0
  /\ edited = {} /\ raced = {} /\ ours = {}

\* A directory path can be walked (assertExistingDirectoryPath).
Walkable(d) == d # 0 => dir[d] = "dir"

Goto(next, i) == step' = next /\ at' = i

Fault == faults < MaxFaults /\ faults' = faults + 1
NoFault == UNCHANGED faults

\* The catch block of commitPreparedPatch: start rolling back, last file first.
FailWith(code) == failure' = code /\ Goto("undo", N)
-----------------------------------------------------------------------------
(* Staging: every result is written to a temporary file first.             *)

StageOne ==
  /\ step = "stage"
  /\ temps' = temps \cup {at}
  /\ IF at < N THEN Goto("stage", at + 1)
               ELSE Goto(IF D = 0 THEN "guard" ELSE "mkdir", 1)
  /\ NoFault
  /\ UNCHANGED <<world, committed, made, unresolved, failure, edits, history>>

\* Nothing is committed yet, so the staged files are removed and that is all.
StageFails ==
  /\ step = "stage"
  /\ Fault
  /\ failure' \in {"stale", "failed"}
  /\ Goto("sweep", at)
  /\ UNCHANGED <<world, temps, committed, made, unresolved, edits, history>>

AfterMkdir == IF at < D THEN Goto("mkdir", at + 1) ELSE Goto("guard", 1)

\* A directory somebody made in the meantime is used and not recorded as ours.
MakeDirectory ==
  /\ step = "mkdir"
  /\ Walkable(Above[at])
  /\ \/ /\ dir[at] = "dir"
        /\ UNCHANGED <<dir, made, ours>>
     \/ /\ dir[at] = "absent"
        /\ dir' = [dir EXCEPT ![at] = "dir"]
        /\ made' = made \cup {at}
        /\ ours' = ours \cup {at}
  /\ AfterMkdir
  /\ NoFault
  /\ UNCHANGED <<disk, strays, temps, committed, unresolved, failure, edits, edited, raced>>

MakeDirectoryFails ==
  /\ step = "mkdir"
  /\ \/ Fault
     \/ (~Walkable(Above[at]) \/ dir[at] = "other") /\ NoFault
  /\ \E code \in {"stale", "failed"} : FailWith(code)
  /\ UNCHANGED <<world, temps, committed, made, unresolved, edits, history>>
-----------------------------------------------------------------------------
(* Committing (commitOne): a guard, then the call that replaces.           *)

\* Mutant: the target of an update is not hashed again.
TargetUnhashed(f) ==
  Op[f] = "update" \/ (Walkable(Home[f]) /\ disk[f] = "absent")

\* What the guard accepts: the base bytes of an update, and for a create a
\* target that does not exist below directories that do.
TargetReady(f) ==
  IF Op[f] = "update" THEN disk[f] = "base"
                      ELSE Walkable(Home[f]) /\ disk[f] = "absent"

GuardPasses ==
  /\ step = "guard"
  /\ at \in temps
  /\ TargetReady(at)
  /\ Goto("replace", at)
  /\ NoFault
  /\ UNCHANGED <<world, transaction, edits, history>>

GuardFails ==
  /\ step = "guard"
  /\ \/ ~TargetReady(at) /\ NoFault /\ FailWith("stale")
     \/ ~Walkable(Home[at]) /\ NoFault /\ FailWith("failed")
     \/ Fault /\ \E code \in {"stale", "failed"} : FailWith(code)
  /\ UNCHANGED <<world, temps, committed, made, unresolved, edits, history>>

AfterCommit == IF at < N THEN Goto("guard", at + 1) ELSE Goto("applied", N)

\* rename() replaces whatever the path holds by now.
ReplaceUpdate ==
  /\ step = "replace" /\ Op[at] = "update"
  /\ disk' = [disk EXCEPT ![at] = "result"]
  /\ temps' = temps \ {at}
  /\ committed' = committed \cup {at}
  /\ AfterCommit
  /\ NoFault
  /\ UNCHANGED <<dir, strays, made, unresolved, failure, edits, edited, raced, ours>>

\* link() never replaces; its temporary name is removed in a call of its own.
LinkCreate ==
  /\ step = "replace" /\ Op[at] = "create"
  /\ Walkable(Home[at]) /\ disk[at] = "absent"
  /\ disk' = [disk EXCEPT ![at] = "result"]
  /\ committed' = committed \cup {at}
  /\ Goto("unlinkTemp", at)
  /\ NoFault
  /\ UNCHANGED <<dir, strays, temps, made, unresolved, failure, edits, history>>

UnlinkTemp ==
  /\ step = "unlinkTemp"
  /\ temps' = temps \ {at}
  /\ AfterCommit
  /\ NoFault
  /\ UNCHANGED <<world, committed, made, unresolved, failure, edits, history>>

ReplaceFails ==
  /\ step \in {"replace", "unlinkTemp"}
  /\ \/ /\ step = "replace" /\ Op[at] = "create" /\ NoFault
        /\ \/ Walkable(Home[at]) /\ disk[at] # "absent" /\ FailWith("stale")
           \/ ~Walkable(Home[at]) /\ FailWith("failed")
     \/ Fault /\ FailWith("failed")
  /\ UNCHANGED <<world, temps, committed, made, unresolved, edits, history>>
-----------------------------------------------------------------------------
(* Rolling back: files in reverse order, then directories in reverse order *)

\* Mutant: created directories are left behind.
AfterUndoKeepsDirectories == IF at > 1 THEN Goto("undo", at - 1) ELSE Goto("sweep", 0)

AfterUndo ==
  IF at > 1 THEN Goto("undo", at - 1)
            ELSE IF D = 0 THEN Goto("sweep", 0) ELSE Goto("rmdir", D)

GiveUp(kind) == unresolved' = unresolved \cup {<<kind, at>>}

UndoUncommitted ==
  /\ step = "undo" /\ at \notin committed
  /\ AfterUndo
  /\ NoFault
  /\ UNCHANGED <<world, transaction, edits, history>>

\* The target still holds the bytes this transaction wrote.
StillOurs(f) == Walkable(Home[f]) /\ disk[f] = "result"

\* The first ownership check of restoreOne; an update then stages its base
\* bytes and is checked a second time.
CheckOwnership ==
  /\ \/ step = "undo" /\ at \in committed
     \/ step = "recheck"
  /\ StillOurs(at)
  /\ Goto(IF Op[at] = "create" THEN "remove"
          ELSE IF step = "undo" THEN "recheck" ELSE "restore", at)
  /\ NoFault
  /\ UNCHANGED <<world, transaction, edits, history>>

OwnershipLost ==
  /\ \/ step = "undo" /\ at \in committed
     \/ step = "recheck"
  /\ \/ ~StillOurs(at) /\ NoFault
     \/ Fault
  /\ GiveUp("file")
  /\ AfterUndo
  /\ UNCHANGED <<world, temps, committed, made, failure, edits, history>>

\* unlink() of a created file, rename() of the base bytes over an update.
PutBack ==
  /\ \/ step = "remove" /\ disk[at] # "absent"
     \/ step = "restore"
  /\ disk' = [disk EXCEPT ![at] = Initially(at)]
  /\ committed' = committed \ {at}
  /\ AfterUndo
  /\ NoFault
  /\ UNCHANGED <<dir, strays, temps, made, unresolved, failure, edits, edited, raced, ours>>

PutBackFails ==
  /\ step \in {"remove", "restore"}
  /\ \/ step = "remove" /\ disk[at] = "absent" /\ NoFault
     \/ Fault
  /\ GiveUp("file")
  /\ AfterUndo
  /\ UNCHANGED <<world, temps, committed, made, failure, edits, history>>

Empty(d) ==
  /\ d \notin strays
  /\ \A f \in Files : Home[f] = d => disk[f] = "absent"
  /\ \A e \in Dirs : Above[e] = d => dir[e] = "absent"

AfterRmdir == IF at > 1 THEN Goto("rmdir", at - 1) ELSE Goto("sweep", 0)

\* A directory that is gone needs no removal, but only if its parent is there.
RemoveDirectory ==
  /\ step = "rmdir"
  /\ \/ /\ at \notin made \/ (Walkable(Above[at]) /\ dir[at] = "absent")
        /\ UNCHANGED <<dir, ours>>
     \/ /\ at \in made /\ Walkable(Above[at]) /\ dir[at] = "dir" /\ Empty(at)
        /\ dir' = [dir EXCEPT ![at] = "absent"]
        /\ ours' = ours \ {at}
  /\ AfterRmdir
  /\ NoFault
  /\ UNCHANGED <<disk, strays, transaction, edits, edited, raced>>

RemoveDirectoryFails ==
  /\ step = "rmdir" /\ at \in made
  /\ \/ /\ \/ ~Walkable(Above[at])
           \/ dir[at] = "other"
           \/ dir[at] = "dir" /\ ~Empty(at)
        /\ NoFault
     \/ Fault
  /\ GiveUp("dir")
  /\ AfterRmdir
  /\ UNCHANGED <<world, temps, committed, made, failure, edits, history>>
-----------------------------------------------------------------------------
(* Ending: the caller keeps the result or rolls it back.                   *)

\* The receipt was persisted: transaction.cleanup().
Cleanup ==
  /\ step = "applied"
  /\ Goto("sweep", 0)
  /\ NoFault
  /\ UNCHANGED <<world, transaction, edits, history>>

\* The receipt could not be persisted: transaction.rollback().
Rollback ==
  /\ step = "applied"
  /\ FailWith("receipt")
  /\ NoFault
  /\ UNCHANGED <<world, temps, committed, made, unresolved, edits, history>>

\* Staged files that are left are unlinked, each on a best-effort basis.
Sweep ==
  /\ step = "sweep"
  /\ \/ temps' = {} /\ NoFault
     \/ temps # {} /\ Fault /\ \E t \in temps : temps' = {t}
  /\ Goto("ended", 0)
  /\ UNCHANGED <<world, committed, made, unresolved, failure, edits, history>>

\* How the call ended, as its caller learns it.
Outcome ==
  CASE step # "ended" -> "none"
    [] step = "ended" /\ unresolved # {} -> "rollbackFailed"
    [] step = "ended" /\ unresolved = {} -> IF failure = "none" THEN "applied" ELSE failure

\* The process dies; whatever is on disk stays.
Crash ==
  /\ step \notin {"ended", "crashed"}
  /\ Goto("crashed", 0)
  /\ NoFault
  /\ UNCHANGED <<world, transaction, edits, history>>
-----------------------------------------------------------------------------
(* Other programs.                                                         *)

\* A guard on file f has passed and the call it guards has not been made.
InWindow(f) == step \in {"replace", "remove", "restore"} /\ at = f

Edit ==
  /\ edits < MaxEdits /\ edits' = edits + 1
  /\ step \notin {"ended", "crashed"}
  /\ UNCHANGED <<transaction, step, at, faults>>

EditFile(f) ==
  /\ Edit
  /\ Walkable(Home[f])
  /\ \E content \in {"absent", "base", "foreign"} :
       /\ content # disk[f]
       /\ content = "base" => Op[f] = "update"
       /\ disk' = [disk EXCEPT ![f] = content]
  /\ edited' = edited \cup {f}
  /\ raced' = IF InWindow(f) THEN raced \cup {f} ELSE raced
  /\ UNCHANGED <<dir, strays, ours>>

MakeEntry(d) ==
  /\ Edit
  /\ Walkable(Above[d]) /\ dir[d] = "absent"
  /\ \E kind \in {"dir", "other"} : dir' = [dir EXCEPT ![d] = kind]
  /\ UNCHANGED <<disk, strays, edited, raced, ours>>

MakeStray(d) ==
  /\ Edit
  /\ dir[d] = "dir" /\ d \notin strays
  /\ strays' = strays \cup {d}
  /\ UNCHANGED <<disk, dir, edited, raced, ours>>

\* Directory e is d or below it (parents have lower numbers).
Below(d) ==
  LET under[e \in 0..D] == e # 0 /\ (e = d \/ under[Above[e]])
  IN  {e \in Dirs : under[e]}

RemoveTree(d) ==
  LET gone == Below(d)
      lost == {f \in Files : Home[f] \in gone /\ disk[f] # "absent"}
  IN  /\ Edit
      /\ dir[d] # "absent"
      /\ dir' = [e \in Dirs |-> IF e \in gone THEN "absent" ELSE dir[e]]
      /\ strays' = strays \ gone
      /\ ours' = ours \ gone
      /\ disk' = [f \in Files |-> IF f \in lost THEN "absent" ELSE disk[f]]
      /\ edited' = edited \cup lost
      /\ raced' = raced \cup {f \in lost : InWindow(f)}
-----------------------------------------------------------------------------
Broker ==
  \/ StageOne \/ StageFails
  \/ MakeDirectory \/ MakeDirectoryFails
  \/ GuardPasses \/ GuardFails
  \/ ReplaceUpdate \/ LinkCreate \/ UnlinkTemp \/ ReplaceFails
  \/ UndoUncommitted \/ CheckOwnership \/ OwnershipLost
  \/ PutBack \/ PutBackFails
  \/ RemoveDirectory \/ RemoveDirectoryFails
  \/ Cleanup \/ Rollback \/ Sweep

OtherPrograms ==
  \/ \E f \in Files : EditFile(f)
  \/ \E d \in Dirs : MakeEntry(d) \/ MakeStray(d) \/ RemoveTree(d)

PatchNext == Broker \/ Crash \/ OtherPrograms

PatchSpec == PatchInit /\ [][PatchNext]_patchVars
-----------------------------------------------------------------------------
PatchTypeOK ==
  /\ disk \in [Files -> {"absent", "base", "result", "foreign"}]
  /\ dir \in [Dirs -> {"absent", "dir", "other"}]
  /\ strays \subseteq Dirs /\ made \subseteq Dirs /\ ours \subseteq Dirs
  /\ temps \subseteq Files /\ committed \subseteq Files
  /\ unresolved \subseteq ({"file"} \X Files) \cup ({"dir"} \X Dirs)
  /\ failure \in {"none", "stale", "failed", "receipt"}
  /\ step \in {"stage", "mkdir", "guard", "replace", "unlinkTemp", "applied", "undo",
             "recheck", "remove", "restore", "rmdir", "sweep", "ended", "crashed"}
  /\ at \in 0..(N + D)
  /\ edits \in 0..MaxEdits /\ faults \in 0..MaxFaults
  /\ edited \subseteq Files /\ raced \subseteq Files

\* A failure that is reported as anything but an unresolved rollback left
\* the workspace as it was: no result, no directory of ours, and the
\* original content wherever no other program interfered.
HandledFailureRestores ==
  Outcome \in {"stale", "failed", "receipt"} =>
    /\ ours = {}
    /\ \A f \in Files : disk[f] # "result"
    /\ \A f \in Files : f \in edited \/ disk[f] = Initially(f)

\* After an unresolved rollback, whatever is left of the patch is at a path
\* the error names.
LeftoversAreNamed ==
  Outcome = "rollbackFailed" =>
    /\ \A f \in Files : disk[f] = "result" => <<"file", f>> \in unresolved
    /\ \A d \in ours : <<"dir", d>> \in unresolved

\* However many calls fail and whatever other programs edit, what the caller is
\* told of the workspace is true (apply.ts:324).
FailuresAreAccounted == PatchTypeOK /\ HandledFailureRestores /\ LeftoversAreNamed
-----------------------------------------------------------------------------
\* The abstract transaction tells contents apart only as far as it needs to.
Seen ==
  [f \in Files |-> CASE disk[f] = "result" -> "result"
                     [] disk[f] = Initially(f) -> "before"
                     [] OTHER -> "foreign"]

Verdict ==
  CASE Outcome = "none" -> "open"
    [] Outcome = "applied" -> "applied"
    [] Outcome \in {"stale", "failed", "receipt"} -> "restored"
    [] Outcome = "rollbackFailed" -> "unresolved"

Transaction == INSTANCE PatchTransaction
  WITH content <- Seen, written <- committed, verdict <- Verdict

\* commitPreparedPatch is an all-or-nothing transaction, which never touches
\* the work of another program unless an edit strikes between a guard and the
\* call it guards.
ImplementsTransaction == Transaction!Spec
=============================================================================
