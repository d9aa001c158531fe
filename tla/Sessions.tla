------------------------------ MODULE Sessions ------------------------------
(***************************************************************************)
(* The registered workspaces of an installation and the sessions that the  *)
(* commands of each directory keep with the broker                         *)
(* (src/src/workspaces/registry.ts and sessions.ts, the handlers of        *)
(* src/src/broker/server.ts, and ensureWorkspaceSession and                *)
(* endWorkspaceSession of src/src/broker/daemon.ts), while commands        *)
(* overlap, are killed or get no answer, the broker crashes, a file cannot *)
(* be saved, sessions expire and the user moves worktrees about.           *)
(*                                                                         *)
(* Both registries change in memory first and are saved then: when the     *)
(* save fails the handler answers with an error and the change stays in    *)
(* memory until another save, or until the broker is started again.        *)
(*                                                                         *)
(* A handler of the broker runs to its end, but the disk may change while  *)
(* it does: a remote call that names a worktree selects a directory and    *)
(* looks at it again, and reads it later, when other calls were answered.  *)
(***************************************************************************)
EXTENDS Worktrees

CONSTANTS Commands, Names, BaseName, Unnamed, MaxSessions, MaxEvents, InitialDisks, InitialRegistries

Registrations == [id : Dirs \X Nat, root : Dirs, name : Nat]

ASSUME SessionBounds ==
  /\ Names \subseteq Nat /\ BaseName \in [Dirs -> Nat] /\ Unnamed \notin Nat
  /\ MaxSessions \in Nat \ {0} /\ MaxEvents \in Nat
  /\ InitialRegistries \subseteq Seq(Registrations) /\ \A d \in InitialDisks : IsDisk(d)

VARIABLES disk,      \* what the directories are
          events,    \* commands begun, changes of the disk and crashes so far
          up,        \* a broker runs
          registry,  \* its registrations, in the order of its map
          sessions,  \* its sessions, and the directory each was made for
          saved,     \* what the files of both hold
          made,      \* sessions made so far
          bindings,  \* the binding file of each directory: the session and its workspace
          commands,  \* where each command is
          selected,  \* the worktree a remote call has selected, or nothing
          strayRead, \* a remote call has read a directory that was no worktree of its workspace
          orphaned,  \* workspaces that were removed or registered by half, and not registered since
          disturbed  \* directories whose commands were not run one by one, each with its answers

vars == <<disk, events, up, registry, sessions, saved, made, bindings, commands, selected, strayRead, orphaned, disturbed>>
brokerVars == <<up, registry, sessions, saved, made, orphaned>>
diskVars == <<disk, events>>

Idle == [at |-> "idle", op |-> "none", dir |-> Nowhere, name |-> Unnamed, workspace |-> <<>>, session |-> 0]

-----------------------------------------------------------------------------
(* registry.ts *)

\* A list by name, those of one name in the order of the map.
Before(list, j, k) ==
  \/ list[j].name < list[k].name
  \/ list[j].name = list[k].name /\ j <= k
Place(list, k) == Cardinality({j \in DOMAIN list : Before(list, j, k)})
Sorted(list) == [i \in DOMAIN list |-> list[CHOOSE k \in DOMAIN list : Place(list, k) = i]]
Listed == Sorted(registry)

Init ==
  /\ disk \in InitialDisks /\ events = 0
  /\ up = TRUE /\ registry \in InitialRegistries /\ sessions = {} /\ made = 0
  /\ saved = [registry |-> Listed, sessions |-> {}]
  /\ bindings = [d \in Dirs |-> <<>>] /\ commands = [c \in Commands |-> Idle]
  /\ selected = <<>> /\ strayRead = FALSE /\ orphaned = {} /\ disturbed = {}

workspaceIdFor(root, name) == <<root, name>>
Registered(id) == \E k \in DOMAIN registry : registry[k].id = id
OnFile(id) == \E k \in DOMAIN saved.registry : saved.registry[k].id = id

\* A name that is not given is the one the root is already registered under, or the root's own.
displayName(root, name) ==
  LET existing == registrationForRoot(registry, root)
  IN  IF name # Unnamed THEN name ELSE IF existing # <<>> THEN Head(existing).name ELSE BaseName[root]

register(root, name) ==
  LET id == workspaceIdFor(root, displayName(root, name))
  IN  registry' = IF Registered(id) THEN registry
                  ELSE Append(registry, [id |-> id, root |-> root, name |-> displayName(root, name)])

remove(id) ==
  /\ Registered(id)
  /\ registry' = RemoveAt(registry, CHOOSE k \in DOMAIN registry : registry[k].id = id)

\* Once the registry is saved, what is registered is so on file too.
Orphans == {id \in orphaned : ~Registered(id)'}

-----------------------------------------------------------------------------
(* sessions.ts *)

\* A session that expires counts for nothing, and is dropped when it is come across.
prune(kept) == {s \in kept : ~s.expired}

\* Every save writes what has not expired.
Saves(kept) == sessions' = prune(kept) /\ saved' = [saved EXCEPT !.sessions = prune(kept)]

\* What is on file once only `kept` is left: it is written when that is a change.
Written(kept) == IF kept = sessions THEN saved.sessions ELSE kept

create(workspace, dir) ==
  /\ made < MaxSessions /\ made' = made + 1
  /\ sessions' = prune(sessions) \union {[id |-> made + 1, workspace |-> workspace, dir |-> dir, expired |-> FALSE]}

Named(id) == {s \in sessions : s.id = id}
Live(id) == \E s \in Named(id) : ~s.expired
touch(id) == IF Named(id) = {} THEN UNCHANGED <<sessions, saved>> ELSE Saves(sessions)
end(id)   == IF Named(id) = {} THEN UNCHANGED <<sessions, saved>> ELSE Saves(sessions \ Named(id))

\* What is left when a workspace is removed.
\* Mutant: its sessions are left to expire.
EndNone(id) == sessions

endByWorkspace(id) == {s \in prune(sessions) : s.workspace # id}

-----------------------------------------------------------------------------
(* Commands: daemon.ts and workspace-remove.ts. *)

\* The broker runs and is free: a remote call selects a worktree and looks at it again in one go.
Answers == up /\ (selected # <<>> => selected[1].at # "selected")
At(c, op, at) == commands[c].op = op /\ commands[c].at = at
Goes(c, at) == commands' = [commands EXCEPT ![c].at = at]
Ends(c) == commands' = [commands EXCEPT ![c] = Idle]
Disturbs(dirs) == disturbed' = disturbed \union dirs
Local == <<diskVars, selected, strayRead>>
Happens == events < MaxEvents /\ events' = events + 1

\* A command in a directory that exists; the sessions of a directory that two work on are disturbed.
Begin(c, op, d, name) ==
  /\ commands[c] = Idle /\ canonicalDirectory(disk, d) /\ Happens
  /\ op # "ensure" => name = Unnamed
  /\ commands' = [commands EXCEPT ![c] = [Idle EXCEPT !.op = op, !.at = "start", !.dir = d, !.name = name]]
  /\ Disturbs({e \in {d} : \E b \in Commands : commands[b].dir = d})
  /\ UNCHANGED <<disk, selected, strayRead, brokerVars, bindings>>

\* The command is killed, or fails because nothing answers; a session it was told of is lost with it.
Fails(c) ==
  /\ commands[c] # Idle /\ Ends(c) /\ Disturbs({d \in {commands[c].dir} : commands[c].at = "save"})
  /\ UNCHANGED <<Local, brokerVars, bindings>>

\* What the directory is decides which workspace the session is for.
Targets(c) ==
  /\ At(c, "ensure", "start") /\ Answers /\ canonicalDirectory(disk, commands[c].dir)
  /\ LET target == resolveLocalTarget(disk, Listed, commands[c].dir)
     IN  IF target.kind # "derived" THEN Goes(c, "register")
         ELSE IF commands[c].name # Unnamed THEN Ends(c)
         ELSE commands' = [commands EXCEPT ![c].at = "load", ![c].workspace = Head(target.registration).id]
  /\ UNCHANGED <<Local, brokerVars, bindings, disturbed>>

\* A registration that is not saved is one in memory only.
Register(c) ==
  LET id == workspaceIdFor(commands[c].dir, displayName(commands[c].dir, commands[c].name))
  IN  /\ At(c, "ensure", "register") /\ Answers /\ canonicalDirectory(disk, commands[c].dir)
      /\ register(commands[c].dir, commands[c].name)
      /\ \/ /\ saved' = [saved EXCEPT !.registry = Sorted(registry')] /\ orphaned' = Orphans
            /\ commands' = [commands EXCEPT ![c].at = "load", ![c].workspace = id]
         \/ /\ UNCHANGED saved /\ orphaned' = orphaned \union {w \in {id} : ~Registered(w)}
            /\ Ends(c)
      /\ UNCHANGED <<Local, up, sessions, made, bindings, disturbed>>

\* A binding of the same workspace is kept alive, one of another workspace is given up.
loadBinding(c) ==
  LET binding == bindings[commands[c].dir]
      same    == binding # <<>> /\ binding[1].workspace = commands[c].workspace
  IN  /\ At(c, "ensure", "load")
      /\ commands' = [commands EXCEPT ![c].at = IF same THEN "beat" ELSE "create",
                                      ![c].session = IF same THEN binding[1].session ELSE 0]
      /\ Disturbs({d \in {commands[c].dir} : binding # <<>> /\ ~same})
      /\ UNCHANGED <<Local, brokerVars, bindings>>

\* A heartbeat that is refused or not answered, its save failing too, makes a session instead.
Beat(c) ==
  /\ At(c, "ensure", "beat")
  /\ \/ /\ Answers /\ touch(commands[c].session)
        /\ IF Live(commands[c].session) THEN Ends(c) ELSE Goes(c, "create")
        /\ UNCHANGED disturbed
     \/ Goes(c, "create") /\ Disturbs({commands[c].dir}) /\ UNCHANGED <<sessions, saved>>
  /\ UNCHANGED <<Local, up, registry, made, orphaned, bindings>>

\* The answer may be lost, and with it the session; one that is not saved stays in memory.
Create(c) ==
  /\ At(c, "ensure", "create") /\ Answers
  /\ IF ~Registered(commands[c].workspace)
     THEN Ends(c) /\ UNCHANGED <<sessions, saved, made, disturbed>>
     ELSE /\ create(commands[c].workspace, commands[c].dir)
          /\ \/ /\ saved' = [saved EXCEPT !.sessions = sessions']
                /\ commands' = [commands EXCEPT ![c].at = "save", ![c].session = made + 1] /\ UNCHANGED disturbed
             \/ /\ saved' \in {[saved EXCEPT !.sessions = kept] : kept \in {sessions', Written(prune(sessions))}}
                /\ Ends(c) /\ Disturbs({commands[c].dir})
  /\ UNCHANGED <<Local, up, registry, orphaned, bindings>>

saveBinding(c) ==
  /\ At(c, "ensure", "save") /\ Ends(c)
  /\ bindings' = [bindings EXCEPT ![commands[c].dir] =
                    <<[session |-> commands[c].session, workspace |-> commands[c].workspace]>>]
  /\ UNCHANGED <<Local, brokerVars, disturbed>>

\* heartbeatWorkspaceSession, and the first step of endWorkspaceSession.
ReadBinding(c, op) ==
  /\ At(c, op, "start")
  /\ IF bindings[commands[c].dir] = <<>> THEN Ends(c)
     ELSE commands' = [commands EXCEPT ![c].at = "post", ![c].session = bindings[commands[c].dir][1].session]
  /\ UNCHANGED <<Local, brokerVars, bindings, disturbed>>

heartbeat(c) ==
  /\ At(c, "heartbeat", "post") /\ Answers /\ touch(commands[c].session) /\ Ends(c)
  /\ UNCHANGED <<Local, up, registry, made, orphaned, bindings, disturbed>>

\* Whether or not the broker ended the session, on file too, the binding goes.
End(c) ==
  /\ At(c, "end", "post") /\ Goes(c, "clear")
  /\ \/ Answers /\ end(commands[c].session) /\ UNCHANGED disturbed
     \/ Disturbs({commands[c].dir}) /\ UNCHANGED <<sessions, saved>>
     \/ /\ Answers /\ sessions' = prune(sessions \ Named(commands[c].session)) /\ UNCHANGED saved
        /\ Disturbs({commands[c].dir} \union {s.dir : s \in Named(commands[c].session)})
  /\ UNCHANGED <<Local, up, registry, made, orphaned, bindings>>

clearBinding(c) ==
  /\ At(c, "end", "clear") /\ Ends(c) /\ bindings' = [bindings EXCEPT ![commands[c].dir] = <<>>]
  /\ UNCHANGED <<Local, brokerVars, disturbed>>

resolveRemovalWorkspaceId(c) ==
  LET target == resolveContainingLocalTarget(disk, Listed, commands[c].dir)
  IN  /\ At(c, "remove", "start") /\ Answers /\ canonicalDirectory(disk, commands[c].dir)
      /\ IF target.kind = "unregistered" THEN Ends(c)
         ELSE commands' = [commands EXCEPT ![c].at = "post", ![c].workspace = Head(target.registration).id]
      /\ UNCHANGED <<Local, brokerVars, bindings, disturbed>>

\* The registration goes from memory and from the file, then its sessions do.  When a save fails the
\* command ends with an error: after the first the sessions are as they were, and nothing else that is
\* asked of the broker ends them, since the workspace is no longer registered.
RemoveWorkspace(c) ==
  LET id == commands[c].workspace
  IN  /\ At(c, "remove", "post") /\ Answers /\ Ends(c)
      /\ \/ ~Registered(id) /\ UNCHANGED <<registry, sessions, saved, orphaned>>
         \/ /\ remove(id) /\ sessions' = endByWorkspace(id)
            /\ saved' = [registry |-> Sorted(registry'), sessions |-> Written(endByWorkspace(id))]
            /\ orphaned' = Orphans \union {s.workspace : s \in {t \in prune(saved'.sessions) \ sessions' : t.workspace = id}}
         \/ /\ remove(id) /\ orphaned' = orphaned \union {id}
            /\ \/ UNCHANGED <<sessions, saved>>
               \/ /\ sessions' = prune(sessions) /\ sessions' # sessions
                  /\ saved' = [saved EXCEPT !.registry = Sorted(registry')]
      /\ UNCHANGED <<Local, up, made, bindings, disturbed>>

\* The sessions are ended one by one, the oldest first: the save of one fails, or the broker crashes.
EndSome(c) ==
  LET id       == commands[c].workspace
      Later(s) == {t \in prune(sessions) : t.workspace # id \/ t.id >= s.id}
  IN  /\ At(c, "remove", "post") /\ Answers /\ Ends(c)
      /\ remove(id) /\ orphaned' = Orphans \union {id}
      /\ \E s \in {t \in prune(sessions) : t.workspace = id} :
           /\ saved' = [registry |-> Sorted(registry'), sessions |-> Written(Later(s))]
           /\ \/ sessions' = Later(s) \ {s} /\ Disturbs({s.dir}) /\ UNCHANGED <<up, selected>>
              \/ sessions' = Later(s) /\ up' = FALSE /\ selected' = <<>> /\ UNCHANGED disturbed
      /\ UNCHANGED <<diskVars, strayRead, made, bindings>>

-----------------------------------------------------------------------------
(* The broker. *)

Crash ==
  /\ up /\ Happens /\ up' = FALSE /\ selected' = <<>>
  /\ UNCHANGED <<disk, strayRead, registry, sessions, saved, made, orphaned, bindings, commands, disturbed>>

\* The file has the registrations by name: the order may change.
Start ==
  /\ ~up /\ up' = TRUE /\ registry' = saved.registry /\ sessions' = saved.sessions
  /\ UNCHANGED <<Local, saved, made, orphaned, bindings, commands, disturbed>>

\* The sessions of the broker, and those it would have if it were started again.
Known == sessions \union saved.sessions

Expire(s) ==
  LET After(kept) == {IF t = s THEN [s EXCEPT !.expired = TRUE] ELSE t : t \in kept}
  IN  /\ ~s.expired /\ sessions' = After(sessions) /\ saved' = [saved EXCEPT !.sessions = After(@)]
      /\ UNCHANGED <<Local, up, registry, made, orphaned, bindings, commands, disturbed>>

\* A remote call names a worktree of a registered workspace.
resolveRegisteredWorkspaceTarget(k, d) ==
  /\ up /\ selected = <<>> /\ k \in DOMAIN registry
  /\ \E candidate \in resolveDerivedWorktree(disk, registry[k].root, worktreeIdFor(registry[k].root, d)) :
       selected' = <<[main |-> registry[k].root, candidate |-> candidate, at |-> "selected"]>>
  /\ UNCHANGED <<diskVars, strayRead, brokerVars, bindings, commands, disturbed>>

\* It is looked at again, and the call goes on if it still is one.
Recheck ==
  /\ selected # <<>> /\ selected[1].at = "selected"
  /\ selected' = IF assertDerivedWorktreeCurrent(disk, selected[1].main, selected[1].candidate)
                 THEN <<[selected[1] EXCEPT !.at = "current"]>> ELSE <<>>
  /\ UNCHANGED <<diskVars, strayRead, brokerVars, bindings, commands, disturbed>>

\* The tool reads it, whatever is there by then.
ReadWorktree ==
  /\ selected # <<>> /\ selected[1].at # "selected" /\ selected' = <<>>
  /\ LET Stray(w) == w.at = "current" /\ RepositoryOf(disk, w.candidate.root) # w.main
     IN  strayRead' = (strayRead \/ Stray(selected[1]))
  /\ UNCHANGED <<diskVars, brokerVars, bindings, commands, disturbed>>

\* What was looked at again may have moved since.
ChangeDisk ==
  /\ Happens /\ disk' \in Changes(disk)
  /\ selected' = IF selected # <<>> /\ selected[1].at = "current" THEN <<[selected[1] EXCEPT !.at = "moved"]>> ELSE selected
  /\ UNCHANGED <<brokerVars, bindings, commands, strayRead, disturbed>>

-----------------------------------------------------------------------------
Next ==
  \/ \E c \in Commands :
       \/ \E op \in {"ensure", "heartbeat", "end", "remove"}, d \in Dirs, name \in Names \union {Unnamed} :
            Begin(c, op, d, name)
       \/ Targets(c) \/ Register(c) \/ loadBinding(c) \/ Beat(c) \/ Create(c) \/ saveBinding(c)
       \/ ReadBinding(c, "heartbeat") \/ heartbeat(c) \/ ReadBinding(c, "end") \/ End(c) \/ clearBinding(c)
       \/ resolveRemovalWorkspaceId(c) \/ RemoveWorkspace(c) \/ EndSome(c) \/ Fails(c)
  \/ Crash \/ Start \/ Recheck \/ ReadWorktree \/ ChangeDisk
  \/ \E s \in Known : Expire(s)
  \/ \E k \in DOMAIN registry, d \in Dirs : resolveRegisteredWorkspaceTarget(k, d)

Spec == Init /\ [][Next]_vars

-----------------------------------------------------------------------------
(* Properties. *)

BelongToWorkspaces ==
  \A s \in Known : s.expired \/ s.workspace \in orphaned \/ (Registered(s.workspace) /\ OnFile(s.workspace))

HeldByDirectories ==
  \A s \in Known : \/ s.expired \/ s.dir \in disturbed
                   \/ bindings[s.dir] # <<>> /\ bindings[s.dir][1].session = s.id
                   \/ \E c \in Commands : At(c, "ensure", "save") /\ commands[c].session = s.id

\* A live session, in memory or on file, is one of a workspace that is registered in both, unless a
\* failed save or a crash cut its registration or its removal in half; and it is the one its directory
\* is bound to, or about to be, so no session is left behind, unless two commands of the directory
\* overlapped, one was killed or left without an answer between the session and the binding, the save
\* of the session failed, or the directory changed its registration (daemon.ts:143, server.ts:288).
SessionsAreAccounted == BelongToWorkspaces /\ HeldByDirectories

\* What the four readers of worktrees say fits together on every disk: ids tell worktrees apart and
\* resolve to what was listed, what a local command takes for a worktree the remote tools can select
\* under the same main root, a command in a subdirectory means the target that the nearest enclosing
\* one is to ensureWorkspaceSession; and a remote read is of a worktree of its workspace, unless the
\* disk changed between the look at it and the read, and not only before the look
\* (worktrees.ts:435,455,486,535, local-target.ts:87, mcp/server.ts:793).
ReadersAgree ==
  LET derived == UNION {{[main |-> m, candidate |-> c] : c \in derivedWorktrees(disk, m)} : m \in Dirs}
      local   == {[dir |-> d, target |-> resolveLocalTarget(disk, Listed, d)] : d \in Dirs}
  IN  /\ ~strayRead
      /\ \A w \in derived : /\ resolveDerivedWorktree(disk, w.main, w.candidate.id) = {w.candidate}
                             /\ \A v \in derived : v.candidate.id = w.candidate.id => v = w
      /\ \A d \in Dirs : LET found == resolveLocalWorktree(disk, d)
           IN  found.kind = "linked" => \E w \in derived : /\ w.main = found.main /\ w.candidate.root = d
                                                          /\ ~w.candidate.explicit
      /\ \A d \in Dirs : LET targets == {l.target : l \in {x \in local : x.dir \in Around[d]}}
                             chosen  == resolveContainingLocalTarget(disk, Listed, d)
           IN  IF chosen.kind = "unregistered" THEN \A t \in targets : t.kind = "unregistered"
               ELSE chosen \in targets /\ \A t \in targets : t.kind = "unregistered" \/ Depth(t.root) <= Depth(chosen.root)

\* The readers depend on the disk and the registry alone, and commands can fail at any step: each
\* disk and registry is met with none running.
TargetsFit == ~strayRead /\ ((\A c \in Commands : commands[c] = Idle) => ReadersAgree)
=============================================================================
