---------------------------- MODULE MCWorkspaces ----------------------------
(***************************************************************************)
(* Three parts that share no state, each explored by itself: the sessions  *)
(* and worktrees of registered workspaces, a remote client that reads one  *)
(* of them page by page, and the console of the manager.  `part` is the    *)
(* one a behaviour is about.                                               *)
(*                                                                         *)
(* Sessions: a main root with a worktree in it, or one made from Windows   *)
(* beside it.                                                              *)
(* Reading: two workspaces, three versions of everything: a list longer    *)
(* than two pages with hidden rows, a row that fills a page and one that a *)
(* walk may pass over; the same with another row in front; an empty one.   *)
(* Console: two requests of one of two workspaces.                         *)
(***************************************************************************)
EXTENDS Sessions, ManagerConsole, RemoteReading, TLC

VARIABLE part
partsVars == <<part, vars, consoleVars, readingVars>>

-----------------------------------------------------------------------------
MCAround == [d \in Dirs |-> IF d = "in" THEN {"main", "in"} ELSE {d}]
MCNames == [d \in Dirs |-> 2]
Blank == [at |-> [d \in Dirs |-> Absent], records |-> [d \in Dirs |-> {}]]
MCDisks == {Blank,
            WithWorktree(WithDirectory(Blank, "main", "main"), "main", "in", "posix"),
            WithWorktree(WithDirectory(Blank, "main", "main"), "main", "beside", "unc")}
MCRegistries == {<<>>, <<[id |-> <<"main", 2>>, root |-> "main", name |-> 2]>>}

Row(size, json, hidden) == [size |-> size, json |-> json, hidden |-> hidden, frail |-> size = 2]
MCRows == <<Row(1, 3, "custom"), Row(2, 5, "never"), Row(1, 1, "always"), Row(4, 6, "never"), Row(1, 1, "never")>>
MCContent == <<MCRows, <<Row(1, 2, "never")>> \o MCRows, <<>>>>
AllScopes == {"git.repository.read", "git.read", "workspace.search", "workspace.read"}
MCScopes == {AllScopes, {"git.read"}}

MCWorkspaceOf == [r \in Requests |-> CHOOSE w \in Workspaces : TRUE]
MCSymmetry == Permutations(Commands)

\* While a remote call has a worktree selected, no command is under way: they share the disk and the
\* registry alone, and each of their steps is met with any of both in other states.
RemoteCallsAlone == selected # <<>> => \A c \in Commands : commands[c] = Idle

\* A search is not followed further when its pages came from two sources: what is said of such a search,
\* EveryPageBrings, depends on the position and the version alone, and both are met with one source.
OneSource == request.tool = "search" => Cardinality(seen) <= 1

-----------------------------------------------------------------------------
SessionStep == part = "sessions" /\ Next        /\ UNCHANGED <<part, consoleVars, readingVars>>
ReadingStep == part = "reading"  /\ ReadingNext /\ UNCHANGED <<part, vars, consoleVars>>
ConsoleStep == part = "console"  /\ ConsoleNext /\ UNCHANGED <<part, vars, readingVars>>

\* Only the part a behaviour is about has its choice of initial states.
Fixed == [tool |-> "search", workspace |-> AnyWorkspace, careful |-> TRUE, rows |-> Min(PageRows),
          end |-> None, bytes |-> Min(PageBytes), scopes |-> AllScopes]
PartsInit ==
  /\ part \in {"sessions", "reading", "console"}
  /\ Init /\ ReadingInit /\ ConsoleInit
  /\ IF part = "sessions" THEN disk # Blank ELSE disk = Blank /\ registry = <<>>
  /\ part = "reading" \/ (request = Fixed /\ registered = {})

PartsSpec == PartsInit /\ [][SessionStep \/ ReadingStep \/ ConsoleStep]_partsVars
=============================================================================
