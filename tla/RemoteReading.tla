--------------------------- MODULE RemoteReading ---------------------------
(***************************************************************************)
(* A remote client reads one thing page by page through the MCP tools of   *)
(* the broker (src/src/mcp/server.ts, src/src/workspace), while branches,  *)
(* the working tree, .c2cignore and the registry change under it.          *)
(*                                                                         *)
(* No call keeps anything for the next one: the workspace is resolved, the *)
(* ignore rules are loaded and the branch is looked up anew for each page. *)
(* The repository tools protect a read by the commit that the client saw   *)
(* on the page before and passes back; the other tools do not.             *)
(***************************************************************************)
EXTENDS Paging, FiniteSets

CONSTANTS Roots, Versions, Content, MaxMoves, PageRows, EndLines, PageBytes, BulkBytes,
          BulkFiles, Scopes, Owners, Promisors, Gone, AnyWorkspace, NotFound
  \* Roots are the workspaces; Content[v] are the rows at commit or tree version v;
  \* MaxMoves bounds the changes from outside;
  \* PageRows, EndLines, PageBytes, BulkBytes and BulkFiles are what clients ask for; Scopes are the grants;
  \* Owners are main worktrees of repositories, Promisors partial clones;
  \* Gone stands for no version, AnyWorkspace for no workspace argument, NotFound for no workspace

Branches == {"base", "target"}
Sources == Branches \union {"tree"}

\* A row alone fits an answer: a match is cut to 500 characters (search.ts:58), others are paths, names
\* and subjects of commits, against 256 KiB.
Rows == [size : Nat, json : 0..AnswerBytes, hidden : {"never", "always", "custom"}, frail : BOOLEAN]

\* An answer in which every file is refused is within what a client may ask for: ten files at most,
\* with 512 bytes of a path and 256 of a text each, against 16 KiB.  Paths made of control characters,
\* which JSON writes with six bytes each, are left out: ten of them exceed it.
ASSUME ReadingBounds ==
  /\ Gone \notin Versions /\ AnyWorkspace \notin Roots /\ NotFound \notin Roots \union {AnyWorkspace}
  /\ MaxMoves \in Nat /\ PageRows \subseteq Nat \ {0} /\ EndLines \subseteq Nat \ {0} /\ PageBytes \subseteq Nat \ {0}
  /\ BulkBytes \subseteq Nat \ {0} /\ BulkFiles \in Nat \ {0}
  /\ \A b \in BulkBytes : serialize([k \in 1..BulkFiles |-> Refusal], TRUE) <= b
  /\ Versions # {} /\ \A v \in Versions : Content[v] \in Seq(Rows)

RepositoryTools == {"list_branches", "browse_file", "browse_directory", "git_search", "compare",
                    "compare_summary", "git_history"}
TreeTools == {"list_directory", "read_file", "read_files", "search", "diff", "diff_summary"}
Tools == RepositoryTools \union TreeTools

\* The tools whose later pages need the commit of the page before.
PinnedTools == {"browse_file", "browse_directory", "compare", "compare_summary", "git_history"}

\* The scope each tool asks for.
ScopeOf(tool) ==
  IF tool \in RepositoryTools THEN "git.repository.read"
  ELSE IF tool \in {"diff", "diff_summary"} THEN "git.read"
  ELSE IF tool = "search" THEN "workspace.search" ELSE "workspace.read"

VARIABLES now,        \* the version of each source of each workspace, Gone when there is none
          custom,     \* the workspaces whose .c2cignore is in use
          registered, \* the registered workspaces
          moves,      \* changes from outside so far
          request,    \* what the client asks for; it does not change from page to page
          at,         \* the position it asks for
          base,       \* of a comparison under way: the workspace, its rules and the base commit, or <<>>
          expected,   \* the commits of the page before: <<>> on the first page, or from a careless client
          got,        \* the rows, or bytes, received
          barren,     \* positions at which a page brought nothing though another was to follow
          seen,       \* what the pages were cut from
          flagged,    \* the last answer called itself truncated
          failed,     \* the last answer has what a ripgrep found before it failed
          over,       \* the bytes by which a bulk answer exceeds what was asked for
          status      \* "reading", "done", "refused" or "failed"

readingVars == <<now, custom, registered, moves, request, at, base, expected, got, barren, seen, flagged, failed, over, status>>
world == <<now, custom, registered, moves>>

First(tool) == IF tool \in {"browse_file", "read_file"} THEN 1 ELSE 0

ReadingInit ==
  \E tool \in Tools, w \in Roots \union {AnyWorkspace}, careful \in BOOLEAN,
     rows \in PageRows, end \in EndLines \union {None}, maxBytes \in PageBytes \union BulkBytes, scopes \in Scopes :
    /\ request = [tool |-> tool, workspace |-> w, careful |-> careful, rows |-> rows,
                  end |-> end, bytes |-> maxBytes, scopes |-> scopes]
    /\ tool \notin PinnedTools => careful
    /\ maxBytes \in IF tool = "read_files" THEN BulkBytes ELSE PageBytes
    /\ tool \notin {"browse_file", "read_file"} => end = None
    /\ tool \notin {"compare", "diff", "read_files"} => maxBytes = Min(PageBytes)
    /\ at = First(tool) /\ base = <<>> /\ expected = <<>> /\ got = <<>> /\ barren = {} /\ seen = {}
    /\ flagged = FALSE /\ failed = FALSE /\ over = 0 /\ status = "reading"
    /\ now = [x \in Roots |-> [s \in Sources |-> CHOOSE v \in Versions : TRUE]]
    /\ custom = {} /\ registered \in SUBSET Roots /\ moves = 0

-----------------------------------------------------------------------------
(* What happens outside: commits, checkouts, edits, registrations, .c2cignore. *)

Outside(change) ==
  /\ moves < MaxMoves /\ moves' = moves + 1 /\ change
  /\ UNCHANGED <<request, at, base, expected, got, barren, seen, flagged, failed, over, status>>

Move(w, s, v) == now[w][s] # v /\ Outside(now' = [now EXCEPT ![w][s] = v]) /\ UNCHANGED <<custom, registered>>
EditIgnore(w) ==
  Outside(custom' = IF w \in custom THEN custom \ {w} ELSE custom \union {w}) /\ UNCHANGED <<now, registered>>
RegisterRoot(w) == w \notin registered /\ Outside(registered' = registered \union {w}) /\ UNCHANGED <<now, custom>>
UnregisterRoot(w) == w \in registered /\ Outside(registered' = registered \ {w}) /\ UNCHANGED <<now, custom>>

-----------------------------------------------------------------------------
(* Before a page is read. *)

requireScope(scope) == scope \in request.scopes

\* Without a workspace argument the only registered one is meant, whichever it is by now.
resolveTarget ==
  LET named == request.workspace
  IN  IF named = AnyWorkspace /\ Cardinality(registered) = 1 THEN CHOOSE w \in registered : TRUE
      ELSE IF named \in registered THEN named ELSE NotFound

\* The broker loads the ignore rules of the resolved root.
Rules == resolveTarget \in custom

\* The request ends without a page.
Stops(how) ==
  /\ status' = how
  /\ UNCHANGED <<world, request, at, base, expected, got, barren, seen, flagged, over>>

\* What a page was cut from: the workspace unless the commits identify it, the commits or the
\* version of the tree, the rules where they matter, the engine of a search and what it could not read.
From(place, commits, rules, engine) ==
  [place |-> place, commits |-> commits, rules |-> rules, engine |-> engine, unread |-> {}]
Without(from, unread) == [from EXCEPT !.unread = unread]

\* The request is answered; a careful client passes the commits it was told on the next page.
AnswersPage(page, from) ==
  /\ got' = got \o page.rows
  /\ barren' = barren \union {p \in {at} : page.next # NoPage /\ page.rows = <<>>} /\ seen' = seen \union {from}
  /\ at' = page.next /\ flagged' = page.truncated
  /\ status' = IF page.next = NoPage THEN "done" ELSE "reading"
  /\ expected' = IF request.careful THEN from.commits ELSE <<>>
  /\ UNCHANGED <<world, request, over>>

\* The repository tools need the main worktree of a repository, and one that has all its objects.
resolveRepositoryOwner == resolveTarget \in Owners
resolveRepositorySnapshotOwner == resolveTarget # NotFound /\ resolveRepositoryOwner
assertSnapshotRepositorySupported == resolveTarget \notin Promisors

\* Every handler begins with the scope and the workspace.
Admitted ==
  /\ requireScope(ScopeOf(request.tool))
  /\ IF request.tool \in RepositoryTools THEN resolveRepositorySnapshotOwner ELSE resolveTarget # NotFound
Refused == status = "reading" /\ base = <<>> /\ ~Admitted /\ Stops("refused")
Handles(tool) == status = "reading" /\ request.tool = tool /\ Admitted

\* Unless it fails with CONTINUATION_PRECONDITION_REQUIRED.
Continuation == at > First(request.tool) => expected # <<>>

\* Mutant: a branch that has moved since the page before is read where it is now.
AnyCommit(commits) == TRUE

\* Unless it fails with REF_CHANGED.
assertExpectedCommit(commits) == expected # <<>> => expected = commits

\* A page of something that may have gone.
UnpinnedPage(v, page, from) ==
  IF v = Gone THEN Stops("failed") ELSE UNCHANGED base /\ AnswersPage(page, from)

\* A page that is answered only from the commits the client knows.
PinnedPage(valid, page, from) ==
  \/ ~Continuation /\ Stops("refused")
  \/ Continuation /\ ~(Gone \notin ToSet(from.commits) /\ assertExpectedCommit(from.commits) /\ valid)
     /\ Stops("failed")
  \/ /\ Continuation /\ Gone \notin ToSet(from.commits) /\ assertExpectedCommit(from.commits) /\ valid
     /\ base' = <<>> /\ AnswersPage(page, from)

-----------------------------------------------------------------------------
(* The repository tools: the main repository of the workspace, never a worktree. *)

\* The commit of a branch, Gone when it does not exist, is symbolic or is no commit.
resolveBranchRef(branch) == IF assertSnapshotRepositorySupported THEN now[resolveTarget][branch] ELSE Gone
TargetNow == resolveBranchRef("target")

listBranches == UnpinnedPage(TargetNow, parseBranchPage(Content[TargetNow], at, request.rows),
                             From(resolveTarget, <<TargetNow>>, FALSE, ""))
list_branches == Handles("list_branches") /\ listBranches

\* browseSnapshot of a file: from the commit alone.
browseSnapshotFile ==
  LET page  == browseFile(Content[TargetNow], at, request.rows, request.end)
      valid == TargetNow # Gone => ~LineTooLong(Content[TargetNow], at, request.rows, request.end)
  IN  PinnedPage(valid, page, From("", <<TargetNow>>, FALSE, ""))

\* browseSnapshot of a directory: the entries of the commit, the ignore rules of the working tree.
browseSnapshotDirectory ==
  PinnedPage(TRUE, listTreePage(Content[TargetNow], Rules, at, request.rows), From("", <<TargetNow>>, Rules, ""))
git_browse == \/ Handles("browse_file") /\ browseSnapshotFile
              \/ Handles("browse_directory") /\ browseSnapshotDirectory

gitHistory == PinnedPage(TRUE, historyPage(Content[TargetNow], at, request.rows), From("", <<TargetNow>>, FALSE, ""))
git_history == Handles("git_history") /\ gitHistory

\* git_search: one answer, which may fail when git grep does.
git_search ==
  /\ Handles("git_search")
  /\ \/ Stops("failed")
     \/ UnpinnedPage(TargetNow, searchSnapshot(Content[TargetNow], Rules, request.rows),
                     From(resolveTarget, <<TargetNow>>, Rules, ""))

\* git_compare looks the two branches up one after the other.
resolveBase ==
  IF Continuation
  THEN /\ base' = <<resolveTarget, Rules, resolveBranchRef("base")>>
       /\ UNCHANGED <<world, request, at, expected, got, barren, seen, flagged, over, status>>
  ELSE Stops("refused")

DiffPage(rows, rules) ==
  LET diff == DiffOf(rows, rules)
  IN  diffPage(Total(Sizes(rows, diff)), LineEnds(rows, diff), at, request.bytes)
SummaryPage(rows, rules) == paginateGitSummaries(rows, rules, at, request.rows)

\* Both commits must be the expected ones; a comparison that fails forgets the base.
compareSnapshots ==
  LET v       == now[base[1]]["target"]
      commits == <<base[3], v>>
      page    == IF request.tool = "compare" THEN DiffPage(Content[v], base[2]) ELSE SummaryPage(Content[v], base[2])
  IN  /\ base' = <<>>
      /\ IF Gone \notin ToSet(commits) /\ assertExpectedCommit(commits)
         THEN AnswersPage(page, From("", commits, base[2], ""))
         ELSE /\ status' = "failed"
              /\ UNCHANGED <<world, request, at, expected, got, barren, seen, flagged, over>>

Comparisons == {"compare", "compare_summary"}
git_compare ==
  \/ base = <<>> /\ (\E view \in Comparisons : Handles(view)) /\ resolveBase
  \/ base # <<>> /\ status = "reading" /\ compareSnapshots

-----------------------------------------------------------------------------
(* The tools for the working tree. *)

Tree == now[resolveTarget]["tree"]
TreeNow(engine) == From(resolveTarget, <<Tree>>, Rules, engine)

\* What a walk of the tree may pass over, each time it comes across it.
Passed == IF Tree = Gone THEN {{}} ELSE SUBSET {k \in DOMAIN Content[Tree] : Content[Tree][k].frail}

list_directory ==
  /\ Handles("list_directory")
  /\ \E unread \in Passed : UnpinnedPage(Tree, listDirectory(Content[Tree], unread, Rules, at, request.rows),
                                          Without(TreeNow(""), unread))

\* The client goes on from the next start line, with or without the end line it named at first.
read_file ==
  /\ Handles("read_file")
  /\ UnpinnedPage(Tree, readFile(Content[Tree], at, endLimit(at, request.rows, request.end), TextBytes), TreeNow(""))

\* read_files, one file after the other; `at` counts them, `got` has what each adds to the answer.
\* A file is not read when too little is left; one that is missing, or does not fit, costs a refusal.
readFiles(file, last) ==
  LET rest == BulkFiles - at - 1
      item == readItem(got, rest, file, last, flagged, request.bytes)
      left == Available(got, rest, flagged, request.bytes)
      lost == left < Least \/ (file # Missing /\ item = None)
  IN  /\ got' = Append(got, IF lost \/ file = Missing THEN Refusal ELSE item)
      /\ flagged' = (flagged \/ lost)
      /\ IF rest = 0
         THEN at' = NoPage /\ status' = "done" /\ over' = serialize(got', flagged') - request.bytes
         ELSE at' = at + 1 /\ UNCHANGED <<status, over>>
read_files ==
  /\ Handles("read_files")
  /\ \E file \in {Content[v] : v \in Versions} \union {Missing}, last \in 0..request.rows : readFiles(file, last)
  /\ UNCHANGED <<world, request, base, expected, barren, seen>>

\* search_workspace: ripgrep, or node when it cannot be run, stopped by the clock after n rows; ripgrep
\* may also fail there.  The schema refuses an offset beyond the limit.
searchWorkspace(n, unread) ==
  \/ /\ failed' \in BOOLEAN
     /\ UnpinnedPage(Tree, searchWithRipgrep(Content[Tree], unread, Rules, at, request.rows, n, failed'),
                     Without(TreeNow("ripgrep"), unread))
  \/ /\ failed' = FALSE
     /\ UnpinnedPage(Tree, searchWithNode(Content[Tree], unread, Rules, at, request.rows, n),
                     Without(TreeNow("node"), unread))
search_workspace ==
  /\ Handles("search")
  /\ IF at > ScanRows THEN Stops("refused") /\ UNCHANGED failed
     ELSE \E n \in IF Tree = Gone THEN {0} ELSE 0..Len(Content[Tree]), unread \in Passed : searchWorkspace(n, unread)

gitDiffText == UnpinnedPage(Tree, DiffPage(Content[Tree], Rules), TreeNow(""))
gitDiffSummary == UnpinnedPage(Tree, SummaryPage(Content[Tree], Rules), TreeNow(""))
git_diff == \/ Handles("diff") /\ gitDiffText
            \/ Handles("diff_summary") /\ gitDiffSummary

-----------------------------------------------------------------------------
\* Only a search has an engine that fails.
Request ==
  \/ /\ \/ Refused \/ list_branches \/ git_browse \/ git_history \/ git_search \/ git_compare
        \/ list_directory \/ read_file \/ read_files \/ git_diff
     /\ UNCHANGED failed
  \/ search_workspace

\* Only the sources that the request reads move: nothing else looks at the others.
SourcesOf(tool) ==
  IF tool \in TreeTools THEN {"tree"} ELSE IF tool \in Comparisons THEN Branches ELSE {"target"}

Environment == \E w \in Roots :
  \/ EditIgnore(w) \/ RegisterRoot(w) \/ UnregisterRoot(w)
  \/ \E s \in SourcesOf(request.tool), v \in Versions \union {Gone} : Move(w, s, v)

ReadingNext == Request \/ Environment

ReadingSpec == ReadingInit /\ [][ReadingNext]_readingVars

-----------------------------------------------------------------------------
(* Properties. *)

\* Everything a read of one version returns when nothing is left out that could be read.
Everything(from) ==
  LET rows == Content[Last(from.commits)]
      tool == request.tool
  IN  CASE tool \in {"browse_file", "read_file", "git_history"} -> Span(1, Len(rows))
        [] tool \in {"compare", "diff"} -> Span(1, Total(Sizes(rows, DiffOf(rows, from.rules))))
        [] OTHER -> Visible(Ordered(Readable(rows, from.unread), from.engine), from.rules)

Sole == CHOOSE from \in seen : TRUE

\* The pages of a read fit together: those of the tools that ask for the commit again come from the
\* same commits whatever happens to the branches, the workspace argument and the client's care
\* (git-snapshot.ts:423,722,1010,1276); and pages cut from one version under the same ignore rules, when
\* the same of it could be read, join without a gap, an overlap or a hidden row.
PagesFit ==
  /\ request.tool \in PinnedTools => Cardinality({from.commits : from \in seen}) <= 1
  /\ Cardinality(seen) = 1 => IsPrefix(got, Everything(Sole))

\* A read that ended without calling its last page truncated has everything that could be read, when
\* all of its pages came from one version: no limit, budget or time out ends a read silently.  Only a
\* ripgrep that fails does, and what a walk cannot read or is too large for it is left out silently
\* (search.ts:329,364-395, manager.ts:252-256).
EndedReadIsComplete ==
  status = "done" /\ ~flagged /\ ~failed /\ Cardinality(seen) = 1 => got = Everything(Sole)

\* An answer with several files exceeds its budget by at most the one byte by which "false" is longer
\* than "true" (bulk-read.ts:195,222: an attempt is measured as truncated, the answer is not).
AnswerFits == over <= 1

\* Every read ends: a page that another one follows brings at least one row or byte, also when a row
\* alone exceeds a page or the thing changes between pages, so a client that asks on comes to the end.
\* The only one that does not is read_file's, when the client asks for the next start line and names the
\* same end line again: it is told to go on from there for ever (manager.ts:189-227).
EveryPageBrings == \A p \in barren : request.tool = "read_file" /\ request.end # None /\ p > request.end
=============================================================================
