------------------------------- MODULE Paging -------------------------------
(***************************************************************************)
(* How the read tools cut one page out of a list: the lines of a file, the *)
(* entries of a directory, branches, commits, changed files, the bytes of  *)
(* a diff, the matches of a search (git-snapshot.ts, git.ts, manager.ts,   *)
(* search.ts and bulk-read.ts under src/src/workspace).                    *)
(*                                                                         *)
(* A list is a sequence of rows.  A row has a size in bytes, the size it   *)
(* has in the JSON of an answer, a flag that says when it is hidden:       *)
(* "never", "always" (the built-in sensitive and noise patterns, symbolic  *)
(* refs) or "custom" (only while the workspace's .c2cignore names it), and *)
(* one that says that a walk of the working tree may pass over it (frail): *)
(* it is in a directory or file that cannot be read, or in a large one.    *)
(* A page lists row numbers, where the next page starts and whether the    *)
(* answer calls itself truncated.                                          *)
(***************************************************************************)
EXTENDS Integers, SequencesExt

CONSTANTS
  TextBytes,    \* the text of one page: MAX_RETURNED_TEXT_BYTES
  AnswerBytes,  \* the JSON of the rows of one answer: maxResponseBytes, MAX_SEARCH_RESPONSE_BYTES
  ScanRows,     \* rows ever looked at: MAX_HISTORY_SCAN_COMMITS, maxFiles
  SearchBytes,  \* output of git grep that is read: MAX_SEARCH_OUTPUT_BYTES
  HardLines,    \* lines of one page, whatever end line is named: HARD_MAX_LINES, MAX_TEXT_LINES
  WalkSlack,    \* entries collected beyond a page of a directory: 2000
  BatchRows,    \* paths given to one git command: 50
  Envelope, Overhead, Refusal, Slack, Least
    \* a bulk answer: its fixed part, an item without content, an item that failed or was
    \* skipped, the reserve of 2048 bytes and the least worth reading, 1024

ASSUME PagingBounds ==
  /\ \A b \in {TextBytes, AnswerBytes, ScanRows, SearchBytes, HardLines, WalkSlack, BatchRows, Least} : b \in Nat \ {0}
  /\ \A b \in {Envelope, Overhead, Refusal, Slack} : b \in Nat
  /\ Refusal <= Overhead + Slack   \* an error or skip text is at most 256 bytes longer than an empty item

Missing == <<[size |-> -1, json |-> 0, hidden |-> "always", frail |-> FALSE]>>   \* no file at all
NoPage == -1
None == -1
Page(rows, next, truncated) == [rows |-> rows, next |-> next, truncated |-> truncated]
NextIf(more, next) == IF more THEN next ELSE NoPage

Span(first, last) == [k \in 1..(last - first + 1) |-> first + k - 1]
Slice(seq, from, to) == SubSeq(seq, from + 1, Min({to, Len(seq)}))
Sizes(rows, picked) == [k \in DOMAIN picked |-> rows[picked[k]].size]
Jsons(rows, picked) == [k \in DOMAIN picked |-> rows[picked[k]].json]
Total(costs) ==
  LET sum[n \in 0..Len(costs)] == IF n = 0 THEN 0 ELSE sum[n - 1] + costs[n]
  IN  sum[Len(costs)]

\* IgnoreRules: the rows a listing shows while .c2cignore is in use, or is not.
isHidden(row, custom) == row.hidden = "always" \/ (custom /\ row.hidden = "custom")
Visible(rows, custom) ==
  LET shown[n \in 0..Len(rows)] ==
        IF n = 0 THEN <<>>
        ELSE IF isHidden(rows[n], custom) THEN shown[n - 1] ELSE Append(shown[n - 1], n)
  IN  shown[Len(rows)]

\* What a walk does not come to read is as good as hidden: nothing says that it was passed over.
Readable(rows, unread) ==
  [k \in DOMAIN rows |-> IF k \in unread THEN [rows[k] EXCEPT !.hidden = "always"] ELSE rows[k]]

\* Mutant: a row that alone exceeds the budget is left for a page that can hold it.
WholeFitting(picked, costs, budget) ==
  Slice(picked, 0, Max({n \in 0..Len(picked) : Total(Slice(costs, 0, n)) <= budget}))

\* The loop of every budget: take rows until the next one would not fit, but always the first one.
Fitting(picked, costs, budget) ==
  Slice(picked, 0, Max({n \in 0..Len(picked) : n <= 1 \/ Total(Slice(costs, 0, n)) <= budget}))

\* Paths are handed to git in batches, none empty, in order (the byte cap of a batch is left out).
chunkPaths(paths) ==
  [b \in 1..((Len(paths) + BatchRows - 1) \div BatchRows) |-> Slice(paths, (b - 1) * BatchRows, b * BatchRows)]

-----------------------------------------------------------------------------
(* Lines of a file: positions are line numbers from 1. *)

LinePage(rows, end, got) == Page(got, NextIf(end < Len(rows), end + 1), end < Len(rows))

\* The last line of a page: so many from the first one, unless the client names one, which need not lie
\* behind the first.
endLimit(start, lines, end) == IF end = None THEN start + lines - 1 ELSE Min({end, start + HardLines - 1})

\* browseFile: a start beyond the end is moved to the last line, and the end line is at least the start.
StartLine(rows, start) == IF rows = <<>> THEN 1 ELSE Min({start, Len(rows)})
hardEnd(from, lines, end) == endLimit(from, lines, IF end = None THEN None ELSE Max({from, end}))

\* Lines are joined by one byte.
browseFile(rows, start, lines, end) ==
  LET from  == StartLine(rows, start)
      asked == Span(from, Min({hardEnd(from, lines, end), Len(rows)}))
      got   == Fitting(asked, [k \in DOMAIN asked |-> rows[asked[k]].size + (IF k = 1 THEN 0 ELSE 1)], TextBytes)
  IN  LinePage(rows, from - 1 + Len(got), got)

\* A line it comes across that exceeds a page alone fails the whole request.
LineTooLong(rows, start, lines, end) ==
  LET page == browseFile(rows, start, lines, end)
  IN  \E i \in DOMAIN rows : /\ rows[i].size > TextBytes
                             /\ \/ i \in ToSet(page.rows)
                                \/ i = page.next /\ i <= hardEnd(StartLine(rows, start), lines, end)

\* Workspace.readFile: every line costs one byte more, the first one is returned whatever its size; with
\* an end line before the start none is, and the lines from the start on are still to be read.
readFile(rows, start, last, maxBytes) ==
  LET asked == Span(start, Min({last, Len(rows)}))
      got   == Fitting(asked, [k \in DOMAIN asked |-> rows[asked[k]].size + 1], maxBytes)
  IN  LinePage(rows, start - 1 + Len(got), got)

-----------------------------------------------------------------------------
(* Lists of entries: positions are offsets from 0 among the rows shown. *)

\* listTreePage and parseBranchPage: one row more than the page says that there is more.
listTreePage(rows, custom, offset, limit) ==
  LET shown == Visible(rows, custom)
  IN  Page(Slice(shown, offset, offset + limit), NextIf(Len(shown) > offset + limit, offset + limit), FALSE)

parseBranchPage(rows, offset, limit) == listTreePage(rows, FALSE, offset, limit)

\* Workspace.listDirectory: the walk stops at a cap that lies beyond the page, and passes over what is in
\* directories that cannot be read.
listDirectory(rows, unread, custom, offset, limit) ==
  LET all  == Slice(Visible(Readable(rows, unread), custom), 0, offset + limit + WalkSlack)
      page == Slice(all, offset, offset + limit)
  IN  Page(page, NextIf(offset + Len(page) < Len(all), offset + Len(page)), FALSE)

\* Mutant: git log is asked for the commits of the page and not for one more.
ScanExact(rows, offset, limit) ==
  LET entries == Min({Len(rows), ScanRows, offset + limit})
      page    == Span(offset + 1, entries)
  IN  Page(page, NextIf(offset + Len(page) < entries, offset + Len(page)), Len(rows) > ScanRows /\ entries = ScanRows)

\* historyPage, over the commits git log was asked for: one more than the page, within the scan limit.
historyPage(rows, offset, limit) ==
  LET raw     == Min({Len(rows), ScanRows + 1, offset + limit + 1})
      entries == Min({raw, ScanRows})
      asked   == Span(offset + 1, Min({offset + limit, entries}))
      page    == Fitting(asked, Jsons(rows, asked), AnswerBytes)
  IN  Page(page, NextIf(offset + Len(page) < entries, offset + Len(page)),
           Len(page) < Len(asked) \/ raw > ScanRows)

\* paginateGitSummaries, over the changed files that are neither sensitive nor beyond the file limit.
paginateGitSummaries(rows, custom, offset, pageSize) ==
  LET shown   == Visible(rows, custom)
      changes == Slice(shown, 0, ScanRows)
      asked   == Slice(changes, offset, offset + pageSize)
      page    == Fitting(asked, Jsons(rows, asked), AnswerBytes)
  IN  Page(page, NextIf(offset + Len(page) < Len(changes), offset + Len(page)),
           Len(page) < Len(asked) \/ Len(shown) > ScanRows)

-----------------------------------------------------------------------------
(* The bytes of a diff: positions are byte offsets, a changed file is one line of the diff. *)

\* The bytes at which a line of the diff of the changes `picked` ends.
LineEnds(rows, picked) == {Total(Sizes(rows, Slice(picked, 0, k))) : k \in DOMAIN picked}

\* diffPage and the end of gitDiff: cut after the last whole line, or anywhere in a line that is longer.
diffPage(total, ends, offset, maxBytes) ==
  LET cut   == Min({total, offset + maxBytes})
      whole == {e \in ends : offset + 1 < e /\ e <= cut}
      end   == IF cut < total /\ whole # {} THEN Max(whole) ELSE cut
  IN  Page(Span(offset + 1, end), NextIf(end < total, end), FALSE)

\* The diff of the visible changes, put together from one git command per batch of paths.
DiffOf(rows, custom) == FlattenSeq(chunkPaths(Visible(rows, custom)))

-----------------------------------------------------------------------------
(* Searches. *)

\* buildSearchResult over the candidates found before the engine stopped: at the page and one more
\* ("reached"), at the time limit ("cut"), or because there was nothing more.
buildSearchResult(rows, found, offset, limit, cut) ==
  LET reached == Len(found) > offset + limit
      unknown == cut /\ ~reached
      asked   == Slice(found, offset, offset + limit)
      kept    == Fitting(asked, Jsons(rows, asked), AnswerBytes)
      more    == reached \/ Len(kept) < Len(asked)
  IN  Page(kept, NextIf(more /\ ~unknown, offset + Len(kept)), more \/ unknown)

\* What an engine found among the first `scanned` rows of its order before it stopped.
search(rows, custom, offset, limit, scanned) ==
  LET found == Visible(SubSeq(rows, 1, scanned), custom)
  IN  buildSearchResult(rows, Slice(found, 0, offset + limit + 1), offset, limit, scanned < Len(rows))

\* The two engines come across the files in different orders; both pass over what they cannot read and
\* over files of more than 2 MiB.
Ordered(rows, engine) == IF engine = "node" THEN Reverse(rows) ELSE rows
searchWithNode(rows, unread, custom, offset, limit, scanned) ==
  search(Ordered(Readable(rows, unread), "node"), custom, offset, limit, scanned)

\* The exit code of ripgrep is not looked at: one that fails has searched everything, it seems.
searchWithRipgrep(rows, unread, custom, offset, limit, scanned, fails) ==
  LET read == Readable(rows, unread)
  IN  search(IF fails THEN SubSeq(read, 1, scanned) ELSE read, custom, offset, limit, scanned)

\* searchSnapshot: git grep is read until its output or the matches reach a limit, then killed.
searchSnapshot(rows, custom, limit) ==
  LET read  == {n \in 0..Len(rows) : Total(Sizes(rows, Span(1, n))) <= SearchBytes}
      found == Visible(SubSeq(rows, 1, Max(read)), custom)
  IN  Page(Slice(found, 0, limit), NoPage, Len(found) >= limit \/ Max(read) < Len(rows))

-----------------------------------------------------------------------------
(* Several files in one answer: an item is what its file costs in the JSON of the answer. *)

\* serialize: the fixed part, one byte more when the answer is not truncated, and the items.
serialize(items, truncated) ==
  Envelope + (IF truncated THEN 0 ELSE 1) + Total(items)

\* The answer measured with one more item, the files after it still skipped.
Measured(items, item, rest, truncated) == serialize(Append(items, item) \o [k \in 1..rest |-> Refusal], truncated)

\* What is left for the text of the next file.
Available(items, rest, truncated, budget) == budget - Measured(items, Overhead, rest, truncated) - Slack

\* Mutant: the first attempt at a file is accepted whatever the answer then measures.
FirstAttempt(items, rest, file, last, truncated, budget) ==
  Overhead + Total(Jsons(file, readFile(file, 1, last, Available(items, rest, truncated, budget)).rows))

\* A file, from the line asked for on, is read again with less text while the answer would exceed the
\* budget, in at most three attempts; None when it does not fit.  An attempt is measured as truncated
\* when its text is.
readItem(items, rest, file, last, truncated, budget) ==
  LET Read(max) == readFile(file, 1, last, max)
      Cost(max) == Overhead + Total(Jsons(file, Read(max).rows))
      Over(max) == Measured(items, Cost(max), rest, truncated \/ Read(max).truncated) - budget
      Less(max) == Max({Least, max - Over(max) - Least})
      one   == Available(items, rest, truncated, budget)
      two   == Less(one)
      three == Less(two)
  IN  IF Over(one) <= 0 THEN Cost(one)
      ELSE IF two < one /\ Over(two) <= 0 THEN Cost(two)
      ELSE IF two < one /\ three < two /\ Over(three) <= 0 THEN Cost(three)
      ELSE None

=============================================================================
