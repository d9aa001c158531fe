------------------------------ MODULE PatchText ------------------------------
(***************************************************************************)
(* From text edits to a unified diff, and from a unified diff to the       *)
(* content that is reviewed: src/write-requests/text-edits.ts and the text *)
(* half of src/write-requests/patch.ts, for one target.                    *)
(*                                                                         *)
(* A client proposes exact replacements (propose_text_edits), which the    *)
(* broker turns into a diff and prepares once, or a diff of its own; the   *)
(* proposal then prepares the diff.  Each of these reads the file anew,    *)
(* and another program may have rewritten it.                              *)
(*                                                                         *)
(* A text is a sequence of characters, of which "lf" and "crlf" end a      *)
(* line.  A hunk is what parseHunk makes of its lines; lines count from 1, *)
(* positions in a file (`start`) are the number of lines before them.      *)
(* Encodings, sizes and the rules about paths are left out.                *)
(***************************************************************************)
EXTENDS Integers, FiniteSets, SequencesExt

CONSTANTS Texts,       \* what the target may hold
          Requests,    \* sequences of text edits, [old, new]
          Wanted,      \* the contents that diffs of a client aim at
          Context,     \* unchanged lines around a change; the code says 3
          MaxChanges, \* bound on the rewriting by other programs
          Absent       \* instead of a text: there is no file

VARIABLES stage,    \* "idle", "converted", "proposed", or how it ended
          file,     \* the target
          before,   \* what the last reading of the target found
          meant,    \* what the text edits make of it
          patch,    \* the diff
          result,   \* what the preparation made of it
          changes

textVars == <<stage, file, before, meant, patch, result, changes>>

Eols == {"lf", "crlf"}

-----------------------------------------------------------------------------
\* Texts and lines.

\* The line ends of a text; none, one or both (then they are mixed).
EolsOf(text) == Eols \cap ToSet(text)

\* \r\n read as \n, as the edits and the diff document are.
Logical(text) == ReplaceAll(text, "crlf", "lf")

\* The logical text written back with the file's own line ends.
Encoded(source, text) ==
  IF EolsOf(source) = {"crlf"} THEN ReplaceAll(text, "lf", "crlf") ELSE text

\* The lines, each with its place in the text; only the last may have no end.
Lines(text) ==
  LET lasts == SelectSeq([i \in DOMAIN text |-> i],
                         LAMBDA i : text[i] \in Eols \/ i = Len(text))
      Line(from, to) ==
        IF text[to] \in Eols
        THEN [from |-> from, to |-> to, text |-> SubSeq(text, from, to - 1), eol |-> text[to]]
        ELSE [from |-> from, to |-> to, text |-> SubSeq(text, from, to), eol |-> "none"]
  IN [k \in DOMAIN lasts |-> Line(IF k = 1 THEN 1 ELSE lasts[k - 1] + 1, lasts[k])]

\* What of a line is compared and put out again.
Content(line) == [text |-> line.text, eol |-> line.eol]

SameLine(l, m) == Content(l) = Content(m)

Joined(lines) ==
  FoldLeft(LAMBDA text, line :
             text \o line.text \o (IF line.eol = "none" THEN <<>> ELSE <<line.eol>>),
           <<>>, lines)

-----------------------------------------------------------------------------
\* Text edits: exact replacements, each of the only occurrence of its old text.

Occurrences(text, old) ==
  {i \in 1..(Len(text) + 1 - Len(old)) : SubSeq(text, i, i + Len(old) - 1) = old}

Spliced(s, at, count, new) ==
  SubSeq(s, 1, at - 1) \o new \o SubSeq(s, at + count, Len(s))

\* `origins` tells for each character which one of the file it is, if any.
ApplyEdit(done, edit) ==
  LET old == Logical(edit.old)
      new == Logical(edit.new)
      places == Occurrences(done.text, old)
      at == CHOOSE i \in places : TRUE
  IN IF ~done.unique \/ Cardinality(places) # 1
     THEN [done EXCEPT !.unique = FALSE]
     ELSE [unique  |-> TRUE,
           text    |-> Spliced(done.text, at, Len(old), new),
           origins |-> Spliced(done.origins, at, Len(old), [i \in DOMAIN new |-> 0])]

ApplyTextEdits(source, edits) ==
  FoldLeft(ApplyEdit,
           [unique |-> TRUE, text |-> Logical(source), origins |-> [i \in DOMAIN source |-> i]],
           edits)

-----------------------------------------------------------------------------
\* The diff of text edits: by where the characters come from, not by a search.

\* The line of the file that is this line of the result, kept as a whole.
SourceLine(old, line, origins) ==
  {m \in DOMAIN old :
    /\ SameLine(old[m], line)
    /\ \A i \in line.from..line.to : origins[i] = old[m].from + i - line.from}

Anchors(old, new, origins) ==
  LET Add(found, n) ==
        LET kept == {m \in SourceLine(old, new[n], origins) : m > Last(found).old}
        IN IF kept = {} THEN found
           ELSE Append(found, [old |-> CHOOSE m \in kept : TRUE, new |-> n])
  IN FoldLeftDomain(Add, <<[old |-> 0, new |-> 0]>>, new)
       \o <<[old |-> Len(old) + 1, new |-> Len(new) + 1]>>

\* What lies between two anchors: the lines from..(to - 1) on each side.
ChangeBlocks(old, new, origins) ==
  LET anchors == Anchors(old, new, origins)
      gaps == [k \in 1..(Len(anchors) - 1) |->
                [oldFrom |-> anchors[k].old + 1, oldTo |-> anchors[k + 1].old,
                 newFrom |-> anchors[k].new + 1, newTo |-> anchors[k + 1].new]]
  IN SelectSeq(gaps, LAMBDA b : b.oldFrom # b.oldTo \/ b.newFrom # b.newTo)

MergedWithin(blocks, distance) ==
  LET Add(merged, b) ==
        IF /\ merged # <<>>
           /\ b.oldFrom - Last(merged).oldTo <= distance
           /\ b.newFrom - Last(merged).newTo <= distance
        THEN Front(merged) \o
             <<[Last(merged) EXCEPT !.oldTo = b.oldTo, !.newTo = b.newTo]>>
        ELSE Append(merged, b)
  IN FoldLeft(Add, <<>>, blocks)

\* Mutant: changes whose contexts overlap keep hunks of their own.
MergedWhenAdjacent(blocks) == MergedWithin(blocks, 0)

\* Changes whose contexts would touch share a hunk.
Merged(blocks) == MergedWithin(blocks, 2 * Context)

\* A hunk header names the first line, or the line before an empty range.
Range1(from, count) == IF count = 0 THEN from - 1 ELSE from

PatchLines(kind, lines) ==
  [k \in DOMAIN lines |-> [kind |-> kind, text |-> lines[k].text,
                           noNewline |-> lines[k].eol = "none"]]

Hunk(old, new, b, lead, trail) ==
  LET oldCount == lead + (b.oldTo - b.oldFrom) + trail
      newCount == lead + (b.newTo - b.newFrom) + trail
  IN [oldStart |-> Range1(b.oldFrom - lead, oldCount), oldCount |-> oldCount,
      newStart |-> Range1(b.newFrom - lead, newCount), newCount |-> newCount,
      lines |-> PatchLines("context", SubSeq(old, b.oldFrom - lead, b.oldFrom - 1))
                \o PatchLines("remove", SubSeq(old, b.oldFrom, b.oldTo - 1))
                \o PatchLines("add", SubSeq(new, b.newFrom, b.newTo - 1))
                \o PatchLines("context", SubSeq(old, b.oldTo, b.oldTo + trail - 1))]

\* The context is cut to the farthest line that is the same on both sides.
RenderHunk(old, new, b) ==
  LET leads == {n \in 1..Context :
                 /\ n < b.oldFrom /\ n < b.newFrom
                 /\ SameLine(old[b.oldFrom - n], new[b.newFrom - n])}
      trails == {n \in 1..Context :
                  /\ b.oldTo + n - 1 <= Len(old) /\ b.newTo + n - 1 <= Len(new)
                  /\ SameLine(old[b.oldTo + n - 1], new[b.newTo + n - 1])}
  IN Hunk(old, new, b, Max({0} \cup leads), Max({0} \cup trails))

RenderPatch(old, new, origins) ==
  LET blocks == Merged(ChangeBlocks(old, new, origins))
  IN [k \in DOMAIN blocks |-> RenderHunk(old, new, blocks[k])]

-----------------------------------------------------------------------------
\* Applying a diff.

\* The lines of the file a hunk is about, and those it leaves.
SideOf(hunk, kind) == SelectSeq(hunk.lines, LAMBDA l : l.kind \in {"context", kind})

\* The number of lines before a hunk.
OldBefore(hunk) == IF hunk.oldCount = 0 THEN hunk.oldStart ELSE hunk.oldStart - 1
NewBefore(hunk) == IF hunk.newCount = 0 THEN hunk.newStart ELSE hunk.newStart - 1

\* parseHunk reads exactly the lines its header counts.
Parses(p) ==
  /\ p.operation = "update" => p.hunks # <<>>
  /\ \A k \in DOMAIN p.hunks :
       LET h == p.hunks[k]
       IN /\ h.lines # <<>>
          /\ h.oldCount = Len(SideOf(h, "remove"))
          /\ h.newCount = Len(SideOf(h, "add"))

FirstEol(lines, otherwise) ==
  LET ended == SelectSeq(lines, LAMBDA l : l.eol # "none")
  IN IF ended = <<>> THEN otherwise ELSE ended[1].eol

\* The line end of what a hunk adds.  The line it looks at last before the
\* file's own preference may be one without an end.
HunkEol(source, start, count, done) ==
  FirstEol(SubSeq(source, start + 1, Min({start + count, Len(source)})),
    CASE done # <<>> -> Last(done).eol
      [] done = <<>> /\ start < Len(source) -> source[start + 1].eol
      [] OTHER -> FirstEol(source, "lf"))

\* The hunk stands where the lines before it have come to.
Placed(source, done, h) ==
  LET untouched == OldBefore(h) - done.cursor
  IN /\ done.cursor <= OldBefore(h)
     /\ OldBefore(h) <= Len(source)
     /\ NewBefore(h) = Len(done.lines) + untouched

\* Every line of the file that it names is there, with an end or without.
Fits(source, h) ==
  LET old == SideOf(h, "remove")
      start == OldBefore(h)
  IN /\ start + Len(old) <= Len(source)
     /\ \A k \in DOMAIN old :
          /\ source[start + k].text = old[k].text
          /\ (source[start + k].eol = "none") = old[k].noNewline

ApplyHunk(source, done, h) ==
  LET start == OldBefore(h)
      kept == done.lines \o SubSeq(source, done.cursor + 1, start)
      eol == HunkEol(source, start, h.oldCount, kept)
      Passed(k) == Len(SelectSeq(SubSeq(h.lines, 1, k), LAMBDA l : l.kind # "add"))
      Put(lines, k) ==
        LET l == h.lines[k]
        IN CASE l.kind = "add" ->
                  Append(lines, [text |-> l.text, eol |-> IF l.noNewline THEN "none" ELSE eol])
             [] l.kind = "context" -> Append(lines, Content(source[start + Passed(k)]))
             [] l.kind = "remove" -> lines
  IN IF done.applies /\ Placed(source, done, h) /\ Fits(source, h)
     THEN [applies |-> TRUE, cursor |-> start + h.oldCount,
           lines |-> FoldLeftDomain(Put, kept, h.lines)]
     ELSE [done EXCEPT !.applies = FALSE]

\* The content that a diff makes of a text, or that it does not apply.
ApplyHunks(text, hunks) ==
  LET source == [k \in DOMAIN Lines(text) |-> Content(Lines(text)[k])]
      Step(done, h) == ApplyHunk(source, done, h)
      done == FoldLeft(Step, [applies |-> TRUE, cursor |-> 0, lines |-> <<>>], hunks)
      lines == done.lines \o SubSeq(source, done.cursor + 1, Len(source))
  IN [applies |-> done.applies /\ \A k \in 1..(Len(lines) - 1) : lines[k].eol # "none",
      text |-> Joined(lines)]

\* preparePatch, for one section: an update of a file, or a create of none.
Prepared(target, p) ==
  IF Parses(p) /\ ((target = Absent) <=> (p.operation = "create"))
  THEN ApplyHunks(IF target = Absent THEN <<>> ELSE target, p.hunks)
  ELSE [applies |-> FALSE, text |-> <<>>]

-----------------------------------------------------------------------------
\* The diffs of a client: what follows `kept` common lines is replaced, `shown`
\* of these are context, and it may have miscounted the lines by `off`.
ClientDiffs(text, wanted) ==
  LET old == Lines(text)
      new == Lines(wanted)
      shared == {n \in 0..Min({Len(old), Len(new)}) :
                  PatchLines("context", SubSeq(old, 1, n)) = PatchLines("context", SubSeq(new, 1, n))}
      rest(n) == [oldFrom |-> n + 1, oldTo |-> Len(old) + 1, newFrom |-> n + 1, newTo |-> Len(new) + 1]
  IN {[Hunk(old, new, rest(kept), shown, 0) EXCEPT !.newStart = @ + off] :
        <<kept, shown, off>> \in {t \in shared \X (0..Context) \X {0, 1} : t[2] <= t[1]}}

-----------------------------------------------------------------------------
TextInit ==
  /\ stage = "idle"
  /\ file \in Texts \cup {Absent}
  /\ before = Absent
  /\ meant = <<>>
  /\ patch = [operation |-> "update", hunks |-> <<>>]
  /\ result = <<>>
  /\ changes = 0

\* createTextEditPatch reads the file, applies the edits and renders a diff.
ConvertEdits(edits) ==
  LET done == ApplyTextEdits(file, edits)
      hunks == RenderPatch(Lines(Logical(file)), Lines(done.text), done.origins)
  IN /\ stage = "idle"
     /\ file # Absent /\ EolsOf(file) # Eols
     /\ done.unique /\ done.text # Logical(file) /\ hunks # <<>>
     /\ stage' = "converted"
     /\ before' = file
     /\ meant' = Encoded(file, done.text)
     /\ patch' = [operation |-> "update", hunks |-> hunks]
     /\ UNCHANGED <<file, result, changes>>

\* ... prepares the diff, and returns it if it makes of the file what the
\* edits make of it.
VerifyConversion ==
  LET prepared == Prepared(file, patch)
  IN /\ stage = "converted"
     /\ stage' = IF prepared.applies /\ prepared.text = meant THEN "proposed" ELSE "unrepresented"
     /\ UNCHANGED <<file, before, meant, patch, result, changes>>

\* The client sends a diff of the file it has read.
SubmitDiff(wanted) ==
  /\ stage = "idle"
  /\ \E hunk \in ClientDiffs(IF file = Absent THEN <<>> ELSE file, wanted) :
       patch' = [operation |-> IF file = Absent THEN "create" ELSE "update", hunks |-> <<hunk>>]
  /\ stage' = "proposed"
  /\ UNCHANGED <<file, before, meant, result, changes>>

\* The proposal prepares the diff on what the file now holds.
PrepareProposal ==
  LET prepared == Prepared(file, patch)
  IN /\ stage = "proposed"
     /\ stage' = IF prepared.applies THEN "prepared" ELSE "refused"
     /\ before' = file
     /\ result' = prepared.text
     /\ UNCHANGED <<file, meant, patch, changes>>

\* Another program drops the first line, or puts one before it.
RewriteFile ==
  /\ stage \in {"converted", "proposed"}
  /\ changes < MaxChanges
  /\ changes' = changes + 1
  /\ file # Absent
  /\ file' \in {<<"a", "lf">> \o file} \cup
               {SubSeq(file, line.to + 1, Len(file)) : line \in {Lines(file)[k] : k \in {1} \cap DOMAIN Lines(file)}}
  /\ UNCHANGED <<stage, before, meant, patch, result>>

TextNext ==
  \/ \E edits \in Requests : ConvertEdits(edits)
  \/ VerifyConversion
  \/ \E wanted \in Wanted : SubmitDiff(wanted)
  \/ PrepareProposal
  \/ RewriteFile

-----------------------------------------------------------------------------
\* A text of one line that does not end in a line end.
OneUnendedLine(text) == text # <<>> /\ EolsOf(text) = {}

SourceText == IF before = Absent THEN <<>> ELSE before

\* A line of the result or of the file is one that the diff names.
InHunk(k, Start(_), kind) ==
  \E n \in DOMAIN patch.hunks :
    LET h == patch.hunks[n] IN k \in Start(h) + 1..Start(h) + Len(SideOf(h, kind))

Untouched(text, Start(_), kind) ==
  LET lines == Lines(text)
      kept == SelectSeq([k \in DOMAIN lines |-> k], LAMBDA k : ~InHunk(k, Start, kind))
  IN [k \in DOMAIN kept |-> Content(lines[kept[k]])]

\* What is reviewed has the lines that the diff shows, where it shows them.
ShowsThePatch ==
  LET lines == Lines(result)
  IN \A n \in DOMAIN patch.hunks :
       LET h == patch.hunks[n]
           new == SideOf(h, "add")
       IN \A k \in DOMAIN new :
            /\ NewBefore(h) + k \in DOMAIN lines
            /\ lines[NewBefore(h) + k].text = new[k].text

\* ... and ends the last of them in a line end unless the diff says otherwise.
ShowsTheNewlines ==
  LET lines == Lines(result)
  IN \A n \in DOMAIN patch.hunks :
       LET h == patch.hunks[n]
           new == SideOf(h, "add")
       IN \A k \in DOMAIN new :
            NewBefore(h) + k \in DOMAIN lines =>
              (lines[NewBefore(h) + k].eol = "none") = new[k].noNewline

\* The rest of the file is left as it is, and a file of one kind of line end
\* stays one of that kind.
LeavesTheRest ==
  /\ Untouched(result, NewBefore, "add") = Untouched(SourceText, OldBefore, "remove")
  /\ EolsOf(SourceText) # {} => EolsOf(result) \subseteq EolsOf(SourceText)

\* Edits that match are never refused because of the diff they were turned
\* into: that diff makes of the file what the edits make of it.
EditsAreRepresented ==
  stage = "unrepresented" /\ file = before => OneUnendedLine(before)

\* What a diff or text edits are turned into is what they say (patch.ts:336,
\* text-edits.ts:235), whatever was rewritten between the readings of the file:
\* the lines the diff shows, the rest untouched, and no edit lost in the
\* translation.  A file of a single line without a line end is the exception.
PreparedAsProposed ==
  /\ EditsAreRepresented
  /\ stage = "prepared" => /\ LeavesTheRest
                           /\ (ShowsThePatch /\ ShowsTheNewlines) \/ OneUnendedLine(SourceText)

\* "The standard `\ No newline at end of file` marker is honored, final-newline
\* behavior follows the patch" (spec-002:833): the content that is reviewed ends
\* in a line end exactly if the diff shows it so.
FinalNewlineFollowsPatch == stage = "prepared" => ShowsTheNewlines
=============================================================================
