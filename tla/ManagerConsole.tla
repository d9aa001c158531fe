---------------------------- MODULE ManagerConsole ----------------------------
(***************************************************************************)
(* The interactive manager (src/src/manager): a status read that is taken  *)
(* again and again, foreground actions that supersede it, and the review   *)
(* and approval of write requests, whose answers may be late or lost.      *)
(*                                                                         *)
(* An action is what runs between two awaits.  The requests belong to the  *)
(* broker, where other commands settle them too.  A generation counter of  *)
(* the code is a flag here: what it was compared with is still current.    *)
(***************************************************************************)
EXTENDS Naturals, FiniteSets

CONSTANTS Requests, Workspaces, WorkspaceOf, Nothing

ASSUME ConsoleConstants ==
  /\ WorkspaceOf \in [Requests -> Workspaces]
  /\ Nothing \notin Requests \union Workspaces

VARIABLES store,        \* the status of each request: "pending", "applied" or "closed"
          approving,    \* approvals that the broker is still to work on
          closed, active, confirmation, selection, workspaces, review, detail, attempt,
                        \* the snapshot: what the console shows and is about
          confirmationId,
          read, timer,  \* the status read, and whether the next one is scheduled
          op,           \* the foreground operation
          unread,       \* requests sent for approval, no terminal receipt of which has been read
          wrong         \* what must not happen and has: "stale" statuses, "doubled" approvals

broker == <<store, approving>>
target == <<selection, workspaces, review, detail>>
asked  == <<confirmation, confirmationId>>
polling == <<read, timer>>
ghosts == <<unread, wrong>>
consoleVars == <<broker, closed, active, target, asked, attempt, polling, op, ghosts>>

NoRead == [phase |-> "none", current |-> FALSE, aborted |-> FALSE, clean |-> FALSE]
NoOp   == [kind |-> "none", phase |-> "none", current |-> FALSE, aborted |-> FALSE, id |-> Nothing, reply |-> Nothing]
NoReview == [workspace |-> Nothing, state |-> "none", requests |-> {}, at |-> Nothing, detail |-> "none", request |-> Nothing]
NoDetail == [workspace |-> Nothing, state |-> "none"]
NoAttempt == [id |-> Nothing, state |-> "none"]
Receipt(id, status) == [id |-> id, status |-> status, list |-> {}]
Listing(list) == [id |-> Nothing, status |-> "listed", list |-> list]
Failed == Receipt(Nothing, "failed")
isTerminal(status) == status \in {"applied", "closed"}

NewRead == [NoRead EXCEPT !.phase = "new", !.current = TRUE, !.clean = TRUE]

ConsoleInit ==
  /\ store = [r \in Requests |-> "pending"] /\ approving = {}
  /\ closed = FALSE /\ active = "none" /\ confirmation = "none" /\ confirmationId = Nothing
  /\ selection = Nothing /\ workspaces = {} /\ review = NoReview /\ detail = NoDetail /\ attempt = NoAttempt
  /\ read = NewRead /\ timer = FALSE /\ op = NoOp
  /\ unread = {} /\ wrong = {}

-----------------------------------------------------------------------------
(* The broker and the other commands. *)

Settle(r) ==
  /\ store[r] = "pending" /\ store' = [store EXCEPT ![r] = "closed"]
  /\ UNCHANGED <<approving, closed, active, target, asked, attempt, polling, op, ghosts>>

\* An approval that has been sent is worked on whether or not its answer is still waited for; one
\* that cannot be applied may leave the request pending.
Approve(r) ==
  /\ r \in approving /\ approving' = approving \ {r}
  /\ \E status \in IF store[r] = "pending" THEN {"pending", "applied", "closed"} ELSE {store[r]} :
       /\ store' = [store EXCEPT ![r] = status]
       /\ op' = IF op.phase = "approve" /\ op.reply = Nothing /\ op.id = r
                THEN [op EXCEPT !.reply = IF store[r] = "pending" /\ isTerminal(status)
                                          THEN Receipt(r, status) ELSE Failed] ELSE op
  /\ UNCHANGED <<closed, active, target, asked, attempt, polling, ghosts>>

\* A request to the broker is answered, with what is true then, or fails.
Answer ==
  /\ op.reply = Nothing
  /\ \E reply \in {Failed} \union
         (CASE op.phase = "list" -> {Listing({r \in Requests : WorkspaceOf[r] = review.workspace /\ store[r] = "pending"})}
            [] op.phase \in {"detail", "reconcile"} -> {Receipt(op.id, store[op.id])}
            [] op.phase \in {"execute", "worktrees"} -> {Receipt(Nothing, "done")}
            [] OTHER -> {}) :
       op.phase \in {"list", "detail", "reconcile", "execute", "worktrees", "approve"} /\ op' = [op EXCEPT !.reply = reply]
  /\ UNCHANGED <<broker, closed, active, target, asked, attempt, polling, ghosts>>

-----------------------------------------------------------------------------
(* controller.ts: every patch of the snapshot keeps the review and the detail to the selected workspace. *)

Off(view, sel, wss) == view.workspace # Nothing /\ (sel # view.workspace \/ view.workspace \notin wss)

\* invalidate: the operation, if it is one on requests, is aborted and will show nothing.
invalidate(withReview) ==
  /\ op' = [op EXCEPT !.current = FALSE, !.aborted = @ \/ active = "requests"]
  /\ confirmationId' = Nothing
  /\ confirmation' = IF confirmation = "approve" THEN "none" ELSE confirmation
  /\ review' = withReview

\* patch with another selection or status, for an operation in the state `then`.
patch(sel, wss, then) ==
  LET reviewOff == Off(review, sel, wss)
      detailOff == Off(detail, sel, wss)
  IN  IF closed THEN UNCHANGED <<target, asked>> /\ op' = then
      ELSE /\ selection' = sel /\ workspaces' = wss
           /\ review' = IF reviewOff THEN NoReview ELSE review
           /\ detail' = IF detailOff THEN NoDetail ELSE detail
           /\ confirmationId' = IF reviewOff THEN Nothing ELSE confirmationId
           /\ confirmation' = IF reviewOff /\ confirmation = "approve" THEN "none" ELSE confirmation
           /\ op' = [then EXCEPT !.current = @ /\ ~reviewOff /\ ~detailOff,
                       !.aborted = @ \/ (reviewOff /\ active = "requests") \/ (detailOff /\ active = "detail")]

\* acceptStatus: the selection is kept while the workspace is listed.
acceptStatus(wss, then) ==
  \E sel \in IF selection \in wss THEN {selection} ELSE IF wss = {} THEN {Nothing} ELSE wss : patch(sel, wss, then)

selectWorkspace(w) ==
  /\ ~closed /\ confirmation = "none" /\ review = NoReview /\ detail = NoDetail
  /\ w \in workspaces /\ w # selection /\ patch(w, workspaces, op)
  /\ UNCHANGED <<broker, closed, active, attempt, polling, ghosts>>

-----------------------------------------------------------------------------
(* refresh-coordinator.ts *)

\* A foreground action supersedes the read under way.
beginForegroundAction ==
  /\ timer' = FALSE
  /\ read' = IF read = NoRead THEN NoRead ELSE [read EXCEPT !.current = FALSE, !.aborted = TRUE, !.clean = FALSE]

\* One read at a time: a second refresh waits for the first.
refresh == timer' = FALSE /\ read' = IF read.phase = "none" THEN NewRead ELSE read

Poll ==
  /\ timer /\ ~closed /\ refresh
  /\ UNCHANGED <<broker, closed, active, target, asked, attempt, op, ghosts>>

runRead ==
  /\ read.phase = "new" /\ ~closed /\ read' = [read EXCEPT !.phase = "reading"]
  /\ UNCHANGED <<broker, closed, active, target, asked, attempt, timer, op, ghosts>>

\* Mutant: only a read that brought a status schedules the next one.
EndReadByValue(result) ==
  /\ read.phase = "reading" /\ read' = NoRead
  /\ timer' = (timer \/ (~closed /\ read.current /\ result = "value"))
  /\ UNCHANGED <<broker, closed, active, target, asked, attempt, op, ghosts>>

\* A read that ends as the current one schedules the next; one that was superseded leaves that to the
\* action.  It may return a value although it was told to stop.  A time out shows an error, a value
\* that came in time the status.
endRead(result) ==
  /\ read.phase = "reading" /\ read' = NoRead
  /\ timer' = (timer \/ (~closed /\ read.current))
  /\ IF result = "value" /\ read.current /\ ~closed /\ ~read.aborted
     THEN /\ \E wss \in SUBSET Workspaces : acceptStatus(wss, op)
          /\ wrong' = wrong \union {w \in {"stale"} : ~read.clean \/ op.phase \notin {"none", "refresh"}}
     ELSE UNCHANGED <<target, asked, op, wrong>>
  /\ UNCHANGED <<broker, closed, active, attempt, unread>>

-----------------------------------------------------------------------------
(* Foreground operations: one at a time. *)

Free == ~closed /\ active = "none" /\ confirmation = "none"

Foreground(kind, phase, id) ==
  /\ beginForegroundAction
  /\ active' = kind
  /\ op' = [NoOp EXCEPT !.kind = kind, !.phase = phase, !.current = TRUE, !.id = id]

\* The receipt of an unknown attempt is read before the list.
openQueue ==
  /\ Free /\ selection # Nothing
  /\ Foreground("requests", IF attempt.state = "unknown" THEN "reconcile" ELSE "list", attempt.id)
  /\ review' = [NoReview EXCEPT !.workspace = selection, !.state = "loading"] /\ detail' = NoDetail
  /\ UNCHANGED <<broker, closed, selection, workspaces, asked, attempt, ghosts>>

openDetail ==
  /\ Free /\ review.at # Nothing
  /\ Foreground("requests", "detail", review.at)
  /\ review' = [review EXCEPT !.detail = "loading", !.request = Nothing]
  /\ UNCHANGED <<broker, closed, selection, workspaces, detail, asked, attempt, ghosts>>

moveSelection(r) ==
  /\ ~closed /\ confirmation = "none" /\ review.detail = "none" /\ r \in review.requests
  /\ review' = [review EXCEPT !.at = r]
  /\ UNCHANGED <<broker, closed, active, selection, workspaces, detail, asked, attempt, polling, op, ghosts>>

back ==
  /\ ~closed /\ review # NoReview /\ confirmation = "none"
  /\ invalidate(IF review.detail # "none" THEN [review EXCEPT !.detail = "none", !.request = Nothing] ELSE NoReview)
  /\ UNCHANGED <<broker, closed, active, selection, workspaces, detail, attempt, polling, ghosts>>

canApprove ==
  /\ Free /\ review.detail = "ready" /\ review.request.status = "pending" /\ attempt.state # "unknown"

requestApproval ==
  /\ canApprove /\ confirmation' = "approve" /\ confirmationId' = review.request.id
  /\ UNCHANGED <<broker, closed, active, target, attempt, polling, op, ghosts>>

\* The approval is sent: from here on its outcome is unknown until a terminal receipt is read.
Dispatch(r) ==
  /\ attempt' = [id |-> r, state |-> "unknown"]
  /\ approving' = approving \union {r}
  /\ unread' = unread \union {r}
  /\ wrong' = wrong \union {w \in {"doubled"} : unread # {}}

\* Only what was asked about is sent; without a broker nothing is, and the attempt stays as it was.
confirmApproval ==
  /\ confirmation = "approve" /\ ~closed /\ confirmation' = "none" /\ confirmationId' = Nothing
  /\ IF \/ review.request = Nothing \/ review.request.id # confirmationId
        \/ attempt.state = "unknown" \/ active # "none"
     THEN UNCHANGED <<active, op, attempt, approving, polling, ghosts>>
     ELSE \/ Foreground("requests", "approve", review.request.id) /\ Dispatch(review.request.id)
          \/ Foreground("requests", "finish", review.request.id) /\ UNCHANGED <<attempt, approving, ghosts>>
  /\ UNCHANGED <<store, closed, target>>

cancelConfirmation ==
  /\ confirmation # "none" /\ ~closed /\ confirmation' = "none"
  /\ UNCHANGED <<broker, closed, active, target, confirmationId, attempt, polling, op, ghosts>>

reconcile ==
  /\ Free /\ review = NoReview /\ attempt.state = "unknown" /\ Foreground("requests", "reconcile", attempt.id)
  /\ UNCHANGED <<broker, closed, target, asked, attempt, ghosts>>

\* The overview is refreshed: a read under way is waited for.
refreshOverview ==
  /\ Free /\ review = NoReview /\ attempt.state # "unknown" /\ refresh
  /\ UNCHANGED <<broker, closed, active, target, asked, attempt, op, ghosts>>

openWorkspaceDetail ==
  /\ Free /\ selection # Nothing /\ review = NoReview /\ Foreground("detail", "worktrees", Nothing)
  /\ detail' = [workspace |-> selection, state |-> "loading"]
  /\ UNCHANGED <<broker, closed, selection, workspaces, review, asked, attempt, ghosts>>

closeWorkspaceDetail ==
  /\ ~closed /\ detail # NoDetail /\ detail' = NoDetail
  /\ op' = [op EXCEPT !.current = @ /\ op.kind # "detail", !.aborted = @ \/ active = "detail"]
  /\ UNCHANGED <<broker, closed, active, selection, workspaces, review, asked, attempt, polling, ghosts>>

\* perform: start, stop and the other lifecycle actions; some ask first.
perform(asks) ==
  /\ Free /\ review = NoReview
  /\ IF asks THEN confirmation' = "stop" /\ UNCHANGED <<active, op, polling>>
     ELSE Foreground("lifecycle", "execute", Nothing) /\ UNCHANGED confirmation
  /\ UNCHANGED <<broker, closed, target, confirmationId, attempt, ghosts>>

\* What was asked about may no longer be possible.
confirmPendingAction ==
  /\ confirmation = "stop" /\ ~closed /\ confirmation' = "none"
  /\ IF active = "none" THEN Foreground("lifecycle", "execute", Nothing) \/ UNCHANGED <<active, op, polling>>
     ELSE UNCHANGED <<active, op, polling>>
  /\ UNCHANGED <<broker, closed, target, confirmationId, attempt, ghosts>>

close ==
  /\ ~closed /\ closed' = TRUE /\ confirmation' = "none" /\ active' = "none" /\ timer' = FALSE
  /\ read' = [read EXCEPT !.aborted = TRUE] /\ op' = [op EXCEPT !.aborted = TRUE]
  /\ UNCHANGED <<broker, target, confirmationId, attempt, ghosts>>

-----------------------------------------------------------------------------
(* Their answers. *)

\* Mutant: any receipt of the request settles the attempt.
AcceptAny(receipt) ==
  /\ unread' = unread \ {r \in unread : r = receipt.id /\ isTerminal(receipt.status)}
  /\ attempt' = IF ~closed /\ receipt.id = attempt.id THEN [attempt EXCEPT !.state = "resolved"] ELSE attempt

\* Only a terminal receipt settles the attempt; the review shows it too.
acceptReceipt(receipt) ==
  /\ unread' = unread \ {r \in unread : r = receipt.id /\ isTerminal(receipt.status)}
  /\ attempt' = IF ~closed /\ receipt.id = attempt.id /\ isTerminal(receipt.status)
                THEN [attempt EXCEPT !.state = "resolved"] ELSE attempt

Shown(receipt) ==
  review' = IF ~closed /\ isTerminal(receipt.status) /\ review.detail = "ready" /\ review.request.id = receipt.id
            THEN [review EXCEPT !.request = receipt] ELSE review

Ready(phase) == op.phase = phase /\ op.reply # Nothing
To(phase) == [op EXCEPT !.phase = phase, !.reply = Nothing]
Shows == op.current /\ ~op.aborted /\ ~closed

\* After an approval or before a list: an operation that was aborted accepts nothing.
Approved ==
  /\ Ready("approve") /\ acceptReceipt(op.reply) /\ Shown(op.reply)
  /\ op' = IF ~op.aborted /\ attempt'.state = "unknown" THEN To("reconcile") ELSE To("finish")
  /\ UNCHANGED <<broker, closed, active, selection, workspaces, detail, asked, polling, wrong>>

Reconciled ==
  /\ Ready("reconcile")
  /\ IF op.aborted THEN UNCHANGED <<unread, attempt, review>> ELSE acceptReceipt(op.reply) /\ Shown(op.reply)
  /\ op' = IF review.state = "loading" THEN To("list") ELSE To("finish")
  /\ UNCHANGED <<broker, closed, active, selection, workspaces, detail, asked, polling, wrong>>

ListRead ==
  /\ Ready("list")
  /\ \E at \in IF op.reply.list = {} THEN {Nothing} ELSE op.reply.list :
       review' = IF ~Shows THEN review
                 ELSE IF op.reply = Failed THEN [review EXCEPT !.state = "unavailable", !.requests = {}, !.at = at]
                 ELSE [review EXCEPT !.state = "ready", !.requests = op.reply.list, !.at = at]
  /\ op' = To("finish")
  /\ UNCHANGED <<broker, closed, active, selection, workspaces, detail, asked, attempt, polling, ghosts>>

DetailRead ==
  /\ Ready("detail")
  /\ review' = IF ~Shows THEN review
               ELSE IF op.reply = Failed THEN [review EXCEPT !.detail = "unavailable"]
               ELSE [review EXCEPT !.detail = "ready", !.request = op.reply]
  /\ op' = To("finish")
  /\ UNCHANGED <<broker, closed, active, selection, workspaces, detail, asked, attempt, polling, ghosts>>

WorktreesRead ==
  /\ Ready("worktrees")
  /\ detail' = IF ~Shows THEN detail ELSE [detail EXCEPT !.state = IF op.reply = Failed THEN "unavailable" ELSE "ready"]
  /\ op' = To("finish")
  /\ UNCHANGED <<broker, closed, active, selection, workspaces, review, asked, attempt, polling, ghosts>>

\* A lifecycle action or a check answers with a status of its own.
execute ==
  /\ Ready("execute")
  /\ IF op.reply # Failed THEN \E wss \in SUBSET Workspaces : acceptStatus(wss, To("finish"))
     ELSE op' = To("finish") /\ UNCHANGED <<target, asked>>
  /\ UNCHANGED <<broker, closed, active, attempt, polling, ghosts>>

\* refreshAfterAction: the superseded read retires, a new one is made, and then others may act.
refreshAfterAction ==
  \/ /\ op.phase = "finish" /\ closed /\ op' = NoOp /\ UNCHANGED <<active, polling>>
  \/ /\ op.phase = "finish" /\ ~closed /\ read.phase = "none" /\ refresh /\ op' = To("refresh") /\ UNCHANGED active
  \/ /\ op.phase = "refresh" /\ (closed \/ read.phase = "none") /\ op' = NoOp /\ active' = "none" /\ UNCHANGED polling
refreshAfter ==
  /\ refreshAfterAction
  /\ UNCHANGED <<broker, closed, target, asked, attempt, ghosts>>

-----------------------------------------------------------------------------
ConsoleNext ==
  \/ \E r \in Requests : Settle(r) \/ Approve(r) \/ moveSelection(r)
  \/ \E w \in Workspaces : selectWorkspace(w)
  \/ Answer \/ Poll \/ runRead \/ endRead("value") \/ endRead("error")
  \/ openQueue \/ openDetail \/ back \/ requestApproval \/ confirmApproval \/ cancelConfirmation
  \/ reconcile \/ refreshOverview \/ openWorkspaceDetail \/ closeWorkspaceDetail
  \/ (\E asks \in BOOLEAN : perform(asks)) \/ confirmPendingAction \/ close
  \/ Approved \/ Reconciled \/ ListRead \/ DetailRead \/ WorktreesRead \/ execute \/ refreshAfter

ConsoleSpec == ConsoleInit /\ [][ConsoleNext]_consoleVars

-----------------------------------------------------------------------------
(* Properties. *)

\* A status that a read brings is shown only when no foreground action began after the read did, nor
\* is under way: what an action changed is never covered by what was true before it; and while the
\* console is open, a read is under way, scheduled, or will be made when the action ends
\* (refresh-coordinator.ts:63,111).
StatusIsCurrent ==
  /\ "stale" \notin wrong
  /\ closed \/ timer \/ read.phase # "none" \/ op.phase # "none"

\* However answers are lost, delayed or ignored, an approval is sent only when the terminal receipt
\* of every earlier one has been read, and one that is shown as resolved is settled in the broker
\* (request-review-controller.ts:83,127).
ApprovalsAreSettled ==
  /\ "doubled" \notin wrong
  /\ attempt.state = "unknown" => unread \subseteq {attempt.id}
  /\ attempt.state = "resolved" => isTerminal(store[attempt.id])

=============================================================================
