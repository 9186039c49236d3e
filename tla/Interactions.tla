----------------------------- MODULE Interactions -----------------------------
(* What an agent asks of its user: structured questions (QuestionBridge,      *)
(* gateway/webui/question_bridge.py) and approvals of tool calls             *)
(* (ApprovalBridge, gateway/webui/glue.py, with the rows of                  *)
(* gateway/conversation).  An executor thread asks and waits; a browser keeps *)
(* a queue of what is pending in its session, fed by SSE events and by       *)
(* polling (useQuestionQueue.ts, useApprovalQueue.ts).                       *)
EXTENDS Naturals, FiniteSets, Sequences

CONSTANTS
  Asks,          \* questions and approvals, each asked once
  AskSessions,   \* sessions of the browser's user
  FirstScope,    \* the session shown first
  MaxFetches,    \* bound: polls under way at a time
  MaxSwitches,   \* bound: changes of the session shown
  MaxAnswers     \* bound: answers and dismissals sent

VARIABLES
  ask,           \* records of the bridges and where their threads are
  approvalRow,   \* status of the approvals rows
  resolving,     \* decisions on their way from the bridge to the row
  told,          \* per ask the answers acknowledged with RESOLVE_OK
  tool,          \* what the asking tool was given
  uiStopped,     \* WebUIModule.stop() has closed the bridges
  scope,         \* session shown by the browser
  shown,         \* its queue per kind
  dismissed,     \* dismissedRef
  fetches,       \* GET requests under way
  sse,           \* events on their way to the browser
  posts,         \* POST requests under way
  switches, answers  \* counters of the bounds

askVars == <<ask, approvalRow, resolving, told, tool, uiStopped>>
uiVars == <<scope, shown, dismissed, fetches, sse, posts, switches, answers>>
interactVars == <<ask, approvalRow, resolving, told, tool, uiStopped,
                  scope, shown, dismissed, fetches, sse, posts, switches, answers>>

ASSUME AskAssumption == FirstScope \in AskSessions

Kinds == {"question", "approval"}
Questions == {r \in Asks : ask[r].kind = "question"}
Approvals == {r \in Asks : ask[r].kind = "approval"}
NotAsked == [at |-> "new", kind |-> "none", session |-> FirstScope, status |-> "pending", answer |-> "none"]
\* _pending of both bridges: from the insertion until the thread takes its record out
PendingAsk(r) == ask[r].at \in {"inserted", "waits", "woken", "late"}
Event(type, r) == [type |-> type, ask |-> r]
-----------------------------------------------------------------------------
(* The asking thread                                                         *)

\* AskQuestionTool.execute: without a WebUI the tool is told so and nothing is asked.
QuestionsAvailable == ~uiStopped

\* ask() inserts the record; an approval of a unified conversation has a row first.
InsertAsk(r, k, s, unified) ==
  /\ ask[r].at = "new"
  /\ k = "question" => QuestionsAvailable /\ ~unified
  /\ ask' = [ask EXCEPT ![r].at = "inserted", ![r].kind = k, ![r].session = s]
  /\ approvalRow' = [approvalRow EXCEPT ![r] = IF unified THEN "pending" ELSE "none"]
  /\ UNCHANGED <<resolving, told, tool, uiStopped, uiVars>>

\* ... and publishes question.requested or approval.requested.
PublishAsk(r) ==
  /\ ask[r].at = "inserted"
  /\ ask' = [ask EXCEPT ![r].at = "waits"]
  /\ sse' = Append(sse, Event("requested", r))
  /\ UNCHANGED <<approvalRow, resolving, told, tool, uiStopped,
                 scope, shown, dismissed, fetches, posts, switches, answers>>

\* The event of a record is set with its answer or its final status.
EventSet(r) == ask[r].status # "pending" \/ ask[r].answer # "none"

\* evt.wait returns True, or False at the time-out.
WaitEnds(r) ==
  /\ ask[r].at = "waits"
  /\ ask' = [ask EXCEPT ![r].at = IF EventSet(r) THEN "woken" ELSE "late"]
  /\ UNCHANGED <<approvalRow, resolving, told, tool, uiStopped, uiVars>>

\* The rest of QuestionBridge.ask: a time-out only if nobody answered meanwhile.
QuestionReturns(r) ==
  /\ r \in Questions /\ ask[r].at \in {"woken", "late"}
  /\ ask' = [ask EXCEPT ![r].at = "over", ![r].status = IF @ = "pending" THEN "timeout" ELSE @]
  /\ tool' = [tool EXCEPT ![r] =
       CASE ask[r].status = "pending" -> "timeout"
         [] ask[r].status = "answered" -> ask[r].answer
         [] OTHER -> ask[r].status]
  /\ sse' = Append(sse, Event("resolved", r))
  /\ UNCHANGED <<approvalRow, resolving, told, uiStopped,
                 scope, shown, dismissed, fetches, posts, switches, answers>>

\* A plausible slip: an approval that ran into its time-out counts as given.
ApprovalAnswerOpen(r) == IF ask[r].answer = "none" THEN "y" ELSE ask[r].answer

\* The rest of ApprovalBridge.ask: no answer, or one that came too late, is a refusal.
ApprovalAnswer(r) ==
  IF ask[r].at = "woken" /\ ask[r].answer # "none" THEN ask[r].answer ELSE "n"

\* The browser takes approval_id for the id of approval.resolved, and keeps its items
\* by id: the event removes nothing.
ApprovalReturns(r) ==
  /\ r \in Approvals /\ ask[r].at \in {"woken", "late"}
  /\ ask' = [ask EXCEPT ![r].at = "over"]
  /\ tool' = [tool EXCEPT ![r] = ApprovalAnswer(r)]
  /\ UNCHANGED <<approvalRow, resolving, told, uiStopped, uiVars>>
-----------------------------------------------------------------------------
(* Answers                                                                   *)

\* A plausible slip: the bridge only looks whether the record is still there.
MayAnswerAgain(r) == PendingAsk(r)

\* QuestionBridge.resolve and cancel, under the lock
MayAnswer(r) == PendingAsk(r) /\ ask[r].status = "pending"

\* _make_question_answer with an answer that fits the question
ResolveQuestion(r, a) ==
  /\ r \in Questions
  /\ IF MayAnswer(r)
     THEN /\ ask' = [ask EXCEPT ![r].status = "answered", ![r].answer = a]
          /\ told' = [told EXCEPT ![r] = @ \cup {a}]
     ELSE UNCHANGED <<ask, told>>
  /\ UNCHANGED <<approvalRow, resolving>>

\* _make_question_cancel
CancelQuestion(r) ==
  /\ IF MayAnswer(r)
     THEN /\ ask' = [ask EXCEPT ![r].status = "cancelled"]
          /\ told' = [told EXCEPT ![r] = @ \cup {"cancelled"}]
          /\ sse' = Append(sse, Event("resolved", r))
     ELSE UNCHANGED <<ask, told, sse>>
  /\ UNCHANGED <<approvalRow, resolving>>

\* ApprovalBridge.resolve, under the lock: a second answer replaces the first.
ResolveApproval(r, a) ==
  /\ r \in Approvals
  /\ IF PendingAsk(r)
     THEN /\ ask' = [ask EXCEPT ![r].answer = a]
          /\ told' = [told EXCEPT ![r] = @ \cup {a}]
          /\ resolving' = IF approvalRow[r] = "none" THEN resolving
                          ELSE resolving \cup {<<r, IF a = "y" THEN "approved" ELSE "denied">>}
     ELSE UNCHANGED <<ask, told, resolving>>
  /\ UNCHANGED approvalRow

\* store.resolve_approval: refused unless the row is pending
RowResolved(r, d) ==
  approvalRow' = IF approvalRow[r] = "pending" THEN [approvalRow EXCEPT ![r] = d] ELSE approvalRow

\* ... which the bridge asks for after its lock is released
BridgeResolvesRow(r, d) ==
  /\ <<r, d>> \in resolving /\ resolving' = resolving \ {<<r, d>>}
  /\ RowResolved(r, d)
  /\ UNCHANGED <<ask, told, tool, uiStopped, uiVars>>

\* handle_approval of the conversation API: the row alone, the thread waits on
ApiResolvesRow(r, d) ==
  /\ approvalRow[r] = "pending" /\ RowResolved(r, d)
  /\ UNCHANGED <<ask, resolving, told, tool, uiStopped, uiVars>>

\* cancel_pending_approvals when the turn ends, and the same rows in complete_turn
CancelPendingApprovals(r) ==
  /\ approvalRow[r] = "pending" /\ RowResolved(r, "cancelled")
  /\ UNCHANGED <<ask, resolving, told, tool, uiStopped, uiVars>>

\* _expire_and_broadcast_approvals
ExpireApprovals(r) ==
  /\ approvalRow[r] = "pending" /\ RowResolved(r, "timed_out")
  /\ UNCHANGED <<ask, resolving, told, tool, uiStopped, uiVars>>

\* fail_close_all of both bridges
FailCloseAll ==
  /\ ~uiStopped /\ uiStopped' = TRUE
  /\ ask' = [r \in Asks |->
       IF PendingAsk(r) /\ r \in Questions /\ ask[r].status = "pending"
       THEN [ask[r] EXCEPT !.status = "fail_closed"]
       ELSE IF PendingAsk(r) /\ r \in Approvals /\ ask[r].answer = "none"
            THEN [ask[r] EXCEPT !.answer = "n"] ELSE ask[r]]
  /\ UNCHANGED <<approvalRow, resolving, told, tool, uiVars>>
-----------------------------------------------------------------------------
(* The browser                                                               *)

\* Polls of a queue that nothing was put in yet are left out.
Polled == {ask[r].kind : r \in Asks} \cap Kinds
Fetch(k, s) == [kind |-> k, scope |-> s, at |-> "sent", items |-> {}]

\* The session shown changes: the questions are reset, both queues are fetched anew.
SwitchScope(s) ==
  /\ switches < MaxSwitches /\ s # scope
  /\ switches' = switches + 1 /\ scope' = s
  /\ shown' = [shown EXCEPT !["question"] = {}]
  /\ fetches' = fetches \cup {Fetch(k, s) : k \in Polled}
  /\ UNCHANGED <<askVars, dismissed, sse, posts, answers>>

\* recover, by the polling timer
PollBegins(k) ==
  /\ k \in Polled /\ Cardinality(fetches) < MaxFetches /\ Fetch(k, scope) \notin fetches
  /\ fetches' = fetches \cup {Fetch(k, scope)}
  /\ UNCHANGED <<askVars, scope, shown, dismissed, sse, posts, switches, answers>>

\* list_pending of the bridge
FetchServed(f) ==
  /\ f \in fetches /\ f.at = "sent"
  /\ fetches' = (fetches \ {f}) \cup
       {[f EXCEPT !.at = "served",
                  !.items = {r \in Asks : ask[r].kind = f.kind /\ PendingAsk(r) /\ ask[r].session = f.scope}]}
  /\ UNCHANGED <<askVars, scope, shown, dismissed, sse, posts, switches, answers>>

\* A plausible slip: what the poll returns is added to the queue.
RecoveredMerged(f) == shown[f.kind] \cup (f.items \ dismissed)

\* recoverDone keeps what fits the session asked for; replace of the approvals what fits
\* the session shown now.
Recovered(f) ==
  IF f.kind = "question" THEN f.items \ dismissed
  ELSE {r \in f.items : ask[r].session = scope}

FetchApplied(f) ==
  /\ f \in fetches /\ f.at = "served" /\ fetches' = fetches \ {f}
  /\ shown' = [shown EXCEPT ![f.kind] = Recovered(f)]
  /\ UNCHANGED <<askVars, scope, dismissed, sse, posts, switches, answers>>

FetchFails(f) ==
  /\ f \in fetches /\ fetches' = fetches \ {f}
  /\ shown' = [shown EXCEPT ![f.kind] = {}]
  /\ UNCHANGED <<askVars, scope, dismissed, sse, posts, switches, answers>>

\* onSse of both queues
SseArrives ==
  /\ sse # <<>> /\ sse' = Tail(sse)
  /\ LET r == Head(sse).ask
     IN IF Head(sse).type = "requested"
        THEN /\ shown' = [shown EXCEPT ![ask[r].kind] =
                   IF ask[r].session = scope /\ r \notin dismissed THEN @ \cup {r} ELSE @]
             /\ UNCHANGED dismissed
        ELSE /\ shown' = [shown EXCEPT !["question"] = @ \ {r}]
             /\ dismissed' = dismissed \ {r}
  /\ UNCHANGED <<askVars, scope, fetches, posts, switches, answers>>

\* The connection drops an event.
SseLost ==
  /\ sse # <<>> /\ sse' = Tail(sse)
  /\ UNCHANGED <<askVars, scope, shown, dismissed, fetches, posts, switches, answers>>

\* The user answers what is shown; the item stays until the server replies.
UserAnswers(r, a) ==
  /\ answers < MaxAnswers /\ answers' = answers + 1
  /\ \E k \in Kinds : r \in shown[k]
  /\ posts' = posts \cup {<<r, a>>}
  /\ UNCHANGED <<askVars, scope, shown, dismissed, fetches, sse, switches>>

\* dismiss: removed at once, then cancelled on the server
UserDismisses(r) ==
  /\ answers < MaxAnswers /\ answers' = answers + 1
  /\ r \in shown["question"]
  /\ shown' = [shown EXCEPT !["question"] = @ \ {r}]
  /\ dismissed' = dismissed \cup {r}
  /\ posts' = posts \cup {<<r, "cancelled">>}
  /\ UNCHANGED <<askVars, scope, fetches, sse, switches>>

\* The server handles a POST and the browser its reply: 200 removes the item.
PostHandled(r, a) ==
  /\ <<r, a>> \in posts /\ posts' = posts \ {<<r, a>>}
  /\ CASE a = "cancelled" -> CancelQuestion(r)
       [] a # "cancelled" /\ r \in Questions -> ResolveQuestion(r, a) /\ UNCHANGED sse
       [] OTHER -> ResolveApproval(r, a) /\ UNCHANGED sse
  /\ shown' = IF told' = told THEN shown ELSE [shown EXCEPT ![ask[r].kind] = @ \ {r}]
  /\ UNCHANGED <<tool, uiStopped, scope, dismissed, fetches, switches, answers>>
-----------------------------------------------------------------------------
InteractInit ==
  /\ ask = [r \in Asks |-> NotAsked] /\ approvalRow = [r \in Asks |-> "none"]
  /\ resolving = {} /\ told = [r \in Asks |-> {}] /\ tool = [r \in Asks |-> "none"]
  /\ uiStopped = FALSE
  /\ scope = FirstScope /\ shown = [k \in Kinds |-> {}] /\ dismissed = {}
  /\ fetches = {} /\ sse = <<>> /\ posts = {} /\ switches = 0 /\ answers = 0

AskThread(r) == PublishAsk(r) \/ WaitEnds(r) \/ QuestionReturns(r) \/ ApprovalReturns(r)

InteractNext ==
  \/ \E r \in Asks, k \in Kinds, s \in AskSessions, u \in BOOLEAN : InsertAsk(r, k, s, u)
  \/ \E r \in Asks : AskThread(r) \/ CancelPendingApprovals(r) \/ ExpireApprovals(r) \/ UserDismisses(r)
  \/ \E r \in Asks, d \in {"approved", "denied"} : BridgeResolvesRow(r, d) \/ ApiResolvesRow(r, d)
  \/ FailCloseAll \/ SseArrives \/ SseLost
  \/ \E s \in AskSessions : SwitchScope(s)
  \/ \E k \in Kinds : PollBegins(k)
  \/ \E f \in fetches : FetchServed(f) \/ FetchApplied(f) \/ FetchFails(f)
  \/ \E r \in Asks, a \in {"y", "n"} : UserAnswers(r, a)
  \/ \E p \in posts : PostHandled(p[1], p[2])

InteractSpec == InteractInit /\ [][InteractNext]_interactVars
-----------------------------------------------------------------------------
(* Properties                                                                *)

AskRecord ==
  [at : {"new", "inserted", "waits", "woken", "late", "over"}, kind : Kinds \cup {"none"}, session : AskSessions,
   status : {"pending", "answered", "cancelled", "timeout", "fail_closed"}, answer : {"none", "y", "n"}]
EventRecord == [type : {"requested", "resolved"}, ask : Asks]
FetchRecord == [kind : Kinds, scope : AskSessions, at : {"sent", "served"}, items : SUBSET Asks]
\* The variables have their types, and what a queue shows is of its kind.
InteractTypeOK ==
  /\ ask \in [Asks -> AskRecord]
  /\ approvalRow \in [Asks -> {"none", "pending", "approved", "denied", "cancelled", "timed_out"}]
  /\ resolving \subseteq Asks \X {"approved", "denied"} /\ told \in [Asks -> SUBSET {"y", "n", "cancelled"}]
  /\ tool \in [Asks -> {"none", "y", "n", "cancelled", "timeout", "fail_closed"}] /\ uiStopped \in BOOLEAN
  /\ scope \in AskSessions /\ shown \in [Kinds -> SUBSET Asks]
  /\ dismissed \subseteq Questions /\ \A k \in Kinds : shown[k] \subseteq {r \in Asks : ask[r].kind = k}
  /\ fetches \subseteq FetchRecord /\ sse \in Seq(EventRecord) /\ posts \subseteq Asks \X {"y", "n", "cancelled"}
  /\ switches \in Nat /\ answers \in Nat

\* An acknowledged answer or cancel of a question is the only one and is what the tool is
\* given, also when it races the time-out or the stop of the WebUI; without one the tool
\* is told that nobody answered (QuestionBridge.ask and resolve).
AcceptedReachesTool ==
  \A r \in Questions : ask[r].at = "over" =>
    told[r] = IF tool[r] \in {"timeout", "fail_closed"} THEN {} ELSE {tool[r]}

\* A tool call is allowed only when a user's yes was acknowledged for it, whatever times
\* out, is stopped or is decided on the row alone (ApprovalBridge.ask, fail-closed).
AllowedWasAnswered == \A r \in Approvals : tool[r] = "y" => "y" \in told[r]

\* What the approvals table says of a call is what happened to it.
RowTellsTruth ==
  \A r \in Approvals : ask[r].at = "over" /\ approvalRow[r] \in {"approved", "denied"}
                       => (approvalRow[r] = "approved" <=> tool[r] = "y")

\* Questions never bleed across sessions (useQuestionQueue.ts).
NoBleed == \A r \in shown["question"] : ask[r].session = scope
=============================================================================
