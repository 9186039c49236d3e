---------------------------- MODULE GatewayProofs ----------------------------
(* Theorems about what a gateway is told and what it keeps, for any messages, *)
(* questions, files and artifacts, and any bound of a run; and, with those of *)
(* PoolProofs, about the gateway as MCGateway composes it.                    *)
(* One inductive invariant per part, with the part's types:                   *)
(*   questions   status, acknowledgements and what the tool got agree, which  *)
(*               an update of the row alone does not show (AskInv);           *)
(*   deliveries  a receipt is queued and answered once (InboundInv); a task   *)
(*               that may run again has told its channel nothing (AnswerInv); *)
(*   import      who writes into a conversation made it, alone (ImportInv);   *)
(*   artifacts   what the collector may have, it may have for good, although  *)
(*               it decided on a snapshot of archived plans that may be out   *)
(*               of date: an archived plan is cleared at most, an old row     *)
(*               gets no younger, a row is never attached to another plan nor *)
(*               made again (RetentionInv).                                   *)
(* At the end the parts are composed.                                         *)
EXTENDS MCGateway, PoolProofs
-----------------------------------------------------------------------------
(* Questions and approvals.                                                   *)

\* What is known of an ask x with the acknowledgements t and what its tool was given, g: before
\* its thread returns a question has at most the one answer that its status names, and once it
\* is over the tool has it; an approval is given only by an acknowledged yes.
AskSound(x, t, g) ==
  /\ x.kind = "none" <=> x.at = "new"
  /\ x.at = "new" => x.status = "pending" /\ x.answer = "none" /\ t = {} /\ g = "none"
  /\ x.kind = "question" /\ x.at # "over" =>
       /\ x.status = "pending" => x.answer = "none" /\ t = {}
       /\ x.status = "answered" => x.answer # "none" /\ t = {x.answer}
       /\ x.status = "cancelled" => t = {"cancelled"}
       /\ x.status = "fail_closed" => t = {}
       /\ x.status # "timeout"
  /\ x.kind = "question" /\ x.at = "over" => t = IF g \in {"timeout", "fail_closed"} THEN {} ELSE {g}
  /\ x.kind = "approval" => (x.answer = "y" => "y" \in t) /\ (g = "y" => "y" \in t)
AskInv == \A r \in Asks : AskSound(ask[r], told[r], tool[r])
\* What is on its way to the browser is of something asked, polls of the kind polled for.
OnTheWay ==
  /\ \A f \in fetches : \A r \in f.items : ask[r].kind = f.kind
  /\ \A i \in 1 .. Len(sse) : ask[sse[i].ask].kind \in Kinds
-----------------------------------------------------------------------------
\* A kind is given once; the parts of the type invariant about the threads and the browser.
ThreadTypes ==
  /\ ask \in [Asks -> AskRecord]
  /\ approvalRow \in [Asks -> {"none", "pending", "approved", "denied", "cancelled", "timed_out"}]
  /\ resolving \subseteq Asks \X {"approved", "denied"} /\ told \in [Asks -> SUBSET {"y", "n", "cancelled"}]
  /\ tool \in [Asks -> {"none", "y", "n", "cancelled", "timeout", "fail_closed"}] /\ uiStopped \in BOOLEAN
BrowserTypes ==
  /\ scope \in AskSessions /\ shown \in [Kinds -> SUBSET Asks]
  /\ \A r \in dismissed : r \in Asks /\ ask[r].kind = "question"
  /\ \A k \in Kinds : \A r \in shown[k] : ask[r].kind = k
  /\ fetches \subseteq FetchRecord /\ sse \in Seq(EventRecord) /\ posts \subseteq Asks \X {"y", "n", "cancelled"}
  /\ switches \in Nat /\ answers \in Nat
KindsStay == \A r \in Asks : ask[r].kind = "none" \/ ask'[r].kind = ask[r].kind

LEMMA InteractTypesSplit == InteractTypeOK <=> ThreadTypes /\ BrowserTypes
<1>1. ASSUME InteractTypeOK PROVE ThreadTypes /\ BrowserTypes
  BY <1>1 DEF InteractTypeOK, ThreadTypes, BrowserTypes, Questions
<1>2. ASSUME ThreadTypes, BrowserTypes PROVE InteractTypeOK
  <2>1. dismissed \subseteq Questions
    BY <1>2 DEF BrowserTypes, Questions
  <2>2. \A k \in Kinds : shown[k] \subseteq {r \in Asks : ask[r].kind = k}
    <3> TAKE k \in Kinds
    <3>1. shown[k] \subseteq Asks
      BY <1>2 DEF BrowserTypes
    <3> QED
      BY <1>2, <3>1 DEF BrowserTypes
  <2> QED
    BY <1>2, <2>1, <2>2 DEF InteractTypeOK, ThreadTypes, BrowserTypes
<1> QED
  BY <1>1, <1>2

LEMMA AskUpdates ==
  ASSUME NEW x \in AskRecord
  PROVE  /\ \A k \in Kinds, s \in AskSessions :
              [x EXCEPT !.at = "inserted", !.kind = k, !.session = s] \in AskRecord
         /\ \A a \in {"waits", "woken", "late", "over"} : [x EXCEPT !.at = a] \in AskRecord
         /\ \A st \in {"pending", "answered", "cancelled", "timeout", "fail_closed"} :
              /\ [x EXCEPT !.at = "over", !.status = st] \in AskRecord
              /\ [x EXCEPT !.status = st] \in AskRecord
              /\ \A a \in {"y", "n"} : [x EXCEPT !.status = st, !.answer = a] \in AskRecord
         /\ \A a \in {"y", "n"} : [x EXCEPT !.answer = a] \in AskRecord
<1>1. \A k \in Kinds, s \in AskSessions : [x EXCEPT !.at = "inserted", !.kind = k, !.session = s] \in AskRecord
  BY DEF AskRecord
<1>2. \A a \in {"waits", "woken", "late", "over"} : [x EXCEPT !.at = a] \in AskRecord
  BY DEF AskRecord
<1>3. ASSUME NEW st \in {"pending", "answered", "cancelled", "timeout", "fail_closed"}
      PROVE  /\ [x EXCEPT !.at = "over", !.status = st] \in AskRecord
             /\ [x EXCEPT !.status = st] \in AskRecord
             /\ \A a \in {"y", "n"} : [x EXCEPT !.status = st, !.answer = a] \in AskRecord
  <2>1. [x EXCEPT !.at = "over", !.status = st] \in AskRecord
    BY DEF AskRecord
  <2>2. [x EXCEPT !.status = st] \in AskRecord
    BY DEF AskRecord
  <2>3. \A a \in {"y", "n"} : [x EXCEPT !.status = st, !.answer = a] \in AskRecord
    BY DEF AskRecord
  <2> QED
    BY <2>1, <2>2, <2>3
<1>4. \A a \in {"y", "n"} : [x EXCEPT !.answer = a] \in AskRecord
  BY DEF AskRecord
<1> QED
  BY <1>1, <1>2, <1>3, <1>4

\* A step of one ask: what its record becomes
LEMMA OneAsk ==
  ASSUME ThreadTypes, NEW r \in Asks, NEW x \in AskRecord, ask' = [ask EXCEPT ![r] = x]
  PROVE  /\ ask' \in [Asks -> AskRecord] /\ ask'[r] = x
         /\ \A n \in Asks : n # r => ask'[n] = ask[n]
BY DEF ThreadTypes

\* What becomes of the record of an ask in each step
AskBecomes(r, at, kind, status, answer) ==
  /\ ask' \in [Asks -> AskRecord]
  /\ \A n \in Asks : n # r => ask'[n] = ask[n]
  /\ ask'[r].at = at /\ ask'[r].kind = kind /\ ask'[r].status = status /\ ask'[r].answer = answer

LEMMA AskEffects ==
  ASSUME ThreadTypes, NEW r \in Asks
  PROVE  /\ \A k \in Kinds, s \in AskSessions, u \in BOOLEAN :
              InsertAsk(r, k, s, u) => AskBecomes(r, "inserted", k, ask[r].status, ask[r].answer)
         /\ PublishAsk(r) => AskBecomes(r, "waits", ask[r].kind, ask[r].status, ask[r].answer)
         /\ WaitEnds(r) => \E a \in {"woken", "late"} : AskBecomes(r, a, ask[r].kind, ask[r].status, ask[r].answer)
         /\ QuestionReturns(r) => \E st \in {ask[r].status, "timeout"} : AskBecomes(r, "over", ask[r].kind, st, ask[r].answer)
         /\ ApprovalReturns(r) => AskBecomes(r, "over", ask[r].kind, ask[r].status, ask[r].answer)
         /\ \A a \in {"y", "n"} : ask' = [ask EXCEPT ![r].status = "answered", ![r].answer = a]
                                    => AskBecomes(r, ask[r].at, ask[r].kind, "answered", a)
         /\ ask' = [ask EXCEPT ![r].status = "cancelled"]
              => AskBecomes(r, ask[r].at, ask[r].kind, "cancelled", ask[r].answer)
         /\ \A a \in {"y", "n"} : ask' = [ask EXCEPT ![r].answer = a]
                                    => AskBecomes(r, ask[r].at, ask[r].kind, ask[r].status, a)
<1>a. ask[r] \in AskRecord
  BY DEF ThreadTypes
<1>1. ASSUME NEW k \in Kinds, NEW s \in AskSessions, NEW u \in BOOLEAN, InsertAsk(r, k, s, u)
      PROVE  AskBecomes(r, "inserted", k, ask[r].status, ask[r].answer)
  <2> DEFINE x == [ask[r] EXCEPT !.at = "inserted", !.kind = k, !.session = s]
  <2>1. ask' = [ask EXCEPT ![r] = x]
    BY <1>1 DEF InsertAsk, ThreadTypes
  <2>2. x \in AskRecord
    BY <1>a, AskUpdates
  <2>3. x.at = "inserted" /\ x.kind = k /\ x.status = ask[r].status /\ x.answer = ask[r].answer
    BY <1>a DEF AskRecord
  <2> QED
    BY <2>1, <2>2, <2>3, OneAsk DEF AskBecomes
<1>2. ASSUME NEW a \in {"waits", "woken", "late", "over"}, ask' = [ask EXCEPT ![r].at = a]
      PROVE  AskBecomes(r, a, ask[r].kind, ask[r].status, ask[r].answer)
  <2> DEFINE x == [ask[r] EXCEPT !.at = a]
  <2>1. ask' = [ask EXCEPT ![r] = x]
    BY <1>2 DEF ThreadTypes
  <2>2. x \in AskRecord
    BY <1>a, AskUpdates
  <2>3. x.at = a /\ x.kind = ask[r].kind /\ x.status = ask[r].status /\ x.answer = ask[r].answer
    BY <1>a DEF AskRecord
  <2> QED
    BY <2>1, <2>2, <2>3, OneAsk DEF AskBecomes
<1>3. PublishAsk(r) => AskBecomes(r, "waits", ask[r].kind, ask[r].status, ask[r].answer)
  BY <1>2 DEF PublishAsk
<1>4. WaitEnds(r) => \E a \in {"woken", "late"} : AskBecomes(r, a, ask[r].kind, ask[r].status, ask[r].answer)
  BY <1>2 DEF WaitEnds
<1>5. ASSUME QuestionReturns(r)
      PROVE  \E st \in {ask[r].status, "timeout"} : AskBecomes(r, "over", ask[r].kind, st, ask[r].answer)
  <2> DEFINE st == IF ask[r].status = "pending" THEN "timeout" ELSE ask[r].status
             x == [ask[r] EXCEPT !.at = "over", !.status = st]
  <2>1. ask' = [ask EXCEPT ![r] = x]
    BY <1>5, <1>a DEF QuestionReturns, ThreadTypes, AskRecord
  <2>2. st \in {"pending", "answered", "cancelled", "timeout", "fail_closed"}
    BY <1>a DEF AskRecord
  <2>3. x \in AskRecord
    BY <1>a, <2>2, AskUpdates
  <2>4. x.at = "over" /\ x.kind = ask[r].kind /\ x.status = st /\ x.answer = ask[r].answer
    BY <1>a DEF AskRecord
  <2> QED
    BY <2>1, <2>3, <2>4, OneAsk DEF AskBecomes
<1>6. ApprovalReturns(r) => AskBecomes(r, "over", ask[r].kind, ask[r].status, ask[r].answer)
  BY <1>2 DEF ApprovalReturns
<1>7. ASSUME NEW a \in {"y", "n"}, ask' = [ask EXCEPT ![r].status = "answered", ![r].answer = a]
      PROVE  AskBecomes(r, ask[r].at, ask[r].kind, "answered", a)
  <2> DEFINE x == [ask[r] EXCEPT !.status = "answered", !.answer = a]
  <2>1. ask' = [ask EXCEPT ![r] = x]
    BY <1>7 DEF ThreadTypes
  <2>2. x \in AskRecord
    BY <1>a, AskUpdates
  <2>3. x.at = ask[r].at /\ x.kind = ask[r].kind /\ x.status = "answered" /\ x.answer = a
    BY <1>a DEF AskRecord
  <2> QED
    BY <2>1, <2>2, <2>3, OneAsk DEF AskBecomes
<1>8. ASSUME ask' = [ask EXCEPT ![r].status = "cancelled"]
      PROVE  AskBecomes(r, ask[r].at, ask[r].kind, "cancelled", ask[r].answer)
  <2> DEFINE x == [ask[r] EXCEPT !.status = "cancelled"]
  <2>1. ask' = [ask EXCEPT ![r] = x]
    BY <1>8 DEF ThreadTypes
  <2>2. x \in AskRecord
    BY <1>a, AskUpdates
  <2>3. x.at = ask[r].at /\ x.kind = ask[r].kind /\ x.status = "cancelled" /\ x.answer = ask[r].answer
    BY <1>a DEF AskRecord
  <2> QED
    BY <2>1, <2>2, <2>3, OneAsk DEF AskBecomes
<1>9. ASSUME NEW a \in {"y", "n"}, ask' = [ask EXCEPT ![r].answer = a]
      PROVE  AskBecomes(r, ask[r].at, ask[r].kind, ask[r].status, a)
  <2> DEFINE x == [ask[r] EXCEPT !.answer = a]
  <2>1. ask' = [ask EXCEPT ![r] = x]
    BY <1>9 DEF ThreadTypes
  <2>2. x \in AskRecord
    BY <1>a, AskUpdates
  <2>3. x.at = ask[r].at /\ x.kind = ask[r].kind /\ x.status = ask[r].status /\ x.answer = a
    BY <1>a DEF AskRecord
  <2> QED
    BY <2>1, <2>2, <2>3, OneAsk DEF AskBecomes
<1> QED
  BY <1>1, <1>3, <1>4, <1>5, <1>6, <1>7, <1>8, <1>9

\* Both bridges are closed.
LEMMA CloseEffect ==
  ASSUME ThreadTypes, FailCloseAll
  PROVE  /\ ask' \in [Asks -> AskRecord]
         /\ \A r \in Asks :
              /\ ask'[r].at = ask[r].at /\ ask'[r].kind = ask[r].kind
              /\ \/ ask'[r] = ask[r]
                 \/ /\ ask[r].kind = "question" /\ PendingAsk(r) /\ ask[r].status = "pending"
                    /\ ask'[r].status = "fail_closed" /\ ask'[r].answer = ask[r].answer
                 \/ /\ ask[r].kind = "approval" /\ PendingAsk(r) /\ ask'[r].answer = "n" /\ ask'[r].status = ask[r].status
<1> DEFINE x(r) == IF PendingAsk(r) /\ r \in Questions /\ ask[r].status = "pending"
                   THEN [ask[r] EXCEPT !.status = "fail_closed"]
                   ELSE IF PendingAsk(r) /\ r \in Approvals /\ ask[r].answer = "none"
                        THEN [ask[r] EXCEPT !.answer = "n"] ELSE ask[r]
<1>1. ask' = [r \in Asks |-> x(r)]
  BY DEF FailCloseAll
<1>2. ASSUME NEW r \in Asks
      PROVE  /\ x(r) \in AskRecord
             /\ x(r).at = ask[r].at /\ x(r).kind = ask[r].kind
             /\ \/ x(r) = ask[r]
                \/ /\ ask[r].kind = "question" /\ PendingAsk(r) /\ ask[r].status = "pending"
                   /\ x(r).status = "fail_closed" /\ x(r).answer = ask[r].answer
                \/ ask[r].kind = "approval" /\ PendingAsk(r) /\ x(r).answer = "n" /\ x(r).status = ask[r].status
  <2>a. ask[r] \in AskRecord
    BY DEF ThreadTypes
  <2>1. CASE ~PendingAsk(r)
    <3>1. x(r) = ask[r]
      BY <2>1 DEF Questions, Approvals
    <3> QED
      BY <3>1, <2>a
  <2>2. CASE PendingAsk(r) /\ ask[r].kind = "question" /\ ask[r].status = "pending"
    <3>1. x(r) = [ask[r] EXCEPT !.status = "fail_closed"]
      BY <2>2 DEF Questions
    <3>2. x(r) \in AskRecord
      BY <3>1, <2>a, AskUpdates
    <3>3. x(r).at = ask[r].at /\ x(r).kind = ask[r].kind /\ x(r).status = "fail_closed" /\ x(r).answer = ask[r].answer
      BY <3>1, <2>a DEF AskRecord
    <3> HIDE DEF x
    <3> QED
      BY <3>2, <3>3, <2>2
  <2>3. CASE PendingAsk(r) /\ ask[r].kind = "approval" /\ ask[r].answer = "none"
    <3>1. x(r) = [ask[r] EXCEPT !.answer = "n"]
      BY <2>3 DEF Questions, Approvals
    <3>2. x(r) \in AskRecord
      BY <3>1, <2>a, AskUpdates
    <3>3. x(r).at = ask[r].at /\ x(r).kind = ask[r].kind /\ x(r).status = ask[r].status /\ x(r).answer = "n"
      BY <3>1, <2>a DEF AskRecord
    <3> HIDE DEF x
    <3> QED
      BY <3>2, <3>3, <2>3
  <2>4. CASE /\ PendingAsk(r) /\ ~(ask[r].kind = "question" /\ ask[r].status = "pending")
             /\ ~(ask[r].kind = "approval" /\ ask[r].answer = "none")
    <3>1. x(r) = ask[r]
      BY <2>4 DEF Questions, Approvals
    <3> QED
      BY <3>1, <2>a
  <2> QED
    BY <2>1, <2>2, <2>3, <2>4
<1> HIDE DEF x
<1> QED
  BY <1>1, <1>2
-----------------------------------------------------------------------------
\* What a POST does, answer or dismissal
LEMMA PostEffect ==
  ASSUME ThreadTypes, BrowserTypes, NEW r \in Asks, NEW a \in {"y", "n", "cancelled"}, PostHandled(r, a)
  PROVE  /\ UNCHANGED <<approvalRow, tool, uiStopped, scope, dismissed, fetches, switches, answers>>
         /\ resolving' \subseteq Asks \X {"approved", "denied"}
         /\ sse' = sse \/ (PendingAsk(r) /\ sse' = Append(sse, Event("resolved", r)))
         /\ posts' \subseteq posts
         /\ \A k \in Kinds : shown'[k] \subseteq shown[k]
         /\ \/ ask' = ask /\ told' = told
            \/ /\ a # "cancelled" /\ ask[r].kind = "question" /\ MayAnswer(r)
               /\ ask' = [ask EXCEPT ![r].status = "answered", ![r].answer = a]
               /\ told' = [told EXCEPT ![r] = @ \cup {a}]
            \/ /\ a = "cancelled" /\ MayAnswer(r)
               /\ ask' = [ask EXCEPT ![r].status = "cancelled"]
               /\ told' = [told EXCEPT ![r] = @ \cup {"cancelled"}]
            \/ /\ a # "cancelled" /\ ask[r].kind = "approval" /\ PendingAsk(r)
               /\ ask' = [ask EXCEPT ![r].answer = a]
               /\ told' = [told EXCEPT ![r] = @ \cup {a}]
<1>0. /\ UNCHANGED <<tool, uiStopped, scope, dismissed, fetches, switches, answers>>
      /\ posts' = posts \ {<<r, a>>}
      /\ shown' = shown \/ shown' = [shown EXCEPT ![ask[r].kind] = @ \ {r}]
  BY DEF PostHandled
<1>s. \A k \in Kinds : shown'[k] \subseteq shown[k]
  BY <1>0 DEF BrowserTypes
<1>1. CASE a = "cancelled"
  <2>1. CancelQuestion(r)
    BY <1>1 DEF PostHandled
  <2>2. CASE MayAnswer(r)
    BY <1>0, <1>s, <1>1, <2>1, <2>2 DEF CancelQuestion, ThreadTypes, MayAnswer
  <2>3. CASE ~MayAnswer(r)
    BY <1>0, <1>s, <1>1, <2>1, <2>3 DEF CancelQuestion, ThreadTypes
  <2> QED
    BY <2>2, <2>3
<1>2. CASE a # "cancelled" /\ r \in Questions
  <2>1. ResolveQuestion(r, a) /\ UNCHANGED sse
    BY <1>2 DEF PostHandled
  <2>2. CASE MayAnswer(r)
    BY <1>0, <1>s, <1>2, <2>1, <2>2 DEF ResolveQuestion, ThreadTypes, Questions
  <2>3. CASE ~MayAnswer(r)
    BY <1>0, <1>s, <1>2, <2>1, <2>3 DEF ResolveQuestion, ThreadTypes
  <2> QED
    BY <2>2, <2>3
<1>3. CASE a # "cancelled" /\ r \notin Questions
  <2>1. ResolveApproval(r, a) /\ UNCHANGED sse
    BY <1>3 DEF PostHandled
  <2>2. resolving' \subseteq Asks \X {"approved", "denied"}
    <3>1. <<r, IF a = "y" THEN "approved" ELSE "denied">> \in Asks \X {"approved", "denied"}
      OBVIOUS
    <3> QED
      BY <2>1, <3>1 DEF ResolveApproval, ThreadTypes
  <2>3. CASE PendingAsk(r)
    BY <1>0, <1>s, <1>3, <2>1, <2>2, <2>3 DEF ResolveApproval, Approvals
  <2>4. CASE ~PendingAsk(r)
    BY <1>0, <1>s, <1>3, <2>1, <2>2, <2>4 DEF ResolveApproval
  <2> QED
    BY <2>3, <2>4
<1> QED
  BY <1>1, <1>2, <1>3

\* What the threads do to the browser's side, and the browser to the threads
LEMMA ThreadTypesStep == ThreadTypes /\ BrowserTypes /\ AskInv /\ [InteractNext]_interactVars => ThreadTypes' /\ KindsStay
<1> SUFFICES ASSUME ThreadTypes, BrowserTypes, AskInv, [InteractNext]_interactVars PROVE ThreadTypes' /\ KindsStay
  OBVIOUS
<1> DEFINE Rows == {"none", "pending", "approved", "denied", "cancelled", "timed_out"}
           Given == {"none", "y", "n", "cancelled", "timeout", "fail_closed"}
<1>q. ASSUME UNCHANGED askVars PROVE ThreadTypes' /\ KindsStay
  BY <1>q DEF askVars, ThreadTypes, KindsStay
<1>k. ASSUME NEW r \in Asks, NEW at, NEW kind, NEW st, NEW an, AskBecomes(r, at, kind, st, an),
             kind = ask[r].kind \/ ask[r].kind = "none"
      PROVE  ask' \in [Asks -> AskRecord] /\ KindsStay
  BY <1>k DEF AskBecomes, KindsStay
<1>1. ASSUME NEW r \in Asks, NEW k \in Kinds, NEW s \in AskSessions, NEW u \in BOOLEAN, InsertAsk(r, k, s, u)
      PROVE  ThreadTypes' /\ KindsStay
  <2>1. ask[r].kind = "none"
    BY <1>1 DEF InsertAsk, AskInv, AskSound
  <2>2. AskBecomes(r, "inserted", k, ask[r].status, ask[r].answer)
    BY <1>1, AskEffects
  <2>3. approvalRow' \in [Asks -> Rows]
    BY <1>1 DEF InsertAsk, ThreadTypes
  <2>4. ask' \in [Asks -> AskRecord] /\ KindsStay
    BY <2>1, <2>2, <1>k
  <2> QED
    BY <1>1, <2>3, <2>4 DEF InsertAsk, ThreadTypes
<1>2. ASSUME NEW r \in Asks, PublishAsk(r) \/ WaitEnds(r) PROVE ThreadTypes' /\ KindsStay
  <2>1. ask' \in [Asks -> AskRecord] /\ KindsStay
    BY <1>2, <1>k, AskEffects
  <2> QED
    BY <1>2, <2>1 DEF PublishAsk, WaitEnds, uiVars, ThreadTypes
<1>3. ASSUME NEW r \in Asks, QuestionReturns(r) PROVE ThreadTypes' /\ KindsStay
  <2>1. ask' \in [Asks -> AskRecord] /\ KindsStay
    BY <1>3, <1>k, AskEffects
  <2>2. tool' \in [Asks -> Given]
    <3>1. ask[r].status \in {"pending", "answered", "cancelled", "timeout", "fail_closed"}
          /\ ask[r].answer \in {"none", "y", "n"}
      BY DEF ThreadTypes, AskRecord
    <3>2. CASE ask[r].status = "pending"
      BY <1>3, <3>2 DEF QuestionReturns, ThreadTypes
    <3>3. CASE ask[r].status = "answered"
      BY <1>3, <3>1, <3>3 DEF QuestionReturns, ThreadTypes
    <3>4. CASE ask[r].status \notin {"pending", "answered"}
      BY <1>3, <3>1, <3>4 DEF QuestionReturns, ThreadTypes
    <3> QED
      BY <3>2, <3>3, <3>4
  <2> QED
    BY <1>3, <2>1, <2>2 DEF QuestionReturns, ThreadTypes
<1>4. ASSUME NEW r \in Asks, ApprovalReturns(r) PROVE ThreadTypes' /\ KindsStay
  <2>1. ask' \in [Asks -> AskRecord] /\ KindsStay
    BY <1>4, <1>k, AskEffects
  <2>2. ApprovalAnswer(r) \in Given
    BY DEF ApprovalAnswer, ThreadTypes, AskRecord
  <2>3. tool' \in [Asks -> Given]
    BY <1>4, <2>2 DEF ApprovalReturns, ThreadTypes
  <2> QED
    BY <1>4, <2>1, <2>3 DEF ApprovalReturns, ThreadTypes
<1>5. ASSUME NEW r \in Asks, NEW d \in Rows, RowResolved(r, d), UNCHANGED <<ask, told, tool, uiStopped>>,
             resolving' \subseteq resolving
      PROVE  ThreadTypes' /\ KindsStay
  <2>1. approvalRow' \in [Asks -> Rows]
    BY <1>5 DEF RowResolved, ThreadTypes
  <2> QED
    BY <1>5, <2>1 DEF ThreadTypes, KindsStay
<1>6. ASSUME NEW r \in Asks, CancelPendingApprovals(r) \/ ExpireApprovals(r) PROVE ThreadTypes' /\ KindsStay
  BY <1>6, <1>5 DEF CancelPendingApprovals, ExpireApprovals
<1>7. ASSUME NEW r \in Asks, NEW d \in {"approved", "denied"}, BridgeResolvesRow(r, d) \/ ApiResolvesRow(r, d)
      PROVE  ThreadTypes' /\ KindsStay
  BY <1>7, <1>5 DEF BridgeResolvesRow, ApiResolvesRow
<1>8. CASE FailCloseAll
  <2>1. ask' \in [Asks -> AskRecord] /\ KindsStay
    BY <1>8, CloseEffect DEF KindsStay
  <2> QED
    BY <1>8, <2>1 DEF FailCloseAll, ThreadTypes
<1>9. ASSUME NEW r \in Asks, NEW a \in {"y", "n", "cancelled"}, PostHandled(r, a) PROVE ThreadTypes' /\ KindsStay
  <2>1. /\ UNCHANGED <<approvalRow, tool, uiStopped>> /\ resolving' \subseteq Asks \X {"approved", "denied"}
        /\ \/ ask' = ask /\ told' = told
           \/ /\ ask' \in [Asks -> AskRecord] /\ KindsStay
              /\ told' = [told EXCEPT ![r] = @ \cup {a}]
    <3>1. /\ UNCHANGED <<approvalRow, tool, uiStopped>> /\ resolving' \subseteq Asks \X {"approved", "denied"}
          /\ \/ ask' = ask /\ told' = told
             \/ /\ \/ a # "cancelled" /\ ask' = [ask EXCEPT ![r].status = "answered", ![r].answer = a]
                   \/ a = "cancelled" /\ ask' = [ask EXCEPT ![r].status = "cancelled"]
                   \/ a # "cancelled" /\ ask' = [ask EXCEPT ![r].answer = a]
                /\ told' = [told EXCEPT ![r] = @ \cup {a}]
      <4>1. UNCHANGED <<approvalRow, tool, uiStopped>> /\ resolving' \subseteq Asks \X {"approved", "denied"}
        BY <1>9, PostEffect
      <4>2. \/ ask' = ask /\ told' = told
            \/ /\ a # "cancelled" /\ ask[r].kind = "question" /\ MayAnswer(r)
               /\ ask' = [ask EXCEPT ![r].status = "answered", ![r].answer = a]
               /\ told' = [told EXCEPT ![r] = @ \cup {a}]
            \/ /\ a = "cancelled" /\ MayAnswer(r)
               /\ ask' = [ask EXCEPT ![r].status = "cancelled"]
               /\ told' = [told EXCEPT ![r] = @ \cup {"cancelled"}]
            \/ /\ a # "cancelled" /\ ask[r].kind = "approval" /\ PendingAsk(r)
               /\ ask' = [ask EXCEPT ![r].answer = a]
               /\ told' = [told EXCEPT ![r] = @ \cup {a}]
        BY <1>9, PostEffect
      <4> QED
        BY <4>1, <4>2
    <3>2. CASE a # "cancelled" /\ ask' = [ask EXCEPT ![r].status = "answered", ![r].answer = a]
      <4>1. AskBecomes(r, ask[r].at, ask[r].kind, "answered", a)
        BY <3>2, AskEffects
      <4> QED
        BY <4>1, <3>1, <1>k
    <3>3. CASE ask' = [ask EXCEPT ![r].status = "cancelled"]
      <4>1. AskBecomes(r, ask[r].at, ask[r].kind, "cancelled", ask[r].answer)
        BY <3>3, AskEffects
      <4> QED
        BY <4>1, <3>1, <1>k
    <3>4. CASE a # "cancelled" /\ ask' = [ask EXCEPT ![r].answer = a]
      <4>1. AskBecomes(r, ask[r].at, ask[r].kind, ask[r].status, a)
        BY <3>4, AskEffects
      <4> QED
        BY <4>1, <3>1, <1>k
    <3> QED
      BY <3>1, <3>2, <3>3, <3>4
  <2>2. told' \in [Asks -> SUBSET {"y", "n", "cancelled"}]
    BY <2>1 DEF ThreadTypes
  <2> QED
    BY <2>1, <2>2 DEF ThreadTypes, KindsStay
<1>10. SseArrives \/ SseLost => UNCHANGED askVars
  BY DEF SseArrives, SseLost
<1>11. \A s \in AskSessions : SwitchScope(s) => UNCHANGED askVars
  BY DEF SwitchScope
<1>12. \A k \in Kinds : PollBegins(k) => UNCHANGED askVars
  BY DEF PollBegins
<1>13. \A f \in fetches : FetchServed(f) \/ FetchApplied(f) \/ FetchFails(f) => UNCHANGED askVars
  BY DEF FetchServed, FetchApplied, FetchFails
<1>14. \A r \in Asks : UserDismisses(r) => UNCHANGED askVars
  BY DEF UserDismisses
<1>15. \A r \in Asks, a \in {"y", "n"} : UserAnswers(r, a) => UNCHANGED askVars
  BY DEF UserAnswers
<1>16. UNCHANGED interactVars => UNCHANGED askVars
  BY DEF interactVars, askVars
<1>17. ASSUME NEW p \in posts, PostHandled(p[1], p[2]) PROVE ThreadTypes' /\ KindsStay
  <2>1. p[1] \in Asks /\ p[2] \in {"y", "n", "cancelled"}
    BY <1>17 DEF BrowserTypes
  <2> QED
    BY <1>17, <2>1, <1>9
<1> QED
  BY <1>q, <1>1, <1>2, <1>3, <1>4, <1>6, <1>7, <1>8, <1>10, <1>11, <1>12, <1>13, <1>14, <1>15, <1>16, <1>17
  DEF InteractNext, AskThread

\* Once asked, the kind of an ask is known and stays.
LEMMA AskedHasKind ==
  ASSUME ThreadTypes, AskInv
  PROVE  \A r \in Asks : ask[r].at # "new" => ask[r].kind \in Kinds
BY DEF ThreadTypes, AskInv, AskSound, AskRecord, Kinds

LEMMA BrowserStep ==
  ThreadTypes /\ BrowserTypes /\ OnTheWay /\ AskInv /\ [InteractNext]_interactVars /\ KindsStay /\ ThreadTypes'
    => (BrowserTypes /\ OnTheWay)'
<1> SUFFICES ASSUME ThreadTypes, BrowserTypes, OnTheWay, AskInv, [InteractNext]_interactVars, KindsStay, ThreadTypes'
             PROVE  (BrowserTypes /\ OnTheWay)'
  OBVIOUS
<1>a. \A r \in Asks : ask[r].kind \in Kinds => ask'[r].kind = ask[r].kind
  BY DEF KindsStay, Kinds
<1>b. /\ \A r \in dismissed : ask[r].kind = "question" /\ "question" \in Kinds
      /\ \A k \in Kinds : \A r \in shown[k] : r \in Asks /\ ask[r].kind \in Kinds
      /\ \A f \in fetches : f \in FetchRecord /\ f.kind \in Kinds /\ f.items \subseteq Asks
      /\ sse \in Seq(EventRecord) /\ Len(sse) \in Nat
      /\ \A i \in 1 .. Len(sse) : sse[i] \in EventRecord /\ sse[i].ask \in Asks
  <2>1. \A r \in dismissed : ask[r].kind = "question" /\ "question" \in Kinds
    BY DEF BrowserTypes, Kinds
  <2>2. \A k \in Kinds : \A r \in shown[k] : r \in Asks /\ ask[r].kind \in Kinds
    BY DEF BrowserTypes
  <2>3. \A f \in fetches : f \in FetchRecord /\ f.kind \in Kinds /\ f.items \subseteq Asks
    BY DEF BrowserTypes, FetchRecord
  <2>4. sse \in Seq(EventRecord) /\ Len(sse) \in Nat /\ \A i \in 1 .. Len(sse) : sse[i] \in EventRecord
    BY DEF BrowserTypes
  <2>5. \A e \in EventRecord : e.ask \in Asks
    BY DEF EventRecord
  <2> QED
    BY <2>1, <2>2, <2>3, <2>4, <2>5
\* What was there stays typed whatever the threads do.
<1>c. /\ \A r \in dismissed : r \in Asks /\ ask'[r].kind = "question"
      /\ \A k \in Kinds : \A r \in shown[k] : ask'[r].kind = k
      /\ \A f \in fetches : \A r \in f.items : ask'[r].kind = f.kind
      /\ \A i \in 1 .. Len(sse) : ask'[sse[i].ask].kind \in Kinds
  BY <1>a, <1>b DEF BrowserTypes, OnTheWay
<1>d. ASSUME /\ scope' \in AskSessions /\ switches' \in Nat /\ answers' \in Nat
             /\ posts' \subseteq Asks \X {"y", "n", "cancelled"}
             /\ \A r \in dismissed' : r \in Asks /\ ask'[r].kind = "question"
             /\ shown' \in [Kinds -> SUBSET Asks] /\ \A k \in Kinds : \A r \in shown'[k] : ask'[r].kind = k
             /\ \A f \in fetches' : f \in FetchRecord /\ \A r \in f.items : ask'[r].kind = f.kind
             /\ sse' \in Seq(EventRecord) /\ \A i \in 1 .. Len(sse') : ask'[sse'[i].ask].kind \in Kinds
      PROVE  (BrowserTypes /\ OnTheWay)'
  BY <1>d DEF BrowserTypes, OnTheWay
<1>e. /\ scope \in AskSessions /\ switches \in Nat /\ answers \in Nat
      /\ posts \subseteq Asks \X {"y", "n", "cancelled"} /\ shown \in [Kinds -> SUBSET Asks]
  BY DEF BrowserTypes
<1>q. ASSUME UNCHANGED uiVars PROVE (BrowserTypes /\ OnTheWay)'
  BY <1>q, <1>b, <1>c, <1>d, <1>e DEF uiVars
\* An event of something asked is added.
<1>s. ASSUME NEW r \in Asks, NEW type \in {"requested", "resolved"}, ask'[r].kind \in Kinds
      PROVE  LET s == Append(sse, Event(type, r))
             IN s \in Seq(EventRecord) /\ \A i \in 1 .. Len(s) : ask'[s[i].ask].kind \in Kinds
  <2> DEFINE s == Append(sse, Event(type, r))
  <2>1. Event(type, r) \in EventRecord /\ Event(type, r).ask = r
    BY DEF Event, EventRecord
  <2>2. s \in Seq(EventRecord) /\ Len(s) = Len(sse) + 1 /\ \A i \in 1 .. Len(sse) : s[i] = sse[i]
        /\ s[Len(sse) + 1] = Event(type, r)
    BY <1>b, <2>1
  <2>3. ASSUME NEW i \in 1 .. Len(s) PROVE ask'[s[i].ask].kind \in Kinds
    <3>1. i \in 1 .. Len(sse) \/ i = Len(sse) + 1
      BY <2>2, <1>b
    <3> QED
      BY <3>1, <2>1, <2>2, <1>c, <1>s
  <2> QED
    BY <2>2, <2>3
<1>t. ASSUME sse # <<>>
      PROVE  /\ Tail(sse) \in Seq(EventRecord) /\ \A i \in 1 .. Len(Tail(sse)) : ask'[Tail(sse)[i].ask].kind \in Kinds
             /\ Head(sse).ask \in Asks /\ ask'[Head(sse).ask].kind \in Kinds /\ ask[Head(sse).ask].kind \in Kinds
  <2>1. /\ Tail(sse) \in Seq(EventRecord) /\ Len(Tail(sse)) = Len(sse) - 1 /\ Len(sse) > 0
        /\ \A i \in 1 .. Len(Tail(sse)) : Tail(sse)[i] = sse[i + 1]
        /\ Head(sse) = sse[1]
    BY <1>t, <1>b
  <2>2. \A i \in 1 .. Len(Tail(sse)) : i + 1 \in 1 .. Len(sse)
    BY <2>1, <1>b
  <2>3. 1 \in 1 .. Len(sse)
    BY <2>1, <1>b
  <2> QED
    BY <2>1, <2>2, <2>3, <1>b, <1>c DEF OnTheWay
<1>1. ASSUME NEW r \in Asks, PublishAsk(r) PROVE (BrowserTypes /\ OnTheWay)'
  <2>1. ask'[r].kind \in Kinds
    BY <1>1, <1>a, AskedHasKind DEF PublishAsk
  <2>2. sse' = Append(sse, Event("requested", r)) /\ UNCHANGED <<scope, shown, dismissed, fetches, posts, switches, answers>>
    BY <1>1 DEF PublishAsk
  <2> QED
    BY <2>1, <2>2, <1>b, <1>c, <1>d, <1>e, <1>s
<1>2. ASSUME NEW r \in Asks, QuestionReturns(r) PROVE (BrowserTypes /\ OnTheWay)'
  <2>1. ask'[r].kind \in Kinds
    BY <1>2, <1>a, AskedHasKind DEF QuestionReturns
  <2>2. sse' = Append(sse, Event("resolved", r)) /\ UNCHANGED <<scope, shown, dismissed, fetches, posts, switches, answers>>
    BY <1>2 DEF QuestionReturns
  <2> QED
    BY <2>1, <2>2, <1>b, <1>c, <1>d, <1>e, <1>s
<1>3. ASSUME NEW r \in Asks, NEW a \in {"y", "n", "cancelled"}, PostHandled(r, a) PROVE (BrowserTypes /\ OnTheWay)'
  <2>1. /\ UNCHANGED <<scope, dismissed, fetches, switches, answers>> /\ posts' \subseteq posts
        /\ \A k \in Kinds : shown'[k] \subseteq shown[k]
        /\ sse' = sse \/ (PendingAsk(r) /\ sse' = Append(sse, Event("resolved", r)))
    BY <1>3, PostEffect
  <2>2. shown' \in [Kinds -> SUBSET Asks]
    BY <1>3, <1>e DEF PostHandled
  <2>3. sse' \in Seq(EventRecord) /\ \A i \in 1 .. Len(sse') : ask'[sse'[i].ask].kind \in Kinds
    <3>1. CASE sse' = sse
      BY <3>1, <1>b, <1>c
    <3>2. CASE PendingAsk(r) /\ sse' = Append(sse, Event("resolved", r))
      <4>1. ask'[r].kind \in Kinds
        BY <3>2, <1>a, AskedHasKind DEF PendingAsk
      <4> QED
        BY <3>2, <4>1, <1>s
    <3> QED
      BY <2>1, <3>1, <3>2
  <2> QED
    BY <2>1, <2>2, <2>3, <1>b, <1>c, <1>d, <1>e
<1>4. CASE SseArrives
  <2> DEFINE r == Head(sse).ask
  <2>1. /\ sse # <<>> /\ sse' = Tail(sse) /\ UNCHANGED <<scope, fetches, posts, switches, answers>> /\ UNCHANGED ask
        /\ \/ /\ \/ shown' = [shown EXCEPT ![ask[r].kind] = @ \cup {r}]
                 \/ shown' = [shown EXCEPT ![ask[r].kind] = @]
              /\ UNCHANGED dismissed
           \/ /\ shown' = [shown EXCEPT !["question"] = @ \ {r}]
              /\ dismissed' = dismissed \ {r}
    BY <1>4 DEF SseArrives, askVars
  <2>2. r \in Asks /\ ask[r].kind \in Kinds /\ ask'[r].kind = ask[r].kind
    BY <2>1, <1>t, <1>a
  <2>a. /\ shown' \in [Kinds -> SUBSET Asks]
        /\ \A k \in Kinds : \A n \in shown'[k] : n \in shown[k] \/ (n = r /\ k = ask[r].kind)
    <3>1. CASE shown' = [shown EXCEPT ![ask[r].kind] = @ \cup {r}]
      BY <3>1, <2>2, <1>e
    <3>2. CASE shown' = [shown EXCEPT ![ask[r].kind] = @]
      BY <3>2, <1>e
    <3>3. CASE shown' = [shown EXCEPT !["question"] = @ \ {r}]
      BY <3>3, <1>e
    <3> QED
      BY <2>1, <3>1, <3>2, <3>3
  <2>3. shown' \in [Kinds -> SUBSET Asks]
    BY <2>a
  <2>4. \A k \in Kinds : \A n \in shown'[k] : ask'[n].kind = k
    BY <2>a, <2>2, <1>c
  <2>5. \A n \in dismissed' : n \in Asks /\ ask'[n].kind = "question"
    BY <2>1, <1>c
  <2> HIDE DEF r
  <2> QED
    BY <2>1, <2>3, <2>4, <2>5, <1>b, <1>c, <1>d, <1>e, <1>t
<1>5. CASE SseLost
  BY <1>5, <1>b, <1>c, <1>d, <1>e, <1>t DEF SseLost
<1>f. ASSUME NEW k \in Kinds, NEW s \in AskSessions PROVE Fetch(k, s) \in FetchRecord /\ Fetch(k, s).items = {}
  BY DEF Fetch, FetchRecord
<1>6. ASSUME NEW s \in AskSessions, SwitchScope(s) PROVE (BrowserTypes /\ OnTheWay)'
  <2>1. \A f \in fetches' : f \in FetchRecord /\ \A r \in f.items : ask'[r].kind = f.kind
    <3>1. fetches' = fetches \cup {Fetch(k, s) : k \in Polled}
      BY <1>6 DEF SwitchScope
    <3>2. \A k \in Polled : k \in Kinds
      BY DEF Polled
    <3> QED
      BY <3>1, <3>2, <1>f, <1>b, <1>c
  <2>2. shown' \in [Kinds -> SUBSET Asks] /\ \A k \in Kinds : \A r \in shown'[k] : ask'[r].kind = k
    BY <1>6, <1>c, <1>e DEF SwitchScope
  <2>3. scope' \in AskSessions /\ switches' \in Nat /\ UNCHANGED <<dismissed, sse, posts, answers>>
    BY <1>6, <1>e DEF SwitchScope
  <2> QED
    BY <2>1, <2>2, <2>3, <1>b, <1>c, <1>d, <1>e
<1>7. ASSUME NEW k \in Kinds, PollBegins(k) PROVE (BrowserTypes /\ OnTheWay)'
  <2>1. \A f \in fetches' : f \in FetchRecord /\ \A r \in f.items : ask'[r].kind = f.kind
    <3>1. fetches' = fetches \cup {Fetch(k, scope)}
      BY <1>7 DEF PollBegins
    <3> QED
      BY <3>1, <1>f, <1>b, <1>c, <1>e
  <2> QED
    BY <1>7, <2>1, <1>b, <1>c, <1>d, <1>e DEF PollBegins
<1>8. ASSUME NEW f \in fetches, FetchServed(f) PROVE (BrowserTypes /\ OnTheWay)'
  <2> DEFINE R == {r \in Asks : ask[r].kind = f.kind /\ PendingAsk(r) /\ ask[r].session = f.scope}
             g == [f EXCEPT !.at = "served", !.items = R]
  <2>1. fetches' = (fetches \ {f}) \cup {g}
    BY <1>8 DEF FetchServed
  <2>2. g \in FetchRecord /\ g.items = R /\ g.kind = f.kind
    <3>1. R \in SUBSET Asks
      OBVIOUS
    <3> HIDE DEF R
    <3> QED
      BY <3>1, <1>b DEF FetchRecord
  <2>3. \A r \in R : ask'[r].kind = f.kind
    BY <1>a, <1>b
  <2>4. \A h \in fetches' : h \in FetchRecord /\ \A r \in h.items : ask'[r].kind = h.kind
    <3> HIDE DEF R, g
    <3> QED
      BY <2>1, <2>2, <2>3, <1>b, <1>c
  <2>5. UNCHANGED <<scope, shown, dismissed, sse, posts, switches, answers>>
    BY <1>8 DEF FetchServed
  <2> QED
    BY <2>4, <2>5, <1>b, <1>c, <1>d, <1>e
<1>9. ASSUME NEW f \in fetches, FetchApplied(f) \/ FetchFails(f) PROVE (BrowserTypes /\ OnTheWay)'
  <2>1. shown' = [shown EXCEPT ![f.kind] = Recovered(f)] \/ shown' = [shown EXCEPT ![f.kind] = {}]
    BY <1>9 DEF FetchApplied, FetchFails
  <2>2. Recovered(f) \subseteq f.items
    BY DEF Recovered
  <2>3. shown' \in [Kinds -> SUBSET Asks] /\ \A k \in Kinds : \A r \in shown'[k] : ask'[r].kind = k
    BY <2>1, <2>2, <1>b, <1>c, <1>e
  <2>4. fetches' \subseteq fetches /\ UNCHANGED <<scope, dismissed, sse, posts, switches, answers>>
    BY <1>9 DEF FetchApplied, FetchFails
  <2> QED
    BY <2>3, <2>4, <1>b, <1>c, <1>d, <1>e
<1>10. ASSUME NEW r \in Asks, NEW a \in {"y", "n"}, UserAnswers(r, a) PROVE (BrowserTypes /\ OnTheWay)'
  <2>1. posts' \subseteq Asks \X {"y", "n", "cancelled"} /\ answers' \in Nat
    BY <1>10, <1>e DEF UserAnswers
  <2> QED
    BY <1>10, <2>1, <1>b, <1>c, <1>d, <1>e DEF UserAnswers
<1>11. ASSUME NEW r \in Asks, UserDismisses(r) PROVE (BrowserTypes /\ OnTheWay)'
  <2>1. posts' \subseteq Asks \X {"y", "n", "cancelled"} /\ answers' \in Nat
    BY <1>11, <1>e DEF UserDismisses
  <2>2. shown' \in [Kinds -> SUBSET Asks] /\ \A k \in Kinds : \A n \in shown'[k] : ask'[n].kind = k
    BY <1>11, <1>c, <1>e DEF UserDismisses
  <2>3. \A n \in dismissed' : n \in Asks /\ ask'[n].kind = "question"
    <3>1. r \in shown["question"] /\ dismissed' = dismissed \cup {r} /\ "question" \in Kinds
      BY <1>11 DEF UserDismisses, Kinds
    <3> QED
      BY <3>1, <1>b, <1>c
  <2> QED
    BY <1>11, <2>1, <2>2, <2>3, <1>b, <1>c, <1>d, <1>e DEF UserDismisses
<1>12. \A r \in Asks : WaitEnds(r) \/ ApprovalReturns(r) \/ CancelPendingApprovals(r) \/ ExpireApprovals(r) => UNCHANGED uiVars
  BY DEF WaitEnds, ApprovalReturns, CancelPendingApprovals, ExpireApprovals
<1>13. \A r \in Asks, d \in {"approved", "denied"} : BridgeResolvesRow(r, d) \/ ApiResolvesRow(r, d) => UNCHANGED uiVars
  BY DEF BridgeResolvesRow, ApiResolvesRow
<1>14. \A r \in Asks, k \in Kinds, s \in AskSessions, u \in BOOLEAN : InsertAsk(r, k, s, u) => UNCHANGED uiVars
  BY DEF InsertAsk
<1>15. FailCloseAll \/ UNCHANGED interactVars => UNCHANGED uiVars
  BY DEF FailCloseAll, interactVars, uiVars
<1>16. ASSUME NEW p \in posts, PostHandled(p[1], p[2]) PROVE (BrowserTypes /\ OnTheWay)'
  <2>1. p[1] \in Asks /\ p[2] \in {"y", "n", "cancelled"}
    BY <1>16, <1>e
  <2> QED
    BY <1>16, <2>1, <1>3
<1> QED
  BY <1>q, <1>1, <1>2, <1>4, <1>5, <1>6, <1>7, <1>8, <1>9, <1>10, <1>11, <1>12, <1>13, <1>14, <1>15, <1>16
  DEF InteractNext, AskThread
-----------------------------------------------------------------------------
LEMMA InteractInits == InteractInit => ThreadTypes /\ BrowserTypes /\ OnTheWay /\ AskInv
<1> SUFFICES ASSUME InteractInit PROVE ThreadTypes /\ BrowserTypes /\ OnTheWay /\ AskInv
  OBVIOUS
<1>1. NotAsked \in AskRecord
  BY AskAssumption DEF NotAsked, AskRecord
<1>2. ThreadTypes
  BY <1>1 DEF InteractInit, ThreadTypes
<1>3. BrowserTypes
  BY AskAssumption DEF InteractInit, BrowserTypes
<1>4. OnTheWay
  BY DEF InteractInit, OnTheWay
<1>5. AskInv
  BY DEF InteractInit, AskInv, AskSound, NotAsked
<1> QED
  BY <1>2, <1>3, <1>4, <1>5

\* An ask goes on to wait, a decision is taken back to the tool, a question is called off.
LEMMA SoundSteps ==
  ASSUME NEW x, NEW y, NEW t, NEW g, AskSound(x, t, g),
         x.at \notin {"new", "over"}, y.kind = x.kind, y.answer = x.answer
  PROVE  /\ y.at \notin {"new", "over"} /\ y.status = x.status => AskSound(y, t, g)
         /\ x.kind = "approval" /\ y.at = "over" => \A h \in {"n", x.answer} : AskSound(y, t, h)
         /\ y.at \notin {"new", "over"} /\ y.status = "cancelled" =>
              \A s : t \subseteq s /\ (x.kind = "question" => s = {"cancelled"}) => AskSound(y, s, g)
<1>0. x.kind # "none" /\ y.kind # "none"
  BY DEF AskSound
<1>1. y.at \notin {"new", "over"} /\ y.status = x.status => AskSound(y, t, g)
  BY <1>0 DEF AskSound
<1>2. x.kind = "approval" /\ y.at = "over" => \A h \in {"n", x.answer} : AskSound(y, t, h)
  BY DEF AskSound
<1>3. y.at \notin {"new", "over"} /\ y.status = "cancelled" =>
        \A s : t \subseteq s /\ (x.kind = "question" => s = {"cancelled"}) => AskSound(y, s, g)
  BY <1>0 DEF AskSound
<1> QED
  BY <1>1, <1>2, <1>3

LEMMA AskStep ==
  ThreadTypes /\ BrowserTypes /\ AskInv /\ [InteractNext]_interactVars => AskInv'
<1> SUFFICES ASSUME ThreadTypes, BrowserTypes, AskInv, [InteractNext]_interactVars PROVE AskInv'
  OBVIOUS
<1>a. \A r \in Asks : ask[r] \in AskRecord /\ AskSound(ask[r], told[r], tool[r])
  BY DEF ThreadTypes, AskInv
<1>q. ASSUME UNCHANGED <<ask, told, tool>> PROVE AskInv'
  BY <1>q DEF AskInv
\* A step of one ask
<1>d. ASSUME NEW r \in Asks, AskSound(ask'[r], told'[r], tool'[r]),
             \A n \in Asks : n # r => ask'[n] = ask[n] /\ told'[n] = told[n] /\ tool'[n] = tool[n]
      PROVE  AskInv'
  <2> SUFFICES ASSUME NEW n \in Asks PROVE AskSound(ask'[n], told'[n], tool'[n])
    BY DEF AskInv
  <2> QED
    BY <1>a, <1>d
<1>1. ASSUME NEW r \in Asks, NEW k \in Kinds, NEW s \in AskSessions, NEW u \in BOOLEAN, InsertAsk(r, k, s, u)
      PROVE  AskInv'
  <2>1. AskBecomes(r, "inserted", k, ask[r].status, ask[r].answer) /\ ask[r].at = "new"
        /\ UNCHANGED <<told, tool>>
    BY <1>1, AskEffects DEF InsertAsk
  <2>2. AskSound(ask'[r], told'[r], tool'[r])
    BY <2>1, <1>a DEF AskBecomes, AskSound, Kinds
  <2> QED
    BY <2>1, <2>2, <1>d DEF AskBecomes
<1>2. ASSUME NEW r \in Asks, PublishAsk(r) \/ WaitEnds(r) PROVE AskInv'
  <2>1. /\ \E a \in {"waits", "woken", "late"} : AskBecomes(r, a, ask[r].kind, ask[r].status, ask[r].answer)
        /\ ask[r].at \in {"inserted", "waits"} /\ UNCHANGED <<told, tool>>
    BY <1>2, AskEffects DEF PublishAsk, WaitEnds
  <2>a. AskSound(ask[r], told[r], tool[r])
    BY <1>a
  <2>b. ask'[r].at \notin {"new", "over"} /\ ask'[r].kind = ask[r].kind /\ ask'[r].status = ask[r].status
        /\ ask'[r].answer = ask[r].answer
    BY <2>1 DEF AskBecomes
  <2>2. AskSound(ask'[r], told'[r], tool'[r])
    BY <2>1, <2>a, <2>b, SoundSteps
  <2> QED
    BY <2>1, <2>2, <1>d DEF AskBecomes
<1>3. ASSUME NEW r \in Asks, QuestionReturns(r) PROVE AskInv'
  <2>1. PICK st \in {ask[r].status, "timeout"} : AskBecomes(r, "over", ask[r].kind, st, ask[r].answer)
    BY <1>3, AskEffects
  <2>2. /\ ask[r].kind = "question" /\ ask[r].at \in {"woken", "late"} /\ told' = told
        /\ \A n \in Asks : n # r => tool'[n] = tool[n]
        /\ ask[r].status = "pending" => tool'[r] = "timeout"
        /\ ask[r].status = "answered" => tool'[r] = ask[r].answer
        /\ ask[r].status \notin {"pending", "answered"} => tool'[r] = ask[r].status
    BY <1>3 DEF QuestionReturns, Questions, ThreadTypes
  <2>3. ask[r].status \in {"pending", "answered", "cancelled", "timeout", "fail_closed"}
        /\ ask[r].answer \in {"none", "y", "n"}
    BY <1>a DEF AskRecord
  <2>a. AskSound(ask[r], told[r], tool[r]) /\ ask[r].at # "over"
    BY <2>2, <1>a
  <2>4. told[r] = IF tool'[r] \in {"timeout", "fail_closed"} THEN {} ELSE {tool'[r]}
    <3>1. CASE ask[r].status = "pending"
      BY <2>2, <2>a, <3>1 DEF AskSound
    <3>2. CASE ask[r].status = "answered"
      BY <2>2, <2>3, <2>a, <3>2 DEF AskSound
    <3>3. CASE ask[r].status = "cancelled"
      BY <2>2, <2>a, <3>3 DEF AskSound
    <3>4. CASE ask[r].status = "fail_closed"
      BY <2>2, <2>a, <3>4 DEF AskSound
    <3>5. CASE ask[r].status = "timeout"
      BY <2>2, <2>a, <3>5 DEF AskSound
    <3> QED
      BY <2>3, <3>1, <3>2, <3>3, <3>4, <3>5
  <2>5. AskSound(ask'[r], told'[r], tool'[r])
    BY <2>1, <2>2, <2>4 DEF AskBecomes, AskSound
  <2> QED
    BY <2>1, <2>2, <2>5, <1>d DEF AskBecomes
<1>4. ASSUME NEW r \in Asks, ApprovalReturns(r) PROVE AskInv'
  <2>1. AskBecomes(r, "over", ask[r].kind, ask[r].status, ask[r].answer)
    BY <1>4, AskEffects
  <2>a. ask[r].at \notin {"new", "over"} /\ AskSound(ask[r], told[r], tool[r])
    BY <1>4, <1>a DEF ApprovalReturns
  <2>b. ask'[r].at = "over" /\ ask'[r].kind = ask[r].kind /\ ask'[r].answer = ask[r].answer
    BY <2>1 DEF AskBecomes
  <2>2. /\ ask[r].kind = "approval" /\ told' = told /\ tool'[r] \in {"n", ask[r].answer}
        /\ \A n \in Asks : n # r => tool'[n] = tool[n]
    BY <1>4 DEF ApprovalReturns, ApprovalAnswer, Approvals, ThreadTypes
  <2>3. AskSound(ask'[r], told'[r], tool'[r])
    BY <2>2, <2>a, <2>b, SoundSteps
  <2> QED
    BY <2>1, <2>2, <2>3, <1>d DEF AskBecomes
<1>5. CASE FailCloseAll
  <2>1. UNCHANGED <<told, tool>>
    BY <1>5 DEF FailCloseAll
  <2>2. ASSUME NEW r \in Asks PROVE AskSound(ask'[r], told'[r], tool'[r])
    <3>1. /\ ask'[r].at = ask[r].at /\ ask'[r].kind = ask[r].kind
          /\ \/ ask'[r] = ask[r]
             \/ /\ ask[r].kind = "question" /\ PendingAsk(r) /\ ask[r].status = "pending"
                /\ ask'[r].status = "fail_closed" /\ ask'[r].answer = ask[r].answer
             \/ /\ ask[r].kind = "approval" /\ PendingAsk(r) /\ ask'[r].answer = "n" /\ ask'[r].status = ask[r].status
      BY <1>5, CloseEffect
    <3>2. CASE ask'[r] = ask[r]
      BY <2>1, <3>2, <1>a
    <3>3. CASE ask'[r] # ask[r]
      BY <2>1, <3>1, <3>3, <1>a DEF AskSound, PendingAsk
    <3> QED
      BY <3>2, <3>3
  <2> QED
    BY <2>2 DEF AskInv
<1>6. ASSUME NEW r \in Asks, NEW a \in {"y", "n", "cancelled"}, PostHandled(r, a) PROVE AskInv'
  <2>1. /\ tool' = tool
        /\ \/ ask' = ask /\ told' = told
           \/ /\ a # "cancelled" /\ ask[r].kind = "question" /\ MayAnswer(r)
              /\ AskBecomes(r, ask[r].at, ask[r].kind, "answered", a)
              /\ told' = [told EXCEPT ![r] = @ \cup {a}]
           \/ /\ a = "cancelled" /\ MayAnswer(r)
              /\ AskBecomes(r, ask[r].at, ask[r].kind, "cancelled", ask[r].answer)
              /\ told' = [told EXCEPT ![r] = @ \cup {"cancelled"}]
           \/ /\ a # "cancelled" /\ ask[r].kind = "approval" /\ PendingAsk(r)
              /\ AskBecomes(r, ask[r].at, ask[r].kind, ask[r].status, a)
              /\ told' = [told EXCEPT ![r] = @ \cup {a}]
    <3>1. a # "cancelled" => a \in {"y", "n"}
      OBVIOUS
    <3>2. ask' = [ask EXCEPT ![r].status = "answered", ![r].answer = a] /\ a # "cancelled"
          => AskBecomes(r, ask[r].at, ask[r].kind, "answered", a)
      BY <3>1, AskEffects
    <3>3. ask' = [ask EXCEPT ![r].status = "cancelled"]
          => AskBecomes(r, ask[r].at, ask[r].kind, "cancelled", ask[r].answer)
      BY AskEffects
    <3>4. ask' = [ask EXCEPT ![r].answer = a] /\ a # "cancelled"
          => AskBecomes(r, ask[r].at, ask[r].kind, ask[r].status, a)
      BY <3>1, AskEffects
    <3>5. /\ tool' = tool
          /\ \/ ask' = ask /\ told' = told
             \/ /\ a # "cancelled" /\ ask[r].kind = "question" /\ MayAnswer(r)
                /\ ask' = [ask EXCEPT ![r].status = "answered", ![r].answer = a]
                /\ told' = [told EXCEPT ![r] = @ \cup {a}]
             \/ /\ a = "cancelled" /\ MayAnswer(r)
                /\ ask' = [ask EXCEPT ![r].status = "cancelled"]
                /\ told' = [told EXCEPT ![r] = @ \cup {"cancelled"}]
             \/ /\ a # "cancelled" /\ ask[r].kind = "approval" /\ PendingAsk(r)
                /\ ask' = [ask EXCEPT ![r].answer = a]
                /\ told' = [told EXCEPT ![r] = @ \cup {a}]
      BY <1>6, PostEffect
    <3> QED
      BY <3>2, <3>3, <3>4, <3>5
  <2>2. CASE ask' = ask /\ told' = told
    BY <2>1, <2>2, <1>q
  <2>3. ASSUME NEW w, told' = [told EXCEPT ![r] = @ \cup {w}]
        PROVE  told'[r] = told[r] \cup {w} /\ \A n \in Asks : n # r => told'[n] = told[n]
    BY <2>3 DEF ThreadTypes
  <2>4. CASE /\ a # "cancelled" /\ ask[r].kind = "question" /\ MayAnswer(r)
             /\ AskBecomes(r, ask[r].at, ask[r].kind, "answered", a)
             /\ told' = [told EXCEPT ![r] = @ \cup {a}]
    <3>1. told[r] = {} /\ ask[r].at # "over" /\ ask[r].at # "new" /\ told'[r] = {a}
      BY <2>3, <2>4, <1>a DEF AskSound, MayAnswer, PendingAsk
    <3>2. AskSound(ask'[r], told'[r], tool'[r])
      BY <2>1, <2>4, <3>1 DEF AskBecomes, AskSound
    <3> QED
      BY <2>1, <2>3, <2>4, <3>2, <1>d DEF AskBecomes
  <2>5. CASE /\ a = "cancelled" /\ MayAnswer(r)
             /\ AskBecomes(r, ask[r].at, ask[r].kind, "cancelled", ask[r].answer)
             /\ told' = [told EXCEPT ![r] = @ \cup {"cancelled"}]
    <3>1. /\ ask[r].kind = "question" => told'[r] = {"cancelled"}
          /\ ask[r].at # "over" /\ ask[r].at # "new" /\ told[r] \subseteq told'[r]
      BY <2>3, <2>5, <1>a DEF AskSound, MayAnswer, PendingAsk
    <3>a. AskSound(ask[r], told[r], tool[r])
      BY <1>a
    <3>b. ask'[r].at = ask[r].at /\ ask'[r].kind = ask[r].kind /\ ask'[r].status = "cancelled"
          /\ ask'[r].answer = ask[r].answer
      BY <2>5 DEF AskBecomes
    <3>2. AskSound(ask'[r], told'[r], tool'[r])
      BY <2>1, <3>1, <3>a, <3>b, SoundSteps
    <3> QED
      BY <2>1, <2>3, <2>5, <3>2, <1>d DEF AskBecomes
  <2>6. CASE /\ a # "cancelled" /\ ask[r].kind = "approval" /\ PendingAsk(r)
             /\ AskBecomes(r, ask[r].at, ask[r].kind, ask[r].status, a)
             /\ told' = [told EXCEPT ![r] = @ \cup {a}]
    <3>1. a \in told'[r] /\ told[r] \subseteq told'[r] /\ ask[r].at # "new"
      BY <2>3, <2>6 DEF PendingAsk
    <3>2. AskSound(ask'[r], told'[r], tool'[r])
      BY <2>1, <2>6, <3>1, <1>a DEF AskBecomes, AskSound
    <3> QED
      BY <2>1, <2>3, <2>6, <3>2, <1>d DEF AskBecomes
  <2> QED
    BY <2>1, <2>2, <2>4, <2>5, <2>6
<1>7. \A r \in Asks : CancelPendingApprovals(r) \/ ExpireApprovals(r) \/ UserDismisses(r) => UNCHANGED <<ask, told, tool>>
  BY DEF CancelPendingApprovals, ExpireApprovals, UserDismisses, askVars
<1>8. \A r \in Asks, d \in {"approved", "denied"} : BridgeResolvesRow(r, d) \/ ApiResolvesRow(r, d) => UNCHANGED <<ask, told, tool>>
  BY DEF BridgeResolvesRow, ApiResolvesRow
<1>9. SseArrives \/ SseLost \/ UNCHANGED interactVars => UNCHANGED <<ask, told, tool>>
  BY DEF SseArrives, SseLost, askVars, interactVars
<1>11. \A f \in fetches : FetchServed(f) \/ FetchApplied(f) \/ FetchFails(f) => UNCHANGED <<ask, told, tool>>
  BY DEF FetchServed, FetchApplied, FetchFails, askVars
<1>12. \A r \in Asks, a \in {"y", "n"} : UserAnswers(r, a) => UNCHANGED <<ask, told, tool>>
  BY DEF UserAnswers, askVars
<1>13. ASSUME NEW p \in posts, PostHandled(p[1], p[2]) PROVE AskInv'
  <2>1. p[1] \in Asks /\ p[2] \in {"y", "n", "cancelled"}
    BY <1>13 DEF BrowserTypes
  <2> QED
    BY <1>13, <2>1, <1>6
<1>10. \A s \in AskSessions : SwitchScope(s) => UNCHANGED <<ask, told, tool>>
  BY DEF SwitchScope, askVars
<1>14. \A k \in Kinds : PollBegins(k) => UNCHANGED <<ask, told, tool>>
  BY DEF PollBegins, askVars
<1> QED
  BY <1>q, <1>1, <1>2, <1>3, <1>4, <1>5, <1>7, <1>8, <1>9, <1>10, <1>11, <1>12, <1>13, <1>14 DEF InteractNext, AskThread
-----------------------------------------------------------------------------
LEMMA AskInductive == InteractSpec => [](ThreadTypes /\ BrowserTypes /\ OnTheWay /\ AskInv)
<1>1. ThreadTypes /\ BrowserTypes /\ OnTheWay /\ AskInv /\ [InteractNext]_interactVars
        => (ThreadTypes /\ BrowserTypes /\ OnTheWay /\ AskInv)'
  BY ThreadTypesStep, BrowserStep, AskStep
<1> QED
  BY <1>1, InteractInits, PTL DEF InteractSpec

\* What a browser shows or has dismissed is of the queue's kind, and the rest has its type.
THEOREM InteractTypesAlways == InteractSpec => []InteractTypeOK
BY AskInductive, InteractTypesSplit, PTL

\* The one answer or cancel of a question that was acknowledged is what its tool is given,
\* also when it races the time-out, a second answer or the stop of the WebUI
\* (QuestionBridge.ask, resolve, cancel and fail_close_all).
THEOREM AcceptedReachesToolAlways == InteractSpec => []AcceptedReachesTool
<1>1. AskInv => AcceptedReachesTool
  BY DEF AskInv, AskSound, AcceptedReachesTool, Questions
<1> QED
  BY <1>1, AskInductive, PTL

\* No tool call is allowed without an acknowledged yes (ApprovalBridge.ask, fail-closed).
THEOREM AllowedWasAnsweredAlways == InteractSpec => []AllowedWasAnswered
<1>1. AskInv => AllowedWasAnswered
  BY DEF AskInv, AskSound, AllowedWasAnswered, Approvals
<1> QED
  BY <1>1, AskInductive, PTL
-----------------------------------------------------------------------------
(* Channel deliveries.                                                        *)

HasReply(t) == \E i \in DOMAIN t : t[i] = "reply"
\* A task that may still be started has an attempt left.
AttemptLeft(j) == j.task \in {"none", "queued", "retry_wait"} => j.attempt < TaskTries
AttemptsLeft == \A m \in Direct : AttemptLeft(job[m])
\* A watcher that sends saw the end of its task, and an end is one for good.
ToldOver == \A m \in Direct : watcher[m] \in {"sends", "tells"} => job[m].task \in Over
\* A task j, its watcher w and what its channel was told, t, before, while and after it replies.
RepliesOnce(j, w, t) ==
  /\ j.task \in {"none", "queued", "retry_wait"} => j.exec = "none" /\ t = <<>>
  /\ j.exec # "none" => j.task = "running"
  /\ j.exec \in {"agent", "sending"} => t = <<>>
  /\ j.exec \in {"sent", "saved"} => t = <<"reply">>
  /\ j.exec = "saved" \/ j.task = "completed" => j.row \notin Replayed
  /\ w \in {"sends", "tells"} => j.task \in Over \ {"completed"}
  /\ j.task \in Over \ {"completed"} => ~HasReply(t)
  /\ HasReply(t) => Len(t) = 1
AnswerInv == \A m \in Direct : RepliesOnce(job[m], watcher[m], endTold[m])
\* A process that is down executes nothing.
DownIsIdle == process = "down" => \A m \in Direct : job[m].exec = "none"
\* An external message with the receipt, place and count r, and what was told of it.
ReceivedOnce(r, t) ==
  /\ ~r.receipt => r.at = "none" /\ r.queued = 0 /\ t = <<>>
  /\ r.at = "received" => r.queued = 0 /\ t = <<>>
  /\ r.at \in {"queued", "sending"} => t = <<>>
  /\ r.queued <= 1 /\ Len(t) <= 1
InboundInv == \A m \in External : ReceivedOnce(inbound[m], endTold[m])
Word == {"reply", "notice", "summary"}
-----------------------------------------------------------------------------
LEMMA ToldTypes ==
  ASSUME DeliveryTypeOK, NEW m \in Mail, NEW w \in Word, Tell(m, w)
  PROVE  /\ endTold' \in [Mail -> Seq(Word)]
         /\ endTold'[m] = Append(endTold[m], w)
         /\ \A n \in Mail : n # m => endTold'[n] = endTold[n]
BY DEF Tell, DeliveryTypeOK, Word

LEMMA TaskTypes ==
  ASSUME NEW r \in Job
  PROVE  /\ \A b \in BOOLEAN : [r EXCEPT !.loaded = b] \in Job
         /\ \A e \in {"none", "agent", "sending", "sent", "saved"} :
              \A s \in Over \cup {"none", "queued", "running", "retry_wait", "interrupted"} :
                /\ [r EXCEPT !.exec = e] \in Job /\ [r EXCEPT !.task = s] \in Job
                /\ [r EXCEPT !.task = s, !.exec = e] \in Job
                /\ [r EXCEPT !.exec = e, !.task = s] \in Job
                /\ \A b \in BOOLEAN : /\ [r EXCEPT !.loaded = b, !.task = s] \in Job
                                      /\ [r EXCEPT !.exec = e, !.loaded = b] \in Job
         /\ \A w \in Over \cup Replayed \cup {"none", "delivered", "delivery_failed"} :
                /\ [r EXCEPT !.row = w] \in Job
                /\ \A s \in Over \cup {"queued"} : [r EXCEPT !.task = s, !.row = w] \in Job
                /\ \A n \in Nat : [r EXCEPT !.row = w, !.replays = n] \in Job
         /\ \A n \in Nat : [r EXCEPT !.tries = n] \in Job
         /\ \A n \in 0 .. TaskTries : [r EXCEPT !.task = "running", !.attempt = n, !.exec = "agent", !.tries = 0] \in Job
         /\ r.tries + 1 \in Nat /\ r.replays + 1 \in Nat
<1>1. \A b \in BOOLEAN : [r EXCEPT !.loaded = b] \in Job
  BY DEF Job
<1>2. ASSUME NEW e \in {"none", "agent", "sending", "sent", "saved"},
             NEW s \in Over \cup {"none", "queued", "running", "retry_wait", "interrupted"}
      PROVE  /\ [r EXCEPT !.exec = e] \in Job /\ [r EXCEPT !.task = s] \in Job
             /\ [r EXCEPT !.task = s, !.exec = e] \in Job
             /\ [r EXCEPT !.exec = e, !.task = s] \in Job
             /\ \A b \in BOOLEAN : /\ [r EXCEPT !.loaded = b, !.task = s] \in Job
                                   /\ [r EXCEPT !.exec = e, !.loaded = b] \in Job
  <2>1. [r EXCEPT !.exec = e] \in Job
    BY DEF Job
  <2>2. [r EXCEPT !.task = s] \in Job
    BY DEF Job
  <2>3. [r EXCEPT !.task = s, !.exec = e] \in Job
    BY DEF Job
  <2>4. [r EXCEPT !.exec = e, !.task = s] \in Job
    BY DEF Job
  <2>5. \A b \in BOOLEAN : [r EXCEPT !.loaded = b, !.task = s] \in Job
    BY DEF Job
  <2>6. \A b \in BOOLEAN : [r EXCEPT !.exec = e, !.loaded = b] \in Job
    BY DEF Job
  <2> QED
    BY <2>1, <2>2, <2>3, <2>4, <2>5, <2>6
<1>3. ASSUME NEW w \in Over \cup Replayed \cup {"none", "delivered", "delivery_failed"}
      PROVE  /\ [r EXCEPT !.row = w] \in Job
             /\ \A s \in Over \cup {"queued"} : [r EXCEPT !.task = s, !.row = w] \in Job
             /\ \A n \in Nat : [r EXCEPT !.row = w, !.replays = n] \in Job
  BY DEF Job
<1>4. \A n \in Nat : [r EXCEPT !.tries = n] \in Job
  BY DEF Job
<1>5. \A n \in 0 .. TaskTries : [r EXCEPT !.task = "running", !.attempt = n, !.exec = "agent", !.tries = 0] \in Job
  <2>1. "running" \in Over \cup {"none", "queued", "running", "retry_wait", "interrupted"}
        /\ "agent" \in {"none", "agent", "sending", "sent", "saved"} /\ 0 \in Nat
    OBVIOUS
  <2> QED
    BY <2>1 DEF Job
<1>6. r.tries + 1 \in Nat /\ r.replays + 1 \in Nat
  BY DEF Job
<1> QED
  BY <1>1, <1>2, <1>3, <1>4, <1>5, <1>6

LEMMA MessageTypes ==
  ASSUME NEW r \in Inbound
  PROVE  /\ [r EXCEPT !.receipt = TRUE, !.at = "received"] \in Inbound
         /\ \A a \in {"none", "received", "queued", "sending"} : \A n \in Nat :
              /\ [r EXCEPT !.at = a] \in Inbound
              /\ [r EXCEPT !.at = a, !.queued = n] \in Inbound
              /\ [r EXCEPT !.tries = n] \in Inbound
              /\ \A s \in {"none", "pending_delivery", "delivered", "delivery_failed"} :
                   /\ [r EXCEPT !.at = a, !.state = s] \in Inbound
                   /\ [r EXCEPT !.at = a, !.state = s, !.tries = n] \in Inbound
         /\ r.tries + 1 \in Nat /\ r.queued + 1 \in Nat
<1>1. [r EXCEPT !.receipt = TRUE, !.at = "received"] \in Inbound
  BY DEF Inbound
<1>2. ASSUME NEW a \in {"none", "received", "queued", "sending"}, NEW n \in Nat
      PROVE   /\ [r EXCEPT !.at = a] \in Inbound
              /\ [r EXCEPT !.at = a, !.queued = n] \in Inbound
              /\ [r EXCEPT !.tries = n] \in Inbound
              /\ \A s \in {"none", "pending_delivery", "delivered", "delivery_failed"} :
                   /\ [r EXCEPT !.at = a, !.state = s] \in Inbound
                   /\ [r EXCEPT !.at = a, !.state = s, !.tries = n] \in Inbound
  BY DEF Inbound
<1>3. r.tries + 1 \in Nat /\ r.queued + 1 \in Nat
  BY DEF Inbound
<1> QED
  BY <1>1, <1>2, <1>3

LEMMA DeliveryTypesInit == DeliveryInit => DeliveryTypeOK /\ AttemptsLeft /\ ToldOver
<1> SUFFICES ASSUME DeliveryInit PROVE DeliveryTypeOK /\ AttemptsLeft /\ ToldOver
  OBVIOUS
<1>1. [receipt |-> FALSE, at |-> "none", queued |-> 0, state |-> "none", tries |-> 0] \in Inbound
  BY DEF Inbound
<1>2. [task |-> "none", attempt |-> 0, exec |-> "none", tries |-> 0, row |-> "none",
       replays |-> 0, loaded |-> TRUE] \in Job
  BY DeliveryAssumption DEF Job
<1>3. DeliveryTypeOK
  BY <1>1, <1>2, DeliveryAssumption DEF DeliveryInit, DeliveryTypeOK
<1>4. AttemptsLeft
  BY DeliveryAssumption DEF DeliveryInit, AttemptsLeft, AttemptLeft, ToldOver
<1>5. ToldOver
  BY DEF DeliveryInit, ToldOver
<1> QED
  BY <1>3, <1>4, <1>5

\* What the counters of the bounds become
LEMMA CountersTyped ==
  ASSUME DeliveryTypeOK
  PROVE  /\ Failure => deliveryOps' \in [arrivals : [External -> Nat], failures : Nat, restarts : Nat]
         /\ \A m \in External : [deliveryOps EXCEPT !.arrivals[m] = @ + 1]
                                   \in [arrivals : [External -> Nat], failures : Nat, restarts : Nat]
         /\ [deliveryOps EXCEPT !.restarts = @ + 1] \in [arrivals : [External -> Nat], failures : Nat, restarts : Nat]
<1> DEFINE Ops == [arrivals : [External -> Nat], failures : Nat, restarts : Nat]
<1>0. deliveryOps \in Ops
  BY DEF DeliveryTypeOK
<1>1. Failure => deliveryOps' \in Ops
  BY <1>0 DEF Failure
<1>2. ASSUME NEW m \in External PROVE [deliveryOps EXCEPT !.arrivals[m] = @ + 1] \in Ops
  <2>1. [deliveryOps.arrivals EXCEPT ![m] = @ + 1] \in [External -> Nat]
    BY <1>0
  <2>2. \A a \in [External -> Nat] : [deliveryOps EXCEPT !.arrivals = a] \in Ops
    BY <1>0
  <2> QED
    BY <2>1, <2>2
<1>3. [deliveryOps EXCEPT !.restarts = @ + 1] \in Ops
  BY <1>0
<1> QED
  BY <1>1, <1>2, <1>3

\* What a step does to the record of one message: the record becomes one of its type.
LEMMA OneTask ==
  ASSUME DeliveryTypeOK, NEW m \in Direct, NEW r \in Job, job' = [job EXCEPT ![m] = r]
  PROVE  /\ job' \in [Direct -> Job] /\ job'[m] = r
         /\ \A n \in Direct : n # m => job'[n] = job[n]
BY DEF DeliveryTypeOK

LEMMA OneMessage ==
  ASSUME DeliveryTypeOK, NEW m \in External, NEW r \in Inbound, inbound' = [inbound EXCEPT ![m] = r]
  PROVE  /\ inbound' \in [External -> Inbound] /\ inbound'[m] = r
         /\ \A n \in External : n # m => inbound'[n] = inbound[n]
BY DEF DeliveryTypeOK

\* A step of one direct message
OfTask(m) ==
  \/ Submit(m) \/ TaskRuns(m) \/ AgentReturns(m) \/ AgentRaises(m) \/ TaskSaves(m) \/ TaskCompletes(m)
  \/ RetryComes(m) \/ WatcherSees(m) \/ WatcherSaves(m) \/ WatcherGivesUp(m)
  \/ \E ok \in BOOLEAN : TaskSends(m, ok) \/ WatcherSends(m, ok) \/ ReplayRow(m, ok) \/ ResumeTask(m, ok)
  \/ \E status \in {"cancelled", "timed_out"} : TaskStops(m, status)

LEMMA OtherTasksStay ==
  ASSUME DeliveryTypeOK, NEW m \in Direct, NEW n \in Direct, OfTask(n), n # m
  PROVE  job'[m] = job[m] /\ watcher'[m] = watcher[m] /\ endTold'[m] = endTold[m]
<1>m. m \in Mail /\ n \in Mail
  BY DEF Mail
<1>1. \A r : [job EXCEPT ![n] = r][m] = job[m]
  BY DEF DeliveryTypeOK
<1>2. \A w : [watcher EXCEPT ![n] = w][m] = watcher[m]
  BY DEF DeliveryTypeOK
<1>3. \A w \in Word : Tell(n, w) => endTold'[m] = endTold[m]
  BY <1>m, ToldTypes DEF Word
<1>4. Submit(n) \/ TaskRuns(n) \/ AgentReturns(n) => job'[m] = job[m] /\ watcher'[m] = watcher[m] /\ endTold' = endTold
  BY DEF Submit, TaskRuns, AgentReturns, DeliveryTypeOK
<1>5. AgentRaises(n) \/ TaskSaves(n) \/ TaskCompletes(n) \/ RetryComes(n) =>
        job'[m] = job[m] /\ watcher' = watcher /\ endTold' = endTold
  BY DEF AgentRaises, ExecutorRaises, TaskSaves, RowCompleted, Row, TaskCompletes, RetryComes, DeliveryTypeOK
<1>6. WatcherSees(n) \/ WatcherSaves(n) \/ WatcherGivesUp(n) =>
        job'[m] = job[m] /\ watcher'[m] = watcher[m] /\ endTold' = endTold
  BY DEF WatcherSees, WatcherSaves, WatcherGivesUp, Row, DeliveryTypeOK
<1>7. ASSUME NEW ok \in BOOLEAN, TaskSends(n, ok)
      PROVE  job'[m] = job[m] /\ watcher' = watcher /\ endTold'[m] = endTold[m]
  BY <1>7, <1>3 DEF TaskSends, ExecutorRaises, DeliveryTypeOK, Word
<1>8. ASSUME NEW ok \in BOOLEAN, WatcherSends(n, ok)
      PROVE  job' = job /\ watcher'[m] = watcher[m] /\ endTold'[m] = endTold[m]
  BY <1>8, <1>3 DEF WatcherSends, DeliveryTypeOK, Word
<1>9. ASSUME NEW ok \in BOOLEAN, ReplayRow(n, ok)
      PROVE  job'[m] = job[m] /\ watcher' = watcher /\ endTold'[m] = endTold[m]
  BY <1>9, <1>3 DEF ReplayRow, Row, DeliveryTypeOK, Word
<1>10. ASSUME NEW ok \in BOOLEAN, ResumeTask(n, ok)
       PROVE  job'[m] = job[m] /\ watcher' = watcher /\ endTold' = endTold
  BY <1>10 DEF ResumeTask, DeliveryTypeOK
<1>11. ASSUME NEW st \in {"cancelled", "timed_out"}, TaskStops(n, st)
       PROVE  job'[m] = job[m] /\ watcher' = watcher /\ endTold' = endTold
  BY <1>11 DEF TaskStops, DeliveryTypeOK
<1> QED
  BY <1>4, <1>5, <1>6, <1>7, <1>8, <1>9, <1>10, <1>11 DEF OfTask

\* What becomes of the task, the executor and the row of a message
Becomes(m, task, where, row) == job'[m].task = task /\ job'[m].exec = where /\ job'[m].row = row

LEMMA TaskEffects ==
  ASSUME DeliveryTypeOK, NEW m \in Direct
  PROVE  /\ Submit(m) => Becomes(m, "queued", job[m].exec, "accepted")
         /\ TaskRuns(m) => \/ Becomes(m, "running", "agent", job[m].row)
                           \/ Becomes(m, "blocked", job[m].exec, job[m].row)
         /\ AgentReturns(m) => Becomes(m, job[m].task, "sending", job[m].row)
         /\ job' = ExecutorRaises(m) =>
              \/ job[m].task # "running" /\ Becomes(m, job[m].task, "none", job[m].row)
              \/ job[m].task = "running" /\ Becomes(m, "retry_wait", "none", job[m].row)
              \/ job[m].task = "running" /\ Becomes(m, "failed", "none", job[m].row)
         /\ TaskSaves(m) => Becomes(m, job[m].task, "saved", "completed")
         /\ TaskCompletes(m) =>
              \/ job[m].task = "running" /\ Becomes(m, "completed", "none", job[m].row)
              \/ job[m].task # "running" /\ Becomes(m, job[m].task, "none", job[m].row)
         /\ RetryComes(m) => Becomes(m, "queued", job[m].exec, job[m].row)
         /\ \A w : job' = Row(m, w) => Becomes(m, job[m].task, job[m].exec, w)
         /\ job' = job => Becomes(m, job[m].task, job[m].exec, job[m].row)
         /\ \A ok \in BOOLEAN : ResumeTask(m, ok) =>
              \/ job[m].task = "queued" /\ Becomes(m, "blocked", job[m].exec, job[m].row)
              \/ Becomes(m, job[m].task, job[m].exec, job[m].row)
         /\ \A st \in {"cancelled", "timed_out"} : TaskStops(m, st) =>
              \/ st = "cancelled" /\ Becomes(m, "cancelled", "none", job[m].row)
              \/ st = "timed_out" /\ Becomes(m, "timed_out", job[m].exec, job[m].row)
<1>a. job[m] \in Job
  BY DEF DeliveryTypeOK
<1>1. Submit(m) => Becomes(m, "queued", job[m].exec, "accepted")
  BY <1>a DEF Submit, Becomes, DeliveryTypeOK, Job
<1>2. TaskRuns(m) => \/ Becomes(m, "running", "agent", job[m].row)
                     \/ Becomes(m, "blocked", job[m].exec, job[m].row)
  BY <1>a DEF TaskRuns, Becomes, DeliveryTypeOK, Job
<1>3. AgentReturns(m) => Becomes(m, job[m].task, "sending", job[m].row)
  BY <1>a DEF AgentReturns, Becomes, DeliveryTypeOK, Job
<1>4. job' = ExecutorRaises(m) =>
              \/ job[m].task # "running" /\ Becomes(m, job[m].task, "none", job[m].row)
              \/ job[m].task = "running" /\ Becomes(m, "retry_wait", "none", job[m].row)
              \/ job[m].task = "running" /\ Becomes(m, "failed", "none", job[m].row)
  BY <1>a DEF ExecutorRaises, Becomes, DeliveryTypeOK, Job
<1>5. TaskSaves(m) => Becomes(m, job[m].task, "saved", "completed")
  BY <1>a DEF TaskSaves, RowCompleted, Row, Becomes, DeliveryTypeOK, Job
<1>6. TaskCompletes(m) =>
              \/ job[m].task = "running" /\ Becomes(m, "completed", "none", job[m].row)
              \/ job[m].task # "running" /\ Becomes(m, job[m].task, "none", job[m].row)
  BY <1>a DEF TaskCompletes, Becomes, DeliveryTypeOK, Job
<1>7. RetryComes(m) => Becomes(m, "queued", job[m].exec, job[m].row)
  BY <1>a DEF RetryComes, Becomes, DeliveryTypeOK, Job
<1>8. \A w : job' = Row(m, w) => Becomes(m, job[m].task, job[m].exec, w)
  BY <1>a DEF Row, Becomes, DeliveryTypeOK, Job
<1>9. job' = job => Becomes(m, job[m].task, job[m].exec, job[m].row)
  BY DEF Becomes
<1>10. \A ok \in BOOLEAN : ResumeTask(m, ok) =>
              \/ job[m].task = "queued" /\ Becomes(m, "blocked", job[m].exec, job[m].row)
              \/ Becomes(m, job[m].task, job[m].exec, job[m].row)
  BY <1>a DEF ResumeTask, Becomes, DeliveryTypeOK, Job
<1>11. \A st \in {"cancelled", "timed_out"} : TaskStops(m, st) =>
              \/ st = "cancelled" /\ Becomes(m, "cancelled", "none", job[m].row)
              \/ st = "timed_out" /\ Becomes(m, "timed_out", job[m].exec, job[m].row)
  BY <1>a DEF TaskStops, Becomes, DeliveryTypeOK, Job
<1> QED
  BY <1>1, <1>2, <1>3, <1>4, <1>5, <1>6, <1>7, <1>8, <1>9, <1>10, <1>11

\* Starts and ends of the process, for one message
LEMMA ProcessEffects ==
  ASSUME DeliveryTypeOK, NEW m \in Direct
  PROVE  /\ ProcessEnds => /\ Becomes(m, job[m].task, "none", job[m].row)
                           /\ watcher'[m] = "none" /\ endTold' = endTold
         /\ ProcessStarts => /\ \/ job[m].task = "running" /\ Becomes(m, "interrupted", job[m].exec, job[m].row)
                                \/ job[m].task # "running" /\ Becomes(m, job[m].task, job[m].exec, job[m].row)
                             /\ watcher' = watcher /\ endTold' = endTold
<1>a. job[m] \in Job
  BY DEF DeliveryTypeOK
<1>1. ProcessEnds => /\ Becomes(m, job[m].task, "none", job[m].row)
                     /\ watcher'[m] = "none" /\ endTold' = endTold
  <2> SUFFICES ASSUME ProcessEnds PROVE /\ Becomes(m, job[m].task, "none", job[m].row)
                                        /\ watcher'[m] = "none" /\ endTold' = endTold
    OBVIOUS
  <2> DEFINE b == job[m].task = "none"
  <2>1. job'[m] = [job[m] EXCEPT !.exec = "none", !.loaded = b]
    BY DEF ProcessEnds
  <2> HIDE DEF b
  <2> QED
    BY <2>1, <1>a DEF ProcessEnds, Becomes, Job
<1>2. ProcessStarts => /\ \/ job[m].task = "running" /\ Becomes(m, "interrupted", job[m].exec, job[m].row)
                          \/ job[m].task # "running" /\ Becomes(m, job[m].task, job[m].exec, job[m].row)
                       /\ watcher' = watcher /\ endTold' = endTold
  BY <1>a DEF ProcessStarts, Becomes, Job
<1> QED
  BY <1>1, <1>2

\* A step of an external message
OfExternal(m) ==
  \/ Arrives(m) \/ TurnReplies(m)
  \/ \E ok \in BOOLEAN : Queued(m, ok) \/ TurnSends(m, ok)

LEMMA StepKinds ==
  [DeliveryNext]_deliveryVars <=>
    \/ \E m \in External : OfExternal(m)
    \/ \E m \in Direct : OfTask(m)
    \/ ProcessEnds \/ ProcessStarts \/ UNCHANGED deliveryVars
BY DEF DeliveryNext, OfExternal, OfTask

\* What external messages do leaves the direct ones alone, and the other way round.
LEMMA KindsApart ==
  ASSUME DeliveryTypeOK, NEW m \in Direct, NEW n \in External
  PROVE  /\ OfExternal(n) => job' = job /\ watcher' = watcher /\ endTold'[m] = endTold[m]
         /\ OfTask(m) => inbound' = inbound /\ endTold'[n] = endTold[n]
<1>m. m \in Mail /\ n \in Mail /\ m # n
  BY DeliveryAssumption DEF Mail
<1>1. \A w \in Word : (Tell(n, w) => endTold'[m] = endTold[m]) /\ (Tell(m, w) => endTold'[n] = endTold[n])
  BY <1>m, ToldTypes DEF Word
<1>2. OfExternal(n) => job' = job /\ watcher' = watcher /\ endTold'[m] = endTold[m]
  BY <1>1 DEF OfExternal, Arrives, TurnReplies, Queued, TurnSends, Word
<1>3. OfTask(m) => inbound' = inbound
  BY DEF OfTask, Submit, TaskRuns, AgentReturns, AgentRaises, TaskSaves, TaskCompletes, RetryComes, WatcherSees,
     WatcherSaves, WatcherGivesUp, TaskSends, WatcherSends, ReplayRow, ResumeTask, TaskStops
<1>4. OfTask(m) => endTold'[n] = endTold[n]
  BY <1>1 DEF OfTask, Submit, TaskRuns, AgentReturns, AgentRaises, TaskSaves, TaskCompletes, RetryComes, WatcherSees,
     WatcherSaves, WatcherGivesUp, TaskSends, WatcherSends, ReplayRow, ResumeTask, TaskStops, Word
<1> QED
  BY <1>2, <1>3, <1>4

\* The watcher and the executor of a message
LEMMA WatcherEffects ==
  ASSUME DeliveryTypeOK, NEW m \in Direct
  PROVE  /\ Submit(m) => watcher'[m] = "waits"
         /\ WatcherSees(m) => \/ job[m].task = "completed" /\ watcher'[m] = "none" /\ job' = Row(m, "completed")
                              \/ job[m].task # "completed" /\ job[m].task \in Over /\ watcher'[m] = "sends" /\ job' = job
         /\ WatcherSaves(m) \/ WatcherGivesUp(m) => watcher'[m] = "none"
         /\ \A ok \in BOOLEAN : WatcherSends(m, ok) => watcher[m] = "sends" /\ watcher'[m] = "tells" /\ job' = job
<1>1. Submit(m) => watcher'[m] = "waits"
  BY DEF Submit, DeliveryTypeOK
<1>2. WatcherSees(m) => \/ job[m].task = "completed" /\ watcher'[m] = "none" /\ job' = Row(m, "completed")
                        \/ job[m].task # "completed" /\ job[m].task \in Over /\ watcher'[m] = "sends" /\ job' = job
  BY DEF WatcherSees, DeliveryTypeOK
<1>3. WatcherSaves(m) \/ WatcherGivesUp(m) => watcher'[m] = "none"
  BY DEF WatcherSaves, WatcherGivesUp, DeliveryTypeOK
<1>4. \A ok \in BOOLEAN : WatcherSends(m, ok) => watcher[m] = "sends" /\ watcher'[m] = "tells" /\ job' = job
  BY DEF WatcherSends, DeliveryTypeOK
<1> QED
  BY <1>1, <1>2, <1>3, <1>4

LEMMA ToldOverStep == DeliveryTypeOK /\ ToldOver /\ [DeliveryNext]_deliveryVars => ToldOver'
<1> SUFFICES ASSUME DeliveryTypeOK, ToldOver, [DeliveryNext]_deliveryVars, NEW m \in Direct,
                    watcher'[m] \in {"sends", "tells"}
             PROVE  job'[m].task \in Over
  BY DEF ToldOver
<1>0. watcher[m] \in {"sends", "tells"} => job[m].task \in Over
  BY DEF ToldOver
<1>1. ASSUME job'[m] = job[m], watcher'[m] = watcher[m] PROVE job'[m].task \in Over
  BY <1>0, <1>1
<1>2. ASSUME NEW n \in External, OfExternal(n) PROVE job'[m].task \in Over
  BY <1>1, <1>2, KindsApart
<1>3. ASSUME NEW n \in Direct, n # m, OfTask(n) PROVE job'[m].task \in Over
  BY <1>1, <1>3, OtherTasksStay
<1>4. ASSUME OfTask(m) PROVE job'[m].task \in Over
  <2>1. CASE Submit(m)
    BY <2>1, WatcherEffects
  <2>2. CASE TaskRuns(m)
    BY <2>2, <1>0 DEF TaskRuns, Over
  <2>3. CASE AgentReturns(m)
    BY <2>3, <1>0, TaskEffects DEF AgentReturns, Becomes
  <2>4. CASE AgentRaises(m)
    BY <2>4, <1>0, TaskEffects DEF AgentRaises, Becomes, Over
  <2>5. CASE TaskSaves(m)
    BY <2>5, <1>0, TaskEffects DEF TaskSaves, Becomes
  <2>6. CASE TaskCompletes(m)
    BY <2>6, <1>0, TaskEffects DEF TaskCompletes, Becomes, Over
  <2>7. CASE RetryComes(m)
    BY <2>7, <1>0 DEF RetryComes, Over
  <2>8. CASE WatcherSees(m)
    BY <2>8, WatcherEffects
  <2>9. CASE WatcherSaves(m) \/ WatcherGivesUp(m)
    BY <2>9, WatcherEffects
  <2>10. ASSUME NEW ok \in BOOLEAN, TaskSends(m, ok) PROVE job'[m].task \in Over
    <3>1. CASE job' = ExecutorRaises(m)
      BY <2>10, <3>1, <1>0, TaskEffects DEF TaskSends, Becomes, Over
    <3>2. CASE job' = [job EXCEPT ![m].exec = "sent"] \/ job' = [job EXCEPT ![m].tries = @ + 1]
      <4>1. job'[m].task = job[m].task
        BY <3>2 DEF DeliveryTypeOK, Job
      <4> QED
        BY <2>10, <4>1, <1>0 DEF TaskSends
    <3> QED
      BY <2>10, <3>1, <3>2 DEF TaskSends
  <2>11. ASSUME NEW ok \in BOOLEAN, WatcherSends(m, ok) PROVE job'[m].task \in Over
    BY <2>11, <1>0, WatcherEffects
  <2>12. ASSUME NEW ok \in BOOLEAN, ReplayRow(m, ok) PROVE job'[m].task \in Over
    <3>1. job'[m].task = job[m].task
      BY <2>12 DEF ReplayRow, Row, DeliveryTypeOK, Job
    <3> QED
      BY <2>12, <3>1, <1>0 DEF ReplayRow
  <2>13. ASSUME NEW ok \in BOOLEAN, ResumeTask(m, ok) PROVE job'[m].task \in Over
    BY <2>13, <1>0 DEF ResumeTask, Over
  <2>14. ASSUME NEW st \in {"cancelled", "timed_out"}, TaskStops(m, st) PROVE job'[m].task \in Over
    BY <2>14, TaskEffects DEF Becomes, Over
  <2> QED
    BY <1>4, <2>1, <2>2, <2>3, <2>4, <2>5, <2>6, <2>7, <2>8, <2>9, <2>10, <2>11, <2>12, <2>13, <2>14 DEF OfTask
<1>5. CASE ProcessEnds \/ ProcessStarts
  BY <1>5, <1>0, ProcessEffects DEF Becomes, Over
<1>6. CASE UNCHANGED deliveryVars
  BY <1>6, <1>1 DEF deliveryVars
<1> QED
  BY <1>2, <1>3, <1>4, <1>5, <1>6, StepKinds

LEMMA DeliveryTypesStep ==
  DeliveryTypeOK /\ AttemptsLeft /\ ToldOver /\ [DeliveryNext]_deliveryVars => (DeliveryTypeOK /\ AttemptsLeft)'
<1> SUFFICES ASSUME DeliveryTypeOK, AttemptsLeft, ToldOver, [DeliveryNext]_deliveryVars PROVE (DeliveryTypeOK /\ AttemptsLeft)'
  OBVIOUS
<1> DEFINE Ops == [arrivals : [External -> Nat], failures : Nat, restarts : Nat]
<1>a. /\ \A m \in Direct : job[m] \in Job
      /\ \A m \in External : inbound[m] \in Inbound
      /\ deliveryOps \in Ops
  BY DEF DeliveryTypeOK
<1>b. ASSUME Failure PROVE deliveryOps' \in Ops
  BY <1>b, CountersTyped
\* A step on one task
<1>d. ASSUME NEW m \in Direct, NEW r \in Job, job' = [job EXCEPT ![m] = r], AttemptLeft(r),
             UNCHANGED <<dedup, inbound, process>>, ctx' \subseteq Direct, replay' \subseteq Direct,
             watcher' \in [Direct -> {"none", "waits", "sends", "tells"}], endTold' \in [Mail -> Seq(Word)],
             deliveryOps' \in Ops
      PROVE  (DeliveryTypeOK /\ AttemptsLeft)'
  <2>1. DeliveryTypeOK'
    BY <1>d, OneTask DEF DeliveryTypeOK, Word
  <2>2. AttemptsLeft'
    BY <1>d, OneTask DEF AttemptsLeft, AttemptLeft
  <2> QED
    BY <2>1, <2>2
\* ... on an external message
<1>e. ASSUME inbound' \in [External -> Inbound], dedup' \in Seq(External), Len(dedup') <= DedupCap,
             UNCHANGED <<job, ctx, watcher, replay, process>>, endTold' \in [Mail -> Seq(Word)],
             deliveryOps' \in Ops
      PROVE  (DeliveryTypeOK /\ AttemptsLeft)'
  <2>1. DeliveryTypeOK'
    BY <1>e DEF DeliveryTypeOK, Word
  <2>2. AttemptsLeft'
    BY <1>e DEF AttemptsLeft, AttemptLeft
  <2> QED
    BY <2>1, <2>2
<1>f. endTold \in [Mail -> Seq(Word)] /\ External \subseteq Mail /\ Direct \subseteq Mail
  BY DEF DeliveryTypeOK, Word, Mail
<1>w. \A m \in Direct : \A w \in {"none", "waits", "sends", "tells"} :
        [watcher EXCEPT ![m] = w] \in [Direct -> {"none", "waits", "sends", "tells"}]
  BY DEF DeliveryTypeOK
<1>1. ASSUME NEW m \in External, Arrives(m) PROVE (DeliveryTypeOK /\ AttemptsLeft)'
  <2>1. deliveryOps' \in Ops
    BY <1>1, CountersTyped DEF Arrives
  <2>2. dedup' \in Seq(External) /\ Len(dedup') <= DedupCap
    <3>1. CASE UNCHANGED dedup
      BY <3>1 DEF DeliveryTypeOK
    <3>2. CASE Remember(m)
      <4> DEFINE d == Append(dedup, m)
      <4>1. d \in Seq(External) /\ Len(d) = Len(dedup) + 1 /\ Len(dedup) \in Nat /\ Len(dedup) <= DedupCap
        BY DEF DeliveryTypeOK
      <4>2. Tail(d) \in Seq(External) /\ Len(Tail(d)) = Len(dedup)
        BY <4>1
      <4> QED
        BY <3>2, <4>1, <4>2, DeliveryAssumption DEF Remember
    <3> QED
      BY <1>1, <3>1, <3>2 DEF Arrives
  <2>3. inbound' \in [External -> Inbound]
    <3>1. CASE UNCHANGED inbound
      BY <3>1 DEF DeliveryTypeOK
    <3>2. CASE inbound' = [inbound EXCEPT ![m].receipt = TRUE, ![m].at = "received"]
      BY <3>2, <1>a, MessageTypes DEF DeliveryTypeOK
    <3> QED
      BY <1>1, <3>1, <3>2 DEF Arrives
  <2> QED
    BY <1>1, <1>e, <1>f, <2>1, <2>2, <2>3 DEF Arrives
<1>2. ASSUME NEW m \in External, NEW ok \in BOOLEAN, Queued(m, ok) PROVE (DeliveryTypeOK /\ AttemptsLeft)'
  <2>1. (IF ok THEN inbound[m].queued + 1 ELSE inbound[m].queued) \in Nat
        /\ (IF ok THEN "queued" ELSE "none") \in {"none", "received", "queued", "sending"}
    BY <1>a DEF Inbound
  <2>2. inbound' \in [External -> Inbound]
    BY <1>2, <2>1, <1>a, MessageTypes DEF Queued, DeliveryTypeOK
  <2> QED
    BY <1>2, <1>a, <1>b, <1>e, <1>f, <2>2 DEF Queued, DeliveryTypeOK
<1>3. ASSUME NEW m \in External, TurnReplies(m) PROVE (DeliveryTypeOK /\ AttemptsLeft)'
  <2>2. inbound' \in [External -> Inbound]
    BY <1>3, <1>a, MessageTypes DEF TurnReplies, DeliveryTypeOK
  <2> QED
    BY <1>3, <1>a, <1>e, <1>f, <2>2 DEF TurnReplies, DeliveryTypeOK
<1>4. ASSUME NEW m \in External, NEW ok \in BOOLEAN, TurnSends(m, ok) PROVE (DeliveryTypeOK /\ AttemptsLeft)'
  <2>1. endTold' \in [Mail -> Seq(Word)]
    <3>1. CASE Tell(m, "reply")
      BY <3>1, <1>f, ToldTypes DEF Word
    <3>2. CASE UNCHANGED endTold
      BY <3>2, <1>f
    <3> QED
      BY <1>4, <3>1, <3>2 DEF TurnSends
  <2>2. inbound' \in [External -> Inbound]
    <3>1. CASE \E s \in {"delivered", "delivery_failed"} : inbound' = [inbound EXCEPT ![m].at = "none", ![m].state = s]
      <4>1. PICK s \in {"delivered", "delivery_failed"} : inbound' = [inbound EXCEPT ![m].at = "none", ![m].state = s]
        BY <3>1
      <4>2. [inbound[m] EXCEPT !.at = "none", !.state = s] \in Inbound
        BY <1>a, MessageTypes
      <4> QED
        BY <4>1, <4>2 DEF DeliveryTypeOK
    <3>2. CASE inbound' = [inbound EXCEPT ![m].tries = @ + 1]
      BY <3>2, <1>a, MessageTypes DEF DeliveryTypeOK
    <3> QED
      BY <1>4, <3>1, <3>2 DEF TurnSends
  <2>3. deliveryOps' \in Ops
    BY <1>4, <1>a, <1>b DEF TurnSends
  <2>4. UNCHANGED <<dedup, job, ctx, watcher, replay, process>>
    BY <1>4 DEF TurnSends
  <2>5. dedup' \in Seq(External) /\ Len(dedup') <= DedupCap
    BY <2>4 DEF DeliveryTypeOK
  <2> QED
    BY <1>e, <2>1, <2>2, <2>3, <2>4, <2>5
<1>5. ASSUME NEW m \in Direct, Submit(m) PROVE (DeliveryTypeOK /\ AttemptsLeft)'
  <2>1. job' = [job EXCEPT ![m] = [job[m] EXCEPT !.task = "queued", !.row = "accepted"]]
    BY <1>5 DEF Submit, DeliveryTypeOK
  <2>2. [job[m] EXCEPT !.task = "queued", !.row = "accepted"] \in Job
    BY <1>a, TaskTypes DEF Replayed
  <2>3. AttemptLeft([job[m] EXCEPT !.task = "queued", !.row = "accepted"])
    BY <1>5, <1>a DEF Submit, AttemptsLeft, AttemptLeft, Job
  <2> QED
    <3>1. /\ UNCHANGED <<dedup, inbound, process, replay, endTold, deliveryOps>>
          /\ watcher' \in [Direct -> {"none", "waits", "sends", "tells"}]
          /\ ctx' \subseteq Direct
      BY <1>5, <1>w DEF Submit, DeliveryTypeOK
    <3>2. replay' \subseteq Direct
      BY <3>1 DEF DeliveryTypeOK
    <3> QED
      BY <1>a, <1>d, <1>f, <2>1, <2>2, <2>3, <3>1, <3>2
<1>6. ASSUME NEW m \in Direct, TaskRuns(m) PROVE (DeliveryTypeOK /\ AttemptsLeft)'
  <2> DEFINE n == job[m].attempt + 1
             r == [job[m] EXCEPT !.task = "running", !.attempt = n, !.exec = "agent", !.tries = 0]
             b == [job[m] EXCEPT !.task = "blocked"]
  <2>0. n \in 0 .. TaskTries
    BY <1>6, <1>a, DeliveryAssumption DEF TaskRuns, AttemptsLeft, AttemptLeft, Job
  <2>1. r \in Job /\ b \in Job
    <3>1. \A k \in 0 .. TaskTries :
            [job[m] EXCEPT !.task = "running", !.attempt = k, !.exec = "agent", !.tries = 0] \in Job
      BY <1>a, TaskTypes
    <3>2. b \in Job
      BY <1>a, TaskTypes DEF Over
    <3> QED
      BY <2>0, <3>1, <3>2
  <2>2. AttemptLeft(r) /\ AttemptLeft(b)
    BY <1>a DEF AttemptLeft, Job
  <2>3. CASE m \in ctx
    <3>1. job' = [job EXCEPT ![m] = r]
      BY <1>6, <2>3 DEF TaskRuns, DeliveryTypeOK
    <3> QED
      BY <1>6, <1>a, <1>d, <1>f, <2>1, <2>2, <3>1 DEF TaskRuns, DeliveryTypeOK
  <2>4. CASE m \notin ctx
    <3>1. job' = [job EXCEPT ![m] = b]
      BY <1>6, <2>4 DEF TaskRuns, DeliveryTypeOK
    <3> QED
      BY <1>6, <1>a, <1>d, <1>f, <2>1, <2>2, <3>1 DEF TaskRuns, DeliveryTypeOK
  <2> QED
    BY <2>3, <2>4
<1>7. ASSUME NEW m \in Direct, AgentReturns(m) PROVE (DeliveryTypeOK /\ AttemptsLeft)'
  <2> DEFINE r == [job[m] EXCEPT !.exec = "sending"]
  <2>1. job' = [job EXCEPT ![m] = r]
    BY <1>7 DEF AgentReturns, DeliveryTypeOK
  <2>2. r \in Job
    BY <1>a, TaskTypes
  <2>3. AttemptLeft(r)
    BY <1>a DEF AttemptsLeft, AttemptLeft, Job
  <2> QED
    BY <1>7, <1>a, <1>d, <1>f, <2>1, <2>2, <2>3 DEF AgentReturns, DeliveryTypeOK
\* An exception leaves a record of its type, and a retry an attempt.
<1>8. ASSUME NEW m \in Direct
      PROVE  \E r \in Job : ExecutorRaises(m) = [job EXCEPT ![m] = r] /\ AttemptLeft(r)
  <2> DEFINE s == IF job[m].task # "running" THEN job[m].task
                  ELSE IF job[m].attempt < TaskTries THEN "retry_wait" ELSE "failed"
             r == [job[m] EXCEPT !.exec = "none", !.task = s]
  <2>1. s \in Over \cup {"none", "queued", "running", "retry_wait", "interrupted"}
    BY <1>a DEF Job, Over
  <2>2. r \in Job
    BY <2>1, <1>a, TaskTypes
  <2>3. AttemptLeft(r)
    BY <1>a DEF AttemptsLeft, AttemptLeft, Job
  <2>4. ExecutorRaises(m) = [job EXCEPT ![m] = r]
    BY <1>a DEF ExecutorRaises, DeliveryTypeOK, Job
  <2> QED
    BY <2>2, <2>3, <2>4
<1>9. ASSUME NEW m \in Direct, AgentRaises(m) PROVE (DeliveryTypeOK /\ AttemptsLeft)'
  BY <1>9, <1>8, <1>b, <1>d, <1>f DEF AgentRaises, DeliveryTypeOK
<1>10. ASSUME NEW m \in Direct, NEW ok \in BOOLEAN, TaskSends(m, ok) PROVE (DeliveryTypeOK /\ AttemptsLeft)'
  <2>1. endTold' \in [Mail -> Seq(Word)]
    <3>1. CASE Tell(m, "reply")
      BY <3>1, <1>f, ToldTypes DEF Word
    <3>2. CASE UNCHANGED endTold
      BY <3>2, <1>f
    <3> QED
      BY <1>10, <3>1, <3>2 DEF TaskSends
  <2>2. deliveryOps' \in Ops
    BY <1>10, <1>a, <1>b DEF TaskSends
  <2>3. \E r \in Job : job' = [job EXCEPT ![m] = r] /\ AttemptLeft(r)
    <3> DEFINE n == job[m].tries + 1
               r == [job[m] EXCEPT !.exec = "sent"]
               t == [job[m] EXCEPT !.tries = n]
    <3>1. r \in Job /\ t \in Job
      BY <1>a, TaskTypes
    <3>2. AttemptLeft(r) /\ AttemptLeft(t)
      BY <1>a DEF AttemptsLeft, AttemptLeft, Job
    <3>3. CASE job' = [job EXCEPT ![m].exec = "sent"]
      <4>1. job' = [job EXCEPT ![m] = r]
        BY <3>3 DEF DeliveryTypeOK
      <4> QED
        BY <4>1, <3>1, <3>2
    <3>4. CASE job' = [job EXCEPT ![m].tries = @ + 1]
      <4>1. job' = [job EXCEPT ![m] = t]
        BY <3>4 DEF DeliveryTypeOK
      <4> QED
        BY <4>1, <3>1, <3>2
    <3>5. CASE job' = ExecutorRaises(m)
      BY <3>5, <1>8
    <3> QED
      BY <1>10, <3>3, <3>4, <3>5 DEF TaskSends
  <2> QED
    BY <1>10, <1>d, <2>1, <2>2, <2>3 DEF TaskSends, DeliveryTypeOK
<1>11. ASSUME NEW m \in Direct, TaskSaves(m) PROVE (DeliveryTypeOK /\ AttemptsLeft)'
  <2> DEFINE r == [job[m] EXCEPT !.row = "completed"]
             s == [r EXCEPT !.exec = "saved"]
  <2>1. job' = [job EXCEPT ![m] = s]
    BY <1>11 DEF TaskSaves, RowCompleted, Row, DeliveryTypeOK
  <2>2. s \in Job
    <3>1. r \in Job
      BY <1>a, TaskTypes DEF Over
    <3> HIDE DEF r
    <3> QED
      BY <3>1, TaskTypes
  <2>3. AttemptLeft(s)
    BY <1>a DEF AttemptsLeft, AttemptLeft, Job
  <2> QED
    BY <1>11, <1>a, <1>d, <1>f, <2>1, <2>2, <2>3 DEF TaskSaves, DeliveryTypeOK
<1>12. ASSUME NEW m \in Direct, TaskCompletes(m) PROVE (DeliveryTypeOK /\ AttemptsLeft)'
  <2> DEFINE s == IF job[m].task = "running" THEN "completed" ELSE job[m].task
             r == [job[m] EXCEPT !.exec = "none", !.task = s]
  <2>1. job' = [job EXCEPT ![m] = r]
    BY <1>12, <1>a DEF TaskCompletes, DeliveryTypeOK, Job
  <2>2. s \in Over \cup {"none", "queued", "running", "retry_wait", "interrupted"}
    BY <1>a DEF Job, Over
  <2>3. r \in Job
    BY <2>2, <1>a, TaskTypes
  <2>4. AttemptLeft(r)
    BY <1>a DEF AttemptsLeft, AttemptLeft, Job
  <2> QED
    BY <1>12, <1>a, <1>d, <1>f, <2>1, <2>3, <2>4 DEF TaskCompletes, DeliveryTypeOK
<1>13. ASSUME NEW m \in Direct, NEW st \in {"cancelled", "timed_out"}, TaskStops(m, st)
       PROVE  (DeliveryTypeOK /\ AttemptsLeft)'
  <2> DEFINE e == IF st = "timed_out" THEN job[m].exec ELSE "none"
             r == [job[m] EXCEPT !.task = st, !.exec = e]
  <2>1. job' = [job EXCEPT ![m] = r]
    BY <1>13, <1>a DEF TaskStops, DeliveryTypeOK, Job
  <2>2. st \in Over /\ e \in {"none", "agent", "sending", "sent", "saved"}
    BY <1>a DEF Job, Over
  <2>3. r \in Job
    BY <2>2, <1>a, TaskTypes
  <2>4. AttemptLeft(r)
    BY <1>a DEF AttemptLeft, Job
  <2> QED
    BY <1>13, <1>a, <1>b, <1>d, <1>f, <2>1, <2>3, <2>4 DEF TaskStops, DeliveryTypeOK
<1>14. ASSUME NEW m \in Direct, RetryComes(m) PROVE (DeliveryTypeOK /\ AttemptsLeft)'
  <2> DEFINE r == [job[m] EXCEPT !.task = "queued"]
  <2>1. job' = [job EXCEPT ![m] = r]
    BY <1>14 DEF RetryComes, DeliveryTypeOK
  <2>2. r \in Job
    BY <1>a, TaskTypes
  <2>3. AttemptLeft(r)
    BY <1>14, <1>a DEF RetryComes, AttemptsLeft, AttemptLeft, Job
  <2> QED
    BY <1>14, <1>a, <1>d, <1>f, <2>1, <2>2, <2>3 DEF RetryComes, DeliveryTypeOK
\* A new row
<1>15. ASSUME NEW m \in Direct, NEW w \in Over \cup Replayed \cup {"none", "delivered", "delivery_failed"}
       PROVE  \E r \in Job : Row(m, w) = [job EXCEPT ![m] = r] /\ AttemptLeft(r)
  <2> DEFINE r == [job[m] EXCEPT !.row = w]
  <2>1. Row(m, w) = [job EXCEPT ![m] = r]
    BY DEF Row, DeliveryTypeOK
  <2>2. r \in Job
    BY <1>a, TaskTypes
  <2>3. AttemptLeft(r)
    BY <1>a DEF AttemptsLeft, AttemptLeft, Job
  <2> QED
    BY <2>1, <2>2, <2>3
<1>16. ASSUME NEW m \in Direct, NEW r, r = job[m], UNCHANGED job PROVE r \in Job /\ job' = [job EXCEPT ![m] = r] /\ AttemptLeft(r)
  BY <1>16, <1>a DEF AttemptsLeft, DeliveryTypeOK
<1>17. ASSUME NEW m \in Direct, WatcherSees(m) PROVE (DeliveryTypeOK /\ AttemptsLeft)'
  <2>1. \E r \in Job : job' = [job EXCEPT ![m] = r] /\ AttemptLeft(r)
    BY <1>17, <1>15, <1>16 DEF WatcherSees, Over
  <2>2. watcher' \in [Direct -> {"none", "waits", "sends", "tells"}]
    BY <1>17, <1>w DEF WatcherSees
  <2>3. ctx' \subseteq Direct
    BY <1>17 DEF WatcherSees, DeliveryTypeOK
  <2> QED
    BY <1>17, <1>a, <1>d, <1>f, <2>1, <2>2, <2>3 DEF WatcherSees, DeliveryTypeOK
<1>18. ASSUME NEW m \in Direct, NEW ok \in BOOLEAN, WatcherSends(m, ok) PROVE (DeliveryTypeOK /\ AttemptsLeft)'
  <2>1. endTold' \in [Mail -> Seq(Word)]
    <3>1. CASE Tell(m, "notice")
      BY <3>1, <1>f, ToldTypes DEF Word
    <3>2. CASE UNCHANGED endTold
      BY <3>2, <1>f
    <3> QED
      BY <1>18, <3>1, <3>2 DEF WatcherSends
  <2>2. deliveryOps' \in Ops
    BY <1>18, <1>a, <1>b DEF WatcherSends
  <2> QED
    BY <1>18, <1>d, <1>w, <1>16, <2>1, <2>2 DEF WatcherSends, DeliveryTypeOK
<1>19. ASSUME NEW m \in Direct, WatcherSaves(m) PROVE (DeliveryTypeOK /\ AttemptsLeft)'
  <2>0. job[m].task \in Over
    BY <1>19 DEF WatcherSaves, ToldOver
  <2>1. \E r \in Job : job' = [job EXCEPT ![m] = r] /\ AttemptLeft(r)
    BY <1>19, <1>15, <2>0 DEF WatcherSaves
  <2>2. ctx' \subseteq Direct
    BY <1>19 DEF WatcherSaves, DeliveryTypeOK
  <2> QED
    BY <1>19, <1>a, <1>d, <1>f, <1>w, <2>1, <2>2 DEF WatcherSaves, DeliveryTypeOK
<1>20. ASSUME NEW m \in Direct, WatcherGivesUp(m) PROVE (DeliveryTypeOK /\ AttemptsLeft)'
  BY <1>20, <1>b, <1>d, <1>f, <1>w, <1>16 DEF WatcherGivesUp, DeliveryTypeOK
<1>21. ASSUME NEW m \in Direct, NEW ok \in BOOLEAN, ReplayRow(m, ok) PROVE (DeliveryTypeOK /\ AttemptsLeft)'
  <2>1. endTold' \in [Mail -> Seq(Word)]
    <3>1. CASE Tell(m, "summary")
      BY <3>1, <1>f, ToldTypes DEF Word
    <3>2. CASE UNCHANGED endTold
      BY <3>2, <1>f
    <3> QED
      BY <1>21, <3>1, <3>2 DEF ReplayRow
  <2>2. deliveryOps' \in Ops
    BY <1>21, <1>a, <1>b DEF ReplayRow
  <2>3. \E r \in Job : job' = [job EXCEPT ![m] = r] /\ AttemptLeft(r)
    <3>1. CASE UNCHANGED job
      BY <3>1, <1>16
    <3>2. CASE \E w \in {"delivery_failed", "delivered"} : job' = Row(m, w)
      BY <3>2, <1>15
    <3>3. CASE job' = [job EXCEPT ![m].row = "retry_pending", ![m].replays = @ + 1]
      <4> DEFINE n == job[m].replays + 1
                 r == [job[m] EXCEPT !.row = "retry_pending", !.replays = n]
      <4>1. job' = [job EXCEPT ![m] = r]
        BY <3>3 DEF DeliveryTypeOK
      <4>2. r \in Job
        <5>1. n \in Nat /\ "retry_pending" \in Replayed
          BY <1>a, TaskTypes DEF Replayed
        <5>2. \A k \in Nat : [job[m] EXCEPT !.row = "retry_pending", !.replays = k] \in Job
          BY <1>a, <5>1, TaskTypes
        <5> QED
          BY <5>1, <5>2
      <4>3. AttemptLeft(r)
        BY <1>a DEF AttemptsLeft, AttemptLeft, Job
      <4> QED
        BY <4>1, <4>2, <4>3
    <3> QED
      BY <1>21, <3>1, <3>2, <3>3 DEF ReplayRow
  <2>4. replay' \subseteq Direct
    BY <1>21 DEF ReplayRow, DeliveryTypeOK
  <2> QED
    BY <1>21, <1>d, <2>1, <2>2, <2>3, <2>4 DEF ReplayRow, DeliveryTypeOK
<1>22. ASSUME NEW m \in Direct, NEW ok \in BOOLEAN, ResumeTask(m, ok) PROVE (DeliveryTypeOK /\ AttemptsLeft)'
  <2> DEFINE s == IF ~ok /\ job[m].task = "queued" THEN "blocked" ELSE job[m].task
             r == [job[m] EXCEPT !.loaded = TRUE, !.task = s]
  <2>1. job' = [job EXCEPT ![m] = r]
    BY <1>22, <1>a DEF ResumeTask, DeliveryTypeOK, Job
  <2>2. s \in Over \cup {"none", "queued", "running", "retry_wait", "interrupted"}
    BY <1>a DEF Job, Over
  <2>3. r \in Job
    BY <2>2, <1>a, TaskTypes
  <2>4. AttemptLeft(r)
    BY <1>a DEF AttemptsLeft, AttemptLeft, Job
  <2>5. ctx' \subseteq Direct /\ deliveryOps' \in Ops
    BY <1>22, <1>a, <1>b DEF ResumeTask, DeliveryTypeOK
  <2> QED
    BY <1>22, <1>d, <1>f, <2>1, <2>3, <2>4, <2>5 DEF ResumeTask, DeliveryTypeOK
<1>23. CASE ProcessEnds
  <2>1. ASSUME NEW m \in Direct
        PROVE  /\ [job[m] EXCEPT !.exec = "none", !.loaded = job[m].task = "none"] \in Job
               /\ AttemptLeft([job[m] EXCEPT !.exec = "none", !.loaded = job[m].task = "none"])
    <3>1. (job[m].task = "none") \in BOOLEAN
      OBVIOUS
    <3>2. \A b \in BOOLEAN : [job[m] EXCEPT !.exec = "none", !.loaded = b] \in Job
      BY <1>a, TaskTypes
    <3> DEFINE b == job[m].task = "none"
               x == [job[m] EXCEPT !.exec = "none", !.loaded = b]
    <3>3. x \in Job
      BY <3>1, <3>2
    <3>4. x.task = job[m].task /\ x.attempt = job[m].attempt
      BY <1>a DEF Job
    <3>5. AttemptLeft(x)
      BY <3>4 DEF AttemptsLeft, AttemptLeft
    <3> QED
      BY <3>3, <3>5
  <2>2. job' \in [Direct -> Job] /\ AttemptsLeft'
    BY <1>23, <2>1 DEF ProcessEnds, AttemptsLeft
  <2>3. inbound' \in [External -> Inbound]
    <3>1. ASSUME NEW m \in External
          PROVE  [inbound[m] EXCEPT !.at = IF @ = "queued" THEN @ ELSE "none"] \in Inbound
      BY <1>a DEF Inbound
    <3> QED
      BY <1>23, <3>1 DEF ProcessEnds
  <2>4. deliveryOps' \in Ops
    BY <1>23, CountersTyped DEF ProcessEnds
  <2>5. <<>> \in Seq(External) /\ Len(<<>>) <= DedupCap
    BY DeliveryAssumption
  <2> QED
    BY <1>23, <2>2, <2>3, <2>4, <2>5 DEF ProcessEnds, DeliveryTypeOK
<1>24. CASE ProcessStarts
  <2>1. ASSUME NEW m \in Direct
        PROVE  /\ [job[m] EXCEPT !.task = IF @ = "running" THEN "interrupted" ELSE @] \in Job
               /\ AttemptLeft([job[m] EXCEPT !.task = IF @ = "running" THEN "interrupted" ELSE @])
    BY <1>a DEF AttemptsLeft, AttemptLeft, Job
  <2>2. job' \in [Direct -> Job] /\ AttemptsLeft'
    BY <1>24, <2>1 DEF ProcessStarts, AttemptsLeft
  <2> QED
    BY <1>24, <2>2 DEF ProcessStarts, DeliveryTypeOK
<1>25. CASE UNCHANGED deliveryVars
  BY <1>25 DEF deliveryVars, DeliveryTypeOK, AttemptsLeft, AttemptLeft
<1> QED
  BY <1>1, <1>2, <1>3, <1>4, <1>5, <1>6, <1>7, <1>9, <1>10, <1>11, <1>12, <1>13, <1>14, <1>17, <1>18, <1>19,
     <1>20, <1>21, <1>22, <1>23, <1>24, <1>25 DEF DeliveryNext
-----------------------------------------------------------------------------
LEMMA ToldIs ==
  ASSUME DeliveryTypeOK, NEW m \in Mail, NEW w \in Word, Tell(m, w)
  PROVE  /\ HasReply(endTold'[m]) <=> HasReply(endTold[m]) \/ w = "reply"
         /\ Len(endTold'[m]) = Len(endTold[m]) + 1
         /\ endTold[m] = <<>> => endTold'[m] = <<w>>
<1>1. endTold[m] \in Seq(Word) /\ endTold'[m] = Append(endTold[m], w)
  BY ToldTypes DEF DeliveryTypeOK, Word
<1>2. /\ Len(endTold'[m]) = Len(endTold[m]) + 1 /\ Len(endTold[m]) \in Nat
      /\ DOMAIN endTold[m] = 1 .. Len(endTold[m]) /\ DOMAIN endTold'[m] = 1 .. Len(endTold[m]) + 1
      /\ \A i \in 1 .. Len(endTold[m]) : endTold'[m][i] = endTold[m][i]
      /\ endTold'[m][Len(endTold[m]) + 1] = w
  BY <1>1
<1>3. HasReply(endTold'[m]) <=> HasReply(endTold[m]) \/ w = "reply"
  <2>1. ASSUME HasReply(endTold'[m]) PROVE HasReply(endTold[m]) \/ w = "reply"
    <3>1. PICK i \in 1 .. Len(endTold[m]) + 1 : endTold'[m][i] = "reply"
      BY <2>1, <1>2 DEF HasReply
    <3>2. i \in 1 .. Len(endTold[m]) \/ i = Len(endTold[m]) + 1
      BY <1>2
    <3> QED
      BY <3>1, <3>2, <1>2 DEF HasReply
  <2>2. HasReply(endTold[m]) => HasReply(endTold'[m])
    <3>1. \A i \in 1 .. Len(endTold[m]) : i \in 1 .. Len(endTold[m]) + 1
      BY <1>2
    <3> QED
      BY <3>1, <1>2 DEF HasReply
  <2>3. w = "reply" => HasReply(endTold'[m])
    <3>1. Len(endTold[m]) + 1 \in 1 .. Len(endTold[m]) + 1
      BY <1>2
    <3> QED
      BY <3>1, <1>2 DEF HasReply
  <2> QED
    BY <2>1, <2>2, <2>3
<1>4. endTold[m] = <<>> => endTold'[m] = <<w>>
  <2>1. Append(<<>>, w) = <<w>>
    OBVIOUS
  <2> QED
    BY <1>1, <2>1
<1> QED
  BY <1>2, <1>3, <1>4

LEMMA NoWordYet == ~HasReply(<<>>) /\ HasReply(<<"reply">>) /\ Len(<<"reply">>) = 1 /\ Len(<<>>) = 0
BY DEF HasReply

LEMMA InboundInit == DeliveryInit => InboundInv
BY NoWordYet DEF DeliveryInit, InboundInv, ReceivedOnce, Mail

LEMMA InboundStep == DeliveryTypeOK /\ InboundInv /\ [DeliveryNext]_deliveryVars => InboundInv'
<1> SUFFICES ASSUME DeliveryTypeOK, InboundInv, [DeliveryNext]_deliveryVars, NEW m \in External
             PROVE  ReceivedOnce(inbound'[m], endTold'[m])
  BY DEF InboundInv
<1>a. inbound[m] \in Inbound /\ m \in Mail
  BY DEF DeliveryTypeOK, Mail
<1>0. ReceivedOnce(inbound[m], endTold[m])
  BY DEF InboundInv
<1>1. ASSUME inbound'[m] = inbound[m], endTold'[m] = endTold[m] PROVE ReceivedOnce(inbound'[m], endTold'[m])
  BY <1>0, <1>1
<1>2. ASSUME NEW n \in External, n # m, OfExternal(n) PROVE ReceivedOnce(inbound'[m], endTold'[m])
  <2>1. inbound'[m] = inbound[m]
    BY <1>2 DEF OfExternal, Arrives, TurnReplies, Queued, TurnSends, DeliveryTypeOK
  <2>2. Tell(n, "reply") \/ UNCHANGED endTold
    BY <1>2 DEF OfExternal, Arrives, TurnReplies, Queued, TurnSends
  <2>3. endTold'[m] = endTold[m]
    BY <1>2, <1>a, <2>2, ToldTypes DEF Mail, Word
  <2> QED
    BY <1>1, <2>1, <2>3
<1>3. ASSUME OfExternal(m) PROVE ReceivedOnce(inbound'[m], endTold'[m])
  <2>1. CASE Arrives(m)
    <3>1. \/ inbound'[m] = inbound[m]
          \/ /\ ~inbound[m].receipt
             /\ inbound'[m].receipt /\ inbound'[m].at = "received" /\ inbound'[m].queued = inbound[m].queued
      BY <2>1, <1>a DEF Arrives, HasReceipt, DeliveryTypeOK, Inbound
    <3> QED
      BY <2>1, <3>1, <1>0 DEF Arrives, ReceivedOnce
  <2>2. ASSUME NEW ok \in BOOLEAN, Queued(m, ok) PROVE ReceivedOnce(inbound'[m], endTold'[m])
    <3>1. /\ inbound[m].at = "received" /\ inbound'[m].receipt = inbound[m].receipt
          /\ inbound'[m].at \in {"queued", "none"} /\ inbound'[m].queued \in {inbound[m].queued, inbound[m].queued + 1}
          /\ endTold' = endTold
      BY <2>2, <1>a DEF Queued, DeliveryTypeOK, Inbound
    <3> QED
      BY <3>1, <1>0, NoWordYet DEF ReceivedOnce
  <2>3. CASE TurnReplies(m)
    <3>1. /\ inbound[m].at = "queued" /\ inbound'[m].receipt = inbound[m].receipt
          /\ inbound'[m].at = "sending" /\ inbound'[m].queued = inbound[m].queued /\ endTold' = endTold
      BY <2>3, <1>a DEF TurnReplies, DeliveryTypeOK, Inbound
    <3> QED
      BY <3>1, <1>0 DEF ReceivedOnce
  <2>4. ASSUME NEW ok \in BOOLEAN, TurnSends(m, ok) PROVE ReceivedOnce(inbound'[m], endTold'[m])
    <3>1. /\ inbound[m].at = "sending" /\ inbound'[m].receipt = inbound[m].receipt
          /\ inbound'[m].queued = inbound[m].queued
          /\ \/ inbound'[m].at \in {"none", "sending"} /\ endTold' = endTold
             \/ inbound'[m].at = "none" /\ Tell(m, "reply")
      BY <2>4, <1>a DEF TurnSends, DeliveryTypeOK, Inbound
    <3>2. Tell(m, "reply") => Len(endTold'[m]) = Len(endTold[m]) + 1
      BY <1>a, ToldIs DEF Word
    <3> QED
      BY <3>1, <3>2, <1>0, NoWordYet DEF ReceivedOnce
  <2> QED
    BY <1>3, <2>1, <2>2, <2>3, <2>4 DEF OfExternal
<1>4. ASSUME NEW n \in Direct, OfTask(n) PROVE ReceivedOnce(inbound'[m], endTold'[m])
  BY <1>1, <1>4, KindsApart
<1>5. CASE ProcessEnds
  <2>1. /\ inbound'[m].receipt = inbound[m].receipt /\ inbound'[m].queued = inbound[m].queued
        /\ inbound'[m].at = (IF inbound[m].at = "queued" THEN "queued" ELSE "none") /\ endTold' = endTold
    BY <1>5, <1>a DEF ProcessEnds, Inbound
  <2> QED
    BY <2>1, <1>0 DEF ReceivedOnce
<1>6. CASE ProcessStarts
  BY <1>6, <1>1 DEF ProcessStarts
<1>7. CASE UNCHANGED deliveryVars
  BY <1>7, <1>1 DEF deliveryVars
<1> QED
  BY <1>2, <1>3, <1>4, <1>5, <1>6, <1>7, StepKinds

LEMMA AnswerInit == DeliveryInit => AnswerInv
BY NoWordYet DEF DeliveryInit, AnswerInv, RepliesOnce, Mail, Over

LEMMA DownStep == DeliveryTypeOK /\ DownIsIdle /\ [DeliveryNext]_deliveryVars => DownIsIdle'
<1> SUFFICES ASSUME DeliveryTypeOK, DownIsIdle, [DeliveryNext]_deliveryVars PROVE DownIsIdle'
  OBVIOUS
<1>1. ASSUME NEW n \in External, OfExternal(n) PROVE process' = "up"
  BY <1>1 DEF OfExternal, Arrives, TurnReplies, Queued, TurnSends
<1>2. ASSUME NEW n \in Direct, OfTask(n) PROVE process' = "up"
  BY <1>2 DEF OfTask, Submit, TaskRuns, AgentReturns, AgentRaises, TaskSaves, TaskCompletes, RetryComes, WatcherSees,
     WatcherSaves, WatcherGivesUp, TaskSends, WatcherSends, ReplayRow, ResumeTask, TaskStops
<1>3. CASE ProcessEnds
  BY <1>3, ProcessEffects DEF DownIsIdle, Becomes
<1>4. ProcessStarts => process' = "up"
  BY DEF ProcessStarts
<1>5. CASE UNCHANGED deliveryVars
  BY <1>5 DEF deliveryVars, DownIsIdle
<1> QED
  BY <1>1, <1>2, <1>3, <1>4, <1>5, StepKinds DEF DownIsIdle

LEMMA AnswerStep ==
  ASSUME Timeouts = FALSE
  PROVE  DeliveryTypeOK /\ DownIsIdle /\ AnswerInv /\ [DeliveryNext]_deliveryVars => AnswerInv'
<1> SUFFICES ASSUME DeliveryTypeOK, DownIsIdle, AnswerInv, [DeliveryNext]_deliveryVars, NEW m \in Direct
             PROVE  RepliesOnce(job'[m], watcher'[m], endTold'[m])
  BY DEF AnswerInv
<1>a. /\ job[m] \in Job /\ m \in Mail
      /\ job[m].task \in Over \cup {"none", "queued", "running", "retry_wait", "interrupted"}
  BY DEF DeliveryTypeOK, Mail, Job
<1>0. RepliesOnce(job[m], watcher[m], endTold[m])
  BY DEF AnswerInv
<1>1. ASSUME job'[m] = job[m], watcher'[m] = watcher[m], endTold'[m] = endTold[m]
      PROVE  RepliesOnce(job'[m], watcher'[m], endTold'[m])
  BY <1>0, <1>1
<1>2. ASSUME NEW n \in External, OfExternal(n) PROVE RepliesOnce(job'[m], watcher'[m], endTold'[m])
  BY <1>1, <1>2, KindsApart
<1>3. ASSUME NEW n \in Direct, n # m, OfTask(n) PROVE RepliesOnce(job'[m], watcher'[m], endTold'[m])
  BY <1>1, <1>3, OtherTasksStay
<1>4. ASSUME OfTask(m) PROVE RepliesOnce(job'[m], watcher'[m], endTold'[m])
  <2>0. /\ "completed" \in Over /\ "failed" \in Over /\ "blocked" \in Over /\ "cancelled" \in Over
        /\ "running" \notin Over /\ "queued" \notin Over /\ "none" \notin Over /\ "retry_wait" \notin Over
        /\ \A s \in Over : s \notin Replayed
    BY DEF Over, Replayed
  <2>1. CASE Submit(m)
    <3>1. job[m].task = "none" /\ endTold' = endTold /\ watcher'[m] = "waits"
          /\ Becomes(m, "queued", job[m].exec, "accepted")
      BY <2>1, TaskEffects, WatcherEffects DEF Submit
    <3> QED
      BY <3>1, <1>0, <2>0, NoWordYet DEF RepliesOnce, Becomes
  <2>2. CASE TaskRuns(m)
    <3>1. /\ job[m].task = "queued" /\ endTold' = endTold /\ watcher' = watcher
          /\ \/ Becomes(m, "running", "agent", job[m].row)
             \/ Becomes(m, "blocked", job[m].exec, job[m].row)
      BY <2>2, TaskEffects DEF TaskRuns
    <3> QED
      BY <3>1, <1>0, <2>0, NoWordYet DEF RepliesOnce, Becomes
  <2>3. CASE AgentReturns(m)
    <3>1. /\ job[m].exec = "agent" /\ endTold' = endTold /\ watcher' = watcher
          /\ Becomes(m, job[m].task, "sending", job[m].row)
      BY <2>3, TaskEffects DEF AgentReturns
    <3> QED
      BY <3>1, <1>0, <2>0, NoWordYet DEF RepliesOnce, Becomes
  <2>4. ASSUME job[m].exec \in {"agent", "sending"}, job' = ExecutorRaises(m), endTold' = endTold, watcher' = watcher
        PROVE  RepliesOnce(job'[m], watcher'[m], endTold'[m])
    <3>1. Becomes(m, "retry_wait", "none", job[m].row) \/ Becomes(m, "failed", "none", job[m].row)
      BY <2>4, <1>0, TaskEffects DEF RepliesOnce
    <3> QED
      BY <2>4, <3>1, <1>0, <2>0, NoWordYet DEF RepliesOnce, Becomes
  <2>5. CASE AgentRaises(m)
    BY <2>4, <2>5 DEF AgentRaises
  <2>6. CASE TaskSaves(m)
    <3>1. /\ job[m].exec = "sent" /\ endTold' = endTold /\ watcher' = watcher
          /\ Becomes(m, job[m].task, "saved", "completed")
      BY <2>6, TaskEffects DEF TaskSaves
    <3> QED
      BY <3>1, <1>0, <2>0, NoWordYet DEF RepliesOnce, Becomes
  <2>7. CASE TaskCompletes(m)
    <3>1. /\ job[m].exec = "saved" /\ endTold' = endTold /\ watcher' = watcher /\ job[m].task = "running"
          /\ Becomes(m, "completed", "none", job[m].row)
      BY <2>7, <1>0, TaskEffects DEF TaskCompletes, RepliesOnce
    <3> QED
      BY <3>1, <1>0, <2>0, NoWordYet DEF RepliesOnce, Becomes
  <2>8. CASE RetryComes(m)
    <3>1. /\ job[m].task = "retry_wait" /\ endTold' = endTold /\ watcher' = watcher
          /\ Becomes(m, "queued", job[m].exec, job[m].row)
      BY <2>8, TaskEffects DEF RetryComes
    <3> QED
      BY <3>1, <1>0, <2>0, NoWordYet DEF RepliesOnce, Becomes
  <2>9. CASE WatcherSees(m)
    <3>1. endTold' = endTold
      BY <2>9 DEF WatcherSees
    <3>2. CASE job[m].task = "completed"
      <4>1. watcher'[m] = "none" /\ Becomes(m, job[m].task, job[m].exec, "completed")
        BY <2>9, <3>2, TaskEffects, WatcherEffects
      <4> QED
        BY <3>1, <4>1, <1>0, <2>0 DEF RepliesOnce, Becomes
    <3>3. CASE job[m].task # "completed"
      <4>1. watcher'[m] = "sends" /\ job' = job /\ job[m].task \in Over
        BY <2>9, <3>3, WatcherEffects
      <4> QED
        BY <3>1, <3>3, <4>1, <1>0 DEF RepliesOnce
    <3> QED
      BY <3>2, <3>3
  <2>10. CASE WatcherSaves(m)
    <3>1. /\ watcher[m] = "tells" /\ endTold' = endTold /\ watcher'[m] = "none"
          /\ Becomes(m, job[m].task, job[m].exec, job[m].task)
      BY <2>10, TaskEffects, WatcherEffects DEF WatcherSaves
    <3> QED
      BY <3>1, <1>0, <2>0 DEF RepliesOnce, Becomes
  <2>11. CASE WatcherGivesUp(m)
    <3>1. watcher'[m] = "none" /\ job' = job /\ endTold' = endTold
      BY <2>11, WatcherEffects DEF WatcherGivesUp
    <3> QED
      BY <3>1, <1>0 DEF RepliesOnce
  <2>12. ASSUME NEW ok \in BOOLEAN, TaskSends(m, ok) PROVE RepliesOnce(job'[m], watcher'[m], endTold'[m])
    <3>0. job[m].exec = "sending" /\ watcher' = watcher
      BY <2>12 DEF TaskSends
    <3>1. CASE Tell(m, "reply") /\ job' = [job EXCEPT ![m].exec = "sent"]
      <4>1. Becomes(m, job[m].task, "sent", job[m].row)
        BY <3>1, <1>a DEF Becomes, DeliveryTypeOK, Job
      <4>2. endTold'[m] = <<"reply">>
        BY <3>0, <3>1, <1>0, <1>a, ToldIs DEF RepliesOnce, Word
      <4> QED
        BY <3>0, <4>1, <4>2, <1>0, <2>0, NoWordYet DEF RepliesOnce, Becomes
    <3>2. CASE UNCHANGED endTold /\ job' = [job EXCEPT ![m].tries = @ + 1]
      <4>1. Becomes(m, job[m].task, job[m].exec, job[m].row)
        BY <3>2, <1>a DEF Becomes, DeliveryTypeOK, Job
      <4> QED
        BY <3>0, <3>2, <4>1, <1>0 DEF RepliesOnce, Becomes
    <3>3. CASE UNCHANGED endTold /\ job' = ExecutorRaises(m)
      BY <2>4, <3>0, <3>3
    <3> QED
      BY <2>12, <3>1, <3>2, <3>3 DEF TaskSends
  <2>13. ASSUME NEW ok \in BOOLEAN, WatcherSends(m, ok) PROVE RepliesOnce(job'[m], watcher'[m], endTold'[m])
    <3>1. watcher[m] = "sends" /\ watcher'[m] = "tells" /\ job' = job
      BY <2>13, WatcherEffects
    <3>2. Tell(m, "notice") \/ UNCHANGED endTold
      BY <2>13 DEF WatcherSends
    <3>3. ~HasReply(endTold'[m])
      BY <3>1, <3>2, <1>0, <1>a, ToldIs DEF RepliesOnce, Word
    <3>4. job[m].exec = "none"
      BY <3>1, <1>0, <2>0 DEF RepliesOnce
    <3> QED
      BY <3>1, <3>3, <3>4, <1>0, <2>0 DEF RepliesOnce
  <2>14. ASSUME NEW ok \in BOOLEAN, ReplayRow(m, ok) PROVE RepliesOnce(job'[m], watcher'[m], endTold'[m])
    <3>0. watcher' = watcher
      BY <2>14 DEF ReplayRow
    <3>1. CASE job' = job /\ endTold' = endTold
      BY <3>0, <3>1, <1>0
    <3>2. CASE job[m].row \in Replayed /\ job[m].task \in Over
      <4>1. job[m].task # "completed" /\ job[m].exec = "none"
        BY <3>2, <1>0, <2>0 DEF RepliesOnce
      <4>2. job'[m].task = job[m].task /\ job'[m].exec = job[m].exec
        BY <2>14, <1>a DEF ReplayRow, Row, DeliveryTypeOK, Job
      <4>3. Tell(m, "summary") \/ UNCHANGED endTold
        BY <2>14 DEF ReplayRow
      <4>4. ~HasReply(endTold'[m])
        BY <3>2, <4>1, <4>3, <1>0, <1>a, ToldIs DEF RepliesOnce, Word
      <4> QED
        BY <3>0, <3>2, <4>1, <4>2, <4>4, <1>0, <2>0 DEF RepliesOnce
    <3> QED
      BY <2>14, <3>1, <3>2 DEF ReplayRow
  <2>15. ASSUME NEW ok \in BOOLEAN, ResumeTask(m, ok) PROVE RepliesOnce(job'[m], watcher'[m], endTold'[m])
    <3>1. /\ endTold' = endTold /\ watcher' = watcher
          /\ \/ job[m].task = "queued" /\ Becomes(m, "blocked", job[m].exec, job[m].row)
             \/ Becomes(m, job[m].task, job[m].exec, job[m].row)
      BY <2>15, TaskEffects DEF ResumeTask
    <3> QED
      BY <3>1, <1>0, <2>0, NoWordYet DEF RepliesOnce, Becomes
  <2>16. ASSUME NEW st \in {"cancelled", "timed_out"}, TaskStops(m, st) PROVE RepliesOnce(job'[m], watcher'[m], endTold'[m])
    <3>1. /\ endTold' = endTold /\ watcher' = watcher /\ Becomes(m, "cancelled", "none", job[m].row)
          /\ job[m].task \in {"queued", "retry_wait"} \/ job[m].exec = "agent"
      BY <2>16, TaskEffects DEF TaskStops
    <3> QED
      BY <3>1, <1>0, <2>0, NoWordYet DEF RepliesOnce, Becomes
  <2> QED
    BY <1>4, <2>1, <2>2, <2>3, <2>5, <2>6, <2>7, <2>8, <2>9, <2>10, <2>11, <2>12, <2>13, <2>14, <2>15, <2>16 DEF OfTask
<1>5. CASE ProcessEnds
  <2>1. Becomes(m, job[m].task, "none", job[m].row) /\ watcher'[m] = "none" /\ endTold' = endTold
    BY <1>5, ProcessEffects
  <2> QED
    BY <2>1, <1>0 DEF RepliesOnce, Becomes
<1>6. CASE ProcessStarts
  <2>1. /\ \/ job[m].task = "running" /\ Becomes(m, "interrupted", job[m].exec, job[m].row)
           \/ job[m].task # "running" /\ Becomes(m, job[m].task, job[m].exec, job[m].row)
        /\ watcher' = watcher /\ endTold' = endTold /\ job[m].exec = "none"
    BY <1>6, ProcessEffects DEF ProcessStarts, DownIsIdle
  <2> QED
    BY <2>1, <1>0 DEF RepliesOnce, Becomes, Over
<1>7. CASE UNCHANGED deliveryVars
  BY <1>7, <1>1 DEF deliveryVars
<1> QED
  BY <1>2, <1>3, <1>4, <1>5, <1>6, <1>7, StepKinds
-----------------------------------------------------------------------------
LEMMA InboundInductive == DeliverySpec => [](DeliveryTypeOK /\ AttemptsLeft /\ ToldOver /\ InboundInv)
<1>1. DeliveryTypeOK /\ AttemptsLeft /\ ToldOver /\ InboundInv /\ [DeliveryNext]_deliveryVars
        => (DeliveryTypeOK /\ AttemptsLeft /\ ToldOver /\ InboundInv)'
  BY DeliveryTypesStep, ToldOverStep, InboundStep
<1> QED
  BY <1>1, DeliveryTypesInit, InboundInit, PTL DEF DeliverySpec

\* Messages, tasks, rows and watchers keep to their types, and no task is tried more often
\* than max_attempts.
THEOREM DeliveryTypesAlways == DeliverySpec => []DeliveryTypeOK
BY InboundInductive, PTL

\* An external message is queued and answered at most once, however often it comes, across
\* restarts and after the memory of the process forgot its id (check_and_record_receipt).
THEOREM EnqueuedOnceAlways == DeliverySpec => []EnqueuedOnce
<1>1. InboundInv => EnqueuedOnce
  BY DEF InboundInv, ReceivedOnce, EnqueuedOnce
<1> QED
  BY <1>1, InboundInductive, PTL

\* Unless a task runs into its time-out while its reply is sent, a direct message that has its
\* answer is told nothing else, by no watcher, retry or replay after a restart
\* (_deliver_runtime_terminal, recover_channel_deliveries).
THEOREM AnswerStandsAloneAlways == ASSUME Timeouts = FALSE PROVE DeliverySpec => []AnswerStandsAlone
<1>1. AnswerInv => AnswerStandsAlone
  BY DEF AnswerInv, RepliesOnce, HasReply, AnswerStandsAlone
<1>2. DeliveryInit => DownIsIdle /\ AnswerInv
  BY AnswerInit DEF DeliveryInit, DownIsIdle
<1>3. DeliveryTypeOK /\ DownIsIdle /\ AnswerInv /\ [DeliveryNext]_deliveryVars => (DownIsIdle /\ AnswerInv)'
  BY AnswerStep, DownStep
<1> QED
  BY <1>1, <1>2, <1>3, DeliveryTypesAlways, PTL DEF DeliverySpec
-----------------------------------------------------------------------------
(* Import of old sessions.                                                    *)

\* An import has a file in hand from the look at its key to the end of the write.
HasFile == \A i \in Importers : importer[i].at \in {"check", "create", "write"} => importer[i].file \in Files
\* Who writes into a conversation made it, alone, and nothing was written into it yet.
WriterMadeIt ==
  /\ \A i \in Importers : importer[i].at = "write" =>
       /\ conversation[KeyOf[importer[i].file]].by = "import"
       /\ \A f \in Files : conversation[KeyOf[importer[i].file]].texts[f] = 0
  /\ \A i, j \in Importers : i # j /\ importer[i].at = "write" /\ importer[j].at = "write" =>
       KeyOf[importer[i].file] # KeyOf[importer[j].file]
ImportInv == HasFile /\ WriterMadeIt /\ ImportedOnce
-----------------------------------------------------------------------------
LEMMA ConversationUpdates ==
  ASSUME NEW r \in Conversation
  PROVE  /\ \A b \in {"nobody", "import", "gateway"} : [r EXCEPT !.by = b] \in Conversation
         /\ \A b \in {"nobody", "import", "gateway"} : [r EXCEPT !.turns = 1, !.by = b] \in Conversation
         /\ \A f \in Files : [r EXCEPT !.texts[f] = @ + 1] \in Conversation
<1>1. \A b \in {"nobody", "import", "gateway"} : [r EXCEPT !.by = b] \in Conversation
  BY DEF Conversation
<1>2. ASSUME NEW b \in {"nobody", "import", "gateway"} PROVE [r EXCEPT !.turns = 1, !.by = b] \in Conversation
  <2>1. 1 \in 0 .. 1
    OBVIOUS
  <2>2. \A n \in 0 .. 1 : [r EXCEPT !.turns = n, !.by = b] \in Conversation
    BY DEF Conversation
  <2> QED
    BY <2>1, <2>2
<1>3. ASSUME NEW f \in Files PROVE [r EXCEPT !.texts[f] = @ + 1] \in Conversation
  <2>1. r.texts \in [Files -> Nat]
    BY DEF Conversation
  <2>2. [r.texts EXCEPT ![f] = @ + 1] \in [Files -> Nat]
    BY <2>1
  <2>3. \A t \in [Files -> Nat] : [r EXCEPT !.texts = t] \in Conversation
    BY DEF Conversation
  <2> QED
    BY <2>2, <2>3
<1> QED
  BY <1>1, <1>2, <1>3

LEMMA ImporterUpdates ==
  ASSUME NEW r \in Importer
  PROVE  /\ \A f \in Files : [r EXCEPT !.left = @ \ {f}] \in Importer
         /\ \A f \in Files : [r EXCEPT !.at = "check", !.left = @ \ {f}, !.file = f] \in Importer
         /\ \A a \in {"create", "write"} : [r EXCEPT !.at = a] \in Importer
         /\ [r EXCEPT !.at = "loop", !.file = "none"] \in Importer
<1>1. \A f \in Files : [r EXCEPT !.left = @ \ {f}] \in Importer
  BY DEF Importer
<1>2. \A f \in Files : [r EXCEPT !.at = "check", !.left = @ \ {f}, !.file = f] \in Importer
  BY DEF Importer
<1>3. \A a \in {"create", "write"} : [r EXCEPT !.at = a] \in Importer
  BY DEF Importer
<1>4. [r EXCEPT !.at = "loop", !.file = "none"] \in Importer
  BY DEF Importer
<1> QED
  BY <1>1, <1>2, <1>3, <1>4

LEMMA ImportTypesInit == ImportInit => ImportTypeOK
BY ImportAssumption DEF ImportInit, ImportTypeOK, Conversation, Importer, NoConversation, Resting, SessionKeys

LEMMA ReportUpdates ==
  ASSUME ImportTypeOK, NEW i \in Importers, NEW f \in Files,
         NEW as \in {"nothing", "covered", "error", "skipped", "migrated"}
  PROVE  [report EXCEPT ![i][f] = as] \in
           [Importers -> [Files -> {"nothing", "covered", "error", "skipped", "migrated"}]]
<1>1. [report[i] EXCEPT ![f] = as] \in [Files -> {"nothing", "covered", "error", "skipped", "migrated"}]
  BY DEF ImportTypeOK
<1> QED
  BY <1>1 DEF ImportTypeOK

LEMMA BackToLoopTypes ==
  ASSUME ImportTypeOK, NEW i \in Importers, importer[i].file \in Files,
         NEW as \in {"nothing", "covered", "error", "skipped", "migrated"}, BackToLoop(i, as)
  PROVE  importer' \in [Importers -> Importer]
         /\ report' \in [Importers -> [Files -> {"nothing", "covered", "error", "skipped", "migrated"}]]
<1>1. importer' \in [Importers -> Importer]
  BY ImporterUpdates DEF BackToLoop, ImportTypeOK
<1> QED
  BY <1>1, ReportUpdates DEF BackToLoop

LEMMA KeyOfFile == \A f \in Files : KeyOf[f] \in SessionKeys
BY DEF SessionKeys

LEMMA ImportTypesStep == ImportTypeOK /\ HasFile /\ [ImportNext]_importVars => ImportTypeOK'
<1> SUFFICES ASSUME ImportTypeOK, HasFile, [ImportNext]_importVars PROVE ImportTypeOK'
  OBVIOUS
<1>a. /\ \A i \in Importers : importer[i] \in Importer
      /\ \A k \in SessionKeys : conversation[k] \in Conversation
      /\ \A i \in Importers : importer[i].at \in {"check", "create", "write"} =>
            importer[i].file \in Files /\ KeyOf[importer[i].file] \in SessionKeys
  BY KeyOfFile DEF ImportTypeOK, HasFile
<1>b. ASSUME NEW what, Fault(what) PROVE importFaults' \in 0 .. MaxImportFaults
  BY <1>b, ImportAssumption DEF Fault, ImportTypeOK
<1>1. ASSUME NEW i \in Importers, ImportBegins(i) PROVE ImportTypeOK'
  <2>1. [at |-> "loop", left |-> Files, covered |-> {f \in Files : ScanOne(f)}, file |-> "none"] \in Importer
    BY DEF Importer
  <2>2. importer' \in [Importers -> Importer]
    BY <1>1, <2>1 DEF ImportBegins, ImportTypeOK
  <2> QED
    BY <1>1, <2>2 DEF ImportBegins, ImportTypeOK
<1>2. ASSUME NEW i \in Importers, ImportChecks(i) PROVE ImportTypeOK'
  <2>1. CASE BackToLoop(i, "skipped")
    BY <1>2, <2>1, <1>a, BackToLoopTypes DEF ImportChecks, ImportTypeOK
  <2>2. CASE importer' = [importer EXCEPT ![i].at = "create"] /\ UNCHANGED report
    <3>1. importer' \in [Importers -> Importer]
      BY <2>2, <1>a, ImporterUpdates DEF ImportTypeOK
    <3> QED
      BY <1>2, <2>2, <3>1 DEF ImportChecks, ImportTypeOK
  <2> QED
    BY <1>2, <2>1, <2>2 DEF ImportChecks
<1>3. ASSUME NEW i \in Importers, ImportCreates(i) PROVE ImportTypeOK'
  <2>1. CASE BackToLoop(i, "skipped") /\ UNCHANGED conversation
    BY <1>3, <2>1, <1>a, BackToLoopTypes DEF ImportCreates, ImportTypeOK
  <2>2. CASE /\ conversation' = [conversation EXCEPT ![KeyOf[importer[i].file]].by = "import"]
             /\ importer' = [importer EXCEPT ![i].at = "write"] /\ UNCHANGED report
    <3>1. importer' \in [Importers -> Importer]
      BY <2>2, <1>a, ImporterUpdates DEF ImportTypeOK
    <3>2. conversation' \in [SessionKeys -> Conversation]
      BY <2>2, <1>a, ConversationUpdates DEF ImportTypeOK
    <3> QED
      BY <1>3, <2>2, <3>1, <3>2 DEF ImportCreates, ImportTypeOK
  <2> QED
    BY <1>3, <2>1, <2>2 DEF ImportCreates
<1>4. ASSUME NEW i \in Importers, ImportWrites(i) PROVE ImportTypeOK'
  <2>1. importer[i].file \in Files /\ KeyOf[importer[i].file] \in SessionKeys
    BY <1>4, <1>a DEF ImportWrites
  <2>2. conversation' \in [SessionKeys -> Conversation]
    BY <1>4, <2>1, <1>a, ConversationUpdates DEF ImportWrites, ImportTypeOK
  <2> QED
    BY <1>4, <2>1, <2>2, BackToLoopTypes DEF ImportWrites, ImportTypeOK
<1>5. ASSUME NEW i \in Importers, ImportFails(i) PROVE ImportTypeOK'
  <2>1. importer[i].file \in Files
    BY <1>5, <1>a DEF ImportFails
  <2>2. NoConversation \in Conversation
    BY DEF NoConversation, Conversation
  <2>3. conversation' \in [SessionKeys -> Conversation]
    BY <1>5, <2>2 DEF ImportFails, ImportTypeOK
  <2> QED
    BY <1>5, <1>b, <2>1, <2>3, BackToLoopTypes DEF ImportFails, ImportTypeOK
<1>6. ASSUME NEW i \in Importers, ImportDies(i) \/ ImportEnds(i) PROVE ImportTypeOK'
  <2>1. Resting \in Importer
    BY DEF Resting, Importer
  <2>2. importer' \in [Importers -> Importer]
    BY <1>6, <2>1 DEF ImportDies, ImportEnds, ImportTypeOK
  <2> QED
    BY <1>6, <2>2, <1>b DEF ImportDies, ImportEnds, ImportTypeOK
<1>7. ASSUME NEW i \in Importers, NEW f \in Files, ImportLooks(i, f) PROVE ImportTypeOK'
  <2>1. importer' \in [Importers -> Importer]
    <3>1. CASE importer' = [importer EXCEPT ![i].left = @ \ {f}]
      BY <3>1, <1>a, ImporterUpdates DEF ImportTypeOK
    <3>2. CASE importer' = [importer EXCEPT ![i].at = "check", ![i].left = @ \ {f}, ![i].file = f]
      BY <3>2, <1>a, ImporterUpdates DEF ImportTypeOK
    <3> QED
      BY <1>7, <3>1, <3>2 DEF ImportLooks
  <2>2. report' \in [Importers -> [Files -> {"nothing", "covered", "error", "skipped", "migrated"}]]
    <3>1. CASE UNCHANGED report
      BY <3>1 DEF ImportTypeOK
    <3>2. CASE report' = [report EXCEPT ![i][f] = IF f \in importer[i].covered THEN "covered" ELSE "error"]
      BY <3>2, ReportUpdates
    <3> QED
      BY <1>7, <3>1, <3>2 DEF ImportLooks
  <2> QED
    BY <1>7, <2>1, <2>2 DEF ImportLooks, ImportTypeOK
<1>8. ASSUME NEW k \in SessionKeys, UserTurn(k) PROVE ImportTypeOK'
  <2>1. (IF conversation[k].by = "nobody" THEN "gateway" ELSE conversation[k].by) \in {"nobody", "import", "gateway"}
    BY <1>a DEF Conversation
  <2>2. conversation' \in [SessionKeys -> Conversation]
    BY <1>8, <2>1, <1>a, ConversationUpdates DEF UserTurn, ImportTypeOK
  <2> QED
    BY <1>8, <2>2 DEF UserTurn, ImportTypeOK
<1>9. CASE UNCHANGED importVars
  BY <1>9 DEF importVars, ImportTypeOK
<1> QED
  BY <1>1, <1>2, <1>3, <1>4, <1>5, <1>6, <1>7, <1>8, <1>9 DEF ImportNext
-----------------------------------------------------------------------------
LEMMA ImportInvInit == ImportInit => ImportInv
BY DEF ImportInit, ImportInv, HasFile, WriterMadeIt, ImportedOnce, Resting, NoConversation, SessionKeys

\* The fields of the importers that a step of i leaves alone
LEMMA BackToLoopEffect ==
  ASSUME ImportTypeOK, NEW i \in Importers, NEW as, BackToLoop(i, as)
  PROVE  /\ importer'[i].at = "loop"
         /\ \A j \in Importers : j # i => importer'[j] = importer[j]
BY DEF BackToLoop, ImportTypeOK, Importer

LEMMA ImportStep ==
  ImportTypeOK /\ ImportInv /\ [ImportNext]_importVars => ImportInv'
<1> SUFFICES ASSUME ImportTypeOK, ImportInv, [ImportNext]_importVars PROVE ImportInv'
  OBVIOUS
<1>t. /\ \A i \in Importers : importer[i] \in Importer
      /\ \A k \in SessionKeys : conversation[k] \in Conversation
  BY DEF ImportTypeOK
<1>f. \A i \in Importers : importer[i].at \in {"check", "create", "write"} =>
         importer[i].file \in Files /\ KeyOf[importer[i].file] \in SessionKeys
  BY KeyOfFile DEF ImportInv, HasFile
\* A step that writes no conversation and brings nobody to the write
<1>q. ASSUME UNCHANGED conversation,
             \A j \in Importers : \/ importer'[j] = importer[j]
                                  \/ importer'[j].at \in {"off", "loop"}
                                  \/ importer'[j].at \in {"check", "create"} /\ importer'[j].file \in Files
      PROVE  ImportInv'
  <2>1. HasFile'
    BY <1>q DEF ImportInv, HasFile
  <2>2. WriterMadeIt'
    BY <1>q DEF ImportInv, WriterMadeIt
  <2>3. ImportedOnce'
    BY <1>q DEF ImportInv, ImportedOnce
  <2> QED
    BY <2>1, <2>2, <2>3 DEF ImportInv
<1>1. ASSUME NEW i \in Importers, ImportBegins(i) PROVE ImportInv'
  <2>1. \A j \in Importers : IF j = i THEN importer'[j].at = "loop" ELSE importer'[j] = importer[j]
    BY <1>1 DEF ImportBegins, ImportTypeOK
  <2> QED
    BY <1>1, <2>1, <1>q DEF ImportBegins
<1>2. ASSUME NEW i \in Importers, ImportChecks(i) PROVE ImportInv'
  <2>1. CASE BackToLoop(i, "skipped")
    BY <1>2, <2>1, <1>q, BackToLoopEffect DEF ImportChecks
  <2>2. CASE importer' = [importer EXCEPT ![i].at = "create"]
    <3>1. /\ importer'[i].at = "create" /\ importer'[i].file = importer[i].file
          /\ \A j \in Importers : j # i => importer'[j] = importer[j]
      BY <2>2, <1>t DEF ImportTypeOK, Importer
    <3> QED
      BY <1>2, <3>1, <1>f, <1>q DEF ImportChecks
  <2> QED
    BY <1>2, <2>1, <2>2 DEF ImportChecks
<1>3. ASSUME NEW i \in Importers, ImportCreates(i) PROVE ImportInv'
  <2> DEFINE k == KeyOf[importer[i].file]
  <2>1. CASE BackToLoop(i, "skipped") /\ UNCHANGED conversation
    BY <2>1, <1>q, BackToLoopEffect
  <2>2. CASE /\ ~Exists(k) /\ conversation' = [conversation EXCEPT ![k].by = "import"]
             /\ importer' = [importer EXCEPT ![i].at = "write"]
    <3>1. /\ importer'[i].at = "write" /\ importer'[i].file = importer[i].file
          /\ \A j \in Importers : j # i => importer'[j] = importer[j]
      BY <2>2, <1>t DEF ImportTypeOK, Importer
    <3>2. k \in SessionKeys /\ importer[i].file \in Files
      BY <1>3, <1>f DEF ImportCreates
    <3>3. /\ conversation'[k].by = "import" /\ conversation'[k].texts = conversation[k].texts
          /\ \A l \in SessionKeys : l # k => conversation'[l] = conversation[l]
      BY <2>2, <3>2, <1>t DEF ImportTypeOK, Conversation
    <3>4. conversation[k].by = "nobody" /\ \A f \in Files : conversation[k].texts[f] = 0
      <4>1. conversation[k].by = "nobody"
        BY <2>2 DEF Exists
      <4>2. \A f \in Files : conversation[k].texts[f] \in Nat
        BY <3>2, <1>t DEF Conversation
      <4> QED
        BY <3>2, <4>1, <4>2 DEF ImportInv, ImportedOnce
    <3>5. HasFile'
      BY <3>1, <3>2 DEF ImportInv, HasFile
    <3>6. \A j \in Importers : importer[j].at = "write" => KeyOf[importer[j].file] # k
      BY <3>4 DEF ImportInv, WriterMadeIt
    <3>7. WriterMadeIt'
      <4>1. \A j \in Importers : importer'[j].at = "write" /\ j # i =>
              /\ importer'[j] = importer[j] /\ KeyOf[importer[j].file] # k
              /\ conversation'[KeyOf[importer[j].file]] = conversation[KeyOf[importer[j].file]]
        BY <3>1, <3>3, <3>6, <1>f
      <4>2. conversation'[k].by = "import" /\ \A f \in Files : conversation'[k].texts[f] = 0
        BY <3>3, <3>4
      <4> QED
        BY <3>1, <4>1, <4>2 DEF ImportInv, WriterMadeIt
    <3>8. ImportedOnce'
      BY <3>2, <3>3, <3>4 DEF ImportInv, ImportedOnce
    <3> QED
      BY <3>5, <3>7, <3>8 DEF ImportInv
  <2> QED
    BY <1>3, <2>1, <2>2 DEF ImportCreates
<1>4. ASSUME NEW i \in Importers, ImportWrites(i) PROVE ImportInv'
  <2> DEFINE g == importer[i].file
             k == KeyOf[importer[i].file]
  <2>1. k \in SessionKeys /\ g \in Files
    BY <1>4, <1>f DEF ImportWrites
  <2>2. /\ importer'[i].at = "loop"
        /\ \A j \in Importers : j # i => importer'[j] = importer[j]
    BY <1>4, BackToLoopEffect DEF ImportWrites
  <2>3. /\ conversation'[k].by = conversation[k].by /\ conversation'[k].texts[g] = conversation[k].texts[g] + 1
        /\ \A f \in Files : f # g => conversation'[k].texts[f] = conversation[k].texts[f]
        /\ \A l \in SessionKeys : l # k => conversation'[l] = conversation[l]
    BY <1>4, <2>1, <1>t DEF ImportWrites, ImportTypeOK, Conversation
  <2>4. conversation[k].by = "import" /\ \A f \in Files : conversation[k].texts[f] = 0
    BY <1>4 DEF ImportInv, WriterMadeIt, ImportWrites
  <2>5. HasFile'
    BY <2>2 DEF ImportInv, HasFile
  <2>6. \A j \in Importers : j # i /\ importer[j].at = "write" =>
          KeyOf[importer[j].file] # k /\ KeyOf[importer[j].file] \in SessionKeys
    BY <1>4, <1>f DEF ImportInv, WriterMadeIt, ImportWrites
  <2>7. WriterMadeIt'
    <3>1. \A j \in Importers : importer'[j].at = "write" => j # i /\ importer'[j] = importer[j]
      BY <2>2
    <3>2. \A j \in Importers : importer'[j].at = "write" =>
            conversation'[KeyOf[importer[j].file]] = conversation[KeyOf[importer[j].file]]
      BY <3>1, <2>3, <2>6
    <3> QED
      BY <3>1, <3>2 DEF ImportInv, WriterMadeIt
  <2>8. ImportedOnce'
    <3>a. k = KeyOf[g] /\ conversation'[k].texts[g] = 1
      <4>1. conversation[k].texts[g] = 0
        BY <2>1, <2>4
      <4> QED
        BY <2>3, <4>1
    <3> HIDE DEF k, g
    <3>1. ASSUME NEW f \in Files
          PROVE  conversation'[k].texts[f] <= 1 /\ (conversation'[k].texts[f] = 1 => KeyOf[f] = k)
      <4>1. CASE f = g
        BY <4>1, <3>a
      <4>2. CASE f # g
        BY <4>2, <2>3, <2>4
      <4> QED
        BY <4>1, <4>2
    <3>2. conversation'[k].by = "import"
      BY <2>3, <2>4
    <3> QED
      BY <3>1, <3>2, <2>3 DEF ImportInv, ImportedOnce
  <2> QED
    BY <2>5, <2>7, <2>8 DEF ImportInv
<1>5. ASSUME NEW i \in Importers, ImportFails(i) PROVE ImportInv'
  <2> DEFINE k == KeyOf[importer[i].file]
  <2>1. k \in SessionKeys
    BY <1>5, <1>f DEF ImportFails
  <2>2. /\ importer'[i].at = "loop"
        /\ \A j \in Importers : j # i => importer'[j] = importer[j]
    BY <1>5, BackToLoopEffect DEF ImportFails
  <2>3. /\ \A l \in SessionKeys : l # k => conversation'[l] = conversation[l]
        /\ conversation'[k] \in {conversation[k], NoConversation}
    BY <1>5, <2>1 DEF ImportFails, ImportTypeOK
  <2>4. \A f \in Files : NoConversation.texts[f] = 0
    BY DEF NoConversation
  <2>5. HasFile'
    BY <2>2 DEF ImportInv, HasFile
  <2>6. \A j \in Importers : j # i /\ importer[j].at = "write" =>
          KeyOf[importer[j].file] # k /\ KeyOf[importer[j].file] \in SessionKeys
    BY <1>5, <1>f DEF ImportInv, WriterMadeIt, ImportFails
  <2>7. WriterMadeIt'
    <3>1. \A j \in Importers : importer'[j].at = "write" => j # i /\ importer'[j] = importer[j]
      BY <2>2
    <3>2. \A j \in Importers : importer'[j].at = "write" =>
            conversation'[KeyOf[importer[j].file]] = conversation[KeyOf[importer[j].file]]
      BY <3>1, <2>3, <2>6
    <3> QED
      BY <3>1, <3>2 DEF ImportInv, WriterMadeIt
  <2>8. ImportedOnce'
    BY <2>1, <2>3, <2>4 DEF ImportInv, ImportedOnce
  <2> QED
    BY <2>5, <2>7, <2>8 DEF ImportInv
<1>6. ASSUME NEW i \in Importers, ImportDies(i) \/ ImportEnds(i) PROVE ImportInv'
  <2>1. \A j \in Importers : IF j = i THEN importer'[j].at = "off" ELSE importer'[j] = importer[j]
    BY <1>6 DEF ImportDies, ImportEnds, ImportTypeOK, Resting
  <2> QED
    BY <1>6, <2>1, <1>q DEF ImportDies, ImportEnds
<1>7. ASSUME NEW i \in Importers, NEW f \in Files, ImportLooks(i, f) PROVE ImportInv'
  <2>1. /\ \A j \in Importers : j # i => importer'[j] = importer[j]
        /\ \/ importer'[i].at = "loop"
           \/ importer'[i].at = "check" /\ importer'[i].file = f
    BY <1>7, <1>t DEF ImportLooks, ImportTypeOK, Importer
  <2> QED
    BY <1>7, <2>1, <1>q DEF ImportLooks
<1>8. ASSUME NEW k \in SessionKeys, UserTurn(k) PROVE ImportInv'
  <2>1. /\ \A l \in SessionKeys : l # k => conversation'[l] = conversation[l]
        /\ conversation'[k].texts = conversation[k].texts
        /\ conversation[k].by = "import" => conversation'[k].by = "import"
    BY <1>8, <1>t DEF UserTurn, ImportTypeOK, Conversation
  <2>2. HasFile' 
    BY <1>8 DEF UserTurn, ImportInv, HasFile
  <2>3. WriterMadeIt'
    <3>1. \A l \in SessionKeys : /\ conversation'[l].texts = conversation[l].texts
                                 /\ conversation[l].by = "import" => conversation'[l].by = "import"
      BY <2>1
    <3>2. importer' = importer
      BY <1>8 DEF UserTurn
    <3>3. \A j \in Importers : importer[j].at = "write" => KeyOf[importer[j].file] \in SessionKeys
      BY <1>f
    <3> QED
      BY <3>1, <3>2, <3>3 DEF ImportInv, WriterMadeIt
  <2>4. ImportedOnce'
    BY <2>1 DEF ImportInv, ImportedOnce
  <2> QED
    BY <2>2, <2>3, <2>4 DEF ImportInv
<1>9. CASE UNCHANGED importVars
  BY <1>9, <1>q DEF importVars
<1> QED
  BY <1>1, <1>2, <1>3, <1>4, <1>5, <1>6, <1>7, <1>8, <1>9 DEF ImportNext
-----------------------------------------------------------------------------
LEMMA ImportInductive == ImportSpec => [](ImportTypeOK /\ ImportInv)
<1>1. ImportTypeOK /\ ImportInv /\ [ImportNext]_importVars => (ImportTypeOK /\ ImportInv)'
  BY ImportTypesStep, ImportStep DEF ImportInv
<1> QED
  BY <1>1, ImportTypesInit, ImportInvInit, PTL DEF ImportSpec

\* The variables of the import have their types.
THEOREM ImportTypesAlways == ImportSpec => []ImportTypeOK
BY ImportInductive, PTL

\* However many imports run together, die or fail halfway, and whatever the gateway creates
\* beside them, a transcript is written at most once, under its own key and into a
\* conversation that an import made (migrate_sessions, _import_one).
THEOREM ImportedOnceAlways == ImportSpec => []ImportedOnce
<1>1. ImportInv => ImportedOnce
  BY DEF ImportInv
<1> QED
  BY <1>1, ImportInductive, PTL
-----------------------------------------------------------------------------
(* Artifacts and retention.                                                   *)

\* A row appears when its creation ends, over a file in place.
MadeOnce ==
  \A a \in ArtifactIds :
    /\ maker[a].at # "over" => ~arow[a].here
    /\ maker[a].at = "placed" => a \in disk

\* The plans of the snapshot are archived still or cleared, and what the collector has in
\* hand will not be made again.
HandIsSafe ==
  /\ \A p \in collector.refs : planRow[p] \in {"archived", "gone"}
  /\ \A a \in collector.doomed \cup collector.now : maker[a].at = "over"
  /\ \A a \in collector.now : a \notin disk

RetentionInv == MadeOnce /\ HandIsSafe /\ RowHasFile /\ DoomedIsExpendable /\ SessionStays
-----------------------------------------------------------------------------
\* What the actions write into a creation or a row fits it.
LEMMA MakerUpdates ==
  ASSUME NEW m \in Maker
  PROVE  /\ [m EXCEPT !.at = "placed"] \in Maker /\ [m EXCEPT !.at = "over"] \in Maker
         /\ [m EXCEPT !.exact = FALSE] \in Maker
BY DEF Maker

LEMMA RowUpdates ==
  ASSUME NEW x \in ArtifactRow
  PROVE  /\ [x EXCEPT !.old = TRUE] \in ArtifactRow /\ [x EXCEPT !.event = "none"] \in ArtifactRow
         /\ [x EXCEPT !.plan = NoPlan, !.step = FALSE] \in ArtifactRow
BY DEF ArtifactRow

LEMMA FaultsCounted == ASSUME ArtifactTypeOK, Fails PROVE artifactFaults' \in 0..MaxArtifactFaults
BY ArtifactAssumption DEF ArtifactTypeOK, Fails

LEMMA ArtifactTypesInit == ArtifactInit => ArtifactTypeOK
BY ArtifactAssumption DEF Maker, ArtifactRow, ArtifactInit, ArtifactTypeOK, IdleMaker, NoRow, IdleCollector

LEMMA ArtifactTypesStep == ArtifactTypeOK /\ [ArtifactNext]_artifactVars => ArtifactTypeOK'
<1> SUFFICES ASSUME ArtifactTypeOK, [ArtifactNext]_artifactVars PROVE ArtifactTypeOK'
  OBVIOUS
<1>1. ASSUME NEW a \in ArtifactIds, NEW p \in PlanIds \cup {NoPlan}, NEW s \in BOOLEAN, MakeBegins(a, p, s)
      PROVE  ArtifactTypeOK'
  BY <1>1 DEF ArtifactTypeOK, MakeBegins, Maker
<1>2. ASSUME NEW a \in ArtifactIds, SourceGrows(a)
      PROVE  ArtifactTypeOK'
  BY <1>2, MakerUpdates DEF ArtifactTypeOK, SourceGrows
<1>3. ASSUME NEW a \in ArtifactIds, Places(a)
      PROVE  ArtifactTypeOK'
  BY <1>3, MakerUpdates DEF ArtifactTypeOK, Places
<1>4. ASSUME NEW a \in ArtifactIds, PlaceFails(a)
      PROVE  ArtifactTypeOK'
  <2>1. artifactFaults' \in 0..MaxArtifactFaults
    BY <1>4, FaultsCounted DEF PlaceFails
  <2> QED
    BY <1>4, <2>1, MakerUpdates DEF ArtifactTypeOK, PlaceFails
<1>5. ASSUME NEW a \in ArtifactIds, Saves(a)
      PROVE  ArtifactTypeOK'
  <2>1. maker' \in [ArtifactIds -> Maker]
    BY <1>5, MakerUpdates DEF ArtifactTypeOK, Saves
  <2>2. [here |-> TRUE, plan |-> maker[a].plan, step |-> maker[a].step, old |-> FALSE, exact |-> maker[a].exact,
         event |-> IF taskRow[SourceOf[a]].at = "none" THEN "plain" ELSE "linked"] \in ArtifactRow
    BY DEF ArtifactTypeOK, Maker, ArtifactRow
  <2>3. arow' \in [ArtifactIds -> ArtifactRow]
    BY <1>5, <2>2 DEF ArtifactTypeOK, Saves
  <2> QED
    BY <1>5, <2>1, <2>3 DEF ArtifactTypeOK, Saves
<1>6. ASSUME NEW a \in ArtifactIds, SaveFails(a)
      PROVE  ArtifactTypeOK'
  <2>1. artifactFaults' \in 0..MaxArtifactFaults
    BY <1>6, FaultsCounted DEF SaveFails
  <2> QED
    BY <1>6, <2>1, MakerUpdates DEF ArtifactTypeOK, SaveFails
<1>7. ASSUME NEW a \in ArtifactIds, ArtifactAges(a)
      PROVE  ArtifactTypeOK'
  BY <1>7, RowUpdates DEF ArtifactTypeOK, ArtifactAges
<1>8. ASSUME NEW a \in ArtifactIds, Unlinks(a)
      PROVE  ArtifactTypeOK'
  BY <1>8 DEF ArtifactTypeOK, Unlinks
<1>9. ASSUME NEW a \in ArtifactIds, DropsArtifact(a)
      PROVE  ArtifactTypeOK'
  BY <1>9 DEF ArtifactTypeOK, DropsArtifact, ArtifactRow, NoRow
<1>10. ASSUME NEW t \in TaskIds, SubmitTask(t)
      PROVE  ArtifactTypeOK'
  BY <1>10 DEF ArtifactTypeOK, SubmitTask
<1>11. ASSUME NEW t \in TaskIds, TaskOver(t)
      PROVE  ArtifactTypeOK'
  BY <1>11 DEF ArtifactTypeOK, TaskOver
<1>12. ASSUME NEW t \in TaskIds, TaskAges(t)
      PROVE  ArtifactTypeOK'
  BY <1>12 DEF ArtifactTypeOK, TaskAges
<1>13. ASSUME NEW t \in TaskIds, DropsTask(t)
      PROVE  ArtifactTypeOK'
  <2>1. CASE taskRow[t].at = "over"
    <3>0. /\ taskRow' = [taskRow EXCEPT ![t] = [at |-> "none", old |-> FALSE]]
          /\ arow' = [a \in ArtifactIds |-> IF SourceOf[a] = t /\ arow[a].event = "linked"
                                            THEN [arow[a] EXCEPT !.event = "none"] ELSE arow[a]]
      BY <1>13, <2>1 DEF DropsTask
    <3>1. arow' \in [ArtifactIds -> ArtifactRow]
      BY <3>0, RowUpdates DEF ArtifactTypeOK
    <3>2. taskRow' \in [TaskIds -> [at : {"none", "active", "over"}, old : BOOLEAN]]
      BY <3>0 DEF ArtifactTypeOK
    <3> QED
      BY <1>13, <3>1, <3>2 DEF ArtifactTypeOK, DropsTask
  <2>2. CASE taskRow[t].at # "over"
    BY <1>13, <2>2 DEF ArtifactTypeOK, DropsTask
  <2> QED
    BY <2>1, <2>2
<1>14. ASSUME NEW p \in PlanIds, PlanOver(p)
      PROVE  ArtifactTypeOK'
  BY <1>14 DEF ArtifactTypeOK, PlanOver
<1>15. ASSUME NEW p \in PlanIds, ClearPlan(p)
      PROVE  ArtifactTypeOK'
  BY <1>15, RowUpdates DEF ArtifactTypeOK, ClearPlan, Released
<1>16. CASE SessionAges
  BY <1>16 DEF ArtifactTypeOK, SessionAges
<1>17. CASE CollectBegins
  BY <1>17 DEF ArtifactTypeOK, CollectBegins, IdleCollector
<1>18. CASE CollectTasks
  BY <1>18 DEF ArtifactTypeOK, CollectTasks
<1>19. CASE CollectLists
  BY <1>19 DEF ArtifactTypeOK, CollectLists
<1>20. CASE CollectEnds
  BY <1>20 DEF ArtifactTypeOK, CollectEnds, IdleCollector, SessionInUse
<1>21. CASE CollectFails
  <2>1. artifactFaults' \in 0..MaxArtifactFaults
    BY <1>21, FaultsCounted DEF CollectFails
  <2> QED
    BY <1>21, <2>1 DEF ArtifactTypeOK, CollectFails, IdleCollector
<1>22. CASE StoreRestarts
  <2>1. artifactFaults' \in 0..MaxArtifactFaults
    BY <1>22, FaultsCounted DEF StoreRestarts
  <2>2. maker' \in [ArtifactIds -> Maker]
    BY <1>22, MakerUpdates DEF ArtifactTypeOK, StoreRestarts
  <2> QED
    BY <1>22, <2>1, <2>2 DEF ArtifactTypeOK, StoreRestarts, IdleCollector
<1>23. CASE UNCHANGED artifactVars
  BY <1>23 DEF ArtifactTypeOK, artifactVars
<1> QED
  BY <1>1, <1>2, <1>3, <1>4, <1>5, <1>6, <1>7, <1>8, <1>9, <1>10, <1>11, <1>12, <1>13,
     <1>14, <1>15, <1>16, <1>17, <1>18, <1>19, <1>20, <1>21, <1>22, <1>23 DEF
     ArtifactNext

\* The variables of the artifact store have their types.
THEOREM ArtifactTypesAlways == ArtifactSpec => []ArtifactTypeOK
BY ArtifactTypesInit, ArtifactTypesStep, PTL DEF ArtifactSpec
-----------------------------------------------------------------------------
LEMMA RetentionInit == ArtifactInit => RetentionInv
BY DEF ArtifactInit, RetentionInv, MadeOnce, HandIsSafe, RowHasFile, DoomedIsExpendable, SessionStays, SessionInUse,
       IdleMaker, NoRow, IdleCollector

LEMMA RetentionStep ==
  ArtifactTypeOK /\ RetentionInv /\ [ArtifactNext]_artifactVars => RetentionInv'
<1> SUFFICES ASSUME ArtifactTypeOK, RetentionInv, [ArtifactNext]_artifactVars PROVE RetentionInv'
  OBVIOUS
<1>1. ASSUME NEW a \in ArtifactIds, NEW p \in PlanIds \cup {NoPlan}, NEW s \in BOOLEAN, MakeBegins(a, p, s)
      PROVE  RetentionInv'
  BY <1>1
  DEF MakeBegins, ArtifactTypeOK, Maker, ArtifactRow, RetentionInv, MadeOnce, HandIsSafe, RowHasFile,
      DoomedIsExpendable, Expendable, SessionStays, SessionInUse
<1>2. ASSUME NEW a \in ArtifactIds, SourceGrows(a)
      PROVE  RetentionInv'
  BY <1>2
  DEF SourceGrows, ArtifactTypeOK, Maker, ArtifactRow, RetentionInv, MadeOnce, HandIsSafe, RowHasFile,
      DoomedIsExpendable, Expendable, SessionStays, SessionInUse
<1>3. ASSUME NEW a \in ArtifactIds, Places(a)
      PROVE  RetentionInv'
  BY <1>3
  DEF Places, ArtifactTypeOK, Maker, ArtifactRow, RetentionInv, MadeOnce, HandIsSafe, RowHasFile,
      DoomedIsExpendable, Expendable, SessionStays, SessionInUse
<1>4. ASSUME NEW a \in ArtifactIds, PlaceFails(a)
      PROVE  RetentionInv'
  BY <1>4
  DEF PlaceFails, Fails, ArtifactTypeOK, Maker, ArtifactRow, RetentionInv, MadeOnce, HandIsSafe, RowHasFile,
      DoomedIsExpendable, Expendable, SessionStays, SessionInUse
<1>5. ASSUME NEW a \in ArtifactIds, Saves(a)
      PROVE  RetentionInv'
  BY <1>5
  DEF Saves, ArtifactTypeOK, Maker, ArtifactRow, RetentionInv, MadeOnce, HandIsSafe, RowHasFile,
      DoomedIsExpendable, Expendable, SessionStays, SessionInUse
<1>6. ASSUME NEW a \in ArtifactIds, SaveFails(a)
      PROVE  RetentionInv'
  BY <1>6
  DEF SaveFails, Fails, ArtifactTypeOK, Maker, ArtifactRow, RetentionInv, MadeOnce, HandIsSafe, RowHasFile,
      DoomedIsExpendable, Expendable, SessionStays, SessionInUse
<1>7. ASSUME NEW a \in ArtifactIds, ArtifactAges(a)
      PROVE  RetentionInv'
  BY <1>7
  DEF ArtifactAges, ArtifactTypeOK, Maker, ArtifactRow, RetentionInv, MadeOnce, HandIsSafe, RowHasFile,
      DoomedIsExpendable, Expendable, SessionStays, SessionInUse
<1>8. ASSUME NEW a \in ArtifactIds, Unlinks(a)
      PROVE  RetentionInv'
  BY <1>8
  DEF Unlinks, ArtifactTypeOK, Maker, ArtifactRow, RetentionInv, MadeOnce, HandIsSafe, RowHasFile,
      DoomedIsExpendable, Expendable, SessionStays, SessionInUse
<1>9. ASSUME NEW a \in ArtifactIds, DropsArtifact(a)
      PROVE  RetentionInv'
  BY <1>9
  DEF DropsArtifact, NoRow, ArtifactTypeOK, Maker, ArtifactRow, RetentionInv, MadeOnce, HandIsSafe, RowHasFile,
      DoomedIsExpendable, Expendable, SessionStays, SessionInUse
<1>10. ASSUME NEW t \in TaskIds, SubmitTask(t)
      PROVE  RetentionInv'
  BY <1>10
  DEF SubmitTask, ArtifactTypeOK, Maker, ArtifactRow, RetentionInv, MadeOnce, HandIsSafe, RowHasFile,
      DoomedIsExpendable, Expendable, SessionStays, SessionInUse
<1>11. ASSUME NEW t \in TaskIds, TaskOver(t)
      PROVE  RetentionInv'
  BY <1>11
  DEF TaskOver, ArtifactTypeOK, Maker, ArtifactRow, RetentionInv, MadeOnce, HandIsSafe, RowHasFile,
      DoomedIsExpendable, Expendable, SessionStays, SessionInUse
<1>12. ASSUME NEW t \in TaskIds, TaskAges(t)
      PROVE  RetentionInv'
  BY <1>12
  DEF TaskAges, ArtifactTypeOK, Maker, ArtifactRow, RetentionInv, MadeOnce, HandIsSafe, RowHasFile,
      DoomedIsExpendable, Expendable, SessionStays, SessionInUse
<1>13. ASSUME NEW t \in TaskIds, DropsTask(t)
      PROVE  RetentionInv'
  <2>1. CASE taskRow[t].at = "over"
    <3>1. \A a \in ArtifactIds :
            /\ arow'[a].here = arow[a].here /\ arow'[a].old = arow[a].old
            /\ arow'[a].plan = arow[a].plan /\ arow'[a].step = arow[a].step
      BY <1>13, <2>1 DEF ArtifactTypeOK, ArtifactRow, DropsTask
    <3>2. \A u \in TaskIds : taskRow'[u].at # "none" => taskRow[u].at # "none"
      BY <1>13, <2>1 DEF ArtifactTypeOK, DropsTask
    <3>3. SessionStays'
      BY <1>13, <3>1, <3>2 DEF RetentionInv, SessionStays, SessionInUse, DropsTask
    <3>4. UNCHANGED <<maker, disk, planRow>> /\ collector' = [collector EXCEPT !.tasks = @ \ {t}]
      BY <1>13 DEF DropsTask
    <3>5. collector'.refs = collector.refs /\ collector'.doomed = collector.doomed /\ collector'.now = collector.now
      BY <3>4 DEF ArtifactTypeOK
    <3>6. \A a \in ArtifactIds : Expendable(a) => Expendable(a)'
      BY <3>1, <3>4 DEF Expendable
    <3> QED
      BY <3>1, <3>3, <3>4, <3>5, <3>6
      DEF ArtifactTypeOK, RetentionInv, RowHasFile, DoomedIsExpendable, MadeOnce, HandIsSafe
  <2>2. CASE taskRow[t].at # "over"
    BY <1>13, <2>2
    DEF ArtifactTypeOK, RetentionInv, RowHasFile, DoomedIsExpendable, SessionStays, SessionInUse, Expendable,
        MadeOnce, HandIsSafe, DropsTask
  <2> QED
    BY <2>1, <2>2
<1>14. ASSUME NEW p \in PlanIds, PlanOver(p)
      PROVE  RetentionInv'
  BY <1>14
  DEF PlanOver, ArtifactTypeOK, Maker, ArtifactRow, RetentionInv, MadeOnce, HandIsSafe, RowHasFile,
      DoomedIsExpendable, Expendable, SessionStays, SessionInUse
<1>15. ASSUME NEW p \in PlanIds, ClearPlan(p)
      PROVE  RetentionInv'
  <2>1. \A a \in ArtifactIds :
          /\ arow'[a].here = arow[a].here /\ arow'[a].old = arow[a].old
          /\ \/ arow'[a].plan = arow[a].plan /\ arow'[a].step = arow[a].step
             \/ arow'[a].plan = NoPlan /\ ~arow'[a].step
    <3> SUFFICES ASSUME NEW a \in ArtifactIds
                 PROVE  /\ arow'[a].here = arow[a].here /\ arow'[a].old = arow[a].old
                        /\ \/ arow'[a].plan = arow[a].plan /\ arow'[a].step = arow[a].step
                           \/ arow'[a].plan = NoPlan /\ ~arow'[a].step
      OBVIOUS
    <3>1. arow[a] \in ArtifactRow
      BY DEF ArtifactTypeOK
    <3>2. arow'[a] = IF arow[a].plan = p THEN [arow[a] EXCEPT !.plan = NoPlan, !.step = FALSE] ELSE arow[a]
      BY <1>15 DEF ClearPlan, Released
    <3> QED
      BY <3>1, <3>2 DEF ArtifactRow
  <2>2. UNCHANGED <<maker, disk, taskRow, collector>>
    BY <1>15 DEF ClearPlan
  <2>3. \A q \in PlanIds : planRow[q] \in {"archived", "gone"} => planRow'[q] \in {"archived", "gone"}
    BY <1>15 DEF ArtifactTypeOK, ClearPlan
  <2>4. \A a \in ArtifactIds : Expendable(a) => Expendable(a)'
    <3> SUFFICES ASSUME NEW a \in ArtifactIds, Expendable(a) PROVE Expendable(a)'
      OBVIOUS
    <3>1. arow[a].plan \in PlanIds \cup {NoPlan}
      BY DEF ArtifactTypeOK, ArtifactRow
    <3> QED
      BY <2>1, <2>3, <3>1 DEF Expendable
  <2>5. SessionStays'
    BY <1>15, <2>1, <2>2 DEF ArtifactTypeOK, RetentionInv, SessionStays, SessionInUse, ClearPlan
  <2> QED
    BY <2>1, <2>2, <2>3, <2>4, <2>5
    DEF ArtifactTypeOK, RetentionInv, RowHasFile, DoomedIsExpendable, MadeOnce, HandIsSafe
<1>16. CASE SessionAges
  BY <1>16
  DEF SessionAges, ArtifactTypeOK, Maker, ArtifactRow, RetentionInv, MadeOnce, HandIsSafe, RowHasFile,
      DoomedIsExpendable, Expendable, SessionStays, SessionInUse
<1>17. CASE CollectBegins
  BY <1>17
  DEF CollectBegins, IdleCollector, ArtifactTypeOK, Maker, ArtifactRow, RetentionInv, MadeOnce, HandIsSafe, RowHasFile,
      DoomedIsExpendable, Expendable, SessionStays, SessionInUse
<1>18. CASE CollectTasks
  BY <1>18
  DEF CollectTasks, ArtifactTypeOK, Maker, ArtifactRow, RetentionInv, MadeOnce, HandIsSafe, RowHasFile,
      DoomedIsExpendable, Expendable, SessionStays, SessionInUse
<1>19. CASE CollectLists
  BY <1>19
  DEF CollectLists, IsReferenced, ArtifactTypeOK, Maker, ArtifactRow, RetentionInv, MadeOnce, HandIsSafe, RowHasFile,
      DoomedIsExpendable, Expendable, SessionStays, SessionInUse
<1>20. CASE CollectEnds
  BY <1>20
  DEF CollectEnds, IdleCollector, ArtifactTypeOK, Maker, ArtifactRow, RetentionInv, MadeOnce, HandIsSafe, RowHasFile,
      DoomedIsExpendable, Expendable, SessionStays, SessionInUse
<1>21. CASE CollectFails
  BY <1>21
  DEF CollectFails, Fails, IdleCollector, ArtifactTypeOK, Maker, ArtifactRow, RetentionInv, MadeOnce, HandIsSafe, RowHasFile,
      DoomedIsExpendable, Expendable, SessionStays, SessionInUse
<1>22. CASE StoreRestarts
  BY <1>22
  DEF StoreRestarts, Fails, IdleCollector, ArtifactTypeOK, Maker, ArtifactRow, RetentionInv, MadeOnce, HandIsSafe, RowHasFile,
      DoomedIsExpendable, Expendable, SessionStays, SessionInUse
<1>23. CASE UNCHANGED artifactVars
  BY <1>23 DEF RetentionInv, MadeOnce, HandIsSafe, RowHasFile, DoomedIsExpendable, Expendable, SessionStays,
       SessionInUse, artifactVars
<1> QED
  BY <1>1, <1>2, <1>3, <1>4, <1>5, <1>6, <1>7, <1>8, <1>9, <1>10, <1>11, <1>12, <1>13,
     <1>14, <1>15, <1>16, <1>17, <1>18, <1>19, <1>20, <1>21, <1>22, <1>23 DEF
     ArtifactNext

LEMMA RetentionInductive == ArtifactSpec => [](ArtifactTypeOK /\ RetentionInv)
<1>1. ArtifactInit => ArtifactTypeOK /\ RetentionInv
  BY ArtifactTypesInit, RetentionInit
<1>2. ArtifactTypeOK /\ RetentionInv /\ [ArtifactNext]_artifactVars => (ArtifactTypeOK /\ RetentionInv)'
  BY ArtifactTypesStep, RetentionStep
<1> QED
  BY <1>1, <1>2, PTL DEF ArtifactSpec

\* A row has its file unless retention was free to delete it (ArtifactStore.delete,
\* ArtifactStore._finalize).
THEOREM RowHasFileAlways == ArtifactSpec => []RowHasFile
<1>1. RetentionInv => RowHasFile
  BY DEF RetentionInv
<1> QED
  BY <1>1, RetentionInductive, PTL

\* Retention has nothing in hand that a plan protects (RetentionManager.collect).
THEOREM DoomedIsExpendableAlways == ArtifactSpec => []DoomedIsExpendable
<1>1. RetentionInv => DoomedIsExpendable
  BY DEF RetentionInv
<1> QED
  BY <1>1, RetentionInductive, PTL

\* Rows keep the session row they refer to (RuntimeStore.delete_stale_sessions).
THEOREM SessionStaysAlways == ArtifactSpec => []SessionStays
<1>1. RetentionInv => SessionStays
  BY DEF RetentionInv
<1> QED
  BY <1>1, RetentionInductive, PTL
-----------------------------------------------------------------------------
LEMMA RowsGoStep ==
  ArtifactTypeOK /\ RetentionInv /\ [ArtifactNext]_artifactVars =>
    \A a \in ArtifactIds : arow[a].here /\ ~arow'[a].here => Expendable(a) /\ a \notin disk
<1> SUFFICES ASSUME ArtifactTypeOK, RetentionInv, [ArtifactNext]_artifactVars,
                    NEW a \in ArtifactIds, arow[a].here, ~arow'[a].here
             PROVE  Expendable(a) /\ a \notin disk
  OBVIOUS
<1>1. arow' # arow /\ arow[a] \in ArtifactRow
  BY DEF ArtifactTypeOK
<1>2. ASSUME NEW b \in ArtifactIds, Saves(b)
      PROVE  FALSE
  BY <1>1, <1>2 DEF ArtifactTypeOK, Saves
<1>3. ASSUME NEW b \in ArtifactIds, ArtifactAges(b)
      PROVE  FALSE
  BY <1>1, <1>3 DEF ArtifactTypeOK, ArtifactRow, ArtifactAges
<1>4. ASSUME NEW b \in ArtifactIds, DropsArtifact(b)
      PROVE  Expendable(a) /\ a \notin disk
  <2>1. b = a
    BY <1>1, <1>4 DEF ArtifactTypeOK, DropsArtifact
  <2> QED
    BY <1>4, <2>1 DEF DropsArtifact, RetentionInv, HandIsSafe, DoomedIsExpendable
<1>5. ASSUME NEW t \in TaskIds, DropsTask(t)
      PROVE  FALSE
  <2>1. arow'[a] = [arow[a] EXCEPT !.event = "none"] \/ arow'[a] = arow[a]
    BY <1>5 DEF DropsTask
  <2> QED
    BY <1>1, <2>1 DEF ArtifactRow
<1>6. ASSUME NEW p \in PlanIds, ClearPlan(p)
      PROVE  FALSE
  <2>1. arow'[a] = [arow[a] EXCEPT !.plan = NoPlan, !.step = FALSE] \/ arow'[a] = arow[a]
    BY <1>6 DEF ClearPlan, Released
  <2> QED
    BY <1>1, <2>1 DEF ArtifactRow
<1> QED
  BY <1>1, <1>2, <1>3, <1>4, <1>5, <1>6
  DEF ArtifactNext, artifactVars, MakeBegins, SourceGrows, Places, PlaceFails, SaveFails, Unlinks, SubmitTask, TaskOver,
      TaskAges, PlanOver, SessionAges, CollectBegins, CollectTasks, CollectLists, CollectEnds, CollectFails, StoreRestarts

\* Only retention takes a row away, one it may have, after its file (ArtifactStore.delete).
THEOREM RowsGoByRetentionAlways == ArtifactSpec => RowsGoByRetention
BY RetentionInductive, RowsGoStep, PTL DEF ArtifactSpec, RowsGoByRetention
-----------------------------------------------------------------------------
(* Composition: a behaviour of the gateway is one of each part.               *)

LEMMA OnePartMoves ==
  ASSUME [Next]_gatewayVars
  PROVE  /\ [PoolNext]_poolVars /\ [WsNext]_wsVars /\ [SchedNext]_schedVars /\ [InteractNext]_interactVars
         /\ [DeliveryNext]_deliveryVars /\ [ImportNext]_importVars /\ [ArtifactNext]_artifactVars
<1>1. [PoolNext]_poolVars
  BY DEF Next, Rest, gatewayVars
<1>2. [WsNext]_wsVars
  BY DEF Next, Rest, gatewayVars
<1>3. [SchedNext]_schedVars
  BY DEF Next, Rest, gatewayVars
<1>4. [InteractNext]_interactVars
  BY DEF Next, Rest, gatewayVars
<1>5. [DeliveryNext]_deliveryVars
  BY DEF Next, Rest, gatewayVars
<1>6. [ImportNext]_importVars
  BY DEF Next, Rest, gatewayVars
<1>7. [ArtifactNext]_artifactVars
  BY DEF Next, Rest, gatewayVars
<1> QED
  BY <1>1, <1>2, <1>3, <1>4, <1>5, <1>6, <1>7

LEMMA PartsOfTheGateway ==
  Spec => PoolSpec /\ WsSpec /\ SchedSpec /\ InteractSpec /\ DeliverySpec /\ ImportSpec /\ ArtifactSpec
<1>1. Init => PoolInit /\ WsInit /\ SchedInit /\ InteractInit /\ DeliveryInit /\ ImportInit /\ ArtifactInit
  BY DEF Init
<1>2. [Next]_gatewayVars => /\ [PoolNext]_poolVars /\ [WsNext]_wsVars /\ [SchedNext]_schedVars
                            /\ [InteractNext]_interactVars /\ [DeliveryNext]_deliveryVars
                            /\ [ImportNext]_importVars /\ [ArtifactNext]_artifactVars
  BY OnePartMoves
<1> QED
  BY <1>1, <1>2, PTL DEF Spec, PoolSpec, WsSpec, SchedSpec, InteractSpec, DeliverySpec, ImportSpec, ArtifactSpec

\* Outside the races of the session pool, a session is served by one execution at a time, with
\* the resources it began with and the configuration its user chose; rows of workspaces are
\* held by one request and fresh snapshots are current.
THEOREM SessionsAreServedAlways == ASSUME Races = {} PROVE Spec => []SessionsAreServed
<1>1. OneDriverPerAgent /\ OneRunPerKey /\ SwitchTakesEffect /\ RunKeepsResources
      /\ ClosedHasNoActive /\ BusyHasOneHolder /\ FreshSnapshotIsCurrent => SessionsAreServed
  BY DEF SessionsAreServed
<1> QED
  BY <1>1, PartsOfTheGateway, OneDriverAlways, OneRunAlways, SwitchAlways, ResourcesAlways,
     ClosedAlways, BusyHasOneHolderAlways, FreshSnapshotAlways, PTL

\* Who asks gets the answer, once, in every part but the browser, whose folds over events are
\* left to the model checker: cron replies and marks, decisions, and messages of channels,
\* when no run outlives its watchdog, no instance leads again and no turn of a channel
\* outlives its time-out.
THEOREM AnswersArriveOutsideBrowser ==
  ASSUME PunctualRuns, ~LeaderReturns, Timeouts = FALSE
  PROVE  Spec => [](part # "browser" => AnswersArrive)
<1>1. /\ MarksArePending /\ AnswersAreOwn /\ SlotFiredOnce /\ AcceptedReachesTool /\ AllowedWasAnswered
      /\ EnqueuedOnce /\ AnswerStandsAlone
      => (part # "browser" => AnswersArrive)
  BY DEF AnswersArrive
<1> QED
  BY <1>1, PartsOfTheGateway, MarksArePendingAlways, AnswersAreOwnAlways, SlotFiredOnceAlways,
     AcceptedReachesToolAlways, AllowedWasAnsweredAlways, EnqueuedOnceAlways, AnswerStandsAloneAlways, PTL

\* What is stored survives imports and retention; the schema's migrations fold over their
\* steps and are left to the model checker.
THEOREM StoredIsKeptOutsideSchema == Spec => [](part # "schema" => StoredIsKept)
<1>1. ImportedOnce /\ RowHasFile /\ DoomedIsExpendable /\ SessionStays => (part # "schema" => StoredIsKept)
  BY DEF StoredIsKept
<1> QED
  BY <1>1, PartsOfTheGateway, ImportedOnceAlways, RowHasFileAlways, DoomedIsExpendableAlways, SessionStaysAlways, PTL

\* The variables of every other part have their types.
THEOREM GatewayTypesAlways == Spec => [](part \notin {"browser", "schema"} => GatewayTypeOK)
<1>1. PoolTypeOK /\ WsTypeOK /\ SchedTypeOK /\ InteractTypeOK /\ DeliveryTypeOK /\ ImportTypeOK /\ ArtifactTypeOK
      => (part \notin {"browser", "schema"} => GatewayTypeOK)
  BY DEF GatewayTypeOK
<1> QED
  BY <1>1, PartsOfTheGateway, PoolTypesAlways, WsTypesAlways, SchedTypesAlways, InteractTypesAlways,
     DeliveryTypesAlways, ImportTypesAlways, ArtifactTypesAlways, PTL
=============================================================================
