---------------------------- MODULE OutboxProofs -----------------------------
(***************************************************************************)
(* Proofs about Outbox, for any number of instances, events and faults and *)
(* any batch size, backlog limit and number of attempts.                   *)
(*                                                                         *)
(* That an event is repeated only after its mark was lost rests on who may *)
(* send a row.  While the row is young that is the process that committed  *)
(* it, once.  When it is old it is the publisher that has it listed, and a *)
(* row is listed by one publisher at a time: the claim is its own and the  *)
(* lease holds until its round is over (ListIsLeased).  A row is listed    *)
(* while it is unpublished, so every earlier sending of it went without a  *)
(* mark (OldIsExcused), and that stays true of a listed row when somebody  *)
(* else marks it meanwhile (ListedIsExcused).                              *)
(***************************************************************************)
EXTENDS Outbox, TLAPS

\* The row instance i has sent and not yet marked.
Marking(i, e) == pc[i] = "mark" /\ First(i, e)

\* An event nobody has committed yet has no row and no trace.
FutureIsBlank ==
    \A e \in Events : e > last =>
        /\ status[e] = "none" /\ sent[e] = 0 /\ e \notin aged
        /\ \A i \in Instances : e \notin emitting[i] /\ e \notin unmarked[i]

\* What _emit has not reached is young, unsent and in one process's hands.
EmittingIsFresh ==
    \A i \in Instances : \A e \in emitting[i] :
        /\ sent[e] = 0 /\ e \notin aged
        /\ \A j \in Instances : e \in emitting[j] => j = i

\* A young row is nobody's; the real-time path sent it once at most, and its mark is on
\* the way, done, or counted as lost.
YoungIsUnclaimed ==
    \A e \in Events : e \notin aged =>
        /\ claim[e] = "nobody" /\ sent[e] <= 1
        /\ sent[e] = 1 /\ status[e] = "unpublished" =>
             excuse[e] > 0 \/ \E i \in Instances : e \in unmarked[i]

\* A publisher's list belongs to it, under a lease; before it is read the lease holds too.
ListIsLeased ==
    \A i \in Instances :
        /\ pc[i] \in {"idle", "list"} => batch[i] = {}
        /\ \A e \in batch[i] : claim[e] = i /\ e \in leased
        /\ pc[i] = "list" => \A e \in Events : claim[e] = i /\ status[e] = "unpublished" => e \in leased

\* The mark of every earlier sending of an old row was lost, unless it is being written.
OldIsExcused ==
    \A e \in Events : e \in aged /\ status[e] = "unpublished" =>
        sent[e] <= excuse[e] \/ \E i \in Instances : Marking(i, e)

\* So it is of a row that is listed, also when somebody marks it meanwhile.
ListedIsExcused ==
    \A i \in Instances : \A e \in batch[i] : sent[e] <= excuse[e] \/ Marking(i, e)

OutboxInv == /\ FutureIsBlank /\ EmittingIsFresh /\ YoungIsUnclaimed /\ ListIsLeased
             /\ OldIsExcused /\ ListedIsExcused /\ RepeatsAreExcused
-----------------------------------------------------------------------------
LEMMA FaultsCounted == ASSUME TypeOK, Fault PROVE faults' \in 0..MaxFaults
BY OutboxAssumption DEF TypeOK, Fault

LEMMA SentCounted == ASSUME TypeOK, NEW e \in Events, Sent(e) PROVE sent' \in [Events -> Nat]
BY DEF TypeOK, Sent

LEMMA MarksType ==
    ASSUME TypeOK, NEW S, MarkPublished(S)
    PROVE  status' \in [Events -> {"none", "unpublished", "published", "deleted"}]
BY DEF TypeOK, MarkPublished

LEMMA OutboxTypesInit == Init => TypeOK
BY OutboxAssumption DEF Init, TypeOK

LEMMA OutboxTypesStep == TypeOK /\ [Next]_vars => TypeOK'
<1> SUFFICES ASSUME TypeOK, [Next]_vars PROVE TypeOK'
  OBVIOUS
<1>1. ASSUME NEW i \in Instances, Commit(i)
      PROVE  TypeOK'
  <2>1. last + 1 \in Events /\ last' \in 0..MaxEvents
    BY <1>1, OutboxAssumption DEF TypeOK, Commit, Events
  <2>2. conv' \in [Events -> Convs]
    BY <1>1 DEF TypeOK, Commit
  <2>3. status' \in [Events -> {"none", "unpublished", "published", "deleted"}]
    BY <1>1 DEF TypeOK, Commit
  <2>4. emitting' \in [Instances -> SUBSET Events]
    BY <1>1, <2>1 DEF TypeOK, Commit
  <2> QED
    BY <1>1, <2>1, <2>2, <2>3, <2>4 DEF TypeOK, Commit
<1>2. ASSUME NEW i \in Instances, Emit(i)
      PROVE  TypeOK'
  <2>1. PICK e \in emitting[i] :
          /\ emitting' = [emitting EXCEPT ![i] = @ \ {e}]
          /\ \/ /\ Sent(e)
                /\ unmarked' = [unmarked EXCEPT ![i] = @ \cup {e}]
                /\ UNCHANGED faults
             \/ Fault /\ UNCHANGED <<sent, unmarked>>
    BY <1>2 DEF Emit
  <2>2. e \in Events
    BY DEF TypeOK
  <2>3. UNCHANGED <<rows, attempts, pc, batch, resent, excuse>>
    BY <1>2 DEF Emit
  <2>4. emitting' \in [Instances -> SUBSET Events]
    BY <2>1 DEF TypeOK
  <2>5. CASE Sent(e) /\ unmarked' = [unmarked EXCEPT ![i] = @ \cup {e}] /\ UNCHANGED faults
    <3>1. sent' \in [Events -> Nat]
      BY <2>2, <2>5, SentCounted
    <3>2. unmarked' \in [Instances -> SUBSET Events]
      BY <2>2, <2>5 DEF TypeOK
    <3> QED
      BY <2>3, <2>4, <2>5, <3>1, <3>2 DEF TypeOK, rows
  <2>6. CASE Fault /\ UNCHANGED <<sent, unmarked>>
    BY <2>3, <2>4, <2>6, FaultsCounted DEF TypeOK, rows
  <2> QED
    BY <2>1, <2>5, <2>6
<1>3. ASSUME NEW i \in Instances, FlushPublished(i)
      PROVE  TypeOK'
  <2>1. CASE MarkPublished(unmarked[i]) /\ unmarked' = [unmarked EXCEPT ![i] = {}] /\ UNCHANGED <<faults, excuse>>
    BY <1>3, <2>1, MarksType DEF TypeOK, FlushPublished
  <2>2. CASE /\ Fault
             /\ excuse' = [e \in Events |-> IF e \in unmarked[i] THEN excuse[e] + 1 ELSE excuse[e]]
             /\ UNCHANGED <<status, unmarked>>
    <3>1. excuse' \in [Events -> Nat]
      BY <2>2 DEF TypeOK
    <3> QED
      BY <1>3, <2>2, <3>1, FaultsCounted DEF TypeOK, FlushPublished
  <2> QED
    BY <1>3, <2>1, <2>2 DEF FlushPublished
<1>4. ASSUME NEW i \in Instances, ClaimUnpublished(i)
      PROVE  TypeOK'
  BY <1>4 DEF TypeOK, ClaimUnpublished, Claimable, Unpublished
<1>5. ASSUME NEW i \in Instances, ListClaimed(i)
      PROVE  TypeOK'
  BY <1>5 DEF TypeOK, ListClaimed, Oldest, Listed, Unpublished, rows
<1>6. ASSUME NEW i \in Instances, Republish(i)
      PROVE  TypeOK'
  <2>1. PICK e \in Events :
          /\ First(i, e)
          /\ Sent(e)
          /\ resent' = IF \E k \in DOMAIN resent : resent[k] = e THEN resent ELSE Append(resent, e)
          /\ attempts' = [attempts EXCEPT ![i][e] = 0]
    BY <1>6 DEF Republish
  <2>2. sent' \in [Events -> Nat]
    BY <2>1, SentCounted
  <2>3. resent' \in Seq(Events)
    BY <2>1 DEF TypeOK
  <2>4. attempts' \in [Instances -> [Events -> 0..(MaxAttempts - 1)]]
    BY <2>1, OutboxAssumption DEF TypeOK
  <2>5. batch[i] # {}
    BY <2>1 DEF First
  <2>6. pc' \in [Instances -> {"idle", "list", "send", "mark"}] /\ \A j \in Instances : pc'[j] = "mark" => batch[j] # {}
    BY <1>6, <2>5 DEF TypeOK, Republish
  <2> QED
    BY <1>6, <2>2, <2>3, <2>4, <2>6 DEF TypeOK, Republish, rows
<1>7. ASSUME NEW i \in Instances, MarkOne(i)
      PROVE  TypeOK'
  <2>1. PICK e \in Events :
          /\ First(i, e)
          /\ \/ MarkPublished({e}) /\ UNCHANGED <<faults, excuse>>
             \/ Fault /\ excuse' = [excuse EXCEPT ![e] = @ + 1] /\ UNCHANGED status
          /\ batch' = [batch EXCEPT ![i] = @ \ {e}]
    BY <1>7 DEF MarkOne
  <2>2. batch' \in [Instances -> SUBSET Events] /\ pc' \in [Instances -> {"idle", "list", "send", "mark"}]
    BY <1>7, <2>1 DEF TypeOK, MarkOne
  <2>3. \A j \in Instances : pc'[j] = "mark" => batch'[j] # {}
    BY <1>7, <2>1 DEF TypeOK, MarkOne
  <2>4. CASE MarkPublished({e}) /\ UNCHANGED <<faults, excuse>>
    BY <1>7, <2>2, <2>3, <2>4, MarksType DEF TypeOK, MarkOne
  <2>5. CASE Fault /\ excuse' = [excuse EXCEPT ![e] = @ + 1] /\ UNCHANGED status
    <3>1. excuse' \in [Events -> Nat]
      BY <2>5 DEF TypeOK
    <3> QED
      BY <1>7, <2>2, <2>3, <2>5, <3>1, FaultsCounted DEF TypeOK, MarkOne
  <2> QED
    BY <2>1, <2>4, <2>5
<1>8. ASSUME NEW i \in Instances, RepublishFails(i)
      PROVE  TypeOK'
  <2>1. PICK e \in Events :
          /\ First(i, e)
          /\ batch' = [batch EXCEPT ![i] = @ \ {e}]
          /\ IF GiveUp(attempts[i][e] + 1)
             THEN /\ attempts' = [attempts EXCEPT ![i][e] = 0]
                  /\ MarkDeadLetter(e) \/ UNCHANGED <<claim, leased>>
             ELSE /\ attempts' = [attempts EXCEPT ![i][e] = attempts[i][e] + 1]
                  /\ UNCHANGED <<claim, leased>>
    BY <1>8 DEF RepublishFails
  <2>2. batch' \in [Instances -> SUBSET Events] /\ \A j \in Instances : pc'[j] = "mark" => batch'[j] # {}
    BY <1>8, <2>1 DEF TypeOK, RepublishFails
  <2>3. attempts[i][e] \in 0..(MaxAttempts - 1)
    BY DEF TypeOK
  <2>4. attempts' \in [Instances -> [Events -> 0..(MaxAttempts - 1)]]
    <3>1. CASE GiveUp(attempts[i][e] + 1)
      <4>1. attempts' = [attempts EXCEPT ![i][e] = 0]
        BY <2>1, <3>1
      <4> QED
        BY <4>1, OutboxAssumption DEF TypeOK
    <3>2. CASE ~GiveUp(attempts[i][e] + 1)
      <4>1. attempts[i][e] + 1 \in 0..(MaxAttempts - 1)
        BY <2>3, <3>2, OutboxAssumption DEF GiveUp
      <4>2. attempts' = [attempts EXCEPT ![i][e] = attempts[i][e] + 1]
        BY <2>1, <3>2
      <4> QED
        BY <4>1, <4>2 DEF TypeOK
    <3> QED
      BY <3>1, <3>2
  <2>5. claim' \in [Events -> Instances \cup {"nobody", "gone", "dead_letter"}] /\ leased' \subseteq Events
    BY <2>1 DEF TypeOK, MarkDeadLetter
  <2> QED
    BY <1>8, <2>2, <2>4, <2>5, FaultsCounted DEF TypeOK, RepublishFails
<1>9. ASSUME NEW i \in Instances, RoundEnds(i)
      PROVE  TypeOK'
  BY <1>9 DEF TypeOK, RoundEnds, rows
<1>10. ASSUME NEW i \in Instances, Crash(i)
       PROVE  TypeOK'
  <2>1. claim' \in [Events -> Instances \cup {"nobody", "gone", "dead_letter"}]
    BY <1>10 DEF TypeOK, Crash
  <2>2. attempts' \in [Instances -> [Events -> 0..(MaxAttempts - 1)]]
    BY <1>10, OutboxAssumption DEF TypeOK, Crash
  <2>3. excuse' \in [Events -> Nat]
    BY <1>10 DEF TypeOK, Crash
  <2>4. /\ emitting' \in [Instances -> SUBSET Events] /\ unmarked' \in [Instances -> SUBSET Events]
        /\ batch' \in [Instances -> SUBSET Events] /\ pc' \in [Instances -> {"idle", "list", "send", "mark"}]
    BY <1>10 DEF TypeOK, Crash
  <2>5. \A j \in Instances : pc'[j] = "mark" => batch'[j] # {}
    BY <1>10 DEF TypeOK, Crash
  <2>6. faults' \in 0..MaxFaults
    BY <1>10, FaultsCounted DEF Crash
  <2> QED
    BY <1>10, <2>1, <2>2, <2>3, <2>4, <2>5, <2>6 DEF TypeOK, Crash
<1>11. ASSUME NEW e \in Events, Age(e)
       PROVE  TypeOK'
  BY <1>11 DEF TypeOK, Age, memory
<1>12. ASSUME NEW e \in Events, LeaseExpires(e)
       PROVE  TypeOK'
  BY <1>12 DEF TypeOK, LeaseExpires, memory
<1>13. ASSUME NEW e \in Events, CleanupOutbox(e)
       PROVE  TypeOK'
  BY <1>13 DEF TypeOK, CleanupOutbox, memory
<1>14. CASE UNCHANGED vars
  BY <1>14 DEF TypeOK, vars, rows, memory
<1> QED
  BY <1>1, <1>2, <1>3, <1>4, <1>5, <1>6, <1>7, <1>8, <1>9, <1>10, <1>11, <1>12, <1>13, <1>14
  DEF Next, Works, Publishes

\* The rows and what the instances keep have their types; an unfinished mark has its row.
THEOREM OutboxTypesAlways == Spec => []TypeOK
BY OutboxTypesInit, OutboxTypesStep, PTL DEF Spec
-----------------------------------------------------------------------------
(* Facts the actions share.                                                *)

\* A publisher that neither moves nor changes its list marks what it marked.
LEMMA MarkingStays ==
    ASSUME NEW i \in Instances, pc'[i] = pc[i], batch'[i] = batch[i], NEW e \in Events
    PROVE  Marking(i, e)' <=> Marking(i, e)
BY DEF Marking, First

LEMMA MarkingIsOne ==
    ASSUME TypeOK, NEW i \in Instances, NEW d \in Events, NEW e \in Events, First(i, d), First(i, e)
    PROVE  d = e
BY DEF First, TypeOK, Events

\* A listed row is in one list, claimed, old, and in nobody's real-time path.
LEMMA ListedIsOwn ==
    ASSUME TypeOK, OutboxInv, NEW i \in Instances, NEW e \in batch[i]
    PROVE  /\ e \in Events /\ e \in aged /\ claim[e] = i /\ e \in leased /\ e <= last
           /\ \A j \in Instances : e \in batch[j] => j = i
           /\ \A j \in Instances : e \notin emitting[j]
<1>1. e \in Events /\ claim[e] = i /\ e \in leased
  BY DEF TypeOK, OutboxInv, ListIsLeased
<1>2. e \in aged
  BY <1>1, OutboxAssumption DEF OutboxInv, YoungIsUnclaimed
<1>3. e <= last
  BY <1>1, <1>2 DEF TypeOK, Events, OutboxInv, FutureIsBlank
<1>4. \A j \in Instances : e \in batch[j] => j = i
  BY <1>1 DEF OutboxInv, ListIsLeased
<1>5. \A j \in Instances : e \notin emitting[j]
  BY <1>2 DEF OutboxInv, EmittingIsFresh
<1> QED
  BY <1>1, <1>2, <1>3, <1>4, <1>5

LEMMA OutboxInvInit == Init => OutboxInv
BY OutboxAssumption
DEF Init, OutboxInv, FutureIsBlank, EmittingIsFresh, YoungIsUnclaimed, ListIsLeased, OldIsExcused, ListedIsExcused,
    RepeatsAreExcused, Events

-----------------------------------------------------------------------------
(* One lemma per action.                                                   *)

LEMMA CommitKeeps == ASSUME TypeOK, OutboxInv, NEW i \in Instances, Commit(i) PROVE OutboxInv'
<1> DEFINE n == last + 1
<1>1. n \in Events /\ n > last /\ last' = n
  BY OutboxAssumption DEF TypeOK, Commit, Events
<1>2. /\ status' = [status EXCEPT ![n] = "unpublished"] /\ emitting' = [emitting EXCEPT ![i] = @ \cup {n}]
      /\ UNCHANGED <<claim, leased, aged, unmarked, pc, batch, sent, excuse>>
  BY DEF Commit
<1>3. /\ status[n] = "none" /\ sent[n] = 0 /\ n \notin aged
      /\ \A j \in Instances : n \notin emitting[j] /\ n \notin unmarked[j]
  BY <1>1 DEF OutboxInv, FutureIsBlank
<1> HIDE DEF n
<1>4. FutureIsBlank'
  BY <1>1, <1>2 DEF TypeOK, Events, OutboxInv, FutureIsBlank
<1>5. EmittingIsFresh'
  BY <1>2, <1>3 DEF TypeOK, OutboxInv, EmittingIsFresh
<1>6. YoungIsUnclaimed'
  BY <1>2, <1>3 DEF TypeOK, OutboxInv, YoungIsUnclaimed
<1>7. n \notin batch[i] /\ \A j \in Instances : n \notin batch[j]
  BY <1>3, ListedIsOwn
<1>8. claim[n] = "nobody"
  BY <1>1, <1>3 DEF OutboxInv, YoungIsUnclaimed
<1>9. ListIsLeased'
  BY <1>1, <1>2, <1>8, OutboxAssumption DEF TypeOK, OutboxInv, ListIsLeased
<1>10. OldIsExcused'
  BY <1>2, <1>3, MarkingStays DEF TypeOK, OutboxInv, OldIsExcused
<1>11. ListedIsExcused'
  BY <1>2, MarkingStays DEF TypeOK, OutboxInv, ListedIsExcused
<1>12. RepeatsAreExcused'
  BY <1>2 DEF OutboxInv, RepeatsAreExcused
<1> QED
  BY <1>4, <1>5, <1>6, <1>9, <1>10, <1>11, <1>12 DEF OutboxInv

LEMMA EmitKeeps == ASSUME TypeOK, OutboxInv, NEW i \in Instances, Emit(i) PROVE OutboxInv'
<1>1. PICK e \in emitting[i] :
        /\ emitting' = [emitting EXCEPT ![i] = @ \ {e}]
        /\ \/ /\ sent' = [sent EXCEPT ![e] = @ + 1]
              /\ unmarked' = [unmarked EXCEPT ![i] = @ \cup {e}]
           \/ UNCHANGED <<sent, unmarked>>
  BY DEF Emit, Sent
<1>2. UNCHANGED <<last, status, claim, leased, aged, pc, batch, excuse>>
  BY DEF Emit, rows
<1>3. /\ e \in Events /\ sent[e] = 0 /\ e \notin aged /\ e <= last
      /\ \A j \in Instances : e \in emitting[j] => j = i
  BY DEF TypeOK, Events, OutboxInv, EmittingIsFresh, FutureIsBlank
<1>4. \A j \in Instances : e \notin batch[j]
  BY <1>3, ListedIsOwn
<1>5. \A d \in Events : d # e => sent'[d] = sent[d]
  BY <1>1 DEF TypeOK
<1>6. sent'[e] \in {0, 1} /\ (sent'[e] = 1 => e \in unmarked'[i])
  BY <1>1, <1>3 DEF TypeOK
<1>7. \A j \in Instances : emitting'[j] \subseteq emitting[j] /\ e \notin emitting'[j]
  BY <1>1, <1>3 DEF TypeOK
<1>8. \A j \in Instances : unmarked[j] \subseteq unmarked'[j] /\ unmarked'[j] \subseteq unmarked[j] \cup {e}
  <2>1. CASE unmarked' = [unmarked EXCEPT ![i] = @ \cup {e}]
    BY <2>1 DEF TypeOK
  <2>2. CASE UNCHANGED unmarked
    BY <2>2
  <2> QED
    BY <1>1, <2>1, <2>2
<1>9. FutureIsBlank'
  BY <1>2, <1>3, <1>5, <1>7, <1>8 DEF TypeOK, Events, OutboxInv, FutureIsBlank
<1>10. EmittingIsFresh'
  BY <1>2, <1>5, <1>7 DEF TypeOK, OutboxInv, EmittingIsFresh
<1>11. YoungIsUnclaimed'
  <2> SUFFICES ASSUME NEW d \in Events, d \notin aged
               PROVE  /\ claim[d] = "nobody" /\ sent'[d] <= 1
                      /\ sent'[d] = 1 /\ status[d] = "unpublished" =>
                           excuse[d] > 0 \/ \E j \in Instances : d \in unmarked'[j]
    BY <1>2 DEF YoungIsUnclaimed
  <2>1. CASE d = e
    BY <1>6, <2>1 DEF OutboxInv, YoungIsUnclaimed
  <2>2. CASE d # e
    BY <1>5, <1>8, <2>2 DEF OutboxInv, YoungIsUnclaimed
  <2> QED
    BY <2>1, <2>2
<1>12. ListIsLeased'
  BY <1>2 DEF OutboxInv, ListIsLeased
<1>13. OldIsExcused'
  BY <1>2, <1>3, <1>5, MarkingStays DEF OutboxInv, OldIsExcused
<1>14. ListedIsExcused'
  BY <1>2, <1>4, <1>5, MarkingStays DEF TypeOK, OutboxInv, ListedIsExcused
<1>15. RepeatsAreExcused'
  <2> SUFFICES ASSUME NEW d \in Events PROVE sent'[d] <= 1 + excuse[d]
    BY <1>2 DEF RepeatsAreExcused
  <2>1. excuse[d] \in Nat /\ sent[d] <= 1 + excuse[d]
    BY DEF TypeOK, OutboxInv, RepeatsAreExcused
  <2> QED
    BY <1>5, <1>6, <2>1
<1> QED
  BY <1>9, <1>10, <1>11, <1>12, <1>13, <1>14, <1>15 DEF OutboxInv

LEMMA FlushKeeps == ASSUME TypeOK, OutboxInv, NEW i \in Instances, FlushPublished(i) PROVE OutboxInv'
<1>1. UNCHANGED <<last, claim, leased, aged, emitting, pc, batch, sent>>
  BY DEF FlushPublished
<1>2. \A e \in Events :
        /\ status'[e] = status[e] \/ (status[e] = "unpublished" /\ status'[e] = "published")
        /\ excuse'[e] \in Nat /\ excuse'[e] >= excuse[e]
        /\ \A j \in Instances : e \in unmarked[j] =>
             e \in unmarked'[j] \/ status'[e] # "unpublished" \/ excuse'[e] > 0
        /\ \A j \in Instances : unmarked'[j] \subseteq unmarked[j]
  <2>1. CASE MarkPublished(unmarked[i]) /\ unmarked' = [unmarked EXCEPT ![i] = {}] /\ UNCHANGED <<faults, excuse>>
    BY <2>1 DEF TypeOK, MarkPublished
  <2>2. CASE /\ Fault
             /\ excuse' = [e \in Events |-> IF e \in unmarked[i] THEN excuse[e] + 1 ELSE excuse[e]]
             /\ UNCHANGED <<status, unmarked>>
    BY <2>2 DEF TypeOK
  <2> QED
    BY <2>1, <2>2 DEF FlushPublished
<1>3. FutureIsBlank'
  BY <1>1, <1>2 DEF OutboxInv, FutureIsBlank
<1>4. EmittingIsFresh'
  BY <1>1 DEF OutboxInv, EmittingIsFresh
<1>5. YoungIsUnclaimed'
  <2> SUFFICES ASSUME NEW d \in Events, d \notin aged
               PROVE  /\ claim[d] = "nobody" /\ sent[d] <= 1
                      /\ sent[d] = 1 /\ status'[d] = "unpublished" =>
                           excuse'[d] > 0 \/ \E j \in Instances : d \in unmarked'[j]
    BY <1>1 DEF YoungIsUnclaimed
  <2>1. claim[d] = "nobody" /\ sent[d] <= 1
    BY DEF OutboxInv, YoungIsUnclaimed
  <2>2. ASSUME sent[d] = 1, status'[d] = "unpublished"
        PROVE  excuse'[d] > 0 \/ \E j \in Instances : d \in unmarked'[j]
    <3>1. status[d] = "unpublished"
      BY <1>2, <2>2
    <3>2. excuse[d] > 0 \/ \E j \in Instances : d \in unmarked[j]
      BY <2>2, <3>1 DEF OutboxInv, YoungIsUnclaimed
    <3> QED
      BY <1>2, <2>2, <3>2 DEF TypeOK
  <2> QED
    BY <2>1, <2>2
<1>6. ListIsLeased'
  BY <1>1, <1>2 DEF OutboxInv, ListIsLeased
<1>7. OldIsExcused'
  <2> SUFFICES ASSUME NEW d \in Events, d \in aged, status'[d] = "unpublished", ~(sent[d] <= excuse'[d])
               PROVE  \E j \in Instances : Marking(j, d)'
    BY <1>1 DEF OldIsExcused
  <2>1. status[d] = "unpublished" /\ ~(sent[d] <= excuse[d])
    BY <1>2 DEF TypeOK
  <2>2. PICK j \in Instances : Marking(j, d)
    BY <2>1 DEF OutboxInv, OldIsExcused
  <2> QED
    BY <1>1, <2>2, MarkingStays
<1>8. ListedIsExcused'
  BY <1>1, <1>2, MarkingStays DEF TypeOK, OutboxInv, ListedIsExcused
<1>9. RepeatsAreExcused'
  BY <1>1, <1>2 DEF TypeOK, OutboxInv, RepeatsAreExcused
<1> QED
  BY <1>3, <1>4, <1>5, <1>6, <1>7, <1>8, <1>9 DEF OutboxInv

LEMMA ClaimKeeps == ASSUME TypeOK, OutboxInv, NEW i \in Instances, ClaimUnpublished(i) PROVE OutboxInv'
<1> DEFINE mine == Claimable(Unpublished \ Trimmed)
<1>1. /\ pc[i] = "idle" /\ pc' = [pc EXCEPT ![i] = "list"]
      /\ status' = [e \in Events |-> IF e \in Trimmed THEN "deleted" ELSE status[e]]
      /\ claim' = [e \in Events |-> IF e \in mine THEN i ELSE claim[e]]
      /\ leased' = leased \cup mine
      /\ UNCHANGED <<last, aged, emitting, unmarked, batch, sent, excuse>>
  BY DEF ClaimUnpublished
<1>2. \A e \in mine : e \in Events /\ e \in aged /\ (claim[e] = "nobody" \/ e \notin leased)
  BY DEF Claimable, Unpublished
<1>3. \A e \in Events : status'[e] = "unpublished" /\ e \in aged /\ claim[e] = i /\ e \notin leased => e \in mine
  BY <1>1, OutboxAssumption DEF Claimable, Unpublished
<1>4. \A e \in Trimmed : e \in Events /\ status[e] = "unpublished"
  BY DEF Trimmed, Oldest, Unpublished
<1>5. \A e \in Events : status'[e] = status[e] \/ (status[e] = "unpublished" /\ status'[e] = "deleted")
  BY <1>1, <1>4
<1> HIDE DEF mine
<1>6. \A j \in Instances : \A e \in batch[j] : e \notin mine
  BY <1>2, ListedIsOwn, OutboxAssumption
<1>7. FutureIsBlank'
  BY <1>1, <1>5 DEF OutboxInv, FutureIsBlank
<1>8. EmittingIsFresh'
  BY <1>1 DEF OutboxInv, EmittingIsFresh
<1>9. YoungIsUnclaimed'
  BY <1>1, <1>2, <1>5 DEF OutboxInv, YoungIsUnclaimed
<1>10. \A j \in Instances : pc'[j] \in {"idle", "list"} => batch[j] = {}
  BY <1>1 DEF TypeOK, OutboxInv, ListIsLeased
<1>11. \A j \in Instances : \A e \in batch[j] : claim'[e] = j /\ e \in leased'
  BY <1>1, <1>6, ListedIsOwn
<1>12. ASSUME NEW j \in Instances, pc'[j] = "list", NEW e \in Events, claim'[e] = j, status'[e] = "unpublished"
       PROVE  e \in leased'
  <2>1. CASE e \in mine
    BY <1>1, <2>1
  <2>2. CASE e \notin mine
    <3>1. claim[e] = j /\ status[e] = "unpublished" /\ e \in aged
      BY <1>1, <1>5, <1>12, <2>2, OutboxAssumption DEF OutboxInv, YoungIsUnclaimed
    <3>2. CASE j = i
      BY <1>1, <1>3, <1>12, <2>2, <3>1, <3>2
    <3>3. CASE j # i
      BY <1>1, <1>12, <3>1, <3>3 DEF TypeOK, OutboxInv, ListIsLeased
    <3> QED
      BY <3>2, <3>3
  <2> QED
    BY <2>1, <2>2
<1>13. ListIsLeased'
  BY <1>1, <1>10, <1>11, <1>12 DEF ListIsLeased
<1>14. \A j \in Instances, e \in Events : Marking(j, e) => Marking(j, e)'
  BY <1>1 DEF TypeOK, Marking, First
<1>15. OldIsExcused'
  BY <1>1, <1>5, <1>14 DEF OutboxInv, OldIsExcused
<1>16. ListedIsExcused'
  BY <1>1, <1>14 DEF TypeOK, OutboxInv, ListedIsExcused
<1>17. RepeatsAreExcused'
  BY <1>1 DEF OutboxInv, RepeatsAreExcused
<1> QED
  BY <1>7, <1>8, <1>9, <1>13, <1>15, <1>16, <1>17 DEF OutboxInv

LEMMA ListKeeps == ASSUME TypeOK, OutboxInv, NEW i \in Instances, ListClaimed(i) PROVE OutboxInv'
<1>1. /\ pc[i] = "list" /\ pc' = [pc EXCEPT ![i] = "send"]
      /\ batch' = [batch EXCEPT ![i] = Oldest(Listed(i), BatchSize)]
      /\ UNCHANGED <<last, status, claim, leased, aged, emitting, unmarked, sent, excuse>>
  BY DEF ListClaimed, rows
<1>2. batch'[i] = Oldest(Listed(i), BatchSize) /\ \A j \in Instances : j # i => batch'[j] = batch[j] /\ pc'[j] = pc[j]
  BY <1>1 DEF TypeOK
<1>3. \A e \in batch'[i] : e \in Events /\ status[e] = "unpublished" /\ claim[e] = i
  BY <1>2 DEF Oldest, Listed, Unpublished
<1>4. \A e \in batch'[i] : e \in leased /\ e \in aged
  BY <1>1, <1>3, OutboxAssumption DEF OutboxInv, ListIsLeased, YoungIsUnclaimed
<1>5. \A j \in Instances, e \in Events : Marking(j, e) => j # i /\ e \in batch[j] /\ Marking(j, e)'
  <2> SUFFICES ASSUME NEW j \in Instances, NEW e \in Events, Marking(j, e)
               PROVE  j # i /\ e \in batch[j] /\ Marking(j, e)'
    OBVIOUS
  <2>1. j # i /\ e \in batch[j]
    BY <1>1 DEF Marking, First
  <2> QED
    BY <1>2, <2>1, MarkingStays
<1>6. \A e \in batch'[i] : sent[e] <= excuse[e]
  <2> SUFFICES ASSUME NEW e \in batch'[i], ~(sent[e] <= excuse[e]) PROVE FALSE
    OBVIOUS
  <2>1. PICK j \in Instances : Marking(j, e)
    BY <1>3, <1>4 DEF OutboxInv, OldIsExcused
  <2>2. j # i /\ e \in batch[j]
    BY <1>3, <1>5, <2>1
  <2> QED
    BY <1>3, <2>2, ListedIsOwn
<1>7. FutureIsBlank' /\ EmittingIsFresh' /\ YoungIsUnclaimed' /\ RepeatsAreExcused'
  BY <1>1 DEF OutboxInv, FutureIsBlank, EmittingIsFresh, YoungIsUnclaimed, RepeatsAreExcused
<1>8. pc'[i] = "send"
  BY <1>1 DEF TypeOK
<1>9. ListIsLeased'
  BY <1>1, <1>2, <1>3, <1>4, <1>8 DEF OutboxInv, ListIsLeased
<1>10. OldIsExcused'
  BY <1>1, <1>5 DEF OutboxInv, OldIsExcused
<1>11. ListedIsExcused'
  BY <1>1, <1>2, <1>5, <1>6 DEF TypeOK, OutboxInv, ListedIsExcused
<1> QED
  BY <1>7, <1>9, <1>10, <1>11 DEF OutboxInv

LEMMA RepublishKeeps == ASSUME TypeOK, OutboxInv, NEW i \in Instances, Republish(i) PROVE OutboxInv'
<1>1. PICK e \in Events : First(i, e) /\ sent' = [sent EXCEPT ![e] = @ + 1]
  BY DEF Republish, Sent
<1>2. /\ pc[i] = "send" /\ pc' = [pc EXCEPT ![i] = "mark"]
      /\ UNCHANGED <<last, status, claim, leased, aged, emitting, unmarked, batch, excuse>>
  BY DEF Republish, rows
<1>3. /\ e \in batch[i] /\ e \in aged /\ e <= last /\ \A j \in Instances : e \in batch[j] => j = i
      /\ \A j \in Instances : e \notin emitting[j]
  BY <1>1, ListedIsOwn DEF First
<1>4. pc'[i] = "mark" /\ \A j \in Instances : j # i => pc'[j] = pc[j]
  BY <1>2 DEF TypeOK
<1>5. Marking(i, e)'
  BY <1>1, <1>2, <1>4 DEF Marking, First
<1>6. \A j \in Instances, d \in Events : Marking(j, d) => Marking(j, d)'
  BY <1>2, <1>4, MarkingStays DEF Marking
<1>7. \A d \in Events : d # e => sent'[d] = sent[d]
  BY <1>1 DEF TypeOK
<1>8. sent[e] <= excuse[e] /\ sent'[e] = sent[e] + 1 /\ sent[e] \in Nat /\ excuse[e] \in Nat
  BY <1>1, <1>2, <1>3 DEF TypeOK, OutboxInv, ListedIsExcused, Marking
<1>9. FutureIsBlank'
  BY <1>2, <1>3, <1>7 DEF TypeOK, Events, OutboxInv, FutureIsBlank
<1>10. EmittingIsFresh'
  BY <1>2, <1>3, <1>7 DEF TypeOK, OutboxInv, EmittingIsFresh
<1>11. YoungIsUnclaimed'
  BY <1>2, <1>3, <1>7 DEF OutboxInv, YoungIsUnclaimed
<1>12. ListIsLeased'
  BY <1>2, <1>4 DEF OutboxInv, ListIsLeased
<1>13. OldIsExcused'
  BY <1>2, <1>5, <1>6, <1>7 DEF OutboxInv, OldIsExcused
<1>14. ListedIsExcused'
  BY <1>2, <1>3, <1>5, <1>6, <1>7 DEF TypeOK, OutboxInv, ListedIsExcused
<1>15. RepeatsAreExcused'
  BY <1>2, <1>7, <1>8 DEF OutboxInv, RepeatsAreExcused
<1> QED
  BY <1>9, <1>10, <1>11, <1>12, <1>13, <1>14, <1>15 DEF OutboxInv

LEMMA MarkKeeps == ASSUME TypeOK, OutboxInv, NEW i \in Instances, MarkOne(i) PROVE OutboxInv'
<1>1. PICK e \in Events :
        /\ First(i, e)
        /\ \/ MarkPublished({e}) /\ UNCHANGED <<faults, excuse>>
           \/ Fault /\ excuse' = [excuse EXCEPT ![e] = @ + 1] /\ UNCHANGED status
        /\ batch' = [batch EXCEPT ![i] = @ \ {e}]
  BY DEF MarkOne
<1>2. /\ pc[i] = "mark" /\ pc' = [pc EXCEPT ![i] = "send"]
      /\ UNCHANGED <<last, claim, leased, aged, emitting, unmarked, sent>>
  BY DEF MarkOne
<1>3. \A d \in Events :
        /\ status'[d] = status[d] \/ (status[d] = "unpublished" /\ status'[d] = "published")
        /\ excuse'[d] \in Nat /\ excuse'[d] >= excuse[d]
  <2>1. CASE MarkPublished({e}) /\ UNCHANGED <<faults, excuse>>
    BY <2>1 DEF TypeOK, MarkPublished
  <2>2. CASE Fault /\ excuse' = [excuse EXCEPT ![e] = @ + 1] /\ UNCHANGED status
    BY <2>2 DEF TypeOK
  <2> QED
    BY <1>1, <2>1, <2>2
<1>4. status'[e] # "unpublished" \/ sent[e] <= excuse'[e]
  <2>1. CASE MarkPublished({e})
    BY <2>1 DEF TypeOK, MarkPublished
  <2>2. CASE excuse' = [excuse EXCEPT ![e] = @ + 1]
    BY <2>2 DEF TypeOK, OutboxInv, RepeatsAreExcused
  <2> QED
    BY <1>1, <2>1, <2>2
<1>5. batch'[i] = batch[i] \ {e} /\ pc'[i] = "send" /\ \A j \in Instances : j # i => pc'[j] = pc[j] /\ batch'[j] = batch[j]
  BY <1>1, <1>2 DEF TypeOK
<1>6. \A j \in Instances, d \in Events : Marking(j, d) => d = e \/ Marking(j, d)'
  <2> SUFFICES ASSUME NEW j \in Instances, NEW d \in Events, Marking(j, d) PROVE d = e \/ Marking(j, d)'
    OBVIOUS
  <2>1. CASE j = i
    BY <1>1, <2>1, MarkingIsOne DEF Marking
  <2>2. CASE j # i
    BY <1>5, <2>2, MarkingStays
  <2> QED
    BY <2>1, <2>2
<1>7. \A j \in Instances : e \notin batch'[j]
  BY <1>1, <1>5, ListedIsOwn DEF First
<1>8. FutureIsBlank'
  BY <1>2, <1>3 DEF OutboxInv, FutureIsBlank
<1>9. EmittingIsFresh'
  BY <1>2 DEF OutboxInv, EmittingIsFresh
<1>10. YoungIsUnclaimed'
  <2> SUFFICES ASSUME NEW d \in Events, d \notin aged
               PROVE  /\ claim[d] = "nobody" /\ sent[d] <= 1
                      /\ sent[d] = 1 /\ status'[d] = "unpublished" =>
                           excuse'[d] > 0 \/ \E j \in Instances : d \in unmarked[j]
    BY <1>2 DEF YoungIsUnclaimed
  <2>1. excuse[d] \in Nat /\ excuse'[d] \in Nat /\ excuse'[d] >= excuse[d]
    BY <1>3 DEF TypeOK
  <2> QED
    BY <1>3, <2>1 DEF OutboxInv, YoungIsUnclaimed
<1>11. ListIsLeased'
  BY <1>2, <1>3, <1>5 DEF OutboxInv, ListIsLeased
<1>12. OldIsExcused'
  <2> SUFFICES ASSUME NEW d \in Events, d \in aged, status'[d] = "unpublished", ~(sent[d] <= excuse'[d])
               PROVE  \E j \in Instances : Marking(j, d)'
    BY <1>2 DEF OldIsExcused
  <2>1. d # e /\ status[d] = "unpublished" /\ ~(sent[d] <= excuse[d])
    BY <1>3, <1>4 DEF TypeOK
  <2> QED
    BY <1>6, <2>1 DEF OutboxInv, OldIsExcused
<1>13. ListedIsExcused'
  <2> SUFFICES ASSUME NEW j \in Instances, NEW d \in batch'[j], ~(sent[d] <= excuse'[d])
               PROVE  Marking(j, d)'
    BY <1>2 DEF ListedIsExcused
  <2>1. d # e /\ d \in batch[j] /\ d \in Events
    BY <1>5, <1>7 DEF TypeOK
  <2>2. ~(sent[d] <= excuse[d])
    BY <1>3, <2>1 DEF TypeOK
  <2> QED
    BY <1>6, <2>1, <2>2 DEF OutboxInv, ListedIsExcused
<1>14. RepeatsAreExcused'
  BY <1>2, <1>3, SMTT(20) DEF TypeOK, OutboxInv, RepeatsAreExcused
<1> QED
  BY <1>8, <1>9, <1>10, <1>11, <1>12, <1>13, <1>14 DEF OutboxInv

LEMMA FailKeeps == ASSUME TypeOK, OutboxInv, NEW i \in Instances, RepublishFails(i) PROVE OutboxInv'
<1>1. PICK e \in Events :
        /\ First(i, e)
        /\ batch' = [batch EXCEPT ![i] = @ \ {e}]
        /\ \/ UNCHANGED <<claim, leased>>
           \/ claim' = [claim EXCEPT ![e] = "dead_letter"] /\ leased' = leased \ {e}
  BY DEF RepublishFails, MarkDeadLetter
<1>2. pc[i] = "send" /\ UNCHANGED <<last, status, aged, emitting, unmarked, pc, sent, excuse>>
  BY DEF RepublishFails
<1>3. e \in aged /\ claim[e] = i
  BY <1>1, ListedIsOwn DEF First
<1>4. batch'[i] = batch[i] \ {e} /\ \A j \in Instances : j # i => batch'[j] = batch[j]
  BY <1>1 DEF TypeOK
<1>5. \A j \in Instances : e \notin batch'[j]
  BY <1>1, <1>4, ListedIsOwn DEF First
<1>6. \A d \in Events : d # e => claim'[d] = claim[d] /\ (d \in leased' <=> d \in leased)
  BY <1>1 DEF TypeOK
<1>7. UNCHANGED <<claim, leased>> \/ claim'[e] = "dead_letter"
  BY <1>1 DEF TypeOK
<1>8. \A j \in Instances, d \in Events : Marking(j, d) => Marking(j, d)'
  BY <1>2, <1>4, MarkingStays DEF Marking
<1>9. FutureIsBlank' /\ EmittingIsFresh' /\ RepeatsAreExcused'
  BY <1>2 DEF OutboxInv, FutureIsBlank, EmittingIsFresh, RepeatsAreExcused
<1>10. YoungIsUnclaimed'
  BY <1>2, <1>3, <1>6 DEF OutboxInv, YoungIsUnclaimed
<1>11. \A j \in Instances : pc[j] \in {"idle", "list"} => batch'[j] = {}
  BY <1>2, <1>4 DEF OutboxInv, ListIsLeased
<1>12. \A j \in Instances : \A d \in batch'[j] : claim'[d] = j /\ d \in leased'
  <2> SUFFICES ASSUME NEW j \in Instances, NEW d \in batch'[j] PROVE claim'[d] = j /\ d \in leased'
    OBVIOUS
  <2>1. d # e /\ d \in batch[j]
    BY <1>4, <1>5
  <2> QED
    BY <1>6, <2>1, ListedIsOwn
<1>13. ASSUME NEW j \in Instances, pc[j] = "list", NEW d \in Events, claim'[d] = j, status[d] = "unpublished"
       PROVE  d \in leased'
  <2>1. claim[d] = j
    BY <1>6, <1>7, <1>13, OutboxAssumption
  <2>2. d \in leased /\ d # e
    BY <1>2, <1>3, <1>13, <2>1 DEF OutboxInv, ListIsLeased
  <2> QED
    BY <1>6, <2>2
<1>14. ListIsLeased'
  BY <1>2, <1>11, <1>12, <1>13 DEF ListIsLeased
<1>15. OldIsExcused'
  BY <1>2, <1>8 DEF OutboxInv, OldIsExcused
<1>16. ListedIsExcused'
  BY <1>2, <1>4, <1>8 DEF TypeOK, OutboxInv, ListedIsExcused
<1> QED
  BY <1>9, <1>10, <1>14, <1>15, <1>16 DEF OutboxInv

LEMMA RoundEndKeeps == ASSUME TypeOK, OutboxInv, NEW i \in Instances, RoundEnds(i) PROVE OutboxInv'
<1>1. /\ pc[i] = "send" /\ batch[i] = {} /\ pc' = [pc EXCEPT ![i] = "idle"]
      /\ UNCHANGED <<last, status, claim, leased, aged, emitting, unmarked, batch, sent, excuse>>
  BY DEF RoundEnds, rows
<1>2. pc'[i] = "idle" /\ \A j \in Instances : j # i => pc'[j] = pc[j]
  BY <1>1 DEF TypeOK
<1>3. \A j \in Instances, d \in Events : Marking(j, d) => Marking(j, d)'
  BY <1>1, <1>2, MarkingStays DEF Marking
<1>4. FutureIsBlank' /\ EmittingIsFresh' /\ YoungIsUnclaimed' /\ RepeatsAreExcused'
  BY <1>1 DEF OutboxInv, FutureIsBlank, EmittingIsFresh, YoungIsUnclaimed, RepeatsAreExcused
<1>5. ListIsLeased'
  BY <1>1, <1>2 DEF OutboxInv, ListIsLeased
<1>6. OldIsExcused' /\ ListedIsExcused'
  BY <1>1, <1>3 DEF TypeOK, OutboxInv, OldIsExcused, ListedIsExcused
<1> QED
  BY <1>4, <1>5, <1>6 DEF OutboxInv

LEMMA CrashKeeps == ASSUME TypeOK, OutboxInv, NEW i \in Instances, Crash(i) PROVE OutboxInv'
<1>1. /\ claim' = [e \in Events |-> IF claim[e] = i THEN "gone" ELSE claim[e]]
      /\ emitting' = [emitting EXCEPT ![i] = {}] /\ unmarked' = [unmarked EXCEPT ![i] = {}]
      /\ pc' = [pc EXCEPT ![i] = "idle"] /\ batch' = [batch EXCEPT ![i] = {}]
      /\ excuse' = [e \in Events |-> IF e \in unmarked[i] \cup {d \in Events : pc[i] = "mark" /\ First(i, d)}
                                     THEN excuse[e] + 1 ELSE excuse[e]]
      /\ UNCHANGED <<last, status, leased, aged, sent>>
  BY DEF Crash
<1>2. /\ pc'[i] = "idle" /\ batch'[i] = {} /\ emitting'[i] = {} /\ unmarked'[i] = {}
      /\ \A j \in Instances : j # i =>
           pc'[j] = pc[j] /\ batch'[j] = batch[j] /\ emitting'[j] = emitting[j] /\ unmarked'[j] = unmarked[j]
  BY <1>1 DEF TypeOK
<1>3. \A e \in Events :
        /\ excuse[e] \in Nat /\ excuse'[e] \in Nat /\ excuse'[e] >= excuse[e]
        /\ e \in unmarked[i] \/ Marking(i, e) => excuse'[e] = excuse[e] + 1
  BY <1>1 DEF TypeOK, Marking
<1>4. \A j \in Instances, e \in Events : Marking(j, e) => j = i \/ Marking(j, e)'
  BY <1>2, MarkingStays
<1>5. FutureIsBlank'
  BY <1>1, <1>2 DEF OutboxInv, FutureIsBlank
<1>6. EmittingIsFresh'
  BY <1>1, <1>2 DEF OutboxInv, EmittingIsFresh
<1>7. YoungIsUnclaimed'
  <2> SUFFICES ASSUME NEW d \in Events, d \notin aged
               PROVE  /\ claim'[d] = "nobody" /\ sent[d] <= 1
                      /\ sent[d] = 1 /\ status[d] = "unpublished" =>
                           excuse'[d] > 0 \/ \E j \in Instances : d \in unmarked'[j]
    BY <1>1 DEF YoungIsUnclaimed
  <2>1. claim[d] = "nobody" /\ sent[d] <= 1
    BY DEF OutboxInv, YoungIsUnclaimed
  <2>2. claim'[d] = "nobody"
    BY <1>1, <2>1, OutboxAssumption
  <2>3. ASSUME sent[d] = 1, status[d] = "unpublished"
        PROVE  excuse'[d] > 0 \/ \E j \in Instances : d \in unmarked'[j]
    <3>1. excuse[d] > 0 \/ \E j \in Instances : d \in unmarked[j]
      BY <2>3 DEF OutboxInv, YoungIsUnclaimed
    <3> QED
      BY <1>2, <1>3, <3>1
  <2> QED
    BY <2>1, <2>2, <2>3
<1>8. \A j \in Instances, e \in Events : claim'[e] = j => j # i /\ claim[e] = j
  BY <1>1, OutboxAssumption
<1>9. \A j \in Instances : \A e \in batch'[j] : claim'[e] = j /\ e \in leased
  <2> SUFFICES ASSUME NEW j \in Instances, NEW e \in batch'[j] PROVE claim'[e] = j /\ e \in leased
    OBVIOUS
  <2>1. j # i /\ e \in batch[j]
    BY <1>2
  <2> QED
    BY <1>1, <2>1, ListedIsOwn
<1>10. ListIsLeased'
  BY <1>1, <1>2, <1>8, <1>9 DEF OutboxInv, ListIsLeased
<1>11. OldIsExcused'
  <2> SUFFICES ASSUME NEW d \in Events, d \in aged, status[d] = "unpublished", ~(sent[d] <= excuse'[d])
               PROVE  \E j \in Instances : Marking(j, d)'
    BY <1>1 DEF OldIsExcused
  <2>1. sent[d] \in Nat /\ sent[d] <= 1 + excuse[d]
    BY DEF TypeOK, OutboxInv, RepeatsAreExcused
  <2>2. ~(sent[d] <= excuse[d]) /\ ~Marking(i, d)
    BY <1>3, <2>1
  <2> QED
    BY <1>4, <2>2 DEF OutboxInv, OldIsExcused
<1>12. ListedIsExcused'
  <2> SUFFICES ASSUME NEW j \in Instances, NEW d \in batch'[j], ~(sent[d] <= excuse'[d])
               PROVE  Marking(j, d)'
    BY <1>1 DEF ListedIsExcused
  <2>1. j # i /\ d \in batch[j] /\ d \in Events /\ sent[d] \in Nat
    BY <1>2 DEF TypeOK
  <2>2. ~(sent[d] <= excuse[d])
    BY <1>3, <2>1
  <2> QED
    BY <1>4, <2>1, <2>2 DEF OutboxInv, ListedIsExcused
<1>13. RepeatsAreExcused'
  BY <1>1, <1>3 DEF TypeOK, OutboxInv, RepeatsAreExcused
<1> QED
  BY <1>5, <1>6, <1>7, <1>10, <1>11, <1>12, <1>13 DEF OutboxInv

\* Here the clock matters: a row is old when its real-time path is done.
LEMMA AgeKeeps == ASSUME PromptEmit, TypeOK, OutboxInv, NEW e \in Events, Age(e) PROVE OutboxInv'
<1>1. /\ status[e] = "unpublished" /\ e \notin aged /\ aged' = aged \cup {e}
      /\ \A i \in Instances : e \notin emitting[i] /\ (e \in unmarked[i] => excuse[e] > 0)
      /\ UNCHANGED <<last, status, claim, leased, emitting, unmarked, pc, batch, sent, excuse>>
  BY DEF Age, memory
<1>2. e <= last
  BY <1>1 DEF TypeOK, Events, OutboxInv, FutureIsBlank
<1>3. sent[e] <= excuse[e]
  <2>1. sent[e] \in Nat /\ excuse[e] \in Nat
    BY DEF TypeOK
  <2>2. sent[e] <= 1 /\ (sent[e] = 1 => excuse[e] > 0)
    BY <1>1 DEF OutboxInv, YoungIsUnclaimed
  <2> QED
    BY <2>1, <2>2
<1>4. FutureIsBlank'
  BY <1>1, <1>2 DEF TypeOK, Events, OutboxInv, FutureIsBlank
<1>5. EmittingIsFresh'
  BY <1>1 DEF OutboxInv, EmittingIsFresh
<1>6. YoungIsUnclaimed' /\ ListIsLeased' /\ RepeatsAreExcused'
  BY <1>1 DEF OutboxInv, YoungIsUnclaimed, ListIsLeased, RepeatsAreExcused
<1>7. OldIsExcused' /\ ListedIsExcused'
  BY <1>1, <1>3, MarkingStays DEF TypeOK, OutboxInv, OldIsExcused, ListedIsExcused
<1> QED
  BY <1>4, <1>5, <1>6, <1>7 DEF OutboxInv

\* And here: the lease of a listed row does not end.
LEMMA ExpiryKeeps == ASSUME PromptRound, TypeOK, OutboxInv, NEW e \in Events, LeaseExpires(e) PROVE OutboxInv'
<1>1. /\ leased' = leased \ {e} /\ \A i \in Instances : claim[e] = i => pc[i] = "idle"
      /\ UNCHANGED <<last, status, claim, aged, emitting, unmarked, pc, batch, sent, excuse>>
  BY DEF LeaseExpires, memory
<1>2. FutureIsBlank' /\ EmittingIsFresh' /\ YoungIsUnclaimed' /\ RepeatsAreExcused'
  BY <1>1 DEF OutboxInv, FutureIsBlank, EmittingIsFresh, YoungIsUnclaimed, RepeatsAreExcused
<1>3. ListIsLeased'
  BY <1>1 DEF OutboxInv, ListIsLeased
<1>4. OldIsExcused' /\ ListedIsExcused'
  BY <1>1, MarkingStays DEF TypeOK, OutboxInv, OldIsExcused, ListedIsExcused
<1> QED
  BY <1>2, <1>3, <1>4 DEF OutboxInv

LEMMA CleanupKeeps == ASSUME TypeOK, OutboxInv, NEW e \in Events, CleanupOutbox(e) PROVE OutboxInv'
<1>1. UNCHANGED <<last, claim, leased, aged, emitting, unmarked, pc, batch, sent, excuse>>
  BY DEF CleanupOutbox, memory
<1>2. \A d \in Events : status'[d] = status[d] \/ (status[d] = "published" /\ status'[d] = "deleted")
  BY DEF CleanupOutbox, TypeOK
<1>3. FutureIsBlank' /\ EmittingIsFresh' /\ YoungIsUnclaimed' /\ RepeatsAreExcused'
  BY <1>1, <1>2 DEF OutboxInv, FutureIsBlank, EmittingIsFresh, YoungIsUnclaimed, RepeatsAreExcused
<1>4. ListIsLeased'
  BY <1>1, <1>2 DEF OutboxInv, ListIsLeased
<1>5. OldIsExcused' /\ ListedIsExcused'
  BY <1>1, <1>2, MarkingStays DEF TypeOK, OutboxInv, OldIsExcused, ListedIsExcused
<1> QED
  BY <1>3, <1>4, <1>5 DEF OutboxInv

LEMMA StutterKeeps == ASSUME OutboxInv, TypeOK, UNCHANGED vars PROVE OutboxInv'
<1>1. UNCHANGED <<last, status, claim, leased, aged, emitting, unmarked, pc, batch, sent, excuse>>
  BY DEF vars, rows, memory
<1>2. FutureIsBlank' /\ EmittingIsFresh' /\ YoungIsUnclaimed' /\ ListIsLeased' /\ RepeatsAreExcused'
  BY <1>1 DEF OutboxInv, FutureIsBlank, EmittingIsFresh, YoungIsUnclaimed, ListIsLeased, RepeatsAreExcused
<1>3. OldIsExcused' /\ ListedIsExcused'
  BY <1>1, MarkingStays DEF TypeOK, OutboxInv, OldIsExcused, ListedIsExcused
<1> QED
  BY <1>2, <1>3 DEF OutboxInv

-----------------------------------------------------------------------------
LEMMA OutboxInductive == ASSUME PromptEmit, PromptRound PROVE Spec => [](TypeOK /\ OutboxInv)
<1>1. Init => TypeOK /\ OutboxInv
  BY OutboxTypesInit, OutboxInvInit
<1>2. TypeOK /\ OutboxInv /\ [Next]_vars => (TypeOK /\ OutboxInv)'
  BY OutboxTypesStep, CommitKeeps, EmitKeeps, FlushKeeps, ClaimKeeps, ListKeeps, RepublishKeeps, MarkKeeps, FailKeeps,
     RoundEndKeeps, CrashKeeps, AgeKeeps, ExpiryKeeps, CleanupKeeps, StutterKeeps
  DEF Next, Works, Publishes
<1> QED
  BY <1>1, <1>2, PTL DEF Spec

\* An event reaches the bus again only when the mark of an earlier sending failed or was
\* lost, given that the real-time path is done within the minimum age of a claim and a
\* round within its lease (OutboxPublisher, ConversationService._emit).
THEOREM RepeatsAreExcusedAlways == ASSUME PromptEmit, PromptRound PROVE Spec => []RepeatsAreExcused
<1>1. OutboxInv => RepeatsAreExcused
  BY DEF OutboxInv
<1> QED
  BY <1>1, OutboxInductive, PTL

LEMMA DeadStep ==
    TypeOK /\ OutboxInv /\ [Next]_vars => \A e \in Dead : claim'[e] = "dead_letter" /\ sent'[e] = sent[e]
<1> SUFFICES ASSUME TypeOK, OutboxInv, [Next]_vars, NEW e \in Dead
             PROVE  claim'[e] = "dead_letter" /\ sent'[e] = sent[e]
  OBVIOUS
<1>1. e \in Events /\ claim[e] = "dead_letter"
  BY DEF Dead, Unpublished
<1>2. /\ \A i \in Instances : claim[e] # i /\ e \notin batch[i]
      /\ e \in aged /\ \A i \in Instances : e \notin emitting[i]
  BY <1>1, OutboxAssumption DEF OutboxInv, ListIsLeased, YoungIsUnclaimed, EmittingIsFresh
<1>3. ASSUME NEW i \in Instances, Emit(i)
      PROVE  claim'[e] = "dead_letter" /\ sent'[e] = sent[e]
  BY <1>1, <1>2, <1>3 DEF TypeOK, Emit, Sent, rows
<1>4. ASSUME NEW i \in Instances, ClaimUnpublished(i)
      PROVE  claim'[e] = "dead_letter" /\ sent'[e] = sent[e]
  BY <1>1, <1>4 DEF ClaimUnpublished, Claimable
<1>5. ASSUME NEW i \in Instances, Republish(i)
      PROVE  claim'[e] = "dead_letter" /\ sent'[e] = sent[e]
  BY <1>1, <1>2, <1>5 DEF TypeOK, Republish, Sent, First, rows
<1>6. ASSUME NEW i \in Instances, RepublishFails(i)
      PROVE  claim'[e] = "dead_letter" /\ sent'[e] = sent[e]
  BY <1>1, <1>6 DEF TypeOK, RepublishFails, MarkDeadLetter
<1>7. ASSUME NEW i \in Instances, Crash(i)
      PROVE  claim'[e] = "dead_letter" /\ sent'[e] = sent[e]
  BY <1>1, <1>2, <1>7 DEF Crash
<1>8. CASE UNCHANGED <<claim, sent>>
  BY <1>1, <1>8
<1> QED
  BY <1>3, <1>4, <1>5, <1>6, <1>7, <1>8
  DEF Next, Works, Publishes, vars, rows, memory, Commit, FlushPublished, ListClaimed, MarkOne, RoundEnds, Age,
      LeaseExpires, CleanupOutbox

\* A dead letter stays one and is never published again (OutboxPublisher._mark_dead_letter),
\* under the same assumptions about the clock.
THEOREM DeadLetterIsFinalAlways == ASSUME PromptEmit, PromptRound PROVE Spec => DeadLetterIsFinal
BY OutboxInductive, DeadStep, PTL DEF Spec, DeadLetterIsFinal
=============================================================================
