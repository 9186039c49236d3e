------------------------------- MODULE Outbox --------------------------------
(***************************************************************************)
(* The transactional outbox of conversation events.  A business            *)
(* transaction writes its event as an outbox row                           *)
(* (ConversationService._append_and_emit), the real-time path publishes it *)
(* after the commit (_emit) and a 100 ms flusher marks what was published  *)
(* (flush_outbox_published).  Rows left unpublished by a crash or a failed *)
(* publish are claimed under a lease and sent again by the OutboxPublisher *)
(* of any gateway instance (gateway/conversation/outbox.py); an event that *)
(* fails max_attempts times becomes a dead letter.                         *)
(*                                                                         *)
(* Time appears as two facts about a row: whether it is older than         *)
(* _CLAIM_MIN_AGE_SECONDS, and whether its lease is still valid.  The      *)
(* sizes the code counts on are two assumptions about the clock: with      *)
(* PromptEmit the real-time path and its flusher are done within the       *)
(* minimum age, with PromptRound no lease ends during its holder's round   *)
(* (the code counts a lease from the first claim and never renews it, so   *)
(* this is likely and not certain).                                        *)
(***************************************************************************)
EXTENDS Naturals, Sequences, FiniteSets

CONSTANTS
    Instances,    \* gateway processes on the same database
    Convs,        \* conversations
    MaxAttempts,  \* max_attempts
    BatchSize,    \* batch_size
    MaxBacklog,   \* max_backlog
    PromptEmit,   \* see above
    PromptRound,  \* see above
    MaxEvents,    \* bound: events committed in a behaviour
    MaxFaults     \* bound: failed publishes, failed transactions and crashes

ASSUME OutboxAssumption ==
    /\ MaxAttempts \in Nat \ {0} /\ BatchSize \in Nat \ {0} /\ MaxBacklog \in Nat \ {0}
    /\ PromptEmit \in BOOLEAN /\ PromptRound \in BOOLEAN
    /\ MaxEvents \in Nat /\ MaxFaults \in Nat
    /\ Instances \cap {"nobody", "gone", "dead_letter"} = {} /\ Convs # {}

Events == 1..MaxEvents      \* numbered in the order of created_at

VARIABLES
    last,       \* number of committed events
    conv,       \* conversation_id of a row
    status,     \* "none", "unpublished", "published" or "deleted"
    claim,      \* claimed_by; "gone" is the claimant of a process that ended
    leased,     \* rows whose claim_expires_at lies in the future
    aged,       \* rows older than _CLAIM_MIN_AGE_SECONDS
    emitting,   \* per instance: committed events _emit has not reached
    unmarked,   \* per instance: _published_outbox
    attempts,   \* per instance: OutboxPublisher._attempts
    pc,         \* per instance: where _flush_once_sync is
    batch,      \* per instance: the claimed rows it still has to publish, oldest first
    faults,     \* faults so far
    sent,       \* history: how often an event reached the bus
    resent,     \* history: events in the order the publishers first sent them
    excuse      \* history: sendings whose mark was lost or failed

rows == <<last, conv, status, claim, leased, aged>>
memory == <<emitting, unmarked, attempts, pc, batch>>
vars == <<rows, memory, faults, sent, resent, excuse>>

Unpublished == {e \in Events : status[e] = "unpublished"}
Dead == {e \in Unpublished : claim[e] = "dead_letter"}
Oldest(S, k) == {e \in S : Cardinality({d \in S : d < e}) < k}

\* The event reaches the bus once more.
Sent(e) == sent' = [sent EXCEPT ![e] = @ + 1]

Fault == faults < MaxFaults /\ faults' = faults + 1

-----------------------------------------------------------------------------
(* The real-time path. *)

\* A business transaction commits with its event.
Commit(i) ==
    /\ last < MaxEvents
    /\ last' = last + 1
    /\ \E c \in Convs : conv' = [conv EXCEPT ![last + 1] = c]
    /\ status' = [status EXCEPT ![last + 1] = "unpublished"]
    /\ emitting' = [emitting EXCEPT ![i] = @ \cup {last + 1}]
    /\ UNCHANGED <<claim, leased, aged, unmarked, attempts, pc, batch, faults, sent, resent, excuse>>

\* _emit, in the thread that committed: remember the id for the flusher, unless
\* publish raised.
Emit(i) ==
    /\ \E e \in emitting[i] :
         /\ emitting' = [emitting EXCEPT ![i] = @ \ {e}]
         /\ \/ /\ Sent(e)
               /\ unmarked' = [unmarked EXCEPT ![i] = @ \cup {e}]
               /\ UNCHANGED faults
            \/ Fault /\ UNCHANGED <<sent, unmarked>>
    /\ UNCHANGED <<rows, attempts, pc, batch, resent, excuse>>

\* mark_outbox_published does not look at the claim.
MarkPublished(S) ==
    status' = [e \in Events |-> IF e \in S /\ status[e] = "unpublished"
                                THEN "published" ELSE status[e]]

\* flush_outbox_published: one transaction for the batch; when it fails the ids
\* are put back.
FlushPublished(i) ==
    /\ unmarked[i] # {}
    /\ \/ /\ MarkPublished(unmarked[i])
          /\ unmarked' = [unmarked EXCEPT ![i] = {}]
          /\ UNCHANGED <<faults, excuse>>
       \/ /\ Fault
          /\ excuse' = [e \in Events |-> IF e \in unmarked[i] THEN excuse[e] + 1 ELSE excuse[e]]
          /\ UNCHANGED <<status, unmarked>>
    /\ UNCHANGED <<last, conv, claim, leased, aged, emitting, attempts, pc, batch, sent, resent>>

-----------------------------------------------------------------------------
(* The publisher: _flush_once_sync. *)

\* A plausible slip: expired leases are not looked at.
ClaimableFresh(S) == {e \in S \cap aged : claim[e] = "nobody"}

\* A plausible slip: a dead letter has no lease, and so looks expired.
ClaimableDead(S) == {e \in S \cap aged : claim[e] = "nobody" \/ e \notin leased}

\* The WHERE of _claim_unpublished.
Claimable(S) == {e \in S \cap aged : claim[e] # "dead_letter"
                                     /\ (claim[e] = "nobody" \/ e \notin leased)}

\* trim_outbox_backlog: the oldest rows above the limit, dead letters included.
Trimmed == LET n == Cardinality(Unpublished)
           IN  IF n > MaxBacklog THEN Oldest(Unpublished, n - MaxBacklog) ELSE {}

\* First transaction: trim and claim.
ClaimUnpublished(i) ==
    /\ pc[i] = "idle"
    /\ pc' = [pc EXCEPT ![i] = "list"]
    /\ LET mine == Claimable(Unpublished \ Trimmed)
       IN  /\ status' = [e \in Events |-> IF e \in Trimmed THEN "deleted" ELSE status[e]]
           /\ claim' = [e \in Events |-> IF e \in mine THEN i ELSE claim[e]]
           /\ leased' = leased \cup mine
    /\ UNCHANGED <<last, conv, aged, emitting, unmarked, attempts, batch, faults, sent, resent, excuse>>

\* A plausible slip: list every unpublished row.
ListedAny(i) == Unpublished

Listed(i) == {e \in Unpublished : claim[e] = i}

\* Second transaction: the rows that are still this instance's.
ListClaimed(i) ==
    /\ pc[i] = "list"
    /\ batch' = [batch EXCEPT ![i] = Oldest(Listed(i), BatchSize)]
    /\ pc' = [pc EXCEPT ![i] = "send"]
    /\ UNCHANGED <<rows, emitting, unmarked, attempts, faults, sent, resent, excuse>>

\* The row whose turn it is: list_unpublished orders by created_at.
First(i, e) == e \in batch[i] /\ \A d \in batch[i] : e <= d

\* The publish succeeds; the mark is a transaction of its own.
Republish(i) ==
    /\ pc[i] = "send"
    /\ \E e \in Events :
         /\ First(i, e)
         /\ Sent(e)
         /\ resent' = IF \E k \in DOMAIN resent : resent[k] = e THEN resent ELSE Append(resent, e)
         /\ attempts' = [attempts EXCEPT ![i][e] = 0]
    /\ pc' = [pc EXCEPT ![i] = "mark"]
    /\ UNCHANGED <<rows, emitting, unmarked, batch, faults, excuse>>

MarkOne(i) ==
    /\ pc[i] = "mark"
    /\ \E e \in Events :
         /\ First(i, e)
         /\ \/ MarkPublished({e}) /\ UNCHANGED <<faults, excuse>>
            \/ /\ Fault
               /\ excuse' = [excuse EXCEPT ![e] = @ + 1]
               /\ UNCHANGED status
         /\ batch' = [batch EXCEPT ![i] = @ \ {e}]
    /\ pc' = [pc EXCEPT ![i] = "send"]
    /\ UNCHANGED <<last, conv, claim, leased, aged, emitting, unmarked, attempts, sent, resent>>

\* _mark_dead_letter: only rows that are still unpublished.
MarkDeadLetter(e) ==
    /\ claim' = IF status[e] = "unpublished" THEN [claim EXCEPT ![e] = "dead_letter"] ELSE claim
    /\ leased' = IF status[e] = "unpublished" THEN leased \ {e} ELSE leased

\* A plausible slip: one attempt too many.
GiveUpLate(tried) == tried > MaxAttempts

GiveUp(tried) == tried >= MaxAttempts

\* The publish fails: keep the row for the next round, or give it up; the count
\* is forgotten even when the dead letter cannot be written.
RepublishFails(i) ==
    /\ pc[i] = "send"
    /\ Fault
    /\ \E e \in Events :
         /\ First(i, e)
         /\ batch' = [batch EXCEPT ![i] = @ \ {e}]
         /\ LET tried == attempts[i][e] + 1
            IN  IF GiveUp(tried)
                THEN /\ attempts' = [attempts EXCEPT ![i][e] = 0]
                     /\ MarkDeadLetter(e) \/ UNCHANGED <<claim, leased>>
                ELSE /\ attempts' = [attempts EXCEPT ![i][e] = tried]
                     /\ UNCHANGED <<claim, leased>>
    /\ UNCHANGED <<last, conv, status, aged, emitting, unmarked, pc, sent, resent, excuse>>

RoundEnds(i) ==
    /\ pc[i] = "send" /\ batch[i] = {}
    /\ pc' = [pc EXCEPT ![i] = "idle"]
    /\ UNCHANGED <<rows, emitting, unmarked, attempts, batch, faults, sent, resent, excuse>>

-----------------------------------------------------------------------------
(* Time, retention and crashes. *)

\* A row passes the minimum age.
Age(e) ==
    /\ status[e] = "unpublished" /\ e \notin aged
    /\ \A d \in 1..(e - 1) : d \in aged \/ status[d] # "unpublished"
    /\ PromptEmit => \A i \in Instances :
         /\ e \notin emitting[i]
         /\ e \in unmarked[i] => excuse[e] > 0
    /\ aged' = aged \cup {e}
    /\ UNCHANGED <<last, conv, status, claim, leased, memory, faults, sent, resent, excuse>>

\* A claim outlives its TTL.
LeaseExpires(e) ==
    /\ e \in leased
    /\ PromptRound => \A i \in Instances : claim[e] = i => pc[i] = "idle"
    /\ leased' = leased \ {e}
    /\ UNCHANGED <<last, conv, status, claim, aged, memory, faults, sent, resent, excuse>>

\* cleanup_outbox: published rows past their retention.
CleanupOutbox(e) ==
    /\ status[e] = "published"
    /\ status' = [status EXCEPT ![e] = "deleted"]
    /\ UNCHANGED <<last, conv, claim, leased, aged, memory, faults, sent, resent, excuse>>

\* An instance ends without stop_flusher and is started again under a new claimant.
Crash(i) ==
    /\ Fault
    /\ claim' = [e \in Events |-> IF claim[e] = i THEN "gone" ELSE claim[e]]
    /\ emitting' = [emitting EXCEPT ![i] = {}]
    /\ unmarked' = [unmarked EXCEPT ![i] = {}]
    /\ attempts' = [attempts EXCEPT ![i] = [e \in Events |-> 0]]
    /\ pc' = [pc EXCEPT ![i] = "idle"]
    /\ batch' = [batch EXCEPT ![i] = {}]
    /\ LET lost == unmarked[i] \cup {e \in Events : pc[i] = "mark" /\ First(i, e)}
       IN  excuse' = [e \in Events |-> IF e \in lost THEN excuse[e] + 1 ELSE excuse[e]]
    /\ UNCHANGED <<last, conv, status, leased, aged, sent, resent>>

-----------------------------------------------------------------------------
Init ==
    /\ last = 0
    /\ conv = [e \in Events |-> CHOOSE c \in Convs : TRUE]
    /\ status = [e \in Events |-> "none"]
    /\ claim = [e \in Events |-> "nobody"]
    /\ leased = {} /\ aged = {}
    /\ emitting = [i \in Instances |-> {}]
    /\ unmarked = [i \in Instances |-> {}]
    /\ attempts = [i \in Instances |-> [e \in Events |-> 0]]
    /\ pc = [i \in Instances |-> "idle"]
    /\ batch = [i \in Instances |-> {}]
    /\ faults = 0
    /\ sent = [e \in Events |-> 0] /\ resent = <<>>
    /\ excuse = [e \in Events |-> 0]

\* What the event loop of an instance keeps doing.
Works(i) == Emit(i) \/ FlushPublished(i)
Publishes(i) == ClaimUnpublished(i) \/ ListClaimed(i) \/ Republish(i) \/ MarkOne(i)
                \/ RepublishFails(i) \/ RoundEnds(i)

Next ==
    \/ \E i \in Instances : Commit(i) \/ Works(i) \/ Publishes(i) \/ Crash(i)
    \/ \E e \in Events : Age(e) \/ LeaseExpires(e) \/ CleanupOutbox(e)

Spec == Init /\ [][Next]_vars

\* The service calls, the flusher and the publisher loop go on, and time passes.
FairSpec ==
    /\ Spec
    /\ \A i \in Instances : WF_vars(Works(i)) /\ WF_vars(Publishes(i))
    /\ \A e \in Events : WF_vars(Age(e)) /\ SF_vars(LeaseExpires(e))

-----------------------------------------------------------------------------
(* Properties. *)

\* Types; an instance's unfinished round holds rows of which none is new.
TypeOK ==
    /\ last \in 0..MaxEvents
    /\ conv \in [Events -> Convs]
    /\ status \in [Events -> {"none", "unpublished", "published", "deleted"}]
    /\ claim \in [Events -> Instances \cup {"nobody", "gone", "dead_letter"}]
    /\ leased \subseteq Events /\ aged \subseteq Events
    /\ emitting \in [Instances -> SUBSET Events]
    /\ unmarked \in [Instances -> SUBSET Events]
    /\ attempts \in [Instances -> [Events -> 0..(MaxAttempts - 1)]]
    /\ pc \in [Instances -> {"idle", "list", "send", "mark"}]
    /\ batch \in [Instances -> SUBSET Events]
    /\ \A i \in Instances : pc[i] = "mark" => batch[i] # {}
    /\ faults \in 0..MaxFaults
    /\ sent \in [Events -> Nat] /\ excuse \in [Events -> Nat]
    /\ resent \in Seq(Events)

\* outbox.py: the claim makes instances "互不重叠".  An event reaches the bus a
\* second time only when the mark of an earlier sending failed or was lost with
\* its process: at-least-once delivery repeats itself for no other reason.
RepeatsAreExcused == \A e \in Events : sent[e] <= 1 + excuse[e]

\* _mark_dead_letter: "事件不会再被投递".  A dead letter stays one and is never
\* published again, whatever instance runs next or had the row in hand.
DeadLetterIsFinal ==
    [][\A e \in Dead : claim'[e] = "dead_letter" /\ sent'[e] = sent[e]]_vars

\* No committed event is forgotten: it reaches the bus, becomes a dead letter
\* after max_attempts failures, or is dropped by the backlog limit.
EventsSettle ==
    \A e \in Events : (status[e] = "unpublished") ~> (sent[e] > 0 \/ e \in Dead \/ status[e] = "deleted")

\* outbox.py: "单会话事件顺序由 created_at 保证".  The publisher sends the events
\* left over in a conversation in the order they were created.
ConversationOrder ==
    \A a, b \in 1..Len(resent) :
        (a < b /\ conv[resent[a]] = conv[resent[b]]) => resent[a] < resent[b]
=============================================================================
