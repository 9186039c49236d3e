------------------------------ MODULE Mailbox ------------------------------
(***************************************************************************)
(* What the message queue of a conversation promises to the people who     *)
(* write into it, without rows, revisions, positions, turns and threads: a *)
(* message is posted once, can be reworded while it lies in the box, and   *)
(* leaves the box once, either given to the agent as it reads at that      *)
(* moment or dropped.  Nothing comes back.  ConversationQueue implements   *)
(* this (QueueIsMailbox).                                                  *)
(***************************************************************************)
EXTENDS Naturals

CONSTANT Messages

VARIABLES
  place,    \* where a message is: "new", "box", "given" or "dropped"
  words,    \* its wording, as the number of its edits
  copies,   \* how often the agent got it
  got       \* the wording the agent got

boxVars == <<place, words, copies, got>>

InBox(m) == place[m] = "box"

Init ==
  /\ place = [m \in Messages |-> "new"]
  /\ words = [m \in Messages |-> 0]
  /\ copies = [m \in Messages |-> 0]
  /\ got = [m \in Messages |-> 0]

Post(m) ==
  /\ place[m] = "new"
  /\ place' = [place EXCEPT ![m] = "box"]
  /\ UNCHANGED <<words, copies, got>>

Reword(m) ==
  /\ InBox(m)
  /\ words' = [words EXCEPT ![m] = @ + 1]
  /\ UNCHANGED <<place, copies, got>>

Moved(S, where) == [m \in Messages |-> IF m \in S THEN where ELSE place[m]]

Give(S) ==
  /\ \A m \in S : InBox(m)
  /\ place' = Moved(S, "given")
  /\ copies' = [m \in Messages |-> IF m \in S THEN copies[m] + 1 ELSE copies[m]]
  /\ got' = [m \in Messages |-> IF m \in S THEN words[m] ELSE got[m]]
  /\ UNCHANGED words

Drop(S) ==
  /\ \A m \in S : InBox(m)
  /\ place' = Moved(S, "dropped")
  /\ UNCHANGED <<words, copies, got>>

Next ==
  \/ \E m \in Messages : Post(m) \/ Reword(m)
  \/ \E S \in SUBSET Messages : Give(S) \/ Drop(S)

Spec == Init /\ [][Next]_boxVars
=============================================================================
