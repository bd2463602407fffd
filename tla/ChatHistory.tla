----------------------------- MODULE ChatHistory -----------------------------
(***************************************************************************)
(* What the chat endpoints promise their clients: a conversation keeps     *)
(* whole turns (a question with its answer), and the questions of clients  *)
(* that went away before the answer, which stay without one for good; an   *)
(* answer reaches a client only when its turn is kept; and all of it is    *)
(* lost with the conversation alone, at once.                              *)
(***************************************************************************)
CONSTANTS Conversations, Turns

VARIABLES
    state,      \* conversation -> "none", "live" or "gone"
    history,    \* conversation -> turns it shows
    alone,      \* conversation -> turns of which it shows the question alone
    kept,       \* turns that were ever part of a history
    left,       \* turns whose client went away before the answer
    told        \* turns of which a client has received some of the answer

historyVars == <<state, history, alone, kept, left, told>>

HistoryInit ==
    /\ state = [c \in Conversations |-> "none"]
    /\ history = [c \in Conversations |-> {}]
    /\ alone = [c \in Conversations |-> {}]
    /\ kept = {}
    /\ left = {}
    /\ told = {}

Open(c) ==
    /\ state[c] = "none"
    /\ state' = [state EXCEPT ![c] = "live"]
    /\ UNCHANGED <<history, alone, kept, left, told>>

Keep(t, c) ==
    /\ state[c] = "live"
    /\ t \notin kept \cup left
    /\ history' = [history EXCEPT ![c] = @ \cup {t}]
    /\ kept' = kept \cup {t}
    /\ UNCHANGED <<state, alone, left, told>>

Leave(t, c) ==
    /\ state[c] = "live"
    /\ t \notin kept \cup left
    /\ alone' = [alone EXCEPT ![c] = @ \cup {t}]
    /\ left' = left \cup {t}
    /\ UNCHANGED <<state, history, kept, told>>

Tell(t) ==
    /\ t \in kept
    /\ told' = told \cup {t}
    /\ UNCHANGED <<state, history, alone, kept, left>>

Close(c) ==
    /\ state[c] = "live"
    /\ state' = [state EXCEPT ![c] = "gone"]
    /\ history' = [history EXCEPT ![c] = {}]
    /\ alone' = [alone EXCEPT ![c] = {}]
    /\ UNCHANGED <<kept, left, told>>

HistoryNext ==
    \/ \E c \in Conversations : Open(c) \/ Close(c)
    \/ \E t \in Turns, c \in Conversations : Keep(t, c) \/ Leave(t, c)
    \/ \E t \in Turns : Tell(t)

HistorySpec == HistoryInit /\ [][HistoryNext]_historyVars
=============================================================================
