--------------------------- MODULE ChatTurnsProofs ---------------------------
(***************************************************************************)
(* Proofs about ChatTurns, for any sets of conversations, turns, renames   *)
(* and deletes.                                                            *)
(***************************************************************************)
EXTENDS ChatTurns, TLAPS

(* What an open transaction has written, and that nothing else has. *)
Written(t) ==
    IF stage[t] \in {"asked", "touched"} THEN {Message(t, "user")}
    ELSE IF stage[t] = "answered" THEN {Message(t, "user"), Message(t, "assistant")}
    ELSE {}
TransactionTellsStage == \A t \in Turns : pending[t] = Written(t)

(* A stored message is of a turn that was committed, or is the question of *)
(* one whose client hung up.                                               *)
MessagesAreKept ==
    \A m \in messages :
        /\ m = Message(m.turn, m.role)
        /\ \/ stage[m.turn] \in {"kept", "ended"}
           \/ stage[m.turn] = "left" /\ m.role = "user"

KeptHasBoth ==
    \A t \in Turns : stage[t] \in {"kept", "ended"} =>
        \/ Message(t, "user") \in messages /\ Message(t, "assistant") \in messages
        \/ conversation[place[t]] = "gone"

ToldIsEnded == \A t \in told : stage[t] = "ended"

(* FOR KEY SHARE keeps the conversation of an open turn... *)
ConversationIsHeld == \A t \in Turns : pending[t] # {} => conversation[place[t]] = "live"

(* ... and a delete that has the row is alone with it. *)
DeleteIsAlone ==
    \A d \in Deletes : delete[d].stage = "deleted" =>
        /\ conversation[delete[d].in] = "live"
        /\ ~KeyShared(delete[d].in)
        /\ \A e \in Deletes \ {d} :
              delete[e].stage = "deleted" => delete[e].in # delete[d].in

LoadedIsOwn == \A d \in Deletes : \A m \in delete[d].loaded : m.in = delete[d].in

IInv ==
    /\ TypeOK
    /\ TransactionTellsStage
    /\ MessagesAreKept
    /\ KeptHasBoth
    /\ ToldIsEnded
    /\ ConversationIsHeld
    /\ DeleteIsAlone
    /\ LoadedIsOwn
    /\ NothingOutlivesItsConversation

-----------------------------------------------------------------------------
LEMMA TypeStep == TypeOK /\ [Next]_vars => TypeOK'
<1> SUFFICES ASSUME TypeOK, [Next]_vars PROVE TypeOK'
  OBVIOUS
<1> USE DEF TypeOK, requests
<1>1. ASSUME NEW c \in Conversations, Create(c) PROVE TypeOK'
  BY <1>1 DEF Create
<1>2. ASSUME NEW t \in Turns, Begin(t) PROVE TypeOK'
  BY <1>2 DEF Begin, Goto, TurnStages
<1>3. ASSUME NEW t \in Turns, TurnStep(t) PROVE TypeOK'
  <2>m. ASSUME NEW role \in {"user", "assistant"} PROVE Message(t, role) \in Messages
    BY DEF Message, Messages
  <2>1. CASE Ask(t)
    <3> DEFINE m == Message(t, "user")
    <3>1. m \in Messages
      BY <2>m
    <3> HIDE DEF m
    <3>2. pending' = [pending EXCEPT ![t] = {m}]
      BY <2>1 DEF Ask, m
    <3>3. pending' \in [Turns -> SUBSET Messages]
      BY <3>1, <3>2
    <3>4. QED
      BY <2>1, <3>3 DEF Ask, Goto, TurnStages
  <2>2. CASE AskInVain(t) \/ Touch(t)
    BY <2>2 DEF AskInVain, Touch, Goto, TurnStages
  <2>3. CASE Answer(t)
    <3> DEFINE m == Message(t, "assistant")
    <3>1. m \in Messages
      BY <2>m
    <3> HIDE DEF m
    <3>2. pending' = [pending EXCEPT ![t] = @ \cup {m}]
      BY <2>3 DEF Answer, m
    <3>3. pending' \in [Turns -> SUBSET Messages]
      BY <3>1, <3>2
    <3>4. QED
      BY <2>3, <3>3 DEF Answer, Goto, TurnStages
  <2>4. CASE Keep(t) \/ KeepUnheard(t)
    BY <2>4 DEF Keep, KeepUnheard, CommitTurn, TurnStages
  <2>5. CASE Stream(t)
    BY <2>5 DEF Stream, Goto, TurnStages
  <2>6. CASE Drop(t)
    BY <2>6 DEF Drop, TurnStages
  <2>7. CASE HangUp(t)
    BY <2>7 DEF HangUp, Goto, TurnStages
  <2>8. QED
    BY <1>3, <2>1, <2>2, <2>3, <2>4, <2>5, <2>6, <2>7 DEF TurnStep
<1>4. ASSUME NEW r \in Renames, RenameStep(r) PROVE TypeOK'
  <2>1. PICK to \in {"read", "updated", "over"} : \E from : RenameGoto(r, from, to)
    BY <1>4 DEF RenameStep, RenameRead, RenameUpdate, RenameStale, RenameEnd
  <2>2. QED
    BY <2>1 DEF RenameGoto
<1>5. ASSUME NEW d \in Deletes, DeleteStep(d) PROVE TypeOK'
  <2>1. CASE DeleteRead(d)
    <3>1. PICK L \in SUBSET Messages : L = In(delete[d].in)
      BY DEF In
    <3>2. PICK s \in {"read", "over"} :
             delete' = [delete EXCEPT ![d] = [@ EXCEPT !.stage = s, !.loaded = L]]
      BY <2>1, <3>1 DEF DeleteRead
    <3>3. delete'[d] = [stage |-> s, in |-> delete[d].in, loaded |-> L]
      BY <3>2
    <3>4. QED
      BY <2>1, <3>2, <3>3 DEF DeleteRead, DeleteUnchanged
  <2>2. CASE DeleteRow(d) \/ DeleteNothing(d) \/ DeleteAbort(d)
    <3>1. PICK s \in {"deleted", "over"} : delete' = [delete EXCEPT ![d].stage = s]
      BY <2>2 DEF DeleteRow, DeleteNothing, DeleteAbort
    <3>2. UNCHANGED <<conversation, messages, stage, place, pending, told, rename>>
      BY <2>2 DEF DeleteRow, DeleteNothing, DeleteAbort, DeleteUnchanged
    <3>3. QED
      BY <3>1, <3>2
  <2>3. CASE DeleteCommit(d)
    BY <2>3 DEF DeleteCommit, DeleteUnchanged
  <2>4. QED
    BY <1>5, <2>1, <2>2, <2>3 DEF DeleteStep
<1>6. CASE UNCHANGED vars
  BY <1>6 DEF vars
<1>7. QED
  BY <1>1, <1>2, <1>3, <1>4, <1>5, <1>6 DEF Next

-----------------------------------------------------------------------------
(* Renames and deletes leave the variables of turns alone. *)
turnVars == <<stage, place, pending, told>>

LEMMA OthersLeaveTurns ==
    /\ \A c \in Conversations : Create(c) => UNCHANGED <<messages, turnVars, delete>>
    /\ \A r \in Renames :
          RenameStep(r) => UNCHANGED <<conversation, messages, turnVars, delete>>
    /\ \A d \in Deletes : DeleteStep(d) => UNCHANGED turnVars
BY DEF turnVars, requests, Create, RenameStep, RenameRead, RenameUpdate, RenameStale, RenameEnd,
   RenameGoto, DeleteStep, DeleteRead, DeleteRow, DeleteNothing, DeleteCommit, DeleteAbort,
   DeleteUnchanged

LEMMA TransactionStep ==
    TypeOK /\ TransactionTellsStage /\ [Next]_vars => TransactionTellsStage'
<1> SUFFICES ASSUME TypeOK, TransactionTellsStage, [Next]_vars,
                    NEW s \in Turns
             PROVE  pending'[s] = Written(s)'
  BY DEF TransactionTellsStage
<1>0. pending[s] = Written(s)
  BY DEF TransactionTellsStage
<1> USE DEF TypeOK, Written, Message
<1>1. CASE UNCHANGED turnVars
  BY <1>0, <1>1 DEF turnVars
<1>2. ASSUME NEW t \in Turns, Begin(t) PROVE pending'[s] = Written(s)'
  BY <1>0, <1>2 DEF Begin, Goto
<1>3. ASSUME NEW t \in Turns, TurnStep(t) PROVE pending'[s] = Written(s)'
  <2>1. CASE Ask(t)
    BY <1>0, <2>1 DEF Ask, Goto
  <2>2. CASE AskInVain(t) \/ Touch(t)
    BY <1>0, <2>2 DEF AskInVain, Touch, Goto
  <2>3. CASE Answer(t)
    BY <1>0, <2>3 DEF Answer, Goto
  <2>4. CASE Keep(t) \/ KeepUnheard(t)
    BY <1>0, <2>4 DEF Keep, KeepUnheard, CommitTurn
  <2>5. CASE Stream(t)
    BY <1>0, <2>5 DEF Stream, Goto
  <2>6. CASE Drop(t)
    BY <1>0, <2>6 DEF Drop
  <2>7. CASE HangUp(t)
    BY <1>0, <2>7 DEF HangUp, Goto
  <2>8. QED
    BY <1>3, <2>1, <2>2, <2>3, <2>4, <2>5, <2>6, <2>7 DEF TurnStep
<1>4. QED
  BY <1>1, <1>2, <1>3, OthersLeaveTurns DEF Next, vars, turnVars

-----------------------------------------------------------------------------
(* A conversation a turn or a delete has locked stays as it is. *)
LEMMA ConversationStep ==
    IInv /\ [Next]_vars => ConversationIsHeld' /\ NothingOutlivesItsConversation'
<1> SUFFICES ASSUME IInv, [Next]_vars
             PROVE  ConversationIsHeld' /\ NothingOutlivesItsConversation'
  OBVIOUS
<1> USE DEF IInv, TypeOK, ConversationIsHeld, NothingOutlivesItsConversation
<1>1. ASSUME NEW c \in Conversations, Create(c)
      PROVE  ConversationIsHeld' /\ NothingOutlivesItsConversation'
  BY <1>1 DEF Create, Messages
<1>2. ASSUME NEW t \in Turns, Begin(t)
      PROVE  ConversationIsHeld' /\ NothingOutlivesItsConversation'
  BY <1>2 DEF Begin, Goto, TransactionTellsStage, Written
<1>3. ASSUME NEW t \in Turns, TurnStep(t)
      PROVE  ConversationIsHeld' /\ NothingOutlivesItsConversation'
  <2>1. CASE Ask(t)
    BY <2>1 DEF Ask
  <2>2. CASE AskInVain(t) \/ Touch(t) \/ Stream(t) \/ Drop(t)
    BY <2>2 DEF AskInVain, Touch, Stream, Drop
  <2>3. CASE Answer(t)
    <3>1. pending[t] # {}
      BY <2>3 DEF Answer, Goto, TransactionTellsStage, Written
    <3>2. QED
      BY <2>3, <3>1 DEF Answer
  <2>4. CASE Keep(t) \/ KeepUnheard(t) \/ HangUp(t)
    <3>1. \A m \in pending[t] : conversation[m.in] = "live"
      BY DEF TransactionTellsStage, Written, Message
    <3>2. /\ messages' = messages \cup pending[t]
          /\ pending' = [pending EXCEPT ![t] = {}]
          /\ UNCHANGED <<conversation, place>>
      BY <2>4 DEF Keep, KeepUnheard, HangUp, CommitTurn
    <3>3. QED
      BY <3>1, <3>2
  <2>5. QED
    BY <1>3, <2>1, <2>2, <2>3, <2>4 DEF TurnStep
<1>4. ASSUME NEW r \in Renames, RenameStep(r)
      PROVE  ConversationIsHeld' /\ NothingOutlivesItsConversation'
  BY <1>4, OthersLeaveTurns DEF turnVars
<1>5. ASSUME NEW d \in Deletes, DeleteStep(d)
      PROVE  ConversationIsHeld' /\ NothingOutlivesItsConversation'
  <2>1. CASE DeleteRead(d) \/ DeleteRow(d) \/ DeleteNothing(d) \/ DeleteAbort(d)
    BY <2>1 DEF DeleteRead, DeleteRow, DeleteNothing, DeleteAbort, DeleteUnchanged
  <2>2. CASE DeleteCommit(d)
    BY <2>2 DEF DeleteCommit, DeleteUnchanged, DeleteIsAlone, KeyShared, In, Messages
  <2>3. QED
    BY <1>5, <2>1, <2>2 DEF DeleteStep
<1>6. CASE UNCHANGED vars
  BY <1>6 DEF vars
<1>7. QED
  BY <1>1, <1>2, <1>3, <1>4, <1>5, <1>6 DEF Next

LEMMA DeleteAloneStep == IInv /\ [Next]_vars => DeleteIsAlone'
<1> SUFFICES ASSUME IInv, [Next]_vars PROVE DeleteIsAlone'
  OBVIOUS
<1> USE DEF IInv, TypeOK, DeleteIsAlone, KeyShared
<1>1. ASSUME NEW c \in Conversations, Create(c) PROVE DeleteIsAlone'
  BY <1>1 DEF Create, requests
<1>2. ASSUME NEW t \in Turns, Begin(t) PROVE DeleteIsAlone'
  BY <1>2 DEF Begin, Goto, requests, TransactionTellsStage, Written
<1>3. ASSUME NEW t \in Turns, TurnStep(t) PROVE DeleteIsAlone'
  <2>1. CASE Ask(t)
    BY <2>1 DEF Ask, requests, Deleted
  <2>2. CASE AskInVain(t) \/ Touch(t) \/ Stream(t) \/ Drop(t)
    BY <2>2 DEF AskInVain, Touch, Stream, Drop, requests
  <2>3. CASE Answer(t)
    <3>1. pending[t] # {}
      BY <2>3 DEF Answer, Goto, TransactionTellsStage, Written
    <3>2. QED
      BY <2>3, <3>1 DEF Answer, requests
  <2>4. CASE Keep(t) \/ KeepUnheard(t) \/ HangUp(t)
    <3>1. \A s \in Turns : pending'[s] # {} => pending[s] # {}
      BY <2>4 DEF Keep, KeepUnheard, HangUp, CommitTurn
    <3>2. UNCHANGED <<conversation, place, delete>>
      BY <2>4 DEF Keep, KeepUnheard, HangUp, CommitTurn, requests
    <3>3. QED
      BY <3>1, <3>2
  <2>5. QED
    BY <1>3, <2>1, <2>2, <2>3, <2>4 DEF TurnStep
<1>4. ASSUME NEW r \in Renames, RenameStep(r) PROVE DeleteIsAlone'
  BY <1>4, OthersLeaveTurns DEF turnVars
<1>5. ASSUME NEW d \in Deletes, DeleteStep(d) PROVE DeleteIsAlone'
  <2>1. CASE DeleteRead(d)
    BY <2>1 DEF DeleteRead, DeleteUnchanged
  <2>2. CASE DeleteRow(d)
    BY <2>2 DEF DeleteRow, DeleteUnchanged, Deleted
  <2>3. CASE DeleteNothing(d) \/ DeleteAbort(d)
    <3>1. delete' = [delete EXCEPT ![d].stage = "over"]
      BY <2>3 DEF DeleteNothing, DeleteAbort
    <3>2. \A e \in Deletes : delete'[e].stage = "deleted" => delete'[e] = delete[e]
      BY <3>1
    <3>3. UNCHANGED <<conversation, place, pending>>
      BY <2>3 DEF DeleteNothing, DeleteAbort, DeleteUnchanged
    <3>4. QED
      BY <3>2, <3>3
  <2>4. CASE DeleteCommit(d)
    BY <2>4 DEF DeleteCommit, DeleteUnchanged
  <2>5. QED
    BY <1>5, <2>1, <2>2, <2>3, <2>4 DEF DeleteStep
<1>6. CASE UNCHANGED vars
  BY <1>6 DEF vars
<1>7. QED
  BY <1>1, <1>2, <1>3, <1>4, <1>5, <1>6 DEF Next

-----------------------------------------------------------------------------
(* What is stored is what was committed. *)
StoreInv == MessagesAreKept /\ KeptHasBoth /\ ToldIsEnded

LEMMA StoreStep == IInv /\ [Next]_vars => StoreInv'
<1> SUFFICES ASSUME IInv, [Next]_vars PROVE StoreInv'
  OBVIOUS
<1> USE DEF IInv, TypeOK, StoreInv, MessagesAreKept, KeptHasBoth, ToldIsEnded, Message
<1>1. ASSUME NEW c \in Conversations, Create(c) PROVE StoreInv'
  BY <1>1 DEF Create
<1>2. ASSUME NEW t \in Turns, Begin(t) PROVE StoreInv'
  BY <1>2 DEF Begin, Goto, Messages
<1>3. ASSUME NEW t \in Turns, TurnStep(t) PROVE StoreInv'
  <2>1. CASE Ask(t) \/ AskInVain(t) \/ Touch(t) \/ Answer(t)
    <3>1. PICK to \in {"asked", "touched", "answered", "failed"} :
             stage' = [stage EXCEPT ![t] = to]
      BY <2>1 DEF Ask, AskInVain, Touch, Answer, Goto
    <3>2. stage[t] \notin {"kept", "ended", "left"}
      BY <2>1 DEF Ask, AskInVain, Touch, Answer, Goto
    <3>3. UNCHANGED <<conversation, messages, place, told>>
      BY <2>1 DEF Ask, AskInVain, Touch, Answer
    <3>4. \A s \in Turns : stage[s] \in {"kept", "ended", "left"} => stage'[s] = stage[s]
      BY <3>1, <3>2
    <3>5. \A s \in Turns : stage'[s] \in {"kept", "ended"} => stage'[s] = stage[s]
      BY <3>1
    <3>6. \A m \in messages : m.turn \in Turns
      BY DEF Messages
    <3>7. QED
      BY <3>3, <3>4, <3>5, <3>6
  <2>2. CASE Keep(t) \/ KeepUnheard(t)
    <3>1. PICK to \in {"kept", "ended"} : stage' = [stage EXCEPT ![t] = to]
      BY <2>2 DEF Keep, KeepUnheard
    <3>2. /\ stage[t] = "answered"
          /\ messages' = messages \cup {Message(t, "user"), Message(t, "assistant")}
          /\ UNCHANGED <<conversation, place, told>>
      BY <2>2 DEF Keep, KeepUnheard, CommitTurn, TransactionTellsStage, Written
    <3>3. \A m \in messages : m.turn \in Turns
      BY DEF Messages
    <3>4. MessagesAreKept'
      BY <3>1, <3>2, <3>3
    <3>5. KeptHasBoth'
      BY <3>1, <3>2
    <3>6. ToldIsEnded'
      BY <3>1, <3>2
    <3>7. QED
      BY <3>4, <3>5, <3>6
  <2>3. CASE Stream(t)
    BY <2>3 DEF Stream, Goto, Messages
  <2>4. CASE Drop(t)
    <3>1. \A s \in Turns :
             /\ stage[s] \in {"kept", "ended"} => stage'[s] \in {"kept", "ended"}
             /\ stage[s] = "left" => stage'[s] = "left"
             /\ stage'[s] \in {"kept", "ended"} => stage[s] \in {"kept", "ended"}
             /\ stage[s] = "ended" => stage'[s] = "ended"
      BY <2>4 DEF Drop
    <3>2. UNCHANGED <<conversation, messages, place, told>>
      BY <2>4 DEF Drop
    <3>3. QED
      BY <3>1, <3>2 DEF Messages
  <2>5. CASE HangUp(t)
    <3>1. /\ stage[t] = "touched" /\ stage' = [stage EXCEPT ![t] = "left"]
          /\ messages' = messages \cup {Message(t, "user")}
          /\ UNCHANGED <<conversation, place, told>>
      BY <2>5 DEF HangUp, Goto, TransactionTellsStage, Written
    <3>2. \A m \in messages : m.turn \in Turns
      BY DEF Messages
    <3>3. MessagesAreKept'
      BY <3>1, <3>2
    <3>4. KeptHasBoth' /\ ToldIsEnded'
      BY <3>1
    <3>5. QED
      BY <3>3, <3>4
  <2>6. QED
    BY <1>3, <2>1, <2>2, <2>3, <2>4, <2>5 DEF TurnStep
<1>4. ASSUME NEW r \in Renames, RenameStep(r) PROVE StoreInv'
  BY <1>4, OthersLeaveTurns DEF turnVars
<1>5. ASSUME NEW d \in Deletes, DeleteStep(d) PROVE StoreInv'
  <2>1. CASE DeleteRead(d) \/ DeleteRow(d) \/ DeleteNothing(d) \/ DeleteAbort(d)
    BY <2>1 DEF DeleteRead, DeleteRow, DeleteNothing, DeleteAbort, DeleteUnchanged
  <2>2. CASE DeleteCommit(d)
    <3> DEFINE c == delete[d].in
    <3>1. /\ conversation' = [conversation EXCEPT ![c] = "gone"]
          /\ \A m \in messages : m.in # c => m \in messages'
          /\ messages' \subseteq messages
      BY <2>2 DEF DeleteCommit, In, LoadedIsOwn
    <3>2. UNCHANGED <<stage, place, told>>
      BY <2>2 DEF DeleteCommit, DeleteUnchanged
    <3>3. QED
      BY <3>1, <3>2
  <2>3. QED
    BY <1>5, <2>1, <2>2 DEF DeleteStep
<1>6. CASE UNCHANGED vars
  BY <1>6 DEF vars
<1>7. QED
  BY <1>1, <1>2, <1>3, <1>4, <1>5, <1>6 DEF Next

LEMMA LoadedStep == IInv /\ [Next]_vars => LoadedIsOwn'
<1> SUFFICES ASSUME IInv, [Next]_vars PROVE LoadedIsOwn'
  OBVIOUS
<1> USE DEF IInv, TypeOK, LoadedIsOwn
<1>1. CASE UNCHANGED delete
  BY <1>1
<1>2. ASSUME NEW d \in Deletes, DeleteStep(d) PROVE LoadedIsOwn'
  <2>1. CASE DeleteRead(d)
    <3>1. PICK s \in {"read", "over"} : \E L \in SUBSET Messages :
             /\ L = In(delete[d].in)
             /\ delete' = [delete EXCEPT ![d] = [@ EXCEPT !.stage = s, !.loaded = L]]
      <4>1. In(delete[d].in) \in SUBSET Messages
        BY DEF In
      <4>2. QED
        BY <2>1, <4>1 DEF DeleteRead
    <3>2. PICK L \in SUBSET Messages :
             /\ L = In(delete[d].in)
             /\ delete' = [delete EXCEPT ![d] = [@ EXCEPT !.stage = s, !.loaded = L]]
      BY <3>1
    <3>3. \A m \in L : m.in = delete[d].in
      BY <3>2 DEF In
    <3>4. QED
      BY <3>2, <3>3
  <2>2. CASE DeleteRow(d) \/ DeleteNothing(d) \/ DeleteCommit(d) \/ DeleteAbort(d)
    <3>1. PICK s \in {"deleted", "over"} : delete' = [delete EXCEPT ![d].stage = s]
      BY <2>2 DEF DeleteRow, DeleteNothing, DeleteCommit, DeleteAbort
    <3>2. QED
      BY <3>1
  <2>3. QED
    BY <1>2, <2>1, <2>2 DEF DeleteStep
<1>3. ASSUME NEW t \in Turns, Begin(t) \/ TurnStep(t) PROVE UNCHANGED delete
  BY <1>3 DEF Begin, TurnStep, Ask, AskInVain, Touch, Answer, Keep, KeepUnheard, CommitTurn,
     Stream, HangUp, Drop, requests
<1>4. QED
  BY <1>1, <1>2, <1>3, OthersLeaveTurns DEF Next, vars

-----------------------------------------------------------------------------
(* The invariant that carries every safety property of the chat. *)
THEOREM IInvHolds == Spec => []IInv
<1>1. Init => IInv
  <2> SUFFICES ASSUME Init PROVE IInv
    OBVIOUS
  <2>1. TypeOK
    BY DEF Init, TypeOK, TurnStages
  <2>2. TransactionTellsStage /\ MessagesAreKept /\ KeptHasBoth /\ ToldIsEnded
    BY DEF Init, TransactionTellsStage, Written, MessagesAreKept, KeptHasBoth, ToldIsEnded
  <2>3. ConversationIsHeld /\ DeleteIsAlone /\ LoadedIsOwn /\ NothingOutlivesItsConversation
    BY DEF Init, ConversationIsHeld, DeleteIsAlone, LoadedIsOwn, NothingOutlivesItsConversation
  <2>4. QED
    BY <2>1, <2>2, <2>3 DEF IInv
<1>2. IInv /\ [Next]_vars => IInv'
  BY TypeStep, TransactionStep, ConversationStep, DeleteAloneStep, StoreStep, LoadedStep
     DEF IInv, StoreInv
<1>3. QED
  BY <1>1, <1>2, PTL DEF Spec

(* Every variable keeps its type. *)
THEOREM TypeCorrect == Spec => []TypeOK
BY IInvHolds, PTL DEF IInv

LEMMA StoredIn ==
    \A t \in Turns :
        /\ Message(t, "user") \in messages => t \in Asked
        /\ Message(t, "assistant") \in messages => t \in Answered
<1>1. \A t \in Turns : \A role :
         Message(t, role).turn = t /\ Message(t, role).role = role
  BY DEF Message
<1>2. QED
  BY <1>1 DEF Asked, Answered, TurnsOf

(* run_sse stores an answer with its question, and a question without its  *)
(* answer only for a client that hung up before the answer.                *)
THEOREM AnswersComeWhole == Spec => []UnansweredIsLeft
<1>1. IInv => UnansweredIsLeft
  <2> SUFFICES ASSUME IInv PROVE UnansweredIsLeft
    OBVIOUS
  <2>1. ASSUME NEW m \in messages
        PROVE  /\ m.turn \in Turns
               /\ \/ m.turn \in Asked /\ m.turn \in Answered
                  \/ stage[m.turn] = "left" /\ m.role = "user"
    <3>1. m.turn \in Turns
      BY DEF IInv, TypeOK, Messages
    <3>2. conversation[place[m.turn]] = "live"
      BY DEF IInv, MessagesAreKept, Message, NothingOutlivesItsConversation
    <3>3. CASE stage[m.turn] \in {"kept", "ended"}
      <4>1. Message(m.turn, "user") \in messages /\ Message(m.turn, "assistant") \in messages
        BY <3>1, <3>2, <3>3 DEF IInv, KeptHasBoth
      <4>2. QED
        BY <3>1, <4>1, StoredIn
    <3>4. CASE stage[m.turn] = "left" /\ m.role = "user"
      BY <3>1, <3>4
    <3>5. QED
      BY <3>3, <3>4 DEF IInv, MessagesAreKept
  <2>2. Answered \subseteq Asked
    BY <2>1 DEF Answered, TurnsOf
  <2>3. \A t \in Asked \ Answered : stage[t] = "left"
    BY <2>1 DEF Asked, TurnsOf
  <2>4. QED
    BY <2>2, <2>3 DEF UnansweredIsLeft
<1>2. QED
  BY <1>1, IInvHolds, PTL

(* What a client was told of an answer is committed. *)
THEOREM ToldIsSafe == Spec => []ToldIsKept
<1>1. IInv => ToldIsKept
  BY StoredIn DEF IInv, TypeOK, ToldIsKept, ToldIsEnded, KeptHasBoth
<1>2. QED
  BY <1>1, IInvHolds, PTL

(* No message outlives its conversation. *)
THEOREM DeleteTakesAll == Spec => []NothingOutlivesItsConversation
BY IInvHolds, PTL DEF IInv

-----------------------------------------------------------------------------
(* The mapping of History, by name. *)
absHistory == [c \in Conversations |-> Said(c, "assistant")]
absAlone == [c \in Conversations |-> Said(c, "user") \ Said(c, "assistant")]
absKept == {t \in Turns : stage[t] \in {"kept", "ended"}}
absLeft == {t \in Turns : stage[t] = "left"}
absVars == <<conversation, absHistory, absAlone, absKept, absLeft, told>>

LEMMA SilentStep ==
    ASSUME UNCHANGED <<conversation, messages, told>>,
           \A t \in Turns : stage'[t] \in {"kept", "ended"} <=> stage[t] \in {"kept", "ended"},
           \A t \in Turns : stage'[t] = "left" <=> stage[t] = "left"
    PROVE  UNCHANGED absVars
<1>1. UNCHANGED <<absHistory, absAlone>>
  BY DEF absHistory, absAlone, Said, In
<1>2. UNCHANGED <<absKept, absLeft>>
  BY DEF absKept, absLeft
<1>3. QED
  BY <1>1, <1>2 DEF absVars

(* What is said in a conversation, by its messages. *)
LEMMA SaidBy ==
    ASSUME NEW c, NEW role, NEW t
    PROVE  t \in Said(c, role) <=> \E m \in messages : m.in = c /\ m.role = role /\ m.turn = t
BY DEF Said, TurnsOf, In

LEMMA SaidByNext ==
    ASSUME NEW c, NEW role, NEW t
    PROVE  t \in Said(c, role)' <=> \E m \in messages' : m.in = c /\ m.role = role /\ m.turn = t
BY DEF Said, TurnsOf, In

(* A question that is stored is said in its conversation, alone or with    *)
(* its answer, and a turn that has stored nothing yet has said nothing.    *)
LEMMA SaidMore ==
    ASSUME NEW t \in Turns, NEW role, role \in {"user", "assistant"},
           NEW M, messages' = messages \cup M,
           \A m \in M : m.in = place[t] /\ m.turn = t,
           NEW c
    PROVE  Said(c, role)' =
              IF c = place[t] /\ (\E m \in M : m.role = role) THEN Said(c, role) \cup {t}
              ELSE Said(c, role)
<1>1. ASSUME NEW s
      PROVE  s \in Said(c, role)' <=>
                \/ s \in Said(c, role)
                \/ c = place[t] /\ s = t /\ \E m \in M : m.role = role
  BY SaidBy, SaidByNext
<1>2. QED
  BY <1>1

LEMMA NothingSaidYet ==
    ASSUME IInv, NEW t \in Turns, stage[t] \notin {"kept", "ended", "left"}, NEW c, NEW role
    PROVE  t \notin Said(c, role)
BY SaidBy DEF IInv, MessagesAreKept

LEMMA TurnImplements ==
    ASSUME IInv, NEW t \in Turns, Begin(t) \/ TurnStep(t)
    PROVE  History!HistoryNext \/ UNCHANGED absVars
<1> USE DEF IInv, TypeOK
<1>0. PICK c : c = place[t]
  OBVIOUS
<1>1. CASE Begin(t) \/ Ask(t) \/ AskInVain(t) \/ Touch(t) \/ Answer(t)
  <2>1. PICK to \in {"begun", "asked", "touched", "answered", "failed"} :
           stage[t] \notin {"kept", "ended", "left"} /\ stage' = [stage EXCEPT ![t] = to]
    BY <1>1 DEF Begin, Ask, AskInVain, Touch, Answer, Goto
  <2>2. UNCHANGED <<conversation, messages, told>>
    BY <1>1 DEF Begin, Ask, AskInVain, Touch, Answer
  <2>3. QED
    BY <2>1, <2>2, SilentStep
<1>2. CASE Keep(t) \/ KeepUnheard(t)
  <2>0. PICK M : M = {Message(t, "user"), Message(t, "assistant")}
    OBVIOUS
  <2>1. /\ stage[t] = "answered"
        /\ messages' = messages \cup M
        /\ UNCHANGED <<conversation, place, told>>
    BY <1>2, <2>0 DEF Keep, KeepUnheard, CommitTurn, TransactionTellsStage, Written
  <2>2. PICK to \in {"kept", "ended"} : stage' = [stage EXCEPT ![t] = to]
    BY <1>2 DEF Keep, KeepUnheard
  <2>3. c \in Conversations /\ conversation[c] = "live"
    BY <1>0, <2>1 DEF ConversationIsHeld, TransactionTellsStage, Written
  <2>4. /\ t \notin absKept \cup absLeft
        /\ absKept' = absKept \cup {t}
        /\ absLeft' = absLeft
    BY <2>1, <2>2 DEF absKept, absLeft
  <2>5. /\ \A m \in M : m.in = place[t] /\ m.turn = t
        /\ \E m \in M : m.role = "user"
        /\ \E m \in M : m.role = "assistant"
    BY <2>0 DEF Message
  <2>6. ASSUME NEW b, NEW role, role \in {"user", "assistant"}
        PROVE  Said(b, role)' = IF b = c THEN Said(b, role) \cup {t} ELSE Said(b, role)
    <3>1. \E m \in M : m.role = role
      BY <2>5, <2>6
    <3>2. Said(b, role)' = IF b = place[t] /\ (\E m \in M : m.role = role)
                           THEN Said(b, role) \cup {t} ELSE Said(b, role)
      BY <2>1, <2>5, <2>6, SaidMore
    <3>3. QED
      BY <1>0, <3>1, <3>2
  <2>7. absHistory' = [absHistory EXCEPT ![c] = @ \cup {t}]
    BY <2>3, <2>6 DEF absHistory
  <2>8. absAlone' = absAlone
    <3>1. ASSUME NEW b \in Conversations
          PROVE  (Said(b, "user") \ Said(b, "assistant"))' = Said(b, "user") \ Said(b, "assistant")
      <4>1. t \notin Said(b, "user") /\ t \notin Said(b, "assistant")
        BY <2>1, NothingSaidYet
      <4>2. QED
        BY <2>6, <4>1
    <3>2. QED
      BY <3>1 DEF absAlone
  <2> HIDE DEF IInv, TypeOK
  <2>9. History!Keep(t, c)
    BY <2>1, <2>3, <2>4, <2>7, <2>8
       DEF History!Keep, absHistory, absAlone, absKept, absLeft
  <2>10. QED
    BY <2>3, <2>9 DEF History!HistoryNext
<1>3. CASE Stream(t)
  <2>1. t \in absKept /\ absKept' = absKept /\ absLeft' = absLeft
    BY <1>3 DEF Stream, Goto, absKept, absLeft
  <2>2. absHistory' = absHistory /\ absAlone' = absAlone
    BY <1>3 DEF Stream, absHistory, absAlone, Said, In
  <2>3. History!Tell(t)
    BY <1>3, <2>1, <2>2 DEF Stream, History!Tell, absHistory, absAlone, absKept, absLeft
  <2>4. QED
    BY <2>3 DEF History!HistoryNext
<1>4. CASE Drop(t)
  BY <1>4, SilentStep DEF Drop
<1>5. CASE HangUp(t)
  <2>0. PICK M : M = {Message(t, "user")}
    OBVIOUS
  <2>1. /\ stage[t] = "touched"
        /\ stage' = [stage EXCEPT ![t] = "left"]
        /\ messages' = messages \cup M
        /\ UNCHANGED <<conversation, place, told>>
    BY <1>5, <2>0 DEF HangUp, Goto, TransactionTellsStage, Written
  <2>3. c \in Conversations /\ conversation[c] = "live"
    BY <1>0, <2>1 DEF ConversationIsHeld, TransactionTellsStage, Written
  <2>4. /\ t \notin absKept \cup absLeft
        /\ absKept' = absKept
        /\ absLeft' = absLeft \cup {t}
    BY <2>1 DEF absKept, absLeft
  <2>5. /\ \A m \in M : m.in = place[t] /\ m.turn = t /\ m.role = "user"
        /\ \E m \in M : m.role = "user"
    BY <2>0 DEF Message
  <2>6. ASSUME NEW b
        PROVE  /\ Said(b, "user")' = IF b = c THEN Said(b, "user") \cup {t} ELSE Said(b, "user")
               /\ Said(b, "assistant")' = Said(b, "assistant")
    BY <1>0, <2>1, <2>5, SaidMore
  <2>7. absHistory' = absHistory
    BY <2>6 DEF absHistory
  <2>8. absAlone' = [absAlone EXCEPT ![c] = @ \cup {t}]
    <3>1. ASSUME NEW b \in Conversations
          PROVE  (Said(b, "user") \ Said(b, "assistant"))' =
                    IF b = c THEN (Said(b, "user") \ Said(b, "assistant")) \cup {t}
                    ELSE Said(b, "user") \ Said(b, "assistant")
      <4>1. t \notin Said(b, "assistant")
        BY <2>1, NothingSaidYet
      <4>2. QED
        BY <2>6, <4>1
    <3>2. QED
      BY <2>3, <3>1 DEF absAlone
  <2> HIDE DEF IInv, TypeOK
  <2>9. History!Leave(t, c)
    BY <2>1, <2>3, <2>4, <2>7, <2>8
       DEF History!Leave, absHistory, absAlone, absKept, absLeft
  <2>10. QED
    BY <2>3, <2>9 DEF History!HistoryNext
<1>6. QED
  BY <1>1, <1>2, <1>3, <1>4, <1>5 DEF TurnStep

LEMMA DeleteImplements ==
    ASSUME IInv, NEW d \in Deletes, DeleteStep(d)
    PROVE  History!HistoryNext \/ UNCHANGED absVars
<1> USE DEF IInv, TypeOK
<1>1. CASE DeleteRead(d) \/ DeleteRow(d) \/ DeleteNothing(d) \/ DeleteAbort(d)
  BY <1>1, SilentStep DEF DeleteRead, DeleteRow, DeleteNothing, DeleteAbort, DeleteUnchanged
<1>2. CASE DeleteCommit(d)
  <2>0. PICK c : c = delete[d].in
    OBVIOUS
  <2>1. c \in Conversations /\ conversation[c] = "live"
    BY <1>2, <2>0 DEF DeleteCommit, DeleteIsAlone
  <2>2. /\ conversation' = [conversation EXCEPT ![c] = "gone"]
        /\ UNCHANGED <<stage, told>>
    BY <1>2, <2>0 DEF DeleteCommit, DeleteUnchanged
  <2>3. \A b \in Conversations : In(b)' = IF b = c THEN {} ELSE In(b)
    BY <1>2, <2>0 DEF DeleteCommit, In, LoadedIsOwn
  <2>a. ASSUME NEW b \in Conversations, NEW role
        PROVE  Said(b, role)' = IF b = c THEN {} ELSE Said(b, role)
    <3>1. Said(b, role)' = TurnsOf({m \in In(b)' : m.role = role})
      BY DEF Said, TurnsOf
    <3>2. QED
      BY <2>3, <3>1 DEF Said, TurnsOf
  <2>4. /\ absHistory' = [absHistory EXCEPT ![c] = {}]
        /\ absAlone' = [absAlone EXCEPT ![c] = {}]
    BY <2>1, <2>a DEF absHistory, absAlone
  <2>5. absKept' = absKept /\ absLeft' = absLeft
    BY <2>2 DEF absKept, absLeft
  <2> HIDE DEF IInv, TypeOK
  <2>6. History!Close(c)
    BY <2>1, <2>2, <2>4, <2>5 DEF History!Close, absHistory, absAlone, absKept, absLeft
  <2>7. QED
    BY <2>1, <2>6 DEF History!HistoryNext
<1>3. QED
  BY <1>1, <1>2 DEF DeleteStep

(* The chat endpoints implement ChatHistory: turns come whole, or as the   *)
(* question of a client that hung up, are told only when kept, and go with *)
(* their conversation.                                                     *)
THEOREM Refinement == Spec => ImplementsHistory
<1>1. Init => History!HistoryInit
  BY DEF Init, History!HistoryInit, In, Said, TurnsOf
<1>2. IInv /\ [Next]_vars => [History!HistoryNext]_History!historyVars
  <2> SUFFICES ASSUME IInv, [Next]_vars
               PROVE  History!HistoryNext \/ UNCHANGED absVars
    BY DEF absVars, absHistory, absAlone, absKept, absLeft, History!historyVars
  <2>1. ASSUME NEW c \in Conversations, Create(c) PROVE History!HistoryNext
    <3>1. UNCHANGED <<absHistory, absAlone, absKept, absLeft, told>>
      BY <2>1 DEF Create, absHistory, absAlone, absKept, absLeft, Said, In
    <3>2. History!Open(c)
      BY <2>1, <3>1 DEF Create, History!Open, absHistory, absAlone, absKept, absLeft
    <3>3. QED
      BY <3>2 DEF History!HistoryNext
  <2>2. ASSUME NEW r \in Renames, RenameStep(r) PROVE UNCHANGED absVars
    BY <2>2, OthersLeaveTurns, SilentStep DEF turnVars
  <2>3. CASE UNCHANGED vars
    BY <2>3, SilentStep DEF vars
  <2>4. QED
    BY <2>1, <2>2, <2>3, TurnImplements, DeleteImplements DEF Next
<1>3. QED
  BY <1>1, <1>2, IInvHolds, PTL DEF Spec, ImplementsHistory, History!HistorySpec
=============================================================================
