------------------------------ MODULE ChatTurns ------------------------------
(***************************************************************************)
(* The chat endpoints of one user.  A turn (POST .../messages) is a single *)
(* transaction that writes the question, asks the workflow, writes the     *)
(* answer, commits, and only then streams; if the client goes away before  *)
(* the answer is there, the question may be committed alone.               *)
(* `conversation' and `messages' are committed rows; `pending' is what a   *)
(* turn has written so far.  Row locks on a conversations row: an INSERT   *)
(* into messages takes FOR KEY SHARE (its foreign key), an UPDATE takes NO *)
(* KEY UPDATE, which bears the former but not another of its kind, a       *)
(* DELETE bears neither.                                                   *)
(* Texts, scopes, times and the owner of a conversation are left out.      *)
(***************************************************************************)
CONSTANTS
    Conversations,
    Turns,      \* requests POST /chat/conversations/{id}/messages
    Renames,    \* requests PATCH /chat/conversations/{id}
    Deletes     \* requests DELETE /chat/conversations/{id}

VARIABLES
    conversation,   \* "none", "live" or "gone"
    messages,       \* committed rows of messages
    stage,          \* turn -> where its coroutine stands
    place,          \* turn -> its conversation
    pending,        \* turn -> rows its open transaction has inserted
    told,           \* turns of whose answer a client has received something
    rename, delete  \* request -> where it stands, with which conversation

vars == <<conversation, messages, stage, place, pending, told, rename, delete>>
requests == <<rename, delete>>

(* "ended": committed, and streamed as far as the client listened.         *)
(* "left": the client was gone before the answer, the question committed.  *)
(* "failed": rolled back.                                                  *)
TurnStages ==
    {"new", "begun", "asked", "touched", "answered", "kept", "ended", "left", "failed"}
Message(t, role) == [turn |-> t, role |-> role, in |-> place[t]]
In(c) == {m \in messages : m.in = c}

KeyShared(c) == \E t \in Turns : pending[t] # {} /\ place[t] = c
Updated(c) ==
    \/ \E t \in Turns : stage[t] \in {"touched", "answered"} /\ place[t] = c
    \/ \E r \in Renames : rename[r].stage = "updated" /\ rename[r].in = c
Deleted(c) == \E d \in Deletes : delete[d].stage = "deleted" /\ delete[d].in = c

Init ==
    /\ conversation = [c \in Conversations |-> "none"]
    /\ messages = {}
    /\ stage = [t \in Turns |-> "new"]
    /\ place \in [Turns -> Conversations]
    /\ pending = [t \in Turns |-> {}]
    /\ told = {}
    /\ rename \in [Renames -> [stage : {"new"}, in : Conversations]]
    /\ delete \in [Deletes -> [stage : {"new"}, in : Conversations, loaded : {{}}]]

(* create_conversation. *)
Create(c) ==
    /\ conversation[c] = "none"
    /\ conversation' = [conversation EXCEPT ![c] = "live"]
    /\ UNCHANGED <<messages, stage, place, pending, told, requests>>

-----------------------------------------------------------------------------
(* ChatService.run_sse.                                                    *)

Goto(t, from, to) == stage[t] = from /\ stage' = [stage EXCEPT ![t] = to]

(* get_current_user reads the users row: the transaction starts here.  A   *)
(* client may still post to a conversation it does not know to be deleted. *)
Begin(t) ==
    /\ conversation[place[t]] # "none"
    /\ Goto(t, "new", "begun")
    /\ UNCHANGED <<conversation, messages, place, pending, told, requests>>

\* Mutant: the question is committed at once.
AskCommitted(t) ==
    /\ Goto(t, "begun", "asked")
    /\ conversation[place[t]] = "live" /\ ~Deleted(place[t])
    /\ messages' = messages \cup {Message(t, "user")}
    /\ pending' = [pending EXCEPT ![t] = {Message(t, "user")}]
    /\ UNCHANGED <<conversation, place, told, requests>>

(* append_user_message: INSERT, FOR KEY SHARE on the conversation. *)
Ask(t) ==
    /\ Goto(t, "begun", "asked")
    /\ conversation[place[t]] = "live" /\ ~Deleted(place[t])
    /\ pending' = [pending EXCEPT ![t] = {Message(t, "user")}]
    /\ UNCHANGED <<conversation, messages, place, told, requests>>

(* The conversation is gone: foreign key violation, the body breaks off.   *)
AskInVain(t) ==
    /\ Goto(t, "begun", "failed")
    /\ conversation[place[t]] = "gone"
    /\ UNCHANGED <<conversation, messages, place, pending, told, requests>>

\* Mutant: as if the UPDATE touched a key, and did not bear FOR KEY SHARE.
TouchExclusively(t) ==
    /\ Goto(t, "asked", "touched")
    /\ ~Updated(place[t]) /\ ~Deleted(place[t])
    /\ \A s \in Turns \ {t} : pending[s] # {} => place[s] # place[t]
    /\ UNCHANGED <<conversation, messages, place, pending, told, requests>>

(* conv.updated_at is dirty: the first query of the retrieval, or else the *)
(* commit of get_db_session, flushes the UPDATE, and its lock is held      *)
(* while the model writes.                                                 *)
Touch(t) ==
    /\ Goto(t, "asked", "touched")
    /\ ~Updated(place[t]) /\ ~Deleted(place[t])
    /\ UNCHANGED <<conversation, messages, place, pending, told, requests>>

\* Mutant: the answer is stored under the third role of the column.
AnswerAsSystem(t) ==
    /\ Goto(t, "touched", "answered")
    /\ pending' = [pending EXCEPT ![t] = @ \cup {Message(t, "system")}]
    /\ UNCHANGED <<conversation, messages, place, told, requests>>

(* The workflow has answered; append_assistant_message. *)
Answer(t) ==
    /\ Goto(t, "touched", "answered")
    /\ pending' = [pending EXCEPT ![t] = @ \cup {Message(t, "assistant")}]
    /\ UNCHANGED <<conversation, messages, place, told, requests>>

CommitTurn(t) ==
    /\ stage[t] = "answered"
    /\ messages' = messages \cup pending[t]
    /\ pending' = [pending EXCEPT ![t] = {}]
    /\ UNCHANGED <<conversation, place, told, requests>>

\* Mutant: no commit here, the session is committed after the response.
KeepWithoutCommit(t) ==
    /\ Goto(t, "answered", "kept")
    /\ UNCHANGED <<conversation, messages, place, pending, told, requests>>

(* self.db.commit() returns. *)
Keep(t) == CommitTurn(t) /\ stage' = [stage EXCEPT ![t] = "kept"]

(* The client disconnects while COMMIT is under way: the coroutine is      *)
(* cancelled, the server may have committed all the same.                  *)
KeepUnheard(t) == CommitTurn(t) /\ stage' = [stage EXCEPT ![t] = "ended"]

(* The events, chunk* citation? done, are yielded from the list. *)
Stream(t) ==
    /\ Goto(t, "kept", "ended")
    /\ told' = told \cup {t}
    /\ UNCHANGED <<conversation, messages, place, pending, requests>>

(* The client disconnects while the embedding, Qdrant, the reranker or the *)
(* model is awaited.  StreamingResponse cancels the body and returns as if *)
(* it had ended, so get_db_session goes on to its commit: of the question, *)
(* and of nothing else.                                                    *)
HangUp(t) ==
    /\ Goto(t, "touched", "left")
    /\ messages' = messages \cup pending[t]
    /\ pending' = [pending EXCEPT ![t] = {}]
    /\ UNCHANGED <<conversation, place, told, requests>>

(* The model, a provider or the database fails, the process ends, or the   *)
(* client disconnects while the database is awaited, which breaks the      *)
(* connection: what is not committed is rolled back.                       *)
Drop(t) ==
    /\ stage[t] \in {"begun", "asked", "touched", "answered", "kept"}
    /\ stage' = [stage EXCEPT ![t] = IF @ = "kept" THEN "ended" ELSE "failed"]
    /\ pending' = [pending EXCEPT ![t] = {}]
    /\ UNCHANGED <<conversation, messages, place, told, requests>>

-----------------------------------------------------------------------------
(* update_conversation: get, UPDATE of the title, COMMIT.  The title is    *)
(* left out; what matters is the row lock.                                 *)
RenameGoto(r, from, to) ==
    /\ rename[r].stage = from
    /\ rename' = [rename EXCEPT ![r].stage = to]
    /\ UNCHANGED <<conversation, messages, stage, place, pending, told, delete>>

RenameRead(r) ==
    RenameGoto(r, "new", IF conversation[rename[r].in] = "live" THEN "read" ELSE "over")

RenameUpdate(r) ==
    /\ conversation[rename[r].in] = "live"
    /\ ~Updated(rename[r].in) /\ ~Deleted(rename[r].in)
    /\ RenameGoto(r, "read", "updated")

(* No row matches: StaleDataError, 500. *)
RenameStale(r) == conversation[rename[r].in] = "gone" /\ RenameGoto(r, "read", "over")

(* COMMIT, or the database fails: this model sees no difference. *)
RenameEnd(r) == RenameGoto(r, "updated", "over")

-----------------------------------------------------------------------------
(* delete_conversation.                                                    *)
DeleteUnchanged == UNCHANGED <<stage, place, pending, told, rename>>

(* get; db.delete loads the messages, for the cascade of the relationship. *)
DeleteRead(d) ==
    /\ delete[d].stage = "new"
    /\ LET c == delete[d].in IN
       delete' = [delete EXCEPT ![d] = [@ EXCEPT
           !.stage = IF conversation[c] = "live" THEN "read" ELSE "over", !.loaded = In(c)]]
    /\ UNCHANGED <<conversation, messages>> /\ DeleteUnchanged

\* Mutant: the row is taken while a turn has a message in it.
DeleteRowBoldly(d) ==
    /\ delete[d].stage = "read"
    /\ LET c == delete[d].in IN conversation[c] = "live" /\ ~Updated(c) /\ ~Deleted(c)
    /\ delete' = [delete EXCEPT ![d].stage = "deleted"]
    /\ UNCHANGED <<conversation, messages>> /\ DeleteUnchanged

(* The flush at commit: DELETE of the loaded messages and of the row. *)
DeleteRow(d) ==
    /\ delete[d].stage = "read"
    /\ LET c == delete[d].in
       IN conversation[c] = "live" /\ ~KeyShared(c) /\ ~Updated(c) /\ ~Deleted(c)
    /\ delete' = [delete EXCEPT ![d].stage = "deleted"]
    /\ UNCHANGED <<conversation, messages>> /\ DeleteUnchanged

(* Another delete was faster: no row matches, which is only a warning. *)
DeleteNothing(d) ==
    /\ delete[d].stage = "read"
    /\ conversation[delete[d].in] = "gone"
    /\ delete' = [delete EXCEPT ![d].stage = "over"]
    /\ UNCHANGED <<conversation, messages>> /\ DeleteUnchanged

\* Mutant: no ON DELETE CASCADE behind the messages that were loaded.
DeleteCommitLoaded(d) ==
    /\ delete[d].stage = "deleted"
    /\ conversation' = [conversation EXCEPT ![delete[d].in] = "gone"]
    /\ messages' = messages \ delete[d].loaded
    /\ delete' = [delete EXCEPT ![d].stage = "over"]
    /\ DeleteUnchanged

(* COMMIT; messages committed since they were loaded go by ON DELETE       *)
(* CASCADE.                                                                *)
DeleteCommit(d) ==
    /\ delete[d].stage = "deleted"
    /\ conversation' = [conversation EXCEPT ![delete[d].in] = "gone"]
    /\ messages' = (messages \ delete[d].loaded) \ In(delete[d].in)
    /\ delete' = [delete EXCEPT ![d].stage = "over"]
    /\ DeleteUnchanged

DeleteAbort(d) ==
    /\ delete[d].stage \in {"read", "deleted"}
    /\ delete' = [delete EXCEPT ![d].stage = "over"]
    /\ UNCHANGED <<conversation, messages>> /\ DeleteUnchanged

-----------------------------------------------------------------------------
TurnStep(t) ==
    \/ Ask(t) \/ AskInVain(t) \/ Touch(t) \/ Answer(t)
    \/ Keep(t) \/ KeepUnheard(t) \/ Stream(t) \/ HangUp(t) \/ Drop(t)
RenameStep(r) == RenameRead(r) \/ RenameUpdate(r) \/ RenameStale(r) \/ RenameEnd(r)
DeleteStep(d) ==
    DeleteRead(d) \/ DeleteRow(d) \/ DeleteNothing(d) \/ DeleteCommit(d) \/ DeleteAbort(d)

Next ==
    \/ \E c \in Conversations : Create(c)
    \/ \E t \in Turns : Begin(t) \/ TurnStep(t)
    \/ \E r \in Renames : RenameStep(r)
    \/ \E d \in Deletes : DeleteStep(d)

Spec == Init /\ [][Next]_vars

(* The event loop runs what is not waiting; every call to the model has a  *)
(* timeout; PostgreSQL grants a row lock to those who wait for it.  That a *)
(* client disconnects or the database fails is not something to rely on.   *)
Advance(t) == AskInVain(t) \/ Answer(t) \/ Keep(t) \/ Stream(t)
Fairness ==
    /\ \A t \in Turns : WF_vars(Advance(t)) /\ SF_vars(Ask(t)) /\ SF_vars(Touch(t))
    /\ \A r \in Renames :
          WF_vars(RenameStale(r) \/ RenameEnd(r)) /\ SF_vars(RenameUpdate(r))
    /\ \A d \in Deletes : WF_vars(DeleteNothing(d) \/ DeleteCommit(d)) /\ SF_vars(DeleteRow(d))

FairSpec == Spec /\ Fairness

-----------------------------------------------------------------------------
(* Properties.                                                             *)

Messages == [turn : Turns, role : {"user", "assistant"}, in : Conversations]

TypeOK ==
    /\ conversation \in [Conversations -> {"none", "live", "gone"}]
    /\ messages \subseteq Messages
    /\ stage \in [Turns -> TurnStages]
    /\ place \in [Turns -> Conversations]
    /\ pending \in [Turns -> SUBSET Messages]
    /\ told \subseteq Turns
    /\ rename \in [Renames -> [stage : {"new", "read", "updated", "over"}, in : Conversations]]
    /\ delete \in [Deletes -> [stage : {"new", "read", "deleted", "over"},
                               in : Conversations, loaded : SUBSET Messages]]

TurnsOf(M) == {m.turn : m \in M}
Asked == TurnsOf({m \in messages : m.role = "user"})
Answered == TurnsOf({m \in messages : m.role = "assistant"})

(* An answer is never stored without its question; and a question without  *)
(* its answer only if its client has hung up: no failure of the model or   *)
(* of a provider, no crash between the two INSERTs leaves one behind, and  *)
(* it is the question of a turn that will not go on.                       *)
UnansweredIsLeft ==
    /\ Answered \subseteq Asked
    /\ \A t \in Asked \ Answered : stage[t] = "left"

(* Of an answer a client has begun to read, nothing can be rolled back:    *)
(* run_sse commits before the first event is yielded.  Only deleting the   *)
(* conversation takes it away.                                             *)
ToldIsKept ==
    \A t \in told : t \in Answered \/ conversation[place[t]] = "gone"

(* Deleting a conversation deletes its messages, those of a turn that was  *)
(* committed after the delete had loaded the list included, and no turn    *)
(* under way brings any back.                                              *)
NothingOutlivesItsConversation == \A m \in messages : conversation[m.in] = "live"

(* Turns appear whole, or as a question that stays alone, and go with      *)
(* their conversation: see ChatHistory.                                    *)
Said(c, role) == TurnsOf({m \in In(c) : m.role = role})
History == INSTANCE ChatHistory WITH
    state <- conversation,
    history <- [c \in Conversations |-> Said(c, "assistant")],
    alone <- [c \in Conversations |-> Said(c, "user") \ Said(c, "assistant")],
    kept <- {t \in Turns : stage[t] \in {"kept", "ended"}},
    left <- {t \in Turns : stage[t] = "left"},
    told <- told
ImplementsHistory == History!HistorySpec

(* Turns hold a shared lock and then want a stronger one, deletes want the *)
(* strongest: no two of them wait for each other.                          *)
EveryRequestEnds ==
    /\ \A t \in Turns : stage[t] = "begun" ~> stage[t] \in {"ended", "left", "failed"}
    /\ \A r \in Renames : rename[r].stage = "read" ~> rename[r].stage = "over"
    /\ \A d \in Deletes : delete[d].stage = "read" ~> delete[d].stage = "over"
=============================================================================
