------------------------------ MODULE ChatPage ------------------------------
(***************************************************************************)
(* The chat page of the browser: the one list of messages it shows, while  *)
(* it asks, streams, stops, moves between conversations and deletes them.  *)
(*                                                                         *)
(* The list (useChatStore.messages) belongs to no conversation: it is      *)
(* overwritten by whichever fetch of messages arrives, even one cancelled  *)
(* or of a conversation that was left, a question and an answer are added  *)
(* to whatever it holds, and choosing a conversation does not touch it.    *)
(* The query cache works as in module FilesPage.  Of the server this needs *)
(* what ChatTurns shows: a turn commits two rows or none, then streams; or *)
(* its question alone, when the server finds the client gone.              *)
(***************************************************************************)
EXTENDS Integers

CONSTANTS
    Conversations,
    NewChat,        \* currentConversationId = null: none of Conversations
    MaxTurns,       \* bound: what is asked in this session
    PageSize        \* messages in the one page that is fetched: 100

ASSUME ChatAssumption ==
    NewChat \notin Conversations /\ MaxTurns \in Nat /\ PageSize \in Nat

VARIABLES
    rows,           \* committed messages of each conversation, Absent before it is created
    conversation,   \* currentConversationId
    url,            \* ?conversation= in the address, or NewChat
    list,           \* the list shown: of which conversation, how many rows, how many added
    data,           \* rows in the data of each query, or NoList
    outdated,       \* isInvalidated of each query
    getting,        \* each query's fetch: NotGetting, Requested, or the rows on their way
    strays,         \* the queries with a fetch that was cancelled
    turn,           \* each turn of the session: how far it is, and where
    loading,        \* while isLoading, the turn that sseRef would close
    removing,       \* the conversation whose DELETE is under way, or NewChat
    wrong           \* history: conversations whose list the page got wrong

queryVars == <<conversation, data, outdated, getting, strays>>
turnVars == <<turn, loading>>
navVars == <<url, removing>>
chatVars == <<rows, queryVars, list, turnVars, navVars, wrong>>

NotCreated == -1
Gone == -2
NoList == -1
NotGetting == -1
Requested == -2

(* "asked": posted; "kept": committed; "told": the done event was read;    *)
(* "closed": aborted by the user, of which the server may learn too late;  *)
(* "cut": the connection is lost, and the server was the first to see it.  *)
TurnSteps == {"new", "creating", "asked", "kept", "told", "closed", "cut", "over"}

Existing == {c \in Conversations : rows[c] \notin {NotCreated, Gone}}
FirstPage(c) == IF rows[c] = Gone THEN 0 ELSE IF rows[c] < PageSize THEN rows[c] ELSE PageSize

\* Numbered as they are asked.
Turns == 1 .. MaxTurns
NoTurn == 0

NotAsked == [step |-> "new", in |-> NewChat]
Over == [step |-> "over", in |-> NewChat]
isLoading == loading # NoTurn
IsNext(t) == turn[t].step = "new" /\ \A s \in 1 .. t - 1 : turn[s].step # "new"

TurnGoes(t, step) ==
    turn' = [turn EXCEPT ![t] = IF step = "over" THEN Over ELSE [@ EXCEPT !.step = step]]

(* addMessage: to the list, whosoever it is.                               *)
WithOneMore == [list EXCEPT !.added = @ + 1]

----------------------------------------------------------------------------
(* The query ["messages", c].                                              *)

Overlooked(c) == getting[c] # NotGetting /\ (c # conversation \/ data[c] = NoList)

(* The fetches after an invalidation of c, and those it cancels.           *)
Restarts(c) == c = conversation /\ ~Overlooked(c)
Refetched(c) == IF Restarts(c) THEN [getting EXCEPT ![c] = Requested] ELSE getting
Cancelled(c) == IF Restarts(c) /\ getting[c] # NotGetting THEN strays \cup {c} ELSE strays

MessagesAnswered(c) ==
    /\ getting[c] = Requested
    /\ getting' = [getting EXCEPT ![c] = FirstPage(c)]
    /\ UNCHANGED <<rows, conversation, data, outdated, strays, list, turnVars, wrong, navVars>>

MessagesArrive(c) ==
    /\ getting[c] >= 0
    /\ data' = [data EXCEPT ![c] = getting[c]]
    /\ outdated' = [outdated EXCEPT ![c] = FALSE]
    /\ list' = [of |-> c, rows |-> getting[c], added |-> 0]
    /\ getting' = [getting EXCEPT ![c] = NotGetting]
    /\ wrong' = wrong \cup ({conversation} \ {c})
    /\ UNCHANGED <<rows, conversation, strays, turnVars, navVars>>

MessagesFail(c) ==
    /\ getting[c] # NotGetting
    /\ getting' = [getting EXCEPT ![c] = NotGetting]
    /\ wrong' = wrong \cup {c}
    /\ UNCHANGED <<rows, conversation, data, outdated, strays, list, turnVars, navVars>>

(* A cancelled fetch still ends in setMessages, with an answer of any age. *)
StrayArrives(c, n) ==
    /\ c \in strays
    /\ rows[c] # Gone => n <= FirstPage(c)
    /\ strays' = strays \ {c}
    /\ list' = [of |-> c, rows |-> n, added |-> 0]
    /\ wrong' = wrong \cup {conversation}
    /\ UNCHANGED <<rows, conversation, data, outdated, getting, turnVars, navVars>>

(* A conversation is chosen.  Its query is fetched if it has no data, was  *)
(* invalidated, or is older than staleTime (`stale'); else the list stays  *)
(* what it was.                                                            *)
Choose(c, stale) ==
    LET starts == getting[c] = NotGetting /\ (data[c] = NoList \/ outdated[c] \/ stale)
    IN  /\ c \in (Existing \cup {removing}) \ {NewChat, conversation}
        /\ conversation' = c
        /\ url' = c
        /\ getting' = IF starts THEN [getting EXCEPT ![c] = Requested] ELSE getting
        /\ wrong' = IF starts THEN wrong \ ({c} \cap Existing)
                   ELSE IF /\ getting[c] = NotGetting
                           /\ list # [of |-> c, rows |-> data[c], added |-> 0]
                     THEN wrong \cup {c} ELSE wrong
        /\ UNCHANGED <<rows, data, outdated, strays, list, turnVars, removing>>

(* The conversation shown, chosen in the list, is only put in the address. *)
ChooseSame ==
    /\ conversation \in (Existing \cup {removing}) \ {NewChat, url}
    /\ url' = conversation
    /\ UNCHANGED <<rows, queryVars, list, turnVars, removing, wrong>>

(* handleNewChat.                                                          *)
StartNewChat ==
    /\ <<conversation, url>> # <<NewChat, NewChat>>
    /\ conversation' = NewChat /\ url' = NewChat
    /\ UNCHANGED <<rows, data, outdated, getting, strays, list, turnVars, removing, wrong>>

----------------------------------------------------------------------------
(* handleSend.                                                             *)

(* In a new chat a conversation is created first; until the reply nothing  *)
(* tells the page that it is busy.                                         *)
CreateSent(t) ==
    /\ IsNext(t) /\ conversation = NewChat /\ ~isLoading
    /\ TurnGoes(t, "creating")
    /\ UNCHANGED <<rows, queryVars, list, loading, wrong, navVars>>

CreateFails(t) ==
    /\ turn[t].step = "creating"
    /\ TurnGoes(t, "over")
    /\ UNCHANGED <<rows, queryVars, list, loading, wrong, navVars>>

(* addConversation chooses the new conversation and empties the list; the  *)
(* question is added and posted; and the query of the new conversation is  *)
(* fetched, at a time when the server has no message of it.                *)
Created(t, c) ==
    /\ turn[t].step = "creating" /\ rows[c] = NotCreated
    /\ rows' = [rows EXCEPT ![c] = 0]
    /\ conversation' = c
    /\ list' = [of |-> c, rows |-> 0, added |-> 1]
    /\ turn' = [turn EXCEPT ![t] = [step |-> "asked", in |-> c]]
    /\ loading' = t
    /\ getting' = [getting EXCEPT ![c] = Requested]
    /\ UNCHANGED <<data, outdated, strays, wrong, navVars>>

Ask(t) ==
    /\ IsNext(t) /\ conversation # NewChat /\ ~isLoading
    /\ list' = WithOneMore
    /\ turn' = [turn EXCEPT ![t] = [step |-> "asked", in |-> conversation]]
    /\ loading' = t
    /\ UNCHANGED <<rows, queryVars, wrong, navVars>>

(* The server commits the turn, or fails, whether or not it is listened to.*)
Commit(t) ==
    /\ turn[t].step \in {"asked", "closed"} /\ turn[t].in \in Existing
    /\ rows' = [rows EXCEPT ![turn[t].in] = @ + 2]
    /\ TurnGoes(t, IF turn[t].step = "asked" THEN "kept" ELSE "over")
    /\ wrong' = IF turn[t].step = "asked" THEN wrong ELSE wrong \cup {turn[t].in}
    /\ UNCHANGED <<queryVars, list, loading, navVars>>

(* The server finds the client gone, and commits what it has: a question.  *)
CommitQuestion(t) ==
    /\ turn[t].step \in {"asked", "closed"} /\ turn[t].in \in Existing
    /\ rows' = [rows EXCEPT ![turn[t].in] = @ + 1]
    /\ TurnGoes(t, IF turn[t].step = "asked" THEN "cut" ELSE "over")
    /\ wrong' = wrong \cup {turn[t].in}
    /\ UNCHANGED <<queryVars, list, loading, navVars>>

\* Mutant: the conversation's messages are not invalidated.
OnDoneQuietly(t, next) ==
    /\ list' = WithOneMore
    /\ loading' = NoTurn
    /\ wrong' = IF conversation = turn[t].in THEN wrong ELSE wrong \cup {conversation}
    /\ TurnGoes(t, next)
    /\ UNCHANGED <<rows, queryVars, navVars>>

(* onDone: an answer is added to the list shown, whichever it is, and the  *)
(* messages of the conversation asked are invalidated.                     *)
OnDone(t, next) ==
    LET c == turn[t].in
    IN  /\ list' = WithOneMore
        /\ loading' = NoTurn
        /\ outdated' = [outdated EXCEPT ![c] = TRUE]
        /\ getting' = Refetched(c)
        /\ strays' = Cancelled(c)
        /\ wrong' = IF Overlooked(c) THEN wrong \cup {c, conversation}
                   ELSE IF c = conversation THEN wrong \ ({c} \cap Existing)
                   ELSE wrong \cup {conversation}
        /\ TurnGoes(t, next)
        /\ UNCHANGED <<rows, conversation, data, navVars>>

(* The done event; then, the server sending no [DONE], the end of the      *)
(* stream, which calls onDone a second time.                               *)
DoneRead(t) == turn[t].step = "kept" /\ OnDone(t, "told")
StreamEnds(t) == turn[t].step = "told" /\ OnDone(t, "over")

(* onError: the turn failed, or the connection did, before or after the    *)
(* commit.                                                                 *)
StreamBreaks(t) ==
    /\ turn[t].step \in {"asked", "kept", "told", "cut"}
    /\ loading' = NoTurn
    /\ wrong' = IF turn[t].step = "told" THEN wrong ELSE wrong \cup {turn[t].in}
    /\ TurnGoes(t, IF turn[t].step = "asked" THEN "closed" ELSE "over")
    /\ UNCHANGED <<rows, queryVars, list, navVars>>

(* handleStop: the stream is aborted without a word to onDone.             *)
Stop(t) ==
    /\ loading = t
    /\ turn[t].step \in {"asked", "kept", "told", "cut"}
    /\ loading' = NoTurn
    /\ wrong' = wrong \cup {turn[t].in}
    /\ TurnGoes(t, IF turn[t].step = "asked" THEN "closed" ELSE "over")
    /\ UNCHANGED <<rows, queryVars, list, navVars>>

----------------------------------------------------------------------------
(* The menu of a conversation in the list.                                 *)

RemoveClicked(c) ==
    /\ c \in Existing /\ removing = NewChat
    /\ removing' = c
    /\ UNCHANGED <<rows, queryVars, list, turnVars, url, wrong>>

ServerRemoves ==
    /\ removing \in Existing
    /\ rows' = [rows EXCEPT ![removing] = Gone]
    /\ UNCHANGED <<queryVars, list, turnVars, navVars, wrong>>

(* The list of conversations is fetched, and the page left to a new chat,  *)
(* if the conversation is the one of the address: one that was created on  *)
(* this page, and not chosen since, is not.                                *)
RemoveReplied ==
    /\ removing # NewChat /\ removing \notin Existing
    /\ removing' = NewChat
    /\ \/ url = removing /\ conversation' = NewChat /\ url' = NewChat /\ UNCHANGED wrong
       \/ url # removing /\ wrong' = wrong \cup {removing} /\ UNCHANGED <<conversation, url>>
    /\ UNCHANGED <<rows, data, outdated, getting, strays, list, turnVars>>

(* No reply, or the list of conversations does not come: nothing else.     *)
RemoveFails ==
    /\ removing # NewChat
    /\ wrong' = wrong \cup ({removing} \ Existing)
    /\ removing' = NewChat
    /\ UNCHANGED <<rows, queryVars, list, turnVars, url>>

----------------------------------------------------------------------------
(* A page opened among conversations of one past turn, or none.            *)
ChatInit ==
    /\ rows \in [Conversations -> {NotCreated, 2}]
    /\ conversation = NewChat
    /\ list = [of |-> NewChat, rows |-> 0, added |-> 0]
    /\ data = [c \in Conversations |-> NoList]
    /\ outdated = [c \in Conversations |-> FALSE]
    /\ getting = [c \in Conversations |-> NotGetting]
    /\ strays = {}
    /\ turn = [t \in Turns |-> NotAsked]
    /\ loading = NoTurn
    /\ url = NewChat /\ removing = NewChat
    /\ wrong = {}

ChatNext ==
    \/ \E c \in Conversations : MessagesAnswered(c) \/ MessagesArrive(c) \/ MessagesFail(c)
    \/ \E c \in strays, n \in 0 .. PageSize : StrayArrives(c, n)
    \/ \E c \in Conversations, stale \in BOOLEAN : Choose(c, stale)
    \/ ChooseSame \/ StartNewChat
    \/ \E c \in Conversations : RemoveClicked(c)
    \/ ServerRemoves \/ RemoveReplied \/ RemoveFails
    \/ \E t \in Turns, c \in Conversations : Created(t, c)
    \/ \E t \in Turns : CreateSent(t) \/ CreateFails(t) \/ Ask(t)
    \/ \E t \in Turns : Commit(t) \/ CommitQuestion(t)
    \/ \E t \in Turns : DoneRead(t) \/ StreamEnds(t) \/ StreamBreaks(t) \/ Stop(t)

ChatSpec == ChatInit /\ [][ChatNext]_chatVars

----------------------------------------------------------------------------
(* Nothing is under way that may still change the list.                    *)
ChatIsQuiet ==
    /\ conversation # NewChat /\ removing # conversation
    /\ \A c \in Conversations : getting[c] = NotGetting
    /\ strays = {}
    /\ \A t \in Turns : turn[t].step \notin {"asked", "kept", "told", "cut"}

(* A chat at rest shows the first page of its conversation, and no message *)
(* twice: the question that was added, the answers that onDone added once  *)
(* and once more, the empty list of the first fetch are all replaced by    *)
(* what the server has, however turns, fetches and choices interleave.     *)
(* But for (`wrong') a call that failed or was stopped, an invalidation     *)
(* that met the first fetch, an old answer that arrived late, an answer    *)
(* added to or a fetch arrived in another conversation, and a conversation *)
(* chosen again before its data was stale -- until its next fetch.  And    *)
(* but for a conversation of this page that is deleted: the page stays.    *)
QuietChatIsTrue ==
    ChatIsQuiet /\ conversation \notin wrong =>
        /\ conversation \in Existing
        /\ list = [of |-> conversation, rows |-> FirstPage(conversation), added |-> 0]
=============================================================================
