--------------------------- MODULE ChatPageProofs ---------------------------
(***************************************************************************)
(* The chat page at rest shows its conversation, for any conversations,    *)
(* turns and size of the page.                                             *)
(***************************************************************************)
EXTENDS ChatPage, TLAPS

Places == Conversations \cup {NewChat}

ChatTypeOK ==
    /\ rows \in [Conversations -> Nat \cup {NotCreated, Gone}]
    /\ conversation \in Places /\ url \in Places /\ removing \in Places
    /\ list \in [of : Places, rows : Nat, added : Nat]
    /\ data \in [Conversations -> Nat \cup {NoList}]
    /\ outdated \in [Conversations -> BOOLEAN]
    /\ getting \in [Conversations -> Nat \cup {NotGetting, Requested}]
    /\ strays \in SUBSET Conversations
    /\ turn \in [Turns -> [step : TurnSteps, in : Places]]
    /\ loading \in Turns \cup {NoTurn}
    /\ wrong \in SUBSET Places

(* What is chosen, fetched, asked or deleted was created.                  *)
Known ==
    /\ \A c \in {conversation, removing} \ {NewChat} : rows[c] # NotCreated
    /\ \A c \in Conversations : getting[c] # NotGetting => rows[c] # NotCreated
    /\ \A t \in Turns : turn[t].step \in {"asked", "kept", "told", "closed", "cut"} =>
          turn[t].in \in Conversations /\ rows[turn[t].in] # NotCreated

(* A turn that is to end in onDone, which invalidates the list.            *)
Pending(c) == \E t \in Turns : turn[t].in = c /\ turn[t].step \in {"asked", "kept"}

(* What the query of c has, or is about to have, is what the server has;   *)
(* or the choice of c will have it fetched.                                *)
Coming(c) ==
    \/ getting[c] = Requested
    \/ getting[c] # NotGetting /\ getting[c] = FirstPage(c)
    \/ getting[c] = NotGetting /\ (data[c] = NoList \/ outdated[c] \/ data[c] = FirstPage(c))

Foreseen == \A c \in Existing \ wrong : Pending(c) \/ Coming(c)

(* The page shows the list of its conversation, or something is under way  *)
(* that will bring it.                                                     *)
Shown == list = [of |-> conversation, rows |-> FirstPage(conversation), added |-> 0]

OnScreen ==
    conversation # NewChat /\ conversation \notin wrong =>
        \/ conversation \notin Existing /\ removing = conversation
        \/ /\ conversation \in Existing
           /\ Pending(conversation) \/ getting[conversation] # NotGetting \/ Shown

ChatInv == ChatTypeOK /\ Known /\ Foreseen /\ OnScreen

-----------------------------------------------------------------------------
LEMMA Marks ==
  /\ NotGetting \notin Nat /\ Requested \notin Nat /\ NoList \notin Nat
  /\ NotCreated \notin Nat /\ Gone \notin Nat
  /\ NotGetting # Requested /\ NotCreated # Gone
BY DEF NotGetting, Requested, NoList, NotCreated, Gone

LEMMA PageType ==
  ASSUME ChatTypeOK, NEW c \in Conversations, rows[c] # NotCreated
  PROVE  FirstPage(c) \in Nat
BY ChatAssumption DEF ChatTypeOK, FirstPage

LEMMA GotoFacts ==
  ASSUME ChatTypeOK, NEW t \in Turns, NEW step \in TurnSteps, TurnGoes(t, step)
  PROVE  /\ turn' \in [Turns -> [step : TurnSteps, in : Places]]
         /\ turn'[t].step = step
         /\ step # "over" => turn'[t].in = turn[t].in
         /\ turn'[t].in \in {turn[t].in, NewChat}
         /\ \A s \in Turns \ {t} : turn'[s] = turn[s]
<1>1. turn \in [Turns -> [step : TurnSteps, in : Places]]
  BY DEF ChatTypeOK
<1>2. CASE step = "over"
  <2>1. turn' = [turn EXCEPT ![t] = Over]
    BY <1>2 DEF TurnGoes
  <2>2. Over \in [step : TurnSteps, in : Places] /\ Over.step = "over" /\ Over.in = NewChat
    BY DEF Over, Places, TurnSteps
  <2> QED
    BY <1>1, <1>2, <2>1, <2>2
<1>3. CASE step # "over"
  <2>1. turn' = [turn EXCEPT ![t] = [@ EXCEPT !.step = step]]
    BY <1>3 DEF TurnGoes
  <2> QED
    BY <1>1, <1>3, <2>1
<1> QED
  BY <1>2, <1>3

(* Of a conversation whose rows, query and turns stay as they are.         *)
LEMMA Untouched ==
  ASSUME NEW c \in Conversations,
         rows'[c] = rows[c], getting'[c] = getting[c], data'[c] = data[c],
         outdated'[c] = outdated[c]
  PROVE  /\ FirstPage(c)' = FirstPage(c)
         /\ (c \in Existing)' <=> c \in Existing
         /\ Coming(c)' <=> Coming(c)
BY DEF FirstPage, Existing, Coming

-----------------------------------------------------------------------------
(* The query of the messages, and the choice of a conversation.            *)

LEMMA MessagesAnsweredKeeps ==
  ASSUME ChatInv, NEW c \in Conversations, MessagesAnswered(c)
  PROVE  ChatInv'
<1>0. FirstPage(c) \in Nat /\ getting[c] = Requested
  BY PageType, Marks DEF ChatInv, Known, MessagesAnswered
<1>1. ChatTypeOK'
  BY <1>0 DEF ChatInv, ChatTypeOK, MessagesAnswered, turnVars, navVars
<1>2. Known'
  BY <1>0, Marks DEF ChatInv, ChatTypeOK, Known, MessagesAnswered, turnVars, navVars
<1>3. /\ Existing' = Existing
      /\ \A d \in Conversations : FirstPage(d)' = FirstPage(d) /\ Pending(d)' = Pending(d)
  BY DEF MessagesAnswered, turnVars, Existing, FirstPage, Pending
<1>4. ASSUME NEW d \in Conversations, Coming(d) \/ d = c
      PROVE  Coming(d)'
  <2>1. CASE d = c
    BY <1>0, <1>3, <2>1, Marks DEF ChatInv, ChatTypeOK, MessagesAnswered, Coming
  <2>2. CASE d # c
    BY <1>4, <2>2, Untouched DEF ChatInv, ChatTypeOK, MessagesAnswered
  <2> QED
    BY <2>1, <2>2
<1>5. Foreseen'
  BY <1>3, <1>4 DEF ChatInv, Foreseen, MessagesAnswered, Existing
<1>6. OnScreen'
  BY <1>0, <1>3, Marks DEF ChatInv, ChatTypeOK, Places, OnScreen, Shown, MessagesAnswered, navVars
<1> QED
  BY <1>1, <1>2, <1>5, <1>6 DEF ChatInv

LEMMA MessagesArriveKeeps ==
  ASSUME ChatInv, NEW c \in Conversations, MessagesArrive(c)
  PROVE  ChatInv'
<1>0. getting[c] \in Nat /\ getting'[c] = NotGetting /\ data'[c] = getting[c]
  BY DEF ChatInv, ChatTypeOK, MessagesArrive, NotGetting, Requested
<1>1. ChatTypeOK'
  BY <1>0 DEF ChatInv, ChatTypeOK, Places, MessagesArrive, turnVars, navVars
<1>2. Known'
  BY <1>0 DEF ChatInv, ChatTypeOK, Known, MessagesArrive, turnVars, navVars
<1>3. /\ Existing' = Existing
      /\ \A d \in Conversations : FirstPage(d)' = FirstPage(d) /\ Pending(d)' = Pending(d)
  BY DEF MessagesArrive, turnVars, Existing, FirstPage, Pending
<1>4. ASSUME NEW d \in Conversations, Coming(d)
      PROVE  Coming(d)'
  <2>1. CASE d = c
    BY <1>0, <1>3, <1>4, <2>1, Marks DEF Coming
  <2>2. CASE d # c
    BY <1>4, <2>2, Untouched DEF ChatInv, ChatTypeOK, MessagesArrive
  <2> QED
    BY <2>1, <2>2
<1>5. Foreseen'
  BY <1>3, <1>4 DEF ChatInv, Foreseen, MessagesArrive, Existing
<1>6. OnScreen'
  <2>1. CASE conversation = c
    <3>1. Coming(c) => getting[c] = FirstPage(c)
      BY <1>0, Marks DEF Coming
    <3>2. getting[c] = FirstPage(c) => Shown'
      BY <1>3, <2>1 DEF Shown, MessagesArrive
    <3> QED
      BY <1>3, <2>1, <3>1, <3>2 DEF ChatInv, Foreseen, OnScreen, MessagesArrive, navVars
  <2>2. CASE conversation # c
    BY <2>2 DEF OnScreen, MessagesArrive
  <2> QED
    BY <2>1, <2>2
<1> QED
  BY <1>1, <1>2, <1>5, <1>6 DEF ChatInv

LEMMA MessagesFailKeeps ==
  ASSUME ChatInv, NEW c \in Conversations, MessagesFail(c)
  PROVE  ChatInv'
<1>1. ChatTypeOK'
  BY DEF ChatInv, ChatTypeOK, Places, MessagesFail, turnVars, navVars
<1>2. Known'
  BY DEF ChatInv, ChatTypeOK, Known, MessagesFail, turnVars, navVars
<1>3. /\ Existing' = Existing
      /\ \A d \in Conversations : FirstPage(d)' = FirstPage(d) /\ Pending(d)' = Pending(d)
  BY DEF MessagesFail, turnVars, Existing, FirstPage, Pending
<1>4. \A d \in Conversations \ {c} : getting'[d] = getting[d] /\ Coming(d)' = Coming(d)
  BY <1>3 DEF ChatInv, ChatTypeOK, MessagesFail, Coming
<1>5. Foreseen'
  BY <1>3, <1>4 DEF ChatInv, Foreseen, MessagesFail, Existing
<1>6. OnScreen'
  BY <1>3, <1>4 DEF ChatInv, ChatTypeOK, Places, OnScreen, Shown, MessagesFail, navVars
<1> QED
  BY <1>1, <1>2, <1>5, <1>6 DEF ChatInv

LEMMA StrayArrivesKeeps ==
  ASSUME ChatInv, NEW c \in strays, NEW n \in 0 .. PageSize, StrayArrives(c, n)
  PROVE  ChatInv'
<1>0. n \in Nat
  BY ChatAssumption DEF ChatInv, ChatTypeOK
<1>1. ChatTypeOK'
  BY <1>0 DEF ChatInv, ChatTypeOK, Places, StrayArrives, turnVars, navVars
<1>2. Known'
  BY DEF ChatInv, Known, StrayArrives, turnVars, navVars
<1>3. Foreseen'
  BY DEF ChatInv, Foreseen, StrayArrives, turnVars, Existing, FirstPage, Pending, Coming
<1>4. OnScreen'
  BY DEF OnScreen, StrayArrives
<1> QED
  BY <1>1, <1>2, <1>3, <1>4 DEF ChatInv

LEMMA ChooseKeeps ==
  ASSUME ChatInv, NEW c \in Conversations, NEW stale \in BOOLEAN, Choose(c, stale)
  PROVE  ChatInv'
<1> DEFINE starts == getting[c] = NotGetting /\ (data[c] = NoList \/ outdated[c] \/ stale)
<1>0. /\ c \in Existing \/ c = removing
      /\ conversation' = c /\ url' = c
      /\ getting' = IF starts THEN [getting EXCEPT ![c] = Requested] ELSE getting
      /\ UNCHANGED <<rows, data, outdated, strays, list, turnVars, removing>>
  BY DEF Choose
<1>a. wrong' = IF starts THEN wrong \ ({c} \cap Existing)
              ELSE IF getting[c] = NotGetting /\ list # [of |-> c, rows |-> data[c], added |-> 0]
                THEN wrong \cup {c} ELSE wrong
  BY DEF Choose
<1> HIDE DEF starts
<1>1. ChatTypeOK'
  BY <1>0, <1>a DEF ChatInv, ChatTypeOK, Places, turnVars
<1>b. rows[c] # NotCreated
  BY <1>0, ChatAssumption DEF ChatInv, ChatTypeOK, Known, Existing
<1>2. Known'
  BY <1>0, <1>b DEF ChatInv, ChatTypeOK, Known, turnVars
<1>3. /\ Existing' = Existing
      /\ \A d \in Conversations : FirstPage(d)' = FirstPage(d) /\ Pending(d)' = Pending(d)
  BY <1>0 DEF turnVars, Existing, FirstPage, Pending
<1>4. ASSUME NEW d \in Conversations, Coming(d) \/ (d = c /\ starts)
      PROVE  Coming(d)'
  <2>1. CASE d = c /\ starts
    BY <1>0, <2>1 DEF ChatInv, ChatTypeOK, Coming
  <2>2. CASE ~(d = c /\ starts)
    <3>1. getting'[d] = getting[d]
      BY <1>0, <2>2 DEF ChatInv, ChatTypeOK
    <3> QED
      BY <1>0, <1>4, <2>2, <3>1, Untouched
  <2> QED
    BY <2>1, <2>2
<1>5. Foreseen'
  <2>1. \A d \in Existing \ wrong' : d \notin wrong \/ (d = c /\ starts)
    BY <1>a
  <2> QED
    BY <1>3, <1>4, <2>1 DEF ChatInv, Foreseen, Existing
<1>6. OnScreen'
  <2>1. CASE c \notin Existing
    BY <1>0, <1>3, <2>1 DEF OnScreen
  <2>2. CASE c \in Existing /\ starts
    <3>1. getting'[c] # NotGetting
      BY <1>0, <2>2, Marks DEF ChatInv, ChatTypeOK
    <3> QED
      BY <1>0, <1>3, <2>2, <3>1 DEF OnScreen
  <2>3. CASE c \in Existing /\ ~starts /\ getting[c] # NotGetting
    BY <1>0, <1>3, <2>3 DEF OnScreen
  <2>4. CASE c \in Existing /\ ~starts /\ getting[c] = NotGetting
    <3> SUFFICES ASSUME c \notin wrong', ~Pending(c) PROVE Shown'
      BY <1>0, <1>3, <2>4 DEF OnScreen
    <3>1. list = [of |-> c, rows |-> data[c], added |-> 0] /\ c \notin wrong
      BY <1>a, <2>4
    <3>2. Coming(c) /\ data[c] # NoList /\ ~outdated[c]
      BY <2>4, <3>1 DEF ChatInv, Foreseen, starts
    <3>3. data[c] = FirstPage(c)
      BY <2>4, <3>2, Marks DEF Coming
    <3> QED
      BY <1>0, <1>3, <3>1, <3>3 DEF Shown
  <2> QED
    BY <2>1, <2>2, <2>3, <2>4
<1> QED
  BY <1>1, <1>2, <1>5, <1>6 DEF ChatInv

-----------------------------------------------------------------------------
(* The menu and the address.                                               *)

LEMMA NavKeeps ==
  ASSUME ChatInv, UNCHANGED <<rows, data, outdated, getting, strays, list, turn>>
  PROVE  /\ Existing' = Existing
         /\ \A c \in Conversations :
               /\ FirstPage(c)' = FirstPage(c)
               /\ Pending(c)' = Pending(c)
               /\ Coming(c)' = Coming(c)
BY DEF Existing, FirstPage, Pending, Coming

LEMMA ChooseSameKeeps ==
  ASSUME ChatInv, ChooseSame
  PROVE  ChatInv'
<1>1. ChatTypeOK'
  BY DEF ChatInv, ChatTypeOK, ChooseSame, queryVars, turnVars
<1>2. Known'
  BY DEF ChatInv, Known, ChooseSame, queryVars, turnVars
<1>3. Foreseen' /\ OnScreen'
  BY NavKeeps DEF ChatInv, ChatTypeOK, Places, Foreseen, OnScreen, Shown,
     ChooseSame, queryVars, turnVars, Existing
<1> QED
  BY <1>1, <1>2, <1>3 DEF ChatInv

LEMMA StartNewChatKeeps ==
  ASSUME ChatInv, StartNewChat
  PROVE  ChatInv'
<1>1. ChatTypeOK'
  BY DEF ChatInv, ChatTypeOK, StartNewChat, turnVars, Places
<1>2. Known'
  BY DEF ChatInv, Known, StartNewChat, turnVars
<1>3. Foreseen'
  BY NavKeeps DEF ChatInv, Foreseen, StartNewChat, turnVars, Existing
<1>4. OnScreen'
  BY DEF OnScreen, StartNewChat
<1> QED
  BY <1>1, <1>2, <1>3, <1>4 DEF ChatInv

LEMMA RemoveClickedKeeps ==
  ASSUME ChatInv, NEW c \in Conversations, RemoveClicked(c)
  PROVE  ChatInv'
<1>1. ChatTypeOK'
  BY DEF ChatInv, ChatTypeOK, RemoveClicked, queryVars, turnVars, Places
<1>2. Known'
  BY DEF ChatInv, Known, RemoveClicked, queryVars, turnVars, Existing
<1>3. Existing' = Existing /\ Foreseen'
  BY NavKeeps DEF ChatInv, Foreseen, RemoveClicked, queryVars, turnVars, Existing
<1>4. OnScreen'
  BY <1>3, NavKeeps DEF ChatInv, ChatTypeOK, Places, OnScreen, Shown,
     RemoveClicked, queryVars, turnVars
<1> QED
  BY <1>1, <1>2, <1>3, <1>4 DEF ChatInv

LEMMA RemoveRepliedKeeps ==
  ASSUME ChatInv, RemoveReplied
  PROVE  ChatInv'
<1>1. ChatTypeOK'
  BY DEF ChatInv, ChatTypeOK, RemoveReplied, turnVars, Places
<1>2. Known'
  BY DEF ChatInv, Known, RemoveReplied, turnVars
<1>3. Existing' = Existing /\ Foreseen'
  BY NavKeeps DEF ChatInv, Foreseen, RemoveReplied, turnVars, Existing
<1>4. OnScreen'
  BY <1>3, NavKeeps DEF ChatInv, ChatTypeOK, Places, OnScreen, Shown,
     RemoveReplied, turnVars
<1> QED
  BY <1>1, <1>2, <1>3, <1>4 DEF ChatInv

LEMMA RemoveFailsKeeps ==
  ASSUME ChatInv, RemoveFails
  PROVE  ChatInv'
<1>1. ChatTypeOK'
  BY DEF ChatInv, ChatTypeOK, RemoveFails, queryVars, turnVars, Places
<1>2. Known'
  BY DEF ChatInv, Known, RemoveFails, queryVars, turnVars
<1>3. Existing' = Existing /\ Foreseen'
  BY NavKeeps DEF ChatInv, Foreseen, RemoveFails, queryVars, turnVars, Existing
<1>4. OnScreen'
  BY <1>3, NavKeeps DEF ChatInv, ChatTypeOK, Places, OnScreen, Shown,
     RemoveFails, queryVars, turnVars
<1> QED
  BY <1>1, <1>2, <1>3, <1>4 DEF ChatInv

LEMMA ServerRemovesKeeps ==
  ASSUME ChatInv, ServerRemoves
  PROVE  ChatInv'
<1>0. removing \in Conversations /\ rows' = [rows EXCEPT ![removing] = Gone]
  BY DEF ServerRemoves, Existing
<1>1. ChatTypeOK'
  BY <1>0 DEF ChatInv, ChatTypeOK, ServerRemoves, queryVars, turnVars, navVars
<1>2. Known'
  BY <1>0, Marks DEF ChatInv, ChatTypeOK, Known, ServerRemoves, queryVars, turnVars, navVars
<1>3. removing \notin Existing'
  BY <1>0 DEF ChatInv, ChatTypeOK, Existing
<1>4. \A c \in Conversations \ {removing} :
        /\ rows'[c] = rows[c] /\ (c \in Existing)' <=> c \in Existing
        /\ FirstPage(c)' = FirstPage(c)
        /\ Coming(c)' = Coming(c)
  BY <1>0 DEF ChatInv, ChatTypeOK, Existing, FirstPage, Coming, ServerRemoves, queryVars
<1>5. \A c \in Conversations : Pending(c)' = Pending(c)
  BY DEF Pending, ServerRemoves, turnVars
<1>6. Foreseen'
  BY <1>3, <1>4, <1>5 DEF ChatInv, Foreseen, ServerRemoves, Existing
<1>7. OnScreen'
  <2>1. CASE conversation = removing
    BY <1>3, <2>1 DEF OnScreen, ServerRemoves, queryVars, navVars
  <2>2. CASE conversation # removing
    <3> SUFFICES ASSUME conversation # NewChat, conversation \notin wrong
                 PROVE  /\ conversation \in Existing'
                        /\ Pending(conversation)' \/ getting[conversation] # NotGetting \/ Shown'
      BY DEF OnScreen, ServerRemoves, queryVars
    <3>1. conversation \in Conversations \ {removing}
      BY <2>2 DEF ChatInv, ChatTypeOK, Places
    <3>2. /\ conversation \in Existing
          /\ Pending(conversation) \/ getting[conversation] # NotGetting \/ Shown
      BY <2>2 DEF ChatInv, OnScreen
    <3>3. Shown => Shown'
      BY <1>4, <3>1 DEF Shown, ServerRemoves, queryVars
    <3>4. conversation \in Existing' /\ Pending(conversation)' = Pending(conversation)
      BY <1>4, <1>5, <3>1, <3>2 DEF ServerRemoves, queryVars
    <3> QED
      BY <3>2, <3>3, <3>4
  <2> QED
    BY <2>1, <2>2
<1> QED
  BY <1>1, <1>2, <1>6, <1>7 DEF ChatInv

-----------------------------------------------------------------------------
(* handleSend, and what ends a turn.                                       *)

Running == {"asked", "kept", "told", "closed", "cut"}

LEMMA GotoPending ==
  ASSUME ChatTypeOK, NEW t \in Turns, NEW step \in TurnSteps, TurnGoes(t, step),
         NEW c \in Conversations, Pending(c),
         c # turn[t].in \/ turn[t].step \notin {"asked", "kept"} \/ step \in {"asked", "kept"}
  PROVE  Pending(c)'
<1>1. PICK s \in Turns : turn[s].in = c /\ turn[s].step \in {"asked", "kept"}
  BY DEF Pending
<1>2. CASE s # t
  <2>1. turn'[s] = turn[s]
    BY <1>2, GotoFacts
  <2> QED
    BY <1>1, <2>1 DEF Pending
<1>3. CASE s = t
  <2>1. step \in {"asked", "kept"}
    BY <1>1, <1>3
  <2>2. turn'[t].step = step /\ turn'[t].in = turn[t].in
    BY <2>1, GotoFacts
  <2> QED
    BY <1>1, <1>3, <2>1, <2>2 DEF Pending
<1> QED
  BY <1>2, <1>3

LEMMA GotoKnown ==
  ASSUME ChatTypeOK, Known, NEW t \in Turns, NEW step \in TurnSteps, TurnGoes(t, step),
         step \in Running => turn[t].step \in Running,
         NEW s \in Turns, turn'[s].step \in Running
  PROVE  turn'[s].in \in Conversations /\ rows[turn'[s].in] # NotCreated
<1>1. CASE s # t
  <2>1. turn'[s] = turn[s]
    BY <1>1, GotoFacts
  <2> QED
    BY <2>1 DEF Known, Running
<1>2. CASE s = t
  <2>1. turn'[t].step = step /\ step # "over" /\ turn'[t].in = turn[t].in
    BY <1>2, GotoFacts DEF Running
  <2> QED
    BY <1>2, <2>1 DEF Known, Running
<1> QED
  BY <1>1, <1>2

LEMMA CreateEndsKeep ==
  ASSUME ChatInv, NEW t \in Turns, CreateSent(t) \/ CreateFails(t)
  PROVE  ChatInv'
<1>1. PICK step \in TurnSteps : TurnGoes(t, step) /\ step \notin Running
  BY DEF CreateSent, CreateFails, TurnSteps, Running
<1>2. /\ turn[t].step \notin {"asked", "kept"}
      /\ UNCHANGED <<rows, queryVars, list, loading, wrong, navVars>>
  BY DEF CreateSent, CreateFails, IsNext
<1>3. ChatTypeOK'
  BY <1>1, <1>2, GotoFacts DEF ChatInv, ChatTypeOK, queryVars, navVars
<1>4. Known'
  BY <1>1, <1>2, GotoKnown DEF ChatInv, Known, Running, queryVars, navVars
<1>5. \A c \in Conversations : Pending(c) => Pending(c)'
  BY <1>1, <1>2, GotoPending DEF ChatInv
<1>6. /\ Existing' = Existing
      /\ \A c \in Conversations : FirstPage(c)' = FirstPage(c) /\ Coming(c)' = Coming(c)
  BY <1>2 DEF queryVars, Existing, FirstPage, Coming
<1>7. Foreseen' /\ OnScreen'
  BY <1>2, <1>5, <1>6 DEF ChatInv, ChatTypeOK, Places, Foreseen, OnScreen, Shown,
     queryVars, navVars, Existing
<1> QED
  BY <1>3, <1>4, <1>7 DEF ChatInv

LEMMA StreamEndsBadly ==
  ASSUME ChatInv, NEW t \in Turns, StreamBreaks(t) \/ Stop(t)
  PROVE  ChatInv'
<1>1. PICK step \in {"closed", "over"} : TurnGoes(t, step)
  BY DEF StreamBreaks, Stop
<1>2. /\ turn[t].step \in {"asked", "kept", "told", "cut"}
      /\ loading' = NoTurn
      /\ wrong' = wrong \cup {turn[t].in} \/ (turn[t].step = "told" /\ wrong' = wrong)
      /\ UNCHANGED <<rows, queryVars, list, navVars>>
  BY DEF StreamBreaks, Stop
<1>a. step \in TurnSteps
  BY DEF TurnSteps
<1>3. ChatTypeOK'
  BY <1>1, <1>2, <1>a, GotoFacts DEF ChatInv, ChatTypeOK, queryVars, navVars
<1>4. Known'
  <2>1. turn[t].step \in Running
    BY <1>2 DEF Running
  <2> QED
    BY <1>1, <1>2, <1>a, <2>1, GotoKnown DEF ChatInv, Known, Running, queryVars, navVars
<1>5. \A c \in Conversations \ wrong' : Pending(c) => Pending(c)'
  BY <1>1, <1>2, <1>a, GotoPending DEF ChatInv
<1>6. /\ Existing' = Existing
      /\ \A c \in Conversations : FirstPage(c)' = FirstPage(c) /\ Coming(c)' = Coming(c)
  BY <1>2 DEF queryVars, Existing, FirstPage, Coming
<1>7. Foreseen' /\ OnScreen'
  BY <1>2, <1>5, <1>6 DEF ChatInv, ChatTypeOK, Places, Foreseen, OnScreen, Shown,
     queryVars, navVars, Existing
<1> QED
  BY <1>3, <1>4, <1>7 DEF ChatInv

LEMMA OneMore ==
  ASSUME ChatTypeOK
  PROVE  WithOneMore \in [of : Places, rows : Nat, added : Nat]
BY DEF ChatTypeOK, WithOneMore

LEMMA AskKeeps ==
  ASSUME ChatInv, NEW t \in Turns, Ask(t)
  PROVE  ChatInv'
<1>1. /\ turn[t].step = "new"
      /\ conversation \in Conversations
      /\ turn' = [turn EXCEPT ![t] = [step |-> "asked", in |-> conversation]]
      /\ list' = WithOneMore /\ loading' = t
      /\ UNCHANGED <<rows, queryVars, wrong, navVars>>
  BY DEF ChatInv, ChatTypeOK, Places, Ask, IsNext
<1>2. ChatTypeOK'
  BY <1>1, OneMore DEF ChatInv, ChatTypeOK, Places, TurnSteps, queryVars, navVars
<1>a. rows[conversation] # NotCreated
  BY <1>1, ChatAssumption DEF ChatInv, ChatTypeOK, Known
<1>3. Known'
  BY <1>1, <1>a DEF ChatInv, ChatTypeOK, Places, Known, queryVars, navVars
<1>4. \A c \in Conversations : Pending(c) => Pending(c)'
  BY <1>1 DEF ChatInv, ChatTypeOK, Pending
<1>5. Pending(conversation)'
  BY <1>1 DEF ChatInv, ChatTypeOK, Pending, queryVars
<1>6. /\ Existing' = Existing
      /\ \A c \in Conversations : Coming(c)' = Coming(c)
  BY <1>1 DEF queryVars, Existing, FirstPage, Coming
<1>7. Foreseen'
  BY <1>1, <1>4, <1>6 DEF ChatInv, Foreseen, Existing
<1>8. OnScreen'
  BY <1>1, <1>5, <1>6 DEF ChatInv, OnScreen, queryVars, navVars
<1> QED
  BY <1>2, <1>3, <1>7, <1>8 DEF ChatInv

LEMMA CreatedKeeps ==
  ASSUME ChatInv, NEW t \in Turns, NEW c \in Conversations, Created(t, c)
  PROVE  ChatInv'
<1>1. /\ turn[t].step = "creating" /\ rows[c] = NotCreated
      /\ rows' = [rows EXCEPT ![c] = 0] /\ rows'[c] = 0
      /\ conversation' = c
      /\ list' = [of |-> c, rows |-> 0, added |-> 1]
      /\ turn' = [turn EXCEPT ![t] = [step |-> "asked", in |-> c]]
      /\ loading' = t
      /\ getting' = [getting EXCEPT ![c] = Requested]
      /\ UNCHANGED <<data, outdated, strays, wrong, navVars>>
  BY DEF ChatInv, ChatTypeOK, Created
<1>2. ChatTypeOK'
  BY <1>1 DEF ChatInv, ChatTypeOK, Places, TurnSteps, navVars
<1>3. Known'
  BY <1>1, Marks DEF ChatInv, ChatTypeOK, Places, Known, navVars
<1>4. \A d \in Conversations : Pending(d) => Pending(d)'
  BY <1>1 DEF ChatInv, ChatTypeOK, Pending
<1>5. Pending(c)'
  BY <1>1 DEF ChatInv, ChatTypeOK, Pending
<1>6. \A d \in Conversations \ {c} :
          ((d \in Existing)' <=> d \in Existing) /\ (Coming(d)' <=> Coming(d))
  BY <1>1 DEF ChatInv, ChatTypeOK, Existing, FirstPage, Coming
<1>7. Foreseen'
  BY <1>1, <1>4, <1>5, <1>6 DEF ChatInv, Foreseen, Existing
<1>8. OnScreen'
  <2>1. c \in Existing'
    BY <1>1 DEF Existing, NotCreated, Gone
  <2> QED
    BY <1>1, <1>5, <2>1 DEF OnScreen
<1> QED
  BY <1>2, <1>3, <1>7, <1>8 DEF ChatInv

LEMMA CommitsKeep ==
  ASSUME ChatInv, NEW t \in Turns, Commit(t) \/ CommitQuestion(t)
  PROVE  ChatInv'
<1>0. PICK c, step :
         /\ c = turn[t].in
         /\ step \in {"kept", "cut", "over"} /\ TurnGoes(t, step)
         /\ (step = "kept" /\ wrong' = wrong) \/ wrong' = wrong \cup {c}
  BY DEF Commit, CommitQuestion
<1>1. /\ turn[t].step \in {"asked", "closed"}
      /\ c \in Conversations /\ rows[c] \in Nat
      /\ UNCHANGED <<queryVars, list, loading, navVars>>
  BY <1>0 DEF ChatInv, ChatTypeOK, Commit, CommitQuestion, Existing
<1>a. PICK n \in {1, 2} : rows' = [rows EXCEPT ![c] = rows[c] + n]
  BY <1>0 DEF Commit, CommitQuestion
<1>2. TurnGoes(t, step) /\ step \in TurnSteps
  BY <1>0 DEF TurnSteps
<1>3. /\ wrong' = wrong \/ wrong' = wrong \cup {c}
      /\ turn[t].step = "closed" => wrong' = wrong \cup {c}
      /\ wrong' = wrong \/ c \in wrong'
      /\ c \notin wrong' => step = "kept" /\ turn[t].step = "asked"
  BY <1>0 DEF Commit, CommitQuestion
<1>4. ChatTypeOK'
  <2>1. turn' \in [Turns -> [step : TurnSteps, in : Places]]
    BY <1>2, GotoFacts DEF ChatInv
  <2>2. rows' \in [Conversations -> Nat \cup {NotCreated, Gone}]
    BY <1>1, <1>a DEF ChatInv, ChatTypeOK
  <2> QED
    BY <1>1, <1>3, <2>1, <2>2 DEF ChatInv, ChatTypeOK, Places, queryVars, navVars
<1>5. \A d \in Conversations : rows'[d] = NotCreated => rows[d] = NotCreated
  BY <1>1, <1>a, Marks DEF ChatInv, ChatTypeOK
<1>6. Known'
  <2>1. turn[t].step \in Running
    BY <1>1 DEF Running
  <2>2. \A s \in Turns : turn'[s].step \in Running =>
           turn'[s].in \in Conversations /\ rows[turn'[s].in] # NotCreated
    BY <1>2, <2>1, GotoKnown DEF ChatInv
  <2> QED
    BY <1>1, <1>5, <2>2 DEF ChatInv, ChatTypeOK, Places, Known, Running, queryVars, navVars
<1>7. Existing' = Existing
  BY <1>1, <1>a, Marks DEF ChatInv, ChatTypeOK, Existing
<1>8. ASSUME NEW d \in Conversations \ wrong'
      PROVE  /\ Pending(d) => Pending(d)'
             /\ d = c => Pending(d)'
             /\ d # c => FirstPage(d)' = FirstPage(d) /\ (Coming(d)' <=> Coming(d))
  <2>1. Pending(d) => Pending(d)'
    <3>1. d # turn[t].in \/ step \in {"asked", "kept"}
      BY <1>0, <1>3, <1>8
    <3> QED
      BY <1>2, <1>8, <3>1, GotoPending DEF ChatInv
  <2>2. d = c => Pending(d)
    BY <1>0, <1>1, <1>3, <1>8 DEF Pending
  <2>3. d # c => FirstPage(d)' = FirstPage(d) /\ (Coming(d)' <=> Coming(d))
    BY <1>1, <1>a DEF ChatInv, ChatTypeOK, FirstPage, Coming, queryVars
  <2> QED
    BY <2>1, <2>2, <2>3
<1>9. wrong \subseteq wrong'
  BY <1>3
<1>10. Foreseen'
  BY <1>7, <1>8, <1>9 DEF ChatInv, Foreseen, Existing
<1>11. OnScreen'
  <2> SUFFICES ASSUME conversation # NewChat, conversation \notin wrong'
               PROVE  \/ conversation \notin Existing' /\ removing = conversation
                      \/ /\ conversation \in Existing'
                         /\ Pending(conversation)' \/ getting[conversation] # NotGetting \/ Shown'
    BY <1>1 DEF OnScreen, queryVars, navVars
  <2>1. conversation \in Conversations \ wrong' /\ conversation \notin wrong
    BY <1>9 DEF ChatInv, ChatTypeOK, Places
  <2>2. conversation # c => (Shown => Shown')
    BY <1>1, <1>8, <2>1 DEF Shown, queryVars
  <2> QED
    BY <1>1, <1>7, <1>8, <2>1, <2>2 DEF ChatInv, OnScreen, Pending, queryVars
<1> QED
  BY <1>4, <1>6, <1>10, <1>11 DEF ChatInv

LEMMA OnDoneKeeps ==
  ASSUME ChatInv, NEW t \in Turns, DoneRead(t) \/ StreamEnds(t)
  PROVE  ChatInv'
<1>1. PICK next \in {"told", "over"} : OnDone(t, next) /\ turn[t].step \in {"kept", "told"}
  BY DEF DoneRead, StreamEnds
<1>2. PICK c \in Conversations : c = turn[t].in /\ rows[c] # NotCreated
  BY <1>1 DEF ChatInv, Known
<1>3. /\ TurnGoes(t, next) /\ next \in TurnSteps
      /\ list' = WithOneMore
      /\ loading' = NoTurn
      /\ outdated' = [outdated EXCEPT ![c] = TRUE]
      /\ getting' = Refetched(c)
      /\ strays' = Cancelled(c)
      /\ UNCHANGED <<rows, conversation, data, navVars>>
  BY <1>1, <1>2 DEF OnDone, TurnSteps
<1>4. wrong' = IF Overlooked(c) THEN wrong \cup {c, conversation}
              ELSE IF c = conversation THEN wrong \ ({c} \cap Existing)
              ELSE wrong \cup {conversation}
  BY <1>1, <1>2 DEF OnDone
<1>5. ChatTypeOK'
  <2>1. wrong' \in SUBSET Places /\ strays' \in SUBSET Conversations
    BY <1>2, <1>3, <1>4 DEF ChatInv, ChatTypeOK, Places, Cancelled
  <2>2. getting' \in [Conversations -> Nat \cup {NotGetting, Requested}]
    BY <1>2, <1>3 DEF ChatInv, ChatTypeOK, Refetched
  <2>3. turn' \in [Turns -> [step : TurnSteps, in : Places]]
    BY <1>3, GotoFacts DEF ChatInv
  <2> QED
    BY <1>2, <1>3, <2>1, <2>2, <2>3, OneMore DEF ChatInv, ChatTypeOK, navVars
<1>6. Known'
  <2>1. turn[t].step \in Running
    BY <1>1 DEF Running
  <2>2. \A s \in Turns : turn'[s].step \in Running =>
           turn'[s].in \in Conversations /\ rows[turn'[s].in] # NotCreated
    BY <1>3, <2>1, GotoKnown DEF ChatInv
  <2>3. \A d \in Conversations : getting'[d] # NotGetting => rows[d] # NotCreated
    BY <1>2, <1>3 DEF ChatInv, ChatTypeOK, Known, Refetched
  <2> QED
    BY <1>3, <2>2, <2>3 DEF ChatInv, Known, Running, navVars
<1>7. Existing' = Existing /\ \A d \in Conversations : FirstPage(d)' = FirstPage(d)
  BY <1>3 DEF Existing, FirstPage
<1>8. ASSUME NEW d \in Conversations \ {c}
      PROVE  (Pending(d) => Pending(d)') /\ (Coming(d)' <=> Coming(d))
  <2>1. Pending(d) => Pending(d)'
    BY <1>2, <1>3, GotoPending DEF ChatInv
  <2>2. getting'[d] = getting[d] /\ outdated'[d] = outdated[d]
    BY <1>2, <1>3 DEF ChatInv, ChatTypeOK, Refetched
  <2> QED
    BY <1>3, <2>1, <2>2, Untouched
<1>9. ~Overlooked(c) => Coming(c)'
  <2> SUFFICES ASSUME ~Overlooked(c) PROVE Coming(c)'
    OBVIOUS
  <2>1. CASE c = conversation
    <3>1. getting'[c] = Requested
      BY <1>2, <1>3, <2>1 DEF ChatInv, ChatTypeOK, Refetched, Restarts
    <3> QED
      BY <3>1 DEF Coming
  <2>2. CASE c # conversation
    <3>1. getting'[c] = NotGetting /\ outdated'[c]
      BY <1>2, <1>3, <2>2 DEF ChatInv, ChatTypeOK, Refetched, Restarts, Overlooked
    <3> QED
      BY <3>1 DEF Coming
  <2> QED
    BY <2>1, <2>2
<1>10. Foreseen'
  <2> SUFFICES ASSUME NEW d \in Existing \ wrong' PROVE Pending(d)' \/ Coming(d)'
    BY <1>7 DEF Foreseen
  <2>1. CASE d = c
    BY <1>4, <1>9, <2>1
  <2>2. CASE d # c
    <3>1. d \notin wrong
      BY <1>4, <2>2
    <3> QED
      BY <1>8, <2>2, <3>1 DEF ChatInv, Foreseen, Existing
  <2> QED
    BY <2>1, <2>2
<1>11. OnScreen'
  <2>1. CASE Overlooked(c) \/ c # conversation
    BY <1>3, <1>4, <2>1 DEF OnScreen
  <2>2. CASE ~Overlooked(c) /\ c = conversation
    <3>1. getting'[conversation] = Requested /\ Requested # NotGetting
      BY <1>2, <1>3, <2>2, Marks DEF ChatInv, ChatTypeOK, Refetched, Restarts
    <3>2. conversation \notin Existing /\ conversation \notin wrong' => conversation \notin wrong
      BY <1>4, <2>2
    <3> QED
      BY <1>3, <1>7, <3>1, <3>2 DEF ChatInv, OnScreen, navVars
  <2> QED
    BY <2>1, <2>2
<1> QED
  BY <1>5, <1>6, <1>10, <1>11 DEF ChatInv

-----------------------------------------------------------------------------
LEMMA ChatStart == ChatInit => ChatInv
<1> SUFFICES ASSUME ChatInit PROVE ChatInv
  OBVIOUS
<1>1. ChatTypeOK
  BY DEF ChatInit, ChatTypeOK, Places, TurnSteps, NotAsked, NotCreated, NoList, NotGetting, NoTurn
<1>2. Known
  BY DEF ChatInit, Known, NotAsked
<1>3. Foreseen /\ OnScreen
  BY DEF ChatInit, Foreseen, OnScreen, Coming, Existing
<1> QED
  BY <1>1, <1>2, <1>3 DEF ChatInv

LEMMA ChatStep == ChatInv /\ [ChatNext]_chatVars => ChatInv'
<1> SUFFICES ASSUME ChatInv, [ChatNext]_chatVars PROVE ChatInv'
  OBVIOUS
<1>1. CASE \E c \in Conversations : MessagesAnswered(c) \/ MessagesArrive(c) \/ MessagesFail(c)
  BY <1>1, MessagesAnsweredKeeps, MessagesArriveKeeps, MessagesFailKeeps
<1>2. CASE \E c \in strays, n \in 0 .. PageSize : StrayArrives(c, n)
  BY <1>2, StrayArrivesKeeps
<1>3. CASE \E c \in Conversations, stale \in BOOLEAN : Choose(c, stale)
  BY <1>3, ChooseKeeps
<1>4. CASE ChooseSame \/ StartNewChat
  BY <1>4, ChooseSameKeeps, StartNewChatKeeps
<1>5. CASE \E c \in Conversations : RemoveClicked(c)
  BY <1>5, RemoveClickedKeeps
<1>6. CASE ServerRemoves \/ RemoveReplied \/ RemoveFails
  BY <1>6, ServerRemovesKeeps, RemoveRepliedKeeps, RemoveFailsKeeps
<1>7. CASE \E t \in Turns, c \in Conversations : Created(t, c)
  BY <1>7, CreatedKeeps
<1>8. CASE \/ \E t \in Turns : CreateSent(t) \/ CreateFails(t) \/ Ask(t)
           \/ \E t \in Turns : Commit(t) \/ CommitQuestion(t)
  BY <1>8, CreateEndsKeep, AskKeeps, CommitsKeep
<1>9. CASE \E t \in Turns : DoneRead(t) \/ StreamEnds(t) \/ StreamBreaks(t) \/ Stop(t)
  BY <1>9, OnDoneKeeps, StreamEndsBadly
<1>10. CASE UNCHANGED chatVars
  BY <1>10 DEF chatVars, queryVars, turnVars, navVars, ChatInv, ChatTypeOK, Known, Foreseen,
     OnScreen, Shown, Pending, Coming, Existing, FirstPage
<1> QED
  BY <1>1, <1>2, <1>3, <1>4, <1>5, <1>6, <1>7, <1>8, <1>9, <1>10 DEF ChatNext

LEMMA ChatInvIsEnough == ChatInv => QuietChatIsTrue
<1> SUFFICES ASSUME ChatInv, ChatIsQuiet, conversation \notin wrong
             PROVE  conversation \in Existing /\ Shown
  BY DEF QuietChatIsTrue, Shown
<1>1. /\ conversation \in Conversations /\ getting[conversation] = NotGetting
      /\ removing # conversation
  BY DEF ChatInv, ChatTypeOK, Places, ChatIsQuiet
<1>2. ~Pending(conversation)
  BY DEF ChatIsQuiet, Pending
<1> QED
  BY <1>1, <1>2 DEF ChatInv, OnScreen, ChatIsQuiet

(* A chat at rest shows the first page of its conversation, once, for any  *)
(* number of conversations, turns and messages: the copies that onDone and *)
(* the first fetch leave in the list are always replaced.                  *)
THEOREM QuietChat == ChatSpec => []QuietChatIsTrue
<1>1. ChatSpec => []ChatInv
  BY ChatStart, ChatStep, PTL DEF ChatSpec
<1> QED
  BY <1>1, ChatInvIsEnough, PTL
=============================================================================
