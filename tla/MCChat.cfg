SPECIFICATION FairSpec
CONSTANTS
    Conversations = {c1}
    Turns = {t1, t2}
    Renames = {r1}
    Deletes = {d1, d2}
INVARIANTS TypeOK UnansweredIsLeft ToldIsKept NothingOutlivesItsConversation
PROPERTIES ImplementsHistory EveryRequestEnds
CHECK_DEADLOCK FALSE
