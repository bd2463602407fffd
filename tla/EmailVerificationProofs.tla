----------------------- MODULE EmailVerificationProofs -----------------------
(***************************************************************************)
(* Registration is safe for any number of rows, requests and for any       *)
(* limits: at most one account, paid for by exactly one code.  The codes   *)
(* stored are bounded for any limits and any finite number of requests in  *)
(* flight.                                                                 *)
(***************************************************************************)
EXTENDS EmailVerification, FiniteSetTheorems, WellFoundedInduction, TLAPS

(* The transaction of a registration that found its code names that row;   *)
(* what it will commit marks the row as spent.                             *)
TxTellsStage ==
    \A q \in Registrants :
        /\ stage[q] \in {"wrong", "right", "counted", "consumed", "inserted"}
              => tx[q].code \in Codes
        /\ stage[q] \in {"consumed", "inserted"} => tx[q].consumed

(* The unique index of users.email: an uncommitted INSERT excludes every   *)
(* other one and every committed account.                                  *)
OneInsert ==
    \A q \in Registrants : stage[q] = "inserted" =>
        accounts = {} /\ \A p \in Registrants : stage[p] = "inserted" => p = q

(* A registration that succeeded is over; its row stays named in tx. *)
AccountsAreFinal ==
    \A q \in accounts : stage[q] = "idle" /\ tx[q].code \in Codes

IInv == EmailTypeOK /\ OneCodeBuysOneAccount /\ TxTellsStage /\ OneInsert /\ AccountsAreFinal

-----------------------------------------------------------------------------
USE DEF Stages, NoTx, Transactions, rows, sending, registering

(* What increment_attempts leaves in the transaction. *)
LEMMA CountedTx ==
    ASSUME EmailTypeOK, NEW q \in Registrants, IncrementAttempts(q)
    PROVE  \E t \in Transactions : t.code = tx[q].code /\ tx' = [tx EXCEPT ![q] = t]
<1> USE NumbersAssumption DEF EmailTypeOK
<1> DEFINE t == [code |-> tx[q].code, attempts |-> tx[q].attempts + 1,
                 consumed |-> tx[q].attempts + 1 >= MaxAttempts]
<1>1. tx[q] \in Transactions
  OBVIOUS
<1>2. t \in Transactions
  BY <1>1
<1>3. tx' = [tx EXCEPT ![q] = t]
  BY <1>1 DEF IncrementAttempts
<1>4. QED
  BY <1>2, <1>3

LEMMA TypeOKStep == EmailTypeOK /\ [EmailNext]_emailVars => EmailTypeOK'
<1> SUFFICES ASSUME EmailTypeOK, [EmailNext]_emailVars PROVE EmailTypeOK'
  OBVIOUS
<1> USE NumbersAssumption DEF EmailTypeOK
<1>1. CASE Tick
  BY <1>1 DEF Tick
<1>2. ASSUME NEW s \in Senders, SendStart(s) \/ SendCheck(s) \/ SendAbort(s) PROVE EmailTypeOK'
  BY <1>2 DEF SendStart, SendCheck, SendAbort
<1>3. ASSUME NEW s \in Senders, NEW c \in Codes, SendCommit(s, c) PROVE EmailTypeOK'
  BY <1>3 DEF SendCommit
<1>4. ASSUME NEW q \in Registrants, RegisterStart(q) PROVE EmailTypeOK'
  BY <1>4 DEF RegisterStart
<1>5. ASSUME NEW q \in Registrants, NEW typed \in Codes \cup {NoCode}, Compare(q, typed)
      PROVE  EmailTypeOK'
  <2>1. PICK c \in Codes : tx' = [tx EXCEPT ![q] =
                    [code |-> c, attempts |-> attempts[c], consumed |-> FALSE]]
    BY <1>5 DEF Compare, Newest, Usable
  <2>2. tx' \in [Registrants -> Transactions]
    BY <2>1
  <2>3. stage' \in [Registrants -> Stages]
    BY <1>5 DEF Compare
  <2>4. tries' \in [Codes -> Nat]
    <3>1. \A c1 \in Codes : (IF tries[c1] > MaxAttempts THEN tries[c1] ELSE tries[c1] + 1) \in Nat
      OBVIOUS
    <3>2. QED
      BY <1>5, <3>1 DEF Compare, Newest, Usable
  <2>5. QED
    BY <1>5, <2>2, <2>3, <2>4 DEF Compare
<1>6. ASSUME NEW q \in Registrants, IncrementAttempts(q) PROVE EmailTypeOK'
  BY <1>6, CountedTx DEF IncrementAttempts
<1>7. ASSUME NEW q \in Registrants, Consume(q) PROVE EmailTypeOK'
  BY <1>7 DEF Consume
<1>8. ASSUME NEW q \in Registrants, CreateUser(q) PROVE EmailTypeOK'
  BY <1>8 DEF CreateUser
<1>9. ASSUME NEW q \in Registrants, RegisterCommit(q) PROVE EmailTypeOK'
  BY <1>9 DEF RegisterCommit
<1>10. ASSUME NEW q \in Registrants, RegisterAbort(q) PROVE EmailTypeOK'
  BY <1>10 DEF RegisterAbort
<1>11. CASE UNCHANGED emailVars
  BY <1>11 DEF emailVars
<1>12. QED
  BY <1>1, <1>2, <1>3, <1>4, <1>5, <1>6, <1>7, <1>8, <1>9, <1>10, <1>11
  DEF EmailNext, RegisterStep

(* The conjuncts of IInv beside EmailTypeOK. *)
Kept == OneCodeBuysOneAccount /\ TxTellsStage /\ OneInsert /\ AccountsAreFinal

LEMMA RegisterKeeps ==
    ASSUME IInv, EmailTypeOK', NEW q \in Registrants, RegisterStep(q)
    PROVE  Kept'
<1> USE NoCodeAssumption DEF IInv, Kept, EmailTypeOK, OneCodeBuysOneAccount, TxTellsStage,
        OneInsert, AccountsAreFinal
<1>1. CASE RegisterStart(q)
  BY <1>1 DEF RegisterStart
<1>2. ASSUME NEW typed \in Codes \cup {NoCode}, Compare(q, typed) PROVE Kept'
  <2>1. PICK c \in Codes : tx' = [tx EXCEPT ![q] =
                    [code |-> c, attempts |-> attempts[c], consumed |-> FALSE]]
    BY <1>2 DEF Compare, Newest, Usable
  <2>2. PICK s \in {"right", "wrong"} : stage' = [stage EXCEPT ![q] = s]
    BY <1>2 DEF Compare
  <2>3. q \notin accounts
    BY <1>2 DEF Compare
  <2>4. QED
    BY <1>2, <2>1, <2>2, <2>3 DEF Compare
<1>3. CASE IncrementAttempts(q)
  <2>1. PICK t \in Transactions : t.code = tx[q].code /\ tx' = [tx EXCEPT ![q] = t]
    BY <1>3, CountedTx
  <2>2. q \notin accounts
    BY <1>3 DEF IncrementAttempts
  <2>3. QED
    BY <1>3, <2>1, <2>2 DEF IncrementAttempts
<1>4. CASE Consume(q)
  BY <1>4 DEF Consume
<1>5. CASE CreateUser(q)
  BY <1>5 DEF CreateUser, EmailFree
<1>6. CASE RegisterCommit(q)
  <2>1. accounts' = {q} /\ tx' = tx /\ tx[q].consumed /\ tx[q].code \in Codes
    BY <1>6 DEF RegisterCommit
  <2>2. \A c \in Codes : ~consumed[c]
    BY <1>6 DEF RegisterCommit
  <2>3. \A c \in Codes : consumed'[c] <=> c = tx[q].code
    BY <1>6, <2>1, <2>2 DEF RegisterCommit
  <2>4. OneCodeBuysOneAccount'
    BY <2>1, <2>3
  <2>5. (TxTellsStage /\ OneInsert /\ AccountsAreFinal)'
    BY <1>6, <2>1 DEF RegisterCommit
  <2>6. QED
    BY <2>4, <2>5
<1>7. CASE RegisterAbort(q)
  BY <1>7 DEF RegisterAbort
<1>8. QED
  BY <1>1, <1>2, <1>3, <1>4, <1>5, <1>6, <1>7 DEF RegisterStep

LEMMA IInvStep == IInv /\ [EmailNext]_emailVars => IInv'
<1> SUFFICES ASSUME IInv, [EmailNext]_emailVars PROVE IInv'
  OBVIOUS
<1>1. EmailTypeOK'
  BY TypeOKStep DEF IInv
<1>2. CASE UNCHANGED <<consumed, accounts, stage, tx>>
  BY <1>1, <1>2 DEF IInv, OneCodeBuysOneAccount, TxTellsStage, OneInsert, AccountsAreFinal
<1>3. CASE \E q \in Registrants : RegisterStep(q)
  BY <1>1, <1>3, RegisterKeeps DEF IInv, Kept
<1>4. QED
  BY <1>2, <1>3 DEF EmailNext, emailVars, Tick, SendStart, SendCheck, SendAbort, SendCommit

LEMMA IInvHolds == EmailSpec => []IInv
<1>1. EmailInit => IInv
  BY NumbersAssumption, NoCodeAssumption
  DEF EmailInit, IInv, EmailTypeOK, OneCodeBuysOneAccount, TxTellsStage, OneInsert, AccountsAreFinal
<1>2. QED
  BY <1>1, IInvStep, PTL DEF EmailSpec

(* Type correctness. *)
THEOREM TypeCorrect == EmailSpec => []EmailTypeOK
  BY IInvHolds, PTL DEF IInv

(* AuthService.register: at most one account is ever created for an        *)
(* address, and the one code that is marked consumed is the one it used.   *)
THEOREM RegistrationIsAtomic == EmailSpec => []OneCodeBuysOneAccount
  BY IInvHolds, PTL DEF IInv

-----------------------------------------------------------------------------
(* How many codes are stored.  A request that has passed the check may     *)
(* still insert its row, with the two times it has by then: both count for *)
(* the span that begins at t, if they began in it or later and were        *)
(* checked before it was over.                                             *)
SentIn(t, span) == {c \in Codes : created[c] >= t /\ expires[c] - Expire <= t + span}
AskedIn(t, span) == {s \in Senders : begun[s] >= t /\ checked[s] \in 0 .. t + span}
Load(t, span) == Cardinality(SentIn(t, span)) + Cardinality(AskedIn(t, span))

FewSent == IsFiniteSet({c \in Codes : Exists(c)})

CheckedHaveBegun == \A s \in Senders : checked[s] >= 0 => begun[s] >= 0

(* A check that passes in such a span saw no row of it (Resend) or fewer   *)
(* than DailyLimit (Day): whatever else counts was in flight at that time. *)
Within(t) ==
    /\ Load(t, Resend) <= Cardinality(Senders)
    /\ Load(t, Day) < DailyLimit + Cardinality(Senders)

LimitsInv == FewSent /\ CheckedHaveBegun /\ \A t \in 0 .. MaxTime : Within(t)

LEMMA SendersAreSome == Cardinality(Senders) \in Nat /\ Cardinality(Senders) >= 1
<1>1. Cardinality(Senders) \in Nat /\ Cardinality(Senders) # 0
  BY SendersAssumption, FS_CardinalityType, FS_EmptySet
<1>2. QED
  BY <1>1

(* Both parts of a load are numbers, and no more wait than there are. *)
LEMMA LoadType ==
    ASSUME EmailTypeOK, FewSent, NEW t \in Nat, NEW span \in Nat
    PROVE  /\ IsFiniteSet(SentIn(t, span)) /\ Cardinality(SentIn(t, span)) \in Nat
           /\ IsFiniteSet(AskedIn(t, span)) /\ Cardinality(AskedIn(t, span)) \in Nat
           /\ Cardinality(AskedIn(t, span)) <= Cardinality(Senders)
           /\ Cardinality(Senders) \in Nat
<1>1. SentIn(t, span) \subseteq {c \in Codes : Exists(c)}
  BY DEF SentIn, Exists, EmailTypeOK
<1>2. AskedIn(t, span) \subseteq Senders
  BY DEF AskedIn
<1>3. IsFiniteSet(SentIn(t, span)) /\ Cardinality(SentIn(t, span)) \in Nat
  BY <1>1, FS_Subset, FS_CardinalityType DEF FewSent
<1>4. QED
  BY <1>2, <1>3, SendersAssumption, FS_Subset, FS_CardinalityType

LEMMA LoadTypeNext ==
    ASSUME EmailTypeOK', FewSent', NEW t \in Nat, NEW span \in Nat
    PROVE  /\ Cardinality(SentIn(t, span)') \in Nat
           /\ Cardinality(AskedIn(t, span)') \in Nat
           /\ Cardinality(AskedIn(t, span)') <= Cardinality(Senders)
           /\ Cardinality(Senders) \in Nat
<1>1. SentIn(t, span)' \subseteq {c \in Codes : Exists(c)}'
  BY DEF SentIn, Exists, EmailTypeOK
<1>2. AskedIn(t, span)' \subseteq Senders
  BY DEF AskedIn
<1>3. Cardinality(SentIn(t, span)') \in Nat
  BY <1>1, FS_Subset, FS_CardinalityType DEF FewSent
<1>4. QED
  BY <1>2, <1>3, SendersAssumption, FS_Subset, FS_CardinalityType

(* The order of the natural numbers is well founded. *)
LEMMA HasLeast ==
    ASSUME NEW T \in SUBSET Nat, T # {}
    PROVE  \E x \in T : \A y \in T : x <= y
<1>1. PICK R : R = OpToRel(<, Nat)
  OBVIOUS
<1>2. IsWellFoundedOn(R, Nat)
  BY <1>1, NatLessThanWellFounded
<1>3. \A x, y \in Nat : y < x => <<y, x>> \in R
  BY <1>1 DEF OpToRel
<1>4. PICK x \in T : \A y \in T : ~(<<y, x>> \in R)
  BY <1>2, WFMin
<1>5. \A y \in T : ~(y < x)
  BY <1>3, <1>4
<1>6. QED
  BY <1>5

(* Among the rows there is a newest. *)
LEMMA NewestRow ==
    ASSUME EmailTypeOK, NEW c \in Codes, Exists(c)
    PROVE  \E d \in Newest({e \in Codes : Exists(e)}) : created[c] <= created[d]
<1> DEFINE Ages == {MaxTime - created[e] : e \in {e \in Codes : Exists(e)}}
<1>1. Ages \in SUBSET Nat /\ Ages # {}
  <2>1. ASSUME NEW e \in Codes, Exists(e) PROVE MaxTime - created[e] \in Nat
    BY <2>1, NumbersAssumption DEF EmailTypeOK, Exists
  <2>2. QED
    BY <2>1
<1>2. PICK a \in Ages : \A b \in Ages : a <= b
  <2> HIDE DEF Ages
  <2> QED
    BY <1>1, HasLeast
<1>3. PICK d \in Codes : Exists(d) /\ a = MaxTime - created[d]
  BY <1>2
<1>4. ASSUME NEW e \in Codes, Exists(e)
      PROVE  created[e] <= created[d]
  <2>1. MaxTime - created[d] <= MaxTime - created[e]
    BY <1>2, <1>3, <1>4
  <2>2. QED
    BY <2>1, NumbersAssumption DEF EmailTypeOK
<1>5. QED
  BY <1>3, <1>4 DEF Newest

(* SendCheck: in a span that is not over, at most what its two SELECTs *)
(* found is sent, and no more are in flight than there are senders.        *)
LEMMA CheckKeepsLimits ==
    ASSUME EmailTypeOK, EmailTypeOK', LimitsInv, NEW s \in Senders, SendCheck(s)
    PROVE  LimitsInv'
<1> USE NumbersAssumption
<1>1. created' = created /\ expires' = expires /\ begun' = begun
      /\ checked' = [checked EXCEPT ![s] = clock] /\ clock \in 0 .. MaxTime
  BY DEF SendCheck, EmailTypeOK
<1>2. FewSent'
  BY <1>1 DEF LimitsInv, FewSent, Exists
<1>3. ASSUME NEW t \in 0 .. MaxTime, NEW span \in Nat
      PROVE  /\ SentIn(t, span)' = SentIn(t, span)
             /\ clock > t + span => Load(t, span)' = Load(t, span)
  <2>1. SentIn(t, span)' = SentIn(t, span)
    BY <1>1 DEF SentIn
  <2>2. ASSUME clock > t + span PROVE AskedIn(t, span)' = AskedIn(t, span)
    BY <1>1, <2>2 DEF AskedIn, EmailTypeOK, SendCheck
  <2>3. QED
    BY <2>1, <2>2 DEF Load
<1>4. ASSUME NEW t \in 0 .. MaxTime, clock <= t + Resend
      PROVE  SentIn(t, Resend) = {}
  <2> SUFFICES ASSUME NEW c \in SentIn(t, Resend) PROVE FALSE
    OBVIOUS
  <2>1. c \in Codes /\ created[c] >= t /\ Exists(c)
    BY DEF SentIn, Exists, EmailTypeOK
  <2>2. PICK d \in Newest({e \in Codes : Exists(e)}) : created[c] <= created[d]
    BY <2>1, NewestRow
  <2>3. created[d] < clock - Resend /\ created[d] \in Int /\ created[c] \in Int
    BY <2>1, <2>2 DEF SendCheck, Newest, EmailTypeOK
  <2>4. QED
    BY <1>1, <1>4, <2>1, <2>2, <2>3
<1>5. ASSUME NEW t \in 0 .. MaxTime, clock <= t + Day
      PROVE  Cardinality(SentIn(t, Day)) < DailyLimit
  <2>1. SentIn(t, Day) \subseteq Since(clock - Day)
    BY <1>1, <1>5 DEF SentIn, Since, Exists, EmailTypeOK
  <2>2. Since(clock - Day) \subseteq {c \in Codes : Exists(c)}
    BY DEF Since
  <2>3. IsFiniteSet(Since(clock - Day)) /\ Cardinality(Since(clock - Day)) \in Nat
    BY <2>2, FS_Subset, FS_CardinalityType DEF LimitsInv, FewSent
  <2>4. Cardinality(SentIn(t, Day)) <= Cardinality(Since(clock - Day))
    BY <2>1, <2>3, FS_Subset
  <2>5. Cardinality(Since(clock - Day)) < DailyLimit
    BY DEF SendCheck
  <2>6. QED
    BY <2>3, <2>4, <2>5, LoadType DEF LimitsInv
<1>6. ASSUME NEW t \in 0 .. MaxTime, NEW span \in Nat
      PROVE  /\ Load(t, span)' = Cardinality(SentIn(t, span)) + Cardinality(AskedIn(t, span)')
             /\ Cardinality(SentIn(t, span)) \in Nat
             /\ Cardinality(AskedIn(t, span)') \in Nat
             /\ Cardinality(AskedIn(t, span)') <= Cardinality(Senders)
             /\ Cardinality(Senders) \in Nat
  <2>1. t \in Nat
    OBVIOUS
  <2>2. Cardinality(SentIn(t, span)) \in Nat
    BY <2>1, LoadType DEF LimitsInv
  <2>3. /\ Cardinality(AskedIn(t, span)') \in Nat
        /\ Cardinality(AskedIn(t, span)') <= Cardinality(Senders)
        /\ Cardinality(Senders) \in Nat
    BY <1>2, <2>1, LoadTypeNext
  <2>4. QED
    BY <1>3, <2>2, <2>3 DEF Load
<1>7. ASSUME NEW t \in 0 .. MaxTime
      PROVE  Within(t)'
  <2>1. Load(t, Resend)' <= Cardinality(Senders)
    <3>1. CASE clock <= t + Resend
      <4>1. Cardinality(SentIn(t, Resend)) = 0
        BY <1>4, <3>1, FS_EmptySet
      <4>2. QED
        BY <1>6, <4>1
    <3>2. CASE clock > t + Resend
      BY <1>3, <3>2 DEF LimitsInv, Within
    <3>3. QED
      BY <1>1, <3>1, <3>2
  <2>2. CASE clock <= t + Day
    BY <1>5, <1>6, <2>1, <2>2 DEF Within
  <2>3. CASE clock > t + Day
    BY <1>3, <2>1, <2>3 DEF LimitsInv, Within
  <2>4. QED
    BY <1>1, <2>2, <2>3
<1>8. CheckedHaveBegun'
  BY <1>1 DEF LimitsInv, CheckedHaveBegun, SendCheck, EmailTypeOK
<1>9. QED
  BY <1>2, <1>7, <1>8 DEF LimitsInv

(* SendCommit turns what is in flight into a row, SendAbort drops it.      *)
LEMMA LoadFalls ==
    ASSUME EmailTypeOK, FewSent, NEW s \in Senders, NEW t \in Nat, NEW span \in Nat,
           begun' = [begun EXCEPT ![s] = -1], checked' = [checked EXCEPT ![s] = -1],
           \/ created' = created /\ expires' = expires
           \/ \E c \in Codes : /\ ~Exists(c) /\ checked[s] >= 0
                               /\ created' = [created EXCEPT ![c] = begun[s]]
                               /\ expires' = [expires EXCEPT ![c] = checked[s] + Expire]
    PROVE  Load(t, span)' \in Nat /\ Load(t, span)' <= Load(t, span) /\ Load(t, span) \in Nat
<1> USE NumbersAssumption
<1>1. IsFiniteSet(SentIn(t, span)) /\ Cardinality(SentIn(t, span)) \in Nat
      /\ IsFiniteSet(AskedIn(t, span)) /\ Cardinality(AskedIn(t, span)) \in Nat
  BY LoadType
<1>2. AskedIn(t, span)' = AskedIn(t, span) \ {s}
  BY DEF AskedIn, EmailTypeOK
<1>3. /\ Cardinality(AskedIn(t, span)') \in Nat
      /\ s \in AskedIn(t, span) => Cardinality(AskedIn(t, span)') = Cardinality(AskedIn(t, span)) - 1
      /\ s \notin AskedIn(t, span) => Cardinality(AskedIn(t, span)') = Cardinality(AskedIn(t, span))
  BY <1>1, <1>2, FS_RemoveElement, FS_CardinalityType
<1>4. CASE created' = created /\ expires' = expires
  <2>1. SentIn(t, span)' = SentIn(t, span)
    BY <1>4 DEF SentIn
  <2>2. QED
    BY <1>1, <1>3, <2>1 DEF Load
<1>5. ASSUME NEW c \in Codes, ~Exists(c), checked[s] >= 0,
             created' = [created EXCEPT ![c] = begun[s]],
             expires' = [expires EXCEPT ![c] = checked[s] + Expire]
      PROVE  Load(t, span)' \in Nat /\ Load(t, span)' <= Load(t, span) /\ Load(t, span) \in Nat
  <2>1. c \notin SentIn(t, span)
    BY <1>5 DEF SentIn, Exists, EmailTypeOK
  <2>2. CASE s \in AskedIn(t, span)
    <3>1. SentIn(t, span)' = SentIn(t, span) \cup {c}
      BY <1>5, <2>2 DEF SentIn, AskedIn, EmailTypeOK
    <3>2. Cardinality(SentIn(t, span)') = Cardinality(SentIn(t, span)) + 1
      BY <1>1, <2>1, <3>1, FS_AddElement
    <3>3. QED
      BY <1>1, <1>3, <2>2, <3>2 DEF Load
  <2>3. CASE s \notin AskedIn(t, span)
    <3>1. SentIn(t, span)' = SentIn(t, span)
      BY <1>5, <2>1, <2>3 DEF SentIn, AskedIn, EmailTypeOK
    <3>2. QED
      BY <1>1, <1>3, <2>3, <3>1 DEF Load
  <2>4. QED
    BY <2>2, <2>3
<1>6. QED
  BY <1>4, <1>5

LEMMA SendKeepsLimits ==
    ASSUME EmailTypeOK, EmailTypeOK', LimitsInv, NEW s \in Senders,
           SendAbort(s) \/ \E c \in Codes : SendCommit(s, c)
    PROVE  LimitsInv'
<1> USE NumbersAssumption
<1>1. /\ begun' = [begun EXCEPT ![s] = -1] /\ checked' = [checked EXCEPT ![s] = -1]
      /\ \/ created' = created /\ expires' = expires
         \/ \E c \in Codes : /\ ~Exists(c) /\ checked[s] >= 0
                             /\ created' = [created EXCEPT ![c] = begun[s]]
                             /\ expires' = [expires EXCEPT ![c] = checked[s] + Expire]
  BY DEF SendAbort, SendCommit
<1>2. FewSent'
  <2>1. CASE created' = created
    BY <2>1 DEF LimitsInv, FewSent, Exists
  <2>2. ASSUME NEW c \in Codes, created' = [created EXCEPT ![c] = begun[s]]
        PROVE  FewSent'
    <3>1. {d \in Codes : Exists(d)}' \subseteq {d \in Codes : Exists(d)} \cup {c}
      BY <2>2 DEF Exists, EmailTypeOK
    <3>2. QED
      BY <3>1, FS_AddElement, FS_Subset DEF LimitsInv, FewSent
  <2>3. QED
    BY <1>1, <2>1, <2>2
<1>3. ASSUME NEW t \in 0 .. MaxTime, NEW span \in Nat
      PROVE  Load(t, span)' \in Nat /\ Load(t, span)' <= Load(t, span) /\ Load(t, span) \in Nat
  <2>1. t \in Nat
    OBVIOUS
  <2>2. QED
    BY <1>1, <2>1, LoadFalls DEF LimitsInv
<1>4. Cardinality(Senders) \in Nat
  BY SendersAssumption, FS_CardinalityType
<1>5. ASSUME NEW t \in 0 .. MaxTime
      PROVE  Within(t)'
  <2>1. Load(t, Resend)' \in Nat /\ Load(t, Resend)' <= Load(t, Resend) /\ Load(t, Resend) \in Nat
        /\ Load(t, Day)' \in Nat /\ Load(t, Day)' <= Load(t, Day) /\ Load(t, Day) \in Nat
    BY <1>3
  <2>2. QED
    BY <1>4, <2>1 DEF LimitsInv, Within
<1>6. CheckedHaveBegun'
  BY <1>1 DEF LimitsInv, CheckedHaveBegun, EmailTypeOK
<1>7. QED
  BY <1>2, <1>5, <1>6 DEF LimitsInv

LEMMA StartKeepsLimits ==
    ASSUME EmailTypeOK, LimitsInv, NEW s \in Senders, SendStart(s)
    PROVE  LimitsInv'
<1>1. /\ UNCHANGED <<created, expires, checked>>
      /\ begun' = [begun EXCEPT ![s] = clock] /\ clock \in 0 .. MaxTime
      /\ ~(checked[s] >= 0)
  BY NumbersAssumption DEF SendStart, EmailTypeOK, LimitsInv, CheckedHaveBegun
<1>2. ASSUME NEW t, NEW span
      PROVE  SentIn(t, span)' = SentIn(t, span) /\ AskedIn(t, span)' = AskedIn(t, span)
  BY <1>1, NumbersAssumption DEF SentIn, AskedIn, EmailTypeOK
<1>3. FewSent' /\ CheckedHaveBegun'
  BY <1>1 DEF LimitsInv, FewSent, Exists, CheckedHaveBegun, EmailTypeOK
<1>4. QED
  BY <1>2, <1>3 DEF LimitsInv, Within, Load

LEMMA LimitsHold == EmailSpec => []LimitsInv
<1>1. EmailInit => LimitsInv
  <2> SUFFICES ASSUME EmailInit PROVE LimitsInv
    OBVIOUS
  <2>1. {c \in Codes : Exists(c)} = {}
    BY DEF EmailInit, Exists
  <2>2. ASSUME NEW t \in Nat, NEW span \in Nat
        PROVE  SentIn(t, span) = {} /\ AskedIn(t, span) = {}
    BY DEF EmailInit, SentIn, AskedIn
  <2>3. ASSUME NEW t \in Nat, NEW span \in Nat
        PROVE  Load(t, span) = 0
    BY <2>2, FS_EmptySet DEF Load
  <2>4. QED
    BY <2>1, <2>3, SendersAreSome, NumbersAssumption, FS_EmptySet
    DEF LimitsInv, FewSent, Within, CheckedHaveBegun, EmailInit
<1>2. EmailTypeOK /\ EmailTypeOK' /\ LimitsInv /\ [EmailNext]_emailVars => LimitsInv'
  <2> SUFFICES ASSUME EmailTypeOK, EmailTypeOK', LimitsInv, [EmailNext]_emailVars PROVE LimitsInv'
    OBVIOUS
  <2>1. CASE UNCHANGED <<created, expires, begun, checked>>
    BY <2>1 DEF LimitsInv, FewSent, CheckedHaveBegun, Within, Load, SentIn, AskedIn, Exists
  <2>2. ASSUME NEW s \in Senders, SendCheck(s) PROVE LimitsInv'
    BY <2>2, CheckKeepsLimits
  <2>3. ASSUME NEW s \in Senders, SendAbort(s) \/ \E c \in Codes : SendCommit(s, c)
        PROVE  LimitsInv'
    BY <2>3, SendKeepsLimits
  <2>4. ASSUME NEW q \in Registrants, RegisterStep(q)
        PROVE  UNCHANGED <<created, expires, begun, checked>>
    BY <2>4 DEF RegisterStep, RegisterStart, Compare, IncrementAttempts, Consume,
                CreateUser, RegisterCommit, RegisterAbort
  <2>5. ASSUME NEW s \in Senders, SendStart(s) PROVE LimitsInv'
    BY <2>5, StartKeepsLimits
  <2>6. QED
    BY <2>1, <2>2, <2>3, <2>4, <2>5 DEF EmailNext, emailVars, Tick
<1>3. QED
  BY <1>1, <1>2, IInvHolds, PTL DEF EmailSpec, IInv

(* EmailVerificationService.send_register_code: of the codes that were     *)
(* checked in the resend interval that begins with a code, no more are     *)
(* stored than requests can be in flight, and of those in such a day the   *)
(* daily limit is exceeded by less than that.                              *)
THEOREM StorageIsBounded == EmailSpec => []StoredIsBounded
<1>1. EmailTypeOK /\ LimitsInv => StoredIsBounded
  <2> SUFFICES ASSUME EmailTypeOK, LimitsInv, NEW c \in Codes, Exists(c)
               PROVE  /\ Cardinality({d \in Since(created[c]) : expires[d] - Expire <= created[c] + Resend})
                            <= Cardinality(Senders)
                      /\ Cardinality({d \in Since(created[c]) : expires[d] - Expire <= created[c] + Day})
                            <= DailyLimit + Cardinality(Senders) - 1
    BY DEF StoredIsBounded
  <2> USE NumbersAssumption
  <2>1. created[c] \in 0 .. MaxTime /\ created[c] \in Nat
    BY DEF EmailTypeOK, Exists
  <2>2. ASSUME NEW span \in Nat
        PROVE  {d \in Since(created[c]) : expires[d] - Expire <= created[c] + span}
                    = SentIn(created[c], span)
    BY <2>1 DEF Since, SentIn, Exists, EmailTypeOK
  <2>3. ASSUME NEW span \in Nat
        PROVE  /\ Cardinality(SentIn(created[c], span)) <= Load(created[c], span)
               /\ Cardinality(SentIn(created[c], span)) \in Nat
               /\ Load(created[c], span) \in Nat
    <3>1. /\ Cardinality(SentIn(created[c], span)) \in Nat
          /\ Cardinality(AskedIn(created[c], span)) \in Nat
      BY <2>1, LoadType DEF LimitsInv
    <3>2. QED
      BY <3>1 DEF Load
  <2>4. Within(created[c])
    BY <2>1 DEF LimitsInv
  <2>5. /\ Cardinality(SentIn(created[c], Resend)) <= Cardinality(Senders)
        /\ Cardinality(SentIn(created[c], Day)) <= DailyLimit + Cardinality(Senders) - 1
    BY <2>3, <2>4, SendersAreSome DEF Within
  <2>6. QED
    BY <2>2, <2>5
<1>2. QED
  BY <1>1, LimitsHold, IInvHolds, PTL DEF IInv
=============================================================================
