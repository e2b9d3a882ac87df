--------------------------- MODULE ConsumerProofs ---------------------------
(***************************************************************************)
(* For any messages, instances, rivals and faults: Consumer is type        *)
(* correct, a deleted message is durably handled, inbox and wagers are     *)
(* written together, what is recorded stands, and a message that nothing   *)
(* contradicts is refused at most once.                                    *)
(*                                                                         *)
(* The inductive invariant says of each instance (Local) what its place    *)
(* in handle has established: from the insertion on it holds the key of    *)
(* the row it has drafted, a replay has found the row of its own content,  *)
(* and before a delete both the row and the inbox entry are committed.     *)
(* Locks make the first stable, and the monotony of the tables (Grows) the *)
(* other two.  For refusals, RefusalInv adds that inside its transaction   *)
(* an instance holds the inbox row of its message, which keeps other       *)
(* deliveries of the message from having looked before the row was there.  *)
(***************************************************************************)
EXTENDS Consumer, SequenceTheorems, TLAPS

Local(c) ==
  /\ pc[c] \in {"poll", "read", "claim", "submit", "delete"} => draft[c] = NoRow
  /\ pc[c] \in {"lock", "insert", "share"} => draft[c] # NoRow
  /\ pc[c] # "poll" /\ draft[c] # NoRow => draft[c].body = Body(c)
  /\ pc[c] \in {"share", "balance", "complete"} /\ draft[c] # NoRow =>
       keyLock[Key(c)] = c /\ rows[Key(c)] = NoRow
  /\ pc[c] \in {"balance", "complete"} /\ draft[c] = NoRow => Recorded(Body(c))
  /\ pc[c] = "delete" => Recorded(Body(c)) /\ inbox[Id(c)] # NoEntry

IInv ==
  /\ TypeOK
  /\ \A c \in Instances : Local(c)
  /\ InboxTellsRows
  /\ DeletedIsDurable

\* The tables never lose what they hold.
Grows ==
  /\ \A b \in BodyOf : Recorded(b) => Recorded(b)'
  /\ \A i \in Ids : inbox[i] # NoEntry => inbox'[i] = inbox[i]

\* A step of somebody else, seen from d.
LeavesAlone(d) ==
  /\ pc'[d] = pc[d] /\ batch'[d] = batch[d] /\ draft'[d] = draft[d]
  /\ \A k \in Keys : keyLock[k] = d => keyLock'[k] = d /\ rows'[k] = rows[k]

-----------------------------------------------------------------------------
\* Lemmas about the values.

\* What a batch is made of: its members, its head and its tail.
LEMMA HeadAndTail ==
  ASSUME NEW R, NEW s \in Seq(R)
  PROVE  /\ \A i \in DOMAIN s : s[i] \in R
         /\ s # <<>> =>
              /\ Head(s) \in R /\ Tail(s) \in Seq(R)
              /\ Len(s) = 1 <=> Tail(s) = <<>>
<1>1. \A i \in DOMAIN s : s[i] \in R
  OBVIOUS
<1>2. ASSUME s # <<>>
      PROVE  /\ Head(s) \in R /\ Tail(s) \in Seq(R)
             /\ Len(Tail(s)) = Len(s) - 1 /\ Len(s) \in Nat
  BY <1>2, HeadTailProperties
<1>3. ASSUME s # <<>>
      PROVE  Len(s) = 1 <=> Tail(s) = <<>>
  <2>1. Tail(s) = <<>> => Len(Tail(s)) = 0
    <3>1. Len(<<>>) = 0
      BY EmptySeq
    <3> QED
      BY <3>1, Zenon
  <2>2. Len(s) = 1 => Len(Tail(s)) = 0
    BY <1>2, <1>3
  <2>3. Len(Tail(s)) = 0 => Tail(s) = <<>>
    BY <1>2, <1>3, EmptySeq
  <2>4. Len(Tail(s)) = 0 => Len(s) = 1
    BY <1>2, <1>3
  <2> QED
    BY <2>1, <2>2, <2>3, <2>4
<1> QED
  BY <1>1, <1>2, <1>3

\* The queue holds messages.
LEMMA QueuedType ==
  \A m \in Messages :
    Queued[m] \in [id : Ids, group : Wallets, valid : BOOLEAN, body : BodyOf]
<1> DEFINE M == [id : Ids, group : Wallets, valid : BOOLEAN, body : BodyOf]
<1>1. Queued \in Seq(M)
  BY ConsumerAssumption
<1> HIDE DEF M
<1>2. \A i \in DOMAIN Queued : Queued[i] \in M
  BY <1>1, HeadAndTail
<1> QED
  BY <1>2 DEF Messages, M

\* An instance that has left "poll" works on a message of the queue.
LEMMA CurrentMessage ==
  ASSUME TypeOK, NEW c \in Instances, pc[c] # "poll"
  PROVE  /\ batch[c] # <<>>
         /\ batch[c] \in Seq([message : Messages, receipt : 1..MaxReceives])
         /\ Head(batch[c]).message \in Messages
         /\ Message(c) = Queued[Head(batch[c]).message]
         /\ Body(c) \in BodyOf /\ Id(c) \in Ids /\ Key(c) \in Keys
<1> DEFINE R == [message : Messages, receipt : 1..MaxReceives]
<1> DEFINE M == [id : Ids, group : Wallets, valid : BOOLEAN, body : BodyOf]
<1>1. batch[c] # <<>> /\ batch[c] \in Seq(R)
  BY DEF TypeOK
<1>2. Head(batch[c]) \in R
  <2> HIDE DEF R
  <2> QED
    BY <1>1, HeadAndTail
<1>3. Message(c) \in M
  BY <1>2, QueuedType DEF Message, R
<1> QED
  BY <1>1, <1>2, <1>3 DEF Message, Body, Id, Key, BodyOf

\* Absence is no row and no entry.
LEMMA NoneIsNone ==
  /\ \A b \in BodyOf : Entry(b) # NoEntry /\ Entry(b).hash = b /\ Entry(b).completed
  /\ \A b \in BodyOf : \A s \in Statuses :
       Row(b, s) # NoRow /\ Row(b, s) \in RowOrNone /\ Row(b, s).body = b
  /\ \A r \in RowOrNone \ {NoRow} : r \in [status : Statuses, body : BodyOf]
  BY DEF Entry, NoEntry, Row, NoRow, RowOrNone, Statuses

\* Run takes the next message of the batch.
LEMMA NextMessageType ==
  ASSUME TypeOK, NEW c \in Instances, pc[c] # "poll", NextMessage(c)
  PROVE  /\ batch' \in [Instances -> Seq([message : Messages, receipt : 1..MaxReceives])]
         /\ pc' \in [Instances -> Labels]
         /\ \A d \in Instances : pc'[d] = "poll" <=> batch'[d] = <<>>
         /\ pc'[c] \in {"poll", "read"}
         /\ \A d \in Instances \ {c} : pc'[d] = pc[d] /\ batch'[d] = batch[d]
<1> DEFINE R == [message : Messages, receipt : 1..MaxReceives]
<1>1. batch[c] \in Seq(R) /\ batch[c] # <<>>
  BY CurrentMessage
<1>2. Tail(batch[c]) \in Seq(R) /\ (Len(batch[c]) = 1 <=> Tail(batch[c]) = <<>>)
  <2> HIDE DEF R
  <2> QED
    BY <1>1, HeadAndTail
<1>3. batch \in [Instances -> Seq(R)] /\ pc \in [Instances -> Labels]
  BY DEF TypeOK
<1>4. \A d \in Instances : pc[d] = "poll" <=> batch[d] = <<>>
  BY DEF TypeOK
<1>5. /\ batch' = [batch EXCEPT ![c] = Tail(batch[c])]
      /\ pc' = [pc EXCEPT ![c] = IF Len(batch[c]) = 1 THEN "poll" ELSE "read"]
  BY DEF NextMessage, Goto
<1> QED
  BY <1>2, <1>3, <1>4, <1>5 DEF Labels

\* Somebody else's step does not disturb what d has established.
LEMMA OthersKeep ==
  ASSUME TypeOK, NEW d \in Instances, Local(d), LeavesAlone(d), Grows
  PROVE  Local(d)'
<1>1. CASE pc[d] = "poll"
  BY <1>1 DEF Local, LeavesAlone
<1>2. CASE pc[d] # "poll"
  <2>1. Body(d) \in BodyOf /\ Id(d) \in Ids /\ Key(d) \in Keys
    BY <1>2, CurrentMessage
  <2>2. Body(d)' = Body(d) /\ Id(d)' = Id(d) /\ Key(d)' = Key(d)
    BY DEF LeavesAlone, Body, Id, Key, Message
  <2>3. Recorded(Body(d)) => Recorded(Body(d))'
    <3>1. PICK b \in BodyOf : b = Body(d)
      BY <2>1
    <3>2. Recorded(b) => Recorded(b)'
      BY DEF Grows
    <3> QED
      BY <2>2, <3>1, <3>2 DEF Recorded
  <2> QED
    BY <1>2, <2>1, <2>2, <2>3 DEF Local, LeavesAlone, Grows
<1> QED
  BY <1>1, <1>2

\* Unchanged tables have not lost anything.
LEMMA StillGrows == UNCHANGED tables => Grows
  BY DEF tables, Grows, Recorded

\* The parts of the invariant about the tables survive any growth that keeps
\* the inbox and deletes nothing.
LEMMA TablesKeep ==
  ASSUME IInv, Grows, inbox' = inbox,
         \A m \in Messages : place'[m] = "deleted" => place[m] = "deleted"
  PROVE  InboxTellsRows' /\ DeletedIsDurable'
<1>1. \A m \in Messages : Queued[m].id \in Ids /\ Queued[m].body \in BodyOf
  BY QueuedType
<1>2. \A i \in Ids : inbox[i] # NoEntry => inbox[i].hash \in BodyOf
  BY NoneIsNone DEF IInv, TypeOK
<1>3. InboxTellsRows'
  <2>1. \A i \in Ids : inbox[i] # NoEntry => Recorded(inbox[i].hash)'
    <3> SUFFICES ASSUME NEW i \in Ids, inbox[i] # NoEntry PROVE Recorded(inbox[i].hash)'
      OBVIOUS
    <3>1. PICK b \in BodyOf : b = inbox[i].hash
      BY <1>2
    <3>2. Recorded(b)'
      BY <3>1 DEF IInv, InboxTellsRows, Grows
    <3> QED
      BY <3>1, <3>2 DEF Recorded
  <2> QED
    BY <2>1 DEF IInv, InboxTellsRows
<1>4. DeletedIsDurable'
  BY <1>1 DEF IInv, DeletedIsDurable, Grows
<1> QED
  BY <1>3, <1>4

\* A step of c that keeps the tables growing and everybody else in place.
LEMMA OneSteps ==
  ASSUME IInv, NEW c \in Instances, Grows,
         \A d \in Instances \ {c} : LeavesAlone(d),
         TypeOK', Local(c)', InboxTellsRows', DeletedIsDurable'
  PROVE  IInv'
<1>1. \A d \in Instances \ {c} : Local(d)'
  <2> SUFFICES ASSUME NEW d \in Instances \ {c} PROVE Local(d)'
    OBVIOUS
  <2> QED
    BY OthersKeep DEF IInv
<1> QED
  BY <1>1 DEF IInv

\* The end of a transaction.
LEMMA ReleaseFrees ==
  ASSUME TypeOK, NEW c \in Instances, Release(c)
  PROVE  /\ inboxLock' \in [Ids -> Instances \cup {Nobody}]
         /\ keyLock' \in [Keys -> Instances \cup {Nobody}]
         /\ holder' \in [Wallets -> Instances \cup {Nobody}]
         /\ sharers' \in [Wallets -> SUBSET Instances]
         /\ draft' \in [Instances -> RowOrNone] /\ draft'[c] = NoRow
         /\ \A d \in Instances \ {c} :
              draft'[d] = draft[d] /\ \A k \in Keys : keyLock[k] = d => keyLock'[k] = d
<1>1. inboxLock' \in [Ids -> Instances \cup {Nobody}]
  BY DEF Release, Freed, TypeOK
<1>2. /\ keyLock' \in [Keys -> Instances \cup {Nobody}]
      /\ \A d \in Instances \ {c} : \A k \in Keys : keyLock[k] = d => keyLock'[k] = d
  BY DEF Release, Freed, TypeOK
<1>3. holder' \in [Wallets -> Instances \cup {Nobody}]
  BY DEF Release, Freed, TypeOK
<1>4. sharers' \in [Wallets -> SUBSET Instances]
  BY DEF Release, TypeOK
<1>5. /\ draft' \in [Instances -> RowOrNone] /\ draft'[c] = NoRow
      /\ \A d \in Instances \ {c} : draft'[d] = draft[d]
  BY DEF Release, RowOrNone, TypeOK
<1> QED
  BY <1>1, <1>2, <1>3, <1>4, <1>5

-----------------------------------------------------------------------------
\* The steps.

\* A rollback, and the next message.
LEMMA AbandonKeeps ==
  ASSUME IInv, NEW c \in Instances, pc[c] # "poll", Abandon(c),
         turnedAway' \in [Messages -> Nat]
  PROVE  IInv'
<1>1. TypeOK /\ Release(c) /\ NextMessage(c) /\ UNCHANGED queue /\ UNCHANGED tables
  BY DEF IInv, Abandon
<1>2. TypeOK'
  BY <1>1, ReleaseFrees, NextMessageType DEF TypeOK, queue, tables
<1>3. Grows
  BY <1>1, StillGrows
<1>4. \A d \in Instances \ {c} : LeavesAlone(d)
  BY <1>1, ReleaseFrees, NextMessageType DEF LeavesAlone, tables
<1>5. Local(c)'
  BY <1>1, ReleaseFrees, NextMessageType DEF Local
<1>6. InboxTellsRows' /\ DeletedIsDurable'
  BY <1>1, <1>3, TablesKeep DEF queue, tables
<1> QED
  BY <1>2, <1>3, <1>4, <1>5, <1>6, OneSteps

\* A message that processMessage gives up on stays in the queue; only the bookkeeping changes.
LEMMA TurnAwayKeeps ==
  ASSUME IInv, NEW c \in Instances, pc[c] # "poll", TurnAway(c)
  PROVE  IInv'
<1>1. Head(batch[c]).message \in Messages /\ turnedAway \in [Messages -> Nat]
  BY CurrentMessage DEF IInv, TypeOK
<1>2. turnedAway' \in [Messages -> Nat]
  BY <1>1 DEF TurnAway
<1> QED
  BY <1>2, AbandonKeeps DEF TurnAway

\* A step to the next statement, of a transaction or before it: tables, queue
\* and batch are as they were.
LEMMA StatementKeeps ==
  ASSUME IInv, NEW c \in Instances, NEW label \in Labels \ {"poll"},
         pc[c] # "poll", Goto(c, label),
         UNCHANGED <<queue, tables, batch, turnedAway>>,
         inboxLock' \in [Ids -> Instances \cup {Nobody}],
         keyLock' \in [Keys -> Instances \cup {Nobody}],
         holder' \in [Wallets -> Instances \cup {Nobody}],
         sharers' \in [Wallets -> SUBSET Instances],
         draft' \in [Instances -> RowOrNone],
         \A d \in Instances \ {c} :
           draft'[d] = draft[d] /\ \A k \in Keys : keyLock[k] = d => keyLock'[k] = d,
         Local(c)'
  PROVE  IInv'
<1>1. TypeOK
  BY DEF IInv
<1>2. TypeOK'
  BY <1>1 DEF TypeOK, Goto, queue, tables
<1>3. Grows
  BY StillGrows
<1>4. \A d \in Instances \ {c} : LeavesAlone(d)
  BY <1>1 DEF LeavesAlone, Goto, tables, TypeOK
<1>5. InboxTellsRows' /\ DeletedIsDurable'
  BY <1>3, TablesKeep DEF queue, tables
<1> QED
  BY <1>2, <1>3, <1>4, <1>5, OneSteps

\* The read of the inbox before the transaction takes no lock and writes nothing.
LEMMA ReadKeeps ==
  ASSUME IInv, NEW c \in Instances, Read(c)
  PROVE  IInv'
<1>1. TypeOK /\ Local(c) /\ pc[c] # "poll" /\ InboxTellsRows
  BY DEF IInv, Read
<1>2. CASE TurnAway(c)
  BY <1>1, <1>2, TurnAwayKeeps
<1>3. ASSUME inbox[Id(c)] = Entry(Body(c)), Goto(c, "delete"),
             UNCHANGED <<queue, tables, locks, batch, draft, turnedAway>>
      PROVE  IInv'
  <2>1. Recorded(Body(c)) /\ inbox[Id(c)] # NoEntry
    <3>1. Body(c) \in BodyOf /\ Id(c) \in Ids
      BY <1>1, CurrentMessage
    <3>2. inbox[Id(c)] # NoEntry /\ inbox[Id(c)].hash = Body(c)
      BY <3>1, <1>3, NoneIsNone
    <3> QED
      BY <3>1, <3>2, <1>1 DEF InboxTellsRows
  <2>2. draft[c] = NoRow
    BY <1>1 DEF Local, Read
  <2>3. Local(c)'
    BY <1>1, <1>3, <2>1, <2>2
    DEF Local, Goto, tables, Body, Id, Message, Recorded, TypeOK
  <2> QED
    BY <1>1, <1>3, <2>3, StatementKeeps DEF locks, Labels, TypeOK
<1>4. ASSUME Goto(c, "claim"), UNCHANGED <<queue, tables, locks, batch, draft, turnedAway>>
      PROVE  IInv'
  <2>1. Local(c)'
    BY <1>1, <1>4 DEF Local, Goto, Read, TypeOK
  <2> QED
    BY <1>1, <1>4, <2>1, StatementKeeps DEF locks, Labels, TypeOK
<1> QED
  BY <1>2, <1>3, <1>4 DEF Read

\* The insert of the inbox row blocks other writers of that id; its content is a draft until COMMIT.
LEMMA ClaimKeeps ==
  ASSUME IInv, NEW c \in Instances, Claim(c)
  PROVE  IInv'
<1>1. TypeOK /\ Local(c) /\ pc[c] # "poll"
  BY DEF IInv, Claim
<1>2. Local(c)'
  BY <1>1 DEF Local, Goto, Claim, TypeOK
<1> QED
  BY <1>1, <1>2, StatementKeeps DEF Claim, Labels, TypeOK

\* What Submit may make of a submission is a status.
LEMMA StatusType ==
  ASSUME NEW b
  PROVE  StatusByReference(b) \subseteq Statuses
  BY DEF StatusByReference, Statuses

\* The lookup of Submit inside the outer transaction decides what the draft will hold.
LEMMA SubmitKeeps ==
  ASSUME IInv, NEW c \in Instances, Submit(c)
  PROVE  IInv'
<1>1. TypeOK /\ Local(c) /\ pc[c] = "submit"
  BY DEF IInv, Submit
<1>2. CASE TurnAway(c)
  BY <1>1, <1>2, TurnAwayKeeps
<1>3. ASSUME rows[Key(c)] # NoRow, rows[Key(c)].body = Body(c), Replay(c)
      PROVE  IInv'
  <2>1. draft[c] = NoRow /\ Recorded(Body(c))
    BY <1>1, <1>3 DEF Local, Recorded, Key
  <2>2. PICK label \in {"complete", "balance"} : Goto(c, label)
    BY <1>3 DEF Replay
  <2>3. UNCHANGED <<queue, tables, locks, batch, draft, turnedAway>>
    BY <1>3 DEF Replay
  <2>4. Local(c)'
    BY <1>1, <2>1, <2>2, <2>3
    DEF Local, Goto, tables, Body, Id, Message, Recorded, TypeOK
  <2> QED
    BY <1>1, <2>2, <2>3, <2>4, StatementKeeps DEF locks, Labels, TypeOK
<1>4. ASSUME NEW status \in StatusByReference(Body(c)),
             draft' = [draft EXCEPT ![c] = Row(Body(c), status)],
             NEW label \in {"lock", "insert"}, Goto(c, label),
             UNCHANGED <<queue, tables, locks, batch, turnedAway>>
      PROVE  IInv'
  <2>1. Body(c) \in BodyOf
    BY <1>1, CurrentMessage
  <2>2. PICK r \in RowOrNone \ {NoRow} : r = Row(Body(c), status) /\ r.body = Body(c)
    BY <2>1, StatusType, NoneIsNone
  <2>3. draft' = [draft EXCEPT ![c] = r]
    BY <1>4, <2>2
  <2>4. Local(c)'
    BY <1>1, <1>4, <2>2, <2>3
    DEF Local, Goto, Body, Message, TypeOK
  <2> QED
    BY <1>1, <1>4, <2>3, <2>4, StatementKeeps DEF locks, Labels, TypeOK
<1> QED
  BY <1>2, <1>3, <1>4 DEF Submit

\* FOR UPDATE on the wallet is taken by nobody else and writes nothing.
LEMMA LockWalletKeeps ==
  ASSUME IInv, NEW c \in Instances, LockWallet(c)
  PROVE  IInv'
<1>1. TypeOK /\ Local(c) /\ pc[c] = "lock"
  BY DEF IInv, LockWallet
<1>2. CASE TurnAway(c)
  BY <1>1, <1>2, TurnAwayKeeps
<1>3. CASE ~TurnAway(c)
  <2>1. /\ holder' = [holder EXCEPT ![Wallet(c)] = c] /\ Goto(c, "insert")
        /\ UNCHANGED <<queue, tables, inboxLock, keyLock, sharers, batch, draft, turnedAway>>
    BY <1>3 DEF LockWallet
  <2>2. Local(c)'
    BY <1>1, <2>1 DEF Local, Goto, Body, Message, TypeOK
  <2> QED
    BY <1>1, <2>1, <2>2, StatementKeeps DEF Labels, TypeOK
<1> QED
  BY <1>2, <1>3

\* The wager's row enters the draft, or the lost race aborts the transaction.
LEMMA InsertKeeps ==
  ASSUME IInv, NEW c \in Instances, Insert(c)
  PROVE  IInv'
<1>1. TypeOK /\ Local(c) /\ pc[c] = "insert"
  BY DEF IInv, Insert
<1>2. CASE TurnAway(c)
  BY <1>1, <1>2, TurnAwayKeeps
<1>3. CASE ~TurnAway(c)
  <2>1. /\ Free(keyLock[Key(c)], c) /\ rows[Key(c)] = NoRow
        /\ keyLock' = [keyLock EXCEPT ![Key(c)] = c] /\ Goto(c, "share")
        /\ UNCHANGED <<queue, tables, inboxLock, holder, sharers, batch, draft, turnedAway>>
    BY <1>3 DEF Insert
  <2>2. Key(c) \in Keys
    BY <1>1, CurrentMessage
  <2>3. Local(c)'
    BY <1>1, <2>1, <2>2 DEF Local, Goto, Body, Key, Message, TypeOK, tables
  <2>4. \A d \in Instances \ {c} : \A k \in Keys : keyLock[k] = d => keyLock'[k] = d
    BY <1>1, <2>1, <2>2, ConsumerAssumption DEF Free, TypeOK
  <2> QED
    BY <1>1, <2>1, <2>3, <2>4, StatementKeeps DEF Labels, TypeOK
<1> QED
  BY <1>2, <1>3

\* The KEY SHARE that the foreign key of a parked wager takes writes nothing.
LEMMA ShareWalletKeeps ==
  ASSUME IInv, NEW c \in Instances, ShareWallet(c)
  PROVE  IInv'
<1>1. TypeOK /\ Local(c) /\ pc[c] = "share"
  BY DEF IInv, ShareWallet
<1>2. CASE TurnAway(c)
  BY <1>1, <1>2, TurnAwayKeeps
<1>3. CASE ~TurnAway(c)
  <2>1. /\ sharers' = [sharers EXCEPT ![Wallet(c)] = @ \cup {c}]
        /\ UNCHANGED <<queue, tables, inboxLock, keyLock, holder, batch, draft, turnedAway>>
    BY <1>3 DEF ShareWallet
  <2>2. PICK label \in {"complete", "balance"} : Goto(c, label)
    BY <1>3 DEF ShareWallet
  <2>3. Local(c)'
    BY <1>1, <2>1, <2>2 DEF Local, Goto, Body, Key, Message, TypeOK, tables
  <2>4. sharers' \in [Wallets -> SUBSET Instances]
    BY <1>1, <2>1 DEF TypeOK
  <2> QED
    BY <1>1, <2>1, <2>2, <2>3, <2>4, StatementKeeps DEF Labels, TypeOK
<1> QED
  BY <1>2, <1>3

\* The read of the balance locks the wallet a second time and writes nothing.
LEMMA ReadBalanceKeeps ==
  ASSUME IInv, NEW c \in Instances, ReadBalance(c)
  PROVE  IInv'
<1>1. TypeOK /\ Local(c) /\ pc[c] = "balance"
  BY DEF IInv, ReadBalance
<1>2. Local(c)'
  BY <1>1 DEF Local, Goto, ReadBalance, Body, Key, Message, Recorded, TypeOK, tables
<1> QED
  BY <1>1, <1>2, StatementKeeps DEF ReadBalance, Labels, TypeOK

\* What a commit does to the tables.
LEMMA CommitGrows ==
  ASSUME IInv, NEW c \in Instances, pc[c] = "complete", Commit(c)
  PROVE  /\ inbox' \in [Ids -> {NoEntry} \cup {Entry(b) : b \in BodyOf}]
         /\ rows' \in [Keys -> RowOrNone]
         /\ Grows
         /\ inbox'[Id(c)] # NoEntry
         /\ rows'[Key(c)] # NoRow /\ rows'[Key(c)].body = Body(c)
         /\ \A d \in Instances \ {c} : \A k \in Keys : keyLock[k] = d => rows'[k] = rows[k]
         /\ Release(c)
         /\ \A i \in Ids : inbox'[i] = inbox[i] \/ (i = Id(c) /\ inbox'[i] = Entry(Body(c)))
<1>1. TypeOK /\ Local(c) /\ Body(c) \in BodyOf /\ Id(c) \in Ids /\ Key(c) \in Keys
  BY CurrentMessage DEF IInv
<1>2. PICK e \in {Entry(b) : b \in BodyOf} : e = Entry(Body(c)) /\ e # NoEntry
  BY <1>1, NoneIsNone
<1>3. inbox' = [inbox EXCEPT ![Id(c)] = IF @ = NoEntry THEN e ELSE @]
  BY <1>2 DEF Commit
<1>4. /\ inbox' \in [Ids -> {NoEntry} \cup {Entry(b) : b \in BodyOf}]
      /\ inbox'[Id(c)] # NoEntry
      /\ \A i \in Ids : inbox[i] # NoEntry => inbox'[i] = inbox[i]
      /\ \A i \in Ids : inbox'[i] = inbox[i] \/ (i = Id(c) /\ inbox'[i] = e)
  BY <1>1, <1>2, <1>3 DEF TypeOK
<1>5. rows' = [rows EXCEPT ![Key(c)] = IF draft[c] = NoRow THEN @ ELSE draft[c]]
  BY DEF Commit
<1>6. rows' \in [Keys -> RowOrNone]
  BY <1>1, <1>5 DEF TypeOK
<1>7. draft[c] # NoRow => draft[c].body = Body(c) /\ keyLock[Key(c)] = c /\ rows[Key(c)] = NoRow
  BY <1>1 DEF Local
<1>8. draft[c] = NoRow => Recorded(Body(c))
  BY <1>1 DEF Local
<1>9. \A b \in BodyOf : b.key \in Keys
  BY DEF BodyOf
<1>10. \A b \in BodyOf : Recorded(b) => Recorded(b)'
  BY <1>1, <1>5, <1>7, <1>9 DEF Recorded, TypeOK
<1>11. rows'[Key(c)] # NoRow /\ rows'[Key(c)].body = Body(c)
  BY <1>1, <1>5, <1>7, <1>8 DEF Recorded, TypeOK, Key
<1>12. \A d \in Instances \ {c} : \A k \in Keys : keyLock[k] = d => rows'[k] = rows[k]
  BY <1>1, <1>5, <1>7 DEF TypeOK
<1> QED
  BY <1>2, <1>4, <1>6, <1>10, <1>11, <1>12 DEF Grows, Commit

\* Inbox and wager appear together.
LEMMA CommitTells ==
  ASSUME IInv, NEW c \in Instances, pc[c] = "complete", Commit(c), UNCHANGED queue
  PROVE  InboxTellsRows' /\ DeletedIsDurable'
<1>1. TypeOK /\ Body(c) \in BodyOf /\ Id(c) \in Ids
      /\ Head(batch[c]).message \in Messages /\ Message(c) = Queued[Head(batch[c]).message]
  BY CurrentMessage DEF IInv
<1>2. Grows
  BY CommitGrows
<1>3. ASSUME NEW i \in Ids, inbox'[i] # NoEntry
      PROVE  /\ inbox'[i].completed /\ Recorded(inbox[i].hash)'
             /\ \E m \in Messages : Queued[m].id = i /\ Queued[m].body = inbox'[i].hash
  <2>1. CASE inbox'[i] = inbox[i]
    <3>1. inbox[i].completed /\ Recorded(inbox[i].hash)
          /\ \E m \in Messages : Queued[m].id = i /\ Queued[m].body = inbox[i].hash
      BY <1>3, <2>1 DEF IInv, InboxTellsRows
    <3>2. PICK b \in BodyOf : b = inbox[i].hash
      BY <1>1, <1>3, <2>1, NoneIsNone DEF TypeOK
    <3>3. Recorded(b)'
      BY <1>2, <3>1, <3>2 DEF Grows
    <3> QED
      BY <2>1, <3>1, <3>2, <3>3 DEF Recorded
  <2>2. CASE i = Id(c) /\ inbox'[i] = Entry(Body(c))
    <3>1. inbox'[i].completed /\ inbox'[i].hash = Body(c)
      BY <1>1, <2>2, NoneIsNone
    <3>2. rows'[Body(c).key] # NoRow /\ rows'[Body(c).key].body = Body(c)
      BY CommitGrows DEF Key
    <3>3. Queued[Head(batch[c]).message].id = i /\ Queued[Head(batch[c]).message].body = Body(c)
      BY <1>1, <2>2 DEF Id, Body
    <3> QED
      BY <1>1, <3>1, <3>2, <3>3 DEF Recorded
  <2> QED
    BY <1>3, <2>1, <2>2, CommitGrows
<1>4. InboxTellsRows'
  BY <1>3 DEF InboxTellsRows, Recorded
<1>5. DeletedIsDurable'
  BY <1>2, QueuedType DEF IInv, DeletedIsDurable, Grows, queue
<1> QED
  BY <1>4, <1>5

\* Commit and on, to the delete or, its reply lost, to the next message.
LEMMA CompleteKeeps ==
  ASSUME IInv, NEW c \in Instances, Complete(c) \/ LoseCommitReply(c)
  PROVE  IInv'
<1>1. TypeOK /\ pc[c] = "complete" /\ Commit(c) /\ UNCHANGED queue
      /\ UNCHANGED turnedAway
  BY DEF IInv, Complete, LoseCommitReply
<1>2. Grows /\ Release(c)
  BY <1>1, CommitGrows
<1>3. InboxTellsRows' /\ DeletedIsDurable'
  BY <1>1, CommitTells
<1>4. CASE Complete(c)
  <2>1. Goto(c, "delete") /\ batch' = batch
    BY <1>4 DEF Complete
  <2>2. TypeOK'
    BY <1>1, <1>2, <2>1, CommitGrows, ReleaseFrees DEF TypeOK, Goto, Labels, queue
  <2>3. \A d \in Instances \ {c} : LeavesAlone(d)
    <3>1. \A d \in Instances \ {c} : pc'[d] = pc[d] /\ batch'[d] = batch[d]
      BY <1>1, <2>1 DEF Goto, TypeOK
    <3> QED
      BY <1>1, <1>2, <3>1, CommitGrows, ReleaseFrees DEF LeavesAlone
  <2>4. Local(c)'
    BY <1>1, <1>2, <2>1, CommitGrows, ReleaseFrees
    DEF Local, Goto, TypeOK, Body, Id, Key, Message, Recorded
  <2> QED
    BY <1>2, <1>3, <2>2, <2>3, <2>4, OneSteps
<1>5. CASE LoseCommitReply(c)
  <2>1. NextMessage(c)
    BY <1>5 DEF LoseCommitReply
  <2>2. TypeOK'
    BY <1>1, <1>2, <2>1, CommitGrows, ReleaseFrees, NextMessageType DEF TypeOK, queue
  <2>3. \A d \in Instances \ {c} : LeavesAlone(d)
    BY <1>1, <1>2, <2>1, CommitGrows, ReleaseFrees, NextMessageType DEF LeavesAlone
  <2>4. Local(c)'
    BY <1>1, <1>2, <2>1, ReleaseFrees, NextMessageType DEF Local
  <2> QED
    BY <1>2, <1>3, <2>2, <2>3, <2>4, OneSteps
<1> QED
  BY <1>4, <1>5

\* What is deleted has been committed.
LEMMA DeleteKeeps ==
  ASSUME IInv, NEW c \in Instances, Delete(c) \/ LoseDelete(c)
  PROVE  IInv'
<1>1. /\ TypeOK /\ Local(c) /\ pc[c] = "delete" /\ NextMessage(c)
      /\ UNCHANGED <<receives, tables, locks, draft, turnedAway>>
  BY DEF IInv, Delete, LoseDelete, queue
<1>2. Head(batch[c]).message \in Messages /\ Message(c) = Queued[Head(batch[c]).message]
  BY <1>1, CurrentMessage
<1>3. place' = place \/ place' = [place EXCEPT ![Head(batch[c]).message] = "deleted"]
  BY DEF Delete, LoseDelete, queue
<1>4. TypeOK'
  BY <1>1, <1>2, <1>3, NextMessageType DEF TypeOK, tables, locks
<1>5. Grows
  BY <1>1, StillGrows
<1>6. \A d \in Instances \ {c} : LeavesAlone(d)
  BY <1>1, NextMessageType DEF LeavesAlone, tables, locks
<1>7. Local(c)'
  BY <1>1, NextMessageType DEF Local
<1>8. InboxTellsRows'
  BY <1>1 DEF IInv, InboxTellsRows, Recorded, tables
<1>9. DeletedIsDurable'
  <2>1. Recorded(Queued[Head(batch[c]).message].body)
        /\ inbox[Queued[Head(batch[c]).message].id] # NoEntry
    BY <1>1, <1>2 DEF Local, Body, Id
  <2>2. \A m \in Messages : place[m] = "deleted" =>
          Recorded(Queued[m].body) /\ inbox[Queued[m].id] # NoEntry
    BY DEF IInv, DeletedIsDurable
  <2>3. \A m \in Messages : place'[m] = "deleted" =>
          place[m] = "deleted" \/ m = Head(batch[c]).message
    BY <1>1, <1>3 DEF TypeOK
  <2> QED
    BY <1>1, <2>1, <2>2, <2>3 DEF DeletedIsDurable, Recorded, tables
<1> QED
  BY <1>4, <1>5, <1>6, <1>7, <1>8, <1>9, OneSteps

\* An instance that crashes or stops rolls back and forgets its batch.
LEMMA EndLoopKeeps ==
  ASSUME IInv, NEW c \in Instances, EndLoop(c)
  PROVE  IInv'
<1>1. /\ TypeOK /\ Release(c) /\ batch' = [batch EXCEPT ![c] = <<>>] /\ Goto(c, "poll")
      /\ UNCHANGED queue /\ UNCHANGED tables /\ UNCHANGED turnedAway
  BY DEF IInv, EndLoop
<1>2. batch' \in [Instances -> Seq([message : Messages, receipt : 1..MaxReceives])]
  <2> DEFINE R == [message : Messages, receipt : 1..MaxReceives]
  <2>1. batch \in [Instances -> Seq(R)]
    BY <1>1 DEF TypeOK
  <2> HIDE DEF R
  <2>2. batch' \in [Instances -> Seq(R)]
    BY <1>1, <2>1, EmptySeq
  <2> QED
    BY <2>2 DEF R
<1>3. TypeOK'
  BY <1>1, <1>2, ReleaseFrees DEF TypeOK, Goto, Labels, queue, tables
<1>4. Grows
  BY <1>1, StillGrows
<1>5. \A d \in Instances \ {c} : LeavesAlone(d)
  BY <1>1, ReleaseFrees DEF LeavesAlone, Goto, TypeOK, tables
<1>6. Local(c)'
  BY <1>1, ReleaseFrees DEF Local, Goto, TypeOK
<1>7. InboxTellsRows' /\ DeletedIsDurable'
  BY <1>1, <1>4, TablesKeep DEF queue, tables
<1> QED
  BY <1>3, <1>4, <1>5, <1>6, <1>7, OneSteps

\* A receive hides the messages it takes and counts the receipt; tables stay.
LEMMA ReceiveKeeps ==
  ASSUME IInv, NEW c \in Instances, Receive(c)
  PROVE  IInv'
<1> DEFINE R == [message : Messages, receipt : 1..MaxReceives]
<1>1. TypeOK /\ Local(c) /\ pc[c] = "poll" /\ Goto(c, "read")
      /\ UNCHANGED tables /\ UNCHANGED locks /\ UNCHANGED draft /\ UNCHANGED turnedAway
  BY DEF IInv, Receive
<1>2. PICK n \in 1..BatchSize : \E s \in [1..n -> Messages] :
        LET B == {s[i] : i \in 1..n} IN
        /\ \A m \in B : Receivable(m, B) /\ receives[m] < MaxReceives
        /\ place' = [m \in Messages |-> IF m \in B THEN "inflight" ELSE place[m]]
        /\ receives' = [m \in Messages |-> IF m \in B THEN receives[m] + 1 ELSE receives[m]]
        /\ batch' = [batch EXCEPT ![c] =
             [i \in 1..n |-> [message |-> s[i], receipt |-> receives[s[i]] + 1]]]
  BY DEF Receive
<1>3. PICK s \in [1..n -> Messages] :
        /\ \A i \in 1..n : receives[s[i]] < MaxReceives /\ place[s[i]] = "visible"
        /\ \A m \in Messages : place'[m] = "inflight" \/ place'[m] = place[m]
        /\ place' \in [Messages -> {"visible", "inflight", "deleted", "dead"}]
        /\ receives' \in [Messages -> 0..MaxReceives]
        /\ batch' = [batch EXCEPT ![c] =
             [i \in 1..n |-> [message |-> s[i], receipt |-> receives[s[i]] + 1]]]
  <2>1. PICK s \in [1..n -> Messages] :
          LET B == {s[i] : i \in 1..n} IN
          /\ \A m \in B : Receivable(m, B) /\ receives[m] < MaxReceives
          /\ place' = [m \in Messages |-> IF m \in B THEN "inflight" ELSE place[m]]
          /\ receives' = [m \in Messages |-> IF m \in B THEN receives[m] + 1 ELSE receives[m]]
          /\ batch' = [batch EXCEPT ![c] =
               [i \in 1..n |-> [message |-> s[i], receipt |-> receives[s[i]] + 1]]]
    BY <1>2
  <2> DEFINE B == {s[i] : i \in 1..n}
  <2>2. \A m \in B : receives[m] < MaxReceives /\ place[m] = "visible"
    BY <2>1 DEF Receivable
  <2>3. receives \in [Messages -> 0..MaxReceives] /\ MaxReceives \in Nat
        /\ place \in [Messages -> {"visible", "inflight", "deleted", "dead"}]
    BY <1>1, ConsumerAssumption DEF TypeOK
  <2>4. receives' = [m \in Messages |-> IF m \in B THEN receives[m] + 1 ELSE receives[m]]
        /\ place' = [m \in Messages |-> IF m \in B THEN "inflight" ELSE place[m]]
    BY <2>1
  <2>5. \A i \in 1..n : s[i] \in B
    OBVIOUS
  <2> HIDE DEF B
  <2>6. receives' \in [Messages -> 0..MaxReceives]
    BY <2>2, <2>3, <2>4
  <2>7. /\ place' \in [Messages -> {"visible", "inflight", "deleted", "dead"}]
        /\ \A m \in Messages : place'[m] = "inflight" \/ place'[m] = place[m]
    BY <2>3, <2>4
  <2>8. batch' = [batch EXCEPT ![c] =
          [i \in 1..n |-> [message |-> s[i], receipt |-> receives[s[i]] + 1]]]
    BY <2>1
  <2> QED
    BY <2>2, <2>5, <2>6, <2>7, <2>8
<1> DEFINE b == [i \in 1..n |-> [message |-> s[i], receipt |-> receives[s[i]] + 1]]
<1>4. b \in Seq(R) /\ b # <<>>
  <2>1. n \in Nat /\ n > 0
    BY ConsumerAssumption
  <2>2. \A i \in 1..n : [message |-> s[i], receipt |-> receives[s[i]] + 1] \in R
    <3> SUFFICES ASSUME NEW i \in 1..n
                 PROVE  s[i] \in Messages /\ receives[s[i]] + 1 \in 1..MaxReceives
      OBVIOUS
    <3>1. s[i] \in Messages /\ receives[s[i]] < MaxReceives
      BY <1>3
    <3>2. receives[s[i]] \in 0..MaxReceives /\ MaxReceives \in Nat
      BY <1>1, <3>1, ConsumerAssumption DEF TypeOK
    <3> QED
      BY <3>1, <3>2
  <2> DEFINE r(i) == [message |-> s[i], receipt |-> receives[s[i]] + 1]
  <2>3. \A i \in 1..n : r(i) \in R
    BY <2>2
  <2> HIDE DEF R, r
  <2>4. [i \in 1..n |-> r(i)] \in Seq(R)
    BY <2>1, <2>3
  <2>5. [i \in 1..n |-> r(i)] # <<>>
    BY <2>1
  <2> QED
    BY <2>4, <2>5 DEF r
<1>5. /\ batch' \in [Instances -> Seq(R)]
      /\ \A d \in Instances \ {c} : batch'[d] = batch[d]
      /\ batch'[c] # <<>>
  <2>1. batch \in [Instances -> Seq(R)] /\ batch' = [batch EXCEPT ![c] = b]
    BY <1>1, <1>3 DEF TypeOK
  <2> HIDE DEF R, b
  <2> QED
    BY <1>4, <2>1
<1>6. TypeOK'
  <2>1. pc' \in [Instances -> Labels] /\ \A d \in Instances : pc'[d] = "poll" <=> batch'[d] = <<>>
    BY <1>1, <1>5 DEF TypeOK, Goto, Labels
  <2> QED
    BY <1>1, <1>3, <1>5, <2>1 DEF TypeOK, tables, locks
<1>7. Grows
  BY <1>1, StillGrows
<1>8. \A d \in Instances \ {c} : LeavesAlone(d)
  BY <1>1, <1>5 DEF LeavesAlone, Goto, TypeOK, tables, locks
<1>9. Local(c)'
  BY <1>1 DEF Local, Goto, TypeOK
<1>10. InboxTellsRows' /\ DeletedIsDurable'
  BY <1>1, <1>3, <1>7, TablesKeep DEF tables
<1> QED
  BY <1>6, <1>7, <1>8, <1>9, <1>10, OneSteps

\* A step that is none of an instance's: the queue's own, HTTP's, the resolver's.
LEMMA OutsideKeeps ==
  ASSUME IInv, Grows, UNCHANGED <<receives, inbox, locks, pc, batch, draft, turnedAway>>,
         place' \in [Messages -> {"visible", "inflight", "deleted", "dead"}],
         rows' \in [Keys -> RowOrNone],
         \A m \in Messages : place'[m] = "deleted" => place[m] = "deleted",
         \A k \in Keys : keyLock[k] # Nobody => rows[k] # NoRow \/ rows'[k] = rows[k]
  PROVE  IInv'
<1>1. TypeOK /\ \A d \in Instances : Local(d)
  BY DEF IInv
<1>2. TypeOK'
  BY <1>1 DEF TypeOK, locks
<1>3. ASSUME NEW d \in Instances PROVE Local(d)'
  <2>1. CASE pc[d] = "poll"
    BY <1>1, <2>1 DEF Local
  <2>2. CASE pc[d] # "poll"
    <3>1. Body(d) \in BodyOf /\ Id(d) \in Ids /\ Key(d) \in Keys
      BY <1>1, <2>2, CurrentMessage
    <3>2. Body(d)' = Body(d) /\ Id(d)' = Id(d) /\ Key(d)' = Key(d)
      BY DEF Body, Id, Key, Message
    <3>3. Recorded(Body(d)) => Recorded(Body(d))'
      <4>1. PICK b \in BodyOf : b = Body(d)
        BY <3>1
      <4>2. Recorded(b) => Recorded(b)'
        BY DEF Grows
      <4> QED
        BY <3>2, <4>1, <4>2 DEF Recorded
    <3>4. keyLock[Key(d)] = d /\ rows[Key(d)] = NoRow =>
            keyLock'[Key(d)] = d /\ rows'[Key(d)] = NoRow
      BY <3>1, ConsumerAssumption DEF locks
    <3> QED
      BY <1>1, <2>2, <3>1, <3>2, <3>3, <3>4 DEF Local
  <2> QED
    BY <2>1, <2>2
<1>4. InboxTellsRows' /\ DeletedIsDurable'
  BY TablesKeep
<1> QED
  BY <1>2, <1>3, <1>4 DEF IInv

\* The visibility timeout and the redrive move messages, never rows.
LEMMA QueueKeeps ==
  ASSUME IInv, NEW m \in Messages, Expire(m) \/ Redrive(m)
  PROVE  IInv'
<1>1. TypeOK /\ UNCHANGED <<receives, inbox, locks, pc, batch, draft, turnedAway>> /\ UNCHANGED tables
  BY DEF IInv, Expire, Redrive, tables
<1>2. place' = [place EXCEPT ![m] = "visible"] \/ place' = [place EXCEPT ![m] = "dead"]
  BY DEF Expire, Redrive
<1>3. /\ place' \in [Messages -> {"visible", "inflight", "deleted", "dead"}]
      /\ \A n \in Messages : place'[n] = "deleted" => place[n] = "deleted"
  BY <1>1, <1>2 DEF TypeOK
<1> QED
  BY <1>1, <1>3, StillGrows, OutsideKeeps DEF TypeOK, tables

\* A submission over HTTP adds one row under a key that has none.
LEMMA SubmitByHTTPKeeps ==
  ASSUME IInv, NEW b \in Rivals, SubmitByHTTP(b)
  PROVE  IInv'
<1>1. TypeOK /\ b \in BodyOf /\ b.key \in Keys
  BY ConsumerAssumption DEF IInv, BodyOf
<1>2. PICK status \in StatusByReference(b) : rows' = [rows EXCEPT ![b.key] = Row(b, status)]
  BY DEF SubmitByHTTP
<1>3. PICK r \in RowOrNone \ {NoRow} : r = Row(b, status)
  BY <1>1, StatusType, NoneIsNone
<1>4. /\ rows' = [rows EXCEPT ![b.key] = r] /\ rows[b.key] = NoRow /\ keyLock[b.key] = Nobody
      /\ UNCHANGED <<queue, inbox, locks, pc, batch, draft, turnedAway>>
  BY <1>2, <1>3 DEF SubmitByHTTP
<1>5. rows' \in [Keys -> RowOrNone]
  BY <1>1, <1>4 DEF TypeOK
<1>6. Grows
  BY <1>1, <1>4 DEF Grows, Recorded, TypeOK, BodyOf
<1>7. \A k \in Keys : keyLock[k] # Nobody => rows'[k] = rows[k]
  BY <1>1, <1>4 DEF TypeOK
<1> QED
  BY <1>1, <1>4, <1>5, <1>6, <1>7, OutsideKeeps DEF TypeOK, queue

\* A resolution changes the status of a parked row, not its content.
LEMMA ResolveKeeps ==
  ASSUME IInv, NEW k \in Keys, Resolve(k)
  PROVE  IInv'
<1>1. TypeOK /\ rows[k].status = "PENDING_REFERENCE"
  BY DEF IInv, Resolve
<1>2. PICK status \in Statuses : rows' = [rows EXCEPT ![k].status = status]
  BY DEF Resolve, Statuses
<1>3. rows[k] # NoRow /\ rows[k] \in [status : Statuses, body : BodyOf]
  BY <1>1, NoneIsNone DEF TypeOK, NoRow
<1>4. PICK r \in [status : Statuses, body : BodyOf] :
        r = [rows[k] EXCEPT !.status = status] /\ r.body = rows[k].body
  <2>1. \A x \in [status : Statuses, body : BodyOf] :
          /\ [x EXCEPT !.status = status] \in [status : Statuses, body : BodyOf]
          /\ [x EXCEPT !.status = status].body = x.body
    OBVIOUS
  <2> QED
    BY <1>3, <2>1
<1>5. rows' = [rows EXCEPT ![k] = r]
  BY <1>2, <1>4
<1>6. r \in RowOrNone /\ r # NoRow
  BY <1>4, NoneIsNone DEF RowOrNone, NoRow, Statuses
<1>7. rows' \in [Keys -> RowOrNone]
  BY <1>1, <1>5, <1>6 DEF TypeOK
<1>8. Grows
  BY <1>1, <1>3, <1>4, <1>5, <1>6 DEF Grows, Recorded, TypeOK, BodyOf, Resolve
<1>9. \A j \in Keys : keyLock[j] # Nobody => rows[j] # NoRow \/ rows'[j] = rows[j]
  BY <1>1, <1>3, <1>5 DEF TypeOK
<1> QED
  BY <1>1, <1>7, <1>8, <1>9, OutsideKeeps DEF Resolve, TypeOK, queue

-----------------------------------------------------------------------------
\* The invariant is inductive.

\* The invariant holds of empty tables and a full queue.
LEMMA InitIInv == Init => IInv
<1> SUFFICES ASSUME Init PROVE IInv
  OBVIOUS
<1>1. TypeOK
  <2> DEFINE R == [message : Messages, receipt : 1..MaxReceives]
  <2>1. batch \in [Instances -> Seq(R)]
    <3> HIDE DEF R
    <3> QED
      BY EmptySeq DEF Init
  <2>2. receives \in [Messages -> 0..MaxReceives]
    BY ConsumerAssumption DEF Init
  <2>3. rows \in [Keys -> RowOrNone] /\ draft \in [Instances -> RowOrNone]
    BY DEF Init, RowOrNone
  <2> QED
    BY <2>1, <2>2, <2>3 DEF Init, TypeOK, Labels
<1>2. \A c \in Instances : Local(c)
  BY DEF Init, Local
<1>3. InboxTellsRows /\ DeletedIsDurable
  BY DEF Init, InboxTellsRows, DeletedIsDurable
<1> QED
  BY <1>1, <1>2, <1>3 DEF IInv

\* Each step of the consumer, the queue and its rivals keeps the invariant.
LEMMA NextIInv == IInv /\ [Next]_vars => IInv'
<1> SUFFICES ASSUME IInv, [Next]_vars PROVE IInv'
  OBVIOUS
<1>1. CASE UNCHANGED vars
  BY <1>1 DEF IInv, TypeOK, Local, InboxTellsRows, DeletedIsDurable, Recorded, Body, Id, Key,
    Message, vars, queue, tables, locks
<1>2. ASSUME NEW c \in Instances, Receive(c) \/ Handle(c) PROVE IInv'
  BY <1>2, ReceiveKeeps, ReadKeeps, ClaimKeeps, SubmitKeeps, LockWalletKeeps, InsertKeeps,
    ShareWalletKeeps, ReadBalanceKeeps, CompleteKeeps, DeleteKeeps DEF Handle
<1>3. ASSUME NEW c \in Instances, Fail(c) PROVE IInv'
  BY <1>3, AbandonKeeps DEF Fail, Handling, IInv, TypeOK
<1>4. ASSUME NEW c \in Instances, DeadlockVictim(c) PROVE IInv'
  <2>1. pc[c] # "poll"
    <3>1. PICK S \in SUBSET Instances : c \in S /\ Stuck(S)
      BY <1>4 DEF DeadlockVictim
    <3>2. PICK d \in S : WaitsFor(c, d)
      BY <3>1 DEF Stuck
    <3> QED
      BY <3>2 DEF WaitsFor
  <2> QED
    BY <1>4, <2>1, AbandonKeeps DEF DeadlockVictim, IInv, TypeOK
<1>5. ASSUME NEW c \in Instances, LoseCommitReply(c) \/ LoseDelete(c) PROVE IInv'
  BY <1>5, CompleteKeeps, DeleteKeeps
<1>6. ASSUME NEW c \in Instances, Crash(c) \/ Cancel(c) PROVE IInv'
  BY <1>6, EndLoopKeeps DEF Crash, Cancel
<1> QED
  BY <1>1, <1>2, <1>3, <1>4, <1>5, <1>6, QueueKeeps, SubmitByHTTPKeeps, ResolveKeeps DEF Next

\* The inductive invariant holds in every behaviour.
LEMMA SpecIInv == Spec => []IInv
  BY InitIInv, NextIInv, PTL DEF Spec

-----------------------------------------------------------------------------
\* The tables, the locks, the queue and every instance's place in handle stay
\* within their types whatever is sent, received, lost, or cut short.
THEOREM TypeCorrect == Spec => []TypeOK
<1>1. IInv => TypeOK
  BY DEF IInv
<1> QED
  BY <1>1, SpecIInv, PTL

\* processMessage: "No message is ever deleted before Submit's underlying
\* transaction commits", for any number of instances, deliveries and faults.
THEOREM DeletionsAreDurable == Spec => []DeletedIsDurable
<1>1. IInv => DeletedIsDurable
  BY DEF IInv
<1> QED
  BY <1>1, SpecIInv, PTL

\* The consumer's transaction writes the inbox and the wagers together.
THEOREM InboxIsTruthful == Spec => []InboxTellsRows
<1>1. IInv => InboxTellsRows
  BY DEF IInv
<1> QED
  BY <1>1, SpecIInv, PTL

-----------------------------------------------------------------------------
\* What is recorded stands.

\* No row is replaced by one of another content.
ContentKept ==
  \A k \in Keys : rows[k] # NoRow => rows'[k] # NoRow /\ rows'[k].body = rows[k].body

\* Wager rows are written by a commit of the consumer, by HTTP and by the
\* resolver.
LEMMA RowsAreWritten ==
  ASSUME [Next]_vars
  PROVE  \/ rows' = rows
         \/ \E c \in Instances : pc[c] = "complete" /\ Commit(c)
         \/ \E b \in Rivals : SubmitByHTTP(b)
         \/ \E k \in Keys : Resolve(k)
<1>1. ASSUME NEW c \in Instances, Handle(c), ~Complete(c) PROVE rows' = rows
  BY <1>1 DEF Handle, Read, Claim, Submit, Replay, LockWallet, Insert, ShareWallet, ReadBalance,
    Delete, TurnAway, Abandon, tables
<1>2. ASSUME NEW c \in Instances,
             Receive(c) \/ DeadlockVictim(c) \/ Fail(c) \/ LoseDelete(c) \/ Crash(c) \/ Cancel(c)
      PROVE  rows' = rows
  BY <1>2 DEF Receive, DeadlockVictim, Fail, LoseDelete, Crash, Cancel, EndLoop, Abandon, tables
<1>3. ASSUME NEW m \in Messages, Expire(m) \/ Redrive(m) PROVE rows' = rows
  BY <1>3 DEF Expire, Redrive, tables
<1> QED
  BY <1>1, <1>2, <1>3 DEF Next, Complete, LoseCommitReply, vars, tables

\* A commit of the consumer writes its draft, if its key has no row.
LEMMA CommitWrites ==
  ASSUME IInv, NEW c \in Instances, pc[c] = "complete", Commit(c)
  PROVE  /\ Key(c) \in Keys
         /\ \A k \in Keys : rows'[k] = rows[k] \/ (k = Key(c) /\ rows'[k] = draft[c] /\ draft[c] # NoRow)
         /\ draft[c] # NoRow => rows[Key(c)] = NoRow /\ draft[c].body = Body(c)
<1>1. Key(c) \in Keys /\ rows \in [Keys -> RowOrNone]
  BY CurrentMessage DEF IInv, TypeOK
<1>2. draft[c] # NoRow => rows[Key(c)] = NoRow /\ draft[c].body = Body(c)
  BY DEF IInv, Local
<1> QED
  BY <1>1, <1>2 DEF Commit

\* The resolver changes the status of a row and nothing else.
LEMMA ResolveWrites ==
  ASSUME IInv, NEW k \in Keys, Resolve(k)
  PROVE  /\ rows[k] # NoRow /\ rows'[k] # NoRow /\ rows'[k].body = rows[k].body
         /\ \A l \in Keys \ {k} : rows'[l] = rows[l]
<1>1. PICK status \in Statuses : rows' = [rows EXCEPT ![k].status = status]
  BY DEF Resolve, Statuses
<1>2. rows \in [Keys -> RowOrNone] /\ rows[k].status = "PENDING_REFERENCE"
  BY DEF IInv, TypeOK, Resolve
<1>3. rows[k] \in [status : Statuses, body : BodyOf]
  BY <1>2, NoneIsNone DEF NoRow
<1>4. \A x \in [status : Statuses, body : BodyOf] :
        /\ [x EXCEPT !.status = status] \in [status : Statuses, body : BodyOf]
        /\ [x EXCEPT !.status = status].body = x.body
  OBVIOUS
<1>5. PICK r \in [status : Statuses, body : BodyOf] :
        r = [rows[k] EXCEPT !.status = status] /\ r.body = rows[k].body
  BY <1>3, <1>4
<1>6. rows' = [rows EXCEPT ![k] = r] /\ r # NoRow
  BY <1>1, <1>5, NoneIsNone DEF NoRow, Statuses
<1> QED
  BY <1>2, <1>5, <1>6 DEF NoRow

\* No step replaces what is recorded.
LEMMA StepsKeepContent ==
  ASSUME IInv, [Next]_vars
  PROVE  ContentKept
<1>1. ASSUME NEW c \in Instances, pc[c] = "complete", Commit(c) PROVE ContentKept
  <2> SUFFICES ASSUME NEW k \in Keys, rows[k] # NoRow
               PROVE  rows'[k] # NoRow /\ rows'[k].body = rows[k].body
    BY DEF ContentKept
  <2> QED
    BY <1>1, CommitWrites
<1>2. ASSUME NEW b \in Rivals, SubmitByHTTP(b) PROVE ContentKept
  BY <1>2 DEF SubmitByHTTP, IInv, TypeOK, ContentKept
<1>3. ASSUME NEW k \in Keys, Resolve(k) PROVE ContentKept
  BY <1>3, ResolveWrites DEF ContentKept
<1> QED
  BY <1>1, <1>2, <1>3, RowsAreWritten DEF ContentKept

\* What is recorded under a key is never replaced, although deliveries, HTTP
\* and the resolver all decide on what they have looked up before.
THEOREM RecordsStand == Spec => ContentStands
<1>1. IInv /\ [Next]_vars => [ContentKept]_vars
  BY StepsKeepContent
<1> QED
  BY <1>1, SpecIInv, PTL DEF ContentStands, ContentKept, Spec

-----------------------------------------------------------------------------
\* Refusals.

\* Inside its transaction an instance holds the inbox row of its message.
HoldsInbox == \A c \in Instances : InTx(c) => inboxLock[Id(c)] = c

\* Every row is of some message or of some rival.
RowsHaveSource ==
  \A k \in Keys : rows[k] # NoRow =>
    /\ rows[k].body.key = k
    /\ \/ rows[k].body \in Rivals
       \/ \E n \in Messages : Queued[n].body = rows[k].body

\* An instance works on m and has found no row of its key.
Inserting(c, m) == pc[c] \in {"lock", "insert"} /\ Head(batch[c]).message = m

\* A sound message is refused when the row of its key is there, and then
\* nobody is left who has not seen it.
RefusalSettles ==
  \A m \in Messages : Sound(m) /\ turnedAway[m] > 0 =>
    /\ turnedAway[m] = 1
    /\ rows[Queued[m].body.key] # NoRow
    /\ \A c \in Instances : ~Inserting(c, m)

RefusalInv == IInv /\ HoldsInbox /\ RowsHaveSource /\ RefusalSettles

\* A step of c, seen from the inbox: the others stay where they are, with the
\* inbox rows they hold, and c enters a transaction with the row of its own.
Advances(c) ==
  /\ \A d \in Instances \ {c} :
       /\ pc'[d] = pc[d] /\ batch'[d] = batch[d]
       /\ \A i \in Ids : inboxLock[i] = d => inboxLock'[i] = d
  /\ InTx(c)' =>
       /\ pc[c] # "poll" /\ batch'[c] = batch[c]
       /\ (InTx(c) /\ inboxLock' = inboxLock) \/ inboxLock'[Id(c)] = c
  /\ pc'[c] \in {"lock", "insert"} => pc[c] \in {"lock", "insert"} \/ rows[Key(c)] = NoRow

\* A rollback frees the inbox row and takes the next message.
LEMMA AbandonAdvances ==
  ASSUME IInv, NEW c \in Instances, pc[c] # "poll", Abandon(c)
  PROVE  Advances(c) /\ pc'[c] \in {"poll", "read"}
<1>1. /\ pc'[c] \in {"poll", "read"}
      /\ \A d \in Instances \ {c} : pc'[d] = pc[d] /\ batch'[d] = batch[d]
  BY NextMessageType DEF IInv, Abandon
<1>2. \A d \in Instances \ {c} : \A i \in Ids : inboxLock[i] = d => inboxLock'[i] = d
  BY DEF IInv, TypeOK, Abandon, Release, Freed
<1> QED
  BY <1>1, <1>2 DEF Advances, InTx

\* A statement without error goes on to the next one of the same message.
LEMMA StatementAdvances ==
  ASSUME IInv, NEW c \in Instances,
         \/ Read(c) \/ Claim(c) \/ Submit(c) \/ LockWallet(c) \/ Insert(c)
         \/ ShareWallet(c) \/ ReadBalance(c),
         ~TurnAway(c)
  PROVE  Advances(c) /\ turnedAway' = turnedAway
<1>1. TypeOK
  BY DEF IInv
<1>2. ASSUME NEW label \in Labels, Goto(c, label), batch' = batch, inboxLock' = inboxLock,
             label \in {"claim", "delete"} \/ InTx(c),
             label \in {"lock", "insert"} => pc[c] = "lock" \/ rows[Key(c)] = NoRow
      PROVE  Advances(c)
  BY <1>1, <1>2 DEF Goto, TypeOK, Advances, InTx
<1>3. CASE Read(c)
  BY <1>2, <1>3 DEF Read, locks, Labels
<1>4. CASE Claim(c)
  <2>1. /\ inboxLock' = [inboxLock EXCEPT ![Id(c)] = c] /\ Free(inboxLock[Id(c)], c)
        /\ Id(c) \in Ids /\ pc[c] = "claim"
    BY <1>1, <1>4, CurrentMessage DEF Claim
  <2>2. \A d \in Instances \ {c} : \A i \in Ids : inboxLock[i] = d => inboxLock'[i] = d
    BY <1>1, <2>1, ConsumerAssumption DEF Free, TypeOK
  <2>3. inboxLock'[Id(c)] = c
    BY <1>1, <2>1 DEF TypeOK
  <2> QED
    BY <1>1, <1>4, <2>1, <2>2, <2>3 DEF Claim, Goto, TypeOK, Advances, InTx
<1>5. CASE Submit(c)
  <2>1. CASE rows[Key(c)] # NoRow
    BY <1>2, <1>5, <2>1 DEF Submit, Replay, locks, Labels, InTx
  <2>2. CASE rows[Key(c)] = NoRow
    BY <1>2, <1>5, <2>2 DEF Submit, locks, Labels, InTx
  <2> QED
    BY <2>1, <2>2
<1>6. CASE LockWallet(c)
  BY <1>2, <1>6 DEF LockWallet, Labels, InTx
<1>7. CASE Insert(c) \/ ShareWallet(c) \/ ReadBalance(c)
  BY <1>2, <1>7 DEF Insert, ShareWallet, ReadBalance, Labels, InTx
<1>8. turnedAway' = turnedAway
  BY DEF Read, Claim, Submit, Replay, LockWallet, Insert, ShareWallet, ReadBalance
<1> QED
  BY <1>3, <1>4, <1>5, <1>6, <1>7, <1>8

\* A step that ends a message or a batch, or begins one, is outside any
\* transaction afterwards.
LEMMA EndAdvances ==
  ASSUME IInv, NEW c \in Instances,
         \/ Receive(c) \/ Complete(c) \/ Delete(c) \/ LoseCommitReply(c) \/ LoseDelete(c)
         \/ Crash(c) \/ Cancel(c)
  PROVE  Advances(c) /\ turnedAway' = turnedAway
<1>1. TypeOK
  BY DEF IInv
<1>2. turnedAway' = turnedAway
  BY DEF Receive, Complete, Delete, LoseCommitReply, LoseDelete, Crash, Cancel, EndLoop
<1>3. inboxLock' = inboxLock \/ inboxLock' = Freed(inboxLock, c)
  BY DEF Receive, Complete, Delete, LoseCommitReply, LoseDelete, Crash, Cancel, EndLoop,
         Commit, Release, locks
<1>4. \A d \in Instances \ {c} : \A i \in Ids : inboxLock[i] = d => inboxLock'[i] = d
  BY <1>1, <1>3 DEF TypeOK, Freed
<1>5. /\ \A d \in Instances \ {c} : pc'[d] = pc[d] /\ batch'[d] = batch[d]
      /\ pc'[c] \in {"poll", "read", "delete"}
  <2>1. CASE Delete(c) \/ LoseCommitReply(c) \/ LoseDelete(c)
    BY <1>1, <2>1, NextMessageType DEF Delete, LoseCommitReply, LoseDelete
  <2>2. CASE Complete(c)
    BY <1>1, <2>2 DEF Complete, Goto, TypeOK
  <2>3. CASE Crash(c) \/ Cancel(c)
    BY <1>1, <2>3 DEF Crash, Cancel, EndLoop, Goto, TypeOK
  <2>4. CASE Receive(c)
    <3>1. pc' = [pc EXCEPT ![c] = "read"] /\ \E s : batch' = [batch EXCEPT ![c] = s]
      BY <2>4 DEF Receive, Goto
    <3> QED
      BY <1>1, <3>1 DEF TypeOK
  <2> QED
    BY <2>1, <2>2, <2>3, <2>4
<1> QED
  BY <1>2, <1>4, <1>5 DEF Advances, InTx

\* A sound message is refused, with nothing having failed, only by the
\* insertion that meets the row of its key.
LEMMA SoundRefusal ==
  ASSUME RefusalInv, NEW c \in Instances, Handle(c), TurnAway(c),
         Sound(Head(batch[c]).message)
  PROVE  pc[c] = "insert" /\ rows[Key(c)] # NoRow
<1> DEFINE m == Head(batch[c]).message
<1>0. TypeOK /\ pc[c] # "poll"
  BY DEF RefusalInv, IInv, Handle, Read, Claim, Submit, LockWallet, Insert, ShareWallet,
         ReadBalance, Complete, Delete
<1>1. /\ m \in Messages /\ Message(c) = Queued[m] /\ Body(c) = Queued[m].body
      /\ Id(c) = Queued[m].id /\ Key(c) = Queued[m].body.key /\ Wallet(c) = Queued[m].body.wallet
      /\ Id(c) \in Ids /\ Key(c) \in Keys
  BY <1>0, CurrentMessage DEF Message, Body, Id, Key, Wallet
<1>2. Message(c).valid /\ Wallet(c) \in Wallets
  BY <1>1 DEF Sound
<1>3. inbox[Id(c)] # NoEntry => inbox[Id(c)].hash = Body(c)
  <2> SUFFICES ASSUME inbox[Id(c)] # NoEntry PROVE inbox[Id(c)].hash = Body(c)
    OBVIOUS
  <2>1. PICK n \in Messages : Queued[n].id = Id(c) /\ Queued[n].body = inbox[Id(c)].hash
    BY <1>1 DEF RefusalInv, IInv, InboxTellsRows
  <2> QED
    BY <1>1, <2>1 DEF Sound
<1>4. rows[Key(c)] # NoRow => rows[Key(c)].body = Body(c)
  <2> SUFFICES ASSUME rows[Key(c)] # NoRow PROVE rows[Key(c)].body = Body(c)
    OBVIOUS
  <2>1. rows[Key(c)].body.key = Key(c)
    BY <1>1 DEF RefusalInv, RowsHaveSource
  <2>2. CASE rows[Key(c)].body \in Rivals
    BY <1>1, <2>1, <2>2 DEF Sound
  <2>3. ASSUME NEW n \in Messages, Queued[n].body = rows[Key(c)].body
        PROVE  rows[Key(c)].body = Body(c)
    BY <1>1, <2>1, <2>3 DEF Sound
  <2> QED
    BY <1>1, <2>2, <2>3 DEF RefusalInv, RowsHaveSource
<1>5. turnedAway' # turnedAway
  <2>1. turnedAway[m] \in Nat /\ turnedAway' = [turnedAway EXCEPT ![m] = turnedAway[m] + 1]
    BY <1>0, <1>1 DEF TurnAway, TypeOK
  <2>2. turnedAway'[m] = turnedAway[m] + 1
    BY <1>0, <1>1, <2>1 DEF TypeOK
  <2> QED
    BY <2>1, <2>2
<1>6. ~Read(c)
  BY <1>2, <1>3, <1>5 DEF Read
<1>7. ~Claim(c) /\ ~LockWallet(c) /\ ~ShareWallet(c) /\ ~ReadBalance(c) /\ ~Complete(c) /\ ~Delete(c)
  BY <1>2, <1>5 DEF Claim, LockWallet, ShareWallet, ReadBalance, Complete, Delete
<1>8. ~Submit(c)
  BY <1>4, <1>5 DEF Submit, Replay
<1>9. Insert(c)
  BY <1>6, <1>7, <1>8 DEF Handle
<1> QED
  BY <1>5, <1>9 DEF Insert

\* Instances inside their transactions keep their inbox rows.
LEMMA AdvancesHolds ==
  ASSUME IInv, HoldsInbox, NEW c \in Instances, Advances(c)
  PROVE  HoldsInbox'
<1> SUFFICES ASSUME NEW d \in Instances, InTx(d)' PROVE inboxLock'[Id(d)'] = d
  BY DEF HoldsInbox
<1>1. CASE d # c
  <2>1. InTx(d) /\ pc[d] # "poll" /\ Id(d)' = Id(d)
    BY <1>1 DEF Advances, InTx, Id, Message
  <2>2. Id(d) \in Ids
    BY <2>1, CurrentMessage DEF IInv
  <2> QED
    BY <1>1, <2>1, <2>2 DEF HoldsInbox, Advances
<1>2. CASE d = c
  <2>1. Id(c)' = Id(c)
    BY <1>2 DEF Advances, Id, Message
  <2> QED
    BY <1>2, <2>1 DEF HoldsInbox, Advances
<1> QED
  BY <1>1, <1>2

\* Whoever inserts for a message that has been refused was inserting before.
LEMMA AdvancesInserts ==
  ASSUME RefusalInv, ContentKept, NEW c \in Instances, Advances(c),
         NEW m \in Messages, Sound(m), turnedAway[m] > 0
  PROVE  rows'[Queued[m].body.key] # NoRow /\ \A d \in Instances : ~Inserting(d, m)'
<1>1. Queued[m].body.key \in Keys /\ rows[Queued[m].body.key] # NoRow
  BY QueuedType DEF BodyOf, RefusalInv, RefusalSettles
<1>2. ASSUME NEW d \in Instances, Inserting(d, m)' PROVE Inserting(d, m)
  <2>1. CASE d # c
    BY <1>2, <2>1 DEF Advances, Inserting
  <2>2. CASE d = c
    <3>1. batch'[c] = batch[c] /\ Head(batch[c]).message = m
      BY <1>2, <2>2 DEF Advances, Inserting, InTx
    <3>2. Key(c) = Queued[m].body.key
      BY <3>1 DEF Key, Body, Message
    <3> QED
      BY <1>1, <1>2, <2>2, <3>1, <3>2 DEF Advances, Inserting
  <2> QED
    BY <2>1, <2>2
<1> QED
  BY <1>1, <1>2 DEF ContentKept, RefusalInv, RefusalSettles

\* A refusal is the first one of its message.
LEMMA TurnAwaySettles ==
  ASSUME RefusalInv, ContentKept, NEW c \in Instances, Handle(c), TurnAway(c), Advances(c),
         pc'[c] \in {"poll", "read"}, pc[c] # "poll"
  PROVE  RefusalSettles'
<1>0. PICK m \in Messages : m = Head(batch[c]).message
  BY CurrentMessage DEF RefusalInv, IInv
<1>1. TypeOK /\ turnedAway \in [Messages -> Nat]
  BY DEF RefusalInv, IInv, TypeOK
<1>2. turnedAway' = [turnedAway EXCEPT ![m] = turnedAway[m] + 1]
  BY <1>0 DEF TurnAway
<1> SUFFICES ASSUME NEW n \in Messages, Sound(n), turnedAway'[n] > 0
             PROVE  /\ turnedAway'[n] = 1 /\ rows'[Queued[n].body.key] # NoRow
                    /\ \A d \in Instances : ~Inserting(d, n)'
  BY DEF RefusalSettles, Sound
<1>3. CASE n # m
  <2>1. turnedAway'[n] = turnedAway[n]
    BY <1>1, <1>2, <1>3
  <2> QED
    BY <2>1, AdvancesInserts DEF RefusalInv, RefusalSettles
<1>4. CASE n = m
  <2>1. pc[c] = "insert" /\ rows[Key(c)] # NoRow
    BY <1>0, <1>4, SoundRefusal
  <2>2. turnedAway[m] = 0
    <3>1. Inserting(c, m)
      BY <1>0, <2>1 DEF Inserting
    <3> QED
      BY <1>1, <1>4, <3>1 DEF RefusalInv, RefusalSettles
  <2>3. turnedAway'[m] = 1
    BY <1>1, <1>2, <2>2
  <2>4. Key(c) = Queued[m].body.key /\ Id(c) = Queued[m].id /\ Key(c) \in Keys
    BY <1>0, <1>1, CurrentMessage DEF Key, Id, Body, Message
  <2>5. rows'[Queued[m].body.key] # NoRow
    BY <2>1, <2>4 DEF ContentKept
  <2>6. ASSUME NEW d \in Instances, Inserting(d, m)' PROVE FALSE
    <3>1. d # c
      BY <2>6 DEF Inserting
    <3>2. InTx(d) /\ Id(d) = Queued[m].id
      BY <2>6, <3>1 DEF Inserting, Advances, InTx, Id, Message
    <3>3. InTx(c)
      BY <2>1 DEF InTx
    <3> QED
      BY <2>4, <3>1, <3>2, <3>3 DEF RefusalInv, HoldsInbox
  <2> QED
    BY <1>4, <2>3, <2>5, <2>6
<1> QED
  BY <1>3, <1>4

\* Every row that is written is of the message at hand or of a rival.
LEMMA SourcesStay ==
  ASSUME IInv, RowsHaveSource, [Next]_vars
  PROVE  RowsHaveSource'
<1>1. ASSUME NEW c \in Instances, pc[c] = "complete", Commit(c) PROVE RowsHaveSource'
  <2>1. /\ Head(batch[c]).message \in Messages
        /\ Body(c) = Queued[Head(batch[c]).message].body /\ Key(c) = Body(c).key
    BY <1>1, CurrentMessage DEF IInv, Body, Message, Key
  <2>2. \A k \in Keys : rows'[k] = rows[k]
          \/ (k = Key(c) /\ rows'[k] = draft[c] /\ draft[c].body = Body(c))
    BY <1>1, CommitWrites
  <2> QED
    BY <2>1, <2>2 DEF RowsHaveSource
<1>2. ASSUME NEW b \in Rivals, SubmitByHTTP(b) PROVE RowsHaveSource'
  <2>1. b \in BodyOf
    BY ConsumerAssumption
  <2>2. PICK status : rows' = [rows EXCEPT ![b.key] = Row(b, status)]
    BY <1>2 DEF SubmitByHTTP
  <2>3. Row(b, status).body = b
    BY DEF Row
  <2> QED
    BY <2>1, <2>2, <2>3 DEF RowsHaveSource, IInv, TypeOK
<1>3. ASSUME NEW k \in Keys, Resolve(k) PROVE RowsHaveSource'
  BY <1>3, ResolveWrites DEF RowsHaveSource
<1>4. CASE rows' = rows
  BY <1>4 DEF RowsHaveSource
<1> QED
  BY <1>1, <1>2, <1>3, <1>4, RowsAreWritten

\* Nothing has been received, recorded or refused at first.
LEMMA InitRefusal == Init => RefusalInv
<1> SUFFICES ASSUME Init PROVE RefusalInv
  OBVIOUS
<1>1. HoldsInbox /\ RowsHaveSource /\ RefusalSettles
  BY DEF Init, HoldsInbox, InTx, RowsHaveSource, RefusalSettles
<1> QED
  BY <1>1, InitIInv DEF RefusalInv

\* Each step leaves a refused message with its row and without an insertion.
LEMMA NextRefusal == RefusalInv /\ [Next]_vars => RefusalInv'
<1> SUFFICES ASSUME RefusalInv, [Next]_vars PROVE RefusalInv'
  OBVIOUS
<1>1. IInv /\ IInv' /\ ContentKept /\ RowsHaveSource'
  BY NextIInv, StepsKeepContent, SourcesStay DEF RefusalInv
<1>2. ASSUME NEW c \in Instances, Advances(c), turnedAway' = turnedAway
      PROVE  HoldsInbox' /\ RefusalSettles'
  <2>1. HoldsInbox'
    BY <1>1, <1>2, AdvancesHolds DEF RefusalInv
  <2>2. RefusalSettles'
    <3> SUFFICES ASSUME NEW m \in Messages, Sound(m), turnedAway[m] > 0
                 PROVE  /\ turnedAway[m] = 1 /\ rows'[Queued[m].body.key] # NoRow
                        /\ \A d \in Instances : ~Inserting(d, m)'
      BY <1>2 DEF RefusalSettles, Sound
    <3> QED
      BY <1>1, <1>2, AdvancesInserts DEF RefusalInv, RefusalSettles
  <2> QED
    BY <2>1, <2>2
<1>3. ASSUME NEW c \in Instances, Handle(c), TurnAway(c)
      PROVE  HoldsInbox' /\ RefusalSettles'
  <2>1. pc[c] # "poll" /\ Abandon(c)
    BY <1>3 DEF Handle, Read, Claim, Submit, LockWallet, Insert, ShareWallet, ReadBalance,
                Complete, Delete, TurnAway
  <2>2. Advances(c) /\ pc'[c] \in {"poll", "read"}
    BY <1>1, <2>1, AbandonAdvances
  <2> QED
    BY <1>1, <1>3, <2>1, <2>2, AdvancesHolds, TurnAwaySettles DEF RefusalInv
<1>4. ASSUME NEW c \in Instances, Fail(c) \/ DeadlockVictim(c)
      PROVE  Advances(c) /\ turnedAway' = turnedAway
  <2>1. pc[c] # "poll"
    <3>1. CASE Fail(c)
      BY <3>1 DEF Fail, Handling
    <3>2. CASE DeadlockVictim(c)
      <4>1. PICK d \in Instances : WaitsFor(c, d)
        BY <3>2 DEF DeadlockVictim, Stuck
      <4> QED
        BY <4>1 DEF WaitsFor
    <3> QED
      BY <1>4, <3>1, <3>2
  <2> QED
    BY <1>1, <1>4, <2>1, AbandonAdvances DEF Fail, DeadlockVictim
<1>5. ASSUME NEW c \in Instances, Handle(c), ~TurnAway(c)
      PROVE  Advances(c) /\ turnedAway' = turnedAway
  BY <1>1, <1>5, StatementAdvances, EndAdvances DEF Handle
<1>6. CASE UNCHANGED <<locks, pc, batch, turnedAway>>
  <2>1. HoldsInbox'
    BY <1>6 DEF RefusalInv, HoldsInbox, InTx, Id, Message, locks
  <2>2. \A m \in Messages : Queued[m].body.key \in Keys
    BY QueuedType DEF BodyOf
  <2>3. RefusalSettles'
    BY <1>1, <1>6, <2>2 DEF RefusalInv, RefusalSettles, Sound, Inserting, ContentKept
  <2> QED
    BY <1>1, <2>1, <2>3 DEF RefusalInv
<1>7. \/ UNCHANGED <<locks, pc, batch, turnedAway>>
      \/ \E c \in Instances :
           \/ Handle(c) \/ Fail(c) \/ DeadlockVictim(c)
           \/ Receive(c) \/ LoseCommitReply(c) \/ LoseDelete(c) \/ Crash(c) \/ Cancel(c)
  BY DEF Next, Expire, Redrive, SubmitByHTTP, Resolve, vars
<1>8. HoldsInbox' /\ RefusalSettles'
  BY <1>1, <1>2, <1>3, <1>4, <1>5, <1>6, <1>7, EndAdvances DEF RefusalInv
<1> QED
  BY <1>1, <1>8 DEF RefusalInv

\* A sound message is refused at most once with nothing having failed, for any
\* number of instances, deliveries and rivals: its inbox row keeps two
\* deliveries of it apart, and the second finds what the first one has lost to.
THEOREM RefusalsEnd == Spec => []RefusedOnce
<1>1. RefusalInv => RefusedOnce
  <2> SUFFICES ASSUME RefusalInv, NEW m \in Messages, Sound(m) PROVE turnedAway[m] <= 1
    BY DEF RefusedOnce
  <2>1. turnedAway[m] \in Nat
    BY DEF RefusalInv, IInv, TypeOK
  <2> QED
    BY <2>1 DEF RefusalInv, RefusalSettles
<1> QED
  BY <1>1, InitRefusal, NextRefusal, PTL DEF Spec

=============================================================================
