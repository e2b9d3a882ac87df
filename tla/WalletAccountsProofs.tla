------------------------ MODULE WalletAccountsProofs ------------------------
(***************************************************************************)
(* Wallets, their ledgers and what is read of them, for any number of      *)
(* calls.                                                                  *)
(*                                                                         *)
(* One wallet per owner: the lookup of Create proves nothing.  What makes  *)
(* the owner's wallet unique is that an uncommitted one holds the owner's  *)
(* lock, so that no other can be there when it commits (Local).            *)
(*                                                                         *)
(* Balance and ledger: a movement or a reconciliation that holds a wallet  *)
(* knows its balance (Carried, Compares), and what it has not locked it    *)
(* does not change (Respects).  A movement stamps its entry after it has   *)
(* taken the lock, hence later than every entry of the wallet, which is    *)
(* why pages leave no gap.                                                 *)
(***************************************************************************)
EXTENDS WalletAccounts, TLAPS, FiniteSetTheorems

\* What a creation in progress may rely on at its next statement.
Local(c) ==
  /\ pc[c] \in {"look", "insert", "commit"} => ~Exists(c) /\ answer[c] = "none"
  /\ pc[c] \in {"insert", "commit"} =>
       job[c].owner \in Owners /\ job[c].initial \in Nat /\ job[c].at \in 1..now
  /\ pc[c] = "commit" =>
       ownerLock[job[c].owner] = c /\ ~Taken(job[c].owner)

\* What a movement has computed from the row it has locked.
Carries(m) ==
  pc[m] = "move" =>
    /\ job[m].wallet \in Creators /\ Exists(job[m].wallet)
    /\ job[m].balance + job[m].delta \in Nat
    /\ job[m].at \in 1..now

\* What a reconciliation has locked.
Looks(r) == pc[r] = "sum" => job[r].wallet \in Creators

IInv ==
  /\ TypeOK /\ now \in Nat /\ DOMAIN job = Processes
  /\ OneWalletPerOwner /\ AnswersAreTrue
  /\ \A c \in Creators : Local(c)
  /\ \A m \in Movers : Carries(m)
  /\ \A r \in Reconcilers : Looks(r)

-----------------------------------------------------------------------------
\* Rows are neither deleted nor given to another owner.
Keeps == \A w \in Creators : Exists(w) => Exists(w)' /\ wallets'[w].owner = wallets[w].owner

\* No row appears either.
Same == Keeps /\ \A w \in Creators : Exists(w)' => Exists(w)

\* A step of somebody else, which makes no wallet, leaves the creations alone.
LEMMA CreationsUndisturbed ==
  ASSUME IInv, Same, UNCHANGED <<ownerLock, answer>>, now' \in Nat, now' >= now,
         \A c \in Creators : pc'[c] = pc[c] /\ job'[c] = job[c]
  PROVE  OneWalletPerOwner' /\ AnswersAreTrue' /\ \A c \in Creators : Local(c)'
<1> USE DEF IInv, Same, Keeps
<1>1. OneWalletPerOwner'
  BY DEF OneWalletPerOwner
<1>2. AnswersAreTrue'
  BY DEF AnswersAreTrue
<1>3. \A o : Taken(o)' => Taken(o)
  BY DEF Taken
<1>4. ASSUME NEW c \in Creators PROVE Local(c)'
  <2>1. job'[c] = job[c] /\ pc'[c] = pc[c] /\ ownerLock' = ownerLock /\ answer' = answer
    OBVIOUS
  <2>2. pc[c] \in {"insert", "commit"} => job'[c].at \in 1..now'
    BY <2>1 DEF Local
  <2> QED
    BY <1>3, <2>1, <2>2 DEF Local
<1> QED
  BY <1>1, <1>2, <1>4

\* What a creation relies on stays true if no wallet of its owner appears.
LEMMA LocalKept ==
  ASSUME NEW d \in Creators, Local(d), now \in Nat, now' \in Nat, now' >= now,
         pc'[d] = pc[d], job'[d] = job[d], answer'[d] = answer[d],
         Exists(d)' => Exists(d),
         pc[d] = "commit" =>
           /\ ownerLock'[job[d].owner] = ownerLock[job[d].owner]
           /\ Taken(job[d].owner)' => Taken(job[d].owner)
  PROVE  Local(d)'
<1>1. pc[d] \in {"insert", "commit"} => job'[d].at \in 1..now'
  BY DEF Local
<1>2. pc[d] = "commit" => ~Taken(job[d].owner)'
  BY DEF Local
<1>3. pc'[d] \in {"look", "insert", "commit"} => ~Exists(d)' /\ answer'[d] = "none"
  BY DEF Local
<1>4. pc'[d] = "commit" => ownerLock'[job'[d].owner] = d
  BY DEF Local
<1>5. pc'[d] \in {"insert", "commit"} => job'[d].owner \in Owners /\ job'[d].initial \in Nat
  BY DEF Local
<1> QED
  BY <1>1, <1>2, <1>3, <1>4, <1>5 DEF Local

\* What a movement carries stays true while it keeps its lock.
LEMMA CarriesKept ==
  ASSUME NEW n \in Movers, Carries(n), Keeps, now \in Nat, now' \in Nat, now' >= now,
         pc'[n] = pc[n], job'[n] = job[n]
  PROVE  Carries(n)'
BY DEF Carries, Keeps

\* A step of a creation leaves movements and reconciliations alone.
LEMMA OthersUndisturbed ==
  ASSUME IInv, Keeps, now' \in Nat, now' >= now,
         \A p \in Movers \cup Reconcilers : pc'[p] = pc[p] /\ job'[p] = job[p]
  PROVE  (\A m \in Movers : Carries(m)') /\ (\A r \in Reconcilers : Looks(r)')
<1>1. ASSUME NEW m \in Movers PROVE Carries(m)'
  BY DEF IInv, Keeps, Carries
<1>2. ASSUME NEW r \in Reconcilers PROVE Looks(r)'
  BY DEF IInv, Looks
<1> QED
  BY <1>1, <1>2

-----------------------------------------------------------------------------
\* There is nothing yet, and every call is about to begin.
LEMMA InitHolds == Init => IInv
<1> SUFFICES ASSUME Init PROVE IInv
  OBVIOUS
<1> USE DEF Init
<1>1. \A w \in Creators : ~Exists(w)
  BY DEF Exists
<1>2. TypeOK
  BY <1>1 DEF TypeOK, Processes
<1>3. OneWalletPerOwner /\ AnswersAreTrue
  BY <1>1 DEF OneWalletPerOwner, AnswersAreTrue
<1>4. \A c \in Creators : Local(c)
  BY <1>1, AccountsAssumption DEF Local, Processes
<1>5. \A m \in Movers : Carries(m)
  BY AccountsAssumption DEF Carries, Processes
<1>6. \A r \in Reconcilers : Looks(r)
  BY AccountsAssumption DEF Looks, Processes
<1> QED
  BY <1>2, <1>3, <1>4, <1>5, <1>6 DEF IInv

\* The lookup decides nothing that another creation could overtake: it only
\* goes on to the insert.
LEMMA LookUpHolds == ASSUME IInv, NEW c \in Creators, LookUp(c) PROVE IInv'
<1> USE DEF IInv
<1>1. PICK o \in Owners, i \in Initial :
        /\ job' = [job EXCEPT ![c] = [owner |-> o, initial |-> i, at |-> now + 1]]
        /\ \/ /\ Taken(o)
              /\ Answer(c, "exists") /\ Goto(c, "done")
              /\ UNCHANGED now
           \/ /\ ~Taken(o) /\ i < 0
              /\ Answer(c, "invalid") /\ Goto(c, "done")
              /\ UNCHANGED now
           \/ /\ ~Taken(o) /\ i >= 0
              /\ Goto(c, "insert")
              /\ now' = now + 1
              /\ UNCHANGED answer
  BY DEF LookUp
<1>2. /\ pc[c] = "look" /\ ~Exists(c) /\ answer[c] = "none"
      /\ UNCHANGED <<wallets, openings, announced, ledger, ownerLock, holder>>
  BY DEF LookUp, Local, tables, locks
<1>3. Keeps /\ Same /\ now' \in Nat /\ now' >= now
  BY <1>1, <1>2 DEF Keeps, Same, Exists
<1>4. i \in Int /\ c \in Processes /\ DOMAIN job' = Processes
  BY <1>1, AccountsAssumption DEF Processes
<1>5. \A p \in Processes \ {c} : pc'[p] = pc[p] /\ job'[p] = job[p]
  BY <1>1 DEF Goto, TypeOK
<1>6. TypeOK'
  BY <1>1, <1>2, <1>3, <1>4 DEF TypeOK, Goto, Answer, Exists
<1>7. OneWalletPerOwner'
  BY <1>2 DEF OneWalletPerOwner, Exists
<1>8. AnswersAreTrue'
  BY <1>1, <1>2, <1>4, <1>5 DEF AnswersAreTrue, Answer, Taken, Exists, TypeOK, Processes
<1>9. \A d \in Creators : Local(d)'
  <2>1. \A p : Taken(p)' <=> Taken(p)
    BY <1>2 DEF Taken, Exists
  <2>2. ASSUME NEW d \in Creators, d # c PROVE Local(d)'
    <3>1. pc'[d] = pc[d] /\ job'[d] = job[d] /\ answer'[d] = answer[d] /\ ownerLock' = ownerLock
      BY <1>1, <1>2, <1>5, <2>2 DEF Answer, Processes, TypeOK
    <3> QED
      BY <1>3, <2>1, <3>1, LocalKept DEF Same
  <2>3. Local(c)'
    BY <1>1, <1>2, <1>3, <1>4 DEF Local, Answer, Goto, Exists, TypeOK
  <2> QED
    BY <2>2, <2>3
<1>10. (\A m \in Movers : Carries(m)') /\ (\A r \in Reconcilers : Looks(r)')
  BY <1>3, <1>5, OthersUndisturbed, AccountsAssumption DEF Processes
<1> QED
  BY <1>3, <1>4, <1>6, <1>7, <1>8, <1>9, <1>10

\* The row that Save or the commit makes is the first of its owner.
LEMMA WalletMade ==
  ASSUME IInv, NEW c \in Creators, pc[c] \in {"insert", "commit"},
         ~Taken(job[c].owner), wallets' = [wallets EXCEPT ![c] = NewWallet(c)]
  PROVE  /\ Keeps /\ OneWalletPerOwner' /\ Exists(c)'
         /\ wallets'[c].owner = job[c].owner /\ wallets'[c].owner \in Owners
         /\ wallets'[c].balance \in Nat /\ wallets'[c].version \in Nat \ {0}
         /\ DOMAIN wallets' = Creators
         /\ \A w \in Creators \ {c} : wallets'[w] = wallets[w]
         /\ \A o : Taken(o)' => Taken(o) \/ o = job[c].owner
<1>1. ~Exists(c) /\ job[c].owner \in Owners /\ job[c].initial \in Nat /\ DOMAIN wallets = Creators
  BY DEF IInv, Local, TypeOK
<1>2. /\ wallets'[c].owner = job[c].owner /\ wallets'[c].balance = job[c].initial
      /\ wallets'[c].version = 1
      /\ DOMAIN wallets' = Creators
      /\ \A w \in Creators \ {c} : wallets'[w] = wallets[w]
  BY <1>1 DEF NewWallet
<1>3. Exists(c)'
  BY <1>2 DEF Exists, NoRow
<1>4. Keeps
  BY <1>1, <1>2 DEF Keeps, Exists
<1>5. OneWalletPerOwner'
  BY <1>1, <1>2 DEF OneWalletPerOwner, IInv, Taken, Exists
<1>6. \A o : Taken(o)' => Taken(o) \/ o = job[c].owner
  BY <1>1, <1>2 DEF Taken, Exists
<1> QED
  BY <1>1, <1>2, <1>3, <1>4, <1>5, <1>6

\* The unique constraint: a wallet is made only where there is none, committed
\* or not; otherwise the owner's lock is taken, or the answer is "exists".
LEMMA InsertHolds == ASSUME IInv, NEW c \in Creators, Insert(c) PROVE IInv'
<1> USE DEF IInv
<1>1. /\ pc[c] = "insert" /\ ownerLock[job[c].owner] = Nobody
      /\ UNCHANGED <<openings, announced, ledger, holder, now, job>>
  BY DEF Insert
<1>2. ~Exists(c) /\ job[c].owner \in Owners /\ job[c].initial \in Nat /\ job[c].at \in 1..now
  BY <1>1 DEF Local
<1>3. /\ \A p \in Processes \ {c} : pc'[p] = pc[p] /\ job'[p] = job[p]
      /\ \A d \in Creators \ {c} : answer'[d] = answer[d]
      /\ c \in Processes /\ c # Nobody
  BY <1>1, AccountsAssumption DEF Insert, Goto, Answer, TypeOK, Processes
<1>4. CASE /\ Taken(job[c].owner)
           /\ Answer(c, "exists") /\ Goto(c, "done") /\ UNCHANGED <<wallets, ownerLock>>
  <2>1. Keeps /\ Same
    BY <1>4 DEF Keeps, Same, Exists
  <2>2. TypeOK'
    BY <1>1, <1>3, <1>4 DEF TypeOK, Answer, Goto, Exists
  <2>3. OneWalletPerOwner'
    BY <1>4 DEF OneWalletPerOwner, Exists
  <2>4. AnswersAreTrue'
    BY <1>1, <1>2, <1>3, <1>4 DEF AnswersAreTrue, Answer, Taken, Exists, TypeOK
  <2>5. ASSUME NEW d \in Creators PROVE Local(d)'
    <3>1. CASE d = c
      BY <1>3, <1>4, <3>1 DEF Local, Goto, TypeOK
    <3>2. CASE d # c
      <4>1. pc'[d] = pc[d] /\ job'[d] = job[d] /\ answer'[d] = answer[d] /\ ownerLock' = ownerLock
        BY <1>3, <1>4, <3>2 DEF Processes
      <4>2. Taken(job[d].owner)' => Taken(job[d].owner)
        BY <1>1, <1>4 DEF Taken, Exists
      <4> QED
        BY <1>1, <2>1, <4>1, <4>2, LocalKept DEF Same
    <3> QED
      BY <3>1, <3>2
  <2> QED
    BY <1>1, <1>3, <2>1, <2>2, <2>3, <2>4, <2>5, OthersUndisturbed, AccountsAssumption
    DEF Processes
<1>5. CASE /\ ~Taken(job[c].owner) /\ job[c].initial = 0
           /\ wallets' = [wallets EXCEPT ![c] = NewWallet(c)]
           /\ Answer(c, "created") /\ Goto(c, "done") /\ UNCHANGED ownerLock
  <2>1. /\ Keeps /\ OneWalletPerOwner' /\ Exists(c)'
        /\ wallets'[c].owner \in Owners
        /\ wallets'[c].balance \in Nat /\ wallets'[c].version \in Nat \ {0}
        /\ DOMAIN wallets' = Creators
        /\ \A w \in Creators \ {c} : wallets'[w] = wallets[w]
        /\ \A o : Taken(o)' => Taken(o) \/ o = job[c].owner
    BY <1>1, <1>5, WalletMade
  <2>2. TypeOK'
    BY <1>1, <1>3, <1>5, <2>1 DEF TypeOK, Answer, Goto, Exists
  <2>4. AnswersAreTrue'
    BY <1>1, <1>2, <1>3, <1>5, <2>1 DEF AnswersAreTrue, Answer, Exists, Keeps, TypeOK
  <2>5. ASSUME NEW d \in Creators PROVE Local(d)'
    <3>1. CASE d = c
      BY <1>3, <1>5, <3>1 DEF Local, Goto, TypeOK
    <3>2. CASE d # c
      <4>1. /\ pc'[d] = pc[d] /\ job'[d] = job[d] /\ answer'[d] = answer[d] /\ ownerLock' = ownerLock
            /\ Exists(d)' => Exists(d)
        BY <1>3, <1>5, <2>1, <3>2 DEF Processes, Exists
      <4>2. pc[d] = "commit" => (Taken(job[d].owner)' => Taken(job[d].owner))
        <5>1. pc[d] = "commit" => job[d].owner # job[c].owner
          BY <1>1, <1>3, AccountsAssumption DEF Local, Processes
        <5> QED
          BY <1>1, <2>1, <5>1
      <4> QED
        BY <1>1, <4>1, <4>2, LocalKept
    <3> QED
      BY <3>1, <3>2
  <2> QED
    BY <1>1, <1>3, <2>1, <2>2, <2>4, <2>5, OthersUndisturbed, AccountsAssumption DEF Processes
<1>6. CASE /\ ~Taken(job[c].owner) /\ job[c].initial > 0
           /\ ownerLock' = [ownerLock EXCEPT ![job[c].owner] = c]
           /\ Goto(c, "commit") /\ UNCHANGED <<wallets, answer>>
  <2>1. Keeps /\ Same
    BY <1>6 DEF Keeps, Same, Exists
  <2>2. TypeOK'
    BY <1>1, <1>2, <1>3, <1>6 DEF TypeOK, Goto, Exists
  <2>3. OneWalletPerOwner' /\ AnswersAreTrue'
    BY <1>1, <1>6 DEF OneWalletPerOwner, AnswersAreTrue, Exists
  <2>5. ASSUME NEW d \in Creators PROVE Local(d)'
    <3>1. Taken(job[d].owner)' => Taken(job[d].owner)
      BY <1>1, <1>6 DEF Taken, Exists
    <3>2. CASE d = c
      <4>1. pc'[c] = "commit" /\ job' = job /\ now' = now /\ answer' = answer /\ ownerLock'[job[c].owner] = c
        BY <1>1, <1>2, <1>3, <1>6 DEF Goto, TypeOK
      <4>2. answer[c] = "none"
        BY <1>1 DEF Local
      <4> QED
        BY <1>2, <1>6, <2>1, <3>1, <3>2, <4>1, <4>2 DEF Local, Same
    <3>3. CASE d # c
      <4>1. pc'[d] = pc[d] /\ job'[d] = job[d] /\ answer'[d] = answer[d]
        BY <1>3, <1>6, <3>3 DEF Processes
      <4>2. pc[d] = "commit" => job[d].owner # job[c].owner
        BY <1>1, <1>3, AccountsAssumption DEF Local, Processes
      <4>3. pc[d] = "commit" => ownerLock'[job[d].owner] = ownerLock[job[d].owner]
        BY <1>6, <4>2 DEF Local, TypeOK
      <4> QED
        BY <1>1, <2>1, <3>1, <4>1, <4>3, LocalKept DEF Same
    <3> QED
      BY <3>2, <3>3
  <2> QED
    BY <1>1, <1>3, <2>1, <2>2, <2>3, <2>5, OthersUndisturbed, AccountsAssumption
    DEF Processes
<1> QED
  BY <1>4, <1>5, <1>6 DEF Insert

\* The commit, whether or not its reply arrives.
LEMMA OpenHolds ==
  ASSUME IInv, NEW c \in Creators, NEW a \in {"created", "failed"},
         pc[c] = "commit", Open(c), Answer(c, a), Goto(c, "done"), UNCHANGED <<holder, now, job>>
  PROVE  IInv'
<1> USE DEF IInv
<1>1. /\ ~Exists(c) /\ job[c].owner \in Owners /\ job[c].initial \in Nat /\ job[c].at \in 1..now
      /\ ownerLock[job[c].owner] = c /\ ~Taken(job[c].owner)
  BY DEF Local
<1>2. /\ \A p \in Processes \ {c} : pc'[p] = pc[p] /\ job'[p] = job[p]
      /\ \A d \in Creators \ {c} : answer'[d] = answer[d]
      /\ c \in Processes /\ answer'[c] = a
  BY DEF Goto, Answer, TypeOK, Processes
<1>3. /\ Keeps /\ OneWalletPerOwner' /\ Exists(c)'
      /\ wallets'[c].owner \in Owners
      /\ wallets'[c].balance \in Nat /\ wallets'[c].version \in Nat \ {0}
      /\ DOMAIN wallets' = Creators
      /\ \A w \in Creators \ {c} : wallets'[w] = wallets[w]
      /\ \A o : Taken(o)' => Taken(o) \/ o = job[c].owner
  BY <1>1, WalletMade DEF Open
<1>4. TypeOK'
  <2>1. \A e \in ledger' : e.by \in Creators \cup Movers /\ e.wallet \in Creators /\ e.at \in 1..now
    BY <1>1 DEF Open, LedgerEntry, TypeOK
  <2>2. ownerLock' \in [Owners -> Creators \cup {Nobody}]
    BY DEF Open, TypeOK
  <2> QED
    BY <1>2, <1>3, <2>1, <2>2 DEF TypeOK, Open, Answer, Goto, Exists
<1>5. AnswersAreTrue'
  BY <1>1, <1>2, <1>3 DEF AnswersAreTrue, Exists, Keeps
<1>6. ASSUME NEW d \in Creators PROVE Local(d)'
  <2>1. CASE d = c
    BY <1>2, <2>1 DEF Local, Goto, TypeOK
  <2>2. CASE d # c
    <3>1. /\ pc'[d] = pc[d] /\ job'[d] = job[d] /\ answer'[d] = answer[d]
          /\ Exists(d)' => Exists(d)
      BY <1>2, <1>3, <2>2 DEF Processes, Exists
    <3>2. pc[d] = "commit" =>
            /\ ownerLock'[job[d].owner] = ownerLock[job[d].owner]
            /\ Taken(job[d].owner)' => Taken(job[d].owner)
      <4>1. pc[d] = "commit" => job[d].owner # job[c].owner /\ job[d].owner \in Owners
        BY <1>1, <2>2 DEF Local
      <4> QED
        BY <1>3, <4>1 DEF Open, TypeOK
    <3> QED
      BY <3>1, <3>2, LocalKept
  <2> QED
    BY <2>1, <2>2
<1> QED
  BY <1>2, <1>3, <1>4, <1>5, <1>6, OthersUndisturbed, AccountsAssumption DEF Processes

\* A rollback gives back the owner's lock, and nothing else has happened.
LEMMA FailCreationHolds == ASSUME IInv, NEW c \in Creators, FailCreation(c) PROVE IInv'
<1> USE DEF IInv
<1>1. /\ pc[c] \in {"look", "insert", "commit"} /\ ~Exists(c)
      /\ UNCHANGED <<wallets, openings, announced, ledger, holder, now, job>>
  BY DEF FailCreation, Local, tables
<1>2. /\ \A p \in Processes \ {c} : pc'[p] = pc[p] /\ job'[p] = job[p]
      /\ \A d \in Creators \ {c} : answer'[d] = answer[d]
      /\ c \in Processes /\ answer'[c] = "failed" /\ pc'[c] = "done"
  BY <1>1 DEF FailCreation, Goto, Answer, TypeOK, Processes
<1>3. Keeps /\ Same
  BY <1>1 DEF Keeps, Same, Exists
<1>4. TypeOK'
  <2>1. ownerLock' \in [Owners -> Creators \cup {Nobody}]
    BY DEF FailCreation, TypeOK
  <2> QED
    BY <1>1, <2>1 DEF FailCreation, TypeOK, Answer, Goto, Exists
<1>5. OneWalletPerOwner'
  BY <1>1 DEF OneWalletPerOwner, Exists
<1>6. AnswersAreTrue'
  BY <1>1, <1>2 DEF AnswersAreTrue, Exists
<1>7. ASSUME NEW d \in Creators PROVE Local(d)'
  <2>1. CASE d = c
    BY <1>2, <2>1 DEF Local
  <2>2. CASE d # c
    <3>1. pc'[d] = pc[d] /\ job'[d] = job[d] /\ answer'[d] = answer[d]
      BY <1>2, <2>2 DEF Processes
    <3>2. pc[d] = "commit" =>
            /\ ownerLock'[job[d].owner] = ownerLock[job[d].owner]
            /\ Taken(job[d].owner)' => Taken(job[d].owner)
      <4>1. Taken(job[d].owner)' => Taken(job[d].owner)
        BY <1>1 DEF Taken, Exists
      <4>2. pc[d] = "commit" => ownerLock[job[d].owner] = d /\ job[d].owner \in Owners
        BY DEF Local
      <4> QED
        BY <2>2, <4>1, <4>2 DEF FailCreation
    <3> QED
      BY <1>1, <1>3, <3>1, <3>2, LocalKept DEF Same
  <2> QED
    BY <2>1, <2>2
<1> QED
  BY <1>1, <1>2, <1>3, <1>4, <1>5, <1>6, <1>7, OthersUndisturbed, AccountsAssumption
  DEF Processes

-----------------------------------------------------------------------------
\* A movement locks a row, and carries what it has read there.
LEMMA LockHolds == ASSUME IInv, NEW m \in Movers, Lock(m) PROVE IInv'
<1> USE DEF IInv
<1>1. PICK w \in Creators, d \in Deltas :
        /\ Exists(w) /\ wallets[w].balance + d >= 0
        /\ holder' = [holder EXCEPT ![w] = m]
        /\ job' = [job EXCEPT ![m] = [wallet |-> w, delta |-> d, at |-> now + 1,
                                      balance |-> wallets[w].balance]]
  BY DEF Lock
<1>2. /\ now' = now + 1 /\ Goto(m, "move")
      /\ UNCHANGED <<wallets, openings, announced, ledger, ownerLock, answer>>
      /\ m \in Processes /\ d \in Int /\ wallets[w].balance \in Nat
  BY <1>1, AccountsAssumption DEF Lock, tables, outcomes, Processes, TypeOK
<1>3. Same /\ Keeps
  BY <1>2 DEF Same, Keeps, Exists
<1>4. \A p \in Processes \ {m} : pc'[p] = pc[p] /\ job'[p] = job[p]
  BY <1>1, <1>2 DEF Goto, TypeOK
<1>5. TypeOK' /\ DOMAIN job' = Processes
  <2>1. holder' \in [Creators -> Movers \cup Reconcilers \cup {Nobody}]
    BY <1>1 DEF TypeOK
  <2>2. \A e \in ledger : e.at \in 1..now'
    BY <1>2 DEF TypeOK
  <2> QED
    BY <1>1, <1>2, <2>1, <2>2 DEF TypeOK, Goto, Exists
<1>6. OneWalletPerOwner' /\ AnswersAreTrue' /\ \A c \in Creators : Local(c)'
  BY <1>2, <1>3, <1>4, CreationsUndisturbed, AccountsAssumption DEF Processes
<1>7. Carries(m)'
  <2>1. job'[m] = [wallet |-> w, delta |-> d, at |-> now + 1, balance |-> wallets[w].balance]
    BY <1>1, <1>2
  <2> QED
    BY <1>1, <1>2, <2>1 DEF Carries, Exists
<1>8. ASSUME NEW n \in Movers, n # m PROVE Carries(n)'
  <2>1. pc'[n] = pc[n] /\ job'[n] = job[n]
    BY <1>4, <1>8 DEF Processes
  <2> QED
    BY <1>2, <1>3, <2>1, CarriesKept
<1>9. \A r \in Reconcilers : Looks(r)'
  BY <1>4, AccountsAssumption DEF Looks, Processes
<1> QED
  BY <1>2, <1>5, <1>6, <1>7, <1>8, <1>9

\* A movement commits what it carries, on the row it still holds.
LEMMA MoveHolds == ASSUME IInv, NEW m \in Movers, Move(m) PROVE IInv'
<1> USE DEF IInv
<1>0. PICK w \in Creators : w = job[m].wallet
  BY DEF Move, Carries
<1>1. /\ Exists(w) /\ job[m].at \in 1..now
      /\ job[m].balance + job[m].delta \in Nat
  BY <1>0 DEF Move, Carries
<1>2. /\ wallets' = [wallets EXCEPT ![w].balance = job[m].balance + job[m].delta,
                                    ![w].version = @ + 1]
      /\ ledger' = ledger \cup {LedgerEntry(m, w, job[m].delta, job[m].at)}
      /\ FreeWallet(w) /\ Goto(m, "done")
      /\ UNCHANGED <<openings, announced, ownerLock, now, job, answer>>
  BY <1>0 DEF Move, outcomes
<1>3. /\ wallets[w].owner \in Owners /\ wallets[w].version \in Nat \ {0}
      /\ DOMAIN wallets = Creators
  BY <1>1 DEF TypeOK
<1>4. /\ DOMAIN wallets' = Creators
      /\ \A v \in Creators \ {w} : wallets'[v] = wallets[v]
  BY <1>2, <1>3
<1>5. /\ wallets'[w].version = wallets[w].version + 1
      /\ wallets'[w].owner = wallets[w].owner
      /\ wallets'[w].balance = job[m].balance + job[m].delta
  BY <1>1, <1>2, <1>3
<1>6. Same /\ Keeps
  <2>1. Exists(w)'
    BY <1>3, <1>5 DEF Exists, NoRow
  <2> QED
    BY <1>1, <1>4, <1>5, <2>1 DEF Same, Keeps, Exists
<1>7. \A p \in Processes \ {m} : pc'[p] = pc[p] /\ job'[p] = job[p]
  BY <1>2 DEF Goto, TypeOK
<1>8. TypeOK'
  <2>1. holder' \in [Creators -> Movers \cup Reconcilers \cup {Nobody}]
    BY <1>2 DEF TypeOK, FreeWallet
  <2>2. \A e \in ledger' : e.by \in Creators \cup Movers /\ e.wallet \in Creators /\ e.at \in 1..now
    BY <1>1, <1>2 DEF TypeOK, LedgerEntry
  <2>3. \A v \in Creators : Exists(v)' =>
          /\ wallets'[v].owner \in Owners /\ wallets'[v].balance \in Nat
          /\ wallets'[v].version \in Nat \ {0}
    BY <1>1, <1>3, <1>4, <1>5 DEF TypeOK, Exists
  <2> QED
    BY <1>2, <1>4, <2>1, <2>2, <2>3 DEF TypeOK, Goto
<1>9. OneWalletPerOwner' /\ AnswersAreTrue' /\ \A c \in Creators : Local(c)'
  BY <1>2, <1>6, <1>7, CreationsUndisturbed, AccountsAssumption DEF Processes
<1>10. ASSUME NEW n \in Movers PROVE Carries(n)'
  <2>1. CASE n = m
    BY <1>2, <2>1 DEF Carries, Goto, TypeOK, Processes
  <2>2. CASE n # m
    <3>1. pc'[n] = pc[n] /\ job'[n] = job[n]
      BY <1>7, <2>2 DEF Processes
    <3> QED
      BY <1>2, <1>6, <3>1, CarriesKept
  <2> QED
    BY <2>1, <2>2
<1>11. \A r \in Reconcilers : Looks(r)'
  BY <1>7, AccountsAssumption DEF Looks, Processes
<1> QED
  BY <1>2, <1>8, <1>9, <1>10, <1>11

\* The other steps change no row, and neither a creation nor what a movement
\* in progress carries.
LEMMA RestHolds ==
  ASSUME IInv, UNCHANGED <<wallets, openings, announced, ledger, ownerLock, now, answer>>,
         NEW p \in Processes \ Creators,
         pc' = [pc EXCEPT ![p] = pc'[p]], pc'[p] \in {"sum", "page", "done"},
         DOMAIN job' = Processes, \A q \in Processes \ {p} : job'[q] = job[q],
         holder' \in [Creators -> Movers \cup Reconcilers \cup {Nobody}],
         pc'[p] = "sum" => p \in Reconcilers /\ job'[p].wallet \in Creators
  PROVE  IInv'
<1> USE DEF IInv
<1>1. Same /\ Keeps
  BY DEF Same, Keeps, Exists
<1>2. \A q \in Processes \ {p} : pc'[q] = pc[q] /\ job'[q] = job[q]
  BY DEF TypeOK
<1>3. TypeOK'
  BY DEF TypeOK, Exists
<1>4. OneWalletPerOwner' /\ AnswersAreTrue' /\ \A c \in Creators : Local(c)'
  BY <1>1, <1>2, CreationsUndisturbed DEF Processes
<1>5. ASSUME NEW n \in Movers PROVE Carries(n)'
  <2>1. CASE n = p
    BY <2>1, AccountsAssumption DEF Carries
  <2>2. CASE n # p
    BY <1>1, <1>2, <2>2, CarriesKept DEF Processes
  <2> QED
    BY <2>1, <2>2
<1>6. ASSUME NEW r \in Reconcilers PROVE Looks(r)'
  BY <1>2 DEF Looks, Processes
<1> QED
  BY <1>3, <1>4, <1>5, <1>6

-----------------------------------------------------------------------------
\* Every step keeps the invariant.
LEMMA StepHolds == IInv /\ [Next]_vars => IInv'
<1> SUFFICES ASSUME IInv, [Next]_vars PROVE IInv'
  OBVIOUS
<1>1. ASSUME NEW c \in Creators, Create(c) \/ LoseCommitReply(c) \/ FailCreation(c) PROVE IInv'
  <2>1. CASE LookUp(c)
    BY <2>1, LookUpHolds
  <2>2. CASE Insert(c)
    BY <2>2, InsertHolds
  <2>3. CASE Commit(c)
    BY <2>3, OpenHolds DEF Commit
  <2>4. CASE LoseCommitReply(c)
    BY <2>4, OpenHolds DEF LoseCommitReply
  <2>5. CASE FailCreation(c)
    BY <2>5, FailCreationHolds
  <2> QED
    BY <1>1, <2>1, <2>2, <2>3, <2>4, <2>5 DEF Create
<1>2. ASSUME NEW m \in Movers, Lock(m) \/ Move(m) \/ FailMovement(m) PROVE IInv'
  <2>1. CASE FailMovement(m)
    <3>1. /\ pc' = [pc EXCEPT ![m] = pc'[m]] /\ pc'[m] = "done" /\ m \in Processes \ Creators
      BY <2>1, AccountsAssumption DEF FailMovement, Goto, IInv, TypeOK, Processes
    <3>2. holder' \in [Creators -> Movers \cup Reconcilers \cup {Nobody}]
      BY <2>1 DEF FailMovement, FreeWallet, IInv, TypeOK
    <3>3. /\ UNCHANGED <<wallets, openings, announced, ledger, ownerLock, now, answer>>
          /\ DOMAIN job' = Processes /\ \A q \in Processes \ {m} : job'[q] = job[q]
      BY <2>1 DEF FailMovement, tables, outcomes, IInv
    <3> QED
      BY <3>1, <3>2, <3>3, RestHolds
  <2> QED
    BY <1>2, <2>1, LockHolds, MoveHolds
<1>3. ASSUME NEW r \in Reconcilers,
             ReadWallet(r) \/ NotFound(r) \/ SumEntries(r) \/ FailReconciliation(r)
      PROVE  IInv'
  <2>1. r \in Processes \ Creators /\ UNCHANGED <<wallets, openings, announced, ledger, ownerLock, now, answer>>
    BY <1>3, AccountsAssumption
    DEF Processes, ReadWallet, NotFound, SumEntries, FailReconciliation, tables, locks, outcomes
  <2>2. CASE ReadWallet(r)
    <3>1. PICK w \in Creators :
            /\ holder' = [holder EXCEPT ![w] = r]
            /\ job' = [job EXCEPT ![r] = [wallet |-> w, stored |-> wallets[w].balance]]
      BY <2>2 DEF ReadWallet
    <3>2. /\ pc' = [pc EXCEPT ![r] = pc'[r]] /\ pc'[r] = "sum"
          /\ DOMAIN job' = Processes /\ \A q \in Processes \ {r} : job'[q] = job[q]
          /\ job'[r].wallet \in Creators
      BY <2>1, <2>2, <3>1 DEF ReadWallet, Goto, IInv, TypeOK
    <3>3. holder' \in [Creators -> Movers \cup Reconcilers \cup {Nobody}]
      BY <3>1 DEF IInv, TypeOK
    <3> QED
      BY <2>1, <3>2, <3>3, RestHolds
  <2>3. CASE NotFound(r) \/ SumEntries(r) \/ FailReconciliation(r)
    <3>1. /\ pc' = [pc EXCEPT ![r] = pc'[r]] /\ pc'[r] = "done"
          /\ DOMAIN job' = Processes /\ \A q \in Processes \ {r} : job'[q] = job[q]
      BY <2>1, <2>3 DEF NotFound, SumEntries, FailReconciliation, Goto, IInv, TypeOK
    <3>2. holder' \in [Creators -> Movers \cup Reconcilers \cup {Nobody}]
      BY <2>3 DEF NotFound, SumEntries, FailReconciliation, FreeWallet, locks, IInv, TypeOK
    <3> QED
      BY <2>1, <3>1, <3>2, RestHolds
  <2> QED
    BY <1>3, <2>2, <2>3
<1>4. ASSUME NEW x \in Readers, PickWallet(x) PROVE IInv'
  <2>1. /\ x \in Processes \ Creators
        /\ UNCHANGED <<wallets, openings, announced, ledger, ownerLock, now, answer, holder>>
    BY <1>4, AccountsAssumption DEF Processes, PickWallet, tables, locks, outcomes
  <2>2. /\ pc' = [pc EXCEPT ![x] = pc'[x]] /\ pc'[x] = "page"
        /\ DOMAIN job' = Processes /\ \A q \in Processes \ {x} : job'[q] = job[q]
    BY <1>4, <2>1 DEF PickWallet, Goto, IInv, TypeOK
  <2>3. holder' \in [Creators -> Movers \cup Reconcilers \cup {Nobody}]
    BY <2>1 DEF IInv, TypeOK
  <2> QED
    BY <2>1, <2>2, <2>3, RestHolds
<1>5. CASE (\E x \in Readers : List(x)) \/ UNCHANGED vars
  <2>1. UNCHANGED <<wallets, openings, announced, ledger, ownerLock, holder, now, pc, job, answer>>
    BY <1>5 DEF List, vars, tables, locks, outcomes
  <2>2. TypeOK'
    BY <2>1 DEF IInv, TypeOK, Exists
  <2>3. Same /\ Keeps
    BY <2>1 DEF Same, Keeps, Exists
  <2>4. OneWalletPerOwner' /\ AnswersAreTrue' /\ \A c \in Creators : Local(c)'
    BY <2>1, <2>3, CreationsUndisturbed DEF IInv
  <2>5. (\A m \in Movers : Carries(m)') /\ (\A r \in Reconcilers : Looks(r)')
    BY <2>1, <2>3, OthersUndisturbed DEF IInv
  <2> QED
    BY <2>1, <2>2, <2>4, <2>5 DEF IInv
<1> QED
  BY <1>1, <1>2, <1>3, <1>4, <1>5 DEF Next

\* The invariant holds in every behaviour.
LEMMA Invariance == Spec => []IInv
<1> QED
  BY InitHolds, StepHolds, PTL DEF Spec

\* Tables, locks and answers keep their types; in particular no balance is ever
\* negative, whatever movements meet.
THEOREM TypeCorrect == Spec => []TypeOK
<1>1. IInv => TypeOK
  BY DEF IInv
<1> QED
  BY <1>1, Invariance, PTL

\* However many creations for one player and currency find no wallet at once,
\* one wallet is made.
THEOREM OneWallet == Spec => []OneWalletPerOwner
<1>1. IInv => OneWalletPerOwner
  BY DEF IInv
<1> QED
  BY <1>1, Invariance, PTL

\* A creation that answers "created" has made its wallet, and one that answers
\* "exists" has met another, committed.
THEOREM TrueAnswers == Spec => []AnswersAreTrue
<1>1. IInv => AnswersAreTrue
  BY DEF IInv
<1> QED
  BY <1>1, Invariance, PTL

-----------------------------------------------------------------------------
\* Sums over a ledger.  MapThenSumSet is recursive over the subsets of a finite
\* set; what it gives is shown by taking a least set for which it would not.

\* What MapThenSumSet makes of a set of entries.
Total(S) == MapThenSumSet(LAMBDA e : e.delta, S)

\* The entry it takes first.
Pick(s) == CHOOSE x \in s : TRUE

\* f is the function of the subsets of S that it computes with.
IsSum(f, S) == f = [s \in SUBSET S |-> IF s = {} THEN 0 ELSE Pick(s).delta + f[s \ {Pick(s)}]]

\* An element is taken of every set that has one.
LEMMA Picked == ASSUME NEW s, s # {} PROVE Pick(s) \in s
BY DEF Pick

\* A total is the value of that function, if there is one.
LEMMA TotalUnfolds ==
  ASSUME NEW S
  PROVE  Total(S) = (CHOOSE f : IsSum(f, S))[S]
BY DEF Total, MapThenSumSet, MapThenFoldSet, IsSum, Pick

\* Of any sets, parts of a finite one, there is one none of whose own parts is
\* among them.
LEMMA LeastSet ==
  ASSUME NEW S, NEW Sets, Sets \subseteq SUBSET S, IsFiniteSet(S), Sets # {}
  PROVE  \E T \in Sets : \A U \in SUBSET T : U # T => U \notin Sets
<1>1. Sets \subseteq FiniteSubsetsOf(S)
  BY FS_FiniteSubsetsOfFinite
<1>2. PICK T \in Sets : \A U \in Sets : <<U, T>> \notin StrictSubsetOrdering(S)
  <2>1. IsWellFoundedOn(StrictSubsetOrdering(S), FiniteSubsetsOf(S))
    BY FS_StrictSubsetOrderingWellFounded
  <2>2. \E T \in Sets : \A U \in Sets : ~(<<U, T>> \in StrictSubsetOrdering(S))
    BY <1>1, <2>1, WFMin
  <2> QED
    BY <2>2
<1>3. ASSUME NEW U \in SUBSET T, U # T PROVE U \notin Sets
  BY <1>2, <1>3 DEF StrictSubsetOrdering
<1> QED
  BY <1>3

\* There is at most one such function: two of them agree on the subsets they
\* share.
LEMMA OneSum ==
  ASSUME NEW S, NEW T, NEW f, NEW g, IsSum(f, S), IsSum(g, T), IsFiniteSet(S)
  PROVE  \A s \in (SUBSET S) \cap (SUBSET T) : f[s] = g[s]
<1> DEFINE Apart == {s \in (SUBSET S) \cap (SUBSET T) : f[s] # g[s]}
<1> SUFFICES ASSUME Apart # {} PROVE FALSE
  OBVIOUS
<1>1. PICK s \in Apart : \A u \in SUBSET s : u # s => u \notin Apart
  <2> HIDE DEF Apart
  <2>1. Apart \subseteq SUBSET S
    BY DEF Apart
  <2> QED
    BY <2>1, LeastSet, Zenon
<1>2. f[s] = (IF s = {} THEN 0 ELSE Pick(s).delta + f[s \ {Pick(s)}])
  BY DEF IsSum
<1>3. g[s] = (IF s = {} THEN 0 ELSE Pick(s).delta + g[s \ {Pick(s)}])
  BY DEF IsSum
<1>4. s # {}
  BY <1>2, <1>3
<1>5. s \ {Pick(s)} \in SUBSET s /\ s \ {Pick(s)} # s
  BY <1>4, Picked
<1>6. f[s \ {Pick(s)}] = g[s \ {Pick(s)}]
  BY <1>1, <1>5
<1> QED
  BY <1>2, <1>3, <1>4, <1>6

\* Where the sums of a set are defined, they are those of its parts.
LEMMA TotalOf ==
  ASSUME NEW S, IsFiniteSet(S), NEW f, IsSum(f, S), NEW s \in SUBSET S
  PROVE  f[s] = Total(s)
<1> DEFINE g == [u \in SUBSET s |-> f[u]]
<1>1. IsSum(g, s)
  <2>1. \A u \in SUBSET s : f[u] = IF u = {} THEN 0 ELSE Pick(u).delta + f[u \ {Pick(u)}]
    BY DEF IsSum
  <2> QED
    BY <2>1, Zenon DEF IsSum
<1> HIDE DEF g
<1>2. PICK h : h = CHOOSE k : IsSum(k, s)
  OBVIOUS
<1>3. IsSum(h, s)
  BY <1>1, <1>2
<1>4. h[s] = f[s]
  BY <1>3, OneSum
<1> QED
  BY <1>2, <1>4, TotalUnfolds

\* There is one for every finite set: otherwise for some set there is none and
\* for all its parts there are, from which one for the set is put together.
LEMMA SumExists ==
  ASSUME NEW S, IsFiniteSet(S)
  PROVE  \E f : IsSum(f, S)
<1> DEFINE Without == {T \in SUBSET S : ~\E f : IsSum(f, T)}
<1> SUFFICES ASSUME Without # {} PROVE FALSE
  OBVIOUS
<1>1. PICK T \in Without : \A U \in SUBSET T : U # T => U \notin Without
  <2> HIDE DEF Without
  <2>1. Without \subseteq SUBSET S
    BY DEF Without
  <2> QED
    BY <2>1, LeastSet, Zenon
<1>2. \A U \in SUBSET T : U # T => \E f : IsSum(f, U)
  BY <1>1
<1> DEFINE g == [s \in SUBSET T |-> IF s = {} THEN 0 ELSE Pick(s).delta + Total(s \ {Pick(s)})]
<1>3. ASSUME NEW u \in SUBSET T, u # T PROVE g[u] = Total(u)
  <2>1. PICK f : IsSum(f, u)
    BY <1>2, <1>3
  <2>2. f[u] = Total(u)
    BY <2>1, TotalOf, FS_Subset
  <2>3. f[u \ {Pick(u)}] = Total(u \ {Pick(u)})
    BY <2>1, TotalOf, FS_Subset
  <2>4. f[u] = IF u = {} THEN 0 ELSE Pick(u).delta + f[u \ {Pick(u)}]
    BY <2>1 DEF IsSum
  <2> QED
    BY <2>2, <2>3, <2>4
<1>4. ASSUME NEW s \in SUBSET T, s # {} PROVE g[s \ {Pick(s)}] = Total(s \ {Pick(s)})
  <2> HIDE DEF g
  <2>1. Pick(s) \in s
    BY <1>4, Picked
  <2> QED
    BY <1>3, <2>1
<1>5. IsSum(g, T)
  BY <1>4 DEF IsSum
<1> QED
  BY <1>5

\* So totals obey their recursion.
LEMMA TotalUnroll ==
  ASSUME NEW S, IsFiniteSet(S)
  PROVE  Total(S) = IF S = {} THEN 0 ELSE Pick(S).delta + Total(S \ {Pick(S)})
<1>1. PICK f : IsSum(f, S)
  BY SumExists
<1>2. f[S] = Total(S) /\ f[S \ {Pick(S)}] = Total(S \ {Pick(S)})
  BY <1>1, TotalOf
<1>3. f[S] = IF S = {} THEN 0 ELSE Pick(S).delta + f[S \ {Pick(S)}]
  BY <1>1 DEF IsSum
<1> QED
  BY <1>2, <1>3

\* The order in which entries are added up does not matter.
LEMMA TotalWithout ==
  ASSUME NEW S, IsFiniteSet(S), \A e \in S : e.delta \in Int
  PROVE  Total(S) \in Int /\ \A e \in S : Total(S) = e.delta + Total(S \ {e})
<1> DEFINE Holds(T) == Total(T) \in Int /\ \A e \in T : Total(T) = e.delta + Total(T \ {e})
<1> DEFINE Odd == {T \in SUBSET S : ~Holds(T)}
<1> SUFFICES ASSUME Odd # {} PROVE FALSE
  OBVIOUS
<1>1. PICK T \in Odd : \A U \in SUBSET T : U # T => U \notin Odd
  <2> HIDE DEF Odd
  <2>1. Odd \subseteq SUBSET S
    BY DEF Odd
  <2> QED
    BY <2>1, LeastSet, Zenon
<1>2. T \in SUBSET S /\ ~Holds(T) /\ \A U \in SUBSET T : U # T => Holds(U)
  BY <1>1
<1> HIDE DEF Holds, Odd
<1>3. Total(T) = IF T = {} THEN 0 ELSE Pick(T).delta + Total(T \ {Pick(T)})
  BY <1>2, FS_Subset, TotalUnroll
<1>4. T # {}
  BY <1>2, <1>3 DEF Holds
<1> DEFINE x == Pick(T)
<1>5. x \in T /\ T \ {x} \in SUBSET T /\ T \ {x} # T /\ x.delta \in Int
  BY <1>2, <1>4, Picked
<1>6. Total(T) = x.delta + Total(T \ {x})
  BY <1>3, <1>4
<1> HIDE DEF x
<1>7. Holds(T \ {x})
  BY <1>2, <1>5
<1>8. ASSUME NEW e \in T PROVE Total(T) = e.delta + Total(T \ {e})
  <2>1. CASE e = x
    BY <2>1, <1>6
  <2>2. CASE e # x
    <3>1. Total(T \ {x}) = e.delta + Total((T \ {x}) \ {e})
      BY <1>7, <2>2 DEF Holds
    <3>2. T \ {e} \in SUBSET T /\ T \ {e} # T /\ x \in T \ {e} /\ e.delta \in Int
      BY <1>2, <1>5, <2>2
    <3>3. Holds(T \ {e}) /\ Holds((T \ {x}) \ {e})
      BY <1>2, <1>5, <3>2
    <3>4. (T \ {x}) \ {e} = (T \ {e}) \ {x}
      OBVIOUS
    <3>5. Total(T \ {e}) = x.delta + Total((T \ {x}) \ {e})
      BY <3>2, <3>3, <3>4 DEF Holds
    <3>6. Total((T \ {x}) \ {e}) \in Int
      BY <3>3 DEF Holds
    <3> QED
      BY <1>5, <1>6, <3>1, <3>2, <3>5, <3>6
  <2> QED
    BY <2>1, <2>2
<1>9. Total(T) \in Int
  BY <1>5, <1>6, <1>7 DEF Holds
<1> QED
  BY <1>2, <1>8, <1>9 DEF Holds

\* One more entry adds its amount.
LEMMA TotalAdded ==
  ASSUME NEW S, IsFiniteSet(S), NEW e, e \notin S, \A d \in S \cup {e} : d.delta \in Int
  PROVE  Total(S \cup {e}) = Total(S) + e.delta /\ Total(S) \in Int
<1>1. IsFiniteSet(S \cup {e}) /\ (S \cup {e}) \ {e} = S
  BY FS_AddElement
<1>2. Total(S \cup {e}) = e.delta + Total(S)
  BY <1>1, TotalWithout
<1>3. Total(S) \in Int /\ e.delta \in Int
  BY TotalWithout
<1> QED
  BY <1>2, <1>3

-----------------------------------------------------------------------------
\* Entries no two of which have one stamp.
Ordered(entries) ==
  /\ IsFiniteSet(entries)
  /\ \A d, e \in entries : e.at \in Int /\ (d.at = e.at => d = e)

Increasing(q) == \A i, j \in DOMAIN q : i < j => q[i].at < q[j].at

\* A finite set of entries has a latest one.
LEMMA Latest ==
  ASSUME NEW S, Ordered(S), S # {}
  PROVE  \E e \in S : \A d \in S : d.at <= e.at
<1> DEFINE Endless == {T \in SUBSET S : T # {} /\ \A e \in T : \E d \in T : ~(d.at <= e.at)}
<1> SUFFICES ASSUME Endless # {} PROVE FALSE
  OBVIOUS
<1>1. PICK T \in Endless : \A U \in SUBSET T : U # T => U \notin Endless
  <2> HIDE DEF Endless
  <2>1. Endless \subseteq SUBSET S
    BY DEF Endless
  <2> QED
    BY <2>1, LeastSet DEF Ordered
<1>2. PICK e \in T : TRUE
  OBVIOUS
<1>3. PICK d \in T : ~(d.at <= e.at)
  OBVIOUS
<1>4. T \ {e} \in SUBSET T /\ T \ {e} # T /\ T \ {e} # {} /\ e.at \in Int /\ d.at \in Int
  BY <1>3 DEF Ordered
<1>5. PICK f \in T \ {e} : \A g \in T \ {e} : g.at <= f.at
  BY <1>1, <1>4
<1>6. f.at \in Int /\ d.at <= f.at
  BY <1>3, <1>4, <1>5 DEF Ordered
<1>7. e.at <= f.at
  BY <1>3, <1>4, <1>6
<1> QED
  BY <1>5, <1>7

\* A finite set of entries has an order of creation.
LEMMA OrderExists ==
  ASSUME NEW S, Ordered(S)
  PROVE  \E q \in [1..Cardinality(S) -> S] : Increasing(q)
<1> DEFINE Without == {T \in SUBSET S : ~\E q \in [1..Cardinality(T) -> T] : Increasing(q)}
<1> SUFFICES ASSUME Without # {} PROVE FALSE
  OBVIOUS
<1>1. PICK T \in Without : \A U \in SUBSET T : U # T => U \notin Without
  <2> HIDE DEF Without
  <2>1. Without \subseteq SUBSET S
    BY DEF Without
  <2> QED
    BY <2>1, LeastSet DEF Ordered
<1>2. T \in SUBSET S /\ ~\E q \in [1..Cardinality(T) -> T] : Increasing(q)
  BY <1>1
<1>3. Ordered(T) /\ Cardinality(T) \in Nat
  BY <1>2, FS_Subset, FS_CardinalityType DEF Ordered
<1>4. T # {}
  <2>1. SUFFICES ASSUME T = {} PROVE FALSE
    OBVIOUS
  <2>2. Cardinality(T) = 0
    BY <2>1, FS_EmptySet
  <2> DEFINE q == [i \in 1..0 |-> i]
  <2>3. q \in [1..Cardinality(T) -> T] /\ DOMAIN q = {}
    BY <2>2
  <2> QED
    BY <1>2, <2>3 DEF Increasing
<1>5. PICK e \in T : \A d \in T : d.at <= e.at
  BY <1>3, <1>4, Latest
<1>6. PICK n \in Nat : n = Cardinality(T \ {e}) /\ Cardinality(T) = n + 1
  <2>1. Cardinality(T \ {e}) = Cardinality(T) - 1 /\ IsFiniteSet(T \ {e})
    BY <1>3, FS_RemoveElement DEF Ordered
  <2>2. Cardinality(T \ {e}) \in Nat
    BY <2>1, FS_CardinalityType
  <2> QED
    BY <1>3, <2>1, <2>2
<1>7. PICK q \in [1..n -> T \ {e}] : Increasing(q)
  <2>1. T \ {e} \in SUBSET T /\ T \ {e} # T /\ T \ {e} \in SUBSET S
    BY <1>2
  <2>2. T \ {e} \notin Without
    BY <1>1, <2>1
  <2>3. \E q \in [1..Cardinality(T \ {e}) -> T \ {e}] : Increasing(q)
    BY <2>1, <2>2
  <2> QED
    BY <1>6, <2>3
<1> DEFINE r == [i \in 1..(n + 1) |-> IF i <= n THEN q[i] ELSE e]
<1>8. r \in [1..(n + 1) -> T]
  BY <1>7
<1>9. ASSUME NEW i \in 1..(n + 1), NEW j \in 1..(n + 1), i < j PROVE r[i].at < r[j].at
  <2>1. i \in 1..n /\ r[i] = q[i] /\ q[i] \in T \ {e}
    BY <1>7, <1>9
  <2>2. CASE j <= n
    BY <1>7, <1>9, <2>1, <2>2 DEF Increasing
  <2>3. CASE j = n + 1
    <3>1. r[j] = e
      BY <2>3
    <3>2. q[i].at <= e.at /\ q[i].at # e.at /\ q[i].at \in Int /\ e.at \in Int
      BY <1>3, <1>5, <2>1 DEF Ordered
    <3> QED
      BY <2>1, <3>1, <3>2
  <2> QED
    BY <2>2, <2>3
<1> HIDE DEF r
<1>10. DOMAIN r = 1..(n + 1)
  BY <1>8
<1>11. Increasing(r)
  BY <1>9, <1>10 DEF Increasing
<1> QED
  BY <1>2, <1>6, <1>8, <1>11

\* InOrder gives all the entries in the order of their creation.
LEMMA InOrderOrders ==
  ASSUME NEW S, Ordered(S), NEW q, q = InOrder(S)
  PROVE  /\ Cardinality(S) \in Nat
         /\ q \in [1..Cardinality(S) -> S] /\ Increasing(q)
         /\ \A e \in S : \E i \in 1..Cardinality(S) : q[i] = e
<1>1. Cardinality(S) \in Nat /\ IsFiniteSet(S)
  BY FS_CardinalityType DEF Ordered
<1>2. q \in [1..Cardinality(S) -> S] /\ Increasing(q)
  BY OrderExists DEF InOrder, Increasing, ByCreation
<1>3. ASSUME NEW i \in 1..Cardinality(S), NEW j \in 1..Cardinality(S), q[i] = q[j] PROVE i = j
  <2>1. q[i] \in S /\ q[i].at \in Int
    BY <1>2 DEF Ordered
  <2>2. ~(q[i].at < q[j].at) /\ ~(q[j].at < q[i].at)
    BY <1>3, <2>1
  <2>3. ~(i < j) /\ ~(j < i)
    BY <1>2, <2>2 DEF Increasing
  <2> QED
    BY <1>1, <2>3
<1>4. q \in Injection(1..Cardinality(S), S)
  BY <1>2, <1>3 DEF Injection, IsInjective
<1>5. Cardinality(1..Cardinality(S)) = Cardinality(S)
  BY <1>1, FS_Interval
<1>6. q \in Surjection(1..Cardinality(S), S)
  BY <1>1, <1>4, <1>5, FS_Injection
<1> QED
  BY <1>1, <1>2, <1>6 DEF Surjection

-----------------------------------------------------------------------------
\* What is written in the ledger: by calls that are over, for wallets that are
\* there, and at different times for one wallet.
Written ==
  /\ IsFiniteSet(ledger)
  /\ \A e \in ledger : e.delta \in Int /\ Exists(e.wallet) /\ pc[e.by] = "done"
  /\ \A d, e \in ledger : d.wallet = e.wallet /\ d.at = e.at => d = e

\* A movement that has locked its wallet knows its balance, and has stamped its
\* entry later than every entry of the wallet.
Carried(m) ==
  pc[m] = "move" =>
    /\ holder[job[m].wallet] = m /\ job[m].delta \in Int
    /\ wallets[job[m].wallet].balance = job[m].balance
    /\ \A e \in Entries(job[m].wallet) : e.at < job[m].at

\* A reconciliation that has locked its wallet knows its balance.
Compares(r) ==
  pc[r] = "sum" =>
    /\ holder[job[r].wallet] = r /\ Exists(job[r].wallet)
    /\ wallets[job[r].wallet].balance = job[r].stored

\* What a client has seen are entries; before its first page, none.
Paged(x) ==
  /\ seen[x] \in Seq(ledger)
  /\ pc[x] = "page" => job[x].wallet \in Creators
  /\ seen[x] # <<>> => pc[x] = "page"

\* PagesLeaveNoGap, for one client.
NoGap(x) ==
  seen[x] # <<>> =>
    /\ \A i, j \in DOMAIN seen[x] : i < j => seen[x][i].at < seen[x][j].at
    /\ {seen[x][i] : i \in DOMAIN seen[x]} =
         {e \in Entries(job[x].wallet) : e.at <= Last(seen[x]).at}

LedgerInv ==
  /\ IInv /\ DOMAIN result = Reconcilers /\ DOMAIN seen = Readers
  /\ Written /\ BalanceIsItsLedger /\ ReconciliationsAgree
  /\ \A m \in Movers : Carried(m)
  /\ \A r \in Reconcilers : Compares(r)
  /\ \A x \in Readers : Paged(x) /\ NoGap(x)

\* The sum over a ledger is the total of its entries.
LEMMA CalculatedIsTotal ==
  \A w : Calculated(w) = Total(Entries(w)) /\ Calculated(w)' = Total(Entries(w)')
<1>1. \A w : Calculated(w) = Total(Entries(w))
  BY DEF Calculated, Total
<1>2. \A w : Calculated(w)' = Total(Entries(w)')
  BY DEF Calculated, Total, MapThenSumSet, MapThenFoldSet, Entries
<1> QED
  BY <1>1, <1>2

\* Nothing is written: at most a wallet without balance appears.
Idle ==
  /\ UNCHANGED <<openings, announced, ledger>>
  /\ \A w \in Creators : Exists(w) => wallets'[w] = wallets[w]
  /\ \A w \in Creators : Exists(w)' /\ ~Exists(w) => wallets'[w].balance = 0

\* Nobody who is done goes on.
Ends == \A p \in Processes : pc[p] = "done" => pc'[p] = "done"

\* What q holds, and q itself, is left alone.
Undisturbed(q) ==
  /\ pc'[q] = pc[q] /\ job'[q] = job[q]
  /\ \A w \in Creators : holder[w] = q =>
       /\ holder'[w] = q
       /\ Exists(w) => wallets'[w] = wallets[w] /\ Entries(w)' = Entries(w)

\* So what it has computed stays true.
LEMMA UndisturbedKeeps ==
  ASSUME IInv, NEW q \in Movers \cup Reconcilers, Undisturbed(q)
  PROVE  /\ q \in Movers /\ Carried(q) => Carried(q)'
         /\ q \in Reconcilers /\ Compares(q) => Compares(q)'
<1>1. ASSUME q \in Movers, Carried(q), pc[q] = "move" PROVE Carried(q)'
  <2>1. PICK w \in Creators : w = job[q].wallet /\ Exists(w) /\ holder[w] = q
    BY <1>1 DEF IInv, Carries, Carried
  <2>2. holder'[w] = q /\ wallets'[w] = wallets[w] /\ Entries(w)' = Entries(w) /\ job'[q] = job[q]
    BY <2>1 DEF Undisturbed
  <2>3. \A e \in Entries(w) : e.at < job[q].at
    BY <1>1, <2>1 DEF Carried
  <2>4. \A e \in ledger' : e.wallet = w => e.at < job[q].at
    BY <2>2, <2>3 DEF Entries
  <2> QED
    BY <1>1, <2>1, <2>2, <2>4 DEF Carried, Entries
<1>2. ASSUME q \in Reconcilers, Compares(q), pc[q] = "sum" PROVE Compares(q)'
  <2>1. PICK w \in Creators : w = job[q].wallet /\ Exists(w) /\ holder[w] = q
    BY <1>2 DEF IInv, Looks, Compares
  <2>2. holder'[w] = q /\ wallets'[w] = wallets[w] /\ job'[q] = job[q]
    BY <2>1 DEF Undisturbed
  <2> QED
    BY <1>2, <2>1, <2>2 DEF Compares, Exists
<1> QED
  BY <1>1, <1>2 DEF Undisturbed, Carried, Compares

\* Without a new entry, ledger and balances go on agreeing.
LEMMA IdleKeeps ==
  ASSUME IInv, Written, BalanceIsItsLedger, Idle, Ends
  PROVE  Written' /\ BalanceIsItsLedger'
<1>1. \A e \in ledger : e.by \in Processes /\ e.wallet \in Creators
  BY DEF IInv, TypeOK, Processes
<1>2. Written'
  <2>1. \A e \in ledger : Exists(e.wallet)' /\ pc'[e.by] = "done"
    BY <1>1 DEF Written, Idle, Ends, Exists
  <2> QED
    BY <2>1 DEF Written, Idle
<1>3. \A w : Calculated(w)' = Calculated(w)
  <2>1. \A w : Entries(w)' = Entries(w)
    BY DEF Idle, Entries
  <2> QED
    BY <2>1, CalculatedIsTotal
<1>4. ASSUME NEW w \in Creators, Exists(w)' PROVE wallets'[w].balance = Calculated(w)
  <2>1. CASE Exists(w)
    BY <2>1 DEF BalanceIsItsLedger, Idle
  <2>2. CASE ~Exists(w)
    <3>1. Entries(w) = {}
      BY <2>2 DEF Entries, Written
    <3>2. Calculated(w) = 0
      BY <3>1, CalculatedIsTotal, TotalUnroll, FS_EmptySet
    <3> QED
      BY <1>4, <2>2, <3>2 DEF Idle
  <2> QED
    BY <2>1, <2>2
<1>5. \A w \in Creators : Exists(w) => Exists(w)'
  BY DEF Idle, Exists
<1> QED
  BY <1>2, <1>3, <1>4, <1>5 DEF BalanceIsItsLedger, Idle

\* A wallet that is not there has no entries.
LEMMA NothingYet ==
  ASSUME Written, NEW w, ~Exists(w)
  PROVE  Entries(w) = {} /\ Calculated(w) = 0
<1>1. Entries(w) = {}
  BY DEF Entries, Written
<1> QED
  BY <1>1, CalculatedIsTotal, TotalUnroll, FS_EmptySet

\* A new entry and the balance it makes, written together.
LEMMA EntryAdded ==
  ASSUME IInv, Written, BalanceIsItsLedger, Ends,
         NEW w \in Creators, NEW e, e.wallet = w, e.delta \in Int, pc'[e.by] = "done",
         e.at \in Int, \A d \in Entries(w) : d.at < e.at,
         ledger' = ledger \cup {e}, Exists(w)', wallets'[w].balance = Calculated(w) + e.delta,
         \A v \in Creators \ {w} : wallets'[v] = wallets[v]
  PROVE  Written' /\ \A v \in Creators : Exists(v)' => wallets'[v].balance = Calculated(v)'
<1>1. \A d \in ledger : d.by \in Processes /\ d.wallet \in Creators /\ d.at \in Int
  BY DEF IInv, TypeOK, Processes
<1>2. Written'
  <2>1. IsFiniteSet(ledger')
    BY FS_AddElement DEF Written
  <2>2. \A d \in ledger' : d.delta \in Int /\ Exists(d.wallet)' /\ pc'[d.by] = "done"
    BY <1>1 DEF Written, Ends, Exists
  <2>3. \A d, f \in ledger' : d.wallet = f.wallet /\ d.at = f.at => d = f
    <3>1. \A d \in ledger : d.wallet = w => d.at # e.at
      BY <1>1 DEF Entries
    <3> QED
      BY <3>1 DEF Written
  <2> QED
    BY <2>1, <2>2, <2>3 DEF Written
<1>3. ASSUME NEW v \in Creators, v # w, Exists(v)' PROVE wallets'[v].balance = Calculated(v)'
  <2>1. Entries(v)' = Entries(v)
    BY <1>3 DEF Entries
  <2>2. Calculated(v)' = Calculated(v)
    BY <2>1, CalculatedIsTotal
  <2> QED
    BY <1>3, <2>2 DEF BalanceIsItsLedger, Exists
<1>4. wallets'[w].balance = Calculated(w)'
  <2>1. Entries(w)' = Entries(w) \cup {e}
    BY DEF Entries
  <2>2. e \notin Entries(w)
    BY DEF Entries
  <2>3. IsFiniteSet(Entries(w)) /\ \A d \in Entries(w) \cup {e} : d.delta \in Int
    BY FS_Subset DEF Entries, Written
  <2>4. Total(Entries(w) \cup {e}) = Total(Entries(w)) + e.delta
    BY <2>2, <2>3, TotalAdded
  <2> QED
    BY <2>1, <2>4, CalculatedIsTotal
<1> QED
  BY <1>2, <1>3, <1>4

\* A new entry, later than all of its wallet, leaves no gap in what was seen.
LEMMA PagesKept ==
  ASSUME IInv, NEW x \in Readers, Paged(x), NEW e, ledger' = ledger \cup {e},
         seen'[x] = seen[x], pc'[x] = pc[x], job'[x] = job[x],
         e.at \in Int, \A d \in Entries(e.wallet) : d.at < e.at, NoGap(x)
  PROVE  Paged(x)' /\ NoGap(x)'
<1>1. Seq(ledger) \subseteq Seq(ledger')
  OBVIOUS
<1>2. Paged(x)'
  BY <1>1 DEF Paged
<1>3. ASSUME seen[x] # <<>>
      PROVE  {seen[x][i] : i \in DOMAIN seen[x]} =
               {d \in Entries(job[x].wallet)' : d.at <= Last(seen[x]).at}
  <2>1. {seen[x][i] : i \in DOMAIN seen[x]} =
          {d \in Entries(job[x].wallet) : d.at <= Last(seen[x]).at}
    BY <1>3 DEF NoGap
  <2>2. Len(seen[x]) \in DOMAIN seen[x] /\ Last(seen[x]) = seen[x][Len(seen[x])]
    BY <1>3 DEF Paged, Last
  <2>3. Last(seen[x]) \in Entries(job[x].wallet) /\ Last(seen[x]).at \in Int
    BY <2>1, <2>2 DEF IInv, TypeOK, Entries
  <2>4. ~(e.wallet = job[x].wallet /\ e.at <= Last(seen[x]).at)
    BY <2>3
  <2>5. \A d : d \in Entries(job[x].wallet)' /\ d.at <= Last(seen[x]).at
              <=> d \in Entries(job[x].wallet) /\ d.at <= Last(seen[x]).at
    BY <2>4 DEF Entries
  <2> QED
    BY <2>1, <2>5
<1> QED
  BY <1>2, <1>3 DEF NoGap, Entries

\* Where a client stands: it has seen the entries up to its cursor, in order.
LEMMA CursorStands ==
  ASSUME IInv, NEW x \in Readers, Paged(x), NoGap(x), NEW w, w = job[x].wallet
  PROVE  /\ Cursor(x) \in Int
         /\ \A i \in 1..Len(seen[x]) : seen[x][i].at \in Int /\ seen[x][i].at <= Cursor(x)
         /\ \A e : e \in Entries(w) /\ e.at <= Cursor(x)
                     <=> \E i \in 1..Len(seen[x]) : seen[x][i] = e
<1>1. \A e \in ledger : e.at \in Nat \ {0}
  BY DEF IInv, TypeOK
<1>2. CASE seen[x] = <<>>
  BY <1>1, <1>2 DEF Cursor, Entries
<1>3. CASE seen[x] # <<>>
  <2>1. /\ seen[x] \in Seq(ledger) /\ Len(seen[x]) \in 1..Len(seen[x])
        /\ DOMAIN seen[x] = 1..Len(seen[x])
    BY <1>3 DEF Paged
  <2>2. Cursor(x) = Last(seen[x]).at /\ Last(seen[x]) \in ledger
    BY <1>3, <2>1 DEF Cursor, Last
  <2>3. \A e : e \in {seen[x][i] : i \in DOMAIN seen[x]}
                 <=> e \in {d \in Entries(w) : d.at <= Last(seen[x]).at}
    BY <1>3 DEF NoGap
  <2>4. ASSUME NEW i \in 1..Len(seen[x])
        PROVE  seen[x][i] \in ledger /\ seen[x][i] \in Entries(w) /\ seen[x][i].at <= Cursor(x)
    BY <2>1, <2>2, <2>3 DEF Entries
  <2>5. \A e : e \in Entries(w) /\ e.at <= Cursor(x)
                 <=> \E i \in 1..Len(seen[x]) : seen[x][i] = e
    BY <2>1, <2>2, <2>3
  <2> QED
    BY <1>1, <2>2, <2>4, <2>5
<1> QED
  BY <1>2, <1>3

\* A page: the first entries after the cursor, some if there are any.
LEMMA PageIs ==
  ASSUME IInv, Written, NEW x \in Readers, Paged(x), NoGap(x), NEW w, w = job[x].wallet,
         NEW rest, rest = InOrder(After(Cursor(x), w)), NEW page, page = Page(x)
  PROVE  \E n \in Nat, k \in Nat :
           /\ k <= n /\ (n > 0 => k > 0)
           /\ rest \in [1..n -> After(Cursor(x), w)] /\ Increasing(rest)
           /\ \A e \in After(Cursor(x), w) : \E i \in 1..n : rest[i] = e
           /\ page \in Seq(ledger) /\ Len(page) = k /\ \A i \in 1..k : page[i] = rest[i]
<1> DEFINE S == After(Cursor(x), w)
<1>1. Ordered(S)
  <2>1. IsFiniteSet(S)
    BY FS_Subset DEF Written, After, Entries
  <2>2. \A e \in S : e.at \in Int
    BY DEF IInv, TypeOK, After, Entries
  <2>3. \A d, e \in S : d.at = e.at => d = e
    BY DEF Written, After, Entries
  <2> QED
    BY <2>1, <2>2, <2>3 DEF Ordered
<1>2. S \subseteq ledger /\ PageLimit \in Nat \ {0}
  BY AccountsAssumption DEF After, Entries
<1>3. page = IF Len(rest) <= PageLimit THEN rest ELSE SubSeq(rest, 1, PageLimit)
  BY DEF Page
<1> HIDE DEF S
<1>4. PICK n \in Nat : /\ rest \in [1..n -> S] /\ Increasing(rest)
                       /\ \A e \in S : \E i \in 1..n : rest[i] = e
  <2>1. rest = InOrder(S)
    BY DEF S
  <2> QED
    BY <1>1, <2>1, InOrderOrders
<1>5. rest \in Seq(ledger) /\ Len(rest) = n
  BY <1>2, <1>4
<1>6. CASE n <= PageLimit
  BY <1>3, <1>4, <1>5, <1>6 DEF S
<1>7. CASE ~(n <= PageLimit)
  <2>1. page \in Seq(ledger) /\ Len(page) = PageLimit /\ \A i \in 1..PageLimit : page[i] = rest[i]
    BY <1>2, <1>3, <1>5, <1>7
  <2>2. PageLimit \in Nat /\ PageLimit > 0 /\ PageLimit <= n
    BY <1>2, <1>7
  <2> QED
    BY <1>4, <2>1, <2>2 DEF S
<1> QED
  BY <1>6, <1>7

\* The next page goes on where the last one ended.
LEMMA ListKeeps ==
  ASSUME LedgerInv, NEW x \in Readers, List(x)
  PROVE  Paged(x)' /\ NoGap(x)'
<1> DEFINE s == seen[x]
           w == job[x].wallet
           rest == InOrder(After(Cursor(x), w))
           page == Page(x)
<1>1. /\ seen'[x] = s \o page /\ pc[x] = "page" /\ s \in Seq(ledger)
      /\ UNCHANGED <<ledger, pc, job>> /\ w \in Creators
  BY DEF List, LedgerInv, Paged, tables
<1>2. /\ IInv /\ Written /\ Paged(x) /\ NoGap(x)
      /\ \A e \in ledger : e.at \in Int
  BY DEF LedgerInv, IInv, TypeOK
<1>3. PICK n \in Nat, k \in Nat :
        /\ k <= n /\ (n > 0 => k > 0)
        /\ rest \in [1..n -> After(Cursor(x), w)] /\ Increasing(rest)
        /\ \A e \in After(Cursor(x), w) : \E i \in 1..n : rest[i] = e
        /\ page \in Seq(ledger) /\ Len(page) = k /\ \A i \in 1..k : page[i] = rest[i]
  BY <1>2, PageIs
<1>4. /\ Cursor(x) \in Int
      /\ \A i \in 1..Len(s) : s[i].at \in Int /\ s[i].at <= Cursor(x)
      /\ \A e : e \in Entries(w) /\ e.at <= Cursor(x) <=> \E i \in 1..Len(s) : s[i] = e
  BY <1>2, CursorStands
<1>5. /\ \A i \in 1..n : rest[i] \in Entries(w) /\ rest[i].at > Cursor(x) /\ rest[i].at \in Int
      /\ \A i, j \in 1..n : i < j => rest[i].at < rest[j].at
      /\ \A e \in Entries(w) : e.at > Cursor(x) => \E i \in 1..n : rest[i] = e
  BY <1>2, <1>3 DEF After, Entries, Increasing
<1> HIDE DEF s, w, rest, page
<1>6. PICK l \in Nat : l = Len(s)
  BY <1>1
<1>7. /\ seen'[x] \in Seq(ledger) /\ Len(seen'[x]) = l + k
      /\ DOMAIN seen'[x] = 1..(l + k)
      /\ \A i \in 1..l : seen'[x][i] = s[i]
      /\ \A i \in 1..k : seen'[x][l + i] = rest[i]
      /\ \A i \in 1..(l + k) : i \in 1..l \/ \E j \in 1..k : i = l + j
  <2>1. /\ seen'[x] \in Seq(ledger) /\ Len(seen'[x]) = l + k
        /\ DOMAIN seen'[x] = 1..(l + k)
        /\ \A i \in 1..l : seen'[x][i] = s[i]
    <3>1. s \o page \in Seq(ledger) /\ Len(s \o page) = l + k
      <4>1. s \in Seq(ledger) /\ page \in Seq(ledger) /\ Len(s) = l /\ Len(page) = k
        BY <1>1, <1>3, <1>6
      <4>2. s \o page \in Seq(ledger)
        BY <4>1
      <4>3. Len(s \o page) = l + k
        BY <4>1
      <4> QED
        BY <4>2, <4>3
    <3>2. DOMAIN (s \o page) = 1..(l + k)
      BY <3>1
    <3>3. \A i \in 1..l : (s \o page)[i] = s[i]
      BY <1>1, <1>3, <1>6
    <3> QED
      BY <1>1, <3>1, <3>2, <3>3
  <2>2. ASSUME NEW i \in 1..k PROVE seen'[x][l + i] = rest[i]
    <3>1. seen'[x][l + i] = page[i]
      BY <1>1, <1>3, <1>6
    <3> QED
      BY <1>3, <3>1
  <2>3. ASSUME NEW i \in 1..(l + k), i \notin 1..l PROVE \E j \in 1..k : i = l + j
    <3>1. i - l \in 1..k /\ i = l + (i - l)
      BY <2>3
    <3> QED
      BY <3>1
  <2> QED
    BY <2>1, <2>2, <2>3
<1>8. Paged(x)'
  BY <1>1, <1>7 DEF Paged, w
<1>9. CASE k = 0
  <2>1. seen'[x] = s
    BY <1>1, <1>3, <1>9
  <2> QED
    BY <1>1, <1>2, <1>8, <2>1 DEF NoGap, Entries, s
<1>10. CASE k > 0
  <2>1. Last(seen'[x]) = rest[k]
    <3>1. k \in 1..k
      BY <1>10
    <3> QED
      BY <1>7, <3>1 DEF Last
  <2>2. ASSUME NEW i \in 1..(l + k), NEW j \in 1..(l + k), i < j
        PROVE  seen'[x][i].at < seen'[x][j].at
    <3>1. CASE j \in 1..l
      <4>1. i \in 1..l /\ seen'[x][i] = s[i] /\ seen'[x][j] = s[j]
        BY <1>7, <2>2, <3>1
      <4>2. DOMAIN s = 1..l /\ s # <<>>
        BY <1>1, <1>6, <3>1
      <4> QED
        BY <1>2, <2>2, <3>1, <4>1, <4>2 DEF NoGap, s
    <3>2. CASE i \in 1..l /\ j \notin 1..l
      <4>1. PICK b \in 1..k : j = l + b
        BY <1>7, <3>2
      <4>2. seen'[x][i] = s[i] /\ seen'[x][j] = rest[b] /\ b \in 1..n
        BY <1>3, <1>7, <3>2, <4>1
      <4> QED
        BY <1>4, <1>5, <1>6, <3>2, <4>2
    <3>3. CASE i \notin 1..l
      <4>1. PICK a \in 1..k, b \in 1..k : i = l + a /\ j = l + b /\ a < b
        BY <1>7, <2>2, <3>3
      <4>2. seen'[x][i] = rest[a] /\ seen'[x][j] = rest[b] /\ a \in 1..n /\ b \in 1..n
        BY <1>3, <1>7, <4>1
      <4> QED
        BY <1>5, <4>1, <4>2
    <3> QED
      BY <3>1, <3>2, <3>3
  <2>3. ASSUME NEW i \in 1..(l + k)
        PROVE  seen'[x][i] \in Entries(w) /\ seen'[x][i].at <= rest[k].at
    <3>1. k \in 1..n
      BY <1>3, <1>10
    <3>2. CASE i \in 1..l
      BY <1>4, <1>5, <1>6, <1>7, <3>1, <3>2
    <3>3. CASE i \notin 1..l
      <4>1. PICK a \in 1..k : i = l + a
        BY <1>7, <3>3
      <4>2. seen'[x][i] = rest[a] /\ a \in 1..n
        BY <1>3, <1>7, <4>1
      <4>3. rest[a].at <= rest[k].at
        BY <1>5, <3>1, <4>1, <4>2
      <4> QED
        BY <1>5, <4>2, <4>3
    <3> QED
      BY <3>2, <3>3
  <2>4. ASSUME NEW e \in Entries(w), e.at <= rest[k].at
        PROVE  \E i \in 1..(l + k) : seen'[x][i] = e
    <3>1. k \in 1..n /\ e.at \in Int
      BY <1>2, <1>3, <1>10 DEF Entries
    <3>2. CASE e.at <= Cursor(x)
      <4>1. PICK i \in 1..Len(s) : s[i] = e
        BY <1>4, <3>2
      <4>2. i \in 1..l /\ i \in 1..(l + k)
        BY <1>6, <4>1
      <4> QED
        BY <1>7, <4>1, <4>2
    <3>3. CASE ~(e.at <= Cursor(x))
      <4>1. PICK a \in 1..n : rest[a] = e
        BY <1>4, <1>5, <3>1, <3>3
      <4>2. ~(k < a)
        BY <1>5, <2>4, <3>1, <4>1
      <4>3. a \in 1..k /\ l + a \in 1..(l + k)
        BY <4>1, <4>2
      <4> QED
        BY <1>7, <4>1, <4>3
    <3> QED
      BY <3>2, <3>3
  <2>5. {seen'[x][i] : i \in DOMAIN seen'[x]} = {e \in Entries(w) : e.at <= Last(seen'[x]).at}
    BY <1>7, <2>1, <2>3, <2>4
  <2>6. \A i, j \in DOMAIN seen'[x] : i < j => seen'[x][i].at < seen'[x][j].at
    BY <1>7, <2>2
  <2>7. Entries(job[x].wallet)' = Entries(w)
    BY <1>1 DEF Entries, w
  <2> QED
    BY <1>8, <2>5, <2>6, <2>7 DEF NoGap
<1> QED
  BY <1>3, <1>9, <1>10

\* What p has not locked is not p's to change.
Respects(p) ==
  /\ \A q \in Processes \ {p} : pc'[q] = pc[q] /\ job'[q] = job[q]
  /\ \A w \in Creators : holder[w] \notin {p, Nobody} =>
       /\ holder'[w] = holder[w]
       /\ Exists(w) => wallets'[w] = wallets[w] /\ Entries(w)' = Entries(w)

\* What the others have locked and computed stays as it is.
LEMMA OthersKept ==
  ASSUME LedgerInv, NEW p \in Processes, Respects(p)
  PROVE  /\ \A m \in Movers \ {p} : Carried(m)'
         /\ \A r \in Reconcilers \ {p} : Compares(r)'
<1>1. ASSUME NEW q \in Movers \cup Reconcilers, q # p PROVE Undisturbed(q)
  <2>1. q \in Processes /\ q # Nobody
    BY AccountsAssumption DEF Processes
  <2> QED
    BY <1>1, <2>1 DEF Respects, Undisturbed
<1> QED
  BY <1>1, UndisturbedKeeps DEF LedgerInv

\* A step that writes nothing in the ledger.
LEMMA QuietKeeps ==
  ASSUME LedgerInv, IInv', NEW p \in Processes, Respects(p), Idle, pc[p] # "done",
         p \in Movers => Carried(p)', p \in Reconcilers => Compares(p)',
         p \in Readers => Paged(p)' /\ NoGap(p)',
         DOMAIN result' = Reconcilers, ReconciliationsAgree',
         DOMAIN seen' = Readers, \A x \in Readers \ {p} : seen'[x] = seen[x]
  PROVE  LedgerInv'
<1>1. Ends
  BY DEF Ends, Respects
<1>2. Written' /\ BalanceIsItsLedger'
  BY <1>1, IdleKeeps DEF LedgerInv
<1>3. (\A m \in Movers : Carried(m)') /\ (\A r \in Reconcilers : Compares(r)')
  BY OthersKept
<1>4. ASSUME NEW x \in Readers PROVE Paged(x)' /\ NoGap(x)'
  <2>1. CASE x = p
    BY <2>1
  <2>2. CASE x # p
    <3>1. pc'[x] = pc[x] /\ job'[x] = job[x] /\ seen'[x] = seen[x] /\ ledger' = ledger
      BY <2>2 DEF Respects, Idle, Processes
    <3> QED
      BY <3>1 DEF LedgerInv, Paged, NoGap, Entries
  <2> QED
    BY <2>1, <2>2
<1> QED
  BY <1>2, <1>3, <1>4 DEF LedgerInv

\* A step that writes one entry.
LEMMA WritingKeeps ==
  ASSUME LedgerInv, IInv', NEW p \in Creators \cup Movers, Respects(p), pc[p] # "done",
         pc'[p] = "done", UNCHANGED <<result, seen>>,
         NEW w \in Creators, NEW e, e.by = p, e.wallet = w, e.delta \in Int, e.at \in Int,
         \A d \in Entries(w) : d.at < e.at,
         ledger' = ledger \cup {e}, Exists(w)', wallets'[w].balance = Calculated(w) + e.delta,
         \A v \in Creators \ {w} : wallets'[v] = wallets[v],
         openings' = IF p \in Creators THEN openings \cup {p} ELSE openings,
         announced' = IF p \in Creators THEN announced \cup {p} ELSE announced,
         p \in Creators => w = p
  PROVE  LedgerInv'
<1>1. Ends /\ p \in Processes
  BY DEF Ends, Respects, Processes
<1>2. Written' /\ \A v \in Creators : Exists(v)' => wallets'[v].balance = Calculated(v)'
  BY <1>1, EntryAdded DEF LedgerInv
<1>3. ASSUME NEW v \in Creators
      PROVE  /\ v \in openings' <=> \E d \in ledger' : d.by = v
             /\ v \in openings' => Exists(v)' /\ v \in announced'
  <2>1. /\ v \in openings <=> \E d \in ledger : d.by = v
        /\ v \in openings => Exists(v) /\ v \in announced
    BY DEF LedgerInv, BalanceIsItsLedger
  <2>2. Exists(v) => Exists(v)'
    BY DEF Exists
  <2> QED
    BY <2>1, <2>2
<1>4. BalanceIsItsLedger'
  BY <1>2, <1>3 DEF BalanceIsItsLedger
<1>5. (\A m \in Movers : Carried(m)') /\ (\A r \in Reconcilers : Compares(r)')
  <2>1. p \in Movers => Carried(p)'
    BY DEF Carried
  <2>2. p \notin Reconcilers
    BY AccountsAssumption
  <2> QED
    BY <1>1, <2>1, <2>2, OthersKept
<1>6. ASSUME NEW x \in Readers PROVE Paged(x)' /\ NoGap(x)'
  <2>1. x \in Processes \ {p}
    BY AccountsAssumption DEF Processes
  <2>2. pc'[x] = pc[x] /\ job'[x] = job[x] /\ seen'[x] = seen[x]
    BY <2>1 DEF Respects
  <2> QED
    BY <2>2, PagesKept DEF LedgerInv
<1>7. ReconciliationsAgree'
  BY DEF LedgerInv, ReconciliationsAgree
<1> QED
  BY <1>2, <1>4, <1>5, <1>6, <1>7 DEF LedgerInv

-----------------------------------------------------------------------------
\* There are no entries yet.
LEMMA LedgerInit == Init => LedgerInv
<1> SUFFICES ASSUME Init PROVE LedgerInv
  OBVIOUS
<1>1. \A w \in Creators : ~Exists(w)
  BY DEF Init, Exists
<1>2. Written
  BY FS_EmptySet DEF Init, Written
<1>3. BalanceIsItsLedger
  BY <1>1 DEF Init, BalanceIsItsLedger
<1>4. ReconciliationsAgree
  BY DEF Init, ReconciliationsAgree, NoResult
<1>5. ASSUME NEW m \in Movers PROVE Carried(m)
  BY AccountsAssumption DEF Init, Carried, Processes
<1>6. ASSUME NEW r \in Reconcilers PROVE Compares(r)
  BY AccountsAssumption DEF Init, Compares, Processes
<1>7. ASSUME NEW x \in Readers PROVE Paged(x) /\ NoGap(x)
  <2>1. seen[x] = <<>> /\ pc[x] = "pick"
    BY AccountsAssumption DEF Init, Processes
  <2> QED
    BY <2>1 DEF Paged, NoGap
<1> QED
  BY <1>2, <1>3, <1>4, <1>5, <1>6, <1>7, InitHolds DEF LedgerInv, Init

\* Before its commit, a creation writes no more than a wallet without balance.
LEMMA CreationKeeps ==
  ASSUME LedgerInv, IInv', NEW c \in Creators, LookUp(c) \/ Insert(c) \/ FailCreation(c)
  PROVE  LedgerInv'
<1>1. /\ c \in Processes /\ c \notin Movers \cup Reconcilers \cup Readers /\ pc[c] # "done"
      /\ UNCHANGED <<openings, announced, ledger, holder, result, seen>>
  BY AccountsAssumption DEF LookUp, Insert, FailCreation, tables, locks, Processes
<1>2. ~Exists(c) /\ DOMAIN wallets = Creators
  BY DEF LedgerInv, IInv, Local, TypeOK, LookUp, Insert, FailCreation
<1>3. \/ wallets' = wallets
      \/ wallets' = [wallets EXCEPT ![c] = NewWallet(c)] /\ job[c].initial = 0
  BY DEF LookUp, Insert, FailCreation, tables
<1>4. Idle
  BY <1>1, <1>2, <1>3 DEF Idle, Exists, NewWallet
<1>5. \A q \in Processes \ {c} : pc'[q] = pc[q] /\ job'[q] = job[q]
  BY <1>1 DEF LookUp, Insert, FailCreation, Goto, LedgerInv, IInv, TypeOK
<1>6. Respects(c)
  BY <1>1, <1>4, <1>5 DEF Respects, Idle, Entries
<1> QED
  BY <1>1, <1>4, <1>6, QuietKeeps DEF LedgerInv, ReconciliationsAgree

\* The commit writes the wallet and, of the same amount, its first entry.
LEMMA OpeningKeeps ==
  ASSUME LedgerInv, IInv', NEW c \in Creators, Commit(c) \/ LoseCommitReply(c)
  PROVE  LedgerInv'
<1>1. /\ pc[c] = "commit" /\ Open(c) /\ Goto(c, "done") /\ UNCHANGED <<holder, job, result, seen>>
      /\ c \in Processes
  BY DEF Commit, LoseCommitReply, Processes
<1>2. /\ ~Exists(c) /\ job[c].initial \in Nat /\ job[c].at \in Nat
      /\ DOMAIN wallets = Creators /\ now \in Nat
  BY <1>1 DEF LedgerInv, IInv, Local, TypeOK
<1>3. /\ \A v \in Creators \ {c} : wallets'[v] = wallets[v]
      /\ wallets'[c].balance = job[c].initial /\ Exists(c)'
  BY <1>1, <1>2 DEF Open, NewWallet, Exists, NoRow
<1>4. Entries(c) = {} /\ Calculated(c) = 0
  BY <1>2, NothingYet DEF LedgerInv
<1> DEFINE e == LedgerEntry(c, c, job[c].initial, job[c].at)
<1>5. /\ e.by = c /\ e.wallet = c /\ e.delta = job[c].initial /\ e.at = job[c].at
      /\ ledger' = ledger \cup {e}
  BY <1>1 DEF Open, LedgerEntry
<1> HIDE DEF e
<1>6. \A q \in Processes \ {c} : pc'[q] = pc[q] /\ job'[q] = job[q]
  BY <1>1 DEF Goto, LedgerInv, IInv, TypeOK
<1>7. Respects(c)
  <2>1. ASSUME NEW w \in Creators, Exists(w) PROVE wallets'[w] = wallets[w] /\ Entries(w)' = Entries(w)
    BY <1>2, <1>3, <1>5, <2>1 DEF Entries
  <2> QED
    BY <1>1, <1>6, <2>1 DEF Respects
<1>8. pc'[c] = "done"
  BY <1>1 DEF Goto, LedgerInv, IInv, TypeOK
<1>9. wallets'[c].balance = Calculated(c) + e.delta
  BY <1>2, <1>3, <1>4, <1>5
<1>10. /\ openings' = IF c \in Creators THEN openings \cup {c} ELSE openings
       /\ announced' = IF c \in Creators THEN announced \cup {c} ELSE announced
  BY <1>1 DEF Open
<1> QED
  BY <1>1, <1>2, <1>3, <1>4, <1>5, <1>7, <1>8, <1>9, <1>10, WritingKeeps

\* A movement that takes the lock reads the balance, and stamps its entry later
\* than every entry there is.
LEMMA LockKeeps ==
  ASSUME LedgerInv, IInv', NEW m \in Movers, Lock(m)
  PROVE  LedgerInv'
<1>1. PICK w \in Creators, d \in Deltas :
        /\ Exists(w) /\ holder[w] = Nobody
        /\ holder' = [holder EXCEPT ![w] = m]
        /\ job' = [job EXCEPT ![m] = [wallet |-> w, delta |-> d, at |-> now + 1,
                                      balance |-> wallets[w].balance]]
  BY DEF Lock
<1>2. /\ pc[m] = "lock" /\ Goto(m, "move")
      /\ UNCHANGED <<wallets, openings, announced, ledger, result, seen>>
      /\ m \in Processes /\ m \notin Reconcilers \cup Readers /\ d \in Int
      /\ DOMAIN holder = Creators /\ DOMAIN job = Processes /\ DOMAIN pc = Processes
  BY AccountsAssumption DEF Lock, tables, outcomes, Processes, LedgerInv, IInv, TypeOK
<1>3. /\ job'[m] = [wallet |-> w, delta |-> d, at |-> now + 1, balance |-> wallets[w].balance]
      /\ holder'[w] = m /\ pc'[m] = "move"
      /\ \A v \in Creators \ {w} : holder'[v] = holder[v]
      /\ \A q \in Processes \ {m} : pc'[q] = pc[q] /\ job'[q] = job[q]
  BY <1>1, <1>2 DEF Goto
<1>4. \A e \in ledger : e.at < now + 1
  BY DEF LedgerInv, IInv, TypeOK
<1>5. Carried(m)'
  BY <1>2, <1>3, <1>4 DEF Carried, Entries
<1>6. Idle
  BY <1>2 DEF Idle, Exists
<1>7. Respects(m)
  BY <1>1, <1>2, <1>3 DEF Respects, Entries
<1> QED
  BY <1>2, <1>5, <1>6, <1>7, QuietKeeps DEF LedgerInv, ReconciliationsAgree

\* A movement writes the balance it has computed from the one that still
\* stands, and the entry that says so.
LEMMA MoveKeeps ==
  ASSUME LedgerInv, IInv', NEW m \in Movers, Move(m)
  PROVE  LedgerInv'
<1>1. PICK w \in Creators : w = job[m].wallet /\ Exists(w)
  BY DEF Move, LedgerInv, IInv, Carries
<1>2. /\ pc[m] = "move"
      /\ wallets' = [wallets EXCEPT ![w].balance = job[m].balance + job[m].delta,
                                    ![w].version = @ + 1]
      /\ ledger' = ledger \cup {LedgerEntry(m, w, job[m].delta, job[m].at)}
      /\ holder' = [holder EXCEPT ![w] = Nobody] /\ Goto(m, "done")
      /\ UNCHANGED <<openings, announced, job, result, seen>>
  BY <1>1 DEF Move, FreeWallet, outcomes
<1>3. /\ holder[w] = m /\ job[m].delta \in Int /\ wallets[w].balance = job[m].balance
      /\ \A e \in Entries(w) : e.at < job[m].at
      /\ job[m].at \in Int
  BY <1>1, <1>2 DEF LedgerInv, Carried, IInv, Carries, TypeOK
<1>4. /\ m \in Processes /\ m \notin Creators /\ DOMAIN holder = Creators
      /\ DOMAIN wallets = Creators /\ DOMAIN pc = Processes
  BY AccountsAssumption DEF Processes, LedgerInv, IInv, TypeOK
<1>5. /\ \A v \in Creators \ {w} : wallets'[v] = wallets[v] /\ holder'[v] = holder[v]
      /\ wallets'[w].balance = job[m].balance + job[m].delta
      /\ wallets'[w].version = wallets[w].version + 1
      /\ pc'[m] = "done" /\ \A q \in Processes \ {m} : pc'[q] = pc[q] /\ job'[q] = job[q]
  BY <1>1, <1>2, <1>4 DEF Goto, LedgerInv, IInv, TypeOK
<1>6. Exists(w)'
  <2>1. wallets[w].version \in Nat
    BY <1>1 DEF LedgerInv, IInv, TypeOK
  <2> QED
    BY <1>5, <2>1 DEF Exists, NoRow
<1>7. wallets'[w].balance = Calculated(w) + job[m].delta
  BY <1>1, <1>3, <1>5 DEF LedgerInv, BalanceIsItsLedger
<1> DEFINE e == LedgerEntry(m, w, job[m].delta, job[m].at)
<1>8. /\ e.by = m /\ e.wallet = w /\ e.delta = job[m].delta /\ e.at = job[m].at
      /\ ledger' = ledger \cup {e}
  BY <1>2 DEF LedgerEntry
<1> HIDE DEF e
<1>9. Respects(m)
  <2>1. \A v \in Creators \ {w} : Entries(v)' = Entries(v)
    BY <1>8 DEF Entries
  <2> QED
    BY <1>3, <1>5, <2>1 DEF Respects
<1> QED
  BY <1>2, <1>3, <1>4, <1>5, <1>6, <1>7, <1>8, <1>9, WritingKeeps

\* A rollback gives the lock back.
LEMMA FailMovementKeeps ==
  ASSUME LedgerInv, IInv', NEW m \in Movers, FailMovement(m)
  PROVE  LedgerInv'
<1>1. /\ pc[m] = "move" /\ holder' = [holder EXCEPT ![job[m].wallet] = Nobody] /\ Goto(m, "done")
      /\ UNCHANGED <<wallets, openings, announced, ledger, job, result, seen>>
      /\ m \in Processes /\ m \notin Reconcilers \cup Readers
  BY AccountsAssumption DEF FailMovement, FreeWallet, tables, outcomes, Processes
<1>2. pc'[m] = "done" /\ \A q \in Processes \ {m} : pc'[q] = pc[q] /\ job'[q] = job[q]
  BY <1>1 DEF Goto, LedgerInv, IInv, TypeOK
<1>3. holder[job[m].wallet] = m
  BY <1>1 DEF LedgerInv, Carried
<1>4. Idle /\ Carried(m)'
  BY <1>1, <1>2 DEF Idle, Exists, Carried
<1>5. Respects(m)
  BY <1>1, <1>2, <1>3 DEF Respects, Entries, LedgerInv, IInv, TypeOK
<1> QED
  BY <1>1, <1>4, <1>5, QuietKeeps DEF LedgerInv, ReconciliationsAgree

\* A reconciliation compares what it has read with the sum of the ledger, which
\* the wallet's lock has kept as it was.
LEMMA ReconciliationKeeps ==
  ASSUME LedgerInv, IInv', NEW r \in Reconcilers,
         ReadWallet(r) \/ NotFound(r) \/ SumEntries(r) \/ FailReconciliation(r)
  PROVE  LedgerInv'
<1>1. /\ UNCHANGED <<wallets, openings, announced, ledger, seen>> /\ pc[r] # "done"
      /\ r \in Processes /\ r \notin Movers \cup Readers
  BY AccountsAssumption
  DEF ReadWallet, NotFound, SumEntries, FailReconciliation, tables, locks, outcomes, Processes
<1>2. Idle
  BY <1>1 DEF Idle, Exists
<1>3. \A w \in Creators : Entries(w)' = Entries(w)
  BY <1>1 DEF Entries
<1>4. \A q \in Processes \ {r} : pc'[q] = pc[q] /\ job'[q] = job[q]
  BY DEF ReadWallet, NotFound, SumEntries, FailReconciliation, Goto, LedgerInv, IInv, TypeOK
<1>5. CASE ReadWallet(r)
  <2>1. PICK w \in Creators :
          /\ Exists(w) /\ holder[w] = Nobody
          /\ holder' = [holder EXCEPT ![w] = r]
          /\ job' = [job EXCEPT ![r] = [wallet |-> w, stored |-> wallets[w].balance]]
    BY <1>5 DEF ReadWallet
  <2>2. /\ holder'[w] = r /\ \A v \in Creators \ {w} : holder'[v] = holder[v]
        /\ job'[r] = [wallet |-> w, stored |-> wallets[w].balance]
    BY <1>1, <2>1 DEF LedgerInv, IInv, TypeOK
  <2>3. Respects(r)
    BY <1>1, <1>3, <1>4, <2>1, <2>2 DEF Respects
  <2>4. Compares(r)'
    BY <1>1, <2>1, <2>2 DEF Compares, Exists
  <2> QED
    BY <1>1, <1>2, <1>5, <2>3, <2>4, QuietKeeps
    DEF LedgerInv, ReconciliationsAgree, ReadWallet, outcomes
<1>6. CASE NotFound(r)
  <2>1. Respects(r) /\ Compares(r)'
    BY <1>1, <1>3, <1>4, <1>6 DEF Respects, Compares, NotFound, Goto, locks, LedgerInv, IInv, TypeOK
  <2> QED
    BY <1>1, <1>2, <1>6, <2>1, QuietKeeps
    DEF LedgerInv, ReconciliationsAgree, NotFound, outcomes
<1>7. CASE SumEntries(r) \/ FailReconciliation(r)
  <2>1. PICK w \in Creators : w = job[r].wallet /\ holder[w] = r /\ Exists(w)
                              /\ wallets[w].balance = job[r].stored
    BY <1>7 DEF SumEntries, FailReconciliation, LedgerInv, IInv, Looks, Compares
  <2>2. /\ holder' = [holder EXCEPT ![w] = Nobody] /\ pc'[r] = "done"
    BY <1>1, <1>7, <2>1 DEF SumEntries, FailReconciliation, FreeWallet, Goto, LedgerInv, IInv, TypeOK
  <2>3. Respects(r) /\ Compares(r)'
    BY <1>1, <1>3, <1>4, <2>1, <2>2 DEF Respects, Compares, LedgerInv, IInv, TypeOK
  <2>4. DOMAIN result' = Reconcilers /\ ReconciliationsAgree'
    <3>1. job[r].stored = Calculated(w)
      BY <2>1 DEF LedgerInv, BalanceIsItsLedger
    <3>2. \/ result' = [result EXCEPT ![r] = [consistent |-> job[r].stored = Calculated(w)]]
          \/ result' = result
      BY <1>7, <2>1 DEF SumEntries, FailReconciliation, outcomes
    <3>3. DOMAIN result' = Reconcilers
      BY <3>2 DEF LedgerInv
    <3>4. ASSUME NEW q \in Reconcilers PROVE result'[q].consistent
      <4>1. result'[q] = result[q] \/ result'[q] = [consistent |-> TRUE]
        BY <3>1, <3>2 DEF LedgerInv
      <4> QED
        BY <4>1 DEF LedgerInv, ReconciliationsAgree
    <3> QED
      BY <3>3, <3>4 DEF ReconciliationsAgree
  <2> QED
    BY <1>1, <1>2, <2>3, <2>4, QuietKeeps DEF LedgerInv
<1> QED
  BY <1>5, <1>6, <1>7

\* Clients read, and nothing else.
LEMMA ReadingKeeps ==
  ASSUME LedgerInv, IInv', NEW x \in Readers, PickWallet(x) \/ List(x)
  PROVE  LedgerInv'
<1>1. /\ UNCHANGED <<wallets, openings, announced, ledger, holder, result>> /\ pc[x] # "done"
      /\ x \in Processes /\ x \notin Movers \cup Reconcilers
      /\ DOMAIN seen' = Readers /\ \A y \in Readers \ {x} : seen'[y] = seen[y]
  BY AccountsAssumption DEF PickWallet, List, tables, locks, outcomes, Processes, LedgerInv
<1>2. Idle
  BY <1>1 DEF Idle, Exists
<1>3. Respects(x)
  BY <1>1 DEF Respects, Entries, PickWallet, List, Goto, LedgerInv, IInv, TypeOK
<1>4. Paged(x)' /\ NoGap(x)'
  <2>1. CASE PickWallet(x)
    <3>1. /\ seen' = seen /\ ledger' = ledger /\ seen[x] \in Seq(ledger) /\ seen[x] = <<>>
          /\ job'[x].wallet \in Creators
      BY <1>1, <2>1 DEF PickWallet, outcomes, tables, LedgerInv, IInv, Paged
    <3> QED
      BY <3>1 DEF Paged, NoGap
  <2>2. CASE List(x)
    BY <2>2, ListKeeps
  <2> QED
    BY <2>1, <2>2
<1> QED
  BY <1>1, <1>2, <1>3, <1>4, QuietKeeps DEF LedgerInv, ReconciliationsAgree

\* Every step keeps balances, ledger and pages in agreement.
LEMMA LedgerStep == LedgerInv /\ [Next]_vars => LedgerInv'
<1> SUFFICES ASSUME LedgerInv, [Next]_vars PROVE LedgerInv'
  OBVIOUS
<1>1. IInv'
  BY StepHolds DEF LedgerInv
<1>2. ASSUME NEW c \in Creators, Create(c) \/ LoseCommitReply(c) \/ FailCreation(c)
      PROVE  LedgerInv'
  BY <1>1, <1>2, CreationKeeps, OpeningKeeps DEF Create
<1>3. ASSUME NEW m \in Movers, Lock(m) \/ Move(m) \/ FailMovement(m) PROVE LedgerInv'
  BY <1>1, <1>3, LockKeeps, MoveKeeps, FailMovementKeeps
<1>4. ASSUME NEW r \in Reconcilers,
             ReadWallet(r) \/ NotFound(r) \/ SumEntries(r) \/ FailReconciliation(r)
      PROVE  LedgerInv'
  BY <1>1, <1>4, ReconciliationKeeps
<1>5. ASSUME NEW x \in Readers, PickWallet(x) \/ List(x) PROVE LedgerInv'
  BY <1>1, <1>5, ReadingKeeps
<1>6. CASE UNCHANGED vars
  <2>1. UNCHANGED <<wallets, openings, announced, ledger, holder, pc, job, result, seen>>
    BY <1>6 DEF vars, tables, locks, outcomes
  <2>2. Idle /\ Ends
    BY <2>1 DEF Idle, Ends, Exists
  <2>3. Written' /\ BalanceIsItsLedger'
    BY <2>2, IdleKeeps DEF LedgerInv
  <2>4. ASSUME NEW q \in Movers \cup Reconcilers PROVE Undisturbed(q)
    BY <2>1 DEF Undisturbed, Entries
  <2>5. (\A m \in Movers : Carried(m)') /\ (\A r \in Reconcilers : Compares(r)')
    BY <2>4, UndisturbedKeeps DEF LedgerInv
  <2>6. ASSUME NEW x \in Readers PROVE Paged(x)' /\ NoGap(x)'
    BY <2>1 DEF LedgerInv, Paged, NoGap, Entries
  <2> QED
    BY <1>1, <2>1, <2>3, <2>5, <2>6 DEF LedgerInv, ReconciliationsAgree
<1> QED
  BY <1>2, <1>3, <1>4, <1>5, <1>6 DEF Next

\* Ledger and balances agree in every behaviour.
LEMMA LedgerInvariance == Spec => []LedgerInv
<1> QED
  BY LedgerInit, LedgerStep, PTL DEF Spec

\* Whatever fails, and however many calls meet: the balance of a wallet is the
\* sum of its ledger, and wallet, opening and events appear together.
THEOREM BalanceIsSum == Spec => []BalanceIsItsLedger
<1>1. LedgerInv => BalanceIsItsLedger
  BY DEF LedgerInv
<1> QED
  BY <1>1, LedgerInvariance, PTL

\* No reconciliation ever finds a divergence, whatever movements commit around it.
THEOREM NoDivergence == Spec => []ReconciliationsAgree
<1>1. LedgerInv => ReconciliationsAgree
  BY DEF LedgerInv
<1> QED
  BY <1>1, LedgerInvariance, PTL

\* A client that pages through a ledger has at any time seen every entry up to
\* its cursor, once and in order, whatever is written between its pages.
THEOREM PagesComplete == Spec => []PagesLeaveNoGap
<1>1. LedgerInv => PagesLeaveNoGap
  BY DEF LedgerInv, NoGap, PagesLeaveNoGap
<1> QED
  BY <1>1, LedgerInvariance, PTL

=============================================================================
