----------------------- MODULE BankServiceMapsProofs ------------------------
(* What holds of two components that add up counts, for any number of        *)
(* goroutines: of the solution's bank, for any accounts, transfers and       *)
(* amounts, and, from "The service's cache and metrics" on, of the service   *)
(* of ServiceMaps, for any keys, requests and rounds.                        *)
EXTENDS Bank, ServiceMaps, SumTheorems, SequenceTheorems

(* main opens the accounts one after the other, each with the same balance,  *)
(* and before it starts anybody.                                             *)
Opening ==
  /\ \E n \in 0..NumAccounts : DOMAIN balance = 1..n
  /\ ~Opened => \A id \in DOMAIN balance : balance[id] = InitialBalance
  /\ \A t \in Tellers : pc[t] # "idle" => Opened
  /\ vpc # "idle" => Opened
  /\ audit # NotYet => Opened

(* A transfer under way has its accounts and its amount, and is not one too  *)
(* many.                                                                     *)
Underway ==
  \A t \in Tellers : pc[t] # "idle" =>
    /\ tx[t].from \in Ids /\ tx[t].to \in Ids /\ tx[t].amount \in Amounts
    /\ done[t] < MaxTransfers

(* The solution's mutual exclusion: a teller has the lock to itself for the  *)
(* whole of its transfer, the reporter for the whole of its scan.            *)
Locked ==
  Safe => /\ writers = {t \in Tellers : pc[t] # "idle"}
          /\ \A t, u \in writers : t = u
          /\ readers = IF vpc = "scan" THEN {"vip"} ELSE {}
          /\ writers # {} => readers = {}

(* What a transfer has read still holds when it uses it.                     *)
Fresh ==
  Safe => \A t \in Tellers :
    /\ pc[t] \in {"readFrom", "readTo", "debit", "credit"} => tx[t].from # tx[t].to
    /\ pc[t] = "readFrom" => balance[tx[t].from] >= tx[t].amount
    /\ pc[t] \in {"readTo", "debit"} =>
         tx[t].newFrom = balance[tx[t].from] - tx[t].amount /\ tx[t].newFrom >= 0
    /\ pc[t] \in {"debit", "credit"} => tx[t].newTo = balance[tx[t].to] + tx[t].amount

(* The lead of a scan is the best of the accounts it has seen.               *)
Leads ==
  /\ vpc = "scan" /\ lead # 0 => lead \in Ids \ unseen
  /\ Safe /\ vpc = "scan" =>
       \A id \in Ids \ unseen : lead # 0 /\ balance[id] <= balance[lead]

(* What is settled adds up at every moment, in the middle of a transfer too. *)
SettledAddsUp ==
  Safe => /\ SumFunction(Settled) = Cardinality(DOMAIN balance) * InitialBalance
          /\ audit # NotYet => audit = <<0>>

Typed == TypeOK /\ Opening /\ Underway
Inv ==
  Typed /\ Locked /\ Fresh /\ NoOverdraft /\ Leads /\ SettledAddsUp

-----------------------------------------------------------------------------
LEMMA TypedInit == Init => Typed
<1> SUFFICES ASSUME Init PROVE Typed
  OBVIOUS
<1>1. NumAccounts \in Nat /\ InitialBalance \in Nat /\ MaxTransfers \in Nat
  BY BankAssumption
<1>2. DOMAIN balance = {} /\ DOMAIN balance = 1..0
  BY DEF Init
<1>3. TypeOK
  <2>1. done \in [Tellers -> 0..MaxTransfers]
    BY <1>1 DEF Init
  <2>2. tx \in [Tellers -> [from : Ids \union {0}, to : Ids \union {0},
                            amount : Amounts \union {0}, newFrom : Int, newTo : Int]]
    BY DEF Init, NoTransfer
  <2>3. vip \in [id : Ids \union {0}, balance : Int]
    BY DEF Init, NoReport
  <2> QED
    BY <1>2, <2>1, <2>2, <2>3 DEF Init, TypeOK
<1>4. Opening
  <2>1. \E n \in 0..NumAccounts : DOMAIN balance = 1..n
    BY <1>1, <1>2
  <2> QED
    BY <1>2, <2>1 DEF Init, Opening
<1>5. Underway
  BY DEF Init, Underway
<1> QED
  BY <1>3, <1>4, <1>5 DEF Typed

LEMMA OpenedFacts ==
  ASSUME Typed
  PROVE  /\ NumAccounts \in Nat /\ InitialBalance \in Nat
         /\ IsSummable(balance)
         /\ IsFiniteSet(Ids) /\ Cardinality(Ids) = NumAccounts
         /\ \A t \in Tellers : pc[t] # "idle" =>
              /\ DOMAIN balance = Ids
              /\ tx[t].from \in Ids /\ tx[t].to \in Ids
              /\ tx[t].amount \in Amounts /\ tx[t].amount \in Nat /\ tx[t].amount > 0
              /\ balance[tx[t].from] \in Int /\ balance[tx[t].to] \in Int
         /\ vpc # "idle" => DOMAIN balance = Ids /\ \A id \in Ids : balance[id] \in Int
<1>1. NumAccounts \in Nat /\ InitialBalance \in Nat
  BY BankAssumption
<1>2. IsFiniteSet(Ids) /\ Cardinality(Ids) = NumAccounts
  <2>1. Cardinality(Ids) = IF 1 > NumAccounts THEN 0 ELSE NumAccounts - 1 + 1
    BY <1>1, FS_Interval DEF Ids
  <2> QED
    BY <1>1, <2>1, FS_Interval DEF Ids
<1>3. IsSummable(balance)
  BY <1>2, FS_Subset DEF IsSummable, Typed, TypeOK
<1>4. ASSUME NEW t \in Tellers, pc[t] # "idle"
      PROVE  /\ DOMAIN balance = Ids
             /\ tx[t].from \in Ids /\ tx[t].to \in Ids
             /\ tx[t].amount \in Amounts /\ tx[t].amount \in Nat /\ tx[t].amount > 0
             /\ balance[tx[t].from] \in Int /\ balance[tx[t].to] \in Int
  <2>1. /\ DOMAIN balance = Ids
        /\ tx[t].from \in Ids /\ tx[t].to \in Ids /\ tx[t].amount \in Amounts
    BY <1>4 DEF Typed, Opening, Opened, Underway
  <2>2. tx[t].amount \in Nat /\ tx[t].amount > 0
    <3>1. \A a \in Amounts : a \in Nat /\ a > 0
      BY BankAssumption
    <3> QED
      BY <2>1, <3>1
  <2>3. balance[tx[t].from] \in Int /\ balance[tx[t].to] \in Int
    BY <2>1 DEF Typed, TypeOK
  <2> QED
    BY <2>1, <2>2, <2>3
<1>5. vpc # "idle" => DOMAIN balance = Ids /\ \A id \in Ids : balance[id] \in Int
  BY DEF Typed, TypeOK, Opening, Opened
<1> QED
  BY <1>1, <1>2, <1>3, <1>4, <1>5

(* CreateAccount opens the account after the last one.                       *)
LEMMA CreateFacts ==
  ASSUME Typed, CreateAccount
  PROVE  /\ NextID \in Ids \ DOMAIN balance
         /\ DOMAIN balance' = DOMAIN balance \union {NextID}
         /\ \E n \in 0..NumAccounts : DOMAIN balance' = 1..n
         /\ \A id \in DOMAIN balance' : balance'[id] = InitialBalance
<1>1. PICK n \in 0..NumAccounts : DOMAIN balance = 1..n
  BY DEF Typed, Opening
<1>2. n \in Nat /\ n < NumAccounts /\ NumAccounts \in Nat
  BY <1>1, BankAssumption DEF CreateAccount, Opened, Ids
<1>3. NextID = n + 1
  <2>1. Cardinality(1..n) = IF 1 > n THEN 0 ELSE n - 1 + 1
    BY <1>2, FS_Interval
  <2> QED
    BY <1>1, <1>2, <2>1 DEF NextID
<1>4. NextID \in Ids \ DOMAIN balance
  BY <1>1, <1>2, <1>3 DEF Ids
<1>5. /\ DOMAIN balance' = DOMAIN balance \union {NextID}
      /\ \A id \in DOMAIN balance' : balance'[id] = InitialBalance
  BY DEF CreateAccount, Typed, Opening
<1>6. DOMAIN balance' = 1..(n + 1) /\ n + 1 \in 0..NumAccounts
  BY <1>1, <1>2, <1>3, <1>5
<1> QED
  BY <1>4, <1>5, <1>6

Transfers == [from : Ids \union {0}, to : Ids \union {0}, amount : Amounts \union {0},
              newFrom : Int, newTo : Int]
Places == {"idle", "check", "readFrom", "readTo", "debit", "credit", "unlock"}

(* The steps that neither change a balance nor open an account.              *)
LEMMA OpeningStays ==
  ASSUME Opening, UNCHANGED <<balance, audit>>,
         \A t \in Tellers : pc'[t] # "idle" => pc[t] # "idle" \/ Opened,
         vpc' # "idle" => vpc # "idle" \/ Opened
  PROVE  Opening'
<1>1. \E n \in 0..NumAccounts : DOMAIN balance' = 1..n
  BY DEF Opening
<1>2. Opened' <=> Opened
  BY DEF Opened
<1> QED
  BY <1>1, <1>2 DEF Opening

LEMMA TypedTeller ==
  ASSUME Typed, NEW t \in Tellers, Teller(t) PROVE Typed'
<1>0. /\ TypeOK /\ Opening /\ Underway
      /\ tx \in [Tellers -> Transfers] /\ pc \in [Tellers -> Places]
  BY DEF Typed, TypeOK, Transfers, Places
<1> USE DEF Goto, vipVars
<1>1. CASE Begin(t)
  <2>1. PICK from \in Ids, to \in Ids, amount \in Amounts :
          tx' = [tx EXCEPT ![t] = [NoTransfer EXCEPT
                                     !.from = from, !.to = to, !.amount = amount]]
    BY <1>1 DEF Begin
  <2> DEFINE new == [NoTransfer EXCEPT !.from = from, !.to = to, !.amount = amount]
  <2>2. new \in Transfers /\ new.from = from /\ new.to = to /\ new.amount = amount
    <3>1. NoTransfer \in Transfers
      BY DEF NoTransfer, Transfers
    <3> QED
      BY <3>1 DEF Transfers
  <2> HIDE DEF new
  <2>3. tx' \in [Tellers -> Transfers]
    BY <1>0, <2>1, <2>2 DEF new
  <2>4. pc' \in [Tellers -> Places] /\ \A u \in Tellers \ {t} : pc'[u] = pc[u]
    BY <1>0, <1>1 DEF Begin, Places
  <2>5. writers' \subseteq Tellers /\ readers' \subseteq Tellers \union {"vip"}
    BY <1>0, <1>1 DEF Begin, LockTransfer, RLock, Lock, TypeOK
  <2>6. TypeOK'
    BY <1>0, <1>1, <2>3, <2>4, <2>5 DEF Begin, TypeOK, Transfers, Places
  <2>7. Opening'
    BY <1>0, <1>1, <2>4, OpeningStays DEF Begin
  <2>8. Underway'
    <3>1. tx'[t] = new /\ \A u \in Tellers \ {t} : tx'[u] = tx[u]
      BY <1>0, <2>1 DEF new
    <3> QED
      BY <1>0, <1>1, <2>2, <2>4, <3>1 DEF Begin, Underway
  <2> QED
    BY <2>6, <2>7, <2>8 DEF Typed
<1>2. CASE Check(t)
  <2>1. /\ pc' \in [Tellers -> Places]
        /\ \A u \in Tellers : pc'[u] # "idle" => pc[u] # "idle"
    BY <1>0, <1>2 DEF Check, Places
  <2>2. TypeOK'
    BY <1>0, <1>2, <2>1 DEF Check, TypeOK, Places
  <2>3. Opening'
    BY <1>0, <1>2, <2>1, OpeningStays DEF Check
  <2> QED
    BY <1>0, <1>2, <2>1, <2>2, <2>3 DEF Check, Underway, Typed
<1>3. CASE ReadFrom(t) \/ ReadTo(t)
  <2>1. /\ pc' \in [Tellers -> Places] /\ pc[t] # "idle"
        /\ \A u \in Tellers : pc'[u] # "idle" => pc[u] # "idle"
    BY <1>0, <1>3 DEF ReadFrom, ReadTo, Places
  <2>2. /\ balance[tx[t].from] - tx[t].amount \in Int
        /\ balance[tx[t].to] + tx[t].amount \in Int
    BY <2>1, OpenedFacts
  <2>3. /\ tx' \in [Tellers -> Transfers]
        /\ \A u \in Tellers : /\ tx'[u].from = tx[u].from /\ tx'[u].to = tx[u].to
                              /\ tx'[u].amount = tx[u].amount
    BY <1>0, <1>3, <2>2 DEF ReadFrom, ReadTo, Transfers
  <2>4. TypeOK'
    BY <1>0, <1>3, <2>1, <2>3 DEF ReadFrom, ReadTo, TypeOK, Places, Transfers
  <2>5. Opening'
    BY <1>0, <1>3, <2>1, OpeningStays DEF ReadFrom, ReadTo
  <2>6. Underway'
    BY <1>0, <1>3, <2>1, <2>3 DEF ReadFrom, ReadTo, Underway
  <2> QED
    BY <2>4, <2>5, <2>6 DEF Typed
<1>4. CASE Debit(t) \/ Credit(t)
  <2>1. /\ pc' \in [Tellers -> Places] /\ pc[t] # "idle"
        /\ \A u \in Tellers : pc'[u] # "idle" => pc[u] # "idle"
    BY <1>0, <1>4 DEF Debit, Credit, Places
  <2>2. tx[t].newFrom \in Int /\ tx[t].newTo \in Int
    BY <1>0 DEF Transfers
  <2>3. DOMAIN balance' = DOMAIN balance /\ \A id \in DOMAIN balance : balance'[id] \in Int
    BY <1>0, <1>4, <2>2 DEF Debit, Credit, TypeOK
  <2>4. TypeOK'
    BY <1>0, <1>4, <2>1, <2>3 DEF Debit, Credit, TypeOK, Places
  <2>5. Opening'
    <3>1. Opened /\ Opened'
      BY <2>1, <2>3, OpenedFacts DEF Opened
    <3>2. \E n \in 0..NumAccounts : DOMAIN balance' = 1..n
      BY <1>0, <2>3 DEF Opening
    <3> QED
      BY <3>1, <3>2 DEF Opening
  <2> QED
    BY <1>0, <1>4, <2>1, <2>4, <2>5 DEF Debit, Credit, Underway, Typed
<1>5. CASE End(t)
  <2>1. /\ pc' \in [Tellers -> Places]
        /\ \A u \in Tellers : pc'[u] # "idle" => pc[u] # "idle"
    BY <1>0, <1>5 DEF End, Places
  <2>2. done' \in [Tellers -> 0..MaxTransfers]
    <3>1. done[t] + 1 \in 0..MaxTransfers
      BY <1>0, <1>5, BankAssumption DEF End, Underway, TypeOK
    <3> QED
      BY <1>0, <1>5, <3>1 DEF End, TypeOK
  <2>3. writers' \subseteq Tellers /\ readers' \subseteq Tellers \union {"vip"}
    BY <1>0, <1>5 DEF End, Unlock, TypeOK
  <2>4. TypeOK'
    BY <1>0, <1>5, <2>1, <2>2, <2>3 DEF End, TypeOK, Places
  <2>5. Opening'
    BY <1>0, <1>5, <2>1, OpeningStays DEF End
  <2>6. Underway'
    <3>1. pc'[t] = "idle" /\ \A u \in Tellers \ {t} : done'[u] = done[u] /\ pc'[u] = pc[u]
      BY <1>0, <1>5 DEF End, TypeOK
    <3> QED
      BY <1>0, <1>5, <3>1 DEF End, Underway
  <2> QED
    BY <2>4, <2>5, <2>6 DEF Typed
<1> QED
  BY <1>1, <1>2, <1>3, <1>4, <1>5 DEF Teller

LEMMA TypedNext == Typed /\ [Next]_vars => Typed'
<1> SUFFICES ASSUME Typed, [Next]_vars PROVE Typed'
  OBVIOUS
<1>0. TypeOK /\ Opening /\ Underway
  BY DEF Typed
<1>1. CASE CreateAccount
  <2>1. TypeOK'
    <3>1. \A id \in DOMAIN balance' : balance'[id] \in Int
      BY <1>1, CreateFacts, OpenedFacts
    <3>2. DOMAIN balance' \subseteq Ids
      BY <1>0, <1>1, CreateFacts DEF TypeOK
    <3> QED
      BY <1>0, <1>1, <3>1, <3>2 DEF CreateAccount, TypeOK, tellerVars, vipVars
  <2>2. Opening'
    <3>1. ~Opened /\ UNCHANGED <<pc, vpc, audit>>
      BY <1>1 DEF CreateAccount, tellerVars, vipVars
    <3>2. (\A t \in Tellers : pc[t] = "idle") /\ vpc = "idle" /\ audit = NotYet
      BY <1>0, <3>1 DEF Opening
    <3> QED
      BY <1>1, <3>1, <3>2, CreateFacts DEF Opening
  <2>3. Underway'
    BY <1>0, <1>1 DEF CreateAccount, tellerVars, Underway
  <2> QED
    BY <2>1, <2>2, <2>3 DEF Typed
<1>2. CASE Reporter
  <2>1. /\ UNCHANGED <<build, balance, pc, tx, done, audit>>
        /\ vpc' # "idle" => vpc # "idle" \/ Opened
    BY <1>2 DEF Reporter, Tick, Scan, Scanned, PrintReport, StopReporter, tellerVars
  <2>2. writers' \subseteq Tellers /\ readers' \subseteq Tellers \union {"vip"}
    BY <1>0, <1>2 DEF Reporter, Tick, Scan, Scanned, PrintReport, StopReporter, RLock,
       Unlock, TypeOK
  <2>3. vip' \in [id : Ids \union {0}, balance : Int]
    <3>1. CASE UNCHANGED vip
      BY <1>0, <3>1 DEF TypeOK
    <3>2. CASE vpc = "scan" /\ lead # 0 /\ vip' = [id |-> lead, balance |-> balance[lead]]
      <4>1. lead \in Ids /\ balance[lead] \in Int
        BY <1>0, <3>2, OpenedFacts DEF TypeOK
      <4> QED
        BY <3>2, <4>1
    <3> QED
      BY <1>2, <3>1, <3>2 DEF Reporter, Tick, Scan, Scanned, PrintReport, StopReporter
  <2>4. /\ vpc' \in {"idle", "scan", "print", "gone"}
        /\ unseen' \subseteq Ids /\ lead' \in Ids \union {0}
    BY <1>0, <1>2 DEF Reporter, Tick, Scan, Scanned, PrintReport, StopReporter, TypeOK
  <2>5. TypeOK'
    BY <1>0, <2>1, <2>2, <2>3, <2>4 DEF TypeOK
  <2>6. Opening' /\ Underway'
    BY <1>0, <2>1, OpeningStays DEF Underway
  <2> QED
    BY <2>5, <2>6 DEF Typed
<1>3. CASE Audit
  <2>1. Opened /\ UNCHANGED <<build, balance, writers, readers, tellerVars, vipVars>>
    BY <1>3 DEF Audit
  <2>2. TypeOK' /\ Underway'
    BY <1>0, <2>1 DEF TypeOK, Underway, tellerVars, vipVars
  <2>3. Opening'
    BY <1>0, <2>1 DEF Opening, Opened, tellerVars, vipVars
  <2> QED
    BY <2>2, <2>3 DEF Typed
<1>4. ASSUME NEW t \in Tellers, Teller(t) PROVE Typed'
  BY <1>4, TypedTeller
<1>5. CASE UNCHANGED vars
  <2>1. TypeOK' /\ Underway'
    BY <1>0, <1>5 DEF TypeOK, Underway, vars, tellerVars, vipVars
  <2>2. Opening'
    BY <1>0, <1>5 DEF Opening, Opened, vars, tellerVars, vipVars
  <2> QED
    BY <2>1, <2>2 DEF Typed
<1> QED
  BY <1>1, <1>2, <1>3, <1>4, <1>5 DEF Next

-----------------------------------------------------------------------------
LEMMA SafeStays == [Next]_vars => (Safe' <=> Safe)
<1> SUFFICES ASSUME [Next]_vars PROVE build' = build
  BY DEF Safe
<1>1. CASE CreateAccount \/ Audit \/ UNCHANGED vars
  BY <1>1 DEF CreateAccount, Audit, vars
<1>2. CASE Reporter
  BY <1>2 DEF Reporter, Tick, Scan, Scanned, PrintReport, StopReporter
<1>3. ASSUME NEW t \in Tellers, Teller(t) PROVE build' = build
  BY <1>3 DEF Teller, Begin, Check, ReadFrom, ReadTo, Debit, Credit, End
<1> QED
  BY <1>1, <1>2, <1>3 DEF Next

(* A teller in a transfer is alone with the accounts.                        *)
LEMMA Alone ==
  ASSUME Typed, Locked, Safe, NEW t \in Tellers, pc[t] # "idle"
  PROVE  /\ writers = {t} /\ readers = {} /\ vpc # "scan"
         /\ \A u \in Tellers \ {t} : pc[u] = "idle"
<1>1. writers = {t}
  BY DEF Locked
<1>2. readers = {} /\ vpc # "scan"
  BY <1>1 DEF Locked
<1> QED
  BY <1>1, <1>2 DEF Locked

LEMMA LockedTeller ==
  ASSUME Typed, Locked, NEW t \in Tellers, Teller(t) PROVE Locked'
<1> SUFFICES ASSUME Safe PROVE Locked'
  BY DEF Teller, Begin, Check, ReadFrom, ReadTo, Debit, Credit, End, Locked, Safe
<1>0. pc \in [Tellers -> Places]
  BY DEF Typed, TypeOK, Places
<1> USE DEF Goto, vipVars
<1>1. CASE Begin(t)
  <2>1. writers = {} /\ readers = {} /\ writers' = {t} /\ readers' = {}
    BY <1>1 DEF Begin, LockTransfer, Lock, Safe
  <2>2. \A u \in Tellers : pc[u] = "idle"
    BY <2>1 DEF Locked
  <2>3. vpc # "scan" /\ vpc' = vpc
    BY <1>1, <2>1 DEF Begin, Locked
  <2>4. pc'[t] # "idle" /\ \A u \in Tellers \ {t} : pc'[u] = "idle"
    BY <1>0, <1>1, <2>2 DEF Begin
  <2> QED
    BY <2>1, <2>3, <2>4 DEF Locked
<1>2. CASE Check(t) \/ ReadFrom(t) \/ ReadTo(t) \/ Debit(t) \/ Credit(t)
  <2>1. UNCHANGED <<writers, readers, vpc, build>>
    BY <1>2 DEF Check, ReadFrom, ReadTo, Debit, Credit
  <2>2. \A u \in Tellers : pc'[u] = "idle" <=> pc[u] = "idle"
    BY <1>0, <1>2 DEF Check, ReadFrom, ReadTo, Debit, Credit
  <2> QED
    BY <2>1, <2>2 DEF Locked, Safe
<1>3. CASE End(t)
  <2>1. /\ writers = {t} /\ readers = {} /\ vpc # "scan"
        /\ \A u \in Tellers \ {t} : pc[u] = "idle"
    BY <1>3, Alone DEF End
  <2>2. writers' = {} /\ readers' = {} /\ vpc' = vpc
    BY <1>3, <2>1 DEF End, Unlock
  <2>3. \A u \in Tellers : pc'[u] = "idle"
    BY <1>0, <1>3, <2>1 DEF End
  <2> QED
    BY <2>1, <2>2, <2>3 DEF Locked
<1> QED
  BY <1>1, <1>2, <1>3 DEF Teller

LEMMA LockedNext == Typed /\ Locked /\ [Next]_vars => Locked'
<1> SUFFICES ASSUME Typed, Locked, [Next]_vars PROVE Locked'
  OBVIOUS
<1>1. CASE CreateAccount \/ Audit \/ UNCHANGED vars
  BY <1>1 DEF CreateAccount, Audit, vars, tellerVars, vipVars, Locked, Safe
<1>2. CASE Tick
  <2>1. writers = {} /\ readers' = readers \union {"vip"} /\ UNCHANGED <<writers, pc, build>>
    BY <1>2 DEF Tick, RLock, tellerVars
  <2>2. vpc = "idle" /\ vpc' = "scan"
    BY <1>2 DEF Tick
  <2> QED
    BY <2>1, <2>2 DEF Locked, Safe
<1>3. CASE Scan
  BY <1>3 DEF Scan, tellerVars, Locked, Safe
<1>4. CASE Scanned
  <2>1. /\ vpc = "scan" /\ vpc' # "scan" /\ UNCHANGED <<pc, build>>
        /\ writers' = writers \ {"vip"} /\ readers' = readers \ {"vip"}
    BY <1>4 DEF Scanned, Unlock, tellerVars
  <2>2. "vip" \notin writers
    BY BankAssumption DEF Typed, TypeOK
  <2> QED
    BY <2>1, <2>2 DEF Locked, Safe
<1>5. CASE PrintReport \/ StopReporter
  BY <1>5 DEF PrintReport, StopReporter, tellerVars, Locked, Safe
<1> QED
  BY <1>1, <1>2, <1>3, <1>4, <1>5, LockedTeller DEF Next, Reporter

-----------------------------------------------------------------------------
LEMMA FreshTeller ==
  ASSUME Typed, Locked, Fresh, NoOverdraft, NEW t \in Tellers, Teller(t), Safe
  PROVE  Fresh' /\ NoOverdraft'
<1>0. /\ pc \in [Tellers -> Places] /\ tx \in [Tellers -> Transfers]
      /\ balance \in [DOMAIN balance -> Int]
  BY DEF Typed, TypeOK, Places, Transfers
<1> USE DEF Goto
<1>1. ASSUME pc[t] # "idle"
      PROVE  /\ \A u \in Tellers \ {t} : pc[u] = "idle"
             /\ tx[t].from \in DOMAIN balance /\ tx[t].to \in DOMAIN balance
             /\ tx[t].amount \in Nat
             /\ balance[tx[t].from] \in Int /\ balance[tx[t].to] \in Int
             /\ balance[tx[t].from] >= 0 /\ balance[tx[t].to] >= 0
             /\ tx[t].newFrom \in Int /\ tx[t].newTo \in Int
  BY <1>0, <1>1, Alone, OpenedFacts DEF NoOverdraft, Transfers
<1>2. CASE Begin(t)
  <2>1. writers = {}
    BY <1>2 DEF Begin, LockTransfer, Lock, Safe
  <2>2. \A u \in Tellers : pc[u] = "idle"
    BY <2>1 DEF Locked
  <2>3. pc'[t] = "check" /\ \A u \in Tellers \ {t} : pc'[u] = "idle"
    BY <1>0, <1>2, <2>2 DEF Begin
  <2> QED
    BY <1>2, <2>3 DEF Begin, Fresh, NoOverdraft, Safe
<1>3. CASE Check(t)
  <2>1. pc[t] # "idle" /\ UNCHANGED <<balance, tx, build>>
    BY <1>3 DEF Check
  <2>2. /\ pc'[t] \in {"readFrom", "unlock"} /\ \A u \in Tellers \ {t} : pc'[u] = "idle"
        /\ pc'[t] = "readFrom" => tx[t].from # tx[t].to /\ HasFunds(t)
    BY <1>0, <1>1, <1>3, <2>1 DEF Check
  <2> QED
    BY <2>1, <2>2 DEF Fresh, NoOverdraft, Safe, HasFunds
<1>4. CASE ReadFrom(t)
  <2>1. pc[t] = "readFrom" /\ UNCHANGED <<balance, build>>
    BY <1>4 DEF ReadFrom
  <2>2. pc'[t] = "readTo" /\ \A u \in Tellers \ {t} : pc'[u] = "idle"
    BY <1>0, <1>1, <1>4, <2>1 DEF ReadFrom
  <2>3. /\ tx'[t].newFrom = balance[tx[t].from] - tx[t].amount
        /\ tx'[t].from = tx[t].from /\ tx'[t].to = tx[t].to /\ tx'[t].amount = tx[t].amount
    BY <1>0, <1>4 DEF ReadFrom, Transfers
  <2>4. balance[tx[t].from] >= tx[t].amount /\ tx[t].from # tx[t].to
    BY <2>1 DEF Fresh
  <2>5. tx'[t].newFrom >= 0
    BY <1>1, <2>1, <2>3, <2>4
  <2> QED
    BY <2>1, <2>2, <2>3, <2>4, <2>5 DEF Fresh, NoOverdraft, Safe
<1>5. CASE ReadTo(t)
  <2>1. pc[t] = "readTo" /\ UNCHANGED <<balance, build>>
    BY <1>5 DEF ReadTo
  <2>2. pc'[t] = "debit" /\ \A u \in Tellers \ {t} : pc'[u] = "idle"
    BY <1>0, <1>1, <1>5, <2>1 DEF ReadTo
  <2>3. /\ tx'[t].newTo = balance[tx[t].to] + tx[t].amount /\ tx'[t].newFrom = tx[t].newFrom
        /\ tx'[t].from = tx[t].from /\ tx'[t].to = tx[t].to /\ tx'[t].amount = tx[t].amount
    BY <1>0, <1>5 DEF ReadTo, Transfers
  <2>4. /\ tx[t].newFrom = balance[tx[t].from] - tx[t].amount /\ tx[t].newFrom >= 0
        /\ tx[t].from # tx[t].to
    BY <2>1 DEF Fresh
  <2> QED
    BY <2>1, <2>2, <2>3, <2>4 DEF Fresh, NoOverdraft, Safe
<1>6. CASE Debit(t)
  <2>1. pc[t] = "debit" /\ UNCHANGED <<tx, build>>
    BY <1>6 DEF Debit
  <2>2. pc'[t] = "credit" /\ \A u \in Tellers \ {t} : pc'[u] = "idle"
    BY <1>0, <1>1, <1>6, <2>1 DEF Debit
  <2>3. /\ tx[t].newFrom >= 0 /\ tx[t].from # tx[t].to
        /\ tx[t].newTo = balance[tx[t].to] + tx[t].amount
    BY <2>1 DEF Fresh
  <2>4. /\ DOMAIN balance' = DOMAIN balance
        /\ \A id \in DOMAIN balance :
             balance'[id] = IF id = tx[t].from THEN tx[t].newFrom ELSE balance[id]
    BY <1>6 DEF Debit
  <2>5. Fresh'
    BY <1>1, <2>1, <2>2, <2>3, <2>4 DEF Fresh, Safe
  <2> QED
    BY <2>1, <2>3, <2>4, <2>5 DEF NoOverdraft, Safe
<1>7. CASE Credit(t)
  <2>1. pc[t] = "credit" /\ UNCHANGED <<tx, build>>
    BY <1>7 DEF Credit
  <2>2. pc'[t] = "unlock" /\ \A u \in Tellers \ {t} : pc'[u] = "idle"
    BY <1>0, <1>1, <1>7, <2>1 DEF Credit
  <2>3. tx[t].newTo = balance[tx[t].to] + tx[t].amount
    BY <2>1 DEF Fresh
  <2>4. /\ DOMAIN balance' = DOMAIN balance
        /\ \A id \in DOMAIN balance :
             balance'[id] = IF id = tx[t].to THEN tx[t].newTo ELSE balance[id]
    BY <1>7 DEF Credit
  <2>5. tx[t].newTo >= 0
    BY <1>1, <2>1, <2>3
  <2>6. Fresh'
    BY <2>2 DEF Fresh
  <2> QED
    BY <2>1, <2>4, <2>5, <2>6 DEF NoOverdraft, Safe
<1>8. CASE End(t)
  <2>1. pc[t] # "idle" /\ UNCHANGED <<balance, build>>
    BY <1>8 DEF End
  <2>2. \A u \in Tellers : pc'[u] = "idle"
    BY <1>0, <1>1, <1>8, <2>1 DEF End
  <2> QED
    BY <2>1, <2>2 DEF Fresh, NoOverdraft, Safe
<1> QED
  BY <1>2, <1>3, <1>4, <1>5, <1>6, <1>7, <1>8 DEF Teller

LEMMA FreshNext ==
  Typed /\ Locked /\ Fresh /\ NoOverdraft /\ [Next]_vars => Fresh' /\ NoOverdraft'
<1> SUFFICES ASSUME Typed, Locked, Fresh, NoOverdraft, [Next]_vars, Safe
             PROVE  Fresh' /\ NoOverdraft'
  BY SafeStays DEF Fresh, NoOverdraft
<1>1. CASE CreateAccount
  <2>1. \A t \in Tellers : pc'[t] = "idle"
    BY <1>1 DEF CreateAccount, tellerVars, Typed, Opening
  <2>2. \A id \in DOMAIN balance' : balance'[id] >= 0
    BY <1>1, CreateFacts, OpenedFacts
  <2> QED
    BY <2>1, <2>2 DEF Fresh, NoOverdraft
<1>2. CASE Reporter \/ Audit \/ UNCHANGED vars
  <2>1. UNCHANGED <<build, balance, pc, tx>>
    BY <1>2 DEF Reporter, Tick, Scan, Scanned, PrintReport, StopReporter, Audit, vars,
       tellerVars
  <2> QED
    BY <2>1 DEF Fresh, NoOverdraft, Safe
<1> QED
  BY <1>1, <1>2, FreshTeller DEF Next

-----------------------------------------------------------------------------
(* A scan of the reporter sees no transfer under way.                        *)
LEMMA LeadsNext == Typed /\ Locked /\ Leads /\ [Next]_vars => Leads'
<1> SUFFICES ASSUME Typed, Locked, Leads, [Next]_vars PROVE Leads'
  OBVIOUS
<1>1. CASE CreateAccount
  <2>1. vpc' # "scan"
    BY <1>1 DEF CreateAccount, vipVars, Typed, Opening
  <2> QED
    BY <2>1 DEF Leads
<1>2. CASE Tick
  BY <1>2 DEF Tick, Leads
<1>3. CASE Scan
  <2>1. PICK id \in unseen :
          /\ lead' = IF lead = 0 \/ balance[id] > balance[lead] THEN id ELSE lead
          /\ unseen' = unseen \ {id}
    BY <1>3 DEF Scan
  <2>2. vpc = "scan" /\ vpc' = "scan" /\ UNCHANGED <<balance, build>>
    BY <1>3 DEF Scan
  <2>3. unseen \subseteq Ids /\ 0 \notin Ids /\ \A i \in Ids : balance[i] \in Int
    BY <2>2, OpenedFacts DEF Typed, TypeOK, Ids
  <2>4. lead # 0 => lead \in Ids \ unseen
    BY <2>2 DEF Leads
  <2>5. lead' # 0 /\ lead' \in Ids \ unseen'
    BY <2>1, <2>3, <2>4
  <2>6. ASSUME Safe, NEW i \in Ids \ unseen' PROVE balance[i] <= balance[lead']
    <3>1. CASE i = id
      BY <2>1, <2>3, <2>4, <3>1
    <3>2. CASE i # id
      <4>1. i \in Ids \ unseen
        BY <2>1, <3>2
      <4>2. lead # 0 /\ balance[i] <= balance[lead]
        BY <2>2, <2>6, <4>1 DEF Leads
      <4> QED
        BY <2>1, <2>3, <2>4, <4>1, <4>2
    <3> QED
      BY <3>1, <3>2
  <2> QED
    BY <2>2, <2>5, <2>6 DEF Leads, Safe
<1>4. CASE Scanned \/ PrintReport \/ StopReporter
  <2>1. vpc' # "scan"
    BY <1>4 DEF Scanned, PrintReport, StopReporter
  <2> QED
    BY <2>1 DEF Leads
<1>5. CASE Audit \/ UNCHANGED vars
  BY <1>5 DEF Audit, vars, vipVars, Leads, Safe
<1>6. ASSUME NEW t \in Tellers, Teller(t) PROVE Leads'
  <2>1. UNCHANGED <<build, vpc, unseen, lead>>
    BY <1>6 DEF Teller, Begin, Check, ReadFrom, ReadTo, Debit, Credit, End, vipVars
  <2>2. ASSUME Safe, vpc = "scan" PROVE balance' = balance
    <3>1. ~ (Debit(t) \/ Credit(t))
      BY <2>2, Alone DEF Debit, Credit, Goto
    <3> QED
      BY <1>6, <3>1 DEF Teller, Begin, Check, ReadFrom, ReadTo, End
  <2> QED
    BY <2>1, <2>2 DEF Leads, Safe
<1> QED
  BY <1>1, <1>2, <1>3, <1>4, <1>5, <1>6 DEF Next, Reporter

-----------------------------------------------------------------------------
(* What Settled is, for the variables before and after a step alike.         *)
SettledAt(b, ts, p, x) ==
  [id \in DOMAIN b |->
     IF \E t \in ts : p[t] = "credit" /\ x[t].to = id
       THEN x[CHOOSE t \in ts : p[t] = "credit" /\ x[t].to = id].newTo
       ELSE b[id]]

LEMMA SettledIs == Settled = SettledAt(balance, writers, pc, tx)
                   /\ Settled' = SettledAt(balance', writers', pc', tx')
  BY DEF Settled, SettledAt

LEMMA NobodyCredits ==
  ASSUME NEW b, NEW ts, NEW p, NEW x, \A t \in ts : p[t] # "credit"
  PROVE  SettledAt(b, ts, p, x) = [id \in DOMAIN b |-> b[id]]
  BY DEF SettledAt

LEMMA OneCredits ==
  ASSUME NEW b, NEW t, NEW p, NEW x, p[t] = "credit"
  PROVE  SettledAt(b, {t}, p, x)
           = [id \in DOMAIN b |-> IF id = x[t].to THEN x[t].newTo ELSE b[id]]
<1>1. \A id : (\E u \in {t} : p[u] = "credit" /\ x[u].to = id) <=> id = x[t].to
  OBVIOUS
<1>2. ASSUME NEW id, id = x[t].to
      PROVE  (CHOOSE u \in {t} : p[u] = "credit" /\ x[u].to = id) = t
  BY <1>2
<1> QED
  BY <1>1, <1>2 DEF SettledAt

(* What is settled changes with the debit of a transfer, and only then: the  *)
(* account the money goes to is then as good as credited.                    *)
LEMMA SettledTeller ==
  ASSUME Typed, Locked, Fresh, NEW t \in Tellers, Teller(t), Safe
  PROVE  /\ ~Debit(t) => Settled' = Settled
         /\ Debit(t) =>
              /\ tx[t].from # tx[t].to /\ tx[t].from \in Ids /\ tx[t].to \in Ids
              /\ Settled = balance /\ DOMAIN balance = Ids
              /\ balance[tx[t].from] >= tx[t].amount
              /\ Settled' = [balance EXCEPT ![tx[t].from] = @ - tx[t].amount,
                                            ![tx[t].to] = @ + tx[t].amount]
<1>0. /\ pc \in [Tellers -> Places] /\ tx \in [Tellers -> Transfers]
      /\ balance \in [DOMAIN balance -> Int]
  BY DEF Typed, TypeOK, Places, Transfers
<1> USE DEF Goto
<1>1. ASSUME ~Debit(t), ~Credit(t) PROVE Settled' = Settled
  <2>1. balance' = balance /\ pc[t] # "credit" /\ pc'[t] # "credit"
    BY <1>0, <1>1 DEF Teller, Begin, Check, ReadFrom, ReadTo, End
  <2>2. \A u \in Tellers \ {t} : pc[u] # "credit" /\ pc'[u] # "credit"
    <3>1. CASE pc[t] # "idle"
      <4>1. \A u \in Tellers \ {t} : pc[u] = "idle"
        BY <3>1, Alone
      <4> QED
        BY <1>0, <1>1, <4>1 DEF Teller, Begin, Check, ReadFrom, ReadTo, End
    <3>2. CASE pc[t] = "idle"
      <4>1. Begin(t)
        BY <1>1, <3>2 DEF Teller, Check, ReadFrom, ReadTo, End
      <4>2. writers = {}
        BY <4>1 DEF Begin, LockTransfer, Lock, Safe
      <4>3. \A u \in Tellers : pc[u] = "idle"
        BY <4>2 DEF Locked
      <4> QED
        BY <1>0, <4>1, <4>3 DEF Begin
    <3> QED
      BY <3>1, <3>2
  <2>3. writers \subseteq Tellers /\ writers' \subseteq Tellers
    BY TypedTeller DEF Typed, TypeOK
  <2>4. /\ \A u \in writers : pc[u] # "credit"
        /\ \A u \in writers' : pc'[u] # "credit"
    BY <2>1, <2>2, <2>3
  <2> QED
    BY <2>1, <2>4, SettledIs, NobodyCredits
<1>2. CASE Credit(t)
  <2>1. pc[t] = "credit" /\ writers = {t} /\ writers' = {t} /\ tx' = tx
    BY <1>2, Alone DEF Credit
  <2>2. pc'[t] # "credit"
    BY <1>0, <1>2 DEF Credit
  <2>3. Settled = [id \in DOMAIN balance |->
                     IF id = tx[t].to THEN tx[t].newTo ELSE balance[id]]
    BY <2>1, SettledIs, OneCredits
  <2>4. Settled' = [id \in DOMAIN balance' |-> balance'[id]]
    BY <2>1, <2>2, SettledIs, NobodyCredits
  <2>5. balance' = [id \in DOMAIN balance |->
                      IF id = tx[t].to THEN tx[t].newTo ELSE balance[id]]
    BY <1>2 DEF Credit
  <2>6. Settled' = balance'
    BY <2>4, <2>5
  <2>7. ~Debit(t)
    BY <2>1 DEF Debit
  <2> QED
    BY <2>3, <2>5, <2>6, <2>7
<1>3. CASE Debit(t)
  <2>1. pc[t] = "debit" /\ writers = {t} /\ writers' = {t} /\ tx' = tx
    BY <1>3, Alone DEF Debit
  <2>2. pc'[t] = "credit"
    BY <1>0, <1>3 DEF Debit
  <2>3. /\ tx[t].from # tx[t].to /\ tx[t].newFrom = balance[tx[t].from] - tx[t].amount
        /\ tx[t].newFrom >= 0 /\ tx[t].newTo = balance[tx[t].to] + tx[t].amount
    BY <2>1 DEF Fresh
  <2>4. /\ tx[t].from \in Ids /\ tx[t].to \in Ids /\ DOMAIN balance = Ids
        /\ balance[tx[t].from] \in Int /\ tx[t].amount \in Nat
    BY <2>1, OpenedFacts
  <2>5. Settled = balance
    BY <1>0, <2>1, SettledIs, NobodyCredits
  <2>6. Settled' = [id \in DOMAIN balance' |->
                      IF id = tx[t].to THEN tx[t].newTo ELSE balance'[id]]
    BY <2>1, <2>2, SettledIs, OneCredits
  <2>7. balance' = [balance EXCEPT ![tx[t].from] = tx[t].newFrom]
    BY <1>3 DEF Debit
  <2>8. Settled' = [balance EXCEPT ![tx[t].from] = @ - tx[t].amount,
                                   ![tx[t].to] = @ + tx[t].amount]
    BY <2>3, <2>4, <2>6, <2>7
  <2>9. balance[tx[t].from] >= tx[t].amount
    BY <2>3, <2>4
  <2> QED
    BY <1>3, <2>3, <2>4, <2>5, <2>8, <2>9
<1> QED
  BY <1>1, <1>2, <1>3

(* The reporter and main's audit leave what is settled alone.                *)
LEMMA SettledStays ==
  ASSUME Typed, Reporter \/ Audit \/ UNCHANGED vars
  PROVE  Settled' = Settled /\ UNCHANGED <<balance, writers>>
<1>1. UNCHANGED <<balance, pc, tx>>
  BY DEF Reporter, Tick, Scan, Scanned, PrintReport, StopReporter, Audit, vars, tellerVars
<1>2. "vip" \notin writers
  BY BankAssumption DEF Typed, TypeOK
<1>3. writers' = writers
  BY <1>2 DEF Reporter, Tick, Scan, Scanned, PrintReport, StopReporter, Audit, vars, RLock,
     Unlock
<1> QED
  BY <1>1, <1>3, SettledIs

(* main opens the accounts before anybody credits one.                       *)
LEMMA SettledCreate ==
  ASSUME Typed, CreateAccount
  PROVE  Settled = balance /\ Settled' = balance'
<1>1. \A t \in Tellers : pc[t] = "idle" /\ pc'[t] = "idle"
  BY DEF CreateAccount, tellerVars, Typed, Opening
<1>2. writers \subseteq Tellers /\ writers' = writers
  BY DEF CreateAccount, Typed, TypeOK
<1>3. /\ Settled = [id \in DOMAIN balance |-> balance[id]]
      /\ Settled' = [id \in DOMAIN balance' |-> balance'[id]]
  BY <1>1, <1>2, SettledIs, NobodyCredits
<1>4. balance = [id \in DOMAIN balance |-> balance[id]]
  BY DEF Typed, TypeOK
<1>5. balance' = [id \in DOMAIN balance' |-> balance'[id]]
  BY DEF CreateAccount
<1> QED
  BY <1>3, <1>4, <1>5

(* With nobody in a transfer, what is settled is what there is.              *)
LEMMA SettledBetween ==
  ASSUME Typed, writers = {} PROVE Settled = balance
<1>1. Settled = [id \in DOMAIN balance |-> balance[id]]
  BY SettledIs, NobodyCredits
<1> QED
  BY <1>1 DEF Typed, TypeOK

LEMMA AddsUpNext == Inv /\ [Next]_vars => SettledAddsUp'
<1> SUFFICES ASSUME Inv, [Next]_vars, Safe PROVE SettledAddsUp'
  BY SafeStays DEF SettledAddsUp
<1>0. /\ SumFunction(Settled) = Cardinality(DOMAIN balance) * InitialBalance
      /\ audit # NotYet => audit = <<0>>
  BY DEF Inv, SettledAddsUp
<1>1. CASE CreateAccount
  <2>1. audit' = NotYet
    BY <1>1 DEF CreateAccount, Inv, Typed, Opening
  <2>2. IsSummable(balance') /\ \A id \in DOMAIN balance' : balance'[id] = InitialBalance
    <3>1. IsFiniteSet(DOMAIN balance')
      BY <1>1, CreateFacts, OpenedFacts, FS_AddElement DEF Inv, IsSummable
    <3> QED
      BY <1>1, <3>1, CreateFacts, OpenedFacts DEF Inv, IsSummable
  <2>3. SumFunction(balance') = Cardinality(DOMAIN balance') * InitialBalance
    BY <2>2, SumOfEqual, BankAssumption
  <2> QED
    BY <1>1, <2>1, <2>3, SettledCreate DEF Inv, SettledAddsUp
<1>2. CASE Reporter \/ UNCHANGED vars
  <2>1. audit' = audit
    BY <1>2 DEF Reporter, Tick, Scan, Scanned, PrintReport, StopReporter, vars
  <2> QED
    BY <1>0, <1>2, <2>1, SettledStays DEF Inv, SettledAddsUp
<1>3. CASE Audit
  <2>1. Settled = balance
    BY <1>3, SettledBetween DEF Audit, Inv
  <2>2. Cardinality(DOMAIN balance) = NumAccounts /\ Expected \in Int
    BY <1>3, OpenedFacts DEF Audit, Opened, Inv, Expected
  <2>3. SumFunction(balance) - Expected = 0
    BY <1>0, <2>1, <2>2 DEF Expected
  <2>4. audit' = <<0>>
    BY <1>3, <2>3 DEF Audit, Total
  <2> QED
    BY <1>0, <1>3, <2>4, SettledStays DEF Inv, SettledAddsUp
<1>4. ASSUME NEW t \in Tellers, Teller(t) PROVE SettledAddsUp'
  <2>1. audit' = audit /\ DOMAIN balance' = DOMAIN balance
    BY <1>4 DEF Teller, Begin, Check, ReadFrom, ReadTo, Debit, Credit, End
  <2>2. CASE ~Debit(t)
    BY <1>0, <1>4, <2>1, <2>2, SettledTeller DEF Inv, SettledAddsUp
  <2>3. CASE Debit(t)
    <3> DEFINE from == tx[t].from
               to == tx[t].to
               amount == tx[t].amount
    <3>1. /\ from # to /\ from \in DOMAIN balance /\ to \in DOMAIN balance
          /\ Settled = balance
          /\ Settled' = [balance EXCEPT ![from] = @ - amount, ![to] = @ + amount]
      BY <1>4, <2>3, SettledTeller DEF Inv
    <3>2. amount \in Int /\ IsSummable(balance)
      BY <2>3, OpenedFacts DEF Debit, Goto, Inv
    <3> HIDE DEF from, to, amount
    <3>3. ASSUME NEW c, c = [balance EXCEPT ![from] = @ - amount, ![to] = @ + amount]
          PROVE  SumFunction(c) = SumFunction(balance)
      <4>1. /\ DOMAIN c = DOMAIN balance
            /\ c[from] = balance[from] - amount /\ c[to] = balance[to] + amount
            /\ \A id \in DOMAIN balance \ {from, to} : c[id] = balance[id]
        BY <3>1, <3>3
      <4> QED
        BY <3>1, <3>2, <4>1, SumOfMove
    <3>4. SumFunction(Settled') = SumFunction(balance)
      BY <3>1, <3>3
    <3> QED
      BY <1>0, <2>1, <3>1, <3>4 DEF SettledAddsUp
  <2> QED
    BY <2>2, <2>3
<1> QED
  BY <1>1, <1>2, <1>3, <1>4 DEF Next

LEMMA InvInit == Init => Inv
<1> SUFFICES ASSUME Init PROVE Inv
  OBVIOUS
<1>1. Typed
  BY TypedInit
<1>2. Locked /\ Fresh /\ NoOverdraft /\ Leads
  BY DEF Init, Locked, Fresh, NoOverdraft, Leads
<1>3. SettledAddsUp
  <2>1. Settled = balance /\ IsSummable(balance) /\ DOMAIN balance = {}
    BY <1>1, SettledBetween, OpenedFacts DEF Init
  <2>2. SumFunction(balance) = Cardinality(DOMAIN balance) * InitialBalance
    BY <2>1, SumOfEqual, BankAssumption
  <2> QED
    BY <2>1, <2>2 DEF Init, SettledAddsUp
<1> QED
  BY <1>1, <1>2, <1>3 DEF Inv

LEMMA Invariance == Spec => []Inv
<1>1. Inv /\ [Next]_vars => Inv'
  BY TypedNext, LockedNext, FreshNext, LeadsNext, AddsUpNext DEF Inv
<1> QED
  BY InvInit, <1>1, PTL DEF Spec

-----------------------------------------------------------------------------
(* The variables have their types, in both builds.                           *)
THEOREM TypeCorrect == Spec => []TypeOK
<1>1. Inv => TypeOK
  BY DEF Inv, Typed
<1> QED
  BY Invariance, <1>1, PTL

(* Transfers move money, they never mint it: whatever the number of tellers  *)
(* and accounts, the audit at the end of main finds no difference, and       *)
(* neither would one between any two transfers (main.go:60-86, 198-206).     *)
THEOREM BooksAlwaysBalance == Spec => []BooksBalance
<1>1. Inv => BooksBalance
  BY SettledBetween DEF Inv, SettledAddsUp, BooksBalance, Total
<1> QED
  BY Invariance, <1>1, PTL

(* A transfer never overdraws the account it takes the money from: the funds *)
(* it checked are still there when it debits (main.go:70-84).                *)
THEOREM NeverOverdrawn == Spec => []NoOverdraft
<1>1. Inv => NoOverdraft
  BY DEF Inv
<1> QED
  BY Invariance, <1>1, PTL

(* No two goroutines are ever about to touch the same balance, one of them   *)
(* to write it ("safe for concurrent use", main.go:17-18).                   *)
THEOREM RaceFree == Spec => []NoDataRace
<1>1. Inv => NoDataRace
  <2> SUFFICES ASSUME Inv, Safe, NEW t \in Tellers
               PROVE  /\ Writes(t) \intersect ReporterReads = {}
                      /\ \A u \in Tellers \ {t} :
                           Writes(t) \intersect (Writes(u) \union Reads(u)) = {}
    BY DEF NoDataRace
  <2>1. CASE Writes(t) = {}
    BY <2>1
  <2>2. CASE Writes(t) # {}
    <3>1. pc[t] # "idle"
      BY <2>2 DEF Writes
    <3>2. vpc # "scan" /\ \A u \in Tellers \ {t} : pc[u] = "idle"
      BY <3>1, Alone DEF Inv
    <3>3. ReporterReads = {}
      BY <3>2 DEF ReporterReads, FollowsPointer, Safe
    <3>4. \A u \in Tellers \ {t} : Writes(u) = {} /\ Reads(u) = {}
      BY <3>2 DEF Writes, Reads
    <3> QED
      BY <3>3, <3>4
  <2> QED
    BY <2>1, <2>2
<1> QED
  BY Invariance, <1>1, PTL

(* Every transfer takes effect at one moment, its debit, and every VIP       *)
(* report is true of one moment: the bank implements AtomicBank.             *)
LEMMA AtomicInit == Init => Atomic!Init
<1> SUFFICES ASSUME Init PROVE Atomic!Init
  OBVIOUS
<1>1. Settled = balance
  BY TypedInit, SettledBetween DEF Init
<1> QED
  BY <1>1 DEF Init, Atomic!Init, NoReport, Atomic!NoReport

LEMMA AtomicNext == Inv /\ [Next]_vars => [Safe => Atomic!Next]_(Atomic!vars)
<1> SUFFICES ASSUME Inv, [Next]_vars, Safe PROVE [Atomic!Next]_(Atomic!vars)
  OBVIOUS
<1> USE DEF Atomic!vars
<1>1. CASE CreateAccount
  <2>1. /\ Settled = balance /\ Settled' = balance' /\ vip' = vip
        /\ NextID \in 1..NumAccounts /\ NextID \notin DOMAIN balance
    BY <1>1, SettledCreate, CreateFacts DEF CreateAccount, vipVars, Inv, Ids
  <2>2. Atomic!Open(NextID)
    BY <1>1, <2>1 DEF CreateAccount, Atomic!Open
  <2> QED
    BY <2>1, <2>2 DEF Atomic!Next
<1>2. CASE Scanned /\ lead # 0
  <2>1. /\ vpc = "scan" /\ unseen = {} /\ vip' = [id |-> lead, balance |-> balance[lead]]
    BY <1>2 DEF Scanned
  <2>2. writers = {} /\ DOMAIN balance = Ids
    BY <2>1, OpenedFacts DEF Inv, Locked
  <2>3. Settled = balance /\ Settled' = Settled
    BY <1>2, <2>2, SettledBetween, SettledStays DEF Inv, Reporter
  <2>4. lead \in Ids /\ \A id \in Ids : balance[id] <= balance[lead]
    BY <1>2, <2>1 DEF Inv, Leads
  <2>5. Atomic!Report(lead)
    BY <2>1, <2>2, <2>3, <2>4 DEF Atomic!Report
  <2> QED
    BY <2>2, <2>3, <2>4, <2>5 DEF Atomic!Next
<1>3. CASE (Reporter /\ ~(Scanned /\ lead # 0)) \/ Audit \/ UNCHANGED vars
  <2>1. vip' = vip
    BY <1>3 DEF Reporter, Tick, Scan, Scanned, PrintReport, StopReporter, Audit, vars,
       vipVars
  <2> QED
    BY <1>3, <2>1, SettledStays DEF Inv
<1>4. ASSUME NEW t \in Tellers, Teller(t) PROVE [Atomic!Next]_(Atomic!vars)
  <2>1. vip' = vip
    BY <1>4 DEF Teller, Begin, Check, ReadFrom, ReadTo, Debit, Credit, End, vipVars
  <2>2. CASE ~Debit(t)
    BY <1>4, <2>1, <2>2, SettledTeller DEF Inv
  <2>3. CASE Debit(t)
    <3>1. /\ tx[t].from # tx[t].to /\ balance[tx[t].from] >= tx[t].amount
          /\ tx[t].from \in DOMAIN balance /\ tx[t].to \in DOMAIN balance
          /\ Settled = balance
          /\ Settled' = [balance EXCEPT ![tx[t].from] = @ - tx[t].amount,
                                        ![tx[t].to] = @ + tx[t].amount]
      BY <1>4, <2>3, SettledTeller DEF Inv
    <3>2. tx[t].amount \in Amounts
      BY <2>3, OpenedFacts DEF Debit, Goto, Inv
    <3>3. Atomic!Move(tx[t].from, tx[t].to, tx[t].amount)
      BY <2>1, <3>1 DEF Atomic!Move
    <3> QED
      BY <3>1, <3>2, <3>3 DEF Atomic!Next
  <2> QED
    BY <2>2, <2>3
<1> QED
  BY <1>1, <1>2, <1>3, <1>4 DEF Next

THEOREM ImplementsAtomicBank == Spec => Linearizable
  BY Invariance, AtomicInit, AtomicNext, PTL DEF Spec, Linearizable

-----------------------------------------------------------------------------
(* The service's cache and metrics.  A key is its owner's alone.             *)
LEMMA KeyFacts ==
  /\ \A k \in Keys : k[1] \in Users /\ k[2] \in Nat /\ k = <<k[1], k[2]>>
  /\ \A k \in Keys : k[1] = Verifier => k[2] \in 1..VerifyKeys
  /\ \A i \in 1..VerifyKeys : <<Verifier, i>> \in Keys
  /\ \A w \in Workers : <<w, 1>> \in Keys /\ w # Verifier /\ w \in Users
  /\ Verifier \in Users /\ VerifyKeys \in Nat \ {0}
<1>1. /\ VerifyKeys \in Nat \ {0} /\ PerWorker \in Nat \ {0} /\ Verifier \notin Workers
  BY ServiceMapsAssumption
<1>2. ASSUME NEW k \in Workers \X (1..PerWorker)
      PROVE  k[1] \in Workers /\ k[2] \in Nat /\ k = <<k[1], k[2]>>
  BY <1>1
<1>3. ASSUME NEW k \in {Verifier} \X (1..VerifyKeys)
      PROVE  k[1] = Verifier /\ k[2] \in 1..VerifyKeys /\ k[2] \in Nat /\ k = <<k[1], k[2]>>
  BY <1>1
<1>4. \A w \in Workers : <<w, 1>> \in Keys
  BY <1>1 DEF Keys
<1>5. \A i \in 1..VerifyKeys : <<Verifier, i>> \in Keys
  BY DEF Keys
<1> QED
  BY <1>1, <1>2, <1>3, <1>4, <1>5 DEF Keys, Users

LEMMA UsersFinite == IsFiniteSet(Users) /\ IsFiniteSet(Keys)
<1>1. IsFiniteSet(Workers) /\ PerWorker \in Int /\ VerifyKeys \in Int
  BY ServiceMapsAssumption
<1>2. IsFiniteSet({Verifier}) /\ IsFiniteSet(1..PerWorker) /\ IsFiniteSet(1..VerifyKeys)
  <2>1. IsFiniteSet({Verifier})
    BY FS_Singleton
  <2>2. IsFiniteSet(1..PerWorker)
    BY <1>1, FS_Interval
  <2>3. IsFiniteSet(1..VerifyKeys)
    BY <1>1, FS_Interval
  <2> QED
    BY <2>1, <2>2, <2>3
<1>3. IsFiniteSet(Workers \X (1..PerWorker)) /\ IsFiniteSet({Verifier} \X (1..VerifyKeys))
  BY <1>1, <1>2, FS_Product
<1> QED
  BY <1>1, <1>2, <1>3, FS_Union DEF Users, Keys

Owned ==
  /\ \A u \in Users : key[u][1] = u
  /\ \A k \in present : Len(heap[k]) > 0

(* What the next step of user u rests on.                                    *)
Stands(u) ==
  /\ metric[u] \in {"hits", "misses", "invalidations"}
  /\ at[u] \in {"hit", "raise"} =>
       metric[u] = "hits" /\ key[u] \in present /\ result[u] = Len(heap[key[u]])
  /\ at[u] = "raise" => seen[u] = HitCount(u)
  /\ at[u] = "store" => key[u] \notin present
  /\ u # Verifier /\ at[u] = "record" /\ metric[u] = "misses" => key[u] \notin present

(* The verifier finds each of its keys as it stored it, but for the hits.    *)
Stored(k) == k \in present /\ Len(heap[k]) = 1
Verified ==
  /\ metric[Verifier] = "hits" /\ errors = 0
  /\ \A k \in Keys : k[1] = Verifier =>
       IF at[Verifier] = "store" /\ k[2] >= key[Verifier][2]
         THEN k \notin present /\ Len(heap[k]) = 0
         ELSE Stored(k)
  /\ at[Verifier] = "store" => left[Verifier] = Len(TestReads)
  /\ at[Verifier] \in {"hit", "raise", "record", "after"} => result[Verifier] = 1

(* From its last read but More + 1 on it reads its first key, and each read  *)
(* raises the hit count it compares with.                                    *)
FirstKey == <<Verifier, 1>>
FirstHits == heap[FirstKey][1]
Rising ==
  /\ left[Verifier] <= More + 1 => key[Verifier] = FirstKey
  /\ left[Verifier] <= More \/ (left[Verifier] = More + 1 /\ at[Verifier] = "next") =>
       hitCount1 <= FirstHits
  /\ left[Verifier] <= More /\ at[Verifier] \notin {"hit", "raise"} => hitCount1 < FirstHits

Steady == ServiceTypeOK /\ Owned /\ Verified /\ \A u \in Users : Stands(u)

LEMMA ServiceTypedInit == ServiceInit => ServiceTypeOK
<1> SUFFICES ASSUME ServiceInit PROVE ServiceTypeOK
  OBVIOUS
<1>1. key \in [Users -> Keys]
  <2>1. 1 \in 1..VerifyKeys
    BY KeyFacts
  <2>2. \A u \in Users : <<u, 1>> \in Keys
    BY <2>1, KeyFacts DEF Users
  <2> QED
    BY <2>2 DEF ServiceInit
<1>2. Len(TestReads) \in Nat /\ \A w \in Workers : Requests[w] \in Nat
  <2>1. Rounds * VerifyKeys + More + 2 \in Nat
    BY ServiceMapsAssumption
  <2> QED
    BY <2>1, ServiceMapsAssumption DEF TestReads
<1>3. left \in [Users -> Nat]
  BY <1>2, KeyFacts DEF ServiceInit, Users
<1>4. <<>> \in Seq(Nat) /\ Records \in Nat
  BY ServiceMapsAssumption
<1>5. heap \in [Keys -> Seq(Nat)]
  BY <1>4 DEF ServiceInit
<1>6. 0 \in 0..(2 * Records)
  BY <1>4
<1>7. writes \in [Collectors -> 0..(2 * Records)]
  BY <1>6 DEF ServiceInit
<1>8. present \subseteq Keys /\ toScan \subseteq Keys /\ metrics \in [Metrics -> Nat]
  BY DEF ServiceInit
<1>9. /\ at \in [Users -> {"next", "hit", "raise", "record", "store", "after"}]
      /\ result \in [Users -> Nat] /\ seen \in [Users -> Nat] /\ metric \in [Users -> Metrics]
  BY DEF ServiceInit, Metrics
<1>10. /\ version \in {"locks", "atomic", "syncmap"} /\ monitor \in {"wait", "scan", "gone"}
       /\ hitCount1 \in Nat /\ errors \in Nat /\ totalHits \in Nat /\ finished \in BOOLEAN
  BY DEF ServiceInit
<1> QED
  BY <1>1, <1>3, <1>5, <1>7, <1>8, <1>9, <1>10 DEF ServiceTypeOK

LEMMA ReadsFacts ==
  /\ Rounds * VerifyKeys \in Nat /\ More \in Nat
  /\ Len(TestReads) = Rounds * VerifyKeys + More + 2
  /\ \A i \in 1..Len(TestReads) : i > Rounds * VerifyKeys => TestReads[i] = 1
<1> DEFINE N == Rounds * VerifyKeys
<1>1. N \in Nat /\ More \in Nat
  BY ServiceMapsAssumption
<1> HIDE DEF N
<1>2. TestReads = [i \in 1..(N + More + 2) |-> IF i <= N THEN ((i - 1) % VerifyKeys) + 1 ELSE 1]
  BY DEF TestReads, N
<1>3. Len(TestReads) = N + More + 2
  BY <1>1, <1>2
<1>4. \A i \in 1..Len(TestReads) : i > N => TestReads[i] = 1
  BY <1>1, <1>2, <1>3
<1> QED
  BY <1>1, <1>3, <1>4 DEF N

LEMMA SteadyInit == ServiceInit => Steady
<1> SUFFICES ASSUME ServiceInit PROVE Steady
  OBVIOUS
<1>1. ServiceTypeOK
  BY ServiceTypedInit
<1>2. Owned
  BY KeyFacts DEF ServiceInit, Owned
<1>3. ASSUME NEW u \in Users PROVE Stands(u)
  BY <1>3 DEF ServiceInit, Stands
<1>4. Verified
  <2>1. at[Verifier] = "store" /\ key[Verifier] = <<Verifier, 1>>
    BY KeyFacts DEF ServiceInit
  <2>2. left[Verifier] = Len(TestReads) /\ metric[Verifier] = "hits" /\ errors = 0
    BY KeyFacts DEF ServiceInit
  <2>3. \A k \in Keys : k[1] = Verifier => k[2] >= 1
    BY KeyFacts
  <2>4. \A k \in Keys : k \notin present /\ Len(heap[k]) = 0
    BY DEF ServiceInit
  <2> QED
    BY <2>1, <2>2, <2>3, <2>4 DEF Verified
<1> QED
  BY <1>1, <1>2, <1>3, <1>4 DEF Steady

LEMMA RisingInit == ServiceInit => Rising
<1> SUFFICES ASSUME ServiceInit PROVE Rising
  OBVIOUS
<1>1. left[Verifier] = Len(TestReads)
  BY KeyFacts DEF ServiceInit
<1> QED
  BY <1>1, ReadsFacts DEF Rising

-----------------------------------------------------------------------------
(* A hit is counted on the last result of the user's own key.                *)
LEMMA HitFacts ==
  ASSUME ServiceTypeOK, Owned, NEW u \in Users, Stands(u), at[u] \in {"hit", "raise"}
  PROVE  /\ key[u] \in Keys /\ heap[key[u]] \in Seq(Nat)
         /\ result[u] \in 1..Len(heap[key[u]]) /\ result[u] = Len(heap[key[u]])
         /\ HitCount(u) \in Nat /\ metric[u] = "hits"
<1>1. key[u] \in Keys /\ heap[key[u]] \in Seq(Nat)
  BY DEF ServiceTypeOK
<1>2. Len(heap[key[u]]) > 0 /\ result[u] = Len(heap[key[u]]) /\ metric[u] = "hits"
  BY DEF Owned, Stands
<1>3. Len(heap[key[u]]) \in Nat
  BY <1>1
<1>4. result[u] \in 1..Len(heap[key[u]])
  BY <1>2, <1>3
<1>5. HitCount(u) \in Nat
  BY <1>1, <1>4, ElementOfSeq DEF HitCount
<1> QED
  BY <1>1, <1>2, <1>4, <1>5

LEMMA RaiseFacts ==
  ASSUME ServiceTypeOK, Owned, NEW u \in Users, Stands(u), WriteHitCount(u) \/ AddHit(u)
  PROVE  /\ at[u] \in {"hit", "raise"} /\ SetHitCount(u, HitCount(u) + 1)
         /\ heap'[key[u]] = [heap[key[u]] EXCEPT ![result[u]] = HitCount(u) + 1]
         /\ heap'[key[u]] \in Seq(Nat) /\ Len(heap'[key[u]]) = Len(heap[key[u]])
         /\ heap'[key[u]][result[u]] = HitCount(u) + 1
         /\ heap' \in [Keys -> Seq(Nat)]
         /\ \A k \in Keys : k # key[u] => heap'[k] = heap[k]
<1>1. at[u] \in {"hit", "raise"} /\ SetHitCount(u, HitCount(u) + 1)
  BY DEF WriteHitCount, AddHit, Stands
<1>2. /\ key[u] \in Keys /\ heap[key[u]] \in Seq(Nat) /\ result[u] \in 1..Len(heap[key[u]])
      /\ HitCount(u) + 1 \in Nat
  BY <1>1, HitFacts
<1>3. heap' = [heap EXCEPT ![key[u]] = [heap[key[u]] EXCEPT ![result[u]] = HitCount(u) + 1]]
  BY <1>1 DEF SetHitCount
<1> DEFINE s == [heap[key[u]] EXCEPT ![result[u]] = HitCount(u) + 1]
<1>4. s \in Seq(Nat) /\ Len(s) = Len(heap[key[u]]) /\ s[result[u]] = HitCount(u) + 1
  BY <1>2, ExceptSeq
<1>5. heap \in [Keys -> Seq(Nat)]
  BY DEF ServiceTypeOK
<1>6. heap' = [heap EXCEPT ![key[u]] = s] /\ s = [heap[key[u]] EXCEPT ![result[u]] = HitCount(u) + 1]
  BY <1>3
<1> HIDE DEF s
<1>7. heap'[key[u]] = s /\ heap' \in [Keys -> Seq(Nat)]
  BY <1>2, <1>4, <1>5, <1>6
<1>8. \A k \in Keys : k # key[u] => heap'[k] = heap[k]
  BY <1>5, <1>6
<1> QED
  BY <1>1, <1>4, <1>6, <1>7, <1>8

LEMMA StoreFacts ==
  ASSUME ServiceTypeOK, NEW u \in Users, StoreInCache(u)
  PROVE  /\ key[u] \in Keys /\ heap[key[u]] \in Seq(Nat)
         /\ heap'[key[u]] = Append(heap[key[u]], 0)
         /\ Len(heap'[key[u]]) = Len(heap[key[u]]) + 1 /\ Len(heap[key[u]]) \in Nat
         /\ heap' \in [Keys -> Seq(Nat)]
         /\ \A k \in Keys : k # key[u] => heap'[k] = heap[k]
<1>1. key[u] \in Keys /\ heap \in [Keys -> Seq(Nat)] /\ heap[key[u]] \in Seq(Nat)
  BY DEF ServiceTypeOK
<1>2. heap' = [heap EXCEPT ![key[u]] = Append(heap[key[u]], 0)]
  BY DEF StoreInCache
<1> DEFINE s == Append(heap[key[u]], 0)
<1>3. s \in Seq(Nat) /\ Len(s) = Len(heap[key[u]]) + 1 /\ Len(heap[key[u]]) \in Nat
  BY <1>1, AppendProperties
<1>4. heap' = [heap EXCEPT ![key[u]] = s] /\ s = Append(heap[key[u]], 0)
  BY <1>2
<1> HIDE DEF s
<1> QED
  BY <1>1, <1>3, <1>4

(* A step of a user touches nobody else's keys, nor where the others are.    *)
UserStep(u) == GetFromCache(u) \/ StoreInCache(u)
WorkerStep(w) == NextRequest(w) \/ \E k \in KeysOf(w) : InvalidateCacheEntry(w, k)
LocalsOf(u) == <<at[u], key[u], result[u], seen[u], metric[u], left[u]>>
Apart(u) ==
  /\ \A v \in Users : v # u => LocalsOf(v)' = LocalsOf(v)
  /\ \A k \in Keys : k[1] # u => heap'[k] = heap[k] /\ (k \in present' <=> k \in present)
  /\ u # Verifier => hitCount1' = hitCount1 /\ errors' = errors

LEMMA UserStepsApart ==
  ASSUME Steady, NEW u \in Users, UserStep(u) PROVE Apart(u)
<1>0. /\ ServiceTypeOK /\ Owned /\ Stands(u) /\ key[u] \in Keys /\ key[u][1] = u
      /\ at \in [Users -> {"next", "hit", "raise", "record", "store", "after"}]
      /\ key \in [Users -> Keys] /\ result \in [Users -> Nat] /\ seen \in [Users -> Nat]
      /\ metric \in [Users -> Metrics] /\ left \in [Users -> Nat]
  BY DEF Steady, ServiceTypeOK, Owned
<1> USE DEF Apart, LocalsOf, locals, cached, verifying
<1>1. ASSUME NEW k \in Keys, Lookup(u, k) PROVE Apart(u)
  BY <1>0, <1>1 DEF Lookup
<1>2. CASE ReadHitCount(u) \/ RecordMetric(u)
  BY <1>0, <1>2 DEF ReadHitCount, RecordMetric
<1>3. CASE WriteHitCount(u) \/ AddHit(u)
  <2>1. SetHitCount(u, HitCount(u) + 1) /\ \A k \in Keys : k # key[u] => heap'[k] = heap[k]
    BY <1>0, <1>3, RaiseFacts
  <2> QED
    BY <1>0, <2>1 DEF SetHitCount
<1>4. CASE StoreInCache(u)
  <2>1. \A k \in Keys : k # key[u] => heap'[k] = heap[k]
    BY <1>0, <1>4, StoreFacts
  <2>2. \A v \in Users : v # u => at'[v] = at[v] /\ key'[v] = key[v]
    <3>1. at' = at \/ \E x : at' = [at EXCEPT ![u] = x]
      BY <1>4 DEF StoreInCache
    <3>2. key' = key \/ \E x : key' = [key EXCEPT ![u] = x]
      BY <1>4 DEF StoreInCache
    <3> QED
      BY <1>0, <3>1, <3>2
  <2>3. UNCHANGED <<result, seen, metric, left, hitCount1, errors>>
    BY <1>4 DEF StoreInCache
  <2>4. \A k \in Keys : k # key[u] => (k \in present' <=> k \in present)
    BY <1>4 DEF StoreInCache
  <2> QED
    BY <1>0, <2>1, <2>2, <2>3, <2>4
<1> QED
  BY <1>1, <1>2, <1>3, <1>4 DEF UserStep, GetFromCache

LEMMA WorkerStepsApart ==
  ASSUME Steady, NEW w \in Workers, WorkerStep(w) PROVE Apart(w)
<1>0. at \in [Users -> {"next", "hit", "raise", "record", "store", "after"}]
      /\ metric \in [Users -> Metrics]
  BY DEF Steady, ServiceTypeOK
<1> USE DEF Apart, LocalsOf, locals, cached, verifying
<1>1. CASE NextRequest(w)
  BY <1>0, <1>1 DEF NextRequest
<1>2. ASSUME NEW k \in KeysOf(w), InvalidateCacheEntry(w, k) PROVE Apart(w)
  <2>1. k[1] = w
    BY DEF KeysOf
  <2>2. \A l \in Keys : l[1] # w => (l \in present' <=> l \in present)
    BY <1>2, <2>1 DEF InvalidateCacheEntry
  <2> QED
    BY <1>0, <1>2, <2>2 DEF InvalidateCacheEntry
<1> QED
  BY <1>1, <1>2 DEF WorkerStep

-----------------------------------------------------------------------------
LEMMA TypedUser ==
  ASSUME Steady, NEW u \in Users, UserStep(u) PROVE ServiceTypeOK'
<1>0. ServiceTypeOK /\ Owned /\ Stands(u)
  BY DEF Steady
<1>k. key[u] \in Keys /\ \A k \in Keys : Len(heap[k]) \in Nat
  BY <1>0 DEF ServiceTypeOK
<1> USE DEF ServiceTypeOK, locals, cached, verifying, monitoring
<1>1. ASSUME NEW k \in Keys, Lookup(u, k) PROVE ServiceTypeOK'
  <2>1. left[u] \in Nat /\ left[u] > 0 /\ {"hits", "misses"} \subseteq Metrics
    BY <1>0, <1>1 DEF Lookup, Metrics
  <2>2. left[u] - 1 \in Nat
    BY <2>1
  <2>3. left' \in [Users -> Nat] /\ key' \in [Users -> Keys] /\ result' \in [Users -> Nat]
    BY <1>0, <1>1, <1>k, <2>2 DEF Lookup
  <2>4. metric' \in [Users -> Metrics] /\ errors' \in Nat
    BY <1>0, <1>1, <2>1 DEF Lookup
  <2>5. at' \in [Users -> {"next", "hit", "raise", "record", "store", "after"}]
    BY <1>0, <1>1 DEF Lookup
  <2> QED
    BY <1>0, <1>1, <2>3, <2>4, <2>5 DEF Lookup
<1>2. CASE ReadHitCount(u)
  <2>1. HitCount(u) \in Nat
    BY <1>0, <1>2, HitFacts DEF ReadHitCount
  <2> QED
    BY <1>0, <1>2, <2>1 DEF ReadHitCount
<1>3. CASE WriteHitCount(u) \/ AddHit(u)
  <2>1. SetHitCount(u, HitCount(u) + 1) /\ heap' \in [Keys -> Seq(Nat)]
    BY <1>0, <1>3, RaiseFacts
  <2> QED
    BY <1>0, <2>1 DEF SetHitCount
<1>4. CASE RecordMetric(u)
  <2>1. Continues(u) \in {"next", "store", "after"}
    BY DEF Continues
  <2>2. at' \in [Users -> {"next", "hit", "raise", "record", "store", "after"}]
    BY <1>0, <1>4, <2>1 DEF RecordMetric
  <2>3. metrics' \in [Metrics -> Nat]
    BY <1>0, <1>4 DEF RecordMetric
  <2> QED
    BY <1>0, <1>4, <2>2, <2>3 DEF RecordMetric
<1>5. CASE StoreInCache(u)
  <2>1. heap' \in [Keys -> Seq(Nat)] /\ present' \subseteq Keys
    BY <1>0, <1>5, <1>k, StoreFacts DEF StoreInCache
  <2>2. key' \in [Users -> Keys]
    <3>1. CASE u = Verifier /\ key[u][2] < VerifyKeys
      <4>1. key[u][2] \in Nat /\ key[u][2] + 1 \in 1..VerifyKeys
        BY <1>k, <3>1, KeyFacts
      <4>2. <<u, key[u][2] + 1>> \in Keys
        BY <3>1, <4>1, KeyFacts
      <4>3. key' = [key EXCEPT ![u] = <<u, key[u][2] + 1>>]
        BY <1>5, <3>1 DEF StoreInCache
      <4> QED
        BY <1>0, <4>2, <4>3
    <3>2. CASE ~(u = Verifier /\ key[u][2] < VerifyKeys)
      BY <1>0, <1>5, <3>2 DEF StoreInCache
    <3> QED
      BY <3>1, <3>2
  <2>3. at' \in [Users -> {"next", "hit", "raise", "record", "store", "after"}]
    BY <1>0, <1>5 DEF StoreInCache
  <2> QED
    BY <1>0, <1>5, <2>1, <2>2, <2>3 DEF StoreInCache
<1> QED
  BY <1>1, <1>2, <1>3, <1>4, <1>5 DEF UserStep, GetFromCache

LEMMA TypedWorker ==
  ASSUME Steady, NEW w \in Workers, WorkerStep(w) PROVE ServiceTypeOK'
<1>0. ServiceTypeOK /\ w \in Users
  BY KeyFacts DEF Steady
<1> USE DEF ServiceTypeOK, locals, cached, verifying, monitoring
<1>1. CASE NextRequest(w)
  BY <1>0, <1>1 DEF NextRequest
<1>2. ASSUME NEW k \in KeysOf(w), InvalidateCacheEntry(w, k) PROVE ServiceTypeOK'
  BY <1>0, <1>2 DEF InvalidateCacheEntry, Metrics
<1> QED
  BY <1>1, <1>2 DEF WorkerStep

(* The verifier has its own result in hand when it compares.                 *)
LEMMA CompareFacts ==
  ASSUME Steady, at[Verifier] \in {"hit", "raise", "record", "after"}
  PROVE  /\ Stored(key[Verifier]) /\ key[Verifier] \in Keys /\ result[Verifier] = 1
         /\ HitCount(Verifier) = heap[key[Verifier]][1] /\ HitCount(Verifier) \in Nat
<1>1. key[Verifier] \in Keys /\ key[Verifier][1] = Verifier
  BY KeyFacts DEF Steady, ServiceTypeOK, Owned
<1>2. Stored(key[Verifier]) /\ result[Verifier] = 1
  BY <1>1 DEF Steady, Verified
<1>3. heap[key[Verifier]] \in Seq(Nat) /\ 1 \in 1..Len(heap[key[Verifier]])
  BY <1>1, <1>2 DEF Steady, ServiceTypeOK, Stored
<1>4. heap[key[Verifier]][1] \in Nat
  BY <1>3, ElementOfSeq
<1> QED
  BY <1>1, <1>2, <1>4 DEF HitCount

LEMMA TypedCompare == ASSUME Steady, Compare PROVE ServiceTypeOK'
<1>0. ServiceTypeOK /\ HitCount(Verifier) \in Nat
  BY CompareFacts DEF Steady, Compare
<1>1. hitCount1' \in Nat /\ errors' \in Nat
  BY <1>0 DEF Compare, ServiceTypeOK
<1>2. at' \in [Users -> {"next", "hit", "raise", "record", "store", "after"}]
  BY <1>0 DEF Compare, ServiceTypeOK
<1> QED
  BY <1>0, <1>1, <1>2 DEF Compare, ServiceTypeOK, cached, locals, monitoring

LEMMA TypedCollector ==
  ASSUME ServiceTypeOK, NEW c \in Collectors, Collect(c) PROVE ServiceTypeOK'
<1>1. writes' \in [Collectors -> 0..(2 * Records)]
  <2>1. writes[c] \in 0..(2 * Records) /\ writes[c] < 2 * Records /\ 2 * Records \in Nat
    BY ServiceMapsAssumption DEF Collect, ServiceTypeOK
  <2>2. writes[c] + 1 \in 0..(2 * Records)
    BY <2>1
  <2> QED
    BY <2>2 DEF Collect, ServiceTypeOK
<1>2. metrics' \in [Metrics -> Nat]
  <2>1. PICK m \in Metrics : metrics' = [metrics EXCEPT ![m] = metrics[m] + 1]
    BY DEF Collect, Metrics
  <2> QED
    BY <2>1 DEF ServiceTypeOK
<1> QED
  BY <1>1, <1>2 DEF Collect, ServiceTypeOK, cached, locals, verifying, monitoring

LEMMA TypedMonitor ==
  ASSUME Steady, MonitorTick \/ (\E k \in Keys : ScanCache(k)) \/ ReportStats \/ Stop
  PROVE  ServiceTypeOK'
<1>0. ServiceTypeOK /\ Owned
  BY DEF Steady
<1> USE DEF ServiceTypeOK, cached, locals, verifying, monitoring
<1>1. CASE MonitorTick
  BY <1>0, <1>1 DEF MonitorTick
<1>2. ASSUME NEW k \in Keys, ScanCache(k) PROVE ServiceTypeOK'
  <2>1. totalHits' \in Nat
    <3>1. CASE k \in present
      <4>1. heap[k] \in Seq(Nat) /\ Len(heap[k]) > 0 /\ Len(heap[k]) \in Nat
        BY <1>0, <3>1 DEF Owned
      <4>2. heap[k][Len(heap[k])] \in Nat
        BY <4>1, ElementOfSeq
      <4> QED
        BY <1>0, <1>2, <3>1, <4>2 DEF ScanCache
    <3>2. CASE k \notin present
      BY <1>0, <1>2, <3>2 DEF ScanCache
    <3> QED
      BY <3>1, <3>2
  <2> QED
    BY <1>0, <1>2, <2>1 DEF ScanCache
<1>3. CASE ReportStats \/ Stop
  BY <1>0, <1>3 DEF ReportStats, Stop
<1> QED
  BY <1>1, <1>2, <1>3

-----------------------------------------------------------------------------
LEMMA OwnedUser ==
  ASSUME Steady, NEW u \in Users, UserStep(u) PROVE Owned'
<1>0. ServiceTypeOK /\ Owned /\ Stands(u)
  BY DEF Steady
<1>k. key[u] \in Keys /\ key \in [Users -> Keys] /\ present \subseteq Keys
  BY <1>0 DEF ServiceTypeOK
<1> USE DEF Owned, locals, cached
<1>1. ASSUME NEW k \in Keys, Lookup(u, k) PROVE Owned'
  <2>1. k[1] = u
    BY <1>1 DEF Lookup, Asks, KeysOf
  <2> QED
    BY <1>0, <1>1, <1>k, <2>1 DEF Lookup
<1>2. CASE ReadHitCount(u) \/ RecordMetric(u)
  BY <1>0, <1>2 DEF ReadHitCount, RecordMetric
<1>3. CASE WriteHitCount(u) \/ AddHit(u)
  <2>1. /\ SetHitCount(u, HitCount(u) + 1) /\ Len(heap'[key[u]]) = Len(heap[key[u]])
        /\ \A k \in Keys : k # key[u] => heap'[k] = heap[k]
    BY <1>0, <1>3, RaiseFacts
  <2> QED
    BY <1>0, <1>k, <2>1 DEF SetHitCount
<1>4. CASE StoreInCache(u)
  <2>1. /\ Len(heap'[key[u]]) = Len(heap[key[u]]) + 1 /\ Len(heap[key[u]]) \in Nat
        /\ \A k \in Keys : k # key[u] => heap'[k] = heap[k]
    BY <1>0, <1>4, StoreFacts
  <2>2. present' = present \union {key[u]}
    BY <1>4 DEF StoreInCache
  <2>3. \A k \in present' : Len(heap'[k]) > 0
    BY <1>0, <1>k, <2>1, <2>2
  <2>4. key' = key \/ key' = [key EXCEPT ![u] = <<u, key[u][2] + 1>>]
    BY <1>4 DEF StoreInCache
  <2>5. \A v \in Users : key'[v][1] = v
    BY <1>0, <1>k, <2>4
  <2> QED
    BY <2>3, <2>5
<1> QED
  BY <1>1, <1>2, <1>3, <1>4 DEF UserStep, GetFromCache

LEMMA OwnedOthers ==
  ASSUME Steady,
         \/ \E w \in Workers : WorkerStep(w)
         \/ Compare \/ (\E c \in Collectors : Collect(c))
         \/ MonitorTick \/ (\E k \in Keys : ScanCache(k)) \/ ReportStats \/ Stop
  PROVE  Owned'
<1>1. UNCHANGED <<key, heap>> /\ present' \subseteq present
  BY DEF WorkerStep, NextRequest, InvalidateCacheEntry, Compare, Collect, MonitorTick,
         ScanCache, ReportStats, Stop, locals, cached
<1> QED
  BY <1>1 DEF Steady, Owned

(* The user that acts goes on from where it stands.                          *)
LEMMA StandsUser ==
  ASSUME Steady, NEW u \in Users, UserStep(u) PROVE Stands(u)'
<1>0. ServiceTypeOK /\ Owned /\ Stands(u) /\ Verified
  BY DEF Steady
<1>t. /\ at \in [Users -> {"next", "hit", "raise", "record", "store", "after"}]
      /\ key \in [Users -> Keys] /\ result \in [Users -> Nat] /\ seen \in [Users -> Nat]
      /\ metric \in [Users -> Metrics]
  BY <1>0 DEF ServiceTypeOK
<1> USE DEF Stands, locals, cached
<1>1. ASSUME NEW k \in Keys, Lookup(u, k) PROVE Stands(u)'
  <2>1. /\ key'[u] = k /\ result'[u] = Len(heap[k]) /\ heap' = heap /\ present' = present
        /\ at'[u] = IF k \in present THEN "hit" ELSE "record"
        /\ metric'[u] = IF k \in present THEN "hits" ELSE "misses"
    BY <1>1, <1>t DEF Lookup
  <2> QED
    BY <2>1
<1>2. CASE ReadHitCount(u)
  <2>1. at[u] = "hit" /\ at'[u] = "raise" /\ seen'[u] = HitCount(u)
    BY <1>2, <1>t DEF ReadHitCount
  <2>2. UNCHANGED <<heap, present, key, result, metric>>
    BY <1>2 DEF ReadHitCount
  <2>3. HitCount(u)' = HitCount(u)
    BY <2>2 DEF HitCount
  <2> QED
    BY <1>0, <2>1, <2>2, <2>3
<1>3. CASE WriteHitCount(u) \/ AddHit(u)
  <2>1. SetHitCount(u, HitCount(u) + 1) /\ metric[u] = "hits"
    BY <1>0, <1>3, RaiseFacts
  <2>2. at'[u] = "record" /\ metric'[u] = "hits"
    BY <1>t, <2>1 DEF SetHitCount
  <2> QED
    BY <2>2
<1>4. CASE RecordMetric(u)
  <2>1. at[u] = "record" /\ at'[u] = Continues(u) /\ UNCHANGED <<heap, present, key, metric>>
    BY <1>4, <1>t DEF RecordMetric
  <2>2. Continues(u) = "store" => metric[u] = "misses" /\ u # Verifier
    BY DEF Continues
  <2>3. Continues(u) \in {"next", "store", "after"}
    BY DEF Continues
  <2> QED
    BY <1>0, <2>1, <2>2, <2>3
<1>5. CASE StoreInCache(u)
  <2>1. metric' = metric
    BY <1>5 DEF StoreInCache
  <2>2. CASE u = Verifier /\ key[u][2] < VerifyKeys
    <3>1. at' = at /\ at[u] = "store" /\ key'[u] = <<u, key[u][2] + 1>>
      BY <1>5, <1>t, <2>2 DEF StoreInCache
    <3>2. present' = present \union {key[u]}
      BY <1>5 DEF StoreInCache
    <3>3. key[u][2] \in Nat /\ <<u, key[u][2] + 1>> \in Keys
      <4>1. key[u][2] \in Nat /\ key[u][2] + 1 \in 1..VerifyKeys
        BY <1>t, <2>2, KeyFacts
      <4> QED
        BY <2>2, <4>1, KeyFacts
    <3>4. <<u, key[u][2] + 1>> \notin present
      BY <1>0, <2>2, <3>1, <3>3 DEF Verified
    <3>5. key'[u] # key[u]
      BY <3>1, <3>3
    <3> QED
      BY <1>0, <2>1, <3>1, <3>2, <3>4, <3>5
  <2>3. CASE ~(u = Verifier /\ key[u][2] < VerifyKeys)
    <3>1. at'[u] \in {"next", "after"}
      BY <1>5, <1>t, <2>3 DEF StoreInCache
    <3> QED
      BY <1>0, <2>1, <3>1
  <2> QED
    BY <2>2, <2>3
<1> QED
  BY <1>1, <1>2, <1>3, <1>4, <1>5 DEF UserStep, GetFromCache

LEMMA StandsWorker ==
  ASSUME Steady, NEW w \in Workers, WorkerStep(w) PROVE Stands(w)'
<1>0. /\ Stands(w) /\ w \in Users
      /\ at \in [Users -> {"next", "hit", "raise", "record", "store", "after"}]
      /\ metric \in [Users -> Metrics]
  BY KeyFacts DEF Steady, ServiceTypeOK
<1>1. CASE NextRequest(w)
  <2>1. at'[w] = "next" /\ metric' = metric
    BY <1>0, <1>1 DEF NextRequest, locals
  <2> QED
    BY <1>0, <2>1 DEF Stands
<1>2. ASSUME NEW k \in KeysOf(w), InvalidateCacheEntry(w, k) PROVE Stands(w)'
  <2>1. at'[w] = "record" /\ metric'[w] = "invalidations"
    BY <1>0, <1>2 DEF InvalidateCacheEntry
  <2> QED
    BY <2>1 DEF Stands
<1> QED
  BY <1>1, <1>2 DEF WorkerStep

LEMMA StandsApart ==
  ASSUME Steady, NEW u \in Users, Apart(u), NEW v \in Users, v # u PROVE Stands(v)'
<1>1. key[v] \in Keys /\ key[v][1] # u /\ Stands(v)
  BY DEF Steady, Owned, ServiceTypeOK
<1>2. /\ at'[v] = at[v] /\ key'[v] = key[v] /\ result'[v] = result[v] /\ seen'[v] = seen[v]
      /\ metric'[v] = metric[v]
  BY DEF Apart, LocalsOf
<1>3. heap'[key[v]] = heap[key[v]] /\ (key[v] \in present' <=> key[v] \in present)
  BY <1>1 DEF Apart
<1>4. HitCount(v)' = HitCount(v)
  BY <1>2, <1>3 DEF HitCount
<1> QED
  BY <1>1, <1>2, <1>3, <1>4 DEF Stands

LEMMA StandsCompare == ASSUME Steady, Compare, NEW u \in Users PROVE Stands(u)'
<1>1. UNCHANGED <<heap, present, key, result, seen, metric>>
  BY DEF Compare, cached, locals
<1>2. u # Verifier => at'[u] = at[u]
  BY DEF Compare, Steady, ServiceTypeOK
<1>3. u = Verifier => at'[u] = "next"
  BY DEF Compare, Steady, ServiceTypeOK
<1>4. HitCount(u)' = HitCount(u) /\ Stands(u)
  BY <1>1 DEF HitCount, Steady
<1> QED
  BY <1>1, <1>2, <1>3, <1>4 DEF Stands

-----------------------------------------------------------------------------
LEMMA VerifierKey ==
  ASSUME Steady
  PROVE  /\ key[Verifier] \in Keys /\ key[Verifier][1] = Verifier
         /\ key[Verifier] = <<Verifier, key[Verifier][2]>> /\ key[Verifier][2] \in 1..VerifyKeys
         /\ FirstKey \in Keys /\ FirstKey[1] = Verifier
         /\ left[Verifier] \in Nat /\ hitCount1 \in Nat
         /\ ServiceTypeOK /\ Owned /\ Stands(Verifier) /\ Verified /\ Verifier \in Users
<1>1. ServiceTypeOK /\ Owned /\ Stands(Verifier) /\ Verified /\ Verifier \in Users
  BY KeyFacts DEF Steady
<1>2. key[Verifier] \in Keys /\ key[Verifier][1] = Verifier /\ left[Verifier] \in Nat
  BY <1>1 DEF ServiceTypeOK, Owned
<1>3. FirstKey \in Keys /\ FirstKey[1] = Verifier
  BY KeyFacts DEF FirstKey
<1>4. key[Verifier] = <<Verifier, key[Verifier][2]>> /\ key[Verifier][2] \in 1..VerifyKeys
  BY <1>2, KeyFacts
<1> QED
  BY <1>1, <1>2, <1>3, <1>4 DEF ServiceTypeOK

(* Once it has stored its keys, all of them are there.                       *)
LEMMA FirstIsStored ==
  ASSUME Steady, at[Verifier] # "store"
  PROVE  /\ \A k \in Keys : k[1] = Verifier => Stored(k)
         /\ Stored(FirstKey) /\ FirstHits \in Nat
<1>1. \A k \in Keys : k[1] = Verifier => Stored(k)
  BY VerifierKey DEF Verified
<1>2. Stored(FirstKey)
  BY <1>1, VerifierKey
<1>3. heap[FirstKey] \in Seq(Nat) /\ 1 \in 1..Len(heap[FirstKey])
  BY <1>2, VerifierKey DEF Stored, ServiceTypeOK
<1>4. FirstHits \in Nat
  BY <1>3, ElementOfSeq DEF FirstHits
<1> QED
  BY <1>1, <1>2, <1>4

LEMMA VerifiedApart ==
  ASSUME Steady, Rising, NEW u \in Users, u # Verifier, Apart(u) PROVE Verified' /\ Rising'
<1>1. /\ at'[Verifier] = at[Verifier] /\ key'[Verifier] = key[Verifier]
      /\ result'[Verifier] = result[Verifier] /\ metric'[Verifier] = metric[Verifier]
      /\ left'[Verifier] = left[Verifier] /\ hitCount1' = hitCount1 /\ errors' = errors
  BY KeyFacts DEF Apart, LocalsOf
<1>2. \A k \in Keys : k[1] = Verifier => heap'[k] = heap[k] /\ (k \in present' <=> k \in present)
  BY DEF Apart
<1>3. Verified'
  BY <1>1, <1>2, VerifierKey DEF Verified, Stored
<1>4. FirstHits' = FirstHits
  BY <1>2, VerifierKey DEF FirstHits, FirstKey
<1>5. Rising'
  BY <1>1, <1>4 DEF Rising, FirstKey
<1> QED
  BY <1>3, <1>5

LEMMA VerifierLooksUp ==
  ASSUME Steady, Rising, NEW k \in Keys, Lookup(Verifier, k) PROVE Verified' /\ Rising'
<1> DEFINE i == Len(TestReads) - left[Verifier] + 1
<1>1. at[Verifier] = "next" /\ left[Verifier] > 0 /\ k = <<Verifier, TestReads[i]>>
  BY DEF Lookup, Asks
<1>2. k[1] = Verifier /\ Stored(k) /\ Stored(FirstKey) /\ \A l \in Keys : l[1] = Verifier => Stored(l)
  BY <1>1, FirstIsStored
<1>3. /\ at'[Verifier] = "hit" /\ metric'[Verifier] = "hits" /\ key'[Verifier] = k
      /\ result'[Verifier] = Len(heap[k]) /\ left'[Verifier] = left[Verifier] - 1
      /\ errors' = errors /\ heap' = heap /\ present' = present /\ hitCount1' = hitCount1
  BY <1>2, VerifierKey DEF Lookup, Stored, ServiceTypeOK, cached
<1>4. Verified'
  BY <1>2, <1>3, VerifierKey DEF Verified, Stored
<1>5. left'[Verifier] <= More + 1 => k = FirstKey
  <2> SUFFICES ASSUME left[Verifier] - 1 <= More + 1 PROVE TestReads[i] = 1
    BY <1>1, <1>3 DEF FirstKey
  <2> DEFINE N == Rounds * VerifyKeys
  <2>1. N \in Nat /\ More \in Nat /\ Len(TestReads) = N + More + 2
    BY ReadsFacts
  <2>2. \A j \in 1..Len(TestReads) : j > N => TestReads[j] = 1
    BY ReadsFacts
  <2> HIDE DEF N
  <2>3. i \in 1..Len(TestReads) /\ i > N
    BY <1>1, <2>1, VerifierKey
  <2> QED
    BY <2>2, <2>3
<1>6. FirstHits' = FirstHits /\ FirstKey' = FirstKey
  BY <1>3 DEF FirstHits, FirstKey
<1>7. left'[Verifier] <= More => hitCount1 <= FirstHits
  <2>1. FirstHits \in Nat /\ left[Verifier] \in Nat /\ More \in Nat /\ hitCount1 \in Nat
    BY <1>1, FirstIsStored, VerifierKey, ReadsFacts
  <2> QED
    BY <1>1, <1>3, <2>1 DEF Rising
<1>8. Rising'
  BY <1>3, <1>5, <1>6, <1>7 DEF Rising
<1> QED
  BY <1>4, <1>8

LEMMA VerifierRaises ==
  ASSUME Steady, Rising, WriteHitCount(Verifier) \/ AddHit(Verifier) PROVE Verified' /\ Rising'
<1>1. /\ at[Verifier] \in {"hit", "raise"} /\ SetHitCount(Verifier, HitCount(Verifier) + 1)
      /\ Len(heap'[key[Verifier]]) = Len(heap[key[Verifier]])
      /\ heap'[key[Verifier]][result[Verifier]] = HitCount(Verifier) + 1
      /\ \A k \in Keys : k # key[Verifier] => heap'[k] = heap[k]
  BY VerifierKey, RaiseFacts
<1>2. /\ at'[Verifier] = "record" /\ UNCHANGED <<present, key, result, metric, left, hitCount1, errors>>
  BY <1>1, VerifierKey DEF SetHitCount, ServiceTypeOK, verifying
<1>3. HitCount(Verifier) = heap[key[Verifier]][1] /\ result[Verifier] = 1
      /\ HitCount(Verifier) \in Nat
  BY <1>1, CompareFacts
<1>4. \A k \in Keys : k[1] = Verifier => Stored(k)'
  <2>1. \A k \in Keys : k[1] = Verifier => Stored(k)
    BY <1>1, FirstIsStored
  <2> QED
    BY <1>1, <1>2, <2>1 DEF Stored
<1>5. Verified'
  BY <1>2, <1>3, <1>4, VerifierKey DEF Verified, Stored
<1>6. FirstHits \in Nat /\ More \in Nat
  BY <1>1, FirstIsStored, ReadsFacts
<1>7. IF key[Verifier] = FirstKey THEN FirstHits' = FirstHits + 1 ELSE FirstHits' = FirstHits
  <2>1. CASE key[Verifier] = FirstKey
    BY <1>1, <1>3, <2>1 DEF FirstHits, FirstKey
  <2>2. CASE key[Verifier] # FirstKey
    BY <1>1, <2>2, VerifierKey DEF FirstHits, FirstKey
  <2> QED
    BY <2>1, <2>2
<1>8. Rising'
  BY <1>1, <1>2, <1>6, <1>7, VerifierKey DEF Rising, FirstKey
<1> QED
  BY <1>5, <1>8

LEMMA VerifierRecords ==
  ASSUME Steady, Rising, ReadHitCount(Verifier) \/ RecordMetric(Verifier)
  PROVE  Verified' /\ Rising'
<1>1. UNCHANGED <<heap, present, key, result, metric, left, hitCount1, errors>>
  BY DEF ReadHitCount, RecordMetric, cached, locals, verifying
<1>2. \/ at[Verifier] = "hit" /\ at'[Verifier] = "raise"
      \/ at[Verifier] = "record" /\ at'[Verifier] = "after"
  <2>1. Continues(Verifier) = "after"
    BY VerifierKey DEF Continues, Verified
  <2> QED
    BY <2>1, VerifierKey DEF ReadHitCount, RecordMetric, ServiceTypeOK
<1>3. Verified'
  BY <1>1, <1>2, VerifierKey DEF Verified, Stored
<1>4. FirstHits' = FirstHits
  BY <1>1 DEF FirstHits, FirstKey
<1>5. Rising'
  BY <1>1, <1>2, <1>4 DEF Rising, FirstKey
<1> QED
  BY <1>3, <1>5

LEMMA VerifierStores ==
  ASSUME Steady, Rising, StoreInCache(Verifier) PROVE Verified' /\ Rising'
<1> DEFINE n == key[Verifier][2]
<1>1. /\ at[Verifier] = "store" /\ present' = present \union {key[Verifier]}
      /\ UNCHANGED <<result, metric, left, hitCount1, errors>>
  BY DEF StoreInCache, verifying
<1>2. /\ key[Verifier] = <<Verifier, n>> /\ n \in 1..VerifyKeys /\ VerifyKeys \in Nat
      /\ \A k \in Keys : k = <<k[1], k[2]>> /\ k[2] \in Nat
      /\ \A k \in Keys : k[1] = Verifier => k[2] \in 1..VerifyKeys
  BY VerifierKey, KeyFacts
<1>3. /\ heap'[key[Verifier]] = Append(heap[key[Verifier]], 0)
      /\ Len(heap'[key[Verifier]]) = Len(heap[key[Verifier]]) + 1
      /\ \A k \in Keys : k # key[Verifier] => heap'[k] = heap[k]
  BY VerifierKey, StoreFacts
<1>4. key[Verifier] \in present' /\ Len(heap'[key[Verifier]]) = 1
  <2>1. Len(heap[key[Verifier]]) = 0
    BY <1>1, <1>2, VerifierKey DEF Verified
  <2> QED
    BY <1>1, <1>3, <2>1
<1>5. ASSUME NEW k \in Keys, k[1] = Verifier
      PROVE  /\ k[2] <= n => k \in present' /\ Len(heap'[k]) = 1
             /\ k[2] > n => k \notin present' /\ Len(heap'[k]) = 0
  <2>1. CASE k = key[Verifier]
    BY <1>2, <1>4, <2>1
  <2>2. CASE k # key[Verifier]
    <3>1. k[2] # n /\ heap'[k] = heap[k] /\ (k \in present' <=> k \in present)
      BY <1>1, <1>2, <1>3, <1>5, <2>2
    <3>2. IF k[2] >= n THEN k \notin present /\ Len(heap[k]) = 0 ELSE Stored(k)
      BY <1>1, <1>5, VerifierKey DEF Verified
    <3> QED
      BY <1>2, <3>1, <3>2 DEF Stored
  <2> QED
    BY <2>1, <2>2
<1>6. left[Verifier] = Len(TestReads) /\ metric[Verifier] = "hits" /\ errors = 0
  BY <1>1, VerifierKey DEF Verified
<1>7. Verified'
  <2>1. CASE n < VerifyKeys
    <3>1. at'[Verifier] = "store" /\ key'[Verifier][2] = n + 1
      BY <1>1, <2>1, VerifierKey DEF StoreInCache, ServiceTypeOK
    <3>2. \A k \in Keys : k[1] = Verifier => (k[2] >= n + 1 <=> k[2] > n) /\ (k[2] <= n <=> ~(k[2] > n))
      BY <1>2
    <3> QED
      BY <1>1, <1>5, <1>6, <3>1, <3>2 DEF Verified, Stored
  <2>2. CASE ~(n < VerifyKeys)
    <3>1. at'[Verifier] = "next"
      BY <1>1, <2>2, VerifierKey DEF StoreInCache, ServiceTypeOK
    <3>2. \A k \in Keys : k[1] = Verifier => k[2] <= n
      BY <1>2, <2>2
    <3> QED
      BY <1>1, <1>5, <1>6, <3>1, <3>2 DEF Verified, Stored
  <2> QED
    BY <2>1, <2>2
<1>8. Rising'
  BY <1>1, <1>6, ReadsFacts DEF Rising
<1> QED
  BY <1>7, <1>8

LEMMA VerifierCompares == ASSUME Steady, Rising, Compare PROVE Verified' /\ Rising'
<1>1. /\ at[Verifier] = "after" /\ at'[Verifier] = "next"
      /\ UNCHANGED <<heap, present, key, result, metric, left>>
  BY VerifierKey DEF Compare, ServiceTypeOK, cached, locals
<1>2. HitCount(Verifier) = heap[key[Verifier]][1] /\ FirstHits \in Nat
  BY <1>1, CompareFacts, FirstIsStored
<1>3. /\ left[Verifier] \in Nat /\ More \in Nat /\ hitCount1 \in Nat
      /\ (left[Verifier] <= More + 1 => HitCount(Verifier) = FirstHits)
  BY <1>2, VerifierKey, ReadsFacts DEF Rising, FirstHits
<1>4. errors' = errors
  BY <1>1, <1>2, <1>3 DEF Compare, Rising
<1>5. hitCount1' = IF left[Verifier] = More + 1 THEN HitCount(Verifier) ELSE hitCount1
  BY DEF Compare
<1>6. Verified'
  BY <1>1, <1>4, VerifierKey DEF Verified, Stored
<1>7. FirstHits' = FirstHits
  BY <1>1 DEF FirstHits, FirstKey
<1>8. Rising'
  BY <1>1, <1>2, <1>3, <1>5, <1>7, VerifierKey DEF Rising, FirstKey
<1> QED
  BY <1>6, <1>8

LEMMA VerifierUntouched ==
  ASSUME Verified, Rising, UNCHANGED <<present, heap, at, key, result, metric, left, hitCount1, errors>>
  PROVE  Verified' /\ Rising'
  BY DEF Verified, Stored, Rising, FirstHits, FirstKey

-----------------------------------------------------------------------------
LEMMA SteadyNext ==
  ASSUME Steady, Rising, [ServiceNext]_serviceVars PROVE Steady' /\ Rising'
<1>1. ASSUME NEW u \in Users, UserStep(u) PROVE Steady' /\ Rising'
  <2>1. ServiceTypeOK' /\ Owned' /\ Apart(u) /\ Stands(u)'
    BY <1>1, TypedUser, OwnedUser, UserStepsApart, StandsUser
  <2>2. \A v \in Users : Stands(v)'
    BY <2>1, StandsApart
  <2>3. Verified' /\ Rising'
    <3>1. CASE u # Verifier
      BY <2>1, <3>1, VerifiedApart
    <3>2. CASE u = Verifier
      BY <1>1, <3>2, VerifierLooksUp, VerifierRaises, VerifierRecords, VerifierStores
         DEF UserStep, GetFromCache
    <3> QED
      BY <3>1, <3>2
  <2> QED
    BY <2>1, <2>2, <2>3 DEF Steady
<1>2. ASSUME NEW w \in Workers, WorkerStep(w) PROVE Steady' /\ Rising'
  <2>1. w \in Users /\ w # Verifier
    BY KeyFacts
  <2>2. ServiceTypeOK' /\ Owned' /\ Apart(w) /\ Stands(w)'
    BY <1>2, TypedWorker, OwnedOthers, WorkerStepsApart, StandsWorker
  <2>3. \A v \in Users : Stands(v)'
    BY <2>1, <2>2, StandsApart
  <2>4. Verified' /\ Rising'
    BY <2>1, <2>2, VerifiedApart
  <2> QED
    BY <2>2, <2>3, <2>4 DEF Steady
<1>3. CASE Compare
  BY <1>3, TypedCompare, OwnedOthers, StandsCompare, VerifierCompares DEF Steady
<1>4. ASSUME \/ \E c \in Collectors : Collect(c)
             \/ MonitorTick \/ (\E k \in Keys : ScanCache(k)) \/ ReportStats \/ Stop
      PROVE  Steady' /\ Rising'
  <2>1. UNCHANGED <<present, heap, at, key, result, seen, metric, left, hitCount1, errors>>
    BY <1>4 DEF Collect, MonitorTick, ScanCache, ReportStats, Stop, cached, locals, verifying
  <2>2. ServiceTypeOK'
    BY <1>4, TypedCollector, TypedMonitor DEF Steady
  <2>3. Owned' /\ Verified' /\ Rising'
    BY <1>4, <2>1, OwnedOthers, VerifierUntouched DEF Steady
  <2>4. \A u \in Users : Stands(u)'
    BY <2>1 DEF Steady, Stands, HitCount
  <2> QED
    BY <2>2, <2>3, <2>4 DEF Steady
<1>5. CASE UNCHANGED serviceVars
  BY <1>5 DEF serviceVars, cached, locals, verifying, monitoring, Steady, ServiceTypeOK, Owned,
              Verified, Stored, Stands, HitCount, Rising, FirstHits, FirstKey
<1> QED
  BY <1>1, <1>2, <1>3, <1>4, <1>5 DEF ServiceNext, UserStep, WorkerStep

-----------------------------------------------------------------------------
(* The operations of the collectors: one is under way while its collector    *)
(* has made an odd number of records.                                        *)
Halfway == {c \in Collectors : writes[c] % 2 = 1}

LEMMA OperationsStay ==
  ASSUME Steady, OperationsAgree, [ServiceNext]_serviceVars PROVE OperationsAgree'
<1>0. /\ metrics \in [Metrics -> Nat] /\ writes \in [Collectors -> 0..(2 * Records)]
      /\ IsFiniteSet(Collectors) /\ Records \in Nat
      /\ metrics["others"] \in Nat /\ metrics["operations"] \in Nat
  BY ServiceMapsAssumption DEF Steady, ServiceTypeOK, Metrics
<1>1. IsFiniteSet(Halfway) /\ Cardinality(Halfway) \in Nat
  BY <1>0, FS_Subset, FS_CardinalityType DEF Halfway
<1>2. metrics["others"] <= metrics["operations"] + Cardinality(Halfway)
  BY DEF OperationsAgree, Halfway
<1>3. ASSUME NEW c \in Collectors, Collect(c) PROVE OperationsAgree'
  <2>1. /\ writes[c] \in Nat /\ writes' = [writes EXCEPT ![c] = writes[c] + 1]
    BY <1>0, <1>3 DEF Collect
  <2>2. PICK m \in IF writes[c] % 2 = 0 THEN {"others", "operations"} ELSE {"operations"} :
          metrics' = [metrics EXCEPT ![m] = metrics[m] + 1]
    BY <1>3 DEF Collect
  <2>3. CASE writes[c] % 2 = 0
    <3>1. c \notin Halfway /\ Halfway' = Halfway \union {c}
      BY <1>0, <2>1, <2>3 DEF Halfway
    <3>2. Cardinality(Halfway') = Cardinality(Halfway) + 1
      BY <1>1, <3>1, FS_AddElement
    <3>3. \/ metrics'["others"] = metrics["others"] + 1 /\ metrics'["operations"] = metrics["operations"]
          \/ metrics'["others"] = metrics["others"] /\ metrics'["operations"] = metrics["operations"] + 1
      BY <1>0, <2>2 DEF Metrics
    <3>4. metrics'["others"] <= metrics'["operations"] + Cardinality(Halfway')
      BY <1>0, <1>1, <1>2, <3>2, <3>3
    <3> QED
      BY <3>4 DEF OperationsAgree, Halfway
  <2>4. CASE writes[c] % 2 # 0
    <3>1. c \in Halfway /\ Halfway' = Halfway \ {c}
      BY <1>0, <2>1, <2>4 DEF Halfway
    <3>2. Cardinality(Halfway') = Cardinality(Halfway) - 1
      BY <1>1, <3>1, FS_RemoveElement
    <3>3. metrics'["others"] = metrics["others"] /\ metrics'["operations"] = metrics["operations"] + 1
      BY <1>0, <2>2, <2>4 DEF Metrics
    <3>4. metrics'["others"] <= metrics'["operations"] + Cardinality(Halfway')
      BY <1>0, <1>1, <1>2, <3>2, <3>3
    <3> QED
      BY <3>4 DEF OperationsAgree, Halfway
  <2> QED
    BY <2>3, <2>4
<1>4. ASSUME NEW u \in Users, RecordMetric(u) PROVE OperationsAgree'
  <2>1. metric[u] \in {"hits", "misses", "invalidations"} /\ writes' = writes
    BY <1>4 DEF RecordMetric, Steady, Stands
  <2>2. metrics'["others"] = metrics["others"] /\ metrics'["operations"] = metrics["operations"]
    BY <1>0, <1>4, <2>1 DEF RecordMetric
  <2> QED
    BY <2>1, <2>2 DEF OperationsAgree
<1>5. CASE UNCHANGED <<metrics, writes>>
  BY <1>5 DEF OperationsAgree
<1>6. ASSUME NEW u \in Users, NEW k \in Keys,
             Lookup(u, k) \/ ReadHitCount(u) \/ WriteHitCount(u) \/ AddHit(u) \/ StoreInCache(u)
      PROVE  OperationsAgree'
  BY <1>5, <1>6 DEF Lookup, ReadHitCount, WriteHitCount, AddHit, SetHitCount, StoreInCache
<1>7. ASSUME NEW w \in Workers, WorkerStep(w) PROVE OperationsAgree'
  BY <1>5, <1>7 DEF WorkerStep, NextRequest, InvalidateCacheEntry
<1>8. CASE \/ Compare \/ MonitorTick \/ (\E k \in Keys : ScanCache(k)) \/ ReportStats \/ Stop
           \/ UNCHANGED serviceVars
  BY <1>5, <1>8 DEF Compare, MonitorTick, ScanCache, ReportStats, Stop, serviceVars
<1>9. \E k \in Keys : TRUE
  BY VerifierKey
<1> QED
  BY <1>3, <1>4, <1>6, <1>7, <1>8, <1>9 DEF ServiceNext, GetFromCache, WorkerStep

-----------------------------------------------------------------------------
LEMMA SumOfSeq ==
  ASSUME NEW s \in Seq(Nat)
  PROVE  /\ IsSummable(s) /\ SumFunction(s) \in Nat /\ DOMAIN s = 1..Len(s) /\ Len(s) \in Nat
         /\ \A i \in 1..Len(s) : s[i] \in Nat /\ s[i] <= SumFunction(s)
<1>1. DOMAIN s = 1..Len(s) /\ Len(s) \in Nat
  BY LenProperties
<1>2. \A i \in 1..Len(s) : s[i] \in Nat
  BY ElementOfSeq
<1>3. IsFiniteSet(1..Len(s))
  BY <1>1, FS_Interval
<1> QED
  BY <1>1, <1>2, <1>3, SumOfNat

LEMMA SumOfHit ==
  ASSUME NEW s \in Seq(Nat), NEW t \in Seq(Nat), NEW i \in 1..Len(s),
         t = [s EXCEPT ![i] = s[i] + 1]
  PROVE  SumFunction(t) = SumFunction(s) + 1
<1>1. Len(s) \in Nat /\ DOMAIN s = 1..Len(s) /\ s[i] \in Nat /\ DOMAIN t = DOMAIN s
  BY SumOfSeq
<1>2. t[i] = s[i] + 1 /\ \A x \in DOMAIN s \ {i} : t[x] = s[x]
  BY <1>1
<1>3. IsSummable(s) /\ IsSummable(t) /\ SumFunction(s) \in Nat
  BY SumOfSeq
<1>4. SumFunction(t) = SumFunction(s) + (t[i] - s[i])
  BY <1>1, <1>2, <1>3, SumOfChange
<1> QED
  BY <1>1, <1>2, <1>3, <1>4

LEMMA SumOfStored ==
  ASSUME NEW s \in Seq(Nat) PROVE SumFunction(Append(s, 0)) = SumFunction(s)
<1> DEFINE t == Append(s, 0)
<1>1. t \in Seq(Nat) /\ Len(t) = Len(s) + 1 /\ t[Len(s) + 1] = 0 /\ \A i \in 1..Len(s) : t[i] = s[i]
  BY AppendProperties
<1> HIDE DEF t
<1>2. /\ IsSummable(s) /\ IsSummable(t) /\ SumFunction(s) \in Nat /\ Len(s) \in Nat
      /\ DOMAIN s = 1..Len(s) /\ DOMAIN t = 1..Len(t)
  BY <1>1, SumOfSeq
<1>3. DOMAIN t = DOMAIN s \union {Len(s) + 1} /\ Len(s) + 1 \notin DOMAIN s
  BY <1>1, <1>2
<1>4. SumFunction(t) = SumFunction(s) + t[Len(s) + 1]
  BY <1>1, <1>2, <1>3, SumOfMore
<1>5. SumFunction(t) = SumFunction(s)
  BY <1>1, <1>2, <1>4
<1> QED
  BY <1>5 DEF t

(* The hits on all the results ever stored under each key.                   *)
HitsIn(h) == [k \in Keys |-> SumFunction(h[k])]

LEMMA HitsFacts ==
  ASSUME NEW h \in [Keys -> Seq(Nat)]
  PROVE  /\ SumFunction([k \in Keys |-> SumFunction(h[k])]) = SumFunction(HitsIn(h))
         /\ IsSummable(HitsIn(h)) /\ DOMAIN HitsIn(h) = Keys /\ SumFunction(HitsIn(h)) \in Nat
         /\ \A k \in Keys : SumFunction(h[k]) \in Nat /\ HitsIn(h)[k] = SumFunction(h[k])
<1>1. \A k \in Keys : SumFunction(h[k]) \in Nat
  BY SumOfSeq
<1>2. DOMAIN HitsIn(h) = Keys /\ \A k \in Keys : HitsIn(h)[k] = SumFunction(h[k])
  BY DEF HitsIn
<1>3. IsSummable(HitsIn(h)) /\ SumFunction(HitsIn(h)) \in Nat
  BY <1>1, <1>2, UsersFinite, SumOfNat
<1>4. [k \in Keys |-> SumFunction(h[k])] = HitsIn(h)
  BY DEF HitsIn
<1>5. SumFunction([k \in Keys |-> SumFunction(h[k])]) = SumFunction(HitsIn(h))
  BY <1>4
<1> QED
  BY <1>1, <1>2, <1>3, <1>5

LEMMA RaisedHits ==
  ASSUME Steady, NEW u \in Users, WriteHitCount(u) \/ AddHit(u)
  PROVE  /\ key[u] \in Keys /\ SumFunction(heap'[key[u]]) = SumFunction(heap[key[u]]) + 1
         /\ heap' \in [Keys -> Seq(Nat)]
         /\ \A k \in Keys : k # key[u] => heap'[k] = heap[k]
<1>1. ServiceTypeOK /\ Owned /\ Stands(u)
  BY DEF Steady
<1>2. /\ at[u] \in {"hit", "raise"} /\ heap'[key[u]] \in Seq(Nat) /\ heap' \in [Keys -> Seq(Nat)]
      /\ heap'[key[u]] = [heap[key[u]] EXCEPT ![result[u]] = HitCount(u) + 1]
      /\ \A k \in Keys : k # key[u] => heap'[k] = heap[k]
  BY <1>1, RaiseFacts
<1>3. key[u] \in Keys /\ heap[key[u]] \in Seq(Nat) /\ result[u] \in 1..Len(heap[key[u]])
  BY <1>1, <1>2, HitFacts
<1>4. HitCount(u) = heap[key[u]][result[u]]
  BY DEF HitCount
<1>5. SumFunction(heap'[key[u]]) = SumFunction(heap[key[u]]) + 1
  BY <1>2, <1>3, <1>4, SumOfHit
<1> QED
  BY <1>2, <1>3, <1>5

LEMMA StoredHits ==
  ASSUME Steady, NEW u \in Users, StoreInCache(u)
  PROVE  heap' \in [Keys -> Seq(Nat)] /\ \A k \in Keys : SumFunction(heap'[k]) = SumFunction(heap[k])
<1>1. /\ key[u] \in Keys /\ heap[key[u]] \in Seq(Nat) /\ heap'[key[u]] = Append(heap[key[u]], 0)
      /\ heap' \in [Keys -> Seq(Nat)] /\ \A k \in Keys : k # key[u] => heap'[k] = heap[k]
  BY StoreFacts DEF Steady
<1>2. SumFunction(heap'[key[u]]) = SumFunction(heap[key[u]])
  BY <1>1, SumOfStored
<1> QED
  BY <1>1, <1>2

(* All other steps leave the heap alone.                                     *)
LEMMA HeapKept ==
  ASSUME [ServiceNext]_serviceVars,
         \A u \in Users : ~ (WriteHitCount(u) \/ AddHit(u) \/ StoreInCache(u))
  PROVE  heap' = heap
<1>1. ASSUME NEW u \in Users, NEW k \in Keys, Lookup(u, k) \/ ReadHitCount(u) \/ RecordMetric(u)
      PROVE  heap' = heap
  BY <1>1 DEF Lookup, ReadHitCount, RecordMetric, cached
<1>2. ASSUME NEW w \in Workers, WorkerStep(w) PROVE heap' = heap
  BY <1>2 DEF WorkerStep, NextRequest, InvalidateCacheEntry, cached
<1>3. CASE \/ Compare \/ (\E c \in Collectors : Collect(c)) \/ MonitorTick
           \/ (\E k \in Keys : ScanCache(k)) \/ ReportStats \/ Stop \/ UNCHANGED serviceVars
  BY <1>3 DEF Compare, Collect, MonitorTick, ScanCache, ReportStats, Stop, serviceVars, cached
<1>4. \E k \in Keys : TRUE
  <2>1. 1 \in 1..VerifyKeys
    BY KeyFacts
  <2> QED
    BY <2>1, KeyFacts
<1> QED
  BY <1>1, <1>2, <1>3, <1>4 DEF ServiceNext, GetFromCache, WorkerStep

LEMMA HitsGrow ==
  ASSUME Steady, [ServiceNext]_serviceVars
  PROVE  heap' \in [Keys -> Seq(Nat)] /\ \A k \in Keys : SumFunction(heap[k]) <= SumFunction(heap'[k])
<1>1. heap \in [Keys -> Seq(Nat)] /\ \A k \in Keys : SumFunction(heap[k]) \in Nat
  BY HitsFacts DEF Steady, ServiceTypeOK
<1>2. ASSUME NEW u \in Users, WriteHitCount(u) \/ AddHit(u)
      PROVE  heap' \in [Keys -> Seq(Nat)] /\ \A k \in Keys : SumFunction(heap[k]) <= SumFunction(heap'[k])
  <2>1. /\ key[u] \in Keys /\ SumFunction(heap'[key[u]]) = SumFunction(heap[key[u]]) + 1
        /\ heap' \in [Keys -> Seq(Nat)] /\ \A k \in Keys : k # key[u] => heap'[k] = heap[k]
    BY <1>2, RaisedHits
  <2>2. ASSUME NEW k \in Keys PROVE SumFunction(heap[k]) <= SumFunction(heap'[k])
    <3>1. CASE k = key[u]
      BY <1>1, <2>1, <3>1
    <3>2. CASE k # key[u]
      BY <1>1, <2>1, <3>2
    <3> QED
      BY <3>1, <3>2
  <2> QED
    BY <2>1, <2>2
<1>3. ASSUME NEW u \in Users, StoreInCache(u)
      PROVE  heap' \in [Keys -> Seq(Nat)] /\ \A k \in Keys : SumFunction(heap[k]) <= SumFunction(heap'[k])
  <2>1. heap' \in [Keys -> Seq(Nat)] /\ \A k \in Keys : SumFunction(heap'[k]) = SumFunction(heap[k])
    BY <1>3, StoredHits
  <2> QED
    BY <1>1, <2>1
<1>4. CASE heap' = heap
  BY <1>1, <1>4
<1> QED
  BY <1>2, <1>3, <1>4, HeapKept

-----------------------------------------------------------------------------
LEMMA UncountedFacts ==
  ASSUME Steady
  PROVE  /\ IsFiniteSet(Uncounted) /\ Cardinality(Uncounted) \in Nat
         /\ metrics \in [Metrics -> Nat] /\ metrics["hits"] \in Nat
         /\ at \in [Users -> {"next", "hit", "raise", "record", "store", "after"}]
         /\ metric \in [Users -> Metrics]
         /\ heap \in [Keys -> Seq(Nat)]
         /\ AllHits = SumFunction(HitsIn(heap))
         /\ \A k \in Keys : SumFunction(heap[k]) \in Nat
<1>1. Uncounted \in SUBSET Users
  BY DEF Uncounted
<1>2. IsFiniteSet(Uncounted) /\ Cardinality(Uncounted) \in Nat
  BY <1>1, UsersFinite, FS_Subset, FS_CardinalityType
<1>3. /\ metrics \in [Metrics -> Nat] /\ metrics["hits"] \in Nat
      /\ at \in [Users -> {"next", "hit", "raise", "record", "store", "after"}]
      /\ metric \in [Users -> Metrics] /\ heap \in [Keys -> Seq(Nat)]
  BY DEF Steady, ServiceTypeOK, Metrics
<1>4. AllHits = SumFunction(HitsIn(heap)) /\ \A k \in Keys : SumFunction(heap[k]) \in Nat
  BY <1>3, HitsFacts DEF AllHits
<1> QED
  BY <1>2, <1>3, <1>4

LEMMA HitCounted ==
  ASSUME Steady, HitsAgree, NEW u \in Users, WriteHitCount(u) \/ AddHit(u) PROVE HitsAgree'
<1>1. /\ key[u] \in Keys /\ SumFunction(heap'[key[u]]) = SumFunction(heap[key[u]]) + 1
      /\ heap' \in [Keys -> Seq(Nat)] /\ \A k \in Keys : k # key[u] => heap'[k] = heap[k]
  BY RaisedHits
<1>2. /\ IsSummable(HitsIn(heap)) /\ DOMAIN HitsIn(heap) = Keys /\ SumFunction(HitsIn(heap)) \in Nat
      /\ \A k \in Keys : HitsIn(heap)[k] = SumFunction(heap[k])
  BY UncountedFacts, HitsFacts
<1>3. /\ IsSummable(HitsIn(heap')) /\ DOMAIN HitsIn(heap') = Keys /\ AllHits' = SumFunction(HitsIn(heap'))
      /\ \A k \in Keys : HitsIn(heap')[k] = SumFunction(heap'[k])
  BY <1>1, HitsFacts DEF AllHits
<1>4. \A k \in Keys \ {key[u]} : HitsIn(heap')[k] = HitsIn(heap)[k]
  BY <1>1, <1>2, <1>3
<1>5. HitsIn(heap')[key[u]] = HitsIn(heap)[key[u]] + 1 /\ HitsIn(heap)[key[u]] \in Nat
  BY <1>1, <1>2, <1>3, UncountedFacts
<1>6. SumFunction(HitsIn(heap')) = SumFunction(HitsIn(heap)) + (HitsIn(heap')[key[u]] - HitsIn(heap)[key[u]])
  BY <1>1, <1>2, <1>3, <1>4, SumOfChange
<1>7. AllHits' = AllHits + 1 /\ AllHits \in Nat
  BY <1>2, <1>3, <1>5, <1>6, UncountedFacts
<1>8. /\ at[u] \in {"hit", "raise"} /\ metric[u] = "hits" /\ at' = [at EXCEPT ![u] = "record"]
      /\ metric' = metric /\ metrics' = metrics
  <2>1. at[u] \in {"hit", "raise"} /\ SetHitCount(u, HitCount(u) + 1)
    BY RaiseFacts DEF Steady
  <2> QED
    BY <2>1 DEF SetHitCount, Steady, Stands
<1>9. u \notin Uncounted /\ Uncounted' = Uncounted \union {u}
  BY <1>8, UncountedFacts DEF Uncounted
<1>10. Cardinality(Uncounted') = Cardinality(Uncounted) + 1
  BY <1>9, UncountedFacts, FS_AddElement
<1> QED
  BY <1>7, <1>8, <1>10, UncountedFacts DEF HitsAgree

LEMMA HitRecorded ==
  ASSUME Steady, HitsAgree, NEW u \in Users, RecordMetric(u) PROVE HitsAgree'
<1>1. /\ at[u] = "record" /\ at' = [at EXCEPT ![u] = Continues(u)] /\ heap' = heap /\ metric' = metric
      /\ metrics' = [metrics EXCEPT ![metric[u]] = metrics[metric[u]] + 1]
  BY DEF RecordMetric, cached, locals
<1>2. Continues(u) \in {"next", "store", "after"}
  BY DEF Continues
<1>3. AllHits' = AllHits
  BY <1>1 DEF AllHits
<1>4. CASE metric[u] = "hits"
  <2>1. u \in Uncounted /\ Uncounted' = Uncounted \ {u}
    BY <1>1, <1>2, <1>4, UncountedFacts DEF Uncounted
  <2>2. Cardinality(Uncounted') = Cardinality(Uncounted) - 1
    BY <2>1, UncountedFacts, FS_RemoveElement
  <2>3. metrics'["hits"] = metrics["hits"] + 1
    BY <1>1, <1>4, UncountedFacts DEF Metrics
  <2> QED
    BY <1>3, <2>2, <2>3, UncountedFacts DEF HitsAgree
<1>5. CASE metric[u] # "hits"
  <2>1. Uncounted' = Uncounted
    BY <1>1, <1>2, <1>5, UncountedFacts DEF Uncounted
  <2>2. metrics'["hits"] = metrics["hits"]
    BY <1>1, <1>5, UncountedFacts DEF Metrics
  <2> QED
    BY <1>3, <2>1, <2>2 DEF HitsAgree
<1> QED
  BY <1>4, <1>5

(* Other steps of the users touch neither the hits nor their counting.       *)
LEMMA HitsKept ==
  ASSUME Steady, HitsAgree, AllHits' = AllHits, metrics'["hits"] = metrics["hits"],
         \A u \in Users : (at'[u] = "record" /\ metric'[u] = "hits")
                            <=> (at[u] = "record" /\ metric[u] = "hits")
  PROVE  HitsAgree'
<1>1. Uncounted' = Uncounted
  BY DEF Uncounted
<1> QED
  BY <1>1 DEF HitsAgree

LEMMA HitsAgreeNext ==
  ASSUME Steady, HitsAgree, [ServiceNext]_serviceVars PROVE HitsAgree'
<1>t. /\ at \in [Users -> {"next", "hit", "raise", "record", "store", "after"}]
      /\ metric \in [Users -> Metrics] /\ metrics \in [Metrics -> Nat]
  BY UncountedFacts
<1>1. ASSUME NEW u \in Users, NEW k \in Keys, Lookup(u, k) PROVE HitsAgree'
  <2>1. /\ UNCHANGED <<heap, metrics>> /\ at[u] = "next"
        /\ at' = [at EXCEPT ![u] = IF k \in present THEN "hit" ELSE "record"]
        /\ metric' = [metric EXCEPT ![u] = IF k \in present THEN "hits" ELSE "misses"]
    BY <1>1 DEF Lookup, cached
  <2>2. \A v \in Users : (at'[v] = "record" /\ metric'[v] = "hits")
                           <=> (at[v] = "record" /\ metric[v] = "hits")
    BY <1>t, <2>1
  <2>3. AllHits' = AllHits
    BY <2>1 DEF AllHits
  <2> QED
    BY <2>1, <2>2, <2>3, HitsKept
<1>2. ASSUME NEW u \in Users, ReadHitCount(u) PROVE HitsAgree'
  <2>1. UNCHANGED <<heap, metrics, metric>> /\ at[u] = "hit" /\ at' = [at EXCEPT ![u] = "raise"]
    BY <1>2 DEF ReadHitCount, cached
  <2>2. \A v \in Users : (at'[v] = "record" /\ metric'[v] = "hits")
                           <=> (at[v] = "record" /\ metric[v] = "hits")
    BY <1>t, <2>1
  <2>3. AllHits' = AllHits
    BY <2>1 DEF AllHits
  <2> QED
    BY <2>1, <2>2, <2>3, HitsKept
<1>3. ASSUME NEW u \in Users, StoreInCache(u) PROVE HitsAgree'
  <2>1. /\ UNCHANGED <<metrics, metric>> /\ at[u] = "store"
        /\ at' = at \/ \E x \in {"next", "after"} : at' = [at EXCEPT ![u] = x]
    BY <1>3 DEF StoreInCache
  <2>2. \A v \in Users : (at'[v] = "record" /\ metric'[v] = "hits")
                           <=> (at[v] = "record" /\ metric[v] = "hits")
    BY <1>t, <2>1
  <2>3. AllHits' = AllHits
    <3>1. heap' \in [Keys -> Seq(Nat)] /\ \A k \in Keys : SumFunction(heap'[k]) = SumFunction(heap[k])
      BY <1>3, StoredHits
    <3>2. HitsIn(heap') = HitsIn(heap)
      BY <3>1 DEF HitsIn
    <3>3. AllHits' = SumFunction(HitsIn(heap'))
      BY <3>1, HitsFacts DEF AllHits
    <3> QED
      BY <3>2, <3>3, UncountedFacts
  <2> QED
    BY <2>1, <2>2, <2>3, HitsKept
<1>4. ASSUME NEW w \in Workers, WorkerStep(w) PROVE HitsAgree'
  <2>1. UNCHANGED <<heap, metrics>> /\ at[w] = "after" /\ w \in Users
    BY <1>4, KeyFacts DEF WorkerStep, NextRequest, InvalidateCacheEntry, cached
  <2>2. \/ at' = [at EXCEPT ![w] = "next"] /\ metric' = metric
        \/ at' = [at EXCEPT ![w] = "record"] /\ metric' = [metric EXCEPT ![w] = "invalidations"]
    BY <1>4 DEF WorkerStep, NextRequest, InvalidateCacheEntry, locals
  <2>3. \A v \in Users : (at'[v] = "record" /\ metric'[v] = "hits")
                           <=> (at[v] = "record" /\ metric[v] = "hits")
    BY <1>t, <2>1, <2>2
  <2>4. AllHits' = AllHits
    BY <2>1 DEF AllHits
  <2> QED
    BY <2>1, <2>3, <2>4, HitsKept
<1>5. CASE Compare
  <2>1. UNCHANGED <<heap, metrics, metric>> /\ at[Verifier] = "after"
        /\ at' = [at EXCEPT ![Verifier] = "next"]
    BY <1>5 DEF Compare, cached, locals
  <2>2. \A v \in Users : (at'[v] = "record" /\ metric'[v] = "hits")
                           <=> (at[v] = "record" /\ metric[v] = "hits")
    BY <1>t, <2>1
  <2>3. AllHits' = AllHits
    BY <2>1 DEF AllHits
  <2> QED
    BY <2>1, <2>2, <2>3, HitsKept
<1>6. ASSUME NEW c \in Collectors, Collect(c) PROVE HitsAgree'
  <2>1. /\ UNCHANGED <<heap, at, metric>>
        /\ \E m \in {"others", "operations"} : metrics' = [metrics EXCEPT ![m] = @ + 1]
    BY <1>6 DEF Collect, cached, locals
  <2>2. metrics'["hits"] = metrics["hits"]
    BY <1>t, <2>1 DEF Metrics
  <2>3. AllHits' = AllHits
    BY <2>1 DEF AllHits
  <2> QED
    BY <2>1, <2>2, <2>3, HitsKept
<1>7. CASE \/ MonitorTick \/ (\E k \in Keys : ScanCache(k)) \/ ReportStats \/ Stop
           \/ UNCHANGED serviceVars
  <2>1. UNCHANGED <<heap, metrics, metric, at>>
    BY <1>7 DEF MonitorTick, ScanCache, ReportStats, Stop, serviceVars, cached, locals
  <2>2. AllHits' = AllHits
    BY <2>1 DEF AllHits
  <2> QED
    BY <2>1, <2>2, HitsKept
<1> QED
  BY <1>1, <1>2, <1>3, <1>4, <1>5, <1>6, <1>7, HitCounted, HitRecorded
     DEF ServiceNext, GetFromCache, WorkerStep

LEMMA AgreeInit == ServiceInit => HitsAgree /\ OperationsAgree
<1> SUFFICES ASSUME ServiceInit PROVE HitsAgree /\ OperationsAgree
  OBVIOUS
<1>1. Steady
  BY SteadyInit
<1>2. metrics["hits"] = 0 /\ metrics["others"] = 0 /\ metrics["operations"] = 0
  BY DEF ServiceInit, Metrics
<1>3. AllHits = 0
  <2>1. /\ heap \in [Keys -> Seq(Nat)] /\ AllHits = SumFunction(HitsIn(heap))
        /\ \A k \in Keys : heap[k] = <<>>
    BY <1>1, UncountedFacts DEF ServiceInit
  <2>2. IsSummable(HitsIn(heap)) /\ DOMAIN HitsIn(heap) = Keys
        /\ \A k \in Keys : HitsIn(heap)[k] = SumFunction(heap[k])
    BY <2>1, HitsFacts
  <2>3. ASSUME NEW s \in Seq(Nat), Len(s) = 0 PROVE SumFunction(s) = 0
    <3>1. IsSummable(s) /\ DOMAIN s = 1..0
      BY <2>3, SumOfSeq
    <3>2. DOMAIN s = {}
      BY <3>1
    <3>3. SumFunction(s) = Cardinality(DOMAIN s) * 0
      BY <3>1, <3>2, SumOfEqual
    <3> QED
      BY <3>2, <3>3, FS_EmptySet
  <2>4. \A k \in DOMAIN HitsIn(heap) : HitsIn(heap)[k] = 0
    <3>1. \A k \in Keys : heap[k] \in Seq(Nat) /\ Len(heap[k]) = 0
      BY <2>1
    <3> QED
      BY <2>2, <2>3, <3>1
  <2>5. SumFunction(HitsIn(heap)) = Cardinality(DOMAIN HitsIn(heap)) * 0
    BY <2>2, <2>4, SumOfEqual
  <2>6. Cardinality(DOMAIN HitsIn(heap)) \in Nat
    BY <2>2, UsersFinite, FS_CardinalityType
  <2> QED
    BY <2>1, <2>5, <2>6
<1>4. Cardinality(Uncounted) = 0
  <2>1. Uncounted = {}
    BY DEF ServiceInit, Uncounted
  <2> QED
    BY <2>1, FS_EmptySet
<1>5. Cardinality(Halfway) \in Nat
  BY ServiceMapsAssumption, FS_Subset, FS_CardinalityType DEF Halfway
<1> QED
  BY <1>2, <1>3, <1>4, <1>5 DEF HitsAgree, OperationsAgree, Halfway

(* The counts of the service agree in every reachable state: every hit is on *)
(* some result and, but for those just being recorded, in the metrics; no    *)
(* store replaces a result; and the verifier never complains.  It does not   *)
(* depend on the build: unguarded hit counts are no worse, as each key has   *)
(* one user (main.go:51-63, 78-178).                                         *)
THEOREM ServiceCountsAgree == ServiceSpec => []CountsAgree
<1> DEFINE Counting == Steady /\ Rising /\ HitsAgree /\ OperationsAgree
<1>1. ServiceInit => Counting
  BY SteadyInit, RisingInit, AgreeInit
<1>2. Counting /\ [ServiceNext]_serviceVars => Counting'
  BY SteadyNext, HitsAgreeNext, OperationsStay
<1>3. Counting => CountsAgree
  BY DEF Steady, Stands, Verified, NeverReplaced, VerifierSatisfied, CountsAgree
<1> QED
  BY <1>1, <1>2, <1>3, PTL DEF ServiceSpec

-----------------------------------------------------------------------------
(* The monitor's total is at most the hits under the keys it has read.       *)
HitsScanned(h, s) == [k \in Keys |-> IF k \in s THEN 0 ELSE SumFunction(h[k])]
TotalSound == totalHits <= SumFunction(HitsScanned(heap, toScan))

LEMMA ScannedFacts ==
  ASSUME NEW h \in [Keys -> Seq(Nat)], NEW s
  PROVE  /\ IsSummable(HitsScanned(h, s)) /\ DOMAIN HitsScanned(h, s) = Keys
         /\ SumFunction(HitsScanned(h, s)) \in Nat
         /\ SumFunction(HitsScanned(h, s)) <= SumFunction(HitsIn(h))
<1>1. \A k \in Keys : SumFunction(h[k]) \in Nat
  BY HitsFacts
<1>2. /\ DOMAIN HitsScanned(h, s) = Keys
      /\ \A k \in Keys : HitsScanned(h, s)[k] \in Nat /\ HitsScanned(h, s)[k] <= SumFunction(h[k])
  BY <1>1 DEF HitsScanned
<1>3. IsSummable(HitsScanned(h, s)) /\ SumFunction(HitsScanned(h, s)) \in Nat
  BY <1>2, UsersFinite, SumOfNat
<1>4. /\ IsSummable(HitsIn(h)) /\ DOMAIN HitsIn(h) = Keys
      /\ \A k \in Keys : HitsIn(h)[k] = SumFunction(h[k])
  BY HitsFacts
<1>5. SumFunction(HitsScanned(h, s)) <= SumFunction(HitsIn(h))
  BY <1>2, <1>3, <1>4, SumOfLess
<1> QED
  BY <1>2, <1>3, <1>5

LEMMA ScanSound ==
  ASSUME Steady, TotalSound, NEW k \in Keys, ScanCache(k) PROVE TotalSound'
<1>1. /\ k \in toScan /\ toScan' = toScan \ {k} /\ heap' = heap
      /\ totalHits' = IF k \in present THEN totalHits + heap[k][Len(heap[k])] ELSE totalHits
  BY DEF ScanCache, cached
<1>2. /\ heap \in [Keys -> Seq(Nat)] /\ heap[k] \in Seq(Nat) /\ totalHits \in Nat
      /\ (k \in present => Len(heap[k]) > 0)
  BY DEF Steady, ServiceTypeOK, Owned
<1>3. SumFunction(heap[k]) \in Nat /\ totalHits' <= totalHits + SumFunction(heap[k])
  <2>1. /\ SumFunction(heap[k]) \in Nat /\ Len(heap[k]) \in Nat
        /\ \A i \in 1..Len(heap[k]) : heap[k][i] \in Nat /\ heap[k][i] <= SumFunction(heap[k])
    BY <1>2, SumOfSeq
  <2>2. CASE k \in present
    <3>1. Len(heap[k]) \in 1..Len(heap[k])
      BY <1>2, <2>1, <2>2
    <3>2. heap[k][Len(heap[k])] \in Nat /\ heap[k][Len(heap[k])] <= SumFunction(heap[k])
      BY <2>1, <3>1
    <3>3. totalHits' = totalHits + heap[k][Len(heap[k])]
      BY <1>1, <2>2
    <3> QED
      BY <1>2, <2>1, <3>2, <3>3
  <2>3. CASE k \notin present
    <3>1. totalHits' = totalHits
      BY <1>1, <2>3
    <3> QED
      BY <1>2, <2>1, <3>1
  <2> QED
    BY <2>2, <2>3
<1> DEFINE before == HitsScanned(heap, toScan)
           after == HitsScanned(heap, toScan \ {k})
<1>4. IsSummable(before) /\ IsSummable(after) /\ DOMAIN before = Keys /\ DOMAIN after = Keys
      /\ SumFunction(before) \in Nat
  BY <1>2, ScannedFacts
<1>5. before[k] = 0 /\ after[k] = SumFunction(heap[k]) /\ \A l \in Keys \ {k} : after[l] = before[l]
  BY <1>1 DEF HitsScanned
<1>6. totalHits <= SumFunction(before)
  BY DEF TotalSound
<1>7. TotalSound' <=> totalHits' <= SumFunction(after)
  BY <1>1 DEF TotalSound
<1> HIDE DEF before, after
<1>8. SumFunction(after) = SumFunction(before) + (after[k] - before[k])
  BY <1>4, <1>5, SumOfChange
<1>9. totalHits' \in Nat
  BY <1>1, <1>2, SumOfSeq, TypedMonitor DEF Steady, ServiceTypeOK
<1> QED
  BY <1>2, <1>3, <1>4, <1>5, <1>6, <1>7, <1>8, <1>9

(* While hits are only added, what was read stays a lower bound.             *)
LEMMA TotalStaysSound ==
  ASSUME Steady, TotalSound, [ServiceNext]_serviceVars, UNCHANGED <<totalHits, toScan>>
  PROVE  TotalSound'
<1>1. /\ heap \in [Keys -> Seq(Nat)] /\ heap' \in [Keys -> Seq(Nat)] /\ totalHits \in Nat
      /\ \A k \in Keys : /\ SumFunction(heap[k]) \in Nat /\ SumFunction(heap'[k]) \in Nat
                         /\ SumFunction(heap[k]) <= SumFunction(heap'[k])
  BY HitsGrow, HitsFacts DEF Steady, ServiceTypeOK
<1> DEFINE before == HitsScanned(heap, toScan)
           after == HitsScanned(heap', toScan)
<1>2. IsSummable(before) /\ IsSummable(after) /\ DOMAIN before = Keys /\ DOMAIN after = Keys
      /\ SumFunction(before) \in Nat /\ SumFunction(after) \in Nat
  BY <1>1, ScannedFacts
<1>3. \A k \in Keys : before[k] <= after[k]
  BY <1>1 DEF HitsScanned
<1>4. totalHits <= SumFunction(before)
  BY DEF TotalSound
<1>5. TotalSound' <=> totalHits <= SumFunction(after)
  BY DEF TotalSound
<1> HIDE DEF before, after
<1>6. SumFunction(before) <= SumFunction(after)
  BY <1>2, <1>3, SumOfLess
<1> QED
  BY <1>1, <1>2, <1>4, <1>5, <1>6

LEMMA TotalSoundNext ==
  ASSUME Steady, Steady', TotalSound, [ServiceNext]_serviceVars PROVE TotalSound'
<1>1. CASE UNCHANGED <<totalHits, toScan>>
  BY <1>1, TotalStaysSound
<1>2. ASSUME NEW u \in Users, UserStep(u) PROVE UNCHANGED <<totalHits, toScan>>
  BY <1>2 DEF UserStep, GetFromCache, Lookup, ReadHitCount, WriteHitCount, AddHit, SetHitCount,
              RecordMetric, StoreInCache, monitoring
<1>3. ASSUME NEW w \in Workers, WorkerStep(w) PROVE UNCHANGED <<totalHits, toScan>>
  BY <1>3 DEF WorkerStep, NextRequest, InvalidateCacheEntry, monitoring
<1>4. CASE \/ Compare \/ (\E c \in Collectors : Collect(c)) \/ ReportStats \/ Stop
           \/ UNCHANGED serviceVars
  <2>1. UNCHANGED <<totalHits, toScan>>
    BY <1>4 DEF Compare, Collect, ReportStats, Stop, serviceVars, monitoring
  <2> QED
    BY <1>1, <2>1
<1>5. CASE MonitorTick
  <2>1. totalHits' = 0 /\ heap' \in [Keys -> Seq(Nat)]
    BY <1>5 DEF MonitorTick, Steady, ServiceTypeOK
  <2>2. SumFunction(HitsScanned(heap', toScan')) \in Nat
    BY <2>1, ScannedFacts
  <2> QED
    BY <2>1, <2>2 DEF TotalSound
<1>6. ASSUME NEW k \in Keys, ScanCache(k) PROVE TotalSound'
  BY <1>6, ScanSound
<1> QED
  BY <1>1, <1>2, <1>3, <1>4, <1>5, <1>6 DEF ServiceNext, UserStep, WorkerStep

(* In every reachable state the total the monitor has added up exceeds the   *)
(* hits in the metrics by no more than the users that have counted a hit and *)
(* not recorded it yet, though it reads one count after another while they   *)
(* are raised (main.go:182-203).                                             *)
THEOREM MonitorNearlyAgrees == ServiceSpec => []MonitorSkew
<1> DEFINE Counting == Steady /\ Rising /\ HitsAgree /\ TotalSound
<1>1. ServiceInit => Counting
  <2>1. ServiceInit => TotalSound
    <3>1. ServiceInit => totalHits = 0 /\ heap \in [Keys -> Seq(Nat)]
      BY SteadyInit DEF ServiceInit, Steady, ServiceTypeOK
    <3>2. heap \in [Keys -> Seq(Nat)] => SumFunction(HitsScanned(heap, toScan)) \in Nat
      BY ScannedFacts
    <3> QED
      BY <3>1, <3>2 DEF TotalSound
  <2> QED
    BY <2>1, SteadyInit, RisingInit, AgreeInit
<1>2. Counting /\ [ServiceNext]_serviceVars => Counting'
  BY SteadyNext, HitsAgreeNext, TotalSoundNext
<1>3. Counting => MonitorSkew
  <2> SUFFICES ASSUME Counting PROVE MonitorSkew
    OBVIOUS
  <2>1. heap \in [Keys -> Seq(Nat)] /\ AllHits = SumFunction(HitsIn(heap)) /\ totalHits \in Nat
    BY UncountedFacts DEF Steady, ServiceTypeOK
  <2>2. /\ SumFunction(HitsScanned(heap, toScan)) \in Nat /\ SumFunction(HitsIn(heap)) \in Nat
        /\ SumFunction(HitsScanned(heap, toScan)) <= SumFunction(HitsIn(heap))
    BY <2>1, ScannedFacts, HitsFacts
  <2>3. totalHits <= AllHits
    BY <2>1, <2>2 DEF TotalSound
  <2> QED
    BY <2>3 DEF HitsAgree, MonitorSkew
<1> QED
  BY <1>1, <1>2, <1>3, PTL DEF ServiceSpec
=============================================================================
