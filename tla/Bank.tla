-------------------------------- MODULE Bank --------------------------------
(* The banking exercise, 01-race-detector/exercises/ex3-banking/main.go: the *)
(* tellers' transfers, the VIP reporter and main's audit over one RWMutex.   *)
(* Every access to a shared balance is a step.  In the shipped build         *)
(* Transfer holds the read lock and the VIP report follows a pointer after   *)
(* the unlock; solution.diff takes the write lock and copies the account.    *)
(* The fraud check always passes: all it does is let others run in between.  *)
EXTENDS Integers, FiniteSets, Functions

CONSTANTS
  Tellers,         \* the teller goroutines, 4 in the code
  NumAccounts,     \* 8 in the code
  InitialBalance,  \* 1000 in the code
  Amounts,         \* what a transfer may move, 1..100 in the code
  MaxTransfers,    \* transfers per teller, 500 in the code
  Builds           \* a subset of {"shipped", "solution"}

ASSUME BankAssumption ==
  /\ NumAccounts \in Nat /\ InitialBalance \in Nat /\ MaxTransfers \in Nat
  /\ Amounts \subseteq Nat \ {0} /\ "vip" \notin Tellers
  /\ Builds \subseteq {"shipped", "solution"}

VARIABLES
  build,             \* chosen in Init, constant
  balance,           \* of the accounts opened so far
  writers, readers,  \* the goroutines that hold mu for writing and for reading
  pc, tx, done,      \* of each teller: where it is, its transfer, how many it made
  vpc, unseen, lead, \* of the reporter: where it is, accounts to scan, the best one
  vip,               \* what LargestAccount last returned
  audit              \* main's audit: <<>>, then <<the money unaccounted for>>

tellerVars == <<pc, tx, done>>
vipVars == <<vpc, unseen, lead, vip>>
vars == <<build, balance, writers, readers, tellerVars, vipVars, audit>>

Ids == 1..NumAccounts
NoTransfer == [from |-> 0, to |-> 0, amount |-> 0, newFrom |-> 0, newTo |-> 0]
NoReport == [id |-> 0, balance |-> 0]
NotYet == <<>>

Init ==
  /\ build \in Builds
  /\ balance = [id \in {} |-> InitialBalance]
  /\ writers = {} /\ readers = {}
  /\ pc = [t \in Tellers |-> "idle"] /\ tx = [t \in Tellers |-> NoTransfer]
  /\ done = [t \in Tellers |-> 0]
  /\ vpc = "idle" /\ unseen = {} /\ lead = 0 /\ vip = NoReport
  /\ audit = NotYet

NextIDFromZero == Cardinality(DOMAIN balance)  \* mutant of NextID

(* main opens every account before it starts a goroutine.                    *)
Opened == DOMAIN balance = Ids

NextID == Cardinality(DOMAIN balance) + 1

CreateAccount ==
  /\ ~Opened
  /\ balance' = [id \in DOMAIN balance \union {NextID} |->
                   IF id = NextID THEN InitialBalance ELSE balance[id]]
  /\ UNCHANGED <<build, writers, readers, tellerVars, vipVars, audit>>
-----------------------------------------------------------------------------
(* Mutants.                                                                  *)
NoFundsNeeded(t) == TRUE
FollowsPointerAlways == TRUE

EndLocked(t) ==
  /\ pc[t] = "unlock" /\ pc' = [pc EXCEPT ![t] = "idle"]
  /\ done' = [done EXCEPT ![t] = @ + 1]
  /\ UNCHANGED <<build, balance, writers, readers, tx, vipVars, audit>>

DebitAgain(t) ==
  /\ pc[t] = "credit" /\ pc' = [pc EXCEPT ![t] = "unlock"]
  /\ balance' = [balance EXCEPT ![tx[t].from] = tx[t].newFrom]
  /\ UNCHANGED <<build, writers, readers, tx, done, vipVars, audit>>
-----------------------------------------------------------------------------
(* sync.RWMutex: one writer, or any number of readers.                       *)
Lock(g) == writers = {} /\ readers = {} /\ writers' = {g} /\ UNCHANGED readers
RLock(g) == writers = {} /\ readers' = readers \union {g} /\ UNCHANGED writers
Unlock(g) == writers' = writers \ {g} /\ readers' = readers \ {g}

LockForReading(t) == RLock(t)  \* mutant of LockTransfer

Goto(t, here, there) == pc[t] = here /\ pc' = [pc EXCEPT ![t] = there]
-----------------------------------------------------------------------------
(* Transfer, one shared access at a time.                                    *)
LockTransfer(t) == IF build = "shipped" THEN RLock(t) ELSE Lock(t)

Begin(t) ==
  /\ Opened /\ done[t] < MaxTransfers
  /\ Goto(t, "idle", "check")
  /\ LockTransfer(t)
  /\ \E from, to \in Ids, amount \in Amounts :
       tx' = [tx EXCEPT ![t] = [NoTransfer EXCEPT
                                  !.from = from, !.to = to, !.amount = amount]]
  /\ UNCHANGED <<build, balance, done, vipVars, audit>>

HasFunds(t) == balance[tx[t].from] >= tx[t].amount

Check(t) ==
  /\ Goto(t, "check", IF tx[t].from # tx[t].to /\ HasFunds(t)
                        THEN "readFrom" ELSE "unlock")
  /\ UNCHANGED <<build, balance, writers, readers, tx, done, vipVars, audit>>

(* int is wide enough for the differences, which may be negative.            *)
ReadFrom(t) ==
  /\ Goto(t, "readFrom", "readTo")
  /\ tx' = [tx EXCEPT ![t].newFrom = balance[tx[t].from] - tx[t].amount]
  /\ UNCHANGED <<build, balance, writers, readers, done, vipVars, audit>>

ReadTo(t) ==
  /\ Goto(t, "readTo", "debit")
  /\ tx' = [tx EXCEPT ![t].newTo = balance[tx[t].to] + tx[t].amount]
  /\ UNCHANGED <<build, balance, writers, readers, done, vipVars, audit>>

Debit(t) ==
  /\ Goto(t, "debit", "credit")
  /\ balance' = [balance EXCEPT ![tx[t].from] = tx[t].newFrom]
  /\ UNCHANGED <<build, writers, readers, tx, done, vipVars, audit>>

Credit(t) ==
  /\ Goto(t, "credit", "unlock")
  /\ balance' = [balance EXCEPT ![tx[t].to] = tx[t].newTo]
  /\ UNCHANGED <<build, writers, readers, tx, done, vipVars, audit>>

End(t) ==
  /\ Goto(t, "unlock", "idle")
  /\ Unlock(t)
  /\ done' = [done EXCEPT ![t] = @ + 1]
  /\ UNCHANGED <<build, balance, tx, vipVars, audit>>

Teller(t) ==
  \/ Begin(t) \/ Check(t) \/ ReadFrom(t) \/ ReadTo(t) \/ Debit(t) \/ Credit(t)
  \/ End(t)

TellersDone == \A t \in Tellers : done[t] = MaxTransfers
-----------------------------------------------------------------------------
(* LargestAccount scans the map in any order; vipReporter prints the result. *)
Tick ==
  /\ Opened /\ vpc = "idle"
  /\ RLock("vip")
  /\ vpc' = "scan" /\ unseen' = Ids /\ lead' = 0
  /\ UNCHANGED <<build, balance, tellerVars, vip, audit>>

Scan ==
  /\ vpc = "scan"
  /\ \E id \in unseen :
       /\ lead' = IF lead = 0 \/ balance[id] > balance[lead] THEN id ELSE lead
       /\ unseen' = unseen \ {id}
  /\ UNCHANGED <<build, balance, writers, readers, tellerVars, vpc, vip, audit>>

Scanned ==
  /\ vpc = "scan" /\ unseen = {}
  /\ Unlock("vip")
  /\ IF lead = 0
       THEN vpc' = "idle" /\ UNCHANGED vip
       ELSE vpc' = "print" /\ vip' = [id |-> lead, balance |-> balance[lead]]
  /\ UNCHANGED <<build, balance, tellerVars, unseen, lead, audit>>

(* Printing follows the pointer in the shipped build, without the lock; it   *)
(* prints the copy in the other.                                             *)
FollowsPointer == build = "shipped"

PrintReport ==
  /\ vpc = "print"
  /\ vpc' = "idle"
  /\ UNCHANGED <<build, balance, writers, readers, tellerVars, unseen, lead, vip, audit>>

(* main closes done when the tellers are through; the reporter stops then.   *)
StopReporter ==
  /\ Opened /\ TellersDone /\ vpc = "idle"
  /\ vpc' = "gone"
  /\ UNCHANGED <<build, balance, writers, readers, tellerVars, unseen, lead, vip, audit>>

Reporter == Tick \/ Scan \/ Scanned \/ PrintReport \/ StopReporter
-----------------------------------------------------------------------------
(* The audit at the end of main: nobody writes any more, so TotalBalance is  *)
(* one step.                                                                 *)
Total(b) == SumFunction(b)
Expected == NumAccounts * InitialBalance

Audit ==
  /\ Opened /\ TellersDone /\ audit = NotYet /\ writers = {}
  /\ audit' = <<Total(balance) - Expected>>
  /\ UNCHANGED <<build, balance, writers, readers, tellerVars, vipVars>>

Next == CreateAccount \/ Reporter \/ Audit \/ \E t \in Tellers : Teller(t)

Spec == Init /\ [][Next]_vars

(* A goroutine that can run is run.  RWMutex lets no new reader in while a   *)
(* writer waits, so a teller that keeps finding mu free gets it; and select  *)
(* picks at random, so the reporter does not overlook done for ever.         *)
FairSpec ==
  /\ Spec
  /\ WF_vars(CreateAccount) /\ WF_vars(Scan \/ Scanned \/ PrintReport)
  /\ SF_vars(StopReporter) /\ SF_vars(Audit)
  /\ \A t \in Tellers : WF_vars(Teller(t)) /\ SF_vars(Begin(t))
-----------------------------------------------------------------------------
(* The variables have their types.                                           *)
TypeOK ==
  /\ build \in Builds
  /\ DOMAIN balance \subseteq Ids /\ balance \in [DOMAIN balance -> Int]
  /\ writers \subseteq Tellers /\ readers \subseteq Tellers \union {"vip"}
  /\ pc \in [Tellers -> {"idle", "check", "readFrom", "readTo", "debit", "credit",
                        "unlock"}]
  /\ tx \in [Tellers -> [from : Ids \union {0}, to : Ids \union {0},
                         amount : Amounts \union {0}, newFrom : Int, newTo : Int]]
  /\ done \in [Tellers -> 0..MaxTransfers]
  /\ vpc \in {"idle", "scan", "print", "gone"}
  /\ unseen \subseteq Ids /\ lead \in Ids \union {0}
  /\ vip \in [id : Ids \union {0}, balance : Int]

(* What follows but for AuditPasses is promised by the solution build.       *)
Safe == build = "solution"

(* Transfers move money, they never mint it: the audit finds no difference,  *)
(* and between transfers no caller of TotalBalance would.                    *)
BooksBalance ==
  Safe =>
  /\ audit # NotYet => audit = <<0>>
  /\ writers = {} => Total(balance) = Cardinality(DOMAIN balance) * InitialBalance

(* The audit alone, as the comment in main puts it ("The books must balance",*)
(* main.go:198).                                                             *)
AuditPasses == audit # NotYet => audit = <<0>>

(* A transfer never overdraws the account it takes the money from.           *)
NoOverdraft == Safe => \A id \in DOMAIN balance : balance[id] >= 0

(* What a goroutine is about to write or read of the accounts' balances.     *)
Writes(t) ==
  CASE pc[t] = "debit"  -> {tx[t].from}
    [] pc[t] = "credit" -> {tx[t].to}
    [] OTHER            -> {}
Reads(t) ==
  CASE pc[t] \in {"check", "readFrom"} -> {tx[t].from}
    [] pc[t] = "readTo"                -> {tx[t].to}
    [] OTHER                           -> {}
ReporterReads ==
  CASE vpc = "scan" -> Ids
    [] vpc = "print" /\ FollowsPointer -> {vip.id}
    [] OTHER -> {}

(* No two goroutines are ever about to touch the same balance, one of them   *)
(* to write it ("safe for concurrent use", main.go:17-18).                   *)
NoDataRace ==
  Safe => \A t \in Tellers :
    /\ Writes(t) \intersect ReporterReads = {}
    /\ \A u \in Tellers \ {t} : Writes(t) \intersect (Writes(u) \union Reads(u)) = {}

(* The tellers never lock one another, or the reporter, out for good: main   *)
(* gets to its audit.                                                        *)
AuditHappens == <>(audit # NotYet)

(* Bank keeps AtomicBank's promise: a transfer happens when it debits, which *)
(* nobody can see before it has credited.                                    *)
Settled ==
  [id \in DOMAIN balance |->
     IF \E t \in writers : pc[t] = "credit" /\ tx[t].to = id
       THEN tx[CHOOSE t \in writers : pc[t] = "credit" /\ tx[t].to = id].newTo
       ELSE balance[id]]

Atomic == INSTANCE AtomicBank WITH balance <- Settled
Linearizable == Atomic!Init /\ [][Safe => Atomic!Next]_(Atomic!vars)
=============================================================================
