----------------------------- MODULE AtomicBank -----------------------------
(* What Bank promises its callers: accounts are opened, money moves between  *)
(* two of them in one indivisible step, and a VIP report names an account    *)
(* that leads at the moment of the report, with the balance it has then.     *)
EXTENDS Naturals

CONSTANTS InitialBalance, NumAccounts, Amounts

VARIABLES
  balance,  \* of every account opened so far, IDs 1, 2, ...
  vip       \* the last VIP report

vars == <<balance, vip>>

NoReport == [id |-> 0, balance |-> 0]

Init == balance = [id \in {} |-> InitialBalance] /\ vip = NoReport

Open(id) ==
  /\ id \notin DOMAIN balance
  /\ balance' = [i \in DOMAIN balance \union {id} |->
                   IF i = id THEN InitialBalance ELSE balance[i]]
  /\ UNCHANGED vip

Move(from, to, amount) ==
  /\ from # to /\ balance[from] >= amount
  /\ balance' = [balance EXCEPT ![from] = @ - amount, ![to] = @ + amount]
  /\ UNCHANGED vip

Report(id) ==
  /\ \A other \in DOMAIN balance : balance[other] <= balance[id]
  /\ vip' = [id |-> id, balance |-> balance[id]]
  /\ UNCHANGED balance

Next ==
  \/ \E id \in 1..NumAccounts : Open(id)
  \/ \E from, to \in DOMAIN balance, amount \in Amounts : Move(from, to, amount)
  \/ \E id \in DOMAIN balance : Report(id)

Spec == Init /\ [][Next]_vars
=============================================================================
