---------------------------- MODULE ExpiringMap ----------------------------
(* What the cache of 01-race-detector/exercises/ex4-testing promises: a map  *)
(* that forgets a key TTL after it was last set.  There is no sweeping here, *)
(* and no lock: a client cannot tell when the janitor runs.                  *)
EXTENDS Naturals

CONSTANTS Keys, Values, Clients, TTL, Miss

VARIABLES
  clock,
  map,     \* the keys that have not expired, with value and expiry
  answer   \* what each client's last Get returned

vars == <<clock, map, answer>>

Init == clock = 0 /\ map = <<>> /\ answer = [c \in Clients |-> Miss]

Set(k, v) ==
  /\ map' = [x \in DOMAIN map \union {k} |->
               IF x = k THEN [value |-> v, expiresAt |-> clock + TTL] ELSE map[x]]
  /\ UNCHANGED <<clock, answer>>

Get(c, k) ==
  /\ answer' = [answer EXCEPT ![c] = IF k \in DOMAIN map THEN map[k].value ELSE Miss]
  /\ UNCHANGED <<clock, map>>

Elapse ==
  /\ clock' = clock + 1
  /\ map' = [k \in {x \in DOMAIN map : map[x].expiresAt > clock} |-> map[k]]
  /\ UNCHANGED answer

Next ==
  \/ Elapse
  \/ \E k \in Keys : (\E v \in Values : Set(k, v)) \/ (\E c \in Clients : Get(c, k))

Spec == Init /\ [][Next]_vars
=============================================================================
