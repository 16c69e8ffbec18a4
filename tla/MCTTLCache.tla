----------------------------- MODULE MCTTLCache -----------------------------
(* The times of the tests, in seconds: TTL 1, a sweep every 2.  Two keys, so *)
(* that one may be swept and the other renewed; two clients and two Gets, so *)
(* that a count can be lost; two ticks, of which one may come late.  What is *)
(* stored does not matter to any step, so one value is enough.               *)
EXTENDS TTLCache

MCKeys == {"k1", "k2"}
MCValues == {"v1"}
MCClients == 1..2
=============================================================================
