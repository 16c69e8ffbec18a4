------------------------------ MODULE MCLookup ------------------------------
(* Two workers, so that one request can run while another waits; a channel   *)
(* with one slot, which is full as often as one of 1024 may be; rounds up to *)
(* the full refresh (n = 3) and one after it.                                *)
EXTENDS Lookup

MCWorkers == 1..2
MCEntries == 1..2
=============================================================================
