---------------------------- MODULE MCDispatcher ----------------------------
(* The constants of the code, main.go:64-70, and batches on both sides of    *)
(* the boundary: the smoke test's 4, the last that fits, the first that does *)
(* not, and the 12 of main.                                                  *)
EXTENDS Dispatcher

MCWorkers == 1..3
MCBatchSizes == {4, 9, 10, 12}
=============================================================================
