---------------------------- MODULE MCAnalyzer ------------------------------
(* Two goroutines of one start function, which block at two sites; a report  *)
(* of one line, so that something is cut off; times around minSchedWait.     *)
EXTENDS Analyzer, TLC

CONSTANTS g1, g2
MCGoroutines == {g1, g2}
Symmetry == Permutations(MCGoroutines)
MCStartFunc == [g \in MCGoroutines |-> "main.worker"]
MCSites == {"recv", "lock"}
=============================================================================
