----------------------------- MODULE MCShipper ------------------------------
(* Fewer workers than records, so that IDs wait for busy workers, and enough *)
(* workers that several wait for the one collector.                          *)
EXTENDS Shipper

MCWorkers == 1..3
=============================================================================
