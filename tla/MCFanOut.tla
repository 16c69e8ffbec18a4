------------------------------ MODULE MCFanOut ------------------------------
(* Three workers, and stretches of the code's own stream of 200 events: the  *)
(* first that has a warning and an error, the one around the first critical  *)
(* event (the 37th), and one with a single event.                            *)
EXTENDS FanOut

MCWorkers == 1..3
Stretch(from, to) == SubSeq(generateEvents(200), from, to)
MCStreams == {Stretch(7, 11), Stretch(34, 38), Stretch(37, 37)}
=============================================================================
