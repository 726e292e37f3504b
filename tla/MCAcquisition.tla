---------------------------- MODULE MCAcquisition ----------------------------
(* The smallest FIFO the core works with and a ring that takes three         *)
(* intervals; the words go around it twice.                                  *)
EXTENDS Acquisition

\* Signal ends a run; until then nothing stops.
Running == ~interrupted
=============================================================================
