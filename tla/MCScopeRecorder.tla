--------------------------- MODULE MCScopeRecorder ---------------------------
(* Bursts of two slots; a window of half the ring, and of the whole ring.    *)
EXTENDS ScopeRecorder

HalfAndWhole == {N - 1, 2 * N - 1}
=============================================================================
