----------------------------- MODULE MCPlayback -----------------------------
(* Halves of three samples; writes of up to two halves and a sample.        *)
EXTENDS Playback
=============================================================================
