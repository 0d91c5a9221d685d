---------------------------- MODULE SampleStream ----------------------------
(***************************************************************************)
(* What an application may expect of a playback stream: the samples it has *)
(* handed over are numbered from 1, and the speaker gets them in that      *)
(* order, each once, none left out.  Silence and repeats between them are  *)
(* not samples.  Closing the stream drops what is still on its way.        *)
(***************************************************************************)
EXTENDS Naturals, Sequences

VARIABLES taken,   \* samples accepted since the stream was opened
          out      \* samples the speaker has played

Init == taken = 0 /\ out = << >>

Take == taken' \in Nat /\ taken' > taken /\ UNCHANGED out

Play == /\ \E k \in 1 .. taken - Len(out) :
             out' = out \o [i \in 1 .. k |-> Len(out) + i]
        /\ UNCHANGED taken

Close == taken' = 0 /\ out' = << >>

Next == Take \/ Play \/ Close

Spec == Init /\ [][Next]_<<taken, out>>
=============================================================================
