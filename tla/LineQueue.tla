------------------------------ MODULE LineQueue ------------------------------
(***************************************************************************)
(* What the users of a console may expect: lines are executed one at a     *)
(* time, in the order they were ended, each once and as it was typed: it   *)
(* does not change while it waits or is executed.  Starting the console    *)
(* anew drops what waits.  The queue may break: then one of its lines may  *)
(* change, and nothing happens any more.                                   *)
(***************************************************************************)
EXTENDS Naturals, Sequences

VARIABLES queue,   \* the lines that wait
          current, \* the line that is executed, as a sequence of at most one
          broken   \* nothing is taken or executed any more

lineVars == <<queue, current, broken>>

Init == queue = << >> /\ current = << >> /\ broken = FALSE

Arrive == /\ Len(queue') = Len(queue) + 1
          /\ \A i \in 1 .. Len(queue) : queue'[i] = queue[i]
          /\ UNCHANGED current

Execute == /\ current = << >> /\ queue # << >>
           /\ current' = <<Head(queue)>> /\ queue' = Tail(queue)

Done == current # << >> /\ current' = << >> /\ UNCHANGED queue

Restart == current = << >> /\ queue' = << >> /\ UNCHANGED current

Work == ~broken /\ broken' = FALSE /\ (Arrive \/ Execute \/ Done \/ Restart)

\* q is line by line what p is, but for one line.
Alike(p, q) ==
  /\ Len(q) = Len(p)
  /\ \E i \in 1 .. Len(p) : \A j \in 1 .. Len(p) : j # i => q[j] = p[j]

Break == /\ ~broken /\ broken' = TRUE
         /\ \/ UNCHANGED <<queue, current>>
            \/ Alike(queue, queue') /\ UNCHANGED current
            \/ Alike(current, current') /\ UNCHANGED queue

Next == Work \/ Break

Spec == Init /\ [][Next]_lineVars
=============================================================================
