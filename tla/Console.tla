------------------------------ MODULE Console ------------------------------
(***************************************************************************)
(* The command console: a receive interrupt collects the characters of a   *)
(* line in a buffer, a task executes the lines, and NumBuf buffers go      *)
(* round between the two: free, being received, ready, being executed.     *)
(*                                                                         *)
(* The interrupt takes what the UART holds in one run and starts the next  *)
(* run from rx_data_cnt; here it takes one character per action, either as *)
(* the first of a run or in the run before.  A line end is '\n', '\r', or  *)
(* "\r\n" found together.  Without a receive buffer characters are         *)
(* discarded, which changes nothing and is no action.  One thread starts   *)
(* and stops the console in turn, not the console's own, and nobody        *)
(* enables it while it is being stopped.                                   *)
(*                                                                         *)
(* The buffers lie one behind the other.  A backspace leaves the pointer   *)
(* where it is, so the rest of the run may store a character or the        *)
(* terminator behind the buffer, in the first byte of the next one; then   *)
(* the check of console.c:231 and 252 finds it and CONS_ABORT spins in the *)
(* interrupt for ever (Overrun).  What lies behind the last buffer is not  *)
(* modelled, nor what was left in a buffer behind an empty line.           *)
(***************************************************************************)
EXTENDS Integers, Sequences, FiniteSets

CONSTANTS NumBuf,  \* CONSOLE_CMD_LINE_BUF_NUM
          MaxLen,  \* CONSOLE_CMD_LINE_MAX_LEN
          Char     \* printable characters

ASSUME NumBufAssumption == NumBuf \in Nat \ {0}
ASSUME MaxLenAssumption == MaxLen \in Nat \ {0}

Buf == 0 .. NumBuf - 1
None == NumBuf

VARIABLES state,   \* of the console: "stop", "start" or "terminate"
          ctl,     \* the thread in console_start or console_stop
          rxOn,    \* the receive callback is enabled
          hung,    \* the receive interrupt is in CONS_ABORT: nothing else runs
          pc,      \* where the task is
          sem,     \* cmd_sem
          free,    \* free_buf_bitmap
          ready,   \* ready_buf_bitmap
          rx,      \* rx_buf_idx
          cnt,     \* rx_data_cnt
          last,    \* last_cmd_buf_idx
          cmd,     \* cmd_buf_idx of the task
          text,    \* what is in each buffer, up to rx_buf
          echo,    \* history: the line as the terminal shows it
          odd,     \* history: buffers with a line of which a character was
                   \* stored elsewhere than at rx_data_cnt, or the end missed
          order    \* history: the ready buffers in the order they were filled

ctlVars == <<state, ctl, rxOn, hung>>
lineVars == <<text, echo, odd>>
taskVars == <<pc, last, cmd>>
vars == <<ctlVars, taskVars, sem, free, ready, rx, cnt, lineVars, order>>

-----------------------------------------------------------------------------
\* How many steps round the buffers lead from behind i to b.
Dist(i, b) == IF b > i THEN b - i - 1 ELSE b - i - 1 + NumBuf

\* The search starts at the first buffer.
PickBug(S, i) == CHOOSE b \in S : \A c \in S : b <= c

\* console_get_valid_buf_idx.
Pick(S, i) == CHOOSE b \in S : \A c \in S : Dist(i, b) <= Dist(i, c)

Init ==
  /\ state = "stop" /\ ctl = "idle" /\ rxOn = FALSE /\ hung = FALSE
  /\ pc = "none" /\ last = 0 /\ cmd = None
  /\ sem = 0 /\ free = {} /\ ready = {} /\ rx = 0 /\ cnt = 0
  /\ text = [b \in Buf |-> << >>] /\ echo = [b \in Buf |-> << >>]
  /\ odd = {} /\ order = << >>

\* The task and the interrupt may run before state says so.
Start ==
  /\ state = "stop" /\ ctl = "idle" /\ ~hung
  /\ sem' = 0 /\ ready' = {} /\ last' = NumBuf - 1
  /\ rx' = 0 /\ cnt' = 0 /\ free' = Buf \ {0}
  /\ text' = [b \in Buf |-> << >>] /\ echo' = [b \in Buf |-> << >>]
  /\ odd' = {} /\ order' = << >>
  /\ \/ pc' = "wait" /\ rxOn' = TRUE /\ ctl' = "starting"
     \* No semaphore, or no thread: CONS_ERR ends in CONS_ABORT.
     \/ ctl' = "failed" /\ UNCHANGED <<pc, rxOn>>
  /\ UNCHANGED <<state, hung, cmd>>

Started ==
  /\ ctl = "starting" /\ ~hung
  /\ ctl' = "idle" /\ state' = "start"
  /\ UNCHANGED <<rxOn, hung, taskVars, sem, free, ready, rx, cnt, lineVars, order>>

\* The run of the callback is over: the next one continues at rx_data_cnt.
RunOver == [b \in Buf |-> IF b = rx THEN SubSeq(text[b], 1, cnt) ELSE text[b]]

Stop ==
  /\ state = "start" /\ ctl = "idle" /\ ~hung
  /\ rxOn' = FALSE /\ state' = "terminate" /\ ctl' = "stopping"
  /\ sem' = sem + 1
  /\ text' = RunOver
  /\ UNCHANGED <<hung, taskVars, free, ready, rx, cnt, echo, odd, order>>

Stopped ==
  /\ ctl = "stopping" /\ pc = "none" /\ ~hung
  /\ ctl' = "idle" /\ state' = "stop" /\ sem' = 0
  /\ UNCHANGED <<rxOn, hung, taskVars, free, ready, rx, cnt, lineVars, order>>

Disable ==
  /\ state = "start" /\ ctl = "idle" /\ rxOn /\ ~hung
  /\ rxOn' = FALSE /\ text' = RunOver
  /\ UNCHANGED <<state, ctl, hung, taskVars, sem, free, ready, rx, cnt, echo, odd, order>>

Enable ==
  /\ state = "start" /\ ctl = "idle" /\ ~rxOn /\ ~hung
  /\ rxOn' = TRUE
  /\ UNCHANGED <<state, ctl, hung, taskVars, sem, free, ready, rx, cnt, lineVars, order>>

-----------------------------------------------------------------------------
(* console_rx_callback *)

Receiving == rxOn /\ rx # None /\ ~hung

\* Where rx_buf points: at rx_data_cnt in a new run, behind what was stored
\* last in the same run.  A backspace moves only the count back.
Offset == {cnt, Len(text[rx])}

Strays(at) == IF at = cnt THEN odd ELSE odd \cup {rx}

\* The store in the byte behind the buffer makes line, which is one character
\* or none, the beginning of what the next buffer holds.
Overrun(line) ==
  /\ hung' = TRUE
  /\ text' = IF rx + 1 \notin Buf THEN text
             ELSE [text EXCEPT ![rx + 1] =
                     IF line = << >> THEN << >> ELSE line \o SubSeq(@, 2, Len(@))]
  /\ odd' = Strays(MaxLen)
  /\ UNCHANGED <<state, ctl, rxOn, taskVars, sem, free, ready, rx, cnt, order>>

FullBug == cnt + 1 > MaxLen
Full == cnt + 1 >= MaxLen

ResetLine ==
  /\ cnt' = 0
  /\ text' = [text EXCEPT ![rx] = << >>] /\ echo' = [echo EXCEPT ![rx] = << >>]
  /\ odd' = odd \ {rx}

\* The character that fills the line is stored before the line is thrown away.
Type ==
  /\ Receiving
  /\ \E c \in Char, at \in Offset :
       \/ /\ at = MaxLen
          /\ Overrun(<<c>>)
          /\ echo' = [echo EXCEPT ![rx] = Append(@, c)]
       \/ /\ at < MaxLen
          /\ \/ Full /\ ResetLine
             \/ /\ ~Full
                /\ text' = [text EXCEPT ![rx] = Append(SubSeq(@, 1, at), c)]
                /\ echo' = [echo EXCEPT ![rx] = Append(@, c)]
                /\ odd' = Strays(at)
                /\ cnt' = cnt + 1
          /\ UNCHANGED <<ctlVars, taskVars, sem, free, ready, rx, order>>

\* The character is wiped from the terminal only.
ErasedBug == cnt
Erased == cnt - 1

Backspace ==
  /\ Receiving /\ cnt > 0
  /\ cnt' = Erased
  /\ \E at \in Offset : text' = [text EXCEPT ![rx] = SubSeq(@, 1, at)]
  /\ echo' = [echo EXCEPT ![rx] = SubSeq(@, 1, cnt - 1)]
  /\ UNCHANGED <<ctlVars, taskVars, sem, free, ready, rx, odd, order>>

Illegal ==
  /\ Receiving
  /\ ResetLine
  /\ UNCHANGED <<ctlVars, taskVars, sem, free, ready, rx, order>>

\* A semaphore that does not count.
ReleaseBug == sem' = 1
Release == sem' = sem + 1

\* console_rx_cmdline.
NewLine ==
  /\ ready' = ready \cup {rx} /\ order' = Append(order, rx)
  /\ rx' = IF free = {} THEN None ELSE Pick(free, rx)
  /\ free' = free \ {rx'}
  /\ cnt' = 0
  /\ Release
  /\ UNCHANGED <<ctlVars, taskVars, echo>>

LineEnd ==
  /\ Receiving
  /\ \E at \in Offset :
       \/ at = MaxLen /\ Overrun(<< >>) /\ UNCHANGED echo
       \/ /\ at < MaxLen
          /\ text' = [text EXCEPT ![rx] = SubSeq(@, 1, at)] /\ odd' = Strays(at)
          /\ NewLine

\* Another reader of the UART gets the end of a line begun here.
Missed ==
  /\ state = "start" /\ ~rxOn /\ ~hung /\ rx # None /\ cnt > 0
  /\ odd' = odd \cup {rx}
  /\ UNCHANGED <<ctlVars, taskVars, sem, free, ready, rx, cnt, text, echo, order>>

-----------------------------------------------------------------------------
(* console_task *)

Woken ==
  /\ pc = "wait" /\ sem > 0 /\ ~hung
  /\ pc' = "woken" /\ sem' = sem - 1
  /\ UNCHANGED <<ctlVars, last, cmd, free, ready, rx, cnt, lineVars, order>>

Exit ==
  /\ pc = "woken" /\ state # "start" /\ ~hung
  /\ pc' = "none"
  /\ UNCHANGED <<ctlVars, last, cmd, sem, free, ready, rx, cnt, lineVars, order>>

\* With ready = {} the code logs an error and waits again: see Accounted.
Take ==
  /\ pc = "woken" /\ state = "start" /\ ready # {} /\ ~hung
  /\ pc' = "exec" /\ cmd' = Pick(ready, last)
  /\ ready' = ready \ {cmd'} /\ order' = Tail(order)
  /\ UNCHANGED <<ctlVars, last, sem, free, rx, cnt, lineVars>>

\* The else is forgotten.
FinishBug ==
  /\ pc = "exec" /\ ~hung /\ pc' = "wait"
  /\ last' = cmd /\ cmd' = None
  /\ text' = [text EXCEPT ![cmd] = << >>] /\ echo' = [echo EXCEPT ![cmd] = << >>]
  /\ odd' = odd \ {cmd}
  /\ free' = free \cup {cmd}
  /\ IF rx = None THEN rx' = cmd /\ cnt' = 0 ELSE UNCHANGED <<rx, cnt>>
  /\ UNCHANGED <<ctlVars, sem, ready, order>>

\* The command has been executed; its buffer takes the next line, or waits.
Finish ==
  /\ pc = "exec" /\ ~hung /\ pc' = "wait"
  /\ last' = cmd /\ cmd' = None
  /\ text' = [text EXCEPT ![cmd] = << >>] /\ echo' = [echo EXCEPT ![cmd] = << >>]
  /\ odd' = odd \ {cmd}
  /\ \/ rx = None /\ rx' = cmd /\ cnt' = 0 /\ UNCHANGED free
     \/ rx # None /\ free' = free \cup {cmd} /\ UNCHANGED <<rx, cnt>>
  /\ UNCHANGED <<ctlVars, sem, ready, order>>

Task == Woken \/ Exit \/ Take \/ Finish

Control == Start \/ Started \/ Stop \/ Stopped \/ Disable \/ Enable

\* CONS_ABORT: do { } while (1).
Abort == (hung \/ ctl = "failed") /\ UNCHANGED vars

Next == Control \/ Type \/ Backspace \/ Illegal \/ LineEnd \/ Missed \/ Task \/ Abort

Spec == Init /\ [][Next]_vars

\* Threads get their turn and commands return; nobody need ever type.
FairSpec == Spec /\ WF_vars(Task) /\ WF_vars(Started) /\ WF_vars(Stopped)

-----------------------------------------------------------------------------
\* A line that is complete has room for its terminator, unless the interrupt
\* hangs because that was stored behind the buffer.
TypeOK ==
  /\ state \in {"stop", "start", "terminate"}
  /\ ctl \in {"idle", "starting", "stopping", "failed"}
  /\ rxOn \in BOOLEAN /\ hung \in BOOLEAN
  /\ pc \in {"none", "wait", "woken", "exec"}
  /\ sem \in Nat
  /\ free \subseteq Buf /\ ready \subseteq Buf /\ odd \subseteq Buf
  /\ rx \in Buf \cup {None} /\ cnt \in 0 .. MaxLen - 1
  /\ last \in Buf /\ cmd \in Buf \cup {None}
  /\ text \in [Buf -> Seq(Char)] /\ \A b \in Buf : Len(text[b]) <= MaxLen
  /\ ~hung => \A b \in (ready \cup {cmd}) \ {None} : Len(text[b]) < MaxLen
  /\ echo \in [Buf -> Seq(Char)]
  /\ order \in Seq(Buf)

Owners(b) == {o \in {"free", "ready", "rx", "cmd"} :
                \/ o = "free" /\ b \in free
                \/ o = "ready" /\ b \in ready
                \/ o = "rx" /\ b = rx
                \/ o = "cmd" /\ b = cmd}

\* While the task lives every buffer is free, being received, ready or being
\* executed, and only one of these, and every ready command has its token, a
\* stop in progress one more: the task never wakes for nothing and never sleeps
\* over a command or over the stop that waits for it.
Accounted ==
  /\ pc # "none" => \A b \in Buf : Cardinality(Owners(b)) = 1
  /\ pc # "none" =>
       Cardinality(ready) + (IF state = "terminate" THEN 1 ELSE 0)
         = sem + (IF pc = "woken" THEN 1 ELSE 0)

\* The line behind the one that overran its buffer.
Spoilt(b) == hung /\ b = rx + 1

\* What is executed is what the terminal shows since the line was begun, or
\* thrown away as illegal or too long, and it stays so to the end of the
\* command: no other line mixed in, nothing overwritten by the next one.  Not
\* claimed of a line with a backspace in the middle of a run of the callback,
\* nor of one whose end another reader got (odd).  No other line overruns its
\* buffer, and when one does the next buffer is all that is spoilt.
Echoed ==
  /\ \A b \in (ready \cup {cmd}) \ (odd \cup {None}) : text[b] = echo[b] \/ Spoilt(b)
  /\ hung => rx \in odd

\* Commands are executed in the order they were typed.
InOrder == [][pc' = "exec" /\ pc # "exec" => cmd' = Head(order)]_vars

\* What the ready buffers hold, and the one whose command is being executed.
Waiting == [i \in 1 .. Len(order) |-> text[order[i]]]
Executing == IF cmd = None THEN << >> ELSE <<text[cmd]>>

Lines == INSTANCE LineQueue WITH queue <- Waiting, current <- Executing, broken <- hung

\* Whatever buffers they go through, lines are executed in the order they were
\* ended, each once, and none changes between its end and that of its command.
\* The interrupt that overruns a buffer may spoil one of them and hangs, so no
\* command begins with a line spoilt in that way.
ImplementsQueue == Lines!Spec

\* A ready command is executed and a stopped console stops, however the
\* interrupt and the threads interleave.  A console whose first line came in
\* before console_start had set the state has lost its task (pc = "none"), and
\* one whose interrupt overran a buffer executes nothing more; that interrupt
\* never comes while the console is being stopped.
Responds ==
  /\ \A b \in Buf : b \in ready ~> b \notin ready \/ state # "start" \/ pc = "none" \/ hung
  /\ ctl = "stopping" ~> state = "stop"

=============================================================================
