------------------------------- MODULE SysCtrl -------------------------------
(***************************************************************************)
(* The system control of the framework (sys_ctrl/): a looper thread takes  *)
(* messages from a bounded queue, runs the handler a message carries,      *)
(* notifies the observers of its event and calls the destructor of the     *)
(* message.  Observers are attached and detached by any thread, and by the *)
(* callbacks themselves while the publisher goes through its list.         *)
(*                                                                         *)
(* The publisher's mutex is recursive and held by the looper during a      *)
(* whole notification; a call of another thread waits for it, a call of a  *)
(* callback does not, so every attach and detach is one action.            *)
(* observer_destroy takes no lock.  list_del leaves a node that            *)
(* list_empty recognises.  A callback ends, after any number of calls.     *)
(***************************************************************************)
EXTENDS Integers, Sequences, FiniteSets

CONSTANTS Obs,          \* the observers of the application
          Event,        \* what a message can report
          ObsEvent,     \* obs->event
          Matches(_, _),\* base->compare
          Client,       \* threads that call sys_handler_send_wait_finish
          NoOne,        \* a message nobody waits for
          QueueLen,     \* PRJCONF_SYS_CTRL_QUEUE_LEN
          Careful       \* callbacks detach only attached observers, and do
                        \* not touch the observer they are called for

ASSUME ObsAssumption == ObsEvent \in [Obs -> Event]
ASSUME ClientAssumption == NoOne \notin Client
ASSUME QueueAssumption == QueueLen \in Nat \ {0}
ASSUME CarefulAssumption == Careful \in BOOLEAN
ASSUME MatchAssumption == \A e, f \in Event : Matches(e, f) \in BOOLEAN

VARIABLES queue,        \* messages, oldest first
          msg,          \* the looper's message
          pc,           \* where the looper is
          pos,          \* itor, as an index of list
          gone,         \* the observer unlinked by notify and not yet idle
          state,        \* base->state
          list,         \* base->head
          ostate,       \* obs->state
          alive,        \* observers that exist
          waiting,      \* clients in OS_SemaphoreWait
          sem,          \* clients whose semaphore has been released
          reg,          \* history: observers whose last attach or touch
                        \* succeeded and was neither undone nor used up
          hit,          \* history: observers triggered in this notification
          due           \* history: those attached since before it started

loopVars == <<msg, pc, pos, gone, state>>
obsVars == <<list, ostate, alive>>
clientVars == <<waiting, sem>>
history == <<reg, hit, due>>
vars == <<queue, loopVars, obsVars, clientVars, history>>

Message == [event : Event, from : Client \cup {NoOne}]

Listed(o) == \E i \in 1 .. Len(list) : list[i] = o

\* list_del of the i-th node.
Without(i) == [k \in 1 .. Len(list) - 1 |-> IF k < i THEN list[k] ELSE list[k + 1]]

Active(o) == ostate[o] \in {"attached", "once"}

Init ==
  /\ queue = << >>
  /\ msg \in {m \in Message : m.from = NoOne}
  /\ pc = "recv" /\ pos = 1 /\ gone = NoOne
  /\ state = "idle"
  /\ list = << >> /\ ostate = [o \in Obs |-> "idle"] /\ alive = {}
  /\ waiting = {} /\ sem = {}
  /\ reg = {} /\ hit = {} /\ due = {}

-----------------------------------------------------------------------------
(* Calls of any thread, a handler or a callback *)

\* The mutex is free, or held by the caller.
CanCall == pc \in {"recv", "execute", "destruct", "callback"}

Create(o) ==
  /\ o \notin alive
  /\ alive' = alive \cup {o}
  /\ ostate' = [ostate EXCEPT ![o] = "idle"]
  /\ UNCHANGED <<queue, loopVars, list, clientVars, history>>

\* Destroy without looking at the state.
DestroyBug(o) ==
  /\ o \in alive
  /\ alive' = alive \ {o}
  /\ UNCHANGED <<queue, loopVars, list, ostate, clientVars, history>>

\* observer_destroy, at any moment.
Destroy(o) ==
  /\ o \in alive /\ ostate[o] = "idle"
  /\ alive' = alive \ {o}
  /\ UNCHANGED <<queue, loopVars, list, ostate, clientVars, history>>

\* __attach when it succeeds; s is "attached" or "once".
Attach(o, s) ==
  /\ CanCall /\ o \in alive
  /\ Careful /\ s = "once" /\ pc = "callback" => list[pos] # o
  /\ \/ ostate[o] = "detached" /\ UNCHANGED list
     \/ ostate[o] # "detached" /\ ~Listed(o) /\ list' = Append(list, o)
  /\ ostate' = [ostate EXCEPT ![o] = s]
  /\ reg' = reg \cup {o}
  /\ UNCHANGED <<queue, loopVars, alive, clientVars, hit, due>>

Detach(o) ==
  /\ CanCall /\ o \in alive
  /\ Careful /\ pc = "callback" => Listed(o)
  /\ \/ /\ state = "idle"
        /\ \/ \E i \in 1 .. Len(list) : list[i] = o /\ list' = Without(i)
           \/ ~Listed(o) /\ UNCHANGED list
        /\ ostate' = [ostate EXCEPT ![o] = "idle"]
     \/ /\ state # "idle"
        /\ ostate' = [ostate EXCEPT ![o] = "detached"]
        /\ UNCHANGED list
  /\ reg' = reg \ {o} /\ due' = due \ {o}
  /\ UNCHANGED <<queue, loopVars, alive, clientVars, hit>>

\* A message that does not fit is queued all the same.
SendBug(e) ==
  /\ Len(queue) <= QueueLen
  /\ queue' = Append(queue, [event |-> e, from |-> NoOne])
  /\ UNCHANGED <<loopVars, obsVars, clientVars, history>>

\* sys_event_send and sys_handler_send; a full queue makes them fail.
Send(e) ==
  /\ Len(queue) < QueueLen
  /\ queue' = Append(queue, [event |-> e, from |-> NoOne])
  /\ UNCHANGED <<loopVars, obsVars, clientVars, history>>

\* sys_handler_send_wait_finish, up to OS_SemaphoreWait.
SendWait(c, e) ==
  /\ c \notin waiting
  /\ Len(queue) < QueueLen
  /\ queue' = Append(queue, [event |-> e, from |-> c])
  /\ waiting' = waiting \cup {c} /\ sem' = sem \ {c}
  /\ UNCHANGED <<loopVars, obsVars, history>>

\* The client gives up waiting, and its semaphore is gone.
WakeBug(c) ==
  /\ c \in waiting
  /\ waiting' = waiting \ {c} /\ sem' = sem \ {c}
  /\ UNCHANGED <<queue, loopVars, obsVars, history>>

\* OS_SemaphoreWait returns and the semaphore is deleted.
Wake(c) ==
  /\ c \in waiting /\ c \in sem
  /\ waiting' = waiting \ {c} /\ sem' = sem \ {c}
  /\ UNCHANGED <<queue, loopVars, obsVars, history>>

Calls == \/ \E o \in Obs : \/ Create(o) \/ Destroy(o) \/ Detach(o)
                           \/ \E s \in {"attached", "once"} : Attach(o, s)
         \/ \E e \in Event : Send(e)

ClientNext == \E c \in Client : Wake(c) \/ \E e \in Event : SendWait(c, e)

-----------------------------------------------------------------------------
(* The looper: main_looper, publisher_main and notify *)

Receive ==
  /\ pc = "recv"
  /\ queue # << >>
  /\ msg' = Head(queue) /\ queue' = Tail(queue)
  /\ pc' = "execute"
  /\ UNCHANGED <<pos, gone, state, obsVars, clientVars, history>>

\* The handler has run; notify takes the mutex.
StartNotify ==
  /\ pc = "execute"
  /\ pc' = "scan" /\ pos' = 1 /\ state' = "working"
  /\ hit' = {}
  /\ due' = {o \in Obs : Listed(o) /\ Active(o) /\ Matches(msg.event, ObsEvent[o])}
  /\ UNCHANGED <<queue, msg, gone, obsVars, clientVars, reg>>

Current == list[pos]

Trigger ==
  /\ pc = "scan" /\ pos <= Len(list)
  /\ Matches(msg.event, ObsEvent[Current]) /\ Active(Current)
  /\ pc' = "callback"
  /\ hit' = hit \cup {Current}
  /\ reg' = IF ostate[Current] = "once" THEN reg \ {Current} ELSE reg
  /\ UNCHANGED <<queue, msg, pos, gone, state, obsVars, clientVars, due>>

\* The walk goes on from the list as it was.
EndCallbackBug ==
  /\ pc = "callback"
  /\ pc' = "scan" /\ pos' = pos + 1
  /\ UNCHANGED <<queue, msg, gone, state, obsVars, clientVars, history>>

\* The first observer that is concerned has the event for itself.
EndCallbackFirstBug ==
  /\ pc = "callback"
  /\ pc' = "sweep" /\ pos' = 1
  /\ ostate' = IF ostate[Current] = "once"
                 THEN [ostate EXCEPT ![Current] = "detached"] ELSE ostate
  /\ UNCHANGED <<queue, msg, gone, state, list, alive, clientVars, history>>

EndCallback ==
  /\ pc = "callback"
  /\ pc' = "scan" /\ pos' = pos + 1
  /\ ostate' = IF ostate[Current] = "once"
                 THEN [ostate EXCEPT ![Current] = "detached"] ELSE ostate
  /\ UNCHANGED <<queue, msg, gone, state, list, alive, clientVars, history>>

\* An observer that is not concerned.
Skip ==
  /\ pc = "scan" /\ pos <= Len(list)
  /\ ~(Matches(msg.event, ObsEvent[Current]) /\ Active(Current))
  /\ pos' = pos + 1
  /\ UNCHANGED <<queue, msg, pc, gone, state, obsVars, clientVars, history>>

EndScan ==
  /\ pc = "scan" /\ pos > Len(list)
  /\ pc' = "sweep" /\ pos' = 1
  /\ UNCHANGED <<queue, msg, gone, state, obsVars, clientVars, history>>

\* Whatever is not attached for good is removed, touched observers too.
UnlinkBug ==
  /\ pc = "sweep" /\ pos <= Len(list)
  /\ \/ /\ ostate[Current] # "attached"
        /\ list' = Without(pos) /\ gone' = Current
        /\ pc' = "release"
        /\ UNCHANGED pos
     \/ /\ ostate[Current] = "attached" /\ pos' = pos + 1
        /\ UNCHANGED <<list, gone, pc>>
  /\ UNCHANGED <<queue, msg, state, ostate, alive, clientVars, history>>

\* One turn of the loop that removes what was detached in the callbacks.
Unlink ==
  /\ pc = "sweep" /\ pos <= Len(list)
  /\ \/ /\ ostate[Current] = "detached"
        /\ list' = Without(pos) /\ gone' = Current
        /\ pc' = "release"
        /\ UNCHANGED pos
     \/ /\ ostate[Current] # "detached" /\ pos' = pos + 1
        /\ UNCHANGED <<list, gone, pc>>
  /\ UNCHANGED <<queue, msg, state, ostate, alive, clientVars, history>>

Release ==
  /\ pc = "release"
  /\ ostate' = [ostate EXCEPT ![gone] = "idle"]
  /\ gone' = NoOne
  /\ pc' = "sweep"
  /\ UNCHANGED <<queue, msg, pos, state, list, alive, clientVars, history>>

EndNotify ==
  /\ pc = "sweep" /\ pos > Len(list)
  /\ pc' = "destruct" /\ state' = "idle"
  /\ hit' = {} /\ due' = {}
  /\ UNCHANGED <<queue, msg, pos, gone, obsVars, clientVars, reg>>

\* The destructor of a message that is waited for is not called.
DestructBug ==
  /\ pc = "destruct"
  /\ pc' = "recv" /\ pos' = 1
  /\ UNCHANGED <<queue, msg, gone, state, obsVars, clientVars, history>>

\* The destructor of a message that is waited for is sys_handler_finish.
Destruct ==
  /\ pc = "destruct"
  /\ pc' = "recv" /\ pos' = 1
  /\ sem' = sem \cup ({msg.from} \ {NoOne})
  /\ UNCHANGED <<queue, msg, gone, state, obsVars, waiting, history>>

LooperNext == \/ Receive \/ StartNotify \/ Trigger \/ EndCallback \/ Skip \/ EndScan
              \/ Unlink \/ Release \/ EndNotify \/ Destruct

Next == Calls \/ ClientNext \/ LooperNext

Spec == Init /\ [][Next]_vars

\* The looper and a released client are scheduled; calls are up to callers.
FairSpec == Spec /\ WF_vars(LooperNext) /\ \A c \in Client : WF_vars(Wake(c))

-----------------------------------------------------------------------------
(* Properties *)

Walking == pc \in {"scan", "callback", "sweep", "release"}

TypeOK ==
  /\ queue \in Seq(Message) /\ Len(queue) <= QueueLen
  /\ msg \in Message
  /\ pc \in {"recv", "execute", "scan", "callback", "sweep", "release", "destruct"}
  /\ pos \in Nat \ {0}
  /\ gone \in Obs \cup {NoOne}
  /\ state \in {"idle", "working"}
  /\ list \in Seq(Obs)
  /\ ostate \in [Obs -> {"idle", "attached", "once", "detached"}]
  /\ alive \subseteq Obs
  /\ waiting \subseteq Client /\ sem \subseteq Client
  /\ reg \subseteq Obs /\ hit \subseteq Obs /\ due \subseteq Obs

\* The list never holds an observer that was destroyed, nor one twice; and
\* the observer whose callback runs, or whose state is about to be reset,
\* still exists.
NoDangling ==
  /\ \A i \in 1 .. Len(list) : list[i] \in alive
  /\ \A i, j \in 1 .. Len(list) : i # j => list[i] # list[j]
  /\ pc = "callback" => pos <= Len(list)
  /\ pc = "release" => gone \in alive

\* sys_ctrl.h: an observer that was attached stays so until it is detached,
\* one that was touched until it has been triggered.
RegistrationHolds == \A o \in reg : Listed(o) /\ Active(o)

\* An event reaches every observer that was attached when its notification
\* began and was not detached before its turn, whatever callbacks do.
AllNotified == pc = "sweep" => due \subseteq hit

\* No observer is triggered twice for one event, nor at all once detach has
\* returned or its touch has been used up.
NotifiedOnce == [][Trigger => Current \in reg \ hit]_vars

\* sys_handler_finish never releases the semaphore of a client that has
\* returned, and a client is woken only by its own message.
Rendezvous ==
  /\ \A i \in 1 .. Len(queue) : queue[i].from # NoOne =>
       queue[i].from \in waiting \ sem
  /\ pc # "recv" /\ msg.from # NoOne => msg.from \in waiting \ sem
  /\ \A c \in waiting \ sem :
       \/ pc # "recv" /\ msg.from = c
       \/ \E i \in 1 .. Len(queue) : queue[i].from = c

\* A caller of sys_handler_send_wait_finish returns.
Returns == \A c \in Client : c \in waiting ~> c \notin waiting

-----------------------------------------------------------------------------
(* Why a message is finished: a bound on the looper's steps *)

\* The looper's steps until the destructor has been called.  The first walk
\* may meet every observer there is, as callbacks attach them; the second
\* only those that are in the list.
TurnRank ==
  LET most == Cardinality(Obs) + 1
  IN CASE pc = "execute"  -> 4 * most + 1
       [] pc = "scan"     -> 2 * (2 * most - pos) + 2
       [] pc = "callback" -> 2 * (2 * most - pos) + 1
       [] pc = "release"  -> 2 * (Len(list) + 1 - pos) + 2
       [] pc = "sweep"    -> 2 * (Len(list) + 1 - pos) + 1
       [] OTHER           -> 0

\* Every step of the looper brings the end of its message nearer, and no call
\* of a callback or another thread, attach and detach included, puts it off.
TurnDescends ==
  [][pc # "recv" /\ pc' # "recv" =>
       /\ TurnRank' <= TurnRank /\ TurnRank' >= 0
       /\ LooperNext => TurnRank' < TurnRank]_vars
=============================================================================
