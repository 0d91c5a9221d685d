---------------------------- MODULE SysCtrlProofs ----------------------------
(***************************************************************************)
(* Proofs about the publisher and the rendezvous, for any number of        *)
(* observers, events, clients and queue slots.                             *)
(***************************************************************************)
EXTENDS SysCtrl, FiniteSetTheorems, TLAPS

Unlinked(o) == pc = "release" /\ gone = o

Distinct == \A i, j \in 1 .. Len(list) : i # j => list[i] # list[j]

\* What keeps the list sound, whatever callers do.
ListInv ==
  /\ state = "working" <=> Walking
  /\ \A i \in 1 .. Len(list) : list[i] \in alive /\ ostate[list[i]] # "idle"
  /\ Distinct
  /\ pc = "callback" => pos <= Len(list)
  /\ pc = "release" => gone \in alive /\ ~Listed(gone) /\ ostate[gone] = "detached"

\* What keeps a registration, given careful callers: an observer that is not
\* idle is in the list, and a touch that is being used up is no registration.
RegInv ==
  Careful =>
    /\ \A o \in Obs : ostate[o] # "idle" => Listed(o) \/ Unlinked(o)
    /\ pc = "callback" /\ ostate[Current] = "once" => Current \notin reg
    /\ RegistrationHolds

Before(o, p) == \E i \in 1 .. p - 1 : i <= Len(list) /\ list[i] = o

Turn(o) == \E i \in pos .. Len(list) : list[i] = o

\* Where an observer stands in a notification: behind the iterator once it
\* has been triggered, at it or ahead of it while it is due.
TurnInv ==
  /\ pc \in {"scan", "callback"} => \A o \in due :
       o \in hit \/ (Turn(o) /\ Active(o) /\ Matches(msg.event, ObsEvent[o]))
  /\ pc \in {"sweep", "release"} => due \subseteq hit
  /\ pc = "scan" => \A o \in hit : Before(o, pos)
  /\ pc = "callback" => Current \in hit /\ \A o \in hit : Before(o, pos + 1)
  /\ \A o \in Obs : Listed(o) /\ Active(o) =>
       o \in reg \/ (pc = "callback" /\ Current = o /\ ostate[o] = "once")

\* A client that waits has exactly one message, until it is released.
MailInv ==
  /\ Rendezvous
  /\ \A i, j \in 1 .. Len(queue) :
       i # j /\ queue[i].from = queue[j].from => queue[i].from = NoOne
  /\ pc # "recv" /\ msg.from # NoOne =>
       \A i \in 1 .. Len(queue) : queue[i].from # msg.from

IInv == TypeOK /\ ListInv /\ RegInv /\ TurnInv /\ MailInv

-----------------------------------------------------------------------------
(* The sequences: the list and the queue *)

\* list_del removes one node and keeps the order of the others.
LEMMA WithoutFacts ==
  ASSUME list \in Seq(Obs), NEW i \in 1 .. Len(list)
  PROVE  /\ Without(i) \in Seq(Obs)
         /\ Len(Without(i)) = Len(list) - 1
         /\ \A k \in 1 .. Len(list) - 1 :
              Without(i)[k] = IF k < i THEN list[k] ELSE list[k + 1]
  <1> DEFINE n == Len(list) - 1
             w == [k \in 1 .. n |-> IF k < i THEN list[k] ELSE list[k + 1]]
  <1>1. n \in Nat
    BY SMT
  <1>2. \A k \in 1 .. n : list[k] \in Obs /\ list[k + 1] \in Obs
    BY SMT
  <1>3. \A k \in 1 .. n : w[k] \in Obs
    BY <1>2
  <1>4. w \in [1 .. n -> Obs]
    BY <1>3
  <1>5. w \in Seq(Obs) /\ Len(w) = n
    BY <1>1, <1>4, SMT
  <1> QED
    BY <1>5 DEF Without

\* list_del of a node: the others, and only they, are still in the list.
LEMMA WithoutListed ==
  ASSUME list \in Seq(Obs), Distinct, NEW i \in 1 .. Len(list),
         list' = Without(i)
  PROVE  /\ Distinct'
         /\ \A o \in Obs : Listed(o)' <=> Listed(o) /\ o # list[i]
        /\ \A k \in 1 .. Len(list') :
             list'[k] # list[i] /\ \E j \in 1 .. Len(list) : list[j] = list'[k]
  <1> DEFINE w == Without(i)
             n == Len(list) - 1
  <1>1. /\ Len(w) = n
        /\ \A k \in 1 .. n : w[k] = IF k < i THEN list[k] ELSE list[k + 1]
        /\ list' = w
    BY WithoutFacts
  <1> HIDE DEF w
  <1>2. Distinct'
    BY <1>1, SMT DEF Distinct
  <1>3. ASSUME NEW o \in Obs, Listed(o)' PROVE Listed(o) /\ o # list[i]
    <2>1. PICK k \in 1 .. n : w[k] = o
      BY <1>1, <1>3 DEF Listed
    <2> QED
      BY <1>1, <2>1, SMT DEF Listed, Distinct
  <1>4. ASSUME NEW o \in Obs, Listed(o), o # list[i] PROVE Listed(o)'
    <2>1. PICK k \in 1 .. Len(list) : list[k] = o /\ k # i
      BY <1>4 DEF Listed
    <2>2. CASE k < i
      <3>1. k \in 1 .. n /\ w[k] = o
        BY <1>1, <2>1, <2>2, SMT
      <3> QED
        BY <1>1, <3>1 DEF Listed
    <2>3. CASE ~(k < i)
      <3>1. k - 1 \in 1 .. n /\ w[k - 1] = o
        BY <1>1, <2>1, <2>3, SMT
      <3> QED
        BY <1>1, <3>1 DEF Listed
    <2> QED
      BY <2>2, <2>3
  <1>5. ASSUME NEW k \in 1 .. Len(list')
        PROVE  list'[k] # list[i] /\ \E j \in 1 .. Len(list) : list[j] = list'[k]
    <2>1. k \in 1 .. n
      BY <1>1
    <2>2. CASE k < i
      BY <1>1, <2>1, <2>2, SMT DEF Distinct
    <2>3. CASE ~(k < i)
      <3>1. k + 1 \in 1 .. Len(list) /\ k + 1 # i /\ list'[k] = list[k + 1]
        BY <1>1, <2>1, <2>3, SMT
      <3> QED
        BY <3>1 DEF Distinct
    <2> QED
      BY <2>2, <2>3
  <1> QED
    BY <1>2, <1>3, <1>4, <1>5

\* list_add_tail: the new node comes last, the others keep their place.
LEMMA AppendFacts ==
  ASSUME NEW S, NEW s \in Seq(S), NEW e \in S
  PROVE  /\ Append(s, e) \in Seq(S)
         /\ Len(Append(s, e)) = Len(s) + 1
         /\ \A k \in 1 .. Len(s) : Append(s, e)[k] = s[k]
         /\ Append(s, e)[Len(s) + 1] = e
  BY SMT

LEMMA TailFacts ==
  ASSUME NEW S, NEW s \in Seq(S), s # << >>
  PROVE  /\ Tail(s) \in Seq(S) /\ Head(s) \in S
         /\ Len(Tail(s)) = Len(s) - 1 /\ Len(s) \in Nat \ {0}
         /\ \A k \in 1 .. Len(s) - 1 : Tail(s)[k] = s[k + 1]
         /\ Head(s) = s[1]
  BY SMT

LEMMA Element ==
  ASSUME NEW S, NEW s \in Seq(S), NEW i \in 1 .. Len(s)
  PROVE  s[i] \in S
  BY SMT

-----------------------------------------------------------------------------
LEMMA InitInv == Init => IInv
  <1> SUFFICES ASSUME Init PROVE IInv
    OBVIOUS
  <1>1. Len(list) = 0 /\ Len(queue) = 0 /\ list \in Seq(Obs) /\ queue \in Seq(Message)
    BY SMT DEF Init
  <1>2. \A i \in 1 .. 0 : FALSE
    BY SMT
  <1>3. TypeOK
    BY <1>1, QueueAssumption, SMT DEF Init, TypeOK, Message
  <1>4. ListInv
    BY <1>1, <1>2 DEF Init, ListInv, Distinct, Walking
  <1>5. RegInv
    BY DEF Init, RegInv, RegistrationHolds
  <1>6. TurnInv
    BY <1>1, <1>2 DEF Init, TurnInv, Listed
  <1>7. MailInv
    BY <1>1, <1>2 DEF Init, MailInv, Rendezvous
  <1> QED
    BY <1>3, <1>4, <1>5, <1>6, <1>7 DEF IInv

-----------------------------------------------------------------------------
(* Types *)

LEMMA CallsTypes == TypeOK /\ Calls => TypeOK'
  <1> SUFFICES ASSUME TypeOK, Calls PROVE TypeOK'
    OBVIOUS
  <1>1. ASSUME NEW o \in Obs, Create(o) PROVE TypeOK'
    BY <1>1 DEF TypeOK, Create, loopVars, clientVars, history
  <1>2. ASSUME NEW o \in Obs, Destroy(o) PROVE TypeOK'
    BY <1>2 DEF TypeOK, Destroy, loopVars, clientVars, history
  <1>3. ASSUME NEW o \in Obs, NEW s \in {"attached", "once"}, Attach(o, s) PROVE TypeOK'
    <2>1. list' \in Seq(Obs)
      BY <1>3, AppendFacts DEF TypeOK, Attach
    <2> QED
      BY <1>3, <2>1 DEF TypeOK, Attach, loopVars, clientVars
  <1>4. ASSUME NEW o \in Obs, Detach(o) PROVE TypeOK'
    <2>1. list' \in Seq(Obs)
      BY <1>4, WithoutFacts DEF TypeOK, Detach
    <2>2. ostate' \in [Obs -> {"idle", "attached", "once", "detached"}]
      BY <1>4 DEF TypeOK, Detach
    <2> QED
      BY <1>4, <2>1, <2>2 DEF TypeOK, Detach, loopVars, clientVars
  <1>5. ASSUME NEW e \in Event, Send(e) PROVE TypeOK'
    <2>1. [event |-> e, from |-> NoOne] \in Message
      BY DEF Message
    <2>2. queue' \in Seq(Message) /\ Len(queue') <= QueueLen
      <3>1. queue' \in Seq(Message) /\ Len(queue') = Len(queue) + 1
        BY <1>5, <2>1, AppendFacts DEF Send, TypeOK
      <3> QED
        BY <1>5, <3>1, QueueAssumption, SMT DEF Send, TypeOK
    <2> QED
      BY <1>5, <2>2 DEF TypeOK, Send, loopVars, obsVars, clientVars, history
  <1> QED
    BY <1>1, <1>2, <1>3, <1>4, <1>5 DEF Calls

LEMMA ClientTypes == TypeOK /\ ClientNext => TypeOK'
  <1> SUFFICES ASSUME TypeOK, ClientNext PROVE TypeOK'
    OBVIOUS
  <1>1. ASSUME NEW c \in Client, Wake(c) PROVE TypeOK'
    BY <1>1 DEF TypeOK, Wake, loopVars, obsVars, history
  <1>2. ASSUME NEW c \in Client, NEW e \in Event, SendWait(c, e) PROVE TypeOK'
    <2>1. [event |-> e, from |-> c] \in Message
      BY DEF Message
    <2>2. queue' \in Seq(Message) /\ Len(queue') <= QueueLen
      <3>1. queue' \in Seq(Message) /\ Len(queue') = Len(queue) + 1
        BY <1>2, <2>1, AppendFacts DEF SendWait, TypeOK
      <3> QED
        BY <1>2, <3>1, QueueAssumption, SMT DEF SendWait, TypeOK
    <2> QED
      BY <1>2, <2>2 DEF TypeOK, SendWait, loopVars, obsVars, history
  <1> QED
    BY <1>1, <1>2 DEF ClientNext

LEMMA LooperTypes == TypeOK /\ LooperNext => TypeOK'
  <1> SUFFICES ASSUME TypeOK, LooperNext PROVE TypeOK'
    OBVIOUS
  <1>p. pos + 1 \in Nat \ {0} /\ 1 \in Nat \ {0}
    BY SMT DEF TypeOK
  <1>c. pos <= Len(list) => Current \in Obs
    BY Element, SMT DEF TypeOK, Current
  <1>1. CASE Receive
    <2>1. /\ queue' \in Seq(Message) /\ msg' \in Message
          /\ Len(queue') = Len(queue) - 1 /\ Len(queue) \in Nat
      BY <1>1, TailFacts DEF Receive, TypeOK
    <2>2. Len(queue') <= QueueLen
      BY <2>1, QueueAssumption, SMT DEF TypeOK
    <2> QED
      BY <1>1, <2>1, <2>2 DEF TypeOK, Receive, obsVars, clientVars, history
  <1>2. CASE StartNotify
    BY <1>2, <1>p DEF TypeOK, StartNotify, obsVars, clientVars
  <1>3. CASE Trigger
    BY <1>3, <1>c DEF TypeOK, Trigger, obsVars, clientVars
  <1>4. CASE EndCallback
    BY <1>4, <1>p DEF TypeOK, EndCallback, clientVars, history
  <1>5. CASE Skip
    BY <1>5, <1>p DEF TypeOK, Skip, obsVars, clientVars, history
  <1>6. CASE EndScan
    BY <1>6, <1>p DEF TypeOK, EndScan, obsVars, clientVars, history
  <1>7. CASE Unlink
    <2>1. CASE ostate[Current] = "detached"
      <3>0. pos \in 1 .. Len(list)
        BY <1>7, SMT DEF Unlink, TypeOK
      <3>1. list' \in Seq(Obs)
        BY <1>7, <2>1, <3>0, WithoutFacts DEF TypeOK, Unlink
      <3> QED
        BY <1>7, <1>c, <2>1, <3>1 DEF TypeOK, Unlink, clientVars, history
    <2>2. CASE ostate[Current] # "detached"
      BY <1>7, <1>p, <2>2 DEF TypeOK, Unlink, clientVars, history
    <2> QED
      BY <2>1, <2>2
  <1>8. CASE Release
    BY <1>8 DEF TypeOK, Release, clientVars, history
  <1>9. CASE EndNotify
    BY <1>9 DEF TypeOK, EndNotify, obsVars, clientVars
  <1>10. CASE Destruct
    BY <1>10, <1>p DEF TypeOK, Destruct, obsVars, history, Message
  <1> QED
    BY <1>1, <1>2, <1>3, <1>4, <1>5, <1>6, <1>7, <1>8, <1>9, <1>10 DEF LooperNext

-----------------------------------------------------------------------------
(* The list *)

\* An action that only moves the looper within a phase of the walk.
LEMMA ListFrame ==
  ASSUME ListInv, list' = list, alive' = alive, ostate' = ostate, gone' = gone,
         state' = state, Walking' <=> Walking,
         pc' = "callback" => pos' <= Len(list), pc' = "release" => pc = "release"
  PROVE  ListInv'
  BY DEF ListInv, Distinct, Listed

LEMMA CallsList == TypeOK /\ ListInv /\ Calls => ListInv'
  <1> SUFFICES ASSUME TypeOK, ListInv, Calls PROVE ListInv'
    OBVIOUS
  <1>t. list \in Seq(Obs) /\ ostate \in [Obs -> {"idle", "attached", "once", "detached"}]
    BY DEF TypeOK
  <1>e. \A i \in 1 .. Len(list) : list[i] \in Obs
    BY <1>t, Element
  <1>1. ASSUME NEW o \in Obs, Create(o) PROVE ListInv'
    <2>u. /\ o \notin alive /\ alive' = alive \cup {o} /\ ostate' = [ostate EXCEPT ![o] = "idle"]
          /\ list' = list /\ pc' = pc /\ pos' = pos /\ gone' = gone /\ state' = state
      BY <1>1 DEF Create, loopVars
    <2> QED
      BY <2>u, <1>t, <1>e DEF ListInv, Distinct, Listed, Walking
  <1>2. ASSUME NEW o \in Obs, Destroy(o) PROVE ListInv'
    <2>u. /\ ostate[o] = "idle" /\ alive' = alive \ {o} /\ ostate' = ostate
          /\ list' = list /\ pc' = pc /\ pos' = pos /\ gone' = gone /\ state' = state
      BY <1>2 DEF Destroy, loopVars
    <2> QED
      BY <2>u, <1>t, <1>e DEF ListInv, Distinct, Listed, Walking
  <1>3. ASSUME NEW o \in Obs, NEW s \in {"attached", "once"}, Attach(o, s) PROVE ListInv'
    <2>u. /\ o \in alive /\ alive' = alive /\ ostate' = [ostate EXCEPT ![o] = s]
          /\ pc' = pc /\ pos' = pos /\ gone' = gone /\ state' = state /\ CanCall
      BY <1>3 DEF Attach, loopVars
    <2>p. pc # "release" /\ Walking' = Walking
      BY <2>u DEF CanCall, Walking
    <2>1. CASE list' = list
      BY <2>u, <2>p, <2>1, <1>t, <1>e DEF ListInv, Distinct
    <2>2. CASE ~Listed(o) /\ list' = Append(list, o)
      <3>1. /\ Len(list') = Len(list) + 1 /\ Len(list) \in Nat
            /\ \A k \in 1 .. Len(list) : list'[k] = list[k]
            /\ list'[Len(list) + 1] = o
        BY <2>2, <1>t, AppendFacts
      <3>2. \A i \in 1 .. Len(list) + 1 : i \in 1 .. Len(list) \/ i = Len(list) + 1
        BY <3>1, SMT
      <3>3. \A i \in 1 .. Len(list') : list'[i] \in alive' /\ ostate'[list'[i]] # "idle"
        BY <2>u, <3>1, <3>2, <1>t, <1>e DEF ListInv
      <3>4. Distinct'
        BY <2>2, <3>1, <3>2 DEF Distinct, Listed, ListInv
      <3>5. pc' = "callback" => pos' <= Len(list')
        BY <2>u, <3>1, SMT DEF ListInv, TypeOK
      <3> QED
        BY <2>u, <2>p, <3>3, <3>4, <3>5 DEF ListInv
    <2> QED
      BY <1>3, <2>1, <2>2 DEF Attach
  <1>4. ASSUME NEW o \in Obs, Detach(o) PROVE ListInv'
    <2>u. /\ alive' = alive /\ pc' = pc /\ pos' = pos /\ gone' = gone /\ state' = state /\ CanCall
      BY <1>4 DEF Detach, loopVars
    <2>p. pc # "release" /\ Walking' = Walking
      BY <2>u DEF CanCall, Walking
    <2>1. CASE list' = list /\ ostate' = [ostate EXCEPT ![o] = "detached"]
      BY <2>u, <2>p, <2>1, <1>t, <1>e DEF ListInv, Distinct
    <2>2. CASE list' = list /\ ostate' = [ostate EXCEPT ![o] = "idle"] /\ ~Listed(o)
      BY <2>u, <2>p, <2>2, <1>t, <1>e DEF ListInv, Distinct, Listed
    <2>3. ASSUME NEW i \in 1 .. Len(list), state = "idle", list[i] = o, list' = Without(i),
                 ostate' = [ostate EXCEPT ![o] = "idle"]
          PROVE  ListInv'
      <3>1. /\ Distinct'
            /\ \A k \in 1 .. Len(list') :
                 list'[k] # o /\ \E j \in 1 .. Len(list) : list[j] = list'[k]
        BY <2>3, <1>t, WithoutListed DEF ListInv
      <3>3. \A k \in 1 .. Len(list') : list'[k] \in Obs
        BY <3>1, <1>e
      <3>4. \A k \in 1 .. Len(list') : list'[k] \in alive /\ ostate[list'[k]] # "idle" /\ list'[k] # o
        BY <3>1 DEF ListInv
      <3>5. pc # "callback"
        BY <2>3 DEF ListInv, Walking
      <3> QED
        BY <2>3, <2>u, <2>p, <3>1, <3>3, <3>4, <3>5, <1>t DEF ListInv
    <2> QED
      BY <1>4, <2>1, <2>2, <2>3 DEF Detach
  <1>5. ASSUME NEW e \in Event, Send(e) PROVE ListInv'
    BY <1>5 DEF Send, loopVars, obsVars, ListInv, Distinct, Listed, Walking
  <1> QED
    BY <1>1, <1>2, <1>3, <1>4, <1>5 DEF Calls

LEMMA ClientList == ListInv /\ ClientNext => ListInv'
  <1> SUFFICES ASSUME ListInv, ClientNext PROVE ListInv'
    OBVIOUS
  <1>1. loopVars' = loopVars /\ obsVars' = obsVars
    BY DEF ClientNext, Wake, SendWait
  <1> QED
    BY <1>1 DEF loopVars, obsVars, ListInv, Distinct, Listed, Walking

LEMMA LooperList == TypeOK /\ ListInv /\ LooperNext => ListInv'
  <1> SUFFICES ASSUME TypeOK, ListInv, LooperNext PROVE ListInv'
    OBVIOUS
  <1>t. /\ list \in Seq(Obs) /\ ostate \in [Obs -> {"idle", "attached", "once", "detached"}]
        /\ pos \in Nat \ {0}
    BY DEF TypeOK
  <1>e. \A i \in 1 .. Len(list) : list[i] \in Obs
    BY <1>t, Element
  <1>1. CASE Receive \/ Destruct
    <2>1. /\ list' = list /\ alive' = alive /\ ostate' = ostate /\ gone' = gone /\ state' = state
          /\ ~Walking /\ ~Walking'
      BY <1>1 DEF Receive, Destruct, obsVars, Walking
    <2> QED
      BY <2>1, ListFrame DEF Walking
  <1>2. CASE StartNotify
    BY <1>2 DEF StartNotify, obsVars, ListInv, Distinct, Listed, Walking
  <1>3. CASE Trigger \/ Skip \/ EndScan
    <2>1. /\ list' = list /\ alive' = alive /\ ostate' = ostate /\ gone' = gone /\ state' = state
          /\ Walking /\ Walking' /\ pc' # "release"
          /\ pc' = "callback" => pos' <= Len(list)
      BY <1>3 DEF Trigger, Skip, EndScan, obsVars, Walking
    <2> QED
      BY <2>1, ListFrame
  <1>4. CASE EndCallback
    <2>u. /\ list' = list /\ alive' = alive /\ gone' = gone /\ state' = state
          /\ pc = "callback" /\ pc' = "scan"
          /\ ostate' = IF ostate[Current] = "once"
                         THEN [ostate EXCEPT ![Current] = "detached"] ELSE ostate
      BY <1>4 DEF EndCallback
    <2>1. \A i \in 1 .. Len(list) : ostate'[list[i]] # "idle"
      BY <2>u, <1>t, <1>e DEF ListInv
    <2> QED
      BY <2>u, <2>1 DEF ListInv, Distinct, Walking
  <1>5. CASE Unlink
    <2>u. /\ alive' = alive /\ ostate' = ostate /\ state' = state
          /\ pc = "sweep" /\ pos \in 1 .. Len(list)
      BY <1>5, <1>t, SMT DEF Unlink
    <2>1. CASE list' = list /\ gone' = gone /\ pc' = pc
      BY <2>u, <2>1, ListFrame DEF Walking
    <2>2. CASE /\ ostate[Current] = "detached" /\ list' = Without(pos)
               /\ gone' = Current /\ pc' = "release"
      <3>1. /\ Distinct'
            /\ \A k \in 1 .. Len(list') :
                 list'[k] # Current /\ \E j \in 1 .. Len(list) : list[j] = list'[k]
        BY <2>u, <2>2, <1>t, WithoutListed DEF ListInv, Current
      <3>4. \A k \in 1 .. Len(list') : list'[k] \in alive /\ ostate[list'[k]] # "idle"
        BY <3>1 DEF ListInv
      <3>5. Current \in alive /\ Current \in Obs
        BY <2>u, <1>e DEF ListInv, Current
      <3>6. ~Listed(gone)'
        BY <2>2, <3>1, <3>5 DEF Listed
      <3>7. state' = "working" /\ Walking'
        BY <2>u, <2>2 DEF ListInv, Walking
      <3> QED
        BY <2>u, <2>2, <3>1, <3>4, <3>5, <3>6, <3>7 DEF ListInv
    <2> QED
      BY <1>5, <2>1, <2>2 DEF Unlink
  <1>6. CASE Release
    <2>u. /\ list' = list /\ alive' = alive /\ state' = state /\ pc = "release" /\ pc' = "sweep"
          /\ ostate' = [ostate EXCEPT ![gone] = "idle"]
      BY <1>6 DEF Release
    <2>1. \A i \in 1 .. Len(list) : list[i] # gone
      BY <2>u DEF ListInv, Listed
    <2> QED
      BY <2>u, <2>1, <1>t, <1>e DEF ListInv, Distinct, Walking
  <1>7. CASE EndNotify
    BY <1>7 DEF EndNotify, obsVars, ListInv, Distinct, Listed, Walking
  <1> QED
    BY <1>1, <1>2, <1>3, <1>4, <1>5, <1>6, <1>7 DEF LooperNext

-----------------------------------------------------------------------------
(* The registrations *)

\* An action that leaves observers, registrations and callbacks alone.
LEMMA RegFrame ==
  ASSUME RegInv, list' = list, ostate' = ostate, gone' = gone, reg' = reg,
         pc = "release" <=> pc' = "release",
         pc' = "callback" => pc = "callback" /\ pos' = pos
  PROVE  RegInv'
  BY DEF RegInv, RegistrationHolds, Listed, Active, Unlinked, Current

LEMMA CallsReg == TypeOK /\ ListInv /\ RegInv /\ Calls => RegInv'
  <1> SUFFICES ASSUME TypeOK, ListInv, RegInv, Calls, Careful PROVE RegInv'
    BY DEF RegInv
  <1>t. /\ list \in Seq(Obs) /\ ostate \in [Obs -> {"idle", "attached", "once", "detached"}]
        /\ pos \in Nat \ {0} /\ reg \subseteq Obs
    BY DEF TypeOK
  <1>e. \A i \in 1 .. Len(list) : list[i] \in Obs
    BY <1>t, Element
  <1>c. pc = "callback" => pos \in 1 .. Len(list) /\ Current \in Obs /\ Listed(Current)
    <2>1. pc = "callback" => pos \in 1 .. Len(list)
      BY <1>t, SMT DEF ListInv
    <2> QED
      BY <2>1, <1>e DEF Current, Listed
  <1>i. /\ \A o \in Obs : ostate[o] # "idle" => Listed(o) \/ Unlinked(o)
        /\ pc = "callback" /\ ostate[Current] = "once" => Current \notin reg
        /\ \A o \in reg : Listed(o) /\ Active(o)
    BY DEF RegInv, RegistrationHolds
  <1>1. ASSUME NEW o \in Obs, Create(o) PROVE RegInv'
    <2>u. /\ o \notin alive /\ ostate' = [ostate EXCEPT ![o] = "idle"] /\ reg' = reg
          /\ list' = list /\ pc' = pc /\ pos' = pos /\ gone' = gone
      BY <1>1 DEF Create, loopVars, history
    <2>1. ~Listed(o)
      BY <2>u DEF ListInv, Listed
    <2> QED
      BY <2>u, <2>1, <1>t, <1>c, <1>i DEF RegInv, RegistrationHolds, Listed, Active, Unlinked, Current
  <1>2. ASSUME NEW o \in Obs, Destroy(o) PROVE RegInv'
    BY <1>2, RegFrame DEF Destroy, loopVars, history
  <1>3. ASSUME NEW o \in Obs, NEW s \in {"attached", "once"}, Attach(o, s) PROVE RegInv'
    <2>u. /\ ostate' = [ostate EXCEPT ![o] = s] /\ reg' = reg \cup {o}
          /\ pc' = pc /\ pos' = pos /\ gone' = gone /\ pc # "release"
          /\ s = "once" /\ pc = "callback" => Current # o
      BY <1>3 DEF Attach, loopVars, CanCall, Current
    <2>1. Listed(o)' /\ (\A q \in Obs : Listed(q) => Listed(q)')
            /\ (pc = "callback" => Current' = Current)
      <3>1. CASE ostate[o] = "detached" /\ list' = list
        BY <3>1, <2>u, <1>i DEF Listed, Unlinked, Current
      <3>2. CASE list' = Append(list, o)
        <4>1. /\ Len(list') = Len(list) + 1 /\ Len(list) \in Nat
              /\ \A k \in 1 .. Len(list) : list'[k] = list[k]
              /\ list'[Len(list) + 1] = o
          BY <3>2, <1>t, AppendFacts
        <4>2. /\ Len(list) + 1 \in 1 .. Len(list')
              /\ \A k \in 1 .. Len(list) : k \in 1 .. Len(list')
          BY <4>1, SMT
        <4> QED
          BY <4>1, <4>2, <1>c, <2>u DEF Listed, Current
      <3> QED
        BY <1>3, <3>1, <3>2 DEF Attach
    <2>2. \A q \in Obs : q # o => ostate'[q] = ostate[q]
      BY <2>u, <1>t
    <2>3. ostate'[o] = s
      BY <2>u, <1>t
    <2>4. \A q \in Obs : ostate'[q] # "idle" => Listed(q)'
      BY <2>1, <2>2, <2>u, <1>i DEF Unlinked
    <2>5. \A q \in reg' : Listed(q)' /\ Active(q)'
      BY <2>1, <2>2, <2>3, <2>u, <1>i, <1>t DEF Active
    <2>6. ASSUME pc' = "callback", ostate'[Current'] = "once" PROVE Current' \notin reg'
      <3>1. Current' = Current /\ Current \in Obs
        BY <2>6, <2>u, <2>1, <1>c
      <3>2. Current # o
        BY <2>6, <3>1, <2>u, <2>3
      <3> QED
        BY <2>6, <3>1, <3>2, <2>2, <2>u, <1>i
    <2> QED
      BY <2>4, <2>5, <2>6 DEF RegInv, RegistrationHolds
  <1>4. ASSUME NEW o \in Obs, Detach(o) PROVE RegInv'
    <2>u. /\ reg' = reg \ {o} /\ pc' = pc /\ pos' = pos /\ gone' = gone /\ pc # "release"
          /\ pc = "callback" => Listed(o)
      BY <1>4 DEF Detach, loopVars, CanCall
    <2>1. CASE list' = list /\ state # "idle" /\ ostate' = [ostate EXCEPT ![o] = "detached"]
      <3>1. Listed(o)
        BY <2>u, <2>1, <1>4 DEF Detach, CanCall, ListInv, Walking, TypeOK
      <3> QED
        BY <2>u, <2>1, <3>1, <1>t, <1>c, <1>i DEF RegInv, RegistrationHolds, Listed, Active, Unlinked, Current
    <2>2. CASE list' = list /\ ostate' = [ostate EXCEPT ![o] = "idle"]
      BY <2>u, <2>2, <1>t, <1>c, <1>i DEF RegInv, RegistrationHolds, Listed, Active, Unlinked, Current
    <2>3. ASSUME NEW i \in 1 .. Len(list), state = "idle", list[i] = o, list' = Without(i),
                 ostate' = [ostate EXCEPT ![o] = "idle"]
          PROVE  RegInv'
      <3>1. \A q \in Obs : Listed(q)' <=> Listed(q) /\ q # o
        BY <2>3, <1>t, WithoutListed DEF ListInv
      <3>2. pc # "callback"
        BY <2>3 DEF ListInv, Walking
      <3>3. /\ \A q \in Obs : q # o => ostate'[q] = ostate[q]
            /\ ostate'[o] = "idle"
        BY <2>3, <1>t
      <3>4. \A q \in Obs : ostate'[q] # "idle" => Listed(q)'
        BY <2>u, <3>1, <3>3, <1>i DEF Unlinked
      <3>5. \A q \in reg' : Listed(q)' /\ Active(q)'
        BY <2>u, <3>1, <3>3, <1>i, <1>t DEF Active
      <3> QED
        BY <2>u, <3>2, <3>4, <3>5 DEF RegInv, RegistrationHolds
    <2> QED
      BY <1>4, <2>1, <2>2, <2>3 DEF Detach
  <1>5. ASSUME NEW e \in Event, Send(e) PROVE RegInv'
    BY <1>5, RegFrame DEF Send, loopVars, obsVars, history
  <1> QED
    BY <1>1, <1>2, <1>3, <1>4, <1>5 DEF Calls

LEMMA ClientReg == RegInv /\ ClientNext => RegInv'
  <1> SUFFICES ASSUME RegInv, ClientNext PROVE RegInv'
    OBVIOUS
  <1>1. loopVars' = loopVars /\ obsVars' = obsVars /\ history' = history
    BY DEF ClientNext, Wake, SendWait
  <1>2. /\ list' = list /\ ostate' = ostate /\ gone' = gone /\ reg' = reg /\ pc' = pc /\ pos' = pos
    BY <1>1 DEF loopVars, obsVars, history
  <1> QED
    BY <1>2, RegFrame

LEMMA LooperReg == TypeOK /\ ListInv /\ RegInv /\ LooperNext => RegInv'
  <1> SUFFICES ASSUME TypeOK, ListInv, RegInv, LooperNext, Careful PROVE RegInv'
    BY DEF RegInv
  <1>t. /\ list \in Seq(Obs) /\ ostate \in [Obs -> {"idle", "attached", "once", "detached"}]
        /\ pos \in Nat \ {0} /\ reg \subseteq Obs
    BY DEF TypeOK
  <1>e. \A i \in 1 .. Len(list) : list[i] \in Obs
    BY <1>t, Element
  <1>i. /\ \A o \in Obs : ostate[o] # "idle" => Listed(o) \/ Unlinked(o)
        /\ pc = "callback" /\ ostate[Current] = "once" => Current \notin reg
        /\ \A o \in reg : Listed(o) /\ Active(o)
    BY DEF RegInv, RegistrationHolds
  <1>1. CASE Receive \/ StartNotify \/ Skip \/ EndScan \/ EndNotify \/ Destruct
    <2>1. /\ list' = list /\ ostate' = ostate /\ gone' = gone /\ reg' = reg
          /\ pc # "release" /\ pc' # "release" /\ pc' # "callback"
      BY <1>1 DEF Receive, StartNotify, Skip, EndScan, EndNotify, Destruct, obsVars, history
    <2> QED
      BY <2>1, RegFrame
  <1>2. CASE Trigger
    <2>u. /\ list' = list /\ ostate' = ostate /\ pos' = pos
          /\ pc = "scan" /\ pc' = "callback"
          /\ reg' = IF ostate[Current] = "once" THEN reg \ {Current} ELSE reg
      BY <1>2 DEF Trigger, obsVars
    <2> QED
      BY <2>u, <1>t, <1>i DEF RegInv, RegistrationHolds, Listed, Active, Unlinked, Current
  <1>3. CASE EndCallback
    <2>u. /\ list' = list /\ reg' = reg /\ pc = "callback" /\ pc' = "scan"
          /\ ostate' = IF ostate[Current] = "once"
                         THEN [ostate EXCEPT ![Current] = "detached"] ELSE ostate
      BY <1>3 DEF EndCallback, history
    <2>1. Listed(Current) /\ Current \in Obs
      <3>1. pos \in 1 .. Len(list)
        BY <2>u, <1>t, SMT DEF ListInv
      <3> QED
        BY <3>1, <1>e DEF Listed, Current
    <2>2. \A o \in Obs : o # Current => ostate'[o] = ostate[o]
      BY <2>u, <1>t
    <2>3. \A o \in Obs : ostate'[o] # "idle" => Listed(o)'
      BY <2>u, <2>1, <2>2, <1>i DEF Listed, Unlinked
    <2>4. \A o \in reg : ostate'[o] = ostate[o]
      BY <2>u, <2>2, <1>i, <1>t
    <2> QED
      BY <2>u, <2>3, <2>4, <1>i DEF RegInv, RegistrationHolds, Listed, Active
  <1>4. CASE Unlink
    <2>u. /\ ostate' = ostate /\ reg' = reg /\ pc = "sweep" /\ pos \in 1 .. Len(list)
      BY <1>4, <1>t, SMT DEF Unlink, history
    <2>1. CASE list' = list /\ gone' = gone /\ pc' = pc
      BY <2>u, <2>1, RegFrame
    <2>2. CASE /\ ostate[Current] = "detached" /\ list' = Without(pos)
               /\ gone' = Current /\ pc' = "release"
      <3>1. \A q \in Obs : Listed(q)' <=> Listed(q) /\ q # Current
        BY <2>u, <2>2, <1>t, WithoutListed DEF ListInv, Current
      <3>2. Current \notin reg
        BY <2>2, <1>i DEF Active
      <3>3. \A q \in Obs : ostate'[q] # "idle" => Listed(q)' \/ Unlinked(q)'
        BY <2>u, <2>2, <3>1, <1>i DEF Unlinked
      <3>4. \A q \in reg' : Listed(q)' /\ Active(q)'
        BY <2>u, <3>1, <3>2, <1>i, <1>t DEF Active
      <3> QED
        BY <2>2, <3>3, <3>4 DEF RegInv, RegistrationHolds
    <2> QED
      BY <1>4, <2>1, <2>2 DEF Unlink
  <1>5. CASE Release
    <2>u. /\ list' = list /\ reg' = reg /\ pc = "release" /\ pc' = "sweep"
          /\ ostate' = [ostate EXCEPT ![gone] = "idle"]
      BY <1>5 DEF Release, history
    <2>1. gone \notin reg
      BY <2>u, <1>i DEF ListInv
    <2>2. \A q \in Obs : q # gone => ostate'[q] = ostate[q]
      BY <2>u, <1>t
    <2>3. \A q \in Obs : ostate'[q] # "idle" => Listed(q)'
      BY <2>u, <2>2, <1>t, <1>i DEF Unlinked, Listed
    <2> QED
      BY <2>u, <2>1, <2>2, <2>3, <1>i, <1>t DEF RegInv, RegistrationHolds, Listed, Active
  <1> QED
    BY <1>1, <1>2, <1>3, <1>4, <1>5 DEF LooperNext

-----------------------------------------------------------------------------
(* The turns of the observers *)

LEMMA TurnFrame ==
  ASSUME TurnInv, list' = list, ostate' = ostate, reg' = reg, hit' = hit, due' = due,
         pc' = pc, pos' = pos, msg' = msg
  PROVE  TurnInv'
  BY DEF TurnInv, Turn, Before, Listed, Active, Current

\* Before and after the walk only the registrations matter.
LEMMA TurnIdle ==
  ASSUME TurnInv, list' = list, ostate' = ostate, reg' = reg,
         pc # "callback", pc' \in {"recv", "execute", "destruct"}
  PROVE  TurnInv'
  <1>1. pc' \notin {"scan", "callback", "sweep", "release"}
    OBVIOUS
  <1>2. \A o \in Obs : Listed(o) /\ Active(o) => o \in reg
    BY DEF TurnInv
  <1>3. \A o : (Listed(o)' <=> Listed(o)) /\ (Active(o)' <=> Active(o))
    BY DEF Listed, Active
  <1>4. \A o \in Obs : Listed(o)' /\ Active(o)' => o \in reg'
    BY <1>2, <1>3
  <1> QED
    BY <1>1, <1>4 DEF TurnInv

LEMMA CallsTurn == TypeOK /\ ListInv /\ TurnInv /\ Calls => TurnInv'
  <1> SUFFICES ASSUME TypeOK, ListInv, TurnInv, Calls PROVE TurnInv'
    OBVIOUS
  <1>t. /\ list \in Seq(Obs) /\ ostate \in [Obs -> {"idle", "attached", "once", "detached"}]
        /\ pos \in Nat \ {0} /\ due \subseteq Obs
    BY DEF TypeOK
  <1>e. \A i \in 1 .. Len(list) : list[i] \in Obs
    BY <1>t, Element
  <1>c. pc = "callback" => pos \in 1 .. Len(list) /\ Current \in Obs /\ Listed(Current)
    <2>1. pc = "callback" => pos \in 1 .. Len(list)
      BY <1>t, SMT DEF ListInv
    <2> QED
      BY <2>1, <1>e DEF Current, Listed
  <1>r. \A q \in Obs : Turn(q) => Listed(q)
    <2>1. \A i \in pos .. Len(list) : i \in 1 .. Len(list)
      BY <1>t, SMT
    <2> QED
      BY <2>1 DEF Turn, Listed
  <1>i. /\ pc = "callback" => \A o \in due :
             o \in hit \/ (Turn(o) /\ Active(o) /\ Matches(msg.event, ObsEvent[o]))
        /\ pc = "callback" => Current \in hit /\ \A o \in hit : Before(o, pos + 1)
        /\ \A o \in Obs : Listed(o) /\ Active(o) =>
             o \in reg \/ (pc = "callback" /\ Current = o /\ ostate[o] = "once")
    BY DEF TurnInv
  <1>1. ASSUME NEW o \in Obs, Create(o) PROVE TurnInv'
    <2>u. /\ o \notin alive /\ ostate' = [ostate EXCEPT ![o] = "idle"]
          /\ reg' = reg /\ hit' = hit /\ due' = due
          /\ list' = list /\ pc' = pc /\ pos' = pos /\ msg' = msg
      BY <1>1 DEF Create, loopVars, history
    <2>1. ~Listed(o)
      BY <2>u DEF ListInv, Listed
    <2>2. \A q \in Obs : Listed(q) => ostate'[q] = ostate[q]
      BY <2>u, <2>1, <1>t
    <2>3. \A q \in Obs : Listed(q) => Active(q)' = Active(q)
      BY <2>2 DEF Active
    <2>4. \A q : Turn(q)' = Turn(q) /\ Listed(q)' = Listed(q)
      BY <2>u DEF Turn, Listed
    <2>5. \A q : \A p : Before(q, p)' = Before(q, p)
      BY <2>u DEF Before
    <2>6. Current' = Current
      BY <2>u DEF Current
    <2> QED
      BY <2>u, <2>2, <2>3, <2>4, <2>6, <1>r, <1>t, <1>c DEF TurnInv, Before
  <1>2. ASSUME NEW o \in Obs, Destroy(o) PROVE TurnInv'
    BY <1>2, TurnFrame DEF Destroy, loopVars, history
  <1>3. ASSUME NEW o \in Obs, NEW s \in {"attached", "once"}, Attach(o, s) PROVE TurnInv'
    <2>u. /\ ostate' = [ostate EXCEPT ![o] = s] /\ reg' = reg \cup {o}
          /\ hit' = hit /\ due' = due /\ pc' = pc /\ pos' = pos /\ msg' = msg
          /\ pc \in {"recv", "execute", "destruct", "callback"}
      BY <1>3 DEF Attach, loopVars, CanCall
    <2>1. /\ Len(list) \in Nat /\ Len(list') \in Nat /\ Len(list) <= Len(list')
          /\ \A k \in 1 .. Len(list) : list'[k] = list[k]
          /\ \A k \in 1 .. Len(list') : k \in 1 .. Len(list) \/ list'[k] = o
      <3>1. CASE list' = list
        BY <3>1, <1>t, SMT
      <3>2. CASE list' = Append(list, o)
        <4>1. /\ Len(list') = Len(list) + 1 /\ Len(list) \in Nat
              /\ \A k \in 1 .. Len(list) : list'[k] = list[k]
              /\ list'[Len(list) + 1] = o
          BY <3>2, <1>t, AppendFacts
        <4> QED
          BY <4>1, SMT
      <3> QED
        BY <1>3, <3>1, <3>2 DEF Attach
    <2>2. \A q \in Obs : q # o => ostate'[q] = ostate[q] /\ Active(q)' = Active(q)
      BY <2>u, <1>t DEF Active
    <2>3. Active(o)'
      BY <2>u, <1>t DEF Active
    <2>4. \A q \in Obs : Turn(q) => Turn(q)'
      <3>1. \A k \in pos .. Len(list) : k \in 1 .. Len(list) /\ k \in pos .. Len(list')
        BY <2>1, <1>t, SMT
      <3> QED
        BY <3>1, <2>1, <2>u DEF Turn
    <2>5. \A q \in Obs : Listed(q)' /\ q # o => Listed(q)
      BY <2>1 DEF Listed
    <2>6. pc = "callback" => Current' = Current
      BY <2>1, <2>u, <1>c DEF Current
    <2>7. \A q : Before(q, pos + 1) => Before(q, pos + 1)'
      <3>1. \A k \in 1 .. pos + 1 - 1 : k <= Len(list) => k \in 1 .. Len(list) /\ k <= Len(list')
        BY <2>1, <1>t, SMT
      <3> QED
        BY <3>1, <2>1, <2>u DEF Before
    <2>8. pc' = "callback" => \A q \in due :
            q \in hit \/ (Turn(q)' /\ Active(q)' /\ Matches(msg.event, ObsEvent[q]))
      BY <2>u, <2>2, <2>3, <2>4, <1>i, <1>t
    <2>9. \A q \in Obs : Listed(q)' /\ Active(q)' =>
            q \in reg' \/ (pc' = "callback" /\ Current' = q /\ ostate'[q] = "once")
      BY <2>u, <2>2, <2>5, <2>6, <1>i
    <2>10. pc' = "callback" => Current' \in hit' /\ \A q \in hit' : Before(q, pos + 1)'
      BY <2>u, <2>6, <2>7, <1>i DEF Before
    <2> QED
      BY <2>u, <2>8, <2>9, <2>10 DEF TurnInv
  <1>4. ASSUME NEW o \in Obs, Detach(o) PROVE TurnInv'
    <2>u. /\ reg' = reg \ {o} /\ due' = due \ {o} /\ hit' = hit
          /\ pc' = pc /\ pos' = pos /\ msg' = msg
          /\ pc \in {"recv", "execute", "destruct", "callback"}
      BY <1>4 DEF Detach, loopVars, CanCall
    <2>1. CASE /\ list' = list
               /\ \/ ostate' = [ostate EXCEPT ![o] = "detached"]
                  \/ ostate' = [ostate EXCEPT ![o] = "idle"]
      <3>1. \A q \in Obs : q # o => ostate'[q] = ostate[q] /\ Active(q)' = Active(q)
        BY <2>1, <1>t DEF Active
      <3>2. ~Active(o)'
        BY <2>1, <1>t DEF Active
      <3>3. \A q : Turn(q)' = Turn(q) /\ Listed(q)' = Listed(q)
        BY <2>1, <2>u DEF Turn, Listed
      <3>4. Current' = Current
        BY <2>1, <2>u DEF Current
      <3>5. pc' = "callback" => \A q \in due' :
              q \in hit \/ (Turn(q)' /\ Active(q)' /\ Matches(msg.event, ObsEvent[q]))
        BY <2>u, <3>1, <3>3, <1>i, <1>t
      <3>6. \A q \in Obs : Listed(q)' /\ Active(q)' =>
              q \in reg' \/ (pc' = "callback" /\ Current' = q /\ ostate'[q] = "once")
        BY <2>u, <3>1, <3>2, <3>3, <3>4, <1>i
      <3>7. pc' = "callback" => Current' \in hit' /\ \A q \in hit' : Before(q, pos + 1)'
        BY <2>u, <2>1, <3>4, <1>i DEF Before
      <3> QED
        BY <2>u, <3>5, <3>6, <3>7 DEF TurnInv
    <2>2. ASSUME NEW i \in 1 .. Len(list), state = "idle", list[i] = o, list' = Without(i),
                 ostate' = [ostate EXCEPT ![o] = "idle"]
          PROVE  TurnInv'
      <3>1. \A q \in Obs : Listed(q)' <=> Listed(q) /\ q # o
        BY <2>2, <1>t, WithoutListed DEF ListInv
      <3>2. pc # "callback"
        BY <2>2 DEF ListInv, Walking
      <3>3. \A q \in Obs : q # o => Active(q)' = Active(q)
        BY <2>2, <1>t DEF Active
      <3>4. \A q \in Obs : Listed(q)' /\ Active(q)' => q \in reg'
        BY <2>u, <3>1, <3>2, <3>3, <1>i
      <3> QED
        BY <2>u, <3>2, <3>4 DEF TurnInv
    <2> QED
      BY <1>4, <2>1, <2>2 DEF Detach
  <1>5. ASSUME NEW e \in Event, Send(e) PROVE TurnInv'
    BY <1>5, TurnFrame DEF Send, loopVars, obsVars, history
  <1> QED
    BY <1>1, <1>2, <1>3, <1>4, <1>5 DEF Calls

LEMMA ClientTurn == TurnInv /\ ClientNext => TurnInv'
  <1> SUFFICES ASSUME TurnInv, ClientNext PROVE TurnInv'
    OBVIOUS
  <1>1. loopVars' = loopVars /\ obsVars' = obsVars /\ history' = history
    BY DEF ClientNext, Wake, SendWait
  <1>2. /\ list' = list /\ ostate' = ostate /\ reg' = reg /\ hit' = hit /\ due' = due
        /\ pc' = pc /\ pos' = pos /\ msg' = msg
    BY <1>1 DEF loopVars, obsVars, history
  <1> QED
    BY <1>2, TurnFrame

LEMMA LooperTurn == TypeOK /\ ListInv /\ TurnInv /\ LooperNext => TurnInv'
  <1> SUFFICES ASSUME TypeOK, ListInv, TurnInv, LooperNext PROVE TurnInv'
    OBVIOUS
  <1>t. /\ list \in Seq(Obs) /\ ostate \in [Obs -> {"idle", "attached", "once", "detached"}]
        /\ pos \in Nat \ {0} /\ due \subseteq Obs /\ hit \subseteq Obs
    BY DEF TypeOK
  <1>e. \A i \in 1 .. Len(list) : list[i] \in Obs
    BY <1>t, Element
  <1>s. \A k \in pos .. Len(list) : k = pos \/ k \in pos + 1 .. Len(list)
    BY <1>t, SMT
  <1>b. \A k \in 1 .. pos - 1 : k \in 1 .. (pos + 1) - 1
    BY <1>t, SMT
  <1>i. /\ pc \in {"scan", "callback"} => \A o \in due :
             o \in hit \/ (Turn(o) /\ Active(o) /\ Matches(msg.event, ObsEvent[o]))
        /\ pc \in {"sweep", "release"} => due \subseteq hit
        /\ pc = "scan" => \A o \in hit : Before(o, pos)
        /\ pc = "callback" => Current \in hit /\ \A o \in hit : Before(o, pos + 1)
        /\ \A o \in Obs : Listed(o) /\ Active(o) =>
             o \in reg \/ (pc = "callback" /\ Current = o /\ ostate[o] = "once")
    BY DEF TurnInv
  <1>1. CASE Receive \/ Destruct
    <2>1. /\ list' = list /\ ostate' = ostate /\ reg' = reg
          /\ pc # "callback" /\ pc' \in {"recv", "execute", "destruct"}
      BY <1>1 DEF Receive, Destruct, obsVars, history
    <2> QED
      BY <2>1, TurnIdle
  <1>2. CASE EndNotify
    <2>1. /\ list' = list /\ ostate' = ostate /\ reg' = reg
          /\ pc # "callback" /\ pc' \in {"recv", "execute", "destruct"}
      BY <1>2 DEF EndNotify, obsVars
    <2> QED
      BY <2>1, TurnIdle
  <1>3. CASE StartNotify
    <2>u. /\ list' = list /\ ostate' = ostate /\ reg' = reg /\ msg' = msg
          /\ pc = "execute" /\ pc' = "scan" /\ pos' = 1 /\ hit' = {}
          /\ due' = {o \in Obs : Listed(o) /\ Active(o) /\ Matches(msg.event, ObsEvent[o])}
      BY <1>3 DEF StartNotify, obsVars
    <2>1. \A o \in due' : Turn(o)' /\ Active(o)' /\ Matches(msg.event, ObsEvent[o])
      BY <2>u DEF Turn, Listed, Active
    <2>2. \A o \in Obs : Listed(o)' /\ Active(o)' => o \in reg'
      BY <2>u, <1>i DEF Listed, Active
    <2> QED
      BY <2>u, <2>1, <2>2 DEF TurnInv
  <1>4. CASE Trigger
    <2>u. /\ list' = list /\ ostate' = ostate /\ msg' = msg /\ pos' = pos /\ due' = due
          /\ pc = "scan" /\ pc' = "callback" /\ pos <= Len(list)
          /\ hit' = hit \cup {Current}
          /\ reg' = IF ostate[Current] = "once" THEN reg \ {Current} ELSE reg
      BY <1>4 DEF Trigger, obsVars
    <2>1. Current' = Current /\ \A o : Turn(o)' = Turn(o) /\ (Active(o)' <=> Active(o))
      BY <2>u DEF Turn, Active, Current
    <2>2. \A o \in due' :
            o \in hit' \/ (Turn(o)' /\ Active(o)' /\ Matches(msg.event, ObsEvent[o]))
      BY <2>u, <2>1, <1>i
    <2>3. \A o : o = Current => Before(o, pos + 1)'
      <3>1. pos \in 1 .. (pos + 1) - 1
        BY <1>t, SMT
      <3> QED
        BY <3>1, <2>u DEF Before, Current
    <2>4. \A o \in hit : Before(o, pos + 1)'
      BY <2>u, <1>i, <1>b DEF Before
    <2>5. \A o \in hit' : Before(o, pos + 1)'
      BY <2>u, <2>3, <2>4
    <2>6. \A o \in Obs : Listed(o)' /\ Active(o)' =>
            o \in reg' \/ (pc' = "callback" /\ Current' = o /\ ostate'[o] = "once")
      BY <2>u, <2>1, <1>i DEF Listed
    <2> QED
      BY <2>u, <2>1, <2>2, <2>5, <2>6 DEF TurnInv
  <1>5. CASE EndCallback
    <2>u. /\ list' = list /\ msg' = msg /\ pos' = pos + 1 /\ due' = due /\ hit' = hit /\ reg' = reg
          /\ pc = "callback" /\ pc' = "scan"
          /\ ostate' = IF ostate[Current] = "once"
                         THEN [ostate EXCEPT ![Current] = "detached"] ELSE ostate
      BY <1>5 DEF EndCallback, history
    <2>1. \A o \in Obs : o # Current => (Active(o)' <=> Active(o))
      BY <2>u, <1>t DEF Active
    <2>2. \A o \in Obs : Turn(o) => o = Current \/ Turn(o)'
      BY <2>u, <1>s DEF Turn, Current
    <2>3. \A o \in due' :
            o \in hit' \/ (Turn(o)' /\ Active(o)' /\ Matches(msg.event, ObsEvent[o]))
      BY <2>u, <2>1, <2>2, <1>i, <1>t
    <2>4. \A o \in hit' : Before(o, pos)'
      BY <2>u, <1>i DEF Before
    <2>5. ASSUME NEW o \in Obs, Listed(o)', Active(o)' PROVE o \in reg'
      <3>1. Listed(o)
        BY <2>5, <2>u DEF Listed
      <3>2. CASE o # Current
        BY <3>1, <3>2, <2>1, <2>5, <2>u, <1>i
      <3>3. CASE o = Current
        <4>1. ostate[o] # "once"
          BY <2>5, <3>3, <2>u, <1>t DEF Active
        <4>2. Active(o)
          BY <2>5, <4>1, <3>3, <2>u DEF Active
        <4> QED
          BY <4>1, <4>2, <3>1, <2>u, <1>i
      <3> QED
        BY <3>2, <3>3
    <2> QED
      BY <2>u, <2>3, <2>4, <2>5 DEF TurnInv
  <1>6. CASE Skip
    <2>u. /\ list' = list /\ ostate' = ostate /\ msg' = msg /\ pos' = pos + 1
          /\ due' = due /\ hit' = hit /\ reg' = reg /\ pc = "scan" /\ pc' = "scan"
          /\ ~(Matches(msg.event, ObsEvent[Current]) /\ Active(Current))
      BY <1>6 DEF Skip, obsVars, history
    <2>1. \A o \in Obs : Turn(o) => o = Current \/ Turn(o)'
      BY <2>u, <1>s DEF Turn, Current
    <2>2. \A o : (Active(o)' <=> Active(o)) /\ (Listed(o)' <=> Listed(o))
      BY <2>u DEF Active, Listed
    <2>3. \A o \in due' :
            o \in hit' \/ (Turn(o)' /\ Active(o)' /\ Matches(msg.event, ObsEvent[o]))
      BY <2>u, <2>1, <2>2, <1>i, <1>t
    <2>4. \A o \in hit' : Before(o, pos)'
      BY <2>u, <1>i, <1>b DEF Before
    <2>5. \A o \in Obs : Listed(o)' /\ Active(o)' => o \in reg'
      BY <2>u, <2>2, <1>i
    <2> QED
      BY <2>u, <2>3, <2>4, <2>5 DEF TurnInv
  <1>7. CASE EndScan
    <2>u. /\ list' = list /\ ostate' = ostate /\ reg' = reg /\ hit' = hit /\ due' = due
          /\ pc = "scan" /\ pc' = "sweep" /\ pos > Len(list)
      BY <1>7 DEF EndScan, obsVars, history
    <2>1. \A o : ~Turn(o)
      <3>1. pos .. Len(list) = {}
        BY <2>u, <1>t, SMT
      <3> QED
        BY <3>1 DEF Turn
    <2>2. due' \subseteq hit'
      BY <2>u, <2>1, <1>i
    <2>3. \A o \in Obs : Listed(o)' /\ Active(o)' => o \in reg'
      BY <2>u, <1>i DEF Listed, Active
    <2> QED
      BY <2>u, <2>2, <2>3 DEF TurnInv
  <1>8. CASE Unlink \/ Release
    <2>1. /\ pc \in {"sweep", "release"} /\ pc' \in {"sweep", "release"}
          /\ due' = due /\ hit' = hit /\ reg' = reg
      BY <1>8 DEF Unlink, Release, history
    <2>2. \A o \in Obs : Listed(o)' /\ Active(o)' => Listed(o) /\ Active(o)
      <3>1. CASE Unlink
        <4>1. ostate' = ostate
          BY <3>1 DEF Unlink
        <4>2. \A o \in Obs : Listed(o)' => Listed(o)
          <5>1. CASE list' = list
            BY <5>1 DEF Listed
          <5>2. CASE list' = Without(pos) /\ pos <= Len(list)
            <6>1. pos \in 1 .. Len(list)
              BY <5>2, <1>t, SMT
            <6> QED
              BY <5>2, <6>1, <1>t, WithoutListed DEF ListInv
          <5> QED
            BY <3>1, <5>1, <5>2 DEF Unlink
        <4> QED
          BY <4>1, <4>2 DEF Active
      <3>2. CASE Release
        BY <3>2, <1>t DEF Release, Listed, Active
      <3> QED
        BY <1>8, <3>1, <3>2
    <2>3. \A o \in Obs : Listed(o)' /\ Active(o)' => o \in reg'
      BY <2>1, <2>2, <1>i
    <2> QED
      BY <2>1, <2>3, <1>i DEF TurnInv
  <1> QED
    BY <1>1, <1>2, <1>3, <1>4, <1>5, <1>6, <1>7, <1>8 DEF LooperNext

-----------------------------------------------------------------------------
(* The messages that are waited for *)

LEMMA MailFrame ==
  ASSUME MailInv, queue' = queue, msg' = msg, waiting' = waiting, sem' = sem,
         pc' = "recv" <=> pc = "recv"
  PROVE  MailInv'
  BY DEF MailInv, Rendezvous

LEMMA MailNext == TypeOK /\ MailInv /\ Next => MailInv'
  <1> SUFFICES ASSUME TypeOK, MailInv, Next PROVE MailInv'
    OBVIOUS
  <1>t. queue \in Seq(Message) /\ Len(queue) \in Nat /\ sem \subseteq Client /\ waiting \subseteq Client
    BY SMT DEF TypeOK
  <1>i. /\ \A i \in 1 .. Len(queue) : queue[i].from # NoOne => queue[i].from \in waiting \ sem
        /\ pc # "recv" /\ msg.from # NoOne => msg.from \in waiting \ sem
        /\ \A c \in waiting \ sem :
             \/ pc # "recv" /\ msg.from = c
             \/ \E i \in 1 .. Len(queue) : queue[i].from = c
        /\ \A i, j \in 1 .. Len(queue) :
             i # j /\ queue[i].from = queue[j].from => queue[i].from = NoOne
        /\ pc # "recv" /\ msg.from # NoOne =>
             \A i \in 1 .. Len(queue) : queue[i].from # msg.from
    BY DEF MailInv, Rendezvous
  <1>1. ASSUME NEW o \in Obs, NEW s \in {"attached", "once"},
               Create(o) \/ Destroy(o) \/ Detach(o) \/ Attach(o, s)
        PROVE  MailInv'
    <2>1. queue' = queue /\ msg' = msg /\ waiting' = waiting /\ sem' = sem /\ pc' = pc
      BY <1>1 DEF Create, Destroy, Detach, Attach, loopVars, clientVars
    <2> QED
      BY <2>1, MailFrame
  <1>2. ASSUME NEW e \in Event, Send(e) PROVE MailInv'
    <2> DEFINE m == [event |-> e, from |-> NoOne]
    <2>1. m \in Message /\ m.from = NoOne
      BY DEF Message
    <2>u. queue' = Append(queue, m) /\ msg' = msg /\ waiting' = waiting /\ sem' = sem /\ pc' = pc
      BY <1>2 DEF Send, loopVars, clientVars
    <2> HIDE DEF m
    <2>2. /\ Len(queue') = Len(queue) + 1
          /\ \A k \in 1 .. Len(queue) : queue'[k] = queue[k]
          /\ queue'[Len(queue) + 1] = m
      BY <2>u, <2>1, <1>t, AppendFacts
    <2>3. \A i \in 1 .. Len(queue) + 1 : i \in 1 .. Len(queue) \/ i = Len(queue) + 1
      BY <1>t, SMT
    <2>4. \A i \in 1 .. Len(queue) : i \in 1 .. Len(queue')
      BY <2>2, <1>t, SMT
    <2>5. \A i \in 1 .. Len(queue') :
            queue'[i].from # NoOne => i \in 1 .. Len(queue) /\ queue'[i] = queue[i]
      BY <2>1, <2>2, <2>3
    <2>6. \A c \in waiting \ sem :
             \/ pc # "recv" /\ msg.from = c
             \/ \E i \in 1 .. Len(queue') : queue'[i].from = c
      BY <2>2, <2>4, <1>i
    <2> QED
      BY <2>u, <2>5, <2>6, <1>i DEF MailInv, Rendezvous
  <1>3. ASSUME NEW c \in Client, NEW e \in Event, SendWait(c, e) PROVE MailInv'
    <2> DEFINE m == [event |-> e, from |-> c]
    <2>1. m \in Message /\ m.from = c /\ c # NoOne
      BY ClientAssumption DEF Message
    <2>u. /\ queue' = Append(queue, m) /\ msg' = msg /\ pc' = pc /\ c \notin waiting
          /\ waiting' = waiting \cup {c} /\ sem' = sem \ {c}
      BY <1>3 DEF SendWait, loopVars
    <2> HIDE DEF m
    <2>2. /\ Len(queue') = Len(queue) + 1
          /\ \A k \in 1 .. Len(queue) : queue'[k] = queue[k]
          /\ queue'[Len(queue) + 1] = m
      BY <2>u, <2>1, <1>t, AppendFacts
    <2>3. \A i \in 1 .. Len(queue') : i \in 1 .. Len(queue) \/ i = Len(queue) + 1
      BY <2>2, <1>t, SMT
    <2>4. /\ Len(queue) + 1 \in 1 .. Len(queue')
          /\ \A i \in 1 .. Len(queue) : i \in 1 .. Len(queue')
      BY <2>2, <1>t, SMT
    <2>5. \A i \in 1 .. Len(queue) : queue[i].from # c
      BY <2>u, <2>1, <1>i
    <2>6. pc # "recv" => msg.from # c
      BY <2>u, <2>1, <1>i
    <2>7. waiting' \ sem' = (waiting \ sem) \cup {c}
      BY <2>u
    <2>8. \A i \in 1 .. Len(queue') :
            queue'[i].from # NoOne => queue'[i].from \in waiting' \ sem'
      BY <2>1, <2>2, <2>3, <2>7, <1>i
    <2>9. \A d \in waiting' \ sem' :
             \/ pc # "recv" /\ msg.from = d
             \/ \E i \in 1 .. Len(queue') : queue'[i].from = d
      BY <2>1, <2>2, <2>4, <2>7, <1>i
    <2>10. \A i, j \in 1 .. Len(queue') :
             i # j /\ queue'[i].from = queue'[j].from => queue'[i].from = NoOne
      BY <2>1, <2>2, <2>3, <2>5, <1>i
    <2>11. pc # "recv" /\ msg.from # NoOne =>
             msg.from \in waiting' \ sem' /\ \A i \in 1 .. Len(queue') : queue'[i].from # msg.from
      BY <2>1, <2>2, <2>3, <2>6, <2>7, <1>i
    <2> QED
      BY <2>u, <2>8, <2>9, <2>10, <2>11 DEF MailInv, Rendezvous
  <1>4. ASSUME NEW c \in Client, Wake(c) PROVE MailInv'
    <2>u. /\ queue' = queue /\ msg' = msg /\ pc' = pc /\ c \in sem
          /\ waiting' = waiting \ {c} /\ sem' = sem \ {c}
      BY <1>4 DEF Wake, loopVars
    <2>1. waiting' \ sem' = waiting \ sem
      BY <2>u
    <2> QED
      BY <2>u, <2>1, <1>i DEF MailInv, Rendezvous
  <1>5. CASE Receive
    <2>u. /\ queue # << >> /\ msg' = Head(queue) /\ queue' = Tail(queue)
          /\ pc = "recv" /\ pc' = "execute" /\ waiting' = waiting /\ sem' = sem
      BY <1>5 DEF Receive, clientVars
    <2>2. /\ Len(queue') = Len(queue) - 1 /\ Len(queue) \in Nat \ {0} /\ msg' = queue[1]
          /\ \A k \in 1 .. Len(queue) - 1 : queue'[k] = queue[k + 1]
      BY <2>u, <1>t, TailFacts
    <2>3. /\ 1 \in 1 .. Len(queue)
          /\ \A k \in 1 .. Len(queue') : k + 1 \in 1 .. Len(queue) /\ k + 1 # 1 /\ queue'[k] = queue[k + 1]
          /\ \A k, l \in 1 .. Len(queue') : k # l => k + 1 # l + 1
      BY <2>2, SMT
    <2>4. \A i \in 1 .. Len(queue) :
            i = 1 \/ \E k \in 1 .. Len(queue') : queue'[k] = queue[i]
      <3> SUFFICES ASSUME NEW i \in 1 .. Len(queue), i # 1
                   PROVE  \E k \in 1 .. Len(queue') : queue'[k] = queue[i]
        OBVIOUS
      <3>1. i - 1 \in 1 .. Len(queue') /\ (i - 1) + 1 = i
        BY <2>2, SMT
      <3> QED
        BY <3>1, <2>3
    <2>5. \A c \in waiting \ sem :
            msg'.from = c \/ \E i \in 1 .. Len(queue') : queue'[i].from = c
      BY <2>u, <2>2, <2>4, <1>i
    <2>6. /\ \A i \in 1 .. Len(queue') : queue'[i].from # NoOne => queue'[i].from \in waiting \ sem
          /\ msg'.from # NoOne => msg'.from \in waiting \ sem
      BY <2>2, <2>3, <1>i
    <2>7. \A i, j \in 1 .. Len(queue') :
            i # j /\ queue'[i].from = queue'[j].from => queue'[i].from = NoOne
      <3> SUFFICES ASSUME NEW i \in 1 .. Len(queue'), NEW j \in 1 .. Len(queue'),
                          i # j, queue'[i].from = queue'[j].from
                   PROVE  queue'[i].from = NoOne
        OBVIOUS
      <3>1. i + 1 \in 1 .. Len(queue) /\ j + 1 \in 1 .. Len(queue) /\ i + 1 # j + 1
        BY <2>3
      <3>2. queue[i + 1].from = queue[j + 1].from
        BY <2>3
      <3>3. queue[i + 1].from = NoOne
        BY <3>1, <3>2, <1>i
      <3> QED
        BY <2>3, <3>3
    <2>8. msg'.from # NoOne => \A i \in 1 .. Len(queue') : queue'[i].from # msg'.from
      <3> SUFFICES ASSUME msg'.from # NoOne, NEW i \in 1 .. Len(queue'), queue'[i].from = msg'.from
                   PROVE  FALSE
        OBVIOUS
      <3>1. 1 \in 1 .. Len(queue) /\ i + 1 \in 1 .. Len(queue) /\ i + 1 # 1
        BY <2>3
      <3>2. queue[i + 1].from = queue[1].from
        BY <2>2, <2>3
      <3>3. queue[i + 1].from = NoOne
        BY <3>1, <3>2, <1>i
      <3> QED
        BY <2>2, <3>2, <3>3
    <2> QED
      BY <2>u, <2>5, <2>6, <2>7, <2>8 DEF MailInv, Rendezvous
  <1>6. CASE StartNotify \/ Trigger \/ EndCallback \/ Skip \/ EndScan \/ Unlink \/ Release \/ EndNotify
    <2>1. /\ queue' = queue /\ msg' = msg /\ waiting' = waiting /\ sem' = sem
          /\ pc # "recv" /\ pc' # "recv"
      BY <1>6 DEF StartNotify, Trigger, EndCallback, Skip, EndScan, Unlink, Release, EndNotify, clientVars
    <2> QED
      BY <2>1, MailFrame
  <1>7. CASE Destruct
    <2>u. /\ queue' = queue /\ msg' = msg /\ waiting' = waiting
          /\ pc = "destruct" /\ pc' = "recv" /\ sem' = sem \cup ({msg.from} \ {NoOne})
      BY <1>7 DEF Destruct
    <2>1. \A i \in 1 .. Len(queue) :
            queue[i].from # NoOne => queue[i].from \in waiting' \ sem'
      BY <2>u, <1>i
    <2>2. \A c \in waiting' \ sem' : \E i \in 1 .. Len(queue) : queue[i].from = c
      BY <2>u, <1>t, <1>i, ClientAssumption
    <2> QED
      BY <2>u, <2>1, <2>2, <1>i DEF MailInv, Rendezvous
  <1> QED
    BY <1>1, <1>2, <1>3, <1>4, <1>5, <1>6, <1>7 DEF Next, Calls, ClientNext, LooperNext

-----------------------------------------------------------------------------
LEMMA NextInv == IInv /\ [Next]_vars => IInv'
  <1> SUFFICES ASSUME IInv, [Next]_vars PROVE IInv'
    OBVIOUS
  <1>1. CASE Calls
    <2>1. MailInv'
      BY <1>1, MailNext DEF IInv, Next
    <2> QED
      BY <1>1, <2>1, CallsTypes, CallsList, CallsReg, CallsTurn DEF IInv
  <1>2. CASE ClientNext
    <2>1. MailInv'
      BY <1>2, MailNext DEF IInv, Next
    <2> QED
      BY <1>2, <2>1, ClientTypes, ClientList, ClientReg, ClientTurn DEF IInv
  <1>3. CASE LooperNext
    <2>1. MailInv'
      BY <1>3, MailNext DEF IInv, Next
    <2> QED
      BY <1>3, <2>1, LooperTypes, LooperList, LooperReg, LooperTurn DEF IInv
  <1>4. CASE UNCHANGED vars
    <2>1. /\ queue' = queue /\ loopVars' = loopVars /\ obsVars' = obsVars
          /\ clientVars' = clientVars /\ history' = history
      BY <1>4 DEF vars
    <2>2. /\ msg' = msg /\ pc' = pc /\ pos' = pos /\ gone' = gone /\ state' = state
          /\ list' = list /\ ostate' = ostate /\ alive' = alive
          /\ waiting' = waiting /\ sem' = sem /\ reg' = reg /\ hit' = hit /\ due' = due
      BY <2>1 DEF loopVars, obsVars, clientVars, history
    <2>3. TypeOK'
      BY <2>1, <2>2 DEF IInv, TypeOK
    <2>4. ListInv'
      BY <2>2 DEF IInv, ListInv, Distinct, Listed, Walking
    <2>5. RegInv'
      BY <2>2, RegFrame DEF IInv
    <2>6. TurnInv'
      BY <2>2, TurnFrame DEF IInv
    <2>7. MailInv'
      BY <2>1, <2>2, MailFrame DEF IInv
    <2> QED
      BY <2>3, <2>4, <2>5, <2>6, <2>7 DEF IInv
  <1> QED
    BY <1>1, <1>2, <1>3, <1>4 DEF Next

\* The list, the registrations, the turns and the messages agree at every
\* step of notify (publisher.c) and of the rendezvous (sys_ctrl.c).
THEOREM Invariant == Spec => []IInv
  BY InitInv, NextInv, PTL DEF Spec

\* The variables keep their types and the queue its length.
THEOREM TypeCorrect == Spec => []TypeOK
  <1>1. IInv => TypeOK
    BY DEF IInv
  <1> QED
    BY <1>1, Invariant, PTL

\* observer_destroy needs no lock: no node of the list of notify is ever that
\* of a destroyed observer, however careless the callbacks are.
THEOREM ListSound == Spec => []NoDangling
  <1>1. IInv => NoDangling
    BY DEF IInv, ListInv, Distinct, NoDangling
  <1> QED
    BY <1>1, Invariant, PTL

\* sys_ctrl_attach and sys_ctrl_touch: what they report as registered is in
\* the list and active, given careful callers.
THEOREM Registered == ASSUME Careful PROVE Spec => []RegistrationHolds
  <1>1. IInv => RegistrationHolds
    BY DEF IInv, RegInv
  <1> QED
    BY <1>1, Invariant, PTL

\* notify: the walk reaches every observer it should, whatever is attached
\* and detached during it.
THEOREM Complete == Spec => []AllNotified
  <1>1. IInv => AllNotified
    BY DEF IInv, TurnInv, AllNotified
  <1> QED
    BY <1>1, Invariant, PTL

\* notify: no observer is triggered twice for one event, nor after detach
\* returned or its touch was used up.
THEOREM Once == Spec => NotifiedOnce
  <1>1. IInv => [Trigger => Current \in reg \ hit]_vars
    <2> SUFFICES ASSUME IInv, Trigger PROVE Current \in reg \ hit
      OBVIOUS
    <2>t. list \in Seq(Obs) /\ pos \in Nat \ {0}
      BY DEF IInv, TypeOK
    <2>1. pc = "scan" /\ pos \in 1 .. Len(list) /\ Active(Current)
      BY <2>t, SMT DEF Trigger
    <2>2. Current \in Obs /\ Listed(Current)
      BY <2>1, <2>t, Element DEF Current, Listed
    <2>3. Current \in reg
      BY <2>1, <2>2 DEF IInv, TurnInv
    <2>4. Current \notin hit
      <3> SUFFICES ASSUME Current \in hit PROVE FALSE
        OBVIOUS
      <3>1. Before(Current, pos)
        BY <2>1 DEF IInv, TurnInv
      <3>2. PICK i \in 1 .. pos - 1 : i <= Len(list) /\ list[i] = list[pos]
        BY <3>1 DEF Before, Current
      <3>3. i \in 1 .. Len(list) /\ i # pos
        BY <3>2, <2>1, <2>t, SMT
      <3> QED
        BY <3>2, <3>3, <2>1 DEF IInv, ListInv, Distinct
    <2> QED
      BY <2>3, <2>4
  <1> QED
    BY <1>1, Invariant, PTL DEF NotifiedOnce

\* sys_handler_send_wait_finish: a semaphore is released exactly for a client
\* that waits on it, and a client that waits still has its message.
THEOREM Paired == Spec => []Rendezvous
  <1>1. IInv => Rendezvous
    BY DEF IInv, MailInv
  <1> QED
    BY <1>1, Invariant, PTL

-----------------------------------------------------------------------------
(* How long the looper is busy with a message *)

\* A list that names nobody twice is no longer than there are observers.
LEMMA ListBound ==
  ASSUME IsFiniteSet(Obs), NEW l \in Seq(Obs), \A i, j \in 1 .. Len(l) : i # j => l[i] # l[j]
  PROVE  Cardinality(Obs) \in Nat /\ Len(l) \in Nat /\ Len(l) <= Cardinality(Obs)
  <1> DEFINE n == Len(l)
             f == [i \in 1 .. n |-> l[i]]
  <1>1. n \in Nat /\ Cardinality(Obs) \in Nat
    BY FS_CardinalityType, SMT
  <1>2. f \in [1 .. n -> Obs] /\ \A i \in 1 .. n : f[i] = l[i]
    BY Element
  <1>3. \A i, j \in 1 .. n : f[i] = f[j] => i = j
    BY <1>2
  <1> HIDE DEF f
  <1>4. f \in Injection(1 .. n, Obs)
    BY <1>2, <1>3 DEF Injection, IsInjective
  <1>5. Cardinality(1 .. n) <= Cardinality(Obs)
    BY <1>4, FS_Injection
  <1>6. Cardinality(1 .. n) = n
    <2>1. 1 \in Int /\ n \in Int
      BY <1>1
    <2>2. Cardinality(1 .. n) = IF 1 > n THEN 0 ELSE n - 1 + 1
      BY <2>1, FS_Interval
    <2> QED
      BY <2>2, <1>1, SMT
  <1> QED
    BY <1>1, <1>5, <1>6

\* The iterator is never more than one behind the list.
Iterator == pc \in {"scan", "sweep", "release"} => pos <= Len(list) + 1

\* While notify walks, the list changes in callbacks only.
LEMMA CallsFrame ==
  ASSUME Calls \/ ClientNext
  PROVE  /\ pc' = pc /\ pos' = pos
         /\ pc \in {"scan", "sweep", "release"} => list' = list
  <1>1. CASE Calls
    BY <1>1 DEF Calls, Create, Destroy, Attach, Detach, Send, CanCall, loopVars, obsVars
  <1>2. CASE ClientNext
    BY <1>2 DEF ClientNext, Wake, SendWait, loopVars, obsVars
  <1> QED
    BY <1>1, <1>2

\* What the looper's steps do to the iterator and the list.
LEMMA LooperMoves ==
  ASSUME TypeOK, LooperNext
  PROVE  \/ pc = "recv" /\ pc' = "execute"
         \/ pc = "execute" /\ pc' = "scan" /\ pos' = 1
         \/ pc = "scan" /\ pc' = "callback" /\ pos' = pos
         \/ pc = "callback" /\ pc' = "scan" /\ pos' = pos + 1 /\ list' = list
         \/ pc = "scan" /\ pc' = "scan" /\ pos <= Len(list) /\ pos' = pos + 1 /\ list' = list
         \/ pc = "scan" /\ pc' = "sweep" /\ pos' = 1 /\ list' = list
         \/ /\ pc = "sweep" /\ pc' = "release" /\ pos <= Len(list) /\ pos' = pos
            /\ Len(list') = Len(list) - 1
         \/ pc = "sweep" /\ pc' = "sweep" /\ pos <= Len(list) /\ pos' = pos + 1 /\ list' = list
         \/ pc = "release" /\ pc' = "sweep" /\ pos' = pos /\ list' = list
         \/ pc = "sweep" /\ pc' = "destruct"
         \/ pc = "destruct" /\ pc' = "recv"
  <1>1. CASE Receive \/ StartNotify \/ Destruct
    BY <1>1 DEF Receive, StartNotify, Destruct
  <1>2. CASE Trigger \/ EndCallback \/ Skip \/ EndScan
    BY <1>2 DEF Trigger, EndCallback, Skip, EndScan, obsVars
  <1>3. CASE Unlink
    <2>1. CASE list' = Without(pos) /\ pc' = "release" /\ pos' = pos
      <3>1. pos \in 1 .. Len(list) /\ list \in Seq(Obs) /\ pc = "sweep" /\ pos <= Len(list)
        BY <1>3, SMT DEF Unlink, TypeOK
      <3>2. Len(list') = Len(list) - 1
        BY <2>1, <3>1, WithoutFacts
      <3> QED
        BY <2>1, <3>1, <3>2
    <2>2. CASE pos' = pos + 1 /\ list' = list /\ pc' = pc
      BY <1>3, <2>2 DEF Unlink
    <2> QED
      BY <1>3, <2>1, <2>2 DEF Unlink
  <1>4. CASE Release \/ EndNotify
    BY <1>4 DEF Release, EndNotify
  <1> QED
    BY <1>1, <1>2, <1>3, <1>4 DEF LooperNext

LEMMA IteratorNext ==
  ASSUME IInv, Iterator, [Next]_vars
  PROVE  Iterator'
  <1>1. CASE Calls \/ ClientNext
    BY <1>1, CallsFrame DEF Iterator
  <1>2. CASE LooperNext
    <2>1. /\ pos \in Nat /\ Len(list) \in Nat
          /\ pc = "callback" => pos <= Len(list)
      BY SMT DEF IInv, TypeOK, ListInv
    <2>2. TypeOK
      BY DEF IInv
    <2>3. pc' = "scan" /\ pc = "execute" => Len(list') \in Nat
      BY <1>2, <2>1 DEF LooperNext, StartNotify, Receive, Trigger, EndCallback, Skip, EndScan,
         Unlink, Release, EndNotify, Destruct, obsVars
    <2> QED
      BY <1>2, <2>1, <2>2, <2>3, LooperMoves, SMT DEF Iterator
  <1>3. CASE UNCHANGED vars
    BY <1>3 DEF vars, loopVars, obsVars, Iterator
  <1> QED
    BY <1>1, <1>2, <1>3 DEF Next

\* TurnRank, as a function of the place and the lengths.
RankOf(m, p, i, n) ==
  CASE p = "execute"  -> 4 * m + 1
    [] p = "scan"     -> 2 * (2 * m - i) + 2
    [] p = "callback" -> 2 * (2 * m - i) + 1
    [] p = "release"  -> 2 * (n + 1 - i) + 2
    [] p = "sweep"    -> 2 * (n + 1 - i) + 1
    [] OTHER          -> 0

LEMMA RankFacts ==
  ASSUME NEW m, NEW i, NEW n
  PROVE  /\ RankOf(m, "execute", i, n) = 4 * m + 1
         /\ RankOf(m, "scan", i, n) = 2 * (2 * m - i) + 2
         /\ RankOf(m, "callback", i, n) = 2 * (2 * m - i) + 1
         /\ RankOf(m, "release", i, n) = 2 * (n + 1 - i) + 2
         /\ RankOf(m, "sweep", i, n) = 2 * (n + 1 - i) + 1
         /\ RankOf(m, "destruct", i, n) = 0
  BY DEF RankOf

\* Where the looper is with its message: i is the iterator, n the length.
Place(m, p, i, n) ==
  /\ m \in Nat /\ i \in Nat /\ n \in Nat /\ n < m
  /\ p \in {"execute", "scan", "callback", "sweep", "release", "destruct"}
  /\ p \in {"scan", "sweep", "release"} => i <= n + 1
  /\ p = "callback" => i <= n

LEMMA RankNat ==
  ASSUME NEW m, NEW p, NEW i, NEW n, Place(m, p, i, n)
  PROVE  RankOf(m, p, i, n) \in Nat
  BY RankFacts, SMT DEF Place

\* The looper's steps within a message.
LEMMA RankFalls ==
  ASSUME NEW m, NEW p, NEW i, NEW n, NEW q, NEW j, NEW k,
         Place(m, p, i, n), Place(m, q, j, k),
         \/ p = "execute" /\ q = "scan" /\ j = 1
         \/ p = "scan" /\ q = "callback" /\ j = i
         \/ p = "callback" /\ q = "scan" /\ j = i + 1
         \/ p = "scan" /\ q = "scan" /\ j = i + 1
         \/ p = "scan" /\ q = "sweep" /\ j = 1
         \/ p = "sweep" /\ q = "release" /\ j = i /\ k = n - 1
         \/ p = "sweep" /\ q = "sweep" /\ j = i + 1 /\ k = n
         \/ p = "release" /\ q = "sweep" /\ j = i /\ k = n
         \/ p = "sweep" /\ q = "destruct"
  PROVE  RankOf(m, q, j, k) < RankOf(m, p, i, n)
  BY RankFacts, SMT DEF Place

LEMMA RankStep ==
  ASSUME IInv, IInv', Iterator, Iterator', [Next]_vars, pc # "recv", pc' # "recv",
         IsFiniteSet(Obs)
  PROVE  /\ TurnRank' <= TurnRank /\ TurnRank' >= 0
         /\ LooperNext => TurnRank' < TurnRank
  <1> DEFINE m == Cardinality(Obs) + 1
  <1>1. Place(m, pc, pos, Len(list))
    <2>1. list \in Seq(Obs) /\ Distinct
      BY DEF IInv, TypeOK, ListInv
    <2>2. Cardinality(Obs) \in Nat /\ Len(list) \in Nat /\ Len(list) <= Cardinality(Obs)
      BY <2>1, ListBound DEF Distinct
    <2>3. m \in Nat /\ Len(list) < m
      BY <2>2, SMT
    <2> QED
      BY <2>2, <2>3 DEF Place, IInv, TypeOK, ListInv, Iterator
  <1>2. Place(m, pc', pos', Len(list'))
    <2>1. list' \in Seq(Obs) /\ Distinct'
      BY DEF IInv, TypeOK, ListInv
    <2>2. Cardinality(Obs) \in Nat /\ Len(list') \in Nat /\ Len(list') <= Cardinality(Obs)
      BY <2>1, ListBound DEF Distinct
    <2>3. m \in Nat /\ Len(list') < m
      BY <2>2, SMT
    <2> QED
      BY <2>2, <2>3 DEF Place, IInv, TypeOK, ListInv, Iterator
  <1>3. /\ TurnRank = RankOf(m, pc, pos, Len(list))
        /\ TurnRank' = RankOf(m, pc', pos', Len(list'))
    BY DEF TurnRank, RankOf
  <1> HIDE DEF m
  <1>4. TurnRank \in Nat /\ TurnRank' \in Nat
    BY <1>1, <1>2, <1>3, RankNat
  <1>5. CASE LooperNext
    <2>1. TypeOK
      BY DEF IInv
    <2>2. RankOf(m, pc', pos', Len(list')) < RankOf(m, pc, pos, Len(list))
      BY <1>1, <1>2, <1>5, <2>1, LooperMoves, RankFalls
    <2> QED
      BY <2>2, <1>3, <1>4
  <1>6. CASE ~LooperNext
    <2>1. /\ pc' = pc /\ pos' = pos
          /\ pc \in {"scan", "sweep", "release"} => list' = list
      <3>1. CASE Calls \/ ClientNext
        BY <3>1, CallsFrame
      <3>2. CASE UNCHANGED vars
        BY <3>2 DEF vars, loopVars, obsVars
      <3> QED
        BY <1>6, <3>1, <3>2 DEF Next
    <2>2. TurnRank' = TurnRank
      BY <2>1, <1>1, <1>3, RankFacts DEF Place
    <2> QED
      BY <2>2, <1>4, <1>6, SMT
  <1>7. TurnRank' >= 0
    BY <1>4, SMT
  <1> QED
    BY <1>4, <1>5, <1>6, <1>7, SMT

\* main_looper: with its message the looper takes a bounded number of steps,
\* 4 * |Obs| + 7 at most, however many observers the callbacks attach, detach
\* or touch during the walk.
THEOREM TurnEnds == ASSUME IsFiniteSet(Obs) PROVE Spec => TurnDescends
  <1>1. Init => Iterator
    BY DEF Init, Iterator
  <1>2. Spec => []Iterator
    BY <1>1, Invariant, IteratorNext, PTL DEF Spec
  <1>3. IInv /\ IInv' /\ Iterator /\ Iterator' /\ [Next]_vars =>
          [pc # "recv" /\ pc' # "recv" =>
             /\ TurnRank' <= TurnRank /\ TurnRank' >= 0
             /\ LooperNext => TurnRank' < TurnRank]_vars
    BY RankStep
  <1> QED
    BY <1>2, <1>3, Invariant, PTL DEF Spec, TurnDescends
=============================================================================
