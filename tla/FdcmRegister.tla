---------------------------- MODULE FdcmRegister ----------------------------
(***************************************************************************)
(* What the Flash Data Chunk Manager promises its callers (image           *)
(* configuration, sysinfo): one chunk that survives power loss.            *)
(*                                                                         *)
(* The promise is weaker than that of an atomic register.  While a write   *)
(* is pending the stored chunk may be lost (the area reads back Void: no   *)
(* chunk, an erased one or a torn one); it is never replaced by anything   *)
(* but the pending chunk, and an older chunk never comes back.  A caller   *)
(* that erases the area gives the chunk up.                                *)
(***************************************************************************)

CONSTANTS Chunk,    \* the chunks a caller stores
          Void,     \* what a read yields when no chunk is readable
          Nothing   \* no write pending

VARIABLES stored,   \* what fdcm_read would deliver now
          pending   \* the chunk being written, Nothing between writes

regVars == <<stored, pending>>

RegTypeOK ==
  /\ stored \in Chunk \cup {Void}
  /\ pending \in Chunk \cup {Nothing}

RegInit == stored = Void /\ pending = Nothing

\* A caller starts fdcm_write.
Begin(c) ==
  /\ pending = Nothing
  /\ pending' = c
  /\ UNCHANGED stored

\* The write in progress makes the previous chunk unreadable.
Lose ==
  /\ pending # Nothing
  /\ stored' = Void
  /\ UNCHANGED pending

\* The write succeeds.
Commit ==
  /\ pending # Nothing
  /\ stored' = pending
  /\ pending' = Nothing

\* The write ends early, by an error or by power loss.
Abandon ==
  /\ pending # Nothing
  /\ stored' \in {stored, Void}
  /\ pending' = Nothing

\* The caller gives the chunk up (fdcm_erase), which may fail.
Discard ==
  /\ pending = Nothing
  /\ stored' \in {stored, Void}
  /\ UNCHANGED pending

RegNext == (\E c \in Chunk : Begin(c)) \/ Lose \/ Commit \/ Abandon \/ Discard

RegSpec == RegInit /\ [][RegNext]_regVars
=============================================================================
