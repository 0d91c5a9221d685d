---------------------------- MODULE AtomicUpdate ----------------------------
(***************************************************************************)
(* What the update service, the image configuration and the bootloader     *)
(* together promise the user of a device: it runs one version, and an      *)
(* update replaces that version by the offered one in a single step or not *)
(* at all.  A reset at any moment starts the one or the other, complete.   *)
(***************************************************************************)

CONSTANTS Version,  \* the builds there are
          None      \* no version

VARIABLES next,     \* the version a reset would start
          now,      \* the version that runs, None while the device starts
          offer,    \* the verified version whose installation is under way
          void      \* the promise no longer holds: the device has been used
                    \* in a way that it does not cover

updVars == <<next, now, offer, void>>

UpdInit == next \in Version /\ now = None /\ offer = None /\ void = FALSE

\* A started device runs what the last reset was to start.
Start == now = None /\ now' = next /\ UNCHANGED <<next, offer>>

\* A complete and verified image is about to be installed.
Verify(v) == now # None /\ offer = None /\ offer' = v /\ UNCHANGED <<next, now>>

Install == offer # None /\ next' = offer /\ offer' = None /\ UNCHANGED now

\* The installation fails and leaves things as they are.
Reject == offer # None /\ offer' = None /\ UNCHANGED <<next, now>>

\* A reset, in the middle of an installation too.
Reset == now' = None /\ offer' = None
         /\ \/ next' = next
            \/ offer # None /\ next' = offer

UpdNext == \/ void' = TRUE
           \/ /\ \/ Start \/ Install \/ Reject \/ Reset
                 \/ \E v \in Version : Verify(v)
              /\ UNCHANGED void

UpdSpec == UpdInit /\ [][UpdNext]_updVars
=============================================================================
