------------------------------ MODULE Signals ------------------------------
(***************************************************************************)
(* The termination signals of the broadcasting client and the thread that  *)
(* turns them into flags (install_signal_handlers, cli/mod.rs).  The flags *)
(* are all it does: the loops of the two modes read them.                  *)
(***************************************************************************)

VARIABLES
    running,        \* FALSE once somebody asked the session to stop
    forced,         \* FALSE while a drain may go on
    pending         \* signals delivered and not yet handled

signalVars == <<running, forced, pending>>

(* SIGHUP is treated as SIGTERM is.                                        *)
Signal == {"INT", "TERM"}

SignalsInit == running = TRUE /\ forced = FALSE /\ pending = {}

(* Deliveries of the same signal collapse until the first is handled.      *)
Deliver(s) ==
    /\ s \notin pending
    /\ pending' = pending \cup {s}
    /\ UNCHANGED <<running, forced>>

(* The thread takes one pending signal: only a first SIGINT lets a drain   *)
(* go on.                                                                  *)
HandleSignal ==
    \E s \in pending :
      /\ pending' = pending \ {s}
      /\ running' = FALSE
      /\ forced' = (forced \/ ~running \/ s # "INT")

SignalsTypeOK == running \in BOOLEAN /\ forced \in BOOLEAN /\ pending \subseteq Signal
=============================================================================
