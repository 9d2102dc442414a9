----------------------------- MODULE EcuSimMain -----------------------------
(***************************************************************************)
(* The life of the ECU simulator process: main() with its signal handler   *)
(* (src/src/ecusim/main.c) and the loop of ecusim_run (ecusim.c).  What a  *)
(* request does is in EcuServer; here only the control flow counts.        *)
(***************************************************************************)
EXTENDS Naturals

VARIABLES
  pc,        \* "main": loop test of main; "run": loop test of ecusim_run;
             \* "recv", "send": inside uds_tp_recv, uds_tp_send; "exited"
  g_stop,    \* set by the signal handler
  running    \* EcuSimulator.running

vars == <<pc, g_stop, running>>

\* ecusim_init sets running; nothing in the program calls ecusim_stop.
Init == pc = "main" /\ g_stop = FALSE /\ running = TRUE

\* SIGTERM or SIGINT, at any time before the exit
handle_signal ==
  /\ pc # "exited"
  /\ g_stop' = TRUE
  /\ UNCHANGED <<pc, running>>

\* while (!g_stop && sim.running) ecusim_run(&sim), then ecusim_cleanup
MainLoop ==
  /\ pc = "main"
  /\ pc' = IF ~ g_stop /\ running THEN "run" ELSE "exited"
  /\ UNCHANGED <<g_stop, running>>

\* while (sim->running)
RunLoop ==
  /\ pc = "run"
  /\ pc' = IF running THEN "recv" ELSE "main"
  /\ UNCHANGED <<g_stop, running>>

\* uds_tp_recv returns: with a request that is answered, or with one that is
\* not, an error, the 100 ms timeout or an interrupted select().
Received ==
  /\ pc = "recv"
  /\ pc' \in {"run", "send"}
  /\ UNCHANGED <<g_stop, running>>

Responded ==
  /\ pc = "send"
  /\ pc' = "run"
  /\ UNCHANGED <<g_stop, running>>

main == MainLoop \/ RunLoop \/ Received \/ Responded

Next == main \/ handle_signal

\* The process runs, and every blocking call ends, by its timeout at the latest.
Spec == Init /\ [][Next]_vars /\ WF_vars(main)

----------------------------------------------------------------------------
\* main.c:9: "Runs until SIGTERM or SIGINT is received, then shuts down
\* cleanly."
ShutsDown == g_stop ~> pc = "exited"
=============================================================================
