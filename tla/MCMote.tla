------------------------------- MODULE MCMote -------------------------------
(***************************************************************************)
(* A small instance of Mote.                                               *)
(***************************************************************************)
EXTENDS Mote

\* autostart starts the firmware last; etimer_process was started before
\* sensors_process.
MCProcessList == <<"firmware", "sensors", "etimer">>

\* One timer is due at the next tick, the other has one tick in between.
MCIntervals == [t \in {1, 2} |-> {t}]
=============================================================================
