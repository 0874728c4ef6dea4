------------------------------- MODULE Source -------------------------------
(***************************************************************************)
(* The source firmware, mini_project/data_aggregation/source.c: the        *)
(* protothread udp_client_process with its timer and its button, and the   *)
(* parts of Contiki-NG that bring it events: etimer_process, which posts   *)
(* PROCESS_EVENT_TIMER when the timer expires, sensors_process, which      *)
(* broadcasts sensors_event after a press, and the event queue, which is   *)
(* bounded and may refuse either.                                          *)
(*                                                                         *)
(* After every event the thread asks etimer_expired, not what the event    *)
(* was.  A button event may so find the timer expired before the timer's   *)
(* own event arrives, which then finds it running again.                   *)
(*                                                                         *)
(* The range samples are drawn from is abstracted to the mode it belongs   *)
(* to; module Distribution has what is computed from the samples.          *)
(***************************************************************************)
EXTENDS Integers, Sequences

CONSTANTS
  SendInterval, (* SEND_INTERVAL, in ticks                                  *)
  Jitter,       (* 2 * CLOCK_SECOND, in ticks                               *)
  IdMod,        (* msg_id is an unsigned long: 2^32 in the code             *)
  QueueSize     (* PROCESS_CONF_NUMEVENTS: 32 in the code                   *)

ASSUME SourceAssumption ==
  /\ SendInterval \in Nat \ {0}
  /\ Jitter \in Nat \ {0}
  /\ IdMod \in Nat \ {0, 1}
  /\ QueueSize \in Nat \ {0}

VARIABLES
  btn_count,    (* presses since the last return to normal: 0, 1 or 2       *)
  active,       (* samples are sent                                         *)
  malfunction,  (* min and max are 300 and 500                              *)
  msg_id,       (* the number of the next message                           *)
  expired,      (* etimer_expired(&periodic_timer)                          *)
  left,         (* ticks until the running timer is due                     *)
  events,       (* the event queue: "timer" and "button" events             *)
  changed,      (* FLAG_CHANGED of the button sensor                        *)
  since         (* history: ticks since the last message, up to SendInterval *)

button == <<btn_count, active, malfunction>>
timer  == <<expired, left>>
vars   == <<btn_count, active, malfunction, msg_id, expired, left, events, changed, since>>

\* The state at the first PROCESS_WAIT_EVENT.
Init ==
  /\ btn_count   = 0
  /\ active      = TRUE
  /\ malfunction = FALSE
  /\ msg_id      = 1
  /\ expired     = FALSE
  /\ left        \in 0 .. SendInterval - 1
  /\ events      = <<>>
  /\ changed     = FALSE
  /\ since       = SendInterval

(***************************************************************************)
(* The protothread.                                                        *)
(***************************************************************************)

\* What a button event does to the mode.
Malfunction ==
  /\ btn_count = 0
  /\ btn_count' = 1
  /\ malfunction' = TRUE
  /\ UNCHANGED active

Stop ==
  /\ btn_count = 1
  /\ btn_count' = 2
  /\ active' = FALSE
  /\ UNCHANGED malfunction

\* Not the code: the samples stay wrong after the return to normal.
RecoverWithRange ==
  /\ btn_count = 2
  /\ btn_count' = 0
  /\ active' = TRUE
  /\ UNCHANGED malfunction

Recover ==
  /\ btn_count = 2
  /\ btn_count' = 0
  /\ active' = TRUE
  /\ malfunction' = FALSE

\* Not the code: a running timer does not keep an active source from sending.
ReadyUntimed == active'

\* Not the code: only the timer's own event makes a source send.
ReadyOnTimerEvent == Head(events) = "timer" /\ expired /\ active'

\* The condition at the end of the loop, after the button has been looked at.
Ready == expired /\ active'

\* Send a sample and schedule the next one with some jitter.
Transmit ==
  /\ Ready
  /\ msg_id' = (msg_id + 1) % IdMod
  /\ since' = 0
  /\ expired' = FALSE
  /\ left' \in SendInterval .. SendInterval + Jitter - 1

Wait ==
  /\ ~ Ready
  /\ UNCHANGED <<msg_id, since, timer>>

\* process_run takes one event off the queue and runs the thread with it.
HandleTimer ==
  /\ events # <<>> /\ Head(events) = "timer"
  /\ events' = Tail(events)
  /\ UNCHANGED <<button, changed>>
  /\ Transmit \/ Wait

\* Not the code: sensors_process does not clear the flag.
HandleButtonKeepingFlag ==
  /\ events # <<>> /\ Head(events) = "button"
  /\ events' = Tail(events)
  /\ UNCHANGED changed
  /\ Malfunction \/ Stop \/ Recover
  /\ Transmit \/ Wait

\* sensors_event is broadcast: udp_client_process, the last to be started, is
\* the first to be called; then sensors_process clears the flag.
HandleButton ==
  /\ events # <<>> /\ Head(events) = "button"
  /\ events' = Tail(events)
  /\ changed' = FALSE
  /\ Malfunction \/ Stop \/ Recover
  /\ Transmit \/ Wait

(***************************************************************************)
(* What brings the events.                                                 *)
(***************************************************************************)

\* The interrupt of a press.  While the flag of an earlier press is up, the
\* press sets it again and is lost.
Press ==
  /\ ~ changed
  /\ changed' = TRUE
  /\ UNCHANGED <<button, msg_id, timer, events, since>>

Posted == \E i \in DOMAIN events : events[i] = "button"

\* Not the code: process_post does not look whether the queue is full.
PostButtonUnbounded ==
  /\ changed /\ ~ Posted
  /\ events' = Append(events, "button")
  /\ UNCHANGED <<button, msg_id, timer, changed, since>>

\* sensors_process, polled by the interrupt, broadcasts the event and waits
\* for it to come by; if the queue is full, the press is lost.
PostButton ==
  /\ changed /\ ~ Posted
  /\ \/ Len(events) < QueueSize /\ events' = Append(events, "button") /\ UNCHANGED changed
     \/ Len(events) = QueueSize /\ changed' = FALSE /\ UNCHANGED events
  /\ UNCHANGED <<button, msg_id, timer, since>>

Tick ==
  /\ left'  = IF left = 0 THEN 0 ELSE left - 1
  /\ since' = IF since < SendInterval THEN since + 1 ELSE since
  /\ UNCHANGED <<button, msg_id, expired, events, changed>>

\* etimer_process posts the event of a timer that is due and marks the timer
\* expired; if the queue is full, it asks to be polled again.
TimerExpires ==
  /\ ~ expired /\ left = 0
  /\ Len(events) < QueueSize
  /\ expired' = TRUE
  /\ events' = Append(events, "timer")
  /\ UNCHANGED <<button, msg_id, left, changed, since>>

Next ==
  HandleTimer \/ HandleButton \/ Press \/ PostButton \/ Tick \/ TimerExpires

Spec == Init /\ [][Next]_vars

(***************************************************************************)
(* Fairness: the clock ticks, a due timer makes its interrupt poll         *)
(* etimer_process, a poll request makes the main loop run the process it   *)
(* is for, and the main loop takes events as long as there are any.        *)
(* Nobody has to press the button.                                         *)
(***************************************************************************)
Fairness ==
  /\ WF_vars(Tick)
  /\ WF_vars(TimerExpires)
  /\ WF_vars(PostButton)
  /\ WF_vars(HandleTimer \/ HandleButton)

FairSpec == Spec /\ Fairness

(***************************************************************************)
(* Correctness.                                                            *)
(***************************************************************************)

\* Every variable keeps its type, and the event queue its size.
TypeOK ==
  /\ btn_count \in 0 .. 2
  /\ active \in BOOLEAN
  /\ malfunction \in BOOLEAN
  /\ msg_id \in 0 .. IdMod - 1
  /\ expired \in BOOLEAN
  /\ left \in 0 .. SendInterval + Jitter - 1
  /\ events \in Seq({"timer", "button"}) /\ Len(events) <= QueueSize
  /\ changed \in BOOLEAN
  /\ since \in 0 .. SendInterval

\* The mode follows the presses, in the order of the three branches: a silent
\* source is a malfunctioning one, and a source that is back to normal has left
\* both behind.
ButtonCycle ==
  /\ malfunction <=> btn_count # 0
  /\ active <=> btn_count # 2

\* Two messages of a source are at least SEND_INTERVAL apart, however presses
\* and timer events interleave: no event of an earlier timer, and no return
\* from silence, sends a message too early.
SendsSpaced == [][msg_id' # msg_id => since = SendInterval]_vars

\* A source that stays active goes on sending, also after a silence in which
\* the timer's event came and went unused.
ActiveSends ==
  \A k \in 0 .. IdMod - 1 : active /\ msg_id = k ~> ~ active \/ msg_id # k

\* The button never dies: the flag that hides presses comes down again.
PressAnswered == changed ~> ~ changed
=============================================================================
