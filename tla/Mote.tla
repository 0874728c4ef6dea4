-------------------------------- MODULE Mote --------------------------------
(***************************************************************************)
(* A mote: the kernel, etimer_process, sensors_process with the button     *)
(* (sensors.c, button-sensor.c), and the firmware's process with its       *)
(* timers.  The firmware may set or reset any timer when it is called, or  *)
(* none; modules Source and Aggregator say what it does with them.         *)
(***************************************************************************)
EXTENDS Etimer

ASSUME MoteAssumption ==
  {"firmware", "sensors", "etimer"} \subseteq { ProcessList[i] : i \in Places }

VARIABLES
  changed,      (* FLAG_CHANGED of the button sensor                        *)
  waiting,      (* sensors_process waits for its own event                  *)
  bouncing      (* debouncetimer has not expired                            *)

sensors == <<changed, waiting, bouncing>>
vars    == <<processVars, etimerVars, sensors>>

\* The firmware is about to be called for the first time.
Init ==
  /\ ProcessInit
  /\ EtimerInit
  /\ changed = FALSE
  /\ waiting = FALSE
  /\ bouncing = FALSE
  /\ needspoll = {"firmware"}
  /\ poll_requested = TRUE

(***************************************************************************)
(* The processes.                                                          *)
(***************************************************************************)

Firmware ==
  /\ called.to = "firmware"
  /\ \/ \E t \in Timers : etimer_reset(t) \/ \E i \in Intervals[t] : etimer_set(t, i)
     \/ UNCHANGED <<flags, timers, left>>
  /\ Return
  /\ UNCHANGED <<queue, loop, count, scan, sensors>>

\* sensors_process broadcasts the press and waits for the event to come by.
PostButton ==
  /\ called.to = "sensors" /\ ~ waiting /\ changed
  /\ Post(Event("sensors", "broadcast"))
  /\ waiting' = TRUE
  /\ Return
  /\ UNCHANGED <<flags, loop, etimerVars, changed, bouncing>>

\* Not the code: the flag stays up if the queue is full, and no poll follows.
DropButtonKeepingFlag ==
  /\ called.to = "sensors" /\ ~ waiting /\ changed /\ Full
  /\ Return
  /\ UNCHANGED <<queue, flags, loop, etimerVars, sensors>>

\* The press is lost if the queue is full; then the flag is looked at again.
DropButton ==
  /\ called.to = "sensors" /\ ~ waiting /\ changed /\ Full
  /\ changed' = FALSE
  /\ UNCHANGED <<processVars, etimerVars, waiting, bouncing>>

ButtonCameBy ==
  /\ called = Event("sensors", "sensors") /\ waiting
  /\ changed' = FALSE
  /\ waiting' = FALSE
  /\ UNCHANGED <<processVars, etimerVars, bouncing>>

SensorsYields ==
  /\ called.to = "sensors"
  /\ IF waiting THEN called.ev # "sensors" ELSE ~ changed
  /\ Return
  /\ UNCHANGED <<queue, flags, loop, etimerVars, sensors>>

Sensors == PostButton \/ DropButton \/ ButtonCameBy \/ SensorsYields

EtimerProcess == PostTimer("firmware") \/ SkipTimer \/ EtimerYields

(***************************************************************************)
(* The interrupts.                                                         *)
(***************************************************************************)

Press ==
  /\ ~ bouncing
  /\ bouncing' = TRUE
  /\ changed' = TRUE
  /\ process_poll("sensors")
  /\ Wake
  /\ UNCHANGED <<queue, polls, casts, cast, called, etimerVars, waiting>>

Interrupt == Press \/ (Tick /\ UNCHANGED sensors)

\* Bound: the debouncing (a quarter of a second) ends at the end of a
\* process_run, and not within one.
Loop ==
  /\ MainLoop
  /\ bouncing' = (bouncing /\ at # "check")
  /\ UNCHANGED <<etimerVars, changed, waiting>>

Cpu ==
  \/ Loop
  \/ EtimerProcess /\ UNCHANGED sensors
  \/ Firmware
  \/ Sensors

Next == Cpu \/ Interrupt

Spec == Init /\ [][Next]_vars

(***************************************************************************)
(* Fairness: the CPU runs unless it sleeps, and the clock ticks.  Nobody   *)
(* has to press the button, and the firmware need not set timers.          *)
(***************************************************************************)
FairSpec == Spec /\ WF_vars(Cpu) /\ WF_vars(Tick /\ UNCHANGED sensors)

(***************************************************************************)
(* Correctness.                                                            *)
(***************************************************************************)

Processes == { ProcessList[i] : i \in Places }

TypeOK ==
  /\ events \in Seq({Event("timer", "firmware"), Event("sensors", "broadcast")})
  /\ Len(events) <= NumEvents
  /\ needspoll \subseteq Processes /\ poll_requested \in BOOLEAN
  /\ at \in {"run", "poll", "event", "cast", "castpoll", "check", "idle", "asleep"}
  /\ polls \in 1 .. Len(ProcessList) + 1 /\ casts \in 1 .. Len(ProcessList) + 1
  /\ cast \in {None, Event("sensors", "broadcast")}
  /\ called \in [ev : {"none", "poll", "timer", "sensors"}, to : Processes \cup {"none"}]
  /\ count \in 0 .. Wrap - 1 /\ next_expiration \in 0 .. Wrap - 1
  /\ start \in [Timers -> 0 .. Wrap - 1]
  /\ DOMAIN interval = Timers /\ \A t \in Timers : interval[t] \in Intervals[t]
  /\ set \subseteq Timers
  /\ timerlist \in Seq(Timers)
  /\ scan \in 1 .. Len(timerlist) + 1
  /\ left \in [Timers -> Int]
  /\ changed \in BOOLEAN /\ waiting \in BOOLEAN /\ bouncing \in BOOLEAN

\* do_poll is under way and has yet to look at the process.
ToBePolled(p) ==
  /\ at \in {"poll", "castpoll"}
  /\ \E i \in Places : i >= polls /\ ProcessList[i] = p

\* No poll is forgotten: a process that is to be polled is found by the do_poll
\* that runs, or another one is requested, wherever the interrupt came.
NoPollForgotten == \A p \in needspoll : poll_requested \/ ToBePolled(p)

\* The mote sleeps only when nothing is left to do but to wait for an
\* interrupt: no event, no poll, no process that was interrupted.
SleepsWithoutWork ==
  at = "asleep" => events = <<>> /\ needspoll = {} /\ called = None

\* The list holds each timer that is set, once, and no other.
ListHoldsSet ==
  /\ set = { timerlist[i] : i \in DOMAIN timerlist }
  /\ \A i, j \in DOMAIN timerlist : timerlist[i] = timerlist[j] => i = j

\* Somebody looks at every timer that is due: etimer_process is going to, is
\* about to be polled, or is polled at the next tick.  next_expiration alone
\* does not do, for it passes over timers that were due when it was computed.
DueIsWatched ==
  \A i \in DOMAIN timerlist :
    left[timerlist[i]] <= 0 =>
      \/ "etimer" \in needspoll
      \/ Scanning /\ scan <= i
      \/ TickPolls

\* The event of a timer is posted only when its time has come, and a timer that
\* was due when it was reset is due again a period later: the clock's wrap, an
\* event that waits for a place in the queue and a late reset change nothing.
PostedWhenDue ==
  [][\A t \in set \ set' : left[t] <= 0]_vars

\* The event of a timer that is due gets posted, or the firmware sets the timer
\* to a later time, once the button is left alone: a full queue delays an event
\* and does not lose it.  (With a queue of one event, a button that is pressed
\* for ever can take the place each time.)
DueIsPosted ==
  <>[] ~ changed =>
    \A t \in Timers : t \in set /\ left[t] <= 0 ~> t \notin set \/ left[t] > 0

\* The button never dies.
ButtonLives == changed ~> ~ changed
=============================================================================
