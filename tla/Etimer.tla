------------------------------- MODULE Etimer -------------------------------
(***************************************************************************)
(* Event timers (etimer.c, timer.c) and the clock interrupt that polls     *)
(* etimer_process (clock.c).  Times are numbers of ticks modulo Wrap; left *)
(* is what they stand for, and may be negative.                            *)
(***************************************************************************)
EXTENDS Process

CONSTANTS
  Timers,       (* the event timers of the firmware                         *)
  Wrap,         (* clock_time_t is an unsigned long: 2^32 in the code       *)
  Intervals,    (* [timer]: what it is set to                               *)
  Slack,        (* bound: no running timer is overdue for longer            *)
  Forget        (* bound: no timer is reset when it has been due for longer *)

ASSUME EtimerAssumption ==
  /\ Wrap \in Nat \ {0} /\ Wrap % 2 = 0
  /\ \A t \in Timers : Intervals[t] \subseteq 0 .. Wrap \div 2 - 1
  /\ Slack \in Nat \ {0} /\ Slack < Wrap \div 2
  /\ Forget \in Nat /\ Slack < Forget /\ Forget <= Wrap \div 2

VARIABLES
  count,           (* the clock                                             *)
  start, interval, (* [timer]: struct timer                                 *)
  set,             (* the timers whose p is not PROCESS_NONE                *)
  timerlist,
  next_expiration,
  scan,            (* the place in timerlist that etimer_process looks at   *)
  left             (* history [timer]: ticks until it is due                *)

clock     == <<count, left>>
timers    == <<start, interval, set, timerlist, next_expiration>>
etimerVars == <<clock, timers, scan>>

MaxTicks == Wrap \div 2 - 1

Listed(t) == \E i \in DOMAIN timerlist : timerlist[i] = t

\* Not the code: the tick that has begun counts as if it had passed.
timer_expiredEarly(t) == interval[t] <= (count - start[t] + 1) % Wrap

timer_expired(t) == interval[t] < (count - start[t] + 1) % Wrap

\* The distance to the nearest of the listed timers, with the new values: one
\* that is overdue counts as far away.
update_time ==
  LET Dist == { (start'[timerlist'[i]] + interval'[timerlist'[i]] - count) % Wrap :
                  i \in DOMAIN timerlist' }
  IN  next_expiration' =
        IF timerlist' = <<>>
        THEN 0
        ELSE (count + CHOOSE d \in Dist : \A e \in Dist : d <= e) % Wrap

\* Not the code: nobody looks at the timer before the clock reaches it.
add_timerUnpolled(t) ==
  /\ UNCHANGED flags
  /\ timerlist' = IF t \in set /\ Listed(t) THEN timerlist ELSE <<t>> \o timerlist
  /\ set' = set \cup {t}
  /\ update_time

\* Not the code: a timer that runs is put on the list again.
add_timerTwice(t) ==
  /\ process_poll("etimer")
  /\ timerlist' = <<t>> \o timerlist
  /\ set' = set \cup {t}
  /\ update_time

add_timer(t) ==
  /\ process_poll("etimer")
  /\ timerlist' = IF t \in set /\ Listed(t) THEN timerlist ELSE <<t>> \o timerlist
  /\ set' = set \cup {t}
  /\ update_time

etimer_set(t, i) ==
  /\ start' = [start EXCEPT ![t] = count]
  /\ interval' = [interval EXCEPT ![t] = i]
  /\ left' = [left EXCEPT ![t] = i]
  /\ add_timer(t)

\* The next period of a timer that has expired begins where the last one ended.
etimer_reset(t) ==
  /\ left[t] > - Forget
  /\ IF timer_expired(t)
     THEN /\ start' = [start EXCEPT ![t] = (@ + interval[t]) % Wrap]
          /\ left' = [left EXCEPT ![t] = @ + interval[t]]
     ELSE UNCHANGED <<start, left>>
  /\ UNCHANGED interval
  /\ add_timer(t)

(***************************************************************************)
(* etimer_process.                                                         *)
(***************************************************************************)

Scanning == called = Event("poll", "etimer")

Remove(i) ==
  [ j \in 1 .. Len(timerlist) - 1 |-> IF j < i THEN timerlist[j] ELSE timerlist[j + 1] ]

\* A timer that is due is taken off the list when its event is posted.
PostTimer(to) ==
  /\ Scanning /\ scan \in DOMAIN timerlist
  /\ timer_expired(timerlist[scan])
  /\ Post(Event("timer", to))
  /\ set' = set \ {timerlist[scan]}
  /\ timerlist' = Remove(scan)
  /\ UNCHANGED <<start, interval>>
  /\ update_time
  /\ scan' = 1
  /\ UNCHANGED <<flags, loop, called, clock>>

\* Not the code: a full queue is not tried again.
PostTimerOnce ==
  /\ Scanning /\ scan \in DOMAIN timerlist
  /\ timer_expired(timerlist[scan]) => Full
  /\ scan' = scan + 1
  /\ UNCHANGED <<queue, flags, loop, called, clock, timers>>

\* The queue is full, or the timer is not due.
SkipTimer ==
  /\ Scanning /\ scan \in DOMAIN timerlist
  /\ IF timer_expired(timerlist[scan])
     THEN Full /\ process_poll("etimer")
     ELSE UNCHANGED flags
  /\ scan' = scan + 1
  /\ UNCHANGED <<queue, loop, called, clock, timers>>

\* The end of the list, or an event that is no poll.
EtimerYields ==
  /\ called.to = "etimer"
  /\ Scanning => scan \notin DOMAIN timerlist
  /\ Return
  /\ scan' = 1
  /\ UNCHANGED <<queue, flags, loop, clock, timers>>

(***************************************************************************)
(* The clock interrupt.                                                    *)
(***************************************************************************)

\* The next tick finds the time of next_expiration reached or passed.
TickPolls == timerlist # <<>> /\ (next_expiration - count - 2) % Wrap > MaxTicks

Tick ==
  /\ \A t \in set : left[t] > - Slack
  /\ count' = (count + 1) % Wrap
  /\ left' = [t \in Timers |-> IF left[t] > - Forget THEN left[t] - 1 ELSE left[t]]
  /\ IF TickPolls THEN process_poll("etimer") /\ Wake ELSE UNCHANGED <<flags, at>>
  /\ UNCHANGED <<queue, polls, casts, cast, called, timers, scan>>

EtimerInit ==
  /\ count \in 0 .. Wrap - 1
  /\ start = [t \in Timers |-> count]
  /\ interval \in [Timers -> UNION { Intervals[t] : t \in Timers }]
  /\ \A t \in Timers : interval[t] \in Intervals[t]
  /\ left = interval
  /\ set = {}
  /\ timerlist = <<>>
  /\ next_expiration = 0
  /\ scan = 1
=============================================================================
