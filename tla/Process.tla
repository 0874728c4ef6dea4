------------------------------- MODULE Process -------------------------------
(***************************************************************************)
(* The process kernel (process.c) and the main loop around it              *)
(* (contiki-main.c, platform_idle of the Sky): the event queue, poll       *)
(* requests, and what of this an interrupt may come between.               *)
(*                                                                         *)
(* A process that is called runs until it gives up control: the actions of *)
(* the modules that extend this one say what it does, a step at a time,    *)
(* and end with Return.  Processes start and exit before the first of      *)
(* these steps.                                                            *)
(***************************************************************************)
EXTENDS Integers, Sequences

CONSTANTS
  ProcessList,  (* process_list: the process started last is its head       *)
  NumEvents     (* PROCESS_CONF_NUMEVENTS: 32 in the code                   *)

ASSUME ProcessAssumption ==
  /\ ProcessList \in Seq(STRING) /\ ProcessList # <<>>
  /\ NumEvents \in Nat \ {0}

VARIABLES
  events,         (* the event queue, oldest first                          *)
  needspoll,      (* the processes whose needspoll is set                   *)
  poll_requested,
  at,             (* how far the main loop is                               *)
  polls,          (* the place in ProcessList that do_poll looks at next    *)
  casts,          (* the place in ProcessList that a broadcast reaches next *)
  cast,           (* the event that is broadcast                            *)
  called          (* the event of the process that runs, if any             *)

queue == <<events>>
flags == <<needspoll, poll_requested>>
loop  == <<at, polls, casts, cast>>
processVars == <<queue, flags, loop, called>>

Event(ev, to) == [ev |-> ev, to |-> to]
None == Event("none", "none")

Places == 1 .. Len(ProcessList)

ProcessInit ==
  /\ events = <<>>
  /\ at = "run"
  /\ polls = 1
  /\ casts = 1
  /\ cast = None
  /\ called = None

(***************************************************************************)
(* What processes and interrupts do.                                       *)
(***************************************************************************)

Full == Len(events) = NumEvents

\* Not the code: the limit is not looked at.
PostUnbounded(e) == events' = Append(events, e)

\* process_post of an event that finds room.
Post(e) == ~ Full /\ events' = Append(events, e)

process_poll(p) ==
  /\ needspoll' = needspoll \cup {p}
  /\ poll_requested' = TRUE

\* The process gives up control.
Return == called' = None

\* LPM4_EXIT: platform_idle returns when the interrupt does.
Wake == at' = IF at = "asleep" THEN "run" ELSE at

(***************************************************************************)
(* The main loop.                                                          *)
(***************************************************************************)

Running == called = None

\* do_poll is entered.
do_poll(here) ==
  /\ poll_requested' = FALSE
  /\ polls' = 1
  /\ at' = here
  /\ UNCHANGED needspoll

process_run ==
  /\ Running /\ at = "run"
  /\ IF poll_requested THEN do_poll("poll") ELSE at' = "event" /\ UNCHANGED <<flags, polls>>
  /\ UNCHANGED <<queue, casts, cast, called>>

\* do_poll looks at the next process.
PollNext ==
  /\ Running /\ at \in {"poll", "castpoll"} /\ polls \in Places
  /\ IF ProcessList[polls] \in needspoll
     THEN /\ needspoll' = needspoll \ {ProcessList[polls]}
          /\ called' = Event("poll", ProcessList[polls])
     ELSE UNCHANGED <<needspoll, called>>
  /\ polls' = polls + 1
  /\ UNCHANGED <<queue, poll_requested, at, casts, cast>>

\* Not the code: poll_requested is cleared after the polls, not before.
PollDoneClearing ==
  /\ Running /\ at = "poll" /\ polls \notin Places
  /\ poll_requested' = FALSE
  /\ at' = "event"
  /\ UNCHANGED <<queue, needspoll, polls, casts, cast, called>>

PollDone ==
  /\ Running /\ at = "poll" /\ polls \notin Places
  /\ at' = "event"
  /\ UNCHANGED <<queue, flags, polls, casts, cast, called>>

do_event ==
  /\ Running /\ at = "event"
  /\ IF events = <<>>
     THEN at' = "check" /\ UNCHANGED <<queue, cast, called>>
     ELSE /\ events' = Tail(events)
          /\ IF Head(events).to = "broadcast"
             THEN at' = "cast" /\ cast' = Head(events) /\ UNCHANGED called
             ELSE at' = "check" /\ called' = Head(events) /\ UNCHANGED cast
  /\ UNCHANGED <<flags, polls, casts>>

\* The next process of a broadcast, which is polled for first.
CastNext ==
  /\ Running /\ at \in {"cast", "castpoll"} /\ casts \in Places
  /\ \/ /\ at = "cast" /\ poll_requested
        /\ do_poll("castpoll")
        /\ UNCHANGED <<casts, called>>
     \/ /\ IF at = "cast" THEN ~ poll_requested ELSE polls \notin Places
        /\ called' = Event(cast.ev, ProcessList[casts])
        /\ casts' = casts + 1
        /\ at' = "cast"
        /\ UNCHANGED <<flags, polls>>
  /\ UNCHANGED <<queue, cast>>

CastDone ==
  /\ Running /\ at = "cast" /\ casts \notin Places
  /\ casts' = 1 /\ cast' = None
  /\ at' = "check"
  /\ UNCHANGED <<queue, flags, polls, called>>

process_nevents == events # <<>> \/ poll_requested

\* The main loop runs on as long as process_run finds work left.
RunAgain ==
  /\ Running /\ at = "check"
  /\ at' = IF process_nevents THEN "run" ELSE "idle"
  /\ UNCHANGED <<queue, flags, polls, casts, cast, called>>

\* Not the code: the mote goes to sleep without looking for work again.
SleepUnchecked ==
  /\ Running /\ at = "idle"
  /\ at' = "asleep"
  /\ UNCHANGED <<queue, flags, polls, casts, cast, called>>

\* With interrupts disabled, until the mote is asleep.
platform_idle ==
  /\ Running /\ at = "idle"
  /\ \/ at' = "run"        \* there is work, or the serial line is active
     \/ ~ process_nevents /\ at' = "asleep"
  /\ UNCHANGED <<queue, flags, polls, casts, cast, called>>

MainLoop ==
  \/ process_run \/ PollNext \/ PollDone \/ do_event
  \/ CastNext \/ CastDone \/ RunAgain \/ platform_idle
=============================================================================
