---------------------------- MODULE MoteProofs -----------------------------
(***************************************************************************)
(* Theorems about Mote, for every list of processes, size of the event     *)
(* queue, set of timers and width of the clock: no poll is forgotten, the  *)
(* mote never sleeps over work, the list of timers holds those set, the    *)
(* variables keep their types, an event is posted only for a timer that is *)
(* due, and every due timer is watched.                                    *)
(***************************************************************************)
EXTENDS Mote, FiniteSetTheorems, SequenceTheorems, WellFoundedInduction, TLAPS

(***************************************************************************)
(* Polls.  Where do_poll is matters only with the place it looks at next,  *)
(* and a process that is no member of the list would wait for ever.        *)
(***************************************************************************)

PollInv ==
  /\ needspoll \subseteq Processes
  /\ poll_requested \in BOOLEAN
  /\ polls \in 1 .. Len(ProcessList) + 1
  /\ NoPollForgotten

\* The places of the list are numbered from one.
LEMMA PlacesAreNumbers == Len(ProcessList) \in Nat \ {0} /\ Places = 1 .. Len(ProcessList)
BY ProcessAssumption DEF Places

\* A step that leaves the flags and the main loop alone forgets no poll.
LEMMA UntouchedPolls ==
  ASSUME PollInv, UNCHANGED <<needspoll, poll_requested, at, polls>>
  PROVE  PollInv'
BY DEF PollInv, NoPollForgotten, ToBePolled, Places, Processes

\* Asking for a poll makes do_poll look at every process again.
LEMMA AskedPolls ==
  ASSUME PollInv, NEW p \in {"firmware", "sensors", "etimer"}, process_poll(p), polls' = polls
  PROVE  PollInv'
BY MoteAssumption DEF PollInv, NoPollForgotten, process_poll, Processes

\* do_poll begins with all processes before it.
LEMMA EnteredPolls ==
  ASSUME PollInv, NEW here \in {"poll", "castpoll"}, do_poll(here)
  PROVE  PollInv'
<1>1. /\ needspoll' = needspoll
      /\ polls' = 1
      /\ at' = here
      /\ poll_requested' = FALSE
  BY DEF do_poll
<1>2. ASSUME NEW p \in needspoll
      PROVE  ToBePolled(p)'
  <2>1. PICK i \in Places : ProcessList[i] = p
    BY DEF PollInv, Processes
  <2>2. i >= polls'
    BY <1>1, PlacesAreNumbers
  <2> QED
    BY <1>1, <2>1, <2>2 DEF ToBePolled, Places
<1>3. polls' \in 1 .. Len(ProcessList) + 1
  BY <1>1, PlacesAreNumbers
<1>4. NoPollForgotten'
  BY <1>1, <1>2 DEF NoPollForgotten
<1>5. needspoll' \subseteq Processes /\ poll_requested' \in BOOLEAN
  BY <1>1 DEF PollInv
<1> QED
  BY <1>3, <1>4, <1>5 DEF PollInv, Processes, Places

\* A process that was looked at is not among those that still are to be.
LEMMA LookedAtPolls ==
  ASSUME PollInv, PollNext
  PROVE  PollInv'
<1>1. /\ at \in {"poll", "castpoll"}
      /\ polls \in Places
      /\ polls' = polls + 1
      /\ poll_requested' = poll_requested
      /\ at' = at
      /\ needspoll' = needspoll \ {ProcessList[polls]}
  BY DEF PollNext
<1>2. ASSUME NEW p \in needspoll', ~ poll_requested
      PROVE  ToBePolled(p)'
  <2>1. p \in needspoll /\ p # ProcessList[polls]
    BY <1>1
  <2>2. PICK i \in Places : i >= polls /\ ProcessList[i] = p
    BY <1>2, <2>1 DEF PollInv, NoPollForgotten, ToBePolled
  <2>3. i >= polls + 1
    BY <1>1, <2>1, <2>2, PlacesAreNumbers
  <2> QED
    BY <1>1, <2>2, <2>3 DEF ToBePolled, Places
<1>3. polls' \in 1 .. Len(ProcessList) + 1
  BY <1>1, PlacesAreNumbers
<1> QED
  BY <1>1, <1>2, <1>3 DEF PollInv, NoPollForgotten, Processes, Places

\* Where no do_poll has a process before it, every poll has a request, and the
\* main loop may go anywhere.
LEMMA NothingBeforePolls ==
  ASSUME PollInv, at \notin {"poll", "castpoll"} \/ polls \notin Places,
         UNCHANGED <<needspoll, poll_requested, polls>>
  PROVE  PollInv'
<1>1. \A p \in needspoll : ~ ToBePolled(p)
  BY PlacesAreNumbers DEF ToBePolled, PollInv
<1>2. \A p \in needspoll : poll_requested
  BY <1>1 DEF PollInv, NoPollForgotten
<1> QED
  BY <1>2 DEF PollInv, NoPollForgotten, Processes, Places

\* No step forgets a poll.
LEMMA StepKeepsPolls ==
  ASSUME PollInv, [Next]_vars
  PROVE  PollInv'
<1>1. CASE Loop
  <2>1. CASE process_run
    <3>1. CASE poll_requested
      BY <2>1, <3>1, EnteredPolls DEF process_run
    <3>2. CASE ~ poll_requested
      BY <2>1, <3>2, NothingBeforePolls DEF process_run, flags
    <3> QED
      BY <3>1, <3>2
  <2>2. CASE PollNext
    BY <2>2, LookedAtPolls
  <2>3. CASE PollDone
    BY <2>3, NothingBeforePolls DEF PollDone, flags
  <2>4. CASE do_event
    BY <2>4, NothingBeforePolls DEF do_event, flags
  <2>5. CASE CastNext
    <3>1. CASE do_poll("castpoll")
      BY <3>1, EnteredPolls
    <3>2. CASE ~ do_poll("castpoll")
      BY <2>5, <3>2, NothingBeforePolls DEF CastNext, flags
    <3> QED
      BY <3>1, <3>2
  <2>6. CASE CastDone
    BY <2>6, NothingBeforePolls DEF CastDone, flags
  <2>7. CASE RunAgain
    BY <2>7, NothingBeforePolls DEF RunAgain, flags
  <2>8. CASE platform_idle
    BY <2>8, NothingBeforePolls DEF platform_idle, flags
  <2> QED
    BY <1>1, <2>1, <2>2, <2>3, <2>4, <2>5, <2>6, <2>7, <2>8 DEF Loop, MainLoop
<1>2. CASE EtimerProcess
  <2>1. CASE PostTimer("firmware")
    BY <2>1, UntouchedPolls DEF PostTimer, flags, loop
  <2>2. CASE SkipTimer
    <3>1. polls' = polls /\ at' = at
      BY <2>2 DEF SkipTimer, loop
    <3>2. process_poll("etimer") \/ UNCHANGED flags
      BY <2>2 DEF SkipTimer
    <3> QED
      BY <3>1, <3>2, AskedPolls, UntouchedPolls DEF flags
  <2>3. CASE EtimerYields
    BY <2>3, UntouchedPolls DEF EtimerYields, flags, loop
  <2> QED
    BY <1>2, <2>1, <2>2, <2>3 DEF EtimerProcess
<1>3. CASE Firmware
  <2>1. polls' = polls /\ at' = at
    BY <1>3 DEF Firmware, loop
  <2>2. process_poll("etimer") \/ UNCHANGED flags
    BY <1>3 DEF Firmware, etimer_reset, etimer_set, add_timer
  <2> QED
    BY <2>1, <2>2, AskedPolls, UntouchedPolls DEF flags
<1>4. CASE Sensors
  BY <1>4, UntouchedPolls
     DEF Sensors, PostButton, DropButton, ButtonCameBy, SensorsYields, flags, loop, processVars
<1>5. CASE Press
  BY <1>5, AskedPolls DEF Press
<1>6. CASE Tick
  <2>1. CASE TickPolls
    BY <1>6, <2>1, AskedPolls DEF Tick
  <2>2. CASE ~ TickPolls
    BY <1>6, <2>2, UntouchedPolls DEF Tick, flags
  <2> QED
    BY <2>1, <2>2
<1>7. CASE UNCHANGED vars
  BY <1>7, UntouchedPolls DEF vars, processVars, flags, loop
<1> QED
  BY <1>1, <1>2, <1>3, <1>4, <1>5, <1>6, <1>7 DEF Next, Cpu, Interrupt

\* A mote starts with the firmware to be polled.
LEMMA InitPolls ==
  ASSUME Init
  PROVE  PollInv
BY MoteAssumption, PlacesAreNumbers
   DEF Init, ProcessInit, PollInv, NoPollForgotten, Processes

\* No poll is forgotten (do_poll clears poll_requested before it looks at the
\* processes, process.c), wherever interrupts and broadcasts come between.
THEOREM NoPollForgottenHolds == Spec => []NoPollForgotten
<1>1. Init => PollInv
  BY InitPolls
<1>2. PollInv /\ [Next]_vars => PollInv'
  BY StepKeepsPolls
<1>3. PollInv => NoPollForgotten
  BY DEF PollInv
<1> QED
  BY <1>1, <1>2, <1>3, PTL DEF Spec

(***************************************************************************)
(* Sleep.                                                                  *)
(***************************************************************************)

\* Only platform_idle puts the mote to sleep, with no event and no request, and
\* only an interrupt gets it out of there.
LEMMA StepKeepsSleep ==
  ASSUME PollInv, SleepsWithoutWork, [Next]_vars
  PROVE  SleepsWithoutWork'
<1>1. CASE Loop
  <2>1. CASE platform_idle
    <3>1. called' = called /\ called = None
      BY <2>1 DEF platform_idle, Running
    <3>2. ASSUME at' = "asleep"
          PROVE  events' = <<>> /\ needspoll' = {}
      <4>1. events = <<>> /\ ~ poll_requested
        BY <2>1, <3>2 DEF platform_idle, process_nevents
      <4>2. \A p \in needspoll : ~ ToBePolled(p)
        BY <2>1 DEF platform_idle, ToBePolled
      <4>3. needspoll = {}
        BY <4>1, <4>2 DEF PollInv, NoPollForgotten
      <4> QED
        BY <2>1, <4>1, <4>3 DEF platform_idle, queue, flags
    <3> QED
      BY <3>1, <3>2 DEF SleepsWithoutWork
  <2>2. CASE ~ platform_idle
    <3>1. at' # "asleep"
      BY <1>1, <2>2 DEF Loop, MainLoop, process_run, do_poll, PollNext, PollDone,
         do_event, CastNext, CastDone, RunAgain
    <3> QED
      BY <3>1 DEF SleepsWithoutWork
  <2> QED
    BY <2>1, <2>2
<1>2. CASE EtimerProcess \/ Firmware \/ Sensors
  <2>1. called.to \in {"etimer", "firmware", "sensors"}
    BY <1>2 DEF EtimerProcess, PostTimer, SkipTimer, EtimerYields, Scanning, Event, Firmware,
       Sensors, PostButton, DropButton, ButtonCameBy, SensorsYields
  <2>2. at # "asleep"
    BY <2>1 DEF SleepsWithoutWork, None, Event
  <2>3. at' = at
    BY <1>2 DEF EtimerProcess, PostTimer, SkipTimer, EtimerYields, Firmware,
       Sensors, PostButton, DropButton, ButtonCameBy, SensorsYields, loop, processVars
  <2> QED
    BY <2>2, <2>3 DEF SleepsWithoutWork
<1>3. CASE Press
  BY <1>3 DEF Press, Wake, SleepsWithoutWork
<1>4. CASE Tick
  BY <1>4 DEF Tick, Wake, SleepsWithoutWork, queue, flags
<1>5. CASE UNCHANGED vars
  BY <1>5 DEF vars, processVars, queue, flags, loop, SleepsWithoutWork
<1> QED
  BY <1>1, <1>2, <1>3, <1>4, <1>5 DEF Next, Cpu, Interrupt

\* The mote sleeps only when no event waits, no process is to be polled and none
\* runs (platform_idle looks for work with interrupts disabled, platform.c).
THEOREM SleepsWithoutWorkHolds == Spec => []SleepsWithoutWork
<1>1. Init => PollInv /\ SleepsWithoutWork
  BY InitPolls DEF Init, ProcessInit, SleepsWithoutWork
<1>2. PollInv /\ SleepsWithoutWork /\ [Next]_vars => PollInv' /\ SleepsWithoutWork'
  BY StepKeepsPolls, StepKeepsSleep
<1> QED
  BY <1>1, <1>2, PTL DEF Spec

(***************************************************************************)
(* The list of timers.                                                     *)
(***************************************************************************)

ListInv == timerlist \in Seq(Timers) /\ ListHoldsSet

\* A step that leaves the list and the timers' processes alone.
LEMMA UntouchedList ==
  ASSUME ListInv, UNCHANGED <<set, timerlist>>
  PROVE  ListInv'
BY DEF ListInv, ListHoldsSet

\* add_timer puts a timer on the list that is not on it.
LEMMA AddedToList ==
  ASSUME ListInv, NEW t \in Timers, add_timer(t)
  PROVE  ListInv'
<1>1. CASE t \in set /\ Listed(t)
  BY <1>1, UntouchedList DEF add_timer
<1>2. CASE ~ (t \in set /\ Listed(t))
  <2> DEFINE new == <<t>> \o timerlist
  <2>1. timerlist' = new /\ set' = set \cup {t}
    BY <1>2 DEF add_timer
  <2>2. \A i \in DOMAIN timerlist : timerlist[i] # t
    BY <1>2 DEF ListInv, ListHoldsSet, Listed
  <2>3. /\ new \in Seq(Timers)
        /\ Len(timerlist) \in Nat
        /\ DOMAIN timerlist = 1 .. Len(timerlist)
        /\ DOMAIN new = 1 .. Len(timerlist) + 1
        /\ new[1] = t
        /\ \A i \in DOMAIN new \ {1} : i - 1 \in DOMAIN timerlist /\ new[i] = timerlist[i - 1]
    BY DEF ListInv
  <2>4. { new[i] : i \in DOMAIN new } = { timerlist[i] : i \in DOMAIN timerlist } \cup {t}
    <3>1. ASSUME NEW i \in DOMAIN timerlist
          PROVE  i + 1 \in DOMAIN new /\ new[i + 1] = timerlist[i]
      BY <2>3
    <3>2. 1 \in DOMAIN new
      BY <2>3
    <3> HIDE DEF new
    <3> QED
      BY <2>3, <3>1, <3>2
  <2>5. \A i, j \in DOMAIN new : new[i] = new[j] => i = j
    <3> HIDE DEF new
    <3>1. SUFFICES ASSUME NEW i \in DOMAIN new, NEW j \in DOMAIN new, new[i] = new[j]
                   PROVE  i = j
      OBVIOUS
    <3>2. CASE i = 1 \/ j = 1
      BY <2>2, <2>3, <3>1, <3>2
    <3>3. CASE i # 1 /\ j # 1
      <4>1. i - 1 = j - 1
        BY <2>3, <3>1, <3>3 DEF ListInv, ListHoldsSet
      <4> QED
        BY <2>3, <4>1
    <3> QED
      BY <3>2, <3>3
  <2> HIDE DEF new
  <2>6. set' = { timerlist'[i] : i \in DOMAIN timerlist' }
    BY <2>1, <2>4 DEF ListInv, ListHoldsSet
  <2>7. \A i, j \in DOMAIN timerlist' : timerlist'[i] = timerlist'[j] => i = j
    BY <2>1, <2>5
  <2>8. timerlist' \in Seq(Timers)
    BY <2>1, <2>3
  <2> QED
    BY <2>6, <2>7, <2>8, Zenon DEF ListInv, ListHoldsSet
<1> QED
  BY <1>1, <1>2

\* Taking one place out of the list leaves the others, in their order.
LEMMA RemovedFromList ==
  ASSUME ListInv, NEW i \in DOMAIN timerlist,
         set' = set \ {timerlist[i]}, timerlist' = Remove(i)
  PROVE  ListInv'
<1> DEFINE old(j) == IF j < i THEN j ELSE j + 1
<1>1. /\ Len(timerlist) \in Nat
      /\ DOMAIN timerlist = 1 .. Len(timerlist)
      /\ \A j \in DOMAIN timerlist : timerlist[j] \in Timers
  BY DEF ListInv
<1>2. /\ DOMAIN timerlist' = 1 .. Len(timerlist) - 1
      /\ \A j \in DOMAIN timerlist' :
           old(j) \in DOMAIN timerlist \ {i} /\ timerlist'[j] = timerlist[old(j)]
  BY <1>1 DEF Remove
<1>3. timerlist' \in Seq(Timers)
  <2>1. Len(timerlist) - 1 \in Nat
    BY <1>1
  <2>2. timerlist' = [ j \in 1 .. Len(timerlist) - 1 |-> timerlist'[j] ]
    BY <1>2 DEF Remove
  <2>3. \A j \in 1 .. Len(timerlist) - 1 : timerlist'[j] \in Timers
    BY <1>1, <1>2
  <2> QED
    BY <2>1, <2>2, <2>3, SeqDef
<1>4. \A j \in DOMAIN timerlist \ {i} : \E k \in DOMAIN timerlist' : old(k) = j
  <2>1. SUFFICES ASSUME NEW j \in DOMAIN timerlist \ {i}
                 PROVE  \E k \in DOMAIN timerlist' : old(k) = j
    OBVIOUS
  <2>2. CASE j < i
    BY <1>1, <1>2, <2>2
  <2>3. CASE j > i
    <3>1. j - 1 \in DOMAIN timerlist' /\ old(j - 1) = j
      BY <1>1, <1>2, <2>3
    <3> QED
      BY <3>1
  <2> QED
    BY <1>1, <2>2, <2>3
<1>5. \A j, k \in DOMAIN timerlist' : old(j) = old(k) => j = k
  BY <1>1, <1>2
<1> HIDE DEF old
<1>6. { timerlist'[j] : j \in DOMAIN timerlist' } = set \ {timerlist[i]}
  BY <1>2, <1>4 DEF ListInv, ListHoldsSet
<1>7. \A j, k \in DOMAIN timerlist' : timerlist'[j] = timerlist'[k] => j = k
  BY <1>2, <1>5 DEF ListInv, ListHoldsSet
<1> QED
  BY <1>3, <1>6, <1>7 DEF ListInv, ListHoldsSet

\* No step breaks the list.
LEMMA StepKeepsList ==
  ASSUME ListInv, [Next]_vars
  PROVE  ListInv'
<1>1. CASE EtimerProcess
  <2>1. CASE PostTimer("firmware")
    BY <2>1, RemovedFromList DEF PostTimer
  <2>2. CASE SkipTimer \/ EtimerYields
    BY <2>2, UntouchedList DEF SkipTimer, EtimerYields, timers
  <2> QED
    BY <1>1, <2>1, <2>2 DEF EtimerProcess
<1>2. CASE Firmware
  BY <1>2, AddedToList, UntouchedList DEF Firmware, etimer_reset, etimer_set, timers
<1>3. CASE Loop \/ Sensors \/ Interrupt \/ UNCHANGED vars
  BY <1>3, UntouchedList
     DEF Loop, Sensors, PostButton, DropButton, ButtonCameBy, SensorsYields, Interrupt, Press,
         Tick, vars, etimerVars, timers
<1> QED
  BY <1>1, <1>2, <1>3 DEF Next, Cpu

\* The list holds each timer whose process is set, once, and no other: add_timer
\* finds a timer that is on the list, and PROCESS_NONE marks one that is not
\* (etimer.c).
THEOREM ListHoldsSetHolds == Spec => []ListHoldsSet
<1>1. Init => ListInv
  BY DEF Init, EtimerInit, ListInv, ListHoldsSet
<1>2. ListInv /\ [Next]_vars => ListInv'
  BY StepKeepsList
<1>3. ListInv => ListHoldsSet
  BY DEF ListInv
<1> QED
  BY <1>1, <1>2, <1>3, PTL DEF Spec

(***************************************************************************)
(* Half the range of the clock: what an interval stays below.              *)
(***************************************************************************)

Half == Wrap \div 2

(***************************************************************************)
(* Numbers modulo Wrap.                                                    *)
(***************************************************************************)

\* The bounds on the clock, as numbers of half its range.
LEMMA ClockNumbers ==
  /\ Half \in Nat \ {0} /\ Wrap = 2 * Half /\ Wrap \in Nat
  /\ MaxTicks = Half - 1
  /\ Slack \in Nat \ {0} /\ Slack < Half
  /\ Forget \in Nat /\ Slack < Forget /\ Forget <= Half
  /\ \A t \in Timers : Intervals[t] \subseteq 0 .. Half - 1
BY EtimerAssumption DEF Half, MaxTicks

\* Around zero the remainder adds or takes a few times Wrap.
LEMMA Remainders ==
  ASSUME NEW x \in - 2 * Wrap .. 2 * Wrap - 1
  PROVE  /\ x % Wrap \in 0 .. Wrap - 1
         /\ x < - Wrap => x % Wrap = x + 2 * Wrap
         /\ x \in - Wrap .. - 1 => x % Wrap = x + Wrap
         /\ x \in 0 .. Wrap - 1 => x % Wrap = x
         /\ x >= Wrap => x % Wrap = x - Wrap
<1>1. Wrap \in Nat \ {0}
  BY EtimerAssumption
<1>2. x % Wrap \in 0 .. Wrap - 1
  BY <1>1
<1>3. x = Wrap * (x \div Wrap) + (x % Wrap)
  BY <1>1
<1>4. x \div Wrap \in {-2, -1, 0, 1}
  BY <1>1, <1>2, <1>3
<1> QED
  BY <1>1, <1>2, <1>3, <1>4

\* What update_time computes for a timer: what is left, or, for one that is
\* overdue, that much short of a whole turn of the clock.
LEMMA Distance ==
  ASSUME NEW c \in 0 .. Wrap - 1, NEW s \in 0 .. Wrap - 1, NEW i \in 0 .. Half - 1,
         NEW l \in Int, l > - Forget, l <= i, s + (i - l) \in {c, c + Wrap}
  PROVE  (s + i - c) % Wrap = IF l < 0 THEN l + Wrap ELSE l
<1> DEFINE x == s + i - c
<1>1. l \in - Half + 1 .. Half - 1 /\ x \in {l, l + Wrap}
  BY ClockNumbers
<1>2. x \in - 2 * Wrap .. 2 * Wrap - 1
  BY <1>1, ClockNumbers
<1> HIDE DEF x
<1>3. /\ x \in - Wrap .. - 1 => x % Wrap = x + Wrap
      /\ x \in 0 .. Wrap - 1 => x % Wrap = x
      /\ x >= Wrap => x % Wrap = x - Wrap
  BY <1>2, Remainders
<1>4. x % Wrap = IF l < 0 THEN l + Wrap ELSE l
  BY <1>1, <1>3, ClockNumbers
<1> QED
  BY <1>4 DEF x

\* A whole turn makes no difference to the clock.
LEMMA WholeTurn ==
  ASSUME NEW c \in 0 .. Wrap - 1, NEW l \in - Half .. - 1
  PROVE  (c + (l + Wrap)) % Wrap = (c + l) % Wrap
<1> DEFINE x == c + l
           y == x + Wrap
<1>1. /\ x \in - Wrap .. Wrap - 1 /\ y \in 0 .. 2 * Wrap - 1
      /\ x \in - 2 * Wrap .. 2 * Wrap - 1 /\ y \in - 2 * Wrap .. 2 * Wrap - 1
  BY ClockNumbers
<1>2. c + (l + Wrap) = y
  BY ClockNumbers
<1> HIDE DEF x
<1>3. /\ x \in - Wrap .. - 1 => x % Wrap = x + Wrap
      /\ x \in 0 .. Wrap - 1 => x % Wrap = x
  BY <1>1, Remainders
<1>4. y = x + Wrap
  OBVIOUS
<1> HIDE DEF y
<1>5. /\ y \in 0 .. Wrap - 1 => y % Wrap = y
      /\ y >= Wrap => y % Wrap = y - Wrap
  BY <1>1, Remainders
<1>6. y % Wrap = x % Wrap
  BY <1>1, <1>3, <1>4, <1>5, ClockNumbers
<1> QED
  BY <1>2, <1>6 DEF x

\* Nor does it, that the clock moves on by one if what is left gets one less.
LEMMA OneTick ==
  ASSUME NEW c \in 0 .. Wrap - 1, NEW l \in - Half .. Half
  PROVE  (((c + 1) % Wrap) + (l - 1)) % Wrap = (c + l) % Wrap
<1>1. CASE c < Wrap - 1
  <2>1. (c + 1) % Wrap = c + 1
    BY <1>1, EtimerAssumption
  <2>2. c + 1 + (l - 1) = c + l
    BY ClockNumbers
  <2> QED
    BY <2>1, <2>2
<1>2. CASE c = Wrap - 1
  <2>1. (c + 1) % Wrap = 0
    BY <1>2, EtimerAssumption
  <2> DEFINE x == l - 1
             y == c + l
  <2>2. /\ x \in - Wrap .. Wrap - 1 /\ y = x + Wrap
        /\ x \in - 2 * Wrap .. 2 * Wrap - 1 /\ y \in - 2 * Wrap .. 2 * Wrap - 1
    BY <1>2, ClockNumbers
  <2>3. (0 + (l - 1)) % Wrap = x % Wrap
    BY ClockNumbers
  <2> HIDE DEF x, y
  <2>4. /\ x \in - Wrap .. - 1 => x % Wrap = x + Wrap
        /\ x \in 0 .. Wrap - 1 => x % Wrap = x
    BY <2>2, Remainders
  <2>5. /\ y \in 0 .. Wrap - 1 => y % Wrap = y
        /\ y >= Wrap => y % Wrap = y - Wrap
    BY <2>2, Remainders
  <2>6. x % Wrap = y % Wrap
    BY <2>2, <2>4, <2>5, ClockNumbers
  <2> QED
    BY <2>1, <2>3, <2>6 DEF y
<1> QED
  BY <1>1, <1>2, ClockNumbers

\* The interrupt's comparison finds a timer that is due at the next tick, or that
\* was not due for too long.
LEMMA PollsAtTime ==
  ASSUME NEW c \in 0 .. Wrap - 1, NEW l \in - Half + 2 .. 1
  PROVE  (((c + l) % Wrap) - c - 2) % Wrap > MaxTicks
<1> DEFINE x == c + l
<1>1. x \in - Wrap .. 2 * Wrap - 1 /\ x \in - 2 * Wrap .. 2 * Wrap - 1
  BY ClockNumbers
<1> HIDE DEF x
<1>2. x % Wrap \in {x, x + Wrap, x - Wrap}
  BY <1>1, Remainders, ClockNumbers
<1> DEFINE y == (x % Wrap) - c - 2
<1>3. y \in {l - 2, l - 2 + Wrap, l - 2 - Wrap}
  BY <1>2, ClockNumbers DEF x
<1> HIDE DEF y
<1>4. y \in - 2 * Wrap .. 2 * Wrap - 1
  BY <1>3, ClockNumbers
<1>5. /\ y < - Wrap => y % Wrap = y + 2 * Wrap
      /\ y \in - Wrap .. - 1 => y % Wrap = y + Wrap
      /\ y \in 0 .. Wrap - 1 => y % Wrap = y
  BY <1>4, Remainders
<1>6. y % Wrap = l - 2 + Wrap
  BY <1>3, <1>5, ClockNumbers
<1>7. y % Wrap > MaxTicks
  BY <1>6, ClockNumbers
<1> QED
  BY <1>7 DEF x, y

\* A nonempty set of numbers has a least one.
LEMMA LeastNumber ==
  ASSUME NEW S \in SUBSET Nat, S # {}
  PROVE  \E x \in S : \A y \in S : x <= y
<1> DEFINE R == OpToRel(<, Nat)
<1>1. IsWellFoundedOn(R, Nat)
  BY NatLessThanWellFounded
<1>2. \A x, y \in Nat : <<x, y>> \in R <=> x < y
  BY DEF OpToRel
<1> HIDE DEF R
<1>3. PICK x \in S : \A y \in S : ~ (<<y, x>> \in R)
  BY <1>1, WFMin
<1>4. ASSUME NEW y \in S
      PROVE  x <= y
  <2>1. x \in Nat /\ y \in Nat
    OBVIOUS
  <2>2. ~ (y < x)
    BY <1>2, <1>3, <2>1
  <2> QED
    BY <2>1, <2>2
<1> QED
  BY <1>4

(***************************************************************************)
(* Types: the kernel and the sensors.                                      *)
(***************************************************************************)

Events == {Event("timer", "firmware"), Event("sensors", "broadcast")}
Calls  == [ev : {"none", "poll", "timer", "sensors"}, to : Processes \cup {"none"}]
PlacesAndEnd == 1 .. Len(ProcessList) + 1

KernelTypes ==
  /\ events \in Seq(Events) /\ Len(events) <= NumEvents
  /\ needspoll \subseteq Processes /\ poll_requested \in BOOLEAN
  /\ at \in {"run", "poll", "event", "cast", "castpoll", "check", "idle", "asleep"}
  /\ polls \in PlacesAndEnd /\ casts \in PlacesAndEnd
  /\ cast \in {None, Event("sensors", "broadcast")}
  /\ called \in Calls
  /\ changed \in BOOLEAN /\ waiting \in BOOLEAN /\ bouncing \in BOOLEAN

\* The processes of a mote are among those that are called and polled.
LEMMA ProcessesOfMote ==
  /\ {"firmware", "sensors", "etimer"} \subseteq Processes
  /\ \A i \in Places : ProcessList[i] \in Processes
  /\ None \in Calls
  /\ \A ev \in {"none", "poll", "timer", "sensors"} : \A p \in Processes : Event(ev, p) \in Calls
BY MoteAssumption DEF Processes, None, Event, Calls

\* An event is posted when there is a place for it.
LEMMA PostedTypes ==
  ASSUME events \in Seq(Events), Len(events) <= NumEvents, NEW e \in Events, Post(e)
  PROVE  events' \in Seq(Events) /\ Len(events') <= NumEvents
<1>1. events' = Append(events, e) /\ Len(events) # NumEvents
  BY DEF Post, Full
<1>2. events' \in Seq(Events) /\ Len(events') = Len(events) + 1
  BY <1>1
<1>3. Len(events) \in Nat /\ NumEvents \in Nat
  BY ProcessAssumption
<1> QED
  BY <1>1, <1>2, <1>3

\* What a process does with polls and events keeps their types.
LEMMA LoopKeepsKernelTypes ==
  ASSUME KernelTypes, Loop
  PROVE  KernelTypes'
<1>1. bouncing' \in BOOLEAN /\ changed' \in BOOLEAN /\ waiting' \in BOOLEAN
  BY DEF KernelTypes, Loop
<1>2. 1 \in PlacesAndEnd /\ \A i \in Places : i + 1 \in PlacesAndEnd
  BY PlacesAreNumbers DEF PlacesAndEnd
<1>3. Processes' = Processes /\ Places' = Places
  BY DEF Processes, Places
<1>4. CASE process_run
  BY <1>1, <1>2, <1>4 DEF KernelTypes, process_run, do_poll, queue, flags
<1>5. CASE PollNext
  <2>1. ProcessList[polls] \in Processes
    BY <1>5, ProcessesOfMote DEF PollNext
  <2>2. called' \in Calls /\ needspoll' \subseteq Processes
    BY <1>5, <2>1, ProcessesOfMote DEF PollNext, KernelTypes
  <2>3. polls' \in PlacesAndEnd
    BY <1>2, <1>5 DEF PollNext
  <2> QED
    BY <1>1, <1>5, <2>2, <2>3 DEF KernelTypes, PollNext, queue
<1>6. CASE PollDone
  BY <1>1, <1>6 DEF KernelTypes, PollDone, queue, flags
<1>7. CASE do_event
  <2>1. CASE events = <<>>
    BY <1>1, <1>7, <2>1 DEF KernelTypes, do_event, queue, flags
  <2>2. CASE events # <<>>
    <3>1. /\ Head(events) \in Events
          /\ events' \in Seq(Events)
          /\ Len(events') <= NumEvents
      <4>1. events' = Tail(events)
        BY <1>7, <2>2 DEF do_event
      <4>2. Len(events') = Len(events) - 1 /\ Len(events) \in Nat
        BY <2>2, <4>1 DEF KernelTypes
      <4> QED
        BY <2>2, <4>1, <4>2, ProcessAssumption DEF KernelTypes
    <3>2. CASE Head(events).to = "broadcast"
      <4>1. Head(events) = Event("sensors", "broadcast")
        BY <3>1, <3>2 DEF Events, Event
      <4> QED
        BY <1>1, <1>7, <2>2, <3>1, <3>2, <4>1 DEF KernelTypes, do_event, flags
    <3>3. CASE Head(events).to # "broadcast"
      <4>1. Head(events) = Event("timer", "firmware")
        BY <3>1, <3>3 DEF Events, Event
      <4>2. Head(events) \in Calls
        BY <4>1, ProcessesOfMote
      <4> QED
        BY <1>1, <1>7, <2>2, <3>1, <3>3, <4>2 DEF KernelTypes, do_event, flags
    <3> QED
      BY <3>2, <3>3
  <2> QED
    BY <2>1, <2>2
<1>8. CASE CastNext
  <2>1. Event(cast.ev, ProcessList[casts]) \in Calls
    <3>1. ProcessList[casts] \in Processes
      BY <1>8, ProcessesOfMote DEF CastNext
    <3>2. cast.ev \in {"none", "sensors"}
      BY DEF KernelTypes, None, Event
    <3> QED
      BY <3>1, <3>2, ProcessesOfMote
  <2>2. casts + 1 \in PlacesAndEnd
    BY <1>2, <1>8 DEF CastNext
  <2> QED
    BY <1>1, <1>2, <1>8, <2>1, <2>2 DEF KernelTypes, CastNext, do_poll, queue, flags
<1>9. CASE CastDone
  BY <1>1, <1>2, <1>9 DEF KernelTypes, CastDone, queue, flags
<1>10. CASE RunAgain
  BY <1>1, <1>10 DEF KernelTypes, RunAgain, queue, flags
<1>11. CASE platform_idle
  BY <1>1, <1>11 DEF KernelTypes, platform_idle, queue, flags
<1> QED
  BY <1>4, <1>5, <1>6, <1>7, <1>8, <1>9, <1>10, <1>11 DEF Loop, MainLoop

\* The steps of processes and interrupts keep them too.
LEMMA StepKeepsKernelTypes ==
  ASSUME KernelTypes, [Next]_vars
  PROVE  KernelTypes'
<1>1. CASE Loop
  BY <1>1, LoopKeepsKernelTypes
<1>2. CASE PostTimer("firmware") /\ UNCHANGED sensors
  <2>1. events' \in Seq(Events) /\ Len(events') <= NumEvents
    BY <1>2, PostedTypes DEF PostTimer, KernelTypes, Events
  <2> QED
    BY <1>2, <2>1 DEF KernelTypes, PostTimer, flags, loop, sensors, Processes, Places
<1>3. CASE SkipTimer /\ UNCHANGED sensors
  BY <1>3, ProcessesOfMote
     DEF KernelTypes, SkipTimer, process_poll, queue, flags, loop, sensors, Processes, Places
<1>4. CASE EtimerYields /\ UNCHANGED sensors
  BY <1>4, ProcessesOfMote
     DEF KernelTypes, EtimerYields, Return, queue, flags, loop, sensors, Processes, Places
<1>5. CASE Firmware
  <2>1. process_poll("etimer") \/ UNCHANGED flags
    BY <1>5 DEF Firmware, etimer_reset, etimer_set, add_timer
  <2> QED
    BY <1>5, <2>1, ProcessesOfMote
       DEF KernelTypes, Firmware, Return, process_poll, queue, flags, loop, sensors, Processes,
           Places
<1>6. CASE PostButton
  <2>1. events' \in Seq(Events) /\ Len(events') <= NumEvents
    BY <1>6, PostedTypes DEF PostButton, KernelTypes, Events
  <2> QED
    BY <1>6, <2>1, ProcessesOfMote
       DEF KernelTypes, PostButton, Return, flags, loop, Processes, Places
<1>7. CASE DropButton \/ ButtonCameBy \/ SensorsYields
  BY <1>7, ProcessesOfMote
     DEF KernelTypes, DropButton, ButtonCameBy, SensorsYields, Return, processVars, queue, flags,
         loop, sensors, Processes, Places
<1>8. CASE Press
  BY <1>8, ProcessesOfMote
     DEF KernelTypes, Press, process_poll, Wake, queue, Processes, Places
<1>9. CASE Tick /\ UNCHANGED sensors
  BY <1>9, ProcessesOfMote
     DEF KernelTypes, Tick, process_poll, Wake, queue, flags, sensors, Processes, Places
<1>10. CASE UNCHANGED vars
  BY <1>10 DEF KernelTypes, vars, processVars, queue, flags, loop, sensors, Processes, Places
<1> QED
  BY <1>1, <1>2, <1>3, <1>4, <1>5, <1>6, <1>7, <1>8, <1>9, <1>10
     DEF Next, Cpu, Interrupt, EtimerProcess, Sensors

(***************************************************************************)
(* The clock and the timers.  start holds the clock modulo Wrap at which   *)
(* the time of a timer began; left says how much of it remains.  They      *)
(* agree as long as the timer is not due for too long.                     *)
(***************************************************************************)

ClockTypes ==
  /\ count \in 0 .. Wrap - 1
  /\ start \in [Timers -> 0 .. Wrap - 1]
  /\ DOMAIN interval = Timers /\ \A t \in Timers : interval[t] \in Intervals[t]
  /\ left \in [Timers -> Int]
  /\ set \subseteq Timers

InTime(t) ==
  left[t] > - Forget =>
    /\ left[t] <= interval[t]
    /\ start[t] + (interval[t] - left[t]) \in {count, count + Wrap}

ClockInv ==
  /\ ClockTypes
  /\ \A t \in Timers : InTime(t)
  /\ \A t \in set : left[t] > - Forget

\* The clock's comparison finds out what is left, across the wrap.
LEMMA ExpiredWhenDue ==
  ASSUME ClockInv, NEW t \in Timers, left[t] > - Forget
  PROVE  timer_expired(t) <=> left[t] <= 0
<1> DEFINE d == interval[t] - left[t]
<1>1. /\ left[t] \in Int /\ interval[t] \in 0 .. Half - 1
      /\ count \in 0 .. Wrap - 1 /\ start[t] \in 0 .. Wrap - 1
  BY ClockNumbers DEF ClockInv, ClockTypes
<1>2. d \in 0 .. Wrap - 2 /\ start[t] + d \in {count, count + Wrap}
  BY <1>1, ClockNumbers DEF ClockInv, InTime
<1>3. count - start[t] + 1 \in - Wrap .. 2 * Wrap - 1
  BY <1>1, ClockNumbers
<1>4. (count - start[t] + 1) % Wrap = d + 1
  <2>1. count - start[t] + 1 \in {d + 1, d + 1 - Wrap}
    BY <1>1, <1>2, ClockNumbers
  <2> HIDE DEF d
  <2> QED
    BY <1>2, <1>3, <2>1, Remainders, ClockNumbers
<1>5. timer_expired(t) <=> interval[t] < d + 1
  BY <1>4 DEF timer_expired
<1> QED
  BY <1>1, <1>5

\* A step that leaves the clock and the timers' times alone.
LEMMA UntouchedClock ==
  ASSUME ClockInv, UNCHANGED <<count, start, interval, left>>, set' \subseteq set
  PROVE  ClockInv'
BY DEF ClockInv, ClockTypes, InTime

\* A timer that is set begins now.
LEMMA SetClock ==
  ASSUME ClockInv, NEW t \in Timers, NEW i \in Intervals[t], etimer_set(t, i), count' = count
  PROVE  ClockInv'
<1>1. /\ start' = [start EXCEPT ![t] = count]
      /\ interval' = [interval EXCEPT ![t] = i]
      /\ left' = [left EXCEPT ![t] = i]
      /\ set' = set \cup {t}
  BY DEF etimer_set, add_timer
<1>2. i \in 0 .. Half - 1
  BY ClockNumbers
<1>3. ClockTypes'
  BY <1>1, <1>2, ClockNumbers DEF ClockInv, ClockTypes
<1>4. ASSUME NEW u \in Timers
      PROVE  InTime(u)'
  <2>1. CASE u = t
    <3>1. start'[u] = count /\ interval'[u] = i /\ left'[u] = i
      BY <1>1, <2>1 DEF ClockInv, ClockTypes
    <3> QED
      BY <3>1, <1>2, ClockNumbers DEF ClockInv, ClockTypes, InTime
  <2>2. CASE u # t
    <3>1. start'[u] = start[u] /\ interval'[u] = interval[u] /\ left'[u] = left[u]
      BY <1>1, <2>2 DEF ClockInv, ClockTypes
    <3> QED
      BY <3>1 DEF ClockInv, InTime
  <2> QED
    BY <2>1, <2>2
<1>5. \A u \in set' : left'[u] > - Forget
  BY <1>1, <1>2, ClockNumbers DEF ClockInv, ClockTypes
<1> QED
  BY <1>3, <1>4, <1>5 DEF ClockInv

\* A timer that is reset begins where its last period ended, if that is over.
LEMMA ResetClock ==
  ASSUME ClockInv, NEW t \in Timers, etimer_reset(t), count' = count
  PROVE  ClockInv'
<1>1. left[t] > - Forget /\ interval' = interval /\ set' = set \cup {t}
  BY DEF etimer_reset, add_timer
<1>2. CASE ~ timer_expired(t)
  BY <1>1, <1>2 DEF etimer_reset, ClockInv, ClockTypes, InTime
<1>3. CASE timer_expired(t)
  <2>1. /\ start' = [start EXCEPT ![t] = (@ + interval[t]) % Wrap]
        /\ left' = [left EXCEPT ![t] = @ + interval[t]]
    BY <1>3 DEF etimer_reset
  <2>2. left[t] <= 0
    BY <1>1, <1>3, ExpiredWhenDue
  <2>3. /\ left[t] \in Int /\ interval[t] \in 0 .. Half - 1
        /\ count \in 0 .. Wrap - 1 /\ start[t] \in 0 .. Wrap - 1
    BY ClockNumbers DEF ClockInv, ClockTypes
  <2>4. start[t] + (interval[t] - left[t]) \in {count, count + Wrap}
    BY <1>1 DEF ClockInv, InTime
  <2>5. start'[t] = (start[t] + interval[t]) % Wrap /\ left'[t] = left[t] + interval[t]
    BY <2>1 DEF ClockInv, ClockTypes
  <2>6. start[t] + interval[t] \in - Wrap .. 2 * Wrap - 1
    BY <2>3, ClockNumbers
  <2>7. start'[t] \in 0 .. Wrap - 1 /\ start'[t] \in {start[t] + interval[t], start[t] + interval[t] - Wrap}
    BY <2>5, <2>6, <2>3, Remainders, ClockNumbers
  <2>8. start'[t] - left[t] \in {count, count + Wrap}
    BY <1>1, <2>2, <2>3, <2>4, <2>7, ClockNumbers
  <2>9. InTime(t)'
    BY <1>1, <2>2, <2>3, <2>5, <2>7, <2>8, ClockNumbers DEF InTime
  <2>10. ClockTypes'
    BY <1>1, <2>1, <2>3, <2>5, <2>7 DEF ClockInv, ClockTypes
  <2>11. ASSUME NEW u \in Timers \ {t}
         PROVE  InTime(u)'
    <3>1. start'[u] = start[u] /\ interval'[u] = interval[u] /\ left'[u] = left[u]
      BY <1>1, <2>1 DEF ClockInv, ClockTypes
    <3> QED
      BY <3>1 DEF ClockInv, InTime
  <2>12. \A u \in set' : left'[u] > - Forget
    BY <1>1, <2>1, <2>3, <2>5, ClockNumbers DEF ClockInv, ClockTypes
  <2> QED
    BY <2>9, <2>10, <2>11, <2>12 DEF ClockInv
<1> QED
  BY <1>2, <1>3

\* A tick takes one from what is left of every timer, until it is forgotten.
LEMMA TickClock ==
  ASSUME ClockInv, Tick
  PROVE  ClockInv'
<1>1. /\ count' = (count + 1) % Wrap
      /\ left' = [t \in Timers |-> IF left[t] > - Forget THEN left[t] - 1 ELSE left[t]]
      /\ start' = start /\ interval' = interval /\ set' = set
      /\ \A t \in set : left[t] > - Slack
  BY DEF Tick, timers
<1>2. count \in 0 .. Wrap - 1 /\ count + 1 \in - Wrap .. 2 * Wrap - 1
  BY ClockNumbers DEF ClockInv, ClockTypes
<1>3. count' \in 0 .. Wrap - 1 /\ count' \in {count + 1, count + 1 - Wrap}
  <2> DEFINE n == count + 1
  <2>1. n \in 0 .. Wrap /\ n \in - 2 * Wrap .. 2 * Wrap - 1
    BY <1>2, ClockNumbers
  <2>2. count' = n % Wrap
    BY <1>1
  <2> HIDE DEF n
  <2>3. /\ n % Wrap \in 0 .. Wrap - 1
        /\ n \in 0 .. Wrap - 1 => n % Wrap = n
        /\ n >= Wrap => n % Wrap = n - Wrap
    BY <2>1, Remainders
  <2>4. count' \in 0 .. Wrap - 1 /\ count' \in {n, n - Wrap}
    BY <2>1, <2>2, <2>3, EtimerAssumption
  <2> QED
    BY <1>2, <2>4, EtimerAssumption DEF n
<1>4. ClockTypes'
  BY <1>1, <1>3 DEF ClockInv, ClockTypes
<1>5. ASSUME NEW t \in Timers, left'[t] > - Forget
      PROVE  /\ left'[t] <= interval[t]
             /\ start[t] + (interval[t] - left'[t]) \in {count', count' + Wrap}
  <2>1. left[t] > - Forget /\ left'[t] = left[t] - 1
    BY <1>1, <1>5, ClockNumbers DEF ClockInv, ClockTypes
  <2>2. /\ left[t] \in Int /\ interval[t] \in 0 .. Half - 1 /\ start[t] \in 0 .. Wrap - 1
    BY ClockNumbers DEF ClockInv, ClockTypes
  <2>3. left[t] <= interval[t] /\ start[t] + (interval[t] - left[t]) \in {count, count + Wrap}
    BY <2>1 DEF ClockInv, InTime
  <2>4. start[t] + (interval[t] - left'[t]) \in {count + 1, count + 1 + Wrap}
    BY <1>2, <2>1, <2>2, <2>3, ClockNumbers
  <2>5. start[t] + (interval[t] - left'[t]) < 2 * Wrap
    BY <1>5, <2>1, <2>2, ClockNumbers
  <2>6. count' = IF count = Wrap - 1 THEN 0 ELSE count + 1
    BY <1>2, <1>3, ClockNumbers
  <2> QED
    BY <1>2, <2>1, <2>2, <2>3, <2>4, <2>5, <2>6, ClockNumbers
<1>6. \A t \in set' : left'[t] > - Forget
  BY <1>1, ClockNumbers DEF ClockInv, ClockTypes
<1> QED
  BY <1>1, <1>4, <1>5, <1>6 DEF ClockInv, InTime

\* No step loses the time.
LEMMA StepKeepsClock ==
  ASSUME ClockInv, [Next]_vars
  PROVE  ClockInv'
<1>1. CASE Firmware
  <2>1. count' = count
    BY <1>1 DEF Firmware
  <2>2. CASE \E t \in Timers : etimer_reset(t)
    BY <2>1, <2>2, ResetClock
  <2>3. CASE \E t \in Timers : \E i \in Intervals[t] : etimer_set(t, i)
    BY <2>1, <2>3, SetClock
  <2>4. CASE UNCHANGED <<flags, timers, left>>
    BY <2>1, <2>4, UntouchedClock DEF timers
  <2> QED
    BY <1>1, <2>2, <2>3, <2>4 DEF Firmware
<1>2. CASE Tick
  BY <1>2, TickClock
<1>3. CASE Loop \/ EtimerProcess \/ Sensors \/ Press \/ UNCHANGED vars
  BY <1>3, UntouchedClock
     DEF Loop, EtimerProcess, PostTimer, SkipTimer, EtimerYields, Sensors, PostButton, DropButton,
         ButtonCameBy, SensorsYields, Press, vars, etimerVars, clock, timers
<1> QED
  BY <1>1, <1>2, <1>3 DEF Next, Cpu, Interrupt

(***************************************************************************)
(* next_expiration.  It is the time of a timer that is on the list, due or *)
(* not, and no timer that is not due yet comes before that one.            *)
(***************************************************************************)

NearestInv ==
  /\ next_expiration \in 0 .. Wrap - 1
  /\ timerlist # <<>> =>
       \E i \in DOMAIN timerlist :
         /\ next_expiration = (count + left[timerlist[i]]) % Wrap
         /\ \A j \in DOMAIN timerlist :
              left[timerlist[j]] < 0 \/ left[timerlist[i]] <= left[timerlist[j]]

\* A listed timer is set, and not overdue for too long.
LEMMA ListedInTime ==
  ASSUME ClockInv, ListInv, NEW i \in DOMAIN timerlist
  PROVE  /\ timerlist[i] \in Timers /\ timerlist[i] \in set
         /\ left[timerlist[i]] \in - Half + 1 .. Half - 1
         /\ interval[timerlist[i]] \in 0 .. Half - 1
         /\ left[timerlist[i]] > - Forget /\ left[timerlist[i]] <= interval[timerlist[i]]
<1>1. timerlist[i] \in Timers /\ timerlist[i] \in set
  BY DEF ListInv, ListHoldsSet
<1>2. /\ left[timerlist[i]] > - Forget /\ left[timerlist[i]] \in Int
      /\ interval[timerlist[i]] \in 0 .. Half - 1
  BY <1>1, ClockNumbers DEF ClockInv, ClockTypes
<1>3. left[timerlist[i]] <= interval[timerlist[i]]
  BY <1>1, <1>2 DEF ClockInv, InTime
<1> QED
  BY <1>1, <1>2, <1>3, ClockNumbers

\* The distances of two times that are not further apart than half the clock's
\* range: the nearest is before all that are not overdue.
LEMMA UpdatedNearest ==
  ASSUME ClockInv', ListInv', update_time, count' = count
  PROVE  NearestInv'
<1>1. CASE timerlist' = <<>>
  <2>1. next_expiration' = 0
    BY <1>1 DEF update_time
  <2> QED
    BY <1>1, <2>1, ClockNumbers DEF NearestInv
<1>2. CASE timerlist' # <<>>
  <2> DEFINE L(i) == left'[timerlist'[i]]
             D(i) == (start'[timerlist'[i]] + interval'[timerlist'[i]] - count) % Wrap
             Dist == { D(i) : i \in DOMAIN timerlist' }
             m    == CHOOSE d \in Dist : \A e \in Dist : d <= e
  <2>1. next_expiration' = (count + m) % Wrap
    BY <1>2 DEF update_time
  <2>2. count \in 0 .. Wrap - 1
    BY DEF ClockInv, ClockTypes
  <2>3. ASSUME NEW i \in DOMAIN timerlist'
        PROVE  /\ L(i) \in - Half + 1 .. Half - 1
               /\ D(i) = IF L(i) < 0 THEN L(i) + Wrap ELSE L(i)
    <3> DEFINE t == timerlist'[i]
    <3>1. t \in Timers /\ t \in set'
      BY DEF ListInv, ListHoldsSet
    <3>2. /\ left'[t] \in Int /\ left'[t] > - Forget
          /\ interval'[t] \in 0 .. Half - 1 /\ start'[t] \in 0 .. Wrap - 1
      BY <3>1, ClockNumbers DEF ClockInv, ClockTypes
    <3>3. /\ left'[t] <= interval'[t]
          /\ start'[t] + (interval'[t] - left'[t]) \in {count, count + Wrap}
      BY <3>1, <3>2 DEF ClockInv, InTime
    <3>4. (start'[t] + interval'[t] - count) % Wrap
            = IF left'[t] < 0 THEN left'[t] + Wrap ELSE left'[t]
      BY <2>2, <3>2, <3>3, Distance
    <3> QED
      BY <3>2, <3>3, <3>4, ClockNumbers
  <2> HIDE DEF L, D
  <2>4. Dist \in SUBSET Nat /\ Dist # {}
    <3>1. \A i \in DOMAIN timerlist' : D(i) \in Nat
      BY <2>3, ClockNumbers
    <3>2. 1 \in DOMAIN timerlist'
      BY <1>2 DEF ListInv
    <3> QED
      BY <3>1, <3>2
  <2>5. m \in Dist /\ \A e \in Dist : m <= e
    <3> HIDE DEF Dist
    <3>1. \E d \in Dist : \A e \in Dist : d <= e
      BY <2>4, LeastNumber
    <3> QED
      BY <3>1
  <2> HIDE DEF m
  <2>6. PICK i \in DOMAIN timerlist' : m = D(i)
    BY <2>5
  <2>7. next_expiration' = (count + L(i)) % Wrap
    <3>1. CASE L(i) < 0
      <4>1. L(i) \in - Half .. - 1 /\ m = L(i) + Wrap
        BY <2>3, <2>6, <3>1, ClockNumbers
      <4> QED
        BY <2>1, <2>2, <4>1, WholeTurn
    <3>2. CASE ~ (L(i) < 0)
      BY <2>1, <2>3, <2>6, <3>2
    <3> QED
      BY <3>1, <3>2
  <2>8. \A j \in DOMAIN timerlist' : L(j) < 0 \/ L(i) <= L(j)
    <3>1. \A j \in DOMAIN timerlist' : D(i) <= D(j)
      BY <2>5, <2>6
    <3> QED
      BY <2>3, <3>1, ClockNumbers
  <2>9. next_expiration' \in 0 .. Wrap - 1
    <3>1. count + L(i) \in Int
      BY <2>2, <2>3, ClockNumbers
    <3> QED
      BY <2>7, <3>1, EtimerAssumption
  <2> QED
    BY <2>7, <2>8, <2>9 DEF NearestInv, L
<1> QED
  BY <1>1, <1>2

\* A tick brings every listed timer nearer by one.
LEMMA TickNearest ==
  ASSUME ClockInv, ListInv, NearestInv, Tick
  PROVE  NearestInv'
<1>1. /\ count' = (count + 1) % Wrap
      /\ left' = [t \in Timers |-> IF left[t] > - Forget THEN left[t] - 1 ELSE left[t]]
      /\ next_expiration' = next_expiration /\ timerlist' = timerlist
  BY DEF Tick, timers
<1>2. SUFFICES ASSUME timerlist # <<>>
               PROVE  \E i \in DOMAIN timerlist :
                        /\ next_expiration = (count' + left'[timerlist[i]]) % Wrap
                        /\ \A j \in DOMAIN timerlist :
                             \/ left'[timerlist[j]] < 0
                             \/ left'[timerlist[i]] <= left'[timerlist[j]]
  BY <1>1 DEF NearestInv
<1>3. PICK i \in DOMAIN timerlist :
        /\ next_expiration = (count + left[timerlist[i]]) % Wrap
        /\ \A j \in DOMAIN timerlist :
             left[timerlist[j]] < 0 \/ left[timerlist[i]] <= left[timerlist[j]]
  BY <1>2 DEF NearestInv
<1>4. \A j \in DOMAIN timerlist : left'[timerlist[j]] = left[timerlist[j]] - 1
  BY <1>1, ListedInTime
<1>5. \A j \in DOMAIN timerlist : left[timerlist[j]] \in - Half + 1 .. Half - 1
  BY ListedInTime
<1>6. (count' + left'[timerlist[i]]) % Wrap = (count + left[timerlist[i]]) % Wrap
  <2> DEFINE l == left[timerlist[i]]
  <2>1. l \in - Half .. Half
    BY <1>5, ClockNumbers
  <2>2. count \in 0 .. Wrap - 1
    BY DEF ClockInv, ClockTypes
  <2> HIDE DEF l
  <2>3. (((count + 1) % Wrap) + (l - 1)) % Wrap = (count + l) % Wrap
    BY <2>1, <2>2, OneTick
  <2> QED
    BY <1>1, <1>4, <2>3 DEF l
<1>7. \A j \in DOMAIN timerlist :
        left'[timerlist[j]] < 0 \/ left'[timerlist[i]] <= left'[timerlist[j]]
  BY <1>3, <1>4, <1>5, ClockNumbers
<1> QED
  BY <1>3, <1>6, <1>7

\* update_time follows every change of the list or of a time.
LEMMA StepKeepsNearest ==
  ASSUME ClockInv, ListInv, NearestInv, [Next]_vars
  PROVE  NearestInv'
<1>1. ClockInv' /\ ListInv'
  BY StepKeepsClock, StepKeepsList
<1>2. ASSUME UNCHANGED <<count, left, timers>>
      PROVE  NearestInv'
  BY <1>2 DEF NearestInv, timers
<1>3. CASE EtimerProcess
  <2>1. CASE PostTimer("firmware")
    BY <1>1, <2>1, UpdatedNearest DEF PostTimer, clock
  <2>2. CASE SkipTimer \/ EtimerYields
    BY <1>2, <2>2 DEF SkipTimer, EtimerYields, clock
  <2> QED
    BY <1>3, <2>1, <2>2 DEF EtimerProcess
<1>4. CASE Firmware
  <2>1. CASE UNCHANGED <<flags, timers, left>>
    BY <1>2, <1>4, <2>1 DEF Firmware
  <2>2. CASE ~ UNCHANGED <<flags, timers, left>>
    <3>1. update_time /\ count' = count
      BY <1>4, <2>2 DEF Firmware, etimer_reset, etimer_set, add_timer
    <3> QED
      BY <1>1, <3>1, UpdatedNearest
  <2> QED
    BY <2>1, <2>2
<1>5. CASE Tick
  BY <1>5, TickNearest
<1>6. CASE Loop \/ Sensors \/ Press \/ UNCHANGED vars
  BY <1>2, <1>6
     DEF Loop, Sensors, PostButton, DropButton, ButtonCameBy, SensorsYields, Press, vars,
         etimerVars, clock
<1> QED
  BY <1>3, <1>4, <1>5, <1>6 DEF Next, Cpu, Interrupt

(***************************************************************************)
(* The scan of the list starts from its head.                              *)
(***************************************************************************)

ScanInv ==
  /\ scan \in 1 .. Len(timerlist) + 1
  /\ scan = 1 \/ called.to = "etimer"

\* The list has a length, and places from one to it.
LEMMA ListIsNumbered ==
  ASSUME ListInv
  PROVE  Len(timerlist) \in Nat /\ DOMAIN timerlist = 1 .. Len(timerlist)
BY DEF ListInv

\* etimer_process does not give up control within a scan.
LEMMA StepKeepsScan ==
  ASSUME ListInv, ScanInv, [Next]_vars
  PROVE  ScanInv'
<1>1. ListInv'
  BY StepKeepsList
<1>2. Len(timerlist') \in Nat /\ Len(timerlist) \in Nat /\ DOMAIN timerlist = 1 .. Len(timerlist)
  BY <1>1, ListIsNumbered DEF ListInv
<1>3. ASSUME scan' = 1
      PROVE  ScanInv'
  BY <1>2, <1>3 DEF ScanInv
<1>4. CASE Loop
  <2>1. called' = called \/ called = None
    BY <1>4 DEF Loop, MainLoop, process_run, PollNext, PollDone, do_event, CastNext, CastDone,
       RunAgain, platform_idle, Running
  <2>2. scan' = scan /\ timerlist' = timerlist
    BY <1>4 DEF Loop, etimerVars, timers
  <2> QED
    BY <1>3, <2>1, <2>2 DEF ScanInv, None, Event
<1>5. CASE EtimerProcess
  <2>1. CASE PostTimer("firmware") \/ EtimerYields
    BY <1>3, <2>1 DEF PostTimer, EtimerYields
  <2>2. CASE SkipTimer
    <3>1. /\ scan \in DOMAIN timerlist /\ scan' = scan + 1
          /\ timerlist' = timerlist /\ called' = called
      BY <2>2 DEF SkipTimer, timers
    <3>2. called.to = "etimer"
      BY <2>2 DEF SkipTimer, Scanning, Event
    <3> QED
      BY <1>2, <3>1, <3>2 DEF ScanInv
  <2> QED
    BY <1>5, <2>1, <2>2 DEF EtimerProcess
<1>6. CASE Firmware
  <2>1. scan' = scan /\ called.to = "firmware"
    BY <1>6 DEF Firmware
  <2> QED
    BY <1>3, <2>1 DEF ScanInv
<1>7. CASE Sensors
  <2>1. scan' = scan /\ called.to \in {"sensors"}
    BY <1>7 DEF Sensors, PostButton, DropButton, ButtonCameBy, SensorsYields, etimerVars, Event
  <2> QED
    BY <1>3, <2>1 DEF ScanInv
<1>8. CASE Press \/ Tick \/ UNCHANGED vars
  <2>1. scan' = scan /\ timerlist' = timerlist /\ called' = called
    BY <1>8 DEF Press, Tick, vars, processVars, etimerVars, timers
  <2> QED
    BY <2>1 DEF ScanInv
<1> QED
  BY <1>4, <1>5, <1>6, <1>7, <1>8 DEF Next, Cpu, Interrupt

(***************************************************************************)
(* The time of a timer.                                                    *)
(***************************************************************************)

\* The clock, the list and what ties them together.
TimerInv == KernelTypes /\ ListInv /\ ClockInv /\ NearestInv /\ ScanInv

\* The timers of a mote that starts are not set.
LEMMA InitTimers ==
  ASSUME Init
  PROVE  TimerInv
<1>1. KernelTypes
  <2>1. events \in Seq(Events) /\ Len(events) <= NumEvents
    BY ProcessAssumption DEF Init, ProcessInit
  <2>2. 1 \in PlacesAndEnd
    BY PlacesAreNumbers DEF PlacesAndEnd
  <2>3. needspoll \subseteq Processes /\ called \in Calls
    BY ProcessesOfMote DEF Init, ProcessInit
  <2> QED
    BY <2>1, <2>2, <2>3 DEF KernelTypes, Init, ProcessInit
<1>2. ListInv
  BY DEF Init, EtimerInit, ListInv, ListHoldsSet
<1>3. ClockInv
  <2>1. ClockTypes
    <3>1. DOMAIN interval = Timers /\ \A t \in Timers : interval[t] \in Int
      BY ClockNumbers DEF Init, EtimerInit
    <3>2. left \in [Timers -> Int]
      BY <3>1 DEF Init, EtimerInit
    <3> QED
      BY <3>1, <3>2 DEF Init, EtimerInit, ClockTypes
  <2>2. ASSUME NEW t \in Timers
        PROVE  InTime(t)
    <3>1. left[t] = interval[t] /\ start[t] = count /\ left[t] \in Int /\ count \in Int
      BY <2>1, ClockNumbers DEF Init, EtimerInit, ClockTypes
    <3> QED
      BY <3>1 DEF InTime
  <2>3. set = {}
    BY DEF Init, EtimerInit
  <2> QED
    BY <2>1, <2>2, <2>3 DEF ClockInv
<1>4. NearestInv /\ ScanInv
  BY <1>2, ListIsNumbered, ClockNumbers DEF Init, EtimerInit, NearestInv, ScanInv
<1> QED
  BY <1>1, <1>2, <1>3, <1>4 DEF TimerInv

\* No step breaks any part.
LEMMA StepKeepsTimers ==
  ASSUME TimerInv, [Next]_vars
  PROVE  TimerInv'
BY StepKeepsKernelTypes, StepKeepsList, StepKeepsClock, StepKeepsNearest, StepKeepsScan
   DEF TimerInv

\* The variables keep their types: the queue holds no more than NumEvents
\* events, whatever is posted (process_post, process.c), the clock and its times
\* stay within the type of the clock (timer.c), and etimer_process looks at no
\* place that the list has not got (etimer.c).
THEOREM TypeOKHolds == Spec => []TypeOK
<1>1. Init => TimerInv
  BY InitTimers
<1>2. TimerInv /\ [Next]_vars => TimerInv'
  BY StepKeepsTimers
<1>3. TimerInv => TypeOK
  BY DEF TimerInv, KernelTypes, PlacesAndEnd, Events, Calls, ListInv, ClockInv, ClockTypes,
     NearestInv, ScanInv, TypeOK
<1> QED
  BY <1>1, <1>2, <1>3, PTL DEF Spec

\* The event of a timer is posted only when the time of the timer has come: the
\* wrap of the clock, an event that waits for a place in the queue and a late
\* reset change nothing (timer_expired, etimer_reset: timer.c, etimer.c).
THEOREM PostedWhenDueHolds == Spec => PostedWhenDue
<1>1. Init => TimerInv
  BY InitTimers
<1>2. TimerInv /\ [Next]_vars => TimerInv'
  BY StepKeepsTimers
<1>3. TimerInv /\ [Next]_vars => [\A t \in set \ set' : left[t] <= 0]_vars
  <2>1. SUFFICES ASSUME TimerInv, Next, NEW t \in set \ set'
                 PROVE  left[t] <= 0
    OBVIOUS
  <2>2. PostTimer("firmware")
    <3>1. set' # set
      BY <2>1
    <3>2. ~ (set \subseteq set')
      BY <2>1
    <3> QED
      BY <2>1, <3>1, <3>2
         DEF Next, Cpu, Interrupt, Loop, EtimerProcess, SkipTimer, EtimerYields, Firmware,
             etimer_set, etimer_reset, add_timer, Sensors, PostButton, DropButton, ButtonCameBy,
             SensorsYields, Press, Tick, etimerVars, timers
  <2>3. timer_expired(t)
    BY <2>1, <2>2 DEF PostTimer
  <2>4. t \in Timers /\ left[t] > - Forget
    BY <2>1 DEF TimerInv, ClockInv, ClockTypes
  <2> QED
    BY <2>1, <2>3, <2>4, ExpiredWhenDue DEF TimerInv
<1> QED
  BY <1>1, <1>2, <1>3, PTL DEF Spec, PostedWhenDue

(***************************************************************************)
(* Somebody looks at every timer that is due.                              *)
(***************************************************************************)

\* The timer that a tick makes due is the one next_expiration stands for, or that
\* one is overdue and polls at every tick.
LEMMA TickFindsDue ==
  ASSUME TimerInv, \A t \in set : left[t] > - Slack,
         NEW i \in DOMAIN timerlist, left[timerlist[i]] = 1
  PROVE  TickPolls
<1>1. timerlist # <<>>
  BY DEF TimerInv, ListInv
<1>2. PICK j \in DOMAIN timerlist :
        /\ next_expiration = (count + left[timerlist[j]]) % Wrap
        /\ \A k \in DOMAIN timerlist :
             left[timerlist[k]] < 0 \/ left[timerlist[j]] <= left[timerlist[k]]
  BY <1>1 DEF TimerInv, NearestInv
<1> DEFINE l == left[timerlist[j]]
<1>3. l <= 1
  BY <1>2
<1>4. l \in Int /\ l > - Slack
  BY ListedInTime DEF TimerInv
<1>5. l \in - Half + 2 .. 1
  BY <1>3, <1>4, ClockNumbers
<1>6. count \in 0 .. Wrap - 1
  BY DEF TimerInv, ClockInv, ClockTypes
<1> HIDE DEF l
<1>7. (((count + l) % Wrap) - count - 2) % Wrap > MaxTicks
  BY <1>5, <1>6, PollsAtTime
<1> QED
  BY <1>1, <1>2, <1>7 DEF TickPolls, l

\* What asks for the poll of etimer_process covers all timers.
LEMMA PolledIsWatched ==
  ASSUME process_poll("etimer")
  PROVE  DueIsWatched'
BY DEF process_poll, DueIsWatched

\* A step that leaves the timers alone, and neither takes the poll nor ends the
\* scan.
LEMMA UntouchedWatch ==
  ASSUME DueIsWatched, UNCHANGED <<count, left, timers, scan>>,
         "etimer" \in needspoll => "etimer" \in needspoll', Scanning => called' = called
  PROVE  DueIsWatched'
<1>1. TickPolls' = TickPolls
  BY DEF TickPolls, timers, MaxTicks
<1>2. Scanning => Scanning'
  BY DEF Scanning
<1> QED
  BY <1>1, <1>2 DEF DueIsWatched, timers

\* No step leaves a timer that is due to nobody.
LEMMA StepKeepsWatch ==
  ASSUME TimerInv, DueIsWatched, [Next]_vars
  PROVE  DueIsWatched'
<1>1. CASE Loop
  <2>1. UNCHANGED <<count, left, timers, scan>>
    BY <1>1 DEF Loop, etimerVars, clock
  <2>2. called = None
    BY <1>1 DEF Loop, MainLoop, process_run, PollNext, PollDone, do_event, CastNext, CastDone,
       RunAgain, platform_idle, Running
  <2>3. ~ Scanning
    BY <2>2 DEF Scanning, None, Event
  <2>4. CASE PollNext /\ ProcessList[polls] = "etimer" /\ "etimer" \in needspoll
    <3>1. Scanning'
      BY <2>4 DEF PollNext, Scanning
    <3>2. scan' = 1
      BY <2>1, <2>2 DEF TimerInv, ScanInv, None, Event
    <3>3. \A i \in DOMAIN timerlist' : scan' <= i
      BY <2>1, <3>2, ListIsNumbered DEF TimerInv, timers
    <3> QED
      BY <3>1, <3>3 DEF DueIsWatched
  <2>5. CASE ~ (PollNext /\ ProcessList[polls] = "etimer" /\ "etimer" \in needspoll)
    <3>1. "etimer" \in needspoll => "etimer" \in needspoll'
      BY <1>1, <2>5 DEF Loop, MainLoop, process_run, do_poll, PollNext, PollDone, do_event,
         CastNext, CastDone, RunAgain, platform_idle, flags
    <3> QED
      BY <2>1, <2>3, <3>1, UntouchedWatch
  <2> QED
    BY <2>4, <2>5
<1>2. CASE PostTimer("firmware")
  <2>1. Scanning' /\ scan' = 1
    BY <1>2 DEF PostTimer, Scanning
  <2>2. \A i \in DOMAIN timerlist' : scan' <= i
    <3>1. ListInv'
      BY StepKeepsList DEF TimerInv
    <3> QED
      BY <2>1, <3>1 DEF ListInv
  <2> QED
    BY <2>1, <2>2 DEF DueIsWatched
<1>3. CASE SkipTimer
  <2>1. /\ scan \in DOMAIN timerlist /\ scan' = scan + 1 /\ called' = called
        /\ UNCHANGED <<count, left, timers>>
    BY <1>3 DEF SkipTimer, clock
  <2>2. CASE timer_expired(timerlist[scan])
    BY <1>3, <2>2, PolledIsWatched DEF SkipTimer
  <2>3. CASE ~ timer_expired(timerlist[scan])
    <3>1. ~ (left[timerlist[scan]] <= 0)
      BY <2>1, <2>3, ListedInTime, ExpiredWhenDue DEF TimerInv
    <3>2. needspoll' = needspoll /\ TickPolls' = TickPolls /\ Scanning' = Scanning
      BY <1>3, <2>1, <2>3 DEF SkipTimer, flags, timers, TickPolls, MaxTicks, Scanning
    <3>3. timerlist' = timerlist /\ left' = left
      BY <2>1 DEF timers
    <3>4. \A i \in DOMAIN timerlist : scan <= i /\ i # scan => scan' <= i
      BY <2>1, ListIsNumbered DEF TimerInv
    <3> QED
      BY <3>1, <3>2, <3>3, <3>4 DEF DueIsWatched
  <2> QED
    BY <2>2, <2>3
<1>4. CASE EtimerYields
  <2>1. UNCHANGED <<count, left, timers, needspoll>>
    BY <1>4 DEF EtimerYields, clock, flags
  <2>2. TickPolls' = TickPolls
    BY <2>1 DEF TickPolls, timers, MaxTicks
  <2>3. \A i \in DOMAIN timerlist : ~ (Scanning /\ scan <= i)
    <3>1. Scanning => scan \notin DOMAIN timerlist
      BY <1>4 DEF EtimerYields
    <3> QED
      BY <3>1, ListIsNumbered DEF TimerInv, ScanInv
  <2> QED
    BY <2>1, <2>2, <2>3 DEF DueIsWatched, timers
<1>5. CASE Firmware
  <2>1. CASE process_poll("etimer")
    BY <2>1, PolledIsWatched
  <2>2. CASE ~ process_poll("etimer")
    <3>1. UNCHANGED <<count, left, timers, scan, needspoll>>
      BY <1>5, <2>2 DEF Firmware, etimer_reset, etimer_set, add_timer, flags
    <3>2. ~ Scanning
      BY <1>5 DEF Firmware, Scanning, Event
    <3> QED
      BY <3>1, <3>2, UntouchedWatch
  <2> QED
    BY <2>1, <2>2
<1>6. CASE Sensors
  <2>1. UNCHANGED <<count, left, timers, scan, needspoll>>
    BY <1>6 DEF Sensors, PostButton, DropButton, ButtonCameBy, SensorsYields, etimerVars, clock,
       processVars, flags
  <2>2. ~ Scanning
    BY <1>6 DEF Sensors, PostButton, DropButton, ButtonCameBy, SensorsYields, Scanning, Event
  <2> QED
    BY <2>1, <2>2, UntouchedWatch
<1>7. CASE Press
  <2>1. UNCHANGED <<count, left, timers, scan, called>>
    BY <1>7 DEF Press, etimerVars, clock
  <2>2. "etimer" \in needspoll => "etimer" \in needspoll'
    BY <1>7 DEF Press, process_poll
  <2> QED
    BY <2>1, <2>2, UntouchedWatch
<1>8. CASE Tick
  <2>1. CASE TickPolls
    BY <1>8, <2>1, PolledIsWatched DEF Tick
  <2>2. CASE ~ TickPolls
    <3>1. /\ needspoll' = needspoll /\ timerlist' = timerlist /\ scan' = scan /\ called' = called
          /\ \A t \in set : left[t] > - Slack
          /\ left' = [t \in Timers |-> IF left[t] > - Forget THEN left[t] - 1 ELSE left[t]]
      BY <1>8, <2>2 DEF Tick, flags, timers
    <3>2. ASSUME NEW i \in DOMAIN timerlist, left'[timerlist[i]] <= 0
          PROVE  left[timerlist[i]] <= 0
      <4>1. left[timerlist[i]] # 1
        BY <2>2, <3>1, TickFindsDue
      <4>2. left'[timerlist[i]] = left[timerlist[i]] - 1 /\ left[timerlist[i]] \in Int
        BY <3>1, ListedInTime DEF TimerInv
      <4> QED
        BY <3>2, <4>1, <4>2
    <3>3. Scanning' = Scanning
      BY <3>1 DEF Scanning
    <3> QED
      BY <2>2, <3>1, <3>2, <3>3 DEF DueIsWatched
  <2> QED
    BY <2>1, <2>2
<1>9. CASE UNCHANGED vars
  BY <1>9, UntouchedWatch DEF vars, processVars, etimerVars, clock, flags
<1> QED
  BY <1>1, <1>2, <1>3, <1>4, <1>5, <1>6, <1>7, <1>8, <1>9
     DEF Next, Cpu, Interrupt, EtimerProcess

\* Somebody looks at every timer that is due: etimer_process is going to, is to
\* be polled, or is polled at the next tick (update_time and etimer_process in
\* etimer.c, the timer interrupt in clock.c).
THEOREM DueIsWatchedHolds == Spec => []DueIsWatched
<1>1. Init => TimerInv /\ DueIsWatched
  <2>1. SUFFICES ASSUME Init
                 PROVE  TimerInv /\ DueIsWatched
    OBVIOUS
  <2>2. TimerInv /\ timerlist = <<>>
    BY <2>1, InitTimers DEF Init, EtimerInit
  <2>3. DOMAIN timerlist = {}
    BY <2>2
  <2> QED
    BY <2>2, <2>3 DEF DueIsWatched
<1>2. TimerInv /\ DueIsWatched /\ [Next]_vars => TimerInv' /\ DueIsWatched'
  BY StepKeepsTimers, StepKeepsWatch
<1> QED
  BY <1>1, <1>2, PTL DEF Spec
=============================================================================
