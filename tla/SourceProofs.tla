---------------------------- MODULE SourceProofs ----------------------------
(***************************************************************************)
(* Theorems about Source, for every interval, jitter and queue size.       *)
(*                                                                         *)
(* That messages are SEND_INTERVAL apart is not inductive: it needs to be  *)
(* known that a running timer still has to wait for what is missing of the *)
(* interval, and that an expired one has waited for all of it.             *)
(***************************************************************************)
EXTENDS Source, TLAPS

TimerCovers ==
  /\ since + left >= SendInterval
  /\ expired => since = SendInterval

IInv == TypeOK /\ ButtonCycle /\ TimerCovers

\* A queue with room for one more event takes one; a handled one leaves it.
LEMMA QueueOps ==
  ASSUME events \in Seq({"timer", "button"})
  PROVE  /\ Len(events) \in Nat
         /\ \A e \in {"timer", "button"} :
              /\ Append(events, e) \in Seq({"timer", "button"})
              /\ Len(Append(events, e)) = Len(events) + 1
         /\ events # <<>> =>
              /\ Tail(events) \in Seq({"timer", "button"})
              /\ Len(Tail(events)) = Len(events) - 1
  OBVIOUS

LEMMA InitIInv == Init => IInv
<1> SUFFICES ASSUME Init PROVE IInv
  OBVIOUS
<1> USE SourceAssumption
<1>1. left \in 0 .. SendInterval + Jitter - 1 /\ since + left >= SendInterval
  BY DEF Init
<1>2. 1 \in 0 .. IdMod - 1
  OBVIOUS
<1>3. events \in Seq({"timer", "button"}) /\ Len(events) <= QueueSize
  BY DEF Init
<1>4. TypeOK
  <2>1. 0 \in 0 .. 2 /\ SendInterval \in 0 .. SendInterval
    OBVIOUS
  <2>2. active \in BOOLEAN /\ malfunction \in BOOLEAN /\ expired \in BOOLEAN
           /\ changed \in BOOLEAN
    BY Zenon DEF Init
  <2>3. btn_count \in 0 .. 2 /\ msg_id \in 0 .. IdMod - 1 /\ since \in 0 .. SendInterval
    BY <1>2, <2>1 DEF Init
  <2> QED
    BY <1>1, <1>3, <2>2, <2>3, Zenon DEF TypeOK
<1>5. ButtonCycle
  BY DEF Init, ButtonCycle
<1>6. TimerCovers
  BY <1>1 DEF Init, TimerCovers
<1> QED
  BY <1>4, <1>5, <1>6 DEF IInv

\* The end of the loop keeps the timer's promise, whether it sends or not.
LEMMA LoopEnd ==
  ASSUME IInv, Transmit \/ Wait
  PROVE  /\ msg_id' \in 0 .. IdMod - 1
         /\ expired' \in BOOLEAN
         /\ left' \in 0 .. SendInterval + Jitter - 1
         /\ since' \in 0 .. SendInterval
         /\ TimerCovers'
<1> USE SourceAssumption
<1>t. TypeOK /\ TimerCovers
  BY DEF IInv
<1>1. CASE Transmit
  <2>1. /\ msg_id' = (msg_id + 1) % IdMod
        /\ since' = 0
        /\ expired' = FALSE
        /\ left' \in SendInterval .. SendInterval + Jitter - 1
    BY <1>1 DEF Transmit
  <2>2. msg_id' \in 0 .. IdMod - 1
    <3>1. msg_id + 1 \in Nat /\ IdMod \in Nat \ {0}
      BY <1>t DEF TypeOK
    <3> QED
      BY <2>1, <3>1
  <2>3. left' \in 0 .. SendInterval + Jitter - 1 /\ since' + left' >= SendInterval
    <3>1. PICK d \in SendInterval .. SendInterval + Jitter - 1 : left' = d
      BY <2>1
    <3>2. d \in 0 .. SendInterval + Jitter - 1 /\ 0 + d >= SendInterval
      OBVIOUS
    <3> QED
      BY <2>1, <3>1, <3>2
  <2>4. TimerCovers'
    BY <2>1, <2>3 DEF TimerCovers
  <2>5. since' \in 0 .. SendInterval
    BY <2>1
  <2>6. expired' \in BOOLEAN
    BY <2>1
  <2> QED
    BY <2>2, <2>3, <2>4, <2>5, <2>6
<1>2. CASE Wait
  BY <1>t, <1>2 DEF Wait, timer, TypeOK, TimerCovers
<1> QED
  BY <1>1, <1>2

LEMMA StepIInv == IInv /\ [Next]_vars => IInv'
<1> SUFFICES ASSUME IInv, [Next]_vars PROVE IInv'
  OBVIOUS
<1> USE SourceAssumption
<1>q. events \in Seq({"timer", "button"}) /\ Len(events) <= QueueSize
  BY DEF IInv, TypeOK
<1>1. CASE HandleTimer
  <2>1. events' \in Seq({"timer", "button"}) /\ Len(events') <= QueueSize
    BY <1>1, <1>q, QueueOps DEF HandleTimer
  <2> QED
    BY <1>1, <2>1, LoopEnd DEF HandleTimer, IInv, TypeOK, ButtonCycle, button
<1>2. CASE HandleButton
  <2>1. events' \in Seq({"timer", "button"}) /\ Len(events') <= QueueSize
    BY <1>2, <1>q, QueueOps DEF HandleButton
  <2>2. /\ btn_count' \in 0 .. 2 /\ active' \in BOOLEAN /\ malfunction' \in BOOLEAN
        /\ ButtonCycle'
    <3>t. TypeOK /\ ButtonCycle
      BY DEF IInv
    <3>1. CASE Malfunction
      <4>1. btn_count # 2 /\ btn_count' \in 0 .. 2 /\ btn_count' # 0 /\ btn_count' # 2
        BY <3>1 DEF Malfunction
      <4>2. malfunction' = TRUE /\ active' = active
        BY <3>1 DEF Malfunction
      <4> QED
        BY <3>t, <4>1, <4>2, Zenon DEF TypeOK, ButtonCycle
    <3>2. CASE Stop
      <4>1. btn_count # 0 /\ btn_count' \in 0 .. 2 /\ btn_count' # 0 /\ btn_count' = 2
        BY <3>2 DEF Stop
      <4>2. active' = FALSE /\ malfunction' = malfunction
        BY <3>2 DEF Stop
      <4> QED
        BY <3>t, <4>1, <4>2, Zenon DEF TypeOK, ButtonCycle
    <3>3. CASE Recover
      <4>1. btn_count' \in 0 .. 2 /\ btn_count' = 0 /\ btn_count' # 2
        BY <3>3 DEF Recover
      <4>2. active' = TRUE /\ malfunction' = FALSE
        BY <3>3 DEF Recover
      <4> QED
        BY <4>1, <4>2, Zenon DEF ButtonCycle
    <3> QED
      BY <1>2, <3>1, <3>2, <3>3 DEF HandleButton
  <2>3. Transmit \/ Wait
    BY <1>2 DEF HandleButton
  <2> QED
    BY <1>2, <2>1, <2>2, <2>3, LoopEnd DEF HandleButton, IInv, TypeOK
<1>3. CASE Press
  BY <1>3 DEF Press, button, timer, IInv, TypeOK, ButtonCycle, TimerCovers
<1>4. CASE PostButton
  <2>1. events' \in Seq({"timer", "button"}) /\ Len(events') <= QueueSize
    <3>1. CASE Len(events) < QueueSize /\ events' = Append(events, "button")
      BY <1>q, <3>1, QueueOps
    <3>2. CASE UNCHANGED events
      BY <1>q, <3>2
    <3> QED
      BY <1>4, <3>1, <3>2 DEF PostButton
  <2> QED
    BY <1>4, <2>1 DEF PostButton, button, timer, IInv, TypeOK, ButtonCycle, TimerCovers
<1>5. CASE Tick
  BY <1>5 DEF Tick, button, IInv, TypeOK, ButtonCycle, TimerCovers
<1>6. CASE TimerExpires
  <2>1. events' \in Seq({"timer", "button"}) /\ Len(events') <= QueueSize
    BY <1>6, <1>q, QueueOps DEF TimerExpires
  <2> QED
    BY <1>6, <2>1 DEF TimerExpires, button, IInv, TypeOK, ButtonCycle, TimerCovers
<1>7. CASE UNCHANGED vars
  BY <1>7 DEF vars, IInv, TypeOK, ButtonCycle, TimerCovers
<1> QED
  BY <1>1, <1>2, <1>3, <1>4, <1>5, <1>6, <1>7 DEF Next

\* The variables of the thread keep their types and the event queue its bound.
THEOREM TypeCorrect == Spec => []TypeOK
<1>1. IInv => TypeOK
  BY DEF IInv
<1> QED
  BY <1>1, InitIInv, StepIInv, PTL DEF Spec

\* The mode always is the one the presses handled so far call for.
THEOREM ButtonCorrect == Spec => []ButtonCycle
<1>1. IInv => ButtonCycle
  BY DEF IInv
<1> QED
  BY <1>1, InitIInv, StepIInv, PTL DEF Spec

\* No interleaving of presses, timer events and ticks makes a source send two
\* messages less than SEND_INTERVAL apart.
THEOREM SpacingCorrect == Spec => SendsSpaced
<1>1. IInv /\ [Next]_vars => [msg_id' # msg_id => since = SendInterval]_vars
  <2> SUFFICES ASSUME IInv, [Next]_vars, msg_id' # msg_id
               PROVE  since = SendInterval
    OBVIOUS
  <2>1. Transmit
    BY DEF Next, vars, HandleTimer, HandleButton, Wait, Press, PostButton, Tick, TimerExpires
  <2> QED
    BY <2>1 DEF Transmit, Ready, IInv, TimerCovers
<1> QED
  BY <1>1, InitIInv, StepIInv, PTL DEF Spec, SendsSpaced
=============================================================================
