------------------------------- MODULE Rounds -------------------------------
(***************************************************************************)
(* What an aggregator promises to whoever reads its aggregated messages.   *)
(*                                                                         *)
(* A collector gathers messages in rounds.  It takes at most one message   *)
(* of each of its sources into a round and counts the others as missed.    *)
(* The first packet that finds the round complete, or late, ends it with   *)
(* one report.  Every message taken is in exactly one report's value; the  *)
(* report's missed count is the round's; and a report that names every     *)
(* source of the collector names exactly the messages of its round.        *)
(*                                                                         *)
(* What is NOT promised, because aggregator.c does not keep it: that the   *)
(* report of an incomplete round is made of that round's messages only, or *)
(* names the messages that were taken.                                     *)
(*                                                                         *)
(* Nothing here knows of slots, timers or buffers.                         *)
(***************************************************************************)
EXTENDS Integers, FiniteSets

CONSTANTS
  Collectors,   (* the motes that collect                                   *)
  SourcesOf,    (* the source nodes of every collector                      *)
  MsgIds,       (* the message numbers                                      *)
  MissedMod     (* the missed count is kept modulo this                     *)

VARIABLES
  taken,        (* [n]: the messages taken into the open round               *)
  missed,       (* [n]: how many more arrived of the sources already heard   *)
  late,         (* [n]: the open round has run out of time                   *)
  report        (* [n]: the reports of the last packet: one at most          *)

vars == <<taken, missed, late, report>>

Init ==
  /\ taken  = [n \in Collectors |-> {}]
  /\ missed = [n \in Collectors |-> 0]
  /\ late   = [n \in Collectors |-> FALSE]
  /\ report = [n \in Collectors |-> {}]

Senders(ms) == { m.node_id : m \in ms }

Over(n, ms) == late[n] \/ Senders(ms) = SourcesOf[n]

\* A packet after which the round goes on.
Continue(n, ms, k) ==
  /\ ~ Over(n, ms)
  /\ taken'  = [taken EXCEPT ![n] = ms]
  /\ missed' = [missed EXCEPT ![n] = k]
  /\ report' = [report EXCEPT ![n] = {}]
  /\ UNCHANGED late

\* A packet that ends the round.  used: the messages the value is computed
\* from; listed: the messages the report names.
Finish(n, ms, k) ==
  /\ Over(n, ms)
  /\ taken'  = [taken EXCEPT ![n] = {}]
  /\ missed' = [missed EXCEPT ![n] = 0]
  /\ late'   = [late EXCEPT ![n] = FALSE]
  /\ report' = [report EXCEPT ![n] = report'[n]]
  /\ \E r \in report'[n] :
        /\ report'[n] = {r}
        /\ r.missed = k
        /\ ms \subseteq r.used
        /\ Senders(r.listed) \subseteq SourcesOf[n]
        /\ Senders(r.listed) = SourcesOf[n] <=> Senders(ms) = SourcesOf[n]
        /\ Senders(ms) = SourcesOf[n] => r.used = ms /\ r.listed = ms

Settle(n, ms, k) == Continue(n, ms, k) \/ Finish(n, ms, k)

\* The first message of a source in this round.
Take(n) ==
  \E s \in SourcesOf[n] \ Senders(taken[n]), k \in MsgIds :
    Settle(n, taken[n] \cup {[node_id |-> s, msg_id |-> k]}, missed[n])

\* Another message of a source already heard.
Miss(n) ==
  /\ Senders(taken[n]) # {}
  /\ Settle(n, taken[n], (missed[n] + 1) % MissedMod)

\* Any packet that is not a source's message.
Pass(n) == Settle(n, taken[n], missed[n])

\* An open round runs out of time.
RunLate(n) ==
  /\ taken[n] # {}
  /\ late' = [late EXCEPT ![n] = TRUE]
  /\ UNCHANGED <<taken, missed, report>>

Next == \E n \in Collectors : Take(n) \/ Miss(n) \/ Pass(n) \/ RunLate(n)

Spec == Init /\ [][Next]_vars
=============================================================================
