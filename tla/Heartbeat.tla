----------------------------- MODULE Heartbeat -----------------------------
(***************************************************************************)
(* The heartbeats of the two ends of one connection                        *)
(* (Session::heartbeatLoop, readerLoop, writerLoop; both the accepting and *)
(* the connecting side start one).                                         *)
(*                                                                         *)
(* Time passes in ticks, TicksPerSecond of them to a second.  Timers run   *)
(* in ticks; last_recv_time_ and last_send_time_ hold xtime::time(), whole *)
(* seconds of the end's own clock, so an age is the number of seconds that *)
(* have begun there since.  The seconds of the two clocks begin at         *)
(* different ticks; the clocks run evenly and are not set meanwhile.  A    *)
(* message takes up to Delay ticks.  A timer that has run out fires before *)
(* the next tick.                                                          *)
(***************************************************************************)
EXTENDS Integers, FiniteSets

CONSTANTS
  Interval,         \* seconds between two looks (10 in the code)
  Timeout,          \* seconds of silence that end the session (30)
  TicksPerSecond,
  Delay,            \* ticks a message takes at most
  MaxFlight         \* bound: messages under way

\* The bound on Delay is what keeps a live peer from being taken for dead: a
\* ping may come two intervals after the one before, less a tick, and the end
\* that waits may count all but a second more than has passed.
ASSUME HeartbeatAssumption ==
  /\ {Interval, Timeout, TicksPerSecond} \subseteq Nat \ {0}
  /\ {Delay, MaxFlight} \subseteq Nat
  /\ Delay <= (Timeout - 2 * Interval - 1) * TicksPerSecond + 1

Ends == {"a", "b"}
Other(e) == CHOOSE o \in Ends : o # e

VARIABLES
  phase,      \* ticks into the current second of each end's clock
  recvAge,    \* now - last_recv_time_, in seconds
  sendAge,    \* now - last_send_time_, in seconds
  timer,      \* ticks until heartbeatTimer_ runs out
  up,         \* the session at this end is not stopped
  flight,     \* the messages under way: to whom, what, ticks left
  dead,       \* the ends that have fallen silent
  silence     \* ticks since the other end fell silent

vars == <<phase, recvAge, sendAge, timer, up, flight, dead, silence>>

Alive(e) == up[e] /\ e \notin dead

\* Ages and silence are counted up to the value that still matters.
CapAge == Timeout
CapSilence == (Timeout + Interval) * TicksPerSecond + Delay + 1
UpTo(n, cap) == IF n > cap THEN cap ELSE n

Post(to, kind) == [to |-> to, kind |-> kind, left |-> Delay]

\* The seconds that begin with the next tick of a clock.
Begun(p) == IF p + 1 = TicksPerSecond THEN 1 ELSE 0

\* Time passes, unless something is due.
Tick ==
  /\ \A e \in Ends : Alive(e) => timer[e] > 0
  /\ \A m \in flight : m.left > 0
  /\ phase' = [e \in Ends |-> (phase[e] + 1) % TicksPerSecond]
  /\ recvAge' = [e \in Ends |-> UpTo(recvAge[e] + Begun(phase[e]), CapAge)]
  /\ sendAge' = [e \in Ends |-> UpTo(sendAge[e] + Begun(phase[e]), CapAge)]
  /\ timer' = [e \in Ends |-> IF Alive(e) THEN timer[e] - 1 ELSE timer[e]]
  /\ flight' = {[m EXCEPT !.left = @ - 1] : m \in flight}
  /\ silence' = [e \in Ends |-> IF Other(e) \in dead
                                THEN UpTo(silence[e] + 1, CapSilence) ELSE 0]
  /\ UNCHANGED <<up, dead>>

\* Mutant: a ping is due only after more than the interval.
mustPing_Later(e) == sendAge[e] > Interval

\* Nothing was sent for an interval.
mustPing(e) == sendAge[e] >= Interval

\* Mutant: what was sent counts as a sign of life.
timedOut_SendCounts(e) == recvAge[e] >= Timeout /\ sendAge[e] >= Timeout

\* Nothing was received for too long.
timedOut(e) == recvAge[e] >= Timeout

\* The timer runs out: stop, or ping if nothing was sent, and wait again.
heartbeatLoop(e) ==
  /\ Alive(e) /\ timer[e] = 0
  /\ IF timedOut(e)
     THEN up' = [up EXCEPT ![e] = FALSE] /\ UNCHANGED <<timer, flight, sendAge>>
     ELSE /\ timer' = [timer EXCEPT ![e] = Interval * TicksPerSecond]
          /\ IF mustPing(e)
             THEN /\ flight' = flight \union {Post(Other(e), "PING")}
                  /\ sendAge' = [sendAge EXCEPT ![e] = 0]
             ELSE UNCHANGED <<flight, sendAge>>
          /\ UNCHANGED up
  /\ UNCHANGED <<phase, recvAge, dead, silence>>

\* readerLoop: a message arrives; a ping is answered.
receive(m) ==
  /\ m \in flight /\ Alive(m.to)
  /\ recvAge' = [recvAge EXCEPT ![m.to] = 0]
  /\ IF m.kind = "PING"
     THEN /\ flight' = (flight \ {m}) \union {Post(Other(m.to), "PONG")}
          /\ sendAge' = [sendAge EXCEPT ![m.to] = 0]
     ELSE flight' = flight \ {m} /\ UNCHANGED sendAge
  /\ UNCHANGED <<phase, timer, up, dead, silence>>

\* A message to an end that is gone is lost.
Lose(m) ==
  /\ m \in flight /\ ~Alive(m.to)
  /\ flight' = flight \ {m}
  /\ UNCHANGED <<phase, recvAge, sendAge, timer, up, dead, silence>>

\* The program sends something of its own.
sendData(e) ==
  /\ Alive(e) /\ Cardinality(flight) < MaxFlight
  /\ flight' = flight \union {Post(Other(e), "DATA")}
  /\ sendAge' = [sendAge EXCEPT ![e] = 0]
  /\ UNCHANGED <<phase, recvAge, timer, up, dead, silence>>

\* An end falls silent without closing the connection: a host that is gone, a
\* cable pulled.
Die(e) ==
  /\ Alive(e) /\ Alive(Other(e))
  /\ dead' = dead \union {e}
  /\ UNCHANGED <<phase, recvAge, sendAge, timer, up, flight, silence>>

\* startHeartbeat at both ends, less than an interval apart: "b" has waited for
\* skew ticks, in which age seconds of its clock have begun.
Init ==
  /\ phase \in [Ends -> 0..(TicksPerSecond - 1)]
  /\ \E skew \in 0..(Interval * TicksPerSecond - 1), age \in 0..Interval :
       /\ age * TicksPerSecond + phase["b"] - skew \in 0..(TicksPerSecond - 1)
       /\ recvAge = [e \in Ends |-> IF e = "a" THEN 0 ELSE age]
       /\ sendAge = recvAge
       /\ timer = [e \in Ends |-> IF e = "a" THEN Interval * TicksPerSecond
                                  ELSE Interval * TicksPerSecond - skew]
  /\ up = [e \in Ends |-> TRUE]
  /\ flight = {} /\ dead = {} /\ silence = [e \in Ends |-> 0]

Next ==
  \/ Tick
  \/ \E e \in Ends : heartbeatLoop(e) \/ sendData(e) \/ Die(e)
  \/ \E m \in flight : receive(m) \/ Lose(m)

Spec == Init /\ [][Next]_vars

-----------------------------------------------------------------------------
(* Properties.                                                             *)

\* Every variable has its type; a timer runs for one interval at most.
TypeOK ==
  /\ phase \in [Ends -> 0..(TicksPerSecond - 1)]
  /\ recvAge \in [Ends -> 0..CapAge] /\ sendAge \in [Ends -> 0..CapAge]
  /\ timer \in [Ends -> 0..(Interval * TicksPerSecond)]
  /\ up \in [Ends -> BOOLEAN] /\ dead \subseteq Ends
  /\ flight \subseteq [to : Ends, kind : {"PING", "PONG", "DATA"}, left : 0..Delay]
  /\ silence \in [Ends -> 0..CapSilence]

\* No false alarm: a session is ended only when its peer really is silent,
\* whatever the offsets of the two timers and of the two clocks, the traffic and
\* the delays are.
NoFalseAlarm == \A e \in Ends : ~up[e] => Other(e) \in dead

\* A silent peer is noticed: the session does not outlive it by more than the
\* time-out, one interval and what was still under way.
SilenceNoticed ==
  \A e \in Ends :
    Alive(e) /\ Other(e) \in dead
      => silence[e] <= (Timeout + Interval) * TicksPerSecond + Delay
=============================================================================
