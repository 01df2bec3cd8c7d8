------------------------------ MODULE PollTimer ------------------------------
(***************************************************************************)
(* The time that the polling of the update thread takes to find an         *)
(* endpoint: any one, made for a registered node and not registered by     *)
(* hand.  The thread polls only when a wait of poll_period ends without    *)
(* any update; a wait that an update ends is followed by the publication   *)
(* and by another wait of the whole period.  An inspection that fails      *)
(* before it comes to the endpoint is ignored, and the endpoint is left to *)
(* the next poll.  Module UpdateThread has the same loop without time, and *)
(* module Registry what an inspection does.                                *)
(*                                                                         *)
(* Time passes by ticks, and never while the thread has something to do    *)
(* but to wait or to publish.                                              *)
(***************************************************************************)
EXTENDS Naturals

CONSTANTS
  poll_period,  \* what the application asks for; 0 for no polling
  CppGraph,     \* whether it asks through the C++ API
  PublishTime,  \* ticks that a publication may take
  MinGap,       \* ticks between two calls that queue an update, at least
  MaxMissed     \* bound: polls one after another that do not come to the endpoint

ASSUME PollAssumption ==
  /\ poll_period \in Nat \ {0}
  /\ CppGraph \in BOOLEAN
  /\ PublishTime \in Nat /\ MinGap \in Nat /\ MaxMissed \in Nat

VARIABLES
  stage,    \* where the thread is
  elapsed,  \* ticks of the current wait or publication
  token,    \* sem_pinfo is available
  gap,      \* ticks since the last call, no further than MinGap
  age,      \* ticks since the endpoint was created, no further than MaxAge;
            \* 0 if there is none to find
  missed    \* the polls since then

vars == <<stage, elapsed, token, gap, age, missed>>

\* RTIROS2_GraphProperties_INITIALIZER has no polling, and the C++ constructor
\* sets the other properties of the C graph.
Period == IF CppGraph THEN 0 ELSE poll_period

enable_poll == Period # 0

\* One wait that an update ends, its publication and one wait that it does not.
Bound == 2 * poll_period + PublishTime

MaxAge == (MaxMissed + 1) * Bound + 2

Capped(n, limit) == IF n < limit THEN n ELSE limit

Init ==
  /\ stage = "wait"
  /\ elapsed = 0
  /\ token = FALSE
  /\ gap = MinGap
  /\ age = 0
  /\ missed = 0

\* An endpoint is created, but not registered by hand; its age counts from 1.
CreateEndpoint ==
  /\ age = 0
  /\ age' = 1
  /\ UNCHANGED <<stage, elapsed, token, gap, missed>>

\* A call about other endpoints queues an update.
QueueUpdate ==
  /\ gap = MinGap
  /\ gap' = 0
  /\ token' = TRUE
  /\ UNCHANGED <<stage, elapsed, age, missed>>

Tick ==
  /\ \/ stage = "wait" /\ ~token /\ (enable_poll => elapsed < Period)
     \/ stage = "publish" /\ elapsed < PublishTime
  /\ elapsed' = IF stage = "wait" /\ ~enable_poll THEN 0 ELSE elapsed + 1
  /\ gap' = Capped(gap + 1, MinGap)
  /\ age' = IF age = 0 THEN 0 ELSE Capped(age + 1, MaxAge)
  /\ UNCHANGED <<stage, token, missed>>

\* Mutant of Enter: the time is not started again.
EnterLate(next_stage) == stage' = next_stage /\ UNCHANGED elapsed

Enter(next_stage) == stage' = next_stage /\ elapsed' = 0

\* The wait ends with a token; the loop below consumes those that follow it.
Woken ==
  /\ stage = "wait"
  /\ token
  /\ token' = FALSE
  /\ Enter("publish")
  /\ UNCHANGED <<gap, age, missed>>

\* Mutant of TimedOut: the inspection is for any wake-up but a time-out.
TimedOutUnpolled ==
  /\ stage = "wait"
  /\ enable_poll /\ elapsed = Period /\ ~token
  /\ Enter("take")
  /\ UNCHANGED <<token, gap, age, missed>>

\* The inspection of its node registers the endpoint, or fails before.
Found == age' = 0 /\ missed' = 0

Missed ==
  /\ age # 0
  /\ missed < MaxMissed
  /\ missed' = missed + 1
  /\ UNCHANGED age

\* The wait times out: every node is inspected.
TimedOut ==
  /\ stage = "wait"
  /\ enable_poll /\ elapsed = Period /\ ~token
  /\ Found \/ Missed
  /\ Enter("take")
  /\ UNCHANGED <<token, gap>>

\* After the poll, the semaphore is taken without waiting.
TakeAfterPoll ==
  /\ stage = "take"
  /\ token' = FALSE
  /\ Enter(IF token THEN "publish" ELSE "wait")
  /\ UNCHANGED <<gap, age, missed>>

Published ==
  /\ stage = "publish"
  /\ Enter("wait")
  /\ UNCHANGED <<token, gap, age, missed>>

Next ==
  \/ CreateEndpoint \/ QueueUpdate \/ Tick
  \/ Woken \/ TimedOut \/ TakeAfterPoll \/ Published

Spec == Init /\ [][Next]_vars

-----------------------------------------------------------------------------
(* Properties. *)

TypeOK ==
  /\ stage \in {"wait", "publish", "take"}
  /\ elapsed \in Nat
  /\ stage = "wait" => elapsed <= Period
  /\ stage # "wait" => elapsed <= PublishTime
  /\ token \in BOOLEAN
  /\ gap \in 0 .. MinGap
  /\ age \in 0 .. MaxAge
  /\ missed \in 0 .. MaxMissed

\* The calls leave the thread the time to publish and to wait a whole period.
SlowCalls == MinGap > poll_period + PublishTime

\* An endpoint that is not registered by hand is found within two periods and
\* a publication, and as much again for every poll whose inspection has failed
\* before it: when calls are no more frequent than that, a call puts off one
\* poll at most, and no two polls are further apart.
FoundInTime == SlowCalls => age <= (missed + 1) * Bound + 1
=============================================================================
