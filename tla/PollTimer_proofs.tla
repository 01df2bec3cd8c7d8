--------------------------- MODULE PollTimer_proofs ---------------------------
(***************************************************************************)
(* An endpoint that is not registered by hand is found in time, for every  *)
(* period, publication time and pace of the calls.                         *)
(***************************************************************************)
EXTENDS PollTimer, TLAPS

\* What the polls that have missed the endpoint have cost it.
Late == missed * Bound

\* How old the endpoint may be.  In a wait that follows one which a call ended,
\* the next call is still too far for it to end this wait too.
AgeBounded ==
  \/ /\ stage = "wait"
     /\ token => gap = 0
     /\ \/ age <= 1 + Late + elapsed
        \/ ~token /\ age <= 1 + Late + poll_period + PublishTime + elapsed
           /\ gap <= PublishTime + elapsed
  \/ /\ stage = "publish"
     /\ ~token
     /\ age <= 1 + Late + poll_period + elapsed /\ gap <= elapsed
  \/ /\ stage = "take"
     /\ age <= 1 + Late
     /\ token => gap = 0

Inv == TypeOK /\ (SlowCalls => AgeBounded)

\* The constants are numbers.
LEMMA Numbers ==
  poll_period \in Nat /\ PublishTime \in Nat /\ MinGap \in Nat /\ MaxMissed \in Nat
BY PollAssumption

USE Numbers

\* A capped number exceeds neither the cap nor what it was.
LEMMA CappedBelow ==
  ASSUME NEW n \in Nat, NEW limit \in Nat
  PROVE  Capped(n, limit) \in 0 .. limit /\ Capped(n, limit) <= n
BY DEF Capped

\* So are the period of the thread and what is computed from it.
LEMMA PeriodType == Period \in Nat /\ Bound \in Nat /\ MaxAge \in Nat /\ 2 <= MaxAge
<1>1. Period \in Nat
  <2>1. CASE CppGraph
    BY <2>1 DEF Period
  <2>2. CASE ~CppGraph
    BY <2>2 DEF Period
  <2> QED BY <2>1, <2>2
<1>2. Bound \in Nat
  BY DEF Bound
<1>3. MaxAge \in Nat /\ 2 <= MaxAge
  <2>1. \A m \in Nat, b \in Nat : (m + 1) * b \in Nat
    OBVIOUS
  <2>2. (MaxMissed + 1) * Bound \in Nat
    BY <1>2, <2>1
  <2> QED BY <2>2 DEF MaxAge
<1> QED BY <1>1, <1>2, <1>3

\* A poll that misses the endpoint costs it one bound more.
LEMMA LateGrows ==
  ASSUME NEW n \in Nat
  PROVE  /\ n * Bound \in Nat
         /\ (n + 1) * Bound = n * Bound + Bound
BY PeriodType

\* The C API takes the period as it is.
LEMMA PeriodOfC == ~CppGraph => Period = poll_period
BY DEF Period

\* The types hold at first and are kept by every step.
LEMMA TypeInductive == (Init => TypeOK) /\ (TypeOK /\ [Next]_vars => TypeOK')
<1>1. Init => TypeOK
  <2> SUFFICES ASSUME Init PROVE TypeOK
    OBVIOUS
  <2>1. elapsed \in Nat /\ elapsed <= Period /\ gap \in 0 .. MinGap /\ age \in 0 .. MaxAge
         /\ missed \in 0 .. MaxMissed
    BY PeriodType DEF Init
  <2>2. stage = "wait" /\ token \in BOOLEAN
    BY DEF Init
  <2> QED BY <2>1, <2>2 DEF TypeOK
<1>2. ASSUME TypeOK, [Next]_vars PROVE TypeOK'
  <2> USE <1>2, PeriodType DEF TypeOK
  <2>1. CASE CreateEndpoint
    BY <2>1 DEF CreateEndpoint
  <2>2. CASE QueueUpdate
    BY <2>2 DEF QueueUpdate
  <2>3. CASE Tick
    <3>1. gap' \in 0 .. MinGap
      BY <2>3, CappedBelow DEF Tick
    <3>2. age' \in 0 .. MaxAge
      <4>1. age + 1 \in Nat
        OBVIOUS
      <4> QED BY <2>3, <4>1, CappedBelow DEF Tick
    <3> QED BY <2>3, <3>1, <3>2 DEF Tick, enable_poll
  <2>4. CASE Woken
    <3>1. token' = FALSE /\ stage' = "publish"
      BY <2>4 DEF Woken, Enter
    <3>2. elapsed' = 0 /\ gap' = gap /\ age' = age /\ missed' = missed
      BY <2>4 DEF Woken, Enter
    <3>3. token' \in BOOLEAN
      BY <3>1
    <3>4. elapsed' \in Nat /\ elapsed' <= Period /\ elapsed' <= PublishTime
      BY <3>2
    <3>5. gap' \in 0 .. MinGap /\ age' \in 0 .. MaxAge /\ missed' \in 0 .. MaxMissed
      BY <3>2
    <3> QED BY <3>1, <3>3, <3>4, <3>5
  <2>6. CASE TimedOut
    BY <2>6 DEF TimedOut, Found, Missed, Enter
  <2>7. CASE TakeAfterPoll
    <3>1. token' = FALSE /\ stage' \in {"publish", "wait"}
      BY <2>7 DEF TakeAfterPoll, Enter
    <3>2. elapsed' = 0 /\ gap' = gap /\ age' = age /\ missed' = missed
      BY <2>7 DEF TakeAfterPoll, Enter
    <3>3. token' \in BOOLEAN
      BY <3>1
    <3>4. elapsed' \in Nat /\ elapsed' <= Period /\ elapsed' <= PublishTime
      BY <3>2
    <3>5. gap' \in 0 .. MinGap /\ age' \in 0 .. MaxAge /\ missed' \in 0 .. MaxMissed
      BY <3>2
    <3> QED BY <3>1, <3>3, <3>4, <3>5
  <2>8. CASE Published
    BY <2>8 DEF Published, Enter
  <2>5. CASE UNCHANGED vars
    BY <2>5 DEF vars
  <2> QED BY <1>2, <2>1, <2>2, <2>3, <2>4, <2>5, <2>6, <2>7, <2>8 DEF Next
<1> QED BY <1>1, <1>2

\* A step of a polling graph keeps the endpoint's age within its bounds.
LEMMA AgeStep ==
  ASSUME Period = poll_period, SlowCalls, TypeOK, AgeBounded, [Next]_vars
  PROVE  AgeBounded'
<1> USE PeriodType DEF TypeOK, SlowCalls, AgeBounded
<1>0. Late \in Nat
  BY LateGrows DEF Late
<1>1. CASE CreateEndpoint
  BY <1>0, <1>1 DEF CreateEndpoint, Late
<1>2. CASE QueueUpdate
  BY <1>0, <1>2 DEF QueueUpdate, Late
<1>3. CASE Tick
  <2>1. gap' <= gap + 1
    BY <1>3, CappedBelow DEF Tick
  <2>2. age' <= age + 1
    <3>1. age + 1 \in Nat
      OBVIOUS
    <3>2. age' = 0 \/ age' = Capped(age + 1, MaxAge)
      BY <1>3 DEF Tick
    <3>3. CASE age' = 0
      BY <3>3
    <3>4. CASE age' = Capped(age + 1, MaxAge)
      BY <3>1, <3>4, CappedBelow
    <3> QED BY <3>2, <3>3, <3>4
  <2>3. gap' \in Nat /\ age' \in Nat
    BY <1>3, CappedBelow, TypeInductive DEF Next
  <2>4. stage' = stage /\ token' = token /\ elapsed' = elapsed + 1 /\ Late' = Late
    BY <1>3, PollAssumption DEF Tick, enable_poll, Late
  <2>5. (stage = "wait" /\ ~token) \/ stage = "publish"
    BY <1>3 DEF Tick
  <2>6. CASE stage = "wait" /\ ~token
    BY <1>0, <2>1, <2>2, <2>3, <2>4, <2>6
  <2>7. CASE stage = "publish"
    BY <1>0, <2>1, <2>2, <2>3, <2>4, <2>7
  <2> QED BY <2>5, <2>6, <2>7
<1>4. CASE Woken
  BY <1>0, <1>4 DEF Woken, Enter, Late
<1>5. CASE TimedOut
  <2>1. /\ stage' = "take" /\ ~token'
        /\ age <= 1 + Late + Bound
    BY <1>0, <1>5 DEF TimedOut, Enter, Bound
  <2>2. CASE Found
    <3>1. missed' = 0 /\ age' = 0
      BY <2>2 DEF Found
    <3>2. Late' = 0
      BY <3>1, PeriodType DEF Late, Bound
    <3>3. age' <= 1 + Late'
      BY <3>1, <3>2
    <3> QED BY <2>1, <3>3
  <2>3. CASE Missed
    <3>1. Late' = Late + Bound /\ age' = age
      BY <2>3, LateGrows DEF Missed, Late, Bound
    <3> QED BY <1>0, <2>1, <3>1
  <2> QED BY <1>5, <2>2, <2>3 DEF TimedOut
<1>6. CASE TakeAfterPoll
  BY <1>0, <1>6 DEF TakeAfterPoll, Enter, Late
<1>7. CASE Published
  BY <1>0, <1>7 DEF Published, Enter, Late
<1>8. CASE UNCHANGED vars
  BY <1>0, <1>8 DEF vars, Late
<1> QED BY <1>1, <1>2, <1>3, <1>4, <1>5, <1>6, <1>7, <1>8 DEF Next

\* The timer's variables keep their types: a wait never exceeds the period, and
\* a graph without polling counts no time in it.
THEOREM TypeCorrect == Spec => []TypeOK
BY TypeInductive, PTL DEF Spec

\* Whatever the period, a C graph finds an endpoint within two periods and a
\* publication, if calls leave the time for a publication and a whole wait, and
\* as much again for every poll that has not come to it.
THEOREM EndpointsFoundInTime == ~CppGraph => (Spec => []FoundInTime)
<1> SUFFICES ASSUME ~CppGraph PROVE Spec => []FoundInTime
  OBVIOUS
<1>1. Init => Inv
  BY TypeInductive, LateGrows DEF Inv, Init, SlowCalls, AgeBounded, Late
<1>2. Inv /\ [Next]_vars => Inv'
  BY TypeInductive, AgeStep, PeriodOfC DEF Inv, SlowCalls
<1>3. Inv => FoundInTime
  <2> SUFFICES ASSUME Inv, SlowCalls PROVE age <= (missed + 1) * Bound + 1
    BY DEF FoundInTime
  <2>1. TypeOK /\ AgeBounded /\ Late \in Nat
    BY LateGrows DEF Inv, TypeOK, Late
  <2>2. (missed + 1) * Bound = Late + Bound
    BY LateGrows DEF Inv, TypeOK, Late
  <2>3. age <= Late + Bound + 1
    BY <2>1, PeriodOfC DEF TypeOK, AgeBounded, SlowCalls, Bound
  <2> QED BY <2>2, <2>3
<1> QED BY <1>1, <1>2, <1>3, PTL DEF Spec
=============================================================================
