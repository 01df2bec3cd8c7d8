------------------------- MODULE UpdateThread_proofs -------------------------
(***************************************************************************)
(* Machine-checked proofs about UpdateThread, for every number of          *)
(* applications, nodes, endpoints, participants and calls.                 *)
(***************************************************************************)
EXTENDS UpdateThread, TLAPS

Critical == {"locked", "changed", "registering", "inspecting", "release"}
Finalizing == {"fin_give", "fin_wait", "fin_free", "done"}

\* The mutex is held exactly by the application inside a critical section.
MutexInv == \A a \in Apps : pc[a] \in Critical <=> mutex_self = a

\* register_local_node works on a node that is on the list.
SubjectInv ==
  \A a \in Apps : pc[a] \in {"registering", "inspecting"} =>
    subject \in Nodes /\ registered[subject] \in Participants

\* The token register_local_node gave before the inspection is still ahead of
\* the next gather: the thread cannot gather while the mutex is held.
TokenInv ==
  \A a \in Apps : pc[a] = "inspecting" =>
    sem_pinfo > 0 \/ thread \in {"taken", "drain", "gather"}

\* finalize starts when no call is in progress and none starts after it.
FinalizeInv ==
  /\ thread_pinfo_active => \A a \in Apps : pc[a] \notin Finalizing
  /\ ~thread_pinfo_active => \A a \in Apps : pc[a] \notin Critical
  /\ ~thread_pinfo_active =>
       \A a, b \in Apps : pc[a] # "idle" /\ pc[b] # "idle" => a = b

\* finalize frees only what the thread no longer uses.
JoinInv ==
  /\ thread \in {"exit", "exited"} => ~thread_pinfo_active
  /\ sem_pinfo_exit => thread = "exited"
  /\ \A a \in Apps : pc[a] \in {"fin_free", "done"} => thread = "exited"
  /\ freed => /\ ~thread_pinfo_active
              /\ thread = "exited"
              /\ \A a \in Apps : pc[a] \in {"idle", "done"}

\* No participant is left over from an earlier round.
RoundInv == thread \notin {"publish", "write"} => to_publish = {}

ControlInv ==
  MutexInv /\ SubjectInv /\ TokenInv /\ FinalizeInv /\ JoinInv /\ RoundInv

IInv == TypeOK /\ ControlInv

-----------------------------------------------------------------------------
(* Type correctness. *)

\* A snapshot is a possible content of a sample.
LEMMA SnapshotType ==
  ASSUME TypeOK, NEW p \in Participants
  PROVE  Snapshot(p) \in SUBSET NodeInfo
BY DEF TypeOK, Snapshot, NodesOf, NodeInfo

\* An inspection finds endpoints.
LEMMA FoundType == ASSUME TypeOK, NEW n PROVE Found(n) \subseteq Endpoints
BY DEF TypeOK, Found

\* The types hold when initialize returns.
LEMMA InitType == Init => TypeOK
<1> SUFFICES ASSUME Init PROVE TypeOK
  OBVIOUS
<1>1. pinfo \in Sample
  BY DEF Init, Sample
<1>2. announced \in [Participants -> SUBSET NodeInfo]
  BY DEF Init
<1> QED
  BY <1>1, <1>2 DEF Init, TypeOK, AppLabels, ThreadLabels

\* Every step keeps the types.
LEMMA NextType == IInv /\ [Next]_vars => TypeOK'
<1> SUFFICES ASSUME IInv, [Next]_vars PROVE TypeOK'
  OBVIOUS
<1> USE DEF AppLabels, ThreadLabels, Goto, ThreadGoto, appVars, semVars,
            registryVars, threadVars
<1>t. TypeOK
  BY DEF IInv
<1>1. ASSUME NEW e \in Endpoints, CreateEntity(e) PROVE TypeOK'
  BY <1>t, <1>1 DEF TypeOK, CreateEntity
<1>2. ASSUME NEW a \in Apps, TakeMutex(a) \/ FinalizeStop(a) PROVE TypeOK'
  <2>1. CASE TakeMutex(a)
    BY <1>t, <2>1 DEF TypeOK, TakeMutex
  <2>2. CASE FinalizeStop(a)
    BY <1>t, <2>2 DEF TypeOK, FinalizeStop
  <2> QED
    BY <1>2, <2>1, <2>2
<1>3. ASSUME NEW a \in Apps, CallStep(a) PROVE TypeOK'
  <2>1. CASE Reject(a) \/ QueueUpdate(a) \/ GiveMutex(a)
    <3>1. CASE Reject(a) \/ GiveMutex(a)
      BY <1>t, <3>1 DEF TypeOK, Reject, GiveMutex
    <3>2. CASE QueueUpdate(a)
      <4>1. pc' \in [Apps -> AppLabels] /\ sem_pinfo' \in Nat
        BY <1>t, <3>2 DEF TypeOK, QueueUpdate
      <4> QED
        BY <1>t, <3>2, <4>1 DEF TypeOK, QueueUpdate
    <3> QED
      BY <2>1, <3>1, <3>2
  <2>2. ASSUME NEW n \in Nodes, UnregisterNode(a, n) PROVE TypeOK'
    BY <1>t, <2>2 DEF TypeOK, UnregisterNode, FinalizeNode
  <2>3. ASSUME NEW n \in Nodes, InspectNode(a, n) PROVE TypeOK'
    BY <1>t, <2>3, FoundType DEF TypeOK, InspectNode
  <2>4. ASSUME NEW n \in Nodes, InspectNodeFails(a, n) PROVE TypeOK'
    BY <1>t, <2>4, FoundType DEF TypeOK, InspectNodeFails
  <2>5. ASSUME NEW n \in Nodes, NEW p \in Participants, RegisterNode(a, n, p)
        PROVE  TypeOK'
    BY <1>t, <2>5 DEF TypeOK, RegisterNode
  <2>6. ASSUME NEW n \in Nodes, NEW e \in Endpoints,
               RegisterEndpoint(a, n, e) \/ UnregisterEndpoint(a, n, e)
        PROVE  TypeOK'
    BY <1>t, <2>6 DEF TypeOK, RegisterEndpoint, UnregisterEndpoint
  <2>7. CASE InspectNewNode(a)
    BY <1>t, <2>7, FoundType DEF TypeOK, InspectNewNode
  <2>8. CASE InspectNewNodeFails(a)
    BY <1>t, <2>8 DEF TypeOK, InspectNewNodeFails, FinalizeNode
  <2>9. CASE FinalizeWake(a) \/ FinalizeJoin(a) \/ FinalizeFree(a)
    <3>1. CASE FinalizeWake(a)
      BY <1>t, <3>1 DEF TypeOK, FinalizeWake
    <3>2. CASE FinalizeJoin(a)
      BY <1>t, <3>2 DEF TypeOK, FinalizeJoin
    <3>3. CASE FinalizeFree(a)
      BY <1>t, <3>3 DEF TypeOK, FinalizeFree
    <3> QED
      BY <2>9, <3>1, <3>2, <3>3
  <2> QED
    BY <1>3, <2>1, <2>2, <2>3, <2>4, <2>5, <2>6, <2>7,
      <2>8, <2>9 DEF CallStep
<1>4. ASSUME ThreadStep PROVE TypeOK'
  <2>1. CASE ThreadCheck \/ ThreadTake \/ ThreadTimeout \/ ThreadWoken
    <3>1. thread' \in ThreadLabels
      BY <2>1 DEF ThreadCheck, ThreadTake, ThreadTimeout, ThreadWoken
    <3>2. sem_pinfo' \in Nat
      BY <1>t, <2>1 DEF TypeOK, ThreadCheck, ThreadTake, ThreadTimeout, ThreadWoken
    <3> QED
      BY <1>t, <2>1, <3>1, <3>2
         DEF TypeOK, ThreadCheck, ThreadTake, ThreadTimeout, ThreadWoken
  <2>2. CASE Poll
    <3>1. PICK found \in [Nodes -> SUBSET entities] :
            endpoints' = [n \in Nodes |-> endpoints[n] \cup found[n]]
      BY <2>2 DEF Poll
    <3>2. endpoints' \in [Nodes -> SUBSET Endpoints]
      BY <1>t, <3>1 DEF TypeOK
    <3> QED
      BY <1>t, <2>2, <3>2 DEF TypeOK, Poll
  <2>3. CASE ThreadTakeAfterPoll \/ ThreadDrain
    BY <1>t, <2>3 DEF TypeOK, ThreadTakeAfterPoll, ThreadDrain
  <2>4. CASE Gather
    BY <1>t, <2>4 DEF TypeOK, Gather
  <2>5. ASSUME NEW p \in Participants, Convert(p) PROVE TypeOK'
    BY <1>t, <2>5, SnapshotType DEF TypeOK, Convert, Sample
  <2>6. CASE Write
    BY <1>t, <2>6 DEF TypeOK, Write, Sample
  <2>7. CASE PublishFails \/ PublishDone \/ ThreadExit
    BY <1>t, <2>7 DEF TypeOK, PublishFails, PublishDone, ThreadExit
  <2> QED
    BY <1>4, <2>1, <2>2, <2>3, <2>4, <2>5, <2>6, <2>7 DEF ThreadStep
<1>5. CASE UNCHANGED vars
  BY <1>t, <1>5 DEF TypeOK, vars
<1> QED
  BY <1>1, <1>2, <1>3, <1>4, <1>5 DEF Next

-----------------------------------------------------------------------------
(* The control invariant: who holds the mutex, and when the thread has left. *)

\* The invariant holds when initialize returns.
LEMMA InitInv == Init => IInv
<1> SUFFICES ASSUME Init PROVE IInv
  OBVIOUS
<1>1. TypeOK
  BY InitType
<1> QED
  BY <1>1, ConstantsAssumption
     DEF Init, IInv, ControlInv, MutexInv, SubjectInv, TokenInv, FinalizeInv, JoinInv,
         RoundInv, Critical, Finalizing

\* Every step keeps what the invariant says of mutex, tokens and control.
LEMMA NextControl == IInv /\ [Next]_vars => ControlInv'
<1> SUFFICES ASSUME IInv, [Next]_vars PROVE ControlInv'
  OBVIOUS
<1> USE DEF ControlInv, MutexInv, SubjectInv, TokenInv, FinalizeInv, JoinInv,
            RoundInv, Critical, Finalizing, appVars, semVars, registryVars, threadVars
<1>t. TypeOK /\ ControlInv
  BY DEF IInv
<1>f. Free \notin Apps /\ NoParticipant \notin Participants
  BY ConstantsAssumption
<1>1. ASSUME NEW e \in Endpoints, CreateEntity(e) PROVE ControlInv'
  BY <1>t, <1>1 DEF CreateEntity
<1>2. ASSUME NEW a \in Apps, TakeMutex(a) PROVE ControlInv'
  BY <1>t, <1>f, <1>2 DEF TypeOK, TakeMutex, Goto
<1>3. ASSUME NEW a \in Apps, FinalizeStop(a) PROVE ControlInv'
  BY <1>t, <1>f, <1>3 DEF TypeOK, FinalizeStop, Goto
<1>4. ASSUME NEW a \in Apps, CallStep(a) PROVE ControlInv'
  <2>1. CASE Reject(a)
    BY <1>t, <1>f, <2>1 DEF TypeOK, Reject, Goto
  <2>2. CASE QueueUpdate(a)
    BY <1>t, <1>f, <2>2 DEF TypeOK, QueueUpdate, Goto
  <2>3. CASE GiveMutex(a)
    BY <1>t, <1>f, <2>3 DEF TypeOK, GiveMutex, Goto
  <2>4. CASE InspectNewNode(a)
    BY <1>t, <1>f, <2>4 DEF TypeOK, InspectNewNode, Goto
  <2>5. CASE InspectNewNodeFails(a)
    BY <1>t, <1>f, <2>5 DEF TypeOK, InspectNewNodeFails, Goto, FinalizeNode
  <2>6. CASE FinalizeWake(a)
    BY <1>t, <1>f, <2>6 DEF TypeOK, FinalizeWake, Goto
  <2>7. CASE FinalizeJoin(a)
    BY <1>t, <1>f, <2>7 DEF TypeOK, FinalizeJoin, Goto
  <2>8. CASE FinalizeFree(a)
    BY <1>t, <1>f, <2>8 DEF TypeOK, FinalizeFree, Goto
  <2>9. ASSUME NEW n \in Nodes, UnregisterNode(a, n) PROVE ControlInv'
    BY <1>t, <1>f, <2>9 DEF TypeOK, UnregisterNode, Goto, FinalizeNode
  <2>10. ASSUME NEW n \in Nodes, InspectNode(a, n) PROVE ControlInv'
    BY <1>t, <1>f, <2>10 DEF TypeOK, InspectNode, Goto
  <2>11. ASSUME NEW n \in Nodes, InspectNodeFails(a, n) PROVE ControlInv'
    BY <1>t, <1>f, <2>11 DEF TypeOK, InspectNodeFails, Goto
  <2>12. ASSUME NEW n \in Nodes, NEW p \in Participants, RegisterNode(a, n, p)
        PROVE  ControlInv'
    BY <1>t, <1>f, <2>12 DEF TypeOK, RegisterNode, Goto
  <2>13. ASSUME NEW n \in Nodes, NEW e \in Endpoints, RegisterEndpoint(a, n, e)
        PROVE  ControlInv'
    BY <1>t, <1>f, <2>13 DEF TypeOK, RegisterEndpoint, Goto
  <2>14. ASSUME NEW n \in Nodes, NEW e \in Endpoints, UnregisterEndpoint(a, n, e)
        PROVE  ControlInv'
    BY <1>t, <1>f, <2>14 DEF TypeOK, UnregisterEndpoint, Goto
  <2> QED
    BY <1>4, <2>1, <2>2, <2>3, <2>4, <2>5, <2>6, <2>7,
      <2>8, <2>9, <2>10, <2>11, <2>12, <2>13, <2>14 DEF CallStep
<1>5. ASSUME ThreadStep PROVE ControlInv'
  <2>1. CASE ThreadCheck
    BY <1>t, <1>f, <2>1 DEF TypeOK, ThreadCheck, ThreadGoto
  <2>2. CASE ThreadTake
    BY <1>t, <1>f, <2>2 DEF TypeOK, ThreadTake, ThreadGoto
  <2>3. CASE ThreadTimeout
    BY <1>t, <1>f, <2>3 DEF TypeOK, ThreadTimeout, ThreadGoto
  <2>4. CASE ThreadWoken
    BY <1>t, <1>f, <2>4 DEF TypeOK, ThreadWoken, ThreadGoto
  <2>5. CASE Poll
    BY <1>t, <1>f, <2>5 DEF TypeOK, Poll, ThreadGoto
  <2>6. CASE ThreadTakeAfterPoll
    BY <1>t, <1>f, <2>6 DEF TypeOK, ThreadTakeAfterPoll, ThreadGoto
  <2>7. CASE ThreadDrain
    BY <1>t, <1>f, <2>7 DEF TypeOK, ThreadDrain, ThreadGoto
  <2>8. CASE Gather
    BY <1>t, <1>f, <2>8 DEF TypeOK, Gather, ThreadGoto
  <2>9. CASE Write
    BY <1>t, <1>f, <2>9 DEF TypeOK, Write, ThreadGoto
  <2>10. CASE PublishFails
    BY <1>t, <1>f, <2>10 DEF TypeOK, PublishFails, ThreadGoto
  <2>11. CASE PublishDone
    BY <1>t, <1>f, <2>11 DEF TypeOK, PublishDone, ThreadGoto
  <2>12. CASE ThreadExit
    BY <1>t, <1>f, <2>12 DEF TypeOK, ThreadExit, ThreadGoto
  <2>13. ASSUME NEW p \in Participants, Convert(p) PROVE ControlInv'
    BY <1>t, <1>f, <2>13 DEF TypeOK, Convert, ThreadGoto
  <2> QED
    BY <1>5, <2>1, <2>2, <2>3, <2>4, <2>5, <2>6, <2>7,
      <2>8, <2>9, <2>10, <2>11, <2>12, <2>13 DEF ThreadStep
<1>6. CASE UNCHANGED vars
  BY <1>t, <1>6 DEF vars
<1> QED
  BY <1>1, <1>2, <1>3, <1>4, <1>5, <1>6 DEF Next

\* The control invariant holds in every reachable state, whatever the constants.
THEOREM InvariantHolds == Spec => []IInv
<1>1. IInv /\ [Next]_vars => IInv'
  BY NextType, NextControl DEF IInv
<1> QED
  BY InitInv, <1>1, PTL DEF Spec

\* The variables of the protocol have their types in every reachable state.
THEOREM TypeCorrect == Spec => []TypeOK
<1>1. IInv => TypeOK
  BY DEF IInv
<1> QED
  BY InvariantHolds, <1>1, PTL

\* After finalize has freed the graph, no thread is left that could use it.
THEOREM NothingUsedAfterFree == Spec => []NoUseAfterFree
<1>1. IInv => NoUseAfterFree
  BY ConstantsAssumption
     DEF IInv, TypeOK, ControlInv, JoinInv, FinalizeInv, MutexInv,
         NoUseAfterFree, Critical
<1> QED
  BY InvariantHolds, <1>1, PTL

-----------------------------------------------------------------------------
(* finalize and the thread never wait for each other. *)

\* The thread may leave before finalize has given the token meant to wake it.
HeardInv ==
  /\ FinalizeHeard
  /\ \A a \in Apps : pc[a] = "fin_give" /\ thread = "exited" => sem_pinfo_exit

\* Every step keeps it: the thread goes to sleep only while the graph is alive,
\* and the one token that is sure to be there is not drained in its sleep.
LEMMA NextHeard == IInv /\ HeardInv /\ [Next]_vars => HeardInv'
<1> SUFFICES ASSUME IInv, HeardInv, [Next]_vars PROVE HeardInv'
  OBVIOUS
<1> USE DEF HeardInv, FinalizeHeard, appVars, semVars, registryVars, threadVars
<1>1. /\ sem_pinfo \in Nat /\ pc \in [Apps -> AppLabels]
      /\ thread_pinfo_active => \A a \in Apps : pc[a] \notin {"fin_give", "fin_wait"}
      /\ ~thread_pinfo_active =>
           \A a, b \in Apps : pc[a] # "idle" /\ pc[b] # "idle" => a = b
      /\ thread = "exited" => ~thread_pinfo_active
  BY DEF IInv, TypeOK, ControlInv, FinalizeInv, JoinInv, Finalizing
<1>2. CASE thread_pinfo_active' /\ thread_pinfo_active
  <2>1. (\E a \in Apps : FinalizeWake(a) \/ FinalizeJoin(a)) => FALSE
    BY <1>1, <1>2 DEF FinalizeWake, FinalizeJoin
  <2>2. \A a \in Apps : pc'[a] \notin {"fin_give", "fin_wait"}
    <3>1. ASSUME NEW a \in Apps, CallStep(a)
          PROVE  \A b \in Apps : pc'[b] \notin {"fin_give", "fin_wait"}
      BY <1>1, <2>1, <3>1
         DEF CallStep, Reject, QueueUpdate, GiveMutex, UnregisterNode, InspectNode,
             InspectNodeFails, RegisterNode, RegisterEndpoint, UnregisterEndpoint,
             InspectNewNode, InspectNewNodeFails, FinalizeFree, Goto
    <3>2. ASSUME NEW a \in Apps, TakeMutex(a)
          PROVE  \A b \in Apps : pc'[b] \notin {"fin_give", "fin_wait"}
      BY <1>1, <3>2 DEF TakeMutex, Goto
    <3>3. ASSUME NEW a \in Apps, FinalizeStop(a) PROVE FALSE
      BY <1>2, <3>3 DEF FinalizeStop
    <3>4. ASSUME ThreadStep PROVE pc' = pc
      BY <3>4 DEF ThreadStep, ThreadCheck, ThreadTake, ThreadTimeout, ThreadWoken, Poll,
                  ThreadTakeAfterPoll, ThreadDrain, Gather, Convert, Write, PublishFails,
                  PublishDone, ThreadExit, ThreadGoto
    <3>5. ASSUME NEW e \in Endpoints, CreateEntity(e) PROVE pc' = pc
      BY <3>5 DEF CreateEntity
    <3> QED
      BY <1>1, <1>2, <3>1, <3>2, <3>3, <3>4, <3>5 DEF Next, vars
  <2> QED
    BY <2>2
<1>3. CASE thread_pinfo_active' # thread_pinfo_active
  <2>1. PICK a \in Apps : FinalizeStop(a)
    BY <1>3
       DEF Next, CallStep, ThreadStep, CreateEntity, TakeMutex, Reject, QueueUpdate,
           GiveMutex, UnregisterNode, InspectNode, InspectNodeFails, RegisterNode,
           RegisterEndpoint, UnregisterEndpoint, InspectNewNode, InspectNewNodeFails,
           FinalizeWake, FinalizeJoin, FinalizeFree, ThreadCheck, ThreadTake,
           ThreadTimeout, ThreadWoken, Poll, ThreadTakeAfterPoll, ThreadDrain, Gather,
           Convert, Write, PublishFails, PublishDone, ThreadExit, ThreadGoto, vars
  <2>2. thread' = thread /\ thread # "exited" /\ \A b \in Apps : pc'[b] \in {"idle", "fin_give"}
    BY <1>1, <2>1 DEF FinalizeStop, Goto
  <2> QED
    BY <2>2
<1>4. CASE ~thread_pinfo_active /\ ~thread_pinfo_active'
  <2>1. CASE ThreadStep
    <3>1. CASE ThreadExit
      BY <3>1 DEF ThreadExit, ThreadGoto
    <3>2. CASE ThreadCheck \/ ThreadTake \/ ThreadTimeout \/ ThreadWoken \/ Poll
      BY <1>4, <3>2
         DEF ThreadCheck, ThreadTake, ThreadTimeout, ThreadWoken, Poll, ThreadGoto
    <3>3. CASE ThreadTakeAfterPoll \/ ThreadDrain \/ Gather
      BY <3>3 DEF ThreadTakeAfterPoll, ThreadDrain, Gather, ThreadGoto
    <3>4. CASE \/ Write \/ PublishFails \/ PublishDone
               \/ \E p \in Participants : Convert(p)
      BY <3>4 DEF Convert, Write, PublishFails, PublishDone, ThreadGoto
    <3> QED
      BY <2>1, <3>1, <3>2, <3>3, <3>4 DEF ThreadStep
  <2>2. ASSUME NEW a \in Apps, FinalizeWake(a)
        PROVE  HeardInv'
    BY <1>1, <2>2 DEF FinalizeWake, Goto
  <2>3. ASSUME NEW a \in Apps, FinalizeJoin(a)
        PROVE  HeardInv'
    <3>1. \A b \in Apps : pc'[b] \notin {"fin_give", "fin_wait"}
      BY <1>1, <1>4, <2>3 DEF FinalizeJoin, Goto
    <3> QED
      BY <3>1
  <2>4. ASSUME NEW a \in Apps,
               FinalizeFree(a) \/ TakeMutex(a) \/ Reject(a) \/ GiveMutex(a) \/ QueueUpdate(a)
        PROVE  HeardInv'
    BY <1>1, <2>4 DEF FinalizeFree, TakeMutex, Reject, GiveMutex, QueueUpdate, Goto
  <2>5. ASSUME NEW a \in Apps,
               \/ InspectNewNode(a) \/ InspectNewNodeFails(a)
               \/ \E n \in Nodes :
                    \/ UnregisterNode(a, n) \/ InspectNode(a, n) \/ InspectNodeFails(a, n)
                    \/ \E p \in Participants : RegisterNode(a, n, p)
                    \/ \E e \in Endpoints :
                         RegisterEndpoint(a, n, e) \/ UnregisterEndpoint(a, n, e)
        PROVE  HeardInv'
    BY <1>1, <2>5
       DEF InspectNewNode, InspectNewNodeFails, UnregisterNode, InspectNode,
           InspectNodeFails, RegisterNode, RegisterEndpoint, UnregisterEndpoint, Goto
  <2>6. ASSUME NEW a \in Apps, FinalizeStop(a) PROVE FALSE
    BY <1>4, <2>6 DEF FinalizeStop
  <2>7. ASSUME UNCHANGED vars \/ \E e \in Endpoints : CreateEntity(e)
        PROVE  HeardInv'
    BY <2>7 DEF vars, CreateEntity
  <2> QED
    BY <2>1, <2>2, <2>3, <2>4, <2>5, <2>6, <2>7 DEF Next, CallStep
<1> QED
  BY <1>2, <1>3, <1>4

\* While finalize waits for the thread, the thread does not sleep without a
\* token, and has not left without its own, for any number of calls in flight
\* when it began.
THEOREM FinalizeIsHeard == Spec => []FinalizeHeard
<1>1. Init => HeardInv
  BY DEF Init, HeardInv, FinalizeHeard
<1>2. HeardInv => FinalizeHeard
  BY DEF HeardInv
<1> QED
  BY InvariantHolds, NextHeard, <1>1, <1>2, PTL DEF Spec

-----------------------------------------------------------------------------
(* No lost update. *)

\* A step that leaves the registry alone leaves every snapshot alone.
LEMMA SameRegistry ==
  ASSUME UNCHANGED registryVars, NEW p \in Participants
  PROVE  Snapshot(p)' = Snapshot(p) /\ Hosted(p)' = Hosted(p)
BY DEF registryVars, Snapshot, Hosted, NodesOf

\* A node is on one participant: changing its endpoints shows in one snapshot.
LEMMA OtherSnapshot ==
  ASSUME TypeOK, UNCHANGED registered, NEW n \in Nodes, NEW p \in Participants,
         registered[n] # p,
         \A m \in Nodes \ {n} : endpoints'[m] = endpoints[m]
  PROVE  Snapshot(p)' = Snapshot(p)
BY DEF Snapshot, NodesOf

\* Only a step of DroppingStep makes a participant lost.
LEMMA LostStep ==
  ASSUME IInv, [Next]_vars, NEW p \in Participants, Lost(p)'
  PROVE  Lost(p) \/ DroppingStep
<1> SUFFICES ASSUME ~DroppingStep PROVE Lost(p)
  OBVIOUS
<1> USE DEF appVars, semVars, threadVars
<1>t. TypeOK /\ ControlInv
  BY DEF IInv
<1>f. NoParticipant \notin Participants
  BY ConstantsAssumption
<1>s. UNCHANGED registryVars => Snapshot(p)' = Snapshot(p) /\ Hosted(p)' = Hosted(p)
  BY SameRegistry
<1>1. ASSUME NEW e \in Endpoints, CreateEntity(e) PROVE Lost(p)
  BY <1>1, <1>s DEF CreateEntity, Lost, Announcing, Covered, RoundComing
<1>2. ASSUME NEW a \in Apps, TakeMutex(a) PROVE Lost(p)
  <2>1. \A b \in Apps : pc[b] \in {"changed", "registering"} => pc'[b] = pc[b]
    BY <1>t, <1>2 DEF TypeOK, TakeMutex, Goto
  <2> QED
    BY <1>2, <2>1, <1>s DEF TakeMutex, Lost, Announcing, Covered, RoundComing
<1>3. ASSUME NEW a \in Apps, FinalizeStop(a) PROVE Lost(p)
  BY <1>3 DEF FinalizeStop, Lost
<1>4. ASSUME NEW a \in Apps, CallStep(a) PROVE Lost(p)
  <2>1. CASE Reject(a)
    <3>1. \A b \in Apps : pc[b] \in {"changed", "registering"} => pc'[b] = pc[b]
      BY <1>t, <2>1 DEF TypeOK, Reject, Goto
    <3> QED
      BY <1>t, <2>1, <3>1, <1>s DEF TypeOK, Reject, Lost, Announcing, Covered, RoundComing
  <2>2. CASE GiveMutex(a)
    <3>1. \A b \in Apps : pc[b] \in {"changed", "registering"} => pc'[b] = pc[b]
      BY <1>t, <2>2 DEF TypeOK, GiveMutex, Goto
    <3> QED
      BY <1>t, <2>2, <3>1, <1>s DEF TypeOK, GiveMutex, Lost, Announcing, Covered, RoundComing
  <2>3. CASE FinalizeWake(a)
    <3>1. \A b \in Apps : pc[b] \in {"changed", "registering"} => pc'[b] = pc[b]
      BY <1>t, <2>3 DEF TypeOK, FinalizeWake, Goto
    <3> QED
      BY <1>t, <2>3, <3>1, <1>s DEF TypeOK, FinalizeWake, Lost, Announcing, Covered, RoundComing
  <2>4. CASE FinalizeJoin(a)
    <3>1. \A b \in Apps : pc[b] \in {"changed", "registering"} => pc'[b] = pc[b]
      BY <1>t, <2>4 DEF TypeOK, FinalizeJoin, Goto
    <3> QED
      BY <1>t, <2>4, <3>1, <1>s DEF TypeOK, FinalizeJoin, Lost, Announcing, Covered, RoundComing
  <2>5. CASE QueueUpdate(a)
    <3>1. sem_pinfo' > 0
      BY <1>t, <2>5 DEF TypeOK, QueueUpdate
    <3> QED
      BY <2>5, <3>1, <1>s DEF QueueUpdate, Lost, Announcing, Covered, RoundComing
  <2>6. CASE InspectNewNode(a)
    <3>1. RoundComing /\ RoundComing'
      <4>1. sem_pinfo > 0 \/ thread \in {"taken", "drain", "gather"}
        BY <1>t, <2>6 DEF ControlInv, TokenInv, InspectNewNode
      <4> QED
        BY <2>6, <4>1 DEF InspectNewNode, RoundComing
    <3>2. subject \in Nodes /\ Hosted(p)' = Hosted(p)
      BY <1>t, <2>6 DEF ControlInv, SubjectInv, InspectNewNode, Hosted, NodesOf
    <3>3. registered[subject] # p
      BY <1>t, <2>6, <3>1, <3>2
         DEF TypeOK, InspectNewNode, Lost, Covered, Hosted, NodesOf
    <3>4. Snapshot(p)' = Snapshot(p)
      BY <1>t, <2>6, <3>2, <3>3, OtherSnapshot DEF TypeOK, InspectNewNode
    <3> QED
      BY <2>6, <3>1, <3>2, <3>4 DEF InspectNewNode, Lost, Announcing, Covered
  <2>7. CASE InspectNewNodeFails(a)
    BY <2>7 DEF DroppingStep
  <2>8. CASE FinalizeFree(a)
    BY <1>t, <2>8 DEF TypeOK, FinalizeFree, ControlInv, FinalizeInv, Finalizing, Lost
  <2>9. ASSUME NEW n \in Nodes, UnregisterNode(a, n) \/ InspectNodeFails(a, n) PROVE Lost(p)
    BY <2>9 DEF DroppingStep
  <2>10. ASSUME NEW n \in Nodes, InspectNode(a, n) PROVE Lost(p)
    <3>1. RoundComing'
      BY <1>t, <2>10 DEF TypeOK, InspectNode, Goto, RoundComing
    <3>2. registered[n] # p /\ Hosted(p)' = Hosted(p)
      BY <1>t, <2>10, <3>1
         DEF TypeOK, InspectNode, Lost, Covered, Hosted, NodesOf
    <3>3. Snapshot(p)' = Snapshot(p)
      BY <1>t, <2>10, <3>2, OtherSnapshot DEF TypeOK, InspectNode
    <3> QED
      BY <2>10, <3>1, <3>2, <3>3 DEF InspectNode, Lost, Announcing, Covered
  <2>11. ASSUME NEW n \in Nodes, NEW e \in Endpoints, RegisterEndpoint(a, n, e)
        PROVE  Lost(p)
    <3>1. RoundComing'
      BY <1>t, <2>11 DEF TypeOK, RegisterEndpoint, Goto, RoundComing
    <3>2. registered[n] # p /\ Hosted(p)' = Hosted(p)
      BY <1>t, <2>11, <3>1
         DEF TypeOK, RegisterEndpoint, Lost, Covered, Hosted, NodesOf
    <3>3. Snapshot(p)' = Snapshot(p)
      BY <1>t, <2>11, <3>2, OtherSnapshot DEF TypeOK, RegisterEndpoint
    <3> QED
      BY <2>11, <3>1, <3>2, <3>3 DEF RegisterEndpoint, Lost, Announcing, Covered
  <2>12. ASSUME NEW n \in Nodes, NEW e \in Endpoints, UnregisterEndpoint(a, n, e)
        PROVE  Lost(p)
    <3>1. RoundComing'
      BY <1>t, <2>12 DEF TypeOK, UnregisterEndpoint, Goto, RoundComing
    <3>2. registered[n] # p /\ Hosted(p)' = Hosted(p)
      BY <1>t, <2>12, <3>1
         DEF TypeOK, UnregisterEndpoint, Lost, Covered, Hosted, NodesOf
    <3>3. Snapshot(p)' = Snapshot(p)
      BY <1>t, <2>12, <3>2, OtherSnapshot DEF TypeOK, UnregisterEndpoint
    <3> QED
      BY <2>12, <3>1, <3>2, <3>3 DEF UnregisterEndpoint, Lost, Announcing, Covered
  <2>13. ASSUME NEW n \in Nodes, NEW q \in Participants, RegisterNode(a, n, q)
        PROVE  Lost(p)
    <3>1. RoundComing'
      BY <1>t, <2>13 DEF TypeOK, RegisterNode, Goto, RoundComing
    <3>2. q # p
      BY <1>t, <2>13, <3>1 DEF TypeOK, RegisterNode, Lost, Covered, Hosted, NodesOf
    <3>3. NodesOf(p)' = NodesOf(p) /\ n \notin NodesOf(p)
      BY <1>t, <1>f, <2>13, <3>2 DEF TypeOK, RegisterNode, NodesOf
    <3>4. Snapshot(p)' = Snapshot(p) /\ Hosted(p)' = Hosted(p)
      <4>1. \A m \in NodesOf(p) : endpoints'[m] = endpoints[m]
        BY <1>t, <2>13, <3>3 DEF TypeOK, RegisterNode, NodesOf
      <4> QED
        BY <3>3, <4>1 DEF Snapshot, Hosted
    <3> QED
      BY <2>13, <3>1, <3>4 DEF RegisterNode, Lost, Announcing, Covered
  <2> QED
    BY <1>4, <2>1, <2>2, <2>3, <2>4, <2>5, <2>6, <2>7,
      <2>8, <2>9, <2>10, <2>11, <2>12, <2>13 DEF CallStep
<1>5. ASSUME ThreadStep PROVE Lost(p)
  <2>1. CASE ThreadCheck
    BY <1>t, <2>1, <1>s
       DEF TypeOK, ThreadCheck, ThreadGoto, Lost, Announcing, Covered, RoundComing
  <2>2. CASE ThreadTake
    BY <1>t, <2>2, <1>s
       DEF TypeOK, ThreadTake, ThreadGoto, Lost, Announcing, Covered, RoundComing
  <2>3. CASE ThreadTimeout
    BY <1>t, <2>3, <1>s
       DEF TypeOK, ThreadTimeout, ThreadGoto, Lost, Announcing, Covered, RoundComing
  <2>4. CASE ThreadWoken
    BY <1>t, <2>4, <1>s
       DEF TypeOK, ThreadWoken, ThreadGoto, Lost, Announcing, Covered, RoundComing
  <2>5. CASE ThreadTakeAfterPoll
    BY <1>t, <2>5, <1>s
       DEF TypeOK, ThreadTakeAfterPoll, ThreadGoto, Lost, Announcing, Covered, RoundComing
  <2>6. CASE ThreadDrain
    BY <1>t, <2>6, <1>s
       DEF TypeOK, ThreadDrain, ThreadGoto, Lost, Announcing, Covered, RoundComing
  <2>7. CASE PublishDone
    BY <1>t, <2>7, <1>s
       DEF TypeOK, PublishDone, ThreadGoto, Lost, Announcing, Covered, RoundComing
  <2>8. CASE ThreadExit
    BY <1>t, <2>8, <1>s
       DEF TypeOK, ThreadExit, ThreadGoto, Lost, Announcing, Covered, RoundComing
  <2>9. CASE Poll \/ PublishFails
    BY <2>9 DEF DroppingStep
  <2>10. CASE Gather
    BY <1>t, <2>10, <1>s
       DEF TypeOK, ControlInv, RoundInv, Gather, ThreadGoto, Lost, Announcing,
           Covered, RoundComing
  <2>11. ASSUME NEW q \in Participants, Convert(q) PROVE Lost(p)
    <3>1. CASE q = p
      <4>1. Announcing(p)' = Snapshot(p)'
        BY <2>11, <3>1, <1>s DEF Convert, ThreadGoto, Announcing
      <4> QED
        BY <4>1 DEF Lost
    <3>2. CASE q # p
      BY <2>11, <3>2, <1>s
         DEF Convert, ThreadGoto, Lost, Announcing, Covered, RoundComing
    <3> QED
      BY <3>1, <3>2
  <2>12. CASE Write
    <3>1. Announcing(p)' = Announcing(p)
      BY <1>t, <2>12 DEF TypeOK, Sample, Write, ThreadGoto, Announcing
    <3> QED
      BY <2>12, <3>1, <1>s DEF Write, ThreadGoto, Lost, Covered, RoundComing
  <2> QED
    BY <1>5, <2>1, <2>2, <2>3, <2>4, <2>5, <2>6, <2>7,
      <2>8, <2>9, <2>10, <2>11, <2>12 DEF ThreadStep
<1>6. CASE UNCHANGED vars
  BY <1>6, <1>s DEF vars, Lost, Announcing, Covered, RoundComing
<1> QED
  BY <1>1, <1>2, <1>3, <1>4, <1>5, <1>6 DEF Next

\* No change of the registry is lost between the application and the update
\* thread, except on the paths DroppingStep names, for every instance.
THEOREM UpdatesAreNotLost == Spec => NoLostUpdate
<1>1. IInv /\ [Next]_vars =>
        [\A p \in Participants : Lost(p)' => Lost(p) \/ DroppingStep]_vars
  BY LostStep
<1> QED
  BY InvariantHolds, <1>1, PTL DEF Spec, NoLostUpdate

-----------------------------------------------------------------------------
(* The update thread implements Announcement. *)

Content == [p \in Participants |-> Snapshot(p)]
InFlight == IF thread = "write" THEN {pinfo} ELSE {}

\* When initialize returns nothing is announced.
LEMMA InitRefines == Init => Announcer!Init
<1> SUFFICES ASSUME Init PROVE Announcer!Init
  OBVIOUS
<1>1. \A p \in Participants : Snapshot(p) = {}
  BY ConstantsAssumption DEF Init, Snapshot, NodesOf
<1> QED
  BY <1>1 DEF Init, Announcer!Init

\* Whatever happens to the registry, a step that neither copies nor writes a
\* sample is a change of the registry as seen from the network.
LEMMA ChangeRefines ==
  ASSUME TypeOK', InFlight' = InFlight, announced' = announced
  PROVE  Announcer!Change
<1>1. Content' \in [Participants -> SUBSET NodeInfo]
  <2>1. TypeOK' => \A p \in Participants : Snapshot(p)' \in SUBSET NodeInfo
    BY DEF TypeOK, Snapshot, NodesOf, NodeInfo
  <2> QED
    BY <2>1 DEF Content
<1> QED
  BY <1>1 DEF Announcer!Change, Content, InFlight

\* Every step changes the registry, copies one participant, announces or drops
\* its sample, or is invisible to Announcement.
LEMMA StepRefines ==
  ASSUME IInv, [Next]_vars
  PROVE  [Announcer!Next]_Announcer!vars
<1>t. TypeOK /\ TypeOK'
  BY NextType DEF IInv
<1>s. ASSUME UNCHANGED registryVars PROVE Content' = Content
  <2>1. \A p \in Participants : Snapshot(p)' = Snapshot(p)
    BY <1>s DEF registryVars, Snapshot, NodesOf
  <2> QED
    BY <2>1 DEF Content
<1>c. Announcer!Change => Announcer!Next
  BY DEF Announcer!Next
<1>1. CASE UNCHANGED threadVars
  BY <1>t, <1>c, <1>1, ChangeRefines DEF threadVars, InFlight
<1>2. CASE \E e \in Endpoints : CreateEntity(e)
  BY <1>1, <1>2 DEF CreateEntity
<1>3. CASE \E a \in Apps : TakeMutex(a) \/ FinalizeStop(a) \/ CallStep(a)
  <2>1. UNCHANGED threadVars
    BY <1>3 DEF TakeMutex, FinalizeStop, CallStep, Reject, QueueUpdate, GiveMutex,
                UnregisterNode, InspectNode, InspectNodeFails, RegisterNode,
                RegisterEndpoint, UnregisterEndpoint, InspectNewNode,
                InspectNewNodeFails, FinalizeWake, FinalizeJoin, FinalizeFree
  <2> QED
    BY <1>1, <2>1
<1>4. CASE ThreadStep
  <2>1. CASE ThreadCheck \/ ThreadTake \/ ThreadTimeout \/ ThreadWoken \/ Poll
             \/ ThreadTakeAfterPoll \/ ThreadDrain \/ Gather \/ PublishDone
             \/ ThreadExit
    <3>1. InFlight' = InFlight /\ announced' = announced
      BY <2>1 DEF ThreadCheck, ThreadTake, ThreadTimeout, ThreadWoken, Poll,
                  ThreadTakeAfterPoll, ThreadDrain, Gather, PublishDone,
                  ThreadExit, ThreadGoto, InFlight
    <3> QED
      BY <1>t, <1>c, <3>1, ChangeRefines
  <2>2. ASSUME NEW p \in Participants, Convert(p)
        PROVE  Announcer!Next
    <3>1. InFlight = {} /\ InFlight' = {[gid |-> p, nodes |-> Content[p]]}
      BY <2>2 DEF Convert, ThreadGoto, InFlight, Content
    <3>2. Content' = Content /\ announced' = announced
      BY <1>s, <2>2 DEF Convert, ThreadGoto, registryVars
    <3> QED
      BY <3>1, <3>2 DEF Announcer!Next, Announcer!Copy, Content, InFlight
  <2>3. CASE Write
    <3>1. InFlight = {pinfo} /\ InFlight' = {}
      BY <2>3 DEF Write, ThreadGoto, InFlight
    <3>2. Content' = Content
          /\ announced' = [announced EXCEPT ![pinfo.gid] = pinfo.nodes]
      BY <1>s, <2>3 DEF Write, ThreadGoto, registryVars
    <3> QED
      BY <3>1, <3>2 DEF Announcer!Next, Announcer!Announce, Content, InFlight
  <2>4. CASE PublishFails
    <3>1. InFlight' = {} /\ announced' = announced /\ Content' = Content
      BY <1>s, <2>4 DEF PublishFails, ThreadGoto, InFlight, registryVars
    <3>2. CASE InFlight = {}
      BY <1>t, <1>c, <3>1, <3>2, ChangeRefines
    <3>3. CASE InFlight # {}
      BY <3>1, <3>3 DEF Announcer!Next, Announcer!Drop, Content, InFlight
    <3> QED
      BY <3>2, <3>3
  <2> QED
    BY <1>4, <2>1, <2>2, <2>3, <2>4 DEF ThreadStep
<1>5. CASE UNCHANGED vars
  BY <1>1, <1>5 DEF vars
<1> QED
  BY <1>2, <1>3, <1>4, <1>5 DEF Next

\* For every instance, the samples on the network are atomic copies of the
\* registry, in the order the copies were taken.
THEOREM AnnouncementImplemented == Spec => ImplementsAnnouncement
<1> QED
  BY InitRefines, StepRefines, InvariantHolds, PTL
     DEF Spec, ImplementsAnnouncement, Announcer!Spec
=============================================================================
