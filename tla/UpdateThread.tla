---------------------------- MODULE UpdateThread ----------------------------
(***************************************************************************)
(* The update protocol of RTIROS2_Graph: application threads change the    *)
(* registry of local nodes and endpoints under mutex_self and give the     *)
(* counting semaphore sem_pinfo; the update thread takes it, drains it and *)
(* publishes one sample per DomainParticipant; finalize stops the thread   *)
(* through thread_pinfo_active, sem_pinfo and sem_pinfo_exit.              *)
(*                                                                         *)
(* A node is its (name, namespace); an endpoint of Endpoints stands for    *)
(* the DDS endpoints of one graph endpoint, of any type; what a            *)
(* participant's sample says is the set of its nodes with their endpoints  *)
(* (which slot of its GID sequences each takes is not modelled).           *)
(* Inspection registers what it finds; how it pairs and when that fails is *)
(* module Registry's.  A critical section of the update                    *)
(* thread neither gives nor takes a semaphore, so it is one step, enabled  *)
(* while mutex_self is free; a call of the application gives sem_pinfo     *)
(* inside its critical section and is split at every point another thread  *)
(* can observe.                                                            *)
(***************************************************************************)
EXTENDS Naturals

CONSTANTS
  Apps,          \* application threads that call the C API
  Nodes,         \* identities of local nodes
  Endpoints,     \* DDS readers and writers with a conforming topic name
  Participants,  \* DomainParticipants
  ParticipantOf, \* the participant a DDS endpoint was created on
  PollEnabled,   \* poll_period is neither zero nor infinite
  MayFail,       \* DDS operations may return an error
  MaxCalls,      \* bound: calls the applications make on the graph
  Free,          \* mutex_self is not held
  NoParticipant, \* the node is not on self->nodes
  NoNode         \* no node is being registered

ASSUME ConstantsAssumption ==
  /\ ParticipantOf \in [Endpoints -> Participants]
  /\ PollEnabled \in BOOLEAN
  /\ MayFail \in BOOLEAN
  /\ MaxCalls \in Nat
  /\ Free \notin Apps
  /\ NoParticipant \notin Participants
  /\ NoNode \notin Nodes

VARIABLES
  mutex_self,          \* the application inside a critical section, or Free
  sem_pinfo,           \* tokens of the counting semaphore
  sem_pinfo_exit,      \* the binary semaphore given by the exiting thread
  thread_pinfo_active, \* cleared by finalize
  pc,                  \* where each application thread is
  thread,              \* where the update thread is
  subject,             \* the node register_local_node is working on
  registered,          \* the participant of each node of self->nodes
  endpoints,           \* the endpoints registered on each node
  entities,            \* the DDS endpoints the application has created
  to_publish,          \* participants publish_update has yet to visit
  pinfo,               \* the sample filled by convert_to_sample
  announced,           \* what the last sample written for a participant says
  freed,               \* finalize has deleted the graph's resources
  calls                \* calls made so far

appVars == <<mutex_self, pc, subject, calls>>
semVars == <<sem_pinfo, sem_pinfo_exit, thread_pinfo_active>>
registryVars == <<registered, endpoints>>
threadVars == <<thread, to_publish, pinfo, announced>>
vars == <<appVars, semVars, registryVars, threadVars, entities, freed>>

NodeInfo == [node : Nodes, endpoints : SUBSET Endpoints]
Sample == [gid : Participants, nodes : SUBSET NodeInfo]

AppLabels == {"idle", "locked", "changed", "registering", "inspecting",
              "release", "fin_give", "fin_wait", "fin_free", "done"}
ThreadLabels == {"loop", "wait", "taken", "timed_out", "poll", "poll_take",
                 "drain", "gather", "publish", "write", "exit", "exited"}

TypeOK ==
  /\ mutex_self \in Apps \cup {Free}
  /\ sem_pinfo \in Nat
  /\ sem_pinfo_exit \in BOOLEAN
  /\ thread_pinfo_active \in BOOLEAN
  /\ pc \in [Apps -> AppLabels]
  /\ thread \in ThreadLabels
  /\ subject \in Nodes \cup {NoNode}
  /\ registered \in [Nodes -> Participants \cup {NoParticipant}]
  /\ endpoints \in [Nodes -> SUBSET Endpoints]
  /\ entities \subseteq Endpoints
  /\ to_publish \subseteq Participants
  /\ pinfo \in Sample
  /\ announced \in [Participants -> SUBSET NodeInfo]
  /\ freed \in BOOLEAN
  /\ calls \in Nat

-----------------------------------------------------------------------------
(* The registry as the other parts of the protocol see it. *)

NodesOf(p) == {n \in Nodes : registered[n] = p}
Hosted(p) == NodesOf(p) # {}

\* What convert_to_sample builds for participant p from the current registry.
Snapshot(p) == {[node |-> n, endpoints |-> endpoints[n]] : n \in NodesOf(p)}

\* The endpoints an inspection of node n comes across on its participant.
Found(n) == {e \in entities : ParticipantOf[e] = registered[n]}

\* After initialize: nothing registered, the thread about to enter its loop.
Init ==
  /\ mutex_self = Free
  /\ sem_pinfo = 0
  /\ sem_pinfo_exit = FALSE
  /\ thread_pinfo_active = TRUE
  /\ pc = [a \in Apps |-> "idle"]
  /\ thread = "loop"
  /\ subject = NoNode
  /\ registered = [n \in Nodes |-> NoParticipant]
  /\ endpoints = [n \in Nodes |-> {}]
  /\ entities = {}
  /\ to_publish = {}
  /\ pinfo \in [gid : Participants, nodes : {{}}]
  /\ announced = [p \in Participants |-> {}]
  /\ freed = FALSE
  /\ calls = 0

-----------------------------------------------------------------------------
(* Calls of the application. *)

Goto(a, label) == pc' = [pc EXCEPT ![a] = label]

\* The application creates a DDS endpoint; the graph is not told.
CreateEntity(e) ==
  /\ e \notin entities
  /\ entities' = entities \cup {e}
  /\ UNCHANGED <<appVars, semVars, registryVars, threadVars, freed>>

\* A call enters the critical section.  Nobody calls a graph that is being
\* deleted: that is the contract of RTIROS2_Graph_delete.
TakeMutex(a) ==
  /\ pc[a] = "idle"
  /\ thread_pinfo_active
  /\ mutex_self = Free
  /\ calls < MaxCalls
  /\ calls' = calls + 1
  /\ mutex_self' = a
  /\ Goto(a, "locked")
  /\ UNCHANGED <<subject, semVars, registryVars, threadVars, entities, freed>>

\* Mutant of Reject: an error path returns without giving the mutex.
RejectKeepsMutex(a) ==
  /\ pc[a] = "locked"
  /\ Goto(a, "idle")
  /\ UNCHANGED <<mutex_self, subject, calls, semVars, registryVars, threadVars,
                 entities, freed>>

\* The call is refused: unknown handle, name or DDS endpoint in use, ...
Reject(a) ==
  /\ pc[a] = "locked"
  /\ Goto(a, "release")
  /\ UNCHANGED <<mutex_self, subject, calls, semVars, registryVars, threadVars,
                 entities, freed>>

\* register_local_node puts a new node on the list, without endpoints.
RegisterNode(a, n, p) ==
  /\ pc[a] = "locked"
  /\ registered[n] = NoParticipant
  /\ registered' = [registered EXCEPT ![n] = p]
  /\ endpoints' = [endpoints EXCEPT ![n] = {}]
  /\ subject' = n
  /\ Goto(a, "registering")
  /\ UNCHANGED <<mutex_self, calls, semVars, threadVars, entities, freed>>

\* Mutant of RegisterEndpoint: the call forgets queue_update.
RegisterEndpointSilently(a, n, e) ==
  /\ pc[a] = "locked"
  /\ registered[n] # NoParticipant
  /\ e \in entities \ endpoints[n]
  /\ endpoints' = [endpoints EXCEPT ![n] = @ \cup {e}]
  /\ Goto(a, "release")
  /\ UNCHANGED <<mutex_self, subject, calls, semVars, registered, threadVars,
                 entities, freed>>

\* A register_local_* call adds an endpoint to a node.
RegisterEndpoint(a, n, e) ==
  /\ pc[a] = "locked"
  /\ registered[n] # NoParticipant
  /\ e \in entities \ endpoints[n]
  /\ endpoints' = [endpoints EXCEPT ![n] = @ \cup {e}]
  /\ Goto(a, "changed")
  /\ UNCHANGED <<mutex_self, subject, calls, semVars, registered, threadVars,
                 entities, freed>>

\* An unregister_local_* call removes an endpoint of a node.
UnregisterEndpoint(a, n, e) ==
  /\ pc[a] = "locked"
  /\ registered[n] # NoParticipant
  /\ e \in endpoints[n]
  /\ endpoints' = [endpoints EXCEPT ![n] = @ \ {e}]
  /\ Goto(a, "changed")
  /\ UNCHANGED <<mutex_self, subject, calls, semVars, registered, threadVars,
                 entities, freed>>

\* finalize_node: off the list, with every endpoint.
FinalizeNode(n) ==
  /\ registered' = [registered EXCEPT ![n] = NoParticipant]
  /\ endpoints' = [endpoints EXCEPT ![n] = {}]

\* unregister_local_node: the only change that does not queue an update.
UnregisterNode(a, n) ==
  /\ pc[a] = "locked"
  /\ registered[n] # NoParticipant
  /\ FinalizeNode(n)
  /\ Goto(a, "release")
  /\ UNCHANGED <<mutex_self, subject, calls, semVars, threadVars, entities, freed>>

\* inspect_local_node, every entity of the participant registered.
InspectNode(a, n) ==
  /\ pc[a] = "locked"
  /\ registered[n] # NoParticipant
  /\ endpoints' = [endpoints EXCEPT ![n] = @ \cup Found(n)]
  /\ Goto(a, "changed")
  /\ UNCHANGED <<mutex_self, subject, calls, semVars, registered, threadVars,
                 entities, freed>>

\* inspect_local_node gives up half way: what it registered stays, and no
\* update is queued.
InspectNodeFails(a, n) ==
  /\ MayFail
  /\ pc[a] = "locked"
  /\ registered[n] # NoParticipant
  /\ \E found \in SUBSET Found(n) :
       endpoints' = [endpoints EXCEPT ![n] = @ \cup found]
  /\ Goto(a, "release")
  /\ UNCHANGED <<mutex_self, subject, calls, semVars, registered, threadVars,
                 entities, freed>>

\* queue_update, still inside the critical section.
QueueUpdate(a) ==
  /\ \/ pc[a] = "changed" /\ Goto(a, "release")
     \/ pc[a] = "registering"
        /\ Goto(a, IF PollEnabled THEN "inspecting" ELSE "release")
  /\ sem_pinfo' = sem_pinfo + 1
  /\ UNCHANGED <<mutex_self, subject, calls, sem_pinfo_exit,
                 thread_pinfo_active, registryVars, threadVars, entities, freed>>

\* With polling, register_local_node inspects the node after queue_update.
InspectNewNode(a) ==
  /\ pc[a] = "inspecting"
  /\ endpoints' = [endpoints EXCEPT ![subject] = @ \cup Found(subject)]
  /\ Goto(a, "release")
  /\ UNCHANGED <<mutex_self, subject, calls, semVars, registered, threadVars,
                 entities, freed>>

\* That inspection fails: the node is taken back, the token stays.
InspectNewNodeFails(a) ==
  /\ MayFail
  /\ pc[a] = "inspecting"
  /\ FinalizeNode(subject)
  /\ Goto(a, "release")
  /\ UNCHANGED <<mutex_self, subject, calls, semVars, threadVars, entities, freed>>

GiveMutex(a) ==
  /\ pc[a] = "release"
  /\ mutex_self' = Free
  /\ subject' = NoNode
  /\ Goto(a, "idle")
  /\ UNCHANGED <<calls, semVars, registryVars, threadVars, entities, freed>>

-----------------------------------------------------------------------------
(* RTIROS2_Graph_finalize, called when no other call is in progress. *)

FinalizeStop(a) ==
  /\ \A b \in Apps : pc[b] = "idle"
  /\ thread_pinfo_active
  /\ thread_pinfo_active' = FALSE
  /\ Goto(a, "fin_give")
  /\ UNCHANGED <<mutex_self, subject, calls, sem_pinfo, sem_pinfo_exit,
                 registryVars, threadVars, entities, freed>>

\* Mutant of FinalizeWake: finalize does not wake the thread.
FinalizeDoesNotWake(a) ==
  /\ pc[a] = "fin_give"
  /\ Goto(a, "fin_wait")
  /\ UNCHANGED <<mutex_self, subject, calls, semVars, registryVars, threadVars,
                 entities, freed>>

FinalizeWake(a) ==
  /\ pc[a] = "fin_give"
  /\ sem_pinfo' = sem_pinfo + 1
  /\ Goto(a, "fin_wait")
  /\ UNCHANGED <<mutex_self, subject, calls, sem_pinfo_exit,
                 thread_pinfo_active, registryVars, threadVars, entities, freed>>

\* Mutant of FinalizeJoin: finalize does not wait for the thread.
FinalizeDoesNotJoin(a) ==
  /\ pc[a] = "fin_wait"
  /\ Goto(a, "fin_free")
  /\ UNCHANGED <<mutex_self, subject, calls, semVars, registryVars, threadVars,
                 entities, freed>>

FinalizeJoin(a) ==
  /\ pc[a] = "fin_wait"
  /\ sem_pinfo_exit
  /\ sem_pinfo_exit' = FALSE
  /\ Goto(a, "fin_free")
  /\ UNCHANGED <<mutex_self, subject, calls, sem_pinfo, thread_pinfo_active,
                 registryVars, threadVars, entities, freed>>

\* Nodes, semaphores, sample, writer, topic and pools are deleted.
FinalizeFree(a) ==
  /\ pc[a] = "fin_free"
  /\ registered' = [n \in Nodes |-> NoParticipant]
  /\ endpoints' = [n \in Nodes |-> {}]
  /\ freed' = TRUE
  /\ Goto(a, "done")
  /\ UNCHANGED <<mutex_self, subject, calls, semVars, threadVars, entities>>

-----------------------------------------------------------------------------
(* RTIROS2_Graph_update_thread and RTIROS2_Graph_publish_update. *)

ThreadGoto(label) ==
  /\ thread' = label
  /\ UNCHANGED <<appVars, registryVars, entities, freed>>

ThreadCheck ==
  /\ thread = "loop"
  /\ ThreadGoto(IF thread_pinfo_active THEN "wait" ELSE "exit")
  /\ UNCHANGED <<semVars, to_publish, pinfo, announced>>

ThreadTake ==
  /\ thread = "wait"
  /\ sem_pinfo > 0
  /\ sem_pinfo' = sem_pinfo - 1
  /\ ThreadGoto("taken")
  /\ UNCHANGED <<sem_pinfo_exit, thread_pinfo_active, to_publish, pinfo, announced>>

ThreadTimeout ==
  /\ PollEnabled
  /\ thread = "wait"
  /\ sem_pinfo = 0
  /\ ThreadGoto("timed_out")
  /\ UNCHANGED <<semVars, to_publish, pinfo, announced>>

\* The flag is read again after the wait, whatever ended it; it may be cleared
\* between this read and what follows.
ThreadWoken ==
  /\ thread \in {"taken", "timed_out"}
  /\ ThreadGoto(IF ~thread_pinfo_active THEN "loop"
                ELSE IF thread = "taken" THEN "drain" ELSE "poll")
  /\ UNCHANGED <<semVars, to_publish, pinfo, announced>>

\* A poll inspects every node under one lock; a node whose inspection fails
\* keeps what was found so far and the loop goes on.  No update is queued.
Poll ==
  /\ thread = "poll"
  /\ mutex_self = Free
  /\ \E found \in [Nodes -> SUBSET entities] :
       /\ \A n \in Nodes : IF MayFail THEN found[n] \subseteq Found(n)
                                      ELSE found[n] = Found(n)
       /\ endpoints' = [n \in Nodes |-> endpoints[n] \cup found[n]]
  /\ thread' = "poll_take"
  /\ UNCHANGED <<appVars, semVars, registered, to_publish, pinfo, announced,
                 entities, freed>>

ThreadTakeAfterPoll ==
  /\ thread = "poll_take"
  /\ IF sem_pinfo > 0 THEN sem_pinfo' = sem_pinfo - 1 /\ ThreadGoto("drain")
                      ELSE sem_pinfo' = sem_pinfo /\ ThreadGoto("loop")
  /\ UNCHANGED <<sem_pinfo_exit, thread_pinfo_active, to_publish, pinfo, announced>>

\* One round of the loop that consumes the other tokens.
ThreadDrain ==
  /\ thread = "drain"
  /\ IF sem_pinfo > 0 THEN sem_pinfo' = sem_pinfo - 1 /\ ThreadGoto("drain")
                      ELSE sem_pinfo' = sem_pinfo /\ ThreadGoto("gather")
  /\ UNCHANGED <<sem_pinfo_exit, thread_pinfo_active, to_publish, pinfo, announced>>

\* gather_domain_participants, under the mutex.
Gather ==
  /\ thread = "gather"
  /\ mutex_self = Free
  /\ to_publish' = {p \in Participants : Hosted(p)}
  /\ ThreadGoto("publish")
  /\ UNCHANGED <<semVars, pinfo, announced>>

\* Mutant of Convert: nodes of other participants are not skipped.
ConvertEveryNode(p) ==
  /\ thread = "publish"
  /\ p \in to_publish
  /\ mutex_self = Free
  /\ to_publish' = to_publish \ {p}
  /\ pinfo' = [gid |-> p, nodes |-> UNION {Snapshot(q) : q \in Participants}]
  /\ ThreadGoto("write")
  /\ UNCHANGED <<semVars, announced>>

\* convert_to_sample, under the mutex, for the next gathered participant.
Convert(p) ==
  /\ thread = "publish"
  /\ p \in to_publish
  /\ mutex_self = Free
  /\ to_publish' = to_publish \ {p}
  /\ pinfo' = [gid |-> p, nodes |-> Snapshot(p)]
  /\ ThreadGoto("write")
  /\ UNCHANGED <<semVars, announced>>

\* publish_sample, outside the mutex.
Write ==
  /\ thread = "write"
  /\ announced' = [announced EXCEPT ![pinfo.gid] = pinfo.nodes]
  /\ ThreadGoto("publish")
  /\ UNCHANGED <<semVars, to_publish, pinfo>>

\* An error of gather, convert or write abandons the rest of the round.
PublishFails ==
  /\ MayFail
  /\ \/ thread \in {"gather", "publish"} /\ mutex_self = Free
     \/ thread = "write"
  /\ thread = "publish" => to_publish # {}
  /\ to_publish' = {}
  /\ ThreadGoto("loop")
  /\ UNCHANGED <<semVars, pinfo, announced>>

\* Mutant of PublishDone: tokens are consumed after publishing, not before.
DrainAfterPublishing ==
  /\ thread = "publish"
  /\ to_publish = {}
  /\ sem_pinfo' = 0
  /\ ThreadGoto("loop")
  /\ UNCHANGED <<sem_pinfo_exit, thread_pinfo_active, to_publish, pinfo, announced>>

\* Mutant of PublishDone: the next round begins without a look at the flag.
PublishDoneUntested ==
  /\ thread = "publish"
  /\ to_publish = {}
  /\ ThreadGoto("wait")
  /\ UNCHANGED <<semVars, to_publish, pinfo, announced>>

PublishDone ==
  /\ thread = "publish"
  /\ to_publish = {}
  /\ ThreadGoto("loop")
  /\ UNCHANGED <<semVars, to_publish, pinfo, announced>>

ThreadExit ==
  /\ thread = "exit"
  /\ sem_pinfo_exit' = TRUE
  /\ ThreadGoto("exited")
  /\ UNCHANGED <<sem_pinfo, thread_pinfo_active, to_publish, pinfo, announced>>

-----------------------------------------------------------------------------
\* The rest of a call once it has the mutex or has begun to finalize.
CallStep(a) ==
  \/ Reject(a) \/ QueueUpdate(a) \/ GiveMutex(a)
  \/ \E n \in Nodes :
       \/ UnregisterNode(a, n) \/ InspectNode(a, n) \/ InspectNodeFails(a, n)
       \/ \E p \in Participants : RegisterNode(a, n, p)
       \/ \E e \in Endpoints : RegisterEndpoint(a, n, e) \/ UnregisterEndpoint(a, n, e)
  \/ InspectNewNode(a) \/ InspectNewNodeFails(a)
  \/ FinalizeWake(a) \/ FinalizeJoin(a) \/ FinalizeFree(a)

ThreadStep ==
  \/ ThreadCheck \/ ThreadTake \/ ThreadTimeout \/ ThreadWoken \/ Poll
  \/ ThreadTakeAfterPoll \/ ThreadDrain \/ Gather
  \/ \E p \in Participants : Convert(p)
  \/ Write \/ PublishFails \/ PublishDone \/ ThreadExit

Next ==
  \/ \E e \in Endpoints : CreateEntity(e)
  \/ \E a \in Apps : TakeMutex(a) \/ FinalizeStop(a) \/ CallStep(a)
  \/ ThreadStep

Spec == Init /\ [][Next]_vars

\* Calls run to their end and the operating system runs the update thread.
\* Nothing makes the application call, create endpoints or delete the graph.
Fairness == WF_vars(ThreadStep) /\ \A a \in Apps : WF_vars(CallStep(a))
FairSpec == Spec /\ Fairness

-----------------------------------------------------------------------------
(* Properties. *)

\* What the last sample for p says once the write in progress is done.
Announcing(p) == IF thread = "write" /\ pinfo.gid = p THEN pinfo.nodes
                                                      ELSE announced[p]

\* The round of publication that is coming reads the registry afresh.
RoundComing ==
  \/ sem_pinfo > 0
  \/ thread \in {"taken", "drain", "gather"}
  \/ \E a \in Apps : pc[a] \in {"changed", "registering"}

Covered(p) ==
  \/ Hosted(p) /\ RoundComing
  \/ p \in to_publish

Lost(p) ==
  /\ thread_pinfo_active
  /\ Announcing(p) # Snapshot(p)
  /\ ~Covered(p)

\* The paths of the code that drop an update: a node unregistered, an
\* inspection that fails half way, a poll, an error of the publication.
DroppingStep ==
  \/ \E a \in Apps, n \in Nodes : UnregisterNode(a, n) \/ InspectNodeFails(a, n)
  \/ \E a \in Apps : InspectNewNodeFails(a)
  \/ Poll
  \/ PublishFails

\* No lost update: while the graph is alive, what the graph has announced for a
\* participant differs from the registry only if a round of publication that
\* will read the registry is still to come, unless one of the paths of
\* DroppingStep was taken.  The token that queue_update gives before the
\* registration's mutex is released, and the drain before gather, must never
\* swallow a change.
NoLostUpdate ==
  [][\A p \in Participants : Lost(p)' => Lost(p) \/ DroppingStep]_vars

\* Nothing is used after finalize has freed it: by then the update thread has
\* left its loop and no call is in a critical section.
NoUseAfterFree ==
  freed => /\ thread = "exited"
           /\ mutex_self = Free
           /\ \A a \in Apps : pc[a] \in {"idle", "done"}

\* finalize and the update thread never wait for each other: while finalize
\* waits on sem_pinfo_exit, the thread is not asleep on sem_pinfo without a
\* token, although its drain loop may have eaten the one that finalize gave, and
\* it has not left its loop without giving sem_pinfo_exit.
FinalizeHeard ==
  \A a \in Apps : pc[a] = "fin_wait" =>
    /\ thread = "wait" => sem_pinfo > 0
    /\ thread = "exited" => sem_pinfo_exit

\* The announcements converge: if from some point on the graph is alive and p
\* has no lost update, then from some point on the last sample for p is what
\* the registry says.
Converges ==
  \A p \in Participants :
    <>[](thread_pinfo_active /\ ~Lost(p)) => <>[](announced[p] = Snapshot(p))

\* finalize returns: the thread cannot sleep through the token of finalize,
\* even when its drain loop eats it.
FinalizeReturns == ~thread_pinfo_active ~> freed

\* Each sample written is what the registry said of one participant at one
\* instant, and samples never go back in time: this module implements
\* Announcement.  Nodes are read under the mutex, pinfo is written outside it.
Announcer == INSTANCE Announcement
  WITH Contents  <- SUBSET NodeInfo,
       Nothing   <- {},
       content   <- [p \in Participants |-> Snapshot(p)],
       inFlight  <- IF thread = "write" THEN {pinfo} ELSE {},
       announced <- announced

ImplementsAnnouncement == Announcer!Spec

\* An endpoint on a registered node is announced, or unregistered first.
IsAnnounced(n, e) ==
  \E p \in Participants : \E info \in announced[p] :
    info.node = n /\ e \in info.endpoints

EveryEndpointAnnounced ==
  \A n \in Nodes, e \in Endpoints :
    e \in endpoints[n] ~> (e \notin endpoints[n] \/ IsAnnounced(n, e))
=============================================================================
