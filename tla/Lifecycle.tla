----------------------------- MODULE Lifecycle -----------------------------
(***************************************************************************)
(* The life of the graphs of one DomainParticipant: RTIROS2_Graph_new and  *)
(* _delete with initialize and finalize, one resource at a time, each of   *)
(* which may be refused, and the constructor and destructor of the C++     *)
(* Graph around them.  Several threads may create and delete graphs; what  *)
(* the graphs share is the participant's topic, which DDS counts: every    *)
(* find_topic or create_topic needs a delete_topic.                        *)
(*                                                                         *)
(* The entities that the C++ Graph makes for itself are held by reference  *)
(* in C++ and passed to the C graph, which treats them as the              *)
(* application's.  What the update thread does is in module UpdateThread;  *)
(* here it runs until it is told to stop.                                  *)
(***************************************************************************)
EXTENDS Naturals, Sequences, FiniteSets

CONSTANTS
  Graphs,      \* RTIROS2_Graph structures
  AppRefs,     \* how often the application itself holds the topic
  MayFail      \* DDS operations and allocations may fail

ASSUME LifecycleAssumption ==
  /\ IsFiniteSet(Graphs)
  /\ AppRefs \in Nat
  /\ MayFail \in BOOLEAN

VARIABLES
  phase,       \* what is being done to a graph
  at,          \* the step of initialize or finalize that is next
  passed,      \* the entities the application passes in the properties
  field,       \* the fields of the structure, with the _own flags
  live,        \* what was created for a graph and has not been released
  running,     \* the update thread is in its loop or on its way out
  stopping,    \* thread_pinfo_active was cleared and sem_pinfo given
  topic_refs,  \* how often the participant's topic was found or created
  lost,        \* entities of the application that a graph has deleted
  refused      \* DDS has refused to delete an entity of the graph

vars == <<phase, at, passed, field, live, running, stopping, topic_refs, lost, refused>>

-----------------------------------------------------------------------------
DdsEntities == {"graph_publisher", "graph_topic", "graph_writer"}

\* The steps of RTIROS2_Graph_initialize; the topic is looked for, then created.
Setup ==
  <<"nodes_pool", "endpoints_pool", "graph_publisher", "find_topic", "graph_topic",
    "graph_writer", "pinfo", "mutex_self", "sem_pinfo", "sem_pinfo_exit",
    "thread_pinfo">>

\* Mutant of Teardown: the publisher goes before its writer.
TeardownPublisherFirst ==
  <<"stop", "thread_pinfo", "mutex_self", "sem_pinfo", "sem_pinfo_exit", "pinfo",
    "graph_publisher", "graph_writer", "graph_topic", "nodes_pool", "endpoints_pool">>

\* Mutant of Teardown: the writer goes before the thread is stopped.
TeardownWriterFirst ==
  <<"graph_writer", "stop", "thread_pinfo", "mutex_self", "sem_pinfo",
    "sem_pinfo_exit", "pinfo", "graph_topic", "graph_publisher", "nodes_pool",
    "endpoints_pool">>

\* Mutant of Teardown: the topic is deleted again with the publisher.
TeardownTopicTwice ==
  <<"stop", "thread_pinfo", "mutex_self", "sem_pinfo", "sem_pinfo_exit", "pinfo",
    "graph_writer", "graph_topic", "graph_publisher", "graph_topic", "nodes_pool">>

\* The steps of RTIROS2_Graph_finalize; the nodes go between the thread and the
\* mutex.
Teardown ==
  <<"stop", "thread_pinfo", "mutex_self", "sem_pinfo", "sem_pinfo_exit", "pinfo",
    "graph_writer", "graph_topic", "graph_publisher", "nodes_pool", "endpoints_pool">>

Resources == {Setup[i] : i \in DOMAIN Setup} \ {"find_topic"}

\* RTIROS2_Graph_INITIALIZER.
Cleared == [r \in Resources |-> "null"]

Init ==
  /\ phase = [g \in Graphs |-> "absent"]
  /\ at = [g \in Graphs |-> 1]
  /\ passed = [g \in Graphs |-> {}]
  /\ field = [g \in Graphs |-> Cleared]
  /\ live = [g \in Graphs |-> {}]
  /\ running = [g \in Graphs |-> FALSE]
  /\ stopping = [g \in Graphs |-> FALSE]
  /\ topic_refs = AppRefs
  /\ lost = [g \in Graphs |-> {}]
  /\ refused = [g \in Graphs |-> FALSE]

-----------------------------------------------------------------------------
(* RTIROS2_Graph_new. *)

Goto(g, p) == phase' = [phase EXCEPT ![g] = p] /\ at' = [at EXCEPT ![g] = 1]
Proceed(g, i) == at' = [at EXCEPT ![g] = i] /\ UNCHANGED phase

\* The structure is allocated, for an application that has some entities.
Allocate(g, p, entities, resources) ==
  /\ phase[g] \in {"absent", "failed", "deleted"}
  /\ live[g] = {}   \* what an earlier graph left is kept apart
  /\ Goto(g, p)
  /\ passed' = [passed EXCEPT ![g] = entities]
  /\ field' = [field EXCEPT ![g] = Cleared]
  /\ live' = [live EXCEPT ![g] = resources]
  /\ running' = [running EXCEPT ![g] = FALSE]
  /\ stopping' = [stopping EXCEPT ![g] = FALSE]
  /\ refused' = [refused EXCEPT ![g] = FALSE]
  /\ UNCHANGED <<topic_refs, lost>>

New(g, entities) ==
  Allocate(g, "initialize", entities \cup {"graph_participant"}, {})

\* The C++ constructor has allocated a C sample, and passes all of its entities.
NewCpp(g) ==
  Allocate(g, "initialize", DdsEntities \cup {"graph_participant"}, {"c_pinfo"})

\* No participant in the properties: initialize leaves the structure as it was
\* allocated, which is zeroed, and has finalize run over it.  The C++ Graph has
\* thrown before.
NewWithoutParticipant(g) == Allocate(g, "failing", {}, {})

At(g, r) == phase[g] = "initialize" /\ at[g] <= Len(Setup) /\ Setup[at[g]] = r

TakePassed(g, r) ==
  /\ At(g, r)
  /\ r \in passed[g]
  /\ field' = [field EXCEPT ![g][r] = "passed"]
  /\ Proceed(g, at[g] + 1)
  /\ UNCHANGED <<passed, live, running, stopping, topic_refs, lost, refused>>

\* A topic that is found counts as the graph's own.
FindTopic(g) ==
  /\ At(g, "find_topic")
  /\ IF "graph_topic" \notin passed[g] /\ topic_refs > 0
     THEN /\ topic_refs' = topic_refs + 1
          /\ field' = [field EXCEPT ![g]["graph_topic"] = "own"]
          /\ live' = [live EXCEPT ![g] = @ \cup {"graph_topic"}]
          /\ Proceed(g, at[g] + 2)
     ELSE Proceed(g, at[g] + 1) /\ UNCHANGED <<topic_refs, field, live>>
  /\ UNCHANGED <<passed, running, stopping, lost, refused>>

RegisterTypeFails(g) ==
  /\ MayFail
  /\ At(g, "find_topic")
  /\ "graph_topic" \notin passed[g]
  /\ Goto(g, "failing")
  /\ UNCHANGED <<passed, field, live, running, stopping, topic_refs, lost, refused>>

\* DDS does not create a second topic of the same name.
Exists(r) == r = "graph_topic" /\ topic_refs > 0

\* One resource is created.  The thread starts with its creation.
Create(g, r) ==
  /\ At(g, r)
  /\ r \notin passed[g]
  /\ ~Exists(r)
  /\ field' = [field EXCEPT ![g][r] = "own"]
  /\ live' = [live EXCEPT ![g] = @ \cup {r}]
  /\ topic_refs' = IF r = "graph_topic" THEN topic_refs + 1 ELSE topic_refs
  /\ running' = [running EXCEPT ![g] = (r = "thread_pinfo")]
  /\ Proceed(g, at[g] + 1)
  /\ UNCHANGED <<passed, stopping, lost, refused>>

\* It is not created, or its QoS cannot be had: initialize runs finalize.  That
\* there is no thread is not noticed.
CreateFails(g, r) ==
  /\ At(g, r)
  /\ r \notin passed[g]
  /\ MayFail \/ Exists(r)
  /\ IF r = "thread_pinfo" THEN Proceed(g, at[g] + 1) ELSE Goto(g, "failing")
  /\ UNCHANGED <<passed, field, live, running, stopping, topic_refs, lost, refused>>

InitializeDone(g) ==
  /\ phase[g] = "initialize"
  /\ at[g] > Len(Setup)
  /\ Goto(g, "up")
  /\ UNCHANGED <<passed, field, live, running, stopping, topic_refs, lost, refused>>

-----------------------------------------------------------------------------
(* RTIROS2_Graph_delete, and finalize when initialize has failed. *)

\* The thread's first round allocates the buffer of self->participants.
Gather(g) ==
  /\ running[g]
  /\ phase[g] = "up"
  /\ "participants" \notin live[g]
  /\ live' = [live EXCEPT ![g] = @ \cup {"participants"}]
  /\ UNCHANGED <<phase, at, passed, field, running, stopping, topic_refs, lost, refused>>

Delete(g) ==
  /\ phase[g] = "up"
  /\ Goto(g, "deleting")
  /\ UNCHANGED <<passed, field, live, running, stopping, topic_refs, lost, refused>>

Finalizing(g) == phase[g] \in {"failing", "deleting"}
AtTeardown(g, r) ==
  Finalizing(g) /\ at[g] <= Len(Teardown) /\ Teardown[at[g]] = r

\* Mutant of Stop: the exit is awaited although there is no thread.
StopAlways(g) ==
  /\ AtTeardown(g, "stop")
  /\ stopping' = [stopping EXCEPT ![g] = TRUE]
  /\ Proceed(g, at[g] + 1)
  /\ UNCHANGED <<passed, field, live, running, topic_refs, lost, refused>>

Stop(g) ==
  /\ AtTeardown(g, "stop")
  /\ stopping' = [stopping EXCEPT ![g] = (field[g]["thread_pinfo"] # "null")]
  /\ Proceed(g, at[g] + 1)
  /\ UNCHANGED <<passed, field, live, running, topic_refs, lost, refused>>

\* The thread leaves its loop and gives sem_pinfo_exit.
ThreadExit(g) ==
  /\ running[g]
  /\ stopping[g]
  /\ running' = [running EXCEPT ![g] = FALSE]
  /\ UNCHANGED <<phase, at, passed, field, live, stopping, topic_refs, lost, refused>>

\* finalize, once it has told the thread to stop, waits for sem_pinfo_exit.
Joined(g, r) ==
  r = "thread_pinfo" /\ stopping[g] =>
    field[g]["thread_pinfo"] # "null" /\ ~running[g]

\* Mutant of Deletes: an entity that was passed is deleted too.
DeletesPassed(g, r) == field[g][r] # "null"

\* finalize deletes what a field owns.
Deletes(g, r) == field[g][r] = "own"

Skip(g, r) ==
  /\ AtTeardown(g, r)
  /\ Joined(g, r)
  /\ ~Deletes(g, r)
  /\ Proceed(g, at[g] + 1)
  /\ UNCHANGED <<passed, field, live, running, stopping, topic_refs, lost, refused>>

\* DDS does not delete a publisher with a writer, nor the topic of a writer.
InUse(g, r) ==
  /\ "graph_writer" \in live[g]
  /\ r = "graph_publisher" \/ (r = "graph_topic" /\ topic_refs = 1)

Release(g, r) ==
  /\ AtTeardown(g, r)
  /\ Joined(g, r)
  /\ Deletes(g, r)
  /\ ~InUse(g, r)
  /\ live' = [live EXCEPT ![g] = @ \ {r}]
  /\ lost' = [lost EXCEPT ![g] = @ \cup ({r} \cap passed[g])]
  /\ topic_refs' = IF r = "graph_topic" THEN topic_refs - 1 ELSE topic_refs
  /\ Proceed(g, at[g] + 1)
  /\ UNCHANGED <<passed, field, running, stopping, refused>>

\* Mutant of Return: the C sample of the C++ Graph is not deleted.
ReturnWithoutSample(g) ==
  /\ Goto(g, IF phase[g] = "failing" THEN "failed" ELSE "deleted")
  /\ UNCHANGED <<passed, field, live, running, stopping, topic_refs, lost>>

\* The caller frees the structure whatever finalize returned; the destructor of
\* the C++ Graph then deletes the C sample, but no destructor runs for a
\* constructor that throws.
Return(g) ==
  /\ Goto(g, IF phase[g] = "failing" THEN "failed" ELSE "deleted")
  /\ live' = [live EXCEPT ![g] = IF phase[g] = "failing" THEN @ ELSE @ \ {"c_pinfo"}]
  /\ UNCHANGED <<passed, field, running, stopping, topic_refs, lost>>

\* DDS does not delete the entity: finalize returns, with all that follows left.
ReleaseFails(g, r) ==
  /\ AtTeardown(g, r)
  /\ r \in DdsEntities
  /\ Deletes(g, r)
  /\ MayFail \/ InUse(g, r)
  /\ refused' = [refused EXCEPT ![g] = TRUE]
  /\ Return(g)

FinalizeDone(g) ==
  /\ Finalizing(g)
  /\ at[g] > Len(Teardown)
  /\ Return(g)
  /\ UNCHANGED refused

-----------------------------------------------------------------------------
InitializeStep(g) ==
  \/ \E r \in Resources : TakePassed(g, r) \/ Create(g, r) \/ CreateFails(g, r)
  \/ FindTopic(g) \/ RegisterTypeFails(g) \/ InitializeDone(g)

FinalizeStep(g) ==
  \/ \E r \in Resources : Skip(g, r) \/ Release(g, r) \/ ReleaseFails(g, r)
  \/ Stop(g) \/ FinalizeDone(g)

\* The application's threads create and delete graphs as they like.
Application(g) ==
  \/ \E entities \in SUBSET DdsEntities : New(g, entities)
  \/ NewCpp(g)
  \/ NewWithoutParticipant(g)
  \/ Delete(g)

Next ==
  \E g \in Graphs :
    Application(g) \/ InitializeStep(g) \/ FinalizeStep(g) \/ Gather(g) \/ ThreadExit(g)

Spec == Init /\ [][Next]_vars

-----------------------------------------------------------------------------
(* Properties. *)

Phases == {"absent", "initialize", "up", "failing", "deleting", "failed", "deleted"}

TypeOK ==
  /\ phase \in [Graphs -> Phases]
  /\ at \in [Graphs -> 1 .. Len(Setup) + 1]
  /\ passed \in [Graphs -> SUBSET (DdsEntities \cup {"graph_participant"})]
  /\ field \in [Graphs -> [Resources -> {"null", "passed", "own"}]]
  /\ live \in [Graphs -> SUBSET (Resources \cup {"c_pinfo", "participants"})]
  /\ running \in [Graphs -> BOOLEAN]
  /\ stopping \in [Graphs -> BOOLEAN]
  /\ topic_refs \in Nat
  /\ lost \in [Graphs -> SUBSET DdsEntities]
  /\ refused \in [Graphs -> BOOLEAN]

\* A running update thread has all it works with, from the first instruction of
\* RTIOsapiThread_new to the exit that finalize waits for: the pools, the
\* semaphores, the sample, and a writer with its publisher and topic, created or
\* passed.
ThreadHasAll ==
  \A g \in Graphs : running[g] =>
    \A r \in Resources : r \in live[g] \cup passed[g]

\* The references on the participant's topic are those of the application and
\* one for each graph that found or created it: no graph, whenever it fails or
\* is deleted, drops the reference of another or leaves its own.
TopicRefsMatch ==
  topic_refs = AppRefs + Cardinality({g \in Graphs : "graph_topic" \in live[g]})

\* An entity that the application passed is never deleted by the graph.
PassedEntitiesStay == \A g \in Graphs : lost[g] = {}

\* When new has failed or delete has returned, and DDS refused no delete on the
\* way, all that was created is released; what stays is the buffer of
\* self->participants, which nothing finalizes, and the C sample of a C++
\* constructor that throws.
NothingLeft ==
  \A g \in Graphs : ~refused[g] =>
    /\ phase[g] = "failed" => live[g] \subseteq {"c_pinfo"}
    /\ phase[g] = "deleted" => live[g] \subseteq {"participants"}

\* finalize deletes in an order that DDS accepts: the entity whose turn it is
\* has no user left among the graph's own, also for graphs that share the topic
\* and for those that initialize left unfinished.
DeletesAccepted ==
  \A g \in Graphs : \A r \in DdsEntities :
    AtTeardown(g, r) /\ Deletes(g, r) => ~InUse(g, r)

\* finalize waits for sem_pinfo_exit only of a thread that will give it: new and
\* delete return also when the thread could not be created, or initialize never
\* came to it.
ExitComes ==
  \A g \in Graphs :
    AtTeardown(g, "thread_pinfo") /\ ~Joined(g, "thread_pinfo") =>
      running[g] /\ stopping[g]
=============================================================================
