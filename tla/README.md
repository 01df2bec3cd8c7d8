# Verification of rticonnextdds-ros2-adapter

`RTIROS2_Graph` lets a Connext DDS application show itself to ROS 2: the application
registers its DomainParticipants as ROS 2 nodes and its DataReaders and DataWriters as
subscriptions, publishers, clients and services, and a thread of the library announces
them in samples of `ros_discovery_info`. This directory models that library, its C and its
C++ API, in TLA+, checks it with TLC and proves its main properties with TLAPS.

File names below are those of `src/src/adapter_c/` unless a directory is given.

## 1. Inventory

| Component | State | Operations | Model |
|---|---|---|---|
| Update protocol (`graph_impl.c` 976-1135, 220-312) | `mutex_self`, `sem_pinfo` (counting), `sem_pinfo_exit` (binary), `thread_pinfo_active`, `participants`, `pinfo` | `queue_update`, `update_thread`, `publish_update`, `gather_domain_participants`, `finalize` | `UpdateThread`, `Announcement` |
| Polling and its period (`graph_impl.c` 1078-1124, `adapter_cpp/graph.cpp` 549-562) | the wait in progress | time-outs, wake-ups | `PollTimer` |
| Registry (`graph.c` 221-640, `graph_impl.c` 363-829) | `nodes`, each with `endpoints`, `readers_len`, `writers_len`, `endp_handle_next`; `node_handle_next` | `register_local_node`, `unregister_local_node`, `register_local_{subscription,publisher,client,service}`, `unregister_local_*`, `*_by_handle` | `Registry` |
| Inspection (`graph_impl.c` 1137-1397) | the registry; local sequences of entities | `inspect_local_nodeEA`, called by `register_local_node`, `inspect_local_node` and the poll | `Registry` |
| Getters and the C++ `Graph` (`graph.c` 642-819, `adapter_cpp/graph.cpp` 578-866) | what the application holds: handles, DDS entities | getters, lookups by handle, the C++ calls | `GraphHandles` |
| Sample conversion (`graph_impl.c` 830-1045, `adapter_cpp/graph.cpp` 90-187) | the sample `pinfo`, reused between participants and rounds | `node_to_sample`, `convert_to_sample`, `publish_sample`, `ih_to_gid` | `GraphSample` |
| Initialization, ownership (`graph_impl.c` 23-312, `graph.c` 142-179, the C++ constructor and destructor) | what was created, found or passed in, `*_own` flags | `initialize`, `finalize`, `new`, `delete` | `Lifecycle` |
| Writer and reader QoS (`graph.c` 37-133, `graph_impl.c` 314-360) | the history of the writer | `customize_datawriter_qos`, `get_graph_writer_qos`, `customize_datareader_qos` | `History` |
| Topic and type names (`graph.c` 891-1215, `adapter_cpp/graph.cpp` 270-490) | buffers and lengths of a call | `compute_*_topic_names`, `make_dds_topic_and_type_names`; `detect_endpoint_type` | `TopicNames`, the latter also in `Registry` |
| DDS, OS abstraction, IDL, examples, tests | external, data or clients | - | modelled by how the code uses them, or read only |

How they interact. Every call of the C API takes `mutex_self`, changes the registry, gives
`sem_pinfo` while still holding the mutex, and gives the mutex. The update thread waits on
`sem_pinfo`, with a timeout when `poll_period` asks for polling. On a token it takes the
other tokens too, then takes the mutex to gather the participants of the nodes, and for
each of them takes it again to fill `pinfo`, and writes `pinfo` without it. On a timeout
it inspects every node under the mutex. `finalize` clears `thread_pinfo_active`, gives
`sem_pinfo`, waits for `sem_pinfo_exit`, and deletes everything; its caller must not use
the graph from another thread. Graphs of one participant share its topic, of which DDS
counts the references.

What is hard, and what makes each part correct:

- *Update protocol.* Tokens are drained in bulk, the registry is read in several critical
  sections, samples are written outside them, errors abandon a round, and the token of
  `finalize` may be swallowed by the drain. Correct: no change of the registry goes
  unannounced unless the code says so; a sample is what the registry said at one instant;
  samples do not go back in time; `finalize` returns and frees nothing in use.
- *Polling.* Updates postpone it, and a poll whose inspection fails is ignored. Correct:
  with calls slow enough, an endpoint that nobody registers is found in a time bounded by
  the polls that fail before it.
- *Registry.* Handles overflow; names have two spellings of one namespace; failures
  consume handles and take nodes back; endpoints are found by a partial match. Correct:
  handles and names are unique, a stale handle is not soon another node's, DDS endpoints
  have the right type and counters count.
- *Inspection.* It runs over what was registered by hand, over what an earlier failed
  inspection left, and while the application creates more; it pairs the reader and the
  writer of a service or client by topic name. Correct: what it ends with is complete.
- *Getters.* Handles outlive what they name and wrap around. Correct: a handle is answered
  with what it was granted for, or with nothing.
- *Sample conversion.* The sequences of `pinfo` are sized by counters, filled by counting
  again, keep what lies beyond their length, and a conversion may stop in the middle.
  Correct: a sample shows what the registry says and nothing older.
- *Ownership.* Any step of `initialize` may fail, any delete may be refused; the topic is
  shared. Correct: everything created is released once and in an order that DDS accepts,
  nothing passed in is deleted, the thread never runs without what it uses.
- *History.* One keyless writer serves all participants. Correct: the samples of some do
  not push out those of others, which a late joiner still needs.
- *Names.* Lengths are computed apart from what is copied; four buffers are allocated one
  after the other. Correct: what is written fits, and nothing leaks.

`PROJECT.json` lists each hazard at its line with the properties aimed at it.

## 2. Modules

| Module | What it is |
|---|---|
| `UpdateThread` | The update protocol: any number of application threads, the update thread, `finalize`. |
| `Announcement` | The abstract specification: samples are instants of the registry, in order. Implemented by `UpdateThread` (`content` is what `convert_to_sample` would say now, `inFlight` the sample being written) and, at the level of GID slots, by `GraphSample`. |
| `PollTimer` | The loop of the update thread with time. |
| `Registry` | Nodes, endpoints, handles, counters and inspections, sequentially under the mutex. |
| `GraphHandles` | `Registry` composed with an application that keeps to the contract, as the C++ `Graph` is used: what it was granted, the getters, deletion of DDS endpoints. |
| `GraphSample` | `GraphHandles` composed with `publish_update`: the reused sample, its slots and lengths. |
| `Lifecycle` | `new`, `initialize`, `finalize`, `delete` of any number of graphs on one participant, and the C++ constructor and destructor. |
| `History` | The writer's history and broken rounds. |
| `TopicNames` | The naming helpers of C and C++. |
| `*_proofs` | The theorems and their proofs, one module for each of `UpdateThread`, `Registry`, `PollTimer`, `GraphSample`, `History`, `Lifecycle`, `TopicNames`; `SampleContent_proofs` continues `GraphSample_proofs` with what the samples contain. |
| `MC*` | The constants of the TLC runs. |

### UpdateThread

Actions follow the lock. A critical section of the *update thread* never touches a
semaphore inside it, so it is one action, enabled while `mutex_self` is free (`Poll`,
`Gather`, `Convert`). A call of the *application* gives `sem_pinfo` inside its critical
section, which the thread can observe, so it is `TakeMutex`, an action for the change
(`RegisterNode`, `RegisterEndpoint`, ...), `QueueUpdate`, with polling `InspectNewNode`,
and `GiveMutex`. `Reject` is every early return. `pc[a]` is the place of an application,
`thread` that of the update thread; each read of `thread_pinfo_active` is a step, so the
flag may change between it and what follows. A node is a model value for its name and
namespace. A member of `Endpoints` stands for the DDS endpoints of one graph endpoint; a
sample is the set of a participant's nodes with their endpoints. An inspection registers
what is on the participant; when and how it fails is the business of `Registry`, and here
it may fail after any part of it.

`UnregisterNode` goes to `release` directly and not through `changed`: it is the one
change after which the code queues no update (`graph.c` 508-514).

### PollTimer

Time passes by ticks, never while the thread has something to do but wait or publish.
`age` counts from the creation of one endpoint that nobody registers, `gap` from the last
call. A poll comes to the endpoint (`Found`) or its inspection fails before (`Missed`),
which the loop ignores (`graph_impl.c` 1101-1104); `missed` counts the latter. The C++
constructor does not pass `poll_period` on (`graph.cpp` 549-562): `Period` is 0 for a C++
graph.

### Registry

A call holds the mutex from its first access to its last, so it is one action. An
inspection visits DDS endpoints one at a time and is several actions: `inspection` carries
its phase, its caller, the node's place, what DDS listed (`found`), what is left (`todo`)
and the local variable `endp_handle` that the code leaves set from one entity to the next.
While it runs, no call proceeds and `CreateEntity` does. The order in which DDS lists
entities is not specified, so `\E e` chooses. The entities of each publisher or subscriber
are listed when its turn comes: `InspectListed` adds one created meanwhile.

Handles are `0 .. MaxHandle` and a counter of `MaxHandle + 1` is the overflowed, negative
one (C leaves `int` overflow undefined; the value here is loaded from memory, and builds
wrap). `readers_len` and `writers_len` wrap modulo `MaxSize + 1`. A topic is a string of
the model with a prefix (`PrefixOf`), which is all that `detect_endpoint_type` reads.
`lookup_local_endpoint_by_topic_name` is always called with `writer` false and then
compares readers only; `ReadingTopic` says so.

`drawn` is a history variable: the handles `next_node_handle` has returned. It changes
nothing else.

### GraphHandles and GraphSample

`granted_nodes` and `granted` are what the application knows. It registers by hand,
unregisters what it registered, by handle or by DDS endpoints, and deletes no DDS endpoint
before that; each of its calls is an action of `Registry` with the conversions of the C++
`Graph` around it. The getters are operators on the registry: they change nothing.

`GraphSample` has the registry change between any two steps of `publish_update`. A DDS
sequence is `[slots, len]`: `EnsureLength` grows the slots if it must and sets the length,
and what lies beyond the length stays. `NodeToSample` writes one GID for each endpoint, at
the place that `ReaderPlace` or `WriterPlace` has counted to; a slot it does not write
keeps what it held. `Broken` is what a conversion leaves that runs out of memory at a
field of an info in `Exhausted`, `Unsized` one that cannot make the infos as many as the
nodes or cut them to those converted. `Visible` is what a reader gets. The C++ adapter
copies what is visible to a second sample, which is the same for a reader. A GID stands
for the entity whose instance handle `ih_to_gid` copies.

A loop of the code that passes over elements is `Picked`: the elements at a set of places,
in order. `NodesOf` are the nodes of a participant that `convert_to_sample` visits,
`GatheredParticipants` the participants at the first node of each, and the readers and
writers that the registry lists for a node are picked likewise.

The counter with which `node_to_sample` finds a slot is counted here as the cardinality of
the endpoints up to this one; the length of the sequence is the node's counter. That the
two agree is `CountersMatch`.

### Lifecycle

`Setup` and `Teardown` are the steps of `initialize` and `finalize`; `at` is the next one.
`field` is the structure's fields with their `_own` flags, `live` what exists,
`topic_refs` the references on the participant's topic, which `find_topic` and
`create_topic` take and `delete_topic` drops. `FindTopic` and `Create` of the topic are
two steps, between which another graph may act. A C++ `Graph` is a graph that is passed
all entities, with the C sample `c_pinfo` that its constructor allocates. `refused` says
that DDS has not deleted an entity when asked, which ends `finalize` there; everything
after it stays.

### History and TopicNames

In `History` a sample is the participant it is about. `standing` are the participants that
were announced and have had a node ever since: those a late joiner should be sent. Readers
are not modelled: the library gives them a depth of 1 (`graph.c` 108). A round visits the
gathered participants in any order, which covers the order of their nodes.

In `TopicNames` a name is a sequence of pieces, strings each, and its width is the number
of its characters (`Characters`), the terminator included. A helper is `Query`, the
allocations, `Fill` and `Return`; where the C++ helper copies a buffer that it does not
have, `Return` ends in `failed` with what is not freed by then.

## 3. Runs

Deadlock is checked except in the runs of `UpdateThread`, where calls are bounded by
`MaxCalls` and nothing is left to do after `finalize`, and in `lifecycle_faults`, where a
graph whose `finalize` was refused leaves its structure for good.

| Run | Instance | Shows |
|---|---|---|
| `update_safety` | 2 applications, 2 nodes, 2 participants with one endpoint each, polling, failures, 3 calls; symmetric in applications and nodes | `NoLostUpdate`, `NoUseAfterFree`, `FinalizeHeard`, `ImplementsAnnouncement` |
| `update_converges` | 1 application, 2 nodes on one participant, polling, failures, 3 calls, fair | `Converges`: whatever errors happened, announcements become the registry once no update is lost |
| `update_announced` | 1 application, 2 participants, no polling, no failures, 3 calls, fair | `EveryEndpointAnnounced`, `FinalizeReturns` |
| `poll_c` | a C graph, period 4, publications of up to 2, calls 7 apart, 2 polls in a row that fail | `FoundInTime`: within two periods and a publication for each poll that fails and the one that finds; `TypeOK` |
| `registry_inspect` | 1 node; a subscription and a service, registered by hand or left to inspections and polls, a client's writer on the service's topic; 3 handles, failures | `InspectionIsComplete`, `UniqueEndpointHandles`, `CountersFollow`, `TypeOK` |
| `handles` | 2 nodes out of 2 namespaces and NULL; a subscription and two clients that may share their reader; 3 handles, failures | `UniqueNodeHandles`, `UniqueNodeNames`, `NoEarlyReuse`, `NodeGettersAnswer`, `EndpointGettersAnswer`, `SameEndpointUnregistered`, `RegisteredExist`, `CountersMatch` |
| `sample_clients` | 1 node; a subscription's reader and a client's reader and writer, created and deleted; 2 handles, failures, no memory for infos and for writers' GIDs | `WritersAreContent`, `SubscriptionsAreAnnounced` |
| `sample_topics` | 1 node at a time, on one of 2 participants; a subscription and a publisher; failures, no memory for readers' GIDs; symmetric in participants | `SampleIsContent`, `SampleTypeOK` |
| `sample_readers` | as `sample_clients`, without failures | *violated*: `ReadersAreAnnounced`, see section 4 |
| `lifecycle_faults` | 2 interchangeable graphs, C or C++, every subset of entities passed, every failure | `ThreadHasAll`, `TopicRefsMatch`, `PassedEntitiesStay`, `NothingLeft`, `DeletesAccepted`, `ExitComes`, `TypeOK` |
| `history_c` | 2 participants, 2 rounds ended by errors in a row, the least depth that suffices, 5 | `Retained` |
| `names_helpers` | all helpers, C and C++, an empty and a proper topic, 6 types with and without `::` | `WritesFit`, `QuerySuffices`, `BuffersFreed`, `TopicsDetected` |

Bounds. *UpdateThread*: three calls let one application register a node, register an
endpoint and unregister or inspect, or two applications interleave such calls with every
point of a round; two participants make a round that is interrupted half way, and two
nodes on one participant a sample with two parts. The token count is at most the calls
plus the token of `finalize`. *Registry and above*: `MaxHandle` is close to the number of
objects, so that the counter overflows and finds handles in use; `MaxNodes` and
`MaxEndpoints` bound what is registered at a time, never how many calls are made, so the
runs cover every sequence of calls of any length. `MaxHandle` and `MaxSize` stand for
INT_MAX and SIZE_MAX; `MaxEndpoints` is at most `MaxSize` because an endpoint takes more
than a byte, and the guard that some handle is free holds in any real memory. `Exhausted`
names the fields where memory may run out; each run has those that leave most behind of
what its properties read. Two endpoints at a time are enough for a client before and after
a subscription, and two participants that take turns for what one leaves in the sample of
the other. What these instances do not have is in the theorems of section 5, which hold
for any number of nodes, participants and DDS endpoints: an inspection or roll-back beside
a second node (`Registry_proofs`) and a sample with two nodes (`SampleContent_proofs`).
*Lifecycle*: two graphs are what the shared topic needs; `AppRefs` is how often the
application itself holds it, 0 here so that a graph finds either no topic or another
graph's; the proofs are for any number of both. *History*: `MaxAborts` bounds rounds that
errors end one after another; `DepthNeeded` depends on it. The depth is exactly
`DepthNeeded`, and a depth one less is the mutant. *PollTimer*: `MaxMissed` bounds the
polls that fail one after another; `age` stops counting past its bound, `gap` at `MinGap`.

Fairness is assumed in `update_converges` and `update_announced` only. It is weak fairness
of the update thread's next step and of each call that has begun: the operating system
runs runnable threads. Nothing makes an application call, create an endpoint or delete the
graph. Weak fairness is enough because the calls are finite: the mutex cannot be taken
from the thread for ever and the drain loop ends. With an endless stream of calls the
liveness would rest on the fairness of the mutex, which the code does not state.

Each property of a passing run has a mutant, an operator of the module marked `Mutant of`,
that changes one definition as a plausible bug would and violates the property.

## 4. Where code and documents disagree

*Readers of clients and services are never announced* (`graph_impl.c` 891-911, run
`sample_readers`). The loop of `node_to_sample` has one `gid_seq` and one index for each
endpoint; where an endpoint has a reader and a writer, the writer's replace the reader's
before the only `ih_to_gid`. The length of `reader_gid_seq` is right, and the slot keeps
what an earlier node left in it. `test/test_c_graph.cpp` 575-576 counts three readers for
a subscription, a client and a service, and README.md 120-121 says that registered
endpoints are announced. What does hold is `SubscriptionsAreAnnounced` and
`WritersAreContent`, and without clients and services `SampleIsContent`.

The following were met while modelling. No run is spent on them: the models do what the
code does.

- *A poll announces nothing* (`graph_impl.c` 1097-1110). It registers what it finds and
  queues no update; only a later call makes it public.
- *DDS endpoints in use* (`graph_impl.c` 669). The check refuses only an endpoint that
  holds both the reader and the writer passed, so two clients may share one of them,
  against the comment at 667 and `test/test_c_graph.cpp` 377. `SameEndpointUnregistered`
  holds in spite of it, and run `handles` has clients that share a reader.
- *Attached writers are not counted* (`graph_impl.c` 1228, 1255). An inspection that finds
  a client's writer on the topic of a service's reader of the same participant attaches it
  to the service without `writers_len += 1`; unregistering then wraps the counter.
  `CountersMatch` is therefore about applications that register by hand and neither
  inspect nor poll. `CountersFollow` is about all: no step but such an attachment makes a
  node's counters depart from its endpoints.
- *A poll that fails is ignored* (`graph_impl.c` 1101-1104), with the rest of its node's
  endpoints unvisited. Where a topic is occupied, the inspection fails at it every time
  (1221, 1248, 1335), and an endpoint after it may never be found. `FoundInTime` counts
  these polls; nothing in the code bounds them.
- *One node per participant* (`graph_impl.c` 1181). README.md 206-210 says that the first
  node inspected gets the endpoints of a shared participant; every one does.
- *The C++ history has depth 1* (`graph.c` 51). `customize_datawriter_qos` sets 1;
  `get_graph_writer_qos` sets 100 afterwards in C, for the reason its comment gives at
  `graph_impl.c` 345-347, but the C++ `Graph` makes its writer with the former. By
  `Retained` that suffices for a graph of one participant. The reader's depth is 1 for
  both and nothing raises it, so that a reader that joins a graph of several participants
  may have only the last of the samples it is sent.
- *The topic may appear between find and create* (`graph_impl.c` 111-132): another
  thread's graph creates it first, and `initialize` fails. `CreateFails` has it
  (`Exists`).
- *C++ polling* (`adapter_cpp/graph.cpp` 549): `poll_period` is not passed on.
- *C++ replies* (`adapter_cpp/graph.cpp` 465): the buffer of the request's type is passed
  for the reply's, so both types come out wrong. `WritesFit` says that it still fits.
- *C++ allocations* (`adapter_cpp/graph.cpp` 309, 365): the second allocation is checked
  by the first pointer. When it fails, the copy of NULL to a `std::string` (333, 389)
  throws, or whatever else undefined behaviour is, before either `DDS_String_free`: the
  topic's buffer leaks. `BuffersFreed` has exactly this exception.
- *Type names*: a type without `::` is refused only when it is to be filled, not by the
  query; the type's own name is not copied to the buffer.
- *Leaks*: the buffer of `self->participants` is never finalized, and a C++ constructor
  that throws leaves `c_pinfo`. `NothingLeft` states both exceptions.

## 5. Proofs

The theorems hold for every value of the constants that satisfies the named assumptions of
the modules (`ConstantsAssumption`, `RegistryAssumption`, `HandlesAssumption`,
`SampleAssumption`, `LifecycleAssumption`, `HistoryAssumption`, `PollAssumption`,
`NamesAssumption`, `LengthsAssumption`). They say that participants of endpoints are
participants, that bounds are naturals and sets of graphs and participants finite, that
the markers (`Free`, `NoEntity`, ...) are not objects, that names are made of strings, and
how long the literal strings of the names are, which the provers do not compute. TLC
evaluates them in the runs.

*UpdateThread_proofs.* `NoLostUpdate` and the rest are not inductive by themselves. `IInv`
adds to the types: the mutex is held by the application in a critical section
(`MutexInv`); the node being registered is on the list (`SubjectInv`); the token that
`register_local_node` gave *before* its inspection is still ahead of the next gather
(`TokenInv`), because gather needs the mutex that the call holds; `finalize` starts alone
and nothing starts after it (`FinalizeInv`); `sem_pinfo_exit` means the thread has left
(`JoinInv`); no participant is left over between rounds (`RoundInv`). From it:

- `NothingUsedAfterFree`: `Spec => []NoUseAfterFree`, from `JoinInv`;
- `UpdatesAreNotLost`: `Spec => NoLostUpdate`. `LostStep` goes through the actions: a call
  that changes the registry leaves a token or is about to give one; taking or draining
  tokens leads to `gather`; `Gather` hands every hosted participant to `to_publish`;
  `Convert` makes the sample current;
- `FinalizeIsHeard`: `Spec => []FinalizeHeard`. While `finalize` waits for
  `sem_pinfo_exit`, the thread is not asleep without a token, and has not left without
  giving its own. This is the safety part of `FinalizeReturns`: the two never wait for
  each other, although the drain may swallow the token meant for the thread. `HeardInv`
  adds that the thread may have left before that token;
- `AnnouncementImplemented`: `Spec => ImplementsAnnouncement`, each step being a change of
  the registry, a copy, an announcement, a drop or a stutter of `Announcement`.

*Registry_proofs.* `IInv` is the type invariant with the uniqueness of node handles, node
names and endpoint handles, which need each other's types. `HandleIsFree` is the lemma
about `NextHandle`, `WithEndpointType`, `WithoutEndpointType` and `WithHandleDrawnType`
those about the operations on a node, `ReplaceNode`, `DropNode` and `AddNode` those about
the list. From it and these: `TypeCorrect`, `NodeHandlesUnique`, `NodeNamesUnique`,
`EndpointHandlesUnique`. `HandlesNotReusedEarly` adds `DrawnInv`: until every handle has
been drawn, those drawn are exactly those below the counter. `InspectionsAreComplete` adds
`VisitedInv`: whatever was listed and is no longer to do is on the node.
`CountersAlwaysFollow` is about steps: a registration, a removal and a roll-back move a
counter by as much as the number of the endpoints with a reader or a writer
(`AppendCount`, `RemoveCount`), modulo the width of the counter; the attachment of a
writer is excepted.

*GraphSample_proofs* extends `Registry_proofs`. `GInv` adds to `IInv` that every node is
`Conforming` (its counters are the cardinalities of its endpoints with a reader and with a
writer, its entities have the types they are registered with, no two of its endpoints are
alike) and `Knowledge`: what the application was granted is exactly what is on the
registry. Counting needs the lemmas about places in a sequence of `Registry_proofs` and
that `Plus` does not wrap around below `MaxSize`. From it five theorems for `HandlesSpec`
and `SampleSpec`, of applications that neither inspect nor poll: `CountersCount`,
`NothingDeletedIsRegistered`, `NodeGettersCorrect`, `EndpointGettersCorrect` and
`RightEndpointUnregistered`. The last is the one that looks surprising: a lookup that
ignores types and NULL arguments still finds the endpoint meant, because the shape of an
endpoint follows from its type and no two are alike.

*Lifecycle_proofs.* `LInv` says for each graph, by its phase and step, which fields are
set, what is live and whether the thread runs: while it is built, exactly what comes
before the step and was not passed (`Building`); when it is up, all but perhaps the thread
(`Complete`); when it is finalized, what it owns and comes at or after the step
(`Ending`). `StepOfOne` takes a step of one graph to all: the others are as they were and
the topic is counted once for each graph that holds it. Each action is then about the
values of one graph. From it the seven properties of the run, for any number of graphs.

*SampleContent_proofs* extends `GraphSample_proofs` and is about the slots. `Ranks` says
that the places of a set are numbered without gaps, so `Picked` gives each its turn, and
`PlacesAreRanks` that the counters of `node_to_sample` are these numbers. `SoundSample`
are the samples of which every sequence, at any depth, is no longer than its slots;
`BrokenSound` and `UnsizedSound` keep a sample sound wherever memory runs out, which is
what a later conversion relies on. `NodeConverted` says what an info shows after
`NodeToSample`, whatever it held before: names, all writers in order, as many readers as
there are, and at its place each reader whose endpoint has no writer. The invariant `CInv`
is `GInv`, which gives the counters, with `RoundInv` for the stages of a round. `StepSeen`
takes each step to a copy, an announcement, a drop or a stutter. From these:
`SampleStaysSound`; two implementations of `Announcement`, `WritersAnnounced` for the
nodes, the writers and the number of readers of every participant, and
`SamplesImplementAnnouncement` for all that is visible; and `SubscriptionsAnnounced`. The
second has the hypothesis `OnlyTopics`, that no DDS endpoint is on a topic of clients or
services: with them it is false, for the reason in section 4. The instance of
`sample_topics` has one node at a time; the theorem is about any number.

*History_proofs.* The invariant counts the samples that may follow the last one of a
standing participant (`SinceIn`): between rounds, those of the round that wrote it and of
every round ended by an error since; in a round that has yet to come to it, also those
already written; after, those written since. Each is below `DepthNeeded`, and what is that
recent is not what `KeepLast` drops. From it `HistoryRetains`.

*PollTimer_proofs.* `AgeBounded` relates the age of the endpoint to the polls that have
missed it, the stage of the wait and the time since the last call, which cannot end two
waits in a row. From it `TypeCorrect` and, for a C graph, `EndpointsFoundInTime`.

*TopicNames_proofs.* The widths of names add up (`WidthOfJoined`, by a bijection between
the characters of the whole and those of the parts). `DdsTopicFits` and `DdsTypeFits`
compare what is written with what `make_dds_topic_and_type_names` counts, for types with
any number of `::` (`LastColonFound`). A type's name counts one `::` twice; that is the
room in which the longer suffix of a reply fits the buffer of its request, into which the
C++ helper has it written (`TextsFit`). `CallComputed` says what one call of the C
functions leaves, and the invariant `NInv` what the stages of a helper rest on: buffers as
long as the query said before they are filled, names that fit and begin with the prefixes
of the endpoint's type after, and no buffers once the helper has returned, but the topic's
if it copied a buffer it did not have. From it `NamesFit`, `QueriesSuffice`,
`BuffersAreFreed` and `TopicsAreDetected`, for any names.

Every safety property and action property of a passing run is a theorem. Only
model-checked are the three liveness properties, `Converges`, `EveryEndpointAnnounced` and
`FinalizeReturns`: liveness under fairness is out of the prover's reach.

## 6. What is not modelled

- Errors of semaphores, which the code ignores; `thread_pinfo_active`, read without a
  lock, is taken to be read and written at once.
- Calls on a graph that is being deleted or with handles of freed graphs: the contract of
  the API excludes them. So it does the deletion of a DDS endpoint that is registered;
  that an application that keeps to this is safe is `RegisteredExist`.
- The pointer that `get_node_name` hands out (`graph.c` 670): it is used by the caller
  after the mutex was given, and unregistering the node frees it.
- Copies of a C++ `Graph` object (`rticonnextdds_ros2_adapter_cpp.hpp` 60), and the two
  allocators with which `initialize` and `customize_*` free strings (`graph.c` 178).
- Inspection together with the sample: `GraphSample` is about applications that register
  by hand; `UpdateThread` has both, without slots.
- Heartbeats, send window and memory of the middleware's writer, whose QoS the library
  sets; a reader that is not reliable.
- Attaching endpoint data (`endp_data`), logging, allocation sizes.
- Calls with a NULL graph, which return at once (`inspect_local_node` and
  `unregister_local_node` dereference it in their `done` path).
- The generated type support and the middleware, beyond what the code calls; the IDL, the
  examples and the tests, which were read for what calls a program makes.

## 7. Plan

Done, in this order: `UpdateThread` with `Announcement`; `Registry` with inspections;
`GraphHandles` and `GraphSample`; `Lifecycle`; `History`; `TopicNames`; `PollTimer`; the
proofs of each. Left for later:

1. A composition of `Registry` and `UpdateThread`: the critical section of the latter
   refined by the calls and inspections of the former.
2. Inspections in `GraphSample`, with the slots of endpoints whose writer was attached.
