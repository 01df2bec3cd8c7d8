-------------------------- MODULE Lifecycle_proofs --------------------------
(***************************************************************************)
(* Machine-checked proofs about Lifecycle, for any number of graphs on one *)
(* participant, however often the application holds the topic.             *)
(***************************************************************************)
EXTENDS Lifecycle, Integers, FiniteSetTheorems, TLAPS

-----------------------------------------------------------------------------
(* The order of the steps. *)

\* The place of a resource in Setup.
Order(r) ==
  CASE r = "nodes_pool" -> 1
    [] r = "endpoints_pool" -> 2
    [] r = "graph_publisher" -> 3
    [] r = "graph_topic" -> 5
    [] r = "graph_writer" -> 6
    [] r = "pinfo" -> 7
    [] r = "mutex_self" -> 8
    [] r = "sem_pinfo" -> 9
    [] r = "sem_pinfo_exit" -> 10
    [] OTHER -> 11

\* Its place in Teardown.
Back(r) ==
  CASE r = "thread_pinfo" -> 2
    [] r = "mutex_self" -> 3
    [] r = "sem_pinfo" -> 4
    [] r = "sem_pinfo_exit" -> 5
    [] r = "pinfo" -> 6
    [] r = "graph_writer" -> 7
    [] r = "graph_topic" -> 8
    [] r = "graph_publisher" -> 9
    [] r = "nodes_pool" -> 10
    [] OTHER -> 11

LEMMA SetupSteps ==
  /\ Len(Setup) = 11 /\ DOMAIN Setup = 1 .. 11
  /\ Setup[1] = "nodes_pool" /\ Setup[2] = "endpoints_pool"
  /\ Setup[3] = "graph_publisher" /\ Setup[4] = "find_topic"
  /\ Setup[5] = "graph_topic" /\ Setup[6] = "graph_writer" /\ Setup[7] = "pinfo"
  /\ Setup[8] = "mutex_self" /\ Setup[9] = "sem_pinfo"
  /\ Setup[10] = "sem_pinfo_exit" /\ Setup[11] = "thread_pinfo"
BY DEF Setup

LEMMA TeardownSteps ==
  /\ Len(Teardown) = 11
  /\ Teardown[1] = "stop" /\ Teardown[2] = "thread_pinfo"
  /\ Teardown[3] = "mutex_self" /\ Teardown[4] = "sem_pinfo"
  /\ Teardown[5] = "sem_pinfo_exit" /\ Teardown[6] = "pinfo"
  /\ Teardown[7] = "graph_writer" /\ Teardown[8] = "graph_topic"
  /\ Teardown[9] = "graph_publisher" /\ Teardown[10] = "nodes_pool"
  /\ Teardown[11] = "endpoints_pool"
BY DEF Teardown

LEMMA ResourceNames ==
  Resources = {"nodes_pool", "endpoints_pool", "graph_publisher", "graph_topic",
               "graph_writer", "pinfo", "mutex_self", "sem_pinfo", "sem_pinfo_exit",
               "thread_pinfo"}
<1>1. \A i \in 1 .. 11 : i = 1 \/ i = 2 \/ i = 3 \/ i = 4 \/ i = 5 \/ i = 6 \/ i = 7
                         \/ i = 8 \/ i = 9 \/ i = 10 \/ i = 11
  OBVIOUS
<1>2. {Setup[i] : i \in DOMAIN Setup} =
        {"nodes_pool", "endpoints_pool", "graph_publisher", "find_topic", "graph_topic",
         "graph_writer", "pinfo", "mutex_self", "sem_pinfo", "sem_pinfo_exit",
         "thread_pinfo"}
  BY <1>1, SetupSteps
<1> QED
  BY <1>2 DEF Resources

\* Every resource has a place of its own, and none is where the topic is looked
\* for.
LEMMA OrderFacts ==
  /\ \A r \in Resources : Order(r) \in 1 .. 11 /\ Order(r) # 4
  /\ \A r, s \in Resources : Order(r) = Order(s) => r = s
  /\ Order("graph_topic") = 5 /\ Order("thread_pinfo") = 11
<1>1. /\ Order("nodes_pool") = 1
      /\ Order("endpoints_pool") = 2
      /\ Order("graph_publisher") = 3
      /\ Order("graph_topic") = 5
      /\ Order("graph_writer") = 6
      /\ Order("pinfo") = 7
      /\ Order("mutex_self") = 8
      /\ Order("sem_pinfo") = 9
      /\ Order("sem_pinfo_exit") = 10
      /\ Order("thread_pinfo") = 11
  BY DEF Order
<1> QED
  BY <1>1, ResourceNames

LEMMA BackFacts ==
  /\ \A r \in Resources : Back(r) \in 2 .. 11
  /\ \A r, s \in Resources : Back(r) = Back(s) => r = s
  /\ Back("thread_pinfo") = 2 /\ Back("graph_writer") = 7
  /\ Back("graph_topic") = 8 /\ Back("graph_publisher") = 9
<1>1. /\ Back("nodes_pool") = 10
      /\ Back("endpoints_pool") = 11
      /\ Back("graph_publisher") = 9
      /\ Back("graph_topic") = 8
      /\ Back("graph_writer") = 7
      /\ Back("pinfo") = 6
      /\ Back("mutex_self") = 3
      /\ Back("sem_pinfo") = 4
      /\ Back("sem_pinfo_exit") = 5
      /\ Back("thread_pinfo") = 2
  BY DEF Back
<1> QED
  BY <1>1, ResourceNames

LEMMA AtOrder ==
  ASSUME NEW g, NEW r \in Resources, at[g] \in 1 .. 12, At(g, r)
  PROVE  at[g] = Order(r) /\ phase[g] = "initialize"
<1>1. at[g] \in 1 .. 11 /\ Setup[at[g]] = r /\ phase[g] = "initialize"
  BY SetupSteps DEF At
<1> QED
  BY <1>1, SetupSteps, ResourceNames DEF Order

LEMMA AtFindTopic ==
  ASSUME NEW g, at[g] \in 1 .. 12, At(g, "find_topic")
  PROVE  at[g] = 4 /\ phase[g] = "initialize"
BY SetupSteps DEF At

LEMMA AtBack ==
  ASSUME NEW g, NEW r \in Resources, at[g] \in 1 .. 12, AtTeardown(g, r)
  PROVE  at[g] = Back(r) /\ phase[g] \in {"failing", "deleting"}
<1>1. at[g] \in 1 .. 11 /\ Teardown[at[g]] = r /\ phase[g] \in {"failing", "deleting"}
  BY TeardownSteps DEF AtTeardown, Finalizing
<1> QED
  BY <1>1, TeardownSteps, ResourceNames DEF Back

LEMMA AtStop ==
  ASSUME NEW g, at[g] \in 1 .. 12, AtTeardown(g, "stop")
  PROVE  at[g] = 1 /\ phase[g] \in {"failing", "deleting"}
BY TeardownSteps DEF AtTeardown, Finalizing

-----------------------------------------------------------------------------
(* The invariant. *)

\* What holds of one graph at step i of phase ph: what it owns is live from its
\* creation to its release, the thread comes last and goes first, and the fields
\* remember what was passed.
GraphType(ph, i, pa, f, li, ru, st, re) ==
  /\ ph \in Phases
  /\ i \in 1 .. 12
  /\ pa \in SUBSET (DdsEntities \cup {"graph_participant"})
  /\ f \in [Resources -> {"null", "passed", "own"}]
  /\ li \in SUBSET (Resources \cup {"c_pinfo", "participants"})
  /\ ru \in BOOLEAN /\ st \in BOOLEAN /\ re \in BOOLEAN

Owned(pa, f) ==
  \A r \in Resources : (f[r] = "passed" => r \in pa) /\ (f[r] = "own" => r \notin pa)

Building(i, f, li, ru, st, re) ==
  /\ \A r \in Resources : r \in li <=> f[r] = "own"
  /\ \A r \in Resources : i <= Order(r) => f[r] = "null"
  /\ \A r \in Resources : Order(r) < i /\ r # "thread_pinfo" => f[r] # "null"
  /\ st = FALSE /\ re = FALSE
  /\ ru = TRUE <=> f["thread_pinfo"] = "own"
  /\ "participants" \notin li

Complete(f, li, ru, st, re) ==
  /\ \A r \in Resources : r \in li <=> f[r] = "own"
  /\ \A r \in Resources : r # "thread_pinfo" => f[r] # "null"
  /\ st = FALSE /\ re = FALSE
  /\ ru = TRUE => f["thread_pinfo"] = "own"

Ending(i, f, li, ru, st, re) ==
  /\ \A r \in Resources : r \in li <=> f[r] = "own" /\ i <= Back(r)
  /\ re = FALSE
  /\ st = TRUE <=> i > 1 /\ f["thread_pinfo"] = "own"
  /\ ru = TRUE => i <= 2 /\ \A r \in Resources : f[r] # "null"

Sound(ph, i, pa, f, li, ru, st, re) ==
  /\ GraphType(ph, i, pa, f, li, ru, st, re)
  /\ Owned(pa, f)
  /\ ph = "initialize" => Building(i, f, li, ru, st, re)
  /\ ph = "up" => Complete(f, li, ru, st, re)
  /\ ph \in {"failing", "deleting"} => Ending(i, f, li, ru, st, re)
  /\ ph = "failing" => ru = FALSE /\ "participants" \notin li
  /\ ph \in {"absent", "failed", "deleted"} => ru = FALSE
  /\ ph = "failed" /\ re = FALSE => li \subseteq {"c_pinfo"}
  /\ ph = "deleted" /\ re = FALSE => li \subseteq {"participants"}

GraphSound(g) ==
  Sound(phase[g], at[g], passed[g], field[g], live[g], running[g], stopping[g],
        refused[g])

HoldsTopic == {g \in Graphs : "graph_topic" \in live[g]}

Functions ==
  /\ phase \in [Graphs -> Phases]
  /\ at \in [Graphs -> 1 .. 12]
  /\ passed \in [Graphs -> SUBSET (DdsEntities \cup {"graph_participant"})]
  /\ field \in [Graphs -> [Resources -> {"null", "passed", "own"}]]
  /\ live \in [Graphs -> SUBSET (Resources \cup {"c_pinfo", "participants"})]
  /\ running \in [Graphs -> BOOLEAN]
  /\ stopping \in [Graphs -> BOOLEAN]
  /\ refused \in [Graphs -> BOOLEAN]

LInv ==
  /\ Functions
  /\ \A g \in Graphs : GraphSound(g)
  /\ topic_refs = AppRefs + Cardinality(HoldsTopic)
  /\ lost = [g \in Graphs |-> {}]

LEMMA HoldersCounted ==
  ASSUME NEW S \in SUBSET Graphs, NEW g \in Graphs
  PROVE  /\ Cardinality(S) \in Nat
         /\ g \notin S => Cardinality(S \cup {g}) = Cardinality(S) + 1
         /\ g \in S => Cardinality(S \ {g}) = Cardinality(S) - 1
<1>1. IsFiniteSet(S)
  BY LifecycleAssumption, FS_Subset
<1> QED
  BY <1>1, FS_CardinalityType, FS_AddElement, FS_RemoveElement

\* A step of g leaves the other graphs alone; it takes or drops one reference on
\* the topic when g begins or ceases to hold it.
LEMMA StepOfOne ==
  ASSUME LInv, NEW g \in Graphs,
         NEW ph, NEW i, NEW pa, NEW f, NEW li, NEW ru, NEW st, NEW re,
         phase' = [phase EXCEPT ![g] = ph], at' = [at EXCEPT ![g] = i],
         passed' = [passed EXCEPT ![g] = pa], field' = [field EXCEPT ![g] = f],
         live' = [live EXCEPT ![g] = li], running' = [running EXCEPT ![g] = ru],
         stopping' = [stopping EXCEPT ![g] = st], refused' = [refused EXCEPT ![g] = re],
         Sound(ph, i, pa, f, li, ru, st, re),
         \/ ("graph_topic" \in li <=> "graph_topic" \in live[g]) /\ topic_refs' = topic_refs
         \/ "graph_topic" \in li \ live[g] /\ topic_refs' = topic_refs + 1
         \/ "graph_topic" \in live[g] \ li /\ topic_refs' = topic_refs - 1,
         lost' = lost
  PROVE  LInv'
<1>1. GraphType(ph, i, pa, f, li, ru, st, re)
  BY DEF Sound
<1>2. Functions'
  BY <1>1 DEF GraphType, LInv, Functions
<1>3. ASSUME NEW h \in Graphs
      PROVE  GraphSound(h)'
  <2>1. CASE h = g
    <3>1. /\ phase'[h] = ph /\ at'[h] = i /\ passed'[h] = pa /\ field'[h] = f
          /\ live'[h] = li /\ running'[h] = ru /\ stopping'[h] = st /\ refused'[h] = re
      BY <2>1 DEF LInv, Functions
    <3> QED
      BY <3>1, Zenon DEF GraphSound
  <2>2. CASE h # g
    <3>1. /\ phase'[h] = phase[h] /\ at'[h] = at[h] /\ passed'[h] = passed[h]
          /\ field'[h] = field[h] /\ live'[h] = live[h] /\ running'[h] = running[h]
          /\ stopping'[h] = stopping[h] /\ refused'[h] = refused[h]
      BY <2>2 DEF LInv, Functions
    <3>2. GraphSound(h)
      BY DEF LInv
    <3> QED
      BY <3>1, <3>2, Zenon DEF GraphSound
  <2> QED
    BY <2>1, <2>2
<1>4. topic_refs' = AppRefs + Cardinality(HoldsTopic')
  <2>1. /\ topic_refs = AppRefs + Cardinality(HoldsTopic) /\ AppRefs \in Nat
        /\ HoldsTopic \in SUBSET Graphs
    BY LifecycleAssumption DEF LInv, HoldsTopic
  <2>2. /\ live'[g] = li
        /\ \A h \in Graphs : h # g => live'[h] = live[h]
    BY DEF LInv, Functions
  <2>3. CASE /\ "graph_topic" \in li <=> "graph_topic" \in live[g]
             /\ topic_refs' = topic_refs
    <3>1. HoldsTopic' = HoldsTopic
      BY <2>2, <2>3 DEF HoldsTopic
    <3> QED
      BY <2>1, <2>3, <3>1
  <2>4. CASE "graph_topic" \in li \ live[g] /\ topic_refs' = topic_refs + 1
    <3>1. HoldsTopic' = HoldsTopic \cup {g} /\ g \notin HoldsTopic
      BY <2>2, <2>4 DEF HoldsTopic
    <3> QED
      BY <2>1, <2>4, <3>1, HoldersCounted
  <2>5. CASE "graph_topic" \in live[g] \ li /\ topic_refs' = topic_refs - 1
    <3>1. HoldsTopic' = HoldsTopic \ {g} /\ g \in HoldsTopic
      BY <2>2, <2>5 DEF HoldsTopic
    <3> QED
      BY <2>1, <2>5, <3>1, HoldersCounted
  <2> QED
    BY <2>3, <2>4, <2>5
<1> QED
  BY <1>2, <1>3, <1>4 DEF LInv

\* What a step leaves alone, in the form that StepOfOne asks for.
LEMMA Kept ==
  ASSUME LInv, NEW g \in Graphs
  PROVE  /\ phase = [phase EXCEPT ![g] = phase[g]]
         /\ at = [at EXCEPT ![g] = at[g]]
         /\ passed = [passed EXCEPT ![g] = passed[g]]
         /\ field = [field EXCEPT ![g] = field[g]]
         /\ live = [live EXCEPT ![g] = live[g]]
         /\ running = [running EXCEPT ![g] = running[g]]
         /\ stopping = [stopping EXCEPT ![g] = stopping[g]]
         /\ refused = [refused EXCEPT ![g] = refused[g]]
BY DEF LInv, Functions

LEMMA Now ==
  ASSUME LInv, NEW g \in Graphs
  PROVE  /\ Sound(phase[g], at[g], passed[g], field[g], live[g], running[g],
                  stopping[g], refused[g])
         /\ GraphType(phase[g], at[g], passed[g], field[g], live[g], running[g],
                      stopping[g], refused[g])
         /\ Owned(passed[g], field[g])
         /\ at[g] \in 1 .. 12
BY DEF LInv, GraphSound, Sound, GraphType

-----------------------------------------------------------------------------
(* Creation. *)

LEMMA AllocateInv ==
  ASSUME LInv, NEW g \in Graphs, NEW p \in {"initialize", "failing"},
         NEW entities \in SUBSET (DdsEntities \cup {"graph_participant"}),
         NEW resources \in SUBSET {"c_pinfo"},
         p = "failing" => resources = {},
         Allocate(g, p, entities, resources)
  PROVE  LInv'
<1>1. /\ live[g] = {}
      /\ phase' = [phase EXCEPT ![g] = p]
      /\ at' = [at EXCEPT ![g] = 1]
      /\ passed' = [passed EXCEPT ![g] = entities]
      /\ field' = [field EXCEPT ![g] = Cleared]
      /\ live' = [live EXCEPT ![g] = resources]
      /\ running' = [running EXCEPT ![g] = FALSE]
      /\ stopping' = [stopping EXCEPT ![g] = FALSE]
      /\ refused' = [refused EXCEPT ![g] = FALSE]
      /\ topic_refs' = topic_refs /\ lost' = lost
  BY DEF Allocate, Goto
<1>2. Sound(p, 1, entities, Cleared, resources, FALSE, FALSE, FALSE)
  <2>1. /\ Cleared \in [Resources -> {"null", "passed", "own"}]
        /\ \A r \in Resources : Cleared[r] = "null"
    BY DEF Cleared
  <2>2. "thread_pinfo" \in Resources /\ "c_pinfo" \notin Resources
    BY ResourceNames
  <2>3. GraphType(p, 1, entities, Cleared, resources, FALSE, FALSE, FALSE)
    BY <2>1 DEF GraphType, Phases
  <2>4. Owned(entities, Cleared)
    BY <2>1 DEF Owned
  <2>5. Building(1, Cleared, resources, FALSE, FALSE, FALSE)
    <3>1. \A r \in Resources : r \in resources <=> Cleared[r] = "own"
      BY <2>1, <2>2
    <3>2. \A r \in Resources : ~(Order(r) < 1)
      BY OrderFacts
    <3>3. (FALSE = TRUE) <=> Cleared["thread_pinfo"] = "own"
      <4>1. Cleared["thread_pinfo"] = "null"
        BY <2>1, <2>2
      <4> QED
        BY <4>1
    <3> QED
      BY <2>1, <3>1, <3>2, <3>3 DEF Building
  <2>6. p = "failing" => Ending(1, Cleared, resources, FALSE, FALSE, FALSE)
    BY <2>1, <2>2 DEF Ending
  <2> QED
    BY <2>3, <2>4, <2>5, <2>6 DEF Sound
<1>3. "graph_topic" \notin resources
  OBVIOUS
<1> QED
  BY <1>1, <1>2, <1>3, StepOfOne

LEMMA TakePassedInv ==
  ASSUME LInv, NEW g \in Graphs, NEW r \in Resources, TakePassed(g, r)
  PROVE  LInv'
<1> DEFINE f == [field[g] EXCEPT ![r] = "passed"]
<1>1. at[g] = Order(r) /\ phase[g] = "initialize" /\ r \in passed[g]
  BY Now, AtOrder DEF TakePassed
<1>2. /\ at' = [at EXCEPT ![g] = at[g] + 1]
      /\ field' = [field EXCEPT ![g] = f]
      /\ phase' = [phase EXCEPT ![g] = phase[g]]
      /\ passed' = [passed EXCEPT ![g] = passed[g]]
      /\ live' = [live EXCEPT ![g] = live[g]]
      /\ running' = [running EXCEPT ![g] = running[g]]
      /\ stopping' = [stopping EXCEPT ![g] = stopping[g]]
      /\ refused' = [refused EXCEPT ![g] = refused[g]]
      /\ topic_refs' = topic_refs /\ lost' = lost
  BY Kept DEF TakePassed, Proceed
<1>3. Sound(phase[g], at[g] + 1, passed[g], f, live[g], running[g], stopping[g],
            refused[g])
  <2>1. /\ GraphType(phase[g], at[g], passed[g], field[g], live[g], running[g],
                     stopping[g], refused[g])
        /\ Owned(passed[g], field[g])
        /\ Building(at[g], field[g], live[g], running[g], stopping[g], refused[g])
    BY <1>1, Now DEF Sound
  <2>2. /\ f \in [Resources -> {"null", "passed", "own"}]
        /\ f[r] = "passed"
        /\ \A s \in Resources : s # r => f[s] = field[g][s]
        /\ field[g][r] = "null"
    BY <1>1, <2>1, OrderFacts DEF GraphType, Building
  <2>3. r # "thread_pinfo" /\ "thread_pinfo" \in Resources
    BY <1>1, <2>1, ResourceNames DEF GraphType, DdsEntities
  <2>4. GraphType(phase[g], at[g] + 1, passed[g], f, live[g], running[g],
                  stopping[g], refused[g])
    BY <1>1, <2>1, <2>2, OrderFacts DEF GraphType
  <2>5. Owned(passed[g], f)
    BY <1>1, <2>1, <2>2 DEF Owned
  <2> HIDE DEF f
  <2>6. Building(at[g] + 1, f, live[g], running[g], stopping[g], refused[g])
    <3>1. \A s \in Resources : s \in live[g] <=> f[s] = "own"
      BY <2>1, <2>2 DEF Building
    <3>2. \A s \in Resources : at[g] + 1 <= Order(s) => f[s] = "null"
      BY <1>1, <2>1, <2>2, OrderFacts DEF Building
    <3>3. \A s \in Resources : Order(s) < at[g] + 1 /\ s # "thread_pinfo" => f[s] # "null"
      BY <1>1, <2>1, <2>2, OrderFacts DEF Building
    <3> QED
      BY <2>1, <2>2, <2>3, <3>1, <3>2, <3>3 DEF Building
  <2> QED
    BY <1>1, <2>4, <2>5, <2>6 DEF Sound
<1> HIDE DEF f
<1> QED
  BY <1>2, <1>3, StepOfOne

LEMMA CreateInv ==
  ASSUME LInv, NEW g \in Graphs, NEW r \in Resources, Create(g, r)
  PROVE  LInv'
<1> DEFINE f == [field[g] EXCEPT ![r] = "own"]
           li == live[g] \cup {r}
           ru == (r = "thread_pinfo")
<1>1. at[g] = Order(r) /\ phase[g] = "initialize" /\ r \notin passed[g]
  BY Now, AtOrder DEF Create
<1>2. /\ at' = [at EXCEPT ![g] = at[g] + 1]
      /\ field' = [field EXCEPT ![g] = f]
      /\ live' = [live EXCEPT ![g] = li]
      /\ running' = [running EXCEPT ![g] = ru]
      /\ phase' = [phase EXCEPT ![g] = phase[g]]
      /\ passed' = [passed EXCEPT ![g] = passed[g]]
      /\ stopping' = [stopping EXCEPT ![g] = stopping[g]]
      /\ refused' = [refused EXCEPT ![g] = refused[g]]
      /\ topic_refs' = IF r = "graph_topic" THEN topic_refs + 1 ELSE topic_refs
      /\ lost' = lost
  BY Kept DEF Create, Proceed
<1>3. /\ GraphType(phase[g], at[g], passed[g], field[g], live[g], running[g],
                   stopping[g], refused[g])
      /\ Owned(passed[g], field[g])
      /\ Building(at[g], field[g], live[g], running[g], stopping[g], refused[g])
  BY <1>1, Now DEF Sound
<1>4. field[g][r] = "null" /\ r \notin live[g]
  BY <1>1, <1>3, OrderFacts DEF Building
<1>5. Sound(phase[g], at[g] + 1, passed[g], f, li, ru, stopping[g], refused[g])
  <2>2. /\ f \in [Resources -> {"null", "passed", "own"}]
        /\ f[r] = "own"
        /\ \A s \in Resources : s # r => f[s] = field[g][s]
    BY <1>3 DEF GraphType
  <2>3. "thread_pinfo" \in Resources /\ "participants" \notin Resources
    BY ResourceNames
  <2>4. GraphType(phase[g], at[g] + 1, passed[g], f, li, ru, stopping[g], refused[g])
    <3>1. ru \in BOOLEAN
      BY Zenon
    <3>2. at[g] + 1 \in 1 .. 12
      BY <1>1, OrderFacts
    <3>3. li \in SUBSET (Resources \cup {"c_pinfo", "participants"})
      BY <1>3 DEF GraphType
    <3> QED
      BY <1>3, <2>2, <3>1, <3>2, <3>3, Zenon DEF GraphType
  <2>5. Owned(passed[g], f)
    BY <1>1, <1>3, <2>2 DEF Owned
  <2>6. ru = TRUE <=> f["thread_pinfo"] = "own"
    <3>1. CASE r = "thread_pinfo"
      BY <2>2, <3>1
    <3>2. CASE r # "thread_pinfo"
      <4>1. Order(r) <= 11 /\ Order(r) \in Int
        BY OrderFacts
      <4>2. field[g]["thread_pinfo"] = "null"
        BY <1>1, <1>3, <2>3, <4>1, OrderFacts DEF Building
      <4> QED
        BY <2>2, <2>3, <3>2, <4>2
    <3> QED
      BY <3>1, <3>2
  <2> HIDE DEF f, ru
  <2>7. Building(at[g] + 1, f, li, ru, stopping[g], refused[g])
    <3>1. \A s \in Resources : s \in li <=> f[s] = "own"
      BY <1>3, <1>4, <2>2 DEF Building
    <3>2. \A s \in Resources : at[g] + 1 <= Order(s) => f[s] = "null"
      BY <1>1, <1>3, <2>2, OrderFacts DEF Building
    <3>3. \A s \in Resources : Order(s) < at[g] + 1 /\ s # "thread_pinfo" => f[s] # "null"
      BY <1>1, <1>3, <2>2, OrderFacts DEF Building
    <3>4. "participants" \notin li
      BY <1>3, <2>3 DEF Building
    <3> QED
      BY <1>3, <2>6, <3>1, <3>2, <3>3, <3>4 DEF Building
  <2> QED
    BY <1>1, <2>4, <2>5, <2>7 DEF Sound
<1>6. \/ ("graph_topic" \in li <=> "graph_topic" \in live[g]) /\ topic_refs' = topic_refs
      \/ "graph_topic" \in li \ live[g] /\ topic_refs' = topic_refs + 1
  BY <1>2, <1>4
<1> HIDE DEF f, li, ru
<1> QED
  BY <1>2, <1>5, <1>6, StepOfOne

LEMMA FindTopicInv ==
  ASSUME LInv, NEW g \in Graphs, FindTopic(g)
  PROVE  LInv'
<1> DEFINE finds == "graph_topic" \notin passed[g] /\ topic_refs > 0
           f == IF finds THEN [field[g] EXCEPT !["graph_topic"] = "own"] ELSE field[g]
           li == IF finds THEN live[g] \cup {"graph_topic"} ELSE live[g]
           i == IF finds THEN at[g] + 2 ELSE at[g] + 1
<1>1. at[g] = 4 /\ phase[g] = "initialize"
  BY Now, AtFindTopic DEF FindTopic
<1>2. /\ at' = [at EXCEPT ![g] = i]
      /\ field' = [field EXCEPT ![g] = f]
      /\ live' = [live EXCEPT ![g] = li]
      /\ topic_refs' = IF finds THEN topic_refs + 1 ELSE topic_refs
      /\ phase' = [phase EXCEPT ![g] = phase[g]]
      /\ passed' = [passed EXCEPT ![g] = passed[g]]
      /\ running' = [running EXCEPT ![g] = running[g]]
      /\ stopping' = [stopping EXCEPT ![g] = stopping[g]]
      /\ refused' = [refused EXCEPT ![g] = refused[g]]
      /\ lost' = lost
  BY Kept DEF FindTopic, Proceed
<1>3. /\ GraphType(phase[g], at[g], passed[g], field[g], live[g], running[g],
                   stopping[g], refused[g])
      /\ Owned(passed[g], field[g])
      /\ Building(at[g], field[g], live[g], running[g], stopping[g], refused[g])
  BY <1>1, Now DEF Sound
<1>4. /\ "graph_topic" \in Resources /\ "thread_pinfo" \in Resources
      /\ "participants" \notin Resources
  BY ResourceNames
<1>5. field[g]["graph_topic"] = "null" /\ "graph_topic" \notin live[g]
  BY <1>1, <1>3, <1>4, OrderFacts DEF Building
<1>6. Sound(phase[g], i, passed[g], f, li, running[g], stopping[g], refused[g])
  <2>1. CASE finds
    <3>1. /\ f \in [Resources -> {"null", "passed", "own"}]
          /\ f["graph_topic"] = "own"
          /\ \A s \in Resources : s # "graph_topic" => f[s] = field[g][s]
      BY <1>3, <1>4, <2>1 DEF GraphType
    <3>2. i = 6 /\ li = live[g] \cup {"graph_topic"}
      BY <1>1, <2>1
    <3> HIDE DEF f, li, i
    <3>3. GraphType(phase[g], i, passed[g], f, li, running[g], stopping[g], refused[g])
      BY <1>3, <1>4, <3>1, <3>2 DEF GraphType
    <3>4. Owned(passed[g], f)
      BY <1>3, <2>1, <3>1 DEF Owned
    <3>5. Building(i, f, li, running[g], stopping[g], refused[g])
      <4>1. \A s \in Resources : s \in li <=> f[s] = "own"
        BY <1>3, <1>5, <3>1, <3>2 DEF Building
      <4>2. \A s \in Resources : i <= Order(s) => f[s] = "null"
        BY <1>1, <1>3, <3>1, <3>2, OrderFacts DEF Building
      <4>3. \A s \in Resources : Order(s) < i /\ s # "thread_pinfo" => f[s] # "null"
        <5> SUFFICES ASSUME NEW s \in Resources, Order(s) < i, s # "thread_pinfo",
                            s # "graph_topic"
                     PROVE  f[s] # "null"
          BY <3>1
        <5>1. Order(s) # 5 /\ Order(s) # 4 /\ Order(s) \in 1 .. 11
          BY <1>4, OrderFacts
        <5>2. Order(s) < at[g]
          BY <1>1, <3>2, <5>1
        <5> QED
          BY <1>3, <3>1, <5>2 DEF Building
      <4>4. f["thread_pinfo"] = field[g]["thread_pinfo"] /\ "participants" \notin li
        BY <1>3, <1>4, <3>1, <3>2 DEF Building
      <4> QED
        BY <1>3, <4>1, <4>2, <4>3, <4>4 DEF Building
    <3> QED
      BY <1>1, <3>3, <3>4, <3>5 DEF Sound
  <2>2. CASE ~finds
    <3>1. i = 5 /\ f = field[g] /\ li = live[g]
      BY <1>1, <2>2
    <3> HIDE DEF f, li, i
    <3>2. GraphType(phase[g], i, passed[g], f, li, running[g], stopping[g], refused[g])
      BY <1>3, <3>1 DEF GraphType
    <3>3. Building(i, f, li, running[g], stopping[g], refused[g])
      BY <1>1, <1>3, <3>1, OrderFacts DEF Building
    <3> QED
      BY <1>1, <1>3, <3>1, <3>2, <3>3 DEF Sound
  <2> QED
    BY <2>1, <2>2
<1>7. \/ ("graph_topic" \in li <=> "graph_topic" \in live[g]) /\ topic_refs' = topic_refs
      \/ "graph_topic" \in li \ live[g] /\ topic_refs' = topic_refs + 1
  BY <1>2, <1>5
<1> HIDE DEF f, li, i
<1> QED
  BY <1>2, <1>6, <1>7, StepOfOne

BeginsFailing(g) ==
  /\ Goto(g, "failing")
  /\ UNCHANGED <<passed, field, live, running, stopping, topic_refs, lost, refused>>

\* Whatever initialize has done before it fails, finalize takes it as it is.
LEMMA FailingInv ==
  ASSUME LInv, NEW g \in Graphs, phase[g] = "initialize", at[g] <= 11,
         BeginsFailing(g)
  PROVE  LInv'
<1>1. /\ phase' = [phase EXCEPT ![g] = "failing"]
      /\ at' = [at EXCEPT ![g] = 1]
      /\ passed' = [passed EXCEPT ![g] = passed[g]]
      /\ field' = [field EXCEPT ![g] = field[g]]
      /\ live' = [live EXCEPT ![g] = live[g]]
      /\ running' = [running EXCEPT ![g] = running[g]]
      /\ stopping' = [stopping EXCEPT ![g] = stopping[g]]
      /\ refused' = [refused EXCEPT ![g] = refused[g]]
      /\ topic_refs' = topic_refs /\ lost' = lost
  BY Kept DEF BeginsFailing, Goto
<1>2. /\ GraphType(phase[g], at[g], passed[g], field[g], live[g], running[g],
                   stopping[g], refused[g])
      /\ Owned(passed[g], field[g])
      /\ Building(at[g], field[g], live[g], running[g], stopping[g], refused[g])
  BY Now DEF Sound
<1>3. Sound("failing", 1, passed[g], field[g], live[g], running[g], stopping[g],
            refused[g])
  <2>1. field[g]["thread_pinfo"] = "null"
    BY <1>2, OrderFacts, ResourceNames DEF Building
  <2>2. running[g] = FALSE
    BY <1>2, <2>1 DEF Building, GraphType
  <2>3. Ending(1, field[g], live[g], running[g], stopping[g], refused[g])
    <3>1. \A r \in Resources : r \in live[g] <=> field[g][r] = "own" /\ 1 <= Back(r)
      BY <1>2, BackFacts DEF Building
    <3>2. refused[g] = FALSE /\ ~(stopping[g] = TRUE)
      BY <1>2 DEF Building
    <3>3. ~(running[g] = TRUE)
      BY <2>2
    <3> QED
      BY <2>1, <3>1, <3>2, <3>3 DEF Ending
  <2>4. GraphType("failing", 1, passed[g], field[g], live[g], running[g], stopping[g],
                  refused[g])
    BY <1>2 DEF GraphType, Phases
  <2> QED
    BY <1>2, <2>2, <2>3, <2>4 DEF Sound, Building
<1> QED
  BY <1>1, <1>3, StepOfOne

LEMMA RegisterTypeFailsInv ==
  ASSUME LInv, NEW g \in Graphs, RegisterTypeFails(g)
  PROVE  LInv'
<1>1. at[g] = 4 /\ phase[g] = "initialize"
  BY Now, AtFindTopic DEF RegisterTypeFails
<1> QED
  BY <1>1, FailingInv DEF RegisterTypeFails, BeginsFailing

LEMMA CreateFailsInv ==
  ASSUME LInv, NEW g \in Graphs, NEW r \in Resources, CreateFails(g, r)
  PROVE  LInv'
<1>1. at[g] = Order(r) /\ phase[g] = "initialize"
  BY Now, AtOrder DEF CreateFails
<1>2. at[g] \in 1 .. 11
  BY <1>1, OrderFacts
<1>3. CASE r # "thread_pinfo"
  BY <1>1, <1>2, <1>3, FailingInv DEF CreateFails, BeginsFailing
<1>4. CASE r = "thread_pinfo"
  <2>1. /\ phase' = [phase EXCEPT ![g] = phase[g]]
        /\ at' = [at EXCEPT ![g] = 12]
        /\ passed' = [passed EXCEPT ![g] = passed[g]]
        /\ field' = [field EXCEPT ![g] = field[g]]
        /\ live' = [live EXCEPT ![g] = live[g]]
        /\ running' = [running EXCEPT ![g] = running[g]]
        /\ stopping' = [stopping EXCEPT ![g] = stopping[g]]
        /\ refused' = [refused EXCEPT ![g] = refused[g]]
        /\ topic_refs' = topic_refs /\ lost' = lost
    <3>1. at[g] + 1 = 12
      BY <1>1, <1>4, OrderFacts
    <3> QED
      BY <1>4, <3>1, Kept DEF CreateFails, Proceed
  <2>2. /\ GraphType(phase[g], at[g], passed[g], field[g], live[g], running[g],
                     stopping[g], refused[g])
        /\ Owned(passed[g], field[g])
        /\ Building(at[g], field[g], live[g], running[g], stopping[g], refused[g])
    BY <1>1, Now DEF Sound
  <2>3. Building(12, field[g], live[g], running[g], stopping[g], refused[g])
    <3>1. \A s \in Resources : ~(12 <= Order(s))
      BY OrderFacts
    <3>2. \A s \in Resources : s # "thread_pinfo" => Order(s) < at[g]
      BY <1>1, <1>4, OrderFacts
    <3> QED
      BY <2>2, <3>1, <3>2 DEF Building
  <2>4. GraphType(phase[g], 12, passed[g], field[g], live[g], running[g], stopping[g],
                  refused[g])
    BY <2>2 DEF GraphType
  <2>5. Sound(phase[g], 12, passed[g], field[g], live[g], running[g], stopping[g],
              refused[g])
    BY <1>1, <2>2, <2>3, <2>4 DEF Sound
  <2> QED
    BY <2>1, <2>5, StepOfOne
<1> QED
  BY <1>3, <1>4

LEMMA InitializeDoneInv ==
  ASSUME LInv, NEW g \in Graphs, InitializeDone(g)
  PROVE  LInv'
<1>1. /\ phase[g] = "initialize" /\ at[g] = 12
      /\ phase' = [phase EXCEPT ![g] = "up"]
      /\ at' = [at EXCEPT ![g] = 1]
      /\ passed' = [passed EXCEPT ![g] = passed[g]]
      /\ field' = [field EXCEPT ![g] = field[g]]
      /\ live' = [live EXCEPT ![g] = live[g]]
      /\ running' = [running EXCEPT ![g] = running[g]]
      /\ stopping' = [stopping EXCEPT ![g] = stopping[g]]
      /\ refused' = [refused EXCEPT ![g] = refused[g]]
      /\ topic_refs' = topic_refs /\ lost' = lost
  BY Kept, Now, SetupSteps DEF InitializeDone, Goto
<1>2. /\ GraphType(phase[g], at[g], passed[g], field[g], live[g], running[g],
                   stopping[g], refused[g])
      /\ Owned(passed[g], field[g])
      /\ Building(at[g], field[g], live[g], running[g], stopping[g], refused[g])
  BY <1>1, Now DEF Sound
<1>3. Complete(field[g], live[g], running[g], stopping[g], refused[g])
  <2>1. \A s \in Resources : Order(s) < at[g]
    BY <1>1, OrderFacts
  <2> QED
    BY <1>2, <2>1 DEF Building, Complete
<1>4. GraphType("up", 1, passed[g], field[g], live[g], running[g], stopping[g],
                refused[g])
  BY <1>2 DEF GraphType, Phases
<1>5. Sound("up", 1, passed[g], field[g], live[g], running[g], stopping[g], refused[g])
  BY <1>2, <1>3, <1>4 DEF Sound
<1> QED
  BY <1>1, <1>5, StepOfOne

-----------------------------------------------------------------------------
(* Use and release. *)

LEMMA GatherInv ==
  ASSUME LInv, NEW g \in Graphs, Gather(g)
  PROVE  LInv'
<1> DEFINE li == live[g] \cup {"participants"}
<1>1. /\ phase[g] = "up"
      /\ phase' = [phase EXCEPT ![g] = phase[g]]
      /\ at' = [at EXCEPT ![g] = at[g]]
      /\ passed' = [passed EXCEPT ![g] = passed[g]]
      /\ field' = [field EXCEPT ![g] = field[g]]
      /\ live' = [live EXCEPT ![g] = li]
      /\ running' = [running EXCEPT ![g] = running[g]]
      /\ stopping' = [stopping EXCEPT ![g] = stopping[g]]
      /\ refused' = [refused EXCEPT ![g] = refused[g]]
      /\ topic_refs' = topic_refs /\ lost' = lost
  BY Kept DEF Gather
<1>2. /\ GraphType(phase[g], at[g], passed[g], field[g], live[g], running[g],
                   stopping[g], refused[g])
      /\ Owned(passed[g], field[g])
      /\ Complete(field[g], live[g], running[g], stopping[g], refused[g])
  BY <1>1, Now DEF Sound
<1>3. Complete(field[g], li, running[g], stopping[g], refused[g])
  BY <1>2, ResourceNames DEF Complete
<1>4. GraphType(phase[g], at[g], passed[g], field[g], li, running[g], stopping[g],
                refused[g])
  BY <1>2 DEF GraphType
<1>5. Sound(phase[g], at[g], passed[g], field[g], li, running[g], stopping[g],
            refused[g])
  BY <1>1, <1>2, <1>3, <1>4 DEF Sound
<1>6. "graph_topic" \in li <=> "graph_topic" \in live[g]
  OBVIOUS
<1> HIDE DEF li
<1> QED
  BY <1>1, <1>5, <1>6, StepOfOne

LEMMA DeleteInv ==
  ASSUME LInv, NEW g \in Graphs, Delete(g)
  PROVE  LInv'
<1>1. /\ phase[g] = "up"
      /\ phase' = [phase EXCEPT ![g] = "deleting"]
      /\ at' = [at EXCEPT ![g] = 1]
      /\ passed' = [passed EXCEPT ![g] = passed[g]]
      /\ field' = [field EXCEPT ![g] = field[g]]
      /\ live' = [live EXCEPT ![g] = live[g]]
      /\ running' = [running EXCEPT ![g] = running[g]]
      /\ stopping' = [stopping EXCEPT ![g] = stopping[g]]
      /\ refused' = [refused EXCEPT ![g] = refused[g]]
      /\ topic_refs' = topic_refs /\ lost' = lost
  BY Kept DEF Delete, Goto
<1>2. /\ GraphType(phase[g], at[g], passed[g], field[g], live[g], running[g],
                   stopping[g], refused[g])
      /\ Owned(passed[g], field[g])
      /\ Complete(field[g], live[g], running[g], stopping[g], refused[g])
  BY <1>1, Now DEF Sound
<1>3. Ending(1, field[g], live[g], running[g], stopping[g], refused[g])
  <2>1. \A r \in Resources : r \in live[g] <=> field[g][r] = "own" /\ 1 <= Back(r)
    BY <1>2, BackFacts DEF Complete
  <2>2. refused[g] = FALSE /\ ~(stopping[g] = TRUE)
    BY <1>2 DEF Complete
  <2>3. running[g] = TRUE => \A r \in Resources : field[g][r] # "null"
    BY <1>2 DEF Complete
  <2> QED
    BY <2>1, <2>2, <2>3 DEF Ending
<1>4. GraphType("deleting", 1, passed[g], field[g], live[g], running[g], stopping[g],
                refused[g])
  BY <1>2 DEF GraphType, Phases
<1>5. Sound("deleting", 1, passed[g], field[g], live[g], running[g], stopping[g],
            refused[g])
  BY <1>2, <1>3, <1>4 DEF Sound
<1> QED
  BY <1>1, <1>5, StepOfOne

\* The thread is never passed.
LEMMA ThreadIsOwn ==
  ASSUME LInv, NEW g \in Graphs
  PROVE  field[g]["thread_pinfo"] \in {"null", "own"}
<1>1. /\ Owned(passed[g], field[g]) /\ "thread_pinfo" \in Resources
      /\ passed[g] \subseteq DdsEntities \cup {"graph_participant"}
      /\ field[g] \in [Resources -> {"null", "passed", "own"}]
  BY Now, ResourceNames DEF GraphType
<1>2. "thread_pinfo" \notin passed[g]
  BY <1>1 DEF DdsEntities
<1>3. field[g]["thread_pinfo"] \in {"null", "passed", "own"}
  BY <1>1
<1> QED
  BY <1>1, <1>2, <1>3 DEF Owned

LEMMA StopInv ==
  ASSUME LInv, NEW g \in Graphs, Stop(g)
  PROVE  LInv'
<1> DEFINE st == (field[g]["thread_pinfo"] # "null")
<1>1. /\ at[g] = 1 /\ phase[g] \in {"failing", "deleting"}
  BY Now, AtStop DEF Stop
<1>2. /\ phase' = [phase EXCEPT ![g] = phase[g]]
      /\ at' = [at EXCEPT ![g] = 2]
      /\ passed' = [passed EXCEPT ![g] = passed[g]]
      /\ field' = [field EXCEPT ![g] = field[g]]
      /\ live' = [live EXCEPT ![g] = live[g]]
      /\ running' = [running EXCEPT ![g] = running[g]]
      /\ stopping' = [stopping EXCEPT ![g] = st]
      /\ refused' = [refused EXCEPT ![g] = refused[g]]
      /\ topic_refs' = topic_refs /\ lost' = lost
  <2>1. at[g] + 1 = 2
    BY <1>1
  <2> QED
    BY <2>1, Kept DEF Stop, Proceed
<1>3. /\ GraphType(phase[g], at[g], passed[g], field[g], live[g], running[g],
                   stopping[g], refused[g])
      /\ Owned(passed[g], field[g])
      /\ Ending(1, field[g], live[g], running[g], stopping[g], refused[g])
  BY <1>1, Now DEF Sound
<1>4. st \in BOOLEAN /\ (st = TRUE <=> field[g]["thread_pinfo"] = "own")
  BY ThreadIsOwn
<1> HIDE DEF st
<1>5. Ending(2, field[g], live[g], running[g], st, refused[g])
  <2>1. \A r \in Resources : r \in live[g] <=> field[g][r] = "own" /\ 2 <= Back(r)
    BY <1>3, BackFacts DEF Ending
  <2> QED
    BY <1>3, <1>4, <2>1 DEF Ending
<1>6. GraphType(phase[g], 2, passed[g], field[g], live[g], running[g], st, refused[g])
  BY <1>3, <1>4 DEF GraphType
<1>7. phase[g] = "failing" => running[g] = FALSE /\ "participants" \notin live[g]
  BY Now DEF Sound
<1>8. Sound(phase[g], 2, passed[g], field[g], live[g], running[g], st, refused[g])
  BY <1>1, <1>3, <1>5, <1>6, <1>7 DEF Sound
<1> QED
  BY <1>2, <1>8, StepOfOne

LEMMA ThreadExitInv ==
  ASSUME LInv, NEW g \in Graphs, ThreadExit(g)
  PROVE  LInv'
<1>1. /\ running[g] = TRUE /\ stopping[g] = TRUE
      /\ phase' = [phase EXCEPT ![g] = phase[g]]
      /\ at' = [at EXCEPT ![g] = at[g]]
      /\ passed' = [passed EXCEPT ![g] = passed[g]]
      /\ field' = [field EXCEPT ![g] = field[g]]
      /\ live' = [live EXCEPT ![g] = live[g]]
      /\ running' = [running EXCEPT ![g] = FALSE]
      /\ stopping' = [stopping EXCEPT ![g] = stopping[g]]
      /\ refused' = [refused EXCEPT ![g] = refused[g]]
      /\ topic_refs' = topic_refs /\ lost' = lost
  <2>1. running[g] = TRUE /\ stopping[g] = TRUE
    BY DEF ThreadExit, LInv, Functions
  <2> QED
    BY <2>1, Kept DEF ThreadExit
<1>2. /\ GraphType(phase[g], at[g], passed[g], field[g], live[g], running[g],
                   stopping[g], refused[g])
      /\ Owned(passed[g], field[g])
  BY Now
<1>3. phase[g] = "deleting"
        /\ Ending(at[g], field[g], live[g], running[g], stopping[g], refused[g])
  BY <1>1, <1>2, Now DEF Sound, Building, Complete, GraphType, Phases
<1>4. Ending(at[g], field[g], live[g], FALSE, stopping[g], refused[g])
  BY <1>3 DEF Ending
<1>5. GraphType(phase[g], at[g], passed[g], field[g], live[g], FALSE, stopping[g],
                refused[g])
  BY <1>2 DEF GraphType
<1>6. Sound(phase[g], at[g], passed[g], field[g], live[g], FALSE, stopping[g],
            refused[g])
  BY <1>2, <1>3, <1>4, <1>5 DEF Sound
<1> QED
  BY <1>1, <1>6, StepOfOne

\* When finalize has come past the thread, the thread has left.
LEMMA ThreadHasLeft ==
  ASSUME LInv, NEW g \in Graphs, NEW r \in Resources, AtTeardown(g, r), Joined(g, r)
  PROVE  running[g] = FALSE
<1>1. at[g] = Back(r) /\ phase[g] \in {"failing", "deleting"}
  BY Now, AtBack
<1>2. /\ GraphType(phase[g], at[g], passed[g], field[g], live[g], running[g],
                   stopping[g], refused[g])
      /\ Ending(at[g], field[g], live[g], running[g], stopping[g], refused[g])
  BY <1>1, Now DEF Sound
<1>3. running[g] \in BOOLEAN
  BY <1>2 DEF GraphType
<1>4. CASE r = "thread_pinfo"
  <2>1. field[g]["thread_pinfo"] = "own" => stopping[g] = TRUE
    BY <1>1, <1>2, <1>4, BackFacts DEF Ending
  <2>2. running[g] = TRUE => field[g]["thread_pinfo"] = "own"
    BY <1>2, ThreadIsOwn, ResourceNames DEF Ending
  <2>3. stopping[g] = TRUE => ~running[g]
    BY <1>4 DEF Joined
  <2> QED
    BY <1>3, <2>1, <2>2, <2>3
<1>5. CASE r # "thread_pinfo"
  <2>1. Back(r) \in 2 .. 11 /\ Back(r) # 2
    BY <1>5, BackFacts, ResourceNames
  <2> QED
    BY <1>1, <1>2, <1>3, <2>1 DEF Ending
<1> QED
  BY <1>4, <1>5

LEMMA SkipInv ==
  ASSUME LInv, NEW g \in Graphs, NEW r \in Resources, Skip(g, r)
  PROVE  LInv'
<1>1. at[g] = Back(r) /\ phase[g] \in {"failing", "deleting"}
  BY Now, AtBack DEF Skip
<1>2. /\ phase' = [phase EXCEPT ![g] = phase[g]]
      /\ at' = [at EXCEPT ![g] = at[g] + 1]
      /\ passed' = [passed EXCEPT ![g] = passed[g]]
      /\ field' = [field EXCEPT ![g] = field[g]]
      /\ live' = [live EXCEPT ![g] = live[g]]
      /\ running' = [running EXCEPT ![g] = running[g]]
      /\ stopping' = [stopping EXCEPT ![g] = stopping[g]]
      /\ refused' = [refused EXCEPT ![g] = refused[g]]
      /\ topic_refs' = topic_refs /\ lost' = lost
  BY Kept DEF Skip, Proceed
<1>3. /\ GraphType(phase[g], at[g], passed[g], field[g], live[g], running[g],
                   stopping[g], refused[g])
      /\ Owned(passed[g], field[g])
      /\ Ending(at[g], field[g], live[g], running[g], stopping[g], refused[g])
      /\ phase[g] = "failing" => "participants" \notin live[g]
  BY <1>1, Now DEF Sound
<1>4. running[g] = FALSE /\ field[g][r] # "own"
  BY ThreadHasLeft DEF Skip, Deletes
<1>5. Ending(at[g] + 1, field[g], live[g], running[g], stopping[g], refused[g])
  <2>1. \A s \in Resources : s \in live[g] <=> field[g][s] = "own" /\ at[g] + 1 <= Back(s)
    BY <1>1, <1>3, <1>4, BackFacts DEF Ending
  <2>2. at[g] > 1 /\ at[g] + 1 > 1
    BY <1>1, BackFacts
  <2> QED
    BY <1>3, <1>4, <2>1, <2>2 DEF Ending
<1>6. GraphType(phase[g], at[g] + 1, passed[g], field[g], live[g], running[g],
                stopping[g], refused[g])
  BY <1>1, <1>3, BackFacts DEF GraphType
<1>7. Sound(phase[g], at[g] + 1, passed[g], field[g], live[g], running[g],
            stopping[g], refused[g])
  BY <1>1, <1>3, <1>4, <1>5, <1>6 DEF Sound
<1> QED
  BY <1>2, <1>7, StepOfOne

LEMMA ReleaseInv ==
  ASSUME LInv, NEW g \in Graphs, NEW r \in Resources, Release(g, r)
  PROVE  LInv'
<1> DEFINE li == live[g] \ {r}
<1>1. at[g] = Back(r) /\ phase[g] \in {"failing", "deleting"}
  BY Now, AtBack DEF Release
<1>2. /\ GraphType(phase[g], at[g], passed[g], field[g], live[g], running[g],
                   stopping[g], refused[g])
      /\ Owned(passed[g], field[g])
      /\ Ending(at[g], field[g], live[g], running[g], stopping[g], refused[g])
      /\ phase[g] = "failing" => "participants" \notin live[g]
  BY <1>1, Now DEF Sound
<1>3. /\ running[g] = FALSE /\ field[g][r] = "own"
      /\ r \notin passed[g] /\ r \in live[g]
  <2>1. running[g] = FALSE /\ field[g][r] = "own"
    BY ThreadHasLeft DEF Release, Deletes
  <2>2. at[g] <= Back(r)
    BY <1>1, BackFacts
  <2> QED
    BY <1>2, <2>1, <2>2 DEF Owned, Ending
<1>4. lost' = lost
  <2>1. lost' = [lost EXCEPT ![g] = lost[g] \cup ({r} \cap passed[g])]
    BY DEF Release
  <2>2. {r} \cap passed[g] = {}
    BY <1>3
  <2>3. lost = [h \in Graphs |-> {}]
    BY DEF LInv
  <2> QED
    BY <2>1, <2>2, <2>3
<1>5. /\ phase' = [phase EXCEPT ![g] = phase[g]]
      /\ at' = [at EXCEPT ![g] = at[g] + 1]
      /\ passed' = [passed EXCEPT ![g] = passed[g]]
      /\ field' = [field EXCEPT ![g] = field[g]]
      /\ live' = [live EXCEPT ![g] = li]
      /\ running' = [running EXCEPT ![g] = running[g]]
      /\ stopping' = [stopping EXCEPT ![g] = stopping[g]]
      /\ refused' = [refused EXCEPT ![g] = refused[g]]
      /\ topic_refs' = IF r = "graph_topic" THEN topic_refs - 1 ELSE topic_refs
  BY Kept DEF Release, Proceed
<1>6. Ending(at[g] + 1, field[g], li, running[g], stopping[g], refused[g])
  <2>1. \A s \in Resources : s \in li <=> field[g][s] = "own" /\ at[g] + 1 <= Back(s)
    BY <1>1, <1>2, BackFacts DEF Ending
  <2>2. at[g] > 1 /\ at[g] + 1 > 1
    BY <1>1, BackFacts
  <2> HIDE DEF li
  <2> QED
    BY <1>2, <1>3, <2>1, <2>2 DEF Ending
<1>7. GraphType(phase[g], at[g] + 1, passed[g], field[g], li, running[g], stopping[g],
                refused[g])
  BY <1>1, <1>2, BackFacts DEF GraphType
<1>8. Sound(phase[g], at[g] + 1, passed[g], field[g], li, running[g], stopping[g],
            refused[g])
  <2>1. phase[g] = "failing" => "participants" \notin li
    BY <1>2
  <2> HIDE DEF li
  <2> QED
    BY <1>1, <1>2, <1>3, <1>6, <1>7, <2>1 DEF Sound
<1>9. \/ ("graph_topic" \in li <=> "graph_topic" \in live[g]) /\ topic_refs' = topic_refs
      \/ "graph_topic" \in live[g] \ li /\ topic_refs' = topic_refs - 1
  BY <1>3, <1>5
<1> HIDE DEF li
<1> QED
  BY <1>4, <1>5, <1>8, <1>9, StepOfOne

\* finalize returns when all is released, or at an entity that DDS did not delete.
LEMMA ReturnInv ==
  ASSUME LInv, NEW g \in Graphs, NEW re \in BOOLEAN,
         phase[g] \in {"failing", "deleting"}, at[g] > 2, re = FALSE => at[g] > 11,
         refused' = [refused EXCEPT ![g] = re],
         Return(g)
  PROVE  LInv'
<1> DEFINE ph == IF phase[g] = "failing" THEN "failed" ELSE "deleted"
           li == IF phase[g] = "failing" THEN live[g] ELSE live[g] \ {"c_pinfo"}
<1>1. /\ phase' = [phase EXCEPT ![g] = ph]
      /\ at' = [at EXCEPT ![g] = 1]
      /\ passed' = [passed EXCEPT ![g] = passed[g]]
      /\ field' = [field EXCEPT ![g] = field[g]]
      /\ live' = [live EXCEPT ![g] = li]
      /\ running' = [running EXCEPT ![g] = running[g]]
      /\ stopping' = [stopping EXCEPT ![g] = stopping[g]]
      /\ topic_refs' = topic_refs /\ lost' = lost
  BY Kept DEF Return, Goto
<1>2. /\ GraphType(phase[g], at[g], passed[g], field[g], live[g], running[g],
                   stopping[g], refused[g])
      /\ Owned(passed[g], field[g])
      /\ Ending(at[g], field[g], live[g], running[g], stopping[g], refused[g])
      /\ phase[g] = "failing" => "participants" \notin live[g]
  BY Now DEF Sound
<1>3. running[g] = FALSE
  BY <1>2, Now DEF Ending, GraphType
<1>4. re = FALSE => \A r \in Resources : r \notin live[g]
  <2>1. at[g] \in 1 .. 12
    BY Now
  <2> QED
    BY <1>2, <2>1, BackFacts DEF Ending
<1>5. ph \in {"failed", "deleted"}
      /\ (ph = "failed" <=> phase[g] = "failing")
      /\ li \subseteq live[g]
  OBVIOUS
<1>6. GraphType(ph, 1, passed[g], field[g], li, running[g], stopping[g], re)
  <2> HIDE DEF ph, li
  <2>1. ph \in Phases
    BY <1>5 DEF Phases
  <2> QED
    BY <1>2, <1>5, <2>1 DEF GraphType
<1>7. ph = "failed" /\ re = FALSE => li \subseteq {"c_pinfo"}
  <2> SUFFICES ASSUME phase[g] = "failing", re = FALSE
               PROVE  live[g] \subseteq {"c_pinfo"}
    BY <1>5
  <2>1. live[g] \subseteq Resources \cup {"c_pinfo", "participants"}
    BY <1>2 DEF GraphType
  <2> QED
    BY <1>2, <1>4, <2>1
<1>8. ph = "deleted" /\ re = FALSE => li \subseteq {"participants"}
  <2> SUFFICES ASSUME phase[g] # "failing", re = FALSE
               PROVE  live[g] \ {"c_pinfo"} \subseteq {"participants"}
    BY <1>5
  <2>1. live[g] \subseteq Resources \cup {"c_pinfo", "participants"}
    BY <1>2 DEF GraphType
  <2> QED
    BY <1>4, <2>1
<1>9. "graph_topic" \in li <=> "graph_topic" \in live[g]
  OBVIOUS
<1> HIDE DEF ph, li
<1>10. Sound(ph, 1, passed[g], field[g], li, running[g], stopping[g], re)
  BY <1>2, <1>3, <1>5, <1>6, <1>7, <1>8 DEF Sound
<1> QED
  BY <1>1, <1>9, <1>10, StepOfOne

LEMMA ReleaseFailsInv ==
  ASSUME LInv, NEW g \in Graphs, NEW r \in Resources, ReleaseFails(g, r)
  PROVE  LInv'
<1>1. at[g] = Back(r) /\ phase[g] \in {"failing", "deleting"}
  BY Now, AtBack DEF ReleaseFails
<1>2. Back(r) \in 2 .. 11 /\ Back(r) # 2
  BY BackFacts, ResourceNames DEF ReleaseFails, DdsEntities
<1>3. PICK re \in BOOLEAN : re = TRUE
  OBVIOUS
<1>4. refused' = [refused EXCEPT ![g] = re] /\ Return(g)
  BY <1>3 DEF ReleaseFails
<1>5. at[g] > 2 /\ ~(re = FALSE)
  BY <1>1, <1>2, <1>3
<1> QED
  BY <1>1, <1>4, <1>5, ReturnInv

LEMMA FinalizeDoneInv ==
  ASSUME LInv, NEW g \in Graphs, FinalizeDone(g)
  PROVE  LInv'
<1>1. at[g] > 11 /\ at[g] > 2 /\ phase[g] \in {"failing", "deleting"}
  BY Now, TeardownSteps DEF FinalizeDone, Finalizing
<1>2. refused[g] \in BOOLEAN /\ refused' = [refused EXCEPT ![g] = refused[g]]
  BY Kept, Now DEF FinalizeDone, GraphType
<1> QED
  BY <1>1, <1>2, ReturnInv DEF FinalizeDone

-----------------------------------------------------------------------------
(* The theorems. *)

\* Each graph is sound, and the participant's topic is held as often as graphs
\* and application hold it, whatever fails and however the threads that create
\* and delete graphs interleave.
THEOREM LifeIsSound == Spec => []LInv
<1>1. Init => LInv
  <2> SUFFICES ASSUME Init PROVE LInv
    OBVIOUS
  <2>1. /\ Cleared \in [Resources -> {"null", "passed", "own"}]
        /\ \A r \in Resources : Cleared[r] = "null"
    BY DEF Cleared
  <2>2. "absent" \in Phases
    BY DEF Phases
  <2>3. Functions
    BY <2>1, <2>2 DEF Init, Functions
  <2>4. ASSUME NEW g \in Graphs
        PROVE  GraphSound(g)
    <3>1. /\ phase[g] = "absent" /\ at[g] = 1 /\ passed[g] = {} /\ field[g] = Cleared
          /\ live[g] = {} /\ running[g] = FALSE /\ stopping[g] = FALSE
          /\ refused[g] = FALSE
      BY DEF Init
    <3>2. GraphType("absent", 1, {}, Cleared, {}, FALSE, FALSE, FALSE)
      BY <2>1, <2>2 DEF GraphType
    <3>3. Owned({}, Cleared)
      BY <2>1 DEF Owned
    <3>4. Sound("absent", 1, {}, Cleared, {}, FALSE, FALSE, FALSE)
      BY <3>2, <3>3 DEF Sound
    <3> QED
      BY <3>1, <3>4 DEF GraphSound
  <2>5. topic_refs = AppRefs + Cardinality(HoldsTopic)
    <3>1. HoldsTopic = {}
      BY DEF Init, HoldsTopic
    <3>2. Cardinality({}) = 0
      BY FS_EmptySet
    <3> QED
      BY <3>1, <3>2, LifecycleAssumption DEF Init
  <2>6. lost = [g \in Graphs |-> {}]
    BY DEF Init
  <2> QED
    BY <2>3, <2>4, <2>5, <2>6 DEF LInv
<1>2. LInv /\ [Next]_vars => LInv'
  <2> SUFFICES ASSUME LInv, [Next]_vars PROVE LInv'
    OBVIOUS
  <2>1. CASE UNCHANGED vars
    BY <2>1, Zenon DEF vars, LInv, Functions, GraphSound, HoldsTopic
  <2>2. ASSUME NEW g \in Graphs, Application(g)
        PROVE  LInv'
    <3>1. ASSUME NEW entities \in SUBSET DdsEntities, New(g, entities)
          PROVE  LInv'
      BY <3>1, AllocateInv DEF New
    <3>2. CASE NewCpp(g)
      BY <3>2, AllocateInv DEF NewCpp
    <3>3. CASE NewWithoutParticipant(g)
      BY <3>3, AllocateInv DEF NewWithoutParticipant
    <3> QED
      BY <2>2, <3>1, <3>2, <3>3, DeleteInv DEF Application
  <2>3. ASSUME NEW g \in Graphs, InitializeStep(g)
        PROVE  LInv'
    BY <2>3, TakePassedInv, CreateInv, CreateFailsInv, FindTopicInv,
       RegisterTypeFailsInv, InitializeDoneInv DEF InitializeStep
  <2>4. ASSUME NEW g \in Graphs, FinalizeStep(g)
        PROVE  LInv'
    BY <2>4, SkipInv, ReleaseInv, ReleaseFailsInv, StopInv, FinalizeDoneInv
       DEF FinalizeStep
  <2> QED
    BY <2>1, <2>2, <2>3, <2>4, GatherInv, ThreadExitInv DEF Next
<1> QED
  BY <1>1, <1>2, PTL DEF Spec

\* Every variable keeps its type; finalize never comes past its last step.
THEOREM TypeCorrect == Spec => []TypeOK
<1>1. LInv => TypeOK
  <2> SUFFICES ASSUME LInv PROVE TypeOK
    OBVIOUS
  <2>1. Len(Setup) + 1 = 12
    BY SetupSteps
  <2>2. topic_refs \in Nat
    BY HoldersCounted, LifecycleAssumption, FS_Subset, FS_CardinalityType
       DEF LInv, HoldsTopic
  <2>3. lost \in [Graphs -> SUBSET DdsEntities]
    BY DEF LInv
  <2> QED
    BY <2>1, <2>2, <2>3 DEF TypeOK, LInv, Functions
<1> QED
  BY <1>1, LifeIsSound, PTL

\* From its first instruction to its last the update thread has everything it
\* works with.
THEOREM ThreadAlwaysHasAll == Spec => []ThreadHasAll
<1>1. LInv => ThreadHasAll
  <2> SUFFICES ASSUME LInv, NEW g \in Graphs, running[g], NEW r \in Resources
               PROVE  r \in live[g] \cup passed[g]
    BY DEF ThreadHasAll
  <2>1. /\ GraphType(phase[g], at[g], passed[g], field[g], live[g], running[g],
                     stopping[g], refused[g])
        /\ Owned(passed[g], field[g])
    BY Now
  <2>2. running[g] = TRUE
    BY <2>1 DEF GraphType
  <2>3. field[g][r] \in {"null", "passed", "own"}
    BY <2>1 DEF GraphType
  <2>4. field[g][r] = "passed" => r \in passed[g]
    BY <2>1 DEF Owned
  <2>5. CASE phase[g] = "initialize"
    <3>1. Building(at[g], field[g], live[g], running[g], stopping[g], refused[g])
      BY <2>5, Now DEF Sound
    <3>2. field[g]["thread_pinfo"] = "own"
      BY <2>2, <3>1 DEF Building
    <3>3. ~(at[g] <= Order("thread_pinfo"))
      BY <3>1, <3>2, ResourceNames DEF Building
    <3>4. Order(r) < at[g]
      BY <3>3, Now, OrderFacts
    <3>5. field[g][r] # "null"
      BY <3>1, <3>2, <3>4 DEF Building
    <3> QED
      BY <2>3, <2>4, <3>1, <3>5 DEF Building
  <2>6. CASE phase[g] = "up"
    <3>1. Complete(field[g], live[g], running[g], stopping[g], refused[g])
      BY <2>6, Now DEF Sound
    <3> QED
      BY <2>2, <2>3, <2>4, <3>1 DEF Complete
  <2>7. CASE phase[g] \in {"failing", "deleting"}
    <3>1. Ending(at[g], field[g], live[g], running[g], stopping[g], refused[g])
      BY <2>7, Now DEF Sound
    <3>2. at[g] <= Back(r)
      BY <2>2, <3>1, Now, BackFacts DEF Ending
    <3> QED
      BY <2>2, <2>3, <2>4, <3>1, <3>2 DEF Ending
  <2>8. CASE phase[g] \in {"absent", "failed", "deleted"}
    BY <2>2, <2>8, Now DEF Sound
  <2>9. phase[g] \in Phases
    BY <2>1 DEF GraphType
  <2> QED
    BY <2>5, <2>6, <2>7, <2>8, <2>9 DEF Phases
<1> QED
  BY <1>1, LifeIsSound, PTL

\* No graph drops another's reference on the topic or leaves one of its own.
THEOREM TopicCounted == Spec => []TopicRefsMatch
<1>1. LInv => TopicRefsMatch
  BY DEF LInv, HoldsTopic, TopicRefsMatch
<1> QED
  BY <1>1, LifeIsSound, PTL

\* No graph deletes what the application has passed to it.
THEOREM PassedEntitiesKept == Spec => []PassedEntitiesStay
<1>1. LInv => PassedEntitiesStay
  BY DEF LInv, PassedEntitiesStay
<1> QED
  BY <1>1, LifeIsSound, PTL

\* All that was created is released, unless DDS has refused a delete.
THEOREM AllReleased == Spec => []NothingLeft
<1>1. LInv => NothingLeft
  <2> SUFFICES ASSUME LInv, NEW g \in Graphs, ~refused[g]
               PROVE  /\ phase[g] = "failed" => live[g] \subseteq {"c_pinfo"}
                      /\ phase[g] = "deleted" => live[g] \subseteq {"participants"}
    BY DEF NothingLeft
  <2>1. refused[g] = FALSE
    BY Now DEF GraphType
  <2> QED
    BY <2>1, Now DEF Sound
<1> QED
  BY <1>1, LifeIsSound, PTL

\* DDS has no reason of its own to refuse a delete.
THEOREM DeletesInOrder == Spec => []DeletesAccepted
<1>1. LInv => DeletesAccepted
  <2> SUFFICES ASSUME LInv, NEW g \in Graphs, NEW r \in DdsEntities,
                      AtTeardown(g, r), InUse(g, r)
               PROVE  FALSE
    BY DEF DeletesAccepted
  <2>1. r \in Resources /\ "graph_writer" \in Resources
    BY ResourceNames DEF DdsEntities
  <2>2. at[g] = Back(r) /\ phase[g] \in {"failing", "deleting"}
    BY <2>1, Now, AtBack
  <2>3. Ending(at[g], field[g], live[g], running[g], stopping[g], refused[g])
    BY <2>2, Now DEF Sound
  <2>4. "graph_writer" \in live[g] /\ r \in {"graph_publisher", "graph_topic"}
    BY DEF InUse
  <2>5. at[g] <= 7
    BY <2>1, <2>3, <2>4, BackFacts DEF Ending
  <2> QED
    BY <2>2, <2>4, <2>5, BackFacts
<1> QED
  BY <1>1, LifeIsSound, PTL

\* finalize waits only for a thread that was told to leave and will.
THEOREM ExitAlwaysComes == Spec => []ExitComes
<1>1. LInv => ExitComes
  <2> SUFFICES ASSUME LInv, NEW g \in Graphs, AtTeardown(g, "thread_pinfo"),
                      ~Joined(g, "thread_pinfo")
               PROVE  running[g] /\ stopping[g]
    BY DEF ExitComes
  <2>1. /\ at[g] = 2 /\ phase[g] \in {"failing", "deleting"}
    BY Now, AtBack, BackFacts, ResourceNames
  <2>2. Ending(at[g], field[g], live[g], running[g], stopping[g], refused[g])
    BY <2>1, Now DEF Sound
  <2>3. stopping[g] /\ (field[g]["thread_pinfo"] = "null" \/ running[g])
    BY DEF Joined
  <2>4. stopping[g] = TRUE
    BY <2>3, Now DEF GraphType
  <2>5. field[g]["thread_pinfo"] = "own"
    BY <2>2, <2>4 DEF Ending
  <2> QED
    BY <2>3, <2>5
<1> QED
  BY <1>1, LifeIsSound, PTL
=============================================================================
