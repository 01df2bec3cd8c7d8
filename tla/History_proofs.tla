--------------------------- MODULE History_proofs ---------------------------
(***************************************************************************)
(* Machine-checked proofs about History, for every set of participants,    *)
(* every history depth and every number of rounds that errors end.         *)
(***************************************************************************)
EXTENDS History, Integers, FiniteSetTheorems, SequenceTheorems, TLAPS

-----------------------------------------------------------------------------
(* Samples near the end of a sequence. *)

\* A sample of p is followed by no more than n others.
Recent(samples, p, n) ==
  \E i \in DOMAIN samples : samples[i] = p /\ Len(samples) - i <= n

LEMMA RecentLater ==
  ASSUME NEW samples \in Seq(Participants), NEW p, NEW m \in Int, NEW n \in Int, m <= n,
         Recent(samples, p, m)
  PROVE  Recent(samples, p, n)
<1>1. DOMAIN samples = 1 .. Len(samples) /\ Len(samples) \in Nat
  BY LenProperties
<1> QED
  BY <1>1 DEF Recent

\* What KeepLast drops is not recent.
LEMMA KeepLastKeeps ==
  ASSUME NEW samples \in Seq(Participants), NEW q \in Participants, NEW depth \in Nat,
         depth # 0
  PROVE  LET kept == KeepLast(Append(samples, q), depth)
         IN  /\ kept \in Seq(Participants)
             /\ Recent(kept, q, 0)
             /\ \A p : \A n \in Int : n + 1 < depth /\ Recent(samples, p, n)
                  => Recent(kept, p, n + 1)
<1> DEFINE longer == Append(samples, q)
           kept == KeepLast(longer, depth)
           count == Len(samples)
<1>1. count \in Nat /\ DOMAIN samples = 1 .. count
  BY LenProperties
<1>2. /\ longer \in Seq(Participants) /\ Len(longer) = count + 1
      /\ \A i \in 1 .. count : longer[i] = samples[i]
      /\ longer[count + 1] = q
  BY AppendProperties
<1>3. DOMAIN longer = 1 .. count + 1
  BY <1>2, LenProperties
<1> HIDE DEF longer
<1>4. CASE count + 1 <= depth
  <2>1. kept = longer
    BY <1>2, <1>4 DEF KeepLast
  <2>2. Recent(longer, q, 0)
    BY <1>1, <1>2, <1>3 DEF Recent
  <2>3. ASSUME NEW p, NEW n \in Int, Recent(samples, p, n)
        PROVE  Recent(longer, p, n + 1)
    <3>1. PICK i \in 1 .. count : samples[i] = p /\ count - i <= n
      BY <1>1, <2>3 DEF Recent
    <3>2. i \in DOMAIN longer /\ longer[i] = p /\ Len(longer) - i <= n + 1
      BY <1>1, <1>2, <1>3, <3>1
    <3> QED
      BY <3>2 DEF Recent
  <2> QED
    BY <1>2, <2>1, <2>2, <2>3 DEF longer
<1>5. CASE ~(count + 1 <= depth)
  <2>1. kept = Tail(longer)
    BY <1>2, <1>5 DEF KeepLast
  <2>2. longer # <<>>
    BY <1>1, <1>2, EmptySeq
  <2>3. /\ Tail(longer) \in Seq(Participants)
        /\ Len(Tail(longer)) = count
        /\ \A i \in 1 .. count : Tail(longer)[i] = longer[i + 1]
    BY <1>1, <1>2, <2>2, HeadTailProperties
  <2>4. DOMAIN Tail(longer) = 1 .. count
    BY <2>3, LenProperties
  <2>5. count \in 1 .. count /\ depth <= count
    BY <1>1, <1>5
  <2>6. Recent(Tail(longer), q, 0)
    <3>1. Tail(longer)[count] = q /\ Len(Tail(longer)) - count <= 0
      BY <1>1, <1>2, <2>3, <2>5
    <3> QED
      BY <2>4, <2>5, <3>1 DEF Recent
  <2>7. ASSUME NEW p, NEW n \in Int, n + 1 < depth, Recent(samples, p, n)
        PROVE  Recent(Tail(longer), p, n + 1)
    <3>1. PICK i \in 1 .. count : samples[i] = p /\ count - i <= n
      BY <1>1, <2>7 DEF Recent
    <3>2. i - 1 \in 1 .. count
      BY <1>1, <2>5, <2>7, <3>1
    <3>3. Tail(longer)[i - 1] = p /\ Len(Tail(longer)) - (i - 1) <= n + 1
      BY <1>1, <1>2, <2>3, <3>1, <3>2
    <3> QED
      BY <2>4, <3>2, <3>3 DEF Recent
  <2> QED
    BY <2>1, <2>3, <2>6, <2>7 DEF longer
<1> QED
  BY <1>4, <1>5

-----------------------------------------------------------------------------
(* The invariant. *)

Others == Cardinality(Participants) - 1

\* How many samples of others may follow the last one of p, when S is left to
\* visit after a rounds that errors ended.  Between rounds, those of the round
\* that wrote it and of every round that an error has ended since; in a round
\* that has yet to come to p, also those it has written; and once it has come to
\* p, those it has written after.
SinceIn(p, S, a) ==
  IF S = {} THEN Others * (1 + a)
  ELSE IF p \in S THEN Others * (1 + a) + Others + 1 - Cardinality(S)
                  ELSE Others - Cardinality(S)

MaxSince(p) == SinceIn(p, to_visit, aborts)

TypeInv ==
  /\ hosts \subseteq Participants
  /\ history \in Seq(Participants)
  /\ to_visit \subseteq Participants
  /\ aborts \in 0 .. MaxAborts
  /\ standing \subseteq hosts

HistoryInv ==
  Depth >= DepthNeeded => \A p \in standing : Recent(history, p, MaxSince(p))

HInv == TypeInv /\ HistoryInv

\* The participants to visit are finitely many.
LEMMA VisitCount ==
  ASSUME NEW S \in SUBSET Participants
  PROVE  /\ IsFiniteSet(S)
         /\ Others \in Nat
         /\ Cardinality(S) \in 0 .. Others + 1
         /\ S # {} => Cardinality(S) # 0
         /\ \A p \in S : Cardinality(S \ {p}) = Cardinality(S) - 1
         /\ \A p \in Participants \ S : Cardinality(S) <= Others
<1>1. IsFiniteSet(Participants) /\ Participants # {}
  BY HistoryAssumption
<1>2. Cardinality(Participants) \in Nat /\ Cardinality(Participants) # 0
  BY <1>1, FS_CardinalityType, FS_EmptySet
<1>3. IsFiniteSet(S) /\ Cardinality(S) <= Cardinality(Participants) /\ Cardinality(S) \in Nat
  BY <1>1, FS_Subset, FS_CardinalityType
<1>4. S # {} => Cardinality(S) # 0
  BY <1>3, FS_EmptySet
<1>5. \A p \in S : Cardinality(S \ {p}) = Cardinality(S) - 1
  BY <1>3, FS_RemoveElement
<1>6. ASSUME NEW p \in Participants \ S
      PROVE  Cardinality(S) <= Others
  <2>1. Cardinality(S \cup {p}) = Cardinality(S) + 1
    BY <1>3, FS_AddElement
  <2>2. S \cup {p} \in SUBSET Participants
    OBVIOUS
  <2>3. Cardinality(S \cup {p}) <= Cardinality(Participants)
    BY <1>1, <2>2, FS_Subset
  <2> QED
    BY <1>2, <1>3, <2>1, <2>3 DEF Others
<1> QED
  BY <1>2, <1>3, <1>4, <1>5, <1>6 DEF Others

\* SinceIn is a number below the depth that is asked for.
LEMMA SinceBounded ==
  ASSUME NEW S \in SUBSET Participants, NEW a \in 0 .. MaxAborts, NEW p
  PROVE  SinceIn(p, S, a) \in Int /\ SinceIn(p, S, a) < DepthNeeded
<1> DEFINE n == Cardinality(S)
<1>1. /\ Others \in Nat /\ MaxAborts \in Nat
      /\ n \in Nat /\ (S # {} => n # 0)
  BY VisitCount, HistoryAssumption
<1>2. DepthNeeded = (MaxAborts + 2) * Others + 1
  BY DEF DepthNeeded, Others
<1> HIDE DEF n
<1>3. Others * (1 + a) \in Nat
  BY <1>1
<1>4. (MaxAborts + 2) * Others = Others * (1 + a) + Others + Others * (MaxAborts - a)
      /\ Others * (MaxAborts - a) \in Nat
  <2>1. ASSUME NEW x \in Nat, NEW y \in Nat, NEW z \in Nat, z <= y
        PROVE  (y + 2) * x = x * (1 + z) + x + x * (y - z) /\ x * (y - z) \in Nat
    <3>1. y - z \in Nat
      BY <2>1
    <3>2. x * (y - z) \in Nat
      BY <3>1
    <3> QED
      BY <2>1, <3>2
  <2> QED
    BY <1>1, <2>1
<1>5. SinceIn(p, S, a) = IF S = {} THEN Others * (1 + a)
                         ELSE IF p \in S THEN Others * (1 + a) + Others + 1 - n
                              ELSE Others - n
  BY DEF SinceIn, n
<1> QED
  BY <1>1, <1>2, <1>3, <1>4, <1>5

-----------------------------------------------------------------------------
(* The steps. *)

\* What is recent enough stays so when MaxSince does not fall.
LEMMA SinceGrows ==
  ASSUME HInv, TypeInv', \A p \in standing' : p \in standing /\ MaxSince(p) <= MaxSince(p)',
         UNCHANGED history
  PROVE  HInv'
<1>1. history \in Seq(Participants)
  BY DEF HInv, TypeInv
<1>2. \A p : MaxSince(p) \in Int /\ MaxSince(p)' \in Int
  BY SinceBounded DEF HInv, TypeInv, MaxSince
<1>3. HistoryInv'
  <2> SUFFICES ASSUME Depth >= DepthNeeded, NEW p \in standing'
               PROVE  Recent(history', p, MaxSince(p)')
    BY DEF HistoryInv, DepthNeeded
  <2>1. Recent(history, p, MaxSince(p))
    BY DEF HInv, HistoryInv
  <2> QED
    BY <1>1, <1>2, <2>1, RecentLater
<1> QED
  BY <1>3 DEF HInv

\* A sample of q is one more for the others.
LEMMA PublishSince ==
  ASSUME HInv, NEW q \in Participants, Publish(q)
  PROVE  /\ \A p \in standing \ {q} : MaxSince(p) + 1 <= MaxSince(p)'
         /\ q \in standing' => 0 <= MaxSince(q)'
<1> DEFINE n == Cardinality(to_visit)
<1>1. /\ to_visit \in SUBSET Participants /\ q \in to_visit
      /\ aborts \in Nat
      /\ to_visit' = to_visit \ {q}
      /\ aborts' = IF to_visit = {q} THEN 0 ELSE aborts
  BY HistoryAssumption DEF Publish, HInv, TypeInv
<1>2. /\ Others \in Nat /\ n \in Nat /\ n # 0
      /\ Cardinality(to_visit') = n - 1
      /\ n - 1 <= Others
  BY <1>1, VisitCount
<1>3. to_visit' = {} <=> to_visit = {q}
  BY <1>1
<1>4. Others * (1 + aborts) \in Nat /\ Others * (1 + 0) = Others
  BY <1>1, <1>2
<1> HIDE DEF n
<1>5. ASSUME NEW p \in standing, p # q
      PROVE  MaxSince(p) + 1 <= MaxSince(p)'
  <2>1. CASE p \in to_visit
    <3>1. p \in to_visit' /\ to_visit # {} /\ to_visit' # {} /\ aborts' = aborts
      BY <1>1, <1>3, <1>5, <2>1
    <3>2. MaxSince(p) = Others * (1 + aborts) + Others + 1 - n
          /\ MaxSince(p)' = Others * (1 + aborts) + Others + 1 - (n - 1)
      BY <1>2, <2>1, <3>1 DEF MaxSince, SinceIn, n
    <3> QED
      BY <1>2, <1>4, <3>2
  <2>2. CASE p \notin to_visit
    <3>1. MaxSince(p) = Others - n
      BY <1>1, <2>2 DEF MaxSince, SinceIn, n
    <3>2. MaxSince(p)' = IF to_visit' = {} THEN Others ELSE Others - (n - 1)
      BY <1>1, <1>2, <1>3, <1>4, <2>2 DEF MaxSince, SinceIn
    <3> QED
      BY <1>2, <3>1, <3>2
  <2> QED
    BY <2>1, <2>2
<1>6. 0 <= MaxSince(q)'
  <2>1. MaxSince(q)' = IF to_visit' = {} THEN Others ELSE Others - (n - 1)
    BY <1>1, <1>2, <1>3, <1>4 DEF MaxSince, SinceIn
  <2> QED
    BY <1>2, <2>1
<1> QED
  BY <1>5, <1>6

\* The writer keeps one more sample.
LEMMA PublishKeeps ==
  ASSUME HInv, TypeInv', NEW q \in Participants, Publish(q),
         NEW samples \in Seq(Participants), NEW depth \in Nat \ {0}, depth >= DepthNeeded
  PROVE  LET kept == KeepLast(Append(samples, q), depth)
         IN  /\ q \in standing' => Recent(kept, q, MaxSince(q)')
             /\ \A p \in standing \ {q} :
                  Recent(samples, p, MaxSince(p)) => Recent(kept, p, MaxSince(p)')
<1> DEFINE kept == KeepLast(Append(samples, q), depth)
<1>1. /\ kept \in Seq(Participants)
      /\ Recent(kept, q, 0)
      /\ \A p : \A n \in Int : n + 1 < depth /\ Recent(samples, p, n)
           => Recent(kept, p, n + 1)
  BY KeepLastKeeps
<1>2. DepthNeeded \in Int /\ depth \in Int
  <2>1. Others \in Nat /\ MaxAborts \in Nat
    BY VisitCount, HistoryAssumption DEF HInv, TypeInv
  <2>2. DepthNeeded = (MaxAborts + 2) * Others + 1
    BY DEF DepthNeeded, Others
  <2> QED
    BY <2>1, <2>2
<1>3. \A p : MaxSince(p) \in Int /\ MaxSince(p)' \in Int /\ MaxSince(p)' < DepthNeeded
  <2>1. \A p : MaxSince(p) \in Int
    BY SinceBounded DEF HInv, TypeInv, MaxSince
  <2>2. \A p : MaxSince(p)' \in Int /\ MaxSince(p)' < DepthNeeded
    BY SinceBounded DEF TypeInv, MaxSince
  <2> QED
    BY <2>1, <2>2
<1>4. /\ \A p \in standing \ {q} : MaxSince(p) + 1 <= MaxSince(p)'
      /\ q \in standing' => 0 <= MaxSince(q)'
  BY PublishSince
<1> HIDE DEF kept
<1>5. ASSUME q \in standing'
      PROVE  Recent(kept, q, MaxSince(q)')
  <2>1. MaxSince(q)' \in Int /\ 0 <= MaxSince(q)'
    BY <1>3, <1>4, <1>5
  <2> QED
    BY <1>1, <2>1, RecentLater
<1>6. ASSUME NEW p \in standing \ {q}, Recent(samples, p, MaxSince(p))
      PROVE  Recent(kept, p, MaxSince(p)')
  <2>1. /\ MaxSince(p) \in Int /\ MaxSince(p)' \in Int
        /\ MaxSince(p) + 1 <= MaxSince(p)' /\ MaxSince(p)' < DepthNeeded
    BY <1>3, <1>4
  <2>2. MaxSince(p) + 1 < depth
    BY <1>2, <2>1
  <2>3. Recent(kept, p, MaxSince(p) + 1)
    BY <1>1, <1>6, <2>1, <2>2
  <2> QED
    BY <1>1, <2>1, <2>3, RecentLater
<1> QED
  BY <1>5, <1>6 DEF kept

\* A sample is written.
LEMMA PublishInv ==
  ASSUME HInv, NEW q \in Participants, Publish(q)
  PROVE  HInv'
<1>1. /\ history \in Seq(Participants)
      /\ standing \subseteq hosts /\ hosts \subseteq Participants
      /\ to_visit \subseteq Participants /\ aborts \in 0 .. MaxAborts
      /\ Depth \in Nat \ {0} /\ MaxAborts \in Nat
  BY HistoryAssumption DEF HInv, TypeInv
<1>2. /\ history' = KeepLast(Append(history, q), Depth)
      /\ to_visit' = to_visit \ {q}
      /\ aborts' = IF to_visit = {q} THEN 0 ELSE aborts
      /\ standing' = IF q \in hosts THEN standing \cup {q} ELSE standing
      /\ UNCHANGED hosts
  BY DEF Publish
<1>3. TypeInv'
  <2>1. history' \in Seq(Participants)
    BY <1>1, <1>2, KeepLastKeeps
  <2>2. hosts' \subseteq Participants /\ to_visit' \subseteq Participants
        /\ standing' \subseteq hosts'
    BY <1>1, <1>2
  <2>3. aborts' \in 0 .. MaxAborts
    BY <1>1, <1>2
  <2> QED
    BY <2>1, <2>2, <2>3 DEF TypeInv
<1>4. \A p \in standing' : p = q \/ p \in standing \ {q}
  BY <1>2
<1>5. HistoryInv'
  <2> SUFFICES ASSUME Depth >= DepthNeeded, NEW p \in standing'
               PROVE  Recent(history', p, MaxSince(p)')
    BY DEF HistoryInv, DepthNeeded
  <2>1. \A r \in standing : Recent(history, r, MaxSince(r))
    BY DEF HInv, HistoryInv
  <2>2. /\ q \in standing' => Recent(history', q, MaxSince(q)')
        /\ \A r \in standing \ {q} :
             Recent(history, r, MaxSince(r)) => Recent(history', r, MaxSince(r)')
    BY <1>1, <1>2, <1>3, PublishKeeps
  <2> QED
    BY <1>4, <2>1, <2>2
<1> QED
  BY <1>3, <1>5 DEF HInv

\* The round that begins comes to every participant that is standing.
LEMMA GatherInv == HInv /\ Gather => HInv'
<1> SUFFICES ASSUME HInv, Gather PROVE HInv'
  OBVIOUS
<1>1. /\ to_visit = {} /\ to_visit' = hosts /\ hosts # {}
      /\ UNCHANGED <<hosts, history, aborts, standing>>
  BY DEF Gather
<1>2. /\ TypeInv' /\ hosts \in SUBSET Participants
      /\ aborts \in Nat /\ standing \subseteq hosts
  BY <1>1, HistoryAssumption DEF HInv, TypeInv
<1>3. /\ Others \in Nat /\ Cardinality(hosts) \in Nat
      /\ Cardinality(hosts) <= Others + 1
  BY <1>2, VisitCount
<1>4. ASSUME NEW p \in standing'
      PROVE  p \in standing /\ MaxSince(p) <= MaxSince(p)'
  <2>1. p \in standing /\ p \in to_visit' /\ to_visit' # {}
    BY <1>1, <1>2, <1>4
  <2>2. MaxSince(p) = Others * (1 + aborts)
    BY <1>1 DEF MaxSince, SinceIn
  <2>3. MaxSince(p)' = Others * (1 + aborts) + Others + 1 - Cardinality(hosts)
    BY <1>1, <2>1 DEF MaxSince, SinceIn
  <2>4. Others * (1 + aborts) \in Nat
    BY <1>2, <1>3
  <2> QED
    BY <1>3, <2>1, <2>2, <2>3, <2>4
<1> QED
  BY <1>1, <1>2, <1>4, SinceGrows

\* The round that an error ends has written fewer samples than there are others.
LEMMA PublishFailsInv == HInv /\ PublishFails => HInv'
<1> SUFFICES ASSUME HInv, PublishFails PROVE HInv'
  OBVIOUS
<1>1. /\ to_visit # {} /\ to_visit' = {} /\ aborts < MaxAborts /\ aborts' = aborts + 1
      /\ UNCHANGED <<hosts, history, standing>>
  BY DEF PublishFails
<1>2. /\ TypeInv' /\ to_visit \in SUBSET Participants /\ aborts \in Nat
      /\ standing \subseteq Participants
  BY <1>1, HistoryAssumption DEF HInv, TypeInv
<1>3. /\ Others \in Nat /\ Cardinality(to_visit) \in Nat
      /\ Cardinality(to_visit) # 0
  BY <1>1, <1>2, VisitCount
<1>4. \A p : MaxSince(p) <= MaxSince(p)'
  <2> TAKE p
  <2>1. MaxSince(p)' = Others * (1 + (aborts + 1))
    BY <1>1 DEF MaxSince, SinceIn
  <2>2. Others * (1 + (aborts + 1)) = Others * (1 + aborts) + Others
        /\ Others * (1 + aborts) \in Nat
    <3>1. \A x \in Nat : \A y \in Nat : x * (1 + (y + 1)) = x * (1 + y) + x
                                        /\ x * (1 + y) \in Nat
      OBVIOUS
    <3> QED
      BY <1>2, <1>3, <3>1
  <2>3. MaxSince(p) = IF p \in to_visit
                      THEN Others * (1 + aborts) + Others + 1 - Cardinality(to_visit)
                      ELSE Others - Cardinality(to_visit)
    BY <1>1 DEF MaxSince, SinceIn
  <2> QED
    BY <1>3, <2>1, <2>2, <2>3
<1> QED
  BY <1>1, <1>2, <1>4, SinceGrows

\* A participant gets its first node or loses its last one.
LEMMA RegisterInv ==
  ASSUME HInv, NEW p \in Participants, RegisterNode(p) \/ UnregisterNode(p)
  PROVE  HInv'
<1>1. /\ standing' \subseteq standing
      /\ UNCHANGED <<history, to_visit, aborts>>
  BY DEF RegisterNode, UnregisterNode
<1>2. TypeInv'
  <2>1. hosts' \subseteq Participants /\ standing' \subseteq hosts'
    BY DEF RegisterNode, UnregisterNode, HInv, TypeInv
  <2> QED
    BY <1>1, <2>1 DEF HInv, TypeInv
<1>3. \A r : MaxSince(r)' = MaxSince(r) /\ MaxSince(r) \in Int
  BY <1>1, SinceBounded DEF MaxSince, HInv, TypeInv
<1> QED
  BY <1>1, <1>2, <1>3, SinceGrows

-----------------------------------------------------------------------------
(* The theorems. *)

\* Whatever the writer, the reader and the application do, the samples that
\* follow the last one of a participant are no more than MaxSince.
THEOREM HistoryBounded == Spec => []HInv
<1>1. Init => HInv
  <2> SUFFICES ASSUME Init PROVE HInv
    OBVIOUS
  <2>1. MaxAborts \in Nat
    BY HistoryAssumption
  <2>2. TypeInv
    <3>1. <<>> \in Seq(Participants)
      BY EmptySeq
    <3>2. history \in Seq(Participants)
      BY <3>1 DEF Init
    <3>3. /\ hosts \subseteq Participants /\ to_visit \subseteq Participants
          /\ standing \subseteq hosts
      BY DEF Init
    <3>4. aborts \in 0 .. MaxAborts
      <4>1. aborts = 0
        BY DEF Init
      <4> QED
        BY <2>1, <4>1
    <3> QED
      BY <3>2, <3>3, <3>4 DEF TypeInv
  <2>3. HistoryInv
    BY DEF Init, HistoryInv
  <2> QED
    BY <2>2, <2>3 DEF HInv
<1>2. HInv /\ [Next]_vars => HInv'
  <2> SUFFICES ASSUME HInv, [Next]_vars PROVE HInv'
    OBVIOUS
  <2>1. CASE \E p \in Participants : RegisterNode(p) \/ UnregisterNode(p)
    BY <2>1, RegisterInv
  <2>2. CASE \E p \in Participants : Publish(p)
    BY <2>2, PublishInv
  <2>3. CASE Gather
    BY <2>3, GatherInv
  <2>4. CASE PublishFails
    BY <2>4, PublishFailsInv
  <2>5. CASE UNCHANGED vars
    <3>1. UNCHANGED <<hosts, history, to_visit, aborts, standing>>
      BY <2>5 DEF vars
    <3>2. TypeInv'
      BY <3>1 DEF HInv, TypeInv
    <3>3. \A p : MaxSince(p)' = MaxSince(p)
      BY <3>1 DEF MaxSince
    <3>4. HistoryInv'
      BY <3>1, <3>3 DEF HInv, HistoryInv, DepthNeeded
    <3> QED
      BY <3>2, <3>4 DEF HInv
  <2> QED
    BY <2>1, <2>2, <2>3, <2>4, <2>5 DEF Next
<1> QED
  BY <1>1, <1>2, PTL DEF Spec

\* A writer that keeps DepthNeeded samples or more keeps one of every participant
\* that it has announced and that has had a node ever since.
THEOREM HistoryRetains == Spec => []Retained
<1>1. HInv => Retained
  BY DEF HInv, HistoryInv, Retained, Recent
<1> QED
  BY <1>1, HistoryBounded, PTL
=============================================================================
