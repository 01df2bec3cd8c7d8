----------------------------- MODULE TopicNames -----------------------------
(***************************************************************************)
(* The helpers that make the DDS names of the topics and types of ROS 2    *)
(* endpoints.  A caller asks for the lengths with NULL buffers, allocates  *)
(* buffers of these lengths, and calls again to have them filled.  The C++ *)
(* helpers do so in one call; a C application does it by itself, and is    *)
(* taken to do it right.                                                   *)
(*                                                                         *)
(* A name is a sequence of pieces, each a string as wide as its length.    *)
(* "::" is a piece of its own, and no other piece holds a colon but ":",   *)
(* which has none beside it.                                               *)
(***************************************************************************)
EXTENDS Naturals, Sequences, FiniteSets

CONSTANTS
  Topics,   \* ROS 2 topic names, which are service names too
  NodeName, \* the ROS 2 name of the node of the services
  Types     \* ROS 2 type names, valid or not

VARIABLES
  call,    \* the helper in progress, or the last one, and its arguments
  stage,   \* how far the call has come
  length,  \* the lengths passed by pointer, one for each buffer
  buffer,  \* the buffers, or NULL
  error,   \* the return code, or which exception
  result   \* the strings returned to the caller

vars == <<call, stage, length, buffer, error, result>>

Slots == <<"topic", "type", "rep_topic", "rep_type">>
SlotNames == {Slots[i] : i \in DOMAIN Slots}

NULL == [size |-> 0, text |-> <<>>]
Nul == "0"   \* the terminator
Nothing == <<>>

\* strlen: the number of characters, each at its place in its piece.
Characters(text) == UNION {{i} \X (1 .. Len(text[i])) : i \in DOMAIN text}
Width(text) == Cardinality(Characters(text))

\* A name is made of strings, which have a length.
IsText(text) ==
  text \in Seq(STRING) /\ \A i \in DOMAIN text : Len(text[i]) \in Nat

ASSUME NamesAssumption == \A text \in Topics \cup Types \cup {<<NodeName>>} : IsText(text)

\* The buffers that a helper fills.
Needed(helper) == SubSeq(Slots, 1, IF helper = "service" THEN 4 ELSE 2)

-----------------------------------------------------------------------------
(* Names. *)

Prefix == [default |-> "rt/", request |-> "rq/", response |-> "rr/"]
Suffix == [default |-> "_", request |-> "_Request_", response |-> "_Response_"]

\* The strings that names are made of are strings of these lengths, which a
\* prover takes as they are.
IsString(piece, n) == piece \in STRING /\ Len(piece) = n

ASSUME LengthsAssumption ==
  /\ \A kind \in DOMAIN Prefix : IsString(Prefix[kind], 3)
  /\ IsString(Suffix["default"], 1) /\ IsString(Suffix["request"], 9)
  /\ IsString(Suffix["response"], 10)
  /\ IsString("dds_", 4) /\ IsString("::", 2) /\ IsString("/", 1) /\ IsString(Nul, 1)

\* Mutant of ReaderKind: the same as a writer's.
ReaderKindOfWriter(endpoint) ==
  CASE endpoint \in {"subscription", "publisher"} -> "default"
    [] endpoint = "client" -> "request"
    [] endpoint = "service" -> "response"

\* compute_dds_reader_topic_names and compute_dds_writer_topic_names.
ReaderKind(endpoint) ==
  CASE endpoint \in {"subscription", "publisher"} -> "default"
    [] endpoint = "client" -> "response"
    [] endpoint = "service" -> "request"

WriterKind(endpoint) ==
  CASE endpoint \in {"subscription", "publisher"} -> "default"
    [] endpoint = "client" -> "request"
    [] endpoint = "service" -> "response"

\* detect_endpoint_type, on the prefix of a topic.
Detected(prefix, writer) ==
  CASE prefix = "rt/" -> IF writer THEN "publisher" ELSE "subscription"
    [] prefix = "rr/" -> IF writer THEN "service" ELSE "client"
    [] prefix = "rq/" -> IF writer THEN "client" ELSE "service"
    [] OTHER -> "unknown"

\* The search for "::" goes from the end to the last colon, which must have
\* another one before it.
Colons(type) == {i \in DOMAIN type : type[i] \in {":", "::"}}
LastColon(type) == CHOOSE i \in Colons(type) : \A j \in Colons(type) : j <= i
ValidType(type) == Colons(type) # {} /\ type[LastColon(type)] = "::"
Stem(type) == SubSeq(type, 1, LastColon(type) - 1)

DdsTopic(topic, kind) == <<Prefix[kind]>> \o topic

\* What is copied to the type's buffer: neither a "::" before the namespace,
\* nor the type's own name, nor a terminator.
DdsType(type, kind) == Stem(type) \o <<"dds_", "::", Suffix[kind]>>

\* Mutant of TopicLength: the prefix is not counted.
TopicLengthUnprefixed(topic, kind) == Width(topic)

\* strlen of the names; that of a type is counted with the parts left out.
TopicLength(topic, kind) == Width(topic) + Len(Prefix[kind])
TypeLength(type, kind) == Width(type) + Len("dds_") + Len(Suffix[kind]) + 2

\* Mutant of LengthOut: the terminator is left out.
LengthOutBare(n) == n

\* The length returned.
LengthOut(n) == n + 1

-----------------------------------------------------------------------------
(* The C functions, as what they leave in buffers, lengths and return code. *)

\* A NULL buffer is not filled.
Filled(b, text) == IF b = NULL THEN b ELSE [b EXCEPT !.text = text]

Refused(state, code) == [state EXCEPT !.error = code]

\* make_dds_topic_and_type_names.  The topic is filled before the type is
\* looked at, and the type's name is looked at only when it is to be filled.
MakeNames(state, topic, type, kind, to) ==
  LET fits(slot, length_slot, n) ==
        state.buffer[slot] = NULL \/ state.length[length_slot] >= n + 1
      with_topic ==
        [state EXCEPT
           !.buffer[to.topic] = Filled(@, DdsTopic(topic, kind) \o <<Nul>>),
           !.length[to.topic] = LengthOut(TopicLength(topic, kind))]
  IN  IF ~fits(to.topic, to.topic, TopicLength(topic, kind))
      THEN Refused(state, "OUT_OF_RESOURCES")
      ELSE IF ~fits(to.type, to.type_length, TypeLength(type, kind))
      THEN Refused(with_topic, "OUT_OF_RESOURCES")
      ELSE IF state.buffer[to.type] # NULL /\ ~ValidType(type)
      THEN Refused(with_topic, "BAD_PARAMETER")
      ELSE [with_topic EXCEPT
              !.buffer[to.type] = Filled(@, DdsType(type, kind)),
              !.length[to.type_length] = LengthOut(TypeLength(type, kind))]

\* compute_dds_writer_topic_names refuses empty names; the same test of
\* compute_dds_reader_topic_names is commented out.
WriterNames(state, topic, type, endpoint, to) ==
  IF topic = <<>> \/ type = <<>> THEN Refused(state, "BAD_PARAMETER")
  ELSE MakeNames(state, topic, type, WriterKind(endpoint), to)

ReaderNames(state, topic, type, endpoint, to) ==
  MakeNames(state, topic, type, ReaderKind(endpoint), to)

Own == [topic |-> "topic", type |-> "type", type_length |-> "type"]

\* Where the names of the replies go: the C++ helper passes the buffer of the
\* requests' type again when it has them filled.
Reply(c, b) ==
  [topic |-> "rep_topic", type_length |-> "rep_type",
   type |-> IF c.by = "cpp" /\ b["type"] # NULL THEN "type" ELSE "rep_type"]

ServiceTopic(c) == <<NodeName, "/">> \o c.topic

\* compute_publisher_, compute_subscription_ and compute_service_topic_names.
Compute(c, state) ==
  IF c.helper = "service"
  THEN LET requests == ReaderNames(state, ServiceTopic(c), c.type, "service", Own)
       IN  IF requests.error # "OK" THEN requests
           ELSE WriterNames(requests, ServiceTopic(c), c.type, "service",
                            Reply(c, state.buffer))
  ELSE WriterNames(state, c.topic, c.type, c.helper, Own)

-----------------------------------------------------------------------------
(* A call of a helper. *)

NoBuffers == [s \in SlotNames |-> NULL]

Calls == [by : {"c", "cpp"}, helper : {"publisher", "subscription", "service"},
          topic : Topics, type : Types]

Init ==
  /\ call \in Calls
  /\ stage = "query"
  /\ length = [s \in SlotNames |-> 0]
  /\ buffer = NoBuffers
  /\ error = "OK"
  /\ result = [s \in SlotNames |-> Nothing]

Ended == stage \in {"returned", "failed"}

Begin(c) ==
  /\ Ended
  /\ call' = c
  /\ stage' = "query"
  /\ length' = [s \in SlotNames |-> 0]
  /\ error' = "OK"
  /\ result' = [s \in SlotNames |-> Nothing]
  /\ buffer' = NoBuffers

State == [length |-> length, buffer |-> buffer, error |-> error]

\* The call for the lengths.  The C++ helper throws when it fails.
Query ==
  /\ stage = "query"
  /\ LET after == Compute(call, State)
     IN  /\ length' = after.length
         /\ error' = after.error
         /\ stage' = IF after.error = "OK" THEN "alloc" ELSE "failed"
  /\ UNCHANGED <<call, buffer, result>>

\* compute_service_topic_names allocates the topic's name.
ServiceFails ==
  /\ stage \in {"query", "fill"}
  /\ call.helper = "service"
  /\ stage' = "failed"
  /\ error' = "ERROR"
  /\ buffer' = NoBuffers
  /\ UNCHANGED <<call, length, result>>

Allocated == {s \in SlotNames : buffer[s] # NULL}

\* The buffers are allocated in order; DDS_String_alloc adds the terminator.
Alloc(i) ==
  /\ stage = "alloc"
  /\ i \in DOMAIN Needed(call.helper)
  /\ {Slots[j] : j \in 1 .. i - 1} \subseteq Allocated
  /\ Slots[i] \notin Allocated
  /\ buffer' = [buffer EXCEPT ![Slots[i]] = [size |-> length[Slots[i]], text |-> <<>>]]
  /\ stage' = IF i = Len(Needed(call.helper)) THEN "fill" ELSE "alloc"
  /\ UNCHANGED <<call, length, error, result>>

\* The C++ helpers of publishers and subscriptions test the topic's buffer
\* after they have allocated the type's.
TestsOther(i) == call.by = "cpp" /\ call.helper # "service" /\ i = 2

\* Mutant of AllocFails: the buffers allocated before are not freed.
AllocFailsLeaking(i) ==
  /\ stage = "alloc"
  /\ i \in DOMAIN Needed(call.helper)
  /\ {Slots[j] : j \in 1 .. i - 1} = Allocated
  /\ IF TestsOther(i)
     THEN stage' = "fill" /\ UNCHANGED error
     ELSE stage' = "failed" /\ error' = "ERROR"
  /\ UNCHANGED <<call, length, buffer, result>>

\* An allocation fails: what was allocated is freed and the helper throws,
\* when it notices.
AllocFails(i) ==
  /\ stage = "alloc"
  /\ i \in DOMAIN Needed(call.helper)
  /\ {Slots[j] : j \in 1 .. i - 1} = Allocated
  /\ IF TestsOther(i)
     THEN stage' = "fill" /\ UNCHANGED <<buffer, error>>
     ELSE stage' = "failed" /\ buffer' = NoBuffers /\ error' = "ERROR"
  /\ UNCHANGED <<call, length, result>>

\* The call that fills the buffers.
Fill ==
  /\ stage = "fill"
  /\ LET after == Compute(call, State)
     IN  /\ length' = after.length
         /\ error' = after.error
         /\ buffer' = IF after.error = "OK" THEN after.buffer ELSE NoBuffers
         /\ stage' = IF after.error = "OK" THEN "filled" ELSE "failed"
  /\ UNCHANGED <<call, result>>

\* The buffers are copied to strings, and freed after the last.  Where one is
\* NULL the copy is undefined: the process dies, and nothing follows, or an
\* exception leaves the others unfreed.
Return ==
  /\ stage = "filled"
  /\ result' = [s \in SlotNames |-> buffer[s].text]
  /\ IF \A i \in DOMAIN Needed(call.helper) : buffer[Slots[i]] # NULL
     THEN stage' = "returned" /\ buffer' = NoBuffers /\ UNCHANGED error
     ELSE stage' = "failed" /\ error' = "NULL_COPIED" /\ UNCHANGED buffer
  /\ UNCHANGED <<call, length>>

Next ==
  \/ \E c \in Calls : Begin(c)
  \/ Query \/ ServiceFails
  \/ \E i \in DOMAIN Slots : Alloc(i) \/ AllocFails(i)
  \/ Fill \/ Return

Spec == Init /\ [][Next]_vars

-----------------------------------------------------------------------------
(* Properties. *)

\* Nothing is written past the end of a buffer: not with the longer suffix of a
\* reply in the buffer of a request, and with no name, empty or invalid.
WritesFit == \A s \in SlotNames : Width(buffer[s].text) <= buffer[s].size

\* The lengths that a query returns are enough: the call that fills the buffers
\* is never refused for lack of room.
QuerySuffices == error # "OUT_OF_RESOURCES"

\* No buffer outlives the call of its helper, whatever allocation or C function
\* fails, but the topic's where the C++ helper has not noticed that it has none
\* for the type.
BuffersFreed ==
  Ended => Allocated \subseteq IF error = "NULL_COPIED" THEN {"topic"} ELSE {}

Returned(helper) == stage = "returned" /\ call.helper = helper

\* An endpoint made on the topics that a helper names is detected to be of the
\* helper's type when it is registered.
TopicsDetected ==
  /\ Returned("publisher") => Detected(result["topic"][1], TRUE) = "publisher"
  /\ Returned("subscription") => Detected(result["topic"][1], FALSE) = "subscription"
  /\ Returned("service") =>
       /\ Detected(result["topic"][1], FALSE) = "service"
       /\ Detected(result["rep_topic"][1], TRUE) = "service"
=============================================================================
