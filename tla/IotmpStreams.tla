---------------------------- MODULE IotmpStreams ----------------------------
(***************************************************************************)
(* Requests of the server and the streams they open: handle_message() and  *)
(* the handlers it dispatches to, stream_resource(), check_streams(), the  *)
(* application's stream() and clear_streams().  A client keeps two views   *)
(* of its streams that must agree: streams_ maps an id to the resource and *)
(* its sampling, and each resource remembers one id, stream_id_.           *)
(*                                                                         *)
(* A payload is abstracted to its presence, a resource's callback to its   *)
(* kind and to the success it may report.  One step is one handler; the    *)
(* messages it sends are the set out.                                      *)
(***************************************************************************)
EXTENDS Naturals, FiniteSets

CONSTANTS
    Resources,    \* the registered resources, named by their path
    Unknown,      \* a path no resource has
    IoType,       \* io_type of each resource
    StreamEcho,   \* stream_echo_ of each resource
    Ids,          \* stream ids the server uses; a message without one has 0
    Intervals,    \* sampling intervals the server asks for, 0 for none
    NoStream,     \* streams_ has no entry
    TimeMod,      \* get_millis() counts modulo TimeMod
    MaxUnsampled  \* bound: ticks between two calls of check_streams()

IoTypes == {"none", "run", "input", "output", "input_output"}

ASSUME ResourcesAssumption ==
    /\ Unknown \notin Resources
    /\ IoType \in [Resources -> IoTypes]
    /\ StreamEcho \in [Resources -> BOOLEAN]

ASSUME IdsAssumption == Ids \subseteq Nat

ASSUME TimeAssumption ==
    /\ TimeMod \in Nat \ {0} /\ MaxUnsampled \in Nat /\ Intervals \subseteq Nat
    /\ \A i \in Intervals : i + MaxUnsampled < TimeMod

Time == 0 .. TimeMod - 1

Stream == [resource : Resources, interval_ms : Intervals, last_sample : Time]

ASSUME NoStreamAssumption == NoStream \notin Stream

Paths == Resources \cup {Unknown}

\* The messages of the server that handle_message() acts on here.
Requests ==
    [type : {"RUN"}, stream : Ids, resource : Paths, payload : BOOLEAN]
      \cup [type : {"DESCRIBE"}, stream : Ids, resource : Paths]
      \cup [type : {"START_STREAM"}, stream : Ids, resource : Paths, interval : Intervals]
      \cup [type : {"STOP_STREAM", "STREAM_DATA"}, stream : Ids]

VARIABLES
    streams,     \* streams_: the stream of each id, or NoStream
    stream_id,   \* stream_id_ of each resource, 0 when not streamed
    clock,       \* get_millis()
    unsampled,   \* ticks since check_streams() last ran
    out          \* the messages the last step sent

vars == <<streams, stream_id, clock, unsampled, out>>

-----------------------------------------------------------------------------
(* Messages the client sends.  The resource of a STREAM_DATA is not on the *)
(* wire: it names where the payload comes from.                            *)

Answer(type, s) == [type |-> type, stream |-> s]

Data(s, r) == [type |-> "STREAM_DATA", stream |-> s, resource |-> r]

Answers == [type : {"OK", "ERROR"}, stream : Ids]
DataMessages == [type : {"STREAM_DATA"}, stream : Ids, resource : Resources]

Active == {s \in Ids : streams[s] # NoStream}

stream_enabled(r) == stream_id[r] # 0

HasInput(r) == IoType[r] \in {"input", "input_output"}

HasOutput(r) == IoType[r] \in {"output", "input_output"}

\* stream_resource(r, s): nothing for a resource without data.
StreamResource(r, s) == IF HasInput(r) \/ HasOutput(r) THEN {Data(s, r)} ELSE {}

Elapsed(then) == IF clock >= then THEN clock - then ELSE clock + TimeMod - then

Init ==
    /\ streams = [s \in Ids |-> NoStream]
    /\ stream_id = [r \in Resources |-> 0]
    /\ clock = 0 /\ unsampled = 0
    /\ out = {}

-----------------------------------------------------------------------------
(* Handlers. *)

(***************************************************************************)
(* Running a resource that reads its input creates the PAYLOAD field of    *)
(* the request, so the echo that follows does not tell a request that      *)
(* carried input from one that did not.                                    *)
(***************************************************************************)
HasPayloadAfterRun(m) == m.payload \/ HasInput(m.resource)

\* Mutant: the echo goes to the id of the request, not to the resource's stream.
HandleRunEchoingToRequest(m) ==
    /\ m.type = "RUN" /\ m.resource # Unknown
    /\ out' = {Answer("OK", m.stream)} \cup
                 (IF stream_enabled(m.resource) THEN StreamResource(m.resource, m.stream) ELSE {})
    /\ UNCHANGED <<streams, stream_id, clock, unsampled>>

\* handle_resource_request: run, answer, and echo the state to the stream.
HandleRun(m) ==
    /\ m.type = "RUN"
    /\ IF m.resource = Unknown
         THEN out' = {Answer("ERROR", m.stream)}
         ELSE \E type \in {"OK"} \cup (IF HasOutput(m.resource) THEN {"ERROR"} ELSE {}) :
                out' = {Answer(type, m.stream)} \cup
                         (IF /\ HasPayloadAfterRun(m)
                             /\ stream_enabled(m.resource)
                             /\ StreamEcho[m.resource]
                             /\ HasInput(m.resource)
                            THEN StreamResource(m.resource, stream_id[m.resource])
                            ELSE {})
    /\ UNCHANGED <<streams, stream_id, clock, unsampled>>

\* handle_describe for one resource; without one it describes them all.
HandleDescribe(m) ==
    /\ m.type = "DESCRIBE"
    /\ out' = {Answer(IF m.resource = Unknown THEN "ERROR" ELSE "OK", m.stream)}
    /\ UNCHANGED <<streams, stream_id, clock, unsampled>>

HandleStartStream(m) ==
    /\ m.type = "START_STREAM"
    /\ IF m.resource = Unknown
         THEN /\ out' = {Answer("ERROR", m.stream)}
              /\ UNCHANGED <<streams, stream_id>>
         ELSE /\ stream_id' = [stream_id EXCEPT ![m.resource] = m.stream]
              /\ streams' = [streams EXCEPT ![m.stream] =
                               [resource |-> m.resource, interval_ms |-> m.interval,
                                last_sample |-> clock]]
              /\ out' = {Answer("OK", m.stream)} \cup StreamResource(m.resource, m.stream)
    /\ UNCHANGED <<clock, unsampled>>

\* Input on a stream: run its resource and echo, unless the id is not open.
HandleStreamData(m) ==
    /\ m.type = "STREAM_DATA"
    /\ out' = IF m.stream \in Active /\ StreamEcho[streams[m.stream].resource]
                THEN StreamResource(streams[m.stream].resource, m.stream)
                ELSE {}
    /\ UNCHANGED <<streams, stream_id, clock, unsampled>>

\* Mutant: the resource keeps the id of the stream that is closed.
HandleStopStreamRemembered(m) ==
    /\ m.type = "STOP_STREAM"
    /\ streams' = [streams EXCEPT ![m.stream] = NoStream]
    /\ out' = {Answer("OK", m.stream)}
    /\ UNCHANGED <<stream_id, clock, unsampled>>

\* The resource forgets its id, whichever stream it names.
HandleStopStream(m) ==
    /\ m.type = "STOP_STREAM"
    /\ IF m.stream \in Active
         THEN /\ stream_id' = [stream_id EXCEPT ![streams[m.stream].resource] = 0]
              /\ streams' = [streams EXCEPT ![m.stream] = NoStream]
         ELSE UNCHANGED <<streams, stream_id>>
    /\ out' = {Answer("OK", m.stream)}
    /\ UNCHANGED <<clock, unsampled>>

\* handle_message(), without the messages that do not reach a handler here.
HandleMessage(m) ==
    \/ HandleRun(m) \/ HandleDescribe(m)
    \/ HandleStartStream(m) \/ HandleStopStream(m) \/ HandleStreamData(m)

\* Mutant: the next sample's time is computed and compared with the clock.
DueAbsolute(s) ==
    s \in Active /\ streams[s].interval_ms # 0
      /\ clock >= streams[s].last_sample + streams[s].interval_ms

Due(s) ==
    /\ s \in Active
    /\ streams[s].interval_ms # 0
    /\ Elapsed(streams[s].last_sample) >= streams[s].interval_ms

\* Mutant: samples keep a fixed cadence, in arithmetic that does not wrap.
CheckStreamsCadenced ==
    /\ streams' = [s \in Ids |-> IF Due(s)
                                  THEN [streams[s] EXCEPT !.last_sample = @ + streams[s].interval_ms]
                                  ELSE streams[s]]
    /\ out' = UNION {StreamResource(streams[s].resource, s) : s \in {i \in Ids : Due(i)}}
    /\ unsampled' = 0
    /\ UNCHANGED <<stream_id, clock>>

\* Mutant: every pass restarts the interval of every stream.
CheckStreamsRestarting ==
    /\ streams' = [s \in Ids |-> IF s \in Active THEN [streams[s] EXCEPT !.last_sample = clock]
                                                  ELSE NoStream]
    /\ out' = UNION {StreamResource(streams[s].resource, s) : s \in {i \in Ids : Due(i)}}
    /\ unsampled' = 0
    /\ UNCHANGED <<stream_id, clock>>

CheckStreams ==
    /\ streams' = [s \in Ids |-> IF Due(s) THEN [streams[s] EXCEPT !.last_sample = clock]
                                           ELSE streams[s]]
    /\ out' = UNION {StreamResource(streams[s].resource, s) : s \in {i \in Ids : Due(i)}}
    /\ unsampled' = 0
    /\ UNCHANGED <<stream_id, clock>>

\* The application calls stream(r); without a stream it returns false.
StreamCall(r) ==
    /\ out' = IF stream_enabled(r) THEN StreamResource(r, stream_id[r]) ELSE {}
    /\ UNCHANGED <<streams, stream_id, clock, unsampled>>

ClearStreams ==
    /\ streams' = [s \in Ids |-> NoStream]
    /\ stream_id' = [r \in Resources |-> 0]
    /\ out' = {}
    /\ UNCHANGED <<clock, unsampled>>

Tick ==
    /\ unsampled < MaxUnsampled
    /\ clock' = (clock + 1) % TimeMod
    /\ unsampled' = unsampled + 1
    /\ out' = {}
    /\ UNCHANGED <<streams, stream_id>>

-----------------------------------------------------------------------------

(***************************************************************************)
(* The server does not open a stream under an id that is open for another  *)
(* resource; it may start the same one again, and may open several streams *)
(* of one resource.                                                        *)
(***************************************************************************)
ServerSends(m) ==
    m.type = "START_STREAM" /\ m.resource # Unknown /\ m.stream \in Active
      => streams[m.stream].resource = m.resource

Receive(m) == ServerSends(m) /\ HandleMessage(m)

Next ==
    \/ \E m \in Requests : Receive(m)
    \/ CheckStreams
    \/ \E r \in Resources : StreamCall(r)
    \/ ClearStreams
    \/ Tick

\* handle() runs again and again, and time passes.
Fairness == WF_vars(CheckStreams) /\ WF_vars(Tick)

Spec == Init /\ [][Next]_vars /\ Fairness

-----------------------------------------------------------------------------
(* Properties. *)

TypeOK ==
    /\ streams \in [Ids -> Stream \cup {NoStream}]
    /\ stream_id \in [Resources -> Ids \cup {0}]
    /\ clock \in Time /\ unsampled \in 0 .. MaxUnsampled
    /\ out \subseteq Answers \cup DataMessages

(***************************************************************************)
(* The id a resource remembers is that of an open stream of that resource, *)
(* through any order of starts, restarts, stops and disconnects: what RUN  *)
(* echoes and stream() sends never goes to a stream that was closed or     *)
(* that belongs to another resource.                                       *)
(***************************************************************************)
StreamIdsAgree ==
    \A r \in Resources : stream_enabled(r) =>
        stream_id[r] \in Active /\ streams[stream_id[r]].resource = r

(***************************************************************************)
(* STREAM_DATA goes out only on a stream the server has open, with data of *)
(* the resource it was opened for: the safety of Subscriptions.            *)
(***************************************************************************)
Subs == INSTANCE Subscriptions WITH
    NoResource <- Unknown,
    subscribed <- [s \in Ids |-> IF s \in Active THEN streams[s].resource ELSE Unknown],
    published <- {<<d.stream, d.resource>> : d \in {m \in out : m.type = "STREAM_DATA"}}

SubscriptionsSpec == Subs!Spec

\* Data of stream s is among what the last step sent.
Sampled(s) == \E m \in out : m.type = "STREAM_DATA" /\ m.stream = s

(***************************************************************************)
(* A stream with an interval that the server leaves open is sampled for    *)
(* ever, whatever else runs and wherever the clock wraps; streams of a     *)
(* resource without data are not.                                          *)
(***************************************************************************)
PeriodicStreamsFlow ==
    \A s \in Ids :
        <>[](/\ s \in Active
             /\ streams[s].interval_ms # 0
             /\ HasInput(streams[s].resource) \/ HasOutput(streams[s].resource))
          => []<>Sampled(s)

(***************************************************************************)
(* iotmp_client.hpp:310-311, "If the resource received input, has an       *)
(* active stream, and echo is enabled, stream the current state so the     *)
(* dashboard updates": when all three hold there is data of the resource.  *)
(***************************************************************************)
EchoReachesEveryWatchedResource ==
    [][\A m \in Requests :
         (/\ HandleRun(m) /\ m.resource # Unknown
          /\ m.payload /\ HasInput(m.resource) /\ StreamEcho[m.resource]
          /\ \E s \in Active \ {0} : streams[s].resource = m.resource)
           => \E d \in out' : d.type = "STREAM_DATA" /\ d.resource = m.resource]_vars

\* ... and when the resource received no input there is none.
EchoOnlyAfterInput ==
    [][\A m \in Requests :
         HandleRun(m) /\ ~m.payload => \A d \in out' : d.type # "STREAM_DATA"]_vars

=============================================================================
