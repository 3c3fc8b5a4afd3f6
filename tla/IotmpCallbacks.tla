---------------------------- MODULE IotmpCallbacks ----------------------------
(***************************************************************************)
(* The client with callbacks that use the client.  A resource's callback   *)
(* may call stream(), disconnect() or the server API in the middle of a    *)
(* handler or of check_streams(); the state callback runs in the middle of *)
(* disconnect(); and a call of the server API handles the messages it      *)
(* reads while it waits, with further callbacks.  There is one task, and   *)
(* its activations are a stack; a step ends where a callback begins or     *)
(* ends or a message is read.                                              *)
(*                                                                         *)
(* Which call an answer belongs to is known (IotmpTasks is about ids).     *)
(* Which streams are due is not: any may be (IotmpStreams has the clock).  *)
(* What the transport holds is decided when it is read.                    *)
(***************************************************************************)
EXTENDS Naturals, Sequences, FiniteSets

CONSTANTS
    Resources,     \* the registered resources
    NoResource,
    IoType,        \* io_type of each resource
    StreamEcho,    \* stream_echo_ of each resource
    StreamIds,     \* ids of streams
    RequestIds,    \* ids of other requests of the server
    Applications,  \* what callbacks may do: functions from resources to sets of Uses
    MaxAttempts,   \* messages one call reads at most (100)
    MaxDepth       \* bound: activations below which the application calls the client

Uses == {"stream", "call", "disconnect"}

IoTypes == {"run", "input", "output", "input_output"}

ASSUME ResourcesAssumption ==
    /\ NoResource \notin Resources
    /\ IoType \in [Resources -> IoTypes]
    /\ StreamEcho \in [Resources -> BOOLEAN]
    /\ Applications \subseteq [Resources -> SUBSET Uses]

ASSUME IdsAssumption == StreamIds \subseteq Nat \ {0} /\ RequestIds \subseteq Nat

ASSUME BoundsAssumption == MaxAttempts \in Nat /\ MaxDepth \in Nat

VARIABLES
    connected,  \* connected_
    streams,    \* streams_: the resource of each open stream, or NoResource
    stream_id,  \* stream_id_ of each resource, 0 when not streamed
    stack,      \* activations of the client, the innermost one last
    asked,      \* depths of the calls the server has not answered
    answers,    \* depths of the calls whose answer can be read
    out,        \* the messages the last step sent
    may         \* what the callbacks of this application do; never changes

calling == <<asked, answers>>
vars == <<connected, streams, stream_id, stack, calling, out, may>>

\* A call is as deep as its place on the stack.
Depths == 1 .. MaxDepth

HasInput(r) == IoType[r] \in {"input", "input_output"}
HasOutput(r) == IoType[r] \in {"output", "input_output"}
HasData(r) == HasInput(r) \/ HasOutput(r)

Active == {s \in StreamIds : streams[s] # NoResource}

stream_enabled(r) == stream_id[r] # 0

(***************************************************************************)
(* Activations.  loop: handle() in its receive loop.  check: check_streams *)
(* at the entry of its stream, 0 before the first; dangling: the same when *)
(* that entry was erased.  run, describe, data: a handler in the callback  *)
(* of its resource; stream: stream_resource() there.  call: a call of the  *)
(* server API.  drop: disconnect() in the state callback.                  *)
(***************************************************************************)
Frame(do, s, r) == [do |-> do, stream |-> s, resource |-> r, attempts |-> 0]

ResourceCallbacks == {"run", "describe", "data", "stream"}

Attempts == 0 .. MaxAttempts

Frames ==
    [do : {"stream", "data"}, stream : StreamIds, resource : Resources, attempts : Attempts]
      \cup [do : {"run", "describe"}, stream : RequestIds, resource : Resources, attempts : Attempts]
      \cup [do : {"loop", "check", "dangling", "call", "drop"}, stream : StreamIds \cup {0},
            resource : {NoResource}, attempts : Attempts]

Top == stack[Len(stack)]
TopIs(do) == stack # <<>> /\ Top.do = do

Push(st, frame) == Append(st, frame)
Pop(st) == SubSeq(st, 1, Len(st) - 1)
Replace(st, frame) == [st EXCEPT ![Len(st)] = frame]

\* Iterations that stand at an entry of streams_ that is erased.
Erasing(st, ids) ==
    [i \in DOMAIN st |-> IF st[i].do = "check" /\ st[i].stream \in ids
                           THEN [st[i] EXCEPT !.do = "dangling"] ELSE st[i]]

\* stream_resource(r, s) on top of st: nothing for a resource without data.
StreamResource(st, s, r) == IF HasData(r) THEN Push(st, Frame("stream", s, r)) ELSE st

Answer(type, s) == [type |-> type, stream |-> s]
Data(s, r) == [type |-> "STREAM_DATA", stream |-> s, resource |-> r]

Init ==
    /\ connected = FALSE
    /\ streams = [s \in StreamIds |-> NoResource]
    /\ stream_id = [r \in Resources |-> 0]
    /\ stack = <<>>
    /\ asked = {} /\ answers = {}
    /\ out = {}
    /\ may \in Applications

Quietly == out' = {} /\ UNCHANGED may

Calling(d) == d \in DOMAIN stack /\ stack[d].do = "call"

-----------------------------------------------------------------------------
(* disconnect(). *)

\* Mutant: the resources keep the ids of their streams.
ClearKeepingIds(st) ==
    /\ connected' = FALSE
    /\ streams' = [s \in StreamIds |-> NoResource]
    /\ stack' = Erasing(st, Active)
    /\ asked' = {} /\ answers' = {}
    /\ UNCHANGED stream_id

\* Its second half: the transport is closed, no answer can come any more.
Clear(st) ==
    /\ connected' = FALSE
    /\ streams' = [s \in StreamIds |-> NoResource]
    /\ stream_id' = [r \in Resources |-> 0]
    /\ stack' = Erasing(st, Active)
    /\ asked' = {} /\ answers' = {}

\* disconnect() called on top of st: the end of a session is told first.
Disconnect(st) ==
    IF connected
      THEN /\ connected' = FALSE
           /\ stack' = Push(st, Frame("drop", 0, NoResource))
           /\ UNCHANGED <<streams, stream_id, calling>>
      ELSE Clear(st)

DropReturns == TopIs("drop") /\ Clear(Pop(stack)) /\ Quietly

-----------------------------------------------------------------------------
(* Messages of the server, handled on top of st. *)

Requests ==
    [type : {"RUN", "DESCRIBE"}, stream : RequestIds, resource : Resources \cup {NoResource}]
      \cup [type : {"START_STREAM"}, stream : StreamIds, resource : Resources \cup {NoResource}]
      \cup [type : {"STOP_STREAM", "STREAM_DATA", "DISCONNECT", "KEEP_ALIVE"},
            stream : StreamIds]

\* A DESCRIBE without a path describes all resources.
NoSuchResource(st, m) ==
    /\ stack' = st
    /\ \E type \in {"ERROR"} \cup (IF m.type = "DESCRIBE" THEN {"OK"} ELSE {}) :
         out' = {Answer(type, m.stream)}
    /\ UNCHANGED <<streams, stream_id>>

HandleRun(st, m) ==
    /\ stack' = Push(st, Frame("run", m.stream, m.resource))
    /\ out' = {}
    /\ UNCHANGED <<streams, stream_id>>

\* The callback of a resource that only runs is not called.
HandleDescribe(st, m) ==
    /\ stack' = IF HasData(m.resource) THEN Push(st, Frame("describe", m.stream, m.resource)) ELSE st
    /\ out' = IF HasData(m.resource) THEN {} ELSE {Answer("OK", m.stream)}
    /\ UNCHANGED <<streams, stream_id>>

\* Mutant: a resource has one stream, the one that was opened last.
HandleStartStreamMoving(st, m) ==
    /\ stream_id' = [stream_id EXCEPT ![m.resource] = m.stream]
    /\ streams' = [s \in StreamIds |-> IF s = m.stream THEN m.resource
                                       ELSE IF streams[s] = m.resource THEN NoResource
                                       ELSE streams[s]]
    /\ out' = {Answer("OK", m.stream)}
    /\ stack' = StreamResource(st, m.stream, m.resource)

HandleStartStream(st, m) ==
    /\ stream_id' = [stream_id EXCEPT ![m.resource] = m.stream]
    /\ streams' = [streams EXCEPT ![m.stream] = m.resource]
    /\ out' = {Answer("OK", m.stream)}
    /\ stack' = StreamResource(st, m.stream, m.resource)

\* Mutant: the resource keeps the id of the stream that is closed.
HandleStopStreamRemembered(st, m) ==
    /\ streams' = [streams EXCEPT ![m.stream] = NoResource]
    /\ stack' = Erasing(st, {m.stream})
    /\ out' = {Answer("OK", m.stream)}
    /\ UNCHANGED stream_id

HandleStopStream(st, m) ==
    /\ streams' = [streams EXCEPT ![m.stream] = NoResource]
    /\ stream_id' = IF m.stream \in Active
                      THEN [stream_id EXCEPT ![streams[m.stream]] = 0] ELSE stream_id
    /\ stack' = Erasing(st, {m.stream})
    /\ out' = {Answer("OK", m.stream)}

HandleStreamData(st, m) ==
    /\ stack' = IF m.stream \in Active
                  THEN Push(st, Frame("data", m.stream, streams[m.stream])) ELSE st
    /\ out' = {}
    /\ UNCHANGED <<streams, stream_id>>

\* handle_message() for the requests of the server.
HandleRequest(st, m) ==
    /\ \/ m.type \in {"RUN", "DESCRIBE", "START_STREAM"} /\ m.resource = NoResource
            /\ NoSuchResource(st, m)
       \/ m.type = "RUN" /\ m.resource # NoResource /\ HandleRun(st, m)
       \/ m.type = "DESCRIBE" /\ m.resource # NoResource /\ HandleDescribe(st, m)
       \/ m.type = "START_STREAM" /\ m.resource # NoResource /\ HandleStartStream(st, m)
       \/ m.type = "STOP_STREAM" /\ HandleStopStream(st, m)
       \/ m.type = "STREAM_DATA" /\ HandleStreamData(st, m)
       \/ m.type = "KEEP_ALIVE" /\ stack' = st /\ out' = {} /\ UNCHANGED <<streams, stream_id>>
    /\ UNCHANGED <<connected, calling, may>>

HandleMessage(st, m) ==
    \/ HandleRequest(st, m)
    \/ m.type = "DISCONNECT" /\ Disconnect(st) /\ Quietly

\* As in IotmpStreams, an id that is open is not opened for another resource.
ServerSends(m) ==
    m.type = "START_STREAM" => streams[m.stream] \in {NoResource, m.resource}

-----------------------------------------------------------------------------
(* handle(), between its attempts to connect (IotmpSession). *)

Connect ==
    /\ stack = <<>> /\ ~connected
    /\ connected' = TRUE
    /\ Quietly
    /\ UNCHANGED <<streams, stream_id, stack, calling>>

HandleStarts ==
    /\ stack = <<>> /\ connected
    /\ stack' = Push(stack, Frame("loop", 0, NoResource))
    /\ Quietly
    /\ UNCHANGED <<connected, streams, stream_id, calling>>

LoopReads ==
    /\ TopIs("loop") /\ connected
    /\ \E m \in Requests : ServerSends(m) /\ HandleMessage(stack, m)

\* A message that cannot be read ends the session and this handle().
LoopFails == TopIs("loop") /\ connected /\ Disconnect(Pop(stack)) /\ Quietly

LoopEnds ==
    /\ TopIs("loop")
    /\ stack' = Replace(stack, Frame("check", 0, NoResource))
    /\ Quietly
    /\ UNCHANGED <<connected, streams, stream_id, calling>>

\* streams_ is ordered by id.
Later == {s \in Active : s > Top.stream}

\* The next entry of check_streams(), sampled if it is due.
CheckNext ==
    /\ TopIs("check")
    /\ \E s \in Later, due \in BOOLEAN :
         /\ \A later \in Later : s <= later
         /\ stack' = LET here == Replace(stack, Frame("check", s, NoResource))
                     IN  IF due THEN StreamResource(here, s, streams[s]) ELSE here
    /\ Quietly
    /\ UNCHANGED <<connected, streams, stream_id, calling>>

CheckEnds ==
    /\ TopIs("check") /\ Later = {}
    /\ stack' = Pop(stack)
    /\ Quietly
    /\ UNCHANGED <<connected, streams, stream_id, calling>>

\* Going on from an entry that was erased is undefined: anywhere, or out.
CheckDangling ==
    /\ TopIs("dangling")
    /\ stack' \in {Pop(stack)} \cup {Replace(stack, Frame("check", s, NoResource)) : s \in StreamIds}
    /\ Quietly
    /\ UNCHANGED <<connected, streams, stream_id, calling>>

-----------------------------------------------------------------------------
(* The ends of callbacks. *)

\* Mutant: a callback that reports an error is not answered.
RunReturnsSilently ==
    /\ TopIs("run")
    /\ out' \in {{Answer("OK", Top.stream)}} \cup (IF HasOutput(Top.resource) THEN {{}} ELSE {})
    /\ stack' = Pop(stack)
    /\ UNCHANGED <<connected, streams, stream_id, calling, may>>

\* The rest of handle_resource_request(); the echo asks for the stream of now.
RunReturns ==
    /\ TopIs("run")
    /\ \E type \in {"OK"} \cup (IF HasOutput(Top.resource) THEN {"ERROR"} ELSE {}) :
         out' = {Answer(type, Top.stream)}
    /\ stack' = IF stream_enabled(Top.resource) /\ StreamEcho[Top.resource] /\ HasInput(Top.resource)
                  THEN StreamResource(Pop(stack), stream_id[Top.resource], Top.resource)
                  ELSE Pop(stack)
    /\ UNCHANGED <<connected, streams, stream_id, calling, may>>

DescribeReturns ==
    /\ TopIs("describe")
    /\ out' = {Answer("OK", Top.stream)}
    /\ stack' = Pop(stack)
    /\ UNCHANGED <<connected, streams, stream_id, calling, may>>

\* The rest of handle_stream_data(), with the id from before the callback.
DataReturns ==
    /\ TopIs("data")
    /\ out' = {}
    /\ stack' = IF StreamEcho[Top.resource]
                  THEN StreamResource(Pop(stack), Top.stream, Top.resource) ELSE Pop(stack)
    /\ UNCHANGED <<connected, streams, stream_id, calling, may>>

\* Mutant: a stream without an interval is closed once it was sampled.
StreamReturnsClosing ==
    /\ TopIs("stream")
    /\ out' = {Data(Top.stream, Top.resource)}
    /\ streams' = [streams EXCEPT ![Top.stream] = NoResource]
    /\ stream_id' = [stream_id EXCEPT ![Top.resource] = 0]
    /\ stack' = Erasing(Pop(stack), {Top.stream})
    /\ UNCHANGED <<connected, calling, may>>

\* The rest of stream_resource(), with the id it was given.
StreamReturns ==
    /\ TopIs("stream")
    /\ out' = {Data(Top.stream, Top.resource)}
    /\ stack' = Pop(stack)
    /\ UNCHANGED <<connected, streams, stream_id, calling, may>>

CallbackReturns == RunReturns \/ DescribeReturns \/ DataReturns \/ StreamReturns \/ DropReturns

-----------------------------------------------------------------------------
(* What the application does, in its own loop or in a callback. *)

Permitted(use) ==
    \/ stack = <<>> \/ TopIs("drop")
    \/ stack # <<>> /\ Top.do \in ResourceCallbacks /\ use \in may[Top.resource]

AppDisconnects == Permitted("disconnect") /\ Disconnect(stack) /\ Quietly

\* stream(r); without a stream it returns false.
AppStreams ==
    /\ Permitted("stream") /\ Len(stack) < MaxDepth
    /\ \E r \in Resources :
         stream_enabled(r) /\ stack' = StreamResource(stack, stream_id[r], r)
    /\ Quietly
    /\ UNCHANGED <<connected, streams, stream_id, calling>>

\* send_and_wait_response(): connected_ is read, the request is written.
AppCalls ==
    /\ Permitted("call") /\ Len(stack) < MaxDepth
    /\ IF connected
         THEN /\ stack' = Push(stack, Frame("call", 0, NoResource))
              /\ asked' = asked \cup {Len(stack) + 1}
         ELSE UNCHANGED <<stack, asked>>
    /\ Quietly
    /\ UNCHANGED <<connected, streams, stream_id, answers>>

-----------------------------------------------------------------------------
(* A call that waits, the innermost activation, at depth Len(stack). *)

\* Mutant: one message too many.
AwaitsOneMore == TopIs("call") /\ connected /\ Top.attempts <= MaxAttempts

\* The condition of the loop; no callback comes between it and the read.
Awaits == TopIs("call") /\ connected /\ Top.attempts < MaxAttempts

Return ==
    /\ stack' = Pop(stack)
    /\ asked' = asked \ {Len(stack)} /\ answers' = answers \ {Len(stack)}
    /\ Quietly
    /\ UNCHANGED <<connected, streams, stream_id>>

CallReadsAnswer == Awaits /\ Len(stack) \in answers /\ Return

\* Mutant: a read waits for as long as the client is connected.
CallReadsNothingPatiently ==
    TopIs("call") /\ (~connected \/ Top.attempts = MaxAttempts) /\ Return

\* A read fails, or the loop has ended.
CallReadsNothing == TopIs("call") /\ Return

Attempted == Replace(stack, [Top EXCEPT !.attempts = @ + 1])

CallReadsRequest ==
    /\ Awaits
    /\ \E m \in Requests : ServerSends(m) /\ HandleMessage(Attempted, m)

\* The answer to a call further out is handled as any other, and dropped.
CallReadsOther ==
    /\ Awaits
    /\ \E d \in answers \ {Len(stack)} : answers' = answers \ {d}
    /\ stack' = Attempted
    /\ Quietly
    /\ UNCHANGED <<connected, streams, stream_id, asked>>

CallStep == CallReadsAnswer \/ CallReadsNothing \/ CallReadsRequest \/ CallReadsOther

ServerAnswers ==
    /\ connected
    /\ \E d \in asked : asked' = asked \ {d} /\ answers' = answers \cup {d}
    /\ Quietly
    /\ UNCHANGED <<connected, streams, stream_id, stack>>

-----------------------------------------------------------------------------

Next ==
    \/ Connect \/ HandleStarts \/ LoopReads \/ LoopFails \/ LoopEnds
    \/ CheckNext \/ CheckEnds \/ CheckDangling
    \/ CallbackReturns
    \/ AppDisconnects \/ AppStreams \/ AppCalls
    \/ CallStep
    \/ ServerAnswers

(***************************************************************************)
(* Callbacks come to an end, however often they call the client, and the   *)
(* reads of a call come to nothing in the end; neither an answer nor any   *)
(* other message of the server is assumed.                                 *)
(***************************************************************************)
Fairness ==
    /\ WF_vars(CallReadsNothing)
    /\ \A d \in 1 .. MaxDepth + 2 : SF_vars(Len(stack) = d /\ CallbackReturns)

Spec == Init /\ [][Next]_vars /\ Fairness

-----------------------------------------------------------------------------
(* Properties. *)

TypeOK ==
    /\ connected \in BOOLEAN
    /\ streams \in [StreamIds -> Resources \cup {NoResource}]
    /\ stream_id \in [Resources -> StreamIds \cup {0}]
    /\ stack \in Seq(Frames)
    /\ asked \subseteq Depths /\ answers \subseteq Depths
    /\ may \in Applications

(***************************************************************************)
(* The two views of the streams agree at every point at which a callback   *)
(* can look at them, whatever handlers it is nested in: the id a resource  *)
(* remembers is that of an open stream of that resource.                   *)
(***************************************************************************)
StreamIdsAgree ==
    \A r \in Resources : stream_enabled(r) =>
        stream_id[r] \in Active /\ streams[stream_id[r]] = r

\* A callback of a stream that goes back into the client.
Reenters(f) == f.do \in {"stream", "data"} /\ ~(may[f.resource] \subseteq {"stream"})

(***************************************************************************)
(* check_streams() holds an entry of streams_ while callbacks run, and     *)
(* stream_resource() and handle_stream_data() go on with an id from before *)
(* theirs.  In any application, the stream is taken from them only by the  *)
(* callback of a sample or of stream input, their own or one above them,   *)
(* that does more with the client than stream(): handlers, other samples,  *)
(* the state callback and what the rest of the stack does leave it alone.  *)
(***************************************************************************)
StreamsAreTakenFromWithin ==
    [][\A i \in DOMAIN stack :
         (/\ stack[i].do \in {"check", "stream", "data"}
          /\ stack[i].stream \in Active
          /\ streams'[stack[i].stream] # streams[stack[i].stream])
           => \E k \in i .. Len(stack) : Reenters(stack[k])]_vars

(***************************************************************************)
(* A quiet application: callbacks of resources with data may stream(), but *)
(* neither disconnect nor call the server; callbacks of actions, and the   *)
(* state callback, may do anything.                                        *)
(***************************************************************************)
Quiet == \A r \in Resources : HasData(r) => may[r] \subseteq {"stream"}

(***************************************************************************)
(* stream_resource() sends on an id it was given before the callback ran.  *)
(* In a quiet application that stream is still open, for that resource.    *)
(***************************************************************************)
DataIsWanted ==
    [][Quiet => \A d \in out' : d.type = "STREAM_DATA" => streams'[d.stream] = d.resource]_vars

(***************************************************************************)
(* A quiet application serves the subscriptions of the server step by      *)
(* step, callbacks and nested handlers included: streams are opened and    *)
(* closed one at a time, by the server's requests or the end of the        *)
(* session, and data is sent on those that are open.                       *)
(***************************************************************************)
Subs == INSTANCE Subscriptions WITH
    Ids <- StreamIds,
    subscribed <- streams,
    published <- {<<d.stream, d.resource>> : d \in {m \in out : m.type = "STREAM_DATA"}}

ServesSubscriptions ==
    [][Quiet => Subs!Next \/ UNCHANGED Subs!subscriptions]_vars

(***************************************************************************)
(* Each call returns: one whose answer was taken by a call nested in it,   *)
(* one below a callback that closed the connection, and one that is not    *)
(* answered at all.                                                        *)
(***************************************************************************)
CallsReturn == \A d \in Depths : Calling(d) ~> ~Calling(d)

(***************************************************************************)
(* A RUN that was read is answered, however deep its callback goes back    *)
(* into the client (after a disconnect the answer is written in vain).     *)
(***************************************************************************)
RequestsAreAnswered ==
    \A d \in 1 .. MaxDepth + 2, s \in RequestIds :
        (Len(stack) >= d /\ stack[d].do = "run" /\ stack[d].stream = s)
          ~> (\E a \in out : a.type \in {"OK", "ERROR"} /\ a.stream = s)

=============================================================================
