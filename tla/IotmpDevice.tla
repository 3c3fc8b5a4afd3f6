----------------------------- MODULE IotmpDevice -----------------------------
(***************************************************************************)
(* A device from the message it reads to the messages it answers: the      *)
(* handlers with what they take from a message's fields, the resources'    *)
(* wrappers and, inside them, the application's callbacks.  IotmpStreams   *)
(* has the same handlers over abstract messages; this module implements    *)
(* them.  IotmpLink has the bytes messages travel as.                      *)
(*                                                                         *)
(* The application is that of README.md: an input that drives an output    *)
(* pin, a sensor that may fail, a setting that is read and written, and an *)
(* action.  Its names are one or three bytes long.  Every resource echoes  *)
(* its input; streams are sampled by the application alone, and time       *)
(* stands still.                                                           *)
(***************************************************************************)
EXTENDS IotmpMessage

CONSTANTS
    Ids,         \* stream ids the server uses
    Intervals,   \* sampling intervals it asks for
    Inputs,      \* payloads it sends to a resource
    Probes,      \* other messages it sends
    NoStream     \* as in IotmpStreams

ASSUME IdsAssumption == Ids \subseteq 0 .. Uint16 - 1

ASSUME IntervalsAssumption == Intervals \subseteq 0 .. Uint32 - 1

\* The bytes of names: of resources, in the order of resources_, and of keys.
Config == <<67, 47, 83>>
Led == <<76>>
Reboot == <<82>>
Sensor == <<83>>
Names == <<Config, Led, Reboot, Sensor>>
Resources == Range(Names)
Unknown == <<>>

ValueKey == <<118>>
CelsiusKey == <<99>>
ErrorKey == <<101>>
InKey == <<105>>
OutKey == <<111>>
FnKey == <<102>>
IntervalKey == <<112>>

IoType ==
    [r \in Resources |-> CASE r = Config -> "input_output"
                           [] r = Led    -> "input"
                           [] r = Reboot -> "run"
                           [] r = Sensor -> "output"]

VARIABLES
    flight,      \* the messages written by the server and not read
    streams,     \* streams_: a function from the open ids
    stream_id,   \* stream_id_ of each resource
    app,         \* the application's pin and threshold
    out          \* the messages the device's last step sent

device == <<flight, streams, stream_id, app, out>>

-----------------------------------------------------------------------------
(* What a message's fields mean. *)

\* An array is a path of segments.
extract_resource_path(m) ==
    LET path == Field(m, RESOURCE)
        part(i) == GetString(path.v[i])
    IN  CASE path.t = "string" -> path.v
          [] path.t = "array"  ->
                FlattenSeq([i \in DOMAIN path.v |-> IF i = 1 THEN part(i) ELSE <<47>> \o part(i)])
          [] OTHER -> <<>>

\* The sampling interval of a START_STREAM.
IntervalOf(m) ==
    LET params == Field(m, PARAMETERS)
        asked == IF params.t = "object" THEN Lookup(params, IntervalKey) ELSE params
    IN  IF is_number(asked) THEN GetUnsigned(asked, Uint32) ELSE 0

-----------------------------------------------------------------------------
(* The application's callbacks: input and output are the values the        *)
(* wrappers give them, state is the application's.                         *)

LedCallback(in, state) ==
    IF empty(in) THEN {[in |-> Boolean(state.pin), app |-> state]}
    ELSE {[in |-> in, app |-> [state EXCEPT !.pin = b]] : b \in GetBool(in)}

ConfigCallback(in, state) ==
    LET value == Lookup(in, ValueKey)
        next == IF empty(in) THEN state
                ELSE [state EXCEPT !.threshold = IF is_number(value) THEN value.v ELSE 0]
    IN  [in  |-> IF empty(in) THEN in ELSE SetKey(in, ValueKey, value),
         out |-> SetKey(Null, ValueKey, Whole(next.threshold)),
         app |-> next]

\* A reading, or set_error() with or without a code.
SensorCallback ==
    {[out |-> SetKey(Null, CelsiusKey, Whole(21)), code |-> 0, success |-> TRUE]}
      \cup {[out |-> SetKey(Null, ErrorKey, String(<<69>>)), code |-> c, success |-> FALSE] : c \in {0, 4}}

-----------------------------------------------------------------------------
(* iotmp_resource. *)

HasInput(r) == IoType[r] \in {"input", "input_output"}

\* run_resource(): its outcomes.  The wrappers create the fields they refer to.
run_resource(r, request, response, state) ==
    LET in == Field(request, PAYLOAD)
    IN  CASE IoType[r] = "input" ->
                {[request |-> Put(request, PAYLOAD, c.in), response |-> response,
                  success |-> TRUE, app |-> c.app] : c \in LedCallback(in, state)}
          [] IoType[r] = "output" ->
                {[request |-> request,
                  response |-> LET filled == Put(response, PAYLOAD, c.out)
                               IN  IF c.code = 0 THEN filled ELSE Put(filled, PARAMETERS, Signed(c.code)),
                  success |-> c.success, app |-> state] : c \in SensorCallback}
          [] IoType[r] = "input_output" ->
                LET c == ConfigCallback(in, state)
                IN  {[request |-> Put(request, PAYLOAD, c.in),
                      response |-> Put(response, PAYLOAD, c.out),
                      success |-> TRUE, app |-> c.app]}
          [] OTHER -> {[request |-> request, response |-> response, success |-> TRUE, app |-> state]}

\* What a description of r holds under "in" and "out": its callback is run on
\* empty values.
described(r, m, state) ==
    LET with(key, value, content) == IF value.t = "null" THEN content ELSE SetKey(content, key, value)
        filled(content) == IF content.t = "null" THEN m ELSE Put(m, PAYLOAD, content)
    IN  CASE IoType[r] = "input"  ->
                {[message |-> filled(with(InKey, c.in, Null)), app |-> c.app] :
                    c \in LedCallback(Null, state)}
          [] IoType[r] = "output" ->
                {[message |-> filled(with(OutKey, c.out, Null)), app |-> state] : c \in SensorCallback}
          [] IoType[r] = "input_output" ->
                LET c == ConfigCallback(Null, state)
                IN  {[message |-> filled(with(OutKey, c.out, with(InKey, c.in, Null))), app |-> c.app]}
          [] OTHER -> {[message |-> m, app |-> state]}

FnCode == [run |-> 1, input |-> 2, output |-> 3, input_output |-> 4]

fill_api(r) == SetKey(Null, FnKey, Signed(FnCode[IoType[r]]))

ApiDescription == FoldLeft(LAMBDA content, r : SetKey(content, r, fill_api(r)), Null, Names)

\* Mutant: the payload is looked for in the request alone.
StreamResourceOfRequest(r, id, state) ==
    IF IoType[r] = "run" THEN {[sent |-> <<>>, app |-> state]}
    ELSE {[sent |-> IF has_field(o.request, PAYLOAD) THEN <<set_stream_id(o.request, id)>> ELSE <<>>,
           app |-> o.app] :
             o \in run_resource(r, Message(STREAM_DATA), Message(STREAM_DATA), state)}

\* stream_resource(): what it sends and the state after it.
stream_resource(r, id, state) ==
    IF IoType[r] = "run" THEN {[sent |-> <<>>, app |-> state]}
    ELSE {[sent |-> LET m == IF has_field(o.response, PAYLOAD) THEN o.response ELSE o.request
                    IN  IF has_field(m, PAYLOAD) THEN <<set_stream_id(m, id)>> ELSE <<>>,
           app |-> o.app] :
             o \in run_resource(r, Message(STREAM_DATA), Message(STREAM_DATA), state)}

-----------------------------------------------------------------------------
(* Handlers.  Each takes the message that was read. *)

stream_enabled(r) == stream_id[r] # 0

HandleRun(m) ==
    LET r == extract_resource_path(m)
        response == Response(get_stream_id(m), OK)
    IN  /\ IF r \notin Resources
             THEN out' = <<[response EXCEPT !.type = ERROR]>> /\ app' = app
             ELSE \E o \in run_resource(r, m, response, app) :
                    \E echo \in IF has_field(o.request, PAYLOAD) /\ stream_enabled(r) /\ HasInput(r)
                                 THEN stream_resource(r, stream_id[r], o.app)
                                 ELSE {[sent |-> <<>>, app |-> o.app]} :
                      /\ out' = <<[o.response EXCEPT !.type = IF o.success THEN OK ELSE ERROR]>>
                                   \o echo.sent
                      /\ app' = echo.app
        /\ UNCHANGED <<streams, stream_id>>

HandleDescribe(m) ==
    LET r == extract_resource_path(m)
        response == Response(get_stream_id(m), OK)
        descriptions == IF ~has_field(m, RESOURCE)
                          THEN {[message |-> Put(response, PAYLOAD, ApiDescription), app |-> app]}
                        ELSE IF r \in Resources THEN described(r, response, app)
                        ELSE {[message |-> [response EXCEPT !.type = ERROR], app |-> app]}
    IN  /\ \E d \in descriptions : out' = <<d.message>> /\ app' = d.app
        /\ UNCHANGED <<streams, stream_id>>

HandleStartStream(m) ==
    LET r == extract_resource_path(m)
        id == get_stream_id(m)
    IN  IF r \notin Resources
        THEN /\ out' = <<Response(id, ERROR)>>
             /\ UNCHANGED <<streams, stream_id, app>>
        ELSE /\ stream_id' = [stream_id EXCEPT ![r] = id]
             /\ streams' = [i \in DOMAIN streams \cup {id} |->
                               IF i = id THEN [resource |-> r, interval_ms |-> IntervalOf(m)]
                                         ELSE streams[i]]
             /\ \E s \in stream_resource(r, id, app) :
                    out' = <<Response(id, OK)>> \o s.sent /\ app' = s.app

\* Mutant: the echo is made before the input is applied.
HandleStreamDataEarly(m) ==
    LET id == get_stream_id(m)
        r == streams[id].resource
    IN  /\ IF id \notin DOMAIN streams THEN out' = <<>> /\ app' = app
           ELSE \E s \in stream_resource(r, id, app) :
                  \E o \in run_resource(r, m, Response(id, STREAM_DATA), s.app) :
                    out' = s.sent /\ app' = o.app
        /\ UNCHANGED <<streams, stream_id>>

\* The response that is run with the input is not sent, the echo is.
HandleStreamData(m) ==
    LET id == get_stream_id(m)
        r == streams[id].resource
    IN  /\ IF id \notin DOMAIN streams THEN out' = <<>> /\ app' = app
           ELSE \E o \in run_resource(r, m, Response(id, STREAM_DATA), app) :
                  \E s \in stream_resource(r, id, o.app) :
                    out' = s.sent /\ app' = s.app
        /\ UNCHANGED <<streams, stream_id>>

HandleStopStream(m) ==
    LET id == get_stream_id(m)
    IN  /\ IF id \in DOMAIN streams
             THEN /\ stream_id' = [stream_id EXCEPT ![streams[id].resource] = 0]
                  /\ streams' = Restrict(streams, DOMAIN streams \ {id})
             ELSE UNCHANGED <<streams, stream_id>>
        /\ out' = <<Response(id, OK)>>
        /\ app' = app

Disconnect ==
    /\ streams' = <<>> /\ stream_id' = [r \in Resources |-> 0]
    /\ out' = <<>> /\ app' = app

\* handle_message(), but for DISCONNECT.
handle_message(m) ==
    \/ m.type = RUN /\ HandleRun(m)
    \/ m.type = DESCRIBE /\ HandleDescribe(m)
    \/ m.type = START_STREAM /\ HandleStartStream(m)
    \/ m.type = STOP_STREAM /\ HandleStopStream(m)
    \/ m.type = STREAM_DATA /\ HandleStreamData(m)
    \/ /\ m.type \notin {RUN, DESCRIBE, START_STREAM, STOP_STREAM, STREAM_DATA}
       /\ out' = <<>> /\ UNCHANGED <<streams, stream_id, app>>

\* process_incoming().  A DISCONNECT ends the connection, and what was on its
\* way is lost with it.
ProcessIncoming ==
    /\ flight # <<>>
    /\ LET m == Head(flight)
       IN  IF m.type = DISCONNECT THEN flight' = <<>> /\ Disconnect
           ELSE flight' = Tail(flight) /\ handle_message(m)

\* stream(), for a resource with a stream.
Stream(r) ==
    /\ stream_enabled(r)
    /\ \E s \in stream_resource(r, stream_id[r], app) : out' = s.sent /\ app' = s.app
    /\ UNCHANGED <<flight, streams, stream_id>>

\* The device asks the server or connects to it (IotmpExchange has the calls).
CallServer ==
    /\ DOMAIN out' = {1} /\ out' = <<out'[1]>> /\ out'[1].type \in {RUN, CONNECT}
    /\ UNCHANGED <<flight, streams, stream_id, app>>

-----------------------------------------------------------------------------
(* The server. *)

\* Where the data of a STREAM_DATA comes from, by its looks.
Source(value) ==
    IF value.t = "boolean" THEN Led
    ELSE IF Lookup(value, ValueKey).t = "whole" THEN Config
    ELSE IF Places(ensure_object(value).v, CelsiusKey) \cup Places(ensure_object(value).v, ErrorKey) # {}
    THEN Sensor ELSE Unknown

\* What IotmpStreams tells of a message.
Told(m) ==
    LET id == get_stream_id(m)
    IN  CASE m.type = OK -> [type |-> "OK", stream |-> id]
          [] m.type = ERROR -> [type |-> "ERROR", stream |-> id]
          [] m.type = STREAM_DATA ->
                [type |-> "STREAM_DATA", stream |-> id, resource |-> Source(Field(m, PAYLOAD))]
          [] OTHER -> [type |-> "other"]

Said(messages) == {Told(messages[i]) : i \in DOMAIN messages}

\* streams_ as IotmpStreams has it.
Entries ==
    [i \in Ids |-> IF i \in DOMAIN streams
                     THEN [resource |-> streams[i].resource, interval_ms |-> streams[i].interval_ms,
                           last_sample |-> 0]
                     ELSE NoStream]

Str == INSTANCE IotmpStreams WITH
    StreamEcho <- [r \in Resources |-> TRUE], TimeMod <- Uint32, MaxUnsampled <- 0,
    streams <- Entries, clock <- 0, unsampled <- 0, out <- Said(out)

ASSUME NoStreamAssumption ==
    NoStream \notin [resource : Resources, interval_ms : Nat, last_sample : {0}]

With(m, f, values) == {Put(m, f, x) : x \in values}

\* A resource by its path or by the path's segments; no path for Unknown.
PathForms(r) ==
    CASE r = Config  -> {String(Config), Array(<<String(<<67>>), String(<<83>>)>>)}
      [] r = Unknown -> {Unsigned(2)}
      [] OTHER -> {String(r)}

IntervalForms(n) ==
    {SetKey(Null, IntervalKey, Unsigned(n)), Unsigned(n)} \cup (IF n = 0 THEN {Null} ELSE {})

\* The messages that ask for a, a request of IotmpStreams.
Forms(a) ==
    LET addressed(type) == With(Response(a.stream, type), RESOURCE, PathForms(a.resource))
        bare(type) == Response(a.stream, type)
    IN  CASE a.type = "RUN" /\ a.payload  -> UNION {With(m, PAYLOAD, Inputs) : m \in addressed(RUN)}
          [] a.type = "RUN" /\ ~a.payload -> addressed(RUN)
          [] a.type = "DESCRIBE" -> addressed(DESCRIBE)
          [] a.type = "START_STREAM" ->
                UNION {With(m, PARAMETERS, IntervalForms(a.interval)) : m \in addressed(START_STREAM)}
          [] a.type = "STOP_STREAM" -> {bare(STOP_STREAM)}
          [] a.type = "STREAM_DATA" -> {bare(STREAM_DATA)} \cup With(bare(STREAM_DATA), PAYLOAD, Inputs)

Questions == {[meaning |-> a, messages |-> Forms(a)] : a \in Str!Requests}

Messages == Probes \cup UNION {q.messages : q \in Questions}

\* Ids and intervals are numbers.
ASSUME ProbesAssumption ==
    \A m \in Probes : get_stream_id(m) \in 0 .. Uint16 - 1 /\ IntervalOf(m) \in 0 .. Uint32 - 1

Send(m) == flight' = Append(flight, m) /\ UNCHANGED <<streams, stream_id, app, out>>

\* The answers arrive.
TakeAnswers == out # <<>> /\ out' = <<>> /\ UNCHANGED <<flight, streams, stream_id, app>>

-----------------------------------------------------------------------------

DeviceInit ==
    /\ flight = <<>> /\ out = <<>>
    /\ streams = <<>> /\ stream_id = [r \in Resources |-> 0]
    /\ app = [pin |-> FALSE, threshold |-> 0]

DeviceNext ==
    \/ ProcessIncoming \/ CallServer
    \/ \E r \in Resources : Stream(r)
    \/ \E m \in Messages : Send(m)
    \/ TakeAnswers

DeviceSpec == DeviceInit /\ [][DeviceNext]_device

-----------------------------------------------------------------------------
(* Properties. *)

(***************************************************************************)
(* From message to message the device does what IotmpStreams says of the   *)
(* request: whichever form the server gives a path and an interval, the    *)
(* handler finds the resource, the stream and the interval that were meant *)
(* and answers with what they stand for.                                   *)
(***************************************************************************)
RequestsAreHandledAsMeant ==
    [][flight # <<>> /\ flight' = Tail(flight) =>
         \A q \in Questions :
             Head(flight) \in q.messages => Str!HandleMessage(q.meaning)]_device

(***************************************************************************)
(* Data on a stream shows the state the application is in when the step is *)
(* over, with the input that came with the request applied.                *)
(***************************************************************************)
DataShowsTheState ==
    [][\A i \in DOMAIN out' : out'[i].type = STREAM_DATA =>
         LET shown == Field(out'[i], PAYLOAD)
         IN  /\ Source(shown) = Led => shown.v = app'.pin
             /\ Source(shown) = Config => Lookup(shown, ValueKey).v = app'.threshold]_device

(***************************************************************************)
(* Only input changes what the application holds: a RUN or STREAM_DATA     *)
(* with a payload that is not empty.  Descriptions, samples and echoes run *)
(* the same callbacks and change nothing.                                  *)
(***************************************************************************)
OnlyInputChangesTheState ==
    [][app' # app =>
         /\ flight # <<>> /\ Head(flight).type \in {RUN, STREAM_DATA}
         /\ Field(Head(flight), PAYLOAD) \notin {Null, Array(<<>>), Object(<<>>), String(<<>>)}]_device

=============================================================================
