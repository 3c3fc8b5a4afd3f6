------------------------- MODULE IotmpExchangeProofs -------------------------
(***************************************************************************)
(* Proofs about IotmpDevice, IotmpLink and IotmpExchange, from the inside  *)
(* out: what a device makes of messages, for any stream ids, intervals,    *)
(* inputs and other messages; what it makes of bytes, which are messages   *)
(* again; and what it makes of them and of text with an application.       *)
(***************************************************************************)
EXTENDS IotmpExchange, IotmpJsonProofs

-----------------------------------------------------------------------------
(* Names. *)

\* The resources are four different ones.
LEMMA FourResources ==
    /\ Resources = {Config, Led, Reboot, Sensor}
    /\ Config # Led /\ Config # Reboot /\ Config # Sensor
    /\ Led # Reboot /\ Led # Sensor /\ Reboot # Sensor
    /\ Unknown \notin Resources
<1>1. Resources = {Config, Led, Reboot, Sensor}
  BY DEF Resources, Names, Range
<1>2. /\ Config # Led /\ Config # Reboot /\ Config # Sensor
      /\ Led # Reboot /\ Led # Sensor /\ Reboot # Sensor
      /\ Unknown # Config /\ Unknown # Led /\ Unknown # Reboot /\ Unknown # Sensor
  BY DEF Config, Led, Reboot, Sensor, Unknown
<1> QED
  BY <1>1, <1>2

\* What each of them does.
LEMMA IoTypes ==
    /\ IoType[Config] = "input_output" /\ IoType[Led] = "input"
    /\ IoType[Reboot] = "run" /\ IoType[Sensor] = "output"
BY FourResources DEF IoType

-----------------------------------------------------------------------------
(* Values. *)

\* A key without a zero is looked up as it is.
LEMMA Keys ==
    /\ CString(ValueKey) = ValueKey /\ CString(CelsiusKey) = CelsiusKey
    /\ CString(ErrorKey) = ErrorKey /\ CString(InKey) = InKey /\ CString(OutKey) = OutKey
    /\ CString(IntervalKey) = IntervalKey /\ CString(FnKey) = FnKey
    /\ ValueKey # CelsiusKey /\ ValueKey # ErrorKey
BY DEF CString, ValueKey, CelsiusKey, ErrorKey, InKey, OutKey, IntervalKey, FnKey

\* One place is the first.
LEMMA FirstOfOne == Min({1}) = 1
BY DEF Min

\* A key set in a value that is no object is its only one.
LEMMA SetFirstKey ==
    ASSUME NEW value, value.t # "object", NEW key, CString(key) = key, NEW item
    PROVE  SetKey(value, key, item) = Object(<<Pair(key, item)>>)
BY DEF SetKey, ensure_object, Object, Places

\* What an object with one key has under a key.
LEMMA LookupOne ==
    ASSUME NEW key, NEW item, NEW other, CString(other) = other
    PROVE  /\ Places(<<Pair(key, item)>>, other) = IF key = other THEN {1} ELSE {}
           /\ Lookup(Object(<<Pair(key, item)>>), other) = IF key = other THEN item ELSE Null
<1>1. Places(<<Pair(key, item)>>, other) = IF key = other THEN {1} ELSE {}
  BY DEF Places, Pair
<1> QED
  BY <1>1, FirstOfOne DEF Lookup, Object, Pair

-----------------------------------------------------------------------------
(* Fields of messages. *)

\* A record of a message's fields, whatever they hold.
IsMessage(m) == m = [type |-> m.type, fields |-> m.fields]

\* The messages that are built from nothing.
LEMMA MessageFields ==
    ASSUME NEW type
    PROVE  /\ IsMessage(Message(type)) /\ Message(type).type = type
           /\ \A f : ~has_field(Message(type), f) /\ Field(Message(type), f) = Null
BY DEF IsMessage, Message, has_field, Field

\* A field that is set is set, and the others are what they were.
LEMMA PutFields ==
    ASSUME NEW m, IsMessage(m), NEW f \in 1 .. MaxFields - 1, NEW value
    PROVE  /\ IsMessage(Put(m, f, value)) /\ Put(m, f, value).type = m.type
           /\ \A g : /\ has_field(Put(m, f, value), g) <=> g = f \/ has_field(m, g)
                    /\ Field(Put(m, f, value), g) = IF g = f THEN value ELSE Field(m, g)
<1>1. Assign(m.fields, f, value) =
        [g \in DOMAIN m.fields \cup {f} |-> IF g = f THEN value ELSE m.fields[g]]
  BY DEF Assign, MaxFields
<1>2. Put(m, f, value) = [type |-> m.type, fields |-> Assign(m.fields, f, value)]
  BY DEF Put, IsMessage
<1> QED
  BY <1>1, <1>2 DEF IsMessage, has_field, Field

-----------------------------------------------------------------------------
(* Samples. *)

\* value is what a resource shows of the application's state.
Shows(value, state) ==
    /\ Source(value) = Led => value.v = state.pin
    /\ Source(value) = Config => Lookup(value, ValueKey).v = state.threshold

\* A boolean is the pin's.
LEMMA PinIsShown ==
    ASSUME NEW state
    PROVE  Source(Boolean(state.pin)) = Led /\ Shows(Boolean(state.pin), state)
<1>1. Source(Boolean(state.pin)) = Led
  BY DEF Source, Boolean
<1> QED
  BY <1>1, FourResources DEF Shows, Boolean

\* A whole number under its key is the threshold.
LEMMA ThresholdIsShown ==
    ASSUME NEW state
    PROVE  LET value == SetKey(Null, ValueKey, Whole(state.threshold))
           IN  Source(value) = Config /\ Shows(value, state)
<1> DEFINE value == Object(<<Pair(ValueKey, Whole(state.threshold))>>)
<1>1. SetKey(Null, ValueKey, Whole(state.threshold)) = value
  BY Keys, SetFirstKey DEF Null
<1>2. Lookup(value, ValueKey) = Whole(state.threshold)
  BY Keys, LookupOne
<1>3. value.t # "boolean"
  BY DEF Object
<1> HIDE DEF value
<1>4. Source(value) = Config
  BY <1>2, <1>3 DEF Source, Whole
<1> QED
  BY <1>1, <1>2, <1>4, FourResources DEF Shows, Whole

\* What the sensor says is told by its keys.
LEMMA ReadingIsShown ==
    ASSUME NEW c \in SensorCallback, NEW state
    PROVE  Source(c.out) = Sensor /\ Shows(c.out, state)
<1>0. PICK key \in {CelsiusKey, ErrorKey} : \E item : c.out = SetKey(Null, key, item)
  BY DEF SensorCallback
<1>1. PICK item : c.out = SetKey(Null, key, item)
  BY <1>0
<1> DEFINE value == Object(<<Pair(key, item)>>)
<1>2. c.out = value
  BY <1>1, Keys, SetFirstKey DEF Null
<1>3. Lookup(value, ValueKey) = Null
  BY Keys, LookupOne
<1>4. value.t # "boolean" /\ ensure_object(value).v = <<Pair(key, item)>>
  BY DEF Object, ensure_object
<1>5. Places(<<Pair(key, item)>>, key) = {1}
  BY Keys, LookupOne
<1> HIDE DEF value
<1>6. Source(value) = Sensor
  BY <1>3, <1>4, <1>5 DEF Source, Null
<1> QED
  BY <1>2, <1>6, FourResources DEF Shows

\* Running a resource on no input changes nothing.
LEMMA RunIdle ==
    ASSUME NEW r \in Resources, NEW request, empty(Field(request, PAYLOAD)),
           NEW response, NEW state, NEW o \in run_resource(r, request, response, state)
    PROVE  o.app = state
BY FourResources, IoTypes DEF run_resource, LedCallback, ConfigCallback

\* What running a resource without input makes of the messages: the sample is
\* the response's payload, or the request's for an input.
LEMMA RunSamples ==
    ASSUME NEW r \in Resources, r # Reboot,
           NEW request, IsMessage(request), Field(request, PAYLOAD) = Null,
           NEW response, IsMessage(response), ~has_field(response, PAYLOAD),
           NEW state, NEW o \in run_resource(r, request, response, state)
    PROVE  LET m == IF has_field(o.response, PAYLOAD) THEN o.response ELSE o.request
           IN  /\ IsMessage(m) /\ m.type \in {request.type, response.type}
               /\ has_field(m, PAYLOAD)
               /\ Source(Field(m, PAYLOAD)) = r /\ Shows(Field(m, PAYLOAD), state)
<1>0. empty(Null)
  BY DEF empty, Null
<1>1. PAYLOAD \in 1 .. MaxFields - 1 /\ PARAMETERS \in 1 .. MaxFields - 1 /\ PARAMETERS # PAYLOAD
  BY DEF PAYLOAD, PARAMETERS, MaxFields
<1>2. CASE r = Led
  <2>1. o.response = response /\ o.request = Put(request, PAYLOAD, Boolean(state.pin))
    BY <1>0, <1>2, IoTypes DEF run_resource, LedCallback
  <2> QED
    BY <1>1, <1>2, <2>1, PutFields, PinIsShown
<1>3. CASE r = Config
  <2>1. o.response = Put(response, PAYLOAD, SetKey(Null, ValueKey, Whole(state.threshold)))
    BY <1>0, <1>3, IoTypes DEF run_resource, ConfigCallback
  <2> QED
    BY <1>1, <1>3, <2>1, PutFields, ThresholdIsShown
<1>4. CASE r = Sensor
  <2>1. PICK c \in SensorCallback :
          LET filled == Put(response, PAYLOAD, c.out)
          IN  o.response = IF c.code = 0 THEN filled ELSE Put(filled, PARAMETERS, Signed(c.code))
    BY <1>4, IoTypes DEF run_resource
  <2> DEFINE filled == Put(response, PAYLOAD, c.out)
  <2>2. /\ IsMessage(filled) /\ filled.type = response.type
        /\ has_field(filled, PAYLOAD) /\ Field(filled, PAYLOAD) = c.out
    BY <1>1, PutFields
  <2>3. /\ IsMessage(o.response) /\ o.response.type = response.type
        /\ has_field(o.response, PAYLOAD) /\ Field(o.response, PAYLOAD) = c.out
    <3>1. o.response \in {filled, Put(filled, PARAMETERS, Signed(c.code))}
      BY <2>1
    <3> HIDE DEF filled
    <3> QED
      BY <1>1, <2>2, <3>1, PutFields
  <2> QED
    BY <1>4, <2>3, ReadingIsShown
<1> QED
  BY <1>2, <1>3, <1>4, FourResources

\* What stream_resource() sends: a sample of the state, which it leaves alone.
LEMMA SampleShows ==
    ASSUME NEW r \in Resources, NEW id, NEW state, NEW o \in stream_resource(r, id, state)
    PROVE  /\ o.app = state
           /\ r = Reboot => o.sent = <<>>
           /\ r # Reboot => \E m : /\ o.sent = <<m>> /\ IsMessage(m) /\ m.type = STREAM_DATA
                                   /\ Field(m, STREAM_ID) = Unsigned(id)
                                   /\ Source(Field(m, PAYLOAD)) = r
                                   /\ Shows(Field(m, PAYLOAD), state)
<1> DEFINE bare == Message(STREAM_DATA)
<1>1. /\ IsMessage(bare) /\ bare.type = STREAM_DATA
      /\ ~has_field(bare, PAYLOAD) /\ Field(bare, PAYLOAD) = Null /\ empty(Null)
  BY MessageFields DEF empty, Null
<1>2. CASE r = Reboot
  BY <1>2, IoTypes DEF stream_resource
<1>3. CASE r # Reboot
  <2>1. PICK ran \in run_resource(r, bare, bare, state) :
          /\ o.sent = LET m == IF has_field(ran.response, PAYLOAD) THEN ran.response ELSE ran.request
                      IN  IF has_field(m, PAYLOAD) THEN <<set_stream_id(m, id)>> ELSE <<>>
          /\ o.app = ran.app
    BY <1>3, IoTypes, FourResources DEF stream_resource
  <2>2. ran.app = state
    BY <1>1, <2>1, RunIdle
  <2> DEFINE m == IF has_field(ran.response, PAYLOAD) THEN ran.response ELSE ran.request
  <2>3. /\ IsMessage(m) /\ m.type = STREAM_DATA /\ has_field(m, PAYLOAD)
        /\ Source(Field(m, PAYLOAD)) = r /\ Shows(Field(m, PAYLOAD), state)
    BY <1>1, <1>3, <2>1, RunSamples
  <2>4. o.sent = <<set_stream_id(m, id)>>
    BY <2>1, <2>3
  <2> HIDE DEF m
  <2>5. /\ IsMessage(set_stream_id(m, id)) /\ set_stream_id(m, id).type = STREAM_DATA
        /\ Field(set_stream_id(m, id), STREAM_ID) = Unsigned(id)
        /\ Field(set_stream_id(m, id), PAYLOAD) = Field(m, PAYLOAD)
    BY <2>3, PutFields DEF set_stream_id, STREAM_ID, PAYLOAD, MaxFields
  <2> QED
    BY <1>3, <2>1, <2>2, <2>3, <2>4, <2>5
<1> QED
  BY <1>2, <1>3

-----------------------------------------------------------------------------
(* The state of the application. *)

\* streams_ holds resources.
StreamsInv == \A i \in DOMAIN streams : streams[i].resource \in Resources

\* Every step keeps them.
LEMMA StreamsOfResources == DeviceSpec => []StreamsInv
<1>1. DeviceInit => StreamsInv
  BY DEF DeviceInit, StreamsInv
<1>2. StreamsInv /\ [DeviceNext]_device => StreamsInv'
  <2> SUFFICES ASSUME StreamsInv, [DeviceNext]_device PROVE StreamsInv'
    OBVIOUS
  <2>1. CASE UNCHANGED streams
    BY <2>1 DEF StreamsInv
  <2>2. CASE streams' = <<>>
    BY <2>2 DEF StreamsInv
  <2>3. ASSUME NEW m, HandleStartStream(m)
        PROVE  StreamsInv'
    <3>1. CASE extract_resource_path(m) \notin Resources
      BY <2>1, <2>3, <3>1 DEF HandleStartStream
    <3>2. CASE extract_resource_path(m) \in Resources
      BY <2>3, <3>2 DEF HandleStartStream, StreamsInv
    <3> QED
      BY <3>1, <3>2
  <2>4. ASSUME NEW m, HandleStopStream(m)
        PROVE  StreamsInv'
    BY <2>1, <2>4 DEF HandleStopStream, StreamsInv, Restrict
  <2>5. ASSUME NEW m, handle_message(m)
        PROVE  StreamsInv'
    BY <2>1, <2>3, <2>4, <2>5 DEF handle_message, HandleRun, HandleDescribe, HandleStreamData
  <2> QED
    BY <2>1, <2>2, <2>5
    DEF DeviceNext, device, ProcessIncoming, Disconnect, CallServer, Stream, Send, TakeAnswers
<1> QED
  BY <1>1, <1>2, PTL DEF DeviceSpec

\* Samples are taken without changing anything.
LEMMA SampleIdle ==
    ASSUME NEW r \in Resources, NEW id, NEW state, NEW o \in stream_resource(r, id, state)
    PROVE  o.app = state
BY SampleShows

\* A description is made without changing anything.
LEMMA DescriptionIdle ==
    ASSUME NEW r, NEW m, NEW state, NEW o \in described(r, m, state)
    PROVE  o.app = state
<1>1. empty(Null)
  BY DEF empty, Null
<1> QED
  BY <1>1 DEF described, LedCallback, ConfigCallback

\* A message that changes the state has input.
LEMMA OnlyInput ==
    ASSUME StreamsInv, NEW m, handle_message(m), app' # app
    PROVE  m.type \in {RUN, STREAM_DATA} /\ ~empty(Field(m, PAYLOAD))
<1>1. CASE m.type = RUN /\ HandleRun(m)
  <2> DEFINE r == extract_resource_path(m)
             response == Response(get_stream_id(m), OK)
  <2>1. r \in Resources
    BY <1>1 DEF HandleRun
  <2>2. PICK o \in run_resource(r, m, response, app) :
          \E echo \in IF has_field(o.request, PAYLOAD) /\ stream_enabled(r) /\ HasInput(r)
                      THEN stream_resource(r, stream_id[r], o.app)
                      ELSE {[sent |-> <<>>, app |-> o.app]} : app' = echo.app
    BY <1>1, <2>1 DEF HandleRun
  <2>3. app' = o.app
    BY <2>1, <2>2, SampleIdle
  <2> QED
    BY <1>1, <2>1, <2>2, <2>3, RunIdle
<1>2. CASE m.type = STREAM_DATA /\ HandleStreamData(m)
  <2> DEFINE id == get_stream_id(m)
             r == streams[id].resource
  <2>1. id \in DOMAIN streams /\ r \in Resources
    BY <1>2 DEF HandleStreamData, StreamsInv
  <2>2. PICK o \in run_resource(r, m, Response(id, STREAM_DATA), app) :
          \E s \in stream_resource(r, id, o.app) : app' = s.app
    BY <1>2, <2>1 DEF HandleStreamData
  <2>3. app' = o.app
    BY <2>1, <2>2, SampleIdle
  <2> QED
    BY <1>2, <2>1, <2>2, <2>3, RunIdle
<1>3. CASE HandleStartStream(m)
  BY <1>3, SampleIdle DEF HandleStartStream
<1>4. CASE HandleDescribe(m)
  BY <1>4, DescriptionIdle DEF HandleDescribe
<1>5. CASE HandleStopStream(m)
  BY <1>5 DEF HandleStopStream
<1> QED
  BY <1>1, <1>2, <1>3, <1>4, <1>5 DEF handle_message

(***************************************************************************)
(* Whatever the server sends, in whichever form and with whichever         *)
(* payload, the application's state changes by input alone: every step is  *)
(* one OnlyInputChangesTheState allows.                                    *)
(***************************************************************************)
THEOREM OnlyInputEverChangesTheState == DeviceSpec => OnlyInputChangesTheState
<1>1. StreamsInv /\ [DeviceNext]_device =>
        [app' # app =>
          /\ flight # <<>> /\ Head(flight).type \in {RUN, STREAM_DATA}
          /\ Field(Head(flight), PAYLOAD) \notin {Null, Array(<<>>), Object(<<>>), String(<<>>)}]_device
  <2> SUFFICES ASSUME StreamsInv, DeviceNext, app' # app
               PROVE  /\ flight # <<>> /\ Head(flight).type \in {RUN, STREAM_DATA}
                      /\ Field(Head(flight), PAYLOAD)
                           \notin {Null, Array(<<>>), Object(<<>>), String(<<>>)}
    OBVIOUS
  <2>1. CASE ProcessIncoming
    <3>1. flight # <<>> /\ handle_message(Head(flight))
      BY <2>1 DEF ProcessIncoming, Disconnect
    <3>2. Head(flight).type \in {RUN, STREAM_DATA} /\ ~empty(Field(Head(flight), PAYLOAD))
      BY <3>1, OnlyInput
    <3> QED
      BY <3>1, <3>2 DEF empty, Sized, Null, Array, Object, String
  <2>2. ASSUME NEW r \in Resources, Stream(r) PROVE FALSE
    BY <2>2, SampleIdle DEF Stream
  <2> QED
    BY <2>1, <2>2 DEF DeviceNext, CallServer, Send, TakeAnswers
<1> QED
  BY <1>1, StreamsOfResources, PTL DEF DeviceSpec, OnlyInputChangesTheState

-----------------------------------------------------------------------------
(* What is sent. *)

\* An answer without content.
LEMMA ResponseFields ==
    ASSUME NEW id, NEW type
    PROVE  /\ IsMessage(Response(id, type)) /\ Response(id, type).type = type
           /\ Field(Response(id, type), STREAM_ID) = Unsigned(id)
           /\ \A f \in {PARAMETERS, PAYLOAD, RESOURCE} :
                ~has_field(Response(id, type), f) /\ Field(Response(id, type), f) = Null
BY MessageFields, PutFields
DEF Response, set_stream_id, STREAM_ID, PARAMETERS, PAYLOAD, RESOURCE, MaxFields

\* Running a resource fills its answer and leaves the rest of it.
LEMMA RunFills ==
    ASSUME NEW r \in Resources, NEW request, NEW response, IsMessage(response), NEW state,
           NEW o \in run_resource(r, request, response, state)
    PROVE  /\ IsMessage(o.response) /\ o.response.type = response.type
           /\ Field(o.response, STREAM_ID) = Field(response, STREAM_ID)
<1>1. /\ PAYLOAD \in 1 .. MaxFields - 1 /\ PARAMETERS \in 1 .. MaxFields - 1
      /\ STREAM_ID # PAYLOAD /\ STREAM_ID # PARAMETERS
  BY DEF STREAM_ID, PAYLOAD, PARAMETERS, MaxFields
<1>2. \A x : /\ IsMessage(Put(response, PAYLOAD, x)) /\ Put(response, PAYLOAD, x).type = response.type
             /\ Field(Put(response, PAYLOAD, x), STREAM_ID) = Field(response, STREAM_ID)
  BY <1>1, PutFields
<1>3. \A x, y : LET m == Put(Put(response, PAYLOAD, x), PARAMETERS, y)
                IN  /\ IsMessage(m) /\ m.type = response.type
                    /\ Field(m, STREAM_ID) = Field(response, STREAM_ID)
  BY <1>1, <1>2, PutFields
<1>4. \/ o.response = response
      \/ \E x : o.response = Put(response, PAYLOAD, x)
      \/ \E x, y : o.response = Put(Put(response, PAYLOAD, x), PARAMETERS, y)
  BY FourResources, IoTypes DEF run_resource
<1> QED
  BY <1>2, <1>3, <1>4

\* A description fills its answer.
LEMMA DescriptionFills ==
    ASSUME NEW r, NEW m, IsMessage(m), NEW state, NEW d \in described(r, m, state)
    PROVE  /\ IsMessage(d.message) /\ d.message.type = m.type
           /\ Field(d.message, STREAM_ID) = Field(m, STREAM_ID)
<1>1. PAYLOAD \in 1 .. MaxFields - 1 /\ STREAM_ID # PAYLOAD
  BY DEF STREAM_ID, PAYLOAD, MaxFields
<1>2. \A x : /\ IsMessage(Put(m, PAYLOAD, x)) /\ Put(m, PAYLOAD, x).type = m.type
             /\ Field(Put(m, PAYLOAD, x), STREAM_ID) = Field(m, STREAM_ID)
  BY <1>1, PutFields
<1>3. d.message = m \/ \E x : d.message = Put(m, PAYLOAD, x)
  BY DEF described
<1> QED
  BY <1>2, <1>3

\* Data in the messages sent shows the state.
AllShow(messages, state) ==
    \A i \in DOMAIN messages :
        messages[i].type = STREAM_DATA => Shows(Field(messages[i], PAYLOAD), state)

\* One message that is no data, and what a sample sends.
LEMMA AnswerAndSample ==
    ASSUME NEW r \in Resources, NEW id, NEW state, NEW s \in stream_resource(r, id, state),
           NEW a, a.type # STREAM_DATA
    PROVE  AllShow(s.sent, state) /\ AllShow(<<a>>, state) /\ AllShow(<<a>> \o s.sent, state)
<1>1. CASE s.sent = <<>>
  BY <1>1 DEF AllShow
<1>2. ASSUME NEW m, s.sent = <<m>>, Shows(Field(m, PAYLOAD), state)
      PROVE  AllShow(s.sent, state) /\ AllShow(<<a>>, state) /\ AllShow(<<a>> \o s.sent, state)
  BY <1>2 DEF AllShow
<1> QED
  BY <1>1, <1>2, SampleShows

\* A message that is handled sends data of the state after it.
LEMMA HandledShows ==
    ASSUME StreamsInv, NEW m, handle_message(m)
    PROVE  AllShow(out', app')
<1>0. OK # STREAM_DATA /\ ERROR # STREAM_DATA
  BY DEF OK, ERROR, STREAM_DATA
<1>1. ASSUME NEW a, a.type # STREAM_DATA, out' = <<a>> \/ out' = <<>>
      PROVE  AllShow(out', app')
  BY <1>1 DEF AllShow
<1>2. CASE HandleRun(m)
  <2> DEFINE r == extract_resource_path(m)
             response == Response(get_stream_id(m), OK)
  <2>0. IsMessage(response)
    BY ResponseFields
  <2>1. CASE r \notin Resources
    <3>1. out' = <<[response EXCEPT !.type = ERROR]>>
      BY <1>2, <2>1 DEF HandleRun
    <3>2. [response EXCEPT !.type = ERROR].type = ERROR
      BY <2>0 DEF IsMessage
    <3> QED
      BY <1>0, <1>1, <3>1, <3>2
  <2>2. CASE r \in Resources
    <3>1. PICK o \in run_resource(r, m, response, app) :
            \E echo \in IF has_field(o.request, PAYLOAD) /\ stream_enabled(r) /\ HasInput(r)
                         THEN stream_resource(r, stream_id[r], o.app)
                         ELSE {[sent |-> <<>>, app |-> o.app]} :
               /\ out' = <<[o.response EXCEPT !.type = IF o.success THEN OK ELSE ERROR]>> \o echo.sent
               /\ app' = echo.app
      BY <1>2, <2>2 DEF HandleRun
    <3> DEFINE a == [o.response EXCEPT !.type = IF o.success THEN OK ELSE ERROR]
    <3>2. a.type # STREAM_DATA
      <4>1. IsMessage(o.response)
        BY <2>0, <2>2, RunFills
      <4> QED
        BY <1>0, <4>1 DEF IsMessage
    <3>0. PICK echo : /\ IF has_field(o.request, PAYLOAD) /\ stream_enabled(r) /\ HasInput(r)
                           THEN echo \in stream_resource(r, stream_id[r], o.app)
                           ELSE echo.sent = <<>>
                      /\ out' = <<a>> \o echo.sent /\ app' = echo.app
      BY <3>1
    <3> HIDE DEF a
    <3>3. CASE echo.sent = <<>>
      BY <1>1, <3>0, <3>2, <3>3
    <3>4. CASE echo \in stream_resource(r, stream_id[r], o.app)
      BY <2>2, <3>0, <3>2, <3>4, SampleIdle, AnswerAndSample
    <3> QED
      BY <3>0, <3>3, <3>4
  <2> QED
    BY <2>1, <2>2
<1>3. CASE HandleDescribe(m)
  <2> DEFINE response == Response(get_stream_id(m), OK)
  <2>1. IsMessage(response) /\ response.type = OK
    BY ResponseFields
  <2>2. PICK a : out' = <<a>> /\ \/ a = Put(response, PAYLOAD, ApiDescription)
                                 \/ \E d \in described(extract_resource_path(m), response, app) : a = d.message
                                 \/ a = [response EXCEPT !.type = ERROR]
    BY <1>3 DEF HandleDescribe
  <2>3. Put(response, PAYLOAD, ApiDescription).type = OK
    BY <2>1, PutFields DEF PAYLOAD, MaxFields
  <2>4. [response EXCEPT !.type = ERROR].type = ERROR
    BY <2>1 DEF IsMessage
  <2> HIDE DEF response
  <2>5. \A d \in described(extract_resource_path(m), response, app) : d.message.type = OK
    BY <2>1, DescriptionFills
  <2>6. a.type \in {OK, ERROR}
    BY <2>1, <2>2, <2>3, <2>4, <2>5
  <2> QED
    BY <1>0, <1>1, <2>2, <2>6
<1>4. CASE HandleStartStream(m)
  <2> DEFINE r == extract_resource_path(m)
             id == get_stream_id(m)
  <2>1. Response(id, OK).type = OK /\ Response(id, ERROR).type = ERROR
    BY ResponseFields
  <2>2. CASE r \notin Resources
    BY <1>0, <1>1, <1>4, <2>1, <2>2 DEF HandleStartStream
  <2>3. CASE r \in Resources
    <3>1. PICK s \in stream_resource(r, id, app) : out' = <<Response(id, OK)>> \o s.sent /\ app' = s.app
      BY <1>4, <2>3 DEF HandleStartStream
    <3> HIDE DEF r, id
    <3>2. s.app = app
      BY <2>3, SampleIdle
    <3>3. AllShow(<<Response(id, OK)>> \o s.sent, app)
      BY <1>0, <2>1, <2>3, AnswerAndSample
    <3> QED
      BY <3>1, <3>2, <3>3
  <2> QED
    BY <2>2, <2>3
<1>5. CASE HandleStreamData(m)
  <2> DEFINE id == get_stream_id(m)
             r == streams[id].resource
  <2>1. CASE out' = <<>>
    BY <2>1 DEF AllShow
  <2>2. ASSUME NEW o, NEW s \in stream_resource(r, id, o), r \in Resources, out' = s.sent, app' = s.app
        PROVE  AllShow(out', app')
    <3>1. Message(OK).type # STREAM_DATA
      BY <1>0, MessageFields
    <3> QED
      BY <2>2, <3>1, SampleIdle, AnswerAndSample
  <2> QED
    BY <1>5, <2>1, <2>2 DEF HandleStreamData, StreamsInv
<1>6. CASE HandleStopStream(m)
  BY <1>0, <1>1, <1>6, ResponseFields DEF HandleStopStream
<1>7. CASE out' = <<>>
  BY <1>7 DEF AllShow
<1> QED
  BY <1>2, <1>3, <1>4, <1>5, <1>6, <1>7 DEF handle_message

\* What was sent last still shows the state: nothing but a step that sends
\* changes it.
LEMMA NextShows ==
    StreamsInv /\ AllShow(out, app) /\ [DeviceNext]_device => AllShow(out', app')
<1> SUFFICES ASSUME StreamsInv, AllShow(out, app), [DeviceNext]_device
             PROVE  AllShow(out', app')
  OBVIOUS
<1>1. CASE out' = <<>>
  BY <1>1 DEF AllShow
<1>2. CASE ProcessIncoming
  BY <1>1, <1>2, HandledShows DEF ProcessIncoming, Disconnect
<1>3. CASE CallServer
  BY <1>3 DEF CallServer, AllShow, RUN, CONNECT, STREAM_DATA
<1>4. ASSUME NEW r \in Resources, Stream(r)
      PROVE  AllShow(out', app')
  <2>1. PICK s \in stream_resource(r, stream_id[r], app) : out' = s.sent /\ app' = s.app
    BY <1>4 DEF Stream
  <2>2. Message(OK).type # STREAM_DATA
    BY MessageFields DEF OK, STREAM_DATA
  <2>3. s.app = app
    BY SampleIdle
  <2>4. AllShow(s.sent, app)
    BY <2>2, AnswerAndSample
  <2> QED
    BY <2>1, <2>3, <2>4
<1>5. CASE UNCHANGED <<out, app>>
  BY <1>5
<1> QED
  BY <1>1, <1>2, <1>3, <1>4, <1>5 DEF DeviceNext, TakeAnswers, Send, device

(***************************************************************************)
(* Data on a stream always shows the state after the step, with the input  *)
(* of the request applied: every step is one DataShowsTheState allows.     *)
(***************************************************************************)
THEOREM DataAlwaysShowsTheState == DeviceSpec => DataShowsTheState
<1>1. DeviceInit => AllShow(out, app)
  BY DEF DeviceInit, AllShow
<1>2. StreamsInv /\ AllShow(out, app) /\ [DeviceNext]_device =>
        [\A i \in DOMAIN out' : out'[i].type = STREAM_DATA =>
           LET shown == Field(out'[i], PAYLOAD)
           IN  /\ Source(shown) = Led => shown.v = app'.pin
               /\ Source(shown) = Config => Lookup(shown, ValueKey).v = app'.threshold]_device
  BY NextShows DEF AllShow, Shows
<1>3. AllShow(out, app)' <=> AllShow(out', app')
  BY DEF AllShow, Shows, Source, Lookup, Places, Field, has_field
<1>4. StreamsInv /\ AllShow(out, app) /\ [DeviceNext]_device => AllShow(out, app)'
  BY <1>3, NextShows
<1> QED
  BY <1>1, <1>2, <1>4, StreamsOfResources, PTL DEF DeviceSpec, DataShowsTheState

-----------------------------------------------------------------------------
(* What a step sends. *)

\* It is no more than an answer and data.
Few(messages) ==
    messages = <<>> \/ (\E a : messages = <<a>>) \/ (\E a, b : messages = <<a>> \o <<b>>)

\* A sample sends data or nothing.
LEMMA SampleIsFew ==
    ASSUME NEW r, NEW id, NEW state, NEW s \in stream_resource(r, id, state)
    PROVE  s.sent = <<>> \/ \E a : s.sent = <<a>>
<1>1. CASE IoType[r] = "run"
  BY <1>1 DEF stream_resource
<1>2. CASE IoType[r] # "run"
  <2>1. PICK o : s.sent = LET m == IF has_field(o.response, PAYLOAD) THEN o.response ELSE o.request
                          IN  IF has_field(m, PAYLOAD) THEN <<set_stream_id(m, id)>> ELSE <<>>
    BY <1>2 DEF stream_resource
  <2> QED
    BY <2>1
<1> QED
  BY <1>1, <1>2

\* Nothing or a message is no more than that, also behind another.
LEMMA FewAreMore ==
    ASSUME NEW a, NEW s, s = <<>> \/ \E b : s = <<b>>
    PROVE  Few(s) /\ Few(<<a>> \o s)
<1>1. CASE s = <<>>
  BY <1>1 DEF Few
<1>2. ASSUME NEW b, s = <<b>> PROVE Few(s) /\ Few(<<a>> \o s)
  BY <1>2 DEF Few
<1> QED
  BY <1>1, <1>2

\* A message that is handled sends no more than that.
LEMMA HandledAreFew ==
    ASSUME NEW m, handle_message(m)
    PROVE  Few(out')
<1>1. CASE HandleRun(m)
  <2>1. CASE \E a : out' = <<a>>
    BY <2>1 DEF Few
  <2>2. ASSUME NEW a, NEW s, out' = <<a>> \o s.sent,
               s.sent = <<>> \/ \E r, id, state : s \in stream_resource(r, id, state)
        PROVE  Few(out')
    <3>1. s.sent = <<>> \/ \E b : s.sent = <<b>>
      BY <2>2, SampleIsFew, Zenon
    <3> QED
      BY <2>2, <3>1, FewAreMore
  <2> DEFINE r == extract_resource_path(m)
             response == Response(get_stream_id(m), OK)
  <2>3. CASE r \in Resources
    <3>1. PICK o \in run_resource(r, m, response, app) :
            \E echo \in IF has_field(o.request, PAYLOAD) /\ stream_enabled(r) /\ HasInput(r)
                         THEN stream_resource(r, stream_id[r], o.app)
                         ELSE {[sent |-> <<>>, app |-> o.app]} :
               out' = <<[o.response EXCEPT !.type = IF o.success THEN OK ELSE ERROR]>> \o echo.sent
      BY <1>1, <2>3 DEF HandleRun
    <3>2. PICK echo : /\ echo.sent = <<>> \/ echo \in stream_resource(r, stream_id[r], o.app)
                      /\ \E a : out' = <<a>> \o echo.sent
      BY <3>1
    <3> HIDE DEF r
    <3> QED
      BY <2>2, <3>2
  <2> QED
    BY <1>1, <2>1, <2>3 DEF HandleRun
<1>2. CASE HandleDescribe(m)
  BY <1>2 DEF HandleDescribe, Few
<1>3. CASE HandleStartStream(m)
  <2>1. CASE \E a : out' = <<a>>
    BY <2>1 DEF Few
  <2>2. ASSUME NEW a, NEW r, NEW id, NEW state, NEW s \in stream_resource(r, id, state),
               out' = <<a>> \o s.sent
        PROVE  Few(out')
    BY <2>2, SampleIsFew, FewAreMore
  <2> QED
    BY <1>3, <2>1, <2>2 DEF HandleStartStream
<1>4. CASE HandleStreamData(m)
  <2>1. CASE out' = <<>>
    BY <2>1 DEF Few
  <2>2. ASSUME NEW r, NEW id, NEW state, NEW s \in stream_resource(r, id, state), out' = s.sent
        PROVE  Few(out')
    BY <2>2, SampleIsFew, FewAreMore
  <2> QED
    BY <1>4, <2>1, <2>2 DEF HandleStreamData
<1>5. CASE HandleStopStream(m)
  BY <1>5 DEF HandleStopStream, Few
<1>6. CASE out' = <<>>
  BY <1>6 DEF Few
<1> QED
  BY <1>1, <1>2, <1>3, <1>4, <1>5, <1>6 DEF handle_message

\* So it is for every step of the device.
LEMMA StepsSendFew == Few(out) /\ [DeviceNext]_device => Few(out')
<1> SUFFICES ASSUME Few(out), [DeviceNext]_device PROVE Few(out')
  OBVIOUS
<1>1. CASE out' = <<>>
  BY <1>1 DEF Few
<1>2. CASE out' = out
  BY <1>2
<1>3. CASE ProcessIncoming
  BY <1>1, <1>3, HandledAreFew DEF ProcessIncoming, Disconnect
<1>4. CASE CallServer
  BY <1>4 DEF CallServer, Few
<1>5. ASSUME NEW r \in Resources, Stream(r) PROVE Few(out')
  BY <1>5, SampleIsFew, FewAreMore DEF Stream
<1> QED
  BY <1>1, <1>2, <1>3, <1>4, <1>5 DEF DeviceNext, TakeAnswers, Send, device

-----------------------------------------------------------------------------
(* Requests: what a message says, in whichever form. *)

\* Two segments make a path.
LEMMA FlattenPair ==
    ASSUME NEW a, NEW b
    PROVE  FlattenSeq(<<a, b>>) = a \o b
<1> DEFINE s == <<a, b>>
           Joins(f) == f = [i \in 1 .. Len(s) |-> IF i = 1 THEN s[i] ELSE f[i - 1] \o s[i]]
           whole == CHOOSE f : Joins(f)
           steps == [i \in 1 .. 2 |-> IF i = 1 THEN a ELSE a \o b]
<1>1. Len(s) = 2 /\ s[1] = a /\ s[2] = b
  OBVIOUS
<1>2. steps[1] = a /\ steps[2] = a \o b
  OBVIOUS
<1> HIDE DEF s
<1>3. Joins(steps)
  <2> HIDE DEF steps
  <2>1. \A i \in 1 .. 2 : i = 1 \/ (i = 2 /\ i - 1 = 1)
    OBVIOUS
  <2>2. \A i \in 1 .. 2 : steps[i] = IF i = 1 THEN s[i] ELSE steps[i - 1] \o s[i]
    BY <1>1, <1>2, <2>1, Zenon
  <2> QED
    BY <1>1, <2>2 DEF steps
<1>5. FlattenSeq(s) = whole[Len(s)]
  BY <1>1, 2 # 0 DEF FlattenSeq
<1> HIDE DEF Joins
<1>4. Joins(whole)
  BY <1>3
<1> HIDE DEF whole
<1>6. \A i \in 1 .. 2 : whole[i] = IF i = 1 THEN s[i] ELSE whole[i - 1] \o s[i]
  BY <1>1, <1>4, Zenon DEF Joins
<1>7. whole[1] = s[1] /\ whole[2] = whole[2 - 1] \o s[2]
  <2>1. 1 \in 1 .. 2 /\ 2 \in 1 .. 2 /\ 2 # 1
    OBVIOUS
  <2> QED
    BY <1>6, <2>1, Zenon
<1>8. 2 - 1 = 1
  OBVIOUS
<1> QED
  BY <1>1, <1>5, <1>7, <1>8, Zenon DEF s

\* The path of one resource has two segments.
LEMMA ConfigOfSegments == <<67>> \o (<<47>> \o <<83>>) = Config
<1> DEFINE second == <<47>> \o <<83>>
           whole == <<67>> \o <<47, 83>>
<1>1. second \in Seq(Nat) /\ Len(second) = 2 /\ second[1] = 47 /\ second[2] = 83
  OBVIOUS
<1>2. whole \in Seq(Nat) /\ Len(whole) = 3 /\ whole[1] = 67 /\ whole[2] = 47 /\ whole[3] = 83
  OBVIOUS
<1> HIDE DEF second, whole
<1>3. second = <<second[1], second[2]>> /\ whole = <<whole[1], whole[2], whole[3]>>
  BY <1>1, <1>2
<1>4. second = <<47, 83>> /\ whole = Config
  BY <1>1, <1>2, <1>3 DEF Config
<1> QED
  BY <1>4, Zenon DEF whole, second

\* A number below the width is read as it is.
LEMMA Unsigneds ==
    ASSUME NEW count \in Nat \ {0}, NEW n \in 0 .. count - 1
    PROVE  is_number(Unsigned(n)) /\ GetUnsigned(Unsigned(n), count) = n
<1>1. n % count = n
  OBVIOUS
<1> QED
  BY <1>1 DEF is_number, GetUnsigned, Unsigned

\* A resource is found by its path and by the path's segments.
LEMMA Paths ==
    ASSUME NEW r \in Resources \cup {Unknown}, NEW path \in PathForms(r),
           NEW m, Field(m, RESOURCE) = path
    PROVE  extract_resource_path(m) = r
<1>1. CASE path = String(r)
  BY <1>1 DEF extract_resource_path, String
<1>2. CASE path = Unsigned(2) /\ r = Unknown
  BY <1>2 DEF extract_resource_path, Unsigned, Unknown
<1>3. CASE r = Config /\ path = Array(<<String(<<67>>), String(<<83>>)>>)
  <2>1. /\ path.t = "array" /\ DOMAIN path.v = {1, 2}
        /\ GetString(path.v[1]) = <<67>> /\ GetString(path.v[2]) = <<83>>
    BY <1>3 DEF Array, String, GetString
  <2> DEFINE parts == [i \in DOMAIN path.v |->
                         IF i = 1 THEN GetString(path.v[i]) ELSE <<47>> \o GetString(path.v[i])]
  <2>2. extract_resource_path(m) = FlattenSeq(parts)
    BY <2>1 DEF extract_resource_path
  <2> DEFINE first == <<67>>
             second == <<47>> \o <<83>>
             pair == [i \in {1, 2} |-> IF i = 1 THEN first ELSE second]
  <2>3. parts = pair
    BY <2>1
  <2> HIDE DEF parts, first, second
  <2>4. FlattenSeq(<<first, second>>) = first \o second
    BY FlattenPair
  <2>5. pair = <<first, second>>
    OBVIOUS
  <2>6. first \o second = Config
    BY ConfigOfSegments, Zenon DEF first, second
  <2> HIDE DEF pair
  <2> QED
    BY <1>3, <2>2, <2>3, <2>4, <2>5, <2>6, Zenon
<1> QED
  BY <1>1, <1>2, <1>3, FourResources DEF PathForms

\* An interval is found under its key, bare and absent.
LEMMA IntervalIsRead ==
    ASSUME NEW n \in Intervals, NEW params \in IntervalForms(n), NEW m, Field(m, PARAMETERS) = params
    PROVE  IntervalOf(m) = n
<1>0. n \in 0 .. Uint32 - 1
  BY IntervalsAssumption
<1>1. CASE params = SetKey(Null, IntervalKey, Unsigned(n))
  <2>1. params = Object(<<Pair(IntervalKey, Unsigned(n))>>)
    BY <1>1, Keys, SetFirstKey DEF Null
  <2>2. params.t = "object" /\ Lookup(params, IntervalKey) = Unsigned(n)
    BY <2>1, Keys, LookupOne DEF Object
  <2> QED
    BY <1>0, <2>2, Unsigneds, IntegersAssumption DEF IntervalOf
<1>2. CASE params = Unsigned(n)
  BY <1>0, <1>2, Unsigneds, IntegersAssumption DEF IntervalOf, Unsigned
<1>3. CASE n = 0 /\ params = Null
  BY <1>3 DEF IntervalOf, Null, is_number
<1> QED
  BY <1>1, <1>2, <1>3 DEF IntervalForms

\* Fields keep out of each other's way.
LEMMA FieldNumbers ==
    /\ {STREAM_ID, PARAMETERS, PAYLOAD, RESOURCE} \subseteq 1 .. MaxFields - 1
    /\ STREAM_ID # PARAMETERS /\ STREAM_ID # PAYLOAD /\ STREAM_ID # RESOURCE
    /\ PARAMETERS # PAYLOAD /\ PARAMETERS # RESOURCE /\ PAYLOAD # RESOURCE
BY DEF STREAM_ID, PARAMETERS, PAYLOAD, RESOURCE, MaxFields

\* The type of a request.
Code == [RUN |-> RUN, DESCRIBE |-> DESCRIBE, START_STREAM |-> START_STREAM,
         STOP_STREAM |-> STOP_STREAM, STREAM_DATA |-> STREAM_DATA]

\* A message with a path.
Addressed(m, a) ==
    /\ IsMessage(m) /\ m.type = Code[a.type]
    /\ Field(m, STREAM_ID) = Unsigned(a.stream)
    /\ has_field(m, RESOURCE) /\ Field(m, RESOURCE) \in PathForms(a.resource)

\* A path that is added to an answer without content.
LEMMA AddressedFields ==
    ASSUME NEW a, NEW type, type = Code[a.type],
           NEW m \in With(Response(a.stream, type), RESOURCE, PathForms(a.resource))
    PROVE  Addressed(m, a) /\ Field(m, PARAMETERS) = Null /\ ~has_field(m, PAYLOAD)
<1>1. PICK path \in PathForms(a.resource) : m = Put(Response(a.stream, type), RESOURCE, path)
  BY DEF With
<1> QED
  BY <1>1, ResponseFields, PutFields, FieldNumbers DEF Addressed

\* What the forms of a request have in common.
LEMMA FormFields ==
    ASSUME NEW a \in Str!Requests, NEW m \in Forms(a)
    PROVE  /\ IsMessage(m) /\ m.type = Code[a.type] /\ Field(m, STREAM_ID) = Unsigned(a.stream)
           /\ a.type \in {"RUN", "DESCRIBE", "START_STREAM"} => Addressed(m, a)
           /\ a.type = "START_STREAM" => Field(m, PARAMETERS) \in IntervalForms(a.interval)
           /\ a.type # "START_STREAM" => Field(m, PARAMETERS) = Null
<1>1. CASE a.type = "RUN"
  <2>1. RUN = Code[a.type]
    BY <1>1 DEF Code
  <2>2. CASE m \in With(Response(a.stream, RUN), RESOURCE, PathForms(a.resource))
    BY <1>1, <2>1, <2>2, AddressedFields DEF Addressed
  <2>3. ASSUME NEW b \in With(Response(a.stream, RUN), RESOURCE, PathForms(a.resource)),
               NEW x, m = Put(b, PAYLOAD, x)
        PROVE  Addressed(m, a) /\ Field(m, PARAMETERS) = Null
    <3>1. Addressed(b, a) /\ Field(b, PARAMETERS) = Null
      BY <2>1, AddressedFields
    <3> QED
      BY <2>3, <3>1, PutFields, FieldNumbers DEF Addressed
  <2>4. m \in With(Response(a.stream, RUN), RESOURCE, PathForms(a.resource))
          \/ \E b \in With(Response(a.stream, RUN), RESOURCE, PathForms(a.resource)) :
               \E x : m = Put(b, PAYLOAD, x)
    <3>1. CASE a.payload
      <4>1. m \in UNION {With(b, PAYLOAD, Inputs) :
                           b \in With(Response(a.stream, RUN), RESOURCE, PathForms(a.resource))}
        BY <1>1, <3>1 DEF Forms
      <4> QED
        BY <4>1 DEF With
    <3>2. CASE ~a.payload
      BY <1>1, <3>2 DEF Forms
    <3> QED
      BY <3>1, <3>2
  <2> QED
    BY <1>1, <2>2, <2>3, <2>4 DEF Addressed
<1>2. CASE a.type = "DESCRIBE"
  <2>1. m \in With(Response(a.stream, DESCRIBE), RESOURCE, PathForms(a.resource))
    BY <1>2 DEF Forms
  <2> QED
    BY <1>2, <2>1, AddressedFields DEF Addressed, Code
<1>3. CASE a.type = "START_STREAM"
  <2>1. PICK b \in With(Response(a.stream, START_STREAM), RESOURCE, PathForms(a.resource)) :
          \E x \in IntervalForms(a.interval) : m = Put(b, PARAMETERS, x)
    BY <1>3 DEF Forms, With
  <2>2. Addressed(b, a)
    BY <1>3, AddressedFields DEF Code
  <2> QED
    BY <1>3, <2>1, <2>2, PutFields, FieldNumbers DEF Addressed
<1>4. CASE a.type = "STOP_STREAM"
  BY <1>4, ResponseFields DEF Forms, Code
<1>5. CASE a.type = "STREAM_DATA"
  <2>1. m = Response(a.stream, STREAM_DATA) \/ \E x : m = Put(Response(a.stream, STREAM_DATA), PAYLOAD, x)
    BY <1>5 DEF Forms, With
  <2> QED
    BY <1>5, <2>1, ResponseFields, PutFields, FieldNumbers DEF Code
<1> QED
  BY <1>1, <1>2, <1>3, <1>4, <1>5 DEF Str!Requests

\* What a request says is read as it was meant.
LEMMA FormsAreUnderstood ==
    ASSUME NEW a \in Str!Requests, NEW m \in Forms(a)
    PROVE  /\ get_stream_id(m) = a.stream
           /\ a.type \in {"RUN", "DESCRIBE", "START_STREAM"} =>
                extract_resource_path(m) = a.resource /\ has_field(m, RESOURCE)
           /\ a.type = "START_STREAM" => IntervalOf(m) = a.interval
           /\ a.type # "START_STREAM" => IntervalOf(m) = 0
<1>1. a.stream \in 0 .. Uint16 - 1
  BY IdsAssumption DEF Str!Requests
<1>2. get_stream_id(m) = a.stream
  BY <1>1, FormFields, Unsigneds, IntegersAssumption DEF get_stream_id
<1>3. ASSUME a.type \in {"RUN", "DESCRIBE", "START_STREAM"}
      PROVE  extract_resource_path(m) = a.resource /\ has_field(m, RESOURCE)
  <2>1. a.resource \in Resources \cup {Unknown}
    BY <1>3 DEF Str!Requests, Str!Paths
  <2>2. has_field(m, RESOURCE) /\ Field(m, RESOURCE) \in PathForms(a.resource)
    BY <1>3, FormFields DEF Addressed
  <2> QED
    BY <2>1, <2>2, Paths
<1>4. ASSUME a.type = "START_STREAM"
      PROVE  IntervalOf(m) = a.interval
  <2>1. a.interval \in Intervals
    BY <1>4 DEF Str!Requests
  <2> QED
    BY <1>4, <2>1, FormFields, IntervalIsRead
<1>5. ASSUME a.type # "START_STREAM"
      PROVE  IntervalOf(m) = 0
  BY <1>5, FormFields DEF IntervalOf, Null, is_number
<1> QED
  BY <1>2, <1>3, <1>4, <1>5

\* Whatever the server sends, its id and its interval are numbers.
LEMMA MessagesHoldNumbers ==
    ASSUME NEW m \in Messages
    PROVE  get_stream_id(m) \in 0 .. Uint16 - 1 /\ IntervalOf(m) \in Nat
<1>1. CASE m \in Probes
  BY <1>1, ProbesAssumption, IntegersAssumption
<1>2. ASSUME NEW a \in Str!Requests, m \in Forms(a)
      PROVE  get_stream_id(m) \in 0 .. Uint16 - 1 /\ IntervalOf(m) \in Nat
  <2>1. a.stream \in 0 .. Uint16 - 1
    BY IdsAssumption DEF Str!Requests
  <2>2. a.type = "START_STREAM" => a.interval \in Intervals
    BY DEF Str!Requests
  <2>3. 0 \in Nat /\ \A n \in Intervals : n \in Nat
    BY IntervalsAssumption
  <2>4. get_stream_id(m) = a.stream
    BY <1>2, FormsAreUnderstood
  <2>5. IntervalOf(m) = 0 \/ IntervalOf(m) \in Intervals
    BY <1>2, <2>2, FormsAreUnderstood
  <2>6. IntervalOf(m) \in Nat
    BY <2>3, <2>5, Zenon
  <2> QED
    BY <2>1, <2>4, <2>6, Zenon
<1> QED
  BY <1>1, <1>2 DEF Messages, Questions

-----------------------------------------------------------------------------
(* Answers: what the handlers send is what IotmpStreams sends. *)

\* A response tells its type and its id.
LEMMA AnswerTold ==
    ASSUME NEW m, NEW id \in 0 .. Uint16 - 1, Field(m, STREAM_ID) = Unsigned(id)
    PROVE  /\ m.type = OK => Told(m) = Str!Answer("OK", id)
           /\ m.type = ERROR => Told(m) = Str!Answer("ERROR", id)
<1>1. get_stream_id(m) = id
  BY Unsigneds, IntegersAssumption DEF get_stream_id
<1> QED
  BY <1>1 DEF Told, OK, ERROR, STREAM_DATA, Str!Answer

\* Data tells its id and where it comes from.
LEMMA DataTold ==
    ASSUME NEW m, NEW id \in 0 .. Uint16 - 1, Field(m, STREAM_ID) = Unsigned(id),
           m.type = STREAM_DATA
    PROVE  Told(m) = Str!Data(id, Source(Field(m, PAYLOAD)))
<1>1. get_stream_id(m) = id
  BY Unsigneds, IntegersAssumption DEF get_stream_id
<1> QED
  BY <1>1 DEF Told, OK, ERROR, STREAM_DATA, Str!Data

\* A sample tells what StreamResource does, alone and after an answer.
LEMMA SampleTold ==
    ASSUME NEW r \in Resources, NEW id \in 0 .. Uint16 - 1, NEW state,
           NEW s \in stream_resource(r, id, state)
    PROVE  /\ Said(s.sent) = Str!StreamResource(r, id)
           /\ \A a : Said(<<a>> \o s.sent) = {Told(a)} \cup Str!StreamResource(r, id)
<1> SUFFICES ASSUME NEW a
             PROVE  /\ Said(s.sent) = Str!StreamResource(r, id)
                    /\ Said(<<a>> \o s.sent) = {Told(a)} \cup Str!StreamResource(r, id)
  OBVIOUS
<1>1. CASE r = Reboot
  <2>1. Str!StreamResource(r, id) = {}
    BY <1>1, IoTypes DEF Str!StreamResource, Str!HasInput, Str!HasOutput
  <2>2. s.sent = <<>>
    BY <1>1, SampleShows
  <2>3. <<a>> \o s.sent = <<a>>
    BY <2>2
  <2> QED
    BY <2>1, <2>2, <2>3 DEF Said
<1>2. CASE r # Reboot
  <2>1. Str!StreamResource(r, id) = {Str!Data(id, r)}
    BY <1>2, FourResources, IoTypes DEF Str!StreamResource, Str!HasInput, Str!HasOutput
  <2>2. PICK m : s.sent = <<m>> /\ m.type = STREAM_DATA
                 /\ Field(m, STREAM_ID) = Unsigned(id) /\ Source(Field(m, PAYLOAD)) = r
    BY <1>2, SampleShows
  <2>3. Told(m) = Str!Data(id, r)
    BY <2>2, DataTold
  <2> DEFINE both == <<a>> \o <<m>>
  <2>4. DOMAIN both = {1, 2} /\ both[1] = a /\ both[2] = m
    OBVIOUS
  <2>5. Said(<<m>>) = {Told(m)}
    BY DEF Said
  <2> HIDE DEF both
  <2>6. Said(both) = {Told(a), Told(m)}
    BY <2>4 DEF Said
  <2> QED
    BY <2>1, <2>2, <2>3, <2>5, <2>6 DEF both
<1> QED
  BY <1>1, <1>2

\* Running a resource that reads input leaves a payload in the request, and
\* only one with an output fails.
LEMMA RunReads ==
    ASSUME NEW r \in Resources, NEW request, IsMessage(request), NEW response, NEW state,
           NEW o \in run_resource(r, request, response, state)
    PROVE  /\ HasInput(r) => has_field(o.request, PAYLOAD)
           /\ r # Sensor => o.success = TRUE
<1>1. \A x : has_field(Put(request, PAYLOAD, x), PAYLOAD)
  BY PutFields, FieldNumbers
<1>2. CASE r = Led
  BY <1>1, <1>2, FourResources, IoTypes DEF run_resource
<1>3. CASE r = Config
  BY <1>1, <1>3, FourResources, IoTypes DEF run_resource
<1>4. CASE r = Sensor
  BY <1>4, FourResources, IoTypes DEF run_resource, HasInput, SensorCallback
<1>5. CASE r = Reboot
  BY <1>5, FourResources, IoTypes DEF run_resource, HasInput
<1> QED
  BY <1>2, <1>3, <1>4, <1>5, FourResources

\* What the device holds: messages of the server, streams of resources and
\* ids that fit.
DeviceInv ==
    /\ flight \in Seq(Messages)
    /\ StreamsInv
    /\ \A i \in DOMAIN streams : streams[i].interval_ms \in Nat
    /\ stream_id \in [Resources -> 0 .. Uint16 - 1]

\* A stream is active when its id is in streams_.
LEMMA ActiveEntries ==
    ASSUME DeviceInv, NEW i \in Ids
    PROVE  /\ i \in Str!Active <=> i \in DOMAIN streams
           /\ i \in DOMAIN streams => Entries[i].resource = streams[i].resource
<1>1. ASSUME i \in DOMAIN streams
      PROVE  Entries[i] # NoStream /\ Entries[i].resource = streams[i].resource
  <2>1. Entries[i] = [resource |-> streams[i].resource, interval_ms |-> streams[i].interval_ms,
                      last_sample |-> 0]
    BY <1>1 DEF Entries
  <2>2. streams[i].resource \in Resources /\ streams[i].interval_ms \in Nat
    BY <1>1 DEF DeviceInv, StreamsInv
  <2> QED
    BY <2>1, <2>2, NoStreamAssumption
<1>2. ASSUME i \notin DOMAIN streams
      PROVE  Entries[i] = NoStream
  BY <1>2 DEF Entries
<1> QED
  BY <1>1, <1>2 DEF Str!Active

\* RUN: the answer, and the echo to the resource's stream.
LEMMA RunAsMeant ==
    ASSUME DeviceInv, NEW a \in Str!Requests, NEW m \in Forms(a), a.type = "RUN", HandleRun(m)
    PROVE  Str!HandleRun(a)
<1> DEFINE r == extract_resource_path(m)
           response == Response(get_stream_id(m), OK)
<1>1. r = a.resource /\ get_stream_id(m) = a.stream /\ a.stream \in 0 .. Uint16 - 1
      /\ a.resource \in Resources \cup {Unknown}
  BY FormsAreUnderstood, IdsAssumption DEF Str!Requests, Str!Paths
<1>2. IsMessage(response) /\ Field(response, STREAM_ID) = Unsigned(a.stream)
  BY <1>1, ResponseFields
<1>3. Entries' = Entries /\ stream_id' = stream_id
  BY DEF HandleRun, Entries
<1>4. CASE a.resource = Unknown
  <2> DEFINE answer == [response EXCEPT !.type = ERROR]
  <2>1. out' = <<answer>>
    BY <1>1, <1>4, FourResources DEF HandleRun
  <2>2. answer.type = ERROR /\ Field(answer, STREAM_ID) = Unsigned(a.stream)
    BY <1>2 DEF IsMessage, Field, has_field
  <2> HIDE DEF answer
  <2>3. Told(answer) = Str!Answer("ERROR", a.stream)
    BY <1>1, <2>2, AnswerTold
  <2>4. Said(out') = {Str!Answer("ERROR", a.stream)}
    BY <2>1, <2>3 DEF Said
  <2> QED
    BY <1>3, <1>4, <2>4 DEF Str!HandleRun
<1>5. CASE a.resource \in Resources
  <2>1. PICK o \in run_resource(r, m, response, app) :
          \E echo \in IF has_field(o.request, PAYLOAD) /\ stream_enabled(r) /\ HasInput(r)
                       THEN stream_resource(r, stream_id[r], o.app)
                       ELSE {[sent |-> <<>>, app |-> o.app]} :
             out' = <<[o.response EXCEPT !.type = IF o.success THEN OK ELSE ERROR]>> \o echo.sent
    BY <1>1, <1>5 DEF HandleRun
  <2> DEFINE answer == [o.response EXCEPT !.type = IF o.success THEN OK ELSE ERROR]
             type == IF o.success THEN "OK" ELSE "ERROR"
             echoes == stream_enabled(r) /\ HasInput(r)
  <2>2. PICK echo : /\ IF has_field(o.request, PAYLOAD) /\ stream_enabled(r) /\ HasInput(r)
                         THEN echo \in stream_resource(r, stream_id[r], o.app)
                         ELSE echo.sent = <<>>
                    /\ out' = <<answer>> \o echo.sent
    BY <2>1
  <2>3. HasInput(r) => has_field(o.request, PAYLOAD)
    BY <1>1, <1>5, FormFields, RunReads
  <2>4. IsMessage(o.response) /\ Field(o.response, STREAM_ID) = Unsigned(a.stream)
    BY <1>1, <1>2, <1>5, RunFills
  <2>5. Told(answer) = Str!Answer(type, a.stream)
    <3>1. answer.type = (IF o.success THEN OK ELSE ERROR) /\ Field(answer, STREAM_ID) = Unsigned(a.stream)
      BY <2>4 DEF IsMessage, Field, has_field
    <3> HIDE DEF answer
    <3> QED
      BY <1>1, <3>1, AnswerTold
  <2>6. type \in {"OK"} \cup (IF Str!HasOutput(a.resource) THEN {"ERROR"} ELSE {})
    <3>1. CASE a.resource = Sensor
      BY <3>1, IoTypes DEF Str!HasOutput
    <3>2. CASE a.resource # Sensor
      BY <1>1, <1>2, <1>5, <3>2, FormFields, RunReads
    <3> QED
      BY <3>1, <3>2
  <2> HIDE DEF answer, type
  <2>7. CASE echoes
    <3>1. echo \in stream_resource(r, stream_id[r], o.app) /\ stream_id[r] \in 0 .. Uint16 - 1
      BY <1>1, <1>5, <2>2, <2>3, <2>7 DEF DeviceInv
    <3>2. \A b : Said(<<b>> \o echo.sent) =
                   {Told(b)} \cup Str!StreamResource(a.resource, stream_id[a.resource])
      BY <1>1, <1>5, <3>1, SampleTold
    <3>3. Said(out') = {Str!Answer(type, a.stream)} \cup Str!StreamResource(a.resource, stream_id[a.resource])
      BY <2>2, <2>5, <3>2, Zenon
    <3>4. Str!HasPayloadAfterRun(a) /\ Str!stream_enabled(a.resource) /\ Str!HasInput(a.resource)
      BY <1>1, <2>7 DEF Str!HasPayloadAfterRun, Str!stream_enabled, Str!HasInput, HasInput, stream_enabled
    <3> QED
      BY <1>3, <1>5, <2>6, <3>3, <3>4, FourResources DEF Str!HandleRun
  <2>8. CASE ~echoes
    <3>1. echo.sent = <<>>
      BY <2>2, <2>8
    <3>2. <<answer>> \o <<>> = <<answer>>
      OBVIOUS
    <3>3. Said(out') = {Str!Answer(type, a.stream)}
      BY <2>2, <2>5, <3>1, <3>2 DEF Said
    <3>4. ~(Str!stream_enabled(a.resource) /\ Str!HasInput(a.resource))
      BY <1>1, <2>8 DEF Str!stream_enabled, Str!HasInput, HasInput, stream_enabled
    <3> QED
      BY <1>3, <1>5, <2>6, <3>3, <3>4, FourResources DEF Str!HandleRun
  <2> QED
    BY <2>7, <2>8
<1> QED
  BY <1>1, <1>4, <1>5

\* DESCRIBE: the answer, an error for a path no resource has.
LEMMA DescribeAsMeant ==
    ASSUME DeviceInv, NEW a \in Str!Requests, NEW m \in Forms(a), a.type = "DESCRIBE",
           HandleDescribe(m)
    PROVE  Str!HandleDescribe(a)
<1> DEFINE response == Response(get_stream_id(m), OK)
           r == extract_resource_path(m)
<1>1. /\ r = a.resource /\ has_field(m, RESOURCE) /\ get_stream_id(m) = a.stream
      /\ a.stream \in 0 .. Uint16 - 1 /\ a.resource \in Resources \cup {Unknown}
  BY FormsAreUnderstood, IdsAssumption DEF Str!Requests, Str!Paths
<1>2. IsMessage(response) /\ response.type = OK /\ Field(response, STREAM_ID) = Unsigned(a.stream)
  BY <1>1, ResponseFields
<1>3. Entries' = Entries /\ stream_id' = stream_id
  BY DEF HandleDescribe, Entries
<1>4. ASSUME NEW answer, out' = <<answer>>, Field(answer, STREAM_ID) = Unsigned(a.stream),
             answer.type = IF a.resource = Unknown THEN ERROR ELSE OK
      PROVE  Str!HandleDescribe(a)
  <2>1. Told(answer) = Str!Answer(IF a.resource = Unknown THEN "ERROR" ELSE "OK", a.stream)
    BY <1>1, <1>4, AnswerTold
  <2>2. Said(out') = {Told(answer)}
    BY <1>4 DEF Said
  <2> QED
    BY <1>3, <2>1, <2>2 DEF Str!HandleDescribe
<1>5. CASE a.resource = Unknown
  <2> DEFINE answer == [response EXCEPT !.type = ERROR]
  <2>1. out' = <<answer>>
    BY <1>1, <1>5, FourResources DEF HandleDescribe
  <2>2. answer.type = ERROR /\ Field(answer, STREAM_ID) = Unsigned(a.stream)
    BY <1>2 DEF IsMessage, Field, has_field
  <2> QED
    BY <1>4, <1>5, <2>1, <2>2
<1>6. CASE a.resource \in Resources
  <2>1. PICK d \in described(r, response, app) : out' = <<d.message>>
    BY <1>1, <1>6 DEF HandleDescribe
  <2>2. d.message.type = OK /\ Field(d.message, STREAM_ID) = Unsigned(a.stream)
    BY <1>2, <2>1, DescriptionFills
  <2> QED
    BY <1>4, <1>6, <2>1, <2>2, FourResources
<1> QED
  BY <1>1, <1>5, <1>6

\* START_STREAM: the stream is opened as it was asked for, and a first sample
\* follows the answer.
LEMMA StartStreamAsMeant ==
    ASSUME DeviceInv, NEW a \in Str!Requests, NEW m \in Forms(a), a.type = "START_STREAM",
           HandleStartStream(m)
    PROVE  Str!HandleStartStream(a)
<1> DEFINE r == extract_resource_path(m)
           id == get_stream_id(m)
<1>1. /\ r = a.resource /\ id = a.stream /\ IntervalOf(m) = a.interval
      /\ a.stream \in 0 .. Uint16 - 1 /\ a.resource \in Resources \cup {Unknown}
      /\ a.stream \in Ids
  BY FormsAreUnderstood, IdsAssumption DEF Str!Requests, Str!Paths
<1>2. CASE a.resource = Unknown
  <2>1. out' = <<Response(id, ERROR)>> /\ UNCHANGED <<streams, stream_id>>
    BY <1>1, <1>2, FourResources DEF HandleStartStream
  <2>2. Told(Response(id, ERROR)) = Str!Answer("ERROR", a.stream)
    BY <1>1, ResponseFields, AnswerTold
  <2>3. Said(out') = {Str!Answer("ERROR", a.stream)}
    BY <2>1, <2>2 DEF Said
  <2> QED
    BY <1>2, <2>1, <2>3 DEF Str!HandleStartStream, Entries
<1>3. CASE a.resource \in Resources
  <2>1. /\ stream_id' = [stream_id EXCEPT ![a.resource] = a.stream]
        /\ streams' = [i \in DOMAIN streams \cup {a.stream} |->
                         IF i = a.stream THEN [resource |-> a.resource, interval_ms |-> a.interval]
                         ELSE streams[i]]
    BY <1>1, <1>3 DEF HandleStartStream
  <2>2. PICK s \in stream_resource(r, id, app) : out' = <<Response(id, OK)>> \o s.sent
    BY <1>1, <1>3 DEF HandleStartStream
  <2>3. Told(Response(id, OK)) = Str!Answer("OK", a.stream)
    BY <1>1, ResponseFields, AnswerTold
  <2>4. Said(out') = {Str!Answer("OK", a.stream)} \cup Str!StreamResource(a.resource, a.stream)
    <3>1. s \in stream_resource(a.resource, a.stream, app)
      BY <1>1
    <3>2. \A b : Said(<<b>> \o s.sent) = {Told(b)} \cup Str!StreamResource(a.resource, a.stream)
      BY <1>1, <1>3, <3>1, SampleTold
    <3> QED
      BY <2>2, <2>3, <3>2, Zenon
  <2>5. Entries' = [Entries EXCEPT ![a.stream] = [resource |-> a.resource, interval_ms |-> a.interval,
                                                  last_sample |-> 0]]
    BY <1>1, <2>1 DEF Entries
  <2> QED
    BY <1>3, <2>1, <2>4, <2>5, FourResources DEF Str!HandleStartStream
<1> QED
  BY <1>1, <1>2, <1>3

\* STOP_STREAM: the stream is closed and its resource forgets its id.
LEMMA StopStreamAsMeant ==
    ASSUME DeviceInv, NEW a \in Str!Requests, NEW m \in Forms(a), a.type = "STOP_STREAM",
           HandleStopStream(m)
    PROVE  Str!HandleStopStream(a)
<1>1. get_stream_id(m) = a.stream /\ a.stream \in 0 .. Uint16 - 1 /\ a.stream \in Ids
  BY FormsAreUnderstood, IdsAssumption DEF Str!Requests
<1>2. Told(Response(a.stream, OK)) = Str!Answer("OK", a.stream)
  BY <1>1, ResponseFields, AnswerTold
<1>3. Said(out') = {Str!Answer("OK", a.stream)}
  BY <1>1, <1>2 DEF HandleStopStream, Said
<1>4. CASE a.stream \in DOMAIN streams
  <2>1. /\ stream_id' = [stream_id EXCEPT ![streams[a.stream].resource] = 0]
        /\ streams' = [i \in DOMAIN streams \ {a.stream} |-> streams[i]]
    BY <1>1, <1>4 DEF HandleStopStream, Restrict
  <2>2. Entries' = [Entries EXCEPT ![a.stream] = NoStream]
    BY <1>1, <2>1 DEF Entries
  <2> QED
    BY <1>1, <1>3, <1>4, <2>1, <2>2, ActiveEntries DEF Str!HandleStopStream
<1>5. CASE a.stream \notin DOMAIN streams
  <2>1. Entries' = Entries /\ stream_id' = stream_id
    BY <1>1, <1>5 DEF HandleStopStream, Entries
  <2> QED
    BY <1>1, <1>3, <1>5, <2>1, ActiveEntries DEF Str!HandleStopStream
<1> QED
  BY <1>4, <1>5

\* STREAM_DATA: the echo, on a stream that is open.
LEMMA StreamDataAsMeant ==
    ASSUME DeviceInv, NEW a \in Str!Requests, NEW m \in Forms(a), a.type = "STREAM_DATA",
           HandleStreamData(m)
    PROVE  Str!HandleStreamData(a)
<1> DEFINE r == streams[a.stream].resource
<1>1. get_stream_id(m) = a.stream /\ a.stream \in 0 .. Uint16 - 1 /\ a.stream \in Ids
  BY FormsAreUnderstood, IdsAssumption DEF Str!Requests
<1>2. Entries' = Entries /\ stream_id' = stream_id
  BY DEF HandleStreamData, Entries
<1>3. CASE a.stream \in DOMAIN streams
  <2>1. r \in Resources /\ a.stream \in Str!Active /\ Entries[a.stream].resource = r
    BY <1>1, <1>3, ActiveEntries DEF DeviceInv, StreamsInv
  <2>2. PICK state, s : s \in stream_resource(r, a.stream, state) /\ out' = s.sent
    BY <1>1, <1>3 DEF HandleStreamData
  <2>3. Said(s.sent) = Str!StreamResource(r, a.stream)
    BY <1>1, <2>1, <2>2, SampleTold
  <2>4. Said(out') = Str!StreamResource(r, a.stream)
    BY <2>2, <2>3, Zenon
  <2> HIDE DEF r
  <2> QED
    BY <1>2, <2>1, <2>4 DEF Str!HandleStreamData
<1>4. CASE a.stream \notin DOMAIN streams
  <2>1. out' = <<>>
    BY <1>1, <1>4 DEF HandleStreamData
  <2>2. Said(out') = {}
    BY <2>1 DEF Said
  <2> QED
    BY <1>1, <1>2, <1>4, <2>2, ActiveEntries DEF Str!HandleStreamData
<1> QED
  BY <1>3, <1>4

\* Every request is handled as it was meant.
LEMMA MessageAsMeant ==
    ASSUME DeviceInv, NEW a \in Str!Requests, NEW m \in Forms(a), handle_message(m)
    PROVE  Str!HandleMessage(a)
<1>1. m.type = Code[a.type]
  BY FormFields
<1>2. a.type \in {"RUN", "DESCRIBE", "START_STREAM", "STOP_STREAM", "STREAM_DATA"}
  BY DEF Str!Requests
<1>3. /\ a.type = "RUN" => m.type = RUN
      /\ a.type = "DESCRIBE" => m.type = DESCRIBE
      /\ a.type = "START_STREAM" => m.type = START_STREAM
      /\ a.type = "STOP_STREAM" => m.type = STOP_STREAM
      /\ a.type = "STREAM_DATA" => m.type = STREAM_DATA
  BY <1>1 DEF Code
<1>4. /\ a.type = "RUN" => HandleRun(m)
      /\ a.type = "DESCRIBE" => HandleDescribe(m)
      /\ a.type = "START_STREAM" => HandleStartStream(m)
      /\ a.type = "STOP_STREAM" => HandleStopStream(m)
      /\ a.type = "STREAM_DATA" => HandleStreamData(m)
  BY <1>3 DEF handle_message, RUN, DESCRIBE, START_STREAM, STOP_STREAM, STREAM_DATA
<1> QED
  BY <1>2, <1>4, RunAsMeant, DescribeAsMeant, StartStreamAsMeant, StopStreamAsMeant,
     StreamDataAsMeant
  DEF Str!HandleMessage

\* Nothing the device reads or the application does leaves what it may hold.
LEMMA DeviceInvStep == DeviceInv /\ [DeviceNext]_device => DeviceInv'
<1> SUFFICES ASSUME DeviceInv, [DeviceNext]_device PROVE DeviceInv'
  OBVIOUS
<1>1. CASE UNCHANGED <<flight, streams, stream_id>>
  BY <1>1 DEF DeviceInv, StreamsInv
<1>2. ASSUME NEW m \in Messages, Send(m)
      PROVE  DeviceInv'
  BY <1>2 DEF Send, DeviceInv, StreamsInv
<1>3. CASE ProcessIncoming
  <2>0. 0 \in 0 .. Uint16 - 1
    BY IntegersAssumption
  <2>1. flight # <<>> /\ Head(flight) \in Messages /\ Tail(flight) \in Seq(Messages)
    BY <1>3 DEF ProcessIncoming, DeviceInv
  <2>2. flight' \in Seq(Messages)
    <3>1. flight' = <<>> \/ flight' = Tail(flight)
      BY <1>3, Zenon DEF ProcessIncoming
    <3>2. <<>> \in Seq(Messages)
      OBVIOUS
    <3> QED
      BY <2>1, <3>1, <3>2, Zenon
  <2>3. CASE UNCHANGED <<streams, stream_id>>
    BY <2>2, <2>3 DEF DeviceInv, StreamsInv
  <2>4. CASE Disconnect
    <3>1. DOMAIN streams' = {} /\ stream_id' \in [Resources -> 0 .. Uint16 - 1]
      BY <2>0, <2>4 DEF Disconnect
    <3> QED
      BY <2>2, <3>1 DEF DeviceInv, StreamsInv
  <2>5. ASSUME NEW m \in Messages, HandleStartStream(m)
        PROVE  DeviceInv'
    <3> DEFINE r == extract_resource_path(m)
               id == get_stream_id(m)
    <3>1. CASE r \notin Resources
      BY <2>3, <2>5, <3>1 DEF HandleStartStream
    <3>2. CASE r \in Resources
      <4>1. id \in 0 .. Uint16 - 1 /\ IntervalOf(m) \in Nat
        BY MessagesHoldNumbers
      <4>2. /\ stream_id' = [stream_id EXCEPT ![r] = id]
            /\ streams' = [i \in DOMAIN streams \cup {id} |->
                             IF i = id THEN [resource |-> r, interval_ms |-> IntervalOf(m)]
                             ELSE streams[i]]
        BY <2>5, <3>2 DEF HandleStartStream
      <4> HIDE DEF r, id
      <4>3. stream_id' \in [Resources -> 0 .. Uint16 - 1]
        BY <4>1, <4>2 DEF DeviceInv
      <4>4. \A i \in DOMAIN streams' :
              streams'[i].resource \in Resources /\ streams'[i].interval_ms \in Nat
        BY <3>2, <4>1, <4>2 DEF DeviceInv, StreamsInv
      <4> QED
        BY <2>2, <4>3, <4>4 DEF DeviceInv, StreamsInv
    <3> QED
      BY <3>1, <3>2
  <2>6. ASSUME NEW m \in Messages, HandleStopStream(m)
        PROVE  DeviceInv'
    <3> DEFINE id == get_stream_id(m)
    <3>1. CASE id \notin DOMAIN streams
      BY <2>3, <2>6, <3>1 DEF HandleStopStream
    <3>2. CASE id \in DOMAIN streams
      <4>1. /\ stream_id' = [stream_id EXCEPT ![streams[id].resource] = 0]
            /\ streams' = [i \in DOMAIN streams \ {id} |-> streams[i]]
        BY <2>6, <3>2 DEF HandleStopStream, Restrict
      <4> HIDE DEF id
      <4>2. stream_id' \in [Resources -> 0 .. Uint16 - 1]
        BY <2>0, <4>1 DEF DeviceInv
      <4>3. \A i \in DOMAIN streams' :
              streams'[i].resource \in Resources /\ streams'[i].interval_ms \in Nat
        BY <4>1 DEF DeviceInv, StreamsInv
      <4> QED
        BY <2>2, <4>2, <4>3 DEF DeviceInv, StreamsInv
    <3> QED
      BY <3>1, <3>2
  <2> QED
    BY <1>3, <2>1, <2>3, <2>4, <2>5, <2>6
    DEF ProcessIncoming, handle_message, HandleRun, HandleDescribe, HandleStreamData
<1> QED
  BY <1>1, <1>2, <1>3 DEF DeviceNext, device, CallServer, Stream, TakeAnswers

(***************************************************************************)
(* Whichever form the server gives a path and an interval, every request   *)
(* is handled as IotmpStreams handles what it means: every step is one     *)
(* RequestsAreHandledAsMeant allows.                                       *)
(***************************************************************************)
THEOREM RequestsAreAlwaysHandledAsMeant == DeviceSpec => RequestsAreHandledAsMeant
<1>1. DeviceInit => DeviceInv
  BY IntegersAssumption DEF DeviceInit, DeviceInv, StreamsInv
<1>2. DeviceInv /\ [DeviceNext]_device =>
        [flight # <<>> /\ flight' = Tail(flight) =>
           \A q \in Questions : Head(flight) \in q.messages => Str!HandleMessage(q.meaning)]_device
  <2> SUFFICES ASSUME DeviceInv, DeviceNext, flight # <<>>, flight' = Tail(flight),
                      NEW a \in Str!Requests, Head(flight) \in Forms(a)
               PROVE  Str!HandleMessage(a)
    BY DEF Questions
  <2>1. flight \in Seq(Messages)
    BY DEF DeviceInv
  <2>2. flight' # flight /\ \A m : flight' # Append(flight, m)
    BY <2>1
  <2>3. ProcessIncoming
    BY <2>2 DEF DeviceNext, CallServer, Stream, Send, TakeAnswers
  <2>4. Head(flight).type # DISCONNECT
    <3>1. Head(flight).type = Code[a.type]
      BY FormFields
    <3> QED
      BY <3>1 DEF Str!Requests, Code, RUN, DESCRIBE, START_STREAM, STOP_STREAM, STREAM_DATA,
                  DISCONNECT
  <2>5. handle_message(Head(flight))
    BY <2>3, <2>4 DEF ProcessIncoming
  <2> QED
    BY <2>5, MessageAsMeant
<1> QED
  BY <1>1, <1>2, DeviceInvStep, PTL DEF DeviceSpec, RequestsAreHandledAsMeant

-----------------------------------------------------------------------------
(* Frames. *)

\* A frame is bytes, at least one.
LEMMA MessageBytes ==
    ASSUME NEW m, Readable(m)
    PROVE  /\ m.type \in Nat /\ m.type < Uint32
           /\ EncodeBody(m) \in Seq(Byte) /\ Len(EncodeBody(m)) \in Nat
           /\ Len(EncodeBody(m)) < Uint32 /\ Len(EncodeBody(m)) <= MaxMessageSize
           /\ Varint[m.type] \in Seq(Byte) /\ Varint[Len(EncodeBody(m))] \in Seq(Byte)
           /\ Varint[m.type] \o Varint[Len(EncodeBody(m))] \in Seq(Byte)
           /\ encode_message(m) \in Seq(Byte)
<1>1. m.type \in Nat /\ m.type < Uint32
  <2>1. m.type \in Byte /\ 256 <= Uint32
    BY WidthsAssumption, ValuesAssumption, Zenon DEF Readable
  <2> QED
    BY <2>1, IntegersAssumption DEF Byte
<1>2. EncodeBody(m) \in Seq(Byte) /\ Len(EncodeBody(m)) <= MaxMessageSize
  BY BodyIsRead, Zenon DEF Readable
<1>3. Len(EncodeBody(m)) \in Nat
  BY <1>2, LenProperties
<1>4. Len(EncodeBody(m)) < Uint32
  BY <1>2, <1>3, FramesAssumption, IntegersAssumption
<1>5. Varint[m.type] \in Seq(Byte) /\ Varint[Len(EncodeBody(m))] \in Seq(Byte)
  BY <1>1, <1>3, VarintType
<1>6. Varint[m.type] \o Varint[Len(EncodeBody(m))] \in Seq(Byte)
  BY <1>5, ConcatProperties
<1>7. encode_message(m) \in Seq(Byte)
  BY <1>2, <1>6, BytesJoin, Zenon DEF encode_message
<1> QED
  BY <1>1, <1>2, <1>3, <1>4, <1>5, <1>6, <1>7, Zenon

\* All messages of S can be read, as those of the server can.
AllReadable(S) == \A m \in S : Readable(m)

\* What the server writes can be read.
LEMMA ServerIsReadable == AllReadable(Messages)
BY FramesAssumption, Zenon DEF AllReadable

FramesOf(messages) == [i \in DOMAIN messages |-> encode_message(messages[i])]

LEMMA FramesAreBytes ==
    ASSUME NEW S, AllReadable(S), NEW ms \in Seq(S)
    PROVE  /\ FramesOf(ms) \in Seq(Seq(Byte)) /\ Len(FramesOf(ms)) = Len(ms)
           /\ \A i \in 1 .. Len(ms) : FramesOf(ms)[i] = encode_message(ms[i])
<1>1. Len(ms) \in Nat /\ DOMAIN ms = 1 .. Len(ms) /\ \A i \in 1 .. Len(ms) : ms[i] \in S
  BY LenProperties, ElementOfSeq
<1> DEFINE e(i) == encode_message(ms[i])
<1>2. \A i \in 1 .. Len(ms) : e(i) \in Seq(Byte)
  BY <1>1, MessageBytes DEF AllReadable
<1>3. FramesOf(ms) = [i \in 1 .. Len(ms) |-> e(i)]
  BY <1>1, Zenon DEF FramesOf
<1> HIDE DEF e
<1>4. [i \in 1 .. Len(ms) |-> e(i)] \in Seq(Seq(Byte)) /\ Len([i \in 1 .. Len(ms) |-> e(i)]) = Len(ms)
  BY <1>1, <1>2
<1>5. \A i \in 1 .. Len(ms) : FramesOf(ms)[i] = e(i)
  BY <1>3
<1> QED
  BY <1>3, <1>4, <1>5 DEF e

(***************************************************************************)
(* The bytes of no message, of one message more, and of all but the first. *)
(***************************************************************************)
LEMMA BytesOfNone == Bytes(<<>>) = <<>>
<1>1. [i \in DOMAIN <<>> |-> encode_message(<<>>[i])] = <<>>
  OBVIOUS
<1> QED
  BY <1>1, FlattenEmpty DEF Bytes

LEMMA BytesType ==
    ASSUME NEW S, AllReadable(S), NEW ms \in Seq(S)
    PROVE  Bytes(ms) \in Seq(Byte)
BY FramesAreBytes, FlattenType DEF Bytes, FramesOf

LEMMA BytesOfOneMore ==
    ASSUME NEW S, AllReadable(S), NEW ms \in Seq(S), NEW m \in S
    PROVE  Bytes(Append(ms, m)) = Bytes(ms) \o encode_message(m)
<1> DEFINE more == Append(ms, m)
           s == FramesOf(ms)
           t == FramesOf(more)
<1>1. /\ more \in Seq(S) /\ Len(more) = Len(ms) + 1 /\ more[Len(ms) + 1] = m
      /\ \A i \in 1 .. Len(ms) : more[i] = ms[i]
  BY AppendProperties
<1>2. Len(ms) \in Nat /\ Len(more) \in 1 .. Len(more) /\ \A i \in 1 .. Len(ms) : i \in 1 .. Len(more)
  BY <1>1, LenProperties
<1> HIDE DEF more
<1>3. /\ Len(s) = Len(ms) /\ Len(t) = Len(more)
      /\ \A i \in 1 .. Len(ms) : s[i] = encode_message(ms[i])
      /\ \A i \in 1 .. Len(more) : t[i] = encode_message(more[i])
  BY <1>1, FramesAreBytes
<1>4. Bytes(ms) = FlattenSeq(s) /\ Bytes(more) = FlattenSeq(t)
  BY DEF Bytes, FramesOf
<1> HIDE DEF s, t
<1>5. \A i \in 1 .. Len(s) : t[i] = s[i]
  BY <1>1, <1>2, <1>3, Zenon
<1>6. t[Len(t)] = encode_message(m)
  BY <1>1, <1>2, <1>3, Zenon
<1>7. FlattenSeq(t) = IF Len(s) = 0 THEN t[1] ELSE FlattenSeq(s) \o t[Len(t)]
  BY <1>1, <1>2, <1>3, <1>5, FlattenLast
<1>8. CASE Len(ms) = 0
  <2>1. ms = <<>>
    BY <1>8
  <2>2. t[1] = encode_message(m)
    BY <1>1, <1>3, <1>6, <1>8
  <2>3. <<>> \o encode_message(m) = encode_message(m)
    BY MessageBytes, ConcatEmptySeq DEF AllReadable
  <2> QED
    BY <1>3, <1>4, <1>7, <1>8, <2>1, <2>2, <2>3, BytesOfNone, Zenon DEF more
<1>9. CASE Len(ms) # 0
  BY <1>3, <1>4, <1>6, <1>7, <1>9, Zenon DEF more
<1> QED
  BY <1>8, <1>9

LEMMA BytesOfFirst ==
    ASSUME NEW S, AllReadable(S), NEW ms \in Seq(S), ms # <<>>
    PROVE  Bytes(ms) = encode_message(Head(ms)) \o Bytes(Tail(ms))
<1> DEFINE s == FramesOf(ms)
           t == FramesOf(Tail(ms))
<1>1. /\ Tail(ms) \in Seq(S) /\ Len(Tail(ms)) = Len(ms) - 1
      /\ \A i \in 1 .. Len(Tail(ms)) : Tail(ms)[i] = ms[i + 1]
  BY HeadTailProperties
<1>2. Len(ms) \in Nat \ {0} /\ Head(ms) = ms[1]
  OBVIOUS
<1>3. /\ s \in Seq(Seq(Byte)) /\ t \in Seq(Seq(Byte))
      /\ Len(s) = Len(ms) /\ Len(t) = Len(Tail(ms))
      /\ \A i \in 1 .. Len(ms) : s[i] = encode_message(ms[i])
      /\ \A i \in 1 .. Len(Tail(ms)) : t[i] = encode_message(Tail(ms)[i])
  BY <1>1, FramesAreBytes
<1>4. Bytes(ms) = FlattenSeq(s) /\ Bytes(Tail(ms)) = FlattenSeq(t)
  BY DEF Bytes, FramesOf
<1> HIDE DEF s, t
<1>5. s # <<>>
  <2>1. Len(s) # 0
    BY <1>2, <1>3
  <2> QED
    BY <2>1, SomeAreNot, Zenon
<1>6. Head(s) = encode_message(Head(ms))
  <2>1. 1 \in 1 .. Len(ms)
    BY <1>2
  <2> QED
    BY <1>2, <1>3, <2>1, HeadIsFirst, Zenon
<1>7. Tail(s) = t
  <2>1. /\ Tail(s) \in Seq(Seq(Byte)) /\ Len(Tail(s)) = Len(s) - 1
        /\ \A i \in 1 .. Len(Tail(s)) : Tail(s)[i] = s[i + 1]
    BY <1>3, <1>5, HeadTailProperties
  <2>2. Len(Tail(s)) = Len(t) /\ Len(t) = Len(ms) - 1
    BY <1>1, <1>3, <2>1
  <2>3. ASSUME NEW i \in 1 .. Len(Tail(s)) PROVE Tail(s)[i] = t[i]
    <3>1. i \in 1 .. Len(Tail(ms)) /\ i + 1 \in 1 .. Len(ms)
      BY <1>1, <1>2, <2>2
    <3> QED
      BY <1>1, <1>3, <2>1, <3>1, Zenon
  <2> QED
    BY <1>3, <2>1, <2>2, <2>3, SeqEqual
<1> QED
  BY <1>3, <1>4, <1>5, <1>6, <1>7, FlattenFirst

-----------------------------------------------------------------------------
(* Reading a frame. *)

\* Where the parts of a frame lie.
LEMMA FrameParts ==
    ASSUME NEW m, Readable(m)
    PROVE  LET e == encode_message(m)
               type == Varint[m.type]
               count == Varint[Len(EncodeBody(m))]
           IN  /\ Len(type) \in Nat \ {0} /\ Len(count) \in Nat \ {0} /\ Len(e) \in Nat
               /\ Len(e) = Len(type) + Len(count) + Len(EncodeBody(m))
               /\ \A j \in 1 .. Len(type) : e[j] = type[j]
               /\ \A j \in 1 .. Len(count) : e[Len(type) + j] = count[j]
               /\ \A j \in 1 .. Len(EncodeBody(m)) : e[Len(type) + Len(count) + j] = EncodeBody(m)[j]
<1> DEFINE type == Varint[m.type]
           count == Varint[Len(EncodeBody(m))]
           body == EncodeBody(m)
           header == type \o count
           e == header \o body
<1>1. /\ type \in Seq(Byte) /\ count \in Seq(Byte) /\ body \in Seq(Byte)
      /\ header \in Seq(Byte) /\ Len(type) \in Nat \ {0} /\ Len(count) \in Nat \ {0}
      /\ Len(body) \in Nat
  BY MessageBytes, VarintType
<1>2. e = encode_message(m)
  BY DEF encode_message
<1> HIDE DEF type, count, body
<1>3. /\ Len(header) = Len(type) + Len(count)
      /\ \A j \in 1 .. Len(type) : header[j] = type[j]
      /\ \A j \in 1 .. Len(count) : header[Len(type) + j] = count[j]
  BY <1>1, Joined
<1> HIDE DEF header
<1>4. /\ Len(e) = Len(header) + Len(body)
      /\ \A j \in 1 .. Len(header) : e[j] = header[j]
      /\ \A j \in 1 .. Len(body) : e[Len(header) + j] = body[j]
  BY <1>1, Joined
<1> HIDE DEF e
<1>5. Len(e) = Len(type) + Len(count) + Len(body) /\ Len(e) \in Nat
  BY <1>1, <1>3, <1>4
<1>6. ASSUME NEW j \in 1 .. Len(type) PROVE e[j] = type[j]
  <2>1. j \in 1 .. Len(header)
    BY <1>1, <1>3
  <2> QED
    BY <1>3, <1>4, <2>1, Zenon
<1>7. ASSUME NEW j \in 1 .. Len(count) PROVE e[Len(type) + j] = count[j]
  <2>1. Len(type) + j \in 1 .. Len(header)
    BY <1>1, <1>3
  <2> QED
    BY <1>3, <1>4, <2>1, Zenon
<1>8. ASSUME NEW j \in 1 .. Len(body) PROVE e[Len(type) + Len(count) + j] = body[j]
  BY <1>3, <1>4, Zenon
<1> QED
  BY <1>1, <1>2, <1>5, <1>6, <1>7, <1>8, Zenon DEF type, count, body

(***************************************************************************)
(* What read_frame() does with bytes that agree with a frame as far as     *)
(* they go: it takes a whole frame and refuses one that is cut.            *)
(***************************************************************************)
LEMMA FrameIsTaken ==
    ASSUME NEW m, Readable(m), NEW b, Len(b) \in Nat,
           \A j \in 1 .. Len(encode_message(m)) : j <= Len(b) => b[j] = encode_message(m)[j]
    PROVE  LET end == Len(encode_message(m))
               start == Len(Varint[m.type]) + Len(Varint[Len(EncodeBody(m))]) + 1
           IN  read_frame(b) =
                 IF Len(b) < end THEN Fail
                 ELSE [ok |-> TRUE, type |-> m.type,
                       body |-> SubSeq(b, start, end), rest |-> SubSeq(b, end + 1, Len(b))]
<1> DEFINE e == encode_message(m)
           type == Varint[m.type]
           n == Len(EncodeBody(m))
           count == Varint[n]
           start == Len(type) + Len(count) + 1
           one == ReadVarint(b, 1, Uint32)
           two == IF one.ok THEN ReadVarint(b, one.at, Uint32) ELSE Fail
           last == two.at + two.value - 1
<1>1. /\ m.type \in Nat /\ m.type < Uint32 /\ n \in Nat /\ n < Uint32 /\ n <= MaxMessageSize
      /\ 1 < Uint32 /\ Uint32 \in Nat /\ MaxMessageSize \in Nat
  <2>1. Uint32 \in Nat /\ MaxMessageSize \in 0 .. Uint32 - 1 /\ 256 <= Uint32
    BY FramesAssumption, IntegersAssumption, WidthsAssumption, ValuesAssumption
  <2>2. 1 < Uint32 /\ MaxMessageSize \in Nat
    BY <2>1
  <2> QED
    BY <2>1, <2>2, MessageBytes, Zenon
<1>2. /\ Len(type) \in Nat \ {0} /\ Len(count) \in Nat \ {0} /\ Len(e) \in Nat
      /\ Len(e) = Len(type) + Len(count) + n
      /\ \A j \in 1 .. Len(type) : e[j] = type[j]
      /\ \A j \in 1 .. Len(count) : e[Len(type) + j] = count[j]
  BY FrameParts
<1>3. read_frame(b) =
        IF ~two.ok \/ two.value > MaxMessageSize \/ ~Enough(b, two.at, two.value) THEN Fail
        ELSE [ok |-> TRUE, type |-> one.value,
              body |-> SubSeq(b, two.at, last), rest |-> SubSeq(b, last + 1, Len(b))]
  BY DEF read_frame, FrameOf
<1> SUFFICES read_frame(b) =
               IF Len(b) < Len(e) THEN Fail
               ELSE [ok |-> TRUE, type |-> m.type,
                     body |-> SubSeq(b, start, Len(e)), rest |-> SubSeq(b, Len(e) + 1, Len(b))]
  OBVIOUS
<1>4. \A j \in 1 .. Len(e) : j <= Len(b) => b[j] = e[j]
  OBVIOUS
<1> HIDE DEF e, type, count, n
<1>5. Begins(b, 1, type)
  <2> SUFFICES ASSUME NEW j \in 1 .. Len(type), 1 + j - 1 <= Len(b)
               PROVE  b[1 + j - 1] = type[j]
    BY DEF Begins
  <2>1. 1 + j - 1 = j /\ j \in 1 .. Len(e) /\ j <= Len(b)
    BY <1>1, <1>2
  <2> QED
    BY <1>2, <1>4, <2>1, Zenon
<1>6. Begins(b, Len(type) + 1, count)
  <2> SUFFICES ASSUME NEW j \in 1 .. Len(count), (Len(type) + 1) + j - 1 <= Len(b)
               PROVE  b[(Len(type) + 1) + j - 1] = count[j]
    BY DEF Begins
  <2>1. /\ (Len(type) + 1) + j - 1 = Len(type) + j
        /\ Len(type) + j \in 1 .. Len(e) /\ Len(type) + j <= Len(b)
    BY <1>1, <1>2
  <2> QED
    BY <1>2, <1>4, <2>1, Zenon
<1> HIDE DEF one, two, last
<1>7. CASE Len(b) < Len(type)
  <2>1. 1 \in 1 .. Len(b) + 1 /\ 1 + Len(type) - 1 > Len(b)
    BY <1>2, <1>7
  <2>2. one = Fail
    BY <1>1, <1>5, <2>1, VarintAtIsCut DEF one, type
  <2>3. ~two.ok
    BY <2>2 DEF two, Fail
  <2>4. Len(b) < Len(e)
    BY <1>1, <1>2, <1>7
  <2> QED
    BY <1>3, <2>3, <2>4
<1>8. ASSUME Len(type) <= Len(b)
      PROVE  one.ok /\ one.value = m.type /\ one.at = Len(type) + 1
  <2>1. 1 \in 1 .. Len(b) /\ 1 + Len(type) - 1 <= Len(b) /\ 1 + Len(type) = Len(type) + 1
    BY <1>2, <1>8
  <2>2. one = Value(m.type, 1 + Len(type))
    BY <1>1, <1>5, <2>1, VarintAtIsRead DEF one, type
  <2> QED
    BY <2>1, <2>2 DEF Value
<1>9. CASE Len(type) <= Len(b) /\ Len(b) < Len(type) + Len(count)
  <2>1. Len(type) + 1 \in 1 .. Len(b) + 1 /\ (Len(type) + 1) + Len(count) - 1 > Len(b)
    BY <1>2, <1>9
  <2>2. ReadVarint(b, Len(type) + 1, Uint32) = Fail
    BY <1>1, <1>6, <2>1, VarintAtIsCut DEF count
  <2>3. ~two.ok
    BY <1>8, <1>9, <2>2 DEF two, Fail
  <2>4. Len(b) < Len(e)
    BY <1>1, <1>2, <1>9
  <2> QED
    BY <1>3, <2>3, <2>4
<1>10. CASE Len(b) >= Len(type) + Len(count)
  <2>1. /\ Len(type) + 1 \in 1 .. Len(b) /\ (Len(type) + 1) + Len(count) - 1 <= Len(b)
        /\ (Len(type) + 1) + Len(count) = start /\ Len(type) <= Len(b)
    BY <1>2, <1>10
  <2>2. ReadVarint(b, Len(type) + 1, Uint32) = Value(n, start)
    <3>1. ReadVarint(b, Len(type) + 1, Uint32) = Value(n, (Len(type) + 1) + Len(count))
      BY <1>1, <1>6, <2>1, VarintAtIsRead DEF count
    <3> HIDE DEF start
    <3> QED
      BY <2>1, <3>1, Zenon
  <2>3. two.ok /\ two.value = n /\ two.at = start
    <3>1. two = Value(n, start)
      BY <1>8, <2>1, <2>2, Zenon DEF two
    <3> QED
      BY <3>1 DEF Value
  <2>4. last = Len(e) /\ start + n - 1 = Len(e)
    BY <1>1, <1>2, <2>3 DEF last
  <2>5. Enough(b, two.at, two.value) <=> ~ (Len(b) < Len(e))
    BY <1>1, <1>2, <2>3, <2>4 DEF Enough
  <2>6. ~ (two.value > MaxMessageSize)
    BY <1>1, <2>3
  <2>7. one.value = m.type
    BY <1>8, <2>1
  <2> HIDE DEF start
  <2> QED
    BY <1>3, <2>3, <2>4, <2>5, <2>6, <2>7, Zenon
<1> QED
  BY <1>2, <1>7, <1>9, <1>10

\* A frame is read from a stream it is at the head of, and the rest stays.
LEMMA FrameIsRead ==
    ASSUME NEW m, Readable(m), NEW rest \in Seq(Byte)
    PROVE  read_frame(encode_message(m) \o rest) =
             [ok |-> TRUE, type |-> m.type, body |-> EncodeBody(m), rest |-> rest]
<1> DEFINE e == encode_message(m)
           b == e \o rest
           n == Len(EncodeBody(m))
           start == Len(Varint[m.type]) + Len(Varint[n]) + 1
<1>1. e \in Seq(Byte) /\ EncodeBody(m) \in Seq(Byte) /\ n \in Nat
  BY MessageBytes
<1>2. /\ Len(e) \in Nat /\ start \in Nat \ {0} /\ Len(e) = start + n - 1
      /\ \A j \in 1 .. n : e[start + j - 1] = EncodeBody(m)[j]
  <2>1. /\ Len(Varint[m.type]) \in Nat /\ Len(Varint[n]) \in Nat /\ Len(e) \in Nat
        /\ Len(e) = Len(Varint[m.type]) + Len(Varint[n]) + n
        /\ \A j \in 1 .. n : e[Len(Varint[m.type]) + Len(Varint[n]) + j] = EncodeBody(m)[j]
    BY FrameParts
  <2> DEFINE before == Len(Varint[m.type]) + Len(Varint[n])
  <2>2. before \in Nat
    <3>1. Len(Varint[m.type]) \in Nat /\ Len(Varint[n]) \in Nat
      <4>1. m.type \in Nat /\ n \in Nat
        BY MessageBytes
      <4>2. \A k \in Nat : Len(Varint[k]) \in Nat
        BY VarintType
      <4> QED
        BY <4>1, <4>2, Zenon
    <3>2. \A x, y \in Nat : x + y \in Nat
      OBVIOUS
    <3> QED
      BY <3>1, <3>2, Zenon
  <2>3. start = before + 1
    OBVIOUS
  <2>4. Len(e) = before + n /\ \A j \in 1 .. n : e[before + j] = EncodeBody(m)[j]
    BY <2>1
  <2> HIDE DEF before, start, e, n
  <2>5. start \in Nat \ {0} /\ Len(e) = start + n - 1
    BY <1>1, <2>2, <2>3, <2>4
  <2>6. \A j \in 1 .. n : start + j - 1 = before + j
    BY <1>1, <2>2, <2>3
  <2> QED
    BY <2>1, <2>4, <2>5, <2>6
<1> HIDE DEF e, start, n
<1>3. /\ b \in Seq(Byte) /\ Len(b) = Len(e) + Len(rest)
      /\ \A j \in 1 .. Len(e) : b[j] = e[j]
      /\ \A j \in 1 .. Len(rest) : b[Len(e) + j] = rest[j]
  BY <1>1, Joined
<1> HIDE DEF b
<1>4. Len(rest) \in Nat /\ Len(b) \in Nat /\ ~ (Len(b) < Len(e))
  BY <1>2, <1>3, LenProperties
<1>5. read_frame(b) = [ok |-> TRUE, type |-> m.type,
                       body |-> SubSeq(b, start, Len(e)), rest |-> SubSeq(b, Len(e) + 1, Len(b))]
  <2>1. \A j \in 1 .. Len(encode_message(m)) : j <= Len(b) => b[j] = encode_message(m)[j]
    BY <1>3 DEF e
  <2>2. read_frame(b) =
          IF Len(b) < Len(e) THEN Fail
          ELSE [ok |-> TRUE, type |-> m.type,
                body |-> SubSeq(b, start, Len(e)), rest |-> SubSeq(b, Len(e) + 1, Len(b))]
    BY <1>4, <2>1, FrameIsTaken DEF e, start, n
  <2> QED
    BY <1>4, <2>2, Zenon
<1>6. SubSeq(b, start, Len(e)) = EncodeBody(m)
  <2>1. \A j \in 1 .. n : b[start + j - 1] = EncodeBody(m)[j]
    <3> TAKE j \in 1 .. n
    <3>1. start + j - 1 \in 1 .. Len(e)
      BY <1>1, <1>2
    <3> QED
      BY <1>2, <1>3, <3>1, Zenon
  <2>2. Len(e) = start + Len(EncodeBody(m)) - 1 /\ Len(e) <= Len(b) /\ Len(e) \in Int
    BY <1>2, <1>3, <1>4 DEF n
  <2> QED
    BY <1>1, <1>2, <1>3, <2>1, <2>2, PartIs DEF n
<1>7. SubSeq(b, Len(e) + 1, Len(b)) = rest
  <2>1. \A j \in 1 .. Len(rest) : b[(Len(e) + 1) + j - 1] = rest[j]
    <3> TAKE j \in 1 .. Len(rest)
    <3>1. (Len(e) + 1) + j - 1 = Len(e) + j
      BY <1>2, <1>4
    <3> QED
      BY <1>3, <3>1, Zenon
  <2>2. Len(b) = (Len(e) + 1) + Len(rest) - 1 /\ Len(b) <= Len(b) /\ Len(b) \in Int /\ Len(e) + 1 \in Nat \ {0}
    BY <1>2, <1>3, <1>4
  <2> QED
    BY <1>3, <2>1, <2>2, PartIs
<1> QED
  BY <1>5, <1>6, <1>7 DEF b, e

\* What there is of a frame that is cut short is not read.
LEMMA CutFrameIsRefused ==
    ASSUME NEW m, Readable(m), NEW n \in 0 .. Len(encode_message(m)) - 1
    PROVE  read_frame(SubSeq(encode_message(m), 1, n)) = Fail
<1> DEFINE e == encode_message(m)
           b == SubSeq(e, 1, n)
<1>1. e \in Seq(Byte) /\ Len(e) \in Nat
  BY MessageBytes, LenProperties
<1> HIDE DEF e
<1>2. n \in Nat /\ n < Len(e)
  BY <1>1 DEF e
<1>3. Len(b) = n /\ \A j \in 1 .. n : b[j] = e[j]
  BY <1>1, <1>2
<1> HIDE DEF b
<1>4. \A j \in 1 .. Len(e) : j <= Len(b) => b[j] = e[j]
  BY <1>1, <1>2, <1>3
<1>5. read_frame(b) =
        LET start == Len(Varint[m.type]) + Len(Varint[Len(EncodeBody(m))]) + 1
        IN  IF Len(b) < Len(e) THEN Fail
            ELSE [ok |-> TRUE, type |-> m.type,
                  body |-> SubSeq(b, start, Len(e)), rest |-> SubSeq(b, Len(e) + 1, Len(b))]
  BY <1>2, <1>3, <1>4, FrameIsTaken DEF e
<1> QED
  BY <1>2, <1>3, <1>5 DEF b, e

-----------------------------------------------------------------------------
(* The stream of bytes. *)

\* The stream holds the frames of the messages that were not read.
LinkInv == flight \in Seq(Messages) /\ wire = Bytes(flight)

LEMMA HeadIsRead ==
    ASSUME LinkInv, flight # <<>>
    PROVE  read_frame(wire) = [ok |-> TRUE, type |-> Head(flight).type,
                               body |-> EncodeBody(Head(flight)), rest |-> Bytes(Tail(flight))]
<1>1. Head(flight) \in Messages /\ Tail(flight) \in Seq(Messages)
  BY HeadTailProperties DEF LinkInv
<1>2. wire = encode_message(Head(flight)) \o Bytes(Tail(flight))
  BY BytesOfFirst, ServerIsReadable DEF LinkInv
<1>3. Bytes(Tail(flight)) \in Seq(Byte) /\ Readable(Head(flight))
  BY <1>1, BytesType, ServerIsReadable DEF AllReadable
<1> QED
  BY <1>1, <1>2, <1>3, FrameIsRead

LEMMA MessageIsRead ==
    ASSUME LinkInv, flight # <<>>
    PROVE  LET decoded == DecodeFields(EncodeBody(Head(flight)))
           IN  read_message(wire) =
                 IF ~decoded.ok THEN Fail
                 ELSE [ok |-> TRUE,
                       message |-> [type |-> Head(flight).type, fields |-> decoded.fields],
                       rest |-> Bytes(Tail(flight))]
<1> DEFINE frame == read_frame(wire)
<1>1. /\ frame.ok /\ frame.type = Head(flight).type /\ frame.body = EncodeBody(Head(flight))
      /\ frame.rest = Bytes(Tail(flight))
  <2>1. frame = [ok |-> TRUE, type |-> Head(flight).type,
                 body |-> EncodeBody(Head(flight)), rest |-> Bytes(Tail(flight))]
    BY HeadIsRead
  <2> HIDE DEF frame
  <2> QED
    BY <2>1
<1>2. read_message(wire) =
        IF ~frame.ok \/ ~DecodeFields(frame.body).ok THEN Fail
        ELSE [ok |-> TRUE, message |-> [type |-> frame.type, fields |-> DecodeFields(frame.body).fields],
              rest |-> frame.rest]
  BY DEF read_message, MessageOf
<1> HIDE DEF frame
<1> QED
  BY <1>1, <1>2, Zenon

\* However a body is decoded, what stays is the frames that were not read.
LEMMA LinkInvStep == LinkInv /\ [LinkNext]_link => LinkInv'
<1> SUFFICES ASSUME LinkInv, [LinkNext]_link PROVE LinkInv'
  OBVIOUS
<1>1. CASE UNCHANGED <<flight, wire>>
  BY <1>1 DEF LinkInv
<1>2. ASSUME NEW m \in Messages, Write(m) PROVE LinkInv'
  <2>1. flight' = Append(flight, m) /\ wire' = wire \o encode_message(m)
    BY <1>2 DEF Write, Send
  <2>2. flight' \in Seq(Messages)
    BY <2>1, AppendProperties DEF LinkInv
  <2>3. wire' = Bytes(flight')
    BY <1>2, <2>1, BytesOfOneMore, ServerIsReadable, Zenon DEF LinkInv
  <2> QED
    BY <2>2, <2>3 DEF LinkInv
<1>3. CASE Receive
  <2>1. CASE flight' = <<>> /\ wire' = <<>>
    <3>1. <<>> \in Seq(Messages)
      OBVIOUS
    <3> QED
      BY <2>1, <3>1, BytesOfNone, Zenon DEF LinkInv
  <2>2. CASE read_message(wire).ok /\ wire' = read_message(wire).rest /\ flight' = Tail(flight)
    <3>1. flight # <<>>
      BY <1>3, BytesOfNone DEF LinkInv, Receive
    <3>2. Tail(flight) \in Seq(Messages)
      BY <3>1, HeadTailProperties DEF LinkInv
    <3> DEFINE decoded == DecodeFields(EncodeBody(Head(flight)))
    <3>3. read_message(wire) =
            IF ~decoded.ok THEN Fail
            ELSE [ok |-> TRUE,
                  message |-> [type |-> Head(flight).type, fields |-> decoded.fields],
                  rest |-> Bytes(Tail(flight))]
      BY <3>1, MessageIsRead
    <3> HIDE DEF decoded
    <3>4. read_message(wire).rest = Bytes(Tail(flight))
      BY <2>2, <3>3 DEF Fail
    <3> QED
      BY <2>2, <3>2, <3>4, Zenon DEF LinkInv
  <2> QED
    BY <1>3, <2>1, <2>2, Zenon DEF Receive
<1> QED
  BY <1>1, <1>2, <1>3 DEF LinkNext, link, device, CallServer, Stream, TakeAnswers

LEMMA LinkInvHolds == LinkSpec => []LinkInv
<1>1. LinkInit => LinkInv
  <2>1. <<>> \in Seq(Messages)
    OBVIOUS
  <2> QED
    BY <2>1, BytesOfNone DEF LinkInit, DeviceInit, LinkInv
<1> QED
  BY <1>1, LinkInvStep, PTL DEF LinkSpec

(***************************************************************************)
(* The stream holds the frames of the messages that were not read and      *)
(* nothing else, and each is read whole, whatever its body and however     *)
(* long.                                                                   *)
(***************************************************************************)
THEOREM FramesAlwaysStayInStep == LinkSpec => []FramesStayInStep
<1>1. LinkInv => FramesStayInStep
  BY HeadIsRead DEF LinkInv, FramesStayInStep
<1> QED
  BY <1>1, LinkInvHolds, PTL

(***************************************************************************)
(* No message is read from a frame that is cut short, wherever it is cut.  *)
(***************************************************************************)
THEOREM PrefixesAreAlwaysRefused == LinkSpec => []PrefixesAreRefused
<1>1. LinkInv => PrefixesAreRefused
  <2> SUFFICES ASSUME LinkInv, Len(flight) = 1, NEW n \in 0 .. Len(wire) - 1
               PROVE  ~read_message(SubSeq(wire, 1, n)).ok
    BY DEF PrefixesAreRefused
  <2>1. flight \in Seq(Messages) /\ flight # <<>> /\ Len(Tail(flight)) = 0
    <3>1. flight \in Seq(Messages) /\ Len(flight) # 0
      BY DEF LinkInv
    <3>2. flight # <<>>
      BY <3>1, SomeAreNot, Zenon
    <3> QED
      BY <3>1, <3>2, HeadTailProperties
  <2>2. Head(flight) \in Messages /\ Tail(flight) = <<>>
    <3>1. Head(flight) \in Messages /\ Tail(flight) \in Seq(Messages)
      BY <2>1, HeadTailProperties
    <3>2. \A t \in Seq(Messages) : Len(t) = 0 => t = <<>>
      OBVIOUS
    <3> QED
      BY <2>1, <3>1, <3>2, Zenon
  <2>3. wire = encode_message(Head(flight))
    <3>1. wire = encode_message(Head(flight)) \o Bytes(Tail(flight))
      BY <2>1, BytesOfFirst, ServerIsReadable DEF LinkInv
    <3>2. encode_message(Head(flight)) \o <<>> = encode_message(Head(flight))
      BY <2>2, ServerIsReadable, MessageBytes, ConcatEmptySeq DEF AllReadable
    <3> QED
      BY <2>2, <3>1, <3>2, BytesOfNone, Zenon
  <2>4. read_frame(SubSeq(wire, 1, n)) = Fail
    BY <2>2, <2>3, CutFrameIsRefused, ServerIsReadable DEF AllReadable
  <2> DEFINE b == SubSeq(wire, 1, n)
  <2>5. read_message(b) = Fail
    <3> HIDE DEF b
    <3>1. ~read_frame(b).ok
      BY <2>4 DEF b, Fail
    <3> QED
      BY <3>1 DEF read_message, MessageOf
  <2> QED
    BY <2>5 DEF Fail
<1> QED
  BY <1>1, LinkInvHolds, PTL

-----------------------------------------------------------------------------
(* What is read is what was written. *)

\* A message that can be read is, whatever is behind it.
LEMMA ReadableIsRead ==
    ASSUME NEW m, Readable(m), NEW rest \in Seq(Byte)
    PROVE  IsRead(m, rest)
<1> DEFINE b == encode_message(m) \o rest
           frame == read_frame(b)
           decoded == DecodeFields(EncodeBody(m))
<1>1. /\ frame.ok /\ frame.type = m.type /\ frame.body = EncodeBody(m) /\ frame.rest = rest
  <2>1. frame = [ok |-> TRUE, type |-> m.type, body |-> EncodeBody(m), rest |-> rest]
    BY FrameIsRead
  <2> HIDE DEF frame
  <2> QED
    BY <2>1
<1>2. decoded.ok /\ decoded.fields = NormalMessage(m).fields
  <2>1. decoded = [ok |-> TRUE, fields |-> NormalMessage(m).fields]
    BY BodyIsRead, Zenon DEF Readable
  <2> HIDE DEF decoded
  <2> QED
    BY <2>1
<1>3. read_message(b) = MessageOf(frame, DecodeFields(frame.body))
  BY DEF read_message
<1> HIDE DEF frame, b
<1>4. read_message(b) = MessageOf(frame, decoded)
  BY <1>1, <1>3, Zenon DEF decoded
<1> HIDE DEF decoded
<1>5. read_message(b) = [ok |-> TRUE, message |-> [type |-> m.type, fields |-> decoded.fields],
                         rest |-> rest]
  BY <1>1, <1>2, <1>4, Zenon DEF MessageOf
<1>6. NormalMessage(m) = [type |-> m.type, fields |-> decoded.fields]
  BY <1>2 DEF NormalMessage
<1>7. /\ read_message(b).ok /\ read_message(b).message = NormalMessage(m)
      /\ read_message(b).rest = rest
  BY <1>5, <1>6
<1> QED
  BY <1>7, Zenon DEF IsRead, b

\* So are the messages of a sequence, each in front of the others.
LEMMA SequencesAreRead ==
    ASSUME NEW S, NEW ms \in Seq(S)
    PROVE  AreRead(ms)
<1> SUFFICES ASSUME NEW n \in DOMAIN ms, \A i \in n .. Len(ms) : Readable(ms[i])
             PROVE  IsRead(ms[n], Bytes(SubSeq(ms, n + 1, Len(ms))))
  BY DEF AreRead
<1> DEFINE R == {ms[i] : i \in n .. Len(ms)}
           rest == SubSeq(ms, n + 1, Len(ms))
<1>1. Len(ms) \in Nat /\ DOMAIN ms = 1 .. Len(ms) /\ n \in 1 .. Len(ms) /\ n \in n .. Len(ms)
  OBVIOUS
<1>2. AllReadable(R) /\ Readable(ms[n])
  BY <1>1 DEF AllReadable
<1>3. rest \in Seq(R)
  <2>1. \A i \in n + 1 .. Len(ms) : ms[i] \in R
    BY <1>1
  <2> HIDE DEF R
  <2> QED
    BY <1>1, <2>1, SubSeqProperties
<1>4. Bytes(rest) \in Seq(Byte)
  BY <1>2, <1>3, BytesType
<1> QED
  BY <1>2, <1>4, ReadableIsRead

\* So are those a step of the device sends.
LEMMA FewAreRead == ASSUME NEW messages, Few(messages) PROVE AreRead(messages)
<1>1. CASE messages = <<>>
  <2>1. <<>> \in Seq({})
    OBVIOUS
  <2> QED
    BY <1>1, <2>1, SequencesAreRead
<1>2. ASSUME NEW a, messages = <<a>> PROVE AreRead(messages)
  <2>1. <<a>> \in Seq({a})
    OBVIOUS
  <2> QED
    BY <1>2, <2>1, SequencesAreRead
<1>3. ASSUME NEW a, NEW b, messages = <<a>> \o <<b>> PROVE AreRead(messages)
  <2>1. <<a>> \in Seq({a, b}) /\ <<b>> \in Seq({a, b})
    OBVIOUS
  <2>2. <<a>> \o <<b>> \in Seq({a, b})
    BY <2>1, ConcatProperties
  <2> QED
    BY <1>3, <2>2, SequencesAreRead
<1> QED
  BY <1>1, <1>2, <1>3 DEF Few

\* The server writes nothing whose body is read as anything else.
LEMMA BodiesAreAlwaysRead == LinkInv => BodiesAreRead
<1> SUFFICES ASSUME LinkInv, NEW i \in DOMAIN flight
             PROVE  DecodeFields(EncodeBody(flight[i])) = [ok |-> TRUE, fields |-> flight[i].fields]
  BY DEF BodiesAreRead
<1>1. flight[i] \in Messages
  BY DEF LinkInv
<1>2. Portable(flight[i]) /\ NormalMessage(flight[i]) = flight[i]
  BY <1>1, FramesAssumption, Zenon DEF Readable
<1> QED
  BY <1>2, BodyIsRead

\* Over bytes the device's steps are those of IotmpDevice.
LEMMA LinkStep == LinkInv /\ [LinkNext]_link => [DeviceNext]_device
<1> SUFFICES ASSUME LinkInv, [LinkNext]_link PROVE [DeviceNext]_device
  OBVIOUS
<1>1. CASE UNCHANGED link
  BY <1>1 DEF link
<1>2. CASE Receive
  <2>1. flight # <<>> /\ flight \in Seq(Messages)
    BY <1>2, BytesOfNone DEF LinkInv, Receive
  <2> DEFINE m == Head(flight)
  <2>2. m \in Messages /\ m = flight[1] /\ 1 \in DOMAIN flight
    <3>1. m \in Messages
      BY <2>1, HeadTailProperties
    <3> QED
      BY <2>1, <3>1
  <2>3. DecodeFields(EncodeBody(m)) = [ok |-> TRUE, fields |-> m.fields]
    BY <2>2, BodiesAreAlwaysRead, Zenon DEF BodiesAreRead
  <2>4. m = [type |-> m.type, fields |-> m.fields]
    BY <2>2, FramesAssumption DEF NormalMessage
  <2> DEFINE decoded == DecodeFields(EncodeBody(m))
             r == read_message(wire)
  <2>5. r = IF ~decoded.ok THEN Fail
            ELSE [ok |-> TRUE, message |-> [type |-> m.type, fields |-> decoded.fields],
                  rest |-> Bytes(Tail(flight))]
    BY <2>1, MessageIsRead
  <2>6. decoded.ok /\ decoded.fields = m.fields
    <3> HIDE DEF decoded
    <3>1. decoded = [ok |-> TRUE, fields |-> m.fields]
      BY <2>3 DEF decoded
    <3> HIDE DEF m
    <3> QED
      BY <3>1
  <2> HIDE DEF decoded, r, m
  <2>7. r.ok /\ r.message = [type |-> m.type, fields |-> m.fields]
    BY <2>5, <2>6
  <2>8. IF m.type # DISCONNECT THEN flight' = Tail(flight) /\ handle_message(m)
        ELSE flight' = <<>> /\ Disconnect
    <3>1. r.message = m /\ r.ok
      BY <2>4, <2>7, Zenon
    <3>2. IF r.ok /\ r.message.type # DISCONNECT
          THEN wire' = r.rest /\ flight' = Tail(flight) /\ handle_message(r.message)
          ELSE wire' = <<>> /\ flight' = <<>> /\ Disconnect
      BY <1>2 DEF Receive, r
    <3> QED
      BY <3>1, <3>2, Zenon
  <2>9. ProcessIncoming
    BY <2>1, <2>8, Zenon DEF ProcessIncoming, m
  <2> QED
    BY <2>9 DEF DeviceNext
<1> QED
  BY <1>1, <1>2 DEF LinkNext, Write, DeviceNext

(***************************************************************************)
(* The device over bytes does only what the device over messages may do:   *)
(* each step of IotmpLink is one of IotmpDevice.                           *)
(***************************************************************************)
THEOREM LinkImplementsDevice == LinkSpec => DeviceSpec
<1>1. LinkInit => DeviceInit
  BY DEF LinkInit
<1> QED
  BY <1>1, LinkStep, LinkInvHolds, PTL DEF LinkSpec, DeviceSpec

(***************************************************************************)
(* So what was shown of the device holds of it over bytes: each form of a  *)
(* request is handled as it was meant, data shows the state, and input     *)
(* alone changes it.                                                       *)
(***************************************************************************)
THEOREM BytesAreHandledAsMeant ==
    LinkSpec => RequestsAreHandledAsMeant /\ DataShowsTheState /\ OnlyInputChangesTheState
BY LinkImplementsDevice, RequestsAreAlwaysHandledAsMeant, DataAlwaysShowsTheState,
   OnlyInputEverChangesTheState

(***************************************************************************)
(* Whatever the server writes is decoded into the fields it was made of,   *)
(* and whatever the device sends that fits a message is read up to what    *)
(* the encoding does not tell, in front of what is sent behind it.         *)
(***************************************************************************)
THEOREM MessagesAlwaysRoundTrip == LinkSpec => []MessagesRoundTrip
<1>1. LinkInit => Few(out)
  BY DEF LinkInit, DeviceInit, Few
<1>2. LinkInv /\ Few(out) /\ [LinkNext]_link => Few(out)'
  BY LinkStep, StepsSendFew DEF Few
<1>3. LinkInv /\ Few(out) => MessagesRoundTrip
  BY BodiesAreAlwaysRead, FewAreRead DEF MessagesRoundTrip
<1> QED
  BY <1>1, <1>2, <1>3, LinkInvHolds, PTL DEF LinkSpec

-----------------------------------------------------------------------------
(* The application's texts. *)

\* The parts of a number in groups of six bits.
Grouped(code, x, y) == code \div 64 = x /\ code % 64 = y

LEMMA Groups ==
    ASSUME NEW code, NEW x \in Nat, NEW y \in 0 .. 63, code = 64 * x + y
    PROVE  Grouped(code, x, y)
<1>1. (64 * x + y) \div 64 = x /\ (64 * x + y) % 64 = y
  BY SMT
<1> QED
  BY <1>1, SMT DEF Grouped

\* There is one way to write a character in UTF-8, and the parser has it.
LEMMA Utf8IsUnique ==
    ASSUME NEW code \in Codes, NEW bytes, IsUtf8(code, bytes)
    PROVE  bytes = Utf8(code)
<1>1. CASE code \in 0 .. 127 /\ bytes = <<code>>
  <2>1. code < 128
    BY <1>1, SMT
  <2> QED
    BY <1>1, <2>1, SMT DEF Utf8
<1>2. ASSUME NEW x \in 2 .. 31, NEW y \in 0 .. 63,
             InTwoBytes(code, bytes, x, y)
      PROVE  bytes = Utf8(code)
  <2>0. code = 64 * x + y /\ bytes = <<192 + x, 128 + y>>
    BY <1>2, SMT DEF InTwoBytes
  <2>1. x \in Nat /\ ~(code < 128) /\ code < 2048
    BY <2>0, SMT
  <2>2. Grouped(code, x, y)
    BY <2>0, <2>1, Groups, SMT
  <2>3. Utf8(code) = <<192 + (code \div 64), 128 + (code % 64)>>
    BY <2>1, SMT DEF Utf8
  <2> QED
    BY <2>0, <2>2, <2>3, SMT DEF Grouped
<1>3. ASSUME NEW x \in 0 .. 15, NEW y \in 0 .. 63, NEW z \in 0 .. 63,
             InThreeBytes(code, bytes, x, y, z)
      PROVE  bytes = Utf8(code)
  <2>0. /\ code = 4096 * x + 64 * y + z /\ code >= 2048
        /\ bytes = <<224 + x, 128 + y, 128 + z>>
    BY <1>3, SMT DEF InThreeBytes
  <2> DEFINE w == 64 * x + y
  <2>1. w \in Nat /\ x \in Nat /\ code = 64 * w + z /\ ~(code < 128) /\ ~(code < 2048)
    BY <2>0, SMT
  <2>2. Grouped(w, x, y)
    BY <2>1, Groups, SMT
  <2> HIDE DEF w
  <2>3. Grouped(code, w, z)
    BY <2>1, Groups, SMT
  <2>4. code \div 4096 = x
    <3>1. ASSUME NEW c \in Nat PROVE c \div 4096 = (c \div 64) \div 64
      BY SMT
    <3>2. code \in Nat
      BY <2>1, SMT
    <3>3. code \div 4096 = (code \div 64) \div 64
      BY <3>1, <3>2, SMT
    <3> QED
      BY <2>2, <2>3, <3>3, SMT DEF Grouped
  <2>5. Utf8(code) = <<224 + (code \div 4096), 128 + ((code \div 64) % 64), 128 + (code % 64)>>
    BY <2>1, SMT DEF Utf8
  <2> QED
    BY <2>0, <2>2, <2>3, <2>4, <2>5, SMT DEF Grouped
<1> QED
  BY <1>1, <1>2, <1>3, Zenon DEF IsUtf8

\* A scalar is its own normal form, but for a whole number of the signed type
\* and for bytes.
LEMMA ScalarNormal ==
    ASSUME NEW d \in PrintableScalars, d.t \in {"null", "string"}
    PROVE  JsonNormal(d) = d
<1>1. MaxNesting \in Nat /\ d \in Printable[MaxNesting]
  BY ValuesAssumption, ScalarsArePrintable
<1>2. TextNormals[MaxNesting] = [value \in Printable[MaxNesting] |->
                                   TextNormalBy(value, Prior(TextNormals, MaxNesting))]
  BY <1>1, TextNormalsUnfold, Zenon
<1>3. JsonNormal(d) = TextNormalBy(d, Prior(TextNormals, MaxNesting))
  BY <1>1, <1>2, Zenon DEF JsonNormal
<1> QED
  BY <1>3 DEF TextNormalBy

LEMMA SomeArePrintable ==
    /\ Null \in PrintableScalars
    /\ \A s \in Seq(Characters) : String(s) \in PrintableScalars
BY DEF Null, String, PrintableScalars

\* What text can tell of a value has a size if the value has.
LEMMA SizedNormal ==
    ASSUME NEW d \in Printable[MaxNesting], Sized(d)
    PROVE  Sized(JsonNormal(d))
<1>1. MaxNesting \in Nat
  BY ValuesAssumption
<1>2. TextNormals[MaxNesting] = [value \in Printable[MaxNesting] |->
                                   TextNormalBy(value, Prior(TextNormals, MaxNesting))]
  BY <1>1, TextNormalsUnfold, Zenon
<1> DEFINE inner == Prior(TextNormals, MaxNesting)
           N == TextNormalBy(d, inner)
<1>3. JsonNormal(d) = N
  BY <1>2, Zenon DEF JsonNormal
<1> HIDE DEF inner
<1>4. CASE d.t = "string"
  <2>1. N = d
    BY <1>4 DEF TextNormalBy
  <2> QED
    BY <1>3, <2>1, Zenon
<1>5. CASE d.t \in {"binary", "array", "object"}
  <2>1. N.t \in {"string", "array", "object"}
    <3>1. CASE d.t = "binary"
      BY <3>1 DEF TextNormalBy, String
    <3>2. CASE d.t = "array"
      BY <3>2 DEF TextNormalBy, Array
    <3>3. CASE d.t = "object"
      BY <3>3 DEF TextNormalBy, Filled, Object
    <3> QED
      BY <1>5, <3>1, <3>2, <3>3
  <2> QED
    BY <1>3, <2>1 DEF Sized
<1> QED
  BY <1>4, <1>5 DEF Sized

\* A text and the value it is parsed into.
Stood(t, d) ==
    /\ t \in Seq(Characters) /\ parse(t) = JsonNormal(d)
    /\ Sized(d) => Sized(JsonNormal(d))

\* The texts of a document.
LEMMA SpacedStands ==
    ASSUME NEW d \in Printable[MaxNesting], NEW s \in Seq(Space)
    PROVE  Stood(Spaced(d, s), d)
BY SpacedIsParsed, SizedNormal, Zenon DEF Stood

LEMMA DumpStands ==
    ASSUME NEW d \in Printable[MaxNesting]
    PROVE  Stood(dump(d), d)
<1>1. <<>> \in Seq(Space)
  OBVIOUS
<1>2. dump(d) = Spaced(d, <<>>)
  BY DumpIsSpaced, Zenon
<1> QED
  BY <1>1, <1>2, SpacedStands, Zenon

LEMMA NullIsUnderstood == Stood(NullText, Null)
<1>1. Null \in Printable[MaxNesting] /\ MaxNesting \in Nat
  BY SomeArePrintable, ScalarsArePrintable, ValuesAssumption
<1>2. dump(Null) = NullText
  <2>1. Texts(<<>>)[MaxNesting][Null] = TextBy(Null, Prior(Texts(<<>>), MaxNesting), <<>>)
    BY <1>1, TextsUnfold, Zenon
  <2> QED
    BY <2>1 DEF dump, TextBy, Null
<1> QED
  BY <1>1, <1>2, DumpStands, Zenon

(***************************************************************************)
(* Each text the application may be given stands for its document.         *)
(***************************************************************************)
LEMMA GivenIsUnderstood == \A g \in Given : Stood(g.text, g.document)
<1> TAKE g \in Given
<1>1. ASSUME NEW d \in Documents, g = [document |-> d, text |-> dump(d)]
      PROVE  Stood(g.text, g.document)
  <2>1. Stood(dump(d), d)
    BY TextsAssumption, DumpStands, Zenon
  <2> QED
    BY <1>1, <2>1
<1>2. ASSUME NEW d \in Documents, NEW s \in Spaces, g = [document |-> d, text |-> Spaced(d, s)]
      PROVE  Stood(g.text, g.document)
  <2>1. Stood(Spaced(d, s), d)
    BY TextsAssumption, SpacedStands, Zenon
  <2> QED
    BY <1>2, <2>1
<1>3. ASSUME NEW c \in CodePoints, g = [document |-> String(c[2]), text |-> Escaped(c[1])]
      PROVE  Stood(g.text, g.document)
  <2>1. c[1] \in Codes /\ IsUtf8(c[1], c[2])
    BY TextsAssumption, Zenon
  <2>2. c[2] = Utf8(c[1]) /\ Utf8(c[1]) \in Seq(Characters)
    BY <2>1, Utf8IsUnique, Utf8Type
  <2> DEFINE d == String(c[2])
  <2>3. d \in PrintableScalars
    BY <2>2, SomeArePrintable, Zenon
  <2>4. d.t = "string"
    BY DEF String
  <2> HIDE DEF d
  <2>5. JsonNormal(d) = d
    BY <2>3, <2>4, ScalarNormal
  <2>6. Stood(Escaped(c[1]), d)
    BY <2>1, <2>2, <2>5, EscapedIsParsed, Zenon DEF Stood, d
  <2> QED
    BY <1>3, <2>6 DEF d
<1> QED
  BY <1>1, <1>2, <1>3 DEF Given

LEMMA TextsStand == Spec => []Stood(text, document)
<1>1. Init => Stood(text, document)
  BY NullIsUnderstood, Zenon DEF Init
<1>2. Stood(text, document) /\ [Next]_vars => Stood(text, document)'
  <2> SUFFICES ASSUME Stood(text, document), [Next]_vars PROVE Stood(text', document')
    BY Zenon DEF Stood
  <2>1. CASE UNCHANGED <<text, document>>
    BY <2>1, Zenon
  <2>2. CASE GetText
    BY <2>2, GivenIsUnderstood, Zenon DEF GetText
  <2>3. CASE SendText
    BY <2>3, NullIsUnderstood, Zenon DEF SendText
  <2> QED
    BY <2>1, <2>2, <2>3, Zenon DEF Next, vars, Received, Answered, Ask, Probe, StreamCall, AppCall
<1> QED
  BY <1>1, <1>2, PTL DEF Spec

(***************************************************************************)
(* Whatever the application is given the text of is what it sends: however *)
(* the document is nested and whatever it holds.                           *)
(***************************************************************************)
THEOREM TextIsAlwaysUnderstood == Spec => []TextIsUnderstood
<1>1. Stood(text, document) => TextIsUnderstood
  BY DEF Stood, TextIsUnderstood
<1> QED
  BY <1>1, TextsStand, PTL

(***************************************************************************)
(* Wherever such a text is cut, what is left of a string, an array or an   *)
(* object is not parsed into another value.                                *)
(***************************************************************************)
THEOREM TruncatedTextIsAlwaysDiscarded == Spec => []TruncatedTextIsDiscarded
<1>1. Stood(text, document) => TruncatedTextIsDiscarded
  <2> SUFFICES ASSUME Stood(text, document), Sized(document), NEW n \in 0 .. Len(text) - 1
               PROVE  parse(SubSeq(text, 1, n)) \in {Discarded, Thrown, JsonNormal(document)}
    BY Zenon DEF TruncatedTextIsDiscarded
  <2>1. text \in Seq(Characters) /\ parse(text) = JsonNormal(document) /\ Sized(parse(text))
    BY Zenon DEF Stood
  <2>2. n \in 0 .. Len(text)
    BY <2>1
  <2>3. parse(SubSeq(text, 1, n)) \in {Discarded, Thrown, parse(text)}
    BY <2>1, <2>2, PartIsDiscarded, Zenon
  <2> QED
    BY <2>1, <2>3, Zenon
<1> QED
  BY <1>1, TextsStand, PTL

-----------------------------------------------------------------------------
(* With the application the device is that of IotmpLink. *)

\* The application's calls are messages of two types.
CallIs(m, type) == IsMessage(m) /\ m.type = type

LEMMA PutCall ==
    \A m, type, f, value : CallIs(m, type) /\ f \in 1 .. MaxFields - 1 => CallIs(Put(m, f, value), type)
BY PutFields DEF CallIs

LEMMA CallFields ==
    /\ STREAM_ID \in 1 .. MaxFields - 1 /\ PARAMETERS \in 1 .. MaxFields - 1
    /\ PAYLOAD \in 1 .. MaxFields - 1 /\ RESOURCE \in 1 .. MaxFields - 1
BY DEF STREAM_ID, PARAMETERS, PAYLOAD, RESOURCE, MaxFields

LEMMA CallTypes ==
    /\ \A code, name : CallIs(ServerRun(code, name), RUN)
    /\ \A name, data : CallIs(write_bucket(name, data), RUN)
    /\ \A m \in Calls : CallIs(m, RUN) \/ CallIs(m, CONNECT)
<1>1. \A type : CallIs(Message(type), type)
  BY MessageFields DEF CallIs
<1>2. \A code, name : CallIs(ServerRun(code, name), RUN)
  BY <1>1, PutCall, CallFields, Zenon DEF ServerRun
<1>3. \A code, name, data : CallIs(Put(ServerRun(code, name), PAYLOAD, data), RUN)
  BY <1>2, PutCall, CallFields, Zenon
<1>4. CallIs(Credentials, CONNECT)
  BY <1>1, PutCall, CallFields, Zenon DEF Credentials
<1>5. \A name, data : CallIs(write_bucket(name, data), RUN)
  BY <1>3, Zenon DEF write_bucket
<1>6. \A m \in Calls : CallIs(m, RUN) \/ CallIs(m, CONNECT)
  BY <1>2, <1>3, <1>4, <1>5, Zenon
     DEF Calls, get_property, set_property, call_endpoint, call_endpoint_with
<1> QED
  BY <1>2, <1>5, <1>6

\* One that is sent is a call of the device to the server.
LEMMA CallIsSent ==
    ASSUME NEW m, NEW id, CallIs(m, RUN) \/ CallIs(m, CONNECT), out' = <<set_stream_id(m, id)>>,
           UNCHANGED <<flight, streams, stream_id, app>>
    PROVE  CallServer
<1>1. set_stream_id(m, id).type \in {RUN, CONNECT}
  <2>1. CallIs(set_stream_id(m, id), RUN) \/ CallIs(set_stream_id(m, id), CONNECT)
    BY PutCall, CallFields, Zenon DEF set_stream_id
  <2> QED
    BY <2>1 DEF CallIs
<1> QED
  BY <1>1 DEF CallServer

LEMMA ExchangeStep == [Next]_vars => [LinkNext]_link
<1> SUFFICES ASSUME [Next]_vars PROVE [LinkNext]_link
  OBVIOUS
<1>1. CASE UNCHANGED vars
  BY <1>1 DEF vars
<1>2. CASE Received
  BY <1>2 DEF Received, LinkNext
<1>3. CASE Answered
  BY <1>3 DEF Answered, LinkNext
<1>4. CASE Ask
  BY <1>4, Zenon DEF Ask, LinkNext, Messages
<1>5. CASE Probe
  BY <1>5, Zenon DEF Probe, LinkNext, Messages
<1>6. ASSUME NEW r \in Resources, StreamCall(r) PROVE [LinkNext]_link
  BY <1>6, Zenon DEF StreamCall, LinkNext
<1>7. CASE AppCall
  <2>1. PICK m \in Calls, id \in CallIds : out' = <<set_stream_id(m, id)>>
    BY <1>7, Zenon DEF AppCall
  <2>2. CallServer
    BY <1>7, <2>1, CallTypes, CallIsSent DEF AppCall
  <2> QED
    BY <1>7, <2>2 DEF AppCall, LinkNext
<1>8. CASE GetText
  BY <1>8 DEF GetText, link, device
<1>9. CASE SendText
  <2>1. PICK id \in CallIds : out' = <<set_stream_id(write_bucket(Led, parse(text)), id)>>
    BY <1>9, Zenon DEF SendText
  <2>2. CallServer
    BY <1>9, <2>1, CallTypes, CallIsSent DEF SendText
  <2> QED
    BY <1>9, <2>2 DEF SendText, LinkNext
<1> QED
  BY <1>1, <1>2, <1>3, <1>4, <1>5, <1>6, <1>7, <1>8, <1>9, Zenon DEF Next

(***************************************************************************)
(* With an application that makes calls and sends what it has as text, the *)
(* device and its connection do only what IotmpLink says of them.          *)
(***************************************************************************)
THEOREM ExchangeImplementsLink == Spec => LinkSpec
<1>1. Init => LinkInit
  BY DEF Init
<1> QED
  BY <1>1, ExchangeStep, PTL DEF Spec, LinkSpec

(***************************************************************************)
(* So everything shown of the link holds of it: frames, messages and what  *)
(* is made of them.                                                        *)
(***************************************************************************)
THEOREM ExchangeIsSafe ==
    Spec => /\ [](FramesStayInStep /\ PrefixesAreRefused /\ MessagesRoundTrip)
            /\ DeviceSpec /\ RequestsAreHandledAsMeant
            /\ DataShowsTheState /\ OnlyInputChangesTheState
BY ExchangeImplementsLink, FramesAlwaysStayInStep, PrefixesAreAlwaysRefused,
   MessagesAlwaysRoundTrip, LinkImplementsDevice, BytesAreHandledAsMeant, PTL

=============================================================================
