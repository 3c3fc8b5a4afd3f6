-------------------------- MODULE IotmpStreamsProofs --------------------------
(***************************************************************************)
(* Proofs about IotmpStreams, for any resources, ids and intervals: its    *)
(* types, the agreement of streams_ with the resources' stream ids, and    *)
(* that it implements Subscriptions.                                       *)
(***************************************************************************)
EXTENDS IotmpStreams, TLAPS

\* What stream_resource() sends is data of the resource on the stream.
LEMMA StreamResourceType ==
    ASSUME NEW r \in Resources, NEW s \in Ids
    PROVE  StreamResource(r, s) \subseteq {Data(s, r)} /\ Data(s, r) \in DataMessages
BY DEF StreamResource, Data, DataMessages

\* What stream_resource() sends has its type, whatever resource and stream.
LEMMA DataMessagesOnly ==
    \A r \in Resources, s \in Ids : StreamResource(r, s) \subseteq DataMessages
BY DEF StreamResource, Data, DataMessages

\* What a handler answers has its type.
LEMMA AnswerType ==
    ASSUME NEW type \in {"OK", "ERROR"}, NEW s \in Ids
    PROVE  Answer(type, s) \in Answers
BY DEF Answer, Answers

\* A request has an id, and a path when it is not about an open stream.
LEMMA RequestType ==
    ASSUME NEW m \in Requests
    PROVE  /\ m.stream \in Ids
           /\ m.type \in {"RUN", "DESCRIBE", "START_STREAM"} => m.resource \in Paths
           /\ m.type = "START_STREAM" => m.interval \in Intervals
BY DEF Requests

\* An entry of streams_ that is there is a stream.
LEMMA ActiveType ==
    ASSUME TypeOK, NEW s \in Active
    PROVE  s \in Ids /\ streams[s] \in Stream /\ streams[s].resource \in Resources
BY DEF TypeOK, Active, Stream

\* The client starts with variables of their types.
LEMMA InitType == Init => TypeOK
BY TimeAssumption, 0 \in Time DEF Init, TypeOK, Time

\* Every handler, timer pass and tick keeps the types.
LEMMA NextType == TypeOK /\ [Next]_vars => TypeOK'
<1> SUFFICES ASSUME TypeOK, [Next]_vars PROVE TypeOK'
  OBVIOUS
<1> USE ResourcesAssumption, IdsAssumption, TimeAssumption
<1>1. ASSUME NEW m \in Requests, HandleRun(m) PROVE TypeOK'
  <2>1. m.stream \in Ids /\ m.resource \in Paths
    BY <1>1, RequestType DEF HandleRun
  <2>2. CASE m.resource = Unknown
    <3>1. Answer("ERROR", m.stream) \in Answers
      BY <2>1, AnswerType
    <3>2. out' = {Answer("ERROR", m.stream)}
      BY <1>1, <2>2 DEF HandleRun
    <3> QED
      BY <1>1, <3>1, <3>2 DEF HandleRun, TypeOK
  <2>3. CASE m.resource # Unknown
    <3>1. m.resource \in Resources
      BY <2>1, <2>3 DEF Paths
    <3>2. stream_enabled(m.resource) => stream_id[m.resource] \in Ids
      BY <3>1 DEF stream_enabled, TypeOK
    <3>3. stream_enabled(m.resource) =>
            StreamResource(m.resource, stream_id[m.resource]) \subseteq DataMessages
      BY <3>1, <3>2, DataMessagesOnly
    <3>4. \A type \in {"OK", "ERROR"} : Answer(type, m.stream) \in Answers
      BY <2>1, AnswerType
    <3>5. PICK type \in {"OK", "ERROR"}, data \in SUBSET DataMessages :
            out' = {Answer(type, m.stream)} \cup data
      <4>1. CASE /\ HasPayloadAfterRun(m) /\ stream_enabled(m.resource)
                 /\ StreamEcho[m.resource] /\ HasInput(m.resource)
        BY <1>1, <2>3, <3>3, <4>1 DEF HandleRun
      <4>2. CASE ~(/\ HasPayloadAfterRun(m) /\ stream_enabled(m.resource)
                   /\ StreamEcho[m.resource] /\ HasInput(m.resource))
        BY <1>1, <2>3, <4>2 DEF HandleRun
      <4> QED
        BY <4>1, <4>2
    <3> QED
      BY <1>1, <3>4, <3>5 DEF HandleRun, TypeOK
  <2> QED
    BY <2>2, <2>3
<1>2. ASSUME NEW m \in Requests, HandleDescribe(m) PROVE TypeOK'
  BY <1>2, RequestType, AnswerType DEF HandleDescribe, TypeOK
<1>3. ASSUME NEW m \in Requests, HandleStartStream(m) PROVE TypeOK'
  <2>1. m.stream \in Ids /\ m.resource \in Paths /\ m.interval \in Intervals
    BY <1>3, RequestType DEF HandleStartStream
  <2>2. CASE m.resource = Unknown
    <3>1. Answer("ERROR", m.stream) \in Answers
      BY <2>1, AnswerType
    <3> QED
      BY <1>3, <2>2, <3>1 DEF HandleStartStream, TypeOK
  <2>3. CASE m.resource # Unknown
    <3>1. m.resource \in Resources
      BY <2>1, <2>3 DEF Paths
    <3>2. [resource |-> m.resource, interval_ms |-> m.interval, last_sample |-> clock] \in Stream
      BY <2>1, <3>1 DEF Stream, TypeOK
    <3>3. out' \subseteq Answers \cup DataMessages
      <4>1. Answer("OK", m.stream) \in Answers
        BY <2>1, AnswerType
      <4>2. StreamResource(m.resource, m.stream) \subseteq DataMessages
        BY <2>1, <3>1, DataMessagesOnly
      <4> QED
        BY <1>3, <2>3, <4>1, <4>2 DEF HandleStartStream
    <3>4. streams' \in [Ids -> Stream \cup {NoStream}] /\ stream_id' \in [Resources -> Ids \cup {0}]
      BY <1>3, <2>1, <2>3, <3>1, <3>2 DEF HandleStartStream, TypeOK
    <3> QED
      BY <1>3, <3>3, <3>4 DEF HandleStartStream, TypeOK
  <2> QED
    BY <2>2, <2>3
<1>4. ASSUME NEW m \in Requests, HandleStopStream(m) PROVE TypeOK'
  <2>1. m.stream \in Ids
    BY RequestType
  <2>2. out' \subseteq Answers \cup DataMessages
    <3>1. Answer("OK", m.stream) \in Answers
      BY <2>1, AnswerType
    <3> QED
      BY <1>4, <3>1 DEF HandleStopStream
  <2>3. streams' \in [Ids -> Stream \cup {NoStream}] /\ stream_id' \in [Resources -> Ids \cup {0}]
    BY <1>4, ActiveType DEF HandleStopStream, TypeOK
  <2> QED
    BY <1>4, <2>2, <2>3 DEF HandleStopStream, TypeOK
<1>5. ASSUME NEW m \in Requests, HandleStreamData(m) PROVE TypeOK'
  <2>1. out' \subseteq DataMessages
    <3>1. CASE m.stream \in Active
      <4>1. StreamResource(streams[m.stream].resource, m.stream) \subseteq DataMessages
        BY <3>1, ActiveType, DataMessagesOnly
      <4> QED
        BY <1>5, <4>1 DEF HandleStreamData
    <3>2. CASE m.stream \notin Active
      BY <1>5, <3>2 DEF HandleStreamData
    <3> QED
      BY <3>1, <3>2
  <2> QED
    BY <1>5, <2>1 DEF HandleStreamData, TypeOK
<1>6. ASSUME CheckStreams PROVE TypeOK'
  <2>1. \A s \in Ids : Due(s) =>
          /\ [streams[s] EXCEPT !.last_sample = clock] \in Stream
          /\ StreamResource(streams[s].resource, s) \subseteq DataMessages
    BY ActiveType, DataMessagesOnly DEF Due, TypeOK, Stream
  <2>2. streams' \in [Ids -> Stream \cup {NoStream}]
    BY <1>6, <2>1 DEF CheckStreams, TypeOK
  <2>3. out' \subseteq DataMessages
    BY <1>6, <2>1 DEF CheckStreams
  <2> QED
    BY <1>6, <2>2, <2>3 DEF CheckStreams, TypeOK
<1>7. ASSUME NEW r \in Resources, StreamCall(r) PROVE TypeOK'
  <2>1. stream_enabled(r) => stream_id[r] \in Ids
    BY DEF stream_enabled, TypeOK
  <2>2. out' \subseteq DataMessages
    BY <1>7, <2>1, DataMessagesOnly DEF StreamCall
  <2> QED
    BY <1>7, <2>2 DEF StreamCall, TypeOK
<1>8. ASSUME ClearStreams PROVE TypeOK'
  BY <1>8 DEF ClearStreams, TypeOK
<1>9. ASSUME Tick PROVE TypeOK'
  <2>1. clock' \in Time
    BY <1>9 DEF Tick, TypeOK, Time
  <2> QED
    BY <1>9, <2>1 DEF Tick, TypeOK
<1>10. CASE UNCHANGED vars
  BY <1>10 DEF vars, TypeOK
<1> QED
  BY <1>1, <1>2, <1>3, <1>4, <1>5, <1>6, <1>7, <1>8, <1>9, <1>10
     DEF Next, Receive, HandleMessage

\* The variables keep their types, for any resources, ids and intervals.
THEOREM TypeCorrect == Spec => []TypeOK
BY InitType, NextType, PTL DEF Spec

-----------------------------------------------------------------------------

\* A client without streams has no stream id to agree on.
LEMMA InitAgree == Init => StreamIdsAgree
BY DEF Init, StreamIdsAgree, stream_enabled

(***************************************************************************)
(* The agreement is inductive with the types.  Starting a stream could     *)
(* break it for another resource that remembers the same id, which         *)
(* ServerSends excludes; stopping one, for another resource of the stream, *)
(* which the agreement itself excludes.                                    *)
(***************************************************************************)
LEMMA NextAgree == TypeOK /\ StreamIdsAgree /\ [Next]_vars => StreamIdsAgree'
<1> SUFFICES ASSUME TypeOK, StreamIdsAgree, [Next]_vars,
                    NEW r \in Resources, stream_id'[r] # 0
             PROVE  /\ stream_id'[r] \in Ids
                    /\ streams'[stream_id'[r]] # NoStream
                    /\ streams'[stream_id'[r]].resource = r
  BY DEF StreamIdsAgree, stream_enabled, Active
<1> DEFINE Agrees(id, str) == id \in Ids /\ str[id] # NoStream /\ str[id].resource = r
<1>0. stream_id[r] # 0 => Agrees(stream_id[r], streams)
  BY DEF StreamIdsAgree, stream_enabled, Active
<1>1. CASE UNCHANGED <<streams, stream_id>>
  BY <1>0, <1>1
<1>2. ASSUME NEW m \in Requests, ServerSends(m), HandleStartStream(m), m.resource # Unknown
      PROVE  Agrees(stream_id'[r], streams')
  <2>1. m.stream \in Ids /\ m.resource \in Resources
    BY <1>2, RequestType DEF HandleStartStream, Paths
  <2> DEFINE new == [resource |-> m.resource, interval_ms |-> m.interval, last_sample |-> clock]
  <2>2. new \in Stream /\ new.resource = m.resource
    BY <1>2, <2>1, RequestType DEF Stream, TypeOK, HandleStartStream
  <2>3. /\ streams' = [streams EXCEPT ![m.stream] = new]
        /\ stream_id' = [stream_id EXCEPT ![m.resource] = m.stream]
    BY <1>2 DEF HandleStartStream
  <2>4. new # NoStream
    BY <2>2, NoStreamAssumption
  <2> HIDE DEF new
  <2>5. CASE r = m.resource
    <3>1. stream_id'[r] = m.stream /\ streams'[m.stream] = new
      BY <2>1, <2>3, <2>5 DEF TypeOK
    <3> QED
      BY <2>1, <2>2, <2>4, <2>5, <3>1
  <2>6. CASE r # m.resource
    <3>1. stream_id'[r] = stream_id[r]
      BY <2>1, <2>3, <2>6 DEF TypeOK
    <3>2. stream_id[r] # m.stream
      BY <1>0, <1>2, <2>6, <3>1 DEF ServerSends, HandleStartStream, Active
    <3>3. streams'[stream_id[r]] = streams[stream_id[r]]
      BY <1>0, <2>1, <2>3, <3>1, <3>2 DEF TypeOK
    <3> QED
      BY <1>0, <3>1, <3>3
  <2> QED
    BY <2>5, <2>6
<1>3. ASSUME NEW m \in Requests, HandleStopStream(m), m.stream \in Active
      PROVE  Agrees(stream_id'[r], streams')
  <2>1. m.stream \in Ids /\ streams[m.stream].resource \in Resources
    BY <1>3, RequestType, ActiveType
  <2>2. /\ streams' = [streams EXCEPT ![m.stream] = NoStream]
        /\ stream_id' = [stream_id EXCEPT ![streams[m.stream].resource] = 0]
    BY <1>3 DEF HandleStopStream
  <2>3. r # streams[m.stream].resource
    BY <2>1, <2>2 DEF TypeOK
  <2>4. stream_id'[r] = stream_id[r]
    BY <2>1, <2>2, <2>3 DEF TypeOK
  <2>5. stream_id[r] # m.stream
    BY <1>0, <2>3, <2>4
  <2>6. streams'[stream_id[r]] = streams[stream_id[r]]
    BY <1>0, <2>2, <2>4, <2>5 DEF TypeOK
  <2> QED
    BY <1>0, <2>4, <2>6
<1>4. ASSUME CheckStreams PROVE Agrees(stream_id'[r], streams')
  <2>1. stream_id'[r] = stream_id[r] /\ Agrees(stream_id[r], streams)
    BY <1>0, <1>4 DEF CheckStreams
  <2> DEFINE id == stream_id[r]
  <2>2. streams[id] \in Stream
    BY <2>1, ActiveType DEF Active
  <2>3. streams'[id] = streams[id] \/ streams'[id] = [streams[id] EXCEPT !.last_sample = clock]
    BY <1>4, <2>1 DEF CheckStreams
  <2>4. [streams[id] EXCEPT !.last_sample = clock] \in Stream
    BY <2>2 DEF Stream, TypeOK
  <2>5. [streams[id] EXCEPT !.last_sample = clock].resource = streams[id].resource
    BY <2>2 DEF Stream
  <2> QED
    BY <2>1, <2>3, <2>4, <2>5, NoStreamAssumption
<1>5. CASE ClearStreams
  BY <1>5 DEF ClearStreams
<1> QED
  BY <1>1, <1>2, <1>3, <1>4, <1>5
     DEF Next, Receive, HandleMessage, HandleRun, HandleDescribe, HandleStartStream,
         HandleStopStream, HandleStreamData, StreamCall, Tick, vars

(***************************************************************************)
(* The id a resource remembers is always that of an open stream of it.     *)
(***************************************************************************)
THEOREM StreamIdsAlwaysAgree == Spec => []StreamIdsAgree
BY TypeCorrect, InitAgree, NextAgree, PTL DEF Spec

-----------------------------------------------------------------------------
(* The refinement of Subscriptions.  Its variables, as functions of ours.  *)

Subscribed == [s \in Ids |-> IF s \in Active THEN streams[s].resource ELSE Unknown]

Published == {<<d.stream, d.resource>> : d \in {m \in out : m.type = "STREAM_DATA"}}

\* d may go out now: it is an answer, or data of an open stream.
Justified(d) ==
    d.type = "STREAM_DATA" => d.stream \in Active /\ streams[d.stream].resource = d.resource

\* A client without streams has published nothing.
LEMMA InitRefines == Init => Subs!Init
BY DEF Init, Subs!Init, Active

\* An answer carries no data.
LEMMA AnswerIsNoData ==
    \A type \in {"OK", "ERROR"}, s \in Ids : Answer(type, s).type # "STREAM_DATA"
BY DEF Answer

\* Data sent on the open stream of its resource is justified.
LEMMA StreamResourceJustified ==
    ASSUME NEW s \in Active, NEW d \in StreamResource(streams[s].resource, s)
    PROVE  Justified(d)
BY DEF StreamResource, Data, Justified

(***************************************************************************)
(* A step that leaves every stream open for its resource and sends only    *)
(* data that is justified is a Publish.                                    *)
(***************************************************************************)
LEMMA PublishStep ==
    ASSUME TypeOK, Subscribed' = Subscribed, \A d \in out' : Justified(d)
    PROVE  Subs!Publish
<1>1. \A s \in Active : Subscribed[s] = streams[s].resource /\ Subscribed[s] # Unknown
  BY ActiveType, ResourcesAssumption DEF Subscribed, Active
<1>2. ASSUME NEW d \in out', d.type = "STREAM_DATA"
      PROVE  <<d.stream, d.resource>> \in
               {<<s, Subscribed[s]>> : s \in {i \in Ids : Subscribed[i] # Unknown}}
  BY <1>1, <1>2 DEF Justified, Active
<1>3. Published' \subseteq {<<s, Subscribed[s]>> : s \in {i \in Ids : Subscribed[i] # Unknown}}
  BY <1>2 DEF Published
<1> QED
  BY <1>3 DEF Subs!Publish, Subs!Wanted, Subscribed, Published

\* Opening a stream, or opening it again, is a Subscribe.
LEMMA StartRefines ==
    ASSUME TypeOK, NEW m \in Requests, HandleStartStream(m), m.resource # Unknown
    PROVE  Subs!Subscribe(m.stream, m.resource)
<1>1. m.stream \in Ids /\ m.resource \in Resources
  BY RequestType DEF HandleStartStream, Paths
<1> DEFINE new == [resource |-> m.resource, interval_ms |-> m.interval, last_sample |-> clock]
<1>2. new \in Stream /\ new.resource = m.resource
  BY <1>1, RequestType DEF Stream, TypeOK, HandleStartStream
<1>3. streams' = [streams EXCEPT ![m.stream] = new] /\ new # NoStream
  BY <1>2, NoStreamAssumption DEF HandleStartStream
<1>4. Subscribed' = [Subscribed EXCEPT ![m.stream] = m.resource]
  <2> HIDE DEF new
  <2> QED
    BY <1>1, <1>2, <1>3 DEF Subscribed, Active, TypeOK
<1>5. Published' \subseteq {<<m.stream, m.resource>>}
  <2>1. \A d \in out' : d = Answer("OK", m.stream) \/ d = Data(m.stream, m.resource)
    BY <1>1, StreamResourceType DEF HandleStartStream
  <2> QED
    BY <2>1 DEF Published, Answer, Data
<1> QED
  BY <1>4, <1>5 DEF Subs!Subscribe, Subscribed, Published

\* Closing an open stream is an Unsubscribe.
LEMMA StopRefines ==
    ASSUME TypeOK, NEW m \in Requests, HandleStopStream(m), m.stream \in Active
    PROVE  Subs!Unsubscribe(m.stream)
<1>1. m.stream \in Ids /\ streams' = [streams EXCEPT ![m.stream] = NoStream]
  BY RequestType DEF HandleStopStream
<1>2. Subscribed' = [Subscribed EXCEPT ![m.stream] = Unknown]
  BY <1>1 DEF Subscribed, Active, TypeOK
<1>3. Published' = {}
  BY DEF HandleStopStream, Published, Answer
<1> QED
  BY <1>2, <1>3 DEF Subs!Unsubscribe, Subscribed, Published

\* A step that changes no stream, if what it sends is justified.
LEMMA QuietStep ==
    ASSUME TypeOK, UNCHANGED streams, \A d \in out' : Justified(d)
    PROVE  Subs!Publish
<1>1. Subscribed' = Subscribed
  BY DEF Subscribed, Active
<1> QED
  BY <1>1, PublishStep

\* RUN echoes on the id the resource remembers, which is open for it.
LEMMA RunRefines ==
    ASSUME TypeOK, StreamIdsAgree, NEW m \in Requests, HandleRun(m)
    PROVE  Subs!Publish
<1>1. m.stream \in Ids /\ m.resource \in Paths
  BY RequestType DEF HandleRun
<1>2. ASSUME NEW d \in out' PROVE Justified(d)
  <2>1. \/ \E type \in {"OK", "ERROR"} : d = Answer(type, m.stream)
        \/ /\ m.resource # Unknown /\ stream_enabled(m.resource)
           /\ d \in StreamResource(m.resource, stream_id[m.resource])
    <3>1. CASE m.resource = Unknown
      BY <1>2, <3>1 DEF HandleRun
    <3>2. CASE m.resource # Unknown
      <4>1. PICK type \in {"OK", "ERROR"} :
              out' = {Answer(type, m.stream)} \cup
                       (IF /\ HasPayloadAfterRun(m)
                           /\ stream_enabled(m.resource)
                           /\ StreamEcho[m.resource]
                           /\ HasInput(m.resource)
                          THEN StreamResource(m.resource, stream_id[m.resource])
                          ELSE {})
        BY <3>2 DEF HandleRun
      <4> QED
        BY <1>2, <3>2, <4>1
    <3> QED
      BY <3>1, <3>2
  <2>2. CASE \E type \in {"OK", "ERROR"} : d = Answer(type, m.stream)
    BY <1>1, <2>2, AnswerIsNoData DEF Justified
  <2>3. CASE /\ m.resource # Unknown /\ stream_enabled(m.resource)
             /\ d \in StreamResource(m.resource, stream_id[m.resource])
    <3>1. m.resource \in Resources
      BY <1>1, <2>3 DEF Paths
    <3>2. stream_id[m.resource] \in Active /\ streams[stream_id[m.resource]].resource = m.resource
      BY <2>3, <3>1 DEF StreamIdsAgree
    <3> QED
      BY <2>3, <3>2, StreamResourceJustified
  <2> QED
    BY <2>1, <2>2, <2>3
<1> QED
  BY <1>2, QuietStep DEF HandleRun

\* Sampling changes when a stream was sampled last, not what it is for.
LEMMA CheckRefines ==
    ASSUME TypeOK, CheckStreams
    PROVE  Subs!Publish
<1>1. ASSUME NEW s \in Ids
      PROVE  /\ streams'[s] = NoStream <=> streams[s] = NoStream
             /\ s \in Active => streams'[s].resource = streams[s].resource
  <2>1. CASE ~Due(s)
    BY <2>1 DEF CheckStreams
  <2>2. CASE Due(s)
    <3>1. s \in Active /\ streams[s] \in Stream
      BY <2>2, ActiveType DEF Due
    <3>2. streams'[s] = [streams[s] EXCEPT !.last_sample = clock]
      BY <2>2 DEF CheckStreams
    <3>3. [streams[s] EXCEPT !.last_sample = clock] \in Stream
      BY <3>1 DEF Stream, TypeOK
    <3>4. [streams[s] EXCEPT !.last_sample = clock].resource = streams[s].resource
      BY <3>1 DEF Stream
    <3> QED
      BY <3>1, <3>2, <3>3, <3>4, NoStreamAssumption DEF Active
  <2> QED
    BY <2>1, <2>2
<1>2. Subscribed' = Subscribed
  BY <1>1 DEF Subscribed, Active
<1>3. ASSUME NEW d \in out' PROVE Justified(d)
  <2>1. PICK s \in Ids : Due(s) /\ d \in StreamResource(streams[s].resource, s)
    BY <1>3 DEF CheckStreams
  <2> QED
    BY <2>1, StreamResourceJustified DEF Due
<1> QED
  BY <1>2, <1>3, PublishStep

(***************************************************************************)
(* Every step of the client is a step of Subscriptions or leaves it alone. *)
(***************************************************************************)
LEMMA NextRefines == TypeOK /\ StreamIdsAgree /\ [Next]_vars => [Subs!Next]_(Subs!subscriptions)
<1> SUFFICES ASSUME TypeOK, StreamIdsAgree, [Next]_vars
             PROVE  [Subs!Next]_(Subs!subscriptions)
  OBVIOUS
<1>1. ASSUME NEW m \in Requests, HandleRun(m) PROVE Subs!Next
  BY <1>1, RunRefines DEF Subs!Next
<1>2. ASSUME NEW m \in Requests, HandleDescribe(m) PROVE Subs!Publish
  <2>1. m.stream \in Ids
    BY RequestType
  <2>2. \A d \in out' : Justified(d)
    BY <1>2, <2>1, AnswerIsNoData DEF HandleDescribe, Justified
  <2> QED
    BY <1>2, <2>2, QuietStep DEF HandleDescribe
<1>3. ASSUME NEW m \in Requests, HandleStartStream(m) PROVE Subs!Next
  <2>1. CASE m.resource = Unknown
    <3>1. \A d \in out' : Justified(d)
      BY <1>3, <2>1, RequestType, AnswerIsNoData DEF HandleStartStream, Justified
    <3> QED
      BY <1>3, <2>1, <3>1, QuietStep DEF HandleStartStream, Subs!Next
  <2>2. CASE m.resource # Unknown
    <3>1. m.stream \in Ids /\ m.resource \in Resources
      BY <1>3, <2>2, RequestType DEF HandleStartStream, Paths
    <3> QED
      BY <1>3, <2>2, <3>1, StartRefines DEF Subs!Next
  <2> QED
    BY <2>1, <2>2
<1>4. ASSUME NEW m \in Requests, HandleStopStream(m) PROVE Subs!Next
  <2>1. m.stream \in Ids
    BY RequestType
  <2>2. CASE m.stream \in Active
    BY <1>4, <2>1, <2>2, StopRefines DEF Subs!Next
  <2>3. CASE m.stream \notin Active
    <3>1. \A d \in out' : Justified(d)
      BY <1>4, <2>1, AnswerIsNoData DEF HandleStopStream, Justified
    <3> QED
      BY <1>4, <2>3, <3>1, QuietStep DEF HandleStopStream, Subs!Next
  <2> QED
    BY <2>2, <2>3
<1>5. ASSUME NEW m \in Requests, HandleStreamData(m) PROVE Subs!Publish
  <2>1. \A d \in out' : Justified(d)
    BY <1>5, StreamResourceJustified DEF HandleStreamData
  <2> QED
    BY <1>5, <2>1, QuietStep DEF HandleStreamData
<1>6. ASSUME NEW r \in Resources, StreamCall(r) PROVE Subs!Publish
  <2>1. stream_enabled(r) => stream_id[r] \in Active /\ streams[stream_id[r]].resource = r
    BY DEF StreamIdsAgree
  <2>2. \A d \in out' : Justified(d)
    BY <1>6, <2>1, StreamResourceJustified DEF StreamCall
  <2> QED
    BY <1>6, <2>2, QuietStep DEF StreamCall
<1>7. ASSUME ClearStreams PROVE Subs!UnsubscribeAll
  BY <1>7 DEF ClearStreams, Subs!UnsubscribeAll, Active
<1>8. ASSUME Tick PROVE Subs!Publish
  <2>1. \A d \in out' : Justified(d)
    BY <1>8 DEF Tick
  <2> QED
    BY <1>8, <2>1, QuietStep DEF Tick
<1>9. CASE UNCHANGED vars
  BY <1>9 DEF vars, Subs!subscriptions, Active
<1> QED
  BY <1>1, <1>2, <1>3, <1>4, <1>5, <1>6, <1>7, <1>8, <1>9, CheckRefines
     DEF Next, Receive, HandleMessage, Subs!Next

(***************************************************************************)
(* Data goes out only on streams the server has open, and it is data of    *)
(* the resource each was opened for: the client implements Subscriptions.  *)
(***************************************************************************)
THEOREM ImplementsSubscriptions == Spec => SubscriptionsSpec
BY TypeCorrect, StreamIdsAlwaysAgree, InitRefines, NextRefines, PTL
   DEF Spec, SubscriptionsSpec, Subs!Spec

=============================================================================
