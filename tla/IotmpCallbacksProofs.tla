------------------------ MODULE IotmpCallbacksProofs ------------------------
(***************************************************************************)
(* Proofs about IotmpCallbacks, for any resources, ids, applications and   *)
(* depth of nesting: its types, the agreement of streams_ with the         *)
(* resources' stream ids at every point of every callback, which callbacks *)
(* can take a stream from what goes on with it, and that a quiet           *)
(* application, where none does, sends only data that is wanted.           *)
(***************************************************************************)
EXTENDS IotmpCallbacks, SequenceTheorems, TLAPS

-----------------------------------------------------------------------------
(* Stacks of activations. *)

\* The innermost activation is a frame.
LEMMA TopType ==
    ASSUME NEW st \in Seq(Frames), st # <<>>
    PROVE  Len(st) \in 1 .. Len(st) /\ Len(st) \in Nat /\ st[Len(st)] \in Frames
<1>1. Len(st) \in Nat /\ Len(st) # 0
  OBVIOUS
<1> QED
  BY <1>1

\* An activation that begins is the last one of the stack.
LEMMA PushType ==
    ASSUME NEW st \in Seq(Frames), NEW f \in Frames
    PROVE  /\ Push(st, f) \in Seq(Frames)
           /\ Len(st) \in Nat /\ Len(Push(st, f)) = Len(st) + 1
           /\ \A i \in 1 .. Len(st) : Push(st, f)[i] = st[i]
           /\ Push(st, f)[Len(st) + 1] = f
BY DEF Push

\* An activation that ends leaves those below it.
LEMMA PopType ==
    ASSUME NEW st \in Seq(Frames), st # <<>>
    PROVE  /\ Pop(st) \in Seq(Frames)
           /\ Len(Pop(st)) = Len(st) - 1
           /\ \A i \in 1 .. Len(st) - 1 : Pop(st)[i] = st[i]
<1>1. Len(st) \in Nat /\ 1 <= Len(st)
  BY TopType
<1>2. \A i \in 1 .. Len(st) - 1 : st[i] \in Frames
  BY <1>1
<1>3. 1 \in Int /\ Len(st) - 1 \in Int
  BY <1>1
<1>4. Pop(st) \in Seq(Frames)
  BY <1>2, <1>3, SubSeqProperties, Zenon DEF Pop
<1>5. Len(Pop(st)) = Len(st) - 1
  <2>1. CASE Len(st) = 1
    <3>1. Pop(st) = << >>
      BY <1>3, <2>1, SubSeqEmpty DEF Pop
    <3> QED
      BY <2>1, <3>1
  <2>2. CASE 1 <= Len(st) - 1
    BY <1>1, <2>2 DEF Pop
  <2>3. \A n \in Nat : 1 <= n => n = 1 \/ 1 <= n - 1
    OBVIOUS
  <2> QED
    BY <1>1, <2>1, <2>2, <2>3, Zenon
<1>6. \A i \in 1 .. Len(st) - 1 : Pop(st)[i] = st[i]
  BY <1>1 DEF Pop
<1> QED
  BY <1>4, <1>5, <1>6

\* An activation that goes on stands where it stood.
LEMMA ReplaceType ==
    ASSUME NEW st \in Seq(Frames), st # <<>>, NEW f \in Frames
    PROVE  /\ Replace(st, f) \in Seq(Frames) /\ Replace(st, f) # <<>>
           /\ Len(st) \in Nat /\ Len(Replace(st, f)) = Len(st)
           /\ \A i \in 1 .. Len(st) - 1 : Replace(st, f)[i] = st[i]
           /\ Replace(st, f)[Len(st)] = f
<1>1. Len(st) \in 1 .. Len(st)
  BY TopType
<1> QED
  BY <1>1 DEF Replace

\* Only iterations are affected by an entry that is erased.
LEMMA ErasingType ==
    ASSUME NEW st \in Seq(Frames), NEW ids
    PROVE  Erasing(st, ids) \in Seq(Frames)
<1>1. \A i \in 1 .. Len(st) : Erasing(st, ids)[i] \in Frames
  <2> TAKE i \in 1 .. Len(st)
  <2>1. st[i] \in Frames
    OBVIOUS
  <2>2. st[i].do = "check" => [st[i] EXCEPT !.do = "dangling"] \in Frames
    BY <2>1 DEF Frames
  <2>3. DOMAIN st = 1 .. Len(st)
    OBVIOUS
  <2> QED
    BY <2>1, <2>2, <2>3 DEF Erasing
<1>2. DOMAIN Erasing(st, ids) = 1 .. Len(st) /\ Len(st) \in Nat
  BY DEF Erasing
<1>3. Erasing(st, ids) \in [1 .. Len(st) -> Frames]
  BY <1>1, <1>2 DEF Erasing
<1> QED
  BY <1>2, <1>3

\* The frames that begin.
LEMMA FrameTypes ==
    /\ \A s \in StreamIds, r \in Resources :
         Frame("stream", s, r) \in Frames /\ Frame("data", s, r) \in Frames
    /\ \A s \in RequestIds, r \in Resources :
         Frame("run", s, r) \in Frames /\ Frame("describe", s, r) \in Frames
    /\ \A s \in StreamIds \cup {0} : Frame("check", s, NoResource) \in Frames
    /\ \A do \in {"loop", "check", "call", "drop"} : Frame(do, 0, NoResource) \in Frames
BY BoundsAssumption DEF Frame, Frames, Attempts

\* stream_resource() may begin a callback.
LEMMA StreamResourceType ==
    ASSUME NEW st \in Seq(Frames), NEW s \in StreamIds, NEW r \in Resources
    PROVE  StreamResource(st, s, r) \in Seq(Frames)
BY FrameTypes, PushType DEF StreamResource

-----------------------------------------------------------------------------
(* Types. *)

\* A request that is handled has an id, and a resource if it needs one.
LEMMA RequestType ==
    ASSUME NEW m \in Requests
    PROVE  /\ m.type \in {"START_STREAM", "STOP_STREAM", "STREAM_DATA"} => m.stream \in StreamIds
           /\ m.type \in {"RUN", "DESCRIBE"} => m.stream \in RequestIds
           /\ m.type \in {"RUN", "DESCRIBE", "START_STREAM"} =>
                m.resource \in Resources \cup {NoResource}
BY DEF Requests

\* Ending the session keeps the types, whatever is going on.
LEMMA DisconnectType ==
    ASSUME TypeOK, NEW st \in Seq(Frames), Disconnect(st) \/ Clear(st), UNCHANGED may
    PROVE  TypeOK'
<1>1. Frame("drop", 0, NoResource) \in Frames
  BY FrameTypes
<1>2. Push(st, Frame("drop", 0, NoResource)) \in Seq(Frames)
  BY <1>1, PushType
<1>3. Erasing(st, Active) \in Seq(Frames)
  BY ErasingType
<1>4. CASE Clear(st)
  BY <1>3, <1>4 DEF Clear, TypeOK
<1>5. CASE Disconnect(st) /\ connected
  BY <1>2, <1>5 DEF Disconnect, calling, TypeOK
<1>6. CASE Disconnect(st) /\ ~connected
  BY <1>4, <1>6 DEF Disconnect
<1> QED
  BY <1>4, <1>5, <1>6

\* An open stream has a resource.
LEMMA ActiveType ==
    ASSUME TypeOK, NEW s \in Active
    PROVE  s \in StreamIds /\ streams[s] \in Resources
BY DEF TypeOK, Active

\* A message of the server is handled within the types.
LEMMA HandleMessageType ==
    ASSUME TypeOK, NEW st \in Seq(Frames), NEW m \in Requests, HandleMessage(st, m)
    PROVE  TypeOK'
<1>1. CASE m.type = "DISCONNECT" /\ Disconnect(st) /\ Quietly
  BY <1>1, DisconnectType DEF Quietly
<1>2. CASE HandleRequest(st, m)
  <2>1. connected' = connected /\ asked' = asked /\ answers' = answers /\ may' = may
    BY <1>2 DEF HandleRequest, calling
  <2>2. SUFFICES /\ stack' \in Seq(Frames)
                 /\ streams' \in [StreamIds -> Resources \cup {NoResource}]
                 /\ stream_id' \in [Resources -> StreamIds \cup {0}]
    BY <2>1 DEF TypeOK
  <2>3. CASE NoSuchResource(st, m)
    BY <2>3 DEF NoSuchResource, TypeOK
  <2>4. CASE m.type = "RUN" /\ m.resource # NoResource /\ HandleRun(st, m)
    <3>1. Frame("run", m.stream, m.resource) \in Frames
      BY <2>4, RequestType, FrameTypes
    <3> QED
      BY <2>4, <3>1, PushType DEF HandleRun, TypeOK
  <2>5. CASE m.type = "DESCRIBE" /\ m.resource # NoResource /\ HandleDescribe(st, m)
    <3>1. Frame("describe", m.stream, m.resource) \in Frames
      BY <2>5, RequestType, FrameTypes
    <3> QED
      BY <2>5, <3>1, PushType DEF HandleDescribe, TypeOK
  <2>6. CASE m.type = "START_STREAM" /\ m.resource # NoResource /\ HandleStartStream(st, m)
    <3>1. m.stream \in StreamIds /\ m.resource \in Resources
      BY <2>6, RequestType
    <3>2. StreamResource(st, m.stream, m.resource) \in Seq(Frames)
      BY <3>1, StreamResourceType
    <3> QED
      BY <2>6, <3>1, <3>2 DEF HandleStartStream, TypeOK
  <2>7. CASE m.type = "STOP_STREAM" /\ HandleStopStream(st, m)
    <3>1. m.stream \in StreamIds
      BY <2>7, RequestType
    <3>2. stream_id' \in [Resources -> StreamIds \cup {0}]
      BY <2>7, ActiveType DEF HandleStopStream, TypeOK
    <3> QED
      BY <2>7, <3>1, <3>2, ErasingType DEF HandleStopStream, TypeOK
  <2>8. CASE m.type = "STREAM_DATA" /\ HandleStreamData(st, m)
    <3>1. m.stream \in Active => Frame("data", m.stream, streams[m.stream]) \in Frames
      BY ActiveType, FrameTypes
    <3> QED
      BY <2>8, <3>1, PushType DEF HandleStreamData, TypeOK
  <2>9. CASE m.type = "KEEP_ALIVE" /\ stack' = st /\ out' = {} /\ UNCHANGED <<streams, stream_id>>
    BY <2>9 DEF TypeOK
  <2> QED
    BY <1>2, <2>3, <2>4, <2>5, <2>6, <2>7, <2>8, <2>9 DEF HandleRequest
<1> QED
  BY <1>1, <1>2 DEF HandleMessage

\* The client starts with variables of their types.
LEMMA InitType == Init => TypeOK
<1>1. << >> \in Seq(Frames)
  OBVIOUS
<1> QED
  BY <1>1, Zenon DEF Init, TypeOK

\* What follows a callback keeps the types.
LEMMA CallbackReturnsType == TypeOK /\ CallbackReturns => TypeOK'
<1> SUFFICES ASSUME TypeOK, CallbackReturns PROVE TypeOK'
  OBVIOUS
<1>0. /\ stack \in Seq(Frames) /\ stack # <<>>
      /\ stream_id \in [Resources -> StreamIds \cup {0}]
  BY DEF TypeOK, CallbackReturns, RunReturns, DescribeReturns, DataReturns, StreamReturns,
         DropReturns, TopIs
<1>1. Pop(stack) \in Seq(Frames) /\ Top \in Frames
  BY <1>0, PopType, TopType DEF Top
<1>2. CASE RunReturns
  <2>1. Top.resource \in Resources
    BY <1>1, <1>2 DEF RunReturns, TopIs, Frames
  <2>2. stream_enabled(Top.resource) => stream_id[Top.resource] \in StreamIds
    BY <1>0, <2>1 DEF stream_enabled
  <2>3. stack' \in Seq(Frames)
    BY <1>1, <1>2, <2>1, <2>2, StreamResourceType DEF RunReturns
  <2> QED
    BY <1>2, <2>3 DEF RunReturns, calling, TypeOK
<1>3. CASE DescribeReturns \/ StreamReturns
  BY <1>1, <1>3 DEF DescribeReturns, StreamReturns, calling, TypeOK
<1>4. CASE DataReturns
  <2>1. Top.resource \in Resources /\ Top.stream \in StreamIds
    BY <1>1, <1>4 DEF DataReturns, TopIs, Frames
  <2>2. stack' \in Seq(Frames)
    BY <1>1, <1>4, <2>1, StreamResourceType DEF DataReturns
  <2> QED
    BY <1>4, <2>2 DEF DataReturns, calling, TypeOK
<1>5. CASE DropReturns
  BY <1>1, <1>5, DisconnectType DEF DropReturns, Quietly
<1> QED
  BY <1>2, <1>3, <1>4, <1>5 DEF CallbackReturns

\* A read of a call that is one more attempt leaves a frame of the call.
LEMMA AttemptedType ==
    ASSUME TypeOK, Awaits
    PROVE  Attempted \in Seq(Frames) /\ [Top EXCEPT !.attempts = @ + 1] \in Frames
<1>1. stack \in Seq(Frames) /\ stack # <<>>
  BY DEF TypeOK, Awaits, TopIs
<1>2. Top \in Frames /\ Top.do = "call" /\ Top.attempts < MaxAttempts
  BY <1>1, TopType DEF Awaits, TopIs, Top
<1>3. [Top EXCEPT !.attempts = @ + 1] \in Frames
  BY <1>2, BoundsAssumption DEF Frames, Attempts
<1> QED
  BY <1>1, <1>3, ReplaceType DEF Attempted

\* A step of a call keeps the types.
LEMMA CallStepType == TypeOK /\ CallStep => TypeOK'
<1> SUFFICES ASSUME TypeOK, CallStep PROVE TypeOK'
  OBVIOUS
<1>1. CASE CallReadsAnswer \/ CallReadsNothing
  <2>1. Pop(stack) \in Seq(Frames)
    BY <1>1, PopType DEF CallReadsAnswer, CallReadsNothing, Awaits, TopIs, TypeOK
  <2> QED
    BY <1>1, <2>1 DEF CallReadsAnswer, CallReadsNothing, Return, Quietly, TypeOK
<1>2. CASE CallReadsRequest
  BY <1>2, AttemptedType, HandleMessageType DEF CallReadsRequest
<1>3. CASE CallReadsOther
  <2>1. Attempted \in Seq(Frames)
    BY <1>3, AttemptedType DEF CallReadsOther
  <2> QED
    BY <1>3, <2>1 DEF CallReadsOther, Quietly, TypeOK
<1> QED
  BY <1>1, <1>2, <1>3 DEF CallStep

\* Every step keeps the types.
LEMMA NextType == TypeOK /\ [Next]_vars => TypeOK'
<1> SUFFICES ASSUME TypeOK, [Next]_vars PROVE TypeOK'
  OBVIOUS
<1>0. /\ stack \in Seq(Frames)
      /\ streams \in [StreamIds -> Resources \cup {NoResource}]
      /\ stream_id \in [Resources -> StreamIds \cup {0}]
  BY DEF TypeOK
<1>1. CASE Connect \/ ServerAnswers
  BY <1>1 DEF Connect, ServerAnswers, Quietly, calling, TypeOK
<1>2. CASE HandleStarts
  BY <1>0, <1>2, FrameTypes, PushType DEF HandleStarts, Quietly, calling, TypeOK
<1>3. CASE LoopReads
  BY <1>0, <1>3, HandleMessageType DEF LoopReads
<1>4. CASE LoopFails
  <2>1. Pop(stack) \in Seq(Frames)
    BY <1>0, <1>4, PopType DEF LoopFails, TopIs
  <2> QED
    BY <1>4, <2>1, DisconnectType DEF LoopFails, Quietly
<1>5. CASE LoopEnds
  BY <1>0, <1>5, FrameTypes, ReplaceType DEF LoopEnds, TopIs, Quietly, calling, TypeOK
<1>6. CASE CheckNext
  <2>1. PICK s \in Later, due \in BOOLEAN :
          stack' = LET here == Replace(stack, Frame("check", s, NoResource))
                   IN  IF due THEN StreamResource(here, s, streams[s]) ELSE here
    BY <1>6 DEF CheckNext
  <2>2. s \in StreamIds /\ streams[s] \in Resources
    BY <2>1, ActiveType DEF Later
  <2>3. Replace(stack, Frame("check", s, NoResource)) \in Seq(Frames)
    BY <1>0, <1>6, <2>2, FrameTypes, ReplaceType DEF CheckNext, TopIs
  <2>4. stack' \in Seq(Frames)
    BY <2>1, <2>2, <2>3, StreamResourceType
  <2> QED
    BY <1>6, <2>4 DEF CheckNext, Quietly, calling, TypeOK
<1>7. CASE CheckEnds
  BY <1>0, <1>7, PopType DEF CheckEnds, TopIs, Quietly, calling, TypeOK
<1>8. CASE CheckDangling
  <2>1. \A s \in StreamIds : Replace(stack, Frame("check", s, NoResource)) \in Seq(Frames)
    BY <1>0, <1>8, FrameTypes, ReplaceType DEF CheckDangling, TopIs
  <2>2. Pop(stack) \in Seq(Frames)
    BY <1>0, <1>8, PopType DEF CheckDangling, TopIs
  <2> QED
    BY <1>8, <2>1, <2>2 DEF CheckDangling, Quietly, calling, TypeOK
<1>9. CASE CallbackReturns
  BY <1>9, CallbackReturnsType
<1>10. CASE AppDisconnects
  BY <1>0, <1>10, DisconnectType DEF AppDisconnects, Quietly
<1>11. CASE AppStreams
  <2>1. PICK r \in Resources :
          stream_enabled(r) /\ stack' = StreamResource(stack, stream_id[r], r)
    BY <1>11 DEF AppStreams
  <2>2. stream_id[r] \in StreamIds
    BY <1>0, <2>1 DEF stream_enabled
  <2>3. stack' \in Seq(Frames)
    BY <1>0, <2>1, <2>2, StreamResourceType
  <2> QED
    BY <1>11, <2>3 DEF AppStreams, Quietly, calling, TypeOK
<1>12. CASE AppCalls
  <2>1. Push(stack, Frame("call", 0, NoResource)) \in Seq(Frames)
    BY <1>0, FrameTypes, PushType
  <2>2. Len(stack) + 1 \in Depths
    BY <1>0, <1>12, BoundsAssumption DEF AppCalls, Depths
  <2> QED
    BY <1>12, <2>1, <2>2 DEF AppCalls, Quietly, TypeOK
<1>13. CASE CallStep
  BY <1>13, CallStepType
<1>14. CASE UNCHANGED vars
  BY <1>14 DEF vars, calling, TypeOK
<1> QED
  BY <1>1, <1>2, <1>3, <1>4, <1>5, <1>6, <1>7, <1>8, <1>9, <1>10, <1>11, <1>12, <1>13, <1>14
  DEF Next

(***************************************************************************)
(* The variables keep their types, however deep callbacks go back into the *)
(* client: TypeOK holds in every behaviour.                                *)
(***************************************************************************)
THEOREM TypeCorrect == Spec => []TypeOK
BY InitType, NextType, PTL DEF Spec

-----------------------------------------------------------------------------
(* The two views of the streams. *)

\* Ending the session closes the streams of both views, or of none yet.
LEMMA DisconnectAgrees ==
    ASSUME StreamIdsAgree, NEW st, Disconnect(st) \/ Clear(st)
    PROVE  StreamIdsAgree'
<1>1. CASE Clear(st)
  BY <1>1 DEF Clear, StreamIdsAgree, stream_enabled
<1>2. CASE UNCHANGED <<streams, stream_id>>
  BY <1>2 DEF StreamIdsAgree, stream_enabled, Active
<1> QED
  BY <1>1, <1>2 DEF Disconnect

\* A message of the server opens and closes streams in both views.
LEMMA HandleMessageAgrees ==
    ASSUME TypeOK, StreamIdsAgree, NEW st, NEW m \in Requests, ServerSends(m),
           HandleMessage(st, m)
    PROVE  StreamIdsAgree'
<1>0. /\ streams \in [StreamIds -> Resources \cup {NoResource}]
      /\ stream_id \in [Resources -> StreamIds \cup {0}]
      /\ NoResource \notin Resources /\ 0 \notin StreamIds
  BY ResourcesAssumption, IdsAssumption DEF TypeOK
<1>1. CASE m.type = "START_STREAM" /\ m.resource # NoResource /\ HandleStartStream(st, m)
  <2>1. m.stream \in StreamIds /\ m.resource \in Resources
    BY <1>1, RequestType
  <2>2. streams[m.stream] \in {NoResource, m.resource}
    BY <1>1 DEF ServerSends
  <2>3. /\ stream_id' = [stream_id EXCEPT ![m.resource] = m.stream]
        /\ streams' = [streams EXCEPT ![m.stream] = m.resource]
    BY <1>1 DEF HandleStartStream
  <2>4. SUFFICES ASSUME NEW r \in Resources, stream_id'[r] # 0
                 PROVE  stream_id'[r] \in StreamIds /\ streams'[stream_id'[r]] = r
    BY <1>0 DEF StreamIdsAgree, stream_enabled, Active
  <2>5. CASE r = m.resource
    BY <1>0, <2>1, <2>3, <2>5
  <2>6. CASE r # m.resource
    <3>1. stream_id'[r] = stream_id[r] /\ stream_id[r] \in StreamIds /\ streams[stream_id[r]] = r
      BY <1>0, <2>3, <2>4, <2>6 DEF StreamIdsAgree, stream_enabled, Active
    <3>2. stream_id[r] # m.stream
      BY <1>0, <2>2, <2>6, <3>1
    <3> QED
      BY <1>0, <2>3, <3>1, <3>2
  <2> QED
    BY <2>5, <2>6
<1>2. CASE m.type = "STOP_STREAM" /\ HandleStopStream(st, m)
  <2>1. m.stream \in StreamIds
    BY <1>2, RequestType
  <2>2. streams' = [streams EXCEPT ![m.stream] = NoResource]
    BY <1>2 DEF HandleStopStream
  <2>3. SUFFICES ASSUME NEW r \in Resources, stream_id'[r] # 0
                 PROVE  stream_id'[r] \in StreamIds /\ streams'[stream_id'[r]] = r
    BY <1>0 DEF StreamIdsAgree, stream_enabled, Active
  <2>4. stream_id'[r] = stream_id[r]
    BY <1>0, <1>2, <2>3 DEF HandleStopStream
  <2>5. stream_id[r] \in StreamIds /\ streams[stream_id[r]] = r
    BY <1>0, <2>3, <2>4 DEF StreamIdsAgree, stream_enabled, Active
  <2>6. stream_id[r] # m.stream
    <3>1. SUFFICES ASSUME stream_id[r] = m.stream PROVE FALSE
      OBVIOUS
    <3>2. m.stream \in Active
      BY <1>0, <2>1, <2>5, <3>1 DEF Active
    <3>3. stream_id'[r] = 0
      BY <1>0, <1>2, <2>5, <3>1, <3>2 DEF HandleStopStream
    <3> QED
      BY <2>3, <3>3
  <2> QED
    BY <1>0, <2>2, <2>4, <2>5, <2>6
<1>3. CASE UNCHANGED <<streams, stream_id>>
  BY <1>3 DEF StreamIdsAgree, stream_enabled, Active
<1>4. CASE m.type = "DISCONNECT" /\ Disconnect(st)
  BY <1>4, DisconnectAgrees
<1> QED
  BY <1>1, <1>2, <1>3, <1>4
  DEF HandleMessage, HandleRequest, NoSuchResource, HandleRun, HandleDescribe, HandleStreamData

\* Every step keeps the views in agreement.
LEMMA NextAgrees == TypeOK /\ StreamIdsAgree /\ [Next]_vars => StreamIdsAgree'
<1> SUFFICES ASSUME TypeOK, StreamIdsAgree, [Next]_vars PROVE StreamIdsAgree'
  OBVIOUS
<1>1. CASE UNCHANGED <<streams, stream_id>>
  BY <1>1 DEF StreamIdsAgree, stream_enabled, Active
<1>2. CASE LoopReads \/ CallReadsRequest
  BY <1>2, HandleMessageAgrees DEF LoopReads, CallReadsRequest
<1>3. CASE LoopFails \/ AppDisconnects \/ DropReturns
  BY <1>3, DisconnectAgrees DEF LoopFails, AppDisconnects, DropReturns
<1> QED
  BY <1>1, <1>2, <1>3
  DEF Next, vars, Connect, HandleStarts, LoopEnds, CheckNext, CheckEnds, CheckDangling,
      CallbackReturns, RunReturns, DescribeReturns, DataReturns, StreamReturns, AppStreams,
      AppCalls, CallStep, CallReadsAnswer, CallReadsNothing, CallReadsOther, Return,
      ServerAnswers

(***************************************************************************)
(* The id a resource remembers is that of an open stream of that resource, *)
(* whenever a callback looks: StreamIdsAgree holds in every behaviour.     *)
(***************************************************************************)
THEOREM StreamIdsAlwaysAgree == Spec => []StreamIdsAgree
<1>1. Init => StreamIdsAgree
  BY DEF Init, StreamIdsAgree, stream_enabled
<1> QED
  BY <1>1, InitType, NextType, NextAgrees, PTL DEF Spec

-----------------------------------------------------------------------------
(***************************************************************************)
(* Who takes a stream from an activation that goes on with it.  Above one  *)
(* that holds an entry or an id of streams_, anything but a sample has     *)
(* begun in a callback of a stream that goes back into the client.         *)
(***************************************************************************)
Holds(f) == f.do \in {"check", "stream", "data"}

\* An activation between i and j goes back into the client.
ReenteredBetween(st, i, j) == \E k \in 1 .. Len(st) : i <= k /\ k < j /\ Reenters(st[k])

Guarded(st) ==
    \A i, j \in 1 .. Len(st) :
        i < j /\ Holds(st[i]) /\ st[j].do # "stream" => ReenteredBetween(st, i, j)

(***************************************************************************)
(* A stack that keeps what is below its last activation of st, which is    *)
(* replaced, by a sample or where st did not end in one.                   *)
(***************************************************************************)
LEMMA SameBelowIsGuarded ==
    ASSUME NEW st \in Seq(Frames), NEW sr \in Seq(Frames), Guarded(st),
           NEW n \in Nat, Len(sr) = n, n <= Len(st),
           \A i \in 1 .. n - 1 : sr[i] = st[i],
           n # 0 => sr[n].do = "stream" \/ st[n].do # "stream"
    PROVE  Guarded(sr)
<1>0. Len(st) \in Nat
  OBVIOUS
<1> SUFFICES ASSUME NEW i \in 1 .. Len(sr), NEW j \in 1 .. Len(sr),
                    i < j, Holds(sr[i]), sr[j].do # "stream"
             PROVE  ReenteredBetween(sr, i, j)
  BY DEF Guarded
<1>1. i \in 1 .. n - 1 /\ i \in 1 .. Len(st) /\ j \in 1 .. Len(st) /\ sr[i] = st[i]
  BY <1>0
<1>2. st[j].do # "stream"
  <2>1. CASE j = n
    BY <2>1
  <2>2. CASE j < n
    BY <2>2
  <2> QED
    BY <1>0, <2>1, <2>2
<1>3. ReenteredBetween(st, i, j)
  BY <1>1, <1>2 DEF Guarded
<1>4. PICK k \in 1 .. Len(st) : i <= k /\ k < j /\ Reenters(st[k])
  BY <1>3 DEF ReenteredBetween
<1>5. k \in 1 .. Len(sr) /\ sr[k] = st[k]
  BY <1>0, <1>4
<1> QED
  BY <1>4, <1>5 DEF ReenteredBetween

\* A sample may begin anywhere, and anything below which nothing holds a stream.
LEMMA PushGuarded ==
    ASSUME NEW st \in Seq(Frames), Guarded(st), NEW f \in Frames,
           \/ f.do = "stream"
           \/ st = << >>
           \/ Reenters(st[Len(st)])
           \/ ~Holds(st[Len(st)])
    PROVE  Guarded(Push(st, f))
<1> DEFINE sr == Push(st, f)
<1>1. /\ Len(sr) = Len(st) + 1 /\ Len(st) \in Nat
      /\ \A i \in 1 .. Len(st) : sr[i] = st[i]
      /\ sr[Len(st) + 1] = f
  BY PushType
<1> HIDE DEF sr
<1> SUFFICES ASSUME NEW i \in 1 .. Len(sr), NEW j \in 1 .. Len(sr),
                    i < j, Holds(sr[i]), sr[j].do # "stream"
             PROVE  ReenteredBetween(sr, i, j)
  BY DEF Guarded, sr
<1>2. i \in 1 .. Len(st) /\ sr[i] = st[i]
  BY <1>1
<1>3. CASE j \in 1 .. Len(st)
  <2>1. ReenteredBetween(st, i, j)
    BY <1>1, <1>2, <1>3 DEF Guarded
  <2> QED
    BY <1>1, <2>1 DEF ReenteredBetween
<1>4. CASE j = Len(st) + 1
  <2>1. Len(st) \in 1 .. Len(st) /\ st # << >> /\ f.do # "stream"
    BY <1>1, <1>2, <1>4
  <2>2. CASE Reenters(st[Len(st)])
    BY <1>1, <1>2, <1>4, <2>1, <2>2 DEF ReenteredBetween
  <2>3. CASE ~Holds(st[Len(st)])
    <3>1. i < Len(st) /\ st[Len(st)].do # "stream"
      BY <1>1, <1>2, <2>1, <2>3 DEF Holds
    <3>2. ReenteredBetween(st, i, Len(st))
      BY <1>2, <2>1, <3>1 DEF Guarded
    <3> QED
      BY <1>1, <1>4, <3>2 DEF ReenteredBetween
  <2> QED
    BY <2>1, <2>2, <2>3
<1> QED
  BY <1>1, <1>3, <1>4

\* An activation that ends leaves the others as they were.
LEMMA PopGuarded ==
    ASSUME NEW st \in Seq(Frames), st # << >>, Guarded(st)
    PROVE  Guarded(Pop(st))
<1>1. /\ Pop(st) \in Seq(Frames) /\ Len(Pop(st)) = Len(st) - 1
      /\ \A i \in 1 .. Len(st) - 1 : Pop(st)[i] = st[i]
  BY PopType
<1>2. Len(st) \in Nat /\ Len(st) \in 1 .. Len(st)
  BY TopType
<1> QED
  BY <1>1, <1>2, SameBelowIsGuarded

\* So does one that is not a sample and goes on.
LEMMA ReplaceGuarded ==
    ASSUME NEW st \in Seq(Frames), st # << >>, Guarded(st), NEW f \in Frames,
           st[Len(st)].do # "stream"
    PROVE  Guarded(Replace(st, f))
<1>1. /\ Replace(st, f) \in Seq(Frames) /\ Len(Replace(st, f)) = Len(st)
      /\ \A i \in 1 .. Len(st) - 1 : Replace(st, f)[i] = st[i]
      /\ Len(st) \in Nat
  BY ReplaceType
<1> QED
  BY <1>1, SameBelowIsGuarded

\* An entry that is erased takes the iterations that stand at it with it.
LEMMA ErasingGuarded ==
    ASSUME NEW st \in Seq(Frames), Guarded(st), NEW ids
    PROVE  Guarded(Erasing(st, ids))
<1> DEFINE sr == Erasing(st, ids)
<1>1. Len(sr) = Len(st) /\ DOMAIN st = 1 .. Len(st)
  BY DEF Erasing
<1>2. \A i \in 1 .. Len(st) :
        \/ sr[i] = st[i]
        \/ st[i].do = "check" /\ sr[i].do = "dangling"
  <2> SUFFICES ASSUME NEW i \in 1 .. Len(st), sr[i] # st[i]
               PROVE  st[i].do = "check" /\ sr[i].do = "dangling"
    OBVIOUS
  <2>1. st[i] \in Frames
    OBVIOUS
  <2> QED
    BY <1>1, <2>1 DEF Erasing, Frames
<1> HIDE DEF sr
<1> SUFFICES ASSUME NEW i \in 1 .. Len(sr), NEW j \in 1 .. Len(sr),
                    i < j, Holds(sr[i]), sr[j].do # "stream"
             PROVE  ReenteredBetween(sr, i, j)
  BY DEF Guarded, sr
<1>3. sr[i] = st[i] /\ st[j].do # "stream"
  BY <1>1, <1>2 DEF Holds
<1>4. ReenteredBetween(st, i, j)
  BY <1>1, <1>3 DEF Guarded
<1>5. \A k \in 1 .. Len(st) : Reenters(st[k]) => sr[k] = st[k]
  BY <1>2 DEF Reenters
<1> QED
  BY <1>1, <1>4, <1>5 DEF ReenteredBetween

\* A sample may begin anywhere.
LEMMA StreamResourceGuarded ==
    ASSUME NEW st \in Seq(Frames), Guarded(st), NEW s \in StreamIds, NEW r \in Resources
    PROVE  Guarded(StreamResource(st, s, r))
<1>1. Frame("stream", s, r) \in Frames /\ Frame("stream", s, r).do = "stream"
  BY FrameTypes DEF Frame
<1> QED
  BY <1>1, PushGuarded DEF StreamResource

\* What begins in a callback that goes back, or where no stream is held.
Open(st) == st = << >> \/ Reenters(st[Len(st)]) \/ ~Holds(st[Len(st)])

\* The end of a session, called from there.
LEMMA DisconnectGuarded ==
    ASSUME NEW st \in Seq(Frames), Guarded(st), Open(st), Disconnect(st) \/ Clear(st)
    PROVE  Guarded(stack')
<1>1. CASE Clear(st)
  BY <1>1, ErasingGuarded DEF Clear
<1>2. CASE Disconnect(st) /\ connected
  BY <1>2, FrameTypes, PushGuarded DEF Disconnect, Open
<1>3. CASE Disconnect(st) /\ ~connected
  BY <1>1, <1>3 DEF Disconnect
<1> QED
  BY <1>1, <1>2, <1>3

\* A message is handled in the receive loop or in a call.
LEMMA HandleMessageGuarded ==
    ASSUME TypeOK, NEW st \in Seq(Frames), Guarded(st), Open(st), NEW m \in Requests,
           HandleMessage(st, m)
    PROVE  Guarded(stack')
<1>1. CASE stack' = st
  BY <1>1
<1>2. CASE m.type = "RUN" /\ m.resource # NoResource /\ HandleRun(st, m)
  BY <1>2, RequestType, FrameTypes, PushGuarded DEF HandleRun, Open
<1>3. CASE m.type = "DESCRIBE" /\ m.resource # NoResource /\ HandleDescribe(st, m)
  BY <1>3, RequestType, FrameTypes, PushGuarded DEF HandleDescribe, Open
<1>4. CASE m.type = "START_STREAM" /\ m.resource # NoResource /\ HandleStartStream(st, m)
  BY <1>4, RequestType, StreamResourceGuarded DEF HandleStartStream
<1>5. CASE m.type = "STOP_STREAM" /\ HandleStopStream(st, m)
  BY <1>5, ErasingGuarded DEF HandleStopStream
<1>6. CASE m.type = "STREAM_DATA" /\ HandleStreamData(st, m)
  BY <1>6, ActiveType, FrameTypes, PushGuarded DEF HandleStreamData, Open
<1>7. CASE m.type = "DISCONNECT" /\ Disconnect(st)
  BY <1>7, DisconnectGuarded
<1> QED
  BY <1>1, <1>2, <1>3, <1>4, <1>5, <1>6, <1>7 DEF HandleMessage, HandleRequest, NoSuchResource

\* The application goes back from its own loop, the state callback or a resource's.
LEMMA UseIsOpen ==
    ASSUME TypeOK, Permitted("disconnect") \/ Permitted("call")
    PROVE  Open(stack)
BY DEF Permitted, TopIs, Top, ResourceCallbacks, Open, Reenters, Holds

\* What the callbacks do with the client never changes.
LEMMA MayKept == [Next]_vars => may' = may
BY DEF Next, vars, Connect, HandleStarts, LoopReads, LoopFails, LoopEnds, CheckNext, CheckEnds,
       CheckDangling, CallbackReturns, RunReturns, DescribeReturns, DataReturns, StreamReturns,
       DropReturns, AppDisconnects, AppStreams, AppCalls, CallStep, CallReadsAnswer,
       CallReadsNothing, CallReadsRequest, CallReadsOther, Return, ServerAnswers, Quietly,
       HandleMessage, HandleRequest

\* What follows a callback.
LEMMA CallbackReturnsGuarded ==
    ASSUME TypeOK, Guarded(stack), CallbackReturns
    PROVE  Guarded(stack')
<1>0. /\ stack \in Seq(Frames) /\ stack # << >>
      /\ stream_id \in [Resources -> StreamIds \cup {0}]
  BY DEF TypeOK, CallbackReturns, RunReturns, DescribeReturns, DataReturns, StreamReturns,
         DropReturns, TopIs
<1>1. Pop(stack) \in Seq(Frames) /\ Guarded(Pop(stack)) /\ Top \in Frames
  BY <1>0, PopType, PopGuarded, TopType DEF Top
<1>2. CASE RunReturns
  <2>1. Top.resource \in Resources
    BY <1>1, <1>2 DEF RunReturns, TopIs, Frames
  <2>2. stream_enabled(Top.resource) => stream_id[Top.resource] \in StreamIds
    BY <1>0, <2>1 DEF stream_enabled
  <2> QED
    BY <1>1, <1>2, <2>1, <2>2, StreamResourceGuarded DEF RunReturns
<1>3. CASE DescribeReturns \/ StreamReturns
  BY <1>1, <1>3 DEF DescribeReturns, StreamReturns
<1>4. CASE DataReturns
  <2>1. Top.resource \in Resources /\ Top.stream \in StreamIds
    BY <1>1, <1>4 DEF DataReturns, TopIs, Frames
  <2> QED
    BY <1>1, <1>4, <2>1, StreamResourceGuarded DEF DataReturns
<1>5. CASE DropReturns
  BY <1>1, <1>5, ErasingGuarded DEF DropReturns, Clear
<1> QED
  BY <1>2, <1>3, <1>4, <1>5 DEF CallbackReturns

\* A read of a call is handled on a frame of the call.
LEMMA AttemptedGuarded ==
    ASSUME TypeOK, Guarded(stack), Awaits
    PROVE  Attempted \in Seq(Frames) /\ Guarded(Attempted) /\ Open(Attempted)
<1> DEFINE f == [Top EXCEPT !.attempts = @ + 1]
<1>1. stack \in Seq(Frames) /\ stack # << >> /\ Top = stack[Len(stack)] /\ Top.do = "call"
  BY DEF TypeOK, Awaits, TopIs, Top
<1>2. Attempted \in Seq(Frames) /\ f \in Frames /\ Attempted = Replace(stack, f)
  BY AttemptedType DEF Attempted
<1>3. f.do = "call"
  <2>1. Top \in Frames
    BY <1>1, TopType
  <2> QED
    BY <1>1, <2>1 DEF Frames
<1> HIDE DEF f
<1>4. Guarded(Attempted)
  BY <1>1, <1>2, ReplaceGuarded
<1>5. Attempted[Len(Attempted)] = f
  <2>1. /\ Len(Replace(stack, f)) = Len(stack)
        /\ Replace(stack, f)[Len(stack)] = f
    BY <1>1, <1>2, ReplaceType
  <2> QED
    BY <1>2, <2>1
<1> QED
  BY <1>2, <1>3, <1>4, <1>5 DEF Open, Holds

\* Every step guards what activations hold.
LEMMA NextGuarded == TypeOK /\ Guarded(stack) /\ [Next]_vars => Guarded(stack)'
<1> SUFFICES ASSUME TypeOK, Guarded(stack), [Next]_vars PROVE Guarded(stack')
  BY MayKept DEF Guarded, ReenteredBetween, Reenters
<1>0. stack \in Seq(Frames)
  BY DEF TypeOK
<1>1. CASE Connect \/ ServerAnswers \/ UNCHANGED vars
  BY <1>1 DEF Connect, ServerAnswers, vars
<1>2. CASE HandleStarts
  BY <1>0, <1>2, FrameTypes, PushGuarded DEF HandleStarts
<1>3. CASE LoopReads
  BY <1>0, <1>3, HandleMessageGuarded DEF LoopReads, TopIs, Top, Open, Holds
<1>4. CASE LoopFails
  <2> DEFINE f == Frame("drop", 0, NoResource)
  <2>1. stack # << >> /\ stack[Len(stack)].do = "loop" /\ stack' = Push(Pop(stack), f)
    BY <1>4 DEF LoopFails, TopIs, Top, Disconnect
  <2>2. f \in Frames
    BY FrameTypes
  <2> HIDE DEF f
  <2>3. /\ Pop(stack) \in Seq(Frames) /\ Len(Pop(stack)) = Len(stack) - 1
        /\ \A i \in 1 .. Len(stack) - 1 : Pop(stack)[i] = stack[i]
    BY <1>0, <2>1, PopType
  <2>4. /\ Push(Pop(stack), f) \in Seq(Frames)
        /\ Len(Push(Pop(stack), f)) = Len(Pop(stack)) + 1
        /\ \A i \in 1 .. Len(Pop(stack)) : Push(Pop(stack), f)[i] = Pop(stack)[i]
    BY <2>2, <2>3, PushType
  <2>5. Len(stack) \in Nat
    BY <1>0
  <2> DEFINE sr == Push(Pop(stack), f)
  <2>6. sr \in Seq(Frames) /\ Len(sr) = Len(stack) /\ \A i \in 1 .. Len(stack) - 1 : sr[i] = stack[i]
    BY <2>3, <2>4, <2>5
  <2> HIDE DEF sr
  <2>7. Guarded(sr)
    BY <1>0, <2>1, <2>5, <2>6, SameBelowIsGuarded
  <2> QED
    BY <2>1, <2>7 DEF sr
<1>5. CASE LoopEnds
  BY <1>0, <1>5, FrameTypes, ReplaceGuarded DEF LoopEnds, TopIs, Top
<1>6. CASE CheckNext
  <2>1. PICK s \in Later, due \in BOOLEAN :
          stack' = LET here == Replace(stack, Frame("check", s, NoResource))
                   IN  IF due THEN StreamResource(here, s, streams[s]) ELSE here
    BY <1>6 DEF CheckNext
  <2>2. s \in StreamIds /\ streams[s] \in Resources
    BY <2>1, ActiveType DEF Later
  <2> DEFINE here == Replace(stack, Frame("check", s, NoResource))
  <2>3. here \in Seq(Frames) /\ Guarded(here)
    BY <1>0, <1>6, <2>2, FrameTypes, ReplaceType, ReplaceGuarded DEF CheckNext, TopIs, Top
  <2>4. stack' \in {here, StreamResource(here, s, streams[s])}
    BY <2>1
  <2> HIDE DEF here
  <2> QED
    BY <2>2, <2>3, <2>4, StreamResourceGuarded
<1>7. CASE CheckEnds
  BY <1>0, <1>7, PopGuarded DEF CheckEnds, TopIs
<1>8. CASE CheckDangling
  <2>1. stack # << >> /\ stack[Len(stack)].do # "stream"
    BY <1>8 DEF CheckDangling, TopIs, Top
  <2>2. \A s \in StreamIds : Guarded(Replace(stack, Frame("check", s, NoResource)))
    BY <1>0, <2>1, FrameTypes, ReplaceGuarded
  <2>3. Guarded(Pop(stack))
    BY <1>0, <2>1, PopGuarded
  <2> QED
    BY <1>8, <2>2, <2>3 DEF CheckDangling
<1>9. CASE CallbackReturns
  BY <1>9, CallbackReturnsGuarded
<1>10. CASE AppDisconnects
  BY <1>0, <1>10, UseIsOpen, DisconnectGuarded DEF AppDisconnects
<1>11. CASE AppStreams
  <2>1. PICK r \in Resources :
          stream_enabled(r) /\ stack' = StreamResource(stack, stream_id[r], r)
    BY <1>11 DEF AppStreams
  <2>2. stream_id[r] \in StreamIds
    BY <2>1 DEF stream_enabled, TypeOK
  <2> QED
    BY <1>0, <2>1, <2>2, StreamResourceGuarded
<1>12. CASE AppCalls
  <2>1. Open(stack)
    BY <1>12, UseIsOpen DEF AppCalls
  <2>2. stack' \in {stack, Push(stack, Frame("call", 0, NoResource))}
    BY <1>12 DEF AppCalls
  <2> QED
    BY <1>0, <2>1, <2>2, FrameTypes, PushGuarded DEF Open
<1>13. CASE CallStep
  <2>1. CASE CallReadsAnswer \/ CallReadsNothing
    BY <1>0, <2>1, PopGuarded DEF CallReadsAnswer, CallReadsNothing, Return, Awaits, TopIs
  <2>2. CASE CallReadsRequest
    BY <2>2, AttemptedGuarded, HandleMessageGuarded DEF CallReadsRequest
  <2>3. CASE CallReadsOther
    BY <2>3, AttemptedGuarded DEF CallReadsOther
  <2> QED
    BY <1>13, <2>1, <2>2, <2>3 DEF CallStep
<1> QED
  BY <1>1, <1>2, <1>3, <1>4, <1>5, <1>6, <1>7, <1>8, <1>9, <1>10, <1>11, <1>12, <1>13 DEF Next

(***************************************************************************)
(* In any application, what an iteration, a sample or a handler goes on    *)
(* with is taken from it only by a callback of a stream, its own or one    *)
(* above it, that disconnects or calls the server: every step is one that  *)
(* StreamsAreTakenFromWithin allows.                                       *)
(***************************************************************************)
THEOREM StreamsAlwaysTakenFromWithin == Spec => StreamsAreTakenFromWithin
<1> DEFINE Taken(i) ==
             /\ stack[i].do \in {"check", "stream", "data"}
             /\ stack[i].stream \in Active
             /\ streams'[stack[i].stream] # streams[stack[i].stream]
<1>1. /\ TypeOK /\ Guarded(stack) /\ [Next]_vars
      => [\A i \in DOMAIN stack :
            Taken(i) => \E k \in i .. Len(stack) : Reenters(stack[k])]_vars
  <2> SUFFICES ASSUME TypeOK, Guarded(stack), Next, NEW i \in DOMAIN stack, Taken(i)
               PROVE  \E k \in i .. Len(stack) : Reenters(stack[k])
    OBVIOUS
  <2>0. /\ stack \in Seq(Frames) /\ stack # << >> /\ i \in 1 .. Len(stack)
        /\ Len(stack) \in 1 .. Len(stack) /\ Top = stack[Len(stack)]
        /\ Holds(stack[i]) /\ streams' # streams
    <3>1. stack \in Seq(Frames) /\ i \in 1 .. Len(stack)
      BY DEF TypeOK
    <3>2. stack # << >>
      BY <3>1
    <3> QED
      BY <3>1, <3>2, TopType DEF Top, Holds
  <2> HIDE DEF Taken
  <2>1. Open(stack)
    <3>1. CASE LoopReads \/ CallReadsRequest \/ DropReturns
      BY <2>0, <3>1 DEF LoopReads, CallReadsRequest, DropReturns, Awaits, TopIs, Open, Holds
    <3>2. CASE AppDisconnects
      BY <3>2, UseIsOpen DEF AppDisconnects
    <3>3. CASE LoopFails
      BY <2>0, <3>3 DEF LoopFails, Disconnect
    <3> QED
      BY <2>0, <3>1, <3>2, <3>3
      DEF Next, Connect, HandleStarts, LoopEnds, CheckNext, CheckEnds, CheckDangling,
          CallbackReturns, RunReturns, DescribeReturns, DataReturns, StreamReturns, AppStreams,
          AppCalls, CallStep, CallReadsAnswer, CallReadsNothing, CallReadsOther, Return,
          ServerAnswers
  <2>2. CASE Reenters(stack[Len(stack)])
    BY <2>0, <2>2
  <2>3. CASE ~Holds(stack[Len(stack)])
    <3>1. i < Len(stack) /\ stack[Len(stack)].do # "stream"
      BY <2>0, <2>3 DEF Holds
    <3>2. ReenteredBetween(stack, i, Len(stack))
      BY <2>0, <3>1 DEF Guarded
    <3> QED
      BY <2>0, <3>2 DEF ReenteredBetween
  <2> QED
    BY <2>0, <2>1, <2>2, <2>3 DEF Open
<1>2. Init => Guarded(stack)
  BY DEF Init, Guarded
<1> QED
  BY <1>1, <1>2, InitType, NextType, NextGuarded, PTL DEF Spec, StreamsAreTakenFromWithin

-----------------------------------------------------------------------------
(***************************************************************************)
(* Quiet applications.  An activation is exposed while it holds an entry   *)
(* or an id of streams_ that the sampling above it must not see erased.    *)
(* In a quiet application only sampling runs above an exposed activation,  *)
(* so whoever erases an entry or calls the server finds none on the stack. *)
(***************************************************************************)
Exposed(f) == f.do \in {"stream", "check"} \/ (f.do = "data" /\ HasData(f.resource))

\* A stack in which streams str are used as they should be.
Sound(st, str) ==
    /\ \A i \in 1 .. Len(st) : st[i].do # "dangling"
    /\ \A i \in 1 .. Len(st) : st[i].do = "stream" => HasData(st[i].resource)
    /\ \A i \in 1 .. Len(st) :
         Exposed(st[i]) /\ st[i].do # "check" => str[st[i].stream] = st[i].resource
    /\ \A i, j \in 1 .. Len(st) : i < j /\ Exposed(st[i]) => st[j].do = "stream"

\* A stack without an exposed activation.
Free(st) == \A i \in 1 .. Len(st) : st[i].do # "dangling" /\ ~Exposed(st[i])

QuietInv == Quiet => Sound(stack, streams)

\* Without an exposed activation any entry may be erased.
LEMMA FreeIsSound ==
    ASSUME NEW st \in Seq(Frames), Free(st), NEW str
    PROVE  Sound(st, str)
BY DEF Free, Sound, Exposed

\* ... and no iteration stands at one.
LEMMA FreeErasing ==
    ASSUME NEW st \in Seq(Frames), Free(st), NEW ids, NEW str
    PROVE  Sound(Erasing(st, ids), str)
<1>1. \A i \in 1 .. Len(st) : Erasing(st, ids)[i] = st[i]
  BY DEF Free, Exposed, Erasing
<1>2. Len(Erasing(st, ids)) = Len(st)
  BY DEF Erasing
<1> QED
  BY <1>1, <1>2 DEF Free, Sound, Exposed

\* Below an activation that does not sample, none is exposed.
LEMMA SoundIsFree ==
    ASSUME NEW st \in Seq(Frames), NEW str, Sound(st, str),
           st = << >> \/ ~Exposed(st[Len(st)])
    PROVE  Free(st)
<1>1. SUFFICES ASSUME NEW i \in 1 .. Len(st) PROVE st[i].do # "dangling" /\ ~Exposed(st[i])
  BY DEF Free
<1>2. Len(st) \in 1 .. Len(st) /\ st # << >>
  BY <1>1
<1>3. st[Len(st)].do # "stream"
  BY <1>2 DEF Exposed
<1>4. CASE i = Len(st)
  BY <1>1, <1>2, <1>4 DEF Sound
<1>5. CASE i < Len(st)
  BY <1>1, <1>2, <1>3, <1>5 DEF Sound
<1> QED
  BY <1>1, <1>4, <1>5

\* An activation that ends leaves a sound stack.
LEMMA PopSound ==
    ASSUME NEW st \in Seq(Frames), st # << >>, NEW str, Sound(st, str)
    PROVE  Sound(Pop(st), str)
<1>1. Len(Pop(st)) = Len(st) - 1 /\ \A i \in 1 .. Len(st) - 1 : Pop(st)[i] = st[i]
  BY PopType
<1>2. Len(st) \in Nat
  OBVIOUS
<1> QED
  BY <1>1, <1>2 DEF Sound, Exposed

\* Below an activation that is not stream_resource() none is exposed.
LEMMA PopFree ==
    ASSUME NEW st \in Seq(Frames), st # << >>, NEW str, Sound(st, str),
           st[Len(st)].do # "stream"
    PROVE  Free(Pop(st))
<1>1. Len(Pop(st)) = Len(st) - 1 /\ \A i \in 1 .. Len(st) - 1 : Pop(st)[i] = st[i]
  BY PopType
<1>2. Len(st) \in Nat /\ Len(st) \in 1 .. Len(st)
  BY TopType
<1> QED
  BY <1>1, <1>2 DEF Sound, Free, Exposed

\* Sampling may begin anywhere, on a stream open for the resource.
LEMMA StreamResourceSound ==
    ASSUME NEW st \in Seq(Frames), NEW str, Sound(st, str),
           NEW s \in StreamIds, NEW r \in Resources, str[s] = r
    PROVE  Sound(StreamResource(st, s, r), str)
<1>1. CASE ~HasData(r)
  BY <1>1 DEF StreamResource
<1>2. CASE HasData(r)
  <2> DEFINE f == Frame("stream", s, r)
  <2>1. f \in Frames /\ f.do = "stream" /\ f.stream = s /\ f.resource = r
    BY FrameTypes DEF Frame
  <2>2. /\ Len(Push(st, f)) = Len(st) + 1 /\ Len(st) \in Nat
        /\ \A i \in 1 .. Len(st) : Push(st, f)[i] = st[i]
        /\ Push(st, f)[Len(st) + 1] = f
    BY <2>1, PushType
  <2>3. StreamResource(st, s, r) = Push(st, f)
    BY <1>2 DEF StreamResource
  <2> HIDE DEF f
  <2> QED
    BY <1>2, <2>1, <2>2, <2>3 DEF Sound, Exposed
<1> QED
  BY <1>1, <1>2

\* Any other activation may begin where none is exposed.
LEMMA PushSound ==
    ASSUME NEW st \in Seq(Frames), Free(st), NEW str, NEW f \in Frames,
           f.do \notin {"stream", "dangling"},
           f.do = "data" => str[f.stream] = f.resource
    PROVE  Sound(Push(st, f), str)
<1>1. /\ Len(Push(st, f)) = Len(st) + 1 /\ Len(st) \in Nat
      /\ \A i \in 1 .. Len(st) : Push(st, f)[i] = st[i]
      /\ Push(st, f)[Len(st) + 1] = f
  BY PushType
<1> QED
  BY <1>1 DEF Sound, Free, Exposed

\* handle() and the calls go on where none is exposed below them.
LEMMA ReplaceSound ==
    ASSUME NEW st \in Seq(Frames), st # << >>, NEW str, Sound(st, str), NEW f \in Frames,
           st[Len(st)].do # "stream", f.do \in {"check", "call"}
    PROVE  /\ Sound(Replace(st, f), str)
           /\ f.do = "call" => Free(Replace(st, f))
<1>1. /\ Len(Replace(st, f)) = Len(st) /\ Len(st) \in Nat
      /\ \A i \in 1 .. Len(st) - 1 : Replace(st, f)[i] = st[i]
      /\ Replace(st, f)[Len(st)] = f
  BY ReplaceType
<1>2. Len(st) \in 1 .. Len(st)
  BY TopType
<1>3. \A i \in 1 .. Len(st) - 1 : st[i].do # "dangling" /\ ~Exposed(st[i])
  BY <1>1, <1>2 DEF Sound
<1> QED
  BY <1>1, <1>2, <1>3 DEF Sound, Free, Exposed

\* The end of a session where none is exposed.
LEMMA DisconnectSound ==
    ASSUME NEW st \in Seq(Frames), Free(st), Disconnect(st) \/ Clear(st)
    PROVE  Sound(stack', streams')
<1>1. CASE Clear(st)
  BY <1>1, FreeErasing DEF Clear
<1>2. CASE Disconnect(st) /\ connected
  <2> DEFINE f == Frame("drop", 0, NoResource)
  <2>1. f \in Frames /\ f.do = "drop"
    BY FrameTypes DEF Frame
  <2>2. stack' = Push(st, f)
    BY <1>2 DEF Disconnect
  <2> HIDE DEF f
  <2> QED
    BY <2>1, <2>2, PushSound
<1>3. CASE Disconnect(st) /\ ~connected
  BY <1>1, <1>3 DEF Disconnect
<1> QED
  BY <1>1, <1>2, <1>3

\* What a message of the server begins is sound where none is exposed.
LEMMA HandleMessageSound ==
    ASSUME TypeOK, NEW st \in Seq(Frames), Free(st), NEW m \in Requests, HandleMessage(st, m)
    PROVE  Sound(stack', streams')
<1>0. /\ streams \in [StreamIds -> Resources \cup {NoResource}]
      /\ NoResource \notin Resources
      /\ Sound(st, streams) /\ Sound(st, streams')
  BY ResourcesAssumption, FreeIsSound DEF TypeOK
<1>1. CASE NoSuchResource(st, m)
  BY <1>0, <1>1 DEF NoSuchResource
<1>2. CASE m.type = "RUN" /\ m.resource # NoResource /\ HandleRun(st, m)
  <2>1. Frame("run", m.stream, m.resource) \in Frames /\ m.resource \in Resources
    BY <1>2, RequestType, FrameTypes
  <2>2. Frame("run", m.stream, m.resource).do = "run"
    BY DEF Frame
  <2>3. stack' = Push(st, Frame("run", m.stream, m.resource))
    BY <1>2 DEF HandleRun
  <2> QED
    BY <2>1, <2>2, <2>3, PushSound
<1>3. CASE m.type = "DESCRIBE" /\ m.resource # NoResource /\ HandleDescribe(st, m)
  <2>1. Frame("describe", m.stream, m.resource) \in Frames /\ m.resource \in Resources
    BY <1>3, RequestType, FrameTypes
  <2>2. Frame("describe", m.stream, m.resource).do = "describe"
    BY DEF Frame
  <2>3. stack' \in {st, Push(st, Frame("describe", m.stream, m.resource))}
    BY <1>3 DEF HandleDescribe
  <2> QED
    BY <1>0, <2>1, <2>2, <2>3, PushSound
<1>4. CASE m.type = "START_STREAM" /\ m.resource # NoResource /\ HandleStartStream(st, m)
  <2>1. m.stream \in StreamIds /\ m.resource \in Resources
    BY <1>4, RequestType
  <2>2. streams'[m.stream] = m.resource
    BY <1>0, <1>4, <2>1 DEF HandleStartStream
  <2>3. stack' = StreamResource(st, m.stream, m.resource)
    BY <1>4 DEF HandleStartStream
  <2> QED
    BY <1>0, <2>1, <2>2, <2>3, StreamResourceSound
<1>5. CASE m.type = "STOP_STREAM" /\ HandleStopStream(st, m)
  BY <1>5, FreeErasing DEF HandleStopStream
<1>6. CASE m.type = "STREAM_DATA" /\ HandleStreamData(st, m)
  <2>1. CASE m.stream \notin Active
    BY <1>0, <1>6, <2>1 DEF HandleStreamData
  <2>2. CASE m.stream \in Active
    <3> DEFINE f == Frame("data", m.stream, streams[m.stream])
    <3>1. f \in Frames
      BY <2>2, ActiveType, FrameTypes
    <3>2. f.do = "data" /\ f.stream = m.stream /\ f.resource = streams[m.stream]
      BY DEF Frame
    <3>3. stack' = Push(st, f) /\ streams' = streams
      BY <1>6, <2>2 DEF HandleStreamData
    <3> HIDE DEF f
    <3> QED
      BY <3>1, <3>2, <3>3, PushSound
  <2> QED
    BY <2>1, <2>2
<1>7. CASE m.type = "KEEP_ALIVE" /\ stack' = st
  BY <1>0, <1>7
<1>8. CASE m.type = "DISCONNECT" /\ Disconnect(st)
  BY <1>8, DisconnectSound
<1> QED
  BY <1>1, <1>2, <1>3, <1>4, <1>5, <1>6, <1>7, <1>8 DEF HandleMessage, HandleRequest

\* An application that goes back into the client leaves none exposed.
LEMMA UseIsFree ==
    ASSUME TypeOK, Quiet, Sound(stack, streams), Permitted("disconnect") \/ Permitted("call")
    PROVE  Free(stack)
<1>0. stack \in Seq(Frames)
  BY DEF TypeOK
<1>1. CASE stack = << >>
  BY <1>0, <1>1, SoundIsFree
<1>2. CASE stack # << >> /\ Top.do = "drop"
  BY <1>0, <1>2, SoundIsFree DEF Top, Exposed
<1>3. CASE stack # << >> /\ Top.do \in ResourceCallbacks
  <2>1. Top \in Frames /\ Len(stack) \in 1 .. Len(stack) /\ Top = stack[Len(stack)]
    BY <1>0, <1>3, TopType DEF Top
  <2>2. Top.resource \in Resources
    BY <1>3, <2>1 DEF ResourceCallbacks, Frames
  <2>3. CASE Top.do # "stream" /\ ~HasData(Top.resource)
    BY <1>0, <1>3, <2>1, <2>3, SoundIsFree DEF Exposed, ResourceCallbacks
  <2>4. CASE HasData(Top.resource)
    <3>1. may[Top.resource] \subseteq {"stream"}
      BY <2>2, <2>4 DEF Quiet
    <3> QED
      BY <1>3, <3>1 DEF Permitted, TopIs, ResourceCallbacks
  <2>5. Top.do = "stream" => HasData(Top.resource)
    BY <2>1 DEF Sound
  <2> QED
    BY <2>3, <2>4, <2>5
<1> QED
  BY <1>1, <1>2, <1>3 DEF Permitted, TopIs

\* What follows a callback is sound.
LEMMA CallbackReturnsSound ==
    ASSUME TypeOK, StreamIdsAgree, Sound(stack, streams), CallbackReturns
    PROVE  Sound(stack', streams')
<1>0. /\ stack \in Seq(Frames) /\ stack # << >>
      /\ stream_id \in [Resources -> StreamIds \cup {0}]
  BY DEF TypeOK, CallbackReturns, RunReturns, DescribeReturns, DataReturns, StreamReturns,
         DropReturns, TopIs
<1>1. /\ Pop(stack) \in Seq(Frames) /\ Top \in Frames
      /\ Top = stack[Len(stack)] /\ Len(stack) \in 1 .. Len(stack)
      /\ Sound(Pop(stack), streams)
  BY <1>0, PopType, PopSound, TopType DEF Top
<1>2. CASE RunReturns
  <2>1. Top.resource \in Resources
    BY <1>1, <1>2 DEF RunReturns, TopIs, Frames
  <2>2. stream_enabled(Top.resource) =>
          /\ stream_id[Top.resource] \in StreamIds
          /\ streams[stream_id[Top.resource]] = Top.resource
    BY <1>0, <2>1 DEF stream_enabled, StreamIdsAgree
  <2>3. Sound(stack', streams)
    BY <1>1, <1>2, <2>1, <2>2, StreamResourceSound DEF RunReturns
  <2> QED
    BY <1>2, <2>3 DEF RunReturns
<1>3. CASE DescribeReturns \/ StreamReturns
  BY <1>1, <1>3 DEF DescribeReturns, StreamReturns
<1>4. CASE DataReturns
  <2>1. Top.resource \in Resources /\ Top.stream \in StreamIds /\ Top.do = "data"
    BY <1>1, <1>4 DEF DataReturns, TopIs, Frames
  <2>2. CASE HasData(Top.resource)
    <3>1. streams[Top.stream] = Top.resource
      BY <1>1, <2>1, <2>2 DEF Sound, Exposed
    <3>2. Sound(stack', streams)
      BY <1>1, <1>4, <2>1, <3>1, StreamResourceSound DEF DataReturns
    <3> QED
      BY <1>4, <3>2 DEF DataReturns
  <2>3. CASE ~HasData(Top.resource)
    BY <1>1, <1>4, <2>3 DEF DataReturns, StreamResource
  <2> QED
    BY <2>2, <2>3
<1>5. CASE DropReturns
  <2>1. Free(Pop(stack))
    BY <1>0, <1>1, <1>5, PopFree DEF DropReturns, TopIs
  <2> QED
    BY <1>1, <1>5, <2>1, DisconnectSound DEF DropReturns
<1> QED
  BY <1>2, <1>3, <1>4, <1>5 DEF CallbackReturns

\* A step of a call is sound.
LEMMA CallStepSound ==
    ASSUME TypeOK, Sound(stack, streams), CallStep
    PROVE  Sound(stack', streams')
<1>0. stack \in Seq(Frames) /\ stack # << >> /\ Top.do = "call" /\ Top = stack[Len(stack)]
  BY DEF TypeOK, CallStep, CallReadsAnswer, CallReadsNothing, CallReadsRequest, CallReadsOther,
         Awaits, TopIs, Top
<1>1. CASE CallReadsAnswer \/ CallReadsNothing
  <2>1. Sound(Pop(stack), streams)
    BY <1>0, PopSound
  <2> QED
    BY <1>1, <2>1 DEF CallReadsAnswer, CallReadsNothing, Return
<1>2. CASE CallReadsRequest \/ CallReadsOther
  <2> DEFINE f == [Top EXCEPT !.attempts = @ + 1]
  <2>1. Attempted \in Seq(Frames) /\ f \in Frames /\ Attempted = Replace(stack, f)
    BY <1>2, AttemptedType DEF CallReadsRequest, CallReadsOther, Attempted
  <2>2. f.do = "call"
    <3>1. Top \in Frames
      BY <1>0, TopType
    <3> QED
      BY <1>0, <3>1 DEF Frames
  <2> HIDE DEF f
  <2>3. Sound(Attempted, streams) /\ Free(Attempted)
    BY <1>0, <2>1, <2>2, ReplaceSound
  <2>4. CASE CallReadsRequest
    BY <2>1, <2>3, <2>4, HandleMessageSound DEF CallReadsRequest
  <2>5. CASE CallReadsOther
    BY <2>3, <2>5 DEF CallReadsOther
  <2> QED
    BY <1>2, <2>4, <2>5
<1> QED
  BY <1>1, <1>2 DEF CallStep

\* Every step of a quiet application is sound.
LEMMA NextQuiet == TypeOK /\ StreamIdsAgree /\ QuietInv /\ [Next]_vars => QuietInv'
<1> SUFFICES ASSUME TypeOK, StreamIdsAgree, QuietInv, [Next]_vars, Quiet' PROVE Sound(stack', streams')
  BY DEF QuietInv
<1>0. stack \in Seq(Frames) /\ Sound(stack, streams) /\ Quiet
  <2>1. may' = may
    BY MayKept
  <2> QED
    BY <2>1 DEF Quiet, QuietInv, TypeOK
<1>1. CASE Connect \/ ServerAnswers \/ UNCHANGED vars
  BY <1>0, <1>1 DEF Connect, ServerAnswers, vars
<1>2. CASE HandleStarts
  <2> DEFINE f == Frame("loop", 0, NoResource)
  <2>1. f \in Frames /\ f.do = "loop"
    BY FrameTypes DEF Frame
  <2>2. Free(stack)
    BY <1>0, <1>2, SoundIsFree DEF HandleStarts
  <2>3. stack' = Push(stack, f)
    BY <1>2 DEF HandleStarts
  <2> HIDE DEF f
  <2> QED
    BY <1>0, <2>1, <2>2, <2>3, PushSound
<1>3. CASE LoopReads
  <2>1. Free(stack)
    BY <1>0, <1>3, SoundIsFree DEF LoopReads, TopIs, Top, Exposed
  <2> QED
    BY <1>0, <1>3, <2>1, HandleMessageSound DEF LoopReads
<1>4. CASE LoopFails
  <2>1. Free(Pop(stack)) /\ Pop(stack) \in Seq(Frames)
    BY <1>0, <1>4, PopFree, PopType DEF LoopFails, TopIs, Top
  <2> QED
    BY <1>4, <2>1, DisconnectSound DEF LoopFails
<1>5. CASE LoopEnds
  <2> DEFINE f == Frame("check", 0, NoResource)
  <2>1. f \in Frames /\ f.do = "check"
    BY FrameTypes DEF Frame
  <2>2. stack' = Replace(stack, f) /\ streams' = streams
    BY <1>5 DEF LoopEnds
  <2> HIDE DEF f
  <2> QED
    BY <1>0, <1>5, <2>1, <2>2, ReplaceSound DEF LoopEnds, TopIs, Top
<1>6. CASE CheckNext
  <2>1. PICK s \in Later, due \in BOOLEAN :
          stack' = LET here == Replace(stack, Frame("check", s, NoResource))
                   IN  IF due THEN StreamResource(here, s, streams[s]) ELSE here
    BY <1>6 DEF CheckNext
  <2>2. s \in StreamIds /\ streams[s] \in Resources /\ streams' = streams
    BY <1>6, <2>1, ActiveType DEF Later, CheckNext
  <2> DEFINE f == Frame("check", s, NoResource)
  <2>3. f \in Frames /\ f.do = "check"
    BY <2>2, FrameTypes DEF Frame
  <2>4. stack' \in {Replace(stack, f), StreamResource(Replace(stack, f), s, streams[s])}
    BY <2>1
  <2> HIDE DEF f
  <2>5. Sound(Replace(stack, f), streams) /\ Replace(stack, f) \in Seq(Frames)
    BY <1>0, <1>6, <2>3, ReplaceSound, ReplaceType DEF CheckNext, TopIs, Top
  <2>6. Sound(StreamResource(Replace(stack, f), s, streams[s]), streams)
    BY <2>2, <2>5, StreamResourceSound
  <2> QED
    BY <2>2, <2>4, <2>5, <2>6
<1>7. CASE CheckEnds
  BY <1>0, <1>7, PopSound DEF CheckEnds, TopIs
<1>8. CASE CheckDangling
  <2>1. Len(stack) \in 1 .. Len(stack)
    BY <1>0, <1>8, TopType DEF CheckDangling, TopIs
  <2> QED
    BY <1>0, <1>8, <2>1 DEF CheckDangling, TopIs, Top, Sound
<1>9. CASE CallbackReturns
  BY <1>0, <1>9, CallbackReturnsSound
<1>10. CASE AppDisconnects
  BY <1>0, <1>10, UseIsFree, DisconnectSound DEF AppDisconnects
<1>11. CASE AppStreams
  <2>1. PICK r \in Resources :
          stream_enabled(r) /\ stack' = StreamResource(stack, stream_id[r], r)
    BY <1>11 DEF AppStreams
  <2>2. stream_id[r] \in StreamIds /\ streams[stream_id[r]] = r /\ streams' = streams
    BY <1>11, <2>1 DEF stream_enabled, StreamIdsAgree, TypeOK, AppStreams
  <2> QED
    BY <1>0, <2>1, <2>2, StreamResourceSound
<1>12. CASE AppCalls
  <2> DEFINE f == Frame("call", 0, NoResource)
  <2>1. f \in Frames /\ f.do = "call"
    BY FrameTypes DEF Frame
  <2>2. stack' \in {stack, Push(stack, f)} /\ streams' = streams
    BY <1>12 DEF AppCalls
  <2>3. Free(stack)
    BY <1>0, <1>12, UseIsFree DEF AppCalls
  <2> HIDE DEF f
  <2> QED
    BY <1>0, <2>1, <2>2, <2>3, PushSound
<1>13. CASE CallStep
  BY <1>0, <1>13, CallStepSound
<1> QED
  BY <1>1, <1>2, <1>3, <1>4, <1>5, <1>6, <1>7, <1>8, <1>9, <1>10, <1>11, <1>12, <1>13 DEF Next

\* A message that is handled is answered; data waits for a callback.
LEMMA HandleMessageAnswers ==
    ASSUME NEW st, NEW m \in Requests, HandleMessage(st, m), NEW d \in out'
    PROVE  d.type # "STREAM_DATA"
<1>1. d = Answer("ERROR", m.stream) \/ d = Answer("OK", m.stream)
  BY DEF HandleMessage, HandleRequest, Quietly, NoSuchResource, HandleRun, HandleDescribe,
         HandleStartStream, HandleStopStream, HandleStreamData
<1> QED
  BY <1>1 DEF Answer

\* The three invariants together.
LEMMA Invariants == Spec => [](TypeOK /\ StreamIdsAgree /\ QuietInv)
<1>1. Init => StreamIdsAgree
  BY DEF Init, StreamIdsAgree, stream_enabled
<1>2. Init => QuietInv
  BY DEF Init, QuietInv, Sound
<1> QED
  BY <1>1, <1>2, InitType, NextType, NextAgrees, NextQuiet, PTL DEF Spec

(***************************************************************************)
(* In a quiet application data goes out only on an open stream, and is of  *)
(* the resource it is open for: every step is one DataIsWanted allows.     *)
(***************************************************************************)
THEOREM DataAlwaysWanted == Spec => DataIsWanted
<1>1. /\ TypeOK /\ QuietInv /\ [Next]_vars
      => [Quiet => \A d \in out' : d.type = "STREAM_DATA" => streams'[d.stream] = d.resource]_vars
  <2> SUFFICES ASSUME TypeOK, QuietInv, Next, Quiet, NEW d \in out', d.type = "STREAM_DATA"
               PROVE  streams'[d.stream] = d.resource
    OBVIOUS
  <2>1. CASE StreamReturns
    <3>1. stack \in Seq(Frames) /\ stack # << >> /\ Top.do = "stream"
      BY <2>1 DEF StreamReturns, TopIs, TypeOK
    <3>2. Len(stack) \in 1 .. Len(stack) /\ Top = stack[Len(stack)]
      BY <3>1, TopType DEF Top
    <3>3. streams[Top.stream] = Top.resource
      BY <3>1, <3>2 DEF QuietInv, Sound, Exposed
    <3>4. d.stream = Top.stream /\ d.resource = Top.resource
      BY <2>1 DEF StreamReturns, Data
    <3> QED
      BY <2>1, <3>3, <3>4 DEF StreamReturns
  <2>2. CASE LoopReads \/ CallReadsRequest
    BY <2>2, HandleMessageAnswers DEF LoopReads, CallReadsRequest
  <2>3. CASE RunReturns \/ DescribeReturns
    BY <2>3 DEF RunReturns, DescribeReturns, Answer
  <2>4. CASE out' = {}
    BY <2>4
  <2> QED
    BY <2>1, <2>2, <2>3, <2>4
    DEF Next, Connect, HandleStarts, LoopFails, LoopEnds, CheckNext, CheckEnds, CheckDangling,
        CallbackReturns, DataReturns, DropReturns, AppDisconnects, AppStreams, AppCalls, CallStep,
        CallReadsAnswer, CallReadsNothing, CallReadsOther, Return, ServerAnswers, Quietly
<1> QED
  BY <1>1, Invariants, PTL DEF Spec, DataIsWanted

-----------------------------------------------------------------------------
(* The subscriptions of the server. *)

\* What a step publishes, as Subscriptions sees it.
Published(sent) == {<<d.stream, d.resource>> : d \in {m \in sent : m.type = "STREAM_DATA"}}

\* One message of data publishes its stream and its resource.
LEMMA PublishedData ==
    ASSUME NEW s, NEW r
    PROVE  Published({Data(s, r)}) = {<<s, r>>}
<1> DEFINE d == Data(s, r)
<1>1. d.type = "STREAM_DATA" /\ d.stream = s /\ d.resource = r
  BY DEF Data
<1> HIDE DEF d
<1>2. {m \in {d} : m.type = "STREAM_DATA"} = {d}
  BY <1>1
<1>3. Published({d}) = {<<s, r>>}
  BY <1>1, <1>2 DEF Published
<1> QED
  BY <1>3 DEF d

\* A step that changes no stream and sends no data publishes nothing.
LEMMA NothingPublished ==
    ASSUME \A d \in out' : d.type # "STREAM_DATA", UNCHANGED streams
    PROVE  Subs!Next
<1>1. Subs!Publish
  BY DEF Subs!Publish
<1> QED
  BY <1>1 DEF Subs!Next

\* disconnect() goes on where it was, or closes every stream.
LEMMA DisconnectServes ==
    ASSUME NEW st, Disconnect(st), out' = {}
    PROVE  Subs!Next
<1>1. CASE connected
  BY <1>1, NothingPublished DEF Disconnect
<1>2. CASE ~connected
  <2>1. streams' = [s \in StreamIds |-> NoResource]
    BY <1>2 DEF Disconnect, Clear
  <2>2. Subs!UnsubscribeAll
    BY <2>1 DEF Subs!UnsubscribeAll
  <2> QED
    BY <2>2 DEF Subs!Next
<1> QED
  BY <1>1, <1>2

\* A message that is handled opens one stream, closes one, or neither.
LEMMA HandleMessageServes ==
    ASSUME NEW st, NEW m \in Requests, HandleMessage(st, m)
    PROVE  Subs!Next
<1>1. \A d \in out' : d.type # "STREAM_DATA"
  BY HandleMessageAnswers
<1>2. CASE UNCHANGED streams
  BY <1>1, <1>2, NothingPublished
<1>3. CASE m.type = "START_STREAM" /\ m.resource # NoResource /\ HandleStartStream(st, m)
  <2>1. m.stream \in StreamIds /\ m.resource \in Resources
    BY <1>3, RequestType
  <2>2. Subs!Subscribe(m.stream, m.resource)
    BY <1>1, <1>3 DEF HandleStartStream, Subs!Subscribe
  <2> QED
    BY <2>1, <2>2 DEF Subs!Next
<1>4. CASE m.type = "STOP_STREAM" /\ HandleStopStream(st, m)
  <2>1. m.stream \in StreamIds
    BY <1>4, RequestType
  <2>2. Subs!Unsubscribe(m.stream)
    BY <1>1, <1>4 DEF HandleStopStream, Subs!Unsubscribe
  <2> QED
    BY <2>1, <2>2 DEF Subs!Next
<1>5. CASE m.type = "DISCONNECT" /\ Disconnect(st) /\ Quietly
  BY <1>5, DisconnectServes DEF Quietly
<1> QED
  BY <1>2, <1>3, <1>4, <1>5
  DEF HandleMessage, HandleRequest, NoSuchResource, HandleRun, HandleDescribe, HandleStreamData

(***************************************************************************)
(* A quiet application implements Subscriptions step by step, whatever     *)
(* handlers and callbacks are nested: each step opens a stream, closes one *)
(* or all, or sends data of the resource of an open stream, as             *)
(* ServesSubscriptions says.                                               *)
(***************************************************************************)
THEOREM SubscriptionsAreServed == Spec => ServesSubscriptions
<1>1. TypeOK /\ QuietInv /\ [Next]_vars
      => [Quiet => Subs!Next \/ UNCHANGED Subs!subscriptions]_vars
  <2> SUFFICES ASSUME TypeOK, QuietInv, Next, Quiet
               PROVE  Subs!Next
    OBVIOUS
  <2>1. CASE StreamReturns
    <3>1. stack \in Seq(Frames) /\ stack # << >> /\ Top.do = "stream"
      BY <2>1 DEF StreamReturns, TopIs, TypeOK
    <3>2. Len(stack) \in 1 .. Len(stack) /\ Top = stack[Len(stack)] /\ Top \in Frames
      BY <3>1, TopType DEF Top
    <3>3. /\ streams[Top.stream] = Top.resource
          /\ Top.stream \in StreamIds /\ Top.resource \in Resources
      BY <3>1, <3>2 DEF QuietInv, Sound, Exposed, Frames
    <3>4. Published(out') = {<<Top.stream, Top.resource>>}
      BY <2>1, PublishedData DEF StreamReturns
    <3>5. <<Top.stream, Top.resource>> \in Subs!Wanted(streams)
      BY <3>3, ResourcesAssumption DEF Subs!Wanted
    <3>6. Subs!Publish
      BY <2>1, <3>4, <3>5 DEF Subs!Publish, StreamReturns, Published
    <3> QED
      BY <3>6 DEF Subs!Next
  <2>2. CASE LoopReads \/ CallReadsRequest
    BY <2>2, HandleMessageServes DEF LoopReads, CallReadsRequest
  <2>3. CASE RunReturns \/ DescribeReturns
    BY <2>3, NothingPublished DEF RunReturns, DescribeReturns, Answer
  <2>4. CASE LoopFails \/ AppDisconnects
    BY <2>4, DisconnectServes DEF LoopFails, AppDisconnects, Quietly
  <2>5. CASE DropReturns
    <3>1. Subs!UnsubscribeAll
      BY <2>5 DEF DropReturns, Clear, Quietly, Subs!UnsubscribeAll
    <3> QED
      BY <3>1 DEF Subs!Next
  <2>6. CASE out' = {} /\ UNCHANGED streams
    BY <2>6, NothingPublished
  <2> QED
    BY <2>1, <2>2, <2>3, <2>4, <2>5, <2>6
    DEF Next, Connect, HandleStarts, LoopEnds, CheckNext, CheckEnds, CheckDangling,
        CallbackReturns, DataReturns, AppStreams, AppCalls, CallStep,
        CallReadsAnswer, CallReadsNothing, CallReadsOther, Return, ServerAnswers, Quietly
<1> QED
  BY <1>1, Invariants, PTL DEF Spec, ServesSubscriptions

=============================================================================
