--------------------------- MODULE IotmpTasksProofs ---------------------------
(***************************************************************************)
(* Proofs about IotmpTasks, for any number of tasks, any ids and bounds:   *)
(* its types, that answers reach the task that waits for them, and that a  *)
(* call returns true only for its own accepted request.                    *)
(***************************************************************************)
EXTENDS IotmpTasks, TLAPS

\* The messages waiting in the transport.
Received == {rx[i] : i \in DOMAIN rx}

-----------------------------------------------------------------------------
(* The inductive invariants. *)

\* The call of u has been sent and not returned.
InCall(u) == pc[u] \in {"waiting", "reading"}

\* The lock is held by the one task that is in the middle of an exchange.
LockHeld ==
    /\ \A u \in Users : InCall(u) <=> lock = u
    /\ pc[Client] \in {"authwait", "reading"} <=> lock = Client

\* What is on its way for a task belongs to the call it waits in, and the
\* verdict on that call is the type of its answer.
Owned ==
    /\ \A r \in asked : r.for \in Users =>
          InCall(r.for) /\ r.id = id[r.for] /\ verdict[r.for] = "none"
    /\ \A m \in Received : m.for \in Users =>
          InCall(m.for) /\ m.id = id[m.for] /\ m.type = verdict[m.for]
    /\ \A u \in Users : ~InCall(u) => verdict[u] = "none"

\* What carries the id of a call belongs to that call.
Recognised ==
    \A u \in Users : InCall(u) =>
        /\ \A r \in asked : r.id = id[u] => r.for = u
        /\ \A m \in Received : m.id = id[u] /\ m.type \in {"OK", "ERROR"} => m.for = u

\* A call that reads has not reached its limit.
WithinLimit == \A u \in Users : pc[u] = "reading" => attempts[u] < MaxAttempts

Inv == TypeOK /\ LockHeld /\ Owned /\ Recognised /\ WithinLimit

-----------------------------------------------------------------------------
(* What a step can do to the messages in the transport. *)

\* No message is waiting in an empty transport.
LEMMA NoneReceived == <<>> \in Seq(Message) /\ (rx' = <<>> => Received' = {})
BY DEF Received

\* The head of the queue is one of the messages.
LEMMA HeadReceived ==
    ASSUME rx \in Seq(Message), rx # <<>>
    PROVE  Head(rx) \in Received /\ Head(rx) \in Message
BY DEF Received

\* Reading a message adds none.
LEMMA TailReceived ==
    ASSUME rx \in Seq(Message), rx # <<>>
    PROVE  /\ Tail(rx) \in Seq(Message)
           /\ \A i \in DOMAIN Tail(rx) : Tail(rx)[i] \in Received
BY DEF Received

\* The messages after a read.
LEMMA AfterRead ==
    ASSUME rx \in Seq(Message), rx # <<>>, rx' = Tail(rx)
    PROVE  rx' \in Seq(Message) /\ Received' \subseteq Received
BY TailReceived DEF Received

\* An arriving message joins the others.
LEMMA AfterArrival ==
    ASSUME rx \in Seq(Message), NEW m \in Message, rx' = Append(rx, m)
    PROVE  rx' \in Seq(Message) /\ Received' \subseteq Received \cup {m}
<1>1. rx' \in Seq(Message) /\ DOMAIN rx' = 1 .. Len(rx) + 1
  OBVIOUS
<1>2. \A i \in 1 .. Len(rx) + 1 : rx'[i] = (IF i <= Len(rx) THEN rx[i] ELSE m)
  OBVIOUS
<1>3. \A i \in 1 .. Len(rx) + 1 : rx'[i] \in Received \cup {m}
  BY <1>2 DEF Received
<1> QED
  BY <1>1, <1>3 DEF Received

\* Orphaned messages are messages of nobody, and the rest is as it was.
LEMMA AfterOrphaning ==
    ASSUME NEW s \in Seq(Message), NEW u \in Users, rx' = OrphanAnswers(s, u)
    PROVE  /\ rx' \in Seq(Message)
           /\ \A m \in Received' : \E i \in DOMAIN s : m = Orphan(s[i], u)
<1>1. \A m \in Message : Orphan(m, u) \in Message
  BY TasksAssumption DEF Orphan, Message, Tasks
<1>2. rx' = [i \in 1 .. Len(s) |-> Orphan(s[i], u)] /\ Len(s) \in Nat
  BY DEF OrphanAnswers
<1>3. \A i \in 1 .. Len(s) : s[i] \in Message
  OBVIOUS
<1>4. rx' \in [1 .. Len(s) -> Message]
  BY <1>1, <1>2, <1>3
<1>5. rx' \in Seq(Message)
  BY <1>2, <1>4
<1>6. \A m \in Received' : \E i \in DOMAIN s : m = Orphan(s[i], u)
  BY <1>2 DEF Received
<1> QED
  BY <1>5, <1>6
-----------------------------------------------------------------------------
(* Types. *)

\* The type of each user's variables of a call.
LocalTypes ==
    /\ id \in [Users -> Ids \cup {0}] /\ attempts \in [Users -> 0 .. MaxAttempts]
    /\ result \in [Users -> {"none", "true", "false"}]
    /\ verdict \in [Users -> {"none", "OK", "ERROR"}]

\* The type of the program counters.
PcType ==
    /\ pc \in [Tasks -> ClientPcs \cup UserPcs]
    /\ pc[Client] \in ClientPcs /\ \A u \in Users : pc[u] \in UserPcs

\* The type of what the tasks share.
SocketType ==
    /\ connected \in BOOLEAN /\ link \in BOOLEAN
    /\ rx \in Seq(Message) /\ asked \subseteq Request
    /\ first \in {"NOTHING", "CONNECT", "RUN", "ANSWER", "KEEP_ALIVE"}

\* TypeOK in its parts.
LEMMA TypeParts == TypeOK <=> PcType /\ lock \in Tasks \cup {NoTask} /\ SocketType /\ LocalTypes
BY DEF TypeOK, PcType, SocketType, LocalTypes

\* The variables have their types at the start.
LEMMA InitType == Init => TypeOK
<1> SUFFICES ASSUME Init PROVE TypeOK
  OBVIOUS
<1>1. PcType
  BY TasksAssumption DEF Init, PcType, Tasks, ClientPcs, UserPcs
<1>2. SocketType
  BY NoneReceived DEF Init, SocketType
<1>3. LocalTypes
  BY BoundsAssumption DEF Init, LocalTypes
<1> QED
  BY <1>1, <1>2, <1>3, TypeParts DEF Init

\* The client task goes to one of its places.
LEMMA ClientGoes ==
    ASSUME PcType, NEW label \in ClientPcs, Goto(Client, label)
    PROVE  /\ PcType' /\ pc'[Client] = label
           /\ \A u \in Users : pc'[u] = pc[u]
BY TasksAssumption DEF PcType, Goto, Tasks

\* A user task goes to one of its places.
LEMMA UserGoes ==
    ASSUME PcType, NEW u \in Users, NEW label \in UserPcs, Goto(u, label)
    PROVE  /\ PcType' /\ pc'[u] = label /\ pc'[Client] = pc[Client]
           /\ \A v \in Users \ {u} : pc'[v] = pc[v]
BY TasksAssumption DEF PcType, Goto, Tasks

(***************************************************************************)
(* Where a step takes the tasks and the lock, whatever it does to the      *)
(* socket: a task has the lock from where it takes it to where it gives it *)
(* back, and nobody takes it from another.                                 *)
(***************************************************************************)
LEMMA ClientMoves ==
    ASSUME PcType, SocketType, lock \in Tasks \cup {NoTask}, LockHeld, ClientStep
    PROVE  /\ PcType' /\ lock' \in Tasks \cup {NoTask} /\ LockHeld'
           /\ \A u \in Users : pc'[u] = pc[u]
<1>0. ASSUME NEW label \in ClientPcs, Goto(Client, label),
             \/ UNCHANGED lock /\ label \notin {"authwait", "reading"}
                  /\ pc[Client] \notin {"authwait", "reading"}
             \/ Acquire(Client) /\ label \in {"authwait", "reading"}
             \/ Release(Client) /\ label \notin {"authwait", "reading"}
      PROVE  /\ PcType' /\ lock' \in Tasks \cup {NoTask} /\ LockHeld'
             /\ \A u \in Users : pc'[u] = pc[u]
  BY <1>0, ClientGoes, TasksAssumption DEF LockHeld, InCall, Acquire, Release, Tasks
<1> USE DEF ClientPcs
<1>1. CASE ConnectSucceeds
  BY <1>1, <1>0 DEF ConnectSucceeds
<1>2. CASE SendConnect
  BY <1>2, <1>0 DEF SendConnect, Guarded
<1>3. CASE ConnectNotWritten
  BY <1>3, <1>0 DEF ConnectNotWritten, Guarded, GiveUpLink
<1>4. CASE LockAnswer
  BY <1>4, <1>0 DEF LockAnswer
<1>5. CASE Authenticate
  BY <1>5, <1>0 DEF Authenticate
<1>6. CASE FailAuthentication
  BY <1>6, <1>0 DEF FailAuthentication, GiveUpLink
<1>7. CASE LinkIsUp
  BY <1>7, <1>0 DEF LinkIsUp
<1>8. CASE LinkIsDown
  BY <1>8, <1>0 DEF LinkIsDown, GiveUpLink
<1>9. CASE SeeData \/ SeeNoData
  BY <1>9, <1>0 DEF SeeData, SeeNoData
<1>10. CASE LockRead
  BY <1>10, <1>0 DEF LockRead
<1>11. CASE Read
  <2>1. Head(rx).type \in {"OK", "ERROR", "REQUEST", "DISCONNECT"}
    BY <1>11, HeadReceived DEF Read, SocketType, Message
  <2>2. CASE Head(rx).type = "REQUEST"
    BY <1>11, <2>2, <1>0 DEF Read
  <2>3. CASE Head(rx).type = "DISCONNECT"
    BY <1>11, <2>3, <1>0 DEF Read
  <2>4. CASE Head(rx).type \in {"OK", "ERROR"}
    BY <1>11, <2>4, <1>0 DEF Read
  <2> QED
    BY <2>1, <2>2, <2>3, <2>4
<1>12. CASE ReadTimesOut
  BY <1>12, <1>0 DEF ReadTimesOut, GiveUpLink
<1>13. CASE Respond
  BY <1>13, <1>0 DEF Respond, Guarded
<1>14. CASE HandleDisconnect
  BY <1>14, <1>0 DEF HandleDisconnect
<1>15. CASE SendPeriodic
  BY <1>15, <1>0 DEF SendPeriodic
<1> QED
  BY <1>1, <1>2, <1>3, <1>4, <1>5, <1>6, <1>7, <1>8, <1>9, <1>10, <1>11, <1>12, <1>13, <1>14,
     <1>15 DEF ClientStep

\* A step of the client task reads or drops messages, and asks nothing of the
\* server but to accept its CONNECT, while nobody holds the lock.
LEMMA ClientTransfers ==
    ASSUME SocketType, ClientStep
    PROVE  /\ SocketType' /\ UNCHANGED locals /\ Received' \subseteq Received
           /\ \A r \in asked' : r \in asked \/ (r.for = Client /\ lock = NoTask)
<1> USE DEF SocketType
<1>0. ASSUME Disconnect
      PROVE  SocketType' /\ Received' = {} /\ asked' = {}
  BY <1>0, NoneReceived DEF Disconnect
<1>1. CASE ConnectSucceeds
  BY <1>1, NoneReceived DEF ConnectSucceeds
<1>2. CASE SendConnect
  <2>1. [id |-> 0, for |-> Client] \in Request
    BY DEF Request, Tasks
  <2> QED
    BY <1>2, <2>1 DEF SendConnect, Guarded, Write, Received
<1>3. CASE ConnectNotWritten \/ FailAuthentication \/ LinkIsDown \/ ReadTimesOut
  BY <1>3, <1>0
     DEF ConnectNotWritten, FailAuthentication, LinkIsDown, ReadTimesOut, GiveUpLink
<1>4. CASE HandleDisconnect
  BY <1>4, <1>0 DEF HandleDisconnect
<1>5. CASE LockAnswer \/ LinkIsUp \/ SeeData \/ SeeNoData \/ LockRead
  BY <1>5 DEF LockAnswer, LinkIsUp, SeeData, SeeNoData, LockRead, socket, Received
<1>6. CASE Authenticate \/ Read
  BY <1>6, AfterRead DEF Authenticate, Read
<1>7. CASE Respond \/ SendPeriodic
  BY <1>7 DEF Respond, SendPeriodic, Write, Received
<1> QED
  BY <1>1, <1>2, <1>3, <1>4, <1>5, <1>6, <1>7 DEF ClientStep

(***************************************************************************)
(* A step keeps what is said of owned messages when it neither begins nor  *)
(* ends a call and adds nothing of a call: only a CONNECT, written while   *)
(* nobody waits, and requests of the server.                               *)
(***************************************************************************)
LEMMA QuietStep ==
    ASSUME LockHeld, Owned, Recognised, UNCHANGED <<id, verdict>>,
           \A u \in Users : InCall(u)' <=> InCall(u),
           \A r \in asked' : r \in asked \/ (r.for \notin Users /\ lock = NoTask),
           \A m \in Received' :
              m \in Received \/ (m.for \notin Users /\ m.type \notin {"OK", "ERROR"})
    PROVE  Owned' /\ Recognised'
<1>1. Owned'
  BY DEF Owned
<1>2. Recognised'
  BY TasksAssumption DEF Recognised, LockHeld
<1> QED
  BY <1>1, <1>2

\* A step of the client task keeps the invariant.
LEMMA ClientKeeps == ASSUME Inv, ClientStep PROVE Inv'
<1>1. /\ PcType /\ lock \in Tasks \cup {NoTask} /\ SocketType /\ LocalTypes
      /\ LockHeld /\ Owned /\ Recognised /\ WithinLimit
  BY TypeParts DEF Inv
<1>2. /\ PcType' /\ lock' \in Tasks \cup {NoTask} /\ LockHeld'
      /\ \A u \in Users : pc'[u] = pc[u]
  BY <1>1, ClientMoves
<1>3. /\ SocketType' /\ UNCHANGED locals /\ Received' \subseteq Received
      /\ \A r \in asked' : r \in asked \/ (r.for = Client /\ lock = NoTask)
  BY <1>1, ClientTransfers
<1>4. LocalTypes'
  BY <1>1, <1>3 DEF LocalTypes, locals
<1>5. Owned' /\ Recognised'
  BY <1>1, <1>2, <1>3, QuietStep, TasksAssumption DEF locals, InCall
<1>6. TypeOK'
  BY <1>2, <1>3, <1>4, TypeParts DEF TypeOK, PcType, SocketType, LocalTypes
<1>7. WithinLimit'
  BY <1>1, <1>2, <1>3 DEF WithinLimit, locals
<1> QED
  BY <1>2, <1>5, <1>6, <1>7 DEF Inv

\* Entering a call, or finding the client disconnected, touches no message.
LEMMA CallKeeps ==
    ASSUME Inv, NEW u \in Users, Call(u) \/ CallWhileDisconnected(u) PROVE Inv'
<1>1. /\ PcType /\ lock \in Tasks \cup {NoTask} /\ SocketType /\ LocalTypes
      /\ LockHeld /\ Owned /\ Recognised /\ WithinLimit
  BY TypeParts DEF Inv
<1>2. /\ PcType' /\ LockHeld' /\ UNCHANGED lock
      /\ \A v \in Users : InCall(v)' <=> InCall(v)
      /\ \A v \in Users : pc'[v] = "reading" => pc[v] = "reading"
  BY <1>1, UserGoes DEF Call, CallWhileDisconnected, LockHeld, InCall, UserPcs, PcType
<1>3. UNCHANGED <<socket, id, attempts, verdict>> /\ result' \in [Users -> {"none", "true", "false"}]
  BY <1>1 DEF Call, CallWhileDisconnected, LocalTypes
<1>4. SocketType' /\ LocalTypes' /\ Received' = Received
  BY <1>1, <1>3 DEF SocketType, LocalTypes, socket, Received
<1>5. Owned' /\ Recognised'
  BY <1>1, <1>2, <1>3, <1>4, QuietStep DEF socket
<1>6. TypeOK'
  BY <1>1, <1>2, <1>4 DEF TypeOK, PcType, SocketType, LocalTypes
<1>7. WithinLimit'
  BY <1>1, <1>2, <1>3 DEF WithinLimit
<1> QED
  BY <1>2, <1>5, <1>6, <1>7 DEF Inv

\* A call that goes on reading touches nothing but its place.
LEMMA StartReadKeeps ==
    ASSUME Inv, NEW u \in Users, StartRead(u) PROVE Inv'
<1>1. /\ PcType /\ lock \in Tasks \cup {NoTask} /\ SocketType /\ LocalTypes
      /\ LockHeld /\ Owned /\ Recognised /\ WithinLimit
  BY TypeParts DEF Inv
<1>2. /\ PcType' /\ UNCHANGED <<lock, socket, locals>>
      /\ pc'[u] = "reading" /\ pc'[Client] = pc[Client] /\ pc[u] = "waiting"
      /\ \A v \in Users \ {u} : pc'[v] = pc[v]
  BY <1>1, UserGoes DEF StartRead, Awaits, UserPcs
<1>3. \A v \in Users : InCall(v)' <=> InCall(v)
  BY <1>2 DEF InCall
<1>4. LockHeld'
  BY <1>1, <1>2, <1>3 DEF LockHeld
<1>5. Owned' /\ Recognised'
  BY <1>1, <1>2, <1>3, QuietStep DEF socket, locals, Received
<1>6. TypeOK'
  BY <1>1, <1>2 DEF TypeOK, PcType, SocketType, LocalTypes, socket, locals
<1>7. WithinLimit'
  BY <1>1, <1>2 DEF WithinLimit, StartRead, Awaits, locals
<1> QED
  BY <1>4, <1>5, <1>6, <1>7 DEF Inv

\* A message of another handled by a waiting call leaves with its effect.
LEMMA HandleOtherKeeps ==
    ASSUME Inv, NEW u \in Users, HandleOther(u) PROVE Inv'
<1>1. /\ PcType /\ lock \in Tasks \cup {NoTask} /\ SocketType /\ LocalTypes
      /\ LockHeld /\ Owned /\ Recognised /\ WithinLimit
  BY TypeParts DEF Inv
<1>2. /\ UNCHANGED <<lock, id, result, verdict>>
      /\ PcType' /\ pc'[u] = "waiting" /\ pc[u] = "reading" /\ pc'[Client] = pc[Client]
      /\ \A v \in Users \ {u} : pc'[v] = pc[v]
  BY <1>1, UserGoes DEF HandleOther, UserPcs
<1>3. /\ attempts' \in [Users -> 0 .. MaxAttempts]
      /\ \A v \in Users \ {u} : attempts'[v] = attempts[v]
  <2>1. attempts[u] < MaxAttempts /\ attempts[u] + 1 \in 0 .. MaxAttempts
    BY <1>1, <1>2, BoundsAssumption DEF WithinLimit, LocalTypes
  <2> QED
    BY <1>1, <2>1 DEF HandleOther, LocalTypes
<1>4. \A v \in Users : InCall(v)' <=> InCall(v)
  BY <1>2 DEF InCall
<1>5. WithinLimit'
  BY <1>1, <1>2, <1>3 DEF WithinLimit
<1>6. SocketType' /\ Received' \subseteq Received /\ asked' \subseteq asked
  <2>1. rx # <<>> /\ Head(rx).type \in {"OK", "ERROR", "REQUEST", "DISCONNECT"}
    BY <1>1, HeadReceived DEF HandleOther, SocketType, Message
  <2>2. CASE Head(rx).type = "DISCONNECT"
    BY <1>1, <2>2, NoneReceived DEF HandleOther, Disconnect, SocketType
  <2>3. CASE Head(rx).type = "REQUEST"
    BY <1>1, <2>1, <2>3, AfterRead DEF HandleOther, Write, SocketType
  <2>4. CASE Head(rx).type \in {"OK", "ERROR"}
    BY <1>1, <2>1, <2>4, AfterRead DEF HandleOther, SocketType
  <2> QED
    BY <2>1, <2>2, <2>3, <2>4
<1>7. Owned' /\ Recognised' /\ LockHeld'
  BY <1>1, <1>2, <1>6, <1>4, QuietStep DEF LockHeld
<1>8. TypeOK'
  BY <1>1, <1>2, <1>6, <1>3 DEF TypeOK, PcType, SocketType, LocalTypes
<1> QED
  BY <1>7, <1>8, <1>5 DEF Inv

\* A new call takes the lock and an id that nothing on its way carries.
LEMMA SendKeeps == ASSUME Inv, NEW u \in Users, Send(u) PROVE Inv'
<1>1. /\ PcType /\ lock \in Tasks \cup {NoTask} /\ SocketType /\ LocalTypes
      /\ LockHeld /\ Owned /\ Recognised /\ WithinLimit
  BY TypeParts DEF Inv
<1>2. /\ PcType' /\ pc'[u] = "waiting" /\ pc'[Client] = pc[Client]
      /\ \A v \in Users \ {u} : pc'[v] = pc[v]
      /\ lock = NoTask /\ lock' = u
  BY <1>1, UserGoes DEF Send, Acquire, UserPcs
<1>3. InCall(u)' /\ \A v \in Users : ~InCall(v) /\ (v # u => ~InCall(v)')
  BY <1>1, <1>2, TasksAssumption DEF LockHeld, InCall
<1>4. LockHeld' /\ lock' \in Tasks \cup {NoTask}
  BY <1>1, <1>2, <1>3, TasksAssumption DEF LockHeld, Tasks
<1>5. PICK n \in Ids \ InFlight :
        /\ id' = [id EXCEPT ![u] = n]
        /\ asked' = IF link THEN asked \cup {[id |-> n, for |-> u]} ELSE asked
  BY DEF Send
<1>6. UNCHANGED <<connected, link, rx, result, verdict>> /\ Received' = Received
  BY DEF Send, Received
<1>7. SocketType'
  <2>1. [id |-> n, for |-> u] \in Request
    BY DEF Request, Tasks
  <2> QED
    BY <1>1, <1>5, <1>6, <2>1 DEF SocketType, Send, Write
<1>8. LocalTypes' /\ id'[u] = n
  BY <1>1, <1>5, <1>6, BoundsAssumption DEF LocalTypes, Send
<1>9. /\ \A r \in asked : r.for \notin Users /\ r.id # n
      /\ \A m \in Received : m.for \notin Users /\ m.id # n
  BY <1>1, <1>3, <1>5 DEF Owned, InFlight, Received
<1>10. Owned'
  BY <1>1, <1>2, <1>3, <1>5, <1>6, <1>8, <1>9 DEF Owned
<1>11. Recognised'
  BY <1>2, <1>3, <1>5, <1>6, <1>8, <1>9 DEF Recognised
<1>12. WithinLimit'
  BY <1>2, <1>3 DEF WithinLimit, InCall
<1> QED
  BY <1>2, <1>4, <1>7, <1>8, <1>10, <1>11, <1>12 DEF Inv, TypeOK, PcType, SocketType, LocalTypes

\* A call that returns leaves nothing behind that is its own.
LEMMA ReturnKeeps ==
    ASSUME Inv, NEW u \in Users, NEW value \in {"true", "false"}, Return(u, value),
           NEW s \in Seq(Message), \A i \in DOMAIN s : s[i] \in Received,
           rx' = OrphanAnswers(s, u)
    PROVE  Inv'
<1>1. /\ PcType /\ lock \in Tasks \cup {NoTask} /\ SocketType /\ LocalTypes
      /\ LockHeld /\ Owned /\ Recognised /\ WithinLimit
  BY TypeParts DEF Inv
<1>2. /\ PcType' /\ pc'[u] = "ready" /\ pc'[Client] = pc[Client]
      /\ \A v \in Users \ {u} : pc'[v] = pc[v]
      /\ lock = u /\ lock' = NoTask
  BY <1>1, UserGoes DEF Return, Release, UserPcs
<1>3. \A v \in Users : ~InCall(v)' /\ (v # u => ~InCall(v))
  BY <1>1, <1>2 DEF LockHeld, InCall
<1>4. LockHeld'
  BY <1>1, <1>2, <1>3, TasksAssumption DEF LockHeld, Tasks
<1>5. LocalTypes' /\ verdict'[u] = "none" /\ \A v \in Users \ {u} : verdict'[v] = verdict[v]
  BY <1>1, BoundsAssumption DEF LocalTypes, Return
<1>6. UNCHANGED <<connected, link, first>>
  BY DEF Return
<1>7. rx' \in Seq(Message) /\ \A m \in Received' : m.for \notin Users
  <2>1. rx' \in Seq(Message) /\ \A m \in Received' : \E i \in DOMAIN s : m = Orphan(s[i], u)
    BY AfterOrphaning
  <2>2. \A m \in Received : m \in Message /\ (m.for \in Users => m.for = u)
    BY <1>1, <1>3 DEF Owned, Received, SocketType
  <2>3. ASSUME NEW m \in Received PROVE Orphan(m, u).for \notin Users
    <3>1. DOMAIN m = {"type", "id", "for"}
      BY <2>2, <2>3 DEF Message
    <3> QED
      BY <2>2, <2>3, <3>1, TasksAssumption DEF Orphan
  <2> QED
    BY <2>1, <2>3
<1>8. asked' \subseteq Request /\ \A r \in asked' : r.for \notin Users
  <2>1. asked' \subseteq {r \in asked : r.for # u} \/ asked' = OrphanRequests(u)
    BY DEF Return
  <2>2. \A r \in asked : r \in Request /\ (r.for \in Users => r.for = u)
    BY <1>1, <1>3 DEF Owned, SocketType
  <2>3. ASSUME NEW r \in asked PROVE Orphan(r, u) \in Request /\ Orphan(r, u).for \notin Users
    <3>1. r \in Request /\ (r.for \in Users => r.for = u)
      BY <2>2
    <3>2. CASE r.for = u
      BY <3>1, <3>2, TasksAssumption DEF Orphan, Request, Tasks
    <3>3. CASE r.for # u
      BY <3>1, <3>3 DEF Orphan
    <3> QED
      BY <3>2, <3>3
  <2> QED
    BY <2>1, <2>2, <2>3 DEF OrphanRequests
<1>9. Owned' /\ Recognised'
  BY <1>1, <1>3, <1>5, <1>7, <1>8 DEF Owned, Recognised
<1>10. TypeOK'
  BY <1>1, <1>2, <1>5, <1>6, <1>7, <1>8 DEF TypeOK, PcType, SocketType, LocalTypes
<1>11. WithinLimit'
  BY <1>3 DEF WithinLimit, InCall
<1> QED
  BY <1>4, <1>9, <1>10, <1>11 DEF Inv

\* A step of a waiting call keeps the invariant.
LEMMA UserKeeps == ASSUME Inv, NEW u \in Users, UserStep(u) PROVE Inv'
<1>0. rx \in Seq(Message) /\ \A i \in DOMAIN rx : rx[i] \in Received
  BY DEF Inv, TypeOK, Received
<1>1. CASE ReceiveAnswer(u)
  <2>1. Tail(rx) \in Seq(Message) /\ \A i \in DOMAIN Tail(rx) : Tail(rx)[i] \in Received
    BY <1>0, <1>1, TailReceived DEF ReceiveAnswer
  <2>2. PICK value \in {"true", "false"} : Return(u, value)
    BY <1>1 DEF ReceiveAnswer
  <2> QED
    BY <1>1, <2>1, <2>2, ReturnKeeps DEF ReceiveAnswer
<1>2. CASE HandleOther(u)
  BY <1>2, HandleOtherKeeps
<1>3. CASE ReceiveNothing(u)
  BY <1>0, <1>3, ReturnKeeps DEF ReceiveNothing
<1>4. CASE StartRead(u)
  BY <1>4, StartReadKeeps
<1> QED
  BY <1>1, <1>2, <1>3, <1>4 DEF UserStep

(***************************************************************************)
(* The server answers a request once, so an answer that joins the others   *)
(* is the only one of its call, and the verdict is its type.               *)
(***************************************************************************)
LEMMA ServerAnswersKeeps == ASSUME Inv, ServerAnswers PROVE Inv'
<1>1. /\ PcType /\ lock \in Tasks \cup {NoTask} /\ SocketType /\ LocalTypes
      /\ LockHeld /\ Owned /\ Recognised /\ WithinLimit
  BY TypeParts DEF Inv
<1>2. UNCHANGED <<pc, lock, connected, link, first, id, attempts, result>>
  BY DEF ServerAnswers
<1>3. PICK r \in asked, type \in {"OK", "ERROR"} :
        /\ asked' = asked \ {r}
        /\ rx' = Append(rx, [type |-> type, id |-> r.id, for |-> r.for])
        /\ verdict' = IF r.for \in Users THEN [verdict EXCEPT ![r.for] = type] ELSE verdict
  BY DEF ServerAnswers
<1> DEFINE answer == [type |-> type, id |-> r.id, for |-> r.for]
<1>4. r \in Request /\ answer \in Message
  BY <1>1 DEF SocketType, Request, Message
<1>5. rx' \in Seq(Message) /\ Received' \subseteq Received \cup {answer}
  BY <1>1, <1>3, <1>4, AfterArrival DEF SocketType
<1>6. SocketType' /\ LocalTypes'
  BY <1>1, <1>2, <1>3, <1>5 DEF SocketType, LocalTypes
<1>7. Owned'
  <2>1. CASE r.for \notin Users
    BY <1>1, <1>2, <1>3, <1>5, <2>1 DEF Owned, InCall
  <2>2. CASE r.for \in Users
    <3>1. /\ InCall(r.for) /\ r.id = id[r.for] /\ verdict[r.for] = "none"
          /\ verdict' = [verdict EXCEPT ![r.for] = type]
      BY <1>1, <1>3, <2>2 DEF Owned
    <3>2. \A q \in asked' : q.for # r.for
      <4> SUFFICES ASSUME NEW q \in asked', q.for = r.for PROVE FALSE
        OBVIOUS
      <4>1. q \in asked /\ q # r /\ q.id = r.id
        BY <1>1, <1>3, <2>2, <3>1 DEF Owned
      <4>2. q \in Request
        BY <1>1, <4>1 DEF SocketType
      <4> QED
        BY <1>4, <4>1, <4>2 DEF Request
    <3>3. \A m \in Received : m.for # r.for
      <4> SUFFICES ASSUME NEW m \in Received, m.for = r.for PROVE FALSE
        OBVIOUS
      <4>1. m.type = "none"
        BY <1>1, <2>2, <3>1 DEF Owned
      <4>2. m \in Message
        BY <1>1 DEF SocketType, Received
      <4> QED
        BY <4>1, <4>2 DEF Message
    <3>4. verdict'[r.for] = type /\ \A v \in Users : v # r.for => verdict'[v] = verdict[v]
      BY <1>1, <2>2, <3>1 DEF LocalTypes
    <3> QED
      BY <1>1, <1>2, <1>3, <1>5, <2>2, <3>1, <3>2, <3>3, <3>4 DEF Owned, InCall
  <2> QED
    BY <2>1, <2>2
<1>8. Recognised'
  BY <1>1, <1>2, <1>3, <1>5 DEF Recognised, InCall
<1>9. LockHeld' /\ WithinLimit'
  BY <1>1, <1>2 DEF LockHeld, InCall, WithinLimit
<1> QED
  BY <1>1, <1>2, <1>6, <1>7, <1>8, <1>9 DEF Inv, TypeOK, PcType, SocketType, LocalTypes

\* Requests of the server belong to no call.
LEMMA ServerSendsKeeps == ASSUME Inv, ServerSends PROVE Inv'
<1>1. /\ PcType /\ lock \in Tasks \cup {NoTask} /\ SocketType /\ LocalTypes
      /\ LockHeld /\ Owned /\ Recognised /\ WithinLimit
  BY TypeParts DEF Inv
<1>2. UNCHANGED <<pc, lock, connected, link, asked, first, locals>>
  BY DEF ServerSends
<1>3. PICK type \in {"REQUEST", "DISCONNECT"} :
        rx' = Append(rx, [type |-> type, id |-> 0, for |-> NoTask])
  BY DEF ServerSends
<1>4. [type |-> type, id |-> 0, for |-> NoTask] \in Message
  BY DEF Message
<1>5. /\ rx' \in Seq(Message)
      /\ \A m \in Received' : m \in Received \/ (m.for = NoTask /\ m.type \notin {"OK", "ERROR"})
  BY <1>1, <1>3, <1>4, AfterArrival DEF SocketType
<1>6. LockHeld' /\ Owned' /\ Recognised' /\ WithinLimit'
  BY <1>1, <1>2, <1>5, QuietStep, TasksAssumption DEF locals, LockHeld, InCall, WithinLimit
<1> QED
  BY <1>1, <1>2, <1>5, <1>6 DEF Inv, TypeOK, PcType, SocketType, LocalTypes, locals

\* A link that drops takes the requests with it and adds nothing.
LEMMA LinkDropsKeeps == ASSUME Inv, LinkDrops PROVE Inv'
<1>1. /\ PcType /\ lock \in Tasks \cup {NoTask} /\ SocketType /\ LocalTypes
      /\ LockHeld /\ Owned /\ Recognised /\ WithinLimit
  BY TypeParts DEF Inv
<1>2. UNCHANGED <<pc, lock, connected, rx, first, locals>> /\ asked' = {} /\ link' = FALSE
  BY DEF LinkDrops
<1>3. LockHeld' /\ Owned' /\ Recognised' /\ WithinLimit'
  BY <1>1, <1>2, QuietStep DEF locals, LockHeld, InCall, WithinLimit, Received
<1> QED
  BY <1>1, <1>2, <1>3 DEF Inv, TypeOK, PcType, SocketType, LocalTypes, locals

-----------------------------------------------------------------------------
(* The invariant. *)

\* Nobody waits and nothing is on its way at the start.
LEMMA InitInv == Init => Inv
<1> SUFFICES ASSUME Init PROVE Inv
  OBVIOUS
<1>1. Received = {}
  BY DEF Init, Received
<1>2. LockHeld
  BY TasksAssumption DEF Init, LockHeld, InCall, Tasks
<1>3. Owned /\ Recognised /\ WithinLimit
  BY <1>1, TasksAssumption DEF Init, Owned, Recognised, InCall, WithinLimit, Tasks
<1> QED
  BY <1>2, <1>3, InitType DEF Inv

\* Every step keeps the invariant.
LEMMA NextInv == Inv /\ [Next]_vars => Inv'
<1> SUFFICES ASSUME Inv, [Next]_vars PROVE Inv'
  OBVIOUS
<1>1. CASE ClientStep
  BY <1>1, ClientKeeps
<1>2. ASSUME NEW u \in Users, CallWhileDisconnected(u) \/ Call(u) PROVE Inv'
  BY <1>2, CallKeeps
<1>3. ASSUME NEW u \in Users, Send(u) PROVE Inv'
  BY <1>3, SendKeeps
<1>4. ASSUME NEW u \in Users, UserStep(u) PROVE Inv'
  BY <1>4, UserKeeps
<1>5. CASE ServerAnswers
  BY <1>5, ServerAnswersKeeps
<1>6. CASE ServerSends
  BY <1>6, ServerSendsKeeps
<1>7. CASE LinkDrops
  BY <1>7, LinkDropsKeeps
<1>8. CASE UNCHANGED vars
  BY <1>8 DEF Inv, TypeOK, LockHeld, InCall, Owned, Recognised, WithinLimit, Received, vars,
              socket, locals
<1> QED
  BY <1>1, <1>2, <1>3, <1>4, <1>5, <1>6, <1>7, <1>8 DEF Next

\* Inv holds in every reachable state.
LEMMA Invariant == Spec => []Inv
BY InitInv, NextInv, PTL DEF Spec

(***************************************************************************)
(* The variables of the tasks keep their types, for any number of tasks: a *)
(* call never reads more messages than its limit.                          *)
(***************************************************************************)
THEOREM TypeCorrect == Spec => []TypeOK
<1>1. Inv => TypeOK
  BY DEF Inv
<1> QED
  BY <1>1, Invariant, PTL

-----------------------------------------------------------------------------
(* Answers. *)

\* A queue is neither its own tail nor its tail's extension.
LEMMA TailDiffers ==
    ASSUME rx \in Seq(Message), rx # <<>>
    PROVE  Tail(rx) # rx /\ \A m \in Message : Append(rx, m) # Tail(rx)
<1>1. Len(Tail(rx)) = Len(rx) - 1 /\ Len(rx) \in Nat
  OBVIOUS
<1>2. \A m \in Message : Len(Append(rx, m)) = Len(rx) + 1
  OBVIOUS
<1>3. Len(rx) - 1 # Len(rx) /\ Len(rx) + 1 # Len(rx) - 1
  <2>1. \A n \in Nat : n - 1 # n /\ n + 1 # n - 1
    OBVIOUS
  <2> QED
    BY <1>1, <2>1, Zenon
<1>4. Tail(rx) # rx
  BY <1>1, <1>3, Zenon
<1>5. \A m \in Message : Append(rx, m) # Tail(rx)
  BY <1>1, <1>2, <1>3, Zenon
<1> QED
  BY <1>4, <1>5

\* The message a waiting call reads is its own exactly when it matches.
LEMMA OwnMatches ==
    ASSUME Inv, NEW u \in Users, InCall(u), rx # <<>>
    PROVE  /\ Head(rx).for = u => Matches(u, Head(rx))
           /\ Matches(u, Head(rx)) => Head(rx).for = u /\ verdict[u] = Head(rx).type
<1>1. Head(rx) \in Received /\ Head(rx) \in Message
  BY HeadReceived DEF Inv, TypeOK
<1>2. CASE Head(rx).for = u
  <2>1. Head(rx).type \in {"OK", "ERROR"}
    BY <1>1, <1>2, TasksAssumption DEF Message
  <2> QED
    BY <1>1, <1>2, <2>1 DEF Inv, Owned, Matches
<1>3. CASE Head(rx).for # u
  BY <1>1, <1>3 DEF Inv, Recognised, Matches
<1> QED
  BY <1>2, <1>3

(***************************************************************************)
(* While a call waits, no other task reads: those who do hold the lock.    *)
(* The call itself returns with its answer, which it recognises.           *)
(***************************************************************************)
LEMMA NextAnswers ==
    Inv /\ [Next]_vars =>
      \A u \in Users :
         (pc[u] = "reading" /\ rx # <<>> /\ Head(rx).for = u /\ rx' = Tail(rx) /\ connected')
            => pc'[u] = "ready"
<1> SUFFICES ASSUME Inv, [Next]_vars, NEW u \in Users, pc[u] = "reading", rx # <<>>,
                    Head(rx).for = u, rx' = Tail(rx), connected'
             PROVE  pc'[u] = "ready"
  OBVIOUS
<1>1. /\ PcType /\ lock \in Tasks \cup {NoTask} /\ SocketType /\ LocalTypes
      /\ LockHeld /\ Owned /\ Recognised /\ WithinLimit
  BY TypeParts DEF Inv
<1>2. InCall(u) /\ lock = u /\ lock # Client /\ lock # NoTask
  BY <1>1, TasksAssumption DEF LockHeld, InCall
<1>3. rx' # rx /\ \A m \in Message : rx' # Append(rx, m)
  BY <1>1, TailDiffers DEF SocketType
<1>4. ~ClientStep
  <2>1. ~ConnectSucceeds /\ ~SendConnect /\ ~ConnectNotWritten /\ ~LockAnswer
    BY <1>2, <1>3 DEF ConnectSucceeds, SendConnect, ConnectNotWritten, LockAnswer, Guarded,
                      socket
  <2>2. ~Authenticate /\ ~FailAuthentication /\ ~Read /\ ~ReadTimesOut
    BY <1>2 DEF Authenticate, FailAuthentication, Read, ReadTimesOut, Release
  <2>3. ~LinkIsUp /\ ~LinkIsDown /\ ~SeeData /\ ~SeeNoData /\ ~LockRead
    BY <1>3 DEF LinkIsUp, LinkIsDown, GiveUpLink, Disconnect, SeeData, SeeNoData, LockRead,
                socket
  <2>4. ~Respond /\ ~HandleDisconnect /\ ~SendPeriodic
    BY <1>3 DEF Respond, HandleDisconnect, Disconnect, SendPeriodic
  <2> QED
    BY <2>1, <2>2, <2>3, <2>4 DEF ClientStep
<1>5. ~ServerAnswers
  <2> SUFFICES ASSUME ServerAnswers PROVE FALSE
    OBVIOUS
  <2>1. PICK r \in asked, type \in {"OK", "ERROR"} :
          rx' = Append(rx, [type |-> type, id |-> r.id, for |-> r.for])
    BY DEF ServerAnswers
  <2>2. [type |-> type, id |-> r.id, for |-> r.for] \in Message
    BY <1>1 DEF SocketType, Request, Message
  <2> QED
    BY <1>3, <2>1, <2>2
<1>6. ~ServerSends
  <2> SUFFICES ASSUME ServerSends PROVE FALSE
    OBVIOUS
  <2>1. PICK type \in {"REQUEST", "DISCONNECT"} :
          rx' = Append(rx, [type |-> type, id |-> 0, for |-> NoTask])
    BY DEF ServerSends
  <2>2. [type |-> type, id |-> 0, for |-> NoTask] \in Message
    BY DEF Message
  <2> QED
    BY <1>3, <2>1, <2>2
<1>7. ~LinkDrops /\ ~UNCHANGED vars
  BY <1>3 DEF LinkDrops, vars, socket
<1>8. \A v \in Users : ~CallWhileDisconnected(v) /\ ~Call(v) /\ ~Send(v)
  BY <1>2, <1>3 DEF CallWhileDisconnected, Call, Send, Acquire, socket
<1>9. ASSUME NEW v \in Users, UserStep(v) PROVE pc'[u] = "ready"
  <2>1. v = u
    BY <1>1, <1>2, <1>9
       DEF UserStep, StartRead, Awaits, ReceiveAnswer, HandleOther, ReceiveNothing, Return, Release,
           LockHeld, InCall
  <2>2. ~HandleOther(u) /\ ~StartRead(u)
    BY <1>2, OwnMatches DEF HandleOther, StartRead, Awaits
  <2>3. \E value \in {"true", "false"} : Return(u, value)
    BY <1>9, <2>1, <2>2 DEF UserStep, ReceiveAnswer, ReceiveNothing
  <2> QED
    BY <1>1, <2>3, UserGoes DEF Return, UserPcs
<1> QED
  BY <1>4, <1>5, <1>6, <1>7, <1>8, <1>9 DEF Next

(***************************************************************************)
(* iotmp_client.hpp:663-667: no task but the one that waits for it consumes *)
(* the answer to a call, and the call ends with it.                        *)
(***************************************************************************)
THEOREM AnswersAlwaysReachTheirCaller == Spec => AnswersReachTheirCaller
<1>1. Inv /\ [Next]_vars =>
        [\A u \in Users :
           (pc[u] = "reading" /\ rx # <<>> /\ Head(rx).for = u /\ rx' = Tail(rx) /\ connected')
              => pc'[u] = "ready"]_vars
  BY NextAnswers
<1> QED
  BY <1>1, Invariant, PTL DEF Spec, AnswersReachTheirCaller

-----------------------------------------------------------------------------
(* Calls. *)

\* What a step does that changes neither where a call stands nor its result.
LEMMA CallsIdle ==
    ASSUME UNCHANGED <<result, verdict>>,
           \A u \in Users : pc'[u] = "ready" <=> pc[u] = "ready"
    PROVE  UNCHANGED Calls!calls
<1>1. \A u \in Users : CallState(u)' = CallState(u)
  BY DEF CallState
<1> QED
  BY <1>1 DEF Calls!calls
\* A call that returns true has seen its own accepted request.
LEMMA ReturnRefines ==
    ASSUME Inv, NEW u \in Users, NEW value \in {"true", "false"}, Return(u, value),
           value = "true" => verdict[u] = "OK"
    PROVE  Calls!Return(u)
<1>1. PcType /\ LocalTypes /\ LockHeld
  BY TypeParts DEF Inv
<1>2. /\ pc'[u] = "ready" /\ \A v \in Users \ {u} : pc'[v] = pc[v]
      /\ result' = [result EXCEPT ![u] = value] /\ verdict' = [verdict EXCEPT ![u] = "none"]
      /\ pc[u] \in {"waiting", "reading"}
  BY <1>1, UserGoes DEF Return, Release, UserPcs, LockHeld, InCall
<1>3. result'[u] = value /\ \A v \in Users \ {u} : result'[v] = result[v]
  BY <1>1, <1>2 DEF LocalTypes
<1>4. CallState(u)' = value /\ \A v \in Users \ {u} : CallState(v)' = CallState(v)
  BY <1>2, <1>3 DEF CallState
<1>5. [v \in Users |-> CallState(v)]' = [[v \in Users |-> CallState(v)] EXCEPT ![u] = value]
  BY <1>4
<1>6. CallState(u) = "pending"
  BY <1>2 DEF CallState
<1> QED
  BY <1>2, <1>5, <1>6 DEF Calls!Return

\* Every step is a step of the abstract calls, or none.
LEMMA NextRefines == Inv /\ [Next]_vars => [Calls!Next]_(Calls!calls)
<1> SUFFICES ASSUME Inv, [Next]_vars PROVE [Calls!Next]_(Calls!calls)
  OBVIOUS
<1>1. /\ PcType /\ lock \in Tasks \cup {NoTask} /\ SocketType /\ LocalTypes
      /\ LockHeld /\ Owned /\ Recognised /\ WithinLimit
  BY TypeParts DEF Inv
<1>2. CASE ClientStep
  BY <1>1, <1>2, ClientMoves, ClientTransfers, CallsIdle DEF locals
<1>3. ASSUME NEW u \in Users, CallWhileDisconnected(u) PROVE Calls!Refuse(u)
  <2>1. pc[u] = "ready" /\ UNCHANGED <<pc, verdict>> /\ result[u] # "pending"
    BY <1>1, <1>3 DEF CallWhileDisconnected, LocalTypes
  <2>2. result'[u] = "false" /\ \A v \in Users \ {u} : result'[v] = result[v]
    BY <1>1, <1>3 DEF CallWhileDisconnected, LocalTypes
  <2>3. CallState(u)' = "false" /\ \A v \in Users \ {u} : CallState(v)' = CallState(v)
    BY <2>1, <2>2 DEF CallState
  <2>4. CallState(u) # "pending"
    BY <2>1 DEF CallState
  <2> QED
    BY <2>1, <2>3, <2>4 DEF Calls!Refuse
<1>4. ASSUME NEW u \in Users, Call(u) PROVE Calls!Invoke(u)
  <2>1. /\ pc[u] = "ready" /\ UNCHANGED verdict /\ result[u] # "pending"
        /\ pc'[u] = "enter" /\ \A v \in Users \ {u} : pc'[v] = pc[v]
    BY <1>1, <1>4, UserGoes DEF Call, LocalTypes, UserPcs
  <2>2. \A v \in Users \ {u} : result'[v] = result[v]
    BY <1>1, <1>4 DEF Call, LocalTypes
  <2>3. CallState(u)' = "pending" /\ \A v \in Users \ {u} : CallState(v)' = CallState(v)
    BY <2>1, <2>2 DEF CallState
  <2>4. CallState(u) # "pending"
    BY <2>1 DEF CallState
  <2> QED
    BY <2>1, <2>3, <2>4 DEF Calls!Invoke
<1>5. ASSUME NEW u \in Users, Send(u) PROVE UNCHANGED Calls!calls
  <2>1. pc[u] = "enter" /\ UNCHANGED <<result, verdict>>
    BY <1>5 DEF Send
  <2>2. \A v \in Users : pc'[v] = "ready" <=> pc[v] = "ready"
    BY <1>1, <1>5, <2>1, UserGoes DEF Send, UserPcs
  <2> QED
    BY <2>1, <2>2, CallsIdle
<1>6. ASSUME NEW u \in Users, UserStep(u) PROVE [Calls!Return(u)]_(Calls!calls)
  <2>1. CASE ReceiveAnswer(u)
    <3>1. InCall(u) /\ rx # <<>> /\ Matches(u, Head(rx))
      BY <2>1 DEF ReceiveAnswer, InCall
    <3>2. verdict[u] = Head(rx).type
      BY <3>1, OwnMatches
    <3>3. CASE Head(rx).type = "OK"
      BY <2>1, <3>2, <3>3, ReturnRefines DEF ReceiveAnswer
    <3>4. CASE Head(rx).type # "OK"
      BY <2>1, <3>4, ReturnRefines DEF ReceiveAnswer
    <3> QED
      BY <3>3, <3>4
  <2>2. CASE StartRead(u) \/ HandleOther(u)
    <3>1. /\ pc'[u] # "ready" /\ pc[u] # "ready" /\ UNCHANGED <<result, verdict>>
          /\ \A v \in Users \ {u} : pc'[v] = pc[v]
      BY <1>1, <2>2, UserGoes DEF StartRead, Awaits, HandleOther, UserPcs, locals
    <3> QED
      BY <3>1, CallsIdle
  <2>3. CASE ReceiveNothing(u)
    BY <2>3, ReturnRefines DEF ReceiveNothing
  <2> QED
    BY <1>6, <2>1, <2>2, <2>3 DEF UserStep
<1>7. CASE ServerAnswers
  <2>1. PICK r \in asked, type \in {"OK", "ERROR"} :
          verdict' = IF r.for \in Users THEN [verdict EXCEPT ![r.for] = type] ELSE verdict
    BY <1>7 DEF ServerAnswers
  <2>2. \A u \in Users : CallState(u)' = CallState(u)
    BY <1>7 DEF ServerAnswers, CallState
  <2>3. CASE r.for \in Users
    <3>1. pc[r.for] # "ready" /\ verdict[r.for] = "none"
      BY <1>1, <2>3 DEF Owned, InCall
    <3>2. CallState(r.for) = "pending"
      BY <3>1 DEF CallState
    <3>3. Calls!Decide(r.for)
      BY <2>1, <2>2, <2>3, <3>1, <3>2 DEF Calls!Decide
    <3> QED
      BY <2>3, <3>3 DEF Calls!Next
  <2>4. CASE r.for \notin Users
    BY <2>1, <2>2, <2>4 DEF Calls!calls
  <2> QED
    BY <2>3, <2>4
<1>8. CASE ServerSends \/ LinkDrops \/ UNCHANGED vars
  BY <1>8, CallsIdle DEF ServerSends, LinkDrops, vars, locals
<1> QED
  BY <1>2, <1>3, <1>4, <1>5, <1>6, <1>7, <1>8 DEF Next, Calls!Next

(***************************************************************************)
(* A call returns true only when the server accepted this very request,    *)
(* and is decided at most once: the tasks implement RemoteCalls step by    *)
(* step.  That calls return is left to the run.                            *)
(***************************************************************************)
THEOREM ImplementsRemoteCalls == Spec => CallsSafety
<1>1. Init => Calls!Init
  BY TasksAssumption DEF Init, Calls!Init, CallState, Tasks
<1> QED
  BY <1>1, Invariant, NextRefines, PTL DEF Spec, CallsSafety

=============================================================================
