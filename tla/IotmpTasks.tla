----------------------------- MODULE IotmpTasks -----------------------------
(***************************************************************************)
(* The client on a platform with tasks: one task runs handle(), others     *)
(* call the server API (write_bucket(), set_property(), ...), and the I/O  *)
(* lock behind io_guard keeps their use of the socket apart.  What the     *)
(* lock covers is the socket; connected_, data_available_(), connect_()    *)
(* and disconnect() are used without it, and a step ends wherever another  *)
(* task can come in between.                                               *)
(*                                                                         *)
(* Time is left out: a read that finds nothing may time out at any moment, *)
(* and the backoff (IotmpSession) delays connections, no more.  Messages   *)
(* are OK and ERROR, the answers to a request of the device, REQUEST, any  *)
(* request of the server that is answered, and DISCONNECT.                 *)
(***************************************************************************)
EXTENDS Naturals, Sequences, FiniteSets

CONSTANTS
    Users,        \* the tasks that call the server API
    Client,       \* the task that runs handle()
    NoTask,
    Ids,          \* ids of the calls, what set_random_stream_id() draws from
    MaxAttempts,  \* messages one call reads at most (100)
    MaxRx,        \* bound: messages waiting in the transport
    MaxLate       \* bound: requests of returned calls the server may still answer

ASSUME TasksAssumption == Client \notin Users /\ NoTask \notin Users \cup {Client}

ASSUME BoundsAssumption == {MaxAttempts, MaxRx, MaxLate} \subseteq Nat

Tasks == Users \cup {Client}

VARIABLES
    pc,         \* where each task stands
    lock,       \* the task that holds the I/O lock, or NoTask
    connected,  \* connected_
    link,       \* is_connected_impl()
    rx,         \* messages received and not read
    asked,      \* requests of the device the server has not answered
    first,      \* type of the first message written on this link
    id,         \* expected_id of each user's call
    attempts,   \* attempts of each user's call
    result,     \* what each user's last call returned, "none" before and during one
    verdict     \* how the server answered the request each user waits for

socket == <<connected, link, rx, asked, first>>
locals == <<id, attempts, result, verdict>>
vars == <<pc, lock, socket, locals>>

\* A request or an answer; for is the task whose call it belongs to, NoTask
\* when that call has returned.
Request == [id : Ids \cup {0}, for : Tasks \cup {NoTask}]

Message ==
    [type : {"OK", "ERROR"}, id : Ids \cup {0}, for : Tasks \cup {NoTask}]
      \cup [type : {"REQUEST", "DISCONNECT"}, id : {0}, for : {NoTask}]

ClientPcs == {"idle", "greet", "authread", "authwait", "loop", "wantread", "reading",
              "respond", "drop", "keepalive"}

UserPcs == {"ready", "enter", "waiting", "reading"}

Init ==
    /\ pc = [t \in Tasks |-> IF t = Client THEN "idle" ELSE "ready"]
    /\ lock = NoTask
    /\ connected = FALSE /\ link = FALSE /\ rx = <<>> /\ asked = {} /\ first = "NOTHING"
    /\ id = [u \in Users |-> 0] /\ attempts = [u \in Users |-> 0]
    /\ result = [u \in Users |-> "none"] /\ verdict = [u \in Users |-> "none"]

-----------------------------------------------------------------------------

Goto(t, label) == pc' = [pc EXCEPT ![t] = label]

\* Mutant: a lock that does not exclude, as of a platform that sets none.
AcquireUnlocked(t) == lock' = t

\* io_guard: wait for the lock, and give it back.
Acquire(t) == lock = NoTask /\ lock' = t

Release(t) == lock = t /\ lock' = NoTask

\* A guard around one read or write, which no other task can observe held.
Guarded == lock = NoTask /\ UNCHANGED lock

\* A message of this type is written; on a closed link the write fails.
Write(type) == first' = IF link /\ first = "NOTHING" THEN type ELSE first

\* disconnect(): the transport drops what it holds; nothing is locked.
Disconnect ==
    /\ connected' = FALSE /\ link' = FALSE
    /\ rx' = <<>> /\ asked' = {}
    /\ UNCHANGED first

-----------------------------------------------------------------------------
(* The client task: handle(). *)

ConnectSucceeds ==
    /\ pc[Client] = "idle" /\ ~connected
    /\ Goto(Client, "greet")
    /\ link' = TRUE /\ rx' = <<>> /\ asked' = {} /\ first' = "NOTHING"
    /\ UNCHANGED <<lock, connected, locals>>

\* The first half of authenticate().
SendConnect ==
    /\ pc[Client] = "greet" /\ link
    /\ Guarded
    /\ Goto(Client, "authread")
    /\ Write("CONNECT")
    /\ asked' = asked \cup {[id |-> 0, for |-> Client]}
    /\ UNCHANGED <<connected, link, rx, locals>>

\* handle() when authenticate() failed, or a read of process_incoming().
GiveUpLink ==
    /\ Goto(Client, "idle")
    /\ Disconnect
    /\ UNCHANGED locals

ConnectNotWritten == pc[Client] = "greet" /\ ~link /\ Guarded /\ GiveUpLink

\* The second half of authenticate(): the lock is taken anew.
LockAnswer ==
    /\ pc[Client] = "authread"
    /\ Acquire(Client)
    /\ Goto(Client, "authwait")
    /\ UNCHANGED <<socket, locals>>

Authenticate ==
    /\ pc[Client] = "authwait" /\ rx # <<>> /\ Head(rx).type = "OK"
    /\ Release(Client)
    /\ Goto(Client, "idle")
    /\ connected' = TRUE
    /\ rx' = Tail(rx)
    /\ UNCHANGED <<link, asked, first, locals>>

FailAuthentication ==
    /\ pc[Client] = "authwait" /\ ~(rx # <<>> /\ Head(rx).type = "OK")
    /\ Release(Client)
    /\ GiveUpLink

LinkIsUp ==
    /\ pc[Client] = "idle" /\ connected /\ link
    /\ Goto(Client, "loop")
    /\ UNCHANGED <<lock, socket, locals>>

LinkIsDown ==
    /\ pc[Client] = "idle" /\ connected /\ ~link
    /\ UNCHANGED lock
    /\ GiveUpLink

\* data_available_() is asked without the lock.
SeeData ==
    /\ pc[Client] = "loop" /\ rx # <<>>
    /\ Goto(Client, "wantread")
    /\ UNCHANGED <<lock, socket, locals>>

SeeNoData ==
    /\ pc[Client] = "loop" /\ rx = <<>>
    /\ Goto(Client, "keepalive")
    /\ UNCHANGED <<lock, socket, locals>>

\* read_message() waits for the lock ...
LockRead ==
    /\ pc[Client] = "wantread"
    /\ Acquire(Client)
    /\ Goto(Client, "reading")
    /\ UNCHANGED <<socket, locals>>

\* ... reads what has come by then ...
Read ==
    /\ pc[Client] = "reading" /\ rx # <<>>
    /\ Release(Client)
    /\ rx' = Tail(rx)
    /\ Goto(Client, CASE Head(rx).type = "REQUEST"         -> "respond"
                      [] Head(rx).type = "DISCONNECT"      -> "drop"
                      [] Head(rx).type \in {"OK", "ERROR"} -> "loop")
    /\ UNCHANGED <<connected, link, asked, first, locals>>

\* ... or nothing, until it times out.
ReadTimesOut ==
    /\ pc[Client] = "reading" /\ rx = <<>>
    /\ Release(Client)
    /\ GiveUpLink

\* A handler ran and sends its answer.
Respond ==
    /\ pc[Client] = "respond"
    /\ Guarded
    /\ Goto(Client, "loop")
    /\ Write("ANSWER")
    /\ UNCHANGED <<connected, link, rx, asked, locals>>

HandleDisconnect ==
    /\ pc[Client] = "drop"
    /\ Goto(Client, "loop")
    /\ Disconnect
    /\ UNCHANGED <<lock, locals>>

\* process_keepalive() and check_streams() write, or have nothing to write.
SendPeriodic ==
    /\ pc[Client] = "keepalive"
    /\ Goto(Client, "idle")
    /\ UNCHANGED <<lock, connected, link, rx, asked, locals>>
    /\ UNCHANGED first \/ (lock = NoTask /\ Write("KEEP_ALIVE"))

ClientStep ==
    \/ ConnectSucceeds \/ SendConnect \/ ConnectNotWritten \/ LockAnswer \/ Authenticate
    \/ FailAuthentication \/ LinkIsUp \/ LinkIsDown \/ SeeData \/ SeeNoData \/ LockRead
    \/ Read \/ ReadTimesOut \/ Respond \/ HandleDisconnect \/ SendPeriodic

-----------------------------------------------------------------------------
(* A user task: send_and_wait_response(). *)

\* What belongs to a call that has returned belongs to nobody.
Orphan(r, u) == IF r.for = u THEN [r EXCEPT !.for = NoTask] ELSE r

OrphanRequests(u) == {Orphan(r, u) : r \in asked}

OrphanAnswers(messages, u) == [i \in DOMAIN messages |-> Orphan(messages[i], u)]

Late(requests) == {r \in requests : r.for = NoTask}

CallWhileDisconnected(u) ==
    /\ pc[u] = "ready" /\ ~connected
    /\ result' = [result EXCEPT ![u] = "false"]
    /\ UNCHANGED <<pc, lock, socket, id, attempts, verdict>>

\* connected_ is read before the lock is asked for.
Call(u) ==
    /\ pc[u] = "ready" /\ connected
    /\ Goto(u, "enter")
    /\ result' = [result EXCEPT ![u] = "none"]
    /\ UNCHANGED <<lock, socket, id, attempts, verdict>>

(***************************************************************************)
(* An id drawn from 16 random bits is taken to differ from those of        *)
(* requests and answers still on their way.                                *)
(***************************************************************************)
InFlight == {r.id : r \in asked} \cup {rx[i].id : i \in DOMAIN rx}

Send(u) ==
    /\ pc[u] = "enter"
    /\ Acquire(u)
    /\ Goto(u, "waiting")
    /\ \E n \in Ids \ InFlight :
         /\ id' = [id EXCEPT ![u] = n]
         /\ asked' = IF link THEN asked \cup {[id |-> n, for |-> u]} ELSE asked
    /\ attempts' = [attempts EXCEPT ![u] = 0]
    /\ Write("RUN")
    /\ UNCHANGED <<connected, link, rx, result, verdict>>

\* Mutant: one message too many.
AwaitsOneMore(u) == pc[u] = "waiting" /\ connected /\ attempts[u] <= MaxAttempts

\* The condition of the loop; connected_ may change once it has been read.
Awaits(u) == pc[u] = "waiting" /\ connected /\ attempts[u] < MaxAttempts

StartRead(u) ==
    /\ Awaits(u)
    /\ Goto(u, "reading")
    /\ UNCHANGED <<lock, socket, locals>>

\* Mutant: any answer is taken for the awaited one.
MatchesAny(u, m) == m.type \in {"OK", "ERROR"}

Matches(u, m) == m.id = id[u] /\ m.type \in {"OK", "ERROR"}

\* The call returns and its guard gives the lock back; a request the server
\* has not answered may be answered late, or never.
Return(u, value) ==
    /\ Release(u)
    /\ Goto(u, "ready")
    /\ result' = [result EXCEPT ![u] = value]
    /\ id' = [id EXCEPT ![u] = 0] /\ attempts' = [attempts EXCEPT ![u] = 0]
    /\ verdict' = [verdict EXCEPT ![u] = "none"]
    /\ \/ asked' = {r \in asked : r.for # u}
       \/ asked' = OrphanRequests(u) /\ Cardinality(Late(asked')) <= MaxLate
    /\ UNCHANGED <<connected, link, first>>

ReceiveAnswer(u) ==
    /\ pc[u] = "reading" /\ rx # <<>> /\ Matches(u, Head(rx))
    /\ rx' = OrphanAnswers(Tail(rx), u)
    /\ Return(u, IF Head(rx).type = "OK" THEN "true" ELSE "false")

\* Any other message is handled here, with the lock held.
HandleOther(u) ==
    /\ pc[u] = "reading" /\ rx # <<>> /\ ~Matches(u, Head(rx))
    /\ Goto(u, "waiting")
    /\ attempts' = [attempts EXCEPT ![u] = @ + 1]
    /\ CASE Head(rx).type = "DISCONNECT" -> Disconnect
         [] Head(rx).type = "REQUEST" ->
              Write("ANSWER") /\ rx' = Tail(rx) /\ UNCHANGED <<connected, link, asked>>
         [] Head(rx).type \in {"OK", "ERROR"} ->
              rx' = Tail(rx) /\ UNCHANGED <<connected, link, asked, first>>
    /\ UNCHANGED <<lock, id, result, verdict>>

\* The read fails, or the loop ends: disconnected, or too many messages.
ReceiveNothing(u) ==
    /\ \/ pc[u] = "reading" /\ rx = <<>>
       \/ pc[u] = "waiting" /\ ~Awaits(u)
    /\ rx' = OrphanAnswers(rx, u)
    /\ Return(u, "false")

UserStep(u) == StartRead(u) \/ ReceiveAnswer(u) \/ HandleOther(u) \/ ReceiveNothing(u)

-----------------------------------------------------------------------------
(* The server and the network. *)

\* The server answers a request, and a verdict is passed on it.
ServerAnswers ==
    /\ link /\ Len(rx) < MaxRx
    /\ \E r \in asked, type \in {"OK", "ERROR"} :
         /\ asked' = asked \ {r}
         /\ rx' = Append(rx, [type |-> type, id |-> r.id, for |-> r.for])
         /\ verdict' = IF r.for \in Users THEN [verdict EXCEPT ![r.for] = type] ELSE verdict
    /\ UNCHANGED <<pc, lock, connected, link, first, id, attempts, result>>

ServerSends ==
    /\ link /\ Len(rx) < MaxRx
    /\ \E type \in {"REQUEST", "DISCONNECT"} :
         rx' = Append(rx, [type |-> type, id |-> 0, for |-> NoTask])
    /\ UNCHANGED <<pc, lock, connected, link, asked, first, locals>>

LinkDrops ==
    /\ link
    /\ link' = FALSE /\ asked' = {}
    /\ UNCHANGED <<pc, lock, connected, rx, first, locals>>

Next ==
    \/ ClientStep
    \/ \E u \in Users : CallWhileDisconnected(u) \/ Call(u) \/ Send(u) \/ UserStep(u)
    \/ ServerAnswers \/ ServerSends \/ LinkDrops

(***************************************************************************)
(* Every task that can run is scheduled, and the lock is fair: a task that *)
(* waits for it while it is free again and again gets it.  No reply of the *)
(* server is assumed.                                                      *)
(***************************************************************************)
Fairness ==
    /\ WF_vars(ClientStep)
    /\ \A u \in Users : WF_vars(UserStep(u)) /\ SF_vars(Send(u))

Spec == Init /\ [][Next]_vars /\ Fairness

-----------------------------------------------------------------------------
(* Properties. *)

TypeOK ==
    /\ pc \in [Tasks -> ClientPcs \cup UserPcs]
    /\ pc[Client] \in ClientPcs /\ \A u \in Users : pc[u] \in UserPcs
    /\ lock \in Tasks \cup {NoTask}
    /\ connected \in BOOLEAN /\ link \in BOOLEAN
    /\ rx \in Seq(Message) /\ asked \subseteq Request
    /\ first \in {"NOTHING", "CONNECT", "RUN", "ANSWER", "KEEP_ALIVE"}
    /\ id \in [Users -> Ids \cup {0}] /\ attempts \in [Users -> 0 .. MaxAttempts]
    /\ result \in [Users -> {"none", "true", "false"}]
    /\ verdict \in [Users -> {"none", "OK", "ERROR"}]

(***************************************************************************)
(* iotmp_client.hpp:663-667: the answer to a call is read by the task that *)
(* waits for it and ends its call; while the client stays connected no     *)
(* other task consumes it.                                                 *)
(***************************************************************************)
AnswersReachTheirCaller ==
    [][\A u \in Users :
         (pc[u] = "reading" /\ rx # <<>> /\ Head(rx).for = u /\ rx' = Tail(rx) /\ connected')
            => pc'[u] = "ready"]_vars

(***************************************************************************)
(* Calls from any number of tasks return, and return true only when the    *)
(* server accepted this very request: RemoteCalls, with its liveness.      *)
(***************************************************************************)
CallState(u) == IF pc[u] = "ready" THEN result[u] ELSE "pending"

Calls == INSTANCE RemoteCalls WITH
    Callers <- Users,
    call <- [u \in Users |-> CallState(u)],
    verdict <- verdict

CallsSafety == Calls!Init /\ [][Calls!Next]_(Calls!calls)

\* ... and calls return: the whole abstract specification.
RemoteCallsSpec == Calls!Spec

(***************************************************************************)
(* iotmp_client.hpp:170-173, the lock "prevents a device-initiated RPC ... *)
(* reading from another task from stealing bytes from the client task's    *)
(* read": data the client task was told of is there when it reads.         *)
(***************************************************************************)
SeenDataIsThere == pc[Client] = "reading" /\ link => rx # <<>>

(***************************************************************************)
(* iotmp_client.hpp:631-634, calls from other tasks "never interleave      *)
(* socket reads/writes with the client task": a connection begins with the *)
(* client task's CONNECT.                                                  *)
(***************************************************************************)
ConnectionsBeginWithConnect == first \in {"NOTHING", "CONNECT"}

=============================================================================
