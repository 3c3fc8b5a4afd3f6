---------------------------- MODULE Subscriptions ----------------------------
(***************************************************************************)
(* What the server may rely on when it subscribes to resources of a        *)
(* device: data travels only on a stream it has opened and not yet closed, *)
(* and it is data of the resource that stream was opened for.  When data   *)
(* is sent is left open.  IotmpStreams implements this module.             *)
(***************************************************************************)
CONSTANTS Ids, Resources, NoResource

VARIABLES
    subscribed,  \* the resource each stream id is open for, or NoResource
    published    \* <<id, resource>>: the data sent by the last step

subscriptions == <<subscribed, published>>

Open == {s \in Ids : subscribed[s] # NoResource}

\* The pairs data may be published for.
Wanted(sub) == {<<s, sub[s]>> : s \in {i \in Ids : sub[i] # NoResource}}

Init ==
    /\ subscribed = [s \in Ids |-> NoResource]
    /\ published = {}

\* The server opens s for r, or moves it to r; the answer may carry data of r.
Subscribe(s, r) ==
    /\ subscribed' = [subscribed EXCEPT ![s] = r]
    /\ published' \subseteq {<<s, r>>}

\* Nothing is published on a stream in the step that closes it, nor later.
Unsubscribe(s) ==
    /\ subscribed' = [subscribed EXCEPT ![s] = NoResource]
    /\ published' = {}

\* The end of the connection closes every stream.
UnsubscribeAll ==
    /\ subscribed' = [s \in Ids |-> NoResource]
    /\ published' = {}

Publish ==
    /\ published' \subseteq Wanted(subscribed)
    /\ UNCHANGED subscribed

Next ==
    \/ \E s \in Ids, r \in Resources : Subscribe(s, r)
    \/ \E s \in Ids : Unsubscribe(s)
    \/ UnsubscribeAll
    \/ Publish

Spec == Init /\ [][Next]_subscriptions

=============================================================================
