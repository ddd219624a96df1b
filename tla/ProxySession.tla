---------------------------- MODULE ProxySession ----------------------------
(***************************************************************************)
(* What a proxied session promises to the two peers, whatever the protocol *)
(* between them and however the session ends: the requests reach the       *)
(* target in order, each once; the responses reach the client in order,    *)
(* each once; a client that was told "granted" has a route to the target;  *)
(* and a client that was told "refused" has not been heard by it.          *)
(***************************************************************************)
EXTENDS Naturals, Sequences

CONSTANTS Requests, Responses   \* what the peers have to say, as sequences

VARIABLES
    route,      \* is there a connection to the target?
    verdict,    \* what the client knows: "none", "granted" or "refused"
    asked,      \* the requests the client has sent
    heard,      \* those the target has received
    answered,   \* the responses the target has sent
    received    \* those the client has received

vars == <<route, verdict, asked, heard, answered, received>>

Init ==
    /\ route = FALSE /\ verdict = "none"
    /\ asked = <<>> /\ heard = <<>> /\ answered = <<>> /\ received = <<>>

Open == route' = TRUE /\ UNCHANGED <<verdict, asked, heard, answered, received>>

Grant ==
    /\ verdict = "none" /\ route
    /\ verdict' = "granted"
    /\ UNCHANGED <<route, asked, heard, answered, received>>

Refuse ==
    /\ verdict = "none" /\ heard = <<>>
    /\ verdict' = "refused"
    /\ UNCHANGED <<route, asked, heard, answered, received>>

\* The next of all, which the sender has said so far.
Ask ==
    /\ Len(asked) < Len(Requests)
    /\ asked' = Append(asked, Requests[Len(asked) + 1])
    /\ UNCHANGED <<route, verdict, heard, answered, received>>

Hear ==
    /\ route /\ verdict # "refused" /\ Len(heard) < Len(asked)
    /\ heard' = Append(heard, asked[Len(heard) + 1])
    /\ UNCHANGED <<route, verdict, asked, answered, received>>

Answer ==
    /\ route /\ Len(answered) < Len(Responses)
    /\ answered' = Append(answered, Responses[Len(answered) + 1])
    /\ UNCHANGED <<route, verdict, asked, heard, received>>

\* The client reads nothing of the target before it has read the answer.
Receive ==
    /\ verdict # "refused" /\ Len(received) < Len(answered)
    /\ received' = Append(received, answered[Len(received) + 1])
    /\ UNCHANGED <<route, verdict, asked, heard, answered>>

Next == Open \/ Grant \/ Refuse \/ Ask \/ Hear \/ Answer \/ Receive

Spec == Init /\ [][Next]_vars

=============================================================================
