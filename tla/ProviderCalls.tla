--------------------------- MODULE ProviderCalls ---------------------------
(***************************************************************************)
(* The calls by which a handler gets to know a provider, and what it owns  *)
(* on the way.  Each call may fail, and the handler then jumps to a label  *)
(* of its ladder of cleanups, from where it falls through to the end.  The *)
(* handles and texts the library returns belong to the caller: one that is *)
(* released without having been acquired is a wild or double release, one  *)
(* that is not released stays in the child for ever.                       *)
(***************************************************************************)
EXTENDS Naturals, Sequences, Functions

\* The ladder: what is released, in the order of the code, from the first label
\* to the end of the handler.
Ladder == <<"tokenResponse", "tokenEndpoint", "opMetadata", "metadata", "chain", "chains", "resolver">>

\* Where the labels stand in it.  The first is in req_redirect_handler only.
cleanup_token == 1
cleanup_op_metadata == 3
cleanup_metadata == 4
cleanup_chain == 5
cleanup_resolver == 6

Handle == Range(Ladder)
              \union {"authEndpoint", "issuer", "producer", "requestValues", "signedRequest", "jwt"}

ReleasedFrom(label) == SubSeq(Ladder, label, Len(Ladder))

\* A call: what is acquired to make it, what it gives when it succeeds, what is
\* released at once when it fails, and the label that comes then.
Call(takes, gives, also, label) ==
    [takes |-> takes, gives |-> gives, also |-> also, label |-> label]

\* Metadata without a token endpoint or an authorization endpoint counts as one
\* call more that may fail.
CommonCalls ==
    <<Call({"resolver", "chains"}, {}, <<>>, cleanup_resolver),
      Call({"chain"}, {"metadata"}, <<>>, cleanup_chain),
      Call({}, {"opMetadata"}, <<>>, cleanup_metadata)>>

\* Fault: construct_auth_url releases the metadata it was given when it fails,
\* and its caller does so again.
InitiationCallsTwice ==
    CommonCalls \o
    <<Call({}, {"authEndpoint"}, <<"opMetadata">>, cleanup_op_metadata),
      Call({}, {"issuer"}, <<"authEndpoint">>, cleanup_op_metadata),
      Call({}, {"producer"}, <<"issuer", "authEndpoint">>, cleanup_op_metadata),
      Call({}, {}, <<"issuer", "authEndpoint">>, cleanup_op_metadata),
      Call({"requestValues"}, {"signedRequest", "jwt"}, <<"requestValues", "authEndpoint">>,
           cleanup_op_metadata)>>

\* handle_open_id_authentication and construct_auth_url.
InitiationCalls ==
    CommonCalls \o
    <<Call({}, {"authEndpoint"}, <<>>, cleanup_op_metadata),
      Call({}, {"issuer"}, <<"authEndpoint">>, cleanup_op_metadata),
      Call({}, {"producer"}, <<"issuer", "authEndpoint">>, cleanup_op_metadata),
      Call({}, {}, <<"issuer", "authEndpoint">>, cleanup_op_metadata),  \* no redirect URI configured
      Call({"requestValues"}, {"signedRequest", "jwt"}, <<"requestValues", "authEndpoint">>,
           cleanup_op_metadata)>>

\* Fault: without a token endpoint the handler jumps one label too high.
CallbackCallsHigh ==
    CommonCalls \o <<Call({}, {"tokenEndpoint"}, <<>>, cleanup_token),
                     Call({"producer", "tokenResponse"}, {}, <<>>, cleanup_token)>>

\* Fault: a failed exchange skips the label that releases the texts.
CallbackCallsLow ==
    CommonCalls \o <<Call({}, {"tokenEndpoint"}, <<>>, cleanup_op_metadata),
                     Call({"producer", "tokenResponse"}, {}, <<>>, cleanup_op_metadata)>>

\* req_redirect_handler; the last call is the exchange of the code.
CallbackCalls ==
    CommonCalls \o <<Call({}, {"tokenEndpoint"}, <<>>, cleanup_op_metadata),
                     Call({"producer", "tokenResponse"}, {}, <<>>, cleanup_token)>>

\* What a handler owns after its first n calls.
OwnedAfter(calls, n) == UNION {calls[i].takes \union calls[i].gives : i \in 1 .. n}

ReleasedWhenFailing(call) == call.also \o ReleasedFrom(call.label)

\* What a handler that sends the browser on releases at its end.
ReleasedByInitiation ==
    <<"jwt", "issuer", "authEndpoint", "signedRequest", "requestValues">>
        \o ReleasedFrom(cleanup_op_metadata)

\* Fault: the texts are released where the exchange returns, and at the end.
ReleasedByCallbackTwice == <<"tokenResponse">> \o ReleasedFrom(cleanup_token)

ReleasedByCallback == ReleasedFrom(cleanup_token)

\* Releases, one after the other, by who owns what: nothing else and nothing twice.
Proper(owned, released) == IsInjective(released) /\ Range(released) \subseteq owned
=============================================================================
