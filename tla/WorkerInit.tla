----------------------------- MODULE WorkerInit -----------------------------
(***************************************************************************)
(* The start of a child process and the requests it then serves.  After a  *)
(* fork, worker_init_handler walks the server list: for each server with a *)
(* configuration it opens the wrapper library and builds the runtime of    *)
(* that configuration, part by part.  A part that cannot be built makes    *)
(* oidfed_worker_runtime_init return and leave what it has; nobody looks   *)
(* at the outcome, and the child goes on to the next server and to serving *)
(* requests.                                                               *)
(*                                                                         *)
(* Every call of the library, in the start-up and in requests, goes        *)
(* through a generated wrapper, which looks its function up when it is     *)
(* first called in the process and remembers it.                           *)
(*                                                                         *)
(* Virtual hosts without a directive of their own share the configuration  *)
(* of the main server, and a merge that overflows leaves a virtual host    *)
(* with none.                                                              *)
(***************************************************************************)
EXTENDS Naturals, Sequences

CONSTANTS
    Child,      \* the child processes of one httpd
    Config,     \* the configurations of the module
    Servers,    \* the server list, main server first
    ConfigOf,   \* the configuration of each server, or NoConfig
    NoConfig

\* What oidfed_worker_runtime_init builds, in its order.
Parts == <<"allocated", "anchors", "collector", "filter", "fedSigner", "oidcSigner",
           "fedAlg", "oidcAlg", "keyStorages", "sessionStorage", "metadata", "leaf", "owner">>

Part == {Parts[i] : i \in 1 .. Len(Parts)}

\* The parts whose failure ends the initialisation: a key file the worker's
\* user cannot read or that holds no key, an unknown algorithm, a leaf the
\* library rejects.
MayFail == {"fedSigner", "oidcSigner", "fedAlg", "oidcAlg", "leaf"}

ASSUME ServersAssumption == Servers \in Seq(DOMAIN ConfigOf) /\ Servers # <<>>
ASSUME ConfigOfAssumption == ConfigOf \in [DOMAIN ConfigOf -> Config \union {NoConfig}]
ASSUME NoConfigAssumption == NoConfig \notin Config

VARIABLES
    phase,      \* "down", "init" or "serving", for each child
    server,     \* index of the server worker_init_handler is at
    part,       \* index of the next part of its runtime; 0: library not opened yet
    library,    \* the wrapper library as the child has opened it
    bound,      \* the functions of the library that have been looked up
    runtime,    \* the parts of each configuration's runtime; {} is a null pointer
    request,    \* the request each child is deciding about, or NoRequest
    failed,     \* whether an initialisation failed in the child
    abort       \* why the child last went down

vars == <<phase, server, part, library, bound, runtime, request, failed, abort>>

\* A request is for a server; it asks for one of the module's own URIs
\* (well-known, login, redirect), or for a protected page and may bring a
\* cookie.  A malformed callback asks for the redirect URI with a code and with a
\* state parameter that does not start with a netstring.
OwnKinds == {"own", "malformedCallback"}
Kinds == OwnKinds \union {"page", "pageWithCookie"}
NoRequest == [kind |-> "none"]
Request == [kind : Kinds, config : Config \union {NoConfig}]

\* Not open; with every function; or of another version, in which some are missing.
Libraries == {"closed", "whole", "drifted"}

\* Parts that are built by calls into the wrapper library.
NeedsLibrary(p) == p \notin {"allocated", "sessionStorage", "owner"}

\* What is called to build each part, and what the handlers of requests call.
Function == {p \in Part : NeedsLibrary(p)} \union {"handler"}

Init ==
    /\ phase = [c \in Child |-> "down"]
    /\ server = [c \in Child |-> 1]
    /\ part = [c \in Child |-> 0]
    /\ library = [c \in Child |-> "closed"]
    /\ bound = [c \in Child |-> {}]
    /\ runtime = [c \in Child |-> [f \in Config |-> {}]]
    /\ request = [c \in Child |-> NoRequest]
    /\ failed = [c \in Child |-> FALSE]
    /\ abort = [c \in Child |-> "none"]

\* httpd forks a child.  Its memory is the parent's, where no runtime exists and
\* nothing of the library was called.
Fork(c) ==
    /\ phase[c] = "down"
    /\ phase' = [phase EXCEPT ![c] = "init"]
    /\ server' = [server EXCEPT ![c] = 1]
    /\ part' = [part EXCEPT ![c] = 0]
    /\ library' = [library EXCEPT ![c] = "closed"]
    /\ bound' = [bound EXCEPT ![c] = {}]
    /\ runtime' = [runtime EXCEPT ![c] = [f \in Config |-> {}]]
    /\ failed' = [failed EXCEPT ![c] = FALSE]
    /\ abort' = [abort EXCEPT ![c] = "none"]
    /\ UNCHANGED request

\* The process ends: an assertion fails, or memory is touched that is not there.
Die(c, why) ==
    /\ phase' = [phase EXCEPT ![c] = "down"]
    /\ request' = [request EXCEPT ![c] = NoRequest]
    /\ abort' = [abort EXCEPT ![c] = why]
    /\ UNCHANGED <<server, part, library, bound, runtime, failed>>

\* A crash in code that is not the module's, or httpd recycling the child.
Exit(c) == phase[c] # "down" /\ Die(c, "none")
-----------------------------------------------------------------------------
(* worker_init_handler and oidfed_worker_runtime_init *)

AtServer(c) == phase[c] = "init" /\ server[c] <= Len(Servers)
Current(c) == ConfigOf[Servers[server[c]]]

\* Fault: a server that shares a built runtime is visited again and again.
FollowingUnlessBuilt(c) ==
    IF Current(c) # NoConfig /\ runtime[c][Current(c)] # {} THEN server[c] ELSE server[c] + 1

Following(c) == server[c] + 1

NextServer(c) ==
    /\ server' = [server EXCEPT ![c] = Following(c)]
    /\ part' = [part EXCEPT ![c] = 0]

SkipServer(c) ==
    /\ AtServer(c) /\ Current(c) = NoConfig
    /\ NextServer(c)
    /\ UNCHANGED <<phase, library, bound, runtime, request, failed, abort>>

\* Fault: a runtime another server has built is started over.
AlreadyBuiltNever(f, c) == FALSE

\* The early return for a configuration shared with an earlier server.
AlreadyBuilt(f, c) == runtime[c][f] # {}

\* Fault: a library that is not found the second time is taken for lost.
HandleReplaced(held, found) == found

\* The pool's user data: only a library that was found replaces it, by itself.
HandleAfter(held, found) == IF held = "closed" THEN found ELSE held

\* oidfed_worker_init: the result of dlopen is not looked at.
OpenLibrary(c) ==
    /\ AtServer(c) /\ Current(c) # NoConfig /\ part[c] = 0
    /\ \E found \in IF library[c] = "closed" THEN Libraries ELSE {"closed", library[c]} :
          /\ library' = [library EXCEPT ![c] = HandleAfter(@, found)]
          /\ failed' = [failed EXCEPT ![c] = @ \/ found # "whole"]
    /\ IF AlreadyBuilt(Current(c), c)
       THEN NextServer(c)
       ELSE part' = [part EXCEPT ![c] = 1] /\ UNCHANGED server
    /\ UNCHANGED <<phase, bound, runtime, request, abort>>

\* A wrapper: a function that was looked up is called; another one is looked up
\* in the library, unless that is not open or does not have it.
CanCall(c, f) == f \in bound[c] \/ library[c] # "closed"
CallMayFail(c, f) == f \notin bound[c] /\ library[c] # "whole"
Bind(c, functions) == bound' = [bound EXCEPT ![c] = @ \union functions]

\* Fault: the runtime is marked as owned as soon as it is allocated.
PartAtOwnerFirst(i) ==
    IF i = 1 THEN "owner" ELSE IF i = Len(Parts) THEN "allocated" ELSE Parts[i]

PartAt(i) == Parts[i]

Building(c) == AtServer(c) /\ Current(c) # NoConfig /\ part[c] > 0

\* Allocation replaces whatever the configuration pointed to.
With(built, p) == IF p = "allocated" THEN {p} ELSE built \union {p}

\* Fault: the end of the initialisation is missed.
LastPartNever(c) == FALSE

LastPart(c) == part[c] = Len(Parts)

\* There may be no trust anchors to create.
BuildPart(c) ==
    /\ Building(c)
    /\ LET p == PartAt(part[c]) IN
       \/ NeedsLibrary(p) /\ CanCall(c, p) /\ Bind(c, {p})
       \/ (NeedsLibrary(p) => p = "anchors") /\ UNCHANGED bound
    /\ runtime' = [runtime EXCEPT ![c][Current(c)] = With(@, PartAt(part[c]))]
    /\ IF LastPart(c)
       THEN NextServer(c)
       ELSE part' = [part EXCEPT ![c] = @ + 1] /\ UNCHANGED server
    /\ UNCHANGED <<phase, library, request, failed, abort>>

\* The error is logged and the function returns; a key file that cannot be read
\* does so before the library is called.
FailPart(c) ==
    /\ Building(c)
    /\ PartAt(part[c]) \in MayFail
    /\ LET p == PartAt(part[c]) IN
       \/ CanCall(c, p) /\ Bind(c, {p})
       \/ p \in {"fedSigner", "oidcSigner"} /\ UNCHANGED bound
    /\ failed' = [failed EXCEPT ![c] = TRUE]
    /\ NextServer(c)
    /\ UNCHANGED <<phase, library, runtime, request, abort>>

\* The filter is appended under the assertion that the library has made it; a type
\* of filter nobody knows fails it too.
FilterFails(c) ==
    /\ Building(c)
    /\ PartAt(part[c]) = "filter" /\ CanCall(c, "filter")
    /\ Die(c, "filter")

\* The loader asserts that the library is open, and that it has the function.
CallFails(c) ==
    /\ Building(c)
    /\ NeedsLibrary(PartAt(part[c])) /\ CallMayFail(c, PartAt(part[c]))
    /\ Die(c, "library")

\* Fault: only the main server is initialised.
AfterLastServerMain(c) == server[c] = 2

AfterLastServer(c) == server[c] = Len(Servers) + 1

StartServing(c) ==
    /\ phase[c] = "init" /\ AfterLastServer(c)
    /\ phase' = [phase EXCEPT ![c] = "serving"]
    /\ UNCHANGED <<server, part, library, bound, runtime, request, failed, abort>>
-----------------------------------------------------------------------------
(* oidfed_type_dispatcher, oidfed_authenticate_user, oidfed_req_handler *)

Receive(c) ==
    /\ phase[c] = "serving" /\ request[c] = NoRequest
    /\ \E i \in 1 .. Len(Servers), k \in Kinds :
          request' = [request EXCEPT ![c] = [kind |-> k, config |-> ConfigOf[Servers[i]]]]
    /\ UNCHANGED <<phase, server, part, library, bound, runtime, failed, abort>>

Deciding(c) == phase[c] = "serving" /\ request[c] # NoRequest

\* Both hooks read the configuration before anything else.
WithoutConfig(c) ==
    /\ Deciding(c) /\ request[c].config = NoConfig
    /\ Die(c, IF request[c].kind \in OwnKinds THEN "dispatchNoConfig" ELSE "authenticateNoConfig")

Runtime(c) == runtime[c][request[c].config]

\* What the code that answers the request relies on.
Needs(kind) ==
    CASE kind \in OwnKinds -> {"owner"}
      [] kind = "page" -> {}
      [] kind = "pageWithCookie" -> {"sessionStorage"}

\* The handlers of the module's URIs do, and a page request that finds a session,
\* which such a handler has made.
CallsLibrary(c) ==
    request[c].kind \in {"own", "pageWithCookie"} /\ Needs("own") \subseteq Runtime(c)

Answer(c) ==
    /\ Deciding(c) /\ request[c].config # NoConfig
    /\ request[c].kind # "malformedCallback"
    /\ Needs(request[c].kind) \subseteq Runtime(c)
    /\ \/ UNCHANGED bound
       \/ CallsLibrary(c) /\ CanCall(c, "handler") /\ Bind(c, {"handler"})
    /\ request' = [request EXCEPT ![c] = NoRequest]
    /\ UNCHANGED <<phase, server, part, library, runtime, failed, abort>>

\* decode_netstring_inplace fails and leaves next_value the null pointer it was,
\* and the second call reads the place behind it.
MalformedState(c) ==
    /\ Deciding(c) /\ request[c].config # NoConfig
    /\ request[c].kind = "malformedCallback"
    /\ Needs(request[c].kind) \subseteq Runtime(c)
    /\ Die(c, "malformedState")

\* The assertion at the top of oidfed_req_handler fails, or get is called
\* through a null pointer.
WithoutRuntime(c) ==
    /\ Deciding(c) /\ request[c].config # NoConfig
    /\ ~(Needs(request[c].kind) \subseteq Runtime(c))
    /\ Die(c, "partialRuntime")

\* A handler calls a function the library does not have.
HandlerCallFails(c) ==
    /\ Deciding(c) /\ request[c].config # NoConfig
    /\ CallsLibrary(c) /\ CallMayFail(c, "handler")
    /\ Die(c, "library")

InitStep(c) ==
    SkipServer(c) \/ OpenLibrary(c) \/ BuildPart(c) \/ FailPart(c)
        \/ FilterFails(c) \/ CallFails(c) \/ StartServing(c)

ServeStep(c) ==
    Receive(c) \/ WithoutConfig(c) \/ Answer(c) \/ MalformedState(c)
        \/ WithoutRuntime(c) \/ HandlerCallFails(c)

Next == \E c \in Child : Fork(c) \/ Exit(c) \/ InitStep(c) \/ ServeStep(c)

Spec == Init /\ [][Next]_vars

\* The child's start-up code keeps running.
FairSpec == Spec /\ \A c \in Child : WF_vars(InitStep(c))
-----------------------------------------------------------------------------
\* What brings a child down.
Aborts == {"none", "library", "filter", "dispatchNoConfig", "authenticateNoConfig",
           "partialRuntime", "malformedState"}

\* Types of the variables.
TypeOK ==
    /\ phase \in [Child -> {"down", "init", "serving"}]
    /\ server \in [Child -> 1 .. Len(Servers) + 1]
    /\ part \in [Child -> 0 .. Len(Parts)]
    /\ library \in [Child -> Libraries]
    /\ bound \in [Child -> SUBSET Function]
    /\ runtime \in [Child -> [Config -> SUBSET Part]]
    /\ request \in [Child -> Request \union {NoRequest}]
    /\ failed \in [Child -> BOOLEAN]
    /\ abort \in [Child -> Aborts]

\* owner_pid is what the request handler takes as proof that the runtime is
\* complete: a runtime with an owner has every other part, whatever failed
\* before and whichever servers share it.
OwnedIsComplete ==
    \A c \in Child, f \in Config : "owner" \in runtime[c][f] => runtime[c][f] = Part

\* A runtime that is complete is in a child that has the library it is to call,
\* and what its building called is looked up, even when the library is not
\* found again for the servers after it.
OwnedCanCall ==
    \A c \in Child, f \in Config :
        "owner" \in runtime[c][f] =>
            library[c] # "closed" /\ Function \ {"anchors", "handler"} \subseteq bound[c]

\* What the code relies on without a check holds as long as nothing failed in the
\* child: the loader's two assertions, the owner's at the top of
\* oidfed_req_handler, and the pointers into the runtime.  With a library of the
\* right version and readable keys, every server that has a configuration,
\* sharing it or not, finds its runtime.  This does not say that the child stays
\* up: a request for a server without a configuration and a malformed state
\* bring down a sound one, and the filter's assertion is a failure itself.
AssertionsHoldUntilFailure ==
    \A c \in Child : abort[c] \in {"library", "partialRuntime"} => failed[c]

\* A runtime that is being used is never built a second time: requests and the
\* sessions of other servers hold on to its parts.
BuiltOnce ==
    [][\A c \in Child, f \in Config :
          phase[c] # "down" => runtime[c][f] \subseteq runtime'[c][f]]_vars

\* A child's start-up comes to an end: it gets to serve, or goes down.
StartsUp == \A c \in Child : phase[c] = "init" ~> phase[c] # "init"

\* The assertion at the top of oidfed_req_handler: the runtime is owned by the
\* process that serves the request.
OwnerPidMatches ==
    \A c \in Child :
        Deciding(c) /\ request[c].kind \in OwnKinds /\ request[c].config # NoConfig
            => "owner" \in Runtime(c)

\* oidfed_authenticate_user answers 500 when the module's configuration has
\* vanished; it does not bring the child down.
MissingConfigAnswered == \A c \in Child : abort[c] # "authenticateNoConfig"
=============================================================================
