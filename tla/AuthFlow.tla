------------------------------ MODULE AuthFlow ------------------------------
(***************************************************************************)
(* Sessions from the callback that opens them to the requests that use     *)
(* them: oidfed_authenticate_user, which decides about every request of a  *)
(* protected area, and req_redirect_handler, which answers the OpenID      *)
(* provider's redirect, run by the request threads of several httpd child  *)
(* processes.  Each child has a session storage of its own; a request is   *)
(* served by whichever child accepts the connection.                       *)
(*                                                                         *)
(* Between two accesses to shared state a thread can be overtaken by any   *)
(* other, so each access is a step.  The storage operations are single     *)
(* steps, which SessionStore shows of the code's hash and mutex.           *)
(*                                                                         *)
(* The environment: browsers that send requests with their session cookie, *)
(* several at a time if they like, and callbacks with any code, for        *)
(* nothing in the code ties a code or a state to a browser; a provider     *)
(* whose authorization codes can be redeemed once; answers that may be     *)
(* lost; children that exit; and the clock.                                *)
(***************************************************************************)
EXTENDS Naturals, FiniteSets

CONSTANTS
    Child,      \* httpd child processes
    Worker,     \* request threads
    ChildOf,    \* the child each thread belongs to
    Browser,    \* browsers
    Code,       \* authorization codes the provider issues
    Sid,        \* session identifiers
    Ttl,        \* life of a session: apr_time_from_sec(3600)
    MaxTime,    \* bound on the clock
    None

ASSUME ChildOfAssumption == ChildOf \in [Worker -> Child]
ASSUME TtlAssumption == Ttl \in Nat \ {0}
ASSUME MaxTimeAssumption == MaxTime \in Nat

VARIABLES
    table,      \* the identifiers stored in each child's storage
    session,    \* the session objects; allocated once, never changed or freed
    req,        \* what each thread is doing
    jar,        \* each browser's session cookie
    spent,      \* the codes the provider has redeemed
    now         \* apr_time_now()

vars == <<table, session, req, jar, spent, now>>

\* Where a request thread can be: between two steps of a handler ...
Running == {"lookup", "check", "drop", "forget", "resolve", "exchange", "create", "store"}
\* ... or with its answer decided and not yet received.
Answers == {"granted",      \* OK: r->user is set and the page is served
            "anonymous",    \* the same, with oidc_user for a token without subject
            "declined",     \* DECLINED: the module has nothing to say
            "login",        \* 302 to the login page
            "welcome",      \* 302 back to the page, with the session cookie
            "bad",          \* 400
            "denied",       \* 403
            "failed"}       \* 500

LetThrough == {"granted", "anonymous"}

\* What a request asks for: a protected page, the login page inside the
\* protected area, a page under some other AuthType, or the redirect URI.
Places == {"protected", "loginpage", "elsewhere", "callback"}

\* The code a session was opened with stands for the tokens it was redeemed for.
\* The last field is not in the code and no step reads it: the browser whose
\* callback opened the session, kept for the properties.
Session == [code : Code, expiry : Nat, by : Browser]

Request ==
    [pc : Running \union Answers,
     from : Browser,
     place : Places,
     cookie : Sid \union {None},    \* the cookie it carries
     code : Code \union {None},     \* the code in its query string
     new : Sid \union {None},       \* the session it creates
     since : Nat]                   \* when it arrived

ASSUME NoneAssumption ==
    None \notin Sid \union Code \union Session \union Request

NoRequest == None

Serving(w) == req[w] # NoRequest
At(w, step) == Serving(w) /\ req[w].pc = step

Init ==
    /\ table = [c \in Child |-> {}]
    /\ session = [s \in Sid |-> None]
    /\ req = [w \in Worker |-> NoRequest]
    /\ jar = [u \in Browser |-> None]
    /\ spent = {}
    /\ now = 0

Accept(w, u, place, code, pc) ==
    /\ ~Serving(w)
    /\ req' = [req EXCEPT ![w] =
                  [pc |-> pc, from |-> u, place |-> place, cookie |-> jar[u],
                   code |-> code, new |-> None, since |-> now]]
    /\ UNCHANGED <<table, session, jar, spent, now>>

Goto(w, pc) == req' = [req EXCEPT ![w].pc = pc]
-----------------------------------------------------------------------------
(* oidfed_authenticate_user *)

\* The label check_login_url: the login page itself is let through, every
\* other page is redirected to it.
CheckLoginUrl(place) == IF place = "loginpage" THEN "declined" ELSE "login"

Authenticate(w, u) ==
    \/ Accept(w, u, "elsewhere", None, "declined")
    \/ \E place \in {"protected", "loginpage"} :
          Accept(w, u, place, None, IF jar[u] = None THEN CheckLoginUrl(place) ELSE "lookup")

Found(w) == req[w].cookie \in table[ChildOf[w]]

LookUp(w) ==
    /\ At(w, "lookup")
    /\ Goto(w, IF Found(w) THEN "check" ELSE CheckLoginUrl(req[w].place))
    /\ UNCHANGED <<table, session, jar, spent, now>>

\* Fault: a session is used once more at the very instant it expires.
ExpiredStrict(s) == session[s].expiry < now

\* Fault: sessions expire a tick early.
ExpiredEarly(s) == session[s].expiry <= now + 1

Expired(s) == session[s].expiry <= now

CheckExpiry(w) ==
    /\ At(w, "check")
    /\ \/ Expired(req[w].cookie) /\ Goto(w, "drop")
       \/ ~Expired(req[w].cookie) /\ \E pc \in LetThrough : Goto(w, pc)
    /\ UNCHANGED <<table, session, jar, spent, now>>

Drop(w) ==
    /\ At(w, "drop")
    /\ table' = [table EXCEPT ![ChildOf[w]] = @ \ {req[w].cookie}]
    /\ Goto(w, CheckLoginUrl(req[w].place))
    /\ UNCHANGED <<session, jar, spent, now>>
-----------------------------------------------------------------------------
(* req_redirect_handler *)

\* An error from the provider or an incomplete query string is answered at
\* once; a complete one first ends the session the browser comes with.  The
\* code is whatever the query string says, of whichever login, issued or not.
Callback(w, u) ==
    \/ Accept(w, u, "callback", None, "denied")
    \/ Accept(w, u, "callback", None, "bad")
    \/ \E k \in Code :
          Accept(w, u, "callback", k, IF jar[u] = None THEN "resolve" ELSE "forget")

\* Fault: the callback leaves the browser's old session alone.
ForgottenNone(w) == {}

\* The session a callback ends before anything about the callback is known.
Forgotten(w) == {req[w].cookie}

Forget(w) ==
    /\ At(w, "forget")
    /\ table' = [table EXCEPT ![ChildOf[w]] = @ \ Forgotten(w)]
    /\ Goto(w, "resolve")
    /\ UNCHANGED <<session, jar, spent, now>>

\* A state that does not start with a netstring brings the child down here, which
\* is a ChildExit.  No valid chain, no provider metadata and no token endpoint
\* leave errc at 0 and answer 500; metadata that cannot be read answers 403.
ResolveOutcomes == {"exchange", "denied", "failed"}

Resolve(w) ==
    /\ At(w, "resolve")
    /\ \E pc \in ResolveOutcomes : Goto(w, pc)
    /\ UNCHANGED <<table, session, jar, spent, now>>

\* The provider redeems a code once.  Its answer may still fail to arrive.
Exchange(w) ==
    /\ At(w, "exchange")
    /\ spent' = spent \union {req[w].code}
    /\ \/ req[w].code \notin spent /\ Goto(w, "create")
       \/ Goto(w, "denied")
    /\ UNCHANGED <<table, session, jar, now>>

\* Fault: the random identifier repeats one that was used before.
FreshSidRepeats(s) == TRUE

\* Sixteen random characters out of 62: taken not to repeat.  The result of the
\* random source is not looked at; that it never fails is an assumption.
FreshSid(s) == session[s] = None

Create(w) ==
    /\ At(w, "create")
    /\ \E s \in Sid :
          /\ FreshSid(s)
          /\ session' = [session EXCEPT ![s] =
                            [code |-> req[w].code, expiry |-> now + Ttl, by |-> req[w].from]]
          /\ req' = [req EXCEPT ![w].new = s, ![w].pc = "store"]
    /\ UNCHANGED <<table, jar, spent, now>>

\* Fault: the session goes in under the identifier the browser came with.
StoredSidOld(w) == IF req[w].cookie = None THEN req[w].new ELSE req[w].cookie

\* Fault: the session goes in under the authorization code.
StoredSidCode(w) == req[w].code

StoredSid(w) == req[w].new

\* The cookie and the Location header are set on the thread's own request.
Store(w) ==
    /\ At(w, "store")
    /\ table' = [table EXCEPT ![ChildOf[w]] = @ \union {StoredSid(w)}]
    /\ Goto(w, "welcome")
    /\ UNCHANGED <<session, jar, spent, now>>
-----------------------------------------------------------------------------
(* The environment *)

Finish(w) == req' = [req EXCEPT ![w] = NoRequest]

\* The browser gets the answer, and the cookie that comes with a welcome.
Deliver(w) ==
    /\ Serving(w) /\ req[w].pc \in Answers
    /\ jar' = IF req[w].pc = "welcome" THEN [jar EXCEPT ![req[w].from] = req[w].new] ELSE jar
    /\ Finish(w)
    /\ UNCHANGED <<table, session, spent, now>>

\* The connection breaks before the answer arrives.
Lose(w) ==
    /\ Serving(w) /\ req[w].pc \in Answers
    /\ Finish(w)
    /\ UNCHANGED <<table, session, jar, spent, now>>

\* The user clears the browser's cookies.
ClearCookie(u) ==
    /\ jar[u] # None
    /\ jar' = [jar EXCEPT ![u] = None]
    /\ UNCHANGED <<table, session, req, spent, now>>

\* A child crashes or is recycled, and httpd starts another in its place.
ChildExit(c) ==
    /\ table' = [table EXCEPT ![c] = {}]
    /\ req' = [w \in Worker |-> IF ChildOf[w] = c THEN NoRequest ELSE req[w]]
    /\ UNCHANGED <<session, jar, spent, now>>

Tick ==
    /\ now < MaxTime
    /\ now' = now + 1
    /\ UNCHANGED <<table, session, req, jar, spent>>

AuthStep(w) == LookUp(w) \/ CheckExpiry(w) \/ Drop(w)
CallbackStep(w) == Forget(w) \/ Resolve(w) \/ Exchange(w) \/ Create(w) \/ Store(w)
Step(w) == AuthStep(w) \/ CallbackStep(w)

Next ==
    \/ \E w \in Worker :
          \/ Step(w) \/ Deliver(w) \/ Lose(w)
          \/ \E u \in Browser : Authenticate(w, u) \/ Callback(w, u)
    \/ \E u \in Browser : ClearCookie(u)
    \/ \E c \in Child : ChildExit(c)
    \/ Tick

Spec == Init /\ [][Next]_vars
-----------------------------------------------------------------------------
\* Types of the variables.
TypeOK ==
    /\ table \in [Child -> SUBSET Sid]
    /\ session \in [Sid -> Session \union {None}]
    /\ req \in [Worker -> Request \union {NoRequest}]
    /\ jar \in [Browser -> Sid \union {None}]
    /\ spent \subseteq Code
    /\ now \in 0 .. MaxTime

Granted(w) == Serving(w) /\ req[w].pc \in LetThrough

\* A request that is let through is let through on a session that a callback of
\* the browser that sent it opened, whatever the other threads and children were
\* doing: no step of one request lands in the session of another browser.  Who
\* had logged in at the provider for that callback's code is not said: the code
\* accepts any code from any browser, and its state is not bound to the browser
\* either.
GrantedToOpener ==
    \A w \in Worker : Granted(w) => session[req[w].cookie].by = req[w].from

\* A request is only let through on a session that was still live when the
\* request came in: the check and the clock may race, but not by more than the
\* request itself takes.
NoExpiredGrant ==
    \A w \in Worker : Granted(w) => req[w].since < session[req[w].cookie].expiry

\* The cookie on its way to a browser names a session the child that sent it
\* has stored, opened by that browser's own callback: a page loaded right after
\* the login finds it there.
WelcomeBacked ==
    \A w \in Worker :
        At(w, "welcome") => /\ req[w].new \in table[ChildOf[w]]
                            /\ session[req[w].new].by = req[w].from

\* No request thread of the child is at anything.
Quiet(c) == \A w \in Worker : ChildOf[w] = c => ~Serving(w)

\* A session that has not expired leaves its child's storage in two ways only:
\* the child exits, which no request of it survives, or a callback carries its
\* cookie.  Page requests never end it, and neither do the logins of other
\* browsers.
LiveSessionKept ==
    [][\A c \in Child : \A s \in table[c] \ table'[c] :
          session[s].expiry <= now \/ Quiet(c)' \/
          \E w \in Worker : ChildOf[w] = c /\ At(w, "forget") /\ req[w].cookie = s]_vars

\* A session that was stored once and is stored nowhere any more.
Ended(s) ==
    /\ session[s] # None
    /\ \A c \in Child : s \notin table[c]
    /\ \A w \in Worker : ~(At(w, "store") /\ req[w].new = s)

\* A session that has ended, by expiry, by a callback or with its child, is
\* never live again.
EndedStaysEnded == [][\A s \in Sid : Ended(s) => Ended(s)']_vars

\* A callback that has come past the removal of the old session, whatever becomes
\* of it then: the session its browser came with is not in the child's storage,
\* and no request that was overtaken puts it back, so a second login replaces the
\* first instead of piling up beside it.
OldSessionGone ==
    \A w \in Worker :
        /\ Serving(w)
        /\ req[w].place = "callback" /\ req[w].code # None /\ req[w].pc # "forget"
        /\ req[w].cookie # None
        => req[w].cookie \notin table[ChildOf[w]]
-----------------------------------------------------------------------------
(* Why the invariants hold: who can know of a session at each stage.       *)

\* Everything stored is a session object that exists.
StoredExist == \A c \in Child : \A s \in table[c] : session[s] # None

\* The cookie of a browser, and of every request it has under way, names a
\* session that one of its own callbacks opened.
CookiesOwned ==
    /\ \A u \in Browser : jar[u] # None => session[jar[u]] # None /\ session[jar[u]].by = u
    /\ \A w \in Worker : Serving(w) /\ req[w].cookie # None =>
          session[req[w].cookie] # None /\ session[req[w].cookie].by = req[w].from

\* What a handler knows when it gets to a step.
StepsPrepared ==
    \A w \in Worker : Serving(w) =>
        LET r == req[w] IN
        /\ r.since <= now
        /\ r.pc \in {"lookup", "check", "drop", "forget"} \union LetThrough => r.cookie # None
        /\ r.pc = "drop" => Expired(r.cookie)
        /\ r.pc \in {"forget", "resolve", "exchange", "create", "store", "welcome"} => r.code # None
        /\ r.new # None <=> r.pc \in {"store", "welcome"}

\* A session under construction, or whose cookie is still on its way, is known
\* to the one thread that made it and to nobody else.
NewIsPrivate ==
    \A w \in Worker : Serving(w) /\ req[w].new # None =>
        LET s == req[w].new IN
        /\ session[s] # None /\ session[s].code = req[w].code /\ session[s].by = req[w].from
        /\ \A u \in Browser : jar[u] # s
        /\ \A v \in Worker : Serving(v) => req[v].cookie # s /\ (v # w => req[v].new # s)
        /\ \A c \in Child : s \in table[c] <=> c = ChildOf[w] /\ req[w].pc = "welcome"

\* The inductive invariant of the specification: the types, and who can know of
\* a session at each stage of the handlers.
IInv == TypeOK /\ StoredExist /\ CookiesOwned /\ StepsPrepared /\ NewIsPrivate /\ NoExpiredGrant
=============================================================================
