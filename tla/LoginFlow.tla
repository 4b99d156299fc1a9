----------------------------- MODULE LoginFlow -----------------------------
(***************************************************************************)
(* A login from end to end: a browser tab asks for a protected page, is    *)
(* sent to the login page, lists the providers, chooses one, logs in       *)
(* there, comes back through the redirect URI and asks for its page again. *)
(*                                                                         *)
(* The sessions are those of AuthFlow: every step of this module is a step *)
(* of that one, or leaves its variables alone, and adds what the answers   *)
(* say, what the provider is told and tells, and the handles of the        *)
(* wrapper library.  A browser has several tabs, which share its cookies   *)
(* and nothing else; what belongs to one login travels in the URLs of its  *)
(* tab, through the provider as the state parameter.  A tab only goes      *)
(* where the module and the providers send it: the callbacks it brings are *)
(* its own, which the code does not check and AuthFlow does not assume.    *)
(***************************************************************************)
EXTENDS Netstring, ProviderCalls, FiniteSets

CONSTANTS
    Child, Worker, ChildOf, Browser, Code, Sid, Ttl, MaxTime, None, \* as in AuthFlow
    Tab,        \* browser tabs
    BrowserOf,  \* the browser of each tab
    Page,       \* the texts of the URIs of protected pages
    PageOf,     \* the page each tab's user asks for, or None: a link of a third party
    Root,       \* the text "/"
    Provider,   \* the texts of the providers' entity identifiers
    CodesOf,    \* bound on the codes the providers issue for each tab
    ProviderOf, \* the one each tab's user has an account with
    MaxFaults   \* bound on what goes wrong, the passing of a session's life included

VARIABLES
    table, session, req, jar, spent, now,   \* as in AuthFlow
    tab,        \* each tab: the page its user wants, and the URL it is at
    job,        \* each thread: the URL it answers, the reply, what it owns
    issued,     \* the provider that issued each code
    site,       \* what is peculiar about the server and its surroundings
    faults      \* what has gone wrong so far

Auth == INSTANCE AuthFlow

ASSUME BrowserOfAssumption == BrowserOf \in [Tab -> Browser]
ASSUME PageOfAssumption == PageOf \in [Tab -> Page \union {None}]
ASSUME CodesOfAssumption == CodesOf \in [Tab -> SUBSET Code]
ASSUME ProviderOfAssumption == ProviderOf \in [Tab -> Provider]
ASSUME RootAssumption == Root \in Page
ASSUME TextAssumption == \A text \in Page \union Provider : IsText(text) /\ text # None
ASSUME MaxFaultsAssumption == MaxFaults \in Nat \ {0}

authVars == <<table, session, req, jar, spent, now>>
vars == <<authVars, tab, job, issued, site, faults>>

Browse(t) == BrowserOf[t]
-----------------------------------------------------------------------------
(* URLs: where a tab is, and where an answer sends it.                     *)

\* The state parameter that construct_auth_url puts into the request object.
generate_oidc_request_state(op, return_to) == encode_netstring(return_to) \o encode_netstring(op)

\* Fault: the second text is sought where the first one ended.
RestAtComma(decoded) == decoded.last

Rest(decoded) == decoded.last + 1

\* Fault: the page is read from the start of the state parameter.
DecodedFromStart(state) ==
    LET first == decode_netstring_inplace(Append(state, NUL), 1, NullPointer)
        second == decode_netstring_inplace(first.buff, Rest(first), first.last)
    IN  [return_to |-> TextAt(second.buff, 1), op |-> TextAt(second.buff, second.str)]

\* The page and the provider the callback reads out of it, a provider that is
\* missing as None.  When it does not start with a netstring, next_value is
\* still the null pointer, and the callback reads one place behind it: None.
Decoded(state) ==
    LET first == decode_netstring_inplace(Append(state, NUL), 1, NullPointer)
        second == decode_netstring_inplace(first.buff, Rest(first), first.last)
    IN  IF first.last = NullPointer THEN None
        ELSE [return_to |-> TextAt(second.buff, first.str),
              op |-> IF second.str = NullPointer THEN None ELSE TextAt(second.buff, second.str)]

\* The two as tables.
StateFor == [op \in Provider |-> [page \in Page |-> generate_oidc_request_state(op, page)]]
State == UNION {{StateFor[op][page] : page \in Page} : op \in Provider}
Received == [state \in State |-> Decoded(state)]

PageUrl(page) == [kind |-> "page", page |-> page]
LoginUrl(page) == [kind |-> "login", page |-> page, op |-> None]
Error == [kind |-> "error"]

Url ==
    [kind : {"blank", "error", "refused"}] \union
    [kind : {"page", "shown", "listing"}, page : Page] \union
    [kind : {"login"}, page : Page \union {None}, op : Provider \union {None}] \union
    [kind : {"provider"}, op : Provider, state : State] \union
    [kind : {"callback"}, code : Code, state : State]

NoJob == None
Job == [tab : Tab, url : Url, reply : Url, owns : SUBSET Handle, wild : BOOLEAN]

ASSUME NoJobAssumption == NoJob \notin Job

\* "sound": nothing; "query": the login path has a query string; "strict": the
\* providers compare the redirect URI of the token request with that of the login.
Site == {"sound", "query", "strict"}

Init ==
    /\ Auth!Init
    /\ tab = [t \in Tab |-> [want |-> None, at |-> [kind |-> "blank"]]]
    /\ job = [w \in Worker |-> NoJob]
    /\ issued = [k \in Code |-> None]
    /\ site \in Site
    /\ faults = IF site = "sound" THEN 0 ELSE 1

Fault == faults < MaxFaults /\ faults' = faults + 1

Sent(t) == \E w \in Worker : job[w] # NoJob /\ job[w].tab = t

\* The thread is at a request for a URL of the kind.
Answers(w, kind) == job[w] # NoJob /\ job[w].url.kind = kind
-----------------------------------------------------------------------------
(* The users and the providers.                                            *)

At(t, url) == [tab EXCEPT ![t] = [want |-> @.want, at |-> url]]

Go(t, url) ==
    /\ tab' = At(t, url)
    /\ UNCHANGED <<authVars, job, issued, site>>

\* The user asks for a page, or follows a link of a third party that names a
\* provider and no page.
Open(t) ==
    /\ tab[t].at.kind = "blank"
    /\ tab' = [tab EXCEPT ![t] =
           IF PageOf[t] # None
           THEN [want |-> PageOf[t], at |-> PageUrl(PageOf[t])]
           ELSE [want |-> Root,
                 at |-> [kind |-> "login", page |-> None, op |-> ProviderOf[t]]]]
    /\ UNCHANGED <<authVars, job, issued, site, faults>>

\* The user loads a page once more, or sees an error and asks for the page
\* again.  Who came by the link of a third party does neither.
AskAgain(t) ==
    /\ PageOf[t] # None
    /\ Go(t, PageUrl(PageOf[t]))
    /\ UNCHANGED faults

Reload(t) == tab[t].at.kind = "shown" /\ AskAgain(t)
Retry(t) == tab[t].at.kind = "error" /\ AskAgain(t)

\* The user chooses a provider; the link carries the page on.
Choose(t) ==
    /\ tab[t].at.kind = "listing"
    /\ Go(t, [kind |-> "login", page |-> tab[t].at.page, op |-> ProviderOf[t]])
    /\ UNCHANGED faults

CodesLeft(t) == {k \in CodesOf[t] : issued[k] = None}

\* The provider knows the user and sends the tab back with a new code and the
\* state it was given, ...
Authorize(t) ==
    /\ tab[t].at.kind = "provider" /\ CodesLeft(t) # {}
    /\ LET k == CHOOSE k \in Code : k \in CodesLeft(t) IN
       /\ issued' = [issued EXCEPT ![k] = tab[t].at.op]
       /\ tab' = At(t, [kind |-> "callback", code |-> k, state |-> tab[t].at.state])
    /\ UNCHANGED <<authVars, job, site, faults>>

\* ... or with an error, always when it has no code left.
Refuse(t) ==
    /\ tab[t].at.kind = "provider"
    /\ Go(t, [kind |-> "refused"])
    /\ IF CodesLeft(t) = {} THEN UNCHANGED faults ELSE Fault
-----------------------------------------------------------------------------
(* Requests and answers.                                                   *)

\* Which of the idle threads of a child takes a request makes no difference.
FirstFree(c) == CHOOSE w \in Worker : ChildOf[w] = c /\ job[w] = NoJob

\* A tab's request for its URL, as AuthFlow sees it, with the job it starts.
Send(t, w, place, code, pc) ==
    /\ ~Sent(t)
    /\ Auth!Accept(w, Browse(t), place, code, pc)
    /\ w = FirstFree(ChildOf[w])
    /\ UNCHANGED <<tab, issued, site>>

\* Until a handler decides otherwise its reply is an error.
NewJob(t) == [tab |-> t, url |-> tab[t].at, reply |-> Error, owns |-> {}, wild |-> FALSE]

Load(t, w) ==
    /\ tab[t].at.kind = "page"
    /\ Send(t, w, "protected", None,
            IF jar[Browse(t)] = None THEN Auth!CheckLoginUrl("protected") ELSE "lookup")
    /\ job' = [job EXCEPT ![w] = NewJob(t)]
    /\ UNCHANGED faults

\* Fault: the page the tab came with is forgotten.
ReturnToRoot(url) == Root

\* target_link_uri, or "/".
ReturnTo(url) == IF url.page = None THEN Root ELSE url.page

Owning(j, handles) ==
    [tab |-> j.tab, url |-> j.url, reply |-> j.reply, owns |-> handles, wild |-> j.wild]

\* A job that is done: it has its reply and has made its releases, in order.
Done(j, reply, owned, released) ==
    [tab |-> j.tab, url |-> j.url, reply |-> reply,
     owns |-> owned \ Range(released), wild |-> ~Proper(owned, released)]

Failed(j, calls, i) ==
    Done(j, Error, OwnedAfter(calls, i - 1) \union calls[i].takes, ReleasedWhenFailing(calls[i]))

\* handle_open_id_authentication, for the login page outside the protected
\* area.  A login path with a query string is no request's path: then nobody
\* handles the request.  A URL without a provider is answered with the list.
Initiate(t, w) ==
    LET url == tab[t].at
        Become(j) == job' = [job EXCEPT ![w] = j]
    IN  /\ url.kind = "login"
        /\ Send(t, w, "elsewhere", None, "declined")
        /\ \/ /\ site = "query"
              /\ Become(Done(NewJob(t), Error, {}, <<>>))
              /\ UNCHANGED faults
           \/ /\ site # "query" /\ url.op = None
              /\ Become(Done(NewJob(t), [kind |-> "listing", page |-> url.page], {}, <<>>))
              /\ UNCHANGED faults
           \/ /\ site # "query" /\ url.op # None
              /\ Become(Done(NewJob(t),
                     [kind |-> "provider", op |-> url.op,
                      state |-> StateFor[url.op][ReturnTo(url)]],
                     OwnedAfter(InitiationCalls, Len(InitiationCalls)), ReleasedByInitiation))
              /\ UNCHANGED faults
           \/ /\ site # "query" /\ url.op # None
              /\ \E i \in 1 .. Len(InitiationCalls) : Become(Failed(NewJob(t), InitiationCalls, i))
              /\ Fault

\* req_redirect_handler, up to the removal of the old session.
Callback(t, w) ==
    /\ \/ /\ tab[t].at.kind = "refused"
          /\ Send(t, w, "callback", None, "denied")
       \/ /\ tab[t].at.kind = "callback"
          /\ Send(t, w, "callback", tab[t].at.code,
                  IF jar[Browse(t)] = None THEN "resolve" ELSE "forget")
    /\ job' = [job EXCEPT ![w] = NewJob(t)]
    /\ UNCHANGED faults

\* oidfed_authenticate_user and the removal of the old session, as in AuthFlow.
AsBefore(w) ==
    /\ Auth!AuthStep(w) \/ Auth!Forget(w)
    /\ UNCHANGED <<tab, job, issued, site, faults>>

BeforeExchange == Len(CallbackCalls) - 1

\* The calls that find the token endpoint.  A state that cannot be read takes the
\* child down instead: ChildExit.
Resolve(w) ==
    /\ Auth!Resolve(w)
    /\ Received[job[w].url.state] # None
    /\ IF req'[w].pc = "exchange"
       THEN /\ job' = [job EXCEPT ![w] = Owning(@, OwnedAfter(CallbackCalls, BeforeExchange))]
            /\ UNCHANGED faults
       ELSE /\ \E i \in 1 .. BeforeExchange :
                  /\ req'[w].pc = "denied" <=> i = 2
                  /\ job' = [job EXCEPT ![w] = Failed(@, CallbackCalls, i)]
            /\ Fault
    /\ UNCHANGED <<tab, issued, site>>

CodePresented(w) == job[w].url.code
ProviderMeant(w) == Received[job[w].url.state].op

\* The provider redeems a code it has issued, once, for a client that names the
\* redirect URI the code was asked for.
Redeemable(w) ==
    /\ site # "strict"
    /\ CodePresented(w) \notin spent
    /\ issued[CodePresented(w)] = ProviderMeant(w)

Exchange(w) ==
    /\ Auth!Exchange(w)
    /\ IF req'[w].pc = "create"
       THEN /\ Redeemable(w)
            /\ job' = [job EXCEPT ![w] = Owning(@, OwnedAfter(CallbackCalls, Len(CallbackCalls)))]
            /\ UNCHANGED faults
       ELSE /\ job' = [job EXCEPT ![w] = Failed(@, CallbackCalls, Len(CallbackCalls))]
            /\ IF Redeemable(w) THEN Fault ELSE UNCHANGED faults
    /\ UNCHANGED <<tab, issued, site>>

\* Which of the unused identifiers is drawn makes no difference.
Create(w) ==
    /\ Auth!Create(w)
    /\ req'[w].new = CHOOSE s \in Sid : Auth!FreshSid(s)
    /\ UNCHANGED <<tab, job, issued, site, faults>>

Store(w) ==
    /\ Auth!Store(w)
    /\ job' = [job EXCEPT ![w] =
           Done(@, PageUrl(Received[@.url.state].return_to), @.owns, ReleasedByCallback)]
    /\ UNCHANGED <<tab, issued, site, faults>>

\* Where an answer takes the tab.
Landing(w) ==
    IF req[w].pc \in Auth!LetThrough THEN [kind |-> "shown", page |-> job[w].url.page]
    ELSE IF req[w].pc = "login" THEN LoginUrl(job[w].url.page)
    ELSE job[w].reply

Decided(w) == job[w] # NoJob /\ req[w].pc \in Auth!Answers

Deliver(w) ==
    /\ Decided(w) /\ Auth!Deliver(w)
    /\ tab' = At(job[w].tab, Landing(w))
    /\ job' = [job EXCEPT ![w] = NoJob]
    /\ UNCHANGED <<issued, site, faults>>

\* The answer is lost, and the browser sends its request again.
Lose(w) ==
    /\ Decided(w) /\ Auth!Lose(w)
    /\ job' = [job EXCEPT ![w] = NoJob]
    /\ Fault
    /\ UNCHANGED <<tab, issued, site>>

ClearCookie(u) ==
    /\ Auth!ClearCookie(u)
    /\ Fault
    /\ UNCHANGED <<tab, job, issued, site>>

ChildExit(c) ==
    /\ Auth!ChildExit(c)
    /\ job' = [w \in Worker |-> IF ChildOf[w] = c THEN NoJob ELSE job[w]]
    /\ Fault
    /\ UNCHANGED <<tab, issued, site>>

Tick ==
    /\ Auth!Tick
    /\ Fault
    /\ UNCHANGED <<tab, job, issued, site>>

Serve(w) ==
    AsBefore(w) \/ Resolve(w) \/ Exchange(w) \/ Create(w) \/ Store(w) \/ Deliver(w)

Proceed(t) ==
    \/ Retry(t) \/ Choose(t) \/ Authorize(t)
    \/ \E w \in Worker : Load(t, w) \/ Initiate(t, w) \/ Callback(t, w)

Next ==
    \/ \E t \in Tab : Open(t) \/ Reload(t) \/ Proceed(t) \/ Refuse(t)
    \/ \E w \in Worker : Serve(w) \/ Lose(w)
    \/ \E u \in Browser : ClearCookie(u)
    \/ \E c \in Child : ChildExit(c)
    \/ Tick

Spec == Init /\ [][Next]_vars

\* Threads that keep running, and users who do not give up.
FairSpec ==
    /\ Spec
    /\ \A w \in Worker : WF_vars(Serve(w))
    /\ \A t \in Tab : WF_vars(Proceed(t))
-----------------------------------------------------------------------------
\* Types of the variables that are added to those of AuthFlow.
TypeOK ==
    /\ tab \in [Tab -> [want : Page \union {None}, at : Url]]
    /\ job \in [Worker -> Job \union {NoJob}]
    /\ issued \in [Code -> Provider \union {None}]
    /\ site \in Site
    /\ faults \in 0 .. MaxFaults

\* A tab is shown the page its user asked for, whichever logins, of it and of
\* other tabs, came between: target_link_uri goes through the listing, the
\* state parameter and the Location header.
PageReached ==
    \A t \in Tab : tab[t].at.kind \in {"page", "shown"} => tab[t].at.page = tab[t].want

\* A code is presented to the provider that issued it and to no other: the
\* provider the callback decodes is the one the tab was sent to.
CodeGoesHome ==
    \A w \in Worker : Answers(w, "callback") /\ Auth!At(w, "exchange") =>
        issued[CodePresented(w)] = ProviderMeant(w)

\* No path through the handlers releases what it has not acquired, or releases
\* anything twice: neither an early return of construct_auth_url and then its
\* caller, nor one label and then the next.
ReleasedOnce == \A w \in Worker : job[w] # NoJob => ~job[w].wild

\* An answered request has released what it acquired, but for the request
\* producer, for which the code has no release, and the issuer when the request
\* object cannot be produced.
NothingElseKept ==
    \A w \in Worker : Decided(w) =>
        \/ job[w].owns \subseteq {"producer"}
        \/ Answers(w, "login") /\ job[w].reply = Error /\ job[w].owns = {"producer", "issuer"}

\* Codes for a first login, and for another one after each thing that may end a
\* login or a session: a fault, and another tab's callback,
\* which ends a session when it arrives and replaces a cookie when it is answered.
EnoughCodes(t) ==
    Cardinality(CodesOf[t]) >
        MaxFaults + 2 * Cardinality(UNION {CodesOf[x] : x \in Tab \ {t}})

\* A user who asked for a page gets to see it, and does not log in more often
\* than something went wrong: a call that failed, an answer that was lost, a
\* cookie or a child that is gone, a session that expired, another tab's
\* callback that ended it.
GetsPage ==
    \A t \in Tab :
        site = "sound" /\ tab[t].want # None /\ PageOf[t] # None /\ EnoughCodes(t) ~> tab[t].at.kind = "shown"
=============================================================================
