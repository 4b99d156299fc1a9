--------------------------- MODULE AuthFlowProofs ---------------------------
(***************************************************************************)
(* AuthFlow for any number of children, threads, browsers and codes: the   *)
(* inductive invariant IInv and what follows from it.                      *)
(***************************************************************************)
EXTENDS AuthFlow, TLAPS

USE ChildOfAssumption, TtlAssumption, MaxTimeAssumption, NoneAssumption
USE DEF NoRequest, Serving, At, Granted, Running, Answers, LetThrough, Places

\* No child stores anything, no browser has a cookie, no request is under way.
LEMMA InitIInv == Init => IInv
  BY DEF Init, IInv, TypeOK, StoredExist, CookiesOwned, StepsPrepared, NewIsPrivate,
         NoExpiredGrant

\* A new request starts with what its handler needs at the step it starts at.
LEMMA AcceptIInv ==
  ASSUME IInv,
         NEW w \in Worker, NEW u \in Browser, NEW place \in Places,
         NEW code \in Code \union {None},
         NEW pc \in {"lookup", "forget", "resolve", "login", "declined", "denied", "bad"},
         pc \in {"lookup", "forget"} => jar[u] # None,
         pc \in {"forget", "resolve"} => code # None,
         Accept(w, u, place, code, pc)
  PROVE  IInv'
  <1> DEFINE new == [pc |-> pc, from |-> u, place |-> place, cookie |-> jar[u],
                     code |-> code, new |-> None, since |-> now]
  <1> USE DEF IInv, TypeOK
  <1>1. /\ ~Serving(w)
        /\ req' = [req EXCEPT ![w] = new]
        /\ UNCHANGED <<table, session, jar, spent, now>>
    BY DEF Accept
  <1>2. new \in Request
    BY DEF Request
  <1>3. TypeOK'
    BY <1>1, <1>2
  <1>4. StoredExist' /\ CookiesOwned'
    BY <1>1, <1>2 DEF StoredExist, CookiesOwned
  <1>5. StepsPrepared'
    BY <1>1, <1>2 DEF StepsPrepared, Expired
  <1>6. NewIsPrivate'
    BY <1>1, <1>2 DEF NewIsPrivate
  <1>7. NoExpiredGrant'
    BY <1>1, <1>2 DEF NoExpiredGrant
  <1> QED BY <1>3, <1>4, <1>5, <1>6, <1>7

\* A request for a page starts at the lookup, or is answered at once.
LEMMA AuthenticateIInv ==
  ASSUME IInv, NEW w \in Worker, NEW u \in Browser, Authenticate(w, u)
  PROVE  IInv'
  BY AcceptIInv DEF Authenticate, CheckLoginUrl

\* A callback starts by ending the old session, or is answered at once.
LEMMA CallbackIInv ==
  ASSUME IInv, NEW w \in Worker, NEW u \in Browser, Callback(w, u)
  PROVE  IInv'
  BY AcceptIInv DEF Callback

\* LookUp, CheckExpiry and Resolve only choose the thread's next step; what it
\* needs there is known.
LEMMA GotoIInv ==
  ASSUME IInv,
         NEW w \in Worker, Serving(w),
         NEW pc \in (Running \union Answers) \ {"store", "welcome", "lookup", "forget"},
         req[w].pc \notin {"store", "welcome"},
         pc \in {"check", "drop"} \union LetThrough => req[w].cookie # None,
         pc = "drop" => Expired(req[w].cookie),
         pc \in LetThrough => ~Expired(req[w].cookie),
         pc \in {"resolve", "exchange", "create"} => req[w].code # None,
         Goto(w, pc), UNCHANGED <<session, jar, now>>,
         spent' \in SUBSET Code,
         table' = table
  PROVE  IInv'
  <1> USE DEF IInv, TypeOK, Goto
  <1>1. /\ req' = [req EXCEPT ![w].pc = pc]
        /\ req[w] \in Request
        /\ req'[w] \in Request
    BY DEF Request
  <1>2. \A v \in Worker \ {w} : req'[v] = req[v]
    BY <1>1
  <1>3. /\ req'[w].pc = pc /\ req'[w].from = req[w].from /\ req'[w].cookie = req[w].cookie
        /\ req'[w].code = req[w].code /\ req'[w].new = req[w].new /\ req'[w].since = req[w].since
    BY <1>1, <1>2 DEF Request
  <1>4. TypeOK'
    BY <1>1, <1>2
  <1>5. StoredExist' /\ CookiesOwned'
    BY <1>1, <1>2, <1>3 DEF StoredExist, CookiesOwned
  <1>6. StepsPrepared'
    BY <1>1, <1>2, <1>3 DEF StepsPrepared, Expired
  <1>7. NewIsPrivate'
    BY <1>1, <1>2, <1>3 DEF NewIsPrivate, StepsPrepared
  <1>8. NoExpiredGrant'
    <2> SUFFICES ASSUME NEW v \in Worker, Granted(v)'
                 PROVE  (req[v].since < session[req[v].cookie].expiry)'
      BY DEF NoExpiredGrant
    <2>1. CASE v = w
      <3>1. pc \in LetThrough /\ ~Expired(req[w].cookie) /\ req[w].cookie # None
        BY <1>3, <2>1
      <3>2. session[req[w].cookie] # None /\ req[w].cookie \in Sid
        BY <1>1, <3>1 DEF CookiesOwned, Request
      <3>3. session[req[w].cookie].expiry \in Nat
        BY <3>2 DEF Session
      <3>4. req[w].since <= now /\ req[w].since \in Nat
        BY <1>1 DEF StepsPrepared, Request
      <3> QED BY <1>3, <2>1, <3>1, <3>3, <3>4 DEF Expired
    <2>2. CASE v # w
      BY <1>2, <2>2 DEF NoExpiredGrant
    <2> QED BY <2>1, <2>2
  <1> QED BY <1>4, <1>5, <1>6, <1>7, <1>8

\* The lookup leads to the check with the cookie it found.
LEMMA LookUpIInv == ASSUME IInv, NEW w \in Worker, LookUp(w) PROVE IInv'
  BY GotoIInv DEF LookUp, CheckLoginUrl, IInv, StepsPrepared, TypeOK

\* The check lets a request through only on an unexpired session.
LEMMA CheckExpiryIInv == ASSUME IInv, NEW w \in Worker, CheckExpiry(w) PROVE IInv'
  BY GotoIInv DEF CheckExpiry, IInv, StepsPrepared, TypeOK

\* Resolving the provider touches nothing shared.
LEMMA ResolveIInv == ASSUME IInv, NEW w \in Worker, Resolve(w) PROVE IInv'
  <1>1. PICK pc \in ResolveOutcomes : Goto(w, pc)
    BY DEF Resolve
  <1> QED BY <1>1, GotoIInv DEF Resolve, ResolveOutcomes, IInv, StepsPrepared, TypeOK

\* The exchange spends the code and nothing else.
LEMMA ExchangeIInv == ASSUME IInv, NEW w \in Worker, Exchange(w) PROVE IInv'
  <1>1. req[w].code \in Code
    BY DEF Exchange, IInv, StepsPrepared, TypeOK, Request
  <1>2. spent' \in SUBSET Code
    BY <1>1 DEF Exchange, IInv, TypeOK
  <1> QED BY <1>2, GotoIInv DEF Exchange, IInv, StepsPrepared, TypeOK

\* Removing a published session from a child's storage, and going on to a step
\* that needs no session.
LEMMA RemoveIInv ==
  ASSUME IInv, NEW w \in Worker,
         At(w, "drop") \/ At(w, "forget"),
         NEW pc \in {"login", "declined", "resolve"},
         pc = "resolve" => At(w, "forget"),
         table' = [table EXCEPT ![ChildOf[w]] = @ \ {req[w].cookie}],
         Goto(w, pc), UNCHANGED <<session, jar, spent, now>>
  PROVE  IInv'
  <1> USE DEF IInv, TypeOK, Goto
  <1>0. req[w] \in Request /\ req' = [req EXCEPT ![w].pc = pc]
    OBVIOUS
  <1>1. /\ req[w] \in Request /\ req'[w] \in Request
        /\ \A v \in Worker \ {w} : req'[v] = req[v]
        /\ req'[w].pc = pc /\ req'[w].from = req[w].from /\ req'[w].cookie = req[w].cookie
        /\ req'[w].code = req[w].code /\ req'[w].new = req[w].new /\ req'[w].since = req[w].since
    <2>1. req'[w] = [req[w] EXCEPT !.pc = pc] /\ \A v \in Worker \ {w} : req'[v] = req[v]
      BY <1>0
    <2> HIDE DEF IInv
    <2> QED BY <1>0, <2>1 DEF Request
  <1>2. TypeOK'
    BY <1>1
  <1>3. \A c \in Child : /\ table'[c] \subseteq table[c]
                         /\ \A s \in table[c] \ table'[c] : s = req[w].cookie
    OBVIOUS
  <1>4. StoredExist' /\ CookiesOwned'
    BY <1>1, <1>3 DEF StoredExist, CookiesOwned
  <1>5. StepsPrepared'
    BY <1>1 DEF StepsPrepared, Expired
  <1>6. NewIsPrivate'
    <2> SUFFICES ASSUME NEW v \in Worker, req[v] # None, req[v].new # None
                 PROVE  \A c \in Child : req[v].new \in table'[c] <=> req[v].new \in table[c]
      BY <1>1 DEF NewIsPrivate, StepsPrepared
    <2>1. req[v].new # req[w].cookie
      BY <1>1 DEF NewIsPrivate
    <2> QED BY <1>3, <2>1
  <1>7. NoExpiredGrant'
    BY <1>1 DEF NoExpiredGrant
  <1> QED BY <1>2, <1>4, <1>5, <1>6, <1>7

\* An expired session is dropped; nobody is told of it any more.
LEMMA DropIInv == ASSUME IInv, NEW w \in Worker, Drop(w) PROVE IInv'
  BY RemoveIInv DEF Drop, CheckLoginUrl

\* The session a browser comes to a callback with is ended.
LEMMA ForgetIInv == ASSUME IInv, NEW w \in Worker, Forget(w) PROVE IInv'
  BY RemoveIInv DEF Forget, Forgotten

\* A session object is made under an identifier nobody has heard of.
LEMMA CreateIInv == ASSUME IInv, NEW w \in Worker, Create(w) PROVE IInv'
  <1> USE DEF IInv, TypeOK
  <1>1. PICK s \in Sid :
          /\ session[s] = None
          /\ session' = [session EXCEPT ![s] =
                            [code |-> req[w].code, expiry |-> now + Ttl, by |-> req[w].from]]
          /\ req' = [req EXCEPT ![w].new = s, ![w].pc = "store"]
    BY DEF Create, FreshSid
  <1>2. /\ req[w] # None /\ req[w].pc = "create" /\ req[w].new = None
        /\ req[w].code \in Code /\ req[w].from \in Browser
        /\ UNCHANGED <<table, jar, spent, now>>
    BY DEF Create, StepsPrepared, Request
  <1>3. /\ req[w] \in Request /\ req'[w] \in Request
        /\ \A v \in Worker \ {w} : req'[v] = req[v]
        /\ req'[w].pc = "store" /\ req'[w].from = req[w].from /\ req'[w].cookie = req[w].cookie
        /\ req'[w].code = req[w].code /\ req'[w].new = s /\ req'[w].since = req[w].since
    BY <1>1, <1>2 DEF Request
  <1>4. /\ session'[s] = [code |-> req[w].code, expiry |-> now + Ttl, by |-> req[w].from]
        /\ session'[s] \in Session /\ session'[s] # None
        /\ \A r \in Sid \ {s} : session'[r] = session[r]
    BY <1>1, <1>2 DEF Session
  <1>5. TypeOK'
    BY <1>1, <1>2, <1>3, <1>4
  <1>6. StoredExist'
    BY <1>2, <1>4 DEF StoredExist
  <1>7. CookiesOwned'
    BY <1>1, <1>2, <1>3, <1>4 DEF CookiesOwned, Request
  <1>8. StepsPrepared'
    BY <1>1, <1>2, <1>3, <1>4 DEF StepsPrepared, Expired, CookiesOwned, Request
  <1>9. NewIsPrivate'
    <2> SUFFICES ASSUME NEW v \in Worker, req'[v] # None, req'[v].new # None
                 PROVE  LET r == req'[v].new IN
                        /\ session'[r] # None
                        /\ session'[r].code = req'[v].code /\ session'[r].by = req'[v].from
                        /\ \A u \in Browser : jar'[u] # r
                        /\ \A x \in Worker : req'[x] # None =>
                              req'[x].cookie # r /\ (x # v => req'[x].new # r)
                        /\ \A c \in Child : r \in table'[c]
                              <=> c = ChildOf[v] /\ req'[v].pc = "welcome"
      BY DEF NewIsPrivate
    <2>1. /\ \A u \in Browser : jar[u] # s
          /\ \A x \in Worker : req[x] # None => req[x].cookie # s /\ req[x].new # s
          /\ \A c \in Child : s \notin table[c]
      BY <1>1 DEF CookiesOwned, NewIsPrivate, StoredExist
    <2>2. CASE v = w
      BY <1>2, <1>3, <1>4, <2>1, <2>2
    <2>3. CASE v # w
      <3>1. req[v] # None /\ req[v].new # None /\ req[v].new \in Sid \ {s}
        BY <1>3, <2>1, <2>3 DEF Request
      <3> QED BY <1>2, <1>3, <1>4, <2>3, <3>1 DEF NewIsPrivate
    <2> QED BY <2>2, <2>3
  <1>10. NoExpiredGrant'
    BY <1>1, <1>2, <1>3, <1>4 DEF NoExpiredGrant, CookiesOwned, StepsPrepared, Request
  <1> QED BY <1>5, <1>6, <1>7, <1>8, <1>9, <1>10

\* The session is stored in the child that made it, and its cookie sent off.
LEMMA StoreIInv == ASSUME IInv, NEW w \in Worker, Store(w) PROVE IInv'
  <1> USE DEF IInv, TypeOK
  <1>1. /\ req[w] # None /\ req[w].pc = "store" /\ req[w].new \in Sid
        /\ table' = [table EXCEPT ![ChildOf[w]] = @ \union {req[w].new}]
        /\ req' = [req EXCEPT ![w].pc = "welcome"]
        /\ UNCHANGED <<session, jar, spent, now>>
    BY DEF Store, StoredSid, Goto, StepsPrepared, Request
  <1>2. /\ req[w] \in Request /\ req'[w] \in Request
        /\ \A v \in Worker \ {w} : req'[v] = req[v]
        /\ req'[w].pc = "welcome" /\ req'[w].from = req[w].from /\ req'[w].cookie = req[w].cookie
        /\ req'[w].code = req[w].code /\ req'[w].new = req[w].new /\ req'[w].since = req[w].since
    <2>1. /\ req[w] \in Request /\ req'[w] = [req[w] EXCEPT !.pc = "welcome"]
          /\ \A v \in Worker \ {w} : req'[v] = req[v]
      BY <1>1
    <2> HIDE DEF IInv
    <2> QED BY <2>1 DEF Request
  <1>3. TypeOK'
    BY <1>1, <1>2
  <1>4. StoredExist' /\ CookiesOwned'
    BY <1>1, <1>2 DEF StoredExist, CookiesOwned, NewIsPrivate
  <1>5. StepsPrepared'
    BY <1>1, <1>2 DEF StepsPrepared, Expired
  <1>6. NewIsPrivate'
    BY <1>1, <1>2 DEF NewIsPrivate
  <1>7. NoExpiredGrant'
    BY <1>1, <1>2 DEF NoExpiredGrant
  <1> QED BY <1>3, <1>4, <1>5, <1>6, <1>7

\* The browser learns of its new session when the answer arrives.
LEMMA DeliverIInv == ASSUME IInv, NEW w \in Worker, Deliver(w) PROVE IInv'
  <1> USE DEF IInv, TypeOK
  <1>1. /\ req[w] # None /\ req[w] \in Request
        /\ req' = [req EXCEPT ![w] = None]
        /\ UNCHANGED <<table, session, spent, now>>
    BY DEF Deliver, Finish
  <1>2. CASE req[w].pc = "welcome"
    <2>1. /\ req[w].new \in Sid /\ req[w].from \in Browser
          /\ session[req[w].new] # None /\ session[req[w].new].by = req[w].from
          /\ jar' = [jar EXCEPT ![req[w].from] = req[w].new]
      BY <1>1, <1>2 DEF Deliver, StepsPrepared, NewIsPrivate, Request
    <2>2. TypeOK' /\ StoredExist' /\ NoExpiredGrant'
      BY <1>1, <2>1 DEF StoredExist, NoExpiredGrant
    <2>3. CookiesOwned'
      BY <1>1, <2>1 DEF CookiesOwned
    <2>4. StepsPrepared'
      BY <1>1 DEF StepsPrepared, Expired
    <2>5. NewIsPrivate'
      BY <1>1, <2>1 DEF NewIsPrivate
    <2> QED BY <2>2, <2>3, <2>4, <2>5
  <1>3. CASE req[w].pc # "welcome"
    <2>1. jar' = jar
      BY <1>3 DEF Deliver
    <2> QED
      BY <1>1, <2>1
      DEF StoredExist, NoExpiredGrant, CookiesOwned, StepsPrepared, Expired, NewIsPrivate
  <1> QED BY <1>2, <1>3

\* A lost answer leaves its session stored and unknown.
LEMMA LoseIInv == ASSUME IInv, NEW w \in Worker, Lose(w) PROVE IInv'
  BY DEF IInv, TypeOK, Lose, Finish, StoredExist, NoExpiredGrant, CookiesOwned,
         StepsPrepared, Expired, NewIsPrivate

\* A browser may forget its cookie.
LEMMA ClearCookieIInv == ASSUME IInv, NEW u \in Browser, ClearCookie(u) PROVE IInv'
  BY DEF IInv, TypeOK, ClearCookie, StoredExist, NoExpiredGrant, CookiesOwned,
         StepsPrepared, Expired, NewIsPrivate

\* With a child go its sessions and its requests.
LEMMA ChildExitIInv == ASSUME IInv, NEW c \in Child, ChildExit(c) PROVE IInv'
  <1> USE DEF IInv, TypeOK, ChildExit
  <1>1. \A w \in Worker : req'[w] # None => req'[w] = req[w] /\ ChildOf[w] # c
    OBVIOUS
  <1>2. TypeOK' /\ StoredExist' /\ CookiesOwned'
    BY DEF StoredExist, CookiesOwned
  <1>3. StepsPrepared' /\ NoExpiredGrant'
    BY DEF StepsPrepared, Expired, NoExpiredGrant
  <1>4. NewIsPrivate'
    BY <1>1 DEF NewIsPrivate
  <1> QED BY <1>2, <1>3, <1>4

\* What has expired stays expired.
LEMMA TickIInv == ASSUME IInv, Tick PROVE IInv'
  <1> USE DEF IInv, TypeOK, Tick
  <1>1. TypeOK' /\ StoredExist' /\ CookiesOwned' /\ NewIsPrivate' /\ NoExpiredGrant'
    BY DEF StoredExist, CookiesOwned, NewIsPrivate, NoExpiredGrant
  <1>2. StepsPrepared'
    <2> SUFFICES ASSUME NEW w \in Worker, req[w] # None
                 PROVE  /\ req[w].since <= now'
                        /\ req[w].pc = "drop" => Expired(req[w].cookie)'
      BY DEF StepsPrepared
    <2>1. req[w] \in Request /\ req[w].since \in Nat
      BY DEF Request
    <2>2. ASSUME req[w].pc = "drop" PROVE Expired(req[w].cookie)'
      <3>1. /\ req[w].cookie \in Sid /\ session[req[w].cookie] # None
            /\ Expired(req[w].cookie)
        BY <2>1, <2>2 DEF StepsPrepared, CookiesOwned, Request
      <3>2. session[req[w].cookie].expiry \in Nat
        BY <3>1 DEF Session
      <3> QED BY <3>1, <3>2 DEF Expired
    <2> QED BY <2>1, <2>2 DEF StepsPrepared
  <1> QED BY <1>1, <1>2

\* Every step of the handlers and of their environment keeps the invariant.
LEMMA NextIInv == IInv /\ [Next]_vars => IInv'
  <1> SUFFICES ASSUME IInv, [Next]_vars PROVE IInv'
    OBVIOUS
  <1>1. CASE UNCHANGED vars
    BY <1>1 DEF vars, IInv, TypeOK, StoredExist, CookiesOwned, StepsPrepared, Expired,
                NewIsPrivate, NoExpiredGrant
  <1>2. CASE Next
    BY <1>2, LookUpIInv, CheckExpiryIInv, DropIInv, ForgetIInv, ResolveIInv, ExchangeIInv,
       CreateIInv, StoreIInv, DeliverIInv, LoseIInv, AuthenticateIInv, CallbackIInv,
       ClearCookieIInv, ChildExitIInv, TickIInv
    DEF Next, Step, AuthStep, CallbackStep
  <1> QED BY <1>1, <1>2

\* The inductive invariant holds in every reachable state.
THEOREM Invariance == Spec => []IInv
  BY InitIInv, NextIInv, PTL DEF Spec

\* The variables keep their types.
THEOREM TypesHold == Spec => []TypeOK
  BY Invariance, PTL DEF IInv

\* A request let through is let through on a session its own browser opened,
\* however many children, threads and browsers interleave and whatever codes they
\* bring.
THEOREM GrantsGoToOpeners == Spec => []GrantedToOpener
  <1>1. IInv => GrantedToOpener
    BY DEF IInv, GrantedToOpener, CookiesOwned, StepsPrepared
  <1> QED BY <1>1, Invariance, PTL

\* No request is let through on a session that had expired when it came in.
THEOREM GrantsAreLive == Spec => []NoExpiredGrant
  BY Invariance, PTL DEF IInv

\* The cookie a login sends names a session its child has stored.
THEOREM WelcomesAreBacked == Spec => []WelcomeBacked
  <1>1. IInv => WelcomeBacked
    BY DEF IInv, WelcomeBacked, NewIsPrivate, StepsPrepared
  <1> QED BY <1>1, Invariance, PTL

\* The session a callback has removed stays out of its child's storage while the
\* callback is under way.
THEOREM OldSessionsAreGone == Spec => []OldSessionGone
  <1>1. Init => OldSessionGone
    BY DEF Init, OldSessionGone
  <1>2. ASSUME IInv, OldSessionGone, Next PROVE OldSessionGone'
    <2> USE DEF IInv, TypeOK
    <2>1. ASSUME NEW w \in Worker, NEW pc, Goto(w, pc), req[w] \in Request,
                 req[w].pc # "forget", \A c \in Child : table'[c] \subseteq table[c]
          PROVE  OldSessionGone'
      BY <1>2, <2>1 DEF OldSessionGone, Goto, Request
    <2>2. ASSUME NEW w \in Worker, AuthStep(w) \/ Resolve(w) \/ Exchange(w)
          PROVE  OldSessionGone'
      BY <1>2, <2>1, <2>2
      DEF AuthStep, LookUp, CheckExpiry, Drop, Resolve, Exchange
    <2>3. ASSUME NEW w \in Worker, Forget(w) PROVE OldSessionGone'
      BY <1>2, <2>3 DEF Forget, Forgotten, Goto, Request, OldSessionGone
    <2>4. ASSUME NEW w \in Worker, Create(w) PROVE OldSessionGone'
      BY <1>2, <2>4 DEF Create, Request, OldSessionGone
    <2>5. ASSUME NEW w \in Worker, Store(w) PROVE OldSessionGone'
      <3>1. \A v \in Worker : Serving(v) => req[v].cookie # req[w].new
        BY <1>2, <2>5 DEF Store, StepsPrepared, NewIsPrivate
      <3> QED BY <1>2, <2>5, <3>1 DEF Store, StoredSid, Goto, Request, OldSessionGone
    <2>6. ASSUME NEW w \in Worker, Deliver(w) \/ Lose(w) PROVE OldSessionGone'
      BY <1>2, <2>6 DEF Deliver, Lose, Finish, OldSessionGone
    <2>7. ASSUME NEW w \in Worker, NEW u \in Browser, Authenticate(w, u) \/ Callback(w, u)
          PROVE  OldSessionGone'
      BY <1>2, <2>7 DEF Authenticate, Callback, Accept, CheckLoginUrl, OldSessionGone
    <2>8. ASSUME NEW u \in Browser, ClearCookie(u) PROVE OldSessionGone'
      BY <1>2, <2>8 DEF ClearCookie, OldSessionGone
    <2>9. ASSUME NEW c \in Child, ChildExit(c) PROVE OldSessionGone'
      BY <1>2, <2>9 DEF ChildExit, OldSessionGone
    <2>10. CASE Tick
      BY <1>2, <2>10 DEF Tick, OldSessionGone
    <2> QED
      BY <1>2, <2>2, <2>3, <2>4, <2>5, <2>6, <2>7, <2>8, <2>9, <2>10
      DEF Next, Step, CallbackStep
  <1>3. IInv /\ OldSessionGone /\ UNCHANGED vars => OldSessionGone'
    BY DEF OldSessionGone, vars
  <1> QED BY <1>1, <1>2, <1>3, Invariance, PTL DEF Spec

\* Only a callback with its cookie or the exit of its child ends a session
\* before it expires.
THEOREM LiveSessionsAreKept == Spec => LiveSessionKept
  <1> DEFINE Kept == \A c \in Child : \A s \in table[c] \ table'[c] :
                        session[s].expiry <= now \/ Quiet(c)' \/
                        \E w \in Worker : ChildOf[w] = c /\ At(w, "forget") /\ req[w].cookie = s
  <1>1. ASSUME IInv, Next PROVE Kept
    <2> USE DEF IInv, TypeOK
    <2>1. ASSUME NEW w \in Worker, Drop(w) PROVE Kept
      BY <1>1, <2>1 DEF Drop, StepsPrepared, Expired
    <2>2. ASSUME NEW w \in Worker, Forget(w) PROVE Kept
      BY <1>1, <2>2 DEF Forget, Forgotten
    <2>3. ASSUME NEW w \in Worker, Store(w) PROVE Kept
      BY <1>1, <2>3 DEF Store
    <2>4. ASSUME NEW c \in Child, ChildExit(c) PROVE Kept
      BY <1>1, <2>4 DEF ChildExit, Quiet
    <2>5. ASSUME UNCHANGED table PROVE Kept
      BY <2>5
    <2> HIDE DEF Kept
    <2> QED
      BY <1>1, <2>1, <2>2, <2>3, <2>4, <2>5
      DEF Next, Step, AuthStep, CallbackStep, LookUp, CheckExpiry, Resolve, Exchange, Create,
          Deliver, Lose, Authenticate, Callback, Accept, ClearCookie, Tick
  <1>2. IInv /\ [Next]_vars => [Kept]_vars
    BY <1>1
  <1> QED BY <1>2, Invariance, PTL DEF Spec, LiveSessionKept

\* A thread that goes to any step but the one that stores a session, and adds
\* nothing to a storage, revives no session.
LEMMA GotoKeepsEnded ==
  ASSUME IInv, NEW s \in Sid, Ended(s), NEW w \in Worker, Serving(w),
         NEW pc, pc # "store", Goto(w, pc), session' = session,
         \A c \in Child : table'[c] \subseteq table[c]
  PROVE  Ended(s)'
  <1>1. /\ req' = [req EXCEPT ![w].pc = pc]
        /\ \A v \in Worker : req[v] \in Request \union {None}
        /\ req \in [Worker -> Request \union {None}]
    BY DEF Goto, IInv, TypeOK
  <1>2. \A v \in Worker : req'[v] # None /\ req'[v].pc = "store" =>
          req[v] # None /\ req[v].pc = "store" /\ req'[v] = req[v]
    BY <1>1 DEF Request
  <1> QED BY <1>2 DEF Ended

\* A session that has ended never becomes live again.
THEOREM EndedSessionsStayEnded == Spec => EndedStaysEnded
  <1> DEFINE Stay == \A s \in Sid : Ended(s) => Ended(s)'
  <1>1. ASSUME IInv, Next PROVE Stay
    <2> SUFFICES ASSUME NEW s \in Sid, Ended(s) PROVE Ended(s)'
      OBVIOUS
    <2> USE DEF IInv, TypeOK, Ended
    <2>1. ASSUME NEW w \in Worker, LookUp(w) \/ CheckExpiry(w) \/ Resolve(w) \/ Exchange(w)
          PROVE  Ended(s)'
      BY <1>1, <2>1, GotoKeepsEnded
      DEF LookUp, CheckExpiry, Resolve, ResolveOutcomes, Exchange, CheckLoginUrl
    <2>2. ASSUME NEW w \in Worker, Drop(w) \/ Forget(w) PROVE Ended(s)'
      <3>1. \A c \in Child : table'[c] \subseteq table[c]
        BY <1>1, <2>2 DEF Drop, Forget, Forgotten
      <3> QED BY <1>1, <2>2, <3>1, GotoKeepsEnded DEF Drop, Forget, CheckLoginUrl
    <2>3. ASSUME NEW w \in Worker, Create(w) PROVE Ended(s)'
      BY <1>1, <2>3 DEF Create, FreshSid
    <2>4. ASSUME NEW w \in Worker, Store(w) PROVE Ended(s)'
      BY <1>1, <2>4 DEF Store, StoredSid, Goto, Request
    <2>5. ASSUME NEW w \in Worker, Deliver(w) \/ Lose(w) PROVE Ended(s)'
      BY <1>1, <2>5 DEF Deliver, Lose, Finish
    <2>6. ASSUME NEW w \in Worker, NEW u \in Browser, Authenticate(w, u) \/ Callback(w, u)
          PROVE  Ended(s)'
      BY <1>1, <2>6 DEF Authenticate, Callback, Accept, CheckLoginUrl
    <2>7. ASSUME NEW u \in Browser, ClearCookie(u) PROVE Ended(s)'
      BY <1>1, <2>7 DEF ClearCookie
    <2>8. ASSUME NEW c \in Child, ChildExit(c) PROVE Ended(s)'
      BY <1>1, <2>8 DEF ChildExit
    <2>9. CASE Tick
      BY <1>1, <2>9 DEF Tick
    <2> QED
      BY <1>1, <2>1, <2>2, <2>3, <2>4, <2>5, <2>6, <2>7, <2>8, <2>9
      DEF Next, Step, AuthStep, CallbackStep
  <1>2. IInv /\ [Next]_vars => [Stay]_vars
    BY <1>1
  <1> QED BY <1>2, Invariance, PTL DEF Spec, EndedStaysEnded
=============================================================================
