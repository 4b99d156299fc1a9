-------------------------- MODULE LoginFlowProofs --------------------------
(***************************************************************************)
(* LoginFlow for any number of tabs, threads, children, pages and          *)
(* providers.  First that it implements AuthFlow: whatever is proved of    *)
(* sessions there holds of the logins here.  Then that what travels with a *)
(* login comes back with it: the page and the provider, through the        *)
(* listing, the state parameter and the provider, whatever the texts       *)
(* contain.  Last that the handlers release what they acquire, and once.   *)
(***************************************************************************)
EXTENDS LoginFlow, NetstringProofs

\* The code a tab is sent back with is one of the providers'.
CodesKept == \A t \in Tab : tab[t].at.kind = "callback" => tab[t].at.code \in Code

\* No handler sends a tab to the redirect URI itself.
RepliesElsewhere ==
    \A w \in Worker : Auth!Serving(w) => job[w].reply.kind # "callback"

LInv ==
    /\ DOMAIN tab = Tab /\ DOMAIN job = Worker /\ DOMAIN req = Worker
    /\ CodesKept /\ RepliesElsewhere

\* No tab has gone anywhere, no request is under way.
LEMMA InitLInv == Init => LInv
  BY DEF Init, Auth!Init, Auth!Serving, LInv, CodesKept, RepliesElsewhere

\* A tab that goes anywhere but to the redirect URI keeps CodesKept.
LEMMA AtElsewhere ==
  ASSUME LInv, NEW t, NEW url, url.kind # "callback", tab' = At(t, url)
  PROVE  DOMAIN tab' = Tab /\ CodesKept'
  BY DEF LInv, CodesKept, At

\* The users and the provider.
LEMMA TabStepLInv ==
  ASSUME LInv, NEW t \in Tab,
         Open(t) \/ Reload(t) \/ Retry(t) \/ Choose(t) \/ Authorize(t) \/ Refuse(t)
  PROVE  LInv' /\ UNCHANGED Auth!vars
  <1> USE DEF authVars, Auth!vars, Auth!Serving, Auth!NoRequest
  <1>1. CASE Open(t)
    BY <1>1 DEF Open, LInv, CodesKept, RepliesElsewhere, PageUrl
  <1>2. CASE Reload(t) \/ Retry(t)
    BY <1>2, AtElsewhere
    DEF Reload, Retry, AskAgain, Go, PageUrl, LInv, RepliesElsewhere
  <1>3. CASE Choose(t)
    BY <1>3, AtElsewhere DEF Choose, Go, LInv, RepliesElsewhere
  <1>4. CASE Authorize(t)
    <2>1. PICK k \in Code : /\ k \in CodesLeft(t)
                            /\ tab' = At(t, [kind |-> "callback", code |-> k, state |-> tab[t].at.state])
      <3>1. \E k \in Code : k \in CodesLeft(t)
        BY <1>4, CodesOfAssumption DEF Authorize, CodesLeft
      <3> QED BY <1>4, <3>1 DEF Authorize
    <2>2. DOMAIN tab' = Tab /\ CodesKept'
      BY <2>1 DEF At, LInv, CodesKept
    <2> QED BY <1>4, <2>2 DEF Authorize, LInv, RepliesElsewhere
  <1>5. CASE Refuse(t)
    BY <1>5, AtElsewhere DEF Refuse, Go, LInv, RepliesElsewhere
  <1> QED BY <1>1, <1>2, <1>3, <1>4, <1>5

\* A step of one thread that leaves the tabs where they are, and gives the thread
\* no reply that is the redirect URI.
LEMMA JobLInv ==
  ASSUME LInv, NEW w \in Worker, UNCHANGED tab,
         DOMAIN job' = Worker, DOMAIN req' = Worker,
         \A v \in Worker \ {w} : job'[v] = job[v] /\ req'[v] = req[v],
         Auth!Serving(w)' => job'[w].reply.kind # "callback"
  PROVE  LInv'
  BY DEF LInv, CodesKept, RepliesElsewhere, Auth!Serving

\* A request for a page, for the login page, or with what the provider said.
LEMMA SendLInv ==
  ASSUME LInv, NEW t \in Tab, NEW w \in Worker,
         Load(t, w) \/ Initiate(t, w) \/ Callback(t, w)
  PROVE  LInv' /\ Auth!Next
  <1> USE BrowserOfAssumption DEF Browse
  <1>1. ASSUME NEW j, job' = [job EXCEPT ![w] = j], j.reply.kind # "callback",
               NEW place, NEW code, NEW pc, Send(t, w, place, code, pc)
        PROVE  LInv'
    BY <1>1, JobLInv DEF Send, Auth!Accept, LInv
  <1>2. NewJob(t).reply.kind # "callback" /\ Error.kind # "callback"
    BY DEF NewJob, Error
  <1>3. CASE Load(t, w)
    <2>1. LInv'
      BY <1>1, <1>2, <1>3 DEF Load
    <2>2. Auth!Authenticate(w, Browse(t))
      BY <1>3 DEF Load, Send, Auth!Authenticate
    <2> QED BY <2>1, <2>2 DEF Auth!Next
  <1>4. CASE Initiate(t, w)
    <2>1. LInv'
      BY <1>1, <1>2, <1>4 DEF Initiate, Done, Failed
    <2>2. Auth!Authenticate(w, Browse(t))
      BY <1>4 DEF Initiate, Send, Auth!Authenticate
    <2> QED BY <2>1, <2>2 DEF Auth!Next
  <1>5. CASE Callback(t, w)
    <2>1. LInv'
      BY <1>1, <1>2, <1>5 DEF Callback
    <2>2. Auth!Callback(w, Browse(t))
      BY <1>5 DEF Callback, Send, Auth!Callback, LInv, CodesKept
    <2> QED BY <2>1, <2>2 DEF Auth!Next
  <1> QED BY <1>3, <1>4, <1>5

\* The steps of a handler, and the answer.
LEMMA ServeLInv ==
  ASSUME LInv, NEW w \in Worker, Serve(w) \/ Lose(w)
  PROVE  LInv'
  <1> USE DEF Auth!Serving, Auth!At, Auth!Goto
  <1>1. CASE AsBefore(w)
    BY <1>1, JobLInv
    DEF AsBefore, LInv, RepliesElsewhere, Auth!AuthStep, Auth!LookUp, Auth!CheckExpiry,
        Auth!Drop, Auth!Forget
  <1>2. CASE Resolve(w)
    <2>1. /\ Auth!Serving(w) /\ UNCHANGED tab /\ DOMAIN req' = Worker
          /\ \A v \in Worker \ {w} : req'[v] = req[v]
      BY <1>2 DEF Resolve, Auth!Resolve, LInv
    <2>2. \/ job' = [job EXCEPT ![w] = Owning(@, OwnedAfter(CallbackCalls, BeforeExchange))]
          \/ \E i \in 1 .. BeforeExchange : job' = [job EXCEPT ![w] = Failed(@, CallbackCalls, i)]
      BY <1>2 DEF Resolve
    <2>3. PICK j : job' = [job EXCEPT ![w] = j] /\ j.reply \in {job[w].reply, Error}
      <3>1. CASE job' = [job EXCEPT ![w] = Owning(@, OwnedAfter(CallbackCalls, BeforeExchange))]
        <4> DEFINE j == Owning(job[w], OwnedAfter(CallbackCalls, BeforeExchange))
        <4>1. j.reply = job[w].reply
          BY DEF Owning
        <4>2. job' = [job EXCEPT ![w] = j]
          BY <3>1
        <4> HIDE DEF j
        <4> QED BY <4>1, <4>2
      <3>2. ASSUME NEW i, job' = [job EXCEPT ![w] = Failed(@, CallbackCalls, i)]
            PROVE  \E j : job' = [job EXCEPT ![w] = j] /\ j.reply \in {job[w].reply, Error}
        <4> DEFINE j == Failed(job[w], CallbackCalls, i)
        <4>1. j.reply = Error
          BY DEF Failed, Done
        <4>2. job' = [job EXCEPT ![w] = j]
          BY <3>2
        <4> HIDE DEF j
        <4> QED BY <4>1, <4>2
      <3> QED BY <2>2, <3>1, <3>2
    <2> QED BY <2>1, <2>3, JobLInv DEF LInv, RepliesElsewhere, Error
  <1>3. CASE Exchange(w)
    <2>1. /\ Auth!Serving(w) /\ UNCHANGED tab /\ DOMAIN req' = Worker
          /\ \A v \in Worker \ {w} : req'[v] = req[v]
      BY <1>3 DEF Exchange, Auth!Exchange, LInv
    <2>2. \/ job' = [job EXCEPT ![w] = Owning(@, OwnedAfter(CallbackCalls, Len(CallbackCalls)))]
          \/ job' = [job EXCEPT ![w] = Failed(@, CallbackCalls, Len(CallbackCalls))]
      BY <1>3 DEF Exchange
    <2> QED BY <2>1, <2>2, JobLInv DEF LInv, RepliesElsewhere, Owning, Failed, Done, Error
  <1>4. CASE Create(w)
    BY <1>4, JobLInv DEF Create, LInv, RepliesElsewhere, Auth!Create
  <1>5. CASE Store(w)
    <2>1. /\ UNCHANGED tab /\ DOMAIN req' = Worker
          /\ \A v \in Worker \ {w} : req'[v] = req[v]
      BY <1>5 DEF Store, Auth!Store, LInv
    <2> QED BY <1>5, <2>1, JobLInv DEF Store, Done, PageUrl, LInv
  <1>6. CASE Deliver(w)
    <2>1. Landing(w).kind # "callback"
      BY <1>6 DEF Deliver, Auth!Deliver, Landing, LoginUrl, LInv, RepliesElsewhere
    <2>2. DOMAIN tab' = Tab /\ CodesKept'
      BY <1>6, <2>1, AtElsewhere DEF Deliver
    <2> QED
      BY <1>6, <2>2 DEF Deliver, Auth!Deliver, Auth!Finish, Auth!NoRequest, LInv, RepliesElsewhere
  <1>7. CASE Lose(w)
    BY <1>7, JobLInv DEF Lose, Auth!Lose, Auth!Finish, Auth!NoRequest, LInv
  <1> QED BY <1>1, <1>2, <1>3, <1>4, <1>5, <1>6, <1>7 DEF Serve

\* The inductive invariant is kept, and every step is one of AuthFlow's or
\* leaves its variables alone.
LEMMA NextLInv ==
  ASSUME LInv, [Next]_vars
  PROVE  LInv' /\ [Auth!Next]_(Auth!vars)
  <1>1. ASSUME NEW w \in Worker, Serve(w) \/ Lose(w) PROVE Auth!Next
    BY <1>1
    DEF Serve, AsBefore, Resolve, Exchange, Create, Store, Deliver, Lose,
        Auth!Next, Auth!Step, Auth!CallbackStep
  <1> USE DEF LInv, CodesKept, RepliesElsewhere, Auth!Serving, Auth!NoRequest
  <1>2. ASSUME NEW u \in Browser, ClearCookie(u) PROVE LInv' /\ Auth!Next
    BY <1>2 DEF ClearCookie, Auth!ClearCookie, Auth!Next
  <1>3. ASSUME NEW c \in Child, ChildExit(c) PROVE LInv' /\ Auth!Next
    <2>1. LInv'
      BY <1>3 DEF ChildExit, Auth!ChildExit
    <2> QED BY <1>3, <2>1 DEF ChildExit, Auth!Next
  <1>4. ASSUME Tick PROVE LInv' /\ Auth!Next
    BY <1>4 DEF Tick, Auth!Tick, Auth!Next
  <1>5. ASSUME UNCHANGED vars PROVE LInv' /\ UNCHANGED Auth!vars
    BY <1>5 DEF vars, authVars, Auth!vars
  <1> HIDE DEF LInv
  <1> QED
    BY <1>1, <1>2, <1>3, <1>4, <1>5, TabStepLInv, SendLInv, ServeLInv DEF Next, Proceed

\* A login, from the page that is asked for to the page that is shown, is made of
\* steps of AuthFlow: the sessions behind the logins are the ones whose properties
\* are proved there.
THEOREM LoginsImplementSessions == Spec => Auth!Spec
  <1>1. Init => Auth!Init
    BY DEF Init
  <1> QED BY <1>1, InitLInv, NextLInv, PTL DEF Spec, Auth!Spec
-----------------------------------------------------------------------------
(* The state parameter.                                                    *)

\* What a state parameter is made of is what the callback finds in it: the page
\* and the provider, of any length, whatever digits and signs they contain.
THEOREM StateDecodes ==
  ASSUME NEW op, IsText(op), NEW page, IsText(page)
  PROVE  Decoded(generate_oidc_request_state(op, page)) = [return_to |-> page, op |-> op]
  <1> DEFINE C == Digit \union {":", Comma} \union {page[k] : k \in DOMAIN page}
                     \union {op[k] : k \in DOMAIN op} \union {NUL}
             e1 == encode_netstring(page)
             e2 == encode_netstring(op)
             size1 == fmt_get_length(Len(page), Base)
             size2 == fmt_get_length(Len(op), Base)
             n1 == size1 + Len(page) + 2
             n2 == size2 + Len(op) + 2
             buff == Append(e1 \o e2, NUL)
             buff1 == [buff EXCEPT ![n1] = NUL]
             buff2 == [buff1 EXCEPT ![n1 + n2] = NUL]
  <1>1. /\ Digit \subseteq C /\ ":" \in C /\ Comma \in C /\ NUL \in C
        /\ \A k \in DOMAIN page : page[k] \in C
        /\ \A k \in DOMAIN op : op[k] \in C
    OBVIOUS
  <1> HIDE DEF C
  <1>2. /\ Len(page) \in Nat /\ size1 \in Nat /\ e1 \in Seq(C) /\ Len(e1) = n1
        /\ \A k \in 1 .. Len(page) : e1[size1 + 1 + k] = page[k]
    BY <1>1, EncodedParts
  <1>3. /\ Len(op) \in Nat /\ size2 \in Nat /\ e2 \in Seq(C) /\ Len(e2) = n2
        /\ \A k \in 1 .. Len(op) : e2[size2 + 1 + k] = op[k]
    BY <1>1, EncodedParts
  <1>4. Len(page) \in Nat /\ size1 \in Nat /\ Len(op) \in Nat /\ size2 \in Nat
    BY <1>2, <1>3
  <1> HIDE DEF e1, e2, size1, size2
  <1>5. /\ buff \in Seq(C) /\ Len(buff) = n1 + n2 + 1
        /\ \A k \in 1 .. n1 : buff[k] = e1[k]
        /\ \A k \in 1 .. n2 : buff[n1 + k] = e2[k]
    <2>0. n1 \in Nat /\ n2 \in Nat /\ e1 \in Seq(C) /\ e2 \in Seq(C) /\ Len(e1) = n1 /\ Len(e2) = n2
      BY <1>2, <1>3, <1>4
    <2> HIDE DEF n1, n2
    <2>1. /\ e1 \o e2 \in Seq(C) /\ Len(e1 \o e2) = n1 + n2
          /\ \A k \in 1 .. n1 + n2 : (e1 \o e2)[k] = IF k <= n1 THEN e1[k] ELSE e2[k - n1]
      BY <2>0, ConcatProperties
    <2>2. /\ buff \in Seq(C) /\ Len(buff) = n1 + n2 + 1
          /\ \A k \in 1 .. n1 + n2 : buff[k] = (e1 \o e2)[k]
      BY <2>1, <1>1, AppendProperties
    <2> HIDE DEF buff
    <2>3. \A k \in 1 .. n1 : k \in 1 .. n1 + n2 /\ k <= n1
      BY <2>0
    <2>4. \A k \in 1 .. n2 : n1 + k \in 1 .. n1 + n2 /\ ~(n1 + k <= n1) /\ (n1 + k) - n1 = k
      BY <2>0
    <2> QED BY <2>1, <2>2, <2>3, <2>4
  <1> HIDE DEF buff
  <1>6. /\ buff1 \in Seq(C) /\ Len(buff1) = n1 + n2 + 1 /\ buff1[n1] = NUL
        /\ \A k \in 1 .. n1 + n2 + 1 : k # n1 => buff1[k] = buff[k]
    BY <1>1, <1>4, <1>5, ExceptSeq
  <1> HIDE DEF buff1
  <1>7. /\ buff2 \in Seq(C) /\ Len(buff2) = n1 + n2 + 1 /\ buff2[n1 + n2] = NUL /\ buff2[n1] = NUL
        /\ \A k \in 1 .. n1 + n2 + 1 : k # n1 /\ k # n1 + n2 => buff2[k] = buff[k]
    <2>1. n1 + n2 \in 1 .. Len(buff1) /\ n1 \in 1 .. Len(buff1) /\ n1 # n1 + n2
      BY <1>4, <1>6
    <2>2. /\ buff2 \in Seq(C) /\ Len(buff2) = Len(buff1)
          /\ \A k \in 1 .. Len(buff1) : buff2[k] = IF k = n1 + n2 THEN NUL ELSE buff1[k]
      BY <2>1, <1>1, <1>6, ExceptSeq
    <2> HIDE DEF buff2
    <2> QED BY <2>1, <2>2, <1>6
  <1> HIDE DEF buff2
  <1>8. decode_netstring_inplace(buff, 1, NullPointer)
            = [buff |-> buff1, str |-> size1 + 2, last |-> n1]
    <2>1. Stands(e1, buff, 1)
      BY <1>2, <1>4, <1>5 DEF Stands
    <2>2. Len(buff) \in Nat /\ 1 + Len(e1) - 1 <= Len(buff) /\ 1 \in Nat \ {0}
      BY <1>2, <1>4, <1>5
    <2>3. 1 + size1 + 1 = size1 + 2 /\ 1 + size1 + 1 + Len(page) = n1
      BY <1>4
    <2> QED BY <2>1, <2>2, <2>3, EncodedDecodes DEF e1, size1, buff1
  <1>9. decode_netstring_inplace(buff1, n1 + 1, n1)
            = [buff |-> buff2, str |-> n1 + size2 + 2, last |-> n1 + n2]
    <2>1. Stands(e2, buff1, n1 + 1)
      <3> SUFFICES ASSUME NEW k \in 1 .. n2 PROVE buff1[n1 + 1 + k - 1] = e2[k]
        BY <1>3 DEF Stands
      <3>1. n1 + 1 + k - 1 = n1 + k /\ n1 + k \in 1 .. n1 + n2 + 1 /\ n1 + k # n1
        BY <1>4
      <3> QED BY <3>1, <1>5, <1>6
    <2>2. Len(buff1) \in Nat /\ n1 + 1 + Len(e2) - 1 <= Len(buff1) /\ n1 + 1 \in Nat \ {0}
      BY <1>3, <1>4, <1>6
    <2>3. n1 + 1 + size2 + 1 = n1 + size2 + 2 /\ n1 + 1 + size2 + 1 + Len(op) = n1 + n2
      BY <1>4
    <2> HIDE DEF n1
    <2> QED BY <2>1, <2>2, <2>3, EncodedDecodes DEF e2, size2, buff2
  <1>10. TextAt(buff2, size1 + 2) = page
    <2>1. Stands(page, buff2, size1 + 2)
      <3> SUFFICES ASSUME NEW k \in 1 .. Len(page) PROVE buff2[size1 + 2 + k - 1] = page[k]
        BY DEF Stands
      <3>1. /\ size1 + 2 + k - 1 = size1 + 1 + k /\ size1 + 1 + k \in 1 .. n1 + n2 + 1
            /\ size1 + 1 + k \in 1 .. n1
            /\ size1 + 1 + k # n1 /\ size1 + 1 + k # n1 + n2
        BY <1>4
      <3> QED BY <3>1, <1>2, <1>5, <1>7
    <2>2. /\ size1 + 2 \in Nat \ {0} /\ size1 + 2 + Len(page) = n1 /\ n1 <= Len(buff2)
      BY <1>4, <1>7
    <2> HIDE DEF n1
    <2> QED BY <2>1, <2>2, <1>7, TextStands
  <1>11. TextAt(buff2, n1 + size2 + 2) = op
    <2>1. Stands(op, buff2, n1 + size2 + 2)
      <3> SUFFICES ASSUME NEW k \in 1 .. Len(op) PROVE buff2[n1 + size2 + 2 + k - 1] = op[k]
        BY DEF Stands
      <3>1. /\ n1 + size2 + 2 + k - 1 = n1 + (size2 + 1 + k) /\ size2 + 1 + k \in 1 .. n2
            /\ n1 + (size2 + 1 + k) \in 1 .. n1 + n2 + 1
            /\ n1 + (size2 + 1 + k) # n1 /\ n1 + (size2 + 1 + k) # n1 + n2
        BY <1>4
      <3> QED BY <3>1, <1>3, <1>5, <1>7
    <2>2. /\ n1 + size2 + 2 \in Nat \ {0} /\ n1 + size2 + 2 + Len(op) = n1 + n2
          /\ n1 + n2 <= Len(buff2)
      BY <1>4, <1>7
    <2> HIDE DEF n1, n2
    <2> QED BY <2>1, <2>2, <1>7, TextStands
  <1>12. n1 # NullPointer /\ n1 + size2 + 2 # NullPointer
    BY <1>4 DEF NullPointer
  <1> HIDE DEF n1, n2
  <1> QED BY <1>8, <1>9, <1>10, <1>11, <1>12
      DEF Decoded, Rest, generate_oidc_request_state, buff, e1, e2
-----------------------------------------------------------------------------
(* What the handlers acquire and release.                                  *)

\* The calls of the callback, one by one.
LEMMA CallbackList ==
  /\ Len(CallbackCalls) = 5
  /\ CallbackCalls[1] = Call({"resolver", "chains"}, {}, <<>>, cleanup_resolver)
  /\ CallbackCalls[2] = Call({"chain"}, {"metadata"}, <<>>, cleanup_chain)
  /\ CallbackCalls[3] = Call({}, {"opMetadata"}, <<>>, cleanup_metadata)
  /\ CallbackCalls[4] = Call({}, {"tokenEndpoint"}, <<>>, cleanup_op_metadata)
  /\ CallbackCalls[5] = Call({"producer", "tokenResponse"}, {}, <<>>, cleanup_token)
  <1> DEFINE own == <<Call({}, {"tokenEndpoint"}, <<>>, cleanup_op_metadata),
                      Call({"producer", "tokenResponse"}, {}, <<>>, cleanup_token)>>
             S == {CommonCalls[i] : i \in 1 .. 3} \union {own[i] : i \in 1 .. 2}
  <1>1. Len(CommonCalls) = 3 /\ Len(own) = 2
    BY DEF CommonCalls
  <1>2. CommonCalls \in Seq(S) /\ own \in Seq(S)
    BY DEF CommonCalls
  <1>3. CallbackCalls = CommonCalls \o own
    BY DEF CallbackCalls
  <1>4. /\ Len(CallbackCalls) = 3 + 2
        /\ \A i \in 1 .. 3 + 2 : CallbackCalls[i] = IF i <= 3 THEN CommonCalls[i] ELSE own[i - 3]
    <2> HIDE DEF own, S
    <2>1. /\ Len(CommonCalls \o own) = Len(CommonCalls) + Len(own)
          /\ \A i \in 1 .. Len(CommonCalls) + Len(own) :
                (CommonCalls \o own)[i] =
                   IF i <= Len(CommonCalls) THEN CommonCalls[i] ELSE own[i - Len(CommonCalls)]
      BY <1>2, ConcatProperties
    <2> QED BY <2>1, <1>1, <1>3
  <1> QED BY <1>4 DEF CommonCalls

\* The calls of a login's start, one by one.
LEMMA InitiationList ==
  /\ Len(InitiationCalls) = 8
  /\ InitiationCalls[1] = Call({"resolver", "chains"}, {}, <<>>, cleanup_resolver)
  /\ InitiationCalls[2] = Call({"chain"}, {"metadata"}, <<>>, cleanup_chain)
  /\ InitiationCalls[3] = Call({}, {"opMetadata"}, <<>>, cleanup_metadata)
  /\ InitiationCalls[4] = Call({}, {"authEndpoint"}, <<>>, cleanup_op_metadata)
  /\ InitiationCalls[5] = Call({}, {"issuer"}, <<"authEndpoint">>, cleanup_op_metadata)
  /\ InitiationCalls[6] = Call({}, {"producer"}, <<"issuer", "authEndpoint">>, cleanup_op_metadata)
  /\ InitiationCalls[7] = Call({}, {}, <<"issuer", "authEndpoint">>, cleanup_op_metadata)
  /\ InitiationCalls[8] =
        Call({"requestValues"}, {"signedRequest", "jwt"}, <<"requestValues", "authEndpoint">>,
             cleanup_op_metadata)
  <1> DEFINE own == <<Call({}, {"authEndpoint"}, <<>>, cleanup_op_metadata),
                      Call({}, {"issuer"}, <<"authEndpoint">>, cleanup_op_metadata),
                      Call({}, {"producer"}, <<"issuer", "authEndpoint">>, cleanup_op_metadata),
                      Call({}, {}, <<"issuer", "authEndpoint">>, cleanup_op_metadata),
                      Call({"requestValues"}, {"signedRequest", "jwt"},
                           <<"requestValues", "authEndpoint">>, cleanup_op_metadata)>>
             S == {CommonCalls[i] : i \in 1 .. 3} \union {own[i] : i \in 1 .. 5}
  <1>1. Len(CommonCalls) = 3 /\ Len(own) = 5
    BY DEF CommonCalls
  <1>2. CommonCalls \in Seq(S) /\ own \in Seq(S)
    BY DEF CommonCalls
  <1>3. InitiationCalls = CommonCalls \o own
    BY DEF InitiationCalls
  <1>4. /\ Len(InitiationCalls) = 3 + 5
        /\ \A i \in 1 .. 3 + 5 : InitiationCalls[i] = IF i <= 3 THEN CommonCalls[i] ELSE own[i - 3]
    <2> HIDE DEF own, S
    <2>1. /\ Len(CommonCalls \o own) = Len(CommonCalls) + Len(own)
          /\ \A i \in 1 .. Len(CommonCalls) + Len(own) :
                (CommonCalls \o own)[i] =
                   IF i <= Len(CommonCalls) THEN CommonCalls[i] ELSE own[i - Len(CommonCalls)]
      BY <1>2, ConcatProperties
    <2> QED BY <2>1, <1>1, <1>3
  <1> QED BY <1>4 DEF CommonCalls

\* The names of everything that can be owned.
LEMMA HandleNames ==
  Handle = {"tokenResponse", "tokenEndpoint", "opMetadata", "metadata", "chain", "chains", "resolver",
            "authEndpoint", "issuer", "producer", "requestValues", "signedRequest", "jwt"}
  <1>1. /\ Ladder[1] = "tokenResponse" /\ Ladder[2] = "tokenEndpoint" /\ Ladder[3] = "opMetadata"
        /\ Ladder[4] = "metadata" /\ Ladder[5] = "chain" /\ Ladder[6] = "chains"
        /\ Ladder[7] = "resolver" /\ DOMAIN Ladder = {1, 2, 3, 4, 5, 6, 7}
    BY DEF Ladder
  <1>2. Range(Ladder) = {Ladder[1], Ladder[2], Ladder[3], Ladder[4], Ladder[5], Ladder[6], Ladder[7]}
    BY <1>1 DEF Range
  <1> QED BY <1>1, <1>2 DEF Handle

\* What falling through the ladder releases, from any place of it: what comes from
\* there on, each once.
LEMMA LadderReleases ==
  ASSUME NEW label \in 1 .. 7
  PROVE  /\ ReleasedFrom(label) \in Seq(Handle)
         /\ IsInjective(ReleasedFrom(label))
         /\ Range(ReleasedFrom(label)) = {Ladder[k] : k \in label .. 7}
  <1> DEFINE released == ReleasedFrom(label)
  <1>1. Len(Ladder) = 7
    BY DEF Ladder
  <1>2. \A k, m \in 1 .. 7 : Ladder[k] = Ladder[m] => k = m
    BY DEF Ladder
  <1>3. \A k \in label .. 7 : Ladder[k] \in Handle
    BY <1>1 DEF Handle, Range
  <1>4. /\ released \in Seq(Handle) /\ Len(released) = 8 - label
        /\ \A k \in 1 .. 8 - label : released[k] = Ladder[label + k - 1]
    <2>1. /\ SubSeq(Ladder, label, 7) \in Seq(Handle)
          /\ Len(SubSeq(Ladder, label, 7)) = 8 - label
          /\ \A k \in 1 .. 8 - label : SubSeq(Ladder, label, 7)[k] = Ladder[label + k - 1]
      BY <1>3, SubSeqProperties
    <2> QED BY <1>1, <2>1 DEF ReleasedFrom
  <1> HIDE DEF released
  <1>5. DOMAIN released = 1 .. 8 - label
    BY <1>4
  <1>6. \A k \in 1 .. 8 - label : label + k - 1 \in label .. 7
    OBVIOUS
  <1>7. \A m \in label .. 7 : m - label + 1 \in 1 .. 8 - label /\ label + (m - label + 1) - 1 = m
    OBVIOUS
  <1>8. IsInjective(released)
    <2> SUFFICES ASSUME NEW k \in 1 .. 8 - label, NEW m \in 1 .. 8 - label, released[k] = released[m]
                 PROVE  k = m
      BY <1>5 DEF IsInjective
    <2>1. Ladder[label + k - 1] = Ladder[label + m - 1]
      BY <1>4
    <2>2. label + k - 1 \in 1 .. 7 /\ label + m - 1 \in 1 .. 7
      BY <1>6
    <2>3. label + k - 1 = label + m - 1
      BY <2>1, <2>2, <1>2
    <2> QED BY <2>3
  <1>9. Range(released) = {Ladder[k] : k \in label .. 7}
    <2>1. \A x \in Range(released) : \E k \in label .. 7 : x = Ladder[k]
      BY <1>4, <1>5, <1>6 DEF Range
    <2>2. \A k \in label .. 7 : Ladder[k] \in Range(released)
      <3> SUFFICES ASSUME NEW k \in label .. 7 PROVE Ladder[k] \in Range(released)
        OBVIOUS
      <3>1. k - label + 1 \in 1 .. 8 - label /\ released[k - label + 1] = Ladder[k]
        BY <1>4, <1>7
      <3> QED BY <3>1, <1>5 DEF Range
    <2> QED BY <2>1, <2>2
  <1> QED BY <1>4, <1>8, <1>9 DEF released

\* The same label by label.
LEMMA LabelReleases ==
  /\ Range(ReleasedFrom(cleanup_resolver)) = {"chains", "resolver"}
  /\ Range(ReleasedFrom(cleanup_chain)) = {"chain", "chains", "resolver"}
  /\ Range(ReleasedFrom(cleanup_metadata)) = {"metadata", "chain", "chains", "resolver"}
  /\ Range(ReleasedFrom(cleanup_op_metadata)) =
        {"opMetadata", "metadata", "chain", "chains", "resolver"}
  /\ Range(ReleasedFrom(cleanup_token)) =
        {"tokenResponse", "tokenEndpoint", "opMetadata", "metadata", "chain", "chains", "resolver"}
  <1>1. /\ Ladder[1] = "tokenResponse" /\ Ladder[2] = "tokenEndpoint" /\ Ladder[3] = "opMetadata"
        /\ Ladder[4] = "metadata" /\ Ladder[5] = "chain" /\ Ladder[6] = "chains"
        /\ Ladder[7] = "resolver"
    BY DEF Ladder
  <1>2. /\ 6 .. 7 = {6, 7} /\ 5 .. 7 = {5, 6, 7} /\ 4 .. 7 = {4, 5, 6, 7}
        /\ 3 .. 7 = {3, 4, 5, 6, 7} /\ 1 .. 7 = {1, 2, 3, 4, 5, 6, 7}
    OBVIOUS
  <1>3. \A label \in {1, 3, 4, 5, 6} :
          Range(ReleasedFrom(label)) = {Ladder[k] : k \in label .. 7}
    <2> SUFFICES ASSUME NEW label \in {1, 3, 4, 5, 6}
                 PROVE  Range(ReleasedFrom(label)) = {Ladder[k] : k \in label .. 7}
      OBVIOUS
    <2>1. label \in 1 .. 7
      OBVIOUS
    <2> QED BY <2>1, LadderReleases
  <1> QED
    BY <1>1, <1>2, <1>3
    DEF cleanup_resolver, cleanup_chain, cleanup_metadata, cleanup_op_metadata, cleanup_token

\* Releases after other releases: each once, when the two have nothing in common.
LEMMA ReleasedBefore ==
  ASSUME NEW also \in Seq(Handle), IsInjective(also), NEW label \in 1 .. 7,
         Range(also) \cap Range(ReleasedFrom(label)) = {}
  PROVE  /\ IsInjective(also \o ReleasedFrom(label))
         /\ Range(also \o ReleasedFrom(label)) = Range(also) \union Range(ReleasedFrom(label))
  <1> DEFINE after == ReleasedFrom(label)
             both == also \o after
             n == Len(also)
             m == Len(after)
  <1>1. after \in Seq(Handle) /\ IsInjective(after)
    BY LadderReleases
  <1> HIDE DEF after
  <1>2. n \in Nat /\ m \in Nat /\ DOMAIN also = 1 .. n /\ DOMAIN after = 1 .. m
    BY <1>1
  <1>3. /\ both \in Seq(Handle) /\ Len(both) = n + m
        /\ \A k \in 1 .. n + m : both[k] = IF k <= n THEN also[k] ELSE after[k - n]
    BY <1>1, ConcatProperties
  <1> HIDE DEF both, n, m
  <1>4. DOMAIN both = 1 .. n + m
    BY <1>3
  <1>5. ASSUME NEW k \in 1 .. n + m
        PROVE  \/ k \in 1 .. n /\ both[k] = also[k]
               \/ ~(k \in 1 .. n) /\ k - n \in 1 .. m /\ both[k] = after[k - n]
    <2>1. CASE k <= n
      <3>1. k \in 1 .. n
        BY <2>1, <1>2
      <3> QED BY <3>1, <2>1, <1>3
    <2>2. CASE ~(k <= n)
      <3>1. ~(k \in 1 .. n) /\ k - n \in 1 .. m
        BY <2>2, <1>2
      <3> QED BY <3>1, <2>2, <1>3
    <2> QED BY <2>1, <2>2
  <1>6. \A k \in 1 .. n : k \in 1 .. n + m /\ both[k] = also[k]
    BY <1>2, <1>3
  <1>7. \A k \in 1 .. m : n + k \in 1 .. n + m /\ both[n + k] = after[k]
    BY <1>2, <1>3
  <1>8. \A a \in 1 .. n, b \in 1 .. m : also[a] # after[b]
    BY <1>2 DEF Range, after
  <1>9. IsInjective(both)
    <2> SUFFICES ASSUME NEW a \in 1 .. n + m, NEW b \in 1 .. n + m, both[a] = both[b]
                 PROVE  a = b
      BY <1>4 DEF IsInjective
    <2>1. CASE a \in 1 .. n /\ b \in 1 .. n
      BY <2>1, <1>2, <1>6 DEF IsInjective
    <2>2. CASE ~(a \in 1 .. n) /\ ~(b \in 1 .. n)
      <3>1. a - n \in 1 .. m /\ b - n \in 1 .. m /\ after[a - n] = after[b - n]
        BY <2>2, <1>5
      <3>2. a - n = b - n
        BY <3>1, <1>1, <1>2 DEF IsInjective
      <3> QED BY <3>2, <1>2
    <2>3. CASE a \in 1 .. n /\ ~(b \in 1 .. n)
      BY <2>3, <1>5, <1>8
    <2>4. CASE ~(a \in 1 .. n) /\ b \in 1 .. n
      BY <2>4, <1>5, <1>8
    <2> QED BY <2>1, <2>2, <2>3, <2>4
  <1>10. Range(both) = Range(also) \union Range(after)
    <2>1. Range(both) \subseteq Range(also) \union Range(after)
      BY <1>2, <1>4, <1>5 DEF Range
    <2>2. Range(also) \subseteq Range(both) /\ Range(after) \subseteq Range(both)
      BY <1>2, <1>4, <1>6, <1>7 DEF Range
    <2> QED BY <2>1, <2>2
  <1> QED BY <1>9, <1>10 DEF both, after

\* What a call adds to what a handler owns.
LEMMA OwnedStep ==
  ASSUME NEW calls, NEW n \in Nat
  PROVE  /\ OwnedAfter(calls, 0) = {}
         /\ OwnedAfter(calls, n + 1) =
               OwnedAfter(calls, n) \union calls[n + 1].takes \union calls[n + 1].gives
  BY DEF OwnedAfter

\* What the callback owns after each of its calls.
LEMMA CallbackOwned ==
  /\ OwnedAfter(CallbackCalls, 0) = {}
  /\ OwnedAfter(CallbackCalls, 1) = {"chains", "resolver"}
  /\ OwnedAfter(CallbackCalls, 2) = {"metadata", "chain", "chains", "resolver"}
  /\ OwnedAfter(CallbackCalls, 3) = {"opMetadata", "metadata", "chain", "chains", "resolver"}
  /\ OwnedAfter(CallbackCalls, 4) =
        {"tokenEndpoint", "opMetadata", "metadata", "chain", "chains", "resolver"}
  /\ OwnedAfter(CallbackCalls, 5) =
        {"producer", "tokenResponse", "tokenEndpoint", "opMetadata", "metadata", "chain",
         "chains", "resolver"}
  <1> DEFINE o(n) == OwnedAfter(CallbackCalls, n)
             c == CallbackCalls
  <1>1. /\ o(0) = {} /\ o(1) = o(0) \union c[1].takes \union c[1].gives
        /\ o(2) = o(1) \union c[2].takes \union c[2].gives
        /\ o(3) = o(2) \union c[3].takes \union c[3].gives
        /\ o(4) = o(3) \union c[4].takes \union c[4].gives
        /\ o(5) = o(4) \union c[5].takes \union c[5].gives
    <2>1. o(0) = {}
      BY OwnedStep
    <2>2. \A n \in Nat : o(n+1) = o(n) \union c[n+1].takes \union c[n+1].gives
      BY OwnedStep, Zenon
    <2>3. 0 + 1 = 1 /\ 1 + 1 = 2 /\ 2 + 1 = 3 /\ 3 + 1 = 4 /\ 4 + 1 = 5
      OBVIOUS
    <2> HIDE DEF o, c
    <2> QED BY <2>1, <2>2, <2>3
  <1> QED BY <1>1, CallbackList DEF Call

\* What the start of a login owns after each of its calls.
LEMMA InitiationOwned ==
  /\ OwnedAfter(InitiationCalls, 0) = {}
  /\ OwnedAfter(InitiationCalls, 1) = {"chains", "resolver"}
  /\ OwnedAfter(InitiationCalls, 2) = {"metadata", "chain", "chains", "resolver"}
  /\ OwnedAfter(InitiationCalls, 3) = {"opMetadata", "metadata", "chain", "chains", "resolver"}
  /\ OwnedAfter(InitiationCalls, 4) =
        {"authEndpoint", "opMetadata", "metadata", "chain", "chains", "resolver"}
  /\ OwnedAfter(InitiationCalls, 5) =
        {"issuer", "authEndpoint", "opMetadata", "metadata", "chain", "chains", "resolver"}
  /\ OwnedAfter(InitiationCalls, 6) =
        {"producer", "issuer", "authEndpoint", "opMetadata", "metadata", "chain", "chains", "resolver"}
  /\ OwnedAfter(InitiationCalls, 7) =
        {"producer", "issuer", "authEndpoint", "opMetadata", "metadata", "chain", "chains", "resolver"}
  /\ OwnedAfter(InitiationCalls, 8) =
        {"requestValues", "signedRequest", "jwt", "producer", "issuer", "authEndpoint", "opMetadata",
         "metadata", "chain", "chains", "resolver"}
  <1> DEFINE o(n) == OwnedAfter(InitiationCalls, n)
             c == InitiationCalls
  <1>1. /\ o(0) = {} /\ o(1) = o(0) \union c[1].takes \union c[1].gives
        /\ o(2) = o(1) \union c[2].takes \union c[2].gives
        /\ o(3) = o(2) \union c[3].takes \union c[3].gives
        /\ o(4) = o(3) \union c[4].takes \union c[4].gives
        /\ o(5) = o(4) \union c[5].takes \union c[5].gives
        /\ o(6) = o(5) \union c[6].takes \union c[6].gives
        /\ o(7) = o(6) \union c[7].takes \union c[7].gives
        /\ o(8) = o(7) \union c[8].takes \union c[8].gives
    <2>1. o(0) = {}
      BY OwnedStep
    <2>2. \A n \in Nat : o(n + 1) = o(n) \union c[n + 1].takes \union c[n + 1].gives
      BY OwnedStep, Zenon
    <2>3. /\ 0 + 1 = 1 /\ 1 + 1 = 2 /\ 2 + 1 = 3 /\ 3 + 1 = 4
          /\ 4 + 1 = 5 /\ 5 + 1 = 6 /\ 6 + 1 = 7 /\ 7 + 1 = 8
      OBVIOUS
    <2> HIDE DEF o, c
    <2> QED BY <2>1, <2>2, <2>3
  <1> QED BY <1>1, InitiationList DEF Call

\* What the calls release at once when they fail: nothing, one or two of the texts.
LEMMA ReleasedAtOnce ==
  /\ <<>> \in Seq(Handle) /\ IsInjective(<<>>) /\ Range(<<>>) = {}
  /\ \A a \in Handle : <<a>> \in Seq(Handle) /\ IsInjective(<<a>>) /\ Range(<<a>>) = {a}
  /\ \A a, b \in Handle : a # b =>
        <<a, b>> \in Seq(Handle) /\ IsInjective(<<a, b>>) /\ Range(<<a, b>>) = {a, b}
  <1>1. <<>> \in Seq(Handle) /\ IsInjective(<<>>) /\ Range(<<>>) = {}
    BY DEF IsInjective, Range
  <1>2. ASSUME NEW a \in Handle
        PROVE  <<a>> \in Seq(Handle) /\ IsInjective(<<a>>) /\ Range(<<a>>) = {a}
    BY DEF IsInjective, Range
  <1>3. ASSUME NEW a \in Handle, NEW b \in Handle, a # b
        PROVE  <<a, b>> \in Seq(Handle) /\ IsInjective(<<a, b>>) /\ Range(<<a, b>>) = {a, b}
    <2>1. DOMAIN <<a, b>> = {1, 2} /\ <<a, b>>[1] = a /\ <<a, b>>[2] = b /\ <<a, b>> \in Seq(Handle)
      OBVIOUS
    <2> QED BY <2>1, <1>3 DEF IsInjective, Range
  <1> QED BY <1>1, <1>2, <1>3

Label == {cleanup_token, cleanup_op_metadata, cleanup_metadata, cleanup_chain, cleanup_resolver}

\* What a handler owns when a call fails.
OwnedAtFailure(calls, i) == OwnedAfter(calls, i - 1) \union calls[i].takes

\* A call that fails: what it releases, each once.
LEMMA FailingReleases ==
  ASSUME NEW c, c.also \in Seq(Handle), IsInjective(c.also), c.label \in Label,
         NEW before, Range(c.also) = before,
         NEW after, Range(ReleasedFrom(c.label)) = after,
         before \cap after = {},
         NEW owned, before \union after \subseteq owned
  PROVE  /\ Proper(owned, ReleasedWhenFailing(c))
         /\ Range(ReleasedWhenFailing(c)) = before \union after
  <1>1. c.label \in 1 .. 7
    BY DEF Label, cleanup_token, cleanup_op_metadata, cleanup_metadata, cleanup_chain, cleanup_resolver
  <1>2. /\ IsInjective(c.also \o ReleasedFrom(c.label))
        /\ Range(c.also \o ReleasedFrom(c.label)) = before \union after
    BY <1>1, ReleasedBefore
  <1> QED BY <1>2 DEF Proper, ReleasedWhenFailing

\* What the callback owns when a call fails, and what the label releases.
LEMMA CallbackTable ==
  LET c == CallbackCalls
  IN  /\ \A i \in 1 .. 5 : c[i].also = <<>> /\ c[i].label \in Label
      /\ OwnedAtFailure(c, 1) = {"chains", "resolver"}
      /\ OwnedAtFailure(c, 2) = {"chain", "chains", "resolver"}
      /\ OwnedAtFailure(c, 3) = {"metadata", "chain", "chains", "resolver"}
      /\ OwnedAtFailure(c, 4) = {"opMetadata", "metadata", "chain", "chains", "resolver"}
      /\ OwnedAtFailure(c, 5) =
            {"producer", "tokenResponse", "tokenEndpoint", "opMetadata", "metadata", "chain",
             "chains", "resolver"}
      /\ c[1].label = cleanup_resolver /\ c[2].label = cleanup_chain /\ c[3].label = cleanup_metadata
      /\ c[4].label = cleanup_op_metadata /\ c[5].label = cleanup_token
  <1> DEFINE c == CallbackCalls
  <1>1. /\ c[1].also = <<>> /\ c[1].label = cleanup_resolver /\ c[1].takes = {"resolver", "chains"}
        /\ c[2].also = <<>> /\ c[2].label = cleanup_chain /\ c[2].takes = {"chain"}
        /\ c[3].also = <<>> /\ c[3].label = cleanup_metadata /\ c[3].takes = {}
        /\ c[4].also = <<>> /\ c[4].label = cleanup_op_metadata /\ c[4].takes = {}
        /\ c[5].also = <<>> /\ c[5].label = cleanup_token /\ c[5].takes = {"producer", "tokenResponse"}
    BY CallbackList DEF Call
  <1>2. 1 - 1 = 0 /\ 2 - 1 = 1 /\ 3 - 1 = 2 /\ 4 - 1 = 3 /\ 5 - 1 = 4 /\ 1 .. 5 = {1, 2, 3, 4, 5}
    OBVIOUS
  <1> HIDE DEF c
  <1>3. \A i \in 1 .. 5 : c[i].also = <<>> /\ c[i].label \in Label
    BY <1>1, <1>2 DEF Label
  <1>4. /\ OwnedAfter(c, 0) = {}
        /\ OwnedAfter(c, 1) = {"chains", "resolver"}
        /\ OwnedAfter(c, 2) = {"metadata", "chain", "chains", "resolver"}
        /\ OwnedAfter(c, 3) = {"opMetadata", "metadata", "chain", "chains", "resolver"}
        /\ OwnedAfter(c, 4) =
              {"tokenEndpoint", "opMetadata", "metadata", "chain", "chains", "resolver"}
    BY CallbackOwned DEF c
  <1>5. \A i \in 1 .. 5 : OwnedAtFailure(c, i) = OwnedAfter(c, i - 1) \union c[i].takes
    BY DEF OwnedAtFailure
  <1> QED BY <1>1, <1>2, <1>3, <1>4, <1>5 DEF c

\* A call of the callback that fails: what is released then is owned, and at most
\* the request producer stays behind.
LEMMA CallbackFails ==
  ASSUME NEW i \in 1 .. 5
  PROVE  LET owned == OwnedAfter(CallbackCalls, i - 1) \union CallbackCalls[i].takes
             released == ReleasedWhenFailing(CallbackCalls[i])
         IN  Proper(owned, released) /\ owned \ Range(released) \subseteq {"producer"}
  <1> DEFINE c == CallbackCalls
             after == Range(ReleasedFrom(c[i].label))
             owned == OwnedAtFailure(c, i)
  <1>1. after \subseteq owned /\ owned \ after \subseteq {"producer"}
    <2>1. CASE i = 1
      BY <2>1, CallbackTable, LabelReleases
    <2>2. CASE i = 2
      BY <2>2, CallbackTable, LabelReleases
    <2>3. CASE i = 3
      BY <2>3, CallbackTable, LabelReleases
    <2>4. CASE i = 4
      BY <2>4, CallbackTable, LabelReleases
    <2>5. CASE i = 5
      BY <2>5, CallbackTable, LabelReleases
    <2> QED BY <2>1, <2>2, <2>3, <2>4, <2>5
  <1>2. c[i].also = <<>> /\ c[i].label \in Label
    BY CallbackTable
  <1>3. owned = OwnedAfter(c, i - 1) \union c[i].takes
    BY DEF OwnedAtFailure
  <1> HIDE DEF c, owned, after
  <1>4. /\ c[i].also \in Seq(Handle) /\ IsInjective(c[i].also) /\ Range(c[i].also) = {}
        /\ {} \cap after = {} /\ {} \union after = after
    BY <1>2, ReleasedAtOnce
  <1>5. Proper(owned, ReleasedWhenFailing(c[i])) /\ Range(ReleasedWhenFailing(c[i])) = after
    <2>1. /\ Proper(owned, ReleasedWhenFailing(c[i]))
          /\ Range(ReleasedWhenFailing(c[i])) = {} \union after
      BY <1>1, <1>2, <1>4, FailingReleases DEF after
    <2> QED BY <2>1, <1>4
  <1> QED BY <1>1, <1>3, <1>5 DEF c

\* What the start of a login owns when a call fails, what it releases at once, and
\* the label it jumps to.
LEMMA InitiationTable ==
  LET c == InitiationCalls
  IN  /\ c[1].also = <<>> /\ c[1].label = cleanup_resolver
      /\ c[2].also = <<>> /\ c[2].label = cleanup_chain
      /\ c[3].also = <<>> /\ c[3].label = cleanup_metadata
      /\ c[4].also = <<>> /\ c[4].label = cleanup_op_metadata
      /\ c[5].also = <<"authEndpoint">> /\ c[5].label = cleanup_op_metadata
      /\ c[6].also = <<"issuer", "authEndpoint">> /\ c[6].label = cleanup_op_metadata
      /\ c[7].also = <<"issuer", "authEndpoint">> /\ c[7].label = cleanup_op_metadata
      /\ c[8].also = <<"requestValues", "authEndpoint">> /\ c[8].label = cleanup_op_metadata
      /\ OwnedAtFailure(c, 1) = {"chains", "resolver"}
      /\ OwnedAtFailure(c, 2) = {"chain", "chains", "resolver"}
      /\ OwnedAtFailure(c, 3) = {"metadata", "chain", "chains", "resolver"}
      /\ OwnedAtFailure(c, 4) = {"opMetadata", "metadata", "chain", "chains", "resolver"}
      /\ OwnedAtFailure(c, 5) =
            {"authEndpoint", "opMetadata", "metadata", "chain", "chains", "resolver"}
      /\ OwnedAtFailure(c, 6) =
            {"issuer", "authEndpoint", "opMetadata", "metadata", "chain", "chains", "resolver"}
      /\ OwnedAtFailure(c, 7) =
            {"producer", "issuer", "authEndpoint", "opMetadata", "metadata", "chain", "chains",
             "resolver"}
      /\ OwnedAtFailure(c, 8) =
            {"requestValues", "producer", "issuer", "authEndpoint", "opMetadata", "metadata",
             "chain", "chains", "resolver"}
  <1> DEFINE c == InitiationCalls
             t(i) == c[i].takes
  <1>1. /\ c[1].also = <<>> /\ c[1].label = cleanup_resolver /\ t(1) = {"resolver", "chains"}
        /\ c[2].also = <<>> /\ c[2].label = cleanup_chain /\ t(2) = {"chain"}
        /\ c[3].also = <<>> /\ c[3].label = cleanup_metadata /\ t(3) = {}
        /\ c[4].also = <<>> /\ c[4].label = cleanup_op_metadata /\ t(4) = {}
        /\ c[5].also = <<"authEndpoint">> /\ c[5].label = cleanup_op_metadata /\ t(5) = {}
        /\ c[6].also = <<"issuer", "authEndpoint">> /\ c[6].label = cleanup_op_metadata /\ t(6) = {}
        /\ c[7].also = <<"issuer", "authEndpoint">> /\ c[7].label = cleanup_op_metadata /\ t(7) = {}
        /\ c[8].also = <<"requestValues", "authEndpoint">> /\ c[8].label = cleanup_op_metadata
        /\ t(8) = {"requestValues"}
    BY InitiationList DEF Call
  <1>2. /\ 1 - 1 = 0 /\ 2 - 1 = 1 /\ 3 - 1 = 2 /\ 4 - 1 = 3
        /\ 5 - 1 = 4 /\ 6 - 1 = 5 /\ 7 - 1 = 6 /\ 8 - 1 = 7
    OBVIOUS
  <1>3. \A i \in {1, 2, 3, 4, 5, 6, 7, 8} : OwnedAtFailure(c, i) = OwnedAfter(c, i - 1) \union t(i)
    BY DEF OwnedAtFailure
  <1>4. /\ OwnedAtFailure(c, 1) = OwnedAfter(c, 0) \union {"resolver", "chains"}
        /\ OwnedAtFailure(c, 2) = OwnedAfter(c, 1) \union {"chain"}
        /\ OwnedAtFailure(c, 3) = OwnedAfter(c, 2) \union {}
        /\ OwnedAtFailure(c, 4) = OwnedAfter(c, 3) \union {}
        /\ OwnedAtFailure(c, 5) = OwnedAfter(c, 4) \union {}
        /\ OwnedAtFailure(c, 6) = OwnedAfter(c, 5) \union {}
        /\ OwnedAtFailure(c, 7) = OwnedAfter(c, 6) \union {}
        /\ OwnedAtFailure(c, 8) = OwnedAfter(c, 7) \union {"requestValues"}
    <2> HIDE DEF c, t
    <2> QED BY <1>1, <1>2, <1>3
  <1>5. /\ OwnedAtFailure(c, 1) = {"chains", "resolver"}
        /\ OwnedAtFailure(c, 2) = {"chain", "chains", "resolver"}
        /\ OwnedAtFailure(c, 3) = {"metadata", "chain", "chains", "resolver"}
        /\ OwnedAtFailure(c, 4) = {"opMetadata", "metadata", "chain", "chains", "resolver"}
    BY <1>4, InitiationOwned
  <1>6. /\ OwnedAtFailure(c, 5) =
              {"authEndpoint", "opMetadata", "metadata", "chain", "chains", "resolver"}
        /\ OwnedAtFailure(c, 6) =
              {"issuer", "authEndpoint", "opMetadata", "metadata", "chain", "chains", "resolver"}
    BY <1>4, InitiationOwned
  <1>7. OwnedAtFailure(c, 7) =
              {"producer", "issuer", "authEndpoint", "opMetadata", "metadata", "chain", "chains",
               "resolver"}
    BY <1>4, InitiationOwned
  <1>8. OwnedAtFailure(c, 8) =
              {"requestValues", "producer", "issuer", "authEndpoint", "opMetadata", "metadata",
               "chain", "chains", "resolver"}
    BY <1>4, InitiationOwned
  <1> QED BY <1>1, <1>5, <1>6, <1>7, <1>8

\* A call at the start of a login that fails: the issuer stays behind as well when
\* it is the last.
LEMMA InitiationFails ==
  ASSUME NEW i \in 1 .. 8
  PROVE  LET owned == OwnedAfter(InitiationCalls, i - 1) \union InitiationCalls[i].takes
             released == ReleasedWhenFailing(InitiationCalls[i])
         IN  /\ Proper(owned, released)
             /\ \/ owned \ Range(released) \subseteq {"producer"}
                \/ owned \ Range(released) = {"producer", "issuer"}
  <1> DEFINE c == InitiationCalls
             before == Range(c[i].also)
             after == Range(ReleasedFrom(c[i].label))
             owned == OwnedAtFailure(c, i)
             Left == \/ owned \ (before \union after) \subseteq {"producer"}
                     \/ owned \ (before \union after) = {"producer", "issuer"}
             Fine == /\ c[i].also \in Seq(Handle) /\ IsInjective(c[i].also) /\ c[i].label \in Label
                     /\ before \cap after = {} /\ before \union after \subseteq owned
                     /\ Left
  <1>0. "authEndpoint" \in Handle /\ "issuer" \in Handle /\ "requestValues" \in Handle
    BY HandleNames
  <1>1. Fine
    <2>1. /\ <<>> \in Seq(Handle) /\ IsInjective(<<>>) /\ Range(<<>>) = {}
      BY ReleasedAtOnce
    <2>2. LET a == <<"authEndpoint">>
          IN  a \in Seq(Handle) /\ IsInjective(a) /\ Range(a) = {"authEndpoint"}
      BY <1>0, ReleasedAtOnce
    <2>3. LET a == <<"issuer", "authEndpoint">>
          IN  a \in Seq(Handle) /\ IsInjective(a) /\ Range(a) = {"issuer", "authEndpoint"}
      BY <1>0, ReleasedAtOnce
    <2>4. LET a == <<"requestValues", "authEndpoint">>
          IN  a \in Seq(Handle) /\ IsInjective(a) /\ Range(a) = {"requestValues", "authEndpoint"}
      BY <1>0, ReleasedAtOnce
    <2>5. CASE i \in 1 .. 4
      <3>1. c[i].also = <<>> /\ before = {} /\ c[i].label \in Label
        BY <2>1, <2>5, InitiationTable DEF Label
      <3>2. after \subseteq owned /\ owned \ after \subseteq {"producer"}
        <4>1. CASE i = 1
          BY <4>1, InitiationTable, LabelReleases
        <4>2. CASE i = 2
          BY <4>2, InitiationTable, LabelReleases
        <4>3. CASE i = 3
          BY <4>3, InitiationTable, LabelReleases
        <4>4. CASE i = 4
          BY <4>4, InitiationTable, LabelReleases
        <4> QED BY <2>5, <4>1, <4>2, <4>3, <4>4
      <3> HIDE DEF c, before, after, owned
      <3> QED BY <2>1, <3>1, <3>2
    <2>6. CASE i \in 5 .. 8
      <3>1. c[i].label = cleanup_op_metadata
        BY <2>6, InitiationTable
      <3>2. after = {"opMetadata", "metadata", "chain", "chains", "resolver"} /\ c[i].label \in Label
        BY <3>1, LabelReleases DEF Label
      <3> HIDE DEF after
      <3>3. CASE i = 5
        <4>1. before = {"authEndpoint"} /\ c[i].also \in Seq(Handle) /\ IsInjective(c[i].also)
          BY <3>3, <2>2, InitiationTable
        <4>2. owned = {"authEndpoint", "opMetadata", "metadata", "chain", "chains", "resolver"}
          BY <3>3, InitiationTable
        <4> HIDE DEF c, before, owned
        <4> QED BY <3>2, <4>1, <4>2
      <3>4. CASE i = 6
        <4>1. /\ before = {"issuer", "authEndpoint"}
              /\ c[i].also \in Seq(Handle) /\ IsInjective(c[i].also)
          BY <3>4, <2>3, InitiationTable
        <4>2. owned = {"issuer", "authEndpoint", "opMetadata", "metadata", "chain", "chains",
                       "resolver"}
          BY <3>4, InitiationTable
        <4> HIDE DEF c, before, owned
        <4> QED BY <3>2, <4>1, <4>2
      <3>5. CASE i = 7
        <4>1. /\ before = {"issuer", "authEndpoint"}
              /\ c[i].also \in Seq(Handle) /\ IsInjective(c[i].also)
          BY <3>5, <2>3, InitiationTable
        <4>2. owned = {"producer", "issuer", "authEndpoint", "opMetadata", "metadata", "chain",
                       "chains", "resolver"}
          BY <3>5, InitiationTable
        <4> HIDE DEF c, before, owned
        <4> QED BY <3>2, <4>1, <4>2
      <3>6. CASE i = 8
        <4>1. /\ before = {"requestValues", "authEndpoint"}
              /\ c[i].also \in Seq(Handle) /\ IsInjective(c[i].also)
          BY <3>6, <2>4, InitiationTable
        <4>2. owned = {"requestValues", "producer", "issuer", "authEndpoint", "opMetadata",
                       "metadata", "chain", "chains", "resolver"}
          BY <3>6, InitiationTable
        <4>3. Left
          <5> HIDE DEF c, before, owned
          <5> QED BY <3>2, <4>1, <4>2
        <4>4. before \cap after = {} /\ before \union after \subseteq owned
          <5> HIDE DEF c, before, owned
          <5> QED BY <3>2, <4>1, <4>2
        <4> HIDE DEF c, before, owned, Left
        <4> QED BY <3>2, <4>1, <4>3, <4>4
      <3> HIDE DEF Fine
      <3> QED BY <2>6, <3>3, <3>4, <3>5, <3>6
    <2> HIDE DEF Fine
    <2> QED BY <2>5, <2>6
  <1>2. owned = OwnedAfter(c, i - 1) \union c[i].takes
    BY DEF OwnedAtFailure
  <1> HIDE DEF c, owned
  <1>3. /\ Proper(owned, ReleasedWhenFailing(c[i]))
        /\ Range(ReleasedWhenFailing(c[i])) = before \union after
    BY <1>1, FailingReleases
  <1> QED BY <1>1, <1>2, <1>3 DEF c

\* The ends of the two handlers when everything succeeds.
LEMMA SuccessReleases ==
  /\ LET owned == OwnedAfter(CallbackCalls, 5)
     IN  /\ Proper(owned, ReleasedByCallback)
         /\ owned \ Range(ReleasedByCallback) \subseteq {"producer"}
  /\ LET owned == OwnedAfter(InitiationCalls, 8)
     IN  /\ Proper(owned, ReleasedByInitiation)
         /\ owned \ Range(ReleasedByInitiation) \subseteq {"producer"}
  <1>1. /\ Proper(OwnedAfter(CallbackCalls, 5), ReleasedByCallback)
        /\ OwnedAfter(CallbackCalls, 5) \ Range(ReleasedByCallback) \subseteq {"producer"}
    <2>1. IsInjective(ReleasedFrom(cleanup_token))
      BY LadderReleases DEF cleanup_token
    <2> QED BY <2>1, CallbackOwned, LabelReleases DEF ReleasedByCallback, Proper
  <1>2. /\ Proper(OwnedAfter(InitiationCalls, 8), ReleasedByInitiation)
        /\ OwnedAfter(InitiationCalls, 8) \ Range(ReleasedByInitiation) \subseteq {"producer"}
    <2> DEFINE texts == <<"jwt", "issuer", "authEndpoint", "signedRequest", "requestValues">>
    <2>1. /\ DOMAIN texts = {1, 2, 3, 4, 5} /\ texts \in Seq(Handle)
          /\ texts[1] = "jwt" /\ texts[2] = "issuer" /\ texts[3] = "authEndpoint"
          /\ texts[4] = "signedRequest" /\ texts[5] = "requestValues"
      BY HandleNames
    <2> HIDE DEF texts
    <2>2. /\ IsInjective(texts)
          /\ Range(texts) = {"jwt", "issuer", "authEndpoint", "signedRequest", "requestValues"}
      BY <2>1 DEF IsInjective, Range
    <2>3. cleanup_op_metadata \in 1 .. 7
      BY DEF cleanup_op_metadata
    <2>4. Range(texts) \cap Range(ReleasedFrom(cleanup_op_metadata)) = {}
      BY <2>2, LabelReleases
    <2>5. ReleasedByInitiation = texts \o ReleasedFrom(cleanup_op_metadata)
      BY DEF ReleasedByInitiation, texts
    <2>6. /\ IsInjective(ReleasedByInitiation)
          /\ Range(ReleasedByInitiation) =
                Range(texts) \union Range(ReleasedFrom(cleanup_op_metadata))
      BY <2>1, <2>2, <2>3, <2>4, <2>5, ReleasedBefore
    <2> QED BY <2>2, <2>6, InitiationOwned, LabelReleases DEF Proper
  <1> QED BY <1>1, <1>2

\* Everything that can be owned is a handle.
LEMMA OwnedHandles ==
  /\ \A n \in 0 .. 5 : OwnedAfter(CallbackCalls, n) \subseteq Handle
  /\ {"producer", "issuer"} \subseteq Handle
  <1>1. \A n \in 0 .. 5 : OwnedAfter(CallbackCalls, n) \subseteq OwnedAfter(CallbackCalls, 5)
    BY DEF OwnedAfter
  <1>2. OwnedAfter(CallbackCalls, 5) \subseteq Handle
    BY HandleNames, CallbackOwned
  <1> QED BY <1>1, <1>2, HandleNames
-----------------------------------------------------------------------------
(* What travels with a login.                                              *)

\* The page a tab's user gets to see in the end.
Wanted(t) == IF PageOf[t] # None THEN PageOf[t] ELSE Root

\* A URL that belongs to the login of a tab, by is who issued which code: what it
\* says of the page, of the provider and of the code is what the login is about.
OfLogin(t, url, by) ==
    /\ url \in Url
    /\ url.kind \in {"page", "shown", "listing"} => url.page = Wanted(t)
    /\ url.kind = "login" =>
          ReturnTo(url) = Wanted(t) /\ (url.op = None => url.page = Wanted(t))
    /\ url.kind = "provider" => url.state = StateFor[url.op][Wanted(t)]
    /\ url.kind = "callback" =>
          by[url.code] \in Provider /\ url.state = StateFor[by[url.code]][Wanted(t)]

\* What a tab holds: a URL of its login, and the wish its user started with.
TabFits(t, x, by) ==
    /\ OfLogin(t, x.at, by)
    /\ x.want \in Page \union {None}
    /\ x.at.kind # "blank" => x.want = Wanted(t)

\* What a handler owns at a step, and the URLs it is the handler of.
Held(pc, j) ==
    /\ pc \in {"lookup", "check", "drop", "granted", "anonymous", "login"} =>
          j.owns = {} /\ j.url.kind = "page"
    /\ pc \in {"forget", "resolve"} => j.owns = {} /\ j.url.kind = "callback"
    /\ pc = "exchange" =>
          j.owns = OwnedAfter(CallbackCalls, BeforeExchange) /\ j.url.kind = "callback"
    /\ pc \in {"create", "store"} =>
          j.owns = OwnedAfter(CallbackCalls, Len(CallbackCalls)) /\ j.url.kind = "callback"
    /\ pc \in Auth!Answers =>
          \/ j.owns \subseteq {"producer"}
          \/ j.url.kind = "login" /\ j.reply = Error /\ j.owns = {"producer", "issuer"}

\* A thread at the request r with the job j, for a tab that is at the URL at.
JobFits(r, j, at, by) ==
    /\ "pc" \in DOMAIN r /\ r.pc \in Auth!Running \union Auth!Answers
    /\ j \in Job /\ ~j.wild
    /\ j.url = at /\ at.kind \in {"page", "login", "callback", "refused"}
    /\ OfLogin(j.tab, j.reply, by)
    /\ Held(r.pc, j)

TabsFit == \A t \in Tab : TabFits(t, tab[t], issued)
JobsFit ==
    \A w \in Worker : job[w] # NoJob => JobFits(req[w], job[w], tab[job[w].tab].at, issued)
JobWhenServing == \A w \in Worker : Auth!Serving(w) => job[w] # NoJob
OneJobForATab ==
    \A v, w \in Worker : job[v] # NoJob /\ job[w] # NoJob /\ job[v].tab = job[w].tab => v = w

\* The inductive invariant: whatever a tab is at, asks for and is answered belongs
\* to its login; a handler at a step owns what it has acquired by then.
FInv == LInv /\ TypeOK /\ TabsFit /\ JobsFit /\ JobWhenServing /\ OneJobForATab

\* The page that is wanted is one of the pages.
LEMMA WantedIsPage == \A t \in Tab : Wanted(t) \in Page
  BY PageOfAssumption, RootAssumption DEF Wanted

\* The state parameters of the logins, and what the callback finds in them.
LEMMA StatesReceived ==
  ASSUME NEW op \in Provider, NEW page \in Page
  PROVE  /\ StateFor[op][page] \in State
         /\ Received[StateFor[op][page]] = [return_to |-> page, op |-> op]
  <1>1. StateFor[op][page] = generate_oidc_request_state(op, page)
    BY DEF StateFor
  <1>2. StateFor[op][page] \in State
    BY DEF State
  <1>3. Received[StateFor[op][page]] = Decoded(StateFor[op][page])
    BY <1>2 DEF Received
  <1>4. IsText(op) /\ IsText(page)
    BY TextAssumption
  <1> QED BY <1>1, <1>2, <1>3, <1>4, StateDecodes

\* The URLs of each kind.
LEMMA UrlKinds ==
  /\ \A page \in Page : PageUrl(page) \in Url /\ LoginUrl(page) \in Url
  /\ \A page \in Page : [kind |-> "shown", page |-> page] \in Url
  /\ \A page \in Page : [kind |-> "listing", page |-> page] \in Url
  /\ \A page \in Page \union {None}, op \in Provider \union {None} :
        [kind |-> "login", page |-> page, op |-> op] \in Url
  /\ \A op \in Provider, state \in State :
        [kind |-> "provider", op |-> op, state |-> state] \in Url
  /\ \A code \in Code, state \in State :
        [kind |-> "callback", code |-> code, state |-> state] \in Url
  /\ Error \in Url /\ [kind |-> "refused"] \in Url /\ [kind |-> "blank"] \in Url
  BY DEF Url, PageUrl, LoginUrl, Error

\* What a URL of each kind carries.
LEMMA UrlParts ==
  ASSUME NEW url \in Url
  PROVE  /\ url.kind \in {"page", "shown", "listing"} => url.page \in Page
         /\ url.kind = "login" => url.page \in Page \union {None} /\ url.op \in Provider \union {None}
         /\ url.kind = "provider" => url.op \in Provider /\ url.state \in State
         /\ url.kind = "callback" => url.code \in Code /\ url.state \in State
  BY DEF Url

\* A code that was issued stays so, so a URL that belongs to a login goes on
\* belonging to it.
LEMMA StillOfLogin ==
  ASSUME NEW by, NEW later, \A k \in Code : by[k] \in Provider => later[k] = by[k],
         NEW t, NEW url, OfLogin(t, url, by)
  PROVE  OfLogin(t, url, later)
  <1>1. url.kind = "callback" => url.code \in Code
    BY UrlParts DEF OfLogin
  <1> QED BY <1>1 DEF OfLogin

\* A job that is done as far as it goes.
LEMMA DoneJob ==
  ASSUME NEW j \in Job, NEW reply \in Url, NEW owned, NEW released,
         Proper(owned, released), owned \ Range(released) \subseteq Handle
  PROVE  /\ Done(j, reply, owned, released) =
               [tab |-> j.tab, url |-> j.url, reply |-> reply, owns |-> owned \ Range(released),
                wild |-> FALSE]
         /\ Done(j, reply, owned, released) \in Job
  <1>1. (~Proper(owned, released)) = FALSE
    BY Zenon
  <1>2. Done(j, reply, owned, released) =
          [tab |-> j.tab, url |-> j.url, reply |-> reply, owns |-> owned \ Range(released),
           wild |-> FALSE]
    BY <1>1, Zenon DEF Done
  <1>3. j.tab \in Tab /\ j.url \in Url
    BY DEF Job
  <1>4. [tab |-> j.tab, url |-> j.url, reply |-> reply, owns |-> owned \ Range(released),
         wild |-> FALSE] \in Job
    BY <1>3 DEF Job
  <1> QED BY <1>2, <1>4

\* A call of the callback that fails leaves a job that is answered with an error
\* and keeps at most the request producer.
LEMMA FailedCallback ==
  ASSUME NEW j \in Job, NEW i \in 1 .. 5
  PROVE  \E owns \in SUBSET {"producer"} :
            /\ Failed(j, CallbackCalls, i) =
                  [tab |-> j.tab, url |-> j.url, reply |-> Error, owns |-> owns, wild |-> FALSE]
            /\ Failed(j, CallbackCalls, i) \in Job
  <1> DEFINE owned == OwnedAfter(CallbackCalls, i - 1) \union CallbackCalls[i].takes
             released == ReleasedWhenFailing(CallbackCalls[i])
  <1>1. Proper(owned, released) /\ owned \ Range(released) \subseteq {"producer"}
    BY CallbackFails
  <1>2. "producer" \in Handle /\ Error \in Url
    BY OwnedHandles, UrlKinds
  <1>3. Failed(j, CallbackCalls, i) = Done(j, Error, owned, released)
    BY DEF Failed
  <1> HIDE DEF owned, released
  <1> QED BY <1>1, <1>2, <1>3, DoneJob

\* The same at the start of a login, where the issuer may stay behind as well.
LEMMA FailedInitiation ==
  ASSUME NEW j \in Job, NEW i \in 1 .. 8
  PROVE  \E owns :
            /\ owns \subseteq {"producer"} \/ owns = {"producer", "issuer"}
            /\ Failed(j, InitiationCalls, i) =
                  [tab |-> j.tab, url |-> j.url, reply |-> Error, owns |-> owns, wild |-> FALSE]
            /\ Failed(j, InitiationCalls, i) \in Job
  <1> DEFINE owned == OwnedAfter(InitiationCalls, i - 1) \union InitiationCalls[i].takes
             released == ReleasedWhenFailing(InitiationCalls[i])
  <1>1. /\ Proper(owned, released)
        /\ \/ owned \ Range(released) \subseteq {"producer"}
           \/ owned \ Range(released) = {"producer", "issuer"}
    BY InitiationFails
  <1>2. "producer" \in Handle /\ "issuer" \in Handle /\ Error \in Url
    BY OwnedHandles, UrlKinds
  <1>3. Failed(j, InitiationCalls, i) = Done(j, Error, owned, released)
    BY DEF Failed
  <1> HIDE DEF owned, released
  <1> QED BY <1>1, <1>2, <1>3, DoneJob
-----------------------------------------------------------------------------
(* The steps keep it.                                                      *)

\* No request is under way, no tab has gone anywhere.
LEMMA InitFInv == Init => FInv
  <1> SUFFICES ASSUME Init PROVE FInv
    OBVIOUS
  <1>1. LInv
    BY InitLInv
  <1>2. TypeOK
    BY UrlKinds, MaxFaultsAssumption DEF Init, TypeOK
  <1>3. TabsFit
    BY UrlKinds DEF Init, TabsFit, TabFits, OfLogin
  <1>4. JobsFit /\ JobWhenServing /\ OneJobForATab
    BY DEF Init, JobsFit, JobWhenServing, OneJobForATab, Auth!Init, Auth!Serving, Auth!NoRequest
  <1> QED BY <1>1, <1>2, <1>3, <1>4 DEF FInv

\* A tab for which no request is under way goes elsewhere in its login.
LEMMA TabMoves ==
  ASSUME FInv, LInv', NEW t \in Tab, ~Sent(t), NEW x,
         tab' = [tab EXCEPT ![t] = x], UNCHANGED <<req, job, site>>,
         faults' \in 0 .. MaxFaults,
         issued' \in [Code -> Provider \union {None}],
         \A k \in Code : issued[k] \in Provider => issued'[k] = issued[k],
         DOMAIN x = {"want", "at"}, x = [want |-> x.want, at |-> x.at],
         TabFits(t, x, issued')
  PROVE  FInv'
  <1>1. TypeOK'
    <2>1. x \in [want : Page \union {None}, at : Url]
      BY DEF TabFits, OfLogin
    <2> QED BY <2>1 DEF FInv, TypeOK
  <1>2. \A u \in Tab \ {t} : tab'[u] = tab[u]
    BY DEF FInv, TypeOK
  <1>3. tab'[t] = x
    BY DEF FInv, TypeOK
  <1>4. TabsFit'
    <2> SUFFICES ASSUME NEW u \in Tab PROVE TabFits(u, tab'[u], issued')
      BY DEF TabsFit
    <2>1. CASE u = t
      BY <2>1, <1>3
    <2>2. CASE u # t
      <3>1. TabFits(u, tab[u], issued)
        BY DEF FInv, TabsFit
      <3>2. TabFits(u, tab[u], issued')
        BY <3>1, StillOfLogin DEF TabFits
      <3> QED BY <3>2, <2>2, <1>2
    <2> QED BY <2>1, <2>2
  <1>5. JobsFit'
    <2> SUFFICES ASSUME NEW w \in Worker, job[w] # NoJob
                 PROVE  JobFits(req[w], job[w], tab'[job[w].tab].at, issued')
      BY DEF JobsFit
    <2>1. JobFits(req[w], job[w], tab[job[w].tab].at, issued)
      BY DEF FInv, JobsFit
    <2>2. job[w].tab \in Tab /\ job[w].tab # t
      BY <2>1 DEF Sent, JobFits, Job
    <2>3. OfLogin(job[w].tab, job[w].reply, issued')
      BY <2>1, StillOfLogin DEF JobFits
    <2> QED BY <2>1, <2>2, <2>3, <1>2 DEF JobFits
  <1>6. JobWhenServing' /\ OneJobForATab'
    BY DEF FInv, JobWhenServing, OneJobForATab, Auth!Serving
  <1> QED BY <1>1, <1>4, <1>5, <1>6 DEF FInv

\* A thread starts, goes on with, or ends what it does for a tab.
LEMMA JobMoves ==
  ASSUME FInv, LInv', NEW w \in Worker, NEW j,
         job' = [job EXCEPT ![w] = j], UNCHANGED <<tab, issued, site>>,
         faults' \in 0 .. MaxFaults,
         \A v \in Worker \ {w} : req'[v] = req[v],
         Auth!Serving(w)' => j # NoJob,
         j # NoJob => /\ JobFits(req'[w], j, tab[j.tab].at, issued)
                      /\ \A v \in Worker \ {w} : job[v] # NoJob => job[v].tab # j.tab
  PROVE  FInv'
  <1>1. j \in Job \union {NoJob}
    BY DEF JobFits
  <1>2. TypeOK'
    BY <1>1 DEF FInv, TypeOK
  <1>3. job'[w] = j /\ \A v \in Worker \ {w} : job'[v] = job[v]
    BY DEF FInv, TypeOK
  <1>4. TabsFit'
    BY DEF FInv, TabsFit
  <1>5. JobsFit'
    <2> SUFFICES ASSUME NEW v \in Worker, job'[v] # NoJob
                 PROVE  JobFits(req'[v], job'[v], tab[job'[v].tab].at, issued)
      BY DEF JobsFit
    <2>1. CASE v = w
      BY <2>1, <1>3
    <2>2. CASE v # w
      <3>1. JobFits(req[v], job[v], tab[job[v].tab].at, issued)
        BY <2>2, <1>3 DEF FInv, JobsFit
      <3> QED BY <3>1, <2>2, <1>3
    <2> QED BY <2>1, <2>2
  <1>6. JobWhenServing' /\ OneJobForATab'
    BY <1>3 DEF FInv, JobWhenServing, OneJobForATab, Auth!Serving
  <1> QED BY <1>2, <1>4, <1>5, <1>6 DEF FInv

\* What is known of a thread that answers a request.
LEMMA JobFacts ==
  ASSUME FInv, NEW w \in Worker, job[w] # NoJob
  PROVE  /\ JobFits(req[w], job[w], job[w].url, issued)
         /\ job[w].tab \in Tab /\ job[w].url = tab[job[w].tab].at
         /\ TabFits(job[w].tab, tab[job[w].tab], issued)
         /\ OfLogin(job[w].tab, job[w].url, issued)
         /\ \A v \in Worker \ {w} : job[v] # NoJob => job[v].tab # job[w].tab
  <1>1. JobFits(req[w], job[w], tab[job[w].tab].at, issued)
    BY DEF FInv, JobsFit
  <1>2. job[w].tab \in Tab /\ job[w].url = tab[job[w].tab].at
    BY <1>1 DEF JobFits, Job
  <1>3. TabFits(job[w].tab, tab[job[w].tab], issued)
    BY <1>2 DEF FInv, TabsFit
  <1>4. OfLogin(job[w].tab, job[w].url, issued)
    BY <1>2, <1>3 DEF TabFits
  <1>5. \A v \in Worker \ {w} : job[v] # NoJob => job[v].tab # job[w].tab
    BY DEF FInv, OneJobForATab
  <1> QED BY <1>1, <1>2, <1>3, <1>4, <1>5

\* A handler goes on with its request.
LEMMA StepMoves ==
  ASSUME FInv, LInv', NEW w \in Worker, job[w] # NoJob, NEW j,
         job' = [job EXCEPT ![w] = j], UNCHANGED <<tab, issued, site>>,
         faults' \in 0 .. MaxFaults,
         \A v \in Worker \ {w} : req'[v] = req[v],
         j.tab = job[w].tab, JobFits(req'[w], j, job[w].url, issued)
  PROVE  FInv'
  <1>1. j # NoJob
    BY NoJobAssumption DEF JobFits
  <1>2. job[w].url = tab[j.tab].at
    BY JobFacts
  <1>3. \A v \in Worker \ {w} : job[v] # NoJob => job[v].tab # j.tab
    BY JobFacts
  <1>4. JobFits(req'[w], j, tab[j.tab].at, issued)
    BY <1>2
  <1> QED BY <1>1, <1>3, <1>4, JobMoves

\* A thread's request is over.
LEMMA JobEnds ==
  ASSUME FInv, LInv', NEW w \in Worker, job' = [job EXCEPT ![w] = NoJob],
         UNCHANGED <<tab, issued, site>>, faults' \in 0 .. MaxFaults,
         req' = [req EXCEPT ![w] = Auth!NoRequest]
  PROVE  FInv'
  <1>1. ~Auth!Serving(w)'
    BY DEF Auth!Serving, Auth!NoRequest, FInv, LInv
  <1>2. \A v \in Worker \ {w} : req'[v] = req[v]
    BY DEF FInv, LInv
  <1> QED BY <1>1, <1>2, JobMoves

\* The users and the providers.
LEMMA TabStepFInv ==
  ASSUME FInv, LInv', NEW t \in Tab,
         Open(t) \/ Reload(t) \/ Retry(t) \/ Choose(t) \/ Authorize(t) \/ Refuse(t)
  PROVE  FInv'
  <1> DEFINE at == tab[t].at
  <1>1. /\ TabFits(t, tab[t], issued) /\ OfLogin(t, at, issued)
        /\ at.kind # "blank" => tab[t].want = Wanted(t)
        /\ Wanted(t) \in Page /\ tab[t].want \in Page \union {None}
    BY WantedIsPage DEF FInv, TabsFit, TabFits
  <1>2. /\ faults \in 0 .. MaxFaults /\ issued \in [Code -> Provider \union {None}]
        /\ Fault => faults' \in 0 .. MaxFaults
    BY MaxFaultsAssumption DEF FInv, TypeOK, Fault
  <1>3. Sent(t) => at.kind \in {"page", "login", "callback", "refused"}
    BY DEF Sent, FInv, JobsFit, JobFits
  <1>4. ASSUME NEW url, OfLogin(t, url, issued'), at.kind # "blank", ~Sent(t),
               tab' = At(t, url), UNCHANGED <<req, job, site>>,
               faults' \in 0 .. MaxFaults,
               issued' \in [Code -> Provider \union {None}],
               \A k \in Code : issued[k] \in Provider => issued'[k] = issued[k]
        PROVE  FInv'
    <2> DEFINE x == [want |-> tab[t].want, at |-> url]
    <2>1. tab' = [tab EXCEPT ![t] = x]
      BY <1>4 DEF At
    <2>2. TabFits(t, x, issued')
      BY <1>1, <1>4 DEF TabFits
    <2>3. DOMAIN x = {"want", "at"} /\ x = [want |-> x.want, at |-> x.at]
      OBVIOUS
    <2> HIDE DEF x
    <2> QED BY <1>4, <2>1, <2>2, <2>3, TabMoves
  <1>5. CASE Open(t)
    <2> PICK x : /\ tab' = [tab EXCEPT ![t] = x]
                 /\ x = IF PageOf[t] # None
                        THEN [want |-> PageOf[t], at |-> PageUrl(PageOf[t])]
                        ELSE [want |-> Root,
                              at |-> [kind |-> "login", page |-> None, op |-> ProviderOf[t]]]
      BY <1>5 DEF Open
    <2>1. at.kind = "blank" /\ UNCHANGED <<req, job, issued, site, faults>>
      BY <1>5 DEF Open, authVars
    <2>2. DOMAIN x = {"want", "at"} /\ x = [want |-> x.want, at |-> x.at]
      OBVIOUS
    <2>3. TabFits(t, x, issued')
      <3>1. CASE PageOf[t] # None
        <4>1. PageOf[t] \in Page /\ Wanted(t) = PageOf[t]
          BY <3>1, PageOfAssumption DEF Wanted
        <4>2. x = [want |-> PageOf[t], at |-> PageUrl(PageOf[t])]
          BY <3>1
        <4> QED BY <4>1, <4>2, UrlKinds DEF TabFits, OfLogin, PageUrl
      <3>2. CASE PageOf[t] = None
        <4>1. Wanted(t) = Root /\ Root \in Page
          BY <3>2, RootAssumption DEF Wanted
        <4>2. ProviderOf[t] \in Provider /\ ProviderOf[t] # None
          BY ProviderOfAssumption, TextAssumption
        <4>3. x = [want |-> Root, at |-> [kind |-> "login", page |-> None, op |-> ProviderOf[t]]]
          BY <3>2
        <4> QED BY <4>1, <4>2, <4>3, UrlKinds DEF TabFits, OfLogin, ReturnTo
      <3> QED BY <3>1, <3>2
    <2> QED BY <1>2, <1>3, <2>1, <2>2, <2>3, TabMoves
  <1>6. CASE Reload(t) \/ Retry(t)
    <2>1. /\ at.kind \in {"shown", "error"} /\ PageOf[t] # None /\ tab' = At(t, PageUrl(PageOf[t]))
          /\ UNCHANGED <<req, job, issued, site, faults>>
      BY <1>6 DEF Reload, Retry, AskAgain, Go, authVars
    <2>2. Wanted(t) = PageOf[t] /\ PageOf[t] \in Page
      BY <2>1, PageOfAssumption DEF Wanted
    <2>3. OfLogin(t, PageUrl(PageOf[t]), issued')
      BY <2>2, UrlKinds DEF OfLogin, PageUrl
    <2> QED BY <1>2, <1>3, <1>4, <2>1, <2>3
  <1>7. CASE Choose(t)
    <2>1. /\ at.kind = "listing" /\ UNCHANGED <<req, job, issued, site, faults>>
          /\ tab' = At(t, [kind |-> "login", page |-> at.page, op |-> ProviderOf[t]])
      BY <1>7 DEF Choose, Go, authVars
    <2>2. at.page = Wanted(t) /\ at.page # None
      BY <1>1, <2>1, TextAssumption DEF OfLogin
    <2>3. ProviderOf[t] \in Provider /\ ProviderOf[t] # None
      BY ProviderOfAssumption, TextAssumption
    <2>4. OfLogin(t, [kind |-> "login", page |-> at.page, op |-> ProviderOf[t]], issued')
      BY <1>1, <2>2, <2>3, UrlKinds DEF OfLogin, ReturnTo
    <2> QED BY <1>2, <1>3, <1>4, <2>1, <2>4
  <1>8. CASE Authorize(t)
    <2>1. /\ at.kind = "provider" /\ UNCHANGED <<req, job, site, faults>>
      BY <1>8 DEF Authorize, authVars
    <2>2. PICK k \in Code : /\ k \in CodesLeft(t)
                            /\ issued' = [issued EXCEPT ![k] = at.op]
                            /\ tab' = At(t, [kind |-> "callback", code |-> k, state |-> at.state])
      <3>1. \E k \in Code : k \in CodesLeft(t)
        BY <1>8, CodesOfAssumption DEF Authorize, CodesLeft
      <3> QED BY <1>8, <3>1 DEF Authorize
    <2>3. at.op \in Provider /\ at.state \in State /\ at.state = StateFor[at.op][Wanted(t)]
      BY <1>1, <2>1, UrlParts DEF OfLogin
    <2>4. issued[k] = None /\ None \notin Provider
      BY <2>2, TextAssumption DEF CodesLeft
    <2>5. /\ issued' \in [Code -> Provider \union {None}] /\ issued'[k] = at.op
          /\ \A c \in Code : issued[c] \in Provider => issued'[c] = issued[c]
      BY <1>2, <2>2, <2>3, <2>4
    <2>6. OfLogin(t, [kind |-> "callback", code |-> k, state |-> at.state], issued')
      BY <2>3, <2>5, UrlKinds DEF OfLogin
    <2> QED BY <1>2, <1>3, <1>4, <2>1, <2>2, <2>5, <2>6
  <1>9. CASE Refuse(t)
    <2>1. /\ at.kind = "provider" /\ UNCHANGED <<req, job, issued, site>>
          /\ tab' = At(t, [kind |-> "refused"]) /\ faults' \in 0 .. MaxFaults
      BY <1>9, <1>2 DEF Refuse, Go, authVars
    <2>2. OfLogin(t, [kind |-> "refused"], issued')
      BY UrlKinds DEF OfLogin
    <2> QED BY <1>2, <1>3, <1>4, <2>1, <2>2
  <1> QED BY <1>5, <1>6, <1>7, <1>8, <1>9

\* A new request: the job it starts belongs to the tab that sent it, and to no
\* other thread.
LEMMA SendFInv ==
  ASSUME FInv, LInv', NEW t \in Tab, NEW w \in Worker,
         NEW place, NEW code, NEW pc, Send(t, w, place, code, pc),
         NEW j, job' = [job EXCEPT ![w] = j], j.tab = t,
         pc \in Auth!Running \union Auth!Answers,
         j \in Job, ~j.wild, j.url = tab[t].at,
         tab[t].at.kind \in {"page", "login", "callback", "refused"},
         OfLogin(t, j.reply, issued), Held(pc, j), faults' \in 0 .. MaxFaults
  PROVE  FInv'
  <1>1. /\ UNCHANGED <<tab, issued, site>> /\ DOMAIN req = Worker
        /\ req' = [req EXCEPT ![w] = [pc |-> pc, from |-> Browse(t), place |-> place,
                     cookie |-> jar[Browse(t)], code |-> code, new |-> None, since |-> now]]
    BY DEF Send, Auth!Accept, FInv, LInv
  <1>2. "pc" \in DOMAIN req'[w] /\ req'[w].pc = pc /\ \A v \in Worker \ {w} : req'[v] = req[v]
    BY <1>1
  <1>3. \A v \in Worker : job[v] # NoJob => job[v].tab # t
    BY DEF Send, Sent
  <1>4. JobFits(req'[w], j, tab[j.tab].at, issued)
    BY <1>2 DEF JobFits
  <1>5. j # NoJob
    BY NoJobAssumption
  <1> QED BY <1>1, <1>2, <1>3, <1>4, <1>5, JobMoves

\* A request for a page, for the login page, or with what the provider said.
LEMMA RequestFInv ==
  ASSUME FInv, LInv', NEW t \in Tab, NEW w \in Worker,
         Load(t, w) \/ Initiate(t, w) \/ Callback(t, w)
  PROVE  FInv'
  <1> DEFINE at == tab[t].at
             new == NewJob(t)
  <1>1. OfLogin(t, at, issued) /\ at \in Url /\ Error \in Url /\ OfLogin(t, Error, issued)
    BY UrlKinds DEF FInv, TabsFit, TabFits, OfLogin, Error
  <1>2. /\ faults \in 0 .. MaxFaults
        /\ Fault => faults' \in 0 .. MaxFaults
    BY MaxFaultsAssumption DEF FInv, TypeOK, Fault
  <1>3. /\ new = [tab |-> t, url |-> at, reply |-> Error, owns |-> {}, wild |-> FALSE]
        /\ new \in Job /\ ~new.wild
    BY <1>1 DEF NewJob, Job
  <1>4. CASE Load(t, w)
    <2>1. at.kind = "page" /\ job' = [job EXCEPT ![w] = new] /\ UNCHANGED faults
      BY <1>4 DEF Load
    <2>2. PICK pc \in {"login", "lookup"} : Send(t, w, "protected", None, pc)
      BY <1>4 DEF Load, Auth!CheckLoginUrl
    <2>3. Held(pc, new)
      BY <1>3, <2>1 DEF Held
    <2>4. pc \in Auth!Running \union Auth!Answers
      BY DEF Auth!Running, Auth!Answers
    <2> HIDE DEF new
    <2> QED BY <1>1, <1>2, <1>3, <2>1, <2>2, <2>3, <2>4, SendFInv
  <1>5. CASE Callback(t, w)
    <2>1. /\ at.kind \in {"callback", "refused"}
          /\ job' = [job EXCEPT ![w] = new] /\ UNCHANGED faults
      BY <1>5 DEF Callback
    <2>2. PICK pc \in {"denied", "resolve", "forget"} :
              /\ \E code : Send(t, w, "callback", code, pc)
              /\ pc # "denied" => at.kind = "callback"
      <3>1. CASE at.kind = "refused"
        BY <1>5, <3>1 DEF Callback
      <3>2. CASE at.kind = "callback"
        BY <1>5, <3>2 DEF Callback
      <3> QED BY <2>1, <3>1, <3>2
    <2>3. Held(pc, new)
      BY <1>3, <2>2 DEF Held
    <2>4. pc \in Auth!Running \union Auth!Answers
      BY DEF Auth!Running, Auth!Answers
    <2> HIDE DEF new
    <2> QED BY <1>1, <1>2, <1>3, <2>1, <2>2, <2>3, <2>4, SendFInv
  <1>6. CASE Initiate(t, w)
    <2>1. at.kind = "login" /\ Send(t, w, "elsewhere", None, "declined")
      BY <1>6 DEF Initiate
    <2>2. "declined" \in Auth!Answers
      BY DEF Auth!Answers
    <2>3. ASSUME NEW reply, OfLogin(t, reply, issued), NEW owns,
                 \/ owns \subseteq {"producer"}
                 \/ reply = Error /\ owns = {"producer", "issuer"},
                 NEW j \in Job,
                 j = [tab |-> t, url |-> at, reply |-> reply, owns |-> owns, wild |-> FALSE],
                 job' = [job EXCEPT ![w] = j], faults' \in 0 .. MaxFaults
          PROVE  FInv'
      <3>1. Held("declined", j)
        BY <2>1, <2>3 DEF Held
      <3>2. j.tab = t /\ j.url = at /\ j.reply = reply /\ ~j.wild
        BY <2>3
      <3> QED BY <2>1, <2>2, <2>3, <3>1, <3>2, SendFInv
    <2>4. ASSUME NEW reply, OfLogin(t, reply, issued), NEW owned, NEW released,
                 Proper(owned, released), owned \ Range(released) \subseteq {"producer"},
                 job' = [job EXCEPT ![w] = Done(new, reply, owned, released)],
                 UNCHANGED faults
          PROVE  FInv'
      <3>1. reply \in Url
        BY <2>4 DEF OfLogin
      <3>2. owned \ Range(released) \subseteq Handle
        BY <2>4, OwnedHandles
      <3>3. PICK j : j = Done(new, reply, owned, released)
        OBVIOUS
      <3>4. /\ j = [tab |-> t, url |-> at, reply |-> reply, owns |-> owned \ Range(released),
                    wild |-> FALSE]
            /\ j \in Job
        <4>1. new.tab = t /\ new.url = at /\ new \in Job
          BY <1>3
        <4> HIDE DEF new
        <4> QED BY <2>4, <3>1, <3>2, <3>3, <4>1, DoneJob
      <3> HIDE DEF new
      <3> QED BY <1>2, <2>3, <2>4, <3>3, <3>4
    <2>0. Proper({}, <<>>) /\ {} \ Range(<<>>) \subseteq {"producer"}
      BY ReleasedAtOnce DEF Proper
    <2>5. CASE job' = [job EXCEPT ![w] = Done(new, Error, {}, <<>>)] /\ UNCHANGED faults
      <3> HIDE DEF new
      <3> QED BY <2>0, <2>4, <2>5, <1>1
    <2>6. CASE /\ job' = [job EXCEPT ![w] = Done(new, [kind |-> "listing", page |-> at.page], {}, <<>>)]
               /\ at.op = None /\ UNCHANGED faults
      <3>1. at.page = Wanted(t) /\ Wanted(t) \in Page
        BY <1>1, <2>1, <2>6, WantedIsPage DEF OfLogin
      <3>2. OfLogin(t, [kind |-> "listing", page |-> at.page], issued)
        BY <3>1, UrlKinds DEF OfLogin
      <3> HIDE DEF new, at
      <3> QED BY <2>0, <2>4, <2>6, <3>2
    <2>7. CASE /\ job' = [job EXCEPT ![w] = Done(new,
                     [kind |-> "provider", op |-> at.op, state |-> StateFor[at.op][ReturnTo(at)]],
                     OwnedAfter(InitiationCalls, Len(InitiationCalls)), ReleasedByInitiation)]
               /\ at.op # None /\ UNCHANGED faults
      <3>1. ReturnTo(at) = Wanted(t) /\ Wanted(t) \in Page /\ at.op \in Provider
        BY <1>1, <2>1, <2>7, WantedIsPage, UrlParts DEF OfLogin
      <3>2. StateFor[at.op][Wanted(t)] \in State
        BY <3>1, StatesReceived
      <3>3. OfLogin(t, [kind |-> "provider", op |-> at.op, state |-> StateFor[at.op][ReturnTo(at)]],
                    issued)
        BY <3>1, <3>2, UrlKinds DEF OfLogin
      <3>4. Len(InitiationCalls) = 8
        BY InitiationList
      <3> HIDE DEF new, at
      <3> QED BY <2>4, <2>7, <3>3, <3>4, SuccessReleases
    <2>8. CASE /\ \E i \in 1 .. Len(InitiationCalls) :
                     job' = [job EXCEPT ![w] = Failed(new, InitiationCalls, i)]
               /\ Fault
      <3>1. PICK i \in 1 .. 8 : job' = [job EXCEPT ![w] = Failed(new, InitiationCalls, i)]
        BY <2>8, InitiationList
      <3>2. PICK owns :
              /\ owns \subseteq {"producer"} \/ owns = {"producer", "issuer"}
              /\ Failed(new, InitiationCalls, i) =
                    [tab |-> new.tab, url |-> new.url, reply |-> Error, owns |-> owns, wild |-> FALSE]
              /\ Failed(new, InitiationCalls, i) \in Job
        BY <1>3, FailedInitiation
      <3>3. PICK j \in Job : j = Failed(new, InitiationCalls, i)
        BY <3>2
      <3>4. j = [tab |-> t, url |-> at, reply |-> Error, owns |-> owns, wild |-> FALSE]
        BY <1>3, <3>2, <3>3
      <3> HIDE DEF new
      <3> QED BY <1>1, <1>2, <2>3, <2>8, <3>1, <3>2, <3>3, <3>4
    <2> HIDE DEF new
    <2> QED BY <1>6, <2>5, <2>6, <2>7, <2>8 DEF Initiate, new
  <1> QED BY <1>4, <1>5, <1>6

\* The step a thread is at, and what it owns there.
LEMMA StepFacts ==
  ASSUME FInv, NEW w \in Worker, Auth!Serving(w)
  PROVE  /\ job[w] # NoJob /\ job[w] \in Job /\ ~job[w].wild
         /\ job[w].wild = FALSE
         /\ job[w] = [tab |-> job[w].tab, url |-> job[w].url, reply |-> job[w].reply,
                      owns |-> job[w].owns, wild |-> FALSE]
         /\ "pc" \in DOMAIN req[w] /\ Held(req[w].pc, job[w])
         /\ job[w].url.kind \in {"page", "login", "callback", "refused"}
         /\ OfLogin(job[w].tab, job[w].reply, issued)
         /\ OfLogin(job[w].tab, job[w].url, issued)
         /\ job[w].tab \in Tab
         /\ DOMAIN req = Worker /\ job \in [Worker -> Job \union {NoJob}]
         /\ faults \in 0 .. MaxFaults /\ (Fault => faults' \in 0 .. MaxFaults)
  <1>1. job[w] # NoJob
    BY DEF FInv, JobWhenServing
  <1>2. JobFits(req[w], job[w], job[w].url, issued) /\ OfLogin(job[w].tab, job[w].url, issued)
    BY <1>1, JobFacts
  <1>3. job[w] \in Job /\ ~job[w].wild /\ job[w].wild \in BOOLEAN
    BY <1>2 DEF JobFits, Job
  <1>4. job[w].wild = FALSE
    BY <1>3
  <1>5. job[w] = [tab |-> job[w].tab, url |-> job[w].url, reply |-> job[w].reply,
                  owns |-> job[w].owns, wild |-> FALSE]
    BY <1>3, <1>4 DEF Job
  <1>6. faults \in 0 .. MaxFaults /\ (Fault => faults' \in 0 .. MaxFaults)
    BY MaxFaultsAssumption DEF FInv, TypeOK, Fault
  <1>7. job[w].tab \in Tab
    BY <1>3 DEF Job
  <1>8. DOMAIN req = Worker /\ job \in [Worker -> Job \union {NoJob}]
    BY DEF FInv, LInv, TypeOK
  <1>9. /\ "pc" \in DOMAIN req[w] /\ Held(req[w].pc, job[w])
        /\ job[w].url.kind \in {"page", "login", "callback", "refused"}
        /\ OfLogin(job[w].tab, job[w].reply, issued)
    BY <1>2 DEF JobFits
  <1> QED BY <1>1, <1>2, <1>3, <1>4, <1>5, <1>6, <1>7, <1>8, <1>9

\* A handler goes on to the step pc, with the reply and what it owns there.
LEMMA GoesOn ==
  ASSUME FInv, LInv', NEW w \in Worker, Auth!Serving(w),
         NEW pc \in Auth!Running \union Auth!Answers,
         "pc" \in DOMAIN req'[w], req'[w].pc = pc,
         \A v \in Worker \ {w} : req'[v] = req[v],
         NEW reply, OfLogin(job[w].tab, reply, issued), NEW owns \in SUBSET Handle,
         NEW j, j = [tab |-> job[w].tab, url |-> job[w].url, reply |-> reply,
                     owns |-> owns, wild |-> FALSE],
         job' = [job EXCEPT ![w] = j], Held(pc, j),
         UNCHANGED <<tab, issued, site>>, faults' \in 0 .. MaxFaults
  PROVE  FInv'
  <1>1. job[w] # NoJob /\ job[w] \in Job
        /\ job[w].url.kind \in {"page", "login", "callback", "refused"}
    BY StepFacts
  <1>2. job[w].tab \in Tab /\ job[w].url \in Url /\ reply \in Url
    BY <1>1 DEF Job, OfLogin
  <1>3. j \in Job /\ ~j.wild /\ j.tab = job[w].tab /\ j.url = job[w].url /\ j.reply = reply
    BY <1>2 DEF Job
  <1>4. JobFits(req'[w], j, job[w].url, issued)
    BY <1>1, <1>3 DEF JobFits
  <1> QED BY <1>1, <1>3, <1>4, StepMoves

\* The steps at which a handler only decides where to go on.
LEMMA AsBeforeFInv ==
  ASSUME FInv, LInv', NEW w \in Worker, AsBefore(w)
  PROVE  FInv'
  <1>1. Auth!Serving(w)
    BY DEF AsBefore, Auth!AuthStep, Auth!LookUp, Auth!CheckExpiry, Auth!Drop, Auth!Forget, Auth!At
  <1>2. DOMAIN req = Worker /\ "pc" \in DOMAIN req[w]
    BY <1>1, StepFacts
  <1>3. \E pc : req' = [req EXCEPT ![w].pc = pc] /\
          \/ req[w].pc \in {"lookup", "check", "drop"} /\
             pc \in {"check", "drop", "granted", "anonymous", "login", "declined"}
          \/ req[w].pc = "forget" /\ pc = "resolve"
    BY DEF AsBefore, Auth!AuthStep, Auth!LookUp, Auth!CheckExpiry, Auth!Drop, Auth!Forget,
           Auth!At, Auth!Goto, Auth!CheckLoginUrl, Auth!LetThrough
  <1>4. PICK pc : /\ req' = [req EXCEPT ![w].pc = pc]
                  /\ \/ /\ req[w].pc \in {"lookup", "check", "drop"}
                        /\ pc \in {"check", "drop", "granted", "anonymous", "login", "declined"}
                     \/ req[w].pc = "forget" /\ pc = "resolve"
    BY <1>3
  <1>5. /\ "pc" \in DOMAIN req'[w] /\ req'[w].pc = pc
        /\ \A v \in Worker \ {w} : req'[v] = req[v]
    BY <1>2, <1>4
  <1>6. pc \in Auth!Running \union Auth!Answers
    BY <1>4 DEF Auth!Running, Auth!Answers
  <1>7. Held(pc, job[w])
    <2>1. Held(req[w].pc, job[w])
      BY <1>1, StepFacts
    <2>2. job[w].owns = {}
      BY <2>1, <1>4 DEF Held
    <2> QED BY <2>1, <2>2, <1>4 DEF Held
  <1>8. job' = [job EXCEPT ![w] = job[w]] /\ UNCHANGED <<tab, issued, site, faults>>
    BY <1>1, StepFacts DEF AsBefore
  <1>9. job[w].owns \in SUBSET Handle
    BY <1>1, StepFacts DEF Job
  <1> QED BY <1>1, <1>5, <1>6, <1>7, <1>8, <1>9, GoesOn, StepFacts

\* The provider is found, or the callback fails on the way.
LEMMA ResolveFInv ==
  ASSUME FInv, LInv', NEW w \in Worker, Resolve(w)
  PROVE  FInv'
  <1>1. Auth!Serving(w) /\ req[w].pc = "resolve" /\ UNCHANGED <<tab, issued, site>>
    BY DEF Resolve, Auth!Resolve, Auth!At
  <1>2. DOMAIN req = Worker /\ "pc" \in DOMAIN req[w] /\ job[w].url.kind = "callback"
    BY <1>1, StepFacts DEF Held
  <1>3. PICK pc \in {"exchange", "denied", "failed"} : req' = [req EXCEPT ![w].pc = pc]
    BY DEF Resolve, Auth!Resolve, Auth!ResolveOutcomes, Auth!Goto
  <1>4. /\ "pc" \in DOMAIN req'[w] /\ req'[w].pc = pc
        /\ \A v \in Worker \ {w} : req'[v] = req[v]
    BY <1>2, <1>3
  <1>5. pc \in Auth!Running \union Auth!Answers
    BY DEF Auth!Running, Auth!Answers
  <1>6. CASE pc = "exchange"
    <2> PICK owns : owns = OwnedAfter(CallbackCalls, BeforeExchange)
      OBVIOUS
    <2>1. owns \in SUBSET Handle
      BY OwnedHandles, CallbackList DEF BeforeExchange
    <2> PICK j : j = Owning(job[w], owns)
      OBVIOUS
    <2>2. /\ job' = [job EXCEPT ![w] = j] /\ UNCHANGED faults
          /\ j = [tab |-> job[w].tab, url |-> job[w].url, reply |-> job[w].reply,
                  owns |-> owns, wild |-> FALSE]
      BY <1>1, <1>4, <1>6, StepFacts DEF Resolve, Owning
    <2>3. Held(pc, j)
      BY <1>2, <1>6, <2>2 DEF Held, Auth!Answers
    <2>4. OfLogin(job[w].tab, job[w].reply, issued) /\ faults' \in 0 .. MaxFaults
      BY <1>1, <2>2, StepFacts
    <2> QED BY <1>1, <1>4, <1>5, <2>1, <2>2, <2>3, <2>4, GoesOn
  <1>7. CASE pc # "exchange"
    <2>1. BeforeExchange = 4
      BY CallbackList DEF BeforeExchange
    <2>2. PICK i \in 1 .. 4 : job' = [job EXCEPT ![w] = Failed(job[w], CallbackCalls, i)]
      BY <1>4, <1>7, <2>1 DEF Resolve
    <2>3. Fault
      BY <1>4, <1>7 DEF Resolve
    <2>4. i \in 1 .. 5
      OBVIOUS
    <2>5. PICK owns \in SUBSET {"producer"} :
            Failed(job[w], CallbackCalls, i) =
               [tab |-> job[w].tab, url |-> job[w].url, reply |-> Error, owns |-> owns, wild |-> FALSE]
      <3>1. job[w] \in Job
        BY <1>1, StepFacts
      <3> QED BY <2>4, <3>1, FailedCallback
    <2> PICK j : j = Failed(job[w], CallbackCalls, i)
      OBVIOUS
    <2>6. Held(pc, j)
      BY <1>7, <2>5 DEF Held
    <2>7. owns \in SUBSET Handle /\ OfLogin(job[w].tab, Error, issued)
      BY OwnedHandles, UrlKinds DEF OfLogin, Error
    <2>8. faults' \in 0 .. MaxFaults
      BY <1>1, <2>3, StepFacts
    <2> QED BY <1>1, <1>4, <1>5, <2>2, <2>5, <2>6, <2>7, <2>8, GoesOn
  <1> QED BY <1>6, <1>7

\* The code is redeemed, or not.
LEMMA ExchangeFInv ==
  ASSUME FInv, LInv', NEW w \in Worker, Exchange(w)
  PROVE  FInv'
  <1>1. Auth!Serving(w) /\ req[w].pc = "exchange" /\ UNCHANGED <<tab, issued, site>>
    BY DEF Exchange, Auth!Exchange, Auth!At
  <1>2. /\ DOMAIN req = Worker /\ "pc" \in DOMAIN req[w] /\ job[w].url.kind = "callback"
        /\ Len(CallbackCalls) = 5
    BY <1>1, StepFacts, CallbackList DEF Held
  <1>3. PICK pc \in {"create", "denied"} : req' = [req EXCEPT ![w].pc = pc]
    BY DEF Exchange, Auth!Exchange, Auth!Goto
  <1>4. /\ "pc" \in DOMAIN req'[w] /\ req'[w].pc = pc
        /\ \A v \in Worker \ {w} : req'[v] = req[v]
    BY <1>2, <1>3
  <1>5. pc \in Auth!Running \union Auth!Answers
    BY DEF Auth!Running, Auth!Answers
  <1>6. CASE pc = "create"
    <2> PICK owns : owns = OwnedAfter(CallbackCalls, Len(CallbackCalls))
      OBVIOUS
    <2>1. owns \in SUBSET Handle
      BY <1>2, OwnedHandles
    <2> PICK j : j = Owning(job[w], owns)
      OBVIOUS
    <2>2. /\ job' = [job EXCEPT ![w] = j] /\ UNCHANGED faults
          /\ j = [tab |-> job[w].tab, url |-> job[w].url, reply |-> job[w].reply,
                  owns |-> owns, wild |-> FALSE]
      BY <1>1, <1>4, <1>6, StepFacts DEF Exchange, Owning
    <2>3. Held(pc, j)
      BY <1>2, <1>6, <2>2 DEF Held, Auth!Answers
    <2>4. OfLogin(job[w].tab, job[w].reply, issued) /\ faults' \in 0 .. MaxFaults
      BY <1>1, <2>2, StepFacts
    <2> QED BY <1>1, <1>4, <1>5, <2>1, <2>2, <2>3, <2>4, GoesOn
  <1>7. CASE pc = "denied"
    <2>1. job' = [job EXCEPT ![w] = Failed(job[w], CallbackCalls, 5)]
      BY <1>2, <1>4, <1>7 DEF Exchange
    <2>2. faults' \in 0 .. MaxFaults
      BY <1>1, <1>4, <1>7, StepFacts DEF Exchange
    <2>3. PICK owns \in SUBSET {"producer"} :
            Failed(job[w], CallbackCalls, 5) =
               [tab |-> job[w].tab, url |-> job[w].url, reply |-> Error, owns |-> owns, wild |-> FALSE]
      <3>1. job[w] \in Job
        BY <1>1, StepFacts
      <3>2. 5 \in 1 .. 5
        OBVIOUS
      <3> QED BY <3>1, <3>2, FailedCallback
    <2> PICK j : j = Failed(job[w], CallbackCalls, 5)
      OBVIOUS
    <2>4. Held(pc, j)
      <3>1. j.owns = owns
        BY <2>3
      <3> QED BY <1>7, <3>1 DEF Held
    <2>5. owns \in SUBSET Handle /\ OfLogin(job[w].tab, Error, issued)
      BY OwnedHandles, UrlKinds DEF OfLogin, Error
    <2> QED BY <1>1, <1>4, <1>5, <2>1, <2>2, <2>3, <2>4, <2>5, GoesOn
  <1> QED BY <1>6, <1>7

\* The session object is made.
LEMMA CreateFInv ==
  ASSUME FInv, LInv', NEW w \in Worker, Create(w)
  PROVE  FInv'
  <1>1. /\ Auth!Serving(w) /\ req[w].pc = "create"
        /\ UNCHANGED <<tab, job, issued, site, faults>>
    BY DEF Create, Auth!Create, Auth!At
  <1>2. DOMAIN req = Worker /\ "pc" \in DOMAIN req[w] /\ Held("create", job[w])
    BY <1>1, StepFacts
  <1>3. PICK s : req' = [req EXCEPT ![w].new = s, ![w].pc = "store"]
    BY DEF Create, Auth!Create
  <1>4. /\ "pc" \in DOMAIN req'[w] /\ req'[w].pc = "store"
        /\ \A v \in Worker \ {w} : req'[v] = req[v]
    BY <1>2, <1>3
  <1>5. Held("store", job[w])
    BY <1>2 DEF Held, Auth!Answers
  <1>6. job' = [job EXCEPT ![w] = job[w]] /\ job[w].owns \in SUBSET Handle
    BY <1>1, StepFacts DEF Job
  <1>7. "store" \in Auth!Running \union Auth!Answers
    BY DEF Auth!Running
  <1> QED BY <1>1, <1>4, <1>5, <1>6, <1>7, GoesOn, StepFacts

\* The session is stored and the browser sent on to its page.
LEMMA StoreFInv ==
  ASSUME FInv, LInv', NEW w \in Worker, Store(w)
  PROVE  FInv'
  <1> DEFINE j0 == job[w]
             by == issued[j0.url.code]
  <1>1. /\ Auth!Serving(w) /\ req[w].pc = "store"
        /\ UNCHANGED <<tab, issued, site, faults>>
    BY DEF Store, Auth!Store, Auth!At
  <1>2. /\ DOMAIN req = Worker /\ "pc" \in DOMAIN req[w] /\ Held("store", j0)
        /\ OfLogin(j0.tab, j0.url, issued) /\ j0 \in Job /\ j0.tab \in Tab
    BY <1>1, StepFacts
  <1>3. req' = [req EXCEPT ![w].pc = "welcome"]
    BY DEF Store, Auth!Store, Auth!Goto
  <1>4. /\ "pc" \in DOMAIN req'[w] /\ req'[w].pc = "welcome"
        /\ \A v \in Worker \ {w} : req'[v] = req[v]
    BY <1>2, <1>3
  <1>5. Received[j0.url.state].return_to = Wanted(j0.tab)
    <2>1. by \in Provider /\ j0.url.state = StateFor[by][Wanted(j0.tab)]
      BY <1>2 DEF Held, OfLogin
    <2>2. Wanted(j0.tab) \in Page
      BY <1>2, WantedIsPage
    <2>3. Received[StateFor[by][Wanted(j0.tab)]] = [return_to |-> Wanted(j0.tab), op |-> by]
      BY <2>1, <2>2, StatesReceived
    <2> HIDE DEF j0, by
    <2> QED BY <2>1, <2>3
  <1>6. PICK reply : reply = PageUrl(Wanted(j0.tab))
    OBVIOUS
  <1>7. reply \in Url /\ OfLogin(j0.tab, reply, issued)
    BY <1>2, <1>6, UrlKinds, WantedIsPage DEF OfLogin, PageUrl
  <1>8. /\ j0.owns = OwnedAfter(CallbackCalls, 5) /\ Proper(j0.owns, ReleasedByCallback)
        /\ j0.owns \ Range(ReleasedByCallback) \subseteq {"producer"}
    BY <1>2, SuccessReleases, CallbackList DEF Held
  <1>9. PICK owns : owns = j0.owns \ Range(ReleasedByCallback)
    OBVIOUS
  <1>10. owns \in SUBSET Handle /\ owns \subseteq {"producer"}
    BY <1>8, <1>9, OwnedHandles
  <1>11. job' = [job EXCEPT ![w] = Done(j0, reply, j0.owns, ReleasedByCallback)]
    BY <1>5, <1>6 DEF Store
  <1>12. PICK j : j = Done(j0, reply, j0.owns, ReleasedByCallback)
    OBVIOUS
  <1>13. j = [tab |-> j0.tab, url |-> j0.url, reply |-> reply, owns |-> owns, wild |-> FALSE]
    <2>1. /\ j0 \in Job /\ reply \in Url /\ Proper(j0.owns, ReleasedByCallback)
          /\ j0.owns \ Range(ReleasedByCallback) \subseteq Handle
      BY <1>2, <1>7, <1>8, <1>9, <1>10
    <2> HIDE DEF j0
    <2>2. Done(j0, reply, j0.owns, ReleasedByCallback) =
            [tab |-> j0.tab, url |-> j0.url, reply |-> reply,
             owns |-> j0.owns \ Range(ReleasedByCallback), wild |-> FALSE]
      <3>1. PICK k, owned, released : k = j0 /\ owned = j0.owns /\ released = ReleasedByCallback
        OBVIOUS
      <3>2. k \in Job /\ Proper(owned, released) /\ owned \ Range(released) \subseteq Handle
        BY <2>1, <3>1
      <3>3. Done(k, reply, owned, released) =
              [tab |-> k.tab, url |-> k.url, reply |-> reply,
               owns |-> owned \ Range(released), wild |-> FALSE]
        BY <2>1, <3>2, DoneJob
      <3> QED BY <3>1, <3>3
    <2> QED BY <2>2, <1>9, <1>12
  <1>14. Held("welcome", j)
    BY <1>10, <1>13 DEF Held
  <1>15. "welcome" \in Auth!Running \union Auth!Answers
    BY DEF Auth!Answers
  <1>16. job' = [job EXCEPT ![w] = j] /\ faults' \in 0 .. MaxFaults
    BY <1>1, <1>11, <1>12, StepFacts
  <1> QED BY <1>1, <1>4, <1>7, <1>10, <1>13, <1>14, <1>15, <1>16, GoesOn

\* A tab is taken where the answer sends it, which belongs to its login: the page
\* it asked for, or the login page for it, or what the handler made its reply.
LEMMA DeliverFInv ==
  ASSUME FInv, LInv', NEW w \in Worker, Deliver(w)
  PROVE  FInv'
  <1> DEFINE t == job[w].tab
             x == [want |-> tab[t].want, at |-> Landing(w)]
  <1>1. /\ Auth!Serving(w) /\ UNCHANGED <<issued, site, faults>>
        /\ req' = [req EXCEPT ![w] = Auth!NoRequest]
        /\ tab' = [tab EXCEPT ![t] = x] /\ job' = [job EXCEPT ![w] = NoJob]
    BY DEF Deliver, Auth!Deliver, Auth!Finish, At
  <1>2. /\ job[w] # NoJob /\ Held(req[w].pc, job[w]) /\ t \in Tab
        /\ OfLogin(t, job[w].reply, issued) /\ OfLogin(t, job[w].url, issued)
        /\ job[w].url = tab[t].at /\ TabFits(t, tab[t], issued)
        /\ job[w].url.kind # "blank"
        /\ \A v \in Worker \ {w} : job[v] # NoJob => job[v].tab # t
    BY <1>1, StepFacts, JobFacts
  <1>3. OfLogin(t, Landing(w), issued)
    <2>1. Wanted(t) \in Page /\ Wanted(t) # None
      BY <1>2, WantedIsPage, TextAssumption
    <2>2. CASE req[w].pc \in {"granted", "anonymous"}
      <3>1. Landing(w) = [kind |-> "shown", page |-> job[w].url.page]
        BY <2>2 DEF Landing, Auth!LetThrough
      <3>2. job[w].url.page = Wanted(t)
        BY <1>2, <2>2 DEF Held, OfLogin
      <3> QED BY <2>1, <3>1, <3>2, UrlKinds DEF OfLogin
    <2>3. CASE req[w].pc = "login"
      <3>1. Landing(w) = LoginUrl(job[w].url.page)
        BY <2>3 DEF Landing, Auth!LetThrough
      <3>2. job[w].url.page = Wanted(t)
        BY <1>2, <2>3 DEF Held, OfLogin
      <3> QED BY <2>1, <3>1, <3>2, UrlKinds DEF OfLogin, LoginUrl, ReturnTo
    <2>4. CASE req[w].pc \notin {"granted", "anonymous", "login"}
      BY <1>2, <2>4 DEF Landing, Auth!LetThrough
    <2> QED BY <2>2, <2>3, <2>4
  <1>4. TabFits(t, x, issued)
    BY <1>2, <1>3 DEF TabFits
  <1>5. /\ tab'[t] = x /\ \A u \in Tab \ {t} : tab'[u] = tab[u]
        /\ job'[w] = NoJob /\ \A v \in Worker \ {w} : job'[v] = job[v] /\ req'[v] = req[v]
        /\ ~Auth!Serving(w)'
    <2>1. /\ tab \in [Tab -> [want : Page \union {None}, at : Url]]
          /\ job \in [Worker -> Job \union {NoJob}] /\ DOMAIN req = Worker
      BY DEF FInv, LInv, TypeOK
    <2> HIDE DEF x
    <2> QED BY <1>1, <1>2, <2>1 DEF Auth!Serving, Auth!NoRequest
  <1>6. TypeOK'
    <2>1. x \in [want : Page \union {None}, at : Url]
      BY <1>4 DEF TabFits, OfLogin
    <2> HIDE DEF x
    <2> QED BY <1>1, <2>1 DEF FInv, TypeOK
  <1> HIDE DEF x
  <1>7. TabsFit'
    BY <1>1, <1>4, <1>5 DEF FInv, TabsFit
  <1>8. JobsFit'
    <2> SUFFICES ASSUME NEW v \in Worker, job'[v] # NoJob
                 PROVE  JobFits(req'[v], job'[v], tab'[job'[v].tab].at, issued')
      BY DEF JobsFit
    <2>1. v # w /\ job'[v] = job[v] /\ req'[v] = req[v]
      BY <1>5
    <2>2. JobFits(req[v], job[v], tab[job[v].tab].at, issued)
      BY <2>1 DEF FInv, JobsFit
    <2>3. job[v].tab \in Tab \ {t}
      BY <1>2, <2>1, <2>2 DEF JobFits, Job
    <2> HIDE DEF t
    <2> QED BY <1>1, <1>5, <2>1, <2>2, <2>3
  <1>9. JobWhenServing' /\ OneJobForATab'
    BY <1>5 DEF FInv, JobWhenServing, OneJobForATab, Auth!Serving
  <1> QED BY <1>6, <1>7, <1>8, <1>9 DEF FInv

\* The steps of a handler, and the answer.
LEMMA ServeFInv ==
  ASSUME FInv, LInv', NEW w \in Worker, Serve(w) \/ Lose(w)
  PROVE  FInv'
  <1>1. CASE Lose(w)
    <2>1. faults' \in 0 .. MaxFaults
      BY <1>1, MaxFaultsAssumption DEF Lose, FInv, TypeOK, Fault
    <2> QED BY <1>1, <2>1, JobEnds DEF Lose, Auth!Lose, Auth!Finish
  <1> QED
    BY <1>1, AsBeforeFInv, ResolveFInv, ExchangeFInv, CreateFInv, StoreFInv, DeliverFInv DEF Serve

\* What goes wrong beside the requests: a cookie that is gone, the clock.
LEMMA AsideFInv ==
  ASSUME FInv, LInv', UNCHANGED <<req, tab, job, issued, site>>, Fault \/ UNCHANGED faults
  PROVE  FInv'
  <1>1. TypeOK'
    BY MaxFaultsAssumption DEF FInv, TypeOK, Fault
  <1> QED BY <1>1 DEF FInv, TabsFit, JobsFit, JobWhenServing, OneJobForATab, Auth!Serving

\* A child ends, and with it the requests of its threads.
LEMMA ChildExitFInv ==
  ASSUME FInv, LInv', NEW c \in Child, ChildExit(c)
  PROVE  FInv'
  <1>1. /\ req' = [w \in Worker |-> IF ChildOf[w] = c THEN Auth!NoRequest ELSE req[w]]
        /\ job' = [w \in Worker |-> IF ChildOf[w] = c THEN NoJob ELSE job[w]]
        /\ Fault /\ UNCHANGED <<tab, issued, site>>
    BY DEF ChildExit, Auth!ChildExit
  <1>2. \A w \in Worker : /\ job'[w] # NoJob => job'[w] = job[w] /\ req'[w] = req[w]
                          /\ Auth!Serving(w)' => Auth!Serving(w) /\ job'[w] = job[w]
    BY <1>1 DEF Auth!Serving, Auth!NoRequest
  <1>3. TypeOK'
    BY <1>1, MaxFaultsAssumption DEF FInv, TypeOK, Fault
  <1>4. TabsFit'
    BY <1>1 DEF FInv, TabsFit
  <1>5. JobsFit'
    BY <1>1, <1>2 DEF FInv, JobsFit
  <1>6. JobWhenServing' /\ OneJobForATab'
    BY <1>2 DEF FInv, JobWhenServing, OneJobForATab
  <1> QED BY <1>3, <1>4, <1>5, <1>6 DEF FInv

\* The inductive invariant is kept.
LEMMA NextFInv ==
  ASSUME FInv, [Next]_vars
  PROVE  FInv'
  <1>1. LInv'
    BY NextLInv DEF FInv
  <1>2. ASSUME NEW u \in Browser, ClearCookie(u) PROVE FInv'
    BY <1>1, <1>2, AsideFInv DEF ClearCookie, Auth!ClearCookie
  <1>3. CASE Tick
    BY <1>1, <1>3, AsideFInv DEF Tick, Auth!Tick
  <1>4. CASE UNCHANGED vars
    BY <1>1, <1>4, AsideFInv DEF vars, authVars
  <1> QED
    BY <1>1, <1>2, <1>3, <1>4, TabStepFInv, RequestFInv, ServeFInv, ChildExitFInv DEF Next, Proceed

\* The inductive invariant holds in every reachable state.
LEMMA Invariance == Spec => []FInv
  BY InitFInv, NextFInv, PTL DEF Spec
-----------------------------------------------------------------------------
(* What follows from it.                                                   *)

\* The variables of the logins keep their types.
THEOREM TypesHold == Spec => []TypeOK
  <1>1. FInv => TypeOK
    BY DEF FInv
  <1> QED BY <1>1, Invariance, PTL

\* Whatever logins come between, of this tab or of others: a tab that asks for a
\* page or is shown one is at the page its user asked for.  target_link_uri
\* carries the page through the listing, the state parameter through the provider,
\* the Location header back.
THEOREM PagesReached == Spec => []PageReached
  <1>1. ASSUME FInv PROVE PageReached
    BY <1>1 DEF FInv, TabsFit, TabFits, OfLogin, PageReached
  <1> QED BY <1>1, Invariance, PTL

\* A code is only presented to the provider that issued it: the state parameter
\* the browser came back with names the provider it was sent to.
THEOREM CodesGoHome == Spec => []CodeGoesHome
  <1>1. ASSUME FInv, NEW w \in Worker, Answers(w, "callback"), Auth!At(w, "exchange")
        PROVE  issued[CodePresented(w)] = ProviderMeant(w)
    <2> DEFINE j == job[w]
               by == issued[j.url.code]
    <2>1. OfLogin(j.tab, j.url, issued) /\ j.tab \in Tab /\ j.url.kind = "callback"
      BY <1>1, StepFacts DEF Answers, Auth!At
    <2>2. by \in Provider /\ j.url.state = StateFor[by][Wanted(j.tab)]
      BY <2>1 DEF OfLogin
    <2>3. Wanted(j.tab) \in Page
      BY <2>1, WantedIsPage
    <2>4. Received[StateFor[by][Wanted(j.tab)]] = [return_to |-> Wanted(j.tab), op |-> by]
      BY <2>2, <2>3, StatesReceived
    <2>5. Received[j.url.state].op = by
      <3> HIDE DEF by, j
      <3> QED BY <2>2, <2>4
    <2> QED BY <2>5 DEF CodePresented, ProviderMeant
  <1>2. FInv => CodeGoesHome
    BY <1>1 DEF CodeGoesHome
  <1> QED BY <1>2, Invariance, PTL

\* On no path through the two handlers is a handle or a text of the library
\* released that has not been acquired, or released twice.
THEOREM HandlesReleasedOnce == Spec => []ReleasedOnce
  <1>1. ASSUME FInv, NEW w \in Worker, job[w] # NoJob PROVE ~job[w].wild
    BY <1>1 DEF FInv, JobsFit, JobFits
  <1>2. FInv => ReleasedOnce
    BY <1>1 DEF ReleasedOnce
  <1> QED BY <1>2, Invariance, PTL

\* When a request is answered, whichever call failed on the way, everything that
\* was acquired for it has been released but the request producer, and the issuer
\* when the request object could not be produced.
THEOREM NothingElseStays == Spec => []NothingElseKept
  <1>1. ASSUME FInv, NEW w \in Worker, Decided(w)
        PROVE  \/ job[w].owns \subseteq {"producer"}
               \/ Answers(w, "login") /\ job[w].reply = Error /\ job[w].owns = {"producer", "issuer"}
    <2>1. job[w] # NoJob /\ Held(req[w].pc, job[w]) /\ req[w].pc \in Auth!Answers
      BY <1>1 DEF Decided, FInv, JobsFit, JobFits
    <2> QED BY <2>1 DEF Held, Answers
  <1>2. FInv => NothingElseKept
    BY <1>1 DEF NothingElseKept
  <1> QED BY <1>2, Invariance, PTL
=============================================================================
