# A verification of mod_oidfed

TLA+ modules for the state of mod_oidfed, an Apache httpd module that makes a
web server a relying party of an OpenID Federation. TLC checks the modules on
small instances; TLAPS proves the most important results for every size.

Paths are relative to the repository's root; modules are in this directory.

## 1. The system

httpd reads the configuration in a parent process, forks child processes, and
answers each request in a thread of some child. mod_oidfed hooks into that at
four points (`mod_oidfed.c:24-30`): the start of a child, the choice of a
handler, the authentication of a request, and the handler. Everything about
federations, tokens and keys is done by `liboidfed_wrap.so`, a Go library that
is loaded at run time and whose source is not in the repository.

| Component | State it keeps | Operations | Hard about it |
|---|---|---|---|
| Session storage (`oidfed_config.c:15-46`) | a hash of sessions and a mutex, one per runtime and child | set, get, remove | all request threads share it; the result of get is used after the unlock |
| Session life (`oidfed_req_handler.c:423-625`) | session objects (never changed, never freed), the browsers' cookies | authenticate a page request; answer the provider's redirect: end the old session, resolve the provider, exchange the code, make and store a session | interleaving of handlers; children that do not share sessions; lost answers; crashes; expiry; duplicated callbacks |
| Child start-up (`mod_oidfed.c:192-201`, `oidfed_config.c:426-581`) | the runtime of each configuration | open the library, build the runtime part by part | each part can fail, the outcome is ignored, configurations are shared |
| Configuration (`oidfed_config.c:93-319, 588-621`, `mod_oidfed.c:32-180`) | one configuration per server | directives, merge of the main server's into a virtual host's | capacities, truncation, fields that a merge forgets |
| Key loading (`oidfed_config.c:333-402`) | a growing buffer | read a file, parse, wipe | growth arithmetic; copies of a private key |
| Dispatch (`mod_oidfed.c:203-227`, `oidfed_req_handler.c:202-227`) | none | choose a handler by URI | a missing configuration or runtime |
| Login initiation (`oidfed_req_handler.c:38-200`) | handles of the library | resolve the provider, sign a request, redirect | release on every path; agreement with the callback |
| OP listing (`oidfed_req_handler.c:229-394`) | a set of names already shown | collect, sort, print | names outlive what they point into |
| Entity statement (`oidfed_req_handler.c:396-421`) | none | one call of the library | - |
| Netstrings and numbers (`utils.c`) | none | encode, decode, format | boundaries, malformed input |
| Wrapper loader (`oidfed_wrap_loader.c` and generated code) | the library handle, a pointer per symbol | open, look up on first use, close | a library that is missing; order of unloading |

How they interact: the parent's configurations are copied into every child by
the fork. `worker_init_handler` turns each into a runtime, through the loader,
the key loading and the library. A request is dispatched by the configuration
of its server; its handler reads the runtime, and shares the runtime's session
storage with all other threads of its child. A browser connects the requests
with its cookie, and carries the provider's answer from the login to the
callback. Children share nothing.

What makes each component correct:

- Storage: set, get and remove are atomic, and the mutex always comes free.
- Session life: a request is let through only on a session that a callback of
  the same browser opened and that was alive when it came in; the cookie of a
  login is backed by a stored session; only expiry, a callback and the child's
  exit end a session, and for good; a login replaces the session before it.
- Login: the page a user asked for is the page the login ends at; a code is
  presented to the provider that issued it; every path releases what it
  acquired, and once; a user who does not give up gets the page.
- OP listing: every provider a trust anchor reports can be chosen, once unless
  trust anchors overlap; rows are in order and numbered by their place; the
  hinted provider is suggested; nothing written is in memory that is gone.
- Netstrings and numbers: what is encoded is decoded; what is counted is written.
- Start-up: what is marked as complete is complete and can call the library; a
  runtime in use is not rebuilt; what the code asserts of runtime and library
  holds as long as nothing has failed; the start-up comes to an end.
- Configuration: no list overruns; what a section writes is what its server
  runs with, in order and in full; only an overflow loses a configuration.
- Key loading: the buffer is not overrun; the key handed over is the key in the
  file; no copy of it stays in a buffer the module has allocated.

`PROJECT.json` lists the hazards of the code, each at its line, with the
properties that are aimed at it.

## 2. The modules

| Module | Models | Checked by | Proofs |
|---|---|---|---|
| `SessionMap` | what the handlers expect of the storage: an atomic map | `session_store` (refinement) | |
| `SessionStore` | the hash and the mutex | `session_store` | `SessionStoreProofs` |
| `AuthFlow` | authentication and callback in several children and threads | `auth_threads` | `AuthFlowProofs` |
| `LoginFlow` | a login from the first page request to the page: tabs, URLs, providers, handles | `login_flow` | `LoginFlowProofs` |
| `ProviderCalls` | the library calls of a login and the ladders of cleanups | `login_flow` | `LoginFlowProofs` |
| `Netstring`, `Numbers` | `utils.c` | `login_flow`, `op_listing` | `NetstringProofs` |
| `OpListing` | the page on which a provider is chosen | `op_listing` | `OpListingProofs` |
| `WorkerInit` | start of a child, the library, requests against its runtimes | `worker_init`, `worker_init_assert`, `worker_init_noconfig` | `WorkerInitProofs` |
| `ServerConfig` | directives and merge | `server_config`, `server_config_hint`, `server_config_login` | `ServerConfigProofs` |
| `KeyLoad` | `slurp_file`, `try_load_key_from_file` | `key_load`, `key_load_large` | `KeyLoadProofs` |

How they are composed: `SessionStore` implements `SessionMap`, so `AuthFlow`
takes each storage operation as one step. `LoginFlow` instantiates `AuthFlow`
and adds to each of its steps what the answers say; it extends `ProviderCalls`
and `Netstring`, which extends `Numbers`. `OpListing` extends `Netstring` for
the numbers of its rows.

`MC...` modules give the constants their values. Operators that are introduced
by a comment "Fault: ..." are not part of the models: they are plausible wrong
versions of the operator below them, and every property is run against the one
it is to detect.

### SessionStore

`in_memory_set`, `in_memory_get` and `in_memory_remove` have the same shape:
lock, one hash operation, unlock. The actions are `Enter`, `Lock`, `Find`,
`Apply`, `Unlock`. An `apr_hash` operation walks to an entry and then uses it,
so it is two steps; without the mutex two writers would lose an update. `seen`
is the table as the walk found it. `hash[k]` is what is stored under key `k`; a
session carries its own key (`SidOf`), and remove writes NULL.

`SessionMap` has the same calls with one instantaneous effect between call and
return. The refinement maps the effect to `Apply`: `map <- hash`, and a thread
is "done" after `Apply`.

### AuthFlow

One action for each access to shared state; everything between two accesses is
local to the thread.

| Action | Code in `oidfed_req_handler.c` |
|---|---|
| `Authenticate` | 560-573: AuthType, cookie |
| `LookUp` | 575-581: `session_storage.get` |
| `CheckExpiry` | 583-600: the clock, then the user of the session or `oidc_user` |
| `Drop` | 585-586: `session_storage.remove` |
| `Callback` | 427-448: error, missing parameters, or a code and a state |
| `Forget` | 453-455: remove the session of the cookie |
| `Resolve` | 457-494: chains, metadata, token endpoint; any may be missing |
| `Exchange` | 498-508: the code is redeemed, or not |
| `Create` | 510-521: random identifier, session object, expiry |
| `Store` | 523-540: `session_storage.set`, cookie, redirect |

A storage operation is one step here; that is what `SessionStore` shows of it.
Environment: `Deliver` (the browser takes the cookie), `Lose` (the answer does
not arrive), `ClearCookie`, `ChildExit` (the storage and the requests of a
child are gone; also what an assertion or an invalid access does), `Tick`.

Assumptions about the environment, all visible in the model: the provider
redeems a code once; a browser sends only cookies it was sent; sixteen random
characters do not repeat (`FreshSid`: the code drops the result of
`apr_generate_random_bytes` at 513, and the assumption is that it succeeds); an
allocation from the process pool is one step; the redirect URI is outside the
protected area; a child that dies on a malformed state parameter (460) is
`ChildExit`.

A callback may bring any code. Nothing in 423-501 ties the code or the state to
the browser that started the login, so a browser can come to a session for a code
that was issued to somebody else. What is said of grants is therefore said of
browsers and not of the people whose codes they bring: `GrantedToOpener` states
that a session serves the browser whose callback opened it. The field `by` of a
session records that browser; no step reads it.

The storage is asked about a session at several steps of several requests.
`OldSessionGone` says that nothing of other requests brings back a session that a
callback has removed while that callback goes on; the two action properties say
what may end a session, and that it is for good.

`IInv` is the inductive invariant. The properties alone are not inductive: that
a grant goes to the opener of a session depends on every cookie and every request
under way naming a session of its own browser (`CookiesOwned`), and that survives a
login only because a session under construction, or whose cookie is still on its
way, is known to the one thread that made it (`NewIsPrivate`). `StepsPrepared`
says what each step may rely on, `StoredExist` that the storage holds session
objects.

### LoginFlow

Every step of `LoginFlow` is a step of `AuthFlow`, or leaves its variables
alone, and says in addition where the browser's tab is, what the answer tells
it, what the provider is told and tells, and what the handler owns. A request of
`AuthFlow` here belongs to a tab. Tabs of one browser share its cookie and
nothing else: the page a login is for and the provider it is at travel in URLs.
A tab goes where the module and the providers send it, so the callbacks it brings
are its own; `AuthFlow` is more general in that, and its properties do not use it.

| Action | Code in `oidfed_req_handler.c` |
|---|---|
| `Load` | 558-573: a protected page is asked for |
| `Initiate` | 132-200 and 50-121: list of providers, or calls of the library and the redirect to the provider |
| `Callback` | 423-455: the answer of the provider |
| `AsBefore` | the steps of `oidfed_authenticate_user`, and the removal of the old session, unchanged |
| `Resolve`, `Exchange`, `Create`, `Store` | 457-540: as in `AuthFlow`, with the calls, the handles and the text of `Location` |
| `Open`, `Reload`, `Retry`, `Choose`, `Authorize`, `Refuse` | the user and the provider (external) |
| `Deliver`, `Lose`, `ClearCookie`, `ChildExit`, `Tick` | the environment, as in `AuthFlow` |

The state parameter is built and taken apart character by character
(`generate_oidc_request_state`, `Decoded`), through the netstrings of `utils.c`:
`PageReached` and `CodeGoesHome` depend on it. Everything else about a text is
its identity. `StateFor` and `Received` are the same two operators as tables.

`ProviderCalls` is the list of calls each handler makes, with what a call
acquires, what it gives when it succeeds, what is released at once when it fails,
and the label of the ladder of cleanups at which the handler then enters. The
releases of a path are a sequence: those of `construct_auth_url` and then those
from the label on. `job[w].owns` is what the request owns; a path that releases
anything else, or one thing twice, sets `wild`. Two things are never released and are the exceptions
`NothingElseKept` names: the request producer, which
`oidfedRequestProducerDestroy` would release but no line calls it (63-66 and
498), and the issuer when the request object cannot be produced (94-99, where
each other early return frees it).

`site` is what is peculiar about the server. "query": the login path was
configured with a query string, which 617 provides for but which never equals
`r->uri` (217, 603), so nobody answers. "strict": the providers compare the
redirect URI of the token request (499: a path) with that of the login (82:
entity id and path), and redeem nothing. Safety is checked at every site;
`GetsPage` is stated for sound ones.

`GetsPage` is the whole of a login as a liveness property: who asks for a page
comes to see it, if the user goes on, unless more goes wrong than `MaxFaults`.
Its precondition `EnoughCodes` bounds how often the user has to log in: once, once
more for each fault, and twice for each login of another tab of the browser,
whose callback ends this tab's session when it arrives (455) and replaces the
cookie when it is answered (527). The bound is tight: with one code less TLC
finds a run in which the tab is refused. With two children there is no bound: each
login may be stored by one child and the page asked of the other, for ever.

### OpListing

`Ask` is the library's answer for the next trust anchor, `Collect` a turn of the
loop at 277, `DestroyEntities` the one at 284, `SortAndFind` the `qsort` and the
search at 323, `WriteRow` a turn of the loop at 365. A text is its place in the
order of `strcmp`, and a pointer is a text with the memory it is in: the pool of
the request, or the answer of a trust anchor, which is destroyed before the next
one is asked. The keys of `rendered_ops` are such pointers (280 stores the
library's own). `apr_hash` compares the hash value, which is in the table's own
entry, before the key: a look-up of another provider does not touch a dead key,
a look-up of the same one may say anything (`Rendered`). That the
read itself could end the process is not modelled.

What follows is what the properties say: no provider is lost, none is repeated
within one trust anchor's answer, and one that two trust anchors report may be
listed twice. A provider with an empty name is sorted by it (239) and shown under
its identifier (375), the exception of `ShownInOrder`.

### Numbers, Netstring

`fmt_get_length` counts digits and `Digits` writes them, as in the code in two
loops; `fmt_generic` is what is then in the buffer. `decode_netstring_inplace`
returns the changed buffer with the two places the code returns as pointers. What
is no netstring yields `NullPointer` and leaves `*last` as it was. A state that
does not start with a netstring so makes the callback read behind a null pointer:
`MalformedState` in `WorkerInit`, `ChildExit` in `AuthFlow`; `LoginFlow`'s states
are those the module makes.
`strtoumax` is the C library's, for what the code gives it: no sign, no space.
`NumberedByRow` reads back with `strtoumax` what `si_fmt` has written.

### WorkerInit

`server` and `part` are where `worker_init_handler` and
`oidfed_worker_runtime_init` are: `OpenLibrary`, then `BuildPart` for each of
the thirteen parts in the code's order, or `FailPart` where the code has an
early return. `FilterFails` is the assertion on `filter_handle` in the part
"filter" (`oidfed_config.c:89`). The child then serves: requests for the module's
own URIs need `owner_pid` (the assertion at 209), requests for pages with a cookie
need the storage's function pointers, and a callback with a malformed state ends
the child (460). `abort` records why a child went down. Assertions
are active: the build files do not define `NDEBUG`. Several virtual hosts may
share a configuration (httpd gives the main server's to those without directives)
and one may have none (its merge returned NULL).

`library` and `bound` are the loader. `oidfed_worker_init` runs for every server
and its result is dropped; it may not find the library, find it only for a later
server, or find one of another version ("drifted"). Each wrapper looks its
function up at its first call and keeps the pointer, so what was once called can
be called again. Its two assertions are `CallFails` and `HandlerCallFails`.
`AssertionsHoldUntilFailure` is about these, the owner's assertion and the null
pointers of an incomplete runtime: they need a failure first. It is not about
three ways in which a child goes down: a request for a server without a
configuration, and a malformed state, which bring down a sound child, and the
filter's assertion, which is itself the failure.
`Function` stands for the generated wrappers, one for each part, and one for all
that only requests call.

### ServerConfig

`Directive` reads a directive for a server, whose configuration is created by
the first one; `Start` is httpd's merge. A text is its length. A field holds
`Size - 1` characters and a terminator, so a text of `Size` is the boundary.
`written` and `added` record what the directives said, for the properties to
compare with what the servers run with. A directive that returns an error keeps
httpd from starting (`Refuse`).

### KeyLoad

The bytes of the file are numbered, 0 is NUL, and the buffer is a function, so
every displaced or overwritten byte shows. `Read` is a turn of the loop with any
number of bytes up to what is asked for; `EndOfData` the final NUL; `Wipe` the
`explicit_bzero` after the library's call. The buffers of the model are those that
`slurp_file` allocates. The `FILE` has one of its own, through which `fread` copies
the key and which `fclose` frees without wiping; it is the C library's, is not
modelled, and `OwnBuffersWiped` says nothing of it.

## 3. What the runs show

| Run | Question | Instance | Why it is enough |
|---|---|---|---|
| `session_store` | Is the storage an atomic map? | 3 threads, 2 keys, 3 sessions of which 2 share a key | two writers and a reader of one key, and a bystander |
| `auth_threads` | Do logins and page loads keep browsers apart, do sessions end as they should and stay ended? | 1 child, 2 threads, 2 browsers, 3 codes that either may bring, 2 identifiers, session life 1, clock to 1 | every pair of handlers interleaves at every step, of the same or of two browsers, with the same or different codes, before and after expiry and the child's exit; a browser comes to a second login with the cookie of the first |
| `login_flow` | Does a login end at the page it was for? | 1 child, 2 threads, 1 browser with 2 tabs, of which one asks for a page and one follows a link of a third party; 2 providers, 5 codes, 1 fault, base 2 | two logins at different providers in every order; any call or answer may fail, the cookie or the child may go, the session may expire; with base 2 the lengths of the texts have one and two digits, and texts hold digits, colons and commas |
| `op_listing` | Is the list of providers complete, in order, and made of live memory? | 2 trust anchors that report up to 2 of 2 providers, with names missing, empty, repeated, before or after the identifiers; every hint; base 2 | overlap within an answer and between two, with any answer of a look-up in dead memory; up to four rows, so that the numbers pass two powers of the base |
| `worker_init` | Is what is marked complete complete, and able to call the library? | 4 servers: main, one sharing its configuration, one with its own, one without | sharing, independence and absence, with every choice of failures and of what the library is when it is opened |
| `server_config` | Does what is configured arrive? | main server and a virtual host, up to 4 directives, fields of 3 bytes, texts up to 4, lists of 2 (empty at first) and 3 (one default) | texts below, at and above the size; lists below, at and above the capacity, alone and joined |
| `key_load` | Is a key read and wiped? | buffer 4, files up to 14 bytes | no, one, two and three growths (4, 6, 9, 13), and sizes on both sides of each |

Several children are not in a run's instance: children share nothing, and what is
proved of `AuthFlow` is proved for any number of them.

Symmetry: in `auth_threads` identifiers, threads, browsers and codes are
interchangeable each, as nothing distinguishes one from another. `login_flow` checks a temporal property and uses none; it
takes the first free thread, the first unused identifier and the first unused code
instead, as which one it is makes no difference. In `auth_threads` a login that
finds no identifier left waits, as two are enough for the sessions of both
browsers or for two of one; in `login_flow` there are as many as codes.

The clock, the codes, the session life, the faults, the answers of a trust
anchor, the directives and the file size are bounded by `MaxTime`, `Code`, `Ttl`,
`MaxFaults`, `MaxEntities`, `MaxDirectives`, `MaxText` and `MaxFile`; a run in
which all codes are spent or all time has passed goes on with requests that are
answered. `ServerConfig` does stop, when httpd has started or refused to: its
runs do not look for deadlocks.

Runs that end in a violation, each a disagreement of the code with its own
text:

- `worker_init_assert`: the assertion that `owner_pid` matches
  (`oidfed_req_handler.c:209`) fails in a child whose runtime is incomplete:
  `oidfed_worker_runtime_init` returns early, nobody looks, the child serves.
- `worker_init_noconfig`: `oidfed_authenticate_user` would answer 500 without a
  configuration (608-610), but has read through the pointer before (568).
- `server_config_hint`: the OP hint (`oidfed_config.h:277`) is not merged.
- `server_config_login`: a login path of 256 characters passes the test at
  `oidfed_config.c:105` and is cut to 255.
- `key_load_large`: with 4096 bytes or more, `slurp_file` continues one byte too far
  after a growth: a NUL inside the key, and its last byte lost. At 4095 bytes the
  buffer grows, but nothing follows and the key is intact (`SmallKeyLoaded`).

Met on the way, without a run: the authority hints of the configuration are
never read (`oidfed_config.c:560-567` against `README.adoc:100`); the request
producer and, on one path, the issuer are not released; a login path with a query
string is accepted and never answered; two redirect URIs that differ; texts
that start with a default are never inherited by a virtual host that has a
directive of its own (`mod_oidfed.c:62`); a state parameter that does not start
with a netstring ends the child (`oidfed_req_handler.c:457-460`); a callback may
bring a code and a state of another browser's login (427-429); the result of the
random source is not looked at (513); the cookie's max-age is given in microseconds
(527), so that it outlives its session by far, which `AuthFlow` allows for: its
browsers keep a cookie for ever.

### Fairness

- `SessionStore`: weak fairness of a thread inside the critical section, which
  the kernel's scheduling gives. None for `Lock`: nothing promises a waiter its
  turn, and `MutexReleased` does not need it.
- `WorkerInit`: weak fairness of the start-up code of each child, a sequential
  program without waiting. None for requests, forks and exits.
- `LoginFlow`: weak fairness of each thread that has a request (`Serve`), which
  the kernel's scheduling gives: no step of a handler waits for another request,
  but for the mutex, which always comes free. And weak fairness of each tab
  (`Proceed`): the statement is about users who go on, choose a provider, log in
  there, and ask again when they see an error. None for opening a tab, for
  loading a page again, for refusals or for faults; the faults are bounded
  by `MaxFaults`.
- The other modules state safety only.

## 4. What is proved

Every property of the passing runs that needs no fairness is a theorem: it holds
for every value of the constants that satisfies the named assumptions of its
module (sessions have an identifier; threads a child; null values are not values;
the buffer has at least two bytes; ...). Each module of proofs
states an inductive invariant, shows it lemma by lemma for the actions, and draws
the theorems from it. An invariant was checked by TLC, on the instance of the run,
before it was proved.

- `SessionStoreProofs`: `TypesHold`, `LookupsFresh` (mutual exclusion of the
  hash operations) and `Linearizable`: the storage implements `SessionMap`. The
  invariant: who is in the critical section holds the mutex, and what it saw is
  what the hash holds.
- `AuthFlowProofs`: `Invariance` (`IInv`, checked by `auth_threads` as well),
  and from it `GrantsGoToOpeners`, `GrantsAreLive`, `WelcomesAreBacked`,
  `OldSessionsAreGone`, `LiveSessionsAreKept`, `EndedSessionsStayEnded`. The
  types (`TypesHold`) are a conjunct of `IInv`. One lemma per action;
  `GotoIInv` and `RemoveIInv` serve the actions that only move on, and those that
  take a session out.
- `NetstringProofs`: `LoopsAgree` (the digits fill the length that was counted),
  `NumberReadsBack` (what `si_fmt` wrote, `strtoumax` reads) and `EncodedDecodes`
  (a netstring is decoded to its text, wherever in a buffer it stands), for every
  base, number and text. The loops are recursive functions on the naturals. The
  library's induction takes an operator as a parameter, which no prover here
  instantiates, so induction is done over sets: the least element of the set of
  counterexamples (`LeastNatural`) is refuted. That also shows that the
  functions are defined at all.
- `LoginFlowProofs`, in two parts.
  `LoginsImplementSessions`: every behaviour of `LoginFlow` is one of `AuthFlow`.
  It makes the theorems of `AuthFlowProofs` statements about logins from end to
  end. What the steps need of the added variables is the invariant `LInv`: a tab
  at the callback carries a code; and a reply decided before the handler ends leads
  elsewhere than to a callback.
  Then what the logins add: `TypesHold`, `PagesReached`, `CodesGoHome`,
  `HandlesReleasedOnce`, `NothingElseStays`, from the invariant `FInv`. None of
  the properties is inductive. A tab is shown the right page because each URL it
  has been at since the user asked, and each answer under way to it, belongs to
  its login (`OfLogin`): it names the page, or carries a state parameter made of
  the page and of the provider the tab is at, or was at when the code was issued.
  A step of a handler says something of one tab, as a tab has one request at a
  time (`OneJobForATab`). What a handler owns is known at each step (`Held`), by
  following the two lists of calls to every place where they can end. For each of
  these the sequence of releases is shown to have no repetition
  (`ReleasedBefore`, `FailingReleases`), from the ladder having none
  (`LadderReleases`).
  `StateDecodes`, which rests on `EncodedDecodes`, says that the
  callback takes out of the state parameter what the login put in.
- `OpListingProofs`: `TypesHold`, `EveryoneOffered`, `NoRepetitionWithinAnchor`,
  `RowsNeverDangle`, `ListShownInOrder`, `HintSuggested`, `NumbersReadBack`, for any
  number of trust anchors and of providers. A key of the hash may be dead and
  its look-up say anything, so the invariant has two halves: what the hash has a
  key for is in the list (`NothingMissed`), which makes it safe to skip a provider,
  and each row of the answer being read has a live key (`RowsHaveKeys`), which
  makes it impossible to list it again. Rows are copies (`RowsCopied`), so
  destroying an answer leaves them alone; sorting keeps the rows and orders them
  (`Sorted`).
- `WorkerInitProofs`: `TypesHold`, `OwnedRuntimesComplete`, `OwnedRuntimesCall`,
  `AssertionsHoldInSoundChildren`, `RuntimesBuiltOnce`, and `RequestsFindTheirRuntime`: what
  the assertion of `oidfed_req_handler` claims does hold in a child in which nothing
  has failed. The invariant: the runtime under construction has the parts before
  the current one (`UnderConstruction`), one with an owner has all
  (`Completed`), the functions their building called are bound (`LibraryKnown`);
  and unless something has failed, no other runtime is partial
  (`AllOrNothing`) and the servers visited so far have theirs (`VisitedOwned`),
  which is what sharing a configuration could break.
- `ServerConfigProofs`: `TypesHold`, `ListsFit`, `OwnTextKept`, `ItemsSurviveMerge`,
  `OnlyOverflowLoses`, for any capacities and any number of virtual hosts and
  directives. The invariant relates each configuration to the directives of its
  section (`OwnAsWritten`, `UntouchedIsFresh`) and each running server to the
  two it was merged from (`RunsMerged`).
- `KeyLoadProofs`: `TypesHold`, `BufferNotOverrun`, `ReadingGoesOn`,
  `OwnBuffersAreWiped`, `SmallKeysAreLoaded`, from an invariant in three parts: the loop's sizes, where
  bytes of the key can be, and what the first buffer holds.

Assumptions worth a second look. `TextAssumption`: the pages and providers of a
login are texts without a NUL, which is what a `char*` can hold, and none is the
value `None` for a missing parameter. `NulAssumption`: NUL is no digit.
`MaxFaultsAssumption`: one fault at least is allowed for, because a peculiar `site`
counts as one. `NoJobAssumption`: the value for no job is not one. Characters are
not interpreted otherwise: a page may consist of digits and colons.

Only model-checked: what needs fairness (`MutexReleased`, `StartsUp`, `GetsPage`),
which is out of the prover's reach.

## 5. What is not modelled

- The Go library: external; its calls are nondeterministic outcomes.
- The entity statement (396-421): one call of the library, and a loop that writes
  what it returned, in one piece below two gigabytes.
- The script that generates the wrappers; and the closing of the library, which
  happens when a process ends, in the order in which httpd destroys its pools.
- Allocation from the process pool by several threads: APR gives no meaning to it.
- `si_fmt` below zero, which no caller uses, and the error codes of the netstring
  decoder, which no caller looks at.
- The HTML around the rows, the CSS, log messages, build files.
  `OidfedWrapperLazyLoadSymbols` selects a flag of dlopen.

## 6. Plan

Done: the storage, session life, login from end to end, OP listing, netstrings and
numbers, start-up and loader, configuration, key loading; the proofs above.

To add, in this order:

1. `AuthFlow`'s theorems as corollaries about `LoginFlow`, through
   `LoginsImplementSessions`: in its own words, that the page a tab is shown was
   granted on a live session that a callback of its own browser opened.
2. What `KeyLoad` hands over when a file outgrows the first buffer: which bytes
   of the key are lost, as a theorem that bounds the finding of `key_load_large`.
3. `Merged` by itself: that merging is neutral for an empty configuration and
   where it is not, which bounds the finding of `server_config_hint`.
