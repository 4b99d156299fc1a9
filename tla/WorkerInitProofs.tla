-------------------------- MODULE WorkerInitProofs --------------------------
(***************************************************************************)
(* WorkerInit for any number of children, any server list and any sharing  *)
(* of configurations: what is marked as complete is complete and can call  *)
(* the library, what the code asserts holds until something fails, and a   *)
(* runtime is built once.                                                  *)
(***************************************************************************)
EXTENDS WorkerInit, TLAPS

ConfigAt(i) == ConfigOf[Servers[i]]

\* The parts that come before the one with index i.
PartsBefore(i) == {Parts[j] : j \in 1 .. i - 1}

\* Parts whose building calls the library whenever it succeeds.
CallsFor(parts) == {p \in parts : NeedsLibrary(p) /\ p # "anchors"}

\* A runtime under construction has the parts before the next one, and what
\* they called is looked up.
UnderConstruction(c) ==
    phase[c] = "init" /\ part[c] > 0 =>
        /\ server[c] <= Len(Servers) /\ Current(c) # NoConfig
        /\ runtime[c][Current(c)] = PartsBefore(part[c])
        /\ CallsFor(PartsBefore(part[c])) \subseteq bound[c]

\* So does a runtime that has an owner, of all parts.
Completed(c) ==
    \A f \in Config : "owner" \in runtime[c][f] =>
        runtime[c][f] = Part /\ CallsFor(Part) \subseteq bound[c]

\* Only an open library has functions to look up, and a child whose library was
\* looked for and is not as it should be has failed.
LibraryKnown(c) ==
    /\ bound[c] # {} => library[c] # "closed"
    /\ library[c] = "drifted" => failed[c]
    /\ phase[c] = "init" /\ part[c] > 0 /\ library[c] = "closed" => failed[c]

\* Runtimes are complete but for the one under construction.
AllOrNothing(c) ==
    \A f \in Config :
        \/ runtime[c][f] = {}
        \/ "owner" \in runtime[c][f]
        \/ phase[c] = "init" /\ part[c] > 0 /\ f = Current(c)

\* The servers that were visited have a runtime, of all parts.
VisitedOwned(c) ==
    \A i \in 1 .. server[c] - 1 :
        ConfigAt(i) # NoConfig => "owner" \in runtime[c][ConfigAt(i)]

\* Both hold as long as nothing has failed.
SoundUntilFailure(c) ==
    phase[c] # "down" /\ ~failed[c] => AllOrNothing(c) /\ VisitedOwned(c)

\* A child serves after its last server, and requests are for servers of the list.
Served(c) ==
    /\ phase[c] = "serving" => server[c] = Len(Servers) + 1
    /\ request[c] # NoRequest => \E i \in 1 .. Len(Servers) : request[c].config = ConfigAt(i)

ChildInv(c) ==
    /\ UnderConstruction(c) /\ Completed(c) /\ LibraryKnown(c)
    /\ SoundUntilFailure(c) /\ Served(c)
    /\ abort[c] \in {"library", "partialRuntime"} => failed[c]

\* The inductive invariant.
IInv == TypeOK /\ \A c \in Child : ChildInv(c)
-----------------------------------------------------------------------------
\* The order of the parts: the owner comes last, and nothing else is the owner.
LEMMA PartsFacts ==
  /\ Len(Parts) = 13
  /\ \A i \in 1 .. 13 : Parts[i] \in Part
  /\ Parts[1] = "allocated" /\ Parts[13] = "owner"
  /\ \A i \in 1 .. 12 : Parts[i] # "owner"
  /\ \A i \in 2 .. 13 : Parts[i] # "allocated"
  /\ {"sessionStorage", "owner", "collector"} \subseteq Part
  /\ \A p \in MayFail : p \in Part /\ NeedsLibrary(p)
  BY DEF Parts, Part, MayFail, NeedsLibrary

\* What is made before each part, and after the last one.
LEMMA PartsBeforeFacts ==
  /\ PartsBefore(1) = {}
  /\ PartsBefore(14) = Part
  /\ \A i \in 1 .. 13 :
        /\ PartsBefore(i + 1) = PartsBefore(i) \union {Parts[i]}
        /\ PartsBefore(i) \subseteq Part
        /\ "owner" \notin PartsBefore(i)
        /\ i > 1 => "allocated" \in PartsBefore(i)
  <1> USE PartsFacts
  <1>1. PartsBefore(1) = {}
    BY DEF PartsBefore
  <1>2. PartsBefore(14) = Part
    BY DEF PartsBefore, Part
  <1>3. ASSUME NEW i \in 1 .. 13
        PROVE  PartsBefore(i + 1) = PartsBefore(i) \union {Parts[i]}
    <2>1. 1 .. (i + 1) - 1 = (1 .. i - 1) \union {i}
      OBVIOUS
    <2> QED BY <2>1, Zenon DEF PartsBefore
  <1>4. ASSUME NEW i \in 1 .. 13
        PROVE  /\ PartsBefore(i) \subseteq Part
               /\ "owner" \notin PartsBefore(i)
               /\ i > 1 => "allocated" \in PartsBefore(i)
    BY DEF PartsBefore
  <1> QED BY <1>1, <1>2, <1>3, <1>4

\* The server list names configurations.
LEMMA ServersFacts ==
  /\ Len(Servers) \in Nat \ {0}
  /\ \A i \in 1 .. Len(Servers) : ConfigAt(i) \in Config \union {NoConfig}
  BY ServersAssumption, ConfigOfAssumption DEF ConfigAt

\* What a child does leaves the others alone.
LEMMA OtherChildren ==
  ASSUME NEW c \in Child, NEW d \in Child, ChildInv(d),
         phase'[d] = phase[d], server'[d] = server[d], part'[d] = part[d],
         library'[d] = library[d], bound'[d] = bound[d], runtime'[d] = runtime[d],
         request'[d] = request[d], failed'[d] = failed[d], abort'[d] = abort[d]
  PROVE  ChildInv(d)'
  BY DEF ChildInv, UnderConstruction, Completed, LibraryKnown, SoundUntilFailure, Served, Current, AllOrNothing, VisitedOwned

\* No child runs.
LEMMA InitIInv == Init => IInv
  BY ServersFacts, PartsFacts
  DEF Init, IInv, TypeOK, ChildInv, UnderConstruction, Completed, LibraryKnown,
      SoundUntilFailure, AllOrNothing, VisitedOwned, Served, NoRequest, Libraries, Function, Aborts

\* What a step of c leaves alone.
Others(c) ==
    \A d \in Child \ {c} :
        /\ phase'[d] = phase[d] /\ server'[d] = server[d] /\ part'[d] = part[d]
        /\ library'[d] = library[d] /\ bound'[d] = bound[d] /\ runtime'[d] = runtime[d]
        /\ request'[d] = request[d] /\ failed'[d] = failed[d] /\ abort'[d] = abort[d]

\* A step of one child that keeps its invariant keeps that of all.
LEMMA OneChild ==
  ASSUME IInv, TypeOK', NEW c \in Child, ChildInv(c)', Others(c)
  PROVE  IInv'
  BY OtherChildren DEF IInv, Others

\* Going on to the next server stays among the servers.
LEMMA NextServerTypes ==
  ASSUME TypeOK, NEW c \in Child, server[c] \in 1 .. Len(Servers), NextServer(c)
  PROVE  server' \in [Child -> 1 .. Len(Servers) + 1] /\ part' \in [Child -> 0 .. Len(Parts)]
  BY ServersFacts, PartsFacts DEF TypeOK, NextServer, Following

\* Going on to the next server leaves a visited server behind.
LEMMA NextServerVisited ==
  ASSUME NEW c \in Child, server[c] \in 1 .. Len(Servers), server'[c] = server[c] + 1,
         VisitedOwned(c), \A f \in Config : "owner" \in runtime[c][f] => "owner" \in runtime'[c][f],
         Current(c) # NoConfig => "owner" \in runtime'[c][Current(c)]
  PROVE  VisitedOwned(c)'
  <1> SUFFICES ASSUME NEW i \in 1 .. server[c], ConfigAt(i) # NoConfig
               PROVE  "owner" \in runtime'[c][ConfigAt(i)]
    BY DEF VisitedOwned, ConfigAt
  <1>1. CASE i = server[c]
    BY <1>1 DEF Current, ConfigAt
  <1>2. CASE i # server[c]
    <2>1. i \in 1 .. server[c] - 1 /\ ConfigAt(i) \in Config
      BY <1>2, ServersFacts
    <2> QED BY <2>1 DEF VisitedOwned
  <1> QED BY <1>1, <1>2

\* What the invariant says of one child, value by value.
LEMMA ChildFacts ==
  ASSUME IInv, NEW c \in Child
  PROVE  /\ phase[c] \in {"down", "init", "serving"}
         /\ server[c] \in 1 .. Len(Servers) + 1 /\ part[c] \in 0 .. 13
         /\ library[c] \in Libraries /\ bound[c] \subseteq Function
         /\ runtime[c] \in [Config -> SUBSET Part]
         /\ request[c] \in Request \union {NoRequest} /\ failed[c] \in BOOLEAN
         /\ UnderConstruction(c) /\ Completed(c) /\ LibraryKnown(c)
         /\ SoundUntilFailure(c) /\ Served(c)
         /\ abort[c] \in {"library", "partialRuntime"} => failed[c]
         /\ AtServer(c) => server[c] \in 1 .. Len(Servers) /\ Current(c) \in Config \union {NoConfig}
  <1>1. TypeOK /\ ChildInv(c)
    BY DEF IInv
  <1>2. server[c] \in 1 .. Len(Servers) + 1
    BY <1>1 DEF TypeOK
  <1>3. AtServer(c) => server[c] \in 1 .. Len(Servers) /\ Current(c) \in Config \union {NoConfig}
    BY <1>2, ServersFacts DEF AtServer, Current, ConfigAt
  <1> QED BY <1>1, <1>3, PartsFacts DEF TypeOK, ChildInv

\* A fork starts from nothing, and an initialisation that has not begun breaks nothing.
LEMMA ForkKeeps ==
  ASSUME IInv, NEW c \in Child, Fork(c) PROVE IInv'
  <1>1. TypeOK' /\ Others(c)
    BY ServersFacts, PartsFacts DEF IInv, TypeOK, Fork, Libraries, Aborts, Others
  <1>2. ChildInv(c)'
    BY <1>1, ServersFacts DEF IInv, TypeOK, Fork, ChildInv, UnderConstruction, Completed,
       LibraryKnown, SoundUntilFailure, AllOrNothing, VisitedOwned, Served
  <1> QED BY <1>1, <1>2, OneChild

\* A child that goes down keeps the invariant when it has a reason to.
LEMMA DieKeeps ==
  ASSUME IInv, NEW c \in Child, NEW why, Die(c, why),
         why \in Aborts,
         why \in {"library", "partialRuntime"} => failed[c]
  PROVE  IInv'
  <1>1. TypeOK' /\ Others(c)
    BY DEF IInv, TypeOK, Die, Others
  <1>2. ChildInv(c)'
    BY DEF IInv, TypeOK, Die, ChildInv, UnderConstruction, Completed,
       LibraryKnown, SoundUntilFailure, AllOrNothing, VisitedOwned, Served
  <1> QED BY <1>1, <1>2, OneChild

\* A child may end at any time.
LEMMA ExitKeeps ==
  ASSUME IInv, NEW c \in Child, Exit(c) PROVE IInv'
  BY DieKeeps DEF Exit, Aborts

\* A server without a configuration is passed over.
LEMMA SkipServerKeeps ==
  ASSUME IInv, NEW c \in Child, SkipServer(c) PROVE IInv'
  <1> USE DEF SkipServer, NextServer, Following
  <1>1. TypeOK' /\ Others(c)
    BY ChildFacts, ServersFacts DEF IInv, TypeOK, AtServer, Others
  <1>2. server'[c] = server[c] + 1 /\ part'[c] = 0 /\ part[c] = 0
    BY ChildFacts DEF IInv, TypeOK, UnderConstruction, AtServer
  <1>3. UnderConstruction(c)' /\ Completed(c)' /\ LibraryKnown(c)' /\ Served(c)'
    BY <1>2, ChildFacts DEF UnderConstruction, Completed, LibraryKnown, Served, AtServer
  <1>4. SoundUntilFailure(c)'
    BY <1>2, ChildFacts, NextServerVisited DEF AllOrNothing, SoundUntilFailure, AtServer
  <1>5. ChildInv(c)'
    BY <1>3, <1>4, ChildFacts DEF ChildInv
  <1> QED BY <1>1, <1>5, OneChild

\* The library is opened, and the runtime of the server begun unless it is there.
LEMMA OpenLibraryKeeps ==
  ASSUME IInv, NEW c \in Child, OpenLibrary(c) PROVE IInv'
  <1>0. PICK found \in Libraries :
           /\ library[c] # "closed" => found \in {"closed", library[c]}
           /\ library' = [library EXCEPT ![c] = HandleAfter(@, found)]
           /\ failed' = [failed EXCEPT ![c] = @ \/ found # "whole"]
    BY ChildFacts DEF OpenLibrary, Libraries
  <1>1. /\ phase[c] = "init" /\ part[c] = 0
        /\ Current(c) \in Config /\ server[c] \in 1 .. Len(Servers)
        /\ library'[c] = HandleAfter(library[c], found)
        /\ failed'[c] = (failed[c] \/ found # "whole")
    BY <1>0, ChildFacts DEF IInv, TypeOK, OpenLibrary, AtServer
  <1>2. TypeOK'
    <2>1. library' \in [Child -> Libraries]
      BY <1>0 DEF IInv, TypeOK, HandleAfter
    <2>2. failed' \in [Child -> BOOLEAN]
      BY <1>0 DEF IInv, TypeOK
    <2>3. server' \in [Child -> 1 .. Len(Servers) + 1] /\ part' \in [Child -> 0 .. Len(Parts)]
      <3>1. CASE NextServer(c)
        BY <1>1, <3>1, NextServerTypes DEF IInv
      <3>2. CASE part' = [part EXCEPT ![c] = 1] /\ UNCHANGED server
        BY <3>2, PartsFacts DEF IInv, TypeOK
      <3> QED BY <3>1, <3>2 DEF OpenLibrary
    <2> QED BY <2>1, <2>2, <2>3 DEF IInv, TypeOK, OpenLibrary
  <1>3. Others(c)
    BY <1>0 DEF IInv, TypeOK, OpenLibrary, NextServer, Following, Others
  <1>4. LibraryKnown(c)'
    BY <1>0, <1>1, ChildFacts DEF LibraryKnown, HandleAfter, Libraries, OpenLibrary
  <1>5. CASE AlreadyBuilt(Current(c), c)
    <2>1. server'[c] = server[c] + 1 /\ part'[c] = 0
      BY <1>5 DEF IInv, TypeOK, OpenLibrary, NextServer, Following
    <2>2. SoundUntilFailure(c)'
      <3> SUFFICES ASSUME ~failed'[c] PROVE AllOrNothing(c)' /\ VisitedOwned(c)'
        BY DEF SoundUntilFailure
      <3>1. AllOrNothing(c) /\ VisitedOwned(c)
        BY <1>1, ChildFacts DEF SoundUntilFailure
      <3>2. "owner" \in runtime[c][Current(c)]
        BY <1>1, <1>5, <3>1 DEF AllOrNothing, AlreadyBuilt
      <3> QED BY <1>1, <2>1, <3>1, <3>2, NextServerVisited DEF AllOrNothing, OpenLibrary
    <2>3. UnderConstruction(c)' /\ Completed(c)' /\ Served(c)'
      BY <1>1, <2>1, ChildFacts DEF UnderConstruction, Completed, Served, OpenLibrary
    <2> QED BY <1>1, <1>2, <1>3, <1>4, <2>2, <2>3, ChildFacts, OneChild DEF ChildInv, OpenLibrary
  <1>6. CASE ~AlreadyBuilt(Current(c), c)
    <2>1. server' = server /\ part'[c] = 1 /\ runtime[c][Current(c)] = {}
      BY <1>6 DEF IInv, TypeOK, OpenLibrary, AlreadyBuilt
    <2>2. SoundUntilFailure(c)'
      BY <1>1, <2>1, ChildFacts DEF Current, SoundUntilFailure, AllOrNothing, VisitedOwned, OpenLibrary
    <2>3. UnderConstruction(c)' /\ Completed(c)' /\ Served(c)'
      BY <1>1, <2>1, ChildFacts, PartsBeforeFacts
      DEF UnderConstruction, Completed, Served, OpenLibrary, CallsFor, Current
    <2> QED BY <1>1, <1>2, <1>3, <1>4, <2>2, <2>3, ChildFacts, OneChild DEF ChildInv, OpenLibrary
  <1> QED BY <1>5, <1>6

\* A part that is built is the next one of its runtime, and what it called is
\* looked up.  The last one completes the runtime.
LEMMA BuildPartKeeps ==
  ASSUME IInv, NEW c \in Child, BuildPart(c) PROVE IInv'
  <1> DEFINE p == Parts[part[c]]
  <1> DEFINE f == Current(c)
  <1>1. /\ phase[c] = "init" /\ part[c] \in 1 .. 13 /\ p \in Part
        /\ f \in Config /\ server[c] \in 1 .. Len(Servers)
        /\ runtime[c][f] = PartsBefore(part[c])
        /\ CallsFor(PartsBefore(part[c])) \subseteq bound[c]
    <2>1. part[c] \in 1 .. 13 /\ phase[c] = "init" /\ f \in Config /\ server[c] \in 1 .. Len(Servers)
      BY ChildFacts DEF BuildPart, Building, AtServer
    <2> QED BY <2>1, ChildFacts, PartsFacts DEF UnderConstruction
  <1>2. /\ bound' = [bound EXCEPT ![c] = @ \union {p}] \/ bound' = bound
        /\ bound' = bound => ~NeedsLibrary(p) \/ p = "anchors" \/ p \in bound[c]
        /\ bound' # bound => NeedsLibrary(p) /\ CanCall(c, p)
    BY DEF BuildPart, PartAt, Bind, IInv, TypeOK
  <1>3. /\ bound[c] \subseteq bound'[c] /\ bound'[c] \subseteq bound[c] \union {p}
        /\ CallsFor({p}) \subseteq bound'[c]
        /\ bound' \in [Child -> SUBSET Function]
    <2>1. CASE bound' = bound
      BY <1>2, <2>1 DEF IInv, TypeOK, CallsFor
    <2>2. CASE bound' # bound
      <3>1. bound' = [bound EXCEPT ![c] = @ \union {p}] /\ p \in Function
        BY <1>1, <1>2, <2>2 DEF Function
      <3>2. bound \in [Child -> SUBSET Function]
        BY DEF IInv, TypeOK
      <3> QED BY <3>1, <3>2 DEF CallsFor
    <2> QED BY <2>1, <2>2
  <1>4. With(PartsBefore(part[c]), p) = PartsBefore(part[c] + 1)
    <2>1. CASE part[c] = 1
      BY <2>1, PartsFacts, PartsBeforeFacts DEF With
    <2>2. CASE part[c] # 1
      <3>1. p # "allocated"
        BY <1>1, <2>2, PartsFacts
      <3> QED BY <1>1, <3>1, PartsBeforeFacts DEF With
    <2> QED BY <2>1, <2>2
  <1>5. /\ runtime' = [runtime EXCEPT ![c][f] = PartsBefore(part[c] + 1)]
        /\ runtime'[c] = [runtime[c] EXCEPT ![f] = PartsBefore(part[c] + 1)]
    BY <1>1, <1>4 DEF BuildPart, PartAt, IInv, TypeOK
  <1>6. CallsFor(PartsBefore(part[c] + 1)) \subseteq bound'[c]
    BY <1>1, <1>3, PartsBeforeFacts DEF CallsFor
  <1>7. PartsBefore(part[c] + 1) \subseteq Part
    BY <1>1, PartsBeforeFacts
  <1>8. TypeOK'
    <2>1. runtime' \in [Child -> [Config -> SUBSET Part]]
      BY <1>1, <1>5, <1>7 DEF IInv, TypeOK
    <2>2. server' \in [Child -> 1 .. Len(Servers) + 1] /\ part' \in [Child -> 0 .. Len(Parts)]
      <3>1. CASE LastPart(c)
        BY <1>1, <3>1, NextServerTypes DEF IInv, BuildPart
      <3>2. CASE ~LastPart(c)
        <4>1. part' = [part EXCEPT ![c] = @ + 1] /\ server' = server /\ part[c] # 13
          BY <3>2, PartsFacts DEF BuildPart, LastPart
        <4>2. part[c] + 1 \in 0 .. Len(Parts)
          BY <1>1, <4>1, PartsFacts
        <4> QED BY <4>1, <4>2 DEF IInv, TypeOK
      <3> QED BY <3>1, <3>2
    <2> QED BY <1>3, <2>1, <2>2 DEF IInv, TypeOK, BuildPart
  <1>9. Others(c)
    BY <1>2, <1>5 DEF IInv, TypeOK, BuildPart, NextServer, Others
  <1>10. LibraryKnown(c)'
    BY <1>1, <1>2, <1>3, ChildFacts DEF LibraryKnown, CanCall, BuildPart
  <1>11. CASE LastPart(c)
    <2>1. server'[c] = server[c] + 1 /\ part'[c] = 0 /\ runtime'[c][f] = Part
      BY <1>1, <1>5, <1>11, PartsFacts, PartsBeforeFacts, ChildFacts
      DEF IInv, TypeOK, BuildPart, LastPart, NextServer, Following
    <2>2. \A g \in Config : runtime'[c][g] = runtime[c][g] \/ g = f
      BY <1>1, <1>5, ChildFacts
    <2>3. Completed(c)'
      <3>1. CallsFor(Part) \subseteq bound'[c]
        BY <1>6, <1>11, PartsFacts, PartsBeforeFacts DEF LastPart
      <3> QED BY <1>1, <1>3, <2>1, <2>2, <3>1, ChildFacts DEF Completed
    <2>4. SoundUntilFailure(c)'
      <3> SUFFICES ASSUME ~failed'[c] PROVE AllOrNothing(c)' /\ VisitedOwned(c)'
        BY DEF SoundUntilFailure
      <3>1. AllOrNothing(c) /\ VisitedOwned(c)
        BY <1>1, ChildFacts DEF SoundUntilFailure, BuildPart
      <3>2. "owner" \in runtime'[c][f]
        BY <2>1, PartsFacts
      <3>3. VisitedOwned(c)'
        BY <1>1, <2>1, <2>2, <3>1, <3>2, NextServerVisited
      <3> QED BY <2>2, <3>1, <3>2, <3>3 DEF AllOrNothing
    <2>5. UnderConstruction(c)' /\ Served(c)'
      BY <1>1, <2>1, ChildFacts DEF UnderConstruction, Served, BuildPart
    <2> QED BY <1>8, <1>9, <1>10, <2>3, <2>4, <2>5, ChildFacts, OneChild DEF ChildInv, BuildPart
  <1>12. CASE ~LastPart(c)
    <2>1. server' = server /\ part'[c] = part[c] + 1 /\ part[c] < 13 /\ Current(c)' = f
      BY <1>1, <1>12, PartsFacts DEF IInv, TypeOK, BuildPart, LastPart, Current
    <2>2. /\ runtime'[c][f] = PartsBefore(part[c] + 1) /\ "owner" \notin runtime'[c][f]
          /\ \A g \in Config : runtime'[c][g] = runtime[c][g] \/ g = f
      <3>1. runtime[c] \in [Config -> SUBSET Part] /\ f \in Config
        BY <1>1, ChildFacts
      <3>2. /\ runtime'[c][f] = PartsBefore(part[c] + 1)
            /\ \A g \in Config : runtime'[c][g] = runtime[c][g] \/ g = f
        BY <1>5, <3>1
      <3>3. part[c] + 1 \in 1 .. 13
        BY <1>1, <2>1
      <3>4. "owner" \notin PartsBefore(part[c] + 1)
        BY <3>3, PartsBeforeFacts
      <3> QED BY <3>2, <3>4
    <2>3. Completed(c)' /\ UnderConstruction(c)' /\ Served(c)'
      BY <1>1, <1>3, <1>6, <2>1, <2>2, ChildFacts DEF Completed, UnderConstruction, Served, BuildPart
    <2>4. SoundUntilFailure(c)'
      <3> SUFFICES ASSUME ~failed'[c] PROVE AllOrNothing(c)' /\ VisitedOwned(c)'
        BY DEF SoundUntilFailure
      <3>1. AllOrNothing(c) /\ VisitedOwned(c)
        BY <1>1, ChildFacts DEF SoundUntilFailure, BuildPart
      <3>2. AllOrNothing(c)'
        BY <1>1, <2>1, <2>2, <3>1 DEF AllOrNothing, BuildPart
      <3>3. "owner" \notin runtime[c][f]
        BY <1>1, PartsBeforeFacts
      <3>4. VisitedOwned(c)'
        <4> SUFFICES ASSUME NEW i \in 1 .. server[c] - 1, ConfigAt(i) # NoConfig
                     PROVE  "owner" \in runtime'[c][ConfigAt(i)]
          BY <2>1 DEF VisitedOwned, ConfigAt
        <4>1. "owner" \in runtime[c][ConfigAt(i)]
          BY <3>1 DEF VisitedOwned
        <4>2. ConfigAt(i) \in Config
          BY <1>1, ServersFacts
        <4> QED BY <2>2, <3>3, <4>1, <4>2
      <3> QED BY <3>2, <3>4
    <2> QED BY <1>8, <1>9, <1>10, <2>3, <2>4, ChildFacts, OneChild DEF ChildInv, BuildPart
  <1> QED BY <1>11, <1>12

\* A part that fails leaves a runtime without an owner, and a child that has failed.
LEMMA FailPartKeeps ==
  ASSUME IInv, NEW c \in Child, FailPart(c) PROVE IInv'
  <1> DEFINE p == Parts[part[c]]
  <1>1. /\ phase[c] = "init" /\ server[c] \in 1 .. Len(Servers) /\ p \in Function
        /\ failed' = [failed EXCEPT ![c] = TRUE] /\ NextServer(c)
    BY ChildFacts, PartsFacts DEF FailPart, Building, AtServer, PartAt, Function
  <1>2. /\ bound' = [bound EXCEPT ![c] = @ \union {p}] /\ CanCall(c, p)
        \/ bound' = bound
    BY DEF FailPart, PartAt, Bind
  <1>3. bound[c] \subseteq bound'[c] /\ bound' \in [Child -> SUBSET Function]
    <2>1. p \in Function /\ bound \in [Child -> SUBSET Function]
      BY <1>1 DEF IInv, TypeOK
    <2> QED BY <1>2, <2>1
  <1>4. TypeOK'
    BY <1>1, <1>3, NextServerTypes DEF IInv, TypeOK, FailPart
  <1>5. Others(c)
    BY <1>1, <1>2 DEF IInv, TypeOK, FailPart, NextServer, Others
  <1>6. failed'[c] /\ part'[c] = 0
    BY <1>1 DEF IInv, TypeOK, NextServer
  <1>7. LibraryKnown(c)'
    BY <1>2, <1>6, ChildFacts DEF LibraryKnown, CanCall, FailPart
  <1>8. UnderConstruction(c)' /\ Completed(c)' /\ SoundUntilFailure(c)' /\ Served(c)'
    BY <1>1, <1>3, <1>6, ChildFacts
    DEF UnderConstruction, Completed, SoundUntilFailure, Served, FailPart
  <1> QED BY <1>4, <1>5, <1>6, <1>7, <1>8, ChildFacts, OneChild DEF ChildInv, FailPart

\* The loader's assertions only fail in a child whose library was not as it should be.
LEMMA CallFailsKeeps ==
  ASSUME IInv, NEW c \in Child, CallFails(c) PROVE IInv'
  <1>1. phase[c] = "init" /\ part[c] > 0 /\ library[c] # "whole"
    BY DEF CallFails, Building, AtServer, CallMayFail
  <1>2. failed[c]
    BY <1>1, ChildFacts DEF LibraryKnown, Libraries
  <1> QED BY <1>2, DieKeeps DEF CallFails, Aborts

\* A filter the library does not make ends the child.
LEMMA FilterFailsKeeps ==
  ASSUME IInv, NEW c \in Child, FilterFails(c) PROVE IInv'
  BY DieKeeps DEF FilterFails, Aborts

\* The walk has come to the end of the server list.
LEMMA StartServingKeeps ==
  ASSUME IInv, NEW c \in Child, StartServing(c) PROVE IInv'
  <1>1. TypeOK' /\ Others(c) /\ phase[c] = "init" /\ phase'[c] = "serving"
    BY DEF IInv, TypeOK, StartServing, Others
  <1>2. server[c] = Len(Servers) + 1 /\ part[c] = 0
    BY <1>1, ChildFacts, ServersFacts DEF StartServing, AfterLastServer, UnderConstruction
  <1>3. SoundUntilFailure(c)'
    BY <1>1, <1>2, ChildFacts DEF SoundUntilFailure, AllOrNothing, VisitedOwned, StartServing
  <1>4. UnderConstruction(c)' /\ Completed(c)' /\ LibraryKnown(c)' /\ Served(c)'
    BY <1>1, <1>2, ChildFacts DEF UnderConstruction, Completed, LibraryKnown, Served, StartServing
  <1> QED BY <1>1, <1>3, <1>4, ChildFacts, OneChild DEF ChildInv, StartServing

\* A request is for a server of the list.
LEMMA ReceiveKeeps ==
  ASSUME IInv, NEW c \in Child, Receive(c) PROVE IInv'
  <1>1. PICK i \in 1 .. Len(Servers), k \in Kinds :
          request' = [request EXCEPT ![c] = [kind |-> k, config |-> ConfigAt(i)]]
    BY DEF Receive, ConfigAt
  <1>2. TypeOK' /\ Others(c)
    BY <1>1, ServersFacts DEF IInv, TypeOK, Receive, Request, Others
  <1>3. request'[c].config = ConfigAt(i)
    BY <1>1 DEF IInv, TypeOK
  <1>4. ChildInv(c)'
    BY <1>3, ChildFacts DEF ChildInv, UnderConstruction, Completed, LibraryKnown,
       SoundUntilFailure, AllOrNothing, VisitedOwned, Current, Served, ConfigAt, Receive
  <1> QED BY <1>2, <1>4, OneChild

\* A request for a server without configuration ends the child.
LEMMA WithoutConfigKeeps ==
  ASSUME IInv, NEW c \in Child, WithoutConfig(c) PROVE IInv'
  BY DieKeeps DEF WithoutConfig, Aborts

\* A malformed state ends it, too.
LEMMA MalformedStateKeeps ==
  ASSUME IInv, NEW c \in Child, MalformedState(c) PROVE IInv'
  BY DieKeeps DEF MalformedState, Aborts

\* What a request for a configuration finds.
LEMMA DecidingFacts ==
  ASSUME IInv, NEW c \in Child, Deciding(c), request[c].config # NoConfig
  PROVE  /\ request[c].config \in Config /\ request[c].kind \in Kinds
         /\ ~failed[c] => Runtime(c) = Part
         /\ "owner" \in Runtime(c) => library[c] # "closed"
  <1>1. /\ phase[c] = "serving" /\ server[c] = Len(Servers) + 1
        /\ request[c].config \in Config /\ request[c].kind \in Kinds
    BY ChildFacts DEF Deciding, Request, Served
  <1>2. PICK i \in 1 .. Len(Servers) : request[c].config = ConfigAt(i)
    BY ChildFacts DEF Deciding, Served
  <1>3. ~failed[c] => "owner" \in Runtime(c)
    BY <1>1, <1>2, ChildFacts DEF SoundUntilFailure, VisitedOwned, Runtime
  <1>4. "owner" \in Runtime(c) => Runtime(c) = Part /\ CallsFor(Part) \subseteq bound[c]
    BY <1>1, ChildFacts DEF Completed, Runtime
  <1>5. "collector" \in CallsFor(Part)
    BY PartsFacts DEF CallsFor, NeedsLibrary
  <1> QED BY <1>1, <1>3, <1>4, <1>5, ChildFacts DEF LibraryKnown

\* A request is answered; its first call of the library may bind the function.
LEMMA AnswerKeeps ==
  ASSUME IInv, NEW c \in Child, Answer(c) PROVE IInv'
  <1>1. \/ bound' = bound
        \/ bound' = [bound EXCEPT ![c] = @ \union {"handler"}] /\ CanCall(c, "handler")
    BY DEF Answer, Bind
  <1>2. bound[c] \subseteq bound'[c] /\ bound' \in [Child -> SUBSET Function]
    <2>1. "handler" \in Function /\ bound \in [Child -> SUBSET Function]
      BY DEF IInv, TypeOK, Function
    <2> QED BY <1>1, <2>1
  <1>3. TypeOK' /\ Others(c) /\ request'[c] = NoRequest
    BY <1>1, <1>2 DEF IInv, TypeOK, Answer, Others
  <1>4. LibraryKnown(c)'
    BY <1>1, ChildFacts DEF LibraryKnown, CanCall, Answer
  <1>5. ChildInv(c)'
    BY <1>2, <1>3, <1>4, ChildFacts DEF ChildInv, UnderConstruction, Completed,
       SoundUntilFailure, AllOrNothing, VisitedOwned, Current, Served, Answer
  <1> QED BY <1>3, <1>5, OneChild

\* A runtime that lacks what the request needs is one whose child has failed.
LEMMA WithoutRuntimeKeeps ==
  ASSUME IInv, NEW c \in Child, WithoutRuntime(c) PROVE IInv'
  <1>1. failed[c]
    BY DecidingFacts, PartsFacts DEF WithoutRuntime, Needs, Kinds, OwnKinds
  <1> QED BY <1>1, DieKeeps DEF WithoutRuntime, Aborts

\* So is a library that lacks a function a handler calls.
LEMMA HandlerCallFailsKeeps ==
  ASSUME IInv, NEW c \in Child, HandlerCallFails(c) PROVE IInv'
  <1>1. library[c] = "drifted"
    BY DecidingFacts, ChildFacts DEF HandlerCallFails, CallsLibrary, Needs, OwnKinds, CallMayFail, Libraries
  <1>2. failed[c]
    BY <1>1, ChildFacts DEF LibraryKnown
  <1> QED BY <1>2, DieKeeps DEF HandlerCallFails, Aborts

\* Every step keeps the inductive invariant.
LEMMA NextIInv == IInv /\ [Next]_vars => IInv'
  <1> SUFFICES ASSUME IInv, [Next]_vars PROVE IInv'
    OBVIOUS
  <1>1. CASE Next
    <2>1. PICK c \in Child : Fork(c) \/ Exit(c) \/ InitStep(c) \/ ServeStep(c)
      BY <1>1 DEF Next
    <2>2. CASE Fork(c) \/ Exit(c)
      BY <2>2, ForkKeeps, ExitKeeps
    <2>3. CASE InitStep(c)
      BY <2>3, SkipServerKeeps, OpenLibraryKeeps, BuildPartKeeps, FailPartKeeps,
         FilterFailsKeeps, CallFailsKeeps, StartServingKeeps DEF InitStep
    <2>4. CASE ServeStep(c)
      BY <2>4, ReceiveKeeps, WithoutConfigKeeps, AnswerKeeps, MalformedStateKeeps,
         WithoutRuntimeKeeps, HandlerCallFailsKeeps DEF ServeStep
    <2> QED BY <2>1, <2>2, <2>3, <2>4
  <1>2. CASE UNCHANGED vars
    BY <1>2 DEF vars, IInv, TypeOK, ChildInv, UnderConstruction, Completed, LibraryKnown,
       SoundUntilFailure, AllOrNothing, VisitedOwned, Served, Current
  <1> QED BY <1>1, <1>2

\* The inductive invariant holds in every reachable state.
LEMMA Invariance == Spec => []IInv
  BY InitIInv, NextIInv, PTL DEF Spec
-----------------------------------------------------------------------------
\* The variables keep their types.
THEOREM TypesHold == Spec => []TypeOK
  <1>1. IInv => TypeOK
    BY DEF IInv
  <1> QED BY <1>1, Invariance, PTL

\* A runtime with the owner's process identifier has every other part.
THEOREM OwnedRuntimesComplete == Spec => []OwnedIsComplete
  <1>1. IInv => OwnedIsComplete
    BY DEF IInv, ChildInv, Completed, OwnedIsComplete
  <1> QED BY <1>1, Invariance, PTL

\* Such a runtime is in a child with an open library, in which what its
\* building called has been looked up.
THEOREM OwnedRuntimesCall == Spec => []OwnedCanCall
  <1>1. IInv => OwnedCanCall
    <2> SUFFICES ASSUME IInv, NEW c \in Child, NEW f \in Config, "owner" \in runtime[c][f]
                 PROVE  library[c] # "closed" /\ Function \ {"anchors", "handler"} \subseteq bound[c]
      BY DEF OwnedCanCall
    <2>1. CallsFor(Part) \subseteq bound[c]
      BY ChildFacts DEF Completed
    <2>2. "collector" \in CallsFor(Part) /\ Function \ {"anchors", "handler"} \subseteq CallsFor(Part)
      BY PartsFacts DEF CallsFor, NeedsLibrary, Function
    <2> QED BY <2>1, <2>2, ChildFacts DEF LibraryKnown
  <1> QED BY <1>1, Invariance, PTL

\* Neither the loader's assertions nor the owner's fail, and no pointer into a
\* runtime is missing, in a child in which nothing failed before: no part of its
\* start-up, and nothing of the library.
THEOREM AssertionsHoldInSoundChildren == Spec => []AssertionsHoldUntilFailure
  <1>1. IInv => AssertionsHoldUntilFailure
    BY DEF IInv, ChildInv, AssertionsHoldUntilFailure
  <1> QED BY <1>1, Invariance, PTL

\* What the assertion at the top of oidfed_req_handler relies on: unless
\* something failed in the child, a request for a server with a configuration
\* finds the whole runtime.
THEOREM RequestsFindTheirRuntime ==
  Spec => [](\A c \in Child :
                Deciding(c) /\ request[c].config # NoConfig /\ ~failed[c] => Runtime(c) = Part)
  <1>1. IInv => \A c \in Child :
                  Deciding(c) /\ request[c].config # NoConfig /\ ~failed[c] => Runtime(c) = Part
    BY DecidingFacts
  <1> QED BY <1>1, Invariance, PTL

\* No part of a runtime is taken from it while its child lives, however many
\* servers share the configuration.
THEOREM RuntimesBuiltOnce == Spec => BuiltOnce
  <1>1. ASSUME IInv, Next, NEW c \in Child, NEW f \in Config, phase[c] # "down"
        PROVE  runtime[c][f] \subseteq runtime'[c][f]
    <2>1. PICK d \in Child : Fork(d) \/ Exit(d) \/ InitStep(d) \/ ServeStep(d)
      BY <1>1 DEF Next
    <2>2. CASE Fork(d)
      BY <1>1, <2>2 DEF IInv, TypeOK, Fork
    <2>3. CASE BuildPart(d)
      <3>1. runtime' = [runtime EXCEPT ![d][Current(d)] = With(@, PartAt(part[d]))]
        BY <2>3 DEF BuildPart
      <3>2. CASE c = d /\ f = Current(d)
        <4>1. part[c] \in 1 .. 13 /\ runtime[c][f] = PartsBefore(part[c])
          BY <1>1, <2>3, <3>2, ChildFacts DEF BuildPart, Building, AtServer, UnderConstruction
        <4>2. runtime'[c][f] = With(runtime[c][f], Parts[part[c]])
          BY <1>1, <3>1, <3>2 DEF IInv, TypeOK, PartAt
        <4>3. CASE part[c] = 1
          BY <4>1, <4>3, PartsBeforeFacts
        <4>4. CASE part[c] # 1
          <5>1. Parts[part[c]] # "allocated"
            BY <4>1, <4>4, PartsFacts
          <5> QED BY <4>2, <5>1 DEF With
        <4> QED BY <4>3, <4>4
      <3>3. CASE ~(c = d /\ f = Current(d))
        BY <1>1, <3>1, <3>3 DEF IInv, TypeOK
      <3> QED BY <3>2, <3>3
    <2>4. CASE ~Fork(d) /\ ~BuildPart(d)
      <3>1. UNCHANGED runtime
        BY <2>1, <2>4 DEF Exit, Die, InitStep, SkipServer, OpenLibrary, FailPart, FilterFails,
           CallFails, StartServing, ServeStep, Receive, WithoutConfig, Answer, MalformedState,
           WithoutRuntime, HandlerCallFails
      <3> QED BY <3>1
    <2> QED BY <2>2, <2>3, <2>4
  <1>2. IInv /\ [Next]_vars =>
          [\A c \in Child, f \in Config :
              phase[c] # "down" => runtime[c][f] \subseteq runtime'[c][f]]_vars
    BY <1>1
  <1> QED BY <1>2, Invariance, PTL DEF Spec, BuiltOnce
=============================================================================
