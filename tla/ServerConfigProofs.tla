------------------------- MODULE ServerConfigProofs -------------------------
(***************************************************************************)
(* ServerConfig for any virtual hosts, any sizes of texts and lists and    *)
(* any number of directives: no array is overrun, and a server runs with   *)
(* what its own section and the main one say, or with nothing when both    *)
(* together are too much.                                                  *)
(***************************************************************************)
EXTENDS ServerConfig, SequenceTheorems, TLAPS

\* The lists of a configuration fit their arrays.
Fits(cfg) == \A l \in ListField : Len(cfg.list[l]) <= Max[l]

\* A server without a configuration of its own had no directive that changes a
\* text or a list.
UntouchedIsFresh(s) ==
    own[s] = NoConfig =>
        /\ \A f \in TextField : written[s][f] = Unwritten
        /\ \A l \in ListField : added[s][l] = <<>>

\* A server's own configuration holds what its directives wrote and added.
OwnAsWritten(s) ==
    own[s] # NoConfig =>
        /\ \A f \in Field : written[s][f] \in Text => own[s].text[f] = written[s][f]
        /\ \A l \in ListField : own[s].list[l] = DefaultList[l] \o added[s][l]
        /\ Fits(own[s])

\* A server that runs does so with the result of the merge.
RunsMerged(s) ==
    running[s] =
        IF stage # "running" THEN NoConfig
        ELSE IF s = Main \/ own[s] = NoConfig THEN Configured(Main)
        ELSE Merged(Configured(Main), own[s])

\* The inductive invariant.
IInv ==
    /\ TypeOK
    /\ \A s \in Server : UntouchedIsFresh(s) /\ OwnAsWritten(s) /\ RunsMerged(s)
-----------------------------------------------------------------------------
\* An empty configuration fits.
LEMMA FreshFacts == Fresh \in Cfg /\ Fits(Fresh)
  BY SizeAssumption, DefaultAssumption, DefaultListAssumption DEF Fresh, Cfg, Fits, TextField

\* What a directive works on: a configuration whose lists fit, with the items
\* that were added so far.
LEMMA ConfiguredFacts ==
  ASSUME IInv, NEW s \in Server
  PROVE  /\ Configured(s) \in Cfg /\ Fits(Configured(s))
         /\ \A l \in ListField : Configured(s).list[l] = DefaultList[l] \o added[s][l]
         /\ \A f \in Field : written[s][f] \in Text => Configured(s).text[f] = written[s][f]
  <1>1. CASE own[s] = NoConfig
    <2>1. \A f \in Field : written[s][f] \notin Text
      BY <1>1, SizeAssumption, TextAssumption DEF IInv, UntouchedIsFresh, Unwritten, Text, TextField
    <2>2. \A l \in ListField : DefaultList[l] \o added[s][l] = DefaultList[l]
      BY <1>1, DefaultListAssumption, ConcatEmptySeq DEF IInv, UntouchedIsFresh
    <2> QED BY <1>1, <2>1, <2>2, FreshFacts DEF Configured, Fresh
  <1>2. CASE own[s] # NoConfig
    BY <1>2 DEF IInv, TypeOK, OwnAsWritten, Configured
  <1> QED BY <1>1, <1>2

\* Nothing has been read.
LEMMA InitIInv == Init => IInv
  BY TextAssumption
  DEF Init, IInv, TypeOK, UntouchedIsFresh, OwnAsWritten, RunsMerged

\* While directives are read nothing runs.
LEMMA OneServer ==
  ASSUME IInv, stage = "reading", TypeOK', stage' = stage, running' = running, NEW s \in Server,
         \A u \in Server \ {s} : own'[u] = own[u] /\ written'[u] = written[u] /\ added'[u] = added[u],
         own'[s] \in Cfg, OwnAsWritten(s)'
  PROVE  IInv'
  <1>1. ASSUME NEW u \in Server PROVE RunsMerged(u)'
    BY DEF IInv, RunsMerged
  <1>2. UntouchedIsFresh(s)'
    BY NoConfigAssumption DEF UntouchedIsFresh
  <1>3. ASSUME NEW u \in Server \ {s} PROVE UntouchedIsFresh(u)' /\ OwnAsWritten(u)'
    <2>1. /\ UntouchedIsFresh(u) /\ OwnAsWritten(u)
          /\ own'[u] = own[u] /\ written'[u] = written[u] /\ added'[u] = added[u]
      BY DEF IInv
    <2> QED BY <2>1 DEF UntouchedIsFresh, OwnAsWritten, Fits
  <1> QED BY <1>1, <1>2, <1>3 DEF IInv

\* A directive that is refused ends the reading.
LEMMA RefuseKeeps == IInv /\ stage = "reading" /\ Refuse => IInv'
  <1> SUFFICES ASSUME IInv, stage = "reading", Refuse PROVE IInv'
    OBVIOUS
  <1>1. TypeOK'
    BY DEF IInv, TypeOK, Refuse
  <1>2. ASSUME NEW s \in Server
        PROVE  UntouchedIsFresh(s)' /\ OwnAsWritten(s)' /\ RunsMerged(s)'
    <2>1. RunsMerged(s)'
      BY DEF IInv, RunsMerged, Refuse
    <2>2. UntouchedIsFresh(s)' /\ OwnAsWritten(s)'
      BY DEF IInv, UntouchedIsFresh, OwnAsWritten, Refuse
    <2> QED BY <2>1, <2>2
  <1> QED BY <1>1, <1>2 DEF IInv

\* A text that is copied into a field of Size bytes has room for its NUL.
LEMMA CopiedFacts ==
  ASSUME NEW t \in Text
  PROVE  Copied(t) \in 0 .. Size - 1 /\ (~TooLong(t) => Copied(t) = t)
  BY SizeAssumption, TextAssumption DEF Copied, TooLong, Text

\* A text that fits is written into the configuration of its server, and nowhere else.
LEMMA SetTextKeeps ==
  ASSUME IInv, Reading, NEW s \in Server, NEW f \in TextField, NEW t \in Text,
         f \in Field => ~TooLong(t), SetText(s, f, t)
  PROVE  IInv'
  <1> PICK cfg : cfg = [Configured(s) EXCEPT !.text[f] = Copied(t)]
    OBVIOUS
  <1>1. /\ cfg \in Cfg /\ cfg.list = Configured(s).list
        /\ cfg.text[f] = Copied(t)
        /\ \A g \in TextField \ {f} : cfg.text[g] = Configured(s).text[g]
    BY ConfiguredFacts, CopiedFacts DEF Cfg
  <1>2. /\ own' = [own EXCEPT ![s] = cfg] /\ written' = [written EXCEPT ![s][f] = t]
        /\ UNCHANGED <<stage, running, added>> /\ count' = count + 1
    BY DEF SetText, Accepted
  <1>3. /\ own'[s] = cfg /\ written'[s] = [written[s] EXCEPT ![f] = t]
        /\ \A u \in Server \ {s} : own'[u] = own[u] /\ written'[u] = written[u]
    BY <1>2 DEF IInv, TypeOK
  <1>4. TypeOK'
    <2>1. written' \in [Server -> [TextField -> Text \union {Unwritten}]]
      BY <1>2 DEF IInv, TypeOK
    <2>2. own' \in [Server -> Cfg \union {NoConfig}] /\ count' \in 0 .. MaxDirectives
      BY <1>1, <1>2, TextAssumption DEF IInv, TypeOK, Reading
    <2> QED BY <1>2, <2>1, <2>2 DEF IInv, TypeOK
  <1>5. OwnAsWritten(s)'
    <2>1. \A g \in Field : written'[s][g] \in Text => cfg.text[g] = written'[s][g]
      <3> SUFFICES ASSUME NEW g \in Field, written'[s][g] \in Text
                   PROVE  cfg.text[g] = written'[s][g]
        OBVIOUS
      <3>1. CASE g = f
        <4>1. written'[s][g] = t
          BY <1>3, <3>1 DEF IInv, TypeOK
        <4> QED BY <1>1, <3>1, <4>1, CopiedFacts
      <3>2. CASE g # f
        <4>1. written'[s][g] = written[s][g] /\ cfg.text[g] = Configured(s).text[g]
          BY <1>1, <1>3, <3>2 DEF IInv, TypeOK, TextField
        <4> QED BY <3>2, <4>1, ConfiguredFacts
      <3> QED BY <3>1, <3>2
    <2>2. \A l \in ListField : cfg.list[l] = DefaultList[l] \o added'[s][l]
      BY <1>1, <1>2, ConfiguredFacts
    <2>3. Fits(cfg)
      BY <1>1, ConfiguredFacts DEF Fits
    <2> QED BY <1>3, <2>1, <2>2, <2>3 DEF OwnAsWritten, Fits
  <1> QED BY <1>1, <1>2, <1>3, <1>4, <1>5, OneServer DEF Reading

\* Adding to the end of a list that is joined is joining a list with it added.
LEMMA AppendToConcat ==
  \A a, b \in Seq(Item) : \A x \in Item : Append(a \o b, x) = a \o Append(b, x)
  <1> SUFFICES ASSUME NEW a \in Seq(Item), NEW b \in Seq(Item), NEW x \in Item
               PROVE  Append(a \o b, x) = a \o Append(b, x)
    OBVIOUS
  <1>1. /\ Append(a \o b, x) \in Seq(Item) /\ Len(Append(a \o b, x)) = Len(a) + Len(b) + 1
        /\ a \o Append(b, x) \in Seq(Item) /\ Len(a \o Append(b, x)) = Len(a) + Len(b) + 1
    OBVIOUS
  <1>2. \A k \in 1 .. Len(a) + Len(b) + 1 : Append(a \o b, x)[k] = (a \o Append(b, x))[k]
    OBVIOUS
  <1> QED BY <1>1, <1>2, SeqEqual

\* A directive that adds to a list adds at its end, or is refused when the list is full.
LEMMA AddKeeps ==
  ASSUME IInv, NEW s \in Server, NEW l \in ListField, NEW i \in Item, Add(s, l, i)
  PROVE  IInv'
  <1>1. CASE Full(s, l)
    BY <1>1, RefuseKeeps DEF Add, Reading
  <1>2. CASE ~Full(s, l)
    <2> PICK cfg : cfg = [Configured(s) EXCEPT !.list[l] = Append(@, i)]
      OBVIOUS
    <2>1. /\ cfg \in Cfg /\ cfg.text = Configured(s).text
          /\ cfg.list[l] = Append(Configured(s).list[l], i)
          /\ \A m \in ListField \ {l} : cfg.list[m] = Configured(s).list[m]
      <3>1. Configured(s) \in Cfg
        BY ConfiguredFacts
      <3>2. Configured(s).list \in [ListField -> Seq(Item)]
        BY <3>1 DEF Cfg
      <3>3. [Configured(s).list EXCEPT ![l] = Append(@, i)] \in [ListField -> Seq(Item)]
        BY <3>2
      <3> QED BY <3>1, <3>2, <3>3 DEF Cfg
    <2>2. /\ own' = [own EXCEPT ![s] = cfg] /\ added' = [added EXCEPT ![s][l] = Append(@, i)]
          /\ UNCHANGED <<stage, running, written>> /\ count' = count + 1
      BY <1>2 DEF Add, Accepted
    <2>3. /\ own'[s] = cfg /\ added'[s] = [added[s] EXCEPT ![l] = Append(@, i)]
          /\ \A u \in Server \ {s} : own'[u] = own[u] /\ added'[u] = added[u]
      BY <2>2 DEF IInv, TypeOK
    <2>4. TypeOK'
      <3>1. added' \in [Server -> [ListField -> Seq(Item)]]
        BY <2>2 DEF IInv, TypeOK
      <3>2. own' \in [Server -> Cfg \union {NoConfig}] /\ count' \in 0 .. MaxDirectives
        BY <2>1, <2>2, TextAssumption DEF IInv, TypeOK, Add, Reading
      <3> QED BY <2>2, <3>1, <3>2 DEF IInv, TypeOK
    <2>5. OwnAsWritten(s)'
      <3>1. \A m \in ListField : cfg.list[m] = DefaultList[m] \o added'[s][m]
        <4> SUFFICES ASSUME NEW m \in ListField PROVE cfg.list[m] = DefaultList[m] \o added'[s][m]
          OBVIOUS
        <4>1. DefaultList[m] \in Seq(Item) /\ added[s][m] \in Seq(Item)
          BY DefaultListAssumption DEF IInv, TypeOK
        <4>2. CASE m = l
          <5>1. Append(DefaultList[m] \o added[s][m], i) = DefaultList[m] \o Append(added[s][m], i)
            BY <4>1, AppendToConcat, Zenon
          <5>2. added'[s][m] = Append(added[s][m], i)
            BY <2>3, <4>2 DEF IInv, TypeOK
          <5> QED BY <2>1, <4>2, <5>1, <5>2, ConfiguredFacts
        <4>3. CASE m # l
          <5>1. added'[s][m] = added[s][m] /\ cfg.list[m] = Configured(s).list[m]
            BY <2>1, <2>3, <4>3 DEF IInv, TypeOK
          <5> QED BY <5>1, ConfiguredFacts
        <4> QED BY <4>2, <4>3
      <3>2. Fits(cfg)
        <4> SUFFICES ASSUME NEW m \in ListField PROVE Len(cfg.list[m]) <= Max[m]
          BY DEF Fits
        <4>1. CASE m = l
          <5>1. Configured(s).list[m] \in Seq(Item) /\ Len(Configured(s).list[m]) < Max[m]
            <6>1. Configured(s).list \in [ListField -> Seq(Item)]
              BY ConfiguredFacts DEF Cfg
            <6>2. ~(Len(Configured(s).list[m]) >= Max[m]) /\ Max[m] \in Nat
              BY <1>2, <4>1, MaxAssumption DEF Full
            <6> QED BY <6>1, <6>2
          <5> QED BY <2>1, <4>1, <5>1, MaxAssumption
        <4>2. CASE m # l
          BY <2>1, <4>2, ConfiguredFacts DEF Fits
        <4> QED BY <4>1, <4>2
      <3>3. \A f \in Field : written'[s][f] \in Text => cfg.text[f] = written'[s][f]
        BY <2>1, <2>2, ConfiguredFacts
      <3> QED BY <2>3, <3>1, <3>2, <3>3 DEF OwnAsWritten, Fits
    <2> QED BY <2>1, <2>2, <2>3, <2>4, <2>5, OneServer DEF Add, Reading
  <1> QED BY <1>1, <1>2

\* A filter goes to the end of the chain, which has no bound.
LEMMA AddFilterKeeps ==
  ASSUME IInv, NEW s \in Server, NEW i \in Item, AddFilter(s, i)
  PROVE  IInv'
  <1> PICK cfg : cfg = [Configured(s) EXCEPT !.filters = Append(@, i)]
    OBVIOUS
  <1>1. cfg \in Cfg /\ cfg.text = Configured(s).text /\ cfg.list = Configured(s).list
    <2>1. Configured(s) \in Cfg
      BY ConfiguredFacts
    <2>2. Append(Configured(s).filters, i) \in Seq(Item)
      BY <2>1 DEF Cfg
    <2> QED BY <2>1, <2>2 DEF Cfg
  <1>2. /\ own' = [own EXCEPT ![s] = cfg] /\ count' = count + 1
        /\ UNCHANGED <<stage, running, written, added>>
    BY DEF AddFilter, Accepted
  <1>3. own'[s] = cfg /\ \A u \in Server \ {s} : own'[u] = own[u]
    BY <1>2 DEF IInv, TypeOK
  <1>4. TypeOK'
    BY <1>1, <1>2, TextAssumption DEF IInv, TypeOK, AddFilter, Reading
  <1>5. OwnAsWritten(s)'
    <2>1. /\ \A l \in ListField : cfg.list[l] = DefaultList[l] \o added'[s][l]
          /\ \A f \in Field : written'[s][f] \in Text => cfg.text[f] = written'[s][f]
      BY <1>1, <1>2, ConfiguredFacts
    <2>2. Fits(cfg)
      BY <1>1, ConfiguredFacts DEF Fits
    <2> QED BY <1>3, <2>1, <2>2 DEF OwnAsWritten, Fits
  <1> QED BY <1>1, <1>2, <1>3, <1>4, <1>5, OneServer DEF AddFilter, Reading

\* A merge that does not overflow makes a configuration, whose lists are the two
\* lists joined, and fit.
LEMMA MergedFacts ==
  ASSUME NEW base \in Cfg, NEW new \in Cfg
  PROVE  /\ Overflows(base, new) => Merged(base, new) = NoConfig
         /\ ~Overflows(base, new) =>
              /\ Merged(base, new) \in Cfg /\ Fits(Merged(base, new))
              /\ \A l \in ListField : Merged(base, new).list[l] = base.list[l] \o new.list[l]
              /\ \A f \in Field : new.text[f] # 0 => Merged(base, new).text[f] = new.text[f]
  <1>1. ASSUME ~Overflows(base, new)
        PROVE  /\ Merged(base, new) \in Cfg
               /\ \A l \in ListField : Merged(base, new).list[l] = base.list[l] \o new.list[l]
               /\ \A f \in Field : new.text[f] # 0 => Merged(base, new).text[f] = new.text[f]
    <2>1. \A f \in TextField : MergedText(base, new, f) \in 0 .. Size - 1
      BY FreshFacts DEF MergedText, Cfg
    <2>2. \A l \in ListField : MergedList(base, new, l) \in Seq(Item)
      BY DEF MergedList, Cfg
    <2>3. MergedFilters(base, new) \in Seq(Item)
      BY DEF MergedFilters, Cfg
    <2>4. Merged(base, new) =
            [text |-> [f \in TextField |-> MergedText(base, new, f)],
             list |-> [l \in ListField |-> MergedList(base, new, l)],
             filters |-> MergedFilters(base, new)]
      BY <1>1 DEF Merged
    <2>5. Merged(base, new) \in Cfg
      BY <2>1, <2>2, <2>3, <2>4 DEF Cfg
    <2>6. \A l \in ListField : Merged(base, new).list[l] = base.list[l] \o new.list[l]
      <3>1. Merged(base, new).list = [l \in ListField |-> MergedList(base, new, l)]
        BY <2>4
      <3> QED BY <3>1, Zenon DEF MergedList
    <2>7. \A f \in Field : new.text[f] # 0 => Merged(base, new).text[f] = new.text[f]
      BY <2>4, FieldAssumption DEF MergedText, TextField
    <2> QED BY <2>5, <2>6, <2>7
  <1>2. ASSUME ~Overflows(base, new) PROVE Fits(Merged(base, new))
    <2> SUFFICES ASSUME NEW l \in ListField PROVE Len(base.list[l] \o new.list[l]) <= Max[l]
      BY <1>1, <1>2 DEF Fits
    <2>1. base.list[l] \in Seq(Item) /\ new.list[l] \in Seq(Item) /\ Max[l] \in Nat
      BY MaxAssumption DEF Cfg
    <2>2. ~(Len(base.list[l]) + Len(new.list[l]) > Max[l])
      BY <1>2 DEF Overflows
    <2>3. Len(base.list[l]) + Len(new.list[l]) <= Max[l]
      <3>1. Len(base.list[l]) \in Nat /\ Len(new.list[l]) \in Nat /\ Max[l] \in Nat
        BY <2>1
      <3>2. \A m, n, x \in Nat : ~(m + n > x) => m + n <= x
        OBVIOUS
      <3> QED BY <2>2, <3>1, <3>2, Zenon
    <2>4. Len(base.list[l] \o new.list[l]) = Len(base.list[l]) + Len(new.list[l])
      BY <2>1
    <2> QED BY <2>3, <2>4
  <1>3. Overflows(base, new) => Merged(base, new) = NoConfig
    BY DEF Merged
  <1> QED BY <1>1, <1>2, <1>3

\* The reading ends and the configurations are merged.
LEMMA StartKeeps == IInv /\ Start => IInv'
  <1> SUFFICES ASSUME IInv, Start PROVE IInv'
    OBVIOUS
  <1>1. /\ stage' = "running" /\ UNCHANGED <<own, written, added, count>>
        /\ running' = [s \in Server |->
                         IF s = Main \/ own[s] = NoConfig THEN Configured(Main)
                         ELSE Merged(Configured(Main), own[s])]
    BY DEF Start
  <1>2. Configured(Main) \in Cfg
    BY ConfiguredFacts DEF Server
  <1>3. ASSUME NEW s \in Server, own[s] # NoConfig
        PROVE  Merged(Configured(Main), own[s]) \in Cfg \union {NoConfig}
    <2>1. own[s] \in Cfg
      BY <1>3 DEF IInv, TypeOK
    <2> QED BY <1>2, <2>1, MergedFacts
  <1>4. running' \in [Server -> Cfg \union {NoConfig}]
    BY <1>1, <1>2, <1>3
  <1>5. TypeOK'
    BY <1>1, <1>4 DEF IInv, TypeOK
  <1>6. ASSUME NEW s \in Server
        PROVE  UntouchedIsFresh(s)' /\ OwnAsWritten(s)' /\ RunsMerged(s)'
    <2>1. UntouchedIsFresh(s)' /\ OwnAsWritten(s)'
      BY <1>1 DEF IInv, UntouchedIsFresh, OwnAsWritten, Fits
    <2>2. RunsMerged(s)'
      BY <1>1 DEF RunsMerged, Configured
    <2> QED BY <2>1, <2>2
  <1> QED BY <1>5, <1>6 DEF IInv

\* Every directive keeps the invariant.
LEMMA DirectiveKeeps ==
  ASSUME IInv, NEW s \in Server, Directive(s) PROVE IInv'
  <1>1. CASE \E f \in TextField \ {"login_url"}, t \in Text : SafeCopy(s, f, t)
    BY <1>1, RefuseKeeps, SetTextKeeps DEF SafeCopy, Reading
  <1>2. CASE \E t \in Text, absolute \in BOOLEAN : LoginUrl(s, t, absolute)
    BY <1>2, RefuseKeeps, SetTextKeeps, FieldAssumption DEF LoginUrl, Reading, TextField
  <1>3. CASE \E l \in ListField, i \in Item : Add(s, l, i)
    BY <1>3, AddKeeps
  <1>4. CASE \E i \in Item : AddFilter(s, i)
    BY <1>4, AddFilterKeeps
  <1> QED BY <1>1, <1>2, <1>3, <1>4 DEF Directive

\* The inductive invariant holds in every reachable state.
LEMMA Invariance == Spec => []IInv
  <1>1. IInv /\ Next => IInv'
    BY DirectiveKeeps, RefuseKeeps, StartKeeps DEF Next, RefuseArgument, Reading
  <1>2. IInv /\ UNCHANGED vars => IInv'
    <2> SUFFICES ASSUME IInv, UNCHANGED vars PROVE IInv'
      OBVIOUS
    <2>1. TypeOK'
      BY DEF vars, IInv, TypeOK
    <2>2. ASSUME NEW s \in Server
          PROVE  UntouchedIsFresh(s)' /\ OwnAsWritten(s)' /\ RunsMerged(s)'
      BY DEF vars, IInv, UntouchedIsFresh, OwnAsWritten, RunsMerged, Configured, Fits
    <2> QED BY <2>1, <2>2 DEF IInv
  <1> QED BY <1>1, <1>2, InitIInv, PTL DEF Spec

\* What a server runs with: the main server's configuration, or its merge with
\* the server's own.
LEMMA RunningFacts ==
  ASSUME IInv, stage = "running", NEW s \in Server
  PROVE  /\ s = Main \/ own[s] = NoConfig => running[s] = Configured(Main)
         /\ s # Main /\ own[s] # NoConfig =>
              running[s] = Merged(Configured(Main), own[s]) /\ own[s] = Configured(s)
         /\ Configured(Main) \in Cfg /\ Configured(s) \in Cfg
         /\ s # Main /\ own[s] # NoConfig /\ running[s] # NoConfig =>
              /\ Fits(running[s])
              /\ \A l \in ListField :
                    running[s].list[l] = Configured(Main).list[l] \o Configured(s).list[l]
              /\ \A f \in Field :
                    Configured(s).text[f] # 0 => running[s].text[f] = Configured(s).text[f]
  <1>1. Configured(Main) \in Cfg /\ Configured(s) \in Cfg
    BY ConfiguredFacts DEF Server
  <1>2. /\ s = Main \/ own[s] = NoConfig => running[s] = Configured(Main)
        /\ s # Main /\ own[s] # NoConfig =>
             running[s] = Merged(Configured(Main), own[s]) /\ own[s] = Configured(s)
    BY DEF IInv, RunsMerged, Configured
  <1>3. /\ Overflows(Configured(Main), Configured(s)) =>
             Merged(Configured(Main), Configured(s)) = NoConfig
        /\ ~Overflows(Configured(Main), Configured(s)) =>
             /\ Fits(Merged(Configured(Main), Configured(s)))
             /\ \A l \in ListField :
                   Merged(Configured(Main), Configured(s)).list[l] =
                      Configured(Main).list[l] \o Configured(s).list[l]
             /\ \A f \in Field : Configured(s).text[f] # 0 =>
                   Merged(Configured(Main), Configured(s)).text[f] = Configured(s).text[f]
    BY <1>1, MergedFacts
  <1> QED BY <1>1, <1>2, <1>3
-----------------------------------------------------------------------------
\* The variables keep their types.
THEOREM TypesHold == Spec => []TypeOK
  <1>1. IInv => TypeOK
    BY DEF IInv
  <1> QED BY <1>1, Invariance, PTL

\* No list outgrows its array, whatever is added and merged.
THEOREM ListsFit == Spec => []NoOverrun
  <1>1. IInv => NoOverrun
    <2> SUFFICES ASSUME IInv, NEW s \in Server
                 PROVE  /\ own[s] # NoConfig => Fits(own[s])
                        /\ running[s] # NoConfig => Fits(running[s])
      BY DEF NoOverrun, Fits
    <2>1. own[s] # NoConfig => Fits(own[s])
      BY DEF IInv, OwnAsWritten
    <2>2. running[s] # NoConfig => stage = "running"
      BY DEF IInv, RunsMerged
    <2>3. Fits(Configured(Main))
      BY ConfiguredFacts DEF Server
    <2> QED BY <2>1, <2>2, <2>3, RunningFacts
  <1> QED BY <1>1, Invariance, PTL

\* A server runs with the text its own directive wrote, every byte of it.
THEOREM OwnTextKept == Spec => []OwnTextEffective
  <1>1. IInv => OwnTextEffective
    <2> SUFFICES ASSUME IInv, NEW s \in Server, NEW f \in Field, Running(s), written[s][f] \in Text \ {0}
                 PROVE  running[s].text[f] = written[s][f]
      BY DEF OwnTextEffective
    <2>1. Configured(s).text[f] = written[s][f]
      BY ConfiguredFacts
    <2>2. own[s] # NoConfig
      BY SizeAssumption, TextAssumption DEF IInv, UntouchedIsFresh, Unwritten, Text, TextField
    <2>3. CASE s = Main
      BY <2>1, <2>3, RunningFacts DEF Running
    <2>4. CASE s # Main
      BY <2>1, <2>2, <2>4, RunningFacts DEF Running, Text
    <2> QED BY <2>3, <2>4
  <1> QED BY <1>1, Invariance, PTL

\* A server runs with the main server's items and its own, in order.
THEOREM ItemsSurviveMerge == Spec => []ItemsKept
  <1>1. IInv => ItemsKept
    <2> SUFFICES ASSUME IInv, NEW s \in Server, NEW l \in ListField, Running(s)
                 PROVE  running[s].list[l] =
                          DefaultList[l] \o added[Main][l] \o
                             (IF s = Main \/ own[s] = NoConfig THEN <<>>
                              ELSE DefaultList[l] \o added[s][l])
      BY DEF ItemsKept
    <2>1. /\ Configured(Main).list[l] = DefaultList[l] \o added[Main][l]
          /\ Configured(s).list[l] = DefaultList[l] \o added[s][l]
          /\ DefaultList[l] \o added[Main][l] \in Seq(Item)
      BY ConfiguredFacts, DefaultListAssumption DEF Server, IInv, TypeOK
    <2>2. CASE s = Main \/ own[s] = NoConfig
      BY <2>1, <2>2, RunningFacts, ConcatEmptySeq DEF Running
    <2>3. CASE ~(s = Main \/ own[s] = NoConfig)
      <3>1. running[s].list[l] = Configured(Main).list[l] \o Configured(s).list[l]
        BY <2>3, RunningFacts DEF Running
      <3> QED BY <2>1, <2>3, <3>1
    <2> QED BY <2>2, <2>3
  <1> QED BY <1>1, Invariance, PTL

\* A server without a configuration is a virtual host whose section and the main
\* one hold more than some list has room for.
THEOREM OnlyOverflowLoses == Spec => []LostOnlyByOverflow
  <1>1. IInv => LostOnlyByOverflow
    <2> SUFFICES ASSUME IInv, NEW s \in Server, stage = "running", running[s] = NoConfig
                 PROVE  /\ s # Main
                        /\ \E l \in ListField :
                              2 * Len(DefaultList[l]) + Len(added[Main][l]) + Len(added[s][l]) > Max[l]
      BY DEF LostOnlyByOverflow
    <2>1. s # Main /\ own[s] # NoConfig /\ Merged(Configured(Main), Configured(s)) = NoConfig
      BY RunningFacts, NoConfigAssumption
    <2>2. Overflows(Configured(Main), Configured(s))
      BY <2>1, RunningFacts, MergedFacts, NoConfigAssumption
    <2>3. PICK l \in ListField :
            Len(Configured(Main).list[l]) + Len(Configured(s).list[l]) > Max[l]
      BY <2>2 DEF Overflows
    <2>4. /\ DefaultList[l] \in Seq(Item) /\ added[Main][l] \in Seq(Item) /\ added[s][l] \in Seq(Item)
          /\ Max[l] \in Nat
      BY DefaultListAssumption, MaxAssumption DEF IInv, TypeOK, Server
    <2>5. /\ Configured(Main).list[l] = DefaultList[l] \o added[Main][l]
          /\ Configured(s).list[l] = DefaultList[l] \o added[s][l]
      BY ConfiguredFacts DEF Server
    <2>6. /\ Len(Configured(Main).list[l]) = Len(DefaultList[l]) + Len(added[Main][l])
          /\ Len(Configured(s).list[l]) = Len(DefaultList[l]) + Len(added[s][l])
      BY <2>4, <2>5
    <2>7. 2 * Len(DefaultList[l]) + Len(added[Main][l]) + Len(added[s][l]) > Max[l]
      <3>1. \A d, m, o, x \in Nat : (d + m) + (d + o) > x => 2 * d + m + o > x
        OBVIOUS
      <3>2. /\ Len(DefaultList[l]) \in Nat /\ Len(added[Main][l]) \in Nat
            /\ Len(added[s][l]) \in Nat
        BY <2>4
      <3>3. (Len(DefaultList[l]) + Len(added[Main][l])) + (Len(DefaultList[l]) + Len(added[s][l])) > Max[l]
        BY <2>3, <2>6
      <3> HIDE DEF IInv
      <3> QED BY <2>4, <3>1, <3>2, <3>3
    <2> QED BY <2>1, <2>7
  <1> QED BY <1>1, Invariance, PTL
=============================================================================
