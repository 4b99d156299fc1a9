-------------------------- MODULE OpListingProofs --------------------------
(***************************************************************************)
(* OpListing for any number of trust anchors, any providers and any names: *)
(* the list offers every provider, repeats one only for another anchor,    *)
(* holds no pointer into memory that was destroyed, and is in the order of *)
(* the names it shows.                                                     *)
(***************************************************************************)
EXTENDS OpListing, NetstringProofs, FiniteSetTheorems

PageRow == [op_index : {si_fmt(n) : n \in Nat}, iss : Pointer, name : Pointer]

\* The answers, the list and the page are sequences.
Sequential ==
    /\ entities \in Seq(Entity) /\ Len(entities) <= MaxEntities
    /\ ops_list \in Seq(Row)
    /\ page \in Seq(PageRow) /\ Len(page) <= Len(ops_list)

\* An answer that is being read is an anchor's.
AnchorAsked == pc = "collecting" => anchor \in Anchor

\* Rows are copies, made while their anchor was asked.
RowsCopied ==
    \A i \in DOMAIN ops_list :
        /\ ops_list[i].entity_id.memory = Pool /\ ops_list[i].entity_id.text \in EntityId
        /\ ops_list[i].display_name # None => ops_list[i].display_name.memory = Pool
        /\ ops_list[i].anchor <= anchor

HasRow(id) == \E i \in DOMAIN ops_list : ops_list[i].entity_id.text = id

\* What was reported, and what the hash knows, is in the list.
NothingMissed ==
    /\ \A id \in reported : HasRow(id)
    /\ \A key \in rendered_ops : HasRow(key.text)

\* While an anchor is asked, the hash has a live key for each of its rows.
RowsHaveKeys ==
    pc = "collecting" => \A i \in DOMAIN ops_list :
        ops_list[i].anchor = anchor =>
            \E key \in rendered_ops :
                key.text = ops_list[i].entity_id.text /\ key.memory = anchor

\* The list that is written is sorted.
Sorted ==
    Written => \A i, j \in DOMAIN ops_list :
        i < j => ComparedBy(ops_list[i]) <= ComparedBy(ops_list[j])

\* The inductive invariant.
IInv ==
    /\ TypeOK /\ Sequential /\ AnchorAsked /\ RowsCopied /\ NothingMissed /\ RowsHaveKeys
    /\ RepeatedOnlyAcrossAnchors /\ Sorted /\ SuggestedAsListed
-----------------------------------------------------------------------------
\* Before a request nothing is listed.
LEMMA InitIInv == Init => IInv
  BY TrustAnchorsAssumption, MaxEntitiesAssumption
  DEF Init, IInv, TypeOK, Sequential, AnchorAsked, RowsCopied, NothingMissed, RowsHaveKeys,
      RepeatedOnlyAcrossAnchors, Sorted, SuggestedAsListed, Written, NoSuggestion

\* An answer is a sequence of providers, and so is what is left of it.
LEMMA AnswerTypes ==
  ASSUME NEW e \in Seq(Entity), Len(e) <= MaxEntities
  PROVE  e \in UNION {[1 .. n -> Entity] : n \in 0 .. MaxEntities}
  BY LenProperties, MaxEntitiesAssumption

\* A request starts with nothing listed.
LEMMA BeginKeeps == IInv /\ Begin => IInv'
  BY TrustAnchorsAssumption
  DEF Begin, IInv, TypeOK, Sequential, AnchorAsked, RowsCopied, NothingMissed, RowsHaveKeys,
      RepeatedOnlyAcrossAnchors, Sorted, SuggestedAsListed, Written, NoSuggestion

\* The next anchor has no rows yet.
LEMMA AskKeeps == IInv /\ Ask => IInv'
  <1> SUFFICES ASSUME IInv, Ask PROVE IInv'
    OBVIOUS
  <1>1. anchor' = anchor + 1 /\ anchor' \in Anchor /\ anchor \in Nat
    BY TrustAnchorsAssumption DEF IInv, TypeOK, Ask, Anchor
  <1>2. entities' \in Seq(Entity) /\ Len(entities') <= MaxEntities
    <2>1. PICK n \in 0 .. MaxEntities : entities' \in [1 .. n -> Entity]
      BY DEF Ask
    <2> QED BY <2>1, SeqDef, MaxEntitiesAssumption, LenProperties
  <1>3. TypeOK'
    BY <1>1, <1>2, AnswerTypes DEF IInv, TypeOK, Ask
  <1>4. AnchorAsked' /\ RowsCopied' /\ RowsHaveKeys'
    BY <1>1 DEF IInv, TypeOK, AnchorAsked, RowsCopied, RowsHaveKeys, Row, Anchor, Ask
  <1>5. Sequential' /\ NothingMissed' /\ RepeatedOnlyAcrossAnchors' /\ Sorted' /\ SuggestedAsListed'
    BY <1>2 DEF IInv, Sequential, NothingMissed, HasRow, RepeatedOnlyAcrossAnchors, Sorted,
       SuggestedAsListed, Written, Ask
  <1> QED BY <1>3, <1>4, <1>5 DEF IInv

\* The list of an anchor goes; the rows hold copies of what it said.
LEMMA DestroyKeeps == IInv /\ DestroyEntities => IInv'
  BY DEF DestroyEntities, IInv, TypeOK, Sequential, AnchorAsked, RowsCopied, NothingMissed, HasRow, RowsHaveKeys,
     RepeatedOnlyAcrossAnchors, Sorted, SuggestedAsListed, Written

\* The row made of a provider: a copy of its identifier and of one of its names.
LEMMA ExtractFacts ==
  ASSUME NEW entity \in Entity, anchor \in Anchor
  PROVE  /\ extract_entity_info(entity) \in Row
         /\ extract_entity_info(entity).anchor = anchor
         /\ extract_entity_info(entity).entity_id.text = entity.entity_id
         /\ extract_entity_info(entity).entity_id.memory = Pool
         /\ extract_entity_info(entity).display_name # None =>
               extract_entity_info(entity).display_name.memory = Pool
  <1> DEFINE names == entity.names
  <1> DEFINE given == {i \in 1 .. Len(names) : names[i] # None}
  <1>1. entity.entity_id \in EntityId /\ names \in Seq(DisplayName \union {None})
    BY UiNamesAssumption DEF Entity
  <1>2. LastName(names) \in DisplayName \union {None}
    <2>1. CASE given = {}
      BY <2>1 DEF LastName
    <2>2. CASE given # {}
      <3>1. given \subseteq 0 .. Len(names) /\ Len(names) \in Nat
        BY <1>1
      <3>2. \E i \in given : \A j \in given : j <= i
        BY <2>2, <3>1, GreatestNatural, Zenon
      <3>3. LastName(names) \in {names[i] : i \in given}
        BY <2>2, <3>2, Zenon DEF LastName
      <3> QED BY <1>1, <3>3
    <2> QED BY <2>1, <2>2
  <1> QED BY <1>1, <1>2 DEF extract_entity_info, InPool, Row, Pointer, Text, Pool

\* What a look-up that says no has seen: no live key of the provider.  One that
\* says yes has seen a key.
LEMMA RenderedFacts ==
  ASSUME IInv, pc = "collecting", NEW id \in EntityId
  PROVE  /\ FALSE \in Rendered(id) =>
              \A i \in DOMAIN ops_list :
                  ops_list[i].anchor = anchor => ops_list[i].entity_id.text # id
         /\ TRUE \in Rendered(id) => HasRow(id)
         /\ Rendered(id) \subseteq BOOLEAN
  <1>1. FALSE \in Rendered(id) => \A key \in rendered_ops : key.text = id => ~Live(key)
    BY DEF Rendered
  <1>2. TRUE \in Rendered(id) => \E key \in rendered_ops : key.text = id
    BY DEF Rendered
  <1>3. Rendered(id) \subseteq BOOLEAN
    BY DEF Rendered
  <1> QED BY <1>1, <1>2, <1>3 DEF IInv, RowsHaveKeys, NothingMissed, Live, PointsTo

\* A provider is left out for the row it has under this anchor, or gets one.
LEMMA CollectKeeps == IInv /\ Collect => IInv'
  <1> SUFFICES ASSUME IInv, Collect PROVE IInv'
    OBVIOUS
  <1>1. /\ pc = "collecting"
        /\ \E entity \in Entity : entity = Head(entities) /\ entity.entity_id \in EntityId
    <2>1. entities \in Seq(Entity) /\ entities # <<>> /\ pc = "collecting"
      BY DEF IInv, Sequential, Collect
    <2>2. Head(entities) \in Entity
      BY <2>1, HeadTailProperties, Zenon
    <2> QED BY <2>1, <2>2 DEF Entity
  <1> PICK entity \in Entity : entity = Head(entities) /\ entity.entity_id \in EntityId
    BY <1>1
  <1> PICK id \in EntityId : id = entity.entity_id
    OBVIOUS
  <1>2. entities' \in Seq(Entity) /\ Len(entities') <= MaxEntities
    <2>1. entities \in Seq(Entity) /\ entities # <<>> /\ entities' = Tail(entities)
      BY DEF IInv, Sequential, Collect
    <2>2. entities' \in Seq(Entity) /\ Len(entities') = Len(entities) - 1
      BY <2>1, HeadTailProperties, Zenon
    <2>3. Len(entities) \in Nat /\ Len(entities) <= MaxEntities
      BY <2>1 DEF IInv, Sequential
    <2> QED BY <2>2, <2>3, MaxEntitiesAssumption
  <1>3. reported' = reported \union {id} /\ UNCHANGED <<pc, hint, anchor, hinted, page>>
    BY DEF Collect
  <1>4. Sorted' /\ SuggestedAsListed'
    BY <1>1, <1>3 DEF Sorted, SuggestedAsListed, Written
  <1>5. CASE TRUE \in Rendered(id) /\ UNCHANGED <<rendered_ops, ops_list>>
    <2>1. HasRow(id)
      BY <1>1, <1>5, RenderedFacts
    <2>2. TypeOK'
      BY <1>1, <1>2, <1>3, <1>5, AnswerTypes DEF IInv, TypeOK
    <2>3. Sequential' /\ AnchorAsked' /\ RowsCopied'
      BY <1>2, <1>3, <1>5 DEF IInv, Sequential, AnchorAsked, RowsCopied
    <2>4. NothingMissed'
      BY <1>3, <1>5, <2>1 DEF IInv, NothingMissed, HasRow
    <2>5. RowsHaveKeys' /\ RepeatedOnlyAcrossAnchors'
      BY <1>3, <1>5 DEF IInv, RowsHaveKeys, RepeatedOnlyAcrossAnchors
    <2> QED BY <1>4, <2>2, <2>3, <2>4, <2>5 DEF IInv
  <1>6. CASE /\ FALSE \in Rendered(id)
             /\ rendered_ops' = rendered_ops \union KeysFor(id)
             /\ ops_list' = Append(ops_list, extract_entity_info(entity))
    <2> PICK row : row = extract_entity_info(entity)
      OBVIOUS
    <2> PICK n : n = Len(ops_list)
      OBVIOUS
    <2>1. anchor \in Anchor
      BY <1>1 DEF IInv, AnchorAsked
    <2>2. /\ row \in Row /\ row.anchor = anchor
          /\ row.entity_id.text = id /\ row.entity_id.memory = Pool
          /\ row.display_name # None => row.display_name.memory = Pool
      BY <1>1, <2>1, ExtractFacts, Zenon
    <2>3. ops_list \in Seq(Row) /\ n \in Nat /\ DOMAIN ops_list = 1 .. n
      BY DEF IInv, Sequential
    <2>4. /\ ops_list' \in Seq(Row) /\ DOMAIN ops_list' = 1 .. n + 1
          /\ Len(ops_list') = n + 1 /\ ops_list'[n + 1] = row
          /\ \A i \in 1 .. n : ops_list'[i] = ops_list[i]
      BY <1>6, <2>2, <2>3
    <2>5. rendered_ops' = rendered_ops \union {[text |-> id, memory |-> anchor]}
      BY <1>6 DEF KeysFor
    <2>6. HasRow(id)' /\ \A x : HasRow(x) => HasRow(x)'
      <3>1. HasRow(id)'
        BY <2>2, <2>3, <2>4 DEF HasRow
      <3>2. ASSUME NEW x, HasRow(x) PROVE HasRow(x)'
        <4>1. PICK i \in 1 .. n : ops_list[i].entity_id.text = x
          BY <2>3, <3>2 DEF HasRow
        <4>2. i \in DOMAIN ops_list' /\ ops_list'[i].entity_id.text = x
          BY <2>3, <2>4, <4>1
        <4> QED BY <4>2 DEF HasRow
      <3> QED BY <3>1, <3>2
    <2>7. TypeOK'
      BY <1>1, <1>2, <1>3, <2>1, <2>4, <2>5, AnswerTypes DEF IInv, TypeOK
    <2>8. Sequential' /\ AnchorAsked' /\ NothingMissed'
      <3>1. Sequential' /\ AnchorAsked'
        BY <1>2, <1>3, <2>3, <2>4 DEF IInv, Sequential, AnchorAsked
      <3>2. NothingMissed'
        BY <1>3, <2>5, <2>6 DEF IInv, NothingMissed
      <3> QED BY <3>1, <3>2
    <2>9. RowsCopied'
      BY <1>1, <1>3, <2>1, <2>2, <2>3, <2>4 DEF IInv, RowsCopied, Anchor
    <2>10. RowsHaveKeys'
      <3> SUFFICES ASSUME NEW i \in 1 .. n + 1, ops_list'[i].anchor = anchor
                   PROVE  \E key \in rendered_ops' :
                             key.text = ops_list'[i].entity_id.text /\ key.memory = anchor
        BY <1>3, <2>4 DEF RowsHaveKeys
      <3>1. CASE i = n + 1
        <4>1. [text |-> id, memory |-> anchor] \in rendered_ops'
          BY <2>5
        <4> QED BY <2>2, <2>4, <3>1, <4>1
      <3>2. CASE i # n + 1
        <4>1. i \in 1 .. n /\ ops_list[i].anchor = anchor
          BY <2>3, <2>4, <3>2
        <4>2. \E key \in rendered_ops : key.text = ops_list[i].entity_id.text /\ key.memory = anchor
          BY <1>1, <2>3, <4>1 DEF IInv, RowsHaveKeys
        <4> QED BY <2>4, <2>5, <4>1, <4>2
      <3> QED BY <3>1, <3>2
    <2>11. RepeatedOnlyAcrossAnchors'
      <3>1. \A i \in 1 .. n : ops_list[i].anchor = anchor => ops_list[i].entity_id.text # id
        BY <1>1, <1>6, <2>3, RenderedFacts
      <3> QED BY <2>2, <2>3, <2>4, <3>1 DEF IInv, RepeatedOnlyAcrossAnchors
    <2> QED BY <1>4, <2>7, <2>8, <2>9, <2>10, <2>11 DEF IInv
  <1>7. PICK found \in Rendered(id) :
          IF found THEN UNCHANGED <<rendered_ops, ops_list>>
          ELSE /\ rendered_ops' = rendered_ops \union KeysFor(id)
               /\ ops_list' = Append(ops_list, extract_entity_info(entity))
    BY Zenon DEF Collect
  <1>8. found \in BOOLEAN
    BY <1>1, RenderedFacts
  <1> QED BY <1>5, <1>6, <1>7, <1>8

\* A rearrangement of the places of the list leaves none out.
LEMMA Rearranged ==
  ASSUME NEW n \in Nat, NEW p \in [1 .. n -> 1 .. n], \A i, j \in 1 .. n : i < j => p[i] # p[j]
  PROVE  \A k \in 1 .. n : \E i \in 1 .. n : p[i] = k
  <1>1. IsFiniteSet(1 .. n)
    BY FS_Interval
  <1>2. p \in Injection(1 .. n, 1 .. n)
    BY DEF Injection, IsInjective
  <1>3. p \in Surjection(1 .. n, 1 .. n)
    BY <1>1, <1>2, FS_Injection
  <1> QED BY <1>3 DEF Surjection

\* The text a row is compared by is a number.
LEMMA ComparedByNat ==
  ASSUME NEW row \in Row PROVE ComparedBy(row) \in Nat
  BY EntityIdAssumption, DisplayNameAssumption DEF ComparedBy, Row, Pointer, Text

\* The sort moves rows and changes none; the hint is sought among all of them.
LEMMA SortAndFindKeeps == IInv /\ SortAndFind => IInv'
  <1> SUFFICES ASSUME IInv, SortAndFind PROVE IInv'
    OBVIOUS
  <1> DEFINE n == Len(ops_list)
  <1>1. ops_list \in Seq(Row) /\ n \in Nat /\ DOMAIN ops_list = 1 .. n
    BY DEF IInv, Sequential
  <1>2. PICK p \in [1 .. n -> 1 .. n] :
          /\ \A i, j \in 1 .. n : i < j =>
                p[i] # p[j] /\ ComparedBy(ops_list[p[i]]) <= ComparedBy(ops_list[p[j]])
          /\ ops_list' = [i \in 1 .. n |-> ops_list[p[i]]]
    BY <1>1 DEF SortAndFind
  <1>3. /\ DOMAIN ops_list' = 1 .. n /\ ops_list' \in Seq(Row) /\ Len(ops_list') = n
        /\ \A i \in 1 .. n : ops_list'[i] = ops_list[p[i]] /\ p[i] \in 1 .. n /\ ops_list'[i] \in Row
    BY <1>1, <1>2
  <1>4. \A k \in 1 .. n : \E i \in 1 .. n : p[i] = k
    <2>1. \A i, j \in 1 .. n : i < j => p[i] # p[j]
      BY <1>2
    <2> HIDE DEF n
    <2> QED BY <1>1, <2>1, Rearranged
  <1>5. /\ pc' = "writing"
        /\ UNCHANGED <<hint, anchor, entities, rendered_ops, page, reported>>
    BY DEF SortAndFind
  <1>6. \A x : HasRow(x) => HasRow(x)'
    <2> SUFFICES ASSUME NEW x, HasRow(x) PROVE HasRow(x)'
      OBVIOUS
    <2>1. PICK k \in 1 .. n : ops_list[k].entity_id.text = x
      BY <1>1 DEF HasRow
    <2>2. PICK i \in 1 .. n : p[i] = k
      BY <1>4
    <2>3. i \in DOMAIN ops_list' /\ ops_list'[i].entity_id.text = x
      BY <1>3, <2>1, <2>2
    <2> QED BY <2>3 DEF HasRow
  <1>7. NothingMissed'
    BY <1>5, <1>6 DEF IInv, NothingMissed
  <1>8. SuggestedAsListed' /\ hinted' \in Row \union {NoSuggestion}
    <2> DEFINE matching == {i \in 1 .. n : ops_list'[i].entity_id.text = hint}
    <2>1. hinted' = IF matching = {} THEN NoSuggestion ELSE ops_list'[First(matching)]
      BY <1>1 DEF SortAndFind
    <2>2. CASE matching = {}
      <3>1. hint \notin reported
        BY <1>3, <1>5, <1>7, <2>2 DEF NothingMissed, HasRow
      <3> QED BY <1>5, <2>1, <2>2, <3>1 DEF SuggestedAsListed
    <2>3. CASE matching # {}
      <3>1. First(matching) \in matching /\ \A j \in matching : First(matching) <= j
        <4>1. \E i \in matching : \A j \in matching : i <= j
          <5>1. matching \in SUBSET Nat
            OBVIOUS
          <5> QED BY <2>3, <5>1, LeastNatural
        <4> QED BY <4>1 DEF First
      <3>2. hinted' = ops_list'[First(matching)] /\ hinted' \in Row
        BY <1>3, <2>1, <2>3, <3>1
      <3>3. hinted' # NoSuggestion
        BY <3>2, ListingNoneAssumption DEF NoSuggestion
      <3>4. \A j \in 1 .. First(matching) - 1 : ops_list'[j].entity_id.text # hint
        BY <3>1
      <3> QED BY <1>3, <1>5, <3>1, <3>2, <3>3, <3>4 DEF SuggestedAsListed
    <2> QED BY <2>2, <2>3
  <1>9. TypeOK'
    BY <1>3, <1>5, <1>8 DEF IInv, TypeOK
  <1>10. Sequential' /\ AnchorAsked' /\ RowsHaveKeys'
    BY <1>3, <1>5 DEF IInv, Sequential, AnchorAsked, RowsHaveKeys
  <1>11. RowsCopied'
    BY <1>1, <1>3, <1>5 DEF IInv, RowsCopied
  <1>12. RepeatedOnlyAcrossAnchors'
    BY <1>1, <1>2, <1>3 DEF IInv, RepeatedOnlyAcrossAnchors
  <1>13. Sorted'
    BY <1>2, <1>3 DEF Sorted
  <1> QED BY <1>7, <1>8, <1>9, <1>10, <1>11, <1>12, <1>13 DEF IInv

\* A row shows the name it has, or its identifier.
LEMMA ShownFacts ==
  ASSUME NEW row \in Row PROVE Shown(row) \in Pointer
  BY DEF Shown, Row

\* Rows are written one after the other.
LEMMA WriteRowKeeps == IInv /\ WriteRow => IInv'
  <1> SUFFICES ASSUME IInv, WriteRow PROVE IInv'
    OBVIOUS
  <1> PICK n \in Nat : n = Len(page)
    BY DEF IInv, Sequential
  <1> PICK row : row = ops_list[n + 1]
    OBVIOUS
  <1>1. ops_list \in Seq(Row) /\ page \in Seq(PageRow) /\ n < Len(ops_list) /\ row \in Row
    BY DEF IInv, Sequential, WriteRow
  <1>2. /\ page' = Append(page, [op_index |-> si_fmt(n), iss |-> row.entity_id, name |-> Shown(row)])
        /\ UNCHANGED <<pc, hint, anchor, entities, rendered_ops, ops_list, hinted, reported>>
    BY DEF WriteRow
  <1>3. [op_index |-> si_fmt(n), iss |-> row.entity_id, name |-> Shown(row)] \in PageRow
    BY <1>1, ShownFacts DEF PageRow, Row
  <1>4. page' \in Seq(PageRow) /\ Len(page') = n + 1
    BY <1>1, <1>2, <1>3
  <1>5. \A i \in DOMAIN page' : page'[i].iss \in Pointer /\ page'[i].name \in Pointer
    <2>1. \A i \in DOMAIN page' : page'[i] \in PageRow
      BY <1>4
    <2>2. \A r \in PageRow : r.iss \in Pointer /\ r.name \in Pointer
      BY DEF PageRow
    <2> QED BY <2>1, <2>2
  <1>6. TypeOK' /\ Sequential'
    BY <1>1, <1>2, <1>4, <1>5 DEF IInv, TypeOK, Sequential
  <1> QED BY <1>2, <1>6 DEF IInv, AnchorAsked, RowsCopied, NothingMissed, HasRow, RowsHaveKeys,
             RepeatedOnlyAcrossAnchors, Sorted, SuggestedAsListed, Written

\* The answer ends the request.
LEMMA AnswerKeeps == IInv /\ Answer => IInv'
  BY DEF Answer, IInv, TypeOK, Sequential, AnchorAsked, RowsCopied, NothingMissed, HasRow,
     RowsHaveKeys, RepeatedOnlyAcrossAnchors, Sorted, SuggestedAsListed, Written

\* The inductive invariant holds in every reachable state.
LEMMA Invariance == Spec => []IInv
  <1>1. IInv /\ UNCHANGED vars => IInv'
    BY DEF vars, IInv, TypeOK, Sequential, AnchorAsked, RowsCopied, NothingMissed, HasRow,
       RowsHaveKeys, RepeatedOnlyAcrossAnchors, Sorted, SuggestedAsListed, Written
  <1>2. IInv /\ [Next]_vars => IInv'
    BY <1>1, BeginKeeps, AskKeeps, CollectKeeps, DestroyKeeps, SortAndFindKeeps, WriteRowKeeps,
       AnswerKeeps DEF Next
  <1> QED BY <1>2, InitIInv, PTL DEF Spec
-----------------------------------------------------------------------------
\* The variables keep their types: what is written is made of texts.
THEOREM TypesHold == Spec => []TypeOK
  <1>1. IInv => TypeOK
    BY DEF IInv
  <1> QED BY <1>1, Invariance, PTL

\* Every provider an anchor reported is in the list that is written, whatever
\* the look-ups made of destroyed keys.
THEOREM EveryoneOffered == Spec => []EveryOpOffered
  <1>1. IInv => EveryOpOffered
    BY DEF IInv, NothingMissed, HasRow, EveryOpOffered
  <1> QED BY <1>1, Invariance, PTL

\* Two rows of one provider come from two anchors.
THEOREM NoRepetitionWithinAnchor == Spec => []RepeatedOnlyAcrossAnchors
  <1>1. IInv => RepeatedOnlyAcrossAnchors
    BY DEF IInv
  <1> QED BY <1>1, Invariance, PTL

\* No row points into what an anchor reported.
THEOREM RowsNeverDangle == Spec => []NothingDangles
  <1>1. IInv => NothingDangles
    BY DEF IInv, RowsCopied, NothingDangles, Live, PointsTo
  <1> QED BY <1>1, Invariance, PTL

\* The order of the comparison is the order of the names that are shown, but
\* for rows with an empty name.
THEOREM ListShownInOrder == Spec => []ShownInOrder
  <1>1. IInv => ShownInOrder
    <2> SUFFICES ASSUME IInv, Written, NEW i \in DOMAIN ops_list, NEW j \in DOMAIN ops_list, i < j,
                        ~EmptyName(ops_list[i])
                 PROVE  Shown(ops_list[i]).text <= Shown(ops_list[j]).text
      BY DEF ShownInOrder
    <2>1. ops_list[i] \in Row /\ ops_list[j] \in Row
      BY DEF IInv, TypeOK
    <2>2. ComparedBy(ops_list[i]) <= ComparedBy(ops_list[j])
      BY DEF IInv, Sorted
    <2>3. Shown(ops_list[i]).text = ComparedBy(ops_list[i])
      BY DEF Shown, ComparedBy, EmptyName
    <2>4. ComparedBy(ops_list[i]) \in Nat /\ ComparedBy(ops_list[j]) \in Nat
      BY <2>1, ComparedByNat
    <2>5. Shown(ops_list[j]).text \in Nat
      <3>1. Shown(ops_list[j]) \in Pointer
        BY <2>1, ShownFacts
      <3> QED BY <3>1, EntityIdAssumption, DisplayNameAssumption DEF Pointer, Text
    <2>6. CASE EmptyName(ops_list[j])
      <3>1. ComparedBy(ops_list[j]) = 0
        BY <2>6 DEF EmptyName, ComparedBy
      <3> QED BY <2>2, <2>3, <2>4, <2>5, <3>1
    <2>7. CASE ~EmptyName(ops_list[j])
      <3>1. ComparedBy(ops_list[j]) = Shown(ops_list[j]).text
        BY <2>7 DEF EmptyName, ComparedBy, Shown
      <3> QED BY <2>2, <2>3, <3>1
    <2> QED BY <2>6, <2>7
  <1> QED BY <1>1, Invariance, PTL

\* The suggestion is the first row of the provider that was hinted at.
THEOREM HintSuggested == Spec => []SuggestedAsListed
  <1>1. IInv => SuggestedAsListed
    BY DEF IInv
  <1> QED BY <1>1, Invariance, PTL

\* Beside each row that is written stands what si_fmt makes of its C index.
RowsNumbered == \A i \in DOMAIN page : page[i].op_index = si_fmt(i - 1)

\* Each turn of the writing loop adds the next number, and nothing else touches a
\* row that is written.
LEMMA NextKeepsNumbers == IInv /\ RowsNumbered /\ [Next]_vars => RowsNumbered'
  <1> SUFFICES ASSUME IInv, RowsNumbered, [Next]_vars PROVE RowsNumbered'
    OBVIOUS
  <1>1. CASE WriteRow
    <2>1. page \in Seq(PageRow) /\ Len(page) \in Nat
      BY DEF IInv, Sequential
    <2> PICK row \in PageRow : page' = Append(page, row) /\ row.op_index = si_fmt(Len(page))
      <3> DEFINE written == [op_index |-> si_fmt(Len(page)), iss |-> ops_list[Len(page) + 1].entity_id,
                             name |-> Shown(ops_list[Len(page) + 1])]
      <3>1. page' = Append(page, written)
        BY <1>1 DEF WriteRow
      <3>2. ops_list[Len(page) + 1] \in Row
        BY <1>1, <2>1 DEF WriteRow, IInv, Sequential
      <3>3. written \in PageRow
        BY <2>1, <3>2, ShownFacts DEF PageRow, Row
      <3> QED BY <3>1, <3>3
    <2>2. /\ DOMAIN page' = 1 .. Len(page) + 1
          /\ \A i \in 1 .. Len(page) : page'[i] = page[i]
          /\ page'[Len(page) + 1] = row
      BY <2>1
    <2>3. \A i \in 1 .. Len(page) : page[i].op_index = si_fmt(i - 1)
      BY <2>1 DEF RowsNumbered
    <2>4. \A i \in 1 .. Len(page) + 1 : i \in 1 .. Len(page) \/ (i = Len(page) + 1 /\ i - 1 = Len(page))
      BY <2>1
    <2> QED BY <2>2, <2>3, <2>4, Zenon DEF RowsNumbered
  <1>2. CASE Begin
    BY <1>2 DEF Begin, RowsNumbered
  <1> QED BY <1>1, <1>2
      DEF Next, Ask, Collect, DestroyEntities, SortAndFind, Answer, vars, RowsNumbered

\* The number beside a row reads back as the place of the row, in every base and
\* however long the list is.
THEOREM NumbersReadBack == Spec => []NumberedByRow
  <1>1. Init => RowsNumbered
    BY DEF Init, RowsNumbered
  <1>2. IInv /\ RowsNumbered => NumberedByRow
    <2> SUFFICES ASSUME IInv, RowsNumbered, NEW i \in DOMAIN page
                 PROVE  LET text == Append(page[i].op_index, NUL)
                        IN  strtoumax(text, 1) = [value |-> i - 1, end |-> Len(text)]
      BY DEF NumberedByRow
    <2>1. i - 1 \in Nat
      BY DEF IInv, Sequential
    <2> QED BY <2>1, TextOfNumberReadsBack DEF RowsNumbered
  <1> QED BY <1>1, <1>2, NextKeepsNumbers, Invariance, InitIInv, PTL DEF Spec
=============================================================================
