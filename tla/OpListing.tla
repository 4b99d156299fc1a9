----------------------------- MODULE OpListing -----------------------------
(***************************************************************************)
(* The page on which a user chooses a provider: req_login_ui_handler.      *)
(* One trust anchor after the other is asked for the providers below it;   *)
(* each becomes a row, unless the hash of those seen so far knows it.  The *)
(* rows are sorted and written out, the one the request hints at twice.    *)
(*                                                                         *)
(* What a trust anchor reports is memory of the library, and is destroyed  *)
(* before the next one is asked.  The rows are copies; the keys of the     *)
(* hash are not, so the look-ups for a later anchor compare with memory    *)
(* that is gone.                                                           *)
(***************************************************************************)
EXTENDS Netstring, FiniteSets

CONSTANTS
    EntityId,       \* entity identifiers of providers
    DisplayName,    \* names the providers give themselves
    UiNames,        \* the sequences of names, or None, over a provider's UI entries
    TrustAnchors,   \* how many trust anchors the worker's runtime has
    MaxEntities,    \* bound on the providers one trust anchor reports
    None

\* A text is its place in the order of strcmp; 0 is the empty one.
ASSUME EntityIdAssumption == EntityId \subseteq Nat \ {0}
ASSUME DisplayNameAssumption == DisplayName \subseteq Nat
ASSUME UiNamesAssumption == UiNames \subseteq Seq(DisplayName \union {None})
ASSUME TrustAnchorsAssumption == TrustAnchors \in Nat
ASSUME MaxEntitiesAssumption == MaxEntities \in Nat

VARIABLES
    pc,             \* where the handler is
    hint,           \* the provider the request hints at
    anchor,         \* the trust anchor being asked
    entities,       \* what is left of its answer
    rendered_ops,   \* the keys of the hash
    ops_list,       \* the rows
    hinted,         \* the suggestion
    page,           \* what is written: the rows' numbers, links and names
    reported        \* the providers reported so far

vars == <<pc, hint, anchor, entities, rendered_ops, ops_list, hinted, page, reported>>

Text == EntityId \union DisplayName
Entity == [entity_id : EntityId, names : UiNames]
Anchor == 1 .. TrustAnchors

\* A pointer to a text: in the pool of the request, or in what an anchor reported.
Pool == 0
Pointer == [text : Text, memory : {Pool} \union Anchor]
PointsTo(p, memory) == p.memory = memory

\* The memory an anchor's answer is in lasts until the next one is asked.
Live(p) == PointsTo(p, Pool) \/ (pc = "collecting" /\ PointsTo(p, anchor))

Row == [entity_id : Pointer, display_name : Pointer \union {None}, anchor : Anchor]

\* The null pointer is neither a text nor a row.
ASSUME ListingNoneAssumption == None \notin Nat /\ None \notin Row

NoSuggestion == None

Init ==
    /\ pc = "idle"
    /\ hint = None
    /\ anchor = 0
    /\ entities = <<>>
    /\ rendered_ops = {}
    /\ ops_list = <<>>
    /\ hinted = NoSuggestion
    /\ page = <<>>
    /\ reported = {}
-----------------------------------------------------------------------------
\* A request without entity_id is answered 400 and changes nothing.
Begin ==
    /\ pc = "idle"
    /\ pc' = "asking"
    /\ hint' \in EntityId \union {None}
    /\ anchor' = 0
    /\ rendered_ops' = {}
    /\ ops_list' = <<>>
    /\ hinted' = NoSuggestion
    /\ page' = <<>>
    /\ reported' = {}
    /\ UNCHANGED entities

\* The library reports the providers below the next trust anchor that pass the
\* filter; none when it fails.
Ask ==
    /\ pc = "asking" /\ anchor < TrustAnchors
    /\ anchor' = anchor + 1
    /\ \E n \in 0 .. MaxEntities : entities' \in [1 .. n -> Entity]
    /\ pc' = "collecting"
    /\ UNCHANGED <<hint, rendered_ops, ops_list, hinted, page, reported>>

\* Fault: a key whose memory is gone matches whatever is looked up.
RenderedByAny(id) ==
    IF \E key \in rendered_ops : ~Live(key) THEN {TRUE}
    ELSE {\E key \in rendered_ops : key.text = id}

\* What the look-up of a provider may say.  An entry is compared by its hash
\* value, which is its own, and then by its key: when that is in destroyed
\* memory either answer is possible, but only for the provider it was made for.
Rendered(id) ==
    LET same == {key \in rendered_ops : key.text = id} IN
    IF \E key \in same : Live(key) THEN {TRUE}
    ELSE IF same = {} THEN {FALSE}
    ELSE BOOLEAN

\* Fault: a row keeps the library's pointer.
InPoolShared(text) == [text |-> text, memory |-> anchor]

\* apr_pstrdup.
InPool(text) == [text |-> text, memory |-> Pool]

\* The last name there is.
LastName(names) ==
    LET given == {i \in 1 .. Len(names) : names[i] # None} IN
    IF given = {} THEN None ELSE names[CHOOSE i \in given : \A j \in given : j <= i]

extract_entity_info(entity) ==
    LET name == LastName(entity.names) IN
    [entity_id |-> InPool(entity.entity_id),
     display_name |-> IF name = None THEN None ELSE InPool(name),
     anchor |-> anchor]

\* Fault: the key is not remembered.
KeysForgotten(id) == {}

KeysFor(id) == {[text |-> id, memory |-> anchor]}

Collect ==
    /\ pc = "collecting" /\ entities # <<>>
    /\ LET entity == Head(entities) IN
       /\ \E found \in Rendered(entity.entity_id) :
             IF found THEN UNCHANGED <<rendered_ops, ops_list>>
             ELSE /\ rendered_ops' = rendered_ops \union KeysFor(entity.entity_id)
                  /\ ops_list' = Append(ops_list, extract_entity_info(entity))
       /\ reported' = reported \union {entity.entity_id}
    /\ entities' = Tail(entities)
    /\ UNCHANGED <<pc, hint, anchor, hinted, page>>

\* The second loop over the entities.
DestroyEntities ==
    /\ pc = "collecting" /\ entities = <<>>
    /\ pc' = "asking"
    /\ UNCHANGED <<hint, anchor, entities, rendered_ops, ops_list, hinted, page, reported>>

\* Fault: rows are compared by identifier only.
CompareByEntityId(row) == row.entity_id.text

\* The text by which compare_ops compares: a display name counts if it is there,
\* even an empty one.
ComparedBy(row) ==
    IF row.display_name # None THEN row.display_name.text ELSE row.entity_id.text

\* Fault: the last row of the hinted provider is taken.
LastOf(indices) == CHOOSE i \in indices : \A j \in indices : j <= i

First(indices) == CHOOSE i \in indices : \A j \in indices : i <= j

\* qsort, which may leave rows that compare equal in any order, and the search
\* for the hint.
SortAndFind ==
    /\ pc = "asking" /\ anchor = TrustAnchors
    /\ \E p \in [DOMAIN ops_list -> DOMAIN ops_list] :
          /\ \A i, j \in DOMAIN p : i < j =>
                p[i] # p[j] /\ ComparedBy(ops_list[p[i]]) <= ComparedBy(ops_list[p[j]])
          /\ ops_list' = [i \in DOMAIN p |-> ops_list[p[i]]]
    /\ LET matching == {i \in DOMAIN ops_list : ops_list'[i].entity_id.text = hint} IN
       hinted' = IF matching = {} THEN NoSuggestion ELSE ops_list'[First(matching)]
    /\ pc' = "writing"
    /\ UNCHANGED <<hint, anchor, entities, rendered_ops, page, reported>>

EmptyName(row) == row.display_name # None /\ row.display_name.text = 0

\* Fault: a name that is missing is written like any other.
ShownRaw(row) == row.display_name

\* What a row is shown as: the identifier when there is no name, or an empty one.
Shown(row) ==
    IF row.display_name = None \/ EmptyName(row) THEN row.entity_id ELSE row.display_name

\* One turn of the writing loop; the C index i is one less than the row's place.
WriteRow ==
    /\ pc = "writing" /\ Len(page) < Len(ops_list)
    /\ LET i == Len(page)
           row == ops_list[i + 1]
       IN  page' = Append(page, [op_index |-> si_fmt(i), iss |-> row.entity_id, name |-> Shown(row)])
    /\ UNCHANGED <<pc, hint, anchor, entities, rendered_ops, ops_list, hinted, reported>>

Answer ==
    /\ pc = "writing" /\ Len(page) = Len(ops_list)
    /\ pc' = "idle"
    /\ UNCHANGED <<hint, anchor, entities, rendered_ops, ops_list, hinted, page, reported>>

Next == Begin \/ Ask \/ Collect \/ DestroyEntities \/ SortAndFind \/ WriteRow \/ Answer

Spec == Init /\ [][Next]_vars
-----------------------------------------------------------------------------
\* Types of the variables.
TypeOK ==
    /\ pc \in {"idle", "asking", "collecting", "writing"}
    /\ hint \in EntityId \union {None}
    /\ anchor \in {0} \union Anchor
    /\ entities \in UNION {[1 .. n -> Entity] : n \in 0 .. MaxEntities}
    /\ \A key \in rendered_ops : key.text \in EntityId /\ key.memory \in Anchor
    /\ \A i \in DOMAIN ops_list : ops_list[i] \in Row
    /\ hinted \in Row \union {NoSuggestion}
    /\ \A i \in DOMAIN page : page[i].iss \in Pointer /\ page[i].name \in Pointer
    /\ reported \subseteq EntityId

\* The list is being written.
Written == pc = "writing"

\* Every provider that some trust anchor reports can be chosen, although the
\* look-ups read destroyed memory: a stale key can hide nobody else.
EveryOpOffered ==
    Written => \A id \in reported : \E i \in DOMAIN ops_list : ops_list[i].entity_id.text = id

\* A provider is in the list twice only if two trust anchors report it: the
\* keys of one anchor's answer outlive the loop that compares with them.
RepeatedOnlyAcrossAnchors ==
    \A i, j \in DOMAIN ops_list :
        /\ i # j
        /\ ops_list[i].entity_id.text = ops_list[j].entity_id.text
        => ops_list[i].anchor # ops_list[j].anchor

\* Nothing that is sorted, compared or written is in memory that was destroyed.
NothingDangles ==
    \A i \in DOMAIN ops_list :
        /\ Live(ops_list[i].entity_id)
        /\ ops_list[i].display_name # None => Live(ops_list[i].display_name)

\* A reader finds the providers in the order of the names they are shown under,
\* but for those with an empty name: they are shown under their identifiers and
\* come first.
ShownInOrder ==
    Written => \A i, j \in DOMAIN ops_list :
        i < j => \/ EmptyName(ops_list[i])
                 \/ Shown(ops_list[i]).text <= Shown(ops_list[j]).text

\* The provider the request hints at is suggested exactly when it is in the list,
\* under the name of the row that is its first there, even when anchors disagree
\* about its name.
SuggestedAsListed ==
    Written =>
        IF hinted = NoSuggestion THEN hint \notin reported
        ELSE /\ hinted.entity_id.text = hint
             /\ \E i \in DOMAIN ops_list :
                   /\ ops_list[i] = hinted
                   /\ \A j \in 1 .. i - 1 : ops_list[j].entity_id.text # hint

\* The number written beside a row reads back as the number of the row: the loop
\* that counts digits and the loop that writes them agree, at zero and at the
\* powers of the base as well.
NumberedByRow ==
    \A i \in DOMAIN page :
        LET text == Append(page[i].op_index, NUL) IN
        strtoumax(text, 1) = [value |-> i - 1, end |-> Len(text)]
=============================================================================
