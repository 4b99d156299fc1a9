---------------------------- MODULE ServerConfig ----------------------------
(***************************************************************************)
(* The configuration of the module, from the directives httpd reads to the *)
(* configuration each server runs with.  httpd makes a configuration for a *)
(* server when the first directive of the module turns up in its section;  *)
(* when all is read, it merges the main server's into that of each virtual *)
(* host, and gives virtual hosts without one the main server's itself.     *)
(*                                                                         *)
(* A text is represented by its length, 0 for the empty one: fixed-size    *)
(* fields are what texts do not fit into.                                  *)
(***************************************************************************)
EXTENDS Naturals, Sequences

CONSTANTS
    VHost,          \* virtual hosts; the main server is Main
    Main,
    Field,          \* the fields set by SAFE_COPY_CONFIG and merged by strlcpy
    Size,           \* size in bytes of every text field
    Default,        \* the default of Field and of login_url
    ListField,      \* lists: trust anchors, hints, redirect URIs, types
    Max,            \* capacity of each list
    DefaultList,    \* contents of each list in a fresh configuration
    Item,           \* what can be added to a list or to the filter chain
    MaxText,        \* bound on the length of a text in a directive
    MaxDirectives,  \* bound on the directives of the module
    NoConfig

ASSUME SizeAssumption == Size \in Nat \ {0, 1}
ASSUME DefaultAssumption == Default \in 1 .. Size - 1
ASSUME MaxAssumption == Max \in [ListField -> Nat \ {0}]
ASSUME DefaultListAssumption ==
    /\ DefaultList \in [ListField -> Seq(Item)]
    /\ \A l \in ListField : Len(DefaultList[l]) <= Max[l]
ASSUME MainAssumption == Main \notin VHost
ASSUME FieldAssumption == "login_url" \notin Field /\ "home_discovery_op_hint" \notin Field
ASSUME TextAssumption == MaxText \in Nat /\ MaxDirectives \in Nat

Server == VHost \union {Main}
Text == 0 .. MaxText

\* login_url, the other texts, and the hint: all the text fields.
TextField == Field \union {"login_url", "home_discovery_op_hint"}

Cfg == [text : [TextField -> 0 .. Size - 1], list : [ListField -> Seq(Item)], filters : Seq(Item)]

ASSUME NoConfigAssumption == NoConfig \notin Cfg

VARIABLES
    stage,      \* "reading", "refused" or "running"
    own,        \* each server's own configuration, or NoConfig
    running,    \* the configuration each server runs with, or NoConfig
    written,    \* the text of the last directive for each field, or Unwritten
    added,      \* the items the directives added to each list
    count       \* directives read

vars == <<stage, own, running, written, added, count>>

\* oidfed_config_init
Fresh == [text |-> [f \in TextField |-> IF f = "home_discovery_op_hint" THEN 0 ELSE Default],
          list |-> DefaultList,
          filters |-> <<>>]

Unwritten == Size + MaxText

Init ==
    /\ stage = "reading"
    /\ own = [s \in Server |-> NoConfig]
    /\ running = [s \in Server |-> NoConfig]
    /\ written = [s \in Server |-> [f \in TextField |-> Unwritten]]
    /\ added = [s \in Server |-> [l \in ListField |-> <<>>]]
    /\ count = 0

\* Fault: strcpy instead of strlcpy.
CopiedWhole(t) == t

\* strlcpy into a field of Size bytes.
Copied(t) == IF t < Size THEN t ELSE Size - 1

\* The configuration a directive of server s works on.
Configured(s) == IF own[s] = NoConfig THEN Fresh ELSE own[s]

Refuse == stage' = "refused" /\ UNCHANGED <<own, running, written, added, count>>

Reading == stage = "reading" /\ count < MaxDirectives

Accepted(s, cfg) ==
    /\ own' = [own EXCEPT ![s] = cfg]
    /\ count' = count + 1
    /\ UNCHANGED <<stage, running>>

SetText(s, f, t) ==
    /\ Accepted(s, [Configured(s) EXCEPT !.text[f] = Copied(t)])
    /\ written' = [written EXCEPT ![s][f] = t]
    /\ UNCHANGED added

\* Fault: the length is compared the way oidfed_cfg_login_url compares it.
TooLongLate(t) == t > Size

TooLong(t) == t >= Size

\* SAFE_COPY_CONFIG: a directive that does not fit keeps httpd from starting.
SafeCopy(s, f, t) ==
    /\ Reading
    /\ IF TooLong(t) THEN Refuse ELSE SetText(s, f, t)

\* oidfed_cfg_login_url, with the comparison it makes; the empty path is not
\* absolute.
LoginUrl(s, t, absolute) ==
    /\ Reading
    /\ IF t = 0 \/ ~absolute \/ t > Size THEN Refuse ELSE SetText(s, "login_url", t)

Full(s, l) == Len(Configured(s).list[l]) >= Max[l]

\* The directives that add to a list.
Add(s, l, i) ==
    /\ Reading
    /\ IF Full(s, l)
       THEN Refuse
       ELSE /\ Accepted(s, [Configured(s) EXCEPT !.list[l] = Append(@, i)])
            /\ added' = [added EXCEPT ![s][l] = Append(@, i)]
            /\ UNCHANGED written

\* OidfedAddOpFilterChain; no type at all is ignored.
AddFilter(s, i) ==
    /\ Reading
    /\ Accepted(s, [Configured(s) EXCEPT !.filters = Append(@, i)])
    /\ UNCHANGED <<written, added>>

\* A directive with an argument that is not accepted: a filter of an unknown
\* type, a key file that is missing or that others may read.
RefuseArgument == Reading /\ Refuse
-----------------------------------------------------------------------------
(* oidfed_merge_dir_config *)

\* The virtual host's text unless it is empty.
MergedText(base, new, f) ==
    IF f = "home_discovery_op_hint" THEN Fresh.text[f]
    ELSE IF new.text[f] = 0 THEN base.text[f] ELSE new.text[f]

\* Fault: the virtual host's items overwrite those of the main server.
MergedListOver(base, new, l) ==
    new.list[l] \o SubSeq(base.list[l], Len(new.list[l]) + 1, Len(base.list[l]))

MergedList(base, new, l) == base.list[l] \o new.list[l]

\* Fault: the sum of the lengths is not compared with the capacity.
OverflowsNever(base, new) == FALSE

\* Fault: a list that is exactly full counts as overflowing.
OverflowsEarly(base, new) ==
    \E l \in ListField : Len(base.list[l]) + Len(new.list[l]) >= Max[l]

Overflows(base, new) == \E l \in ListField : Len(base.list[l]) + Len(new.list[l]) > Max[l]

MergedFilters(base, new) == IF new.filters # <<>> THEN new.filters ELSE base.filters

Merged(base, new) ==
    IF Overflows(base, new)
    THEN NoConfig
    ELSE [text |-> [f \in TextField |-> MergedText(base, new, f)],
          list |-> [l \in ListField |-> MergedList(base, new, l)],
          filters |-> MergedFilters(base, new)]

\* httpd always makes a configuration for the main server.
Start ==
    /\ stage = "reading"
    /\ stage' = "running"
    /\ running' = [s \in Server |->
                      IF s = Main \/ own[s] = NoConfig
                      THEN Configured(Main)
                      ELSE Merged(Configured(Main), own[s])]
    /\ UNCHANGED <<own, written, added, count>>

Directive(s) ==
    \/ \E f \in TextField \ {"login_url"}, t \in Text : SafeCopy(s, f, t)
    \/ \E t \in Text, absolute \in BOOLEAN : LoginUrl(s, t, absolute)
    \/ \E l \in ListField, i \in Item : Add(s, l, i)
    \/ \E i \in Item : AddFilter(s, i)

Next == (\E s \in Server : Directive(s)) \/ RefuseArgument \/ Start

Spec == Init /\ [][Next]_vars
-----------------------------------------------------------------------------
\* Types of the variables.
TypeOK ==
    /\ stage \in {"reading", "refused", "running"}
    /\ own \in [Server -> Cfg \union {NoConfig}]
    /\ running \in [Server -> Cfg \union {NoConfig}]
    /\ written \in [Server -> [TextField -> Text \union {Unwritten}]]
    /\ added \in [Server -> [ListField -> Seq(Item)]]
    /\ count \in 0 .. MaxDirectives

Running(s) == stage = "running" /\ running[s] # NoConfig

\* No list is ever longer than the array that holds it, neither while it is
\* read nor after the lists of two servers are joined.
NoOverrun ==
    \A s \in Server, l \in ListField :
        /\ own[s] # NoConfig => Len(own[s].list[l]) <= Max[l]
        /\ running[s] # NoConfig => Len(running[s].list[l]) <= Max[l]

\* What a directive wrote in a server's own section is what the server runs
\* with, unshortened: of the fields SAFE_COPY_CONFIG guards, and unless it
\* wrote nothing.
OwnTextEffective ==
    \A s \in Server, f \in Field :
        Running(s) /\ written[s][f] \in Text \ {0} => running[s].text[f] = written[s][f]

\* No item gets lost or displaced in a merge: a server runs with the main
\* server's items and its own, in the order they were added.
ItemsKept ==
    \A s \in Server, l \in ListField :
        Running(s) =>
            running[s].list[l] =
                DefaultList[l] \o added[Main][l] \o
                    (IF s = Main \/ own[s] = NoConfig THEN <<>>
                     ELSE DefaultList[l] \o added[s][l])

\* A server is only left without a configuration by a merge, and only if the
\* two sections together hold more than a list has room for.
LostOnlyByOverflow ==
    \A s \in Server :
        stage = "running" /\ running[s] = NoConfig =>
            /\ s # Main
            /\ \E l \in ListField :
                  2 * Len(DefaultList[l]) + Len(added[Main][l]) + Len(added[s][l]) > Max[l]

\* The command table says of OidfedHomeDiscoveryAddOPHint that the hint is
\* passed when a user is redirected to the home discovery endpoint.
HintEffective ==
    \A s \in Server :
        Running(s) /\ written[s]["home_discovery_op_hint"] \in Text \ {0}
            => running[s].text["home_discovery_op_hint"] = written[s]["home_discovery_op_hint"]

\* oidfed_cfg_login_url refuses what is too long for login_url, so that what it
\* accepts is the login path.
LoginUrlEffective ==
    \A s \in Server :
        Running(s) /\ written[s]["login_url"] \in Text
            => running[s].text["login_url"] = written[s]["login_url"]
=============================================================================
