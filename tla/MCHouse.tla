------------------------------- MODULE MCHouse -------------------------------
(***************************************************************************)
(* The house for TLC: small values for every part, and what of each part   *)
(* is explored.                                                            *)
(***************************************************************************)
EXTENDS House

-----------------------------------------------------------------------------
(* Seating: plans look at places and never at names, so that rooms with the  *)
(* same places taken are explored once.                                      *)

Places == <<room.tables, {room.at[e] : e \in Room!Seated}, room.clash, came>>

SeatingPlan == room.at \in [1 .. MaxEntries -> [table : Nat, seat : Nat]]

(* Structures: two grids that are accepted, and one for each refusal.        *)

Level(n, small, big) ==
  [number |-> n, small |-> small, big |-> big, break |-> FALSE, label |-> FALSE]
Break(n, named) == [Level(n, 1, 2) EXCEPT !.break = TRUE, !.label = named]

Short == <<Level(1, 1, 2)>>
Long == <<Level(2, 2, 4), Level(1, 1, 1)>>
Sent == {Short, Long, <<Level(1, 2, 1)>>, <<Level(1, 1, 2), Level(1, 2, 4)>>,
         <<Level(2, 1, 2)>>, <<Level(1, 1, 2), Break(2, FALSE)>>}

(* A tab: either its users sign in and out, or its pages ask for things.      *)

TwoClubs == [u \in Users |-> <<"k1", "k2">>]

Kinds == {flow[t][f].kind : t \in Tabs, f \in Slots} \ {None}

BrowserPlan ==
  \/ /\ Kinds \subseteq {"login", "logout", "hydrate"}
     /\ \A t \in Tabs : tab[t].loads = 1 /\ tab[t].shown # "k2"
  \/ /\ Kinds \subseteq {"query", "refreshClubes", "hydrate"}
     /\ \A t \in Tabs : tab[t].attempt = 1 /\ tab[t].loads = 1
  \/ Kinds \subseteq {"hydrate"} /\ \A t \in Tabs : tab[t].attempt = 1

(* Clubs: one club at most has a code.                                        *)

ClubPlan == Cardinality({c \in Clubs : code[c] # None}) <= 1

(* The page of a table, with one request under way, or two kinds of sit.      *)

UnderWay == {m \in Grid!Mutations : sent[m] # None}

GridPlan ==
  /\ Cardinality(UnderWay) <= 1 \/ (Cardinality(UnderWay) = 2 /\ UnderWay \subseteq Grid!Sitting)
  /\ \A n \in DOMAIN crossed : crossed[n] <= 1
  /\ page.confirming \/ page.report \/ page.left => typed = <<>> /\ Len(players) <= 1
  /\ page.admin \/ view = hall
  /\ "CLOSED" \in {hall.status, view.status} => typed = <<>> /\ lost = 0

(* The page of a tournament, with one request under way.                     *)

DetailPlan ==
  /\ Cardinality(sent) <= 1
  /\ page.eliminating # 0 \/ page.place # 0 => ~page.searching /\ page.bonus = None
  /\ page.admin \/ view = tour
  /\ (\E q \in sent : q.op \in {"register", "unregister", "finish", "registerGuest"}) =>
       ~page.searching /\ page.place = 0

(* The gateway: one charge or transfer, and a question about it.             *)

Amounts == {[whole |-> 1, frac |-> <<5>>], [whole |-> 0, frac |-> <<0, 0, 5>>]}

GatewayPlan == Cardinality({o \in Orders : order[o].op \in {"charge", "withdrawal"}}) <= 1

(* The page that operates the clock, with two commands under way, and the     *)
(* form of a tournament, with one optional field filled at a time.            *)

\* Two slots are told apart by nothing: what they hold is enough.
Commands == <<clock, shown, poll, form, latest, {asked[s] : s \in Slots}>>

ControlPlan ==
  (\A s \in Slots : asked[s] # None) =>
    clock.last = LastLevel /\ (form # None => form.value # 0)

SetupPlan ==
  /\ asked # None => Setup!ToPayload(form) = asked.payload
  /\ Cardinality({field \in {"most", "until", "bonus"} : form[field] # Setup!Empty}) <= 1
  /\ clock # None /\ (clock.entered \/ clock.started) => shown \in {None, clock}
  /\ poll = "create" => shown = None /\ form.terms # 2
  /\ form.offers \/ form.structure # Setup!Empty => form.terms # 2
  /\ form.reentry => form.bonus = Setup!Empty /\ ~form.offers
  /\ form.structure # Setup!Empty => form.most = Setup!Empty /\ form.bonus = Setup!Empty

-----------------------------------------------------------------------------

Seen ==
  CASE part = "seating" -> Places
    [] part = "control" -> Commands
    [] OTHER -> vars

Plan ==
  /\ part = "seating" => SeatingPlan
  /\ part = "browser" => BrowserPlan
  /\ part = "clubs" => ClubPlan
  /\ part = "grid" => GridPlan
  /\ part = "detail" => DetailPlan
  /\ part = "gateway" => GatewayPlan
  /\ part = "control" => ControlPlan
  /\ part = "form" => SetupPlan
=============================================================================
