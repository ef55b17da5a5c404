----------------------------- MODULE MCHttpRouting -----------------------------
(* Two networks whose names differ in length; settings with ids of one and   *)
(* two digits, a zero among them, altitudes of either sign, one of them with *)
(* more places than are shown and one shown without any; texts with "&", a   *)
(* quote and the names of fields; every method and route with every body a   *)
(* client can give it.                                                       *)
EXTENDS HttpRouting

TwoNetworks == {"home", "office"}
TheirLengths == [n \in TwoNetworks |-> IF n = "home" THEN 4 ELSE 6]

SomeSetting(id, mode, desc, altitude, so2) ==
  [id |-> id, working_status |-> mode, desc |-> desc, altitude |-> altitude, SO2_specSN |-> so2]

Outdoor == SomeSetting(12, 1, <<65>>, -15057, 90)
Indoor == SomeSetting(5, 0, <<66, 32, 67>>, 1200000, 7)
New == SomeSetting(0, 0, <<68>>, -30, 0)
SomeSettings == {Outdoor, New}

(* "a&b", "a&mode=1", "see alt=7", and a quote                               *)
Awkward ==
  { <<65, Amp, 66>>, <<65, Amp, Mode, Zero + 1>>, <<65, 32, Alt, Zero + 7>>, <<65, Quote>> }

SomeForms ==
  {Shown(New)}
    \union {[Shown(Indoor) EXCEPT !.desc = text] : text \in Awkward}

Asking(method, name, body) ==
  [wellformed |-> TRUE, accepted |-> TRUE, method |-> method, name |-> name, body |-> body,
   form |-> NoForm]

Names == {route.name : route \in ALLOWED_ROUTES}

BodiesOf(name) ==
  {"none"} \union (CASE name = "network" -> TwoNetworks
                     [] name \in {"wifi-mode", "conf-mode"} -> Modes
                     [] OTHER -> {})

SomeRequests ==
  UNION {{Asking(m, name, body) : m \in {"GET", "POST"}, body \in BodiesOf(name)} : name \in Names}
    \union {[Asking("POST", "device-conf", "form") EXCEPT !.form = form] : form \in SomeForms}
    \union { Asking("GET", "favicon.ico", "none"),
             Asking("HEAD", "settings", "none"),
             [Asking("GET", "settings", "none") EXCEPT !.accepted = FALSE],
             [Asking("GET", "settings", "none") EXCEPT !.wellformed = FALSE] }
=============================================================================
