----------------------------- MODULE SettingsForm -----------------------------
(***************************************************************************)
(* The form of the settings page: http_get_form_field of http_helper.c,    *)
(* ESP_GET_DEVICE_CONF and ESP_SET_DEVICE_CONF of esp_server_handler, and  *)
(* the page's own script (http_defs.h).  The body is one text: a sequence  *)
(* of ASCII codes, in which the name of a field with its "=" is one        *)
(* symbol, wherever it occurs, in what was typed in too.  Its code modulo  *)
(* 256 is that of the name's first letter.                                 *)
(*                                                                         *)
(* One setting stands for each kind of conversion: the id (number_buf), the*)
(* description (for the texts), the altitude (for the three doubles), the  *)
(* mode (one character) and SO2_specSN (for the four serial numbers).      *)
(***************************************************************************)
EXTENDS NumberHelper

CONSTANT ULL    \* where unsigned long long wraps: 2^64

ASSUME ULLAssumption == ULL \in Nat \ {0}

Quote == 34
Amp == 38
Backslash == 92

Id == 256 + 105
Desc == 2 * 256 + 100
Alt == 3 * 256 + 97
Mode == 4 * 256 + 109
So2Id == 5 * 256 + 115

Holds(text, symbol) == \E i \in DOMAIN text : text[i] = symbol

-----------------------------------------------------------------------------
(* The page *)

(* JSON.parse fails on a quote or a control character in a text, and the    *)
(* page goes on with the defaults; JSON's escapes are left out: a text with *)
(* a backslash is taken for one that it fails on.                           *)
JsonReads(text) == \A i \in DOMAIN text : text[i] >= 32 /\ text[i] \notin {Quote, Backslash}
Defaults == [id |-> 0, working_status |-> 0, desc |-> <<>>, altitude |-> 0, SO2_specSN |-> 0]

(* JSON's "8.50" is shown as "8.5", its "8.00" as "8" and "-0.00" as "0".   *)
WithoutZeros(text) ==
  LET n == Len(text)
      short == CASE text[n] # Zero -> text
                 [] text[n] = Zero /\ text[n - 1] # Zero -> SubSeq(text, 1, n - 1)
                 [] OTHER -> SubSeq(text, 1, n - 3)
  IN IF short = <<Minus, Zero>> THEN <<Zero>> ELSE short

(* What the page shows, and posts when nothing is edited.  Any mode but 1   *)
(* is "Off".                                                                *)
Shown(settings) ==
  LET read == IF JsonReads(settings.desc) THEN settings ELSE Defaults IN
  [ id |-> Decimal[read.id],
    desc |-> read.desc,
    alt |-> WithoutZeros(ftoa(read.altitude, 2)),
    mode |-> <<IF read.working_status = 1 THEN Zero + 1 ELSE Zero>>,
    so2_id |-> ulltoa(read.SO2_specSN) ]

(* What is typed in goes into the body as it is.                            *)
Body(form) ==
  <<Id>> \o form.id \o <<Amp, Desc>> \o form.desc \o <<Amp, Alt>> \o form.alt
    \o <<Amp, Mode>> \o form.mode \o <<Amp, So2Id>> \o form.so2_id

-----------------------------------------------------------------------------
(* The device *)

(* strstr finds "id=" also at the end of "so2_id=".                         *)
EndsWith(symbol, sought) == symbol = sought \/ <<symbol, sought>> = <<So2Id, Id>>

LastHitBug(data, sought) ==
  LET hits == {i \in DOMAIN data : EndsWith(data[i], sought)}
  IN CHOOSE i \in hits : \A j \in hits : i >= j

(* The first hit counts.  Every name is in the page's form.                 *)
FirstHit(data, sought) ==
  LET hits == {i \in DOMAIN data : EndsWith(data[i], sought)}
  IN CHOOSE i \in hits : \A j \in hits : i <= j

(* The value goes up to the next "&", or to the end.                        *)
http_get_form_field(data, sought) ==
  LET pos == FirstHit(data, sought)
      Stops == {i \in pos + 1 .. Len(data) + 1 : i > Len(data) \/ data[i] = Amp}
      stop == CHOOSE i \in Stops : \A j \in Stops : i <= j
  IN SubSeq(data, pos + 1, stop - 1)

(* number_buf is static and never cleared: of a longer id before, the last  *)
(* digits remain.                                                           *)
Overlaid(number_buf, text) ==
  text \o SubSeq(number_buf, Len(text) + 1, Len(number_buf))

(* One character is taken for the mode, whatever the length of its field;   *)
(* the id and the mode are stored in a byte.                                *)
Filled(number_buf, data) ==
  [ id |-> atoi(Overlaid(number_buf, http_get_form_field(data, Id))) % 256,
    working_status |-> (data[FirstHit(data, Mode) + 1] - Zero) % 256,
    desc |-> http_get_form_field(data, Desc),
    altitude |-> atof(http_get_form_field(data, Alt)),
    SO2_specSN |-> atoull(http_get_form_field(data, So2Id)) % ULL ]
=============================================================================
