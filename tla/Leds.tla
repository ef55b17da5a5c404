--------------------------------- MODULE Leds ---------------------------------
(***************************************************************************)
(* leds.c and the loop of init_task (main.c) on top of Startup: once past  *)
(* its wait init_task blinks the LED of current_mode; reed_switch_task     *)
(* turns esp_server_mode over while the reed switch is held and changes    *)
(* the LED; wifi_task changes the mode on request and not the LED.         *)
(*                                                                         *)
(* init_task has the lowest priority: whatever wakes preempts it, between  *)
(* choosing a pin and toggling it too.  The two other tasks have the same  *)
(* priority and are sliced, between two accesses to esp_server_mode too.   *)
(***************************************************************************)
EXTENDS Startup

VARIABLES
  current_mode,
  esp_server_mode,
  lit,       \* the LEDs that are on
  pin,       \* what init_task is about to toggle, or "none"
  reed,      \* where reed_switch_task is
  stray,     \* history: LEDs lit after the mode had changed
  unshown    \* history: wifi_task has set the mode since it was last shown

leds == <<current_mode, esp_server_mode, lit, pin, reed, stray, unshown>>
ledsVars == <<startupVars, leds>>

choose_pin(mode) == CASE mode = "WORKING_MODE" -> "BLUE_LED"
                      [] mode = "WIFI_MODE" -> "GREEN_LED"

LedsInit ==
  /\ StartupInit
  /\ current_mode = "WORKING_MODE" /\ esp_server_mode = FALSE
  /\ lit = {} /\ pin = "none" /\ reed = "start"
  /\ stray = {} /\ unshown = FALSE

-----------------------------------------------------------------------------
(* init_task *)

NobodyReady == \A t \in Tasks : ~Ready(t)

ChoosePin ==
  /\ passed /\ NobodyReady /\ pin = "none"
  /\ pin' = choose_pin(current_mode)
  /\ UNCHANGED <<startupVars, current_mode, esp_server_mode, lit, reed, stray, unshown>>

(* and then it sleeps. *)
TogglePin ==
  /\ passed /\ NobodyReady /\ pin # "none"
  /\ pin' = "none"
  /\ lit' = IF pin \in lit THEN lit \ {pin} ELSE lit \union {pin}
  /\ stray' = IF pin = choose_pin(current_mode) THEN stray ELSE stray \union {pin}
  /\ UNCHANGED <<startupVars, current_mode, esp_server_mode, reed, unshown>>

-----------------------------------------------------------------------------
(* reed_switch_task: its round runs from one delay to the next.             *)

ReedRuns == Runs("reed_switch_task") /\ at["reed_switch_task"] = Loop("reed_switch_task")

(* vTaskDelay(1) comes before the first look. *)
ReedStarts ==
  /\ Round("reed_switch_task")
  /\ reed = "start" /\ reed' = "look"
  /\ UNCHANGED <<current_mode, esp_server_mode, lit, pin, stray, unshown>>

(* Held, it waits reedSwitchHoldInterval. *)
LookAtSwitch ==
  /\ Round("reed_switch_task")
  /\ reed = "look" /\ reed' \in {"look", "held"}
  /\ UNCHANGED <<current_mode, esp_server_mode, lit, pin, stray, unshown>>

LookAgain ==
  /\ ReedRuns
  /\ reed = "held" /\ reed' \in {"show", IF esp_server_mode THEN "clear" ELSE "set"}
  /\ UNCHANGED <<startupVars, current_mode, esp_server_mode, lit, pin, stray, unshown>>

Toggle ==
  /\ ReedRuns
  /\ reed \in {"clear", "set"} /\ reed' = "show"
  /\ esp_server_mode' = (reed = "set")
  /\ UNCHANGED <<startupVars, current_mode, lit, pin, stray, unshown>>

change_ledBug(mode) ==
  /\ current_mode' = mode
  /\ UNCHANGED <<lit, stray>>

(* The LED of the old mode is turned off. *)
change_led(mode) ==
  /\ current_mode' = mode
  /\ IF mode = current_mode THEN UNCHANGED <<lit, stray>>
     ELSE LET active_led == choose_pin(current_mode) IN
          lit' = lit \ {active_led} /\ stray' = stray \ {active_led}

ShowModeBug ==
  /\ Round("reed_switch_task")
  /\ reed = "show" /\ reed' = "look"
  /\ change_led(IF current_mode = "WIFI_MODE" THEN "WORKING_MODE" ELSE "WIFI_MODE")
  /\ unshown' = FALSE
  /\ UNCHANGED <<esp_server_mode, pin>>

ShowMode ==
  /\ Round("reed_switch_task")
  /\ reed = "show" /\ reed' = "look"
  /\ change_led(IF esp_server_mode THEN "WIFI_MODE" ELSE "WORKING_MODE")
  /\ unshown' = FALSE
  /\ UNCHANGED <<esp_server_mode, pin>>

-----------------------------------------------------------------------------

(* One round of wifi_task; a request for conf-mode may be in it.            *)
WifiRound ==
  /\ Round("wifi_task")
  /\ \/ UNCHANGED <<esp_server_mode, unshown>>
     \/ esp_server_mode' \in BOOLEAN /\ unshown' = TRUE
  /\ UNCHANGED <<current_mode, lit, pin, reed, stray>>

-----------------------------------------------------------------------------

StartupStep ==
  /\ \/ CreateTask \/ InitPasses \/ FirstPacket
     \/ \E t \in Tasks : Begin(t) \/ Wake(t)
     \/ \E t \in Tasks \ {"reed_switch_task", "wifi_task"} : Round(t)
  /\ UNCHANGED leds

LedsNext ==
  \/ StartupStep \/ ChoosePin \/ TogglePin
  \/ ReedStarts \/ LookAtSwitch \/ LookAgain \/ Toggle \/ ShowMode
  \/ WifiRound

LedsSpec == LedsInit /\ [][LedsNext]_ledsVars

(* A task that is ready and has no higher one ready gets to run; it may be  *)
(* preempted over and over.                                                 *)
LedsFairSpec ==
  /\ LedsSpec
  /\ SF_ledsVars(StartupStep /\ (CreateTask \/ InitPasses))
  /\ SF_ledsVars(StartupStep /\ \E t \in Tasks : Begin(t))

-----------------------------------------------------------------------------

(* Only the LED of the current mode is ever lit, but for one init_task had  *)
(* chosen before the mode changed and toggled after that.                   *)
OneLit == lit \subseteq {choose_pin(current_mode)} \union stray

(* "init_task() will blink LED that depends on some mode" (leds.c:28)       *)
OnlyCurrentLit == lit \subseteq {choose_pin(current_mode)}

(* The LED tells the mode the device is in, however the reed switch is held *)
(* and released, until wifi_task changes the mode.                          *)
LedTellsMode ==
  reed = "look" /\ ~unshown => (current_mode = "WIFI_MODE" <=> esp_server_mode)
=============================================================================
