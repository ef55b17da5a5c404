---------------------------- MODULE ConfigCopies ----------------------------
(***************************************************************************)
(* What WriteConfig and ReadConfig promise a caller, without the flash     *)
(* chip: two copies of the configuration, each either one whole value or   *)
(* unreadable, rewritten one after the other.  The copy that is not being  *)
(* rewritten never changes, the reserve copy is not touched before the     *)
(* main one holds the new value, and power may be lost at any moment.      *)
(***************************************************************************)
CONSTANTS
  Configs,  \* the values that can be stored
  NoCfg     \* an unreadable copy, or no write under way

VARIABLES
  content,  \* what each copy reads as
  writing,  \* the value being stored, or NoCfg
  phase     \* the copy being rewritten

copies == <<content, writing, phase>>

Copy == {"main", "reserve"}

Init ==
  /\ \/ \E c \in Configs : content = [s \in Copy |-> c]
     \/ content = [s \in Copy |-> NoCfg]
  /\ writing = NoCfg
  /\ phase = "main"

Begin(c) ==
  /\ writing = NoCfg
  /\ writing' = c
  /\ phase' = "main"
  /\ UNCHANGED content

(* The copy in turn stops being readable, then reads as the new value. *)
Rewrite ==
  /\ writing # NoCfg
  /\ content' \in {[content EXCEPT ![phase] = v] : v \in {NoCfg, writing}}
  /\ UNCHANGED <<writing, phase>>

NextCopy ==
  /\ writing # NoCfg
  /\ phase = "main" /\ content["main"] = writing
  /\ phase' = "reserve"
  /\ UNCHANGED <<content, writing>>

Finish ==
  /\ phase = "reserve"
  /\ writing # NoCfg /\ \A s \in Copy : content[s] = writing
  /\ writing' = NoCfg
  /\ phase' = "main"
  /\ UNCHANGED content

PowerLoss ==
  /\ writing # NoCfg
  /\ content' \in {[content EXCEPT ![phase] = v] : v \in {NoCfg, writing, content[phase]}}
  /\ writing' = NoCfg
  /\ phase' = "main"

Next == (\E c \in Configs : Begin(c)) \/ Rewrite \/ NextCopy \/ Finish \/ PowerLoss

Spec == Init /\ [][Next]_copies
=============================================================================
