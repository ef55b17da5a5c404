---------------------------- MODULE MCEthFrames ----------------------------
(* Rings of two descriptors and two pbufs, so that each of them runs out. *)
EXTENDS EthFrames

EveryNetwork == [early : BOOLEAN, sends : BOOLEAN, answers : BOOLEAN]

(* Frames that come early, or another task that sends *)
EitherTrouble == { [early |-> TRUE, sends |-> FALSE, answers |-> FALSE],
                   [early |-> FALSE, sends |-> TRUE, answers |-> FALSE] }
TwoSenders == {[early |-> FALSE, sends |-> TRUE, answers |-> TRUE]}
=============================================================================
