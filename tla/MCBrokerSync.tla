---------------------------- MODULE MCBrokerSync ----------------------------
(* Small instances of BrokerSync for TLC. *)
EXTENDS BrokerSync

CONSTANTS a, b

(* An account without a past, and one whose past fills a page of one order. *)
NoOld  == <<>>
BIsOld == <<b>>

=============================================================================
