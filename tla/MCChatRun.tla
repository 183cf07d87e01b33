----------------------------- MODULE MCChatRun -----------------------------
(* Instances of ChatRun for TLC: the configurations give every constant.     *)
EXTENDS ChatRun
=============================================================================
