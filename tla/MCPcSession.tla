---------------------------- MODULE MCPcSession ----------------------------
(***************************************************************************)
(* One device of each platform, so that a listing can change both parts of *)
(* the target under an open question.                                      *)
(***************************************************************************)
EXTENDS PcSession

MCDevices == <<[platform |-> "Android", serial |-> "a1"],
               [platform |-> "Harmony", serial |-> "h1"]>>
=============================================================================
