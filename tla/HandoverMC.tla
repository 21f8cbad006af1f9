----------------------------- MODULE HandoverMC -----------------------------
(***************************************************************************)
(* Handover with port 80 in every configuration, 81 and 82 in one each,    *)
(* and one configuration that no running generation can be followed by.    *)
(***************************************************************************)
EXTENDS Handover

MCConfigs == {[ip |-> "", ports |-> {80, 81}], [ip |-> "", ports |-> {80, 82}],
              [ip |-> "127.0.0.1", ports |-> {80}]}

(* A server bound to one address.                                          *)
MCBoundConfigs == {[ip |-> "127.0.0.1", ports |-> {80}]}
=============================================================================
