------------------------------- MODULE MCXhci -------------------------------
(* Three ports, a keyboard in the second; two keys and one without a code,  *)
(* two slots, and of the modifiers the two Ctrl keys, of one code.          *)
EXTENDS Xhci

MCScancode == (4 :> 30) @@ (5 :> 48) @@ (1 :> 0)
MCModifiers == <<[name |-> "LShift", code |-> 42], [name |-> "RShift", code |-> 54],
                 [name |-> "LCtrl", code |-> 29], [name |-> "RCtrl", code |-> 29]>>
MCReports == {[mods |-> m, keys |-> k] :
                m \in {{}, {"LShift"}, {"RShift", "RCtrl"}, {"LCtrl", "RCtrl"}},
                k \in {<<0, 0>>, <<4, 0>>, <<5, 4>>, <<4, 5>>, <<9, 0>>, <<1, 5>>}}
=============================================================================
