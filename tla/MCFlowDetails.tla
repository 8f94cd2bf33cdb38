---------------------------- MODULE MCFlowDetails ----------------------------
(* Instances of FlowDetails for TLC: two sub-flows, one in the other or side *)
(* by side, and one of them empty.                                           *)
EXTENDS FlowDetails
CONSTANTS f, g, x, y, z
AllExecutions == {f, g, x, y, z}
AllSubFlows   == {f, g}
Nested     == [c \in {f, g, Top} |->
                 CASE c = Top -> <<f, x>> [] c = f -> <<g, y>> [] c = g -> <<z>>]
SideBySide == [c \in {f, g, Top} |->
                 CASE c = Top -> <<x, f, g>> [] c = f -> <<y>> [] c = g -> <<z>>]
Empty      == [c \in {f, g, Top} |->
                 CASE c = Top -> <<f, g>> [] c = f -> <<x, y>> [] c = g -> <<>>]
AllFlows   == {Nested, SideBySide, Empty}
=============================================================================
