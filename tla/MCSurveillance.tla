--------------------------- MODULE MCSurveillance ---------------------------
(* Drones, fences and rules for TLC.                                       *)
EXTENDS Surveillance

Pt(lat, lng) == [lat |-> lat, lng |-> lng]
Triangle == <<Pt(0, 0), Pt(0, 4), Pt(4, 0)>>
MCNoFix == Pt(0, 0)
MCPositions == {MCNoFix, Pt(1, 1), Pt(5, 5)}
MCFenceConfigs ==
    [enabled : BOOLEAN, applies : {TRUE}, polygon : {Triangle}]
MCDetectionEvents == {[mac |-> "m", rssi |-> 0]}
MCNoDetails == [mac |-> "", rssi |-> 0]
Rule(mode, wants) == [enabled |-> TRUE, mode |-> mode, wants |-> wants]
MCRuleConfigs == {Rule("ALL", [mac |-> {"m"}, rssi |-> {-50}])}
-----------------------------------------------------------------------------
Square == <<Pt(1, 1), Pt(1, 5), Pt(5, 5), Pt(5, 1)>>
(* A rule of two conditions asks for one or both; a signal bound does not  *)
(* count for an event without a signal.                                    *)
ASSUME RuleAssumption ==
    LET here == [mac |-> "m", rssi |-> -70]  unheard == [mac |-> "m", rssi |-> 0]
        both(mode) == Rule(mode, [mac |-> {"m"}, rssi |-> {-50}]) IN
    /\ MatchesRule(both("ANY"), here) /\ ~MatchesRule(both("ALL"), here)
    /\ MatchesRule(both("ALL"), unheard)
    /\ ~MatchesRule(Rule("ALL", [rssi |-> {-50}]), unheard)

(* Ray casting against half planes, for a triangle and a square and every  *)
(* point of a small grid off their edges.                                  *)
ASSUME PolygonAssumption ==
    \A x \in 0 .. 6, y \in 0 .. 6 :
       /\ (x > 0 /\ y > 0 /\ x + y # 4) => (PointInPolygon(Pt(y, x), Triangle) <=> x + y < 4)
       /\ (x \notin {1, 5} /\ y \notin {1, 5})
             => (PointInPolygon(Pt(y, x), Square) <=> x \in 2 .. 4 /\ y \in 2 .. 4)
       /\ ~PointInPolygon(Pt(y, x), SubSeq(Square, 1, 2))
=============================================================================
