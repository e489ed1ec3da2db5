--------------------------- MODULE MCTemporalState ---------------------------
(***************************************************************************)
(* A small temporal domain.  A fuse is mended by the light of a match; both*)
(* actions need the light throughout, which a gust would put out.  A stove *)
(* warms from the start of its run and a fan cools while it dries.         *)
(***************************************************************************)
EXTENDS TemporalState

CONSTANTS unused, light, warm, dry, mended  \* model values

MCProps == {unused, light, warm, dry, mended}
MCInstants == {"gust", "fan", "fetch"}
MCDuratives == {"burn", "mend", "stove"}

Part(c, a, d) == [cond |-> c, add |-> a, del |-> d]

MCInstantDef ==
    [n \in MCInstants |->
        CASE n = "gust" -> Part({light}, {}, {light})
          [] n = "fan" -> Part({warm}, {dry}, {warm})
          [] n = "fetch" -> Part({}, {unused}, {})]

MCStartDef ==
    [d \in MCDuratives |->
        CASE d = "burn" -> Part({unused}, {light}, {unused})
          [] d = "stove" -> Part({unused}, {warm}, {})
          [] d = "mend" -> Part({}, {}, {})]

MCEndDef ==
    [d \in MCDuratives |->
        CASE d = "burn" -> Part({}, {}, {light})
          [] d = "stove" -> Part({}, {}, {})
          [] d = "mend" -> Part({}, {mended}, {})]

MCInvariant == [d \in MCDuratives |-> IF d = "stove" THEN {} ELSE {light}]

MCInitialFacts == {unused}
MCGoalProps == {warm, dry}
=============================================================================
