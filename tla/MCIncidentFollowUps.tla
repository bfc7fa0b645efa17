------------------------- MODULE MCIncidentFollowUps -------------------------
(* Values for TLC: outages page somebody and are escalated; or warnings too,
   less often, and the first rule keeps the rest from its alerts. *)
EXTENDS IncidentFollowUps

Rule(kinds, channels, every, after, escalateTo, stop) ==
  [kinds |-> kinds, channels |-> channels, every |-> every, after |-> after,
   escalateTo |-> escalateTo, stop |-> stop]

OutagesFirst ==
  <<Rule({"Down"}, {"oncall"}, 1, 2, {"boss"}, TRUE), Rule(Kinds, {"ops"}, 0, 0, {}, FALSE)>>
EverythingTwice ==
  <<Rule(Kinds, {"ops"}, 2, 0, {}, FALSE), Rule(Troubles, {"oncall"}, 0, 1, {"boss"}, FALSE)>>

MCChannels == {"ops", "oncall", "boss"}
MCRuleSets == {OutagesFirst, EverythingTwice}
MCOneRuleSet == {OutagesFirst}
=============================================================================
