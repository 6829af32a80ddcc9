-------------------------- MODULE MCCampaignPages --------------------------
(* CampaignPages on a small campaign: a town with a local map, another      *)
(* location, a pinned event, saved views, three timeline events, a          *)
(* vocabulary of two definitions with two records, and a form's records.    *)
EXTENDS CampaignPages

CONSTANTS town, inn, feast, e1, e2, e3, v1, i1, i2, r1, r2, world, west, east, noPin,
          city, camp, noItem, plain, blue

MCLocations == {town, inn}
MCEventSeq == <<e1, e2, e3>>
MCParts == MCLocations \cup {feast, e1, e2, e3, r1, r2, "views", "vocabulary", "form", "extra"}

Record(rev, val) == [rev |-> rev, val |-> val]
Place2(map, pin) == [map |-> map, pin |-> pin, type |-> city, img |-> 0]

\* The campaign starts with ten revisions: two more for the map and the timeline, three
\* elsewhere.
MCMaxEdits == [k \in Kinds |-> IF k \in {"map", "timeline"} THEN 12 ELSE 13]

MCStored == [p \in MCParts |->
    CASE p = town -> Record(1, Place2(world, west))
      [] p = inn -> Record(1, Place2(town, noPin))
      [] p = feast -> Record(1, [map |-> world, pin |-> noPin])
      [] p \in {e1, e2} -> Record(1, [sitting |-> 1, order |-> 0])
      [] p = e3 -> Record(1, [sitting |-> 2, order |-> 1])
      [] p = "views" -> Record(1, [v \in {} |-> v])
      [] p = "vocabulary" -> Record(1, [i \in {i1} |-> plain])
      [] p = r1 -> Record(1, i1)
      [] p = r2 -> Record(1, noItem)
      [] OTHER -> Record(0, Gone)]
=============================================================================
