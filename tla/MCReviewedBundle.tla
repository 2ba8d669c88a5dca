--------------------------- MODULE MCReviewedBundle ---------------------------
(* A source of two procedures, two clusters, a sponsor, a campaign, a tool,  *)
(* a brand extracted as malware, a CVE and an attacked product.            *)
EXTENDS ReviewedBundle

MCEntities == {"APT", "Other", "MSS", "Op", "Rclone", "ProxyShell", "CVE", "Exchange"}

MCKind == [e \in MCEntities |->
    CASE e \in {"APT", "Other"} -> "intrusion-set"
      [] e = "MSS"              -> "threat-actor"
      [] e = "Op"               -> "campaign"
      [] e = "Rclone"           -> "tool"
      [] e = "ProxyShell"       -> "malware"
      [] e = "CVE"              -> "vulnerability"
      [] e = "Exchange"         -> "software"]

MCCorrected(e) == IF e \in {"Rclone", "APT"} THEN {"malware"} ELSE {}

MCSponsors == [e \in MCEntities |-> IF e = "APT" THEN {"MSS"} ELSE {}]

\* The chunker may name a chunk as its own predecessor.
MCFlow == {<<"d1", "d2">>, <<"d2", "d2">>}

Drafted(techniques, unresolved, actors) ==
    [techniques |-> techniques, unresolved |-> unresolved, actors |-> actors, tools |-> {},
     malware |-> {}, mentions |-> {}, artifacts |-> {}, commands |-> {}]

MCDraftings(d) ==
    IF d = "d1"
    THEN {[Drafted({"t1"}, {}, {"APT"}) EXCEPT !.tools = {"Rclone"}, !.mentions = {"CVE"},
                                               !.artifacts = {"Exchange"}, !.commands = {"rclone"}],
          [Drafted({"t1"}, {}, {}) EXCEPT !.malware = {"ProxyShell"}]}
    ELSE {[Drafted({"t1", "t2"}, {"t2"}, {"Other"}) EXCEPT !.tools = {"Rclone"}],
          Drafted({"t2"}, {"t2"}, {"APT"})}

MCAdditions ==
    {<<"Rclone", "uses", "d1", "tool", "x-procedure">>,
     <<"d2", "precedes", "d1", "x-procedure", "x-procedure">>,
     <<"d2", "uses", "t1", "x-procedure", "attack-pattern">>}
===========================================================================
