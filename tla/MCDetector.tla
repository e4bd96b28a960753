----------------------------- MODULE MCDetector -----------------------------
(* Three people, one topic like two others that are not alike, a team-wide *)
(* tangle of three and one of two, a self tangle covered by a cross one.   *)
EXTENDS Detector

Raw(kind, parties, topic, conf) ==
  [kind |-> kind, parties |-> parties, topic |-> topic, conf |-> conf]

MCPeople == {"ann", "bob", "cleo"}

MCAlike == LET near == {<<"freeze", "launch">>, <<"launch", "owner">>}
           IN {<<t, t>> : t \in {"freeze", "launch", "owner", "schema"}}
              \cup near \cup {<<p[2], p[1]>> : p \in near}

MCRank == [freeze |-> 1, launch |-> 2, owner |-> 2, schema |-> 3]

MCAtomSets == {{[from |-> "ann", conf |-> 10], [from |-> "bob", conf |-> 6]},
               {[from |-> w, conf |-> 10] : w \in MCPeople}}

Freeze == Raw("collision", {"ann", "bob"}, "freeze", 9)
Launch == Raw("duplication", {"bob", "cleo"}, "launch", 6)
Owner  == Raw("decision-rights", {"ann", "bob"}, "owner", 8)

MCPairReplies == {<<>>, <<Owner, Freeze>>, <<Launch>>}
MCTeamReplies == {<<>>, <<Raw("teamwide-divergence", MCPeople, "freeze", 7),
                          Raw("teamwide-divergence", {"ann", "cleo"}, "schema", 7)>>}
MCSelfReplies == {<<>>, <<Raw("stale-assumption", {"bob"}, "launch", 0),
                          Raw("stale-assumption", {"cleo"}, "schema", 0)>>}
=============================================================================
