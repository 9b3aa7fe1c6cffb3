-------------------------- MODULE MCGdacsResolver --------------------------
\* One GDACS event with up to three episodes (one above the cap), two near
\* rings that both match e1, one of another vertex count that matches e2; e1
\* is in both countries' answers; e3 has no GDACS reference.
EXTENDS GdacsResolver

MCUrl == [e \in Events |-> IF e = "e3" THEN NoUrl ELSE "u"]
MCVertices == [e \in Events |-> IF e = "e1" THEN 5 ELSE 4]
MCMatch == [e \in Events |-> CASE e = "e1" -> {"a", "b"} [] e = "e2" -> {"c"} [] OTHER -> {}]
MCWanted == <<{"e1", "e2"}, {"e1", "e3"}>>
MCEpisode == {{}, {"a"}, {"b"}, {"c"}, {"a", "b"}}
MCPublications == UNION {[1..n -> MCEpisode] : n \in 0..3}

\* Two events with one report URL and one vertex count, but different rings.
MCSharedVertices == [e \in Events |-> 5]
=============================================================================
