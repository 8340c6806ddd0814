--------------------------- MODULE PublishedContent ---------------------------
(***************************************************************************)
(* What publication promises of the destinations: a destination has the    *)
(* whole of one content or none, a publisher replaces it in one step by    *)
(* the whole of its own, and no failure or crash takes it away.            *)
(***************************************************************************)
CONSTANTS Publishers, Destinations, Contents, Absent, Whole(_), Creates(_)

VARIABLE content

Init == content \in [Destinations -> Contents \cup {Absent}]

Publish(p, d) ==
  /\ Creates(p) => content[d] = Absent
  /\ content' = [content EXCEPT ![d] = Whole(p)]

Next == \E p \in Publishers, d \in Destinations : Publish(p, d)

Spec == Init /\ [][Next]_content
=============================================================================
