------------------------------ MODULE MCGpsFeed ------------------------------
(***************************************************************************)
(* A receiver whose sentences have checksums that matter: 00, which an     *)
(* unfinished line also reports, 05, which its own two digits cancel when  *)
(* the star is lost, and others.                                           *)
(***************************************************************************)
EXTENDS GpsFeed, TLC

MCPositions == {<<80, 85>>, <<81, 99>>}

ASSUME ChecksumsThatMatter ==
    /\ \E s \in Spoken : SubSeq(Text[s], Len(Text[s]) - 3, Len(Text[s]) - 2) = <<48, 48>>
    /\ \E s \in Spoken : SubSeq(Text[s], Len(Text[s]) - 3, Len(Text[s]) - 2) = <<48, 53>>
=============================================================================
