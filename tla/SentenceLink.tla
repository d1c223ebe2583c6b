----------------------------- MODULE SentenceLink -----------------------------
(***************************************************************************)
(* What the tracker may expect of its GPS receiver over a serial line that *)
(* loses bytes: of what the receiver says, whole sentences arrive, in the  *)
(* order in which it says them, or nothing.  A sentence is what its fields *)
(* do to the latest fix; there is no text here.                            *)
(***************************************************************************)
EXTENDS Naturals

CONSTANTS Spoken,      \* the sentences of the receiver
          NoSentence,
          Nothing      \* the value of an empty field

VARIABLES
    head,    \* the sentence with which the line under way began
    latest   \* the fix: what the tracker knows of the receiver

\* A position that is not given leaves the old one; an altitude, time or fix
\* that is not given replaces it.
Took(fix, s) ==
    IF s.kind = "GGA"
    THEN [fix EXCEPT !.time = s.time, !.alt = s.alt,
                     !.pos = IF s.pos = Nothing THEN @ ELSE s.pos]
    ELSE [fix EXCEPT !.type = s.type]

Unknown == [time |-> Nothing, pos |-> Nothing, alt |-> Nothing, type |-> Nothing]

Init ==
    /\ head = NoSentence
    /\ latest = Unknown

Begin ==
    /\ head = NoSentence
    /\ head' \in Spoken
    /\ UNCHANGED latest

Hear ==
    /\ head # NoSentence
    /\ latest' = Took(latest, head)
    /\ head' = NoSentence

Miss ==
    /\ head' = NoSentence
    /\ UNCHANGED latest

Next == Begin \/ Hear \/ Miss

Spec == Init /\ [][Next]_<<head, latest>>
=============================================================================
