------------------------------- MODULE GpsFeed -------------------------------
(***************************************************************************)
(* The way of a position through tiny-sky: sentences of the GPS receiver,  *)
(* byte by byte over a line that may lose some of them (a full receive     *)
(* queue, the byte that task_gps drops when it is late), the NMEA parser   *)
(* (gps.cpp) and the telemetry that task_report fills (settings.cpp).      *)
(*                                                                         *)
(* Bytes have their codes, because the checksum and the decoding of its    *)
(* digits depend on them.  The name of a sentence and each of its fields   *)
(* is a single byte, its code the exclusive or of the bytes it stands for. *)
(* Of the fields only those that reach the fix are there, and an empty one *)
(* at the end, as every sentence has one that the tracker does not use.    *)
(***************************************************************************)
EXTENDS Integers, Sequences, Bitwise

CONSTANTS Positions,  \* positions of the receiver: latitude and altitude fields
          Clock,      \* its time field
          LineMax,    \* characters of a line that are kept, 99 in the code
          MaxLost     \* bytes of one sentence that the line may lose

ASSUME ConstantsAssumption ==
    /\ Positions \subseteq ((33..126) \X (33..126))
    /\ Clock \in 33..126
    /\ LineMax \in Nat \ {0}
    /\ MaxLost \in Nat

LF == 10
CR == 13
Dollar == 36
Star == 42
Comma == 44

\* The names GPGGA and GPGSA.
GGA == 86
GSA == 66

-----------------------------------------------------------------------------
(* The receiver *)

\* What the receiver knows in an epoch: nothing, the time, a position as well.
Sky == {<<>>, <<Clock>>} \cup {<<Clock, p[1], p[2]>> : p \in Positions}

HasPosition(s) == Len(s) = 3

Nothing == <<>>

Known(s, i) == IF i <= Len(s) THEN <<s[i]>> ELSE Nothing

\* Each epoch is a GGA and a GSA sentence that agree.
Position(s) == [kind |-> "GGA",
                time |-> Known(s, 1), pos |-> Known(s, 2), alt |-> Known(s, 3)]

FixOf(s) == [kind |-> "GSA", type |-> IF HasPosition(s) THEN <<51>> ELSE <<49>>]

Spoken == {Position(s) : s \in Sky} \cup {FixOf(s) : s \in Sky}

\* The exclusive or of the bytes of a text.
XorOf(text) ==
    LET upTo[i \in 0..Len(text)] == IF i = 0 THEN 0 ELSE upTo[i - 1] ^^ text[i]
    IN  upTo[Len(text)]

Hex(n) == IF n < 10 THEN 48 + n ELSE 55 + n

Sentence(text) == <<Dollar>> \o text \o
                  <<Star, Hex(XorOf(text) \div 16), Hex(XorOf(text) % 16), CR, LF>>

Text == [s \in Spoken |->
            Sentence(IF s.kind = "GGA"
                     THEN <<GGA, Comma>> \o s.time \o <<Comma>> \o s.pos \o
                          <<Comma>> \o s.alt \o <<Comma>>
                     ELSE <<GSA, Comma, 65, Comma>> \o s.type \o <<Comma>>)]

-----------------------------------------------------------------------------

VARIABLES
    sky,       \* what the receiver knows in this epoch
    saying,    \* the sentence it sends
    at,        \* the byte of it that comes next
    lost,      \* bytes of it that were lost
    line, checksum, checksumReported, checksumState,  \* of GPSParserBase
    latest,    \* GPSParserSimple::latest
    telemetry  \* fixValid, lat and lng as one, alt

\* History: what the receiver knew an epoch ago, the sentence with which the
\* line began, whether that is the one under way, and how many
\* sentences in a row have come whole, up to three.
VARIABLES before, head, here, whole

receiver == <<sky, saying, before>>
parser == <<line, checksum, checksumReported, checksumState>>
vars == <<receiver, at, lost, parser, latest, telemetry, head, here, whole>>

NoSentence == [kind |-> "none"]

Init ==
    /\ sky \in Sky
    /\ saying = Position(sky)
    /\ at \in 1..(Len(Text[saying]) + 1)
    /\ lost = IF at = 1 THEN 0 ELSE 1
    /\ line = <<>>
    /\ checksum = 0
    /\ checksumReported = 0
    /\ checksumState = 0
    /\ latest = [time |-> Nothing, pos |-> Nothing, alt |-> Nothing, type |-> Nothing]
    /\ telemetry = [fixValid |-> FALSE, pos |-> Nothing, alt |-> Nothing]
    /\ before = sky
    /\ head = NoSentence
    /\ here = FALSE
    /\ whole = 0

\* The next sentence: GSA after GGA, GGA of a new epoch after GSA.  A receiver
\* that has the time keeps it.
Say ==
    /\ at > Len(Text[saying])
    /\ IF saying.kind = "GGA"
       THEN saying' = FixOf(sky) /\ UNCHANGED <<sky, before>>
       ELSE /\ sky' \in {s \in Sky : sky # <<>> => s # <<>>}
            /\ before' = sky
            /\ saying' = Position(sky')
    /\ at' = 1
    /\ lost' = 0
    /\ here' = FALSE
    /\ UNCHANGED <<parser, latest, telemetry, head, whole>>

-----------------------------------------------------------------------------
(* The parser *)

\* parseLine: the fields that a comma or a star ends; a last one without is
\* not looked at.
Fields(text) ==
    LET upTo[i \in 0..Len(text)] ==
            IF i = 0 THEN [fields |-> <<>>, value |-> <<>>]
            ELSE IF text[i] \in {Comma, Star}
                 THEN [fields |-> Append(upTo[i - 1].fields, upTo[i - 1].value),
                       value |-> <<>>]
                 ELSE [upTo[i - 1] EXCEPT !.value = Append(@, text[i])]
    IN  upTo[Len(text)].fields

\* Whether the first field is the name of the sentence.
Named(fields, name) ==
    fields # <<>> /\ Len(fields[1]) >= 2 /\ SubSeq(fields[1], 1, 2) = <<Dollar, name>>

Field(fields, index, old) == IF index < Len(fields) THEN fields[index + 1] ELSE old

\* An angle without a point only makes itself invalid, and nobody asks.
AngleField(fields, index, old) ==
    IF Field(fields, index, Nothing) = Nothing THEN old ELSE fields[index + 1]

\* parseLine and GPSFix::parseField.
Parsed(fix, text) ==
    LET fields == Fields(text)
    IN  IF Named(fields, GSA) THEN [fix EXCEPT !.type = Field(fields, 2, @)]
        ELSE IF Named(fields, GGA)
        THEN [fix EXCEPT !.time = Field(fields, 1, @),
                         !.pos  = AngleField(fields, 2, @),
                         !.alt  = Field(fields, 3, @)]
        ELSE fix

\* The digit and the shift are those of a uint8_t, whatever the byte is.
Digit(c) == IF c >= 65 THEN c - 55 ELSE (c - 48) % 256
Reported(c) == IF checksumState = 2 THEN ((checksumReported * 16) % 256) | Digit(c)
               ELSE checksumReported

State(c) == IF c = Star THEN 2 ELSE IF c = Dollar THEN 1 ELSE checksumState

\* A star ends the checksum before it is added, a dollar starts it after.
Sum(c) == IF c # Star /\ checksumState = 1 THEN checksum ^^ c ELSE checksum

Kept(c) == IF Len(line) < LineMax THEN Append(line, c) ELSE line

\* Mutant of EndOfLine: the checksum is not started anew.
EndOfLineKeepsSum ==
    /\ latest' = IF line # <<>> /\ checksum = checksumReported
                 THEN Parsed(latest, line) ELSE latest
    /\ line' = <<>>
    /\ checksumReported' = 0
    /\ checksumState' = 0
    /\ UNCHANGED checksum

\* Mutant of EndOfLine: the checksum is not compared.
EndOfLineUnchecked ==
    /\ latest' = IF line # <<>> THEN Parsed(latest, line) ELSE latest
    /\ line' = <<>>
    /\ checksum' = 0
    /\ checksumReported' = 0
    /\ checksumState' = 0

\* decode of a carriage return.
EndOfLine ==
    /\ latest' = IF line # <<>> /\ checksum = checksumReported
                 THEN Parsed(latest, line) ELSE latest
    /\ line' = <<>>
    /\ checksum' = 0
    /\ checksumReported' = 0
    /\ checksumState' = 0

\* decode of any other byte.
NextByte(c) ==
    /\ line' = Kept(c)
    /\ checksumReported' = Reported(c)
    /\ checksumState' = State(c)
    /\ checksum' = Sum(c)
    /\ UNCHANGED latest

Byte == Text[saying][at]

CameWhole(complete) == whole' = IF complete THEN (IF whole < 3 THEN whole + 1 ELSE 3) ELSE 0

\* task_gps hands the next byte to decode.
HearEnd ==
    /\ at <= Len(Text[saying]) /\ Byte = CR
    /\ EndOfLine
    /\ at' = at + 1
    /\ head' = NoSentence
    /\ CameWhole(here /\ lost = 0)
    /\ UNCHANGED <<receiver, lost, telemetry, here>>

HearByte ==
    /\ at <= Len(Text[saying]) /\ Byte \notin {CR, LF}
    /\ NextByte(Byte)
    /\ at' = at + 1
    /\ head' = IF line = <<>> THEN saying ELSE head
    /\ here' = IF line = <<>> THEN TRUE ELSE here
    /\ UNCHANGED <<receiver, lost, telemetry, whole>>

HearLineFeed ==
    /\ at <= Len(Text[saying]) /\ Byte = LF
    /\ at' = at + 1
    /\ UNCHANGED <<receiver, lost, parser, latest, telemetry, head, here, whole>>

\* The byte does not reach decode.
Lose ==
    /\ at <= Len(Text[saying])
    /\ lost < MaxLost
    /\ lost' = lost + 1
    /\ at' = at + 1
    /\ whole' = IF Byte = CR THEN 0 ELSE whole
    /\ UNCHANGED <<receiver, parser, latest, telemetry, head, here>>

-----------------------------------------------------------------------------
(* The report *)

\* Mutant of HasFix: the position alone decides.
HasFixByPosition == latest.pos # Nothing

HasFix == latest.type = <<51>>

\* task_report, at any time between two bytes.  What is not valid is not put
\* into the telemetry.  Nothing reads as zero there: the float of an empty
\* altitude, the position before the first one.  The transmission is in
\* FlightControl, the record in the flight log in TrackerFlash.
Report ==
    /\ latest.time # Nothing
    /\ telemetry' = IF HasFix
                    THEN [fixValid |-> TRUE, pos |-> latest.pos, alt |-> latest.alt]
                    ELSE [telemetry EXCEPT !.fixValid = FALSE]
    /\ UNCHANGED <<receiver, at, lost, parser, latest, head, here, whole>>

Next == Say \/ HearEnd \/ HearByte \/ HearLineFeed \/ Lose \/ Report

Spec == Init /\ [][Next]_vars

-----------------------------------------------------------------------------
(* Properties *)

Link == INSTANCE SentenceLink

\* One byte lost per sentence, whichever it is, does no harm: what the parser
\* accepts has the effect of one sentence that was sent, the one with which
\* the line began, or none.  The checksum alone does not promise that: without
\* the carriage return two sentences are one line, without the star or the
\* dollar the checksum is another one.
ImplementsLink == Link!Spec

\* The loss is local: a sentence that comes whole after a carriage return that
\* came is taken in, whatever happened to the sentences before.
WholeIsHeard ==
    [][at <= Len(Text[saying]) /\ at' = at + 1 /\ Byte = CR /\ here /\ lost' = 0 =>
          latest' = Link!Took(latest, saying)]_vars

\* A report never joins the fix of one time with a position of another: when
\* the sentences of the last epoch came whole, the position it sends as valid
\* is that of the receiver in this epoch or in the one before.
PositionIsFresh ==
    (latest.time # Nothing /\ HasFix /\ whole = 3) =>
        \E s \in {sky, before} : HasPosition(s) /\ latest.pos = <<s[2]>>

\* What telemetry.h says of alt, "Last valid altitude, meters": with a valid
\* fix it is one that the receiver has sent.
LastValidAltitude == telemetry.fixValid => telemetry.alt # Nothing
=============================================================================
