--------------------------------- MODULE Wire ---------------------------------
(***************************************************************************)
(* What goes over the gun's line.  From the gun: an unframed stream of     *)
(* event bytes, read in pieces of any length by poll_events and decoded by *)
(* EventParser (src/src/gun.rs, src/src/protocol/event.rs).  To the gun    *)
(* and back: a bore offset packed into two bytes (src/src/protocol/mod.rs).*)
(***************************************************************************)
EXTENDS Integers, Sequences, SequencesExt, FiniteSets

CONSTANTS
    Bytes,          \* the bytes the gun may send, Report among them
    MaxSent,        \* bound: bytes sent
    MaxRead,        \* 256 in the code: bytes taken in one poll
    MaxBacklog,     \* what the port holds before it loses bytes: none are, up to here
    Offsets         \* bore offsets tried, in hundredths of a percent of the frame

ASSUME WireAssumption ==
    /\ Bytes \subseteq 0..255
    /\ MaxSent \in Nat /\ MaxBacklog \in Nat
    /\ MaxRead \in Nat \ {0}
    /\ Offsets \subseteq Int

VARIABLES
    sent,       \* history: every byte the gun has sent
    unread,     \* bytes in the port
    partial,    \* EventParser.pending
    events,     \* the events decoded so far
    offset      \* the offset that is written and read back

wireVars == <<sent, unread, partial, events, offset>>

Report == 254       \* a button report: three more bytes follow
Reports(b) == b = Report

WireInit ==
    /\ sent = <<>> /\ unread = <<>> /\ partial = <<>> /\ events = <<>>
    /\ offset \in Offsets

-----------------------------------------------------------------------------
GunSends(b) ==
    /\ Len(sent) < MaxSent /\ Len(unread) < MaxBacklog
    /\ sent' = Append(sent, b)
    /\ unread' = Append(unread, b)
    /\ UNCHANGED <<partial, events, offset>>

-----------------------------------------------------------------------------
\* Mistakes the checks must notice.
ShortReport(s) == IF Reports(s[1]) THEN SubSeq(s, 1, IF Len(s) < 4 THEN Len(s) ELSE 4)
                                   ELSE <<s[1]>>

WrapsAround(v) == (v + 10000) % 65536

-----------------------------------------------------------------------------
\* The event at the head of s, or nothing while a report is not all there.
HeadEvent(s) ==
    IF ~Reports(s[1]) THEN <<s[1]>>
    ELSE IF Len(s) < 4 THEN <<>> ELSE SubSeq(s, 1, 4)

\* EventParser::feed: the events in s, and what is left over.
Fed(s) ==
    LET parse[i \in 1 .. Len(s) + 1] ==
            IF i > Len(s) \/ HeadEvent(SubSeq(s, i, Len(s))) = <<>>
            THEN [out |-> <<>>, rest |-> SubSeq(s, i, Len(s))]
            ELSE LET e == HeadEvent(SubSeq(s, i, Len(s)))
                     after == parse[i + Len(e)]
                 IN  [after EXCEPT !.out = <<e>> \o @]
    IN  parse[1]

\* poll_events: what is there, up to MaxRead bytes of it, or less.
Poll ==
    /\ unread # <<>>
    /\ \E n \in 1..MaxRead :
           /\ n <= Len(unread)
           /\ LET fed == Fed(partial \o SubSeq(unread, 1, n))
              IN  events' = events \o fed.out /\ partial' = fed.rest
           /\ unread' = SubSeq(unread, n + 1, Len(unread))
    /\ UNCHANGED <<sent, offset>>

WireNext == Poll \/ \E b \in Bytes : GunSends(b)

-----------------------------------------------------------------------------
\* calibration_encode: percent, clamped to 99 either way, times 100, plus 10000, in 16 bits.
Clamped(v) == IF v > 9900 THEN 9900 ELSE IF v < -9900 THEN -9900 ELSE v

Encoded(v) == (Clamped(v) + 10000) % 65536

\* calibration_decode: more than 99 either way is an EEPROM that was never written.
Decoded(raw) == IF raw - 10000 > 9900 \/ raw - 10000 < -9900 THEN 0 ELSE raw - 10000

-----------------------------------------------------------------------------
WireTypeOK ==
    /\ sent \in Seq(Bytes) /\ Len(sent) <= MaxSent
    /\ unread \in Seq(Bytes) /\ partial \in Seq(Bytes)
    /\ Len(partial) < 4
    /\ \A i \in DOMAIN events : Len(events[i]) \in {1, 4}
    /\ offset \in Offsets

\* Which bytes begin an event, told from the whole stream at once: those that no report
\* before them has taken for its own.
Heads(s) ==
    CHOOSE h \in SUBSET DOMAIN s :
        \A i \in DOMAIN s :
            i \in h <=> ~ \E j \in h : Reports(s[j]) /\ j < i /\ i <= j + 3

\* However the stream is cut into reads, the events are those of the stream, in its
\* order, each report with its own three bytes; what is missing is still to be read.
CutsDoNotMatter ==
    LET read  == SubSeq(sent, 1, Len(sent) - Len(unread))
        whole == {i \in Heads(read) : Reports(read[i]) => i + 3 <= Len(read)}
        EventAt(i) == IF Reports(read[i]) THEN SubSeq(read, i, i + 3) ELSE <<read[i]>>
    IN  events = [k \in 1..Cardinality(whole) |->
                     EventAt(CHOOSE i \in whole : Cardinality({j \in whole : j < i}) = k - 1)]

\* What calibrate stores in the gun is what the tracker reads back, to the hundredth, up
\* to the end of the scale, and beyond it the end: never zero and never the other sign.
OffsetComesBack == Decoded(Encoded(offset)) = Clamped(offset)

\* What goes over the wire arrives as what it was.
WireInv == WireTypeOK /\ CutsDoNotMatter /\ OffsetComesBack
=============================================================================
