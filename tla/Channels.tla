------------------------------ MODULE Channels ------------------------------
(***************************************************************************)
(* What a receiver gets of a digest (notify/channels.go): syslog, a frame  *)
(* for each finding over a connection that may break anywhere, and the     *)
(* webhooks, one body for all; and the attempts sendWithRetry makes        *)
(* (notify/notify.go).                                                     *)
(*                                                                         *)
(* A finding is its severity and its title, whose characters come from the *)
(* scanned or the touched side and may end a frame.                        *)
(***************************************************************************)
EXTENDS Integers, Sequences, SequencesExt, Listings

CONSTANTS
    Retries,    \* Config.Retries: attempts in all
    MaxLine     \* sanitizeSyslog: the longest message

ASSUME ChannelsAssumption == Retries \in Nat \ {0} /\ MaxLine \in Nat

VARIABLE delivery  \* a digest and how each attempt to send it turns out

\* Characters are numbers; a priority counts as one.
LineEnd == 10
Space   == 32
Ellipsis == 8230

SeverityRank(severity) ==
    CASE severity = "critical" -> 4 [] severity = "high" -> 3
      [] severity = "medium" -> 2   [] severity = "low" -> 1 [] OTHER -> 0

\* Slip: equals change places.
PlacedBefore(sorted, f) ==
    LET below == {i \in DOMAIN sorted : SeverityRank(sorted[i].severity) <= SeverityRank(f.severity)}
    IN  InsertAt(sorted, IF below = {} THEN Len(sorted) + 1 ELSE Min(below), f)

\* sortBySeverity: each finding moves up past the less severe ones; what the loop
\* has made of the findings up to each.
Placed(sorted, f) ==
    LET below == {i \in DOMAIN sorted : SeverityRank(sorted[i].severity) < SeverityRank(f.severity)}
    IN  InsertAt(sorted, IF below = {} THEN Len(sorted) + 1 ELSE Min(below), f)
SortedUpTo(findings) ==
    LET sorted[k \in 0 .. Len(findings)] ==
            IF k = 0 THEN <<>> ELSE Placed(sorted[k - 1], findings[k])
    IN  sorted
Sorted(findings) == SortedUpTo(findings)[Len(findings)]

\* syslogSeverity; a resolution is a notice whatever it resolves.
SyslogSeverity(severity) ==
    CASE severity = "critical" -> 2 [] severity = "high" -> 3
      [] severity = "medium" -> 4   [] severity = "low" -> 5 [] OTHER -> 6

\* sanitizeSyslog: one line, of a bounded length and an ellipsis.
OneLine(message) ==
    LET line == [i \in DOMAIN message |-> IF message[i] = LineEnd THEN Space ELSE message[i]]
    IN  IF Len(line) > MaxLine THEN Append(SubSeq(line, 1, MaxLine), Ellipsis) ELSE line

\* syslogMessage and lines: priority and message of each finding.
Frame(f, resolved) == <<IF resolved THEN 5 ELSE SyslogSeverity(f.severity)>> \o OneLine(f.title)
Frames(digest) == [i \in DOMAIN Sorted(digest.opened) |-> Frame(Sorted(digest.opened)[i], FALSE)]
                  \o [i \in DOMAIN digest.resolved |-> Frame(digest.resolved[i], TRUE)]

\* A line is written with its end; the collector cuts what it gets at the ends.
StreamUpTo(frames) ==
    LET stream[k \in 0 .. Len(frames)] ==
            IF k = 0 THEN <<>> ELSE stream[k - 1] \o frames[k] \o <<LineEnd>>
    IN  stream
Stream(frames) == StreamUpTo(frames)[Len(frames)]
Collected(stream) ==
    LET ends   == {i \in DOMAIN stream : stream[i] = LineEnd}
        End(k) == IF k = 0 THEN 0 ELSE Nth(ends, k)
    IN  [k \in 1 .. Cardinality(ends) |-> SubSeq(stream, End(k - 1) + 1, End(k) - 1)]

\* SyslogChannel.Send: an attempt that connects writes until the connection breaks
\* after so many characters.
SyslogSend(digest, outcome) ==
    LET stream == Stream(Frames(digest))
        breaks == outcome.connects /\ outcome.breaks < Len(stream)
    IN  [ok  |-> outcome.connects /\ ~breaks,
         got |-> IF ~outcome.connects THEN <<>>
                 ELSE Collected(IF breaks THEN SubSeq(stream, 1, outcome.breaks) ELSE stream)]

\* Send of the webhook, Slack and Telegram channels: one body with all findings,
\* which counts as sent when the status of the answer says so.  An answer may be
\* lost after the receiver took the body.
HTTPSend(digest, outcome) ==
    LET body == [i \in DOMAIN Sorted(digest.opened) |-> Sorted(digest.opened)[i]] \o digest.resolved
    IN  [ok  |-> outcome.connects /\ outcome.status \in 200 .. 299,
         got |-> IF outcome.connects /\ outcome.status \in 0 .. 299 THEN body ELSE <<>>]

\* sendWithRetry: of the attempts' results those up to the first that is sent.
Attempted(results) ==
    LET sent == {i \in DOMAIN results : results[i].ok}
    IN  SubSeq(results, 1, IF sent = {} THEN Retries ELSE Min(sent))

-----------------------------------------------------------------------------
\* What each attempt leaves with a receiver is a beginning of the digest, findings
\* whole and in order, the most severe first and those of one severity as they
\* came, though a title may hold what ends a frame and a connection break inside
\* one; the last attempt of a delivery that was not given up leaves all of it; and
\* no resolution is more urgent than a notice, no finding less than a milder one
\* (flushLocked, sendWithRetry, Send).
ReceiverTold(digest, outcomes) ==
    LET n      == Len(digest.opened) + Len(digest.resolved)
        lines  == Attempted([i \in DOMAIN outcomes |-> SyslogSend(digest, outcomes[i])])
        bodies == Attempted([i \in DOMAIN outcomes |-> HTTPSend(digest, outcomes[i])])
        rank(i) == SeverityRank(digest.opened[i].severity)
        place(i) == Cardinality({j \in DOMAIN digest.opened :
                                    rank(j) > rank(i) \/ (rank(j) = rank(i) /\ j <= i)})
        tells(got) == \A i \in DOMAIN digest.opened :
                          place(i) <= Len(got) => got[place(i)] = digest.opened[i]
        shows(got) == \A i \in DOMAIN digest.opened :
                          place(i) <= Len(got) => Tail(got[place(i)]) = OneLine(digest.opened[i].title)
        urgency(got, i) == Head(got[i])
    IN  /\ \A a \in DOMAIN lines :
              /\ Len(lines[a].got) <= n
              /\ shows(lines[a].got)
              /\ lines[a].ok => Len(lines[a].got) = n /\ a = Len(lines)
              /\ \A i, j \in DOMAIN lines[a].got :
                    /\ i < j /\ j <= Len(digest.opened)
                           => urgency(lines[a].got, i) <= urgency(lines[a].got, j)
                    /\ j > Len(digest.opened) => urgency(lines[a].got, j) = 5
        /\ \A a \in DOMAIN bodies :
              /\ Len(bodies[a].got) \in {0, n}
              /\ tells(bodies[a].got)
              /\ bodies[a].ok => Len(bodies[a].got) = n /\ a = Len(bodies)

\* A digest whose attempts are over has reached its receivers as ReceiverTold says
\* (sendWithRetry).
DigestsTold == Len(delivery.outcomes) = Retries => ReceiverTold(delivery, delivery.outcomes)
=============================================================================
