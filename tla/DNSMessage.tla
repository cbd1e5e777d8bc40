----------------------------- MODULE DNSMessage -----------------------------
(***************************************************************************)
(* The DNS responder's two readings of a query (decoy/dns.go): the one     *)
(* that parses the question and the one that copies it into the response,  *)
(* and the match of its name with the DNS tokens.                          *)
(*                                                                         *)
(* A message is its header (whole or cut short, and the two counts that    *)
(* matter), the bytes after it and, in a response, the records it carries. *)
(* Positions count those bytes from 0.  Names compare without case.        *)
(***************************************************************************)
EXTENDS Integers, Sequences, SequencesExt

CONSTANTS
    Dot,     \* the byte that joins labels in a dotted name
    Hosts    \* the hosts of the DNS tokens, dotted, in the table's order

Byte == 0 .. 255

\* A host is an identifier, a dot and a zone (MintDNSToken).
ASSUME HostsAssumption ==
    /\ Dot \in Byte
    /\ Hosts \in Seq(Seq(Byte) \ {<<>>})

VARIABLE datagram   \* the bytes after the header of the query at hand

Query(whole, qd, ar, body) == [whole |-> whole, qd |-> qd, ar |-> ar, body |-> body]

Refused == [ok |-> FALSE, end |-> 0, labels |-> <<>>]

\* parseQuestion, the loop: the labels from each position to the end of the name.
\* A length byte with either high bit would be a compression pointer.
LabelsFrom(body) ==
    LET n == Len(body)
        walk[pos \in 0 .. n] ==
            IF pos >= n THEN Refused ELSE
            LET l    == body[pos + 1]
                rest == walk[pos + 1 + l]
            IN  IF l = 0 THEN [ok |-> TRUE, end |-> pos + 1, labels |-> <<>>]
                ELSE IF l >= 64 \/ pos + 1 + l > n \/ ~rest.ok THEN Refused
                ELSE [ok |-> TRUE, end |-> rest.end,
                      labels |-> <<SubSeq(body, pos + 2, pos + 1 + l)>> \o rest.labels]
    IN  walk

Labels(body) == LabelsFrom(body)[0]

\* The labels from each on, joined by dots.
JoinedFrom(labels) ==
    LET n == Len(labels)
        join[k \in 1 .. n + 1] == IF k > n THEN <<>>
                                  ELSE IF k = n THEN labels[k]
                                  ELSE labels[k] \o <<Dot>> \o join[k + 1]
    IN  join

Dotted(labels) == JoinedFrom(labels)[1]

\* parseQuestion: the name and the type, when the type and the class are there.
ParseQuestion(msg) ==
    LET name == Labels(msg.body) IN
    IF ~msg.whole \/ msg.qd < 1 \/ ~name.ok \/ name.end + 4 > Len(msg.body)
    THEN [ok |-> FALSE, name |-> <<>>, qtype |-> 0]
    ELSE [ok |-> TRUE, name |-> Dotted(name.labels),
          qtype |-> msg.body[name.end + 1] * 256 + msg.body[name.end + 2]]

\* Slip: a suffix without the dot before it.
MatchSuffix(name) ==
    LET hit == {i \in DOMAIN Hosts : IsSuffix(Hosts[i], name)}
    IN  IF hit = {} THEN 0 ELSE Min(hit)

\* A name without the dot it may end in.
Trimmed(name) == IF name # <<>> /\ name[Len(name)] = Dot THEN Front(name) ELSE name

\* matchToken: the first token whose host is the name or a suffix of it behind a
\* dot, 0 when there is none.
MatchToken(name) ==
    LET asked == Trimmed(name)
        hit   == {i \in DOMAIN Hosts : asked = Hosts[i] \/ IsSuffix(<<Dot>> \o Hosts[i], asked)}
    IN  IF hit = {} THEN 0 ELSE Min(hit)

\* Slip: the end of the name is searched for without reading lengths.
QuestionEndByte(body) ==
    LET zeros == {i \in DOMAIN body : body[i] = 0}
    IN  (IF zeros = {} THEN Len(body) ELSE Min(zeros)) + 4

\* buildDNSResponse, the loop: no label is checked, the walk may leave the bytes.
EndFrom(body) ==
    LET n == Len(body)
        walk[pos \in Nat] == IF pos >= n THEN pos
                             ELSE IF body[pos + 1] = 0 THEN pos + 1
                             ELSE walk[pos + 1 + body[pos + 1]]
    IN  walk

QuestionEnd(body) == EndFrom(body)[0] + 4

\* buildDNSResponse: the header is the request's but for the flags, QDCOUNT and
\* ANCOUNT; an A record answers the types A and ANY.
Silence == [sent |-> FALSE]
Response(msg, qtype) ==
    LET end     == QuestionEnd(msg.body)
        answers == IF qtype \in {1, 255} THEN 1 ELSE 0
    IN  IF ~msg.whole \/ end > Len(msg.body) THEN Silence
        ELSE [sent |-> TRUE, qd |-> 1, an |-> answers, ar |-> msg.ar,
              question |-> SubSeq(msg.body, 1, end), records |-> answers]

\* handle: the token that tripped and the response.
Handle(msg) ==
    LET asked == ParseQuestion(msg) IN
    IF ~asked.ok THEN [trip |-> 0, response |-> Silence]
    ELSE [trip |-> MatchToken(asked.name), response |-> Response(msg, asked.qtype)]

-----------------------------------------------------------------------------
(* Reference: what a question is, without a walk. *)

\* The bytes at `starts' cut the name into labels that follow one another up to
\* the root label.
CutsName(body, starts) ==
    /\ \A p \in starts : body[p + 1] # 0 => p + 1 + body[p + 1] \in starts
    /\ \E root \in starts : body[root + 1] = 0 /\ starts \subseteq 0 .. root
    /\ \A p \in starts \ {0} : \E q \in starts : body[q + 1] # 0 /\ p = q + 1 + body[q + 1]

Names(body) ==
    LET lengths == {p \in 0 .. Len(body) - 1 : body[p + 1] < 64}
    IN  {starts \in SUBSET lengths : 0 \in starts /\ CutsName(body, starts)}

\* A query whose question is well formed is answered with that question, byte for
\* byte, and with a record exactly for the types A and ANY; any other message is
\* met with silence (parseQuestion and buildDNSResponse walk the same bytes by
\* different rules).
QuestionAnswered(msg) ==
    LET names    == Names(msg.body)
        end      == CHOOSE e \in 0 .. Len(msg.body) :
                        \E starts \in names : Max(starts) + 5 = e
        asks     == /\ msg.whole /\ msg.qd >= 1
                    /\ \E starts \in names : Max(starts) + 5 <= Len(msg.body)
        response == Handle(msg).response
    IN  IF ~asks THEN response = Silence
        ELSE /\ response.sent
             /\ response.question = SubSeq(msg.body, 1, end)
             /\ response.records =
                    IF msg.body[end - 3] = 0 /\ msg.body[end - 2] \in {1, 255} THEN 1 ELSE 0

\* A token trips exactly on the names in its zone, label by label, the first token
\* of the table when several hold the name; a name with a dot inside a label is
\* read as two labels and left out (matchToken).
TripsInZone(msg) ==
    LET asked    == Labels(msg.body)
        trip     == Handle(msg).trip
        under(i) == \E k \in DOMAIN asked.labels : JoinedFrom(asked.labels)[k] = Hosts[i]
        dotless  == \A k \in DOMAIN asked.labels :
                        \A j \in DOMAIN asked.labels[k] : asked.labels[k][j] # Dot
    IN  ParseQuestion(msg).ok /\ dotless =>
            /\ trip # 0 => under(trip)
            /\ \A i \in DOMAIN Hosts : under(i) => trip # 0 /\ trip <= i

\* The queries of these bytes: with and without a whole header and a question, with
\* and without an additional record (EDNS).
Queries == {Query(whole, qd, 0, datagram) : whole \in BOOLEAN, qd \in {0, 1}}
EDNSQueries == {Query(TRUE, 1, 1, datagram)}

\* Every query with these bytes is answered as its question asks and trips the
\* token whose zone it names, and no other (parseQuestion, buildDNSResponse,
\* matchToken).
QueriesHandled == \A msg \in Queries : QuestionAnswered(msg) /\ TripsInZone(msg)

\* The counts of a response are those of the records in it: a resolver that reads
\* as many records as the header announces finds them (buildDNSResponse).
CountsHonest(msg) ==
    LET response == Handle(msg).response
    IN  response.sent => response.an + response.ar = response.records

\* The counts of a response to a query with an additional record are true, so that
\* the resolver gets a valid reply (buildDNSResponse).
ValidReply == \A msg \in EDNSQueries : CountsHonest(msg)
=============================================================================
