---------------------------- MODULE MCReferences ----------------------------
(***************************************************************************)
(* The algorithms of DNSMessage, Narration, Redaction and Channels on      *)
(* inputs that grow step by step, and the stores of Tables through         *)
(* sequences of calls, one subject in each behaviour.                      *)
(***************************************************************************)
EXTENDS DNSMessage, Narration, Redaction, Channels, Tables

CONSTANTS
    Bytes, MaxBytes,       \* bound: the bytes after a query's header
    Sentences, MaxLength,  \* bound: sentences in an answer and its checks
    SomeFindings, MaxFindings, Breaks,  \* bound: digests, where connections break
    MaxWraps,              \* bound: the nesting of evidence
    MaxRowid               \* bound: rowids

VARIABLES
    subject,   \* which of the five this behaviour grows
    wraps      \* how often the evidence is wrapped
inputs == <<datagram, answer, delivery, evidence, wraps>>
vars   == <<subject, inputs, stores>>

Leaves == {Scalar, Text(MaxString, FALSE), Text(MaxString + 1, FALSE), Text(1, TRUE),
           Strings(<<Text(1, TRUE), Text(MaxString, FALSE), Text(1, FALSE)>>), Unserialisable,
           List(<<>>), Map(<<>>)}

Init ==
    /\ subject \in {"query", "narration", "digest", "evidence", "stores"}
    /\ datagram = <<>>
    /\ answer = [attempts |-> <<>>, text |-> <<>>, verify |-> <<>>]
    /\ delivery = [opened |-> <<>>, resolved |-> <<>>, outcomes |-> <<>>]
    /\ wraps = 0 /\ evidence \in IF subject = "evidence" THEN Leaves ELSE {Scalar}
    /\ InitStores

GrowQuery(byte) ==
    /\ subject = "query" /\ Len(datagram) < MaxBytes
    /\ datagram' = Append(datagram, byte)
    /\ UNCHANGED <<subject, answer, delivery, evidence, wraps, stores>>

GrowNarration ==
    /\ subject = "narration"
    /\ \/ /\ Len(answer.attempts) <= MaxRetries
          /\ \E a \in Attempts : answer' = [answer EXCEPT !.attempts = Append(@, a)]
       \/ /\ Len(answer.attempts) = MaxRetries + 1
          /\ Len(answer.text) + Len(answer.verify) < MaxLength
          /\ \E s \in Sentences :
                \/ answer' = [answer EXCEPT !.text = Append(@, s)]
                \/ answer' = [answer EXCEPT !.verify = Append(@, <<s>>)]
    /\ UNCHANGED <<subject, datagram, delivery, evidence, wraps, stores>>

Outcomes == [connects : {FALSE}, breaks : {0}, status : {0}]
            \cup [connects : {TRUE}, breaks : Breaks, status : {0, 200, 500}]

GrowDigest ==
    /\ subject = "digest"
    /\ \/ /\ delivery.outcomes = <<>>
          /\ Len(delivery.opened) + Len(delivery.resolved) < MaxFindings
          /\ \E f \in SomeFindings :
                \/ delivery' = [delivery EXCEPT !.opened = Append(@, f)]
                \/ delivery' = [delivery EXCEPT !.resolved = Append(@, f)]
       \/ /\ Len(delivery.opened) + Len(delivery.resolved) > 0
          /\ Len(delivery.outcomes) < Retries
          /\ \E o \in Outcomes : delivery' = [delivery EXCEPT !.outcomes = Append(@, o)]
    /\ UNCHANGED <<subject, datagram, answer, evidence, wraps, stores>>

\* The value inside a map, beside a secret or with more keys than are kept; inside
\* a list, alone or too long; inside a struct.
Wrapped(v) == {Map([k \in keys |-> IF k = 2 THEN v ELSE Scalar]) :
                  keys \in {{2}, {1, 2}, {2, 3}, {2, 3, 4}, {1}}}
              \cup {List(<<v>>), List(<<v, Scalar>>), List(<<Scalar, Scalar, v>>)}
              \cup IF IsGeneric(v) THEN {Struct(v)} ELSE {}

GrowEvidence ==
    /\ subject = "evidence" /\ wraps < MaxWraps
    /\ wraps' = wraps + 1
    /\ evidence' \in Wrapped(evidence)
    /\ UNCHANGED <<subject, datagram, answer, delivery, stores>>

CallStores ==
    /\ subject = "stores"
    /\ NextStores
    /\ DOMAIN sqlite'.targets \cup DOMAIN sqlite'.proofs \subseteq 1 .. MaxRowid
    /\ UNCHANGED <<subject, inputs>>

Next == \/ \E byte \in Bytes : GrowQuery(byte)
        \/ GrowNarration \/ GrowDigest \/ GrowEvidence \/ CallStores

Spec == Init /\ [][Next]_vars

-----------------------------------------------------------------------------
TwoHosts == << <<1, 1>>, <<1>> >>
AllSentences == {[claims |-> c, length |-> 1] : c \in SUBSET {"severity", "status"}}
                \cup {[claims |-> {}, length |-> 2]}
Titles == {<<97>>, <<98>>, <<97, LineEnd, 97>>}
Findings == [severity : {"high", "low"}, title : Titles]
Meaning == [raw \in {"a", "A", "b"} |-> IF raw = "b" THEN "b" ELSE "a"]
=============================================================================
