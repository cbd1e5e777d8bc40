----------------------------- MODULE Narration -----------------------------
(***************************************************************************)
(* The explanation of a finding by a model (internal/aiclient, web/ai.go): *)
(* the attempts at an answer, the guards over it, and the reply the        *)
(* dashboard gets.                                                         *)
(*                                                                         *)
(* A text is a sequence of sentences.  What matters of a sentence is what  *)
(* it claims that the engine did not say - another severity, a change of   *)
(* status - and its length.                                                *)
(***************************************************************************)
EXTENDS Integers, Sequences, Listings

CONSTANTS
    MaxRetries,    \* Client.maxRetries
    MinGrounded    \* minGroundedExplanation

ASSUME NarrationAssumption == MaxRetries \in Nat /\ MinGrounded \in Nat \ {0}

VARIABLE answer    \* attempts at an answer, its text and its checks

Sentence == [claims : SUBSET {"severity", "status"}, length : Nat]

-----------------------------------------------------------------------------
(* guard.go *)

Without(text, claim) == Listed(text, {i \in DOMAIN text : claim \notin text[i].claims})
Length(text) ==
    LET upTo[k \in 0 .. Len(text)] == IF k = 0 THEN 0 ELSE upTo[k - 1] + text[k].length
    IN  upTo[Len(text)]

\* The text itself, when no sentence would be left.
DropConflictingSeverity(text) ==
    LET kept == Without(text, "severity") IN IF kept = <<>> THEN text ELSE kept
DropStatusClaims(text) == Without(text, "status")

\* Slip: status claims go first, and the fallback brings them back.
GuardedReversed(text) ==
    LET kept == Without(DropStatusClaims(text), "severity")
    IN  IF kept = <<>> THEN text ELSE kept

Guarded(text) == DropStatusClaims(DropConflictingSeverity(text))

\* applyOutputGuards: the explanation and the checks it lets through.
Verified(verify) ==
    LET left == [i \in DOMAIN verify |-> DropStatusClaims(verify[i])]
    IN  Listed(left, {i \in DOMAIN left : left[i] # <<>>})

-----------------------------------------------------------------------------
(* client.go.  An attempt fails in a way that another may mend (no connection, *)
(* a 5xx, an error body), with the context ended before the next one            *)
(* ("cancelled"), for good, or answers.                                         *)

Attempts == {"retryable", "cancelled", "refused", "unreadable", "answer"}

\* Explain: how the attempts end, "answer" when there is one to guard.
Outcome(attempts) ==
    LET try[i \in 1 .. MaxRetries + 1] ==
            IF attempts[i] \notin {"retryable", "cancelled"} THEN attempts[i]
            ELSE IF i = MaxRetries + 1 THEN "unavailable"
            ELSE IF attempts[i] = "cancelled" THEN "cancelled"
            ELSE try[i + 1]
    IN  try[1]

Withheld(reason) == [available |-> FALSE, reason |-> reason]

\* handleExplainFinding of a stored finding: AI Assist is on and the tier allows
\* the endpoint (aiAllowed), and the finding has what the packet needs.
Reply(allowed, complete, attempts, text, verify) ==
    IF ~allowed THEN Withheld("not allowed")
    ELSE IF ~complete THEN Withheld("no packet")
    ELSE IF Outcome(attempts) # "answer" THEN Withheld("no answer")
    ELSE IF Length(Guarded(text)) < MinGrounded THEN Withheld("rejected")
    ELSE [available |-> TRUE, explanation |-> Guarded(text), verify |-> Verified(verify),
          disclaimer |-> "canonical"]

-----------------------------------------------------------------------------
(* Reference *)

\* What the dashboard shows is an answer that came before any failure for good and
\* within the attempts allowed, without a claim of status in any part, and without
\* a claim of severity unless every sentence of the answer made one; it is the
\* answer's own sentences, none grounded is lost, and an answer grounded at length
\* is not withheld (Explain, applyOutputGuards, handleExplainFinding).
NarrationGrounded(allowed, complete, attempts, text, verify) ==
    LET reply    == Reply(allowed, complete, attempts, text, verify)
        tries    == 1 .. MaxRetries + 1
        answered == \E k \in tries : /\ attempts[k] = "answer"
                                     /\ \A i \in 1 .. k - 1 : attempts[i] = "retryable"
        grounded == Listed(text, {i \in DOMAIN text : text[i].claims = {}})
        allConflict == \A i \in DOMAIN text : "severity" \in text[i].claims
    IN  /\ reply.available =>
            /\ allowed /\ complete /\ answered
            /\ \A i \in DOMAIN reply.explanation :
                  /\ "status" \notin reply.explanation[i].claims
                  /\ "severity" \in reply.explanation[i].claims => allConflict
            /\ \A i \in DOMAIN reply.verify : \A j \in DOMAIN reply.verify[i] :
                  "status" \notin reply.verify[i][j].claims
            /\ ~allConflict => reply.explanation = grounded
            /\ reply.disclaimer = "canonical"
        /\ allowed /\ complete /\ answered /\ ~(Length(grounded) < MinGrounded)
               => reply.available

\* An answer, its attempts over, is narrated as NarrationGrounded says, whoever asks
\* and for whatever finding (Explain, handleExplainFinding).
AnswersGrounded ==
    Len(answer.attempts) = MaxRetries + 1 =>
        \A allowed, complete \in BOOLEAN :
            NarrationGrounded(allowed, complete, answer.attempts, answer.text, answer.verify)
=============================================================================
