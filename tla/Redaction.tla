----------------------------- MODULE Redaction -----------------------------
(***************************************************************************)
(* What of a finding's evidence leaves the process for AI Assist           *)
(* (internal/aiclient/evidence.go).                                        *)
(*                                                                         *)
(* A value is a scalar, a string, a map from keys, a list, a list of       *)
(* strings ([]string), or a struct, which marshals to one of the first     *)
(* four or not at all.                                                     *)
(***************************************************************************)
EXTENDS Integers, Sequences, FiniteSets, Listings

CONSTANTS
    Secret,  \* the keys with a secret's marker; keys are numbered in their order
    MaxKeys, MaxList, MaxDepth, MaxString  \* maxEvidenceKeys and so on

ASSUME RedactionAssumption ==
    /\ MaxKeys \in Nat \ {0} /\ MaxDepth \in Nat \ {0}
    /\ MaxList \in Nat /\ MaxString \in Nat

VARIABLE evidence   \* a finding's

Scalar            == [kind |-> "scalar"]
Text(length, foul) == [kind |-> "string", length |-> length, foul |-> foul]
Map(entries)      == [kind |-> "map", entries |-> entries]
List(items)       == [kind |-> "list", items |-> items]
Strings(items)    == [kind |-> "strings", items |-> items]
Struct(value)     == [kind |-> "struct", items |-> <<value>>]
Unserialisable    == [kind |-> "struct", items |-> <<>>]
Placeholder       == Text(1, FALSE)

\* What the round trip through JSON makes of a value.
Generic(v) == IF v.kind = "struct" /\ v.items # <<>> THEN v.items[1] ELSE v

\* What is directly inside a value, and inside it level by level.
Inside(v) ==
    LET g == Generic(v) IN
    IF g.kind = "map" THEN {g.entries[k] : k \in DOMAIN g.entries}
    ELSE IF g.kind = "list" THEN {g.items[i] : i \in DOMAIN g.items}
    ELSE {}
Parts(v) ==
    LET level[n \in 0 .. MaxDepth + 1] ==
            IF n = 0 THEN {v} ELSE UNION {Inside(part) : part \in level[n - 1]}
    IN  level

\* truncateRunes, which adds an ellipsis, of what neutralizeInstructions leaves.
Truncated(length) == IF length > MaxString THEN MaxString + 1 ELSE length
CleanString(t)    == IF t.foul THEN Placeholder ELSE Text(Truncated(t.length), FALSE)

\* sanitizeMap: the first keys in order that are no secret's, nil when none is.
SanitizeMap(v, inner) ==
    LET names == DOMAIN v.entries \ Secret
        kept  == {k \in names : Place(names, k) <= MaxKeys}
    IN  IF kept = {} THEN Scalar ELSE Map([k \in kept |-> inner[v.entries[k]]])

\* The positions of a list that are kept.
Upto(items) == 1 .. IF Len(items) > MaxList THEN MaxList ELSE Len(items)

\* sanitizeValue but for a struct; inner has the values one level down.
SanitizeGeneric(v, depth, inner) ==
    CASE v.kind = "scalar"  -> v
      [] v.kind = "string"  -> CleanString(v)
      [] v.kind \in {"map", "list"} /\ depth >= MaxDepth -> Placeholder
      [] v.kind = "map" /\ depth < MaxDepth  -> SanitizeMap(v, inner)
      [] v.kind = "list" /\ depth < MaxDepth -> List([i \in Upto(v.items) |-> inner[v.items[i]]])
      [] v.kind = "strings" -> List([i \in Upto(v.items) |-> CleanString(v.items[i])])

\* Slip: a product's own struct is forwarded as it is.
SanitizeValueKnown(v, depth, inner) ==
    IF v.kind = "struct" THEN v ELSE SanitizeGeneric(v, depth, inner)

SanitizeValue(v, depth, inner) ==
    IF v = Unserialisable THEN Placeholder ELSE SanitizeGeneric(Generic(v), depth, inner)

\* sanitizeValue of what is in a map of evidence, at each depth.
SanitizeAt(in) ==
    LET at[depth \in 1 .. MaxDepth] ==
            [v \in Parts(in)[depth] |-> SanitizeValue(v, depth, at[depth + 1])]
    IN  at

SanitizeEvidence(in) == SanitizeMap(in, SanitizeAt(in)[1])

-----------------------------------------------------------------------------
(* Reference *)

IsText(v) == v.kind = "string" /\ v = Text(v.length, v.foul) /\ v.length \in Nat /\ v.foul \in BOOLEAN

\* A value of one of the kinds, whatever is inside it.
IsGeneric(v) ==
    \/ v = Scalar
    \/ IsText(v)
    \/ /\ v.kind = "map" /\ v = Map(v.entries) /\ v.entries \in [DOMAIN v.entries -> Inside(v)]
       /\ IsFiniteSet(DOMAIN v.entries) /\ DOMAIN v.entries \subseteq Nat
    \/ v.kind = "list" /\ v = List(v.items) /\ v.items \in Seq(Inside(v))
IsValue(v) ==
    \/ IsGeneric(v)
    \/ /\ v.kind = "strings" /\ v = Strings(v.items) /\ v.items \in Seq({v.items[i] : i \in DOMAIN v.items})
       /\ \A i \in DOMAIN v.items : IsText(v.items[i])
    \/ v = Unserialisable
    \/ v.kind = "struct" /\ v = Struct(v.items[1]) /\ IsGeneric(v.items[1])

\* A map of values.
IsEvidence(in) ==
    /\ in.kind = "map" /\ \A n \in 0 .. MaxDepth : \A part \in Parts(in)[n] : IsValue(part)

\* No secret's key, no instruction, no string longer than so many runes.
IsClean(v, longest) ==
    /\ v.kind \in {"scalar", "string", "map", "list"}
    /\ v.kind = "string" => ~v.foul /\ v.length <= longest
    /\ v.kind = "map"    => /\ DOMAIN v.entries \cap Secret = {}
                            /\ Cardinality(DOMAIN v.entries) \in 1 .. MaxKeys
    /\ v.kind = "list"   => Len(v.items) <= MaxList

\* Clean in all its parts, without a map or a list beyond so many levels.
IsSafe(v, depth, longest) ==
    /\ \A n \in 0 .. depth : \A part \in Parts(v)[n] : IsClean(part, longest)
    /\ \A part \in Parts(v)[depth] : part.kind \in {"scalar", "string"}

\* What leaves the process holds no secret's key at any level, no instruction and
\* nothing beyond the limits, a []string one level beyond the depth at most; and
\* evidence that is so already leaves as it is (SanitizeEvidence).
EvidenceLeavesSafe ==
    evidence.kind = "map" =>
        LET out == SanitizeEvidence(evidence) IN
        /\ IsSafe(out, MaxDepth + 1, MaxString + 1)
        /\ IsSafe(evidence, MaxDepth, MaxString) => out = evidence
=============================================================================
