------------------------------- MODULE Tables -------------------------------
(***************************************************************************)
(* The two stores behind the store interfaces, in step: every call goes to *)
(* the one in memory (store/memory.go, verify/memstore.go) and to the one  *)
(* on SQLite (store/sqlite.go, store/verify_sqlite.go).  The tests of the  *)
(* engine and of the dashboard run on the first, the product on the second.*)
(*                                                                         *)
(* A finding is its identity at birth (ULID and first_seen) and the        *)
(* columns an update may change; a table of SQLite is a function from      *)
(* rowids to rows.                                                         *)
(***************************************************************************)
EXTENDS Integers, Sequences, SequencesExt, FiniteSets, Listings

CONSTANTS
    Prints, Births, Columns,  \* fingerprints, identities, the other columns
    RawTargets,               \* targets as typed; several may mean the same
    Canonical,                \* the target each of them means
    Domains, Proofs, NoProof  \* challenges: domains, their token and state

VARIABLES
    memory,   \* MemStore: rows by key, targets in a slice; verify.MemStore
    sqlite,   \* SQLiteStore and SQLiteVerifyStore: the same by rowid
    born      \* history: the identity a finding was first stored with

stores == <<memory, sqlite, born>>

Empty == [x \in {} |-> x]
Put(f, key, value) == [k \in DOMAIN f \cup {key} |-> IF k = key THEN value ELSE f[k]]
Rows(table) == {table[id] : id \in DOMAIN table}

\* A new row takes the rowid after the largest one in use.
NextRowid(table) == IF DOMAIN table = {} THEN 1 ELSE Max(DOMAIN table) + 1
Insert(table, row) == Put(table, NextRowid(table), row)
Delete(table, gone) == [id \in {i \in DOMAIN table : table[i] \notin gone} |-> table[id]]
InOrder(table) == Listed(table, DOMAIN table)

InitStores ==
    /\ memory = [findings |-> Empty, targets |-> <<>>, proofs |-> Empty]
    /\ sqlite = [findings |-> Empty, targets |-> Empty, proofs |-> Empty]
    /\ born = Empty

\* Slip: INSERT OR REPLACE.
UpsertedWhole(findings, print, birth, columns) ==
    Put(findings, print, [birth |-> birth, columns |-> columns])

\* Upsert.  In memory the row is replaced; SQLite keeps what ON CONFLICT does not
\* name, the identity.
Upserted(findings, print, birth, columns) ==
    Put(findings, print,
        [birth   |-> IF print \in DOMAIN findings THEN findings[print].birth ELSE birth,
         columns |-> columns])

Upsert(print, birth, columns) ==
    /\ memory' = [memory EXCEPT !.findings =
                      Put(@, print, [birth |-> birth, columns |-> columns])]
    /\ sqlite' = [sqlite EXCEPT !.findings = Upserted(@, print, birth, columns)]
    /\ born' = IF print \in DOMAIN born THEN born ELSE Put(born, print, birth)

\* SaveTarget: idempotent on the canonical form, the first raw form stays.
SaveTarget(raw) ==
    LET row == [raw |-> raw, canonical |-> Canonical[raw]]
        known(rows) == \E r \in rows : r.canonical = row.canonical
    IN  /\ memory' = [memory EXCEPT !.targets =
                          IF known(ToSet(@)) THEN @ ELSE Append(@, row)]
        /\ sqlite' = [sqlite EXCEPT !.targets =
                          IF known(Rows(@)) THEN @ ELSE Insert(@, row)]
        /\ UNCHANGED born

DeleteTarget(canonical) ==
    /\ memory' = [memory EXCEPT !.targets =
                      Listed(@, {i \in DOMAIN @ : @[i].canonical # canonical})]
    /\ sqlite' = [sqlite EXCEPT !.targets =
                      Delete(@, {row \in Rows(@) : row.canonical = canonical})]
    /\ UNCHANGED born

\* verify.Store: Put replaces, Delete removes.
PutProof(domain, proof) ==
    /\ memory' = [memory EXCEPT !.proofs = Put(@, domain, proof)]
    /\ sqlite' = [sqlite EXCEPT !.proofs =
                      IF \E id \in DOMAIN @ : @[id].domain = domain
                      THEN [id \in DOMAIN @ |-> IF @[id].domain = domain
                                THEN [domain |-> domain, proof |-> proof] ELSE @[id]]
                      ELSE Insert(@, [domain |-> domain, proof |-> proof])]
    /\ UNCHANGED born

DeleteProof(domain) ==
    /\ memory' = [memory EXCEPT !.proofs = [d \in DOMAIN @ \ {domain} |-> @[d]]]
    /\ sqlite' = [sqlite EXCEPT !.proofs = Delete(@, {row \in Rows(@) : row.domain = domain})]
    /\ UNCHANGED born

NextStores ==
    \/ \E p \in Prints, b \in Births, c \in Columns : Upsert(p, b, c)
    \/ \E raw \in RawTargets : SaveTarget(raw) \/ DeleteTarget(Canonical[raw])
    \/ \E d \in Domains : DeleteProof(d) \/ \E proof \in Proofs : PutProof(d, proof)

StoresSpec == InitStores /\ [][NextStores]_stores

-----------------------------------------------------------------------------
(* What the interfaces show. *)

SavedInMemory == [i \in DOMAIN memory.targets |-> memory.targets[i].raw]
SavedInSQLite == [i \in DOMAIN InOrder(sqlite.targets) |-> InOrder(sqlite.targets)[i].raw]
ProofInSQLite(d) == LET found == {row \in Rows(sqlite.proofs) : row.domain = d}
                    IN  IF found = {} THEN NoProof ELSE (CHOOSE row \in found : TRUE).proof

\* Whatever the order of calls, the two stores answer the same: the same findings
\* with the same columns, the saved targets in the same order although SQLite uses
\* rowids again, the same challenges; but for the identity of a finding, which in
\* SQLite stays the one it was born with (Upsert, ListSavedTargets, verify.Store).
StoresAgree ==
    /\ DOMAIN memory.findings = DOMAIN sqlite.findings
    /\ \A p \in DOMAIN memory.findings :
          /\ memory.findings[p].columns = sqlite.findings[p].columns
          /\ sqlite.findings[p].birth = born[p]
    /\ SavedInMemory = SavedInSQLite
    /\ \A d \in Domains :
          ProofInSQLite(d) = IF d \in DOMAIN memory.proofs THEN memory.proofs[d] ELSE NoProof

\* A table whose rowids are naturals, finitely many.
IsTable(table) ==
    /\ table = [id \in DOMAIN table |-> table[id]]
    /\ DOMAIN table \in SUBSET Nat
    /\ IsFiniteSet(DOMAIN table)

FindingsInStep ==
    /\ DOMAIN memory.findings = DOMAIN born
    /\ DOMAIN sqlite.findings = DOMAIN born
    /\ \A p \in DOMAIN born :
          /\ memory.findings[p].columns = sqlite.findings[p].columns
          /\ sqlite.findings[p].birth = born[p]

TargetsInStep ==
    /\ IsTable(sqlite.targets)
    /\ memory.targets = InOrder(sqlite.targets)

ProofsInStep ==
    /\ IsTable(sqlite.proofs)
    /\ Rows(sqlite.proofs) =
          {[domain |-> d, proof |-> memory.proofs[d]] : d \in DOMAIN memory.proofs}

\* StoresAgree, strengthened until it is inductive: whole rows agree, not only what
\* the interfaces show of them.
StoresInv ==
    /\ memory = [findings |-> memory.findings, targets |-> memory.targets,
                 proofs |-> memory.proofs]
    /\ sqlite = [findings |-> sqlite.findings, targets |-> sqlite.targets,
                 proofs |-> sqlite.proofs]
    /\ FindingsInStep
    /\ TargetsInStep
    /\ ProofsInStep
=============================================================================
