----------------------------- MODULE AuditChain -----------------------------
(***************************************************************************)
(* The tenant's audit chain (audit.rs and its seven writers).              *)
(*                                                                         *)
(* Every audited fact is a row of `audit_events` that names the hash of    *)
(* the row before it.  A transaction that appends takes the tenant's       *)
(* advisory lock, which it holds until it ends, reads the head of the      *)
(* chain and inserts; two unique indexes allow one row without a           *)
(* predecessor and one successor of each row.  The writers do not agree on *)
(* what the head is: the API takes the row PostgreSQL stored last by its   *)
(* own clock, everyone else the row that no other row names.               *)
(*                                                                         *)
(* `verify_audit_chain` reads exported rows back.  Between the two lies    *)
(* PostgreSQL's timestamptz, which keeps microseconds of what some writers *)
(* hash in nanoseconds.                                                    *)
(*                                                                         *)
(* A digest is the content it was computed from, so it is collision free   *)
(* and nothing else.  The auditor's source is not trusted: it may leave    *)
(* out, repeat, reorder and forge rows.                                    *)
(***************************************************************************)
EXTENDS Integers, FiniteSets, SequencesExt

CONSTANTS
    Writers,            \* database sessions that append
    AppendingKinds,              \* which of the writers they are
    Fractions,          \* what a local clock may read below a microsecond
    MaxEvents,          \* bound: rows of the table, and so ids
    MaxTime,            \* bound: readings of the database's clock
    MaxAppends,         \* bound: rows one transaction appends
    NoOne               \* no lock holder, no open transaction's writer

WriterKinds == {"API", "STEP", "INCIDENT", "REACTOR", "WORKER", "INTAKE"}

ASSUME AuditChainAssumption ==
    /\ IsFiniteSet(Writers)
    /\ AppendingKinds \subseteq WriterKinds
    /\ Fractions \subseteq Nat /\ 0 \in Fractions
    /\ {MaxEvents, MaxAppends} \subseteq Nat \ {0} /\ MaxTime \in Nat
    /\ NoOne \notin Writers \cup WriterKinds

VARIABLES
    clock,              \* the database's clock; an operator or NTP may set it
    auditRows,               \* audit_events, as committed
    lock,               \* the session holding the tenant's advisory lock
    txn,                \* per session its open transaction
    export               \* one export and its verification

auditVars == <<clock, auditRows, lock, txn, export>>

EventIds == 1..MaxEvents

\* What the first row names; it is no digest.
NoHash == [none |-> TRUE]

Idle == [kind |-> NoOne, read |-> FALSE, head |-> NoHash, new |-> <<>>, refused |-> FALSE]
NoAudit == [state |-> "NONE", of |-> {}, seen |-> <<>>, head |-> NoHash]

-----------------------------------------------------------------------------
(* Events. *)

Digest(content) == [sha256 |-> content]

\* HashedAuditEvent::create.
Create(content) == [content |-> content, hash |-> Digest(content)]

\* timestamptz keeps microseconds.
AsStored(content) == [content EXCEPT !.fraction = 0]

Hashes(S) == {r.hash : r \in S}

\* The rows that no other row names.
Heads(S) == {r.hash : r \in {q \in S : \A p \in S : p.content.prev # q.hash}}

\* Later(a, b): the order of `ingested_at DESC, id DESC`.
Later(a, b) == \/ a.at > b.at
               \/ a.at = b.at /\ a.content.id > b.content.id

Newest(S) == {r.hash : r \in {q \in S : \A p \in S \ {q} : Later(q, p)}}

\* The rows a session sees: the committed ones and its own.
Visible(w) == auditRows \cup Range(txn[w].new)

OrNone(S) == IF S = {} THEN {NoHash} ELSE S

\* The hashes the session may take for the head; with none the transaction
\* can only be rolled back.  The steps' query has no order and takes whichever
\* row comes first.
HeadsRead(w) ==
    LET seen == Visible(w) IN
    CASE txn[w].kind = "API" -> OrNone(Newest(seen))
      [] txn[w].kind \in {"WORKER", "INTAKE"} ->
            IF Cardinality(Heads(seen)) > 1 THEN {} ELSE OrNone(Heads(seen))
      [] OTHER -> OrNone(Heads(seen))

-----------------------------------------------------------------------------
(* Appending. *)

Row(id, prev, fraction) ==
    LET event == Create([id |-> id, tenant |-> "ours", prev |-> prev, body |-> "fact",
                         fraction |-> fraction])
    IN  [content |-> AsStored(event.content), hash |-> event.hash, at |-> clock]

\* The tenant's row and its first event are written by one transaction that
\* holds the tenants table.  Before it there is no tenant to append for.
Provision ==
    /\ auditRows = {}
    /\ \E id \in EventIds, f \in Fractions : auditRows' = {Row(id, NoHash, f)}
    /\ UNCHANGED <<clock, lock, txn, export>>

\* The clock of the database is set, forwards or back.
SetClock == /\ clock' \in (0..MaxTime) \ {clock}
            /\ UNCHANGED <<auditRows, lock, txn, export>>

Begin(w) ==
    /\ auditRows # {} /\ txn[w].kind = NoOne
    /\ \E k \in AppendingKinds : txn' = [txn EXCEPT ![w] = [Idle EXCEPT !.kind = k]]
    /\ UNCHANGED <<clock, auditRows, lock, export>>

LockChain(w) ==
    /\ txn[w].kind # NoOne /\ lock = NoOne
    /\ lock' = w
    /\ UNCHANGED <<clock, auditRows, txn, export>>

\* The session's transaction ends and with it the lock it holds.
Release(w) == lock' = IF lock = w THEN NoOne ELSE lock

Refuse(w) == /\ txn' = [txn EXCEPT ![w] = [Idle EXCEPT !.refused = TRUE]]
             /\ Release(w)
             /\ UNCHANGED <<clock, auditRows, export>>

\* Fault: the head is read before the chain is locked.
MayReadUnlocked(w) == TRUE
MayRead(w) == lock = w

ReadHead(w) ==
    /\ txn[w].kind # NoOne /\ ~txn[w].read /\ MayRead(w)
    /\ \E h \in HeadsRead(w) :
          txn' = [txn EXCEPT ![w] = [txn[w] EXCEPT !.read = TRUE, !.head = h]]
    /\ UNCHANGED <<clock, auditRows, lock, export>>

\* audit_events_one_root_per_tenant_idx and audit_events_one_successor_idx.
MayInsert(w, row) == \A r \in Visible(w) : r.content.prev # row.content.prev

UsedIds == {r.content.id : r \in auditRows \cup UNION {Range(txn[w].new) : w \in Writers}}

\* One row behind the head that was read, of a fact at one of the given times.
InsertRow(w, fractions, carries) ==
    /\ lock = w /\ txn[w].read /\ Len(txn[w].new) < MaxAppends
    /\ \E id \in EventIds \ UsedIds, f \in fractions :
          LET row == Row(id, txn[w].head, f) IN
          \/ /\ ~MayInsert(w, row)
             /\ Refuse(w)
          \/ /\ MayInsert(w, row)
             /\ txn' = [txn EXCEPT ![w] = [txn[w] EXCEPT !.new = Append(txn[w].new, row),
                                                         !.head = row.hash, !.read = carries]]
             /\ UNCHANGED <<clock, auditRows, lock, export>>

\* The API asks the database for the time of the fact, so that what it hashes
\* is what is stored; an incident's time is read from its updated row.  The
\* others hash a time of their own clock (some steps one of the database's,
\* which is among the Fractions).
AppendAudit(w) == txn[w].kind = "API" /\ InsertRow(w, {0}, FALSE)
AppendTransitionAudit(w) == txn[w].kind = "INCIDENT" /\ InsertRow(w, {0}, FALSE)
InsertAuditEvent(w) == txn[w].kind = "STEP" /\ InsertRow(w, Fractions, FALSE)
AppendOperationalFailureAudit(w) == txn[w].kind = "REACTOR" /\ InsertRow(w, Fractions, FALSE)
AppendWorkerAudit(w) == txn[w].kind = "WORKER" /\ InsertRow(w, Fractions, FALSE)

\* The intake's writer reads the head once and carries the hash of its own
\* last row; the others read the head again for each row.
AppendFact(w) == txn[w].kind = "INTAKE" /\ InsertRow(w, Fractions, TRUE)

Commit(w) ==
    /\ txn[w].new # <<>>
    /\ auditRows' = auditRows \cup Range(txn[w].new)
    /\ txn' = [txn EXCEPT ![w] = Idle]
    /\ Release(w)
    /\ UNCHANGED <<clock, export>>

\* The process dies, or a later statement of the transaction fails.
Rollback(w) ==
    /\ txn[w].kind # NoOne
    /\ txn' = [txn EXCEPT ![w] = Idle]
    /\ Release(w)
    /\ UNCHANGED <<clock, auditRows, export>>

-----------------------------------------------------------------------------
(* Verifying an export. *)

\* What the source of an export can put in the place of a stored row: another
\* content or another predecessor, with the hash that was there or a new one.
Forged(S) ==
    LET contents == {r.content : r \in S}
        changed == {[c EXCEPT !.body = b] : c \in contents, b \in {"altered", "blank"}}
                   \cup {[c EXCEPT !.tenant = "other"] : c \in contents}
                   \cup {[c EXCEPT !.prev = h] : c \in contents, h \in Hashes(S) \cup {NoHash}}
    IN  {Create(c) : c \in changed}
        \cup {[content |-> c, hash |-> r.hash] : c \in changed, r \in S}

Events(S) == {[content |-> r.content, hash |-> r.hash] : r \in S}

\* validate_content.
WellFormed(content) == content.body # "blank"

\* HashedAuditEvent::verify.
Verifies(event) == WellFormed(event.content) /\ Digest(event.content) = event.hash

\* One turn of the loop of verify_audit_chain.
VerifyNext(seen, event) ==
    /\ Verifies(event)
    /\ event.content.tenant = "ours"
    /\ \A e \in Range(seen) : e.content.id # event.content.id /\ e.hash # event.hash
    /\ event.content.prev = IF seen = <<>> THEN NoHash ELSE Last(seen).hash

StartExport ==
    /\ export.state = "NONE" /\ auditRows # {}
    /\ export' = [NoAudit EXCEPT !.state = "OPEN", !.of = auditRows]
    /\ UNCHANGED <<clock, auditRows, lock, txn>>

\* The next row of the export; the first one that fails ends it.
Present ==
    /\ export.state = "OPEN" /\ Len(export.seen) <= MaxEvents
    /\ \E event \in Events(export.of) \cup Forged(export.of) :
          export' = IF VerifyNext(export.seen, event)
                   THEN [export EXCEPT !.seen = Append(@, event)]
                   ELSE [export EXCEPT !.state = "REFUSED", !.seen = <<>>]
    /\ UNCHANGED <<clock, auditRows, lock, txn>>

FirstHash(seen) == IF seen = <<>> THEN NoHash ELSE Head(seen).hash
LastHash(seen) == IF seen = <<>> THEN NoHash ELSE Last(seen).hash

\* The counts and hashes the export claims against the ones of its rows.
ClaimsHold(claim, seen) ==
    /\ claim.count = Len(seen)
    /\ claim.genesis = FirstHash(seen)
    /\ claim.head = LastHash(seen)

Claims ==
    [count : {Len(export.seen), Cardinality(export.of)},
     genesis : {FirstHash(export.seen)} \cup {r.hash : r \in {q \in export.of : q.content.prev = NoHash}},
     head : {LastHash(export.seen)} \cup Heads(export.of)]

\* AuditChainExport::verify.
EndExport ==
    /\ export.state = "OPEN"
    /\ \E claim \in Claims :
          export' = IF ClaimsHold(claim, export.seen)
                   THEN [export EXCEPT !.state = "ACCEPTED", !.head = claim.head]
                   ELSE [export EXCEPT !.state = "REFUSED", !.seen = <<>>]
    /\ UNCHANGED <<clock, auditRows, lock, txn>>

-----------------------------------------------------------------------------
AuditInit ==
    /\ clock \in 0..MaxTime
    /\ auditRows = {}
    /\ lock = NoOne
    /\ txn = [w \in Writers |-> Idle]
    /\ export = NoAudit

Write(w) == \/ Begin(w) \/ LockChain(w) \/ ReadHead(w)
            \/ AppendAudit(w) \/ AppendTransitionAudit(w) \/ InsertAuditEvent(w)
            \/ AppendOperationalFailureAudit(w) \/ AppendWorkerAudit(w) \/ AppendFact(w)
            \/ Commit(w) \/ Rollback(w)

ExportStep == StartExport \/ Present \/ EndExport

AuditNext == \/ Provision
             \/ SetClock
             \/ \E w \in Writers : Write(w)
             \/ ExportStep

AuditSpec == AuditInit /\ [][AuditNext]_auditVars

-----------------------------------------------------------------------------
(* Properties. *)

\* Every row is the stored form of something that was hashed, an open
\* transaction's rows follow its own head, and a lock is held by an open
\* transaction only.
AuditTypeOK ==
    /\ clock \in 0..MaxTime
    /\ lock \in Writers \cup {NoOne}
    /\ lock # NoOne => txn[lock].kind \in AppendingKinds
    /\ \A r \in auditRows : /\ r.content.id \in EventIds /\ r.at \in 0..MaxTime
                            /\ \E f \in Fractions : r.hash = Digest([r.content EXCEPT !.fraction = f])
    /\ \A w \in Writers : /\ txn[w].kind \in AppendingKinds \cup {NoOne}
                          /\ Len(txn[w].new) <= MaxAppends
                          /\ (txn[w].new # <<>> => lock = w)
    /\ export.state \in {"NONE", "OPEN", "ACCEPTED", "REFUSED"}

\* The committed rows are one chain: one first row, and every other row is
\* the only successor of a stored one.  Transactions that crash, two that run
\* at once and a clock that is set back cannot fork it (audit_events'
\* indexes, with append_audit's reading of the head by time).
ChainIsOne ==
    LET prevs == {r.content.prev : r \in auditRows} IN
    /\ Cardinality(prevs) = Cardinality(auditRows)
    /\ auditRows # {} => NoHash \in prevs
    /\ prevs \ {NoHash} \subseteq Hashes(auditRows)

\* A writer is refused its row only when it is the API's and the database's
\* clock has set another row behind the chain's head; a writer that follows
\* the links is never refused.  The lock is what makes this true: without it
\* two writers would read the same head (pg_advisory_xact_lock before the
\* head, in all of them).
RefusedOnlyByTheClock ==
    [][\A w \in Writers :
          (txn'[w].refused /\ ~txn[w].refused) =>
             txn[w].kind = "API" /\ Newest(Visible(w)) # Heads(Visible(w))]_auditVars

\* An accepted export whose head is the head of the table holds the table's
\* rows, all of them, each as it is stored and in the order of the chain
\* (AuditChainExport::verify, verify_audit_chain).
AnchoredExportIsExact ==
    (export.state = "ACCEPTED" /\ export.head \in Heads(export.of)) =>
        /\ Range(export.seen) = Events(export.of)
        /\ Len(export.seen) = Cardinality(export.of)
        /\ \A i \in 2..Len(export.seen) :
              export.seen[i].content.prev = export.seen[i - 1].hash

\* The audit trail is one chain that every writer can extend and an anchored
\* export proves: the parts above together.
AuditIsOneChain ==
    /\ [](AuditTypeOK /\ ChainIsOne /\ AnchoredExportIsExact)
    /\ RefusedOnlyByTheClock

=============================================================================
