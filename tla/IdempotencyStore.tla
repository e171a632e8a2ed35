-------------------------- MODULE IdempotencyStore --------------------------
(***************************************************************************)
(* The durable rows of packages/core/src/idempotency-store.ts for the      *)
(* messages of one adapter.  The store is synchronous: each of its methods *)
(* is one SQLite statement or transaction.  A method is therefore an       *)
(* operator from the table to the new table, with a predicate for the      *)
(* condition under which it does not throw, and the modules that own a     *)
(* table apply them in their actions.                                      *)
(*                                                                         *)
(* A row is keyed by its message.  The payload hash is `own' for the text  *)
(* the message arrived with.  A response is the terminal event the row     *)
(* retains.  Time stamps and the curated error text are left out.          *)
(***************************************************************************)
CONSTANTS
    Message,    \* message ids of the adapter
    NoRow,      \* the key has no row
    NoResponse  \* response_payload IS NULL

IngestState == {"pending", "completed"}

DeliveryState == {"pending", "saved", "sent", "failed"}

RowType(Hash, Response) ==
    [corr : Message, hash : Hash, ingest : IngestState,
     delivery : DeliveryState, response : Response \cup {NoResponse}]

EmptyStore == [m \in Message |-> NoRow]

Rows(rows) == {m \in Message : rows[m] # NoRow}

(* The CHECK constraints of the schema. *)
SchemaHolds(row) == (row.delivery = "pending") <=> (row.response = NoResponse)

(* beginInbound: the kind of its result, `conflict' for the error it throws. *)
BeginKind(rows, m, hash) ==
    CASE rows[m] = NoRow                -> "created"
      [] rows[m] # NoRow /\ rows[m].hash # hash -> "conflict"
      [] OTHER -> CASE rows[m].delivery = "sent"   -> "already-sent"
                    [] rows[m].delivery = "saved"  -> "response-saved"
                    [] rows[m].delivery = "failed" -> "delivery-failed"
                    [] OTHER                       -> "pending"

(* The insert of beginInbound, for a key without a row. *)
Insert(rows, m, hash, corr) ==
    [rows EXCEPT ![m] = [corr |-> corr, hash |-> hash, ingest |-> "pending",
                         delivery |-> "pending", response |-> NoResponse]]

IngestPending(rows, m) == rows[m] # NoRow /\ rows[m].ingest = "pending"

(* markIngestComplete throws unless the ingest is pending. *)
MarkIngestComplete(rows, m) == [rows EXCEPT ![m].ingest = "completed"]

(* getEntriesByCorrelation *)
Siblings(rows, c) == {m \in Rows(rows) : rows[m].corr = c}

(* Mutant: only the message that created the correlation is answered. *)
SaveForCorrelation_CreatorOnly(rows, c, e) ==
    [rows EXCEPT ![c] = IF @ # NoRow /\ @.delivery = "pending"
                        THEN [@ EXCEPT !.ingest = "completed", !.delivery = "saved",
                                       !.response = e]
                        ELSE @]

(* saveResponseForCorrelation *)
SaveForCorrelation(rows, c, e) ==
    [m \in Message |->
        IF m \in Siblings(rows, c) /\ rows[m].delivery = "pending"
        THEN [rows[m] EXCEPT !.ingest = "completed", !.delivery = "saved",
                             !.response = e]
        ELSE rows[m]]

(* markCorrelationSent *)
CorrelationSent(rows, c) ==
    [m \in Message |->
        IF m \in Siblings(rows, c) /\ rows[m].delivery \in {"saved", "failed"}
        THEN [rows[m] EXCEPT !.delivery = "sent"]
        ELSE rows[m]]

(* Mutant: a late failure overwrites a confirmed delivery. *)
CorrelationFailed_Overwrites(rows, c) ==
    [m \in Message |-> IF m \in Siblings(rows, c)
                       THEN [rows[m] EXCEPT !.delivery = "failed"] ELSE rows[m]]

(* markCorrelationFailed *)
CorrelationFailed(rows, c) ==
    [m \in Message |->
        IF m \in Siblings(rows, c) /\ rows[m].delivery = "saved"
        THEN [rows[m] EXCEPT !.delivery = "failed"]
        ELSE rows[m]]

(* listSavedResponses, as the correlations of its rows. *)
SavedCorrelations(rows) ==
    {rows[m].corr : m \in {n \in Rows(rows) : rows[n].delivery = "saved"}}
=============================================================================
