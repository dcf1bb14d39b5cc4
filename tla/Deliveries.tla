----------------------------- MODULE Deliveries -----------------------------
(***************************************************************************)
(* The deliveries table of the host database (internal/state/deliveries.go) *)
(* and every transaction over it.  The host database has one connection, so *)
(* each transaction is one atomic step.                                     *)
(*                                                                          *)
(* A row is keyed by its run and its chunk, the table's UNIQUE constraint.  *)
(* Texts are abstracted to their revision: revision 0 is the placeholder,   *)
(* revision 1 the run's committed text, and `text` says whether the row     *)
(* still holds the text of its desired revision.  retry_at, first_attempt_at*)
(* and audit are left out: the first two only delay an attempt or end the   *)
(* automated window, which the callers choose nondeterministically.         *)
(***************************************************************************)
EXTENDS Integers, FiniteSets

CONSTANTS
    Routes,       \* route keys
    Msgs,         \* platform messages, by dedup key: the inbox primary keys
    RunIds,       \* run identifiers handed out by the agent runtime
    NoRun,        \* run_id '': not admitted
    MaxChunks     \* most chunks one answer is split into

ASSUME MaxChunksAssumption == MaxChunks \in Nat \ {0}

VARIABLE deliveries   \* <<run, chunk>> -> row

Chunks == 0 .. MaxChunks - 1
RowKeys == RunIds \X Chunks

PlaceholderRev == 0
FinalRev == 1
NeverAcked == -1
NoRemote == 0          \* remote_id ''
NoNonce == 0           \* nonce ''

Statuses == {"pending", "acked", "ambiguous_create", "failed"}
Ops == {"planned", "create_intent", "edit_pending", "acked"}

Row == [route: Routes, gen: Nat, inbox: Msgs, seq: Nat,
        desired: Nat, acked: Int, text: BOOLEAN,
        remote: Nat, nonce: Nat, status: Statuses, op: Ops, attempts: Nat]

RowsOK == /\ DOMAIN deliveries \subseteq RowKeys
          /\ deliveries \in [DOMAIN deliveries -> Row]

Resolved(row) == row.status = "acked" /\ row.acked = row.desired

Unresolved(r) ==
    {k \in DOMAIN deliveries : deliveries[k].route = r /\ ~Resolved(deliveries[k])}

(* The lane order of a route: delivery_seq, then chunk_index.               *)
Before(j, k) ==
    \/ deliveries[j].seq < deliveries[k].seq
    \/ deliveries[j].seq = deliveries[k].seq /\ j[2] < k[2]

(* Faulty NextDelivery: it skips the rows that wait for the operator.       *)
IsNextPending(k) ==
    /\ k \in Unresolved(deliveries[k].route)
    /\ \A j \in Unresolved(deliveries[k].route) :
          deliveries[j].status = "pending" => ~Before(j, k)

(* NextDelivery: k is the row it returns for its route.                     *)
IsNext(k) ==
    /\ k \in Unresolved(deliveries[k].route)
    /\ \A j \in Unresolved(deliveries[k].route) : ~Before(j, k)

Blocked(row) == row.status \in {"failed", "ambiguous_create"}

-----------------------------------------------------------------------------
(* planDeliveriesTx                                                         *)

(* Faulty plan: delivery_seq is left at its default.                        *)
NewRowUnordered(item, m, rev) ==
    [route |-> item.route, gen |-> item.gen, inbox |-> m, seq |-> 0,
     desired |-> rev, acked |-> NeverAcked, text |-> TRUE,
     remote |-> NoRemote, nonce |-> NoNonce,
     status |-> "pending", op |-> "planned", attempts |-> 0]

NewRow(item, m, rev) ==
    [route |-> item.route, gen |-> item.gen, inbox |-> m, seq |-> item.seq,
     desired |-> rev, acked |-> NeverAcked, text |-> TRUE,
     remote |-> NoRemote, nonce |-> NoNonce,
     status |-> "pending", op |-> "planned", attempts |-> 0]

(* Faulty plan: ON CONFLICT DO NOTHING.                                     *)
ReplanNothing(row, rev) == row

(* An existing row takes the plan unless it already wants a newer revision. *)
Replan(row, rev) ==
    IF row.desired > rev THEN row
    ELSE [row EXCEPT
            !.desired = rev,
            !.text = TRUE,
            !.op = IF row.remote = NoRemote THEN @ ELSE "edit_pending",
            !.status = IF @ = "acked" /\ row.acked # rev THEN "pending" ELSE @]

(* The table after planning chunks 0 .. n-1 of item m at revision rev.      *)
PlanDeliveries(item, m, n, rev) ==
    LET planned == {item.run} \X (0 .. n - 1)
    IN  [k \in DOMAIN deliveries \cup planned |->
            IF k \notin planned THEN deliveries[k]
            ELSE IF k \in DOMAIN deliveries THEN Replan(deliveries[k], rev)
            ELSE NewRow(item, m, rev)]

(* PlanPreview: the chunk-0 status row of an admitted run.                  *)
PlanPreview(item, m) ==
    /\ item.run # NoRun
    /\ deliveries' = PlanDeliveries(item, m, 1, PlaceholderRev)

-----------------------------------------------------------------------------
(* The guarded updates of one row.                                          *)

SetRow(k, row) == deliveries' = [deliveries EXCEPT ![k] = row]

MarkCreateIntent(k, fresh) ==
    /\ deliveries[k].remote = NoRemote
    /\ SetRow(k, [deliveries[k] EXCEPT
                    !.op = "create_intent",
                    !.nonce = IF @ = NoNonce THEN fresh ELSE @,
                    !.attempts = @ + 1])

(* Faulty markAcked: every acknowledgement clears the text.                 *)
AckedRowCleared(row, id, rev) ==
    [row EXCEPT
        !.acked = rev,
        !.attempts = 0,
        !.remote = id,
        !.text = FALSE,
        !.status = IF rev = row.desired THEN "acked" ELSE "pending",
        !.op = IF rev = row.desired THEN "acked" ELSE "edit_pending"]

(* markAcked: a row acknowledged below its desired revision stays pending   *)
(* for an edit and keeps its text.                                          *)
AckedRow(row, id, rev) ==
    [row EXCEPT
        !.acked = rev,
        !.attempts = 0,
        !.remote = id,
        !.text = @ /\ rev # row.desired,
        !.status = IF rev = row.desired THEN "acked" ELSE "pending",
        !.op = IF rev = row.desired THEN "acked" ELSE "edit_pending"]

MarkCreated(k, id, rev) == SetRow(k, AckedRow(deliveries[k], id, rev))

MarkEdited(k, rev) ==
    SetRow(k, AckedRow(deliveries[k], deliveries[k].remote, rev))

(* MarkRetryAt and MarkAttempt: a definite failure takes a row that has no  *)
(* message back to planned; only MarkAttempt counts the attempt.            *)
PlannedAgain(row) ==
    [row EXCEPT !.op = IF row.remote = NoRemote THEN "planned" ELSE @]

MarkRetryAt(k) == SetRow(k, PlannedAgain(deliveries[k]))

MarkAttempt(k) ==
    SetRow(k, [PlannedAgain(deliveries[k]) EXCEPT !.attempts = @ + 1])

MarkAmbiguous(k) ==
    /\ deliveries[k].remote = NoRemote
    /\ SetRow(k, [deliveries[k] EXCEPT !.status = "ambiguous_create"])

MarkFailed(k) ==
    /\ ~Resolved(deliveries[k])
    /\ SetRow(k, [deliveries[k] EXCEPT !.status = "failed"])

AssociateMessage(k, id) ==
    /\ Blocked(deliveries[k])
    /\ SetRow(k, [deliveries[k] EXCEPT !.remote = id, !.status = "pending",
                                       !.op = "edit_pending", !.attempts = 0])

(* Faulty resend: it forgets the message the row already has.               *)
ResendForgetting(k) ==
    /\ Blocked(deliveries[k])
    /\ SetRow(k, [deliveries[k] EXCEPT !.status = "pending", !.op = "planned",
                                       !.remote = NoRemote, !.nonce = NoNonce,
                                       !.attempts = 0])

Resend(k) ==
    /\ Blocked(deliveries[k])
    /\ SetRow(k, [deliveries[k] EXCEPT
                    !.status = "pending",
                    !.op = IF deliveries[k].remote = NoRemote
                           THEN "planned" ELSE "edit_pending",
                    !.nonce = NoNonce,
                    !.attempts = 0])
=============================================================================
