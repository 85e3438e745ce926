--------------------------- MODULE DocumentVault ---------------------------
(***************************************************************************)
(* The document vault: routers/documents.py and                            *)
(* services/document_service.py.  A document is an object in MinIO and a   *)
(* row in documents; no transaction spans the two, and each request goes   *)
(* from one to the other in steps.                                         *)
(*                                                                         *)
(* Requests that only read (the two lists, the download link) are the      *)
(* operators ExpiryStatus and Attachable.                                  *)
(***************************************************************************)
EXTENDS Integers

CONSTANTS
    Docs,      \* documents that may be uploaded; each has an object key of its own
    NoDoc,
    Requests,  \* requests that may be under way at once
    Times,     \* instants at which something may happen, in fractions of a day
    Day,       \* the length of a day
    MaxFaults  \* bound: calls that fail and requests that die

Never == -1  \* expires_at is NULL

ASSUME TimeAssumption == Times \subseteq Nat /\ Day \in Nat \ {0}
ASSUME BoundAssumption == MaxFaults \in Nat
ASSUME DocAssumption == NoDoc \notin Docs

Expiries == Times \cup {Never}

VARIABLES
    objects,  \* keys in the bucket
    row,      \* documents: "none", "live" or "gone" (deleted)
    expires,  \* documents.expires_at
    req,      \* the requests
    clock, faults,
    tainted   \* history: documents that a failure caught between the two stores

vars == <<objects, row, expires, req, clock, faults, tainted>>

\* An upload is at "put", "insert", "refresh" (the row is committed) or "undo"; a
\* deletion at "remove" or "erase"; a change of the metadata at "patch".
Places == {"idle", "put", "insert", "refresh", "undo", "remove", "erase", "patch"}
Statuses == {"ok", "warning_14", "warning_7", "expired"}

Idle == [at |-> "idle", doc |-> NoDoc, exp |-> Never]
RequestStates == {Idle} \cup [at : Places \ {"idle"}, doc : Docs, exp : Expiries]

\* Every variable has its type; a request is idle or busy with one document.
TypeOK ==
    /\ objects \in SUBSET Docs
    /\ row \in [Docs -> {"none", "live", "gone"}]
    /\ expires \in [Docs -> Expiries]
    /\ req \in [Requests -> RequestStates]
    /\ clock \in Times /\ faults \in Nat
    /\ tainted \in SUBSET Docs

Init ==
    /\ objects = {} /\ tainted = {}
    /\ row = [d \in Docs |-> "none"]
    /\ expires = [d \in Docs |-> Never]
    /\ req = [r \in Requests |-> Idle]
    /\ clock \in Times /\ \A c \in Times : clock <= c
    /\ faults = 0

Busy(r, place) == req[r].at = place
Quiet(d) == \A r \in Requests : req[r].doc # d
Goto(r, place) == req' = [req EXCEPT ![r].at = place]
End(r) == req' = [req EXCEPT ![r] = Idle]
Begin(r, place, d, e) ==
    /\ req[r] = Idle
    /\ req' = [req EXCEPT ![r] = [at |-> place, doc |-> d, exp |-> e]]

Fault == faults < MaxFaults /\ faults' = faults + 1
Taint(caught, d) == tainted' = IF caught THEN tainted \cup {d} ELSE tainted
-----------------------------------------------------------------------------
(* POST /documents.                                                        *)

\* The type and the size have been accepted; uuid4 makes the key a new one.
Upload(r, d, e) ==
    /\ row[d] = "none" /\ d \notin objects /\ d \notin tainted
    /\ Quiet(d)
    /\ Begin(r, "put", d, e)
    /\ UNCHANGED <<objects, row, expires, clock, faults, tainted>>

PutObject(r) ==
    /\ Busy(r, "put")
    /\ objects' = objects \cup {req[r].doc}
    /\ Goto(r, "insert")
    /\ UNCHANGED <<row, expires, clock, faults, tainted>>

\* put_object raises, or the process dies in it, with or without the object stored.
PutFails(r) ==
    /\ Busy(r, "put") /\ Fault
    /\ \E stored \in BOOLEAN :
          /\ objects' = IF stored THEN objects \cup {req[r].doc} ELSE objects
          /\ Taint(stored, req[r].doc)
    /\ End(r)
    /\ UNCHANGED <<row, expires, clock>>

\* create_document: the commit ...
InsertRow(r) ==
    /\ Busy(r, "insert")
    /\ row' = [row EXCEPT ![req[r].doc] = "live"]
    /\ expires' = [expires EXCEPT ![req[r].doc] = req[r].exp]
    /\ Goto(r, "refresh")
    /\ UNCHANGED <<objects, clock, faults, tainted>>

\* Mutant of InsertFails: without "except Exception".
InsertFailsBare(r) ==
    /\ Busy(r, "insert") /\ Fault
    /\ End(r)
    /\ UNCHANGED <<objects, row, expires, clock, tainted>>

InsertFails(r) ==
    /\ Busy(r, "insert") /\ Fault
    /\ Goto(r, "undo")
    /\ UNCHANGED <<objects, row, expires, clock, tainted>>

\* ... and db.refresh, for which a row deleted meanwhile is an error too.
Refresh(r) ==
    /\ Busy(r, "refresh")
    /\ IF row[req[r].doc] = "live" THEN End(r) ELSE Goto(r, "undo")
    /\ UNCHANGED <<objects, row, expires, clock, faults, tainted>>

\* The row stays: it was committed.
RefreshFails(r) ==
    /\ Busy(r, "refresh") /\ Fault
    /\ Taint(TRUE, req[r].doc)
    /\ Goto(r, "undo")
    /\ UNCHANGED <<objects, row, expires, clock>>

\* WR-03: the object is removed, and the answer is 500.
RemoveUploaded(r) ==
    /\ Busy(r, "undo")
    /\ objects' = objects \ {req[r].doc}
    /\ End(r)
    /\ UNCHANGED <<row, expires, clock, faults, tainted>>
-----------------------------------------------------------------------------
(* DELETE and PATCH /documents/{doc_id}.                                   *)

Delete(r, d) ==
    /\ row[d] = "live"
    /\ Begin(r, "remove", d, Never)
    /\ UNCHANGED <<objects, row, expires, clock, faults, tainted>>

\* Mutant of RemoveObject: the row first.
EraseFirst(r) ==
    /\ Busy(r, "remove")
    /\ row' = [row EXCEPT ![req[r].doc] = "gone"]
    /\ Goto(r, "undo")
    /\ UNCHANGED <<objects, expires, clock, faults, tainted>>

\* MinIO first; removing what is not there is no error.
RemoveObject(r) ==
    /\ Busy(r, "remove")
    /\ objects' = objects \ {req[r].doc}
    /\ Goto(r, "erase")
    /\ UNCHANGED <<row, expires, clock, faults, tainted>>

RemoveFails(r) ==
    /\ Busy(r, "remove") /\ Fault
    /\ \E removed \in BOOLEAN :
          /\ objects' = IF removed THEN objects \ {req[r].doc} ELSE objects
          /\ Taint(removed, req[r].doc)
    /\ End(r)
    /\ UNCHANGED <<row, expires, clock>>

\* A DELETE that finds no row is only a warning.
EraseRow(r) ==
    /\ Busy(r, "erase")
    /\ row' = [row EXCEPT ![req[r].doc] = "gone"]
    /\ End(r)
    /\ UNCHANGED <<objects, expires, clock, faults, tainted>>

Patch(r, d, e) ==
    /\ row[d] = "live"
    /\ Begin(r, "patch", d, e)
    /\ UNCHANGED <<objects, row, expires, clock, faults, tainted>>

\* Mutant of PatchRow: session.merge, which inserts what is missing.
MergeRow(r) ==
    /\ Busy(r, "patch")
    /\ row' = [row EXCEPT ![req[r].doc] = "live"]
    /\ expires' = [expires EXCEPT ![req[r].doc] = req[r].exp]
    /\ End(r)
    /\ UNCHANGED <<objects, clock, faults, tainted>>

\* Mutant of PatchRow: the request ends without letting go of its document.
PatchClosed(r) ==
    /\ Busy(r, "patch")
    /\ expires' = IF row[req[r].doc] = "live"
                  THEN [expires EXCEPT ![req[r].doc] = req[r].exp]
                  ELSE expires
    /\ Goto(r, "idle")
    /\ UNCHANGED <<objects, row, clock, faults, tainted>>

\* An UPDATE that matches no row is an error.
PatchRow(r) ==
    /\ Busy(r, "patch")
    /\ expires' = IF row[req[r].doc] = "live"
                  THEN [expires EXCEPT ![req[r].doc] = req[r].exp]
                  ELSE expires
    /\ End(r)
    /\ UNCHANGED <<objects, row, clock, faults, tainted>>

\* The database or MinIO fails in the rest of a request, or the process dies.
Dies(r) ==
    /\ req[r].at \in {"insert", "refresh", "undo", "erase", "patch"} /\ Fault
    /\ Taint(req[r].at \in {"insert", "undo", "erase"}, req[r].doc)
    /\ End(r)
    /\ UNCHANGED <<objects, row, expires, clock>>

Tick ==
    /\ clock' \in {c \in Times : c > clock}
    /\ UNCHANGED <<objects, row, expires, req, faults, tainted>>

Next ==
    \/ \E r \in Requests :
          \/ \E d \in Docs :
                \/ Delete(r, d)
                \/ \E e \in Expiries : Upload(r, d, e) \/ Patch(r, d, e)
          \/ PutObject(r) \/ PutFails(r) \/ InsertRow(r) \/ InsertFails(r)
          \/ Refresh(r) \/ RefreshFails(r) \/ RemoveUploaded(r)
          \/ RemoveObject(r) \/ RemoveFails(r) \/ EraseRow(r) \/ PatchRow(r)
          \/ Dies(r)
    \/ Tick

Spec == Init /\ [][Next]_vars
-----------------------------------------------------------------------------
(* What the lists say of a document.                                       *)

\* Mutant of ExpiryStatus: the boundary in whole days, as before WR-01.
ExpiryStatusInDays(e, now) ==
    CASE e = Never -> "ok"
      [] e # Never /\ (e - now) \div Day <= 0 -> "expired"
      [] e # Never /\ (e - now) \div Day \in 1..6 -> "warning_7"
      [] e # Never /\ (e - now) \div Day \in 7..13 -> "warning_14"
      [] OTHER -> "ok"

\* compute_expiry_status.
ExpiryStatus(e, now) ==
    CASE e = Never -> "ok"
      [] e # Never /\ e - now <= 0 -> "expired"
      [] e # Never /\ e - now > 0 /\ (e - now) \div Day < 7 -> "warning_7"
      [] e # Never /\ e - now > 0 /\ (e - now) \div Day \in 7..13 -> "warning_14"
      [] OTHER -> "ok"

\* list_attachable_documents.
Attachable == {d \in Docs : row[d] = "live" /\ (expires[d] = Never \/ expires[d] > clock)}
-----------------------------------------------------------------------------
(* Properties.                                                             *)

\* Unless a failure caught it between MinIO and the database, a document no
\* request is busy with is in both or in neither, whatever overlapped: failing
\* inserts, two deletions, a deletion of what is still being uploaded.
Consistent ==
    \A d \in Docs \ tainted : Quiet(d) => (d \in objects <=> row[d] = "live")

\* Even a failure leaves no object behind a deleted row, where the user could
\* not reach it any more (delete_document: "MinIO FIRST, then DB").
NothingLeftBehind == \A d \in Docs : row[d] = "gone" => d \notin objects

\* A change of the metadata that overlaps the deletion does not bring it back.
DeletedForGood == [][\A d \in Docs : row[d] = "gone" => row'[d] = "gone"]_vars

\* The badge and the list of what can be attached to an application agree: a
\* document is offered exactly when it is not shown as expired.
ExpiredIsNotOffered ==
    \A d \in Docs : row[d] = "live" =>
        (d \in Attachable <=> ExpiryStatus(expires[d], clock) # "expired")
-----------------------------------------------------------------------------
(* Proved in DocumentVaultProofs.                                          *)

\* Not only when all is quiet: but for failures, a listed document can be downloaded
\* until its deletion is between the two stores, and an object that no row names belongs
\* to an upload that is going to insert the row or to remove the object.
DisagreementsAreUnderWay ==
    \A d \in Docs \ tainted :
        /\ row[d] = "live" /\ d \notin objects => \E r \in Requests : req[r].at = "erase" /\ req[r].doc = d
        /\ row[d] # "live" /\ d \in objects =>
              \E r \in Requests : req[r].at \in {"insert", "undo"} /\ req[r].doc = d

\* An upload whose object is taken away under a row that the user sees (see below) has
\* met a failure of db.refresh; one that merely overlapped a deletion leaves nothing.
RollbackNeedsFailure ==
    \A r \in Requests : Busy(r, "undo") /\ row[req[r].doc] = "live" => req[r].doc \in tainted /\ faults > 0
-----------------------------------------------------------------------------
(* What a comment says and the code does not do.                           *)

\* documents.py:131: "Rollback MinIO object if DB insert fails": an upload that is
\* rolled back has no row.
RollbackOnlyFailedInserts ==
    \A r \in Requests : Busy(r, "undo") => row[req[r].doc] # "live"
=============================================================================
