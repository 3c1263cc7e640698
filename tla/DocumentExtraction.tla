------------------------- MODULE DocumentExtraction -------------------------
(***************************************************************************)
(* Extraction of uploaded documents (MyBookkeeper): the documents rows,    *)
(* the transactions made from them, and the worker that reads one document *)
(* of each user at a time while the host uploads, deletes, re-extracts and *)
(* edits. The worker may be killed, time out or get no answer at any step. *)
(*                                                                         *)
(* A document is numbered in the order of its creation. What the language  *)
(* model finds in a file is a property of the file: the payments it lists, *)
(* how authoritative its kind of document is, and whether its vendor and   *)
(* dates can be told to be those of another document of one payment.       *)
(***************************************************************************)
EXTENDS Naturals, Sequences, FiniteSets

CONSTANTS
    Docs,           \* ids of documents: 1, 2, ...
    Users,          \* members of the organization
    Files,          \* contents of files
    NoFile,         \* no content hash
    Payments,       \* things that were paid once
    Unpriced,       \* an item of a document without an amount
    Items,          \* Items[f]: what the model reads in f
    Rank,           \* Rank[f]: source_quality_rank of its document type
    Spreadsheets,   \* files whose items all belong to one document
    Vague,          \* files that can't be matched with certainty
    Unnamed,        \* files without a vendor to match by
    Confirmations,  \* files the model calls payment confirmations
    Spare,          \* ids left to documents the worker adds
    Zip,            \* the files of the one zip that may be uploaded
    Ops,            \* what the host does besides uploading
    Faults,         \* what may go wrong
    MAX_RETRIES,    \* of a document: 3 in the worker
    MaxActs         \* bound on what the host does besides uploading

ASSUME ConstantsAssumption ==
    /\ Docs \subseteq Nat \ {0}
    /\ Users # {}
    /\ NoFile \notin Files
    /\ Unpriced \notin Payments
    /\ Items \in [Files -> Seq(Payments \union {Unpriced})]
    /\ Rank \in [Files -> Nat \ {0}]
    /\ Spreadsheets \subseteq Files
    /\ Vague \subseteq Files
    /\ Unnamed \subseteq Files
    /\ Confirmations \subseteq Files
    /\ Spare \in Nat
    /\ Zip \in Seq(Files)
    /\ MAX_RETRIES \in Nat
    /\ MaxActs \in Nat

VARIABLES
    doc,       \* doc[d]: the columns of d that handling it reads and writes
    txns,      \* transactions that are not soft-deleted
    flagged,   \* those that are not approved
    reviewed,  \* those with duplicate_reviewed_at: compared by the host
    severed,   \* those whose extraction_id has become null
    changed,   \* those with another vendor, date, amount or property by now
    links,     \* transaction_documents: <<transaction, document>>
    worker,    \* worker[u]: the task that handles u's documents
    tx,        \* tx[u]: what it has written and not committed
    draining,  \* users the current call of drain is not done with
    acts,      \* what the host has done besides uploading
    doubtful   \* history: payments that may be recorded twice, see CommitExtraction

rows == <<txns, flagged, reviewed, severed, changed, links>>
host == <<acts, doubtful>>
vars == <<doc, rows, worker, tx, draining, host>>

-----------------------------------------------------------------------------
(* Rows.                                                                   *)

Statuses == {"absent", "gone", "processing", "extracting", "completed",
             "failed", "deleted"}

RowType == [status : Statuses, owner : Users, file : Files \union {NoFile},
            hash : Files \union {NoFile}, rank : Nat, retries : 0 .. MAX_RETRIES,
            due : BOOLEAN, escrow : BOOLEAN, deleted : BOOLEAN,
            stored : BOOLEAN, batch : BOOLEAN]

(* A transaction is known by the item it was made from, and by which of    *)
(* those made from that item it is: its id in the database is random.      *)
TxnIds == [doc : Docs, file : Files, item : Nat, copy : Nat]

PCs == {"idle", "claimed", "reference", "asked", "persisting",
        "recompute", "failing"}

WorkerType == [pc : PCs, doc : Docs \union {0}, file : Files \union {NoFile},
               transient : BOOLEAN]

TxType == [item : Nat, status : {"", "completed", "failed", "duplicate"},
           made : SUBSET TxnIds, marked : SUBSET TxnIds, changed : SUBSET TxnIds,
           replaced : SUBSET TxnIds, linked : SUBSET (TxnIds \X Docs),
           shells : SUBSET Docs]

AbsentRow == [status |-> "absent", owner |-> CHOOSE u \in Users : TRUE,
              file |-> NoFile, hash |-> NoFile, rank |-> 0, retries |-> 0,
              due |-> TRUE, escrow |-> FALSE, deleted |-> FALSE,
              stored |-> FALSE, batch |-> FALSE]

NewRow(u, f, h, escrow, batch) ==
    [status |-> "processing", owner |-> u, file |-> f, hash |-> h, rank |-> 0,
     retries |-> 0, due |-> TRUE, escrow |-> escrow, deleted |-> FALSE,
     stored |-> TRUE, batch |-> batch]

Idle == [pc |-> "idle", doc |-> 0, file |-> NoFile, transient |-> FALSE]

NoTx == [item |-> 1, status |-> "", made |-> {}, marked |-> {}, changed |-> {},
         replaced |-> {}, linked |-> {}, shells |-> {}]

Exists(d) == doc[d].status \notin {"absent", "gone"}

Payment(t) == Items[t.file][t.item]

RankOf(t) == IF t \in severed THEN 0 ELSE Rank[t.file]

Persisting(d) == \E u \in Users : worker[u].pc = "persisting" /\ worker[u].doc = d

(* The worker's transaction has written the document's row: from the query *)
(* that follows its first item on.                                         *)
RowLocked(d) == \E u \in Users : /\ worker[u].pc = "persisting"
                                 /\ worker[u].doc = d
                                 /\ tx[u].item > 2

(* The next ids: those of rows not created yet, by anyone.                 *)
Unused == {d \in Docs : /\ doc[d].status = "absent"
                        /\ \A u \in Users : d \notin tx[u].shells}

NextIds == LET unused == Unused IN {d \in unused : \A e \in unused : d <= e}

(* Wrong on purpose: the links of a removed transaction stay.              *)
ForgetButLinks(gone) ==
    /\ txns' = txns \ gone
    /\ flagged' = flagged \ gone
    /\ reviewed' = reviewed \ gone
    /\ severed' = severed \ gone
    /\ changed' = changed \ gone
    /\ links' = links

(* Rows that vanish take along their links and what else is known of them. *)
Forget(gone) ==
    /\ txns' = txns \ gone
    /\ flagged' = flagged \ gone
    /\ reviewed' = reviewed \ gone
    /\ severed' = severed \ gone
    /\ changed' = changed \ gone
    /\ links' = {l \in links : l[1] \notin gone}

MadeFrom(d) == {t \in txns : t.doc = d}

Init ==
    /\ doc = [d \in Docs |-> AbsentRow]
    /\ txns = {} /\ flagged = {} /\ reviewed = {} /\ severed = {}
    /\ changed = {} /\ links = {}
    /\ worker = [u \in Users |-> Idle]
    /\ tx = [u \in Users |-> NoTx]
    /\ draining = {}
    /\ acts = 0
    /\ doubtful = {}

-----------------------------------------------------------------------------
(* The worker: drain, claim, load, ask the model.                          *)

IsDue(d) == doc[d].status = "processing" /\ doc[d].due

DueOf(u) == {d \in Docs : IsDue(d) /\ doc[d].owner = u}

(* All users with something to do are handled together, and the next look  *)
(* at who has something to do waits for the last of them.                  *)
Drain ==
    /\ draining = {}
    /\ draining' = {u \in Users : DueOf(u) # {}}
    /\ draining' # {}
    /\ UNCHANGED <<doc, rows, worker, tx, host>>

(* claim_next_processing: the user's oldest document that is due. It looks *)
(* at the status, not at deleted_at.                                       *)
Claim(u) ==
    /\ u \in draining
    /\ worker[u].pc = "idle"
    /\ \E d \in DueOf(u) :
         /\ \A e \in DueOf(u) : d <= e
         /\ doc' = [doc EXCEPT ![d].status = "extracting"]
         /\ worker' = [worker EXCEPT ![u] = [Idle EXCEPT !.pc = "claimed", !.doc = d]]
    /\ UNCHANGED <<rows, tx, draining, host>>

NothingToClaim(u) ==
    /\ u \in draining
    /\ worker[u].pc = "idle"
    /\ DueOf(u) = {}
    /\ draining' = draining \ {u}
    /\ UNCHANGED <<doc, rows, worker, tx, host>>

(* The task goes on to pc, having read the file f.                         *)
Goto(u, pc, f) == worker' = [worker EXCEPT ![u] = [@ EXCEPT !.pc = pc, !.file = f]]

(* process_document raises: its transaction is rolled back and the handler *)
(* of process_one_for_user is next.                                        *)
Raise(u, transient) ==
    /\ worker' = [worker EXCEPT ![u] = [@ EXCEPT !.pc = "failing", !.transient = transient]]
    /\ tx' = [tx EXCEPT ![u] = NoTx]

(* Wrong on purpose: a document marked as reference-only is read as well.  *)
LoadWhateverItIs(u) ==
    /\ worker[u].pc = "claimed"
    /\ Goto(u, "asked", doc[worker[u].doc].file)
    /\ UNCHANGED <<doc, rows, tx, draining, host>>

(* _load_document_for_extraction and what process_document makes of it.    *)
Load(u) ==
    /\ worker[u].pc = "claimed"
    /\ LET r == doc[worker[u].doc] IN
         IF Exists(worker[u].doc) /\ r.stored
         THEN /\ Goto(u, IF r.escrow THEN "reference" ELSE "asked", r.file)
              /\ UNCHANGED tx
         ELSE Raise(u, FALSE)
    /\ UNCHANGED <<doc, rows, draining, host>>

CompleteReference(u) ==
    /\ worker[u].pc = "reference"
    /\ doc' = IF Exists(worker[u].doc)
              THEN [doc EXCEPT ![worker[u].doc].status = "completed"] ELSE doc
    /\ worker' = [worker EXCEPT ![u] = Idle]
    /\ UNCHANGED <<rows, tx, draining, host>>

(* The service is busy or down: nothing of it is recorded here.            *)
ModelUnavailable(u) ==
    /\ "unavailable" \in Faults
    /\ worker[u].pc = "asked"
    /\ Raise(u, TRUE)
    /\ UNCHANGED <<doc, rows, draining, host>>

(* The file can't be read: the document is failed here, and once more by   *)
(* the handler.                                                            *)
ModelRefuses(u) ==
    /\ "unreadable" \in Faults
    /\ worker[u].pc = "asked"
    /\ doc' = IF Exists(worker[u].doc)
              THEN [doc EXCEPT ![worker[u].doc].status = "failed"] ELSE doc
    /\ Raise(u, FALSE)
    /\ UNCHANGED <<rows, draining, host>>

(* wait_for cancels process_document wherever it is, the recomputation of  *)
(* tax returns after its commit included.                                  *)
TimeOut(u) ==
    /\ "timeout" \in Faults
    /\ worker[u].pc \in {"asked", "persisting", "recompute"}
    /\ Raise(u, TRUE)
    /\ UNCHANGED <<doc, rows, draining, host>>

-----------------------------------------------------------------------------
(* Phase 3 of process_document: one transaction. Each item is looked for   *)
(* among the rows committed by then and those the transaction has made.    *)

ItemsLeft(u) == tx[u].item <= Len(Items[worker[u].file])

(* The model answers and the transaction begins with the extraction, whose *)
(* document type the database checks: it knows no payment confirmations.   *)
ModelAnswers(u) ==
    /\ worker[u].pc = "asked"
    /\ IF Exists(worker[u].doc) /\ worker[u].file \notin Confirmations
       THEN Goto(u, "persisting", worker[u].file) /\ UNCHANGED tx
       ELSE Raise(u, FALSE)
    /\ UNCHANGED <<doc, rows, draining, host>>

Visible(u) == (txns \union tx[u].made) \ tx[u].replaced

(* Wrong on purpose: a document is never compared with its own             *)
(* transactions, so each of its retries makes them anew.                   *)
CandidatesElsewhere(u, p) ==
    {t \in Visible(u) : Payment(t) = p /\ t.doc # worker[u].doc}

Candidates(u, p) == {t \in Visible(u) : Payment(t) = p}

(* What the host has changed, or a rule of the host's as it was made: the  *)
(* searches compare what the item says with what is in the row.            *)
Changed(u) == changed \union tx[u].changed

(* Wrong on purpose: one that can't be told with certainty is no match.    *)
CertainMatches(u, p) ==
    {t \in Candidates(u, p) : worker[u].file \notin Vague /\ t.file \notin Vague}

(* Which of them evaluate_dedup finds: one with the same vendor and date   *)
(* if there is one, or else the first the database returns. One that has   *)
(* been changed it may find, by what is left as it was, or not. Without a  *)
(* vendor it looks for none.                                               *)
Matches(u, p) ==
    LET all == Candidates(u, p)
        exact == {t \in all : t.file = worker[u].file} \ Changed(u)
    IN IF worker[u].file \in Unnamed THEN {}
       ELSE IF exact # {} THEN exact ELSE all

(* evaluate_dedup for a match t.                                           *)
Decision(f, t) ==
    IF t.file = f THEN "skip"
    ELSE IF f \in Vague \/ t.file \in Vague THEN "review"
    ELSE IF Rank[f] > RankOf(t)
         THEN IF t \in reviewed \ flagged THEN "review" ELSE "replace"
         ELSE IF Rank[f] = RankOf(t) /\ t.file \in Unnamed THEN "review" ELSE "skip"

(* Only the first item decides about the uploaded document itself.         *)
FirstSays(u, status) == IF tx[u].item = 1 THEN status ELSE tx[u].status

(* The document an item goes to: the upload for the first item and in a    *)
(* spreadsheet, or else a new one for that item.                           *)
Target(u, d) ==
    IF tx[u].item = 1 \/ worker[u].file \in Spreadsheets
    THEN d = worker[u].doc ELSE d \in NextIds

NewShells(u, d) == tx[u].shells \union ({d} \ {worker[u].doc})

(* transaction_documents is unique per transaction and document.           *)
Link(u, new, next) ==
    IF new \intersect (links \union tx[u].linked) = {}
    THEN /\ tx' = [tx EXCEPT ![u] = [next EXCEPT !.linked = @ \union new]]
         /\ UNCHANGED worker
    ELSE Raise(u, FALSE)

SkipItem(u, t) ==
    Link(u, {<<t, worker[u].doc>>},
         [tx[u] EXCEPT !.item = @ + 1, !.status = FirstSays(u, "duplicate")])

(* Transactions that are stored, or that a worker has at hand.             *)
KnownIds == txns \union UNION {tx[u].made \union tx[u].replaced
                               \union {l[1] : l \in tx[u].linked} : u \in Users}

(* The next id of a transaction made from the item: none known has it.     *)
NewIds(u) ==
    LET new == {[doc |-> worker[u].doc, file |-> worker[u].file,
                 item |-> tx[u].item, copy |-> n] : n \in 0 .. Cardinality(KnownIds)}
               \ KnownIds
    IN {t \in new : \A s \in new : t.copy <= s.copy}

(* A row may be made with another property than was searched by: a rule    *)
(* the host has taught gives it one, or the changed row it replaces does.  *)
MadeChanged(u, t, replaced) ==
    IF "rules" \in Ops \/ replaced \intersect Changed(u) # {} THEN {{}, {t}} ELSE {{}}

(* A transaction for the item, linked to d; mark says whether for review.  *)
MakeItem(u, d, more, replaced, mark) ==
    \E t \in NewIds(u) : \E other \in MadeChanged(u, t, replaced) :
      Link(u, {<<t, d>>} \union {<<t, e>> : e \in more},
           [tx[u] EXCEPT !.item = @ + 1, !.status = FirstSays(u, "completed"),
                         !.made = @ \union {t},
                         !.marked = @ \union (IF mark THEN {t} ELSE {}),
                         !.changed = @ \union other,
                         !.replaced = @ \union replaced,
                         !.shells = NewShells(u, d)])

CreateItem(u) ==
    /\ Matches(u, Items[worker[u].file][tx[u].item]) \subseteq Changed(u)
    /\ \E d \in Docs : Target(u, d) /\ MakeItem(u, d, {}, {}, FALSE)

(* Wrong on purpose: the match is removed and nothing made in its place.   *)
ReplaceItemByNothing(u, t) ==
    Link(u, {}, [tx[u] EXCEPT !.item = @ + 1, !.status = FirstSays(u, "completed"),
                              !.replaced = @ \union {t}])

(* The document of the replaced transaction is linked as well, if it is    *)
(* known. The same document twice breaks uq_txn_doc.                       *)
ReplaceItem(u, t) ==
    LET source == IF t \in severed THEN {} ELSE {t.doc} IN
      \E d \in Docs :
        /\ Target(u, d)
        /\ IF d \in source THEN Raise(u, FALSE)
                           ELSE MakeItem(u, d, source, {t}, FALSE)

(* An item without an amount makes a document and no transaction.          *)
UnpricedItem(u) ==
    \E d \in Docs :
      /\ Target(u, d)
      /\ Link(u, {}, [tx[u] EXCEPT !.item = @ + 1,
                                   !.status = FirstSays(u, "completed"),
                                   !.shells = NewShells(u, d)])

PersistItem(u) ==
    /\ worker[u].pc = "persisting"
    /\ ItemsLeft(u)
    /\ LET f == worker[u].file
           p == Items[f][tx[u].item]
       IN IF p = Unpriced THEN UnpricedItem(u)
          ELSE \/ CreateItem(u)
               \/ \E t \in Matches(u, p) :
                    \/ Decision(f, t) = "skip" /\ SkipItem(u, t)
                    \/ Decision(f, t) = "replace" /\ ReplaceItem(u, t)
                    \/ /\ Decision(f, t) = "review" \/ t \in Changed(u)
                       /\ \E d \in Docs : Target(u, d) /\ MakeItem(u, d, {}, {}, TRUE)
    /\ UNCHANGED <<doc, rows, draining, host>>

(* What the commit makes of the uploaded document. A duplicate is deleted, *)
(* and a file without items is a failure.                                  *)
HandledRow(r, t, f) ==
    CASE t.status = "duplicate" -> [r EXCEPT !.status = "deleted", !.deleted = TRUE]
      [] t.status = "completed" -> [r EXCEPT !.status = "completed", !.rank = Rank[f]]
      [] OTHER -> [r EXCEPT !.status = "failed"]

ShellRow(u, f) == [NewRow(u, f, NoFile, FALSE, FALSE) EXCEPT !.status = "completed",
                                                            !.rank = Rank[f]]

(* What was made without having been compared with anything.               *)
MadeUnnamed(u) == {t \in tx[u].made : t.file \in Unnamed}

(* Another user's transaction is open that makes one for p as well.        *)
Overlaps(u, p) == /\ \E t \in tx[u].made : Payment(t) = p
                  /\ \E v \in Users \ {u} : \E t \in tx[v].made : Payment(t) = p

(* One was made for p though there is one, which has been changed and was  *)
(* not found.                                                              *)
BesideChanged(u, p) ==
    \E t \in tx[u].made, s \in Changed(u) \ tx[u].replaced :
        t # s /\ Payment(t) = p /\ Payment(s) = p

(* The commit. Rows another transaction has soft-deleted meanwhile stay    *)
(* deleted.                                                                *)
CommitExtraction(u) ==
    /\ worker[u].pc = "persisting"
    /\ ~ ItemsLeft(u)
    /\ LET d == worker[u].doc
           f == worker[u].file
           gone == tx[u].replaced
       IN /\ doc' = [e \in Docs |->
                       IF e = d THEN HandledRow(doc[d], tx[u], f)
                       ELSE IF e \in tx[u].shells THEN ShellRow(doc[d].owner, f)
                       ELSE doc[e]]
          /\ txns' = Visible(u)
          /\ flagged' = (flagged \union tx[u].marked) \ gone
          /\ reviewed' = reviewed \ gone
          /\ severed' = severed \ gone
          /\ changed' = Changed(u) \ gone
          /\ links' = {l \in links \union tx[u].linked : l[1] \in txns'}
          /\ doubtful' = doubtful \union {Payment(t) : t \in tx[u].marked}
                                 \union {Payment(t) : t \in MadeUnnamed(u)}
                                 \union {p \in Payments : Overlaps(u, p)}
                                 \union {p \in Payments : BesideChanged(u, p)}
    /\ Goto(u, "recompute", worker[u].file)
    /\ tx' = [tx EXCEPT ![u] = NoTx]
    /\ UNCHANGED <<draining, acts>>

(* The tax returns are recomputed, and process_document returns.           *)
FinishRecompute(u) ==
    /\ worker[u].pc = "recompute"
    /\ worker' = [worker EXCEPT ![u] = Idle]
    /\ UNCHANGED <<doc, rows, tx, draining, host>>

(* Wrong on purpose: a retry is scheduled without being counted.           *)
AfterFailureUncounted(r, transient) ==
    IF transient /\ r.retries + 1 < MAX_RETRIES
    THEN [r EXCEPT !.status = "processing", !.due = FALSE]
    ELSE [r EXCEPT !.status = "failed"]

(* The document after a failure: its retries are counted only while there  *)
(* is another one.                                                         *)
AfterFailure(r, transient) ==
    IF transient /\ r.retries + 1 < MAX_RETRIES
    THEN [r EXCEPT !.status = "processing", !.retries = @ + 1, !.due = FALSE]
    ELSE [r EXCEPT !.status = "failed"]

(* The handler of process_one_for_user, whatever the row has become.       *)
HandleFailure(u) ==
    /\ worker[u].pc = "failing"
    /\ LET d == worker[u].doc IN
         doc' = IF Exists(d)
                THEN [doc EXCEPT ![d] = AfterFailure(@, worker[u].transient)] ELSE doc
    /\ worker' = [worker EXCEPT ![u] = Idle]
    /\ UNCHANGED <<rows, tx, draining, host>>

(* next_retry_at passes.                                                   *)
RetryFallsDue(d) ==
    /\ ~ doc[d].due
    /\ doc' = [doc EXCEPT ![d].due = TRUE]
    /\ UNCHANGED <<rows, worker, tx, draining, host>>

(* The worker process dies and is started again.                           *)
WorkerCrashes ==
    /\ "crash" \in Faults
    /\ \E u \in Users : worker[u].pc # "idle"
    /\ worker' = [u \in Users |-> Idle]
    /\ tx' = [u \in Users |-> NoTx]
    /\ draining' = {}
    /\ UNCHANGED <<doc, rows, host>>

-----------------------------------------------------------------------------
(* The host.                                                               *)

Act(op) == op \in Ops /\ acts < MaxActs /\ acts' = acts + 1

DeletedRow(r) == [r EXCEPT !.status = "deleted", !.deleted = TRUE]

(* Documents with the file's hash the host hasn't deleted.                 *)
Twins(f) == {d \in Docs : Exists(d) /\ doc[d].hash = f /\ ~ doc[d].deleted}

(* The failed documents that a new upload of f replaces, if it may be      *)
(* stored at all: one of the same content, or else those of the same name. *)
Replaceable(f) ==
    IF Twins(f) # {} THEN {{d} : d \in {e \in Twins(f) : doc[e].status = "failed"}}
    ELSE {{d \in Docs : doc[d].status = "failed" /\ doc[d].file = f /\ ~ doc[d].deleted}}

(* accept_upload of one file. A file that is there already, and has not    *)
(* failed, is not stored again. reference: to keep and not to bill.        *)
Upload(u, f, reference) ==
    /\ reference => "reference" \in Ops
    /\ \E new \in NextIds :
         /\ new + Spare \in Docs
         /\ \E old \in Replaceable(f) :
              doc' = [d \in Docs |-> IF d = new THEN NewRow(u, f, f, reference, FALSE)
                                    ELSE IF d \in old THEN DeletedRow(doc[d])
                                    ELSE doc[d]]
    /\ UNCHANGED <<rows, worker, tx, draining, host>>

(* accept_upload of a zip: a batch of documents that have no hash.         *)
UploadZip(u) ==
    /\ Act("zip")
    /\ \A d \in Docs : ~ doc[d].batch
    /\ \E first \in NextIds :
         LET batch == first .. first + Len(Zip) - 1 IN
           /\ batch \subseteq Unused
           /\ doc' = [d \in Docs |-> IF d \in batch
                                     THEN NewRow(u, Zip[d - first + 1], NoFile, FALSE, TRUE)
                                     ELSE doc[d]]
    /\ UNCHANGED <<rows, worker, tx, draining, doubtful>>

(* Storage is asked first, and the file may be out of it already.          *)
DeleteDocument(d) ==
    /\ Act("delete")
    /\ Exists(d) /\ ~ RowLocked(d)
    /\ doc' = [doc EXCEPT ![d] = [DeletedRow(@) EXCEPT !.stored = FALSE]]
    /\ UNCHANGED <<rows, worker, tx, draining, doubtful>>

BulkDelete(ds) ==
    /\ Act("delete")
    /\ ds # {}
    /\ \A d \in ds : Exists(d) /\ ~ RowLocked(d)
    /\ doc' = [d \in Docs |-> IF d \in ds THEN DeletedRow(doc[d]) ELSE doc[d]]
    /\ UNCHANGED <<rows, worker, tx, draining, doubtful>>

(* The content's hash stays that of the file before.                       *)
ReplaceFile(d, f) ==
    /\ Act("replaceFile")
    /\ Exists(d) /\ ~ RowLocked(d)
    /\ doc' = [doc EXCEPT ![d].file = f, ![d].stored = TRUE]
    /\ UNCHANGED <<rows, worker, tx, draining, doubtful>>

(* A deleted document may be re-extracted; how often it was retried stays. *)
ReExtract(d) ==
    /\ Act("reExtract")
    /\ Exists(d) /\ ~ RowLocked(d)
    /\ doc[d].status \notin {"processing", "extracting"}
    /\ doc' = [doc EXCEPT ![d].status = "processing"]
    /\ UNCHANGED <<rows, worker, tx, draining, doubtful>>

(* While the worker has read that the document is not paid from escrow and *)
(* has yet to commit.                                                      *)
BeingRead(d) == \E u \in Users :
    worker[u].doc = d /\ worker[u].pc \in {"asked", "persisting"}

(* An open transaction of the worker drops an item because its payment is  *)
(* recorded, as a row among ts.                                            *)
ReliedOn(ts) == \E u \in Users : \E l \in tx[u].linked, t \in ts :
    Payment(l[1]) = Payment(t) /\ l[1] \notin tx[u].made

(* The document's transactions are found through its extractions.          *)
SetEscrowPaid(d, paid) ==
    /\ Act("escrow")
    /\ Exists(d) /\ ~ RowLocked(d)
    /\ BeingRead(d) => "escrowRace" \in Ops
    /\ paid /\ ReliedOn(MadeFrom(d)) => "deleteRace" \in Ops
    /\ doc' = [doc EXCEPT ![d].escrow = paid]
    /\ Forget(IF paid THEN MadeFrom(d) \ severed ELSE {})
    /\ UNCHANGED <<worker, tx, draining, doubtful>>

(* The rows are deleted, and their extractions and links with them. The    *)
(* extraction being written keeps its document from being deleted.         *)
CancelBatch ==
    /\ Act("cancelBatch")
    /\ LET cancelled == {d \in Docs : /\ doc[d].batch
                                      /\ doc[d].status \in {"processing", "extracting"}}
       IN /\ cancelled # {}
          /\ \A d \in cancelled : ~ Persisting(d)
          /\ doc' = [d \in Docs |-> IF d \in cancelled
                                    THEN [doc[d] EXCEPT !.status = "gone"] ELSE doc[d]]
          /\ severed' = severed \union {t \in txns : t.doc \in cancelled}
          /\ links' = {l \in links : l[2] \notin cancelled}
    /\ UNCHANGED <<txns, flagged, reviewed, changed, worker, tx, draining, doubtful>>

(* reset_failed_retryable.                                                 *)
RetryFailedDocuments ==
    /\ Act("retryFailed")
    /\ doc' = [d \in Docs |->
                 IF /\ doc[d].status = "failed" /\ ~ doc[d].deleted
                    /\ doc[d].retries < MAX_RETRIES
                 THEN [doc[d] EXCEPT !.status = "processing", !.due = TRUE] ELSE doc[d]]
    /\ UNCHANGED <<rows, worker, tx, draining, doubtful>>

(* The operator's command for one document type. Deleting the extractions  *)
(* sets extraction_id to null, and the transactions are looked for by it   *)
(* only after that: none is found.                                         *)
CleanReExtract(rank) ==
    LET again == {d \in Docs : Exists(d) /\ ~ doc[d].deleted /\ doc[d].rank = rank} IN
      /\ Act("cleanReExtract")
      /\ again # {}
      /\ \A d \in again : ~ RowLocked(d)
      /\ severed' = severed \union {t \in txns : t.doc \in again}
      /\ doc' = [d \in Docs |-> IF d \in again
                                THEN [doc[d] EXCEPT !.status = "processing",
                                                    !.retries = 0, !.due = TRUE]
                                ELSE doc[d]]
      /\ UNCHANGED <<txns, flagged, reviewed, changed, links, worker, tx, draining, doubtful>>

DeleteTransaction(t) ==
    /\ Act("deleteTransaction")
    /\ ReliedOn({t}) => "deleteRace" \in Ops
    /\ Forget({t})
    /\ UNCHANGED <<doc, worker, tx, draining, doubtful>>

(* Any field may be changed, the status among them. A property that is     *)
(* corrected is corrected in other rows of that vendor as well. Nothing in *)
(* a row tells that it was changed.                                        *)
UpdateTransaction(t) ==
    /\ Act("edit")
    /\ flagged' \in {flagged, flagged \ {t}, flagged \union {t}}
    /\ \E corrected \in SUBSET txns : changed' = changed \union corrected
    /\ UNCHANGED <<doc, txns, reviewed, severed, links, worker, tx, draining, doubtful>>

(* Two that look alike, and the host says they are not one.                *)
DismissDuplicates(t, other) ==
    /\ Act("dismiss")
    /\ t # other
    /\ reviewed' = reviewed \union {t, other}
    /\ UNCHANGED <<doc, txns, flagged, severed, changed, links, worker, tx, draining, doubtful>>

(* Of two that look alike one is kept, with the links of the other. When   *)
(* they are merged it is approved as well, and has fields of both.         *)
KeepTransaction(t, other, merged) ==
    /\ Act("keep")
    /\ t # other
    /\ Payment(t) = Payment(other)
    /\ ReliedOn({t}) => "deleteRace" \in Ops
    /\ txns' = txns \ {other}
    /\ flagged' = flagged \ (IF merged THEN {t, other} ELSE {other})
    /\ reviewed' = (reviewed \ {other}) \union {t}
    /\ severed' = severed \ {other}
    /\ changed' = (changed \ {other}) \union (IF merged THEN {t} ELSE {})
    /\ links' = {l \in links : l[1] # other}
                \union {<<t, l[2]>> : l \in {k \in links : k[1] = other}}
    /\ UNCHANGED <<doc, worker, tx, draining, doubtful>>

-----------------------------------------------------------------------------

WorkerNext(u) ==
    \/ Claim(u) \/ NothingToClaim(u) \/ Load(u) \/ CompleteReference(u)
    \/ ModelAnswers(u) \/ ModelUnavailable(u) \/ ModelRefuses(u) \/ TimeOut(u)
    \/ PersistItem(u) \/ CommitExtraction(u)
    \/ FinishRecompute(u) \/ HandleFailure(u)

HostNext ==
    \/ \E u \in Users, f \in Files, reference \in BOOLEAN : Upload(u, f, reference)
    \/ \E u \in Users : UploadZip(u)
    \/ \E d \in Docs : DeleteDocument(d) \/ ReExtract(d)
    \/ \E ds \in SUBSET Docs : BulkDelete(ds)
    \/ \E d \in Docs, f \in Files : ReplaceFile(d, f)
    \/ \E d \in Docs, paid \in BOOLEAN : SetEscrowPaid(d, paid)
    \/ CancelBatch
    \/ RetryFailedDocuments
    \/ \E f \in Files : CleanReExtract(Rank[f])
    \/ \E t \in txns : DeleteTransaction(t) \/ UpdateTransaction(t)
    \/ \E t, other \in txns : DismissDuplicates(t, other)
    \/ \E t, other \in txns, merged \in BOOLEAN : KeepTransaction(t, other, merged)

Next ==
    \/ Drain
    \/ \E u \in Users : WorkerNext(u)
    \/ \E d \in Docs : RetryFallsDue(d)
    \/ WorkerCrashes
    \/ HostNext

Spec == Init /\ [][Next]_vars

(* The worker process is kept running, its calls end (they time out), and  *)
(* time passes.                                                            *)
Fairness ==
    /\ WF_vars(Drain)
    /\ \A u \in Users : WF_vars(WorkerNext(u))
    /\ \A d \in Docs : WF_vars(RetryFallsDue(d))

FairSpec == Spec /\ Fairness

-----------------------------------------------------------------------------
(* Properties.                                                             *)

(* Every variable keeps its type. *)
TypeOK ==
    /\ doc \in [Docs -> RowType]
    /\ txns \subseteq TxnIds
    /\ flagged \subseteq txns /\ reviewed \subseteq txns
    /\ severed \subseteq txns /\ changed \subseteq txns
    /\ links \subseteq txns \X Docs
    /\ worker \in [Users -> WorkerType]
    /\ tx \in [Users -> TxType]
    /\ draining \subseteq Users
    /\ acts \in 0 .. MaxActs
    /\ doubtful \subseteq Payments

(* A payment is recorded once, however often its documents are retried,    *)
(* re-extracted, replaced or time out after their commit (evaluate_dedup   *)
(* compares with all that was committed), unless a review was asked for,   *)
(* the documents of two users were being stored at the same time, a        *)
(* document names no vendor to compare by, or the payment was made beside  *)
(* a row that the host, or a rule of his, had changed before.              *)
RecordedOnce ==
    \A t1, t2 \in txns :
        t1 # t2 /\ Payment(t1) = Payment(t2) => Payment(t1) \in doubtful

(* A document that is paid from escrow has no transactions of its own      *)
(* (set_escrow_paid removes them, process_document makes none), unless the *)
(* operator's clean re-extraction has cut them off from it.                *)
EscrowIsNotBilled ==
    \A d \in Docs : (Exists(d) /\ doc[d].escrow) => MadeFrom(d) \subseteq severed

(* Whatever a document lists is recorded once its extraction is committed, *)
(* though items are dropped as duplicates of rows that another worker may  *)
(* be replacing at the same time (evaluate_dedup, resolve_and_link).       *)
Handled(f) == {Items[f][i] : i \in 1 .. Len(Items[f])} \ {Unpriced}

NothingIsDropped ==
    [][\A u \in Users :
         (worker[u].pc = "persisting" /\ worker'[u].pc = "recompute")
         => \A p \in Handled(worker[u].file) : \E t \in txns' : Payment(t) = p]_vars

(* A document that has been read before does not fail when it is read      *)
(* again and nothing goes wrong: re_extract_document has it re-extracted.  *)
ReadableIsNotFailed ==
    \A d \in Docs : doc[d].rank # 0 => doc[d].status # "failed"

(* A document nobody works on any more though it reads extracting: its     *)
(* worker died.                                                            *)
Stranded(d) == doc[d].status = "extracting" /\ \A u \in Users : worker[u].doc # d

(* Every document in the queue is eventually handled, through any number   *)
(* of failures and retries, unless the worker died with it in hand.        *)
EventuallyHandled ==
    \A d \in Docs :
        doc[d].status \in {"processing", "extracting"}
        ~> (doc[d].status \notin {"processing", "extracting"} \/ Stranded(d))

=============================================================================
