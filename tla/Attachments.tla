---------------------------- MODULE Attachments ----------------------------
(***************************************************************************)
(* Files attached to transactions (transaction-attachment.service.ts and   *)
(* .storage.ts): a file on the local disk under a random storage key, and  *)
(* a TransactionAttachment row that names it.  The two are written, and    *)
(* deleted, in separate steps; deleting a transaction deletes its rows by  *)
(* cascade (schema.prisma) and leaves the files.                           *)
(***************************************************************************)
EXTENDS EditableRows

CONSTANTS
    Files          \* storage keys, one per upload that reaches the disk

\* checked: about to store the file; stored: about to create the row; undo: the
\* row could not be created; found: about to delete the row; unlink: about to
\* delete the file.
Steps == {"checked", "stored", "undo", "found", "unlink"}
Filings == [step : Steps, file : Files, row : Rows]

ASSUME AttachmentsAssumption == Absent \notin Files \cup Filings

VARIABLES
    stored,        \* files on the disk
    attached,      \* per file, the transaction of its row, or Absent
    used,          \* storage keys that have been drawn
    filing,        \* per client, the attachment request in flight, or Absent
    stray,         \* history: files a crash, a disk error or a cascade left
    misled         \* history: files whose row was created, the answer lost

fileVars == <<stored, attached, used, filing, stray, misled>>

InitFiles ==
    /\ stored = {}
    /\ attached = [f \in Files |-> Absent]
    /\ used = {}
    /\ filing = [c \in Clients |-> Absent]
    /\ stray = {}
    /\ misled = {}

At(c, step) == filing[c] # Absent /\ filing[c].step = step
MoveTo(c, step) == filing' = [filing EXCEPT ![c].step = step]
Done(c) == filing' = [filing EXCEPT ![c] = Absent]

-----------------------------------------------------------------------------
(* createForTransaction *)

\* The transaction exists and the file is acceptable; its key is random.
BeginUpload(c, t, f) ==
    /\ filing[c] = Absent
    /\ TableOf[t] = "Transaction" /\ Exists(t)
    /\ f \notin used
    /\ used' = used \cup {f}
    /\ filing' = [filing EXCEPT ![c] = [step |-> "checked", file |-> f, row |-> t]]
    /\ UNCHANGED <<stored, attached, stray, misled>>

\* Mutant: the row is created before the file has been written.
PutFileLate(c) ==
    /\ At(c, "checked")
    /\ stored' = stored
    /\ MoveTo(c, "stored")
    /\ UNCHANGED <<attached, used, stray, misled>>

\* storage.put
PutFile(c) ==
    /\ At(c, "checked")
    /\ stored' = stored \cup {filing[c].file}
    /\ MoveTo(c, "stored")
    /\ UNCHANGED <<attached, used, stray, misled>>

\* The write fails, perhaps with part of the file on the disk.
PutFails(c) ==
    /\ At(c, "checked")
    /\ \/ UNCHANGED <<stored, stray>>
       \/ /\ stored' = stored \cup {filing[c].file}
          /\ stray' = stray \cup {filing[c].file}
    /\ Done(c)
    /\ UNCHANGED <<attached, used, misled>>

\* transactionAttachment.create; its foreign key needs the transaction.
CreateRow(c) ==
    /\ At(c, "stored")
    /\ Exists(filing[c].row)
    /\ attached' = [attached EXCEPT ![filing[c].file] = filing[c].row]
    /\ Done(c)
    /\ UNCHANGED <<stored, used, stray, misled>>

\* The transaction is gone, or the database fails.
CreateRowFails(c) ==
    /\ At(c, "stored")
    /\ MoveTo(c, "undo")
    /\ UNCHANGED <<stored, attached, used, stray, misled>>

\* The row is created and the database's answer is lost: the handler takes it
\* for a failure.
CreateRowMisleads(c) ==
    /\ At(c, "stored")
    /\ Exists(filing[c].row)
    /\ attached' = [attached EXCEPT ![filing[c].file] = filing[c].row]
    /\ misled' = misled \cup {filing[c].file}
    /\ MoveTo(c, "undo")
    /\ UNCHANGED <<stored, used, stray>>

-----------------------------------------------------------------------------
(* deleteForTransaction *)

BeginDeleteAttachment(c, f) ==
    /\ filing[c] = Absent
    /\ attached[f] # Absent
    /\ filing' = [filing EXCEPT ![c] = [step |-> "found", file |-> f, row |-> attached[f]]]
    /\ UNCHANGED <<stored, attached, used, stray, misled>>

\* Mutant: deleting the row leaves the file.
DeleteRowKeepsFile(c) ==
    /\ At(c, "found")
    /\ attached[filing[c].file] # Absent
    /\ attached' = [attached EXCEPT ![filing[c].file] = Absent]
    /\ Done(c)
    /\ UNCHANGED <<stored, used, stray, misled>>

DeleteRow(c) ==
    /\ At(c, "found")
    /\ attached[filing[c].file] # Absent
    /\ attached' = [attached EXCEPT ![filing[c].file] = Absent]
    /\ MoveTo(c, "unlink")
    /\ UNCHANGED <<stored, used, stray, misled>>

\* The row was deleted since it was read: the request fails.
DeleteRowFails(c) ==
    /\ At(c, "found")
    /\ Done(c)
    /\ UNCHANGED <<stored, attached, used, stray, misled>>

-----------------------------------------------------------------------------
\* storage.delete, after a deleted row or in place of one not created.  A file
\* that is not there is not an error.
Unlink(c) ==
    /\ At(c, "unlink") \/ At(c, "undo")
    /\ stored' = stored \ {filing[c].file}
    /\ Done(c)
    /\ UNCHANGED <<attached, used, stray, misled>>

UnlinkFails(c) ==
    /\ At(c, "unlink") \/ At(c, "undo")
    /\ stray' = stray \cup {filing[c].file}
    /\ Done(c)
    /\ UNCHANGED <<stored, attached, used, misled>>

\* Deleting transaction t deletes the rows attached to it.
Cascade(t) ==
    LET cut == {f \in Files : attached[f] = t} IN
        /\ attached' = [f \in Files |-> IF f \in cut THEN Absent ELSE attached[f]]
        /\ stray' = stray \cup cut
        /\ UNCHANGED <<stored, used, filing, misled>>

\* The process stops: requests in flight are lost with what they had to do.
\* A write to the disk may have been going on.
RestartFiles ==
    /\ \E cut \in SUBSET {filing[c].file : c \in {d \in Clients : At(d, "checked")}} :
          /\ stored' = stored \cup cut
          /\ stray' = stray \cup cut \cup
                {filing[c].file : c \in {d \in Clients :
                    At(d, "stored") \/ At(d, "undo") \/ At(d, "unlink")}}
    /\ filing' = [c \in Clients |-> Absent]
    /\ UNCHANGED <<attached, used, misled>>

-----------------------------------------------------------------------------
FileTypeOK ==
    /\ stored \in SUBSET Files
    /\ attached \in [Files -> Rows \cup {Absent}]
    /\ used \in SUBSET Files
    /\ filing \in [Clients -> Filings \cup {Absent}]
    /\ stray \in SUBSET Files
    /\ misled \in SUBSET Files

\* Every attachment row names a transaction that exists and a file that is on
\* the disk, so that it can be downloaded, whatever was interrupted - but for
\* the file a handler deleted because it took the creation of its row to have
\* failed.
RowHasFile ==
    \A f \in Files : attached[f] # Absent =>
        Exists(attached[f]) /\ (f \in stored \/ f \in misled)

Working(f, steps) ==
    \E c \in Clients : filing[c] # Absent /\ filing[c].file = f /\ filing[c].step \in steps

\* A file on the disk has its row, or a request that is about to give it one or
\* to delete it; only a crash, a disk error or the deletion of its transaction
\* leaves a file that nothing refers to.
OrphanOnlyWhenCut ==
    \A f \in stored \ stray : attached[f] # Absent \/ Working(f, {"stored", "undo", "unlink"})

\* Strengthening: where the file and the row of a request stand.
FilingAgrees ==
    /\ \A c \in Clients : filing[c] # Absent => filing[c].file \in used
    /\ \A f \in Files : attached[f] # Absent => f \in used
    /\ stored \subseteq used
    /\ \A c \in Clients :
          /\ At(c, "stored") => filing[c].file \in stored
          /\ At(c, "checked") \/ At(c, "stored") \/ At(c, "unlink")
                => attached[filing[c].file] = Absent
          /\ At(c, "undo") /\ filing[c].file \notin misled
                => attached[filing[c].file] = Absent
    /\ \A c, d \in Clients :
          c # d /\ filing[c] # Absent /\ filing[d] # Absent
              /\ filing[c].file = filing[d].file
              => {filing[c].step, filing[d].step} \subseteq {"undo", "found", "unlink"}

FileIInv == FileTypeOK /\ RowHasFile /\ OrphanOnlyWhenCut /\ FilingAgrees

FileStep(c) ==
    \/ PutFile(c) \/ PutFails(c) \/ CreateRow(c) \/ CreateRowFails(c)
    \/ CreateRowMisleads(c)
    \/ DeleteRow(c) \/ DeleteRowFails(c) \/ Unlink(c) \/ UnlinkFails(c)

\* Attachments over a table of transactions that come and go.
FileNext ==
    \/ /\ \/ \E c \in Clients, t \in Rows, f \in Files : BeginUpload(c, t, f)
          \/ \E c \in Clients, f \in Files : BeginDeleteAttachment(c, f)
          \/ \E c \in Clients : FileStep(c)
       /\ UNCHANGED rowVars
    \/ (EditStep \/ \E r \in Rows, v \in Contents : Insert(r, v)) /\ UNCHANGED fileVars
    \/ \E r \in Rows : Delete(r) /\ Cascade(r)
    \/ RestartRows /\ RestartFiles

FileSpec == InitRows /\ InitFiles /\ [][FileNext]_<<rowVars, fileVars>>
=============================================================================
