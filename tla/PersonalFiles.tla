--------------------------- MODULE PersonalFiles ---------------------------
(***************************************************************************)
(* The personal file cabinet of one consumer (PersonalFilesService,        *)
(* PersonalFilesGc): rows in Postgres, bytes in object storage, and a      *)
(* usage row that counts them.  Storage and database share no transaction, *)
(* so an upload, a restore and the nightly collection are sequences of     *)
(* steps that other requests and failures interleave with.                 *)
(***************************************************************************)
EXTENDS Integers, FiniteSets, Functions

CONSTANTS
    FileId,         \* ids of PersonalFile rows
    FileJob,        \* the requests and runs of the nightly job that overlap
    FileSize,       \* sizes in units of storage
    QUOTA_BYTES, PER_FILE_MAX_BYTES

ASSUME FilesAssumption ==
    /\ FileSize \subseteq Nat \ {0} /\ QUOTA_BYTES \in Nat /\ PER_FILE_MAX_BYTES \in Nat
    /\ IsFiniteSet(FileJob) /\ FileJob # {}

VARIABLES
    file,           \* PersonalFile rows
    stored,         \* the files whose bytes are in storage
    storageUsage,   \* UserStorageUsage: bytesUsed and fileCount
    fileJob         \* what every request is doing

fileVars == <<file, stored, storageUsage, fileJob>>

\* deleted is deletedAt; expired says that it is more than 30 days ago.
FileRow == [state : {"none", "live", "deleted", "expired"}, size : {0} \cup FileSize,
            cohort : BOOLEAN]
NoFile == [state |-> "none", size |-> 0, cohort |-> FALSE]

FileJobRow == [op : {"none", "upload", "uploadCase", "delete", "bulk", "restore", "gc"},
               pc : {"idle", "put", "insert", "audit", "undo", "cohort", "write",
                     "bytes", "row"},
               ids : SUBSET FileId, size : {0} \cup FileSize]
FreshJob == [op |-> "none", pc |-> "idle", ids |-> {}, size |-> 0]

FilesInit ==
    /\ file = [f \in FileId |-> NoFile]
    /\ stored = {}
    /\ storageUsage = [bytes |-> 0, count |-> 0]
    /\ fileJob = [j \in FileJob |-> FreshJob]

FileAt(j, ops, pc) == fileJob[j].op \in ops /\ fileJob[j].pc = pc
FileGo(j, pc) == fileJob' = [fileJob EXCEPT ![j].pc = pc]
FileEnd(j) == fileJob' = [fileJob EXCEPT ![j] = FreshJob]
\* The file a job is about; the garbage collection takes them one by one.
The(j) == CHOOSE f \in fileJob[j].ids : TRUE
FileStart(j, op, pc, ids, size) ==
    /\ fileJob[j] = FreshJob
    /\ fileJob' = [fileJob EXCEPT ![j] = [op |-> op, pc |-> pc, ids |-> ids, size |-> size]]
    /\ UNCHANGED <<file, stored, storageUsage>>
Unused == {f \in FileId : file[f] = NoFile /\ f \notin stored
                          /\ \A j \in FileJob : f \notin fileJob[j].ids}

-----------------------------------------------------------------------------

\* upload and uploadCaseFile: the limits are checked against an unlocked read.
Upload(j) ==
    \E size \in FileSize, op \in {"upload", "uploadCase"} :
        /\ size <= PER_FILE_MAX_BYTES
        /\ storageUsage.bytes + size <= QUOTA_BYTES
        /\ \E f \in Unused : FileStart(j, op, "put", {f}, size)

PutBytes(j) ==
    /\ FileAt(j, {"upload", "uploadCase"}, "put")
    /\ stored' = stored \cup fileJob[j].ids
    /\ FileGo(j, "insert")
    /\ UNCHANGED <<file, storageUsage>>

\* The transaction: the row and the usage counters.
InsertFile(j) ==
    /\ FileAt(j, {"upload", "uploadCase"}, "insert")
    /\ file' = [file EXCEPT ![The(j)] = [state |-> "live", size |-> fileJob[j].size,
                                         cohort |-> FALSE]]
    /\ storageUsage' = [bytes |-> storageUsage.bytes + fileJob[j].size, count |-> storageUsage.count + 1]
    /\ FileGo(j, "audit")
    /\ UNCHANGED stored

\* The transaction, or the audit row written after it, fails: the catch block.
UploadFails(j) ==
    /\ FileAt(j, {"upload", "uploadCase"}, "insert") \/ FileAt(j, {"upload", "uploadCase"}, "audit")
    /\ FileGo(j, "undo")
    /\ UNCHANGED <<file, stored, storageUsage>>

UndoPut(j) ==
    /\ FileAt(j, {"upload", "uploadCase"}, "undo")
    /\ stored' \in {stored, stored \ fileJob[j].ids}
    /\ FileEnd(j)
    /\ UNCHANGED <<file, storageUsage>>

UploadAudited(j) ==
    /\ FileAt(j, {"upload", "uploadCase"}, "audit")
    /\ IF fileJob[j].op = "upload" THEN FileEnd(j) ELSE FileGo(j, "cohort")
    /\ UNCHANGED <<file, stored, storageUsage>>

\* uploadCaseFile: the cohort columns, if the row is still there.
StampCohort(j) ==
    /\ FileAt(j, {"uploadCase"}, "cohort")
    /\ file' = IF file[The(j)] = NoFile THEN file ELSE [file EXCEPT ![The(j)].cohort = TRUE]
    /\ FileEnd(j)
    /\ UNCHANGED <<stored, storageUsage>>

\* softDelete and restore: the row is read, then updated by its id.
SoftDelete(j) ==
    \E f \in FileId : file[f].state = "live" /\ FileStart(j, "delete", "write", {f}, 0)

BulkSoftDelete(j) ==
    LET owned == {f \in FileId : file[f].state = "live"}
    IN  owned # {} /\ FileStart(j, "bulk", "write", owned, 0)

Restore(j) ==
    \E f \in FileId : file[f].state = "deleted" /\ FileStart(j, "restore", "write", {f}, 0)

\* An update by id of a row that is gone fails and changes nothing.
WriteDeletedAt(j) ==
    LET to == IF fileJob[j].op = "restore" THEN "live" ELSE "deleted"
        hit == {f \in fileJob[j].ids : /\ file[f] # NoFile
                                       /\ fileJob[j].op = "bulk" => file[f].state = "live"}
    IN  /\ FileAt(j, {"delete", "bulk", "restore"}, "write")
        /\ file' = [f \in FileId |-> IF f \in hit THEN [file[f] EXCEPT !.state = to]
                                                  ELSE file[f]]
        /\ FileEnd(j)
        /\ UNCHANGED <<stored, storageUsage>>

\* The restore window of 30 days ends.
RestoreWindowEnds(f) ==
    /\ file[f].state = "deleted"
    /\ file' = [file EXCEPT ![f].state = "expired"]
    /\ UNCHANGED <<stored, storageUsage, fileJob>>

\* hardDeleteExpired: the listing, and for each file its bytes, then its row.
GcList(j) ==
    LET expired == {f \in FileId : file[f].state = "expired"}
    IN  expired # {} /\ FileStart(j, "gc", "bytes", expired, 0)

GcNext(j) ==
    LET rest == fileJob[j].ids \ {The(j)}
    IN  [fileJob EXCEPT ![j] = IF rest = {} THEN FreshJob
                               ELSE [@ EXCEPT !.ids = rest, !.pc = "bytes"]]

\* The deletion of the bytes may fail; the job goes on with the next file.
GcDeleteBytes(j) ==
    /\ FileAt(j, {"gc"}, "bytes")
    /\ \/ stored' = stored \ {The(j)} /\ FileGo(j, "row")
       \/ UNCHANGED stored /\ fileJob' = GcNext(j)
    /\ UNCHANGED <<file, storageUsage>>

\* Mutant: the row is deleted and the counters decremented although another run of
\* the job has already done so.
hardDeleteRow_Again(j) ==
    /\ FileAt(j, {"gc"}, "row")
    /\ file' = [file EXCEPT ![The(j)] = NoFile]
    /\ storageUsage' = [bytes |-> storageUsage.bytes - file[The(j)].size, count |-> storageUsage.count - 1]
    /\ fileJob' = GcNext(j)
    /\ UNCHANGED stored

\* hardDeleteRow: row and counters in one transaction, nothing if the row is gone.
hardDeleteRow(j) ==
    LET f == The(j) IN
    /\ FileAt(j, {"gc"}, "row")
    /\ file' = [file EXCEPT ![f] = NoFile]
    /\ storageUsage' = IF file[f] = NoFile THEN storageUsage
                ELSE [bytes |-> storageUsage.bytes - file[f].size, count |-> storageUsage.count - 1]
    /\ fileJob' = GcNext(j)
    /\ UNCHANGED stored

\* The process dies; what it has written stays.
FileJobDies(j) ==
    /\ fileJob[j] # FreshJob
    /\ FileEnd(j)
    /\ UNCHANGED <<file, stored, storageUsage>>

FilesNext ==
    \/ \E j \in FileJob :
         \/ Upload(j) \/ PutBytes(j) \/ InsertFile(j) \/ UploadFails(j) \/ UndoPut(j)
         \/ UploadAudited(j) \/ StampCohort(j)
         \/ SoftDelete(j) \/ BulkSoftDelete(j) \/ Restore(j) \/ WriteDeletedAt(j)
         \/ GcList(j) \/ GcDeleteBytes(j) \/ hardDeleteRow(j) \/ FileJobDies(j)
    \/ \E f \in FileId : RestoreWindowEnds(f)

FilesSpec == FilesInit /\ [][FilesNext]_fileVars

-----------------------------------------------------------------------------
\* Properties.

\* Type correctness of the cabinet; the counters never become negative.
FilesTypeOK ==
    /\ file \in [FileId -> FileRow]
    /\ stored \subseteq FileId
    /\ storageUsage \in [bytes : Nat, count : Nat]
    /\ fileJob \in [FileJob -> FileJobRow]

\* The usage row counts exactly the rows that exist, deleted ones included, after any
\* interleaving of uploads with two runs of the collection and with crashes: what the
\* quota is checked against is true.
UsageMatchesRows ==
    LET rows == {f \in FileId : file[f] # NoFile}
    IN  /\ storageUsage.count = Cardinality(rows)
        /\ storageUsage.bytes = SumFunctionOnSet([f \in FileId |-> file[f].size], rows)

\* The quota is checked in a read of its own, so overlapping uploads can pass the same
\* check; however long they go on, and whatever is deleted and collected meanwhile,
\* the cabinet never exceeds the quota by more than one largest file for each other
\* request in flight.
QuotaOvershootBounded ==
    storageUsage.bytes <= QUOTA_BYTES + (Cardinality(FileJob) - 1) * PER_FILE_MAX_BYTES

\* A file in the cabinet has its bytes: the catch block is there to "Roll back the
\* storage write if the DB insert failed".  The code does not keep it
\* (README, Disagreements).
LiveFilesHaveBytes ==
    (\A j \in FileJob : fileJob[j].op # "gc")
      => \A f \in FileId : file[f].state = "live" => f \in stored

\* The usage row is true, never negative, and bounds the cabinet, through overlapping
\* uploads, two runs of the collection and crashes (personal-files.service.ts).
CabinetIsCounted == FilesTypeOK /\ UsageMatchesRows /\ QuotaOvershootBounded
=============================================================================
