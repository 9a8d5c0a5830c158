---------------------------- MODULE Attachments ----------------------------
(***************************************************************************)
(* Uploading attachments of one tender (routes/tenders/attachments.ts) as  *)
(* three resources that no transaction joins: the temporary file multer    *)
(* wrote, the object in the storage (services/storage.ts, s3Storage.ts)    *)
(* and the Attachment row, whose version was counted before either.        *)
(* Requests interleave, storage and database fail, processes die.          *)
(***************************************************************************)
EXTENDS Naturals, Sequences, FiniteSets

CONSTANTS
  Slots,        \* uploads in flight at once, over all instances
  Instances,    \* of the API
  Disk,         \* the directory UPLOADS_DIR is for each of them, shared or its own
  FileNames,
  Storages,     \* which adapters createStorage may choose
  MaxUploads,   \* bound on the uploads
  MaxFailures   \* bound on failing calls and dying processes

ASSUME InstancesAssumption == Instances # {}
ASSUME UploadsAssumption == MaxUploads \in Nat /\ MaxFailures \in Nat
ASSUME StoragesAssumption == Storages \subseteq {"local", "s3"}
ASSUME NamesAssumption == FileNames # {}

VARIABLES
  storage,    \* the adapter of this deployment
  upload,     \* the requests: where the handler is and what it knows
  uploads,    \* how many there have been; each has a file and a key of its own
  temp,       \* the files in tmpUploadDir, by upload
  stored,     \* the objects, by upload and by the place they are in
  rows,       \* the Attachment rows, in commit order
  missing,    \* the last download that was answered with FILE_MISSING, if any
  left,       \* history: the uploads whose cleaning up failed or was cut short
  failures

vars == <<storage, upload, uploads, temp, stored, rows, missing, left, failures>>

Id == 1..MaxUploads

\* One bucket for all instances, or the directory of each.
Place(x) == IF storage = "s3" THEN "bucket" ELSE Disk[x]
Places == {"bucket"} \cup {Disk[x] : x \in Instances}

\* `on` is the instance that takes the upload.  `before` is history: how many
\* rows there were when the version was counted.
Upload ==
  [pc : {"idle", "received", "save", "remove", "insert", "cleanup"}, on : Instances,
   id : Id \cup {0}, name : FileNames, version : Nat, before : Nat]

\* `on` and `before` are no columns: history.
Row == [id : Id, on : Instances, name : FileNames, version : Nat, before : Nat]

\* `failed` is history: the read threw, whether the object is there or not.
Answer == [row : Nat, on : Instances, failed : BOOLEAN]

TypeOK ==
  /\ storage \in Storages
  /\ upload \in [Slots -> Upload]
  /\ uploads \in Nat
  /\ temp \subseteq Id
  /\ stored \subseteq Id \X Places
  /\ rows \in Seq(Row)
  /\ missing \subseteq Answer
  /\ left \subseteq Id
  /\ failures \in Nat

Idle == [pc |-> "idle", on |-> CHOOSE x \in Instances : TRUE, id |-> 0, name |-> CHOOSE n \in FileNames : TRUE,
         version |-> 0, before |-> 0]

Init ==
  /\ storage \in Storages
  /\ upload = [s \in Slots |-> Idle]
  /\ uploads = 0
  /\ temp = {}
  /\ stored = {}
  /\ rows = <<>>
  /\ missing = {}
  /\ left = {}
  /\ failures = 0
-----------------------------------------------------------------------------
(* The handler *)

InFlight == {upload[s].id : s \in {s \in Slots : upload[s].pc # "idle"}}

\* multer has streamed the request's file to the disk of the instance.
Receive(s, x, n) ==
  /\ upload[s].pc = "idle"
  /\ uploads < MaxUploads
  /\ uploads' = uploads + 1
  /\ temp' = temp \cup {uploads + 1}
  /\ upload' = [upload EXCEPT ![s] = 
       [Idle EXCEPT !.pc = "received", !.on = x, !.id = uploads + 1, !.name = n]]
  /\ UNCHANGED <<storage, stored, rows, missing, left, failures>>

countVersions(n) == Cardinality({i \in DOMAIN rows : rows[i].name = n})

\* Fault: the version is left to the default of the schema.
DefaultVersion(s) ==
  /\ upload[s].pc = "received"
  /\ upload' = [upload EXCEPT ![s].pc = "save", ![s].version = 1, ![s].before = Len(rows)]
  /\ UNCHANGED <<storage, uploads, temp, stored, rows, missing, left, failures>>

\* findByIdOrThrow and countVersions.
CountVersions(s) ==
  /\ upload[s].pc = "received"
  /\ upload' = [upload EXCEPT ![s].pc = "save",
                              ![s].version = countVersions(upload[s].name) + 1,
                              ![s].before = Len(rows)]
  /\ UNCHANGED <<storage, uploads, temp, stored, rows, missing, left, failures>>

\* Where the object of an upload goes.
Object(u) == <<u.id, Place(u.on)>>

\* saveFromFile: S3 reads the temporary file and sends it, a local rename
\* takes it away, a local copy (another disk) leaves it to be removed.
Save(s) ==
  /\ upload[s].pc = "save"
  /\ stored' = stored \cup {Object(upload[s])}
  /\ \/ /\ storage = "s3"
        /\ upload' = [upload EXCEPT ![s].pc = "insert"]
        /\ UNCHANGED temp
     \/ /\ storage = "local"
        /\ upload' = [upload EXCEPT ![s].pc = "insert"]
        /\ temp' = temp \ {upload[s].id}
     \/ /\ storage = "local"
        /\ upload' = [upload EXCEPT ![s].pc = "remove"]
        /\ UNCHANGED temp
  /\ UNCHANGED <<storage, uploads, rows, missing, left, failures>>

RemoveSource(s) ==
  /\ upload[s].pc = "remove"
  /\ temp' = temp \ {upload[s].id}
  /\ upload' = [upload EXCEPT ![s].pc = "insert"]
  /\ UNCHANGED <<storage, uploads, stored, rows, missing, left, failures>>

RowOf(u) == [id |-> u.id, on |-> u.on, name |-> u.name, version |-> u.version, before |-> u.before]

\* The transaction of the row and its audit entry; the request is answered.
InsertRow(s) ==
  /\ upload[s].pc = "insert"
  /\ rows' = Append(rows, RowOf(upload[s]))
  /\ upload' = [upload EXCEPT ![s] = Idle]
  /\ UNCHANGED <<storage, uploads, temp, stored, missing, left, failures>>

\* GET /attachments/:id/download, at instance x.
Download(i, x) ==
  /\ i \in DOMAIN rows
  /\ missing' = IF <<rows[i].id, Place(x)>> \in stored THEN missing
                ELSE {[row |-> i, on |-> x, failed |-> FALSE]}
  /\ UNCHANGED <<storage, upload, uploads, temp, stored, rows, left, failures>>
-----------------------------------------------------------------------------
(* Failures *)

Fail == failures < MaxFailures /\ failures' = failures + 1

\* Fault: saveFromFile is not awaited.
SaveFailsUnnoticed(s) ==
  /\ upload[s].pc = "save"
  /\ Fail
  /\ upload' = [upload EXCEPT ![s].pc = "insert"]
  /\ UNCHANGED <<storage, uploads, temp, stored, rows, missing, left>>

\* The save throws, before or after the object is there: of a call that is
\* cut off nobody knows, and a copy may have been made whose source then stays.
SaveFails(s) ==
  /\ upload[s].pc = "save"
  /\ Fail
  /\ stored' \in {stored, stored \cup {Object(upload[s])}}
  /\ upload' = [upload EXCEPT ![s].pc = "cleanup"]
  /\ UNCHANGED <<storage, uploads, temp, rows, missing, left>>

\* The storage cannot be read: the client is told FILE_MISSING all the same.
\* Once the headers are sent the connection is cut, and nothing is said.
DownloadFails(i, x) ==
  /\ i \in DOMAIN rows
  /\ Fail
  /\ missing' = {[row |-> i, on |-> x, failed |-> TRUE]}
  /\ UNCHANGED <<storage, upload, uploads, temp, stored, rows, left>>

\* A query or the removal of the source throws; a transaction may have been
\* committed all the same.
QueryFails(s) ==
  /\ upload[s].pc \in {"received", "remove", "insert"}
  /\ Fail
  /\ \/ UNCHANGED rows
     \/ upload[s].pc = "insert" /\ rows' = Append(rows, RowOf(upload[s]))
  /\ upload' = [upload EXCEPT ![s].pc = "cleanup"]
  /\ UNCHANGED <<storage, uploads, temp, stored, missing, left>>

\* Fault: the error is passed on with the file still there.
CleanupForgotten(s) ==
  /\ upload[s].pc = "cleanup"
  /\ upload' = [upload EXCEPT ![s] = Idle]
  /\ UNCHANGED <<storage, uploads, temp, stored, rows, missing, left, failures>>

\* The catch block: the temporary file goes, if it is still there.
Cleanup(s) ==
  /\ upload[s].pc = "cleanup"
  /\ temp' = temp \ {upload[s].id}
  /\ upload' = [upload EXCEPT ![s] = Idle]
  /\ UNCHANGED <<storage, uploads, stored, rows, missing, left, failures>>

\* The removal in the catch block throws and is ignored, or the process dies.
Abandon(s) ==
  /\ upload[s].pc # "idle"
  /\ Fail
  /\ left' = left \cup {upload[s].id}
  /\ upload' = [upload EXCEPT ![s] = Idle]
  /\ UNCHANGED <<storage, uploads, temp, stored, rows, missing>>
-----------------------------------------------------------------------------
Next ==
  \/ \E s \in Slots :
       \/ \E x \in Instances, n \in FileNames : Receive(s, x, n)
       \/ CountVersions(s) \/ Save(s) \/ RemoveSource(s) \/ InsertRow(s)
       \/ SaveFails(s) \/ QueryFails(s) \/ Cleanup(s) \/ Abandon(s)
  \/ \E i \in 1..MaxUploads, x \in Instances : Download(i, x) \/ DownloadFails(i, x)

Spec == Init /\ [][Next]_vars
-----------------------------------------------------------------------------
(* Properties *)

\* H5.1: a row has its object, whatever fails between the two or dies.  Short
\* of a read that throws, FILE_MISSING is answered for a listed attachment on
\* local storage alone, by an instance that has another directory than the one
\* that took the upload.
MissingIsElsewhere ==
  \A m \in missing : m.failed \/ (storage = "local" /\ Disk[m.on] # Disk[rows[m.row].on])

\* M5.3, as far as it goes: an upload that began to count after another was
\* in the database gets a higher version than it, whoever else uploads.
LaterIsNewer ==
  \A i \in DOMAIN rows : \A j \in 1..rows[i].before :
    rows[j].name = rows[i].name => rows[j].version < rows[i].version

\* H4.5: on the local disk nothing is left in tmpUploadDir by a request that is
\* over, failed or not, except by one whose cleaning up was itself cut short.
LocalLeavesNoTemp == storage = "local" => temp \subseteq InFlight \cup left

\* FR-ATT-01: the same name again is a new version.
VersionsDiffer ==
  \A i, j \in DOMAIN rows :
    i # j /\ rows[i].name = rows[j].name => rows[i].version # rows[j].version
-----------------------------------------------------------------------------
(* Why they hold: the parts of the inductive invariant *)

RowsHaveObjects == \A i \in DOMAIN rows : Object(rows[i]) \in stored

AnswersAreOfRows == \A m \in missing : m.row \in DOMAIN rows

InsertsWhatIsStored == \A s \in Slots : upload[s].pc \in {"remove", "insert"} => Object(upload[s]) \in stored

\* A version is at most the number of rows of its name: a later count passes it.
VersionsAreCounted ==
  /\ \A i \in DOMAIN rows : rows[i].version <= countVersions(rows[i].name) /\ rows[i].before < i
  /\ \A s \in Slots : upload[s].pc \in {"save", "remove", "insert"} =>
       /\ upload[s].version <= countVersions(upload[s].name) + 1
       /\ upload[s].before <= Len(rows)
       /\ \A j \in 1..upload[s].before :
            rows[j].name = upload[s].name => rows[j].version < upload[s].version

\* A local file that has been moved is not there any more.
MovedIsGone ==
  \A s \in Slots : upload[s].pc = "insert" /\ storage = "local" => upload[s].id \notin temp

\* Each upload in flight has a number, and with it its file and its key.
UploadsAreNumbered ==
  /\ uploads <= MaxUploads
  /\ \A s \in Slots : upload[s].pc # "idle" => upload[s].id \in 1..uploads

IInv ==
  /\ TypeOK
  /\ UploadsAreNumbered
  /\ RowsHaveObjects /\ InsertsWhatIsStored /\ AnswersAreOfRows /\ MissingIsElsewhere
  /\ VersionsAreCounted /\ LaterIsNewer
  /\ MovedIsGone /\ LocalLeavesNoTemp
=============================================================================
