---------------------------- MODULE ImageImport ----------------------------
(***************************************************************************)
(* One staged image: the multipart upload through the object store, the     *)
(* image_import jobs that stream it into vCenter, the operator's manual     *)
(* import and delete, and the reconciler of abandoned imports.              *)
(*                                                                         *)
(* Only two writes of the row are compare-and-swap (uploaded to importing,  *)
(* error to uploaded) and nothing keeps two jobs off one image.  A job      *)
(* retries for one hour from its creation; the hour ends between any two    *)
(* steps.                                                                   *)
(*                                                                         *)
(* Left out: names, sizes, checksums, progress, the staging budget (a       *)
(* refused upload changes nothing) and the pickers that only list images.   *)
(* A run that lost its lease stops at its next call; the window before it   *)
(* notices is JobQueue's.                                                   *)
(***************************************************************************)
EXTENDS Naturals

CONSTANTS
    Imports,        \* ids of image_import jobs, in order of creation
    MaxImageFaults  \* bound: leases lost and processes that die

ASSUME ImportsOrdered == Imports \subseteq Nat
ASSUME ImageFaultsNat == MaxImageFaults \in Nat

VARIABLES
    kind,       \* iso or ova
    image,      \* image_uploads: status
    recorded,   \* image_uploads: vcenter_vm_id or datastore_path is set
    aged,       \* image_uploads: updated_at is an hour ago
    upload,     \* the multipart upload in the object store
    object,     \* the staged object
    artifact,   \* the file or VM in vCenter
    used,       \* a template references the artifact
    importJob,  \* the jobs and the runs that execute them
    complete,   \* where a call of AdminCompleteImageUpload is
    ask,        \* where a call of AdminImportImage is
    delete,     \* where a call of AdminDeleteImage is
    orphan,     \* what the reconciler is about to do with the row
    imageFaults

imageVars == <<kind, image, recorded, aged, upload, object, artifact, used, importJob,
               complete, ask, delete, orphan, imageFaults>>
imageRow == <<image, recorded, aged>>
stagedObject == <<upload, object>>
adminCalls == <<complete, ask, delete>>

Executing == {"commit", "stream", "failing", "record", "release"}

ImageTypeOK ==
    /\ kind \in {"iso", "ova"}
    /\ image \in {"none", "pending", "uploaded", "importing", "imported", "error", "deleted"}
    /\ {recorded, aged, used} \subseteq BOOLEAN
    /\ upload \in {"none", "open", "closed"}
    /\ {object, artifact} \subseteq {"none", "short", "whole"}
    /\ importJob \in [Imports -> [at : Executing \cup {"none", "pending", "ended"},
                                  late : BOOLEAN, zombie : BOOLEAN]]
    /\ complete \in {"idle", "stat", "enqueue"}
    /\ ask \in {"idle", "reset", "enqueue"}
    /\ delete \in {"idle", "destroy", "remove", "drop"}
    /\ orphan \in {"idle", "expire", "requeue"}
    /\ imageFaults \in 0 .. MaxImageFaults

ImageInit ==
    /\ kind \in {"iso", "ova"}
    /\ image = "none" /\ recorded = FALSE /\ aged = FALSE
    /\ upload = "none" /\ object = "none" /\ artifact = "none" /\ used = FALSE
    /\ importJob = [j \in Imports |-> [at |-> "none", late |-> FALSE, zombie |-> FALSE]]
    /\ complete = "idle" /\ ask = "idle" /\ delete = "idle" /\ orphan = "idle"
    /\ imageFaults = 0

-----------------------------------------------------------------------------
\* Rows and objects.

\* A write of a row that was deleted changes nothing and is no error.
SetImage(s, rec) ==
    IF image = "deleted" THEN UNCHANGED imageRow
    ELSE image' = s /\ recorded' = rec /\ aged' = FALSE

SetImageUploadUploaded == image = "pending" /\ SetImage("uploaded", recorded)
SetImageUploadImported == SetImage("imported", TRUE)
SetImageUploadError == SetImage("error", recorded)
ResetImageUploadForRetry == image = "error" /\ SetImage("uploaded", recorded)
UpdateImageUploadStatus == image = "uploaded" /\ SetImage("importing", recorded)

ActiveImport == \E j \in Imports : importJob[j].at \in Executing \cup {"pending"}
HasActiveImageImportJob == ActiveImport

\* Mutant: a job that failed still counts as somebody's.
OrphanWithoutAnyJob == image = "importing" /\ \A j \in Imports : importJob[j].at = "none"
ListOrphanImportingImages == image = "importing" /\ ~ActiveImport

ImportAt(j, s) == importJob' = [importJob EXCEPT ![j].at = s]

\* CreateJob of an image_import job; the row may be gone by now.
CreateImportJob ==
    \E j \in Imports :
        /\ importJob[j].at = "none" /\ \A i \in Imports : i < j => importJob[i].at # "none"
        /\ ImportAt(j, "pending")

RemoveObject == object' = "none"

-----------------------------------------------------------------------------
\* The handlers.

AdminCreateImageUpload ==
    /\ image = "none"
    /\ upload' = "open" /\ SetImage("pending", FALSE)
    /\ UNCHANGED <<kind, object, artifact, used, importJob, adminCalls, orphan, imageFaults>>

\* CompleteMultipart works once; the client may have sent fewer bytes than
\* it declared.  The row's status is not looked at.
AdminCompleteImageUpload ==
    /\ complete = "idle" /\ image \notin {"none", "deleted"} /\ upload = "open"
    /\ upload' = "closed" /\ object' \in {"short", "whole"}
    /\ complete' = "stat"
    /\ UNCHANGED <<kind, imageRow, artifact, used, importJob, ask, delete, orphan, imageFaults>>

\* Stat confirms the size.
StatUpload ==
    /\ complete = "stat"
    /\ \/ object = "whole" /\ SetImageUploadUploaded /\ complete' = "enqueue"
       \/ object = "whole" /\ image # "pending" /\ UNCHANGED imageRow /\ complete' = "idle"
       \/ SetImageUploadError /\ complete' = "idle"       \* a wrong size, or Stat failed
    /\ UNCHANGED <<kind, stagedObject, artifact, used, importJob, ask, delete, orphan, imageFaults>>

\* A job that cannot be created is logged, not fatal.
EnqueueAfterUpload ==
    /\ complete = "enqueue" /\ complete' = "idle"
    /\ CreateImportJob \/ UNCHANGED importJob
    /\ UNCHANGED <<kind, imageRow, stagedObject, artifact, used, ask, delete, orphan, imageFaults>>

\* The API dies inside AdminCompleteImageUpload.
CompleteDies ==
    /\ complete = "stat" /\ complete' = "idle"
    /\ imageFaults < MaxImageFaults /\ imageFaults' = imageFaults + 1
    /\ UNCHANGED <<kind, imageRow, stagedObject, artifact, used, importJob, ask, delete, orphan>>

\* An error row is put back to uploaded first, whatever the error was.
AdminImportImage ==
    /\ ask = "idle" /\ image \in {"uploaded", "error"} /\ ~HasActiveImageImportJob
    /\ ask' = IF image = "error" THEN "reset" ELSE "enqueue"
    /\ UNCHANGED <<kind, imageRow, stagedObject, artifact, used, importJob, complete, delete,
                   orphan, imageFaults>>

ResetForRetry ==
    /\ ask = "reset"
    /\ \/ ResetImageUploadForRetry /\ ask' = "enqueue"
       \/ image # "error" /\ UNCHANGED imageRow /\ ask' = "idle"
    /\ UNCHANGED <<kind, stagedObject, artifact, used, importJob, complete, delete, orphan, imageFaults>>

EnqueueImport ==
    /\ ask = "enqueue" /\ ask' = "idle"
    /\ CreateImportJob \/ UNCHANGED importJob
    /\ UNCHANGED <<kind, imageRow, stagedObject, artifact, used, complete, delete, orphan, imageFaults>>

\* Only an imported OVA that the row read here names has a VM to destroy.
AdminDeleteImage ==
    /\ delete = "idle" /\ image \notin {"none", "deleted"}
    /\ ~(used /\ recorded)                        \* CountTemplatesReferencingImage
    /\ delete' = IF kind = "ova" /\ recorded THEN "destroy" ELSE "remove"
    /\ UNCHANGED <<kind, imageRow, stagedObject, artifact, used, importJob, complete, ask,
                   orphan, imageFaults>>

\* VM, object, row, in this order; each call may fail and ends the request.
DeleteStep ==
    /\ \/ /\ delete = "destroy" /\ delete' = "remove"
          /\ artifact' = "none" /\ UNCHANGED <<object, imageRow>>
       \/ /\ delete = "remove" /\ delete' = "drop"
          /\ RemoveObject /\ UNCHANGED <<artifact, imageRow>>
       \/ /\ delete = "drop" /\ delete' = "idle"
          /\ SetImage("deleted", FALSE) /\ UNCHANGED <<object, artifact>>
       \/ /\ delete # "idle" /\ delete' = "idle"
          /\ UNCHANGED <<object, artifact, imageRow>>
    /\ UNCHANGED <<kind, upload, used, importJob, complete, ask, orphan, imageFaults>>

\* A template takes the imported artifact as its source.
ReferenceImage ==
    /\ image = "imported" /\ ~used /\ used' = TRUE
    /\ UNCHANGED <<kind, imageRow, stagedObject, artifact, importJob, adminCalls, orphan, imageFaults>>

-----------------------------------------------------------------------------
\* The import job.

LoadImage(j) ==
    /\ importJob[j].at = "pending"
    /\ ImportAt(j, CASE image = "uploaded" -> "commit"
                     [] image = "importing" -> "stream"
                     [] OTHER -> "ended")
    /\ UNCHANGED <<kind, imageRow, stagedObject, artifact, used, adminCalls, orphan, imageFaults>>

CommitToImporting(j) ==
    /\ importJob[j].at = "commit"
    /\ \/ UpdateImageUploadStatus /\ ImportAt(j, "stream")
       \/ image # "uploaded" /\ UNCHANGED imageRow /\ ImportAt(j, "ended")
    /\ UNCHANGED <<kind, stagedObject, artifact, used, adminCalls, orphan, imageFaults>>

\* fail: a failure that may be retried leaves the row importing for as long
\* as the hour lasts; every other one is written to the row.
FailImport(j, retryable) ==
    IF retryable /\ ~importJob[j].late
    THEN ImportAt(j, "failing") /\ UNCHANGED imageRow
    ELSE ImportAt(j, "ended") /\ SetImageUploadError

\* An upload to the datastore replaces the file of that name.
UploadToDatastore == kind = "iso" /\ artifact' = object

\* The VM's name holds the image id: a second import of the image meets a
\* duplicate name, a truncated archive misses a file of its descriptor.
ImportOVA == kind = "ova" /\ object = "whole" /\ artifact = "none" /\ artifact' = object

ImportImage(j) ==
    /\ importJob[j].at = "stream"
    /\ \/ object # "none" /\ (UploadToDatastore \/ ImportOVA)
          /\ ImportAt(j, "record") /\ UNCHANGED imageRow
       \/ \E retryable \in BOOLEAN :
             /\ FailImport(j, retryable)
             /\ ImportOVA \/ UNCHANGED artifact   \* the VM may stay: on an unfit host
    /\ UNCHANGED <<kind, stagedObject, used, adminCalls, orphan, imageFaults>>

\* ProcessJob reads the clock again before it schedules the retry.
SettleImport(j) ==
    /\ importJob[j].at = "failing"
    /\ ImportAt(j, IF importJob[j].late THEN "ended" ELSE "pending")
    /\ UNCHANGED <<kind, imageRow, stagedObject, artifact, used, adminCalls, orphan, imageFaults>>

RecordImported(j) ==
    /\ importJob[j].at = "record"
    /\ \/ SetImageUploadImported /\ ImportAt(j, "release")
       \/ \E retryable \in BOOLEAN : FailImport(j, retryable)
    /\ UNCHANGED <<kind, stagedObject, artifact, used, adminCalls, orphan, imageFaults>>

ReleaseObject(j) ==
    /\ importJob[j].at = "release" /\ ImportAt(j, "ended")
    /\ RemoveObject \/ UNCHANGED object
    /\ UNCHANGED <<kind, imageRow, upload, artifact, used, adminCalls, orphan, imageFaults>>

\* The worker dies or loses the lease: the job is recovered, and a run that
\* is still there is cancelled.
LoseImportLease(j) ==
    /\ importJob[j].at \in Executing
    /\ imageFaults < MaxImageFaults /\ imageFaults' = imageFaults + 1
    /\ \E z \in BOOLEAN :
          importJob' = [importJob EXCEPT ![j].at = "pending", ![j].zombie = @ \/ z]
    /\ UNCHANGED <<kind, imageRow, stagedObject, artifact, used, adminCalls, orphan>>

\* fail of the cancelled run: after the hour its terminal write, on a context
\* of its own, still reaches the row.
ZombieImportEnds(j) ==
    /\ importJob[j].zombie
    /\ importJob' = [importJob EXCEPT ![j].zombie = FALSE]
    /\ IF importJob[j].late THEN SetImageUploadError ELSE UNCHANGED imageRow
    /\ UNCHANGED <<kind, stagedObject, artifact, used, adminCalls, orphan, imageFaults>>

\* ImageImportRetryBudget runs out.
ImageImportRetryBudget(j) ==
    /\ importJob[j].at \notin {"none", "ended"} /\ ~importJob[j].late
    /\ importJob' = [importJob EXCEPT ![j].late = TRUE]
    /\ UNCHANGED <<kind, imageRow, stagedObject, artifact, used, adminCalls, orphan, imageFaults>>

-----------------------------------------------------------------------------
\* The reconciler.

RowAges ==
    /\ image = "importing" /\ ~aged /\ aged' = TRUE
    /\ UNCHANGED <<kind, image, recorded, stagedObject, artifact, used, importJob, adminCalls,
                   orphan, imageFaults>>

reconcileStuckUploads ==
    /\ orphan = "idle" /\ ListOrphanImportingImages
    /\ orphan' = IF aged THEN "expire" ELSE "requeue"
    /\ UNCHANGED <<kind, imageRow, stagedObject, artifact, used, importJob, adminCalls, imageFaults>>

\* The row may have moved since it was listed.
ReconcileOrphan ==
    /\ orphan # "idle" /\ orphan' = "idle"
    /\ \/ orphan = "expire" /\ SetImageUploadError /\ UNCHANGED importJob
       \/ orphan = "requeue" /\ (CreateImportJob \/ UNCHANGED importJob) /\ UNCHANGED imageRow
    /\ UNCHANGED <<kind, stagedObject, artifact, used, adminCalls, imageFaults>>

-----------------------------------------------------------------------------
RunImport(j) ==
    \/ LoadImage(j) \/ CommitToImporting(j) \/ ImportImage(j)
    \/ SettleImport(j) \/ RecordImported(j) \/ ReleaseObject(j)

ReconcileImages == reconcileStuckUploads \/ ReconcileOrphan

ImageNext ==
    \/ AdminCreateImageUpload \/ AdminCompleteImageUpload \/ StatUpload \/ EnqueueAfterUpload
    \/ CompleteDies \/ AdminImportImage \/ ResetForRetry \/ EnqueueImport
    \/ AdminDeleteImage \/ DeleteStep \/ ReferenceImage \/ RowAges \/ ReconcileImages
    \/ \E j \in Imports :
          RunImport(j) \/ LoseImportLease(j) \/ ZombieImportEnds(j) \/ ImageImportRetryBudget(j)

\* An import that started ends: whatever fails, is retried, dies or straddles
\* the end of its hour, a row that is importing is moved on by its job
\* (importImageWithDeadline) or, once no job is left, by the reconciler
\* (reconcileStuckUploads).
ImportSettles == image = "importing" ~> image # "importing"

\* images.go:366-368: "importing a truncated image produces a corrupt vCenter
\* template"; an upload whose size is wrong is rejected.  Nothing short of the
\* declared size reaches vCenter.
TruncatedNeverImported == artifact # "short"
=============================================================================
