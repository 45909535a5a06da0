---------------------------- MODULE UploadStore ----------------------------
(***************************************************************************)
(* POST /api/upload and DELETE /api/media: one owner uploading the same    *)
(* bytes again and again, from several requests at once.                   *)
(*                                                                         *)
(* Requests meet through the rows they deduplicate against and the files   *)
(* those rows name; other owners and other bytes never meet them, so one   *)
(* owner and one checksum is the whole story.  A request creates at most   *)
(* one row and one file, both under fresh UUIDs: they are named after it.  *)
(***************************************************************************)
EXTENDS Naturals, FiniteSets

CONSTANTS
  Upload,    \* requests carrying the bytes
  NoMedia,
  Crashes    \* bound: whether a request may be cut off by a crash

ASSUME UploadAssumption == IsFiniteSet(Upload) /\ NoMedia \notin Upload /\ Crashes \in BOOLEAN

VARIABLES
  rows,      \* the UploadedMedia rows
  stamp,     \* a row's upload_timestamp; 0 before it has one
  file,      \* the file under MEDIA_ROOT/uploads of a row
  probed,    \* the rows whose probe result was saved
  pc,        \* where a request is
  existing,  \* the row a request found with its checksum
  stored,    \* history: whether that row's own request had succeeded by then
  deletion,  \* DELETE /api/media/{id} of a row
  leaked     \* history: the files whose best-effort removal failed

vars == <<rows, stamp, file, probed, pc, existing, stored, deletion, leaked>>

Running == {"hashed", "checking", "saving", "inserting", "discarding", "probing", "applying",
            "rejecting", "dropping"}

\* 201, 200, 4xx or 503, a 500 at the INSERT, at the probe's UPDATE or at the DELETE, a crash.
Over == {"created", "deduplicated", "refused", "stranded", "broken", "hollow", "lost"}

TypeOK ==
  /\ rows     \subseteq Upload
  /\ stamp    \in [Upload -> 0 .. Cardinality(Upload)]
  /\ file     \in [Upload -> {"none", "partial", "whole"}]
  /\ probed   \subseteq Upload
  /\ pc       \in [Upload -> {"idle"} \cup Running \cup Over]
  /\ existing \in [Upload -> Upload \cup {NoMedia}]
  /\ stored   \in [Upload -> BOOLEAN]
  /\ deletion \in [Upload -> {"no", "resolved", "dropped", "over", "lost"}]
  /\ leaked   \subseteq Upload

Init ==
  /\ rows     = {}
  /\ stamp    = [u \in Upload |-> 0]
  /\ file     = [u \in Upload |-> "none"]
  /\ probed   = {}
  /\ pc       = [u \in Upload |-> "idle"]
  /\ existing = [u \in Upload |-> NoMedia]
  /\ stored   = [u \in Upload |-> FALSE]
  /\ deletion = [u \in Upload |-> "no"]
  /\ leaked   = {}

Goto(u, l) == pc' = [pc EXCEPT ![u] = l]

SetFile(m, f) == file' = [file EXCEPT ![m] = f]

(* Removing a file is best effort: a failure is logged and swallowed.      *)
RemoveFile(m) ==
  \/ SetFile(m, "none") /\ UNCHANGED leaked
  \/ leaked' = leaked \cup {m} /\ UNCHANGED file

(* order_by('-upload_timestamp').first().                                  *)
Newest == {m \in rows : \A n \in rows : stamp[n] <= stamp[m]}

-----------------------------------------------------------------------------
(* store_upload.                                                           *)

(* validate_upload refuses the bytes, or they are hashed.                  *)
Validate(u) ==
  /\ pc[u] = "idle"
  /\ \E l \in {"refused", "hashed"} : Goto(u, l)
  /\ UNCHANGED <<rows, stamp, file, probed, existing, stored, deletion, leaked>>

(* The newest row of the same owner and checksum.                          *)
FindExisting(u) ==
  /\ pc[u] = "hashed"
  /\ \/ rows = {} /\ Goto(u, "saving") /\ UNCHANGED <<existing, stored>>
     \/ \E m \in Newest :
          /\ existing' = [existing EXCEPT ![u] = m]
          /\ stored'   = [stored EXCEPT ![u] = pc[m] = "created"]
          /\ Goto(u, "checking")
  /\ UNCHANGED <<rows, stamp, file, probed, deletion, leaked>>

CheckDiskInverted(u) ==
  /\ pc[u] = "checking"
  /\ Goto(u, IF file[existing[u]] = "none" THEN "deduplicated" ELSE "saving")
  /\ UNCHANGED <<rows, stamp, file, probed, existing, stored, deletion, leaked>>

(* ... answers the request if its file is still on disk.                   *)
CheckDisk(u) ==
  /\ pc[u] = "checking"
  /\ Goto(u, IF file[existing[u]] = "none" THEN "saving" ELSE "deduplicated")
  /\ UNCHANGED <<rows, stamp, file, probed, existing, stored, deletion, leaked>>

WriteFileStampsTwice(u) ==
  /\ pc[u] = "saving"
  /\ stamp' = [stamp EXCEPT ![u] = Cardinality({v \in Upload : stamp[v] > 0}) + 2]
  /\ SetFile(u, "whole")
  /\ Goto(u, "inserting")
  /\ UNCHANGED <<rows, probed, existing, stored, deletion, leaked>>

(* _save_media_file: inside the transaction the timestamp is taken, then   *)
(* the file written, before the INSERT.  An OSError may leave part of it.  *)
WriteFile(u) ==
  /\ pc[u] = "saving"
  /\ stamp' = [stamp EXCEPT ![u] = Cardinality({v \in Upload : stamp[v] > 0}) + 1]
  /\ \/ SetFile(u, "whole") /\ Goto(u, "inserting")
     \/ \E f \in {"none", "partial"} : SetFile(u, f) /\ Goto(u, "discarding")
  /\ UNCHANGED <<rows, probed, existing, stored, deletion, leaked>>

DiscardNothing(u) ==
  /\ pc[u] = "discarding"
  /\ Goto(u, "refused")
  /\ UNCHANGED <<rows, stamp, file, probed, existing, stored, deletion, leaked>>

(* _discard_after_storage_failure removes the path that was attempted.     *)
Discard(u) ==
  /\ pc[u] = "discarding"
  /\ RemoveFile(u)
  /\ Goto(u, "refused")
  /\ UNCHANGED <<rows, stamp, probed, existing, stored, deletion>>

(* The INSERT and the file_path UPDATE commit together; a database error   *)
(* is no OSError, and passes through with the file written.                *)
Insert(u) ==
  /\ pc[u] = "inserting"
  /\ \/ rows' = rows \cup {u} /\ Goto(u, "probing")
     \/ Goto(u, "stranded") /\ UNCHANGED rows
  /\ UNCHANGED <<stamp, file, probed, existing, stored, deletion, leaked>>

(* probe_image, probe_video: a file that is not there is corrupt_file.     *)
Probe(u) ==
  /\ pc[u] = "probing"
  /\ \/ file[u] # "none" /\ Goto(u, "applying")
     \/ Goto(u, "rejecting")
  /\ UNCHANGED <<rows, stamp, file, probed, existing, stored, deletion, leaked>>

(* save(update_fields=...) raises when the row is gone, or the database    *)
(* refuses the write.                                                      *)
Apply(u) ==
  /\ pc[u] = "applying"
  /\ \/ u \in rows /\ probed' = probed \cup {u} /\ Goto(u, "created")
     \/ Goto(u, "broken") /\ UNCHANGED probed
  /\ UNCHANGED <<rows, stamp, file, existing, stored, deletion, leaked>>

RejectKeepsRow(u) ==
  /\ pc[u] = "rejecting"
  /\ RemoveFile(u)
  /\ Goto(u, "refused")
  /\ UNCHANGED <<rows, stamp, probed, existing, stored, deletion>>

(* _delete_media_hard: first the file ...                                  *)
RejectFile(u) ==
  /\ pc[u] = "rejecting"
  /\ RemoveFile(u)
  /\ Goto(u, "dropping")
  /\ UNCHANGED <<rows, stamp, probed, existing, stored, deletion>>

(* ... then the row, unless the database refuses.                          *)
RejectRow(u) ==
  /\ pc[u] = "dropping"
  /\ \/ rows' = rows \ {u} /\ Goto(u, "refused")
     \/ Goto(u, "hollow") /\ UNCHANGED rows
  /\ UNCHANGED <<stamp, file, probed, existing, stored, deletion, leaked>>

-----------------------------------------------------------------------------
(* MediaDetailView.destroy, of an upload with no analysis in flight.       *)

ResolveMedia(m) ==
  /\ m \in rows
  /\ deletion[m] = "no"
  /\ deletion' = [deletion EXCEPT ![m] = "resolved"]
  /\ UNCHANGED <<rows, stamp, file, probed, pc, existing, stored, leaked>>

DropMediaFileFirst(m) ==
  /\ deletion[m] = "resolved"
  /\ deletion' = [deletion EXCEPT ![m] = "over"]
  /\ RemoveFile(m)
  /\ UNCHANGED <<rows, stamp, probed, pc, existing, stored>>

(* media.delete(): its rows go together, or the database refuses.          *)
DropMedia(m) ==
  /\ deletion[m] = "resolved"
  /\ \/ deletion' = [deletion EXCEPT ![m] = "dropped"] /\ rows' = rows \ {m}
     \/ deletion' = [deletion EXCEPT ![m] = "no"] /\ UNCHANGED rows
  /\ UNCHANGED <<stamp, file, probed, pc, existing, stored, leaked>>

ReclaimMedia(m) ==
  /\ deletion[m] = "dropped"
  /\ deletion' = [deletion EXCEPT ![m] = "over"]
  /\ RemoveFile(m)
  /\ UNCHANGED <<rows, stamp, probed, pc, existing, stored>>

(* A crash cuts requests off one by one: losing several is several steps.  *)
CrashUpload(u) ==
  /\ Crashes
  /\ pc[u] \in Running
  /\ Goto(u, "lost")
  /\ UNCHANGED <<rows, stamp, file, probed, existing, stored, deletion, leaked>>

CrashDeletion(m) ==
  /\ Crashes
  /\ deletion[m] \in {"resolved", "dropped"}
  /\ deletion' = [deletion EXCEPT ![m] = "lost"]
  /\ UNCHANGED <<rows, stamp, file, probed, pc, existing, stored, leaked>>

-----------------------------------------------------------------------------
StoreUpload(u) ==
  \/ Validate(u)
  \/ FindExisting(u)
  \/ CheckDisk(u)
  \/ WriteFile(u)
  \/ Discard(u)
  \/ Insert(u)
  \/ Probe(u)
  \/ Apply(u)
  \/ RejectFile(u)
  \/ RejectRow(u)

DeleteMedia(m) == ResolveMedia(m) \/ DropMedia(m) \/ ReclaimMedia(m)

Next == \E u \in Upload : StoreUpload(u) \/ DeleteMedia(u) \/ CrashUpload(u) \/ CrashDeletion(u)

Spec == Init /\ [][Next]_vars

-----------------------------------------------------------------------------
Idle(m) == pc[m] \notin Running /\ deletion[m] \notin {"resolved", "dropped"}

(* A row names bytes that are completely on disk, whoever deletes, rejects *)
(* or deduplicates; only the clean-up of its own rejected upload takes the *)
(* file first, and a crash or a database error may stop it there.          *)
RowsHaveTheirBytes ==
  \A m \in rows : file[m] = "whole" \/ pc[m] \in {"dropping", "lost", "hollow"}

(* When a row's request and its deletion are over, no file is left without *)
(* a row, except by a crash, a failed removal, or a database error in the  *)
(* INSERT, which leaves the file just written.                             *)
NoStrayFile ==
  \A m \in Upload : Idle(m) /\ file[m] # "none" /\ m \notin rows \cup leaked
                    => pc[m] \in {"lost", "stranded"} \/ deletion[m] = "lost"

(* A row that stays was probed, except after a crash or a database error:  *)
(* a rejected upload leaves no row.                                        *)
NoUnprobedRow ==
  \A m \in rows : Idle(m) /\ m \notin probed => pc[m] \in {"lost", "broken", "hollow"}

(* Uploading bytes again whose newest copy was stored makes no second copy *)
(* of them while that one lives, whatever happens in between.              *)
NoSecondCopy ==
  \A u \in rows : stored[u] => existing[u] \notin rows

-----------------------------------------------------------------------------
(* Inductive invariant.                                                    *)

BeforeInsert == {"idle", "hashed", "checking", "saving", "inserting", "discarding",
                 "deduplicated", "stranded"}

(* A request's row exists from its INSERT on, is whole while it is probed, *)
(* and cannot be deleted or probed before.                                 *)
RequestInv(u) ==
  /\ pc[u] \in BeforeInsert => u \notin rows \cup probed /\ deletion[u] = "no"
  /\ pc[u] \in {"idle", "hashed", "checking", "saving"} => stamp[u] = 0
  /\ pc[u] = "inserting" => file[u] = "whole"
  /\ pc[u] = "checking" => existing[u] \in Upload
  /\ pc[u] \in {"dropping", "hollow"} => file[u] = "none" \/ u \in leaked
  /\ pc[u] = "refused" => u \notin rows
  /\ pc[u] = "created" => u \in probed
  /\ deletion[u] \in {"dropped", "over"} => u \notin rows

(* A file without a row is about to get one, or about to be removed.       *)
FileInv(u) ==
  file[u] # "none" /\ u \notin rows \cup leaked
    => pc[u] \in {"inserting", "discarding", "lost", "stranded"} \/ deletion[u] \in {"dropped", "lost"}

(* A stored copy is passed over only once its row is gone for good.        *)
CopyInv(u) ==
  stored[u] =>
    /\ existing[u] \in Upload
    /\ pc[existing[u]] = "created"
    /\ pc[u] \notin {"idle", "hashed"}
    /\ pc[u] \in {"saving", "inserting"} \/ u \in rows => existing[u] \notin rows

StoreInv ==
  /\ \A u \in Upload : RequestInv(u) /\ FileInv(u) /\ CopyInv(u)
  /\ RowsHaveTheirBytes
=============================================================================
