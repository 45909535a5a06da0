------------------------- MODULE UploadStoreProofs -------------------------
(***************************************************************************)
(* Machine-checked proofs about UploadStore, for every finite set of       *)
(* requests.                                                               *)
(***************************************************************************)
EXTENDS UploadStore, FiniteSetTheorems, TLAPS

(* The timestamp of a row being written is one more than those taken.      *)
LEMMA StampFits ==
  ASSUME TypeOK, NEW u \in Upload, stamp[u] = 0
  PROVE  Cardinality({v \in Upload : stamp[v] > 0}) + 1 \in 0 .. Cardinality(Upload)
<1> DEFINE S == {v \in Upload : stamp[v] > 0}
<1>1. IsFiniteSet(Upload)
  BY UploadAssumption
<1>2. IsFiniteSet(Upload \ {u}) /\ Cardinality(Upload \ {u}) = Cardinality(Upload) - 1
  BY <1>1, FS_RemoveElement
<1>3. S \subseteq Upload \ {u}
  OBVIOUS
<1>4. IsFiniteSet(S) /\ Cardinality(S) <= Cardinality(Upload \ {u})
  BY <1>2, <1>3, FS_Subset
<1>5. Cardinality(S) \in Nat /\ Cardinality(Upload) \in Nat
  BY <1>1, <1>4, FS_CardinalityType
<1>6. QED
  BY <1>2, <1>4, <1>5

(* Every step keeps the types of rows, files and requests.                 *)
LEMMA StepTypeOK ==
  ASSUME TypeOK, StoreInv, [Next]_vars
  PROVE  TypeOK'
<1> USE DEF TypeOK, Goto, SetFile, RemoveFile, Running, Over
<1>1. ASSUME NEW u \in Upload, Validate(u) PROVE TypeOK'
  BY <1>1 DEF Validate
<1>2. ASSUME NEW u \in Upload, FindExisting(u) PROVE TypeOK'
  <2>1. existing' \in [Upload -> Upload \cup {NoMedia}] /\ stored' \in [Upload -> BOOLEAN]
    <3>1. CASE UNCHANGED <<existing, stored>>
      BY <3>1
    <3>2. ASSUME NEW m \in Newest,
                 existing' = [existing EXCEPT ![u] = m],
                 stored' = [stored EXCEPT ![u] = pc[m] = "created"]
          PROVE  existing' \in [Upload -> Upload \cup {NoMedia}] /\ stored' \in [Upload -> BOOLEAN]
      <4>1. m \in Upload
        BY DEF Newest
      <4>2. (pc[m] = "created") \in BOOLEAN
        OBVIOUS
      <4>3. QED
        BY <3>2, <4>1, <4>2
    <3>3. QED
      BY <1>2, <3>1, <3>2 DEF FindExisting
  <2>2. pc' \in [Upload -> {"idle"} \cup Running \cup Over]
    BY <1>2 DEF FindExisting
  <2>3. QED
    BY <1>2, <2>1, <2>2 DEF FindExisting
<1>3. ASSUME NEW u \in Upload, CheckDisk(u) PROVE TypeOK'
  BY <1>3 DEF CheckDisk
<1>4. ASSUME NEW u \in Upload, WriteFile(u) PROVE TypeOK'
  <2>1. stamp[u] = 0
    BY <1>4 DEF WriteFile, StoreInv, RequestInv
  <2>2. stamp' \in [Upload -> 0 .. Cardinality(Upload)]
    BY <1>4, <2>1, StampFits DEF WriteFile
  <2>3. QED
    BY <1>4, <2>2 DEF WriteFile
<1>5. ASSUME NEW u \in Upload, Discard(u) PROVE TypeOK'
  BY <1>5 DEF Discard
<1>6. ASSUME NEW u \in Upload, Insert(u) PROVE TypeOK'
  BY <1>6 DEF Insert
<1>7. ASSUME NEW u \in Upload, Probe(u) PROVE TypeOK'
  BY <1>7 DEF Probe
<1>8. ASSUME NEW u \in Upload, Apply(u) PROVE TypeOK'
  BY <1>8 DEF Apply
<1>9. ASSUME NEW u \in Upload, RejectFile(u) PROVE TypeOK'
  BY <1>9 DEF RejectFile
<1>10. ASSUME NEW u \in Upload, RejectRow(u) PROVE TypeOK'
  BY <1>10 DEF RejectRow
<1>11. ASSUME NEW m \in Upload, DeleteMedia(m) PROVE TypeOK'
  BY <1>11 DEF DeleteMedia, ResolveMedia, DropMedia, ReclaimMedia
<1>12. ASSUME NEW u \in Upload, CrashUpload(u) \/ CrashDeletion(u) PROVE TypeOK'
  BY <1>12 DEF CrashUpload, CrashDeletion
<1>13. ASSUME UNCHANGED vars PROVE TypeOK'
  BY <1>13 DEF vars
<1>14. QED
  BY <1>1, <1>2, <1>3, <1>4, <1>5, <1>6, <1>7, <1>8, <1>9, <1>10, <1>11, <1>12, <1>13
     DEF Next, StoreUpload

(* Requests, files and copies stay consistent, step by step.               *)
LEMMA StepStoreInv ==
  ASSUME TypeOK, StoreInv, [Next]_vars
  PROVE  StoreInv'
<1> USE DEF TypeOK, Goto, SetFile, RemoveFile, StoreInv, RequestInv, FileInv, CopyInv,
            RowsHaveTheirBytes, BeforeInsert, Running
<1>1. ASSUME NEW u \in Upload, Validate(u) PROVE StoreInv'
  BY <1>1 DEF Validate
<1>2. ASSUME NEW u \in Upload, FindExisting(u) PROVE StoreInv'
  BY <1>2 DEF FindExisting, Newest
<1>3. ASSUME NEW u \in Upload, CheckDisk(u) PROVE StoreInv'
  BY <1>3 DEF CheckDisk
<1>4. ASSUME NEW u \in Upload, WriteFile(u) PROVE StoreInv'
  BY <1>4 DEF WriteFile
<1>5. ASSUME NEW u \in Upload, Discard(u) PROVE StoreInv'
  BY <1>5 DEF Discard
<1>6. ASSUME NEW u \in Upload, Insert(u) PROVE StoreInv'
  BY <1>6 DEF Insert
<1>7. ASSUME NEW u \in Upload, Probe(u) PROVE StoreInv'
  BY <1>7 DEF Probe
<1>8. ASSUME NEW u \in Upload, Apply(u) PROVE StoreInv'
  BY <1>8 DEF Apply
<1>9. ASSUME NEW u \in Upload, RejectFile(u) PROVE StoreInv'
  BY <1>9 DEF RejectFile
<1>10. ASSUME NEW u \in Upload, RejectRow(u) PROVE StoreInv'
  BY <1>10 DEF RejectRow
<1>11. ASSUME NEW m \in Upload, ResolveMedia(m) PROVE StoreInv'
  BY <1>11 DEF ResolveMedia
<1>12. ASSUME NEW m \in Upload, DropMedia(m) PROVE StoreInv'
  BY <1>12 DEF DropMedia
<1>13. ASSUME NEW m \in Upload, ReclaimMedia(m) PROVE StoreInv'
  BY <1>13 DEF ReclaimMedia
<1>14. ASSUME NEW u \in Upload, CrashUpload(u) PROVE StoreInv'
  BY <1>14 DEF CrashUpload
<1>15. ASSUME NEW m \in Upload, CrashDeletion(m) PROVE StoreInv'
  BY <1>15 DEF CrashDeletion
<1>16. ASSUME UNCHANGED vars PROVE StoreInv'
  BY <1>16 DEF vars
<1>17. QED
  BY <1>1, <1>2, <1>3, <1>4, <1>5, <1>6, <1>7, <1>8, <1>9, <1>10, <1>11, <1>12, <1>13, <1>14,
     <1>15, <1>16 DEF Next, StoreUpload, DeleteMedia

(* Types and the store's invariant together are inductive.                 *)
LEMMA InvariantsHold == Spec => [](TypeOK /\ StoreInv)
<1>1. Init => TypeOK /\ StoreInv
  <2> SUFFICES ASSUME Init PROVE TypeOK /\ StoreInv
    OBVIOUS
  <2>1. Cardinality(Upload) \in Nat
    BY UploadAssumption, FS_CardinalityType
  <2>2. TypeOK
    BY <2>1 DEF Init, TypeOK
  <2>3. StoreInv
    BY DEF Init, StoreInv, RequestInv, FileInv, CopyInv, RowsHaveTheirBytes, BeforeInsert
  <2>4. QED
    BY <2>2, <2>3
<1>2. TypeOK /\ StoreInv /\ [Next]_vars => (TypeOK /\ StoreInv)'
  BY StepTypeOK, StepStoreInv
<1>3. QED
  BY <1>1, <1>2, PTL DEF Spec

-----------------------------------------------------------------------------
(* Uploads are well typed.                                                 *)
THEOREM StoreWellTyped == Spec => []TypeOK
BY InvariantsHold, PTL

(* A row's bytes are completely on disk, except under its own clean-up.    *)
THEOREM RowsAreWhole == Spec => []RowsHaveTheirBytes
<1>1. StoreInv => RowsHaveTheirBytes
  BY DEF StoreInv
<1>2. QED
  BY <1>1, InvariantsHold, PTL

(* Every way a request or a delete can end removes the file with the row,  *)
(* unless a crash, a failed removal or the INSERT's failure comes between. *)
THEOREM FilesHaveRows == Spec => []NoStrayFile
<1>1. TypeOK /\ StoreInv => NoStrayFile
  BY DEF TypeOK, StoreInv, FileInv, NoStrayFile, Idle, Running
<1>2. QED
  BY <1>1, InvariantsHold, PTL

(* A rejected upload leaves no row behind.                                 *)
THEOREM RowsAreProbed == Spec => []NoUnprobedRow
<1>1. TypeOK /\ StoreInv => NoUnprobedRow
  BY DEF TypeOK, StoreInv, RequestInv, BeforeInsert, NoUnprobedRow, Idle, Running, Over
<1>2. QED
  BY <1>1, InvariantsHold, PTL

(* Deduplication never misses a stored copy that lives on.                 *)
THEOREM CopiesAreFound == Spec => []NoSecondCopy
<1>1. TypeOK /\ StoreInv => NoSecondCopy
  BY DEF TypeOK, StoreInv, CopyInv, NoSecondCopy
<1>2. QED
  BY <1>1, InvariantsHold, PTL
=============================================================================
