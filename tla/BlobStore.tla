----------------------------- MODULE BlobStore -----------------------------
(***************************************************************************)
(* The adverts of contacts kept on flash, to share and export a contact    *)
(* (src/DataStore.cpp: getBlobByKey, putBlobByKey, deleteBlobByKey): one   *)
(* file each on the ESP32, or one file of a fixed number of records on the *)
(* nRF52 and STM32, where the oldest record gives way and nothing is ever  *)
(* deleted.  Keys are told apart by their first bytes, which are distinct  *)
(* here.  A blob is the number of the put it stems from.                   *)
(***************************************************************************)
EXTENDS Naturals, Sequences

CONSTANTS
  BlobKeys,      \* public keys
  NoBlob,        \* no blob, no file
  MAX_BLOBRECS,  \* records of the file
  MaxBlobTime,   \* bound: the last second of the clock
  MaxPuts        \* bound: puts in one behaviour

ASSUME BlobStoreAssumption ==
  /\ NoBlob \notin BlobKeys
  /\ MAX_BLOBRECS \in Nat \ {0} /\ MaxBlobTime \in Nat \ {0}
  /\ MaxPuts \in Nat

VARIABLES
  fixedFile,  \* the platform keeps records in "/adv_blobs"
  blobFiles,  \* "/bl/<key>", otherwise
  adv_blobs,  \* the records, [timestamp, key, blob]
  blobTime,   \* the real-time clock
  puts,       \* history: puts so far
  newest,     \* history: the blob of a key that was put last and not
              \* deleted, and when, [blob, at]
  torn        \* history: keys whose blob was cut by a write that failed

blobVars == <<fixedFile, blobFiles, adv_blobs, blobTime, puts, newest, torn>>

Records == 1..MAX_BLOBRECS

-----------------------------------------------------------------------------
\* One file of records.

RecordsOf(key) == {i \in Records : adv_blobs[i].key = key}

\* The key's record, or the first of the oldest.
RecordFor(key) ==
  IF RecordsOf(key) # {}
  THEN CHOOSE i \in RecordsOf(key) : \A j \in RecordsOf(key) : i <= j
  ELSE CHOOSE i \in Records : \A j \in Records :
         adv_blobs[i].timestamp <= adv_blobs[j].timestamp
           /\ (adv_blobs[i].timestamp = adv_blobs[j].timestamp => i <= j)

\* The result of the write is not looked at: a record that was cut counts as
\* put.
PutRecord(key) ==
  /\ \/ newest' = [newest EXCEPT ![key] = [blob |-> puts + 1, at |-> blobTime]]
        /\ torn' = torn \ {key}
     \/ newest' = newest /\ torn' = torn \union {key}
  /\ adv_blobs' = [adv_blobs EXCEPT ![RecordFor(key)] =
       [timestamp |-> blobTime, key |-> key, blob |-> puts + 1]]
  /\ UNCHANGED blobFiles

GetRecord(key) ==
  IF RecordsOf(key) = {} THEN NoBlob ELSE adv_blobs[RecordFor(key)].blob

-----------------------------------------------------------------------------
\* A file for each key.

\* Variant: a file written in part is left.
PutFileKept(key) ==
  /\ blobFiles' = [blobFiles EXCEPT ![key] = puts + 1]
  /\ \/ newest' = [newest EXCEPT ![key] = [blob |-> puts + 1, at |-> blobTime]]
     \/ newest' = newest
  /\ UNCHANGED <<adv_blobs, torn>>

\* The file is emptied and written; if that fails it is removed.  Power that
\* fails in between leaves a part.
PutFile(key) ==
  /\ \/ /\ blobFiles' = [blobFiles EXCEPT ![key] = puts + 1]
        /\ newest' = [newest EXCEPT ![key] = [blob |-> puts + 1, at |-> blobTime]]
        /\ torn' = torn \ {key}
     \/ /\ blobFiles' = [blobFiles EXCEPT ![key] = NoBlob]
        /\ torn' = torn \ {key}
        /\ UNCHANGED newest
     \/ /\ blobFiles' = [blobFiles EXCEPT ![key] = puts + 1]
        /\ torn' = torn \union {key}
        /\ UNCHANGED newest
  /\ UNCHANGED adv_blobs

-----------------------------------------------------------------------------

\* A valid advert of the key; a file that does not open leaves all as it is.
putBlobByKey(key) ==
  /\ puts < MaxPuts
  /\ puts' = puts + 1
  /\ IF fixedFile THEN PutRecord(key) ELSE PutFile(key)
  /\ UNCHANGED <<fixedFile, blobTime>>

getBlobByKey(key) == IF fixedFile THEN GetRecord(key) ELSE blobFiles[key]

\* The contact was removed or overwritten; a stub where records are kept.
deleteBlobByKey(key) ==
  /\ ~fixedFile /\ blobFiles[key] # NoBlob
  /\ blobFiles' = [blobFiles EXCEPT ![key] = NoBlob]
  /\ newest' = [newest EXCEPT ![key] = [blob |-> NoBlob, at |-> 0]]
  /\ torn' = torn \ {key}
  /\ UNCHANGED <<fixedFile, adv_blobs, blobTime, puts>>

BlobTick ==
  /\ blobTime < MaxBlobTime
  /\ blobTime' = blobTime + 1
  /\ UNCHANGED <<fixedFile, blobFiles, adv_blobs, puts, newest, torn>>

\* checkAdvBlobFile makes records that hold the time 0 and no key.
BlobInit ==
  /\ fixedFile \in BOOLEAN
  /\ blobFiles = [k \in BlobKeys |-> NoBlob]
  /\ adv_blobs = [i \in Records |->
       [timestamp |-> 0, key |-> NoBlob, blob |-> NoBlob]]
  /\ blobTime = 1 /\ puts = 0
  /\ newest = [k \in BlobKeys |-> [blob |-> NoBlob, at |-> 0]]
  /\ torn = {}

BlobNext ==
  \/ \E key \in BlobKeys : putBlobByKey(key) \/ deleteBlobByKey(key)
  \/ BlobTick

-----------------------------------------------------------------------------
\* Properties.

BlobTypesOK ==
  /\ blobFiles \in [BlobKeys -> 1..MaxPuts \union {NoBlob}]
  /\ adv_blobs \in [Records -> [timestamp : 0..MaxBlobTime,
                                key : BlobKeys \union {NoBlob},
                                blob : 1..MaxPuts \union {NoBlob}]]
  /\ torn \subseteq BlobKeys

(* Whatever is read for a key is the advert stored last for it, or nothing,
   unless its write was cut; and where records give way to newer ones, a key
   without a record was not stored after any that has one. *)
BlobNewest ==
  \A k \in BlobKeys \ torn :
    /\ getBlobByKey(k) \in {NoBlob, newest[k].blob}
    /\ fixedFile /\ RecordsOf(k) = {} =>
         \A i \in Records : newest[k].at <= adv_blobs[i].timestamp

=============================================================================
