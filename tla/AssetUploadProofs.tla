------------------------- MODULE AssetUploadProofs --------------------------
(***************************************************************************)
(* Proofs about AssetUpload for every number of processes, files,          *)
(* contents, accounts and ids.                                             *)
(***************************************************************************)
EXTENDS AssetUpload, TLAPS

-----------------------------------------------------------------------------
(* Lemmas about the manifest.                                              *)

(* Processes that upload nothing point somewhere.                          *)
LEMMA NowhereType == NoFile \in Files /\ NoKey \in Key /\ EmptyManifest \in Manifest
  <1>1. NoFile \in Files
    BY UploadAssumption DEF NoFile
  <1>2. PICK a \in Accounts, c \in Contents : TRUE
    BY UploadAssumption
  <1>3. [account |-> a, content |-> c] \in Key
    BY <1>2 DEF Key
  <1>4. NoKey \in Key
    BY <1>3 DEF NoKey
  <1>5. EmptyManifest \in Manifest
    BY DEF EmptyManifest, Manifest
  <1>6. QED
    BY <1>1, <1>4, <1>5

(* Adding a record fills its entry and leaves the others alone; an entry   *)
(* that is there wins.                                                     *)
LEMMA PutFills ==
    ASSUME NEW m \in Manifest, NEW k \in Key, NEW id \in RemoteIds
    PROVE  /\ Put(m, k, id) \in Manifest
           /\ Put(m, k, id)[k] # NoId
           /\ \A j \in Key : m[j] # NoId => Put(m, k, id)[j] = m[j]
           /\ \A j \in Key : j # k => Put(m, k, id)[j] = m[j]
           /\ m[k] = NoId => Put(m, k, id)[k] = id
  BY UploadAssumption DEF Put, Manifest

-----------------------------------------------------------------------------
(* Type correctness.  That only real ids are returned needs to know where  *)
(* a process has got one.                                                  *)
HasId ==
    \A p \in Processes :
        /\ pc[p] \in Unfiled => mine[p] # NoId
        /\ pc[p] \in {"saved", "waiting"} => copy[p][key[p]] # NoId

TypeInv == TypeOK /\ HasId

LEMMA InitTypeInv == Init => TypeInv
  BY NowhereType, UploadAssumption DEF Init, TypeInv, TypeOK, HasId, Unfiled, EmptyManifest

LEMMA EnvironmentTypeInv ==
    ASSUME TypeInv, Environment
    PROVE  TypeInv'
  <1> USE DEF TypeInv, TypeOK, HasId, process, history, locks, storage, meta
  <1>1. ASSUME NEW id \in RemoteIds, Transcode(id)
        PROVE  TypeInv'
    BY <1>1 DEF Transcode
  <1>2. ASSUME NEW f \in Files, RewriteFile(f)
        PROVE  TypeInv'
    BY <1>2 DEF RewriteFile
  <1>3. CASE DamageManifest
    BY <1>3 DEF DamageManifest
  <1>4. CASE RepairManifest
    BY <1>4 DEF RepairManifest
  <1>5. QED
    BY <1>1, <1>2, <1>3, <1>4 DEF Environment

(* A process that leaves.                                                  *)
LEMMA RestTypeInv ==
    ASSUME TypeInv, NEW p \in Processes, Rest(p)
    PROVE  /\ pc' \in [Processes -> {"idle", "claiming", "claimed", "creating", "created",
                                    "filing", "loaded", "saved", "waiting"}]
           /\ file' \in [Processes -> Files]
           /\ key' \in [Processes -> Key]
           /\ mine' \in [Processes -> RemoteIds \cup {NoId}]
           /\ copy' \in [Processes -> Manifest]
           /\ HasId'
  BY NowhereType DEF Rest, TypeInv, TypeOK, HasId, Unfiled

LEMMA ReleaseType ==
    ASSUME TypeInv, NEW p \in Processes, ReleaseLocks(p)
    PROVE  claim' \in [Key -> Processes \cup {Free}] /\ manifestLock' \in Processes \cup {Free}
  BY DEF ReleaseLocks, TypeInv, TypeOK

LEMMA StopTypeInv ==
    ASSUME TypeInv, NEW p \in Processes, Stop(p)
    PROVE  TypeInv'
  <1>1. unfiled' \in SUBSET RemoteIds
    BY DEF Stop, TypeInv, TypeOK, HasId
  <1>2. QED
    BY <1>1, RestTypeInv, ReleaseType DEF Stop, TypeInv, TypeOK, meta, storage

(* Up to the answer from Meta.                                             *)
LEMMA RequestTypeInv ==
    ASSUME TypeInv, NEW p \in Processes,
           Probe(p) \/ Claim(p) \/ LookupMisses(p) \/ Reuse(p)
    PROVE  TypeInv'
  <1> USE DEF TypeInv, TypeOK, HasId, Unfiled, history, locks, storage, meta
  <1>1. CASE Probe(p)
    <2>1. PICK f \in Files, a \in Accounts :
              key' = [key EXCEPT ![p] = [account |-> a, content |-> content[f]]]
      BY <1>1 DEF Probe
    <2>2. [account |-> a, content |-> content[f]] \in Key
      BY DEF Key
    <2>3. key' \in [Processes -> Key]
      BY <2>1, <2>2
    <2>4. file' \in [Processes -> Files]
      BY <1>1 DEF Probe
    <2>5. pc' = [pc EXCEPT ![p] = "claiming"]
      BY <1>1 DEF Probe
    <2>6. HasId'
      BY <1>1, <2>1, <2>5 DEF Probe
    <2>7. QED
      BY <1>1, <2>3, <2>4, <2>5, <2>6 DEF Probe
  <1>2. CASE Claim(p)
    <2>1. claim' \in [Key -> Processes \cup {Free}]
      BY <1>2 DEF Claim
    <2>2. HasId'
      BY <1>2 DEF Claim
    <2>3. QED
      BY <1>2, <2>1, <2>2 DEF Claim
  <1>3. CASE LookupMisses(p)
    BY <1>3 DEF LookupMisses
  <1>4. CASE Reuse(p)
    <2>1. manifest[key[p]] \in RemoteIds
      BY <1>4 DEF Reuse, Known, Manifest
    <2>2. [key |-> key[p], id |-> manifest[key[p]]] \in [key : Key, id : RemoteIds]
      BY <2>1
    <2>3. results' \in SUBSET [key : Key, id : RemoteIds] /\ handed' \in SUBSET RemoteIds
      BY <1>4, <2>1, <2>2 DEF Reuse, Return
    <2>4. QED
      BY <1>4, <2>3, RestTypeInv, ReleaseType DEF Reuse
  <1>5. QED
    BY <1>1, <1>2, <1>3, <1>4

(* The answer, or its loss.                                                *)
LEMMA AnswerTypeInv ==
    ASSUME TypeInv, NEW p \in Processes, RemoteCreate(p) \/ AnswerLost(p)
    PROVE  TypeInv'
  <1>1. PICK id \in RemoteIds \ UsedIds :
            /\ CreateOnMeta(p, id)
            /\ RemoteCreate(p) => mine' = [mine EXCEPT ![p] = id]
            /\ ~RemoteCreate(p) => unfiled' = unfiled \cup {id}
    BY DEF RemoteCreate, AnswerLost
  <1>2. NewUpload(p, id) \in Upload
    BY DEF NewUpload, Upload, TypeInv, TypeOK
  <1>3. /\ uploads' \in SUBSET Upload
        /\ processing' \in SUBSET RemoteIds
        /\ failed' \in SUBSET RemoteIds
    BY <1>1, <1>2 DEF CreateOnMeta, TypeInv, TypeOK
  <1>4. CASE RemoteCreate(p)
    <2>1. mine' = [mine EXCEPT ![p] = id] /\ id # NoId
      BY <1>1, <1>4, UploadAssumption
    <2>2. HasId'
      BY <1>4, <2>1 DEF RemoteCreate, HasId, TypeInv, TypeOK, Unfiled
    <2>3. QED
      BY <1>3, <1>4, <2>1, <2>2
      DEF RemoteCreate, TypeInv, TypeOK, storage, locks, history
  <1>5. CASE ~RemoteCreate(p)
    <2>1. AnswerLost(p)
      BY <1>5
    <2>2. unfiled' \in SUBSET RemoteIds
      BY <1>1, <1>5 DEF TypeInv, TypeOK
    <2>3. QED
      BY <1>3, <2>1, <2>2, RestTypeInv, ReleaseType
      DEF AnswerLost, TypeInv, TypeOK, storage
  <1>6. QED
    BY <1>4, <1>5

(* AssetStore.remember.                                                    *)
LEMMA RememberTypeInv ==
    ASSUME TypeInv, NEW p \in Processes, Remember(p)
    PROVE  TypeInv'
  <1> USE DEF TypeInv, TypeOK, HasId, Unfiled, history, locks, storage, meta
  <1>1. CASE LockManifest(p)
    BY <1>1 DEF LockManifest
  <1>2. CASE LoadManifest(p)
    BY <1>2 DEF LoadManifest
  <1>3. CASE SaveManifest(p)
    <2>1. mine[p] \in RemoteIds /\ copy[p] \in Manifest /\ key[p] \in Key
      BY <1>3 DEF SaveManifest
    <2>2. manifest' \in Manifest /\ manifest'[key[p]] # NoId
      BY <1>3, <2>1, PutFills DEF SaveManifest
    <2> DEFINE kept == [EmptyManifest EXCEPT ![key[p]] = manifest'[key[p]]]
    <2>3. kept \in Manifest /\ kept[key[p]] # NoId
      BY <2>1, <2>2, NowhereType DEF Manifest
    <2>4. copy' = [copy EXCEPT ![p] = kept] /\ pc' = [pc EXCEPT ![p] = "saved"] /\ key' = key
      BY <1>3 DEF SaveManifest
    <2> HIDE DEF kept
    <2>5. copy' \in [Processes -> Manifest]
      BY <2>3, <2>4
    <2>6. HasId'
      BY <1>3, <2>3, <2>4 DEF SaveManifest
    <2>7. QED
      BY <1>3, <2>2, <2>4, <2>5, <2>6 DEF SaveManifest
  <1>4. CASE ManifestTimeout(p) \/ LoadFails(p) \/ SaveFails(p)
    BY <1>4, StopTypeInv DEF ManifestTimeout, LoadFails, SaveFails
  <1>5. QED
    BY <1>1, <1>2, <1>3, <1>4 DEF Remember

(* After the record is stored.                                             *)
LEMMA ReturnTypeInv ==
    ASSUME TypeInv, NEW p \in Processes, Finish(p) \/ StartWaiting(p) \/ PollReady(p)
    PROVE  TypeInv'
  <1>1. copy[p][key[p]] \in RemoteIds
    BY DEF Finish, StartWaiting, PollReady, TypeInv, TypeOK, HasId, Manifest
  <1>2. [key |-> key[p], id |-> copy[p][key[p]]] \in [key : Key, id : RemoteIds]
    BY <1>1 DEF TypeInv, TypeOK
  <1>3. CASE Finish(p)
    <2>1. results' \in SUBSET [key : Key, id : RemoteIds]
      BY <1>2, <1>3 DEF Finish, Return, TypeInv, TypeOK
    <2>2. QED
      BY <1>3, <2>1, RestTypeInv, ReleaseType DEF Finish, TypeInv, TypeOK, meta, storage
  <1>4. CASE StartWaiting(p)
    <2>1. HasId'
      BY <1>4 DEF StartWaiting, TypeInv, TypeOK, HasId, Unfiled
    <2>2. QED
      BY <1>4, <2>1, ReleaseType DEF StartWaiting, TypeInv, TypeOK, meta, storage, history
  <1>5. CASE PollReady(p)
    <2>1. /\ results' \in SUBSET [key : Key, id : RemoteIds]
          /\ handed' \in SUBSET RemoteIds
      BY <1>1, <1>2, <1>5 DEF PollReady, Return, TypeInv, TypeOK
    <2>2. QED
      BY <1>5, <2>1, RestTypeInv DEF PollReady, TypeInv, TypeOK, meta, storage, locks
  <1>6. QED
    BY <1>3, <1>4, <1>5

(* Every call of an upload that ends it without a result.                  *)
LEMMA StopsAreStops ==
    ASSUME NEW p \in Processes,
           \/ ClaimTimeout(p) \/ LookupStops(p) \/ RemoteCreateFails(p)
           \/ PollFails(p) \/ Crash(p)
    PROVE  Stop(p)
  BY DEF ClaimTimeout, LookupStops, RemoteCreateFails, PollFails, Crash

LEMMA NextTypeInv == TypeInv /\ [Next]_vars => TypeInv'
  <1> SUFFICES ASSUME TypeInv, [Next]_vars
               PROVE  TypeInv'
    OBVIOUS
  <1>1. CASE Environment
    BY <1>1, EnvironmentTypeInv
  <1>2. ASSUME NEW p \in Processes, Probe(p) \/ Continue(p) \/ Crash(p)
        PROVE  TypeInv'
    BY <1>2, StopsAreStops, StopTypeInv, RequestTypeInv, AnswerTypeInv, RememberTypeInv, ReturnTypeInv
    DEF Continue
  <1>3. CASE UNCHANGED vars
    BY <1>3 DEF vars, meta, storage, locks, process, history, TypeInv, TypeOK, HasId
  <1>4. QED
    BY <1>1, <1>2, <1>3 DEF Next

(* Every variable of the upload path has its type, for any number of       *)
(* processes uploading any files to any accounts (api/media.py,            *)
(* state/assets.py).                                                       *)
THEOREM TypeCorrect == Spec => []TypeOK
  <1>1. Spec => []TypeInv
    BY InitTypeInv, NextTypeInv, PTL DEF Spec
  <1>2. TypeInv => TypeOK
    BY DEF TypeInv
  <1>3. QED
    BY <1>1, <1>2, PTL

-----------------------------------------------------------------------------
(* The invariant behind the safety properties, when the locks work.        *)

LEMMA UploadInvInit == Init => UploadInv
  BY DEF Init, UploadInv, HoldsClaim, HoldsManifest, CopyIsCurrent, NotFiledYet, StoredIsFiled,
         EveryUploadIsKnown, MineIsUploaded, UniqueIds, ResultsAreOnFile, InClaim, Unfiled

LEMMA UploadInvUnchanged ==
    ASSUME UploadInv, UNCHANGED <<uploads, manifest, claim, manifestLock, process, unfiled, results>>
    PROVE  UploadInv'
  BY DEF process, UploadInv, HoldsClaim, HoldsManifest, CopyIsCurrent, NotFiledYet, StoredIsFiled,
         EveryUploadIsKnown, MineIsUploaded, UniqueIds, ResultsAreOnFile, InFlight

(* A process that leaves takes nothing from those that stay.               *)
LEMMA OthersStay ==
    ASSUME TypeInv, UploadInv, NEW p \in Processes, Rest(p),
           ReleaseLocks(p) \/ UNCHANGED locks,
           manifest' = manifest, uploads \subseteq uploads'
    PROVE  /\ HoldsClaim'
           /\ HoldsManifest'
           /\ CopyIsCurrent'
           /\ NotFiledYet'
           /\ StoredIsFiled'
           /\ MineIsUploaded'
           /\ \A u \in uploads :
                 InFlight(u) => InFlight(u)' \/ (pc[p] \in Unfiled /\ u.id = mine[p])
  <1>1. \A q \in Processes :
            /\ q = p => pc'[q] = "idle"
            /\ q # p => /\ pc'[q] = pc[q]
                       /\ key'[q] = key[q]
                       /\ mine'[q] = mine[q]
                       /\ copy'[q] = copy[q]
    BY DEF Rest, TypeInv, TypeOK
  <1>2. HoldsClaim' /\ HoldsManifest'
    <2>1. \A k \in Key : claim[k] # p => claim'[k] = claim[k]
      BY DEF ReleaseLocks, locks
    <2>2. manifestLock # p => manifestLock' = manifestLock
      BY DEF ReleaseLocks, locks
    <2>3. QED
      BY <1>1, <2>1, <2>2
      DEF UploadInv, HoldsClaim, HoldsManifest, InClaim, TypeInv, TypeOK
  <1>3. CopyIsCurrent' /\ NotFiledYet' /\ StoredIsFiled'
    BY <1>1 DEF UploadInv, CopyIsCurrent, NotFiledYet, StoredIsFiled
  <1>4. MineIsUploaded'
    BY <1>1 DEF UploadInv, MineIsUploaded, Unfiled
  <1>5. \A u \in uploads :
            InFlight(u) => InFlight(u)' \/ (pc[p] \in Unfiled /\ u.id = mine[p])
    BY <1>1 DEF InFlight
  <1>6. QED
    BY <1>2, <1>3, <1>4, <1>5

LEMMA UploadInvStop ==
    ASSUME TypeInv, UploadInv, NEW p \in Processes, Stop(p)
    PROVE  UploadInv'
  <1>1. /\ Rest(p) /\ ReleaseLocks(p)
        /\ manifest' = manifest /\ uploads' = uploads /\ results' = results
        /\ unfiled \subseteq unfiled'
        /\ pc[p] \in Unfiled => mine[p] \in unfiled'
    BY DEF Stop, meta, storage
  <1>2. EveryUploadIsKnown'
    BY <1>1, OthersStay DEF UploadInv, EveryUploadIsKnown
  <1>3. QED
    BY <1>1, <1>2, OthersStay DEF UploadInv, UniqueIds, ResultsAreOnFile

LEMMA UploadInvReturn ==
    ASSUME TypeInv, UploadInv, NEW p \in Processes, Reuse(p) \/ Finish(p) \/ PollReady(p)
    PROVE  UploadInv'
  <1>1. /\ Rest(p) /\ (ReleaseLocks(p) \/ UNCHANGED locks)
        /\ manifest' = manifest /\ uploads' = uploads /\ unfiled' = unfiled
        /\ pc[p] \in {"claimed", "saved", "waiting"}
        /\ pc[p] = "claimed" => Return(p, manifest[key[p]])
        /\ pc[p] # "claimed" => Return(p, copy[p][key[p]])
    BY DEF Reuse, Finish, PollReady, meta, storage
  <1>2. ResultsAreOnFile'
    <2>1. \A r \in results' : r \in results \/ r = [key |-> key[p], id |-> manifest[key[p]]]
      BY <1>1 DEF Return, UploadInv, StoredIsFiled
    <2>2. QED
      BY <1>1, <2>1 DEF UploadInv, ResultsAreOnFile
  <1>3. EveryUploadIsKnown'
    BY <1>1, OthersStay DEF UploadInv, EveryUploadIsKnown, Unfiled
  <1>4. QED
    BY <1>1, <1>2, <1>3, OthersStay DEF UploadInv, UniqueIds

(* A process moves on within its upload, and nothing else changes but the  *)
(* locks it takes or, once its record is stored, releases.                 *)
LEMMA UploadInvMoves ==
    ASSUME TypeInv, UploadInv, LockWorks, NEW p \in Processes,
           \/ Probe(p) \/ Claim(p) \/ LookupMisses(p) \/ LockManifest(p)
           \/ LoadManifest(p) \/ StartWaiting(p)
    PROVE  UploadInv'
  <1>1. /\ manifest' = manifest /\ uploads' = uploads
        /\ unfiled' = unfiled /\ results' = results /\ mine' = mine
    BY DEF Probe, Claim, LookupMisses, LockManifest, LoadManifest, StartWaiting,
           meta, storage, history
  <1>2. \A q \in Processes \ {p} : pc'[q] = pc[q] /\ key'[q] = key[q] /\ copy'[q] = copy[q]
    BY DEF Probe, Claim, LookupMisses, LockManifest, LoadManifest, StartWaiting, TypeInv, TypeOK
  <1>3. HoldsClaim'
    BY <1>2, UploadAssumption
    DEF Probe, Claim, LookupMisses, LockManifest, LoadManifest, StartWaiting, MayLock,
        ReleaseLocks, locks, UploadInv, HoldsClaim, InClaim, TypeInv, TypeOK
  <1>4. HoldsManifest'
    BY <1>2, UploadAssumption
    DEF Probe, Claim, LookupMisses, LockManifest, LoadManifest, StartWaiting, MayLock,
        ReleaseLocks, locks, UploadInv, HoldsManifest, TypeInv, TypeOK
  <1>5. CopyIsCurrent'
    BY <1>1, <1>2
    DEF Probe, Claim, LookupMisses, LockManifest, LoadManifest, StartWaiting,
        UploadInv, CopyIsCurrent, TypeInv, TypeOK
  <1>6. NotFiledYet'
    BY <1>1, <1>2
    DEF Probe, Claim, LookupMisses, LockManifest, LoadManifest, StartWaiting, Known,
        UploadInv, NotFiledYet, TypeInv, TypeOK
  <1>7. StoredIsFiled'
    BY <1>1, <1>2
    DEF Probe, Claim, LookupMisses, LockManifest, LoadManifest, StartWaiting,
        UploadInv, StoredIsFiled, TypeInv, TypeOK
  <1>8. pc[p] \in Unfiled => pc'[p] \in Unfiled /\ key'[p] = key[p]
    BY DEF Probe, Claim, LookupMisses, LockManifest, LoadManifest, StartWaiting,
           Unfiled, TypeInv, TypeOK
  <1>9. pc'[p] \in Unfiled => pc[p] \in Unfiled /\ key'[p] = key[p]
    BY DEF Probe, Claim, LookupMisses, LockManifest, LoadManifest, StartWaiting,
           Unfiled, TypeInv, TypeOK
  <1>10. EveryUploadIsKnown'
    BY <1>1, <1>2, <1>8 DEF UploadInv, EveryUploadIsKnown, InFlight
  <1>11. MineIsUploaded'
    BY <1>1, <1>2, <1>9 DEF UploadInv, MineIsUploaded
  <1>12. QED
    BY <1>1, <1>3, <1>4, <1>5, <1>6, <1>7, <1>10, <1>11 DEF UploadInv, UniqueIds, ResultsAreOnFile

(* Meta makes an object: no other has its id.                              *)
LEMMA UploadInvAnswer ==
    ASSUME TypeInv, UploadInv, NEW p \in Processes, RemoteCreate(p) \/ AnswerLost(p)
    PROVE  UploadInv'
  <1>1. PICK id \in RemoteIds \ UsedIds :
            /\ uploads' = uploads \cup {NewUpload(p, id)}
            /\ RemoteCreate(p) => mine' = [mine EXCEPT ![p] = id]
            /\ ~RemoteCreate(p) => unfiled' = unfiled \cup {id}
    BY DEF RemoteCreate, AnswerLost, CreateOnMeta
  <1>2. PICK new : /\ uploads' = uploads \cup {new}
                   /\ new.id = id /\ new.key = key[p]
                   /\ \A u \in uploads : u.id # id
    <2>1. NewUpload(p, id).id = id /\ NewUpload(p, id).key = key[p]
      BY DEF NewUpload
    <2>2. \A u \in uploads : u.id # id
      BY DEF UsedIds
    <2>3. QED
      BY <1>1, <2>1, <2>2
  <1>3. UniqueIds'
    BY <1>1, <1>2 DEF UploadInv, UniqueIds
  <1>4. CASE RemoteCreate(p)
    <2>1. /\ UNCHANGED <<manifest, claim, manifestLock, key, copy, unfiled, results>>
          /\ pc[p] = "creating"
          /\ pc' = [pc EXCEPT ![p] = "created"]
          /\ mine' = [mine EXCEPT ![p] = id]
      BY <1>1, <1>4 DEF RemoteCreate, storage, locks, history
    <2>2. /\ pc'[p] = "created" /\ mine'[p] = id
          /\ \A q \in Processes \ {p} : pc'[q] = pc[q] /\ mine'[q] = mine[q]
      BY <2>1 DEF TypeInv, TypeOK
    <2>3. HoldsClaim' /\ HoldsManifest'
      BY <2>1, <2>2 DEF UploadInv, HoldsClaim, HoldsManifest, InClaim
    <2>4. CopyIsCurrent' /\ NotFiledYet' /\ StoredIsFiled'
      BY <2>1, <2>2 DEF UploadInv, CopyIsCurrent, NotFiledYet, StoredIsFiled
    <2>5. InFlight(new)'
      BY <1>2, <2>1, <2>2 DEF InFlight, Unfiled
    <2>6. EveryUploadIsKnown'
      <3>1. \A u \in uploads : InFlight(u) => InFlight(u)'
        BY <2>1, <2>2 DEF InFlight, Unfiled
      <3>2. QED
        BY <1>2, <2>1, <2>5, <3>1 DEF UploadInv, EveryUploadIsKnown
    <2>7. MineIsUploaded'
      BY <1>1, <1>2, <2>1, <2>2 DEF UploadInv, MineIsUploaded
    <2>8. QED
      BY <1>3, <2>1, <2>3, <2>4, <2>6, <2>7 DEF UploadInv, ResultsAreOnFile
  <1>5. CASE ~RemoteCreate(p)
    <2>1. /\ Rest(p) /\ ReleaseLocks(p)
          /\ manifest' = manifest /\ results' = results
          /\ pc[p] = "creating"
          /\ unfiled' = unfiled \cup {id}
      BY <1>1, <1>5 DEF AnswerLost, storage
    <2>2. uploads \subseteq uploads'
      BY <1>1
    <2>3. EveryUploadIsKnown'
      BY <1>1, <1>2, <2>1, <2>2, OthersStay DEF UploadInv, EveryUploadIsKnown, Unfiled
    <2>4. QED
      BY <1>3, <2>1, <2>2, <2>3, OthersStay DEF UploadInv, ResultsAreOnFile
  <1>6. QED
    BY <1>4, <1>5

(* The record is stored: its holder alone has the manifest in hand, and    *)
(* nobody else is at work on the same key.                                 *)
LEMMA SaveFillsOneEntry ==
    ASSUME TypeInv, UploadInv, NEW p \in Processes, SaveManifest(p)
    PROVE  /\ manifest[key[p]] = NoId
           /\ manifest'[key[p]] = mine[p]
           /\ \A k \in Key : k # key[p] => manifest'[k] = manifest[k]
           /\ copy'[p][key[p]] = mine[p]
  <1>1. /\ pc[p] = "loaded"
        /\ copy[p] = manifest /\ manifest[key[p]] = NoId
        /\ manifest' = Put(manifest, key[p], mine[p])
    BY DEF SaveManifest, UploadInv, CopyIsCurrent, NotFiledYet
  <1>2. manifest \in Manifest /\ key[p] \in Key /\ mine[p] \in RemoteIds
    BY <1>1 DEF TypeInv, TypeOK, HasId, Unfiled
  <1>3. /\ manifest'[key[p]] = mine[p]
        /\ \A k \in Key : k # key[p] => manifest'[k] = manifest[k]
    BY <1>1, <1>2, PutFills
  <1> DEFINE kept == [EmptyManifest EXCEPT ![key[p]] = manifest'[key[p]]]
  <1>4. kept[key[p]] = mine[p]
    BY <1>2, <1>3 DEF EmptyManifest
  <1>5. copy' = [copy EXCEPT ![p] = kept]
    BY DEF SaveManifest
  <1> HIDE DEF kept
  <1>6. copy'[p] = kept
    BY <1>5 DEF TypeInv, TypeOK
  <1>7. QED
    BY <1>1, <1>3, <1>4, <1>6

LEMMA UploadInvSave ==
    ASSUME TypeInv, UploadInv, NEW p \in Processes, SaveManifest(p)
    PROVE  UploadInv'
  <1>1. /\ UNCHANGED <<uploads, claim, manifestLock, key, mine, unfiled, results>>
        /\ pc[p] = "loaded" /\ pc'[p] = "saved"
        /\ \A q \in Processes \ {p} : pc'[q] = pc[q] /\ copy'[q] = copy[q]
    BY DEF SaveManifest, TypeInv, TypeOK, meta, locks, history
  <1>2. /\ manifest[key[p]] = NoId
        /\ manifest'[key[p]] = mine[p]
        /\ \A k \in Key : k # key[p] => manifest'[k] = manifest[k]
        /\ copy'[p][key[p]] = mine[p]
        /\ mine[p] # NoId
    BY <1>1, SaveFillsOneEntry DEF TypeInv, HasId, Unfiled
  <1>3. \A q \in Processes \ {p} : pc[q] \notin {"filing", "loaded", "saved"}
    BY <1>1 DEF UploadInv, HoldsManifest
  <1>4. \A q \in Processes \ {p} : pc[q] \in InClaim => key[q] # key[p]
    BY <1>1 DEF UploadInv, HoldsClaim, InClaim
  <1>5. HoldsClaim' /\ HoldsManifest'
    BY <1>1 DEF UploadInv, HoldsClaim, HoldsManifest, InClaim
  <1>6. CopyIsCurrent'
    BY <1>1, <1>3 DEF CopyIsCurrent
  <1>7. NotFiledYet'
    BY <1>1, <1>2, <1>4 DEF UploadInv, NotFiledYet, InClaim, TypeInv, TypeOK
  <1>8. StoredIsFiled'
    BY <1>1, <1>2 DEF UploadInv, StoredIsFiled, TypeInv, TypeOK
  <1>9. EveryUploadIsKnown'
    <2>1. SUFFICES ASSUME NEW u \in uploads
                   PROVE  u.id \in unfiled \/ manifest'[u.key] = u.id \/ InFlight(u)'
      BY <1>1 DEF EveryUploadIsKnown
    <2>2. u.key \in Key /\ u.id # NoId
      BY UploadAssumption DEF TypeInv, TypeOK, Upload
    <2>3. CASE manifest[u.key] = u.id
      BY <1>2, <2>2, <2>3
    <2>4. CASE InFlight(u)
      <3>1. PICK q \in Processes : pc[q] \in Unfiled /\ mine[q] = u.id /\ key[q] = u.key
        BY <2>4 DEF InFlight
      <3>2. CASE q = p
        BY <1>2, <3>1, <3>2
      <3>3. CASE q # p
        BY <1>1, <3>1, <3>3 DEF InFlight
      <3>4. QED
        BY <3>2, <3>3
    <2>5. QED
      BY <2>3, <2>4 DEF UploadInv, EveryUploadIsKnown
  <1>10. MineIsUploaded'
    BY <1>1 DEF UploadInv, MineIsUploaded, Unfiled
  <1>11. ResultsAreOnFile'
    <2>1. \A r \in results : r.key \in Key /\ r.id # NoId
      BY UploadAssumption DEF TypeInv, TypeOK
    <2>2. QED
      BY <1>1, <1>2, <2>1 DEF UploadInv, ResultsAreOnFile
  <1>12. QED
    BY <1>1, <1>5, <1>6, <1>7, <1>8, <1>9, <1>10, <1>11 DEF UploadInv, UniqueIds

LEMMA UploadInvNext == TypeInv /\ UploadInv /\ LockWorks /\ [Next]_vars => UploadInv'
  <1> SUFFICES ASSUME TypeInv, UploadInv, LockWorks, [Next]_vars
               PROVE  UploadInv'
    OBVIOUS
  <1>1. CASE Environment
    BY <1>1, UploadInvUnchanged
    DEF Environment, Transcode, RewriteFile, DamageManifest, RepairManifest,
        storage, locks, history, meta
  <1>2. ASSUME NEW p \in Processes, Probe(p) \/ Continue(p) \/ Crash(p)
        PROVE  UploadInv'
    <2>1. CASE Stop(p)
      BY <2>1, UploadInvStop
    <2>2. CASE ~Stop(p)
      BY <1>2, <2>2, StopsAreStops, UploadInvMoves, UploadInvReturn, UploadInvAnswer, UploadInvSave
      DEF Continue, Remember, ManifestTimeout, LoadFails, SaveFails
    <2>3. QED
      BY <2>1, <2>2
  <1>3. CASE UNCHANGED vars
    BY <1>3, UploadInvUnchanged DEF vars, meta, storage, locks, history
  <1>4. QED
    BY <1>1, <1>2, <1>3 DEF Next

(* Why the claim and the manifest lock are enough: who is between them is  *)
(* the only one at work on that key, and what it has loaded is what is on  *)
(* file (state/assets.py:421-464).                                         *)
THEOREM UploadInvariant ==
    ASSUME LockWorks
    PROVE  Spec => [](TypeInv /\ UploadInv)
  <1>1. Init => TypeInv /\ UploadInv
    BY InitTypeInv, UploadInvInit
  <1>2. TypeInv /\ UploadInv /\ [Next]_vars => (TypeInv /\ UploadInv)'
    BY NextTypeInv, UploadInvNext
  <1>3. QED
    BY <1>1, <1>2, PTL DEF Spec

(* Two uploads of one content to one account: then a process was stopped   *)
(* between Meta's answer and its record (api/media.py:10, 151).            *)
THEOREM SameContentIsUploadedOnce ==
    ASSUME LockWorks
    PROVE  Spec => []OneUploadPerContent
  <1>1. TypeInv /\ UploadInv => OneUploadPerContent
    <2> SUFFICES ASSUME TypeInv, UploadInv,
                        NEW u \in uploads, NEW v \in uploads,
                        u.key = v.key, u.id \notin unfiled, v.id \notin unfiled
                 PROVE  u.id = v.id
      BY DEF OneUploadPerContent, SameContentTwice
    <2>1. u.id # NoId /\ v.id # NoId
      BY UploadAssumption DEF TypeInv, TypeOK, Upload
    <2>2. /\ manifest[u.key] = u.id \/ InFlight(u)
          /\ manifest[v.key] = v.id \/ InFlight(v)
      BY DEF UploadInv, EveryUploadIsKnown
    <2>3. \A w \in uploads : InFlight(w) => manifest[w.key] = NoId
      BY DEF UploadInv, NotFiledYet, InFlight, Unfiled
    <2>4. CASE manifest[u.key] = u.id /\ manifest[v.key] = v.id
      BY <2>4
    <2>5. CASE InFlight(u) /\ InFlight(v)
      <3>1. PICK p \in Processes : pc[p] \in Unfiled /\ mine[p] = u.id /\ key[p] = u.key
        BY <2>5 DEF InFlight
      <3>2. PICK q \in Processes : pc[q] \in Unfiled /\ mine[q] = v.id /\ key[q] = v.key
        BY <2>5 DEF InFlight
      <3>3. claim[u.key] = p /\ claim[u.key] = q
        BY <3>1, <3>2 DEF UploadInv, HoldsClaim, InClaim, Unfiled
      <3>4. QED
        BY <3>1, <3>2, <3>3
    <2>6. QED
      BY <2>1, <2>2, <2>3, <2>4, <2>5
  <1>2. QED
    BY <1>1, UploadInvariant, PTL

(* All callers of one content are given the one id on file                 *)
(* (state/assets.py:428-447).                                              *)
THEOREM ResultsStayOnFile ==
    ASSUME LockWorks
    PROVE  Spec => []ResultsAreOnFile
  <1>1. UploadInv => ResultsAreOnFile
    BY DEF UploadInv
  <1>2. QED
    BY <1>1, UploadInvariant, PTL

(* No save loses or replaces an entry of the manifest                      *)
(* (models/state.py:281-293, state/assets.py:428-432).                     *)
THEOREM EntriesStay ==
    ASSUME LockWorks
    PROVE  Spec => ManifestIsStable
  <1>1. TypeInv /\ UploadInv /\ [Next]_vars =>
            [\A k \in Key : manifest[k] # NoId => manifest'[k] = manifest[k]]_manifest
    <2> SUFFICES ASSUME TypeInv, UploadInv, [Next]_vars, manifest' # manifest
                 PROVE  \A k \in Key : manifest[k] # NoId => manifest'[k] = manifest[k]
      OBVIOUS
    <2>1. PICK p \in Processes : SaveManifest(p)
      BY DEF Next, vars, Environment, Transcode, RewriteFile, DamageManifest, RepairManifest,
             Probe, Continue, Claim, ClaimTimeout, Reuse, LookupStops, LookupMisses,
             RemoteCreate, RemoteCreateFails, AnswerLost, Remember, LockManifest,
             ManifestTimeout, LoadManifest, LoadFails, SaveFails, Finish, StartWaiting,
             PollReady, PollFails, Crash, Stop, storage
    <2>2. QED
      BY <2>1, SaveFillsOneEntry
  <1>2. QED
    BY <1>1, UploadInvariant, PTL DEF Spec, ManifestIsStable

-----------------------------------------------------------------------------
(* The uploads implement UploadRegister.  Besides the invariant it takes   *)
(* that an id that may still be filed has not been given up.               *)

LostIsLost ==
    /\ unfiled \subseteq UsedIds
    /\ \A p \in Processes : pc[p] \in Unfiled => mine[p] \notin unfiled

(* Two processes with an answer have different ones.                       *)
LEMMA MineIsMine ==
    ASSUME TypeInv, UploadInv, NEW p \in Processes, NEW q \in Processes,
           pc[p] \in Unfiled, pc[q] \in Unfiled, mine[p] = mine[q]
    PROVE  p = q
  <1>1. PICK u \in uploads : u.id = mine[p] /\ u.key = key[p]
    BY DEF UploadInv, MineIsUploaded
  <1>2. PICK v \in uploads : v.id = mine[q] /\ v.key = key[q]
    BY DEF UploadInv, MineIsUploaded
  <1>3. key[p] = key[q]
    BY <1>1, <1>2 DEF UploadInv, UniqueIds
  <1>4. claim[key[p]] = p /\ claim[key[q]] = q
    BY DEF UploadInv, HoldsClaim, InClaim, Unfiled
  <1>5. QED
    BY <1>3, <1>4

(* A step that stops a process, or gives it nothing.                       *)
LEMMA LostIsLostStays ==
    ASSUME LostIsLost, unfiled' = unfiled, uploads' = uploads,
           \A p \in Processes : pc'[p] \in Unfiled => pc[p] \in Unfiled /\ mine'[p] = mine[p]
    PROVE  LostIsLost'
  BY DEF LostIsLost, UsedIds

LEMMA LostIsLostStop ==
    ASSUME TypeInv, UploadInv, LostIsLost, NEW p \in Processes, Stop(p)
    PROVE  LostIsLost'
  <1>1. /\ uploads' = uploads
        /\ unfiled' = IF pc[p] \in Unfiled THEN unfiled \cup {mine[p]} ELSE unfiled
        /\ \A q \in Processes : pc'[q] \in Unfiled => q # p /\ pc[q] \in Unfiled /\ mine'[q] = mine[q]
    BY DEF Stop, Rest, meta, Unfiled, TypeInv, TypeOK
  <1>2. pc[p] \in Unfiled => mine[p] \in UsedIds
    BY DEF UploadInv, MineIsUploaded, UsedIds
  <1>3. unfiled' \subseteq UsedIds'
    BY <1>1, <1>2 DEF LostIsLost, UsedIds
  <1>4. ASSUME NEW q \in Processes, pc'[q] \in Unfiled
        PROVE  mine'[q] \notin unfiled'
    <2>1. q # p /\ pc[q] \in Unfiled /\ mine'[q] = mine[q] /\ mine[q] \notin unfiled
      BY <1>1, <1>4 DEF LostIsLost
    <2>2. pc[p] \in Unfiled => mine[q] # mine[p]
      BY <2>1, MineIsMine
    <2>3. QED BY <1>1, <2>1, <2>2
  <1>5. QED
    BY <1>3, <1>4 DEF LostIsLost

(* What Meta makes is new, and filed or lost by nobody.                    *)
LEMMA AnswerIsNew ==
    ASSUME TypeInv, UploadInv, LostIsLost, NEW p \in Processes, RemoteCreate(p) \/ AnswerLost(p)
    PROVE  \E id \in RemoteIds :
              /\ \A u \in uploads : u.id # id
              /\ uploads' = uploads \cup {NewUpload(p, id)}
              /\ NewUpload(p, id).id = id /\ NewUpload(p, id).key = key[p]
              /\ manifest' = manifest /\ results' = results
              /\ \/ /\ unfiled' = unfiled /\ pc' = [pc EXCEPT ![p] = "created"]
                    /\ mine' = [mine EXCEPT ![p] = id]
                 \/ unfiled' = unfiled \cup {id} /\ Rest(p)
  <1>1. CASE RemoteCreate(p)
    <2>1. PICK id \in RemoteIds \ UsedIds : CreateOnMeta(p, id) /\ mine' = [mine EXCEPT ![p] = id]
      BY <1>1 DEF RemoteCreate
    <2>2. pc' = [pc EXCEPT ![p] = "created"] /\ unfiled' = unfiled /\ manifest' = manifest /\ results' = results
      BY <1>1 DEF RemoteCreate, storage, history
    <2>3. QED BY <2>1, <2>2 DEF CreateOnMeta, NewUpload, UsedIds
  <1>2. CASE AnswerLost(p)
    <2>1. PICK id \in RemoteIds \ UsedIds : CreateOnMeta(p, id) /\ unfiled' = unfiled \cup {id}
      BY <1>2 DEF AnswerLost
    <2>2. Rest(p) /\ manifest' = manifest /\ results' = results
      BY <1>2 DEF AnswerLost, storage
    <2>3. QED BY <2>1, <2>2 DEF CreateOnMeta, NewUpload, UsedIds
  <1>3. QED BY <1>1, <1>2

LEMMA LostIsLostAnswer ==
    ASSUME TypeInv, UploadInv, LostIsLost, NEW p \in Processes, RemoteCreate(p) \/ AnswerLost(p)
    PROVE  LostIsLost'
  <1>1. PICK id \in RemoteIds :
              /\ \A u \in uploads : u.id # id
              /\ uploads' = uploads \cup {NewUpload(p, id)}
              /\ NewUpload(p, id).id = id /\ NewUpload(p, id).key = key[p]
              /\ manifest' = manifest /\ results' = results
              /\ \/ /\ unfiled' = unfiled /\ pc' = [pc EXCEPT ![p] = "created"]
                    /\ mine' = [mine EXCEPT ![p] = id]
                 \/ unfiled' = unfiled \cup {id} /\ Rest(p)
    BY AnswerIsNew
  <1>2. UsedIds' = UsedIds \cup {id} /\ id \notin UsedIds
    BY <1>1 DEF UsedIds
  <1>3. unfiled' \subseteq UsedIds' /\ id \notin unfiled
    BY <1>1, <1>2 DEF LostIsLost
  <1>4. ASSUME NEW q \in Processes, pc'[q] \in Unfiled
        PROVE  mine'[q] \notin unfiled'
    <2>1. CASE unfiled' = unfiled /\ pc' = [pc EXCEPT ![p] = "created"] /\ mine' = [mine EXCEPT ![p] = id]
      BY <1>3, <1>4, <2>1 DEF LostIsLost, TypeInv, TypeOK
    <2>2. CASE unfiled' = unfiled \cup {id} /\ Rest(p)
      <3>1. pc[q] \in Unfiled /\ mine'[q] = mine[q]
        BY <1>4, <2>2 DEF Rest, Unfiled, TypeInv, TypeOK
      <3>2. mine[q] \in UsedIds /\ mine[q] \notin unfiled
        BY <3>1 DEF UploadInv, MineIsUploaded, UsedIds, LostIsLost
      <3>3. QED BY <1>2, <2>2, <3>1, <3>2
    <2>3. QED BY <1>1, <2>1, <2>2
  <1>5. QED BY <1>3, <1>4 DEF LostIsLost

LEMMA LostIsLostNext == TypeInv /\ UploadInv /\ LostIsLost /\ [Next]_vars => LostIsLost'
  <1> SUFFICES ASSUME TypeInv, UploadInv, LostIsLost, [Next]_vars
               PROVE  LostIsLost'
    OBVIOUS
  <1>1. CASE Environment \/ UNCHANGED vars
    BY <1>1, LostIsLostStays
    DEF Environment, Transcode, RewriteFile, DamageManifest, RepairManifest,
        vars, meta, process, history
  <1>2. ASSUME NEW p \in Processes, Probe(p) \/ Continue(p) \/ Crash(p)
        PROVE  LostIsLost'
    <2>1. CASE Stop(p)
      BY <2>1, LostIsLostStop
    <2>2. CASE RemoteCreate(p) \/ AnswerLost(p)
      BY <2>2, LostIsLostAnswer
    <2>3. CASE \/ Probe(p) \/ Claim(p) \/ LookupMisses(p) \/ LockManifest(p)
               \/ LoadManifest(p) \/ SaveManifest(p) \/ StartWaiting(p)
      <3>1. unfiled' = unfiled /\ uploads' = uploads /\ mine' = mine
        BY <2>3 DEF Probe, Claim, LookupMisses, LockManifest, LoadManifest, SaveManifest,
                    StartWaiting, meta, history
      <3>2. \A q \in Processes : pc'[q] \in Unfiled => pc[q] \in Unfiled
        BY <2>3 DEF Probe, Claim, LookupMisses, LockManifest, LoadManifest, SaveManifest,
                    StartWaiting, Unfiled, TypeInv, TypeOK
      <3>3. QED BY <3>1, <3>2, LostIsLostStays
    <2>4. CASE Reuse(p) \/ Finish(p) \/ PollReady(p)
      <3>1. unfiled' = unfiled /\ uploads' = uploads /\ Rest(p)
        BY <2>4 DEF Reuse, Finish, PollReady, meta
      <3>2. \A q \in Processes : pc'[q] \in Unfiled => pc[q] \in Unfiled /\ mine'[q] = mine[q]
        BY <3>1 DEF Rest, Unfiled, TypeInv, TypeOK
      <3>3. QED BY <3>1, <3>2, LostIsLostStays
    <2>5. QED
      BY <1>2, <2>1, <2>2, <2>3, <2>4, StopsAreStops
      DEF Continue, Remember, ManifestTimeout, LoadFails, SaveFails
  <1>3. QED
    BY <1>1, <1>2 DEF Next

(* What a step does to the register.                                       *)
LEMMA StopLoses ==
    ASSUME TypeInv, UploadInv, LostIsLost, NEW p \in Processes, Stop(p)
    PROVE  [Register!Next]_(Register!vars)
  <1>1. uploads' = uploads /\ manifest' = manifest /\ results' = results
    BY DEF Stop, meta, storage
  <1>2. CASE pc[p] \notin Unfiled
    <2>1. unfiled' = unfiled
      BY <1>2 DEF Stop
    <2>2. QED BY <1>1, <2>1 DEF Register!vars
  <1>3. CASE pc[p] \in Unfiled
    <2>1. key[p] \in Key
      BY DEF TypeInv, TypeOK
    <2>2. unfiled' = unfiled \cup {mine[p]} /\ mine[p] \notin unfiled
      BY <1>3 DEF Stop, LostIsLost
    <2>3. manifest[key[p]] = NoId
      BY <1>3 DEF UploadInv, NotFiledYet, Unfiled
    <2>4. mine[p] \in {u.id : u \in {v \in uploads : v.key = key[p]}}
      BY <1>3 DEF UploadInv, MineIsUploaded
    <2>5. Register!Lose(key[p])
      BY <1>1, <2>1, <2>2, <2>3, <2>4 DEF Register!Lose
    <2>6. QED BY <2>1, <2>5 DEF Register!Next
  <1>4. QED BY <1>2, <1>3

LEMMA AnswerMakes ==
    ASSUME TypeInv, UploadInv, LostIsLost, NEW p \in Processes, RemoteCreate(p) \/ AnswerLost(p),
           NEW k \in Key, k = key[p]
    PROVE  Register!Make(k)
  <1>1. PICK id \in RemoteIds :
              /\ \A u \in uploads : u.id # id
              /\ uploads' = uploads \cup {NewUpload(p, id)}
              /\ NewUpload(p, id).id = id /\ NewUpload(p, id).key = key[p]
              /\ manifest' = manifest /\ results' = results
              /\ \/ /\ unfiled' = unfiled /\ pc' = [pc EXCEPT ![p] = "created"]
                    /\ mine' = [mine EXCEPT ![p] = id]
                 \/ unfiled' = unfiled \cup {id} /\ Rest(p)
    BY AnswerIsNew
  <1>2. pc[p] = "creating" /\ key[p] \in Key
    BY DEF RemoteCreate, AnswerLost, TypeInv, TypeOK
  <1>3. manifest[key[p]] = NoId
    BY <1>2 DEF UploadInv, NotFiledYet
  <1>4. {u.id : u \in {v \in uploads : v.key = key[p]}} \subseteq unfiled
    <2> SUFFICES ASSUME NEW u \in uploads, u.key = key[p]
                 PROVE  u.id \in unfiled
      OBVIOUS
    <2>1. u.id # NoId
      BY UploadAssumption DEF TypeInv, TypeOK, Upload
    <2>2. ~InFlight(u)
      <3> SUFFICES ASSUME NEW q \in Processes, pc[q] \in Unfiled, key[q] = u.key
                   PROVE  FALSE
        BY DEF InFlight
      <3>1. claim[key[p]] = p /\ claim[key[p]] = q
        BY <1>2 DEF UploadInv, HoldsClaim, InClaim, Unfiled
      <3>2. QED BY <1>2, <3>1 DEF Unfiled
    <2>3. QED BY <1>3, <2>1, <2>2 DEF UploadInv, EveryUploadIsKnown
  <1>5. [j \in Key |-> {u.id : u \in {v \in uploads : v.key = j}}]' =
            [[j \in Key |-> {u.id : u \in {v \in uploads : v.key = j}}]
                EXCEPT ![k] = @ \cup {id}]
    <2> DEFINE new == NewUpload(p, id)
    <2>1. new.id = id /\ new.key = key[p] /\ uploads' = uploads \cup {new}
      BY <1>1
    <2> HIDE DEF new
    <2>2. ASSUME NEW j \in Key
          PROVE  {u.id : u \in {v \in uploads' : v.key = j}} =
                     IF j = k THEN {u.id : u \in {v \in uploads : v.key = j}} \cup {id}
                     ELSE {u.id : u \in {v \in uploads : v.key = j}}
      BY <2>1
    <2>3. QED BY <1>2, <2>2
  <1>6. \A j \in Key : id \notin {u.id : u \in {v \in uploads : v.key = j}}
    BY <1>1
  <1>7. unfiled' \in {unfiled, unfiled \cup {id}}
    BY <1>1
  <1>8. QED
    BY <1>1, <1>2, <1>3, <1>4, <1>5, <1>6, <1>7 DEF Register!Make

LEMMA SaveWrites ==
    ASSUME TypeInv, UploadInv, LostIsLost, NEW p \in Processes, SaveManifest(p)
    PROVE  Register!Write(key[p])
  <1>1. key[p] \in Key /\ pc[p] = "loaded" /\ manifest \in Manifest /\ manifest' \in Manifest
    <2>1. copy[p] \in Manifest /\ key[p] \in Key /\ mine[p] \in RemoteIds
      BY DEF SaveManifest, TypeInv, TypeOK, HasId, Unfiled
    <2>2. QED BY <2>1, PutFills DEF SaveManifest, TypeInv, TypeOK
  <1>2. manifest' = [manifest EXCEPT ![key[p]] = mine[p]] /\ manifest[key[p]] = NoId
    BY <1>1, SaveFillsOneEntry DEF Manifest
  <1>3. mine[p] \in {u.id : u \in {v \in uploads : v.key = key[p]}} /\ mine[p] \notin unfiled
    BY <1>1 DEF UploadInv, MineIsUploaded, LostIsLost, Unfiled
  <1>4. uploads' = uploads /\ unfiled' = unfiled /\ results' = results
    BY DEF SaveManifest, meta, history
  <1>5. QED BY <1>1, <1>2, <1>3, <1>4 DEF Register!Write

LEMMA ReturnAnswers ==
    ASSUME TypeInv, UploadInv, NEW p \in Processes, Reuse(p) \/ Finish(p) \/ PollReady(p)
    PROVE  Register!Answer(key[p])
  <1>1. /\ uploads' = uploads /\ manifest' = manifest /\ unfiled' = unfiled
        /\ Return(p, manifest[key[p]]) /\ manifest[key[p]] # NoId
    BY DEF Reuse, Known, Finish, PollReady, meta, storage, UploadInv, StoredIsFiled
  <1>2. QED BY <1>1 DEF Register!Answer, Return

(* The uploads of any number of processes are a write-once register for    *)
(* each content of each account, when the locks work: Meta's answer is a   *)
(* making, a saved manifest a writing, a process that stops in between a   *)
(* loss, a result an answer, and every other step invisible                *)
(* (media.py:130-153, assets.py:421-464).                                  *)
THEOREM UploadImplementsRegister ==
    ASSUME LockWorks
    PROVE  Spec => ImplementsRegister
  <1>1. Init => Register!Init /\ LostIsLost
    BY DEF Init, Register!Init, LostIsLost, EmptyManifest, Unfiled, UsedIds
  <1>2. TypeInv /\ UploadInv /\ LostIsLost /\ [Next]_vars => [Register!Next]_(Register!vars)
    <2> SUFFICES ASSUME TypeInv, UploadInv, LostIsLost, [Next]_vars
                 PROVE  [Register!Next]_(Register!vars)
      OBVIOUS
    <2>1. CASE UNCHANGED <<uploads, manifest, unfiled, results>>
      BY <2>1 DEF Register!vars
    <2>2. ASSUME NEW p \in Processes, Probe(p) \/ Continue(p) \/ Crash(p)
          PROVE  [Register!Next]_(Register!vars)
      <3>1. CASE Stop(p)
        BY <3>1, StopLoses
      <3>2. key[p] \in Key
        BY DEF TypeInv, TypeOK
      <3>3. CASE RemoteCreate(p) \/ AnswerLost(p)
        <4>1. PICK k \in Key : k = key[p]
          BY <3>2
        <4>2. Register!Make(k)
          BY <3>3, <4>1, AnswerMakes
        <4>3. QED BY <4>2 DEF Register!Next
      <3>4. CASE SaveManifest(p)
        BY <3>2, <3>4, SaveWrites DEF Register!Next
      <3>5. CASE Reuse(p) \/ Finish(p) \/ PollReady(p)
        BY <3>2, <3>5, ReturnAnswers DEF Register!Next
      <3>6. CASE \/ Probe(p) \/ Claim(p) \/ LookupMisses(p) \/ LockManifest(p)
                 \/ LoadManifest(p) \/ StartWaiting(p)
        BY <2>1, <3>6
        DEF Probe, Claim, LookupMisses, LockManifest, LoadManifest, StartWaiting,
            meta, storage, history
      <3>7. QED
        BY <2>2, <3>1, <3>3, <3>4, <3>5, <3>6, StopsAreStops
        DEF Continue, Remember, ManifestTimeout, LoadFails, SaveFails
    <2>3. CASE Environment \/ UNCHANGED vars
      BY <2>1, <2>3
      DEF Environment, Transcode, RewriteFile, DamageManifest, RepairManifest,
          vars, meta, storage, process, history
    <2>4. QED
      BY <2>2, <2>3 DEF Next
  <1>3. QED
    BY <1>1, <1>2, UploadInvariant, LostIsLostNext, PTL
       DEF Spec, ImplementsRegister, Register!Spec

-----------------------------------------------------------------------------
(* What the manifest says of a content, when files are left alone while    *)
(* they are uploaded.  The locks play no part in it.                       *)

Tells(m) == \A k \in Key : m[k] # NoId => \E u \in uploads : u.id = m[k] /\ u.key = k

FileIsProbed == \A p \in Processes : pc[p] \in Unsent => content[file[p]] = key[p].content

UploadTellsContent == \A u \in uploads : u.content = u.key.content

TellsInv ==
    /\ FileIsProbed
    /\ UploadTellsContent
    /\ MineIsUploaded
    /\ Tells(manifest)
    /\ \A p \in Processes : Tells(copy[p])

LEMMA EmptyTells == Tells(EmptyManifest)
  BY DEF Tells, EmptyManifest

LEMMA TellsInvInit == Init => TellsInv
  BY EmptyTells DEF Init, TellsInv, FileIsProbed, UploadTellsContent, MineIsUploaded, Unfiled, Unsent

(* More uploads do not make a manifest say less.                           *)
LEMMA TellsGrows ==
    ASSUME NEW m, Tells(m), uploads \subseteq uploads'
    PROVE  \A k \in Key : m[k] # NoId => \E u \in uploads' : u.id = m[k] /\ u.key = k
  BY DEF Tells

(* A process that leaves.                                                  *)
LEMMA TellsInvRest ==
    ASSUME TypeInv, TellsInv, NEW p \in Processes, Rest(p),
           content' = content, manifest' = manifest,
           uploads \subseteq uploads', UploadTellsContent'
    PROVE  TellsInv'
  <1>1. \A q \in Processes :
            /\ q = p => pc'[q] = "idle" /\ copy'[q] = EmptyManifest
            /\ q # p => /\ pc'[q] = pc[q] /\ key'[q] = key[q] /\ file'[q] = file[q]
                       /\ mine'[q] = mine[q] /\ copy'[q] = copy[q]
    BY DEF Rest, TypeInv, TypeOK
  <1>2. FileIsProbed'
    BY <1>1 DEF TellsInv, FileIsProbed, Unsent
  <1>3. MineIsUploaded'
    BY <1>1 DEF TellsInv, MineIsUploaded, Unfiled
  <1>4. Tells(manifest)'
    BY TellsGrows DEF TellsInv, Tells
  <1>5. ASSUME NEW q \in Processes
        PROVE  Tells(copy[q])'
    BY <1>1, TellsGrows DEF TellsInv, Tells, EmptyManifest
  <1>6. QED
    BY <1>2, <1>3, <1>4, <1>5 DEF TellsInv

LEMMA TellsInvEnds ==
    ASSUME TypeInv, TellsInv, NEW p \in Processes,
           Stop(p) \/ Reuse(p) \/ Finish(p) \/ PollReady(p)
    PROVE  TellsInv'
  <1>1. Rest(p) /\ content' = content /\ manifest' = manifest /\ uploads' = uploads
    BY DEF Stop, Reuse, Finish, PollReady, meta, storage
  <1>2. QED
    BY <1>1, TellsInvRest DEF TellsInv, UploadTellsContent

LEMMA TellsInvMoves ==
    ASSUME TypeInv, TellsInv, NEW p \in Processes,
           \/ Probe(p) \/ Claim(p) \/ LookupMisses(p) \/ LockManifest(p)
           \/ LoadManifest(p) \/ StartWaiting(p)
    PROVE  TellsInv'
  <1>1. content' = content /\ manifest' = manifest /\ uploads' = uploads /\ mine' = mine
    BY DEF Probe, Claim, LookupMisses, LockManifest, LoadManifest, StartWaiting, meta, storage
  <1>2. \A q \in Processes \ {p} : /\ pc'[q] = pc[q] /\ key'[q] = key[q]
                                   /\ file'[q] = file[q] /\ copy'[q] = copy[q]
    BY DEF Probe, Claim, LookupMisses, LockManifest, LoadManifest, StartWaiting, TypeInv, TypeOK
  <1>3. copy'[p] \in {copy[p], manifest}
    BY DEF Probe, Claim, LookupMisses, LockManifest, LoadManifest, StartWaiting, TypeInv, TypeOK
  <1>4. pc'[p] \in Unsent => content[file'[p]] = key'[p].content
    <2>1. CASE Probe(p)
      <3>1. PICK f \in Files, a \in Accounts :
                /\ file' = [file EXCEPT ![p] = f]
                /\ key' = [key EXCEPT ![p] = [account |-> a, content |-> content[f]]]
        BY <2>1 DEF Probe
      <3>2. file'[p] = f /\ key'[p] = [account |-> a, content |-> content[f]]
        BY <3>1 DEF TypeInv, TypeOK
      <3>3. QED
        BY <3>2
    <2>2. CASE ~Probe(p)
      BY <2>2 DEF Claim, LookupMisses, LockManifest, LoadManifest, StartWaiting,
                  TellsInv, FileIsProbed, Unsent, TypeInv, TypeOK
    <2>3. QED
      BY <2>1, <2>2
  <1>5. pc'[p] \in Unfiled => pc[p] \in Unfiled /\ key'[p] = key[p]
    BY DEF Probe, Claim, LookupMisses, LockManifest, LoadManifest, StartWaiting,
           Unfiled, TypeInv, TypeOK
  <1>6. FileIsProbed'
    BY <1>1, <1>2, <1>4 DEF TellsInv, FileIsProbed
  <1>7. MineIsUploaded'
    BY <1>1, <1>2, <1>5 DEF TellsInv, MineIsUploaded
  <1>8. ASSUME NEW q \in Processes
        PROVE  Tells(copy[q])'
    BY <1>1, <1>2, <1>3 DEF TellsInv, Tells
  <1>9. QED
    BY <1>1, <1>6, <1>7, <1>8 DEF TellsInv, UploadTellsContent, Tells

LEMMA TellsInvAnswer ==
    ASSUME TypeInv, TellsInv, NEW p \in Processes, RemoteCreate(p) \/ AnswerLost(p)
    PROVE  TellsInv'
  <1>1. PICK id \in RemoteIds \ UsedIds :
            /\ uploads' = uploads \cup {NewUpload(p, id)}
            /\ RemoteCreate(p) => mine' = [mine EXCEPT ![p] = id]
    BY DEF RemoteCreate, AnswerLost, CreateOnMeta
  <1>2. PICK new : /\ uploads' = uploads \cup {new}
                   /\ new.id = id /\ new.key = key[p] /\ new.content = new.key.content
    <2>1. /\ NewUpload(p, id).id = id /\ NewUpload(p, id).key = key[p]
          /\ NewUpload(p, id).content = content[file[p]]
      BY DEF NewUpload
    <2>2. pc[p] = "creating"
      BY DEF RemoteCreate, AnswerLost
    <2>3. content[file[p]] = key[p].content
      BY <2>2 DEF TellsInv, FileIsProbed, Unsent
    <2>4. QED
      BY <1>1, <2>1, <2>3
  <1>3. content' = content /\ manifest' = manifest
    BY DEF RemoteCreate, AnswerLost, storage
  <1>4. UploadTellsContent'
    BY <1>2 DEF TellsInv, UploadTellsContent
  <1>5. CASE RemoteCreate(p)
    <2>1. /\ UNCHANGED <<file, key, copy>>
          /\ pc[p] = "creating" /\ pc'[p] = "created" /\ mine'[p] = id
          /\ \A q \in Processes \ {p} : pc'[q] = pc[q] /\ mine'[q] = mine[q]
      BY <1>1, <1>5 DEF RemoteCreate, TypeInv, TypeOK
    <2>2. FileIsProbed'
      BY <1>3, <2>1 DEF TellsInv, FileIsProbed, Unsent
    <2>3. MineIsUploaded'
      BY <1>2, <2>1 DEF TellsInv, MineIsUploaded
    <2>4. Tells(manifest)'
      BY <1>2, <1>3, TellsGrows DEF TellsInv, Tells
    <2>5. ASSUME NEW q \in Processes
          PROVE  Tells(copy[q])'
      BY <1>2, <2>1, TellsGrows DEF TellsInv, Tells
    <2>6. QED
      BY <1>4, <2>2, <2>3, <2>4, <2>5 DEF TellsInv
  <1>6. CASE ~RemoteCreate(p)
    <2>1. Rest(p)
      BY <1>6 DEF AnswerLost
    <2>2. QED
      BY <1>2, <1>3, <1>4, <2>1, TellsInvRest
  <1>7. QED
    BY <1>5, <1>6

LEMMA TellsInvSave ==
    ASSUME TypeInv, TellsInv, NEW p \in Processes, SaveManifest(p)
    PROVE  TellsInv'
  <1>1. /\ UNCHANGED <<content, uploads, file, key, mine>>
        /\ pc[p] = "loaded" /\ pc'[p] = "saved"
        /\ \A q \in Processes \ {p} : pc'[q] = pc[q] /\ copy'[q] = copy[q]
        /\ manifest' = Put(copy[p], key[p], mine[p])
    BY DEF SaveManifest, TypeInv, TypeOK, meta
  <1>2. copy[p] \in Manifest /\ key[p] \in Key /\ mine[p] \in RemoteIds
    BY <1>1 DEF TypeInv, TypeOK, HasId, Unfiled
  <1>3. FileIsProbed' /\ UploadTellsContent' /\ MineIsUploaded'
    BY <1>1 DEF TellsInv, FileIsProbed, UploadTellsContent, MineIsUploaded, Unfiled, Unsent
  <1>4. \E u \in uploads : u.id = mine[p] /\ u.key = key[p]
    BY <1>1 DEF TellsInv, MineIsUploaded, Unfiled
  <1>5. Tells(manifest)'
    <2>1. \A k \in Key : manifest'[k] = copy[p][k] \/ (k = key[p] /\ manifest'[k] = mine[p])
      BY <1>1, <1>2, PutFills
    <2>2. QED
      BY <1>1, <1>4, <2>1 DEF TellsInv, Tells
  <1>6. Tells(copy[p])'
    <2> DEFINE kept == [EmptyManifest EXCEPT ![key[p]] = manifest'[key[p]]]
    <2>1. \A k \in Key : kept[k] # NoId => kept[k] = manifest'[k]
      BY <1>2 DEF EmptyManifest
    <2>2. copy' = [copy EXCEPT ![p] = kept]
      BY DEF SaveManifest
    <2> HIDE DEF kept
    <2>3. copy'[p] = kept
      BY <2>2 DEF TypeInv, TypeOK
    <2>4. QED
      BY <1>5, <2>1, <2>3 DEF Tells
  <1>7. ASSUME NEW q \in Processes \ {p}
        PROVE  Tells(copy[q])'
    BY <1>1, <1>7 DEF TellsInv, Tells
  <1>8. QED
    BY <1>3, <1>5, <1>6, <1>7 DEF TellsInv

LEMMA TellsInvUnchanged ==
    ASSUME TellsInv, UNCHANGED <<content, uploads, manifest, process>>
    PROVE  TellsInv'
  BY DEF process, TellsInv, FileIsProbed, UploadTellsContent, MineIsUploaded, Tells

LEMMA TellsInvRewrite ==
    ASSUME ~FilesChange, TypeInv, TellsInv, NEW f \in Files, RewriteFile(f)
    PROVE  TellsInv'
  <1>1. PICK c \in Contents : content' = [content EXCEPT ![f] = c]
    BY DEF RewriteFile
  <1>2. UNCHANGED <<uploads, manifest, process>>
    BY DEF RewriteFile, meta, storage
  <1>3. FileIsProbed'
    BY <1>1, <1>2 DEF RewriteFile, TellsInv, FileIsProbed, process, TypeInv, TypeOK
  <1>4. UploadTellsContent' /\ MineIsUploaded' /\ Tells(manifest)' /\ \A p \in Processes : Tells(copy[p])'
    BY <1>2 DEF process, TellsInv, UploadTellsContent, MineIsUploaded, Tells
  <1>5. QED
    BY <1>3, <1>4 DEF TellsInv

(* What the manifest calls the upload of a content is that content in that *)
(* account, whether or not the locks work, as long as no file is rewritten *)
(* between its fingerprint and its upload (api/media.py:71-98).            *)
THEOREM ManifestTellsTheTruth ==
    ASSUME ~FilesChange
    PROVE  Spec => []ManifestTellsContent
  <1>1. Init => TellsInv
    BY TellsInvInit
  <1>2. TypeInv /\ TellsInv /\ [Next]_vars => TellsInv'
    <2> SUFFICES ASSUME TypeInv, TellsInv, [Next]_vars
                 PROVE  TellsInv'
      OBVIOUS
    <2>1. CASE Environment
      <3>1. CASE \E f \in Files : RewriteFile(f)
        BY <3>1, TellsInvRewrite
      <3>2. CASE ~\E f \in Files : RewriteFile(f)
        BY <2>1, <3>2, TellsInvUnchanged
        DEF Environment, Transcode, DamageManifest, RepairManifest, storage, meta
      <3>3. QED
        BY <3>1, <3>2
    <2>2. ASSUME NEW p \in Processes, Probe(p) \/ Continue(p) \/ Crash(p)
          PROVE  TellsInv'
      BY <2>2, StopsAreStops, TellsInvEnds, TellsInvMoves, TellsInvAnswer, TellsInvSave
      DEF Continue, Remember, ManifestTimeout, LoadFails, SaveFails
    <2>3. CASE UNCHANGED vars
      BY <2>3, TellsInvUnchanged DEF vars, meta, storage
    <2>4. QED
      BY <2>1, <2>2, <2>3 DEF Next
  <1>3. TellsInv => ManifestTellsContent
    BY DEF TellsInv, Tells, UploadTellsContent, ManifestTellsContent
  <1>4. QED
    BY <1>1, <1>2, <1>3, InitTypeInv, NextTypeInv, PTL DEF Spec
=============================================================================
