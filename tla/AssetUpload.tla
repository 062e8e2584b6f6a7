---------------------------- MODULE AssetUpload -----------------------------
(***************************************************************************)
(* Processes uploading local files to ad accounts (api/media.py) through   *)
(* the asset manifest (state/assets.py), which is to see that no content   *)
(* is uploaded to one account twice.                                       *)
(*                                                                         *)
(* An upload fingerprints the file, claims that content for that account   *)
(* (a file lock held up to ten minutes by somebody else), looks it up,     *)
(* sends the file to Meta if it is not there, and files the id it got in   *)
(* the manifest under a second lock, all inside the claim.  A video is     *)
(* then polled, outside the claim, until Meta has processed it.            *)
(***************************************************************************)
EXTENDS FiniteSets

CONSTANTS
    Processes,      \* processes using the workspace
    Files,          \* local paths
    Contents,       \* what the bytes of a file can be
    Videos,         \* the contents that are videos; the others are images
    Accounts,       \* ad accounts
    RemoteIds,      \* ids Meta may give out: a bound on successful uploads
    NoId,           \* no image_hash, no video_id
    Free,           \* the value of a lock nobody holds
    LockWorks,      \* FALSE on a filesystem without flock (locking.py:97)
    CrashesHappen,  \* a process may be killed at any point
    WritesMayFail,  \* saving the manifest may raise OSError
    AnswersGetLost, \* Meta may create an object and its answer not arrive
    FilesChange     \* a file may be rewritten between its fingerprint and its upload

ASSUME UploadAssumption ==
    /\ Files # {} /\ Contents # {} /\ Accounts # {}
    /\ Videos \subseteq Contents
    /\ NoId \notin RemoteIds
    /\ Free \notin Processes
    /\ LockWorks \in BOOLEAN
    /\ CrashesHappen \in BOOLEAN
    /\ WritesMayFail \in BOOLEAN
    /\ AnswersGetLost \in BOOLEAN
    /\ FilesChange \in BOOLEAN

(* AssetRecord.key(): a content in an account.                             *)
Key == [account : Accounts, content : Contents]

Manifest == [Key -> RemoteIds \cup {NoId}]

(* An object on Meta: the key it was uploaded for, and what it really is.  *)
Upload == [id : RemoteIds, key : Key, content : Contents]

(* Where a process that uploads nothing points.                            *)
NoFile == CHOOSE f \in Files : TRUE

NoKey == CHOOSE k \in Key : TRUE

VARIABLES
    content,        \* what each local file holds
    uploads,        \* media objects on Meta
    processing,     \* the videos Meta is still transcoding
    failed,         \* the videos it could not transcode
    manifest,       \* .meta-ads/assets/manifest.json
    readable,       \* FALSE while the manifest file is damaged
    claim,          \* holder of the lock on each key
    manifestLock,   \* holder of the lock on the manifest
    pc,             \* where each process is
    file,           \* the path each process uploads
    key,            \* the key its probe gave
    mine,           \* the id Meta gave it
    copy            \* the manifest it has loaded

VARIABLES           \* history
    unfiled,        \* ids whose process was stopped before it filed them
    results,        \* what the finished uploads returned
    handed          \* video ids returned to callers that asked to wait

meta == <<uploads, processing, failed>>
storage == <<manifest, readable>>
locks == <<claim, manifestLock>>
process == <<pc, file, key, mine, copy>>
history == <<unfiled, results, handed>>
vars == <<content, meta, storage, locks, process, history>>

EmptyManifest == [k \in Key |-> NoId]

Init ==
    /\ content \in [Files -> Contents]
    /\ uploads = {}
    /\ processing = {}
    /\ failed = {}
    /\ manifest = EmptyManifest
    /\ readable = TRUE
    /\ claim = [k \in Key |-> Free]
    /\ manifestLock = Free
    /\ pc = [p \in Processes |-> "idle"]
    /\ file = [p \in Processes |-> NoFile]
    /\ key = [p \in Processes |-> NoKey]
    /\ mine = [p \in Processes |-> NoId]
    /\ copy = [p \in Processes |-> EmptyManifest]
    /\ unfiled = {}
    /\ results = {}
    /\ handed = {}

IsVideo(k) == k.content \in Videos

UsedIds == {u.id : u \in uploads}

-----------------------------------------------------------------------------
(* Meta, the person at the keyboard, and the disk.                         *)

Transcode(id) ==
    /\ id \in processing
    /\ processing' = processing \ {id}
    /\ failed' \in {failed, failed \cup {id}}
    /\ UNCHANGED <<content, uploads, storage, locks, process, history>>

(* Between the fingerprint and the upload.                                 *)
Unsent == {"claiming", "claimed", "creating"}

RewriteFile(f) ==
    /\ FilesChange \/ \A p \in Processes : file[p] = f => pc[p] \notin Unsent
    /\ \E c \in Contents \ {content[f]} : content' = [content EXCEPT ![f] = c]
    /\ UNCHANGED <<meta, storage, locks, process, history>>

DamageManifest ==
    /\ readable
    /\ readable' = FALSE
    /\ UNCHANGED <<content, meta, manifest, locks, process, history>>

RepairManifest ==
    /\ ~readable
    /\ readable' = TRUE
    /\ UNCHANGED <<content, meta, manifest, locks, process, history>>

-----------------------------------------------------------------------------
(* The ways out.  Leaving the `with' blocks releases what the process      *)
(* holds of the two locks, by return, by exception and by death alike.     *)

ReleaseLocks(p) ==
    /\ claim' = [k \in Key |-> IF claim[k] = p THEN Free ELSE claim[k]]
    /\ manifestLock' = IF manifestLock = p THEN Free ELSE manifestLock

Rest(p) ==
    /\ pc' = [pc EXCEPT ![p] = "idle"]
    /\ key' = [key EXCEPT ![p] = NoKey]
    /\ mine' = [mine EXCEPT ![p] = NoId]
    /\ copy' = [copy EXCEPT ![p] = EmptyManifest]
    /\ file' = [file EXCEPT ![p] = NoFile]

(* Everything between the answer from Meta and the saved manifest.         *)
Unfiled == {"created", "filing", "loaded"}

Stop(p) ==
    /\ Rest(p)
    /\ ReleaseLocks(p)
    /\ unfiled' = IF pc[p] \in Unfiled THEN unfiled \cup {mine[p]} ELSE unfiled
    /\ UNCHANGED <<content, meta, storage, results, handed>>

Return(p, id) == results' = results \cup {[key |-> key[p], id |-> id]}

-----------------------------------------------------------------------------
(* upload_image and upload_video.                                          *)

(* probe_asset reads and hashes the file.                                  *)
Probe(p) ==
    /\ pc[p] = "idle"
    /\ \E f \in Files, a \in Accounts :
          /\ file' = [file EXCEPT ![p] = f]
          /\ key' = [key EXCEPT ![p] = [account |-> a, content |-> content[f]]]
    /\ pc' = [pc EXCEPT ![p] = "claiming"]
    /\ UNCHANGED <<content, meta, storage, locks, mine, copy, history>>

(* A mistake: the lock of another process is ignored.                      *)
MayLockAlways(holder) == TRUE

MayLock(holder) == LockWorks => holder = Free

Claim(p) ==
    /\ pc[p] = "claiming"
    /\ MayLock(claim[key[p]])
    /\ claim' = IF LockWorks THEN [claim EXCEPT ![key[p]] = p] ELSE claim
    /\ pc' = [pc EXCEPT ![p] = "claimed"]
    /\ UNCHANGED <<content, meta, storage, manifestLock, file, key, mine, copy, history>>

ClaimTimeout(p) ==
    /\ pc[p] = "claiming"
    /\ ~MayLock(claim[key[p]])
    /\ Stop(p)

(* A mistake: every lookup counts as a hit.                                *)
KnownUnchecked(p) == TRUE

Known(p) == manifest[key[p]] # NoId

(* The lookup.  A known content is returned as it is.  The call stops here *)
(* if the manifest cannot be read, for a dry run, or without a client.     *)
Reuse(p) ==
    /\ pc[p] = "claimed"
    /\ readable
    /\ Known(p)
    /\ Return(p, manifest[key[p]])
    /\ handed' \in {handed, IF IsVideo(key[p]) THEN handed \cup {manifest[key[p]]} ELSE handed}
    /\ Rest(p)
    /\ ReleaseLocks(p)
    /\ UNCHANGED <<content, meta, storage, unfiled>>

LookupStops(p) ==
    /\ pc[p] = "claimed"
    /\ ~(readable /\ Known(p))
    /\ Stop(p)

LookupMisses(p) ==
    /\ pc[p] = "claimed"
    /\ readable
    /\ ~Known(p)
    /\ pc' = [pc EXCEPT ![p] = "creating"]
    /\ UNCHANGED <<content, meta, storage, locks, file, key, mine, copy, history>>

(* remote_create sends what the path holds now.                            *)
NewUpload(p, id) == [id |-> id, key |-> key[p], content |-> content[file[p]]]

CreateOnMeta(p, id) ==
    /\ uploads' = uploads \cup {NewUpload(p, id)}
    /\ processing' = IF IsVideo(key[p]) THEN processing \cup {id} ELSE processing
    /\ UNCHANGED failed

RemoteCreate(p) ==
    /\ pc[p] = "creating"
    /\ \E id \in RemoteIds \ UsedIds :
          /\ CreateOnMeta(p, id)
          /\ mine' = [mine EXCEPT ![p] = id]
    /\ pc' = [pc EXCEPT ![p] = "created"]
    /\ UNCHANGED <<content, storage, locks, file, key, copy, history>>

RemoteCreateFails(p) == pc[p] = "creating" /\ Stop(p)

(* The object exists, but the call timed out or its answer held no id.     *)
AnswerLost(p) ==
    /\ AnswersGetLost
    /\ pc[p] = "creating"
    /\ \E id \in RemoteIds \ UsedIds :
          /\ CreateOnMeta(p, id)
          /\ unfiled' = unfiled \cup {id}
    /\ Rest(p)
    /\ ReleaseLocks(p)
    /\ UNCHANGED <<content, storage, results, handed>>

-----------------------------------------------------------------------------
(* AssetStore.remember: lock, load, put, save, unlock.                     *)

LockManifest(p) ==
    /\ pc[p] = "created"
    /\ MayLock(manifestLock)
    /\ manifestLock' = IF LockWorks THEN p ELSE manifestLock
    /\ pc' = [pc EXCEPT ![p] = "filing"]
    /\ UNCHANGED <<content, meta, storage, claim, file, key, mine, copy, history>>

ManifestTimeout(p) ==
    /\ pc[p] = "created"
    /\ ~MayLock(manifestLock)
    /\ Stop(p)

LoadManifest(p) ==
    /\ pc[p] = "filing"
    /\ readable
    /\ copy' = [copy EXCEPT ![p] = manifest]
    /\ pc' = [pc EXCEPT ![p] = "loaded"]
    /\ UNCHANGED <<content, meta, storage, locks, file, key, mine, history>>

(* A mistake: a manifest that cannot be read is taken for an empty one.    *)
LoadFailsAsEmpty(p) ==
    /\ pc[p] = "filing"
    /\ ~readable
    /\ copy' = [copy EXCEPT ![p] = EmptyManifest]
    /\ pc' = [pc EXCEPT ![p] = "loaded"]
    /\ UNCHANGED <<content, meta, storage, locks, file, key, mine, history>>

LoadFails(p) == pc[p] = "filing" /\ ~readable /\ Stop(p)

(* A mistake: the content is filed without its account.                    *)
PutForAnyAccount(m, k, id) ==
    [j \in Key |-> IF j.content = k.content /\ m[j] = NoId THEN id ELSE m[j]]

(* AssetManifest.put: the first write wins.                                *)
Put(m, k, id) == [m EXCEPT ![k] = IF @ = NoId THEN id ELSE @]

(* From here on the copy holds the one record that remember() returns.     *)
SaveManifest(p) ==
    /\ pc[p] = "loaded"
    /\ manifest' = Put(copy[p], key[p], mine[p])
    /\ readable' = TRUE
    /\ pc' = [pc EXCEPT ![p] = "saved"]
    /\ copy' = [copy EXCEPT ![p] = [EmptyManifest EXCEPT ![key[p]] = manifest'[key[p]]]]
    /\ UNCHANGED <<content, meta, locks, file, key, mine, history>>

SaveFails(p) == WritesMayFail /\ pc[p] = "loaded" /\ Stop(p)

(* Both blocks are left.  An image is done; a video whose caller does not  *)
(* want to wait, too.  The record returned is the one that was stored.     *)
Finish(p) ==
    /\ pc[p] = "saved"
    /\ Return(p, copy[p][key[p]])
    /\ Rest(p)
    /\ ReleaseLocks(p)
    /\ UNCHANGED <<content, meta, storage, unfiled, handed>>

StartWaiting(p) ==
    /\ pc[p] = "saved"
    /\ IsVideo(key[p])
    /\ pc' = [pc EXCEPT ![p] = "waiting"]
    /\ ReleaseLocks(p)
    /\ UNCHANGED <<content, meta, storage, file, key, mine, copy, history>>

-----------------------------------------------------------------------------
(* wait_for_video_processing polls the id this process uploaded.           *)

PollReady(p) ==
    /\ pc[p] = "waiting"
    /\ mine[p] \notin processing \cup failed
    /\ Return(p, copy[p][key[p]])
    /\ handed' = handed \cup {copy[p][key[p]]}
    /\ Rest(p)
    /\ UNCHANGED <<content, meta, storage, locks, unfiled>>

(* A mistake: the loop ends only when Meta gives a final status.           *)
PollFailsOnError(p) == pc[p] = "waiting" /\ mine[p] \in failed /\ Stop(p)

(* Meta reports an error, the status call itself fails, or - while the     *)
(* video is still being processed - the deadline passes.                   *)
PollFails(p) == pc[p] = "waiting" /\ Stop(p)


Crash(p) == CrashesHappen /\ pc[p] # "idle" /\ Stop(p)

-----------------------------------------------------------------------------
Environment ==
    \/ \E id \in RemoteIds : Transcode(id)
    \/ \E f \in Files : RewriteFile(f)
    \/ DamageManifest
    \/ RepairManifest

Remember(p) ==
    \/ LockManifest(p)
    \/ ManifestTimeout(p)
    \/ LoadManifest(p)
    \/ LoadFails(p)
    \/ SaveManifest(p)
    \/ SaveFails(p)

Continue(p) ==
    \/ Claim(p)
    \/ ClaimTimeout(p)
    \/ Reuse(p)
    \/ LookupStops(p)
    \/ LookupMisses(p)
    \/ RemoteCreate(p)
    \/ RemoteCreateFails(p)
    \/ AnswerLost(p)
    \/ Remember(p)
    \/ Finish(p)
    \/ StartWaiting(p)
    \/ PollReady(p)
    \/ PollFails(p)

Next == Environment \/ \E p \in Processes : Probe(p) \/ Continue(p) \/ Crash(p)

Spec == Init /\ [][Next]_vars

(* A process that has started an upload keeps running.  It waits for a     *)
(* lock, for an answer (the SDK call has a timeout) and for the            *)
(* transcoding, and each of these waits has a deadline.                    *)
FairSpec == Spec /\ \A p \in Processes : WF_vars(Continue(p))

-----------------------------------------------------------------------------
(* Type invariant: every variable of the upload path stays in its domain.  *)
TypeOK ==
    /\ content \in [Files -> Contents]
    /\ uploads \in SUBSET Upload
    /\ processing \in SUBSET RemoteIds
    /\ failed \in SUBSET RemoteIds
    /\ manifest \in Manifest
    /\ readable \in BOOLEAN
    /\ claim \in [Key -> Processes \cup {Free}]
    /\ manifestLock \in Processes \cup {Free}
    /\ pc \in [Processes -> {"idle", "claiming", "claimed", "creating", "created",
                             "filing", "loaded", "saved", "waiting"}]
    /\ file \in [Processes -> Files]
    /\ key \in [Processes -> Key]
    /\ mine \in [Processes -> RemoteIds \cup {NoId}]
    /\ copy \in [Processes -> Manifest]
    /\ unfiled \in SUBSET RemoteIds
    /\ results \in SUBSET [key : Key, id : RemoteIds]
    /\ handed \in SUBSET RemoteIds

(* Two processes uploading the same bytes to one account make one object,  *)
(* whatever the interleaving of claims, lookups and saves, unless one of   *)
(* them was stopped between Meta's answer and the saved manifest           *)
(* (assets.py:449-456, media.py:165-167).                                  *)
SameContentTwice(u, v) == u.key = v.key /\ u.id # v.id

OneUploadPerContent ==
    \A u, v \in uploads : SameContentTwice(u, v) => u.id \in unfiled \/ v.id \in unfiled

(* The same with no excuse: "the same bytes are uploaded once per ad       *)
(* account, ever" (media.py:10).                                           *)
OneUploadEver == \A u, v \in uploads : ~SameContentTwice(u, v)

(* An entry of the manifest is never lost to, nor replaced by, another     *)
(* process's save (assets.py:429-430, models/state.py:281-287).            *)
ManifestIsStable ==
    [][\A k \in Key : manifest[k] # NoId => manifest'[k] = manifest[k]]_manifest

(* Every id an upload has returned is the one the manifest still holds     *)
(* for that content, so all callers of one content were given one id.      *)
ResultsAreOnFile == \A r \in results : manifest[r.key] = r.id

(* What the manifest calls the upload of a content to an account is that   *)
(* content in that account: "dedup is by content" (assets.py:9-11).        *)
ManifestTellsContent ==
    \A k \in Key : manifest[k] # NoId =>
        \E u \in uploads : /\ u.id = manifest[k]
                           /\ u.content = k.content
                           /\ u.key.account = k.account

(* A caller that waits is not handed an id Meta is still processing        *)
(* (media.py:27-29).                                                       *)
HandedIsReady == [][\A id \in handed' \ handed : id \notin processing]_handed

(* An upload that was started ends, whatever Meta and the other processes  *)
(* do: every lock and every poll has a deadline.                           *)
UploadEnds == \A p \in Processes : pc[p] = "claiming" ~> pc[p] = "idle"

(* What is promised is a register for each content of each account: the    *)
(* first id that is filed is the one everybody is given, and nothing is    *)
(* sent to Meta while an earlier answer may yet be filed                   *)
(* (media.py:130-153, assets.py:421-464).                                  *)
Register == INSTANCE UploadRegister WITH
    Keys     <- Key,
    Ids      <- RemoteIds,
    Unset    <- NoId,
    made     <- [k \in Key |-> {u.id : u \in {v \in uploads : v.key = k}}],
    lost     <- unfiled,
    register <- manifest,
    answers  <- results

ImplementsRegister == Register!Spec

(* The inductive invariant behind the safety properties when locks work.   *)
InClaim == {"claimed", "creating", "created", "filing", "loaded", "saved"}

HoldsClaim == \A p \in Processes : pc[p] \in InClaim => claim[key[p]] = p

HoldsManifest ==
    \A p \in Processes : pc[p] \in {"filing", "loaded", "saved"} => manifestLock = p

CopyIsCurrent == \A p \in Processes : pc[p] = "loaded" => copy[p] = manifest

NotFiledYet ==
    \A p \in Processes :
        pc[p] \in {"creating", "created", "filing", "loaded"} => manifest[key[p]] = NoId

StoredIsFiled ==
    \A p \in Processes :
        pc[p] \in {"saved", "waiting"} =>
            copy[p][key[p]] # NoId /\ copy[p][key[p]] = manifest[key[p]]

InFlight(u) == \E p \in Processes : pc[p] \in Unfiled /\ mine[p] = u.id /\ key[p] = u.key

EveryUploadIsKnown ==
    \A u \in uploads : u.id \in unfiled \/ manifest[u.key] = u.id \/ InFlight(u)

MineIsUploaded ==
    \A p \in Processes : pc[p] \in Unfiled =>
        \E u \in uploads : u.id = mine[p] /\ u.key = key[p]

UniqueIds == \A u, v \in uploads : u.id = v.id => u = v

UploadInv ==
    /\ HoldsClaim
    /\ HoldsManifest
    /\ CopyIsCurrent
    /\ NotFiledYet
    /\ StoredIsFiled
    /\ EveryUploadIsKnown
    /\ MineIsUploaded
    /\ UniqueIds
    /\ ResultsAreOnFile
=============================================================================
