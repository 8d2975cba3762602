----------------------------- MODULE LibraryDbSync -----------------------------
(***************************************************************************)
(* How a full sync backs up library.db (GitHubSyncService.RunFullSyncAsync,*)
(* its last part): the database is changed all the time and has no useful  *)
(* file time, so the PC remembers in a side-car the hash it last synced at *)
(* and decides by comparing three hashes: of a snapshot taken now, of the  *)
(* side-car, and of the entry in the cloud's manifest.                     *)
(*                                                                         *)
(* A hash stands for what it is taken of: the edits a database holds, and  *)
(* the schema cookie, which every VACUUM INTO raises by one in the copy.   *)
(* Database, side-car and cloud survive a death of the app, the manifest   *)
(* in memory does not, and a reinstalled PC keeps only the cloud.          *)
(***************************************************************************)
EXTENDS Naturals

CONSTANTS
    MaxEdits,   \* bound: changes made to the library
    Mishaps,    \* bound: failed requests and file operations, deaths of the app
    Reinstalls  \* bound

ASSUME BoundsAssumption == MaxEdits \in Nat /\ Mishaps \in Nat /\ Reinstalls \in Nat

VARIABLES
    db,         \* library.db
    sidecar,    \* cloudsync_dbstate_<repository>.txt
    blob,       \* the cloud's library.<host>.db
    listed,     \* the hash in the cloud's manifest
    man,        \* the hash in _manifestCache
    pc,         \* where the full sync is
    my,         \* its snapshot: myHash and dbBytes
    got,        \* the downloaded bytes
    errors,     \* the sync counted an error, or ended without a result
    made,       \* edits so far
    mishaps,
    reinstalls,
    whole,      \* history: neither an edit nor a mishap since the sync began
    calm        \* history: whole syncs since the last edit or mishap, at most 2

data == <<db, sidecar, blob, listed, man>>
sync == <<my, got, errors>>
counts == <<made, mishaps, reinstalls>>
hist == <<whole, calm>>
vars == <<data, pc, sync, counts, hist>>

\* Contents: the edits and the schema cookie.  A snapshot's cookie is never 0.
Contents == (SUBSET (1..MaxEdits)) \X Nat
EditsOf(c) == c[1]
None == <<{}, 0>>
Fresh == <<{}, 0>>
Snapshot(d) == <<d[1], d[2] + 1>>

\* DatabaseService has created the file before any sync.
Init ==
    /\ db = Fresh /\ sidecar = None /\ blob = None /\ listed = None /\ man = None
    /\ pc = "idle" /\ my = None /\ got = None /\ errors = TRUE
    /\ made = 0 /\ mishaps = 0 /\ reinstalls = 0
    /\ whole = FALSE /\ calm = 0

Disturbed == whole' = FALSE /\ calm' = 0
Mishap == mishaps < Mishaps /\ mishaps' = mishaps + 1 /\ Disturbed

-----------------------------------------------------------------------------
(* The full sync.                                                          *)

StartSync ==
    /\ pc = "idle" /\ pc' = "load"
    /\ errors' = FALSE /\ whole' = TRUE
    /\ UNCHANGED <<data, my, got, counts, calm>>

LoadManifest ==
    /\ pc = "load" /\ pc' = "snap"
    /\ man' = listed
    /\ UNCHANGED <<db, sidecar, blob, listed, sync, counts, hist>>

\* A manifest that cannot be had is taken for an empty one.
LoadManifestFails ==
    /\ pc = "load" /\ pc' = "snap"
    /\ man' = None
    /\ Mishap
    /\ UNCHANGED <<db, sidecar, blob, listed, sync, made, reinstalls>>

LocalChanged(m) == m # sidecar
NeedsUpload(m) == (LocalChanged(m) \/ man = None) /\ m # man

\* An entry exists, this PC has no edits of its own, and the entry differs.
ShouldDownload(m) == man # None /\ ~LocalChanged(m) /\ m # man

\* Side-car, snapshot and decision.  Where an upload is planned no download
\* follows: after it the entry is this PC's, and where it fails the PC has changed
\* or there is no entry.
Decide ==
    /\ pc = "snap"
    /\ LET m == Snapshot(db) IN
       /\ my' = m
       /\ pc' = IF NeedsUpload(m) THEN "put" ELSE IF ShouldDownload(m) THEN "get" ELSE "save"
    /\ UNCHANGED <<data, got, errors, counts, hist>>

\* VACUUM INTO throws.
SnapshotFails ==
    /\ pc = "snap" /\ pc' = "save"
    /\ errors' = TRUE
    /\ Mishap
    /\ UNCHANGED <<data, my, got, made, reinstalls>>

Put ==
    /\ pc = "put" /\ pc' = "put200"
    /\ blob' = my
    /\ UNCHANGED <<db, sidecar, listed, man, sync, counts, hist>>

MutPutUncounted ==
    /\ pc \in {"put", "put200"} /\ pc' = "save"
    /\ Mishap
    /\ UNCHANGED <<data, sync, made, reinstalls>>

MutPutNoted ==
    /\ pc \in {"put", "put200"} /\ pc' = "save"
    /\ errors' = TRUE /\ sidecar' = my
    /\ Mishap
    /\ UNCHANGED <<db, blob, listed, man, my, got, made, reinstalls>>

\* The request is refused or lost, or its answer is.
PutFails ==
    /\ pc \in {"put", "put200"} /\ pc' = "save"
    /\ errors' = TRUE
    /\ Mishap
    /\ UNCHANGED <<data, my, got, made, reinstalls>>

MutUploaded ==
    /\ pc = "put200" /\ pc' = "save"
    /\ sidecar' = my
    /\ UNCHANGED <<db, blob, listed, man, sync, counts, hist>>

\* Entry and side-car.
Uploaded ==
    /\ pc = "put200" /\ pc' = "save"
    /\ man' = my /\ sidecar' = my
    /\ UNCHANGED <<db, blob, listed, sync, counts, hist>>

\* The side-car's failure is swallowed.
UploadedNotNoted ==
    /\ pc = "put200" /\ pc' = "save"
    /\ man' = my
    /\ Mishap
    /\ UNCHANGED <<db, sidecar, blob, listed, sync, made, reinstalls>>

MutGet ==
    /\ pc = "get" /\ pc' = "write"
    /\ got' \in {blob, Fresh}
    /\ UNCHANGED <<data, my, errors, counts, hist>>

\* Empty bytes are not written.
Get ==
    /\ pc = "get" /\ pc' = "write"
    /\ got' = blob
    /\ UNCHANGED <<data, my, errors, counts, hist>>

\* No error is counted.
GetFails ==
    /\ pc = "get" /\ pc' = "save"
    /\ Mishap
    /\ UNCHANGED <<data, sync, made, reinstalls>>

MutWriteDb ==
    /\ pc = "write" /\ pc' = "adopt"
    /\ db' = <<>>
    /\ UNCHANGED <<sidecar, blob, listed, man, sync, counts, hist>>

WriteDb ==
    /\ pc = "write" /\ pc' = "adopt"
    /\ db' = got
    /\ UNCHANGED <<sidecar, blob, listed, man, sync, counts, hist>>

Adopt ==
    /\ pc = "adopt" /\ pc' = "save"
    /\ sidecar' = got
    /\ UNCHANGED <<db, blob, listed, man, sync, counts, hist>>

\* File.WriteAllBytes throws, or the side-car's failure is swallowed.
AdoptFails ==
    /\ pc \in {"write", "adopt"} /\ pc' = "save"
    /\ errors' = (errors \/ pc = "write")
    /\ Mishap
    /\ UNCHANGED <<data, my, got, made, reinstalls>>

SaveManifest ==
    /\ pc = "save" /\ pc' = "idle"
    /\ listed' = man
    /\ calm' = IF whole /\ calm < 2 THEN calm + 1 ELSE calm
    /\ UNCHANGED <<db, sidecar, blob, man, sync, counts, whole>>

SaveManifestFails ==
    /\ pc = "save" /\ pc' = "idle"
    /\ Mishap
    /\ UNCHANGED <<data, sync, made, reinstalls>>

-----------------------------------------------------------------------------
(* What happens meanwhile.                                                 *)

\* The library or a game host changes the database.
Edit ==
    /\ made < MaxEdits /\ made' = made + 1
    /\ db' = <<EditsOf(db) \cup {made + 1}, db[2]>>
    /\ Disturbed
    /\ UNCHANGED <<sidecar, blob, listed, man, pc, sync, mishaps, reinstalls>>

\* The upload hook of a game save stores the manifest as it is in memory.
HookSavesManifest ==
    /\ listed' = man
    /\ UNCHANGED <<db, sidecar, blob, man, pc, sync, counts, hist>>

\* The app dies and is started again.
Crash ==
    /\ Mishap
    /\ pc' = "idle" /\ man' = None /\ errors' = TRUE
    /\ UNCHANGED <<db, sidecar, blob, listed, my, got, made, reinstalls>>

\* The PC gets a new system under its old hostname, and the app a new library.
Reinstall ==
    /\ reinstalls < Reinstalls /\ reinstalls' = reinstalls + 1
    /\ db' = Fresh /\ sidecar' = None /\ man' = None
    /\ pc' = "idle" /\ errors' = TRUE
    /\ Disturbed
    /\ UNCHANGED <<blob, listed, my, got, made, mishaps>>

Sync ==
    \/ StartSync \/ LoadManifest \/ LoadManifestFails \/ Decide \/ SnapshotFails
    \/ Put \/ PutFails \/ Uploaded \/ UploadedNotNoted
    \/ Get \/ GetFails \/ WriteDb \/ Adopt \/ AdoptFails
    \/ SaveManifest \/ SaveManifestFails

Next == Sync \/ Edit \/ HookSavesManifest \/ Crash \/ Reinstall

Spec == Init /\ [][Next]_vars

-----------------------------------------------------------------------------
TypeOK ==
    /\ db \in Contents /\ sidecar \in Contents /\ blob \in Contents
    /\ listed \in Contents /\ man \in Contents /\ my \in Contents /\ got \in Contents
    /\ pc \in {"idle", "load", "snap", "put", "put200", "get", "write", "adopt", "save"}
    /\ errors \in BOOLEAN
    /\ made \in 0..MaxEdits /\ mishaps \in Nat /\ reinstalls \in Nat
    /\ whole \in BOOLEAN /\ calm \in 0..2

(* A database that looks unchanged to its own PC is the one in the cloud:  *)
(* no failure or death leaves a side-car that hides edits from the backup. *)
QuietIsSafe == Snapshot(db) = sidecar => blob = sidecar

(* A sync that ends without having counted an error leaves every edit its  *)
(* snapshot held in the cloud.                                             *)
SyncedIsStored == pc = "idle" /\ ~errors => EditsOf(my) \subseteq EditsOf(blob)

(* What the PC believes to be backed up is backed up: neither a side-car   *)
(* nor a sync without errors claims more than the cloud has.               *)
BackupHonest == QuietIsSafe /\ SyncedIsStored

(* What a PC adopts from its own repository is what it had at the snapshot *)
(* of the same sync: the download never brings back anything.              *)
AdoptsOwn == pc = "write" => got = my

(* "Otherwise alternating syncs ping-pong uploads forever": after two      *)
(* syncs that nothing disturbed a sync transfers nothing.                  *)
NoPingPong == pc \in {"put", "get"} => calm < 2

(* Until the PC is reinstalled no sync takes an edit out of the backup.    *)
BackupGrows == [][reinstalls = 0 => EditsOf(blob) \subseteq EditsOf(blob')]_vars

(* "Signing in again on a reinstalled PC with the same hostname restores   *)
(* its backup": no sync takes an edit out of the backup.                   *)
BackupKept == [][EditsOf(blob) \subseteq EditsOf(blob')]_vars

(* "Record what we adopted so the next sync sees unchanged": after one     *)
(* sync that nothing disturbed the next one transfers nothing.             *)
QuietAfterSync == pc \in {"put", "get"} => calm < 1

(* "Adopt remote only when I have no local edits of my own": a sync takes  *)
(* no edit out of the library.                                             *)
EditsKept == [][reinstalls' = reinstalls => EditsOf(db) \subseteq EditsOf(db')]_vars
=============================================================================
