------------------------------ MODULE CloudSync ------------------------------
(***************************************************************************)
(* Battery-save synchronisation of one PC with its private GitHub          *)
(* repository (Services/GitHubSyncService.cs).                             *)
(*                                                                         *)
(* Actors: the full sync ("Sync Now" / start-up, at most one in flight),   *)
(* the upload hooks (session close, periodic timer), the pre-launch pull,  *)
(* the game hosts that write the saves, and GitHub, which answers a PUT    *)
(* only when its sha is the stored blob's.  Requests and answers can be    *)
(* lost; the app can die between any two steps; the PC can be reinstalled. *)
(*                                                                         *)
(* A save's content is named by the instant it was written: `ver`.  Its    *)
(* file time `mtime` is what the code compares.  0 stands for "no file",   *)
(* "no entry", "no blob".  A blob's sha is a function of its content, so   *)
(* the content itself plays the sha; an absent manifest reads as an empty  *)
(* one, as LoadManifestAsync makes it.                                     *)
(***************************************************************************)
EXTENDS Naturals, FiniteSets

CONSTANTS
    Saves,       \* battery saves and memory cards with a repository path
    Cards,       \* those of Saves the core manages itself (BuildExtraSaveMap)
    Hooks,       \* concurrent fire-and-forget uploads (bound)
    FullSync,    \* the full sync's uploader identity
    Manifest,    \* the repository path of manifest.json
    NoSave,
    Timing,      \* cfg.SyncTiming
    MaxClock,    \* bound on the instants: no autosave and no sync begins after it
    MaxFails,    \* bound on lost requests
    MaxCrashes   \* bound on app deaths and reinstalls

ASSUME CardsAssumption == Cards \subseteq Saves
ASSUME NamesAssumption ==
    /\ Manifest \notin Saves
    /\ NoSave \notin Saves
    /\ FullSync \notin Hooks
ASSUME TimingAssumption == Timing \in {"manual", "close", "periodic"}
ASSUME BoundsAssumption == MaxClock \in Nat /\ MaxFails \in Nat /\ MaxCrashes \in Nat

VARIABLES
    clock,     \* wall clock, ticks at each save write
    local,     \* the .srm / card files on disk
    running,   \* saves whose game host is alive
    overtaken, \* history: saves with a download's time on an autosave's bytes
    cloud,     \* the repository: Saves and Manifest to content
    sha,       \* _shaCache: the content each path had when last seen
    man,       \* _manifestCache.Files: path to LastModifiedUtc
    full,      \* RunFullSyncAsync
    hook,      \* UploadSaveAfterSessionAsync / UploadConsoleExtraSavesAsync
    pull,      \* PullSaveBeforeLaunchAsync / DownloadConsoleExtraSavesAsync
    req,       \* UploadFileAsync, one PUT per uploader
    fails, crashes

net  == <<fails, crashes>>
disk == <<clock, local, running, overtaken>>
vars == <<disk, cloud, sha, man, full, hook, pull, req, net>>

-----------------------------------------------------------------------------
Uploaders   == Hooks \cup {FullSync}
Paths       == Saves \cup {Manifest}
Entries     == [Saves -> Nat]
NoEntries   == [s \in Saves |-> 0]
NoFile      == [ver |-> 0, mtime |-> 0]

(* A blob is a save's content or a manifest.                               *)
Blobs       == [ver : Nat, list : Entries]
SaveBlob(v) == [ver |-> v, list |-> NoEntries]
Listing(m)  == [ver |-> 0, list |-> m]
Nothing     == SaveBlob(0)
NothingSeen == [p \in Paths |-> Nothing]

FullPcs == {"idle", "refresh", "load", "loaded", "plan", "up", "down", "write", "stamp", "save",
            "done"}

FullStates == [pc : FullPcs, todo : Entries, planned : Entries, cur : Saves \cup {NoSave},
               got : Nat, snap : Entries, answered : BOOLEAN, clean : BOOLEAN, doubt : SUBSET Saves]
HookStates == [pc : {"idle", "up", "save"}, s : Saves \cup {NoSave}, mtime : Nat]
PullStates == [pc : {"idle", "get", "write", "stamp"}, s : Saves \cup {NoSave}, mtime : Nat, got : Nat]
Requests   == [st : {"none", "sent", "conflict", "ok", "failed"}, path : Paths,
               body : Blobs, sha : Blobs, retry : BOOLEAN]

(* A save is named exactly while it is on its way.                         *)
TypeOK ==
    /\ clock \in Nat
    /\ local \in [Saves -> [ver : Nat, mtime : Nat]]
    /\ running \subseteq Saves /\ overtaken \subseteq Saves
    /\ cloud \in [Paths -> Blobs] /\ sha \in [Paths -> Blobs]
    /\ man \in Entries
    /\ full \in FullStates
    /\ full.cur # NoSave => full.pc \in {"up", "write", "stamp"}
    /\ full.pc \in {"write", "stamp"} => full.cur # NoSave
    /\ hook \in [Hooks -> HookStates]
    /\ \A h \in Hooks : hook[h].pc # "idle" => hook[h].s # NoSave
    /\ pull \in PullStates
    /\ pull.pc # "idle" => pull.s # NoSave
    /\ req \in [Uploaders -> Requests]
    /\ fails \in Nat /\ crashes \in Nat

IdleFull == [pc |-> "idle", todo |-> NoEntries, planned |-> NoEntries, cur |-> NoSave, got |-> 0,
             snap |-> NoEntries, answered |-> FALSE, clean |-> TRUE, doubt |-> {}]
IdleHook == [pc |-> "idle", s |-> NoSave, mtime |-> 0]
IdlePull == [pc |-> "idle", s |-> NoSave, mtime |-> 0, got |-> 0]
NoReq    == [st |-> "none", path |-> Manifest, body |-> Nothing, sha |-> Nothing, retry |-> FALSE]

(* A library whose cloud backup, if any, was completed by an earlier run.  *)
(* Local files may be missing: a reinstalled PC.                           *)
Init ==
    /\ clock = 1
    /\ \E onDisk, backedUp \in SUBSET Saves :
          /\ local = [s \in Saves |-> IF s \in onDisk THEN [ver |-> 1, mtime |-> 1] ELSE NoFile]
          /\ cloud = [p \in Paths |->
                IF p = Manifest THEN Listing([s \in Saves |-> IF s \in backedUp THEN 1 ELSE 0])
                ELSE SaveBlob(IF p \in backedUp THEN 1 ELSE 0)]
    /\ running = {} /\ overtaken = {}
    /\ sha = NothingSeen
    /\ man = NoEntries
    /\ full = IdleFull
    /\ hook = [h \in Hooks |-> IdleHook]
    /\ pull = IdlePull
    /\ req = [u \in Uploaders |-> NoReq]
    /\ fails = 0 /\ crashes = 0

-----------------------------------------------------------------------------
(* UploadFileAsync.  A PUT carries the cached sha; GitHub applies it only  *)
(* when that is the stored one.  A conflict refreshes the sha cache and    *)
(* retries once, with the same bytes.                                      *)

Sent(u, p, bytes, seen) ==
    [req EXCEPT ![u] = [st |-> "sent", path |-> p, body |-> bytes, sha |-> seen[p], retry |-> FALSE]]

Fits(u) == req[u].sha = cloud[req[u].path]

Stored(u) == [cloud EXCEPT ![req[u].path] = req[u].body]

ServerPut(u) ==
    /\ req[u].st = "sent"
    /\ \/ Fits(u)  /\ cloud' = Stored(u) /\ req' = [req EXCEPT ![u].st = "ok"]
       \/ ~Fits(u) /\ cloud' = cloud     /\ req' = [req EXCEPT ![u].st = "conflict"]
    /\ UNCHANGED <<disk, sha, man, full, hook, pull, net>>

(* The request or its answer is lost, or GitHub answers an error: the      *)
(* uploader sees a failure either way.                                     *)
LosePut(u) ==
    /\ req[u].st = "sent" /\ fails < MaxFails
    /\ cloud' \in {cloud} \cup (IF Fits(u) THEN {Stored(u)} ELSE {})
    /\ req' = [req EXCEPT ![u].st = "failed"]
    /\ fails' = fails + 1
    /\ UNCHANGED <<disk, sha, man, full, hook, pull, crashes>>

MutRetryPut(u) ==
    /\ req[u].st = "conflict"
    /\ req' = [req EXCEPT ![u].st = "sent"]
    /\ UNCHANGED <<disk, cloud, sha, man, full, hook, pull, net>>

RetryPut(u) ==
    /\ req[u].st = "conflict"
    /\ \/ /\ req[u].retry
          /\ req' = [req EXCEPT ![u].st = "failed"]
          /\ UNCHANGED <<sha, fails>>
       \/ /\ ~req[u].retry
          /\ \/ sha' = cloud /\ UNCHANGED fails
             \/ fails < MaxFails /\ fails' = fails + 1 /\ UNCHANGED sha
          /\ req' = [req EXCEPT ![u].st = "sent", ![u].retry = TRUE, ![u].sha = sha'[req[u].path]]
    /\ UNCHANGED <<disk, cloud, man, full, hook, pull, crashes>>

(* What a successful PUT leaves in the sha cache.                          *)
ShaAfter(u) == IF req[u].st = "ok" THEN [sha EXCEPT ![req[u].path] = req[u].body] ELSE sha

Answered(u) == req[u].st \in {"ok", "failed"}

-----------------------------------------------------------------------------
(* RunFullSyncAsync.                                                       *)

FullSyncStart ==
    /\ full.pc = "idle" /\ clock <= MaxClock
    /\ full' = [IdleFull EXCEPT !.pc = "refresh"]
    /\ UNCHANGED <<disk, cloud, sha, man, hook, pull, req, net>>

RefreshShaCache ==
    /\ full.pc = "refresh"
    /\ \/ sha' = cloud /\ UNCHANGED fails
       \/ fails < MaxFails /\ fails' = fails + 1 /\ UNCHANGED sha
    /\ full' = [full EXCEPT !.pc = "load"]
    /\ UNCHANGED <<disk, cloud, man, hook, pull, req, crashes>>

(* LoadManifestAsync: GitHub's answer, then the assignment.  A download    *)
(* that fails for any reason gives the empty manifest.                     *)
FetchManifest ==
    /\ full.pc = "load"
    /\ \/ /\ full' = [full EXCEPT !.pc = "loaded", !.snap = cloud[Manifest].list, !.answered = TRUE]
          /\ UNCHANGED fails
       \/ /\ fails < MaxFails /\ fails' = fails + 1
          /\ full' = [full EXCEPT !.pc = "loaded", !.snap = NoEntries, !.answered = FALSE]
    /\ UNCHANGED <<disk, cloud, sha, man, hook, pull, req, crashes>>

MutLoadManifest ==
    /\ full.pc = "loaded"
    /\ man' = [s \in Saves |-> IF local[s] = NoFile THEN 0 ELSE full.snap[s]]
    /\ sha' = IF full.answered THEN [sha EXCEPT ![Manifest] = Listing(full.snap)] ELSE sha
    /\ full' = [full EXCEPT !.pc = "plan"]
    /\ UNCHANGED <<disk, cloud, hook, pull, req, net>>

LoadManifest ==
    /\ full.pc = "loaded"
    /\ man' = full.snap
    /\ sha' = IF full.answered THEN [sha EXCEPT ![Manifest] = Listing(full.snap)] ELSE sha
    /\ full' = [full EXCEPT !.pc = "plan"]
    /\ UNCHANGED <<disk, cloud, hook, pull, req, net>>

(* Local saves the manifest does not list, or lists as older.              *)
NewerHere == [s \in Saves |-> IF local[s].mtime > man[s] THEN local[s].mtime ELSE 0]

PlanUpload ==
    /\ full.pc = "plan"
    /\ full' = [full EXCEPT !.pc = "up", !.todo = NewerHere, !.doubt = overtaken,
                            !.planned = [s \in Saves |-> local[s].ver]]
    /\ UNCHANGED <<disk, cloud, sha, man, hook, pull, req, net>>

FullUpload(s) ==
    /\ full.pc = "up" /\ full.cur = NoSave /\ full.todo[s] # 0
    /\ full' = [full EXCEPT !.cur = s]
    /\ req' = Sent(FullSync, s, SaveBlob(local[s].ver), sha)
    /\ UNCHANGED <<disk, cloud, sha, man, hook, pull, net>>

(* The manifest entry is the time seen when the upload was planned; the    *)
(* bytes were read after that.                                             *)
MutFullUploaded ==
    /\ full.pc = "up" /\ full.cur # NoSave /\ Answered(FullSync)
    /\ man' = IF req[FullSync].st = "ok" THEN [man EXCEPT ![full.cur] = local[full.cur].mtime] ELSE man
    /\ sha' = ShaAfter(FullSync)
    /\ full' = [full EXCEPT !.cur = NoSave, !.todo[full.cur] = 0,
                            !.clean = @ /\ req[FullSync].st = "ok"]
    /\ req' = [req EXCEPT ![FullSync] = NoReq]
    /\ UNCHANGED <<disk, cloud, hook, pull, net>>

MutFullUploadedLate ==
    /\ full.pc = "up" /\ full.cur # NoSave /\ Answered(FullSync)
    /\ man' = [man EXCEPT ![full.cur] = full.todo[full.cur]]
    /\ sha' = ShaAfter(FullSync)
    /\ full' = [full EXCEPT !.cur = NoSave, !.todo[full.cur] = 0]
    /\ req' = [req EXCEPT ![FullSync] = NoReq]
    /\ UNCHANGED <<disk, cloud, hook, pull, net>>

FullUploaded ==
    /\ full.pc = "up" /\ full.cur # NoSave /\ Answered(FullSync)
    /\ man' = IF req[FullSync].st = "ok" THEN [man EXCEPT ![full.cur] = full.todo[full.cur]] ELSE man
    /\ sha' = ShaAfter(FullSync)
    /\ full' = [full EXCEPT !.cur = NoSave, !.todo[full.cur] = 0,
                            !.clean = @ /\ req[FullSync].st = "ok"]
    /\ req' = [req EXCEPT ![FullSync] = NoReq]
    /\ UNCHANGED <<disk, cloud, hook, pull, net>>

(* Manifest entries with no local file, or an older one.                   *)
MutNewerThere == [s \in Saves |->
    IF man[s] # 0 /\ (local[s] = NoFile \/ man[s] # local[s].mtime) THEN man[s] ELSE 0]

NewerThere == [s \in Saves |->
    IF man[s] # 0 /\ (local[s] = NoFile \/ man[s] > local[s].mtime) THEN man[s] ELSE 0]

PlanDownload ==
    /\ full.pc = "up" /\ full.cur = NoSave /\ full.todo = NoEntries
    /\ full' = [full EXCEPT !.pc = "down", !.todo = NewerThere]
    /\ UNCHANGED <<disk, cloud, sha, man, hook, pull, req, net>>

FullDownload(s) ==
    /\ full.pc = "down" /\ full.todo[s] # 0
    /\ \/ /\ cloud[s].ver # 0
          /\ sha' = [sha EXCEPT ![s] = cloud[s]]
          /\ full' = [full EXCEPT !.pc = "write", !.cur = s, !.got = cloud[s].ver]
          /\ UNCHANGED fails
       \/ /\ full' = [full EXCEPT !.todo[s] = 0, !.clean = FALSE]
          /\ \/ cloud[s].ver = 0 /\ UNCHANGED fails
             \/ fails < MaxFails /\ fails' = fails + 1
          /\ UNCHANGED sha
    /\ UNCHANGED <<disk, cloud, man, hook, pull, req, crashes>>

(* WriteAllBytes: the file takes the time of the write.  Its time is not   *)
(* looked at again.                                                        *)
FullWrite ==
    /\ full.pc = "write"
    /\ clock' = clock + 1
    /\ local' = [local EXCEPT ![full.cur] = [ver |-> full.got, mtime |-> clock']]
    /\ overtaken' = overtaken \ {full.cur}
    /\ full' = [full EXCEPT !.pc = "stamp"]
    /\ UNCHANGED <<running, cloud, sha, man, hook, pull, req, net>>

(* SetLastWriteTimeUtc gives a file the time of the download, whoever      *)
(* wrote its bytes.                                                        *)
Stamp(s, time, bytes) ==
    /\ local' = [local EXCEPT ![s].mtime = time]
    /\ overtaken' = IF local[s].ver = bytes THEN overtaken ELSE overtaken \cup {s}

MutFullStamp ==
    /\ full.pc = "stamp"
    /\ Stamp(full.cur, full.todo[full.cur], full.got)
    /\ full' = [full EXCEPT !.pc = "down", !.got = 0, !.todo[full.cur] = 0]
    /\ UNCHANGED <<clock, running, cloud, sha, man, hook, pull, req, net>>

FullStamp ==
    /\ full.pc = "stamp"
    /\ Stamp(full.cur, full.todo[full.cur], full.got)
    /\ full' = [full EXCEPT !.pc = "down", !.cur = NoSave, !.got = 0, !.todo[full.cur] = 0]
    /\ UNCHANGED <<clock, running, cloud, sha, man, hook, pull, req, net>>

FullSaveManifest ==
    /\ full.pc = "down" /\ full.todo = NoEntries
    /\ full' = [full EXCEPT !.pc = "save"]
    /\ req' = Sent(FullSync, Manifest, Listing(man), sha)
    /\ UNCHANGED <<disk, cloud, sha, man, hook, pull, net>>

(* SaveManifestAsync's outcome is not counted among the errors.            *)
FullSaved ==
    /\ full.pc = "save" /\ Answered(FullSync)
    /\ sha' = ShaAfter(FullSync)
    /\ full' = [full EXCEPT !.pc = "done"]
    /\ req' = [req EXCEPT ![FullSync] = NoReq]
    /\ UNCHANGED <<disk, cloud, man, hook, pull, net>>

FullReturn ==
    /\ full.pc = "done"
    /\ full' = IdleFull
    /\ UNCHANGED <<disk, cloud, sha, man, hook, pull, req, net>>

-----------------------------------------------------------------------------
(* The upload hooks.  Everything up to the PUT runs in the caller's step.  *)

Due(s) == local[s] # NoFile /\ local[s].mtime > man[s]

HookBegin(s) ==
    IF Due(s)
    THEN \E h \in Hooks :
           /\ hook[h].pc = "idle"
           /\ hook' = [hook EXCEPT ![h] = [pc |-> "up", s |-> s, mtime |-> local[s].mtime]]
           /\ req' = Sent(h, s, SaveBlob(local[s].ver), sha)
    ELSE UNCHANGED <<hook, req>>

(* A .srm's entry takes the file's time after the upload; a card's the     *)
(* time it was listed with.  SaveManifestAsync follows at once.            *)
MutHookUploaded(h) ==
    /\ hook[h].pc = "up" /\ Answered(h)
    /\ man' = [man EXCEPT ![hook[h].s] = local[hook[h].s].mtime]
    /\ sha' = ShaAfter(h)
    /\ hook' = [hook EXCEPT ![h].pc = "save"]
    /\ req' = Sent(h, Manifest, Listing(man'), sha)
    /\ UNCHANGED <<disk, cloud, full, pull, net>>

HookUploaded(h) ==
    /\ hook[h].pc = "up" /\ req[h].st = "ok"
    /\ LET s == hook[h].s IN
         man' = [man EXCEPT ![s] = IF s \in Cards THEN hook[h].mtime ELSE local[s].mtime]
    /\ sha' = ShaAfter(h)
    /\ hook' = [hook EXCEPT ![h].pc = "save"]
    /\ req' = Sent(h, Manifest, Listing(man'), sha)
    /\ UNCHANGED <<disk, cloud, full, pull, net>>

HookDone(h) ==
    /\ \/ hook[h].pc = "up" /\ req[h].st = "failed"
       \/ hook[h].pc = "save" /\ Answered(h)
    /\ sha' = ShaAfter(h)
    /\ hook' = [hook EXCEPT ![h] = IdleHook]
    /\ req' = [req EXCEPT ![h] = NoReq]
    /\ UNCHANGED <<disk, cloud, man, full, pull, net>>

PeriodicTick(s) ==
    /\ Timing = "periodic" /\ s \in running /\ Due(s)
    /\ HookBegin(s)
    /\ UNCHANGED <<disk, cloud, sha, man, full, pull, net>>

-----------------------------------------------------------------------------
(* Launch: the pull decides from the manifest in memory, downloads, writes *)
(* and only then is the host spawned.                                      *)

Wanted(s) ==
    IF s \in Cards
    THEN man[s] # 0 /\ (local[s] = NoFile \/ man[s] > local[s].mtime)
    ELSE local[s] = NoFile \/ man[s] > local[s].mtime

Launch(s) ==
    /\ s \notin running /\ pull.pc = "idle"
    /\ \/ /\ Timing # "manual" /\ Wanted(s)
          /\ pull' = [pc |-> "get", s |-> s, mtime |-> man[s], got |-> 0]
          /\ UNCHANGED running
       \/ /\ Timing = "manual" \/ ~Wanted(s)
          /\ running' = running \cup {s}
          /\ UNCHANGED pull
    /\ UNCHANGED <<clock, local, overtaken, cloud, sha, man, full, hook, req, net>>

PullDownload ==
    /\ pull.pc = "get"
    /\ \/ /\ cloud[pull.s].ver # 0
          /\ sha' = [sha EXCEPT ![pull.s] = cloud[pull.s]]
          /\ pull' = [pull EXCEPT !.pc = "write", !.got = cloud[pull.s].ver]
          /\ UNCHANGED <<running, fails>>
       \/ /\ pull' = IdlePull /\ running' = running \cup {pull.s}
          /\ \/ cloud[pull.s].ver = 0 /\ UNCHANGED fails
             \/ fails < MaxFails /\ fails' = fails + 1
          /\ UNCHANGED sha
    /\ UNCHANGED <<clock, local, overtaken, cloud, man, full, hook, req, crashes>>

(* Without a manifest entry the file keeps the time it was written at.     *)
PullWrite ==
    /\ pull.pc = "write"
    /\ clock' = clock + 1
    /\ local' = [local EXCEPT ![pull.s] = [ver |-> pull.got, mtime |-> clock']]
    /\ overtaken' = overtaken \ {pull.s}
    /\ \/ pull.mtime # 0 /\ pull' = [pull EXCEPT !.pc = "stamp"] /\ UNCHANGED running
       \/ pull.mtime = 0 /\ pull' = IdlePull /\ running' = running \cup {pull.s}
    /\ UNCHANGED <<cloud, sha, man, full, hook, req, net>>

PullStamp ==
    /\ pull.pc = "stamp"
    /\ Stamp(pull.s, pull.mtime, pull.got)
    /\ running' = running \cup {pull.s}
    /\ pull' = IdlePull
    /\ UNCHANGED <<clock, cloud, sha, man, full, hook, req, net>>

(* The host's SRAM autosave, in its own process.                           *)
HostSave(s) ==
    /\ s \in running /\ clock < MaxClock
    /\ clock' = clock + 1
    /\ local' = [local EXCEPT ![s] = [ver |-> clock', mtime |-> clock']]
    /\ overtaken' = overtaken \ {s}
    /\ UNCHANGED <<running, cloud, sha, man, full, hook, pull, req, net>>

(* The supervisor sees the host exit and fires the close hook.             *)
HostExit(s) ==
    /\ s \in running
    /\ running' = running \ {s}
    /\ IF Timing = "manual" THEN UNCHANGED <<hook, req>> ELSE HookBegin(s)
    /\ UNCHANGED <<clock, local, overtaken, cloud, sha, man, full, pull, net>>

-----------------------------------------------------------------------------
(* The app dies: everything in memory is gone, a PUT on the wire may still *)
(* be applied.  A reinstall also loses the local files.                    *)

Crash ==
    /\ crashes < MaxCrashes
    /\ crashes' = crashes + 1
    /\ cloud' \in {cloud} \cup {Stored(u) : u \in {v \in Uploaders : req[v].st = "sent" /\ Fits(v)}}
    /\ \/ UNCHANGED <<local, overtaken>>
       \/ local' = [s \in Saves |-> NoFile] /\ overtaken' = {}
    /\ running' = {}
    /\ sha' = NothingSeen
    /\ man' = NoEntries
    /\ full' = IdleFull
    /\ hook' = [h \in Hooks |-> IdleHook]
    /\ pull' = IdlePull
    /\ req' = [u \in Uploaders |-> NoReq]
    /\ UNCHANGED <<clock, fails>>

FullStep ==
    \/ RefreshShaCache \/ FetchManifest \/ LoadManifest
    \/ PlanUpload \/ (\E s \in Saves : FullUpload(s)) \/ FullUploaded
    \/ PlanDownload \/ (\E s \in Saves : FullDownload(s)) \/ FullWrite \/ FullStamp
    \/ FullSaveManifest \/ FullSaved \/ FullReturn

PutStep(u) == ServerPut(u) \/ LosePut(u) \/ RetryPut(u)

HookStep(h) == HookUploaded(h) \/ HookDone(h)

PullStep == PullDownload \/ PullWrite \/ PullStamp

Next ==
    \/ FullSyncStart
    \/ FullStep
    \/ \E u \in Uploaders : PutStep(u)
    \/ \E h \in Hooks : HookStep(h)
    \/ PullStep
    \/ \E s \in Saves : Launch(s) \/ HostSave(s) \/ HostExit(s) \/ PeriodicTick(s)
    \/ Crash

Spec == Init /\ [][Next]_vars

(* The thread pool runs a started sync to its end and every HTTP call ends *)
(* (Http.Timeout).  Nobody is obliged to start a sync or play a game.      *)
FairSpec ==
    /\ Spec
    /\ WF_vars(FullStep)
    /\ \A h \in Hooks : WF_vars(HookStep(h))
    /\ \A u \in Uploaders : WF_vars(PutStep(u))

-----------------------------------------------------------------------------
(* Whatever a manifest lists can be downloaded: the blob is stored before  *)
(* its entry, in the repository's manifest and in the one in memory,       *)
(* whichever uploads race or fail and wherever the app dies.               *)
ManifestBacked ==
    \A s \in Saves : (man[s] # 0 \/ cloud[Manifest].list[s] # 0) => cloud[s].ver # 0

(* No save is newer than the cloud's and yet taken for backed up (the      *)
(* `LastModifiedUtc <= remoteMtime` skip): wherever PUTs, answers and the  *)
(* app itself are lost, and whatever time a write that was cut short left, *)
(* except on a save an autosave replaced between the two calls that write  *)
(* and stamp a download.                                                   *)
NothingHidden ==
    \A s \in Saves \ overtaken :
        local[s].mtime <= cloud[Manifest].list[s] => local[s].ver <= cloud[s].ver

(* "Synced, 0 failed": every save that existed when the sync looked is in  *)
(* the cloud at least as new, but for those the manifest then took for     *)
(* backed up (`doubt`), and everything listed is on this PC.               *)
SyncedMeansBackedUp ==
    full.pc = "done" /\ full.clean =>
        \A s \in Saves : /\ s \notin full.doubt => cloud[s].ver >= full.planned[s]
                         /\ man[s] # 0 => local[s] # NoFile

(* A started full sync ends, whatever fails.                               *)
FullSyncEnds == full.pc # "idle" ~> full.pc = "idle"

(* A download never replaces a local save by an older one ("never          *)
(* overwrite a local save that's newer or equal").                         *)
SyncNeverRegresses ==
    [][\A s \in Saves : FullWrite \/ PullWrite => local'[s].ver >= local[s].ver]_vars

(* Without other uploaders nothing goes back: neither PUT, retry, failure  *)
(* nor death ever puts an older save into the cloud, and a download is     *)
(* older than the save it replaces only if that one was written after the  *)
(* sync had looked (the race of SyncNeverRegresses, and no other).         *)
OnlyRacedLost ==
    [][\A s \in Saves :
          /\ cloud'[s].ver >= cloud[s].ver
          /\ FullWrite /\ local'[s].ver < local[s].ver => local[s].ver > full.planned[s]]_vars

(* Without other uploaders the stored manifest drops or backdates an entry *)
(* only in a sync whose own download of the manifest had failed.           *)
OnlyUnansweredDelists ==
    [][\A s \in Saves :
          cloud'[Manifest].list[s] < cloud[Manifest].list[s] => ~full.answered]_vars

(* Under manual timing these are the only two ways to lose something: a    *)
(* save written during the sync's download, an entry after a manifest that *)
(* was not fetched.                                                        *)
KnownLosses == OnlyRacedLost /\ OnlyUnansweredDelists

(* Both halves of what manual timing promises: no save is taken for backed *)
(* up that is not, and a sync without failure has backed up what it saw,   *)
(* except where an autosave got a download's time.                         *)
ManualHonest == NothingHidden /\ SyncedMeansBackedUp

(* The same with no save excepted (""Sync Now" backs up everything that   *)
(* changed").                                                              *)
SyncedBacksUpAll ==
    full.pc = "done" /\ full.clean => \A s \in Saves : cloud[s].ver >= full.planned[s]

(* The manifest never claims a newer time than the blob it describes has:  *)
(* SetLastWriteTimeUtc is there because the time of the write is "newer    *)
(* than the manifest entry".                                               *)
ManifestNotAhead ==
    \A s \in Saves : cloud[Manifest].list[s] <= cloud[s].ver

(* Once a game is closed, nothing is in flight and no request was ever     *)
(* lost, the cloud has the save that game wrote last: "After actually      *)
(* playing, the local .srm mtime is "now" and wins".                       *)
PlayedMeansBackedUp ==
    /\ Timing # "manual" /\ fails = 0 /\ crashes = 0
    /\ full.pc = "idle" /\ pull.pc = "idle" /\ running = {}
    /\ \A h \in Hooks : hook[h].pc = "idle"
    => \A s \in Saves : local[s].ver > 1 => cloud[s].ver >= local[s].ver

(* Every upload fired at a session's close or by the timer ends, whatever  *)
(* the other uploaders do to the blob it replaces.                         *)
HooksEnd == \A h \in Hooks : hook[h].pc # "idle" ~> hook[h].pc = "idle"

(* Neither uploader holds up the other for ever: full syncs and hooks end, *)
(* although each may refuse the other's sha.                               *)
UploadersEnd == FullSyncEnds /\ HooksEnd

(* What the cloud lists stays listed: "restores anything missing from this *)
(* PC" needs the manifest of the earlier syncs.                            *)
ListedStaysListed ==
    [][\A s \in Saves : cloud[Manifest].list[s] # 0 => cloud'[Manifest].list[s] # 0]_vars
==============================================================================
