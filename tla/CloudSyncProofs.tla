--------------------------- MODULE CloudSyncProofs ---------------------------
(***************************************************************************)
(* What CloudSync's runs check on two saves, proved for any set of saves,  *)
(* any number of concurrent uploads, losses and app deaths.                *)
(***************************************************************************)
EXTENDS CloudSync, TLAPS

USE NamesAssumption

(* The helpers yield blobs and requests.                                   *)
LEMMA BlobTypes ==
    /\ NoEntries \in Entries
    /\ \A v \in Nat : SaveBlob(v) \in Blobs
    /\ \A m \in Entries : Listing(m) \in Blobs
    /\ Nothing \in Blobs /\ NothingSeen \in [Paths -> Blobs] /\ NoReq \in Requests
  <1>1. NoEntries \in Entries
    BY DEF NoEntries, Entries
  <1>2. \A v \in Nat : SaveBlob(v) \in Blobs
    BY <1>1 DEF SaveBlob, Blobs
  <1>3. \A m \in Entries : Listing(m) \in Blobs
    BY DEF Listing, Blobs
  <1>4. Nothing \in Blobs
    BY <1>2 DEF Nothing
  <1> QED
    BY <1>1, <1>2, <1>3, <1>4 DEF NothingSeen, NoReq, Requests, Paths

(* A request put on the wire is a well-formed request.                     *)
LEMMA SentType ==
    ASSUME req \in [Uploaders -> Requests], NEW u \in Uploaders, NEW p \in Paths,
           NEW bytes \in Blobs, NEW seen \in [Paths -> Blobs]
    PROVE  Sent(u, p, bytes, seen) \in [Uploaders -> Requests]
  BY DEF Sent, Requests

(* A PUT that GitHub applies leaves a well-formed repository.              *)
LEMMA StoredType ==
    ASSUME cloud \in [Paths -> Blobs], req \in [Uploaders -> Requests], NEW u \in Uploaders
    PROVE  Stored(u) \in [Paths -> Blobs]
  BY DEF Stored, Requests

(* What an uploader notes from an answer is a well-formed sha cache.       *)
LEMMA ShaAfterType ==
    ASSUME sha \in [Paths -> Blobs], req \in [Uploaders -> Requests], NEW u \in Uploaders
    PROVE  ShaAfter(u) \in [Paths -> Blobs]
  BY DEF ShaAfter, Requests

(* The resting states of the full sync, the hooks and the pull are typed.  *)
LEMMA IdleTypes ==
    IdleFull \in FullStates /\ IdleHook \in HookStates /\ IdlePull \in PullStates
  BY BlobTypes DEF IdleFull, IdleHook, IdlePull, FullStates, FullPcs, HookStates, PullStates

(* A stamp changes the time of one file and the bytes of none.             *)
LEMMA Stamped ==
    ASSUME TypeOK, NEW s \in Saves, NEW time \in Nat, NEW bytes, Stamp(s, time, bytes)
    PROVE  /\ local' \in [Saves -> [ver : Nat, mtime : Nat]] /\ overtaken' \subseteq Saves
           /\ local'[s].mtime = time
           /\ \A r \in Saves : local'[r].ver = local[r].ver /\ (r # s => local'[r] = local[r])
           /\ overtaken \subseteq overtaken' /\ overtaken' \subseteq overtaken \cup {s}
           /\ s \notin overtaken' => local[s].ver = bytes
  BY DEF Stamp, TypeOK

-----------------------------------------------------------------------------
(* The library the app starts with is well typed.                          *)
LEMMA InitTypeOK == Init => TypeOK
  <1> SUFFICES ASSUME Init PROVE TypeOK
    OBVIOUS
  <1>1. PICK onDisk \in SUBSET Saves, backedUp \in SUBSET Saves :
          /\ local = [s \in Saves |-> IF s \in onDisk THEN [ver |-> 1, mtime |-> 1] ELSE NoFile]
          /\ cloud = [p \in Paths |->
                IF p = Manifest THEN Listing([s \in Saves |-> IF s \in backedUp THEN 1 ELSE 0])
                ELSE SaveBlob(IF p \in backedUp THEN 1 ELSE 0)]
    BY DEF Init
  <1>2. local \in [Saves -> [ver : Nat, mtime : Nat]]
    BY <1>1 DEF NoFile
  <1>3. [s \in Saves |-> IF s \in backedUp THEN 1 ELSE 0] \in Entries
    BY DEF Entries
  <1>4. cloud \in [Paths -> Blobs]
    BY <1>1, <1>3, BlobTypes
  <1> QED
    BY <1>2, <1>4, BlobTypes, IdleTypes
       DEF Init, TypeOK, IdleFull, IdleHook, IdlePull

(* GitHub's answer, its loss and the conflict retry keep the types.        *)
LEMMA PutTypeOK ==
    ASSUME TypeOK, NEW u \in Uploaders, PutStep(u)
    PROVE  TypeOK'
  <1>1. CASE ServerPut(u)
    <2>1. cloud' \in [Paths -> Blobs]
      BY <1>1, StoredType DEF ServerPut, TypeOK
    <2>2. req' \in [Uploaders -> Requests]
      <3>1. req \in [Uploaders -> Requests]
        BY DEF TypeOK
      <3>2. req[u].st \in {"sent"} /\ [req[u] EXCEPT !.st = "ok"] \in Requests
            /\ [req[u] EXCEPT !.st = "conflict"] \in Requests
        BY <1>1, <3>1 DEF ServerPut, Requests
      <3>3. req' = [req EXCEPT ![u] = [req[u] EXCEPT !.st = "ok"]]
            \/ req' = [req EXCEPT ![u] = [req[u] EXCEPT !.st = "conflict"]]
        BY <1>1 DEF ServerPut
      <3> QED
        BY <3>1, <3>2, <3>3
    <2> QED
      BY <1>1, <2>1, <2>2 DEF ServerPut, TypeOK, disk, net
  <1>2. CASE LosePut(u)
    <2>1. cloud' \in [Paths -> Blobs]
      BY <1>2, StoredType DEF LosePut, TypeOK
    <2>2. req' \in [Uploaders -> Requests]
      BY <1>2 DEF LosePut, TypeOK, Requests
    <2> QED
      BY <1>2, <2>1, <2>2 DEF LosePut, TypeOK, disk
  <1>3. CASE RetryPut(u)
    <2>1. sha' \in [Paths -> Blobs] /\ fails' \in Nat
      BY <1>3 DEF RetryPut, TypeOK
    <2>2. req' \in [Uploaders -> Requests]
      BY <1>3, <2>1 DEF RetryPut, TypeOK, Requests
    <2> QED
      BY <1>3, <2>1, <2>2 DEF RetryPut, TypeOK, disk
  <1> QED
    BY <1>1, <1>2, <1>3 DEF PutStep

(* Every step of a full sync keeps the types.                              *)
LEMMA FullTypeOK ==
    ASSUME TypeOK, FullSyncStart \/ FullStep
    PROVE  TypeOK'
  <1> USE BlobTypes, IdleTypes DEF TypeOK, FullStates, FullPcs, disk, net
  <1>u. FullSync \in Uploaders /\ Manifest \in Paths /\ Saves \subseteq Paths
    BY DEF Uploaders, Paths
  <1>n. NewerHere \in Entries /\ NewerThere \in Entries /\ [s \in Saves |-> local[s].ver] \in Entries
    BY DEF NewerHere, NewerThere, Entries
  <1>1. CASE FullSyncStart
    BY <1>1 DEF FullSyncStart, IdleFull
  <1>2. CASE RefreshShaCache
    BY <1>2 DEF RefreshShaCache
  <1>3. CASE FetchManifest
    <2>1. cloud[Manifest].list \in Entries
      BY <1>u DEF Blobs
    <2>2. PICK m \in Entries, a \in BOOLEAN :
            full' = [full EXCEPT !.pc = "loaded", !.snap = m, !.answered = a]
      BY <1>3, <2>1 DEF FetchManifest
    <2>3. full.cur = NoSave
      BY <1>3 DEF FetchManifest
    <2>4. fails' \in Nat
      BY <1>3 DEF FetchManifest
    <2> QED
      BY <1>3, <2>2, <2>3, <2>4 DEF FetchManifest
  <1>4. CASE LoadManifest
    <2>1. sha' \in [Paths -> Blobs] /\ man' \in Entries
      BY <1>4, <1>u DEF LoadManifest
    <2> QED
      BY <1>4, <2>1 DEF LoadManifest
  <1>5. CASE PlanUpload
    BY <1>5, <1>n DEF PlanUpload
  <1>6. ASSUME NEW s \in Saves, FullUpload(s) PROVE TypeOK'
    <2>1. req' \in [Uploaders -> Requests]
      BY <1>6, <1>u, SentType DEF FullUpload
    <2> QED
      BY <1>6, <2>1 DEF FullUpload
  <1>7. CASE FullUploaded
    <2>1. full.cur \in Saves
      BY <1>7 DEF FullUploaded
    <2>2. sha' \in [Paths -> Blobs] /\ req' \in [Uploaders -> Requests]
      BY <1>7, <1>u, ShaAfterType DEF FullUploaded
    <2>3. man' \in Entries /\ [full.todo EXCEPT ![full.cur] = 0] \in Entries
      BY <1>7, <2>1 DEF FullUploaded, Entries
    <2> QED
      BY <1>7, <2>2, <2>3 DEF FullUploaded
  <1>8. CASE PlanDownload
    BY <1>8, <1>n DEF PlanDownload
  <1>9. ASSUME NEW s \in Saves, FullDownload(s) PROVE TypeOK'
    <2>1. cloud[s] \in Blobs /\ cloud[s].ver \in Nat
      BY <1>u DEF Blobs
    <2>2. sha' \in [Paths -> Blobs] /\ fails' \in Nat /\ [full.todo EXCEPT ![s] = 0] \in Entries
      BY <1>9, <1>u, <2>1 DEF FullDownload, Entries
    <2> QED
      BY <1>9, <2>1, <2>2 DEF FullDownload
  <1>10. CASE FullWrite
    <2>1. full.cur \in Saves
      BY <1>10 DEF FullWrite
    <2>2. clock' \in Nat /\ local' \in [Saves -> [ver : Nat, mtime : Nat]] /\ overtaken' \subseteq Saves
      BY <1>10, <2>1 DEF FullWrite
    <2> QED
      BY <1>10, <2>1, <2>2 DEF FullWrite
  <1>14. CASE FullStamp
    <2>1. full.cur \in Saves
      BY <1>14 DEF FullStamp
    <2>2. full.todo[full.cur] \in Nat /\ [full.todo EXCEPT ![full.cur] = 0] \in Entries
      BY <2>1 DEF Entries
    <2>3. local' \in [Saves -> [ver : Nat, mtime : Nat]] /\ overtaken' \subseteq Saves
      BY <1>14, <2>1, <2>2, Stamped DEF FullStamp
    <2> QED
      BY <1>14, <2>2, <2>3 DEF FullStamp
  <1>11. CASE FullSaveManifest
    <2>1. req' \in [Uploaders -> Requests]
      BY <1>11, <1>u, SentType DEF FullSaveManifest
    <2> QED
      BY <1>11, <2>1 DEF FullSaveManifest
  <1>12. CASE FullSaved
    <2>1. sha' \in [Paths -> Blobs] /\ req' \in [Uploaders -> Requests]
      BY <1>12, <1>u, ShaAfterType DEF FullSaved
    <2> QED
      BY <1>12, <2>1 DEF FullSaved
  <1>13. CASE FullReturn
    BY <1>13 DEF FullReturn, IdleFull
  <1> QED
    BY <1>1, <1>2, <1>3, <1>4, <1>5, <1>6, <1>7, <1>8, <1>9, <1>10, <1>11, <1>12, <1>13, <1>14
       DEF FullStep

(* Firing an upload hook keeps the hooks and requests typed.               *)
LEMMA HookBeginType ==
    ASSUME TypeOK, NEW s \in Saves, HookBegin(s)
    PROVE  /\ hook' \in [Hooks -> HookStates]
           /\ \A h \in Hooks : hook'[h].pc # "idle" => hook'[h].s # NoSave
           /\ req' \in [Uploaders -> Requests]
  <1>1. CASE Due(s)
    <2>1. PICK h \in Hooks :
            /\ hook' = [hook EXCEPT ![h] = [pc |-> "up", s |-> s, mtime |-> local[s].mtime]]
            /\ req' = Sent(h, s, SaveBlob(local[s].ver), sha)
      BY <1>1 DEF HookBegin
    <2>2. local[s].ver \in Nat /\ local[s].mtime \in Nat
      BY DEF TypeOK
    <2>3. req' \in [Uploaders -> Requests]
      BY <2>1, <2>2, SentType, BlobTypes DEF TypeOK, Uploaders, Paths
    <2> QED
      BY <2>1, <2>2, <2>3 DEF TypeOK, HookStates
  <1>2. CASE ~Due(s)
    BY <1>2 DEF HookBegin, TypeOK
  <1> QED
    BY <1>1, <1>2

(* The end of a hook's upload or manifest save keeps the types.            *)
LEMMA HookTypeOK ==
    ASSUME TypeOK, NEW h \in Hooks, HookStep(h)
    PROVE  TypeOK'
  <1>u. h \in Uploaders /\ Manifest \in Paths
    BY DEF Uploaders, Paths
  <1>1. CASE HookUploaded(h)
    <2>1. hook[h].s \in Saves /\ hook[h].mtime \in Nat
      BY <1>1 DEF HookUploaded, TypeOK, HookStates
    <2>2. man' \in Entries
      BY <1>1, <2>1 DEF HookUploaded, TypeOK, Entries
    <2>3. req' \in [Uploaders -> Requests] /\ sha' \in [Paths -> Blobs]
      BY <1>1, <1>u, <2>2, SentType, ShaAfterType, BlobTypes DEF HookUploaded, TypeOK
    <2>4. /\ hook' \in [Hooks -> HookStates]
          /\ \A k \in Hooks : hook'[k].pc # "idle" => hook'[k].s # NoSave
      BY <1>1, <2>1 DEF HookUploaded, TypeOK, HookStates
    <2> QED
      BY <1>1, <2>2, <2>3, <2>4 DEF HookUploaded, TypeOK, disk, net
  <1>2. CASE HookDone(h)
    <2>1. req' \in [Uploaders -> Requests] /\ sha' \in [Paths -> Blobs]
      BY <1>2, <1>u, ShaAfterType, BlobTypes DEF HookDone, TypeOK
    <2>2. /\ hook' \in [Hooks -> HookStates]
          /\ \A k \in Hooks : hook'[k].pc # "idle" => hook'[k].s # NoSave
      BY <1>2, IdleTypes DEF HookDone, TypeOK, IdleHook
    <2> QED
      BY <1>2, <2>1, <2>2 DEF HookDone, TypeOK, disk, net
  <1> QED
    BY <1>1, <1>2 DEF HookStep

(* The pre-launch download and its write keep the types.                   *)
LEMMA PullTypeOK ==
    ASSUME TypeOK, PullStep
    PROVE  TypeOK'
  <1> USE DEF TypeOK, PullStates, net
  <1>1. CASE PullDownload
    <2>1. pull.s \in Saves
      BY <1>1 DEF PullDownload
    <2>2. cloud[pull.s] \in Blobs /\ cloud[pull.s].ver \in Nat
      BY <2>1 DEF Paths, Blobs
    <2>3. sha' \in [Paths -> Blobs] /\ fails' \in Nat /\ running' \subseteq Saves
      BY <1>1, <2>1, <2>2 DEF PullDownload, Paths
    <2>4. pull' \in PullStates /\ (pull'.pc # "idle" => pull'.s # NoSave)
      BY <1>1, <2>1, <2>2, IdleTypes DEF PullDownload, IdlePull
    <2> QED
      BY <1>1, <2>3, <2>4 DEF PullDownload
  <1>2. CASE PullWrite
    <2>1. pull.s \in Saves
      BY <1>2 DEF PullWrite
    <2>2. clock' \in Nat /\ local' \in [Saves -> [ver : Nat, mtime : Nat]] /\ overtaken' \subseteq Saves
      BY <1>2, <2>1 DEF PullWrite
    <2>3. pull' \in PullStates /\ (pull'.pc # "idle" => pull'.s # NoSave) /\ running' \subseteq Saves
      BY <1>2, <2>1, IdleTypes DEF PullWrite, IdlePull
    <2> QED
      BY <1>2, <2>2, <2>3 DEF PullWrite
  <1>3. CASE PullStamp
    <2>1. pull.s \in Saves
      BY <1>3 DEF PullStamp
    <2>2. local' \in [Saves -> [ver : Nat, mtime : Nat]] /\ overtaken' \subseteq Saves
      BY <1>3, <2>1, Stamped DEF PullStamp
    <2> QED
      BY <1>3, <2>1, <2>2, IdleTypes DEF PullStamp, IdlePull
  <1> QED
    BY <1>1, <1>2, <1>3 DEF PullStep

(* Launches, host saves, host exits and timer ticks keep the types.        *)
LEMMA PlayTypeOK ==
    ASSUME TypeOK, NEW s \in Saves, Launch(s) \/ HostSave(s) \/ HostExit(s) \/ PeriodicTick(s)
    PROVE  TypeOK'
  <1>1. CASE Launch(s)
    BY <1>1 DEF Launch, TypeOK, net, PullStates, Entries
  <1>2. CASE HostSave(s)
    <2>1. clock' \in Nat /\ local' \in [Saves -> [ver : Nat, mtime : Nat]] /\ overtaken' \subseteq Saves
      BY <1>2 DEF HostSave, TypeOK
    <2> QED
      BY <1>2, <2>1 DEF HostSave, TypeOK, net
  <1>3. CASE HostExit(s)
    <2>1. /\ hook' \in [Hooks -> HookStates]
          /\ \A h \in Hooks : hook'[h].pc # "idle" => hook'[h].s # NoSave
          /\ req' \in [Uploaders -> Requests]
      BY <1>3, HookBeginType DEF HostExit, TypeOK
    <2> QED
      BY <1>3, <2>1 DEF HostExit, TypeOK, net
  <1>4. CASE PeriodicTick(s)
    BY <1>4, HookBeginType DEF PeriodicTick, TypeOK, disk, net
  <1> QED
    BY <1>1, <1>2, <1>3, <1>4

(* An app death or a reinstall leaves a well-typed state.                  *)
LEMMA CrashTypeOK ==
    ASSUME TypeOK, Crash
    PROVE  TypeOK'
  <1>1. cloud' \in [Paths -> Blobs]
    BY StoredType DEF Crash, TypeOK
  <1>2. local' \in [Saves -> [ver : Nat, mtime : Nat]] /\ overtaken' \subseteq Saves
    BY DEF Crash, TypeOK, NoFile
  <1>3. hook' \in [Hooks -> HookStates] /\ req' \in [Uploaders -> Requests]
    BY IdleTypes, BlobTypes DEF Crash
  <1> QED
    BY <1>1, <1>2, <1>3, IdleTypes, BlobTypes
       DEF Crash, TypeOK, IdleFull, IdleHook, IdlePull

(* Every variable keeps its type, and a save is named exactly while one of *)
(* the three kinds of transfer carries it.                                 *)
THEOREM TypeCorrect == Spec => []TypeOK
  <1>1. TypeOK /\ [Next]_vars => TypeOK'
    <2> SUFFICES ASSUME TypeOK, [Next]_vars PROVE TypeOK'
      OBVIOUS
    <2>1. CASE UNCHANGED vars
      BY <2>1 DEF TypeOK, vars, disk, net
    <2> QED
      BY <2>1, FullTypeOK, PutTypeOK, HookTypeOK, PullTypeOK, PlayTypeOK, CrashTypeOK DEF Next
  <1> QED
    BY InitTypeOK, <1>1, PTL DEF Spec

-----------------------------------------------------------------------------
(* Why ManifestBacked holds: whatever a manifest will come to say is       *)
(* already in the cloud when it is noted, in memory or in a request on its *)
(* way, and no PUT ever stores an empty save over it.                      *)
Noted(s) == man[s] # 0 \/ cloud[Manifest].list[s] # 0 \/ full.snap[s] # 0

RequestBacked(r) ==
    /\ r.path \in Saves => r.body.ver # 0
    /\ r.path \in Saves /\ r.st = "ok" => cloud[r.path].ver # 0
    /\ \A s \in Saves : r.body.list[s] # 0 => cloud[s].ver # 0

PathsAgree ==
    /\ full.pc = "up" /\ full.cur # NoSave => req[FullSync].path = full.cur
    /\ \A h \in Hooks : hook[h].pc = "up" => req[h].path = hook[h].s

NothingEmpty ==
    /\ \A s \in Saves : local[s].mtime # 0 => local[s].ver # 0
    /\ \A s \in Saves : full.pc = "up" /\ full.todo[s] # 0 => local[s].ver # 0
    /\ full.pc = "write" => full.got # 0
    /\ full.pc = "stamp" => local[full.cur].ver # 0
    /\ pull.pc = "write" => pull.got # 0
    /\ pull.pc = "stamp" => local[pull.s].ver # 0

BackedInv ==
    /\ \A s \in Saves : Noted(s) => cloud[s].ver # 0
    /\ \A u \in Uploaders : RequestBacked(req[u])
    /\ PathsAgree /\ NothingEmpty

(* An uploader without a request claims nothing.                           *)
LEMMA NoReqBacked == RequestBacked(NoReq)
  BY DEF RequestBacked, NoReq, Nothing, SaveBlob, NoEntries

(* A PUT leaves every backed-up save backed up, and what it stores as the  *)
(* manifest was noted before.                                              *)
LEMMA StoredKeeps ==
    ASSUME TypeOK, BackedInv, NEW u \in Uploaders
    PROVE  /\ \A s \in Saves : cloud[s].ver # 0 => Stored(u)[s].ver # 0
           /\ \A s \in Saves : Stored(u)[Manifest].list[s] # 0 => cloud[s].ver # 0
           /\ req[u].path \in Saves => Stored(u)[req[u].path].ver # 0
  BY DEF TypeOK, BackedInv, RequestBacked, Noted, Stored, Requests, Paths

(* Initially only what is stored is listed.                                *)
LEMMA BackedInit == Init => BackedInv
  <1> SUFFICES ASSUME Init PROVE BackedInv
    OBVIOUS
  <1> USE DEF Init
  <1>1. \A s \in Saves : Noted(s) => cloud[s].ver # 0
    BY DEF Noted, NoEntries, IdleFull, NoReq, Nothing, SaveBlob, Listing, Paths
  <1>2. PathsAgree
    BY DEF PathsAgree, IdleFull, IdleHook
  <1>3. NothingEmpty
    BY DEF NothingEmpty, IdleFull, IdlePull, NoFile
  <1> QED
    BY <1>1, <1>2, <1>3, NoReqBacked DEF BackedInv

(* No answer, loss or retry of a PUT makes a listed save unstored.         *)
LEMMA PutBacked ==
    ASSUME TypeOK, BackedInv, NEW u \in Uploaders, PutStep(u)
    PROVE  BackedInv'
  <1>1. /\ UNCHANGED <<local, man, full, hook, pull>>
        /\ req' \in [Uploaders -> Requests]
        /\ \A v \in Uploaders : req'[v].path = req[v].path /\ req'[v].body = req[v].body
        /\ \A v \in Uploaders : v # u => req'[v].st = req[v].st
        /\ (cloud' = cloud /\ req'[u].st # "ok") \/ cloud' = Stored(u)
    <2> USE PutTypeOK DEF TypeOK, Requests, disk
    <2>1. CASE ServerPut(u)
      BY <2>1 DEF ServerPut
    <2>2. CASE LosePut(u)
      BY <2>2 DEF LosePut
    <2>3. CASE RetryPut(u)
      <3>1. \/ req' = [req EXCEPT ![u].st = "failed"]
            \/ req' = [req EXCEPT ![u].st = "sent", ![u].retry = TRUE, ![u].sha = sha'[req[u].path]]
        BY <2>3 DEF RetryPut
      <3>2. UNCHANGED <<cloud, local, man, full, hook, pull>>
        BY <2>3 DEF RetryPut
      <3>3. req' \in [Uploaders -> Requests]
        OBVIOUS
      <3> QED
        BY <3>1, <3>2, <3>3
    <2> QED
      BY <2>1, <2>2, <2>3 DEF PutStep
  <1>2. \A s \in Saves : /\ cloud[s].ver # 0 => cloud'[s].ver # 0
                         /\ cloud'[Manifest].list[s] # 0 => cloud[s].ver # 0
    BY <1>1, StoredKeeps DEF BackedInv, Noted
  <1>3. \A s \in Saves : Noted(s)' => cloud'[s].ver # 0
    BY <1>1, <1>2 DEF BackedInv, Noted
  <1>4. PathsAgree' /\ NothingEmpty'
    BY <1>1 DEF BackedInv, PathsAgree, NothingEmpty, Uploaders
  <1>5. \A v \in Uploaders : RequestBacked(req[v])'
    BY <1>1, <1>2, StoredKeeps DEF BackedInv, RequestBacked
  <1> QED
    BY <1>3, <1>4, <1>5 DEF BackedInv

(* A request put on its way carries nothing that is not in the cloud yet.  *)
LEMMA SendBacked ==
    ASSUME TypeOK, BackedInv, NEW u \in Uploaders, NEW p \in Paths, NEW bytes \in Blobs, NEW seen,
           p \in Saves => bytes.ver # 0,
           \A s \in Saves : bytes.list[s] # 0 => cloud[s].ver # 0
    PROVE  \A v \in Uploaders : RequestBacked(Sent(u, p, bytes, seen)[v])
  <1> DEFINE r == [st |-> "sent", path |-> p, body |-> bytes, sha |-> seen[p], retry |-> FALSE]
  <1>1. RequestBacked(r)
    BY DEF RequestBacked
  <1>2. Sent(u, p, bytes, seen)[u] = r
    BY DEF Sent, TypeOK
  <1> HIDE DEF r
  <1>3. \A v \in Uploaders : v # u => Sent(u, p, bytes, seen)[v] = req[v]
    BY DEF Sent, TypeOK
  <1> QED
    BY <1>1, <1>2, <1>3 DEF BackedInv

(* A full sync lists a save only after its blob was stored.                *)
LEMMA FullBacked ==
    ASSUME TypeOK, BackedInv, FullSyncStart \/ FullStep
    PROVE  BackedInv'
  <1> USE DEF TypeOK, FullStates, BackedInv
  <1>u. FullSync \in Uploaders /\ FullSync \notin Hooks /\ Hooks \subseteq Uploaders
        /\ Manifest \in Paths /\ Saves \subseteq Paths
    BY DEF Uploaders, Paths
  <1>1. CASE FullSyncStart
    BY <1>1 DEF FullSyncStart, IdleFull, NoEntries, Noted, PathsAgree, NothingEmpty, RequestBacked, disk
  <1>2. CASE RefreshShaCache
    BY <1>2 DEF RefreshShaCache, Noted, PathsAgree, NothingEmpty, RequestBacked, disk
  <1>3. CASE FetchManifest
    <2>1. PICK m \in Entries, a \in BOOLEAN :
            /\ full' = [full EXCEPT !.pc = "loaded", !.snap = m, !.answered = a]
            /\ m = cloud[Manifest].list \/ m = NoEntries
      BY <1>3, <1>u, BlobTypes DEF FetchManifest, Blobs
    <2>2. \A s \in Saves : Noted(s)' => cloud'[s].ver # 0
      BY <1>3, <2>1 DEF FetchManifest, Noted, NoEntries
    <2> QED
      BY <1>3, <2>1, <2>2 DEF FetchManifest, PathsAgree, NothingEmpty, RequestBacked, disk
  <1>4. CASE LoadManifest
    BY <1>4 DEF LoadManifest, Noted, PathsAgree, NothingEmpty, RequestBacked, disk
  <1>5. CASE PlanUpload
    <2>1. full' = [full EXCEPT !.pc = "up", !.todo = NewerHere, !.doubt = overtaken,
                               !.planned = [s \in Saves |-> local[s].ver]]
      BY <1>5 DEF PlanUpload
    <2>2. full.cur = NoSave /\ \A s \in Saves : NewerHere[s] # 0 => local[s].ver # 0
      BY <1>5 DEF PlanUpload, NewerHere, NothingEmpty
    <2> QED
      BY <1>5, <2>1, <2>2 DEF PlanUpload, Noted, PathsAgree, NothingEmpty, RequestBacked, disk
  <1>6. ASSUME NEW s \in Saves, FullUpload(s) PROVE BackedInv'
    <2>1. SaveBlob(local[s].ver) \in Blobs /\ SaveBlob(local[s].ver).ver # 0
      BY <1>6, BlobTypes DEF FullUpload, NothingEmpty, SaveBlob
    <2>2. \A v \in Uploaders : RequestBacked(Sent(FullSync, s, SaveBlob(local[s].ver), sha)[v])
      BY <1>u, <2>1, SendBacked DEF SaveBlob, NoEntries
    <2>3. req' = Sent(FullSync, s, SaveBlob(local[s].ver), sha) /\ cloud' = cloud
      BY <1>6 DEF FullUpload
    <2>4. \A v \in Uploaders : RequestBacked(req[v])'
      BY <2>2, <2>3 DEF RequestBacked
    <2>5. req'[FullSync].path = s /\ \A h \in Hooks : req'[h] = req[h]
      BY <1>u, <2>3 DEF Sent
    <2>6. PathsAgree'
      BY <1>6, <2>5 DEF FullUpload, PathsAgree
    <2> QED
      BY <1>6, <2>4, <2>6 DEF FullUpload, Noted, NothingEmpty, disk
  <1>7. CASE FullUploaded
    <2>1. full.cur \in Saves /\ req[FullSync].path = full.cur
      BY <1>7 DEF FullUploaded, PathsAgree
    <2>2. \A s \in Saves : Noted(s)' => cloud'[s].ver # 0
      BY <1>7, <1>u, <2>1 DEF FullUploaded, Noted, RequestBacked, Entries
    <2>3. \A v \in Uploaders : RequestBacked(req[v])'
      BY <1>7, NoReqBacked DEF FullUploaded, RequestBacked
    <2>4. PathsAgree' /\ NothingEmpty'
      BY <1>7, <1>u, <2>1 DEF FullUploaded, PathsAgree, NothingEmpty, disk, Entries
    <2> QED
      BY <2>2, <2>3, <2>4
  <1>8. CASE PlanDownload
    BY <1>8 DEF PlanDownload, Noted, PathsAgree, NothingEmpty, RequestBacked, disk
  <1>9. ASSUME NEW s \in Saves, FullDownload(s) PROVE BackedInv'
    BY <1>9 DEF FullDownload, Noted, PathsAgree, NothingEmpty, RequestBacked, disk
  <1>10. CASE FullWrite
    <2>1. full.cur \in Saves /\ full'.pc = "stamp" /\ full'.cur = full.cur /\ full'.snap = full.snap
      BY <1>10 DEF FullWrite
    <2>2. local'[full.cur].ver # 0 /\ \A s \in Saves : local'[s] = local[s] \/ local'[s].ver # 0
      BY <1>10, <2>1 DEF FullWrite, NothingEmpty
    <2>3. NothingEmpty'
      BY <1>10, <2>1, <2>2 DEF FullWrite, NothingEmpty
    <2> QED
      BY <1>10, <2>1, <2>3 DEF FullWrite, Noted, PathsAgree, RequestBacked
  <1>14. CASE FullStamp
    <2>1. /\ full.cur \in Saves /\ full.todo[full.cur] \in Nat /\ full.pc = "stamp"
          /\ full'.pc = "down" /\ full'.cur = NoSave /\ full'.snap = full.snap
      BY <1>14 DEF FullStamp, Entries
    <2>2. \A s \in Saves : local'[s].ver = local[s].ver /\ (s # full.cur => local'[s] = local[s])
      BY <1>14, <2>1, Stamped DEF FullStamp
    <2>3. local[full.cur].ver # 0 /\ UNCHANGED pull /\ (pull.pc = "stamp" => pull.s \in Saves)
      BY <1>14, <2>1 DEF FullStamp, NothingEmpty, PullStates
    <2>4. NothingEmpty'
      BY <2>1, <2>2, <2>3 DEF NothingEmpty
    <2> QED
      BY <1>14, <2>1, <2>4 DEF FullStamp, Noted, PathsAgree, RequestBacked
  <1>11. CASE FullSaveManifest
    <2>1. \A v \in Uploaders : RequestBacked(Sent(FullSync, Manifest, Listing(man), sha)[v])
      BY <1>u, SendBacked, BlobTypes DEF Listing, Noted
    <2>2. req' = Sent(FullSync, Manifest, Listing(man), sha) /\ cloud' = cloud
      BY <1>11 DEF FullSaveManifest
    <2>3. \A v \in Uploaders : RequestBacked(req[v])'
      BY <2>1, <2>2 DEF RequestBacked
    <2>4. \A h \in Hooks : req'[h] = req[h]
      BY <1>u, <2>2 DEF Sent
    <2>5. PathsAgree'
      BY <1>11, <2>4 DEF FullSaveManifest, PathsAgree
    <2> QED
      BY <1>11, <2>3, <2>5 DEF FullSaveManifest, Noted, NothingEmpty, disk
  <1>12. CASE FullSaved
    <2>1. \A v \in Uploaders : RequestBacked(req[v])'
      BY <1>12, NoReqBacked DEF FullSaved, RequestBacked
    <2>2. PathsAgree'
      BY <1>12, <1>u DEF FullSaved, PathsAgree
    <2> QED
      BY <1>12, <2>1, <2>2 DEF FullSaved, Noted, NothingEmpty, disk
  <1>13. CASE FullReturn
    BY <1>13 DEF FullReturn, IdleFull, NoEntries, Noted, PathsAgree, NothingEmpty, RequestBacked, disk
  <1> QED
    BY <1>1, <1>2, <1>3, <1>4, <1>5, <1>6, <1>7, <1>8, <1>9, <1>10, <1>11, <1>12, <1>13, <1>14
       DEF FullStep

(* Firing a hook sends a save, and so adds no claim to any manifest.       *)
LEMMA HookBeginBacked ==
    ASSUME TypeOK, BackedInv, NEW s \in Saves, HookBegin(s), UNCHANGED <<cloud, full>>
    PROVE  PathsAgree' /\ \A v \in Uploaders : RequestBacked(req[v])'
  <1>1. CASE Due(s)
    <2>1. PICK h \in Hooks :
            /\ hook' = [hook EXCEPT ![h] = [pc |-> "up", s |-> s, mtime |-> local[s].mtime]]
            /\ req' = Sent(h, s, SaveBlob(local[s].ver), sha)
      BY <1>1 DEF HookBegin
    <2>2. local[s].ver # 0 /\ SaveBlob(local[s].ver) \in Blobs
      BY <1>1, BlobTypes DEF Due, TypeOK, Entries, BackedInv, NothingEmpty
    <2>3. \A v \in Uploaders : RequestBacked(Sent(h, s, SaveBlob(local[s].ver), sha)[v])
      BY <2>2, SendBacked DEF SaveBlob, NoEntries, Uploaders, Paths
    <2>4. req'[h].path = s /\ \A u \in Uploaders : u # h => req'[u] = req[u]
      BY <2>1 DEF Sent, TypeOK, Uploaders
    <2>5. PathsAgree'
      BY <2>1, <2>4 DEF PathsAgree, BackedInv, Uploaders, TypeOK
    <2> QED
      BY <2>1, <2>3, <2>5 DEF RequestBacked
  <1>2. CASE ~Due(s)
    BY <1>2 DEF HookBegin, BackedInv, PathsAgree, RequestBacked
  <1> QED
    BY <1>1, <1>2

(* A hook lists its save only after its own PUT succeeded.                 *)
LEMMA HookBacked ==
    ASSUME TypeOK, BackedInv, NEW h \in Hooks, HookStep(h)
    PROVE  BackedInv'
  <1>u. h \in Uploaders /\ h # FullSync /\ Manifest \in Paths
    BY DEF Uploaders, Paths
  <1>1. CASE HookUploaded(h)
    <2>1. hook[h].s \in Saves /\ req[h].path = hook[h].s
      BY <1>1 DEF HookUploaded, TypeOK, HookStates, BackedInv, PathsAgree
    <2>2. cloud[hook[h].s].ver # 0
      BY <1>1, <1>u, <2>1 DEF HookUploaded, BackedInv, RequestBacked
    <2>3. man' \in Entries /\ cloud' = cloud /\ req' = Sent(h, Manifest, Listing(man'), sha)
      BY <1>1, HookTypeOK DEF HookUploaded, HookStep, TypeOK
    <2>4. \A s \in Saves : man'[s] # 0 => cloud[s].ver # 0
      BY <1>1, <2>1, <2>2 DEF HookUploaded, TypeOK, Entries, BackedInv, Noted
    <2>5. \A v \in Uploaders : RequestBacked(Sent(h, Manifest, Listing(man'), sha)[v])
      BY <1>u, <2>3, <2>4, SendBacked, BlobTypes DEF Listing
    <2>6. \A v \in Uploaders : RequestBacked(req[v])'
      BY <2>3, <2>5 DEF RequestBacked
    <2>7. \A u \in Uploaders : u # h => req'[u] = req[u]
      BY <2>3 DEF Sent, TypeOK
    <2>8. PathsAgree'
      <3>1. hook'[h].pc = "save" /\ \A k \in Hooks : k # h => hook'[k] = hook[k]
        BY <1>1 DEF HookUploaded, TypeOK, HookStates
      <3>2. full' = full
        BY <1>1 DEF HookUploaded
      <3> QED
        BY <1>u, <2>7, <3>1, <3>2 DEF PathsAgree, BackedInv, Uploaders
    <2> QED
      BY <1>1, <2>4, <2>6, <2>8 DEF HookUploaded, BackedInv, Noted, NothingEmpty, disk
  <1>2. CASE HookDone(h)
    <2>1. \A v \in Uploaders : RequestBacked(req[v])'
      BY <1>2, <1>u, NoReqBacked DEF HookDone, BackedInv, RequestBacked, TypeOK
    <2>2. PathsAgree'
      BY <1>2, <1>u DEF HookDone, PathsAgree, BackedInv, TypeOK, Uploaders, IdleHook
    <2> QED
      BY <1>2, <2>1, <2>2 DEF HookDone, BackedInv, Noted, NothingEmpty, disk
  <1> QED
    BY <1>1, <1>2 DEF HookStep

(* The pre-launch pull lists nothing.                                      *)
LEMMA PullBacked ==
    ASSUME TypeOK, BackedInv, PullStep
    PROVE  BackedInv'
  <1> USE DEF TypeOK, PullStates, BackedInv
  <1>1. CASE PullDownload
    <2>1. pull'.pc # "stamp" /\ (pull'.pc = "write" => pull'.got # 0)
      <3>1. \/ /\ cloud[pull.s].ver # 0
               /\ pull' = [pull EXCEPT !.pc = "write", !.got = cloud[pull.s].ver]
            \/ pull' = IdlePull
        BY <1>1 DEF PullDownload
      <3>2. pull' = IdlePull => pull'.pc = "idle"
        BY DEF IdlePull
      <3>3. pull' = [pull EXCEPT !.pc = "write", !.got = cloud[pull.s].ver]
              => pull'.pc = "write" /\ pull'.got = cloud[pull.s].ver
        BY DEF PullStates
      <3> QED
        BY <3>1, <3>2, <3>3
    <2> QED
      BY <1>1, <2>1 DEF PullDownload, Noted, PathsAgree, NothingEmpty, RequestBacked
  <1>2. CASE PullWrite
    <2>1. pull.s \in Saves /\ local'[pull.s].ver # 0
          /\ \A s \in Saves : local'[s] = local[s] \/ local'[s].ver # 0
      BY <1>2 DEF PullWrite, NothingEmpty
    <2>2. (pull'.pc = "stamp" /\ pull'.s = pull.s) \/ pull'.pc = "idle"
      BY <1>2 DEF PullWrite, IdlePull
    <2>3. NothingEmpty'
      BY <1>2, <2>1, <2>2 DEF PullWrite, NothingEmpty
    <2> QED
      BY <1>2, <2>3 DEF PullWrite, Noted, PathsAgree, RequestBacked
  <1>3. CASE PullStamp
    <2>1. pull.s \in Saves /\ pull.pc = "stamp" /\ pull'.pc = "idle"
      BY <1>3 DEF PullStamp, IdlePull
    <2>2. \A s \in Saves : local'[s].ver = local[s].ver /\ (s # pull.s => local'[s] = local[s])
      BY <1>3, <2>1, Stamped DEF PullStamp
    <2>3. local[pull.s].ver # 0 /\ UNCHANGED full /\ (full.pc = "stamp" => full.cur \in Saves)
      BY <1>3, <2>1 DEF PullStamp, NothingEmpty, FullStates
    <2>4. NothingEmpty'
      BY <2>1, <2>2, <2>3 DEF NothingEmpty
    <2> QED
      BY <1>3, <2>4 DEF PullStamp, Noted, PathsAgree, RequestBacked
  <1> QED
    BY <1>1, <1>2, <1>3 DEF PullStep

(* Playing a game changes neither a manifest nor a blob.                   *)
LEMMA PlayBacked ==
    ASSUME TypeOK, BackedInv, NEW s \in Saves,
           Launch(s) \/ HostSave(s) \/ HostExit(s) \/ PeriodicTick(s)
    PROVE  BackedInv'
  <1>1. CASE Launch(s)
    BY <1>1 DEF Launch, BackedInv, Noted, PathsAgree, NothingEmpty, RequestBacked
  <1>2. CASE HostSave(s)
    <2>1. \A t \in Saves : local'[t] = local[t] \/ local'[t].ver # 0
      BY <1>2 DEF HostSave, TypeOK
    <2>2. /\ full.pc = "stamp" => full.cur \in Saves
          /\ pull.pc = "stamp" => pull.s \in Saves
      BY DEF TypeOK, FullStates, PullStates
    <2>3. NothingEmpty'
      BY <1>2, <2>1, <2>2 DEF HostSave, BackedInv, NothingEmpty
    <2> QED
      BY <1>2, <2>3 DEF HostSave, BackedInv, Noted, PathsAgree, RequestBacked
  <1>3. CASE HostExit(s)
    <2>1. PathsAgree' /\ \A v \in Uploaders : RequestBacked(req[v])'
      BY <1>3, HookBeginBacked DEF HostExit, BackedInv, PathsAgree, RequestBacked
    <2> QED
      BY <1>3, <2>1 DEF HostExit, BackedInv, Noted, NothingEmpty
  <1>4. CASE PeriodicTick(s)
    <2>1. PathsAgree' /\ \A v \in Uploaders : RequestBacked(req[v])'
      BY <1>4, HookBeginBacked DEF PeriodicTick
    <2> QED
      BY <1>4, <2>1 DEF PeriodicTick, BackedInv, Noted, NothingEmpty, disk
  <1> QED
    BY <1>1, <1>2, <1>3, <1>4

(* An app death may still apply a PUT on the wire, and forgets the rest.   *)
LEMMA CrashBacked ==
    ASSUME TypeOK, BackedInv, Crash
    PROVE  BackedInv'
  <1>1. cloud' = cloud \/ \E u \in Uploaders : cloud' = Stored(u)
    BY DEF Crash
  <1>2. \A s \in Saves : /\ cloud[s].ver # 0 => cloud'[s].ver # 0
                         /\ cloud'[Manifest].list[s] # 0 => cloud[s].ver # 0
    BY <1>1, StoredKeeps DEF BackedInv, Noted
  <1>3. \A s \in Saves : Noted(s)' => cloud'[s].ver # 0
    BY <1>2 DEF Crash, Noted, NoEntries, IdleFull
  <1>4. PathsAgree'
    BY DEF Crash, PathsAgree, IdleFull, IdleHook
  <1>5. NothingEmpty'
    BY DEF Crash, NothingEmpty, IdleFull, IdlePull, BackedInv, NoFile
  <1>6. \A u \in Uploaders : RequestBacked(req[u])'
    BY DEF Crash, RequestBacked, NoReq, Nothing, SaveBlob, NoEntries
  <1> QED
    BY <1>3, <1>4, <1>5, <1>6 DEF BackedInv

(* Nothing is ever listed, in the repository's manifest or in memory, that *)
(* cannot be downloaded: for any timing, any number of racing uploads,     *)
(* lost requests and app deaths (ManifestBacked).                          *)
THEOREM ListedIsBacked == Spec => []ManifestBacked
  <1>1. TypeOK /\ BackedInv /\ [Next]_vars => BackedInv'
    <2> SUFFICES ASSUME TypeOK, BackedInv, [Next]_vars PROVE BackedInv'
      OBVIOUS
    <2>1. CASE UNCHANGED vars
      BY <2>1 DEF BackedInv, Noted, PathsAgree, NothingEmpty, RequestBacked, vars, disk, net
    <2> QED
      BY <2>1, FullBacked, PutBacked, HookBacked, PullBacked, PlayBacked, CrashBacked DEF Next
  <1>2. BackedInv => ManifestBacked
    BY DEF BackedInv, Noted, ManifestBacked
  <1> QED
    BY BackedInit, TypeCorrect, <1>1, <1>2, PTL DEF Spec

-----------------------------------------------------------------------------
(* With manual timing the full sync is the only uploader.                  *)
FullSyncAlone ==
    /\ pull.pc = "idle"
    /\ \A h \in Hooks : hook[h].pc = "idle" /\ req[h] = NoReq

(* Every time ever listed, planned or given to a file has come.            *)
TimesCome ==
    \A s \in Saves :
        /\ local[s].mtime <= clock /\ man[s] <= clock /\ full.snap[s] <= clock /\ full.todo[s] <= clock
        /\ cloud[Manifest].list[s] <= clock /\ req[FullSync].body.list[s] <= clock

(* A local save is never behind the cloud.                                 *)
LocalNotBehind ==
    \A s \in Saves :
        /\ local[s].ver = 0 \/ local[s].ver >= cloud[s].ver
        /\ local[s].ver = 0 <=> local[s].mtime = 0
        /\ local[s].ver <= clock /\ cloud[s].ver <= clock

(* A list with a save's time, or a later one, speaks of what the cloud     *)
(* holds: the one in memory, the one just fetched, the one stored and the  *)
(* one on its way.                                                         *)
Backed(list) ==
    \A s \in Saves \ overtaken : local[s].mtime <= list[s] => local[s].ver <= cloud[s].ver

ListsBacked ==
    /\ Backed(man) /\ Backed(full.snap)
    /\ Backed(cloud[Manifest].list) /\ Backed(req[FullSync].body.list)

(* What is planned for upload is on disk, at least as new as planned.      *)
PlanOnDisk ==
    full.pc = "up" =>
        \A s \in Saves : full.todo[s] <= local[s].mtime /\ full.planned[s] <= local[s].ver

(* The bytes on their way are between the plan and the disk, not older     *)
(* than what they replace, and as new as their entry will say.             *)
FreshUpload(r, s) ==
    /\ r.path = s /\ r.body.ver <= local[s].ver
    /\ r.body.ver >= full.planned[s] /\ r.body.ver >= cloud[s].ver
    /\ r.st = "ok" => cloud[s].ver = r.body.ver
    /\ s \notin overtaken /\ local[s].mtime <= full.todo[s] => local[s].ver <= r.body.ver

UploadFresh == full.pc = "up" /\ full.cur # NoSave => FreshUpload(req[FullSync], full.cur)

RequestsInPhase ==
    /\ req[FullSync].st = "none" => req[FullSync] = NoReq
    /\ req[FullSync].st # "none" =>
          \/ full.pc = "up" /\ full.cur # NoSave
          \/ full.pc = "save" /\ req[FullSync].path = Manifest

(* What is downloaded is what the cloud has, for the time of its entry.    *)
DownloadFresh ==
    /\ full.pc \in {"down", "write", "stamp"} => \A s \in Saves : full.todo[s] \in {0, man[s]}
    /\ full.pc \in {"write", "stamp"} =>
          full.todo[full.cur] # 0 /\ full.got # 0 /\ full.got = cloud[full.cur].ver
    /\ full.pc = "stamp" => local[full.cur].ver # 0
    /\ full.pc \in {"save", "done"} => full.todo = NoEntries

(* What the running sync has already done, unless it counted an error.     *)
SyncProgress ==
    full.clean =>
        /\ full.pc = "up" =>
              \A s \in Saves \ full.doubt : full.todo[s] # 0 \/ full.planned[s] <= cloud[s].ver
        /\ full.pc \in {"down", "write", "stamp", "save", "done"} =>
              /\ \A s \in Saves \ full.doubt : full.planned[s] <= cloud[s].ver
              /\ \A s \in Saves : full.todo[s] # 0 \/ man[s] = 0 \/ local[s].ver # 0

ManualInv ==
    /\ FullSyncAlone /\ TimesCome /\ LocalNotBehind /\ ListsBacked /\ PlanOnDisk
    /\ UploadFresh /\ RequestsInPhase /\ DownloadFresh /\ SyncProgress

(* A list without entries claims nothing.                                  *)
LEMMA NoEntriesBacked ==
    ASSUME TypeOK, LocalNotBehind
    PROVE  Backed(NoEntries)
  <1> SUFFICES ASSUME NEW s \in Saves, local[s].mtime <= NoEntries[s] PROVE local[s].ver <= cloud[s].ver
    BY DEF Backed
  <1>1. local[s].mtime \in Nat /\ cloud[s].ver \in Nat
    BY DEF TypeOK, Blobs, Paths
  <1>2. local[s].mtime = 0
    BY <1>1 DEF NoEntries
  <1>3. local[s].ver = 0
    BY <1>2 DEF LocalNotBehind
  <1> QED
    BY <1>1, <1>3

(* A library backed up by an earlier run satisfies the manual invariant.   *)
LEMMA ManualInit == Init => ManualInv
  <1> SUFFICES ASSUME Init PROVE ManualInv
    OBVIOUS
  <1> USE DEF Init
  <1>0. PICK onDisk \in SUBSET Saves, backedUp \in SUBSET Saves :
          /\ local = [s \in Saves |-> IF s \in onDisk THEN [ver |-> 1, mtime |-> 1] ELSE NoFile]
          /\ cloud = [p \in Paths |->
                IF p = Manifest THEN Listing([s \in Saves |-> IF s \in backedUp THEN 1 ELSE 0])
                ELSE SaveBlob(IF p \in backedUp THEN 1 ELSE 0)]
    OBVIOUS
  <1>t. \A s \in Saves :
          /\ local[s] = [ver |-> 1, mtime |-> 1] \/ local[s] = [ver |-> 0, mtime |-> 0]
          /\ \/ cloud[s].ver = 1 /\ cloud[Manifest].list[s] = 1
             \/ cloud[s].ver = 0 /\ cloud[Manifest].list[s] = 0
          /\ man[s] = 0 /\ full.snap[s] = 0 /\ full.todo[s] = 0 /\ req[FullSync].body.list[s] = 0
    BY <1>0 DEF NoFile, SaveBlob, Listing, Paths, NoEntries, IdleFull, NoReq, Nothing, Uploaders
  <1>1. FullSyncAlone
    BY DEF FullSyncAlone, IdleHook, IdlePull, Uploaders
  <1>2. PlanOnDisk /\ UploadFresh /\ DownloadFresh /\ SyncProgress
    BY DEF PlanOnDisk, UploadFresh, DownloadFresh, SyncProgress, IdleFull
  <1>3. RequestsInPhase
    BY DEF RequestsInPhase, NoReq, Uploaders
  <1>c. clock = 1
    OBVIOUS
  <1> HIDE DEF Init
  <1>s. ASSUME NEW s \in Saves
        PROVE  /\ local[s].ver \in {0, 1} /\ local[s].mtime = local[s].ver
               /\ cloud[s].ver \in {0, 1} /\ cloud[Manifest].list[s] = cloud[s].ver
               /\ local[s].ver = 0 \/ local[s].ver >= cloud[s].ver
    BY <1>t, <1>s
  <1>4. TimesCome
    BY <1>c, <1>s, <1>t DEF TimesCome
  <1>5. LocalNotBehind
    BY <1>c, <1>s DEF LocalNotBehind
  <1>6. ListsBacked
    BY <1>s, <1>t DEF ListsBacked, Backed
  <1> QED
    BY <1>1, <1>2, <1>3, <1>4, <1>5, <1>6 DEF ManualInv

(* The only PUT on its way makes the cloud newer, never newer than what is *)
(* on disk, and stores no list but the one it carries.                     *)
LEMMA StoredGrows ==
    ASSUME TypeOK, ManualInv, req[FullSync].st # "none"
    PROVE  /\ \A s \in Saves : /\ Stored(FullSync)[s].ver >= cloud[s].ver
                               /\ local[s].ver = 0 \/ local[s].ver >= Stored(FullSync)[s].ver
                               /\ Stored(FullSync)[s].ver <= clock
           /\ Stored(FullSync)[Manifest].list \in {cloud[Manifest].list, req[FullSync].body.list}
           /\ full.pc = "up" => Stored(FullSync)[full.cur].ver = req[FullSync].body.ver
  <1> USE DEF TypeOK, ManualInv, RequestsInPhase, Requests, Stored, Paths
  <1>u. FullSync \in Uploaders /\ req[FullSync] \in Requests
    BY DEF Uploaders
  <1>1. CASE full.pc = "up" /\ full.cur # NoSave
    <2>1. full.cur \in Saves /\ FreshUpload(req[FullSync], full.cur)
      BY <1>1 DEF FullStates, UploadFresh
    <2>2. Stored(FullSync) = [cloud EXCEPT ![full.cur] = req[FullSync].body]
      BY <2>1 DEF FreshUpload
    <2>3. req[FullSync].body.ver \in Nat /\ \A s \in Saves : cloud[s].ver \in Nat
      BY <1>u DEF Blobs
    <2>4. Stored(FullSync)[Manifest] = cloud[Manifest] /\ Stored(FullSync)[full.cur] = req[FullSync].body
      BY <2>1, <2>2
    <2>5. \A s \in Saves : Stored(FullSync)[s] = cloud[s] \/ s = full.cur
      BY <2>1, <2>2
    <2> QED
      BY <2>1, <2>3, <2>4, <2>5 DEF FreshUpload, LocalNotBehind
  <1>2. CASE full.pc = "save" /\ req[FullSync].path = Manifest
    <2>1. Stored(FullSync) = [cloud EXCEPT ![Manifest] = req[FullSync].body]
      BY <1>2
    <2>2. /\ \A s \in Saves : Stored(FullSync)[s] = cloud[s] /\ cloud[s].ver \in Nat
          /\ Stored(FullSync)[Manifest].list = req[FullSync].body.list
      BY <2>1 DEF Blobs
    <2> QED
      BY <1>2, <2>2 DEF LocalNotBehind
  <1> QED
    BY <1>1, <1>2

(* The full sync's own PUT keeps the manual invariant, applied or lost.    *)
LEMMA PutManual ==
    ASSUME TypeOK, ManualInv, NEW u \in Uploaders, PutStep(u)
    PROVE  ManualInv'
  <1>1. u = FullSync /\ req[FullSync].st # "none"
    BY DEF PutStep, ServerPut, LosePut, RetryPut, ManualInv, FullSyncAlone, NoReq, Uploaders
  <1>2. /\ UNCHANGED <<clock, local, overtaken, man, full, hook, pull>>
        /\ req'[FullSync].path = req[FullSync].path /\ req'[FullSync].body = req[FullSync].body
        /\ req'[FullSync].st # "none"
        /\ \A h \in Hooks : req'[h] = req[h]
        /\ (cloud' = cloud /\ req'[FullSync].st # "ok") \/ cloud' = Stored(FullSync)
    <2> USE <1>1 DEF TypeOK, Requests, disk, Uploaders
    <2>1. CASE ServerPut(u)
      BY <2>1 DEF ServerPut
    <2>2. CASE LosePut(u)
      BY <2>2 DEF LosePut
    <2>3. CASE RetryPut(u)
      <3>1. \/ req' = [req EXCEPT ![u].st = "failed"]
            \/ req' = [req EXCEPT ![u].st = "sent", ![u].retry = TRUE, ![u].sha = sha'[req[u].path]]
        BY <2>3 DEF RetryPut
      <3>2. UNCHANGED <<clock, cloud, local, overtaken, man, full, hook, pull>>
        BY <2>3 DEF RetryPut
      <3> QED
        BY <3>1, <3>2
    <2> QED
      BY <2>1, <2>2, <2>3 DEF PutStep
  <1>3. /\ \A s \in Saves : /\ cloud[s].ver \in Nat /\ cloud'[s].ver \in Nat
                            /\ cloud'[s].ver >= cloud[s].ver
                            /\ local[s].ver = 0 \/ local[s].ver >= cloud'[s].ver
                            /\ cloud'[s].ver <= clock
        /\ cloud'[Manifest].list \in {cloud[Manifest].list, req[FullSync].body.list}
    <2>1. cloud' \in [Paths -> Blobs]
      BY PutTypeOK DEF TypeOK
    <2> QED
      BY <1>1, <1>2, <2>1, StoredGrows
         DEF ManualInv, LocalNotBehind, TypeOK, Blobs, Paths
  <1>4. req[FullSync].body.ver \in Nat
    BY DEF TypeOK, Requests, Blobs, Uploaders
  <1> USE DEF ManualInv
  <1>5. FullSyncAlone' /\ PlanOnDisk' /\ RequestsInPhase'
    BY <1>1, <1>2 DEF FullSyncAlone, PlanOnDisk, RequestsInPhase
  <1>t. /\ \A s \in Saves : local[s].ver \in Nat /\ full.planned[s] \in Nat
        /\ clock \in Nat
    BY DEF TypeOK, FullStates, Entries
  <1>6. LocalNotBehind' /\ TimesCome'
    BY <1>2, <1>3, <1>t DEF LocalNotBehind, TimesCome
  <1>7. ListsBacked'
    <2>1. ASSUME NEW l, Backed(l)
          PROVE  \A s \in Saves \ overtaken : local[s].mtime <= l[s] => local[s].ver <= cloud'[s].ver
      BY <1>3, <1>t, <2>1 DEF Backed
    <2> DEFINE Still(l) == \A s \in Saves \ overtaken : local[s].mtime <= l[s] => local[s].ver <= cloud'[s].ver
    <2>2. /\ Still(man) /\ Still(full.snap)
          /\ Still(cloud[Manifest].list) /\ Still(req[FullSync].body.list)
      BY <2>1 DEF ListsBacked
    <2>3. Still(cloud'[Manifest].list)
      BY <1>3, <2>2
    <2> QED
      BY <1>2, <2>2, <2>3 DEF ListsBacked, Backed
  <1>8. UploadFresh'
    <2> SUFFICES ASSUME full.pc = "up", full.cur # NoSave PROVE FreshUpload(req[FullSync], full.cur)'
      BY <1>2 DEF UploadFresh
    <2>1. full.cur \in Saves /\ FreshUpload(req[FullSync], full.cur)
      BY DEF UploadFresh, TypeOK, FullStates
    <2>2. cloud'[full.cur].ver = req[FullSync].body.ver \/ (cloud' = cloud /\ req'[FullSync].st # "ok")
      BY <1>1, <1>2, <2>1, StoredGrows
    <2> QED
      BY <1>2, <1>3, <1>4, <2>1, <2>2 DEF FreshUpload
  <1>9. DownloadFresh'
    BY <1>1, <1>2 DEF DownloadFresh, RequestsInPhase
  <1>10. SyncProgress'
    <2>1. \A s \in Saves : full.planned[s] <= cloud[s].ver => full.planned[s] <= cloud'[s].ver
      BY <1>3, <1>t
    <2> QED
      BY <1>2, <2>1 DEF SyncProgress
  <1> QED
    BY <1>5, <1>6, <1>7, <1>8, <1>9, <1>10

(* A step of the full sync that touches no file and no blob, and brings no *)
(* new list into memory or onto the wire.                                  *)
SyncFrame ==
    /\ UNCHANGED <<clock, local, overtaken, cloud, hook, pull>>
    /\ \A h \in Hooks : req'[h] = req[h]

(* Every step of a full sync keeps the manual invariant.                   *)
LEMMA FullManual ==
    ASSUME TypeOK, ManualInv, FullSyncStart \/ FullStep
    PROVE  ManualInv'
  <1> USE DEF ManualInv
  <1>u. FullSync \in Uploaders /\ FullSync \notin Hooks /\ Hooks \subseteq Uploaders
        /\ Manifest \in Paths /\ Saves \subseteq Paths
    BY DEF Uploaders, Paths
  <1>t. /\ full \in FullStates /\ clock \in Nat
        /\ \A s \in Saves : /\ local[s].ver \in Nat /\ local[s].mtime \in Nat
                            /\ cloud[s].ver \in Nat /\ man[s] \in Nat /\ cloud[Manifest].list[s] \in Nat
                            /\ full.todo[s] \in Nat /\ full.planned[s] \in Nat /\ full.snap[s] \in Nat
                            /\ req[FullSync].body.list[s] \in Nat
        /\ full.todo \in Entries /\ man \in Entries
        /\ local \in [Saves -> [ver : Nat, mtime : Nat]]
    BY <1>u DEF TypeOK, FullStates, Entries, Blobs, Requests
  <1>q. req[FullSync] # NoReq => \/ full.pc = "up" /\ full.cur # NoSave
                                 \/ full.pc = "save" /\ req[FullSync].path = Manifest
    BY DEF RequestsInPhase
  <1>n. /\ Backed(NoEntries) /\ \A s \in Saves : NoEntries[s] = 0
        /\ NoReq.st = "none" /\ NoReq.body.list = NoEntries
    BY NoEntriesBacked DEF NoEntries, NoReq, Nothing, SaveBlob
  <1>f. ASSUME SyncFrame PROVE FullSyncAlone' /\ LocalNotBehind'
    BY <1>f DEF SyncFrame, FullSyncAlone, LocalNotBehind
  <1>l. ASSUME SyncFrame, Backed(man'), Backed(full'.snap), Backed(req'[FullSync].body.list)
        PROVE  ListsBacked'
    BY <1>l DEF SyncFrame, ListsBacked, Backed
  <1>1. CASE FullSyncStart
    <2>1. /\ full'.pc = "refresh" /\ full'.cur = NoSave /\ full'.snap = NoEntries /\ full'.todo = NoEntries
          /\ full.pc \notin {"up", "save"} /\ UNCHANGED <<man, req>> /\ SyncFrame
      BY <1>1 DEF FullSyncStart, IdleFull, SyncFrame, disk
    <2>2. ListsBacked' /\ TimesCome'
      <3>1. ListsBacked'
        BY <1>l, <1>n, <2>1 DEF ListsBacked
      <3>2. TimesCome'
        BY <1>t, <1>n, <2>1 DEF SyncFrame, TimesCome
      <3> QED
        BY <3>1, <3>2
    <2>3. PlanOnDisk' /\ UploadFresh' /\ RequestsInPhase' /\ DownloadFresh' /\ SyncProgress'
      BY <1>q, <1>n, <2>1 DEF PlanOnDisk, UploadFresh, RequestsInPhase, DownloadFresh, SyncProgress
    <2> QED
      BY <1>f, <2>1, <2>2, <2>3
  <1>2. CASE RefreshShaCache
    <2>1. /\ full' = [full EXCEPT !.pc = "load"] /\ full.pc = "refresh"
          /\ UNCHANGED <<man, req>> /\ SyncFrame
      BY <1>2 DEF RefreshShaCache, SyncFrame, disk
    <2>2. full'.pc = "load" /\ full'.snap = full.snap /\ full'.todo = full.todo
      BY <1>t, <2>1 DEF FullStates
    <2>3. ListsBacked' /\ TimesCome'
      BY <1>l, <2>1, <2>2 DEF ListsBacked, SyncFrame, TimesCome
    <2>4. PlanOnDisk' /\ UploadFresh' /\ RequestsInPhase' /\ DownloadFresh' /\ SyncProgress'
      BY <1>q, <2>1, <2>2 DEF PlanOnDisk, UploadFresh, RequestsInPhase, DownloadFresh, SyncProgress
    <2> QED
      BY <1>f, <2>1, <2>3, <2>4
  <1>3. CASE FetchManifest
    <2>1. PICK m \in Entries, a \in BOOLEAN :
            /\ full' = [full EXCEPT !.pc = "loaded", !.snap = m, !.answered = a]
            /\ m = cloud[Manifest].list \/ m = NoEntries
      BY <1>3, <1>u, BlobTypes DEF FetchManifest, Blobs, TypeOK
    <2>2. full.pc = "load" /\ UNCHANGED <<man, req>> /\ SyncFrame
      BY <1>3 DEF FetchManifest, SyncFrame, disk
    <2>3. full'.pc = "loaded" /\ full'.snap = m /\ full'.todo = full.todo
      BY <1>t, <2>1 DEF FullStates
    <2>4. Backed(m) /\ \A s \in Saves : m[s] <= clock
      BY <1>n, <1>t, <2>1 DEF ListsBacked, TimesCome
    <2>5. ListsBacked'
      BY <1>l, <2>2, <2>3, <2>4 DEF ListsBacked
    <2>6. TimesCome'
      BY <2>2, <2>3, <2>4 DEF SyncFrame, TimesCome
    <2>7. PlanOnDisk' /\ UploadFresh' /\ RequestsInPhase' /\ DownloadFresh' /\ SyncProgress'
      BY <1>q, <2>2, <2>3 DEF PlanOnDisk, UploadFresh, RequestsInPhase, DownloadFresh, SyncProgress
    <2> QED
      BY <1>f, <2>2, <2>5, <2>6, <2>7
  <1>4. CASE LoadManifest
    <2>1. /\ full' = [full EXCEPT !.pc = "plan"] /\ full.pc = "loaded" /\ man' = full.snap
          /\ UNCHANGED req /\ SyncFrame
      BY <1>4 DEF LoadManifest, SyncFrame, disk
    <2>2. full'.pc = "plan" /\ full'.snap = full.snap /\ full'.todo = full.todo
      BY <1>t, <2>1 DEF FullStates
    <2>3. ListsBacked' /\ TimesCome'
      BY <1>l, <2>1, <2>2 DEF ListsBacked, SyncFrame, TimesCome
    <2>4. PlanOnDisk' /\ UploadFresh' /\ RequestsInPhase' /\ DownloadFresh' /\ SyncProgress'
      BY <1>q, <2>1, <2>2 DEF PlanOnDisk, UploadFresh, RequestsInPhase, DownloadFresh, SyncProgress
    <2> QED
      BY <1>f, <2>1, <2>3, <2>4
  <1>5. CASE PlanUpload
    <2>1. /\ full' = [full EXCEPT !.pc = "up", !.todo = NewerHere, !.doubt = overtaken,
                                  !.planned = [s \in Saves |-> local[s].ver]]
          /\ full.pc = "plan" /\ full.cur = NoSave /\ UNCHANGED <<man, req>> /\ SyncFrame
      BY <1>5 DEF PlanUpload, SyncFrame, disk, TypeOK
    <2>2. /\ full'.pc = "up" /\ full'.cur = NoSave /\ full'.snap = full.snap /\ full'.todo = NewerHere
          /\ full'.doubt = overtaken /\ \A s \in Saves : full'.planned[s] = local[s].ver
      BY <1>t, <2>1 DEF FullStates
    <2>3. \A s \in Saves : NewerHere[s] \in Nat /\ NewerHere[s] <= local[s].mtime
      BY <1>t DEF NewerHere
    <2>4. \A s \in Saves \ overtaken : NewerHere[s] # 0 \/ local[s].ver <= cloud[s].ver
      <3> SUFFICES ASSUME NEW s \in Saves \ overtaken, NewerHere[s] = 0 PROVE local[s].ver <= cloud[s].ver
        OBVIOUS
      <3>1. local[s].mtime <= man[s]
        BY <1>t DEF NewerHere
      <3> QED
        BY <3>1 DEF ListsBacked, Backed
    <2>5. ListsBacked'
      BY <1>l, <2>1, <2>2 DEF ListsBacked
    <2>6. TimesCome'
      <3>1. \A s \in Saves : NewerHere[s] <= clock
        BY <1>t, <2>3 DEF TimesCome
      <3> QED
        BY <2>1, <2>2, <3>1 DEF SyncFrame, TimesCome
    <2>7. PlanOnDisk'
      BY <1>t, <2>1, <2>2, <2>3 DEF SyncFrame, PlanOnDisk
    <2>8. SyncProgress'
      BY <2>1, <2>2, <2>4 DEF SyncFrame, SyncProgress
    <2>9. UploadFresh' /\ RequestsInPhase' /\ DownloadFresh'
      BY <1>q, <2>1, <2>2 DEF UploadFresh, RequestsInPhase, DownloadFresh
    <2> QED
      BY <1>f, <2>1, <2>5, <2>6, <2>7, <2>8, <2>9
  <1>6. ASSUME NEW s \in Saves, FullUpload(s) PROVE ManualInv'
    <2>1. /\ full' = [full EXCEPT !.cur = s] /\ full.pc = "up" /\ full.todo[s] # 0
          /\ req'[FullSync] = [st |-> "sent", path |-> s, body |-> SaveBlob(local[s].ver),
                               sha |-> sha[s], retry |-> FALSE]
          /\ UNCHANGED man /\ SyncFrame
      BY <1>6, <1>u DEF FullUpload, Sent, TypeOK, SyncFrame, disk
    <2>2. /\ full'.pc = "up" /\ full'.cur = s /\ s # NoSave /\ full'.todo = full.todo /\ full'.snap = full.snap
          /\ full'.planned = full.planned /\ full'.clean = full.clean /\ full'.doubt = full.doubt
      BY <1>t, <2>1 DEF FullStates
    <2>3. /\ req'[FullSync].body.list = NoEntries /\ req'[FullSync].body.ver = local[s].ver
          /\ req'[FullSync].st = "sent" /\ req'[FullSync].path = s
      BY <2>1 DEF SaveBlob
    <2>4. ListsBacked'
      BY <1>l, <1>n, <2>1, <2>2, <2>3 DEF ListsBacked
    <2>5. TimesCome'
      BY <1>t, <1>n, <2>1, <2>2, <2>3 DEF SyncFrame, TimesCome
    <2>6. PlanOnDisk' /\ RequestsInPhase' /\ DownloadFresh' /\ SyncProgress'
      BY <2>1, <2>2, <2>3 DEF SyncFrame, PlanOnDisk, RequestsInPhase, DownloadFresh, SyncProgress
    <2>7. local[s].ver >= cloud[s].ver /\ full.planned[s] <= local[s].ver
      <3>1. full.todo[s] <= local[s].mtime /\ full.planned[s] <= local[s].ver
        BY <2>1 DEF PlanOnDisk
      <3>2. local[s].mtime # 0
        BY <1>t, <2>1, <3>1
      <3> QED
        BY <3>1, <3>2 DEF LocalNotBehind
    <2>8. UploadFresh'
      BY <1>t, <2>1, <2>2, <2>3, <2>7 DEF SyncFrame, UploadFresh, FreshUpload
    <2> QED
      BY <1>f, <2>1, <2>4, <2>5, <2>6, <2>8
  <1>7. CASE FullUploaded
    <2>1. /\ full.pc = "up" /\ full.cur \in Saves /\ FreshUpload(req[FullSync], full.cur)
          /\ req[FullSync].body.ver \in Nat
      BY <1>7, <1>t, <1>u DEF FullUploaded, UploadFresh, FullStates, TypeOK, Requests, Blobs
    <2>2. /\ full' = [full EXCEPT !.cur = NoSave, !.todo = [@ EXCEPT ![full.cur] = 0],
                                  !.clean = @ /\ req[FullSync].st = "ok"]
          /\ man' = IF req[FullSync].st = "ok" THEN [man EXCEPT ![full.cur] = full.todo[full.cur]] ELSE man
          /\ req'[FullSync] = NoReq /\ SyncFrame
      BY <1>7, <1>u DEF FullUploaded, TypeOK, SyncFrame, disk
    <2>3. /\ full'.pc = "up" /\ full'.cur = NoSave /\ full'.planned = full.planned /\ full'.snap = full.snap
          /\ full'.doubt = full.doubt
          /\ full'.clean => full.clean /\ req[FullSync].st = "ok"
          /\ full'.todo[full.cur] = 0 /\ \A s \in Saves : s # full.cur => full'.todo[s] = full.todo[s]
      BY <2>1, <2>2, <1>t DEF FullStates, Entries
    <2>4. \A s \in Saves : \/ man'[s] = man[s]
                           \/ s = full.cur /\ req[FullSync].st = "ok" /\ man'[s] = full.todo[s]
      BY <1>t, <2>1, <2>2 DEF Entries
    <2>5. Backed(man')
      <3> SUFFICES ASSUME NEW s \in Saves \ overtaken, local[s].mtime <= man'[s]
                   PROVE  local[s].ver <= cloud[s].ver
        BY DEF Backed
      <3>1. CASE man'[s] = man[s]
        BY <3>1 DEF ListsBacked, Backed
      <3>2. CASE s = full.cur /\ req[FullSync].st = "ok" /\ man'[s] = full.todo[s]
        BY <2>1, <3>2 DEF FreshUpload
      <3> QED
        BY <2>4, <3>1, <3>2
    <2>6. ListsBacked'
      BY <1>l, <1>n, <2>2, <2>3, <2>5 DEF ListsBacked
    <2>7. TimesCome'
      <3>1. \A s \in Saves : man'[s] <= clock /\ full'.todo[s] <= clock
        BY <1>t, <2>1, <2>3, <2>4 DEF TimesCome
      <3> QED
        BY <1>t, <1>n, <2>2, <2>3, <3>1 DEF SyncFrame, TimesCome
    <2>8. PlanOnDisk'
      BY <1>t, <2>1, <2>2, <2>3 DEF SyncFrame, PlanOnDisk
    <2>9. SyncProgress'
      <3>1. full'.clean => full.planned[full.cur] <= cloud[full.cur].ver
        BY <1>t, <2>1, <2>3 DEF FreshUpload
      <3> QED
        BY <1>t, <2>1, <2>2, <2>3, <3>1 DEF SyncFrame, SyncProgress
    <2>10. UploadFresh' /\ RequestsInPhase' /\ DownloadFresh'
      BY <1>n, <2>2, <2>3 DEF UploadFresh, RequestsInPhase, DownloadFresh
    <2> QED
      BY <1>f, <2>2, <2>6, <2>7, <2>8, <2>9, <2>10
  <1>8. CASE PlanDownload
    <2>1. /\ full' = [full EXCEPT !.pc = "down", !.todo = NewerThere]
          /\ full.pc = "up" /\ full.cur = NoSave /\ full.todo = NoEntries
          /\ UNCHANGED <<man, req>> /\ SyncFrame
      BY <1>8 DEF PlanDownload, SyncFrame, disk
    <2>2. /\ full'.pc = "down" /\ full'.cur = NoSave /\ full'.todo = NewerThere /\ full'.snap = full.snap
          /\ full'.planned = full.planned /\ full'.clean = full.clean /\ full'.doubt = full.doubt
      BY <1>t, <2>1 DEF FullStates
    <2>3. \A s \in Saves : NewerThere[s] \in {0, man[s]}
      BY <1>t DEF NewerThere
    <2>4. \A s \in Saves : NewerThere[s] # 0 \/ man[s] = 0 \/ local[s].ver # 0
      <3> SUFFICES ASSUME NEW s \in Saves, man[s] # 0, local[s].ver = 0 PROVE NewerThere[s] # 0
        OBVIOUS
      <3>1. local[s] = NoFile
        BY DEF LocalNotBehind, TypeOK, NoFile
      <3> QED
        BY <3>1 DEF NewerThere
    <2>5. full.clean => \A s \in Saves \ full.doubt : full.planned[s] <= cloud[s].ver
      BY <2>1 DEF SyncProgress, NoEntries
    <2>6. ListsBacked'
      BY <1>l, <2>1, <2>2 DEF ListsBacked
    <2>7. TimesCome'
      <3>1. \A s \in Saves : NewerThere[s] <= clock
        BY <1>t, <2>3 DEF TimesCome
      <3> QED
        BY <2>1, <2>2, <3>1 DEF SyncFrame, TimesCome
    <2>8. SyncProgress'
      BY <2>1, <2>2, <2>4, <2>5 DEF SyncFrame, SyncProgress
    <2>9. PlanOnDisk' /\ UploadFresh' /\ RequestsInPhase' /\ DownloadFresh'
      BY <1>q, <2>1, <2>2, <2>3 DEF PlanOnDisk, UploadFresh, RequestsInPhase, DownloadFresh
    <2> QED
      BY <1>f, <2>1, <2>6, <2>7, <2>8, <2>9
  <1>9. ASSUME NEW s \in Saves, FullDownload(s) PROVE ManualInv'
    <2>1. full.pc = "down" /\ full.todo[s] # 0 /\ UNCHANGED <<man, req>> /\ SyncFrame
      BY <1>9 DEF FullDownload, SyncFrame, disk
    <2>2. CASE full' = [full EXCEPT !.pc = "write", !.cur = s, !.got = cloud[s].ver] /\ cloud[s].ver # 0
      <3>1. /\ full'.pc = "write" /\ full'.cur = s /\ full'.got = cloud[s].ver /\ full'.todo = full.todo
            /\ full'.snap = full.snap /\ full'.planned = full.planned /\ full'.clean = full.clean
            /\ full'.doubt = full.doubt
        BY <1>t, <2>2 DEF FullStates
      <3>2. ListsBacked'
        BY <1>l, <2>1, <3>1 DEF ListsBacked
      <3>3. TimesCome' /\ DownloadFresh' /\ SyncProgress'
        BY <2>1, <2>2, <3>1 DEF SyncFrame, TimesCome, DownloadFresh, SyncProgress
      <3>4. PlanOnDisk' /\ UploadFresh' /\ RequestsInPhase'
        BY <1>q, <2>1, <3>1 DEF PlanOnDisk, UploadFresh, RequestsInPhase
      <3> QED
        BY <1>f, <2>1, <3>2, <3>3, <3>4
    <2>3. CASE full' = [full EXCEPT !.todo = [@ EXCEPT ![s] = 0], !.clean = FALSE]
      <3>1. /\ full'.pc = "down" /\ full'.snap = full.snap /\ ~full'.clean
            /\ \A r \in Saves : full'.todo[r] \in {0, full.todo[r]}
        BY <1>t, <2>1, <2>3 DEF FullStates, Entries
      <3>2. ListsBacked'
        BY <1>l, <2>1, <3>1 DEF ListsBacked
      <3>3. TimesCome' /\ DownloadFresh' /\ SyncProgress'
        BY <1>t, <2>1, <3>1 DEF SyncFrame, TimesCome, DownloadFresh, SyncProgress
      <3>4. PlanOnDisk' /\ UploadFresh' /\ RequestsInPhase'
        BY <1>q, <2>1, <3>1 DEF PlanOnDisk, UploadFresh, RequestsInPhase
      <3> QED
        BY <1>f, <2>1, <3>2, <3>3, <3>4
    <2> QED
      BY <1>9, <2>2, <2>3 DEF FullDownload
  <1>10. CASE FullWrite
    <2>1. /\ full.pc = "write" /\ full.cur \in Saves /\ clock' = clock + 1
          /\ local' = [local EXCEPT ![full.cur] = [ver |-> full.got, mtime |-> clock + 1]]
          /\ overtaken' = overtaken \ {full.cur} /\ full' = [full EXCEPT !.pc = "stamp"]
          /\ UNCHANGED <<cloud, man, hook, pull, req>>
      BY <1>10, <1>t DEF FullWrite, TypeOK, FullStates
    <2>2. /\ full'.pc = "stamp" /\ full'.cur = full.cur /\ full'.got = full.got /\ full'.todo = full.todo
          /\ full'.snap = full.snap /\ full'.planned = full.planned /\ full'.clean = full.clean
          /\ full'.doubt = full.doubt
      BY <1>t, <2>1 DEF FullStates
    <2>3. /\ local'[full.cur].ver = cloud[full.cur].ver /\ local'[full.cur].mtime = clock + 1
          /\ cloud[full.cur].ver # 0
          /\ \A s \in Saves : s # full.cur => local'[s] = local[s]
      BY <1>t, <2>1 DEF DownloadFresh
    <2>4. LocalNotBehind' /\ TimesCome'
      BY <1>t, <2>1, <2>2, <2>3 DEF LocalNotBehind, TimesCome
    <2>5. ListsBacked'
      BY <1>t, <2>1, <2>2, <2>3 DEF ListsBacked, Backed, TimesCome
    <2>6. SyncProgress' /\ DownloadFresh'
      BY <1>t, <2>1, <2>2, <2>3 DEF SyncProgress, DownloadFresh
    <2>7. FullSyncAlone' /\ PlanOnDisk' /\ UploadFresh' /\ RequestsInPhase'
      BY <1>q, <2>1, <2>2 DEF FullSyncAlone, PlanOnDisk, UploadFresh, RequestsInPhase
    <2> QED
      BY <2>4, <2>5, <2>6, <2>7
  <1>14. CASE FullStamp
    <2>1. /\ full.pc = "stamp" /\ full.cur \in Saves /\ Stamp(full.cur, full.todo[full.cur], full.got)
          /\ full' = [full EXCEPT !.pc = "down", !.cur = NoSave, !.got = 0,
                                  !.todo = [@ EXCEPT ![full.cur] = 0]]
          /\ UNCHANGED <<clock, cloud, man, hook, pull, req>>
      BY <1>14, <1>t DEF FullStamp, TypeOK, FullStates
    <2>2. /\ full'.pc = "down" /\ full'.cur = NoSave /\ full'.planned = full.planned
          /\ full'.snap = full.snap /\ full'.clean = full.clean /\ full'.doubt = full.doubt
          /\ full'.todo[full.cur] = 0 /\ \A s \in Saves : s # full.cur => full'.todo[s] = full.todo[s]
      BY <1>t, <2>1 DEF FullStates, Entries
    <2>3. /\ local'[full.cur].mtime = full.todo[full.cur]
          /\ \A s \in Saves : local'[s].ver = local[s].ver /\ (s # full.cur => local'[s] = local[s])
          /\ overtaken \subseteq overtaken' /\ (full.cur \notin overtaken' => local[full.cur].ver = full.got)
      BY <1>t, <2>1, Stamped
    <2>4. full.todo[full.cur] # 0 /\ full.got = cloud[full.cur].ver /\ local[full.cur].ver # 0
      BY <2>1 DEF DownloadFresh
    <2>5. LocalNotBehind'
      BY <1>t, <2>1, <2>3, <2>4 DEF LocalNotBehind
    <2>6. TimesCome'
      <3>1. \A s \in Saves : local'[s].mtime <= clock /\ full'.todo[s] <= clock
        BY <1>t, <2>1, <2>2, <2>3 DEF TimesCome
      <3> QED
        BY <2>1, <2>2, <3>1 DEF TimesCome
    <2>7. ASSUME NEW l, Backed(l)
          PROVE  \A s \in Saves \ overtaken' : local'[s].mtime <= l[s] => local'[s].ver <= cloud[s].ver
      BY <1>t, <2>1, <2>3, <2>4, <2>7 DEF Backed
    <2>8. ListsBacked'
      <3> DEFINE Still(l) == \A s \in Saves \ overtaken' : local'[s].mtime <= l[s] => local'[s].ver <= cloud[s].ver
      <3>1. /\ Still(man) /\ Still(full.snap)
            /\ Still(cloud[Manifest].list) /\ Still(req[FullSync].body.list)
        BY <2>7 DEF ListsBacked
      <3> QED
        BY <2>1, <2>2, <3>1 DEF ListsBacked, Backed
    <2>9. SyncProgress'
      BY <2>1, <2>2, <2>3, <2>4 DEF SyncProgress
    <2>10. DownloadFresh'
      BY <1>t, <2>1, <2>2 DEF DownloadFresh
    <2>11. FullSyncAlone' /\ PlanOnDisk' /\ UploadFresh' /\ RequestsInPhase'
      BY <1>q, <2>1, <2>2 DEF FullSyncAlone, PlanOnDisk, UploadFresh, RequestsInPhase
    <2> QED
      BY <2>5, <2>6, <2>8, <2>9, <2>10, <2>11
  <1>11. CASE FullSaveManifest
    <2>1. /\ full' = [full EXCEPT !.pc = "save"] /\ full.pc = "down" /\ full.todo = NoEntries
          /\ req'[FullSync] = [st |-> "sent", path |-> Manifest, body |-> Listing(man),
                               sha |-> sha[Manifest], retry |-> FALSE]
          /\ UNCHANGED man /\ SyncFrame
      BY <1>11, <1>u DEF FullSaveManifest, Sent, TypeOK, SyncFrame, disk
    <2>2. /\ full'.pc = "save" /\ full'.snap = full.snap /\ full'.todo = full.todo /\ full'.clean = full.clean
          /\ full'.planned = full.planned /\ full'.doubt = full.doubt
      BY <1>t, <2>1 DEF FullStates
    <2>3. req'[FullSync].body.list = man /\ req'[FullSync].st = "sent" /\ req'[FullSync].path = Manifest
      BY <2>1 DEF Listing
    <2>4. ListsBacked'
      BY <1>l, <2>1, <2>2, <2>3 DEF ListsBacked
    <2>5. TimesCome' /\ RequestsInPhase' /\ SyncProgress'
      BY <2>1, <2>2, <2>3 DEF SyncFrame, TimesCome, RequestsInPhase, SyncProgress
    <2>6. PlanOnDisk' /\ UploadFresh' /\ DownloadFresh'
      BY <2>1, <2>2 DEF PlanOnDisk, UploadFresh, DownloadFresh
    <2> QED
      BY <1>f, <2>1, <2>4, <2>5, <2>6
  <1>12. CASE FullSaved
    <2>1. /\ full' = [full EXCEPT !.pc = "done"] /\ full.pc = "save"
          /\ req'[FullSync] = NoReq /\ UNCHANGED man /\ SyncFrame
      BY <1>12, <1>u DEF FullSaved, TypeOK, SyncFrame, disk
    <2>2. /\ full'.pc = "done" /\ full'.snap = full.snap /\ full'.todo = full.todo /\ full'.clean = full.clean
          /\ full'.planned = full.planned /\ full'.doubt = full.doubt
      BY <1>t, <2>1 DEF FullStates
    <2>3. ListsBacked'
      BY <1>l, <1>n, <2>1, <2>2 DEF ListsBacked
    <2>4. TimesCome'
      BY <1>t, <1>n, <2>1, <2>2 DEF SyncFrame, TimesCome
    <2>5. RequestsInPhase' /\ SyncProgress' /\ DownloadFresh'
      BY <1>n, <2>1, <2>2 DEF SyncFrame, RequestsInPhase, SyncProgress, DownloadFresh
    <2>6. PlanOnDisk' /\ UploadFresh'
      BY <2>2 DEF PlanOnDisk, UploadFresh
    <2> QED
      BY <1>f, <2>1, <2>3, <2>4, <2>5, <2>6
  <1>13. CASE FullReturn
    <2>1. /\ full'.pc = "idle" /\ full'.cur = NoSave /\ full'.snap = NoEntries /\ full'.todo = NoEntries
          /\ full.pc \notin {"up", "save"} /\ UNCHANGED <<man, req>> /\ SyncFrame
      BY <1>13 DEF FullReturn, IdleFull, SyncFrame, disk
    <2>2. ListsBacked'
      BY <1>l, <1>n, <2>1 DEF ListsBacked
    <2>3. TimesCome'
      BY <1>t, <1>n, <2>1 DEF SyncFrame, TimesCome
    <2>4. PlanOnDisk' /\ UploadFresh' /\ RequestsInPhase' /\ DownloadFresh' /\ SyncProgress'
      BY <1>q, <1>n, <2>1 DEF PlanOnDisk, UploadFresh, RequestsInPhase, DownloadFresh, SyncProgress
    <2> QED
      BY <1>f, <2>1, <2>2, <2>3, <2>4
  <1> QED
    BY <1>1, <1>2, <1>3, <1>4, <1>5, <1>6, <1>7, <1>8, <1>9, <1>10, <1>11, <1>12, <1>13, <1>14
       DEF FullStep

(* Under manual timing playing only moves local files forward.             *)
LEMMA PlayManual ==
    ASSUME TypeOK, ManualInv, Timing = "manual", NEW s \in Saves,
           Launch(s) \/ HostSave(s) \/ HostExit(s) \/ PeriodicTick(s)
    PROVE  ManualInv'
  <1> USE DEF ManualInv
  <1>t. /\ \A r \in Saves : /\ local[r].ver \in Nat /\ local[r].mtime \in Nat /\ man[r] \in Nat
                            /\ cloud[r].ver \in Nat /\ full.todo[r] \in Nat /\ full.planned[r] \in Nat
                            /\ full.snap[r] \in Nat /\ cloud[Manifest].list[r] \in Nat
                            /\ req[FullSync].body.list[r] \in Nat
        /\ clock \in Nat /\ req[FullSync].body.ver \in Nat
    BY DEF TypeOK, FullStates, Entries, Blobs, Paths, Requests, Uploaders
  <1>1. CASE HostSave(s)
    <2>1. /\ clock' = clock + 1 /\ local'[s] = [ver |-> clock + 1, mtime |-> clock + 1]
          /\ \A r \in Saves : r # s => local'[r] = local[r]
          /\ overtaken' = overtaken \ {s}
          /\ UNCHANGED <<cloud, man, full, hook, pull, req>>
      BY <1>1 DEF HostSave, TypeOK
    <2>2. \A r \in Saves : /\ local'[r].ver \in Nat /\ local'[r].ver >= local[r].ver
                           /\ local'[r].mtime \in Nat /\ local'[r].mtime >= local[r].mtime
                           /\ local[r].ver # 0 => local'[r].ver # 0
      BY <1>t, <2>1 DEF LocalNotBehind, TimesCome
    <2>3. LocalNotBehind' /\ TimesCome'
      BY <1>t, <2>1 DEF LocalNotBehind, TimesCome
    <2>4. PlanOnDisk'
      BY <1>t, <2>1, <2>2 DEF PlanOnDisk
    <2>5. UploadFresh'
      <3> SUFFICES ASSUME full.pc = "up", full.cur # NoSave PROVE FreshUpload(req[FullSync], full.cur)'
        BY <2>1 DEF UploadFresh
      <3>1. full.cur \in Saves /\ FreshUpload(req[FullSync], full.cur)
        BY DEF UploadFresh, TypeOK, FullStates
      <3>2. req[FullSync].body.ver <= local'[full.cur].ver
        BY <1>t, <2>2, <3>1 DEF FreshUpload
      <3>3. full.todo[full.cur] <= clock
        BY <3>1 DEF TimesCome
      <3>4. full.cur \notin overtaken' /\ local'[full.cur].mtime <= full.todo[full.cur]
              => local'[full.cur].ver <= req[FullSync].body.ver
        BY <1>t, <2>1, <3>1, <3>3 DEF FreshUpload
      <3> QED
        BY <2>1, <3>1, <3>2, <3>4 DEF FreshUpload
    <2>6. ListsBacked'
      BY <1>t, <2>1 DEF ListsBacked, Backed, TimesCome
    <2>7. DownloadFresh'
      <3>1. full.pc = "stamp" => full.cur \in Saves
        BY DEF TypeOK, FullStates
      <3> QED
        BY <2>1, <2>2, <3>1 DEF DownloadFresh
    <2> QED
      BY <2>1, <2>2, <2>3, <2>4, <2>5, <2>6, <2>7
         DEF FullSyncAlone, RequestsInPhase, SyncProgress
  <1>2. CASE Launch(s) \/ HostExit(s)
    <2>1. UNCHANGED <<clock, local, overtaken, cloud, man, full, hook, pull, req>>
      BY <1>2 DEF Launch, HostExit
    <2> QED
      BY <2>1 DEF FullSyncAlone, TimesCome, LocalNotBehind, ListsBacked, Backed, PlanOnDisk, UploadFresh,
                  FreshUpload, RequestsInPhase, DownloadFresh, SyncProgress
  <1> QED
    BY <1>1, <1>2 DEF PeriodicTick

(* An app death or a reinstall keeps the manual invariant.                 *)
LEMMA CrashManual ==
    ASSUME TypeOK, ManualInv, Crash
    PROVE  ManualInv'
  <1> USE DEF Crash, ManualInv
  <1>1. cloud' = cloud \/ (cloud' = Stored(FullSync) /\ req[FullSync].st # "none")
    BY DEF FullSyncAlone, Uploaders, NoReq
  <1>t. /\ \A s \in Saves : /\ local[s].ver \in Nat /\ local[s].mtime \in Nat
                            /\ cloud[s].ver \in Nat /\ cloud'[s].ver \in Nat
                            /\ cloud[Manifest].list[s] \in Nat /\ req[FullSync].body.list[s] \in Nat
        /\ clock \in Nat
    BY CrashTypeOK DEF TypeOK, Blobs, Paths, Entries, Requests, Uploaders
  <1>2. /\ \A s \in Saves : /\ cloud'[s].ver >= cloud[s].ver
                            /\ local[s].ver = 0 \/ local[s].ver >= cloud'[s].ver
                            /\ cloud'[s].ver <= clock
        /\ cloud'[Manifest].list \in {cloud[Manifest].list, req[FullSync].body.list}
    BY <1>1, <1>t, StoredGrows DEF LocalNotBehind
  <1>n. /\ man' = NoEntries /\ full'.snap = NoEntries /\ full'.todo = NoEntries
        /\ req'[FullSync].body.list = NoEntries /\ \A s \in Saves : NoEntries[s] = 0
        /\ UNCHANGED clock
    BY DEF IdleFull, NoReq, Nothing, SaveBlob, NoEntries, Uploaders
  <1>l. \/ UNCHANGED <<local, overtaken>>
        \/ local' = [s \in Saves |-> [ver |-> 0, mtime |-> 0]]
    BY DEF NoFile
  <1>3. FullSyncAlone'
    BY DEF FullSyncAlone, IdleHook, IdlePull, Uploaders
  <1>4. LocalNotBehind'
    BY <1>2, <1>t, <1>l, <1>n DEF LocalNotBehind
  <1>5. TimesCome'
    <2>1. \A s \in Saves : local'[s].mtime <= clock /\ cloud'[Manifest].list[s] <= clock
      BY <1>2, <1>t, <1>l DEF TimesCome
    <2> QED
      BY <1>n, <1>t, <2>1 DEF TimesCome
  <1>6. ListsBacked'
    <2> SUFFICES ASSUME NEW s \in Saves \ overtaken',
                        local'[s].mtime <= 0 \/ local'[s].mtime <= cloud'[Manifest].list[s]
                 PROVE  local'[s].ver <= cloud'[s].ver
      BY <1>n DEF ListsBacked, Backed
    <2>1. CASE local'[s].ver = 0
      BY <1>t, <2>1
    <2>2. CASE local'[s].ver # 0
      <3>1. s \notin overtaken /\ local'[s] = local[s]
        BY <1>l, <2>2
      <3>2. local[s].mtime # 0
        BY <2>2, <3>1 DEF LocalNotBehind
      <3>3. \/ local[s].mtime <= cloud[Manifest].list[s]
            \/ local[s].mtime <= req[FullSync].body.list[s]
        BY <1>2, <1>t, <3>1, <3>2
      <3>4. local[s].ver <= cloud[s].ver
        BY <3>1, <3>3 DEF ListsBacked, Backed
      <3> QED
        BY <1>2, <1>t, <3>1, <3>4
    <2> QED
      BY <2>1, <2>2
  <1>7. PlanOnDisk' /\ UploadFresh' /\ DownloadFresh' /\ SyncProgress'
    BY DEF PlanOnDisk, UploadFresh, DownloadFresh, SyncProgress, IdleFull
  <1>8. RequestsInPhase'
    BY DEF RequestsInPhase, NoReq, Uploaders
  <1> QED
    BY <1>3, <1>4, <1>5, <1>6, <1>7, <1>8

(* Under manual timing every step keeps the manual invariant.              *)
LEMMA ManualStep ==
    ASSUME TypeOK, ManualInv, Timing = "manual", [Next]_vars
    PROVE  ManualInv'
  <1>1. CASE UNCHANGED vars
    BY <1>1 DEF vars, disk, net, ManualInv, FullSyncAlone, TimesCome, LocalNotBehind, ListsBacked, Backed,
                PlanOnDisk, UploadFresh, FreshUpload, RequestsInPhase, DownloadFresh, SyncProgress
  <1>2. ~PullStep /\ \A h \in Hooks : ~HookStep(h)
    BY DEF PullStep, PullDownload, PullWrite, PullStamp, HookStep, HookUploaded, HookDone, ManualInv,
           FullSyncAlone
  <1> QED
    BY <1>1, <1>2, FullManual, PutManual, PlayManual, CrashManual DEF Next

(* With manual timing no save that is newer than the cloud's is ever taken *)
(* for backed up, wherever the app dies between writing and stamping a     *)
(* download, unless an autosave came between the two (NothingHidden).      *)
THEOREM NothingIsHidden ==
    ASSUME Timing = "manual"
    PROVE  Spec => []NothingHidden
  <1>1. TypeOK /\ ManualInv /\ [Next]_vars => ManualInv'
    BY ManualStep
  <1>2. ManualInv => NothingHidden
    BY DEF ManualInv, ListsBacked, Backed, NothingHidden
  <1> QED
    BY ManualInit, TypeCorrect, <1>1, <1>2, PTL DEF Spec

(* With manual timing "Synced, 0 failed" is true: every save the sync saw  *)
(* is in the cloud unless an autosave had got a download's time, and every *)
(* save the cloud lists is on disk (SyncedMeansBackedUp).                  *)
THEOREM SyncedIsBackedUp ==
    ASSUME Timing = "manual"
    PROVE  Spec => []SyncedMeansBackedUp
  <1>1. TypeOK /\ ManualInv /\ [Next]_vars => ManualInv'
    BY ManualStep
  <1>2. TypeOK /\ ManualInv => SyncedMeansBackedUp
    <2> SUFFICES ASSUME TypeOK, ManualInv, full.pc = "done", full.clean, NEW s \in Saves
                 PROVE  /\ s \notin full.doubt => cloud[s].ver >= full.planned[s]
                        /\ man[s] # 0 => local[s] # NoFile
      BY DEF SyncedMeansBackedUp
    <2>1. /\ s \notin full.doubt => full.planned[s] <= cloud[s].ver
          /\ man[s] = 0 \/ local[s].ver # 0
      BY DEF ManualInv, SyncProgress, DownloadFresh, NoEntries
    <2>2. full.planned[s] \in Nat /\ cloud[s].ver \in Nat
      BY DEF TypeOK, FullStates, Entries, Blobs, Paths
    <2> QED
      BY <2>1, <2>2 DEF NoFile
  <1> QED
    BY ManualInit, TypeCorrect, <1>1, <1>2, PTL DEF Spec

(* With manual timing both promises hold, for any saves and bounds.        *)
COROLLARY ManualStaysHonest ==
    ASSUME Timing = "manual"
    PROVE  Spec => []ManualHonest
  BY NothingIsHidden, SyncedIsBackedUp, PTL DEF ManualHonest

-----------------------------------------------------------------------------
(* Under manual timing the repository only takes what the full sync has    *)
(* put on the wire.                                                        *)
LEMMA CloudSteps ==
    ASSUME TypeOK, ManualInv, Timing = "manual", [Next]_vars
    PROVE  cloud' = cloud \/ (cloud' = Stored(FullSync) /\ req[FullSync].st # "none")
  <1>1. CASE UNCHANGED vars
    BY <1>1 DEF vars
  <1>2. ASSUME NEW u \in Uploaders, PutStep(u)
        PROVE  cloud' = cloud \/ (cloud' = Stored(FullSync) /\ req[FullSync].st # "none")
    <2>1. u = FullSync /\ req[FullSync].st # "none"
      BY <1>2 DEF PutStep, ServerPut, LosePut, RetryPut, ManualInv, FullSyncAlone, NoReq, Uploaders
    <2> QED
      BY <1>2, <2>1 DEF PutStep, ServerPut, LosePut, RetryPut
  <1>3. CASE Crash
    BY <1>3 DEF Crash, ManualInv, FullSyncAlone, Uploaders, NoReq
  <1>4. ASSUME cloud' # cloud PROVE Crash \/ \E u \in Uploaders : PutStep(u)
    <2>1. ~(FullSyncStart \/ FullStep)
      BY <1>4 DEF FullSyncStart, FullStep, RefreshShaCache, FetchManifest, LoadManifest, PlanUpload,
                  FullUpload, FullUploaded, PlanDownload, FullDownload, FullWrite, FullStamp, FullSaveManifest,
                  FullSaved, FullReturn
    <2>2. ~PullStep /\ \A h \in Hooks : ~HookStep(h)
      BY <1>4 DEF PullStep, PullDownload, PullWrite, PullStamp, HookStep, HookUploaded, HookDone
    <2>3. \A r \in Saves : ~(Launch(r) \/ HostSave(r) \/ HostExit(r) \/ PeriodicTick(r))
      BY <1>4 DEF Launch, HostSave, HostExit, PeriodicTick
    <2> QED
      BY <1>4, <2>1, <2>2, <2>3 DEF Next, vars
  <1> QED
    BY <1>2, <1>3, <1>4

(* Under manual timing the cloud's saves only grow.                        *)
LEMMA CloudGrows ==
    ASSUME TypeOK, ManualInv, Timing = "manual", [Next]_vars, NEW s \in Saves
    PROVE  cloud[s].ver \in Nat /\ cloud'[s].ver \in Nat /\ cloud'[s].ver >= cloud[s].ver
  <1>1. cloud[s].ver \in Nat
    BY DEF TypeOK, Blobs, Paths
  <1>2. cloud' = cloud \/ (cloud' = Stored(FullSync) /\ req[FullSync].st # "none")
    BY CloudSteps
  <1>3. cloud'[s].ver >= cloud[s].ver
    BY <1>1, <1>2, StoredGrows
  <1>4. cloud'[s].ver \in Nat
    BY <1>1, <1>2, StoredType DEF TypeOK, Blobs, Paths, Uploaders
  <1> QED
    BY <1>1, <1>3, <1>4

(* What a sync that was given the stored manifest holds is never behind    *)
(* the stored one, and its uploads only bring entries forward.             *)
ListCovered ==
    full.answered => \A s \in Saves :
        LET listed == cloud[Manifest].list[s] IN
        /\ full.pc = "loaded" => listed <= full.snap[s]
        /\ full.pc \in {"plan", "up", "down", "write", "stamp", "save", "done"} => listed <= man[s]
        /\ full.pc = "up" /\ (full.todo[s] # 0 \/ full.cur = s) => man[s] <= full.todo[s]
        /\ full.pc = "save" => req[FullSync].body.list[s] = man[s]

(* Under manual timing only the sync's last request changes the stored     *)
(* manifest.                                                               *)
LEMMA ListSteps ==
    ASSUME TypeOK, ManualInv, Timing = "manual", [Next]_vars
    PROVE  \/ cloud'[Manifest] = cloud[Manifest]
           \/ full.pc = "save" /\ cloud'[Manifest] = req[FullSync].body
  <1>1. cloud \in [Paths -> Blobs] /\ Manifest \in Paths /\ Manifest \notin Saves
    BY DEF TypeOK, Paths
  <1>2. CASE cloud' = cloud
    BY <1>2
  <1>3. CASE cloud' = Stored(FullSync) /\ req[FullSync].st # "none"
    <2>1. CASE full.pc = "up" /\ full.cur # NoSave
      <3>1. req[FullSync].path \in Saves
        BY <2>1 DEF TypeOK, FullStates, ManualInv, UploadFresh, FreshUpload
      <3> QED
        BY <1>1, <1>3, <3>1 DEF Stored
    <2>2. CASE full.pc = "save" /\ req[FullSync].path = Manifest
      BY <1>1, <1>3, <2>2 DEF Stored
    <2> QED
      BY <1>3, <2>1, <2>2 DEF ManualInv, RequestsInPhase
  <1> QED
    BY <1>2, <1>3, CloudSteps

(* Under manual timing every step keeps the manifest covered.              *)
LEMMA ListCoveredStep ==
    ASSUME TypeOK, ManualInv, ListCovered, Timing = "manual", [Next]_vars
    PROVE  ListCovered'
  <1>t. /\ full \in FullStates
        /\ \A s \in Saves : /\ cloud[Manifest].list[s] \in Nat /\ man[s] \in Nat /\ local[s].mtime \in Nat
                            /\ full.todo[s] \in Nat /\ full.snap[s] \in Nat
        /\ man \in Entries /\ full.todo \in Entries
    BY DEF TypeOK, FullStates, Entries, Blobs, Paths
  <1>l. full.answered /\ cloud'[Manifest] # cloud[Manifest] =>
            full.pc = "save" /\ \A s \in Saves : cloud'[Manifest].list[s] = man[s]
    BY ListSteps DEF ListCovered
  <1>k. UNCHANGED <<full, man>> /\ req'[FullSync].body = req[FullSync].body => ListCovered'
    <2> SUFFICES ASSUME UNCHANGED <<full, man>>, req'[FullSync].body = req[FullSync].body
                 PROVE  ListCovered'
      OBVIOUS
    <2>1. CASE cloud'[Manifest] = cloud[Manifest]
      BY <2>1 DEF ListCovered
    <2>2. CASE full.answered /\ full.pc = "save" /\ \A s \in Saves : cloud'[Manifest].list[s] = man[s]
      <3>1. full'.pc = "save"
        BY <2>2
      <3> QED
        BY <1>t, <2>2, <3>1 DEF ListCovered
    <2>3. CASE ~full.answered
      BY <2>3 DEF ListCovered
    <2> QED
      BY <1>l, <2>1, <2>2, <2>3
  <1>1. CASE UNCHANGED vars
    BY <1>1, <1>k DEF vars
  <1>2. ASSUME NEW u \in Uploaders, PutStep(u) PROVE ListCovered'
    <2>1. UNCHANGED <<full, man>> /\ req \in [Uploaders -> Requests] /\ FullSync \in Uploaders
      BY <1>2 DEF PutStep, ServerPut, LosePut, RetryPut, TypeOK, Uploaders
    <2>2. req'[FullSync].body = req[FullSync].body
      <3>1. CASE ServerPut(u)
        BY <2>1, <3>1 DEF ServerPut, Requests
      <3>2. CASE LosePut(u)
        BY <2>1, <3>2 DEF LosePut, Requests
      <3>3. CASE RetryPut(u)
        BY <2>1, <3>3 DEF RetryPut, Requests
      <3> QED
        BY <1>2, <3>1, <3>2, <3>3 DEF PutStep
    <2> QED
      BY <2>1, <2>2, <1>k
  <1>3. ASSUME NEW s \in Saves, Launch(s) \/ HostSave(s) \/ HostExit(s) \/ PeriodicTick(s)
        PROVE  ListCovered'
    <2>1. UNCHANGED <<full, man, req>>
      BY <1>3 DEF Launch, HostSave, HostExit, PeriodicTick
    <2> QED
      BY <1>k, <2>1
  <1>4. CASE Crash
    BY <1>4 DEF Crash, IdleFull, ListCovered
  <1>5. CASE FullSyncStart \/ FullReturn
    BY <1>5 DEF FullSyncStart, FullReturn, IdleFull, ListCovered, FullStates
  <1>6. CASE RefreshShaCache
    <2>1. full'.pc = "load"
      BY <1>6, <1>t DEF RefreshShaCache, FullStates
    <2> QED
      BY <2>1 DEF ListCovered
  <1>7. CASE FetchManifest
    <2>1. /\ full'.pc = "loaded" /\ UNCHANGED cloud
          /\ ~full'.answered \/ full'.snap = cloud[Manifest].list
      BY <1>7, <1>t DEF FetchManifest, FullStates
    <2> QED
      BY <1>t, <2>1 DEF ListCovered
  <1>8. CASE LoadManifest
    <2>1. /\ full.pc = "loaded" /\ full'.pc = "plan" /\ full'.answered = full.answered
          /\ man' = full.snap /\ UNCHANGED cloud
      BY <1>8, <1>t DEF LoadManifest, FullStates
    <2> QED
      BY <1>t, <2>1 DEF ListCovered
  <1>9. CASE PlanUpload
    <2>1. /\ full.pc = "plan" /\ full'.pc = "up" /\ full'.answered = full.answered
          /\ full'.todo = NewerHere /\ full'.cur = full.cur /\ full.cur = NoSave /\ UNCHANGED <<cloud, man>>
      BY <1>9, <1>t DEF PlanUpload, FullStates, TypeOK
    <2>2. \A s \in Saves : NewerHere[s] # 0 => man[s] <= NewerHere[s]
      BY <1>t DEF NewerHere
    <2>3. NoSave \notin Saves
      OBVIOUS
    <2> QED
      BY <1>t, <2>1, <2>2, <2>3 DEF ListCovered
  <1>10. ASSUME NEW s \in Saves, FullUpload(s) PROVE ListCovered'
    <2>1. /\ full.pc = "up" /\ full'.pc = "up" /\ full'.answered = full.answered /\ full'.todo = full.todo
          /\ full'.cur = s /\ full.todo[s] # 0 /\ UNCHANGED <<cloud, man>>
      BY <1>10, <1>t DEF FullUpload, FullStates
    <2> QED
      BY <2>1 DEF ListCovered
  <1>11. CASE FullUploaded
    <2>1. /\ full.pc = "up" /\ full.cur \in Saves /\ full'.pc = "up" /\ full'.answered = full.answered
          /\ full'.cur = NoSave /\ full'.todo = [full.todo EXCEPT ![full.cur] = 0] /\ UNCHANGED cloud
          /\ man' = IF req[FullSync].st = "ok" THEN [man EXCEPT ![full.cur] = full.todo[full.cur]] ELSE man
      BY <1>11, <1>t DEF FullUploaded, FullStates
    <2>2. ASSUME full.answered, NEW s \in Saves
          PROVE  /\ cloud[Manifest].list[s] <= man'[s]
                 /\ full'.todo[s] # 0 \/ full'.cur = s => man'[s] <= full'.todo[s]
      <3>1. cloud[Manifest].list[s] <= man[s] /\ (full.todo[s] # 0 \/ full.cur = s => man[s] <= full.todo[s])
        BY <2>1, <2>2 DEF ListCovered
      <3>2. CASE s = full.cur
        <4>1. full'.todo[s] = 0 /\ man'[s] \in {man[s], full.todo[s]} /\ full'.cur # s
          BY <1>t, <2>1, <3>2 DEF Entries
        <4> QED
          BY <1>t, <3>1, <3>2, <4>1
      <3>3. CASE s # full.cur
        <4>1. full'.todo[s] = full.todo[s] /\ man'[s] = man[s] /\ full'.cur # s
          BY <1>t, <2>1, <3>3 DEF Entries
        <4> QED
          BY <3>1, <4>1
      <3> QED
        BY <3>2, <3>3
    <2> QED
      BY <2>1, <2>2 DEF ListCovered
  <1>12. ASSUME full.pc \in {"up", "down", "write", "stamp"}, full'.pc \in {"down", "write", "stamp"},
                full'.answered = full.answered, UNCHANGED <<cloud, man>>
         PROVE  ListCovered'
    BY <1>12 DEF ListCovered
  <1>13. CASE PlanDownload
    <2>1. /\ full.pc = "up" /\ full'.pc = "down" /\ full'.answered = full.answered /\ UNCHANGED <<cloud, man>>
      BY <1>13, <1>t DEF PlanDownload, FullStates
    <2> QED
      BY <1>12, <2>1
  <1>14. ASSUME NEW s \in Saves, FullDownload(s) PROVE ListCovered'
    <2>1. /\ full.pc = "down" /\ full'.pc \in {"down", "write"} /\ full'.answered = full.answered
          /\ UNCHANGED <<cloud, man>>
      BY <1>14, <1>t DEF FullDownload, FullStates
    <2> QED
      BY <1>12, <2>1
  <1>15. CASE FullWrite \/ FullStamp
    <2>1. /\ full.pc \in {"write", "stamp"} /\ full'.pc \in {"down", "stamp"}
          /\ full'.answered = full.answered /\ UNCHANGED <<cloud, man>>
      BY <1>15, <1>t DEF FullWrite, FullStamp, FullStates
    <2> QED
      BY <1>12, <2>1
  <1>16. CASE FullSaveManifest
    <2>1. /\ full.pc = "down" /\ full'.pc = "save" /\ full'.answered = full.answered /\ UNCHANGED <<cloud, man>>
          /\ req'[FullSync].body = Listing(man)
      BY <1>16, <1>t DEF FullSaveManifest, FullStates, Sent, TypeOK, Uploaders
    <2> QED
      BY <2>1 DEF ListCovered, Listing
  <1>17. CASE FullSaved
    <2>1. /\ full.pc = "save" /\ full'.pc = "done" /\ full'.answered = full.answered /\ UNCHANGED <<cloud, man>>
      BY <1>17, <1>t DEF FullSaved, FullStates
    <2> QED
      BY <2>1 DEF ListCovered
  <1>18. ~PullStep /\ \A h \in Hooks : ~HookStep(h)
    BY DEF PullStep, PullDownload, PullWrite, PullStamp, HookStep, HookUploaded, HookDone, ManualInv, FullSyncAlone
  <1> QED
    BY <1>1, <1>2, <1>3, <1>4, <1>5, <1>6, <1>7, <1>8, <1>9, <1>10, <1>11, <1>13, <1>14, <1>15, <1>16,
       <1>17, <1>18 DEF Next, FullStep

(* With manual timing the stored manifest drops or backdates an entry only *)
(* in a sync whose download of it had failed (OnlyUnansweredDelists).      *)
THEOREM OnlyFailedFetchDelists ==
    ASSUME Timing = "manual"
    PROVE  Spec => OnlyUnansweredDelists
  <1>1. TypeOK /\ ManualInv /\ [Next]_vars => ManualInv'
    BY ManualStep
  <1>2. TypeOK /\ ManualInv /\ ListCovered /\ [Next]_vars => ListCovered'
    BY ListCoveredStep
  <1>3. Init => ListCovered
    BY DEF Init, IdleFull, ListCovered
  <1>4. TypeOK /\ ManualInv /\ ListCovered /\ [Next]_vars
          => [\A s \in Saves : cloud'[Manifest].list[s] < cloud[Manifest].list[s] => ~full.answered]_vars
    <2> SUFFICES ASSUME TypeOK, ManualInv, ListCovered, [Next]_vars, NEW s \in Saves, full.answered
                 PROVE  ~(cloud'[Manifest].list[s] < cloud[Manifest].list[s])
      OBVIOUS
    <2>1. cloud[Manifest].list[s] \in Nat /\ man[s] \in Nat
      BY DEF TypeOK, Entries, Blobs, Paths
    <2>2. CASE cloud'[Manifest] = cloud[Manifest]
      BY <2>1, <2>2
    <2>3. CASE full.pc = "save" /\ cloud'[Manifest] = req[FullSync].body
      BY <2>1, <2>3 DEF ListCovered
    <2> QED
      BY <2>2, <2>3, ListSteps
  <1> QED
    BY ManualInit, TypeCorrect, <1>1, <1>2, <1>3, <1>4, PTL DEF Spec, OnlyUnansweredDelists

-----------------------------------------------------------------------------
(* A sync that was not given the stored manifest plans no download: all it *)
(* then lists is what it uploaded itself.                                  *)
UnfetchedBringsNothing ==
    ~full.answered =>
        /\ full.pc = "loaded" => full.snap = NoEntries
        /\ full.pc \in {"plan", "up"} => \A s \in Saves : man[s] <= local[s].mtime
        /\ full.pc \in {"down", "write", "stamp"} => full.todo = NoEntries

(* No list is ahead of a file that has a download's time on an autosave's  *)
(* bytes: its time was the newest listed.                                  *)
BehindOvertaken(list) == \A s \in overtaken : list[s] <= local[s].mtime

OvertakenLast ==
    /\ BehindOvertaken(man) /\ BehindOvertaken(cloud[Manifest].list)
    /\ BehindOvertaken(req[FullSync].body.list)
    /\ full.pc = "loaded" => BehindOvertaken(full.snap)

(* What the sync saw of a save it did not upload, or uploads no more, is   *)
(* in the cloud before a download can replace it, failed or not.           *)
PlanCovered ==
    /\ full.pc = "up" =>
          \A s \in Saves : full.planned[s] <= cloud[s].ver \/ man[s] <= local[s].mtime
    /\ full.pc \in {"down", "write", "stamp"} =>
          \A s \in Saves : full.todo[s] # 0 => full.planned[s] <= cloud[s].ver

RaceInv == ListCovered /\ UnfetchedBringsNothing /\ OvertakenLast /\ PlanCovered

(* A request's progress changes no file, list or sync.                     *)
LEMMA PutKeeps ==
    ASSUME TypeOK, NEW u \in Uploaders, PutStep(u)
    PROVE  UNCHANGED <<local, overtaken, man, full>> /\ req'[FullSync].body = req[FullSync].body
  <1>1. req \in [Uploaders -> Requests] /\ FullSync \in Uploaders
    BY DEF TypeOK, Uploaders
  <1>2. CASE ServerPut(u)
    BY <1>1, <1>2 DEF ServerPut, Requests, disk
  <1>3. CASE LosePut(u)
    BY <1>1, <1>3 DEF LosePut, Requests, disk
  <1>4. CASE RetryPut(u)
    BY <1>1, <1>4 DEF RetryPut, Requests, disk
  <1> QED
    BY <1>2, <1>3, <1>4 DEF PutStep

(* Under manual timing playing only brings file times forward.             *)
LEMMA PlayGrows ==
    ASSUME TypeOK, ManualInv, Timing = "manual", NEW s \in Saves,
           Launch(s) \/ HostSave(s) \/ HostExit(s) \/ PeriodicTick(s)
    PROVE  /\ UNCHANGED <<cloud, man, full, req>> /\ overtaken' \subseteq overtaken
           /\ \A r \in Saves : local'[r].mtime \in Nat /\ local'[r].mtime >= local[r].mtime
  <1>t. /\ local \in [Saves -> [ver : Nat, mtime : Nat]] /\ clock \in Nat
        /\ \A r \in Saves : local[r].mtime <= clock
    BY DEF TypeOK, ManualInv, TimesCome
  <1>1. CASE HostSave(s)
    <2>1. /\ local'[s].mtime = clock + 1 /\ \A r \in Saves \ {s} : local'[r] = local[r]
          /\ UNCHANGED <<cloud, man, full, req>> /\ overtaken' = overtaken \ {s}
      BY <1>t, <1>1 DEF HostSave
    <2> QED
      BY <1>t, <2>1
  <1>2. CASE Launch(s) \/ HostExit(s)
    <2>1. UNCHANGED <<local, overtaken, cloud, man, full, req>>
      BY <1>2 DEF Launch, HostExit
    <2> QED
      BY <1>t, <2>1
  <1> QED
    BY <1>1, <1>2 DEF PeriodicTick

(* A sync without the stored manifest never gets something to download.    *)
LEMMA UnfetchedStep ==
    ASSUME TypeOK, ManualInv, UnfetchedBringsNothing, Timing = "manual", [Next]_vars
    PROVE  UnfetchedBringsNothing'
  <1>t. /\ full \in FullStates /\ \A s \in Saves : local[s].mtime \in Nat /\ man[s] \in Nat
        /\ full.todo \in Entries /\ man \in Entries /\ \A s \in Saves : NoEntries[s] = 0
    BY DEF TypeOK, FullStates, Entries, NoEntries
  <1>k. ASSUME UNCHANGED <<full, man>>,
               \A s \in Saves : local'[s].mtime \in Nat /\ local'[s].mtime >= local[s].mtime
        PROVE  UnfetchedBringsNothing'
    <2>1. \A s \in Saves : man[s] <= local[s].mtime => man[s] <= local'[s].mtime
      BY <1>t, <1>k
    <2> QED
      BY <1>k, <2>1 DEF UnfetchedBringsNothing
  <1>1. CASE UNCHANGED vars
    BY <1>1, <1>k, <1>t DEF vars, disk
  <1>2. ASSUME NEW u \in Uploaders, PutStep(u) PROVE UnfetchedBringsNothing'
    BY <1>2, <1>k, <1>t, PutKeeps
  <1>3. ASSUME NEW s \in Saves, Launch(s) \/ HostSave(s) \/ HostExit(s) \/ PeriodicTick(s)
        PROVE  UnfetchedBringsNothing'
    BY <1>3, <1>k, PlayGrows
  <1>4. CASE Crash \/ FullSyncStart \/ FullReturn
    <2>1. full'.pc \in {"idle", "refresh"}
      BY <1>4 DEF Crash, FullSyncStart, FullReturn, IdleFull
    <2> QED
      BY <2>1 DEF UnfetchedBringsNothing
  <1>5. CASE RefreshShaCache
    <2>1. full'.pc = "load"
      BY <1>5, <1>t DEF RefreshShaCache, FullStates
    <2> QED
      BY <2>1 DEF UnfetchedBringsNothing
  <1>6. CASE FetchManifest
    <2>1. full'.pc = "loaded" /\ (full'.answered \/ full'.snap = NoEntries)
      BY <1>6, <1>t DEF FetchManifest, FullStates
    <2> QED
      BY <2>1 DEF UnfetchedBringsNothing
  <1>7. CASE LoadManifest
    <2>1. /\ full.pc = "loaded" /\ full'.pc = "plan" /\ full'.answered = full.answered
          /\ man' = full.snap /\ UNCHANGED local
      BY <1>7, <1>t DEF LoadManifest, FullStates, disk
    <2> QED
      BY <1>t, <2>1 DEF UnfetchedBringsNothing
  <1>8. ASSUME full.pc \in {"plan", "up"}, full'.pc = "up", full'.answered = full.answered,
               UNCHANGED <<local, man>>
        PROVE  UnfetchedBringsNothing'
    BY <1>8 DEF UnfetchedBringsNothing
  <1>9. CASE PlanUpload
    <2>1. /\ full.pc = "plan" /\ full'.pc = "up" /\ full'.answered = full.answered
          /\ UNCHANGED <<local, man>>
      BY <1>9, <1>t DEF PlanUpload, FullStates, disk
    <2> QED
      BY <1>8, <2>1
  <1>10. ASSUME NEW s \in Saves, FullUpload(s) PROVE UnfetchedBringsNothing'
    <2>1. /\ full.pc = "up" /\ full'.pc = "up" /\ full'.answered = full.answered
          /\ UNCHANGED <<local, man>>
      BY <1>10, <1>t DEF FullUpload, FullStates, disk
    <2> QED
      BY <1>8, <2>1
  <1>11. CASE FullUploaded
    <2>1. /\ full.pc = "up" /\ full.cur \in Saves /\ full'.pc = "up" /\ full'.answered = full.answered
          /\ UNCHANGED local
          /\ man' = IF req[FullSync].st = "ok" THEN [man EXCEPT ![full.cur] = full.todo[full.cur]] ELSE man
      BY <1>11, <1>t DEF FullUploaded, FullStates, disk
    <2>2. full.todo[full.cur] <= local[full.cur].mtime
      BY <2>1 DEF ManualInv, PlanOnDisk
    <2>3. ASSUME NEW s \in Saves, man[s] <= local[s].mtime PROVE man'[s] <= local[s].mtime
      BY <1>t, <2>1, <2>2, <2>3 DEF Entries
    <2> QED
      BY <2>1, <2>3 DEF UnfetchedBringsNothing
  <1>12. CASE PlanDownload
    <2>1. /\ full.pc = "up" /\ full'.pc = "down" /\ full'.answered = full.answered
          /\ full'.todo = NewerThere
      BY <1>12, <1>t DEF PlanDownload, FullStates
    <2>2. ASSUME NEW s \in Saves, man[s] <= local[s].mtime PROVE NewerThere[s] = 0
      <3>1. local[s] = NoFile => man[s] = 0
        BY <1>t, <2>2 DEF NoFile
      <3>2. ~(man[s] > local[s].mtime)
        BY <1>t, <2>2
      <3> QED
        BY <3>1, <3>2 DEF NewerThere
    <2>3. (\A s \in Saves : NewerThere[s] = 0) => NewerThere = NoEntries
      BY DEF NewerThere, NoEntries
    <2> QED
      BY <2>1, <2>2, <2>3 DEF UnfetchedBringsNothing
  <1>13. ASSUME full.answered, full'.answered = full.answered PROVE UnfetchedBringsNothing'
    BY <1>13 DEF UnfetchedBringsNothing
  <1>14. ASSUME NEW s \in Saves, FullDownload(s) PROVE UnfetchedBringsNothing'
    <2>1. full.pc = "down" /\ full.todo[s] # 0 /\ full'.answered = full.answered
      BY <1>14, <1>t DEF FullDownload, FullStates
    <2>2. full.answered
      BY <1>t, <2>1 DEF UnfetchedBringsNothing
    <2> QED
      BY <1>13, <2>1, <2>2
  <1>15. CASE FullWrite \/ FullStamp
    <2>1. /\ full.pc \in {"write", "stamp"} /\ full'.answered = full.answered
          /\ full.cur \in Saves /\ full.todo[full.cur] # 0
      BY <1>15, <1>t DEF FullWrite, FullStamp, FullStates, TypeOK, ManualInv, DownloadFresh
    <2>2. full.answered
      BY <1>t, <2>1 DEF UnfetchedBringsNothing
    <2> QED
      BY <1>13, <2>1, <2>2
  <1>16. CASE FullSaveManifest
    <2>1. full'.pc = "save"
      BY <1>16, <1>t DEF FullSaveManifest, FullStates
    <2> QED
      BY <2>1 DEF UnfetchedBringsNothing
  <1>17. CASE FullSaved
    <2>1. full'.pc = "done"
      BY <1>17, <1>t DEF FullSaved, FullStates
    <2> QED
      BY <2>1 DEF UnfetchedBringsNothing
  <1>18. ~PullStep /\ \A h \in Hooks : ~HookStep(h)
    BY DEF PullStep, PullDownload, PullWrite, PullStamp, HookStep, HookUploaded, HookDone, ManualInv,
           FullSyncAlone
  <1> QED
    BY <1>1, <1>2, <1>3, <1>4, <1>5, <1>6, <1>7, <1>9, <1>10, <1>11, <1>12, <1>14, <1>15, <1>16, <1>17,
       <1>18 DEF Next, FullStep

(* A file with a download's time keeps the newest time listed.             *)
LEMMA OvertakenStep ==
    ASSUME TypeOK, ManualInv, ListCovered, UnfetchedBringsNothing, OvertakenLast,
           Timing = "manual", [Next]_vars
    PROVE  OvertakenLast'
  <1>t. /\ full \in FullStates /\ overtaken \subseteq Saves
        /\ \A s \in Saves : /\ local[s].mtime \in Nat /\ man[s] \in Nat /\ full.snap[s] \in Nat
                            /\ cloud[Manifest].list[s] \in Nat /\ req[FullSync].body.list[s] \in Nat
                            /\ NoEntries[s] = 0
        /\ full.todo \in Entries /\ man \in Entries
        /\ local \in [Saves -> [ver : Nat, mtime : Nat]]
        /\ FullSync \in Uploaders /\ NoReq.body.list = NoEntries
    BY DEF TypeOK, FullStates, Entries, NoEntries, Blobs, Paths, Requests, Uploaders, NoReq, Nothing,
           SaveBlob
  <1>n. BehindOvertaken(NoEntries)
    BY <1>t DEF BehindOvertaken
  <1>c. /\ BehindOvertaken(cloud'[Manifest].list)
        /\ \A s \in Saves : cloud'[Manifest].list[s] \in Nat
    BY <1>t, ListSteps DEF OvertakenLast
  <1>k. ASSUME UNCHANGED <<man, full>>, req'[FullSync].body = req[FullSync].body,
               overtaken' \subseteq overtaken,
               \A s \in Saves : local'[s].mtime \in Nat /\ local'[s].mtime >= local[s].mtime
        PROVE  OvertakenLast'
    <2>1. ASSUME NEW s \in overtaken' PROVE s \in overtaken /\ local'[s].mtime \in Nat /\ local'[s].mtime >= local[s].mtime
      BY <1>k, <1>t, <2>1
    <2>2. \A s \in overtaken' : man'[s] <= local'[s].mtime
      BY <1>k, <1>t, <2>1 DEF OvertakenLast, BehindOvertaken
    <2>3. \A s \in overtaken' : cloud'[Manifest].list[s] <= local'[s].mtime
      BY <1>c, <1>t, <2>1 DEF BehindOvertaken
    <2>4. \A s \in overtaken' : req'[FullSync].body.list[s] <= local'[s].mtime
      BY <1>k, <1>t, <2>1 DEF OvertakenLast, BehindOvertaken
    <2>5. full'.pc = "loaded" => \A s \in overtaken' : full'.snap[s] <= local'[s].mtime
      BY <1>k, <1>t, <2>1 DEF OvertakenLast, BehindOvertaken
    <2> QED
      BY <2>2, <2>3, <2>4, <2>5 DEF OvertakenLast, BehindOvertaken
  <1>f. ASSUME UNCHANGED <<local, overtaken>>, BehindOvertaken(man'), BehindOvertaken(req'[FullSync].body.list),
               full'.pc = "loaded" => BehindOvertaken(full'.snap)
        PROVE  OvertakenLast'
    BY <1>c, <1>f DEF OvertakenLast, BehindOvertaken
  <1>1. CASE UNCHANGED vars
    BY <1>1, <1>k, <1>t DEF vars, disk
  <1>2. ASSUME NEW u \in Uploaders, PutStep(u) PROVE OvertakenLast'
    BY <1>2, <1>k, <1>t, PutKeeps
  <1>3. ASSUME NEW s \in Saves, Launch(s) \/ HostSave(s) \/ HostExit(s) \/ PeriodicTick(s)
        PROVE  OvertakenLast'
    BY <1>3, <1>k, PlayGrows
  <1>4. CASE Crash
    <2>1. /\ man' = NoEntries /\ full'.pc = "idle" /\ req'[FullSync].body.list = NoEntries
          /\ UNCHANGED <<local, overtaken>> \/ overtaken' = {}
      BY <1>4, <1>t DEF Crash, IdleFull
    <2>2. CASE UNCHANGED <<local, overtaken>>
      BY <1>f, <1>n, <2>1, <2>2
    <2>3. CASE overtaken' = {}
      BY <2>3 DEF OvertakenLast, BehindOvertaken
    <2> QED
      BY <2>1, <2>2, <2>3
  <1>5. CASE FullSyncStart \/ FullReturn \/ RefreshShaCache \/ PlanUpload \/ PlanDownload
    <2>1. UNCHANGED <<local, overtaken, man, req>>
      BY <1>5 DEF FullSyncStart, FullReturn, RefreshShaCache, PlanUpload, PlanDownload, disk
    <2>2. full'.pc # "loaded"
      <3>1. CASE FullSyncStart \/ FullReturn
        BY <3>1 DEF FullSyncStart, FullReturn, IdleFull
      <3>2. CASE RefreshShaCache
        BY <3>2, <1>t DEF RefreshShaCache, FullStates
      <3>3. CASE PlanUpload
        BY <3>3, <1>t DEF PlanUpload, FullStates
      <3>4. CASE PlanDownload
        BY <3>4, <1>t DEF PlanDownload, FullStates
      <3> QED
        BY <1>5, <3>1, <3>2, <3>3, <3>4
    <2> QED
      BY <1>f, <2>1, <2>2 DEF OvertakenLast
  <1>6. CASE FetchManifest
    <2>1. /\ UNCHANGED <<local, overtaken, man, req>>
          /\ full'.snap = NoEntries \/ full'.snap = cloud[Manifest].list
      BY <1>6, <1>t DEF FetchManifest, FullStates, disk
    <2> QED
      BY <1>f, <1>n, <2>1 DEF OvertakenLast
  <1>7. CASE LoadManifest
    <2>1. /\ full.pc = "loaded" /\ full'.pc = "plan" /\ man' = full.snap
          /\ UNCHANGED <<local, overtaken, req>>
      BY <1>7, <1>t DEF LoadManifest, FullStates, disk
    <2> QED
      BY <1>f, <2>1 DEF OvertakenLast
  <1>8. ASSUME NEW s \in Saves, FullUpload(s) PROVE OvertakenLast'
    <2>1. /\ full'.pc = "up" /\ UNCHANGED <<local, overtaken, man>>
          /\ req'[FullSync].body.list = NoEntries
      BY <1>8, <1>t DEF FullUpload, FullStates, disk, Sent, SaveBlob, TypeOK
    <2> QED
      BY <1>f, <1>n, <2>1 DEF OvertakenLast
  <1>9. CASE FullUploaded
    <2>1. /\ full.pc = "up" /\ full.cur \in Saves /\ full'.pc = "up" /\ UNCHANGED <<local, overtaken>>
          /\ man' = IF req[FullSync].st = "ok" THEN [man EXCEPT ![full.cur] = full.todo[full.cur]] ELSE man
          /\ req'[FullSync].body.list = NoEntries
      BY <1>9, <1>t DEF FullUploaded, FullStates, disk, TypeOK
    <2>2. full.todo[full.cur] <= local[full.cur].mtime
      BY <2>1 DEF ManualInv, PlanOnDisk
    <2>3. ASSUME NEW s \in overtaken PROVE man'[s] <= local[s].mtime
      <3>1. man[s] <= local[s].mtime
        BY DEF OvertakenLast, BehindOvertaken
      <3> QED
        BY <1>t, <2>1, <2>2, <3>1 DEF Entries
    <2> QED
      BY <1>f, <1>n, <2>1, <2>3 DEF BehindOvertaken
  <1>10. ASSUME NEW s \in Saves, FullDownload(s) PROVE OvertakenLast'
    <2>1. full'.pc \in {"down", "write"} /\ UNCHANGED <<local, overtaken, man, req>>
      BY <1>10, <1>t DEF FullDownload, FullStates, disk
    <2> QED
      BY <1>f, <2>1 DEF OvertakenLast
  <1>11. CASE FullWrite
    <2>1. /\ full'.pc = "stamp" /\ UNCHANGED <<cloud, man, req>> /\ overtaken' = overtaken \ {full.cur}
          /\ \A s \in Saves \ {full.cur} : local'[s] = local[s]
      BY <1>11, <1>t DEF FullWrite, FullStates
    <2> QED
      BY <1>t, <2>1 DEF OvertakenLast, BehindOvertaken
  <1>12. CASE FullStamp
    <2>1. /\ full.pc = "stamp" /\ full.cur \in Saves /\ full'.pc = "down" /\ UNCHANGED <<cloud, man, req>>
          /\ overtaken' \subseteq overtaken \cup {full.cur}
          /\ local' = [local EXCEPT ![full.cur].mtime = full.todo[full.cur]]
      BY <1>12, <1>t DEF FullStamp, Stamp, FullStates, TypeOK
    <2>2. local'[full.cur].mtime = man[full.cur] /\ full.todo[full.cur] # 0
      BY <1>t, <2>1 DEF ManualInv, DownloadFresh
    <2>3. \A s \in Saves \ {full.cur} : local'[s] = local[s]
      BY <1>t, <2>1
    <2>4. cloud[Manifest].list[full.cur] <= man[full.cur]
      <3>1. full.answered
        BY <1>t, <2>1, <2>2 DEF UnfetchedBringsNothing
      <3> QED
        BY <2>1, <3>1 DEF ListCovered
    <2>5. req[FullSync].body.list[full.cur] <= man[full.cur]
      <3>1. req[FullSync] = NoReq
        BY <2>1 DEF ManualInv, RequestsInPhase
      <3> QED
        BY <1>t, <2>1, <3>1
    <2>6. ASSUME NEW s \in overtaken'
          PROVE  /\ man'[s] <= local'[s].mtime /\ cloud'[Manifest].list[s] <= local'[s].mtime
                 /\ req'[FullSync].body.list[s] <= local'[s].mtime
      <3>1. CASE s = full.cur
        BY <1>t, <2>1, <2>2, <2>4, <2>5, <3>1
      <3>2. CASE s # full.cur
        <4>1. s \in overtaken /\ local'[s] = local[s]
          BY <1>t, <2>1, <2>3, <3>2
        <4> QED
          BY <2>1, <4>1 DEF OvertakenLast, BehindOvertaken
      <3> QED
        BY <3>1, <3>2
    <2> QED
      BY <2>1, <2>6 DEF OvertakenLast, BehindOvertaken
  <1>13. CASE FullSaveManifest
    <2>1. /\ full'.pc = "save" /\ UNCHANGED <<local, overtaken, man>> /\ req'[FullSync].body.list = man
      BY <1>13, <1>t DEF FullSaveManifest, FullStates, disk, Sent, Listing, TypeOK
    <2> QED
      BY <1>f, <2>1 DEF OvertakenLast
  <1>14. CASE FullSaved
    <2>1. /\ full'.pc = "done" /\ UNCHANGED <<local, overtaken, man>>
          /\ req'[FullSync].body.list = NoEntries
      BY <1>14, <1>t DEF FullSaved, FullStates, disk, TypeOK
    <2> QED
      BY <1>f, <1>n, <2>1 DEF OvertakenLast
  <1>15. ~PullStep /\ \A h \in Hooks : ~HookStep(h)
    BY DEF PullStep, PullDownload, PullWrite, PullStamp, HookStep, HookUploaded, HookDone, ManualInv,
           FullSyncAlone
  <1> QED
    BY <1>1, <1>2, <1>3, <1>4, <1>5, <1>6, <1>7, <1>8, <1>9, <1>10, <1>11, <1>12, <1>13, <1>14, <1>15
       DEF Next, FullStep

(* Under manual timing every step keeps what was planned covered.          *)
LEMMA PlanCoveredStep ==
    ASSUME TypeOK, ManualInv, OvertakenLast, PlanCovered, Timing = "manual", [Next]_vars
    PROVE  PlanCovered'
  <1>t. /\ full \in FullStates
        /\ \A s \in Saves : /\ local[s].ver \in Nat /\ local[s].mtime \in Nat /\ man[s] \in Nat
                            /\ full.todo[s] \in Nat /\ full.planned[s] \in Nat
        /\ man \in Entries /\ full.todo \in Entries
    BY DEF TypeOK, FullStates, Entries
  <1>c. \A s \in Saves : cloud[s].ver \in Nat /\ cloud'[s].ver \in Nat /\ cloud'[s].ver >= cloud[s].ver
    BY CloudGrows
  <1>k. ASSUME UNCHANGED <<full, man>>,
               \A s \in Saves : local'[s].mtime \in Nat /\ local'[s].mtime >= local[s].mtime
        PROVE  PlanCovered'
    <2>1. \A s \in Saves : /\ full.planned[s] <= cloud[s].ver => full.planned[s] <= cloud'[s].ver
                           /\ man[s] <= local[s].mtime => man[s] <= local'[s].mtime
      BY <1>c, <1>k, <1>t
    <2> QED
      BY <1>k, <2>1 DEF PlanCovered
  <1>1. CASE UNCHANGED vars
    BY <1>1, <1>k, <1>t DEF vars, disk
  <1>2. ASSUME NEW u \in Uploaders, PutStep(u) PROVE PlanCovered'
    BY <1>2, <1>k, <1>t, PutKeeps
  <1>3. ASSUME NEW s \in Saves, Launch(s) \/ HostSave(s) \/ HostExit(s) \/ PeriodicTick(s)
        PROVE  PlanCovered'
    BY <1>3, <1>k, PlayGrows
  <1>4. CASE Crash
    BY <1>4 DEF Crash, IdleFull, PlanCovered
  <1>5. CASE FullSyncStart \/ RefreshShaCache \/ FetchManifest \/ LoadManifest \/ FullSaveManifest
             \/ FullSaved \/ FullReturn
    <2> DEFINE Elsewhere == full'.pc \notin {"up", "down", "write", "stamp"}
    <2>1. CASE FullSyncStart \/ FullReturn
      <3>1. Elsewhere
        BY <2>1, <1>t DEF FullSyncStart, FullReturn, IdleFull, FullStates
      <3> QED
        BY <3>1 DEF PlanCovered
    <2>2. CASE RefreshShaCache \/ FullSaveManifest
      <3>1. Elsewhere
        BY <2>2, <1>t DEF RefreshShaCache, FullSaveManifest, FullStates
      <3> QED
        BY <3>1 DEF PlanCovered
    <2>3. CASE FetchManifest
      <3>1. Elsewhere
        BY <2>3, <1>t DEF FetchManifest, FullStates
      <3> QED
        BY <3>1 DEF PlanCovered
    <2>4. CASE LoadManifest
      <3>1. Elsewhere
        BY <2>4, <1>t DEF LoadManifest, FullStates
      <3> QED
        BY <3>1 DEF PlanCovered
    <2>5. CASE FullSaved
      <3>1. Elsewhere
        BY <2>5, <1>t DEF FullSaved, FullStates
      <3> QED
        BY <3>1 DEF PlanCovered
    <2> QED
      BY <1>5, <2>1, <2>2, <2>3, <2>4, <2>5
  <1>6. CASE PlanUpload
    <2>1. /\ full'.pc = "up" /\ \A s \in Saves : full'.planned[s] = local[s].ver
          /\ UNCHANGED <<local, man, cloud>>
      BY <1>6, <1>t DEF PlanUpload, FullStates, disk
    <2>2. ASSUME NEW s \in Saves PROVE local[s].ver <= cloud[s].ver \/ man[s] <= local[s].mtime
      <3>1. CASE s \in overtaken
        BY <3>1 DEF OvertakenLast, BehindOvertaken
      <3>2. CASE s \notin overtaken
        BY <1>t, <3>2 DEF ManualInv, ListsBacked, Backed
      <3> QED
        BY <3>1, <3>2
    <2> QED
      BY <2>1, <2>2 DEF PlanCovered
  <1>7. ASSUME NEW s \in Saves, FullUpload(s) PROVE PlanCovered'
    BY <1>7, <1>t DEF FullUpload, FullStates, PlanCovered, disk
  <1>8. CASE FullUploaded
    <2>1. /\ full.pc = "up" /\ full.cur \in Saves /\ FreshUpload(req[FullSync], full.cur)
          /\ req[FullSync].body.ver \in Nat
      BY <1>8, <1>t DEF FullUploaded, ManualInv, UploadFresh, FullStates, TypeOK, Requests, Blobs, Uploaders
    <2>2. /\ full'.pc = "up" /\ full'.planned = full.planned /\ UNCHANGED <<local, cloud>>
          /\ man' = IF req[FullSync].st = "ok" THEN [man EXCEPT ![full.cur] = full.todo[full.cur]] ELSE man
      BY <1>8, <1>t DEF FullUploaded, FullStates, disk
    <2>3. ASSUME NEW s \in Saves PROVE full.planned[s] <= cloud[s].ver \/ man'[s] <= local[s].mtime
      <3>1. CASE req[FullSync].st = "ok" /\ s = full.cur
        BY <1>t, <1>c, <2>1, <3>1 DEF FreshUpload
      <3>2. CASE ~(req[FullSync].st = "ok" /\ s = full.cur)
        <4>1. man'[s] = man[s]
          BY <1>t, <2>1, <2>2, <3>2 DEF Entries
        <4> QED
          BY <2>1, <4>1 DEF PlanCovered
      <3> QED
        BY <3>1, <3>2
    <2> QED
      BY <2>2, <2>3 DEF PlanCovered
  <1>9. CASE PlanDownload
    <2>1. /\ full.pc = "up" /\ full'.pc = "down" /\ full'.planned = full.planned /\ full'.todo = NewerThere
          /\ UNCHANGED <<local, cloud, man>>
      BY <1>9, <1>t DEF PlanDownload, FullStates, disk
    <2>2. ASSUME NEW s \in Saves, NewerThere[s] # 0 PROVE full.planned[s] <= cloud[s].ver
      <3>1. full.planned[s] <= local[s].ver
        BY <2>1 DEF ManualInv, PlanOnDisk
      <3>2. CASE local[s] = NoFile
        <4>1. full.planned[s] = 0
          BY <1>t, <3>1, <3>2 DEF NoFile
        <4> QED
          BY <1>c, <4>1
      <3>3. CASE man[s] > local[s].mtime
        BY <1>t, <2>1, <3>3 DEF PlanCovered
      <3> QED
        BY <2>2, <3>2, <3>3 DEF NewerThere
    <2> QED
      BY <2>1, <2>2 DEF PlanCovered
  <1>10. ASSUME full.pc \in {"down", "write", "stamp"}, full'.pc \in {"down", "write", "stamp"},
                full'.planned = full.planned, UNCHANGED cloud,
                \A s \in Saves : full'.todo[s] = full.todo[s] \/ full'.todo[s] = 0
         PROVE  PlanCovered'
    BY <1>10 DEF PlanCovered
  <1>11. ASSUME NEW s \in Saves, FullDownload(s) PROVE PlanCovered'
    <2>1. /\ full.pc = "down" /\ full'.pc \in {"down", "write"} /\ full'.planned = full.planned /\ UNCHANGED cloud
          /\ full'.todo = full.todo \/ full'.todo = [full.todo EXCEPT ![s] = 0]
      BY <1>11, <1>t DEF FullDownload, FullStates
    <2> QED
      BY <1>10, <1>t, <2>1 DEF Entries
  <1>12. CASE FullWrite
    <2>1. /\ full.pc = "write" /\ full'.pc = "stamp" /\ full'.planned = full.planned /\ UNCHANGED cloud
          /\ full'.todo = full.todo
      BY <1>12, <1>t DEF FullWrite, FullStates
    <2> QED
      BY <1>10, <2>1
  <1>14. CASE FullStamp
    <2>1. /\ full.pc = "stamp" /\ full'.pc = "down" /\ full'.planned = full.planned /\ UNCHANGED cloud
          /\ full'.todo = [full.todo EXCEPT ![full.cur] = 0]
      BY <1>14, <1>t DEF FullStamp, FullStates
    <2> QED
      BY <1>10, <1>t, <2>1 DEF Entries
  <1>13. ~PullStep /\ \A h \in Hooks : ~HookStep(h)
    BY DEF PullStep, PullDownload, PullWrite, PullStamp, HookStep, HookUploaded, HookDone, ManualInv,
           FullSyncAlone
  <1> QED
    BY <1>1, <1>2, <1>3, <1>4, <1>5, <1>6, <1>7, <1>8, <1>9, <1>11, <1>12, <1>13,
       <1>14 DEF Next, FullStep

(* With manual timing the cloud's saves only grow, and a download goes     *)
(* back behind a local save only if that was written after the sync had    *)
(* looked: the one race, for any saves, failures and deaths                *)
(* (OnlyRacedLost).                                                        *)
THEOREM OnlyTheRaceRegresses ==
    ASSUME Timing = "manual"
    PROVE  Spec => OnlyRacedLost
  <1>1. TypeOK /\ ManualInv /\ [Next]_vars => ManualInv'
    BY ManualStep
  <1>2. TypeOK /\ ManualInv /\ RaceInv /\ [Next]_vars => RaceInv'
    BY ListCoveredStep, UnfetchedStep, OvertakenStep, PlanCoveredStep DEF RaceInv
  <1>3. Init => RaceInv
    BY DEF Init, IdleFull, RaceInv, ListCovered, UnfetchedBringsNothing, OvertakenLast, BehindOvertaken,
           PlanCovered
  <1>4. TypeOK /\ ManualInv /\ RaceInv /\ [Next]_vars
          => [\A s \in Saves :
                /\ cloud'[s].ver >= cloud[s].ver
                /\ FullWrite /\ local'[s].ver < local[s].ver => local[s].ver > full.planned[s]]_vars
    <2> SUFFICES ASSUME TypeOK, ManualInv, RaceInv, [Next]_vars, NEW s \in Saves
                 PROVE  /\ cloud'[s].ver >= cloud[s].ver
                        /\ FullWrite /\ local'[s].ver < local[s].ver => local[s].ver > full.planned[s]
      OBVIOUS
    <2>1. cloud[s].ver \in Nat /\ cloud'[s].ver \in Nat /\ cloud'[s].ver >= cloud[s].ver
      BY CloudGrows
    <2>2. ASSUME FullWrite, local'[s].ver < local[s].ver PROVE local[s].ver > full.planned[s]
      <3>1. /\ local' = [local EXCEPT ![full.cur] = [ver |-> full.got, mtime |-> clock']]
            /\ full.pc = "write" /\ full.cur \in Saves
        BY <2>2 DEF FullWrite, TypeOK, FullStates
      <3>2. local[s].ver \in Nat /\ full.planned[s] \in Nat /\ local \in [Saves -> [ver : Nat, mtime : Nat]]
        BY DEF TypeOK, FullStates, Entries
      <3>3. s = full.cur
        BY <2>2, <3>1, <3>2
      <3>4. local'[s].ver = cloud[s].ver /\ full.todo[s] # 0
        BY <3>1, <3>2, <3>3 DEF ManualInv, DownloadFresh
      <3>5. full.planned[s] <= cloud[s].ver
        BY <3>1, <3>4 DEF RaceInv, PlanCovered
      <3> QED
        BY <2>1, <2>2, <3>2, <3>4, <3>5
    <2> QED
      BY <2>1, <2>2
  <1> QED
    BY ManualInit, TypeCorrect, <1>1, <1>2, <1>3, <1>4, PTL DEF Spec, OnlyRacedLost

(* Under manual timing the clobber race and the manifest that was not      *)
(* fetched are the only ways to lose something (KnownLosses).              *)
THEOREM NoOtherLosses ==
    ASSUME Timing = "manual"
    PROVE  Spec => KnownLosses
  BY OnlyTheRaceRegresses, OnlyFailedFetchDelists, PTL DEF KnownLosses

-----------------------------------------------------------------------------
(* The safe part of UploadersEnd: the steps a request, an upload hook and  *)
(* a full sync have left, whatever the other uploaders do to their blobs.  *)
RequestLeft(r) ==
    CASE r.st = "sent" /\ ~r.retry    -> 5
      [] r.st = "conflict" /\ ~r.retry -> 4
      [] r.st = "sent" /\ r.retry     -> 3
      [] r.st = "conflict" /\ r.retry  -> 2
      [] r.st \in {"ok", "failed"}     -> 1
      [] OTHER                        -> 0

HookLeft(h) ==
    CASE hook[h].pc = "up"   -> 6 + RequestLeft(req[h])
      [] hook[h].pc = "save" -> 1 + RequestLeft(req[h])
      [] OTHER               -> 0

(* A hook that has begun only ever gets nearer to its end.                 *)
HooksAdvance ==
    [][\A h \in Hooks : hook[h].pc # "idle" =>
          (hook'[h] = hook[h] /\ req'[h] = req[h]) \/ HookLeft(h)' < HookLeft(h)]_vars

Stage == CASE full.pc = "refresh" -> 8
           [] full.pc = "load"    -> 7
           [] full.pc = "loaded"  -> 6
           [] full.pc = "plan"    -> 5
           [] full.pc = "up"      -> 4
           [] full.pc \in {"down", "write", "stamp"} -> 3
           [] full.pc = "save"    -> 2
           [] full.pc = "done"    -> 1
           [] OTHER               -> 0

SavesLeft == {s \in Saves : full.todo[s] # 0}

(* What is left of the one save in hand, or of the manifest's upload.      *)
StepsLeft ==
    CASE full.pc = "up" /\ full.cur = NoSave -> 6
      [] full.pc = "up" /\ full.cur # NoSave -> RequestLeft(req[FullSync])
      [] full.pc = "save"                    -> RequestLeft(req[FullSync])
      [] full.pc = "down"                    -> 2
      [] full.pc = "write"                   -> 1
      [] OTHER                               -> 0

(* A sync that has begun goes from stage to stage, within a stage from     *)
(* save to save, and within a save towards its answer, and never back.     *)
SyncAdvances ==
    [][full.pc # "idle" =>
          \/ full' = full /\ req'[FullSync] = req[FullSync]
          \/ Stage' < Stage
          \/ Stage' = Stage /\ SavesLeft' \subseteq SavesLeft /\ SavesLeft' # SavesLeft
          \/ Stage' = Stage /\ SavesLeft' = SavesLeft /\ StepsLeft' < StepsLeft]_vars

(* The save in hand is one of those left, and the full sync has a request  *)
(* out only where it waits for one.                                        *)
SyncInHand ==
    /\ full.cur # NoSave => full.todo[full.cur] # 0
    /\ req[FullSync].st # "none" => (full.pc = "up" /\ full.cur # NoSave) \/ full.pc = "save"

(* A step of a request brings it nearer to its answer.                     *)
LEMMA PutAdvances ==
    ASSUME TypeOK, NEW u \in Uploaders, PutStep(u)
    PROVE  /\ RequestLeft(req[u])' < RequestLeft(req[u]) /\ req[u].st # "none" /\ req'[u].st # "none"
           /\ \A v \in Uploaders : v # u => req'[v] = req[v]
           /\ UNCHANGED <<full, hook>>
  <1>1. req \in [Uploaders -> Requests] /\ req[u].retry \in BOOLEAN
    BY DEF TypeOK, Requests
  <1>2. CASE ServerPut(u) \/ LosePut(u)
    <2>1. /\ req[u].st = "sent" /\ req'[u].st \in {"ok", "conflict", "failed"} /\ req'[u].retry = req[u].retry
          /\ \A v \in Uploaders : v # u => req'[v] = req[v]
          /\ UNCHANGED <<full, hook>>
      BY <1>1, <1>2 DEF ServerPut, LosePut, Requests
    <2>2. CASE req[u].retry
      <3>1. RequestLeft(req[u]) = 3 /\ RequestLeft(req[u])' \in {1, 2}
        BY <2>1, <2>2 DEF RequestLeft
      <3> QED
        BY <2>1, <3>1
    <2>3. CASE ~req[u].retry
      <3>1. RequestLeft(req[u]) = 5 /\ RequestLeft(req[u])' \in {1, 4}
        BY <2>1, <2>3 DEF RequestLeft
      <3> QED
        BY <2>1, <3>1
    <2> QED
      BY <2>2, <2>3
  <1>3. CASE RetryPut(u)
    <2>1. /\ req[u].st = "conflict"
          /\ \/ req[u].retry /\ req'[u].st = "failed"
             \/ ~req[u].retry /\ req'[u].st = "sent" /\ req'[u].retry
          /\ \A v \in Uploaders : v # u => req'[v] = req[v]
          /\ UNCHANGED <<full, hook>>
      BY <1>1, <1>3 DEF RetryPut, Requests
    <2>2. \/ RequestLeft(req[u]) = 2 /\ RequestLeft(req[u])' = 1
          \/ RequestLeft(req[u]) = 4 /\ RequestLeft(req[u])' = 3
      BY <2>1 DEF RequestLeft
    <2> QED
      BY <2>1, <2>2
  <1> QED
    BY <1>2, <1>3 DEF PutStep

LEMMA RequestLeftType == ASSUME NEW r \in Requests PROVE RequestLeft(r) \in 0 .. 5
  BY DEF RequestLeft, Requests

(* Nobody else touches the requests of the full sync.                      *)
LEMMA OthersLeaveSync ==
    ASSUME TypeOK,
           \/ \E h \in Hooks : HookStep(h)
           \/ PullStep
           \/ \E s \in Saves : Launch(s) \/ HostSave(s) \/ HostExit(s) \/ PeriodicTick(s)
    PROVE  full' = full /\ req'[FullSync] = req[FullSync]
  <1>1. ASSUME NEW h \in Hooks, HookStep(h) PROVE full' = full /\ req'[FullSync] = req[FullSync]
    BY <1>1 DEF HookStep, HookUploaded, HookDone, Sent, TypeOK, Uploaders
  <1>2. CASE PullStep
    BY <1>2 DEF PullStep, PullDownload, PullWrite, PullStamp
  <1>3. ASSUME NEW s \in Saves, HookBegin(s) PROVE req'[FullSync] = req[FullSync]
    BY <1>3 DEF HookBegin, Sent, TypeOK, Uploaders
  <1>4. ASSUME NEW s \in Saves, Launch(s) \/ HostSave(s) \/ HostExit(s) \/ PeriodicTick(s)
        PROVE  full' = full /\ req'[FullSync] = req[FullSync]
    BY <1>3, <1>4 DEF Launch, HostSave, HostExit, PeriodicTick
  <1> QED
    BY <1>1, <1>2, <1>4

LEMMA HookAdvance ==
    ASSUME TypeOK, [Next]_vars, NEW h \in Hooks, hook[h].pc # "idle"
    PROVE  (hook'[h] = hook[h] /\ req'[h] = req[h]) \/ HookLeft(h)' < HookLeft(h)
  <1>t. /\ req \in [Uploaders -> Requests] /\ hook \in [Hooks -> HookStates] /\ h \in Uploaders /\ h # FullSync
        /\ hook[h].pc \in {"up", "save"} /\ RequestLeft(req[h]) \in 0 .. 5
    BY RequestLeftType DEF TypeOK, HookStates, Uploaders
  <1>1. CASE UNCHANGED vars
    BY <1>1 DEF vars
  <1>2. CASE FullSyncStart \/ FullStep
    <2>1. hook' = hook
      BY <1>2 DEF FullSyncStart, FullStep, RefreshShaCache, FetchManifest, LoadManifest, PlanUpload,
                  FullUpload, FullUploaded, PlanDownload, FullDownload, FullWrite, FullStamp, FullSaveManifest,
                  FullSaved, FullReturn
    <2>2. req'[h] = req[h]
      BY <1>2, <1>t DEF FullSyncStart, FullStep, RefreshShaCache, FetchManifest, LoadManifest, PlanUpload,
                  FullUpload, FullUploaded, PlanDownload, FullDownload, FullWrite, FullStamp, FullSaveManifest,
                  FullSaved, FullReturn, Sent
    <2> QED
      BY <2>1, <2>2
  <1>3. ASSUME NEW u \in Uploaders, PutStep(u)
        PROVE  (hook'[h] = hook[h] /\ req'[h] = req[h]) \/ HookLeft(h)' < HookLeft(h)
    <2>1. CASE u # h
      BY <1>3, <1>t, <2>1, PutAdvances
    <2>2. CASE u = h
      <3>1. hook' = hook /\ RequestLeft(req[h])' < RequestLeft(req[h])
        BY <1>3, <2>2, PutAdvances
      <3>2. req'[h] \in Requests
        BY <1>3, <1>t, PutTypeOK DEF TypeOK
      <3>3. RequestLeft(req[h])' \in 0 .. 5
        BY <3>2, RequestLeftType
      <3> QED
        BY <1>t, <3>1, <3>3 DEF HookLeft
    <2> QED
      BY <2>1, <2>2
  <1>4. ASSUME NEW k \in Hooks, HookStep(k)
        PROVE  (hook'[h] = hook[h] /\ req'[h] = req[h]) \/ HookLeft(h)' < HookLeft(h)
    <2>1. CASE k # h
      BY <1>4, <1>t, <2>1 DEF HookStep, HookUploaded, HookDone, Sent
    <2>2. CASE k = h /\ HookUploaded(h)
      <3>1. /\ hook[h].pc = "up" /\ req[h].st = "ok" /\ hook'[h].pc = "save"
            /\ req'[h].st = "sent" /\ ~req'[h].retry
        BY <1>t, <2>2 DEF HookUploaded, Sent, HookStates
      <3>2. HookLeft(h) = 7 /\ HookLeft(h)' = 6
        BY <3>1 DEF HookLeft, RequestLeft
      <3> QED
        BY <3>2
    <2>3. CASE k = h /\ HookDone(h)
      <3>1. hook'[h].pc = "idle"
        BY <1>t, <2>3 DEF HookDone, IdleHook
      <3> QED
        BY <1>t, <3>1 DEF HookLeft
    <2> QED
      BY <1>4, <2>1, <2>2, <2>3 DEF HookStep
  <1>5. CASE PullStep
    BY <1>5 DEF PullStep, PullDownload, PullWrite, PullStamp
  <1>6. ASSUME NEW s \in Saves, Launch(s) \/ HostSave(s) \/ HostExit(s) \/ PeriodicTick(s)
        PROVE  hook'[h] = hook[h] /\ req'[h] = req[h]
    <2>1. ASSUME HookBegin(s) PROVE hook'[h] = hook[h] /\ req'[h] = req[h]
      BY <1>t, <2>1 DEF HookBegin, Sent
    <2> QED
      BY <1>6, <2>1 DEF Launch, HostSave, HostExit, PeriodicTick
  <1>7. CASE Crash
    <2>1. hook'[h].pc = "idle"
      BY <1>7 DEF Crash, IdleHook
    <2> QED
      BY <1>t, <2>1 DEF HookLeft
  <1> QED
    BY <1>1, <1>2, <1>3, <1>4, <1>5, <1>6, <1>7 DEF Next

LEMMA SyncInHandStep == TypeOK /\ SyncInHand /\ [Next]_vars => SyncInHand'
  <1> SUFFICES ASSUME TypeOK, SyncInHand, [Next]_vars PROVE SyncInHand'
    OBVIOUS
  <1>t. /\ full \in FullStates /\ req \in [Uploaders -> Requests] /\ FullSync \in Uploaders
        /\ full.cur # NoSave => full.pc \in {"up", "write", "stamp"}
        /\ full.pc \in {"write", "stamp"} => full.cur # NoSave
        /\ full.cur # NoSave => full.cur \in Saves /\ full.todo[full.cur] # 0
    BY DEF TypeOK, Uploaders, FullStates, SyncInHand
  <1>k. full' = full /\ (req'[FullSync].st # "none" => req[FullSync].st # "none") => SyncInHand'
    BY DEF SyncInHand
  <1>1. CASE UNCHANGED vars
    BY <1>1, <1>k DEF vars
  <1>2. ASSUME NEW u \in Uploaders, PutStep(u) PROVE SyncInHand'
    BY <1>2, <1>k, <1>t, PutAdvances
  <1>3. CASE \/ \E h \in Hooks : HookStep(h)
             \/ PullStep
             \/ \E s \in Saves : Launch(s) \/ HostSave(s) \/ HostExit(s) \/ PeriodicTick(s)
    BY <1>3, <1>k, OthersLeaveSync
  <1>4. CASE Crash
    BY <1>4, <1>t DEF Crash, IdleFull, NoReq, SyncInHand
  <1>5. CASE FullSyncStart \/ FullReturn
    BY <1>5, <1>t DEF FullSyncStart, FullReturn, IdleFull, SyncInHand
  <1>6. CASE RefreshShaCache \/ FetchManifest \/ LoadManifest \/ PlanUpload \/ PlanDownload
    <2>1. full'.cur = NoSave /\ req' = req /\ req[FullSync].st = "none"
      <3>1. CASE RefreshShaCache
        BY <3>1, <1>t DEF RefreshShaCache, SyncInHand, FullStates
      <3>2. CASE FetchManifest
        BY <3>2, <1>t DEF FetchManifest, SyncInHand, FullStates
      <3>3. CASE LoadManifest
        BY <3>3, <1>t DEF LoadManifest, SyncInHand, FullStates
      <3>4. CASE PlanUpload
        BY <3>4, <1>t DEF PlanUpload, SyncInHand, FullStates
      <3>5. CASE PlanDownload
        BY <3>5, <1>t DEF PlanDownload, SyncInHand, FullStates
      <3> QED
        BY <1>6, <3>1, <3>2, <3>3, <3>4, <3>5
    <2> QED
      BY <2>1 DEF SyncInHand
  <1>7. ASSUME NEW s \in Saves, FullUpload(s) PROVE SyncInHand'
    <2>1. full'.cur = s /\ full'.pc = "up" /\ full'.todo = full.todo /\ full.todo[s] # 0
      BY <1>7, <1>t DEF FullUpload, FullStates
    <2> QED
      BY <2>1 DEF SyncInHand
  <1>8. CASE FullUploaded \/ FullSaved
    <2>1. full'.cur = NoSave /\ req'[FullSync].st = "none"
      <3>1. CASE FullUploaded
        BY <3>1, <1>t DEF FullUploaded, FullStates, NoReq
      <3>2. CASE FullSaved
        BY <3>2, <1>t DEF FullSaved, FullStates, NoReq
      <3> QED
        BY <1>8, <3>1, <3>2
    <2> QED
      BY <2>1 DEF SyncInHand
  <1>9. ASSUME NEW s \in Saves, FullDownload(s) PROVE SyncInHand'
    <2>1. /\ full.pc = "down" /\ full.todo[s] # 0 /\ req' = req /\ full.cur = NoSave
          /\ full'.cur = NoSave \/ (full'.cur = s /\ full'.todo = full.todo)
      BY <1>9, <1>t DEF FullDownload, FullStates
    <2> QED
      BY <2>1 DEF SyncInHand
  <1>10. CASE FullWrite
    <2>1. /\ full.pc = "write" /\ req' = req /\ full'.cur = full.cur /\ full'.todo = full.todo
          /\ full'.pc = "stamp"
      BY <1>10, <1>t DEF FullWrite, FullStates
    <2> QED
      BY <2>1 DEF SyncInHand
  <1>12. CASE FullStamp
    <2>1. full.pc = "stamp" /\ full'.cur = NoSave /\ req' = req
      BY <1>12, <1>t DEF FullStamp, FullStates
    <2> QED
      BY <2>1 DEF SyncInHand
  <1>11. CASE FullSaveManifest
    <2>1. full.pc = "down" /\ full'.pc = "save" /\ full'.cur = NoSave
      BY <1>11, <1>t DEF FullSaveManifest, FullStates
    <2> QED
      BY <2>1 DEF SyncInHand
  <1> QED
    BY <1>1, <1>2, <1>3, <1>4, <1>5, <1>6, <1>7, <1>8, <1>9, <1>10, <1>11, <1>12
       DEF Next, FullStep

LEMMA SyncAdvance ==
    ASSUME TypeOK, SyncInHand, [Next]_vars, full.pc # "idle"
    PROVE  \/ full' = full /\ req'[FullSync] = req[FullSync]
           \/ Stage' < Stage
           \/ Stage' = Stage /\ SavesLeft' \subseteq SavesLeft /\ SavesLeft' # SavesLeft
           \/ Stage' = Stage /\ SavesLeft' = SavesLeft /\ StepsLeft' < StepsLeft
  <1> DEFINE Advanced ==
          \/ full' = full /\ req'[FullSync] = req[FullSync]
          \/ Stage' < Stage
          \/ Stage' = Stage /\ SavesLeft' \subseteq SavesLeft /\ SavesLeft' # SavesLeft
          \/ Stage' = Stage /\ SavesLeft' = SavesLeft /\ StepsLeft' < StepsLeft
  <1>t. /\ full \in FullStates /\ full.pc \in FullPcs /\ full.todo \in Entries
        /\ req \in [Uploaders -> Requests] /\ FullSync \in Uploaders
        /\ full.cur # NoSave => full.pc \in {"up", "write", "stamp"}
        /\ full.pc \in {"write", "stamp"} => full.cur # NoSave
        /\ full.cur # NoSave => full.cur \in Saves /\ full.todo[full.cur] # 0
    BY DEF TypeOK, Uploaders, FullStates, SyncInHand
  <1>s. ASSUME NEW s \in Saves, full.todo[s] # 0, full'.todo = [full.todo EXCEPT ![s] = 0]
        PROVE  SavesLeft' \subseteq SavesLeft /\ SavesLeft' # SavesLeft
    <2>1. s \in SavesLeft /\ s \notin SavesLeft' /\ \A r \in Saves : r # s => full'.todo[r] = full.todo[r]
      BY <1>s, <1>t DEF SavesLeft, Entries
    <2> QED
      BY <2>1 DEF SavesLeft
  <1>1. CASE UNCHANGED vars
    BY <1>1 DEF vars
  <1>2. ASSUME NEW u \in Uploaders, PutStep(u) PROVE Advanced
    <2>1. CASE u # FullSync
      BY <1>2, <1>t, <2>1, PutAdvances
    <2>2. CASE u = FullSync
      <3>1. /\ RequestLeft(req[FullSync])' < RequestLeft(req[FullSync]) /\ full' = full
            /\ (full.pc = "up" /\ full.cur # NoSave) \/ full.pc = "save"
        BY <1>2, <2>2, PutAdvances DEF SyncInHand
      <3>2. Stage' = Stage /\ SavesLeft' = SavesLeft
        BY <3>1 DEF Stage, SavesLeft
      <3>3. StepsLeft = RequestLeft(req[FullSync]) /\ StepsLeft' = RequestLeft(req[FullSync])'
        BY <3>1 DEF StepsLeft
      <3> QED
        BY <3>1, <3>2, <3>3
    <2> QED
      BY <2>1, <2>2
  <1>3. CASE \/ \E h \in Hooks : HookStep(h)
             \/ PullStep
             \/ \E s \in Saves : Launch(s) \/ HostSave(s) \/ HostExit(s) \/ PeriodicTick(s)
    BY <1>3, OthersLeaveSync
  <1>4. CASE Crash \/ FullReturn
    <2>1. full'.pc = "idle"
      BY <1>4 DEF Crash, FullReturn, IdleFull
    <2>2. Stage' = 0 /\ Stage \in 1 .. 8
      BY <1>t, <2>1 DEF Stage, FullPcs
    <2> QED
      BY <2>2
  <1>5. ~FullSyncStart
    BY DEF FullSyncStart
  <1>6. CASE RefreshShaCache
    <2>1. full.pc = "refresh" /\ full'.pc = "load"
      BY <1>6, <1>t DEF RefreshShaCache, FullStates
    <2> QED
      BY <2>1 DEF Stage
  <1>7. CASE FetchManifest
    <2>1. full.pc = "load" /\ full'.pc = "loaded"
      BY <1>7, <1>t DEF FetchManifest, FullStates
    <2> QED
      BY <2>1 DEF Stage
  <1>8. CASE LoadManifest
    <2>1. full.pc = "loaded" /\ full'.pc = "plan"
      BY <1>8, <1>t DEF LoadManifest, FullStates
    <2> QED
      BY <2>1 DEF Stage
  <1>9. CASE PlanUpload
    <2>1. full.pc = "plan" /\ full'.pc = "up"
      BY <1>9, <1>t DEF PlanUpload, FullStates
    <2> QED
      BY <2>1 DEF Stage
  <1>10. ASSUME NEW s \in Saves, FullUpload(s) PROVE Advanced
    <2>1. /\ full.pc = "up" /\ full'.pc = "up" /\ full.cur = NoSave /\ full'.cur = s /\ s # NoSave
          /\ full'.todo = full.todo /\ req'[FullSync].st = "sent" /\ ~req'[FullSync].retry
      BY <1>10, <1>t DEF FullUpload, FullStates, Sent
    <2>2. StepsLeft = 6 /\ StepsLeft' = 5
      BY <2>1 DEF StepsLeft, RequestLeft
    <2>3. Stage' = Stage /\ SavesLeft' = SavesLeft
      BY <2>1 DEF Stage, SavesLeft
    <2> QED
      BY <2>2, <2>3
  <1>11. CASE FullUploaded
    <2>1. /\ full.pc = "up" /\ full'.pc = "up" /\ full.cur # NoSave
          /\ full'.todo = [full.todo EXCEPT ![full.cur] = 0]
      BY <1>11, <1>t DEF FullUploaded, FullStates
    <2>2. Stage' = Stage
      BY <2>1 DEF Stage
    <2> QED
      BY <1>s, <1>t, <2>1, <2>2
  <1>12. CASE PlanDownload
    <2>1. full.pc = "up" /\ full'.pc = "down"
      BY <1>12, <1>t DEF PlanDownload, FullStates
    <2> QED
      BY <2>1 DEF Stage
  <1>13. ASSUME NEW s \in Saves, FullDownload(s) PROVE Advanced
    <2>1. /\ full.pc = "down" /\ full.todo[s] # 0
          /\ \/ full'.pc = "write" /\ full'.todo = full.todo
             \/ full'.pc = "down" /\ full'.todo = [full.todo EXCEPT ![s] = 0]
      BY <1>13, <1>t DEF FullDownload, FullStates
    <2>2. Stage' = Stage
      BY <2>1 DEF Stage
    <2>3. CASE full'.pc = "write" /\ full'.todo = full.todo
      <3>1. SavesLeft' = SavesLeft /\ StepsLeft = 2 /\ StepsLeft' = 1
        BY <2>1, <2>3 DEF SavesLeft, StepsLeft
      <3> QED
        BY <2>2, <3>1
    <2>4. CASE full'.todo = [full.todo EXCEPT ![s] = 0]
      BY <1>s, <2>1, <2>2, <2>4
    <2> QED
      BY <2>1, <2>3, <2>4
  <1>17. CASE FullWrite
    <2>1. full.pc = "write" /\ full'.pc = "stamp" /\ full'.todo = full.todo
      BY <1>17, <1>t DEF FullWrite, FullStates
    <2>2. Stage' = Stage /\ SavesLeft' = SavesLeft /\ StepsLeft = 1 /\ StepsLeft' = 0
      BY <2>1 DEF Stage, SavesLeft, StepsLeft
    <2> QED
      BY <2>2
  <1>14. CASE FullStamp
    <2>1. /\ full.pc = "stamp" /\ full'.pc = "down" /\ full'.todo = [full.todo EXCEPT ![full.cur] = 0]
      BY <1>14, <1>t DEF FullStamp, FullStates
    <2>2. Stage' = Stage
      BY <2>1 DEF Stage
    <2> QED
      BY <1>s, <1>t, <2>1, <2>2
  <1>15. CASE FullSaveManifest
    <2>1. full.pc = "down" /\ full'.pc = "save"
      BY <1>15, <1>t DEF FullSaveManifest, FullStates
    <2> QED
      BY <2>1 DEF Stage
  <1>16. CASE FullSaved
    <2>1. full.pc = "save" /\ full'.pc = "done"
      BY <1>16, <1>t DEF FullSaved, FullStates
    <2> QED
      BY <2>1 DEF Stage
  <1> QED
    BY <1>1, <1>2, <1>3, <1>4, <1>5, <1>6, <1>7, <1>8, <1>9, <1>10, <1>11, <1>12, <1>13, <1>14, <1>15,
       <1>16, <1>17 DEF Next, FullStep

(* For any timing and any number of uploaders, refusing each other's sha   *)
(* costs a request one retry at most: a hook that has begun ends after at  *)
(* most a dozen of its own steps, and a full sync never returns to a save  *)
(* or a stage it has left.                                                 *)
THEOREM UploadersAdvance == Spec => HooksAdvance /\ SyncAdvances
  <1>1. Init => SyncInHand
    BY DEF Init, SyncInHand, IdleFull, NoReq, Uploaders
  <1>2. TypeOK /\ [Next]_vars
          => [\A h \in Hooks : hook[h].pc # "idle" =>
                (hook'[h] = hook[h] /\ req'[h] = req[h]) \/ HookLeft(h)' < HookLeft(h)]_vars
    BY HookAdvance
  <1>3. TypeOK /\ SyncInHand /\ [Next]_vars
          => [full.pc # "idle" =>
                \/ full' = full /\ req'[FullSync] = req[FullSync]
                \/ Stage' < Stage
                \/ Stage' = Stage /\ SavesLeft' \subseteq SavesLeft /\ SavesLeft' # SavesLeft
                \/ Stage' = Stage /\ SavesLeft' = SavesLeft /\ StepsLeft' < StepsLeft]_vars
    BY SyncAdvance
  <1> QED
    BY <1>1, <1>2, <1>3, SyncInHandStep, TypeCorrect, PTL DEF Spec, HooksAdvance, SyncAdvances

==============================================================================
