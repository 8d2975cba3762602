# Emutastic for Linux: a TLA+ verification project

Emutastic is a desktop front end for libretro cores: a C#/Avalonia library and
settings application that launches every game in a process of its own (the *game
host*), synchronises battery saves and the library with a private GitHub
repository, records gameplay, talks to RetroAchievements, and updates itself and
its cores. This directory specifies the parts of it that are hard to test: the
protocols between the application, the game hosts, the files they share, the GPU,
GitHub and the RetroAchievements server.

Everything is translated from `src/src/Emutastic/` and, for the frame hand-off and the
achievement client, from `src/native/` (`wlpresent/wl_hwvk.c`, `rcheevos-src/src/rc_client.c`,
`rcheevos-src/src/rcheevos/trigger.c`). `PROJECT.json` names, for every definition, the
lines it stands for.

## 1. Inventory

| component | state | operations | talks to |
|---|---|---|---|
| Cloud save sync (`Services/GitHubSyncService.cs`) | `_shaCache`, `_manifestCache`, the repository, the `.srm` and card files | full sync, upload hooks (close, timer), pre-launch pull, PUT with conflict retry | game hosts (files), launcher (hooks), GitHub |
| its credentials | `config.Cloud`, `_token`, `_passphrase`, a keyring queue | sign in, sign out, restore, set passphrase | keyring daemon, config store |
| its library snapshot | `library.db`, a side-car hash, the manifest's hash | three-way decision, upload, download over the live file | database service |
| Game-host launcher and supervisor (`Services/GameHostLauncher.cs`) | `_liveHosts`, `_activeCount`, `ExternalGameActive`, results file | launch, command, supervise, exit hooks | game host (pipes, files), sync, recording sweep, main window |
| Emulator session (`Emulator/EmulatorSession.cs`) | pending save/load/swap flags, tick counters, SRAM, frame buffers | request/execute save and load, disc swap, cheats, frame hand-off, SRAM autosave | core, UI threads, present thread, RetroAchievements |
| Frame hand-off of Vulkan cores (`native/wlpresent/wl_hwvk.c`, `EmulatorSession`) | slots with their fences and semaphores, `shown`, sync indices, GL textures | frame, read-back, present, retire, close, destroy | emulation and presentation thread, Vulkan and GL queue, compositor |
| RetroAchievements (`native/rcheevos-src/src/rc_client.c`, `Services/RetroAchievementsClient.cs`, `EmulatorSession`) | unlock state, scheduled callbacks, disconnect state, triggers, pending events, hardcore | frame, idle, reset, load state, change media, answers, events | server (through HttpClient), emulation and pool threads, overlay |
| Recording (`Services/RecordingService.cs`) | raw video/audio, side-car, markers, frame pool and queues | start, queue, stop, encode, recovery sweep | session, ffmpeg, launcher |
| Configuration (`Configuration/JsonConfigurationService.cs`) | in-memory config, `config.json`, debounce token, load-failed flag | load, debounced save, save | everyone |
| Save layout migration (`Services/SaveLayoutMigrator.cs`) | `Saves/`, a marker | move trees once at start | file system |
| Core download and self-update | live core, `.bak`, temp zip, update marker | download, revert, check | GitHub, buildbot |
| ROM patcher, import, M3U bundler | none (pure) | apply IPS/BPS/UPS, group discs | import pipeline |
| Controllers (`Platform/SdlDeviceSet.cs`) | open pads, occurrence numbers | reconcile after hot-plug | session, bindings |
| Friends | polled profiles | poll and diff | UI |
| Library database, views, themes, artwork, scraping | SQLite rows, controls, image caches | CRUD, rendering, HTTP look-ups | UI |
| Other vendored code (libchdr, dr_libs, rcheevos' rapi and rhash, Wayland protocol tables) | none of its own | decode, hash, parse | - |

### What is hard, and what makes each part correct

* **Cloud save sync.** Three kinds of task share two caches and the files of a
  process that keeps writing them. There is no lock between the full sync and the
  hooks; decisions are taken from file times before an `await` and acted on after
  it; a PUT may be applied and its answer lost; the app may die between a blob and
  its manifest entry. *Correct* means: nothing is listed that is not stored; nothing
  newer is taken for backed up; a reported success is one; an older copy never
  replaces a newer one, on either side; what is listed stays listed; every sync ends.
* **Library snapshot.** The library is written all the time and has no useful file
  time, so three hashes of three ages decide, and the copy that is hashed is never
  byte for byte the file it was taken of. *Correct*: no edit is hidden from the backup,
  the backup does not shrink, the sides come to rest.
* **Frame hand-off.** Two CPU threads exchange slots under a lock, two GPU queues read
  and write the images some time later, and the window's swap returns when the
  compositor pleases. *Correct*: nothing is drawn that is being written, the picture
  never goes back, every semaphore is signalled and waited for in turn, and the game
  does not wait for the window.
* **RetroAchievements.** The client is entered by the emulation thread, a worker and
  any number of pool threads; its lock covers single steps, and events are raised
  outside it. *Correct*: an unlock is neither lost nor sent twice nor upgraded to
  hardcore, the player is told of an outage and of its end, the indicators agree with
  the triggers, hits do not outlive a reset, and no state is loaded in hardcore.
* **Recording.** Footage exists only as a raw file until ffmpeg has finished, and two
  processes may believe they own it. *Correct*: a recording is never lost and never
  encoded by two encoders at once.
* **Save layout migration.** A sequence of renames and deletions that may stop
  anywhere and is then repeated. *Correct*: no save is deleted, and each is where it was
  or where the core looks for it.
* **Credentials.** The keyring queue runs later than the configuration changes it
  accompanies. *Correct*: after the last of several sign-ins and sign-outs both agree.
* **Launcher.** Table, counter and flag are updated in separate steps from several
  threads. *Correct*: each live host is reachable, the timer runs while a game does.
  (`ExternalGameActive` is written and never read, although `GameHostLauncher.cs:18`
  says the controller manager stops pumping on it.)
* **Session.** One-slot mailboxes between UI threads and the emulation loop.
  *Correct*: every accepted request is executed with the data it named, the tray ends
  closed with the chosen disc.
* **Configuration.** Debounced saves cancel one another. *Correct*: the last change
  reaches the disk, a file that failed to load is never replaced.
* **Core download.** *Correct*: after any restart the live core is whole.
* **Controllers.** *Correct*: ids are distinct and a pad keeps its object.

`PROJECT.json` lists the hazards one by one at their lines; section 6 adds some that have
no model yet.

## 2. Plan

| order | module | what it models | what it rests on |
|---|---|---|---|
| 1 | `CloudSync`, `CloudSyncProofs` (done) | one PC, its repository, full sync, hooks, pull, hosts, deaths | GitHub's contents API, as the code uses it |
| 2 | `RecordingTap`, `RecordingFiles` and their proofs (done) | the capture's threads, implementing `FrameLog`; raw files, encoders of several processes, the sweep | launcher's exit hook |
| 3 | `VulkanFrames`, `VulkanFramesProofs` (done) | slots, semaphores and queues between core and window; implements `LatestFrame` | Vulkan's and GL's ordering rules |
| 4 | `RaUnlocks`, `RaUnlocksProofs` (done) | submissions, retries, schedule, alarm; implements `Outbox` | the server, any answer at any time |
| 5 | `RaRuntime`, `RaRuntimeProofs` (done) | triggers, indicators and modes under resets, loads, swaps, frames | 4's loop |
| 6 | `SaveMigration`, `SaveMigrationProofs` (done) | file moves across deaths | rename and recursive delete |
| 7 | `LibraryDbSync`, `LibraryDbSyncProofs` (done) | the library's backup | 1's PUT, SQLite's VACUUM INTO |
| 8 | `SessionStates` | save and load mailboxes with their progress blobs | 5 |
| 9 | `HostSupervision` | live-host table, count, timer | composes with 1 and 2 through the exit hook |
| 10 | `SyncVariants`, `CloudCredentials` | encryption toggle; keyring queue | 1's PUT |
| 11 | `CoreUpdate`, `ConfigStore`, `DeviceSet`, `RomPatcher` | core swap, debounce, hot-plug, pure patch formats | - |

Rows 8 to 11 are what a continuation would take up, in that order: it follows how much
goes wrong and how hard it is to test. Abstract specifications stated so far:
`LatestFrame` (the window shows the newest frame and never goes back), `Outbox`
(what is handed in waits until it is settled, once) and `FrameLog` (a frame is kept or
dropped at once, logged in order, and the video is made of the log). Worth stating next: a *mailbox* that
`SessionStates` should implement and, under a load retry, would not.

The composition of parts that share state is inside a module rather than between
modules: `CloudSync` has sync, hooks, launcher order and hosts in one state, `RecordingFiles`
hosts, library, sweep and orphaned ffmpegs, `VulkanFrames` both threads and both GPU
queues. The parts that are separate modules share no variable that either changes:
`RaRuntime` takes the mode and the unlocks as inputs that change at any time, and
`LibraryDbSync` takes from `CloudSync` only that a PUT may fail at any time and that hooks may
save the shared manifest (`HookSavesManifest`).

## 3. The modules

### CloudSync

| state | code |
|---|---|
| `local`, `clock` | the `.srm` and card files: `ver` names the content by the instant it was written, `mtime` is the file's time the code compares |
| `running` | games whose host process is alive (`_liveHosts`) |
| `overtaken` | history: saves whose bytes an autosave wrote and whose time a download then set |
| `cloud` | the repository's blobs, `manifest.json` among them |
| `sha`, `man` | `_shaCache` and `_manifestCache.Files` |
| `full`, `hook`, `pull` | where `RunFullSyncAsync`, each fire-and-forget upload, and the pull before a launch have got to, with the locals that live across an `await`; in `full`, the history fields `planned` (contents on disk) and `doubt` (`overtaken`) when the sync planned |
| `req` | the one PUT each uploader has in flight (`UploadFileAsync`) |

One action per stretch of code between two awaits, and one per file operation where another
process can come between. `RefreshShaCache`,
`FetchManifest`/`LoadManifest`, `PlanUpload`, `FullUpload`/`FullUploaded`,
`PlanDownload`, `FullDownload`/`FullWrite`/`FullStamp`, `FullSaveManifest`/`FullSaved` follow
`RunFullSyncAsync` from top to bottom. `FullWrite` is `File.WriteAllBytes`, which leaves the
file with the time of the write (a tick of `clock`); `FullStamp` is the `SetLastWriteTimeUtc` after it,
which stamps the file whoever wrote its bytes last. A host's autosave or a death may come between. `HookUploaded`/`HookDone` are the close and
timer uploads; their part before the PUT (`HookBegin`) runs inside `HostExit` and
`PeriodicTick`. `Launch`, `PullDownload`, `PullWrite`, `PullStamp` are the pull, which ends in the
spawn. `ServerPut` is GitHub: a PUT applies only with the stored blob's sha.
`RetryPut` is the one retry after 409/422. `LosePut` covers a request or an answer
lost. `Crash` is the death of the app at any step, a reinstall if the files go too.

Abstractions: a sha is a function of the content, so the content stands for it. An
absent manifest reads as an empty one, as in `LoadManifestAsync`. The file scan that
plans a sync is one step. `WriteAllBytes` itself is one step and the stamp does not fail: a torn
file and a failing `SetLastWriteTimeUtc` are not modelled. The sha cache is refreshed in one
step. No full sync begins and no autosave happens after `MaxClock`: a bound. One launch is pending at a time. A hook uploads
one file (`UploadConsoleExtraSavesAsync` visits its cards one by one, each like a
hook of its own, but saves the manifest once after the last). With as many hooks in
flight as `Hooks`, a further one waits: a bound. A periodic tick may come for
any running game at any time, which includes every instant at which the timer can
really fire. The 15 s limit of the pull and the 5 s wait for the game's lock are covered
by letting any download fail and hooks of one game overlap; so some
behaviours of the model need an expired wait. The start-up `LoadManifest` is the first
part of a full sync.

### RecordingTap, implementing FrameLog

| state | code |
|---|---|
| `pool`, `queue`, `content` | `_framePool`, `_videoQueue`, the byte arrays |
| `frames`, `dropped` | frames offered while recording, `_framesDropped` |
| `emu` | the emulation thread inside `QueueVideoFrame` |
| `writer`, `raw` | `VideoWriterLoop` and the raw file |
| `stop` | `Stop` on the presentation thread, then the encode task up to `Cleanup` |

`QueueVideoFrame` tests `IsRecording`; `TakeBuffer`/`DropFrame`, then `AddFrame` or
`AddThrows` follow. `WriterTake`, `WriterWrite`, `WriterReturn`, `WriterEnd` are the
writer's loop; a write may fail (full disk, stream closed). `StopRecording`,
`CompleteAdding`, `JoinWriter` or `JoinTimesOut`, `Cleanup` are the stop. The audio
queue has the same shape without a pool and is not modelled; buffering inside the
file stream is ignored.

`FrameLog` knows neither buffers nor threads: the frame in the recorder's hand, the set
of those kept and not yet logged, the log, and whether it is open, closing, closed or made
into a whole or a partial video. The mapping takes for kept what lies in the queue and in the
writer's hand until it is in the file (`OnTheWay`), and for the phase where `Stop` is
(`Phase`): a video is `whole` unless the writer failed or `Stop` gave up waiting for it.

### RecordingFiles

| state | code |
|---|---|
| `host`, `current` | each game host process and its session's `_recording` |
| `owner`, `phase`, `taken` | who records to `r`, how far its recorder is, frames written |
| `raw`, `meta`, `tmp`, `out` | `<r>.video.raw`, `<r>.meta.json`, `<r>.enc.mp4`, `<r>` |
| `job`, `orphans` | where each `EncodeAndMuxCore` is; ffmpegs whose parent died |
| `sweep`, `hooks`, `appUp` | `RecoverInterrupted`, sweeps asked for, the library |
| `failed`, `shared` | ghosts: ffmpeg or the side-car write failed for `r`; the sweep took `r` from a live host or a running ffmpeg |

`StartFiles`, `StartSidecar`, `Capture`, `StopRecording`, `HostCloses`, `HostExits` are
a recording and the host's end, which waits for the encode of the last recorder.
`EncodeStart` to `DeleteTmp` are `EncodeAndMuxCore`, the same for a host and for the
sweep: the `finally` block deletes raw file, side-car and temporary one after the
other. `RunHook`, `SweepSkips`, `SweepClears`, `SweepRecovers`, `SweepEnds` are the sweep,
which skips a recording with a temporary file written within the last minute (`fresh`).
`HostDies`, `AppDies`, `AppStarts` are deaths and restarts; `OrphanEnds` an ffmpeg that
outlives its parent.

Abstractions: audio decides only between mux and rename and is left open. A side-car
is there or not (a torn one, which the sweep cannot parse, is not modelled). The
sweep's clearing of an empty recording is one step. A temporary file ages only while no
ffmpeg writes it. ffmpeg is installed. What two ffmpegs make of one temporary file is not
modelled; the properties say "unless shared". One library application; hosts started
from a shell without it, and the VAAPI marker, are left out.

### VulkanFrames, implementing LatestFrame

| state | code (`wl_hwvk.c` unless named) |
|---|---|
| `slot` | `wlvk_slot`: state, `seq`, size of its image, `gen`, `donePending`, and whether its fence is still awaited |
| `seq`, `shown` | `wlvk.seq`, `wlvk.shown` |
| `syncIndex`, `syncPending` | the core's sync index and the fences of its two indices |
| `vkQueue`, `glQueue`, `flushed` | submitted Vulkan work and issued GL commands not yet executed, and how many of the latter the driver has submitted |
| `ready`, `done` | payloads of the two binary semaphores of a slot |
| `glGen` | generation at which GL imported the slot; 0 stands for the code's -1 |
| `emu`, `win` | where the emulation thread (`wlvk_frame`, the read-back in `EmulatorSession`) and the presentation thread (`wlvk_present`) are, with their locals |
| `gpuPresent`, `glOk`, `closed`, `running`, `alive` | `_vkGpuPresent`, whether GL can import, the window's and session's ends, whether the Vulkan side exists |

`FramePick`/`FrameDrop`, `FrameSubmit`/`FrameNoImage`, `FramePublish`, then `ReadBack`,
`ReadBackDone`, `NoReadBack` are one video callback; `EmuStop`, `EmuDestroy` its end.
`PresentPick`, `PresentStale`, `PresentDraw` (or `PresentClosed`), `SwapReturns`,
`PresentRetire` are one present; `Close` and `WindowEnd` the window's end. `VkExecute` and
`GlExecute` are the two queues, each in order and at its own time: a copy that waits for
`done` and a GL wait for `ready` block their queue. `SwapReturns` belongs to the compositor
and may never come.

Abstractions: image layouts and the queue-family hand-over are part of the semaphore
protocol; missing import extensions and the interop switch are `glOk = FALSE`. GL's
throttling keeps at most `MaxBehind` commands unexecuted when a swap returns. The end's
join is taken to succeed (see the observations below). The read-back keeps only its
fence. `LatestFrame` has two numbers: the newest frame made and the one shown; the
mapping is `made <- seq` and `seen <- ` the number of the shown slot.

### RaUnlocks, implementing Outbox

| state | code (`rc_client.c`) |
|---|---|
| `unlocked`, `hardcore` | `public_.unlocked`, `state.hardcore` |
| `retries`, `hard` | `retry_count` and mode of a submission's callback data |
| `net`, `hand`, `queue`, `settled` | who holds that callback data: the request, a pool thread about to schedule it, `scheduled_callbacks`, nobody (freed) |
| `owed`, `disconnect`, `told` | pool threads about to recompute `state.disconnect`, that state, the last event the player was told |
| `emu`, `clock`, `life` | `rc_client_do_frame` and `rc_client_idle` on the emulation thread, the clock in seconds, `Dispose` |

`Award`, `SendUnlock`, `SendEntry` happen in a frame, `IdleStart`, `IdlePop`, `IdleEnd` in the
idle loop that follows, `CheckDisconnect`, `RaiseDisconnect` after it. `Settle`, `RetryNow`,
`RetryLater` are an answer; `Schedule` and `UpdateDisconnect` the two further locked steps of
a failed one. `DropHardcore` is the unknown disc, `Elapse` the clock, `Quit`/`Destroy` the end.

Abstractions: mastery and completion, the score, the leaderboard's scoreboard and
server-error events change nothing of this and are left out, as are failures to build a
request and achievements of other categories, which are never sent. Every request is
answered: HttpClient has a timeout, and an exception is passed on as status 0, which is
retried (`RetroAchievementsClient.cs`). `Outage` bounds clock and retries. The model stops at
`Destroy`. Encore mode and turning hardcore on during a game cannot be reached in
this app. `Outbox` forgets where a submission is: `waiting` is the union of the three holders.

### RaRuntime

| state | code |
|---|---|
| `phase`, `game`, `session` | `InitRetroAchievements`' progress, `client->game`, `_raHardcoreActive` |
| `hardcore`, `disc` | `state.hardcore`, the hash of the disc in the tray |
| `status`, `trig`, `pend` | per achievement: active or not, `trigger->state`, `pending_events` |
| `action`, `timer` | `progress_tracker.action` and its hide callback |
| `shown`, `pill` | what the overlay shows: `_raChallenges`, the progress pill |
| `emu`, `media` | a turn of the emulation loop; the pool thread of a disc look-up |
| `counted`, `behind`, `raced` | history: frames were processed; the core was reset and the hits were not; two threads raised events at once |

A turn of `RunLoop` is `ResetCore`/`ResetRuntime` (or `NoReset`), `Paused` or `SwapDisc`/`NoSwap`,
`LoadState`/`RestoreProgress` (or the refusals), `Frame`, `Raise` whenever events are pending,
`Idle`. `SetClient`, `GameLoaded`, `LoadFails`, `Ready` attach the runtime; `KnownDisc`,
`DropHardcore`, `MediaRaise`, `MediaTell` are the answer to a disc's look-up. A trigger moves
in a frame as `TrigStep` says (`trigger.c`). A loaded progress blob may hold any state of an
active trigger.

Abstractions: leaderboards and trackers are left out (the app shows nothing of them);
SHOW and UPDATE of the pill are one; the game's and subset's pending flags are part of
`action` and `pend`; the timer counts seconds. One look-up is under way at a time, and its
synchronous answers are covered by the asynchronous ones. The gate at the request of a
load (`EmulatorSession.cs:3203`) is subsumed by the one at its execution. The set's reload by
`SetMemoryDescriptors`, `Dispose`, rich presence and the legacy runtime list are not
modelled. `raced` exempts executions in which two threads are in the raising of events
at once, a data race of the code on which nothing can be promised.

### SaveMigration

| state | code (`SaveLayoutMigrator.cs`) |
|---|---|
| `marker` | `Saves/.per-console-layout` |
| `app`, `todo`, `known`, `current` | `RunOnce` and `MoveInto`: where it is, the snapshot of the folder, what the stem map attributes, the entry in the hop |
| `flat`, `own`, `hop` | for which entries `Saves/<e>`, `Saves/<console>/<e>`, `Saves/.mig_<e>` exist |
| `depth`, `hopped`, `deleted` | where each save is, old ones and ones written since |
| `mishaps`, `cut` | the bound; history: a run was cut while a tree was in the hop |

`Start` takes the snapshot; `LeaveAlone` and `MoveInto` decide an entry without a hop,
`ClearHop`, `HopOut`, `MakeConsoleDir`, `NestIn` are the hop's four file operations, `WriteMarker`
the end. `MoveFails`, `MarkerFails`, `Dies` are the mishaps; `Play` is a session between two
starts, which writes where the core looks. Abstractions: loose files of a console whose
tree is self-nested are left out; names are compared without case; one instance of the app,
and no host that survives into a migration; the stem map knows any subset of the battery
files; a recursive delete and a rename are atomic. The branch that moves the
tree back when its destination exists cannot be reached after a hop, because the
console's folder was created empty an instant before.

### LibraryDbSync

| state | code (`GitHubSyncService.cs`) |
|---|---|
| `db`, `sidecar` | `library.db`, `cloudsync_dbstate_<repository>.txt` |
| `blob`, `listed`, `man` | the backup, the hash in the stored manifest, the one in `_manifestCache` |
| `pc`, `my`, `got`, `errors` | the library's part of `RunFullSyncAsync` with its locals |
| `made`, `mishaps`, `reinstalls`, `whole`, `calm` | bounds; history: syncs that nothing disturbed |

A content is a set of edits and SQLite's schema cookie, because the side-car holds the
hash of a VACUUM INTO copy and VACUUM INTO raises the cookie of the copy by one: a
downloaded copy therefore never hashes to what was downloaded (seen with SQLite 3.40 at
header byte 44, and constant apart from it). `LoadManifest`, `Decide`, `Put`, `Uploaded`, `Get`, `WriteDb`, `Adopt`,
`SaveManifest` follow the code; each has its failure (`SnapshotFails`, `PutFails`, `UploadedNotNoted`,
`GetFails`, `AdoptFails`, ...). `Edit` is the library or a host writing at any time, `HookSavesManifest`
an upload hook storing the shared manifest in between, `Crash` and `Reinstall` as in
`CloudSync`. Abstractions: manifest entries without a hash, the encryption suffix, a
second PC with the same hostname and a torn `WriteAllBytes` are not modelled. The condition at
line 1353 contains its own negation, so its branch is dead and a side-car that could not
be written leaves "locally changed" until the next upload.

## 4. The runs

| run | question | result |
|---|---|---|
| `manual` | with manual timing, is a newer save ever taken for backed up, is a "0 failed" true, which saves can a download go back on, when does an entry vanish? | holds, but for a save that got a download's time; only those of `clobber`; only after a manifest that was not fetched |
| `periodic` | during-play uploads against a full sync on one blob: is everything listed stored, does everything started end? | holds |
| `clobber` | can a sync overwrite a newer local save? | yes, finding |
| `capture` | are frames stored once, in order, all accounted for, no buffer leaked; do the three threads implement the log of `FrameLog`? | holds |
| `recover` | is footage recoverable wherever a host, the library or ffmpeg dies? | holds |
| `present` | is no frame torn or stale, no semaphore misused, does no GPU work wait for a swap, and is the game never held up by the window? | holds |
| `retry` | is no unlock lost, doubled or inflated, and is the alarm honest? | holds |
| `indicators` | do icons and pill follow the triggers, do resets and the hardcore gate hold? | holds |
| `migrate` | is no save out of reach but in the hop, and does an undisturbed run move all? | holds |
| `cut` | can the migration delete a save? | yes, finding |
| `library` | is no edit hidden from the backup, and do the sides come to rest? | holds |
| `reinstalled` | can a reinstalled PC take edits out of its backup? | yes, finding |

Some properties are conjunctions of two questions about one piece of state, and a run
checks the conjunction: `BuffersSafe` and `FramesKept` (`RecordingTap`), `ManualHonest`,
`KnownLosses` and `UploadersEnd` (`CloudSync`), `FootageSafe` and `WorkersEnd` (`RecordingFiles`), `NoTornFrame`
(`VulkanFrames`), `IndicatorsRight` (`RaRuntime`), `OutageEnds` and `ScheduleSound` (`RaUnlocks`),
`SavesSafe` (`SaveMigration`), `BackupHonest` (`LibraryDbSync`). Their parts keep names and
comments of their own.

**Bounds.** `manual` (867,188 states): one save and one card (the two kinds of file) with three instants
of writing, so that a save can change while an older and a newer version are on their
way, and between the two calls that write and stamp a download; two lost requests (a PUT and its
retry, or a manifest and a blob), one death. With a fourth instant (3,312,800 states, run by hand)
the properties hold as well.
`periodic` (163,655 states): one save and one hook against the full sync give every race of two
uploaders on one blob and on the manifest; liveness is what makes this instance
small. `capture` (234,490): three buffers and six frames, so that the pool empties, the queue fills,
every buffer is used twice, and Stop comes in every state of the three. `recover` (266,188):
one recording and two hosts, so that the exit of the second starts a sweep over the
first's files; one frame is enough because the properties only ask whether the
output has all of them (the mutant for `SavedIsComplete` shows that a partial
output is reached); one failure and one death reach every combination of a dead host
or library with an orphaned ffmpeg and a restart; several recordings are covered by the
proofs. `present` (359,576): three slots (the code has four; with one shown, one retired
and one in hand, three is the least with which a frame can be dropped for want of a
slot and one can go stale), two sizes so that images are made anew, four frames so that every slot is used
again, `MaxBehind` 1 so that a swap returns before its GL commands are done. `retry` (272,860): one
unlock and one entry, which is what it takes for two entries of the schedule to be put in the
wrong order; three seconds of outage reach the immediate retry and the delays 1 and 2.
`indicators` (62,330): two achievements, so that one icon changes while another stays. `migrate`
(14,938): a battery file, an ordinary tree and one named like its console; two mishaps, a
death in the hop and a second one in the run that repeats it. `library` (30,277): three edits (before, during and after a
sync), two mishaps, one reinstall.

CHECK_DEADLOCK is off where a recording and its threads, or all hosts, really end.

**Fairness.** Only what the runtime guarantees. `periodic`: a sync or a hook that has started
runs on the thread pool, and every HTTP call ends (`Http.Timeout`). `capture`: the writer and
`Stop`'s thread run. `recover`: every ffmpeg ends or is killed (`RunFfmpeg`'s timeouts) and the
sweep's loop goes on. `present`: the two threads go on with what they began and both GPU
queues execute; the compositor need never let a swap return, the core need not make frames,
nobody has to close or quit. `retry`: the emulation loop turns, time passes, every request
is answered, a pool thread that has answered goes on, and `Dispose` comes after a quit;
`DropHardcore` and quitting are free. `indicators`: the loop turns and time passes, the
look-up's thread goes on; strong fairness for `Run`, because the loop skips a frame only while
the audio ring is full, which drains. Nobody has to start a sync, play, record, stop,
quit or restart, and `Stop` must end without its own timeout.

**What the failing runs show** (quotations are in `PROJECT.json`). `clobber`: the full sync's
download acts on a comparison made before an await; `OnlyRacedLost`, a part of
`KnownLosses` in `manual`, shows that this is the only way a download goes back on a save. `cut`: the
migration that died in its hop begins the next time by deleting the hop folder, then the only copy of
the tree. `reinstalled`:
a reinstalled PC has created an empty library before its first sync and has no side-car, so
the empty library counts as edited and is uploaded over the backup.

**Further counterexamples.** The directory also has configurations that are run by hand,
`tlc -config <file>.cfg <module>`; each ends in a violation, and each is a difference between the
code and a comment of its own:

| configuration | property | what the counterexample shows | says otherwise |
|---|---|---|---|
| `CloudSync_delisted.cfg` | `ListedStaysListed` | one failed download of the manifest is taken for an empty one, which is then stored: what only the cloud has is never restored again (the only way to lose an entry: `KnownLosses`) | `src/packaging/README.txt:142` |
| `CloudSync_played.cfg` | `PlayedMeansBackedUp` | the hook records the file's time after the PUT for the bytes read before it; the save at game close is skipped | `GitHubSyncService.cs:1583` |
| `CloudSync_overtaken.cfg` | `SyncedBacksUpAll` | an autosave between `WriteAllBytes` and `SetLastWriteTimeUtc` gets the time of the download; the next sync takes the newer save for backed up and ends with no error (until the game saves again; with `NothingHidden` and `SyncedMeansBackedUp`, the only way) | `src/packaging/README.txt:142` |
| `CloudSync_stamped.cfg` | `ManifestNotAhead` | a death between the two calls leaves older bytes with the time of the write; the next sync uploads them again and lists that time. With manual timing no save is lost by it (`NothingHidden`) | `GitHubSyncService.cs:1264` |
| `RecordingTap_throws.cfg` | `EmulationGoesOn` | `CompleteAdding` comes between the check of `IsRecording` and `TryAdd`, which throws inside the core's video callback | `RecordingService.cs:163` |
| `RecordingFiles_live.cfg` | `SweepTakesOnlyCrashed` | the sweep encodes a recording that a live host is capturing and deletes the raw file under it | `GameHostLauncher.cs:322` |
| `RaUnlocks_reconnected.cfg` | `OutageTold` | a retry is scheduled between the check for a pending alarm and the raising of it: the recovery of the other submission is told, the state falls back to hidden, and the player has RECONNECTED while an unlock waits, until that fails again | `rc_client.h:826` |
| `SaveMigration_again.cfg` | `InPlaceStays` | repeated without its marker, the migration moves a console's folder into itself | `SaveLayoutMigrator.cs:99` |
| `LibraryDbSync_adopted.cfg` | `QuietAfterSync` | an adopted copy has another schema cookie in the next snapshot, looks edited and is uploaded again (once: `NoPingPong` holds) | `GitHubSyncService.cs:1409` |
| `LibraryDbSync_edited.cfg` | `EditsKept` | an edit made during the download is overwritten by it | `GitHubSyncService.cs:1386` |
| any `RaRuntime` configuration with `Decoupled = TRUE` | `ResetReachesRuntime` | `RunDecoupled` resets the core without `RaReset` | `EmulatorSession.cs:718` |

**Observations without a model.** Met while reading and not checked:

* The conflict retry after 409/422 sends its bytes again without comparing times
  (`GitHubSyncService.cs:481`, against the comment at 1580), so older bytes may win a race.
* `Stop` may hold its thread for two 5 s joins although `EmulatorSession.cs:4378` says it
  never blocks; an encode that fails deletes its footage in the `finally` block,
  which is why `KeptUnlessFailed` excludes `failed`.
* RECONNECTED can also be told while a retried unlock is in flight, since only the list is looked at.
* `--load-state` executes after 60 warm-up frames, possibly before sign-in has turned hardcore on.
* `FinalizeSave` runs on the pool: the progress blob (`EmulatorSession.cs:3371`) is taken frames
  after the memory it is stored with (comment at 3364), two quick saves under one name
  interleave, and quitting kills it. A second load asked for while another is retried pairs
  one state's memory with another's progress or is dropped (3414-3479).
* After a join that gave up at 1.5 s, the emulation thread destroys the Vulkan side under a
  presentation thread stuck in its swap.
* If the stem map is unavailable at the first start, loose saves stay flat for good.
* Any host's exit disarms the other's periodic timer (`GameHostLauncher.cs:293`).

## 5. The proofs

All theorems hold for every value of the constants under the modules' named assumptions
(distinct names, natural bounds; finitely many buffers). They are invariants, action
properties and three refinements. The bounds of the actions play no part in them.

* `CloudSyncProofs`. `TypeCorrect`. `ListedIsBacked`: a listed save is stored; the
  inductive invariant (`BackedInv`) adds what is between memory and repository, namely
  manifests on the wire, the snapshot the full sync fetched, and the fact that an upload
  answered "ok" has stored its blob. `NothingIsHidden` and `SyncedIsBackedUp` (together
  `ManualStaysHonest`) assume `Timing = "manual"`, because races like the one of
  `CloudSync_played.cfg` break them otherwise. Their invariant `ManualInv` says that the full sync is
  the only uploader (`FullSyncAlone`), that no time lies in the future (`TimesCome`, so that a file
  written now is newer than any entry), that a local save is not older than the cloud's
  (`LocalNotBehind`), that a list with a save's time speaks of what the cloud holds (`ListsBacked`, for
  the list in memory, the one fetched, the one stored and the one on the wire), what the plan
  (`PlanOnDisk`), the request (`UploadFresh`, `RequestsInPhase`) and the download (`DownloadFresh`)
  carry, and how far the sync has got (`SyncProgress`). It does not say that a file's time is that of its
  content: between write and stamp, and after a death there, it is not. `OnlyFailedFetchDelists`
  rests on `ListCovered`: from a fetch that was answered on, the manifest in memory and the one on the
  wire hold at least every entry the repository's does. `OnlyTheRaceRegresses` needs `PlanCovered`:
  whatever the sync saw of a save it will download is already in the cloud, because the plan
  took every local save that was newer than its entry for an upload, and the entry only moves once
  the upload is answered. What a failed upload leaves is kept from the download by its time. This holds
  for a save with a download's time too, because that time was the newest listed (`OvertakenLast`),
  as only a sync that was given the manifest downloads anything (`UnfetchedBringsNothing`). The two make
  `NoOtherLosses`. `UploadersAdvance`, for any timing, gives the safe part of `UploadersEnd`: a
  hook's remaining steps are a number (`HookLeft`, at most a dozen, in which the one retry of a
  PUT is counted), and the full sync goes down lexicographically: stages, then saves of the
  stage (`SavesLeft`), then steps of the save in hand (`StepsLeft`). No other actor raises any of them.
* `RecordingTapProofs`. `PoolInv` (buffers conserved) bounds the queue's length by a
  cardinality argument, which gives `NoFrameLacksRoom`; `OrderInv` orders file,
  writer's buffer, queue and emulation thread's buffer; the tally follows by counting;
  `DrainInv` shows that only a drained queue ends the writer. From these every step maps to a step
  of `FrameLog` or to a stutter (`LogImplemented`; `LogInv` gathers what the mapping needs, and
  `WrittenIsOldest` that the frame written is the least of those kept). `StopBounded`: once the
  queue takes no more, every step of the writer lowers a number that is at most three times the pool
  plus three, and nobody raises it.
* `RecordingFilesProofs`. `LifeInv` (phases, jobs and hosts agree) and `FootageInv`
  give `FootageStaysFound`: the raw file goes before its side-car. `AloneInv`: on a
  recording that is not `shared` one ffmpeg works at a time. Hence the temporary
  file is complete when it is published (`SavedInv`, `SavedStaysComplete`), and raw file
  and side-car stay until the output is (`KeptInv`, `FootageKept`). `WorkersAdvance`: an encoder never
  goes back but for the retry of a host's failed ffmpeg, and a sweep visits a recording once
  (`SweepFresh`), whatever hosts do or die meanwhile.
* `VulkanFramesProofs`. The invariant `Held` says what each thread's hold on a slot means: the
  shown slot is marked shown (`ShownHeld`), the one in the emulation thread's hand is free
  (`HandHeld`), stale and retired ones are nobody else's (`StaleHeld`, `RetiredHeld`), and a
  ready slot has the newest number (`ReadyNewest`). With it every step maps to a step of
  `LatestFrame` or to a stutter (`NewestFrameShown`); without `HandHeld` a slot could be
  renumbered while it is shown. `EndOrder` orders the two ends (`WindowGoneFirst`).
  The semaphores and the two GPU queues are followed slot by slot: `HandedOver` says that what a slot's
  fence covers has left the Vulkan queue (`Fenced`), that a slot given back or released by the window
  has its signal issued or no longer owed (`GivenBack`, `Released`), that waits, draws and signals of one
  slot alternate in the GL queue (`Alternates`), and that signals and waits balance. It
  is inductive only as a whole: a copy may be submitted because the fence tells that the previous one
  is over and the balance that at most one signal is open. `SemaphoresStayBalanced` and `NoFrameTorn`
  follow. `AllFed` adds the order between the queues: if a copy stands behind one that waits for
  the window's signal of slot `s`, then the GL queue gives that signal before it waits for the
  later copy, or was never asked to show it. So the two heads cannot wait for each other, and as the
  window flushes before it swaps (`SwapFlushed`), the swap holds nothing up (`SwapNeverBlocks`). This is
  the safe part of `EmulationNeverWaits`; that the queues then do drain is left to TLC.
* `RaUnlocksProofs`. `Owned` (each submission has one holder; the one about to be sent has none) is
  inductive and gives `OneOwner`, and every step then is a hand-in, a settling, a close or a stutter
  of `Outbox` (`OutboxImplemented`). `Sorted`, with a lemma about the insertion into the
  schedule, gives `NothingHeldUp`: the head is then the least. Both are joined in `ScheduleStaysSound`.
  `OutageWorkedOn`: what is scheduled failed before (`Retried`) and is due within two minutes
  (`RetrySoon`), and the alarm stands only while something is scheduled, resent or recomputed
  (`ShownForWork`), because whoever ends such work owes a recomputation.
  `Earned` relates the mode in hand to the one at unlock (`HardcoreEarned`); `AlarmTrue` says
  that the player was told "disconnected" exactly while the state is visible (`AlarmsAlternate`).
* `RaRuntimeProofs`. `Modes` ties the session's flag to the client's (`HardcoreNotLoaded`).
  `ResetStep` assumes `~Decoupled` (`ResetsReach`). `Calm`, while the threads have not raced, says
  that the icons and the pill will be right once the events still pending are raised; it is the
  strengthening that makes `IconsRight` and `PillHasTimer` (together `IndicatorsStayRight`) inductive, as a
  state load sets many flags before one of them is raised. `PillRunsOut` adds that a pill with a
  timer belongs to a loaded game the idle turn looks at (`TimerAttached`).
* `SaveMigrationProofs`. `Others` adds to `OthersSafe` that a place in use is known to be taken;
  `HopAlone` that outside a cut run the hop is empty or holds the current tree (`CutBeforeDeleted`);
  `Clean` follows an undisturbed run entry by entry (`UndisturbedMoves`).
* `LibraryDbSyncProofs`. `Content` relates the six hashes: `Numbered` (no copy holds an edit that
  was not yet made), `Backed`, `Taken`, `Own` and `Stored` (what manifest, snapshot and
  backup have in common at each place of the sync); `Grows`, `Plan` and `Calm` build on it.
  From it follow `BackupStaysHonest`, `DownloadsOwn`, `PingPongEnds` and `BackupOnlyGrows`.

Only model-checked: liveness (`UploadersEnd`, `StopEnds`, `WorkersEnd`, `EmulationNeverWaits`,
`OutageEnds`, `PillExpires`), which rests on fairness and so on ENABLED, beyond the prover; and the
failing runs. What each rests on is proved:
`UploadersAdvance`, `StopBounded` and `WorkersAdvance` give a measure that each step of the
actor lowers and nobody else's raises; `SwapNeverBlocks`, that something can go on while work is left;
`OutageWorkedOn` and `PillRunsOut`, that the alarm and the pill have somebody left to end them and a
time at which they will. What TLC adds is that the actors are never stuck and, being
scheduled, take these steps. The measures were checked on the runs' instances before they
were proved.

Each property of a passing run has a mutant in `PROJECT.json`: a definition `Mut...`
beside the one it replaces, with a plausible mistake in it (a later time recorded, a
retry without a limit, a buffer returned too early, a retry scheduled out of order, a
failed PUT noted as done), under which TLC finds the property violated.

## 6. Not modelled

Of the sync service: creation of the repository, encryption and the `.enc` variants
with their deletions, compression, sign-out, cancellation, zero-length
downloads. Of the recording: audio, hardware encoders, the progress display. Of the
session: saving states, the insert countdown, cheats, pacing, the CPU frame path. Of
RetroAchievements: login, game identification and load, hashing, mastery, leaderboard
trackers, rich presence. Every other component of section 1 is named with its reason in
`PROJECT.json`: what keeps state and could go wrong is in the plan (rows 8 to 11); user interface, HTTP
look-ups and file-name heuristics have no protocol to state; SQLite keeps the database's.

By lines, most of the C code is vendored: single-header decoders (dr_flac and others), disc and
cartridge hashing, JSON parsing and generated Wayland tables, all without shared state or
concurrency; its stateful parts, `rc_client.c` and `wl_hwvk.c`, are modelled in so far as this
application drives them. The program's own logic is the C# code.

Hazards beyond those of `PROJECT.json`, without a model:

* `RefreshShaCacheAsync` clears the shared cache and refills it while an upload reads it (`GitHubSyncService.cs:657`).
* The keyring queue and the config fields part after a quick sign-out and sign-in (235), and
  `SaveTokenToConfigAsync` turns sync on after an await (364).
* Two hosts of one game share a key of `_liveHosts` (`GameHostLauncher.cs:288`).
* A client freed under its requests, and an award answered after the game was unloaded (`rc_client.c:226`, `4733`).
* An orphaned `.enc.mp4` whose recording is gone (`RecordingService.cs:405`).
* A core replaced while its backup is being restored (`CoreDownloadService.cs:275`).
* Cancelled debounced saves and a failed second load of the configuration (`JsonConfigurationService.cs:56`, `270`).
* Occurrence numbers after a hot-plug during reconcile (`SdlDeviceSet.cs:183`).
