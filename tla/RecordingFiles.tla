--------------------------- MODULE RecordingFiles ---------------------------
(***************************************************************************)
(* The files of recordings across processes and deaths                     *)
(* (Services/RecordingService.cs with its callers in the game host and the *)
(* launcher).                                                              *)
(*                                                                         *)
(* A game host captures into <r>.video.raw beside a side-car <r>.meta.json *)
(* and, once stopped, has ffmpeg encode the raw video into <r>.enc.mp4 and *)
(* mux that into <r>, and then deletes everything but <r>.  The library    *)
(* application sweeps the recordings tree at its start and after every     *)
(* host's exit and finishes what a side-car says was interrupted.  Hosts   *)
(* and the application die at any point; an ffmpeg outlives its parent.    *)
(*                                                                         *)
(* The footage is the number of frames written to the raw file (what       *)
(* RecordingTap puts there).  Audio only decides between mux and move, and *)
(* is left open.  What two ffmpegs make of one temporary file is not       *)
(* modelled: `shared` remembers the recordings that happened to.           *)
(***************************************************************************)
EXTENDS Naturals, FiniteSets

CONSTANTS
    Recs,        \* output paths
    Hosts,       \* game-host processes
    Sweep,       \* the sweep's worker
    App,         \* the sweep asked for at the application's start
    NoRec, NoHost,
    MaxFrames,   \* bound on the frames of a recording
    MaxFails,    \* bound on failing ffmpegs and side-car writes
    MaxDeaths    \* bound on killed hosts and applications

ASSUME FilesNames == Sweep \notin Recs /\ NoRec \notin Recs /\ App \notin Hosts /\ NoHost \notin Hosts
ASSUME FilesBounds == MaxFrames \in Nat /\ MaxFails \in Nat /\ MaxDeaths \in Nat

VARIABLES
    host,      \* each host: not launched, playing, waiting for its encode, gone
    current,   \* its session's _recording
    owner,     \* the host that records r
    phase,     \* its recorder
    taken,     \* frames written to the raw inode
    raw,       \* the recordings whose raw file exists
    meta,      \* those with a side-car
    tmp,       \* <r>.enc.mp4
    out,       \* <r>
    job,       \* EncodeAndMuxCore, per worker
    orphans,   \* ffmpegs without a parent
    sweep,     \* RecoverInterrupted
    hooks,     \* sweeps asked for and not begun
    appUp,
    failed,    \* recordings a step of ffmpeg or the side-car write failed for
    shared,    \* recordings the sweep took from a live host or ffmpeg
    fails, deaths

files  == <<raw, meta, tmp, out>>
hostly == <<host, current, owner, phase, taken>>
faults == <<failed, shared, fails, deaths>>
vars   == <<hostly, files, job, orphans, sweep, hooks, appUp, faults>>

-----------------------------------------------------------------------------
Workers == Recs \cup {Sweep}
Stages  == {"video", "mux"}
JobPcs  == {"idle", "start", "ready", "delRaw", "delMeta", "delTmp"} \cup Stages
FileStates == [st : {"none", "part", "full"}, n : Nat]

NoFile  == [st |-> "none", n |-> 0]
Partial == [st |-> "part", n |-> 0]
Full(n) == [st |-> "full", n |-> n]

Alive(h) == host[h] \in {"playing", "linger"}
Target(w) == IF w = Sweep THEN sweep.rec ELSE w

TypeOK ==
    /\ host \in [Hosts -> {"off", "playing", "linger", "gone"}]
    /\ current \in [Hosts -> Recs \cup {NoRec}]
    /\ owner \in [Recs -> Hosts \cup {NoHost}]
    /\ phase \in [Recs -> {"none", "created", "capture", "stopped"}]
    /\ \A r \in Recs : phase[r] = "none" <=> owner[r] = NoHost
    /\ taken \in [Recs -> Nat]
    /\ raw \subseteq Recs /\ meta \subseteq Recs
    /\ tmp \in [Recs -> [file : FileStates, fresh : BOOLEAN]]
    /\ out \in [Recs -> FileStates]
    /\ job \in [Workers -> JobPcs]
    /\ orphans \subseteq Recs \X Stages
    /\ sweep \in [on : BOOLEAN, rec : Recs \cup {NoRec}, must : SUBSET Recs, seen : SUBSET Recs]
    /\ job[Sweep] # "idle" => sweep.on /\ sweep.rec \in Recs
    /\ hooks \subseteq Hosts \cup {App}
    /\ appUp \in BOOLEAN
    /\ failed \subseteq Recs /\ shared \subseteq Recs
    /\ fails \in Nat /\ deaths \in Nat

NoTmp   == [file |-> NoFile, fresh |-> FALSE]
NoSweep == [on |-> FALSE, rec |-> NoRec, must |-> {}, seen |-> {}]

Init ==
    /\ host = [h \in Hosts |-> "off"]
    /\ current = [h \in Hosts |-> NoRec]
    /\ owner = [r \in Recs |-> NoHost]
    /\ phase = [r \in Recs |-> "none"]
    /\ taken = [r \in Recs |-> 0]
    /\ raw = {} /\ meta = {}
    /\ tmp = [r \in Recs |-> NoTmp]
    /\ out = [r \in Recs |-> NoFile]
    /\ job = [w \in Workers |-> "idle"]
    /\ orphans = {}
    /\ sweep = NoSweep
    /\ hooks = {App} /\ appUp = TRUE
    /\ failed = {} /\ shared = {} /\ fails = 0 /\ deaths = 0

-----------------------------------------------------------------------------
(* The game host: launch, F9, quit.                                        *)
Launch(h) ==
    /\ appUp /\ host[h] = "off"
    /\ host' = [host EXCEPT ![h] = "playing"]
    /\ UNCHANGED <<current, owner, phase, taken, files, job, orphans, sweep, hooks, appUp, faults>>

Recording(h) == {r \in Recs : owner[r] = h /\ phase[r] \in {"created", "capture"}}

StartFiles(h, r) ==
    /\ host[h] = "playing" /\ Recording(h) = {} /\ phase[r] = "none"
    /\ owner' = [owner EXCEPT ![r] = h]
    /\ phase' = [phase EXCEPT ![r] = "created"]
    /\ raw' = raw \cup {r}
    /\ UNCHANGED <<host, current, taken, meta, tmp, out, job, orphans, sweep, hooks, appUp, faults>>

(* The side-car is best-effort; the writers start after it.                *)
StartSidecar(r) ==
    /\ phase[r] = "created"
    /\ \/ meta' = meta \cup {r} /\ UNCHANGED <<failed, fails>>
       \/ fails < MaxFails /\ fails' = fails + 1 /\ failed' = failed \cup {r} /\ UNCHANGED meta
    /\ phase' = [phase EXCEPT ![r] = "capture"]
    /\ current' = [current EXCEPT ![owner[r]] = r]
    /\ UNCHANGED <<host, owner, taken, raw, tmp, out, job, orphans, sweep, hooks, appUp, shared, deaths>>

Capture(r) ==
    /\ phase[r] = "capture" /\ taken[r] < MaxFrames
    /\ taken' = [taken EXCEPT ![r] = @ + 1]
    /\ UNCHANGED <<host, current, owner, phase, files, job, orphans, sweep, hooks, appUp, faults>>

MutStopRecording(r) ==
    /\ phase[r] = "capture" /\ job[r] = "idle"
    /\ job' = [job EXCEPT ![r] = "start"]
    /\ UNCHANGED <<hostly, files, orphans, sweep, hooks, appUp, faults>>

StopRecording(r) ==
    /\ phase[r] = "capture"
    /\ phase' = [phase EXCEPT ![r] = "stopped"]
    /\ job' = [job EXCEPT ![r] = "start"]
    /\ UNCHANGED <<host, current, owner, taken, files, orphans, sweep, hooks, appUp, faults>>

(* Dispose stops a running capture; then the host waits for the encode of  *)
(* its last recorder.                                                      *)
HostCloses(h) ==
    LET capturing == {r \in Recording(h) : phase[r] = "capture"} IN
    /\ host[h] = "playing" /\ Recording(h) = capturing
    /\ host' = [host EXCEPT ![h] = "linger"]
    /\ phase' = [r \in Recs |-> IF r \in capturing THEN "stopped" ELSE phase[r]]
    /\ job' = [w \in Workers |-> IF w \in capturing THEN "start" ELSE job[w]]
    /\ UNCHANGED <<current, owner, taken, files, orphans, sweep, hooks, appUp, faults>>

(* A process is gone: its captures and encodes stop where they are, its    *)
(* ffmpegs run on, its supervisor asks for a sweep.                        *)
Gone(h) ==
    LET mine == {r \in Recs : owner[r] = h} IN
    /\ host' = [host EXCEPT ![h] = "gone"]
    /\ phase' = [r \in Recs |-> IF r \in mine THEN "stopped" ELSE phase[r]]
    /\ job' = [w \in Workers |-> IF w \in mine THEN "idle" ELSE job[w]]
    /\ orphans' = orphans \cup {o \in mine \X Stages : job[o[1]] = o[2]}
    /\ hooks' = IF appUp THEN hooks \cup {h} ELSE hooks
    /\ UNCHANGED <<current, owner, taken, files, sweep, appUp, failed, shared, fails>>

HostExits(h) ==
    /\ host[h] = "linger"
    /\ current[h] # NoRec => job[current[h]] = "idle"
    /\ Gone(h) /\ UNCHANGED deaths

HostDies(h) ==
    /\ Alive(h) /\ deaths < MaxDeaths
    /\ deaths' = deaths + 1
    /\ Gone(h)

-----------------------------------------------------------------------------
(* EncodeAndMuxCore, by the recorder's own task or by the sweep.           *)
Moves(w, to) == job' = [job EXCEPT ![w] = to]

MutEncodeStart(w) ==
    LET r == Target(w) IN
    /\ job[w] = "start" /\ r \in raw
    /\ Moves(w, "video")
    /\ tmp' = [tmp EXCEPT ![r] = [file |-> Partial, fresh |-> TRUE]]
    /\ UNCHANGED <<hostly, raw, meta, out, orphans, sweep, hooks, appUp, faults>>

(* ffmpeg opens its input, then creates the temporary; without the input   *)
(* it fails at once.                                                       *)
EncodeStart(w) ==
    LET r == Target(w) IN
    /\ job[w] = "start"
    /\ \/ r \in raw
          /\ Moves(w, "video")
          /\ tmp' = [tmp EXCEPT ![r] = [file |-> Partial, fresh |-> TRUE]]
          /\ UNCHANGED failed
       \/ r \notin raw
          /\ Moves(w, "delRaw")
          /\ failed' = failed \cup {r}
          /\ UNCHANGED tmp
    /\ UNCHANGED <<hostly, raw, meta, out, orphans, sweep, hooks, appUp, shared, fails, deaths>>

(* The process exits with another code or is killed at its timeout.  A     *)
(* host's VAAPI attempt is repeated on x264.                               *)
FfmpegFails(w) ==
    /\ job[w] \in Stages /\ fails < MaxFails
    /\ fails' = fails + 1
    /\ failed' = failed \cup {Target(w)}
    /\ \/ Moves(w, "delRaw")
       \/ job[w] = "video" /\ w # Sweep /\ Moves(w, "start")
    /\ UNCHANGED <<hostly, files, orphans, sweep, hooks, appUp, shared, deaths>>

MutEncodeVideo(w) ==
    LET r == Target(w) IN
    /\ job[w] = "video"
    /\ tmp' = [tmp EXCEPT ![r] = [file |-> Full(taken[r]), fresh |-> TRUE]]
    /\ raw' = raw \ {r}
    /\ Moves(w, "ready")
    /\ UNCHANGED <<hostly, meta, out, orphans, sweep, hooks, appUp, faults>>

EncodeVideo(w) ==
    LET r == Target(w) IN
    /\ job[w] = "video"
    /\ tmp' = [tmp EXCEPT ![r] = [file |-> Full(taken[r]), fresh |-> TRUE]]
    /\ Moves(w, "ready")
    /\ UNCHANGED <<hostly, raw, meta, out, orphans, sweep, hooks, appUp, faults>>

(* With audio ffmpeg muxes straight into the output file; without, the     *)
(* temporary is renamed.                                                   *)
Publish(w) ==
    LET r == Target(w) IN
    /\ job[w] = "ready"
    /\ \/ /\ tmp[r] # NoTmp
          /\ \/ Moves(w, "mux") /\ out' = [out EXCEPT ![r] = Partial] /\ UNCHANGED tmp
             \/ /\ Moves(w, "delRaw")
                /\ out' = [out EXCEPT ![r] = tmp[r].file] /\ tmp' = [tmp EXCEPT ![r] = NoTmp]
          /\ UNCHANGED failed
       \/ /\ tmp[r] = NoTmp
          /\ Moves(w, "delRaw")
          /\ failed' = failed \cup {r}
          /\ UNCHANGED <<tmp, out>>
    /\ UNCHANGED <<hostly, raw, meta, orphans, sweep, hooks, appUp, shared, fails, deaths>>

Mux(w) ==
    LET r == Target(w) IN
    /\ job[w] = "mux"
    /\ out' = [out EXCEPT ![r] = Full(tmp[r].file.n)]
    /\ Moves(w, "delRaw")
    /\ UNCHANGED <<hostly, raw, meta, tmp, orphans, sweep, hooks, appUp, faults>>

(* The finally block, after a success and after a failure alike.           *)
DeleteRaw(w) ==
    /\ job[w] = "delRaw"
    /\ raw' = raw \ {Target(w)}
    /\ Moves(w, "delMeta")
    /\ UNCHANGED <<hostly, meta, tmp, out, orphans, sweep, hooks, appUp, faults>>

DeleteMeta(w) ==
    /\ job[w] = "delMeta"
    /\ meta' = meta \ {Target(w)}
    /\ Moves(w, "delTmp")
    /\ UNCHANGED <<hostly, raw, tmp, out, orphans, sweep, hooks, appUp, faults>>

Seen(r) == [sweep EXCEPT !.rec = NoRec, !.seen = @ \cup {r}]

DeleteTmp(w) ==
    /\ job[w] = "delTmp"
    /\ tmp' = [tmp EXCEPT ![Target(w)] = NoTmp]
    /\ Moves(w, "idle")
    /\ sweep' = IF w = Sweep THEN Seen(sweep.rec) ELSE sweep
    /\ UNCHANGED <<hostly, raw, meta, out, orphans, hooks, appUp, faults>>

EncodeStep(w) ==
    \/ EncodeStart(w) \/ FfmpegFails(w) \/ EncodeVideo(w) \/ Publish(w) \/ Mux(w)
    \/ DeleteRaw(w) \/ DeleteMeta(w) \/ DeleteTmp(w)

(* An ffmpeg whose parent died goes on; nobody learns how it ended.        *)
OrphanEnds(r, s) ==
    /\ <<r, s>> \in orphans
    /\ orphans' = orphans \ {<<r, s>>}
    /\ \/ UNCHANGED <<tmp, out>>
       \/ /\ s = "video" /\ tmp[r] # NoTmp
          /\ tmp' = [tmp EXCEPT ![r] = [file |-> Full(taken[r]), fresh |-> TRUE]]
          /\ UNCHANGED out
       \/ /\ s = "mux"
          /\ out' = [out EXCEPT ![r] = Full(tmp[r].file.n)]
          /\ UNCHANGED tmp
    /\ UNCHANGED <<hostly, raw, meta, job, sweep, hooks, appUp, faults>>

(* A minute without a write to the temporary file.                         *)
TmpAges(r) ==
    /\ tmp[r].fresh
    /\ <<r, "video">> \notin orphans
    /\ \A w \in Workers : job[w] = "video" => Target(w) # r
    /\ tmp' = [tmp EXCEPT ![r] = [file |-> tmp[r].file, fresh |-> FALSE]]
    /\ UNCHANGED <<hostly, raw, meta, out, job, orphans, sweep, hooks, appUp, faults>>

-----------------------------------------------------------------------------
(* RecoverInterrupted: one at a time, a request during another is dropped. *)
RunHook(x) ==
    /\ appUp /\ x \in hooks
    /\ hooks' = hooks \ {x}
    /\ sweep' = IF sweep.on THEN sweep ELSE [NoSweep EXCEPT !.on = TRUE, !.must = meta]
    /\ UNCHANGED <<hostly, files, job, orphans, appUp, faults>>

Busy(r) == Alive(owner[r]) \/ \E s \in Stages : <<r, s>> \in orphans

Skipped(r) == tmp[r].file.st # "none" /\ tmp[r].fresh

(* The tree is listed lazily: a side-car that appears meanwhile may or may *)
(* not be visited.                                                         *)
Visits(r) == sweep.on /\ sweep.rec = NoRec /\ r \in meta \ sweep.seen

SweepSkips(r) ==
    /\ Visits(r) /\ Skipped(r)
    /\ sweep' = Seen(r)
    /\ UNCHANGED <<hostly, files, job, orphans, hooks, appUp, faults>>

SweepClears(r) ==
    /\ Visits(r) /\ ~Skipped(r)
    /\ r \notin raw \/ taken[r] = 0
    /\ meta' = meta \ {r} /\ raw' = raw \ {r}
    /\ sweep' = Seen(r)
    /\ shared' = IF Busy(r) THEN shared \cup {r} ELSE shared
    /\ UNCHANGED <<hostly, tmp, out, job, orphans, hooks, appUp, failed, fails, deaths>>

SweepRecovers(r) ==
    /\ Visits(r) /\ ~Skipped(r)
    /\ r \in raw /\ taken[r] > 0
    /\ sweep' = [sweep EXCEPT !.rec = r]
    /\ Moves(Sweep, "start")
    /\ shared' = IF Busy(r) THEN shared \cup {r} ELSE shared
    /\ UNCHANGED <<hostly, files, orphans, hooks, appUp, failed, fails, deaths>>

SweepEnds ==
    /\ sweep.on /\ sweep.rec = NoRec
    /\ sweep.must \cap meta \subseteq sweep.seen
    /\ sweep' = NoSweep
    /\ UNCHANGED <<hostly, files, job, orphans, hooks, appUp, faults>>

SweepStep ==
    SweepEnds \/ \E r \in Recs : SweepSkips(r) \/ SweepClears(r) \/ SweepRecovers(r)

MutAppDies ==
    /\ appUp /\ deaths < MaxDeaths
    /\ deaths' = deaths + 1
    /\ appUp' = FALSE
    /\ hooks' = {}
    /\ sweep' = NoSweep
    /\ UNCHANGED <<hostly, files, job, orphans, failed, shared, fails>>

AppDies ==
    /\ appUp /\ deaths < MaxDeaths
    /\ deaths' = deaths + 1
    /\ appUp' = FALSE
    /\ hooks' = {}
    /\ sweep' = NoSweep
    /\ orphans' = orphans \cup {o \in Recs \X Stages : o = <<sweep.rec, job[Sweep]>>}
    /\ Moves(Sweep, "idle")
    /\ UNCHANGED <<hostly, files, failed, shared, fails>>

AppStarts ==
    /\ ~appUp
    /\ appUp' = TRUE /\ hooks' = {App}
    /\ UNCHANGED <<hostly, files, job, orphans, sweep, faults>>

HostStep(h) == Launch(h) \/ (\E r \in Recs : StartFiles(h, r)) \/ HostCloses(h)

RecorderStep(r) == StartSidecar(r) \/ Capture(r) \/ StopRecording(r)

Next ==
    \/ \E h \in Hosts : HostStep(h) \/ HostExits(h) \/ HostDies(h)
    \/ \E r \in Recs : RecorderStep(r) \/ TmpAges(r)
    \/ \E r \in Recs, s \in Stages : OrphanEnds(r, s)
    \/ \E w \in Workers : EncodeStep(w)
    \/ \E x \in Hosts \cup {App} : RunHook(x)
    \/ SweepStep
    \/ AppDies \/ AppStarts

Spec == Init /\ [][Next]_vars

(* Every ffmpeg ends or is killed (RunFfmpeg's timeouts) and the sweep's   *)
(* loop goes on; nobody is obliged to record, quit or restart.             *)
FairSpec ==
    /\ Spec
    /\ \A w \in Workers : WF_vars(EncodeStep(w))
    /\ \A h \in Hosts : WF_vars(HostExits(h))
    /\ WF_vars(SweepStep)

-----------------------------------------------------------------------------
(* Footage is never lost by a death: from the first frame on either a      *)
(* sweep can find and encode it, or the finished output holds all of it,   *)
(* unless ffmpeg failed on it or the sweep took it from a live process.    *)
KeptUnlessFailed ==
    \A r \in Recs \ (failed \cup shared) : taken[r] > 0 =>
        \/ r \in raw \cap meta
        \/ out[r] = Full(taken[r])

(* A finished output holds the whole recording, not what was captured when *)
(* some encoder looked.                                                    *)
SavedIsComplete ==
    \A r \in Recs \ shared : out[r].st = "full" => phase[r] = "stopped" /\ out[r].n = taken[r]

(* Raw footage (gigabytes) always has its side-car beside it, so whatever  *)
(* is interrupted, the next sweep finds it and nothing stays behind.       *)
FootageIsFound == \A r \in raw \ failed : taken[r] > 0 => r \in meta

(* Footage that is not yet in a finished output is there, and whatever is  *)
(* there is where a sweep looks for it.                                    *)
FootageSafe == KeptUnlessFailed /\ FootageIsFound

(* A closed game's process ends, whatever its encode meets.                *)
HostLeaves == \A h \in Hosts : host[h] = "linger" ~> host[h] = "gone"

(* A sweep ends, and the next request is served again.                     *)
SweepsEnd == sweep.on ~> ~sweep.on

(* Whoever encodes comes to an end: the closing host and the sweep.        *)
WorkersEnd == HostLeaves /\ SweepsEnd

(* "A host that exits cleanly finishes its own encode first, so this only  *)
(* finds work when the host CRASHED".                                      *)
SweepTakesOnlyCrashed == job[Sweep] # "idle" => ~Alive(owner[sweep.rec])
==============================================================================
