------------------------ MODULE RecordingFilesProofs ------------------------
(***************************************************************************)
(* The safety of RecordingFiles, proved for any number of recordings,      *)
(* hosts, frames, failures and deaths.                                     *)
(***************************************************************************)
EXTENDS RecordingFiles, TLAPS

USE FilesNames

(* The file states an encode writes are file states.                       *)
LEMMA FileTypes ==
    /\ NoFile \in FileStates /\ Partial \in FileStates
    /\ \A n \in Nat : Full(n) \in FileStates
    /\ NoTmp \in [file : FileStates, fresh : BOOLEAN]
  BY DEF NoFile, Partial, Full, NoTmp, FileStates

(* What a worker works on is a recording.                                  *)
LEMMA TargetType ==
    ASSUME TypeOK, NEW w \in Workers, job[w] # "idle"
    PROVE  Target(w) \in Recs
  BY DEF TypeOK, Workers, Target

TmpStates == [file : FileStates, fresh : BOOLEAN]

(* A busy worker that moves on stays well-typed.                           *)
LEMMA MovesType ==
    ASSUME TypeOK, NEW w \in Workers, NEW to \in JobPcs, job[w] # "idle", Moves(w, to)
    PROVE  /\ job' \in [Workers -> JobPcs]
           /\ job'[Sweep] # "idle" => job[Sweep] # "idle"
  BY DEF TypeOK, Moves

(* One temporary file, or one output, written.                             *)
LEMMA TmpType ==
    ASSUME TypeOK, NEW r \in Recs, NEW t \in TmpStates, tmp' = [tmp EXCEPT ![r] = t]
    PROVE  tmp' \in [Recs -> TmpStates]
  BY DEF TypeOK, TmpStates

(* One output file is written.                                             *)
LEMMA OutType ==
    ASSUME TypeOK, NEW r \in Recs, NEW f \in FileStates, out' = [out EXCEPT ![r] = f]
    PROVE  out' \in [Recs -> FileStates]
  BY DEF TypeOK

(* A step that leaves hosts, sweep and launcher alone and starts no sweep  *)
(* keeps all types when it keeps those of what it writes.                  *)
LEMMA FrameTypes ==
    ASSUME TypeOK, UNCHANGED <<hostly, sweep, hooks, appUp, shared, deaths>>,
           raw' \subseteq Recs, meta' \subseteq Recs, failed' \subseteq Recs, fails' \in Nat,
           tmp' \in [Recs -> TmpStates],
           out' \in [Recs -> FileStates], orphans' \subseteq orphans,
           job' \in [Workers -> JobPcs], job'[Sweep] # "idle" => job[Sweep] # "idle"
    PROVE  TypeOK'
  BY DEF TypeOK, TmpStates, hostly

(* Every step of an encode keeps the types.                                *)
LEMMA EncodeTypeOK ==
    ASSUME TypeOK, NEW w \in Workers, EncodeStep(w)
    PROVE  TypeOK'
  <1> DEFINE r == Target(w)
  <1>a. r \in Recs
    <2>1. job[w] # "idle"
      BY DEF EncodeStep, EncodeStart, FfmpegFails, EncodeVideo, Publish, Mux, DeleteRaw,
             DeleteMeta, DeleteTmp, Stages
    <2> QED
      BY <2>1, TargetType
  <1>b. taken[r] \in Nat /\ tmp[r] \in [file : FileStates, fresh : BOOLEAN]
        /\ tmp[r].file \in FileStates /\ tmp[r].file.n \in Nat
    BY <1>a DEF TypeOK, FileStates
  <1>1. CASE EncodeStart(w)
    <2>1. /\ job' \in [Workers -> JobPcs]
          /\ job'[Sweep] # "idle" => job[Sweep] # "idle"
      <3>1. PICK to \in {"video", "delRaw"} : Moves(w, to) /\ job[w] # "idle"
        BY <1>1 DEF EncodeStart
      <3> QED
        BY <3>1, MovesType DEF JobPcs, Stages
    <2>2. failed' \subseteq Recs
      BY <1>1, <1>a DEF EncodeStart, TypeOK
    <2>3. tmp' \in [Recs -> TmpStates]
      <3>1. [file |-> Partial, fresh |-> TRUE] \in TmpStates /\ tmp \in [Recs -> TmpStates]
        BY FileTypes DEF TmpStates, TypeOK
      <3>2. tmp' = tmp \/ tmp' = [tmp EXCEPT ![r] = [file |-> Partial, fresh |-> TRUE]]
        BY <1>1 DEF EncodeStart
      <3> QED
        BY <3>1, <3>2, <1>a, TmpType
    <2> QED
      BY <1>1, <2>1, <2>2, <2>3, FrameTypes DEF EncodeStart, TypeOK
  <1>2. CASE FfmpegFails(w)
    <2>1. /\ job' \in [Workers -> JobPcs]
          /\ job'[Sweep] # "idle" => job[Sweep] # "idle"
      <3>1. PICK to \in {"start", "delRaw"} : Moves(w, to) /\ job[w] # "idle"
        BY <1>2 DEF FfmpegFails, Stages
      <3> QED
        BY <3>1, MovesType DEF JobPcs
    <2>2. failed' \subseteq Recs /\ fails' \in Nat
      BY <1>2, <1>a DEF FfmpegFails, TypeOK
    <2>3. UNCHANGED <<hostly, raw, meta, tmp, out, orphans, sweep, hooks, appUp, shared, deaths>>
      BY <1>2 DEF FfmpegFails, files
    <2>4. /\ raw \subseteq Recs /\ meta \subseteq Recs /\ tmp \in [Recs -> TmpStates]
          /\ out \in [Recs -> FileStates]
      BY DEF TypeOK, TmpStates
    <2> QED
      BY <2>1, <2>2, <2>3, <2>4, FrameTypes
  <1>3. CASE EncodeVideo(w)
    BY <1>3, <1>a, <1>b, FileTypes DEF EncodeVideo, TypeOK, Moves, JobPcs, Stages, hostly, faults
  <1>4. CASE Publish(w)
    <2>1. /\ job' \in [Workers -> JobPcs]
          /\ job'[Sweep] # "idle" => job[Sweep] # "idle"
      <3>1. PICK to \in {"mux", "delRaw"} : Moves(w, to) /\ job[w] # "idle"
        BY <1>4 DEF Publish
      <3> QED
        BY <3>1, MovesType DEF JobPcs, Stages
    <2>2. failed' \subseteq Recs
      BY <1>4, <1>a DEF Publish, TypeOK
    <2>3. tmp' = tmp \/ tmp' = [tmp EXCEPT ![r] = NoTmp]
      BY <1>4 DEF Publish
    <2>4. \/ out' = out \/ out' = [out EXCEPT ![r] = Partial]
          \/ out' = [out EXCEPT ![r] = tmp[r].file]
      BY <1>4 DEF Publish
    <2>5. tmp' \in [Recs -> TmpStates] /\ out' \in [Recs -> FileStates]
      <3>1. /\ NoTmp \in TmpStates /\ tmp \in [Recs -> TmpStates] /\ out \in [Recs -> FileStates]
            /\ Partial \in FileStates /\ tmp[r].file \in FileStates
        BY <1>b, FileTypes DEF TmpStates, TypeOK
      <3> QED
        BY <2>3, <2>4, <3>1, <1>a, TmpType, OutType
    <2> QED
      BY <1>4, <2>1, <2>2, <2>5, FrameTypes DEF Publish, TypeOK
  <1>5. CASE Mux(w)
    BY <1>5, <1>a, <1>b, FileTypes DEF Mux, TypeOK, Moves, JobPcs, Stages, hostly, faults
  <1>6. CASE DeleteRaw(w)
    BY <1>6 DEF DeleteRaw, TypeOK, Moves, JobPcs, Stages, hostly, faults
  <1>7. CASE DeleteMeta(w)
    BY <1>7 DEF DeleteMeta, TypeOK, Moves, JobPcs, Stages, hostly, faults
  <1>8. CASE DeleteTmp(w)
    <2>1. w = Sweep => sweep' \in [on : BOOLEAN, rec : Recs \cup {NoRec}, must : SUBSET Recs,
                                   seen : SUBSET Recs]
      BY <1>8, <1>a DEF DeleteTmp, Seen, TypeOK, Target
    <2>2. w # Sweep => sweep' = sweep /\ job'[Sweep] = job[Sweep]
      BY <1>8 DEF DeleteTmp, TypeOK, Moves, Workers
    <2>3. w = Sweep => job'[Sweep] = "idle"
      BY <1>8 DEF DeleteTmp, TypeOK, Moves
    <2> QED
      BY <1>8, <1>a, <2>1, <2>2, <2>3, FileTypes
         DEF DeleteTmp, TypeOK, Moves, JobPcs, Stages, hostly, faults
  <1> QED
    BY <1>1, <1>2, <1>3, <1>4, <1>5, <1>6, <1>7, <1>8 DEF EncodeStep

(* Every step of a host keeps the types.                                   *)
LEMMA HostTypeOK ==
    ASSUME TypeOK, NEW h \in Hosts, HostStep(h) \/ HostExits(h) \/ HostDies(h)
    PROVE  TypeOK'
  <1>1. CASE Launch(h)
    BY <1>1 DEF Launch, TypeOK, files, faults
  <1>2. CASE \E r \in Recs : StartFiles(h, r)
    BY <1>2 DEF StartFiles, TypeOK, faults
  <1>3. CASE HostCloses(h)
    BY <1>3 DEF HostCloses, TypeOK, files, faults, Recording, Workers, JobPcs
  <1>4. CASE HostExits(h) \/ HostDies(h)
    <2>1. Gone(h) /\ deaths' \in Nat
      BY <1>4 DEF HostExits, HostDies, TypeOK
    <2>2. \A r \in Recs : phase'[r] = "none" => phase[r] = "none"
      BY <2>1 DEF Gone, TypeOK
    <2>3. \A r \in Recs : phase[r] = "none" => phase'[r] = "none"
      BY <2>1 DEF Gone, TypeOK
    <2> QED
      BY <2>1, <2>2, <2>3 DEF Gone, TypeOK, files, Workers, JobPcs
  <1> QED
    BY <1>1, <1>2, <1>3, <1>4 DEF HostStep

(* Every variable of the recordings' world keeps its type (TypeOK).        *)
THEOREM FilesTypeCorrect == Spec => []TypeOK
  <1>1. Init => TypeOK
    BY FileTypes DEF Init, TypeOK, NoSweep, JobPcs, Workers
  <1>2. TypeOK /\ [Next]_vars => TypeOK'
    <2> SUFFICES ASSUME TypeOK, [Next]_vars PROVE TypeOK'
      OBVIOUS
    <2>1. CASE \E h \in Hosts : HostStep(h) \/ HostExits(h) \/ HostDies(h)
      BY <2>1, HostTypeOK
    <2>2. CASE \E r \in Recs : RecorderStep(r) \/ TmpAges(r)
      <3> PICK r \in Recs : RecorderStep(r) \/ TmpAges(r)
        BY <2>2
      <3>1. CASE StartSidecar(r)
        BY <3>1 DEF StartSidecar, TypeOK
      <3>2. CASE Capture(r)
        BY <3>2 DEF Capture, TypeOK, files, faults
      <3>3. CASE StopRecording(r)
        BY <3>3 DEF StopRecording, TypeOK, files, faults, Workers, JobPcs
      <3>4. CASE TmpAges(r)
        <4>1. tmp' \in [Recs -> TmpStates]
          <5> DEFINE aged == [file |-> tmp[r].file, fresh |-> FALSE]
          <5>1. tmp[r] \in TmpStates
            BY DEF TypeOK, TmpStates
          <5>2. aged \in TmpStates
            BY <5>1 DEF TmpStates
          <5>3. tmp' = [tmp EXCEPT ![r] = aged]
            BY <3>4 DEF TmpAges
          <5> QED
            BY <5>2, <5>3, TmpType
        <4> QED
          BY <3>4, <4>1, FrameTypes DEF TmpAges, TypeOK, faults
      <3> QED
        BY <3>1, <3>2, <3>3, <3>4 DEF RecorderStep
    <2>3. CASE \E r \in Recs, s \in Stages : OrphanEnds(r, s)
      <3> PICK r \in Recs, s \in Stages : OrphanEnds(r, s)
        BY <2>3
      <3>1. Full(taken[r]) \in FileStates /\ Full(tmp[r].file.n) \in FileStates
        BY FileTypes DEF TypeOK, FileStates
      <3> QED
        <4>1. \/ tmp' = tmp /\ out' = out
              \/ tmp' = [tmp EXCEPT ![r] = [file |-> Full(taken[r]), fresh |-> TRUE]] /\ out' = out
              \/ tmp' = tmp /\ out' = [out EXCEPT ![r] = Full(tmp[r].file.n)]
          BY DEF OrphanEnds
        <4>2. tmp' \in [Recs -> TmpStates] /\ out' \in [Recs -> FileStates]
          <5>1. /\ [file |-> Full(taken[r]), fresh |-> TRUE] \in TmpStates
                /\ tmp \in [Recs -> TmpStates] /\ out \in [Recs -> FileStates]
            BY <3>1 DEF TmpStates, TypeOK
          <5> QED
            BY <3>1, <4>1, <5>1, TmpType, OutType
        <4>3. orphans' \subseteq orphans /\ UNCHANGED <<hostly, raw, meta, job, sweep, hooks, appUp, faults>>
          BY DEF OrphanEnds
        <4> QED
          BY <4>2, <4>3, FrameTypes DEF TypeOK, faults
    <2>4. CASE \E w \in Workers : EncodeStep(w)
      BY <2>4, EncodeTypeOK
    <2>5. CASE \E x \in Hosts \cup {App} : RunHook(x)
      <3> PICK x \in Hosts \cup {App} : RunHook(x)
        BY <2>5
      <3>1. \/ sweep' = sweep
            \/ sweep' = [on |-> TRUE, rec |-> NoRec, must |-> meta, seen |-> {}] /\ ~sweep.on
        BY DEF RunHook, NoSweep
      <3>2. /\ hooks' \subseteq hooks
            /\ UNCHANGED <<host, current, owner, phase, taken, raw, meta, tmp, out>>
            /\ UNCHANGED <<job, orphans, appUp, failed, shared, fails, deaths>>
        BY DEF RunHook, hostly, files, faults
      <3>3. sweep' \in [on : BOOLEAN, rec : Recs \cup {NoRec}, must : SUBSET Recs, seen : SUBSET Recs]
        <4>1. /\ sweep \in [on : BOOLEAN, rec : Recs \cup {NoRec}, must : SUBSET Recs, seen : SUBSET Recs]
              /\ meta \in SUBSET Recs
          BY DEF TypeOK
        <4>2. {} \in SUBSET Recs /\ NoRec \in Recs \cup {NoRec} /\ TRUE \in BOOLEAN
          OBVIOUS
        <4>3. CASE sweep' = sweep
          BY <4>1, <4>3, Zenon
        <4>4. CASE sweep' = [on |-> TRUE, rec |-> NoRec, must |-> meta, seen |-> {}]
          BY <4>1, <4>2, <4>4
        <4> QED
          BY <3>1, <4>3, <4>4
      <3>4. job'[Sweep] # "idle" => sweep'.on /\ sweep'.rec \in Recs
        BY <3>1, <3>2 DEF TypeOK
      <3> QED
        BY <3>2, <3>3, <3>4 DEF TypeOK
    <2>6. CASE SweepStep
      <3>1. CASE SweepEnds
        BY <2>6, <3>1 DEF SweepEnds, NoSweep, TypeOK, hostly, files, faults
      <3>2. ASSUME NEW r \in Recs, SweepSkips(r) \/ SweepClears(r) \/ SweepRecovers(r)
            PROVE  TypeOK'
        <4>1. CASE SweepSkips(r)
          BY <4>1 DEF SweepSkips, Visits, Seen, TypeOK, hostly, files, faults
        <4>2. CASE SweepClears(r)
          BY <4>2 DEF SweepClears, Visits, Seen, TypeOK, hostly
        <4>3. CASE SweepRecovers(r)
          BY <4>3 DEF SweepRecovers, Visits, Moves, TypeOK, hostly, files, Workers, JobPcs
        <4> QED
          BY <3>2, <4>1, <4>2, <4>3
      <3> QED
        BY <2>6, <3>1, <3>2 DEF SweepStep
    <2>7. CASE AppDies
      <3>1. job' \in [Workers -> JobPcs] /\ job'[Sweep] = "idle"
        BY <2>7 DEF AppDies, Moves, TypeOK, Workers, JobPcs
      <3>2. orphans' \subseteq Recs \X Stages
        BY <2>7 DEF AppDies, TypeOK
      <3>3. sweep' \in [on : BOOLEAN, rec : Recs \cup {NoRec}, must : SUBSET Recs, seen : SUBSET Recs]
        BY <2>7 DEF AppDies, NoSweep
      <3>4. deaths' \in Nat /\ hooks' = {} /\ appUp' = FALSE
        BY <2>7 DEF AppDies, TypeOK
      <3>5. UNCHANGED <<hostly, files, failed, shared, fails>>
        BY <2>7 DEF AppDies
      <3> QED
        BY <3>1, <3>2, <3>3, <3>4, <3>5 DEF TypeOK, hostly, files
    <2>8. CASE AppStarts
      BY <2>8 DEF AppStarts, TypeOK, hostly, files, faults
    <2>9. CASE UNCHANGED vars
      BY <2>9 DEF vars, TypeOK, hostly, files, faults
    <2> QED
      BY <2>1, <2>2, <2>3, <2>4, <2>5, <2>6, <2>7, <2>8, <2>9 DEF Next
  <1> QED
    BY <1>1, <1>2, PTL DEF Spec

-----------------------------------------------------------------------------
(* How recorder, host, sweep and orphans go together.                      *)
LifeInv ==
    /\ \A r \in Recs : owner[r] \in Hosts => host[owner[r]] # "off"
    /\ \A r \in Recs : phase[r] \in {"created", "capture"} => host[owner[r]] = "playing"
    /\ \A r \in Recs : phase[r] \in {"none", "created"} => taken[r] = 0
    /\ \A r \in Recs : phase[r] = "none" => r \notin raw \cup meta
    /\ \A r \in Recs : job[r] # "idle" => phase[r] = "stopped" /\ Alive(owner[r])
    /\ sweep.rec \in Recs => job[Sweep] # "idle" /\ phase[sweep.rec] # "none"
    /\ \A r \in Recs, s \in Stages : <<r, s>> \in orphans => phase[r] # "none"

(* A recording that was started has a host.                                *)
LEMMA OwnerType ==
    ASSUME TypeOK, NEW r \in Recs, phase[r] # "none"
    PROVE  owner[r] \in Hosts
  BY DEF TypeOK

(* What every step of an encode has in common.                             *)
LEMMA EncodeEffect ==
    ASSUME TypeOK, NEW w \in Workers, EncodeStep(w)
    PROVE  /\ Target(w) \in Recs /\ job[w] # "idle"
           /\ \A v \in Workers \ {w} : job'[v] = job[v]
           /\ UNCHANGED <<hostly, orphans, hooks, appUp, shared, deaths>>
           /\ \A r \in Recs \ {Target(w)} :
                 /\ r \in raw' <=> r \in raw
                 /\ r \in meta' <=> r \in meta
                 /\ r \in failed' <=> r \in failed
                 /\ tmp'[r] = tmp[r] /\ out'[r] = out[r]
           /\ raw' \subseteq raw /\ meta' \subseteq meta /\ failed \subseteq failed'
           /\ \/ sweep' = sweep /\ (w = Sweep => job'[w] # "idle")
              \/ w = Sweep /\ job'[w] = "idle" /\ sweep'.rec = NoRec
  <1>1. Target(w) \in Recs /\ job[w] # "idle"
    <2>1. job[w] # "idle"
      BY DEF EncodeStep, EncodeStart, FfmpegFails, EncodeVideo, Publish, Mux, DeleteRaw,
             DeleteMeta, DeleteTmp, Stages
    <2> QED
      BY <2>1, TargetType
  <1> DEFINE r == Target(w)
  <1> USE DEF EncodeStep, EncodeStart, FfmpegFails, EncodeVideo, Publish, Mux, DeleteRaw,
              DeleteMeta, DeleteTmp
  <1>2. \A v \in Workers \ {w} : job'[v] = job[v]
    <2>1. \/ Moves(w, "start") \/ Moves(w, "video") \/ Moves(w, "ready") \/ Moves(w, "mux")
          \/ Moves(w, "delRaw") \/ Moves(w, "delMeta") \/ Moves(w, "delTmp") \/ Moves(w, "idle")
      OBVIOUS
    <2> QED
      BY <2>1 DEF Moves, TypeOK
  <1>3. UNCHANGED <<hostly, orphans, hooks, appUp, shared, deaths>>
    BY DEF faults
  <1>4. /\ raw' = raw \/ raw' = raw \ {r}
        /\ meta' = meta \/ meta' = meta \ {r}
        /\ failed' = failed \/ failed' = failed \cup {r}
    BY DEF files, faults
  <1>5. tmp' = tmp \/ \E t : tmp' = [tmp EXCEPT ![r] = t]
    BY DEF files
  <1>6. out' = out \/ \E f : out' = [out EXCEPT ![r] = f]
    BY DEF files
  <1>7. \A q \in Recs \ {r} : tmp'[q] = tmp[q] /\ out'[q] = out[q]
    BY <1>5, <1>6 DEF TypeOK
  <1>10. \/ sweep' = sweep /\ (w = Sweep => job'[w] # "idle")
         \/ w = Sweep /\ job'[w] = "idle" /\ sweep'.rec = NoRec
    <2>1. CASE DeleteTmp(w) /\ w = Sweep
      <3>1. job'[w] = "idle"
        BY <2>1 DEF Moves, TypeOK
      <3>2. sweep'.rec = NoRec
        BY <2>1 DEF Seen, TypeOK
      <3> QED
        BY <2>1, <3>1, <3>2
    <2>2. CASE DeleteTmp(w) /\ w # Sweep
      BY <2>2
    <2>3. CASE ~DeleteTmp(w)
      <3>1. sweep' = sweep
        BY <2>3
      <3>2. job'[w] # "idle"
        BY <2>3 DEF Moves, TypeOK
      <3> QED
        BY <3>1, <3>2
    <2> QED
      BY <2>1, <2>2, <2>3
  <1> HIDE DEF EncodeStep, EncodeStart, FfmpegFails, EncodeVideo, Publish, Mux, DeleteRaw,
               DeleteMeta, DeleteTmp
  <1>8. \A q \in Recs \ {r} :
            /\ q \in raw' <=> q \in raw
            /\ q \in meta' <=> q \in meta
            /\ q \in failed' <=> q \in failed
    BY <1>4
  <1>9. raw' \subseteq raw /\ meta' \subseteq meta /\ failed \subseteq failed'
    BY <1>4
  <1> QED
    BY <1>1, <1>2, <1>3, <1>7, <1>8, <1>9, <1>10

(* What the end of a process does to its recordings, and only to them.     *)
LEMMA GoneEffect ==
    ASSUME TypeOK, NEW h \in Hosts, Gone(h)
    PROVE  /\ \A g \in Hosts : host'[g] = IF g = h THEN "gone" ELSE host[g]
           /\ \A r \in Recs : owner[r] = h => phase'[r] = "stopped" /\ job'[r] = "idle"
           /\ \A r \in Recs : owner[r] # h => phase'[r] = phase[r] /\ job'[r] = job[r]
           /\ job'[Sweep] = job[Sweep]
           /\ \A r \in Recs, s \in Stages :
                 <<r, s>> \in orphans' <=> <<r, s>> \in orphans \/ (owner[r] = h /\ job[r] = s)
           /\ UNCHANGED <<owner, taken, files, sweep, failed, shared>>
  BY DEF Gone, TypeOK, Workers

(* Every step keeps LifeInv.                                               *)
LEMMA LifeStep ==
    ASSUME TypeOK, LifeInv, [Next]_vars
    PROVE  LifeInv'
  <1> USE DEF LifeInv
  <1>1. ASSUME NEW h \in Hosts, HostStep(h) \/ HostExits(h) \/ HostDies(h)
        PROVE  LifeInv'
    <2>1. CASE Launch(h)
      BY <2>1, OwnerType DEF Launch, TypeOK, files, faults, Alive
    <2>2. ASSUME NEW r \in Recs, StartFiles(h, r) PROVE LifeInv'
      BY <2>2, OwnerType DEF StartFiles, TypeOK, faults, Alive
    <2>3. CASE HostCloses(h)
      <3>1. \A r \in Recs : phase[r] \in {"created", "capture"} /\ owner[r] = h =>
                                phase'[r] = "stopped" /\ phase[r] = "capture"
        BY <2>3 DEF HostCloses, Recording, TypeOK
      <3>2. \A r \in Recs : \/ phase'[r] = phase[r] /\ job'[r] = job[r]
                            \/ phase'[r] = "stopped" /\ owner[r] = h /\ phase[r] # "none"
        BY <2>3 DEF HostCloses, Recording, TypeOK, Workers
      <3>3. job'[Sweep] = job[Sweep]
        BY <2>3 DEF HostCloses, Recording, TypeOK, Workers
      <3>4. \A g \in Hosts : host'[g] = IF g = h THEN "linger" ELSE host[g]
        BY <2>3 DEF HostCloses, TypeOK
      <3>5. UNCHANGED <<owner, taken, raw, meta, sweep, orphans>>
        BY <2>3 DEF HostCloses, files
      <3>6. \A r \in Recs : phase[r] # "none" => owner[r] \in Hosts
        BY OwnerType
      <3>7. sweep.rec \in Recs => phase'[sweep.rec] # "none"
        BY <3>2
      <3> QED
        BY <3>1, <3>2, <3>3, <3>4, <3>5, <3>6, <3>7 DEF TypeOK, Alive
    <2>4. CASE HostExits(h) \/ HostDies(h)
      <3>1. Gone(h)
        BY <2>4 DEF HostExits, HostDies
      <3>2. \A r \in Recs : phase[r] # "none" => owner[r] \in Hosts
        BY OwnerType
      <3>3. \A r \in Recs : owner[r] = h => phase[r] # "none"
        BY DEF TypeOK
      <3> QED
        BY <3>1, <3>2, <3>3, GoneEffect DEF Alive, files
    <2> QED
      BY <1>1, <2>1, <2>2, <2>3, <2>4 DEF HostStep
  <1>2. ASSUME NEW r \in Recs, RecorderStep(r) \/ TmpAges(r)
        PROVE  LifeInv'
    <2>1. CASE StartSidecar(r)
      BY <2>1 DEF StartSidecar, TypeOK, Alive
    <2>2. CASE Capture(r)
      BY <2>2 DEF Capture, TypeOK, files, faults, Alive
    <2>3. CASE StopRecording(r)
      BY <2>3 DEF StopRecording, TypeOK, files, faults, Alive, Workers
    <2>4. CASE TmpAges(r)
      BY <2>4 DEF TmpAges, hostly, faults, Alive
    <2> QED
      BY <1>2, <2>1, <2>2, <2>3, <2>4 DEF RecorderStep
  <1>3. CASE \E r \in Recs, s \in Stages : OrphanEnds(r, s)
    BY <1>3 DEF OrphanEnds, hostly, Alive
  <1>4. ASSUME NEW w \in Workers, EncodeStep(w) PROVE LifeInv'
    BY <1>4, EncodeEffect DEF hostly, Alive, Workers
  <1>5. CASE \E x \in Hosts \cup {App} : RunHook(x)
    BY <1>5 DEF RunHook, NoSweep, hostly, files, faults, Alive
  <1>6. ASSUME NEW r \in Recs, SweepSkips(r) \/ SweepClears(r) \/ SweepRecovers(r)
        PROVE  LifeInv'
    <2>1. CASE SweepSkips(r)
      BY <2>1 DEF SweepSkips, Seen, TypeOK, hostly, files, faults, Alive
    <2>2. CASE SweepClears(r)
      BY <2>2 DEF SweepClears, Seen, TypeOK, hostly, Alive
    <2>3. CASE SweepRecovers(r)
      BY <2>3 DEF SweepRecovers, Moves, Visits, TypeOK, hostly, files, Alive, Workers
    <2> QED
      BY <1>6, <2>1, <2>2, <2>3
  <1>7. CASE SweepEnds
    BY <1>7 DEF SweepEnds, NoSweep, hostly, files, faults, Alive
  <1>8. CASE AppDies
    BY <1>8 DEF AppDies, NoSweep, Moves, TypeOK, hostly, files, Alive, Workers
  <1>9. CASE AppStarts \/ UNCHANGED vars
    BY <1>9 DEF AppStarts, vars, hostly, files, faults, Alive
  <1> QED
    BY <1>1, <1>2, <1>3, <1>4, <1>5, <1>6, <1>7, <1>8, <1>9 DEF Next, SweepStep

(* LifeInv holds at the start.                                             *)
LEMMA LifeInit == Init => LifeInv
  BY DEF Init, LifeInv, NoSweep, Workers

-----------------------------------------------------------------------------
(* Frames come after the side-car, and a worker deletes the side-car after *)
(* the raw file.                                                           *)
FootageInv ==
    /\ \A r \in raw \ failed : phase[r] = "capture" \/ taken[r] > 0 => r \in meta
    /\ \A w \in Workers : job[w] \in {"delMeta", "delTmp"} => Target(w) \notin raw

(* A step of an encode keeps FootageInv.                                   *)
LEMMA FootageEncode ==
    ASSUME TypeOK, LifeInv, FootageInv, NEW w \in Workers, EncodeStep(w)
    PROVE  FootageInv'
  <1>1. /\ Target(w) \in Recs
        /\ \A v \in Workers \ {w} : job'[v] = job[v]
        /\ UNCHANGED <<phase, taken>>
        /\ raw' \subseteq raw /\ failed \subseteq failed'
        /\ \A r \in Recs \ {Target(w)} : r \in meta' <=> r \in meta
    BY EncodeEffect DEF hostly
  <1>2. \A v \in Workers : job'[v] # "idle" => Target(v)' = Target(v)
    <2>1. \/ sweep' = sweep
          \/ w = Sweep /\ job'[w] = "idle"
      BY EncodeEffect
    <2> QED
      BY <2>1 DEF Target
  <1>3. Target(w) \in raw' => meta' = meta
    BY DEF EncodeStep, EncodeStart, FfmpegFails, EncodeVideo, Publish, Mux, DeleteRaw,
           DeleteMeta, DeleteTmp, files, FootageInv
  <1>4. job'[w] \in {"delMeta", "delTmp"} => Target(w) \notin raw'
    BY <1>1 DEF EncodeStep, EncodeStart, FfmpegFails, EncodeVideo, Publish, Mux, DeleteRaw,
           DeleteMeta, DeleteTmp, files, FootageInv, Moves, TypeOK, Stages
  <1>5. \A r \in raw' : r \in meta' <=> r \in meta
    BY <1>1, <1>3 DEF TypeOK
  <1>6. \A v \in Workers : job'[v] \in {"delMeta", "delTmp"} => Target(v)' \notin raw'
    <2> SUFFICES ASSUME NEW v \in Workers, job'[v] \in {"delMeta", "delTmp"}
                 PROVE  Target(v) \notin raw'
      BY <1>2
    <2> QED
      BY <1>1, <1>4 DEF FootageInv
  <1> QED
    BY <1>1, <1>5, <1>6 DEF FootageInv

(* Every step keeps FootageInv.                                            *)
LEMMA FootageStep ==
    ASSUME TypeOK, LifeInv, FootageInv, [Next]_vars
    PROVE  FootageInv'
  <1> USE DEF FootageInv, Target
  <1>1. ASSUME NEW h \in Hosts, HostStep(h) \/ HostExits(h) \/ HostDies(h)
        PROVE  FootageInv'
    <2>1. CASE Launch(h)
      BY <2>1 DEF Launch, files, faults
    <2>2. ASSUME NEW r \in Recs, StartFiles(h, r) PROVE FootageInv'
      <3>1. \A w \in Workers : job[w] # "idle" => Target(w) # r
        BY <2>2 DEF StartFiles, LifeInv, Workers, TypeOK
      <3>2. taken[r] = 0 /\ phase'[r] = "created" /\ (\A q \in Recs \ {r} : phase'[q] = phase[q])
        BY <2>2 DEF StartFiles, LifeInv, TypeOK
      <3>3. raw' = raw \cup {r} /\ UNCHANGED <<taken, meta, failed, job, sweep>>
        BY <2>2 DEF StartFiles, faults
      <3> QED
        BY <3>1, <3>2, <3>3 DEF TypeOK
    <2>3. CASE HostCloses(h)
      BY <2>3 DEF HostCloses, Recording, TypeOK, files, faults, Workers
    <2>4. CASE HostExits(h) \/ HostDies(h)
      <3>1. Gone(h)
        BY <2>4 DEF HostExits, HostDies
      <3>2. \A w \in Workers : job'[w] = job[w] \/ job'[w] = "idle"
        BY <3>1, GoneEffect DEF Workers
      <3>3. \A r \in Recs : phase'[r] = phase[r] \/ phase'[r] = "stopped"
        BY <3>1, GoneEffect
      <3>4. UNCHANGED <<taken, files, sweep, failed>>
        BY <3>1, GoneEffect
      <3> QED
        BY <3>2, <3>3, <3>4 DEF files, TypeOK
    <2> QED
      BY <1>1, <2>1, <2>2, <2>3, <2>4 DEF HostStep
  <1>2. ASSUME NEW r \in Recs, RecorderStep(r) \/ TmpAges(r)
        PROVE  FootageInv'
    <2>1. CASE StartSidecar(r)
      BY <2>1 DEF StartSidecar, TypeOK, LifeInv
    <2>2. CASE Capture(r)
      BY <2>2 DEF Capture, TypeOK, files, faults
    <2>3. CASE StopRecording(r)
      BY <2>3 DEF StopRecording, TypeOK, files, faults, Workers
    <2>4. CASE TmpAges(r)
      BY <2>4 DEF TmpAges, hostly, faults
    <2> QED
      BY <1>2, <2>1, <2>2, <2>3, <2>4 DEF RecorderStep
  <1>3. CASE \E r \in Recs, s \in Stages : OrphanEnds(r, s)
    BY <1>3 DEF OrphanEnds, hostly, faults
  <1>4. ASSUME NEW w \in Workers, EncodeStep(w) PROVE FootageInv'
    BY <1>4, FootageEncode
  <1>5. CASE \E x \in Hosts \cup {App} : RunHook(x)
    BY <1>5 DEF RunHook, NoSweep, hostly, files, faults, TypeOK
  <1>6. ASSUME NEW r \in Recs, SweepSkips(r) \/ SweepClears(r) \/ SweepRecovers(r)
        PROVE  FootageInv'
    <2>1. CASE SweepSkips(r)
      BY <2>1 DEF SweepSkips, Visits, Seen, TypeOK, hostly, files, faults
    <2>2. CASE SweepClears(r)
      BY <2>2 DEF SweepClears, Visits, Seen, TypeOK, hostly, LifeInv
    <2>3. CASE SweepRecovers(r)
      BY <2>3 DEF SweepRecovers, Moves, Visits, TypeOK, hostly, files, Workers
    <2> QED
      BY <1>6, <2>1, <2>2, <2>3
  <1>7. CASE SweepEnds
    BY <1>7 DEF SweepEnds, NoSweep, hostly, files, faults, TypeOK
  <1>8. CASE AppDies
    BY <1>8 DEF AppDies, NoSweep, Moves, TypeOK, hostly, files, Workers
  <1>9. CASE AppStarts \/ UNCHANGED vars
    BY <1>9 DEF AppStarts, vars, hostly, files, faults
  <1> QED
    BY <1>1, <1>2, <1>3, <1>4, <1>5, <1>6, <1>7, <1>8, <1>9 DEF Next, SweepStep

(* Whatever dies when, raw footage has its side-car (FootageIsFound).      *)
THEOREM FootageStaysFound == Spec => []FootageIsFound
  <1>1. Init => LifeInv /\ FootageInv
    BY LifeInit DEF Init, FootageInv, Workers
  <1>2. TypeOK /\ LifeInv /\ FootageInv /\ [Next]_vars => (LifeInv /\ FootageInv)'
    BY LifeStep, FootageStep
  <1>3. FootageInv => FootageIsFound
    BY DEF FootageInv, FootageIsFound
  <1> QED
    BY <1>1, <1>2, <1>3, FilesTypeCorrect, PTL DEF Spec

-----------------------------------------------------------------------------
(* One ffmpeg at a time works on a recording that is not shared.           *)
AloneInv ==
    \A r \in Recs \ shared :
        /\ sweep.rec = r => ~Busy(r)
        /\ \A s \in Stages : <<r, s>> \in orphans => ~Alive(owner[r])
        /\ \A s, t \in Stages : <<r, s>> \in orphans /\ <<r, t>> \in orphans => s = t

(* Every step keeps AloneInv.                                              *)
LEMMA AloneStep ==
    ASSUME TypeOK, LifeInv, AloneInv, [Next]_vars
    PROVE  AloneInv'
  <1> USE DEF AloneInv, Busy, Alive
  <1>1. ASSUME NEW h \in Hosts, HostStep(h) \/ HostExits(h) \/ HostDies(h)
        PROVE  AloneInv'
    <2>1. CASE Launch(h)
      BY <2>1, OwnerType DEF Launch, files, faults, TypeOK, LifeInv
    <2>2. ASSUME NEW r \in Recs, StartFiles(h, r) PROVE AloneInv'
      <3>1. sweep.rec # r /\ \A s \in Stages : <<r, s>> \notin orphans
        BY <2>2 DEF StartFiles, LifeInv
      <3>2. \A q \in Recs \ {r} : owner'[q] = owner[q]
        BY <2>2 DEF StartFiles, TypeOK
      <3>3. UNCHANGED <<host, orphans, sweep, shared>>
        BY <2>2 DEF StartFiles, faults
      <3> QED
        BY <3>1, <3>2, <3>3
    <2>3. CASE HostCloses(h)
      <3>1. \A g : host'[g] \in {"playing", "linger"} => host[g] \in {"playing", "linger"}
        BY <2>3 DEF HostCloses, TypeOK
      <3>2. UNCHANGED <<owner, orphans, sweep, shared>>
        BY <2>3 DEF HostCloses, faults
      <3> QED
        BY <3>1, <3>2
    <2>4. CASE HostExits(h) \/ HostDies(h)
      <3>1. Gone(h) /\ host[h] \in {"playing", "linger"}
        BY <2>4 DEF HostExits, HostDies
      <3>2. \A r \in Recs : phase[r] # "none" => owner[r] \in Hosts
        BY OwnerType
      <3>3. \A r \in Recs, s \in Stages : <<r, s>> \in orphans => owner[r] \in Hosts
        BY <3>2 DEF LifeInv
      <3>4. sweep.rec \in Recs => owner[sweep.rec] \in Hosts
        BY <3>2 DEF LifeInv
      <3> QED
        BY <3>1, <3>3, <3>4, GoneEffect
    <2> QED
      BY <1>1, <2>1, <2>2, <2>3, <2>4 DEF HostStep
  <1>2. ASSUME NEW r \in Recs, RecorderStep(r) \/ TmpAges(r)
        PROVE  AloneInv'
    BY <1>2 DEF RecorderStep, StartSidecar, Capture, StopRecording, TmpAges, hostly, faults
  <1>3. CASE \E r \in Recs, s \in Stages : OrphanEnds(r, s)
    BY <1>3 DEF OrphanEnds, hostly, faults
  <1>4. ASSUME NEW w \in Workers, EncodeStep(w) PROVE AloneInv'
    <2>1. UNCHANGED <<host, owner, orphans, shared>>
      BY <1>4, EncodeEffect DEF hostly
    <2>2. \A r \in Recs : sweep'.rec = r => sweep.rec = r
      BY <1>4, EncodeEffect
    <2> QED
      BY <2>1, <2>2
  <1>5. CASE \E x \in Hosts \cup {App} : RunHook(x)
    BY <1>5 DEF RunHook, NoSweep, hostly, files, faults, TypeOK
  <1>6. ASSUME NEW r \in Recs, SweepSkips(r) \/ SweepClears(r) \/ SweepRecovers(r)
        PROVE  AloneInv'
    <2>1. CASE SweepSkips(r)
      BY <2>1 DEF SweepSkips, Seen, TypeOK, hostly, faults
    <2>2. CASE SweepClears(r)
      BY <2>2 DEF SweepClears, Seen, TypeOK, hostly
    <2>3. CASE SweepRecovers(r)
      BY <2>3 DEF SweepRecovers, TypeOK, hostly
    <2> QED
      BY <1>6, <2>1, <2>2, <2>3
  <1>7. CASE SweepEnds
    BY <1>7 DEF SweepEnds, NoSweep, hostly, faults, TypeOK
  <1>8. CASE AppDies
    <2>1. sweep'.rec = NoRec /\ UNCHANGED <<hostly, shared>>
      BY <1>8 DEF AppDies, NoSweep
    <2>2. \A r \in Recs, s \in Stages :
             <<r, s>> \in orphans' => <<r, s>> \in orphans \/ (sweep.rec = r /\ job[Sweep] = s)
      BY <1>8 DEF AppDies
    <2> QED
      BY <2>1, <2>2 DEF hostly
  <1>9. CASE AppStarts \/ UNCHANGED vars
    BY <1>9 DEF AppStarts, vars, hostly, files, faults
  <1> QED
    BY <1>1, <1>2, <1>3, <1>4, <1>5, <1>6, <1>7, <1>8, <1>9 DEF Next, SweepStep

(* A worker busy on such a recording is the only one, and no orphan is.    *)
LEMMA AloneMeans ==
    ASSUME TypeOK, LifeInv, AloneInv, NEW w \in Workers, job[w] # "idle", Target(w) \notin shared
    PROVE  /\ \A v \in Workers \ {w} : job[v] # "idle" => Target(v) # Target(w)
           /\ \A s \in Stages : <<Target(w), s>> \notin orphans
           /\ phase[Target(w)] = "stopped"
  <1>1. CASE w = Sweep
    <2>1. sweep.rec \in Recs /\ ~Busy(sweep.rec) /\ phase[sweep.rec] # "none"
      BY <1>1 DEF TypeOK, LifeInv, AloneInv, Target
    <2>2. owner[sweep.rec] \in Hosts
      BY <2>1, OwnerType
    <2> QED
      BY <1>1, <2>1, <2>2 DEF TypeOK, LifeInv, Target, Busy, Alive, Workers
  <1>2. CASE w # Sweep
    BY <1>2 DEF TypeOK, LifeInv, AloneInv, Target, Busy, Workers
  <1> QED
    BY <1>1, <1>2

-----------------------------------------------------------------------------
(* A stopped recording gets no more frames.                                *)
LEMMA StoppedStays ==
    ASSUME TypeOK, LifeInv, [Next]_vars, NEW r \in Recs, phase[r] = "stopped"
    PROVE  phase'[r] = "stopped" /\ taken'[r] = taken[r]
  <1>1. ASSUME NEW h \in Hosts, HostStep(h) \/ HostExits(h) \/ HostDies(h)
        PROVE  phase'[r] = "stopped" /\ taken'[r] = taken[r]
    BY <1>1 DEF HostStep, Launch, StartFiles, HostCloses, Recording, HostExits, HostDies, Gone, TypeOK
  <1>2. ASSUME NEW q \in Recs, RecorderStep(q) \/ TmpAges(q)
        PROVE  phase'[r] = "stopped" /\ taken'[r] = taken[r]
    BY <1>2 DEF RecorderStep, StartSidecar, Capture, StopRecording, TmpAges, TypeOK, hostly
  <1>3. CASE UNCHANGED <<phase, taken>>
    BY <1>3
  <1>4. ASSUME NEW w \in Workers, EncodeStep(w) PROVE UNCHANGED <<phase, taken>>
    BY <1>4, EncodeEffect DEF hostly
  <1> QED
    BY <1>1, <1>2, <1>3, <1>4
       DEF Next, OrphanEnds, RunHook, SweepStep, SweepEnds, SweepSkips, SweepClears, SweepRecovers,
           AppDies, AppStarts, vars, hostly

(* What is complete is the whole recording, and is complete when it is     *)
(* published.                                                              *)
SavedRec(r) ==
    /\ tmp[r].file.st = "full" => tmp[r].file = Full(taken[r]) /\ phase[r] = "stopped"
    /\ out[r].st = "full" => out[r] = Full(taken[r]) /\ phase[r] = "stopped"
    /\ \A w \in Workers : job[w] \in {"ready", "mux"} /\ Target(w) = r => tmp[r].file.st = "full"
    /\ <<r, "mux">> \in orphans => tmp[r].file.st = "full"

SavedInv == \A r \in Recs \ shared : SavedRec(r)

(* A step that writes no file and completes no encode.                     *)
LEMMA SavedQuiet ==
    ASSUME TypeOK, LifeInv, SavedInv, [Next]_vars, UNCHANGED <<tmp, out>>, shared \subseteq shared',
           \A w \in Workers : job'[w] \in {"ready", "mux"} => job[w] = job'[w] /\ Target(w)' = Target(w),
           \A r \in Recs : <<r, "mux">> \in orphans' =>
               \/ <<r, "mux">> \in orphans
               \/ \E w \in Workers : job[w] = "mux" /\ Target(w) = r
    PROVE  SavedInv'
  <1> SUFFICES ASSUME NEW r \in Recs \ shared' PROVE SavedRec(r)'
    BY DEF SavedInv
  <1>1. phase[r] = "stopped" => phase'[r] = "stopped" /\ taken'[r] = taken[r]
    BY StoppedStays
  <1> QED
    BY <1>1 DEF SavedInv, SavedRec, Full

(* A step of an encode keeps SavedInv.                                     *)
LEMMA SavedEncode ==
    ASSUME TypeOK, LifeInv, AloneInv, SavedInv, NEW w \in Workers, EncodeStep(w)
    PROVE  SavedInv'
  <1> DEFINE q == Target(w)
  <1>1. /\ q \in Recs /\ job[w] # "idle"
        /\ \A v \in Workers \ {w} : job'[v] = job[v]
        /\ UNCHANGED <<phase, taken, orphans, shared>>
        /\ \A r \in Recs \ {q} : tmp'[r] = tmp[r] /\ out'[r] = out[r]
    BY EncodeEffect DEF hostly
  <1>2. \A v \in Workers : job'[v] # "idle" => Target(v)' = Target(v)
    <2>1. \/ sweep' = sweep
          \/ w = Sweep /\ job'[w] = "idle"
      BY EncodeEffect
    <2> QED
      BY <2>1 DEF Target
  <1> SUFFICES ASSUME NEW r \in Recs \ shared PROVE SavedRec(r)'
    BY <1>1 DEF SavedInv
  <1>3. CASE r # q
    BY <1>1, <1>2, <1>3 DEF SavedInv, SavedRec, Full
  <1>4. CASE r = q
    <2>1. /\ \A v \in Workers \ {w} : job[v] # "idle" => Target(v) # r
          /\ <<r, "mux">> \notin orphans
          /\ phase[r] = "stopped"
      BY <1>1, <1>4, AloneMeans DEF Stages
    <2>2. /\ tmp[r].file.st = "full" => tmp[r].file = Full(taken[r])
          /\ out[r].st = "full" => out[r] = Full(taken[r])
          /\ job[w] \in {"ready", "mux"} => tmp[r].file.st = "full"
      BY <1>4 DEF SavedInv, SavedRec
    <2>3. tmp \in [Recs -> TmpStates] /\ out \in [Recs -> FileStates]
      BY DEF TypeOK, TmpStates
    <2>4. Full(taken[r]).st = "full" /\ Full(taken[r]).n = taken[r] /\ NoTmp.file.st = "none"
          /\ Partial.st = "part"
      BY DEF Full, NoTmp, NoFile, Partial
    <2>5. /\ tmp'[r].file.st = "full" => tmp'[r].file = Full(taken[r])
          /\ out'[r].st = "full" => out'[r] = Full(taken[r])
          /\ job'[w] \in {"ready", "mux"} => tmp'[r].file.st = "full"
      <3>a. \A to : Moves(w, to) => job'[w] = to
        BY DEF Moves, TypeOK
      <3>1. CASE EncodeStart(w)
        BY <1>4, <2>2, <2>3, <2>4, <3>a, <3>1 DEF EncodeStart
      <3>2. CASE FfmpegFails(w)
        BY <1>4, <2>2, <2>3, <2>4, <3>a, <3>2 DEF FfmpegFails, files
      <3>3. CASE EncodeVideo(w)
        BY <1>4, <2>2, <2>3, <2>4, <3>a, <3>3 DEF EncodeVideo
      <3>4. CASE Publish(w)
        BY <1>4, <2>2, <2>3, <2>4, <3>a, <3>4 DEF Publish
      <3>5. CASE Mux(w)
        BY <1>4, <2>2, <2>3, <2>4, <3>a, <3>5 DEF Mux
      <3>6. CASE DeleteRaw(w) \/ DeleteMeta(w) \/ DeleteTmp(w)
        BY <1>4, <2>2, <2>3, <2>4, <3>a, <3>6 DEF DeleteRaw, DeleteMeta, DeleteTmp
      <3> QED
        BY <3>1, <3>2, <3>3, <3>4, <3>5, <3>6 DEF EncodeStep
    <2> QED
      BY <1>1, <1>2, <2>1, <2>5 DEF SavedRec, Full
  <1> QED
    BY <1>3, <1>4

(* An orphan writes for a recording nobody else works on.                  *)
LEMMA OrphanAlone ==
    ASSUME TypeOK, LifeInv, AloneInv, NEW r \in Recs \ shared, NEW s \in Stages, <<r, s>> \in orphans
    PROVE  /\ \A w \in Workers : job[w] # "idle" => Target(w) # r
           /\ \A t \in Stages \ {s} : <<r, t>> \notin orphans
           /\ phase[r] = "stopped"
  <1>1. owner[r] \in Hosts /\ ~Alive(owner[r])
    BY OwnerType DEF LifeInv, AloneInv
  <1>2. \A w \in Workers : job[w] # "idle" => Target(w) # r
    <2>1. job[r] = "idle"
      BY <1>1 DEF LifeInv
    <2>2. sweep.rec # r
      BY DEF AloneInv, Busy
    <2> QED
      BY <2>1, <2>2 DEF Target, Workers
  <1>3. \A t \in Stages \ {s} : <<r, t>> \notin orphans
    BY DEF AloneInv
  <1>4. phase[r] = "stopped"
    BY <1>1 DEF LifeInv, TypeOK, Alive
  <1> QED
    BY <1>2, <1>3, <1>4

(* An orphan's end keeps SavedInv.                                         *)
LEMMA SavedOrphan ==
    ASSUME TypeOK, LifeInv, AloneInv, SavedInv, NEW q \in Recs, NEW s \in Stages, OrphanEnds(q, s)
    PROVE  SavedInv'
  <1>1. /\ <<q, s>> \in orphans /\ orphans' \subseteq orphans /\ <<q, s>> \notin orphans'
        /\ UNCHANGED <<phase, taken, job, sweep, shared>>
    BY DEF OrphanEnds, hostly, faults
  <1>2. \A r \in Recs \ {q} : tmp'[r] = tmp[r] /\ out'[r] = out[r]
    BY DEF OrphanEnds, TypeOK
  <1> SUFFICES ASSUME NEW r \in Recs \ shared PROVE SavedRec(r)'
    BY <1>1 DEF SavedInv
  <1>3. CASE r # q
    BY <1>1, <1>2, <1>3 DEF SavedInv, SavedRec, Full, Target
  <1>4. CASE r = q
    <2>1. /\ \A w \in Workers : job[w] # "idle" => Target(w) # r
          /\ <<r, "mux">> \notin orphans'
          /\ phase[r] = "stopped"
      BY <1>1, <1>4, OrphanAlone DEF Stages
    <2>2. /\ tmp[r].file.st = "full" => tmp[r].file = Full(taken[r])
          /\ out[r].st = "full" => out[r] = Full(taken[r])
          /\ s = "mux" => tmp[r].file.st = "full"
      BY <1>1, <1>4 DEF SavedInv, SavedRec
    <2>3. tmp \in [Recs -> TmpStates] /\ out \in [Recs -> FileStates]
      BY DEF TypeOK, TmpStates
    <2>4. Full(taken[r]).n = taken[r]
      BY DEF Full
    <2>5. /\ tmp'[r].file.st = "full" => tmp'[r].file = Full(taken[r])
          /\ out'[r].st = "full" => out'[r] = Full(taken[r])
      BY <1>4, <2>2, <2>3, <2>4 DEF OrphanEnds
    <2> QED
      BY <1>1, <2>1, <2>5 DEF SavedRec, Full, Target
  <1> QED
    BY <1>3, <1>4

(* Every step keeps SavedInv.                                              *)
LEMMA SavedStep ==
    ASSUME TypeOK, LifeInv, AloneInv, SavedInv, [Next]_vars
    PROVE  SavedInv'
  <1> USE DEF Target, files, faults
  <1>1. ASSUME NEW h \in Hosts, HostStep(h) \/ HostExits(h) \/ HostDies(h)
        PROVE  SavedInv'
    <2>1. CASE Launch(h) \/ \E r \in Recs : StartFiles(h, r)
      BY <2>1, SavedQuiet DEF Launch, StartFiles
    <2>2. CASE HostCloses(h)
      <3>1. \A w \in Workers : job'[w] \in {job[w], "start"}
        BY <2>2 DEF HostCloses, TypeOK
      <3> QED
        BY <2>2, <3>1, SavedQuiet DEF HostCloses
    <2>3. CASE HostExits(h) \/ HostDies(h)
      <3>1. Gone(h)
        BY <2>3 DEF HostExits, HostDies
      <3>2. \A w \in Workers : job'[w] \in {job[w], "idle"}
        BY <3>1, GoneEffect DEF Workers
      <3>3. \A r \in Recs : <<r, "mux">> \in orphans' => <<r, "mux">> \in orphans \/ job[r] = "mux"
        BY <3>1, GoneEffect DEF Stages
      <3>4. \A r \in Recs : r \in Workers /\ Target(r) = r
        BY DEF Workers
      <3>5. UNCHANGED <<tmp, out, sweep, shared>>
        BY <3>1, GoneEffect
      <3> QED
        BY <3>2, <3>3, <3>4, <3>5, SavedQuiet
    <2> QED
      BY <1>1, <2>1, <2>2, <2>3 DEF HostStep
  <1>2. ASSUME NEW r \in Recs, RecorderStep(r) \/ TmpAges(r)
        PROVE  SavedInv'
    <2>1. CASE StartSidecar(r) \/ Capture(r)
      BY <2>1, SavedQuiet DEF StartSidecar, Capture
    <2>2. CASE StopRecording(r)
      <3>1. \A w \in Workers : job'[w] \in {job[w], "start"}
        BY <2>2 DEF StopRecording, TypeOK
      <3> QED
        BY <2>2, <3>1, SavedQuiet DEF StopRecording
    <2>3. CASE TmpAges(r)
      <3>1. \A q \in Recs : tmp'[q].file = tmp[q].file
        BY <2>3 DEF TmpAges, TypeOK
      <3>2. UNCHANGED <<phase, taken, out, job, sweep, orphans, shared>>
        BY <2>3 DEF TmpAges, hostly
      <3> QED
        BY <3>1, <3>2 DEF SavedInv, SavedRec, Full
    <2> QED
      BY <1>2, <2>1, <2>2, <2>3 DEF RecorderStep
  <1>3. ASSUME NEW r \in Recs, NEW s \in Stages, OrphanEnds(r, s) PROVE SavedInv'
    BY <1>3, SavedOrphan
  <1>4. ASSUME NEW w \in Workers, EncodeStep(w) PROVE SavedInv'
    BY <1>4, SavedEncode
  <1>5. CASE \E x \in Hosts \cup {App} : RunHook(x)
    <2>1. sweep' # sweep => ~sweep.on
      BY <1>5 DEF RunHook
    <2>2. job[Sweep] # "idle" => sweep.on
      BY DEF TypeOK
    <2> QED
      BY <1>5, <2>1, <2>2, SavedQuiet DEF RunHook
  <1>6. ASSUME NEW r \in Recs, SweepSkips(r) \/ SweepClears(r) \/ SweepRecovers(r)
        PROVE  SavedInv'
    <2>1. job[Sweep] = "idle"
      BY <1>6 DEF SweepSkips, SweepClears, SweepRecovers, Visits, TypeOK
    <2>2. \A w \in Workers : job'[w] \in {job[w], "start"}
      BY <1>6 DEF SweepSkips, SweepClears, SweepRecovers, Moves, TypeOK
    <2>3. /\ UNCHANGED <<tmp, out, orphans>> /\ shared \subseteq shared'
          /\ \A w \in Workers \ {Sweep} : job'[w] = job[w]
      BY <1>6 DEF SweepSkips, SweepClears, SweepRecovers, Moves, TypeOK
    <2> QED
      BY <2>1, <2>2, <2>3, SavedQuiet
  <1>7. CASE SweepEnds
    <2>1. job[Sweep] = "idle"
      BY <1>7 DEF SweepEnds, TypeOK
    <2> QED
      BY <1>7, <2>1, SavedQuiet DEF SweepEnds
  <1>8. CASE AppDies
    <2>1. \A w \in Workers : w # Sweep => job'[w] = job[w]
      BY <1>8 DEF AppDies, Moves, TypeOK
    <2>2. job'[Sweep] = "idle"
      BY <1>8 DEF AppDies, Moves, TypeOK, Workers
    <2>3. \A r \in Recs : <<r, "mux">> \in orphans' =>
             <<r, "mux">> \in orphans \/ (job[Sweep] = "mux" /\ Target(Sweep) = r)
      BY <1>8 DEF AppDies
    <2>4. Sweep \in Workers /\ UNCHANGED <<tmp, out, shared>>
      BY <1>8 DEF AppDies, Workers
    <2> QED
      BY <2>1, <2>2, <2>3, <2>4, SavedQuiet
  <1>9. CASE AppStarts \/ UNCHANGED vars
    BY <1>9, SavedQuiet DEF AppStarts, vars
  <1> QED
    BY <1>1, <1>2, <1>3, <1>4, <1>5, <1>6, <1>7, <1>8, <1>9 DEF Next, SweepStep

(* A finished output of a recording the sweep never took from a live       *)
(* process holds all its frames (SavedIsComplete).                         *)
THEOREM SavedStaysComplete == Spec => []SavedIsComplete
  <1>1. Init => LifeInv /\ AloneInv /\ SavedInv
    BY LifeInit DEF Init, AloneInv, SavedInv, SavedRec, NoTmp, NoFile, NoSweep, Workers
  <1>2. TypeOK /\ LifeInv /\ AloneInv /\ SavedInv /\ [Next]_vars => (LifeInv /\ AloneInv /\ SavedInv)'
    BY LifeStep, AloneStep, SavedStep
  <1>3. SavedInv => SavedIsComplete
    <2>1. \A n : Full(n).n = n
      BY DEF Full
    <2> QED
      BY <2>1 DEF SavedInv, SavedRec, SavedIsComplete
  <1> QED
    BY <1>1, <1>2, <1>3, FilesTypeCorrect, PTL DEF Spec

-----------------------------------------------------------------------------
(* The raw file and its side-car stay until the output is complete.        *)
Encoding == {"start", "video", "ready", "mux"}
Deleting == {"delRaw", "delMeta", "delTmp"}

Complete(r) == out[r] = Full(taken[r])

KeptRec(r) ==
    /\ phase[r] = "created" => r \in raw
    /\ phase[r] = "capture" => r \in raw \cap meta
    /\ \A w \in Workers : job[w] \in Encoding /\ Target(w) = r => r \in raw \cap meta
    /\ \A s \in Stages : <<r, s>> \in orphans => r \in raw \cap meta
    /\ \A w \in Workers : job[w] \in Deleting /\ Target(w) = r => Complete(r)
    /\ taken[r] > 0 => r \in raw \cap meta \/ Complete(r)

KeptInv == \A r \in Recs \ (failed \cup shared) : KeptRec(r)

(* A step of an encode keeps KeptInv.                                      *)
LEMMA KeptEncode ==
    ASSUME TypeOK, LifeInv, AloneInv, SavedInv, KeptInv, NEW w \in Workers, EncodeStep(w)
    PROVE  KeptInv'
  <1> DEFINE q == Target(w)
  <1>1. /\ q \in Recs /\ job[w] # "idle"
        /\ \A v \in Workers \ {w} : job'[v] = job[v]
        /\ UNCHANGED <<phase, taken, orphans, shared>> /\ failed \subseteq failed'
        /\ \A r \in Recs \ {q} :
              /\ r \in raw' <=> r \in raw
              /\ r \in meta' <=> r \in meta
              /\ out'[r] = out[r]
    BY EncodeEffect DEF hostly
  <1>2. \A v \in Workers : job'[v] # "idle" => Target(v)' = Target(v)
    <2>1. \/ sweep' = sweep
          \/ w = Sweep /\ job'[w] = "idle"
      BY EncodeEffect
    <2> QED
      BY <2>1 DEF Target
  <1> SUFFICES ASSUME NEW r \in Recs \ (failed' \cup shared) PROVE KeptRec(r)'
    BY <1>1 DEF KeptInv
  <1>3. KeptRec(r)
    BY <1>1 DEF KeptInv
  <1>n. "idle" \notin Encoding \cup Deleting
    BY DEF Encoding, Deleting
  <1>4. CASE r # q
    BY <1>1, <1>2, <1>3, <1>4, <1>n DEF KeptRec, Complete, Full
  <1>5. CASE r = q
    <2>1. /\ \A v \in Workers \ {w} : job[v] # "idle" => Target(v) # r
          /\ \A s \in Stages : <<r, s>> \notin orphans
          /\ phase[r] = "stopped"
      BY <1>1, <1>5, AloneMeans
    <2>2. job[w] \in Encoding => r \in raw \cap meta
      BY <1>3, <1>5 DEF KeptRec
    <2>3. job[w] \in Deleting => Complete(r)
      BY <1>3, <1>5 DEF KeptRec
    <2>4. job[w] \in {"ready", "mux"} => tmp[r].file = Full(taken[r])
      BY <1>1, <1>5 DEF SavedInv, SavedRec
    <2>5. taken[r] > 0 => r \in raw \cap meta \/ Complete(r)
      BY <1>3 DEF KeptRec
    <2>6. /\ job'[w] \in Encoding => r \in raw' \cap meta'
          /\ job'[w] \in Deleting => Complete(r)'
          /\ taken[r] > 0 => r \in raw' \cap meta' \/ Complete(r)'
      <3>a. \A to : Moves(w, to) => job'[w] = to
        BY DEF Moves, TypeOK
      <3>b. out \in [Recs -> FileStates] /\ taken' = taken
        BY <1>1 DEF TypeOK
      <3>c. Full(taken[r]).n = taken[r]
        BY DEF Full
      <3> USE DEF Encoding, Deleting, Complete
      <3>1. CASE EncodeStart(w)
        BY <1>5, <2>2, <3>a, <3>1 DEF EncodeStart
      <3>2. CASE FfmpegFails(w)
        BY <1>5, <3>2 DEF FfmpegFails
      <3>3. CASE EncodeVideo(w)
        BY <1>5, <2>2, <3>a, <3>3 DEF EncodeVideo
      <3>4. CASE Publish(w)
        <4>1. /\ r \in raw' \cap meta' /\ tmp[r].file = Full(taken[r])
          BY <2>2, <2>4, <3>4 DEF Publish
        <4>2. \/ job'[w] = "mux"
              \/ job'[w] = "delRaw" /\ out' = [out EXCEPT ![r] = tmp[r].file]
          BY <1>5, <3>a, <3>4 DEF Publish
        <4> QED
          BY <3>b, <4>1, <4>2 DEF Full
      <3>5. CASE Mux(w)
        <4>1. job'[w] = "delRaw" /\ out' = [out EXCEPT ![r] = Full(tmp[r].file.n)]
          BY <1>5, <3>a, <3>5 DEF Mux
        <4>2. tmp[r].file.n = taken[r]
          BY <2>4, <3>c, <3>5 DEF Mux
        <4> QED
          BY <3>b, <4>1, <4>2 DEF Full
      <3>6. CASE DeleteRaw(w) \/ DeleteMeta(w) \/ DeleteTmp(w)
        <4>1. job'[w] \notin Encoding /\ out' = out /\ job[w] \in Deleting
          BY <3>a, <3>6 DEF DeleteRaw, DeleteMeta, DeleteTmp
        <4> QED
          BY <2>3, <3>b, <4>1 DEF Full
      <3> QED
        BY <3>1, <3>2, <3>3, <3>4, <3>5, <3>6 DEF EncodeStep
    <2> QED
      BY <1>1, <1>2, <1>n, <2>1, <2>6 DEF KeptRec
  <1> QED
    BY <1>4, <1>5

(* A step that changes no recording's files, and starts encodes only where *)
(* raw file and side-car are in place.                                     *)
LEMMA KeptQuiet ==
    ASSUME KeptInv, UNCHANGED <<raw, meta, out, taken>>,
           failed \subseteq failed', shared \subseteq shared',
           \A r \in Recs : phase'[r] = phase[r] \/ phase'[r] = "stopped",
           \A w \in Workers : job'[w] # "idle" =>
               \/ job'[w] = job[w] /\ Target(w)' = Target(w)
               \/ job'[w] = "start" /\ (Target(w)' \in failed \cup shared' \/ Target(w)' \in raw \cap meta),
           \A r \in Recs, s \in Stages : <<r, s>> \in orphans' =>
               \/ <<r, s>> \in orphans
               \/ \E w \in Workers : job[w] = s /\ Target(w) = r
    PROVE  KeptInv'
  <1> SUFFICES ASSUME NEW r \in Recs \ (failed' \cup shared') PROVE KeptRec(r)'
    BY DEF KeptInv
  <1>1. KeptRec(r)
    BY DEF KeptInv
  <1>2. "idle" \notin Encoding \cup Deleting /\ "start" \notin Deleting /\ Stages \subseteq Encoding
    BY DEF Encoding, Deleting, Stages
  <1>3. \A w \in Workers : job'[w] \in Encoding /\ Target(w)' = r => r \in raw \cap meta
    BY <1>1, <1>2 DEF KeptRec
  <1>4. \A w \in Workers : job'[w] \in Deleting /\ Target(w)' = r => Complete(r)
    BY <1>1, <1>2 DEF KeptRec
  <1>5. \A s \in Stages : <<r, s>> \in orphans' => r \in raw \cap meta
    BY <1>1, <1>2 DEF KeptRec
  <1>6. Complete(r)' <=> Complete(r)
    BY DEF Complete, Full
  <1> QED
    BY <1>1, <1>3, <1>4, <1>5, <1>6 DEF KeptRec

(* A step of a host keeps KeptInv.                                         *)
LEMMA KeptHost ==
    ASSUME TypeOK, LifeInv, KeptInv, NEW h \in Hosts, HostStep(h) \/ HostExits(h) \/ HostDies(h)
    PROVE  KeptInv'
  <1> USE DEF files, faults
  <1>1. CASE Launch(h)
    BY <1>1, KeptQuiet DEF Launch, Target
  <1>2. ASSUME NEW q \in Recs, StartFiles(h, q) PROVE KeptInv'
    <2>1. /\ raw' = raw \cup {q} /\ phase[q] = "none" /\ phase'[q] = "created"
          /\ \A r \in Recs \ {q} : phase'[r] = phase[r]
          /\ UNCHANGED <<taken, meta, out, job, orphans, sweep, failed, shared>>
      BY <1>2 DEF StartFiles, TypeOK
    <2> SUFFICES ASSUME NEW r \in Recs \ (failed \cup shared) PROVE KeptRec(r)'
      BY <2>1 DEF KeptInv
    <2>2. KeptRec(r)
      BY DEF KeptInv
    <2>3. Complete(r)' <=> Complete(r)
      BY <2>1 DEF Complete, Full
    <2>4. CASE r = q
      <3>1. taken[r] = 0 /\ (\A w \in Workers : job[w] # "idle" => Target(w) # r)
            /\ (\A s \in Stages : <<r, s>> \notin orphans)
        BY <2>1, <2>4 DEF LifeInv, Target, Workers, TypeOK
      <3> QED
        BY <2>1, <2>4, <3>1 DEF KeptRec, Target, Encoding, Deleting
    <2>5. CASE r # q
      BY <2>1, <2>2, <2>3, <2>5 DEF KeptRec, Target
    <2> QED
      BY <2>4, <2>5
  <1>3. CASE HostCloses(h)
    <2>1. \A w \in Workers :
             \/ job'[w] = job[w]
             \/ w \in Recs /\ phase[w] = "capture" /\ job'[w] = "start"
      BY <1>3 DEF HostCloses, Recording, TypeOK
    <2>2. \A r \in Recs : phase[r] = "capture" => r \in failed \cup shared \/ r \in raw \cap meta
      BY DEF KeptInv, KeptRec
    <2>3. \A r \in Recs : phase'[r] = phase[r] \/ phase'[r] = "stopped"
      BY <1>3 DEF HostCloses
    <2>4. UNCHANGED <<raw, meta, out, taken, sweep, orphans, failed, shared>>
      BY <1>3 DEF HostCloses
    <2>5. \A w \in Workers : Target(w)' = Target(w) /\ (w \in Recs => Target(w) = w)
      BY <2>4 DEF Target
    <2> QED
      BY <2>1, <2>2, <2>3, <2>4, <2>5, KeptQuiet
  <1>4. CASE HostExits(h) \/ HostDies(h)
    <2>1. Gone(h)
      BY <1>4 DEF HostExits, HostDies
    <2>2. \A w \in Workers : job'[w] = job[w] \/ job'[w] = "idle"
      BY <2>1, GoneEffect DEF Workers
    <2>3. \A r \in Recs, s \in Stages : <<r, s>> \in orphans' =>
               <<r, s>> \in orphans \/ (r \in Workers /\ job[r] = s /\ Target(r) = r)
      BY <2>1, GoneEffect DEF Workers, Target
    <2>4. \A r \in Recs : phase'[r] = phase[r] \/ phase'[r] = "stopped"
      BY <2>1, GoneEffect
    <2>5. UNCHANGED <<raw, meta, out, taken, sweep, failed, shared>>
      BY <2>1, GoneEffect
    <2> QED
      BY <2>2, <2>3, <2>4, <2>5, KeptQuiet DEF Target
  <1> QED
    BY <1>1, <1>2, <1>3, <1>4 DEF HostStep

(* A step of a recorder keeps KeptInv.                                     *)
LEMMA KeptRecorder ==
    ASSUME TypeOK, LifeInv, AloneInv, KeptInv, NEW q \in Recs, RecorderStep(q) \/ TmpAges(q)
    PROVE  KeptInv'
  <1> USE DEF files, faults
  <1>1. CASE StartSidecar(q)
    <2>1. /\ phase[q] = "created" /\ phase'[q] = "capture"
          /\ \A r \in Recs \ {q} : phase'[r] = phase[r]
          /\ meta' = meta \cup {q} \/ (meta' = meta /\ q \in failed')
          /\ failed \subseteq failed'
          /\ UNCHANGED <<taken, raw, out, job, orphans, sweep, shared>>
      BY <1>1 DEF StartSidecar, TypeOK
    <2> SUFFICES ASSUME NEW r \in Recs \ (failed' \cup shared) PROVE KeptRec(r)'
      BY <2>1 DEF KeptInv
    <2>2. KeptRec(r)
      BY <2>1 DEF KeptInv
    <2>3. Complete(r)' <=> Complete(r)
      BY <2>1 DEF Complete, Full
    <2> QED
      BY <2>1, <2>2, <2>3 DEF KeptRec, Target
  <1>2. CASE Capture(q)
    <2>1. /\ phase[q] = "capture"
          /\ \A r \in Recs \ {q} : taken'[r] = taken[r]
          /\ UNCHANGED <<phase, raw, meta, out, job, orphans, sweep, failed, shared>>
      BY <1>2 DEF Capture, TypeOK
    <2> SUFFICES ASSUME NEW r \in Recs \ (failed \cup shared) PROVE KeptRec(r)'
      BY <2>1 DEF KeptInv
    <2>2. KeptRec(r)
      BY DEF KeptInv
    <2>3. CASE r = q
      <3>1. \A w \in Workers : job[w] \in Deleting /\ Target(w) = r => Complete(r)'
        <4>1. job[r] = "idle"
          BY <2>1, <2>3 DEF LifeInv
        <4>2. Alive(owner[r])
          BY <2>1, <2>3 DEF LifeInv, Alive
        <4>3. sweep.rec # r
          BY <4>2 DEF AloneInv, Busy
        <4> QED
          BY <4>1, <4>3 DEF Target, Workers, Deleting
      <3> QED
        BY <2>1, <2>2, <2>3, <3>1 DEF KeptRec, Target
    <2>4. CASE r # q
      <3>1. Complete(r)' <=> Complete(r)
        BY <2>1, <2>4 DEF Complete, Full
      <3> QED
        BY <2>1, <2>2, <2>4, <3>1 DEF KeptRec, Target
    <2> QED
      BY <2>3, <2>4
  <1>3. CASE StopRecording(q)
    <2>1. \A w \in Workers : job'[w] = job[w] \/ (w = q /\ job'[w] = "start")
      BY <1>3 DEF StopRecording, TypeOK
    <2>2. q \in failed \cup shared \/ q \in raw \cap meta
      BY <1>3 DEF StopRecording, KeptInv, KeptRec
    <2>3. \A r \in Recs : phase'[r] = phase[r] \/ phase'[r] = "stopped"
      BY <1>3 DEF StopRecording, TypeOK
    <2>4. UNCHANGED <<raw, meta, out, taken, sweep, orphans, failed, shared>>
      BY <1>3 DEF StopRecording
    <2>5. \A w \in Workers : Target(w)' = Target(w) /\ Target(q) = q
      BY <2>4 DEF Target
    <2> QED
      BY <2>1, <2>2, <2>3, <2>4, <2>5, KeptQuiet
  <1>4. CASE TmpAges(q)
    BY <1>4, KeptQuiet DEF TmpAges, hostly, Target
  <1> QED
    BY <1>1, <1>2, <1>3, <1>4 DEF RecorderStep

(* A step of the sweep keeps KeptInv.                                      *)
LEMMA KeptSweep ==
    ASSUME TypeOK, LifeInv, AloneInv, KeptInv, NEW q \in Recs,
           SweepSkips(q) \/ SweepClears(q) \/ SweepRecovers(q)
    PROVE  KeptInv'
  <1> USE DEF files, faults
  <1>a. job[Sweep] = "idle" /\ sweep.rec = NoRec
    BY DEF SweepSkips, SweepClears, SweepRecovers, Visits, TypeOK
  <1>1. CASE SweepSkips(q)
    BY <1>1, <1>a, KeptQuiet DEF SweepSkips, hostly, Target
  <1>2. CASE SweepClears(q)
    <2>1. /\ q \notin raw \/ taken[q] = 0
          /\ meta' = meta \ {q} /\ raw' = raw \ {q} /\ q \in meta
          /\ shared \subseteq shared' /\ (Busy(q) => q \in shared')
          /\ UNCHANGED <<phase, taken, out, job, orphans, failed>>
      BY <1>2 DEF SweepClears, Visits, hostly
    <2> SUFFICES ASSUME NEW r \in Recs \ (failed \cup shared') PROVE KeptRec(r)'
      BY <2>1 DEF KeptInv
    <2>2. KeptRec(r)
      BY <2>1 DEF KeptInv
    <2>3. Complete(r)' <=> Complete(r)
      BY <2>1 DEF Complete, Full
    <2>4. \A w \in Workers : job'[w] # "idle" => w \in Recs /\ Target(w)' = w /\ Target(w) = w
      BY <1>a, <2>1 DEF Target, Workers
    <2>n. "idle" \notin Encoding \cup Deleting
      BY DEF Encoding, Deleting
    <2>5. CASE r = q
      <3>1. ~Busy(r) /\ phase[r] # "none"
        BY <2>1, <2>5 DEF LifeInv
      <3>2. phase[r] = "stopped" /\ job[r] = "idle"
        BY <3>1, OwnerType DEF LifeInv, Busy, Alive, TypeOK
      <3>3. \A s \in Stages : <<r, s>> \notin orphans
        BY <3>1 DEF Busy
      <3> QED
        BY <2>1, <2>2, <2>3, <2>4, <2>5, <2>n, <3>2, <3>3 DEF KeptRec
    <2>6. CASE r # q
      BY <2>1, <2>2, <2>3, <2>4, <2>6, <2>n DEF KeptRec
    <2> QED
      BY <2>5, <2>6
  <1>3. CASE SweepRecovers(q)
    <2>1. /\ \A w \in Workers : job'[w] = job[w] \/ (w = Sweep /\ job'[w] = "start")
          /\ \A w \in Workers : w # Sweep => job'[w] = job[w]
          /\ job'[Sweep] = "start" /\ sweep'.rec = q /\ q \in raw \cap meta
          /\ shared \subseteq shared'
          /\ UNCHANGED <<phase, raw, meta, out, taken, orphans, failed>>
      BY <1>3 DEF SweepRecovers, Visits, Moves, TypeOK, hostly, Workers
    <2> QED
      BY <2>1, KeptQuiet DEF Target
  <1> QED
    BY <1>1, <1>2, <1>3

(* Every step keeps KeptInv.                                               *)
LEMMA KeptStep ==
    ASSUME TypeOK, LifeInv, AloneInv, SavedInv, KeptInv, [Next]_vars
    PROVE  KeptInv'
  <1> USE DEF files, faults
  <1>1. ASSUME NEW h \in Hosts, HostStep(h) \/ HostExits(h) \/ HostDies(h) PROVE KeptInv'
    BY <1>1, KeptHost
  <1>2. ASSUME NEW r \in Recs, RecorderStep(r) \/ TmpAges(r) PROVE KeptInv'
    BY <1>2, KeptRecorder
  <1>3. ASSUME NEW q \in Recs, NEW s \in Stages, OrphanEnds(q, s) PROVE KeptInv'
    <2>1. /\ <<q, s>> \in orphans /\ orphans' \subseteq orphans
          /\ UNCHANGED <<phase, taken, raw, meta, job, sweep, failed, shared>>
          /\ \A r \in Recs \ {q} : out'[r] = out[r]
      BY <1>3 DEF OrphanEnds, hostly, TypeOK
    <2> SUFFICES ASSUME NEW r \in Recs \ (failed \cup shared) PROVE KeptRec(r)'
      BY <2>1 DEF KeptInv
    <2>2. KeptRec(r)
      BY DEF KeptInv
    <2>3. CASE r = q
      <3>1. \A w \in Workers : job[w] # "idle" => Target(w) # r
        BY <2>1, <2>3, OrphanAlone
      <3>2. r \in raw \cap meta
        BY <2>1, <2>2, <2>3 DEF KeptRec
      <3> QED
        BY <2>1, <2>2, <3>1, <3>2 DEF KeptRec, Target, Encoding, Deleting
    <2>4. CASE r # q
      <3>1. Complete(r)' <=> Complete(r)
        BY <2>1, <2>4 DEF Complete, Full
      <3> QED
        BY <2>1, <2>2, <3>1 DEF KeptRec, Target
    <2> QED
      BY <2>3, <2>4
  <1>4. ASSUME NEW w \in Workers, EncodeStep(w) PROVE KeptInv'
    BY <1>4, KeptEncode
  <1>5. CASE \E x \in Hosts \cup {App} : RunHook(x)
    <2>1. sweep' # sweep => job[Sweep] = "idle"
      BY <1>5 DEF RunHook, TypeOK
    <2> QED
      BY <1>5, <2>1, KeptQuiet DEF RunHook, hostly, Target
  <1>6. ASSUME NEW r \in Recs, SweepSkips(r) \/ SweepClears(r) \/ SweepRecovers(r) PROVE KeptInv'
    BY <1>6, KeptSweep
  <1>7. CASE SweepEnds
    <2>1. job[Sweep] = "idle"
      BY <1>7 DEF SweepEnds, TypeOK
    <2> QED
      BY <1>7, <2>1, KeptQuiet DEF SweepEnds, hostly, Target
  <1>8. CASE AppDies
    <2>1. \A w \in Workers : (job'[w] = job[w] /\ w # Sweep) \/ job'[w] = "idle"
      BY <1>8 DEF AppDies, Moves, TypeOK
    <2>2. \A r \in Recs, s \in Stages : <<r, s>> \in orphans' =>
             <<r, s>> \in orphans \/ (job[Sweep] = s /\ Target(Sweep) = r)
      BY <1>8 DEF AppDies, Target
    <2>3. Sweep \in Workers /\ UNCHANGED <<phase, taken, raw, meta, out, failed, shared>>
      BY <1>8 DEF AppDies, hostly, Workers
    <2> QED
      BY <2>1, <2>2, <2>3, KeptQuiet DEF Target
  <1>9. CASE AppStarts \/ UNCHANGED vars
    BY <1>9, KeptQuiet DEF AppStarts, vars, hostly, Target
  <1> QED
    BY <1>1, <1>2, <1>3, <1>4, <1>5, <1>6, <1>7, <1>8, <1>9 DEF Next, SweepStep

(* No death at any step of capture, encode or sweep loses footage          *)
(* (KeptUnlessFailed).                                                     *)
THEOREM FootageKept == Spec => []KeptUnlessFailed
  <1>1. Init => LifeInv /\ AloneInv /\ SavedInv /\ KeptInv
    <2>1. Init => KeptInv
      BY DEF Init, KeptInv, KeptRec, Workers, Encoding, Deleting
    <2> QED
      BY <2>1, LifeInit DEF Init, AloneInv, SavedInv, SavedRec, NoTmp, NoFile, NoSweep, Workers
  <1>2. TypeOK /\ LifeInv /\ AloneInv /\ SavedInv /\ KeptInv /\ [Next]_vars
           => (LifeInv /\ AloneInv /\ SavedInv /\ KeptInv)'
    BY LifeStep, AloneStep, SavedStep, KeptStep
  <1>3. KeptInv => KeptUnlessFailed
    BY DEF KeptInv, KeptRec, Complete, KeptUnlessFailed
  <1> QED
    BY <1>1, <1>2, <1>3, FilesTypeCorrect, PTL DEF Spec

(* Both at once: footage is kept, and a sweep finds it (RecoverInterrupted). *)
THEOREM FootageStaysSafe == Spec => []FootageSafe
  BY FootageKept, FootageStaysFound, PTL DEF FootageSafe

-----------------------------------------------------------------------------
(* The safe part of WorkersEnd: what a worker has left of its recording.   *)
JobLeft(w) ==
    CASE job[w] = "start"   -> 7
      [] job[w] = "video"   -> 6
      [] job[w] = "ready"   -> 5
      [] job[w] = "mux"     -> 4
      [] job[w] = "delRaw"  -> 3
      [] job[w] = "delMeta" -> 2
      [] job[w] = "delTmp"  -> 1
      [] OTHER              -> 0

(* A job only goes back when a host's ffmpeg failed and is tried again.    *)
JobsAdvance ==
    [][\A w \in Workers : job[w] # "idle" =>
          \/ job'[w] = job[w]
          \/ JobLeft(w)' < JobLeft(w)
          \/ w # Sweep /\ job[w] = "video" /\ fails' = fails + 1]_vars

SweepLeft == IF sweep.rec = NoRec THEN 8 ELSE JobLeft(Sweep)

(* A sweep visits a recording once and goes on with the one in hand,       *)
(* whatever hosts record, die or ask for meanwhile.                        *)
SweepAdvances ==
    [][sweep.on =>
          \/ sweep' = sweep /\ job'[Sweep] = job[Sweep]
          \/ ~sweep'.on
          \/ sweep.seen \subseteq sweep'.seen /\ sweep'.seen # sweep.seen
          \/ sweep'.seen = sweep.seen /\ SweepLeft' < SweepLeft]_vars

(* The recording in the sweep's hand was not visited before.               *)
SweepFresh == sweep.rec \notin sweep.seen

LEMMA JobAdvance ==
    ASSUME TypeOK, NEW w \in Workers, EncodeStep(w)
    PROVE  \/ JobLeft(w)' < JobLeft(w)
           \/ w # Sweep /\ job[w] = "video" /\ fails' = fails + 1
  <1>1. ASSUME NEW to, Moves(w, to) PROVE job'[w] = to
    BY <1>1 DEF Moves, TypeOK
  <1>2. CASE EncodeStart(w)
    <2>1. job[w] = "start" /\ job'[w] \in {"video", "delRaw"}
      BY <1>1, <1>2 DEF EncodeStart
    <2> QED
      BY <2>1 DEF JobLeft
  <1>3. CASE FfmpegFails(w)
    <2>1. /\ job[w] \in {"video", "mux"} /\ fails' = fails + 1
          /\ job'[w] = "delRaw" \/ (job[w] = "video" /\ w # Sweep)
      BY <1>1, <1>3 DEF FfmpegFails, Stages
    <2> QED
      BY <2>1 DEF JobLeft
  <1>4. CASE EncodeVideo(w)
    <2>1. job[w] = "video" /\ job'[w] = "ready"
      BY <1>1, <1>4 DEF EncodeVideo
    <2> QED
      BY <2>1 DEF JobLeft
  <1>5. CASE Publish(w)
    <2>1. job[w] = "ready" /\ job'[w] \in {"mux", "delRaw"}
      BY <1>1, <1>5 DEF Publish
    <2> QED
      BY <2>1 DEF JobLeft
  <1>6. CASE Mux(w)
    <2>1. job[w] = "mux" /\ job'[w] = "delRaw"
      BY <1>1, <1>6 DEF Mux
    <2> QED
      BY <2>1 DEF JobLeft
  <1>7. CASE DeleteRaw(w)
    <2>1. job[w] = "delRaw" /\ job'[w] = "delMeta"
      BY <1>1, <1>7 DEF DeleteRaw
    <2> QED
      BY <2>1 DEF JobLeft
  <1>8. CASE DeleteMeta(w)
    <2>1. job[w] = "delMeta" /\ job'[w] = "delTmp"
      BY <1>1, <1>8 DEF DeleteMeta
    <2> QED
      BY <2>1 DEF JobLeft
  <1>9. CASE DeleteTmp(w)
    <2>1. job[w] = "delTmp" /\ job'[w] = "idle"
      BY <1>1, <1>9 DEF DeleteTmp
    <2> QED
      BY <2>1 DEF JobLeft
  <1> QED
    BY <1>2, <1>3, <1>4, <1>5, <1>6, <1>7, <1>8, <1>9 DEF EncodeStep

(* Other steps leave a busy worker alone or end it with its process.       *)
LEMMA OthersLeaveJobs ==
    ASSUME TypeOK, LifeInv, [Next]_vars, \A w \in Workers : ~EncodeStep(w), NEW w \in Workers, job[w] # "idle"
    PROVE  job'[w] = job[w] \/ job'[w] = "idle"
  <1>w. \A r \in Recs : r \in Workers /\ r # Sweep
    BY DEF Workers
  <1>s. w = Sweep => sweep.rec \in Recs /\ sweep.rec # NoRec
    BY DEF TypeOK
  <1>1. ASSUME NEW h \in Hosts, HostStep(h) \/ HostExits(h) \/ HostDies(h)
        PROVE  job'[w] = job[w] \/ job'[w] = "idle"
    <2>1. CASE HostExits(h) \/ HostDies(h)
      BY <2>1, GoneEffect DEF HostExits, HostDies, Workers
    <2>2. CASE HostCloses(h)
      BY <2>2, <1>w DEF HostCloses, Recording, LifeInv, TypeOK
    <2>3. CASE Launch(h) \/ \E r \in Recs : StartFiles(h, r)
      BY <2>3 DEF Launch, StartFiles
    <2> QED
      BY <1>1, <2>1, <2>2, <2>3 DEF HostStep
  <1>2. ASSUME NEW r \in Recs, RecorderStep(r) \/ TmpAges(r)
        PROVE  job'[w] = job[w]
    <2>1. CASE StopRecording(r)
      <3>1. r # w
        BY <2>1 DEF StopRecording, LifeInv
      <3> QED
        BY <2>1, <3>1 DEF StopRecording, TypeOK
    <2> QED
      BY <1>2, <2>1 DEF RecorderStep, StartSidecar, Capture, TmpAges
  <1>3. CASE \E r \in Recs, s \in Stages : OrphanEnds(r, s)
    BY <1>3 DEF OrphanEnds
  <1>4. CASE (\E x \in Hosts \cup {App} : RunHook(x)) \/ AppStarts \/ UNCHANGED vars
    BY <1>4 DEF RunHook, AppStarts, vars
  <1>5. CASE SweepStep
    <2>1. ASSUME NEW r \in Recs, SweepRecovers(r) PROVE job'[w] = job[w]
      <3>1. w # Sweep
        BY <1>s, <2>1 DEF SweepRecovers, Visits
      <3> QED
        BY <2>1, <3>1 DEF SweepRecovers, Moves, TypeOK
    <2> QED
      BY <1>5, <2>1 DEF SweepStep, SweepEnds, SweepSkips, SweepClears
  <1>6. CASE AppDies
    BY <1>6 DEF AppDies, Moves, TypeOK
  <1> QED
    BY <1>1, <1>2, <1>3, <1>4, <1>5, <1>6 DEF Next

(* A sweep's record of what it visited.                                    *)
LEMMA SeenEffect ==
    ASSUME TypeOK, NEW r \in Recs, sweep' = Seen(r)
    PROVE  sweep'.rec = NoRec /\ sweep'.seen = sweep.seen \cup {r} /\ sweep'.on = sweep.on
  BY DEF Seen, TypeOK

LEMMA SweepFreshStep == TypeOK /\ SweepFresh /\ [Next]_vars => SweepFresh'
  <1> SUFFICES ASSUME TypeOK, SweepFresh, [Next]_vars PROVE SweepFresh'
    OBVIOUS
  <1>0. NoRec \notin sweep.seen \cup Recs
    BY DEF TypeOK
  <1>1. CASE sweep' = sweep
    BY <1>1 DEF SweepFresh
  <1>2. ASSUME sweep'.rec = NoRec, sweep'.seen = {} PROVE SweepFresh'
    BY <1>2 DEF SweepFresh
  <1>3. ASSUME NEW r \in Recs, sweep' = Seen(r) PROVE SweepFresh'
    BY <1>0, <1>3, SeenEffect DEF SweepFresh
  <1>4. ASSUME NEW r \in Recs, SweepRecovers(r) PROVE SweepFresh'
    BY <1>4 DEF SweepRecovers, Visits, SweepFresh, TypeOK
  <1>5. ASSUME NEW w \in Workers, EncodeStep(w) PROVE SweepFresh'
    <2>1. CASE DeleteTmp(w) /\ w = Sweep
      <3>1. sweep.rec \in Recs /\ sweep' = Seen(sweep.rec)
        BY <2>1 DEF DeleteTmp, TypeOK
      <3> QED
        BY <1>3, <3>1
    <2>2. CASE ~(DeleteTmp(w) /\ w = Sweep)
      <3>1. sweep' = sweep
        BY <1>5, <2>2 DEF EncodeStep, EncodeStart, FfmpegFails, EncodeVideo, Publish, Mux, DeleteRaw,
                          DeleteMeta, DeleteTmp
      <3> QED
        BY <1>1, <3>1
    <2> QED
      BY <2>1, <2>2
  <1>6. CASE \E h \in Hosts : HostStep(h) \/ HostExits(h) \/ HostDies(h)
    BY <1>1, <1>6 DEF HostStep, Launch, StartFiles, HostCloses, HostExits, HostDies, Gone
  <1>7. CASE \/ \E r \in Recs : RecorderStep(r) \/ TmpAges(r)
             \/ \E r \in Recs, s \in Stages : OrphanEnds(r, s)
             \/ AppStarts \/ UNCHANGED vars
    BY <1>1, <1>7 DEF RecorderStep, StartSidecar, Capture, StopRecording, TmpAges, OrphanEnds, AppStarts, vars
  <1>8. CASE (\E x \in Hosts \cup {App} : RunHook(x)) \/ AppDies \/ SweepEnds
    <2>1. \/ sweep' = sweep
          \/ sweep' = NoSweep
          \/ sweep' = [NoSweep EXCEPT !.on = TRUE, !.must = meta]
      BY <1>8 DEF RunHook, AppDies, SweepEnds
    <2>2. ASSUME NEW must, sweep' = [NoSweep EXCEPT !.on = TRUE, !.must = must] PROVE SweepFresh'
      <3>1. sweep'.rec = NoRec /\ sweep'.seen = {}
        BY <2>2 DEF NoSweep
      <3> QED
        BY <1>2, <3>1
    <2>3. CASE sweep' = NoSweep
      <3>1. sweep'.rec = NoRec /\ sweep'.seen = {}
        BY <2>3 DEF NoSweep
      <3> QED
        BY <1>2, <3>1
    <2> QED
      BY <1>1, <2>1, <2>2, <2>3
  <1>9. CASE \E r \in Recs : SweepSkips(r) \/ SweepClears(r)
    BY <1>3, <1>9 DEF SweepSkips, SweepClears
  <1> QED
    BY <1>4, <1>5, <1>6, <1>7, <1>8, <1>9 DEF Next, SweepStep

LEMMA SweepAdvance ==
    ASSUME TypeOK, LifeInv, SweepFresh, [Next]_vars, sweep.on
    PROVE  \/ sweep' = sweep /\ job'[Sweep] = job[Sweep]
           \/ ~sweep'.on
           \/ sweep.seen \subseteq sweep'.seen /\ sweep'.seen # sweep.seen
           \/ sweep'.seen = sweep.seen /\ SweepLeft' < SweepLeft
  <1> DEFINE Advanced ==
          \/ sweep' = sweep /\ job'[Sweep] = job[Sweep]
          \/ ~sweep'.on
          \/ sweep.seen \subseteq sweep'.seen /\ sweep'.seen # sweep.seen
          \/ sweep'.seen = sweep.seen /\ SweepLeft' < SweepLeft
  <1>w. Sweep \in Workers /\ \A r \in Recs : r # Sweep
    BY DEF Workers
  <1>1. ASSUME NEW r \in Recs, r \notin sweep.seen, sweep' = Seen(r) PROVE Advanced
    BY <1>1, SeenEffect
  <1>2. CASE EncodeStep(Sweep)
    <2>1. JobLeft(Sweep)' < JobLeft(Sweep)
      BY <1>2, <1>w, JobAdvance
    <2>2. sweep.rec \in Recs /\ sweep.rec # NoRec
      BY <1>2, <1>w, EncodeEffect DEF TypeOK
    <2>3. CASE DeleteTmp(Sweep)
      BY <1>1, <2>2, <2>3 DEF DeleteTmp, SweepFresh
    <2>4. CASE ~DeleteTmp(Sweep)
      <3>1. sweep' = sweep
        BY <1>2, <2>4 DEF EncodeStep, EncodeStart, FfmpegFails, EncodeVideo, Publish, Mux, DeleteRaw, DeleteMeta
      <3> QED
        BY <2>1, <2>2, <3>1 DEF SweepLeft
    <2> QED
      BY <2>3, <2>4
  <1>3. ASSUME NEW w \in Workers, w # Sweep, EncodeStep(w) PROVE Advanced
    <2>1. job'[Sweep] = job[Sweep] /\ sweep' = sweep
      BY <1>3, <1>w, EncodeEffect
    <2> QED
      BY <2>1
  <1>4. CASE \E h \in Hosts : HostStep(h) \/ HostExits(h) \/ HostDies(h)
    <2>1. sweep' = sweep
      BY <1>4 DEF HostStep, Launch, StartFiles, HostCloses, HostExits, HostDies, Gone
    <2>2. job'[Sweep] = job[Sweep]
      BY <1>4, <1>w DEF HostStep, Launch, StartFiles, HostCloses, Recording, HostExits, HostDies, Gone, TypeOK
    <2> QED
      BY <2>1, <2>2
  <1>5. CASE \/ \E r \in Recs : RecorderStep(r) \/ TmpAges(r)
             \/ \E r \in Recs, s \in Stages : OrphanEnds(r, s)
             \/ AppStarts \/ UNCHANGED vars
    <2>1. sweep' = sweep
      BY <1>5 DEF RecorderStep, StartSidecar, Capture, StopRecording, TmpAges, OrphanEnds, AppStarts, vars
    <2>2. ASSUME NEW r \in Recs, StopRecording(r) PROVE job'[Sweep] = job[Sweep]
      BY <2>2, <1>w DEF StopRecording, Moves, TypeOK
    <2>3. ASSUME NEW r \in Recs, StartSidecar(r) \/ Capture(r) \/ TmpAges(r) PROVE job' = job
      BY <2>3 DEF StartSidecar, Capture, TmpAges
    <2>4. ASSUME NEW r \in Recs, NEW s \in Stages, OrphanEnds(r, s) PROVE job' = job
      BY <2>4 DEF OrphanEnds
    <2>5. ASSUME AppStarts \/ UNCHANGED vars PROVE job' = job
      BY <2>5 DEF AppStarts, vars
    <2>6. job'[Sweep] = job[Sweep]
      <3>1. ASSUME NEW r \in Recs, RecorderStep(r) PROVE job'[Sweep] = job[Sweep]
        BY <2>2, <2>3, <3>1 DEF RecorderStep
      <3>2. ASSUME NEW r \in Recs, TmpAges(r) PROVE job'[Sweep] = job[Sweep]
        BY <2>3, <3>2
      <3>3. ASSUME NEW r \in Recs, NEW s \in Stages, OrphanEnds(r, s) PROVE job'[Sweep] = job[Sweep]
        BY <2>4, <3>3
      <3>4. CASE AppStarts \/ UNCHANGED vars
        BY <2>5, <3>4
      <3>5. CASE \E r \in Recs : RecorderStep(r) \/ TmpAges(r)
        BY <3>1, <3>2, <3>5
      <3>6. CASE \E r \in Recs, s \in Stages : OrphanEnds(r, s)
        BY <3>3, <3>6
      <3> QED
        BY <1>5, <3>4, <3>5, <3>6
    <2> QED
      BY <2>1, <2>6
  <1>6. CASE \E x \in Hosts \cup {App} : RunHook(x)
    BY <1>6 DEF RunHook
  <1>7. CASE AppDies \/ SweepEnds
    BY <1>7 DEF AppDies, SweepEnds, NoSweep
  <1>8. CASE \E r \in Recs : SweepSkips(r) \/ SweepClears(r)
    BY <1>1, <1>8 DEF SweepSkips, SweepClears, Visits
  <1>9. ASSUME NEW r \in Recs, SweepRecovers(r) PROVE Advanced
    <2>1. /\ sweep.rec = NoRec /\ sweep'.rec = r /\ r # NoRec /\ sweep'.seen = sweep.seen /\ job'[Sweep] = "start"
      BY <1>9, <1>w DEF SweepRecovers, Visits, Moves, TypeOK
    <2>2. SweepLeft = 8 /\ SweepLeft' = 7
      BY <2>1 DEF SweepLeft, JobLeft
    <2> QED
      BY <2>1, <2>2
  <1> QED
    BY <1>2, <1>3, <1>4, <1>5, <1>6, <1>7, <1>8, <1>9 DEF Next, SweepStep

(* For any number of recordings, hosts and deaths, a worker's job only     *)
(* goes forward but for a host's retry after a failure, and a sweep takes  *)
(* each recording once: what a closing host and the next request wait for  *)
(* is bounded.                                                             *)
THEOREM WorkersAdvance == Spec => JobsAdvance /\ SweepAdvances
  <1>1. Init => LifeInv /\ SweepFresh
    BY LifeInit DEF Init, SweepFresh, NoSweep
  <1>2. TypeOK /\ LifeInv /\ [Next]_vars
          => [\A w \in Workers : job[w] # "idle" =>
                \/ job'[w] = job[w]
                \/ JobLeft(w)' < JobLeft(w)
                \/ w # Sweep /\ job[w] = "video" /\ fails' = fails + 1]_vars
    <2> SUFFICES ASSUME TypeOK, LifeInv, [Next]_vars, NEW w \in Workers, job[w] # "idle"
                 PROVE  \/ job'[w] = job[w]
                        \/ JobLeft(w)' < JobLeft(w)
                        \/ w # Sweep /\ job[w] = "video" /\ fails' = fails + 1
      OBVIOUS
    <2>1. CASE EncodeStep(w)
      BY <2>1, JobAdvance
    <2>2. ASSUME NEW v \in Workers, v # w, EncodeStep(v) PROVE job'[w] = job[w]
      BY <2>2, EncodeEffect
    <2>3. CASE \A v \in Workers : ~EncodeStep(v)
      <3>1. job'[w] = job[w] \/ job'[w] = "idle"
        BY <2>3, OthersLeaveJobs
      <3>2. job[w] \in JobPcs
        BY DEF TypeOK
      <3> QED
        BY <3>1, <3>2 DEF JobLeft, JobPcs, Stages
    <2> QED
      BY <2>1, <2>2, <2>3
  <1>3. TypeOK /\ LifeInv /\ SweepFresh /\ [Next]_vars
          => [sweep.on =>
                \/ sweep' = sweep /\ job'[Sweep] = job[Sweep]
                \/ ~sweep'.on
                \/ sweep.seen \subseteq sweep'.seen /\ sweep'.seen # sweep.seen
                \/ sweep'.seen = sweep.seen /\ SweepLeft' < SweepLeft]_vars
    BY SweepAdvance
  <1>4. TypeOK /\ LifeInv /\ [Next]_vars => LifeInv'
    BY LifeStep
  <1> QED
    BY <1>1, <1>2, <1>3, <1>4, SweepFreshStep, FilesTypeCorrect, PTL DEF Spec, JobsAdvance, SweepAdvances

=============================================================================
