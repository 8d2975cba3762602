-------------------------- MODULE LibraryDbSyncProofs --------------------------
(***************************************************************************)
(* Proofs about LibraryDbSync, for any number of edits, mishaps and        *)
(* reinstalls.  The argument: an edit made after a snapshot is in nothing  *)
(* that was derived from a snapshot (Taken), so a hash equal to that of    *)
(* the database now cannot be an old one (Quiet, Backed); and a sync that  *)
(* nothing disturbed leaves entry and side-car such that the next one      *)
(* uploads or rests, the one after it rests (Plan, Calm).                  *)
(***************************************************************************)
EXTENDS LibraryDbSync, TLAPS

\* An edit of the database that no copy has.
Moved ==
    \E e \in EditsOf(db) :
        e \notin EditsOf(my) \cup EditsOf(sidecar) \cup EditsOf(man) \cup EditsOf(listed) \cup EditsOf(blob)

Numbered ==
    \A c \in {db, sidecar, blob, listed, man, my, got} : \A e \in EditsOf(c) : e <= made

Taken == pc \in {"put", "put200", "get", "write"} => Snapshot(db) = my \/ Moved

Own ==
    /\ pc = "put200" => blob = my
    /\ pc \in {"get", "write"} => blob = my /\ sidecar = my
    /\ pc = "write" => got = my
    /\ pc = "adopt" => got = sidecar

Backed == \A p \in {man, listed} : p = Snapshot(db) => EditsOf(p) \subseteq EditsOf(blob)

Stored == pc \notin {"load", "snap", "put"} /\ ~errors => EditsOf(my) \subseteq EditsOf(blob)

Grows ==
    reinstalls = 0 =>
        /\ EditsOf(blob) \subseteq EditsOf(db)
        /\ pc = "put" => EditsOf(blob) \subseteq EditsOf(my) /\ EditsOf(my) \subseteq EditsOf(db)

\* An undisturbed sync, step by step.
Plan ==
    whole =>
        /\ pc \in {"put", "put200"} => my = Snapshot(db)
        /\ pc = "adopt" => sidecar # Snapshot(db)
        /\ pc = "save" /\ sidecar = Snapshot(db) => man = Snapshot(db)

\* The sync after an undisturbed one, and the sync after that.
Calm ==
    /\ calm > 0 =>
        /\ pc # "idle" => whole
        /\ pc \notin {"get", "write", "adopt"}
        /\ pc \in {"idle", "load", "snap"} =>
            man = listed /\ (sidecar = Snapshot(db) => listed = Snapshot(db))
        /\ pc = "save" => man = Snapshot(db)
    /\ calm = 2 =>
        /\ pc \notin {"put", "put200"}
        /\ listed = Snapshot(db) /\ man = Snapshot(db)

Content == Numbered /\ QuietIsSafe /\ Backed /\ Taken /\ Own /\ Stored
IInv == TypeOK /\ Content /\ Grows /\ Plan /\ Calm

-----------------------------------------------------------------------------
(* What a snapshot is: the edits of its database under the next cookie.    *)
LEMMA SnapshotFacts ==
    ASSUME NEW d \in Contents
    PROVE  /\ Snapshot(d) \in Contents
           /\ EditsOf(Snapshot(d)) = EditsOf(d)
           /\ Snapshot(d) # d
           /\ Snapshot(d) # None
  BY DEF Contents, Snapshot, EditsOf, None
(* What is disturbed keeps its type.                                       *)
LEMMA DisturbedType == Disturbed => whole' \in BOOLEAN /\ calm' \in 0..2
<1>1. Disturbed => whole' \in BOOLEAN
  BY DEF Disturbed
<1>2. Disturbed => calm' \in 0..2
  BY DEF Disturbed
<1> QED
  BY <1>1, <1>2

(* So it is by a mishap.                                                   *)
LEMMA MishapType ==
    ASSUME mishaps \in Nat, Mishap
    PROVE  mishaps' \in Nat /\ whole' \in BOOLEAN /\ calm' \in 0..2
  BY DisturbedType DEF Mishap

(* Every step keeps the types.                                             *)
LEMMA TypeStep == TypeOK /\ [Next]_vars => TypeOK'
<1> SUFFICES ASSUME TypeOK, [Next]_vars PROVE TypeOK'
  OBVIOUS
<1> USE DEF TypeOK, data, sync, counts, hist
<1>0. None \in Contents /\ Fresh \in Contents
  BY DEF None, Fresh, Contents
<1>1. CASE StartSync
  BY <1>1 DEF StartSync
<1>2. CASE LoadManifest
  BY <1>2 DEF LoadManifest
<1>3. CASE LoadManifestFails
  BY <1>0, <1>3, MishapType DEF LoadManifestFails
<1>4. CASE Decide
  BY <1>4, SnapshotFacts DEF Decide
<1>5. CASE SnapshotFails
  BY <1>5, MishapType DEF SnapshotFails
<1>6. CASE Put
  BY <1>6 DEF Put
<1>7. CASE PutFails
  BY <1>7, MishapType DEF PutFails
<1>8. CASE Uploaded
  BY <1>8 DEF Uploaded
<1>9. CASE UploadedNotNoted
  BY <1>9, MishapType DEF UploadedNotNoted
<1>10. CASE Get
  BY <1>10 DEF Get
<1>11. CASE GetFails
  BY <1>11, MishapType DEF GetFails
<1>12. CASE WriteDb
  BY <1>12 DEF WriteDb
<1>13. CASE Adopt
  BY <1>13 DEF Adopt
<1>14. CASE AdoptFails
  BY <1>14, MishapType DEF AdoptFails
<1>15. CASE SaveManifest
  BY <1>15 DEF SaveManifest
<1>16. CASE SaveManifestFails
  BY <1>16, MishapType DEF SaveManifestFails
<1>17. CASE HookSavesManifest
  BY <1>17 DEF HookSavesManifest
<1>18. CASE Edit
  <2>1. made + 1 \in 1..MaxEdits
    BY <1>18, BoundsAssumption DEF Edit
  <2>2. EditsOf(db) \subseteq 1..MaxEdits /\ db[2] \in Nat
    BY DEF Contents, EditsOf
  <2>3. db' \in Contents
    BY <1>18, <2>1, <2>2 DEF Edit, Contents
  <2> QED
    BY <1>18, <2>1, <2>3, DisturbedType DEF Edit
<1>19. CASE Crash
  BY <1>0, <1>19, MishapType DEF Crash
<1>20. CASE Reinstall
  BY <1>0, <1>20, DisturbedType DEF Reinstall
<1>21. CASE UNCHANGED vars
  BY <1>21 DEF vars
<1> QED
  BY <1>1, <1>2, <1>3, <1>4, <1>5, <1>6, <1>7, <1>8, <1>9, <1>10,
     <1>11, <1>12, <1>13, <1>14, <1>15, <1>16, <1>17, <1>18, <1>19, <1>20, <1>21 DEF Next, Sync

(* An edit is in nothing that was there before it.                         *)
LEMMA EditFacts ==
    ASSUME TypeOK, Numbered, Edit
    PROVE  /\ db' \in Contents /\ EditsOf(db') = EditsOf(db) \cup {made + 1}
           /\ \A c \in {sidecar, blob, listed, man, my, got} :
                  made + 1 \notin EditsOf(c) /\ c # Snapshot(db')
<1>1. db' \in Contents
  <2>1. made + 1 \in 1..MaxEdits
    BY BoundsAssumption DEF Edit, TypeOK
  <2>2. EditsOf(db) \subseteq 1..MaxEdits /\ db[2] \in Nat
    BY DEF Contents, EditsOf, TypeOK
  <2> QED BY <2>1, <2>2 DEF Edit, Contents
<1>2. EditsOf(db') = EditsOf(db) \cup {made + 1}
  BY DEF Edit, EditsOf
<1>3. ASSUME NEW c \in {sidecar, blob, listed, man, my, got} PROVE made + 1 \notin EditsOf(c)
  <2>1. \A e \in EditsOf(c) : e <= made
    BY DEF Numbered
  <2> QED BY <2>1 DEF TypeOK
<1>4. made + 1 \in EditsOf(Snapshot(db'))
  BY <1>1, <1>2, SnapshotFacts
<1> QED BY <1>1, <1>2, <1>3, <1>4

\* What a step but an edit can put somewhere.
Copies == {db, sidecar, blob, listed, man, my, got, None, Snapshot(db)}

(* A step but an edit puts only copies of what there is.                   *)
LEMMA CopyStep ==
    ASSUME Sync \/ HookSavesManifest \/ Crash \/ Reinstall \/ UNCHANGED vars
    PROVE  /\ made' = made
           /\ db' \in Copies /\ sidecar' \in Copies /\ blob' \in Copies /\ listed' \in Copies
           /\ man' \in Copies /\ my' \in Copies /\ got' \in Copies
<1> USE DEF Copies, data, sync, counts, hist
<1>1. CASE StartSync \/ LoadManifest \/ LoadManifestFails \/ Decide \/ SnapshotFails
  BY <1>1 DEF StartSync, LoadManifest, LoadManifestFails, Decide, SnapshotFails
<1>2. CASE Put \/ PutFails \/ Uploaded \/ UploadedNotNoted
  BY <1>2 DEF Put, PutFails, Uploaded, UploadedNotNoted
<1>3. CASE Get \/ GetFails \/ WriteDb \/ Adopt \/ AdoptFails
  BY <1>3 DEF Get, GetFails, WriteDb, Adopt, AdoptFails
<1>4. CASE SaveManifest \/ SaveManifestFails \/ HookSavesManifest
  BY <1>4 DEF SaveManifest, SaveManifestFails, HookSavesManifest
<1>5. CASE Crash \/ Reinstall \/ UNCHANGED vars
  BY <1>5 DEF Crash, Reinstall, Fresh, None, vars
<1> QED
  BY <1>1, <1>2, <1>3, <1>4, <1>5 DEF Sync

(* No content holds an edit that has not been made.                        *)
LEMMA NumberedStep == TypeOK /\ Numbered /\ [Next]_vars => Numbered'
<1> SUFFICES ASSUME TypeOK, Numbered, [Next]_vars PROVE Numbered'
  OBVIOUS
<1>1. CASE Edit
  <2>1. made' = made + 1 /\ made \in Nat
    BY <1>1 DEF Edit, TypeOK
  <2>2. \A c \in {sidecar, blob, listed, man, my, got} : \A e \in EditsOf(c) : e <= made
    BY DEF Numbered
  <2>3. \A c \in {db, sidecar, blob, listed, man, my, got} : EditsOf(c) \subseteq Nat
    BY DEF TypeOK, Contents, EditsOf
  <2>4. \A c \in {sidecar, blob, listed, man, my, got} : \A e \in EditsOf(c) : e <= made + 1
    BY <2>1, <2>2, <2>3
  <2>5. \A e \in EditsOf(db') : e <= made + 1
    <3>1. \A e \in EditsOf(db) : e \in Nat /\ e <= made
      BY <2>3 DEF Numbered
    <3> QED
      BY <1>1, <2>1, <3>1, EditFacts
  <2>6. /\ sidecar' = sidecar /\ blob' = blob /\ listed' = listed /\ man' = man
        /\ my' = my /\ got' = got
    BY <1>1 DEF Edit, sync
  <2> QED
    BY <2>1, <2>4, <2>5, <2>6 DEF Numbered
<1>2. CASE ~Edit
  <2>1. Sync \/ HookSavesManifest \/ Crash \/ Reinstall \/ UNCHANGED vars
    BY <1>2 DEF Next
  <2>2. \A c \in Copies : \A e \in EditsOf(c) : e <= made
    <3>1. EditsOf(None) = {} /\ EditsOf(Snapshot(db)) = EditsOf(db)
      BY DEF None, Snapshot, EditsOf
    <3> QED
      BY <3>1 DEF Numbered, Copies
  <2> QED
    BY <2>1, <2>2, CopyStep DEF Numbered
<1> QED
  BY <1>1, <1>2

-----------------------------------------------------------------------------
(* What side-car, entry and backup say of the database.                    *)

(* With an edit that no copy has, no copy equals a snapshot taken now.     *)
LEMMA MovedFacts ==
    ASSUME TypeOK, Moved
    PROVE  \A c \in {my, sidecar, man, listed, blob} : c # Snapshot(db)
<1>1. EditsOf(Snapshot(db)) = EditsOf(db)
  BY SnapshotFacts DEF TypeOK
<1> QED
  BY <1>1 DEF Moved

(* Every step keeps what the copies say of the database.                   *)
LEMMA ContentStep == TypeOK /\ Content /\ [Next]_vars => Content'
<1> SUFFICES ASSUME TypeOK, Content, [Next]_vars PROVE Content'
  OBVIOUS
<1>n. Numbered'
  BY NumberedStep DEF Content
<1>h. Numbered /\ QuietIsSafe /\ Backed /\ Taken /\ Own /\ Stored
  BY DEF Content
<1>s. /\ Snapshot(db) \in Contents /\ EditsOf(Snapshot(db)) = EditsOf(db)
      /\ Snapshot(db) # db /\ Snapshot(db) # None
  BY SnapshotFacts DEF TypeOK
<1>1. CASE StartSync
  BY <1>1, <1>n, <1>h DEF StartSync, Content, QuietIsSafe, Backed, Taken, Own, Stored, data
<1>2. CASE LoadManifest
  BY <1>2, <1>n, <1>h DEF LoadManifest, Content, QuietIsSafe, Backed, Taken, Own, Stored, sync
<1>3. CASE LoadManifestFails
  BY <1>3, <1>n, <1>h, <1>s DEF LoadManifestFails, Content, QuietIsSafe, Backed, Taken, Own, Stored, sync
<1>4. CASE Decide
  <2>1. /\ UNCHANGED data /\ errors' = errors /\ my' = Snapshot(db) /\ pc = "snap"
        /\ pc' = IF NeedsUpload(my') THEN "put" ELSE IF ShouldDownload(my') THEN "get" ELSE "save"
    BY <1>4 DEF Decide
  <2>2. pc' = "get" => my' = sidecar /\ blob = my'
    BY <1>h, <2>1 DEF ShouldDownload, LocalChanged, QuietIsSafe
  <2>3. pc' = "save" => EditsOf(my') \subseteq EditsOf(blob)
    <3>1. pc' = "save" => my' = man
      BY <2>1 DEF NeedsUpload, ShouldDownload
    <3> QED
      BY <1>h, <2>1, <3>1 DEF Backed
  <2>4. QuietIsSafe' /\ Backed'
    BY <1>h, <2>1 DEF QuietIsSafe, Backed, data
  <2>5. Taken' /\ Own' /\ Stored'
    BY <2>1, <2>2, <2>3 DEF Taken, Own, Stored, data
  <2> QED
    BY <1>n, <2>4, <2>5 DEF Content
<1>5. CASE SnapshotFails
  BY <1>5, <1>n, <1>h DEF SnapshotFails, Content, QuietIsSafe, Backed, Taken, Own, Stored, data
<1>6. CASE Put
  <2>1. /\ pc = "put" /\ pc' = "put200" /\ blob' = my /\ my' = my
        /\ db' = db /\ sidecar' = sidecar /\ man' = man /\ listed' = listed
    BY <1>6 DEF Put, sync
  <2>2. \A c \in {sidecar, man, listed} : c = Snapshot(db) => my = c
    BY <1>h, <2>1, MovedFacts DEF Taken
  <2>3. QuietIsSafe' /\ Backed'
    BY <2>1, <2>2 DEF QuietIsSafe, Backed
  <2>4. Taken'
    BY <1>h, <2>1 DEF Taken, Moved
  <2>5. Own' /\ Stored'
    BY <2>1 DEF Own, Stored
  <2> QED
    BY <1>n, <2>3, <2>4, <2>5 DEF Content
<1>7. CASE PutFails
  BY <1>7, <1>n, <1>h DEF PutFails, Content, QuietIsSafe, Backed, Taken, Own, Stored, data
<1>8. CASE Uploaded
  BY <1>8, <1>n, <1>h DEF Uploaded, Content, QuietIsSafe, Backed, Taken, Own, Stored, sync
<1>9. CASE UploadedNotNoted
  BY <1>9, <1>n, <1>h DEF UploadedNotNoted, Content, QuietIsSafe, Backed, Taken, Own, Stored, sync
<1>10. CASE Get
  <2>1. /\ UNCHANGED data /\ pc = "get" /\ pc' = "write" /\ got' = blob /\ my' = my /\ errors' = errors
    BY <1>10 DEF Get
  <2>2. QuietIsSafe' /\ Backed' /\ Taken'
    BY <1>h, <2>1 DEF QuietIsSafe, Backed, Taken, Moved, data
  <2>3. Own' /\ Stored'
    BY <1>h, <2>1 DEF Own, Stored, data
  <2> QED
    BY <1>n, <2>2, <2>3 DEF Content
<1>11. CASE GetFails
  BY <1>11, <1>n, <1>h DEF GetFails, Content, QuietIsSafe, Backed, Taken, Own, Stored, data, sync
<1>12. CASE WriteDb
  <2>1. /\ pc = "write" /\ pc' = "adopt" /\ db' = got /\ got' = got /\ my' = my /\ errors' = errors
        /\ sidecar' = sidecar /\ blob' = blob /\ man' = man /\ listed' = listed
    BY <1>12 DEF WriteDb, sync
  <2>2. got = my /\ sidecar = my /\ blob = my
    BY <1>h, <2>1 DEF Own
  <2>3. Snapshot(got) # got /\ EditsOf(Snapshot(got)) = EditsOf(got)
    BY SnapshotFacts DEF TypeOK
  <2>4. QuietIsSafe' /\ Backed'
    BY <2>1, <2>2, <2>3 DEF QuietIsSafe, Backed
  <2>5. Taken' /\ Own' /\ Stored'
    BY <2>1, <2>2 DEF Taken, Own, Stored
  <2> QED
    BY <1>n, <2>4, <2>5 DEF Content
<1>13. CASE Adopt
  <2>1. /\ pc = "adopt" /\ pc' = "save" /\ sidecar' = got /\ db' = db /\ blob' = blob
        /\ man' = man /\ listed' = listed /\ my' = my /\ errors' = errors
    BY <1>13 DEF Adopt, sync
  <2>2. got = sidecar
    BY <1>h, <2>1 DEF Own
  <2> QED
    BY <1>n, <1>h, <2>1, <2>2 DEF Content, QuietIsSafe, Backed, Taken, Own, Stored
<1>14. CASE AdoptFails
  <2>1. /\ UNCHANGED data /\ pc \in {"write", "adopt"} /\ pc' = "save" /\ my' = my
        /\ ~errors' => ~errors
    BY <1>14 DEF AdoptFails
  <2>2. QuietIsSafe' /\ Backed' /\ Taken' /\ Own'
    BY <1>h, <2>1 DEF QuietIsSafe, Backed, Taken, Own, data
  <2>3. Stored'
    BY <1>h, <2>1 DEF Stored, data
  <2> QED
    BY <1>n, <2>2, <2>3 DEF Content
<1>15. CASE SaveManifest
  BY <1>15, <1>n, <1>h DEF SaveManifest, Content, QuietIsSafe, Backed, Taken, Own, Stored, sync
<1>16. CASE SaveManifestFails
  BY <1>16, <1>n, <1>h DEF SaveManifestFails, Content, QuietIsSafe, Backed, Taken, Own, Stored, data, sync
<1>17. CASE HookSavesManifest
  BY <1>17, <1>n, <1>h DEF HookSavesManifest, Content, QuietIsSafe, Backed, Taken, Own, Stored, Moved, sync
<1>18. CASE Edit
  <2>1. /\ sidecar' = sidecar /\ blob' = blob /\ man' = man /\ listed' = listed
        /\ pc' = pc /\ my' = my /\ got' = got /\ errors' = errors
    BY <1>18 DEF Edit, sync
  <2>2. /\ EditsOf(db') = EditsOf(db) \cup {made + 1}
        /\ \A c \in {sidecar, blob, listed, man, my, got} : made + 1 \notin EditsOf(c) /\ c # Snapshot(db')
    BY <1>18, <1>h, EditFacts
  <2>3. QuietIsSafe' /\ Backed'
    BY <2>1, <2>2 DEF QuietIsSafe, Backed
  <2>4. Taken'
    BY <2>1, <2>2 DEF Taken, Moved
  <2>5. Own' /\ Stored'
    BY <1>h, <2>1 DEF Own, Stored
  <2> QED
    BY <1>n, <2>3, <2>4, <2>5 DEF Content
<1>19. CASE Crash
  BY <1>19, <1>n, <1>h, <1>s DEF Crash, Content, QuietIsSafe, Backed, Taken, Own, Stored
<1>20. CASE Reinstall
  <2>1. Snapshot(Fresh) # None /\ EditsOf(Snapshot(Fresh)) = {}
    BY DEF Snapshot, Fresh, None, EditsOf
  <2>2. /\ db' = Fresh /\ sidecar' = None /\ man' = None /\ pc' = "idle" /\ errors' = TRUE
        /\ blob' = blob /\ listed' = listed
    BY <1>20 DEF Reinstall
  <2>3. QuietIsSafe' /\ Backed'
    BY <2>1, <2>2 DEF QuietIsSafe, Backed
  <2>4. Taken' /\ Own' /\ Stored'
    BY <2>2 DEF Taken, Own, Stored
  <2> QED
    BY <1>n, <2>3, <2>4 DEF Content
<1>21. CASE UNCHANGED vars
  BY <1>21, <1>n, <1>h DEF vars, Content, QuietIsSafe, Backed, Taken, Own, Stored, Moved, data, sync
<1> QED
  BY <1>1, <1>2, <1>3, <1>4, <1>5, <1>6, <1>7, <1>8, <1>9, <1>10, <1>11,
     <1>12, <1>13, <1>14, <1>15, <1>16, <1>17, <1>18, <1>19, <1>20, <1>21 DEF Next, Sync

(* Without a reinstall the library holds whatever its backup holds.        *)
LEMMA GrowsStep == TypeOK /\ Content /\ Grows /\ [Next]_vars => Grows'
<1> SUFFICES ASSUME TypeOK, Content, Grows, [Next]_vars, reinstalls' = 0
             PROVE  /\ EditsOf(blob') \subseteq EditsOf(db')
                    /\ pc' = "put" => /\ EditsOf(blob') \subseteq EditsOf(my')
                                      /\ EditsOf(my') \subseteq EditsOf(db')
  BY DEF Grows
<1>1. CASE Reinstall
  BY <1>1 DEF Reinstall, TypeOK
<1>2. CASE Decide
  <2>1. EditsOf(Snapshot(db)) = EditsOf(db)
    BY SnapshotFacts DEF TypeOK
  <2> QED
    BY <1>2, <2>1 DEF Decide, Grows, data, counts
<1>3. CASE Put
  BY <1>3 DEF Put, Grows, counts
<1>4. CASE WriteDb
  BY <1>4 DEF WriteDb, Content, Own
<1>5. CASE Edit
  <2>1. EditsOf(db) \subseteq EditsOf(db')
    BY <1>5, EditFacts DEF Content
  <2> QED
    BY <1>5, <2>1 DEF Edit, Grows, sync
<1>6. CASE UNCHANGED <<db, blob, reinstalls>> /\ (pc' = "put" => pc = "put" /\ my' = my)
  BY <1>6 DEF Grows
<1>7. CASE StartSync \/ LoadManifest \/ LoadManifestFails \/ SnapshotFails \/ PutFails
           \/ Uploaded \/ UploadedNotNoted \/ Get \/ GetFails
  BY <1>6, <1>7 DEF StartSync, LoadManifest, LoadManifestFails, SnapshotFails, PutFails,
     Uploaded, UploadedNotNoted, Get, GetFails, data, sync, counts
<1>8. CASE Adopt \/ AdoptFails \/ SaveManifest \/ SaveManifestFails \/ HookSavesManifest
           \/ Crash \/ UNCHANGED vars
  BY <1>6, <1>8 DEF Adopt, AdoptFails, SaveManifest, SaveManifestFails, HookSavesManifest,
     Crash, vars, data, sync, counts
<1> QED
  BY <1>1, <1>2, <1>3, <1>4, <1>5, <1>7, <1>8 DEF Next, Sync

-----------------------------------------------------------------------------
(* What syncs that nothing disturbs lead to.                               *)

(* A step that disturbs leaves nothing to show.                            *)
LEMMA DisturbedStep == Disturbed => Plan' /\ Calm'
<1>1. Disturbed => ~whole'
  BY DEF Disturbed
<1>2. Disturbed => calm' = 0
  BY DEF Disturbed
<1> QED
  BY <1>1, <1>2 DEF Plan, Calm

(* A whole sync leaves the next one an upload or nothing, and the one after that nothing. *)
LEMMA CalmStep == TypeOK /\ Content /\ Plan /\ Calm /\ [Next]_vars => Plan' /\ Calm'
<1> SUFFICES ASSUME TypeOK, Content, Plan, Calm, [Next]_vars PROVE Plan' /\ Calm'
  OBVIOUS
<1>0. calm \in 0..2
  BY DEF TypeOK
<1>1. CASE LoadManifestFails \/ SnapshotFails \/ PutFails \/ UploadedNotNoted \/ GetFails \/ AdoptFails
           \/ SaveManifestFails \/ Edit \/ Crash \/ Reinstall
  <2>1. Disturbed
    BY <1>1 DEF LoadManifestFails, SnapshotFails, PutFails, UploadedNotNoted, GetFails, AdoptFails,
       SaveManifestFails, Edit, Crash, Reinstall, Mishap
  <2> QED
    BY <2>1, DisturbedStep
<1>2. CASE StartSync
  <2>1. pc = "idle" /\ pc' = "load" /\ whole' /\ calm' = calm /\ UNCHANGED data
    BY <1>2 DEF StartSync
  <2> QED
    BY <2>1 DEF Plan, Calm, data
<1>3. CASE LoadManifest
  <2>1. /\ pc = "load" /\ pc' = "snap" /\ man' = listed
        /\ UNCHANGED <<db, sidecar, listed>> /\ (whole' <=> whole) /\ calm' = calm
    BY <1>3 DEF LoadManifest, hist
  <2> QED
    BY <2>1 DEF Plan, Calm
<1>4. CASE Decide
  <2>1. /\ UNCHANGED data /\ my' = Snapshot(db) /\ pc = "snap" /\ (whole' <=> whole) /\ calm' = calm
        /\ pc' = IF NeedsUpload(my') THEN "put" ELSE IF ShouldDownload(my') THEN "get" ELSE "save"
    BY <1>4 DEF Decide, hist
  <2>2. pc' = "save" => man = Snapshot(db)
    BY <2>1 DEF NeedsUpload, ShouldDownload
  <2>3. pc' = "get" => calm = 0
    <3>1. pc' = "get" => sidecar = Snapshot(db) /\ man # Snapshot(db)
      BY <2>1 DEF ShouldDownload, LocalChanged
    <3> QED
      BY <1>0, <2>1, <3>1 DEF Calm
  <2>4. pc' = "put" => calm # 2
    BY <2>1 DEF NeedsUpload, Calm
  <2>5. Plan'
    BY <2>1, <2>2 DEF Plan, data
  <2>6. Calm'
    BY <2>1, <2>2, <2>3, <2>4 DEF Calm, data
  <2> QED
    BY <2>5, <2>6
<1>5. CASE Put
  <2>1. /\ pc = "put" /\ pc' = "put200" /\ UNCHANGED <<db, sidecar, listed, man, my>>
        /\ (whole' <=> whole) /\ calm' = calm
    BY <1>5 DEF Put, sync, hist
  <2> QED
    BY <2>1 DEF Plan, Calm
<1>6. CASE Uploaded
  <2>1. /\ pc = "put200" /\ pc' = "save" /\ man' = my /\ sidecar' = my /\ UNCHANGED <<db, listed, my>>
        /\ (whole' <=> whole) /\ calm' = calm
    BY <1>6 DEF Uploaded, sync, hist
  <2> QED
    BY <2>1 DEF Plan, Calm
<1>7. CASE Get
  <2>1. pc = "get" /\ pc' = "write" /\ UNCHANGED data /\ calm' = calm
    BY <1>7 DEF Get, hist
  <2> QED
    BY <1>0, <2>1 DEF Plan, Calm
<1>8. CASE WriteDb
  <2>1. pc = "write" /\ pc' = "adopt" /\ db' = got /\ sidecar' = sidecar /\ calm' = calm
    BY <1>8 DEF WriteDb, hist
  <2>2. got = sidecar /\ Snapshot(got) # got
    BY <2>1, SnapshotFacts DEF Content, Own, TypeOK
  <2> QED
    BY <1>0, <2>1, <2>2 DEF Plan, Calm
<1>9. CASE Adopt
  <2>1. /\ pc = "adopt" /\ pc' = "save" /\ sidecar' = got /\ UNCHANGED <<db, man>>
        /\ (whole' <=> whole) /\ calm' = calm
    BY <1>9 DEF Adopt, hist
  <2>2. got = sidecar
    BY <2>1 DEF Content, Own
  <2> QED
    BY <1>0, <2>1, <2>2 DEF Plan, Calm
<1>10. CASE SaveManifest
  <2>1. /\ pc = "save" /\ pc' = "idle" /\ listed' = man /\ UNCHANGED <<db, sidecar, man>>
        /\ (whole' <=> whole) /\ calm' = IF whole /\ calm < 2 THEN calm + 1 ELSE calm
    BY <1>10 DEF SaveManifest
  <2>2. calm = 0 \/ man = Snapshot(db)
    BY <1>0, <2>1 DEF Calm
  <2>3. calm > 0 => whole
    BY <2>1 DEF Calm
  <2>4. Plan'
    BY <2>1 DEF Plan
  <2>5. calm' > 0 => (sidecar = Snapshot(db) => man = Snapshot(db))
    BY <1>0, <2>1, <2>2 DEF Plan
  <2>6. calm' = 2 => man = Snapshot(db)
    BY <1>0, <2>1, <2>2
  <2> QED
    BY <2>1, <2>4, <2>5, <2>6 DEF Calm
<1>11. CASE HookSavesManifest
  <2>1. /\ listed' = man /\ UNCHANGED <<db, sidecar, man, my, pc>>
        /\ (whole' <=> whole) /\ calm' = calm
    BY <1>11 DEF HookSavesManifest, sync, hist
  <2> QED
    BY <2>1 DEF Plan, Calm
<1>12. CASE UNCHANGED vars
  BY <1>12 DEF vars, data, sync, hist, Plan, Calm
<1> QED
  BY <1>1, <1>2, <1>3, <1>4, <1>5, <1>6, <1>7, <1>8, <1>9, <1>10, <1>11, <1>12 DEF Next, Sync

-----------------------------------------------------------------------------
(* The theorems.                                                           *)

(* The inductive invariant holds at the start.                             *)
LEMMA InitHolds == Init => IInv
<1> SUFFICES ASSUME Init PROVE IInv
  OBVIOUS
<1>1. None \in Contents /\ EditsOf(None) = {} /\ Snapshot(None) # None /\ Fresh = None
  BY DEF None, Fresh, Contents, Snapshot, EditsOf
<1>2. TypeOK
  <2>1. errors \in BOOLEAN /\ whole \in BOOLEAN
    BY DEF Init
  <2>2. made \in 0..MaxEdits /\ mishaps \in Nat /\ reinstalls \in Nat /\ calm \in 0..2
    BY BoundsAssumption DEF Init
  <2> QED
    BY <1>1, <2>1, <2>2 DEF Init, TypeOK
<1>3. Content
  BY <1>1 DEF Init, Content, Numbered, QuietIsSafe, Backed, Taken, Own, Stored
<1>4. Grows /\ Plan /\ Calm
  BY <1>1 DEF Init, Grows, Plan, Calm
<1> QED
  BY <1>2, <1>3, <1>4 DEF IInv

(* The inductive invariant.                                                *)
LEMMA Invariance == Spec => []IInv
<1>1. IInv /\ [Next]_vars => IInv'
  BY TypeStep, ContentStep, GrowsStep, CalmStep DEF IInv
<1> QED
  BY <1>1, InitHolds, PTL DEF Spec

(* Every reachable state is well typed.                                    *)
THEOREM LibraryTypeCorrect == Spec => []TypeOK
  BY Invariance, PTL DEF IInv

(* No failure or death leaves a side-car that hides edits from the backup. *)
THEOREM QuietStaysSafe == Spec => []QuietIsSafe
  BY Invariance, PTL DEF IInv, Content

(* A sync that counted no error has stored what its snapshot held.         *)
THEOREM SyncedStaysStored == Spec => []SyncedIsStored
<1>1. IInv => SyncedIsStored
  BY DEF IInv, Content, Stored, SyncedIsStored
<1> QED
  BY <1>1, Invariance, PTL

(* What a sync downloads is its own snapshot.                              *)
THEOREM DownloadsOwn == Spec => []AdoptsOwn
<1>1. IInv => AdoptsOwn
  BY DEF IInv, Content, Own, AdoptsOwn
<1> QED
  BY <1>1, Invariance, PTL

(* After two undisturbed syncs there is nothing to transfer.               *)
THEOREM PingPongEnds == Spec => []NoPingPong
<1>1. IInv => NoPingPong
  BY DEF IInv, TypeOK, Calm, NoPingPong
<1> QED
  BY <1>1, Invariance, PTL

(* The backup of a PC that was not reinstalled never loses an edit.        *)
THEOREM BackupOnlyGrows == Spec => BackupGrows
<1>1. IInv /\ IInv' /\ [Next]_vars => [reinstalls = 0 => EditsOf(blob) \subseteq EditsOf(blob')]_vars
  <2> SUFFICES ASSUME IInv, Next, reinstalls = 0 PROVE EditsOf(blob) \subseteq EditsOf(blob')
    OBVIOUS
  <2>1. CASE Put
    BY <2>1 DEF Put, IInv, Grows
  <2>2. CASE blob' = blob
    BY <2>2
  <2>3. ~Put => blob' = blob
    BY DEF Next, Sync, StartSync, LoadManifest, LoadManifestFails, Decide, SnapshotFails, PutFails,
       Uploaded, UploadedNotNoted, Get, GetFails, WriteDb, Adopt, AdoptFails, SaveManifest,
       SaveManifestFails, Edit, HookSavesManifest, Crash, Reinstall, data
  <2> QED
    BY <2>1, <2>2, <2>3
<1> QED
  BY <1>1, Invariance, PTL DEF Spec, BackupGrows

(* Both at once: what counts as backed up is backed up (RunFullSyncAsync). *)
THEOREM BackupStaysHonest == Spec => []BackupHonest
  BY QuietStaysSafe, SyncedStaysStored, PTL DEF BackupHonest

=============================================================================
