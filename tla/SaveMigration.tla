----------------------------- MODULE SaveMigration -----------------------------
(***************************************************************************)
(* The one-time move of the flat Saves folder into one folder per console  *)
(* (SaveLayoutMigrator.RunOnce), which every start of the library runs     *)
(* until a marker file says that it is done.                               *)
(*                                                                         *)
(* An entry of the flat folder (a battery file or a core's save tree) goes *)
(* from Saves/<entry> to Saves/<console>/<entry>.  A tree named like its   *)
(* console has its destination inside itself and goes by way of            *)
(* Saves/.mig_<entry>; afterwards Saves/<entry> is the console's folder.   *)
(* The app may die between any two file operations, each of which may      *)
(* fail; games are played between the starts.                              *)
(***************************************************************************)
EXTENDS Naturals

CONSTANTS
    Entries,    \* names of the flat folder the migration may move
    Loose,      \* battery files; the others are save trees of known cores
    SelfNested, \* trees named like their console
    Mishaps     \* bound: deaths during a migration and failed file operations

ASSUME KindsAssumption == Loose \subseteq Entries /\ SelfNested \subseteq Entries \ Loose
ASSUME MishapsAssumption == Mishaps \in Nat

\* What is in an entry: saves from before the migration and from after it.
Ages == {"old", "new"}
Items == Entries \X Ages

VARIABLES
    marker,     \* Saves/.per-console-layout exists
    app,        \* "down", "run" (RunOnce), "hop", "dir", "nest" (MoveInto's hop) or "up"
    todo,       \* entries of the snapshot still to be visited
    known,      \* battery files the library's stem map attributes in this run
    current,    \* the entry on its way through the hop
    flat,       \* entries e for which Saves/<e> exists
    own,        \* entries e for which Saves/<console>/<e> exists
    hop,        \* entries e for which Saves/.mig_<e> exists
    depth,      \* per item: 1 in Saves/<e>, 2 in Saves/<console>/<e>, more if nested deeper; 0: nowhere yet
    hopped,     \* items in Saves/.mig_<e>, at the depth they had
    deleted,    \* items that were deleted
    mishaps,    \* how many so far
    cut         \* history: an entry was left in the hop

dirVars == <<flat, own, hop>>
itemVars == <<depth, hopped, deleted>>
vars == <<marker, app, todo, known, current, dirVars, itemVars, mishaps, cut>>

Of(e) == {e} \X Ages
Stored(e) == {i \in Of(e) : depth[i] > 0 /\ i \notin hopped \cup deleted}

\* What lies flat was put there by an earlier version of the app.
Init ==
    /\ marker = FALSE /\ app = "down" /\ todo = {} /\ known = {}
    /\ current \in Entries
    /\ flat \in SUBSET Entries /\ own = {} /\ hop = {}
    /\ depth = [i \in Items |-> IF i[1] \in flat /\ i[2] = "old" THEN 1 ELSE 0]
    /\ hopped = {} /\ deleted = {}
    /\ mishaps = 0 /\ cut = FALSE

-----------------------------------------------------------------------------
(* RunOnce, from the start of the app to its window.                       *)

\* The folder is listed before anything moves; the stem map may be unavailable.
Start ==
    /\ app = "down"
    /\ IF marker THEN /\ app' = "up" /\ UNCHANGED <<todo, known>>
                 ELSE /\ app' = "run" /\ todo' = flat
                      /\ known' \in SUBSET (Loose \cap flat)
    /\ UNCHANGED <<marker, current, dirVars, itemVars, mishaps, cut>>

\* Battery files come first.
Turn(e) ==
    /\ app = "run" /\ e \in todo
    /\ e \in Loose \/ todo \cap Loose = {}

MutNeedsHop(e) == e \notin Loose

\* The destination lies under the source.
NeedsHop(e) == e \in SelfNested

\* A file without a console, or an entry whose destination exists.
LeaveAlone(e) ==
    /\ Turn(e) /\ ~NeedsHop(e)
    /\ e \in Loose \ known \/ e \in own
    /\ todo' = todo \ {e}
    /\ UNCHANGED <<marker, app, known, current, dirVars, itemVars, mishaps, cut>>

\* MoveInto without a hop: one rename.
MoveInto(e) ==
    /\ Turn(e) /\ ~NeedsHop(e)
    /\ e \notin Loose \ known /\ e \notin own
    /\ flat' = flat \ {e} /\ own' = own \cup {e}
    /\ depth' = [i \in Items |-> IF i \in Stored(e) THEN depth[i] + 1 ELSE depth[i]]
    /\ todo' = todo \ {e}
    /\ UNCHANGED <<marker, app, known, current, hop, hopped, deleted, mishaps, cut>>

MutClearHop(e) ==
    /\ Turn(e) /\ NeedsHop(e)
    /\ app' = "hop"
    /\ hop' = hop \ {e}
    /\ hopped' = hopped \ Of(e)
    /\ deleted' = deleted \cup (hopped \cap Of(e))
    /\ UNCHANGED <<marker, todo, known, current, flat, own, depth, mishaps, cut>>

\* A folder in the way of the hop is deleted with all it holds.
ClearHop(e) ==
    /\ Turn(e) /\ NeedsHop(e)
    /\ app' = "hop" /\ current' = e
    /\ hop' = hop \ {e}
    /\ hopped' = hopped \ Of(e)
    /\ deleted' = deleted \cup (hopped \cap Of(e))
    /\ UNCHANGED <<marker, todo, known, flat, own, depth, mishaps, cut>>

\* Saves/<e> becomes Saves/.mig_<e>.
HopOut ==
    /\ app = "hop" /\ app' = "dir"
    /\ hop' = hop \cup {current}
    /\ flat' = flat \ {current} /\ own' = own \ {current}
    /\ hopped' = hopped \cup Stored(current)
    /\ UNCHANGED <<marker, todo, known, current, depth, deleted, mishaps, cut>>

\* The console's folder is created under the same name.
MakeConsoleDir ==
    /\ app = "dir" /\ app' = "nest"
    /\ flat' = flat \cup {current}
    /\ UNCHANGED <<marker, todo, known, current, own, hop, itemVars, mishaps, cut>>

MutNestIn ==
    /\ app = "nest" /\ app' = "run"
    /\ own' = own \cup {current}
    /\ todo' = todo \ {current}
    /\ UNCHANGED <<marker, known, current, flat, hop, itemVars, mishaps, cut>>

\* Saves/.mig_<e> becomes Saves/<e>/<e>, which cannot exist: the folder is new.
NestIn ==
    /\ app = "nest" /\ app' = "run"
    /\ hop' = hop \ {current} /\ own' = own \cup {current}
    /\ depth' = [i \in Items |-> IF i \in hopped \cap Of(current) THEN depth[i] + 1 ELSE depth[i]]
    /\ hopped' = hopped \ Of(current)
    /\ todo' = todo \ {current}
    /\ UNCHANGED <<marker, known, current, flat, deleted, mishaps, cut>>

WriteMarker ==
    /\ app = "run" /\ todo = {}
    /\ marker' = TRUE /\ app' = "up"
    /\ UNCHANGED <<todo, known, current, dirVars, itemVars, mishaps, cut>>

-----------------------------------------------------------------------------
(* What goes wrong, and what happens between the starts.                   *)

Mishap == mishaps < Mishaps /\ mishaps' = mishaps + 1

\* MoveInto catches the exception and the run goes on with the next entry.
MoveFails(e) ==
    /\ Mishap
    /\ \/ Turn(e)
       \/ app \in {"hop", "dir", "nest"} /\ e = current
    /\ app' = "run" /\ todo' = todo \ {e}
    /\ cut' = (cut \/ app \in {"dir", "nest"})
    /\ UNCHANGED <<marker, known, current, dirVars, itemVars>>

\* RunOnce catches the exception: the app starts without a marker.
MarkerFails ==
    /\ Mishap
    /\ app = "run" /\ todo = {} /\ app' = "up"
    /\ UNCHANGED <<marker, todo, known, current, dirVars, itemVars, cut>>

Dies ==
    /\ Mishap
    /\ app \in {"run", "hop", "dir", "nest"} /\ app' = "down"
    /\ cut' = (cut \/ app \in {"dir", "nest"})
    /\ UNCHANGED <<marker, todo, known, current, dirVars, itemVars>>

Ends ==
    /\ app = "up" /\ app' = "down"
    /\ UNCHANGED <<marker, todo, known, current, dirVars, itemVars, mishaps, cut>>

\* A session of the entry's console writes its saves in Saves/<console>.
Play(e) ==
    /\ app = "up"
    /\ own' = own \cup {e}
    /\ flat' = IF e \in SelfNested THEN flat \cup {e} ELSE flat
    /\ depth' = [depth EXCEPT ![<<e, "new">>] = IF @ = 0 THEN 2 ELSE @]
    /\ UNCHANGED <<marker, app, todo, known, current, hop, hopped, deleted, mishaps, cut>>

Migrate ==
    \/ \E e \in Entries : LeaveAlone(e) \/ MoveInto(e) \/ ClearHop(e)
    \/ HopOut \/ MakeConsoleDir \/ NestIn \/ WriteMarker

Next ==
    \/ Start \/ Migrate \/ MarkerFails \/ Dies \/ Ends
    \/ \E e \in Entries : MoveFails(e) \/ Play(e)

Spec == Init /\ [][Next]_vars

-----------------------------------------------------------------------------
TypeOK ==
    /\ marker \in BOOLEAN
    /\ app \in {"down", "run", "hop", "dir", "nest", "up"}
    /\ todo \subseteq Entries /\ known \subseteq Loose /\ current \in Entries
    /\ flat \subseteq Entries /\ own \subseteq Entries /\ hop \subseteq Entries
    /\ depth \in [Items -> Nat]
    /\ hopped \subseteq Items /\ deleted \subseteq Items
    /\ mishaps \in Nat /\ cut \in BOOLEAN
    /\ app \in {"hop", "dir", "nest"} => current \in SelfNested \cap todo

(* Whatever is interrupted and however often the migration is repeated, a  *)
(* save whose folder is not named like its console is at one of the two    *)
(* places: where it was, or where the core looks for it.                   *)
OthersSafe ==
    \A i \in Items : i[1] \notin SelfNested => i \notin hopped \cup deleted /\ depth[i] <= 2

(* A save is deleted only if a run was interrupted while its tree was in   *)
(* the hop: the folder "in the way" is the tree itself.                    *)
DeletedOnlyIfCut == deleted # {} => cut

(* No save is lost: outside the hop none is ever out of reach, and in the  *)
(* hop only a cut run can cost one.                                        *)
SavesSafe == OthersSafe /\ DeletedOnlyIfCut

(* After a run in which nothing went wrong, every save it could attribute  *)
(* is where the cores look for it.                                         *)
MovedIntoPlace ==
    marker /\ mishaps = 0 =>
        /\ hop = {}
        /\ \A i \in Items : depth[i] # 0 /\ i[1] \notin Loose => depth[i] = 2
        /\ \A i \in Items : i[1] \in known => depth[i] # 1

(* "What moves (everything else is left untouched, never deleted)": no     *)
(* save is ever deleted.                                                   *)
NeverDeleted == deleted = {}

(* "Already in place? (idempotency / re-run safety.)": a save where its    *)
(* core looks for it is not moved again.                                   *)
InPlaceStays == [][\A i \in Items : depth[i] = 2 => depth'[i] = 2]_vars
=============================================================================
