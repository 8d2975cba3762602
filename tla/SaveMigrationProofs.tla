-------------------------- MODULE SaveMigrationProofs --------------------------
(***************************************************************************)
(* Theorems about SaveMigration, for any entries, any trees that need the  *)
(* hop and any number of mishaps: types, the safety of all other entries,  *)
(* what it takes to lose a save, and the outcome of an undisturbed run.    *)
(***************************************************************************)
EXTENDS SaveMigration, TLAPS

LEMMA ItemParts == \A i \in Items : i[1] \in Entries /\ i[2] \in Ages /\ i = <<i[1], i[2]>>
  BY DEF Items

LEMMA OfItems == \A i \in Items, e \in Entries : i \in Of(e) <=> i[1] = e
  BY DEF Items, Of

LEMMA OfEntry == \A e \in Entries : Of(e) \subseteq Items
  BY DEF Items, Of

\* No action leaves the types.
LEMMA TypeStep == TypeOK /\ [Next]_vars => TypeOK'
<1> SUFFICES ASSUME TypeOK, [Next]_vars PROVE TypeOK'
  OBVIOUS
<1> USE KindsAssumption, MishapsAssumption
<1>1. CASE Start
  BY <1>1 DEF Start, TypeOK, dirVars, itemVars
<1>2. ASSUME NEW e \in Entries, LeaveAlone(e) PROVE TypeOK'
  BY <1>2 DEF LeaveAlone, Turn, TypeOK, dirVars, itemVars
<1>3. ASSUME NEW e \in Entries, MoveInto(e) PROVE TypeOK'
  <2>1. depth' \in [Items -> Nat]
    BY <1>3 DEF MoveInto, TypeOK
  <2> QED
    BY <1>3, <2>1 DEF MoveInto, Turn, TypeOK
<1>4. ASSUME NEW e \in Entries, ClearHop(e) PROVE TypeOK'
  BY <1>4 DEF ClearHop, Turn, NeedsHop, TypeOK
<1>5. CASE HopOut
  <2>1. hopped' \subseteq Items
    BY <1>5, OfEntry DEF HopOut, Stored, TypeOK
  <2> QED
    BY <1>5, <2>1 DEF HopOut, TypeOK
<1>6. CASE MakeConsoleDir
  BY <1>6 DEF MakeConsoleDir, TypeOK, itemVars
<1>7. CASE NestIn
  <2>1. depth' \in [Items -> Nat]
    BY <1>7 DEF NestIn, TypeOK
  <2> QED
    BY <1>7, <2>1 DEF NestIn, TypeOK
<1>8. CASE WriteMarker
  BY <1>8 DEF WriteMarker, TypeOK, dirVars, itemVars
<1>9. CASE MarkerFails
  BY <1>9 DEF MarkerFails, Mishap, TypeOK, dirVars, itemVars
<1>10. CASE Dies
  BY <1>10 DEF Dies, Mishap, TypeOK, dirVars, itemVars
<1>11. CASE Ends
  BY <1>11 DEF Ends, TypeOK, dirVars, itemVars
<1>12. ASSUME NEW e \in Entries, MoveFails(e) PROVE TypeOK'
  BY <1>12 DEF MoveFails, Mishap, Turn, TypeOK, dirVars, itemVars
<1>13. ASSUME NEW e \in Entries, Play(e) PROVE TypeOK'
  <2>1. depth' \in [Items -> Nat]
    BY <1>13 DEF Play, TypeOK
  <2> QED
    BY <1>13, <2>1 DEF Play, TypeOK
<1>14. CASE UNCHANGED vars
  BY <1>14 DEF vars, TypeOK, dirVars, itemVars
<1> QED
  BY <1>1, <1>2, <1>3, <1>4, <1>5, <1>6, <1>7, <1>8, <1>9, <1>10, <1>11, <1>12, <1>13, <1>14
     DEF Next, Migrate

LEMMA TypeInit == Init => TypeOK
<1> SUFFICES ASSUME Init PROVE TypeOK
  OBVIOUS
<1>1. depth \in [Items -> Nat]
  BY DEF Init
<1>2. flat \subseteq Entries
  BY DEF Init
<1> QED
  BY <1>1, <1>2, KindsAssumption, MishapsAssumption DEF Init, TypeOK

\* Every reachable state is well typed.
THEOREM MigrationTypeCorrect == Spec => []TypeOK
<1>1. Init => TypeOK
  BY TypeInit
<1>2. TypeOK /\ [Next]_vars => TypeOK'
  BY TypeStep
<1> QED
  BY <1>1, <1>2, PTL DEF Spec

-----------------------------------------------------------------------------
(* Entries that need no hop: what lies at the destination is known to.     *)

OwnHolds == \A i \in Items : i[1] \notin SelfNested /\ depth[i] = 2 => i[1] \in own
Others == OthersSafe /\ OwnHolds

LEMMA OthersStep == TypeOK /\ Others /\ [Next]_vars => Others'
<1> SUFFICES ASSUME TypeOK, Others, [Next]_vars PROVE Others'
  OBVIOUS
<1> USE KindsAssumption
<1>0. depth \in [Items -> Nat] /\ hopped \subseteq Items /\ current \in Entries
      /\ (app \in {"hop", "dir", "nest"} => current \in SelfNested)
  BY DEF TypeOK
<1>1. CASE UNCHANGED <<own, depth, hopped, deleted>>
  BY <1>1 DEF Others, OthersSafe, OwnHolds
<1>2. ASSUME NEW e \in Entries, MoveInto(e) PROVE Others'
  <2>1. ASSUME NEW i \in Items, i[1] \notin SelfNested
        PROVE  i \notin hopped' \cup deleted' /\ depth'[i] <= 2 /\ (depth'[i] = 2 => i[1] \in own')
    <3>1. /\ i \notin hopped \cup deleted /\ depth[i] <= 2 /\ (depth[i] = 2 => i[1] \in own)
          /\ depth[i] \in Nat /\ (i \in Of(e) <=> i[1] = e)
      BY <1>0, <2>1, OfItems DEF Others, OthersSafe, OwnHolds
    <3>2. /\ depth'[i] = (IF i \in Stored(e) THEN depth[i] + 1 ELSE depth[i])
          /\ e \notin own /\ own' = own \cup {e} /\ hopped' = hopped /\ deleted' = deleted
      BY <1>2 DEF MoveInto
    <3>3. CASE i \in Stored(e)
      BY <3>1, <3>2, <3>3 DEF Stored
    <3>4. CASE i \notin Stored(e)
      BY <3>1, <3>2, <3>4
    <3> QED
      BY <3>3, <3>4
  <2> QED
    BY <2>1 DEF Others, OthersSafe, OwnHolds
<1>3. ASSUME NEW e \in Entries, ClearHop(e) PROVE Others'
  BY <1>3 DEF ClearHop, Others, OthersSafe, OwnHolds
<1>4. CASE HopOut
  <2>1. /\ depth' = depth /\ deleted' = deleted /\ own' = own \ {current}
        /\ hopped' = hopped \cup Stored(current) /\ current \in SelfNested
    BY <1>0, <1>4 DEF HopOut
  <2>2. \A i \in Items : i \in Stored(current) => i[1] = current
    BY <1>0, OfItems DEF Stored
  <2> QED
    BY <2>1, <2>2 DEF Others, OthersSafe, OwnHolds
<1>5. CASE NestIn
  <2>1. /\ \A i \in Items : i[1] # current => depth'[i] = depth[i]
        /\ deleted' = deleted /\ own' = own \cup {current} /\ hopped' \subseteq hopped
        /\ current \in SelfNested
    BY <1>0, <1>5, OfItems DEF NestIn
  <2> QED
    BY <2>1 DEF Others, OthersSafe, OwnHolds
<1>6. ASSUME NEW e \in Entries, Play(e) PROVE Others'
  <2>1. /\ hopped' = hopped /\ deleted' = deleted /\ own' = own \cup {e}
        /\ \A i \in Items : \/ depth'[i] = depth[i]
                            \/ depth'[i] = 2 /\ i = <<e, "new">>
    BY <1>0, <1>6 DEF Play
  <2>2. \A i \in Items : i = <<e, "new">> => i[1] = e
    OBVIOUS
  <2> QED
    BY <2>1, <2>2 DEF Others, OthersSafe, OwnHolds
<1> QED
  BY <1>1, <1>2, <1>3, <1>4, <1>5, <1>6
     DEF Next, Migrate, Start, LeaveAlone, MakeConsoleDir, WriteMarker, MarkerFails, Dies, Ends,
         MoveFails, vars, dirVars, itemVars

\* Saves of all entries but the self-nested ones are where they were or where they belong,
\* however often the migration is interrupted and repeated.
THEOREM OthersStaySafe == Spec => []OthersSafe
<1>1. Init => Others
  <2>1. ASSUME Init PROVE \A i \in Items : depth[i] <= 1 /\ depth[i] # 2
    BY <2>1 DEF Init
  <2> QED
    BY <2>1 DEF Init, Others, OthersSafe, OwnHolds
<1>2. TypeOK /\ Others /\ [Next]_vars => Others'
  BY OthersStep
<1>3. Others => OthersSafe
  BY DEF Others
<1> QED
  BY <1>1, <1>2, <1>3, MigrationTypeCorrect, PTL DEF Spec

-----------------------------------------------------------------------------
(* What is in the hop is the tree under way, unless a run was cut.         *)

HopAlone ==
    ~cut => /\ deleted = {}
            /\ hopped \subseteq Of(current)
            /\ app \notin {"dir", "nest"} => hopped = {}

LEMMA HopStep == TypeOK /\ HopAlone /\ [Next]_vars => HopAlone'
<1> SUFFICES ASSUME TypeOK, HopAlone, [Next]_vars, ~cut'
             PROVE  /\ deleted' = {} /\ hopped' \subseteq Of(current')
                    /\ app' \notin {"dir", "nest"} => hopped' = {}
  BY DEF HopAlone
<1>0. app \in {"down", "run", "hop", "dir", "nest", "up"}
  BY DEF TypeOK
<1>1. CASE UNCHANGED vars
  BY <1>1 DEF vars, itemVars, HopAlone
<1>2. ASSUME NEW e \in Entries, ClearHop(e)
      PROVE  deleted' = {} /\ hopped' = {}
  BY <1>2 DEF ClearHop, Turn, HopAlone
<1>3. CASE HopOut
  BY <1>3 DEF HopOut, Stored, HopAlone
<1>4. CASE NestIn
  BY <1>4 DEF NestIn, HopAlone
<1>5. CASE Start \/ MakeConsoleDir \/ WriteMarker \/ MarkerFails \/ Dies \/ Ends
  BY <1>5 DEF Start, MakeConsoleDir, WriteMarker, MarkerFails, Dies, Ends, itemVars, HopAlone
<1>6. ASSUME NEW e \in Entries, LeaveAlone(e) \/ MoveInto(e) \/ MoveFails(e) \/ Play(e)
      PROVE  deleted' = {} /\ hopped' = {} /\ app' \notin {"dir", "nest"}
  BY <1>0, <1>6 DEF LeaveAlone, MoveInto, MoveFails, Play, Turn, itemVars, HopAlone
<1> QED
  BY <1>1, <1>2, <1>3, <1>4, <1>5, <1>6 DEF Next, Migrate, ClearHop

\* A save is deleted only after a run was interrupted with its tree in the hop.
THEOREM CutBeforeDeleted == Spec => []DeletedOnlyIfCut
<1>1. Init => HopAlone
  BY DEF Init, HopAlone
<1>2. TypeOK /\ HopAlone /\ [Next]_vars => HopAlone'
  BY HopStep
<1>3. HopAlone => DeletedOnlyIfCut
  BY DEF HopAlone, DeletedOnlyIfCut
<1> QED
  BY <1>1, <1>2, <1>3, MigrationTypeCorrect, PTL DEF Spec

-----------------------------------------------------------------------------
(* As long as nothing went wrong: what still lies flat is still to be      *)
(* visited, and what was visited is in place.                              *)

Hopping == app \in {"dir", "nest"}
Running == app \in {"run", "hop", "dir", "nest"}
Wanted(i) == i[1] \notin Loose \/ i[1] \in known

Before == ~marker /\ app = "down" =>
    own = {} /\ \A i \in Items : depth[i] <= 1 /\ (depth[i] = 1 => i[1] \in flat)
During == Running =>
    /\ ~marker /\ own \cap todo = {}
    /\ \A i \in Items : /\ i[1] \in todo => depth[i] <= 1
                        /\ depth[i] = 1 /\ Wanted(i) => i[1] \in todo
InHop ==
    /\ hop \subseteq (IF Hopping THEN {current} ELSE {})
    /\ \A i \in Items : i \in hopped <=> Hopping /\ i[1] = current /\ depth[i] > 0
After == app = "up" => marker
Placed == marker => \A i \in Items : depth[i] = 1 => ~Wanted(i)
Clean ==
    mishaps = 0 =>
        /\ ~cut /\ deleted = {} /\ (\A i \in Items : depth[i] <= 2)
        /\ Before /\ During /\ InHop /\ After /\ Placed

\* What is stored of an entry while nothing of it is in the hop.
LEMMA StoredItems ==
    ASSUME TypeOK, InHop, ~Hopping, deleted = {}, NEW e \in Entries
    PROVE  \A i \in Items : i \in Stored(e) <=> i[1] = e /\ depth[i] > 0
  BY OfItems, OfEntry DEF InHop, Stored

LEMMA CleanStep == TypeOK /\ Clean /\ [Next]_vars => Clean'
<1> SUFFICES ASSUME TypeOK, Clean, [Next]_vars, mishaps' = 0 PROVE Clean'
  BY DEF Clean
<1>0. /\ mishaps \in Nat /\ depth \in [Items -> Nat] /\ current \in Entries
      /\ todo \subseteq Entries /\ app \in {"down", "run", "hop", "dir", "nest", "up"}
      /\ (app \in {"hop", "dir", "nest"} => current \in todo /\ current \notin Loose)
  BY KindsAssumption DEF TypeOK
<1>1. CASE UNCHANGED vars
  BY <1>1 DEF vars, dirVars, itemVars, Clean, Before, During, InHop, After, Placed, Hopping, Running,
     Wanted
<1>2. CASE MarkerFails \/ Dies \/ \E e \in Entries : MoveFails(e)
  BY <1>0, <1>2 DEF MarkerFails, Dies, MoveFails, Mishap
<1> SUFFICES ASSUME mishaps = 0, Next PROVE Clean'
  BY <1>0, <1>1, <1>2 DEF Next, Start, Migrate, LeaveAlone, MoveInto, ClearHop, HopOut,
     MakeConsoleDir, NestIn, WriteMarker, Ends, Play
<1>w. /\ ~cut /\ deleted = {} /\ (\A i \in Items : depth[i] <= 2)
      /\ Before /\ During /\ InHop /\ After /\ Placed
  BY DEF Clean
<1>3. CASE Start
  <2>1. CASE marker
    BY <1>w, <1>3, <2>1 DEF Start, dirVars, itemVars, Clean, Before, During, InHop, After, Placed,
       Hopping, Running, Wanted
  <2>2. CASE ~marker
    <3>1. own = {} /\ \A i \in Items : depth[i] <= 1 /\ (depth[i] = 1 => i[1] \in flat)
      BY <1>w, <1>3, <2>2 DEF Start, Before
    <3> QED
      BY <1>w, <1>3, <2>2, <3>1 DEF Start, dirVars, itemVars, Clean, Before, During, InHop, After,
         Placed, Hopping, Running
  <2> QED
    BY <2>1, <2>2
<1>4. ASSUME NEW e \in Entries, LeaveAlone(e) PROVE Clean'
  <2>1. app = "run" /\ e \in todo /\ app' = app /\ todo' = todo \ {e} /\ e \in Loose \ known
    BY <1>w, <1>4 DEF LeaveAlone, Turn, During, Running
  <2> QED
    BY <1>w, <1>4, <2>1 DEF LeaveAlone, dirVars, itemVars, Clean, Before, During, InHop, After,
       Placed, Hopping, Running, Wanted
<1>5. ASSUME NEW e \in Entries, MoveInto(e) PROVE Clean'
  <2>1. /\ app = "run" /\ e \in todo /\ app' = app /\ todo' = todo \ {e} /\ own' = own \cup {e}
        /\ UNCHANGED <<mishaps, cut, deleted, marker, known, hop, hopped, current>>
    BY <1>5 DEF MoveInto, Turn
  <2>2. \A i \in Items : i \in Stored(e) <=> i[1] = e /\ depth[i] > 0
    BY <1>w, <2>1, StoredItems DEF Hopping
  <2>3. \A i \in Items : IF i[1] = e /\ depth[i] > 0 THEN depth'[i] = 2 ELSE depth'[i] = depth[i]
    <3>1. \A i \in Items : i[1] = e /\ depth[i] > 0 => depth[i] = 1
      BY <1>0, <1>w, <2>1 DEF During, Running
    <3>2. \A i \in Items : depth'[i] = IF i \in Stored(e) THEN depth[i] + 1 ELSE depth[i]
      BY <1>5 DEF MoveInto
    <3> QED
      BY <2>2, <3>1, <3>2
  <2>4. During'
    BY <1>w, <2>1, <2>3, <1>0 DEF During, Running, Wanted
  <2>5. InHop'
    BY <1>w, <2>1, <2>3 DEF InHop, Hopping
  <2> QED
    BY <1>w, <1>0, <2>1, <2>3, <2>4, <2>5 DEF Clean, Before, After, Placed, Running, During
<1>6. ASSUME NEW e \in Entries, ClearHop(e) PROVE Clean'
  <2>1. /\ app = "run" /\ app' = "hop" /\ hop' = hop \ {e} /\ hopped' = hopped \ Of(e)
        /\ deleted' = deleted \cup (hopped \cap Of(e)) /\ current' = e
        /\ UNCHANGED <<mishaps, cut, depth, marker, own, flat, todo, known>>
    BY <1>6 DEF ClearHop, Turn
  <2>2. hop = {} /\ \A i \in Items : i \notin hopped
    BY <1>w, <2>1 DEF InHop, Hopping
  <2>3. hopped = {}
    BY <2>2 DEF TypeOK
  <2> QED
    BY <1>w, <2>1, <2>2, <2>3 DEF Clean, Before, During, InHop, After, Placed, Hopping, Running, Wanted
<1>7. CASE HopOut
  <2>1. /\ app = "hop" /\ app' = "dir" /\ hop' = hop \cup {current} /\ own' = own \ {current}
        /\ hopped' = hopped \cup Stored(current)
        /\ UNCHANGED <<mishaps, cut, depth, marker, todo, known, current, deleted>>
    BY <1>7 DEF HopOut
  <2>2. \A i \in Items : i \in Stored(current) <=> i[1] = current /\ depth[i] > 0
    BY <1>0, <1>w, <2>1, StoredItems DEF Hopping
  <2>3. InHop'
    BY <1>w, <2>1, <2>2 DEF InHop, Hopping
  <2> QED
    BY <1>w, <2>1, <2>3 DEF Clean, Before, During, After, Placed, Running, Wanted
<1>8. CASE MakeConsoleDir
  BY <1>w, <1>8 DEF MakeConsoleDir, itemVars, Clean, Before, During, InHop, After, Placed, Hopping,
     Running, Wanted
<1>9. CASE NestIn
  <2>1. /\ app = "nest" /\ app' = "run" /\ hop' = hop \ {current} /\ own' = own \cup {current}
        /\ hopped' = hopped \ Of(current) /\ todo' = todo \ {current}
        /\ UNCHANGED <<mishaps, cut, marker, known, current, deleted>>
    BY <1>9 DEF NestIn
  <2>2. \A i \in Items : i \in hopped \cap Of(current) <=> i[1] = current /\ depth[i] > 0
    BY <1>0, <1>w, <2>1, OfItems DEF InHop, Hopping
  <2>3. \A i \in Items : IF i[1] = current /\ depth[i] > 0 THEN depth'[i] = 2
                                                         ELSE depth'[i] = depth[i]
    <3>1. \A i \in Items : i[1] = current /\ depth[i] > 0 => depth[i] = 1
      BY <1>0, <1>w, <2>1 DEF During, Running
    <3>2. \A i \in Items : depth'[i] = IF i \in hopped \cap Of(current) THEN depth[i] + 1 ELSE depth[i]
      BY <1>9 DEF NestIn
    <3> QED
      BY <2>2, <3>1, <3>2
  <2>4. During'
    BY <1>w, <2>1, <2>3, <1>0 DEF During, Running, Wanted
  <2>5. InHop'
    <3>1. \A i \in Items : i \notin hopped'
      BY <1>0, <1>w, <2>1, OfItems DEF InHop, Hopping
    <3> QED
      BY <1>w, <2>1, <3>1 DEF InHop, Hopping
  <2> QED
    BY <1>w, <1>0, <2>1, <2>3, <2>4, <2>5 DEF Clean, Before, After, Placed, Running, During
<1>10. CASE WriteMarker
  <2>1. app = "run" /\ todo = {} /\ marker' /\ app' = "up"
        /\ UNCHANGED <<mishaps, cut, deleted, depth, own, flat, todo, known, hop, hopped, current>>
    BY <1>10 DEF WriteMarker, dirVars, itemVars
  <2>2. Placed'
    BY <1>w, <2>1 DEF During, Running, Placed, Wanted
  <2> QED
    BY <1>w, <2>1, <2>2 DEF Clean, Before, During, InHop, After, Hopping, Running
<1>11. CASE Ends
  BY <1>w, <1>11 DEF Ends, dirVars, itemVars, Clean, Before, During, InHop, After, Placed, Hopping,
     Running, Wanted
<1>12. ASSUME NEW e \in Entries, Play(e) PROVE Clean'
  <2>1. /\ app = "up" /\ app' = app /\ marker
        /\ UNCHANGED <<mishaps, cut, deleted, marker, todo, known, hop, hopped, current>>
    BY <1>w, <1>12 DEF Play, After
  <2>2. \A i \in Items : depth'[i] = depth[i] \/ depth'[i] = 2
    BY <1>0, <1>12 DEF Play
  <2> QED
    BY <1>w, <2>1, <2>2 DEF Clean, Before, During, InHop, After, Placed, Hopping, Running, Wanted
<1> QED
  BY <1>2, <1>3, <1>4, <1>5, <1>6, <1>7, <1>8, <1>9, <1>10, <1>11, <1>12 DEF Next, Migrate

\* A run that nothing disturbs leaves every save it can attribute in place.
THEOREM UndisturbedMoves == Spec => []MovedIntoPlace
<1>1. Init => Clean
  <2>1. ASSUME Init PROVE \A i \in Items : depth[i] <= 1 /\ (depth[i] = 1 => i[1] \in flat)
    BY <2>1 DEF Init
  <2> QED
    BY <2>1 DEF Init, Clean, Before, During, InHop, After, Placed, Hopping, Running
<1>2. TypeOK /\ Clean /\ [Next]_vars => Clean'
  BY CleanStep
<1>3. TypeOK /\ Clean => MovedIntoPlace
  <2> SUFFICES ASSUME TypeOK, Clean, marker, mishaps = 0 PROVE MovedIntoPlace
    BY DEF MovedIntoPlace
  <2>1. ~Running /\ InHop /\ Placed /\ \A i \in Items : depth[i] <= 2 /\ depth[i] \in Nat
    BY DEF Clean, During, TypeOK
  <2>2. hop = {}
    BY <2>1 DEF InHop, Hopping, Running
  <2> QED
    BY <2>1, <2>2 DEF MovedIntoPlace, Placed, Wanted
<1> QED
  BY <1>1, <1>2, <1>3, MigrationTypeCorrect, PTL DEF Spec

(* Both at once: no save is lost outside a hop that was cut (MoveInto). *)
THEOREM SavesStaySafe == Spec => []SavesSafe
  BY OthersStaySafe, CutBeforeDeleted, PTL DEF SavesSafe

=============================================================================
