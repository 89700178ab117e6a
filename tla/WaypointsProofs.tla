--------------------------- MODULE WaypointsProofs ---------------------------
(***************************************************************************)
(* What is sent is what was asked for, the types, and what saturation      *)
(* keeps to, proved for any waypoints, mappings, limits and modes, and any *)
(* number of calls.                                                        *)
(*                                                                         *)
(* The trajectory the Operator keeps is, unless it is interpolated or      *)
(* counts as kept, the one _construct_trajectory would make again: every   *)
(* call that changes what it is made of either discards it or is counted.  *)
(* While _saturate is running, what is behind its counter has been slowed  *)
(* down as often as it takes.                                              *)
(***************************************************************************)
EXTENDS Waypoints, FiniteSetTheorems, TLAPS

PathType == path \in Seq(Waypoint)

Start == [Slot -> Position \cup {0}]

(* The trajectory is a record, whatever its parts are.                      *)
Shaped(t) == "raw" \in DOMAIN t

KeptIsCurrent ==
    /\ Shaped(traj)
    /\ constructed /\ ~kept /\ traj.raw => \E s \in Start : traj = Built(s)

-----------------------------------------------------------------------------
(* The waypoints. *)

LEMMA ConcatType ==
    ASSUME NEW S, NEW p \in Seq(S), NEW q \in Seq(S), NEW n \in 0 .. Len(q)
    PROVE  p \o SubSeq(q, 1, n) \in Seq(S)
OBVIOUS

LEMMA AddType ==
    ASSUME PathType, NEW points \in Seq(Waypoint), AddWaypoints(points)
    PROVE  PathType'
<1>1. CASE path' = path
  BY <1>1 DEF PathType
<1>2. CASE \E n \in 0 .. Len(points) : path' = path \o SubSeq(points, 1, n)
  BY <1>2, ConcatType DEF PathType
<1> QED BY <1>1, <1>2 DEF AddWaypoints

LEMMA RemoveType ==
    ASSUME PathType, NEW n \in {0, Len(path) - 1} \cap Nat, RemoveWaypoints(n)
    PROVE  PathType'
<1>1. Len(path) \in Nat /\ n \in Nat /\ (n = 0 \/ n <= Len(path))
  BY DEF PathType
<1>2. SubSeq(path, 1, n) \in Seq(Waypoint)
  BY <1>1 DEF PathType
<1> QED BY <1>2 DEF RemoveWaypoints, PathType

LEMMA PathTypeHolds == Spec => []PathType
<1>1. Init => PathType
  BY DEF Init, PathType
<1>2. PathType /\ [Next]_vars => PathType'
  <2> SUFFICES ASSUME PathType, [Next]_vars PROVE PathType'
    OBVIOUS
  <2>1. ASSUME NEW p \in Waypoint, AddWaypoints(<<p>>) PROVE PathType'
    <3>1. <<p>> \in Seq(Waypoint)
      OBVIOUS
    <3> QED BY <2>1, <3>1, AddType
  <2>2. ASSUME NEW p \in Waypoint, NEW q \in Waypoint, AddWaypoints(<<p, q>>)
        PROVE  PathType'
    <3>1. <<p, q>> \in Seq(Waypoint)
      OBVIOUS
    <3> QED BY <2>2, <3>1, AddType
  <2>3. ASSUME NEW n \in {0, Len(path) - 1} \cap Nat, RemoveWaypoints(n)
        PROVE  PathType'
    BY <2>3, RemoveType
  <2>4. CASE path' = path
    BY <2>4 DEF PathType
  <2> QED
    BY <2>1, <2>2, <2>3, <2>4
    DEF Next, LoadDescription, SetJointIndices, SetInterpolationMode, GetTrajectory,
        Interpolate, Send, Overread, InterpolateUnlimited, SaturateRound, Constructs,
        Breaks, operatorVars, vars
<1> QED BY <1>1, <1>2, PTL DEF Spec

-----------------------------------------------------------------------------
(* The trajectory. *)

(* What is made begins with the references it was made from.                *)
LEMMA BuiltStart ==
    ASSUME PathType, NEW start
    PROVE  Built(start).points[1] = start
<1>1. 1 \in 1 .. Len(path) + 1
  BY DEF PathType
<1> QED BY <1>1 DEF Built, Elements

LEMMA CandidateIsCurrent ==
    ASSUME KeptIsCurrent, NEW t \in Candidates
    PROVE  /\ Shaped(t)
           /\ t.raw /\ (constructed => ~kept) => \E s \in Start : t = Built(s)
<1>1. CASE constructed
  BY <1>1 DEF Candidates, KeptIsCurrent
<1>2. CASE ~constructed
  <2>1. PICK s \in Starts : t = Built(s)
    BY <1>2 DEF Candidates
  <2> QED BY <2>1 DEF Starts, Start, Built, Shaped
<1> QED BY <1>1, <1>2

(* Built is made of what none of these steps changes.                       *)
LEMMA SameBuilt ==
    ASSUME map' = map, path' = path, mode' = mode, NEW s
    PROVE  Built(s)' = Built(s)
BY DEF Built, Elements, Moved

(* Interpolation leaves a trajectory as it is, or marks it.                 *)
LEMMA InterpolatedMarked ==
    ASSUME NEW t, Shaped(t), NEW u \in Interpolated(t)
    PROVE  Shaped(u) /\ (u.raw => u = t)
<1>1. ASSUME NEW p, u = [t EXCEPT !.interp = "RAW", !.points = p, !.raw = FALSE]
      PROVE  Shaped(u) /\ ~u.raw
  BY <1>1 DEF Shaped
<1>2. u = t \/ \E p : u = [t EXCEPT !.interp = "RAW", !.points = p, !.raw = FALSE]
  <2>1. CASE Interpolated(t) = {t}
    BY <2>1
  <2>2. CASE t.interp = "OPTIMAL" /\ ~(NothingToDo(t) \/ ~described)
    BY <2>2 DEF Interpolated
  <2>3. CASE t.interp = "SPLINE" /\ ~(NothingToDo(t) \/ ~described)
    BY <2>3 DEF Interpolated
  <2>4. CASE \/ NothingToDo(t) \/ ~described
             \/ t.interp \notin {"OPTIMAL", "SPLINE"}
    BY <2>4 DEF Interpolated
  <2> QED BY <2>1, <2>2, <2>3, <2>4
<1> QED BY <1>1, <1>2

LEMMA MadeCurrent ==
    ASSUME KeptIsCurrent, Constructs, NEW t \in Candidates,
           Shaped(traj'), traj'.raw => traj' = t
    PROVE  KeptIsCurrent'
<1>1. map' = map /\ path' = path /\ mode' = mode /\ kept' = (kept /\ constructed)
  BY DEF Constructs
<1>2. ASSUME ~kept', traj'.raw PROVE \E s \in Start : traj' = Built(s)'
  <2>1. PICK s \in Start : t = Built(s)
    BY <1>1, <1>2, CandidateIsCurrent
  <2> QED BY <1>1, <1>2, <2>1, SameBuilt
<1> QED BY <1>2 DEF KeptIsCurrent, Shaped

LEMMA NextCurrent == KeptIsCurrent /\ [Next]_vars => KeptIsCurrent'
<1> SUFFICES ASSUME KeptIsCurrent, [Next]_vars PROVE KeptIsCurrent'
  OBVIOUS
<1>1. CASE traj' = traj /\ (~constructed' \/ kept')
  BY <1>1 DEF KeptIsCurrent, Shaped
<1>2. CASE /\ map' = map /\ path' = path /\ mode' = mode
           /\ traj' = traj /\ constructed' = constructed /\ kept' = kept
  BY <1>2, SameBuilt DEF KeptIsCurrent, Shaped
<1>3. CASE GetTrajectory \/ Send
  <2>1. Constructs /\ traj' \in Candidates
    BY <1>3 DEF GetTrajectory, Send
  <2>2. Shaped(traj')
    BY <2>1, CandidateIsCurrent
  <2> QED BY <2>1, <2>2, MadeCurrent
<1>4. CASE Interpolate
  <2>1. Constructs
    BY <1>4 DEF Interpolate
  <2>2. PICK t \in Candidates : traj' = t \/ traj' \in Interpolated(t)
    BY <1>4 DEF Interpolate
  <2>3. Shaped(t)
    BY CandidateIsCurrent
  <2>4. Shaped(traj') /\ (traj'.raw => traj' = t)
    BY <2>2, <2>3, InterpolatedMarked
  <2> QED BY <2>1, <2>4, MadeCurrent
<1>5. CASE SaturateRound
  <2>1. CASE traj' = traj
    BY <1>2, <1>5, <2>1 DEF SaturateRound, operatorVars
  <2>2. CASE traj' = [traj EXCEPT !.points = loop.out, !.raw = FALSE]
    <3>1. Shaped(traj') /\ ~traj'.raw
      BY <2>2 DEF KeptIsCurrent, Shaped
    <3> QED BY <3>1 DEF KeptIsCurrent, Shaped
  <2> QED BY <1>5, <2>1, <2>2 DEF SaturateRound
<1>6. CASE \E indices \in Mappings, byName \in BOOLEAN : SetJointIndices(indices, byName)
  <2>1. traj' = traj /\ path' = path /\ mode' = mode /\ kept' = kept
    BY <1>6 DEF SetJointIndices
  <2>2. ~constructed' \/ (constructed' = constructed /\ map' = map)
    BY <1>6 DEF SetJointIndices
  <2> QED BY <1>1, <1>2, <2>1, <2>2
<1>7. ASSUME NEW points, AddWaypoints(points) PROVE KeptIsCurrent'
  <2>1. traj' = traj /\ map' = map /\ mode' = mode /\ kept' = kept
    BY <1>7 DEF AddWaypoints
  <2>2. ~constructed' \/ (constructed' = constructed /\ path' = path)
    BY <1>7 DEF AddWaypoints
  <2> QED BY <1>1, <1>2, <2>1, <2>2
<1>8. ASSUME NEW n, RemoveWaypoints(n) PROVE KeptIsCurrent'
  BY <1>1, <1>8 DEF RemoveWaypoints
<1>9. CASE \E m \in Modes : SetInterpolationMode(m)
  <2>1. PICK m \in Modes : SetInterpolationMode(m)
    BY <1>9
  <2>2. traj' = traj /\ constructed' = constructed /\ kept' = (kept \/ constructed)
    BY <2>1 DEF SetInterpolationMode
  <2> QED BY <1>1, <2>2
<1>10. CASE LoadDescription \/ Overread \/ InterpolateUnlimited
  BY <1>2, <1>10
  DEF LoadDescription, Overread, InterpolateUnlimited, Breaks, operatorVars
<1>11. CASE UNCHANGED vars
  BY <1>2, <1>11 DEF operatorVars, vars
<1> QED
  BY <1>3, <1>4, <1>5, <1>6, <1>7, <1>8, <1>9, <1>10, <1>11 DEF Next

(* What sendNewTrajectory() sends is made of all waypoints, under the       *)
(* mapping and in the mode set by then, for any sequence of calls in which  *)
(* no waypoint is taken away and no mode set once the trajectory is made.   *)
THEOREM SentIsAskedHolds == Spec => SentIsAsked
<1>1. Init => KeptIsCurrent
  BY DEF Init, KeptIsCurrent, NoTraj, Shaped
<1>2. PathType /\ KeptIsCurrent /\ [Next]_vars =>
          [Send /\ ~Refuses(traj') /\ traj'.raw /\ ~kept' =>
               traj' = Built(traj'.points[1])]_vars
  <2> SUFFICES ASSUME PathType, KeptIsCurrent, Send, traj'.raw, ~kept'
               PROVE  traj' = Built(traj'.points[1])
    OBVIOUS
  <2>1. traj' \in Candidates /\ (constructed => ~kept)
    BY DEF Send, Constructs
  <2>2. PICK s \in Start : traj' = Built(s)
    BY <2>1, CandidateIsCurrent
  <2> QED BY <2>2, BuiltStart
<1> QED BY <1>1, <1>2, NextCurrent, PathTypeHolds, PTL DEF Spec, SentIsAsked

-----------------------------------------------------------------------------
(* The greatest element of a finite set of integers.  That there is one is  *)
(* shown with the sets of the elements that are greater: of these, some is  *)
(* least.                                                                   *)
Above(S, x) == {y \in S : y > x}

LEMMA GreatestExists ==
    ASSUME NEW S \in SUBSET Int, IsFiniteSet(S), S # {}
    PROVE  \E x \in S : \A y \in S : x >= y
<1>. DEFINE T == {Above(S, x) : x \in S}
<1>1. IsWellFoundedOn(StrictSubsetOrdering(S), FiniteSubsetsOf(S))
  BY FS_StrictSubsetOrderingWellFounded
<1>2. T \subseteq FiniteSubsetsOf(S) /\ T # {}
  <2>1. \A x \in S : Above(S, x) \in SUBSET S
    BY DEF Above
  <2>2. FiniteSubsetsOf(S) = SUBSET S
    BY FS_FiniteSubsetsOfFinite
  <2>3. T \subseteq SUBSET S /\ T # {}
    BY <2>1
  <2>. QED  BY <2>2, <2>3
<1>. HIDE DEF T
<1>3. PICK A \in T : \A B \in T : <<B, A>> \notin StrictSubsetOrdering(S)
  BY <1>1, <1>2, WFMin
<1>. USE DEF T
<1>4. PICK x \in S : A = Above(S, x)
  OBVIOUS
<1>5. ASSUME NEW y \in S, ~(x >= y) PROVE FALSE
  <2>1. y > x
    BY <1>5
  <2>2. Above(S, y) \subseteq Above(S, x)
    <3>1. \A z \in S : z \in Int /\ (z > y => z > x)
      BY <2>1
    <3>. QED  BY <3>1 DEF Above
  <2>3. y \in Above(S, x) /\ y \notin Above(S, y)
    BY <2>1 DEF Above
  <2>4. Above(S, y) \in SUBSET S /\ Above(S, x) \in SUBSET S
    BY DEF Above
  <2>5. <<Above(S, y), Above(S, x)>> \in StrictSubsetOrdering(S)
    BY <2>2, <2>3, <2>4 DEF StrictSubsetOrdering
  <2>. QED  BY <1>3, <1>4, <2>5
<1>. QED  BY <1>5

LEMMA MaxIsGreatest ==
    ASSUME NEW S \in SUBSET Int, IsFiniteSet(S), S # {}
    PROVE  Max(S) \in S /\ \A y \in S : Max(S) >= y
<1>1. \E x \in S : \A y \in S : x >= y
  BY GreatestExists
<1>. QED  BY <1>1 DEF Max

LEMMA AbsType ==
    ASSUME NEW x \in Int
    PROVE  Abs(x) \in Nat /\ x <= Abs(x) /\ -x <= Abs(x) /\ (Abs(x) = x \/ Abs(x) = -x)
BY DEF Abs

(* The greatest component is a natural number, and no component is greater. *)
LEMMA GreatestType ==
    ASSUME NEW f \in [Slot -> Int], traj.active \subseteq Slot
    PROVE  /\ Greatest(f) \in Nat
           /\ \A j \in traj.active : Abs(f[j]) <= Greatest(f)
           /\ Greatest(f) = 0 \/ \E j \in traj.active : Greatest(f) = Abs(f[j])
<1>. DEFINE g == [j \in traj.active |-> Abs(f[j])]
            T == {Abs(f[j]) : j \in traj.active}
<1>1. IsFiniteSet(traj.active)
  <2>1. IsFiniteSet(Slot)
    BY FS_Interval, WaypointsAssumption DEF Slot
  <2>. QED  BY <2>1, FS_Subset
<1>2. g \in Surjection(traj.active, T)
  BY DEF Surjection
<1>3. IsFiniteSet(T)
  <2>. HIDE DEF g, T
  <2>. QED  BY <1>1, <1>2, FS_Surjection
<1>4. IsFiniteSet({0} \cup T)
  BY <1>3, FS_Singleton, FS_Union
<1>5. T \subseteq Nat
  BY AbsType
<1>6. /\ Max({0} \cup T) \in {0} \cup T
      /\ \A y \in {0} \cup T : Max({0} \cup T) >= y
  <2>1. {0} \cup T \in SUBSET Int /\ {0} \cup T # {}
    BY <1>5
  <2>. QED  BY <1>4, <2>1, MaxIsGreatest
<1>7. Greatest(f) = Max({0} \cup T)
  BY DEF Greatest
<1>8. Greatest(f) \in Nat
  BY <1>5, <1>6, <1>7
<1>9. \A y \in T : y <= Greatest(f)
  <2>1. \A y \in T : y \in Int /\ Max({0} \cup T) >= y
    BY <1>5, <1>6
  <2>. QED  BY <1>7, <1>8, <2>1
<1>10. Greatest(f) = 0 \/ \E j \in traj.active : Greatest(f) = Abs(f[j])
  BY <1>6, <1>7
<1>. QED  BY <1>8, <1>9, <1>10

-----------------------------------------------------------------------------
(* Types.  A map that was accepted moves slots there are, and the locals of *)
(* saturate() are elements while it runs, over at least two elements.       *)
MapFits == Range(map) \subseteq Slot

Saturation == [up : Nat \ {0}, last : Point, target : Point, next : Point, out : Seq(Point)]

LoopType == loop # Resting => loop \in Saturation /\ Len(traj.points) >= 2

TypeInv == TypeOK /\ MapFits /\ LoopType

(* The last entry of the map for a slot.                                    *)
LEMMA LastEntry ==
    ASSUME map \in Seq(Nat), NEW s \in Range(map)
    PROVE  LET last == CHOOSE i \in DOMAIN map :
                           map[i] = s /\ \A k \in DOMAIN map : map[k] = s => k <= i
           IN  last \in 1 .. Len(map)
<1>. DEFINE S == {i \in DOMAIN map : map[i] = s}
<1>1. DOMAIN map = 1 .. Len(map) /\ Len(map) \in Nat
  OBVIOUS
<1>2. S \in SUBSET Int /\ S # {} /\ S \in SUBSET (1 .. Len(map))
  BY <1>1 DEF Range
<1>3. IsFiniteSet(S)
  <2>1. IsFiniteSet(1 .. Len(map))
    BY <1>1, FS_Interval
  <2>. QED  BY <1>2, <2>1, FS_Subset
<1>4. PICK i \in S : \A k \in S : i >= k
  BY <1>2, <1>3, GreatestExists
<1>5. i \in DOMAIN map /\ map[i] = s /\ \A k \in DOMAIN map : map[k] = s => k <= i
  BY <1>1, <1>4
<1>. QED  BY <1>1, <1>5

LEMMA MovedType ==
    ASSUME map \in Seq(Nat), MapFits, NEW elem \in Point, NEW waypoint \in Seq(Int),
           Len(waypoint) >= Len(map)
    PROVE  Moved(elem, waypoint) \in Point
<1>. SUFFICES ASSUME NEW s \in Slot PROVE Moved(elem, waypoint)[s] \in Int
  BY DEF Moved, Point
<1>1. CASE s \in Range(map)
  <2>. DEFINE last == CHOOSE i \in DOMAIN map :
                          map[i] = s /\ \A k \in DOMAIN map : map[k] = s => k <= i
  <2>1. last \in 1 .. Len(map)
    BY <1>1, LastEntry
  <2>2. Moved(elem, waypoint)[s] = waypoint[last]
    BY <1>1 DEF Moved
  <2>. HIDE DEF last
  <2>3. last \in 1 .. Len(waypoint)
    BY <2>1
  <2>. QED  BY <2>2, <2>3
<1>2. CASE s \notin Range(map)
  BY <1>2 DEF Moved, Point
<1>. QED  BY <1>1, <1>2

LEMMA MapType == TypeInv => map \in Seq(Nat)
<1>1. /\ \A m \in Mappings : m \in Seq(Nat)
      /\ <<>> \in Seq(Nat)
  BY WaypointsAssumption
<1>. QED  BY <1>1 DEF TypeInv, TypeOK, Unset

LEMMA WaypointType == ASSUME NEW w \in Waypoint PROVE w \in Seq(Int)
<1>1. PICK m \in Mappings : w \in [1 .. Len(m) -> Position]
  BY DEF Waypoint
<1>2. Len(m) \in Nat
  BY WaypointsAssumption
<1>3. w \in [1 .. Len(m) -> Int]
  BY <1>1, WaypointsAssumption
<1>. QED  BY <1>2, <1>3

LEMMA BuiltType ==
    ASSUME TypeInv, Fit, NEW start \in Starts
    PROVE  Built(start) \in Traj
<1>1. start \in Point
  <2>1. start \in [Slot -> Position \cup {0}]
    BY DEF Starts
  <2>2. Position \cup {0} \subseteq Int
    BY WaypointsAssumption
  <2>. QED  BY <2>1, <2>2 DEF Point
<1>2. path \in Seq(Waypoint) /\ map \in Seq(Nat) /\ MapFits /\ mode \in Modes
  BY MapType DEF TypeInv, TypeOK
<1>3. ASSUME NEW i \in 1 .. Len(path) + 1 PROVE Elements(start)[i] \in Point
  <2>1. CASE i = 1
    BY <1>1, <2>1 DEF Elements
  <2>2. CASE i # 1
    <3>1. i - 1 \in DOMAIN path
      BY <1>2, <1>3, <2>2
    <3>2. path[i - 1] \in Seq(Int) /\ Len(path[i - 1]) >= Len(map)
      BY <1>2, <3>1, WaypointType DEF Fit
    <3>3. Moved(start, path[i - 1]) \in Point
      BY <1>1, <1>2, <3>2, MovedType
    <3>. QED  BY <1>3, <2>2, <3>3 DEF Elements
  <2>. QED  BY <2>1, <2>2
<1>4. Elements(start) \in Seq(Point)
  BY <1>2, <1>3 DEF Elements
<1>5. Range(map) \in SUBSET Slot
  BY <1>2 DEF MapFits
<1>. QED  BY <1>2, <1>4, <1>5 DEF Built, Traj

LEMMA CandidateType ==
    ASSUME TypeInv, ~Overreads, NEW t \in Candidates
    PROVE  t \in Traj
<1>1. CASE constructed
  BY <1>1 DEF Candidates, TypeInv, TypeOK
<1>2. CASE ~constructed
  BY <1>2, BuiltType DEF Candidates, Overreads
<1>. QED  BY <1>1, <1>2

LEMMA InterpolatedType ==
    ASSUME NEW t \in Traj, NEW u \in Interpolated(t)
    PROVE  u \in Traj
<1>1. t.points \in Seq(Point) /\ t.active \in SUBSET Slot
  BY DEF Traj
<1>2. ASSUME NEW p \in Seq(Point)
      PROVE  [t EXCEPT !.interp = "RAW", !.points = p, !.raw = FALSE] \in Traj
  BY <1>2 DEF Traj, Modes
<1>3. ASSUME Len(t.points) >= 2, NEW p \in Samples(t.points)
      PROVE  p \in Seq(Point)
  <2>1. Len(t.points) - 1 \in 0 .. Len(t.points)
    BY <1>1, <1>3
  <2>2. SubSeq(t.points, 1, Len(t.points) - 1) \in Seq(Point)
    BY <1>1, <2>1
  <2>3. <<>> \in Seq(Point)
    OBVIOUS
  <2>. QED  BY <2>2, <2>3 DEF Samples, Front
<1>4. Splined(t) \in Seq(Point)
  <2>1. \A i \in DOMAIN t.points : t.points[i] \in Point
    BY <1>1
  <2>2. \A i \in DOMAIN t.points :
            [s \in Slot |-> IF s \in t.active THEN t.points[i][s] ELSE 0] \in Point
    BY <2>1 DEF Point
  <2>3. Splined(t) \in [1 .. Len(t.points) -> Point]
    BY <1>1, <2>2 DEF Splined
  <2>. QED  BY <1>1, <2>3
<1>5. CASE NothingToDo(t) \/ ~described
  BY <1>5 DEF Interpolated
<1>6. CASE ~(NothingToDo(t) \/ ~described)
  <2>1. Len(t.points) >= 2
    BY <1>1, <1>6 DEF NothingToDo
  <2>2. CASE t.interp = "OPTIMAL"
    BY <1>2, <1>3, <1>6, <2>1, <2>2 DEF Interpolated
  <2>3. CASE t.interp = "SPLINE"
    BY <1>2, <1>4, <1>6, <2>3 DEF Interpolated
  <2>4. CASE t.interp \notin {"OPTIMAL", "SPLINE"}
    BY <1>6, <2>4 DEF Interpolated
  <2>. QED  BY <2>2, <2>3, <2>4
<1>. QED  BY <1>5, <1>6

(* Scaling by limit / most.                                                 *)
LEMMA MonotoneProduct ==
    ASSUME NEW a \in Nat, NEW b \in Nat, NEW c \in Nat, a <= b
    PROVE  a * c <= b * c /\ a * c \in Nat /\ b * c \in Nat
<1>1. (b - a) * c \in Nat
  <2>1. b - a \in Nat
    OBVIOUS
  <2>. QED  BY <2>1
<1>2. (b - a) * c = b * c - a * c
  OBVIOUS
<1>3. a * c \in Nat /\ b * c \in Nat
  OBVIOUS
<1>. QED  BY <1>1, <1>2, <1>3

LEMMA QuotientBound ==
    ASSUME NEW a \in Nat, NEW num \in Nat, NEW den \in Nat \ {0}, a <= den
    PROVE  /\ (a * num) \div den \in Nat /\ (a * num) \div den <= num
           /\ a = den => (a * num) \div den = num
<1>. DEFINE p == a * num
            q == p \div den
<1>1. p \in Nat /\ p <= den * num /\ den * num \in Nat
  BY MonotoneProduct
<1>2. a = den => p = den * num
  OBVIOUS
<1>. HIDE DEF p
<1>3. q \in Int /\ den * q <= p /\ p < den * q + den
  BY <1>1
<1>. HIDE DEF q
<1>4. den * (num + 1) = den * num + den
  OBVIOUS
<1>5. ASSUME q > num PROVE FALSE
  <2>1. q - (num + 1) \in Nat
    BY <1>3, <1>5
  <2>2. den * (q - (num + 1)) \in Nat
    BY <2>1
  <2>3. den * (q - (num + 1)) = den * q - den * (num + 1)
    BY <1>3
  <2>4. den * q \in Int /\ den * (num + 1) \in Int
    BY <1>3
  <2>. QED  BY <1>1, <1>3, <1>4, <2>2, <2>3, <2>4
<1>6. ASSUME q < 0 PROVE FALSE
  <2>1. -q - 1 \in Nat
    BY <1>3, <1>6
  <2>2. den * (-q - 1) \in Nat
    BY <2>1
  <2>3. den * (-q - 1) = -(den * q) - den /\ den * q \in Int
    BY <1>3
  <2>. QED  BY <1>1, <1>3, <2>2, <2>3
<1>7. ASSUME a = den, q < num PROVE FALSE
  <2>1. num - (q + 1) \in Nat
    BY <1>3, <1>7
  <2>2. den * (num - (q + 1)) \in Nat
    BY <2>1
  <2>3. den * (num - (q + 1)) = den * num - den * q - den /\ den * q \in Int
    BY <1>3
  <2>. QED  BY <1>1, <1>2, <1>3, <1>7, <2>2, <2>3
<1>8. q \in Nat /\ q <= num /\ (a = den => q = num)
  BY <1>3, <1>5, <1>6, <1>7
<1>. QED  BY <1>8 DEF p, q

LEMMA ScaledBound ==
    ASSUME NEW x \in Int, NEW num \in Nat, NEW den \in Nat \ {0}, Abs(x) <= den
    PROVE  /\ Scaled(x, num, den) \in Int
           /\ -num <= Scaled(x, num, den) /\ Scaled(x, num, den) <= num
           /\ x = den => Scaled(x, num, den) = num
           /\ x = -den => Scaled(x, num, den) = -num
<1>1. CASE x < 0
  <2>1. -x \in Nat /\ -x <= den
    BY <1>1 DEF Abs
  <2>2. /\ (-x * num) \div den \in Nat /\ (-x * num) \div den <= num
        /\ -x = den => (-x * num) \div den = num
    <3>1. -x * num = (-x) * num
      BY <2>1
    <3>2. /\ ((-x) * num) \div den \in Nat /\ ((-x) * num) \div den <= num
          /\ -x = den => ((-x) * num) \div den = num
      BY <2>1, QuotientBound
    <3>. QED  BY <3>1, <3>2
  <2>3. Scaled(x, num, den) = -((-x * num) \div den)
    BY <1>1 DEF Scaled
  <2>. HIDE DEF Scaled
  <2>. QED  BY <1>1, <2>2, <2>3
<1>2. CASE ~(x < 0)
  <2>1. x \in Nat /\ x <= den
    BY <1>2 DEF Abs
  <2>2. /\ (x * num) \div den \in Nat /\ (x * num) \div den <= num
        /\ x = den => (x * num) \div den = num
    BY <2>1, QuotientBound
  <2>3. Scaled(x, num, den) = (x * num) \div den
    BY <1>2 DEF Scaled
  <2>. QED  BY <1>2, <2>2, <2>3
<1>. QED  BY <1>1, <1>2

(* A limited change keeps to the limit in every active joint, and differs   *)
(* from the change only where the limit binds.                              *)
LEMMA LimitedType ==
    ASSUME traj.active \subseteq Slot, NEW change \in Point, NEW limit \in Nat
    PROVE  /\ Limited(change, limit) \in Point
           /\ \A j \in traj.active :
                 -limit <= Limited(change, limit)[j] /\ Limited(change, limit)[j] <= limit
<1>. DEFINE most == Greatest(change)
<1>1. most \in Nat /\ \A j \in traj.active : Abs(change[j]) <= most
  BY GreatestType DEF Point
<1>2. \A s \in Slot : change[s] \in Int
  BY DEF Point
<1>3. \A s \in Slot :
          Limited(change, limit)[s] = IF s \in traj.active /\ most > limit
                                      THEN Scaled(change[s], limit, most) ELSE change[s]
  BY DEF Limited
<1>. HIDE DEF most
<1>4. ASSUME NEW s \in Slot, s \in traj.active, most > limit
      PROVE  /\ Limited(change, limit)[s] \in Int
             /\ -limit <= Limited(change, limit)[s] /\ Limited(change, limit)[s] <= limit
  <2>1. most \in Nat \ {0}
    BY <1>1, <1>4
  <2>. QED  BY <1>1, <1>2, <1>3, <1>4, <2>1, ScaledBound
<1>5. ASSUME NEW s \in traj.active, ~(most > limit)
      PROVE  -limit <= Limited(change, limit)[s] /\ Limited(change, limit)[s] <= limit
  <2>1. Limited(change, limit)[s] = change[s] /\ change[s] \in Int
    BY <1>2, <1>3, <1>5
  <2>2. Abs(change[s]) <= limit
    BY <1>1, <1>5, <2>1, AbsType
  <2>. QED  BY <2>1, <2>2, AbsType
<1>6. ASSUME NEW s \in Slot PROVE Limited(change, limit)[s] \in Int
  BY <1>2, <1>3, <1>4, <1>6
<1>7. Limited(change, limit) \in Point
  BY <1>6 DEF Limited, Point
<1>. QED  BY <1>4, <1>5, <1>7

(* When one joint moves, the limit cuts its change off.                     *)
LEMMA LimitedAlone ==
    ASSUME NEW j \in Slot, traj.active = {j}, NEW change \in Point, NEW limit \in Nat
    PROVE  Limited(change, limit)[j] = IF change[j] > limit THEN limit
                                       ELSE IF change[j] < -limit THEN -limit
                                       ELSE change[j]
<1>. DEFINE most == Greatest(change)
            x == change[j]
<1>1. x \in Int
  BY DEF Point
<1>2. most = Abs(x)
  <2>1. /\ most \in Nat /\ Abs(x) <= most
        /\ most = 0 \/ most = Abs(x)
    BY GreatestType DEF Point
  <2>2. Abs(x) \in Nat
    BY <1>1, AbsType
  <2>. QED  BY <2>1, <2>2
<1>3. Limited(change, limit)[j] = IF most > limit THEN Scaled(x, limit, most) ELSE x
  BY DEF Limited
<1>. HIDE DEF most, x
<1>4. CASE x > limit
  <2>1. Abs(x) = x /\ x \in Nat \ {0}
    BY <1>1, <1>4 DEF Abs
  <2>2. Scaled(x, limit, x) = limit
    BY <2>1, ScaledBound
  <2>. QED  BY <1>2, <1>3, <1>4, <2>1, <2>2 DEF x
<1>5. CASE x < -limit
  <2>1. Abs(x) = -x /\ -x \in Nat \ {0} /\ x = -(-x) /\ -x > limit /\ ~(x > limit)
    BY <1>1, <1>5 DEF Abs
  <2>2. Scaled(x, limit, -x) = -limit
    BY <1>1, <2>1, ScaledBound
  <2>. QED  BY <1>2, <1>3, <1>5, <2>1, <2>2 DEF x
<1>6. CASE ~(x > limit) /\ ~(x < -limit)
  <2>1. ~(Abs(x) > limit)
    BY <1>1, <1>6 DEF Abs
  <2>. QED  BY <1>2, <1>3, <1>6, <2>1 DEF x
<1>. QED  BY <1>4, <1>5, <1>6

(* A change none of whose active joints comes to the limit is as it was.     *)
LEMMA LimitedBelow ==
    ASSUME traj.active \subseteq Slot, NEW change \in Point, NEW limit \in Nat,
           \A j \in traj.active : Abs(Limited(change, limit)[j]) < limit
    PROVE  \A j \in traj.active : Limited(change, limit)[j] = change[j]
<1>. DEFINE most == Greatest(change)
<1>1. /\ most \in Nat /\ \A j \in traj.active : Abs(change[j]) <= most
      /\ most = 0 \/ \E j \in traj.active : most = Abs(change[j])
  BY GreatestType DEF Point
<1>2. \A s \in Slot :
          /\ change[s] \in Int
          /\ Limited(change, limit)[s] = IF s \in traj.active /\ most > limit
                                         THEN Scaled(change[s], limit, most) ELSE change[s]
  BY DEF Limited, Point
<1>. HIDE DEF most
<1>3. ASSUME most > limit PROVE FALSE
  <2>1. PICK j \in traj.active : most = Abs(change[j])
    BY <1>1, <1>3
  <2>2. j \in Slot /\ change[j] \in Int /\ most \in Nat \ {0} /\ Abs(change[j]) <= most
    BY <1>1, <1>2, <1>3
  <2>3. change[j] = most \/ change[j] = -most
    BY <2>1, <2>2 DEF Abs
  <2>4. Scaled(change[j], limit, most) = limit \/ Scaled(change[j], limit, most) = -limit
    BY <2>2, <2>3, ScaledBound
  <2>5. Limited(change, limit)[j] = Scaled(change[j], limit, most)
    BY <1>2, <1>3, <2>2
  <2>6. Abs(limit) = limit /\ Abs(-limit) = limit
    BY DEF Abs
  <2>. QED  BY <2>4, <2>5, <2>6
<1>. QED  BY <1>2, <1>3

LEMMA SumType ==
    ASSUME NEW p \in Point, NEW q \in Point
    PROVE  /\ Plus(p, q) \in Point /\ Minus(p, q) \in Point
           /\ \A s \in Slot : /\ Plus(p, q)[s] = p[s] + q[s] /\ Minus(p, q)[s] = p[s] - q[s]
                              /\ p[s] \in Int /\ q[s] \in Int
BY DEF Plus, Minus, Point

(* One round of saturation.                                                 *)
LEMMA RoundType ==
    ASSUME TypeInv, loop # Resting, loop.up <= Len(traj.points)
    PROVE  /\ Round \in Saturation
           /\ Round.up \in {loop.up, loop.up + 1}
           /\ Round.out = Append(loop.out, Round.last)
           /\ Round.last = Plus(loop.last, Limited(Minus(loop.target, loop.last), MaxSpeed))
           /\ \E change \in Point :
                 Round.target = Plus(Plus(Round.last, Minus(Round.last, loop.last)),
                                     Limited(change, MaxAccel))
<1>. DEFINE n      == Len(traj.points)
            way    == Minus(loop.target, loop.last)
            target == Plus(loop.last, Limited(way, MaxSpeed))
            slowed == Greatest(way) > MaxSpeed
            skip   == ~slowed \/ Greatest(Minus(loop.next, target)) <= MaxSpeed
            wanted == IF ~skip THEN loop.next
                      ELSE traj.points[IF loop.up < n THEN loop.up + 1 ELSE n]
            coming == Plus(target, Minus(target, loop.last))
            next   == Plus(coming, Limited(Minus(wanted, coming), MaxAccel))
            up     == IF skip THEN loop.up + 1 ELSE loop.up
<1>1. /\ loop.up \in Nat \ {0} /\ loop.last \in Point /\ loop.target \in Point
      /\ loop.next \in Point /\ loop.out \in Seq(Point)
  BY DEF TypeInv, LoopType, Saturation
<1>2. /\ traj.points \in Seq(Point) /\ traj.active \subseteq Slot /\ n >= 2
      /\ MaxSpeed \in Nat /\ MaxAccel \in Nat
  BY WaypointsAssumption DEF TypeInv, TypeOK, LoopType, Traj
<1>3. Round = [up |-> up, last |-> target, target |-> next, next |-> next,
               out |-> Append(loop.out, target)]
  BY DEF Round
<1>4. target \in Point
  <2>1. way \in Point
    BY <1>1, SumType
  <2>2. Limited(way, MaxSpeed) \in Point
    BY <1>2, <2>1, LimitedType
  <2>. QED  BY <1>1, <2>2, SumType
<1>5. wanted \in Point
  <2>1. (IF loop.up < n THEN loop.up + 1 ELSE n) \in 1 .. n
    BY <1>1, <1>2
  <2>2. traj.points[IF loop.up < n THEN loop.up + 1 ELSE n] \in Point
    BY <1>2, <2>1
  <2>. QED  BY <1>1, <2>2
<1>6. up \in Nat \ {0} /\ up \in {loop.up, loop.up + 1}
  BY <1>1
<1>. HIDE DEF target, wanted, up
<1>7. coming \in Point
  BY <1>1, <1>4, SumType
<1>. HIDE DEF coming
<1>8. Minus(wanted, coming) \in Point /\ next \in Point
  <2>1. Minus(wanted, coming) \in Point
    BY <1>5, <1>7, SumType
  <2>2. Limited(Minus(wanted, coming), MaxAccel) \in Point
    BY <1>2, <2>1, LimitedType
  <2>. QED  BY <1>7, <2>1, <2>2, SumType
<1>9. \E change \in Point : next = Plus(coming, Limited(change, MaxAccel))
  BY <1>8
<1>. HIDE DEF next
<1>10. Append(loop.out, target) \in Seq(Point)
  BY <1>1, <1>4
<1>11. Round \in Saturation
  BY <1>3, <1>4, <1>6, <1>8, <1>10 DEF Saturation
<1>12. /\ Round.up = up /\ Round.last = target /\ Round.target = next
       /\ Round.out = Append(loop.out, target)
  BY <1>3
<1>13. \E change \in Point :
           Round.target = Plus(Plus(Round.last, Minus(Round.last, loop.last)),
                               Limited(change, MaxAccel))
  BY <1>9, <1>12 DEF coming
<1>. QED  BY <1>6, <1>11, <1>12, <1>13 DEF target

LEMMA EnteredType ==
    ASSUME NEW t \in Traj, ~NothingToDo(t)
    PROVE  /\ Entered(t.points) \in Saturation /\ Entered(t.points).up = 1
           /\ Len(t.points) >= 2
<1>1. t.points \in Seq(Point)
  BY DEF Traj
<1>2. Len(t.points) >= 2
  BY <1>1 DEF NothingToDo
<1>3. t.points[1] \in Point /\ <<>> \in Seq(Point)
  BY <1>1, <1>2
<1>. QED  BY <1>2, <1>3 DEF Entered, Saturation

LEMMA InitType == Init => TypeInv
<1>. SUFFICES ASSUME Init PROVE TypeInv
  OBVIOUS
<1>1. /\ <<>> \in Seq(Waypoint) /\ <<>> \in Seq(Point) /\ Range(Unset) = {}
      /\ Len(NoTraj.points) = 0
  BY DEF Range, Unset, NoTraj
<1>2. NoTraj \in Traj
  BY <1>1 DEF NoTraj, Traj, Modes
<1>3. /\ map \in Mappings \cup {Unset} /\ path \in Seq(Waypoint) /\ mode \in Modes
      /\ traj \in Traj /\ calls \in 0 .. MaxCalls
  BY <1>1, <1>2, WaypointsAssumption DEF Init, Modes
<1>4. loop.up \in 0 .. Len(traj.points) + 1 /\ loop.out \in Seq(Point)
  BY <1>1 DEF Init, Resting
<1>5. /\ described \in BOOLEAN /\ constructed \in BOOLEAN
      /\ broken \in BOOLEAN /\ kept \in BOOLEAN
  BY Zenon DEF Init
<1>6. TypeOK
  BY <1>3, <1>4, <1>5 DEF TypeOK
<1>. QED  BY <1>1, <1>6 DEF Init, TypeInv, MapFits, LoopType

LEMMA CallType == TypeInv /\ Call => calls' \in 0 .. MaxCalls
  BY WaypointsAssumption DEF TypeInv, TypeOK, Call

(* What is needed of a call that leaves the loop alone, ...                 *)
LEMMA CallKeepsTypes ==
    ASSUME TypeInv, Call, loop' = loop,
           described' \in BOOLEAN, constructed' \in BOOLEAN,
           broken' \in BOOLEAN, kept' \in BOOLEAN,
           map' \in Mappings \cup {Unset}, Range(map') \subseteq Slot,
           path' \in Seq(Waypoint), mode' \in Modes, traj' \in Traj
    PROVE  TypeInv'
<1>1. loop = Resting /\ loop' = Resting
  BY DEF Call
<1>2. Len(traj'.points) \in Nat
  BY DEF Traj
<1>3. loop'.up \in 0 .. Len(traj'.points) + 1 /\ loop'.out \in Seq(Point)
  BY <1>1, <1>2 DEF Resting
<1>4. calls' \in 0 .. MaxCalls
  BY CallType
<1>. QED  BY <1>1, <1>3, <1>4 DEF TypeInv, TypeOK, MapFits, LoopType

(* ... and of one that works on the trajectory.                             *)
LEMMA TrajCallKeepsTypes ==
    ASSUME TypeInv, Call, Constructs, constructed' \in BOOLEAN, traj' \in Traj, loop' = loop
    PROVE  TypeInv'
<1>1. /\ described' = described /\ map' = map /\ path' = path /\ mode' = mode
      /\ broken' = broken /\ kept' \in BOOLEAN
  BY Zenon DEF Constructs, TypeInv, TypeOK
<1>2. /\ described \in BOOLEAN /\ broken \in BOOLEAN /\ map \in Mappings \cup {Unset}
      /\ path \in Seq(Waypoint) /\ mode \in Modes /\ Range(map) \subseteq Slot
  BY DEF TypeInv, TypeOK, MapFits
<1>. QED  BY <1>1, <1>2, CallKeepsTypes

LEMMA JointIndicesType ==
    ASSUME NEW indices \in Mappings, NEW byName \in BOOLEAN, Valid(indices, byName)
    PROVE  Range(indices) \subseteq Slot
<1>1. CASE byName
  <2>1. ASSUME NEW i \in DOMAIN indices PROVE indices[i] \in Joint
    <3>1. JointIndices(indices)[i] = JointIndex(indices[i])
      BY <2>1 DEF JointIndices
    <3>2. JointIndex(indices[i]) \in Range(JointIndices(indices))
      BY <2>1, <3>1 DEF Range, JointIndices
    <3>3. JointIndex(indices[i]) # InvalidIndex
      BY <1>1, <3>2 DEF Valid, ValidNames
    <3>. QED  BY <3>3 DEF JointIndex
  <2>2. Joint \subseteq Slot
    BY WaypointsAssumption DEF Joint, Slot
  <2>. QED  BY <2>1, <2>2 DEF Range
<1>2. CASE ~byName
  BY <1>2 DEF Valid, ValidIndices
<1>. QED  BY <1>1, <1>2

LEMMA OperatorType ==
    ASSUME TypeInv,
           \/ LoadDescription
           \/ \E indices \in Mappings, byName \in BOOLEAN : SetJointIndices(indices, byName)
           \/ \E points \in Seq(Waypoint) : AddWaypoints(points)
           \/ \E n \in {0, Len(path) - 1} \cap Nat : RemoveWaypoints(n)
           \/ \E m \in Modes : SetInterpolationMode(m)
    PROVE  TypeInv'
<1>1. /\ described \in BOOLEAN /\ constructed \in BOOLEAN
      /\ broken \in BOOLEAN /\ kept \in BOOLEAN
      /\ map \in Mappings \cup {Unset} /\ path \in Seq(Waypoint) /\ mode \in Modes
      /\ traj \in Traj /\ Range(map) \subseteq Slot
  BY DEF TypeInv, TypeOK, MapFits
<1>2. CASE LoadDescription
  BY <1>1, <1>2, CallKeepsTypes DEF LoadDescription
<1>3. ASSUME NEW indices \in Mappings, NEW byName \in BOOLEAN,
             SetJointIndices(indices, byName)
      PROVE  TypeInv'
  <2>1. /\ Call /\ described' = described /\ path' = path /\ mode' = mode /\ traj' = traj
        /\ loop' = loop /\ broken' = broken /\ kept' = kept
        /\ constructed' \in {constructed, FALSE}
    BY <1>3 DEF SetJointIndices
  <2>2. map' \in {map, Unset} \/ (map' = indices /\ Valid(indices, byName))
    BY <1>3 DEF SetJointIndices
  <2>3. map' \in Mappings \cup {Unset} /\ Range(map') \subseteq Slot
    <3>1. Range(Unset) = {}
      BY DEF Range, Unset
    <3>. QED  BY <1>1, <2>2, <3>1, JointIndicesType
  <2>4. constructed' \in BOOLEAN
    BY <1>1, <2>1
  <2>. QED  BY <1>1, <2>1, <2>3, <2>4, CallKeepsTypes
<1>4. ASSUME NEW points \in Seq(Waypoint), AddWaypoints(points)
      PROVE  TypeInv'
  <2>1. /\ Call /\ described' = described /\ map' = map /\ mode' = mode /\ traj' = traj
        /\ loop' = loop /\ broken' = broken /\ kept' = kept
        /\ constructed' \in {constructed, FALSE}
    BY <1>4 DEF AddWaypoints
  <2>2. path' \in Seq(Waypoint)
    BY <1>1, <1>4, AddType DEF PathType
  <2>3. constructed' \in BOOLEAN
    BY <1>1, <2>1
  <2>. QED  BY <1>1, <2>1, <2>2, <2>3, CallKeepsTypes
<1>5. ASSUME NEW n \in {0, Len(path) - 1} \cap Nat, RemoveWaypoints(n)
      PROVE  TypeInv'
  <2>1. /\ Call /\ described' = described /\ map' = map /\ mode' = mode /\ traj' = traj
        /\ loop' = loop /\ broken' = broken /\ constructed' = constructed
    BY <1>5 DEF RemoveWaypoints
  <2>2. path' \in Seq(Waypoint)
    BY <1>1, <1>5, RemoveType DEF PathType
  <2>3. kept' \in BOOLEAN
    BY <1>5, Zenon DEF RemoveWaypoints
  <2>. QED  BY <1>1, <2>1, <2>2, <2>3, CallKeepsTypes
<1>6. ASSUME NEW m \in Modes, SetInterpolationMode(m)
      PROVE  TypeInv'
  <2>1. /\ Call /\ described' = described /\ map' = map /\ path' = path /\ traj' = traj
        /\ loop' = loop /\ broken' = broken /\ constructed' = constructed /\ mode' = m
    BY <1>6 DEF SetInterpolationMode
  <2>2. kept' \in BOOLEAN
    BY <1>6, Zenon DEF SetInterpolationMode
  <2>. QED  BY <1>1, <2>1, <2>2, CallKeepsTypes
<1>. QED  BY <1>2, <1>3, <1>4, <1>5, <1>6

LEMMA TrajectoryType ==
    ASSUME TypeInv,
           GetTrajectory \/ Interpolate \/ Send \/ Overread \/ InterpolateUnlimited
    PROVE  TypeInv'
<1>1. CASE GetTrajectory \/ Send
  <2>1. Call /\ Constructs /\ ~Overreads /\ traj' \in Candidates /\ loop' = loop
    BY <1>1 DEF GetTrajectory, Send, Constructs
  <2>2. constructed' \in BOOLEAN
    BY <1>1 DEF GetTrajectory, Send
  <2>. QED  BY <2>1, <2>2, CandidateType, TrajCallKeepsTypes
<1>2. CASE Interpolate
  <2>1. Call /\ Constructs /\ ~Overreads /\ constructed' = TRUE
    BY <1>2 DEF Interpolate, Constructs
  <2>2. PICK t \in Candidates :
            \/ Saturates(t) /\ traj' = t /\ loop' = Entered(t.points)
            \/ traj' \in Interpolated(t) /\ loop' = loop
    BY <1>2 DEF Interpolate
  <2>3. t \in Traj
    BY <2>1, CandidateType
  <2>4. CASE traj' \in Interpolated(t) /\ loop' = loop
    <3>1. traj' \in Traj
      BY <2>3, <2>4, InterpolatedType
    <3>. QED  BY <2>1, <2>4, <3>1, TrajCallKeepsTypes
  <2>5. CASE Saturates(t) /\ traj' = t /\ loop' = Entered(t.points)
    <3>1. /\ loop' \in Saturation /\ loop'.up = 1 /\ Len(traj'.points) >= 2
          /\ Len(traj'.points) \in Nat
      BY <2>3, <2>5, EnteredType DEF Saturates, Traj
    <3>2. loop'.up \in 0 .. Len(traj'.points) + 1 /\ loop'.out \in Seq(Point)
      BY <3>1 DEF Saturation
    <3>3. /\ described' = described /\ map' = map /\ path' = path /\ mode' = mode
          /\ broken' = broken
      BY <2>1 DEF Constructs
    <3>4. kept' \in BOOLEAN
      BY <2>1, Zenon DEF Constructs
    <3>5. calls' \in 0 .. MaxCalls
      BY <2>1, CallType
    <3>6. constructed' \in BOOLEAN
      BY <2>1
    <3>7. TypeOK'
      BY <2>3, <2>5, <3>2, <3>3, <3>4, <3>5, <3>6 DEF TypeInv, TypeOK
    <3>. QED  BY <3>1, <3>3, <3>7 DEF TypeInv, MapFits, LoopType
  <2>. QED  BY <2>2, <2>4, <2>5
<1>3. CASE Overread \/ InterpolateUnlimited
  <2>1. Call /\ Breaks
    BY <1>3 DEF Overread, InterpolateUnlimited
  <2>2. /\ described' = described /\ constructed' = constructed /\ kept' = kept
        /\ map' = map /\ path' = path /\ mode' = mode /\ traj' = traj /\ loop' = loop
        /\ broken' = TRUE
    BY <2>1 DEF Breaks, operatorVars
  <2>3. broken' \in BOOLEAN
    BY <2>2
  <2>. QED  BY <2>1, <2>2, <2>3, CallKeepsTypes DEF TypeInv, TypeOK, MapFits
<1>. QED  BY <1>1, <1>2, <1>3

LEMMA SaturateType == TypeInv /\ SaturateRound => TypeInv'
<1>. SUFFICES ASSUME TypeInv, SaturateRound PROVE TypeInv'
  OBVIOUS
<1>1. /\ described' = described /\ constructed' = constructed /\ kept' = kept
      /\ map' = map /\ path' = path /\ mode' = mode /\ broken' = broken /\ calls' = calls
      /\ loop # Resting
  BY DEF SaturateRound, operatorVars
<1>2. /\ loop \in Saturation /\ Len(traj.points) >= 2 /\ traj \in Traj
      /\ loop.up \in 0 .. Len(traj.points) + 1 /\ Len(traj.points) \in Nat
  BY <1>1 DEF TypeInv, TypeOK, LoopType, Traj
<1>3. CASE loop.up <= Len(traj.points)
  <2>1. loop' = Round /\ traj' = traj
    BY <1>3 DEF SaturateRound
  <2>2. Round \in Saturation /\ Round.up \in {loop.up, loop.up + 1}
    BY <1>1, <1>3, RoundType
  <2>3. Round.up \in 0 .. Len(traj.points) + 1 /\ Round.out \in Seq(Point)
    BY <1>2, <1>3, <2>2 DEF Saturation
  <2>4. TypeOK'
    BY <1>1, <2>1, <2>3 DEF TypeInv, TypeOK
  <2>. QED  BY <1>1, <1>2, <2>1, <2>2, <2>4 DEF TypeInv, MapFits, LoopType
<1>4. CASE ~(loop.up <= Len(traj.points))
  <2>1. loop' = Resting /\ traj' = [traj EXCEPT !.points = loop.out, !.raw = FALSE]
    BY <1>4 DEF SaturateRound
  <2>2. loop.out \in Seq(Point)
    BY <1>2 DEF Saturation
  <2>3. traj' \in Traj
    BY <1>2, <2>1, <2>2 DEF Traj
  <2>4. loop'.up \in 0 .. Len(traj'.points) + 1 /\ loop'.out \in Seq(Point)
    <3>1. Len(traj'.points) \in Nat /\ <<>> \in Seq(Point)
      BY <2>3 DEF Traj
    <3>. QED  BY <2>1, <3>1 DEF Resting
  <2>5. TypeOK'
    BY <1>1, <2>3, <2>4 DEF TypeInv, TypeOK
  <2>. QED  BY <1>1, <2>1, <2>5 DEF TypeInv, MapFits, LoopType
<1>. QED  BY <1>3, <1>4

LEMMA NextType == TypeInv /\ [Next]_vars => TypeInv'
<1>. SUFFICES ASSUME TypeInv, [Next]_vars PROVE TypeInv'
  OBVIOUS
<1>1. ASSUME NEW p \in Waypoint, NEW q \in Waypoint,
             AddWaypoints(<<p>>) \/ AddWaypoints(<<p, q>>)
      PROVE  TypeInv'
  <2>1. <<p>> \in Seq(Waypoint) /\ <<p, q>> \in Seq(Waypoint)
    OBVIOUS
  <2>. QED  BY <1>1, <2>1, OperatorType
<1>2. CASE \/ LoadDescription
           \/ \E indices \in Mappings, byName \in BOOLEAN : SetJointIndices(indices, byName)
           \/ \E n \in {0, Len(path) - 1} \cap Nat : RemoveWaypoints(n)
           \/ \E m \in Modes : SetInterpolationMode(m)
  BY <1>2, OperatorType
<1>3. CASE GetTrajectory \/ Interpolate \/ Send \/ Overread \/ InterpolateUnlimited
  BY <1>3, TrajectoryType
<1>4. CASE UNCHANGED vars
  BY <1>4 DEF vars, operatorVars, TypeInv, TypeOK, MapFits, LoopType
<1>. QED  BY <1>1, <1>2, <1>3, <1>4, SaturateType DEF Next

(* What a program makes of waypoints is a trajectory, and saturate() works  *)
(* on elements and stops after the last: whatever the mappings, the limits  *)
(* and the number of calls.                                                 *)
THEOREM TypeOKHolds == Spec => []TypeOK
<1>1. TypeInv => TypeOK
  BY DEF TypeInv
<1>. QED  BY <1>1, InitType, NextType, PTL DEF Spec

-----------------------------------------------------------------------------
(* The limits of saturation.  Between two rounds the last element is the    *)
(* one that was put out last, and the target of every joint is where the    *)
(* acceleration limit allows it to be.  The speed limit then leaves the     *)
(* step to that target as it is, cuts it off where a joint moves alone, or  *)
(* slows down all of several joints.                                        *)
Ahead == Minus(loop.target, loop.last)
Went(i) == Minus(loop.out[i], loop.out[i - 1])

(* The steps for which the acceleration limit is kept to.                   *)
Permitted(i) ==
    \/ Cardinality(traj.active) = 1
    \/ \A j \in traj.active : Abs(Went(i)[j]) < MaxSpeed

LastIsOut ==
    loop # Resting =>
        IF loop.out = <<>> THEN loop.last = traj.points[1] /\ loop.target = traj.points[1]
                           ELSE loop.last = loop.out[Len(loop.out)]

AheadIsAllowed ==
    loop # Resting /\ Len(loop.out) >= 2 =>
        \A j \in traj.active : Abs(Ahead[j] - Went(Len(loop.out))[j]) <= MaxAccel

SlowInv == LastIsOut /\ AheadIsAllowed /\ SaturatedIsSlow

(* A joint that would change its speed by no more than its limit does so    *)
(* when its speed is cut off, too, if it kept to that limit before.         *)
LEMMA CutOff ==
    ASSUME NEW v \in Int, NEW w \in Int, NEW speed \in Nat, NEW accel \in Nat,
           -speed <= v, v <= speed, Abs(w - v) <= accel
    PROVE  Abs((IF w > speed THEN speed ELSE IF w < -speed THEN -speed ELSE w) - v) <= accel
<1>1. w - v <= accel /\ v - w <= accel
  BY DEF Abs
<1>. QED  BY <1>1 DEF Abs

LEMMA AbsBound ==
    ASSUME NEW x \in Int, NEW n \in Nat
    PROVE  Abs(x) <= n <=> -n <= x /\ x <= n
BY DEF Abs

LEMMA OneElement ==
    ASSUME NEW S, Cardinality(S) = 1, IsFiniteSet(S), NEW x \in S
    PROVE  S = {x}
<1>1. Cardinality(S \ {x}) = 0 /\ IsFiniteSet(S \ {x})
  BY FS_RemoveElement
<1>2. S \ {x} = {}
  BY <1>1, FS_EmptySet
<1>. QED  BY <1>2

LEMMA AppendedElements ==
    ASSUME NEW q \in Seq(Point), NEW p \in Point, NEW n, n = Len(q)
    PROVE  /\ Len(Append(q, p)) = n + 1 /\ Append(q, p)[n + 1] = p
           /\ \A i \in 1 .. n : Append(q, p)[i] = q[i]
           /\ Append(q, p) # <<>>
OBVIOUS

LEMMA RoundIsSlow ==
    ASSUME TypeInv, SlowInv, loop # Resting, loop.up <= Len(traj.points),
           loop' = Round, traj' = traj
    PROVE  SlowInv'
<1>0. PICK n : n = Len(loop.out)
  OBVIOUS
<1>1. /\ loop.last \in Point /\ loop.target \in Point /\ loop.out \in Seq(Point)
      /\ traj.active \subseteq Slot /\ MaxSpeed \in Nat /\ MaxAccel \in Nat /\ n \in Nat
      /\ traj.points[1] \in Point
  BY <1>0, WaypointsAssumption DEF TypeInv, TypeOK, LoopType, Saturation, Traj
<1>2. /\ Round \in Saturation /\ Round.out = Append(loop.out, Round.last)
      /\ Round.last = Plus(loop.last, Limited(Ahead, MaxSpeed))
      /\ \E change \in Point :
            Round.target = Plus(Plus(Round.last, Minus(Round.last, loop.last)),
                                Limited(change, MaxAccel))
  BY RoundType DEF Ahead
<1>3. loop'.last = Round.last /\ loop'.target = Round.target /\ loop'.out = Round.out
  OBVIOUS
<1>4. Round.last \in Point /\ Round.target \in Point
  BY <1>2 DEF Saturation
<1>5. Ahead \in Point /\ Limited(Ahead, MaxSpeed) \in Point
  BY <1>1, SumType, LimitedType DEF Ahead
<1>6. \A j \in traj.active :
          /\ (Round.last[j] - loop.last[j]) = Limited(Ahead, MaxSpeed)[j]
          /\ Round.last[j] \in Int /\ loop.last[j] \in Int
          /\ Limited(Ahead, MaxSpeed)[j] \in Int
          /\ -MaxSpeed <= Limited(Ahead, MaxSpeed)[j]
          /\ Limited(Ahead, MaxSpeed)[j] <= MaxSpeed
  <2>. SUFFICES ASSUME NEW j \in traj.active
                PROVE  /\ (Round.last[j] - loop.last[j]) = Limited(Ahead, MaxSpeed)[j]
                       /\ Round.last[j] \in Int /\ loop.last[j] \in Int
                       /\ Limited(Ahead, MaxSpeed)[j] \in Int
                       /\ -MaxSpeed <= Limited(Ahead, MaxSpeed)[j]
                       /\ Limited(Ahead, MaxSpeed)[j] <= MaxSpeed
    OBVIOUS
  <2>1. /\ Round.last[j] = loop.last[j] + Limited(Ahead, MaxSpeed)[j]
        /\ loop.last[j] \in Int /\ Limited(Ahead, MaxSpeed)[j] \in Int
    BY <1>1, <1>2, <1>5, SumType
  <2>2. /\ -MaxSpeed <= Limited(Ahead, MaxSpeed)[j]
        /\ Limited(Ahead, MaxSpeed)[j] <= MaxSpeed
    BY <1>1, <1>5, LimitedType
  <2>. QED  BY <2>1, <2>2
(* What is put out. *)
<1>7. /\ Len(loop'.out) = n + 1 /\ loop'.out[n + 1] = Round.last
      /\ \A i \in 1 .. n : loop'.out[i] = loop.out[i]
      /\ loop'.out # <<>>
  <2>1. loop.out \in Seq(Point) /\ n = Len(loop.out) /\ loop'.out = Append(loop.out, Round.last)
    BY <1>0, <1>1, <1>2, <1>3
  <2>. QED  BY <1>4, <2>1, AppendedElements
<1>8. \A i \in 2 .. n : Went(i)' = Went(i)
  <2>1. \A i \in 2 .. n : i \in 1 .. n /\ i - 1 \in 1 .. n
    BY <1>1
  <2>. QED  BY <1>7, <2>1 DEF Went
<1>9. n >= 1 => Went(n + 1)' = Minus(Round.last, loop.last)
  <2>1. n >= 1 => loop.last = loop.out[n] /\ n \in 1 .. n /\ (n + 1) - 1 = n
    BY <1>0, <1>1 DEF SlowInv, LastIsOut
  <2>2. loop'.out[n + 1] = Round.last
    BY <1>7
  <2>. QED  BY <1>7, <2>1, <2>2 DEF Went
<1>10. \A j \in traj.active :
           Minus(Round.last, loop.last)[j] = Limited(Ahead, MaxSpeed)[j]
  BY <1>1, <1>4, <1>6, SumType
<1>11. LastIsOut'
  BY <1>3, <1>7 DEF LastIsOut
(* The first element, and the speeds. *)
<1>12. loop'.out[1] = traj'.points[1]
  <2>1. CASE n = 0
    <3>1. loop.out = <<>>
      <4>1. Len(loop.out) = 0 /\ loop.out \in Seq(Point)
        BY <1>0, <1>1, <2>1
      <4>. QED  BY <4>1
    <3>2. loop.last = traj.points[1] /\ loop.target = traj.points[1]
      BY <3>1 DEF SlowInv, LastIsOut
    <3>3. \A s \in Slot : Ahead[s] = 0
      BY <1>1, <3>2, SumType DEF Ahead
    <3>4. \A s \in Slot : Limited(Ahead, MaxSpeed)[s] = 0
      <4>1. ASSUME NEW s \in Slot PROVE Limited(Ahead, MaxSpeed)[s] = 0
        <5>1. Greatest(Ahead) = 0
          <6>1. \A j \in traj.active : Abs(Ahead[j]) = 0
            BY <1>1, <3>3 DEF Abs
          <6>. QED  BY <1>1, <1>5, <6>1, GreatestType DEF Point
        <5>2. ~(Greatest(Ahead) > MaxSpeed)
          BY <1>1, <5>1
        <5>. QED  BY <3>3, <5>2 DEF Limited
      <4>. QED  BY <4>1
    <3>5. \A s \in Slot : Round.last[s] = loop.last[s]
      <4>1. \A s \in Slot : /\ Round.last[s] = loop.last[s] + Limited(Ahead, MaxSpeed)[s]
                             /\ loop.last[s] \in Int
        BY <1>1, <1>2, <1>5, SumType
      <4>. QED  BY <3>4, <4>1
    <3>6. Round.last = loop.last
      BY <1>1, <1>4, <3>5 DEF Point
    <3>. QED  BY <1>7, <2>1, <3>2, <3>6
  <2>2. CASE n # 0
    <3>1. 1 \in 1 .. n /\ loop.out # <<>>
      BY <1>0, <1>1, <2>2
    <3>. QED  BY <1>7, <3>1 DEF SlowInv, SaturatedIsSlow
  <2>. QED  BY <2>1, <2>2
<1>13. ASSUME NEW j \in traj.active, NEW i \in 2 .. n + 1
       PROVE  Abs(Went(i)'[j]) <= MaxSpeed
  <2>1. CASE i = n + 1
    <3>1. Went(i)'[j] = Limited(Ahead, MaxSpeed)[j]
      BY <1>1, <1>9, <1>10, <1>13, <2>1
    <3>. QED  BY <1>1, <1>6, <3>1, AbsBound
  <2>2. CASE i # n + 1
    <3>1. i \in 2 .. n
      BY <1>1, <1>13, <2>2
    <3>2. Abs(Went(i)[j]) <= MaxSpeed
      BY <1>0, <3>1 DEF SlowInv, SaturatedIsSlow, Went
    <3>. QED  BY <1>8, <3>1, <3>2
  <2>. QED  BY <2>1, <2>2
(* The change of speed, in a step that is put out before ... *)
<1>14. ASSUME NEW j \in traj.active, NEW i \in 3 .. n, Permitted(i)'
       PROVE  Abs(Went(i)'[j] - Went(i - 1)'[j]) <= MaxAccel
  <2>1. i \in 2 .. n /\ i - 1 \in 2 .. n
    BY <1>1, <1>14
  <2>2. Went(i)' = Went(i) /\ Went(i - 1)' = Went(i - 1)
    BY <1>8, <2>1
  <2>3. Permitted(i)
    BY <1>14, <2>2 DEF Permitted
  <2>. QED  BY <1>0, <1>14, <2>2, <2>3 DEF SlowInv, SaturatedIsSlow, Permitted, Went
(* ... and in this one. *)
<1>17. ASSUME NEW j \in traj.active, n >= 2, Permitted(n + 1)'
       PROVE  Abs(Went(n + 1)'[j] - Went(n)'[j]) <= MaxAccel
  <2>. DEFINE v == Went(n)[j]
              w == Ahead[j]
  <2>1. n \in 2 .. n /\ n \in 1 .. n /\ n - 1 \in 1 .. n /\ n >= 1 /\ j \in Slot
    BY <1>1, <1>17
  <2>2. Went(n)'[j] = v
    BY <1>8, <2>1
  <2>3. v \in Int /\ w \in Int
    <3>1. loop.out[n] \in Point /\ loop.out[n - 1] \in Point
      BY <1>0, <1>1, <2>1
    <3>2. Went(n) \in Point
      BY <3>1, SumType DEF Went
    <3>. QED  BY <1>5, <2>1, <3>2 DEF Point
  <2>4. Abs(w - v) <= MaxAccel
    BY <1>0, <1>17 DEF SlowInv, AheadIsAllowed
  <2>5. \A k \in traj.active : Went(n + 1)'[k] = Limited(Ahead, MaxSpeed)[k]
    BY <1>9, <1>10, <2>1
  <2>6. CASE Cardinality(traj.active) = 1
    <3>1. traj.active = {j}
      <4>1. IsFiniteSet(Slot)
        BY FS_Interval, WaypointsAssumption DEF Slot
      <4>2. IsFiniteSet(traj.active)
        BY <1>1, <4>1, FS_Subset
      <4>. QED  BY <2>6, <4>2, OneElement
    <3>2. Went(n + 1)'[j] = IF w > MaxSpeed THEN MaxSpeed
                            ELSE IF w < -MaxSpeed THEN -MaxSpeed ELSE w
      BY <1>1, <1>5, <2>1, <2>5, <3>1, LimitedAlone
    <3>3. Abs(v) <= MaxSpeed
      BY <1>0, <2>1 DEF SlowInv, SaturatedIsSlow, Went
    <3>. HIDE DEF v, w
    <3>4. -MaxSpeed <= v /\ v <= MaxSpeed
      BY <1>1, <2>3, <3>3, AbsBound
    <3>. QED  BY <1>1, <2>2, <2>3, <2>4, <3>2, <3>4, CutOff
  <2>7. CASE \A k \in traj.active : Abs(Went(n + 1)'[k]) < MaxSpeed
    <3>1. \A k \in traj.active : Abs(Limited(Ahead, MaxSpeed)[k]) < MaxSpeed
      BY <2>5, <2>7
    <3>2. Limited(Ahead, MaxSpeed)[j] = Ahead[j]
      BY <1>1, <1>5, <3>1, LimitedBelow
    <3>. QED  BY <2>2, <2>4, <2>5, <3>2
  <2>8. Cardinality(traj'.active) = Cardinality(traj.active) /\ traj'.active = traj.active
    OBVIOUS
  <2>. QED  BY <1>17, <2>6, <2>7, <2>8 DEF Permitted
<1>15. AheadIsAllowed'
  <2>. SUFFICES ASSUME n >= 1, NEW j \in traj.active
                PROVE  Abs(Ahead'[j] - Went(n + 1)'[j]) <= MaxAccel
    BY <1>1, <1>7 DEF AheadIsAllowed
  <2>1. PICK change \in Point :
            Round.target = Plus(Plus(Round.last, Minus(Round.last, loop.last)),
                                Limited(change, MaxAccel))
    BY <1>2
  <2>2. j \in Slot /\ Limited(change, MaxAccel) \in Point
    BY <1>1, LimitedType
  <2>3. Ahead' = Minus(Round.target, Round.last)
    BY <1>3 DEF Ahead
  <2>4. /\ Minus(Round.last, loop.last) \in Point
        /\ Plus(Round.last, Minus(Round.last, loop.last)) \in Point
    BY <1>1, <1>4, SumType
  <2>5. /\ Round.target[j] = Round.last[j] + Minus(Round.last, loop.last)[j]
                                 + Limited(change, MaxAccel)[j]
        /\ Round.last[j] \in Int /\ Minus(Round.last, loop.last)[j] \in Int
        /\ Limited(change, MaxAccel)[j] \in Int
        /\ Ahead'[j] = Round.target[j] - Round.last[j]
    BY <1>4, <2>1, <2>2, <2>3, <2>4, SumType
  <2>6. Ahead'[j] - Went(n + 1)'[j] = Limited(change, MaxAccel)[j]
    BY <1>9, <2>5
  <2>7. -MaxAccel <= Limited(change, MaxAccel)[j] /\ Limited(change, MaxAccel)[j] <= MaxAccel
    BY <1>1, LimitedType
  <2>. QED  BY <1>1, <2>5, <2>6, <2>7, AbsBound
<1>16. SaturatedIsSlow'
  <2>1. \A j \in traj.active, i \in 3 .. n + 1 :
            Permitted(i)' => Abs(Went(i)'[j] - Went(i - 1)'[j]) <= MaxAccel
    <3>1. \A i \in 3 .. n + 1 : i \in 3 .. n \/ (i = n + 1 /\ n >= 2 /\ i - 1 = n)
      BY <1>1
    <3>. QED  BY <1>14, <1>17, <3>1
  <2>. QED  BY <1>7, <1>12, <1>13, <2>1 DEF SaturatedIsSlow, Permitted, Went
<1>. QED  BY <1>11, <1>15, <1>16 DEF SlowInv

(* Saturation keeps to the speed limit, for any limits and any trajectory;  *)
(* and to the acceleration limit, except in the steps in which one of       *)
(* several joints is at the speed limit: the first part of                  *)
(* SaturationIsSafe.                                                        *)
THEOREM SaturatedIsSlowHolds == Spec => []SaturatedIsSlow
<1>1. ASSUME loop = Resting \/ (loop.out = <<>> /\ loop.last = traj.points[1]
                                  /\ loop.target = traj.points[1])
      PROVE  SlowInv
  <2>1. loop.out = <<>>
    BY <1>1 DEF Resting
  <2>2. Len(loop.out) = 0
    BY <2>1
  <2>. QED  BY <1>1, <2>1, <2>2 DEF SlowInv, LastIsOut, AheadIsAllowed, SaturatedIsSlow
<1>2. Init => SlowInv
  BY <1>1 DEF Init
<1>3. TypeInv /\ SlowInv /\ [Next]_vars => SlowInv'
  <2>. SUFFICES ASSUME TypeInv, SlowInv, [Next]_vars PROVE SlowInv'
    OBVIOUS
  <2>1. ASSUME loop' = Resting \/ (loop'.out = <<>> /\ loop'.last = traj'.points[1]
                                     /\ loop'.target = traj'.points[1])
        PROVE  SlowInv'
    <3>1. loop'.out = <<>>
      BY <2>1 DEF Resting
    <3>2. Len(loop'.out) = 0
      BY <3>1
    <3>. QED  BY <2>1, <3>1, <3>2 DEF SlowInv, LastIsOut, AheadIsAllowed, SaturatedIsSlow
  <2>2. CASE UNCHANGED vars
    <3>1. loop' = loop /\ traj' = traj
      BY <2>2 DEF vars
    <3>2. LastIsOut'
      BY <3>1 DEF SlowInv, LastIsOut
    <3>3. AheadIsAllowed'
      BY <3>1 DEF SlowInv, AheadIsAllowed, Ahead, Went
    <3>4. SaturatedIsSlow'
      BY <3>1 DEF SlowInv, SaturatedIsSlow
    <3>. QED  BY <3>2, <3>3, <3>4 DEF SlowInv
  <2>3. CASE Call /\ loop' = loop
    BY <2>1, <2>3 DEF Call
  <2>4. CASE Interpolate
    <3>1. CASE loop' = loop
      BY <2>3, <2>4, <3>1 DEF Interpolate
    <3>2. CASE loop' = Entered(traj'.points)
      BY <2>1, <3>2 DEF Entered
    <3>. QED  BY <2>4, <3>1, <3>2 DEF Interpolate
  <2>5. CASE SaturateRound
    <3>1. CASE loop' = Resting
      BY <2>1, <3>1
    <3>2. CASE loop' # Resting
      BY <2>5, <3>2, RoundIsSlow DEF SaturateRound
    <3>. QED  BY <3>1, <3>2
  <2>6. CASE \/ LoadDescription \/ GetTrajectory \/ Send \/ Overread \/ InterpolateUnlimited
             \/ \E indices \in Mappings, byName \in BOOLEAN : SetJointIndices(indices, byName)
    BY <2>3, <2>6 DEF LoadDescription, GetTrajectory, Send, Overread, InterpolateUnlimited,
                      Breaks, SetJointIndices
  <2>7. ASSUME NEW points, NEW n, NEW m,
               AddWaypoints(points) \/ RemoveWaypoints(n) \/ SetInterpolationMode(m)
        PROVE  SlowInv'
    BY <2>3, <2>7 DEF AddWaypoints, RemoveWaypoints, SetInterpolationMode
  <2>. QED  BY <2>2, <2>4, <2>5, <2>6, <2>7 DEF Next
<1>4. SlowInv => SaturatedIsSlow
  BY DEF SlowInv
<1>. QED  BY <1>2, <1>3, <1>4, InitType, NextType, PTL DEF Spec
-----------------------------------------------------------------------------
(* How much saturation puts in.  In one round the speed changes by no more  *)
(* than the acceleration limit, so that before the next one the target is   *)
(* at most both limits away.  A round that does not go on to the next       *)
(* waypoint brings it nearer by the speed limit, which can be done only as  *)
(* often as this goes into the acceleration limit.                          *)
NeverUpsamples ==
    MaxAccel <= MaxSpeed /\ loop # Resting => Len(loop.out) = loop.up - 1

(* After r rounds that did not go on.                                       *)
Wavered(r) ==
    /\ Len(loop.out) <= (loop.up - 2) * PerWaypoint + 1 + r
    /\ \A j \in traj.active : Abs(Ahead[j]) <= MaxSpeed + MaxAccel - r * MaxSpeed

PaceInv ==
    loop # Resting =>
        /\ loop.target = loop.next /\ loop.up - 1 <= Len(loop.out)
        /\ \E r \in 0 .. PerWaypoint - 1 : Wavered(r)

(* Scaling a to a * num / den leaves at most den - num of it.               *)
LEMMA QuotientRest ==
    ASSUME NEW a \in Nat, NEW num \in Nat, NEW den \in Nat \ {0}, a <= den, num <= den
    PROVE  a - (a * num) \div den <= den - num
<1>. DEFINE p == a * num
            q == p \div den
            r == den - num
<1>1. p \in Nat /\ r \in Nat
  OBVIOUS
<1>2. a * r <= den * r /\ a * r = a * den - p /\ den * a = a * den
  BY MonotoneProduct, <1>1
<1>. HIDE DEF p
<1>3. q \in Int /\ den * q <= p /\ p < den * q + den
  BY <1>1
<1>. HIDE DEF q, r
<1>4. ASSUME q < a - r PROVE FALSE
  <2>1. a - r - q - 1 \in Nat
    BY <1>1, <1>3, <1>4
  <2>2. den * (a - r - q - 1) \in Nat
    BY <2>1
  <2>3. /\ den * (a - r - q - 1) = den * a - den * r - den * q - den
        /\ den * a \in Int /\ den * r \in Int /\ den * q \in Int /\ a * r \in Int
    BY <1>1, <1>3
  <2>. QED  BY <1>1, <1>2, <1>3, <2>2, <2>3
<1>. QED  BY <1>1, <1>3, <1>4 DEF p, q, r

LEMMA QuotientBelow ==
    ASSUME NEW a \in Nat, NEW num \in Nat, NEW den \in Nat \ {0}, num <= den
    PROVE  (a * num) \div den <= a
<1>. DEFINE p == a * num
            q == p \div den
<1>1. p \in Nat /\ num * a <= den * a /\ p = num * a
  BY MonotoneProduct
<1>. HIDE DEF p
<1>2. q \in Int /\ den * q <= p /\ p < den * q + den
  BY <1>1
<1>. HIDE DEF q
<1>3. ASSUME q > a PROVE FALSE
  <2>1. q - a - 1 \in Nat
    BY <1>2, <1>3
  <2>2. den * (q - a - 1) \in Nat
    BY <2>1
  <2>3. den * (q - a - 1) = den * q - den * a - den /\ den * a \in Int /\ den * q \in Int
    BY <1>2
  <2>. QED  BY <1>1, <1>2, <2>2, <2>3
<1>. QED  BY <1>2, <1>3 DEF p, q

LEMMA ScaledRest ==
    ASSUME NEW x \in Int, NEW num \in Nat, NEW den \in Nat \ {0}, Abs(x) <= den, num <= den
    PROVE  Abs(x - Scaled(x, num, den)) <= den - num
<1>1. Scaled(x, num, den) \in Int /\ den - num \in Nat
  BY ScaledBound
<1>2. CASE x < 0
  <2>. DEFINE q == (-x * num) \div den
  <2>1. -x \in Nat /\ -x <= den
    BY <1>2 DEF Abs
  <2>2. -x * num = (-x) * num
    BY <2>1
  <2>3. /\ ((-x) * num) \div den \in Nat
        /\ -x - (((-x) * num) \div den) <= den - num
        /\ ((-x) * num) \div den <= -x
    BY <2>1, QuotientRest, QuotientBound, QuotientBelow
  <2>4. q \in Nat /\ -x - q <= den - num /\ q <= -x
    BY <2>2, <2>3
  <2>5. Scaled(x, num, den) = -q
    BY <1>2 DEF Scaled
  <2>. HIDE DEF q
  <2>6. Abs(x + q) <= den - num
    BY <1>1, <2>1, <2>4 DEF Abs
  <2>. QED  BY <2>4, <2>5, <2>6
<1>3. CASE ~(x < 0)
  <2>. DEFINE q == (x * num) \div den
  <2>1. x \in Nat /\ x <= den
    BY <1>3 DEF Abs
  <2>2. q \in Nat /\ x - q <= den - num /\ q <= x
    BY <2>1, QuotientRest, QuotientBound, QuotientBelow
  <2>3. Scaled(x, num, den) = q
    BY <1>3 DEF Scaled
  <2>. HIDE DEF q
  <2>. QED  BY <1>1, <2>1, <2>2, <2>3 DEF Abs
<1>. QED  BY <1>2, <1>3

(* What a limit leaves of a change that is at most twice the limit.         *)
LEMMA LimitedRest ==
    ASSUME traj.active \subseteq Slot, NEW change \in Point, NEW limit \in Nat, NEW rest \in Nat,
           \A j \in traj.active : Abs(change[j]) <= limit + rest
    PROVE  \A j \in traj.active : Abs(change[j] - Limited(change, limit)[j]) <= rest
<1>. DEFINE most == Greatest(change)
<1>1. /\ most \in Nat /\ \A j \in traj.active : Abs(change[j]) <= most
      /\ most = 0 \/ \E j \in traj.active : most = Abs(change[j])
  BY GreatestType DEF Point
<1>2. \A s \in Slot : change[s] \in Int
  BY DEF Point
<1>3. \A s \in Slot :
          Limited(change, limit)[s] = IF s \in traj.active /\ most > limit
                                      THEN Scaled(change[s], limit, most) ELSE change[s]
  BY DEF Limited
<1>. HIDE DEF most
<1>4. most <= limit + rest
  BY <1>1
<1>. SUFFICES ASSUME NEW j \in traj.active
              PROVE  Abs(change[j] - Limited(change, limit)[j]) <= rest
  OBVIOUS
<1>5. CASE most > limit
  <2>. DEFINE y == Abs(change[j] - Scaled(change[j], limit, most))
  <2>1. most \in Nat \ {0} /\ limit <= most
    BY <1>1, <1>5
  <2>2. Scaled(change[j], limit, most) \in Int /\ y <= most - limit
    BY <1>1, <1>2, <2>1, ScaledBound, ScaledRest
  <2>3. y \in Int
    BY <1>2, <2>2, AbsType
  <2>4. Limited(change, limit)[j] = Scaled(change[j], limit, most)
    BY <1>3, <1>5
  <2>. HIDE DEF y
  <2>5. y <= rest
    BY <1>1, <1>4, <2>2, <2>3
  <2>. QED  BY <2>4, <2>5 DEF y
<1>6. CASE ~(most > limit)
  <2>1. Limited(change, limit)[j] = change[j] /\ change[j] \in Int
    BY <1>2, <1>3, <1>6
  <2>. QED  BY <2>1 DEF Abs
<1>. QED  BY <1>5, <1>6

(* A change that is limited keeps its direction.                            *)
LEMMA LimitedBetween ==
    ASSUME traj.active \subseteq Slot, NEW change \in Point, NEW limit \in Nat,
           NEW j \in traj.active
    PROVE  \/ 0 <= Limited(change, limit)[j] /\ Limited(change, limit)[j] <= change[j]
           \/ change[j] <= Limited(change, limit)[j] /\ Limited(change, limit)[j] <= 0
<1>. DEFINE most == Greatest(change)
            x    == change[j]
<1>1. most \in Nat /\ Abs(x) <= most
  BY GreatestType DEF Point
<1>2. x \in Int
  BY DEF Point
<1>3. Limited(change, limit)[j] = IF most > limit THEN Scaled(x, limit, most) ELSE x
  BY DEF Limited
<1>. HIDE DEF most, x
<1>4. CASE most > limit /\ x < 0
  <2>. DEFINE q == (-x * limit) \div most
  <2>1. -x \in Nat /\ -x <= most /\ most \in Nat \ {0} /\ limit <= most /\ limit \in Nat
    BY <1>1, <1>2, <1>4 DEF Abs
  <2>2. ((-x) * limit) \div most \in Nat /\ ((-x) * limit) \div most <= -x
    BY <2>1, QuotientBound, QuotientBelow
  <2>3. -x * limit = (-x) * limit
    BY <1>2, <2>1
  <2>4. q \in Nat /\ q <= -x
    BY <2>2, <2>3
  <2>5. Scaled(x, limit, most) = -q
    BY <1>4 DEF Scaled
  <2>. HIDE DEF q
  <2>. QED  BY <1>2, <1>3, <1>4, <2>4, <2>5 DEF x
<1>5. CASE most > limit /\ ~(x < 0)
  <2>1. x \in Nat /\ x <= most /\ most \in Nat \ {0} /\ limit <= most
    BY <1>1, <1>2, <1>5 DEF Abs
  <2>2. (x * limit) \div most \in Nat /\ (x * limit) \div most <= x
    BY <2>1, QuotientBound, QuotientBelow
  <2>3. Scaled(x, limit, most) = (x * limit) \div most
    BY <1>5 DEF Scaled
  <2>. QED  BY <1>3, <1>5, <2>1, <2>2, <2>3 DEF x
<1>6. CASE ~(most > limit)
  BY <1>2, <1>3, <1>6 DEF x
<1>. QED  BY <1>4, <1>5, <1>6

(* The greatest component is within a bound if all are.                     *)
LEMMA GreatestBound ==
    ASSUME traj.active \subseteq Slot, NEW f \in Point, NEW n \in Nat
    PROVE  Greatest(f) <= n <=> \A j \in traj.active : Abs(f[j]) <= n
<1>1. /\ Greatest(f) \in Nat /\ \A j \in traj.active : Abs(f[j]) <= Greatest(f)
      /\ Greatest(f) = 0 \/ \E j \in traj.active : Greatest(f) = Abs(f[j])
  BY GreatestType DEF Point
<1>2. \A j \in traj.active : Abs(f[j]) \in Nat
  BY AbsType DEF Point
<1>. QED  BY <1>1, <1>2

(* How often a round may leave the target where the next one cannot reach.  *)
LEMMA PerWaypointBound ==
    /\ PerWaypoint \in Nat \ {0}
    /\ \A r \in 0 .. PerWaypoint - 1 : r * MaxSpeed \in Nat /\ r * MaxSpeed <= MaxAccel
    /\ \A r \in Nat : (r + 1) * MaxSpeed < MaxAccel => r + 1 \in 0 .. PerWaypoint - 1
<1>. DEFINE S == MaxSpeed
            A == MaxAccel
            K == PerWaypoint
<1>1. S \in Nat \ {0} /\ A \in Nat
  BY WaypointsAssumption
<1>2. CASE A <= S
  <2>1. K = 1
    BY <1>2 DEF PerWaypoint
  <2>2. ASSUME NEW r \in Nat PROVE ~((r + 1) * S < A)
    <3>1. (r + 1) * S = r * S + S /\ r * S \in Nat
      BY <1>1
    <3>. QED  BY <1>1, <1>2, <3>1
  <2>3. ASSUME NEW r \in 0 .. K - 1 PROVE r * S = 0
    <3>1. r = 0
      BY <2>1
    <3>. QED  BY <1>1, <3>1
  <2>. QED  BY <1>1, <2>1, <2>2, <2>3
<1>3. CASE ~(A <= S)
  <2>. DEFINE q == (A + S - 1) \div S
  <2>1. K = q
    BY <1>3 DEF PerWaypoint
  <2>2. q \in Int /\ S * q <= A + S - 1 /\ A + S - 1 < S * q + S
    BY <1>1
  <2>. HIDE DEF q
  <2>3. S * q \in Int
    BY <1>1, <2>2
  <2>4. q >= 1
    <3>. SUFFICES ASSUME q <= 0 PROVE FALSE
      BY <2>2
    <3>1. -q \in Nat
      BY <2>2
    <3>2. S * (-q) \in Nat /\ S * (-q) = -(S * q)
      BY <1>1, <2>2, <3>1
    <3>. QED  BY <1>1, <1>3, <2>2, <2>3, <3>2
  <2>5. ASSUME NEW r \in 0 .. q - 1 PROVE r * S \in Nat /\ r * S <= A
    <3>1. q - 1 - r \in Nat /\ r \in Nat
      BY <2>2
    <3>2. S * (q - 1 - r) \in Nat /\ S * (q - 1 - r) = S * q - S - r * S /\ r * S \in Nat
      BY <1>1, <2>2, <3>1
    <3>. QED  BY <1>1, <2>2, <2>3, <3>2
  <2>6. ASSUME NEW r \in Nat, (r + 1) * S < A PROVE r + 1 <= q - 1
    <3>. SUFFICES ASSUME r + 1 >= q PROVE FALSE
      BY <2>2
    <3>1. r + 1 - q \in Nat
      BY <2>2
    <3>2. /\ S * (r + 1 - q) \in Nat
          /\ S * (r + 1 - q) = (r + 1) * S - S * q /\ (r + 1) * S \in Nat
      BY <1>1, <2>2, <3>1
    <3>. QED  BY <1>1, <2>2, <2>3, <2>6, <3>2
  <2>. QED  BY <2>1, <2>2, <2>4, <2>5, <2>6
<1>. QED  BY <1>1, <1>2, <1>3

(* A round that finds the next element within reach goes on; one that does  *)
(* not aims at it again.                                                    *)
LEMMA RoundTargets ==
    /\ Round.target = Round.next
    /\ Round.up \in {loop.up, loop.up + 1}
BY DEF Round

LEMMA RoundWavers ==
    ASSUME loop.up \in Nat, Round.up = loop.up
    PROVE  LET coming == Plus(Round.last, Minus(Round.last, loop.last))
           IN  /\ ~(Greatest(Minus(loop.next, Round.last)) <= MaxSpeed)
               /\ Round.target = Plus(coming, Limited(Minus(loop.next, coming), MaxAccel))
BY DEF Round

(* The speed of a round, and where the target is after it.                  *)
LEMMA RoundSpeed ==
    ASSUME TypeInv, loop # Resting, loop.up <= Len(traj.points), NEW j \in traj.active
    PROVE  LET speed  == Limited(Ahead, MaxSpeed)[j]
               coming == Plus(Round.last, Minus(Round.last, loop.last))
           IN  /\ coming \in Point /\ j \in Slot /\ speed \in Int
               /\ Round.last[j] = loop.last[j] + speed
               /\ coming[j] = Round.last[j] + speed
               /\ loop.last[j] \in Int /\ Round.last[j] \in Int
               /\ -MaxSpeed <= speed /\ speed <= MaxSpeed
<1>. DEFINE went == Minus(Round.last, loop.last)
<1>1. /\ loop.last \in Point /\ loop.target \in Point
      /\ j \in Slot /\ traj.active \subseteq Slot /\ MaxSpeed \in Nat
  BY WaypointsAssumption DEF TypeInv, TypeOK, LoopType, Saturation, Traj
<1>2. Round \in Saturation /\ Round.last = Plus(loop.last, Limited(Ahead, MaxSpeed))
  BY RoundType DEF Ahead
<1>3. /\ Round.last \in Point /\ Ahead \in Point /\ Limited(Ahead, MaxSpeed) \in Point
  BY <1>1, <1>2, SumType, LimitedType DEF Ahead, Saturation
<1>4. went \in Point /\ Plus(Round.last, went) \in Point
  BY <1>1, <1>3, SumType
<1>. DEFINE speed == Limited(Ahead, MaxSpeed)[j]
<1>5. /\ Round.last[j] = loop.last[j] + speed
      /\ loop.last[j] \in Int /\ speed \in Int
  BY <1>1, <1>2, <1>3, SumType
<1>6. went[j] = Round.last[j] - loop.last[j] /\ Round.last[j] \in Int
  <2>1. Round.last \in Point /\ loop.last \in Point /\ j \in Slot
    BY <1>1, <1>3
  <2>. QED  BY <2>1, SumType
<1>. HIDE DEF went
<1>7. Plus(Round.last, went)[j] = Round.last[j] + went[j]
  <2>1. Round.last \in Point /\ went \in Point /\ j \in Slot
    BY <1>1, <1>3, <1>4
  <2>. QED  BY <2>1, SumType
<1>8. -MaxSpeed <= speed /\ speed <= MaxSpeed
  BY <1>1, <1>3, LimitedType
<1>. HIDE DEF speed
<1>9. Plus(Round.last, went)[j] = Round.last[j] + speed
  BY <1>5, <1>6, <1>7
<1>. QED  BY <1>1, <1>4, <1>5, <1>6, <1>8, <1>9 DEF went, speed

(* What a round leaves of the way to where it aimed.                        *)
LEMMA RoundRest ==
    ASSUME TypeInv, loop # Resting, loop.up <= Len(traj.points), loop.target = loop.next
    PROVE  /\ Minus(loop.next, Round.last) \in Point /\ Ahead \in Point
           /\ \A j \in traj.active :
                 /\ Minus(loop.next, Round.last)[j] = Ahead[j] - Limited(Ahead, MaxSpeed)[j]
                 /\ loop.next[j] \in Int
                 /\ loop.next[j] - Round.last[j] = Minus(loop.next, Round.last)[j]
<1>1. /\ loop.last \in Point /\ loop.next \in Point /\ traj.active \subseteq Slot
  BY DEF TypeInv, TypeOK, LoopType, Saturation, Traj
<1>2. Round.last \in Point
  BY RoundType DEF Saturation
<1>3. Minus(loop.next, Round.last) \in Point /\ Ahead \in Point
  BY <1>1, <1>2, SumType DEF Ahead
<1>4. ASSUME NEW j \in traj.active
      PROVE  /\ Minus(loop.next, Round.last)[j] = Ahead[j] - Limited(Ahead, MaxSpeed)[j]
             /\ loop.next[j] \in Int
             /\ loop.next[j] - Round.last[j] = Minus(loop.next, Round.last)[j]
  <2>. DEFINE speed == Limited(Ahead, MaxSpeed)[j]
              rest  == Minus(loop.next, Round.last)[j]
              ahead == Ahead[j]
  <2>1. /\ j \in Slot /\ speed \in Int /\ Round.last[j] = loop.last[j] + speed
        /\ loop.last[j] \in Int /\ Round.last[j] \in Int
    BY RoundSpeed
  <2>2. rest = loop.next[j] - Round.last[j] /\ loop.next[j] \in Int
    BY <1>1, <1>2, <2>1, SumType
  <2>3. ahead = loop.next[j] - loop.last[j]
    BY <1>1, <2>1, SumType DEF Ahead
  <2>. HIDE DEF speed, rest, ahead
  <2>4. rest = ahead - speed
    BY <2>1, <2>2, <2>3
  <2>. QED  BY <2>2, <2>4 DEF speed, rest, ahead
<1>. QED  BY <1>3, <1>4

(* Between a number within a bound and another is what is within it.        *)
LEMMA BetweenBound ==
    ASSUME NEW v \in Int, NEW m \in Int, NEW rest \in Int, NEW n \in Nat,
           Abs(v) <= n, Abs(rest) <= n,
           (0 <= m /\ m <= rest - v) \/ (rest - v <= m /\ m <= 0)
    PROVE  Abs(v + m) <= n
<1>1. -n <= v /\ v <= n /\ -n <= rest /\ rest <= n
  BY AbsBound
<1>2. -n <= v + m /\ v + m <= n
  BY <1>1
<1>. QED  BY <1>2, AbsBound

LEMMA RoundPace ==
    ASSUME TypeInv, PaceInv, loop # Resting, loop.up <= Len(traj.points),
           loop' = Round, traj' = traj
    PROVE  PaceInv'
<1>1. /\ loop.up \in Nat \ {0} /\ loop.out \in Seq(Point) /\ traj.active \subseteq Slot
      /\ MaxSpeed \in Nat \ {0} /\ MaxAccel \in Nat
  BY WaypointsAssumption DEF TypeInv, TypeOK, LoopType, Saturation, Traj
<1>2. /\ Round.last \in Point /\ Round.target \in Point
      /\ Len(Round.out) = Len(loop.out) + 1 /\ Len(loop.out) \in Nat
  BY <1>1, RoundType DEF Saturation
<1>3. PICK r \in 0 .. PerWaypoint - 1 : Wavered(r)
  BY DEF PaceInv
<1>4. loop.target = loop.next /\ loop.up - 1 <= Len(loop.out)
  BY DEF PaceInv
<1>5. PICK change \in Point :
          Round.target = Plus(Plus(Round.last, Minus(Round.last, loop.last)),
                              Limited(change, MaxAccel))
  BY RoundType
<1>6. /\ PerWaypoint \in Nat \ {0} /\ r \in Nat
      /\ r * MaxSpeed \in Nat /\ r * MaxSpeed <= MaxAccel
  BY PerWaypointBound
<1>. DEFINE rests == MaxAccel - r * MaxSpeed
            coming == Plus(Round.last, Minus(Round.last, loop.last))
<1>7. rests \in Nat
  BY <1>1, <1>6
<1>8. \A j \in traj.active : Abs(Ahead[j]) <= MaxSpeed + rests
  <2>1. MaxSpeed + MaxAccel - r * MaxSpeed = MaxSpeed + rests
    BY <1>1, <1>6
  <2>. QED  BY <1>3, <2>1 DEF Wavered
(* Where the target is, whatever the change that was limited. *)
<1>9. ASSUME NEW f \in Point, Round.target = Plus(coming, Limited(f, MaxAccel)),
             NEW j \in traj.active
      PROVE  /\ Ahead'[j] = Limited(Ahead, MaxSpeed)[j] + Limited(f, MaxAccel)[j]
             /\ Limited(f, MaxAccel)[j] \in Int
  <2>. DEFINE speed == Limited(Ahead, MaxSpeed)[j]
              more  == Limited(f, MaxAccel)[j]
  <2>1. /\ coming \in Point /\ j \in Slot /\ speed \in Int
        /\ coming[j] = Round.last[j] + speed /\ Round.last[j] \in Int
    BY RoundSpeed
  <2>2. Ahead' = Minus(Round.target, Round.last)
    BY DEF Ahead
  <2>3. Ahead'[j] = Round.target[j] - Round.last[j]
    BY <1>2, <2>1, <2>2, SumType
  <2>. HIDE DEF coming
  <2>4. Limited(f, MaxAccel) \in Point
    BY <1>1, LimitedType
  <2>5. Round.target[j] = coming[j] + more /\ more \in Int
    BY <1>9, <2>1, <2>4, SumType
  <2>. HIDE DEF speed, more
  <2>6. Ahead'[j] = speed + more
    BY <2>1, <2>3, <2>5
  <2>. QED  BY <2>5, <2>6 DEF speed, more
<1>10. Round.target = Round.next /\ Round.up \in {loop.up, loop.up + 1}
  BY RoundTargets
<1>. DEFINE before == (loop.up - 2) * PerWaypoint
<1>11. before \in Int /\ Len(loop.out) <= before + 1 + r
  BY <1>1, <1>3, <1>6 DEF Wavered
(* It goes on. *)
<1>12. CASE Round.up = loop.up + 1
  <2>1. (Round.up - 2) * PerWaypoint = before + PerWaypoint
    BY <1>1, <1>6, <1>12
  <2>2. Len(Round.out) <= (Round.up - 2) * PerWaypoint + 1 + 0
    <3>. HIDE DEF before
    <3>. QED  BY <1>2, <1>6, <1>11, <2>1
  <2>3. ASSUME NEW j \in traj.active PROVE Abs(Ahead'[j]) <= MaxSpeed + MaxAccel - 0 * MaxSpeed
    <3>. DEFINE speed == Limited(Ahead, MaxSpeed)[j]
                more  == Limited(change, MaxAccel)[j]
    <3>1. Ahead'[j] = speed + more /\ more \in Int
      BY <1>5, <1>9
    <3>2. speed \in Int /\ -MaxSpeed <= speed /\ speed <= MaxSpeed
      BY RoundSpeed
    <3>3. -MaxAccel <= more /\ more <= MaxAccel
      BY <1>1, LimitedType
    <3>. HIDE DEF speed, more
    <3>4. Abs(speed + more) <= MaxSpeed + MaxAccel
      BY <1>1, <3>1, <3>2, <3>3 DEF Abs
    <3>5. 0 * MaxSpeed = 0
      BY <1>1
    <3>. QED  BY <1>1, <3>1, <3>4, <3>5
  <2>4. Wavered(0)' /\ 0 \in 0 .. PerWaypoint - 1
    BY <1>6, <2>2, <2>3 DEF Wavered
  <2>5. Round.up - 1 <= Len(Round.out)
    BY <1>1, <1>2, <1>4, <1>12
  <2>. QED  BY <1>10, <2>4, <2>5 DEF PaceInv
(* It does not. *)
<1>13. CASE Round.up = loop.up
  <2>. DEFINE rest == Minus(loop.next, Round.last)
              aim  == Minus(loop.next, coming)
  <2>1. /\ ~(Greatest(rest) <= MaxSpeed)
        /\ Round.target = Plus(coming, Limited(aim, MaxAccel))
    BY <1>1, <1>13, RoundWavers
  <2>2. rest \in Point /\ Ahead \in Point
    BY <1>4, RoundRest
  <2>3. \A j \in traj.active : Abs(rest[j]) <= rests
    <3>. HIDE DEF rests
    <3>1. \A j \in traj.active : Abs(Ahead[j] - Limited(Ahead, MaxSpeed)[j]) <= rests
      BY <1>1, <1>7, <1>8, <2>2, LimitedRest
    <3>2. \A j \in traj.active : rest[j] = Ahead[j] - Limited(Ahead, MaxSpeed)[j]
      BY <1>4, RoundRest
    <3>. QED  BY <3>1, <3>2
  <2>4. MaxSpeed < rests
    <3>. HIDE DEF rests, rest
    <3>1. Greatest(rest) <= rests /\ Greatest(rest) \in Nat
      BY <1>1, <1>7, <2>2, <2>3, GreatestBound, GreatestType DEF Point
    <3>. QED  BY <1>1, <1>7, <2>1, <3>1
  <2>5. (r + 1) * MaxSpeed = r * MaxSpeed + MaxSpeed
    BY <1>1, <1>6
  <2>6. r + 1 \in 0 .. PerWaypoint - 1
    <3>1. (r + 1) * MaxSpeed < MaxAccel
      BY <1>1, <1>6, <2>4, <2>5
    <3>. QED  BY <1>6, <3>1, PerWaypointBound
  <2>7. ASSUME NEW j \in traj.active PROVE Abs(Ahead'[j]) <= rests
    <3>. DEFINE speed == Limited(Ahead, MaxSpeed)[j]
                more  == Limited(aim, MaxAccel)[j]
    <3>1. /\ coming \in Point /\ j \in Slot /\ speed \in Int
          /\ coming[j] = Round.last[j] + speed /\ Round.last[j] \in Int
          /\ -MaxSpeed <= speed /\ speed <= MaxSpeed
      BY RoundSpeed
    <3>2. /\ loop.next[j] \in Int /\ loop.next[j] - Round.last[j] = rest[j]
      BY <1>4, RoundRest
    <3>. HIDE DEF coming
    <3>3. aim \in Point /\ aim[j] = loop.next[j] - coming[j]
      <4>1. loop.next \in Point /\ coming \in Point /\ j \in Slot
        BY <3>1 DEF TypeInv, LoopType, Saturation
      <4>. QED  BY <4>1, SumType
    <3>. HIDE DEF aim, rest
    <3>4. Ahead'[j] = speed + more /\ more \in Int
      BY <1>9, <2>1, <3>3 DEF coming
    <3>5. (0 <= more /\ more <= aim[j]) \/ (aim[j] <= more /\ more <= 0)
      BY <1>1, <3>3, LimitedBetween
    <3>6. Abs(speed) <= rests
      <4>1. speed \in Int /\ -MaxSpeed <= speed /\ speed <= MaxSpeed
        BY <3>1
      <4>. HIDE DEF speed, rests
      <4>. QED  BY <1>1, <1>7, <2>4, <4>1, AbsBound
    <3>7. /\ speed \in Int /\ coming[j] = Round.last[j] + speed /\ Round.last[j] \in Int
      BY <3>1
    <3>8. rests \in Nat
      BY <1>7
    <3>9. Abs(rest[j]) <= rests
      BY <2>3
    <3>. HIDE DEF speed, more, rests
    <3>10. /\ aim[j] = rest[j] - speed /\ rest[j] \in Int /\ Abs(rest[j]) <= rests
          /\ speed \in Int /\ rests \in Nat
      <4>1. rest[j] \in Int
        BY <3>2, <3>7
      <4>2. aim[j] = (loop.next[j] - Round.last[j]) - speed
        BY <3>2, <3>3, <3>7, SMTT(30)
      <4>3. aim[j] = rest[j] - speed
        BY <3>2, <4>2
      <4>. QED  BY <3>7, <3>8, <3>9, <4>1, <4>3
    <3>11. (0 <= more /\ more <= rest[j] - speed) \/ (rest[j] - speed <= more /\ more <= 0)
      BY <3>5, <3>10
    <3>12. Abs(speed + more) <= rests
      BY <3>4, <3>6, <3>10, <3>11, BetweenBound
    <3>. QED  BY <3>4, <3>12
  <2>8. rests = MaxSpeed + MaxAccel - (r + 1) * MaxSpeed
    BY <1>1, <1>6, <2>5
  <2>9. Len(Round.out) <= (Round.up - 2) * PerWaypoint + 1 + (r + 1)
    <3>1. (Round.up - 2) * PerWaypoint = before
      BY <1>13
    <3>. DEFINE put == Len(Round.out)
                had == Len(loop.out)
    <3>2. put = had + 1 /\ had \in Nat /\ had <= before + 1 + r
      BY <1>2, <1>11
    <3>. HIDE DEF before, put, had
    <3>3. put <= before + 1 + (r + 1)
      BY <1>6, <1>11, <3>2
    <3>. QED  BY <3>1, <3>3 DEF put
  <2>10. Wavered(r + 1)'
    BY <2>7, <2>8, <2>9 DEF Wavered
  <2>11. Round.up - 1 <= Len(Round.out)
    BY <1>1, <1>2, <1>4, <1>13
  <2>. QED  BY <1>10, <2>6, <2>10, <2>11 DEF PaceInv
<1>. QED  BY <1>10, <1>12, <1>13

LEMMA EnteredPace ==
    ASSUME TypeInv', loop' # Resting, loop' = Entered(traj'.points)
    PROVE  PaceInv'
<1>. DEFINE p == traj'.points[1]
            r == PerWaypoint - 1
<1>1. /\ loop'.target = p /\ loop'.next = p /\ loop'.last = p /\ loop'.up = 1
      /\ Len(loop'.out) = 0
  BY DEF Entered
<1>2. p \in Point /\ traj'.active \subseteq Slot /\ MaxSpeed \in Nat /\ MaxAccel \in Nat
  BY <1>1, WaypointsAssumption DEF TypeInv, TypeOK, LoopType, Saturation, Traj
<1>3. /\ PerWaypoint \in Nat \ {0} /\ r \in 0 .. PerWaypoint - 1
      /\ r * MaxSpeed \in Nat /\ r * MaxSpeed <= MaxAccel
  BY PerWaypointBound
<1>. HIDE DEF p
<1>4. ASSUME NEW j \in traj'.active
      PROVE  Abs(Ahead'[j]) <= MaxSpeed + MaxAccel - r * MaxSpeed
  <2>1. Ahead' = Minus(p, p)
    BY <1>1 DEF Ahead
  <2>2. Ahead'[j] = 0
    BY <1>2, <2>1, SumType
  <2>3. Abs(0) = 0
    BY DEF Abs
  <2>. HIDE DEF r
  <2>. QED  BY <1>2, <1>3, <2>2, <2>3
<1>5. (loop'.up - 2) * PerWaypoint + 1 + r = 0
  BY <1>1, <1>3
<1>6. Wavered(r)'
  <2>. HIDE DEF r
  <2>. QED  BY <1>1, <1>4, <1>5 DEF Wavered
<1>7. loop'.up - 1 <= Len(loop'.out)
  BY <1>1
<1>. QED  BY <1>1, <1>3, <1>6, <1>7 DEF PaceInv

LEMMA InitPace == Init => PaceInv
BY DEF Init, PaceInv

LEMMA NextPace == TypeInv /\ PaceInv /\ [Next]_vars => PaceInv'
<1>. SUFFICES ASSUME TypeInv, PaceInv, [Next]_vars PROVE PaceInv'
  OBVIOUS
<1>1. ASSUME loop' = Resting PROVE PaceInv'
  BY <1>1 DEF PaceInv
<1>2. CASE UNCHANGED vars
  BY <1>2 DEF vars, PaceInv, Wavered, Ahead
<1>3. CASE Call /\ loop' = loop
  BY <1>1, <1>3 DEF Call
<1>4. CASE Interpolate
  <2>1. CASE loop' = loop
    BY <1>3, <1>4, <2>1 DEF Interpolate
  <2>2. CASE loop' = Entered(traj'.points)
    BY <1>1, <2>2, NextType, EnteredPace
  <2>. QED  BY <1>4, <2>1, <2>2 DEF Interpolate
<1>5. CASE SaturateRound
  <2>1. CASE loop' = Resting
    BY <1>1, <2>1
  <2>2. CASE loop' # Resting
    BY <1>5, <2>2, RoundPace DEF SaturateRound
  <2>. QED  BY <2>1, <2>2
<1>6. CASE \/ LoadDescription \/ GetTrajectory \/ Send \/ Overread \/ InterpolateUnlimited
           \/ \E indices \in Mappings, byName \in BOOLEAN : SetJointIndices(indices, byName)
  BY <1>3, <1>6 DEF LoadDescription, GetTrajectory, Send, Overread, InterpolateUnlimited,
                    Breaks, SetJointIndices
<1>7. ASSUME NEW points, NEW n, NEW m,
             AddWaypoints(points) \/ RemoveWaypoints(n) \/ SetInterpolationMode(m)
      PROVE  PaceInv'
  BY <1>3, <1>7 DEF AddWaypoints, RemoveWaypoints, SetInterpolationMode
<1>. QED  BY <1>2, <1>4, <1>5, <1>6, <1>7 DEF Next

LEMMA PaceInvHolds == Spec => [](TypeInv /\ PaceInv)
<1>1. TypeInv /\ PaceInv /\ [Next]_vars => TypeInv' /\ PaceInv'
  BY NextType, NextPace
<1>. QED  BY <1>1, InitType, InitPace, PTL DEF Spec

(* Saturation ends, whatever it is given and whatever the limits are: it    *)
(* puts out at most PerWaypoint elements for each that it is given, and so  *)
(* makes no more rounds than that, as each of them puts one out.            *)
LEMMA PaceEnds == TypeInv /\ PaceInv => SaturationEnds
<1>. SUFFICES ASSUME TypeInv, PaceInv, loop # Resting
              PROVE  Len(loop.out) <= (loop.up - 1) * PerWaypoint
  BY DEF SaturationEnds
<1>. DEFINE put    == Len(loop.out)
            before == (loop.up - 2) * PerWaypoint
<1>1. loop.up \in Nat /\ put \in Nat /\ PerWaypoint \in Nat \ {0}
  BY PerWaypointBound DEF TypeInv, LoopType, Saturation
<1>2. PICK r \in 0 .. PerWaypoint - 1 : put <= before + 1 + r
  BY DEF PaceInv, Wavered
<1>3. (loop.up - 1) * PerWaypoint = before + PerWaypoint /\ before \in Int
  BY <1>1
<1>. HIDE DEF put, before
<1>4. put <= before + PerWaypoint
  BY <1>1, <1>2, <1>3
<1>. QED  BY <1>3, <1>4 DEF put

(* Saturation keeps to both limits, and ends: for all of them and for any   *)
(* trajectory it puts out no more than PerWaypoint elements for each that   *)
(* it is given, though it wavers where the acceleration limit is the        *)
(* greater one.                                                             *)
THEOREM SaturationIsSafeHolds == Spec => []SaturationIsSafe
<1>1. SaturatedIsSlow /\ SaturationEnds => SaturationIsSafe
  BY DEF SaturationIsSafe
<1>. QED  BY <1>1, PaceInvHolds, PaceEnds, SaturatedIsSlowHolds, PTL

(* When the acceleration limit is not the greater one, per period, as with  *)
(* the limits and the frequency of every description that comes with the    *)
(* code, saturate() puts out one element for each that it was given, and    *)
(* none in between, however long the way from one to the next is.           *)
THEOREM NeverUpsamplesHolds == Spec => []NeverUpsamples
<1>1. TypeInv /\ PaceInv => NeverUpsamples
  <2>. SUFFICES ASSUME TypeInv, PaceInv, MaxAccel <= MaxSpeed, loop # Resting
                PROVE  Len(loop.out) = loop.up - 1
    BY DEF NeverUpsamples
  <2>1. PerWaypoint = 1
    BY DEF PerWaypoint
  <2>2. Len(loop.out) <= (loop.up - 1) * 1
    BY <2>1, PaceEnds DEF SaturationEnds
  <2>3. loop.up \in Nat /\ Len(loop.out) \in Nat /\ loop.up - 1 <= Len(loop.out)
    BY DEF TypeInv, LoopType, Saturation, PaceInv
  <2>. QED  BY <2>2, <2>3
<1>. QED  BY <1>1, PaceInvHolds, PTL
=============================================================================
