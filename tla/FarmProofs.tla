----------------------------- MODULE FarmProofs -----------------------------
(* Proofs about the farm: the bots and the depot they share (Geiger), the    *)
(* objects they collect (Collect), the reports of their prizes               *)
(* (GeigerReport), and one bot's search (GeigerSearch), for every number of  *)
(* bots, objects, finders and tiles.                                         *)
EXTENDS Geiger, Collect, GeigerReport, GeigerSearch, FiniteSetTheorems, TLAPS

-----------------------------------------------------------------------------
(* The search.  The signal shown before a hunt is what the counter shows     *)
(* there, and a fresh reading keeps the prize unless a particle was lost or  *)
(* a rapid green was taken for green.                                        *)
Shown == \/ shown = Nothing
         \/ /\ shown = Reading(Color(Dist2(shown.x, prize)), shown.x)
            /\ shown.x \in Grid /\ shown.area \in {"red", "yellow"}
SearchInv ==
  /\ prize \in Hideouts /\ spot \in Grid
  /\ active \in BOOLEAN /\ lost \in BOOLEAN /\ early \in BOOLEAN
  /\ candidates \subseteq Grid
  /\ Shown /\ PrizeKept /\ NeverWiped

(* Distances are naturals and have no direction. *)
LEMMA Distances ==
  ASSUME NEW a \in Grid, NEW b \in Grid
  PROVE  Dist2(a, b) \in Nat /\ Dist2(a, b) = Dist2(b, a)
<1>1. a \in Int /\ b \in Int
  BY GeigerAssumption DEF Grid
<1>2. (a - b) * (a - b) \in Nat /\ (a - b) * (a - b) = (b - a) * (b - a)
  <2>1. \A i \in Int : i * i \in Nat
    OBVIOUS
  <2> QED BY <1>1, <2>1
<1> QED BY <1>1, <1>2 DEF Dist2

LEMMA GridFacts == /\ Hideouts \subseteq Grid /\ Door \in Grid /\ Grid # {}
                   /\ \A t \in Hideouts : t \in Grid
<1>1. 0 \in 0..(GridWidth - 1)
  BY GeigerAssumption
<1> QED BY <1>1, GeigerAssumption DEF Grid, Door

(* A reading of the prize's own color keeps the prize. *)
LEMMA BandOfColor ==
  ASSUME NEW d \in Nat
  PROVE  IF Color(d) = "nil" THEN d > 3600
         ELSE Band(Color(d)).min <= d /\ d <= Band(Color(d)).max
<1>1. CASE d <= 64
  BY <1>1 DEF Color, Band
<1>2. CASE 64 < d /\ d <= 225
  BY <1>2 DEF Color, Band
<1>3. CASE 225 < d /\ d <= 900
  BY <1>3 DEF Color, Band
<1>4. CASE 900 < d /\ d <= 3600
  BY <1>4 DEF Color, Band
<1>5. CASE 3600 < d
  BY <1>5 DEF Color
<1> QED BY <1>1, <1>2, <1>3, <1>4, <1>5

LEMMA TrueReading ==
  ASSUME NEW x \in Grid, NEW y \in Grid
  PROVE  InBand(Reading(Color(Dist2(x, y)), x), y)
<1>1. Dist2(x, y) \in Nat /\ Dist2(x, y) = Dist2(y, x)
  BY Distances
<1>2. \A c : Reading(c, x).area = c /\ Reading(c, x).x = x
  BY DEF Reading
<1> QED BY <1>1, <1>2, BandOfColor DEF InBand

(* What apply_observation leaves: never nothing, and a kept one is kept. *)
LEMMA Observed ==
  ASSUME NEW S, S \subseteq Grid, NEW o
  PROVE  /\ ObservedBy(S, o) \subseteq Grid /\ ObservedBy(S, o) # {}
         /\ \A c \in S : InBand(o, c) => c \in ObservedBy(S, o)
BY GridFacts DEF ObservedBy, Keeps

LEMMA SearchStarts == SearchInit => SearchInv
BY GridFacts DEF SearchInit, SearchInv, Shown, PrizeKept, NeverWiped

LEMMA ResetKeeps ==
  ASSUME SearchInv, Reset, prize' = prize, shown' = shown \/ shown' = Nothing,
         spot' \in Grid
  PROVE  SearchInv'
BY DEF SearchInv, Reset, Shown, PrizeKept, NeverWiped

LEMMA LearnsKeeps ==
  ASSUME SearchInv, active, NEW t \in Grid, NEW o \in Readings(t), Learns(t, o)
  PROVE  SearchInv'
<1> USE DEF SearchInv
<1>0. prize \in Grid
  BY GridFacts
<1>1. /\ candidates' = ObservedBy(candidates, o)
      /\ spot' = t /\ UNCHANGED <<prize, active, shown>>
      /\ lost' = (lost \/ (o.area = "nil" /\ Color(Dist2(t, prize)) # "nil"))
      /\ early' = (early \/ (o.area = "green" /\ Color(Dist2(o.x, prize)) = "rapid"))
  BY DEF Learns
<1>2. candidates' \subseteq Grid /\ candidates' # {}
  BY <1>1, Observed
<1>3. ASSUME ~lost', ~early' PROVE prize \in candidates'
  <2>1. ~lost /\ ~early /\ prize \in candidates
    BY <1>1, <1>3 DEF PrizeKept
  <2>2. InBand(o, prize)
    <3>1. CASE o = Reading("nil", t)
      <4>1. o.area = "nil" /\ Color(Dist2(t, prize)) = "nil"
        BY <3>1, <1>1, <1>3 DEF Reading
      <4> QED BY <3>1, <4>1, <1>0, TrueReading
    <3>2. CASE \E x \in {spot, t} : \E c \in Seen(t, x) \ {"nil"} : o = Reading(c, x)
      <4>1. PICK x \in {spot, t} : \E c \in Seen(t, x) \ {"nil"} : o = Reading(c, x)
        BY <3>2
      <4>2. PICK c \in Seen(t, x) \ {"nil"} : o = Reading(c, x)
        BY <4>1
      <4>3. o.area = c /\ o.x = x /\ x \in Grid
        BY <4>1, <4>2 DEF Reading
      <4>4. c = Color(Dist2(x, prize))
        BY <4>2, <4>3, <1>1, <1>3 DEF Seen
      <4> QED BY <4>2, <4>3, <4>4, <1>0, TrueReading
    <3> QED BY <3>1, <3>2 DEF Readings
  <2> QED BY <2>1, <2>2, <1>1, Observed
<1>4. lost' \in BOOLEAN /\ early' \in BOOLEAN
  BY <1>1
<1> QED BY <1>1, <1>2, <1>3, <1>4 DEF Shown, PrizeKept, NeverWiped

(* Every probe is on the grid: build_probe_points clamps it. *)
LEMMA TargetsOnGrid == Targets \subseteq Grid
<1>1. \A x : Clamp(x) \in Grid
  BY GeigerAssumption DEF Clamp, Grid
<1>2. \A S, anchor, area : ProbePoints(S, anchor, area) \subseteq Grid
  BY <1>1 DEF ProbePoints
<1> QED BY <1>2 DEF Targets

LEMMA SearchStep == SearchInv /\ [SearchNext]_searchVars => SearchInv'
<1> SUFFICES ASSUME SearchInv, [SearchNext]_searchVars PROVE SearchInv'
  OBVIOUS
<1> USE DEF SearchInv
<1>0. prize \in Grid /\ Door \in Grid
  BY GridFacts
<1>1. CASE Particle
  <2>1. shown' = Reading(Color(Dist2(spot, prize)), spot)
    BY <1>1 DEF Particle
  <2>2. shown'.x = spot /\ shown'.area = Color(Dist2(spot, prize))
    BY <2>1 DEF Reading
  <2> QED BY <1>1, <2>1, <2>2 DEF Particle, Shown, PrizeKept, NeverWiped
<1>2. CASE StartHunt
  <2>1. prize \in candidates' /\ candidates' \subseteq Grid
    <3>1. CASE shown = Nothing
      BY <3>1, <1>0, <1>2 DEF StartHunt
    <3>2. CASE shown # Nothing
      <4>1. InBand(shown, prize)
        BY <3>2, <1>0, TrueReading DEF Shown
      <4> QED BY <3>2, <4>1, <1>0, <1>2, Observed DEF StartHunt
    <3> QED BY <3>1, <3>2
  <2> QED BY <1>2, <2>1 DEF StartHunt, Shown, PrizeKept, NeverWiped
<1>3. CASE GiveUp
  BY <1>3, ResetKeeps DEF GiveUp
<1>4. CASE Blocked
  BY <1>0, <1>4 DEF Blocked, Unreached, Shown, PrizeKept, NeverWiped
<1>5. CASE Interrupted
  BY <1>0, <1>5, ResetKeeps DEF Interrupted
<1>6. ASSUME active, NEW t \in Targets, Finds(t) PROVE SearchInv'
  BY <1>0, <1>6 DEF Finds, Prize, Reset, Shown, PrizeKept, NeverWiped
<1>7. ASSUME active, NEW t \in Targets, Refresh(t) PROVE SearchInv'
  <2>1. active' = FALSE /\ lost' = FALSE /\ early' = FALSE /\ candidates' = {}
    BY <1>7 DEF Refresh, Reset
  <2>2. spot' = Door /\ UNCHANGED <<prize, shown>>
    BY <1>7 DEF Refresh
  <2> QED BY <1>0, <2>1, <2>2 DEF Shown, PrizeKept, NeverWiped
<1>8. ASSUME active, NEW t \in Targets, NEW o \in Readings(t), Learns(t, o)
      PROVE  SearchInv'
  BY <1>8, TargetsOnGrid, LearnsKeeps
<1>9. CASE Probe
  BY <1>6, <1>7, <1>8, <1>9 DEF Probe
<1>10. CASE UNCHANGED searchVars
  BY <1>10 DEF searchVars, huntVars, Shown, PrizeKept, NeverWiped
<1> QED BY <1>1, <1>2, <1>3, <1>4, <1>5, <1>9, <1>10 DEF SearchNext

(* With every particle delivered and read as the color it is, the prize      *)
(* stays among the candidates, and no reading, however wrong, leaves a hunt  *)
(* without one (GeigerModule::apply_observation).                            *)
THEOREM SearchIsSound == SearchSpec => []CandidatesSound
<1>1. SearchInv => CandidatesSound
  BY DEF SearchInv, CandidatesSound
<1> QED BY <1>1, SearchStarts, SearchStep, PTL DEF SearchSpec

-----------------------------------------------------------------------------
(* The reports.  Who edits or posts has the lock, and posts only when the    *)
(* fleet knows of no message; so every message but the known one is due to   *)
(* a fault.                                                                  *)
Known == IF loaded THEN msg ELSE file.msg
Locked(f) == step[f] \in {"patch", "post"}
ReportInv ==
  /\ faults \in Nat /\ posted \subseteq Nat \ {NoMsg} /\ IsFiniteSet(posted)
  /\ step \in [Finders -> {"hunt", "report", "patch", "post"}]
  /\ loaded => file.msg = msg
  /\ \A f \in Finders : Locked(f) => lock = f /\ loaded
  /\ \A f \in Finders : step[f] = "post" => msg = NoMsg
  /\ Cardinality(posted \ {Known}) <= faults

LEMMA KnownIsLoaded == Known = Loaded.msg
BY DEF Known, Loaded

(* What is stored is what is known, in memory and in the file. *)
LEMMA StoresKnows ==
  ASSUME NEW n, NEW m, Stores(n, m)
  PROVE  loaded' = TRUE /\ msg' = m /\ file'.msg = m /\ Known' = m
BY DEF Stores, Known

LEMMA ReadsKnows ==
  ASSUME loaded => file.msg = msg, Reads
  PROVE  loaded' = TRUE /\ file' = file /\ file'.msg = msg' /\ msg' = Known /\ Known' = Known
BY KnownIsLoaded DEF Reads, Known

(* A message is disowned or taken away, or there is one more: how they count. *)
LEMMA OneLess ==
  ASSUME NEW S, IsFiniteSet(S), NEW k
  PROVE  /\ IsFiniteSet(S \ {k}) /\ Cardinality(S) \in Nat /\ Cardinality(S \ {k}) \in Nat
         /\ Cardinality(S) <= Cardinality(S \ {k}) + 1
         /\ Cardinality(S \ {k}) <= Cardinality(S)
<1>1. Cardinality(S) \in Nat
  BY FS_CardinalityType
<1>2. /\ IsFiniteSet(S \ {k})
      /\ Cardinality(S \ {k}) = IF k \in S THEN Cardinality(S) - 1 ELSE Cardinality(S)
  BY FS_RemoveElement
<1>3. Cardinality(S \ {k}) \in Nat
  BY <1>2, FS_CardinalityType
<1> QED BY <1>1, <1>2, <1>3

LEMMA OneMore ==
  ASSUME NEW S, IsFiniteSet(S), NEW m
  PROVE  /\ IsFiniteSet(S \cup {m}) /\ Cardinality(S \cup {m}) \in Nat
         /\ Cardinality(S) \in Nat
         /\ Cardinality(S \cup {m}) <= Cardinality(S) + 1
<1>1. Cardinality(S) \in Nat
  BY FS_CardinalityType
<1>2. /\ IsFiniteSet(S \cup {m})
      /\ Cardinality(S \cup {m}) = IF m \in S THEN Cardinality(S) ELSE Cardinality(S) + 1
  BY FS_AddElement
<1>3. Cardinality(S \cup {m}) \in Nat
  BY <1>2, FS_CardinalityType
<1> QED BY <1>1, <1>2, <1>3

LEMMA ReportStarts == ReportInit => ReportInv
<1> SUFFICES ASSUME ReportInit PROVE ReportInv
  OBVIOUS
<1>1. {} \ {Known} = {} /\ IsFiniteSet({}) /\ Cardinality({}) = 0
  BY FS_EmptySet
<1> QED BY <1>1 DEF ReportInit, ReportInv, Locked

LEMMA NewMsgType ==
  ASSUME ReportInv PROVE NewMsg \in Nat \ {NoMsg}
<1>1. Cardinality(posted) \in Nat /\ faults \in Nat
  BY OneLess DEF ReportInv
<1> QED BY <1>1 DEF NewMsg, NoMsg

(* The holder of the lock is the only one to edit or post. *)
LEMMA HolderSteps ==
  ASSUME ReportInv, NEW f \in Finders, Locked(f), Unlocks(f)
  PROVE  /\ step' \in [Finders -> {"hunt", "report", "patch", "post"}]
         /\ \A g \in Finders : ~(step'[g] \in {"patch", "post"})
<1>1. \A g \in Finders \ {f} : ~Locked(g)
  BY DEF ReportInv
<1> QED BY <1>1 DEF ReportInv, Unlocks, Steps, Locked

(* The others than the known message, in every step. *)
Others == Cardinality(posted \ {Known})

LEMMA ReportStep == ReportInv /\ [ReportNext]_reportVars => ReportInv'
<1> SUFFICES ASSUME ReportInv, [ReportNext]_reportVars PROVE ReportInv'
  OBVIOUS
<1> USE DEF ReportInv
<1>0. /\ Others \in Nat /\ Others <= faults /\ faults \in Nat
      /\ Cardinality(posted) \in Nat /\ Cardinality(posted) <= Others + 1
  BY OneLess DEF Others
<1>1. ASSUME NEW f \in Finders, RecordFind(f) PROVE ReportInv'
  <2>0. PICK n, m : m = Known /\ Stores(n, m)
    BY <1>1, KnownIsLoaded DEF RecordFind
  <2>1. msg' = m /\ file'.msg = m /\ Known' = m /\ loaded' = TRUE
    BY <2>0 DEF Stores, Known
  <2>2. /\ step' = [step EXCEPT ![f] = "report"] /\ step[f] = "hunt"
        /\ UNCHANGED <<lock, posted, faults>>
    BY <1>1 DEF RecordFind, Steps
  <2>3. \A g \in Finders : step'[g] = "post" => msg' = NoMsg
    BY <2>0, <2>1, <2>2 DEF Locked, Known
  <2> QED BY <2>0, <2>1, <2>2, <2>3 DEF Locked
<1>2. ASSUME NEW f \in Finders, Lock(f) PROVE ReportInv'
  <2>1. loaded' = TRUE /\ file'.msg = msg' /\ msg' = Known /\ Known' = Known
    BY <1>2, ReadsKnows DEF Lock
  <2> DEFINE to == IF Known = NoMsg THEN "post" ELSE "patch"
  <2>2. /\ step[f] = "report" /\ lock = Free /\ lock' = f
        /\ step' = [step EXCEPT ![f] = to]
        /\ UNCHANGED <<posted, faults>>
    BY <1>2, KnownIsLoaded DEF Lock, Steps
  <2>3. \A g \in Finders : ~Locked(g)
    BY <2>2, ReportAssumption DEF Free
  <2>4. /\ to \in {"post", "patch"}
        /\ to = "post" => Known = NoMsg
    OBVIOUS
  <2> HIDE DEF to
  <2>5. step' \in [Finders -> {"hunt", "report", "patch", "post"}]
    BY <2>2, <2>4
  <2>6. \A g \in Finders : step'[g] \in {"patch", "post"} => g = f
    BY <2>2, <2>3 DEF Locked
  <2>7. step'[f] = to
    BY <2>2
  <2> QED BY <2>1, <2>2, <2>4, <2>5, <2>6, <2>7 DEF Locked
<1>3. ASSUME NEW f \in Finders, Patch(f) PROVE ReportInv'
  <2>0. step[f] = "patch" /\ Locked(f) /\ loaded /\ UNCHANGED <<posted, faults>>
    BY <1>3 DEF Patch, Locked
  <2>1. CASE msg \in posted
    BY <1>3, <2>0, <2>1, HolderSteps DEF Patch, Known, Locked
  <2>2. CASE msg \notin posted
    <3>1. /\ loaded' = TRUE /\ msg' = NoMsg /\ file'.msg = NoMsg /\ Known' = NoMsg
          /\ step' = [step EXCEPT ![f] = "post"] /\ UNCHANGED lock
      BY <1>3, <2>2, StoresKnows DEF Patch, Steps
    <3>2. posted \ {Known'} = posted \ {Known}
      BY <2>0, <2>2, <3>1 DEF Known
    <3> QED BY <2>0, <3>1, <3>2 DEF Locked
  <2> QED BY <2>1, <2>2
<1>4. ASSUME NEW f \in Finders, PatchFails(f) \/ PostFails(f) PROVE ReportInv'
  <2>1. Locked(f) /\ Unlocks(f) /\ UNCHANGED <<total, msg, loaded, file, posted, faults>>
    BY <1>4 DEF PatchFails, PostFails, Locked
  <2> QED BY <2>1, HolderSteps DEF Known, Locked
<1>5. ASSUME NEW f \in Finders, Post(f) PROVE ReportInv'
  <2>1. /\ Locked(f) /\ step[f] = "post" /\ Unlocks(f) /\ faults' = faults
        /\ posted' = posted \cup {NewMsg} /\ loaded /\ msg = NoMsg
    BY <1>5 DEF Post, Locked
  <2>2. loaded' = TRUE /\ msg' = NewMsg /\ file'.msg = NewMsg /\ Known' = NewMsg
    BY <1>5, StoresKnows DEF Post
  <2>3. Cardinality(posted) <= faults
    <3>1. posted \ {Known} = posted
      BY <2>1 DEF Known
    <3> QED BY <3>1
  <2>4. IsFiniteSet(posted') /\ posted' \subseteq Nat \ {NoMsg}
    BY <2>1, OneMore, NewMsgType
  <2>5. posted' \ {Known'} \in SUBSET posted
    BY <2>1, <2>2
  <2>6. /\ Cardinality(posted' \ {Known'}) <= Cardinality(posted)
        /\ Cardinality(posted' \ {Known'}) \in Nat
    BY <2>4, <2>5, FS_Subset, OneLess
  <2>7. Cardinality(posted' \ {Known'}) <= faults'
    BY <2>1, <2>3, <2>6, <1>0
  <2> QED BY <2>1, <2>2, <2>4, <2>7, HolderSteps DEF Locked
<1>6. ASSUME NEW f \in Finders, ReplyLost(f) PROVE ReportInv'
  <2>1. /\ Locked(f) /\ step[f] = "post" /\ Unlocks(f) /\ faults' = faults + 1
        /\ posted' = posted \cup {NewMsg} /\ UNCHANGED <<msg, loaded, file>>
        /\ loaded /\ msg = NoMsg
    BY <1>6 DEF ReplyLost, Locked
  <2>2. IsFiniteSet(posted') /\ posted' \subseteq Nat \ {NoMsg}
    BY <2>1, OneMore, NewMsgType
  <2>3. posted \ {Known} = posted /\ posted' \ {Known'} = posted'
    BY <2>1, <2>2 DEF Known
  <2>4. Cardinality(posted') <= Cardinality(posted) + 1 /\ Cardinality(posted') \in Nat
    BY <2>1, OneMore
  <2>5. Cardinality(posted' \ {Known'}) <= faults'
    BY <1>0, <2>1, <2>3, <2>4 DEF Others
  <2> QED BY <2>1, <2>2, <2>5, HolderSteps DEF Locked
<1>7. CASE Deleted
  <2>1. PICK m \in posted : posted' = posted \ {m}
    BY <1>7 DEF Deleted
  <2>2. Known' = Known /\ faults' = faults + 1
    BY <1>7 DEF Deleted, Known
  <2>3. IsFiniteSet(posted') /\ IsFiniteSet(posted \ {Known})
    BY <2>1, OneLess
  <2>4. posted' \ {Known'} \in SUBSET (posted \ {Known})
    BY <2>1, <2>2
  <2>5. Cardinality(posted' \ {Known'}) <= Others
    BY <2>3, <2>4, FS_Subset DEF Others
  <2>6. Cardinality(posted' \ {Known'}) \in Nat
    BY <2>3, OneLess
  <2>7. Cardinality(posted' \ {Known'}) <= faults'
    BY <1>0, <2>2, <2>5, <2>6
  <2> QED BY <1>7, <2>1, <2>3, <2>7 DEF Deleted, Locked
<1>8. ASSUME NEW left, Restarts(left), left = file \/ left = Torn PROVE ReportInv'
  <2>1. /\ faults' = faults + 1 /\ file' = left /\ loaded' = FALSE
        /\ step' = [f \in Finders |-> "hunt"] /\ posted' = posted
    BY <1>8 DEF Restarts
  <2>2. Known' = left.msg
    BY <2>1 DEF Known
  <2>3. Known' = Known \/ Known' = NoMsg
    BY <1>8, <2>2 DEF Torn, Known
  <2>4. Cardinality(posted' \ {Known'}) <= Others + 1
    <3>1. CASE Known' = Known
      <4>1. posted' \ {Known'} = posted \ {Known}
        BY <3>1, <2>1
      <4>2. Cardinality(posted' \ {Known'}) = Others
        BY <4>1 DEF Others
      <4> QED BY <4>2, <1>0
    <3>2. CASE Known' = NoMsg
      <4>1. posted' \ {Known'} = posted
        BY <3>2, <2>1
      <4> QED BY <4>1, <1>0
    <3> QED BY <3>1, <3>2, <2>3
  <2>5. Cardinality(posted' \ {Known'}) <= faults'
    <3>1. Cardinality(posted' \ {Known'}) \in Nat
      BY <2>1, OneLess
    <3> QED BY <3>1, <2>1, <2>4, <1>0
  <2> QED BY <2>1, <2>5 DEF Locked
<1>9. CASE Crash \/ CrashInSave
  BY <1>8, <1>9 DEF Crash, CrashInSave
<1>10. CASE UNCHANGED reportVars
  BY <1>10 DEF reportVars, Known, Locked
<1> QED BY <1>1, <1>2, <1>3, <1>4, <1>5, <1>6, <1>7, <1>9, <1>10 DEF ReportNext

(* However many bots report at once, the fleet keeps one message, and every  *)
(* further one is the work of a lost reply or of a crash that lost its id    *)
(* (send_geiger_webhook, geiger_webhook_send_mutex).                         *)
THEOREM MessageIsOne == ReportSpec => []OneMessage
<1>1. ReportInv => OneMessage
  <2> SUFFICES ASSUME ReportInv PROVE OneMessage
    OBVIOUS
  <2>1. /\ Cardinality(posted) \in Nat /\ Others \in Nat
        /\ Cardinality(posted) <= Others + 1
    BY OneLess DEF ReportInv, Others
  <2>2. Others <= faults /\ faults \in Nat
    BY DEF ReportInv, Others
  <2> QED BY <2>1, <2>2 DEF OneMessage
<1> QED BY <1>1, ReportStarts, ReportStep, PTL DEF ReportSpec

-----------------------------------------------------------------------------
(* Collecting.  A bot whose module has asked for an object is in the world,  *)
(* knows it, and remembers the object's claim as long as the object lies     *)
(* there; so what it releases is never what it waits for. The claim is the   *)
(* bot's, unless it was stopped.                                             *)
CollectTypes ==
  /\ keys \in [Objects -> Hands \cup {NoBot}]
  /\ mine \in [Hands -> SUBSET Objects] /\ view \in [Hands -> SUBSET Objects]
  /\ inside \in [Hands -> BOOLEAN] /\ known \in [Hands -> BOOLEAN]
  /\ lying \subseteq Objects /\ asks \subseteq Hands \X Objects
  /\ stopping \in [Hands -> {"no", "last", "ticked", "over", "gone"}]
Agrees(f, m, h, o) == /\ f[o] = h => o \in m[h]
                      /\ o \in m[h] /\ stopping[h] = "no" => f[o] = h
Remembered == \A o \in Objects : \A h \in Hands : Agrees(keys, mine, h, o)
Seeing == \A h \in Hands : inside[h] => lying \subseteq view[h]
Waiting == \A h \in Hands : \A o \in Objects : <<h, o>> \in asks =>
             inside[h] /\ known[h] /\ (o \in lying => o \in mine[h])
CollectInv == CollectTypes /\ Remembered /\ Seeing /\ Waiting

(* What release() and claim() leave, key by key. *)
LEMMA WithoutKeys ==
  ASSUME CollectTypes, NEW h \in Hands, NEW S
  PROVE  /\ Without(h, S) \in [Objects -> Hands \cup {NoBot}]
         /\ \A o \in Objects :
              Without(h, S)[o] = IF o \in S /\ keys[o] = h THEN NoBot ELSE keys[o]
BY DEF CollectTypes, Without, Release

LEMMA ClaimKeys ==
  ASSUME NEW f \in [Objects -> Hands \cup {NoBot}], NEW h \in Hands, NEW o \in Objects,
         ClaimGranted(f, o, h)
  PROVE  Claim(f, o, h)[o] = h
BY DEF ClaimGranted, Claim

(* Giving claims up: those of objects out of sight, or all when away. *)
LEMMA ReleasesKeep ==
  ASSUME CollectInv, NEW h \in Hands, NEW S, S \subseteq mine[h]
  PROVE  LET f == Without(h, S)
             m == [mine EXCEPT ![h] = @ \ S]
         IN  /\ f \in [Objects -> Hands \cup {NoBot}] /\ m \in [Hands -> SUBSET Objects]
             /\ \A o \in Objects : \A g \in Hands : Agrees(f, m, g, o)
<1>1. /\ Without(h, S) \in [Objects -> Hands \cup {NoBot}]
      /\ \A o \in Objects :
           Without(h, S)[o] = IF o \in S /\ keys[o] = h THEN NoBot ELSE keys[o]
  BY WithoutKeys DEF CollectInv
<1>2. [mine EXCEPT ![h] = @ \ S] \in [Hands -> SUBSET Objects]
  BY DEF CollectInv, CollectTypes
<1>3. ASSUME NEW o \in Objects, NEW g \in Hands
      PROVE  Agrees(Without(h, S), [mine EXCEPT ![h] = @ \ S], g, o)
  <2>1. NoBot # g
    BY CollectAssumption
  <2>2. Agrees(keys, mine, h, o)
    BY DEF CollectInv, Remembered
  <2>3. Agrees(keys, mine, g, o)
    BY DEF CollectInv, Remembered
  <2>4. [mine EXCEPT ![h] = @ \ S][g] = IF g = h THEN mine[h] \ S ELSE mine[g]
    BY DEF CollectInv, CollectTypes
  <2> QED BY <1>1, <2>1, <2>2, <2>3, <2>4 DEF Agrees
<1> QED BY <1>1, <1>2, <1>3

(* An object that is waited for and lies there is in sight. *)
LEMMA NotVanished ==
  ASSUME CollectInv, NEW h \in Hands, inside[h]
  PROVE  /\ Vanished(h) \subseteq mine[h]
         /\ \A o \in Objects : <<h, o>> \in asks /\ o \in lying => o \notin Vanished(h)
BY DEF CollectInv, Waiting, Seeing, Vanished

(* A tick leaves who is stopped as it was. *)
LEMMA PicksStop ==
  ASSUME CollectInv, NEW h \in Hands, Picks(h)
  PROVE  /\ stopping' \in [Hands -> {"no", "last", "ticked", "over", "gone"}]
         /\ \A g \in Hands : stopping'[g] = "no" <=> stopping[g] = "no"
BY DEF CollectInv, CollectTypes, Picks

LEMMA CollectStarts == CollectInit => CollectInv
BY CollectAssumption
DEF CollectInit, CollectInv, CollectTypes, Remembered, Agrees, Seeing, Waiting

LEMMA TickAwayKeeps ==
  ASSUME CollectInv, NEW h \in Hands, TickAway(h) PROVE CollectInv'
<1> USE DEF CollectInv
<1>1. /\ Picks(h) /\ ~inside[h] /\ keys' = Without(h, mine[h])
      /\ mine' = [mine EXCEPT ![h] = @ \ mine[h]] /\ known' = [known EXCEPT ![h] = FALSE]
      /\ UNCHANGED <<lying, view, inside, asks>>
  BY DEF TickAway, CollectTypes
<1>2. /\ keys' \in [Objects -> Hands \cup {NoBot}] /\ mine' \in [Hands -> SUBSET Objects]
      /\ \A o \in Objects : \A g \in Hands : Agrees(keys', mine', g, o)
  BY <1>1, ReleasesKeep
<1>6. /\ stopping' \in [Hands -> {"no", "last", "ticked", "over", "gone"}]
      /\ \A g \in Hands : stopping'[g] = "no" <=> stopping[g] = "no"
  BY <1>1, PicksStop
<1>3. CollectTypes'
  BY <1>1, <1>2, <1>6 DEF CollectTypes
<1>4. Remembered' /\ Seeing'
  BY <1>1, <1>2, <1>6 DEF Remembered, Agrees, Seeing
<1>5. Waiting'
  BY <1>1 DEF Waiting, CollectTypes
<1> QED BY <1>3, <1>4, <1>5

LEMMA TickFullKeeps ==
  ASSUME CollectInv, NEW h \in Hands, TickFull(h) PROVE CollectInv'
<1> USE DEF CollectInv
<1> DEFINE S == Vanished(h)
<1>1. /\ Picks(h) /\ inside[h] /\ keys' = Without(h, S)
      /\ mine' = [mine EXCEPT ![h] = @ \ S] /\ known' = [known EXCEPT ![h] = TRUE]
      /\ UNCHANGED <<lying, view, inside, asks>>
  BY DEF TickFull
<1>0. S \subseteq mine[h] /\ \A o \in Objects : <<h, o>> \in asks /\ o \in lying => o \notin S
  BY <1>1, NotVanished
<1> HIDE DEF S
<1>2. /\ keys' \in [Objects -> Hands \cup {NoBot}] /\ mine' \in [Hands -> SUBSET Objects]
      /\ \A o \in Objects : \A g \in Hands : Agrees(keys', mine', g, o)
  BY <1>0, <1>1, ReleasesKeep
<1>6. /\ stopping' \in [Hands -> {"no", "last", "ticked", "over", "gone"}]
      /\ \A g \in Hands : stopping'[g] = "no" <=> stopping[g] = "no"
  BY <1>1, PicksStop
<1>3. CollectTypes'
  BY <1>1, <1>2, <1>6 DEF CollectTypes
<1>4. Remembered' /\ Seeing'
  BY <1>1, <1>2, <1>6 DEF Remembered, Agrees, Seeing
<1>5. Waiting'
  BY <1>0, <1>1 DEF Waiting, CollectTypes
<1> QED BY <1>3, <1>4, <1>5

LEMMA TickKeeps ==
  ASSUME CollectInv, NEW h \in Hands, Tick(h) PROVE CollectInv'
<1> USE DEF CollectInv
<1> DEFINE V == Vanished(h)
           after == Without(h, V)
<1>1. PICK S \in Nearest(h) : Takes(h, after, {o \in S : ClaimGranted(after, o, h)})
  BY DEF Tick
<1> DEFINE won == {o \in S : ClaimGranted(after, o, h)}
<1>2. inside[h] /\ known' = [known EXCEPT ![h] = TRUE]
  BY DEF Tick
<1>14. /\ stopping' \in [Hands -> {"no", "last", "ticked", "over", "gone"}]
       /\ \A g \in Hands : stopping'[g] = "no" <=> stopping[g] = "no"
  BY PicksStop DEF Tick
<1>3. S \subseteq Objects
  BY DEF Nearest, CollectTypes
<1>4. /\ keys' = [o \in Objects |-> IF o \in won THEN Claim(after, o, h)[o] ELSE after[o]]
      /\ mine' = [mine EXCEPT ![h] = (@ \ V) \cup won]
      /\ asks' = asks \cup {<<h, o>> : o \in {w \in won : reach[h][w] = "circle"}}
      /\ UNCHANGED <<lying, view, inside>>
  BY <1>1 DEF Takes
<1>5. V \subseteq mine[h] /\ \A o \in Objects : <<h, o>> \in asks /\ o \in lying => o \notin V
  BY <1>2, NotVanished
<1> HIDE DEF V
<1>6. /\ after \in [Objects -> Hands \cup {NoBot}]
      /\ \A o \in Objects : \A g \in Hands : Agrees(after, [mine EXCEPT ![h] = @ \ V], g, o)
  BY <1>5, ReleasesKeep
<1> HIDE DEF after
<1>7. \A o \in won : Claim(after, o, h)[o] = h
  BY <1>3, <1>6, ClaimKeys
<1>8. won \subseteq Objects /\ \A o \in won : after[o] = NoBot \/ after[o] = h
  BY <1>3 DEF ClaimGranted
<1> HIDE DEF won
<1>9. \A o \in Objects : keys'[o] = IF o \in won THEN h ELSE after[o]
  BY <1>4, <1>7
<1>10. CollectTypes'
  <2>1. keys' \in [Objects -> Hands \cup {NoBot}]
    BY <1>4, <1>6, <1>7
  <2>2. mine' \in [Hands -> SUBSET Objects]
    BY <1>4, <1>8 DEF CollectTypes
  <2>3. asks' \subseteq Hands \X Objects
    BY <1>4, <1>8 DEF CollectTypes
  <2> QED BY <1>2, <1>4, <1>14, <2>1, <2>2, <2>3 DEF CollectTypes
<1>11. Remembered'
  <2> SUFFICES ASSUME NEW o \in Objects, NEW g \in Hands
               PROVE  Agrees(keys', mine', g, o)
    BY <1>14 DEF Remembered, Agrees
  <2>1. NoBot # g
    BY CollectAssumption
  <2>2. /\ after[o] = g => o \in (IF g = h THEN mine[h] \ V ELSE mine[g])
        /\ stopping[g] = "no" /\ o \in (IF g = h THEN mine[h] \ V ELSE mine[g]) => after[o] = g
    BY <1>6 DEF CollectTypes, Agrees
  <2>3. mine'[g] = IF g = h THEN (mine[h] \ V) \cup won ELSE mine[g]
    BY <1>4 DEF CollectTypes
  <2> QED BY <2>1, <2>2, <2>3, <1>8, <1>9 DEF Agrees
<1>12. Seeing'
  BY <1>4 DEF Seeing
<1>13. Waiting'
  <2> SUFFICES ASSUME NEW g \in Hands, NEW o \in Objects, <<g, o>> \in asks'
               PROVE  inside'[g] /\ known'[g] /\ (o \in lying' => o \in mine'[g])
    BY DEF Waiting
  <2>1. mine'[g] = IF g = h THEN (mine[h] \ V) \cup won ELSE mine[g]
    BY <1>4 DEF CollectTypes
  <2>2. known'[g] = IF g = h THEN TRUE ELSE known[g]
    BY <1>2 DEF CollectTypes
  <2>3. CASE <<g, o>> \in asks
    BY <2>1, <2>2, <2>3, <1>2, <1>4, <1>5 DEF Waiting
  <2>4. CASE g = h /\ o \in won
    BY <2>1, <2>2, <2>4, <1>2, <1>4
  <2> QED BY <2>3, <2>4, <1>4
<1> QED BY <1>10, <1>11, <1>12, <1>13

(* The server, the user and the bot's own way. *)
LEMMA ServeKeeps ==
  ASSUME CollectInv, NEW h \in Hands, NEW o \in Objects, Serve(h, o) PROVE CollectInv'
<1>1. asks' \subseteq asks /\ lying' = lying \ {o}
      /\ UNCHANGED <<view, inside, known, keys, mine, stopping>>
  BY DEF Serve
<1>2. CollectTypes' /\ Remembered' /\ Seeing'
  BY <1>1 DEF CollectInv, CollectTypes, Remembered, Agrees, Seeing
<1>3. Waiting'
  BY <1>1 DEF CollectInv, Waiting
<1> QED BY <1>2, <1>3 DEF CollectInv

LEMMA MovesKeep ==
  ASSUME CollectInv, NEW h \in Hands, Told(h) \/ Leave(h) \/ Enter(h) PROVE CollectInv'
<1> USE DEF CollectInv
<1>1. CASE Told(h)
  BY <1>1 DEF CollectTypes, Remembered, Agrees, Seeing, Waiting, Told
<1>2. CASE Leave(h)
  <2>1. /\ inside' = [inside EXCEPT ![h] = FALSE] /\ view' = [view EXCEPT ![h] = {}]
        /\ asks' = {a \in asks : a[1] # h} /\ UNCHANGED <<lying, known, keys, mine, stopping>>
    BY <1>2 DEF Leave
  <2>2. \A o \in Objects : <<h, o>> \notin asks'
    BY <2>1
  <2>3. Waiting'
    BY <2>1, <2>2 DEF Waiting, CollectTypes
  <2> QED BY <2>1, <2>3 DEF CollectTypes, Remembered, Agrees, Seeing
<1>3. CASE Enter(h)
  BY <1>3 DEF CollectTypes, Remembered, Agrees, Seeing, Waiting, Enter
<1> QED BY <1>1, <1>2, <1>3

(* BotManager::stop, the last iteration's own collecting, and its end. *)
LEMMA StopsKeep ==
  ASSUME CollectInv, NEW h \in Hands, StopHand(h) \/ AutoCollect(h) PROVE CollectInv'
<1> USE DEF CollectInv
<1>1. /\ UNCHANGED <<lying, view, inside, known, mine, asks>>
      /\ stopping' \in [Hands -> {"no", "last", "ticked", "over", "gone"}]
      /\ \A g \in Hands : stopping'[g] = "no" => stopping[g] = "no"
  BY DEF StopHand, AutoCollect, CollectTypes
<1>2. /\ keys' \in [Objects -> Hands \cup {NoBot}]
      /\ \A o \in Objects : \/ keys'[o] = keys[o]
                           \/ (keys[o] = h /\ keys'[o] = NoBot /\ stopping'[h] # "no")
  <2>1. CASE StopHand(h)
    BY <2>1 DEF StopHand, ReleaseAll, CollectTypes
  <2>2. CASE AutoCollect(h)
    BY <2>2 DEF AutoCollect, CollectTypes
  <2> QED BY <2>1, <2>2
<1>3. CollectTypes' /\ Seeing' /\ Waiting'
  BY <1>1, <1>2 DEF CollectTypes, Seeing, Waiting
<1>4. Remembered'
  BY <1>1, <1>2, CollectAssumption DEF Remembered, Agrees
<1> QED BY <1>3, <1>4

LEMMA EndKeeps ==
  ASSUME CollectInv, NEW h \in Hands, ShutDownHand(h) PROVE CollectInv'
<1> USE DEF CollectInv
<1>1. /\ inside' = [inside EXCEPT ![h] = FALSE] /\ view' = [view EXCEPT ![h] = {}]
      /\ asks' = {a \in asks : a[1] # h} /\ known' = [known EXCEPT ![h] = FALSE]
      /\ mine' = [mine EXCEPT ![h] = {}] /\ keys' = ReleaseAll(keys, {h})
      /\ stopping' = [stopping EXCEPT ![h] = "gone"] /\ UNCHANGED lying
  BY DEF ShutDownHand
<1>2. CollectTypes'
  BY <1>1 DEF CollectTypes, ReleaseAll
<1>3. \A o \in Objects : keys'[o] = IF keys[o] = h THEN NoBot ELSE keys[o]
  BY <1>1 DEF CollectTypes, ReleaseAll
<1>4. Remembered'
  <2> SUFFICES ASSUME NEW o \in Objects, NEW g \in Hands PROVE Agrees(keys, mine, g, o)'
    BY DEF Remembered
  <2>1. Agrees(keys, mine, g, o) /\ NoBot # g
    BY CollectAssumption DEF Remembered
  <2>2. CASE g = h
    <3>1. stopping'[g] = "gone" /\ keys'[o] # g
      BY <1>1, <1>3, <2>1, <2>2 DEF CollectTypes
    <3> QED BY <3>1 DEF Agrees
  <2>3. CASE g # h
    <3>1. /\ stopping'[g] = stopping[g] /\ mine'[g] = mine[g]
          /\ keys'[o] = g <=> keys[o] = g
      BY <1>1, <1>3, <2>1, <2>3 DEF CollectTypes
    <3> QED BY <2>1, <3>1 DEF Agrees
  <2> QED BY <2>2, <2>3
<1>5. Seeing'
  BY <1>1 DEF Seeing, CollectTypes
<1>6. Waiting'
  <2>1. \A o \in Objects : <<h, o>> \notin asks'
    BY <1>1
  <2> QED BY <1>1, <2>1 DEF Waiting, CollectTypes
<1> QED BY <1>2, <1>4, <1>5, <1>6

LEMMA CollectStep == CollectInv /\ [CollectNext]_collectVars => CollectInv'
<1> SUFFICES ASSUME CollectInv, [CollectNext]_collectVars PROVE CollectInv'
  OBVIOUS
<1>1. ASSUME UNCHANGED <<lying, view, inside, known, keys, mine, asks, stopping>> PROVE CollectInv'
  BY <1>1 DEF CollectInv, CollectTypes, Remembered, Agrees, Seeing, Waiting
<1>2. ASSUME NEW h \in Hands, Deposit(h) PROVE CollectInv'
  BY <1>1, <1>2 DEF Deposit
<1>3. ASSUME NEW h \in Hands, NEW o \in Objects, Walk(h, o) PROVE CollectInv'
  BY <1>1, <1>3 DEF Walk
<1>4. CASE UNCHANGED collectVars
  BY <1>1, <1>4 DEF collectVars
<1> QED BY <1>2, <1>3, <1>4, TickAwayKeeps, TickFullKeeps, TickKeeps, ServeKeeps, MovesKeep,
           StopsKeep, EndKeeps
        DEF CollectNext

(* The modules of no two bots, unless one was stopped, ask the server for    *)
(* one object that still lies there, and every claim is remembered by the    *)
(* bot that must release it, however bots leave, are stopped and return, and *)
(* whatever they collect beside the module (CollectModule::tick,             *)
(* Bot::collect, FleetState::erase).                                         *)
THEOREM SeekerIsOne == CollectSpec => []OneSeeker
<1>1. CollectInv => OneSeeker
  <2> SUFFICES ASSUME CollectInv PROVE OneSeeker
    OBVIOUS
  <2>1. ASSUME NEW a \in asks, NEW b \in asks, a[2] = b[2], a[2] \in lying,
               stopping[a[1]] = "no", stopping[b[1]] = "no"
        PROVE  a = b
    <3>1. PICK g \in Hands, o \in Objects : a = <<g, o>>
      BY DEF CollectInv, CollectTypes
    <3>2. PICK h \in Hands, p \in Objects : b = <<h, p>>
      BY DEF CollectInv, CollectTypes
    <3>3. o = p /\ o \in lying /\ stopping[g] = "no" /\ stopping[h] = "no"
      BY <2>1, <3>1, <3>2
    <3>4. keys[o] = g /\ keys[o] = h
      BY <3>1, <3>2, <3>3 DEF CollectInv, Waiting, Remembered, Agrees
    <3> QED BY <3>1, <3>2, <3>3, <3>4
  <2> QED BY <2>1 DEF OneSeeker, CollectInv, Remembered, Agrees
<1> QED BY <1>1, CollectStarts, CollectStep, PTL DEF CollectSpec

-----------------------------------------------------------------------------
(* The farm.  FleetState's claims are what the bots remember of them, or     *)
(* less, of a bot that was stopped; a bot at work remembers the claim of     *)
(* what it works on; one that is gone remembers none; and auto-collect is as *)
(* the user wants it, or what the user wants is saved.                       *)
Keys == Tiles \cup {"depot"}
Held(c, tile, depot) ==
  /\ c \in [Keys -> Bots \cup {NoBot}]
  /\ tile \in [Bots -> Tiles \cup {NoTile}] /\ depot \in [Bots -> BOOLEAN]
  /\ \A b \in Bots : /\ \A t \in Tiles : c[t] = b => tile[b] = t
                     /\ c["depot"] = b => depot[b] = TRUE
                     /\ stop[b] = "no" => /\ \A t \in Tiles : tile[b] = t => c[t] = b
                                          /\ depot[b] = TRUE => c["depot"] = b
Switches == /\ on \in [Bots -> BOOLEAN] /\ autoOn \in [Bots -> BOOLEAN]
            /\ off \in [Bots -> BOOLEAN] /\ saved \in [Bots -> BOOLEAN]
            /\ wish \in [Bots -> BOOLEAN]
            /\ pc \in [Bots -> {"idle", "drop", "rest", "loot", "scan", "probe"}]
AsWished(b) == ~Meddles => /\ off[b] = TRUE => saved[b] = wish[b]
                           /\ off[b] = FALSE => autoOn[b] = wish[b]
Working(b) == /\ pc[b] = "probe" => tileKey[b] # NoTile /\ off[b] = FALSE
              /\ pc[b] \in {"drop", "scan"} => depotKey[b] = TRUE
              /\ on[b] = FALSE => /\ pc[b] = "idle" /\ tileKey[b] = NoTile
                                  /\ depotKey[b] = FALSE /\ off[b] = FALSE
LetGo(b) == tileKey[b] = NoTile /\ depotKey[b] = FALSE /\ pc[b] = "idle"
Stops == stop \in [Bots -> {"no", "last", "now", "gone"}]
FarmInv == /\ Held(claims, tileKey, depotKey) /\ Switches /\ Stops
           /\ \A b \in Bots : AsWished(b) /\ Working(b) /\ (stop[b] = "gone" => LetGo(b))

(* What a step of a bot that is not gone leaves, as long as nobody is        *)
(* stopped in it.                                                            *)
Kept == /\ Held(claims', tileKey', depotKey') /\ Switches'
        /\ \A b \in Bots : AsWished(b)' /\ Working(b)' /\ (stop[b] = "gone" => LetGo(b)')
Acting(b) == on[b] = TRUE /\ stop[b] # "gone"

LEMMA Apartness == /\ "depot" \notin Tiles /\ NoTile \notin Tiles
                   /\ \A b \in Bots : b # NoBot
BY FarmAssumption DEF NoTile

LEMMA TileFreed ==
  ASSUME NEW c, NEW tile, NEW depot, Held(c, tile, depot), NEW b \in Bots
  PROVE  Held(IF tile[b] # NoTile THEN Release(c, tile[b], b) ELSE c, Set(tile, b, NoTile), depot)
BY Apartness DEF Held, Keys, Release, Set

LEMMA DepotFreed ==
  ASSUME NEW c, NEW tile, NEW depot, Held(c, tile, depot), NEW b \in Bots
  PROVE  Held(IF depot[b] THEN Release(c, "depot", b) ELSE c, tile, Set(depot, b, FALSE))
BY Apartness DEF Held, Keys, Release, Set

LEMMA DepotClaimed ==
  ASSUME NEW c, NEW tile, NEW depot, Held(c, tile, depot), NEW b \in Bots,
         ClaimGranted(c, "depot", b)
  PROVE  Held(Claim(c, "depot", b), tile, Set(depot, b, TRUE))
BY Apartness DEF Held, Keys, Claim, ClaimGranted, Set

LEMMA TileClaimed ==
  ASSUME NEW c, NEW tile, NEW depot, Held(c, tile, depot), NEW b \in Bots,
         NEW t \in Tiles, tile[b] \in {NoTile, t}, ClaimGranted(c, t, b)
  PROVE  Held(Claim(c, t, b), Set(tile, b, t), depot)
BY Apartness DEF Held, Keys, Claim, ClaimGranted, Set

(* release_claim and release_pickup_claim, in each combination. *)
LEMMA FreedHeld ==
  ASSUME FarmInv, NEW b \in Bots
  PROVE  /\ Held(Freed(b, TRUE, FALSE), Set(tileKey, b, NoTile), depotKey)
         /\ Held(Freed(b, FALSE, TRUE), tileKey, Set(depotKey, b, FALSE))
         /\ Held(Freed(b, TRUE, TRUE), Set(tileKey, b, NoTile), Set(depotKey, b, FALSE))
         /\ Freed(b, FALSE, FALSE) = claims
         /\ Freed(b, TRUE, FALSE)["depot"] = claims["depot"]
<1> DEFINE c == IF tileKey[b] # NoTile THEN Release(claims, tileKey[b], b) ELSE claims
<1>1. Held(c, Set(tileKey, b, NoTile), depotKey)
  BY TileFreed DEF FarmInv
<1>2. Freed(b, TRUE, FALSE) = c /\ Freed(b, FALSE, FALSE) = claims
  BY DEF Freed
<1>3. Freed(b, FALSE, TRUE) = IF depotKey[b] THEN Release(claims, "depot", b) ELSE claims
  BY DEF Freed
<1>4. Freed(b, TRUE, TRUE) = IF depotKey[b] THEN Release(c, "depot", b) ELSE c
  BY DEF Freed
<1>5. c["depot"] = claims["depot"]
  BY Apartness DEF Release, FarmInv, Held, Keys
<1> HIDE DEF c
<1>6. Held(Freed(b, FALSE, TRUE), tileKey, Set(depotKey, b, FALSE))
  BY <1>3, DepotFreed DEF FarmInv
<1>7. Held(Freed(b, TRUE, TRUE), Set(tileKey, b, NoTile), Set(depotKey, b, FALSE))
  BY <1>1, <1>4, DepotFreed
<1> QED BY <1>1, <1>2, <1>5, <1>6, <1>7

(* What a release leaves to the bot, and to the others. *)
LEMMA ReleasesHeld ==
  ASSUME FarmInv, NEW b \in Bots, NEW tile \in BOOLEAN, NEW depot \in BOOLEAN,
         Releases(b, tile, depot)
  PROVE  /\ Held(claims', tileKey', depotKey')
         /\ tileKey'[b] = IF tile THEN NoTile ELSE tileKey[b]
         /\ depotKey'[b] = IF depot THEN FALSE ELSE depotKey[b]
         /\ \A a \in Bots \ {b} : tileKey'[a] = tileKey[a] /\ depotKey'[a] = depotKey[a]
<1>1. Held(claims', tileKey', depotKey')
  <2>1. CASE tile /\ depot
    BY <2>1, FreedHeld DEF Releases
  <2>2. CASE tile /\ ~depot
    BY <2>2, FreedHeld DEF Releases
  <2>3. CASE ~tile /\ depot
    BY <2>3, FreedHeld DEF Releases
  <2>4. CASE ~tile /\ ~depot
    BY <2>4, FreedHeld DEF Releases, FarmInv
  <2> QED BY <2>1, <2>2, <2>3, <2>4
<1> QED BY <1>1 DEF Releases, Set, FarmInv, Held

(* suppress_collect and restore_collect keep what the user wants. *)
LEMMA CollectMoves ==
  ASSUME FarmInv, NEW b \in Bots, UNCHANGED wish,
         Suppress(b) \/ Restore(b) \/ UNCHANGED collect
  PROVE  /\ autoOn' \in [Bots -> BOOLEAN] /\ off' \in [Bots -> BOOLEAN]
         /\ saved' \in [Bots -> BOOLEAN]
         /\ \A a \in Bots : AsWished(a)'
         /\ \A a \in Bots \ {b} : off'[a] = off[a]
         /\ Restore(b) => off'[b] = FALSE
<1> USE DEF FarmInv, Switches, AsWished, Set, collect
<1>0. Restore(b) => off'[b] = FALSE
  BY DEF Restore
<1>1. CASE Suppress(b)
  <2>1. CASE off[b] = TRUE
    BY <1>0, <1>1, <2>1 DEF Suppress
  <2>2. CASE off[b] = FALSE
    <3>1. /\ saved' = [saved EXCEPT ![b] = autoOn[b]]
          /\ autoOn' = [autoOn EXCEPT ![b] = FALSE] /\ off' = [off EXCEPT ![b] = TRUE]
      BY <1>1, <2>2 DEF Suppress
    <3> QED BY <1>0, <2>2, <3>1
  <2> QED BY <2>1, <2>2
<1>2. CASE Restore(b)
  BY <1>0, <1>2, ZenonT(30) DEF Restore
<1>3. CASE UNCHANGED collect
  BY <1>0, <1>3
<1> QED BY <1>1, <1>2, <1>3

(* One bot acts; the others keep their part of the invariant. *)
LEMMA OneActs ==
  ASSUME FarmInv, NEW b \in Bots, Held(claims', tileKey', depotKey'),
         \A a \in Bots \ {b} : tileKey'[a] = tileKey[a] /\ depotKey'[a] = depotKey[a],
         UNCHANGED wish, Suppress(b) \/ Restore(b) \/ UNCHANGED collect,
         on' \in [Bots -> BOOLEAN], \A a \in Bots \ {b} : on'[a] = on[a],
         NEW p \in {"idle", "drop", "rest", "loot", "scan", "probe"},
         pc' = Set(pc, b, p), Working(b)', stop[b] # "gone"
  PROVE  Kept
<1>1. /\ autoOn' \in [Bots -> BOOLEAN] /\ off' \in [Bots -> BOOLEAN]
      /\ saved' \in [Bots -> BOOLEAN]
      /\ \A a \in Bots : AsWished(a)'
      /\ \A a \in Bots \ {b} : off'[a] = off[a]
  BY CollectMoves
<1>2. Switches'
  BY <1>1 DEF FarmInv, Switches, Set
<1>3. ASSUME NEW a \in Bots PROVE Working(a)' /\ (stop[a] = "gone" => LetGo(a)')
  <2>1. CASE a = b
    BY <2>1
  <2>2. CASE a # b
    <3>1. pc'[a] = pc[a]
      BY <2>2 DEF FarmInv, Switches, Set
    <3> QED BY <2>2, <3>1, <1>1 DEF FarmInv, Working, LetGo
  <2> QED BY <2>1, <2>2
<1> QED BY <1>1, <1>2, <1>3 DEF Kept

LEMMA FarmStarts == FarmInit => FarmInv
<1> SUFFICES ASSUME FarmInit PROVE FarmInv
  OBVIOUS
<1>1. Held(claims, tileKey, depotKey)
  BY Apartness DEF FarmInit, Held, Keys
<1>2. Switches
  BY DEF FarmInit, Switches
<1>3. ASSUME NEW b \in Bots PROVE AsWished(b) /\ Working(b) /\ stop[b] # "gone"
  BY DEF FarmInit, AsWished, Working
<1>4. Stops
  BY DEF FarmInit, Stops
<1> QED BY <1>1, <1>2, <1>3, <1>4 DEF FarmInv

(* The automation runner switches the module on and off. *)
LEMMA EnabledKeeps == ASSUME FarmInv, NEW b \in Bots, Enabled(b) PROVE Kept
<1>1. /\ Releases(b, TRUE, TRUE) /\ Restore(b) /\ UNCHANGED wish
      /\ on' = Set(on, b, TRUE) /\ pc[b] = "idle" /\ UNCHANGED pc /\ stop[b] # "gone"
  BY DEF Enabled
<1>2. on' \in [Bots -> BOOLEAN] /\ on'[b] = TRUE /\ \A a \in Bots \ {b} : on'[a] = on[a]
  BY <1>1 DEF FarmInv, Switches, Set
<1>3. pc' = Set(pc, b, "idle") /\ pc'[b] = "idle"
  BY <1>1 DEF FarmInv, Switches, Set
<1>4. Working(b)'
  BY <1>2, <1>3 DEF Working
<1> QED BY <1>1, <1>2, <1>3, <1>4, ReleasesHeld, OneActs

LEMMA DisabledKeeps == ASSUME FarmInv, NEW b \in Bots, Disabled(b) PROVE Kept
<1>1. /\ Releases(b, TRUE, TRUE) /\ Restore(b) /\ UNCHANGED wish
      /\ on' = Set(on, b, FALSE) /\ pc[b] = "idle" /\ UNCHANGED pc /\ stop[b] # "gone"
  BY DEF Disabled, Begins
<1>2. on' \in [Bots -> BOOLEAN] /\ \A a \in Bots \ {b} : on'[a] = on[a]
  BY <1>1 DEF FarmInv, Switches, Set
<1>3. pc' = Set(pc, b, "idle") /\ pc'[b] = "idle"
  BY <1>1 DEF FarmInv, Switches, Set
<1>4. tileKey'[b] = NoTile /\ depotKey'[b] = FALSE /\ off'[b] = FALSE
  BY <1>1, ReleasesHeld, CollectMoves
<1>5. Working(b)'
  BY <1>3, <1>4 DEF Working
<1> QED BY <1>1, <1>2, <1>3, <1>5, ReleasesHeld, OneActs

(* A bot whose module is on, anywhere in its tick: only its own work has to  *)
(* be looked at.                                                             *)
LEMMA OnActs ==
  ASSUME FarmInv, NEW b \in Bots, Acting(b), UNCHANGED <<on, wish>>,
         Suppress(b) \/ Restore(b) \/ UNCHANGED collect,
         NEW p \in {"idle", "drop", "rest", "loot", "scan", "probe"},
         pc' = Set(pc, b, p), Held(claims', tileKey', depotKey'),
         \A a \in Bots \ {b} : tileKey'[a] = tileKey[a] /\ depotKey'[a] = depotKey[a],
         p = "probe" => tileKey'[b] # NoTile /\ off'[b] = FALSE,
         p \in {"drop", "scan"} => depotKey'[b] = TRUE
  PROVE  Kept
<1>1. on' \in [Bots -> BOOLEAN] /\ \A a \in Bots \ {b} : on'[a] = on[a]
  BY DEF FarmInv, Switches
<1>2. pc'[b] = p /\ on'[b] = TRUE
  BY DEF Acting, FarmInv, Switches, Set
<1>3. Working(b)' /\ stop[b] # "gone"
  BY <1>2 DEF Working, Acting
<1> QED BY <1>1, <1>3, OneActs

(* The same, when the tick releases and then does no claimed work. *)
LEMMA LettingGo ==
  ASSUME FarmInv, NEW b \in Bots, Acting(b), UNCHANGED <<on, wish>>,
         Suppress(b) \/ Restore(b) \/ UNCHANGED collect,
         NEW p \in {"idle", "rest", "loot"}, pc' = Set(pc, b, p),
         NEW tile \in BOOLEAN, NEW depot \in BOOLEAN, Releases(b, tile, depot)
  PROVE  Kept
BY ReleasesHeld, OnActs

LEMMA HoldingOn ==
  ASSUME FarmInv, NEW b \in Bots, Acting(b), UNCHANGED <<on, wish, held>>,
         Suppress(b) \/ Restore(b) \/ UNCHANGED collect,
         NEW p \in {"idle", "rest", "loot"}, pc' = Set(pc, b, p)
  PROVE  Kept
BY OnActs DEF held, FarmInv

LEMMA AtWorkIsOn ==
  ASSUME FarmInv, NEW b \in Bots
  PROVE  /\ Ticks(b) \/ pc[b] # "idle" => Acting(b)
         /\ pc[b] = "idle" /\ UNCHANGED pc => pc' = Set(pc, b, "idle")
<1>1. Ticks(b) => Acting(b)
  BY DEF FarmInv, Switches, Ticks, Begins, Acting
<1>2. pc[b] # "idle" => Acting(b)
  BY DEF FarmInv, Switches, Working, LetGo, Acting
<1>3. pc[b] = "idle" /\ UNCHANGED pc => pc' = Set(pc, b, "idle")
  BY DEF FarmInv, Switches, Set
<1> QED BY <1>1, <1>2, <1>3

LEMMA TickOfflineKeeps == ASSUME FarmInv, NEW b \in Bots, TickOffline(b) PROVE Kept
<1>1. Acting(b) /\ pc' = Set(pc, b, "idle")
  BY AtWorkIsOn DEF TickOffline, Ticks, Begins
<1>2. /\ UNCHANGED <<on, wish>> /\ UNCHANGED collect /\ Releases(b, TRUE, TRUE)
  BY DEF TickOffline, Quiet
<1> QED BY <1>1, <1>2, LettingGo

LEMMA TickOnKeeps == ASSUME FarmInv, NEW b \in Bots, TickOn(b) PROVE Kept
<1>1. Acting(b)
  BY AtWorkIsOn DEF TickOn
<1>2. /\ UNCHANGED <<on, wish>> /\ UNCHANGED collect /\ pc' = Set(pc, b, "rest")
      /\ Releases(b, Moved(b), TRUE)
  BY DEF TickOn, Quiet
<1>3. PICK moved \in BOOLEAN : Releases(b, moved, TRUE)
  BY <1>2 DEF Moved
<1> QED BY <1>1, <1>2, <1>3, LettingGo

LEMMA TickExcessKeeps == ASSUME FarmInv, NEW b \in Bots, TickExcess(b) PROVE Kept
<1> DEFINE free == Freed(b, Moved(b), FALSE)
           left == IF Moved(b) THEN Set(tileKey, b, NoTile) ELSE tileKey
<1>0. Acting(b) /\ pc[b] = "idle" /\ UNCHANGED <<on, wish>>
  BY AtWorkIsOn DEF TickExcess, Ticks, Begins, Quiet
<1>1. Held(free, left, depotKey) /\ free["depot"] = claims["depot"]
  <2>1. CASE Moved(b)
    BY <2>1, FreedHeld DEF Freed
  <2>2. CASE ~Moved(b)
    <3>1. free = claims /\ left = tileKey
      BY <2>2 DEF Freed
    <3> QED BY <3>1 DEF FarmInv
  <2> QED BY <2>1, <2>2
<1>2. \A a \in Bots \ {b} : left[a] = tileKey[a]
  BY DEF Set, FarmInv, Held
<1>3. CASE ~ClaimGranted(free, "depot", b)
  <2>1. claims' = free /\ tileKey' = left /\ UNCHANGED <<depotKey, collect, pc>>
    BY <1>3 DEF TickExcess
  <2>2. pc' = Set(pc, b, "idle")
    BY <1>0, <2>1, AtWorkIsOn
  <2> QED BY <1>0, <1>1, <1>2, <2>1, <2>2, OnActs
<1>4. CASE ClaimGranted(free, "depot", b)
  <2>1. depotKey' = Set(depotKey, b, TRUE) /\ Suppress(b)
    BY <1>4 DEF TickExcess
  <2>2. /\ depotKey'[b] = TRUE
        /\ \A a \in Bots \ {b} : depotKey'[a] = depotKey[a]
    BY <2>1 DEF Set, FarmInv, Held
  <2>3. CASE at[b] # "pickup"
    <3>1. claims' = Claim(free, "depot", b) /\ tileKey' = left /\ UNCHANGED pc
      BY <1>4, <2>3 DEF TickExcess
    <3>2. Held(claims', tileKey', depotKey')
      BY <1>1, <1>4, <2>1, <3>1, DepotClaimed
    <3>3. pc' = Set(pc, b, "idle")
      BY <1>0, <3>1, AtWorkIsOn
    <3> QED BY <1>0, <1>2, <2>1, <2>2, <3>1, <3>2, <3>3, OnActs
  <2>4. CASE at[b] = "pickup"
    <3>1. /\ claims' = Claim(Freed(b, TRUE, FALSE), "depot", b)
          /\ tileKey' = Set(tileKey, b, NoTile) /\ pc' = Set(pc, b, "drop")
      BY <1>4, <2>4 DEF TickExcess
    <3>2. ClaimGranted(Freed(b, TRUE, FALSE), "depot", b)
      BY <1>1, <1>4, FreedHeld DEF ClaimGranted
    <3>3. Held(claims', tileKey', depotKey')
      BY <2>1, <3>1, <3>2, FreedHeld, DepotClaimed
    <3>4. \A a \in Bots \ {b} : tileKey'[a] = tileKey[a]
      BY <3>1 DEF Set, FarmInv, Held
    <3> QED BY <1>0, <2>1, <2>2, <3>1, <3>3, <3>4, OnActs
  <2> QED BY <2>3, <2>4
<1> QED BY <1>3, <1>4

LEMMA DropCountersKeeps == ASSUME FarmInv, NEW b \in Bots, DropCounters(b) PROVE Kept
<1>1. Acting(b)
  BY AtWorkIsOn DEF DropCounters
<1>2. /\ UNCHANGED <<on, wish>> /\ UNCHANGED collect /\ pc' = Set(pc, b, "idle")
      /\ Releases(b, FALSE, TRUE)
  BY DEF DropCounters
<1> QED BY <1>1, <1>2, LettingGo

(* The rest of the tick. *)
LEMMA RestIsOn ==
  ASSUME FarmInv, NEW b \in Bots, Rests(b)
  PROVE  Acting(b) /\ UNCHANGED <<on, wish>>
BY AtWorkIsOn DEF Rests, Quiet

LEMMA HomewardsCollect ==
  ASSUME NEW b, Homewards(b) PROVE Suppress(b) \/ Restore(b) \/ UNCHANGED collect
BY DEF Homewards

LEMMA DepositTripKeeps ==
  ASSUME FarmInv, NEW b \in Bots, Acting(b), UNCHANGED <<on, wish>>, DepositTrip(b)
  PROVE  Kept
<1>1. CASE at[b] # "depot"
  <2>1. Suppress(b) /\ pc' = Set(pc, b, "idle") /\ UNCHANGED held
    BY <1>1 DEF DepositTrip, Ends
  <2> QED BY <2>1, HoldingOn
<1>2. CASE at[b] = "depot"
  <2>1. Suppress(b) /\ pc' = Set(pc, b, "loot") /\ Releases(b, TRUE, FALSE)
    BY <1>2 DEF DepositTrip
  <2> QED BY <2>1, LettingGo
<1> QED BY <1>1, <1>2

LEMMA RestRechargingKeeps ==
  ASSUME FarmInv, NEW b \in Bots, RestRecharging(b) PROVE Kept
<1>1. Acting(b) /\ UNCHANGED <<on, wish>>
  BY RestIsOn DEF RestRecharging
<1>2. CASE DepositTrip(b)
  BY <1>1, <1>2, DepositTripKeeps
<1>3. CASE Releases(b, TRUE, TRUE) /\ Homewards(b) /\ Ends(b)
  <2>1. pc' = Set(pc, b, "idle")
    BY <1>3 DEF Ends
  <2> QED BY <1>1, <1>3, <2>1, HomewardsCollect, LettingGo
<1> QED BY <1>2, <1>3 DEF RestRecharging

LEMMA RestDeadKeeps == ASSUME FarmInv, NEW b \in Bots, RestDead(b) PROVE Kept
<1>1. Acting(b) /\ UNCHANGED <<on, wish>>
  BY RestIsOn DEF RestDead
<1>2. UNCHANGED held /\ Homewards(b) /\ pc' = Set(pc, b, "idle")
  BY DEF RestDead, Ends, held
<1> QED BY <1>1, <1>2, HomewardsCollect, HoldingOn

LEMMA RestFetchKeeps == ASSUME FarmInv, NEW b \in Bots, RestFetch(b) PROVE Kept
<1>1. Acting(b) /\ UNCHANGED <<on, wish>>
  BY RestIsOn DEF RestFetch
<1>2. CASE retry[b] \/ ~ClaimGranted(claims, "depot", b)
  <2>1. pc' = Set(pc, b, "idle") /\ UNCHANGED held /\ UNCHANGED collect
    BY <1>2 DEF RestFetch, Ends
  <2> QED BY <1>1, <2>1, HoldingOn
<1>3. CASE ~(retry[b] \/ ~ClaimGranted(claims, "depot", b))
  <2>1. /\ claims' = Claim(claims, "depot", b) /\ depotKey' = Set(depotKey, b, TRUE)
        /\ Suppress(b) /\ UNCHANGED tileKey
        /\ \/ pc' = Set(pc, b, "idle")
           \/ pc' = Set(pc, b, "scan")
    BY <1>3 DEF RestFetch, Ends
  <2>2. Held(claims', tileKey', depotKey')
    BY <1>3, <2>1, DepotClaimed DEF FarmInv
  <2>3. /\ depotKey'[b] = TRUE
        /\ \A a \in Bots \ {b} : tileKey'[a] = tileKey[a] /\ depotKey'[a] = depotKey[a]
    BY <2>1 DEF Set, FarmInv, Held
  <2> QED BY <1>1, <2>1, <2>2, <2>3, OnActs
<1> QED BY <1>2, <1>3

LEMMA ScanKeeps == ASSUME FarmInv, NEW b \in Bots, Scan(b) PROVE Kept
<1>1. /\ Acting(b) /\ UNCHANGED <<on, wish>> /\ UNCHANGED collect
      /\ pc' = Set(pc, b, "idle")
  BY AtWorkIsOn DEF Scan, Quiet, Ends
<1>2. CASE UNCHANGED held
  BY <1>1, <1>2, HoldingOn
<1>3. CASE \E last \in BOOLEAN : Releases(b, FALSE, last)
  BY <1>1, <1>3, LettingGo
<1> QED BY <1>2, <1>3 DEF Scan

LEMMA RestFullKeeps == ASSUME FarmInv, NEW b \in Bots, RestFull(b) PROVE Kept
BY RestIsOn, DepositTripKeeps DEF RestFull

LEMMA DepositLootKeeps == ASSUME FarmInv, NEW b \in Bots, DepositLoot(b) PROVE Kept
<1>1. Acting(b) /\ UNCHANGED <<on, wish>> /\ pc' = Set(pc, b, "idle")
  BY AtWorkIsOn DEF DepositLoot, Quiet, Ends
<1>2. CASE Releases(b, TRUE, TRUE) /\ Homewards(b)
  BY <1>1, <1>2, HomewardsCollect, LettingGo
<1>3. CASE UNCHANGED held /\ UNCHANGED collect
  BY <1>1, <1>3, HoldingOn
<1> QED BY <1>2, <1>3 DEF DepositLoot

LEMMA RestRefreshKeeps == ASSUME FarmInv, NEW b \in Bots, RestRefresh(b) PROVE Kept
<1>1. Acting(b) /\ UNCHANGED <<on, wish>>
  BY RestIsOn DEF RestRefresh
<1>2. UNCHANGED held /\ UNCHANGED collect /\ pc' = Set(pc, b, "idle")
  BY DEF RestRefresh, Ends, held
<1> QED BY <1>1, <1>2, HoldingOn

LEMMA RestHuntKeeps == ASSUME FarmInv, NEW b \in Bots, RestHunt(b) PROVE Kept
<1>1. Acting(b) /\ UNCHANGED <<on, wish>>
  BY RestIsOn DEF RestHunt
<1>2. CASE at[b] # "hunt"
  <2>1. UNCHANGED held /\ UNCHANGED collect /\ pc' = Set(pc, b, "idle")
    BY <1>2 DEF RestHunt, Ends, held
  <2> QED BY <1>1, <2>1, HoldingOn
<1>3. CASE at[b] = "hunt" /\ ~hunting[b]
  <2>1. UNCHANGED held /\ Restore(b) /\ pc' = Set(pc, b, "idle")
    BY <1>3 DEF RestHunt, Ends, held
  <2> QED BY <1>1, <2>1, HoldingOn
<1>4. CASE at[b] = "hunt" /\ hunting[b]
  <2> DEFINE freed == Freed(b, TRUE, FALSE)
  <2>0. Restore(b) /\ UNCHANGED depotKey /\ off'[b] = FALSE
    BY <1>1, <1>4, CollectMoves DEF RestHunt
  <2>1. PICK t \in Tiles :
          LET free == IF tileKey[b] \notin {NoTile, t} THEN freed ELSE claims
          IN IF ClaimGranted(free, t, b)
             THEN /\ claims' = Claim(free, t, b) /\ tileKey' = Set(tileKey, b, t)
                  /\ pc' = Set(pc, b, "probe")
             ELSE /\ claims' = free /\ Ends(b)
                  /\ tileKey' = (IF tileKey[b] = t THEN tileKey ELSE Set(tileKey, b, NoTile))
    BY <1>4 DEF RestHunt
  <2> DEFINE free == IF tileKey[b] \notin {NoTile, t} THEN freed ELSE claims
             kept == IF tileKey[b] \notin {NoTile, t} THEN Set(tileKey, b, NoTile) ELSE tileKey
  <2>2. Held(free, kept, depotKey)
    BY FreedHeld DEF FarmInv
  <2>3. /\ kept[b] \in {NoTile, t} /\ Set(kept, b, t) = Set(tileKey, b, t)
        /\ kept = IF tileKey[b] = t THEN tileKey ELSE Set(tileKey, b, NoTile)
    <3>0. tileKey \in [Bots -> Tiles \cup {NoTile}]
      BY DEF FarmInv, Held
    <3>1. CASE tileKey[b] = NoTile
      <4>1. Set(tileKey, b, NoTile) = tileKey
        BY <3>0, <3>1 DEF Set
      <4> QED BY <3>0, <3>1, <4>1 DEF Set
    <3>2. CASE tileKey[b] = t
      BY <3>0, <3>2 DEF Set
    <3>3. CASE tileKey[b] \notin {NoTile, t}
      BY <3>0, <3>3 DEF Set
    <3> QED BY <3>1, <3>2, <3>3
  <2>4. t # NoTile
    BY Apartness
  <2> HIDE DEF freed
  <2>5. CASE ClaimGranted(free, t, b)
    <3>1. /\ claims' = Claim(free, t, b) /\ tileKey' = Set(tileKey, b, t)
          /\ pc' = Set(pc, b, "probe")
      BY <2>1, <2>5
    <3> HIDE DEF free, kept
    <3>2. Held(claims', tileKey', depotKey')
      BY <2>0, <2>2, <2>3, <2>5, <3>1, TileClaimed
    <3>3. /\ tileKey'[b] = t
          /\ \A a \in Bots \ {b} : tileKey'[a] = tileKey[a] /\ depotKey'[a] = depotKey[a]
      BY <2>0, <3>1 DEF Set, FarmInv, Held
    <3> QED BY <1>1, <2>0, <2>4, <3>1, <3>2, <3>3, OnActs
  <2>6. CASE ~ClaimGranted(free, t, b)
    <3>1. claims' = free /\ tileKey' = kept /\ pc' = Set(pc, b, "idle")
      BY <2>1, <2>3, <2>6 DEF Ends
    <3>2. \A a \in Bots \ {b} : kept[a] = tileKey[a]
      BY DEF Set, FarmInv, Held
    <3> HIDE DEF free, kept
    <3> QED BY <1>1, <2>0, <2>2, <3>1, <3>2, OnActs
  <2> QED BY <2>5, <2>6
<1> QED BY <1>2, <1>3, <1>4

LEMMA ProbeKeeps ==
  ASSUME FarmInv, NEW b \in Bots, ProbeReads(b) \/ ProbeFails(b) \/ ProbeFinds(b)
  PROVE  Kept
<1>1. Probes(b) /\ UNCHANGED collect
  BY DEF ProbeReads, ProbeFails, ProbeFinds
<1>2. Acting(b) /\ UNCHANGED <<on, wish>> /\ pc' = Set(pc, b, "idle")
  BY <1>1, AtWorkIsOn DEF Probes, Quiet, Ends
<1>3. \E lets \in BOOLEAN : Releases(b, lets, FALSE)
  BY DEF ProbeReads, ProbeFails, ProbeFinds
<1> QED BY <1>1, <1>2, <1>3, LettingGo

(* Server, clock and user. *)
LEMMA BesideKeeps ==
  ASSUME FarmInv, UNCHANGED <<on, pc>>, UNCHANGED <<held, collect, wish>> PROVE Kept
<1>1. UNCHANGED <<claims, tileKey, depotKey, on, pc, autoOn, off, saved, wish>>
  BY DEF held, collect
<1>2. Held(claims', tileKey', depotKey')
  BY <1>1 DEF FarmInv
<1>3. Switches'
  BY <1>1 DEF FarmInv, Switches
<1>4. \A b \in Bots : AsWished(b)' /\ Working(b)' /\ (stop[b] = "gone" => LetGo(b)')
  BY <1>1 DEF FarmInv, AsWished, Working, LetGo
<1> QED BY <1>2, <1>3, <1>4 DEF Kept

LEMMA SetAutoCollectKeeps ==
  ASSUME FarmInv, NEW b \in Bots, SetAutoCollect(b) PROVE Kept
<1>1. /\ Meddles \/ off[b] = FALSE
      /\ autoOn' = [autoOn EXCEPT ![b] = ~autoOn[b]] /\ wish' = [wish EXCEPT ![b] = ~autoOn[b]]
      /\ UNCHANGED <<on, pc, off, saved>> /\ UNCHANGED <<claims, tileKey, depotKey>>
  BY DEF SetAutoCollect, Elsewhere, held, Set, FarmInv, Switches
<1>2. Switches'
  BY <1>1 DEF FarmInv, Switches
<1>3. ASSUME NEW a \in Bots PROVE AsWished(a)' /\ Working(a)' /\ (stop[a] = "gone" => LetGo(a)')
  BY <1>1 DEF FarmInv, Switches, AsWished, Working, LetGo
<1>4. Held(claims', tileKey', depotKey')
  BY <1>1 DEF FarmInv
<1> QED BY <1>2, <1>3, <1>4 DEF Kept

(* Steps in which nobody is stopped. *)
LEMMA KeptIsKept ==
  ASSUME FarmInv, Kept,
         \/ UNCHANGED stop
         \/ \E b \in Bots : Begins(b)
  PROVE  FarmInv'
<1>1. /\ Stops'
      /\ \A b \in Bots : /\ stop'[b] = "no" <=> stop[b] = "no"
                         /\ stop'[b] = "gone" <=> stop[b] = "gone"
  <2>1. CASE UNCHANGED stop
    BY <2>1 DEF FarmInv, Stops
  <2>2. ASSUME NEW b \in Bots, Begins(b)
        PROVE  /\ Stops'
               /\ \A a \in Bots : /\ stop'[a] = "no" <=> stop[a] = "no"
                                  /\ stop'[a] = "gone" <=> stop[a] = "gone"
    BY <2>2 DEF FarmInv, Stops, Begins, Set
  <2> QED BY <2>1, <2>2
<1>2. Held(claims, tileKey, depotKey)'
  BY <1>1 DEF Kept, Held
<1> QED BY <1>1, <1>2 DEF Kept, FarmInv

LEMMA StopBotKeeps == ASSUME FarmInv, NEW b \in Bots, StopBot(b) PROVE FarmInv'
<1>1. /\ stop[b] = "no" /\ stop' \in {Set(stop, b, "last"), Set(stop, b, "now")}
      /\ claims' = ReleaseAll(claims, {b}) /\ UNCHANGED <<tileKey, depotKey, on, pc, wish>>
      /\ UNCHANGED <<autoOn, off, saved>>
  BY DEF StopBot, collect
<1>2. /\ stop' \in [Bots -> {"no", "last", "now", "gone"}] /\ stop'[b] \in {"last", "now"}
      /\ \A a \in Bots \ {b} : stop'[a] = stop[a]
  BY <1>1 DEF FarmInv, Stops, Set
<1>3. Held(claims, tileKey, depotKey)'
  BY <1>1, <1>2, Apartness DEF FarmInv, Held, Keys, ReleaseAll
<1>4. Switches' /\ Stops'
  BY <1>1, <1>2 DEF FarmInv, Switches, Stops
<1>5. ASSUME NEW a \in Bots
      PROVE  AsWished(a)' /\ Working(a)' /\ (stop'[a] = "gone" => LetGo(a)')
  BY <1>1, <1>2 DEF FarmInv, AsWished, Working, LetGo
<1> QED BY <1>3, <1>4, <1>5 DEF FarmInv

LEMMA ShutDownKeeps == ASSUME FarmInv, NEW b \in Bots, ShutDown(b) PROVE FarmInv'
<1>1. /\ pc[b] = "idle" /\ stop' = Set(stop, b, "gone")
      /\ claims' = ReleaseAll(claims, {b})
      /\ tileKey' = Set(tileKey, b, NoTile) /\ depotKey' = Set(depotKey, b, FALSE)
      /\ UNCHANGED <<on, pc, wish>> /\ UNCHANGED <<autoOn, off, saved>>
  BY DEF ShutDown, collect
<1>2. /\ stop' \in [Bots -> {"no", "last", "now", "gone"}] /\ stop'[b] = "gone"
      /\ \A a \in Bots \ {b} : stop'[a] = stop[a]
  BY <1>1 DEF FarmInv, Stops, Set
<1>3. /\ tileKey' \in [Bots -> Tiles \cup {NoTile}] /\ depotKey' \in [Bots -> BOOLEAN]
      /\ tileKey'[b] = NoTile /\ depotKey'[b] = FALSE
      /\ \A a \in Bots \ {b} : tileKey'[a] = tileKey[a] /\ depotKey'[a] = depotKey[a]
  BY <1>1 DEF FarmInv, Held, Set
<1>4. /\ claims' \in [Keys -> Bots \cup {NoBot}]
      /\ \A k \in Keys : claims'[k] = IF claims[k] = b THEN NoBot ELSE claims[k]
  BY <1>1 DEF FarmInv, Held, ReleaseAll
<1>5. Held(claims, tileKey, depotKey)'
  BY <1>2, <1>3, <1>4, Apartness DEF FarmInv, Held, Keys
<1>6. Switches' /\ Stops'
  BY <1>1, <1>2 DEF FarmInv, Switches, Stops
<1>7. ASSUME NEW a \in Bots
      PROVE  AsWished(a)' /\ Working(a)' /\ (stop'[a] = "gone" => LetGo(a)')
  BY <1>1, <1>2, <1>3 DEF FarmInv, AsWished, Working, LetGo
<1> QED BY <1>5, <1>6, <1>7 DEF FarmInv

LEMMA BotKeeps ==
  ASSUME FarmInv, NEW b \in Bots, Runs(b), ~ShutDown(b)
  PROVE  Kept /\ (UNCHANGED stop \/ Begins(b))
<1>1. Kept
  BY EnabledKeeps, DisabledKeeps, TickOfflineKeeps, TickExcessKeeps, TickOnKeeps,
     DropCountersKeeps, RestRechargingKeeps, RestDeadKeeps, RestFetchKeeps, ScanKeeps,
     RestFullKeeps, DepositLootKeeps, RestRefreshKeeps, RestHuntKeeps, ProbeKeeps
     DEF Runs
<1>2. Disabled(b) \/ TickOffline(b) \/ TickExcess(b) \/ TickOn(b) => Begins(b)
  BY DEF Disabled, TickOffline, TickExcess, TickOn, Ticks
<1>3. Enabled(b) \/ DropCounters(b) \/ Scan(b) \/ DepositLoot(b) => UNCHANGED stop
  BY DEF Enabled, DropCounters, Scan, DepositLoot
<1>4. RestRecharging(b) \/ RestDead(b) \/ RestFetch(b) \/ RestFull(b) \/ RestRefresh(b)
        \/ RestHunt(b) => UNCHANGED stop
  BY DEF RestRecharging, RestDead, RestFetch, RestFull, RestRefresh, RestHunt, Rests
<1>5. ProbeReads(b) \/ ProbeFails(b) \/ ProbeFinds(b) => UNCHANGED stop
  BY DEF ProbeReads, ProbeFails, ProbeFinds, Probes
<1> QED BY <1>1, <1>2, <1>3, <1>4, <1>5 DEF Runs

LEMMA FarmStep == FarmInv /\ [FarmNext]_farmVars => FarmInv'
<1> SUFFICES ASSUME FarmInv, [FarmNext]_farmVars PROVE FarmInv'
  OBVIOUS
<1>1. CASE Toggle \/ UNCHANGED farmVars
  <2>1. UNCHANGED <<on, pc>> /\ UNCHANGED <<held, collect, wish>> /\ UNCHANGED stop
    BY <1>1 DEF Toggle, farmVars
  <2> QED BY <2>1, BesideKeeps, KeptIsKept
<1>2. ASSUME NEW b \in Bots, Runs(b) PROVE FarmInv'
  BY <1>2, ShutDownKeeps, BotKeeps, KeptIsKept
<1>3. ASSUME NEW b \in Bots, Happens(b) PROVE FarmInv'
  <2>1. CASE StopBot(b)
    BY <2>1, StopBotKeeps
  <2>2. CASE SetAutoCollect(b)
    <3>1. UNCHANGED stop
      BY <2>2 DEF SetAutoCollect, Elsewhere
    <3> QED BY <2>2, <3>1, SetAutoCollectKeeps, KeptIsKept
  <2>3. CASE Arrive(b) \/ Drops(b) \/ Returns(b) \/ Recharged(b) \/ TimeOut(b)
    <3>1. UNCHANGED <<on, pc>> /\ UNCHANGED <<held, collect, wish>> /\ UNCHANGED stop
      BY <2>3 DEF Arrive, Drops, Returns, Recharged, TimeOut, Elsewhere
    <3> QED BY <3>1, BesideKeeps, KeptIsKept
  <2> QED BY <1>3, <2>1, <2>2, <2>3 DEF Happens
<1> QED BY <1>1, <1>2, <1>3 DEF FarmNext

(* The claims keep two bots from probing one tile and from working in the    *)
(* pickup depot at once, whoever else is stopped in the middle of a tick      *)
(* (GeigerModule::tick, try_pickup_counter, FleetState::erase).              *)
THEOREM FarmApart == FarmSpec => []Apart
<1>1. FarmInv => Apart
  BY Apartness DEF FarmInv, Held, Keys, Working, Apart
<1> QED BY <1>1, FarmStarts, FarmStep, PTL DEF FarmSpec

(* Switched off, the module holds no claim and no suppressed auto-collect;   *)
(* with nobody setting auto-collect while it is suppressed, it is as the     *)
(* user wants it then and in every probe (GeigerModule::on_disabled,         *)
(* restore_collect).                                                         *)
THEOREM FarmLeavesNothing == FarmSpec => []LeavesNothing
<1>1. FarmInv => LeavesNothing
  BY Apartness DEF FarmInv, Held, Keys, Switches, Working, AsWished, LetGo, LeavesNothing
<1> QED BY <1>1, FarmStarts, FarmStep, PTL DEF FarmSpec

(* The same as one property, for users who leave auto-collect alone while a   *)
(* probe has it suppressed (GeigerModule::on_disabled, restore_collect).      *)
THEOREM FarmGivesBack == ASSUME ~Meddles PROVE FarmSpec => []GivesBack
<1>1. FarmInv => LeavesNothing
  BY Apartness DEF FarmInv, Held, Keys, Switches, Working, AsWished, LetGo, LeavesNothing
<1>2. FarmInv => HuntsAsWished
  BY DEF FarmInv, Working, AsWished, HuntsAsWished
<1>3. FarmInv => GivesBack
  BY <1>1, <1>2 DEF GivesBack
<1> QED BY <1>3, FarmStarts, FarmStep, PTL DEF FarmSpec

=============================================================================
