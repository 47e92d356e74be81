--------------------------- MODULE LifecycleProofs ---------------------------
(***************************************************************************)
(* Proofs about SemanticStabilizer for any number of objects, detections   *)
(* and identities and any windows, and about the chain of the stabilizer   *)
(* and the region monitor.                                                 *)
(***************************************************************************)
EXTENDS Lifecycle, ListTheorems

(* A sequence is the function of its entries.                               *)
LEMMA SequenceIs ==
  ASSUME NEW T, NEW s \in Seq(T)
  PROVE  DOMAIN s = 1 .. Len(s) /\ s = [i \in 1 .. Len(s) |-> s[i]]
  OBVIOUS

(* One object in one update: what is kept of it, and what becomes of it.    *)

(* The age of an object is held where it stops mattering.                   *)
LEMMA MuteOrStableIs ==
  MuteOrStable \in Nat /\ Mute <= MuteOrStable /\ EnterStability <= MuteOrStable
  BY StabilizerAssumption DEF MuteOrStable

(* A count that is held at m.                                               *)
LEMMA HeldIs ==
  ASSUME NEW n \in Nat, NEW limit \in Nat
  PROVE  /\ Held(n, limit) \in Nat /\ Held(n, limit) <= limit /\ Held(n, limit) <= n
         /\ Held(n, limit) = n \/ Held(n, limit) = limit
  BY DEF Held

(* A timer, which may be off.                                               *)
LEMMA AgedIs ==
  ASSUME NEW timer \in {Off} \cup 0 .. EnterStability, NEW dt \in Nat
  PROVE  /\ Aged(timer, dt, EnterStability) \in {Off} \cup 0 .. EnterStability
         /\ timer = Off <=> Aged(timer, dt, EnterStability) = Off
         /\ timer # Off => Aged(timer, dt, EnterStability) = Held(timer + dt, EnterStability)
  BY StabilizerAssumption, HeldIs DEF Aged, Off

(* An object no detection was assigned to.                                  *)
LEMMA MissedIs ==
  ASSUME NEW o \in LogicalObject, NEW dt \in Steps
  PROVE  LET m == Missed(o, dt)
         IN  /\ m \in LogicalObject
             /\ m.id = o.id /\ m.raw = o.raw /\ m.place = o.place
             /\ m.state \in {"LOST_PENDING", "EXITED"} /\ (o.state = "EXITED" => m.state = "EXITED")
             /\ m.state = "EXITED" /\ o.state # "EXITED" => m.unseen >= MaxLost
             /\ m.unseen = Held(o.unseen + dt, Forgotten)
             /\ m.wasActive = (o.wasActive \/ o.state = "ACTIVE")
             /\ m.timer = Aged(o.timer, dt, EnterStability)
             /\ m.age = Held(o.age + dt, MuteOrStable)
             /\ m.baseline = o.baseline /\ m.late = o.late
<1> DEFINE score  == IF o.score > Decay * dt THEN o.score - Decay * dt ELSE 0
           unseen == Held(o.unseen + dt, Forgotten)
           over   == Ends(unseen, score)
           known  == o.wasActive \/ o.state = "ACTIVE"
           state  == IF over \/ o.state = "EXITED" THEN "EXITED" ELSE "LOST_PENDING"
           gone   == IF over \/ o.state # "EXITED" THEN 0 ELSE o.gone + dt
           timer  == Aged(o.timer, dt, EnterStability)
           dipped == o.dipped \/ (o.state # "ACTIVE" /\ ~o.wasActive /\ score < EnterThreshold)
           age    == Held(o.age + dt, MuteOrStable)
           ended  == IF o.state = "EXITED" THEN Held(o.exitedFor + dt, Retention) ELSE 0
           m == [o EXCEPT !.score = score, !.unseen = unseen, !.wasActive = known,
                          !.state = state, !.gone = gone, !.timer = timer,
                          !.dipped = dipped, !.age = age, !.exitedFor = ended]
<1>1. Missed(o, dt) = m
  BY DEF Missed
<1>2. dt \in Nat /\ Decay * dt \in Nat /\ Forgotten \in Nat
  BY StabilizerAssumption DEF Forgotten
<1>3. /\ o.score \in 0 .. FullScore /\ o.unseen \in Nat /\ o.gone \in Nat
      /\ o.timer \in {Off} \cup 0 .. EnterStability /\ o.age \in 0 .. MuteOrStable
      /\ o.exitedFor \in 0 .. Retention /\ o.wasActive \in BOOLEAN
  BY DEF LogicalObject
<1>4. score \in 0 .. FullScore
  BY <1>2, <1>3, StabilizerAssumption
<1>5. unseen \in Nat /\ gone \in Nat
  <2>1. o.unseen + dt \in Nat /\ o.gone + dt \in Nat
    BY <1>2, <1>3
  <2> QED BY <1>2, <2>1, HeldIs
<1>6. known \in BOOLEAN /\ dipped \in BOOLEAN
  OBVIOUS
<1>7. /\ state \in {"LOST_PENDING", "EXITED"} /\ (o.state = "EXITED" => state = "EXITED")
      /\ state = "EXITED" /\ o.state # "EXITED" => unseen >= MaxLost
  BY DEF Ends
<1>8. timer \in {Off} \cup 0 .. EnterStability
  BY <1>2, <1>3, AgedIs
<1>9. age \in 0 .. MuteOrStable
  <2>1. o.age + dt \in Nat /\ MuteOrStable \in Nat
    BY <1>2, <1>3, MuteOrStableIs
  <2>2. age \in Nat /\ age <= MuteOrStable
    BY <2>1, HeldIs
  <2> QED BY <2>1, <2>2
<1>10. ended \in 0 .. Retention
  BY <1>2, <1>3, HeldIs, StabilizerAssumption
<1> HIDE DEF score, unseen, over, known, state, gone, timer, dipped, age, ended
<1>11. /\ m.id = o.id /\ m.raw = o.raw /\ m.place = o.place /\ m.state = state
       /\ m.unseen = unseen /\ m.wasActive = known /\ m.timer = timer /\ m.age = age
       /\ m.baseline = o.baseline /\ m.late = o.late
  BY DEF LogicalObject
<1>12. m \in LogicalObject
  BY <1>4, <1>5, <1>6, <1>7, <1>8, <1>9, <1>10 DEF LogicalObject
<1> HIDE DEF m
<1> QED BY <1>1, <1>7, <1>11, <1>12 DEF unseen, known, timer, age

ObservedOK(o, d, dt, m) ==
  LET known == o.state = "ACTIVE" \/ o.wasActive
      timer == Aged(o.timer, dt, EnterStability)
  IN  /\ m \in LogicalObject
      /\ m.id = o.id /\ m.raw = d.raw /\ m.place = d.place
      /\ m.unseen = 0 /\ m.wasActive = FALSE /\ m.late = o.late
      /\ m.age = Held(o.age + dt, MuteOrStable)
      /\ m.state \in {"ACTIVE", "CANDIDATE"} /\ (known => m.state = "ACTIVE")
      /\ known => m.timer = timer
      /\ ~known => m.timer \in {Off, Start(timer)}
      /\ m.state = "ACTIVE" /\ ~known => m.timer >= EnterStability
      /\ m.state = "ACTIVE" /\ ~known => m.baseline = IsBaseline(m.age)
      /\ ~(m.state = "ACTIVE" /\ ~known) => m.baseline = o.baseline

(* An object a detection was assigned to ...                                *)
LEMMA ObservedIs ==
  ASSUME NEW o \in LogicalObject, NEW d \in Detection, NEW dt \in Nat
  PROVE  ObservedOK(o, d, dt, Observed(o, d, dt))
<1> DEFINE score == Held(o.score + d.gain * dt, FullScore)
           known == o.state = "ACTIVE" \/ o.wasActive
           aged  == Aged(o.timer, dt, EnterStability)
           timer == IF known THEN aged
                    ELSE IF score >= EnterThreshold THEN Start(aged) ELSE Off
           age   == Held(o.age + dt, MuteOrStable)
           active == known \/ (score >= EnterThreshold /\ timer >= EnterStability)
           state == IF active THEN "ACTIVE" ELSE "CANDIDATE"
           dipped == o.dipped /\ timer # Off /\ aged # Off
           baseline == IF active /\ ~known THEN IsBaseline(age) ELSE o.baseline
           m == [o EXCEPT !.raw = d.raw, !.place = d.place, !.score = score, !.unseen = 0,
                          !.timer = timer, !.age = age, !.wasActive = FALSE,
                          !.dipped = dipped, !.state = state, !.baseline = baseline]
<1>1. Observed(o, d, dt) = m
  BY DEF Observed
<1>2. d.gain \in Nat /\ d.gain * dt \in Nat /\ d.raw \in Raws /\ d.place \in Places
  <2>1. d.gain \in Nat /\ d.raw \in Raws /\ d.place \in Places
    BY StabilizerAssumption DEF Detection
  <2> QED BY <2>1
<1>3. /\ o.score \in 0 .. FullScore /\ o.timer \in {Off} \cup 0 .. EnterStability
      /\ o.age \in 0 .. MuteOrStable /\ o.baseline \in BOOLEAN
  BY DEF LogicalObject
<1>4. score \in 0 .. FullScore
  <2>1. o.score + d.gain * dt \in Nat /\ FullScore \in Nat
    BY <1>2, <1>3, StabilizerAssumption
  <2>2. score \in Nat /\ score <= FullScore
    BY <2>1, HeldIs
  <2> QED BY <2>1, <2>2
<1>5. aged \in {Off} \cup 0 .. EnterStability
  BY <1>3, AgedIs
<1>6. timer \in {Off} \cup 0 .. EnterStability
  BY <1>5, StabilizerAssumption DEF Start
<1>7. age \in 0 .. MuteOrStable
  <2>1. o.age + dt \in Nat /\ MuteOrStable \in Nat
    BY <1>3, MuteOrStableIs
  <2>2. age \in Nat /\ age <= MuteOrStable
    BY <2>1, HeldIs
  <2> QED BY <2>1, <2>2
<1>8. baseline \in BOOLEAN /\ dipped \in BOOLEAN
  BY <1>3 DEF IsBaseline
<1>9. /\ state \in {"ACTIVE", "CANDIDATE"} /\ (known => state = "ACTIVE")
      /\ known => timer = aged
      /\ ~known => timer \in {Off, Start(aged)}
      /\ state = "ACTIVE" /\ ~known => timer >= EnterStability
      /\ state = "ACTIVE" /\ ~known => baseline = IsBaseline(age)
      /\ ~(state = "ACTIVE" /\ ~known) => baseline = o.baseline
  OBVIOUS
<1> HIDE DEF score, aged, timer, age, active, state, dipped, baseline
<1>10. /\ m.id = o.id /\ m.raw = d.raw /\ m.place = d.place /\ m.state = state
       /\ m.unseen = 0 /\ m.wasActive = FALSE /\ m.timer = timer /\ m.age = age
       /\ m.baseline = baseline /\ m.late = o.late
  BY DEF LogicalObject
<1>11. m \in LogicalObject
  BY <1>2, <1>4, <1>6, <1>7, <1>8, <1>9 DEF LogicalObject
<1> HIDE DEF m, known
<1> QED BY <1>1, <1>9, <1>10, <1>11 DEF ObservedOK, aged, age, known

(* ... and one it is the first of.                                          *)
LEMMA NewbornIs ==
  ASSUME NEW d \in Detection, NEW id \in Nat
  PROVE  LET o == Newborn(d, id)
         IN  /\ o \in LogicalObject /\ o.id = id /\ o.state = "CANDIDATE" /\ o.wasActive = FALSE
             /\ o.timer = Off /\ o.age = 0 /\ o.baseline = FALSE /\ o.late = (boot' >= Mute)
<1>1. /\ 0 \in 0 .. FullScore /\ 0 \in 0 .. Retention /\ 0 \in 0 .. MuteOrStable /\ 0 \in Nat
      /\ d.raw \in Raws /\ d.place \in Places
  BY StabilizerAssumption, MuteOrStableIs DEF Detection
<1>2. (boot' >= Mute) \in BOOLEAN
  OBVIOUS
<1> QED BY <1>1, <1>2 DEF Newborn, LogicalObject

-----------------------------------------------------------------------------
(* The assignment of the detections of one update.                          *)

(* It takes only objects that may be reassociated, none of them twice, and  *)
(* a detection always gets the object that carries its raw id.              *)
AssignmentOK(a, objs, dets, dt) ==
  /\ a \in [DOMAIN dets -> 0 .. Len(objs)]
  /\ \A k \in DOMAIN dets : a[k] # 0 => a[k] \in DOMAIN objs /\ Live(objs[a[k]], dt)
  /\ \A k, l \in DOMAIN dets : a[k] = a[l] /\ a[k] # 0 => k = l
  /\ \A k \in DOMAIN dets, j \in DOMAIN objs :
       Live(objs[j], dt) /\ objs[j].raw = dets[k].raw => a[k] = j

(* The two stages of the matching give what AssignmentOK says.              *)
LEMMA AssignmentIs ==
  ASSUME NEW T, NEW objs \in Seq(T), NEW dets \in Inputs, NEW dt,
         \A i, j \in DOMAIN objs :
           Live(objs[i], dt) /\ Live(objs[j], dt) /\ objs[i].raw = objs[j].raw => i = j,
         NEW a \in Assignments(objs, dets, dt)
  PROVE  AssignmentOK(a, objs, dets, dt)
<1> DEFINE owners == [k \in DOMAIN dets |-> RawOwners(objs, dets[k], dt)]
           byRaw  == {k \in DOMAIN dets : owners[k] # {}}
           free(k) == Near(objs, dets[k], dt) \ Claimed(a, byRaw, k)
<1>1. /\ a \in [DOMAIN dets -> 0 .. Len(objs)]
      /\ \A k \in byRaw : a[k] \in owners[k]
      /\ \A k \in DOMAIN dets \ byRaw : IF free(k) = {} THEN a[k] = 0 ELSE a[k] \in free(k)
  BY DEF Assignments
<1>2. PICK size \in Nat : DOMAIN dets = 1 .. size
  BY DEF Inputs
<1>3. \A k, l \in DOMAIN dets : dets[k].raw = dets[l].raw => k = l
  BY DEF Inputs
<1>4. DOMAIN objs = 1 .. Len(objs) /\ Len(objs) \in Nat
  OBVIOUS
<1>5. \A k \in DOMAIN dets : owners[k] = RawOwners(objs, dets[k], dt)
  OBVIOUS
<1>6. \A k \in DOMAIN dets : \A i : i \in RawOwners(objs, dets[k], dt) <=>
        i \in DOMAIN objs /\ Live(objs[i], dt) /\ objs[i].raw = dets[k].raw
  BY DEF RawOwners
<1>7. \A k \in byRaw : a[k] \in DOMAIN objs /\ Live(objs[a[k]], dt) /\ objs[a[k]].raw = dets[k].raw
  BY <1>1, <1>5, <1>6
<1>8. \A k \in DOMAIN dets \ byRaw : a[k] = 0 \/ a[k] \in free(k)
  BY <1>1
<1>9. \A k : \A i \in free(k) :
        /\ i \in DOMAIN objs /\ Live(objs[i], dt)
        /\ \A l \in byRaw : a[l] # i
        /\ \A l \in 1 .. k - 1 : a[l] # i
  BY DEF Near, Claimed
<1>10. byRaw \subseteq DOMAIN dets
  OBVIOUS
<1> HIDE DEF owners, free
<1>11. \A k \in DOMAIN dets : a[k] # 0 => a[k] \in DOMAIN objs /\ Live(objs[a[k]], dt)
  BY <1>7, <1>8, <1>9
<1>12. ASSUME NEW k \in DOMAIN dets, NEW l \in DOMAIN dets, a[k] = a[l], a[k] # 0, k < l PROVE FALSE
  <2>1. CASE k \in byRaw /\ l \in byRaw
    <3>1. dets[k].raw = dets[l].raw
      BY <1>7, <1>12, <2>1
    <3> QED BY <1>2, <1>3, <1>12, <3>1
  <2>2. CASE k \in byRaw /\ l \notin byRaw
    BY <1>8, <1>9, <1>12, <2>2
  <2>3. CASE k \notin byRaw /\ l \in byRaw
    BY <1>8, <1>9, <1>12, <2>3
  <2>4. CASE k \notin byRaw /\ l \notin byRaw
    <3>1. k \in 1 .. l - 1
      BY <1>2, <1>12
    <3> QED BY <1>8, <1>9, <1>12, <2>4, <3>1
  <2> QED BY <2>1, <2>2, <2>3, <2>4
<1>13. \A k, l \in DOMAIN dets : a[k] = a[l] /\ a[k] # 0 => k = l
  BY <1>2, <1>12
<1>14. ASSUME NEW k \in DOMAIN dets, NEW j \in DOMAIN objs,
              Live(objs[j], dt), objs[j].raw = dets[k].raw
       PROVE  a[k] = j
  <2>1. k \in byRaw
    BY <1>5, <1>6, <1>14
  <2> QED BY <1>7, <1>14, <2>1
<1> QED BY <1>1, <1>11, <1>13, <1>14 DEF AssignmentOK

(* The objects an update keeps, and where they come from.                   *)
KeptAt(dt) == {i \in DOMAIN objects : ~Expired(objects[i], dt)}
Kept(dt)   == Picked(objects, KeptAt(dt))
From(dt)   == Ascending(KeptAt(dt))

KeptOK(dt) ==
  /\ Kept(dt) \in Seq(LogicalObject) /\ Len(Kept(dt)) \in Nat /\ Len(Kept(dt)) <= Len(objects)
  /\ From(dt) \in [1 .. Len(Kept(dt)) -> KeptAt(dt)] /\ Rising(From(dt))
  /\ \A i \in KeptAt(dt) : \E j \in 1 .. Len(Kept(dt)) : From(dt)[j] = i
  /\ \A j \in 1 .. Len(Kept(dt)) : Kept(dt)[j] = objects[From(dt)[j]]

(* The objects an update starts with are those not expired, in their order. *)
LEMMA KeptIs ==
  ASSUME objects \in Seq(LogicalObject), NEW dt
  PROVE  KeptOK(dt)
<1>1. KeptAt(dt) \in SUBSET (1 .. Len(objects)) /\ Len(objects) \in Nat
  BY DEF KeptAt
<1> DEFINE P == KeptAt(dt)
<1> HIDE DEF P
<1>2. /\ IsFiniteSet(P) /\ Cardinality(P) \in Nat
      /\ Picked(objects, P) \in Seq(LogicalObject) /\ Len(Picked(objects, P)) = Cardinality(P)
      /\ Ascending(P) \in [1 .. Cardinality(P) -> P] /\ Rising(Ascending(P))
      /\ \A x \in P : \E i \in 1 .. Cardinality(P) : Ascending(P)[i] = x
      /\ Picked(objects, P) = [i \in 1 .. Cardinality(P) |-> objects[Ascending(P)[i]]]
  BY <1>1, PickedIs DEF P
<1>3. \A j \in 1 .. Cardinality(P) : Picked(objects, P)[j] = objects[Ascending(P)[j]]
  BY <1>2
<1>4. Cardinality(P) <= Len(objects)
  <2>1. IsFiniteSet(1 .. Len(objects)) /\ Cardinality(1 .. Len(objects)) = Len(objects)
    BY <1>1, NumbersUpTo
  <2>2. Cardinality(P) <= Cardinality(1 .. Len(objects))
    BY <1>1, <2>1, FS_Subset DEF P
  <2> QED BY <2>1, <2>2
<1> QED BY <1>2, <1>3, <1>4 DEF KeptOK, Kept, From, P

-----------------------------------------------------------------------------
(* One update.                                                              *)

Shown(i) == [id |-> objects'[i].id, place |-> objects'[i].place, muted |-> objects'[i].baseline]

(* The objects after the update: those kept, observed or missed, and those  *)
(* born, in this order.                                                     *)
ObjectsStep(a, news, N, dets, dt) ==
  LET K == Len(Kept(dt))
  IN  /\ N \in Nat /\ K + N <= MaxLive /\ nextId' = nextId + N /\ nextId' - 1 <= MaxIds
      /\ news \in [1 .. N -> {k \in DOMAIN dets : a[k] = 0}]
      /\ \A m, n \in 1 .. N : news[m] = news[n] => m = n
      /\ objects' = [i \in 1 .. K + N |-> objects'[i]] /\ Len(objects') = K + N
      /\ \A k \in DOMAIN dets : a[k] # 0 => objects'[a[k]] = Observed(Kept(dt)[a[k]], dets[k], dt)
      /\ \A j \in 1 .. K :
           (\A k \in DOMAIN dets : a[k] # j) => objects'[j] = Missed(Kept(dt)[j], dt)
      /\ \A n \in 1 .. N :
           objects'[K + n] = Observed(Newborn(dets[news[n]], nextId + n - 1), dets[news[n]], 0)

(* What it returns: ACTIVE objects observed or born in this update, none    *)
(* of them twice, and every one observed.                                   *)
OutputStep(a, shown, S, dets, dt) ==
  LET K == Len(Kept(dt))
  IN  /\ S \in Nat /\ DOMAIN output' = 1 .. S /\ shown \in [1 .. S -> DOMAIN objects']
      /\ \A m, n \in 1 .. S : shown[m] = shown[n] => m = n
      /\ \A n \in 1 .. S :
           /\ output'[n] = Shown(shown[n]) /\ objects'[shown[n]].state = "ACTIVE"
           /\ shown[n] > K \/ \E k \in DOMAIN dets : a[k] = shown[n]
      /\ \A k \in DOMAIN dets : a[k] # 0 /\ objects'[a[k]].state = "ACTIVE"
           => \E n \in 1 .. S : shown[n] = a[k]

Unique(dt) ==
  \A i, j \in DOMAIN objects :
    Live(objects[i], dt) /\ Live(objects[j], dt) /\ objects[i].raw = objects[j].raw => i = j

(* Two kept objects that may be reassociated do not carry the same raw id.  *)
LEMMA KeptUnique ==
  ASSUME objects \in Seq(LogicalObject), NEW dt, Unique(dt)
  PROVE  \A i, j \in DOMAIN Kept(dt) :
           Live(Kept(dt)[i], dt) /\ Live(Kept(dt)[j], dt) /\ Kept(dt)[i].raw = Kept(dt)[j].raw
             => i = j
<1> DEFINE K == Len(Kept(dt))
           kept == Kept(dt)
           from == From(dt)
<1>1. /\ K \in Nat /\ DOMAIN kept = 1 .. K
      /\ from \in [1 .. K -> KeptAt(dt)] /\ Rising(from)
      /\ \A j \in 1 .. K : kept[j] = objects[from[j]]
  BY KeptIs DEF KeptOK
<1>2. \A j \in 1 .. K : from[j] \in DOMAIN objects
  BY <1>1 DEF KeptAt
<1>3. \A i, j \in 1 .. K : i < j => from[i] < from[j]
  BY <1>1 DEF Rising
<1>4. DOMAIN objects \subseteq Nat
  OBVIOUS
<1> HIDE DEF K, kept, from
<1>5. \A i, j \in 1 .. K : from[i] = from[j] => i = j
  BY <1>1, <1>2, <1>3, <1>4
<1>6. \A i, j \in DOMAIN kept :
        Live(kept[i], dt) /\ Live(kept[j], dt) /\ kept[i].raw = kept[j].raw => i = j
  BY <1>1, <1>2, <1>5 DEF Unique
<1> QED BY <1>6 DEF kept

(* An update is these three steps for some assignment.                      *)
LEMMA StepIs ==
  ASSUME objects \in Seq(LogicalObject), Len(objects) <= MaxLive, nextId \in Nat,
         NEW dets \in Inputs, NEW dt \in Steps, Unique(dt), StabilizerUpdate(dets, dt)
  PROVE  \E a, news, N, shown, S :
           /\ AssignmentOK(a, Kept(dt), dets, dt)
           /\ ObjectsStep(a, news, N, dets, dt)
           /\ OutputStep(a, shown, S, dets, dt)
<1> DEFINE kept == Kept(dt)
           K == Len(kept)
<1>1. kept \in Seq(LogicalObject) /\ K \in Nat /\ K <= Len(objects) /\ DOMAIN kept = 1 .. K
  BY KeptIs DEF KeptOK
<1>2. PICK a \in Assignments(kept, dets, dt) :
        LET Of(i) == CHOOSE k \in DOMAIN dets : a[k] = i
            fresh == Ascending({k \in DOMAIN dets : a[k] = 0})
            news  == SubSeq(fresh, 1, Held(Len(fresh), Room(kept)))
            Index(k) == IF a[k] # 0 THEN a[k]
                        ELSE Len(kept) + Cardinality({l \in 1 .. k : a[l] = 0})
            Shows(i) == i <= Len(objects') /\ objects'[i].state = "ACTIVE"
            shown == Picked([k \in DOMAIN dets |-> Index(k)],
                            {k \in DOMAIN dets : Shows(Index(k))})
        IN  /\ nextId + Len(news) - 1 <= MaxIds
            /\ objects' =
                 [i \in DOMAIN kept |->
                    IF \E k \in DOMAIN dets : a[k] = i
                    THEN Observed(kept[i], dets[Of(i)], dt) ELSE Missed(kept[i], dt)]
                 \o [n \in DOMAIN news |->
                       Observed(Newborn(dets[news[n]], Identity(n)), dets[news[n]], 0)]
            /\ nextId' = nextId + Len(news)
            /\ output' = [n \in DOMAIN shown |-> Shown(shown[n])]
  BY DEF StabilizerUpdate, Kept, KeptAt, Shown
<1>3. AssignmentOK(a, kept, dets, dt)
  BY <1>1, KeptUnique, AssignmentIs
<1>4. PICK size \in Nat : DOMAIN dets = 1 .. size /\ dets \in [1 .. size -> Detection]
  BY DEF Inputs
<1> DEFINE Of(i) == CHOOSE k \in DOMAIN dets : a[k] = i
           Free == {k \in DOMAIN dets : a[k] = 0}
           fresh == Ascending(Free)
           N == Held(Len(fresh), Room(kept))
           news  == SubSeq(fresh, 1, N)
           Index(k) == IF a[k] # 0 THEN a[k]
                       ELSE K + Cardinality({l \in 1 .. k : a[l] = 0})
           Shows(i) == i <= Len(objects') /\ objects'[i].state = "ACTIVE"
           index == [k \in DOMAIN dets |-> Index(k)]
           P == {k \in DOMAIN dets : Shows(Index(k))}
           at == Ascending(P)
           shown == Picked(index, P)
           S == Cardinality(P)
           X == [i \in DOMAIN kept |->
                    IF \E k \in DOMAIN dets : a[k] = i
                    THEN Observed(kept[i], dets[Of(i)], dt) ELSE Missed(kept[i], dt)]
           Y == [n \in DOMAIN news |->
                       Observed(Newborn(dets[news[n]], Identity(n)), dets[news[n]], 0)]
<1>5. /\ nextId + Len(news) - 1 <= MaxIds /\ objects' = X \o Y
      /\ nextId' = nextId + Len(news) /\ output' = [n \in DOMAIN shown |-> Shown(shown[n])]
  BY <1>2
<1>6. /\ a \in [DOMAIN dets -> 0 .. K]
      /\ \A k \in DOMAIN dets : a[k] # 0 => a[k] \in 1 .. K
      /\ \A k, l \in DOMAIN dets : a[k] = a[l] /\ a[k] # 0 => k = l
  BY <1>1, <1>3 DEF AssignmentOK
<1> HIDE DEF kept, K
<1>7. /\ Free \in SUBSET Nat /\ IsFiniteSet(Free) /\ P \in SUBSET Nat /\ IsFiniteSet(P)
      /\ P \in SUBSET (1 .. size)
  <2>1. IsFiniteSet(1 .. size) /\ 1 .. size \subseteq Nat
    BY <1>4, NumbersUpTo
  <2>2. Free \subseteq 1 .. size /\ P \subseteq 1 .. size
    BY <1>4
  <2> HIDE DEF Free, P
  <2> QED BY <2>1, <2>2, FS_Subset
<1>8. /\ Len(fresh) = Cardinality(Free) /\ Len(fresh) \in Nat
      /\ fresh \in [1 .. Len(fresh) -> Free] /\ Rising(fresh)
  <2> HIDE DEF Free
  <2>1. /\ Cardinality(Free) \in Nat /\ fresh \in [1 .. Cardinality(Free) -> Free] /\ Rising(fresh)
    BY <1>7, AscendingIs
  <2> HIDE DEF fresh
  <2>2. fresh \in Seq(Free) /\ Len(fresh) = Cardinality(Free)
    BY <2>1
  <2> QED BY <2>1, <2>2
<1>9. N \in Nat /\ N <= Len(fresh) /\ K + N <= MaxLive
  <2>1. Room(kept) \in Nat /\ Room(kept) = MaxLive - K
    BY <1>1, StabilizerAssumption DEF Room, K
  <2> HIDE DEF fresh
  <2>2. N \in Nat /\ N <= Room(kept) /\ N <= Len(fresh)
    BY <1>8, <2>1, HeldIs
  <2>3. K \in Nat /\ MaxLive \in Nat
    BY <1>1, StabilizerAssumption
  <2> HIDE DEF N
  <2> QED BY <2>1, <2>2, <2>3
<1>10. /\ news \in [1 .. N -> Free] /\ Len(news) = N /\ DOMAIN news = 1 .. N
       /\ \A n \in 1 .. N : news[n] = fresh[n]
       /\ \A m, n \in 1 .. N : news[m] = news[n] => m = n
  <2> HIDE DEF fresh, N, Free
  <2>1. fresh \in Seq(Free)
    BY <1>8
  <2>2. /\ Len(news) = N /\ DOMAIN news = 1 .. N /\ news \in Seq(Free)
        /\ \A n \in 1 .. N : news[n] = fresh[n]
    BY <1>8, <1>9, <2>1
  <2> HIDE DEF news
  <2>3. news \in [1 .. N -> Free]
    BY <2>2
  <2>4. \A m, n \in 1 .. N : m < n => news[m] < news[n]
    BY <1>8, <1>9, <2>2 DEF Rising
  <2>5. \A n \in 1 .. N : news[n] \in Nat
    BY <1>7, <2>3
  <2> QED BY <1>9, <2>2, <2>3, <2>4, <2>5
<1> HIDE DEF N, news, fresh
<1>11. /\ DOMAIN X = 1 .. K /\ DOMAIN Y = 1 .. N
       /\ \A i \in 1 .. K :
            X[i] = IF \E k \in DOMAIN dets : a[k] = i
                   THEN Observed(kept[i], dets[Of(i)], dt) ELSE Missed(kept[i], dt)
       /\ \A n \in 1 .. N : Y[n] = Observed(Newborn(dets[news[n]], Identity(n)), dets[news[n]], 0)
  BY <1>1, <1>10
<1> HIDE DEF X, Y
<1>12. /\ objects' = [i \in 1 .. K + N |-> objects'[i]] /\ DOMAIN objects' = 1 .. K + N
       /\ Len(objects') = K + N
       /\ \A i \in 1 .. K : objects'[i] = X[i]
       /\ \A n \in 1 .. N : objects'[K + n] = Y[n]
  <2> DEFINE T == {X[i] : i \in DOMAIN X} \cup {Y[i] : i \in DOMAIN Y}
  <2>0. /\ X = [i \in 1 .. K |-> X[i]] /\ Y = [i \in 1 .. N |-> Y[i]]
    BY <1>1, <1>10 DEF X, Y
  <2>1. \A i \in 1 .. K : X[i] \in T
    BY <1>11
  <2>2. \A i \in 1 .. N : Y[i] \in T
    BY <1>11
  <2> HIDE DEF T
  <2>8. X \in [1 .. K -> T] /\ Y \in [1 .. N -> T]
    BY <2>0, <2>1, <2>2
  <2>3. X \in Seq(T) /\ Y \in Seq(T) /\ Len(X) = K /\ Len(Y) = N
    BY <1>1, <1>9, <2>8
  <2>4. /\ X \o Y \in Seq(T) /\ Len(X \o Y) = K + N
        /\ \A i \in 1 .. K + N : (X \o Y)[i] = IF i <= K THEN X[i] ELSE Y[i - K]
    BY <2>3
  <2>5. /\ DOMAIN objects' = 1 .. K + N /\ Len(objects') = K + N
        /\ objects' = [i \in 1 .. K + N |-> objects'[i]]
    BY <1>5, <2>4, SequenceIs
  <2>6. \A i \in 1 .. K : i <= K /\ i \in 1 .. K + N
    BY <1>1, <1>9
  <2>7. \A n \in 1 .. N : ~(K + n <= K) /\ K + n \in 1 .. K + N /\ (K + n) - K = n
    BY <1>1, <1>9
  <2> QED BY <1>5, <2>4, <2>5, <2>6, <2>7
<1>13. \A k \in DOMAIN dets : a[k] # 0 => objects'[a[k]] = Observed(kept[a[k]], dets[k], dt)
  <2> SUFFICES ASSUME NEW k \in DOMAIN dets, a[k] # 0
               PROVE  objects'[a[k]] = Observed(kept[a[k]], dets[k], dt)
    OBVIOUS
  <2>1. a[k] \in 1 .. K
    BY <1>6
  <2>2. Of(a[k]) \in DOMAIN dets /\ a[Of(a[k])] = a[k]
    OBVIOUS
  <2>3. Of(a[k]) = k
    BY <1>6, <2>2
  <2>4. X[a[k]] = Observed(kept[a[k]], dets[Of(a[k])], dt)
    BY <1>11, <2>1
  <2> HIDE DEF Of
  <2> QED BY <1>12, <2>1, <2>3, <2>4
<1>14. \A j \in 1 .. K :
           (\A k \in DOMAIN dets : a[k] # j) => objects'[j] = Missed(kept[j], dt)
  BY <1>11, <1>12
<1>15. \A n \in 1 .. N :
           objects'[K + n] = Observed(Newborn(dets[news[n]], nextId + n - 1), dets[news[n]], 0)
  BY <1>11, <1>12 DEF Identity
<1>16. ObjectsStep(a, news, N, dets, dt)
  <2>1. nextId' = nextId + N /\ nextId' - 1 <= MaxIds
    BY <1>5, <1>10
  <2>2. /\ news \in [1 .. N -> {k \in DOMAIN dets : a[k] = 0}]
        /\ \A m, n \in 1 .. N : news[m] = news[n] => m = n
    BY <1>10
  <2> HIDE DEF Free, Of
  <2> QED BY <1>9, <1>12, <1>13, <1>14, <1>15, <2>1, <2>2 DEF ObjectsStep, K, kept
<1>17. /\ \A k \in DOMAIN dets : Index(k) \in Nat \ {0}
       /\ \A k \in DOMAIN dets : a[k] = 0 => Index(k) > K
       /\ \A k, l \in DOMAIN dets : Index(k) = Index(l) => k = l
  <2> DEFINE Z(k) == {l \in 1 .. k : a[l] = 0}
  <2>1. \A k \in 1 .. size : IsFiniteSet(Z(k)) /\ Cardinality(Z(k)) \in Nat
    <3> SUFFICES ASSUME NEW k \in 1 .. size PROVE IsFiniteSet(Z(k)) /\ Cardinality(Z(k)) \in Nat
      OBVIOUS
    <3>1. IsFiniteSet(1 .. k) /\ Z(k) \subseteq 1 .. k
      BY NumbersUpTo
    <3> HIDE DEF Z
    <3> QED BY <3>1, FS_Subset, FS_CardinalityType
  <2>2. \A k \in 1 .. size : a[k] = 0 => k \in Z(k)
    OBVIOUS
  <2>3. \A k \in 1 .. size : a[k] = 0 => Cardinality(Z(k)) # 0
    <3> HIDE DEF Z
    <3> QED BY <2>1, <2>2, FS_EmptySet
  <2>4. ASSUME NEW k \in 1 .. size, NEW l \in 1 .. size, k < l, a[l] = 0
        PROVE  Cardinality(Z(k)) < Cardinality(Z(l))
    <3>1. Z(k) \subseteq Z(l) /\ l \in Z(l) /\ l \notin Z(k)
      BY <2>4
    <3> HIDE DEF Z
    <3>2. Z(k) \subseteq Z(l) /\ Z(k) # Z(l) /\ IsFiniteSet(Z(l))
      BY <2>1, <3>1
    <3>3. Cardinality(Z(k)) <= Cardinality(Z(l))
      BY <3>2, FS_Subset
    <3>4. Cardinality(Z(k)) = Cardinality(Z(l)) => Z(k) = Z(l)
      BY <3>2, FS_Subset
    <3> QED BY <2>1, <3>2, <3>3, <3>4
  <2>5. \A k \in 1 .. size : Index(k) = IF a[k] # 0 THEN a[k] ELSE K + Cardinality(Z(k))
    OBVIOUS
  <2> HIDE DEF Z, Index
  <2>6. \A k \in 1 .. size : a[k] # 0 => a[k] \in 1 .. K
    BY <1>4, <1>6
  <2>7. \A k \in 1 .. size : Index(k) \in Nat \ {0} /\ (a[k] = 0 => Index(k) > K)
                              /\ (a[k] # 0 => Index(k) <= K)
    BY <1>1, <2>1, <2>3, <2>5, <2>6
  <2>8. ASSUME NEW k \in 1 .. size, NEW l \in 1 .. size, Index(k) = Index(l), k < l PROVE FALSE
    <3>1. CASE a[k] # 0 /\ a[l] # 0
      BY <1>4, <1>6, <2>5, <2>8, <3>1
    <3>2. CASE a[k] = 0 /\ a[l] = 0
      BY <1>1, <2>1, <2>4, <2>5, <2>8, <3>2
    <3>3. CASE (a[k] = 0) # (a[l] = 0)
      BY <1>1, <2>7, <2>8, <3>3
    <3> QED BY <3>1, <3>2, <3>3
  <2> QED BY <1>4, <2>7, <2>8
<1> HIDE DEF Index
<1>18. /\ index \in Seq(Nat) /\ Len(index) = size
       /\ \A k \in 1 .. size : index[k] = Index(k)
  <2>1. index \in [1 .. size -> Nat]
    BY <1>4, <1>17
  <2>2. \A k \in 1 .. size : index[k] = Index(k)
    BY <1>4
  <2> HIDE DEF index
  <2> QED BY <2>1, <2>2
<1>19. \A k \in DOMAIN dets : k \in P <=> Shows(Index(k))
  OBVIOUS
<1> HIDE DEF index, P
<1>20. /\ S \in Nat /\ Len(shown) = S /\ DOMAIN shown = 1 .. S
       /\ at \in [1 .. S -> P] /\ Rising(at)
       /\ \A x \in P : \E i \in 1 .. S : at[i] = x
       /\ \A i \in 1 .. S : shown[i] = index[at[i]]
  <2>1. P \in SUBSET (1 .. Len(index))
    BY <1>7, <1>18
  <2>2. /\ IsFiniteSet(P) /\ Cardinality(P) \in Nat
        /\ Picked(index, P) \in Seq(Nat) /\ Len(Picked(index, P)) = Cardinality(P)
        /\ Ascending(P) \in [1 .. Cardinality(P) -> P] /\ Rising(Ascending(P))
        /\ \A x \in P : \E i \in 1 .. Cardinality(P) : Ascending(P)[i] = x
        /\ Picked(index, P) = [i \in 1 .. Cardinality(P) |-> index[Ascending(P)[i]]]
    BY <1>18, <2>1, PickedIs
  <2> QED BY <2>2
<1> HIDE DEF S, at, shown
<1>21. \A n \in 1 .. S : at[n] \in DOMAIN dets /\ at[n] \in P /\ shown[n] = Index(at[n])
  <2>1. \A k \in P : k \in 1 .. size
    BY <1>7
  <2>2. \A n \in 1 .. S : at[n] \in P
    BY <1>20
  <2> QED BY <1>4, <1>18, <1>20, <2>1, <2>2
<1>22. \A n \in 1 .. S :
         /\ shown[n] \in DOMAIN objects' /\ objects'[shown[n]].state = "ACTIVE"
         /\ shown[n] > K \/ \E k \in DOMAIN dets : a[k] = shown[n]
  <2> SUFFICES ASSUME NEW n \in 1 .. S
               PROVE  /\ shown[n] \in DOMAIN objects' /\ objects'[shown[n]].state = "ACTIVE"
                      /\ shown[n] > K \/ \E k \in DOMAIN dets : a[k] = shown[n]
    OBVIOUS
  <2>1. at[n] \in DOMAIN dets /\ shown[n] = Index(at[n]) /\ Shows(Index(at[n]))
    BY <1>19, <1>21
  <2>2. shown[n] \in Nat \ {0} /\ shown[n] <= K + N /\ objects'[shown[n]].state = "ACTIVE"
    BY <1>12, <1>17, <2>1
  <2>3. a[at[n]] # 0 => shown[n] = a[at[n]]
    BY <2>1 DEF Index
  <2> QED BY <1>1, <1>9, <1>12, <1>17, <2>1, <2>2, <2>3
<1>23. \A m, n \in 1 .. S : shown[m] = shown[n] => m = n
  <2>1. \A m, n \in 1 .. S : m < n => at[m] < at[n]
    BY <1>20 DEF Rising
  <2>2. \A m \in 1 .. S : at[m] \in Nat
    BY <1>4, <1>21
  <2>3. \A m, n \in 1 .. S : shown[m] = shown[n] => at[m] = at[n]
    BY <1>17, <1>21
  <2> QED BY <1>20, <2>1, <2>2, <2>3
<1>24. \A k \in DOMAIN dets : a[k] # 0 /\ objects'[a[k]].state = "ACTIVE"
         => \E n \in 1 .. S : shown[n] = a[k]
  <2> SUFFICES ASSUME NEW k \in DOMAIN dets, a[k] # 0, objects'[a[k]].state = "ACTIVE"
               PROVE  \E n \in 1 .. S : shown[n] = a[k]
    OBVIOUS
  <2>1. Index(k) = a[k] /\ a[k] \in 1 .. K
    BY <1>6 DEF Index
  <2>2. Index(k) <= Len(objects')
    BY <1>1, <1>9, <1>12, <2>1
  <2>3. k \in P
    BY <1>19, <2>1, <2>2
  <2>4. PICK n \in 1 .. S : at[n] = k
    BY <1>20, <2>3
  <2> QED BY <1>21, <2>1, <2>4
<1>25. DOMAIN output' = 1 .. S /\ \A n \in 1 .. S : output'[n] = Shown(shown[n])
  BY <1>5, <1>20
<1>26. shown \in [1 .. S -> DOMAIN objects']
  <2>1. shown = [i \in 1 .. S |-> shown[i]]
    BY <1>20 DEF shown, Picked, S
  <2> QED BY <1>22, <2>1
<1>27. OutputStep(a, shown, S, dets, dt)
  BY <1>20, <1>22, <1>23, <1>24, <1>25, <1>26 DEF OutputStep, K, kept
<1> QED BY <1>3, <1>16, <1>27 DEF kept

-----------------------------------------------------------------------------
(* The invariant of the stabilizer: identities are numbers below the next   *)
(* one, and no object has been over the threshold for longer than it has    *)
(* been known.                                                              *)
Sound ==
  /\ objects \in Seq(LogicalObject) /\ nextId \in Nat \ {0} /\ nextId - 1 <= MaxIds
  /\ boot \in {Off} \cup 0 .. Mute
  /\ \A i \in DOMAIN objects : 1 <= objects[i].id /\ objects[i].id < nextId
  /\ \A i \in DOMAIN objects : objects[i].timer <= objects[i].age
  /\ OneOwner /\ NoFlash

(* A later look finds fewer objects that may be reassociated.               *)
LEMMA SoundUnique ==
  ASSUME Sound, NEW dt \in Steps
  PROVE  Unique(dt)
<1>1. \A i \in DOMAIN objects : objects[i].unseen \in Nat
  <2>1. \A i \in DOMAIN objects : objects[i] \in LogicalObject
    BY DEF Sound
  <2> QED BY <2>1 DEF LogicalObject
<1>2. dt \in Nat
  BY StabilizerAssumption
<1>3. \A i \in DOMAIN objects : Live(objects[i], dt) => Live(objects[i], 0)
  BY <1>1, <1>2, StabilizerAssumption DEF Live
<1> QED BY <1>3 DEF Unique, Sound, OneOwner

(* What becomes of the objects that were kept ...                           *)
KeptAfter(j, a, dets, dt) ==
  LET o == Kept(dt)[j]
      n == objects'[j]
  IN  /\ n \in LogicalObject /\ n.id = o.id /\ n.late = o.late
      /\ n.timer <= n.age /\ n.age = Held(o.age + dt, MuteOrStable)
      /\ n.state = "ACTIVE" \/ n.wasActive => n.age >= EnterStability
      /\ \/ /\ \A k \in DOMAIN dets : a[k] # j
            /\ n = Missed(o, dt)
         \/ \E k \in DOMAIN dets : a[k] = j /\ n.raw = dets[k].raw /\ n = Observed(o, dets[k], dt)

(* ... and what is born.                                                    *)
BornAfter(n, news, dets, dt) ==
  LET b == objects'[Len(Kept(dt)) + n]
      d == dets[news[n]]
  IN  /\ b \in LogicalObject /\ b.id = nextId + n - 1 /\ b.raw = d.raw
      /\ b.timer <= b.age /\ b.age = Held(0, MuteOrStable) /\ (b.late <=> boot' >= Mute)
      /\ b.wasActive = FALSE /\ (b.state = "ACTIVE" => b.age >= EnterStability)
      /\ b.unseen = 0 /\ b.state \in {"ACTIVE", "CANDIDATE"}
      /\ b.baseline = IF b.state = "ACTIVE" THEN IsBaseline(b.age) ELSE FALSE

(* An object that was kept is as KeptAfter says.                            *)
LEMMA KeptAfterIs ==
  ASSUME Sound, NEW dets \in Inputs, NEW dt \in Steps, NEW a, NEW news, NEW N,
         AssignmentOK(a, Kept(dt), dets, dt), ObjectsStep(a, news, N, dets, dt),
         NEW j \in 1 .. Len(Kept(dt))
  PROVE  KeptAfter(j, a, dets, dt)
<1> DEFINE o == Kept(dt)[j]
           n == objects'[j]
           i == From(dt)[j]
<1>1. /\ i \in DOMAIN objects /\ o = objects[i]
  BY KeptIs DEF KeptOK, KeptAt, Sound
<1>2. /\ o \in LogicalObject /\ o.timer <= o.age
      /\ o.state = "ACTIVE" \/ o.wasActive => o.age >= EnterStability
  BY <1>1 DEF Sound, NoFlash
<1>3. dt \in Nat /\ EnterStability \in Nat /\ EnterStability <= MuteOrStable /\ MuteOrStable \in Nat
  BY StabilizerAssumption, MuteOrStableIs
<1>4. o.age \in Nat /\ o.timer \in {Off} \cup 0 .. EnterStability /\ o.age <= MuteOrStable
  BY <1>2, <1>3 DEF LogicalObject
<1> DEFINE age == Held(o.age + dt, MuteOrStable)
           timer == Aged(o.timer, dt, EnterStability)
<1>5. age \in Nat /\ o.age <= age /\ timer \in {Off} \cup 0 .. EnterStability /\ timer <= age
  BY <1>2, <1>3, <1>4 DEF Held, Aged, Off
<1> HIDE DEF o, i, age, timer
<1>6. CASE \A k \in DOMAIN dets : a[k] # j
  <2>1. n = Missed(o, dt)
    BY <1>6 DEF ObjectsStep, o
  <2>2. /\ n \in LogicalObject /\ n.id = o.id /\ n.late = o.late
        /\ n.state \in {"LOST_PENDING", "EXITED"}
        /\ n.wasActive = (o.wasActive \/ o.state = "ACTIVE")
        /\ n.timer = timer /\ n.age = age
    BY <1>2, <2>1, MissedIs DEF timer, age
  <2> HIDE DEF n
  <2>4. n.wasActive => o.wasActive \/ o.state = "ACTIVE"
    BY <2>2
  <2>5. n.timer <= n.age
    BY <1>5, <2>2
  <2>3. n.timer <= n.age /\ (n.state = "ACTIVE" \/ n.wasActive => n.age >= EnterStability)
    BY <1>2, <1>3, <1>4, <1>5, <2>2, <2>4, <2>5
  <2> QED BY <1>6, <2>1, <2>2, <2>3 DEF KeptAfter, o, n, age
<1>7. CASE \E k \in DOMAIN dets : a[k] = j
  <2>1. PICK k \in DOMAIN dets : a[k] = j
    BY <1>7
  <2>2. dets[k] \in Detection
    <3>1. PICK size \in Nat : dets \in [1 .. size -> Detection]
      BY DEF Inputs
    <3> QED BY <3>1
  <2>3. n = Observed(o, dets[k], dt)
    BY <2>1 DEF ObjectsStep, o
  <2> DEFINE known == o.state = "ACTIVE" \/ o.wasActive
  <2>4. /\ n \in LogicalObject /\ n.id = o.id /\ n.late = o.late /\ n.raw = dets[k].raw
        /\ n.wasActive = FALSE /\ n.age = age
        /\ known => n.timer = timer
        /\ ~known => n.timer \in {Off, Start(timer)}
        /\ n.state = "ACTIVE" /\ ~known => n.timer >= EnterStability
    <3>1. ObservedOK(o, dets[k], dt, n)
      BY <1>2, <1>3, <2>2, <2>3, ObservedIs
    <3> HIDE DEF n
    <3> QED BY <3>1 DEF ObservedOK, timer, age
  <2> HIDE DEF n
  <2>5. n.timer <= n.age
    BY <1>5, <2>4 DEF Start, Off
  <2>6. n.timer \in Int /\ n.age \in Nat
    BY <1>5, <2>4 DEF Start, Off
  <2>7. n.state = "ACTIVE" \/ n.wasActive => n.age >= EnterStability
    BY <1>2, <1>3, <1>4, <1>5, <2>4, <2>5, <2>6
  <2> QED BY <2>1, <2>3, <2>4, <2>5, <2>7 DEF KeptAfter, o, n, age
<1> QED BY <1>6, <1>7

(* An object that was born is as BornAfter says.                            *)
LEMMA BornAfterIs ==
  ASSUME Sound, NEW dets \in Inputs, NEW dt \in Steps, NEW a, NEW news, NEW N,
         ObjectsStep(a, news, N, dets, dt), NEW n \in 1 .. N
  PROVE  BornAfter(n, news, dets, dt)
<1> DEFINE b == objects'[Len(Kept(dt)) + n]
           d == dets[news[n]]
           id == nextId + n - 1
           o == Newborn(d, id)
<1>1. news[n] \in DOMAIN dets /\ n \in Nat \ {0}
  BY DEF ObjectsStep
<1>2. d \in Detection
  <2>1. PICK size \in Nat : dets \in [1 .. size -> Detection]
    BY DEF Inputs
  <2> QED BY <1>1, <2>1
<1>3. id \in Nat
  BY <1>1 DEF Sound
<1>4. b = Observed(o, d, 0)
  BY DEF ObjectsStep
<1> HIDE DEF d, id
<1>5. /\ o \in LogicalObject /\ o.id = id /\ o.state = "CANDIDATE" /\ o.wasActive = FALSE
      /\ o.timer = Off /\ o.age = 0 /\ o.baseline = FALSE /\ (o.late <=> boot' >= Mute)
  BY <1>2, <1>3, NewbornIs
<1> HIDE DEF o
<1>6. /\ b \in LogicalObject /\ b.id = o.id /\ b.raw = d.raw
      /\ b.unseen = 0 /\ b.wasActive = FALSE /\ b.late = o.late
      /\ b.age = Held(o.age + 0, MuteOrStable)
      /\ b.state \in {"ACTIVE", "CANDIDATE"}
      /\ b.timer \in {Off, Start(Aged(o.timer, 0, EnterStability))}
      /\ b.state = "ACTIVE" => b.timer >= EnterStability
      /\ b.state = "ACTIVE" => b.baseline = IsBaseline(b.age)
      /\ ~(b.state = "ACTIVE") => b.baseline = o.baseline
  <2>1. ObservedOK(o, d, 0, b)
    BY <1>2, <1>4, <1>5, ObservedIs DEF o
  <2> HIDE DEF b
  <2> QED BY <1>5, <2>1 DEF ObservedOK
<1> HIDE DEF b
<1>7. b.timer \in {Off, 0} /\ b.age = Held(0, MuteOrStable) /\ b.age = 0
  BY <1>5, <1>6, MuteOrStableIs DEF Aged, Start, Held, Off
<1>8. b.timer <= b.age /\ (b.state = "ACTIVE" => b.age >= EnterStability)
  BY <1>6, <1>7, StabilizerAssumption DEF Off
<1> QED BY <1>5, <1>6, <1>7, <1>8 DEF BornAfter, b, d, id

(* An object that was missed and may still be reassociated could be         *)
(* reassociated in the update that missed it, and carries the same raw id.  *)
LEMMA MissedLive ==
  ASSUME NEW o \in LogicalObject, NEW dt \in Steps, Live(Missed(o, dt), 0)
  PROVE  Live(o, dt) /\ Missed(o, dt).raw = o.raw
<1> DEFINE n == Missed(o, dt)
<1>1. /\ n.raw = o.raw /\ (o.state = "EXITED" => n.state = "EXITED")
      /\ n.unseen = Held(o.unseen + dt, Forgotten)
  BY MissedIs
<1>2. dt \in Nat /\ Forgotten \in Nat /\ Forgotten > Reassociation /\ Reassociation \in Nat
  BY StabilizerAssumption DEF Forgotten
<1>3. o.unseen \in Nat
  BY DEF LogicalObject
<1> HIDE DEF n
<1>4. n.state # "EXITED" /\ n.unseen + 0 <= Reassociation
  BY DEF Live, n
<1>5. o.unseen + dt <= Reassociation
  BY <1>1, <1>2, <1>3, <1>4 DEF Held
<1> QED BY <1>1, <1>4, <1>5 DEF Live, n

(* An update keeps the invariant ...                                        *)
LEMMA UpdateKeepsSound ==
  ASSUME Sound, NEW dets \in Inputs, NEW dt \in Steps, StabilizerUpdate(dets, dt)
  PROVE  Sound'
<1> DEFINE K == Len(Kept(dt))
           kept == Kept(dt)
           from == From(dt)
<1>1. PICK a, news, N, shown, S :
        /\ AssignmentOK(a, Kept(dt), dets, dt)
        /\ ObjectsStep(a, news, N, dets, dt)
        /\ OutputStep(a, shown, S, dets, dt)
  BY SoundUnique, StepIs DEF Sound, OneOwner
<1>2. /\ kept \in Seq(LogicalObject) /\ K \in Nat /\ DOMAIN kept = 1 .. K
      /\ from \in [1 .. K -> KeptAt(dt)] /\ Rising(from)
      /\ \A j \in 1 .. K : kept[j] = objects[from[j]]
  BY KeptIs DEF KeptOK, Sound
<1>3. \A j \in 1 .. K : from[j] \in DOMAIN objects
  BY <1>2 DEF KeptAt
<1>4. \A i, j \in 1 .. K : i < j => from[i] < from[j]
  BY <1>2 DEF Rising
<1>5. \A j \in 1 .. K : KeptAfter(j, a, dets, dt)
  BY <1>1, KeptAfterIs
<1>6. \A n \in 1 .. N : BornAfter(n, news, dets, dt)
  BY <1>1, BornAfterIs
<1>7. /\ N \in Nat /\ K + N <= MaxLive /\ nextId' = nextId + N /\ nextId' - 1 <= MaxIds
      /\ news \in [1 .. N -> {k \in DOMAIN dets : a[k] = 0}]
      /\ \A m, n \in 1 .. N : news[m] = news[n] => m = n
      /\ objects' = [i \in 1 .. K + N |-> objects'[i]] /\ Len(objects') = K + N
      /\ \A j \in 1 .. K :
           (\A k \in DOMAIN dets : a[k] # j) => objects'[j] = Missed(kept[j], dt)
  BY <1>1 DEF ObjectsStep
<1>8. DOMAIN objects' = 1 .. K + N
  BY <1>7
<1>9. boot' \in {Off} \cup 0 .. Mute
  <2>1. PICK b : boot' = IF boot = Off THEN 0 ELSE Held(boot + dt, Mute)
    BY DEF StabilizerUpdate
  <2>2. dt \in Nat /\ Mute \in Nat
    BY StabilizerAssumption
  <2>3. CASE boot = Off
    BY <2>1, <2>2, <2>3
  <2>4. CASE boot # Off
    <3>1. boot + dt \in Nat
      BY <2>2, <2>4 DEF Sound
    <3>2. Held(boot + dt, Mute) \in Nat /\ Held(boot + dt, Mute) <= Mute
      BY <2>2, <3>1, HeldIs
    <3> QED BY <2>1, <2>2, <2>4, <3>2
  <2> QED BY <2>3, <2>4
<1> HIDE DEF K, kept, from
<1>10. \A i \in DOMAIN objects' : i \in 1 .. K \/ (i - K \in 1 .. N /\ i = K + (i - K))
  BY <1>2, <1>7, <1>8
<1>11. \A j \in 1 .. K :
         /\ objects'[j] \in LogicalObject /\ objects'[j].id = kept[j].id
         /\ objects'[j].timer <= objects'[j].age
         /\ objects'[j].state = "ACTIVE" \/ objects'[j].wasActive => objects'[j].age >= EnterStability
  BY <1>5 DEF KeptAfter, kept
<1>12. \A n \in 1 .. N :
         /\ objects'[K + n] \in LogicalObject /\ objects'[K + n].id = nextId + n - 1
         /\ objects'[K + n].timer <= objects'[K + n].age
         /\ objects'[K + n].state = "ACTIVE" \/ objects'[K + n].wasActive
              => objects'[K + n].age >= EnterStability
  BY <1>6 DEF BornAfter, K
<1>13. \A i \in DOMAIN objects' :
         /\ objects'[i] \in LogicalObject /\ objects'[i].timer <= objects'[i].age
         /\ objects'[i].state = "ACTIVE" \/ objects'[i].wasActive => objects'[i].age >= EnterStability
  BY <1>10, <1>11, <1>12
<1>14. objects' \in Seq(LogicalObject)
  <2>1. objects' \in [1 .. K + N -> LogicalObject]
    BY <1>7, <1>8, <1>13
  <2>2. K + N \in Nat
    BY <1>2, <1>7
  <2> QED BY <2>1, <2>2
<1>15. /\ nextId \in Nat \ {0}
       /\ \A i \in DOMAIN objects :
             objects[i].id \in Nat /\ 1 <= objects[i].id /\ objects[i].id < nextId
  <2>1. \A i \in DOMAIN objects : objects[i] \in LogicalObject
    BY DEF Sound
  <2>2. \A i \in DOMAIN objects : objects[i].id \in Nat
    BY <2>1 DEF LogicalObject
  <2> QED BY <2>2 DEF Sound
<1>16. \A j \in 1 .. K : /\ objects'[j].id = objects[from[j]].id /\ objects'[j].id \in Nat
                         /\ 1 <= objects'[j].id /\ objects'[j].id < nextId
  BY <1>2, <1>3, <1>11, <1>15
<1>17. \A i \in DOMAIN objects' :
         objects'[i].id \in Nat /\ 1 <= objects'[i].id /\ objects'[i].id < nextId'
  <2>1. \A n \in 1 .. N : nextId + n - 1 \in Nat /\ 1 <= nextId + n - 1 /\ nextId + n - 1 < nextId'
    BY <1>7, <1>15
  <2>2. \A j \in 1 .. K : objects'[j].id < nextId'
    BY <1>7, <1>15, <1>16
  <2> QED BY <1>10, <1>12, <1>16, <2>1, <2>2
<1>18. \A i, j \in DOMAIN objects' : i < j => objects'[i].id < objects'[j].id
  <2> SUFFICES ASSUME NEW i \in DOMAIN objects', NEW j \in DOMAIN objects', i < j
               PROVE  objects'[i].id < objects'[j].id
    OBVIOUS
  <2>1. CASE i \in 1 .. K /\ j \in 1 .. K
    <3>1. from[i] < from[j] /\ from[i] \in DOMAIN objects /\ from[j] \in DOMAIN objects
      BY <1>3, <1>4, <2>1
    <3>2. objects[from[i]].id < objects[from[j]].id
      BY <3>1 DEF Sound, OneOwner
    <3> QED BY <1>16, <2>1, <3>2
  <2>2. CASE i \in 1 .. K /\ j \notin 1 .. K
    <3>1. j - K \in 1 .. N /\ objects'[j].id = nextId + (j - K) - 1
      BY <1>10, <1>12, <2>2
    <3> QED BY <1>7, <1>15, <1>16, <2>2, <3>1
  <2>3. CASE i \notin 1 .. K
    <3>1. i \in 1 .. K + N /\ j \in 1 .. K + N
      BY <1>8
    <3>2. j \notin 1 .. K
      BY <1>2, <1>7, <2>3, <3>1
    <3>3. /\ i - K \in 1 .. N /\ objects'[i].id = nextId + (i - K) - 1
          /\ j - K \in 1 .. N /\ objects'[j].id = nextId + (j - K) - 1
      BY <1>10, <1>12, <2>3, <3>2
    <3>4. i \in Nat /\ j \in Nat
      BY <1>2, <1>7, <3>1
    <3> QED BY <1>2, <1>7, <1>15, <3>3, <3>4
  <2> QED BY <2>1, <2>2, <2>3
<1>19. \A i, j \in DOMAIN objects' :
         Live(objects'[i], 0) /\ Live(objects'[j], 0) /\ objects'[i].raw = objects'[j].raw => i = j
  <2> DEFINE Gets(i, k) == /\ k \in DOMAIN dets /\ objects'[i].raw = dets[k].raw
                           /\ a[k] = i \/ (a[k] = 0 /\ i - K \in 1 .. N /\ news[i - K] = k)
             Not(i) == i \in 1 .. K /\ objects'[i] = Missed(kept[i], dt) /\ \A k \in DOMAIN dets : a[k] # i
  <2>1. \A i \in DOMAIN objects' : Not(i) \/ \E k : Gets(i, k)
    <3> SUFFICES ASSUME NEW i \in DOMAIN objects' PROVE Not(i) \/ \E k : Gets(i, k)
      OBVIOUS
    <3>1. CASE i \in 1 .. K
      <4>1. \/ /\ \A k \in DOMAIN dets : a[k] # i
               /\ objects'[i] = Missed(kept[i], dt)
            \/ \E k \in DOMAIN dets : a[k] = i /\ objects'[i].raw = dets[k].raw
        <5>1. KeptAfter(i, a, dets, dt)
          BY <1>5, <3>1
        <5> QED BY <5>1 DEF KeptAfter, kept
      <4> QED BY <3>1, <4>1
    <3>2. CASE i \notin 1 .. K
      <4>1. i - K \in 1 .. N /\ i = K + (i - K)
        BY <1>10, <3>2
      <4>2. objects'[i].raw = dets[news[i - K]].raw
        BY <1>6, <4>1 DEF BornAfter, K
      <4>3. news[i - K] \in DOMAIN dets /\ a[news[i - K]] = 0
        BY <1>7, <4>1
      <4> QED BY <4>1, <4>2, <4>3
    <3> QED BY <3>1, <3>2
  <2>2. \A i \in DOMAIN kept : kept[i] \in LogicalObject
    BY <1>2
  <2>3. \A i : Not(i) /\ Live(objects'[i], 0) => Live(kept[i], dt) /\ objects'[i].raw = kept[i].raw
    BY <1>2, <2>2, MissedLive
  <2>4. \A k \in DOMAIN dets, j \in DOMAIN kept :
          Live(kept[j], dt) /\ kept[j].raw = dets[k].raw => a[k] = j
    BY <1>1 DEF AssignmentOK, kept
  <2>5. \A i, j \in DOMAIN kept :
          Live(kept[i], dt) /\ Live(kept[j], dt) /\ kept[i].raw = kept[j].raw => i = j
    BY KeptUnique, SoundUnique DEF Sound, kept
  <2>6. \A k, l \in DOMAIN dets : dets[k].raw = dets[l].raw => k = l
    BY DEF Inputs
  <2>7. ASSUME NEW i \in DOMAIN objects', NEW j \in DOMAIN objects', NEW k, NEW l,
               Gets(i, k), Gets(j, l), objects'[i].raw = objects'[j].raw
        PROVE  i = j
    <3>1. k = l
      BY <2>6, <2>7
    <3>2. CASE a[k] # 0
      BY <2>7, <3>1, <3>2
    <3>3. CASE a[k] = 0
      <4>1. i # 0 /\ j # 0
        BY <1>2, <1>7, <1>8
      <4>2. /\ i - K \in 1 .. N /\ j - K \in 1 .. N /\ news[i - K] = news[j - K]
        BY <2>7, <3>1, <3>3, <4>1
      <4>3. i - K = j - K
        BY <1>7, <4>2
      <4>4. i \in Int /\ j \in Int
        BY <1>8
      <4> QED BY <1>2, <4>3, <4>4
    <3> QED BY <3>2, <3>3
  <2>8. ASSUME NEW i \in DOMAIN objects', NEW j \in DOMAIN objects', NEW k,
               Not(i), Gets(j, k), Live(objects'[i], 0), objects'[i].raw = objects'[j].raw
        PROVE  FALSE
    BY <1>2, <2>3, <2>4, <2>8
  <2>9. ASSUME NEW i \in DOMAIN objects', NEW j \in DOMAIN objects', Not(i), Not(j),
               Live(objects'[i], 0), Live(objects'[j], 0), objects'[i].raw = objects'[j].raw
        PROVE  i = j
    BY <1>2, <2>3, <2>5, <2>9
  <2> HIDE DEF Not, Gets
  <2> QED BY <2>1, <2>7, <2>8, <2>9
<1>20. \A k, l \in DOMAIN output' : output'[k].id = output'[l].id => k = l
  <2>1. /\ DOMAIN output' = 1 .. S /\ shown \in [1 .. S -> DOMAIN objects']
        /\ \A m, n \in 1 .. S : shown[m] = shown[n] => m = n
        /\ \A n \in 1 .. S : output'[n] = Shown(shown[n])
    BY <1>1 DEF OutputStep
  <2>2. \A i : Shown(i).id = objects'[i].id
    BY DEF Shown
  <2>3. \A i, j \in DOMAIN objects' : objects'[i].id = objects'[j].id => i = j
    <3>1. \A i \in DOMAIN objects' : i \in Int
      BY <1>8
    <3> QED BY <1>17, <1>18, <3>1
  <2> QED BY <2>1, <2>2, <2>3
<1>21. nextId' \in Nat \ {0}
  BY <1>7, <1>15
<1>22. OneOwner'
  BY <1>7, <1>18, <1>19, <1>20 DEF OneOwner
<1>23. NoFlash'
  BY <1>13 DEF NoFlash
<1>24. \A i \in DOMAIN objects' : objects'[i].timer <= objects'[i].age
  BY <1>13
<1>25. \A i \in DOMAIN objects' : 1 <= objects'[i].id /\ objects'[i].id < nextId'
  BY <1>17
<1>26. (objects \in Seq(LogicalObject))'
  BY <1>14 DEF LogicalObject, MuteOrStable
<1> QED BY <1>7, <1>9, <1>21, <1>22, <1>23, <1>24, <1>25, <1>26 DEF Sound

(* ... which the stabilizer has at its start and after a reset.             *)
LEMMA SoundInductive ==
  /\ StabilizerInit => Sound
  /\ Sound /\ [StabilizerNext]_stabilizerVars => Sound'
<1>1. ASSUME StabilizerInit PROVE Sound
  BY <1>1, StabilizerAssumption DEF StabilizerInit, Sound, OneOwner, NoFlash, Off
<1>2. ASSUME Sound, StabilizerReset PROVE Sound'
  BY <1>2, StabilizerAssumption DEF StabilizerReset, Sound, OneOwner, NoFlash, Off
<1>3. ASSUME Sound, UNCHANGED stabilizerVars PROVE Sound'
  <2>1. objects' = objects /\ nextId' = nextId /\ boot' = boot /\ output' = output
    BY <1>3 DEF stabilizerVars
  <2>2. OneOwner' /\ NoFlash'
    BY <1>3, <2>1 DEF Sound, OneOwner, NoFlash, Live
  <2>3. (objects \in Seq(LogicalObject))'
    BY <1>3, <2>1 DEF Sound, LogicalObject, MuteOrStable
  <2>4. /\ nextId' \in Nat \ {0} /\ nextId' - 1 <= MaxIds /\ boot' \in {Off} \cup 0 .. Mute
        /\ \A i \in DOMAIN objects' : 1 <= objects'[i].id /\ objects'[i].id < nextId'
        /\ \A i \in DOMAIN objects' : objects'[i].timer <= objects'[i].age
    BY <1>3, <2>1 DEF Sound
  <2> QED BY <2>2, <2>3, <2>4 DEF Sound
<1> QED BY <1>1, <1>2, <1>3, UpdateKeepsSound DEF StabilizerNext

(* A raw id leads to one object, no identity is in the table twice or       *)
(* twice in an image, and the table is bounded by max_live_objects,         *)
(* whatever the tracker returns (SemanticStabilizer::update and             *)
(* find_reassociation_match).                                               *)
THEOREM OwnersUnique == StabilizerSpec => []OneOwner
<1>1. Sound => OneOwner
  BY DEF Sound
<1> QED BY <1>1, SoundInductive, PTL DEF StabilizerSpec

(* A flash is never shown: whoever is or was ACTIVE was first seen at least *)
(* enter_stability_seconds ago (update_presence and apply_lifecycle).       *)
THEOREM FlashesNeverShown == StabilizerSpec => []NoFlash
<1>1. Sound => NoFlash
  BY DEF Sound
<1> QED BY <1>1, SoundInductive, PTL DEF StabilizerSpec

(* An identity that is EXITED, or has left the table, never comes back.     *)
THEOREM ExitsAreFinal == StabilizerSpec => ExitIsFinal
<1> DEFINE Final == objects' # <<>> =>
             \A j \in DOMAIN output' :
               \/ output'[j].id >= nextId
               \/ \E i \in DOMAIN objects :
                    objects[i].id = output'[j].id /\ objects[i].state # "EXITED"
<1>1. ASSUME Sound, NEW dets \in Inputs, NEW dt \in Steps, StabilizerUpdate(dets, dt)
      PROVE  Final
  <2> DEFINE K == Len(Kept(dt))
             kept == Kept(dt)
             from == From(dt)
  <2>1. PICK a, news, N, shown, S :
          /\ AssignmentOK(a, Kept(dt), dets, dt)
          /\ ObjectsStep(a, news, N, dets, dt)
          /\ OutputStep(a, shown, S, dets, dt)
    BY <1>1, SoundUnique, StepIs DEF Sound, OneOwner
  <2>2. /\ K \in Nat /\ from \in [1 .. K -> KeptAt(dt)] /\ DOMAIN kept = 1 .. K
        /\ \A j \in 1 .. K : kept[j] = objects[from[j]]
    BY <1>1, KeptIs DEF KeptOK, Sound
  <2>3. \A j \in 1 .. K : from[j] \in DOMAIN objects
    BY <2>2 DEF KeptAt
  <2> SUFFICES ASSUME NEW n \in DOMAIN output'
               PROVE  \/ output'[n].id >= nextId
                      \/ \E i \in DOMAIN objects :
                           objects[i].id = output'[n].id /\ objects[i].state # "EXITED"
    OBVIOUS
  <2> DEFINE j == shown[n]
  <2>4. /\ DOMAIN output' = 1 .. S /\ j \in DOMAIN objects' /\ output'[n] = Shown(j)
        /\ j > K \/ \E k \in DOMAIN dets : a[k] = j
    BY <2>1 DEF OutputStep
  <2>5. output'[n].id = objects'[j].id
    BY <2>4 DEF Shown
  <2>6. N \in Nat /\ DOMAIN objects' = 1 .. K + N
    BY <2>1 DEF ObjectsStep
  <2> HIDE DEF j, K, kept, from
  <2>7. CASE j > K
    <3>1. j - K \in 1 .. N /\ K + (j - K) = j
      BY <2>2, <2>4, <2>6, <2>7
    <3>2. BornAfter(j - K, news, dets, dt)
      BY <1>1, <2>1, <3>1, BornAfterIs
    <3>3. objects'[j].id = nextId + (j - K) - 1
      BY <3>1, <3>2 DEF BornAfter, K
    <3> QED BY <1>1, <2>5, <3>1, <3>3 DEF Sound
  <2>8. CASE j <= K
    <3>1. j \in 1 .. K
      BY <2>2, <2>4, <2>6, <2>8
    <3>2. PICK k \in DOMAIN dets : a[k] = j
      BY <2>2, <2>4, <3>1
    <3>3. Live(kept[j], dt)
      BY <2>1, <2>2, <3>1, <3>2 DEF AssignmentOK, kept
    <3>4. KeptAfter(j, a, dets, dt)
      BY <1>1, <2>1, <3>1, KeptAfterIs DEF K
    <3>5. objects'[j].id = kept[j].id
      BY <3>4 DEF KeptAfter, kept
    <3> QED BY <2>2, <2>3, <2>5, <3>1, <3>3, <3>5 DEF Live
  <2> QED BY <2>2, <2>4, <2>6, <2>7, <2>8
<1>2. ASSUME StabilizerReset PROVE Final
  BY <1>2 DEF StabilizerReset
<1>3. Sound /\ [StabilizerNext]_stabilizerVars => [Final]_stabilizerVars
  BY <1>1, <1>2 DEF StabilizerNext
<1> QED BY <1>3, SoundInductive, PTL DEF StabilizerSpec, ExitIsFinal

-----------------------------------------------------------------------------
(* The region monitor in the chain.                                         *)

SeenNow     == {output'[k].id : k \in DOMAIN output'}
LostNow(dt) == {i \in DOMAIN states \ SeenNow : Region!TimedOut(states[i], dt)}
NowEntered(i) == \E m \in DOMAIN output' : output'[m].id = i /\ Region!Enters(RegionInput[m])

(* The monitor's own copies of the operators on lists are those.            *)
LEMMA SameAscending ==
  ASSUME NEW Q
  PROVE  Region!Ascending(Q) = Ascending(Q)
  BY DEF Region!Ascending, Ascending, Region!Arranged, Arranged, Region!Cardinality, Cardinality

(* RegionMonitor has its own instances of the same operators.               *)
LEMMA SamePicked ==
  ASSUME NEW s, NEW P
  PROVE  Region!Picked(s, P) = Picked(s, P)
  BY DEF Region!Picked, Picked, Region!Ascending, Ascending, Region!Arranged, Arranged,
         Region!Cardinality, Cardinality

(* What an update of the monitor does to its states and which entries it    *)
(* reports.                                                                 *)
RegionStep(dt) ==
  /\ DOMAIN states' = (DOMAIN states \cup SeenNow) \ LostNow(dt)
  /\ \A m \in DOMAIN output' : states'[output'[m].id] = Region!Seen(RegionInput[m], dt)
  /\ \A i \in (DOMAIN states \ SeenNow) \ LostNow(dt) : states'[i] = Region!Unseen(states[i], dt)
  /\ \A i : i \in Reported("ENTER") <=> NowEntered(i)

(* An update of the monitor is such a step.                                 *)
LEMMA RegionStepIs ==
  ASSUME IsFiniteSet(DOMAIN states), DOMAIN states \subseteq Nat, NEW dt,
         NEW S \in Nat, DOMAIN output' = 1 .. S,
         \A k, l \in DOMAIN output' : output'[k].id = output'[l].id => k = l,
         Region!RegionUpdate(RegionInput, dt)
  PROVE  RegionStep(dt)
<1> DEFINE dets == RegionInput
           seen == {dets[k].id : k \in DOMAIN dets}
           lost == {i \in DOMAIN states \ seen : Region!TimedOut(states[i], dt)}
           type(d) == IF Region!Enters(d) THEN "ENTER" ELSE IF Region!Exits(d) THEN "EXIT"
                      ELSE IF Region!Dwells(d, dt) THEN "DWELL" ELSE "none"
           report == [k \in DOMAIN dets |-> [type |-> type(dets[k]), id |-> dets[k].id]]
           P == {k \in DOMAIN report : report[k].type # "none"}
           late == Ascending(lost)
           exit == [i \in lost |-> [type |-> "EXIT", id |-> i]]
           Det(i) == dets[CHOOSE k \in DOMAIN dets : dets[k].id = i]
           next(i) == IF i \in seen THEN Region!Seen(Det(i), dt) ELSE Region!Unseen(states[i], dt)
<1>1. /\ DOMAIN dets = 1 .. S /\ DOMAIN report = 1 .. S
      /\ \A k \in 1 .. S : dets[k].id = output'[k].id
  BY DEF RegionInput
<1>2. states' = [i \in (DOMAIN states \cup seen) \ lost |-> next(i)]
  BY DEF Region!RegionUpdate
<1>3. events' = Region!Picked(report, P)
                \o [k \in DOMAIN Region!Ascending(lost) |->
                      [type |-> "EXIT", id |-> Region!Ascending(lost)[k]]]
  BY DEF Region!RegionUpdate
<1>4. Region!Picked(report, P) = Picked(report, P) /\ Region!Ascending(lost) = late
  <2> HIDE DEF report, P, lost
  <2> QED BY SamePicked, SameAscending
<1>5. SeenNow = seen
  BY <1>1 DEF SeenNow
<1> HIDE DEF seen
<1>10. LostNow(dt) = lost /\ lost \in SUBSET Nat /\ IsFiniteSet(lost)
  BY <1>5, FS_Subset DEF LostNow
<1>6. DOMAIN states' = (DOMAIN states \cup SeenNow) \ LostNow(dt)
  BY <1>2, <1>5, <1>10
<1>7. \A i \in (DOMAIN states \ SeenNow) \ LostNow(dt) : states'[i] = Region!Unseen(states[i], dt)
  <2> SUFFICES ASSUME NEW i \in (DOMAIN states \ SeenNow) \ LostNow(dt)
               PROVE  states'[i] = Region!Unseen(states[i], dt)
    OBVIOUS
  <2>1. states'[i] = next(i)
    BY <1>2, <1>5, <1>10
  <2> QED BY <1>5, <2>1
<1>8. \A m \in DOMAIN output' : states'[output'[m].id] = Region!Seen(RegionInput[m], dt)
  <2> SUFFICES ASSUME NEW m \in DOMAIN output'
               PROVE  states'[output'[m].id] = Region!Seen(dets[m], dt)
    OBVIOUS
  <2> DEFINE i == output'[m].id
             c == CHOOSE k \in DOMAIN dets : dets[k].id = i
  <2>1. m \in DOMAIN dets /\ dets[m].id = i
    BY <1>1
  <2>2. c \in DOMAIN dets /\ dets[c].id = i
    BY <2>1
  <2>3. c = m
    BY <1>1, <2>1, <2>2
  <2>4. i \in seen /\ i \notin lost
    BY <1>5 DEF SeenNow
  <2>5. states'[i] = next(i)
    BY <1>2, <2>4
  <2>6. next(i) = Region!Seen(dets[c], dt)
    BY <2>4
  <2> HIDE DEF next, c, i, dets
  <2>7. states'[i] = Region!Seen(dets[m], dt)
    BY <2>3, <2>5, <2>6
  <2> QED BY <2>7 DEF i
<1>9. \A i : i \in Reported("ENTER") <=> NowEntered(i)
  <2> DEFINE T == {report[k] : k \in 1 .. S} \cup {exit[i] : i \in lost}
             list == Followed(report, P, exit, lost)
  <2>1. report \in [1 .. S -> T] /\ exit \in [lost -> T]
    BY <1>1
  <2>2. \A k \in DOMAIN late : late[k] \in lost
    <3> HIDE DEF lost
    <3>1. late \in [1 .. Cardinality(lost) -> lost]
      BY <1>10, AscendingIs
    <3> QED BY <3>1
  <2>3. \A i \in lost : exit[i] = [type |-> "EXIT", id |-> i] /\ exit[i].type # "ENTER"
    OBVIOUS
  <2>4. \A d : type(d) = "ENTER" <=> Region!Enters(d)
    OBVIOUS
  <2> HIDE DEF type
  <2>5. P \in SUBSET (1 .. S) /\ \A k \in 1 .. S : k \in P <=> report[k].type # "none"
    BY <1>1
  <2>6. \A k \in 1 .. S : report[k].type = type(dets[k]) /\ report[k].id = output'[k].id
    BY <1>1
  <2> HIDE DEF exit, late, report, P, T, lost, dets
  <2>7. [k \in DOMAIN late |-> [type |-> "EXIT", id |-> late[k]]] = [k \in DOMAIN late |-> exit[late[k]]]
    BY <2>2, <2>3
  <2>8. events' = list
    BY <1>3, <1>4, <2>7 DEF Followed, late
  <2>9. report \in Seq(T) /\ Len(report) = S
    BY <2>1
  <2>10. HoldsBoth(list, report, P, exit, lost)
    <3>1. P \in SUBSET (1 .. Len(report))
      BY <2>5, <2>9
    <3> QED BY <1>10, <2>1, <2>9, <3>1, FollowedIs
  <2> HIDE DEF list
  <2>11. /\ \A k \in DOMAIN list :
              (\E m \in P : list[k] = report[m]) \/ (\E i \in lost : list[k] = exit[i])
         /\ \A m \in P : \E k \in DOMAIN list : list[k] = report[m]
    BY <2>10 DEF HoldsBoth
  <2>12. \A k \in 1 .. S : report[k].type = "ENTER" <=> Region!Enters(dets[k])
    BY <2>4, <2>6
  <2>13. ASSUME NEW i, i \in Reported("ENTER") PROVE NowEntered(i)
    <3>1. PICK k \in DOMAIN list : list[k].type = "ENTER" /\ list[k].id = i
      BY <2>8, <2>13 DEF Reported
    <3>2. \A j \in lost : list[k] # exit[j]
      BY <2>3, <3>1
    <3>3. PICK m \in P : list[k] = report[m]
      BY <2>11, <3>2
    <3>4. m \in 1 .. S /\ Region!Enters(dets[m]) /\ output'[m].id = i
      BY <2>5, <2>6, <2>12, <3>1, <3>3
    <3> QED BY <3>4 DEF NowEntered, dets
  <2>14. ASSUME NEW i, NowEntered(i) PROVE i \in Reported("ENTER")
    <3>1. PICK m \in 1 .. S : output'[m].id = i /\ Region!Enters(dets[m])
      BY <2>14 DEF NowEntered, dets
    <3>2. m \in P /\ report[m].type = "ENTER" /\ report[m].id = i
      BY <2>5, <2>6, <2>12, <3>1
    <3>3. PICK k \in DOMAIN list : list[k] = report[m]
      BY <2>11, <3>2
    <3> QED BY <2>8, <3>2, <3>3 DEF Reported
  <2> QED BY <2>13, <2>14
<1> QED BY <1>6, <1>7, <1>8, <1>9 DEF RegionStep

-----------------------------------------------------------------------------
(* The chain.                                                               *)

(* What an update does to the rest of an object it kept.                    *)
Fate(j, a, dets, dt) ==
  LET o == Kept(dt)[j]
      n == objects'[j]
      known == o.state = "ACTIVE" \/ o.wasActive
  IN  \/ /\ \A k \in DOMAIN dets : a[k] # j
         /\ n.state \in {"LOST_PENDING", "EXITED"} /\ (o.state = "EXITED" => n.state = "EXITED")
         /\ n.state = "EXITED" /\ o.state # "EXITED" => n.unseen >= MaxLost
         /\ n.unseen = Held(o.unseen + dt, Forgotten)
         /\ (n.wasActive <=> known) /\ n.baseline = o.baseline
      \/ /\ \E k \in DOMAIN dets : a[k] = j
         /\ n.state \in {"ACTIVE", "CANDIDATE"} /\ (known => n.state = "ACTIVE")
         /\ n.unseen = 0 /\ n.wasActive = FALSE
         /\ IF n.state = "ACTIVE" /\ ~known THEN n.baseline = IsBaseline(n.age)
            ELSE n.baseline = o.baseline

(* An object that was kept has that fate.                                   *)
LEMMA FateIs ==
  ASSUME Sound, NEW dets \in Inputs, NEW dt \in Steps, NEW a, NEW news, NEW N,
         AssignmentOK(a, Kept(dt), dets, dt), ObjectsStep(a, news, N, dets, dt),
         NEW j \in 1 .. Len(Kept(dt))
  PROVE  Fate(j, a, dets, dt)
<1> DEFINE o == Kept(dt)[j]
           n == objects'[j]
           known == o.state = "ACTIVE" \/ o.wasActive
<1>1. o \in LogicalObject
  BY KeptIs DEF KeptOK, Sound
<1>2. dt \in Nat
  BY StabilizerAssumption
<1>3. KeptAfter(j, a, dets, dt)
  BY KeptAfterIs
<1>4. CASE (\A k \in DOMAIN dets : a[k] # j) /\ n = Missed(o, dt)
  <2> HIDE DEF o
  <2>1. /\ n.state \in {"LOST_PENDING", "EXITED"} /\ (o.state = "EXITED" => n.state = "EXITED")
        /\ n.state = "EXITED" /\ o.state # "EXITED" => n.unseen >= MaxLost
        /\ n.unseen = Held(o.unseen + dt, Forgotten)
        /\ n.wasActive = (o.wasActive \/ o.state = "ACTIVE")
        /\ n.baseline = o.baseline
    BY <1>1, <1>4, MissedIs
  <2> HIDE DEF n
  <2>2. n.wasActive <=> known
    BY <2>1
  <2> QED BY <1>4, <2>1, <2>2 DEF Fate, o, n
<1>5. CASE \E k \in DOMAIN dets : a[k] = j /\ n = Observed(o, dets[k], dt)
  <2>1. PICK k \in DOMAIN dets : a[k] = j /\ n = Observed(o, dets[k], dt)
    BY <1>5
  <2>2. dets[k] \in Detection
    <3>1. PICK size \in Nat : dets \in [1 .. size -> Detection]
      BY DEF Inputs
    <3> QED BY <3>1
  <2> HIDE DEF o
  <2>3. ObservedOK(o, dets[k], dt, n)
    BY <1>1, <1>2, <2>1, <2>2, ObservedIs
  <2> HIDE DEF n
  <2>4. /\ n.state \in {"ACTIVE", "CANDIDATE"} /\ (known => n.state = "ACTIVE")
        /\ n.unseen = 0 /\ n.wasActive = FALSE
        /\ n.state = "ACTIVE" /\ ~known => n.baseline = IsBaseline(n.age)
        /\ ~(n.state = "ACTIVE" /\ ~known) => n.baseline = o.baseline
    BY <2>3 DEF ObservedOK
  <2> QED BY <2>1, <2>4 DEF Fate, o, n
<1> QED BY <1>3, <1>4, <1>5 DEF KeptAfter

(* The invariant of the chain.  An identity the monitor knows was ACTIVE    *)
(* once, so its object is no CANDIDATE; one it believes in the region is    *)
(* ACTIVE, or was before it was lost, and both components count the same    *)
(* time since it was seen, so that the monitor, whose window is the shorter,*)
(* gives up first; and while the bootstrap window is open no object is      *)
(* older than it.                                                           *)
Occupied(i) ==
  \E j \in DOMAIN objects :
    /\ objects[j].id = i /\ objects[j].state \in {"ACTIVE", "LOST_PENDING"}
    /\ objects[j].wasActive <=> objects[j].state = "LOST_PENDING"
    /\ objects[j].unseen = states[i].since
ObjectOK(o) ==
  /\ o.id \in DOMAIN states => o.state \in {"ACTIVE", "EXITED"} \/ o.wasActive
  /\ o.state \in {"ACTIVE", "CANDIDATE"} => ~o.wasActive
  /\ o.late => ~o.baseline /\ boot = Mute
  /\ boot # Off /\ (boot < Mute => o.age <= boot)
StateIs(s) ==
  s \in Region!TrackState /\ (s.inside => s.since < RegionLost)
ChainSound ==
  /\ Sound
  /\ IsFiniteSet(DOMAIN states) /\ \A i \in DOMAIN states : i \in Nat /\ i < nextId
  /\ \A i \in DOMAIN states : StateIs(states[i]) /\ (states[i].inside => Occupied(i))
  /\ \A j \in DOMAIN objects : ObjectOK(objects[j])

(* One cycle, as the steps of both components.                              *)
CycleStep(a, news, N, shown, S, dets, dt) ==
  /\ AssignmentOK(a, Kept(dt), dets, dt)
  /\ ObjectsStep(a, news, N, dets, dt)
  /\ OutputStep(a, shown, S, dets, dt)
  /\ RegionStep(dt)
  /\ boot' = IF boot = Off THEN 0 ELSE Held(boot + dt, Mute)

(* Both updates of a cycle, with the assignment they share.                 *)
LEMMA CycleIs ==
  ASSUME ChainSound, NEW dets \in Inputs, NEW dt \in Steps, Cycle(dets, dt)
  PROVE  /\ Sound'
         /\ \E a, news, N, shown, S : CycleStep(a, news, N, shown, S, dets, dt)
<1>1. StabilizerUpdate(dets, dt) /\ Region!RegionUpdate(RegionInput, dt)
  BY DEF Cycle
<1>2. Sound
  BY DEF ChainSound
<1>3. Sound'
  BY <1>1, <1>2, UpdateKeepsSound
<1>4. PICK a, news, N, shown, S :
        /\ AssignmentOK(a, Kept(dt), dets, dt)
        /\ ObjectsStep(a, news, N, dets, dt)
        /\ OutputStep(a, shown, S, dets, dt)
  BY <1>1, <1>2, SoundUnique, StepIs DEF Sound, OneOwner
<1>5. S \in Nat /\ DOMAIN output' = 1 .. S
  BY <1>4 DEF OutputStep
<1>6. \A k, l \in DOMAIN output' : output'[k].id = output'[l].id => k = l
  BY <1>3 DEF Sound, OneOwner
<1>7. IsFiniteSet(DOMAIN states) /\ DOMAIN states \subseteq Nat
  BY DEF ChainSound
<1>8. RegionStep(dt)
  BY <1>1, <1>5, <1>6, <1>7, RegionStepIs
<1>9. boot' = IF boot = Off THEN 0 ELSE Held(boot + dt, Mute)
  BY <1>1 DEF StabilizerUpdate
<1> QED BY <1>3, <1>4, <1>8, <1>9 DEF CycleStep

(* The bootstrap clock: it runs up to the end of the window.                *)
LEMMA BootIs ==
  ASSUME Sound, NEW dt \in Steps, boot' = IF boot = Off THEN 0 ELSE Held(boot + dt, Mute)
  PROVE  /\ boot' \in 0 .. Mute /\ boot' # Off
         /\ boot = Mute => boot' = Mute
         /\ boot # Off /\ boot' < Mute => boot \in Nat /\ boot < Mute /\ boot' = boot + dt
<1>1. dt \in Nat /\ Mute \in Nat /\ boot \in {Off} \cup 0 .. Mute
  BY StabilizerAssumption DEF Sound
<1>2. CASE boot = Off
  BY <1>1, <1>2 DEF Off
<1>3. CASE boot # Off
  <2>1. boot \in 0 .. Mute /\ boot' = Held(boot + dt, Mute)
    BY <1>1, <1>3
  <2> QED BY <1>1, <2>1 DEF Held, Off
<1> QED BY <1>2, <1>3

(* Whoever is in the image is an ACTIVE object, observed or just born.      *)
LEMMA ImageIs ==
  ASSUME Sound, Sound', NEW dets \in Inputs, NEW dt \in Steps,
         NEW a, NEW news, NEW N, NEW shown, NEW S, CycleStep(a, news, N, shown, S, dets, dt),
         NEW j \in DOMAIN objects', objects'[j].id \in SeenNow
  PROVE  /\ objects'[j].state = "ACTIVE" /\ objects'[j].unseen = 0 /\ objects'[j].wasActive = FALSE
         /\ \A n \in DOMAIN output' :
               output'[n].id = objects'[j].id => output'[n].muted = objects'[j].baseline
<1> DEFINE K == Len(Kept(dt))
<1>1. /\ DOMAIN output' = 1 .. S /\ shown \in [1 .. S -> DOMAIN objects']
      /\ \A n \in 1 .. S :
            /\ output'[n] = Shown(shown[n]) /\ objects'[shown[n]].state = "ACTIVE"
            /\ shown[n] > K \/ \E k \in DOMAIN dets : a[k] = shown[n]
  BY DEF CycleStep, OutputStep
<1>2. \A i : Shown(i).id = objects'[i].id /\ Shown(i).muted = objects'[i].baseline
  BY DEF Shown
<1>3. \A i, k \in DOMAIN objects' : objects'[i].id = objects'[k].id => i = k
  <2>1. /\ \A i, k \in DOMAIN objects' : i < k => objects'[i].id < objects'[k].id
        /\ objects' \in Seq((LogicalObject)')
    BY DEF Sound, OneOwner
  <2>2. \A i \in DOMAIN objects' : i \in Nat /\ objects'[i].id \in Nat
    <3>1. \A i \in DOMAIN objects' : i \in Nat /\ objects'[i] \in (LogicalObject)'
      BY <2>1
    <3> QED BY <3>1 DEF LogicalObject
  <2> QED BY <2>1, <2>2
<1>4. PICK m \in 1 .. S : output'[m].id = objects'[j].id
  BY <1>1 DEF SeenNow
<1>5. \A n \in 1 .. S : output'[n].id = objects'[j].id => shown[n] = j
  BY <1>1, <1>2, <1>3
<1>6. shown[m] = j
  BY <1>4, <1>5
<1>7. objects'[j].state = "ACTIVE" /\ (j > K \/ \E k \in DOMAIN dets : a[k] = j)
  BY <1>1, <1>6
<1>8. \A n \in DOMAIN output' :
               output'[n].id = objects'[j].id => output'[n].muted = objects'[j].baseline
  BY <1>1, <1>2, <1>5
<1>9. K \in Nat /\ N \in Nat /\ DOMAIN objects' = 1 .. K + N
  <2>1. K \in Nat
    BY KeptIs DEF KeptOK, Sound
  <2> QED BY <2>1 DEF CycleStep, ObjectsStep
<1> HIDE DEF K
<1>10. CASE j > K
  <2>1. j - K \in 1 .. N /\ K + (j - K) = j
    BY <1>9, <1>10
  <2>2. BornAfter(j - K, news, dets, dt)
    BY <2>1, BornAfterIs DEF CycleStep
  <2>3. objects'[j].unseen = 0 /\ objects'[j].wasActive = FALSE
    BY <2>1, <2>2 DEF BornAfter, K
  <2> QED BY <1>7, <1>8, <2>3
<1>11. CASE j <= K
  <2>1. j \in 1 .. K
    BY <1>9, <1>11
  <2>2. Fate(j, a, dets, dt)
    BY <2>1, FateIs DEF CycleStep, K
  <2>3. objects'[j].unseen = 0 /\ objects'[j].wasActive = FALSE
    BY <1>7, <2>2 DEF Fate
  <2> QED BY <1>7, <1>8, <2>3
<1>12. j > K \/ j <= K
  BY <1>9
<1> QED BY <1>10, <1>11, <1>12

(* The objects keep their part of the invariant ...                         *)
LEMMA CycleObjects ==
  ASSUME ChainSound, Sound', NEW dets \in Inputs, NEW dt \in Steps,
         NEW a, NEW news, NEW N, NEW shown, NEW S, CycleStep(a, news, N, shown, S, dets, dt),
         NEW j \in DOMAIN objects'
  PROVE  ObjectOK(objects[j])'
<1> DEFINE K == Len(Kept(dt))
           kept == Kept(dt)
           from == From(dt)
           n == objects'[j]
<1>1. Sound /\ dt \in Nat /\ Mute \in Nat
  BY StabilizerAssumption DEF ChainSound
<1>2. /\ K \in Nat /\ from \in [1 .. K -> KeptAt(dt)] /\ DOMAIN kept = 1 .. K
      /\ \A i \in 1 .. K : kept[i] = objects[from[i]]
  BY <1>1, KeptIs DEF KeptOK, Sound
<1>3. \A i \in 1 .. K : from[i] \in DOMAIN objects
  BY <1>2 DEF KeptAt
<1>4. N \in Nat /\ DOMAIN objects' = 1 .. K + N
  BY DEF CycleStep, ObjectsStep
<1>5. /\ boot' \in 0 .. Mute /\ boot' # Off
      /\ boot = Mute => boot' = Mute
      /\ boot # Off /\ boot' < Mute => boot \in Nat /\ boot < Mute /\ boot' = boot + dt
  BY <1>1, BootIs DEF CycleStep
<1>6. n.id \in SeenNow => n.state = "ACTIVE"
  BY <1>1, ImageIs
<1>7. DOMAIN states' \subseteq DOMAIN states \cup SeenNow
  BY DEF CycleStep, RegionStep
<1> DEFINE Goal == /\ n.id \in DOMAIN states' => n.state \in {"ACTIVE", "EXITED"} \/ n.wasActive
                   /\ n.state \in {"ACTIVE", "CANDIDATE"} => ~n.wasActive
                   /\ n.late => ~n.baseline /\ boot' = Mute
                   /\ boot' # Off /\ (boot' < Mute => n.age <= boot')
<1> SUFFICES Goal
  BY DEF ObjectOK
<1> HIDE DEF K, kept, from, n
<1>8. CASE j \in 1 .. K
  <2> DEFINE o == kept[j]
             known == o.state = "ACTIVE" \/ o.wasActive
  <2>1. KeptAfter(j, a, dets, dt) /\ Fate(j, a, dets, dt)
    BY <1>1, <1>8, KeptAfterIs, FateIs DEF CycleStep, K
  <2>2. o = objects[from[j]] /\ from[j] \in DOMAIN objects
    BY <1>2, <1>3, <1>8
  <2>3. ObjectOK(o) /\ o \in LogicalObject
    BY <2>2 DEF ChainSound, Sound
  <2> HIDE DEF o
  <2>4. /\ n.id = o.id /\ n.late = o.late /\ n.age = Held(o.age + dt, MuteOrStable)
    BY <2>1 DEF KeptAfter, n, o, kept
  <2>5. /\ o.id \in DOMAIN states => o.state \in {"ACTIVE", "EXITED"} \/ o.wasActive
        /\ o.state \in {"ACTIVE", "CANDIDATE"} => ~o.wasActive
        /\ o.late => ~o.baseline /\ boot = Mute
        /\ boot # Off /\ (boot < Mute => o.age <= boot)
    BY <2>3 DEF ObjectOK
  <2>6. boot' < Mute => n.age <= boot'
    <3>1. o.age \in Nat /\ MuteOrStable \in Nat
      BY <2>3, MuteOrStableIs DEF LogicalObject
    <3>2. o.age + dt \in Nat
      BY <1>1, <3>1
    <3>3. n.age <= o.age + dt /\ n.age \in Nat
      BY <2>4, <3>1, <3>2, HeldIs
    <3> QED BY <1>1, <1>5, <2>5, <3>1, <3>3
  <2>7. IsBaseline(n.age) => boot' < Mute
    BY DEF IsBaseline
  <2>8. n.late => boot' = Mute /\ ~IsBaseline(n.age) /\ ~o.baseline
    BY <1>1, <1>5, <2>4, <2>5, <2>7
  <2>9. CASE /\ n.state \in {"LOST_PENDING", "EXITED"} /\ (o.state = "EXITED" => n.state = "EXITED")
             /\ (n.wasActive <=> known) /\ n.baseline = o.baseline
    <3>1. n.id \in DOMAIN states' => n.state \in {"ACTIVE", "EXITED"} \/ n.wasActive
      BY <1>6, <1>7, <2>4, <2>5, <2>9
    <3>2. n.late => ~n.baseline /\ boot' = Mute
      BY <2>8, <2>9
    <3>3. n.state \in {"ACTIVE", "CANDIDATE"} => ~n.wasActive
      BY <2>9
    <3> QED BY <1>5, <2>6, <3>1, <3>2, <3>3
  <2>10. CASE /\ \E k \in DOMAIN dets : a[k] = j
              /\ n.state \in {"ACTIVE", "CANDIDATE"} /\ (known => n.state = "ACTIVE")
              /\ n.wasActive = FALSE
              /\ IF n.state = "ACTIVE" /\ ~known THEN n.baseline = IsBaseline(n.age)
                 ELSE n.baseline = o.baseline
    <3>1. PICK k \in DOMAIN dets : a[k] = j
      BY <2>10
    <3>2. Live(o, dt)
      BY <1>2, <1>8, <3>1 DEF CycleStep, AssignmentOK, o, kept
    <3>3. o.state # "EXITED"
      BY <3>2 DEF Live
    <3>4. n.id \in DOMAIN states' => n.state \in {"ACTIVE", "EXITED"} \/ n.wasActive
      BY <1>6, <1>7, <2>4, <2>5, <2>10, <3>3
    <3>5. n.late => ~n.baseline
      BY <2>8, <2>10
    <3>6. n.state \in {"ACTIVE", "CANDIDATE"} => ~n.wasActive
      BY <2>10
    <3> QED BY <1>5, <2>6, <2>8, <3>4, <3>5, <3>6
  <2> HIDE DEF Goal, known
  <2> QED BY <2>1, <2>9, <2>10 DEF Fate, n, o, kept, known
<1>9. CASE j \notin 1 .. K
  <2>1. j - K \in 1 .. N /\ K + (j - K) = j
    BY <1>2, <1>4, <1>9
  <2>2. BornAfter(j - K, news, dets, dt)
    BY <1>1, <2>1, BornAfterIs DEF CycleStep
  <2>3. /\ n.id = nextId + (j - K) - 1 /\ n.age = Held(0, MuteOrStable) /\ (n.late <=> boot' >= Mute)
        /\ n.wasActive = FALSE
        /\ n.baseline = IF n.state = "ACTIVE" THEN IsBaseline(n.age) ELSE FALSE
    BY <2>1, <2>2 DEF BornAfter, n, K
  <2>4. n.id \notin DOMAIN states
    <3>1. n.id \in Nat /\ n.id >= nextId /\ nextId \in Nat
      BY <1>1, <2>1, <2>3 DEF Sound
    <3>2. \A i \in DOMAIN states : i \in Nat /\ i < nextId
      BY DEF ChainSound
    <3> QED BY <3>1, <3>2
  <2>5. n.id \in DOMAIN states' => n.state \in {"ACTIVE", "EXITED"} \/ n.wasActive
    BY <1>6, <1>7, <2>4
  <2>6. n.age = 0
    BY <2>3, MuteOrStableIs DEF Held
  <2>7. n.late => ~n.baseline /\ boot' = Mute
    <3>1. boot' >= Mute => boot' = Mute /\ ~(boot' < Mute)
      BY <1>1, <1>5
    <3>2. IsBaseline(n.age) => boot' < Mute
      BY DEF IsBaseline
    <3> QED BY <2>3, <3>1, <3>2
  <2>8. boot' < Mute => n.age <= boot'
    BY <1>5, <2>6
  <2>9. n.state \in {"ACTIVE", "CANDIDATE"} => ~n.wasActive
    BY <2>3
  <2> QED BY <1>5, <2>5, <2>7, <2>8, <2>9
<1> QED BY <1>8, <1>9

(* What the monitor keeps of an identity it saw, and of one it did not.     *)
LEMMA RegionSeenIs ==
  ASSUME \A i \in DOMAIN states : StateIs(states[i]), NEW d, d.inside \in BOOLEAN, NEW dt \in Nat
  PROVE  Region!Seen(d, dt) \in Region!TrackState /\ Region!Seen(d, dt).since = 0
<1>1. CASE Region!Stays(d)
  <2> DEFINE o == states[d.id]
             told == o.dwelled \/ Region!Dwells(d, dt)
             visible == Region!Visible(o, dt)
             s == [o EXCEPT !.missing = FALSE, !.since = 0, !.dwelled = told, !.visible = visible]
  <2>1. o \in Region!TrackState
    BY <1>1 DEF Region!Stays, Region!Inside, Region!Known, StateIs
  <2>2. Region!Seen(d, dt) = s
    BY <1>1 DEF Region!Seen
  <2>3. visible \in Nat
    BY <2>1, LifecycleAssumption DEF Region!Visible, Region!TrackState
  <2>4. o.dwelled \in BOOLEAN /\ Region!Dwells(d, dt) \in BOOLEAN
    BY <2>1 DEF Region!Dwells, Region!Stays, Region!TrackState
  <2>5. told \in BOOLEAN
    BY <2>4
  <2> HIDE DEF o, told, visible
  <2>6. s \in Region!TrackState
    BY <2>1, <2>3, <2>5 DEF Region!TrackState
  <2>7. s.since = 0
    BY <2>1 DEF Region!TrackState
  <2> HIDE DEF s
  <2> QED BY <2>2, <2>6, <2>7
<1>2. CASE ~Region!Stays(d)
  BY <1>2 DEF Region!Seen, Region!Fresh, Region!TrackState
<1> QED BY <1>1, <1>2

(* ... and of one that is not in the image, whose time runs on.             *)
LEMMA RegionUnseenIs ==
  ASSUME NEW s, StateIs(s), NEW dt \in Nat, ~Region!TimedOut(s, dt)
  PROVE  /\ StateIs(Region!Unseen(s, dt)) /\ Region!Unseen(s, dt).inside = s.inside
         /\ s.inside => /\ Region!Unseen(s, dt).since = s.since + dt
                        /\ s.since + dt \in Nat /\ s.since + dt < RegionLost
<1>1. s \in Region!TrackState /\ s.since \in Nat
  BY DEF StateIs, Region!TrackState
<1>2. CASE s.inside
  <2> DEFINE t == [s EXCEPT !.missing = TRUE, !.since = @ + dt]
  <2>1. s.since + dt \in Nat /\ s.since + dt < RegionLost
    BY <1>1, <1>2, LifecycleAssumption DEF Region!TimedOut
  <2>2. Region!Unseen(s, dt) = t
    BY <1>2 DEF Region!Unseen
  <2>3. t \in Region!TrackState /\ t.since = s.since + dt /\ t.inside = s.inside
    BY <1>1, <2>1 DEF Region!TrackState
  <2> HIDE DEF t
  <2> QED BY <2>1, <2>2, <2>3 DEF StateIs
<1>3. CASE ~s.inside
  BY <1>3 DEF Region!Unseen, StateIs
<1> QED BY <1>2, <1>3

(* ... and the states theirs.                                               *)
LEMMA CycleStates ==
  ASSUME ChainSound, Sound', NEW dets \in Inputs, NEW dt \in Steps,
         NEW a, NEW news, NEW N, NEW shown, NEW S, CycleStep(a, news, N, shown, S, dets, dt),
         NEW i \in DOMAIN states'
  PROVE  StateIs(states[i])' /\ (states'[i].inside => Occupied(i)')
<1> DEFINE K == Len(Kept(dt))
           kept == Kept(dt)
           from == From(dt)
<1>1. Sound /\ dt \in Nat /\ \A x \in DOMAIN states : StateIs(states[x])
  BY StabilizerAssumption DEF ChainSound
<1>2. /\ K \in Nat /\ from \in [1 .. K -> KeptAt(dt)] /\ DOMAIN kept = 1 .. K
      /\ \A x \in 1 .. K : kept[x] = objects[from[x]]
      /\ \A x \in KeptAt(dt) : \E y \in 1 .. K : from[y] = x
  BY <1>1, KeptIs DEF KeptOK, Sound
<1>3. N \in Nat /\ DOMAIN objects' = 1 .. K + N /\ 1 .. K \subseteq DOMAIN objects'
  BY <1>2 DEF CycleStep, ObjectsStep
<1>4. /\ DOMAIN output' = 1 .. S /\ shown \in [1 .. S -> DOMAIN objects']
      /\ \A m \in 1 .. S : output'[m] = Shown(shown[m]) /\ objects'[shown[m]].state = "ACTIVE"
      /\ \A k \in DOMAIN dets : a[k] # 0 /\ objects'[a[k]].state = "ACTIVE"
           => \E m \in 1 .. S : shown[m] = a[k]
  BY DEF CycleStep, OutputStep
<1>5. /\ DOMAIN states' = (DOMAIN states \cup SeenNow) \ LostNow(dt)
      /\ \A m \in DOMAIN output' : states'[output'[m].id] = Region!Seen(RegionInput[m], dt)
      /\ \A x \in (DOMAIN states \ SeenNow) \ LostNow(dt) : states'[x] = Region!Unseen(states[x], dt)
  BY DEF CycleStep, RegionStep
<1>6. \A x : Shown(x).id = objects'[x].id
  BY DEF Shown
<1> HIDE DEF K, kept, from
<1>7. CASE i \in SeenNow
  <2>1. PICK m \in DOMAIN output' : output'[m].id = i
    BY <1>7 DEF SeenNow
  <2>2. RegionInput[m].inside \in BOOLEAN
    <3>1. RegionInput[m] = [id |-> output'[m].id, inside |-> output'[m].place \in InRoi,
                            muted |-> output'[m].muted]
      BY DEF RegionInput
    <3>2. RegionInput[m].inside = (output'[m].place \in InRoi)
      BY <3>1
    <3> QED BY <3>2
  <2>3. states'[i] \in Region!TrackState /\ states'[i].since = 0
    BY <1>1, <1>5, <2>1, <2>2, RegionSeenIs
  <2> DEFINE j == shown[m]
  <2>4. j \in DOMAIN objects' /\ objects'[j].id = i
    BY <1>4, <1>6, <2>1
  <2> HIDE DEF j
  <2>5. objects'[j].state = "ACTIVE" /\ objects'[j].unseen = 0 /\ objects'[j].wasActive = FALSE
    BY <1>1, <1>7, <2>4, ImageIs
  <2>6. Occupied(i)'
    BY <2>3, <2>4, <2>5 DEF Occupied
  <2>7. StateIs(states[i])'
    BY <2>3, LifecycleAssumption DEF StateIs, Region!TrackState
  <2> QED BY <2>6, <2>7
<1>8. CASE i \notin SeenNow
  <2>1. /\ i \in DOMAIN states /\ states'[i] = Region!Unseen(states[i], dt)
        /\ ~Region!TimedOut(states[i], dt)
    BY <1>5, <1>8 DEF LostNow
  <2>2. /\ StateIs(Region!Unseen(states[i], dt)) /\ states'[i].inside = states[i].inside
        /\ states[i].inside => /\ states'[i].since = states[i].since + dt
                               /\ states[i].since + dt \in Nat /\ states[i].since + dt < RegionLost
    BY <1>1, <2>1, RegionUnseenIs
  <2>3. StateIs(states[i])'
    BY <2>1, <2>2 DEF StateIs, Region!TrackState
  <2>4. ASSUME states'[i].inside PROVE Occupied(i)'
    <3>1. states[i].inside /\ Occupied(i)
      BY <2>1, <2>2, <2>4 DEF ChainSound
    <3>2. PICK p \in DOMAIN objects :
            /\ objects[p].id = i /\ objects[p].state \in {"ACTIVE", "LOST_PENDING"}
            /\ objects[p].wasActive <=> objects[p].state = "LOST_PENDING"
            /\ objects[p].unseen = states[i].since
      BY <3>1 DEF Occupied
    <3>3. p \in KeptAt(dt)
      BY <3>2 DEF KeptAt, Expired
    <3>4. PICK j \in 1 .. K : from[j] = p
      BY <1>2, <3>3
    <3> DEFINE o == kept[j]
               n == objects'[j]
    <3>5. o = objects[p]
      BY <1>2, <3>4
    <3>6. KeptAfter(j, a, dets, dt) /\ Fate(j, a, dets, dt)
      BY <1>1, KeptAfterIs, FateIs DEF CycleStep, K
    <3>7. n.id = i /\ j \in DOMAIN objects'
      BY <1>3, <3>2, <3>5, <3>6 DEF KeptAfter, kept
    <3>8. ~(n.state = "ACTIVE" /\ \E k \in DOMAIN dets : a[k] = j)
      <4> SUFFICES ASSUME n.state = "ACTIVE", NEW k \in DOMAIN dets, a[k] = j PROVE FALSE
        OBVIOUS
      <4>1. PICK m \in 1 .. S : shown[m] = j
        BY <1>2, <1>4
      <4>2. output'[m].id = i
        BY <1>4, <1>6, <3>7, <4>1
      <4> QED BY <1>4, <1>8, <4>2 DEF SeenNow
    <3> DEFINE known == o.state = "ACTIVE" \/ o.wasActive
    <3>9. known /\ o.state # "EXITED" /\ o.unseen = states[i].since
      BY <3>2, <3>5
    <3> HIDE DEF o, n
    <3>10. /\ n.state \in {"LOST_PENDING", "EXITED"}
           /\ n.state = "EXITED" /\ o.state # "EXITED" => n.unseen >= MaxLost
           /\ n.unseen = Held(o.unseen + dt, Forgotten)
           /\ n.wasActive <=> known
      <4> HIDE DEF known
      <4>1. ~(/\ \E k \in DOMAIN dets : a[k] = j
              /\ known => n.state = "ACTIVE")
        BY <3>8, <3>9
      <4> QED BY <3>6, <4>1 DEF Fate, o, n, kept, known
    <3>11. Forgotten \in Nat /\ RegionLost <= MaxLost /\ MaxLost <= Forgotten /\ MaxLost \in Nat
           /\ RegionLost \in Nat
      BY StabilizerAssumption, LifecycleAssumption DEF Forgotten
    <3>12. n.unseen = states'[i].since /\ n.unseen < MaxLost /\ n.unseen \in Nat
      BY <2>2, <3>1, <3>9, <3>10, <3>11 DEF Held
    <3>13. n.state = "LOST_PENDING"
      BY <3>9, <3>10, <3>11, <3>12
    <3> QED BY <3>7, <3>9, <3>10, <3>12, <3>13 DEF Occupied, n
  <2> QED BY <2>3, <2>4
<1> QED BY <1>7, <1>8

(* Who is in the image: finitely many, each with the id of some object.     *)
LEMMA ImageIds ==
  ASSUME Sound, NEW a, NEW shown, NEW S, NEW dets, NEW dt, OutputStep(a, shown, S, dets, dt)
  PROVE  IsFiniteSet(SeenNow) /\ \A i \in SeenNow : \E j \in DOMAIN objects' : objects'[j].id = i
<1>1. /\ S \in Nat /\ DOMAIN output' = 1 .. S /\ shown \in [1 .. S -> DOMAIN objects']
      /\ \A m \in 1 .. S : output'[m] = Shown(shown[m])
  BY DEF OutputStep
<1>2. \A i : Shown(i).id = objects'[i].id
  BY DEF Shown
<1>3. IsFiniteSet(SeenNow)
  <2> DEFINE ids == [k \in 1 .. S |-> output'[k].id]
             T == {output'[k].id : k \in 1 .. S}
  <2>1. ids \in Surjection(1 .. S, T)
    BY DEF Surjection
  <2>2. SeenNow = T
    BY <1>1 DEF SeenNow
  <2>3. IsFiniteSet(1 .. S)
    BY <1>1, NumbersUpTo
  <2> HIDE DEF ids, T
  <2> QED BY <2>1, <2>2, <2>3, FS_Surjection
<1>4. ASSUME NEW i \in SeenNow PROVE \E j \in DOMAIN objects' : objects'[j].id = i
  <2>1. PICK m \in 1 .. S : output'[m].id = i
    BY <1>1, <1>4 DEF SeenNow
  <2> QED BY <1>1, <1>2, <2>1
<1> QED BY <1>3, <1>4

(* The invariant of the chain is inductive.                                 *)
LEMMA ChainInductive ==
  /\ ChainInit => ChainSound
  /\ ChainSound /\ [ChainNext]_chainVars => ChainSound'
<1>1. ChainInit => ChainSound
  <2> SUFFICES ASSUME ChainInit PROVE ChainSound
    OBVIOUS
  <2>1. Sound /\ states = <<>> /\ objects = <<>>
    BY SoundInductive DEF ChainInit, StabilizerInit, Region!RegionInit
  <2>2. DOMAIN states = {} /\ DOMAIN objects = {}
    BY <2>1
  <2> QED BY <2>1, <2>2, FS_EmptySet DEF ChainSound
<1>2. ASSUME ChainSound, NEW dets \in Inputs, NEW dt \in Steps, Cycle(dets, dt)
      PROVE  ChainSound'
  <2>1. Sound' /\ \E a, news, N, shown, S : CycleStep(a, news, N, shown, S, dets, dt)
    BY <1>2, CycleIs
  <2>2. PICK a, news, N, shown, S : CycleStep(a, news, N, shown, S, dets, dt)
    BY <2>1
  <2>3. Sound
    BY <1>2 DEF ChainSound
  <2>4. IsFiniteSet(SeenNow) /\ \A i \in SeenNow : \E j \in DOMAIN objects' : objects'[j].id = i
    BY <2>2, <2>3, ImageIds DEF CycleStep
  <2>5. DOMAIN states' \subseteq DOMAIN states \cup SeenNow
    BY <2>2 DEF CycleStep, RegionStep
  <2>6. IsFiniteSet(DOMAIN states')
    <3>1. IsFiniteSet(DOMAIN states)
      BY <1>2 DEF ChainSound
    <3>2. IsFiniteSet(DOMAIN states \cup SeenNow)
      BY <2>4, <3>1, FS_Union
    <3> QED BY <2>5, <3>2, FS_Subset
  <2>7. N \in Nat /\ nextId' = nextId + N /\ nextId \in Nat /\ nextId' \in Nat
    BY <2>1, <2>2, <2>3 DEF CycleStep, ObjectsStep, Sound
  <2>8. ASSUME NEW i \in DOMAIN states' PROVE i \in Nat /\ i < nextId'
    <3>1. CASE i \in DOMAIN states
      BY <1>2, <2>7, <3>1 DEF ChainSound
    <3>2. CASE i \in SeenNow
      <4>1. PICK j \in DOMAIN objects' : objects'[j].id = i
        BY <2>4, <3>2
      <4>2. objects'[j] \in (LogicalObject)' /\ objects'[j].id < nextId'
        BY <2>1 DEF Sound
      <4> QED BY <4>1, <4>2 DEF LogicalObject
    <3> QED BY <2>5, <3>1, <3>2
  <2>9. \A i \in DOMAIN states' : StateIs(states[i])' /\ (states'[i].inside => Occupied(i)')
    BY <1>2, <2>1, <2>2, CycleStates
  <2>10. \A j \in DOMAIN objects' : ObjectOK(objects[j])'
    BY <1>2, <2>1, <2>2, CycleObjects
  <2> QED BY <2>1, <2>6, <2>8, <2>9, <2>10 DEF ChainSound
<1>3. ASSUME ChainSound, UNCHANGED chainVars PROVE ChainSound'
  <2>1. /\ states' = states /\ objects' = objects /\ nextId' = nextId /\ boot' = boot
        /\ UNCHANGED stabilizerVars
    BY <1>3 DEF chainVars, stabilizerVars
  <2>2. Sound'
    BY <1>3, <2>1, SoundInductive DEF ChainSound
  <2>3. \A i : Occupied(i) => Occupied(i)'
    BY <2>1 DEF Occupied
  <2>4. \A j : ObjectOK(objects[j]) => ObjectOK(objects[j])'
    BY <2>1 DEF ObjectOK
  <2>5. \A i : StateIs(states[i]) => StateIs(states[i])'
    BY <2>1 DEF StateIs
  <2> QED BY <1>3, <2>1, <2>2, <2>3, <2>4, <2>5 DEF ChainSound
<1> QED BY <1>1, <1>2, <1>3 DEF ChainNext

(* Whoever the monitor believes to occupy the region is an identity that    *)
(* the stabilizer still keeps: ACTIVE, or lost after having been ACTIVE; an *)
(* object does not exit in SemanticStabilizer::update and stay in the       *)
(* region of RegionMonitor::update.                                         *)
THEOREM OccupantsAlive == ChainSpec => []OccupantsHaveIdentity
<1>1. ChainSound => OccupantsHaveIdentity
  BY DEF ChainSound, Occupied, OccupantsHaveIdentity
<1> QED BY <1>1, ChainInductive, PTL DEF ChainSpec

(* Who came after the bootstrap window does not enter the region unreported ... *)
LEMMA LateAreReported ==
  ASSUME ChainSound, ChainSound', NEW dets \in Inputs, NEW dt \in Steps,
         NEW a, NEW news, NEW N, NEW shown, NEW S, CycleStep(a, news, N, shown, S, dets, dt),
         NEW i \in DOMAIN states', states'[i].inside, ~Region!Inside(i),
         NEW j \in DOMAIN objects', objects'[j].id = i, objects'[j].late
  PROVE  i \in Reported("ENTER")
<1>1. Sound /\ Sound' /\ dt \in Nat
  BY StabilizerAssumption DEF ChainSound
<1>2. RegionStep(dt)
  BY DEF CycleStep
<1>3. i \in SeenNow
  <2> SUFFICES ASSUME i \notin SeenNow PROVE FALSE
    OBVIOUS
  <2>1. /\ i \in DOMAIN states /\ states'[i] = Region!Unseen(states[i], dt)
        /\ ~Region!TimedOut(states[i], dt)
    BY <1>2 DEF LostNow, RegionStep
  <2>2. states'[i].inside = states[i].inside
    <3>1. StateIs(states[i])
      BY <2>1 DEF ChainSound
    <3>2. Region!Unseen(states[i], dt).inside = states[i].inside
      BY <1>1, <2>1, <3>1, RegionUnseenIs
    <3> QED BY <2>1, <3>2
  <2> QED BY <2>1, <2>2 DEF Region!Inside, Region!Known
<1>4. PICK m \in DOMAIN output' : output'[m].id = i
  BY <1>3 DEF SeenNow
<1> DEFINE d == RegionInput[m]
<1>5. d.id = i /\ d.muted = output'[m].muted
  BY <1>4 DEF RegionInput
<1>6. states'[i] = Region!Seen(d, dt)
  BY <1>2, <1>4 DEF RegionStep
<1> HIDE DEF d
<1>7. states'[i].inside = d.inside
  <2>1. ~Region!Stays(d)
    BY <1>5 DEF Region!Stays
  <2>2. Region!Seen(d, dt) = Region!Fresh(d.inside)
    BY <2>1 DEF Region!Seen
  <2>3. Region!Fresh(d.inside).inside = d.inside
    BY DEF Region!Fresh
  <2>4. states'[i] = Region!Fresh(d.inside)
    BY <1>6, <2>2
  <2> QED BY <2>3, <2>4, Zenon
<1>8. d.muted = objects'[j].baseline
  BY <1>1, <1>3, <1>4, <1>5, ImageIs
<1>9. ~objects'[j].baseline
  BY DEF ChainSound, ObjectOK
<1>10. Region!Enters(d)
  BY <1>5, <1>7, <1>8, <1>9 DEF Region!Enters
<1>11. NowEntered(i)
  BY <1>4, <1>10 DEF NowEntered, d
<1> QED BY <1>2, <1>11 DEF RegionStep

(* ... and what becomes ACTIVE while the window is open enters silently.    *)
LEMMA BaselineIsMuted ==
  ASSUME ChainSound, ChainSound', NEW dets \in Inputs, NEW dt \in Steps,
         NEW a, NEW news, NEW N, NEW shown, NEW S, CycleStep(a, news, N, shown, S, dets, dt),
         NEW j \in DOMAIN objects, objects[j].state = "CANDIDATE", boot' < Mute
  PROVE  objects[j].id \notin Reported("ENTER")
<1> DEFINE K == Len(Kept(dt))
           kept == Kept(dt)
           from == From(dt)
           id == objects[j].id
<1> SUFFICES ASSUME id \in Reported("ENTER") PROVE FALSE
  OBVIOUS
<1>1. Sound /\ Sound'
  BY DEF ChainSound
<1>2. PICK m \in DOMAIN output' : output'[m].id = id /\ Region!Enters(RegionInput[m])
  BY DEF CycleStep, RegionStep, NowEntered
<1>3. id \notin DOMAIN states /\ ~objects[j].wasActive
  BY DEF ChainSound, ObjectOK
<1>4. ~output'[m].muted
  <2> DEFINE d == RegionInput[m]
  <2>1. d.id = id /\ d.muted = output'[m].muted
    BY <1>2 DEF RegionInput
  <2>2. Region!Enters(d)
    BY <1>2
  <2> HIDE DEF d
  <2> QED BY <1>3, <2>1, <2>2 DEF Region!Enters, Region!Known
<1>5. PICK q \in 1 .. K : kept[q] = objects[j]
  <2>1. /\ \A x \in 1 .. K : kept[x] = objects[from[x]]
        /\ \A x \in KeptAt(dt) : \E y \in 1 .. K : from[y] = x
    BY <1>1, KeptIs DEF KeptOK, Sound
  <2>2. j \in KeptAt(dt)
    BY DEF KeptAt, Expired
  <2> QED BY <2>1, <2>2
<1>6. q \in DOMAIN objects'
  <2>1. K \in Nat
    BY <1>1, KeptIs DEF KeptOK, Sound
  <2>2. N \in Nat /\ DOMAIN objects' = 1 .. K + N
    BY DEF CycleStep, ObjectsStep
  <2> QED BY <2>1, <2>2
<1> DEFINE n == objects'[q]
<1>7. KeptAfter(q, a, dets, dt) /\ Fate(q, a, dets, dt)
  BY <1>1, KeptAfterIs, FateIs DEF CycleStep
<1>8. n.id = id
  BY <1>5, <1>7 DEF KeptAfter
<1>9. id \in SeenNow
  BY <1>2 DEF SeenNow
<1>10. n.state = "ACTIVE" /\ output'[m].muted = n.baseline
  BY <1>1, <1>2, <1>6, <1>8, <1>9, ImageIs
<1>11. ~(kept[q].state = "ACTIVE" \/ kept[q].wasActive)
  BY <1>3, <1>5
<1>12. n.baseline = IsBaseline(n.age)
  <2> HIDE DEF n
  <2>1. n.state \notin {"LOST_PENDING", "EXITED"}
    BY <1>10
  <2> QED BY <1>7, <1>10, <1>11, <2>1 DEF Fate, n
<1>13. n.age <= boot'
  BY <1>6 DEF ChainSound, ObjectOK
<1>14. n.age \in Nat /\ boot' \in {Off} \cup 0 .. Mute /\ boot' # Off /\ Mute \in Nat
  <2>1. n \in LogicalObject
    BY <1>7 DEF KeptAfter
  <2>2. n.age \in Nat
    BY <2>1, MuteOrStableIs DEF LogicalObject
  <2>3. boot' \in {Off} \cup 0 .. Mute
    BY <1>1 DEF Sound
  <2>4. boot' # Off
    BY <1>6 DEF ChainSound, ObjectOK
  <2> QED BY <2>2, <2>3, <2>4, StabilizerAssumption
<1> HIDE DEF n
<1>15. IsBaseline(n.age)
  BY <1>13, <1>14 DEF IsBaseline
<1> QED BY <1>4, <1>10, <1>12, <1>15

(* Silence is for the baseline only: the entry of an object first seen      *)
(* after the bootstrap window is reported, and that of a candidate that     *)
(* becomes ACTIVE within it is not (bootstrap_baseline of the stabilizer,   *)
(* suppress_enter of RegionMonitor::update).                                *)
THEOREM BaselineSilent == ChainSpec => BaselineIsSilent
<1> DEFINE Silent ==
             /\ \A i \in DOMAIN states' :
                  /\ states'[i].inside /\ ~Region!Inside(i)
                  /\ \E j \in DOMAIN objects' : objects'[j].id = i /\ objects'[j].late
                  => i \in Reported("ENTER")
             /\ \A j \in DOMAIN objects :
                  objects[j].state = "CANDIDATE" /\ boot' < Mute
                  => objects[j].id \notin Reported("ENTER")
<1>1. ASSUME ChainSound, ChainSound', NEW dets \in Inputs, NEW dt \in Steps, Cycle(dets, dt)
      PROVE  Silent
  <2>1. PICK a, news, N, shown, S : CycleStep(a, news, N, shown, S, dets, dt)
    BY <1>1, CycleIs
  <2>2. ASSUME NEW i \in DOMAIN states', states'[i].inside, ~Region!Inside(i),
               NEW j \in DOMAIN objects', objects'[j].id = i, objects'[j].late
        PROVE  i \in Reported("ENTER")
    BY <1>1, <2>1, <2>2, LateAreReported
  <2>3. ASSUME NEW j \in DOMAIN objects, objects[j].state = "CANDIDATE", boot' < Mute
        PROVE  objects[j].id \notin Reported("ENTER")
    BY <1>1, <2>1, <2>3, BaselineIsMuted
  <2> QED BY <2>2, <2>3
<1>2. ChainSound /\ ChainSound' /\ ChainNext => Silent
  BY <1>1 DEF ChainNext
<1> HIDE DEF Silent
<1>3. ChainSound /\ ChainSound' /\ [ChainNext]_chainVars => [Silent]_chainVars
  BY <1>2
<1>4. ChainSpec => [][Silent]_chainVars
  BY <1>3, ChainInductive, PTL DEF ChainSpec
<1> QED BY <1>4 DEF BaselineIsSilent, Silent

==============================================================================
