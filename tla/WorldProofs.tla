----------------------------- MODULE WorldProofs -----------------------------
(* Theorems about World, for any number of bodies and colliders, any growth   *)
(* of the vectors, and whether or not calls go on after carelessness.         *)
EXTENDS World, SequenceTheorems, TLAPS

-----------------------------------------------------------------------------
(* Vectors of slots.                                                          *)

LEMMA ResizedType ==
  ASSUME NEW S, NEW s \in Seq(S), NEW n \in Nat, NEW e \in S
  PROVE  /\ Resized(s, n, e) \in Seq(S)
         /\ DOMAIN Resized(s, n, e) = 1..n
         /\ \A i \in DOMAIN s : i \in 1..n => Resized(s, n, e)[i] = s[i]
<1>1. \A i \in DOMAIN s : s[i] \in S
  BY LenProperties, ElementOfSeq
<1>2. Resized(s, n, e) \in [1..n -> S]
  BY <1>1 DEF Resized
<1>3. Resized(s, n, e) \in Seq(S)
  BY <1>2, SeqDef
<1>. QED
  BY <1>2, <1>3 DEF Resized

LEMMA ReplacedType ==
  ASSUME NEW S, NEW s \in Seq(S), NEW i, NEW e \in S
  PROVE  /\ [s EXCEPT ![i] = e] \in Seq(S)
         /\ DOMAIN [s EXCEPT ![i] = e] = DOMAIN s
         /\ \A j \in DOMAIN s :
              [s EXCEPT ![i] = e][j] = IF j = i THEN e ELSE s[j]
<1>1. s \in [1..Len(s) -> S] /\ Len(s) \in Nat
  BY LenProperties
<1>2. [s EXCEPT ![i] = e] \in [1..Len(s) -> S]
  BY <1>1
<1>3. [s EXCEPT ![i] = e] \in Seq(S)
  BY <1>1, <1>2, SeqDef
<1>. QED
  BY <1>1, <1>3

LEMMA SlotTypes ==
  /\ NewBody \in Body
  /\ \A g \in Nat : EmptyCollider(g) \in Collider
  /\ \A v \in BOOLEAN, g \in Nat : [valid |-> v, gen |-> g] \in Body
  /\ \A v \in BOOLEAN, g \in Nat, b \in Ref, t \in BOOLEAN :
       [enabled |-> v, gen |-> g, body |-> b, trigger |-> t] \in Collider
BY DEF NewBody, EmptyCollider, Body, Collider, Ref

LEMMA SlotsOf ==
  ASSUME TypeOK
  PROVE  /\ Len(bodies) \in Nat /\ DOMAIN bodies = 1..Len(bodies)
         /\ Len(colliders) \in Nat /\ DOMAIN colliders = 1..Len(colliders)
         /\ phase # "off" => Len(bodies) # 0 /\ Len(colliders) # 0
         /\ \A i \in DOMAIN bodies : bodies[i] \in Body /\ RefTo(bodies, i) \in Ref
         /\ \A i \in DOMAIN colliders : /\ colliders[i] \in Collider
                                        /\ RefTo(colliders, i) \in Ref
<1>1. bodies \in Seq(Body) /\ colliders \in Seq(Collider)
  BY DEF TypeOK
<1>2. /\ Len(bodies) \in Nat /\ DOMAIN bodies = 1..Len(bodies)
      /\ Len(colliders) \in Nat /\ DOMAIN colliders = 1..Len(colliders)
      /\ \A i \in DOMAIN bodies : bodies[i] \in Body
      /\ \A i \in DOMAIN colliders : colliders[i] \in Collider
  BY <1>1, LenProperties, ElementOfSeq
<1>3. \A i \in DOMAIN bodies : RefTo(bodies, i) \in Ref
  BY <1>2 DEF RefTo, Ref, Body
<1>4. \A i \in DOMAIN colliders : RefTo(colliders, i) \in Ref
  BY <1>2 DEF RefTo, Ref, Collider
<1>5. phase # "off" => Len(bodies) # 0 /\ Len(colliders) # 0
  BY <1>1, EmptySeq DEF TypeOK
<1>. QED
  BY <1>2, <1>3, <1>4, <1>5

LEMMA DisabledType ==
  ASSUME TypeOK, NEW off
  PROVE  /\ Disabled(off) \in Seq(Collider)
         /\ DOMAIN Disabled(off) = DOMAIN colliders
         /\ \A i \in DOMAIN colliders :
              /\ Disabled(off)[i].gen = colliders[i].gen
              /\ Disabled(off)[i].body = colliders[i].body
              /\ Disabled(off)[i].trigger = colliders[i].trigger
              /\ Disabled(off)[i].enabled => colliders[i].enabled
<1>1. /\ Len(colliders) \in Nat /\ DOMAIN colliders = 1..Len(colliders)
      /\ \A i \in DOMAIN colliders : colliders[i] \in Collider
  BY SlotsOf
<1>2. \A i \in DOMAIN colliders :
        [enabled |-> colliders[i].enabled /\ i \notin off,
         gen |-> colliders[i].gen, body |-> colliders[i].body,
         trigger |-> colliders[i].trigger] \in Collider
  BY <1>1 DEF Collider
<1>3. Disabled(off) \in [1..Len(colliders) -> Collider]
  BY <1>1, <1>2 DEF Disabled
<1>4. Disabled(off) \in Seq(Collider)
  BY <1>1, <1>3, SeqDef
<1>. QED
  BY <1>4 DEF Disabled

-----------------------------------------------------------------------------
(* Types.                                                                     *)

LEMMA TypeInit == Init => TypeOK
BY EmptySeq DEF Init, TypeOK

LEMMA SlotIn ==
  ASSUME NEW S, NEW slots \in Seq(S), NEW i \in DOMAIN slots
  PROVE  slots[i] \in S
BY LenProperties, ElementOfSeq

LEMMA CreateBodyType ==
  ASSUME TypeOK, NEW i, NEW slots \in Seq(Body), i \in DOMAIN slots,
         CreateBodyAt(i, slots)
  PROVE  TypeOK'
<1>. DEFINE new == [valid |-> TRUE, gen |-> slots[i].gen]
<1>1. slots[i] \in Body
  BY SlotIn
<1>2. new \in Body
  BY <1>1 DEF Body
<1>3. [slots EXCEPT ![i] = new] \in Seq(Body)
  <2>. HIDE DEF new
  <2>. QED
    BY <1>2, ReplacedType
<1>4. bodies' # <<>>
  BY <1>1, ReplacedType DEF CreateBodyAt
<1>. QED
  BY <1>3, <1>4 DEF CreateBodyAt, MayCall, MayUpdate, TypeOK

LEMMA CreateColliderType ==
  ASSUME TypeOK, NEW i, NEW slots \in Seq(Collider), i \in DOMAIN slots,
         NEW b \in ValidBodies, CreateColliderAt(i, slots, b)
  PROVE  TypeOK'
<1>. DEFINE new == [enabled |-> TRUE, gen |-> slots[i].gen,
                    body |-> RefTo(bodies, b), trigger |-> slots[i].trigger]
<1>1. slots[i] \in Collider
  BY SlotIn
<1>2. RefTo(bodies, b) \in Ref
  BY SlotsOf DEF ValidBodies
<1>3. new \in Collider
  BY <1>1, <1>2 DEF Collider
<1>4. [slots EXCEPT ![i] = new] \in Seq(Collider)
  <2>. HIDE DEF new
  <2>. QED
    BY <1>3, ReplacedType
<1>5. colliders' # <<>>
  BY <1>1, ReplacedType DEF CreateColliderAt
<1>. QED
  BY <1>4, <1>5 DEF CreateColliderAt, MayCall, MayUpdate, TypeOK

LEMMA LargerBodies ==
  ASSUME TypeOK, phase # "off",
         NEW slots, slots = Resized(bodies, 2 * Len(bodies), NewBody)
  PROVE  /\ slots \in Seq(Body)
         /\ Len(bodies) + 1 \in DOMAIN slots
         /\ \A j \in DOMAIN bodies : j \in DOMAIN slots /\ slots[j] = bodies[j]
<1>1. /\ Len(bodies) \in Nat /\ Len(bodies) # 0
      /\ DOMAIN bodies = 1..Len(bodies) /\ bodies \in Seq(Body)
  BY SlotsOf DEF TypeOK
<1>2. 2 * Len(bodies) \in Nat /\ Len(bodies) + 1 \in 1..(2 * Len(bodies))
  BY <1>1
<1>3. \A j \in DOMAIN bodies : j \in 1..(2 * Len(bodies))
  BY <1>1
<1>4. slots \in Seq(Body)
  BY <1>1, <1>2, ResizedType, SlotTypes
<1>. QED
  BY <1>1, <1>2, <1>3, <1>4 DEF Resized

LEMMA LargerColliders ==
  ASSUME TypeOK, phase # "off",
         NEW slots, slots = Resized(colliders, 2 * Len(colliders), EmptyCollider(0))
  PROVE  /\ slots \in Seq(Collider)
         /\ Len(colliders) + 1 \in DOMAIN slots
         /\ \A j \in DOMAIN colliders : j \in DOMAIN slots /\ slots[j] = colliders[j]
         /\ \A j \in DOMAIN slots \ DOMAIN colliders : ~slots[j].enabled
<1>1. /\ Len(colliders) \in Nat /\ Len(colliders) # 0
      /\ DOMAIN colliders = 1..Len(colliders) /\ colliders \in Seq(Collider)
  BY SlotsOf DEF TypeOK
<1>2. 2 * Len(colliders) \in Nat /\ Len(colliders) + 1 \in 1..(2 * Len(colliders))
  BY <1>1
<1>3. \A j \in DOMAIN colliders : j \in 1..(2 * Len(colliders))
  BY <1>1
<1>4. EmptyCollider(0) \in Collider
  BY SlotTypes
<1>5. \A j \in DOMAIN slots \ DOMAIN colliders : ~slots[j].enabled
  BY DEF Resized, EmptyCollider
<1>6. slots \in Seq(Collider)
  BY <1>1, <1>2, <1>4, ResizedType
<1>. QED
  BY <1>1, <1>2, <1>3, <1>5, <1>6 DEF Resized

LEMMA InitWorldType == TypeOK /\ InitWorld => TypeOK'
<1>. SUFFICES ASSUME TypeOK, InitWorld PROVE TypeOK'
  OBVIOUS
<1>1. InitialSize \in Nat /\ InitialSize # 0 /\ 0 \in Nat
  BY WorldAssumption
<1>2. bodies \in Seq(Body) /\ colliders \in Seq(Collider)
  BY DEF TypeOK
<1>3. /\ bodies' \in Seq(Body) /\ DOMAIN bodies' = 1..InitialSize
      /\ colliders' \in Seq(Collider) /\ DOMAIN colliders' = 1..InitialSize
  BY <1>1, <1>2, ResizedType, SlotTypes DEF InitWorld
<1>4. bodies' # <<>> /\ colliders' # <<>>
  BY <1>1, <1>3
<1>. QED
  BY <1>3, <1>4 DEF InitWorld, MayCall, MayUpdate, TypeOK

LEMMA DestroyType ==
  /\ \A i \in DOMAIN bodies : TypeOK /\ DestroyBody(i) => TypeOK'
  /\ \A i \in DOMAIN colliders : TypeOK /\ DestroyCollider(i) => TypeOK'
<1>1. ASSUME TypeOK, NEW i \in DOMAIN bodies, DestroyBody(i) PROVE TypeOK'
  <2>. DEFINE new == [valid |-> FALSE, gen |-> bodies[i].gen + 1]
  <2>1. new \in Body
    BY <1>1, SlotsOf DEF Body
  <2>2. /\ [bodies EXCEPT ![i] = new] \in Seq(Body)
        /\ DOMAIN [bodies EXCEPT ![i] = new] = DOMAIN bodies
    <3>. HIDE DEF new
    <3>. QED
      BY <1>1, <2>1, ReplacedType DEF TypeOK
  <2>3. bodies' \in Seq(Body) /\ bodies' # <<>> /\ careless' \in BOOLEAN
    BY <1>1, <2>2 DEF DestroyBody, TypeOK
  <2>. QED
    BY <1>1, <2>3 DEF DestroyBody, MayCall, MayUpdate, TypeOK
<1>2. ASSUME TypeOK, NEW i \in DOMAIN colliders, DestroyCollider(i) PROVE TypeOK'
  <2>. DEFINE new == EmptyCollider(colliders[i].gen + 1)
  <2>1. colliders[i].gen + 1 \in Nat
    BY <1>2, SlotsOf DEF Collider
  <2>2. new \in Collider
    BY <2>1, SlotTypes
  <2>3. /\ [colliders EXCEPT ![i] = new] \in Seq(Collider)
        /\ DOMAIN [colliders EXCEPT ![i] = new] = DOMAIN colliders
    <3>. HIDE DEF new
    <3>. QED
      BY <1>2, <2>2, ReplacedType DEF TypeOK
  <2>4. /\ colliders' \in Seq(Collider) /\ colliders' # <<>>
        /\ careless' \in BOOLEAN
    BY <1>2, <2>3 DEF DestroyCollider, TypeOK
  <2>. QED
    BY <1>2, <2>4 DEF DestroyCollider, MayCall, MayUpdate, TypeOK
<1>. QED
  BY <1>1, <1>2

LEMMA FlagType ==
  ASSUME TypeOK, NEW i \in Enabled, Disable(i) \/ SetIsTrigger(i)
  PROVE  TypeOK'
<1>. DEFINE new == [enabled |-> colliders[i].enabled, gen |-> colliders[i].gen,
                    body |-> colliders[i].body, trigger |-> ~colliders[i].trigger]
<1>1. i \in DOMAIN colliders /\ colliders[i] \in Collider
  BY SlotsOf DEF Enabled
<1>2. new \in Collider
  BY <1>1 DEF Collider
<1>3. /\ [colliders EXCEPT ![i] = new] \in Seq(Collider)
      /\ DOMAIN [colliders EXCEPT ![i] = new] = DOMAIN colliders
  <2>. HIDE DEF new
  <2>. QED
    BY <1>2, ReplacedType DEF TypeOK
<1>4. Disabled({i}) \in Seq(Collider) /\ DOMAIN Disabled({i}) = DOMAIN colliders
  BY DisabledType
<1>5. colliders' \in Seq(Collider) /\ DOMAIN colliders' = DOMAIN colliders
  <2>1. colliders' = Disabled({i}) \/ colliders' = [colliders EXCEPT ![i] = new]
    BY DEF Disable, SetIsTrigger
  <2>. HIDE DEF new
  <2>. QED
    BY <1>3, <1>4, <2>1
<1>6. colliders' # <<>>
  BY <1>1, <1>5
<1>7. careless' \in BOOLEAN
  BY DEF Disable, SetIsTrigger, TypeOK
<1>. QED
  BY <1>5, <1>6, <1>7 DEF Disable, SetIsTrigger, MayCall, MayUpdate, TypeOK

LEMMA UpdateType ==
  ASSUME TypeOK, \/ BeginUpdate \/ StartExits \/ EndUpdate \/ NullReference
                 \/ \E pair \in left : Contact(pair)
  PROVE  TypeOK'
<1>1. CASE BeginUpdate
  <2>1. \A i \in Enabled : RefTo(colliders, i) \in Ref
    BY SlotsOf DEF Enabled
  <2>2. newPairs' \subseteq Pair
    BY <1>1, <2>1 DEF BeginUpdate, PairsOf, Pair
  <2>. QED
    BY <1>1, <2>2 DEF BeginUpdate, MayUpdate, TypeOK
<1>2. CASE StartExits
  BY <1>2 DEF StartExits, TypeOK
<1>3. CASE EndUpdate
  BY <1>3 DEF EndUpdate, TypeOK
<1>4. CASE NullReference
  BY <1>4 DEF NullReference, TypeOK
<1>5. ASSUME NEW pair \in left, Contact(pair) PROVE TypeOK'
  <2>1. /\ \/ UNCHANGED colliders
           \/ \E off \in SUBSET Slots(pair) : colliders' = Disabled(off)
        /\ left' \subseteq left
        /\ phase \in {"new", "ended"}
        /\ UNCHANGED <<bodies, colliderPairs, newPairs, phase, careless,
                       nullReference>>
    BY <1>5 DEF Contact, TriggerEnter, CollisionEnter, Stay, TriggerExit,
         CollisionExit, Handle
  <2>2. colliders' \in Seq(Collider) /\ DOMAIN colliders' = DOMAIN colliders
    BY <2>1, DisabledType DEF TypeOK
  <2>3. colliders # <<>> /\ DOMAIN colliders = 1..Len(colliders) /\ Len(colliders) # 0
    BY <2>1, SlotsOf DEF TypeOK
  <2>4. colliders' # <<>>
    BY <2>2, <2>3, SlotsOf
  <2>. QED
    BY <2>1, <2>2, <2>4 DEF TypeOK
<1>. QED
  BY <1>1, <1>2, <1>3, <1>4, <1>5

LEMMA TypeStep == TypeOK /\ [Next]_vars => TypeOK'
<1>. SUFFICES ASSUME TypeOK, [Next]_vars PROVE TypeOK'
  OBVIOUS
<1>1. CASE InitWorld
  BY <1>1, InitWorldType
<1>2. CASE Deinit
  BY <1>2, EmptySeq DEF Deinit, MayCall, MayUpdate, TypeOK
<1>3. CASE CreateBodyInFreeSlot
  BY <1>3, CreateBodyType DEF CreateBodyInFreeSlot, TypeOK
<1>4. CASE CreateBodyInLargerVector
  <2>. DEFINE slots == Resized(bodies, 2 * Len(bodies), NewBody)
  <2>1. CreateBodyAt(Len(bodies) + 1, slots) /\ phase # "off"
    BY <1>4 DEF CreateBodyInLargerVector, CreateBodyAt, MayCall, MayUpdate
  <2>2. slots \in Seq(Body) /\ Len(bodies) + 1 \in DOMAIN slots
    BY <2>1, LargerBodies
  <2>. HIDE DEF slots
  <2>. QED
    BY <2>1, <2>2, CreateBodyType
<1>5. CASE \E i \in DOMAIN bodies : DestroyBody(i)
  BY <1>5, DestroyType
<1>6. CASE \E b \in ValidBodies : CreateColliderInFreeSlot(b)
  BY <1>6, CreateColliderType DEF CreateColliderInFreeSlot, TypeOK
<1>7. CASE \E b \in ValidBodies : CreateColliderInLargerVector(b)
  <2>. DEFINE slots == Resized(colliders, 2 * Len(colliders), EmptyCollider(0))
  <2>1. PICK b \in ValidBodies : CreateColliderAt(Len(colliders) + 1, slots, b)
    BY <1>7 DEF CreateColliderInLargerVector
  <2>2. phase # "off"
    BY <2>1 DEF CreateColliderAt, MayCall, MayUpdate
  <2>3. slots \in Seq(Collider) /\ Len(colliders) + 1 \in DOMAIN slots
    BY <2>2, LargerColliders
  <2>. HIDE DEF slots
  <2>. QED
    BY <2>1, <2>3, CreateColliderType
<1>8. CASE \E i \in DOMAIN colliders : DestroyCollider(i)
  BY <1>8, DestroyType
<1>9. CASE \E i \in Enabled : Disable(i) \/ SetIsTrigger(i)
  BY <1>9, FlagType
<1>10. CASE \/ BeginUpdate \/ StartExits \/ EndUpdate \/ NullReference
            \/ \E pair \in left : Contact(pair)
  BY <1>10, UpdateType
<1>11. CASE UNCHANGED vars
  BY <1>11 DEF vars, TypeOK
<1>. QED
  BY <1>1, <1>2, <1>3, <1>4, <1>5, <1>6, <1>7, <1>8, <1>9, <1>10, <1>11 DEF Next

(* What the world calls of its listener and its slots agree with each other,  *)
(* in every behaviour.                                                        *)
THEOREM TypeCorrect == Spec => []TypeOK
BY TypeInit, TypeStep, PTL DEF Spec

-----------------------------------------------------------------------------
(* The inductive invariant.                                                   *)

(* What the listener has been told, in every phase.                           *)
ToldSoFar ==
  /\ phase \in {"off", "idle"} => DOMAIN told = colliderPairs
  /\ phase = "new" => DOMAIN told = colliderPairs \cup (newPairs \ left)
  /\ phase = "ended" => DOMAIN told = left \cup newPairs /\ left \cap newPairs = {}

Pairs == colliderPairs \cup newPairs
InPairs == UNION {Slots(pair) : pair \in Pairs}

PairsResolve == \A pair \in Pairs : \A ref \in pair : Resolves(colliders, ref)

BodiesResolve == \A i \in DOMAIN colliders :
  colliders[i].enabled \/ i \in InPairs => Resolves(bodies, colliders[i].body)

KindsKept == \A pair \in DOMAIN told : told[pair] <=> IsTrigger(pair)

Sound == PairsResolve /\ BodiesResolve /\ KindsKept

IInv == TypeOK /\ ToldSoFar /\ (~careless => Sound) /\ ReferencesResolve

LEMMA InitInv == Init => IInv
<1>. SUFFICES ASSUME Init PROVE IInv
  OBVIOUS
<1>1. TypeOK
  BY TypeInit
<1>2. DOMAIN told = {} /\ DOMAIN colliders = {} /\ Pairs = {} /\ phase = "off"
  BY DEF Init, Pairs
<1>3. ToldSoFar
  BY <1>2 DEF Init, ToldSoFar
<1>4. Sound
  BY <1>2 DEF Sound, PairsResolve, BodiesResolve, KindsKept
<1>. QED
  BY <1>1, <1>3, <1>4 DEF IInv, Init, ReferencesResolve

LEMMA ToldStep == TypeOK /\ ToldSoFar /\ [Next]_vars => ToldSoFar'
<1>. SUFFICES ASSUME TypeOK, ToldSoFar, [Next]_vars PROVE ToldSoFar'
  OBVIOUS
<1>1. CASE InitWorld
  BY <1>1 DEF InitWorld, MayCall, MayUpdate, ToldSoFar
<1>2. CASE Deinit
  BY <1>2 DEF Deinit, ToldSoFar
<1>3. CASE UNCHANGED <<colliderPairs, newPairs, left, phase, told>>
  BY <1>3 DEF ToldSoFar
<1>4. CASE BeginUpdate
  BY <1>4 DEF BeginUpdate, MayUpdate, TypeOK, ToldSoFar
<1>5. CASE StartExits
  BY <1>5 DEF StartExits, ToldSoFar
<1>6. CASE EndUpdate
  BY <1>6 DEF EndUpdate, ToldSoFar
<1>7. ASSUME NEW pair \in left, Contact(pair) PROVE ToldSoFar'
  <2>1. /\ left' = left \ {pair} /\ phase' = phase
        /\ colliderPairs' = colliderPairs /\ newPairs' = newPairs
    BY <1>7 DEF Contact, TriggerEnter, CollisionEnter, Stay, TriggerExit,
         CollisionExit, Handle
  <2>2. CASE TriggerEnter(pair) \/ CollisionEnter(pair)
    <3>1. phase = "new" /\ DOMAIN told' = DOMAIN told \cup {pair}
      BY <2>2 DEF TriggerEnter, CollisionEnter, Handle, Began
    <3>. QED
      BY <2>1, <3>1 DEF ToldSoFar, TypeOK
  <2>3. CASE Stay(pair)
    BY <2>1, <2>3 DEF Stay, Handle, ToldSoFar
  <2>4. CASE TriggerExit(pair) \/ CollisionExit(pair)
    <3>1. phase = "ended" /\ DOMAIN told' = DOMAIN told \ {pair}
      BY <2>4 DEF TriggerExit, CollisionExit, Handle, Ended
    <3>. QED
      BY <2>1, <3>1 DEF ToldSoFar
  <2>. QED
    BY <1>7, <2>2, <2>3, <2>4 DEF Contact
<1>8. CASE UNCHANGED vars
  BY <1>8 DEF vars, ToldSoFar
<1>. QED
  BY <1>1, <1>2, <1>3, <1>4, <1>5, <1>6, <1>7, <1>8
     DEF Next, CreateBodyInFreeSlot, CreateBodyInLargerVector, CreateBodyAt,
         CreateColliderInFreeSlot, CreateColliderInLargerVector,
         CreateColliderAt, DestroyBody, DestroyCollider, Disable, SetIsTrigger,
         NullReference

(* What a pair of a sound world refers to.                                    *)
LEMMA PairSlots ==
  ASSUME TypeOK, PairsResolve
  PROVE  /\ \A i \in InPairs : i \in DOMAIN colliders
         /\ \A pair \in Pairs : \A i \in Slots(pair) : i \in InPairs
BY DEF PairsResolve, InPairs, Slots, Resolves

LEMMA ToldPairs ==
  ASSUME TypeOK, ToldSoFar
  PROVE  \A pair \in DOMAIN told : pair \in Pairs
BY DEF TypeOK, ToldSoFar, Pairs

(* A step that leaves the generations and flags of the pairs' colliders, and  *)
(* tells the listener of a contact what it is.                                *)
LEMMA SoundKept ==
  ASSUME PairsResolve, Pairs' \subseteq Pairs,
         \A i \in InPairs : /\ i \in DOMAIN colliders'
                            /\ colliders'[i].gen = colliders[i].gen
                            /\ colliders'[i].trigger = colliders[i].trigger,
         \A pair \in DOMAIN told' : pair \in Pairs /\ (told'[pair] <=> IsTrigger(pair)),
         \A i \in DOMAIN colliders' :
           colliders'[i].enabled \/ i \in InPairs => Resolves(bodies', colliders'[i].body)
  PROVE  Sound'
<1>1. \A pair \in Pairs : \A ref \in pair : ref.Index \in InPairs
  BY DEF InPairs, Slots
<1>2. PairsResolve'
  BY <1>1 DEF PairsResolve, Resolves
<1>3. InPairs' \subseteq InPairs
  BY DEF InPairs, Slots
<1>4. BodiesResolve'
  BY <1>3 DEF BodiesResolve
<1>5. ASSUME NEW pair \in Pairs PROVE IsTrigger(pair)' <=> IsTrigger(pair)
  <2>1. \A i \in Slots(pair) : colliders'[i].trigger = colliders[i].trigger
    BY DEF InPairs
  <2>. QED
    BY <2>1 DEF IsTrigger, Slots
<1>6. KindsKept'
  BY <1>5 DEF KindsKept
<1>. QED
  BY <1>2, <1>4, <1>6 DEF Sound

(* Between updates, with the listener's contacts as they are.                 *)
LEMMA SoundBetween ==
  ASSUME IInv, ~careless, phase \in {"off", "idle"},
         UNCHANGED <<colliderPairs, newPairs, told>>,
         \A i \in InContact : i \in DOMAIN colliders =>
           /\ i \in DOMAIN colliders'
           /\ colliders'[i].gen = colliders[i].gen
           /\ colliders'[i].trigger = colliders[i].trigger,
         \A i \in DOMAIN colliders' :
           colliders'[i].enabled \/ i \in InContact => Resolves(bodies', colliders'[i].body)
  PROVE  Sound'
<1>1. Sound /\ TypeOK /\ ToldSoFar
  BY DEF IInv
<1>2. Pairs = colliderPairs /\ Pairs' = Pairs /\ InPairs = InContact
  BY <1>1 DEF Pairs, InPairs, InContact, TypeOK
<1>3. \A pair \in DOMAIN told' : pair \in Pairs /\ (told'[pair] <=> IsTrigger(pair))
  BY <1>1, ToldPairs DEF Sound, KindsKept
<1>4. \A i \in InPairs : i \in DOMAIN colliders
  BY <1>1, PairSlots DEF Sound
<1>. QED
  BY <1>1, <1>2, <1>3, <1>4, SoundKept DEF Sound

LEMMA InitWorldSound ==
  ASSUME IInv, InitWorld, ~careless'
  PROVE  Sound'
<1>1. /\ ~careless /\ phase \in {"off", "idle"}
      /\ UNCHANGED <<colliderPairs, newPairs, told>>
      /\ ~(Len(bodies) > InitialSize) /\ ~(Len(colliders) > InitialSize)
      /\ bodies' = Resized(bodies, InitialSize, NewBody)
      /\ colliders' = Resized(colliders, InitialSize, EmptyCollider(0))
  BY DEF InitWorld, MayCall, MayUpdate
<1>2. /\ Len(bodies) \in Nat /\ DOMAIN bodies = 1..Len(bodies)
      /\ Len(colliders) \in Nat /\ DOMAIN colliders = 1..Len(colliders)
      /\ InitialSize \in Nat
  BY SlotsOf, WorldAssumption DEF IInv
<1>3. /\ \A i \in DOMAIN bodies : i \in DOMAIN bodies' /\ bodies'[i] = bodies[i]
      /\ \A i \in DOMAIN colliders : i \in DOMAIN colliders' /\ colliders'[i] = colliders[i]
  BY <1>1, <1>2 DEF Resized
<1>4. \A i \in DOMAIN colliders' : i \notin DOMAIN colliders => ~colliders'[i].enabled
  BY <1>1 DEF Resized, EmptyCollider
<1>5. \A i \in InContact : i \in DOMAIN colliders
  BY <1>1, PairSlots DEF IInv, Sound, InPairs, Pairs, InContact, TypeOK
<1>6. \A i \in DOMAIN colliders : colliders[i].enabled \/ i \in InContact
                                    => Resolves(bodies', colliders[i].body)
  BY <1>1, <1>3 DEF IInv, Sound, BodiesResolve, InPairs, Pairs, InContact, Resolves
<1>. QED
  BY <1>1, <1>3, <1>4, <1>5, <1>6, SoundBetween

LEMMA DeinitSound ==
  ASSUME IInv, Deinit
  PROVE  Sound'
<1>1. Pairs' = {} /\ DOMAIN told' = {} /\ DOMAIN colliders' = {}
  BY DEF Deinit, MayCall, MayUpdate, IInv, TypeOK, Pairs
<1>. QED
  BY <1>1 DEF Sound, PairsResolve, BodiesResolve, KindsKept

LEMMA CreateBodySound ==
  ASSUME IInv, NEW i, NEW slots \in Seq(Body), ~careless',
         \A j \in DOMAIN bodies : j \in DOMAIN slots /\ slots[j] = bodies[j],
         CreateBodyAt(i, slots)
  PROVE  Sound'
<1>1. /\ ~careless /\ phase = "idle"
      /\ UNCHANGED <<colliders, colliderPairs, newPairs, told>>
      /\ bodies' = [slots EXCEPT ![i] = [valid |-> TRUE, gen |-> slots[i].gen]]
  BY DEF CreateBodyAt, MayCall, MayUpdate
<1>2. \A j \in DOMAIN bodies : j \in DOMAIN bodies' /\ bodies'[j].gen = bodies[j].gen
  BY <1>1
<1>3. \A j \in DOMAIN colliders : colliders[j].enabled \/ j \in InContact
                                    => Resolves(bodies', colliders[j].body)
  BY <1>1, <1>2 DEF IInv, Sound, BodiesResolve, InPairs, Pairs, InContact, Resolves
<1>. QED
  BY <1>1, <1>3, SoundBetween

LEMMA DestroyBodySound ==
  ASSUME IInv, NEW i \in DOMAIN bodies, DestroyBody(i), ~careless'
  PROVE  Sound'
<1>1. /\ ~careless /\ phase = "idle"
      /\ UNCHANGED <<colliders, colliderPairs, newPairs, told>>
      /\ bodies' = [bodies EXCEPT ![i] = [valid |-> FALSE, gen |-> bodies[i].gen + 1]]
      /\ RefTo(bodies, i) \notin NeededBodies
  BY DEF DestroyBody, MayCall, MayUpdate
<1>2. ASSUME NEW j \in DOMAIN colliders, colliders[j].enabled \/ j \in InContact
      PROVE  Resolves(bodies', colliders[j].body)
  <2>1. Resolves(bodies, colliders[j].body)
    BY <1>1, <1>2 DEF IInv, Sound, BodiesResolve, InPairs, Pairs, InContact
  <2>2. colliders[j].body \in NeededBodies
    BY <1>2 DEF NeededBodies, Enabled
  <2>3. colliders[j].body \in Ref
    BY SlotsOf DEF IInv, Collider
  <2>4. colliders[j].body.Index # i
    <3>. SUFFICES ASSUME colliders[j].body.Index = i PROVE FALSE
      OBVIOUS
    <3>1. colliders[j].body = RefTo(bodies, i)
      BY <2>1, <2>3 DEF RefTo, Resolves, Ref
    <3>. QED
      BY <1>1, <2>2, <3>1
  <2>. QED
    BY <1>1, <2>1, <2>4 DEF Resolves
<1>. QED
  BY <1>1, <1>2, SoundBetween

LEMMA CreateColliderSound ==
  ASSUME IInv, NEW i, NEW slots \in Seq(Collider), i \in DOMAIN slots, ~careless',
         \A j \in DOMAIN colliders : j \in DOMAIN slots /\ slots[j] = colliders[j],
         \A j \in DOMAIN slots \ DOMAIN colliders : ~slots[j].enabled,
         NEW b \in ValidBodies, CreateColliderAt(i, slots, b)
  PROVE  Sound'
<1>1. /\ ~careless /\ phase = "idle"
      /\ UNCHANGED <<bodies, colliderPairs, newPairs, told>>
      /\ colliders' = [slots EXCEPT ![i] =
           [enabled |-> TRUE, gen |-> slots[i].gen,
            body |-> RefTo(bodies, b), trigger |-> slots[i].trigger]]
  BY DEF CreateColliderAt, MayCall, MayUpdate
<1>2. \A j \in DOMAIN colliders : /\ j \in DOMAIN colliders'
                                  /\ colliders'[j].gen = colliders[j].gen
                                  /\ colliders'[j].trigger = colliders[j].trigger
  BY <1>1
<1>3. \A j \in InContact : j \in DOMAIN colliders
  BY <1>1, PairSlots DEF IInv, Sound, InPairs, Pairs, InContact, TypeOK
<1>4. Resolves(bodies, RefTo(bodies, b))
  BY DEF Resolves, RefTo, ValidBodies
<1>5. ASSUME NEW j \in DOMAIN colliders', colliders'[j].enabled \/ j \in InContact
      PROVE  Resolves(bodies, colliders'[j].body)
  <2>1. CASE j = i
    BY <1>1, <1>4, <2>1
  <2>2. CASE j # i
    <3>1. j \in DOMAIN slots /\ colliders'[j] = slots[j]
      BY <1>1, <2>2
    <3>2. j \in DOMAIN colliders /\ slots[j] = colliders[j]
      BY <1>3, <1>5, <3>1
    <3>. QED
      BY <1>1, <1>5, <3>1, <3>2 DEF IInv, Sound, BodiesResolve, InPairs, Pairs, InContact
  <2>. QED
    BY <2>1, <2>2
<1>. QED
  BY <1>1, <1>2, <1>5, SoundBetween

LEMMA DestroyColliderSound ==
  ASSUME IInv, NEW i \in DOMAIN colliders, DestroyCollider(i), ~careless'
  PROVE  Sound'
<1>1. /\ ~careless /\ phase = "idle" /\ i \notin InContact
      /\ UNCHANGED <<bodies, colliderPairs, newPairs, told>>
      /\ colliders' = [colliders EXCEPT ![i] = EmptyCollider(colliders[i].gen + 1)]
  BY DEF DestroyCollider, MayCall, MayUpdate
<1>2. /\ DOMAIN colliders' = DOMAIN colliders
      /\ \A j \in DOMAIN colliders : j # i => colliders'[j] = colliders[j]
      /\ ~colliders'[i].enabled
  BY <1>1 DEF EmptyCollider
<1>3. ASSUME NEW j \in DOMAIN colliders', colliders'[j].enabled \/ j \in InContact
      PROVE  Resolves(bodies, colliders'[j].body)
  BY <1>1, <1>2, <1>3 DEF IInv, Sound, BodiesResolve, InPairs, Pairs, InContact
<1>. QED
  BY <1>1, <1>2, <1>3, SoundBetween

LEMMA FlagSound ==
  ASSUME IInv, NEW i \in Enabled, Disable(i) \/ SetIsTrigger(i), ~careless'
  PROVE  Sound'
<1>1. /\ ~careless /\ phase = "idle"
      /\ UNCHANGED <<bodies, colliderPairs, newPairs, told>>
  <2>1. CASE Disable(i)
    BY <2>1 DEF Disable, MayCall, MayUpdate
  <2>2. CASE SetIsTrigger(i)
    BY <2>2 DEF SetIsTrigger, MayCall, MayUpdate
  <2>. QED
    BY <2>1, <2>2
<1>2. /\ DOMAIN colliders' = DOMAIN colliders
      /\ \A j \in DOMAIN colliders :
           /\ colliders'[j].gen = colliders[j].gen
           /\ colliders'[j].body = colliders[j].body
           /\ colliders'[j].enabled => colliders[j].enabled
           /\ j \in InContact => colliders'[j].trigger = colliders[j].trigger
  <2>1. CASE Disable(i)
    BY <2>1, DisabledType DEF Disable, IInv
  <2>2. CASE SetIsTrigger(i)
    BY <2>2 DEF SetIsTrigger
  <2>. QED
    BY <2>1, <2>2
<1>3. ASSUME NEW j \in DOMAIN colliders', colliders'[j].enabled \/ j \in InContact
      PROVE  Resolves(bodies, colliders'[j].body)
  BY <1>1, <1>2, <1>3 DEF IInv, Sound, BodiesResolve, InPairs, Pairs, InContact
<1>. QED
  BY <1>1, <1>2, <1>3, SoundBetween

(* The pairs of an update that begins.                                        *)
LEMMA BeginUpdateSound ==
  ASSUME IInv, BeginUpdate, ~careless'
  PROVE  Sound'
<1>1. /\ ~careless /\ phase = "idle"
      /\ UNCHANGED <<bodies, colliders, colliderPairs, told>>
      /\ newPairs' \subseteq PairsOf(Enabled)
  BY DEF BeginUpdate, MayUpdate
<1>2. Sound /\ TypeOK /\ ToldSoFar
  BY <1>1 DEF IInv
<1>3. ASSUME NEW pair \in newPairs', NEW ref \in pair
      PROVE  ref.Index \in Enabled /\ Resolves(colliders, ref)
  <2>1. PICK i \in Enabled : ref = RefTo(colliders, i)
    BY <1>1, <1>3 DEF PairsOf
  <2>. QED
    BY <2>1 DEF RefTo, Resolves, Enabled
<1>4. PairsResolve'
  BY <1>1, <1>2, <1>3 DEF Sound, PairsResolve, Pairs, Resolves
<1>5. \A i \in InPairs' : i \in InPairs \/ i \in Enabled
  BY <1>1, <1>3 DEF InPairs, Pairs, Slots
<1>6. BodiesResolve'
  BY <1>1, <1>2, <1>5 DEF Sound, BodiesResolve, Enabled
<1>7. KindsKept'
  BY <1>1, <1>2 DEF Sound, KindsKept, IsTrigger
<1>. QED
  BY <1>4, <1>6, <1>7 DEF Sound

(* A callback that disables a collider leaves what its pairs refer to.        *)
LEMMA ContactSound ==
  ASSUME IInv, NEW pair \in left, Contact(pair), ~careless'
  PROVE  Sound'
<1>1. /\ ~careless /\ phase \in {"new", "ended"}
      /\ UNCHANGED <<bodies, colliderPairs, newPairs>>
      /\ \/ UNCHANGED colliders
         \/ \E off \in SUBSET Slots(pair) : colliders' = Disabled(off)
  BY DEF Contact, TriggerEnter, CollisionEnter, Stay, TriggerExit,
         CollisionExit, Handle
<1>2. Sound /\ TypeOK /\ ToldSoFar
  BY <1>1 DEF IInv
<1>3. /\ DOMAIN colliders' = DOMAIN colliders
      /\ \A i \in DOMAIN colliders :
           /\ colliders'[i].gen = colliders[i].gen
           /\ colliders'[i].body = colliders[i].body
           /\ colliders'[i].trigger = colliders[i].trigger
           /\ colliders'[i].enabled => colliders[i].enabled
  BY <1>1, <1>2, DisabledType
<1>4. pair \in Pairs /\ Pairs' = Pairs
  BY <1>1, <1>2 DEF Pairs, TypeOK
<1>5. \A p \in DOMAIN told' : p \in Pairs /\ (told'[p] <=> IsTrigger(p))
  <2>1. \A p \in DOMAIN told : p \in Pairs /\ (told[p] <=> IsTrigger(p))
    BY <1>2, ToldPairs DEF Sound, KindsKept
  <2>2. CASE TriggerEnter(pair) \/ CollisionEnter(pair)
    <3>1. told' = Began(pair)
      BY <2>2 DEF TriggerEnter, CollisionEnter
    <3>. QED
      BY <1>4, <2>1, <3>1 DEF Began
  <2>3. CASE Stay(pair)
    BY <2>1, <2>3 DEF Stay
  <2>4. CASE TriggerExit(pair) \/ CollisionExit(pair)
    BY <2>1, <2>4 DEF TriggerExit, CollisionExit, Ended
  <2>. QED
    BY <2>2, <2>3, <2>4 DEF Contact
<1>6. \A i \in InPairs : i \in DOMAIN colliders
  BY <1>2, PairSlots DEF Sound
<1>7. \A i \in DOMAIN colliders' :
        colliders'[i].enabled \/ i \in InPairs => Resolves(bodies', colliders'[i].body)
  BY <1>1, <1>2, <1>3 DEF Sound, BodiesResolve
<1>. QED
  BY <1>2, <1>3, <1>4, <1>5, <1>6, <1>7, SoundKept DEF Sound

LEMMA LoopSound ==
  ASSUME IInv, StartExits \/ EndUpdate \/ NullReference \/ UNCHANGED vars, ~careless'
  PROVE  Sound'
<1>1. /\ ~careless /\ Pairs' \subseteq Pairs
      /\ UNCHANGED <<bodies, colliders, told>>
  <2>1. CASE StartExits
    BY <2>1 DEF StartExits, Pairs
  <2>2. CASE EndUpdate
    BY <2>2 DEF EndUpdate, Pairs
  <2>3. CASE NullReference
    BY <2>3 DEF NullReference, Pairs
  <2>4. CASE UNCHANGED vars
    BY <2>4 DEF vars, Pairs
  <2>. QED
    BY <2>1, <2>2, <2>3, <2>4
<1>2. Sound /\ TypeOK /\ ToldSoFar
  BY <1>1 DEF IInv
<1>3. \A p \in DOMAIN told' : p \in Pairs /\ (told'[p] <=> IsTrigger(p))
  BY <1>1, <1>2, ToldPairs DEF Sound, KindsKept
<1>4. \A i \in InPairs : i \in DOMAIN colliders
  BY <1>2, PairSlots DEF Sound
<1>5. \A i \in DOMAIN colliders' :
        colliders'[i].enabled \/ i \in InPairs => Resolves(bodies', colliders'[i].body)
  BY <1>1, <1>2 DEF Sound, BodiesResolve
<1>. QED
  BY <1>1, <1>2, <1>3, <1>4, <1>5, SoundKept DEF Sound

LEMMA SoundStep ==
  ASSUME IInv, [Next]_vars, ~careless'
  PROVE  Sound'
<1>1. CASE InitWorld
  BY <1>1, InitWorldSound
<1>2. CASE Deinit
  BY <1>2, DeinitSound
<1>3. CASE CreateBodyInFreeSlot
  BY <1>3, CreateBodySound DEF CreateBodyInFreeSlot, IInv, TypeOK
<1>4. CASE CreateBodyInLargerVector
  <2>. DEFINE slots == Resized(bodies, 2 * Len(bodies), NewBody)
  <2>1. CreateBodyAt(Len(bodies) + 1, slots) /\ phase # "off" /\ TypeOK
    BY <1>4 DEF CreateBodyInLargerVector, CreateBodyAt, MayCall, MayUpdate, IInv
  <2>2. /\ slots \in Seq(Body)
        /\ \A j \in DOMAIN bodies : j \in DOMAIN slots /\ slots[j] = bodies[j]
    BY <2>1, LargerBodies
  <2>. HIDE DEF slots
  <2>. QED
    BY <2>1, <2>2, CreateBodySound
<1>5. CASE \E i \in DOMAIN bodies : DestroyBody(i)
  BY <1>5, DestroyBodySound
<1>6. CASE \E b \in ValidBodies : CreateColliderInFreeSlot(b)
  BY <1>6, CreateColliderSound DEF CreateColliderInFreeSlot, IInv, TypeOK
<1>7. CASE \E b \in ValidBodies : CreateColliderInLargerVector(b)
  <2>. DEFINE slots == Resized(colliders, 2 * Len(colliders), EmptyCollider(0))
  <2>1. PICK b \in ValidBodies : CreateColliderAt(Len(colliders) + 1, slots, b)
    BY <1>7 DEF CreateColliderInLargerVector
  <2>2. phase # "off" /\ TypeOK
    BY <2>1 DEF CreateColliderAt, MayCall, MayUpdate, IInv
  <2>3. /\ slots \in Seq(Collider) /\ Len(colliders) + 1 \in DOMAIN slots
        /\ \A j \in DOMAIN colliders : j \in DOMAIN slots /\ slots[j] = colliders[j]
        /\ \A j \in DOMAIN slots \ DOMAIN colliders : ~slots[j].enabled
    BY <2>2, LargerColliders
  <2>. HIDE DEF slots
  <2>. QED
    BY <2>1, <2>3, CreateColliderSound
<1>8. CASE \E i \in DOMAIN colliders : DestroyCollider(i)
  BY <1>8, DestroyColliderSound
<1>9. CASE \E i \in Enabled : Disable(i) \/ SetIsTrigger(i)
  BY <1>9, FlagSound
<1>10. CASE BeginUpdate
  BY <1>10, BeginUpdateSound
<1>11. CASE \E pair \in left : Contact(pair)
  BY <1>11, ContactSound
<1>12. CASE StartExits \/ EndUpdate \/ NullReference \/ UNCHANGED vars
  BY <1>12, LoopSound
<1>. QED
  BY <1>1, <1>2, <1>3, <1>4, <1>5, <1>6, <1>7, <1>8, <1>9, <1>10, <1>11,
     <1>12 DEF Next

(* A sound world resolves whatever an update looks up.                        *)
LEMMA NullReferenceNeedsCare ==
  ASSUME IInv, NullReference
  PROVE  careless
<1>. SUFFICES ASSUME ~careless PROVE FALSE
  OBVIOUS
<1>1. Sound /\ TypeOK
  BY DEF IInv
<1>2. \A i \in Enabled : Resolves(bodies, colliders[i].body)
  BY <1>1 DEF Sound, BodiesResolve, Enabled
<1>3. ASSUME NEW pair \in left PROVE Usable(pair)
  <2>1. pair \in Pairs
    BY <1>1 DEF TypeOK, Pairs
  <2>2. \A ref \in pair : Resolves(colliders, ref)
    BY <1>1, <2>1 DEF Sound, PairsResolve
  <2>3. \A i \in Slots(pair) : i \in InPairs /\ i \in DOMAIN colliders
    BY <1>1, <2>1, PairSlots DEF Sound
  <2>4. \A i \in Slots(pair) : Resolves(bodies, colliders[i].body)
    BY <1>1, <2>3 DEF Sound, BodiesResolve
  <2>. QED
    BY <2>2, <2>4 DEF Usable
<1>. QED
  BY <1>2, <1>3 DEF NullReference

LEMMA ReferencesStep ==
  ASSUME IInv, [Next]_vars
  PROVE  ReferencesResolve'
<1>1. ReferencesResolve /\ careless \in BOOLEAN
  BY DEF IInv, TypeOK
<1>2. CASE NullReference
  BY <1>2, NullReferenceNeedsCare DEF NullReference, ReferencesResolve
<1>3. CASE ~NullReference
  <2>1. CASE InitWorld
    BY <1>1, <2>1 DEF InitWorld, ReferencesResolve
  <2>2. CASE Deinit \/ CreateBodyInFreeSlot \/ CreateBodyInLargerVector
    BY <1>1, <2>2 DEF Deinit, CreateBodyInFreeSlot, CreateBodyInLargerVector,
       CreateBodyAt, ReferencesResolve
  <2>3. CASE \E b \in ValidBodies :
               CreateColliderInFreeSlot(b) \/ CreateColliderInLargerVector(b)
    <3>1. nullReference' = nullReference /\ careless' = careless
      BY <2>3 DEF CreateColliderInFreeSlot, CreateColliderInLargerVector,
         CreateColliderAt
    <3>. QED
      BY <1>1, <3>1 DEF ReferencesResolve
  <2>4. CASE \/ \E i \in DOMAIN bodies : DestroyBody(i)
             \/ \E i \in DOMAIN colliders : DestroyCollider(i)
    BY <1>1, <2>4 DEF DestroyBody, DestroyCollider, ReferencesResolve
  <2>5. CASE \E i \in Enabled : Disable(i) \/ SetIsTrigger(i)
    <3>. PICK i \in Enabled : Disable(i) \/ SetIsTrigger(i)
      BY <2>5
    <3>1. CASE Disable(i)
      BY <1>1, <3>1 DEF Disable, ReferencesResolve
    <3>2. CASE SetIsTrigger(i)
      BY <1>1, <3>2 DEF SetIsTrigger, ReferencesResolve
    <3>. QED
      BY <3>1, <3>2
  <2>6. CASE \E pair \in left : Contact(pair)
    BY <1>1, <2>6 DEF Contact, TriggerEnter, CollisionEnter, Stay, TriggerExit,
       CollisionExit, Handle, ReferencesResolve
  <2>7. CASE BeginUpdate \/ StartExits \/ EndUpdate \/ UNCHANGED vars
    BY <1>1, <2>7 DEF BeginUpdate, StartExits, EndUpdate, vars, ReferencesResolve
  <2>. QED
    BY <1>3, <2>1, <2>2, <2>3, <2>4, <2>5, <2>6, <2>7 DEF Next
<1>. QED
  BY <1>2, <1>3

LEMMA NextInv == IInv /\ [Next]_vars => IInv'
<1>. SUFFICES ASSUME IInv, [Next]_vars PROVE IInv'
  OBVIOUS
<1>1. TypeOK' /\ ToldSoFar'
  BY TypeStep, ToldStep DEF IInv
<1>2. ~careless' => Sound'
  BY SoundStep
<1>3. ReferencesResolve'
  BY ReferencesStep
<1>. QED
  BY <1>1, <1>2, <1>3 DEF IInv

LEMMA Invariance == Spec => []IInv
BY InitInv, NextInv, PTL DEF Spec

-----------------------------------------------------------------------------
(* The theorems.                                                              *)

(* An owner that destroys nothing in use never has Update, which is noexcept, *)
(* throw on a reference, with any number of slots reused and any callbacks.   *)
THEOREM ReferencesSafe == Spec => []ReferencesResolve
<1>1. IInv => ReferencesResolve
  BY DEF IInv
<1>. QED
  BY <1>1, Invariance, PTL

(* Entries and exits of a contact alternate, and it stays in between, for a   *)
(* careless owner too.                                                        *)
THEOREM PairedUp == Spec => ContactsPairUp
<1>1. ASSUME IInv, NEW pair \in left
      PROVE  /\ TriggerEnter(pair) \/ CollisionEnter(pair) => pair \notin DOMAIN told
             /\ Stay(pair) => pair \in DOMAIN told
             /\ TriggerExit(pair) \/ CollisionExit(pair) => pair \in DOMAIN told
  BY <1>1 DEF IInv, ToldSoFar, TypeOK, TriggerEnter, CollisionEnter, Stay,
     TriggerExit, CollisionExit, Handle
<1>2. IInv => \A pair \in left :
        /\ TriggerEnter(pair) \/ CollisionEnter(pair) => pair \notin DOMAIN told
        /\ Stay(pair) => pair \in DOMAIN told
        /\ TriggerExit(pair) \/ CollisionExit(pair) => pair \in DOMAIN told
  BY <1>1
<1>. QED
  BY <1>2, Invariance, PTL DEF ContactsPairUp

(* A contact that began as a trigger's ends as one, and a collision as one.   *)
THEOREM SameKind == Spec => ExitAsEntered
<1>1. IInv => (~careless =>
        \A pair \in left : /\ TriggerExit(pair) => told[pair]
                           /\ CollisionExit(pair) => ~told[pair])
  <2>. SUFFICES ASSUME IInv, ~careless, NEW pair \in left
                PROVE  /\ TriggerExit(pair) => told[pair]
                       /\ CollisionExit(pair) => ~told[pair]
    OBVIOUS
  <2>1. KindsKept /\ ToldSoFar
    BY DEF IInv, Sound
  <2>. QED
    BY <2>1 DEF KindsKept, ToldSoFar, TriggerExit, CollisionExit, Handle
<1>. QED
  BY <1>1, Invariance, PTL DEF ExitAsEntered
=============================================================================
