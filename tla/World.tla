-------------------------------- MODULE World --------------------------------
(* The bodies and colliders of the physics engine (World.cpp), the references *)
(* to them, and the contacts a step tells its listener.                       *)
(*                                                                            *)
(* An Update is several steps: its callbacks run in the middle, and may       *)
(* disable the colliders they are about, as Game::OnTriggerEnter does with    *)
(* balls.  Which colliders overlap is left open: the motion is not modelled,  *)
(* and the quad-tree hands over every pair that might (NoPairMissed).  So is  *)
(* the order of the pairs.  Between two updates the listener's owner creates, *)
(* destroys and disables what it likes.                                       *)
EXTENDS Naturals, Sequences, FiniteSets

CONSTANTS InitialSize,     \* the preallocated bodies
          MaxSize,         \* bound: slots of either vector
          MaxBodies,       \* bound: valid bodies
          MaxColliders,    \* bound: enabled colliders
          MaxContacts,     \* bound: contacts of one update
          MaxDestroyed,    \* bound: destructions in the life of a world
          CallsAfterwards  \* bound: calls but Update go on after carelessness

ASSUME WorldAssumption ==
  /\ InitialSize \in Nat \ {0}
  /\ MaxSize \in Nat /\ MaxBodies \in Nat
  /\ MaxColliders \in Nat /\ MaxContacts \in Nat
  /\ MaxDestroyed \in Nat
  /\ CallsAfterwards \in BOOLEAN

VARIABLES bodies,          \* _bodies and _bodiesGenIndices
          colliders,       \* _colliders and _collidersGenIndices
          colliderPairs,   \* the contacts of the last Update
          newPairs,        \* the contacts of this one
          left,            \* those of its loop still to be handled
          phase,           \* "off" before Init, "idle" between updates, or
                           \* the loop an Update is in, "new" or "ended"
          told,            \* history: the contacts the listener has been told
                           \* have begun, each with "is it a trigger's"
          careless,        \* history: something in use has been destroyed,
                           \* or the kind of a contact changed
          nullReference    \* an access threw "Null ... reference exception"
                           \* through noexcept, or read past the end

vars == <<bodies, colliders, colliderPairs, newPairs, left, phase, told,
          careless, nullReference>>

Ref == [Index : Nat \ {0}, GenerationIdx : Nat]
Body == [valid : BOOLEAN, gen : Nat]
Collider == [enabled : BOOLEAN, gen : Nat, body : Ref, trigger : BOOLEAN]

NewBody == [valid |-> FALSE, gen |-> 0]
EmptyCollider(gen) == [enabled |-> FALSE, gen |-> gen, trigger |-> FALSE,
                       body |-> [Index |-> 1, GenerationIdx |-> 0]]

(* The reference to a slot, and what GetBody and GetCollider check.           *)
RefTo(slots, i) == [Index |-> i, GenerationIdx |-> slots[i].gen]
Resolves(slots, ref) == /\ ref.Index \in DOMAIN slots
                        /\ slots[ref.Index].gen = ref.GenerationIdx

(* resize: it cuts, or fills up with new slots.                               *)
Resized(slots, size, new) ==
  [i \in 1..size |-> IF i \in DOMAIN slots THEN slots[i] ELSE new]

Enabled == {i \in DOMAIN colliders : colliders[i].enabled}

(* ColliderPair's operator== makes a pair a set.                              *)
Slots(pair) == {ref.Index : ref \in pair}
InContact == UNION {Slots(pair) : pair \in colliderPairs}
IsTrigger(pair) == \E i \in Slots(pair) : colliders[i].trigger

Init ==
  /\ bodies = <<>> /\ colliders = <<>>
  /\ colliderPairs = {} /\ newPairs = {} /\ left = {}
  /\ phase = "off"
  /\ told = <<>>
  /\ careless = FALSE
  /\ nullReference = FALSE

MayUpdate == phase = "idle" /\ ~nullReference
MayCall == MayUpdate /\ (careless => CallsAfterwards)
-----------------------------------------------------------------------------
(* Init, Deinit and the slots.                                                *)

(* A second Init cuts a world that has grown.                                 *)
InitWorld ==
  /\ phase = "off" \/ MayCall
  /\ bodies' = Resized(bodies, InitialSize, NewBody)
  /\ colliders' = Resized(colliders, InitialSize, EmptyCollider(0))
  /\ phase' = "idle"
  /\ careless' = (careless \/ Len(bodies) > InitialSize
                           \/ Len(colliders) > InitialSize)
  /\ UNCHANGED <<colliderPairs, newPairs, left, told, nullReference>>

(* Wrong on purpose: the contacts of the world before are kept.               *)
DeinitSlots ==
  /\ MayCall
  /\ bodies' = <<>> /\ colliders' = <<>>
  /\ phase' = "off"
  /\ told' = <<>>
  /\ UNCHANGED <<colliderPairs, newPairs, left, careless, nullReference>>

(* No exit is told for the contacts of the world that ends.                   *)
Deinit ==
  /\ MayCall
  /\ bodies' = <<>> /\ colliders' = <<>> /\ colliderPairs' = {}
  /\ phase' = "off"
  /\ told' = <<>>
  /\ UNCHANGED <<newPairs, left, careless, nullReference>>

(* The first free slot.                                                       *)
IsFirst(i, Free) == i \in Free /\ \A j \in Free : i <= j

ValidBodies == {i \in DOMAIN bodies : bodies[i].valid}

CreateBodyAt(i, slots) ==
  /\ MayCall
  /\ Cardinality(ValidBodies) < MaxBodies
  /\ bodies' = [slots EXCEPT ![i] = [valid |-> TRUE, gen |-> slots[i].gen]]
  /\ UNCHANGED <<colliders, colliderPairs, newPairs, left, phase, told,
                 careless, nullReference>>

CreateBodyInFreeSlot ==
  \E i \in DOMAIN bodies : /\ IsFirst(i, DOMAIN bodies \ ValidBodies)
                           /\ CreateBodyAt(i, bodies)

CreateBodyInLargerVector ==
  /\ DOMAIN bodies = ValidBodies
  /\ 2 * Len(bodies) <= MaxSize
  /\ CreateBodyAt(Len(bodies) + 1,
                  Resized(bodies, 2 * Len(bodies), NewBody))

(* Which bodies a collider that is enabled or in contact needs.               *)
NeededBodies == {colliders[i].body : i \in (Enabled \cup InContact)
                                             \cap DOMAIN colliders}

Generations(slots) ==
  LET sum[i \in 0..Len(slots)] == IF i = 0 THEN 0 ELSE sum[i - 1] + slots[i].gen
  IN sum[Len(slots)]

MayDestroy == Generations(bodies) + Generations(colliders) < MaxDestroyed

(* The reference's generation is not looked at.                               *)
DestroyBody(i) ==
  /\ MayCall /\ MayDestroy
  /\ bodies' = [bodies EXCEPT ![i] = [valid |-> FALSE, gen |-> bodies[i].gen + 1]]
  /\ careless' = (careless \/ RefTo(bodies, i) \in NeededBodies)
  /\ UNCHANGED <<colliders, colliderPairs, newPairs, left, phase, told,
                 nullReference>>

(* Wrong on purpose: a reused slot gets a generation of its own.              *)
CreateColliderInNewGeneration(i, slots, b) ==
  /\ MayCall
  /\ Cardinality(Enabled) < MaxColliders
  /\ colliders' = [slots EXCEPT ![i] =
       [enabled |-> TRUE, gen |-> slots[i].gen + 1,
        body |-> RefTo(bodies, b), trigger |-> slots[i].trigger]]
  /\ UNCHANGED <<bodies, colliderPairs, newPairs, left, phase, told,
                 careless, nullReference>>

(* Wrong on purpose: a reused slot loses its trigger flag.                    *)
CreateColliderAsNew(i, slots, b) ==
  /\ MayCall
  /\ Cardinality(Enabled) < MaxColliders
  /\ colliders' = [slots EXCEPT ![i] =
       [enabled |-> TRUE, gen |-> slots[i].gen,
        body |-> RefTo(bodies, b), trigger |-> FALSE]]
  /\ UNCHANGED <<bodies, colliderPairs, newPairs, left, phase, told,
                 careless, nullReference>>

(* The slot of a disabled collider keeps its generation, and its trigger flag *)
(* with it.                                                                   *)
CreateColliderAt(i, slots, b) ==
  /\ MayCall
  /\ Cardinality(Enabled) < MaxColliders
  /\ colliders' = [slots EXCEPT ![i] =
       [enabled |-> TRUE, gen |-> slots[i].gen,
        body |-> RefTo(bodies, b), trigger |-> slots[i].trigger]]
  /\ UNCHANGED <<bodies, colliderPairs, newPairs, left, phase, told,
                 careless, nullReference>>

CreateColliderInFreeSlot(b) ==
  \E i \in DOMAIN colliders : /\ IsFirst(i, DOMAIN colliders \ Enabled)
                              /\ CreateColliderAt(i, colliders, b)

CreateColliderInLargerVector(b) ==
  /\ DOMAIN colliders = Enabled
  /\ 2 * Len(colliders) <= MaxSize
  /\ CreateColliderAt(Len(colliders) + 1,
                      Resized(colliders, 2 * Len(colliders), EmptyCollider(0)), b)

DestroyCollider(i) ==
  /\ MayCall /\ MayDestroy
  /\ colliders' = [colliders EXCEPT ![i] = EmptyCollider(colliders[i].gen + 1)]
  /\ careless' = (careless \/ i \in InContact)
  /\ UNCHANGED <<bodies, colliderPairs, newPairs, left, phase, told,
                 nullReference>>

Disabled(off) ==
  [i \in DOMAIN colliders |->
     [enabled |-> colliders[i].enabled /\ i \notin off,
      gen |-> colliders[i].gen, body |-> colliders[i].body,
      trigger |-> colliders[i].trigger]]

(* SetEnabled(false), the W key of Game::OnEvent.                             *)
Disable(i) ==
  /\ MayCall
  /\ colliders' = Disabled({i})
  /\ UNCHANGED <<bodies, colliderPairs, newPairs, left, phase, told,
                 careless, nullReference>>

SetIsTrigger(i) ==
  /\ MayCall
  /\ colliders' = [colliders EXCEPT ![i] =
       [enabled |-> colliders[i].enabled, gen |-> colliders[i].gen,
        body |-> colliders[i].body, trigger |-> ~colliders[i].trigger]]
  /\ careless' = (careless \/ i \in InContact)
  /\ UNCHANGED <<bodies, colliderPairs, newPairs, left, phase, told,
                 nullReference>>
-----------------------------------------------------------------------------
(* Update, with a listener.                                                   *)

PairsOf(S) == {pair \in SUBSET {RefTo(colliders, i) : i \in S} :
                 Cardinality(pair) = 2}

(* resolveBroadPhase and detectOverlap.                                       *)
BeginUpdate ==
  /\ MayUpdate
  /\ \A i \in Enabled : Resolves(bodies, colliders[i].body)
  /\ newPairs' \in SUBSET PairsOf(Enabled)
  /\ Cardinality(newPairs') <= MaxContacts
  /\ left' = newPairs'
  /\ phase' = "new"
  /\ UNCHANGED <<bodies, colliders, colliderPairs, told, careless,
                 nullReference>>

(* Both colliders, and both bodies unless the contact is a trigger's.         *)
Usable(pair) ==
  /\ \A ref \in pair : Resolves(colliders, ref)
  /\ \/ IsTrigger(pair)
     \/ \A i \in Slots(pair) : Resolves(bodies, colliders[i].body)

Handle(pair, loop) ==
  /\ phase = loop
  /\ ~nullReference
  /\ pair \in left
  /\ Usable(pair)
  /\ left' = left \ {pair}
  /\ UNCHANGED <<bodies, colliderPairs, newPairs, phase, careless,
                 nullReference>>

Began(pair) == [p \in DOMAIN told \cup {pair} |->
                  IF p = pair THEN IsTrigger(pair) ELSE told[p]]
Ended(pair) == [p \in DOMAIN told \ {pair} |-> told[p]]

TriggerEnter(pair) ==
  /\ Handle(pair, "new")
  /\ pair \notin colliderPairs
  /\ IsTrigger(pair)
  /\ told' = Began(pair)
  /\ \E off \in SUBSET Slots(pair) : colliders' = Disabled(off)

CollisionEnter(pair) ==
  /\ Handle(pair, "new")
  /\ pair \notin colliderPairs
  /\ ~IsTrigger(pair)
  /\ told' = Began(pair)
  /\ UNCHANGED colliders

(* OnTriggerStay, or only the contact solver.                                 *)
Stay(pair) ==
  /\ Handle(pair, "new")
  /\ pair \in colliderPairs
  /\ UNCHANGED <<colliders, told>>

(* The second loop only looks up the pairs that go on.                        *)
StartExits ==
  /\ phase = "new" /\ ~nullReference
  /\ left = {}
  /\ left' = colliderPairs \ newPairs
  /\ phase' = "ended"
  /\ UNCHANGED <<bodies, colliders, colliderPairs, newPairs, told, careless,
                 nullReference>>

TriggerExit(pair) ==
  /\ Handle(pair, "ended")
  /\ IsTrigger(pair)
  /\ told' = Ended(pair)
  /\ UNCHANGED colliders

CollisionExit(pair) ==
  /\ Handle(pair, "ended")
  /\ ~IsTrigger(pair)
  /\ told' = Ended(pair)
  /\ UNCHANGED colliders

(* Wrong on purpose: contacts of colliders a callback disabled are dropped.   *)
EndUpdateEnabledOnly ==
  /\ phase = "ended" /\ ~nullReference
  /\ left = {}
  /\ colliderPairs' = {pair \in newPairs : Slots(pair) \subseteq Enabled}
  /\ newPairs' = {}
  /\ phase' = "idle"
  /\ UNCHANGED <<bodies, colliders, left, told, careless, nullReference>>

EndUpdate ==
  /\ phase = "ended" /\ ~nullReference
  /\ left = {}
  /\ colliderPairs' = newPairs
  /\ newPairs' = {}
  /\ phase' = "idle"
  /\ UNCHANGED <<bodies, colliders, left, told, careless, nullReference>>

NullReference ==
  /\ ~nullReference
  /\ \/ /\ phase = "idle"
        /\ \E i \in Enabled : ~Resolves(bodies, colliders[i].body)
     \/ \E pair \in left : ~Usable(pair)
  /\ nullReference' = TRUE
  /\ UNCHANGED <<bodies, colliders, colliderPairs, newPairs, left, phase, told,
                 careless>>

Contact(pair) ==
  \/ TriggerEnter(pair) \/ CollisionEnter(pair) \/ Stay(pair)
  \/ TriggerExit(pair) \/ CollisionExit(pair)

Next ==
  \/ InitWorld
  \/ Deinit
  \/ CreateBodyInFreeSlot
  \/ CreateBodyInLargerVector
  \/ \E i \in DOMAIN bodies : DestroyBody(i)
  \/ \E b \in ValidBodies : CreateColliderInFreeSlot(b)
  \/ \E b \in ValidBodies : CreateColliderInLargerVector(b)
  \/ \E i \in DOMAIN colliders : DestroyCollider(i)
  \/ \E i \in Enabled : Disable(i)
  \/ \E i \in Enabled : SetIsTrigger(i)
  \/ BeginUpdate
  \/ \E pair \in left : Contact(pair)
  \/ StartExits
  \/ EndUpdate
  \/ NullReference

Spec == Init /\ [][Next]_vars
-----------------------------------------------------------------------------

Pair == SUBSET Ref

(* The slots and the pairs have their types; an update still has to handle    *)
(* what its loop is over; between updates, and in a world that is off,        *)
(* nothing of the last one is left; no vector in use is empty, or doubling    *)
(* would not make it larger.                                                  *)
TypeOK ==
  /\ bodies \in Seq(Body) /\ colliders \in Seq(Collider)
  /\ colliderPairs \subseteq Pair /\ newPairs \subseteq Pair
  /\ phase \in {"off", "idle", "new", "ended"}
  /\ phase = "new" => left \subseteq newPairs
  /\ phase = "ended" => left \subseteq colliderPairs
  /\ phase \in {"off", "idle"} => newPairs = {} /\ left = {}
  /\ phase = "off" => bodies = <<>> /\ colliders = <<>> /\ colliderPairs = {}
  /\ phase # "off" => bodies # <<>> /\ colliders # <<>>
  /\ careless \in BOOLEAN /\ nullReference \in BOOLEAN

(* World.h declares Update noexcept although GetBody and GetCollider throw:   *)
(* whoever destroys nothing that is in use never sees it end the process,     *)
(* whatever slots are reused, whatever the vectors grow to, and whatever the  *)
(* callbacks disable while pairs of the step are still to be handled.         *)
ReferencesResolve == nullReference => careless

(* The listener hears of a contact in order: it enters a contact only when    *)
(* the one before, of equal references, has ended, and stays in and exits     *)
(* only those it has entered.                                                 *)
ContactsPairUp ==
  [][\A pair \in left :
       /\ TriggerEnter(pair) \/ CollisionEnter(pair) => pair \notin DOMAIN told
       /\ Stay(pair) => pair \in DOMAIN told
       /\ TriggerExit(pair) \/ CollisionExit(pair) => pair \in DOMAIN told]_vars

(* A contact ends as what it began, a trigger's or a collision, although the  *)
(* flag is read anew and a collider may be disabled, and its slot given away, *)
(* in between.                                                                *)
ExitAsEntered ==
  [][~careless =>
       \A pair \in left : /\ TriggerExit(pair) => told[pair]
                          /\ CollisionExit(pair) => ~told[pair]]_vars
=============================================================================
