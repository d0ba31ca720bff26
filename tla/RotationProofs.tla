--------------------------- MODULE RotationProofs ---------------------------
(***************************************************************************)
(* TLAPS proofs about Rotation, for any number of epochs, keys and events   *)
(* and any rotation window.                                                *)
(***************************************************************************)
EXTENDS Rotation, FiniteSetTheorems, WellFoundedInduction, TLAPS

Phases == {"candidate", "acknowledged", "confirmed", "committed", "discarded"}
Open == {"candidate", "acknowledged", "confirmed"}
Agreed == {"acknowledged", "confirmed", "committed"}
Rows == [phase : Phases, prior : Epochs, key : Keys, deadline : Nat, seen : BOOLEAN]

RotationTypeOK ==
    /\ keyEpoch \in [Sides -> Epochs]
    /\ peerKey \in [Sides -> Keys]
    /\ epochs \in [Sides -> [Epochs -> Keys \cup {NoKey}]]
    /\ rot \in [Sides -> [Roles -> [Epochs -> Rows \cup {NoRow}]]]
    /\ pending \in [Sides -> [Epochs -> Int]]
    /\ used \in [Sides -> SUBSET Epochs]
    /\ DOMAIN latest = Sides /\ DOMAIN due = Sides /\ DOMAIN net = Sides
    /\ made \in [Sides -> Nat]
    /\ now \in Nat

Rotating(s, e) == rot[s]["rotating"][e]
Acking(s, e) == rot[s]["acking"][e]

\* A side has at most one rotation open, that of the epoch after its key_epoch, and
\* no key beyond it.
OneOpen(s) ==
    /\ \A r \in Roles : \A e \in InFlight(s, r) : e = keyEpoch[s] + 1
    /\ InFlight(s, "rotating") = {} \/ InFlight(s, "acking") = {}
    /\ \A r \in Roles, e \in Epochs : rot[s][r][e].phase = "committed" => e <= keyEpoch[s]
    /\ \A e \in Epochs : epochs[s][e] # NoKey =>
          e <= keyEpoch[s] \/ \E r \in Roles : e \in InFlight(s, r)

\* The rows of key_rotations and of key_epochs agree.
RowsAgree(s) ==
    /\ \A e \in InFlight(s, "rotating") :
          /\ epochs[s][e] = Rotating(s, e).key /\ epochs[s][e] = <<s, made[s]>>
          /\ epochs[s][Rotating(s, e).prior][1] = s
    /\ \A e \in Epochs : Acking(s, e).phase # "none" =>
          /\ Acking(s, e).phase # "discarded"
          /\ Rotating(s, e).phase \in {"none", "discarded"}
          /\ Acking(s, e).key[1] = Peer(s) /\ Acking(s, e).key[2] <= made[Peer(s)]
    /\ \A e \in InFlight(s, "acking") : epochs[s][e] = Acking(s, e).key
    /\ \A e \in PeerRows(s) : Acking(s, e).phase # "none"
    /\ \A e \in OwnEpochs(s) : epochs[s][e][2] <= made[s]

\* Every own key but that of an open rotation belongs to an epoch some event was
\* logged under, so the foreign key of `events` keeps its row.
OwnKeysUsed(s) ==
    /\ \A e \in Epochs : Rotating(s, e).phase \in Agreed => e \in used[s]
    /\ \A e \in OwnEpochs(s) : e \in used[s] \/ e \in InFlight(s, "rotating")
    /\ \A e \in Epochs : Rotating(s, e).phase # "none" => Rotating(s, e).prior \in used[s]

\* p holds key for good.
Kept(p, key) == \E e \in used[p] : epochs[p][e] = key /\ key[1] = p

\* s's open or finished rotation to e, once the peer acknowledged it.
Acknowledged(s, e) == Rotating(s, e).phase \in {"acknowledged", "confirmed"} \/ keyEpoch[s] >= e

\* What an event on its way to s, or waiting for its hook, says of its sender.
EventHeld(s, m) ==
    LET p == Peer(s)
    IN  /\ m.type = "prepare" =>
              /\ m.key \in Keys /\ m.key[1] = p /\ m.key[2] <= made[p] /\ Kept(p, m.prior)
              /\ m.deadline \in Nat
        /\ m.type = "ack" =>
              /\ m.e \in Epochs /\ Acking(p, m.e).phase # "none"
              /\ m.epoch = m.e \/ Acknowledged(s, m.e)
        /\ m.type = "confirm" => m.e \in Epochs /\ Acknowledged(p, m.e)
        /\ m.type = "commit" => m.e \in Epochs /\ Acking(p, m.e).phase \in {"confirmed", "committed"}

EventsHeld(s) ==
    /\ \A m \in net[s] \cup due[s] : EventHeld(s, m) /\ m.epoch \in Epochs
    /\ \A m \in due[s] : m.epoch \in used[s]
    /\ latest[s] # NoEvent => EventHeld(s, latest[s]) /\ latest[s].type = "prepare"

\* How the two sides' rotations of one epoch go together.
InStep(s) ==
    LET p == Peer(s)
    IN  /\ \A e \in Epochs : Acking(s, e).phase \in {"confirmed", "committed"} => Acknowledged(p, e)
        /\ \A e \in Epochs : Rotating(s, e).phase \in Agreed => Acking(p, e).phase # "none"
        /\ keyEpoch[s] > keyEpoch[p] =>
              /\ keyEpoch[s] = keyEpoch[p] + 1
              /\ \/ Rotating(p, keyEpoch[s]).phase \in {"acknowledged", "confirmed"}
                 \/ Acking(p, keyEpoch[s]).phase = "confirmed"
        /\ \A e \in InFlight(s, "acking") : keyEpoch[p] >= e =>
              /\ epochs[p][e][1] = p /\ e \in used[p]
              /\ Acking(s, e).key[2] <= epochs[p][e][2]

\* The peer no longer has the key s seals to: it restarted the rotation of s's current
\* epoch with a newer key.  Nothing s seals from then on is opened, so s stays there.
Split(s) ==
    LET p == Peer(s)
        k == keyEpoch[s]
    IN  /\ \A e \in Epochs : epochs[p][e] # peerKey[s]
        /\ epochs[p][k][1] = p /\ epochs[p][k][2] > peerKey[s][2] /\ k \in used[p]
        /\ epochs[s][k] = peerKey[s] /\ InFlight(s, "acking") = {}
        /\ \A e \in Epochs : Acking(p, e).phase \in {"confirmed", "committed"} => e <= k
        /\ \A m \in net[p] \cup due[p] : m.type = "confirm" /\ m.e > k =>
              m \notin due[p] /\ m.wraps = {peerKey[s]}

SealsHeld(s) ==
    /\ peerKey[s][1] = Peer(s) /\ peerKey[s][2] <= made[Peer(s)]
    /\ Kept(Peer(s), peerKey[s]) \/ Split(s)

LocalInv(s) == OneOpen(s) /\ RowsAgree(s) /\ OwnKeysUsed(s)
CeremonyInv == \A s \in Sides : LocalInv(s) /\ EventsHeld(s) /\ InStep(s)
RotationInv == CeremonyInv /\ \A s \in Sides : SealsHeld(s)

-----------------------------------------------------------------------------
\* There are two sides, each the other's peer.
LEMMA TwoSides ==
    ASSUME NEW s \in Sides
    PROVE  /\ Peer(s) \in Sides /\ Peer(s) # s /\ Peer(Peer(s)) = s
           /\ \A x \in Sides : x = s \/ x = Peer(s)
<1>1. PICK x \in Sides, y \in Sides : x # y /\ Sides = {x, y}
  BY ConstantsAssumption
<1>2. Peer(x) = y /\ Peer(y) = x
  BY <1>1 DEF Peer
<1>3. QED
  BY <1>1, <1>2

\* A key has an owner and a number; the null key has no owner.
LEMMA KeyParts ==
    /\ \A k \in Keys : k = <<k[1], k[2]>> /\ k[1] \in Sides /\ k[2] \in Nat
    /\ NoKey[1] \notin Sides
  BY ConstantsAssumption DEF Keys, NoKey

\* The largest element, when it is known.
LEMMA MaxIs ==
    ASSUME NEW S, NEW x \in S, x \in Int, \A y \in S : y \in Int /\ x >= y
    PROVE  Max(S) = x
<1>1. Max(S) \in S /\ \A y \in S : Max(S) >= y
  BY DEF Max
<1>2. PICK m \in S : m = Max(S)
  BY <1>1
<1>3. m \in Int /\ x >= m /\ m >= x
  BY <1>1, <1>2
<1>4. QED
  BY <1>2, <1>3

\* The least element of a singleton.
LEMMA MinIs ==
    ASSUME NEW S, NEW x, S = {x}, x \in Int
    PROVE  Min(S) = x
  BY DEF Min

\* A set of naturals has a smallest element.
LEMMA MinIn ==
    ASSUME NEW S, S \subseteq Nat, S # {}
    PROVE  Min(S) \in S /\ \A y \in S : Min(S) <= y
<1> DEFINE R == {ss \in Nat \X Nat : ss[1] < ss[2]}
<1>1. IsWellFoundedOn(R, Nat)
  BY NatLessThanWellFounded DEF OpToRel
<1>2. PICK x \in S : \A y \in S : ~(<<y, x>> \in R)
  <2> HIDE DEF R
  <2> QED
    BY <1>1, WFMin
<1>3. ASSUME NEW y \in S PROVE x <= y
  <2>1. x \in Nat /\ y \in Nat /\ ~(<<y, x>> \in R)
    BY <1>2
  <2>2. y < x => <<y, x>> \in R
    BY <2>1
  <2>3. QED
    BY <2>1, <2>2
<1>4. QED
  BY <1>3 DEF Min

\* A set of epochs has a largest element.
LEMMA MaxIn ==
    ASSUME NEW S, S \subseteq Epochs, S # {}
    PROVE  Max(S) \in S /\ \A y \in S : Max(S) >= y
<1> DEFINE T == {MaxEpoch - e : e \in S}
<1>1. T \subseteq Nat /\ T # {}
  <2>1. MaxEpoch \in Nat /\ \A e \in S : e \in Nat /\ e <= MaxEpoch
    BY ConstantsAssumption DEF Epochs
  <2>2. \A e \in S : MaxEpoch - e \in Nat
    BY <2>1
  <2>3. QED
    BY <2>2
<1>2. Min(T) \in T /\ \A y \in T : Min(T) <= y
  <2> HIDE DEF T
  <2> QED
    BY <1>1, MinIn
<1>3. PICK x \in S : Min(T) = MaxEpoch - x
  BY <1>2
<1>4. ASSUME NEW y \in S PROVE x >= y
  <2>1. MaxEpoch - x <= MaxEpoch - y
    BY <1>2, <1>3
  <2>2. QED
    BY <2>1, ConstantsAssumption DEF Epochs
<1>5. QED
  BY <1>4 DEF Max

-----------------------------------------------------------------------------
\* What the type says of one row of key_rotations.
LEMMA RowFields ==
    ASSUME RotationTypeOK, NEW s \in Sides, NEW r \in Roles, NEW e \in Epochs
    PROVE  /\ rot[s][r][e].phase \in Phases \cup {"none"}
           /\ rot[s][r][e].phase # "none" =>
                 /\ rot[s][r][e] \in Rows
                 /\ rot[s][r][e].prior \in Epochs /\ rot[s][r][e].key \in Keys
           /\ e \in InFlight(s, r) <=> rot[s][r][e].phase \in Open
<1>1. rot[s][r][e] \in Rows \cup {NoRow}
  BY DEF RotationTypeOK
<1>2. NoRow.phase = "none"
  BY DEF NoRow
<1>3. \A row \in Rows : row.phase \in Phases /\ row.prior \in Epochs /\ row.key \in Keys
  BY DEF Rows
<1>4. "none" \notin Phases
  BY DEF Phases
<1>5. /\ rot[s][r][e].phase \in Phases \cup {"none"}
      /\ rot[s][r][e].phase # "none" =>
            /\ rot[s][r][e] \in Rows
            /\ rot[s][r][e].prior \in Epochs /\ rot[s][r][e].key \in Keys
  BY <1>1, <1>2, <1>3, <1>4
<1>6. QED
  BY <1>5 DEF InFlight, Phases, Open

\* Everything about the rows but who has seen a wrap stays.
SameRows(t, q, f) ==
    /\ rot'[t][q][f].phase = rot[t][q][f].phase
    /\ rot'[t][q][f].key = rot[t][q][f].key
    /\ rot'[t][q][f].prior = rot[t][q][f].prior

\* A row is written, or only its phase.
Written(s, r, e, row) == rot' = [rot EXCEPT ![s][r][e] = row]

\* The rest of key_rotations after a row is written.
LEMMA RowWrite ==
    ASSUME RotationTypeOK, NEW s \in Sides, NEW r \in Roles, NEW e \in Epochs, NEW row \in Rows,
           Written(s, r, e, row)
    PROVE  /\ rot' \in [Sides -> [Roles -> [Epochs -> Rows \cup {NoRow}]]]
           /\ rot'[s][r][e] = row
           /\ \A t \in Sides, q \in Roles, f \in Epochs :
                 t # s \/ q # r \/ f # e => rot'[t][q][f] = rot[t][q][f]
<1> DEFINE R == Rows \cup {NoRow}
<1>1. rot \in [Sides -> [Roles -> [Epochs -> R]]] /\ row \in R
  BY DEF RotationTypeOK
<1> HIDE DEF R
<1>2. /\ rot' \in [Sides -> [Roles -> [Epochs -> R]]]
      /\ rot'[s][r][e] = row
      /\ \A t \in Sides, q \in Roles, f \in Epochs :
            t # s \/ q # r \/ f # e => rot'[t][q][f] = rot[t][q][f]
  BY <1>1 DEF Written
<1>3. QED
  BY <1>2 DEF R

Rephased(s, r, e, x) ==
    \E row \in Rows :
        /\ Written(s, r, e, row)
        /\ row.phase = x /\ row.key = rot[s][r][e].key /\ row.prior = rot[s][r][e].prior

\* The rest of key_rotations after a row changes its phase.
LEMMA PhaseWrite ==
    ASSUME RotationTypeOK, NEW s \in Sides, NEW r \in Roles, NEW e \in Epochs, NEW x,
           Rephased(s, r, e, x)
    PROVE  /\ rot' \in [Sides -> [Roles -> [Epochs -> Rows \cup {NoRow}]]]
           /\ rot'[s][r][e].phase = x
           /\ rot'[s][r][e].key = rot[s][r][e].key /\ rot'[s][r][e].prior = rot[s][r][e].prior
           /\ \A t \in Sides, q \in Roles, f \in Epochs :
                 t # s \/ q # r \/ f # e => rot'[t][q][f] = rot[t][q][f]
<1>1. PICK row \in Rows :
        /\ Written(s, r, e, row)
        /\ row.phase = x /\ row.key = rot[s][r][e].key /\ row.prior = rot[s][r][e].prior
  BY DEF Rephased
<1>2. QED
  BY <1>1, RowWrite

\* An UPDATE of the phase column alone rephases the row.
LEMMA PhaseRow ==
    ASSUME RotationTypeOK, NEW s \in Sides, NEW r \in Roles, NEW e \in Epochs, NEW x \in Phases,
           rot[s][r][e].phase # "none", rot' = [rot EXCEPT ![s][r][e].phase = x]
    PROVE  Rephased(s, r, e, x)
<1> DEFINE row == [rot[s][r][e] EXCEPT !.phase = x]
<1>1. rot[s][r][e] \in Rows
  BY RowFields
<1>2. row \in Rows
  BY <1>1 DEF Rows
<1>3. row.phase = x /\ row.key = rot[s][r][e].key /\ row.prior = rot[s][r][e].prior
  BY <1>1 DEF Rows
<1>4. Written(s, r, e, row)
  BY DEF Written
<1> HIDE DEF row
<1>5. QED
  BY <1>2, <1>3, <1>4, Zenon DEF Rephased

-----------------------------------------------------------------------------
\* What a side sends is sealed under the epoch of the rotation it acknowledged, as long
\* as that is open, and else to the peer's current key alone.
LEMMA SealFacts ==
    ASSUME RotationTypeOK, NEW s \in Sides, OneOpen(s)
    PROVE  /\ SealEpoch(s) \in Epochs
           /\ \A e \in InFlight(s, "acking") : SealEpoch(s) = e
           /\ InFlight(s, "acking") = {} => SealWraps(s) = {peerKey[s]}
<1>1. keyEpoch[s] \in Epochs /\ Epochs \subseteq Int
  BY DEF RotationTypeOK, Epochs
<1>2. CASE InFlight(s, "acking") = {}
  BY <1>1, <1>2 DEF SealEpoch, SealWraps
<1>3. CASE InFlight(s, "acking") # {}
  <2>1. PICK e \in InFlight(s, "acking") : TRUE
    BY <1>3
  <2>2. e \in Epochs /\ e \in Int
    BY <1>1, <2>1 DEF InFlight
  <2>5. \A f \in InFlight(s, "acking") : f = e
    BY <2>1 DEF OneOpen, Roles
  <2>3. Max(InFlight(s, "acking")) = e
    <3>1. \A f \in InFlight(s, "acking") : f \in Int /\ e >= f
      BY <2>2, <2>5
    <3>2. QED
      BY <2>1, <2>2, <3>1, MaxIs
  <2>4. QED
    BY <1>3, <2>2, <2>3, <2>5 DEF SealEpoch
<1>4. QED
  BY <1>2, <1>3

\* A key in a row that an event refers to is held as long as such rows stay.
LEMMA KeptStays ==
    ASSUME NEW q, used[q] \subseteq used'[q],
           \A e \in used[q] : epochs[q][e][1] = q => epochs'[q][e] = epochs[q][e],
           NEW key, Kept(q, key)
    PROVE  Kept(q, key)'
  BY DEF Kept

\* What no step takes back.
Grows ==
    \A q \in Sides :
        /\ made[q] <= made'[q]
        /\ \A key : Kept(q, key) => Kept(q, key)'
        /\ \A e \in Epochs :
              /\ Acking(q, e).phase # "none" => Acking(q, e)'.phase # "none"
              /\ Acking(q, e).phase \in {"confirmed", "committed"} =>
                    Acking(q, e)'.phase \in {"confirmed", "committed"}
              /\ Acknowledged(q, e) => Acknowledged(q, e)'

\* What an event says of its sender stays true while nothing is taken back.
LEMMA EventStays ==
    ASSUME RotationTypeOK, made' \in [Sides -> Nat], Grows, NEW s \in Sides, NEW m, EventHeld(s, m)
    PROVE  EventHeld(s, m)'
<1> DEFINE p == Peer(s)
<1>1. p \in Sides
  BY TwoSides
<1>2. CASE m.type = "prepare"
  <2>1. m.key \in Keys /\ m.key[1] = p /\ m.key[2] <= made[p] /\ Kept(p, m.prior)
    BY <1>2 DEF EventHeld
  <2>2. m.key[2] \in Nat /\ made[p] \in Nat /\ made'[p] \in Nat /\ made[p] <= made'[p]
    BY <1>1, <2>1, KeyParts DEF RotationTypeOK, Grows
  <2>3. Kept(p, m.prior)'
    BY <1>1, <2>1 DEF Grows
  <2>4. m.key[2] <= made'[p]
    BY <2>1, <2>2
  <2>5. QED
    BY <1>2, <2>1, <2>3, <2>4 DEF EventHeld
<1>3. CASE m.type = "ack"
  BY <1>1, <1>3 DEF EventHeld, Grows
<1>4. CASE m.type = "confirm"
  BY <1>1, <1>4 DEF EventHeld, Grows
<1>5. CASE m.type = "commit"
  BY <1>1, <1>5 DEF EventHeld, Grows
<1>6. QED
  BY <1>2, <1>3, <1>4, <1>5 DEF EventHeld

\* Events that wait stay true, whatever is consumed, accepted or sent.
LEMMA EventsStay ==
    ASSUME RotationTypeOK, made' \in [Sides -> Nat], Grows, NEW s \in Sides, EventsHeld(s),
           used[s] \subseteq used'[s],
           \A m \in net'[s] : m \in net[s] \/ (EventHeld(s, m) /\ m.epoch \in Epochs),
           \A m \in due'[s] : m \in due[s] \/ (m \in net[s] /\ m.epoch \in used'[s]),
           \/ latest'[s] = latest[s]
           \/ latest'[s] \in net[s] /\ latest'[s].type = "prepare"
    PROVE  EventsHeld(s)'
<1>1. \A m \in net'[s] \cup due'[s] : EventHeld(s, m) /\ m.epoch \in Epochs
  BY DEF EventsHeld
<1>2. latest'[s] # NoEvent => EventHeld(s, latest'[s]) /\ latest'[s].type = "prepare"
  BY DEF EventsHeld
<1>3. \A m : EventHeld(s, m) => EventHeld(s, m)'
  BY EventStays
<1>4. \A m \in net'[s] \cup due'[s] : EventHeld(s, m)' /\ m.epoch \in Epochs
  BY <1>1, <1>3
<1>5. latest'[s] # NoEvent => EventHeld(s, latest[s])' /\ latest'[s].type = "prepare"
  <2>1. PICK m : m = latest'[s]
    OBVIOUS
  <2>2. latest'[s] # NoEvent => EventHeld(s, m)' /\ m.type = "prepare"
    BY <1>2, <1>3, <2>1
  <2>3. QED
    BY <2>1, <2>2 DEF EventHeld
<1>6. \A m \in due'[s] : m.epoch \in used'[s]
  BY DEF EventsHeld
<1>7. QED
  BY <1>4, <1>5, <1>6 DEF EventsHeld

\* What a side knows of its own database stays when only its log grows.
LEMMA SideKeeps ==
    ASSUME RotationTypeOK, made' \in [Sides -> Nat], NEW s \in Sides, LocalInv(s),
           keyEpoch'[s] = keyEpoch[s], epochs'[s] = epochs[s], made'[s] = made[s],
           made[Peer(s)] <= made'[Peer(s)], used[s] \subseteq used'[s],
           \A q \in Roles, f \in Epochs : SameRows(s, q, f)
    PROVE  LocalInv(s)'
<1>1. "acking" \in Roles /\ "rotating" \in Roles
  BY DEF Roles
<1>2. /\ InFlight(s, "rotating")' = InFlight(s, "rotating")
      /\ InFlight(s, "acking")' = InFlight(s, "acking")
      /\ \A q \in Roles : InFlight(s, q)' = InFlight(s, q)
  BY <1>1 DEF InFlight, SameRows
<1>3. OwnEpochs(s)' = OwnEpochs(s) /\ PeerRows(s)' = PeerRows(s)
  BY DEF OwnEpochs, PeerRows
<1>4. OneOpen(s)'
  BY <1>2 DEF OneOpen, LocalInv, SameRows
<1>5. RowsAgree(s)'
  <2>1. \A e \in Epochs : Acking(s, e).phase # "none" => Acking(s, e).key[2] <= made'[Peer(s)]
    <3> SUFFICES ASSUME NEW e \in Epochs, Acking(s, e).phase # "none"
                 PROVE  Acking(s, e).key[2] <= made'[Peer(s)]
      OBVIOUS
    <3>1. Acking(s, e).key[2] \in Nat
      BY <1>1, RowFields, KeyParts DEF Acking
    <3>2. Acking(s, e).key[2] <= made[Peer(s)] /\ Peer(s) \in Sides
      BY TwoSides DEF LocalInv, RowsAgree
    <3>3. QED
      BY <3>1, <3>2 DEF RotationTypeOK
  <2>2. \A e \in Epochs :
          /\ Acking(s, e)'.phase = Acking(s, e).phase /\ Acking(s, e)'.key = Acking(s, e).key
          /\ Rotating(s, e)'.phase = Rotating(s, e).phase /\ Rotating(s, e)'.key = Rotating(s, e).key
          /\ Rotating(s, e)'.prior = Rotating(s, e).prior
    BY <1>1 DEF SameRows, Acking, Rotating
  <2>3. /\ InFlight(s, "rotating") \subseteq Epochs /\ InFlight(s, "acking") \subseteq Epochs
        /\ PeerRows(s) \subseteq Epochs
    BY DEF InFlight, PeerRows
  <2>4. RowsAgree(s)
    BY DEF LocalInv
  <2>5. QED
    BY <1>2, <1>3, <2>1, <2>2, <2>3, <2>4 DEF RowsAgree
<1>6. OwnKeysUsed(s)'
  BY <1>1, <1>2, <1>3 DEF OwnKeysUsed, LocalInv, SameRows, Rotating
<1>7. QED
  BY <1>4, <1>5, <1>6 DEF LocalInv

\* A step that leaves both databases alone but for the log.
LEMMA QuietStep ==
    ASSUME RotationTypeOK, CeremonyInv,
           keyEpoch' = keyEpoch, epochs' = epochs, made' = made,
           \A t \in Sides : used[t] \subseteq used'[t],
           \A t \in Sides, q \in Roles, f \in Epochs : SameRows(t, q, f)
    PROVE  Grows /\ \A t \in Sides : LocalInv(t)' /\ InStep(t)'
<1>1. made' \in [Sides -> Nat] /\ \A t \in Sides : made'[t] = made[t] /\ made[t] <= made'[t]
  BY DEF RotationTypeOK
<1>2. \A t \in Sides : LocalInv(t)'
  BY <1>1, SideKeeps, TwoSides DEF CeremonyInv
<1>3. \A t \in Sides, e \in Epochs :
        /\ Acking(t, e)'.phase = Acking(t, e).phase /\ Acking(t, e)'.key = Acking(t, e).key
        /\ Rotating(t, e)'.phase = Rotating(t, e).phase
  BY DEF SameRows, Acking, Rotating, Roles
<1>4. \A t \in Sides : InFlight(t, "acking")' = InFlight(t, "acking")
  BY <1>3 DEF InFlight, Acking
<1>5. \A t \in Sides, e \in Epochs : Acknowledged(t, e)' <=> Acknowledged(t, e)
  BY <1>3 DEF Acknowledged
<1>6. ASSUME NEW t \in Sides PROVE InStep(t)'
  <2>1. Peer(t) \in Sides /\ InStep(t)
    BY TwoSides DEF CeremonyInv
  <2>2. keyEpoch[t] \in Epochs /\ InFlight(t, "acking") \subseteq Epochs
    BY DEF RotationTypeOK, InFlight
  <2>3. QED
    BY <1>3, <1>4, <1>5, <2>1, <2>2 DEF InStep
<1>7. \A t \in Sides : \A key : Kept(t, key) => Kept(t, key)'
  BY KeptStays
<1>8. Grows
  BY <1>1, <1>3, <1>5, <1>7 DEF Grows
<1>9. QED
  BY <1>2, <1>6, <1>8

-----------------------------------------------------------------------------
\* A step that writes no key, epoch or phase: it logs, sends, accepts or consumes events.
Quiet ==
    /\ keyEpoch' = keyEpoch /\ peerKey' = peerKey /\ epochs' = epochs /\ made' = made
    /\ \A t \in Sides, q \in Roles, f \in Epochs : SameRows(t, q, f)
    /\ \A t \in Sides :
          /\ used[t] \subseteq used'[t]
          /\ \A m \in net'[t] :
                \/ m \in net[t]
                \/ /\ EventHeld(t, m) /\ m.epoch \in Epochs
                   /\ m.type = "confirm" => m.wraps = {peerKey[Peer(t)]}
          /\ \A m \in due'[t] : m \in due[t] \/ (m \in net[t] /\ Unsealable(t, m) /\ m.epoch \in used'[t])
          /\ \/ latest'[t] = latest[t]
             \/ latest'[t] \in net[t] /\ latest'[t].type = "prepare"

\* Quiet steps keep the ceremony.
LEMMA QuietKeeps ==
    ASSUME RotationTypeOK, CeremonyInv, Quiet
    PROVE  Grows /\ CeremonyInv'
<1>1. Grows /\ \A t \in Sides : LocalInv(t)' /\ InStep(t)'
  BY QuietStep DEF Quiet
<1>2. made' \in [Sides -> Nat]
  BY DEF Quiet, RotationTypeOK
<1>3. ASSUME NEW t \in Sides PROVE EventsHeld(t)'
  <2>1. used[t] \subseteq used'[t]
    BY DEF Quiet
  <2>4. \A m \in net'[t] : m \in net[t] \/ (EventHeld(t, m) /\ m.epoch \in Epochs)
    BY DEF Quiet
  <2>5. \A m \in due'[t] : m \in due[t] \/ (m \in net[t] /\ m.epoch \in used'[t])
    BY DEF Quiet
  <2>6. \/ latest'[t] = latest[t]
        \/ latest'[t] \in net[t] /\ latest'[t].type = "prepare"
    BY DEF Quiet
  <2>2. EventsHeld(t)
    BY DEF CeremonyInv
  <2>3. QED
    BY <1>1, <1>2, <2>1, <2>2, <2>4, <2>5, <2>6, EventsStay
<1>4. QED
  BY <1>1, <1>3 DEF CeremonyInv

\* What a payload must say for its event to hold.
Payload(s, type, body) ==
    LET p == Peer(s)
    IN  /\ type = "prepare" =>
              /\ body.key \in Keys /\ body.key[1] = s /\ body.key[2] <= made[s]
              /\ Kept(s, body.prior) /\ body.deadline \in Nat
        /\ type = "ack" =>
              /\ body.e \in Epochs /\ Acking(s, body.e).phase # "none"
              /\ SealEpoch(s) = body.e \/ Acknowledged(p, body.e)
        /\ type = "confirm" => /\ body.e \in Epochs /\ Acknowledged(s, body.e)
                               /\ SealWraps(s) = {peerKey[s]}
        /\ type = "commit" => body.e \in Epochs /\ Acking(s, body.e).phase \in {"confirmed", "committed"}

\* What Send does to the log and the relay.
Sent(s) ==
    /\ used' \in [Sides -> SUBSET Epochs] /\ DOMAIN net' = Sides
    /\ \A t \in Sides :
          /\ used[t] \subseteq used'[t]
          /\ \A m \in net'[t] :
                \/ m \in net[t]
                \/ /\ EventHeld(t, m) /\ m.epoch \in Epochs
                   /\ m.type = "confirm" => m.wraps = {peerKey[Peer(t)]}

\* An event with a true payload is a true event on the relay.
LEMMA SendEffect ==
    ASSUME RotationTypeOK, CeremonyInv, NEW s \in Sides, NEW type, NEW body, Send(s, type, body),
           Payload(s, type, body)
    PROVE  Sent(s)
<1> DEFINE p == Peer(s)
<1>1. p \in Sides /\ p # s /\ Peer(p) = s /\ \A x \in Sides : x = s \/ x = p
  BY TwoSides
<1>2. SealEpoch(s) \in Epochs
  BY SealFacts DEF CeremonyInv, LocalInv
<1>3. PICK m : /\ m = [id |-> IF type = "data" THEN 0 ELSE sent[s] + 1, epoch |-> SealEpoch(s),
                      wraps |-> SealWraps(s), type |-> type, e |-> body.e,
                      prior |-> body.prior, key |-> body.key, deadline |-> body.deadline]
               /\ used' = [used EXCEPT ![s] = @ \cup {m.epoch}]
               /\ net' = [net EXCEPT ![Peer(s)] = @ \cup {m}]
  BY DEF Send
<1>4. /\ m.epoch = SealEpoch(s) /\ m.wraps = SealWraps(s) /\ m.type = type /\ m.e = body.e
      /\ m.prior = body.prior /\ m.key = body.key /\ m.deadline = body.deadline
  BY <1>3
<1>5. EventHeld(p, m)
  BY <1>1, <1>4 DEF EventHeld, Payload
<1>6. m.type = "confirm" => m.wraps = {peerKey[s]}
  BY <1>4 DEF Payload
<1>7. used' \in [Sides -> SUBSET Epochs] /\ \A t \in Sides : used[t] \subseteq used'[t]
  BY <1>2, <1>3, <1>4 DEF RotationTypeOK
<1>8. DOMAIN net' = Sides /\ \A t \in Sides : \A x \in net'[t] : x \in net[t] \/ (t = p /\ x = m)
  BY <1>1, <1>3 DEF RotationTypeOK
<1>9. QED
  BY <1>1, <1>2, <1>4, <1>5, <1>6, <1>7, <1>8 DEF Sent

\* A send that leaves the database alone is quiet.
LEMMA SendIsQuiet ==
    ASSUME RotationTypeOK, NEW s, Sent(s), UNCHANGED <<dbVars, latest, made, now>>,
           DOMAIN due' = Sides, \A t \in Sides : due'[t] \subseteq due[t]
    PROVE  RotationTypeOK' /\ Quiet
<1>1. RotationTypeOK'
  BY DEF RotationTypeOK, Sent, dbVars
<1>2. QED
  BY <1>1 DEF Quiet, SameRows, Sent, dbVars

\* A considered prepare is one the peer sent.
LEMMA ConsideredHolds ==
    ASSUME CeremonyInv, NEW s \in Sides, NEW m \in due[s] \cup ({latest[s]} \ {NoEvent})
    PROVE  EventHeld(s, m)
  BY DEF CeremonyInv, EventsHeld

\* Every event a side sends says what is true of it.
LEMMA SendsAreQuiet ==
    ASSUME RotationTypeOK, CeremonyInv, NEW s \in Sides,
           SendData(s) \/ SendPrepare(s) \/ SendConfirm(s) \/ SendCommit(s)
    PROVE  RotationTypeOK' /\ Quiet
<1>1. DOMAIN due = Sides /\ LocalInv(s) /\ "rotating" \in Roles /\ "acking" \in Roles
  BY DEF RotationTypeOK, CeremonyInv, Roles
<1>2. CASE SendData(s)
  <2>1. Send(s, "data", Blank) /\ UNCHANGED <<dbVars, latest, due, made, now>>
    BY <1>2 DEF SendData
  <2>2. Payload(s, "data", Blank)
    BY DEF Payload
  <2>3. Sent(s)
    BY <2>1, <2>2, SendEffect
  <2>4. QED
    BY <1>1, <2>1, <2>3, SendIsQuiet
<1>3. CASE SendPrepare(s)
  <2>1. PICK e \in InFlight(s, "rotating") :
          Send(s, "prepare", [e |-> e, prior |-> epochs[s][rot[s]["rotating"][e].prior],
                              key |-> rot[s]["rotating"][e].key,
                              deadline |-> rot[s]["rotating"][e].deadline])
    BY <1>3 DEF SendPrepare
  <2>2. PICK body : body = [e |-> e, prior |-> epochs[s][rot[s]["rotating"][e].prior],
                            key |-> rot[s]["rotating"][e].key,
                            deadline |-> rot[s]["rotating"][e].deadline]
    OBVIOUS
  <2>3. /\ body.prior = epochs[s][Rotating(s, e).prior] /\ body.key = Rotating(s, e).key
        /\ body.deadline = Rotating(s, e).deadline
    BY <2>2 DEF Rotating
  <2>4. e \in Epochs /\ Rotating(s, e).phase # "none"
    BY <2>1 DEF InFlight, Rotating
  <2>5. Rotating(s, e) \in Rows /\ Rotating(s, e).prior \in Epochs /\ Rotating(s, e).key \in Keys
    BY <1>1, <2>4, RowFields DEF Rotating
  <2>6. body.deadline \in Nat
    BY <2>3, <2>5 DEF Rows
  <2>7. /\ epochs[s][e] = Rotating(s, e).key /\ epochs[s][e] = <<s, made[s]>>
        /\ epochs[s][Rotating(s, e).prior][1] = s
    BY <1>1, <2>1 DEF LocalInv, RowsAgree
  <2>8. Rotating(s, e).prior \in used[s]
    BY <1>1, <2>4 DEF LocalInv, OwnKeysUsed
  <2>9. Kept(s, body.prior)
    BY <2>3, <2>7, <2>8 DEF Kept
  <2>10. body.key[1] = s /\ body.key[2] <= made[s]
    BY <2>3, <2>7 DEF RotationTypeOK
  <2>11. Payload(s, "prepare", body)
    BY <2>3, <2>5, <2>6, <2>9, <2>10 DEF Payload
  <2>12. Sent(s)
    BY <2>1, <2>2, <2>11, SendEffect
  <2>13. UNCHANGED <<dbVars, latest, due, made, now>>
    BY <1>3 DEF SendPrepare
  <2>14. QED
    BY <1>1, <2>12, <2>13, SendIsQuiet
<1>4. CASE SendConfirm(s)
  <2>1. PICK e \in InFlight(s, "rotating") :
          /\ rot[s]["rotating"][e].phase \in {"acknowledged", "confirmed"}
          /\ Send(s, "confirm", [Blank EXCEPT !.e = e])
    BY <1>4 DEF SendConfirm
  <2>2. PICK body : body = [Blank EXCEPT !.e = e]
    OBVIOUS
  <2>3. body.e = e
    BY <2>2 DEF Blank
  <2>4. e \in Epochs /\ Acknowledged(s, e)
    BY <2>1 DEF InFlight, Rotating, Acknowledged
  <2>5. InFlight(s, "acking") = {}
    BY <1>1, <2>1 DEF LocalInv, OneOpen
  <2>6. SealWraps(s) = {peerKey[s]}
    BY <1>1, <2>5, SealFacts DEF LocalInv
  <2>7. Payload(s, "confirm", body)
    BY <2>3, <2>4, <2>6 DEF Payload
  <2>8. Sent(s)
    BY <2>1, <2>2, <2>7, SendEffect
  <2>9. UNCHANGED <<dbVars, latest, due, made, now>>
    BY <1>4 DEF SendConfirm
  <2>10. QED
    BY <1>1, <2>8, <2>9, SendIsQuiet
<1>5. CASE SendCommit(s)
  <2>1. PICK e : /\ e = IF Confirmed(s) # {} THEN Max(Confirmed(s)) ELSE Max(Committed(s))
                 /\ Send(s, "commit", [Blank EXCEPT !.e = e])
    BY <1>5 DEF SendCommit
  <2>2. PICK body : body = [Blank EXCEPT !.e = e]
    OBVIOUS
  <2>3. body.e = e
    BY <2>2 DEF Blank
  <2>4. Confirmed(s) \subseteq Epochs /\ Committed(s) \subseteq Epochs
    BY DEF Confirmed, Committed
  <2>5. e \in Confirmed(s) \cup Committed(s)
    BY <1>5, <2>1, <2>4, MaxIn DEF SendCommit
  <2>6. e \in Epochs /\ Acking(s, e).phase \in {"confirmed", "committed"}
    BY <2>5 DEF Confirmed, Committed, Acking
  <2>7. Payload(s, "commit", body)
    BY <2>3, <2>6 DEF Payload
  <2>8. Sent(s)
    BY <2>1, <2>2, <2>7, SendEffect
  <2>9. UNCHANGED <<dbVars, latest, due, made, now>>
    BY <1>5 DEF SendCommit
  <2>10. QED
    BY <1>1, <2>8, <2>9, SendIsQuiet
<1>6. QED
  BY <1>2, <1>3, <1>4, <1>5

\* An ack is sealed under the epoch it acknowledges, or the peer has moved on already.
LEMMA AckIsQuiet ==
    ASSUME RotationTypeOK, CeremonyInv, NEW s \in Sides, NEW m, SendAck(s, m)
    PROVE  RotationTypeOK' /\ Quiet
<1>1. DOMAIN due = Sides /\ LocalInv(s) /\ InStep(s) /\ "acking" \in Roles
  BY DEF RotationTypeOK, CeremonyInv, Roles
<1>2. PICK e : e = PriorEpoch(s, m) + 1
  OBVIOUS
<1>3. e \in PeerRows(s)
  BY <1>2 DEF SendAck, Repeated
<1>4. e \in Epochs /\ Acking(s, e).phase # "none"
  BY <1>1, <1>3 DEF LocalInv, RowsAgree, PeerRows
<1>5. Acking(s, e).phase \in Open \cup {"committed"}
  <2>1. Acking(s, e).phase \in Phases \cup {"none"} /\ Acking(s, e).phase # "discarded"
    BY <1>1, <1>4, RowFields DEF Acking, LocalInv, RowsAgree
  <2>2. QED
    BY <1>4, <2>1 DEF Phases, Open
<1>6. SealEpoch(s) = e \/ Acknowledged(Peer(s), e)
  <2>1. CASE Acking(s, e).phase = "committed"
    BY <1>1, <1>4, <2>1 DEF InStep
  <2>2. CASE Acking(s, e).phase \in Open
    <3>1. e \in InFlight(s, "acking")
      BY <1>4, <2>2 DEF InFlight, Acking, Open
    <3>2. QED
      BY <1>1, <3>1, SealFacts DEF LocalInv
  <2>3. QED
    BY <1>5, <2>1, <2>2
<1>7. PICK body : body = [Blank EXCEPT !.e = PriorEpoch(s, m) + 1]
  OBVIOUS
<1>8. body.e = e
  BY <1>2, <1>7 DEF Blank
<1>9. Payload(s, "ack", body)
  BY <1>4, <1>6, <1>8 DEF Payload
<1>10. Send(s, "ack", body)
  BY <1>7 DEF SendAck
<1>11. Sent(s)
  BY <1>9, <1>10, SendEffect
<1>12. DOMAIN due' = Sides /\ (\A t \in Sides : due'[t] \subseteq due[t])
  BY <1>1 DEF SendAck, MarkDone
<1>13. UNCHANGED <<dbVars, latest, made, now>>
  BY DEF SendAck
<1>14. QED
  BY <1>11, <1>12, <1>13, SendIsQuiet

\* note_decrypted_new_wrap writes the seen column alone.
LEMMA SeenRow ==
    ASSUME RotationTypeOK, NEW s \in Sides, NEW e \in InFlight(s, "rotating"),
           rot' = [rot EXCEPT ![s]["rotating"][e].seen = TRUE]
    PROVE  Rephased(s, "rotating", e, rot[s]["rotating"][e].phase)
<1> DEFINE r == "rotating"
           row == [rot[s][r][e] EXCEPT !.seen = TRUE]
<1>1. e \in Epochs /\ rot[s][r][e].phase # "none" /\ r \in Roles
  BY DEF InFlight, Roles
<1>2. rot[s][r][e] \in Rows
  BY <1>1, RowFields
<1>3. row \in Rows
  BY <1>2 DEF Rows
<1>4. row.phase = rot[s][r][e].phase /\ row.key = rot[s][r][e].key /\ row.prior = rot[s][r][e].prior
  BY <1>2 DEF Rows
<1>5. Written(s, r, e, row)
  BY DEF Written
<1> HIDE DEF row
<1>6. QED
  BY <1>3, <1>4, <1>5, Zenon DEF Rephased

\* The receive transaction logs an event that one of this side's keys opened.
LEMMA AcceptIsQuiet ==
    ASSUME RotationTypeOK, CeremonyInv, NEW s \in Sides, NEW m \in net[s], Accept(s, m)
    PROVE  RotationTypeOK' /\ Quiet
<1>1. m.epoch \in Epochs
  BY DEF CeremonyInv, EventsHeld
<1>2. /\ rot' \in [Sides -> [Roles -> [Epochs -> Rows \cup {NoRow}]]]
      /\ pending' \in [Sides -> [Epochs -> Int]]
      /\ \A t \in Sides, q \in Roles, f \in Epochs : SameRows(t, q, f)
  <2>1. CASE UNCHANGED <<rot, pending>>
    BY <2>1 DEF RotationTypeOK, SameRows
  <2>2. CASE NoteWrap(s, m)
    <3>1. CASE m.epoch \in InFlight(s, "rotating")
      <4>1. PICK e \in InFlight(s, "rotating") : e = m.epoch
        BY <3>1
      <4>2. Rephased(s, "rotating", e, rot[s]["rotating"][e].phase)
        BY <2>2, <3>1, <4>1, SeenRow DEF NoteWrap
      <4>3. e \in Epochs /\ "rotating" \in Roles
        BY DEF InFlight, Roles
      <4>4. /\ rot' \in [Sides -> [Roles -> [Epochs -> Rows \cup {NoRow}]]]
            /\ rot'[s]["rotating"][e].phase = rot[s]["rotating"][e].phase
            /\ rot'[s]["rotating"][e].key = rot[s]["rotating"][e].key
            /\ rot'[s]["rotating"][e].prior = rot[s]["rotating"][e].prior
            /\ \A t \in Sides, q \in Roles, f \in Epochs :
                  t # s \/ q # "rotating" \/ f # e => rot'[t][q][f] = rot[t][q][f]
        BY <4>2, <4>3, PhaseWrite
      <4>5. pending' = pending
        BY <2>2, <3>1 DEF NoteWrap
      <4>6. pending' \in [Sides -> [Epochs -> Int]]
        BY <4>5 DEF RotationTypeOK
      <4>7. QED
        BY <4>4, <4>6 DEF SameRows
    <3>2. CASE m.epoch \notin InFlight(s, "rotating")
      <4>1. pending' = [pending EXCEPT ![s][m.epoch] = now] /\ rot' = rot
        BY <2>2, <3>2 DEF NoteWrap
      <4>2. pending' \in [Sides -> [Epochs -> Int]]
        BY <1>1, <4>1 DEF RotationTypeOK
      <4>3. rot' \in [Sides -> [Roles -> [Epochs -> Rows \cup {NoRow}]]]
        BY <4>1 DEF RotationTypeOK
      <4>4. QED
        BY <4>1, <4>2, <4>3 DEF SameRows
    <3>3. QED
      BY <3>1, <3>2
  <2>3. QED
    BY <2>1, <2>2 DEF Accept
<1>3. /\ keyEpoch' = keyEpoch /\ peerKey' = peerKey /\ epochs' = epochs /\ made' = made /\ now' = now
      /\ net' = [net EXCEPT ![s] = @ \ {m}] /\ used' = [used EXCEPT ![s] = @ \cup {m.epoch}]
  BY DEF Accept
<1>4. used' \in [Sides -> SUBSET Epochs] /\ \A t \in Sides : used[t] \subseteq used'[t]
  BY <1>1, <1>3 DEF RotationTypeOK
<1>5. DOMAIN net' = Sides /\ \A t \in Sides : net'[t] \subseteq net[t]
  BY <1>3 DEF RotationTypeOK
<1>6. DOMAIN due' = Sides /\ \A t \in Sides : \A x \in due'[t] : x \in due[t] \/ (t = s /\ x = m)
  BY DEF Accept, RotationTypeOK
<1>7. /\ DOMAIN latest' = Sides
      /\ \A t \in Sides : latest'[t] = latest[t] \/ (t = s /\ latest'[t] = m /\ m.type = "prepare")
  BY DEF Accept, RotationTypeOK
<1>8. RotationTypeOK'
  BY <1>2, <1>3, <1>4, <1>5, <1>6, <1>7 DEF RotationTypeOK
<1>9. m.epoch \in used'[s] /\ Unsealable(s, m)
  BY <1>3 DEF Accept, RotationTypeOK
<1>10. QED
  BY <1>2, <1>3, <1>4, <1>5, <1>6, <1>7, <1>8, <1>9 DEF Quiet

\* Refused, rejected and abandoned work changes no database.
LEMMA ConsumingIsQuiet ==
    ASSUME RotationTypeOK, NEW s \in Sides, NEW m,
           Refuse(s, m) \/ RejectPrepare(s, m) \/ CommandDies(s) \/ Tick \/ UNCHANGED vars
    PROVE  RotationTypeOK' /\ Quiet
<1>1. /\ UNCHANGED <<dbVars, made>> /\ used' = used /\ latest' = latest
      /\ DOMAIN net' = Sides /\ DOMAIN due' = Sides
      /\ \A t \in Sides : net'[t] \subseteq net[t] /\ due'[t] \subseteq due[t]
  BY ZenonT(30) DEF Refuse, RejectPrepare, CommandDies, Tick, vars, dbVars, logVars, MarkDone,
     RotationTypeOK
<1>2. now' \in Nat
  BY DEF Refuse, RejectPrepare, CommandDies, Tick, vars, RotationTypeOK
<1>3. RotationTypeOK'
  BY <1>1, <1>2 DEF RotationTypeOK, dbVars
<1>4. QED
  BY <1>1, <1>3 DEF Quiet, SameRows, dbVars

-----------------------------------------------------------------------------
\* A step that moves an open rotation on, and leaves it open: the rotating side's only on
\* what the peer has stored, the acking side's only on what the peer has acknowledged.
Advanced(t, f) ==
    /\ \A q \in Roles : /\ rot'[t][q][f].key = rot[t][q][f].key
                        /\ rot'[t][q][f].prior = rot[t][q][f].prior
    /\ \/ Rotating(t, f)'.phase = Rotating(t, f).phase
       \/ /\ Rotating(t, f).phase \in {"candidate", "acknowledged"}
          /\ Rotating(t, f)'.phase \in {"acknowledged", "confirmed"}
          /\ f \in used[t] /\ Acking(Peer(t), f).phase # "none"
    /\ \/ Acking(t, f)'.phase = Acking(t, f).phase
       \/ /\ Acking(t, f).phase = "acknowledged" /\ Acking(t, f)'.phase = "confirmed"
          /\ Acknowledged(Peer(t), f)
          /\ \E m \in due[t] : m.type = "confirm" /\ m.e = f

\* Moving an open rotation on keeps the two sides in step.
LEMMA AdvanceStep ==
    ASSUME RotationTypeOK, CeremonyInv,
           keyEpoch' = keyEpoch, epochs' = epochs, made' = made, used' = used,
           \A t \in Sides, f \in Epochs : Advanced(t, f)
    PROVE  Grows /\ \A t \in Sides : LocalInv(t)' /\ InStep(t)'
<1>1. \A q : q \in Roles <=> q = "rotating" \/ q = "acking"
  BY DEF Roles
<1>2. \A t \in Sides, q \in Roles : InFlight(t, q)' = InFlight(t, q)
  BY <1>1 DEF Advanced, InFlight, Rotating, Acking
<1>3. \A t \in Sides, f \in Epochs :
        /\ Acking(t, f)'.key = Acking(t, f).key /\ Rotating(t, f)'.key = Rotating(t, f).key
        /\ Rotating(t, f)'.prior = Rotating(t, f).prior
        /\ Acking(t, f)'.phase = "none" <=> Acking(t, f).phase = "none"
        /\ Acking(t, f)'.phase = "discarded" <=> Acking(t, f).phase = "discarded"
        /\ Rotating(t, f)'.phase = "none" <=> Rotating(t, f).phase = "none"
        /\ Rotating(t, f)'.phase = "discarded" <=> Rotating(t, f).phase = "discarded"
        /\ \A q \in Roles : rot'[t][q][f].phase = "committed" <=> rot[t][q][f].phase = "committed"
        /\ Acknowledged(t, f) => Acknowledged(t, f)'
  BY <1>1 DEF Advanced, Rotating, Acking, Acknowledged
<1>4. ASSUME NEW t \in Sides PROVE LocalInv(t)'
  <2>1. OwnEpochs(t)' = OwnEpochs(t) /\ PeerRows(t)' = PeerRows(t)
    BY DEF OwnEpochs, PeerRows
  <2>2. /\ \A q \in Roles : InFlight(t, q) \subseteq Epochs
        /\ PeerRows(t) \subseteq Epochs /\ OneOpen(t) /\ RowsAgree(t) /\ OwnKeysUsed(t)
    BY DEF InFlight, PeerRows, CeremonyInv, LocalInv
  <2>3. OneOpen(t)'
    BY <1>1, <1>2, <1>3, <2>2 DEF OneOpen
  <2>4. RowsAgree(t)'
    BY <1>1, <1>2, <1>3, <2>1, <2>2 DEF RowsAgree
  <2>5. OwnKeysUsed(t)'
    <3>1. \A e \in Epochs : Rotating(t, e)'.phase \in Agreed => e \in used[t]
      BY <2>2 DEF OwnKeysUsed, Advanced, Agreed
    <3>2. QED
      BY <1>1, <1>2, <1>3, <2>1, <2>2, <3>1 DEF OwnKeysUsed
  <2>6. QED
    BY <2>3, <2>4, <2>5 DEF LocalInv
<1>5. ASSUME NEW t \in Sides PROVE InStep(t)'
  <2>1. Peer(t) \in Sides /\ InStep(t) /\ keyEpoch[t] \in Epochs
    BY TwoSides DEF CeremonyInv, RotationTypeOK
  <2>2. \A e \in Epochs : Acking(t, e)'.phase \in {"confirmed", "committed"} => Acknowledged(Peer(t), e)'
    BY <1>3, <2>1 DEF InStep, Advanced
  <2>3. \A e \in Epochs : Rotating(t, e)'.phase \in Agreed => Acking(Peer(t), e)'.phase # "none"
    BY <1>3, <2>1 DEF InStep, Advanced, Agreed
  <2>4. keyEpoch[t] > keyEpoch[Peer(t)] =>
          /\ keyEpoch[t] = keyEpoch[Peer(t)] + 1
          /\ \/ Rotating(Peer(t), keyEpoch[t])'.phase \in {"acknowledged", "confirmed"}
             \/ Acking(Peer(t), keyEpoch[t])'.phase = "confirmed"
    BY <2>1 DEF InStep, Advanced
  <2>5. \A e \in InFlight(t, "acking") : keyEpoch[Peer(t)] >= e =>
              /\ epochs[Peer(t)][e][1] = Peer(t) /\ e \in used[Peer(t)]
              /\ Acking(t, e)'.key[2] <= epochs[Peer(t)][e][2]
    BY <1>3, <2>1 DEF InStep, InFlight
  <2>6. InFlight(t, "acking")' = InFlight(t, "acking")
    BY <1>1, <1>2
  <2>7. QED
    BY <2>2, <2>3, <2>4, <2>5, <2>6 DEF InStep
<1>6. \A t \in Sides : \A key : Kept(t, key) => Kept(t, key)'
  BY DEF Kept
<1>7. \A t \in Sides : made[t] <= made'[t]
  BY DEF RotationTypeOK
<1>8. \A t \in Sides, f \in Epochs : Acking(t, f).phase \in {"confirmed", "committed"} =>
                    Acking(t, f)'.phase \in {"confirmed", "committed"}
  BY DEF Advanced
<1>9. Grows
  BY <1>3, <1>6, <1>7, <1>8 DEF Grows
<1>10. QED
  BY <1>4, <1>5, <1>9

\* Nothing new is on the relay or waits for its hook.
NothingNew ==
    /\ used' = used /\ latest' = latest
    /\ \A t \in Sides : net'[t] \subseteq net[t] /\ due'[t] \subseteq due[t]

\* Without a new event, the events that wait stay true.
LEMMA EventsRemain ==
    ASSUME RotationTypeOK, made' \in [Sides -> Nat], Grows, NothingNew, NEW s \in Sides, EventsHeld(s)
    PROVE  EventsHeld(s)'
<1>1. /\ used[s] \subseteq used'[s] /\ latest'[s] = latest[s]
      /\ \A m \in net'[s] : m \in net[s] /\ \A x \in due'[s] : x \in due[s]
  BY DEF NothingNew
<1>2. \A m \in net'[s] : m \in net[s] \/ (EventHeld(s, m) /\ m.epoch \in Epochs)
  BY DEF NothingNew
<1>3. \A m \in due'[s] : m \in due[s] \/ (m \in net[s] /\ m.epoch \in used'[s])
  BY DEF NothingNew
<1>4. QED
  BY <1>1, <1>2, <1>3, EventsStay

Advance ==
    /\ keyEpoch' = keyEpoch /\ peerKey' = peerKey /\ epochs' = epochs /\ made' = made
    /\ NothingNew
    /\ \A t \in Sides, f \in Epochs : Advanced(t, f)

\* Moving an open rotation on keeps the ceremony.
LEMMA AdvanceKeeps ==
    ASSUME RotationTypeOK, CeremonyInv, Advance
    PROVE  Grows /\ CeremonyInv'
<1>1. Grows /\ \A t \in Sides : LocalInv(t)' /\ InStep(t)'
  BY AdvanceStep DEF Advance, NothingNew
<1>2. made' \in [Sides -> Nat] /\ NothingNew
  BY DEF Advance, RotationTypeOK
<1>3. \A t \in Sides : EventsHeld(t)'
  BY <1>1, <1>2, EventsRemain DEF CeremonyInv
<1>4. QED
  BY <1>1, <1>3 DEF CeremonyInv

\* mark_confirmed moves on what the peer acknowledged.
LEMMA MarkConfirmedAdvances ==
    ASSUME RotationTypeOK, CeremonyInv, NEW s \in Sides, MarkConfirmed(s)
    PROVE  RotationTypeOK' /\ Advance
<1> DEFINE R == Rows \cup {NoRow}
           New(row) == IF row.phase = "acknowledged" THEN [row EXCEPT !.phase = "confirmed"] ELSE row
<1>1. rot \in [Sides -> [Roles -> [Epochs -> R]]] /\ "rotating" \in Roles /\ "acking" \in Roles
  BY DEF RotationTypeOK, Roles
<1>2. rot' = [rot EXCEPT ![s]["rotating"] = [e \in Epochs |-> New(@[e])]]
  BY DEF MarkConfirmed
<1>3. \A row \in R : /\ New(row) \in R
                     /\ New(row).phase = IF row.phase = "acknowledged" THEN "confirmed" ELSE row.phase
                     /\ New(row).key = row.key /\ New(row).prior = row.prior
  <2>1. "acknowledged" # "none" /\ "confirmed" \in Phases
    BY DEF Phases
  <2>2. QED
    BY <2>1 DEF Rows, NoRow
<1> HIDE DEF R, New
<1>4. /\ rot' \in [Sides -> [Roles -> [Epochs -> R]]]
      /\ \A e \in Epochs : rot'[s]["rotating"][e] = New(rot[s]["rotating"][e])
      /\ \A t \in Sides, q \in Roles, e \in Epochs :
            t # s \/ q # "rotating" => rot'[t][q][e] = rot[t][q][e]
  BY <1>1, <1>2, <1>3
<1>5. \A e \in Epochs :
        /\ rot'[s]["rotating"][e].key = rot[s]["rotating"][e].key
        /\ rot'[s]["rotating"][e].prior = rot[s]["rotating"][e].prior
        /\ rot'[s]["rotating"][e].phase = IF rot[s]["rotating"][e].phase = "acknowledged"
                                          THEN "confirmed" ELSE rot[s]["rotating"][e].phase
  BY <1>1, <1>3, <1>4
<1>6. \A e \in Epochs : Rotating(s, e).phase = "acknowledged" =>
                            e \in used[s] /\ Acking(Peer(s), e).phase # "none"
  BY DEF CeremonyInv, LocalInv, OwnKeysUsed, InStep, Agreed
<1>7. ASSUME NEW t \in Sides, NEW f \in Epochs PROVE Advanced(t, f)
  <2>1. CASE t = s
    <3>1. rot'[s]["acking"][f] = rot[s]["acking"][f]
      BY <1>1, <1>4
    <3>2. QED
      BY <1>5, <1>6, <2>1, <3>1 DEF Advanced, Rotating, Acking, Roles
  <2>2. CASE t # s
    <3>1. \A q \in Roles : rot'[t][q][f] = rot[t][q][f]
      BY <1>4, <2>2
    <3>2. QED
      BY <1>1, <3>1 DEF Advanced, Rotating, Acking
  <2>3. QED
    BY <2>1, <2>2
<1>8. /\ keyEpoch' = keyEpoch /\ peerKey' = peerKey /\ epochs' = epochs /\ made' = made
      /\ pending' = pending /\ used' = used /\ latest' = latest /\ due' = due /\ net' = net /\ now' = now
  BY DEF MarkConfirmed, logVars
<1>9. RotationTypeOK'
  BY <1>4, <1>8 DEF RotationTypeOK, R
<1>10. QED
  BY <1>7, <1>8, <1>9 DEF Advance, NothingNew

\* on_confirm moves on what the sender has acknowledged.
LEMMA OnConfirmAdvances ==
    ASSUME RotationTypeOK, CeremonyInv, NEW s \in Sides, NEW m, OnConfirm(s, m)
    PROVE  RotationTypeOK' /\ Advance
<1> DEFINE r == "acking"
<1>1. m \in due[s] /\ m.type = "confirm"
  BY DEF OnConfirm
<1>2. EventHeld(s, m)
  BY <1>1 DEF CeremonyInv, EventsHeld
<1>3. PICK e \in Epochs : e = m.e /\ Acknowledged(Peer(s), e)
  BY <1>1, <1>2 DEF EventHeld
<1>4. "acking" \in Roles /\ "rotating" \in Roles /\ "confirmed" \in Phases
  BY DEF Roles, Phases
<1>5. /\ rot' \in [Sides -> [Roles -> [Epochs -> Rows \cup {NoRow}]]]
      /\ \A t \in Sides, f \in Epochs : Advanced(t, f)
  <2>1. CASE rot[s][r][e].phase = "acknowledged"
    <3>1. rot' = [rot EXCEPT ![s][r][e].phase = "confirmed"]
      BY <1>3, <2>1 DEF OnConfirm
    <3>2. Rephased(s, r, e, "confirmed")
      BY <1>4, <2>1, <3>1, PhaseRow
    <3>3. /\ rot' \in [Sides -> [Roles -> [Epochs -> Rows \cup {NoRow}]]]
          /\ rot'[s][r][e].phase = "confirmed"
          /\ rot'[s][r][e].key = rot[s][r][e].key /\ rot'[s][r][e].prior = rot[s][r][e].prior
          /\ \A t \in Sides, q \in Roles, f \in Epochs :
                t # s \/ q # r \/ f # e => rot'[t][q][f] = rot[t][q][f]
      BY <1>4, <3>2, PhaseWrite
    <3>4. ASSUME NEW t \in Sides, NEW f \in Epochs PROVE Advanced(t, f)
      BY <1>1, <1>3, <1>4, <2>1, <3>3 DEF Advanced, Rotating, Acking
    <3>5. QED
      BY <3>3, <3>4
  <2>2. CASE rot[s][r][e].phase # "acknowledged"
    <3>1. rot' = rot
      BY <1>3, <2>2 DEF OnConfirm
    <3>2. QED
      BY <3>1 DEF RotationTypeOK, Advanced, Rotating, Acking
  <2>3. QED
    BY <2>1, <2>2
<1>6. /\ keyEpoch' = keyEpoch /\ peerKey' = peerKey /\ epochs' = epochs /\ made' = made
      /\ pending' = pending /\ used' = used /\ latest' = latest /\ net' = net /\ now' = now
      /\ DOMAIN due' = Sides /\ \A t \in Sides : due'[t] \subseteq due[t]
  BY DEF OnConfirm, MarkDone, RotationTypeOK
<1>7. RotationTypeOK'
  BY <1>5, <1>6 DEF RotationTypeOK
<1>8. QED
  BY <1>5, <1>6, <1>7 DEF Advance, NothingNew

\* on_ack moves on what the peer stored, and an event was logged under that epoch.
LEMMA OnAckAdvances ==
    ASSUME RotationTypeOK, CeremonyInv, NEW s \in Sides, NEW m, OnAck(s, m)
    PROVE  RotationTypeOK' /\ Advance
<1> DEFINE r == "rotating"
<1>1. m \in due[s] /\ m.type = "ack"
  BY DEF OnAck
<1>2. EventHeld(s, m) /\ m.epoch \in used[s]
  BY <1>1 DEF CeremonyInv, EventsHeld
<1>3. PICK e \in Epochs : /\ e = m.e /\ Acking(Peer(s), e).phase # "none"
                          /\ e \in used[s] \/ Acknowledged(s, e)
  BY <1>1, <1>2 DEF EventHeld
<1>4. "acking" \in Roles /\ "rotating" \in Roles /\ "acknowledged" \in Phases
  BY DEF Roles, Phases
<1>5. /\ rot' \in [Sides -> [Roles -> [Epochs -> Rows \cup {NoRow}]]]
      /\ pending' \in [Sides -> [Epochs -> Int]]
      /\ \A t \in Sides, f \in Epochs : Advanced(t, f)
  <2>1. CASE Acknowledges(s, m)
    <3> DEFINE old == rot[s][r][e]
               New(x) == [x EXCEPT !.phase = "acknowledged", !.seen = x.seen \/ pending[s][m.e] >= 0]
               row == New(old)
    <3>1. old.phase \in {"candidate", "acknowledged"}
      BY <1>3, <2>1 DEF Acknowledges
    <3>2. old \in Rows
      BY <1>4, <3>1, RowFields
    <3>3. row \in Rows /\ row.phase = "acknowledged" /\ row.key = old.key /\ row.prior = old.prior
      BY <1>4, <3>2 DEF Rows
    <3>4. Written(s, r, e, row) /\ pending' = [pending EXCEPT ![s][e] = -1]
      <4>1. /\ rot' = [rot EXCEPT ![s]["rotating"][m.e] = New(@)]
            /\ pending' = [pending EXCEPT ![s][m.e] = -1]
        BY <2>1 DEF OnAck
      <4> HIDE DEF New
      <4>2. QED
        BY <1>3, <4>1 DEF Written
    <3>5. Rephased(s, r, e, "acknowledged")
      <4> HIDE DEF New
      <4>1. QED
        BY <3>3, <3>4, Zenon DEF Rephased
    <3>6. /\ rot' \in [Sides -> [Roles -> [Epochs -> Rows \cup {NoRow}]]]
          /\ rot'[s][r][e].phase = "acknowledged"
          /\ rot'[s][r][e].key = rot[s][r][e].key /\ rot'[s][r][e].prior = rot[s][r][e].prior
          /\ \A t \in Sides, q \in Roles, f \in Epochs :
                t # s \/ q # r \/ f # e => rot'[t][q][f] = rot[t][q][f]
      BY <1>4, <3>5, PhaseWrite
    <3>7. old.phase = "candidate" => e \in used[s]
      <4> SUFFICES ASSUME old.phase = "candidate", e \notin used[s] PROVE FALSE
        OBVIOUS
      <4>1. e \in InFlight(s, "rotating")
        BY DEF InFlight
      <4>2. e = keyEpoch[s] + 1 /\ keyEpoch[s] \in Int
        BY <1>4, <4>1 DEF CeremonyInv, LocalInv, OneOpen, RotationTypeOK, Epochs
      <4>3. QED
        BY <1>3, <4>2 DEF Acknowledged, Rotating
    <3>8. ASSUME NEW t \in Sides, NEW f \in Epochs PROVE Advanced(t, f)
      BY <1>3, <1>4, <3>1, <3>6, <3>7 DEF Advanced, Rotating, Acking
    <3>9. pending' \in [Sides -> [Epochs -> Int]]
      BY <3>4 DEF RotationTypeOK
    <3>10. QED
      BY <3>6, <3>8, <3>9
  <2>2. CASE ~Acknowledges(s, m)
    <3>1. rot' = rot /\ pending' = pending
      BY <1>3, <2>2 DEF OnAck
    <3>2. QED
      BY <3>1 DEF RotationTypeOK, Advanced, Rotating, Acking
  <2>3. QED
    BY <2>1, <2>2
<1>6. /\ keyEpoch' = keyEpoch /\ peerKey' = peerKey /\ epochs' = epochs /\ made' = made
      /\ used' = used /\ latest' = latest /\ net' = net /\ now' = now
      /\ DOMAIN due' = Sides /\ \A t \in Sides : due'[t] \subseteq due[t]
  BY DEF OnAck, MarkDone, RotationTypeOK
<1>7. RotationTypeOK'
  BY <1>5, <1>6 DEF RotationTypeOK
<1>8. QED
  BY <1>5, <1>6, <1>7 DEF Advance, NothingNew

-----------------------------------------------------------------------------
\* What a sweep may take: a candidate, and rows of key_epochs that no open rotation, no
\* own event and no split needs.
Trimmed(s) ==
    /\ keyEpoch' = keyEpoch /\ peerKey' = peerKey /\ made' = made /\ NothingNew
    /\ \A t \in Sides \ {s} : epochs'[t] = epochs[t]
    /\ \A t \in Sides, q \in Roles, f \in Epochs :
          /\ rot'[t][q][f].key = rot[t][q][f].key /\ rot'[t][q][f].prior = rot[t][q][f].prior
          /\ \/ rot'[t][q][f].phase = rot[t][q][f].phase
             \/ /\ t = s /\ q = "rotating"
                /\ rot[t][q][f].phase = "candidate" /\ rot'[t][q][f].phase = "discarded"
                /\ epochs'[s][f] = NoKey
    /\ \A f \in Epochs :
          \/ epochs'[s][f] = epochs[s][f]
          \/ /\ epochs'[s][f] = NoKey
             /\ \A q \in Roles : f \notin InFlight(s, q)'
             /\ epochs[s][f][1] = s => f \notin used[s]
             /\ f = keyEpoch[s] => InFlight(s, "acking") # {}

\* A sweep keeps the ceremony.
LEMMA TrimmedKeeps ==
    ASSUME RotationTypeOK, CeremonyInv, NEW s \in Sides, Trimmed(s)
    PROVE  Grows /\ CeremonyInv'
<1> DEFINE p == Peer(s)
<1>1. \A q : q \in Roles <=> q = "rotating" \/ q = "acking"
  BY DEF Roles
<1>2. p \in Sides /\ p # s /\ Peer(p) = s /\ \A x \in Sides : x = s \/ x = p
  BY TwoSides
<1>3. \A t \in Sides, f \in Epochs :
        /\ Acking(t, f)'.phase = Acking(t, f).phase /\ Acking(t, f)'.key = Acking(t, f).key
        /\ Rotating(t, f)'.key = Rotating(t, f).key /\ Rotating(t, f)'.prior = Rotating(t, f).prior
        /\ \/ Rotating(t, f)'.phase = Rotating(t, f).phase
           \/ /\ t = s /\ epochs'[s][f] = NoKey
              /\ Rotating(t, f).phase = "candidate" /\ Rotating(t, f)'.phase = "discarded"
  BY <1>1 DEF Trimmed, Rotating, Acking
<1>4. \A t \in Sides : /\ InFlight(t, "acking")' = InFlight(t, "acking")
                       /\ InFlight(t, "rotating")' \subseteq InFlight(t, "rotating")
                       /\ InFlight(t, "acking") \subseteq Epochs
                       /\ InFlight(t, "rotating") \subseteq Epochs
  BY <1>3 DEF InFlight, Rotating, Acking
<1>5. NoKey[1] # s /\ NoKey[1] # p
  BY <1>2, KeyParts
<1>6. LocalInv(s)'
  <2>1. /\ OneOpen(s) /\ RowsAgree(s) /\ OwnKeysUsed(s) /\ keyEpoch' = keyEpoch /\ made' = made
        /\ used' = used
    BY DEF CeremonyInv, LocalInv, Trimmed, NothingNew
  <2>2. /\ OwnEpochs(s)' \subseteq OwnEpochs(s) /\ PeerRows(s)' \subseteq PeerRows(s)
        /\ OwnEpochs(s) \subseteq Epochs /\ PeerRows(s) \subseteq Epochs
        /\ \A f \in OwnEpochs(s)' : epochs'[s][f] = epochs[s][f]
    BY <1>5 DEF OwnEpochs, PeerRows, Trimmed
  <2>3. \A f \in Epochs : \A q \in Roles : f \in InFlight(s, q)' => epochs'[s][f] = epochs[s][f]
    BY DEF Trimmed
  <2>4. \A f \in used[s] : f \in Epochs /\ epochs[s][f][1] = s => epochs'[s][f] = epochs[s][f]
    BY DEF Trimmed
  <2>5. OneOpen(s)'
    <3>1. \A r \in Roles : \A e \in InFlight(s, r)' : e = keyEpoch[s] + 1
      BY <1>1, <1>4, <2>1 DEF OneOpen
    <3>2. InFlight(s, "rotating")' = {} \/ InFlight(s, "acking")' = {}
      BY <1>4, <2>1 DEF OneOpen
    <3>3. \A r \in Roles, e \in Epochs : rot'[s][r][e].phase = "committed" => e <= keyEpoch[s]
      BY <2>1 DEF OneOpen, Trimmed
    <3>4. ASSUME NEW e \in Epochs, epochs'[s][e] # NoKey
          PROVE  e <= keyEpoch[s] \/ \E r \in Roles : e \in InFlight(s, r)'
      <4>1. epochs[s][e] # NoKey
        BY <3>4 DEF Trimmed
      <4>2. CASE e \in InFlight(s, "acking")
        BY <1>1, <1>4, <4>2
      <4>3. CASE e \in InFlight(s, "rotating")
        <5>1. CASE Rotating(s, e)'.phase = Rotating(s, e).phase
          BY <1>1, <4>3, <5>1 DEF InFlight, Rotating
        <5>2. QED
          BY <1>3, <3>4, <5>1
      <4>4. QED
        BY <1>1, <2>1, <4>1, <4>2, <4>3 DEF OneOpen
    <3>5. QED
      BY <2>1, <3>1, <3>2, <3>3, <3>4 DEF OneOpen
  <2>6. RowsAgree(s)'
    <3>1. ASSUME NEW e \in InFlight(s, "rotating")'
          PROVE  /\ epochs'[s][e] = Rotating(s, e)'.key /\ epochs'[s][e] = <<s, made[s]>>
                 /\ epochs'[s][Rotating(s, e)'.prior][1] = s
      <4>1. e \in Epochs /\ e \in InFlight(s, "rotating") /\ epochs'[s][e] = epochs[s][e]
        BY <1>1, <1>4, <2>3
      <4>2. /\ epochs[s][e] = Rotating(s, e).key /\ epochs[s][e] = <<s, made[s]>>
            /\ epochs[s][Rotating(s, e).prior][1] = s
        BY <2>1, <4>1 DEF RowsAgree
      <4>3. Rotating(s, e).phase # "none"
        BY <4>1 DEF InFlight, Rotating
      <4>4. Rotating(s, e).prior \in used[s]
        BY <2>1, <4>1, <4>3 DEF OwnKeysUsed
      <4>5. used[s] \subseteq Epochs
        BY DEF RotationTypeOK
      <4>6. epochs'[s][Rotating(s, e).prior] = epochs[s][Rotating(s, e).prior]
        BY <2>4, <4>2, <4>4, <4>5
      <4>7. QED
        BY <1>3, <4>1, <4>2, <4>6
    <3>2. \A e \in Epochs : Acking(s, e)'.phase # "none" =>
            /\ Acking(s, e)'.phase # "discarded"
            /\ Rotating(s, e)'.phase \in {"none", "discarded"}
            /\ Acking(s, e)'.key[1] = Peer(s) /\ Acking(s, e)'.key[2] <= made[Peer(s)]
      BY <1>3, <2>1 DEF RowsAgree
    <3>3. \A e \in InFlight(s, "acking")' : epochs'[s][e] = Acking(s, e)'.key
      BY <1>1, <1>3, <1>4, <2>1, <2>3 DEF RowsAgree
    <3>4. \A e \in PeerRows(s)' : Acking(s, e)'.phase # "none"
      BY <1>3, <2>1, <2>2 DEF RowsAgree
    <3>5. \A e \in OwnEpochs(s)' : epochs'[s][e][2] <= made[s]
      BY <2>1, <2>2 DEF RowsAgree
    <3>6. QED
      BY <2>1, <3>1, <3>2, <3>3, <3>4, <3>5 DEF RowsAgree
  <2>7. OwnKeysUsed(s)'
    <3>1. \A e \in Epochs : Rotating(s, e)'.phase \in Agreed => e \in used[s]
      BY <1>3, <2>1 DEF OwnKeysUsed, Agreed
    <3>2. \A e \in OwnEpochs(s)' : e \in used[s] \/ e \in InFlight(s, "rotating")'
      <4> SUFFICES ASSUME NEW e \in OwnEpochs(s)', e \in InFlight(s, "rotating")
                   PROVE  e \in InFlight(s, "rotating")'
        BY <2>1, <2>2 DEF OwnKeysUsed
      <4>1. e \in Epochs /\ epochs'[s][e] # NoKey
        BY <1>5 DEF OwnEpochs
      <4>2. Rotating(s, e)'.phase = Rotating(s, e).phase
        BY <1>3, <4>1
      <4>3. QED
        BY <4>1, <4>2 DEF InFlight, Rotating
    <3>3. \A e \in Epochs : Rotating(s, e)'.phase # "none" => Rotating(s, e)'.prior \in used[s]
      BY <1>3, <2>1 DEF OwnKeysUsed
    <3>4. QED
      BY <2>1, <3>1, <3>2, <3>3 DEF OwnKeysUsed
  <2>8. QED
    BY <2>5, <2>6, <2>7 DEF LocalInv
<1>7. /\ keyEpoch' = keyEpoch /\ made' = made /\ used' = used /\ epochs'[p] = epochs[p]
      /\ made' \in [Sides -> Nat] /\ \A t \in Sides : made[t] <= made'[t]
  BY <1>2 DEF Trimmed, NothingNew, RotationTypeOK
<1>8. LocalInv(p)'
  <2>1. \A q \in Roles, f \in Epochs : SameRows(p, q, f)
    BY <1>2 DEF Trimmed, SameRows
  <2>2. LocalInv(p)
    BY <1>2 DEF CeremonyInv
  <2>3. QED
    BY <1>2, <1>7, <2>1, <2>2, SideKeeps
<1>9. Grows
  <2>1. \A q \in Sides : \A e \in used[q] : epochs[q][e][1] = q => epochs'[q][e] = epochs[q][e]
    <3>1. \A q \in Sides : used[q] \subseteq Epochs
      BY DEF RotationTypeOK
    <3>2. QED
      BY <1>2, <1>7, <3>1 DEF Trimmed
  <2>2. \A q \in Sides : \A key : Kept(q, key) => Kept(q, key)'
    BY <1>7, <2>1, KeptStays
  <2>3. \A q \in Sides, e \in Epochs : Acknowledged(q, e) => Acknowledged(q, e)'
    BY <1>3, <1>7 DEF Acknowledged
  <2>4. QED
    BY <1>3, <1>7, <2>2, <2>3 DEF Grows
<1>10. ASSUME NEW t \in Sides PROVE InStep(t)'
  <2>1. Peer(t) \in Sides /\ InStep(t) /\ keyEpoch[t] \in Epochs
    BY TwoSides DEF CeremonyInv, RotationTypeOK
  <2>2. \A e \in Epochs : Acking(t, e)'.phase \in {"confirmed", "committed"} => Acknowledged(Peer(t), e)'
    BY <1>3, <1>9, <2>1 DEF InStep, Grows
  <2>3. \A e \in Epochs : Rotating(t, e)'.phase \in Agreed => Acking(Peer(t), e)'.phase # "none"
    BY <1>3, <2>1 DEF InStep, Agreed
  <2>4. keyEpoch[t] > keyEpoch[Peer(t)] =>
          /\ keyEpoch[t] = keyEpoch[Peer(t)] + 1
          /\ \/ Rotating(Peer(t), keyEpoch[t])'.phase \in {"acknowledged", "confirmed"}
             \/ Acking(Peer(t), keyEpoch[t])'.phase = "confirmed"
    BY <1>3, <1>7, <2>1 DEF InStep
  <2>5. ASSUME NEW e \in InFlight(t, "acking"), keyEpoch[Peer(t)] >= e
        PROVE  /\ epochs'[Peer(t)][e][1] = Peer(t) /\ e \in used[Peer(t)]
               /\ Acking(t, e)'.key[2] <= epochs'[Peer(t)][e][2]
    <3>1. /\ epochs[Peer(t)][e][1] = Peer(t) /\ e \in used[Peer(t)] /\ e \in Epochs
          /\ Acking(t, e).key[2] <= epochs[Peer(t)][e][2]
      BY <1>4, <2>1, <2>5 DEF InStep
    <3>2. epochs'[Peer(t)][e] = epochs[Peer(t)][e]
      BY <1>2, <1>7, <2>1, <3>1 DEF Trimmed
    <3>3. QED
      BY <1>3, <3>1, <3>2
  <2>6. QED
    BY <1>4, <1>7, <2>2, <2>3, <2>4, <2>5 DEF InStep
<1>11. NothingNew
  BY DEF Trimmed
<1>12. \A t \in Sides : EventsHeld(t)'
  BY <1>7, <1>9, <1>11, EventsRemain DEF CeremonyInv
<1>13. QED
  BY <1>2, <1>6, <1>8, <1>9, <1>10, <1>12 DEF CeremonyInv

\* No row above a side's open rotation, or above its key_epoch when none is open.
LEMMA NothingAbove ==
    ASSUME RotationTypeOK, CeremonyInv, NEW s \in Sides, NEW e \in Epochs,
           e = keyEpoch[s] + 1 \/ (e = keyEpoch[s] /\ InFlight(s, "acking") = {})
    PROVE  {f \in PeerRows(s) : f > e} = {}
<1> SUFFICES ASSUME NEW f \in PeerRows(s), f > e PROVE FALSE
  OBVIOUS
<1>1. /\ f \in Epochs /\ epochs[s][f][1] = Peer(s) /\ f \in Int /\ e \in Int
      /\ keyEpoch[s] \in Int /\ OneOpen(s) /\ RowsAgree(s)
  BY DEF PeerRows, Epochs, RotationTypeOK, CeremonyInv, LocalInv
<1>2. Peer(s) \in Sides /\ Peer(s) # s
  BY TwoSides
<1>3. epochs[s][f] # NoKey
  BY <1>1, <1>2, KeyParts
<1>4. f > keyEpoch[s]
  BY <1>1
<1>5. PICK r \in Roles : f \in InFlight(s, r)
  BY <1>1, <1>3, <1>4 DEF OneOpen
<1>6. f = keyEpoch[s] + 1
  BY <1>1, <1>5 DEF OneOpen
<1>7. e = keyEpoch[s] /\ InFlight(s, "acking") = {}
  BY <1>1, <1>6
<1>8. f \in InFlight(s, "rotating")
  BY <1>5, <1>7 DEF Roles
<1>9. epochs[s][f] = <<s, made[s]>>
  BY <1>1, <1>8 DEF RowsAgree
<1>10. QED
  BY <1>1, <1>2, <1>9

\* sweep takes no more than Trimmed allows: the foreign key keeps used rows, and
\* compaction the two newest of the peer.
LEMMA SweepTrims ==
    ASSUME RotationTypeOK, CeremonyInv, NEW s \in Sides, Sweep(s)
    PROVE  RotationTypeOK' /\ Trimmed(s)
<1> DEFINE p == Peer(s)
           K == Keys \cup {NoKey}
<1>1. /\ keyEpoch' = keyEpoch /\ peerKey' = peerKey /\ made' = made /\ now' = now
      /\ used' = used /\ latest' = latest /\ due' = due /\ net' = net
  BY DEF Sweep, logVars
<1>2. pending' \in [Sides -> [Epochs -> Int]]
  BY DEF Sweep, RotationTypeOK
<1>3. /\ OneOpen(s) /\ RowsAgree(s) /\ OwnKeysUsed(s) /\ "rotating" \in Roles /\ "acking" \in Roles
      /\ epochs \in [Sides -> [Epochs -> K]] /\ NoKey \in K /\ keyEpoch[s] \in Int
      /\ used \in [Sides -> SUBSET Epochs]
  BY DEF CeremonyInv, LocalInv, Roles, RotationTypeOK, Epochs
<1> HIDE DEF K
<1>4. NothingNew
  BY <1>1 DEF NothingNew
<1>5. /\ rot' \in [Sides -> [Roles -> [Epochs -> Rows \cup {NoRow}]]]
      /\ epochs' \in [Sides -> [Epochs -> K]]
      /\ Trimmed(s)
  <2>1. ASSUME NEW f \in Compacted(s)
        PROVE  /\ f \in Epochs /\ \A q \in Roles : f \notin InFlight(s, q)
               /\ epochs[s][f][1] # s
               /\ f = keyEpoch[s] => InFlight(s, "acking") # {}
    <3>1. /\ f \in Epochs /\ epochs[s][f][1] = p
          /\ Cardinality({g \in PeerRows(s) : g > f}) >= 2
      BY <2>1 DEF Compacted, PeerRows
    <3>2. {g \in PeerRows(s) : g > f} # {}
      <4> DEFINE S == {g \in PeerRows(s) : g > f}
      <4> HIDE DEF S
      <4>1. Cardinality(S) >= 2
        BY <3>1 DEF S
      <4>2. Cardinality({}) = 0
        BY FS_EmptySet
      <4>3. S # {}
        BY <4>1, <4>2
      <4>4. QED
        BY <4>3 DEF S
    <3>3. f # keyEpoch[s] + 1 /\ (f = keyEpoch[s] => InFlight(s, "acking") # {})
      BY <3>1, <3>2, NothingAbove
    <3>4. \A q \in Roles : f \notin InFlight(s, q)
      BY <1>3, <3>3 DEF OneOpen
    <3>5. p # s
      BY TwoSides
    <3>6. QED
      BY <3>1, <3>3, <3>4, <3>5
  <2>2. ASSUME NEW old, DeleteKeys(s, old)
        PROVE  /\ epochs' \in [Sides -> [Epochs -> K]]
               /\ \A t \in Sides \ {s} : epochs'[t] = epochs[t]
               /\ \A f \in Epochs : IF f \in old THEN epochs'[s][f] = NoKey
                                                 ELSE epochs'[s][f] = epochs[s][f]
    BY <1>3, <2>2 DEF DeleteKeys
  <2>3. CASE TimedOut(s) # {} /\ Min(TimedOut(s)) \notin used[s]
    <3>1. PICK e \in TimedOut(s) : TRUE
      BY <2>3
    <3>2. e \in InFlight(s, "rotating") /\ rot[s]["rotating"][e].phase = "candidate" /\ e \in Epochs
      BY <3>1 DEF TimedOut, InFlight
    <3>3. e = keyEpoch[s] + 1 /\ \A f \in TimedOut(s) : f = e
      BY <1>3, <3>1, <3>2 DEF OneOpen, TimedOut
    <3>4. TimedOut(s) = {e} /\ e \in Int
      <4>1. e \in Int
        BY <1>3, <3>3
      <4>2. QED
        BY <3>1, <3>3, <4>1
    <3>5. Min(TimedOut(s)) = e
      BY <3>4, MinIs
    <3>6. /\ DeleteKeys(s, Compacted(s) \cup {e})
          /\ rot' = [rot EXCEPT ![s]["rotating"][e].phase = "discarded"]
      BY <2>3, <3>5 DEF Sweep, Discard
    <3>7. Rephased(s, "rotating", e, "discarded")
      <4>1. "discarded" \in Phases
        BY DEF Phases
      <4>2. QED
        BY <1>3, <3>2, <3>6, <4>1, PhaseRow
    <3>8. /\ rot' \in [Sides -> [Roles -> [Epochs -> Rows \cup {NoRow}]]]
          /\ rot'[s]["rotating"][e].phase = "discarded"
          /\ rot'[s]["rotating"][e].key = rot[s]["rotating"][e].key
          /\ rot'[s]["rotating"][e].prior = rot[s]["rotating"][e].prior
          /\ \A t \in Sides, q \in Roles, f \in Epochs :
                t # s \/ q # "rotating" \/ f # e => rot'[t][q][f] = rot[t][q][f]
      BY <1>3, <3>2, <3>7, PhaseWrite
    <3>9. /\ epochs' \in [Sides -> [Epochs -> K]] /\ epochs'[s][e] = NoKey
          /\ \A t \in Sides \ {s} : epochs'[t] = epochs[t]
          /\ \A f \in Epochs : IF f = e \/ f \in Compacted(s)
                               THEN epochs'[s][f] = NoKey ELSE epochs'[s][f] = epochs[s][f]
      BY <2>2, <3>2, <3>6
    <3>10. \A q \in Roles : e \notin InFlight(s, q)'
      <4>1. e \notin InFlight(s, "rotating")'
        BY <3>8 DEF InFlight
      <4>2. InFlight(s, "acking") = {}
        BY <1>3, <3>2 DEF OneOpen
      <4>3. e \notin InFlight(s, "acking")'
        <5>1. rot'[s]["acking"][e] = rot[s]["acking"][e]
          BY <1>3, <3>2, <3>8
        <5>2. QED
          BY <3>2, <4>2, <5>1 DEF InFlight
      <4>4. QED
        BY <4>1, <4>3 DEF Roles
    <3>11. e \notin used[s] /\ e # keyEpoch[s]
      BY <1>3, <2>3, <3>3, <3>5
    <3>12. ASSUME NEW f \in Compacted(s)
           PROVE  /\ \A q \in Roles : f \notin InFlight(s, q)'
                  /\ epochs[s][f][1] # s
                  /\ f = keyEpoch[s] => InFlight(s, "acking") # {}
      <4>1. f # e /\ f \in Epochs
        BY <1>3, <2>1, <3>2
      <4>2. \A q \in Roles : rot'[s][q][f] = rot[s][q][f]
        BY <3>8, <4>1
      <4>3. QED
        BY <2>1, <4>1, <4>2 DEF InFlight
    <3>13. Trimmed(s)
      BY <1>1, <1>4, <3>2, <3>8, <3>9, <3>10, <3>11, <3>12 DEF Trimmed
    <3>14. QED
      BY <3>8, <3>9, <3>13
  <2>4. CASE \/ TimedOut(s) # {} /\ Min(TimedOut(s)) \in used[s]
             \/ TimedOut(s) = {}
    <3> DEFINE old == {e \in Retirable(s) : rot[s]["rotating"][e].prior \notin used[s]}
    <3>1. old = {}
      BY <1>3 DEF Retirable, OwnKeysUsed, Rotating
    <3>2. /\ DeleteKeys(s, Compacted(s))
          /\ \/ UNCHANGED rot
             \/ rot' = [rot EXCEPT ![s]["rotating"] = [e \in Epochs |-> rot[s]["rotating"][e]]]
      <4>1. CASE TimedOut(s) # {} /\ Min(TimedOut(s)) \in used[s]
        BY <4>1 DEF Sweep, Discard
      <4>2. CASE TimedOut(s) = {}
        <5>1. RetireOldKeys(s)
          BY <4>2 DEF Sweep
        <5>2. Compacted(s) \cup {rot[s]["rotating"][e].prior : e \in old} = Compacted(s)
          BY <3>1
        <5>3. DeleteKeys(s, Compacted(s))
          BY <5>1, <5>2 DEF RetireOldKeys
        <5>4. rot' = [rot EXCEPT ![s]["rotating"] = [e \in Epochs |-> rot[s]["rotating"][e]]]
          BY <3>1, <5>1 DEF RetireOldKeys
        <5>5. QED
          BY <5>3, <5>4
      <4>3. QED
        BY <2>4, <4>1, <4>2
    <3>3. /\ rot' \in [Sides -> [Roles -> [Epochs -> Rows \cup {NoRow}]]]
          /\ \A t \in Sides, q \in Roles, f \in Epochs : rot'[t][q][f] = rot[t][q][f]
      <4> DEFINE R == Rows \cup {NoRow}
      <4>1. rot \in [Sides -> [Roles -> [Epochs -> R]]]
        BY DEF RotationTypeOK
      <4> HIDE DEF R
      <4>2. /\ rot' \in [Sides -> [Roles -> [Epochs -> R]]]
            /\ \A t \in Sides, q \in Roles, f \in Epochs : rot'[t][q][f] = rot[t][q][f]
        BY <1>3, <3>2, <4>1
      <4>3. QED
        BY <4>2 DEF R
    <3>4. /\ epochs' \in [Sides -> [Epochs -> K]]
          /\ \A t \in Sides \ {s} : epochs'[t] = epochs[t]
          /\ \A f \in Epochs : IF f \in Compacted(s) THEN epochs'[s][f] = NoKey
                                                     ELSE epochs'[s][f] = epochs[s][f]
      BY <2>2, <3>2
    <3>5. ASSUME NEW f \in Compacted(s)
          PROVE  /\ \A q \in Roles : f \notin InFlight(s, q)'
                 /\ epochs[s][f][1] # s
                 /\ f = keyEpoch[s] => InFlight(s, "acking") # {}
      BY <2>1, <3>3 DEF InFlight
    <3>6. Trimmed(s)
      BY <1>1, <1>4, <3>3, <3>4, <3>5 DEF Trimmed
    <3>7. QED
      BY <3>3, <3>4, <3>6
  <2>5. QED
    BY <2>3, <2>4
<1>6. epochs' \in [Sides -> [Epochs -> Keys \cup {NoKey}]]
  BY <1>5 DEF K
<1>7. QED
  BY <1>1, <1>2, <1>5, <1>6 DEF RotationTypeOK

-----------------------------------------------------------------------------
\* A side commits its open rotation of epoch e, in either role.
Commits(s, r, e) ==
    /\ rot[s][r][e].phase = "confirmed" /\ rot'[s][r][e].phase = "committed"
    /\ r = "rotating" => Acking(Peer(s), e).phase \in {"confirmed", "committed"}
    /\ rot'[s][r][e].key = rot[s][r][e].key /\ rot'[s][r][e].prior = rot[s][r][e].prior
    /\ \A t \in Sides, q \in Roles, f \in Epochs :
          t # s \/ q # r \/ f # e => rot'[t][q][f] = rot[t][q][f]
    /\ keyEpoch'[s] = e /\ keyEpoch'[Peer(s)] = keyEpoch[Peer(s)]
    /\ epochs' = epochs /\ made' = made /\ NothingNew

\* The rotation a side commits is its only open one.
LEMMA CommitFacts ==
    ASSUME RotationTypeOK, CeremonyInv, NEW s \in Sides, NEW r \in Roles, NEW e \in Epochs,
           Commits(s, r, e)
    PROVE  /\ e = keyEpoch[s] + 1 /\ keyEpoch[s] \in Nat /\ keyEpoch[Peer(s)] \in Nat
           /\ e \in InFlight(s, r)
           /\ \A q \in Roles : InFlight(s, q)' = {}
           /\ \A q \in Roles : InFlight(Peer(s), q)' = InFlight(Peer(s), q)
           /\ \A q \in Roles : InFlight(s, q) \subseteq {e}
           /\ \A q \in Roles : q # r => InFlight(s, q) = {}
<1>1. Peer(s) \in Sides /\ Peer(s) # s /\ OneOpen(s)
  BY TwoSides DEF CeremonyInv, LocalInv
<1>2. \A q : q \in Roles <=> q = "rotating" \/ q = "acking"
  BY DEF Roles
<1>3. keyEpoch[s] \in Nat /\ keyEpoch[Peer(s)] \in Nat
  BY <1>1 DEF RotationTypeOK, Epochs
<1>4. e \in InFlight(s, r)
  BY DEF InFlight, Commits
<1>5. e = keyEpoch[s] + 1 /\ \A q \in Roles : \A f \in InFlight(s, q) : f = e
  BY <1>1, <1>4 DEF OneOpen
<1>6. \A q \in Roles : q # r => InFlight(s, q) = {}
  BY <1>1, <1>2, <1>4 DEF OneOpen
<1>7. ASSUME NEW q \in Roles, NEW f \in InFlight(s, q)' PROVE FALSE
  <2>1. f \in Epochs /\ rot'[s][q][f].phase \notin {"none", "committed", "discarded"}
    BY <1>7 DEF InFlight
  <2>2. q # r \/ f # e
    BY <2>1 DEF Commits
  <2>3. f \in InFlight(s, q)
    BY <2>1, <2>2 DEF InFlight, Commits
  <2>4. QED
    BY <1>5, <1>6, <2>2, <2>3
<1>8. \A q \in Roles : InFlight(Peer(s), q)' = InFlight(Peer(s), q)
  BY <1>1 DEF InFlight, Commits
<1>9. QED
  BY <1>3, <1>4, <1>5, <1>6, <1>7, <1>8

\* A commit on either side keeps the ceremony.
LEMMA CommitsKeep ==
    ASSUME RotationTypeOK, CeremonyInv, NEW s \in Sides, NEW r \in Roles, NEW e \in Epochs,
           Commits(s, r, e)
    PROVE  Grows /\ CeremonyInv'
<1> DEFINE p == Peer(s)
<1>1. \A q : q \in Roles <=> q = "rotating" \/ q = "acking"
  BY DEF Roles
<1>2. p \in Sides /\ p # s /\ Peer(p) = s /\ \A x \in Sides : x = s \/ x = p
  BY TwoSides
<1>3. /\ e = keyEpoch[s] + 1 /\ keyEpoch[s] \in Nat /\ keyEpoch[p] \in Nat
      /\ e \in InFlight(s, r)
      /\ \A q \in Roles : InFlight(s, q)' = {}
      /\ \A q \in Roles : InFlight(p, q)' = InFlight(p, q)
      /\ \A q \in Roles : InFlight(s, q) \subseteq {e}
      /\ \A q \in Roles : q # r => InFlight(s, q) = {}
  BY CommitFacts
<1>4. /\ keyEpoch'[s] = e /\ keyEpoch'[p] = keyEpoch[p] /\ epochs' = epochs /\ made' = made
      /\ used' = used /\ NothingNew
  BY DEF Commits, NothingNew
<1>5. /\ OneOpen(s) /\ RowsAgree(s) /\ OwnKeysUsed(s) /\ InStep(s)
      /\ OneOpen(p) /\ RowsAgree(p) /\ OwnKeysUsed(p) /\ InStep(p) /\ LocalInv(p)
  BY <1>2 DEF CeremonyInv, LocalInv
<1>6. \A t \in Sides, f \in Epochs :
        /\ Acking(t, f)'.key = Acking(t, f).key /\ Rotating(t, f)'.key = Rotating(t, f).key
        /\ Rotating(t, f)'.prior = Rotating(t, f).prior
        /\ t # s \/ f # e \/ r # "acking" => Acking(t, f)'.phase = Acking(t, f).phase
        /\ t # s \/ f # e \/ r # "rotating" => Rotating(t, f)'.phase = Rotating(t, f).phase
  BY <1>1 DEF Commits, Rotating, Acking
<1>7. /\ r = "acking" => Acking(s, e).phase = "confirmed" /\ Acking(s, e)'.phase = "committed"
      /\ r = "rotating" => Rotating(s, e).phase = "confirmed" /\ Rotating(s, e)'.phase = "committed"
  BY DEF Commits, Rotating, Acking
<1>8. LocalInv(s)'
  <2>1. OwnEpochs(s)' = OwnEpochs(s) /\ PeerRows(s)' = PeerRows(s) /\ PeerRows(s) \subseteq Epochs
    BY <1>4 DEF OwnEpochs, PeerRows
  <2>2. OneOpen(s)'
    <3>1. ASSUME NEW q \in Roles, NEW f \in Epochs, rot'[s][q][f].phase = "committed" PROVE f <= e
      <4>1. CASE f = e
        BY <4>1 DEF Epochs
      <4>2. CASE f # e
        <5>1. rot[s][q][f].phase = "committed"
          BY <3>1, <4>2 DEF Commits
        <5>2. f <= keyEpoch[s] /\ f \in Int
          BY <1>5, <5>1 DEF OneOpen, Epochs
        <5>3. QED
          BY <1>3, <5>2
      <4>3. QED
        BY <4>1, <4>2
    <3>2. ASSUME NEW f \in Epochs, epochs'[s][f] # NoKey PROVE f <= e
      <4>1. f <= keyEpoch[s] \/ \E q \in Roles : f \in InFlight(s, q)
        BY <1>4, <1>5, <3>2 DEF OneOpen
      <4>2. f <= keyEpoch[s] \/ f = e
        BY <1>3, <4>1
      <4>3. QED
        BY <1>3, <4>2 DEF Epochs
    <3>3. QED
      BY <1>1, <1>3, <1>4, <3>1, <3>2 DEF OneOpen
  <2>3. RowsAgree(s)'
    <3>1. \A f \in Epochs : Acking(s, f)'.phase # "none" =>
            /\ Acking(s, f).phase # "none" /\ Acking(s, f)'.phase # "discarded"
      BY <1>5, <1>6, <1>7 DEF RowsAgree
    <3>2. \A f \in Epochs : Rotating(s, f).phase \in {"none", "discarded"} =>
                              Rotating(s, f)'.phase = Rotating(s, f).phase
      BY <1>6, <1>7
    <3>3. \A f \in Epochs : Acking(s, f).phase # "none" => Acking(s, f)'.phase # "none"
      BY <1>6, <1>7, <1>1
    <3>4. \A f \in Epochs : Acking(s, f)'.phase # "none" =>
            /\ Acking(s, f)'.phase # "discarded"
            /\ Rotating(s, f)'.phase \in {"none", "discarded"}
            /\ Acking(s, f)'.key[1] = p /\ Acking(s, f)'.key[2] <= made[p]
      BY <1>5, <1>6, <3>1, <3>2 DEF RowsAgree
    <3>5. InFlight(s, "rotating")' = {} /\ InFlight(s, "acking")' = {}
      BY <1>1, <1>3
    <3>6. \A f \in PeerRows(s) : Acking(s, f)'.phase # "none"
      BY <1>5, <2>1, <3>3 DEF RowsAgree
    <3>7. \A f \in OwnEpochs(s) : epochs[s][f][2] <= made[s]
      BY <1>5 DEF RowsAgree
    <3>8. QED
      BY <1>4, <2>1, <3>4, <3>5, <3>6, <3>7 DEF RowsAgree
  <2>4. OwnKeysUsed(s)'
    <3>1. \A f \in Epochs : Rotating(s, f)'.phase \in Agreed => Rotating(s, f).phase \in Agreed
      BY <1>1, <1>6, <1>7 DEF Agreed
    <3>2. \A f \in Epochs : Rotating(s, f)'.phase # "none" => Rotating(s, f).phase # "none"
      BY <1>1, <1>6, <1>7
    <3>3. e \in InFlight(s, "rotating") => e \in used[s]
      <4> SUFFICES ASSUME e \in InFlight(s, "rotating") PROVE e \in used[s]
        OBVIOUS
      <4>1. r = "rotating"
        BY <1>1, <1>3
      <4>2. QED
        BY <1>5, <1>7, <4>1 DEF OwnKeysUsed, Agreed
    <3>4. \A f \in OwnEpochs(s) : f \in used[s]
      BY <1>1, <1>3, <1>5, <3>3 DEF OwnKeysUsed
    <3>5. QED
      BY <1>4, <1>5, <1>6, <2>1, <3>1, <3>2, <3>4 DEF OwnKeysUsed
  <2>5. QED
    BY <2>2, <2>3, <2>4 DEF LocalInv
<1>9. made' \in [Sides -> Nat] /\ \A t \in Sides : made'[t] = made[t] /\ made[t] <= made'[t]
  BY <1>4 DEF RotationTypeOK
<1>10. LocalInv(p)'
  <2>1. \A q \in Roles, f \in Epochs : SameRows(p, q, f)
    BY <1>2 DEF Commits, SameRows
  <2>2. QED
    BY <1>2, <1>4, <1>5, <1>9, <2>1, SideKeeps
<1>11. Grows
  <2>1. \A q \in Sides : \A key : Kept(q, key) => Kept(q, key)'
    BY <1>4 DEF Kept
  <2>2. ASSUME NEW q \in Sides, NEW f \in Epochs, Acknowledged(q, f) PROVE Acknowledged(q, f)'
    <3>1. f \in Int /\ e \in Int
      BY DEF Epochs
    <3>2. CASE q = s /\ f = e
      BY <1>4, <3>1, <3>2 DEF Acknowledged
    <3>3. CASE q # s
      BY <1>2, <1>4, <1>6, <2>2, <3>3 DEF Acknowledged
    <3>4. CASE q = s /\ f # e
      BY <1>3, <1>4, <1>6, <2>2, <3>1, <3>4 DEF Acknowledged
    <3>5. QED
      BY <3>2, <3>3, <3>4
  <2>3. QED
    BY <1>1, <1>6, <1>7, <1>9, <2>1, <2>2 DEF Grows
<1>12. keyEpoch[p] <= e
  <2>1. keyEpoch[p] > keyEpoch[s] => keyEpoch[p] = keyEpoch[s] + 1
    BY <1>2, <1>5 DEF InStep
  <2>2. QED
    BY <1>3, <2>1
<1>13. /\ \A t \in Sides, f \in Epochs : Acking(t, f)'.phase \in {"confirmed", "committed"} =>
              Acking(t, f).phase \in {"confirmed", "committed"}
       /\ \A t \in Sides, f \in Epochs : Rotating(t, f)'.phase \in Agreed => Rotating(t, f).phase \in Agreed
  BY <1>1, <1>6, <1>7 DEF Agreed
<1>14. InStep(s)'
  <2>1. \A f \in Epochs : Acking(s, f)'.phase \in {"confirmed", "committed"} => Acknowledged(p, f)'
    BY <1>2, <1>5, <1>11, <1>13 DEF InStep, Grows
  <2>2. \A f \in Epochs : Rotating(s, f)'.phase \in Agreed => Acking(p, f)'.phase # "none"
    BY <1>2, <1>5, <1>6, <1>13 DEF InStep
  <2>3. ASSUME e > keyEpoch[p]
        PROVE  /\ e = keyEpoch[p] + 1
               /\ \/ Rotating(p, e)'.phase \in {"acknowledged", "confirmed"}
                  \/ Acking(p, e)'.phase = "confirmed"
    <3>1. e \in Int /\ "rotating" \in Roles /\ "acking" \in Roles
      BY <1>1 DEF Epochs
    <3>2. CASE r = "rotating"
      <4>1. Acking(p, e).phase \in {"confirmed", "committed"}
        BY <3>2 DEF Commits
      <4>2. Acking(p, e).phase # "committed"
        BY <1>3, <1>5, <2>3, <3>1 DEF OneOpen, Acking
      <4>3. e \in InFlight(p, "acking")
        BY <4>1, <4>2 DEF InFlight, Acking
      <4>4. QED
        BY <1>2, <1>5, <1>6, <3>1, <4>1, <4>2, <4>3 DEF OneOpen
    <3>3. CASE r = "acking"
      <4>1. Acknowledged(p, e)
        BY <1>5, <1>7, <3>3 DEF InStep
      <4>2. Rotating(p, e).phase \in {"acknowledged", "confirmed"}
        BY <1>3, <2>3, <3>1, <4>1 DEF Acknowledged
      <4>3. e \in InFlight(p, "rotating")
        BY <4>2 DEF InFlight, Rotating
      <4>4. QED
        BY <1>2, <1>5, <1>6, <3>1, <4>2, <4>3 DEF OneOpen
    <3>4. QED
      BY <1>1, <3>2, <3>3
  <2>4. QED
    BY <1>1, <1>3, <1>4, <2>1, <2>2, <2>3 DEF InStep
<1>15. InStep(p)'
  <2>1. \A f \in Epochs : Acking(p, f)'.phase \in {"confirmed", "committed"} => Acknowledged(s, f)'
    BY <1>2, <1>5, <1>11, <1>13 DEF InStep, Grows
  <2>2. \A f \in Epochs : Rotating(p, f)'.phase \in Agreed => Acking(s, f)'.phase # "none"
    BY <1>2, <1>5, <1>11, <1>13 DEF InStep, Grows
  <2>3. ~(keyEpoch[p] > e)
    BY <1>3, <1>12
  <2>4. ASSUME NEW f \in InFlight(p, "acking"), e >= f
        PROVE  /\ epochs[s][f][1] = s /\ f \in used[s]
               /\ Acking(p, f).key[2] <= epochs[s][f][2]
    <3>1. f \in Epochs /\ f \in Int /\ Acking(p, f).phase # "none" /\ Acking(p, f).phase # "discarded"
      BY <2>4 DEF InFlight, Acking, Epochs
    <3>2. CASE keyEpoch[s] >= f
      BY <1>2, <1>5, <3>2, <2>4 DEF InStep
    <3>3. CASE f = e /\ r = "rotating"
      <4>1. epochs[s][e] = <<s, made[s]>> /\ Acking(p, e).key[2] <= made[s]
        BY <1>2, <1>3, <1>5, <3>1, <3>3 DEF RowsAgree
      <4>2. e \in used[s]
        BY <1>5, <1>7, <3>3 DEF OwnKeysUsed, Agreed
      <4>3. QED
        BY <3>3, <4>1, <4>2
    <3>4. CASE f = e /\ r = "acking"
      <4>1. Acknowledged(p, e) /\ Rotating(p, e).phase \in {"none", "discarded"}
        BY <1>5, <1>7, <3>1, <3>4 DEF InStep, RowsAgree
      <4>2. keyEpoch[p] >= e /\ e = keyEpoch[p] + 1
        BY <1>1, <1>5, <2>4, <3>4, <4>1 DEF Acknowledged, OneOpen
      <4>3. QED
        BY <1>3, <4>2
    <3>5. QED
      BY <1>1, <1>3, <2>4, <3>1, <3>2, <3>3, <3>4
  <2>5. \A f \in InFlight(p, "acking") : Acking(p, f)'.key = Acking(p, f).key
    BY <1>2, <1>6 DEF InFlight
  <2>6. InFlight(p, "acking")' = InFlight(p, "acking")
    BY <1>1, <1>3
  <2>7. QED
    BY <1>2, <1>4, <2>1, <2>2, <2>3, <2>4, <2>5, <2>6 DEF InStep
<1>16. \A t \in Sides : EventsHeld(t)'
  BY <1>4, <1>9, <1>11, EventsRemain DEF CeremonyInv
<1>17. QED
  BY <1>2, <1>8, <1>10, <1>11, <1>14, <1>15, <1>16 DEF CeremonyInv

\* on_commit commits a confirmed rotation, or does nothing but mark the event.
LEMMA OnCommitCommits ==
    ASSUME RotationTypeOK, CeremonyInv, NEW s \in Sides, NEW m, OnCommit(s, m)
    PROVE  /\ RotationTypeOK'
           /\ Quiet \/ (peerKey' = peerKey /\ \E e \in Epochs : Commits(s, "rotating", e))
<1>1. m \in due[s] /\ m.type = "commit"
  BY DEF OnCommit
<1>2. EventHeld(s, m)
  BY <1>1 DEF CeremonyInv, EventsHeld
<1>3. PICK e \in Epochs : e = m.e /\ Acking(Peer(s), e).phase \in {"confirmed", "committed"}
  BY <1>1, <1>2 DEF EventHeld
<1>4. "rotating" \in Roles /\ "committed" \in Phases /\ Peer(s) \in Sides /\ Peer(s) # s
  BY TwoSides DEF Roles, Phases
<1>5. /\ peerKey' = peerKey /\ epochs' = epochs /\ made' = made
      /\ pending' = pending /\ used' = used /\ latest' = latest /\ net' = net /\ now' = now
      /\ DOMAIN due' = Sides /\ \A t \in Sides : due'[t] \subseteq due[t]
  BY DEF OnCommit, MarkDone, RotationTypeOK
<1>6. CASE rot[s]["rotating"][e].phase = "confirmed"
  <2>1. /\ rot' = [rot EXCEPT ![s]["rotating"][e].phase = "committed"]
        /\ keyEpoch' = [keyEpoch EXCEPT ![s] = e]
    BY <1>3, <1>6 DEF OnCommit
  <2>2. Rephased(s, "rotating", e, "committed")
    BY <1>4, <1>6, <2>1, PhaseRow
  <2>3. /\ rot' \in [Sides -> [Roles -> [Epochs -> Rows \cup {NoRow}]]]
        /\ rot'[s]["rotating"][e].phase = "committed"
        /\ rot'[s]["rotating"][e].key = rot[s]["rotating"][e].key
        /\ rot'[s]["rotating"][e].prior = rot[s]["rotating"][e].prior
        /\ \A t \in Sides, q \in Roles, f \in Epochs :
              t # s \/ q # "rotating" \/ f # e => rot'[t][q][f] = rot[t][q][f]
    BY <1>4, <2>2, PhaseWrite
  <2>4. /\ keyEpoch' \in [Sides -> Epochs] /\ keyEpoch'[s] = e
        /\ keyEpoch'[Peer(s)] = keyEpoch[Peer(s)]
    BY <1>4, <2>1 DEF RotationTypeOK
  <2>5. RotationTypeOK'
    BY <1>5, <2>3, <2>4 DEF RotationTypeOK
  <2>6. Commits(s, "rotating", e)
    BY <1>3, <1>5, <1>6, <2>3, <2>4 DEF Commits, NothingNew
  <2>7. QED
    BY <1>5, <2>5, <2>6
<1>7. CASE rot[s]["rotating"][e].phase # "confirmed"
  <2>1. rot' = rot /\ keyEpoch' = keyEpoch
    BY <1>3, <1>7 DEF OnCommit
  <2>2. RotationTypeOK'
    BY <1>5, <2>1 DEF RotationTypeOK
  <2>3. Quiet
    BY <1>5, <2>1 DEF Quiet, SameRows
  <2>4. QED
    BY <2>2, <2>3
<1>8. QED
  BY <1>6, <1>7

\* mark_committed commits the confirmed rotation, or does nothing.
LEMMA MarkCommittedCommits ==
    ASSUME RotationTypeOK, CeremonyInv, NEW s \in Sides, MarkCommitted(s)
    PROVE  /\ RotationTypeOK'
           /\ \/ Quiet
              \/ \E e \in Epochs : /\ Commits(s, "acking", e)
                                   /\ peerKey' = [peerKey EXCEPT ![s] = Acking(s, e).key]
<1>1. "acking" \in Roles /\ "committed" \in Phases /\ Peer(s) \in Sides /\ Peer(s) # s
  BY TwoSides DEF Roles, Phases
<1>2. /\ epochs' = epochs /\ made' = made /\ pending' = pending /\ used' = used
      /\ latest' = latest /\ net' = net /\ due' = due /\ now' = now
  BY DEF MarkCommitted, logVars
<1>3. CASE Confirmed(s) = {}
  <2>1. rot' = rot /\ keyEpoch' = keyEpoch /\ peerKey' = peerKey
    BY <1>3 DEF MarkCommitted
  <2>2. RotationTypeOK'
    BY <1>2, <2>1 DEF RotationTypeOK
  <2>3. Quiet
    BY <1>2, <2>1 DEF Quiet, SameRows
  <2>4. QED
    BY <2>2, <2>3
<1>4. CASE Confirmed(s) # {}
  <2>1. PICK e : /\ e = Max(Confirmed(s))
                 /\ rot' = [rot EXCEPT ![s]["acking"][e].phase = "committed"]
                 /\ keyEpoch' = [keyEpoch EXCEPT ![s] = e]
                 /\ peerKey' = [peerKey EXCEPT ![s] = rot[s]["acking"][e].key]
    BY <1>4 DEF MarkCommitted
  <2>2. Confirmed(s) \subseteq Epochs
    BY DEF Confirmed
  <2>3. e \in Confirmed(s)
    BY <1>4, <2>1, <2>2, MaxIn
  <2>4. e \in Epochs /\ rot[s]["acking"][e].phase = "confirmed"
    BY <2>3 DEF Confirmed
  <2>5. Rephased(s, "acking", e, "committed")
    BY <1>1, <2>1, <2>4, PhaseRow
  <2>6. /\ rot' \in [Sides -> [Roles -> [Epochs -> Rows \cup {NoRow}]]]
        /\ rot'[s]["acking"][e].phase = "committed"
        /\ rot'[s]["acking"][e].key = rot[s]["acking"][e].key
        /\ rot'[s]["acking"][e].prior = rot[s]["acking"][e].prior
        /\ \A t \in Sides, q \in Roles, f \in Epochs :
              t # s \/ q # "acking" \/ f # e => rot'[t][q][f] = rot[t][q][f]
    BY <1>1, <2>4, <2>5, PhaseWrite
  <2>7. /\ keyEpoch' \in [Sides -> Epochs] /\ keyEpoch'[s] = e
        /\ keyEpoch'[Peer(s)] = keyEpoch[Peer(s)]
    BY <1>1, <2>1, <2>4 DEF RotationTypeOK
  <2>8. rot[s]["acking"][e].key \in Keys
    BY <1>1, <2>4, RowFields
  <2>9. peerKey' \in [Sides -> Keys]
    BY <2>1, <2>8 DEF RotationTypeOK
  <2>10. RotationTypeOK'
    BY <1>2, <2>6, <2>7, <2>9 DEF RotationTypeOK
  <2>11. Commits(s, "acking", e)
    BY <1>2, <2>4, <2>6, <2>7 DEF Commits, NothingNew
  <2>12. QED
    BY <2>1, <2>4, <2>10, <2>11 DEF Acking
<1>5. QED
  BY <1>3, <1>4

-----------------------------------------------------------------------------
\* A side opens the rotation of the epoch after its key_epoch, in either role.
Opens(s, r, e, row) ==
    /\ e = keyEpoch[s] + 1 /\ MayBegin(s) /\ epochs[s][e] = NoKey
    /\ rot'[s][r][e] = row
    /\ \A t \in Sides, q \in Roles, f \in Epochs :
          t # s \/ q # r \/ f # e => rot'[t][q][f] = rot[t][q][f]
    /\ epochs'[s][e] = row.key /\ epochs'[Peer(s)] = epochs[Peer(s)]
    /\ \A f \in Epochs : f # e => epochs'[s][f] = epochs[s][f]
    /\ keyEpoch' = keyEpoch /\ peerKey' = peerKey /\ NothingNew
    /\ \/ /\ r = "rotating" /\ row.phase = "candidate" /\ row.key = <<s, made'[s]>>
          /\ made'[s] = made[s] + 1 /\ made'[Peer(s)] = made[Peer(s)]
          /\ row.prior \in used[s] /\ epochs[s][row.prior][1] = s
       \/ /\ r = "acking" /\ row.phase = "acknowledged" /\ made' = made
          /\ row.key[1] = Peer(s) /\ row.key[2] <= made[Peer(s)]

\* A side that may begin has nothing beyond its key_epoch, and its peer is not ahead.
LEMMA OpensFacts ==
    ASSUME RotationTypeOK, CeremonyInv, NEW s \in Sides, MayBegin(s)
    PROVE  /\ \A q \in Roles : InFlight(s, q) = {}
           /\ \A f \in Epochs : epochs[s][f] # NoKey => f <= keyEpoch[s]
           /\ \A f \in Epochs : f > keyEpoch[s] =>
                 Acking(s, f).phase = "none" /\ Rotating(s, f).phase \in {"none", "discarded"}
           /\ keyEpoch[Peer(s)] <= keyEpoch[s]
<1>1. \A q : q \in Roles <=> q = "rotating" \/ q = "acking"
  BY DEF Roles
<1>2. \A q \in Roles : InFlight(s, q) = {}
  BY <1>1 DEF MayBegin
<1>3. Peer(s) \in Sides /\ Peer(Peer(s)) = s /\ OneOpen(s) /\ RowsAgree(s)
  BY TwoSides DEF CeremonyInv, LocalInv
<1>4. \A f \in Epochs : epochs[s][f] # NoKey => f <= keyEpoch[s]
  BY <1>2, <1>3 DEF OneOpen
<1>5. ASSUME NEW f \in Epochs, f > keyEpoch[s]
      PROVE  Acking(s, f).phase = "none" /\ Rotating(s, f).phase \in {"none", "discarded"}
  <2>1. \A q \in Roles : rot[s][q][f].phase \in {"none", "committed", "discarded"}
    BY <1>2 DEF InFlight
  <2>2. \A q \in Roles : rot[s][q][f].phase # "committed"
    BY <1>3, <1>5 DEF OneOpen, Epochs, RotationTypeOK
  <2>3. Acking(s, f).phase # "discarded"
    BY <1>3 DEF RowsAgree
  <2>4. QED
    BY <1>1, <2>1, <2>2, <2>3 DEF Acking, Rotating
<1>6. keyEpoch[Peer(s)] <= keyEpoch[s]
  <2>1. keyEpoch[Peer(s)] \in Epochs /\ keyEpoch[s] \in Epochs /\ InStep(Peer(s))
    BY <1>3 DEF RotationTypeOK, CeremonyInv
  <2>2. SUFFICES ASSUME keyEpoch[Peer(s)] > keyEpoch[s] PROVE FALSE
    BY <2>1 DEF Epochs
  <2>3. \/ Rotating(s, keyEpoch[Peer(s)]).phase \in {"acknowledged", "confirmed"}
        \/ Acking(s, keyEpoch[Peer(s)]).phase = "confirmed"
    BY <1>3, <2>1, <2>2 DEF InStep
  <2>4. QED
    BY <1>5, <2>1, <2>2, <2>3
<1>7. QED
  BY <1>2, <1>4, <1>5, <1>6

\* An opened rotation, of either role, keeps the ceremony.
LEMMA OpensKeep ==
    ASSUME RotationTypeOK, CeremonyInv, made' \in [Sides -> Nat],
           NEW s \in Sides, NEW r \in Roles, NEW e \in Epochs, NEW row, Opens(s, r, e, row)
    PROVE  Grows /\ CeremonyInv'
<1> DEFINE p == Peer(s)
<1>1. \A q : q \in Roles <=> q = "rotating" \/ q = "acking"
  BY DEF Roles
<1>2. p \in Sides /\ p # s /\ Peer(p) = s /\ \A x \in Sides : x = s \/ x = p
  BY TwoSides
<1>3. /\ e = keyEpoch[s] + 1 /\ keyEpoch[s] \in Nat /\ keyEpoch[p] \in Nat
      /\ keyEpoch[p] <= keyEpoch[s]
      /\ \A q \in Roles : InFlight(s, q) = {}
      /\ \A f \in Epochs : epochs[s][f] # NoKey => f <= keyEpoch[s]
      /\ Acking(s, e).phase = "none" /\ Rotating(s, e).phase \in {"none", "discarded"}
  <2>1. MayBegin(s) /\ e = keyEpoch[s] + 1
    BY DEF Opens
  <2>2. keyEpoch[s] \in Nat /\ keyEpoch[p] \in Nat
    BY <1>2 DEF RotationTypeOK, Epochs
  <2>3. e > keyEpoch[s]
    BY <2>1, <2>2
  <2>4. QED
    BY <2>1, <2>2, <2>3, OpensFacts
<1>4. /\ OneOpen(s) /\ RowsAgree(s) /\ OwnKeysUsed(s) /\ InStep(s) /\ LocalInv(p) /\ InStep(p)
  BY <1>2 DEF CeremonyInv, LocalInv
<1>5. \A t \in Sides, f \in Epochs :
        /\ t # s \/ f # e \/ r # "acking" => Acking(t, f)' = Acking(t, f)
        /\ t # s \/ f # e \/ r # "rotating" => Rotating(t, f)' = Rotating(t, f)
  BY <1>1 DEF Opens, Rotating, Acking
<1>6. /\ r = "acking" => Acking(s, e)' = row
      /\ r = "rotating" => Rotating(s, e)' = row
  BY DEF Opens, Rotating, Acking
<1>7. /\ epochs'[s][e] = row.key /\ epochs'[p] = epochs[p]
      /\ \A f \in Epochs : f # e => epochs'[s][f] = epochs[s][f]
      /\ keyEpoch' = keyEpoch /\ used' = used /\ epochs[s][e] = NoKey
  BY DEF Opens, NothingNew
<1>8. /\ r = "rotating" => /\ row.phase = "candidate" /\ row.key = <<s, made'[s]>>
                           /\ made'[s] = made[s] + 1 /\ made'[p] = made[p]
                           /\ row.prior \in used[s] /\ epochs[s][row.prior][1] = s
      /\ r = "acking" => /\ row.phase = "acknowledged" /\ made' = made
                         /\ row.key[1] = p /\ row.key[2] <= made[p]
  BY DEF Opens
<1>9. \A t \in Sides : made[t] <= made'[t] /\ made[t] \in Nat /\ made'[t] \in Nat
  <2>1. \A t \in Sides : made[t] \in Nat /\ made'[t] \in Nat
    BY DEF RotationTypeOK
  <2>2. CASE r = "rotating"
    BY <1>2, <1>8, <2>1, <2>2
  <2>3. CASE r = "acking"
    BY <1>8, <2>1, <2>3
  <2>4. QED
    BY <1>1, <2>2, <2>3
<1>10. /\ InFlight(s, r)' = {e} /\ \A q \in Roles : q # r => InFlight(s, q)' = {}
       /\ \A q \in Roles : InFlight(p, q)' = InFlight(p, q)
  <2>1. rot'[s][r][e].phase \in {"candidate", "acknowledged"}
    BY <1>1, <1>8 DEF Opens
  <2>2. e \in InFlight(s, r)'
    BY <2>1 DEF InFlight
  <2>3. ASSUME NEW q \in Roles, NEW f \in InFlight(s, q)', q # r \/ f # e PROVE FALSE
    <3>1. f \in Epochs /\ rot'[s][q][f] = rot[s][q][f]
      BY <2>3 DEF InFlight, Opens
    <3>2. f \in InFlight(s, q)
      BY <2>3, <3>1 DEF InFlight
    <3>3. QED
      BY <1>3, <3>2
  <2>4. \A q \in Roles : InFlight(p, q)' = InFlight(p, q)
    BY <1>2 DEF InFlight, Opens
  <2>5. QED
    BY <2>2, <2>3, <2>4
<1>11. NoKey[1] # s /\ NoKey[1] # p
  BY <1>2, KeyParts
<1>12. LocalInv(s)'
  <2>1. OneOpen(s)'
    <3>1. \A q \in Roles : \A f \in InFlight(s, q)' : f = keyEpoch[s] + 1
      BY <1>3, <1>10
    <3>2. InFlight(s, "rotating")' = {} \/ InFlight(s, "acking")' = {}
      BY <1>1, <1>10
    <3>3. \A q \in Roles, f \in Epochs : rot'[s][q][f].phase = "committed" => f <= keyEpoch[s]
      <4>1. \A q \in Roles, f \in Epochs : rot'[s][q][f].phase = "committed" =>
                                             rot[s][q][f].phase = "committed"
        BY <1>1, <1>8 DEF Opens
      <4>2. QED
        BY <1>4, <4>1 DEF OneOpen
    <3>4. \A f \in Epochs : epochs'[s][f] # NoKey => f <= keyEpoch[s] \/ f \in InFlight(s, r)'
      BY <1>3, <1>7, <1>10
    <3>5. QED
      BY <1>7, <3>1, <3>2, <3>3, <3>4 DEF OneOpen
  <2>2. RowsAgree(s)'
    <3>1. ASSUME NEW f \in InFlight(s, "rotating")'
          PROVE  /\ epochs'[s][f] = Rotating(s, f)'.key /\ epochs'[s][f] = <<s, made'[s]>>
                 /\ epochs'[s][Rotating(s, f)'.prior][1] = s
      <4>1. r = "rotating" /\ f = e
        BY <1>1, <1>10, <3>1
      <4>2. row.prior \in Epochs /\ row.prior # e
        BY <1>7, <1>8, <1>11, <4>1 DEF RotationTypeOK
      <4>3. QED
        BY <1>6, <1>7, <1>8, <4>1, <4>2
    <3>2. ASSUME NEW f \in Epochs, Acking(s, f)'.phase # "none"
          PROVE  /\ Acking(s, f)'.phase # "discarded"
                 /\ Rotating(s, f)'.phase \in {"none", "discarded"}
                 /\ Acking(s, f)'.key[1] = p /\ Acking(s, f)'.key[2] <= made'[p]
      <4>1. CASE f = e
        <5>1. r = "acking"
          BY <1>1, <1>3, <1>5, <3>2, <4>1
        <5>2. QED
          BY <1>3, <1>5, <1>6, <1>8, <4>1, <5>1
      <4>2. CASE f # e
        <5>1. Acking(s, f)' = Acking(s, f) /\ Rotating(s, f)' = Rotating(s, f)
          BY <1>5, <4>2
        <5>2. /\ Acking(s, f).phase # "discarded" /\ Rotating(s, f).phase \in {"none", "discarded"}
              /\ Acking(s, f).key[1] = p /\ Acking(s, f).key[2] <= made[p]
          BY <1>4, <3>2, <5>1 DEF RowsAgree
        <5>3. made'[p] = made[p]
          BY <1>1, <1>8
        <5>4. QED
          BY <5>1, <5>2, <5>3
      <4>3. QED
        BY <4>1, <4>2
    <3>3. \A f \in InFlight(s, "acking")' : epochs'[s][f] = Acking(s, f)'.key
      BY <1>1, <1>6, <1>7, <1>10
    <3>4. ASSUME NEW f \in PeerRows(s)' PROVE Acking(s, f)'.phase # "none"
      <4>1. f \in Epochs /\ epochs'[s][f][1] = p
        BY DEF PeerRows
      <4>2. CASE f = e
        <5>1. r # "rotating"
          BY <1>2, <1>7, <1>8, <4>1, <4>2
        <5>2. QED
          BY <1>1, <1>6, <1>8, <4>2, <5>1
      <4>3. CASE f # e
        <5>1. f \in PeerRows(s)
          BY <1>7, <4>1, <4>3 DEF PeerRows
        <5>2. QED
          BY <1>4, <1>5, <4>1, <4>3, <5>1 DEF RowsAgree
      <4>4. QED
        BY <4>2, <4>3
    <3>5. ASSUME NEW f \in OwnEpochs(s)' PROVE epochs'[s][f][2] <= made'[s]
      <4>1. f \in Epochs /\ epochs'[s][f][1] = s
        BY DEF OwnEpochs
      <4>2. CASE f = e
        <5>1. r = "rotating"
          BY <1>1, <1>2, <1>7, <1>8, <4>1, <4>2
        <5>2. QED
          BY <1>7, <1>8, <1>9, <4>2, <5>1
      <4>3. CASE f # e
        <5>1. epochs'[s][f] = epochs[s][f] /\ f \in OwnEpochs(s)
          BY <1>7, <4>1, <4>3 DEF OwnEpochs
        <5>2. epochs[s][f][2] <= made[s]
          BY <1>4, <5>1 DEF RowsAgree
        <5>3. epochs[s][f][2] \in Nat
          <6>1. epochs[s][f] \in Keys \cup {NoKey}
            BY <4>1 DEF RotationTypeOK
          <6>2. QED
            BY <1>11, <4>1, <5>1, <6>1, KeyParts
        <5>4. QED
          BY <1>9, <5>1, <5>2, <5>3
      <4>4. QED
        BY <4>2, <4>3
    <3>6. QED
      BY <3>1, <3>2, <3>3, <3>4, <3>5 DEF RowsAgree
  <2>3. OwnKeysUsed(s)'
    <3>1. \A f \in Epochs : Rotating(s, f)'.phase \in Agreed => f \in used[s]
      BY <1>4, <1>5, <1>6, <1>8 DEF OwnKeysUsed, Agreed
    <3>2. ASSUME NEW f \in OwnEpochs(s)' PROVE f \in used[s] \/ f \in InFlight(s, "rotating")'
      <4>1. f \in Epochs /\ epochs'[s][f][1] = s
        BY DEF OwnEpochs
      <4>2. CASE f = e
        BY <1>1, <1>2, <1>7, <1>8, <1>10, <4>1, <4>2
      <4>3. CASE f # e
        <5>1. f \in OwnEpochs(s)
          BY <1>7, <4>1, <4>3 DEF OwnEpochs
        <5>2. QED
          BY <1>1, <1>3, <1>4, <5>1 DEF OwnKeysUsed
      <4>4. QED
        BY <4>2, <4>3
    <3>3. \A f \in Epochs : Rotating(s, f)'.phase # "none" => Rotating(s, f)'.prior \in used[s]
      BY <1>4, <1>5, <1>6, <1>8 DEF OwnKeysUsed
    <3>4. QED
      BY <1>7, <3>1, <3>2, <3>3 DEF OwnKeysUsed
  <2>4. QED
    BY <2>1, <2>2, <2>3 DEF LocalInv
<1>13. LocalInv(p)'
  <2>1. \A q \in Roles, f \in Epochs : SameRows(p, q, f)
    BY <1>2 DEF Opens, SameRows
  <2>2. made'[p] = made[p] /\ keyEpoch'[p] = keyEpoch[p] /\ used[p] \subseteq used'[p]
    BY <1>1, <1>7, <1>8
  <2>3. made[Peer(p)] <= made'[Peer(p)]
    BY <1>2, <1>9
  <2>4. QED
    BY <1>2, <1>4, <1>7, <2>1, <2>2, <2>3, SideKeeps
<1>14. Grows
  <2>1. \A q \in Sides : \A f \in used[q] : epochs[q][f][1] = q => epochs'[q][f] = epochs[q][f]
    <3>1. \A q \in Sides : used[q] \subseteq Epochs
      BY DEF RotationTypeOK
    <3>2. QED
      BY <1>2, <1>7, <1>11, <3>1
  <2>2. \A q \in Sides : \A key : Kept(q, key) => Kept(q, key)'
    BY <1>7, <2>1, KeptStays
  <2>3. \A q \in Sides, f \in Epochs : Acknowledged(q, f) => Acknowledged(q, f)'
    BY <1>1, <1>3, <1>5, <1>7 DEF Acknowledged
  <2>4. \A q \in Sides, f \in Epochs : Acking(q, f).phase # "none" => Acking(q, f)' = Acking(q, f)
    BY <1>3, <1>5
  <2>5. QED
    BY <1>9, <2>2, <2>3, <2>4 DEF Grows
<1>15. InStep(s)'
  <2>1. \A f \in Epochs : Acking(s, f)'.phase \in {"confirmed", "committed"} => Acknowledged(p, f)'
    <3>1. \A f \in Epochs : Acking(s, f)'.phase \in {"confirmed", "committed"} =>
                              Acking(s, f).phase \in {"confirmed", "committed"}
      BY <1>5, <1>6, <1>8
    <3>2. QED
      BY <1>2, <1>4, <1>14, <3>1 DEF InStep, Grows
  <2>2. \A f \in Epochs : Rotating(s, f)'.phase \in Agreed => Acking(p, f)'.phase # "none"
    <3>1. \A f \in Epochs : Rotating(s, f)'.phase \in Agreed => Rotating(s, f).phase \in Agreed
      BY <1>5, <1>6, <1>8 DEF Agreed
    <3>2. QED
      BY <1>2, <1>4, <1>14, <3>1 DEF InStep, Grows
  <2>3. keyEpoch[s] > keyEpoch[p] =>
          /\ keyEpoch[s] = keyEpoch[p] + 1
          /\ \/ Rotating(p, keyEpoch[s])'.phase \in {"acknowledged", "confirmed"}
             \/ Acking(p, keyEpoch[s])'.phase = "confirmed"
    <3>1. keyEpoch[s] \in Epochs
      BY DEF RotationTypeOK
    <3>2. /\ Rotating(p, keyEpoch[s])' = Rotating(p, keyEpoch[s])
          /\ Acking(p, keyEpoch[s])' = Acking(p, keyEpoch[s])
      BY <1>2, <1>5, <1>7, <3>1 DEF Rotating, Acking
    <3>3. QED
      BY <1>4, <3>2 DEF InStep
  <2>4. \A f \in InFlight(s, "acking")' : ~(keyEpoch[p] >= f)
    BY <1>1, <1>3, <1>10
  <2>5. QED
    BY <1>7, <2>1, <2>2, <2>3, <2>4 DEF InStep
<1>16. InStep(p)'
  <2>1. \A f \in Epochs : Acking(p, f)' = Acking(p, f) /\ Rotating(p, f)' = Rotating(p, f)
    BY <1>2, <1>5
  <2>2. \A f \in Epochs : Acking(p, f)'.phase \in {"confirmed", "committed"} => Acknowledged(s, f)'
    BY <1>2, <1>4, <1>14, <2>1 DEF InStep, Grows
  <2>3. \A f \in Epochs : Rotating(p, f)'.phase \in Agreed => Acking(s, f)'.phase # "none"
    BY <1>2, <1>4, <1>14, <2>1 DEF InStep, Grows
  <2>4. ~(keyEpoch[p] > keyEpoch[s])
    BY <1>3
  <2>5. ASSUME NEW f \in InFlight(p, "acking"), keyEpoch[s] >= f
        PROVE  /\ epochs'[s][f][1] = s /\ f \in used[s]
               /\ Acking(p, f)'.key[2] <= epochs'[s][f][2]
    <3>1. f \in Epochs /\ f # e
      BY <1>3, <2>5 DEF InFlight
    <3>2. epochs'[s][f] = epochs[s][f] /\ Acking(p, f)' = Acking(p, f)
      BY <1>7, <2>1, <3>1
    <3>3. QED
      BY <1>2, <1>4, <2>5, <3>2 DEF InStep
  <2>6. InFlight(p, "acking")' = InFlight(p, "acking")
    BY <1>1, <1>10
  <2>7. QED
    BY <1>2, <1>7, <2>2, <2>3, <2>4, <2>5, <2>6 DEF InStep
<1>17. NothingNew
  BY DEF Opens
<1>18. \A t \in Sides : EventsHeld(t)'
  BY <1>14, <1>17, EventsRemain DEF CeremonyInv
<1>19. QED
  BY <1>2, <1>12, <1>13, <1>14, <1>15, <1>16, <1>18 DEF CeremonyInv

\* What an opened row does to the two tables.
LEMMA OpenWrites ==
    ASSUME RotationTypeOK, NEW s \in Sides, NEW r \in Roles, NEW e \in Epochs, NEW row \in Rows,
           Written(s, r, e, row), epochs' = [epochs EXCEPT ![s][e] = row.key]
    PROVE  /\ rot' \in [Sides -> [Roles -> [Epochs -> Rows \cup {NoRow}]]]
           /\ rot'[s][r][e] = row
           /\ \A t \in Sides, q \in Roles, f \in Epochs :
                 t # s \/ q # r \/ f # e => rot'[t][q][f] = rot[t][q][f]
           /\ epochs' \in [Sides -> [Epochs -> Keys \cup {NoKey}]]
           /\ epochs'[s][e] = row.key /\ epochs'[Peer(s)] = epochs[Peer(s)]
           /\ \A f \in Epochs : f # e => epochs'[s][f] = epochs[s][f]
<1> DEFINE K == Keys \cup {NoKey}
<1>1. /\ rot' \in [Sides -> [Roles -> [Epochs -> Rows \cup {NoRow}]]]
      /\ rot'[s][r][e] = row
      /\ \A t \in Sides, q \in Roles, f \in Epochs :
            t # s \/ q # r \/ f # e => rot'[t][q][f] = rot[t][q][f]
  BY RowWrite
<1>2. row.key \in K
  BY DEF Rows
<1>3. epochs \in [Sides -> [Epochs -> K]] /\ Peer(s) \in Sides /\ Peer(s) # s
  BY TwoSides DEF RotationTypeOK
<1>4. PICK key \in K : key = row.key
  BY <1>2
<1>5. epochs' = [epochs EXCEPT ![s][e] = key]
  BY <1>4
<1> HIDE DEF K
<1>6. /\ epochs' \in [Sides -> [Epochs -> K]]
      /\ epochs'[s][e] = key /\ epochs'[Peer(s)] = epochs[Peer(s)]
      /\ \A f \in Epochs : f # e => epochs'[s][f] = epochs[s][f]
  BY <1>3, <1>5
<1>7. QED
  BY <1>1, <1>4, <1>6 DEF K

\* begin_rotation opens the epoch after key_epoch.
LEMMA BeginOpens ==
    ASSUME RotationTypeOK, CeremonyInv, NEW s \in Sides, BeginRotation(s)
    PROVE  RotationTypeOK' /\ \E e \in Epochs, row \in Rows : Opens(s, "rotating", e, row)
<1> DEFINE p == Peer(s)
<1>1. MayBegin(s) /\ OwnEpochs(s) # {} /\ made[s] + made[p] < MaxKeys /\ CurrentEpoch(s) < MaxEpoch
  BY DEF BeginRotation
<1>2. p \in Sides /\ p # s /\ OwnKeysUsed(s)
  BY TwoSides DEF CeremonyInv, LocalInv
<1>3. /\ InFlight(s, "rotating") = {}
      /\ \A f \in Epochs : epochs[s][f] # NoKey => f <= keyEpoch[s]
  BY <1>1, OpensFacts DEF Roles
<1>4. /\ keyEpoch[s] \in Epochs /\ keyEpoch[s] \in Nat /\ Epochs \subseteq Nat
      /\ made[s] \in Nat /\ made[p] \in Nat /\ now \in Nat
  BY <1>2 DEF RotationTypeOK, Epochs
<1>5. CurrentEpoch(s) = keyEpoch[s]
  <2> DEFINE S == OwnEpochs(s) \cup PeerEpochs(s)
  <2>1. keyEpoch[s] \in S
    BY DEF PeerEpochs
  <2>2. ASSUME NEW y \in S PROVE y \in Int /\ keyEpoch[s] >= y
    <3>1. CASE y = keyEpoch[s]
      BY <1>4, <3>1
    <3>2. CASE y \in OwnEpochs(s) \cup PeerRows(s)
      <4>1. y \in Epochs /\ epochs[s][y][1] \in Sides
        BY <1>2, <3>2 DEF OwnEpochs, PeerRows
      <4>2. epochs[s][y] # NoKey
        BY <4>1, KeyParts
      <4>3. y <= keyEpoch[s]
        BY <1>3, <4>1, <4>2
      <4>4. QED
        BY <1>4, <4>1, <4>3
    <3>3. QED
      BY <2>2, <3>1, <3>2 DEF PeerEpochs
  <2>3. keyEpoch[s] \in Int
    BY <1>4
  <2> HIDE DEF S
  <2>4. Max(S) = keyEpoch[s]
    BY <2>1, <2>2, <2>3, MaxIs
  <2>5. QED
    BY <2>4 DEF CurrentEpoch, S
<1>6. PICK e \in Epochs : e = keyEpoch[s] + 1
  BY <1>1, <1>4, <1>5, ConstantsAssumption DEF Epochs
<1>7. epochs[s][e] = NoKey
  BY <1>3, <1>4, <1>6
<1>8. PICK prior \in OwnEpochs(s) : prior = Max(OwnEpochs(s))
  <2>1. OwnEpochs(s) \subseteq Epochs
    BY DEF OwnEpochs
  <2>2. QED
    BY <1>1, <2>1, MaxIn
<1>9. prior \in Epochs /\ epochs[s][prior][1] = s /\ prior \in used[s]
  BY <1>2, <1>3 DEF OwnEpochs, OwnKeysUsed
<1>10. PICK n \in Nat : n = made[s] + 1
  BY <1>4
<1> DEFINE row == [phase |-> "candidate", prior |-> prior, key |-> <<s, n>>,
                   deadline |-> now + Window, seen |-> FALSE]
<1>11. row \in Rows
  <2>1. <<s, n>> \in Keys
    BY <1>1, <1>4, <1>10, ConstantsAssumption DEF Keys
  <2>2. now + Window \in Nat
    BY <1>4, ConstantsAssumption
  <2>3. QED
    BY <1>9, <2>1, <2>2 DEF Rows, Phases
<1>12. Written(s, "rotating", e, row) /\ epochs' = [epochs EXCEPT ![s][e] = row.key]
  BY <1>5, <1>6, <1>8, <1>10 DEF BeginRotation, Written
<1>13. row.phase = "candidate" /\ row.prior = prior /\ row.key = <<s, n>>
  OBVIOUS
<1> HIDE DEF row
<1>14. /\ rot' \in [Sides -> [Roles -> [Epochs -> Rows \cup {NoRow}]]]
       /\ rot'[s]["rotating"][e] = row
       /\ \A t \in Sides, q \in Roles, f \in Epochs :
             t # s \/ q # "rotating" \/ f # e => rot'[t][q][f] = rot[t][q][f]
       /\ epochs' \in [Sides -> [Epochs -> Keys \cup {NoKey}]]
       /\ epochs'[s][e] = row.key /\ epochs'[Peer(s)] = epochs[Peer(s)]
       /\ \A f \in Epochs : f # e => epochs'[s][f] = epochs[s][f]
  <2>1. "rotating" \in Roles
    BY DEF Roles
  <2>2. QED
    BY <1>11, <1>12, <2>1, OpenWrites
<1>15. /\ keyEpoch' = keyEpoch /\ peerKey' = peerKey /\ pending' = pending /\ used' = used
       /\ latest' = latest /\ due' = due /\ net' = net /\ now' = now
       /\ made' = [made EXCEPT ![s] = @ + 1]
  BY DEF BeginRotation, logVars
<1>16. made' \in [Sides -> Nat] /\ made'[s] = n /\ n = made[s] + 1 /\ made'[p] = made[p]
  BY <1>2, <1>10, <1>15 DEF RotationTypeOK
<1>17. RotationTypeOK'
  BY <1>14, <1>15, <1>16 DEF RotationTypeOK
<1>18. NothingNew
  BY <1>15 DEF NothingNew
<1>19. Opens(s, "rotating", e, row)
  BY <1>1, <1>6, <1>7, <1>9, <1>13, <1>14, <1>15, <1>16, <1>18 DEF Opens
<1>20. QED
  BY <1>11, <1>17, <1>19

\* on_prepare opens the epoch after key_epoch, for the key the prepare carries.
LEMMA StoreOpens ==
    ASSUME RotationTypeOK, CeremonyInv, NEW s \in Sides,
           NEW m \in due[s] \cup ({latest[s]} \ {NoEvent}), StoreCandidate(s, m)
    PROVE  /\ RotationTypeOK'
           /\ PriorEpoch(s, m) = keyEpoch[s]
           /\ \E e \in Epochs, row \in Rows : row.key = m.key /\ Opens(s, "acking", e, row)
<1> DEFINE p == Peer(s)
<1>1. /\ m.type = "prepare" /\ EventHeld(s, m) /\ Acceptable(s, m)
  BY ConsideredHolds DEF StoreCandidate, Considered
<1>2. /\ m.key \in Keys /\ m.key[1] = p /\ m.key[2] <= made[p] /\ m.deadline \in Nat
  BY <1>1 DEF EventHeld
<1>3. PICK e : e = PriorEpoch(s, m) + 1
  OBVIOUS
<1>4. /\ e > 1 /\ e <= MaxEpoch /\ e - 1 = Max(PeerEpochs(s)) /\ epochs[s][e] = NoKey /\ MayBegin(s)
  BY <1>1, <1>3 DEF Acceptable
<1>5. p \in Sides /\ p # s /\ keyEpoch[s] \in Epochs /\ keyEpoch[s] \in Nat /\ Epochs \subseteq Nat
  BY TwoSides DEF RotationTypeOK, Epochs
<1>6. Max(PeerEpochs(s)) = keyEpoch[s]
  <2> DEFINE S == PeerEpochs(s)
  <2>1. keyEpoch[s] \in S
    BY DEF PeerEpochs
  <2>2. ASSUME NEW y \in S PROVE y \in Int /\ keyEpoch[s] >= y
    <3>1. CASE y = keyEpoch[s]
      BY <1>5, <3>1
    <3>2. CASE y \in PeerRows(s)
      <4>1. y \in Epochs /\ epochs[s][y][1] \in Sides
        BY <1>5, <3>2 DEF PeerRows
      <4>2. epochs[s][y] # NoKey
        BY <4>1, KeyParts
      <4>3. y <= keyEpoch[s]
        BY <1>4, <4>1, <4>2, OpensFacts
      <4>4. QED
        BY <1>5, <4>1, <4>3
    <3>3. QED
      BY <2>2, <3>1, <3>2 DEF PeerEpochs
  <2>3. keyEpoch[s] \in Int
    BY <1>5
  <2> HIDE DEF S
  <2>4. Max(S) = keyEpoch[s]
    BY <2>1, <2>2, <2>3, MaxIs
  <2>5. QED
    BY <2>4 DEF S
<1>7. PriorEpoch(s, m) \in Nat
  <2>1. PeerEpochs(s) \subseteq Nat
    BY <1>5 DEF PeerEpochs, PeerRows
  <2> DEFINE held == {x \in PeerEpochs(s) : PeerKeyAt(s, x) = m.prior}
  <2>2. held \subseteq Nat
    BY <2>1
  <2>3. held # {} => Min(held) \in Nat
    <3> HIDE DEF held
    <3>1. QED
      BY <2>2, MinIn
  <2>4. QED
    BY <1>5, <2>3 DEF PriorEpoch
<1>8. e \in Epochs /\ e = keyEpoch[s] + 1 /\ PriorEpoch(s, m) = keyEpoch[s] /\ e - 1 \in Epochs
  BY <1>3, <1>4, <1>5, <1>6, <1>7, ConstantsAssumption DEF Epochs
<1> DEFINE row == [phase |-> "acknowledged", prior |-> e - 1, key |-> m.key,
                   deadline |-> m.deadline, seen |-> FALSE]
<1>9. row \in Rows
  BY <1>2, <1>8 DEF Rows, Phases
<1>10. Written(s, "acking", e, row) /\ epochs' = [epochs EXCEPT ![s][e] = row.key]
  BY <1>3 DEF StoreCandidate, Written
<1>11. row.phase = "acknowledged" /\ row.key = m.key
  OBVIOUS
<1> HIDE DEF row
<1>12. /\ rot' \in [Sides -> [Roles -> [Epochs -> Rows \cup {NoRow}]]]
       /\ rot'[s]["acking"][e] = row
       /\ \A t \in Sides, q \in Roles, f \in Epochs :
             t # s \/ q # "acking" \/ f # e => rot'[t][q][f] = rot[t][q][f]
       /\ epochs' \in [Sides -> [Epochs -> Keys \cup {NoKey}]]
       /\ epochs'[s][e] = row.key /\ epochs'[Peer(s)] = epochs[Peer(s)]
       /\ \A f \in Epochs : f # e => epochs'[s][f] = epochs[s][f]
  <2>1. "acking" \in Roles /\ e \in Epochs
    BY <1>8 DEF Roles
  <2>2. QED
    BY <1>9, <1>10, <2>1, OpenWrites
<1>13. /\ keyEpoch' = keyEpoch /\ peerKey' = peerKey /\ pending' = pending /\ used' = used
       /\ latest' = latest /\ due' = due /\ net' = net /\ now' = now /\ made' = made
  BY DEF StoreCandidate, logVars
<1>14. RotationTypeOK'
  BY <1>12, <1>13 DEF RotationTypeOK
<1>15. NothingNew
  BY <1>13 DEF NothingNew
<1>16. Opens(s, "acking", e, row)
  BY <1>2, <1>4, <1>8, <1>11, <1>12, <1>13, <1>15 DEF Opens
<1>17. QED
  BY <1>8, <1>9, <1>11, <1>14, <1>16

-----------------------------------------------------------------------------
\* What a step of one side does to the ceremony.
CommitsByRotating(s) == peerKey' = peerKey /\ \E e \in Epochs : Commits(s, "rotating", e)
CommitsByAcking(s) ==
    \E e \in Epochs : Commits(s, "acking", e) /\ peerKey' = [peerKey EXCEPT ![s] = Acking(s, e).key]
OpensByRotating(s) == \E e \in Epochs, row \in Rows : Opens(s, "rotating", e, row)
OpensByAcking(s) ==
    /\ \E e \in Epochs, row \in Rows : Opens(s, "acking", e, row)
    /\ \E m : EventHeld(s, m) /\ m.type = "prepare" /\ PriorEpoch(s, m) = keyEpoch[s]

Loud(s) ==
    \/ Trimmed(s) \/ CommitsByRotating(s) \/ CommitsByAcking(s)
    \/ OpensByRotating(s) \/ OpensByAcking(s)

\* Every step of the system is one of these.
LEMMA StepKinds ==
    ASSUME RotationTypeOK, CeremonyInv, [Next]_vars
    PROVE  RotationTypeOK' /\ (Quiet \/ Advance \/ \E s \in Sides : Loud(s))
<1>1. CASE Tick \/ UNCHANGED vars
  <2>1. PICK s \in Sides : TRUE
    BY ConstantsAssumption
  <2>2. QED
    BY <1>1, <2>1, ConsumingIsQuiet
<1>2. ASSUME NEW s \in Sides, BeginRotation(s)
      PROVE  RotationTypeOK' /\ (Quiet \/ Advance \/ \E t \in Sides : Loud(t))
  BY <1>2, BeginOpens DEF Loud, OpensByRotating
<1>3. ASSUME NEW s \in Sides, SendPrepare(s) \/ SendConfirm(s) \/ SendCommit(s) \/ SendData(s)
      PROVE  RotationTypeOK' /\ Quiet
  BY <1>3, SendsAreQuiet
<1>4. ASSUME NEW s \in Sides, MarkConfirmed(s) PROVE RotationTypeOK' /\ Advance
  BY <1>4, MarkConfirmedAdvances
<1>5. ASSUME NEW s \in Sides, MarkCommitted(s)
      PROVE  RotationTypeOK' /\ (Quiet \/ Advance \/ \E t \in Sides : Loud(t))
  BY <1>5, MarkCommittedCommits DEF Loud, CommitsByAcking
<1>6. ASSUME NEW s \in Sides, CommandDies(s) PROVE RotationTypeOK' /\ Quiet
  BY <1>6, ConsumingIsQuiet
<1>7. ASSUME NEW s \in Sides, Sweep(s)
      PROVE  RotationTypeOK' /\ (Quiet \/ Advance \/ \E t \in Sides : Loud(t))
  BY <1>7, SweepTrims DEF Loud
<1>8. ASSUME NEW s \in Sides, NEW m \in net[s], Accept(s, m) \/ Refuse(s, m)
      PROVE  RotationTypeOK' /\ Quiet
  BY <1>8, AcceptIsQuiet, ConsumingIsQuiet
<1>9. ASSUME NEW s \in Sides, NEW m \in due[s] \cup ({latest[s]} \ {NoEvent}), Hook(s, m)
      PROVE  RotationTypeOK' /\ (Quiet \/ Advance \/ \E t \in Sides : Loud(t))
  <2>1. CASE StoreCandidate(s, m)
    <3>1. /\ RotationTypeOK' /\ PriorEpoch(s, m) = keyEpoch[s]
          /\ \E e \in Epochs, row \in Rows : Opens(s, "acking", e, row)
      BY <2>1, StoreOpens
    <3>2. EventHeld(s, m) /\ m.type = "prepare"
      BY <2>1, ConsideredHolds DEF StoreCandidate, Considered
    <3>3. OpensByAcking(s)
      BY <3>1, <3>2 DEF OpensByAcking
    <3>4. QED
      BY <3>1, <3>3 DEF Loud
  <2>2. CASE SendAck(s, m)
    BY <2>2, AckIsQuiet
  <2>3. CASE RejectPrepare(s, m)
    BY <2>3, ConsumingIsQuiet
  <2>4. CASE OnAck(s, m)
    BY <2>4, OnAckAdvances
  <2>5. CASE OnConfirm(s, m)
    BY <2>5, OnConfirmAdvances
  <2>6. CASE OnCommit(s, m)
    BY <2>6, OnCommitCommits DEF Loud, CommitsByRotating
  <2>7. QED
    BY <1>9, <2>1, <2>2, <2>3, <2>4, <2>5, <2>6 DEF Hook
<1>10. QED
  BY <1>1, <1>2, <1>3, <1>4, <1>5, <1>6, <1>7, <1>8, <1>9 DEF Next

\* Every step keeps the types and the ceremony, and takes nothing back.
LEMMA CeremonyStep ==
    ASSUME RotationTypeOK, CeremonyInv, [Next]_vars
    PROVE  RotationTypeOK' /\ CeremonyInv' /\ Grows
<1>1. RotationTypeOK' /\ (Quiet \/ Advance \/ \E s \in Sides : Loud(s))
  BY StepKinds
<1>2. made' \in [Sides -> Nat] /\ "rotating" \in Roles /\ "acking" \in Roles
  BY <1>1 DEF RotationTypeOK, Roles
<1>3. ASSUME NEW s \in Sides, Loud(s) PROVE Grows /\ CeremonyInv'
  BY <1>2, <1>3, TrimmedKeeps, CommitsKeep, OpensKeep
     DEF Loud, CommitsByRotating, CommitsByAcking, OpensByRotating, OpensByAcking
<1>4. QED
  BY <1>1, <1>3, QuietKeeps, AdvanceKeeps

\* The ceremony holds at pairing.
LEMMA CeremonyInit ==
    ASSUME Init
    PROVE  RotationTypeOK /\ CeremonyInv
<1>1. 1 \in Epochs /\ Epochs \subseteq Nat /\ \A f \in Epochs : f >= 1
  BY ConstantsAssumption DEF Epochs
<1>2. \A s \in Sides : Peer(s) \in Sides /\ Peer(s) # s /\ s # NoKey[1]
  BY TwoSides, KeyParts
<1>3. \A s \in Sides : <<s, 0>> \in Keys
  BY ConstantsAssumption DEF Keys
<1>4. RotationTypeOK
  BY <1>1, <1>2, <1>3 DEF Init, RotationTypeOK
<1>5. \A s \in Sides, q \in Roles, f \in Epochs : rot[s][q][f].phase = "none"
  BY DEF Init, NoRow
<1>6. \A s \in Sides, f \in Epochs : Acking(s, f).phase = "none" /\ Rotating(s, f).phase = "none"
  BY <1>5 DEF Acking, Rotating, Roles
<1>7. \A s \in Sides : InFlight(s, "rotating") = {} /\ InFlight(s, "acking") = {}
  BY <1>6 DEF InFlight, Acking, Rotating
<1>8. \A s \in Sides : /\ keyEpoch[s] = 1 /\ made[s] = 0 /\ used[s] = {1} /\ epochs[s][1] = <<s, 0>>
                       /\ \A f \in Epochs : f # 1 => epochs[s][f] = NoKey
                       /\ net[s] = {} /\ due[s] = {} /\ latest[s] = NoEvent
  BY <1>1 DEF Init
<1>9. ASSUME NEW s \in Sides PROVE LocalInv(s)
  <2>1. \A f \in OwnEpochs(s) : f = 1
    BY <1>2, <1>8, <1>9 DEF OwnEpochs
  <2>2. PeerRows(s) = {}
    <3>1. \A f \in Epochs : epochs[s][f][1] # Peer(s)
      BY <1>2, <1>8, <1>9
    <3>2. QED
      BY <3>1 DEF PeerRows
  <2>3. OneOpen(s)
    BY <1>5, <1>7, <1>8, <1>9 DEF OneOpen, InFlight
  <2>4. RowsAgree(s)
    BY <1>6, <1>7, <1>8, <1>9, <2>1, <2>2 DEF RowsAgree
  <2>5. OwnKeysUsed(s)
    BY <1>6, <1>8, <1>9, <2>1 DEF OwnKeysUsed, Agreed
  <2>6. QED
    BY <2>3, <2>4, <2>5 DEF LocalInv
<1>10. \A s \in Sides : EventsHeld(s)
  BY <1>8 DEF EventsHeld
<1>11. \A s \in Sides : InStep(s)
  BY <1>2, <1>6, <1>7, <1>8 DEF InStep, Agreed
<1>12. QED
  BY <1>4, <1>9, <1>10, <1>11 DEF CeremonyInv

\* The two sides stay in step, whatever crosses, dies, times out or arrives late.
LEMMA CeremonyInvariant == Spec => [](RotationTypeOK /\ CeremonyInv)
<1>1. Init => RotationTypeOK /\ CeremonyInv
  BY CeremonyInit
<1>2. RotationTypeOK /\ CeremonyInv /\ [Next]_vars => RotationTypeOK' /\ CeremonyInv'
  BY CeremonyStep
<1>3. QED
  BY <1>1, <1>2, PTL DEF Spec

\* When both sides prepare the same epoch at once, at most one of the two rotations gets
\* past its candidate (on_prepare refuses an epoch that this side has a key for, and
\* on_ack needs the ack of what the peer stored).
THEOREM OneRotationPerEpoch == Spec => []OneSideRotates
<1>1. RotationTypeOK /\ CeremonyInv => OneSideRotates
  <2> SUFFICES ASSUME RotationTypeOK, CeremonyInv, NEW e \in Epochs
               PROVE  \E s \in Sides : Rotating(s, e).phase \notin Agreed
    BY DEF OneSideRotates, Rotating, Agreed
  <2>1. PICK s \in Sides : TRUE
    BY ConstantsAssumption
  <2>2. Peer(s) \in Sides
    BY TwoSides
  <2>3. Rotating(s, e).phase \in Agreed => Acking(Peer(s), e).phase # "none"
    BY DEF CeremonyInv, InStep
  <2>4. Acking(Peer(s), e).phase # "none" => Rotating(Peer(s), e).phase \in {"none", "discarded"}
    BY <2>2 DEF CeremonyInv, LocalInv, RowsAgree
  <2>5. QED
    BY <2>2, <2>3, <2>4 DEF Agreed
<1>2. QED
  BY <1>1, CeremonyInvariant, PTL

\* The two key_epochs are at most one rotation apart, and the side behind still has that
\* rotation open: an acknowledged or confirmed row of its own, or a confirmed one of the
\* peer's, which mark_confirmed, on_commit and mark_committed can finish.
THEOREM KeyEpochsStayClose == Spec => []EpochsStayClose
<1>1. RotationTypeOK /\ CeremonyInv => EpochsStayClose
  <2> SUFFICES ASSUME RotationTypeOK, CeremonyInv, NEW s \in Sides, keyEpoch[s] > keyEpoch[Peer(s)]
               PROVE  /\ keyEpoch[s] = keyEpoch[Peer(s)] + 1
                      /\ keyEpoch[s] \in InFlight(Peer(s), "rotating") \cup Confirmed(Peer(s))
    BY DEF EpochsStayClose
  <2>1. keyEpoch[s] \in Epochs
    BY DEF RotationTypeOK
  <2>2. /\ keyEpoch[s] = keyEpoch[Peer(s)] + 1
        /\ \/ Rotating(Peer(s), keyEpoch[s]).phase \in {"acknowledged", "confirmed"}
           \/ Acking(Peer(s), keyEpoch[s]).phase = "confirmed"
    BY DEF CeremonyInv, InStep
  <2>3. QED
    BY <2>1, <2>2 DEF InFlight, Confirmed, Rotating, Acking
<1>2. QED
  BY <1>1, CeremonyInvariant, PTL

-----------------------------------------------------------------------------
\* The keys a side tries are rows of key_epochs.
LEMMA TriedAreRows ==
    ASSUME NEW s, OwnEpochs(s) # {}
    PROVE  TriedEpochs(s) \subseteq Epochs
<1> DEFINE own == OwnEpochs(s)
           top == IF keyEpoch[s] \in own THEN {keyEpoch[s]} ELSE {Max(own)}
           below == {e \in own : \A t \in top : e < t}
<1>1. own \subseteq Epochs
  BY DEF OwnEpochs
<1>2. Max(own) \in Epochs
  BY <1>1, MaxIn
<1>3. top \subseteq Epochs
  BY <1>1, <1>2
<1>4. below \subseteq Epochs
  BY <1>1
<1>5. below # {} => Max(below) \in Epochs
  <2> HIDE DEF below
  <2>1. QED
    BY <1>4, MaxIn
<1>6. TriedEpochs(s) = top \cup (IF below = {} THEN {} ELSE {Max(below)})
  BY DEF TriedEpochs
<1> HIDE DEF below, top
<1>7. QED
  BY <1>3, <1>5, <1>6

\* A split outlives every step but a commit of the split side's own.
LEMMA SplitFacts ==
    ASSUME RotationTypeOK, NEW t \in Sides, Split(t)
    PROVE  /\ \A e \in Epochs : epochs[Peer(t)][e] # peerKey[t]
           /\ epochs[Peer(t)][keyEpoch[t]][1] = Peer(t)
           /\ epochs[Peer(t)][keyEpoch[t]][2] > peerKey[t][2]
           /\ keyEpoch[t] \in used[Peer(t)] /\ keyEpoch[t] \in Epochs
           /\ epochs[t][keyEpoch[t]] = peerKey[t] /\ InFlight(t, "acking") = {}
           /\ \A e \in Epochs : Acking(Peer(t), e).phase \in {"confirmed", "committed"} => e <= keyEpoch[t]
           /\ \A m \in net[Peer(t)] \cup due[Peer(t)] : m.type = "confirm" /\ m.e > keyEpoch[t] =>
                 m \notin due[Peer(t)] /\ m.wraps = {peerKey[t]}
  BY DEF Split, RotationTypeOK

\* No event sealed to a key the peer lost is ever accepted by it.
LEMMA QuietSplit ==
    ASSUME RotationTypeOK, Quiet, NEW t \in Sides, Split(t)
    PROVE  Split(t)'
<1> DEFINE p == Peer(t)
           k == keyEpoch[t]
<1>1. p \in Sides /\ Peer(p) = t
  BY TwoSides
<1>2. /\ keyEpoch' = keyEpoch /\ peerKey' = peerKey /\ epochs' = epochs
      /\ \A x \in Sides, q \in Roles, f \in Epochs : SameRows(x, q, f)
      /\ used[p] \subseteq used'[p]
  BY <1>1 DEF Quiet
<1>3. InFlight(t, "acking")' = InFlight(t, "acking")
  BY <1>2 DEF InFlight, SameRows, Roles
<1>4. \A e \in Epochs : Acking(p, e)'.phase = Acking(p, e).phase
  BY <1>1, <1>2 DEF SameRows, Roles, Acking
<1>5. ASSUME NEW m \in net'[p] \cup due'[p], m.type = "confirm", m.e > k
      PROVE  m \notin due'[p] /\ m.wraps = {peerKey[t]}
  <2>1. m \in net[p] \cup due[p] => m \notin due[p] /\ m.wraps = {peerKey[t]}
    BY <1>5, SplitFacts
  <2>2. m \in net'[p] => m \in net[p] \/ m.wraps = {peerKey[t]}
    BY <1>1, <1>5 DEF Quiet
  <2>3. m \in due'[p] => m \in due[p] \/ (m \in net[p] /\ Unsealable(p, m))
    BY <1>1 DEF Quiet
  <2>4. m.wraps = {peerKey[t]}
    BY <1>5, <2>1, <2>2, <2>3
  <2>5. ~Unsealable(p, m)
    <3>1. OwnEpochs(p) # {}
      BY SplitFacts DEF OwnEpochs
    <3>2. TriedEpochs(p) \subseteq Epochs
      BY <3>1, TriedAreRows
    <3>3. QED
      BY <2>4, <3>2, SplitFacts DEF Unsealable
  <2>6. QED
    BY <2>1, <2>3, <2>4, <2>5
<1>6. QED
  BY <1>2, <1>3, <1>4, <1>5 DEF Split

\* The peer of a split side confirms nothing beyond it.
LEMMA AdvanceSplit ==
    ASSUME RotationTypeOK, Advance, NEW t \in Sides, Split(t)
    PROVE  Split(t)'
<1> DEFINE p == Peer(t)
           k == keyEpoch[t]
<1>1. p \in Sides /\ Peer(p) = t
  BY TwoSides
<1>2. /\ keyEpoch' = keyEpoch /\ peerKey' = peerKey /\ epochs' = epochs
      /\ \A x \in Sides, f \in Epochs : Advanced(x, f)
      /\ used' = used /\ net'[p] \subseteq net[p] /\ due'[p] \subseteq due[p]
  BY <1>1 DEF Advance, NothingNew
<1>3. InFlight(t, "acking")' = {}
  <2>1. InFlight(t, "acking") = {}
    BY SplitFacts
  <2>2. QED
    BY <1>2, <2>1 DEF InFlight, Advanced, Acking
<1>4. ASSUME NEW e \in Epochs, Acking(p, e)'.phase \in {"confirmed", "committed"} PROVE e <= k
  <2>1. CASE Acking(p, e)'.phase = Acking(p, e).phase
    BY <1>4, <2>1, SplitFacts
  <2>2. CASE \E m \in due[p] : m.type = "confirm" /\ m.e = e
    <3>1. ~(e > k)
      BY <2>2, SplitFacts
    <3>2. e \in Int /\ k \in Int
      BY DEF Epochs, RotationTypeOK
    <3>3. QED
      BY <3>1, <3>2
  <2>3. QED
    BY <1>1, <1>2, <2>1, <2>2 DEF Advanced
<1>5. \A m \in net'[p] \cup due'[p] : m.type = "confirm" /\ m.e > k =>
         m \notin due'[p] /\ m.wraps = {peerKey[t]}
  BY <1>2, SplitFacts
<1>6. QED
  BY <1>2, <1>3, <1>4, <1>5 DEF Split

\* A sweep neither ends a split nor touches the rows it is about.
LEMMA TrimmedSplit ==
    ASSUME RotationTypeOK, NEW s \in Sides, Trimmed(s), NEW t \in Sides, Split(t)
    PROVE  Split(t)'
<1> DEFINE p == Peer(t)
           k == keyEpoch[t]
<1>1. p \in Sides /\ Peer(p) = t /\ p # t /\ (s = t \/ s = p)
  BY TwoSides
<1>2. /\ keyEpoch' = keyEpoch /\ peerKey' = peerKey
      /\ used' = used /\ net'[p] \subseteq net[p] /\ due'[p] \subseteq due[p]
  BY <1>1 DEF Trimmed, NothingNew
<1>3. /\ \A e \in Epochs : Acking(p, e)'.phase = Acking(p, e).phase
      /\ InFlight(t, "acking")' = InFlight(t, "acking")
  BY <1>1 DEF Trimmed, InFlight, Acking, Roles
<1>4. peerKey[t] # NoKey
  BY KeyParts DEF RotationTypeOK
<1>5. \A e \in Epochs : epochs'[p][e] # peerKey[t]
  <2>1. \A e \in Epochs : epochs'[p][e] = epochs[p][e] \/ epochs'[p][e] = NoKey
    BY <1>1 DEF Trimmed
  <2>2. QED
    BY <1>4, <2>1, SplitFacts
<1>6. epochs'[p][k] = epochs[p][k] /\ epochs'[t][k] = epochs[t][k]
  <2>1. k \in Epochs /\ k \in used[p] /\ epochs[p][k][1] = p /\ InFlight(t, "acking") = {}
    BY SplitFacts
  <2>2. epochs'[p][k] = epochs[p][k]
    BY <1>1, <2>1 DEF Trimmed
  <2>3. epochs'[t][k] = epochs[t][k]
    BY <1>1, <2>1 DEF Trimmed
  <2>4. QED
    BY <2>2, <2>3
<1>7. \A m \in net'[p] \cup due'[p] : m.type = "confirm" /\ m.e > k =>
         m \notin due'[p] /\ m.wraps = {peerKey[t]}
  BY <1>2, SplitFacts
<1>8. QED
  BY <1>2, <1>3, <1>5, <1>6, <1>7 DEF Split

\* A commit leaves the split side's peer split, and the split side cannot commit: it has
\* acknowledged nothing, and the peer has confirmed nothing of it.
LEMMA CommitsSplit ==
    ASSUME RotationTypeOK, CeremonyInv, NEW s \in Sides, NEW r \in Roles, NEW e \in Epochs,
           Commits(s, r, e), NEW t \in Sides, peerKey'[t] = peerKey[t] \/ t = s, Split(t)
    PROVE  t # s /\ Split(t)'
<1> DEFINE p == Peer(t)
           k == keyEpoch[t]
<1>1. p \in Sides /\ Peer(p) = t /\ p # t /\ (s = t \/ s = p) /\ k \in Nat
  BY TwoSides DEF RotationTypeOK, Epochs
<1>2. t # s
  <2> SUFFICES ASSUME t = s PROVE FALSE
    OBVIOUS
  <2>1. e = k + 1 /\ e \in InFlight(t, r)
    BY CommitFacts
  <2>2. r # "acking"
    BY <2>1, SplitFacts
  <2>3. Acking(p, e).phase \in {"confirmed", "committed"}
    BY <2>2 DEF Commits, Roles
  <2>4. e <= k
    BY <2>3, SplitFacts
  <2>5. QED
    BY <1>1, <2>1, <2>4
<1>3. s = p /\ Peer(s) = t
  BY <1>1, <1>2
<1>4. /\ keyEpoch'[t] = k /\ epochs' = epochs /\ used' = used /\ peerKey'[t] = peerKey[t]
      /\ net'[p] \subseteq net[p] /\ due'[p] \subseteq due[p]
  BY <1>1, <1>2, <1>3 DEF Commits, NothingNew
<1>5. InFlight(t, "acking")' = InFlight(t, "acking")
  BY <1>3, CommitFacts DEF Roles
<1>6. \A f \in Epochs : Acking(p, f)'.phase \in {"confirmed", "committed"} =>
                          Acking(p, f).phase \in {"confirmed", "committed"}
  BY <1>1, <1>3 DEF Commits, Acking, Roles
<1>7. \A m \in net'[p] \cup due'[p] : m.type = "confirm" /\ m.e > k =>
         m \notin due'[p] /\ m.wraps = {peerKey[t]}
  BY <1>4, SplitFacts
<1>8. Split(t)'
  BY <1>4, <1>5, <1>6, <1>7 DEF Split
<1>9. QED
  BY <1>2, <1>8

\* An opened rotation leaves a split alone, and the split side opens none of the peer's:
\* the prepare it would accept continues from the key that the peer no longer has.
LEMMA OpensSplit ==
    ASSUME RotationTypeOK, CeremonyInv, NEW s \in Sides, OpensByRotating(s) \/ OpensByAcking(s),
           NEW t \in Sides, peerKey[t][1] = Peer(t), peerKey[t][2] <= made[Peer(t)], Split(t)
    PROVE  Split(t)'
<1> DEFINE p == Peer(t)
           k == keyEpoch[t]
<1>1. p \in Sides /\ Peer(p) = t /\ p # t /\ (s = t \/ s = p) /\ k \in Nat /\ k \in Epochs
  BY TwoSides DEF RotationTypeOK, Epochs
<1>2. ASSUME t = s, OpensByAcking(s) PROVE FALSE
  <2>1. PICK m : EventHeld(t, m) /\ m.type = "prepare" /\ PriorEpoch(t, m) = k
    BY <1>2 DEF OpensByAcking
  <2> DEFINE held == {x \in PeerEpochs(t) : PeerKeyAt(t, x) = m.prior}
  <2>2. held \subseteq Nat
    BY <1>1 DEF PeerEpochs, PeerRows, Epochs
  <2>3. k # 0
    BY <1>1 DEF Epochs
  <2>4. PriorEpoch(t, m) \in held \/ PriorEpoch(t, m) = 0
    <3>1. held # {} => Min(held) \in held
      <4> HIDE DEF held
      <4>1. QED
        BY <2>2, MinIn
    <3>2. QED
      BY <3>1 DEF PriorEpoch
  <2>5. PeerKeyAt(t, k) = m.prior
    BY <2>1, <2>3, <2>4
  <2>6. m.prior = peerKey[t]
    BY <2>5, SplitFacts DEF PeerKeyAt
  <2>7. Kept(p, m.prior)
    BY <2>1 DEF EventHeld
  <2>8. used[p] \subseteq Epochs
    BY <1>1 DEF RotationTypeOK
  <2>9. QED
    BY <2>6, <2>7, <2>8, SplitFacts DEF Kept
<1>3. PICK r \in Roles, e \in Epochs, row \in Rows :
         Opens(s, r, e, row) /\ (r = "acking" => s = p)
  BY <1>1, <1>2 DEF OpensByRotating, OpensByAcking, Roles
<1>4. /\ keyEpoch' = keyEpoch /\ peerKey' = peerKey /\ used' = used
      /\ net'[p] \subseteq net[p] /\ due'[p] \subseteq due[p]
  BY <1>1, <1>3 DEF Opens, NothingNew
<1>5. e = keyEpoch[s] + 1 /\ epochs[s][e] = NoKey
  BY <1>3 DEF Opens
<1>6. InFlight(t, "acking")' = {}
  <2>1. InFlight(t, "acking") = {}
    BY SplitFacts
  <2>2. \A f \in Epochs : rot'[t]["acking"][f] = rot[t]["acking"][f]
    BY <1>1, <1>3 DEF Opens, Roles
  <2>3. QED
    BY <2>1, <2>2 DEF InFlight
<1>7. \A f \in Epochs : Acking(p, f)'.phase \in {"confirmed", "committed"} =>
                          Acking(p, f).phase \in {"confirmed", "committed"}
  BY <1>1, <1>3 DEF Opens, Acking, Roles
<1>8. \A f \in Epochs : epochs'[p][f] # peerKey[t]
  <2>1. CASE s = t
    BY <1>3, <2>1, SplitFacts DEF Opens
  <2>2. CASE s = p
    <3>1. row.key # peerKey[t]
      <4>1. CASE r = "acking"
        BY <1>1, <1>3, <2>2, <4>1 DEF Opens
      <4>2. CASE r = "rotating"
        <5>1. row.key = <<p, made'[p]>> /\ made'[p] = made[p] + 1
          BY <1>3, <2>2, <4>2 DEF Opens
        <5>2. peerKey[t][2] \in Nat /\ made[p] \in Nat
          BY <1>1, KeyParts DEF RotationTypeOK
        <5>3. row.key[2] # peerKey[t][2]
          BY <5>1, <5>2
        <5>4. QED
          BY <5>3
      <4>3. QED
        BY <4>1, <4>2 DEF Roles
    <3>2. \A f \in Epochs : epochs'[p][f] = epochs[p][f] \/ epochs'[p][f] = row.key
      BY <1>3, <2>2 DEF Opens
    <3>3. QED
      BY <3>1, <3>2, SplitFacts
  <2>3. QED
    BY <1>1, <2>1, <2>2
<1>9. epochs'[p][k] = epochs[p][k] /\ epochs'[t][k] = epochs[t][k]
  <2>1. CASE s = t
    <3>1. e # k
      BY <1>1, <1>5, <2>1
    <3>2. QED
      BY <1>1, <1>3, <2>1, <3>1 DEF Opens
  <2>2. CASE s = p
    <3>1. NoKey[1] # p /\ epochs[p][k][1] = p
      BY <1>1, KeyParts, SplitFacts
    <3>2. e # k
      BY <1>5, <2>2, <3>1
    <3>3. QED
      BY <1>1, <1>3, <2>2, <3>2 DEF Opens
  <2>3. QED
    BY <1>1, <2>1, <2>2
<1>10. \A m \in net'[p] \cup due'[p] : m.type = "confirm" /\ m.e > k =>
         m \notin due'[p] /\ m.wraps = {peerKey[t]}
  BY <1>4, SplitFacts
<1>11. QED
  BY <1>4, <1>6, <1>7, <1>8, <1>9, <1>10 DEF Split

\* The key that mark_committed starts sealing to is one the peer keeps, or the peer holds
\* a newer one of that epoch.
LEMMA CommittedKey ==
    ASSUME RotationTypeOK, CeremonyInv, NEW s \in Sides, NEW e \in Epochs, Commits(s, "acking", e),
           peerKey' = [peerKey EXCEPT ![s] = Acking(s, e).key]
    PROVE  SealsHeld(s)'
<1> DEFINE p == Peer(s)
           K == Acking(s, e).key
           H == epochs[p][e]
<1>1. p \in Sides /\ p # s /\ Peer(p) = s /\ "acking" \in Roles /\ "rotating" \in Roles
  BY TwoSides DEF Roles
<1>2. /\ e = keyEpoch[s] + 1 /\ keyEpoch[s] \in Nat /\ keyEpoch[p] \in Nat
      /\ e \in InFlight(s, "acking") /\ InFlight(s, "rotating") = {} /\ InFlight(s, "acking")' = {}
  BY <1>1, CommitFacts
<1>3. /\ RowsAgree(s) /\ OneOpen(s) /\ InStep(s) /\ EventsHeld(s)
      /\ RowsAgree(p) /\ OneOpen(p) /\ OwnKeysUsed(p) /\ InStep(p) /\ EventsHeld(p)
  BY <1>1 DEF CeremonyInv, LocalInv
<1>4. Acking(s, e).phase = "confirmed"
  BY DEF Commits, Acking
<1>5. /\ keyEpoch'[s] = e /\ epochs' = epochs /\ made' = made /\ used' = used
      /\ net'[p] \subseteq net[p] /\ due'[p] \subseteq due[p]
  BY <1>1 DEF Commits, NothingNew
<1>6. K \in Keys /\ K[1] = p /\ K[2] <= made[p] /\ epochs[s][e] = K /\ K[2] \in Nat /\ K = <<p, K[2]>>
  <2>1. K \in Keys
    BY <1>1, <1>4, RowFields DEF Acking
  <2>2. K[1] = p /\ K[2] <= made[p] /\ epochs[s][e] = K
    BY <1>2, <1>3, <1>4 DEF RowsAgree
  <2>3. QED
    BY <2>1, <2>2, KeyParts
<1>7. peerKey'[s] = K
  BY DEF RotationTypeOK
<1>8. Acknowledged(p, e)
  BY <1>3, <1>4 DEF InStep
<1>9. H[1] = p /\ e \in used[p] /\ K[2] <= H[2]
  <2>1. CASE keyEpoch[p] >= e
    BY <1>2, <1>3, <2>1 DEF InStep
  <2>2. CASE Rotating(p, e).phase \in {"acknowledged", "confirmed"}
    <3>1. e \in InFlight(p, "rotating")
      BY <2>2 DEF InFlight, Rotating
    <3>2. H = <<p, made[p]>>
      BY <1>3, <3>1 DEF RowsAgree
    <3>3. e \in used[p]
      BY <1>3, <2>2 DEF OwnKeysUsed, Agreed
    <3>4. QED
      BY <1>6, <3>2, <3>3
  <2>3. QED
    BY <1>8, <2>1, <2>2 DEF Acknowledged
<1>10. H \in Keys /\ H[2] \in Nat /\ H = <<p, H[2]>> /\ H[2] <= made[p] /\ made[p] \in Nat
  <2>1. H \in Keys \cup {NoKey}
    BY <1>1 DEF RotationTypeOK
  <2>2. NoKey[1] # p
    BY <1>1, KeyParts
  <2>3. H \in Keys
    BY <1>9, <2>1, <2>2
  <2>4. e \in OwnEpochs(p)
    BY <1>9 DEF OwnEpochs
  <2>5. H[2] <= made[p] /\ made[p] \in Nat
    BY <1>1, <1>3, <2>4 DEF RowsAgree, RotationTypeOK
  <2>6. QED
    BY <1>9, <2>3, <2>5, KeyParts
<1>11. ASSUME NEW f \in Epochs, Acknowledged(s, f) PROVE f <= keyEpoch[s]
  <2>1. Rotating(s, f).phase \notin {"acknowledged", "confirmed"}
    BY <1>2 DEF InFlight, Rotating
  <2>2. QED
    BY <1>2, <1>11, <2>1 DEF Acknowledged, Epochs
<1>12. CASE \E f \in Epochs : epochs[p][f] = K
  <2>1. PICK f \in Epochs : epochs[p][f] = K
    BY <1>12
  <2>2. f \in OwnEpochs(p)
    BY <1>6, <2>1 DEF OwnEpochs
  <2>3. CASE f \in used[p]
    BY <1>1, <1>5, <1>6, <1>7, <2>1, <2>3 DEF SealsHeld, Kept
  <2>4. CASE f \in InFlight(p, "rotating")
    <3>1. K = <<p, made[p]>>
      BY <1>3, <2>1, <2>4 DEF RowsAgree
    <3>2. K[2] = made[p]
      BY <3>1
    <3>3. H = K
      BY <1>6, <1>9, <1>10, <3>2
    <3>4. QED
      BY <1>5, <1>6, <1>7, <1>9, <3>3 DEF SealsHeld, Kept
  <2>5. QED
    BY <1>3, <2>2, <2>3, <2>4 DEF OwnKeysUsed
<1>13. CASE \A f \in Epochs : epochs[p][f] # K
  <2>1. H[2] > K[2]
    <3>1. H # K
      BY <1>13
    <3>2. QED
      BY <1>6, <1>9, <1>10, <3>1
  <2>2. ASSUME NEW f \in Epochs, Acking(p, f)'.phase \in {"confirmed", "committed"} PROVE f <= e
    <3>1. Acking(p, f).phase \in {"confirmed", "committed"}
      BY <1>1, <2>2 DEF Commits, Acking
    <3>2. Acknowledged(s, f)
      BY <1>1, <1>3, <3>1 DEF InStep
    <3>3. QED
      BY <1>2, <1>11, <3>2 DEF Epochs
  <2>3. ASSUME NEW m \in net'[p] \cup due'[p], m.type = "confirm", m.e > e PROVE FALSE
    <3>1. EventHeld(p, m)
      BY <1>3, <1>5 DEF EventsHeld
    <3>2. m.e \in Epochs /\ Acknowledged(s, m.e)
      BY <1>1, <2>3, <3>1 DEF EventHeld
    <3>3. m.e <= keyEpoch[s]
      BY <1>11, <3>2
    <3>4. QED
      BY <1>2, <2>3, <3>2, <3>3 DEF Epochs
  <2>4. Split(s)'
    BY <1>2, <1>5, <1>6, <1>7, <1>9, <1>13, <2>1, <2>2, <2>3 DEF Split
  <2>5. QED
    BY <1>5, <1>6, <1>7, <2>4 DEF SealsHeld
<1>14. QED
  BY <1>12, <1>13

\* Every step keeps the key a side seals to, or splits by a restart.
LEMMA SealsStep ==
    ASSUME RotationTypeOK, RotationInv, [Next]_vars
    PROVE  \A t \in Sides : SealsHeld(t)'
<1>1. CeremonyInv /\ \A t \in Sides : SealsHeld(t)
  BY DEF RotationInv
<1>2. RotationTypeOK' /\ CeremonyInv' /\ Grows /\ (Quiet \/ Advance \/ \E s \in Sides : Loud(s))
  BY <1>1, CeremonyStep, StepKinds
<1> SUFFICES ASSUME NEW t \in Sides PROVE SealsHeld(t)'
  OBVIOUS
<1>3. /\ SealsHeld(t) /\ Peer(t) \in Sides
      /\ peerKey[t][1] = Peer(t) /\ peerKey[t][2] <= made[Peer(t)]
  BY <1>1, TwoSides DEF SealsHeld
<1>4. ASSUME peerKey'[t] = peerKey[t], Split(t) => Split(t)' PROVE SealsHeld(t)'
  <2>1. peerKey[t][2] \in Nat /\ made[Peer(t)] \in Nat /\ made'[Peer(t)] \in Nat
    BY <1>2, <1>3, KeyParts DEF RotationTypeOK
  <2>2. made[Peer(t)] <= made'[Peer(t)]
    BY <1>2, <1>3 DEF Grows
  <2>3. peerKey[t][2] <= made'[Peer(t)]
    BY <1>3, <2>1, <2>2
  <2>4. Kept(Peer(t), peerKey[t]) => Kept(Peer(t), peerKey[t])'
    <3>1. PICK key : key = peerKey[t]
      OBVIOUS
    <3>2. Kept(Peer(t), key) => Kept(Peer(t), key)'
      BY <1>2, <1>3 DEF Grows
    <3>3. QED
      BY <1>4, <3>1, <3>2 DEF Kept
  <2>5. QED
    BY <1>3, <1>4, <2>3, <2>4 DEF SealsHeld
<1>5. CASE Quiet
  BY <1>4, <1>5, QuietSplit DEF Quiet
<1>6. CASE Advance
  BY <1>4, <1>6, AdvanceSplit DEF Advance
<1>7. ASSUME NEW s \in Sides, Loud(s) PROVE SealsHeld(t)'
  <2>1. CASE Trimmed(s)
    BY <1>4, <2>1, TrimmedSplit DEF Trimmed
  <2>2. CASE CommitsByRotating(s)
    <3>1. PICK e \in Epochs : Commits(s, "rotating", e)
      BY <2>2 DEF CommitsByRotating
    <3>2. peerKey'[t] = peerKey[t] /\ "rotating" \in Roles
      BY <2>2 DEF CommitsByRotating, Roles
    <3>3. QED
      BY <1>1, <1>4, <3>1, <3>2, CommitsSplit
  <2>3. CASE CommitsByAcking(s)
    <3>1. PICK e \in Epochs : /\ Commits(s, "acking", e)
                              /\ peerKey' = [peerKey EXCEPT ![s] = Acking(s, e).key]
      BY <2>3 DEF CommitsByAcking
    <3>2. CASE t = s
      BY <1>1, <3>1, <3>2, CommittedKey
    <3>3. CASE t # s
      <4>1. peerKey'[t] = peerKey[t] /\ "acking" \in Roles
        BY <3>1, <3>3 DEF RotationTypeOK, Roles
      <4>2. QED
        BY <1>1, <1>4, <3>1, <4>1, CommitsSplit
    <3>4. QED
      BY <3>2, <3>3
  <2>4. CASE OpensByRotating(s) \/ OpensByAcking(s)
    <3>1. peerKey'[t] = peerKey[t]
      BY <2>4 DEF OpensByRotating, OpensByAcking, Opens
    <3>2. QED
      BY <1>1, <1>3, <1>4, <2>4, <3>1, OpensSplit
  <2>5. QED
    BY <1>7, <2>1, <2>2, <2>3, <2>4 DEF Loud
<1>8. QED
  BY <1>2, <1>5, <1>6, <1>7

\* The types, the ceremony and the keys sealed to are invariant together.
LEMMA RotationInvariant == Spec => [](RotationTypeOK /\ RotationInv)
<1>1. Init => RotationTypeOK /\ RotationInv
  <2> SUFFICES ASSUME Init PROVE RotationTypeOK /\ RotationInv
    OBVIOUS
  <2>1. RotationTypeOK /\ CeremonyInv
    BY CeremonyInit
  <2>2. ASSUME NEW s \in Sides PROVE SealsHeld(s)
    <3>1. Peer(s) \in Sides /\ 1 \in Epochs
      BY TwoSides, ConstantsAssumption DEF Epochs
    <3>2. /\ peerKey[s] = <<Peer(s), 0>> /\ made[Peer(s)] = 0
          /\ used[Peer(s)] = {1} /\ epochs[Peer(s)][1] = <<Peer(s), 0>>
      BY <3>1 DEF Init
    <3>3. QED
      BY <3>2 DEF SealsHeld, Kept
  <2>3. QED
    BY <2>1, <2>2 DEF RotationInv
<1>2. RotationTypeOK /\ RotationInv /\ [Next]_vars => RotationTypeOK' /\ RotationInv'
  BY CeremonyStep, SealsStep DEF RotationInv
<1>3. QED
  BY <1>1, <1>2, PTL DEF Spec

\* The peer holds the private key that a side's events are wrapped to, unless it restarted
\* the rotation of that side's key_epoch with a newer key: the ack of its first prepare,
\* which names only the epoch, was taken by on_ack for the second one.
THEOREM SplitsComeFromRestarts == Spec => []OnlyRestartSplits
<1>1. RotationTypeOK /\ RotationInv => OnlyRestartSplits
  <2> SUFFICES ASSUME RotationTypeOK, RotationInv, NEW s \in Sides
               PROVE  \/ \E e \in Epochs : epochs[Peer(s)][e] = peerKey[s]
                      \/ /\ epochs[Peer(s)][keyEpoch[s]][1] = Peer(s)
                         /\ epochs[Peer(s)][keyEpoch[s]][2] > peerKey[s][2]
    BY DEF OnlyRestartSplits
  <2>1. Kept(Peer(s), peerKey[s]) \/ Split(s)
    BY DEF RotationInv, SealsHeld
  <2>2. used[Peer(s)] \subseteq Epochs
    BY TwoSides DEF RotationTypeOK
  <2>3. QED
    BY <2>1, <2>2 DEF Kept, Split
<1>2. QED
  BY <1>1, RotationInvariant, PTL
=============================================================================
