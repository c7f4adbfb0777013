----------------------------- MODULE PeerProofs -----------------------------
(***************************************************************************)
(* Theorems about two parts of the host that deal with one peer at a time. *)
(* They share no variable and no assumption: LinkKeys and Session are      *)
(* proved side by side, each from its own specification.                   *)
(*                                                                         *)
(* LinkKeys, for any sets of controllers and rings of any length above     *)
(* one: types, one entry per peer, the keys are those of the last          *)
(* pairings, the files follow the rings, a reset forgets, and the last     *)
(* peer stored is never the next one evicted.                              *)
(*                                                                         *)
(* Session, for answers of any length and any number of repeats and        *)
(* connections: what is parsed was asked for, and who counts as            *)
(* initialised has its channels and was initialised as what it is.         *)
(***************************************************************************)
EXTENDS LinkKeys, Session, TLAPS


Slots == 0..(N - 1)

(* The addresses of p are those of r, some of them cleared.                *)
Below(p, r) == \A i \in Slots : p.keys[i].addr \in {NoPeer, r.keys[i].addr}

Good(r) == r \in RingSet /\ Unique(r)

LEMMA ZeroIsSlot == 0 \in Slots /\ N - 1 \in Nat
  BY LinkKeysAssumption DEF Slots

LEMMA BelowUnique ==
  ASSUME NEW p, NEW r, Below(p, r), Unique(r)
  PROVE  Unique(p)
<1> SUFFICES ASSUME NEW i \in Slots, NEW j \in Slots,
                    p.keys[i].addr = p.keys[j].addr, p.keys[i].addr # NoPeer
             PROVE  i = j
  BY DEF Unique, Slots
<1>1. p.keys[i].addr = r.keys[i].addr /\ p.keys[j].addr = r.keys[j].addr
  BY DEF Below
<1> QED BY <1>1 DEF Unique, Slots

LEMMA KeyTypes == NoKey \in KeySet /\ Torn \in KeySet
  BY DEF KeySet

LEMMA EmptyType == Empty \in EntrySet /\ Empty.addr = NoPeer
  BY KeyTypes DEF Empty, Entry, EntrySet

LEMMA EntryType ==
  ASSUME NEW a \in Peers \cup {NoPeer}, NEW k \in KeySet, NEW d \in KeySet
  PROVE  Entry(a, k, d) \in EntrySet /\ Entry(a, k, d).addr = a
  BY DEF Entry, EntrySet

LEMMA EntryFields ==
  ASSUME NEW r \in RingSet, NEW i \in Slots
  PROVE  /\ r.keys[i] \in EntrySet
         /\ r.keys[i].addr \in Peers \cup {NoPeer}
         /\ r.keys[i].key \in KeySet /\ r.keys[i].ident \in KeySet
  BY DEF RingSet, EntrySet, Slots

LEMMA ZeroRingGood ==
  /\ Good(ZeroRing)
  /\ \A i \in Slots : ZeroRing.keys[i].addr = NoPeer
<1>1. ZeroRing \in RingSet
  BY EmptyType, ZeroIsSlot DEF ZeroRing, RingSet, Slots
<1>2. \A i \in Slots : ZeroRing.keys[i].addr = NoPeer
  BY EmptyType DEF ZeroRing, Slots
<1> QED BY <1>1, <1>2 DEF Good, Unique, Slots

(* What an interrupted write leaves is a ring with one entry per peer.     *)
LEMMA PartialGood ==
  ASSUME NEW r, Good(r), NEW p \in Partial(r)
  PROVE  Good(p)
<1>1. CASE p = ZeroRing
  BY <1>1, ZeroRingGood
<1>2. ASSUME NEW n \in Slots, NEW e \in CutEntry(r.keys[n]), p = Prefix(r, n, e)
      PROVE  Good(p)
  <2>1. r.keys[n] \in EntrySet /\ r \in RingSet
    BY EntryFields DEF Good
  <2>2. e \in EntrySet /\ e.addr \in {NoPeer, r.keys[n].addr}
    <3> DEFINE f == r.keys[n]
    <3>1. f.addr \in Peers \cup {NoPeer} /\ f.key \in KeySet
      BY <2>1, EntryFields
    <3>2. /\ Entry(f.addr, Torn, NoKey) \in EntrySet /\ Entry(f.addr, f.key, Torn) \in EntrySet
          /\ Entry(f.addr, Torn, NoKey).addr = f.addr /\ Entry(f.addr, f.key, Torn).addr = f.addr
      BY <3>1, KeyTypes, EntryType
    <3>3. e \in {Empty, Entry(f.addr, Torn, NoKey), Entry(f.addr, f.key, Torn)}
      BY DEF CutEntry
    <3> QED BY <3>2, <3>3, EmptyType
  <2>3. p.index = r.index /\ p = [index |-> p.index, keys |-> p.keys]
    BY <1>2 DEF Prefix
  <2>4. \A i \in Slots :
          p.keys[i] = IF i < n THEN r.keys[i] ELSE IF i = n THEN e ELSE Empty
    BY <1>2 DEF Prefix, Slots
  <2>5. p.keys \in [Slots -> EntrySet]
    <3>1. \A i \in Slots : p.keys[i] \in EntrySet
      BY <2>1, <2>2, <2>4, EmptyType, EntryFields
    <3>2. p.keys = [i \in Slots |-> p.keys[i]]
      BY <1>2 DEF Prefix, Slots
    <3> QED BY <3>1, <3>2
  <2>6. p \in RingSet
    BY <2>1, <2>3, <2>5 DEF RingSet, Slots
  <2>7. Below(p, r)
    <3> SUFFICES ASSUME NEW i \in Slots PROVE p.keys[i].addr \in {NoPeer, r.keys[i].addr}
      BY DEF Below
    <3>1. CASE p.keys[i] = r.keys[i]
      BY <3>1
    <3>2. CASE i = n /\ p.keys[i] = e
      BY <2>2, <3>2
    <3>3. CASE p.keys[i] = Empty
      BY <3>3, EmptyType
    <3> QED BY <2>4, <3>1, <3>2, <3>3
  <2> QED BY <2>6, <2>7, BelowUnique DEF Good
<1> QED BY <1>1, <1>2 DEF Partial, Slots

(* With one entry per peer the search finds it, or ends at the index.      *)
LEMMA FindIsSlot ==
  ASSUME NEW r, Good(r), NEW a \in Peers
  PROVE  /\ Find(r, a) \in Slots
         /\ \A j \in Slots : r.keys[j].addr = a => j = Find(r, a)
         /\ ~Holds(r, a) => Find(r, a) = r.index
         /\ Holds(r, a) => r.keys[Find(r, a)].addr = a
<1> DEFINE M == Matches(r, a)
<1>0. a # NoPeer
  BY LinkKeysAssumption DEF Peers
<1>1. CASE M = {}
  BY <1>1 DEF Find, Holds, Matches, Good, RingSet, Slots
<1>2. CASE M # {}
  <2>1. PICK m \in M : TRUE
    BY <1>2
  <2>2. \A j \in M : j = m
    BY <2>1, <1>0 DEF Matches, Good, Unique
  <2>3. m \in Slots /\ m \in Nat /\ r.keys[m].addr = a
    BY <2>1 DEF Matches, Slots
  <2>4. \A j \in M : j <= m
    BY <2>2, <2>3
  <2>5. Find(r, a) \in M
    BY <2>1, <2>4, <1>2 DEF Find, Holds
  <2>6. Find(r, a) = m
    BY <2>2, <2>5
  <2> QED BY <2>2, <2>3, <2>6, <1>2 DEF Matches, Slots, Holds
<1> QED BY <1>1, <1>2

LEMMA AdvanceType ==
  ASSUME NEW r \in RingSet, NEW i \in Slots
  PROVE  Advance(r, i) \in Slots /\ Advance(r, i) # i
  BY LinkKeysAssumption DEF Advance, RingSet, Slots

(* A store leaves one entry per peer, and the index beside it.             *)
LEMMA PutGood ==
  ASSUME NEW r, Good(r), NEW a \in Peers, NEW e \in EntrySet, e.addr = a
  PROVE  LET i == Find(r, a)
             q == Put(r, i, e)
         IN  /\ Good(q)
             /\ q.keys[i].addr = a
             /\ q.keys[q.index].addr # a
             /\ q.index \in Slots
             /\ \A j \in Slots \ {i} : q.keys[j] = r.keys[j]
<1> DEFINE i == Find(r, a)
           q == Put(r, i, e)
<1>0. r \in RingSet /\ i \in Slots
  BY FindIsSlot DEF Good
<1>1. q.index \in Slots /\ q.index # i
  BY <1>0, AdvanceType DEF Put
<1>2. q.keys = [r.keys EXCEPT ![i] = e]
  BY DEF Put
<1>3. r.keys \in [Slots -> EntrySet]
  BY <1>0 DEF RingSet, Slots
<1>4. q.keys \in [Slots -> EntrySet]
  BY <1>0, <1>2, <1>3
<1>5. q.keys[i] = e /\ \A j \in Slots \ {i} : q.keys[j] = r.keys[j]
  BY <1>0, <1>2, <1>3
<1>6. q \in RingSet
  BY <1>1, <1>4 DEF RingSet, Put, Slots
<1>7. \A j \in Slots : q.keys[j].addr = a => j = i
  BY <1>5, FindIsSlot
<1>8. Unique(q)
  <2> SUFFICES ASSUME NEW x \in Slots, NEW y \in Slots,
                      q.keys[x].addr = q.keys[y].addr, q.keys[x].addr # NoPeer
               PROVE  x = y
    BY DEF Unique, Slots
  <2>1. CASE x = i \/ y = i
    BY <2>1, <1>5, <1>7
  <2>2. CASE x # i /\ y # i
    BY <2>2, <1>5 DEF Good, Unique, Slots
  <2> QED BY <2>1, <2>2
<1> QED BY <1>1, <1>5, <1>6, <1>7, <1>8 DEF Good

(* A cleared ring has one entry per peer, and none that was not there.     *)
LEMMA ClearGood ==
  ASSUME NEW r, Good(r), NEW a
  PROVE  LET q == Without(r, a) IN
         /\ Good(q)
         /\ q.index = r.index
         /\ Below(q, r)
         /\ \A i \in Slots : r.keys[i].addr # a => q.keys[i] = r.keys[i]
<1> DEFINE q == Without(r, a)
<1>0. r \in RingSet
  BY DEF Good
<1>1. q.index = r.index /\ q = [index |-> q.index, keys |-> q.keys]
  BY DEF Without
<1>2. q.keys = [i \in Slots |-> IF r.keys[i].addr = a THEN Empty ELSE r.keys[i]]
  BY <1>0 DEF Without, Cleared, Slots
<1>3. q.keys \in [Slots -> EntrySet]
  BY <1>0, <1>2, EmptyType, EntryFields
<1>4. q \in RingSet
  BY <1>0, <1>1, <1>3 DEF RingSet, Slots
<1>5. Below(q, r)
  BY <1>2, EmptyType DEF Below
<1> QED BY <1>1, <1>2, <1>4, <1>5, BelowUnique DEF Good
-----------------------------------------------------------------------------
(* Types and one entry per peer are inductive together, with a controller  *)
(* in the middle of a pairing having started one.                          *)
Inv ==
  /\ TypeOK
  /\ UniqueEntry
  /\ \A a \in half : bond[a] # 0

LEMMA InvGood ==
  ASSUME Inv, NEW k \in Kinds
  PROVE  Good(ring[k]) /\ Good(file[k])
  BY DEF Inv, TypeOK, UniqueEntry, Good

LEMMA InitInv == Init => Inv
<1> SUFFICES ASSUME Init PROVE Inv
  OBVIOUS
<1>1. TypeOK
  <2>1. /\ ring \in [Kinds -> RingSet]
        /\ file \in [Kinds -> RingSet] /\ exists \subseteq Kinds
    BY ZeroRingGood DEF Init, Good
  <2>2. /\ phase \in Kinds \cup {"run"} /\ saving \in Kinds \cup {"none"}
        /\ half \subseteq LePeers /\ bond \in [Peers -> 0..MaxPair] /\ cuts \in 0..MaxCut
    BY LinkKeysAssumption DEF Init, Kinds
  <2>3. /\ last \in [Kinds -> Peers \cup {NoPeer}]
        /\ behind \in [Kinds -> BOOLEAN] /\ lost \in [Kinds -> BOOLEAN]
        /\ evicted \in [Kinds -> BOOLEAN] /\ midway \in BOOLEAN
        /\ reset \in [Kinds -> {"no", "removed", "fresh"}]
    BY DEF Init
  <2> QED BY <2>1, <2>2, <2>3 DEF TypeOK
<1>2. UniqueEntry
  BY ZeroRingGood DEF Init, UniqueEntry, Good
<1> QED BY <1>1, <1>2 DEF Inv, Init

(* A step that leaves good rings and files, and types the rest, keeps Inv. *)
LEMMA RingStep ==
  ASSUME ring' \in [Kinds -> RingSet], file' \in [Kinds -> RingSet],
         \A k \in Kinds : Good(ring'[k]) /\ Good(file'[k])
  PROVE  UniqueEntry'
  BY DEF UniqueEntry, Good

(* What Save changes.                                                      *)
LEMMA SaveStep ==
  ASSUME Inv, NEW k \in Kinds, NEW r, Good(r), Save(k, r)
  PROVE  /\ ring' \in [Kinds -> RingSet] /\ file' \in [Kinds -> RingSet]
         /\ \A j \in Kinds : Good(ring'[j]) /\ Good(file'[j])
         /\ exists' \subseteq Kinds /\ saving' \in Kinds \cup {"none"}
         /\ behind' \in [Kinds -> BOOLEAN]
         /\ reset' \in [Kinds -> {"no", "removed", "fresh"}]
<1> USE DEF Inv, TypeOK
<1>1. ring' = [ring EXCEPT ![k] = r] /\ reset' = [reset EXCEPT ![k] = "no"]
  BY DEF Save
<1>2. ring' \in [Kinds -> RingSet] /\ \A j \in Kinds : Good(ring'[j])
  BY <1>1, InvGood DEF Good
<1>3. reset' \in [Kinds -> {"no", "removed", "fresh"}]
  BY <1>1
<1>4. CASE Open(k) /\ UNCHANGED behind
  <2>1. file' \in [Kinds -> RingSet] /\ \A j \in Kinds : Good(file'[j])
    BY <1>4, InvGood, ZeroRingGood DEF Open, Good
  <2> QED BY <1>2, <1>3, <1>4, <2>1 DEF Open
<1>5. CASE behind' = [behind EXCEPT ![k] = TRUE] /\ UNCHANGED <<file, exists, saving>>
  BY <1>2, <1>3, <1>5, InvGood
<1> QED BY <1>4, <1>5 DEF Save
-----------------------------------------------------------------------------
(* Each action keeps Inv. *)

LEMMA WriteInv == ASSUME Inv, Write PROVE Inv'
<1> USE DEF Inv, TypeOK
<1>1. saving \in Kinds /\ saving' = "none"
  BY DEF Write
<1>2. PICK r : Good(r) /\ file' = [file EXCEPT ![saving] = r]
  <2>1. CASE file' = [file EXCEPT ![saving] = ring[saving]]
    BY <1>1, <2>1, InvGood
  <2>2. CASE \E r \in Partial(ring[saving]) : file' = [file EXCEPT ![saving] = r]
    BY <1>1, <2>2, InvGood, PartialGood
  <2> QED BY <2>1, <2>2 DEF Write
<1>3. file' \in [Kinds -> RingSet] /\ \A k \in Kinds : Good(file'[k])
  BY <1>1, <1>2, InvGood DEF Good
<1>4. ring' = ring /\ half' = half /\ bond' = bond
  BY DEF Write
<1>5. UniqueEntry'
  BY <1>3, <1>4, InvGood, RingStep
<1>6. behind' \in [Kinds -> BOOLEAN]
  BY <1>1 DEF Write
<1>7. TypeOK'
  BY <1>1, <1>3, <1>6 DEF Write
<1> QED BY <1>4, <1>5, <1>7

LEMMA LoadInv == ASSUME Inv, NEW k \in Kinds, Load(k) PROVE Inv'
<1> USE DEF Inv, TypeOK
<1>1. /\ ring' \in [Kinds -> RingSet] /\ file' \in [Kinds -> RingSet]
      /\ \A j \in Kinds : Good(ring'[j]) /\ Good(file'[j])
      /\ exists' \subseteq Kinds /\ saving' \in Kinds \cup {"none"}
      /\ behind' \in [Kinds -> BOOLEAN]
  <2>1. CASE Open(k) /\ UNCHANGED <<ring, behind>>
    BY <2>1, InvGood, ZeroRingGood DEF Open, Good
  <2>2. CASE ring' = [ring EXCEPT ![k] = file[k]] /\ UNCHANGED <<file, exists, saving, behind>>
    BY <2>2, InvGood DEF Good
  <2>3. CASE /\ behind' = [behind EXCEPT ![k] = TRUE]
             /\ UNCHANGED <<ring, file, exists, saving>>
    BY <2>3, InvGood
  <2> QED BY <2>1, <2>2, <2>3 DEF Load
<1>2. UniqueEntry'
  BY <1>1, RingStep
<1>3. phase' \in Kinds \cup {"run"}
  BY DEF Load, Kinds
<1>4. TypeOK'
  BY <1>1, <1>3 DEF Load
<1> QED BY <1>2, <1>4 DEF Load

(* What the three ways to store an entry have in common.                   *)
LEMMA StoreInv ==
  ASSUME Inv, NEW k \in Kinds, NEW a \in Peers, NEW e \in EntrySet, e.addr = a,
         Save(k, Put(ring[k], Find(ring[k], a), e)), Stored(k, Find(ring[k], a), a),
         bond' \in [Peers -> 0..MaxPair], half' \subseteq LePeers,
         \A b \in half' : bond'[b] # 0,
         UNCHANGED <<phase, cuts, lost>>
  PROVE  Inv'
<1> USE DEF Inv, TypeOK
<1>1. Good(Put(ring[k], Find(ring[k], a), e))
  BY InvGood, PutGood
<1>2. /\ ring' \in [Kinds -> RingSet] /\ file' \in [Kinds -> RingSet]
      /\ \A j \in Kinds : Good(ring'[j]) /\ Good(file'[j])
      /\ exists' \subseteq Kinds /\ saving' \in Kinds \cup {"none"}
      /\ behind' \in [Kinds -> BOOLEAN]
      /\ reset' \in [Kinds -> {"no", "removed", "fresh"}]
  BY <1>1, SaveStep
<1>3. UniqueEntry'
  BY <1>2, RingStep
<1>4. /\ last' \in [Kinds -> Peers \cup {NoPeer}]
      /\ evicted' \in [Kinds -> BOOLEAN]
  BY DEF Stored
<1>5. midway' \in BOOLEAN
  BY Zenon DEF Stored
<1>6. TypeOK'
  BY <1>2, <1>4, <1>5
<1> QED BY <1>3, <1>6

LEMMA PairingTypes ==
  ASSUME Inv, NEW a \in Peers, NewPairing(a)
  PROVE  /\ bond' \in [Peers -> 0..MaxPair]
         /\ bond'[a] \in 1..MaxPair
         /\ \A b \in Peers \ {a} : bond'[b] = bond[b]
         /\ Issued(a, bond'[a]) \in KeySet
<1>1. /\ bond' \in [Peers -> 0..MaxPair] /\ bond'[a] \in 1..MaxPair
      /\ \A b \in Peers \ {a} : bond'[b] = bond[b]
  BY LinkKeysAssumption DEF Inv, TypeOK, NewPairing
<1> QED BY <1>1 DEF Issued, KeySet

LEMMA StoreLinkKeyInv == ASSUME Inv, NEW a \in BrPeers, StoreLinkKey(a) PROVE Inv'
<1>0. a \in Peers /\ "br" \in Kinds /\ half \subseteq Peers \ {a}
  BY LinkKeysAssumption DEF Peers, Kinds, Inv, TypeOK
<1> DEFINE i == Find(ring["br"], a)
           e == Entry(a, Issued(a, bond'[a]), NoKey)
<1>1. NewPairing(a) /\ half' = half /\ UNCHANGED <<phase, cuts, lost>>
  BY DEF StoreLinkKey
<1>2. Save("br", Put(ring["br"], i, e)) /\ Stored("br", i, a)
  BY DEF StoreLinkKey
<1>3. e \in EntrySet /\ e.addr = a
  BY <1>0, <1>1, PairingTypes, KeyTypes, EntryType
<1>4. bond' \in [Peers -> 0..MaxPair] /\ \A b \in half' : bond'[b] # 0
  BY <1>0, <1>1, PairingTypes DEF Inv
<1> HIDE DEF e, i
<1>5. half' \subseteq LePeers
  BY <1>1 DEF Inv, TypeOK
<1> QED BY <1>0, <1>1, <1>2, <1>3, <1>4, <1>5, StoreInv DEF i

LEMMA StoreLtkInv == ASSUME Inv, NEW a \in LePeers, StoreLtk(a) PROVE Inv'
<1>0. a \in Peers /\ "le" \in Kinds /\ LePeers \subseteq Peers
  BY DEF Peers, Kinds
<1> DEFINE i == Find(ring["le"], a)
           e == Entry(a, Issued(a, bond'[a]), ring["le"].keys[i].ident)
<1>1. NewPairing(a) /\ UNCHANGED <<phase, cuts, lost>>
  BY DEF StoreLtk
<1>2. Save("le", Put(ring["le"], i, e)) /\ Stored("le", i, a)
  BY DEF StoreLtk
<1>3. i \in Slots /\ ring["le"] \in RingSet
  BY <1>0, InvGood, FindIsSlot DEF Good
<1>4. e \in EntrySet /\ e.addr = a
  BY <1>0, <1>1, <1>3, PairingTypes, EntryFields, EntryType
<1>5. half' \subseteq half \cup {a} /\ half' \subseteq LePeers
  BY DEF StoreLtk, Inv, TypeOK
<1>6. bond' \in [Peers -> 0..MaxPair] /\ \A b \in half' : bond'[b] # 0
  BY <1>0, <1>1, <1>5, PairingTypes DEF Inv, TypeOK
<1> HIDE DEF e, i
<1> QED BY <1>0, <1>1, <1>2, <1>4, <1>5, <1>6, StoreInv DEF i

LEMMA StoreIdentInv == ASSUME Inv, NEW a \in LePeers, StoreIdent(a) PROVE Inv'
<1>0. a \in Peers /\ "le" \in Kinds
  BY DEF Peers, Kinds
<1> DEFINE i == Find(ring["le"], a)
           e == Entry(a, ring["le"].keys[i].key, Issued(a, bond[a]))
<1>1. a \in half /\ half' = half \ {a} /\ UNCHANGED <<phase, bond, cuts, lost>>
  BY DEF StoreIdent
<1>2. Save("le", Put(ring["le"], i, e)) /\ Stored("le", i, a)
  BY DEF StoreIdent
<1>3. i \in Slots /\ ring["le"] \in RingSet
  BY <1>0, InvGood, FindIsSlot DEF Good
<1>4. bond[a] \in 1..MaxPair
  BY <1>0, <1>1, LinkKeysAssumption DEF Inv, TypeOK
<1>5. Issued(a, bond[a]) \in KeySet
  BY <1>0, <1>4 DEF Issued, KeySet
<1>6. e \in EntrySet /\ e.addr = a
  BY <1>0, <1>3, <1>5, EntryFields, EntryType
<1>7. /\ bond' \in [Peers -> 0..MaxPair] /\ half' \subseteq LePeers
      /\ \A b \in half' : bond'[b] # 0
  BY <1>1 DEF Inv, TypeOK
<1> HIDE DEF e, i
<1> QED BY <1>0, <1>1, <1>2, <1>6, <1>7, StoreInv DEF i

LEMMA ClearLtkInv == ASSUME Inv, NEW a \in LePeers, ClearLtk(a) PROVE Inv'
<1> USE DEF Inv, TypeOK
<1>1. "le" \in Kinds /\ Save("le", Without(ring["le"], a))
  BY DEF ClearLtk, Kinds
<1>2. Good(Without(ring["le"], a))
  BY <1>1, InvGood, ClearGood
<1>3. /\ ring' \in [Kinds -> RingSet] /\ file' \in [Kinds -> RingSet]
      /\ \A j \in Kinds : Good(ring'[j]) /\ Good(file'[j])
      /\ exists' \subseteq Kinds /\ saving' \in Kinds \cup {"none"}
      /\ behind' \in [Kinds -> BOOLEAN]
      /\ reset' \in [Kinds -> {"no", "removed", "fresh"}]
  BY <1>1, <1>2, SaveStep
<1>4. UniqueEntry'
  BY <1>3, RingStep
<1>5. last' \in [Kinds -> Peers \cup {NoPeer}]
  BY DEF ClearLtk
<1>6. TypeOK'
  BY <1>3, <1>5 DEF ClearLtk
<1> QED BY <1>4, <1>6 DEF ClearLtk

LEMMA RemoveInv == ASSUME Inv, NEW k \in Kinds, Remove(k) PROVE Inv'
<1> USE DEF Inv, TypeOK
<1>1. /\ file' \in [Kinds -> RingSet] /\ \A j \in Kinds : Good(file'[j])
      /\ ring' = ring
  BY InvGood, ZeroRingGood DEF Remove, Good
<1>2. UniqueEntry'
  BY <1>1, InvGood, RingStep
<1>3. reset' \in [Kinds -> {"no", "removed", "fresh"}]
  BY DEF Remove
<1>4. TypeOK'
  BY <1>1, <1>3 DEF Remove
<1> QED BY <1>2, <1>4 DEF Remove

LEMMA RestartInv == ASSUME Inv, Restart PROVE Inv'
<1> USE DEF Inv, TypeOK
<1>1. file' \in [Kinds -> RingSet] /\ \A j \in Kinds : Good(file'[j])
  <2>1. CASE saving = "none"
    BY <2>1, InvGood DEF Restart
  <2>2. CASE saving # "none"
    <3>1. saving \in Kinds
      BY <2>2
    <3>2. PICK r \in Partial(ring[saving]) : file' = [file EXCEPT ![saving] = r]
      BY <2>2 DEF Restart
    <3>3. Good(r)
      BY <3>1, <3>2, InvGood, PartialGood
    <3> QED BY <3>1, <3>2, <3>3, InvGood DEF Good
  <2> QED BY <2>1, <2>2
<1>2. ring' \in [Kinds -> RingSet] /\ \A j \in Kinds : Good(ring'[j])
  BY ZeroRingGood DEF Restart, Good
<1>3. UniqueEntry'
  BY <1>1, <1>2, RingStep
<1>4. /\ phase' \in Kinds \cup {"run"} /\ saving' \in Kinds \cup {"none"}
      /\ cuts' \in 0..MaxCut
  BY LinkKeysAssumption DEF Restart, Kinds
<1>5. /\ last' \in [Kinds -> Peers \cup {NoPeer}]
      /\ behind' \in [Kinds -> BOOLEAN]
  BY DEF Restart
<1>6. lost' \in [Kinds -> BOOLEAN]
  <2>1. \A k \in Kinds : (lost[k] \/ behind[k] \/ saving = k) \in BOOLEAN
    BY Zenon
  <2> QED BY <2>1, Zenon DEF Restart
<1>7. reset' \in [Kinds -> {"no", "removed", "fresh"}]
  BY DEF Restart
<1>8. TypeOK'
  BY <1>1, <1>2, <1>4, <1>5, <1>6, <1>7 DEF Restart
<1> QED BY <1>3, <1>8 DEF Restart

LEMMA NextInv == Inv /\ [Next]_vars => Inv'
<1> SUFFICES ASSUME Inv, [Next]_vars PROVE Inv'
  OBVIOUS
<1>1. CASE Write
  BY <1>1, WriteInv
<1>2. CASE Restart
  BY <1>2, RestartInv
<1>3. ASSUME NEW k \in Kinds, Load(k) \/ Remove(k) PROVE Inv'
  BY <1>3, LoadInv, RemoveInv
<1>4. ASSUME NEW a \in BrPeers, StoreLinkKey(a) PROVE Inv'
  BY <1>4, StoreLinkKeyInv
<1>5. ASSUME NEW a \in LePeers, StoreLtk(a) \/ StoreIdent(a) \/ ClearLtk(a) PROVE Inv'
  BY <1>5, StoreLtkInv, StoreIdentInv, ClearLtkInv
<1>6. ASSUME NEW a \in LePeers, LinkDrops(a) PROVE Inv'
  <2>1. /\ half' = half \ {a}
        /\ UNCHANGED <<ring, file, exists, phase, saving, bond, cuts, histVars>>
    BY <1>6 DEF LinkDrops
  <2> QED BY <2>1 DEF Inv, TypeOK, UniqueEntry, Unique, histVars
<1>7. CASE UNCHANGED vars
  BY <1>7 DEF vars, histVars, Inv, TypeOK, UniqueEntry, Unique
<1> QED BY <1>1, <1>2, <1>3, <1>4, <1>5, <1>6, <1>7 DEF Next

(* The type invariant and the uniqueness of entries are inductive together. *)
THEOREM InvAlways == Spec => []Inv
  BY InitInv, NextInv, PTL DEF Spec

(* Every variable stays in its domain, the index of a ring included,       *)
(* whatever the power cuts leave of its file.                              *)
THEOREM KeysTypeCorrect == Spec => []TypeOK
  BY InvAlways, PTL DEF Inv

(* No controller ever has two entries: a key that is replaced is gone from *)
(* the ring and from every image a cut can leave of the file.              *)
THEOREM OneEntryPerPeer == Spec => []UniqueEntry
  BY InvAlways, PTL DEF Inv
-----------------------------------------------------------------------------
(* What the keys and the files say, beyond their form.  Every entry of a   *)
(* ring is in some set of entries, and a set that holds Empty and what a   *)
(* cut makes of its members holds all a step can leave.                    *)
AllIn(r, S) == \A i \in Slots : r.keys[i] \in S

CutClosed(S) == Empty \in S /\ \A e \in S : CutEntry(e) \subseteq S

LEMMA ZeroIn ==
  ASSUME NEW S, CutClosed(S)
  PROVE  AllIn(ZeroRing, S)
  BY DEF CutClosed, AllIn, ZeroRing, Slots

LEMMA PartialIn ==
  ASSUME NEW S, CutClosed(S), NEW r, AllIn(r, S), NEW p \in Partial(r)
  PROVE  AllIn(p, S)
<1>1. CASE p = ZeroRing
  BY <1>1, ZeroIn
<1>2. ASSUME NEW n \in Slots, NEW e \in CutEntry(r.keys[n]), p = Prefix(r, n, e)
      PROVE  AllIn(p, S)
  <2>1. e \in S /\ Empty \in S
    BY DEF CutClosed, AllIn
  <2>2. \A i \in Slots :
          p.keys[i] = IF i < n THEN r.keys[i] ELSE IF i = n THEN e ELSE Empty
    BY <1>2 DEF Prefix, Slots
  <2> QED BY <2>1, <2>2 DEF AllIn
<1> QED BY <1>1, <1>2 DEF Partial, Slots

LEMMA PutIn ==
  ASSUME NEW S, NEW r, Good(r), AllIn(r, S), NEW a \in Peers,
         NEW e \in EntrySet, e.addr = a, e \in S
  PROVE  AllIn(Put(r, Find(r, a), e), S)
<1>1. Find(r, a) \in Slots /\ r.keys \in [Slots -> EntrySet]
  BY FindIsSlot DEF Good, RingSet, Slots
<1> QED BY <1>1 DEF Put, AllIn

LEMMA ClearIn ==
  ASSUME NEW S, Empty \in S, NEW r, AllIn(r, S), NEW a
  PROVE  AllIn(Without(r, a), S)
  BY DEF Without, Cleared, AllIn, Slots

(* The entries a ring of kind k may have, those whose diversifier is the   *)
(* peer's own, and those of no peer.                                       *)
OwnEntries(k) ==
  {e \in EntrySet : IF e.addr = NoPeer THEN e = Empty ELSE Kind(e.addr) = k}
IdentEntries ==
  {e \in EntrySet : e.addr # NoPeer => e.ident \in {NoKey, Torn} \cup ({e.addr} \X (1..MaxPair))}
BlankEntries == {e \in EntrySet : e.addr = NoPeer}

LEMMA CutFields ==
  ASSUME NEW f \in EntrySet, NEW e \in CutEntry(f)
  PROVE  /\ e \in EntrySet
         /\ \/ e = Empty
            \/ f # Empty /\ e.addr = f.addr /\ e.ident \in {NoKey, Torn}
<1>1. f.addr \in Peers \cup {NoPeer} /\ f.key \in KeySet
  BY DEF EntrySet
<1>2. CASE f = Empty
  BY <1>2, EmptyType DEF CutEntry
<1>3. CASE f # Empty
  <2>1. /\ Entry(f.addr, Torn, NoKey) \in EntrySet /\ Entry(f.addr, f.key, Torn) \in EntrySet
        /\ Entry(f.addr, Torn, NoKey).addr = f.addr /\ Entry(f.addr, f.key, Torn).addr = f.addr
    BY <1>1, KeyTypes, EntryType
  <2>2. e \in {Empty, Entry(f.addr, Torn, NoKey), Entry(f.addr, f.key, Torn)}
    BY <1>3 DEF CutEntry
  <2>3. Entry(f.addr, Torn, NoKey).ident = NoKey /\ Entry(f.addr, f.key, Torn).ident = Torn
    BY DEF Entry
  <2> QED BY <1>3, <2>1, <2>2, <2>3, EmptyType
<1> QED BY <1>2, <1>3

LEMMA SetsClosed ==
  /\ \A k \in Kinds : CutClosed(OwnEntries(k))
  /\ CutClosed(IdentEntries)
  /\ CutClosed(BlankEntries)
<1>0. Empty \in EntrySet /\ Empty.addr = NoPeer
  BY EmptyType
<1>1. ASSUME NEW k \in Kinds PROVE CutClosed(OwnEntries(k))
  <2>1. ASSUME NEW f \in OwnEntries(k), NEW e \in CutEntry(f) PROVE e \in OwnEntries(k)
    <3>1. f \in EntrySet /\ (IF f.addr = NoPeer THEN f = Empty ELSE Kind(f.addr) = k)
      BY DEF OwnEntries
    <3>2. e \in EntrySet /\ (e = Empty \/ (f # Empty /\ e.addr = f.addr))
      BY <3>1, CutFields
    <3> QED BY <1>0, <3>1, <3>2 DEF OwnEntries
  <2>2. Empty \in OwnEntries(k)
    BY <1>0 DEF OwnEntries
  <2> QED BY <2>1, <2>2 DEF CutClosed
<1>2. CutClosed(IdentEntries)
  <2>1. ASSUME NEW f \in IdentEntries, NEW e \in CutEntry(f) PROVE e \in IdentEntries
    <3>1. f \in EntrySet
      BY DEF IdentEntries
    <3>2. e \in EntrySet /\ (e = Empty \/ e.ident \in {NoKey, Torn})
      BY <3>1, CutFields
    <3> QED BY <1>0, <3>2 DEF IdentEntries
  <2>2. Empty \in IdentEntries
    BY <1>0 DEF IdentEntries
  <2> QED BY <2>1, <2>2 DEF CutClosed
<1>3. CutClosed(BlankEntries)
  <2>1. ASSUME NEW f \in BlankEntries, NEW e \in CutEntry(f) PROVE e \in BlankEntries
    <3>1. f \in EntrySet /\ f.addr = NoPeer
      BY DEF BlankEntries
    <3>2. e \in EntrySet /\ (e = Empty \/ e.addr = f.addr)
      BY <3>1, CutFields
    <3> QED BY <1>0, <3>1, <3>2 DEF BlankEntries
  <2>2. Empty \in BlankEntries
    BY <1>0 DEF BlankEntries
  <2> QED BY <2>1, <2>2 DEF CutClosed
<1> QED BY <1>1, <1>2, <1>3
-----------------------------------------------------------------------------
(* The kinds whose ring the boot has loaded.                               *)
Loaded(k) == phase = "run" \/ (phase = "le" /\ k = "br")

(* The keys a ring has are those of the last pairings b.                   *)
Agree(r, b) ==
  \A i \in Slots :
    r.keys[i].addr # NoPeer => r.keys[i].key = Issued(r.keys[i].addr, b[r.keys[i].addr])

Booting ==
  /\ \A k \in Kinds : ~Loaded(k) => ~behind[k] /\ saving # k
  /\ phase # "run" => half = {} /\ \A k \in Kinds : last[k] = NoPeer
OwnRing ==
  \A k \in Kinds : AllIn(ring[k], OwnEntries(k)) /\ AllIn(file[k], OwnEntries(k))
Idents ==
  \A k \in Kinds : ~evicted[k] => AllIn(ring[k], IdentEntries) /\ AllIn(file[k], IdentEntries)
HalfHeld == ~midway => \A a \in half : Holds(ring["le"], a)
Agreed ==
  \A k \in Kinds : ~lost[k] /\ ~midway =>
    /\ Agree(ring[k], bond)
    /\ behind[k] \/ saving = k \/ Agree(file[k], bond)
Current ==
  \A k \in Kinds : Loaded(k) =>
    saving = k \/ behind[k] \/ reset[k] = "removed" \/ file[k] = ring[k]
Forgotten ==
  \A k \in Kinds :
    /\ reset[k] = "removed" => phase = "run" /\ saving # k /\ AllIn(file[k], BlankEntries)
    /\ reset[k] = "fresh" => AllIn(ring[k], BlankEntries) /\ AllIn(file[k], BlankEntries)
LastSafe ==
  \A k \in Kinds : last[k] # NoPeer => ring[k].keys[ring[k].index].addr # last[k]

IInv ==
  /\ Inv /\ Booting /\ OwnRing /\ Idents /\ HalfHeld /\ Agreed /\ Current /\ Forgotten /\ LastSafe
-----------------------------------------------------------------------------
LEMMA KindTypes ==
  /\ \A a \in Peers : a # NoPeer /\ Kind(a) \in Kinds
  /\ \A a \in LePeers : a \in Peers /\ Kind(a) = "le"
  /\ \A a \in BrPeers : a \in Peers /\ Kind(a) = "br"
  /\ "br" \in Kinds /\ "le" \in Kinds
  BY LinkKeysAssumption DEF Peers, Kind, Kinds

LEMMA ZeroFacts ==
  /\ \A k \in Kinds : AllIn(ZeroRing, OwnEntries(k))
  /\ AllIn(ZeroRing, IdentEntries) /\ AllIn(ZeroRing, BlankEntries)
  /\ \A b : Agree(ZeroRing, b)
<1>1. \A b : Agree(ZeroRing, b)
  BY ZeroRingGood DEF Agree
<1> QED BY <1>1, ZeroIn, SetsClosed

LEMMA InitIInv == Init => IInv
<1> SUFFICES ASSUME Init PROVE IInv
  OBVIOUS
<1>1. \A k \in Kinds : ring[k] = ZeroRing /\ file[k] = ZeroRing
  BY DEF Init
<1>2. Inv
  BY InitInv
<1>3. Booting /\ HalfHeld /\ LastSafe
  BY DEF Init, Booting, HalfHeld, LastSafe, Kinds
<1>4. OwnRing /\ Idents /\ Agreed
  BY <1>1, ZeroFacts DEF OwnRing, Idents, Agreed
<1>5. Current /\ Forgotten
  BY <1>1 DEF Init, Current, Forgotten
<1> QED BY <1>2, <1>3, <1>4, <1>5 DEF IInv

(* A save changes one ring, and leaves its file behind or about to be      *)
(* written.                                                                *)
LEMMA SaveEffect ==
  ASSUME Inv, Ready, NEW k \in Kinds, NEW r, Save(k, r)
  PROVE  /\ ring' = [ring EXCEPT ![k] = r] /\ reset' = [reset EXCEPT ![k] = "no"]
         /\ \A j \in Kinds \ {k} : /\ ring'[j] = ring[j] /\ file'[j] = file[j]
                                   /\ behind'[j] = behind[j] /\ reset'[j] = reset[j]
                                   /\ saving' # j
         /\ ring'[k] = r /\ reset'[k] = "no"
         /\ file'[k] = file[k] \/ file'[k] = ZeroRing
         /\ behind'[k] \/ saving' = k
<1> USE DEF Inv, TypeOK
<1>0. saving = "none" /\ saving \notin Kinds
  BY DEF Ready, Kinds
<1>1. ring' = [ring EXCEPT ![k] = r] /\ reset' = [reset EXCEPT ![k] = "no"]
  BY DEF Save
<1>2. CASE Open(k) /\ UNCHANGED behind
  BY <1>0, <1>1, <1>2 DEF Open
<1>3. CASE behind' = [behind EXCEPT ![k] = TRUE] /\ UNCHANGED <<file, exists, saving>>
  BY <1>0, <1>1, <1>3
<1> QED BY <1>2, <1>3 DEF Save

(* An entry that is the peer's own is not disturbed by another peer's      *)
(* pairing.                                                                *)
LEMMA AgreeOthers ==
  ASSUME NEW r, r \in RingSet, NEW a, NEW b, NEW c, Agree(r, b),
         \A p \in Peers \ {a} : c[p] = b[p],
         NEW i \in Slots, r.keys[i].addr # a, r.keys[i].addr # NoPeer
  PROVE  r.keys[i].key = Issued(r.keys[i].addr, c[r.keys[i].addr])
<1>1. r.keys[i].addr \in Peers
  BY EntryFields
<1> QED BY <1>1 DEF Agree

(* Nor is a ring of the other kind, which does not have that peer.         *)
LEMMA AgreeKind ==
  ASSUME NEW j, NEW r, r \in RingSet, AllIn(r, OwnEntries(j)), NEW a \in Peers, Kind(a) # j,
         NEW b, NEW c, Agree(r, b), \A p \in Peers \ {a} : c[p] = b[p]
  PROVE  Agree(r, c)
<1>1. \A i \in Slots : r.keys[i].addr # a
  BY KindTypes DEF AllIn, OwnEntries
<1> QED BY <1>1, AgreeOthers DEF Agree

LEMMA AgreePut ==
  ASSUME NEW r, r \in RingSet, NEW a, NEW b, NEW c, Agree(r, b),
         \A p \in Peers \ {a} : c[p] = b[p],
         NEW i \in Slots, \A x \in Slots : r.keys[x].addr = a => x = i,
         NEW q, \A x \in Slots \ {i} : q.keys[x] = r.keys[x],
         q.keys[i].addr = a, q.keys[i].key = Issued(a, c[a])
  PROVE  Agree(q, c)
<1> SUFFICES ASSUME NEW x \in Slots, q.keys[x].addr # NoPeer
             PROVE  q.keys[x].key = Issued(q.keys[x].addr, c[q.keys[x].addr])
  BY DEF Agree
<1>1. CASE x = i
  BY <1>1
<1>2. CASE x # i
  <2>1. q.keys[x] = r.keys[x] /\ r.keys[x].addr # a
    BY <1>2
  <2>2. r.keys[x].addr # NoPeer
    BY <2>1
  <2>3. r.keys[x].key = Issued(r.keys[x].addr, c[r.keys[x].addr])
    <3>1. r.keys[x].addr \in Peers \ {a}
      BY <2>1, <2>2, EntryFields
    <3> QED BY <3>1, <2>2 DEF Agree
  <2> QED BY <2>1, <2>3
<1> QED BY <1>1, <1>2

LEMMA StoreKeeps ==
  ASSUME IInv, Ready, NEW k \in Kinds, NEW a \in Peers, Kind(a) = k,
         NEW e \in EntrySet, e.addr = a,
         Save(k, Put(ring[k], Find(ring[k], a), e)), Stored(k, Find(ring[k], a), a),
         bond' \in [Peers -> 0..MaxPair], \A p \in Peers \ {a} : bond'[p] = bond[p],
         half' \subseteq LePeers, half' \ {a} \subseteq half,
         \A p \in half' : bond'[p] # 0,
         UNCHANGED <<phase, cuts, lost>>,
         ~lost[k] /\ ~midway => e.key = Issued(a, bond'[a]),
         ~evicted'[k] => e \in IdentEntries
  PROVE  IInv'
<1> DEFINE i == Find(ring[k], a)
           r == Put(ring[k], i, e)
<1>a. Inv /\ Booting /\ OwnRing /\ Idents /\ HalfHeld /\ Agreed /\ Current /\ Forgotten /\ LastSafe
  BY DEF IInv
<1>0. /\ Good(ring[k]) /\ Good(file[k]) /\ a # NoPeer /\ phase = "run"
      /\ \A j \in Kinds : Good(ring[j]) /\ Good(file[j])
  BY <1>a, InvGood, KindTypes DEF Ready
<1>1. Inv'
  BY <1>a, StoreInv
<1>2. /\ Good(r) /\ r.keys[i].addr = a /\ r.keys[r.index].addr # a /\ r.index \in Slots
      /\ \A j \in Slots \ {i} : r.keys[j] = ring[k].keys[j]
  BY <1>a, <1>0, PutGood
<1>3. /\ i \in Slots /\ \A j \in Slots : ring[k].keys[j].addr = a => j = i
      /\ ~Holds(ring[k], a) => i = ring[k].index
      /\ Holds(ring[k], a) => ring[k].keys[i].addr = a
  BY <1>a, <1>0, FindIsSlot
<1>4. r.keys[i] = e
  BY <1>a, <1>0, <1>3 DEF Put, Good, RingSet, Slots
<1>5. /\ \A j \in Kinds \ {k} : /\ ring'[j] = ring[j] /\ file'[j] = file[j]
                                /\ behind'[j] = behind[j] /\ reset'[j] = reset[j]
                                /\ saving' # j
      /\ ring'[k] = r /\ reset'[k] = "no"
      /\ file'[k] = file[k] \/ file'[k] = ZeroRing
      /\ behind'[k] \/ saving' = k
  BY <1>a, SaveEffect
<1>6. /\ last' = [last EXCEPT ![k] = a]
      /\ evicted' = [evicted EXCEPT ![k] = @ \/ ring[k].keys[i].addr \notin {a, NoPeer}]
      /\ midway' = (midway \/ (k = "le" /\ ring[k].keys[i].addr \in half \ {a}))
  BY DEF Stored
<1>7. /\ last'[k] = a /\ \A j \in Kinds \ {k} : last'[j] = last[j] /\ evicted'[j] = evicted[j]
      /\ ~evicted'[k] => ~evicted[k]
  BY <1>a, <1>6 DEF Inv, TypeOK
<1> HIDE DEF r, i
<1>8. Booting'
  BY <1>a, <1>0 DEF Booting, Loaded
<1>9. OwnRing'
  <2>1. e \in OwnEntries(k)
    BY <1>a, <1>0 DEF OwnEntries
  <2>2. AllIn(r, OwnEntries(k))
    BY <1>a, <2>1, <1>0, PutIn DEF r, i, OwnRing
  <2> QED BY <1>a, <2>2, <1>5, ZeroFacts DEF OwnRing
<1>10. Idents'
  <2> SUFFICES ASSUME NEW j \in Kinds, ~evicted'[j]
               PROVE  AllIn(ring'[j], IdentEntries) /\ AllIn(file'[j], IdentEntries)
    BY DEF Idents
  <2>1. CASE j # k
    BY <1>a, <2>1, <1>5, <1>7 DEF Idents
  <2>2. CASE j = k
    <3>1. e \in IdentEntries /\ AllIn(ring[k], IdentEntries) /\ AllIn(file[k], IdentEntries)
      BY <1>a, <2>2, <1>7 DEF Idents
    <3>2. AllIn(r, IdentEntries)
      BY <1>a, <3>1, <1>0, PutIn DEF r, i
    <3> QED BY <1>a, <2>2, <3>1, <3>2, <1>5, ZeroFacts
  <2> QED BY <1>a, <2>1, <2>2
<1>11. HalfHeld'
  <2> SUFFICES ASSUME ~midway', NEW p \in half' PROVE Holds(ring'["le"], p)
    BY DEF HalfHeld
  <2>1. CASE p = a
    <3>1. k = "le"
      BY <1>a, <2>1, KindTypes
    <3> QED BY <1>a, <2>1, <3>1, <1>2, <1>3, <1>5 DEF Holds, Matches, Slots
  <2>2. CASE p # a
    <3>1. p \in half /\ ~midway
      BY <1>a, <2>2, <1>6
    <3>2. PICK j \in Slots : ring["le"].keys[j].addr = p
      BY <1>a, <3>1 DEF HalfHeld, Holds, Matches, Slots
    <3>3. CASE k = "le"
      <4>1. j # i
        BY <1>a, <3>1, <3>2, <3>3, <2>2, <1>6
      <4> QED BY <1>a, <4>1, <3>2, <3>3, <1>2, <1>5 DEF Holds, Matches, Slots
    <3>4. CASE k # "le"
      BY <1>a, <3>2, <3>4, <1>5, KindTypes DEF Holds, Matches, Slots
    <3> QED BY <1>a, <3>3, <3>4
  <2> QED BY <1>a, <2>1, <2>2
<1>12. Agreed'
  <2> SUFFICES ASSUME NEW j \in Kinds, ~lost'[j], ~midway'
               PROVE  /\ Agree(ring'[j], bond')
                      /\ behind'[j] \/ saving' = j \/ Agree(file'[j], bond')
    BY DEF Agreed
  <2>0. ~lost[j] /\ ~midway
    BY <1>a, <1>6
  <2>1. Agree(ring[j], bond) /\ (behind[j] \/ saving = j \/ Agree(file[j], bond))
    BY <1>a, <2>0 DEF Agreed
  <2>2. CASE j # k
    <3>0. /\ ring[j] \in RingSet /\ AllIn(ring[j], OwnEntries(j))
          /\ file[j] \in RingSet /\ AllIn(file[j], OwnEntries(j))
      BY <1>a, <1>0 DEF OwnRing, Good
    <3>1. Kind(a) # j
      BY <2>2
    <3>3. Agree(ring[j], bond')
      BY <3>0, <3>1, <2>1, AgreeKind
    <3>4. behind[j] \/ Agree(file[j], bond')
      <4>1. saving # j
        BY DEF Ready, Kinds
      <4> QED BY <4>1, <3>0, <3>1, <2>1, AgreeKind
    <3> QED BY <1>a, <2>2, <3>3, <3>4, <1>5
  <2>3. CASE j = k
    <3>1. e.key = Issued(a, bond'[a])
      BY <1>a, <2>0, <2>3
    <3>2. ring[k] \in RingSet /\ Agree(ring[k], bond)
      BY <2>1, <2>3, <1>0 DEF Good
    <3>3. r.keys[i].addr = a /\ r.keys[i].key = Issued(a, bond'[a])
      BY <3>1, <1>2, <1>4
    <3>4. Agree(r, bond')
      BY <3>2, <3>3, <1>2, <1>3, AgreePut
    <3> QED BY <1>a, <2>3, <3>4, <1>5
  <2> QED BY <1>a, <2>2, <2>3
<1>13. Current'
  <2>1. saving \notin Kinds
    BY DEF Ready, Kinds
  <2>2. \A j \in Kinds \ {k} : behind[j] \/ reset[j] = "removed" \/ file[j] = ring[j]
    BY <1>a, <2>1, <1>0 DEF Current, Loaded
  <2> QED BY <1>a, <2>2, <1>5 DEF Current
<1>14. Forgotten'
  BY <1>a, <1>0, <1>5 DEF Forgotten
<1>15. LastSafe'
  BY <1>a, <1>2, <1>5, <1>7 DEF LastSafe
<1> QED BY <1>1, <1>8, <1>9, <1>10, <1>11, <1>12, <1>13, <1>14, <1>15 DEF IInv

LEMMA StoreLinkKeyIInv == ASSUME IInv, NEW a \in BrPeers, StoreLinkKey(a) PROVE IInv'
<1>0. a \in Peers /\ "br" \in Kinds /\ Kind(a) = "br" /\ a \notin LePeers /\ a # NoPeer
  BY KindTypes, LinkKeysAssumption
<1> DEFINE i == Find(ring["br"], a)
           e == Entry(a, Issued(a, bond'[a]), NoKey)
<1>1. Ready /\ NewPairing(a) /\ half' = half /\ UNCHANGED <<phase, cuts, lost>>
  BY DEF StoreLinkKey
<1>2. Save("br", Put(ring["br"], i, e)) /\ Stored("br", i, a)
  BY DEF StoreLinkKey
<1>3. /\ bond' \in [Peers -> 0..MaxPair] /\ Issued(a, bond'[a]) \in KeySet
      /\ \A b \in Peers \ {a} : bond'[b] = bond[b]
  BY <1>0, <1>1, PairingTypes DEF IInv
<1>4. e \in EntrySet /\ e.addr = a /\ e.key = Issued(a, bond'[a]) /\ e.ident = NoKey
  BY <1>0, <1>3, KeyTypes, EntryType DEF Entry
<1>5. half' \subseteq LePeers /\ \A b \in half' : bond'[b] # 0
  BY <1>0, <1>1, <1>3, KindTypes DEF IInv, Inv, TypeOK
<1> HIDE DEF e, i
<1>6. e \in IdentEntries
  BY <1>4 DEF IdentEntries
<1>7. half' \ {a} \subseteq half
  BY <1>1
<1> QED BY <1>0, <1>1, <1>2, <1>3, <1>4, <1>5, <1>6, <1>7, StoreKeeps DEF i

LEMMA StoreLtkIInv == ASSUME IInv, NEW a \in LePeers, StoreLtk(a) PROVE IInv'
<1>0. a \in Peers /\ "le" \in Kinds /\ Kind(a) = "le" /\ LePeers \subseteq Peers /\ a # NoPeer
  BY KindTypes
<1> DEFINE i == Find(ring["le"], a)
           e == Entry(a, Issued(a, bond'[a]), ring["le"].keys[i].ident)
<1>1. Ready /\ NewPairing(a) /\ UNCHANGED <<phase, cuts, lost>>
  BY DEF StoreLtk
<1>2. Save("le", Put(ring["le"], i, e)) /\ Stored("le", i, a)
  BY DEF StoreLtk
<1>3. i \in Slots /\ ring["le"] \in RingSet
  BY <1>0, InvGood, FindIsSlot DEF Good, IInv
<1>4. /\ bond' \in [Peers -> 0..MaxPair] /\ Issued(a, bond'[a]) \in KeySet /\ bond'[a] # 0
      /\ \A b \in Peers \ {a} : bond'[b] = bond[b]
  BY <1>0, <1>1, PairingTypes DEF IInv
<1>5. /\ e \in EntrySet /\ e.addr = a /\ e.key = Issued(a, bond'[a])
      /\ e.ident = ring["le"].keys[i].ident
  BY <1>0, <1>3, <1>4, EntryFields, EntryType DEF Entry
<1>6. half' \subseteq half \cup {a} /\ half' \subseteq LePeers
  BY DEF StoreLtk, IInv, Inv, TypeOK
<1>7. \A b \in half' : bond'[b] # 0
  BY <1>0, <1>4, <1>6 DEF IInv, Inv
<1>8. ASSUME ~evicted'["le"] PROVE e \in IdentEntries
  <2>1. ring["le"].keys[i].addr \in {a, NoPeer} /\ ~evicted["le"]
    BY <1>0, <1>2, <1>8 DEF Stored, IInv, Inv, TypeOK
  <2>2. ring["le"].keys[i] \in IdentEntries /\ ring["le"].keys[i] \in OwnEntries("le")
    BY <2>1, <1>0, <1>3 DEF IInv, Idents, OwnRing, AllIn
  <2>3. CASE ring["le"].keys[i].addr = a
    BY <2>2, <2>3, <1>0, <1>5 DEF IdentEntries
  <2>4. CASE ring["le"].keys[i].addr = NoPeer
    <3>1. ring["le"].keys[i] = Empty
      BY <2>2, <2>4 DEF OwnEntries
    <3>2. e.ident = NoKey
      BY <3>1, <1>5 DEF Empty, Entry
    <3> QED BY <3>2, <1>5 DEF IdentEntries
  <2> QED BY <2>1, <2>3, <2>4
<1> HIDE DEF e, i
<1>9. half' \ {a} \subseteq half
  BY <1>6
<1> QED BY <1>0, <1>1, <1>2, <1>4, <1>5, <1>6, <1>7, <1>8, <1>9, StoreKeeps DEF i

LEMMA StoreIdentIInv == ASSUME IInv, NEW a \in LePeers, StoreIdent(a) PROVE IInv'
<1>0. a \in Peers /\ "le" \in Kinds /\ Kind(a) = "le" /\ a # NoPeer
  BY KindTypes
<1> DEFINE i == Find(ring["le"], a)
           e == Entry(a, ring["le"].keys[i].key, Issued(a, bond[a]))
<1>1. Ready /\ a \in half /\ half' = half \ {a} /\ bond' = bond /\ UNCHANGED <<phase, cuts, lost>>
  BY DEF StoreIdent
<1>2. Save("le", Put(ring["le"], i, e)) /\ Stored("le", i, a)
  BY DEF StoreIdent
<1>3. /\ i \in Slots /\ ring["le"] \in RingSet
      /\ Holds(ring["le"], a) => ring["le"].keys[i].addr = a
  BY <1>0, InvGood, FindIsSlot DEF Good, IInv
<1>4. bond[a] \in 1..MaxPair /\ bond' \in [Peers -> 0..MaxPair]
  BY <1>0, <1>1, LinkKeysAssumption DEF IInv, Inv, TypeOK
<1>5. Issued(a, bond[a]) \in KeySet /\ Issued(a, bond[a]) \in {a} \X (1..MaxPair)
  BY <1>0, <1>4 DEF Issued, KeySet
<1>6. /\ e \in EntrySet /\ e.addr = a /\ e.key = ring["le"].keys[i].key
      /\ e.ident = Issued(a, bond[a])
  BY <1>0, <1>3, <1>5, EntryFields, EntryType DEF Entry
<1>7. e \in IdentEntries
  BY <1>5, <1>6 DEF IdentEntries
<1>8. ASSUME ~lost["le"], ~midway PROVE e.key = Issued(a, bond'[a])
  <2>1. ring["le"].keys[i].addr = a
    BY <1>1, <1>3, <1>8 DEF IInv, HalfHeld
  <2> QED BY <2>1, <1>0, <1>1, <1>3, <1>6, <1>8 DEF IInv, Agreed, Agree
<1>9. half' \subseteq LePeers /\ \A b \in half' : bond'[b] # 0
  BY <1>1 DEF IInv, Inv, TypeOK
<1> HIDE DEF e, i
<1>10. half' \ {a} \subseteq half /\ \A p \in Peers \ {a} : bond'[p] = bond[p]
  BY <1>1
<1> QED BY <1>0, <1>1, <1>2, <1>4, <1>6, <1>7, <1>8, <1>9, <1>10, StoreKeeps DEF i

LEMMA WriteIInv == ASSUME IInv, Write PROVE IInv'
<1> DEFINE k == saving
<1>a. /\ Inv /\ Booting /\ OwnRing /\ Idents /\ HalfHeld /\ Agreed /\ Current /\ Forgotten
      /\ LastSafe
  BY DEF IInv
<1>0. /\ k \in Kinds /\ saving' = "none" /\ "none" \notin Kinds
      /\ UNCHANGED <<ring, exists, phase, half, bond, cuts, last, lost, evicted, midway, reset>>
  BY <1>a DEF Write, Inv, TypeOK, Kinds
<1>1. PICK r : /\ file' = [file EXCEPT ![k] = r]
               /\ r = ring[k] \/ (r \in Partial(ring[k]) /\ behind' = [behind EXCEPT ![k] = TRUE])
               /\ \A j \in Kinds \ {k} : behind'[j] = behind[j]
  BY <1>a DEF Write, Inv, TypeOK
<1>2. /\ file'[k] = r /\ \A j \in Kinds \ {k} : file'[j] = file[j]
      /\ r = ring[k] \/ (r \in Partial(ring[k]) /\ behind'[k])
  BY <1>a, <1>0, <1>1 DEF Inv, TypeOK
<1>3. Inv'
  BY <1>a, WriteInv
<1>4. \A S : CutClosed(S) /\ AllIn(ring[k], S) => AllIn(r, S)
  BY <1>2, PartialIn
<1> HIDE DEF k
<1>5. Loaded(k) /\ (\A j \in Kinds : Loaded(j)' <=> Loaded(j))
  BY <1>a, <1>0 DEF Booting, Loaded, k
<1>6. Booting'
  BY <1>a, <1>0, <1>2, <1>1, <1>5 DEF Booting
<1>7. OwnRing' /\ Idents'
  BY <1>a, <1>0, <1>2, <1>4, SetsClosed DEF OwnRing, Idents
<1>8. HalfHeld' /\ LastSafe'
  BY <1>a, <1>0 DEF HalfHeld, Holds, Matches, LastSafe
<1>9. Agreed'
  <2>1. \A j \in Kinds \ {k} : saving # j
    BY DEF k
  <2> QED BY <2>1, <1>a, <1>0, <1>1, <1>2 DEF Agreed
<1>10. Current'
  <2>1. \A j \in Kinds \ {k} : saving # j
    BY DEF k
  <2> QED BY <2>1, <1>a, <1>0, <1>1, <1>2, <1>5 DEF Current
<1>11. Forgotten'
  <2>1. reset[k] # "removed"
    BY <1>a, <1>0 DEF Forgotten, k
  <2> QED BY <2>1, <1>a, <1>0, <1>2, <1>4, SetsClosed DEF Forgotten
<1> QED BY <1>3, <1>6, <1>7, <1>8, <1>9, <1>10, <1>11 DEF IInv

LEMMA LoadIInv == ASSUME IInv, NEW k \in Kinds, Load(k) PROVE IInv'
<1>a. /\ Inv /\ Booting /\ OwnRing /\ Idents /\ HalfHeld /\ Agreed /\ Current /\ Forgotten
      /\ LastSafe
  BY DEF IInv
<1>0. /\ phase = k /\ saving = "none" /\ "none" \notin Kinds
      /\ UNCHANGED <<half, bond, cuts, last, lost, evicted, midway, reset>>
      /\ ~Loaded(k) /\ ~behind[k] /\ k # "run"
      /\ \A j \in Kinds : Loaded(j)' <=> Loaded(j) \/ j = k
  BY <1>a DEF Load, Booting, Loaded, Kinds
<1>1. Inv'
  BY <1>a, LoadInv
(* What the three outcomes have in common, for the ring that is loaded and *)
(* for the other.                                                          *)
<1>2. /\ \A j \in Kinds \ {k} : /\ ring'[j] = ring[j] /\ file'[j] = file[j]
                                /\ behind'[j] = behind[j] /\ saving' # j
      /\ ring'[k] = ring[k] \/ (ring'[k] = file[k] /\ behind'[k] = behind[k])
      /\ file'[k] = file[k] \/ file'[k] = ZeroRing
      /\ saving' = k \/ behind'[k] \/ file'[k] = ring'[k]
  <2>1. CASE Open(k) /\ UNCHANGED <<ring, behind>>
    BY <2>1, <1>a DEF Open, Inv, TypeOK
  <2>2. CASE ring' = [ring EXCEPT ![k] = file[k]] /\ UNCHANGED <<file, exists, saving, behind>>
    BY <2>2, <1>a, <1>0 DEF Inv, TypeOK
  <2>3. CASE behind' = [behind EXCEPT ![k] = TRUE] /\ UNCHANGED <<ring, file, exists, saving>>
    BY <2>3, <1>a, <1>0 DEF Inv, TypeOK
  <2> QED BY <2>1, <2>2, <2>3 DEF Load
<1>3. half = {} /\ \A j \in Kinds : last[j] = NoPeer /\ reset[j] # "removed"
  BY <1>a, <1>0 DEF Booting, Forgotten
<1>4. Booting'
  BY <1>a, <1>0, <1>2, <1>3 DEF Booting
<1>5. OwnRing' /\ Idents'
  BY <1>a, <1>0, <1>2, ZeroFacts DEF OwnRing, Idents
<1>6. HalfHeld' /\ LastSafe'
  BY <1>0, <1>3 DEF HalfHeld, LastSafe
<1>7. Agreed'
  <2> SUFFICES ASSUME NEW j \in Kinds, ~lost[j], ~midway
               PROVE  /\ Agree(ring'[j], bond)
                      /\ behind'[j] \/ saving' = j \/ Agree(file'[j], bond)
    BY <1>0 DEF Agreed
  <2>1. Agree(ring[j], bond) /\ (behind[j] \/ Agree(file[j], bond))
    BY <1>a, <1>0 DEF Agreed
  <2> QED BY <2>1, <1>0, <1>2, ZeroFacts
<1>8. Current'
  BY <1>a, <1>0, <1>2 DEF Current
<1>9. Forgotten'
  BY <1>a, <1>0, <1>2, <1>3, ZeroFacts DEF Forgotten
<1> QED BY <1>1, <1>4, <1>5, <1>6, <1>7, <1>8, <1>9 DEF IInv

LEMMA ClearLtkIInv == ASSUME IInv, NEW a \in LePeers, ClearLtk(a) PROVE IInv'
<1> DEFINE k == "le"
           r == Without(ring[k], a)
<1>a. /\ Inv /\ Booting /\ OwnRing /\ Idents /\ HalfHeld /\ Agreed /\ Current /\ Forgotten
      /\ LastSafe
  BY DEF IInv
<1>0. /\ k \in Kinds /\ Ready /\ Save(k, r) /\ a \notin half /\ a # NoPeer
      /\ UNCHANGED <<phase, half, bond, cuts, lost, evicted, midway>>
      /\ last' = [last EXCEPT ![k] = IF @ = a THEN NoPeer ELSE @]
      /\ phase = "run" /\ saving \notin Kinds
  BY KindTypes DEF ClearLtk, Ready, Kinds
<1>1. Inv'
  BY <1>a, ClearLtkInv
<1>2. Good(ring[k]) /\ Good(r) /\ r.index = ring[k].index /\ r.index \in Slots
  BY <1>a, <1>0, InvGood, ClearGood DEF Good, RingSet, Slots
<1>3. \A i \in Slots : r.keys[i] = IF ring[k].keys[i].addr = a THEN Empty ELSE ring[k].keys[i]
  BY DEF Without, Cleared, Slots
<1>4. /\ \A j \in Kinds \ {k} : /\ ring'[j] = ring[j] /\ file'[j] = file[j]
                                /\ behind'[j] = behind[j] /\ reset'[j] = reset[j]
                                /\ saving' # j
      /\ ring'[k] = r /\ reset'[k] = "no"
      /\ file'[k] = file[k] \/ file'[k] = ZeroRing
      /\ behind'[k] \/ saving' = k
  BY <1>a, <1>0, SaveEffect
<1>5. /\ \A j \in Kinds \ {k} : last'[j] = last[j]
      /\ last'[k] = (IF last[k] = a THEN NoPeer ELSE last[k])
  BY <1>a, <1>0 DEF Inv, TypeOK
<1> HIDE DEF k, r
<1>6. Booting'
  BY <1>0 DEF Booting, Loaded
<1>7. OwnRing' /\ Idents'
  <2>1. \A S : Empty \in S /\ AllIn(ring[k], S) => AllIn(r, S)
    BY ClearIn DEF r
  <2>2. Empty \in OwnEntries(k) /\ Empty \in IdentEntries
    BY <1>0, SetsClosed DEF CutClosed
  <2> QED BY <2>1, <2>2, <1>a, <1>0, <1>4, ZeroFacts DEF OwnRing, Idents
<1>8. HalfHeld'
  <2> SUFFICES ASSUME ~midway, NEW p \in half PROVE Holds(ring'["le"], p)
    BY <1>0 DEF HalfHeld
  <2>1. PICK j \in Slots : ring["le"].keys[j].addr = p
    BY <1>a DEF HalfHeld, Holds, Matches, Slots
  <2>2. p # a
    BY <1>0
  <2>3. r.keys[j].addr = p
    BY <2>1, <2>2, <1>3 DEF k
  <2> QED BY <2>3, <1>4 DEF Holds, Matches, Slots, k
<1>9. Agreed'
  <2>1. \A b : Agree(ring[k], b) => Agree(r, b)
    BY <1>3, EmptyType DEF Agree
  <2> QED BY <2>1, <1>a, <1>0, <1>4 DEF Agreed
<1>10. Current' /\ Forgotten'
  <2>1. \A j \in Kinds \ {k} : behind[j] \/ reset[j] = "removed" \/ file[j] = ring[j]
    BY <1>a, <1>0 DEF Current, Loaded
  <2>2. Current'
    BY <2>1, <1>0, <1>4 DEF Current
  <2> QED BY <2>2, <1>a, <1>0, <1>4 DEF Forgotten
<1>11. LastSafe'
  <2>1. \A b : b # NoPeer /\ ring[k].keys[r.index].addr # b => r.keys[r.index].addr # b
    BY <1>2, <1>3, EmptyType
  <2>2. \A j \in Kinds \ {k} : last'[j] # NoPeer => ring'[j].keys[ring'[j].index].addr # last'[j]
    BY <1>a, <1>4, <1>5 DEF LastSafe
  <2>3. last'[k] # NoPeer => r.keys[r.index].addr # last'[k]
    BY <2>1, <1>a, <1>0, <1>2, <1>5 DEF LastSafe
  <2>4. last'[k] # NoPeer => ring'[k].keys[ring'[k].index].addr # last'[k]
    BY <2>3, <1>4
  <2> QED BY <2>2, <2>4 DEF LastSafe
<1> QED BY <1>1, <1>6, <1>7, <1>8, <1>9, <1>10, <1>11 DEF IInv

LEMMA RemoveIInv == ASSUME IInv, NEW k \in Kinds, Remove(k) PROVE IInv'
<1>a. /\ Inv /\ Booting /\ OwnRing /\ Idents /\ HalfHeld /\ Agreed /\ Current /\ Forgotten
      /\ LastSafe
  BY DEF IInv
<1>0. /\ phase = "run" /\ saving \notin Kinds
      /\ UNCHANGED <<ring, phase, saving, half, bond, cuts, last, behind, lost, evicted, midway>>
  BY DEF Remove, Ready, Kinds
<1>1. Inv'
  BY <1>a, RemoveInv
<1>2. /\ file'[k] = ZeroRing /\ reset'[k] = "removed"
      /\ \A j \in Kinds \ {k} : file'[j] = file[j] /\ reset'[j] = reset[j]
  BY <1>a DEF Remove, Inv, TypeOK
<1>3. Booting' /\ HalfHeld' /\ LastSafe'
  BY <1>a, <1>0 DEF Booting, Loaded, HalfHeld, Holds, Matches, LastSafe
<1>4. OwnRing' /\ Idents' /\ Agreed' /\ Forgotten'
  BY <1>a, <1>0, <1>2, ZeroFacts DEF OwnRing, Idents, Agreed, Forgotten
<1>5. Current'
  BY <1>a, <1>0, <1>2 DEF Current, Loaded
<1> QED BY <1>1, <1>3, <1>4, <1>5 DEF IInv

LEMMA RestartIInv == ASSUME IInv, Restart PROVE IInv'
<1>a. /\ Inv /\ Booting /\ OwnRing /\ Idents /\ HalfHeld /\ Agreed /\ Current /\ Forgotten
      /\ LastSafe
  BY DEF IInv
<1>0. /\ phase' = "br" /\ saving' = "none" /\ half' = {} /\ "none" \notin Kinds
      /\ UNCHANGED <<exists, bond, evicted, midway>>
      /\ \A k \in Kinds :
           /\ ring'[k] = ZeroRing /\ last'[k] = NoPeer /\ ~behind'[k]
           /\ reset'[k] = IF reset[k] = "removed" THEN "fresh" ELSE reset[k]
           /\ ~lost'[k] => ~lost[k] /\ ~behind[k] /\ saving # k
  BY DEF Restart, Kinds
<1>1. Inv'
  BY <1>a, RestartInv
<1>2. \A k \in Kinds : /\ file'[k] = file[k] \/ file'[k] \in Partial(ring[k])
                       /\ saving # k => file'[k] = file[k]
  <2>1. CASE saving = "none"
    BY <2>1 DEF Restart
  <2>2. CASE saving # "none"
    <3>1. PICK r \in Partial(ring[saving]) : file' = [file EXCEPT ![saving] = r]
      BY <2>2 DEF Restart
    <3> QED BY <3>1, <2>2, <1>a DEF Inv, TypeOK
  <2> QED BY <2>1, <2>2
<1>3. \A k \in Kinds : ~Loaded(k)'
  BY <1>0 DEF Loaded, Kinds
<1>4. Booting' /\ HalfHeld' /\ LastSafe' /\ Current'
  BY <1>0, <1>3 DEF Booting, HalfHeld, LastSafe, Current
<1>5. OwnRing'
  <2> SUFFICES ASSUME NEW k \in Kinds PROVE AllIn(file'[k], OwnEntries(k))
    BY <1>0, ZeroFacts DEF OwnRing
  <2> QED BY <1>a, <1>2, PartialIn, SetsClosed DEF OwnRing
<1>6. Idents'
  <2> SUFFICES ASSUME NEW k \in Kinds, ~evicted[k] PROVE AllIn(file'[k], IdentEntries)
    BY <1>0, ZeroFacts DEF Idents
  <2> QED BY <1>a, <1>2, PartialIn, SetsClosed DEF Idents
<1>7. Agreed'
  BY <1>a, <1>0, <1>2, ZeroFacts DEF Agreed
<1>8. Forgotten'
  <2> SUFFICES ASSUME NEW k \in Kinds, reset[k] \in {"removed", "fresh"}
               PROVE  AllIn(file'[k], BlankEntries)
    BY <1>0, ZeroFacts DEF Forgotten
  <2>1. CASE reset[k] = "removed"
    BY <2>1, <1>a, <1>2 DEF Forgotten
  <2>2. CASE reset[k] = "fresh"
    BY <2>2, <1>a, <1>2, PartialIn, SetsClosed DEF Forgotten
  <2> QED BY <2>1, <2>2
<1> QED BY <1>1, <1>4, <1>5, <1>6, <1>7, <1>8 DEF IInv

LEMMA LinkDropsIInv == ASSUME IInv, NEW a \in LePeers, LinkDrops(a) PROVE IInv'
<1>0. /\ half' = half \ {a} /\ half # {}
      /\ UNCHANGED <<ring, file, exists, phase, saving, bond, cuts, histVars>>
  BY DEF LinkDrops
<1>1. Inv'
  BY NextInv DEF Next, IInv
<1>2. Booting' /\ HalfHeld'
  BY <1>0 DEF IInv, Booting, Loaded, HalfHeld, Holds, Matches, histVars
<1>3. OwnRing' /\ Idents' /\ Agreed'
  BY <1>0 DEF IInv, OwnRing, Idents, Agreed, histVars
<1>4. Current' /\ Forgotten' /\ LastSafe'
  BY <1>0 DEF IInv, Current, Loaded, Forgotten, LastSafe, histVars
<1> QED BY <1>1, <1>2, <1>3, <1>4 DEF IInv

LEMMA NextIInv == IInv /\ [Next]_vars => IInv'
<1> SUFFICES ASSUME IInv, [Next]_vars PROVE IInv'
  OBVIOUS
<1>1. CASE Write
  BY <1>1, WriteIInv
<1>2. CASE Restart
  BY <1>2, RestartIInv
<1>3. ASSUME NEW k \in Kinds, Load(k) \/ Remove(k) PROVE IInv'
  BY <1>3, LoadIInv, RemoveIInv
<1>4. ASSUME NEW a \in BrPeers, StoreLinkKey(a) PROVE IInv'
  BY <1>4, StoreLinkKeyIInv
<1>5. ASSUME NEW a \in LePeers, StoreLtk(a) \/ StoreIdent(a) \/ LinkDrops(a) \/ ClearLtk(a)
      PROVE  IInv'
  BY <1>5, StoreLtkIInv, StoreIdentIInv, LinkDropsIInv, ClearLtkIInv
<1>6. CASE UNCHANGED vars
  <2>1. Inv'
    BY NextInv DEF IInv
  <2>2. Booting' /\ HalfHeld' /\ OwnRing' /\ Idents' /\ Agreed'
    BY <1>6 DEF vars, histVars, IInv, Booting, Loaded, HalfHeld, Holds, Matches, OwnRing,
                Idents, Agreed
  <2>3. Current' /\ Forgotten' /\ LastSafe'
    BY <1>6 DEF vars, histVars, IInv, Current, Loaded, Forgotten, LastSafe
  <2> QED BY <2>1, <2>2, <2>3 DEF IInv
<1> QED BY <1>1, <1>2, <1>3, <1>4, <1>5, <1>6 DEF Next

(* The rings, their files, the pairings under way and the last peer agree,  *)
(* in every state between two steps of the firmware.                       *)
THEOREM IInvAlways == Spec => []IInv
  BY InitIInv, NextIInv, PTL DEF Spec

(* A key that is looked up is the peer's last one, whatever was paired,    *)
(* cleared, cut and loaded in between, unless the ring was lost before it  *)
(* was written or a peer was evicted half paired; and its diversifier is   *)
(* not another peer's as long as no entry changed hands.                   *)
THEOREM KeysAgree == Spec => []KeyAgreement
<1>1. IInv => KeyAgreement
  <2> SUFFICES ASSUME IInv PROVE KeyAgreement
    OBVIOUS
  <2>1. IdentOwn
    BY KindTypes DEF IInv, Idents, AllIn, IdentEntries, IdentOwn, Slots
  <2> QED BY <2>1 DEF IInv, Agreed, Agree, KeyAgreement, Slots
<1> QED BY <1>1, IInvAlways, PTL

(* At rest a file has what its ring has, unless the last save failed or a  *)
(* factory reset removed it.                                               *)
THEOREM FilesCurrent == Spec => []FileCurrent
<1>1. IInv => FileCurrent
  BY DEF IInv, Current, Loaded, FileCurrent, Ready, Kinds
<1> QED BY <1>1, IInvAlways, PTL

(* After a factory reset and its restart no peer is known until one pairs. *)
THEOREM ResetClears == Spec => []ResetForgets
<1>1. IInv => ResetForgets
  <2> SUFFICES ASSUME IInv, NEW k \in Kinds, reset[k] = "fresh", NEW a \in Peers
               PROVE  ~Holds(ring[k], a)
    BY DEF ResetForgets
  <2>1. \A i \in Slots : ring[k].keys[i].addr = NoPeer
    BY DEF IInv, Forgotten, AllIn, BlankEntries
  <2> QED BY <2>1, KindTypes DEF Holds, Matches, Slots
<1> QED BY <1>1, IInvAlways, PTL

(* The peer that paired last is not the one the next pairing evicts.       *)
THEOREM LastPeerKept == Spec => LastKept
<1> DEFINE Kept == \A k \in Kinds : NoPeer \notin {last[k], last'[k]} /\ Holds(ring[k], last[k])
                     => Holds(ring'[k], last[k])
<1>1. ASSUME IInv, [Next]_vars PROVE [Kept]_vars
  <2> SUFFICES ASSUME Next, NEW k \in Kinds, last[k] # NoPeer, last'[k] # NoPeer,
                      Holds(ring[k], last[k])
               PROVE  Holds(ring'[k], last[k])
    BY <1>1 DEF Kept
  <2>0. PICK x \in Slots : ring[k].keys[x].addr = last[k]
    BY DEF Holds, Matches, Slots
  <2>1. Inv /\ phase = "run" /\ ring[k].keys[ring[k].index].addr # last[k]
    BY <1>1 DEF IInv, Booting, LastSafe
  <2>2. CASE ring' = ring
    BY <2>2
  <2>3. CASE Restart
    BY <2>3 DEF Restart
  (* A peer other than the last takes its own entry, or the next one, which is not the last's. *)
  <2>4. ASSUME NEW j \in Kinds, NEW a \in Peers, Ready, NEW e \in EntrySet, e.addr = a,
               Save(j, Put(ring[j], Find(ring[j], a), e))
        PROVE  Holds(ring'[k], last[k])
    <3> DEFINE i == Find(ring[j], a)
    <3>1. CASE j # k
      BY <2>1, <2>4, <3>1, SaveEffect
    <3>2. CASE j = k
      <4>1. Good(ring[k]) /\ ring'[k] = Put(ring[k], Find(ring[k], a), e)
        BY <2>1, <2>4, <3>2, InvGood, SaveEffect
      <4>2. CASE a = last[k]
        <5>1. ring'[k].keys[Find(ring[k], a)].addr = a /\ Find(ring[k], a) \in Slots
          BY <4>1, <2>4, PutGood, FindIsSlot
        <5> QED BY <5>1, <4>2 DEF Holds, Matches, Slots
      <4>3. CASE a # last[k]
        <5>1. x # Find(ring[k], a)
          BY <4>1, <4>3, <2>0, <2>1, FindIsSlot
        <5>2. ring'[k].keys[x] = ring[k].keys[x]
          BY <4>1, <2>4, <5>1, PutGood
        <5> QED BY <5>2, <2>0 DEF Holds, Matches, Slots
      <4> QED BY <4>2, <4>3
    <3> QED BY <3>1, <3>2
  <2>5. ASSUME NEW a \in BrPeers, StoreLinkKey(a) PROVE Holds(ring'[k], last[k])
    <3>1. /\ Ready /\ NewPairing(a)
          /\ Save("br", Put(ring["br"], Find(ring["br"], a), Entry(a, Issued(a, bond'[a]), NoKey)))
      BY <2>5 DEF StoreLinkKey
    <3>2. Entry(a, Issued(a, bond'[a]), NoKey) \in EntrySet
      BY <2>1, <3>1, KindTypes, KeyTypes, PairingTypes, EntryType
    <3>3. Entry(a, Issued(a, bond'[a]), NoKey).addr = a
      BY DEF Entry
    <3> QED BY <3>1, <3>2, <3>3, <2>4, KindTypes
  <2>6. ASSUME NEW a \in LePeers, StoreLtk(a) PROVE Holds(ring'[k], last[k])
    <3> DEFINE i == Find(ring["le"], a)
               e == Entry(a, Issued(a, bond'[a]), ring["le"].keys[i].ident)
    <3>1. Ready /\ NewPairing(a) /\ Save("le", Put(ring["le"], i, e))
      BY <2>6 DEF StoreLtk
    <3>2. i \in Slots /\ ring["le"] \in RingSet
      BY <2>1, InvGood, FindIsSlot, KindTypes DEF Good
    <3>3. e \in EntrySet /\ e.addr = a
      BY <2>1, <3>1, <3>2, KindTypes, EntryFields, PairingTypes, EntryType
    <3> HIDE DEF e
    <3> QED BY <3>1, <3>3, <2>4, KindTypes
  <2>7. ASSUME NEW a \in LePeers, StoreIdent(a) PROVE Holds(ring'[k], last[k])
    <3> DEFINE i == Find(ring["le"], a)
               e == Entry(a, ring["le"].keys[i].key, Issued(a, bond[a]))
    <3>1. Ready /\ a \in half /\ Save("le", Put(ring["le"], i, e))
      BY <2>7 DEF StoreIdent
    <3>2. i \in Slots /\ ring["le"] \in RingSet
      BY <2>1, InvGood, FindIsSlot, KindTypes DEF Good
    <3>3. Issued(a, bond[a]) \in KeySet
      BY <2>1, <3>1, KindTypes, LinkKeysAssumption DEF Inv, TypeOK, Issued, KeySet
    <3>4. e \in EntrySet /\ e.addr = a
      BY <3>2, <3>3, KindTypes, EntryFields, EntryType
    <3> HIDE DEF e
    <3> QED BY <3>1, <3>4, <2>4, KindTypes
  <2>8. ASSUME NEW a \in LePeers, ClearLtk(a) PROVE Holds(ring'[k], last[k])
    <3>1. Ready /\ Save("le", Without(ring["le"], a)) /\ "le" \in Kinds
      BY <2>8, KindTypes DEF ClearLtk
    <3>2. CASE k # "le"
      BY <3>1, <3>2, <2>1, SaveEffect
    <3>3. CASE k = "le"
      <4>1. last[k] # a
        BY <2>8, <3>3, <2>1, <3>1 DEF ClearLtk, Inv, TypeOK
      <4>2. ring'[k].keys[x] = ring[k].keys[x]
        BY <4>1, <3>1, <3>3, <2>0, <2>1, InvGood, SaveEffect, ClearGood
      <4> QED BY <4>2, <2>0 DEF Holds, Matches, Slots
    <3> QED BY <3>2, <3>3
  <2>9. ASSUME NEW j \in Kinds, Load(j) PROVE FALSE
    BY <2>9, <2>1 DEF Load, Kinds
  <2>10. Write \/ (\E j \in Kinds : Remove(j)) \/ (\E a \in LePeers : LinkDrops(a)) => ring' = ring
    BY DEF Write, Remove, LinkDrops
  <2> QED BY <2>2, <2>3, <2>5, <2>6, <2>7, <2>8, <2>9, <2>10 DEF Next
<1>2. Spec => [][Kept]_vars
  BY <1>1, IInvAlways, PTL DEF Spec
<1> QED BY <1>2 DEF LastKept, Kept

-----------------------------------------------------------------------------
(***************************************************************************)
(* SessionIInv follows a controller through its stages: as long as it      *)
(* sends nothing it is not asked for, all it owes belongs to one stage.    *)
(***************************************************************************)
Conn == {"conn_req", "conn_rsp"}
Conf == {"conf_req", "conf_rsp"}
Tokens == ({"name", "auth", "svc", "pnp"} \X {"-"}) \cup ((Conn \cup Conf) \X Chans)

Owed == BagToSet(due)
Paging == "page" \in flags

(* A peer that connects by itself sends its name and configures the        *)
(* control channel beside everything else.                                 *)
Beside(t) == t[1] = "name" \/ (t[1] \in Conf /\ t[2] = "ctrl")
Main == {t \in Owed : ~(Paging /\ Beside(t))}

Place(ch) == CASE ch = "ctrl" -> 1 [] ch = "intr" -> 2 [] OTHER -> 3
Rank(t) == CASE t[1] = "name" -> 0
             [] t[1] = "auth" -> 1
             [] t[1] \in Conn -> 2 * Place(t[2])
             [] t[1] \in Conf -> 2 * Place(t[2]) + 1
             [] t[1] = "svc"  -> 8
             [] OTHER         -> 9

OneStage ==
  /\ \A t \in Main, u \in Main : Rank(t) = Rank(u) /\ (t = u \/ t[1] \in Conf)
  /\ \A t \in Main : sdp_state = IF Rank(t) = 9 THEN 1 ELSE 0
  /\ \A t \in Main, ch \in Chans : Pending(ch) \in flags =>
       /\ 2 * Place(ch) + 1 <= Rank(t)
       /\ Rank(t) = 2 * Place(ch) + 1 => Main = {t}

(* It was not asked to authenticate, nor for the control channel, and      *)
(* opens that once.                                                        *)
ByItself ==
  Paging =>
    /\ <<"auth", "-">> \notin Owed /\ <<"conn_rsp", "ctrl">> \notin Owed
    /\ "ctrl_pending" \notin flags
    /\ <<"conn_req", "ctrl">> \in Owed => \A p \in Conf : <<p, "ctrl">> \notin Owed

OnTrack == up /\ ~odd => due = SetToBag(Owed) /\ OneStage /\ ByItself

Service == sdp.mem /\ sdp.has \subseteq {"svc", "desc"}
Information == pnp.mem /\ pnp.has = {"pnp"}

(* What the buffers hold in each stage, and that bt_host_task does not     *)
(* look at them before the final answer.                                    *)
Answered ==
  /\ \A t \in Main : Rank(t) < 8 => sdp = NoBuf /\ pnp = NoBuf
  /\ <<"svc", "-">> \in Owed => pnp = NoBuf /\ (sdp = NoBuf \/ Service)
  /\ <<"pnp", "-">> \in Owed => Service /\ (pnp = NoBuf \/ Information)
  /\ Main # {} => "sdp_data" \notin flags
  /\ ht # "idle" => "sdp_data" \in flags
  /\ "sdp_data" \in flags /\ ht \in {"idle", "pnp"} => Service /\ Information
Answers == up /\ ~odd /\ ~stale => Answered

Down ==
  /\ ~up => Owed = {}
  /\ ~up /\ ~stale => ht = "idle" /\ BagToSet(timers) = {} /\ flags = {}

(* Only an open channel is configured, and the control channel is opened   *)
(* before the interrupt channel.                                           *)
Opened ==
  /\ \A p \in Conf, ch \in Chans : <<p, ch>> \in Owed => ch \in known
  /\ \A p \in Conn : ~odd /\ <<p, "intr">> \in Owed => "ctrl" \in known
  /\ ~odd /\ "intr" \in known => "ctrl" \in known

Started ==
  /\ "intr_ready" \in flags => up /\ "intr" \in known
  /\ ~stale /\ ("init_done" \in flags \/ BagToSet(timers) # {}) => "intr_ready" \in flags
  /\ ~stale /\ "intr_ready" \in flags => initFor = type \/ lateName

SessionIInv == SessionTypes /\ Owed \subseteq Tokens /\ OnTrack /\ Answers /\ Down /\ Opened /\ Started

(* Ranks and channels. *)
LEMMA Places ==
  /\ Place("ctrl") = 1 /\ Place("intr") = 2 /\ Place("sdp_tx") = 3
  /\ \A ch \in Chans : Place(ch) \in 1..3
  /\ \A ch \in Chans, d \in Chans : Place(ch) = Place(d) => ch = d
<1>1. Place("ctrl") = 1 /\ Place("intr") = 2 /\ Place("sdp_tx") = 3
  BY DEF Place
<1> QED BY <1>1 DEF Chans

LEMMA Marks ==
  /\ \A ch \in Chans : Pending(ch) \in {"sdp_tx_pending", "ctrl_pending", "intr_pending"}
  /\ \A ch \in Chans, d \in Chans : Pending(ch) = Pending(d) => ch = d
  /\ \A ch \in Chans : Pending(ch) = "ctrl_pending" => ch = "ctrl"
  BY DEF Pending, Chans

LEMMA Ranks ==
  /\ Rank(<<"name", "-">>) = 0 /\ Rank(<<"auth", "-">>) = 1
  /\ Rank(<<"svc", "-">>) = 8 /\ Rank(<<"pnp", "-">>) = 9
  /\ \A p \in Conn, ch \in Chans : Rank(<<p, ch>>) = 2 * Place(ch)
  /\ \A p \in Conf, ch \in Chans : Rank(<<p, ch>>) = 2 * Place(ch) + 1
  BY DEF Rank, Conn, Conf

LEMMA TokenRanks ==
  ASSUME NEW t \in Tokens
  PROVE  /\ Rank(t) \in 0..9
         /\ Rank(t) = 8 => t = <<"svc", "-">>
         /\ Rank(t) = 9 => t = <<"pnp", "-">>
         /\ t[1] \in Conf => \E p \in Conf, ch \in Chans : t = <<p, ch>>
         /\ \A ch \in Chans : Rank(t) = 2 * Place(ch) + 1 =>
              t = <<"conf_req", ch>> \/ t = <<"conf_rsp", ch>>
<1>1. CASE t \in {"name", "auth", "svc", "pnp"} \X {"-"}
  <2>1. PICK p \in {"name", "auth", "svc", "pnp"} : t = <<p, "-">>
    BY <1>1
  <2>2. t[1] \notin Conf
    BY <2>1 DEF Conf
  <2> QED BY <2>1, <2>2, Ranks, Places
<1>2. CASE t \in Conn \X Chans
  <2>1. PICK p \in Conn, c \in Chans : t = <<p, c>>
    BY <1>2
  <2>2. t[1] \notin Conf
    BY <2>1 DEF Conf, Conn
  <2> QED BY <2>1, <2>2, Ranks, Places
<1>3. CASE t \in Conf \X Chans
  <2>1. PICK p \in Conf, c \in Chans : t = <<p, c>>
    BY <1>3
  <2>2. p = "conf_req" \/ p = "conf_rsp"
    BY DEF Conf
  <2>3. Rank(t) = 2 * Place(c) + 1 /\ Place(c) \in 1..3
    BY <2>1, Ranks, Places
  <2>4. \A ch \in Chans : Rank(t) = 2 * Place(ch) + 1 => ch = c
    BY <2>3, Places
  <2> QED BY <2>1, <2>2, <2>3, <2>4
<1> QED BY <1>1, <1>2, <1>3 DEF Tokens

(* What is drawn from the bag, and what goes in for it. *)
LEMMA Drawn ==
  ASSUME NEW p, NEW ch, NEW A, Comes(p, ch, A)
  PROVE  /\ <<p, ch>> \in Owed /\ Owed' \subseteq Owed \cup A
         /\ due = SetToBag(Owed) /\ A \cap (Owed \ {<<p, ch>>}) = {} =>
              Owed' = (Owed \ {<<p, ch>>}) \cup A /\ due' = SetToBag(Owed')
<1> DEFINE x == <<p, ch>>
<1>1. x \in Owed /\ due' = (due (-) SetToBag({x})) (+) SetToBag(A)
  BY DEF Comes, BagIn, Owed, Set
<1> HIDE DEF x
<1>2. Owed' \subseteq Owed \cup A
  BY <1>1 DEF Owed, BagToSet, SetToBag, (+), (-)
<1>3. ASSUME due = SetToBag(Owed), A \cap (Owed \ {x}) = {}
      PROVE  Owed' = (Owed \ {x}) \cup A /\ due' = SetToBag(Owed')
  <2>1. due (-) SetToBag({x}) = SetToBag(Owed \ {x})
    BY <1>1, <1>3 DEF SetToBag, (-)
  <2>2. SetToBag(Owed \ {x}) (+) SetToBag(A) = SetToBag((Owed \ {x}) \cup A)
    BY <1>3 DEF SetToBag, (+)
  <2>3. due' = SetToBag((Owed \ {x}) \cup A)
    BY <1>1, <2>1, <2>2
  <2> QED BY <2>3 DEF Owed, BagToSet, SetToBag
<1> QED BY <1>1, <1>2, <1>3 DEF x


(* The next stage, when what was drawn is all that was owed for this one.  *)
Known == {"page", "sdp_tx_pending", "ctrl_pending", "intr_pending"}
SameMarks == \A f \in Known : f \in flags' <=> f \in flags

LEMMA SameMarking ==
  ASSUME SameMarks
  PROVE  Paging' = Paging /\ \A ch \in Chans : Pending(ch) \in flags' <=> Pending(ch) \in flags
  BY Marks DEF SameMarks, Known, Paging

LEMMA NextStage ==
  ASSUME Owed \subseteq Tokens, OneStage, SameMarks, NEW x \in Main, Main = {x}, NEW A,
         Main' = A, A \subseteq Tokens,
         \A t \in A, u \in A : Rank(t) = Rank(u) /\ (t = u \/ t[1] \in Conf),
         \A t \in A : Rank(x) < Rank(t) \/ t = x,
         \A t \in A : sdp_state' = IF Rank(t) = 9 THEN 1 ELSE 0
  PROVE  OneStage'
<1>1. x \in Tokens /\ Rank(x) \in 0..9 /\ \A t \in A : Rank(t) \in 0..9
  BY TokenRanks DEF Main
<1>2. ASSUME NEW t \in A, NEW ch \in Chans, Pending(ch) \in flags'
      PROVE  2 * Place(ch) + 1 <= Rank(t) /\ (Rank(t) = 2 * Place(ch) + 1 => A = {t})
  <2>1. 2 * Place(ch) + 1 <= Rank(x) /\ Place(ch) \in 1..3
    BY <1>2, SameMarking, Places DEF OneStage
  <2>2. CASE Rank(x) < Rank(t)
    BY <1>1, <2>1, <2>2
  <2>3. CASE t = x
    <3>1. ASSUME NEW u \in A PROVE u = x
      BY <1>1, <2>3, <3>1
    <3> QED BY <2>1, <2>3, <3>1
  <2> QED BY <2>2, <2>3
<1> QED BY <1>2 DEF OneStage

(* Less is owed, and nothing else is different. *)
LEMMA LessOwed ==
  ASSUME OneStage, SameMarks, Main' \subseteq Main, UNCHANGED sdp_state
  PROVE  OneStage'
<1>1. \A t \in Main' : Main = {t} => Main' = {t}
  OBVIOUS
<1>2. \A ch \in Chans : Pending(ch) \in flags' <=> Pending(ch) \in flags
  BY SameMarking
<1> QED BY <1>1, <1>2 DEF OneStage

LEMMA LessItself ==
  ASSUME ByItself, SameMarks, <<"auth", "-">> \notin Owed' \/ <<"auth", "-">> \in Owed,
         <<"conn_rsp", "ctrl">> \notin Owed' \/ <<"conn_rsp", "ctrl">> \in Owed,
         <<"conn_req", "ctrl">> \notin Owed' \/ Owed' \subseteq Owed
  PROVE  ByItself'
  BY SameMarking DEF ByItself, SameMarks, Known

(* What leaves the stages and the buffers alone. *)
LEMMA TrackFrame ==
  ASSUME OnTrack, SameMarks, UNCHANGED <<due, sdp_state, up, odd>>
  PROVE  OnTrack'
<1>1. SUFFICES ASSUME up, ~odd PROVE due' = SetToBag(Owed') /\ OneStage' /\ ByItself'
  BY DEF OnTrack
<1>2. Owed' = Owed /\ Main' = Main
  BY SameMarking DEF Owed, Main
<1> QED BY <1>1, <1>2, LessOwed, LessItself DEF OnTrack

(* Something is owed of an early stage, or was owed before. *)
LEMMA EarlyAnswers ==
  ASSUME Answers, OnTrack, UNCHANGED <<sdp, pnp, ht, up, odd, stale>>,
         "sdp_data" \in flags' <=> "sdp_data" \in flags,
         up /\ ~odd => \/ Main' \subseteq Main /\ Owed' \subseteq Owed
                       \/ (\E x \in Main : Rank(x) < 8) /\ <<"pnp", "-">> \notin Owed' \ Owed
  PROVE  Answers'
<1> SUFFICES ASSUME up, ~odd, ~stale PROVE Answered'
  BY DEF Answers
<1>1. Answered
  BY DEF Answers
<1>2. CASE Main' \subseteq Main /\ Owed' \subseteq Owed
  BY <1>1, <1>2 DEF Answered, Service, Information
<1>3. CASE (\E x \in Main : Rank(x) < 8) /\ <<"pnp", "-">> \notin Owed' \ Owed
  <2>1. sdp = NoBuf /\ pnp = NoBuf /\ "sdp_data" \notin flags
    BY <1>1, <1>3 DEF Answered
  <2> QED BY <1>1, <1>3, <2>1 DEF Answered, Service, Information
<1> QED BY <1>2, <1>3

(* A stage in which something other than a configuration is owed. *)
LEMMA Alone ==
  ASSUME OnTrack, up, ~odd, NEW x \in Main, x[1] \notin Conf
  PROVE  Main = {x}
  BY DEF OnTrack, OneStage

(* All that was owed for a stage is drawn, and the next stage comes.       *)
LEMMA StageComes ==
  ASSUME OnTrack, up, ~odd, Owed \subseteq Tokens, SameMarks, NEW p, NEW ch, NEW A, Comes(p, ch, A),
         Main = {<<p, ch>>}, A \subseteq Tokens, A \cap (Owed \ {<<p, ch>>}) = {},
         NEW B, B = {t \in A : ~(Paging /\ Beside(t))},
         \A t \in B, u \in B : Rank(t) = Rank(u) /\ (t = u \/ t[1] \in Conf),
         \A t \in B : Rank(<<p, ch>>) < Rank(t) \/ t = <<p, ch>>,
         \A t \in B : sdp_state' = IF Rank(t) = 9 THEN 1 ELSE 0
  PROVE  /\ due' = SetToBag(Owed') /\ OneStage'
         /\ Owed' = (Owed \ {<<p, ch>>}) \cup A
<1> DEFINE x == <<p, ch>>
<1>1. OneStage /\ due = SetToBag(Owed)
  BY DEF OnTrack
<1>2. x \in Owed /\ Owed' = (Owed \ {x}) \cup A /\ due' = SetToBag(Owed')
  BY <1>1, Drawn
<1>3. x \in Main /\ Main = {x}
  OBVIOUS
<1>4. \A t \in B, u \in B : Rank(t) = Rank(u) /\ (t = u \/ t[1] \in Conf)
  OBVIOUS
<1>5. \A t \in B : (Rank(x) < Rank(t) \/ t = x) /\ sdp_state' = IF Rank(t) = 9 THEN 1 ELSE 0
  OBVIOUS
<1> HIDE DEF x
<1>6. Main' = B
  BY <1>2, <1>3, SameMarking DEF Main
<1>7. B \subseteq Tokens
  OBVIOUS
<1>8. OneStage'
  BY <1>1, <1>3, <1>4, <1>5, <1>6, <1>7, NextStage
<1> QED BY <1>2, <1>8 DEF x

(* Something is drawn and nothing comes for it. *)
LEMMA StageLess ==
  ASSUME OnTrack, up, ~odd, SameMarks, NEW p, NEW ch, Comes(p, ch, {}), UNCHANGED sdp_state
  PROVE  /\ due' = SetToBag(Owed') /\ OneStage' /\ ByItself'
         /\ Owed' \subseteq Owed /\ Main' \subseteq Main
<1>1. due = SetToBag(Owed) /\ OneStage /\ ByItself
  BY DEF OnTrack
<1>2. {} \cap (Owed \ {<<p, ch>>}) = {}
  OBVIOUS
<1>3. Owed' = (Owed \ {<<p, ch>>}) \cup {} /\ due' = SetToBag(Owed')
  BY <1>1, <1>2, Drawn
<1>4. Owed' \subseteq Owed
  BY <1>3
<1>5. Main' \subseteq Main
  BY <1>4, SameMarking DEF Main
<1> QED BY <1>1, <1>3, <1>4, <1>5, LessOwed, LessItself

(***************************************************************************)
(* The stages.                                                             *)
(***************************************************************************)
LEMMA EarlyStage ==
  ASSUME SessionIInv, NEW p, NEW ch, NEW A, Comes(p, ch, A), A \subseteq Tokens,
         <<"pnp", "-">> \notin A, SameMarks, "sdp_data" \in flags' <=> "sdp_data" \in flags,
         UNCHANGED <<up, odd, sdp_state, sdp, pnp, ht, stale>>,
         up /\ ~odd =>
           \/ A = {}
           \/ /\ Main = {<<p, ch>>} /\ Rank(<<p, ch>>) < 8 /\ A \cap (Owed \ {<<p, ch>>}) = {}
              /\ Paging => A \cap {<<"auth", "-">>, <<"conn_rsp", "ctrl">>, <<"conn_req", "ctrl">>} = {}
              /\ \E r \in 0..8 : /\ Rank(<<p, ch>>) < r
                               /\ \A t \in A : (Paging /\ Beside(t)) \/ Rank(t) = r
              /\ \A t \in A, u \in A : (Paging /\ Beside(t)) \/ (Paging /\ Beside(u))
                                       \/ t = u \/ t[1] \in Conf
  PROVE  Owed' \subseteq Tokens /\ OnTrack' /\ Answers'
<1> DEFINE x == <<p, ch>>
<1>1. x \in Owed /\ Owed' \subseteq Owed \cup A
  BY Drawn
<1>2. Owed \subseteq Tokens /\ OnTrack /\ Answers
  BY DEF SessionIInv
<1>3. ASSUME up, ~odd
      PROVE  /\ due' = SetToBag(Owed') /\ OneStage' /\ ByItself'
             /\ \/ Main' \subseteq Main /\ Owed' \subseteq Owed
                \/ (\E y \in Main : Rank(y) < 8) /\ <<"pnp", "-">> \notin Owed' \ Owed
  <2>1. CASE A = {}
    BY <1>2, <1>3, <2>1, StageLess
  <2>2. CASE A # {}
    <3> DEFINE B == {y \in A : ~(Paging /\ Beside(y))}
    <3>1. /\ Main = {x} /\ Rank(x) < 8 /\ A \cap (Owed \ {x}) = {}
          /\ Paging => A \cap {<<"auth", "-">>, <<"conn_rsp", "ctrl">>, <<"conn_req", "ctrl">>} = {}
      BY <1>3, <2>2
    <3>2. PICK r \in 0..8 : Rank(x) < r /\ \A y \in B : Rank(y) = r
      BY <1>3, <2>2
    <3>3. \A y \in B, u \in B : y = u \/ y[1] \in Conf
      BY <1>3, <2>2
    <3>4. x \in Main /\ x \in Tokens /\ Rank(x) \in 0..9
      BY <1>2, <3>1, TokenRanks DEF Main
    <3>5. sdp_state' = 0
      BY <1>2, <1>3, <3>1, <3>4 DEF OnTrack, OneStage
    <3>6. /\ \A y \in B, u \in B : Rank(y) = Rank(u) /\ (y = u \/ y[1] \in Conf)
          /\ \A y \in B : Rank(x) < Rank(y) \/ y = x
          /\ \A y \in B : sdp_state' = IF Rank(y) = 9 THEN 1 ELSE 0
      BY <3>2, <3>3, <3>5
    <3>7. due' = SetToBag(Owed') /\ OneStage' /\ Owed' = (Owed \ {x}) \cup A
      <4> HIDE DEF B
      <4> QED BY <1>2, <1>3, <3>1, <3>6, StageComes DEF B
    <3>8. ByItself'
      <4>1. SUFFICES ASSUME Paging
                     PROVE  /\ <<"auth", "-">> \notin Owed' /\ <<"conn_rsp", "ctrl">> \notin Owed'
                            /\ "ctrl_pending" \notin flags' /\ <<"conn_req", "ctrl">> \notin Owed'
        BY SameMarking DEF ByItself
      <4>2. /\ <<"auth", "-">> \notin Owed /\ <<"conn_rsp", "ctrl">> \notin Owed
            /\ "ctrl_pending" \notin flags
        BY <1>2, <1>3, <4>1 DEF OnTrack, ByItself
      <4>3. <<"conn_req", "ctrl">> \in Owed => <<"conn_req", "ctrl">> = x
        <5>1. ~Beside(<<"conn_req", "ctrl">>)
          BY DEF Beside, Conf
        <5> QED BY <3>1, <5>1 DEF Main
      <4> QED BY <3>1, <3>7, <4>1, <4>2, <4>3 DEF SameMarks, Known
    <3> QED BY <3>1, <3>4, <3>7, <3>8
  <2> QED BY <2>1, <2>2
<1>4. OnTrack'
  BY <1>3 DEF OnTrack
<1>5. Answers'
  BY <1>2, <1>3, EarlyAnswers
<1> QED BY <1>1, <1>2, <1>4, <1>5

LEMMA NameTrack ==
  ASSUME SessionIInv, NEW t \in Types, NameDone(t)
  PROVE  Owed' \subseteq Tokens /\ OnTrack' /\ Answers'
<1> DEFINE x == <<"name", "-">>
           A == IF Paging THEN {} ELSE {<<"auth", "-">>}
<1>1. /\ Comes("name", "-", A) /\ SameMarks
      /\ UNCHANGED <<up, flags, odd, sdp_state, sdp, pnp, ht, stale>>
  BY DEF NameDone, Paging, bufVars, taskVars, SameMarks
<1>2. x \in Owed /\ A \subseteq Tokens /\ <<"pnp", "-">> \notin A
  BY <1>1, Drawn DEF Tokens
<1>3. ASSUME up, ~odd, ~Paging
      PROVE  /\ Main = {x} /\ Rank(x) < 8 /\ A \cap (Owed \ {x}) = {}
             /\ Rank(x) < 1 /\ \A t_1 \in A : Rank(t_1) = 1 /\ t_1 = <<"auth", "-">>
  <2>1. x \in Main /\ x[1] \notin Conf /\ Owed = Main
    BY <1>2, <1>3 DEF Main, Conf
  <2>2. Main = {x}
    BY <1>3, <2>1, Alone DEF SessionIInv
  <2> QED BY <2>1, <2>2, Ranks
<1>4. up /\ ~odd => A = {} \/ ~Paging
  OBVIOUS
<1> HIDE DEF A
<1> QED BY <1>1, <1>2, <1>3, <1>4, EarlyStage

LEMMA AuthTrack ==
  ASSUME SessionIInv, NEW err \in BOOLEAN, AuthComplete(err)
  PROVE  Owed' \subseteq Tokens /\ OnTrack' /\ Answers'
<1> DEFINE x == <<"auth", "-">>
           A == IF err THEN {} ELSE {<<"conn_rsp", "ctrl">>}
<1>1. /\ Comes("auth", "-", A) /\ SameMarks
      /\ UNCHANGED <<up, flags, odd, sdp_state, sdp, pnp, ht, stale>>
  BY DEF AuthComplete, bufVars, taskVars, SameMarks
<1>2. x \in Owed /\ A \subseteq Tokens /\ <<"pnp", "-">> \notin A
  BY <1>1, Drawn DEF Tokens, Conn, Chans
<1>3. ASSUME up, ~odd
      PROVE  /\ ~Paging /\ Main = {x} /\ Rank(x) = 1 /\ A \cap (Owed \ {x}) = {}
             /\ \A t \in A : Rank(t) = 2 /\ t = <<"conn_rsp", "ctrl">>
  <2>1. ~Paging
    BY <1>2, <1>3 DEF SessionIInv, OnTrack, ByItself
  <2>2. x \in Main /\ x[1] \notin Conf /\ Owed = Main
    BY <1>2, <2>1 DEF Main, Conf
  <2>3. Main = {x}
    BY <1>3, <2>2, Alone DEF SessionIInv
  <2> QED BY <2>1, <2>2, <2>3, Ranks, Places DEF Conn, Chans
<1> HIDE DEF A
<1> QED BY <1>1, <1>2, <1>3, EarlyStage

LEMMA ConnReqTrack ==
  ASSUME SessionIInv, NEW ch \in Chans, ConnReq(ch)
  PROVE  Owed' \subseteq Tokens /\ OnTrack' /\ Answers'
<1> DEFINE x == <<"conn_req", ch>>
           C == {"conf_req", "conf_rsp"} \X {ch}
           B == IF ch = "ctrl" /\ Passive(ch) THEN {<<"conn_req", "intr">>} ELSE {}
           A == C \cup B
<1>1. /\ Comes("conn_req", ch, A) /\ SameMarks
      /\ UNCHANGED <<up, flags, odd, sdp_state, sdp, pnp, ht, stale>>
  BY DEF ConnReq, bufVars, taskVars, sessionHist, SameMarks
<1>2. x \in Owed /\ A \subseteq Tokens /\ <<"pnp", "-">> \notin A
  BY <1>1, Drawn DEF Tokens, Conf, Conn, Chans
<1>3. ASSUME up, ~odd
      PROVE  /\ Main = {x} /\ Rank(x) = 2 * Place(ch) /\ Place(ch) \in 1..3
             /\ A \cap (Owed \ {x}) = {}
             /\ A \cap {<<"auth", "-">>, <<"conn_rsp", "ctrl">>, <<"conn_req", "ctrl">>} = {}
             /\ \E r \in 0..8 : /\ Rank(x) < r
                              /\ \A t \in A : (Paging /\ Beside(t)) \/ Rank(t) = r
             /\ \A t \in A, u \in A : (Paging /\ Beside(t)) \/ (Paging /\ Beside(u))
                                      \/ t = u \/ t[1] \in Conf
  <2>1. x \in Main /\ x[1] \notin Conf
    BY <1>2 DEF Main, Conf, Beside
  <2>2. Main = {x}
    BY <1>3, <2>1, Alone DEF SessionIInv
  <2>3. Rank(x) = 2 * Place(ch) /\ Place(ch) \in 1..3
    BY Ranks, Places DEF Conn
  <2>4. /\ \A t \in C : t[1] \in Conf /\ t[2] = ch /\ Rank(t) = 2 * Place(ch) + 1
        /\ \A t \in C : t # x
    BY Ranks DEF Conf
  <2>5. A \cap {<<"auth", "-">>, <<"conn_rsp", "ctrl">>, <<"conn_req", "ctrl">>} = {}
    OBVIOUS
  <2>6. CASE Passive(ch)
    <3>1. ch = "ctrl" /\ Paging /\ B = {<<"conn_req", "intr">>}
      BY <2>6 DEF Passive, Paging
    <3>2. \A t \in C : Beside(t)
      BY <2>4, <3>1 DEF Beside
    <3>3. ~Beside(<<"conn_req", "intr">>) /\ Rank(<<"conn_req", "intr">>) = 4
      BY Ranks, Places DEF Beside, Conf, Conn, Chans
    <3>4. \A t \in C : t \notin Owed
      <4>1. \A p \in Conf : <<p, "ctrl">> \notin Owed
        BY <1>2, <1>3, <3>1 DEF SessionIInv, OnTrack, ByItself
      <4> QED BY <3>1, <4>1 DEF Conf
    <3>5. <<"conn_req", "intr">> \notin Owed \ {x}
      BY <2>2, <3>1, <3>3 DEF Main
    <3>6. Rank(x) < 4 /\ \A t \in A : (Paging /\ Beside(t)) \/ (Rank(t) = 4 /\ t = <<"conn_req", "intr">>)
      BY <2>3, <3>1, <3>2, <3>3, Places
    <3>7. A \cap (Owed \ {x}) = {}
      BY <3>1, <3>4, <3>5
    <3> HIDE DEF A
    <3> QED BY <2>2, <2>3, <2>5, <3>6, <3>7
  <2>7. CASE ~Passive(ch)
    <3>1. A = C
      BY <2>7
    <3>2. \A t \in C : t \in Owed => t \in Main
      BY <2>4, <2>7 DEF Main, Beside, Passive, Paging
    <3>3. A \cap (Owed \ {x}) = {}
      BY <2>2, <2>4, <3>1, <3>2
    <3>4. 2 * Place(ch) + 1 \in 0..8 /\ Rank(x) < 2 * Place(ch) + 1
      BY <2>3
    <3>5. \A t \in A : Rank(t) = 2 * Place(ch) + 1 /\ t[1] \in Conf
      BY <2>4, <3>1
    <3> HIDE DEF A
    <3> QED BY <2>2, <2>3, <2>5, <3>3, <3>4, <3>5
  <2> QED BY <2>6, <2>7
<1>4. up /\ ~odd => Rank(x) < 8
  BY <1>3
<1> HIDE DEF A
<1> QED BY <1>1, <1>2, <1>3, <1>4, EarlyStage

LEMMA ConnRspTrack ==
  ASSUME SessionIInv, NEW ch \in Chans, NEW err \in BOOLEAN, ConnRsp(ch, err)
  PROVE  Owed' \subseteq Tokens /\ OnTrack' /\ Answers'
<1> DEFINE x == <<"conn_rsp", ch>>
           A == IF err THEN {} ELSE {"conf_req", "conf_rsp"} \X {ch}
<1>1. /\ Comes("conn_rsp", ch, A) /\ SameMarks
      /\ UNCHANGED <<up, flags, odd, sdp_state, sdp, pnp, ht, stale>>
  BY DEF ConnRsp, bufVars, taskVars, SameMarks
<1>2. x \in Owed /\ A \subseteq Tokens /\ <<"pnp", "-">> \notin A
  BY <1>1, Drawn DEF Tokens, Conf, Conn, Chans
<1>3. ASSUME up, ~odd
      PROVE  /\ Main = {x} /\ Rank(x) < 8 /\ A \cap (Owed \ {x}) = {}
             /\ A \cap {<<"auth", "-">>, <<"conn_rsp", "ctrl">>, <<"conn_req", "ctrl">>} = {}
             /\ \E r \in 0..8 : Rank(x) < r /\ \A t \in A : Rank(t) = r
             /\ \A t \in A : t[1] \in Conf
  <2>1. x \in Main /\ x[1] \notin Conf
    BY <1>2 DEF Main, Conf, Beside
  <2>2. Main = {x}
    BY <1>3, <2>1, Alone DEF SessionIInv
  <2>3. Rank(x) = 2 * Place(ch) /\ Place(ch) \in 1..3
    BY Ranks, Places DEF Conn
  <2>4. ~(Paging /\ ch = "ctrl")
    BY <1>2, <1>3 DEF SessionIInv, OnTrack, ByItself
  <2>5. /\ \A t \in A : t[1] \in Conf /\ t[2] = ch /\ Rank(t) = 2 * Place(ch) + 1
        /\ \A t \in A : t # x
    BY Ranks DEF Conf
  <2>6. \A t \in A : t \in Owed => t \in Main
    BY <2>4, <2>5 DEF Main, Beside, Conf
  <2>7. A \cap {<<"auth", "-">>, <<"conn_rsp", "ctrl">>, <<"conn_req", "ctrl">>} = {}
    OBVIOUS
  <2>8. 2 * Place(ch) + 1 \in 0..8 /\ Rank(x) < 2 * Place(ch) + 1 /\ Rank(x) < 8
    BY <2>3
  <2> HIDE DEF A
  <2> QED BY <2>2, <2>5, <2>6, <2>7, <2>8
<1> HIDE DEF A
<1> QED BY <1>1, <1>2, <1>3, EarlyStage


LEMMA Following ==
  ASSUME NEW ch \in Chans
  PROVE  /\ Follows(ch) \in Tokens /\ ~Beside(Follows(ch))
         /\ Follows(ch) \notin {<<"pnp", "-">>, <<"auth", "-">>, <<"conn_rsp", "ctrl">>,
                                <<"conn_req", "ctrl">>}
         /\ Rank(Follows(ch)) = 2 * Place(ch) + 2
         /\ \A p \in Conf : Follows(ch) # <<p, ch>>
         /\ <<"conn_rsp", "intr">> = Follows(ch) => ch = "ctrl"
         /\ <<"conn_req", "intr">> # Follows(ch) /\ \A p \in Conf, d \in Chans : Follows(ch) # <<p, d>>
<1>1. CASE ch = "sdp_tx"
  <2>1. Follows(ch) = <<"svc", "-">>
    BY <1>1 DEF Follows
  <2> QED BY <1>1, <2>1, Ranks, Places DEF Tokens, Beside, Conf
<1>2. CASE ch = "ctrl"
  <2>1. Follows(ch) = <<"conn_rsp", "intr">>
    BY <1>2 DEF Follows
  <2> QED BY <1>2, <2>1, Ranks, Places DEF Tokens, Beside, Conf, Conn, Chans
<1>3. CASE ch = "intr"
  <2>1. Follows(ch) = <<"conn_rsp", "sdp_tx">>
    BY <1>3 DEF Follows
  <2> QED BY <1>3, <2>1, Ranks, Places DEF Tokens, Beside, Conf, Conn, Chans
<1> QED BY <1>1, <1>2, <1>3 DEF Chans

(* The first configuration message of a channel is noted. *)
LEMMA FirstTrack ==
  ASSUME SessionIInv, NEW p \in Conf, NEW ch \in Chans, ~Passive(ch), ~Second(ch),
         Comes(p, ch, {}), flags' = flags \cup {Pending(ch)},
         UNCHANGED <<up, odd, sdp_state, sdp, pnp, ht, stale>>
  PROVE  Owed' \subseteq Tokens /\ OnTrack' /\ Answers'
<1> DEFINE x == <<p, ch>>
<1>1. x \in Owed /\ Owed' \subseteq Owed /\ Owed \subseteq Tokens /\ OnTrack /\ Answers
  BY Drawn DEF SessionIInv
<1>2. Pending(ch) \notin flags /\ ("sdp_data" \in flags' <=> "sdp_data" \in flags)
  BY Marks DEF Second
<1>3. Paging' = Paging
  BY Marks DEF Paging
<1>4. Main' \subseteq Main
  BY <1>1, <1>3 DEF Main
<1>5. ASSUME up, ~odd PROVE due' = SetToBag(Owed') /\ OneStage' /\ ByItself'
  <2>1. due = SetToBag(Owed) /\ OneStage /\ ByItself
    BY <1>1, <1>5 DEF OnTrack
  <2>2. Owed' = Owed \ {x} /\ due' = SetToBag(Owed')
    <3>1. {} \cap (Owed \ {x}) = {}
      OBVIOUS
    <3>2. Owed' = (Owed \ {x}) \cup {} /\ due' = SetToBag(Owed')
      BY <2>1, <3>1, Drawn
    <3> QED BY <3>2
  <2>3. x \in Main /\ Rank(x) = 2 * Place(ch) + 1
    <3>1. ~(Paging /\ Beside(x))
      BY DEF Passive, Paging, Beside, Conf
    <3> QED BY <1>1, <3>1, Ranks DEF Main
  <2>4. \A t \in Main' : t \in Main /\ t # x /\ Rank(t) = 2 * Place(ch) + 1
    BY <1>4, <2>1, <2>2, <2>3 DEF Main, OneStage
  <2>5. \A t \in Main', u \in Main' : t = u
    <3>1. \A t \in Main' : t = <<"conf_req", ch>> \/ t = <<"conf_rsp", ch>>
      BY <1>1, <2>4, TokenRanks DEF Main
    <3>2. x = <<"conf_req", ch>> \/ x = <<"conf_rsp", ch>>
      BY DEF Conf
    <3> HIDE DEF x
    <3> QED BY <2>4, <3>1, <3>2
  <2>6. ASSUME NEW t \in Main', NEW d \in Chans, Pending(d) \in flags'
        PROVE  2 * Place(d) + 1 <= Rank(t) /\ Main' = {t}
    <3>1. CASE d = ch
      BY <2>4, <2>5, <3>1, Places
    <3>2. CASE d # ch
      <4>1. Pending(d) \in flags
        BY <2>6, <3>2, Marks
      <4> QED BY <2>1, <2>4, <2>5, <4>1 DEF OneStage
    <3> QED BY <3>1, <3>2
  <2>7. OneStage'
    BY <1>4, <2>1, <2>5, <2>6 DEF OneStage
  <2>8. ByItself'
    <3>1. Paging => Pending(ch) # "ctrl_pending"
      BY Marks DEF Passive, Paging
    <3> QED BY <1>1, <1>3, <2>1, <3>1 DEF ByItself
  <2> QED BY <2>2, <2>7, <2>8
<1>6. OnTrack'
  BY <1>5 DEF OnTrack
<1>7. Answers'
  BY <1>1, <1>2, <1>4, EarlyAnswers
<1> QED BY <1>1, <1>6, <1>7

LEMMA ConfiguredTrack ==
  ASSUME SessionIInv, NEW p \in Conf, NEW ch \in Chans, Configured(p, ch)
  PROVE  Owed' \subseteq Tokens /\ OnTrack' /\ Answers'
<1> DEFINE x == <<p, ch>>
           A == IF Second(ch) /\ ~Passive(ch) THEN {Follows(ch)} ELSE {}
<1>1. /\ Comes(p, ch, A)
      /\ UNCHANGED <<up, odd, sdp_state, sdp, pnp, ht, stale>>
  BY DEF Configured, bufVars, sessionHist
<1>2. x \in Owed /\ A \subseteq Tokens /\ <<"pnp", "-">> \notin A
  BY <1>1, Drawn, Following
<1>3. CASE Passive(ch)
  <2>1. flags' = flags /\ A = {}
    BY <1>3 DEF Configured
  <2>2. SameMarks
    BY <2>1 DEF SameMarks
  <2> HIDE DEF A
  <2> QED BY <1>1, <1>2, <2>1, <2>2, EarlyStage
<1>4. CASE ~Passive(ch) /\ ~Second(ch)
  <2>1. flags' = flags \cup {Pending(ch)} /\ A = {}
    BY <1>4 DEF Configured
  <2> QED BY <1>1, <1>4, <2>1, FirstTrack
<1>5. CASE ~Passive(ch) /\ Second(ch)
  <2>1. A = {Follows(ch)}
    BY <1>5
  <2>2. SameMarks /\ ("sdp_data" \in flags' <=> "sdp_data" \in flags)
    BY <1>5 DEF Configured, HidInit, SameMarks, Known
  <2>3. ASSUME up, ~odd
        PROVE  Main = {x} /\ Rank(x) = 2 * Place(ch) + 1 /\ A \cap (Owed \ {x}) = {}
    <3>1. ~(Paging /\ Beside(x))
      BY <1>5 DEF Passive, Paging, Beside, Conf
    <3>2. x \in Main /\ Rank(x) = 2 * Place(ch) + 1
      BY <1>2, <3>1, Ranks DEF Main
    <3>3. Main = {x}
      BY <1>5, <2>3, <3>2 DEF SessionIInv, OnTrack, OneStage, Second
    <3>4. Follows(ch) \in Owed => Follows(ch) \in Main
      BY Following DEF Main
    <3>5. Follows(ch) # x
      BY Following
    <3> QED BY <2>1, <3>2, <3>3, <3>4, <3>5
  <2>4. /\ A \cap {<<"auth", "-">>, <<"conn_rsp", "ctrl">>, <<"conn_req", "ctrl">>} = {}
        /\ \A t \in A : Rank(t) = 2 * Place(ch) + 2
        /\ \A t \in A, u \in A : t = u
    BY <2>1, Following
  <2>5. Place(ch) \in 1..3 /\ 2 * Place(ch) + 2 \in 0..8
    BY Places
  <2>6. up /\ ~odd => /\ Rank(x) < 8
                      /\ \E r \in 0..8 : Rank(x) < r /\ \A t \in A : Rank(t) = r
    BY <2>3, <2>4, <2>5
  <2> HIDE DEF A
  <2> QED BY <1>1, <1>2, <2>2, <2>3, <2>4, <2>6, EarlyStage
<1> QED BY <1>3, <1>4, <1>5

(* The answers to the queries. *)
LEMMA SdpTrack ==
  ASSUME SessionIInv, NEW what \in {"svc", "pnp"}, NEW final \in BOOLEAN, SdpRsp(what, final)
  PROVE  Owed' \subseteq Tokens /\ OnTrack' /\ Answers'
<1> DEFINE x == <<what, "-">>
           n == IF sdp_state = 0 THEN IF final THEN "pnp" ELSE "svc" ELSE "pnp"
           A == IF sdp_state # 0 /\ final THEN {} ELSE {<<n, "-">>}
<1>1. Comes(what, "-", A) /\ UNCHANGED <<up, odd, ht, stale>>
  BY DEF SdpRsp, taskVars, sessionHist
<1>2. SameMarks
  BY DEF SdpRsp, SameMarks, Known
<1>3. x \in Owed /\ Owed' \subseteq Owed \cup A /\ A \subseteq Tokens /\ Owed \subseteq Tokens
  BY <1>1, Drawn DEF Tokens, SessionIInv
<1>4. OnTrack /\ Answers
  BY DEF SessionIInv
<1>5. ASSUME up, ~odd
      PROVE  /\ x \in Main /\ Main = {x} /\ (sdp_state = IF what = "pnp" THEN 1 ELSE 0)
             /\ due' = SetToBag(Owed') /\ OneStage' /\ ByItself'
             /\ Owed' = (Owed \ {x}) \cup A /\ Main' \subseteq A
  <2>1. x \in Main /\ x[1] \notin Conf /\ ~Beside(x)
    BY <1>3 DEF Main, Beside, Conf
  <2>2. Main = {x}
    BY <1>4, <1>5, <2>1, Alone
  <2>3. Rank(x) = IF what = "pnp" THEN 9 ELSE 8
    BY Ranks
  <2>4. sdp_state = IF what = "pnp" THEN 1 ELSE 0
    BY <1>4, <1>5, <2>1, <2>3 DEF OnTrack, OneStage
  <2>5. \A t \in A : t = <<n, "-">> /\ ~Beside(t) /\ Rank(t) = IF n = "pnp" THEN 9 ELSE 8
    BY Ranks DEF Beside, Conf
  <2>6. A \cap (Owed \ {x}) = {}
    BY <2>2, <2>5 DEF Main
  <2>7. \A t \in A : /\ Rank(x) < Rank(t) \/ t = x
                     /\ sdp_state' = IF Rank(t) = 9 THEN 1 ELSE 0
    <3>1. CASE what = "pnp"
      <4>1. sdp_state = 1 /\ sdp_state' = 1 /\ n = "pnp"
        BY <2>4, <3>1 DEF SdpRsp
      <4> QED BY <2>5, <3>1, <4>1
    <3>2. CASE what = "svc"
      <4>1. sdp_state = 0 /\ sdp_state' = (IF final THEN 1 ELSE 0)
        BY <2>4, <3>2 DEF SdpRsp
      <4> QED BY <2>3, <2>5, <3>2, <4>1
    <3> QED BY <3>1, <3>2
  <2>8. \A t \in A, u \in A : Rank(t) = Rank(u) /\ (t = u \/ t[1] \in Conf)
    OBVIOUS
  <2>9. due' = SetToBag(Owed') /\ OneStage' /\ Owed' = (Owed \ {x}) \cup A
    <3> DEFINE B == {t \in A : ~(Paging /\ Beside(t))}
    <3>1. B = A
      BY <2>5
    <3> HIDE DEF A, B
    <3>2. A = {t \in A : ~(Paging /\ Beside(t))}
      BY <3>1 DEF B
    <3> QED BY <1>1, <1>2, <1>3, <1>4, <1>5, <2>2, <2>6, <2>7, <2>8, <3>2, StageComes
  <2>10. Main' \subseteq A
    BY <1>2, <2>2, <2>9, SameMarking DEF Main
  <2>11. ByItself'
    <3>1. /\ <<"auth", "-">> \notin A /\ <<"conn_rsp", "ctrl">> \notin A
          /\ <<"conn_req", "ctrl">> \notin A
      OBVIOUS
    <3>2. <<"conn_req", "ctrl">> \notin Owed
      <4>1. ~Beside(<<"conn_req", "ctrl">>)
        BY DEF Beside, Conf
      <4> QED BY <2>2, <4>1 DEF Main
    <3> HIDE DEF A
    <3> QED BY <1>2, <1>3, <1>4, <1>5, <3>1, <3>2, LessItself DEF OnTrack
  <2> QED BY <2>1, <2>2, <2>4, <2>9, <2>10, <2>11
<1>6. OnTrack'
  BY <1>1, <1>5 DEF OnTrack
<1>7. Answers'
  <2>1. SUFFICES ASSUME up, ~odd, ~stale PROVE Answered'
    BY <1>1 DEF Answers
  <2>2. Answered
    BY <1>4, <2>1 DEF Answers
  <2>3. "sdp_data" \notin flags /\ ht = "idle"
    BY <1>5, <2>1, <2>2 DEF Answered
  <2>4. \A t \in Main' : ~(Rank(t) < 8)
    BY <1>5, <2>1, Ranks
  <2>5. CASE what = "svc"
    <3>1. sdp_state = 0 /\ pnp = NoBuf /\ (sdp = NoBuf \/ Service)
      BY <1>3, <1>5, <2>1, <2>2, <2>5 DEF Answered
    <3>2. UNCHANGED <<pnp, flags>> /\ sdp' = Add(sdp, IF final THEN "desc" ELSE "svc", SdpSize)
      BY <2>5, <3>1 DEF SdpRsp
    <3>3. Service'
      BY <3>1, <3>2 DEF Service, Add, NoBuf
    <3> QED BY <1>1, <2>3, <2>4, <3>1, <3>2, <3>3 DEF Answered
  <2>6. CASE what = "pnp"
    <3>1. sdp_state # 0 /\ Service /\ (pnp = NoBuf \/ Information)
      BY <1>3, <1>5, <2>1, <2>2, <2>6 DEF Answered
    <3>2. /\ UNCHANGED <<sdp, sdp_state>> /\ pnp' = Add(pnp, "pnp", SdpSize)
          /\ flags' = IF final THEN flags \cup {"sdp_data"} ELSE flags
      BY <2>6, <3>1 DEF SdpRsp
    <3>3. Information'
      BY <3>1, <3>2, SessionAssumption DEF Information, Add, NoBuf
    <3>4. Service'
      BY <3>1, <3>2 DEF Service
    <3>5. <<"svc", "-">> \notin Owed'
      BY <1>5, <2>1, <2>6, <3>1 DEF Main, Beside, Conf
    <3>6. Main' # {} => ~final
      BY <1>5, <2>1, <3>1
    <3> QED BY <1>1, <2>3, <2>4, <3>2, <3>3, <3>4, <3>5, <3>6 DEF Answered
  <2> QED BY <2>5, <2>6
<1>8. Owed' \subseteq Tokens
  BY <1>3
<1> QED BY <1>6, <1>7, <1>8


(***************************************************************************)
(* The rest of what an arrival keeps.                                      *)
(***************************************************************************)
LEMMA TokensTyped == Tokens \subseteq Packets \X (Chans \cup {"-"})
  BY DEF Tokens, Packets, Conn, Conf

LEMMA Arrived ==
  ASSUME SessionIInv, NEW p, NEW ch, NEW A, Comes(p, ch, A)
  PROVE  /\ <<p, ch>> \in Owed /\ Owed' \subseteq Owed \cup A /\ up
         /\ SessionTypes /\ Down /\ Opened /\ Started
  BY Drawn DEF SessionIInv, Down

LEMMA NameRest ==
  ASSUME SessionIInv, NEW t \in Types, NameDone(t)
  PROVE  SessionIInv'
<1> DEFINE A == IF Paging THEN {} ELSE {<<"auth", "-">>}
<1>1. /\ Comes("name", "-", A) /\ type' = t /\ lateName' = ("intr_ready" \in flags)
      /\ UNCHANGED <<up, flags, known, odd, sdp_state, sdp, pnp, ht, timers, stale, initFor>>
  BY DEF NameDone, Paging, bufVars, taskVars
<1>2. Owed' \subseteq Tokens /\ OnTrack' /\ Answers'
  BY NameTrack
<1>3. Owed' \subseteq Owed \cup A /\ up /\ SessionTypes /\ Down /\ Opened /\ Started
  BY <1>1, Arrived
<1>4. SessionTypes'
  BY <1>1, <1>2, <1>3, TokensTyped DEF SessionTypes, Owed
<1>5. Down' /\ Started'
  BY <1>1, <1>3 DEF Down, Started
<1>6. Opened'
  <2>1. \A p \in Conf \cup Conn, ch \in Chans : <<p, ch>> \in Owed' => <<p, ch>> \in Owed
    BY <1>3 DEF Conf, Conn
  <2> QED BY <1>1, <1>3, <2>1 DEF Opened, Chans
<1> QED BY <1>2, <1>4, <1>5, <1>6 DEF SessionIInv

LEMMA AuthRest ==
  ASSUME SessionIInv, NEW err \in BOOLEAN, AuthComplete(err)
  PROVE  SessionIInv'
<1> DEFINE A == IF err THEN {} ELSE {<<"conn_rsp", "ctrl">>}
<1>1. /\ Comes("auth", "-", A)
      /\ UNCHANGED <<up, flags, type, known, odd, sdp_state, sdp, pnp, ht, timers, stale, initFor,
                     lateName>>
  BY DEF AuthComplete, bufVars, taskVars
<1>2. Owed' \subseteq Tokens /\ OnTrack' /\ Answers'
  BY AuthTrack
<1>3. Owed' \subseteq Owed \cup A /\ up /\ SessionTypes /\ Down /\ Opened /\ Started
  BY <1>1, Arrived
<1>4. SessionTypes'
  BY <1>1, <1>2, <1>3, TokensTyped DEF SessionTypes, Owed
<1>5. Down' /\ Started'
  BY <1>1, <1>3 DEF Down, Started
<1>6. Opened'
  <2>1. /\ \A p \in Conf, ch \in Chans : <<p, ch>> \in Owed' => <<p, ch>> \in Owed
        /\ \A p \in Conn : <<p, "intr">> \in Owed' => <<p, "intr">> \in Owed
    BY <1>3 DEF Conf, Conn
  <2> QED BY <1>1, <1>3, <2>1 DEF Opened
<1> QED BY <1>2, <1>4, <1>5, <1>6 DEF SessionIInv

LEMMA ConnRest ==
  ASSUME SessionIInv, NEW ch \in Chans,
         ConnReq(ch) \/ \E err \in BOOLEAN : ConnRsp(ch, err)
  PROVE  SessionIInv'
<1>1. PICK p \in Conn, A \in SUBSET Tokens :
        /\ Comes(p, ch, A)
        /\ A \subseteq (Conf \X {ch}) \cup {<<"conn_req", "intr">>}
        /\ <<"conn_req", "intr">> \in A => ch = "ctrl"
        /\ A # {} => ch \in known'
        /\ known' = known \/ known' = known \cup {ch}
        /\ UNCHANGED <<up, flags, type, odd, sdp_state, sdp, pnp, ht, timers, stale, initFor, lateName>>
  <2>1. CASE ConnReq(ch)
    <3> DEFINE A == (Conf \X {ch}) \cup IF ch = "ctrl" /\ Passive(ch) THEN {<<"conn_req", "intr">>} ELSE {}
    <3>1. Comes("conn_req", ch, A)
      BY <2>1 DEF ConnReq, Conf
    <3>2. A \in SUBSET Tokens
      BY DEF Tokens, Conn, Chans
    <3>3. /\ known' = known \cup {ch}
          /\ UNCHANGED <<up, flags, type, odd, sdp_state, sdp, pnp, ht, timers, stale, initFor, lateName>>
      BY <2>1 DEF ConnReq, bufVars, taskVars, sessionHist
    <3>4. A \subseteq (Conf \X {ch}) \cup {<<"conn_req", "intr">>} /\ (<<"conn_req", "intr">> \in A => ch = "ctrl")
      BY DEF Conf
    <3> HIDE DEF A
    <3> QED BY <3>1, <3>2, <3>3, <3>4 DEF Conn
  <2>2. ASSUME NEW err \in BOOLEAN, ConnRsp(ch, err)
        PROVE \E p \in Conn, A \in SUBSET Tokens :
                /\ Comes(p, ch, A)
                /\ A \subseteq (Conf \X {ch}) \cup {<<"conn_req", "intr">>}
                /\ <<"conn_req", "intr">> \in A => ch = "ctrl"
                /\ A # {} => ch \in known'
                /\ known' = known \/ known' = known \cup {ch}
                /\ UNCHANGED <<up, flags, type, odd, sdp_state, sdp, pnp, ht, timers, stale, initFor,
                               lateName>>
    <3> DEFINE A == IF err THEN {} ELSE Conf \X {ch}
    <3>1. Comes("conn_rsp", ch, A)
      BY <2>2 DEF ConnRsp, Conf
    <3>2. A \in SUBSET Tokens
      BY DEF Tokens
    <3>3. /\ known' = IF err THEN known ELSE known \cup {ch}
          /\ UNCHANGED <<up, flags, type, odd, sdp_state, sdp, pnp, ht, timers, stale, initFor, lateName>>
      BY <2>2 DEF ConnRsp, bufVars, taskVars
    <3>4. /\ A \subseteq (Conf \X {ch}) \cup {<<"conn_req", "intr">>} /\ <<"conn_req", "intr">> \notin A
          /\ A # {} => ~err
      BY DEF Conf
    <3> HIDE DEF A
    <3> QED BY <3>1, <3>2, <3>3, <3>4 DEF Conn
  <2> QED BY <2>1, <2>2
<1>2. Owed' \subseteq Tokens /\ OnTrack' /\ Answers'
  BY ConnReqTrack, ConnRspTrack
<1>3. <<p, ch>> \in Owed /\ Owed' \subseteq Owed \cup A /\ up /\ SessionTypes /\ Down /\ Opened /\ Started
  BY <1>1, Arrived
<1>4. SessionTypes'
  BY <1>1, <1>2, <1>3, TokensTyped DEF SessionTypes, Owed
<1>5. Down' /\ Started'
  BY <1>1, <1>3 DEF Down, Started
<1>6. Opened'
  <2>1. known \subseteq known' /\ known' \subseteq known \cup {ch}
    BY <1>1
  <2>2. \A q \in Conf, d \in Chans : <<q, d>> \in Owed' => <<q, d>> \in Owed \/ (d = ch /\ A # {})
    BY <1>1, <1>3 DEF Conf
  <2>3. \A q \in Conn : <<q, "intr">> \in Owed' => <<q, "intr">> \in Owed \/ (ch = "ctrl" /\ A # {})
    BY <1>1, <1>3 DEF Conf, Conn
  <2>4. ~odd /\ "intr" \in known' => "ctrl" \in known'
    <3>1. CASE "intr" \in known
      BY <1>3, <2>1, <3>1 DEF Opened
    <3>2. CASE "intr" \notin known /\ "intr" \in known'
      <4>1. ch = "intr" /\ <<p, "intr">> \in Owed
        BY <1>3, <2>1, <3>2
      <4> QED BY <1>3, <2>1, <4>1 DEF Opened
    <3> QED BY <3>1, <3>2
  <2> QED BY <1>1, <1>3, <2>1, <2>2, <2>3, <2>4 DEF Opened
<1> QED BY <1>2, <1>4, <1>5, <1>6 DEF SessionIInv

(* bt_hid_init for a slot of which the interrupt channel is ready.         *)
LEMMA InitRuns ==
  ASSUME SessionTypes, NEW f \in SUBSET Flags, HidInit(f)
  PROVE  /\ flags' \subseteq Flags /\ f \subseteq flags' /\ flags' \subseteq f \cup {"init_done"}
         /\ BagToSet(timers') \subseteq {"here", "gone"} /\ initFor' = type
  BY DEF HidInit, SessionTypes, Flags, Set, BagToSet, SetToBag, (+)

LEMMA ConfiguredRest ==
  ASSUME SessionIInv, NEW p \in Conf, NEW ch \in Chans, Configured(p, ch)
  PROVE  SessionIInv'
<1> DEFINE A == IF Second(ch) /\ ~Passive(ch) THEN {Follows(ch)} ELSE {}
<1>1. /\ Comes(p, ch, A)
      /\ UNCHANGED <<up, type, known, odd, sdp_state, sdp, pnp, ht, stale, lateName>>
  BY DEF Configured, bufVars, sessionHist
<1>2. Owed' \subseteq Tokens /\ OnTrack' /\ Answers'
  BY ConfiguredTrack
<1>3. /\ <<p, ch>> \in Owed /\ Owed' \subseteq Owed \cup A /\ up
      /\ SessionTypes /\ Down /\ Opened /\ Started
  BY <1>1, Arrived
<1>4. \/ UNCHANGED <<flags, timers, initFor>>
      \/ flags' = flags \cup {Pending(ch)} /\ UNCHANGED <<timers, initFor>>
      \/ ch = "intr" /\ HidInit(flags \cup {"intr_ready"})
  BY Zenon DEF Configured
<1>5. \/ UNCHANGED <<flags, timers, initFor>>
      \/ /\ flags' = flags \cup {Pending(ch)} /\ UNCHANGED <<timers, initFor>>
         /\ Pending(ch) \in Flags \ {"intr_ready", "init_done"}
      \/ /\ ch = "intr" /\ flags' \subseteq Flags /\ "intr_ready" \in flags'
         /\ BagToSet(timers') \subseteq {"here", "gone"} /\ initFor' = type
  <2>1. flags \cup {"intr_ready"} \in SUBSET Flags
    BY <1>3 DEF SessionTypes, Flags
  <2>2. Pending(ch) \in Flags \ {"intr_ready", "init_done"}
    BY Marks DEF Flags
  <2> QED BY <1>3, <1>4, <2>1, <2>2, InitRuns
<1>6. ch \in known
  BY <1>3 DEF Opened
<1>7. SessionTypes'
  <2>1. flags' \subseteq Flags /\ BagToSet(timers') \subseteq {"here", "gone"}
    BY <1>3, <1>5 DEF SessionTypes
  <2> QED BY <1>1, <1>2, <1>3, <2>1, TokensTyped DEF SessionTypes, Owed
<1>8. Down' /\ Started'
  BY <1>1, <1>3, <1>5, <1>6 DEF Down, Started
<1>9. Opened'
  <2>1. \A q \in Conf, d \in Chans : <<q, d>> \in Owed' => <<q, d>> \in Owed
    BY <1>3, Following
  <2>2. \A q \in Conn : <<q, "intr">> \in Owed' => <<q, "intr">> \in Owed \/ ch = "ctrl"
    <3>1. \A q \in Conn : q = "conn_req" \/ q = "conn_rsp"
      BY DEF Conn
    <3> QED BY <1>3, <3>1, Following
  <2> QED BY <1>1, <1>3, <1>6, <2>1, <2>2 DEF Opened
<1> QED BY <1>2, <1>7, <1>8, <1>9 DEF SessionIInv

LEMMA SdpRest ==
  ASSUME SessionIInv, NEW what \in {"svc", "pnp"}, NEW final \in BOOLEAN, SdpRsp(what, final)
  PROVE  SessionIInv'
<1>1. PICK A \in SUBSET {<<"svc", "-">>, <<"pnp", "-">>} : Comes(what, "-", A)
  BY DEF SdpRsp
<1>2. /\ UNCHANGED <<up, type, known, odd, ht, timers, stale, initFor, lateName>>
      /\ flags' = flags \/ flags' = flags \cup {"sdp_data"}
  BY DEF SdpRsp, taskVars, sessionHist
<1>3. Owed' \subseteq Tokens /\ OnTrack' /\ Answers'
  BY SdpTrack
<1>4. Owed' \subseteq Owed \cup A /\ up /\ SessionTypes /\ Down /\ Opened /\ Started
  BY <1>1, Arrived
<1>5. sdp_state' \in {0, 1} /\ sdp' \in Buffers /\ pnp' \in Buffers
  <2>1. ASSUME NEW b \in Buffers, NEW k \in {"svc", "pnp", "desc"}
        PROVE  Add(b, k, SdpSize) \in Buffers
    <3>1. b.len < SdpSize => b.len + 1 \in 0..SdpSize
      BY SessionAssumption DEF Buffers
    <3> QED BY <3>1 DEF Add, Buffers
  <2>2. /\ sdp_state' \in {sdp_state, 0, 1}
        /\ sdp' = sdp \/ \E k \in {"svc", "pnp", "desc"} : sdp' = Add(sdp, k, SdpSize)
        /\ pnp' = pnp \/ \E k \in {"svc", "pnp", "desc"} : pnp' = Add(pnp, k, SdpSize)
    BY DEF SdpRsp
  <2>3. sdp_state \in {0, 1} /\ sdp \in Buffers /\ pnp \in Buffers
    BY <1>4 DEF SessionTypes
  <2> QED BY <2>1, <2>2, <2>3
<1>6. SessionTypes'
  BY <1>2, <1>3, <1>4, <1>5, TokensTyped DEF SessionTypes, Owed, Flags
<1>7. Down' /\ Started'
  BY <1>2, <1>4 DEF Down, Started
<1>8. Opened'
  <2>1. \A q \in Conf \cup Conn, d \in Chans : <<q, d>> \in Owed' => <<q, d>> \in Owed
    BY <1>4 DEF Conf, Conn
  <2> QED BY <1>2, <1>4, <2>1 DEF Opened, Chans
<1> QED BY <1>3, <1>6, <1>7, <1>8 DEF SessionIInv


(***************************************************************************)
(* The slot changes hands.                                                 *)
(***************************************************************************)
LEMMA BufferTypes == NoBuf \in Buffers /\ \A b \in Buffers : Freed(b) \in Buffers
<1>1. NoBuf \in Buffers
  <2>1. 0 \in 0..SdpSize
    BY SessionAssumption
  <2> QED BY <2>1 DEF NoBuf, Buffers
<1>2. ASSUME NEW b \in Buffers
      PROVE  Freed(b) \in Buffers
  BY <1>2 DEF Freed, Buffers
<1> QED BY <1>1, <1>2

LEMMA BagOfNone == BagToSet(EmptyBag) = {} /\ \A S : BagToSet(SetToBag(S)) = S
  BY DEF EmptyBag, BagToSet, SetToBag

LEMMA ConnectHolds ==
  ASSUME SessionIInv, NEW page \in BOOLEAN, Connect(page)
  PROVE  SessionIInv'
<1> DEFINE D == {<<"name", "-">>} \cup IF page THEN {<<"conn_req", "ctrl">>} ELSE {}
<1>1. /\ ~up /\ up' = TRUE /\ flags' = (IF page THEN {"page"} ELSE {}) /\ type' = "generic"
      /\ known' = {} /\ sdp_state' = 0 /\ sdp' = NoBuf /\ pnp' = NoBuf
      /\ due' = SetToBag(D) /\ odd' = FALSE /\ stale' = AtWork /\ UNCHANGED <<timers, ht>>
  BY DEF Connect, Set, taskVars
<1>2. Owed' = D /\ due' = SetToBag(Owed') /\ D \subseteq Tokens
  <2>1. D \subseteq Tokens
    BY DEF Tokens, Conn, Chans
  <2> HIDE DEF D
  <2> QED BY <1>1, <2>1, BagOfNone DEF Owed
<1>3. "ctrl_pending" \notin flags' /\ Paging' = page /\ \A ch \in Chans : Pending(ch) \notin flags'
  BY <1>1, Marks DEF Paging
<1>4. SessionTypes'
  <2>1. BagToSet(due') \subseteq Packets \X (Chans \cup {"-"})
    BY <1>2, TokensTyped DEF Owed
  <2>2. flags' \subseteq Flags
    BY <1>1 DEF Flags
  <2> QED BY <1>1, <2>1, <2>2, BufferTypes DEF SessionIInv, SessionTypes, Types
<1>5. /\ Main' \subseteq {IF page THEN <<"conn_req", "ctrl">> ELSE <<"name", "-">>}
      /\ \A t \in Main' : Rank(t) < 8
  <2>1. Main' \subseteq {IF page THEN <<"conn_req", "ctrl">> ELSE <<"name", "-">>}
    BY <1>2, <1>3 DEF Main, Beside
  <2> QED BY <2>1, Ranks, Places DEF Conn, Chans
<1>6. OnTrack'
  <2>1. \A t \in Main', u \in Main' : t = u
    BY <1>5
  <2>2. OneStage'
    BY <1>1, <1>3, <1>5, <2>1 DEF OneStage
  <2>3. ByItself'
    BY <1>2, <1>3 DEF ByItself, Conf
  <2> QED BY <1>2, <2>2, <2>3 DEF OnTrack
<1>7. ~stale' => ht = "idle" /\ BagToSet(timers) = {}
  BY <1>1, BagOfNone DEF AtWork
<1>8. Answers'
  BY <1>1, <1>2, <1>5, <1>7 DEF Answers, Answered
<1>9. Down' /\ Started'
  BY <1>1, <1>7 DEF Down, Started
<1>10. Opened'
  <2>1. /\ \A p \in Conf, ch \in Chans : <<p, ch>> \notin D
        /\ \A p \in Conn : <<p, "intr">> \notin D
    BY DEF Conf, Conn
  <2> HIDE DEF D
  <2> QED BY <1>1, <1>2, <2>1 DEF Opened
<1> QED BY <1>2, <1>4, <1>6, <1>8, <1>9, <1>10 DEF SessionIInv

LEMMA DisconnectHolds ==
  ASSUME SessionIInv, Disconnect
  PROVE  SessionIInv'
<1>1. /\ up' = FALSE /\ flags' = {} /\ type' = "none" /\ known' = {}
      /\ sdp_state' = 0 /\ sdp' = NoBuf /\ pnp' = NoBuf /\ due' = EmptyBag
      /\ BagToSet(timers') \subseteq {"gone"} /\ (BagToSet(timers) = {} => BagToSet(timers') = {})
      /\ stale' = AtWork /\ UNCHANGED ht
  BY DEF Disconnect, BagToSet
<1>2. Owed' = {}
  BY <1>1, BagOfNone DEF Owed
<1>3. ~stale' => ht = "idle" /\ BagToSet(timers) = {}
  BY <1>1, BagOfNone DEF AtWork
<1>4. SessionTypes'
  BY <1>1, <1>2, BufferTypes DEF SessionIInv, SessionTypes, Owed
<1>5. OnTrack' /\ Answers'
  BY <1>1 DEF OnTrack, Answers
<1>6. Down' /\ Opened' /\ Started'
  BY <1>1, <1>2, <1>3 DEF Down, Opened, Started
<1> QED BY <1>2, <1>4, <1>5, <1>6 DEF SessionIInv

LEMMA ExtraKeeps ==
  ASSUME SessionIInv, NEW p \in {"conn_req", "conf_req"}, NEW ch \in Chans, PeerExtra(p, ch)
  PROVE  SessionIInv'
<1>1. /\ up /\ due' = (due (+) SetToBag({<<p, ch>>})) /\ odd' = TRUE
      /\ p = "conf_req" => ch \in known
      /\ UNCHANGED <<up, flags, type, known, sdp_state, sdp, pnp, timers, ht, lateName, stale, initFor>>
  BY DEF PeerExtra, Set, bufVars, taskVars
<1>2. Owed' = Owed \cup {<<p, ch>>}
  BY <1>1, BagOfNone DEF Owed, BagToSet, (+)
<1>3. Owed' \subseteq Tokens
  BY <1>2 DEF SessionIInv, Tokens, Conn, Conf
<1>4. SessionTypes'
  BY <1>1, <1>3, TokensTyped DEF SessionIInv, SessionTypes, Owed
<1>5. OnTrack' /\ Answers' /\ Down' /\ Started'
  BY <1>1 DEF SessionIInv, OnTrack, Answers, Down, Started
<1>6. Opened'
  BY <1>1, <1>2 DEF SessionIInv, Opened, Conf
<1> QED BY <1>3, <1>4, <1>5, <1>6 DEF SessionIInv

(***************************************************************************)
(* bt_host_task and the timers: the bag and the channels stay.             *)
(***************************************************************************)
LEMMA TaskFrame ==
  ASSUME SessionIInv, SameMarks,
         UNCHANGED <<due, sdp_state, up, odd, known, type, stale, lateName>>
  PROVE  Owed' = Owed /\ Main' = Main /\ Owed' \subseteq Tokens /\ OnTrack' /\ Opened'
<1>1. Owed' = Owed
  BY DEF Owed
<1>2. Main' = Main
  BY <1>1, SameMarking DEF Main
<1>3. OnTrack'
  BY TrackFrame DEF SessionIInv
<1> QED BY <1>1, <1>2, <1>3 DEF SessionIInv, Opened

LEMMA TaskKeeps ==
  ASSUME SessionIInv, HostTask
  PROVE  SessionIInv'
<1>1. UNCHANGED <<due, sdp_state, up, odd, known, type, stale, lateName>> /\ SameMarks
  <2>1. UNCHANGED <<due, sdp_state, up, odd, known, type, stale, lateName>>
    BY DEF HostTask, HtTest, HtPnp, HtSdp, HtInit, HtClear, bufVars, sessionHist
  <2>2. SameMarks
    BY DEF HostTask, HtTest, HtPnp, HtSdp, HtInit, HtClear, HidInit, SameMarks, Known
  <2> QED BY <2>1, <2>2
<1>2. Owed' = Owed /\ Main' = Main /\ Owed' \subseteq Tokens /\ OnTrack' /\ Opened'
  BY <1>1, TaskFrame
<1>3. SessionTypes /\ Answers /\ Down /\ Started
  BY DEF SessionIInv
<1>4. CASE HtTest
  <2>1. /\ ht = "idle" /\ up /\ "sdp_data" \in flags /\ ht' = "pnp"
        /\ UNCHANGED <<flags, sdp, pnp, timers, initFor>>
    BY <1>4 DEF HtTest, bufVars
  <2>2. SessionTypes'
    BY <1>1, <1>2, <1>3, <2>1 DEF SessionTypes, Owed
  <2>3. Answers' /\ Down' /\ Started'
    BY <1>1, <1>2, <1>3, <2>1 DEF Answers, Answered, Service, Information, Down, Started
  <2> QED BY <1>2, <2>2, <2>3 DEF SessionIInv
<1>5. CASE HtPnp \/ HtSdp
  <2>1. /\ ht \in {"pnp", "sdp"} /\ ht' \in {"sdp", "init"} /\ UNCHANGED <<flags, timers, initFor>>
        /\ sdp' \in {sdp, Freed(sdp)} /\ pnp' \in {pnp, Freed(pnp)}
    BY <1>5 DEF HtPnp, HtSdp
  <2>2. SessionTypes'
    BY <1>1, <1>2, <1>3, <2>1, BufferTypes DEF SessionTypes, Owed
  <2>3. Answers'
    <3>1. SUFFICES ASSUME up, ~odd, ~stale PROVE Answered'
      BY <1>1 DEF Answers
    <3>2. "sdp_data" \in flags /\ Main = {}
      BY <1>3, <2>1, <3>1 DEF Answers, Answered
    <3>3. <<"svc", "-">> \notin Owed /\ <<"pnp", "-">> \notin Owed
      BY <3>2 DEF Main, Beside, Conf
    <3> QED BY <1>2, <2>1, <3>2, <3>3 DEF Answered
  <2>4. Down' /\ Started'
    BY <1>1, <1>2, <1>3, <2>1 DEF Down, Started
  <2> QED BY <1>2, <2>2, <2>3, <2>4 DEF SessionIInv
<1>6. CASE HtInit
  <2>1. ht = "init" /\ ht' = "clear" /\ UNCHANGED <<sdp, pnp>>
    BY <1>6 DEF HtInit, bufVars
  <2>2. \/ UNCHANGED <<flags, timers, initFor>>
        \/ /\ "intr_ready" \in flags /\ flags \subseteq flags' /\ flags' \subseteq flags \cup {"init_done"}
           /\ flags' \subseteq Flags /\ BagToSet(timers') \subseteq {"here", "gone"} /\ initFor' = type
    <3>1. (UNCHANGED <<flags, timers, initFor>>) \/ ("intr_ready" \in flags /\ HidInit(flags))
      BY <1>6, Zenon DEF HtInit
    <3> QED BY <1>3, <3>1, InitRuns DEF SessionTypes
  <2>3. SessionTypes'
    <3>1. flags' \subseteq Flags /\ BagToSet(timers') \subseteq {"here", "gone"}
      BY <1>3, <2>2 DEF SessionTypes
    <3> QED BY <1>1, <1>2, <1>3, <2>1, <3>1 DEF SessionTypes, Owed
  <2>4. "sdp_data" \in flags' <=> "sdp_data" \in flags
    BY <2>2
  <2>5. Answers'
    BY <1>1, <1>2, <1>3, <2>1, <2>4 DEF Answers, Answered, Service, Information
  <2>6. Down' /\ Started'
    BY <1>1, <1>2, <1>3, <2>1, <2>2 DEF Down, Started
  <2> QED BY <1>2, <2>3, <2>5, <2>6 DEF SessionIInv
<1>7. CASE HtClear
  <2>1. /\ ht = "clear" /\ ht' = "idle" /\ flags' = flags \ {"sdp_data"}
        /\ UNCHANGED <<sdp, pnp, timers, initFor>>
    BY <1>7 DEF HtClear, bufVars
  <2>2. SessionTypes'
    BY <1>1, <1>2, <1>3, <2>1 DEF SessionTypes, Owed
  <2>3. Answers'
    BY <1>1, <1>2, <1>3, <2>1 DEF Answers, Answered, Service, Information
  <2>4. Down' /\ Started'
    BY <1>1, <1>2, <1>3, <2>1 DEF Down, Started
  <2> QED BY <1>2, <2>2, <2>3, <2>4 DEF SessionIInv
<1> QED BY <1>4, <1>5, <1>6, <1>7 DEF HostTask

LEMMA TimerKeeps ==
  ASSUME SessionIInv, NEW t \in {"here", "gone"}, InitTimer(t)
  PROVE  SessionIInv'
<1>1. /\ t \in BagToSet(timers) /\ BagToSet(timers') \subseteq BagToSet(timers)
      /\ flags' = flags \cup {"init_done"}
      /\ UNCHANGED <<due, sdp_state, up, odd, known, type, stale, lateName, sdp, pnp, ht, initFor>>
  BY DEF InitTimer, bufVars, sessionHist, BagIn, BagToSet, Set, SetToBag, (-)
<1>2. SameMarks
  BY <1>1 DEF SameMarks, Known
<1>3. Owed' = Owed /\ Main' = Main /\ Owed' \subseteq Tokens /\ OnTrack' /\ Opened'
  BY <1>1, <1>2, TaskFrame
<1>4. SessionTypes /\ Answers /\ Down /\ Started
  BY DEF SessionIInv
<1>5. SessionTypes'
  BY <1>1, <1>3, <1>4 DEF SessionTypes, Owed, Flags
<1>6. Answers' /\ Down' /\ Started'
  BY <1>1, <1>3, <1>4 DEF Answers, Answered, Service, Information, Down, Started
<1> QED BY <1>3, <1>5, <1>6 DEF SessionIInv

LEMMA InitSession == SessionInit => SessionIInv
<1> SUFFICES ASSUME SessionInit PROVE SessionIInv
  OBVIOUS
<1>1. Owed = {} /\ BagToSet(timers) = {}
  BY BagOfNone DEF SessionInit, Owed
<1>2. SessionTypes
  BY <1>1, BufferTypes DEF SessionInit, SessionTypes, Owed
<1>3. OnTrack /\ Answers /\ Down /\ Opened /\ Started
  BY <1>1 DEF SessionInit, OnTrack, Answers, Down, Opened, Started
<1> QED BY <1>1, <1>2, <1>3 DEF SessionIInv

LEMMA NextSession == SessionIInv /\ [SessionNext]_sessionVars => SessionIInv'
<1> SUFFICES ASSUME SessionIInv, [SessionNext]_sessionVars PROVE SessionIInv'
  OBVIOUS
<1>1. ASSUME NEW page \in BOOLEAN, Connect(page) PROVE SessionIInv'
  BY <1>1, ConnectHolds
<1>2. CASE Disconnect
  BY <1>2, DisconnectHolds
<1>3. CASE Arrives
  <2>1. ASSUME NEW t \in Types, NameDone(t) PROVE SessionIInv'
    BY <2>1, NameRest
  <2>2. ASSUME NEW err \in BOOLEAN, AuthComplete(err) PROVE SessionIInv'
    BY <2>2, AuthRest
  <2>3. ASSUME NEW ch \in Chans, ConnReq(ch) \/ \E err \in BOOLEAN : ConnRsp(ch, err)
        PROVE  SessionIInv'
    BY <2>3, ConnRest
  <2>4. ASSUME NEW ch \in Chans, NEW p \in Conf, Configured(p, ch) PROVE SessionIInv'
    BY <2>4, ConfiguredRest
  <2>5. ASSUME NEW what \in {"svc", "pnp"}, NEW final \in BOOLEAN, SdpRsp(what, final)
        PROVE  SessionIInv'
    BY <2>5, SdpRest
  <2> QED BY <1>3, <2>1, <2>2, <2>3, <2>4, <2>5 DEF Arrives, Conf
<1>4. CASE HostTask
  BY <1>4, TaskKeeps
<1>5. CASE TimerTask
  BY <1>5, TimerKeeps DEF TimerTask
<1>6. ASSUME NEW p \in {"conn_req", "conf_req"}, NEW ch \in Chans, PeerExtra(p, ch)
      PROVE  SessionIInv'
  BY <1>6, ExtraKeeps
<1>7. CASE UNCHANGED sessionVars
  <2>1. UNCHANGED <<due, sdp_state, up, odd, known, type, stale, lateName>> /\ SameMarks
    BY <1>7 DEF sessionVars, bufVars, sessionHist, SameMarks
  <2>2. Owed' = Owed /\ Main' = Main /\ Owed' \subseteq Tokens /\ OnTrack' /\ Opened'
    BY <2>1, TaskFrame
  <2>3. UNCHANGED <<flags, sdp, pnp, timers, ht, initFor>>
    BY <1>7 DEF sessionVars, bufVars, taskVars
  <2>4. SessionTypes' /\ Answers' /\ Down' /\ Started'
    BY <2>1, <2>2, <2>3
       DEF SessionIInv, SessionTypes, Owed, Answers, Answered, Service, Information, Down, Started
  <2> QED BY <2>2, <2>4 DEF SessionIInv
<1> QED BY <1>1, <1>2, <1>3, <1>4, <1>5, <1>6, <1>7 DEF SessionNext

(* The strengthening says what the run checks. *)
LEMMA SessionImplies == SessionIInv => SessionSound /\ InitSound
<1> SUFFICES ASSUME SessionIInv PROVE SessionSound /\ InitSound
  OBVIOUS
<1>1. SdpSound
  <2>1. SUFFICES ASSUME "sdp_data" \in flags, ht \in {"idle", "pnp"}, ~odd, ~stale
                 PROVE  Service /\ Information
    BY DEF SdpSound, Service, Information
  <2>2. up
    BY <2>1 DEF SessionIInv, Down
  <2> QED BY <2>1, <2>2 DEF SessionIInv, Answers, Answered
<1>2. InitSound
  BY DEF SessionIInv, Opened, Started, InitSound
<1> QED BY <1>1, <1>2 DEF SessionIInv, SessionSound

(* In whatever order a peer answers, and whoever had the slot before,      *)
(* bt_host_task parses what was asked for.                                 *)
THEOREM AnswersParsed == SessionSpec => []SessionSound
<1>1. SessionSpec => []SessionIInv
  BY InitSession, NextSession, PTL DEF SessionSpec
<1> QED BY <1>1, SessionImplies, PTL

(* A controller that counts as initialised has its channels and was        *)
(* initialised as what it is.                                              *)
THEOREM DoneIsSound == SessionSpec => []InitSound
<1>1. SessionSpec => []SessionIInv
  BY InitSession, NextSession, PTL DEF SessionSpec
<1> QED BY <1>1, SessionImplies, PTL
=============================================================================
