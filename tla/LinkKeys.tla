------------------------------ MODULE LinkKeys ------------------------------
(***************************************************************************)
(* The link keys of bluetooth/host.c: one ring of BR/EDR keys and one of   *)
(* LE keys, each kept in RAM and saved as a whole file on every change.    *)
(* A save opens the file for writing, which truncates it, and then writes  *)
(* the ring; the power can go in between.                                  *)
(*                                                                         *)
(* All changes are made by the Bluetooth callback, one at a time.  The     *)
(* boot loads both files before the controller is started.                 *)
(***************************************************************************)
EXTENDS Naturals

CONSTANTS
  BrPeers, LePeers, \* controllers
  Sw2Peers,         \* the LE ones that store their key as Switch 2 controllers
  NoPeer,           \* a zero address
  N,                \* entries of a ring
  Faults,           \* file operations may fail
  MaxPair,          \* bound: pairings of a controller
  MaxCut            \* bound: restarts

ASSUME LinkKeysAssumption ==
  /\ BrPeers \cap LePeers = {} /\ Sw2Peers \subseteq LePeers
  /\ NoPeer \notin BrPeers \cup LePeers
  /\ N \in Nat /\ N > 1
  /\ Faults \in BOOLEAN
  /\ MaxPair \in Nat /\ MaxCut \in Nat

Kinds == {"br", "le"}
Peers == BrPeers \cup LePeers
Kind(a) == IF a \in LePeers THEN "le" ELSE "br"

(* The key of a pairing, or its diversifier, is the controller and the     *)
(* number of the pairing.                                                  *)
NoKey == <<NoPeer, 0>>   \* zero bytes
Torn  == <<NoPeer, 1>>   \* a part of a key
Issued(a, n) == <<a, n>>
KeySet == {NoKey, Torn} \cup (Peers \X (1..MaxPair))

Entry(a, key, ident) == [addr |-> a, key |-> key, ident |-> ident]
Empty == Entry(NoPeer, NoKey, NoKey)
ZeroRing == [index |-> 0, keys |-> [i \in 0..(N - 1) |-> Empty]]

VARIABLES
  ring,    \* bt_host_link_keys and bt_host_le_link_keys
  file,    \* what loading the file of each would give
  exists,  \* the kinds whose file exists
  phase,   \* the kind the boot loads next, then "run"
  saving,  \* the kind whose file is open and truncated, or "none"
  half,    \* LE controllers between ENCRYPT_INFO and MASTER_IDENT
  bond,    \* the number of each controller's last pairing
  cuts,    \* bound
  last,    \* history: the peer of the last store in each ring
  behind,  \* history: the file was not written since the last change
  lost,    \* history: the ring was lost while its file was behind
  evicted, \* history: an entry was given to another peer
  midway,  \* history: one was taken from a peer in the middle of its pairing
  reset    \* history: each file's last factory reset, see ResetForgets

histVars == <<last, behind, lost, evicted, midway, reset>>
vars == <<ring, file, exists, phase, saving, half, bond, cuts, histVars>>
-----------------------------------------------------------------------------
Matches(r, a) == {i \in 0..(N - 1) : r.keys[i].addr = a}
Holds(r, a) == Matches(r, a) # {}

FindIndex(r, a) == r.index  \* mutant: the old entry of the peer is left

(* The loop takes the last entry that matches, else the one at the index.  *)
Find(r, a) ==
  IF Holds(r, a)
    THEN CHOOSE i \in Matches(r, a) : \A j \in Matches(r, a) : j <= i
    ELSE r.index

AdvanceOnFound(r, i) ==  \* mutant: the condition is reversed
  IF i = r.index THEN r.index ELSE IF r.index + 1 = N THEN 0 ELSE r.index + 1
Advance(r, i) ==
  IF i # r.index THEN r.index ELSE IF i + 1 = N THEN 0 ELSE i + 1

Put(r, i, e) == [index |-> Advance(r, i), keys |-> [r.keys EXCEPT ![i] = e]]

Cleared(e) == Empty

Without(r, a) ==
  [index |-> r.index,
   keys  |-> [i \in 0..(N - 1) |->
                IF r.keys[i].addr = a THEN Cleared(r.keys[i]) ELSE r.keys[i]]]

(* What an interrupted write leaves: the index, whole entries, one entry   *)
(* in part, and zeroes where nothing is read.                              *)
Prefix(r, n, e) ==
  [index |-> r.index,
   keys  |-> [i \in 0..(N - 1) |-> IF i < n THEN r.keys[i] ELSE IF i = n THEN e ELSE Empty]]

CutEntry(e) ==
  IF e = Empty THEN {Empty}
  ELSE {Empty, Entry(e.addr, Torn, NoKey), Entry(e.addr, e.key, Torn)}

Partial(r) ==
  {ZeroRing} \cup UNION {{Prefix(r, n, e) : e \in CutEntry(r.keys[n])} : n \in 0..(N - 1)}

Open(k) ==  \* fopen "wb" creates or truncates the file
  /\ file' = [file EXCEPT ![k] = ZeroRing]
  /\ exists' = exists \cup {k}
  /\ saving' = k

(* A change of the ring is saved; the callers do not look at the result.   *)
Save(k, r) ==
  /\ ring' = [ring EXCEPT ![k] = r]
  /\ reset' = [reset EXCEPT ![k] = "no"]
  /\ \/ Open(k) /\ UNCHANGED behind
     \/ /\ Faults
        /\ behind' = [behind EXCEPT ![k] = TRUE]
        /\ UNCHANGED <<file, exists, saving>>

Init ==
  /\ ring = [k \in Kinds |-> ZeroRing]
  /\ file = [k \in Kinds |-> ZeroRing] /\ exists = {}
  /\ phase = "br" /\ saving = "none"
  /\ half = {} /\ bond = [a \in Peers |-> 0] /\ cuts = 0
  /\ last = [k \in Kinds |-> NoPeer]
  /\ behind = [k \in Kinds |-> FALSE] /\ lost = [k \in Kinds |-> FALSE]
  /\ evicted = [k \in Kinds |-> FALSE] /\ midway = FALSE
  /\ reset = [k \in Kinds |-> "no"]
-----------------------------------------------------------------------------
(* fwrite and fclose; the result of the write is not looked at.            *)
WriteNothing ==  \* mutant: closed without the write
  /\ saving # "none"
  /\ behind' = [behind EXCEPT ![saving] = FALSE]
  /\ saving' = "none"
  /\ UNCHANGED <<ring, file, exists, phase, half, bond, cuts, last, lost, evicted, midway, reset>>

Write ==
  /\ saving # "none"
  /\ \/ /\ file' = [file EXCEPT ![saving] = ring[saving]]
        /\ behind' = [behind EXCEPT ![saving] = FALSE]
     \/ /\ Faults
        /\ \E r \in Partial(ring[saving]) : file' = [file EXCEPT ![saving] = r]
        /\ behind' = [behind EXCEPT ![saving] = TRUE]
  /\ saving' = "none"
  /\ UNCHANGED <<ring, exists, phase, half, bond, cuts, last, lost, evicted, midway, reset>>

(* A missing file is created; one that is short fills a part of the ring.  *)
Load(k) ==
  /\ phase = k /\ saving = "none"
  /\ phase' = IF k = "br" THEN "le" ELSE "run"
  /\ \/ /\ k \notin exists
        /\ Open(k)
        /\ UNCHANGED <<ring, behind>>
     \/ /\ k \in exists
        /\ ring' = [ring EXCEPT ![k] = file[k]]
        /\ UNCHANGED <<file, exists, saving, behind>>
     \/ /\ Faults  \* neither opened for writing nor for reading
        /\ behind' = [behind EXCEPT ![k] = TRUE]
        /\ UNCHANGED <<ring, file, exists, saving>>
  /\ UNCHANGED <<half, bond, cuts, last, lost, evicted, midway, reset>>

Ready == phase = "run" /\ saving = "none"

Stored(k, i, a) ==
  /\ last' = [last EXCEPT ![k] = a]
  /\ evicted' = [evicted EXCEPT ![k] = @ \/ ring[k].keys[i].addr \notin {a, NoPeer}]
  /\ midway' = (midway \/ (k = "le" /\ ring[k].keys[i].addr \in half \ {a}))

NewPairing(a) == bond[a] < MaxPair /\ bond' = [bond EXCEPT ![a] = @ + 1]

(* BT_HCI_EVT_LINK_KEY_NOTIFY *)
StoreLinkKey(a) ==
  /\ Ready /\ NewPairing(a)
  /\ LET i == Find(ring["br"], a) IN
       /\ Save("br", Put(ring["br"], i, Entry(a, Issued(a, bond'[a]), NoKey)))
       /\ Stored("br", i, a)
  /\ UNCHANGED <<phase, half, cuts, lost>>

(* BT_SMP_CMD_ENCRYPT_INFO, and the new key of a Switch 2 controller, to   *)
(* which no diversifier belongs.                                           *)
StoreLtk(a) ==
  /\ Ready /\ NewPairing(a)
  /\ half' = IF a \in Sw2Peers THEN half ELSE half \cup {a}
  /\ LET i == Find(ring["le"], a) IN
       /\ Save("le", Put(ring["le"], i,
                         Entry(a, Issued(a, bond'[a]), ring["le"].keys[i].ident)))
       /\ Stored("le", i, a)
  /\ UNCHANGED <<phase, cuts, lost>>

(* BT_SMP_CMD_MASTER_IDENT *)
StoreIdent(a) ==
  /\ Ready /\ a \in half
  /\ half' = half \ {a}
  /\ LET i == Find(ring["le"], a) IN
       /\ Save("le", Put(ring["le"], i,
                         Entry(a, ring["le"].keys[i].key, Issued(a, bond[a]))))
       /\ Stored("le", i, a)
  /\ UNCHANGED <<phase, bond, cuts, lost>>

LinkDrops(a) ==  \* between the two
  /\ a \in half /\ Ready
  /\ half' = half \ {a}
  /\ UNCHANGED <<ring, file, exists, phase, saving, bond, cuts, histVars>>

(* BT_HCI_EVT_ENCRYPT_CHANGE with an error: the entry is cleared, and the  *)
(* file saved whether there was one or not.                                *)
ClearLtk(a) ==
  /\ Ready /\ a \notin half
  /\ Save("le", Without(ring["le"], a))
  /\ last' = [last EXCEPT !["le"] = IF @ = a THEN NoPeer ELSE @]
  /\ UNCHANGED <<phase, half, bond, cuts, lost, evicted, midway>>

RemoveNot(k) ==  \* mutant: the name of the file is one of those to keep
  /\ Ready
  /\ reset' = [reset EXCEPT ![k] = "removed"]
  /\ UNCHANGED <<ring, file, exists, phase, saving, half, bond, cuts, last, behind, lost,
                 evicted, midway>>

(* fs_reset of the factory reset, which goes on for a second before it     *)
(* restarts; it takes the files one by one.                                *)
Remove(k) ==
  /\ Ready
  /\ file' = [file EXCEPT ![k] = ZeroRing]
  /\ exists' = exists \ {k}
  /\ reset' = [reset EXCEPT ![k] = "removed"]
  /\ UNCHANGED <<ring, phase, saving, half, bond, cuts, last, behind, lost, evicted, midway>>

(* A power cut at any time, or esp_restart. *)
Restart ==
  /\ cuts < MaxCut /\ cuts' = cuts + 1
  /\ IF saving = "none"
       THEN UNCHANGED file
       ELSE \E r \in Partial(ring[saving]) : file' = [file EXCEPT ![saving] = r]
  /\ ring' = [k \in Kinds |-> ZeroRing]
  /\ phase' = "br" /\ saving' = "none" /\ half' = {}
  /\ last' = [k \in Kinds |-> NoPeer]
  /\ lost' = [k \in Kinds |-> lost[k] \/ behind[k] \/ saving = k]
  /\ behind' = [k \in Kinds |-> FALSE]
  /\ reset' = [k \in Kinds |-> IF reset[k] = "removed" THEN "fresh" ELSE reset[k]]
  /\ UNCHANGED <<exists, bond, evicted, midway>>

Next ==
  \/ Write \/ Restart
  \/ \E k \in Kinds : Load(k) \/ Remove(k)
  \/ \E a \in BrPeers : StoreLinkKey(a)
  \/ \E a \in LePeers : StoreLtk(a) \/ StoreIdent(a) \/ LinkDrops(a) \/ ClearLtk(a)

Spec == Init /\ [][Next]_vars
-----------------------------------------------------------------------------
EntrySet == [addr : Peers \cup {NoPeer}, key : KeySet, ident : KeySet]
RingSet  == [index : 0..(N - 1), keys : [0..(N - 1) -> EntrySet]]

(* Every variable stays in its domain: the index is in the ring whatever   *)
(* a file was left with.                                                   *)
TypeOK ==
  /\ ring \in [Kinds -> RingSet]
  /\ file \in [Kinds -> RingSet] /\ exists \subseteq Kinds
  /\ phase \in Kinds \cup {"run"} /\ saving \in Kinds \cup {"none"}
  /\ half \subseteq LePeers /\ bond \in [Peers -> 0..MaxPair] /\ cuts \in 0..MaxCut
  /\ last \in [Kinds -> Peers \cup {NoPeer}]
  /\ behind \in [Kinds -> BOOLEAN] /\ lost \in [Kinds -> BOOLEAN]
  /\ evicted \in [Kinds -> BOOLEAN] /\ midway \in BOOLEAN
  /\ reset \in [Kinds -> {"no", "removed", "fresh"}]

Unique(r) ==
  \A i, j \in 0..(N - 1) : r.keys[i].addr = r.keys[j].addr /\ r.keys[i].addr # NoPeer => i = j

(* A peer never has two entries, in RAM or in what a cut left of a file,   *)
(* whatever was cleared and evicted: a lookup cannot find an old key       *)
(* beside the new one.                                                     *)
UniqueEntry ==
  \A k \in Kinds : Unique(ring[k]) /\ Unique(file[k])

(* The peer that paired last is not the one the next pairing evicts: two   *)
(* controllers that pair in turn never push each other out.                *)
LastKept ==
  [][\A k \in Kinds : NoPeer \notin {last[k], last'[k]} /\ Holds(ring[k], last[k])
       => Holds(ring'[k], last[k])]_vars

(* The diversifier of an entry is the peer's own as long as no entry was   *)
(* taken over: store_le_ltk leaves in it what the evicted peer had.        *)
IdentOwn ==
  \A i \in 0..(N - 1) :
    LET entry == ring["le"].keys[i] IN
    entry.addr # NoPeer /\ ~evicted["le"] => entry.ident \in {NoKey, Torn} \cup ({entry.addr} \X (1..MaxPair))

(* A key that is looked up is the one the peer has, and not an older one   *)
(* or one of another peer, unless the ring was lost before it was written  *)
(* or so many peers paired at once that one was evicted half paired.  A    *)
(* save that failed is made good by the next one.  Its diversifier is not  *)
(* another peer's either.                                                  *)
KeyAgreement ==
  /\ IdentOwn
  /\ phase = "run" =>
       \A k \in Kinds : \A i \in 0..(N - 1) :
         LET entry == ring[k].keys[i] IN
         entry.addr # NoPeer /\ ~lost[k] /\ ~midway
           => entry.key = Issued(entry.addr, bond[entry.addr])

(* At rest the file has what the ring has, unless the last save failed or  *)
(* a factory reset removed it.                                             *)
FileCurrent ==
  Ready => \A k \in Kinds : behind[k] \/ reset[k] = "removed" \/ file[k] = ring[k]

(* After a factory reset and its restart no peer is known, unless a key    *)
(* was stored between the removal of the file and the restart, which       *)
(* writes back every old one ("no"), or pairing began again.               *)
ResetForgets ==
  \A k \in Kinds : reset[k] = "fresh" => \A a \in Peers : ~Holds(ring[k], a)
=============================================================================
