---------------------------- MODULE WiredProofs ----------------------------
(***************************************************************************)
(* Wired for any channels, banks, ports and settings: what each driver     *)
(* promises holds along every run of the adapter.  Only one driver runs,   *)
(* so each of them has an inductive invariant of its own, kept by its own  *)
(* steps and by the steps of the others, which leave its state alone.      *)
(***************************************************************************)
EXTENDS Wired, FiniteSetTheorems, TLAPS

(* The pak the driver last compared the configuration with                *)
CtrlPak(c) ==
  CASE ctrl_acc_mode[c] = "mem" -> <<"mem", (c + ctrl_mem_banksel) % 4>>
    [] ctrl_acc_mode[c] = "rumble" -> <<"rumble", 0>>
    [] OTHER -> Nsi!Empty

(* What the console has seen in a channel is that pak, or a notice is      *)
(* counting down; before the first command it has seen nothing.            *)
Noticed ==
  \A c \in Channels :
    IF ctrl_init THEN told[c] \in {Nsi!Unknown, Nsi!Empty, CtrlPak(c)} \/ ctrl_acc_update[c] > 0
    ELSE told[c] = Nsi!Unknown

Seen == told = [c \in Channels |-> told[c]]

NsiIInv == Nsi!TypeOK /\ Seen /\ Nsi!NoSilentSwap /\ Noticed

LEMMA NsiToldOrDue == NsiIInv => Nsi!NsiInv
<1> SUFFICES ASSUME NsiIInv PROVE Nsi!ToldOrDue
  BY DEF NsiIInv, Nsi!NsiInv
<1> SUFFICES ASSUME NEW c \in Channels, banksel = ctrl_mem_banksel, acc_mode[c] = ctrl_acc_mode[c]
             PROVE  told[c] \in {Nsi!Unknown, Nsi!Empty, Nsi!Pak(c)} \/ ctrl_acc_update[c] > 0
  BY DEF Nsi!ToldOrDue
<1>1. CtrlPak(c) = Nsi!Pak(c)
  BY DEF CtrlPak, Nsi!Pak
<1> QED BY <1>1 DEF NsiIInv, Noticed

LEMMA NsiInit == Nsi!Init => NsiIInv
<1> SUFFICES ASSUME Nsi!Init PROVE NsiIInv
  OBVIOUS
<1>1. acc_mode \in [Channels -> Nsi!Modes] /\ dev_mode \in [Channels -> Nsi!Devs] /\ banksel \in Banks
  BY DEF Nsi!Init, Nsi!Devs
<1>2. ctrl_acc_mode \in [Channels -> Nsi!Modes] /\ ctrl_acc_update \in [Channels -> 0..Countdown]
  BY WiredAssumption DEF Nsi!Init, Nsi!Modes
<1>3. ctrl_init = FALSE /\ swapped = FALSE /\ changes \in 0..MaxChange
  BY WiredAssumption DEF Nsi!Init
<1>4. Noticed
  BY <1>3 DEF Nsi!Init, Noticed
<1>5. Seen
  BY DEF Nsi!Init, Seen
<1> QED BY <1>1, <1>2, <1>3, <1>4, <1>5 DEF NsiIInv, Nsi!TypeOK, Nsi!NoSilentSwap

(* What n64_isr notices before any command: only a change arms a count.    *)
LEMMA NsiNotices ==
  ASSUME NsiIInv, NEW c \in Channels, Nsi!Notice(c)
  PROVE  /\ Nsi!Noticed(c) \in [Channels -> 0..Countdown]
         /\ ctrl_acc_mode' \in [Channels -> Nsi!Modes] /\ ctrl_init'
         /\ \A d \in Channels :
              \/ Nsi!Noticed(c)[d] = Countdown
              \/ told[d] = Nsi!Unknown
              \/ /\ ctrl_init /\ Nsi!Noticed(c)[d] = ctrl_acc_update[d]
                 /\ ctrl_mem_banksel' = ctrl_mem_banksel /\ ctrl_acc_mode'[d] = ctrl_acc_mode[d]
                 /\ banksel = ctrl_mem_banksel
                 /\ d = c => acc_mode[c] = ctrl_acc_mode[c]
  BY WiredAssumption DEF NsiIInv, Noticed, Nsi!TypeOK, Nsi!Notice, Nsi!Noticed, Nsi!Modes

LEMMA NsiIdentify ==
  ASSUME NsiIInv, NEW c \in Channels, Nsi!Identify(c)
  PROVE  NsiIInv'
<1> DEFINE update == Nsi!Noticed(c)
           status == IF dev_mode[c] # "pad" \/ acc_mode[c] \notin {"mem", "rumble"} \/ update[c] > 1
                     THEN "empty" ELSE IF update[c] = 1 THEN "change" ELSE "occupied"
           seen == status = "occupied" /\ told[c] \notin {Nsi!Unknown, Nsi!Empty}
<1>0. /\ Nsi!Notice(c) /\ UNCHANGED <<acc_mode, dev_mode, banksel, changes>>
      /\ ctrl_acc_update' = IF dev_mode[c] = "pad" /\ acc_mode[c] \in {"mem", "rumble"} /\ update[c] > 0
                            THEN [update EXCEPT ![c] = @ - 1] ELSE update
      /\ told' = [told EXCEPT ![c] = IF status = "empty" THEN Nsi!Empty ELSE IF seen THEN @ ELSE Nsi!Pak(c)]
      /\ swapped' = (swapped \/ (seen /\ told[c] # Nsi!Pak(c)))
  BY DEF Nsi!Identify, Nsi!configVars
<1> HIDE DEF update
<1>1. update \in [Channels -> 0..Countdown]
  BY <1>0, NsiNotices DEF update
<1>2. Nsi!TypeOK'
  <2>1. ctrl_acc_update' \in [Channels -> 0..Countdown]
    BY <1>0, <1>1, WiredAssumption
  <2>2. ctrl_acc_mode' \in [Channels -> Nsi!Modes] /\ ctrl_init' \in BOOLEAN
    BY <1>0, NsiNotices DEF Nsi!Notice
  <2>3. swapped' \in BOOLEAN
    BY <1>0
  <2> QED BY <1>0, <2>1, <2>2, <2>3 DEF NsiIInv, Nsi!TypeOK
<1>3. /\ Seen'
      /\ \A d \in Channels \ {c} : told'[d] = told[d] /\ ctrl_acc_update'[d] = update[d]
      /\ told'[c] = IF status = "empty" THEN Nsi!Empty ELSE IF seen THEN told[c] ELSE Nsi!Pak(c)
  BY <1>0, <1>1 DEF NsiIInv, Seen
<1>4. seen => told[c] = Nsi!Pak(c)
  <2> SUFFICES ASSUME seen PROVE told[c] = Nsi!Pak(c)
    OBVIOUS
  <2>1. update[c] = 0 /\ told[c] # Nsi!Unknown
    BY <1>1
  <2>2. /\ ctrl_init /\ ctrl_acc_update[c] = 0
        /\ banksel = ctrl_mem_banksel /\ acc_mode[c] = ctrl_acc_mode[c]
    BY <1>0, <2>1, NsiNotices, WiredAssumption DEF update
  <2>3. told[c] = CtrlPak(c)
    BY <2>2 DEF NsiIInv, Noticed
  <2> QED BY <2>2, <2>3 DEF CtrlPak, Nsi!Pak
<1>5. ~swapped'
  BY <1>0, <1>4 DEF NsiIInv, Nsi!NoSilentSwap
<1>6. ASSUME NEW d \in Channels \ {c}
      PROVE  told'[d] \in {Nsi!Unknown, Nsi!Empty, CtrlPak(d)'} \/ ctrl_acc_update'[d] > 0
  <2>1. CASE update[d] = Countdown
    BY <1>3, <2>1, WiredAssumption
  <2>2. CASE told[d] = Nsi!Unknown
    BY <1>3, <2>2
  <2>3. CASE /\ ctrl_init /\ update[d] = ctrl_acc_update[d]
             /\ ctrl_mem_banksel' = ctrl_mem_banksel /\ ctrl_acc_mode'[d] = ctrl_acc_mode[d]
    BY <1>3, <2>3 DEF NsiIInv, Noticed, CtrlPak
  <2> QED BY <1>0, <2>1, <2>2, <2>3, NsiNotices DEF update
<1>7. told'[c] \in {Nsi!Unknown, Nsi!Empty, CtrlPak(c)'} \/ ctrl_acc_update'[c] > 0
  <2>1. CASE status = "empty"
    BY <1>3, <2>1
  <2>2. CASE status # "empty"
    <3>1. told'[c] = Nsi!Pak(c)
      BY <1>3, <1>4, <2>2
    <3>2. update[c] # Countdown
      BY <1>1, <2>2, WiredAssumption
    <3>3. banksel = ctrl_mem_banksel' /\ acc_mode[c] = ctrl_acc_mode'[c]
      BY <1>0, <3>2 DEF update, NsiIInv, Nsi!TypeOK, Nsi!Notice, Nsi!Noticed
    <3> QED BY <3>1, <3>3 DEF CtrlPak, Nsi!Pak
  <2> QED BY <2>1, <2>2
<1>8. Noticed'
  BY <1>0, <1>6, <1>7 DEF Noticed, Nsi!Notice
<1> QED BY <1>2, <1>3, <1>5, <1>8 DEF NsiIInv, Nsi!NoSilentSwap
LEMMA NsiPoll ==
  ASSUME NsiIInv, NEW c \in Channels, Nsi!Poll(c) \/ Nsi!Access(c)
  PROVE  NsiIInv'
<1> DEFINE update == Nsi!Noticed(c)
<1>0. /\ Nsi!Notice(c) /\ UNCHANGED <<acc_mode, dev_mode, banksel, changes, told, swapped>>
      /\ \/ ctrl_acc_update' = [update EXCEPT ![c] = IF @ > 1 THEN @ - 1 ELSE @]
         \/ ctrl_acc_update' = update
  BY DEF Nsi!Poll, Nsi!Access, Nsi!configVars
<1> HIDE DEF update
<1>1. update \in [Channels -> 0..Countdown]
  BY <1>0, NsiNotices DEF update
<1>2. /\ ctrl_acc_update' \in [Channels -> 0..Countdown]
      /\ \A d \in Channels : update[d] > 0 => ctrl_acc_update'[d] > 0
  BY <1>0, <1>1, WiredAssumption
<1>3. Nsi!TypeOK' /\ Seen' /\ ~swapped'
  BY <1>0, <1>2, NsiNotices DEF NsiIInv, Nsi!TypeOK, Nsi!Notice, Nsi!NoSilentSwap, Seen
<1>4. ASSUME NEW d \in Channels
      PROVE  told'[d] \in {Nsi!Unknown, Nsi!Empty, CtrlPak(d)'} \/ ctrl_acc_update'[d] > 0
  <2>1. CASE update[d] = Countdown
    BY <1>2, <2>1, WiredAssumption
  <2>2. CASE told[d] = Nsi!Unknown
    BY <1>0, <2>2
  <2>3. CASE /\ ctrl_init /\ update[d] = ctrl_acc_update[d]
             /\ ctrl_mem_banksel' = ctrl_mem_banksel /\ ctrl_acc_mode'[d] = ctrl_acc_mode[d]
    BY <1>0, <1>2, <2>3 DEF NsiIInv, Noticed, CtrlPak
  <2> QED BY <1>0, <2>1, <2>2, <2>3, NsiNotices DEF update
<1>5. Noticed'
  BY <1>0, <1>4 DEF Noticed, Nsi!Notice
<1> QED BY <1>3, <1>5 DEF NsiIInv, Nsi!NoSilentSwap

LEMMA NsiReconfigure ==
  ASSUME NsiIInv, Nsi!Reconfigure
  PROVE  NsiIInv'
<1>1. Nsi!TypeOK'
  BY WiredAssumption DEF NsiIInv, Nsi!TypeOK, Nsi!Reconfigure, Nsi!ctrlVars
<1>2. Noticed' /\ Seen' /\ ~swapped'
  BY DEF NsiIInv, Noticed, Seen, CtrlPak, Nsi!NoSilentSwap, Nsi!Reconfigure, Nsi!ctrlVars
<1> QED BY <1>1, <1>2 DEF NsiIInv, Nsi!NoSilentSwap

LEMMA NsiStep == NsiIInv /\ [Nsi!Next]_n64Vars => NsiIInv'
<1> SUFFICES ASSUME NsiIInv, [Nsi!Next]_n64Vars PROVE NsiIInv'
  OBVIOUS
<1>1. CASE UNCHANGED n64Vars
  BY <1>1 DEF n64Vars, NsiIInv, Nsi!TypeOK, Nsi!NoSilentSwap, Noticed, Seen, CtrlPak
<1> QED BY <1>1, NsiIdentify, NsiPoll, NsiReconfigure DEF Nsi!Next
-----------------------------------------------------------------------------
(* What the console of a Dreamcast set last is what the driver holds, but  *)
(* for a frame that lost bits.                                             *)
MapleIInv ==
  /\ Maple!TypeOK
  /\ \A p \in Ports : unheard[p] \/ rumble_config[p] = now[p]
  /\ Maple!OneBehind

LEMMA MapleInit == Maple!Init => MapleIInv
  BY WiredAssumption DEF Maple!Init, MapleIInv, Maple!TypeOK, Maple!OneBehind

LEMMA MapleSetCondition ==
  ASSUME MapleIInv, NEW p \in Ports, NEW w \in Settings, NEW bad_frame \in BOOLEAN,
         Maple!SetCondition(p, w, bad_frame)
  PROVE  MapleIInv'
<1> DEFINE queued == ~bad_frame /\ acc_rumble[p] /\ Maple!Changed(p, w)
<1>0. /\ given' = IF queued THEN [given EXCEPT ![p] = rumble_config[p]] ELSE given
      /\ rumble_config' = IF bad_frame THEN rumble_config ELSE [rumble_config EXCEPT ![p] = w]
      /\ rumble_timeout_prev' = IF bad_frame THEN rumble_timeout_prev
                                ELSE [rumble_timeout_prev EXCEPT ![p] = w]
      /\ now' = [now EXCEPT ![p] = w]
      /\ before' = IF w = now[p] THEN before ELSE [before EXCEPT ![p] = now[p]]
      /\ unheard' = [unheard EXCEPT ![p] = bad_frame \/ ~acc_rumble[p]
                                            \/ (@ /\ ~(queued /\ rumble_config[p] = now[p]))]
      /\ UNCHANGED <<acc_rumble, rumble_timeout>>
  BY DEF Maple!SetCondition
<1>1. /\ acc_rumble \in [Ports -> BOOLEAN] /\ unheard \in [Ports -> BOOLEAN]
      /\ rumble_config \in [Ports -> Settings] /\ rumble_timeout \in [Ports -> Settings]
      /\ rumble_timeout_prev \in [Ports -> Settings] /\ given \in [Ports -> Settings]
      /\ now \in [Ports -> Settings] /\ before \in [Ports -> Settings]
  BY DEF MapleIInv, Maple!TypeOK
<1>2. Maple!TypeOK'
  BY <1>0, <1>1 DEF Maple!TypeOK
<1>3. ASSUME NEW q \in Ports \ {p}
      PROVE  /\ unheard'[q] \/ rumble_config'[q] = now'[q]
             /\ unheard'[q] \/ given'[q] \in {now'[q], before'[q]}
  BY <1>0, <1>1 DEF MapleIInv, Maple!OneBehind
<1>4. /\ unheard'[p] \/ rumble_config'[p] = now'[p]
      /\ unheard'[p] \/ given'[p] \in {now'[p], before'[p]}
  <2> SUFFICES ASSUME ~unheard'[p]
               PROVE  rumble_config'[p] = now'[p] /\ given'[p] \in {now'[p], before'[p]}
    OBVIOUS
  <2>1. ~bad_frame /\ acc_rumble[p] /\ (unheard[p] => queued /\ rumble_config[p] = now[p])
    BY <1>0, <1>1
  <2>2. rumble_config[p] = now[p]
    BY <2>1 DEF MapleIInv
  <2>3. CASE queued
    BY <1>0, <1>1, <2>1, <2>2, <2>3
  <2>4. CASE ~queued
    <3>1. rumble_config[p] = w /\ ~unheard[p]
      BY <2>1, <2>4 DEF Maple!Changed
    <3> QED BY <1>0, <1>1, <2>1, <2>2, <2>4, <3>1 DEF MapleIInv, Maple!OneBehind
  <2> QED BY <2>3, <2>4
<1> QED BY <1>2, <1>3, <1>4 DEF MapleIInv, Maple!OneBehind

LEMMA MapleStep == MapleIInv /\ [Maple!Next]_dcVars => MapleIInv'
<1> SUFFICES ASSUME MapleIInv, [Maple!Next]_dcVars PROVE MapleIInv'
  OBVIOUS
<1>1. ASSUME NEW p \in Ports, Maple!Configure(p) PROVE MapleIInv'
  BY <1>1 DEF MapleIInv, Maple!TypeOK, Maple!OneBehind, Maple!Configure, Maple!setVars
<1>2. ASSUME NEW p \in Ports, NEW w \in Settings, NEW bad_frame \in BOOLEAN,
             Maple!BlockWrite(p, w, bad_frame)
      PROVE  MapleIInv'
  BY <1>2 DEF MapleIInv, Maple!TypeOK, Maple!OneBehind, Maple!BlockWrite
<1>3. CASE UNCHANGED dcVars
  BY <1>3 DEF dcVars, MapleIInv, Maple!TypeOK, Maple!OneBehind
<1> QED BY <1>1, <1>2, <1>3, MapleSetCondition DEF Maple!Next
-----------------------------------------------------------------------------
(* Genesis.  A port shows another level than the loop saw exactly when it  *)
(* is overlooked; the cycle of a poll follows the level of its port; and   *)
(* an interrupt of core 0 is pending only in a stall it has not answered.  *)
Odd(n) == n \in {1, 3, 5, 7}
Sets == {"high", "low", "low, no directions", "extra", "low, all directions"}

LevelExact ==
  /\ shown \in [SegaIo!PortIds -> Sets]
  /\ \A p \in SegaIo!PortIds : p \in overlooked <=> SegaIo!High(shown[p]) # prev[p]

Cycles ==
  /\ pc # SegaIo!None =>
       /\ SegaIo!High(shown[pc[1]]) <=> Odd(pc[2])
       /\ pc[2] < SegaIo!LastCycle(pc[1]) \/ (pc[2] = SegaIo!LastCycle(pc[1]) /\ ending)
  /\ serve # SegaIo!None =>
       /\ ~ending /\ ~serial
       /\ IF pc = SegaIo!None \/ serve[1] # pc[1] THEN serve[2] = IF cur[serve[1]] THEN 1 ELSE 0
          ELSE serve[2] = pc[2] + 1 /\ cur[serve[1]] # prev[serve[1]]
  /\ serial => pc # SegaIo!None /\ pc[2] = 0 /\ pc[1] \notin overlooked /\ ~ending

Stalls == (pending => lock /\ ~start_var) /\ (lock => ~end_var)

SegaIInv == SegaIo!SegaInv /\ LevelExact /\ Cycles /\ Stalls

LEMMA DevType == dev \in DevPairs => \A p \in SegaIo!PortIds : SegaIo!LastCycle(p) \in {2, 7}
  BY DEF SegaIo!LastCycle

LEMMA ButtonsLevel ==
  ASSUME NEW n \in 0..7
  PROVE  /\ SegaIo!Buttons(n) \in Sets
         /\ SegaIo!High(SegaIo!Buttons(n)) <=> Odd(n)
  BY DEF SegaIo!Buttons, SegaIo!High, Odd, Sets

(* The types, one by one                                                   *)
LEMMA SegaTypes ==
  ASSUME SegaIInv
  PROVE  /\ dev \in DevPairs
         /\ th \in [SegaIo!PortIds -> BOOLEAN] /\ prev \in [SegaIo!PortIds -> BOOLEAN]
         /\ cur \in [SegaIo!PortIds -> BOOLEAN] /\ shown \in [SegaIo!PortIds -> Sets]
         /\ pc = SegaIo!None \/ (pc[1] \in SegaIo!PortIds /\ pc[2] \in 0..7 /\ pc = <<pc[1], pc[2]>> /\ pc # SegaIo!None)
         /\ serve = SegaIo!None \/ (serve[1] \in SegaIo!PortIds /\ serve[2] \in 0..7
                                      /\ serve = <<serve[1], serve[2]>> /\ serve # SegaIo!None)
         /\ overlooked \subseteq SegaIo!PortIds
  BY DEF SegaIInv, SegaIo!SegaInv, SegaIo!TypeOK, LevelExact, SegaIo!None, SegaIo!PortIds

(* What the ports show is right wherever no change was overlooked.         *)
LEMMA ExactShown == LevelExact => SegaIo!LevelShown
  BY DEF LevelExact, SegaIo!LevelShown

LEMMA SegaInit == SegaIo!Init => SegaIInv
<1> SUFFICES ASSUME SegaIo!Init PROVE SegaIInv
  OBVIOUS
<1>1. SegaIo!TypeOK
  BY DEF SegaIo!Init, SegaIo!TypeOK, SegaIo!PortIds
<1>2. LevelExact
  BY DEF SegaIo!Init, LevelExact, Sets, SegaIo!High
<1>3. Cycles
  BY DEF SegaIo!Init, Cycles
<1>4. Stalls /\ SegaIo!StallInPoll /\ SegaIo!HeldInPoll /\ SegaIo!NoStuck
  BY DEF SegaIo!Init, Stalls, SegaIo!StallInPoll, SegaIo!HeldInPoll, SegaIo!NoStuck
<1> QED BY <1>1, <1>2, <1>3, <1>4, ExactShown DEF SegaIInv, SegaIo!SegaInv

(* A sample taken later: acted holds the levels acted upon until then.     *)
LEMMA Resampled ==
  ASSUME NEW acted \in [SegaIo!PortIds -> BOOLEAN], th \in [SegaIo!PortIds -> BOOLEAN],
         shown' \in [SegaIo!PortIds -> Sets], NEW right \in SUBSET SegaIo!PortIds,
         \A p \in SegaIo!PortIds : p \in right <=> SegaIo!High(shown'[p]) # acted[p],
         prev' = th,
         LET missed == {p \in SegaIo!PortIds : th[p] # acted[p]}
         IN  overlooked' = (right \ missed) \cup (missed \ right)
  PROVE  LevelExact' /\ overlooked' \subseteq SegaIo!PortIds /\ prev' \in [SegaIo!PortIds -> BOOLEAN]
<1>1. ASSUME NEW p \in SegaIo!PortIds
      PROVE  p \in overlooked' <=> SegaIo!High(shown'[p]) # th[p]
  <2>1. SegaIo!High(shown'[p]) \in BOOLEAN /\ th[p] \in BOOLEAN /\ acted[p] \in BOOLEAN
    BY DEF SegaIo!High
  <2>2. p \in overlooked' <=> ((p \in right) # (th[p] # acted[p]))
    OBVIOUS
  <2> QED BY <2>1, <2>2
<1> QED BY <1>1 DEF LevelExact, SegaIo!High

(* Core 1 begins and ends a stall, core 0 answers and leaves it.           *)
StallInv == Stalls /\ SegaIo!StallInPoll /\ SegaIo!HeldInPoll /\ SegaIo!NoStuck

LEMMA StallSteps ==
  ASSUME SegaIInv
  PROVE  /\ SegaIo!StallStart /\ lock' = TRUE => StallInv'
         /\ SegaIo!StallEnd /\ lock' = FALSE => StallInv'
         /\ SegaIo!Stalled \/ SegaIo!Released => StallInv'
         /\ UNCHANGED <<lock, core0, pending, start_var, end_var, hasty>> => StallInv'
<1> USE DEF SegaIInv, SegaIo!SegaInv, SegaIo!TypeOK, StallInv, Stalls, SegaIo!StallInPoll,
            SegaIo!HeldInPoll, SegaIo!NoStuck
<1>1. SegaIo!StallStart /\ lock' = TRUE => StallInv'
  BY DEF SegaIo!StallStart, SegaIo!stall
<1>2. SegaIo!StallEnd /\ lock' = FALSE => StallInv'
  BY DEF SegaIo!StallEnd
<1>3. SegaIo!Stalled \/ SegaIo!Released => StallInv'
  BY DEF SegaIo!Stalled, SegaIo!Released, SegaIo!loop
<1> QED BY <1>1, <1>2, <1>3

LEMMA SegaOther ==
  ASSUME SegaIInv, SegaIo!Stalled \/ SegaIo!Released \/ \E p \in SegaIo!PortIds : SegaIo!Toggle(p)
  PROVE  SegaIInv'
<1>1. StallInv'
  BY StallSteps DEF SegaIo!Toggle, SegaIo!loop, SegaIo!stall
<1>2. UNCHANGED <<dev, prev, cur, pc, serve, ending, serial, shown, lock, overlooked>>
  BY DEF SegaIo!Stalled, SegaIo!Released, SegaIo!Toggle, SegaIo!loop, SegaIo!lines
<1>3. LevelExact' /\ Cycles'
  BY <1>2 DEF SegaIInv, LevelExact, Cycles, SegaIo!LastCycle
<1>4. th' \in [SegaIo!PortIds -> BOOLEAN]
  BY SegaTypes DEF SegaIo!Stalled, SegaIo!Released, SegaIo!Toggle, SegaIo!lines
<1>5. /\ pending' \in BOOLEAN /\ start_var' \in BOOLEAN /\ end_var' \in BOOLEAN /\ hasty' \in BOOLEAN
      /\ core0' \in {"runs", "waits"}
  BY DEF SegaIInv, SegaIo!SegaInv, SegaIo!TypeOK, SegaIo!Stalled, SegaIo!Released,
         SegaIo!Toggle, SegaIo!stall
<1>6. SegaIo!TypeOK'
  BY <1>2, <1>4, <1>5 DEF SegaIInv, SegaIo!SegaInv, SegaIo!TypeOK
<1> QED BY <1>1, <1>3, <1>6, ExactShown, PTL DEF SegaIInv, SegaIo!SegaInv, StallInv
LEMMA SegaSample ==
  ASSUME SegaIInv, SegaIo!Sample
  PROVE  SegaIInv'
<1> DEFINE changed == {p \in SegaIo!PortIds : th[p] # prev[p]}
<1>0. /\ serve = SegaIo!None /\ ~ending /\ ~serial /\ th # prev
      /\ cur' = th /\ serve' = SegaIo!Follow(changed)
      /\ UNCHANGED <<dev, th, prev, pc, ending, serial, shown, lock, core0, pending,
                     start_var, end_var, hasty, overlooked>>
  BY DEF SegaIo!Sample, SegaIo!lines, SegaIo!stall
<1>1. changed # {}
  BY <1>0, SegaTypes
<1>2. ASSUME NEW p \in SegaIo!PortIds
      PROVE  /\ SegaIo!Start(p)[1] = p /\ SegaIo!Start(p)[2] = (IF th[p] THEN 1 ELSE 0)
             /\ SegaIo!Start(p) \in SegaIo!PortIds \X (0..7) /\ SegaIo!Start(p) # SegaIo!None
  BY DEF SegaIo!Start, SegaIo!None, SegaIo!PortIds
<1>3. \/ \E p \in SegaIo!PortIds : serve' = SegaIo!Start(p) /\ (pc = SegaIo!None \/ p # pc[1])
      \/ pc # SegaIo!None /\ serve' = <<pc[1], pc[2] + 1>> /\ pc[1] \in changed
  <2>1. CASE pc = SegaIo!None
    BY <1>0, <2>1 DEF SegaIo!Follow, SegaIo!PortIds
  <2>2. CASE pc # SegaIo!None
    <3>1. pc[1] \in SegaIo!PortIds /\ SegaIo!Other(pc[1]) \in SegaIo!PortIds /\ SegaIo!Other(pc[1]) # pc[1]
          /\ SegaIo!PortIds = {pc[1], SegaIo!Other(pc[1])}
      BY <2>2, SegaTypes DEF SegaIo!PortIds, SegaIo!Other
    <3> QED BY <1>0, <1>1, <2>2, <3>1 DEF SegaIo!Follow
  <2> QED BY <2>1, <2>2
<1>4. /\ serve' \in SegaIo!PortIds \X (0..7) /\ serve' # SegaIo!None
      /\ IF pc = SegaIo!None \/ serve'[1] # pc[1] THEN serve'[2] = IF th[serve'[1]] THEN 1 ELSE 0
         ELSE serve'[2] = pc[2] + 1 /\ th[serve'[1]] # prev[serve'[1]]
  <2>1. CASE \E p \in SegaIo!PortIds : serve' = SegaIo!Start(p) /\ (pc = SegaIo!None \/ p # pc[1])
    BY <1>2, <2>1
  <2>2. CASE pc # SegaIo!None /\ serve' = <<pc[1], pc[2] + 1>> /\ pc[1] \in changed
    <3>1. pc[1] \in SegaIo!PortIds /\ pc[2] \in 0..6
      BY <1>0, <2>2, SegaTypes, DevType DEF SegaIInv, Cycles
    <3>2. pc[2] + 1 \in 0..7 /\ serve'[1] = pc[1] /\ serve'[2] = pc[2] + 1
      BY <2>2, <3>1
    <3> QED BY <2>2, <3>1, <3>2 DEF SegaIo!None, SegaIo!PortIds
  <2> QED BY <1>3, <2>1, <2>2
<1>5. Cycles'
  BY <1>0, <1>4 DEF SegaIInv, Cycles, SegaIo!LastCycle
<1>6. LevelExact'
  BY <1>0 DEF SegaIInv, LevelExact
<1>7. SegaIo!TypeOK'
  BY <1>0, <1>4 DEF SegaIInv, SegaIo!SegaInv, SegaIo!TypeOK
<1>8. StallInv'
  BY <1>0, StallSteps
<1> QED BY <1>5, <1>6, <1>7, <1>8, ExactShown, PTL DEF SegaIInv, SegaIo!SegaInv, StallInv

LEMMA SegaTimeout ==
  ASSUME SegaIInv, SegaIo!Timeout
  PROVE  SegaIInv'
<1>0. /\ serve = SegaIo!None /\ ~serial /\ ending' = TRUE
      /\ UNCHANGED <<dev, th, prev, cur, pc, serve, serial, shown, lock, core0, pending,
                     start_var, end_var, hasty, overlooked>>
  BY DEF SegaIo!Timeout, SegaIo!lines, SegaIo!stall
<1>1. Cycles' /\ LevelExact'
  BY <1>0 DEF SegaIInv, Cycles, LevelExact, SegaIo!LastCycle
<1>2. SegaIo!TypeOK'
  BY <1>0 DEF SegaIInv, SegaIo!SegaInv, SegaIo!TypeOK
<1>3. StallInv'
  BY <1>0, StallSteps
<1> QED BY <1>1, <1>2, <1>3, ExactShown, PTL DEF SegaIInv, SegaIo!SegaInv, StallInv

LEMMA SegaNextPoll ==
  ASSUME SegaIInv, SegaIo!NextPoll
  PROVE  SegaIInv'
<1>0. /\ ending /\ SegaIo!StallEnd /\ lock' = FALSE /\ ending' = FALSE /\ pc' = SegaIo!None
      /\ SegaIo!Resample(prev)
      /\ UNCHANGED <<dev, th, cur, serve, serial, shown>>
  BY DEF SegaIo!NextPoll, SegaIo!lines
<1>1. serve = SegaIo!None /\ ~serial
  BY <1>0 DEF SegaIInv, Cycles
<1>2. LevelExact' /\ overlooked' \subseteq SegaIo!PortIds /\ prev' \in [SegaIo!PortIds -> BOOLEAN]
  BY <1>0, <1>1, SegaTypes, Resampled DEF SegaIo!Resample, SegaIInv, LevelExact
<1>3. Cycles'
  BY <1>0, <1>1 DEF Cycles
<1>4. pending' \in BOOLEAN /\ start_var' \in BOOLEAN /\ end_var' \in BOOLEAN /\ hasty' \in BOOLEAN
      /\ core0' \in {"runs", "waits"}
  BY <1>0 DEF SegaIo!StallEnd, SegaIInv, SegaIo!SegaInv, SegaIo!TypeOK
<1>5. SegaIo!TypeOK'
  BY <1>0, <1>2, <1>4 DEF SegaIInv, SegaIo!SegaInv, SegaIo!TypeOK
<1>6. StallInv'
  BY <1>0, StallSteps
<1> QED BY <1>2, <1>3, <1>5, <1>6, ExactShown, PTL DEF SegaIInv, SegaIo!SegaInv, StallInv

LEMMA SegaHandshake ==
  ASSUME SegaIInv, SegaIo!Handshake
  PROVE  SegaIInv'
<1> DEFINE p == pc[1]
<1>0. /\ serial /\ SegaIo!StallEnd /\ lock' = FALSE /\ serial' = FALSE
      /\ UNCHANGED <<dev, th, cur, serve, ending>>
  BY DEF SegaIo!Handshake, SegaIo!lines
<1>1. PICK seen \in BOOLEAN :
        /\ shown' = IF seen THEN [shown EXCEPT ![p] = "high"] ELSE shown
        /\ pc' = IF seen THEN SegaIo!None ELSE pc
        /\ SegaIo!Resample([prev EXCEPT ![p] = seen])
  BY DEF SegaIo!Handshake
<1>2. /\ serve = SegaIo!None /\ pc # SegaIo!None /\ pc[2] = 0 /\ p \in SegaIo!PortIds
      /\ p \notin overlooked /\ ~ending /\ ~SegaIo!High(shown[p])
  BY <1>0, SegaTypes DEF SegaIInv, Cycles, Odd
<1> DEFINE acted == [prev EXCEPT ![p] = seen]
<1>3. acted \in [SegaIo!PortIds -> BOOLEAN] /\ shown' \in [SegaIo!PortIds -> Sets]
  BY <1>1, <1>2, SegaTypes DEF Sets
<1>4. \A q \in SegaIo!PortIds : q \in overlooked <=> SegaIo!High(shown'[q]) # acted[q]
  <2> SUFFICES ASSUME NEW q \in SegaIo!PortIds
               PROVE  q \in overlooked <=> SegaIo!High(shown'[q]) # acted[q]
    OBVIOUS
  <2>1. CASE q = p
    BY <1>1, <1>2, <2>1, SegaTypes DEF SegaIo!High
  <2>2. CASE q # p
    BY <1>1, <1>2, <2>2, SegaTypes DEF SegaIInv, LevelExact
  <2> QED BY <2>1, <2>2
<1>5. LevelExact' /\ overlooked' \subseteq SegaIo!PortIds /\ prev' \in [SegaIo!PortIds -> BOOLEAN]
  BY <1>1, <1>2, <1>3, <1>4, SegaTypes, Resampled DEF SegaIo!Resample
<1>6. Cycles'
  BY <1>0, <1>1, <1>2 DEF SegaIInv, Cycles, SegaIo!LastCycle
<1>7. pending' \in BOOLEAN /\ start_var' \in BOOLEAN /\ end_var' \in BOOLEAN /\ hasty' \in BOOLEAN
      /\ core0' \in {"runs", "waits"}
  BY <1>0 DEF SegaIo!StallEnd, SegaIInv, SegaIo!SegaInv, SegaIo!TypeOK
<1>8. SegaIo!TypeOK'
  BY <1>0, <1>1, <1>5, <1>7 DEF SegaIInv, SegaIo!SegaInv, SegaIo!TypeOK
<1>9. StallInv'
  BY <1>0, StallSteps
<1> QED BY <1>5, <1>6, <1>8, <1>9, ExactShown, PTL DEF SegaIInv, SegaIo!SegaInv, StallInv

(* The loop shows the set of a cycle.  The cycle follows the level of its  *)
(* port, except where it went on counting over an overlooked change.       *)
LEMMA SegaShow ==
  ASSUME SegaIInv, SegaIo!Show
  PROVE  SegaIInv'
<1> DEFINE p == serve[1]
           fresh == pc = SegaIo!None \/ p # pc[1]
           right == IF fresh THEN overlooked \ {p} ELSE overlooked
           acted == [prev EXCEPT ![p] = cur[p]]
<1>0. /\ serve # SegaIo!None /\ SegaIo!StallStart /\ lock' = TRUE
      /\ pc' = serve /\ serve' = SegaIo!None
      /\ serial' <=> dev[p] = "serial" /\ serve[2] = 0
      /\ ending' <=> serve[2] = SegaIo!LastCycle(p)
      /\ serial' \in BOOLEAN /\ ending' \in BOOLEAN
      /\ UNCHANGED <<dev, th, cur>>
  BY DEF SegaIo!Show, SegaIo!lines
<1>1. /\ p \in SegaIo!PortIds /\ serve[2] \in 0..7 /\ ~ending /\ ~serial
      /\ SegaIo!Acted = acted
      /\ shown' = [shown EXCEPT ![p] = SegaIo!Buttons(serve[2])]
  BY <1>0, SegaTypes DEF SegaIInv, Cycles, SegaIo!Acted, SegaIo!Show
<1>2. \/ prev' = acted /\ overlooked' = right
      \/ LET missed == {q \in SegaIo!PortIds : th[q] # acted[q]}
         IN  prev' = th /\ overlooked' = (right \ missed) \cup (missed \ right)
  <2>1. CASE serial' \/ ending'
    BY <1>1, <2>1 DEF SegaIo!Show
  <2>2. CASE ~(serial' \/ ending')
    BY <1>0, <1>1, <2>2 DEF SegaIo!Show, SegaIo!Resample
  <2> QED BY <2>1, <2>2
<1>3. /\ acted \in [SegaIo!PortIds -> BOOLEAN] /\ shown' \in [SegaIo!PortIds -> Sets]
      /\ right \subseteq SegaIo!PortIds
      /\ SegaIo!High(shown'[p]) <=> Odd(serve[2])
  BY <1>1, SegaTypes, ButtonsLevel
<1>4. p \in right <=> SegaIo!High(shown'[p]) # acted[p]
  <2>1. CASE fresh
    <3>1. serve[2] = IF cur[p] THEN 1 ELSE 0
      BY <1>0, <2>1 DEF SegaIInv, Cycles
    <3>2. SegaIo!High(shown'[p]) <=> cur[p]
      BY <1>3, <3>1 DEF Odd
    <3>3. acted[p] = cur[p] /\ cur[p] \in BOOLEAN
      BY <1>1, SegaTypes
    <3> QED BY <2>1, <3>2, <3>3 DEF SegaIo!High
  <2>2. CASE ~fresh
    <3>1. serve[2] = pc[2] + 1 /\ cur[p] # prev[p] /\ pc[2] \in 0..6 /\ p = pc[1]
      BY <1>0, <1>1, <2>2, SegaTypes, DevType DEF SegaIInv, Cycles
    <3>2. SegaIo!High(shown'[p]) <=> ~SegaIo!High(shown[p])
      <4>1. Odd(pc[2] + 1) <=> ~Odd(pc[2])
        BY <3>1 DEF Odd
      <4> QED BY <1>3, <2>2, <3>1, <4>1 DEF SegaIInv, Cycles
    <3>3. acted[p] = cur[p] /\ cur[p] \in BOOLEAN /\ prev[p] \in BOOLEAN
      BY <1>1, SegaTypes
    <3>4. p \in overlooked <=> SegaIo!High(shown[p]) # prev[p]
      BY <1>1 DEF SegaIInv, LevelExact
    <3> QED BY <2>2, <3>1, <3>2, <3>3, <3>4 DEF SegaIo!High
  <2> QED BY <2>1, <2>2
<1>5. ASSUME NEW q \in SegaIo!PortIds \ {p}
      PROVE  q \in right <=> SegaIo!High(shown'[q]) # acted[q]
  <2>1. shown'[q] = shown[q] /\ acted[q] = prev[q]
    BY <1>1, SegaTypes
  <2> QED BY <2>1 DEF SegaIInv, LevelExact
<1>6. LevelExact' /\ overlooked' \subseteq SegaIo!PortIds /\ prev' \in [SegaIo!PortIds -> BOOLEAN]
  <2>1. \A q \in SegaIo!PortIds : q \in right <=> SegaIo!High(shown'[q]) # acted[q]
    BY <1>4, <1>5
  <2> HIDE DEF right, acted
  <2>2. CASE prev' = acted /\ overlooked' = right
    BY <1>3, <2>1, <2>2 DEF LevelExact, SegaIo!High
  <2>3. CASE LET missed == {q \in SegaIo!PortIds : th[q] # acted[q]}
             IN  prev' = th /\ overlooked' = (right \ missed) \cup (missed \ right)
    BY <1>3, <2>1, <2>3, SegaTypes, Resampled
  <2> QED BY <1>2, <2>2, <2>3
<1>7. serve[2] < SegaIo!LastCycle(p) \/ (serve[2] = SegaIo!LastCycle(p) /\ ending')
  <2>1. SegaIo!LastCycle(p) \in {2, 7}
    BY <1>1, SegaTypes, DevType
  <2>2. CASE fresh
    <3>1. serve[2] \in {0, 1}
      BY <1>0, <2>2 DEF SegaIInv, Cycles
    <3> QED BY <2>1, <3>1
  <2>3. CASE ~fresh
    <3>1. serve[2] = pc[2] + 1 /\ p = pc[1] /\ pc[2] < SegaIo!LastCycle(p) /\ pc[2] \in 0..7
      BY <1>0, <1>1, <2>3, SegaTypes DEF SegaIInv, Cycles
    <3> QED BY <1>0, <2>1, <3>1
  <2> QED BY <2>2, <2>3
<1>8. serial' => p \notin overlooked' /\ ~ending'
  <2> SUFFICES ASSUME serial' PROVE p \notin overlooked' /\ ~ending'
    OBVIOUS
  <2>1. serve[2] = 0 /\ ~ending'
    BY <1>0, <1>1, SegaTypes, DevType
  <2>2. fresh
    BY <1>0, <1>1, <2>1, SegaTypes DEF SegaIInv, Cycles
  <2>3. overlooked' = right
    BY <1>1, <2>1 DEF SegaIo!Show
  <2> QED BY <2>1, <2>2, <2>3
<1>9. Cycles'
  <2>1. SegaIo!LastCycle(pc[1])' = SegaIo!LastCycle(p)
    BY <1>0 DEF SegaIo!LastCycle
  <2>2. SegaIo!High(shown'[pc'[1]]) <=> Odd(pc'[2])
    BY <1>0, <1>3
  <2>3. serial' => pc'[2] = 0
    BY <1>0
  <2> QED BY <1>0, <1>7, <1>8, <2>1, <2>2, <2>3 DEF Cycles, SegaIo!LastCycle
<1>10. /\ pending' \in BOOLEAN /\ start_var' \in BOOLEAN /\ end_var' \in BOOLEAN /\ hasty' \in BOOLEAN
       /\ core0' \in {"runs", "waits"}
  BY <1>0 DEF SegaIo!StallStart, SegaIo!stall, SegaIInv, SegaIo!SegaInv, SegaIo!TypeOK
<1>11. SegaIo!TypeOK'
  BY <1>0, <1>6, <1>10 DEF SegaIInv, SegaIo!SegaInv, SegaIo!TypeOK
<1>12. StallInv'
  BY <1>0, StallSteps
<1> QED BY <1>6, <1>9, <1>11, <1>12, ExactShown, PTL DEF SegaIInv, SegaIo!SegaInv, StallInv

LEMMA SegaStep == SegaIInv /\ [SegaIo!Next]_segaVars => SegaIInv'
<1> SUFFICES ASSUME SegaIInv, [SegaIo!Next]_segaVars PROVE SegaIInv'
  OBVIOUS
<1>1. CASE UNCHANGED segaVars
  BY <1>1 DEF segaVars, SegaIInv, SegaIo!SegaInv, SegaIo!TypeOK, SegaIo!LevelShown, SegaIo!StallInPoll,
              SegaIo!HeldInPoll, SegaIo!NoStuck, LevelExact, Cycles, Stalls, SegaIo!LastCycle
<1> QED BY <1>1, SegaOther, SegaSample, SegaShow, SegaHandshake, SegaTimeout, SegaNextPoll
        DEF SegaIo!Next

-----------------------------------------------------------------------------
(* The memory card of a PlayStation: a block differs from what the console *)
(* was told only if a write cut short named it, which needs no more than   *)
(* the types.                                                              *)
Bodies == [body : PsCard!Bodies, crc : {0, 1}]

LEMMA SumBit == ASSUME NEW a \in Addrs, NEW d PROVE PsCard!Sum(a, d) \in {0, 1}
  BY WiredAssumption DEF PsCard!Sum

LEMMA CardTypes ==
  ASSUME PsCard!CardInv
  PROVE  /\ card_rx \in [{0, 1} -> Bodies] /\ card_active \in {0, 1}
         /\ card_rx[card_active] \in Bodies
         /\ card_rx[card_active].body \in PsCard!Bodies /\ card_rx[card_active].crc \in {0, 1}
         /\ card \in [Addrs -> PsCard!Bodies] /\ kept \in [Addrs -> Words]
         /\ mc_addr \in Addrs /\ mc_crc \in {0, 1} /\ usable \in BOOLEAN /\ echo \in BOOLEAN
         /\ suspect \subseteq Addrs /\ gid \in PsCard!Bodies \cup {"none"}
         /\ packets \in 0..MaxPackets /\ active_port_type \in {"ctrl", "mem"}
         /\ mc_cmd \in {"none", "read", "write", "id", "gid", "other"} /\ mc_flags \in {"new", "old"}
  BY DEF PsCard!CardInv, PsCard!TypeOK, Bodies

LEMMA CardInit == PsCard!Init => PsCard!CardInv
<1> SUFFICES ASSUME PsCard!Init PROVE PsCard!CardInv
  OBVIOUS
<1>1. card_rx \in [{0, 1} -> [body : PsCard!Bodies, crc : {0, 1}]]
  BY DEF PsCard!Init, PsCard!Bodies
<1>2. card \in [Addrs -> PsCard!Bodies] /\ kept \in [Addrs -> Words]
  BY WiredAssumption DEF PsCard!Init, PsCard!Bodies
<1>3. packets \in 0..MaxPackets
  BY WiredAssumption DEF PsCard!Init
<1>4. PsCard!TypeOK
  BY <1>1, <1>2, <1>3, WiredAssumption DEF PsCard!Init, PsCard!TypeOK
<1> QED BY <1>4 DEF PsCard!Init, PsCard!CardInv, PsCard!CardKeeps, PsCard!GidSound

(* What the buffer in use holds after a packet: the body only if the       *)
(* packet reached its end.                                                 *)
LEMMA CardReceived ==
  ASSUME PsCard!CardInv, NEW cmd, NEW body \in PsCard!Bodies, NEW crc \in {0, 1}, NEW reach
  PROVE  LET got == PsCard!Received(cmd, body, crc, reach) IN
         /\ got \in Bodies
         /\ reach = "all" => got.body = body
         /\ reach = "all" /\ cmd \in {"read", "write"} => got.crc = crc
  BY CardTypes DEF PsCard!Received, PsCard!Past, PsCard!Bodies, Bodies

LEMMA CardPacket ==
  ASSUME PsCard!CardInv,
         NEW cmd \in {"read", "write", "id", "gid", "other"}, NEW a \in Addrs,
         NEW body \in PsCard!Bodies, NEW crc \in {0, 1}, NEW reach \in PsCard!Reach,
         cmd = "write" => body \in Words,
         cmd = "gid" => body \in GameIds,
         PsCard!Card(cmd, a, body, crc, reach)
  PROVE  PsCard!CardInv'
<1> DEFINE heard == usable \/ cmd = "gid"
           got == IF heard THEN PsCard!Received(cmd, body, crc, reach) ELSE card_rx[card_active]
           new == IF reach \in PsCard!Past("cmd") THEN cmd ELSE mc_cmd
           addr == IF ~heard \/ cmd \notin {"read", "write"} THEN mc_addr
                   ELSE IF reach \in PsCard!Past("lsb") THEN a
                   ELSE IF reach \in PsCard!Past("msb") THEN 0 ELSE mc_addr
           sum == IF heard /\ cmd = "write" /\ reach = "all" THEN PsCard!Sum(a, body) ELSE mc_crc
           valid == usable /\ (cmd \in {"gid", "read", "id", "write"} \/ reach = "address")
           stored == valid /\ new = "write" /\ sum = got.crc
           tellsStored == valid /\ cmd = "write" /\ reach = "all" /\ PsCard!Sum(a, body) = crc
<1>0. /\ packets < MaxPackets /\ packets' = packets + 1
      /\ active_port_type' = "mem" /\ mc_cmd' = new /\ mc_addr' = addr /\ mc_crc' = sum
      /\ mc_flags' = IF ~usable THEN "new" ELSE IF valid THEN "old" ELSE mc_flags
      /\ card_rx' = [card_rx EXCEPT ![card_active] = got]
      /\ card_active' = IF valid THEN 1 - card_active ELSE card_active
      /\ card' = IF stored THEN [card EXCEPT ![addr] = got.body] ELSE card
      /\ gid' = IF new = "gid" THEN got.body ELSE gid
      /\ kept' = IF tellsStored THEN [kept EXCEPT ![a] = body] ELSE kept
      /\ suspect' = (IF tellsStored THEN suspect \ {a} ELSE suspect)
                     \cup (IF valid /\ new = "write" /\ reach # "all" THEN {addr} ELSE {})
      /\ echo' = (echo \/ (new = "gid" /\ ~(cmd = "gid" /\ reach = "all")))
      /\ usable' = usable
  BY DEF PsCard!Card, PsCard!Event
<1>1. got \in Bodies /\ got.body \in PsCard!Bodies
  BY CardReceived, CardTypes DEF Bodies
<1>2. /\ addr \in Addrs /\ sum \in {0, 1}
      /\ new \in {"none", "read", "write", "id", "gid", "other"}
  BY CardTypes, SumBit, WiredAssumption
<1>3. reach = "all" => new = cmd
  BY DEF PsCard!Past, PsCard!Reach
<1>4. reach = "all" /\ cmd = "write" /\ usable => addr = a /\ got.body = body /\ (stored <=> tellsStored)
  BY <1>3, CardReceived DEF PsCard!Past, PsCard!Reach
<1>5. new = "gid" /\ cmd = "gid" /\ reach = "all" => got.body \in GameIds
  BY CardReceived
<1> HIDE DEF got, new, addr, sum
<1>6. PsCard!TypeOK'
  <2>1. card_rx' \in [{0, 1} -> [body : PsCard!Bodies, crc : {0, 1}]] /\ card_active' \in {0, 1}
    BY <1>0, <1>1, CardTypes DEF Bodies
  <2>2. card' \in [Addrs -> PsCard!Bodies] /\ kept' \in [Addrs -> Words]
    BY <1>0, <1>1, <1>2, CardTypes
  <2>3. suspect' \subseteq Addrs /\ gid' \in PsCard!Bodies \cup {"none"} /\ echo' \in BOOLEAN
    BY <1>0, <1>1, <1>2, CardTypes
  <2>4. packets' \in 0..MaxPackets /\ mc_flags' \in {"new", "old"} /\ usable' \in BOOLEAN
    BY <1>0, CardTypes, WiredAssumption
  <2> QED BY <1>0, <1>2, <2>1, <2>2, <2>3, <2>4 DEF PsCard!TypeOK
<1>7. PsCard!CardKeeps'
  <2> SUFFICES ASSUME NEW b \in Addrs PROVE card'[b] = kept'[b] \/ b \in suspect'
    BY DEF PsCard!CardKeeps
  <2>0. card[b] = kept[b] \/ b \in suspect
    BY DEF PsCard!CardInv, PsCard!CardKeeps
  <2>1. CASE reach = "all" /\ cmd = "write" /\ usable
    BY <1>0, <1>4, <2>0, <2>1, CardTypes
  <2>2. CASE ~(reach = "all" /\ cmd = "write" /\ usable)
    <3>1. ~tellsStored /\ (stored => valid /\ new = "write" /\ reach # "all")
      BY <1>3, <2>2
    <3> QED BY <1>0, <1>2, <2>0, <3>1, CardTypes
  <2> QED BY <2>1, <2>2
<1>8. PsCard!GidSound'
  BY <1>0, <1>5, CardTypes DEF PsCard!CardInv, PsCard!GidSound
<1> QED BY <1>6, <1>7, <1>8 DEF PsCard!CardInv

LEMMA CardStep == PsCard!CardInv /\ [PsCard!Next]_cardVars => PsCard!CardInv'
<1> SUFFICES ASSUME PsCard!CardInv, [PsCard!Next]_cardVars PROVE PsCard!CardInv'
  OBVIOUS
<1>1. CASE UNCHANGED cardVars
  BY <1>1 DEF cardVars, PsCard!CardInv, PsCard!TypeOK, PsCard!CardKeeps, PsCard!GidSound
<1>2. CASE PsCard!CardWrite
  BY <1>2, CardPacket DEF PsCard!CardWrite, PsCard!Bodies
<1>3. CASE PsCard!CardRead
  BY <1>3, CardPacket DEF PsCard!CardRead, PsCard!Bodies
<1>4. CASE PsCard!CardId
  <2>1. {"address", "cmd", "part"} \subseteq PsCard!Reach
    BY DEF PsCard!Reach
  <2> QED BY <1>4, <2>1, CardPacket, WiredAssumption DEF PsCard!CardId, PsCard!Bodies
<1>5. CASE PsCard!CardGid
  BY <1>5, CardPacket, WiredAssumption DEF PsCard!CardGid, PsCard!Bodies
<1>6. CASE PsCard!CardOther
  BY <1>6, CardPacket, WiredAssumption DEF PsCard!CardOther, PsCard!Bodies, PsCard!Reach
<1>7. CASE PsCard!Usable
  BY <1>7 DEF PsCard!Usable, PsCard!mcVars, PsCard!CardInv, PsCard!TypeOK, PsCard!CardKeeps, PsCard!GidSound
<1>8. CASE PsCard!Pad \/ PsCard!Foreign
  <2>1. packets' \in 0..MaxPackets
    BY <1>8, CardTypes, WiredAssumption DEF PsCard!Pad, PsCard!Foreign, PsCard!Event
  <2>2. card_rx' \in [{0, 1} -> [body : PsCard!Bodies, crc : {0, 1}]] /\ card_active' \in {0, 1}
    BY <1>8, CardTypes DEF PsCard!Pad, PsCard!Foreign, PsCard!Bodies, Bodies
  <2>3. gid' \in PsCard!Bodies \cup {"none"} /\ echo' \in BOOLEAN
    BY <1>8, CardTypes DEF PsCard!Pad, PsCard!Foreign
  <2>4. PsCard!TypeOK'
    BY <1>8, <2>1, <2>2, <2>3, CardTypes DEF PsCard!Pad, PsCard!Foreign, PsCard!TypeOK, PsCard!mcVars
  <2> QED BY <1>8, <2>4 DEF PsCard!Pad, PsCard!Foreign, PsCard!mcVars, PsCard!CardInv,
               PsCard!CardKeeps, PsCard!GidSound
<1> QED BY <1>1, <1>2, <1>3, <1>4, <1>5, <1>6, <1>7, <1>8 DEF PsCard!Next
-----------------------------------------------------------------------------
(* The pads of a PlayStation.  While the tap answers, the other buffer     *)
(* holds the commands of the packet before.                                *)
Slots == [cmd : PsPad!Bytes, arg : PsPad!Bytes]
Buffers == [cmd : PsPad!Bytes, tap : PsPad!Bytes, slot : [Pads -> Slots]]
States == [id : PsPad!Ids, pend : PsPad!Ids \ {"config"}, btn : BOOLEAN,
           desc : {"none", "sticks", "pressures"}]

NextInTurn ==
  mt_state # "zero" /\ ~stale =>
    \A p \in Pads : PsPad!Acting(PsPad!Prev.slot[p]) = PsPad!Acting(due[p])

PadIInv == PsPad!PadInv /\ NextInTurn

LEMMA PadsFinite ==
  /\ 0 \in Pads /\ Pads \subseteq 0..3
  /\ Cardinality(Pads) \in Nat /\ \A p \in Pads : p < Cardinality(Pads)
<1>1. PICK n \in 0..3 : Pads = 0..n
  BY WiredAssumption
<1>2. Cardinality(0..n) = n + 1
  BY FS_Interval
<1> QED BY <1>1, <1>2

(* The cardinality PsPad takes from its own instance of FiniteSets         *)
LEMMA SameCardinality == PsPad!Cardinality(Pads) = Cardinality(Pads)
  BY DEF PsPad!Cardinality, Cardinality

LEMMA SlotTypes ==
  /\ PsPad!Slot("poll", "zero") \in Slots
  /\ PsPad!Nothing \in [Pads -> Slots]
  /\ \A p \in Pads : PsPad!Nothing[p] = PsPad!Slot("poll", "zero")
  /\ \A c \in PsPad!Bytes, a \in PsPad!Bytes :
       PsPad!Slot(c, a) \in Slots /\ PsPad!Slot(c, a).cmd = c /\ PsPad!Slot(c, a).arg = a
  /\ PsPad!Cmds \subseteq PsPad!Bytes /\ PsPad!Args \subseteq PsPad!Bytes /\ "data" \in PsPad!Bytes
  BY DEF PsPad!Slot, PsPad!Nothing, Slots, PsPad!Bytes, PsPad!Cmds, PsPad!Args

LEMMA PadTypes ==
  ASSUME PadIInv
  PROVE  /\ kind \in [Pads -> {"pad", "mouse"}] /\ mt_state \in PsPad!Bytes /\ pad_active \in {0, 1}
         /\ pad_rx \in [{0, 1} -> Buffers] /\ pad \in [Pads -> States]
         /\ led \in BOOLEAN /\ pressed \in [Pads -> BOOLEAN] /\ forced \subseteq Pads
         /\ PsPad!Cur \in Buffers /\ PsPad!Prev \in Buffers
         /\ PsPad!Cur.slot \in [Pads -> Slots] /\ PsPad!Prev.slot \in [Pads -> Slots]
         /\ PsPad!Cur.cmd \in PsPad!Bytes /\ PsPad!Cur.tap \in PsPad!Bytes
<1>1. /\ pad_rx \in [{0, 1} -> Buffers] /\ pad \in [Pads -> States] /\ pad_active \in {0, 1}
      /\ kind \in [Pads -> {"pad", "mouse"}] /\ mt_state \in PsPad!Bytes
      /\ led \in BOOLEAN /\ pressed \in [Pads -> BOOLEAN] /\ forced \subseteq Pads
  BY DEF PadIInv, PsPad!PadInv, PsPad!TypeOK, Buffers, Slots, States
<1>2. PsPad!Cur \in Buffers /\ PsPad!Prev \in Buffers
  BY <1>1 DEF PsPad!Cur, PsPad!Prev
<1> QED BY <1>1, <1>2 DEF Buffers

LEMMA PadInit == PsPad!Init => PadIInv
<1> SUFFICES ASSUME PsPad!Init PROVE PadIInv
  OBVIOUS
<1>1. kind \in [Pads -> {"pad", "mouse"}] /\ mt_state \in PsPad!Bytes
  BY WiredAssumption DEF PsPad!Init, PsPad!Bytes, PsPad!Args
<1>2. pad_rx \in [{0, 1} -> Buffers] /\ \A b \in {0, 1} : pad_rx[b].slot = PsPad!Nothing
  BY SlotTypes DEF PsPad!Init, PsPad!Buffer, Buffers, PsPad!Bytes, PsPad!Cmds, PsPad!Args
<1>3. /\ pad \in [Pads -> States]
      /\ \A p \in Pads : pad[p].id # "config" /\ pad[p].desc = "none"
  BY <1>1 DEF PsPad!Init, States, PsPad!Ids
<1>4. PsPad!TypeOK
  BY <1>1, <1>2, <1>3 DEF PsPad!Init, PsPad!TypeOK, Buffers, Slots, States
<1>5. NextInTurn
  BY <1>2 DEF PsPad!Init, NextInTurn, PsPad!Prev
<1>6. PsPad!InTurn /\ PsPad!ModeSound
  BY <1>3 DEF PsPad!Init, PsPad!InTurn, PsPad!ModeSound, PsPad!Mode
<1> QED BY <1>4, <1>5, <1>6 DEF PadIInv, PsPad!PadInv

(* The button and a command leave the mode of a pad and what it reports in *)
(* step, whatever order they come in.                                      *)
ModeOf(s) == IF s.id = "config" THEN s.pend ELSE s.id
InStep(s) == ModeOf(s) = "digital" => s.desc = "none"

LEMMA ButtonMode ==
  ASSUME PadIInv, NEW p \in Pads
  PROVE  LET s == PsPad!AnalogBtn(p) IN
         /\ s \in States
         /\ InStep(pad[p]) => InStep(s)
         /\ ~(pad[p].btn /\ ~s.btn) => ModeOf(s) = ModeOf(pad[p])
         /\ pad[p].btn /\ ~s.btn => s.id \in {"digital", "analog"}
         /\ pad[p].id = "config" => s = pad[p]
         /\ s.pend = pad[p].pend
  BY PadTypes DEF PsPad!AnalogBtn, States, ModeOf, InStep, PsPad!Ids

LEMMA RequestMode ==
  ASSUME NEW s \in States, NEW cmd, NEW arg
  PROVE  LET r == PsPad!Request(s, cmd, arg)
             leaves == cmd = "config" /\ arg # "one" /\ s.id \notin {"config", s.pend}
         IN  /\ r \in States
             /\ InStep(s) /\ ~leaves => InStep(r)
             /\ cmd = "analog" /\ s.id = "config" /\ arg = "one" => ModeOf(r) = "analog"
             /\ ~leaves /\ ~(cmd = "analog" /\ s.id = "config") =>
                  ModeOf(r) = ModeOf(s) \/ ModeOf(r) # "digital"
  BY DEF PsPad!Request, States, ModeOf, InStep, PsPad!Ids

LEMMA ExecuteMode ==
  ASSUME PadIInv, NEW P \in SUBSET Pads, 0 \in P, NEW slot, PsPad!Execute(P, slot)
  PROVE  /\ pad' \in [Pads -> States] /\ led' \in BOOLEAN /\ forced' \subseteq Pads
         /\ PsPad!ModeSound'
         /\ \A p \in Pads : ran'[p] = IF p \in P THEN slot[p] ELSE PsPad!Nothing[p]
<1> DEFINE r(p) == PsPad!Request(PsPad!AnalogBtn(p), slot[p].cmd, slot[p].arg)
<1>0. /\ pad' = [p \in Pads |-> IF p \in P THEN r(p) ELSE pad[p]]
      /\ led' = PsPad!Led(slot[0].cmd, slot[0].arg)
      /\ ran' = [p \in Pads |-> IF p \in P THEN slot[p] ELSE PsPad!Nothing[p]]
      /\ forced' = forced \cup {p \in P : /\ slot[p].cmd = "config" /\ slot[p].arg # "one"
                                         /\ PsPad!AnalogBtn(p).id \notin {"config", pad[p].pend}}
  BY DEF PsPad!Execute
<1>1. ASSUME NEW p \in Pads PROVE r(p) \in States
  BY ButtonMode, RequestMode
<1>2. pad' \in [Pads -> States] /\ forced' \subseteq Pads
  BY <1>0, <1>1, PadTypes
<1>3. led' \in BOOLEAN
  BY <1>0, PadTypes DEF PsPad!Led
<1>4. ASSUME NEW p \in Pads \ forced' PROVE InStep(pad'[p])
  <2>1. InStep(pad[p])
    BY <1>0 DEF PadIInv, PsPad!PadInv, PsPad!ModeSound, PsPad!Mode, InStep, ModeOf
  <2>2. CASE p \in P
    BY <1>0, <2>1, <2>2, ButtonMode, RequestMode
  <2> QED BY <1>0, <2>1, <2>2
<1>5. ASSUME led', 0 \notin forced' PROVE ModeOf(pad'[0]) # "digital"
  <2> DEFINE s == PsPad!AnalogBtn(0)
  <2>0. 0 \in Pads /\ pad'[0] = r(0) /\ 0 \notin forced
    BY <1>0, <1>5, PadsFinite
  <2>1. ~(slot[0].cmd = "config" /\ slot[0].arg # "one" /\ s.id \notin {"config", s.pend})
    BY <1>0, <1>5, <2>0, ButtonMode
  <2>2. CASE slot[0].cmd = "analog" /\ pad[0].id = "config"
    BY <1>0, <1>5, <2>0, <2>2, ButtonMode, RequestMode DEF PsPad!Led
  <2>3. CASE ~(slot[0].cmd = "analog" /\ pad[0].id = "config") /\ pad[0].btn /\ ~s.btn
    <3>1. s.id = "analog" /\ ModeOf(s) = "analog"
      BY <1>0, <1>5, <2>3 DEF PsPad!Led, ModeOf
    <3> QED BY <2>0, <2>1, <3>1, ButtonMode, RequestMode
  <2>4. CASE ~(slot[0].cmd = "analog" /\ pad[0].id = "config") /\ ~(pad[0].btn /\ ~s.btn)
    <3>1. led
      BY <1>0, <1>5, <2>4 DEF PsPad!Led
    <3>2. ModeOf(pad[0]) # "digital" /\ ModeOf(s) = ModeOf(pad[0])
      BY <2>0, <2>4, <3>1, ButtonMode DEF PadIInv, PsPad!PadInv, PsPad!ModeSound, PsPad!Mode, ModeOf
    <3>3. s.id = "config" => pad[0].id = "config"
      BY <2>0, PadTypes DEF PsPad!AnalogBtn, States
    <3> QED BY <2>0, <2>1, <2>4, <3>2, <3>3, ButtonMode, RequestMode
  <2> QED BY <2>2, <2>3, <2>4
<1>6. PsPad!ModeSound'
  BY <1>4, <1>5 DEF PsPad!ModeSound, PsPad!Mode, InStep, ModeOf
<1> QED BY <1>0, <1>2, <1>3, <1>6
LEMMA PadPress == ASSUME PadIInv, PsPad!Press(0) PROVE PadIInv'
<1>1. pressed' \in [Pads -> BOOLEAN]
  BY PadTypes DEF PsPad!Press
<1>2. UNCHANGED <<kind, mt_state, pad_rx, pad_active, pad, led, due, owed, ran, stale, forced>>
  BY DEF PsPad!Press, PsPad!rxVars, PsPad!padVars, PsPad!tapVars
<1> QED BY <1>1, <1>2 DEF PadIInv, PsPad!PadInv, PsPad!TypeOK, PsPad!InTurn, PsPad!ModeSound,
           PsPad!Mode, NextInTurn, PsPad!Prev

(* A packet leaves b in the buffer in use, and may swap the buffers.       *)
LEMMA PadBuffer ==
  ASSUME PadIInv, NEW b \in Buffers, PsPad!SetCur(b)
  PROVE  /\ pad_rx' \in [{0, 1} -> Buffers]
         /\ PsPad!Swap => pad_active' \in {0, 1} /\ PsPad!Prev' = b
         /\ pad_active' = pad_active => PsPad!Prev' = PsPad!Prev
  BY PadTypes DEF PsPad!SetCur, PsPad!Swap, PsPad!Prev

LEMMA PadSingle ==
  ASSUME PadIInv, NEW c \in PsPad!Cmds, NEW t \in PsPad!Args, NEW a \in PsPad!Args,
         NEW bytes \in 0..3, PsPad!Single(c, t, a, bytes)
  PROVE  PadIInv'
<1> DEFINE arg == [PsPad!Cur.slot EXCEPT ![0] = PsPad!Slot(a, "zero")]
           got == PsPad!Buffer(IF bytes >= 1 THEN c ELSE PsPad!Cur.cmd,
                               IF bytes >= 2 THEN t ELSE PsPad!Cur.tap,
                               IF bytes >= 3 THEN arg ELSE PsPad!Cur.slot)
           dropped == root = "mouse" /\ bytes >= 1 /\ c # "poll"
           slot == [got.slot EXCEPT ![0] = PsPad!Slot(got.cmd, got.slot[0].cmd)]
<1>0. UNCHANGED <<kind, pressed>> /\ mt_state = "zero"
  BY DEF PsPad!Single, PsPad!Sent
<1>1. /\ arg \in [Pads -> Slots] /\ arg[0] = PsPad!Slot(a, "zero") /\ arg[0].cmd = a
      /\ c \in PsPad!Bytes /\ t \in PsPad!Bytes /\ "zero" \in PsPad!Bytes
  BY PadTypes, SlotTypes, PadsFinite DEF PsPad!Args
<1>2. /\ got \in Buffers /\ got.slot \in [Pads -> Slots]
      /\ got.cmd = (IF bytes >= 1 THEN c ELSE PsPad!Cur.cmd)
      /\ got.tap = (IF bytes >= 2 THEN t ELSE PsPad!Cur.tap) /\ got.tap \in PsPad!Bytes
      /\ bytes = 3 => got.slot[0].cmd = a
  BY <1>1, PadTypes DEF PsPad!Buffer, Buffers
<1>3. CASE dropped
  <2>1. /\ PsPad!SetCur([PsPad!Cur EXCEPT !.cmd = c])
        /\ UNCHANGED <<pad, led, forced, mt_state, pad_active, stale, due, owed, ran>>
    BY <1>3 DEF PsPad!Single, PsPad!padVars, PsPad!tapVars
  <2>2. [PsPad!Cur EXCEPT !.cmd = c] \in Buffers
    BY <1>1, PadTypes DEF Buffers
  <2>3. pad_rx' \in [{0, 1} -> Buffers]
    BY <2>1, <2>2, PadBuffer
  <2> QED BY <1>0, <2>1, <2>3, PadTypes DEF PadIInv, PsPad!PadInv, PsPad!TypeOK, PsPad!InTurn,
             PsPad!ModeSound, PsPad!Mode, NextInTurn, Buffers, Slots
<1>4. CASE ~dropped
  <2>0. /\ PsPad!SetCur(got) /\ PsPad!Swap /\ due' = PsPad!Nothing
        /\ owed' = [PsPad!Nothing EXCEPT ![0] = PsPad!Slot(c, a)]
        /\ stale' = (stale \/ bytes < 3
                      \/ \E p \in Pads : PsPad!Acting(got.slot[p]) # PsPad!Nothing[p])
        /\ PsPad!Execute({0}, slot)
        /\ mt_state' = IF root = "multitap" THEN got.tap ELSE mt_state
    BY <1>4 DEF PsPad!Single
  <2>a. {0} \in SUBSET Pads /\ 0 \in {0}
    BY PadsFinite
  <2>b. ~stale' => ~stale /\ ~(bytes < 3)
    BY <2>0, Zenon
  <2> HIDE DEF got
  <2>1. /\ pad_rx' \in [{0, 1} -> Buffers] /\ pad_active' \in {0, 1} /\ PsPad!Prev' = got
        /\ mt_state' \in PsPad!Bytes
    BY <1>2, <2>0, PadBuffer, PadTypes
  <2>2. /\ pad' \in [Pads -> States] /\ led' \in BOOLEAN /\ forced' \subseteq Pads
        /\ PsPad!ModeSound'
        /\ \A p \in Pads : ran'[p] = IF p = 0 THEN slot[p] ELSE PsPad!Nothing[p]
    <3>1. \A p \in Pads : p \in {0} <=> p = 0
      OBVIOUS
    <3> HIDE DEF slot
    <3> QED BY <2>0, <2>a, <3>1, ExecuteMode
  <2>3. PsPad!TypeOK'
    BY <1>0, <2>1, <2>2, PadTypes DEF PsPad!TypeOK, Buffers, Slots, States
  <2>4. NextInTurn'
    <3> SUFFICES ASSUME ~stale', NEW p \in Pads
                 PROVE  PsPad!Acting(got.slot[p]) = PsPad!Acting(PsPad!Nothing[p])
      BY <2>0, <2>1 DEF NextInTurn
    <3>1. PsPad!Acting(got.slot[p]) = PsPad!Nothing[p]
      BY <2>0
    <3> QED BY <3>1, SlotTypes DEF PsPad!Acting
  <2>5. PsPad!InTurn'
    <3> SUFFICES ASSUME ~stale', NEW p \in Pads PROVE ran'[p] = owed'[p]
      BY DEF PsPad!InTurn
    <3>1. bytes = 3
      <4>1. bytes \in 0..3 /\ ~(bytes < 3)
        BY <2>b
      <4> QED BY <4>1
    <3>2. slot[0] = PsPad!Slot(c, a)
      BY <1>2, <3>1, PadsFinite
    <3> QED BY <2>0, <2>2, <3>2, SlotTypes, PadsFinite
  <2> QED BY <2>2, <2>3, <2>4, <2>5 DEF PadIInv, PsPad!PadInv
<1> QED BY <1>3, <1>4

LEMMA PadTap ==
  ASSUME PadIInv, NEW t \in PsPad!Args, NEW sent \in [Pads -> Slots], NEW bytes \in 0..10,
         PsPad!Tap(t, sent, bytes)
  PROVE  PadIInv'
<1> DEFINE full == 2 + 2 * Cardinality(Pads)
           slot(p) == PsPad!Slot(IF bytes >= 3 + 2 * p THEN sent[p].cmd ELSE PsPad!Cur.slot[p].cmd,
                                 IF bytes >= 4 + 2 * p THEN sent[p].arg ELSE PsPad!Cur.slot[p].arg)
           got == PsPad!Buffer(IF bytes >= 1 THEN "poll" ELSE PsPad!Cur.cmd,
                               IF bytes >= 2 THEN t ELSE PsPad!Cur.tap, [p \in Pads |-> slot(p)])
           ended == [got EXCEPT !.slot = [PsPad!Cur.slot EXCEPT ![0].cmd = sent[0].cmd]]
<1>0. UNCHANGED <<kind, pressed>> /\ mt_state # "zero" /\ bytes <= full
  BY SameCardinality DEF PsPad!Tap, PsPad!Sent
<1>1. ASSUME NEW p \in Pads
      PROVE  slot(p) \in Slots /\ (bytes = full => slot(p) = sent[p])
  <2>1. /\ sent[p] \in Slots /\ PsPad!Cur.slot[p] \in Slots
        /\ sent[p].cmd \in PsPad!Bytes /\ sent[p].arg \in PsPad!Bytes
        /\ PsPad!Cur.slot[p].cmd \in PsPad!Bytes /\ PsPad!Cur.slot[p].arg \in PsPad!Bytes
        /\ PsPad!Slot(sent[p].cmd, sent[p].arg) = sent[p]
    BY PadTypes DEF Slots, PsPad!Slot
  <2>2. bytes = full => bytes >= 3 + 2 * p /\ bytes >= 4 + 2 * p
    BY PadsFinite
  <2>3. slot(p) \in Slots
    BY <2>1, SlotTypes
  <2> QED BY <2>1, <2>2, <2>3
<1>2. /\ got \in Buffers /\ got.tap \in PsPad!Bytes
      /\ \A p \in Pads : bytes = full => got.slot[p] = sent[p]
  <2>1. "poll" \in PsPad!Bytes /\ t \in PsPad!Bytes
    BY SlotTypes DEF PsPad!Cmds
  <2>2. [p \in Pads |-> slot(p)] \in [Pads -> Slots]
    BY <1>1
  <2> QED BY <1>1, <2>1, <2>2, PadTypes DEF PsPad!Buffer, Buffers
<1>3. CASE bytes >= 3 /\ t = "zero"
  <2>0. /\ PsPad!SetCur(ended) /\ mt_state' = "zero"
        /\ UNCHANGED <<pad, led, forced, pad_active, stale, owed, ran>>
    BY <1>3 DEF PsPad!Tap, PsPad!padVars
  <2>1. ended \in Buffers
    <3>1. [PsPad!Cur.slot EXCEPT ![0].cmd = sent[0].cmd] \in [Pads -> Slots]
      BY PadTypes, PadsFinite DEF Slots
    <3> QED BY <1>2, <3>1 DEF Buffers
  <2>2. pad_rx' \in [{0, 1} -> Buffers]
    BY <2>0, <2>1, PadBuffer
  <2>3. PsPad!TypeOK'
    BY <1>0, <2>0, <2>2, PadTypes, SlotTypes DEF PsPad!TypeOK, Buffers, Slots, States, PsPad!Args
  <2> QED BY <2>0, <2>3 DEF PadIInv, PsPad!PadInv, PsPad!InTurn, PsPad!ModeSound, PsPad!Mode, NextInTurn
<1>4. CASE ~(bytes >= 3 /\ t = "zero")
  <2>0. /\ PsPad!SetCur(got) /\ PsPad!Swap /\ stale' = (stale \/ bytes < full)
        /\ PsPad!Execute(Pads, PsPad!Prev.slot) /\ mt_state' = got.tap
        /\ due' = sent /\ owed' = due
    BY <1>4, SameCardinality DEF PsPad!Tap
  <2> HIDE DEF got
  <2>1. /\ pad_rx' \in [{0, 1} -> Buffers] /\ pad_active' \in {0, 1} /\ PsPad!Prev' = got
    BY <1>2, <2>0, PadBuffer
  <2>2. /\ pad' \in [Pads -> States] /\ led' \in BOOLEAN /\ forced' \subseteq Pads
        /\ PsPad!ModeSound'
        /\ \A p \in Pads : ran'[p] = PsPad!Prev.slot[p]
    BY <2>0, ExecuteMode, PadsFinite
  <2>3. PsPad!TypeOK'
    BY <1>0, <1>2, <2>0, <2>1, <2>2, PadTypes DEF PsPad!TypeOK, Buffers, Slots, States
  <2>4. ~stale' => ~stale /\ bytes = full
    <3>1. ~stale' => ~stale /\ ~(bytes < full)
      BY <2>0, Zenon
    <3>2. ~(bytes < full) => bytes = full
      BY <1>0, PadsFinite
    <3> QED BY <3>1, <3>2
  <2>5. NextInTurn'
    BY <1>2, <2>0, <2>1, <2>4 DEF NextInTurn
  <2>6. PsPad!InTurn'
    BY <1>0, <2>0, <2>2, <2>4 DEF PadIInv, NextInTurn, PsPad!InTurn
  <2> QED BY <2>2, <2>3, <2>5, <2>6 DEF PadIInv, PsPad!PadInv
<1> QED BY <1>3, <1>4

LEMMA PadCard == ASSUME PadIInv, PsPad!Card PROVE PadIInv'
<1> DEFINE b == PsPad!Buffer("data", "zero",
                   [p \in Pads |-> PsPad!Slot(IF p = 0 THEN "data" ELSE "config", "data")])
<1>0. /\ PsPad!SetCur(b) /\ PsPad!Swap /\ stale' = (mt_state # "zero")
      /\ UNCHANGED <<kind, pressed, pad, led, mt_state, forced, due, owed, ran>> /\ ~stale
  BY DEF PsPad!Card, PsPad!Sent, PsPad!padVars, PsPad!tapVars
<1>1. b \in Buffers
  <2>1. "data" \in PsPad!Bytes /\ "config" \in PsPad!Bytes /\ "zero" \in PsPad!Bytes
    BY DEF PsPad!Bytes, PsPad!Cmds, PsPad!Args
  <2>2. [p \in Pads |-> PsPad!Slot(IF p = 0 THEN "data" ELSE "config", "data")] \in [Pads -> Slots]
    BY <2>1, SlotTypes
  <2> QED BY <2>1, <2>2 DEF PsPad!Buffer, Buffers
<1> HIDE DEF b
<1>2. pad_rx' \in [{0, 1} -> Buffers] /\ pad_active' \in {0, 1}
  BY <1>0, <1>1, PadBuffer
<1>3. PsPad!TypeOK'
  BY <1>0, <1>2, PadTypes DEF PsPad!TypeOK, Buffers, Slots, States
<1>4. NextInTurn' /\ PsPad!InTurn' /\ PsPad!ModeSound'
  BY <1>0 DEF PadIInv, PsPad!PadInv, NextInTurn, PsPad!InTurn, PsPad!ModeSound, PsPad!Mode
<1> QED BY <1>3, <1>4 DEF PadIInv, PsPad!PadInv

LEMMA PadStep == PadIInv /\ [PsPad!Next]_padVars => PadIInv'
<1> SUFFICES ASSUME PadIInv, [PsPad!Next]_padVars PROVE PadIInv'
  OBVIOUS
<1>1. CASE UNCHANGED padVars
  BY <1>1 DEF padVars, PadIInv, PsPad!PadInv, PsPad!TypeOK, PsPad!InTurn, PsPad!ModeSound,
              PsPad!Mode, NextInTurn, PsPad!Prev
<1>2. ASSUME NEW t \in PsPad!Args, NEW c \in PsPad!Cmds, NEW a \in PsPad!Args, NEW p \in Pads,
             NEW bytes \in 0..10, PsPad!Tap(t, [PsPad!Nothing EXCEPT ![p] = PsPad!Slot(c, a)], bytes)
      PROVE  PadIInv'
  <2>1. [PsPad!Nothing EXCEPT ![p] = PsPad!Slot(c, a)] \in [Pads -> Slots]
    BY SlotTypes
  <2> QED BY <1>2, <2>1, PadTap
<1> QED BY <1>1, <1>2, PadPress, PadSingle, PadCard DEF PsPad!Next
-----------------------------------------------------------------------------
(* Nintendo 64 and Dreamcast: no pak is exchanged for another without the  *)
(* console being told, and the bridge is never more than one rumble        *)
(* command behind (n64_isr of wired/nsi.c, maple_rx of wired/maple.c).     *)
THEOREM Accessories == Spec => []AccessorySound
<1>1. Init => NsiIInv /\ MapleIInv
  BY NsiInit, MapleInit DEF Init
<1>2. NsiIInv /\ MapleIInv /\ [Next]_vars => (NsiIInv /\ MapleIInv)'
  <2> SUFFICES ASSUME [Next]_vars PROVE [Nsi!Next]_n64Vars /\ [Maple!Next]_dcVars
    BY NsiStep, MapleStep
  <2> QED BY DEF Next, PsxCard, PsxPads, N64, DC, Genesis, vars
<1>3. NsiIInv /\ MapleIInv => AccessorySound
  BY NsiToldOrDue DEF AccessorySound, MapleIInv, Maple!MapleInv
<1> QED BY <1>1, <1>2, <1>3, PTL DEF Spec

(* Genesis: each port shows the buttons for the level its console drives,  *)
(* but for changes it overlooked, core 0 stands still during polls only,   *)
(* and the cores never wait for each other, but after a hasty stall        *)
(* (sega_genesis_task of wired/sega_io.c, system/core0_stall.c).           *)
THEOREM Lines == Spec => []LinesSound
<1>1. Init => SegaIInv
  BY SegaInit DEF Init
<1>2. SegaIInv /\ [Next]_vars => SegaIInv'
  <2> SUFFICES ASSUME [Next]_vars PROVE [SegaIo!Next]_segaVars
    BY SegaStep
  <2> QED BY DEF Next, PsxCard, PsxPads, N64, DC, Genesis, vars
<1>3. SegaIInv => LinesSound
  BY DEF SegaIInv, LinesSound
<1> QED BY <1>1, <1>2, <1>3, PTL DEF Spec

(* PlayStation: a packet that stops early can damage only the block it     *)
(* named, every command of the tap is executed once and in turn, and a     *)
(* digital pad never reports as an analog one (wired/ps_spi.c).            *)
THEOREM PlayStation == Spec => []PsSound
<1>1. Init => PsCard!CardInv /\ PadIInv
  BY CardInit, PadInit DEF Init
<1>2. PsCard!CardInv /\ PadIInv /\ [Next]_vars => (PsCard!CardInv /\ PadIInv)'
  <2> SUFFICES ASSUME [Next]_vars PROVE [PsCard!Next]_cardVars /\ [PsPad!Next]_padVars
    BY CardStep, PadStep
  <2> QED BY DEF Next, PsxCard, PsxPads, N64, DC, Genesis, vars
<1>3. PsCard!CardInv /\ PadIInv => PsSound
  BY DEF PadIInv, PsSound
<1> QED BY <1>1, <1>2, <1>3, PTL DEF Spec
=============================================================================
