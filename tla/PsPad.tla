------------------------------- MODULE PsPad -------------------------------
(***************************************************************************)
(* The controllers of a PlayStation port, alone or behind a multitap       *)
(* (wired/ps_spi.c): the mode of each pad, the commands that change it and *)
(* the analog button.                                                      *)
(*                                                                         *)
(* A packet of the tap is answered with the results of the commands of the *)
(* packet before it, which stand in the other buffer; packet_end executes  *)
(* those same commands.  The buffers alternate with every valid packet, of *)
(* the pads or of the memory card, and are never cleared, so a packet that *)
(* stops early leaves older bytes behind it to be executed.                *)
(*                                                                         *)
(* A buffer is its command (byte 1), its tap byte (2), and for each pad    *)
(* the bytes of the tap that hold its command (3 + 8 j) and its argument   *)
(* (5 + 8 j).  Without the tap byte 3 is the argument of the command.      *)
(***************************************************************************)
EXTENDS Integers, FiniteSets

CONSTANTS
  Pads,       \* pads of the tap: an initial part of Nat
  Kinds,      \* what a pad may be configured as
  MaxEvents   \* bound: packets of the port, presses and releases of the analog buttons

Cmds == {"poll", "config", "analog", "desc"}  \* 0x42, 0x43, 0x44 and 0x4F
Args == {"one", "zero"}
Bytes == Cmds \cup Args \cup {"data"}
Ids == {"digital", "analog", "pressure", "config", "mouse"}  \* 0x41 0x73 0x79 0xF3 0x12

Slot(c, a) == [cmd |-> c, arg |-> a]
Buffer(c, t, s) == [cmd |-> c, tap |-> t, slot |-> s]

Nothing == [p \in Pads |-> Slot("poll", "zero")]

VARIABLES
  root, kind,          \* root_dev_type and dev_type
  mt_state, rx_buf, active_rx_buf,
  pad,                 \* dev_id, pend_dev_id, analog_btn, and dev_desc: no sticks, the
                       \* sticks, or the pressures too
  pressed,             \* output[18]
  led,                 \* the last LED the feedback of the first pad set
  events,              \* bound
  due, owed, ran,      \* history: the commands of the last packet of the tap; those the
                       \* last packet was to execute, and those it did execute
  stale,               \* history: a packet stopped early, a card packet came between two
                       \* of the tap, or the tap was resumed over older commands
  forced               \* history: pads that left the configuration mode for another mode
                       \* when they were not in it

rxVars == <<mt_state, rx_buf, active_rx_buf>>
padVars == <<pad, led>>
tapVars == <<due, owed, ran>>
vars == <<root, kind, rxVars, padVars, pressed, events, tapVars, stale, forced>>

Init ==
  /\ root \in {"pad", "mouse", "multitap"}
  /\ kind \in IF root = "multitap" THEN [Pads -> Kinds] ELSE {[p \in Pads |-> root]}
  /\ mt_state = (IF root = "multitap" THEN "one" ELSE "zero")
  /\ rx_buf = [b \in {0, 1} |-> Buffer("poll", "one", Nothing)]
  /\ active_rx_buf = 0
  /\ pad = [p \in Pads |-> [id |-> IF kind[p] = "pad" THEN "digital" ELSE "mouse",
                            pend |-> "digital", desc |-> "none", btn |-> FALSE]]
  /\ pressed = [p \in Pads |-> FALSE]
  /\ led = FALSE /\ events = 0
  /\ due = Nothing /\ owed = Nothing /\ ran = Nothing /\ stale = FALSE /\ forced = {}

\* The bridge sets output[18] from the report of the Bluetooth pad
Press(p) ==
  /\ events < MaxEvents /\ events' = events + 1
  /\ (root = "multitap" \/ p = 0) /\ pressed' = [pressed EXCEPT ![p] = ~@]
  /\ UNCHANGED <<root, kind, rxVars, padVars, tapVars, stale, forced>>

\* ps_analog_btn_hdlr: the button acts when it is let go, in the two modes of a pad
AnalogBtn(p) ==
  IF kind[p] # "pad" \/ pad[p].id \notin {"digital", "analog"} THEN pad[p]
  ELSE IF pressed[p] THEN [pad[p] EXCEPT !.btn = TRUE]
  ELSE IF ~pad[p].btn THEN pad[p]
  ELSE IF pad[p].id = "digital"
  THEN [pad[p] EXCEPT !.btn = FALSE, !.id = "analog", !.desc = "sticks"]
  ELSE [pad[p] EXCEPT !.btn = FALSE, !.id = "digital", !.desc = "none"]

\* ps_cmd_req_hdlr
Request(s, cmd, arg) ==
  CASE cmd = "config" /\ arg = "one" /\ s.id # "config" -> [s EXCEPT !.pend = s.id, !.id = "config"]
    [] cmd = "config" /\ arg # "one" -> [s EXCEPT !.id = s.pend]
    [] cmd = "analog" /\ s.id = "config" ->
         [s EXCEPT !.pend = IF arg = "one" THEN "analog" ELSE "digital",
                   !.desc = IF arg = "one" THEN "sticks" ELSE "none"]
    [] cmd = "desc" /\ s.id = "config" ->
         [s EXCEPT !.pend = IF arg = "one" THEN "pressure" ELSE "analog",
                   !.desc = IF arg = "one" THEN "pressures" ELSE "sticks"]
    [] OTHER -> s

\* The LED of the first pad: set by its button, then by the command 0x44
Led(cmd, arg) ==
  IF cmd = "analog" /\ pad[0].id = "config" THEN arg = "one"
  ELSE IF pad[0].btn /\ ~AnalogBtn(0).btn THEN AnalogBtn(0).id = "analog" ELSE led

\* The pads of P execute slot[p] each
Execute(P, slot) ==
  /\ pad' = [p \in Pads |-> IF p \in P THEN Request(AnalogBtn(p), slot[p].cmd, slot[p].arg) ELSE pad[p]]
  /\ led' = Led(slot[0].cmd, slot[0].arg)
  /\ ran' = [p \in Pads |-> IF p \in P THEN slot[p] ELSE Nothing[p]]
  /\ forced' = forced \cup {p \in P : /\ slot[p].cmd = "config" /\ slot[p].arg # "one"
                                      /\ AnalogBtn(p).id \notin {"config", pad[p].pend}}

Sent == events < MaxEvents /\ events' = events + 1 /\ UNCHANGED <<root, kind, pressed>>
Swap == active_rx_buf' = 1 - active_rx_buf
Cur == rx_buf[active_rx_buf]
PrevSame == rx_buf[active_rx_buf]  \* mutant: the commands of this packet
Prev == rx_buf[1 - active_rx_buf]
SetCur(b) == rx_buf' = [rx_buf EXCEPT ![active_rx_buf] = b]

\* The commands that change a pad
Acting(slot) == IF slot.cmd \in Cmds \ {"poll"} THEN slot ELSE Slot("poll", "zero")

\* A packet of the pads without the tap: bytes of it arrived, of the command, the tap
\* byte and the argument.  A mouse answers 0x42 only and drops the rest
Single(c, t, a, bytes) ==
  LET got == Buffer(IF bytes >= 1 THEN c ELSE Cur.cmd,
                    IF bytes >= 2 THEN t ELSE Cur.tap,
                    IF bytes >= 3 THEN [Cur.slot EXCEPT ![0] = Slot(a, "zero")] ELSE Cur.slot)
      dropped == root = "mouse" /\ bytes >= 1 /\ c # "poll"
  IN /\ Sent /\ mt_state = "zero" /\ (bytes < 3 => ~stale)
     /\ root # "multitap" => t = "one"
     /\ IF dropped
        THEN SetCur([Cur EXCEPT !.cmd = c])
             /\ UNCHANGED <<padVars, forced, mt_state, active_rx_buf, stale, tapVars>>
        ELSE /\ SetCur(got) /\ Swap /\ due' = Nothing
             /\ owed' = [Nothing EXCEPT ![0] = Slot(c, a)]
             /\ stale' = (stale \/ bytes < 3 \/ \E p \in Pads : Acting(got.slot[p]) # Nothing[p])
             /\ Execute({0}, [got.slot EXCEPT ![0] = Slot(got.cmd, got.slot[0].cmd)])
             /\ mt_state' = IF root = "multitap" THEN got.tap ELSE mt_state

\* A packet of the tap: bytes of it arrived, of the command, the tap byte, and the
\* commands and the arguments of the pads.  The tap byte zero ends it.  (The bounds: one
\* pad at a time is sent something, one packet of a behaviour stops early, no packet of
\* the card follows it, and only the first pad has its button pressed)
Tap(t, sent, bytes) ==
  LET full == 2 + 2 * Cardinality(Pads)
      slot(p) == Slot(IF bytes >= 3 + 2 * p THEN sent[p].cmd ELSE Cur.slot[p].cmd,
                      IF bytes >= 4 + 2 * p THEN sent[p].arg ELSE Cur.slot[p].arg)
      got == Buffer(IF bytes >= 1 THEN "poll" ELSE Cur.cmd,
                    IF bytes >= 2 THEN t ELSE Cur.tap, [p \in Pads |-> slot(p)])
  IN /\ Sent /\ mt_state # "zero" /\ bytes <= full /\ (bytes < full => ~stale)
     /\ IF bytes >= 3 /\ t = "zero"
        THEN /\ SetCur([got EXCEPT !.slot = [Cur.slot EXCEPT ![0].cmd = sent[0].cmd]])
             /\ mt_state' = "zero" /\ due' = Nothing
             /\ UNCHANGED <<padVars, forced, active_rx_buf, stale, owed, ran>>
        ELSE /\ SetCur(got) /\ Swap /\ stale' = (stale \/ bytes < full)
             /\ Execute(Pads, Prev.slot)
             /\ mt_state' = got.tap
             /\ due' = sent /\ owed' = due

\* A packet of the memory card: it takes a buffer, and fills it with the card's bytes,
\* which may read as commands of the tap
Card ==
  /\ Sent /\ Swap /\ ~stale /\ stale' = (mt_state # "zero")
  /\ SetCur(Buffer("data", "zero",
                   [p \in Pads |-> Slot(IF p = 0 THEN "data" ELSE "config", "data")]))
  /\ UNCHANGED <<padVars, mt_state, forced, tapVars>>

Next ==
  \/ Press(0)
  \/ \E c \in Cmds, t, a \in Args, bytes \in 0..3 : Single(c, t, a, bytes)
  \/ \E t \in Args, c \in Cmds, a \in Args, p \in Pads, bytes \in 0..10 :
       (c = "poll" => a = "zero" /\ p = 0) /\ Tap(t, [Nothing EXCEPT ![p] = Slot(c, a)], bytes)
  \/ Card

Spec == Init /\ [][Next]_vars
-----------------------------------------------------------------------------
TypeOK ==
  /\ kind \in [Pads -> {"pad", "mouse"}] /\ mt_state \in Bytes /\ active_rx_buf \in {0, 1}
  /\ rx_buf \in [{0, 1} -> [cmd : Bytes, tap : Bytes, slot : [Pads -> [cmd : Bytes, arg : Bytes]]]]
  /\ pad \in [Pads -> [id : Ids, pend : Ids \ {"config"}, btn : BOOLEAN,
                      desc : {"none", "sticks", "pressures"}]]
  /\ led \in BOOLEAN /\ pressed \in [Pads -> BOOLEAN] /\ forced \subseteq Pads

\* A pad executes each command once: in the packet that brings it, behind the tap in the
\* one after it, unless a packet stopped early, one of the card came between, or the tap
\* was left and resumed over older commands
InTurn ==
  stale \/ \A p \in Pads : Acting(ran[p]) = Acting(owed[p])

\* The mode a pad is in, or returns to
Mode(p) == IF pad[p].id = "config" THEN pad[p].pend ELSE pad[p].id

\* A digital pad reports no sticks and its LED is off, whatever order the button and the
\* commands come in, unless it was told to leave a mode it was not in
ModeSound ==
  /\ \A p \in Pads \ forced : Mode(p) = "digital" => pad[p].desc = "none"
  /\ led /\ 0 \notin forced => Mode(0) # "digital"

PadInv == TypeOK /\ InTurn /\ ModeSound
=============================================================================
