-------------------------------- MODULE Nsi --------------------------------
(***************************************************************************)
(* The accessories of the Nintendo 64 controllers (wired/nsi.c, n64_isr    *)
(* and n64_pad_cmd_hdlr): the pak each channel shows, how a change of the  *)
(* configuration is shown to the console as a pak pulled and another put   *)
(* in.                                                                     *)
(*                                                                         *)
(* The interrupt of core 1 reads the configuration that the tasks of core  *)
(* 0 write; it notices a change at the next command of any channel.        *)
(***************************************************************************)
EXTENDS Integers

CONSTANTS
  Channels,   \* controllers: an initial part of Nat
  Banks,      \* values of banksel
  Countdown,  \* answers without a pak after a change (0x20)
  MaxChange   \* bound: changes of the configuration

Modes == {"none", "mem", "rumble", "both"}   \* acc_mode
Devs == {"pad", "other"}                     \* dev_mode: other is a keyboard or a mouse
Unknown == <<"unknown", 0>>
Empty == <<"none", 0>>

VARIABLES
  acc_mode, dev_mode, banksel,   \* config.out_cfg and config.global_cfg
  ctrl_acc_mode, ctrl_mem_banksel, ctrl_acc_update, ctrl_init,
  changes,                       \* bound
  told,                          \* history: the pak the console has seen in each channel
  swapped                        \* history: a pak became another one under its eyes

configVars == <<acc_mode, dev_mode, banksel, changes>>
ctrlVars == <<ctrl_acc_mode, ctrl_mem_banksel, ctrl_init>>
vars == <<configVars, ctrlVars, ctrl_acc_update, told, swapped>>

Init ==
  /\ acc_mode \in [Channels -> Modes] /\ dev_mode = [c \in Channels |-> "pad"]
  /\ banksel \in Banks /\ changes = 0
  /\ ctrl_acc_mode = [c \in Channels |-> "none"] /\ ctrl_mem_banksel = 0
  /\ ctrl_acc_update = [c \in Channels |-> 0] /\ ctrl_init = FALSE
  /\ told = [c \in Channels |-> Unknown] /\ swapped = FALSE

\* The pak a channel gives access to: each bank is a quarter of the memory card
Pak(c) ==
  CASE acc_mode[c] = "mem" -> <<"mem", (c + banksel) % 4>>
    [] acc_mode[c] = "rumble" -> <<"rumble", 0>>
    [] OTHER -> Empty

\* A configuration is loaded, or edited by the web page (bound: of one channel at a time)
Reconfigure ==
  /\ changes < MaxChange /\ changes' = changes + 1
  /\ banksel' \in Banks
  /\ \E c \in Channels, mode \in Modes, dev \in Devs :
       /\ acc_mode' = [acc_mode EXCEPT ![c] = mode]
       /\ dev_mode' = [dev_mode EXCEPT ![c] = dev]
  /\ UNCHANGED <<ctrlVars, ctrl_acc_update, told, swapped>>

\* n64_isr, before any command: what changed since the last one, one thing at a time
NoticedHere(c) ==  \* mutant: another bank is shown on the channel that noticed it only
  IF ~ctrl_init THEN ctrl_acc_update
  ELSE IF banksel # ctrl_mem_banksel \/ acc_mode[c] # ctrl_acc_mode[c]
  THEN [ctrl_acc_update EXCEPT ![c] = Countdown]
  ELSE ctrl_acc_update
Noticed(c) ==
  IF ~ctrl_init THEN ctrl_acc_update
  ELSE IF banksel # ctrl_mem_banksel THEN [d \in Channels |-> Countdown]
  ELSE IF acc_mode[c] # ctrl_acc_mode[c] THEN [ctrl_acc_update EXCEPT ![c] = Countdown]
  ELSE ctrl_acc_update
Notice(c) ==
  /\ ctrl_init' = TRUE /\ ctrl_mem_banksel' = banksel
  /\ ctrl_acc_mode' = IF ~ctrl_init THEN acc_mode
                      ELSE IF banksel # ctrl_mem_banksel THEN ctrl_acc_mode
                      ELSE [ctrl_acc_mode EXCEPT ![c] = acc_mode[c]]

\* The console learns of a pak from the answers empty and change; "occupied" tells it
\* that what it has seen is still there
Identify(c) ==
  LET update == Noticed(c)
      status == IF dev_mode[c] # "pad" \/ acc_mode[c] \notin {"mem", "rumble"} \/ update[c] > 1
                THEN "empty" ELSE IF update[c] = 1 THEN "change" ELSE "occupied"
      seen == status = "occupied" /\ told[c] \notin {Unknown, Empty}
  IN /\ Notice(c)
     /\ ctrl_acc_update' =
          IF dev_mode[c] = "pad" /\ acc_mode[c] \in {"mem", "rumble"} /\ update[c] > 0
          THEN [update EXCEPT ![c] = @ - 1] ELSE update
     /\ told' = [told EXCEPT ![c] = IF status = "empty" THEN Empty ELSE IF seen THEN @ ELSE Pak(c)]
     /\ swapped' = (swapped \/ (seen /\ told[c] # Pak(c)))
     /\ UNCHANGED configVars

\* 0x01, the state of the buttons; a keyboard does not know it and is identified
Poll(c) ==
  LET update == Noticed(c)
  IN /\ dev_mode[c] = "pad" /\ Notice(c)
     /\ ctrl_acc_update' = [update EXCEPT ![c] = IF @ > 1 THEN @ - 1 ELSE @]
     /\ UNCHANGED <<configVars, told, swapped>>

\* 0x02, 0x03 and the game id: what they read and write is left out, the rumble
\* values too; they notice a change, and no notice holds them back
Access(c) == Notice(c) /\ ctrl_acc_update' = Noticed(c) /\ UNCHANGED <<configVars, told, swapped>>

Next == Reconfigure \/ \E c \in Channels : Identify(c) \/ Poll(c) \/ Access(c)

Spec == Init /\ [][Next]_vars
-----------------------------------------------------------------------------
TypeOK ==
  /\ acc_mode \in [Channels -> Modes] /\ dev_mode \in [Channels -> Devs] /\ banksel \in Banks
  /\ ctrl_acc_mode \in [Channels -> Modes] /\ ctrl_acc_update \in [Channels -> 0..Countdown]
  /\ {ctrl_init, swapped} \subseteq BOOLEAN /\ changes \in 0..MaxChange

\* A pak the console has seen in a channel never becomes another one, or another bank of
\* the card, while its answers go on saying "occupied": an answer "empty" or "change"
\* comes first, whatever changes meet and on whichever channel they are noticed
NoSilentSwap == ~swapped

\* After a command of a channel, what it was shown is its pak, or a notice is due
ToldOrDue ==
  \A c \in Channels :
    told[c] \in {Unknown, Empty, Pak(c)} \/ ctrl_acc_update[c] > 0
      \/ banksel # ctrl_mem_banksel \/ acc_mode[c] # ctrl_acc_mode[c] \/ dev_mode[c] # "pad"

NsiInv == TypeOK /\ NoSilentSwap /\ ToldOrDue
=============================================================================
