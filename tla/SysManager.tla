----------------------------- MODULE SysManager -----------------------------
(***************************************************************************)
(* The system manager of a HW2 board (system/manager.c): sys_mgr_task maps *)
(* the Bluetooth slots to the ports of the console that have no wired pad, *)
(* tells the wired driver which ports to serve, follows the power of the   *)
(* console, and carries out the commands of the button, of the macros and  *)
(* of the other tasks.                                                     *)
(*                                                                         *)
(* The task has a low priority: the events of the controllers, the card,   *)
(* core 1 and the console go on between the slots it visits.  A slot is    *)
(* reduced to how far its controller has come; an adapter inside the       *)
(* console reads its power, an external one takes it for on.               *)
(***************************************************************************)
EXTENDS Integers, Sequences, FiniteSetsExt

CONSTANTS
  NDev,      \* BT_MAX_DEV
  NPort,     \* hw_config.port_cnt
  MaxEvents  \* bound: what the user, the console and the controllers do of themselves

ASSUME SysAssumption == NPort \in Nat \ {0} /\ NDev \in Nat /\ NDev >= NPort /\ MaxEvents \in Nat

Slots == 0..(NDev - 1)
Ports == 0..(NPort - 1)
Idx == 0..(NDev + NPort - 1)
CmdRoom == 2  \* commands a ring of 32 bytes holds

VARIABLES
  hotplug, external,    \* hw_config
  link,                 \* of each slot: "free", "page", "up", "init", "ready"
  out_idx,              \* bt_dev[].ids.out_idx
  led,                  \* the player number the controller shows
  closing,              \* slots whose link the controller was told to end
  sense, power, dirty,  \* the ports with a wired pad, the power pin, mc_get_state
  inquiry, override,    \* hci.c inquiry_state, inquiry_override
  curr,                 \* power_on_hdl: the power it saw last
  at, pass,             \* where the task is, the locals of wired_port_hdl
  cmd_q, inhibit, check_qdp,
  port_state,           \* the mask the driver was given last
  ports, booting,       \* core 1: the ports it serves; it was started and is not there yet
  notices,              \* FB_TYPE_PLAYER_LED in the feedback queue
  events,               \* bound
  fresh,                \* history: slots reset since wired_port_hdl visited them
  plugged,              \* history: ports that got a pad since they were last read
  unled,                \* history: slots whose number changed with no notice to follow
  before,               \* history: slots linked when the power was seen to fail
  missed, raced         \* history: a mask may not be given to the driver, or was too early

hwVars == <<hotplug, external>>
slotVars == <<link, out_idx, led, closing, fresh, before>>
envVars == <<sense, power, dirty, plugged>>
btVars == <<inquiry, override>>
taskVars == <<at, pass, curr, inhibit, check_qdp>>
portVars == <<port_state, ports, booting, missed, raced>>
ledVars == <<notices, unled>>
managerVars == <<hwVars, slotVars, envVars, btVars, taskVars, cmd_q, portVars, ledVars, events>>

NoPass == [i |-> 0, j |-> 0, idx |-> 0, mask |-> {}, update |-> FALSE]

\* bt_host_reset_dev on every slot, and a driver that serves every port
ManagerInit ==
  /\ link = [i \in Slots |-> "free"] /\ out_idx = [i \in Slots |-> i] /\ led = [i \in Slots |-> i]
  /\ closing = {} /\ fresh = {} /\ before = {} /\ dirty = FALSE
  /\ inquiry = FALSE /\ override = FALSE
  /\ at = "idle" /\ pass = NoPass /\ curr = FALSE /\ inhibit = FALSE /\ check_qdp = FALSE
  /\ cmd_q = <<>>
  /\ port_state = {} /\ ports = Ports /\ booting = FALSE /\ missed = FALSE /\ raced = FALSE
  /\ notices = {} /\ unled = {}
  /\ hotplug \in BOOLEAN /\ external \in BOOLEAN
  /\ sense \in SUBSET Ports /\ power \in BOOLEAN /\ (external => power) /\ plugged = sense
  /\ events = 0

Event == events < MaxEvents /\ events' = events + 1

Active == {i \in Slots : link[i] # "free"}
Linked == {i \in Slots : link[i] \in {"up", "init", "ready"}}
Ready == {i \in Slots : link[i] = "ready"}
-----------------------------------------------------------------------------
(* What the inquiry does, and bt_host_disconnect_all: a slot that is being *)
(* paged has no link to end                                                *)

StartInquiry == inquiry' = (inquiry \/ ~override)
StopInquiry == inquiry' = FALSE

KickReadyOnly == closing' = closing \cup Ready  \* mutant: BT_DEV_HID_INIT_DONE for DEVICE_FOUND

DisconnectAll == closing' = closing \cup Linked
-----------------------------------------------------------------------------
(* The controllers *)

\* A peer is paged, or its connection comes in: the first free slot
Connect ==
  /\ Event /\ Active # Slots
  /\ \E to \in {"page", "up"} : link' = [link EXCEPT ![Min(Slots \ Active)] = to]
  /\ UNCHANGED <<hwVars, out_idx, led, closing, fresh, before, envVars, btVars, taskVars, cmd_q,
                 portVars, ledVars>>

Paged(i) ==
  /\ link[i] = "page" /\ link' = [link EXCEPT ![i] = "up"]
  /\ UNCHANGED <<hwVars, out_idx, led, closing, fresh, before, envVars, btVars, taskVars, cmd_q,
                 portVars, ledVars, events>>

\* Its name or its services are known: inquiry ends, and the initialisation that
\* starts shows the number of the player
Prepare(i) ==
  /\ link[i] = "up" /\ link' = [link EXCEPT ![i] = "init"]
  /\ led' = [led EXCEPT ![i] = out_idx[i]]
  /\ unled' = unled \ {i}
  /\ StopInquiry
  /\ UNCHANGED <<hwVars, out_idx, closing, fresh, before, envVars, override, taskVars, cmd_q,
                 portVars, notices, events>>

\* BT_DEV_HID_INIT_DONE
InitDone(i) ==
  /\ link[i] = "init" /\ link' = [link EXCEPT ![i] = "ready"]
  /\ UNCHANGED <<hwVars, out_idx, led, closing, fresh, before, envVars, btVars, taskVars, cmd_q,
                 portVars, ledVars, events>>

\* DISCONN_COMPLETE, or paging failed: bt_host_reset_dev, which hides from the next pass
\* that the driver was given another number
Reset(i) ==
  /\ link' = [link EXCEPT ![i] = "free"]
  /\ out_idx' = [out_idx EXCEPT ![i] = i]
  /\ closing' = closing \ {i} /\ before' = before \ {i} /\ fresh' = fresh \cup {i}
  /\ IF Active = {i} THEN StartInquiry ELSE UNCHANGED inquiry
  /\ missed' = (missed \/ (~hotplug /\ out_idx[i] # i))
  /\ UNCHANGED <<hwVars, led, envVars, override, taskVars, cmd_q, port_state, ports, booting, raced,
                 ledVars>>

Closed(i) == i \in closing /\ Reset(i) /\ UNCHANGED events
Leave(i) == Event /\ i \in Active \ closing /\ Reset(i)
-----------------------------------------------------------------------------
(* The console, the card and core 1 *)

Plug(p) ==
  /\ Event
  /\ sense' = IF p \in sense THEN sense \ {p} ELSE sense \cup {p}
  /\ plugged' = IF p \in sense THEN plugged \ {p} ELSE plugged \cup {p}
  /\ UNCHANGED <<hwVars, slotVars, power, dirty, btVars, taskVars, cmd_q, portVars, ledVars>>

Power ==
  /\ Event /\ ~external /\ power' = ~power
  /\ UNCHANGED <<hwVars, slotVars, sense, dirty, plugged, btVars, taskVars, cmd_q, portVars, ledVars>>

Written ==
  /\ Event /\ ~dirty /\ dirty' = TRUE
  /\ UNCHANGED <<hwVars, slotVars, sense, power, plugged, btVars, taskVars, cmd_q, portVars, ledVars>>

Stored ==
  /\ dirty /\ dirty' = FALSE
  /\ UNCHANGED <<hwVars, slotVars, sense, power, plugged, btVars, taskVars, cmd_q, portVars, ledVars,
                 events>>

\* The end of the driver's init: every port
CoreInit ==
  /\ booting /\ booting' = FALSE /\ ports' = Ports
  /\ UNCHANGED <<hwVars, slotVars, envVars, btVars, taskVars, cmd_q, port_state, missed, raced,
                 ledVars, events>>

\* bt_fb_task: the first active slot with the number shows it
FbTask ==
  \E n \in notices :
    LET owners == {i \in Ready : out_idx[i] = n}
    IN /\ notices' = notices \ {n}
       /\ led' = IF owners = {} THEN led ELSE [led EXCEPT ![Min(owners)] = n]
       /\ unled' = unled \cup (owners \ {d \in owners : led'[d] = n})
       /\ UNCHANGED <<hwVars, link, out_idx, closing, fresh, before, envVars, btVars, taskVars, cmd_q,
                      portVars, events>>

\* sys_mgr_cmd; the macros of a controller, and the other tasks
Ask(c) ==
  /\ Event /\ Len(cmd_q) < CmdRoom
  /\ c \in {"off", "inquiry"} => Ready # {}
  /\ cmd_q' = Append(cmd_q, c)
  /\ UNCHANGED <<hwVars, slotVars, envVars, btVars, taskVars, portVars, ledVars>>
-----------------------------------------------------------------------------
(* sys_mgr_task: the commands *)

Goto(where) == at' = where /\ UNCHANGED <<pass, curr>>
Carry(c) == at = "idle" /\ cmd_q # <<>> /\ Head(cmd_q) = c

CmdOff ==
  /\ Carry("off") /\ cmd_q' = Tail(cmd_q) /\ DisconnectAll
  /\ UNCHANGED <<hwVars, link, out_idx, led, fresh, before, envVars, btVars, taskVars, portVars,
                 ledVars, events>>

Toggle == IF inquiry THEN StopInquiry ELSE StartInquiry

CmdInquiry ==
  /\ Carry("inquiry") /\ cmd_q' = Tail(cmd_q) /\ Toggle
  /\ UNCHANGED <<hwVars, slotVars, envVars, override, taskVars, portVars, ledVars, events>>

CmdWiredKeeps ==  \* mutant: port_state is kept
  /\ Carry("wired") /\ cmd_q' = Tail(cmd_q)
  /\ booting' = TRUE /\ missed' = ~hotplug
  /\ UNCHANGED <<hwVars, slotVars, envVars, btVars, taskVars, port_state, ports, raced, ledVars, events>>

\* Without hotplug nothing gives the new driver its mask
CmdWired ==
  /\ Carry("wired") /\ cmd_q' = Tail(cmd_q)
  /\ booting' = TRUE /\ port_state' = {} /\ missed' = ~hotplug
  /\ UNCHANGED <<hwVars, slotVars, envVars, btVars, taskVars, ports, raced, ledVars, events>>

\* Factory reset, restart, and deep sleep until somebody wakes the adapter
Restarts ==
  /\ link' = [i \in Slots |-> "free"] /\ out_idx' = [i \in Slots |-> i]
  /\ led' = [i \in Slots |-> i]
  /\ closing' = {} /\ fresh' = {} /\ before' = {} /\ dirty' = FALSE /\ plugged' = sense
  /\ inquiry' = FALSE /\ override' = FALSE
  /\ at' = "idle" /\ pass' = NoPass /\ curr' = FALSE /\ inhibit' = FALSE /\ check_qdp' = FALSE
  /\ cmd_q' = <<>>
  /\ port_state' = {} /\ ports' = Ports /\ booting' = FALSE /\ missed' = FALSE /\ raced' = FALSE
  /\ notices' = {} /\ unled' = {}
  /\ UNCHANGED <<hwVars, sense, power, events>>
CmdRestart == Carry("restart") /\ Restarts
-----------------------------------------------------------------------------
(* boot_btn_hdl: the task waits while the button is held *)

Press ==
  /\ Event /\ at = "idle" /\ ~inhibit /\ Goto("held") /\ check_qdp' = FALSE
  /\ UNCHANGED <<hwVars, slotVars, envVars, btVars, inhibit, cmd_q, portVars, ledVars>>

\* hold: the thresholds passed, one more for an external adapter.  With the console off
\* it is switched on: the power changes, or does not, by itself
Release(hold) ==
  LET state == IF external THEN hold + 1 ELSE hold
  IN /\ at = "held" /\ (power => state < 3)
     /\ Goto("idle") /\ inhibit' = TRUE
     /\ check_qdp' = (power /\ state = 0)
     /\ CASE power /\ state = 1 ->
               IF inquiry THEN StopInquiry /\ UNCHANGED closing
                          ELSE DisconnectAll /\ UNCHANGED inquiry
          [] power /\ state = 2 -> StartInquiry /\ UNCHANGED closing
          [] OTHER -> UNCHANGED <<closing, inquiry>>
     /\ UNCHANGED <<hwVars, link, out_idx, led, fresh, before, envVars, override, cmd_q, portVars,
                    ledVars, events>>

ReleaseLong(hold) ==
  /\ at = "held" /\ power /\ hold + (IF external THEN 1 ELSE 0) >= 3
  /\ Restarts

\* A second press right after the reset
PowerOff ==
  /\ Event /\ at = "idle" /\ inhibit /\ check_qdp /\ power
  /\ check_qdp' = FALSE /\ DisconnectAll
  /\ UNCHANGED <<hwVars, link, out_idx, led, fresh, before, envVars, btVars, at, pass, curr, inhibit,
                 cmd_q, portVars, ledVars>>

InhibitEnd ==
  /\ at = "idle" /\ inhibit /\ inhibit' = FALSE
  /\ UNCHANGED <<hwVars, slotVars, envVars, btVars, at, pass, curr, check_qdp, cmd_q, portVars,
                 ledVars, events>>
-----------------------------------------------------------------------------
(* wired_port_hdl: slot i takes the next port that senses no wired pad *)

PassStart ==
  /\ at = "idle" /\ at' = "ports" /\ pass' = NoPass
  /\ UNCHANGED <<hwVars, slotVars, envVars, btVars, curr, inhibit, check_qdp, cmd_q, portVars,
                 ledVars, events>>

VisitSame(i) ==  \* mutant: idx is not advanced after the slot
  /\ at = "ports" /\ pass.i = i
  /\ LET free == {p \in Ports \ sense : p >= pass.j}
         stop == IF free = {} THEN NPort ELSE Min(free)
         idx == pass.idx + stop - pass.j
     IN /\ out_idx' = [out_idx EXCEPT ![i] = idx]
        /\ pass' = [pass EXCEPT !.i = i + 1, !.j = Min({stop + 1, NPort}), !.idx = idx,
                                !.mask = @ \cup (IF hotplug /\ i \notin Ready THEN {} ELSE {idx}),
                                !.update = @ \/ idx # out_idx[i]]
        /\ plugged' = plugged \ (pass.j..stop)
        /\ fresh' = fresh \ {i}
        /\ UNCHANGED <<notices, unled>>
  /\ UNCHANGED <<hwVars, link, led, closing, before, sense, power, dirty, btVars, at, curr, inhibit,
                 check_qdp, cmd_q, portVars, events>>

\* The notice of a new number: the feedback queue takes it, or is muted or full
Notify(i, idx) ==
  IF idx # out_idx[i] /\ i \in Ready
    THEN \/ notices' = notices \cup {idx} /\ UNCHANGED unled
         \/ unled' = unled \cup {i} /\ UNCHANGED notices
    ELSE /\ unled' = IF idx # out_idx[i] THEN unled \cup {i} ELSE unled
         /\ UNCHANGED notices

Visit(i) ==
  /\ at = "ports" /\ pass.i = i
  /\ LET free == {p \in Ports \ sense : p >= pass.j}
         stop == IF free = {} THEN NPort ELSE Min(free)
         idx == pass.idx + stop - pass.j
     IN /\ out_idx' = [out_idx EXCEPT ![i] = idx]
        /\ pass' = [pass EXCEPT !.i = i + 1, !.j = Min({stop + 1, NPort}), !.idx = idx + 1,
                                !.mask = @ \cup (IF hotplug /\ i \notin Ready THEN {} ELSE {idx}),
                                !.update = @ \/ idx # out_idx[i]]
        /\ plugged' = plugged \ (pass.j..stop)
        /\ fresh' = fresh \ {i}
        /\ Notify(i, idx)
  /\ UNCHANGED <<hwVars, link, led, closing, before, sense, power, dirty, btVars, at, curr, inhibit,
                 check_qdp, cmd_q, portVars, events>>

\* The driver gets a new mask, but not while the card has blocks to store
PassEnd ==
  LET update == pass.update \/ (hotplug /\ port_state # pass.mask)
  IN /\ at = "ports" /\ pass.i = NDev
     /\ at' = (IF external THEN "idle" ELSE "power") /\ pass' = NoPass
     /\ IF update /\ ~dirty
          THEN port_state' = pass.mask /\ ports' = pass.mask \cap Ports
               /\ missed' = (~hotplug /\ pass.mask # {out_idx[i] : i \in Slots}) /\ raced' = booting
          ELSE missed' = (missed \/ (update /\ ~hotplug)) /\ UNCHANGED <<port_state, ports, raced>>
     /\ UNCHANGED <<hwVars, slotVars, envVars, btVars, curr, inhibit, check_qdp, cmd_q, booting,
                    ledVars, events>>
-----------------------------------------------------------------------------
(* power_on_hdl *)

PowerStep(where) == at = "power" /\ at' = where /\ curr' = power

\* With nobody to play, the adapter looks for a controller
ConsoleOn ==
  /\ power /\ PowerStep("idle") /\ override' = FALSE
  /\ inquiry' = (inquiry \/ (Active = {} /\ sense = {}))
  /\ UNCHANGED <<hwVars, slotVars, envVars, pass, inhibit, check_qdp, cmd_q, portVars, ledVars, events>>

\* It went off: kick the controllers
ConsoleFell ==
  /\ ~power /\ curr /\ PowerStep("idle")
  /\ DisconnectAll /\ before' = Linked
  /\ override' = TRUE /\ StopInquiry
  /\ UNCHANGED <<hwVars, link, out_idx, led, fresh, envVars, pass, inhibit, check_qdp, cmd_q, portVars,
                 ledVars, events>>

\* A controller switches the console on; the task waits for the end of the pulse
ConsoleWake ==
  /\ ~power /\ ~curr /\ Ready # {} /\ PowerStep("wake")
  /\ override' = FALSE
  /\ UNCHANGED <<hwVars, slotVars, envVars, inquiry, pass, inhibit, check_qdp, cmd_q, portVars,
                 ledVars, events>>

ConsoleOff ==
  /\ ~power /\ ~curr /\ Ready = {} /\ PowerStep("idle")
  /\ override' = TRUE /\ StopInquiry
  /\ UNCHANGED <<hwVars, slotVars, envVars, pass, inhibit, check_qdp, cmd_q, portVars, ledVars, events>>

Woken ==
  /\ at = "wake" /\ Goto("idle")
  /\ UNCHANGED <<hwVars, slotVars, envVars, btVars, inhibit, check_qdp, cmd_q, portVars, ledVars, events>>
-----------------------------------------------------------------------------
Command == CmdOff \/ CmdInquiry \/ CmdWired \/ CmdRestart
Held == \E hold \in 0..3 : Release(hold) \/ ReleaseLong(hold)
Pass ==
  \/ PassStart \/ (\E i \in Slots : Visit(i)) \/ PassEnd
  \/ ConsoleOn \/ ConsoleFell \/ ConsoleWake \/ ConsoleOff \/ Woken
Ends == \E i \in Slots : Closed(i)

ManagerNext ==
  \/ Connect \/ (\E i \in Slots : Paged(i) \/ Prepare(i) \/ InitDone(i) \/ Leave(i)) \/ Ends
  \/ (\E p \in Ports : Plug(p)) \/ Power \/ Written \/ Stored \/ CoreInit \/ FbTask
  \/ \E c \in {"off", "inquiry", "wired", "restart"} : Ask(c)
  \/ Command \/ Press \/ Held \/ PowerOff \/ InhibitEnd \/ Pass

ManagerSpec == ManagerInit /\ [][ManagerNext]_managerVars

(* The task goes round, taking a command each time there is one; links     *)
(* that are to end do, the card is stored, core 1 comes up, and the button *)
(* is let go.                                                              *)
ManagerFair ==
  /\ ManagerSpec /\ WF_managerVars(Pass) /\ SF_managerVars(Command) /\ WF_managerVars(Held)
  /\ WF_managerVars(Ends) /\ WF_managerVars(Stored) /\ WF_managerVars(CoreInit)
-----------------------------------------------------------------------------
(* Every variable stays in its domain. *)
ManagerTypes ==
  /\ link \in [Slots -> {"free", "page", "up", "init", "ready"}]
  /\ out_idx \in [Slots -> Idx] /\ led \in [Slots -> Idx]
  /\ closing \subseteq Linked /\ before \subseteq Linked
  /\ at \in {"idle", "held", "ports", "power", "wake"} /\ pass.i \in 0..NDev /\ pass.j \in 0..NPort
  /\ Len(cmd_q) <= CmdRoom /\ port_state \subseteq Idx /\ ports \subseteq Ports

(* Between two passes no two controllers drive the same port, and none the *)
(* port of a wired pad, except in the time a slot that was reset or a pad  *)
(* that was plugged waits for the next pass.                               *)
PortsDistinct ==
  at = "idle" =>
    /\ \A i \in Slots \ fresh, j \in Slots \ fresh : out_idx[i] = out_idx[j] => i = j
    /\ \A i \in Slots \ fresh : out_idx[i] \in sense => out_idx[i] \in plugged

(* What the manager takes for the mask of the driver is its mask, unless   *)
(* core 1 was still starting when it was given.                            *)
MaskTrue == port_state # {} /\ ~booting /\ ~raced => ports = port_state \cap Ports

(* A controller shows the number of the port it drives, or a notice is on  *)
(* its way; not if its number changed while it was initialised or with the *)
(* feedback queue muted or full, or while it shared the number of a slot   *)
(* just reset.                                                             *)
LedTrue ==
  \A i \in Ready \ unled : led[i] # out_idx[i] => out_idx[i] \in notices

ManagerSound == ManagerTypes /\ PortsDistinct /\ MaskTrue /\ LedTrue

(* A console that is off is switched on only for a controller that came    *)
(* since, or one that was sent away and whose link has not ended yet: the  *)
(* next pass, 320 ms later, does not wait for that.                        *)
WakeHasCause ==
  [][at # "wake" /\ at' = "wake" => \E i \in Ready : i \notin before \/ i \in closing]_managerVars

Wanted == {out_idx[i] : i \in IF hotplug THEN Ready ELSE Slots} \cap Ports

(* When nothing changes any more, the driver serves the ports of the       *)
(* controllers, but for a mask that was given to a core that was starting, *)
(* an empty one, which port_state takes for given, and without hotplug one *)
(* that was skipped because of the card, was lost with the driver, or      *)
(* whose change the reset of a slot hid.  An adapter whose console is off  *)
(* does not look for controllers; one whose console is on and has nobody   *)
(* to play does.                                                           *)
SysFollows ==
  <>[](/\ ports = Wanted \/ missed \/ raced \/ (port_state = {} /\ ports = Ports)
       /\ ~external /\ ~power /\ Ready = {} => ~inquiry
       /\ ~external /\ power /\ Active = {} /\ sense = {} => inquiry)
=============================================================================
