------------------------------- MODULE Rumble -------------------------------
(***************************************************************************)
(* Rumble between the console and the controllers: the driver of the       *)
(* wired side queues what the console asks for (adapter_q_fb, best         *)
(* effort), bt_fb_task hands it to the controller of the port, and timers  *)
(* end a rumble: those of adapter_toggle_fb, which tells the player with a *)
(* short rumble that the pak of an N64 port, or the mapping of a GameCube  *)
(* one, was changed and mutes the console meanwhile, or those of the       *)
(* duration a Dreamcast gave.                                              *)
(*                                                                         *)
(* Core 1 runs the driver; the callback of the controller, the esp_timer   *)
(* task and bt_fb_task share core 0 and preempt each other in this order.  *)
(***************************************************************************)
EXTENDS Naturals, Sequences

CONSTANTS
  Ports,
  Cap,      \* items of the feedback queue
  MaxOld    \* bound: timers of a port that run on without a handle

VARIABLES
  drv,      \* "pak": nsi.c, with toggles; "dc": maple.c, with durations
  want,     \* last_rumble: what the console last asked for; a Dreamcast asks for bursts
  fbq,      \* wired_adapter.input_q_hdl: pairs of a port and on or off
  mute,     \* rumble_mute
  hdl,      \* fb_timer_hdl of each port: none, created, armed or expired
  old,      \* timers still armed whose handle was dropped
  cb,       \* adapter_fb_stop_cb: its port and what it does next
  fb,       \* bt_fb_task, in dc_fb_to_generic: likewise
  ready, out, motor,  \* the controller of a port: its output report, and the one it was sent
  due,      \* bt_fb_task has outputs to send
  muter, excused      \* history: the port whose toggle muted; a stop that was refused

pathVars == <<want, fbq, mute, muter, excused>>
timerVars == <<hdl, old, cb>>
padVars == <<ready, out, motor>>
taskVars == <<fb, due>>
vars == <<drv, pathVars, timerVars, padVars, taskVars>>

NoPort == 0
Idle == <<NoPort, "idle">>

Init ==
  /\ drv \in {"pak", "dc"} /\ want = [p \in Ports |-> FALSE] /\ fbq = <<>>
  /\ mute = FALSE /\ muter = NoPort /\ excused = [p \in Ports |-> FALSE]
  /\ hdl = [p \in Ports |-> "none"] /\ old = [p \in Ports |-> 0] /\ cb = Idle
  /\ fb = Idle /\ due = FALSE
  /\ ready = [p \in Ports |-> FALSE]
  /\ out = [p \in Ports |-> FALSE] /\ motor = [p \in Ports |-> FALSE]

\* adapter_q_fb: refused when muted, lost when the queue is full
Enqueue(p, on) ==
  IF ~mute /\ Len(fbq) < Cap
  THEN fbq' = Append(fbq, <<p, on>>) /\ excused' = [excused EXCEPT ![p] = FALSE]
  ELSE /\ excused' = [excused EXCEPT ![p] = @ \/ (~on /\ (mute => muter # p))]
       /\ UNCHANGED fbq

\* The console writes another rumble value, or a Dreamcast a condition; the driver
\* remembers it whether it could be queued or not
Ask(p, on) ==
  /\ drv = "pak" => on # want[p]
  /\ want' = IF drv = "pak" THEN [want EXCEPT ![p] = on] ELSE want
  /\ Enqueue(p, on)
  /\ UNCHANGED <<drv, mute, muter, timerVars, padVars, taskVars>>

\* adapter_toggle_fb, in the callback: a timer that is there is not started again
Toggle(p) ==
  /\ drv = "pak" /\ ready[p] /\ ~mute
  /\ mute' = TRUE /\ muter' = p
  /\ hdl' = IF hdl[p] = "none" THEN [hdl EXCEPT ![p] = "armed"] ELSE hdl
  /\ out' = [out EXCEPT ![p] = TRUE] /\ motor' = [motor EXCEPT ![p] = TRUE]
  /\ UNCHANGED <<drv, want, fbq, excused, old, cb, ready, taskVars>>

\* adapter_fb_stop_timer_stop: esp_timer_delete refuses a timer that is armed, which
\* then runs on, but the handle is forgotten
StopTimer(p) ==
  /\ hdl' = [hdl EXCEPT ![p] = "none"]
  /\ old' = IF hdl[p] = "armed" THEN [old EXCEPT ![p] = @ + 1] ELSE old
-----------------------------------------------------------------------------
(* adapter_fb_stop_cb, in the esp_timer task *)

Fire(p) ==
  /\ cb = Idle /\ cb' = <<p, "stop">>
  /\ \/ hdl[p] = "armed" /\ hdl' = [hdl EXCEPT ![p] = "expired"] /\ UNCHANGED old
     \/ old[p] > 0 /\ old' = [old EXCEPT ![p] = @ - 1] /\ UNCHANGED hdl
  /\ UNCHANGED <<drv, pathVars, padVars, taskVars>>

CbStopNot(p) ==  \* mutant: the callback keeps the handle of the timer that expired
  /\ cb = <<p, "stop">> /\ cb' = <<p, "unmute">>
  /\ UNCHANGED <<drv, pathVars, hdl, old, padVars, taskVars>>
CbStop(p) ==
  /\ cb = <<p, "stop">> /\ cb' = <<p, "unmute">>
  /\ StopTimer(p)
  /\ UNCHANGED <<drv, pathVars, padVars, taskVars>>

CbUnmute(p) ==
  /\ cb = <<p, "unmute">> /\ cb' = <<p, "queue">>
  /\ mute' = FALSE
  /\ UNCHANGED <<drv, want, fbq, muter, excused, hdl, old, padVars, taskVars>>

CbQueue(p) ==
  /\ cb = <<p, "queue">> /\ cb' = Idle
  /\ Enqueue(p, FALSE)
  /\ UNCHANGED <<drv, want, mute, muter, hdl, old, padVars, taskVars>>
-----------------------------------------------------------------------------
(* bt_fb_task, adapter_bridge_fb and fb_to_generic of the driver *)

Runs == cb = Idle

\* Without a controller on the port nothing is done; an on of a Dreamcast starts a timer
Handle ==
  LET p == fbq[1][1]
      on == fbq[1][2]
      timed == drv = "dc" /\ ready[p]
  IN /\ Runs /\ fb = Idle /\ fbq # <<>>
     /\ fbq' = Tail(fbq)
     /\ timed => old[p] < MaxOld
     /\ IF timed THEN StopTimer(p) ELSE UNCHANGED <<hdl, old>>
     /\ fb' = IF timed /\ on THEN <<p, "create">> ELSE Idle
     /\ IF ready[p] /\ ~(timed /\ on)
        THEN out' = [out EXCEPT ![p] = on] /\ due' = TRUE
        ELSE UNCHANGED <<out, due>>
     /\ UNCHANGED <<drv, want, mute, muter, excused, cb, ready, motor>>

\* adapter_fb_stop_timer_start
Create(p) ==
  /\ Runs /\ fb = <<p, "create">> /\ fb' = <<p, "start">>
  /\ hdl' = [hdl EXCEPT ![p] = "created"]
  /\ UNCHANGED <<drv, pathVars, old, cb, padVars, due>>

\* The handle is read again: an old timer that fired in between has deleted the new one
Start(p) ==
  /\ Runs /\ fb = <<p, "start">> /\ fb' = Idle
  /\ hdl' = IF hdl[p] = "created" THEN [hdl EXCEPT ![p] = "armed"] ELSE hdl
  /\ out' = [out EXCEPT ![p] = ready[p]] /\ due' = TRUE
  /\ UNCHANGED <<drv, pathVars, old, cb, ready, motor>>

Send ==
  /\ Runs /\ fb = Idle /\ fbq = <<>> /\ due
  /\ due' = FALSE
  /\ motor' = [p \in Ports |-> IF ready[p] THEN out[p] ELSE motor[p]]
  /\ UNCHANGED <<drv, pathVars, timerVars, ready, out, fb>>
-----------------------------------------------------------------------------
\* The initialisation of a controller ends; its link is closed (bt_host_reset_dev)
Arrive(p) ==
  /\ ~ready[p] /\ ready' = [ready EXCEPT ![p] = TRUE]
  /\ UNCHANGED <<drv, pathVars, timerVars, out, motor, taskVars>>
Leave(p) ==
  /\ ready[p] /\ ready' = [ready EXCEPT ![p] = FALSE]
  /\ out' = [out EXCEPT ![p] = FALSE] /\ motor' = [motor EXCEPT ![p] = FALSE]
  /\ UNCHANGED <<drv, pathVars, timerVars, taskVars>>

Next ==
  \/ \E p \in Ports :
       \/ \E on \in BOOLEAN : Ask(p, on)
       \/ Toggle(p) \/ Fire(p) \/ CbStop(p) \/ CbUnmute(p) \/ CbQueue(p)
       \/ Create(p) \/ Start(p) \/ Arrive(p) \/ Leave(p)
  \/ Handle \/ Send
-----------------------------------------------------------------------------
TypeOK ==
  /\ drv \in {"pak", "dc"} /\ want \in [Ports -> BOOLEAN] /\ mute \in BOOLEAN
  /\ fbq \in Seq(Ports \X BOOLEAN) /\ Len(fbq) <= Cap
  /\ hdl \in [Ports -> {"none", "created", "armed", "expired"}]
  /\ old \in [Ports -> 0..MaxOld + 1]
  /\ \A v \in {ready, out, motor, excused} : v \in [Ports -> BOOLEAN]

\* While the console is muted a timer is coming that ends it, whatever ports toggle
\* and whoever leaves
MuteEnds ==
  mute => \E p \in Ports : hdl[p] = "armed" \/ cb \in {<<p, "stop">>, <<p, "unmute">>}

\* A stop of the port is under way: a timer, its callback, or what bt_fb_task has to do;
\* whatever a Dreamcast asks for ends by itself
Stopping(p) ==
  \/ hdl[p] = "armed" \/ old[p] > 0 \/ cb[1] = p \/ fb[1] = p
  \/ \E i \in DOMAIN fbq : fbq[i][1] = p /\ (drv = "dc" \/ ~fbq[i][2])
  \/ due /\ ~out[p]

\* A motor runs only while the console wants it to, or until a stop that is under way,
\* unless a stop was lost to a full queue or to the toggle of another port
StopsComing == \A p \in Ports : motor[p] => want[p] \/ Stopping(p) \/ excused[p]

RumbleInv == TypeOK /\ MuteEnds /\ StopsComing
=============================================================================
