------------------------------- MODULE SegaIo -------------------------------
(***************************************************************************)
(* The two ports of a Genesis (wired/sega_io.c, sega_genesis_task): core 1 *)
(* watches the level TH the console drives on each port and shows the set  *)
(* of buttons it selects; for a six button pad it counts the changes of a  *)
(* poll.  One loop serves both ports; while a poll goes on it stalls core  *)
(* 0 (system/core0_stall.c and core0_stall_highint_hdl.S).                 *)
(*                                                                         *)
(* The loop compares samples of both levels.  To show the buttons for a    *)
(* change takes time; then it takes another sample to compare with, and    *)
(* what changed in between it never sees.                                  *)
(***************************************************************************)
EXTENDS Integers

CONSTANT DevPairs   \* dev_type of the two ports: "3" and "6" buttons, "serial" for a mouse
                    \* or a multitap, which answer by the three wire handshake

PortIds == {1, 2}
Other(p) == 3 - p
None == <<0, 0>>    \* no port: waiting for the first change of a poll; nothing to serve

VARIABLES
  dev, th,                     \* what is plugged; the levels, TRUE is high
  prev, cur,                   \* the samples compared
  pc,                          \* <<port, cycle>> of the poll, None between polls
  serve,                       \* <<port, cycle>> the change seen leads to
  ending, serial,              \* at next_poll; in the handshake of the port of pc
  shown,                       \* the set of buttons each port shows
  lock,
  core0, pending,              \* core 0 "runs" or "waits"; its interrupt
  start_var, end_var,
  overlooked,                  \* history: ports whose level differs from the set they show
  hasty                        \* history: a stall began before core 0 saw the last one end

lines == <<dev, th>>
loop == <<prev, cur, pc, serve, ending, serial, shown, lock>>
stall == <<core0, pending, start_var, end_var, hasty>>
vars == <<lines, loop, stall, overlooked>>

Init ==
  /\ dev \in DevPairs
  /\ th = [p \in PortIds |-> TRUE] /\ prev = th /\ cur = th
  /\ pc = None /\ serve = None /\ ending = FALSE /\ serial = FALSE
  /\ shown = [p \in PortIds |-> "high"] /\ lock = FALSE
  /\ core0 = "runs" /\ pending = FALSE /\ start_var = FALSE /\ end_var = FALSE
  /\ overlooked = {} /\ hasty = FALSE

ButtonsAhead(cycle) ==   \* mutant: the set of the next cycle
  IF cycle % 2 = 0 THEN "high" ELSE "low"
\* The set each cycle shows: even cycles are those of a low level
Buttons(cycle) ==
  CASE cycle \in {0, 2} -> "low" [] cycle = 4 -> "low, no directions"
    [] cycle = 5 -> "extra" [] cycle = 6 -> "low, all directions" [] OTHER -> "high"
High(set) == set \in {"high", "extra"}
LastCycle(p) == IF dev[p] = "6" THEN 7 ELSE 2

\* The console
Toggle(p) == th' = [th EXCEPT ![p] = ~@] /\ UNCHANGED <<dev, loop, stall, overlooked>>

\* core0_stall_start, _end and the interrupt of core 0
StallStart ==
  IF lock THEN UNCHANGED stall
  ELSE /\ start_var' = FALSE /\ end_var' = FALSE /\ pending' = TRUE
       /\ hasty' = (hasty \/ core0 = "waits") /\ UNCHANGED core0
StallEnd ==
  /\ lock => start_var
  /\ end_var' = (end_var \/ lock) /\ UNCHANGED <<core0, pending, start_var, hasty>>
Stalled ==
  /\ pending /\ core0 = "runs"
  /\ pending' = FALSE /\ core0' = "waits" /\ start_var' = TRUE
  /\ UNCHANGED <<lines, loop, end_var, hasty, overlooked>>
Released ==
  /\ core0 = "waits" /\ end_var /\ core0' = "runs"
  /\ UNCHANGED <<lines, loop, pending, start_var, end_var, hasty, overlooked>>

\* p1_poll_start, p2_poll_start: the first cycle goes by the level
Start(p) == <<p, IF th[p] THEN 1 ELSE 0>>

\* A sample differs from the one before.  Between polls port 1 is looked at first, within
\* a poll the other port, which breaks the poll off; other changes count, whatever level
Follow(changed) ==
  IF pc = None THEN Start(IF 1 \in changed THEN 1 ELSE 2)
  ELSE IF Other(pc[1]) \in changed THEN Start(Other(pc[1]))
  ELSE <<pc[1], pc[2] + 1>>
Sample ==
  /\ serve = None /\ ~ending /\ ~serial /\ th # prev
  /\ cur' = th /\ serve' = Follow({p \in PortIds : th[p] # prev[p]})
  /\ UNCHANGED <<lines, prev, pc, ending, serial, shown, lock, stall, overlooked>>

\* cur_in = prev_in = GPIO.in1.val, with the levels acted upon until then
Resample(acted) ==
  /\ prev' = th
  /\ overlooked' = LET missed == {p \in PortIds : th[p] # acted[p]}
                       right == IF serve # None /\ (pc = None \/ serve[1] # pc[1])
                                THEN overlooked \ {serve[1]} ELSE overlooked
                   IN (right \ missed) \cup (missed \ right)
Acted == IF serve = None THEN prev ELSE [prev EXCEPT ![serve[1]] = cur[serve[1]]]

\* The set of the cycle is shown, core 0 stalled, and the loop waits again; after the
\* last cycle, and for the handshake, it takes its sample later
Show ==
  LET p == serve[1] IN
  /\ serve # None
  /\ shown' = [shown EXCEPT ![p] = Buttons(serve[2])]
  /\ StallStart /\ lock' = TRUE
  /\ pc' = serve /\ serve' = None
  /\ serial' = (dev[p] = "serial" /\ serve[2] = 0)
  /\ ending' = (serve[2] = LastCycle(p))
  /\ IF serial' \/ ending'
     THEN /\ prev' = Acted
          /\ overlooked' = IF pc = None \/ p # pc[1] THEN overlooked \ {p} ELSE overlooked
     ELSE Resample(Acted)
  /\ UNCHANGED <<lines, cur>>

\* set_gen_multitap, set_sega_mouse: with core 0 running, until TH rises or the console
\* stops; a port whose TH is seen high by then ends the poll.  th is the level at the
\* sample that follows
Handshake ==
  LET p == pc[1] IN
  /\ serial /\ StallEnd /\ lock' = FALSE /\ serial' = FALSE
  /\ \E seen \in BOOLEAN :
       /\ shown' = IF seen THEN [shown EXCEPT ![p] = "high"] ELSE shown
       /\ pc' = IF seen THEN None ELSE pc
       /\ Resample([prev EXCEPT ![p] = seen])
  /\ UNCHANGED <<lines, cur, serve, ending>>

\* POLL_TIMEOUT
Timeout ==
  /\ pc # None /\ serve = None /\ ~ending /\ ~serial
  /\ ending' = TRUE
  /\ UNCHANGED <<lines, prev, cur, pc, serve, serial, shown, lock, stall, overlooked>>

\* next_poll and the start of the loop
NextPoll ==
  /\ ending /\ StallEnd /\ lock' = FALSE /\ ending' = FALSE /\ pc' = None
  /\ Resample(prev)
  /\ UNCHANGED <<lines, cur, serve, serial, shown>>

Next ==
  \/ \E p \in PortIds : Toggle(p)
  \/ Sample \/ Show \/ Handshake \/ Timeout \/ NextPoll
  \/ Stalled \/ Released
-----------------------------------------------------------------------------
TypeOK ==
  /\ dev \in DevPairs /\ {th, prev, cur} \subseteq [PortIds -> BOOLEAN]
  /\ {pc, serve} \subseteq {None} \cup (PortIds \X (0..7))
  /\ {ending, serial, lock, pending, start_var, end_var, hasty} \subseteq BOOLEAN
  /\ overlooked \subseteq PortIds /\ core0 \in {"runs", "waits"}

\* Each port shows a set of the level the loop saw there, but for the ports of which a
\* change was overlooked since their poll began: while another was served, or in the same
\* sample as one of the other port
LevelShown == \A p \in PortIds : High(shown[p]) = prev[p] \/ p \in overlooked

\* Core 0 is stalled only while a poll goes on, or until it sees the end of the stall
StallInPoll == core0 = "waits" => lock \/ end_var \/ hasty

\* Once it stands still it does so until the poll ends, but where a stall was hasty
HeldInPoll == lock /\ start_var => core0 = "waits" \/ hasty

\* Both cores never wait for each other, if core 0 sees the end of each stall before the
\* next one begins
NoStuck == lock /\ core0 = "waits" /\ ~start_var => hasty

SegaInv == TypeOK /\ LevelShown /\ StallInPoll /\ HeldInPoll /\ NoStuck
=============================================================================
