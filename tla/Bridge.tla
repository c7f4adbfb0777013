------------------------------- MODULE Bridge -------------------------------
(***************************************************************************)
(* From the reports of the controllers to what the ports show the console  *)
(* (adapter_bridge, adapter_mapping, sys_macro_hdl and from_generic of the *)
(* Nintendo 64 driver; that of the others is alike).  Each report maps the *)
(* buttons of one controller, by the configuration of its out_idx, to      *)
(* buttons of any ports, and leaves the other buttons of the ports as they *)
(* were.  All of it runs in the callback of the Bluetooth controller.      *)
(*                                                                         *)
(* A button of a controller stands for half an axis too, pressed when it   *)
(* is beyond the threshold.  Turbo and the scale of axes are left out.     *)
(***************************************************************************)
EXTENDS Naturals

CONSTANTS
  Devs,      \* slots; ports have their numbers too
  Srcs,      \* buttons of a controller
  Cleared,   \* ports whose ctrl_output is cleared by meta_init of the driver (the first 4)
  Configs,   \* config.in_cfg: a set of <<src, port, dst>> for each out_idx
  Macros     \* each a set of dst buttons of the fourth word

VARIABLES
  cfg, paired, out_idx,
  word,      \* ctrl_output's buttons of the ports that are not cleared
  shown,     \* wired_adapter.data output: the buttons pressed on each port
  flags,     \* WIRED_WAITING_FOR_RELEASE of each port
  mflags,    \* BT_WAITING_FOR_RELEASE_MACROn of each slot: macros that were complete
  meant,     \* history: what the last report of each controller pressed, <<port, dst>>
  combo,     \* history: the macro buttons it pressed for its own port, and that port
  left       \* history: buttons <<port, dst>> nothing will release

mapVars == <<cfg, paired, out_idx>>
outVars == <<word, shown, flags, mflags>>
histVars == <<meant, combo, left>>
vars == <<mapVars, outVars, histVars>>

ComboBtns == UNION Macros
Toggle == "toggle"      \* PAD_MT: exchanges the pak
Special == ComboBtns \cup {Toggle}   \* no console has these

Init ==
  /\ cfg \in Configs /\ paired = {} /\ out_idx = [d \in Devs |-> d]
  /\ word = [p \in Devs |-> {}] /\ shown = [p \in Devs |-> {}] /\ flags = {}
  /\ mflags = [d \in Devs |-> {}]
  /\ meant = [d \in Devs |-> {}] /\ combo = [d \in Devs |-> <<d, {}>>] /\ left = {}

\* adapter_mapping: for each port of the mappings, what they drive and what is pressed
Map(d) == cfg[out_idx[d]]
Driven(d) == {<<m[2], m[3]>> : m \in Map(d)}
Presses(d, srcs) == {<<m[2], m[3]>> : m \in {n \in Map(d) : n[1] \in srcs}}
Of(pairs, p) == {x[2] : x \in {y \in pairs : y[1] = p}}

\* wired_meta_init clears ctrl_output, but not all of it
Values(d, srcs, p) == Of(Presses(d, srcs), p) \cup (IF p \in Cleared THEN {} ELSE word[p])

\* sys_macro_hdl: a macro is flagged by the report that completes it; the next one that
\* does not clears the flag and gives the command to sys_mgr_task (SysManager)
Complete(d, srcs) ==
  {m \in Macros : m = Values(d, srcs, out_idx[d]) \cap ComboBtns}

\* n64_ctrl_special_action, on each port of the mappings: likewise, with the toggle of
\* the pak (Nsi, Rumble)
Pressing(d, srcs) == {p \in Devs : Toggle \in Values(d, srcs, p) /\ <<p, Toggle>> \in Driven(d)}
Releasing(d, srcs) ==
  {p \in flags : <<p, Toggle>> \in Driven(d)} \ Pressing(d, srcs)

Report(d) ==
  \E srcs \in SUBSET Srcs :
    /\ d \in paired
    /\ meant' = [meant EXCEPT ![d] = Presses(d, srcs)]
    /\ combo' = [combo EXCEPT ![d] =
                   <<out_idx[d], Of(Presses(d, srcs), out_idx[d]) \cap ComboBtns>>]
    /\ left' = left \ Driven(d)
    /\ shown' = [p \in Devs |->
                   LET driven == Of(Driven(d), p) \ Special
                   IN (shown[p] \ driven) \cup (Values(d, srcs, p) \cap driven)]
    /\ word' = [p \in Devs |-> IF p \in Cleared THEN {} ELSE Values(d, srcs, p)]
    /\ mflags' = [mflags EXCEPT ![d] = Complete(d, srcs)]
    /\ flags' = (flags \cup Pressing(d, srcs)) \ Releasing(d, srcs)
    /\ UNCHANGED mapVars

\* What a controller held and its mappings no longer drive
Forsaken(d, newcfg, newidx) ==
  meant[d] \ {<<m[2], m[3]>> : m \in newcfg[newidx[d]]}

\* The configuration is edited or that of another game is loaded; sys_mgr_task gives the
\* controllers other numbers, for the pads that are plugged
Configure(c) ==
  /\ cfg' = c
  /\ left' = left \cup UNION {Forsaken(d, c, out_idx) : d \in paired}
  /\ UNCHANGED <<paired, out_idx, outVars, meant, combo>>
Renumber(d, i) ==
  /\ i >= d
  /\ out_idx' = [out_idx EXCEPT ![d] = i]
  /\ left' = IF d \in paired THEN left \cup Forsaken(d, cfg, out_idx') ELSE left
  /\ UNCHANGED <<cfg, paired, outVars, meant, combo>>

Pair(d) == d \notin paired /\ paired' = paired \cup {d}
           /\ UNCHANGED <<cfg, out_idx, outVars, histVars>>

InitNoBuffer(d) == UNCHANGED shown   \* mutant: no buffer is reset

\* bt_host_reset_dev: the buffer of the port that has the number of the slot is reset,
\* whatever ports the controller was mapped to
InitBuffer(d) == shown' = [shown EXCEPT ![d] = {}]

Leave(d) ==
  /\ d \in paired /\ paired' = paired \ {d}
  /\ InitBuffer(d)
  /\ out_idx' = [out_idx EXCEPT ![d] = d]
  /\ mflags' = [mflags EXCEPT ![d] = {}]
  /\ meant' = [meant EXCEPT ![d] = {}] /\ combo' = [combo EXCEPT ![d] = <<d, {}>>]
  /\ left' = {x \in left \cup meant[d] : x[1] # d \/ x[2] = Toggle}
  /\ UNCHANGED <<cfg, word, flags>>

\* sys_mgr_wired_reinit_task: the buffers of all ports are reset
Restart ==
  /\ shown' = [p \in Devs |-> {}]
  /\ left' = {x \in left : x[2] = Toggle}
  /\ UNCHANGED <<mapVars, word, flags, mflags, meant, combo>>

Next ==
  \/ \E d \in Devs : \/ Report(d) \/ Pair(d) \/ Leave(d)
                      \/ \E i \in Devs : Renumber(d, i)
  \/ \E c \in Configs : Configure(c)
  \/ Restart
-----------------------------------------------------------------------------
TypeOK ==
  /\ cfg \in Configs /\ paired \subseteq Devs /\ out_idx \in [Devs -> Devs]
  /\ flags \subseteq Devs /\ mflags \in [Devs -> SUBSET Macros]

Means(x) == \E d \in paired : x \in meant[d]

\* No button stays pressed on a port of the console without a controller whose last
\* report pressed it there, but those in left: a controller went while it held a button
\* of another port than that of its slot, or its mappings changed while it held one
NoGhosts ==
  \A p \in Cleared : \A b \in shown[p] : Means(<<p, b>>) \/ <<p, b>> \in left

\* A macro waits for its release only if the controller of the slot itself completed it,
\* with its last report; on ports that are not cleared old buttons may complete it
MacroPressed ==
  \A d \in Devs : \A m \in mflags[d] :
    combo[d][1] \in Cleared => d \in paired /\ combo[d][2] = m

\* A toggle of the pak waits for its release only if a controller holds its button, or
\* went while it did: then the first report of the next one exchanges the pak
TogglePressed ==
  \A p \in flags \cap Cleared : Means(<<p, Toggle>>) \/ <<p, Toggle>> \in left

BridgeInv == TypeOK /\ NoGhosts /\ MacroPressed /\ TogglePressed
=============================================================================
