----------------------------- MODULE WebConfig -----------------------------
(***************************************************************************)
(* The configuration in memory and its files (adapter/config.c), the id of *)
(* the game that chooses between them (adapter/gameid.c, host.c), and the  *)
(* commands of the web page that edit and store it (att_cfg.c).            *)
(*                                                                         *)
(* Two tasks run config_init and config_update with no lock between them:  *)
(* "bt", the callback that serves the web page (before it, app_main), and  *)
(* "fb", bt_fb_task, which reloads the configuration when the console      *)
(* names another game.  Every access to config_src and to a file is a step.*)
(*                                                                         *)
(* A configuration is a head (global_cfg, out_cfg) and a tail (in_cfg),    *)
(* each with the file it comes from and the edits it holds; its magic is   *)
(* written as the version config_get_version gives it.  fopen "wb" empties *)
(* a file, so a power cut leaves nothing, the head, or all of it.          *)
(***************************************************************************)
EXTENDS Integers, FiniteSets

CONSTANTS
  Games,      \* names of games that have a file of their own
  OldFiles,   \* versions the files may have at the first start
  OldModes,   \* and the modes
  MaxEvents   \* bound: edits and other commands, changes of the game id, files that
              \* cannot be opened, power cuts and restarts, taken together

ASSUME WebAssumption ==
  /\ OldFiles \subseteq 0..3 /\ OldModes \subseteq {0, 1} /\ MaxEvents \in Nat
  /\ {"default", "none", "zero"} \cap Games = {}

Keys == Games \cup {"default"}  \* CONFIG_FILE and the files named for games
Tasks == {"bt", "fb"}
Edits == 0..MaxEvents           \* 0: what the user had set before the first start
Modes == {0, 1}                 \* multitap_cfg and dev_mode, which the wired core reads once
CONFIG_VERSION == 3

Parts(k, edits, mode, combos) ==
  [head |-> [own |-> k, edits |-> edits, mode |-> mode],
   tail |-> [own |-> k, edits |-> edits, combos |-> combos]]
Config(magic, parts) == [magic |-> magic, head |-> parts.head, tail |-> parts.tail]
Zero == Config(-1, Parts("zero", {}, 0, 0))
\* What config_init_struct writes
Fresh(k) == Config(CONFIG_VERSION, Parts(k, {}, 0, 1))

File(len, data) == [len |-> len, data |-> data]
Absent == File("absent", Zero)
\* A file of an earlier session, written by a firmware of version v
Old(k, v, mode) ==
  File("full", Config(v, Parts(k, {0}, mode, IF v = CONFIG_VERSION THEN 1 ELSE 0)))

VARIABLES
  config, config_src, gid, file,
  ota_hdl,           \* att_cfg.c: an update of the firmware is open
  task,              \* where each task is, and its locals; in met, as history, whether
                     \* the other was at work too since it began
  up,                \* start-up has loaded the configuration
  core, rst_bare, rst_magic, rst_mode, wired_rst,
                     \* the mode the wired core runs with; config_rst_bare_core, the
                     \* statics of config_is_rst_required, and the command it queues
  events,            \* bound
  prepared,          \* history: edits prepared and not yet executed
  promise,           \* history: the edits each file is to hold
  harmed,            \* history: files that a fault has left in part, or that a task turned
                     \* to while, or after, the other was in config.c as well
  missed             \* history: a comparison was void while the core ran another mode, or
                     \* made beside the other task, or the core started amid an upgrade

cfgVars == <<config, config_src, file>>
coreVars == <<core, rst_bare, rst_magic, rst_mode, wired_rst>>
histVars == <<prepared, promise, harmed, missed>>
vars == <<cfgVars, gid, ota_hdl, task, up, coreVars, events, histVars>>

Idle == [at |-> "idle", dst |-> "default", key |-> "default", chain |-> CONFIG_VERSION,
         end |-> "none", arg |-> "default", home |-> "default", new |-> {},
         met |-> FALSE]
\* config_init and config_update as called: dst, what follows, and what it is about
Call(at, dst, end) == [Idle EXCEPT !.at = at, !.dst = dst, !.end = end]
Boot == Call("init", "default", "boot")

Init ==
  /\ file \in [Keys -> {Absent} \cup {Old(k, v, m) : k \in Keys, v \in OldFiles, m \in OldModes}]
  /\ \A k \in Keys : file[k].data.head.own \in {k, "zero"}
  /\ config = Zero /\ config_src = "default" /\ gid = "none" /\ ota_hdl = FALSE
  /\ task = [t \in Tasks |-> IF t = "bt" THEN Boot ELSE Idle] /\ up = FALSE
  /\ core = -1 /\ rst_bare = FALSE /\ rst_magic = -1 /\ rst_mode = 0 /\ wired_rst = FALSE
  /\ events = 0
  /\ prepared = {} /\ promise = [k \in Keys |-> file[k].data.head.edits]
  /\ harmed = {k \in Keys : file[k].len = "full" /\ file[k].data.magic = 0} /\ missed = FALSE

\* The file config_src stands for
Current == IF config_src = "gameid" THEN gid ELSE "default"
At(t, at) == task[t].at = at
Goto(t, at) == task' = [task EXCEPT ![t].at = at]
Quiet == \A t \in Tasks : At(t, "idle")
Busy(k) == \E t \in Tasks : ~At(t, "idle") /\ task[t].key = k
Event == events < MaxEvents /\ events' = events + 1
\* The files in use when t turns to k and the other task is, or was, at work too
Clash(t, k) ==
  harmed \cup {j \in Keys :
    \/ task[t].met /\ j \in {k, Current}
    \/ \E o \in Tasks \ {t} : ~At(o, "idle") /\ j \in {k, Current, task[o].key, task[o].home}}
-----------------------------------------------------------------------------
(* config_init: choose a file, load it, bring it up to date *)

InitSrc(t) ==
  /\ At(t, "init") /\ config_src' = "default" /\ Goto(t, "choose")
  /\ UNCHANGED <<config, file, gid, ota_hdl, up, coreVars, events, histVars>>

Choose(t) ==
  LET named == task[t].dst = "gameid" /\ gid # "none"
      found == named /\ file[gid].len # "absent"
  IN /\ At(t, "choose")
     /\ config_src' = IF found THEN "gameid" ELSE config_src
     /\ task' = [task EXCEPT ![t].at = "load", ![t].key = IF found THEN gid ELSE "default"]
     /\ harmed' = Clash(t, task'[t].key)
     /\ UNCHANGED <<config, file, gid, ota_hdl, up, coreVars, events, prepared, promise, missed>>

\* fread of the whole structure into what memory held before
Fread(f) ==
  CASE f.len = "full" -> f.data
    [] f.len = "head" -> [f.data EXCEPT !.tail = config.tail]
    [] OTHER -> config

(* config_load_from_file, up to the first store or step of the upgrade *)
Loaded(t, data) ==
  /\ config' = IF data.magic = -1 THEN Fresh(task[t].key) ELSE data
  /\ task' = [task EXCEPT
       ![t].at = CASE data.magic = -1 -> "open"
                   [] data.magic = CONFIG_VERSION -> "check"
                   [] OTHER -> "upgrade",
       ![t].chain = IF data.magic = -1 THEN CONFIG_VERSION ELSE data.magic]

Load(t) ==
  LET k == task[t].key
  IN /\ At(t, "load")
     /\ \/ /\ file[k].len = "absent"
           /\ config' = Fresh(k) /\ Goto(t, "open") /\ UNCHANGED <<events, harmed>>
        \/ /\ file[k].len # "absent"
           /\ Loaded(t, Fread(file[k])) /\ UNCHANGED <<events, harmed>>
        \/ /\ file[k].len # "absent" /\ Event /\ harmed' = harmed \cup {k}
           /\ Loaded(t, config)
     /\ prepared' = {}
     /\ UNCHANGED <<config_src, file, gid, ota_hdl, up, coreVars, promise, missed>>

UpgradeTwice(t) ==  \* mutant: the default combinations are added by two steps
  LET k == task[t].key
      v == task[t].chain
  IN /\ At(t, "upgrade")
     /\ config' = [config EXCEPT !.magic = CONFIG_VERSION, !.tail.combos = @ + 1]
     /\ task' = [task EXCEPT ![t].at = "open", ![t].chain = v + 1]
     /\ UNCHANGED <<config_src, file, gid, ota_hdl, up, coreVars, events, histVars>>

(* config_v0_update, _v1_, _v2_: each stores what it made.  The step from  *)
(* version 1 reads the tail again, from a file that the step from version  *)
(* 0 has overwritten: it then resets everything.                           *)
Upgraded(k, v) ==
  CASE v = 0 -> [config EXCEPT !.tail.edits = {}]
    [] v = 1 -> IF file[k].len = "full" /\ file[k].data.magic = 1
                THEN [config EXCEPT !.tail = file[k].data.tail] ELSE Fresh(k)
    [] v = 2 -> [config EXCEPT !.tail.combos = @ + 1]

Upgrade(t) ==
  LET v == task[t].chain
  IN /\ At(t, "upgrade")
     /\ config' = [Upgraded(task[t].key, v) EXCEPT !.magic = CONFIG_VERSION]
     /\ task' = [task EXCEPT ![t].at = "open", ![t].chain = v + 1]
     /\ UNCHANGED <<config_src, file, gid, ota_hdl, up, coreVars, events, histVars>>
-----------------------------------------------------------------------------
(* config_update: choose a file and store *)

UpdateSrc(t) ==
  /\ At(t, "update") /\ config_src' = "default" /\ Goto(t, "pick")
  /\ UNCHANGED <<config, file, gid, ota_hdl, up, coreVars, events, histVars>>

\* The command that makes a game's file out of the configuration in use gives
\* what is in memory to that game
Pick(t) ==
  LET named == task[t].dst = "gameid" /\ gid # "none"
      k == IF named THEN gid ELSE "default"
      copied == task[t].end = "copied" /\ named
  IN /\ At(t, "pick")
     /\ config_src' = IF named THEN "gameid" ELSE config_src
     /\ task' = [task EXCEPT ![t].at = "open", ![t].key = k,
                             ![t].new = IF copied THEN config.head.edits \cup config.tail.edits ELSE @]
     /\ config' = IF copied THEN [config EXCEPT !.head.own = k, !.tail.own = k] ELSE config
     /\ harmed' = Clash(t, k) \cup (IF copied /\ task[t].home \in harmed THEN {k} ELSE {})
     /\ UNCHANGED <<file, gid, ota_hdl, up, coreVars, events, prepared, promise, missed>>

Stored(t) == IF task[t].chain < CONFIG_VERSION THEN "upgrade" ELSE "check"

(* config_store_on_file: fopen, which may fail, then fwrite and fclose *)
Open(t) ==
  LET k == task[t].key
  IN /\ At(t, "open")
     /\ \/ file' = [file EXCEPT ![k] = File("empty", Zero)] /\ Goto(t, "write")
           /\ UNCHANGED <<events, harmed>>
        \/ Event /\ harmed' = harmed \cup {k} /\ Goto(t, Stored(t)) /\ UNCHANGED file
     /\ UNCHANGED <<config, config_src, gid, ota_hdl, up, coreVars, prepared, promise, missed>>

Write(t) ==
  /\ At(t, "write")
  /\ file' = [file EXCEPT ![task[t].key] = File("full", config)]
  /\ Goto(t, Stored(t))
  /\ UNCHANGED <<config, config_src, gid, ota_hdl, up, coreVars, events, histVars>>

CheckBlind(t) ==  \* mutant: what the core was started with is forgotten before it is compared
  /\ At(t, "check") /\ Goto(t, "end")
  /\ rst_mode' = config.head.mode /\ rst_magic' = config.magic
  /\ UNCHANGED <<cfgVars, gid, ota_hdl, up, core, rst_bare, wired_rst, events, histVars>>

(* config_rst_bare_core && config_is_rst_required(): without the first     *)
(* nothing is compared or remembered; a change of magic makes it void.     *)
Check(t) ==
  LET mode == config.head.mode
      void == rst_magic # config.magic
  IN /\ At(t, "check") /\ Goto(t, "end")
     /\ IF rst_bare
        THEN /\ wired_rst' = (wired_rst \/ (rst_mode # mode /\ ~void))
             /\ rst_mode' = mode /\ rst_magic' = config.magic
             /\ missed' = \/ missed
                          \/ void /\ core # mode /\ ~wired_rst
                          \/ \E o \in Tasks \ {t} : ~At(o, "idle")
        ELSE UNCHANGED <<wired_rst, rst_mode, rst_magic, missed>>
     /\ UNCHANGED <<cfgVars, gid, ota_hdl, up, core, rst_bare, events, prepared, promise,
                    harmed>>

(* What the caller does next: remove a file, answer the web page *)
End(t) ==
  LET c == task[t]
      gone == CASE c.end = "remove" -> {c.arg} [] c.end = "rm_gid" -> {gid} \cap Games
                [] OTHER -> {}
      kept == CASE c.end = "saved" -> [promise EXCEPT ![c.home] = @ \cup c.new]
                [] c.end = "copied" /\ c.key \in Games -> [promise EXCEPT ![c.key] = c.new]
                [] OTHER -> promise
  IN /\ At(t, "end")
     /\ file' = [k \in Keys |-> IF k \in gone THEN Absent ELSE file[k]]
     /\ promise' = [k \in Keys |-> IF k \in gone THEN {} ELSE kept[k]]
     /\ task' = [task EXCEPT ![t] = Idle]
     /\ up' = (up \/ c.end = "boot")
     /\ UNCHANGED <<config, config_src, gid, ota_hdl, coreVars, events, prepared, harmed, missed>>
-----------------------------------------------------------------------------
(* The web page: bt_att_cfg_hdlr *)

Begin(t, call) ==
  /\ up /\ At(t, "idle")
  /\ LET met == ~Quiet
     IN  task' = [o \in Tasks |-> IF o = t THEN [call EXCEPT !.met = met]
                                 ELSE [task[o] EXCEPT !.met = ~At(o, "idle")]]
  /\ harmed' = Clash(t, Current)

\* config_update(config_get_src()) with what it stores
Save(new) ==
  [Call("update", config_src, "saved") EXCEPT !.home = Current, !.new = new]

WriteHeadLate(mode) ==  \* mutant: the configuration is stored before it is changed
  /\ Event /\ Begin("bt", Save({events + 1}))
  /\ UNCHANGED config
  /\ UNCHANGED <<config_src, file, gid, ota_hdl, up, coreVars, prepared, promise, missed>>

(* WRITE_REQ to BR_GLBL_CFG or BR_OUT_CFG_DATA *)
WriteHead(mode) ==
  /\ Event /\ Begin("bt", Save({events + 1}))
  /\ config' = [config EXCEPT !.head.edits = @ \cup {events + 1}, !.head.mode = mode]
  /\ UNCHANGED <<config_src, file, gid, ota_hdl, up, coreVars, prepared, promise, missed>>

(* WRITE_REQ to BR_IN_CFG_DATA *)
WriteTail ==
  /\ Event /\ Begin("bt", Save({events + 1}))
  /\ config' = [config EXCEPT !.tail.edits = @ \cup {events + 1}]
  /\ UNCHANGED <<config_src, file, gid, ota_hdl, up, coreVars, prepared, promise, missed>>

(* PREPARE_WRITE_REQ: the configuration in use changes at once *)
Prepare ==
  /\ up /\ At("bt", "idle") /\ Event
  /\ config' = [config EXCEPT !.tail.edits = @ \cup {events + 1}]
  /\ prepared' = prepared \cup {events + 1}
  /\ harmed' = Clash("bt", Current)
  /\ UNCHANGED <<config_src, file, gid, ota_hdl, task, up, coreVars, promise, missed>>

(* EXEC_WRITE_REQ: what was prepared is stored, unless a firmware update is *)
(* open or it is to be cancelled, which takes nothing back.                 *)
Exec ==
  /\ ~ota_hdl /\ Begin("bt", Save(prepared)) /\ prepared' = {}
  /\ UNCHANGED <<cfgVars, gid, ota_hdl, up, coreVars, events, promise, missed>>

Cancel ==
  /\ up /\ At("bt", "idle") /\ prepared # {} /\ prepared' = {}
  /\ UNCHANGED <<cfgVars, gid, ota_hdl, task, up, coreVars, events, promise, harmed, missed>>

(* CFG_CMD_SET_DEFAULT_CFG, CFG_CMD_SET_GAMEID_CFG, CFG_CMD_DEL_FILE *)
SetDefault ==
  /\ Event
  /\ Begin("bt", Call("init", "default", "rm_gid"))
  /\ UNCHANGED <<cfgVars, gid, ota_hdl, up, coreVars, prepared, promise, missed>>

SetGameId ==
  /\ Event
  /\ Begin("bt", [Call("update", "gameid", "copied") EXCEPT !.home = Current])
  /\ UNCHANGED <<cfgVars, gid, ota_hdl, up, coreVars, prepared, promise, missed>>

DelFile(k) ==
  /\ Event
  /\ Begin("bt", [Call(IF k = gid THEN "init" ELSE "end", "default", "remove") EXCEPT !.arg = k])
  /\ UNCHANGED <<cfgVars, gid, ota_hdl, up, coreVars, prepared, promise, missed>>

(* CFG_CMD_OTA_START, which may fail; OTA_ABORT or an OTA_END that works;  *)
(* an OTA_END that fails, like a link that ends, leaves the handle set.    *)
OtaStart ==
  /\ up /\ At("bt", "idle") /\ Event /\ ~ota_hdl /\ ota_hdl' = TRUE
  /\ UNCHANGED <<cfgVars, gid, task, up, coreVars, histVars>>

OtaEnd ==
  /\ up /\ At("bt", "idle") /\ ota_hdl /\ ota_hdl' = FALSE
  /\ UNCHANGED <<cfgVars, gid, task, up, coreVars, events, histVars>>
-----------------------------------------------------------------------------
(* FB_TYPE_GAME_ID or FB_TYPE_SYS_ID with another name than the last *)
GidUpdate(g) ==
  /\ g # gid /\ Event
  /\ Begin("fb", Call("init", "gameid", "none"))
  /\ gid' = g
  /\ UNCHANGED <<cfgVars, ota_hdl, up, coreVars, prepared, promise, missed>>

(* wired_init_task on core 1, once config.magic is right *)
CoreStart ==
  /\ core = -1 /\ config.magic = CONFIG_VERSION
  /\ core' = config.head.mode /\ rst_bare' = TRUE
  /\ UNCHANGED <<cfgVars, gid, ota_hdl, task, up, rst_magic, rst_mode, wired_rst, events,
                 histVars>>

(* SYS_MGR_CMD_WIRED_RST: core 1 starts again, with what an upgrade that is *)
(* under way has made so far.                                              *)
WiredReset ==
  /\ wired_rst /\ wired_rst' = FALSE /\ core' = config.head.mode
  /\ missed' = (~Quiet /\ (missed \/ \E t \in Tasks : task[t].chain < CONFIG_VERSION))
  /\ UNCHANGED <<cfgVars, gid, ota_hdl, task, up, rst_bare, rst_magic, rst_mode, events, prepared,
                 promise, harmed>>

(* Power cut, SYS_MGR_CMD_ADAPTER_RST or SYS_MGR_CMD_DEEP_SLEEP *)
Cut ==
  LET storing == {task[t].key : t \in {o \in Tasks : At(o, "write")}}
      between == {k \in Keys : /\ file[k].data.magic = CONFIG_VERSION /\ file[k].data.tail.combos = 0
                             /\ \E t \in Tasks : task[t].key = k /\ task[t].at \in {"upgrade", "open"}}
  IN /\ Event
     /\ \E len \in {"empty", "head", "full"} :
          file' = [k \in Keys |->
            IF k \notin storing \/ len = "empty" THEN file[k]
            ELSE File(len, IF len = "full" THEN config ELSE [config EXCEPT !.tail = Zero.tail])]
     /\ harmed' = harmed \cup storing \cup between
     /\ config' = Zero /\ config_src' = "default" /\ gid' = "none" /\ ota_hdl' = FALSE
     /\ task' = [t \in Tasks |-> IF t = "bt" THEN Boot ELSE Idle] /\ up' = FALSE
     /\ core' = -1 /\ rst_bare' = FALSE /\ rst_magic' = -1 /\ rst_mode' = 0 /\ wired_rst' = FALSE
     /\ prepared' = {} /\ missed' = FALSE /\ UNCHANGED promise

Next ==
  \/ \E t \in Tasks :
       \/ InitSrc(t) \/ Choose(t) \/ Load(t) \/ Upgrade(t) \/ UpdateSrc(t) \/ Pick(t)
       \/ Open(t) \/ Write(t) \/ Check(t) \/ End(t)
  \/ \E mode \in Modes : WriteHead(mode)
  \/ WriteTail \/ Prepare \/ Exec \/ Cancel \/ SetDefault \/ SetGameId \/ OtaStart \/ OtaEnd
  \/ \E k \in Keys : DelFile(k)
  \/ \E g \in Games \cup {"none"} : GidUpdate(g)
  \/ CoreStart \/ WiredReset \/ Cut

Spec == Init /\ [][Next]_vars
-----------------------------------------------------------------------------
ContentType ==
  [magic : -1..3,
   head : [own : Keys \cup {"zero"}, edits : SUBSET Edits, mode : Modes],
   tail : [own : Keys \cup {"zero"}, edits : SUBSET Edits, combos : Nat]]

TypeOK ==
  /\ config \in ContentType /\ config_src \in {"default", "gameid"}
  /\ gid \in Games \cup {"none"}
  /\ \A k \in Keys : /\ file[k].len \in {"absent", "empty", "head", "full"}
                     /\ file[k].data \in ContentType
  /\ \A t \in Tasks : task[t].key \in Keys /\ task[t].chain \in 0..CONFIG_VERSION
  /\ core \in Modes \cup {-1} /\ prepared \subseteq Edits /\ harmed \subseteq Keys

\* While the tasks kept out of each other's way, the configuration in use is
\* that of the file config_src names, which exists.
SourceBacked ==
  Quiet /\ up /\ Current \notin harmed =>
    /\ config.head.own = Current /\ config.tail.own = Current
    /\ config_src = "gameid" => gid \in Games /\ file[gid].len # "absent"

\* No file has the settings of another, and none has the default combinations
\* twice or not at all.
FilesApart ==
  \A k \in Keys \ harmed :
    file[k].len = "full" /\ file[k].data.magic = CONFIG_VERSION /\ ~Busy(k) =>
      /\ file[k].data.head.own = k /\ file[k].data.tail.own = k
      /\ file[k].data.tail.combos = 1

\* The settings files: each is the one in use or its own, whatever commands,
\* games and restarts follow one another (config_init, config_update).
Inv == TypeOK /\ SourceBacked /\ FilesApart

\* A setting the web page was told is stored stays in the file it was meant
\* for: through other edits, changes of game, upgrades and restarts.
SettingsKept ==
  \A k \in Keys \ harmed :
    ~Busy(k) => promise[k] \subseteq file[k].data.head.edits \cup file[k].data.tail.edits

\* The wired core runs with the modes of the configuration in use, or is about
\* to be started again: only a comparison made void by a new magic (the first
\* one after a start), one made while the other task changes what is compared,
\* or a start amid an upgrade can leave it behind.
CoreFollows ==
  Quiet /\ rst_bare /\ rst_magic = CONFIG_VERSION /\ ~missed =>
    core = config.head.mode \/ wired_rst
=============================================================================
